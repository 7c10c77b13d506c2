------------------------------ MODULE Keystore ------------------------------
(***************************************************************************)
(* The auditor's keystore on disk (signer/internal/keystore) and the       *)
(* signer processes that use it: "keystore create" and "keystore import"   *)
(* write the key file, and signDigest unlocks it.  Four files lie next to  *)
(* one another: the key, the throttle state, the hash-chained audit log    *)
(* with its anchor, and the lock that serialises appends to the two logs.  *)
(*                                                                         *)
(* Several processes may use one keystore, and each file operation is a    *)
(* step of its own.  Time is kept as ages and countdowns, which Tick moves *)
(* together.  A crash leaves every file as it is, the lock included.       *)
(***************************************************************************)
EXTENDS Integers, Sequences, FiniteSets

CONSTANTS
    Process,               \* signer processes
    Digests,               \* digests they are asked to sign
    TestMode,              \* values of --unsafe-test-mode
    Passwords,             \* passwords that are entered
    Keystores,             \* key files that may already be at the path, <<>> for none
    auditLockTimeout,      \* how long an append waits for the lock
    auditLockStaleAfter,   \* age at which a lock counts as abandoned
    throttleFreeAttempts,
    throttleBase,
    throttleMax,
    throttleMaxShift,
    MaxAttempts,           \* commands of a behaviour
    MaxFaults              \* crashes and failed writes of a behaviour

ASSUME KeystoreAssumption ==
    /\ {auditLockTimeout, auditLockStaleAfter, throttleFreeAttempts, throttleBase,
        throttleMax, throttleMaxShift, MaxAttempts, MaxFaults} \subseteq Nat
    /\ throttleBase > 0 /\ throttleBase <= throttleMax

VARIABLES
    key,        \* the key file, <<>> when there is none
    throttle,   \* the throttle file, <<>> when there is none
    lock,       \* the lock file: its age, <<>> when there is none
    log,        \* the audit log's lines
    anchor,     \* the anchor log's lines
    proc,       \* what each process is doing
    released,   \* signatures handed out, with the mode they were made in
    attempts,   \* commands started
    faults,     \* crashes and failed writes so far
    \* History, read by the properties only.
    misses,     \* failed unlocks since the last successful one
    disturbed   \* what happened that the files cannot make up for

files == <<key, throttle, lock, log, anchor>>
vars == <<files, proc, released, attempts, faults, misses, disturbed>>

-----------------------------------------------------------------------------
(* The key file.                                                           *)

MinArgon2Time == 3
MinArgon2MemoryKiB == 64 * 1024
MinArgon2Threads == 4
MaxArgon2Time == 100
MaxArgon2MemoryKiB == 2 * 1024 * 1024
MaxArgon2Threads == 64
argon2SaltLen == 16
gcmStandardNonceSize == 12
expectedCiphertextLen == 48

MinScrypt == [n |-> 2^17, r |-> 8, p |-> 1]
MaxScrypt == [n |-> 2^22, r |-> 64, p |-> 16]
maxScryptMemoryKiB == 2^20
MinPBKDF2Iterations == 600000
MaxPBKDF2Iterations == 10000000

AtMost(a, b) == \A f \in DOMAIN a : a[f] <= b[f]

(* What CreateNative encodes for a key and a password. *)
CreateNative(addr, password) ==
    [format |-> "native", cipher |-> "aes-256-gcm", kdf |-> "argon2id",
     params |-> [time |-> MinArgon2Time, memory |-> MinArgon2MemoryKiB, threads |-> MinArgon2Threads],
     salt |-> argon2SaltLen, nonce |-> gcmStandardNonceSize, ciphertext |-> expectedCiphertextLen,
     password |-> password, address |-> addr, declared |-> addr, ownerOnly |-> TRUE, small |-> TRUE]

(* A file that was created and not written: it is not JSON. *)
EmptyKeyFile == [format |-> "none", ownerOnly |-> TRUE, small |-> TRUE]

(* A password's length in bytes, its number of distinct runes and whether  *)
(* it is on the blocklist.                                                 *)
MinPasswordLength == 12
ValidatePassword(password) ==
    /\ password.length >= MinPasswordLength
    /\ ~password.listed
    /\ password.distinct >= 6

loadNative(f, password) ==
    /\ f.cipher = "aes-256-gcm" /\ f.kdf = "argon2id"
    /\ AtMost([time |-> MinArgon2Time, memory |-> MinArgon2MemoryKiB, threads |-> MinArgon2Threads], f.params)
    /\ AtMost(f.params, [time |-> MaxArgon2Time, memory |-> MaxArgon2MemoryKiB, threads |-> MaxArgon2Threads])
    /\ f.salt = argon2SaltLen /\ f.nonce = gcmStandardNonceSize /\ f.ciphertext = expectedCiphertextLen
    /\ f.password = password
    /\ f.address = f.declared

checkV3KDFStrength(f) ==
    \/ /\ f.kdf = "scrypt"
       /\ AtMost(MinScrypt, f.params)
       /\ \E k \in 0..30 : f.params.n = 2^k
       /\ AtMost(f.params, MaxScrypt)
       /\ (f.params.n \div 8) * f.params.r <= maxScryptMemoryKiB
    \/ /\ f.kdf = "pbkdf2"
       /\ f.params.c \in MinPBKDF2Iterations..MaxPBKDF2Iterations

Load(file, password) ==
    \E f \in {file[i] : i \in DOMAIN file} :
        /\ f.ownerOnly /\ f.small
        /\ CASE f.format = "native" -> loadNative(f, password)
             [] f.format = "v3" -> checkV3KDFStrength(f) /\ f.password = password
             [] OTHER -> FALSE

-----------------------------------------------------------------------------
(* The audit log.  A line is an event or the beginning of one; a hash      *)
(* stands for everything it covers.                                        *)

hashEvent(e) == <<e.prevHash, e.seq, e.event, e.digest>>
TornLine == [event |-> "torn", seq |-> 0, digest |-> "none", prevHash |-> <<>>, hash |-> <<>>]

verifyChain(lines) ==
    \A i \in DOMAIN lines :
        /\ lines[i].event # "torn"
        /\ lines[i].prevHash = (IF i = 1 THEN <<>> ELSE lines[i - 1].hash)
        /\ lines[i].seq = i
        /\ lines[i].hash = hashEvent(lines[i])

(* The entry that follows the lines read, or nothing when they do not verify. *)
NextEntry(lines, event, digest) ==
    LET e == [event |-> event, digest |-> digest, seq |-> Len(lines) + 1, hash |-> <<>>,
              prevHash |-> IF lines = <<>> THEN <<>> ELSE lines[Len(lines)].hash]
    IN  IF verifyChain(lines) THEN <<[e EXCEPT !.hash = hashEvent(e)]>> ELSE <<>>

(* Writing after the beginning of a line continues that line. *)
AppendLine(lines, line) ==
    IF lines # <<>> /\ lines[Len(lines)].event = "torn" THEN lines ELSE Append(lines, line)

AnchorOf(e) == [event |-> "anchor", seq |-> e.seq, hash |-> e.hash]
TornAnchor == [event |-> "torn", seq |-> 0, hash |-> <<>>]

-----------------------------------------------------------------------------
(* A process's place in its command and what it has read.                  *)

Idle == [pc |-> "idle", digest |-> "none", unsafe |-> FALSE, password |-> <<>>, create |-> <<>>,
         seen |-> <<>>, failures |-> 0, event |-> "none", entry |-> <<>>, waited |-> 0, ok |-> TRUE]

At(p, pc) == proc[p].pc = pc
Goto(p, pc) == proc' = [proc EXCEPT ![p].pc = pc]
Done(p) == proc' = [proc EXCEPT ![p] = Idle]
Refuse(p, ok, pc) == IF ok THEN Goto(p, pc) ELSE Done(p)

Fault == faults < MaxFaults /\ faults' = faults + 1
quiet == <<released, attempts, misses, disturbed>>

Init ==
    /\ key \in Keystores
    /\ throttle = <<>> /\ lock = <<>> /\ log = <<>> /\ anchor = <<>>
    /\ proc = [p \in Process |-> Idle]
    /\ released = {} /\ attempts = 0 /\ faults = 0
    /\ misses = 0 /\ disturbed = {}

-----------------------------------------------------------------------------
(* keystore create and keystore import.  Every command has a key of its    *)
(* own, named after the process.                                           *)

writeNewKeystore(p, password) ==
    /\ At(p, "idle") /\ attempts < MaxAttempts
    /\ ValidatePassword(password)
    /\ proc' = [proc EXCEPT ![p] = [Idle EXCEPT !.pc = "create", !.create = <<CreateNative(p, password)>>]]
    /\ attempts' = attempts + 1
    /\ UNCHANGED <<files, released, faults, misses, disturbed>>

(* The file is created exclusively and written afterwards. *)
createKeystoreFileExclusive(p) ==
    /\ At(p, "create")
    /\ IF key = <<>> THEN key' = <<EmptyKeyFile>> /\ Goto(p, "write")
                     ELSE UNCHANGED key /\ Done(p)
    /\ UNCHANGED <<throttle, lock, log, anchor, faults, quiet>>

writeKeyFile(p) ==
    /\ At(p, "write")
    /\ \/ key' = proc[p].create /\ UNCHANGED faults
       \/ key' = <<>> /\ Fault             \* a failed write removes the file
    /\ Done(p)
    /\ UNCHANGED <<throttle, lock, log, anchor, quiet>>

-----------------------------------------------------------------------------
(* signDigest, up to the unlocking of the key.  A hardware device is       *)
(* refused before any of this: its adapters are stubs.                     *)

signDigest(p, d, password, unsafe) ==
    /\ At(p, "idle") /\ attempts < MaxAttempts
    /\ proc' = [proc EXCEPT ![p] = [Idle EXCEPT !.pc = "verify", !.digest = d,
                                                !.password = <<password>>, !.unsafe = unsafe]]
    /\ attempts' = attempts + 1
    /\ UNCHANGED <<files, released, faults, misses, disturbed>>

VerifyAuditLog(p) ==
    /\ At(p, "verify")
    /\ Refuse(p, verifyChain(log), "anchor")
    /\ UNCHANGED <<files, faults, quiet>>

readAnchor(p) ==
    /\ At(p, "anchor")
    /\ IF anchor = <<>> THEN Goto(p, "throttle")
       ELSE IF anchor[Len(anchor)].event = "torn" THEN Done(p)
       ELSE proc' = [proc EXCEPT ![p].pc = "compare", ![p].seen = <<anchor[Len(anchor)]>>]
    /\ UNCHANGED <<files, faults, quiet>>

compareAnchor(p) ==
    /\ At(p, "compare")
    /\ LET a == proc[p].seen[1]
       IN  IF a.seq \in DOMAIN log /\ (a.seq \in DOMAIN log => log[a.seq].hash = a.hash)
           THEN proc' = [proc EXCEPT ![p].pc = "throttle", ![p].seen = <<>>] ELSE Done(p)
    /\ UNCHANGED <<files, faults, quiet>>

loadThrottleState ==
    IF throttle = <<>> THEN [failures |-> 0, lockedFor |-> 0]
    ELSE IF ~throttle[1].written
         THEN [failures |-> throttleFreeAttempts + 1, lockedFor |-> throttleBase]
    ELSE [failures |-> throttle[1].failures, lockedFor |-> throttle[1].lockedFor]

CheckThrottle(p) ==
    /\ At(p, "throttle")
    /\ Refuse(p, loadThrottleState.lockedFor = 0, "load")
    /\ UNCHANGED <<files, faults, quiet>>

LoadKey(p) ==
    /\ At(p, "load")
    /\ proc' = [proc EXCEPT ![p].pc = IF Load(key, proc[p].password[1]) THEN "clear" ELSE "count",
                            ![p].password = <<>>]
    /\ UNCHANGED <<files, faults, quiet>>

-----------------------------------------------------------------------------
(* The throttle file is read, truncated and written by separate calls.     *)

Backoff(failures) ==
    LET shift == IF failures - throttleFreeAttempts - 1 > throttleMaxShift
                 THEN throttleMaxShift ELSE failures - throttleFreeAttempts - 1
        backoff == throttleBase * 2^shift
    IN  IF backoff > throttleMax THEN throttleMax ELSE backoff

NextFailuresCapped(read) == 1          \* a mutant: the count is not carried on

NextFailures(read) == read + 1

LockedFor(failures) ==
    IF failures > throttleFreeAttempts THEN Backoff(failures) ELSE loadThrottleState.lockedFor

(* Attempts that have read the count and not yet saved it. *)
Counting == {q \in Process : proc[q].pc \in {"truncate", "save"}}
Overlap == IF Counting = {} THEN {} ELSE {"overlap"}

readFailures(p) ==
    /\ At(p, "count")
    /\ LET n == NextFailures(loadThrottleState.failures)
       IN  proc' = [proc EXCEPT ![p].pc = "truncate", ![p].failures = n, ![p].seen = <<LockedFor(n)>>]
    /\ misses' = misses + 1
    /\ disturbed' = disturbed \cup Overlap
    /\ UNCHANGED <<files, released, attempts, faults>>

truncateThrottle(p) ==
    /\ At(p, "truncate")
    /\ Goto(p, "save")
    /\ throttle' = <<[written |-> FALSE]>>
    /\ UNCHANGED <<key, lock, log, anchor, faults, quiet>>

saveThrottleState(p) ==
    /\ At(p, "save")
    /\ \/ /\ throttle' = <<[written |-> TRUE, failures |-> proc[p].failures, lockedFor |-> proc[p].seen[1]]>>
          /\ UNCHANGED <<faults, disturbed>>
       \/ /\ Fault /\ UNCHANGED throttle
          /\ disturbed' = disturbed \cup {"truncated"}
    /\ proc' = [proc EXCEPT ![p] = [Idle EXCEPT !.pc = "acquire", !.event = "unlock_failure"]]
    /\ UNCHANGED <<key, lock, log, anchor, released, attempts, misses>>

RecordUnlockSuccess(p) ==
    /\ At(p, "clear")
    /\ \/ /\ throttle' = <<>> /\ misses' = 0
          /\ disturbed' = disturbed \cup Overlap
          /\ proc' = [proc EXCEPT ![p].pc = "acquire", ![p].event = "unlock_success", ![p].waited = 0]
          /\ UNCHANGED faults
       \/ /\ throttle # <<>> /\ Fault
          /\ IF proc[p].unsafe
             THEN proc' = [proc EXCEPT ![p].pc = "acquire", ![p].event = "unlock_success", ![p].waited = 0]
             ELSE Done(p)
          /\ UNCHANGED <<throttle, misses, disturbed>>
    /\ UNCHANGED <<key, lock, log, anchor, released, attempts>>

-----------------------------------------------------------------------------
(* AppendAuditEventTo: take the lock, read and verify the log, append to   *)
(* the log and then to the anchor, release the lock.                       *)

(* What the command does with the outcome of an append: an unlock failure  *)
(* is reported either way; otherwise a failure ends the command without a  *)
(* signature, unless it runs in test mode.                                 *)
ProceedsAlways(p, ok) == TRUE          \* a mutant: failed appends only warn

Proceeds(p, ok) == ok \/ proc[p].unsafe

Appended(p, ok) ==
    LET r == proc[p]
    IN  \/ /\ r.event = "unlock_success" /\ Proceeds(p, ok)
           /\ proc' = [proc EXCEPT ![p].pc = "acquire", ![p].event = "signed", ![p].waited = 0, ![p].ok = TRUE]
           /\ UNCHANGED released
        \/ /\ r.event = "signed" /\ Proceeds(p, ok)
           /\ released' = released \cup {[digest |-> r.digest, unsafe |-> r.unsafe]}
           /\ Done(p)
        \/ /\ r.event = "unlock_failure" \/ ~Proceeds(p, ok)
           /\ UNCHANGED released /\ Done(p)

acquireAlways(p) ==                    \* a mutant: the lock is not created exclusively
    /\ At(p, "acquire")
    /\ lock' = <<0>>
    /\ proc' = [proc EXCEPT ![p].pc = "read", ![p].waited = 0]
    /\ UNCHANGED <<key, throttle, log, anchor, faults, quiet>>

acquireAuditLock(p) ==
    /\ At(p, "acquire") /\ lock = <<>>
    /\ lock' = <<0>>
    /\ proc' = [proc EXCEPT ![p].pc = "read", ![p].waited = 0]
    /\ UNCHANGED <<key, throttle, log, anchor, faults, quiet>>

Holding == {q \in Process : proc[q].pc \in {"read", "append", "watermark", "release"}}

(* The age of a lock is looked up, and the file removed by a later call. *)
seeStaleLock(p) ==
    /\ At(p, "acquire") /\ lock # <<>> /\ lock[1] > auditLockStaleAfter
    /\ Goto(p, "remove")
    /\ UNCHANGED <<files, faults, quiet>>

keepStaleLock(p) ==                    \* a mutant: the stale lock is not removed
    /\ At(p, "remove")
    /\ Goto(p, "acquire")
    /\ UNCHANGED <<files, faults, quiet>>

removeStaleLock(p) ==
    /\ At(p, "remove")
    /\ lock' = <<>>
    /\ disturbed' = disturbed \cup (IF Holding = {} THEN {} ELSE {"takeover"})
    /\ Goto(p, "acquire")
    /\ UNCHANGED <<key, throttle, log, anchor, released, attempts, faults, misses>>

lockTimeout(p) ==
    /\ At(p, "acquire") /\ lock # <<>> /\ lock[1] <= auditLockStaleAfter
    /\ proc[p].waited > auditLockTimeout
    /\ Appended(p, FALSE)
    /\ UNCHANGED <<files, faults, attempts, misses, disturbed>>

readAuditLines(p) ==
    /\ At(p, "read")
    /\ LET e == NextEntry(log, proc[p].event, proc[p].digest)
       IN  proc' = [proc EXCEPT ![p].pc = IF e = <<>> THEN "release" ELSE "append",
                                ![p].entry = e, ![p].ok = (e # <<>>)]
    /\ UNCHANGED <<files, faults, quiet>>

appendLog(p) ==
    /\ At(p, "append")
    /\ \/ /\ log' = AppendLine(log, proc[p].entry[1]) /\ UNCHANGED <<faults, disturbed>>
          /\ Goto(p, "watermark")
       \/ \E torn \in BOOLEAN :
          /\ Fault
          /\ log' = IF torn THEN AppendLine(log, TornLine) ELSE log
          /\ disturbed' = IF torn THEN disturbed \cup {"torn"} ELSE disturbed
          /\ proc' = [proc EXCEPT ![p].pc = "release", ![p].entry = <<>>, ![p].ok = FALSE]
    /\ UNCHANGED <<key, throttle, lock, anchor, released, attempts, misses>>

appendAnchor(p) ==
    /\ At(p, "watermark")
    /\ \/ /\ anchor' = AppendLine(anchor, AnchorOf(proc[p].entry[1])) /\ UNCHANGED <<faults, disturbed>>
          /\ proc' = [proc EXCEPT ![p].pc = "release", ![p].entry = <<>>]
       \/ \E torn \in BOOLEAN :
          /\ Fault
          /\ anchor' = IF torn THEN AppendLine(anchor, TornAnchor) ELSE anchor
          /\ disturbed' = IF torn THEN disturbed \cup {"torn"} ELSE disturbed
          /\ proc' = [proc EXCEPT ![p].pc = "release", ![p].entry = <<>>, ![p].ok = FALSE]
    /\ UNCHANGED <<key, throttle, lock, log, released, attempts, misses>>

(* The release removes whatever lock is there. *)
releaseAuditLock(p) ==
    /\ At(p, "release")
    /\ lock' = <<>>
    /\ Appended(p, proc[p].ok)
    /\ UNCHANGED <<key, throttle, log, anchor, faults, attempts, misses, disturbed>>

-----------------------------------------------------------------------------
Crash(p) ==
    /\ ~At(p, "idle") /\ Fault
    /\ disturbed' = disturbed \cup (CASE At(p, "save") -> {"truncated"}
                                      [] At(p, "truncate") -> {"uncounted"}
                                      [] OTHER -> {})
    /\ Done(p)
    /\ UNCHANGED <<files, released, attempts, misses>>

Least(a, b) == IF a < b THEN a ELSE b

(* Ages stop growing once they are past the limit they are compared with. *)
Tick ==
    /\ lock' = [i \in DOMAIN lock |-> Least(lock[i] + 1, auditLockStaleAfter + 1)]
    /\ proc' = [p \in Process |-> IF At(p, "acquire")
                                  THEN [proc[p] EXCEPT !.waited = Least(@ + 1, auditLockTimeout + 1)]
                                  ELSE proc[p]]
    /\ throttle' = [i \in DOMAIN throttle |->
                        IF throttle[i].written /\ throttle[i].lockedFor > 0
                        THEN [throttle[i] EXCEPT !.lockedFor = @ - 1] ELSE throttle[i]]
    /\ UNCHANGED <<key, log, anchor, released, attempts, faults, misses, disturbed>>

(* What a running process does next; a command is the operator's choice. *)
Step(p) ==
    \/ createKeystoreFileExclusive(p) \/ writeKeyFile(p)
    \/ VerifyAuditLog(p) \/ readAnchor(p) \/ compareAnchor(p) \/ CheckThrottle(p) \/ LoadKey(p)
    \/ readFailures(p) \/ truncateThrottle(p) \/ saveThrottleState(p) \/ RecordUnlockSuccess(p)
    \/ acquireAuditLock(p) \/ seeStaleLock(p) \/ removeStaleLock(p) \/ lockTimeout(p)
    \/ readAuditLines(p) \/ appendLog(p) \/ appendAnchor(p) \/ releaseAuditLock(p)

Next ==
    \/ \E p \in Process : Step(p) \/ Crash(p)
    \/ \E p \in Process, d \in Digests, w \in Passwords, unsafe \in TestMode : signDigest(p, d, w, unsafe)
    \/ \E p \in Process, w \in Passwords : writeNewKeystore(p, w)
    \/ Tick

(* A process runs on and time passes. *)
Spec == Init /\ [][Next]_vars /\ WF_vars(Tick) /\ \A p \in Process : WF_vars(Step(p))

-----------------------------------------------------------------------------
(* Properties.                                                             *)

(* The audit log verifies and agrees with every line of its anchor, so     *)
(* that the next command is not refused, as long as no line was torn and   *)
(* no lock was taken from a process that still held it; a lock left by a   *)
(* crash may be taken over.  It is about acquireAuditLock and              *)
(* AppendAuditEventTo.                                                     *)
ChainKept ==
    disturbed \cap {"takeover", "torn"} = {} =>
        /\ verifyChain(log)
        /\ \A i \in DOMAIN anchor : anchor[i].seq \in DOMAIN log /\ log[anchor[i].seq].hash = anchor[i].hash

(* A signature handed out in normal mode is in the audit log, whatever     *)
(* writes failed and whichever processes crashed.  It is about the order   *)
(* of the appends and the signature in signDigest.                         *)
SignaturesRecorded ==
    "takeover" \notin disturbed =>
        \A s \in released : s.unsafe \/ \E i \in DOMAIN log : log[i].event = "signed" /\ log[i].digest = s.digest

(* Between attempts the throttle file counts the failed unlocks since the  *)
(* last successful one, unless two of them overlapped or the file was left *)
(* half written.  It is about RecordUnlockFailure and RecordUnlockSuccess. *)
MissesCounted ==
    (Counting = {} /\ disturbed \cap {"overlap", "truncated", "uncounted"} = {}) =>
        loadThrottleState.failures = misses

(* Every command ends: an append never waits for the lock for ever, even   *)
(* one that a crashed process has left.  It is about the timeout and the   *)
(* takeover in acquireAuditLock.                                           *)
CommandsEnd == \A p \in Process : []<>At(p, "idle")
=============================================================================
