--------------------------- MODULE KeystoreProofs ---------------------------
(***************************************************************************)
(* The auditor's keystore, for any number of signer processes and any      *)
(* limits: the audit log and its anchor keep verifying, a signature is     *)
(* handed out only once it is in the log, and failed unlocks are counted.  *)
(* The lock and the log are one argument, the throttle file is another.    *)
(***************************************************************************)
EXTENDS Keystore, SequenceTheorems, TLAPS

Fields == {"pc", "digest", "unsafe", "password", "create", "seen", "failures", "event", "entry",
           "waited", "ok"}

\* A command record has these fields, and the event is one that is logged.
Shaped(r) == r = [f \in Fields |-> r[f]] /\ r.event # "torn"

Commands ==
  /\ proc = [p \in Process |-> proc[p]]
  /\ \A p \in Process : Shaped(proc[p])

IsASequence(s) == s \in Seq({s[i] : i \in DOMAIN s})

Undisturbed == "takeover" \notin disturbed

\* No process writes the logs without the lock, and only one does.
LockKept ==
  Undisturbed =>
    /\ \A p, q \in Holding : p = q
    /\ Holding # {} => 1 \in DOMAIN lock

InLog(event, digest) == \E i \in DOMAIN log : log[i].event = event /\ log[i].digest = digest

\* What the process that writes knows of the log.
Appending ==
  Undisturbed =>
    \A p \in Process :
      /\ At(p, "append") =>
           verifyChain(log) /\ proc[p].entry = NextEntry(log, proc[p].event, proc[p].digest)
      /\ At(p, "watermark") =>
           /\ log # <<>> /\ proc[p].entry = <<log[Len(log)]>>
           /\ log[Len(log)].seq = Len(log)
           /\ log[Len(log)].event = proc[p].event /\ log[Len(log)].digest = proc[p].digest
      /\ At(p, "release") /\ proc[p].ok => InLog(proc[p].event, proc[p].digest)

\* The anchor's lines are whole.
AnchorWhole ==
  disturbed \cap {"takeover", "torn"} = {} => \A i \in DOMAIN anchor : anchor[i].event # "torn"

ThrottleFile ==
  \/ throttle = <<>>
  \/ /\ throttle = <<throttle[1]>>
     /\ throttle[1].written =>
          throttle[1] = [f \in {"written", "failures", "lockedFor"} |-> throttle[1][f]]

\* An attempt that has read the count will write the number of misses.
Counted ==
  disturbed \cap {"overlap", "truncated", "uncounted"} = {} =>
    /\ \A p, q \in Counting : p = q
    /\ \A p \in Counting : proc[p].failures = misses
    /\ Counting = {} => loadThrottleState.failures = misses

Logged ==
  /\ IsASequence(log) /\ IsASequence(anchor)
  /\ LockKept /\ Appending /\ AnchorWhole /\ ChainKept /\ SignaturesRecorded

Throttled == ThrottleFile /\ Counted

Inv == Commands /\ Logged /\ Throttled

-----------------------------------------------------------------------------
(* Sequences of lines.                                                     *)

LEMMA AppendSequence ==
  ASSUME NEW s, IsASequence(s), NEW e
  PROVE  /\ IsASequence(Append(s, e))
         /\ Len(s) \in Nat /\ DOMAIN s = 1..Len(s)
         /\ Len(Append(s, e)) = Len(s) + 1 /\ DOMAIN Append(s, e) = 1..(Len(s) + 1)
         /\ \A i \in DOMAIN s : Append(s, e)[i] = s[i]
         /\ Append(s, e)[Len(s) + 1] = e
         /\ Append(s, e) # <<>>
<1> DEFINE S == {s[i] : i \in DOMAIN s} \cup {e}
           t == Append(s, e)
<1>1. s \in Seq(S)
  <2>1. s \in Seq({s[i] : i \in DOMAIN s})
    BY DEF IsASequence
  <2>2. Len(s) \in Nat /\ DOMAIN s = 1..Len(s) /\ s = [i \in 1..Len(s) |-> s[i]]
    BY <2>1
  <2>3. \A i \in 1..Len(s) : s[i] \in S
    BY <2>2
  <2> HIDE DEF S
  <2> QED  BY <2>2, <2>3
<1>2. e \in S
  OBVIOUS
<1>3. /\ t \in Seq(S) /\ t # <<>> /\ Len(t) = Len(s) + 1
      /\ \A i \in 1..Len(s) : t[i] = s[i]
      /\ t[Len(s) + 1] = e
  <2> HIDE DEF S
  <2> QED  BY <1>1, <1>2, AppendProperties
<1>4. Len(s) \in Nat /\ DOMAIN s = 1..Len(s) /\ DOMAIN t = 1..Len(t) /\ Len(t) \in Nat
  BY <1>1, <1>3, LenProperties
<1>5. IsASequence(t)
  <2> DEFINE T == {t[i] : i \in DOMAIN t}
  <2>1. \A i \in 1..Len(t) : t[i] \in T
    BY <1>4
  <2>2. t = [i \in 1..Len(t) |-> t[i]]
    <3> HIDE DEF t
    <3> QED  BY <1>3
  <2> HIDE DEF T, t
  <2>3. t \in Seq(T)
    BY <2>1, <2>2, <1>4
  <2> QED  BY <2>3 DEF IsASequence, T
<1> QED  BY <1>3, <1>4, <1>5

\* The entry that follows lines which verify, and that they still do with it.
LEMMA NextEntryVerifies ==
  ASSUME NEW lines, IsASequence(lines), verifyChain(lines), NEW event, NEW digest, event # "torn"
  PROVE  \E e : /\ NextEntry(lines, event, digest) = <<e>>
                /\ e.event = event /\ e.digest = digest /\ e.seq = Len(lines) + 1
                /\ AppendLine(lines, e) = Append(lines, e)
                /\ verifyChain(Append(lines, e))
<1> DEFINE last == IF lines = <<>> THEN <<>> ELSE lines[Len(lines)].hash
           b == [event |-> event, digest |-> digest, seq |-> Len(lines) + 1, hash |-> <<>>,
                 prevHash |-> last]
           e == [b EXCEPT !.hash = hashEvent(b)]
<1>1. NextEntry(lines, event, digest) = <<e>>
  BY DEF NextEntry
<1>2. e = [event |-> event, digest |-> digest, seq |-> Len(lines) + 1,
           hash |-> hashEvent(b), prevHash |-> last]
  <2> HIDE DEF last
  <2> QED  OBVIOUS
<1>3. /\ e.event = event /\ e.digest = digest /\ e.seq = Len(lines) + 1
      /\ e.prevHash = last /\ e.hash = <<last, Len(lines) + 1, event, digest>>
  <2> HIDE DEF last
  <2>1. hashEvent(b) = <<last, Len(lines) + 1, event, digest>>
    BY DEF hashEvent
  <2> HIDE DEF b, e
  <2> QED  BY <1>2, <2>1
<1> HIDE DEF e, b
<1>4. /\ Len(lines) \in Nat /\ DOMAIN lines = 1..Len(lines)
      /\ DOMAIN Append(lines, e) = 1..(Len(lines) + 1)
      /\ \A i \in DOMAIN lines : Append(lines, e)[i] = lines[i]
      /\ Append(lines, e)[Len(lines) + 1] = e
  BY AppendSequence
<1>5. lines # <<>> => Len(lines) \in DOMAIN lines
  <2>1. lines \in Seq({lines[i] : i \in DOMAIN lines})
    BY DEF IsASequence
  <2>2. lines # <<>> => Len(lines) # 0
    BY <2>1, EmptySeq
  <2> QED  BY <1>4, <2>2
<1>6. AppendLine(lines, e) = Append(lines, e)
  <2>1. lines # <<>> => lines[Len(lines)].event # "torn"
    BY <1>5 DEF verifyChain
  <2> QED  BY <2>1 DEF AppendLine
<1>7. verifyChain(Append(lines, e))
  <2> DEFINE t == Append(lines, e)
  <2>1. SUFFICES ASSUME NEW i \in DOMAIN t
                 PROVE  /\ t[i].event # "torn"
                        /\ t[i].prevHash = (IF i = 1 THEN <<>> ELSE t[i - 1].hash)
                        /\ t[i].seq = i
                        /\ t[i].hash = hashEvent(t[i])
    BY DEF verifyChain
  <2>2. CASE i = Len(lines) + 1
    <3>1. t[i] = e
      BY <1>4, <2>2
    <3>2. last = IF i = 1 THEN <<>> ELSE t[i - 1].hash
      <4>1. CASE lines = <<>>
        BY <1>4, <2>2, <4>1, EmptySeq
      <4>2. CASE lines # <<>>
        <5>1. i # 1 /\ i - 1 = Len(lines) /\ t[i - 1] = lines[Len(lines)]
          BY <1>4, <1>5, <2>2, <4>2
        <5> QED  BY <4>2, <5>1
      <4> QED  BY <4>1, <4>2
    <3> QED  BY <1>3, <2>2, <3>1, <3>2 DEF hashEvent
  <2>3. CASE i # Len(lines) + 1
    <3>1. i \in DOMAIN lines /\ t[i] = lines[i]
      BY <1>4, <2>3
    <3>2. i # 1 => i - 1 \in DOMAIN lines /\ t[i - 1] = lines[i - 1]
      BY <1>4, <3>1
    <3> QED  BY <3>1, <3>2 DEF verifyChain
  <2> QED  BY <2>2, <2>3
<1> QED  BY <1>1, <1>3, <1>6, <1>7

\* Appending a line, or the beginning of one, keeps the lines there were.
LEMMA AppendLineKeeps ==
  ASSUME NEW lines, IsASequence(lines), NEW line
  PROVE  /\ IsASequence(AppendLine(lines, line))
         /\ DOMAIN lines \subseteq DOMAIN AppendLine(lines, line)
         /\ \A i \in DOMAIN lines : AppendLine(lines, line)[i] = lines[i]
<1>1. CASE AppendLine(lines, line) = lines
  BY <1>1
<1>2. CASE AppendLine(lines, line) = Append(lines, line)
  BY <1>2, AppendSequence
<1> QED  BY <1>1, <1>2 DEF AppendLine

-----------------------------------------------------------------------------
(* What a step leaves alone.                                               *)

Writing == {"read", "append", "watermark", "release"}

\* Only p's command changes.
Only(p) == \A q \in Process \ {p} : proc'[q] = proc[q]

LEMMA OneMoves ==
  ASSUME Commands, NEW p \in Process, NEW r, Shaped(r), proc' = [proc EXCEPT ![p] = r]
  PROVE  Commands' /\ Only(p) /\ proc'[p] = r
<1>1. proc' = [q \in Process |-> IF q = p THEN r ELSE proc[q]]
  BY DEF Commands
<1>2. proc'[p] = r /\ \A q \in Process \ {p} : proc'[q] = proc[q]
  BY <1>1
<1>3. proc' = [q \in Process |-> proc'[q]]
  BY <1>1
<1> QED  BY <1>2, <1>3 DEF Commands, Only

\* A step of p that leaves the lock and the logs alone and does not enter the
\* lock: p goes elsewhere, or was elsewhere.
LEMMA LogsKept ==
  ASSUME Logged, Commands, Commands', NEW p \in Process, Only(p),
         UNCHANGED <<lock, log, anchor, released>>, disturbed \subseteq disturbed',
         proc'[p].pc \notin Writing
  PROVE  Logged'
<1> USE DEF Writing
<1>1. Undisturbed' => Undisturbed
  BY DEF Undisturbed
<1>2. Holding' \subseteq Holding /\ \A q \in Holding' : q # p /\ proc'[q] = proc[q]
  BY DEF Holding, Only
<1>3. LockKept'
  BY <1>1, <1>2 DEF LockKept, Logged
<1>4. Appending'
  BY <1>1 DEF Appending, Logged, At, Only, InLog
<1>5. AnchorWhole' /\ ChainKept' /\ SignaturesRecorded'
  BY DEF Logged, AnchorWhole, ChainKept, SignaturesRecorded
<1> QED  BY <1>3, <1>4, <1>5 DEF Logged

\* A step that neither reads nor writes the throttle file.
LEMMA CountKept ==
  ASSUME Throttled, NEW p \in Process, Only(p), UNCHANGED <<throttle, misses>>,
         disturbed \subseteq disturbed', p \notin Counting,
         proc'[p].pc \notin {"truncate", "save"}
  PROVE  Throttled'
<1>1. Counting' = Counting /\ \A q \in Counting : proc'[q] = proc[q]
  BY DEF Counting, Only
<1>2. loadThrottleState' = loadThrottleState
  BY DEF loadThrottleState
<1> QED  BY <1>1, <1>2 DEF Throttled, ThrottleFile, Counted

LEMMA Walks ==
  ASSUME Inv, NEW p \in Process, Commands', Only(p),
         UNCHANGED <<throttle, lock, log, anchor, released, misses>>, disturbed \subseteq disturbed',
         proc'[p].pc \notin Writing \cup {"truncate", "save"},
         p \notin Counting
  PROVE  Inv'
BY LogsKept, CountKept DEF Inv

LEMMA IdleShaped ==
  Shaped(Idle) /\ Idle.pc = "idle"
BY DEF Idle, Shaped, Fields

LEMMA Goes ==
  ASSUME Commands, NEW p \in Process, NEW pc, Goto(p, pc)
  PROVE  /\ Commands' /\ Only(p)
         /\ proc'[p].pc = pc /\ proc'[p].event = proc[p].event /\ proc'[p].digest = proc[p].digest
         /\ proc'[p].entry = proc[p].entry /\ proc'[p].failures = proc[p].failures
         /\ proc'[p].seen = proc[p].seen
<1> DEFINE r == [proc[p] EXCEPT !.pc = pc]
<1>1. Shaped(proc[p])
  BY DEF Commands
<1>2. Shaped(r) /\ r.pc = pc /\ r.event = proc[p].event /\ r.digest = proc[p].digest
      /\ r.entry = proc[p].entry /\ r.failures = proc[p].failures /\ r.seen = proc[p].seen
  BY <1>1 DEF Shaped, Fields
<1>3. proc' = [proc EXCEPT ![p] = r]
  BY DEF Goto
<1> HIDE DEF r
<1> QED  BY <1>2, <1>3, OneMoves

LEMMA Ends ==
  ASSUME Commands, NEW p \in Process, Done(p)
  PROVE  Commands' /\ Only(p) /\ proc'[p].pc = "idle"
BY IdleShaped, OneMoves DEF Done

-----------------------------------------------------------------------------
(* Steps that reach neither the logs nor the throttle file.                *)

LEMMA CreatingKeeps ==
  ASSUME Inv, NEW p \in Process,
         \/ \E w \in Passwords : writeNewKeystore(p, w)
         \/ createKeystoreFileExclusive(p)
         \/ writeKeyFile(p)
  PROVE  Inv'
<1>1. CASE \E w \in Passwords : writeNewKeystore(p, w)
  <2> PICK w \in Passwords : writeNewKeystore(p, w)
    BY <1>1
  <2> DEFINE r == [Idle EXCEPT !.pc = "create", !.create = <<CreateNative(p, w)>>]
  <2>1. Shaped(r) /\ r.pc = "create"
    BY IdleShaped DEF Shaped, Fields
  <2>2. proc' = [proc EXCEPT ![p] = r]
    BY DEF writeNewKeystore
  <2> HIDE DEF r
  <2>3. Commands' /\ Only(p) /\ proc'[p].pc = "create"
    BY <2>1, <2>2, OneMoves DEF Inv
  <2> QED  BY <2>3, Walks DEF writeNewKeystore, files, Writing, Counting, At
<1>2. CASE createKeystoreFileExclusive(p)
  <2>1. Commands' /\ Only(p) /\ proc'[p].pc \in {"write", "idle"}
    BY <1>2, Goes, Ends DEF createKeystoreFileExclusive, Inv
  <2> QED  BY <1>2, <2>1, Walks DEF createKeystoreFileExclusive, quiet, Writing, Counting, At
<1>3. CASE writeKeyFile(p)
  <2>1. Commands' /\ Only(p) /\ proc'[p].pc = "idle"
    BY <1>3, Ends DEF writeKeyFile, Inv
  <2> QED  BY <1>3, <2>1, Walks DEF writeKeyFile, quiet, Writing, Counting, At
<1> QED  BY <1>1, <1>2, <1>3

LEMMA OpeningKeeps ==
  ASSUME Inv, NEW p \in Process,
         \/ \E d \in Digests, w \in Passwords, unsafe \in TestMode : signDigest(p, d, w, unsafe)
         \/ VerifyAuditLog(p) \/ readAnchor(p) \/ compareAnchor(p) \/ CheckThrottle(p) \/ LoadKey(p)
         \/ seeStaleLock(p)
  PROVE  Inv'
<1> USE DEF quiet, files
<1>0. Shaped(proc[p]) /\ Commands
  BY DEF Inv, Commands
<1>1. ASSUME NEW d \in Digests, NEW w \in Passwords, NEW unsafe \in TestMode,
             signDigest(p, d, w, unsafe)
      PROVE  Inv'
  <2> DEFINE r == [Idle EXCEPT !.pc = "verify", !.digest = d, !.password = <<w>>, !.unsafe = unsafe]
  <2>1. Shaped(r) /\ r.pc = "verify"
    BY IdleShaped DEF Shaped, Fields
  <2>2. proc' = [proc EXCEPT ![p] = r]
    BY <1>1 DEF signDigest
  <2> HIDE DEF r
  <2>3. Commands' /\ Only(p) /\ proc'[p].pc = "verify"
    BY <1>0, <2>1, <2>2, OneMoves
  <2> QED  BY <1>1, <2>3, Walks DEF signDigest, Writing, Counting, At
<1>2. CASE VerifyAuditLog(p)
  <2>1. Commands' /\ Only(p) /\ proc'[p].pc \in {"anchor", "idle"}
    BY <1>0, <1>2, Goes, Ends DEF VerifyAuditLog, Refuse
  <2> QED  BY <1>2, <2>1, Walks DEF VerifyAuditLog, Writing, Counting, At
<1>3. CASE readAnchor(p)
  <2> DEFINE r == [proc[p] EXCEPT !.pc = "compare", !.seen = <<anchor[Len(anchor)]>>]
  <2>1. Shaped(r) /\ r.pc = "compare"
    BY <1>0 DEF Shaped, Fields
  <2>2. Goto(p, "throttle") \/ Done(p) \/ proc' = [proc EXCEPT ![p] = r]
    BY <1>3 DEF readAnchor
  <2> HIDE DEF r
  <2>3. Commands' /\ Only(p) /\ proc'[p].pc \in {"throttle", "idle", "compare"}
    BY <1>0, <2>1, <2>2, Goes, Ends, OneMoves
  <2> QED  BY <1>3, <2>3, Walks DEF readAnchor, Writing, Counting, At
<1>4. CASE compareAnchor(p)
  <2> DEFINE r == [proc[p] EXCEPT !.pc = "throttle", !.seen = <<>>]
  <2>1. Shaped(r) /\ r.pc = "throttle"
    BY <1>0 DEF Shaped, Fields
  <2>2. Done(p) \/ proc' = [proc EXCEPT ![p] = r]
    BY <1>4 DEF compareAnchor
  <2> HIDE DEF r
  <2>3. Commands' /\ Only(p) /\ proc'[p].pc \in {"throttle", "idle"}
    BY <1>0, <2>1, <2>2, Ends, OneMoves
  <2> QED  BY <1>4, <2>3, Walks DEF compareAnchor, Writing, Counting, At
<1>5. CASE CheckThrottle(p)
  <2>1. Commands' /\ Only(p) /\ proc'[p].pc \in {"load", "idle"}
    BY <1>0, <1>5, Goes, Ends DEF CheckThrottle, Refuse
  <2> QED  BY <1>5, <2>1, Walks DEF CheckThrottle, Writing, Counting, At
<1>6. CASE LoadKey(p)
  <2> DEFINE to == IF Load(key, proc[p].password[1]) THEN "clear" ELSE "count"
             r == [proc[p] EXCEPT !.pc = to, !.password = <<>>]
  <2>1. to \in {"clear", "count"}
    OBVIOUS
  <2>2. proc' = [proc EXCEPT ![p] = r]
    BY <1>6 DEF LoadKey
  <2> HIDE DEF to
  <2>3. Shaped(r) /\ r.pc = to
    BY <1>0 DEF Shaped, Fields
  <2> HIDE DEF r
  <2>4. Commands' /\ Only(p) /\ proc'[p].pc \in {"clear", "count"}
    BY <1>0, <2>1, <2>2, <2>3, OneMoves
  <2> QED  BY <1>6, <2>4, Walks DEF LoadKey, Writing, Counting, At
<1>7. CASE seeStaleLock(p)
  <2>1. Commands' /\ Only(p) /\ proc'[p].pc = "remove"
    BY <1>0, <1>7, Goes DEF seeStaleLock
  <2> QED  BY <1>7, <2>1, Walks DEF seeStaleLock, Writing, Counting, At
<1> QED  BY <1>1, <1>2, <1>3, <1>4, <1>5, <1>6, <1>7

-----------------------------------------------------------------------------
(* The throttle file.                                                      *)

LEMMA CountingKeeps ==
  ASSUME Inv, NEW p \in Process, readFailures(p) \/ truncateThrottle(p) \/ saveThrottleState(p)
  PROVE  Inv'
<1> USE DEF quiet, files
<1>0. Shaped(proc[p]) /\ Commands /\ Logged /\ Counted /\ ThrottleFile
  BY DEF Inv, Commands, Throttled
<1>1. CASE readFailures(p)
  <2> DEFINE n == NextFailures(loadThrottleState.failures)
             r == [proc[p] EXCEPT !.pc = "truncate", !.failures = n, !.seen = <<LockedFor(n)>>]
  <2>1. Shaped(r) /\ r.pc = "truncate" /\ r.failures = n
    <3> HIDE DEF n
    <3> QED  BY <1>0 DEF Shaped, Fields
  <2>2. proc' = [proc EXCEPT ![p] = r]
    BY <1>1 DEF readFailures
  <2>3. n = loadThrottleState.failures + 1
    BY DEF NextFailures
  <2> HIDE DEF n, r
  <2>4. Commands' /\ Only(p) /\ proc'[p].pc = "truncate" /\ proc'[p].failures = n
    BY <1>0, <2>1, <2>2, OneMoves
  <2>5. Logged'
    BY <1>0, <1>1, <2>4, LogsKept DEF readFailures, Writing
  <2>6. p \notin Counting /\ Counting' = Counting \cup {p}
    BY <1>1, <2>4 DEF readFailures, Counting, At, Only
  <2>7. disturbed' = disturbed \cup Overlap /\ misses' = misses + 1
    BY <1>1 DEF readFailures
  <2>8. Counted'
    BY <1>0, <2>3, <2>4, <2>6, <2>7 DEF Counted, Overlap
  <2> QED  BY <1>0, <1>1, <2>4, <2>5, <2>8 DEF Inv, Throttled, ThrottleFile, readFailures
<1>2. CASE truncateThrottle(p)
  <2>1. Commands' /\ Only(p) /\ proc'[p].pc = "save" /\ proc'[p].failures = proc[p].failures
    BY <1>0, <1>2, Goes DEF truncateThrottle
  <2>2. Logged'
    BY <1>0, <1>2, <2>1, LogsKept DEF truncateThrottle, Writing
  <2>3. Counting' = Counting /\ p \in Counting /\ \A q \in Counting : proc'[q].failures = proc[q].failures
    BY <1>2, <2>1 DEF truncateThrottle, Counting, At, Only
  <2>4. UNCHANGED <<misses, disturbed>>
    BY <1>2 DEF truncateThrottle
  <2>5. Counted'
    BY <1>0, <2>3, <2>4 DEF Counted
  <2>6. ThrottleFile'
    BY <1>2 DEF ThrottleFile, truncateThrottle
  <2> QED  BY <2>1, <2>2, <2>5, <2>6 DEF Inv, Throttled
<1>3. CASE saveThrottleState(p)
  <2> DEFINE r == [Idle EXCEPT !.pc = "acquire", !.event = "unlock_failure"]
  <2>1. Shaped(r) /\ r.pc = "acquire"
    BY IdleShaped DEF Shaped, Fields
  <2>2. proc' = [proc EXCEPT ![p] = r]
    BY <1>3 DEF saveThrottleState
  <2> HIDE DEF r
  <2>3. Commands' /\ Only(p) /\ proc'[p].pc = "acquire"
    BY <1>0, <2>1, <2>2, OneMoves
  <2>4. Logged'
    BY <1>0, <1>3, <2>3, LogsKept DEF saveThrottleState, Writing
  <2>5. p \in Counting /\ Counting' = Counting \ {p}
    BY <1>3, <2>3 DEF saveThrottleState, Counting, At, Only
  <2>6. CASE disturbed' = disturbed \cup {"truncated"}
    BY <1>0, <1>3, <2>3, <2>4, <2>6 DEF Inv, Throttled, Counted, ThrottleFile, saveThrottleState
  <2>7. CASE /\ throttle' = <<[written |-> TRUE, failures |-> proc[p].failures, lockedFor |-> proc[p].seen[1]]>>
             /\ UNCHANGED disturbed
    <3>1. throttle' # <<>> /\ throttle'[1].written /\ throttle'[1].failures = proc[p].failures
      BY <2>7
    <3>2. loadThrottleState'.failures = proc[p].failures
      BY <3>1 DEF loadThrottleState
    <3>3. misses' = misses
      BY <1>3 DEF saveThrottleState
    <3>4. Counted'
      BY <1>0, <2>5, <2>7, <3>2, <3>3 DEF Counted
    <3>5. ThrottleFile'
      BY <2>7 DEF ThrottleFile
    <3> QED  BY <2>3, <2>4, <3>4, <3>5 DEF Inv, Throttled
  <2> QED  BY <1>3, <2>6, <2>7 DEF saveThrottleState
<1> QED  BY <1>1, <1>2, <1>3

LEMMA ClearingKeeps ==
  ASSUME Inv, NEW p \in Process, RecordUnlockSuccess(p)
  PROVE  Inv'
<1> DEFINE r == [proc[p] EXCEPT !.pc = "acquire", !.event = "unlock_success", !.waited = 0]
<1>0. Shaped(proc[p]) /\ Commands /\ Logged /\ Counted /\ ThrottleFile
  BY DEF Inv, Commands, Throttled
<1>1. Shaped(r) /\ r.pc = "acquire"
  BY <1>0 DEF Shaped, Fields
<1>2. proc' = [proc EXCEPT ![p] = r] \/ Done(p)
  BY DEF RecordUnlockSuccess
<1> HIDE DEF r
<1>3. Commands' /\ Only(p) /\ proc'[p].pc \in {"acquire", "idle"}
  BY <1>0, <1>1, <1>2, OneMoves, Ends
<1>4. Logged'
  BY <1>0, <1>3, LogsKept DEF RecordUnlockSuccess, Writing
<1>5. p \notin Counting /\ Counting' = Counting
  BY <1>3 DEF RecordUnlockSuccess, Counting, At, Only
<1>6. CASE throttle' = <<>> /\ misses' = 0 /\ disturbed' = disturbed \cup Overlap
  <2>1. loadThrottleState'.failures = 0
    BY <1>6 DEF loadThrottleState
  <2>2. Counted'
    BY <1>0, <1>5, <1>6, <2>1 DEF Counted, Overlap
  <2> QED  BY <1>3, <1>4, <1>6, <2>2 DEF Inv, Throttled, ThrottleFile
<1>7. CASE UNCHANGED <<throttle, misses, disturbed>>
  BY <1>0, <1>3, <1>4, <1>5, <1>7, CountKept DEF Inv, Throttled
<1> QED  BY <1>6, <1>7 DEF RecordUnlockSuccess

-----------------------------------------------------------------------------
(* The lock.                                                               *)

\* p alone holds the lock and goes on holding it.
LEMMA HoldsOn ==
  ASSUME LockKept, NEW p \in Process, Only(p), p \in Holding, proc'[p].pc \in Writing,
         UNCHANGED lock, disturbed \subseteq disturbed'
  PROVE  /\ LockKept'
         /\ Undisturbed' => \A q \in Process \ {p} : proc'[q].pc \notin Writing
<1>1. Undisturbed' => Undisturbed
  BY DEF Undisturbed
<1>2. Holding' = Holding
  BY DEF Holding, Only, Writing
<1>3. Undisturbed => \A q \in Process \ {p} : proc[q].pc \notin Writing
  BY DEF LockKept, Holding, Writing
<1> QED  BY <1>1, <1>2, <1>3 DEF LockKept, Only

LEMMA LockingKeeps ==
  ASSUME Inv, NEW p \in Process, acquireAuditLock(p) \/ removeStaleLock(p)
  PROVE  Inv'
<1> USE DEF quiet
<1>0. Shaped(proc[p]) /\ Commands /\ Logged /\ Throttled
  BY DEF Inv, Commands
<1>1. CASE acquireAuditLock(p)
  <2> DEFINE r == [proc[p] EXCEPT !.pc = "read", !.waited = 0]
  <2>1. Shaped(r) /\ r.pc = "read"
    BY <1>0 DEF Shaped, Fields
  <2>2. proc' = [proc EXCEPT ![p] = r]
    BY <1>1 DEF acquireAuditLock
  <2> HIDE DEF r
  <2>3. Commands' /\ Only(p) /\ proc'[p].pc = "read"
    BY <1>0, <2>1, <2>2, OneMoves
  <2>4. Throttled'
    BY <1>0, <1>1, <2>3, CountKept DEF acquireAuditLock, Counting, At
  <2>5. UNCHANGED <<log, anchor, released, disturbed>> /\ lock = <<>> /\ lock' = <<0>>
    BY <1>1 DEF acquireAuditLock
  <2>6. Undisturbed => Holding = {}
    BY <1>0, <2>5 DEF Logged, LockKept
  <2>7. Holding' = Holding \cup {p}
    BY <2>3 DEF Holding, Only
  <2>8. LockKept'
    <3>1. 1 \in DOMAIN lock'
      BY <2>5
    <3> QED  BY <2>5, <2>6, <2>7, <3>1 DEF LockKept, Undisturbed
  <2>9. Appending'
    BY <1>0, <2>3, <2>5 DEF Logged, Appending, Undisturbed, At, Only, InLog
  <2>10. Logged'
    BY <1>0, <2>5, <2>8, <2>9 DEF Logged, AnchorWhole, ChainKept, SignaturesRecorded
  <2> QED  BY <2>3, <2>4, <2>10 DEF Inv
<1>2. CASE removeStaleLock(p)
  <2>1. Commands' /\ Only(p) /\ proc'[p].pc = "acquire"
    BY <1>0, <1>2, Goes DEF removeStaleLock
  <2>2. Throttled'
    BY <1>0, <1>2, <2>1, CountKept DEF removeStaleLock, Counting, At
  <2>3. /\ UNCHANGED <<log, anchor, released>>
        /\ disturbed' = disturbed \cup (IF Holding = {} THEN {} ELSE {"takeover"})
    BY <1>2 DEF removeStaleLock
  <2>4. Holding' = Holding
    BY <1>2, <2>1 DEF removeStaleLock, Holding, Only, At
  <2>5. Undisturbed' => Undisturbed /\ Holding = {}
    BY <2>3 DEF Undisturbed
  <2>6. LockKept'
    BY <2>4, <2>5 DEF LockKept
  <2>7. Appending'
    BY <1>0, <2>1, <2>3, <2>5 DEF Logged, Appending, At, Only, InLog
  <2>8. Logged'
    BY <1>0, <2>3, <2>6, <2>7 DEF Logged, AnchorWhole, ChainKept, SignaturesRecorded
  <2> QED  BY <2>1, <2>2, <2>8 DEF Inv
<1> QED  BY <1>1, <1>2

\* What follows an append: only a signature adds to what was handed out.
LEMMA AppendedGoes ==
  ASSUME Commands, NEW p \in Process, NEW ok, Appended(p, ok)
  PROVE  /\ Commands' /\ Only(p) /\ proc'[p].pc \in {"acquire", "idle"}
         /\ \/ UNCHANGED released
            \/ /\ proc[p].event = "signed" /\ (ok \/ proc[p].unsafe)
               /\ released' = released \cup {[digest |-> proc[p].digest, unsafe |-> proc[p].unsafe]}
<1> DEFINE r == [proc[p] EXCEPT !.pc = "acquire", !.event = "signed", !.waited = 0, !.ok = TRUE]
<1>0. Shaped(proc[p])
  BY DEF Commands
<1>1. Shaped(r) /\ r.pc = "acquire"
  BY <1>0 DEF Shaped, Fields
<1>2. proc' = [proc EXCEPT ![p] = r] \/ Done(p)
  BY DEF Appended
<1> HIDE DEF r
<1>3. Commands' /\ Only(p) /\ proc'[p].pc \in {"acquire", "idle"}
  BY <1>1, <1>2, OneMoves, Ends
<1> QED  BY <1>3 DEF Appended, Proceeds

LEMMA TimingOutKeeps ==
  ASSUME Inv, NEW p \in Process, lockTimeout(p)
  PROVE  Inv'
<1>0. Commands /\ Logged /\ Throttled
  BY DEF Inv
<1>1. /\ Commands' /\ Only(p) /\ proc'[p].pc \in {"acquire", "idle"}
      /\ \/ UNCHANGED released
         \/ /\ proc[p].unsafe
            /\ released' = released \cup {[digest |-> proc[p].digest, unsafe |-> proc[p].unsafe]}
  BY <1>0, AppendedGoes DEF lockTimeout
<1>2. UNCHANGED <<lock, log, anchor, throttle, misses, disturbed>> /\ At(p, "acquire")
  BY DEF lockTimeout, files
<1>3. Throttled'
  BY <1>0, <1>1, <1>2, CountKept DEF Counting, At
<1>4. SignaturesRecorded'
  BY <1>0, <1>1, <1>2 DEF SignaturesRecorded, Logged
<1>5. LockKept' /\ Appending' /\ AnchorWhole' /\ ChainKept'
  <2>1. Holding' = Holding
    BY <1>1, <1>2 DEF Holding, Only, At
  <2> QED  BY <1>0, <1>1, <1>2, <2>1 DEF Logged, LockKept, Appending, AnchorWhole, ChainKept,
                                         Undisturbed, At, Only, InLog
<1>6. Logged'
  BY <1>0, <1>2, <1>4, <1>5 DEF Logged
<1> QED  BY <1>1, <1>3, <1>6 DEF Inv

-----------------------------------------------------------------------------
(* The appends.                                                            *)

LEMMA ReadingKeeps ==
  ASSUME Inv, NEW p \in Process, readAuditLines(p)
  PROVE  Inv'
<1> DEFINE e == NextEntry(log, proc[p].event, proc[p].digest)
           to == IF e = <<>> THEN "release" ELSE "append"
           whether == e # <<>>
           r == [proc[p] EXCEPT !.pc = to, !.entry = e, !.ok = whether]
<1>0. Shaped(proc[p]) /\ Commands /\ Logged /\ Throttled
  BY DEF Inv, Commands
<1>1. /\ proc' = [proc EXCEPT ![p] = r] /\ At(p, "read")
      /\ UNCHANGED <<lock, log, anchor, throttle, released, misses, disturbed>>
  BY DEF readAuditLines, files, quiet
<1>2. e # <<>> => verifyChain(log)
  BY DEF NextEntry
<1>3. (e = <<>> => to = "release" /\ ~whether) /\ (e # <<>> => to = "append")
  OBVIOUS
<1> HIDE DEF e, to, whether
<1>4. /\ Shaped(r) /\ r.pc = to /\ r.entry = e /\ (r.ok <=> whether)
      /\ r.event = proc[p].event /\ r.digest = proc[p].digest
  BY <1>0 DEF Shaped, Fields
<1> HIDE DEF r
<1>5. /\ Commands' /\ Only(p)
      /\ proc'[p].pc = to /\ proc'[p].entry = e /\ (proc'[p].ok <=> whether)
      /\ proc'[p].event = proc[p].event /\ proc'[p].digest = proc[p].digest
  BY <1>0, <1>1, <1>4, OneMoves
<1>6. to \in {"append", "release"}
  BY <1>3
<1>7. Throttled'
  BY <1>0, <1>1, <1>5, <1>6, CountKept DEF Counting, At
<1>8. /\ LockKept'
      /\ Undisturbed' => \A q \in Process \ {p} : proc'[q].pc \notin Writing
  BY <1>0, <1>1, <1>5, <1>6, HoldsOn DEF Logged, Holding, Writing, At
<1>9. Appending'
  <2> SUFFICES ASSUME Undisturbed'
               PROVE  /\ proc'[p].pc = "append" =>
                           verifyChain(log) /\ proc'[p].entry = NextEntry(log, proc'[p].event, proc'[p].digest)
                      /\ proc'[p].pc # "watermark"
                      /\ proc'[p].pc = "release" => ~proc'[p].ok
    BY <1>1, <1>8 DEF Appending, At, Writing
  <2> QED  BY <1>2, <1>3, <1>5 DEF e
<1>10. Logged'
  BY <1>0, <1>1, <1>8, <1>9 DEF Logged, AnchorWhole, ChainKept, SignaturesRecorded
<1> QED  BY <1>5, <1>7, <1>10 DEF Inv

\* The log grows: what it recorded stays recorded.
LEMMA RecordsStay ==
  ASSUME SignaturesRecorded, UNCHANGED released, disturbed \subseteq disturbed',
         DOMAIN log \subseteq DOMAIN log', \A i \in DOMAIN log : log'[i] = log[i]
  PROVE  SignaturesRecorded'
<1>1. ASSUME NEW d, \E i \in DOMAIN log : log[i].event = "signed" /\ log[i].digest = d
      PROVE  \E i \in DOMAIN log' : log'[i].event = "signed" /\ log'[i].digest = d
  <2> PICK i \in DOMAIN log : log[i].event = "signed" /\ log[i].digest = d
    BY <1>1
  <2>1. i \in DOMAIN log' /\ log'[i] = log[i]
    OBVIOUS
  <2> QED  BY <2>1
<1> QED  BY <1>1 DEF SignaturesRecorded

LEMMA LoggingKeeps ==
  ASSUME Inv, NEW p \in Process, appendLog(p)
  PROVE  Inv'
<1>0. Shaped(proc[p]) /\ Commands /\ Logged /\ Throttled
  BY DEF Inv, Commands
<1>1. /\ UNCHANGED <<lock, anchor, throttle, released, misses>> /\ At(p, "append")
      /\ disturbed \subseteq disturbed' /\ p \in Holding
  BY DEF appendLog, Holding, At
<1>2. CASE /\ log' = AppendLine(log, proc[p].entry[1]) /\ UNCHANGED disturbed
           /\ Goto(p, "watermark")
  <2>1. /\ Commands' /\ Only(p) /\ proc'[p].pc = "watermark"
        /\ proc'[p].event = proc[p].event /\ proc'[p].digest = proc[p].digest
        /\ proc'[p].entry = proc[p].entry
    BY <1>0, <1>2, Goes
  <2>2. Throttled'
    BY <1>0, <1>1, <2>1, CountKept DEF Counting, At
  <2>3. /\ LockKept'
        /\ Undisturbed' => \A q \in Process \ {p} : proc'[q].pc \notin Writing
    BY <1>0, <1>1, <2>1, HoldsOn DEF Logged, Writing
  <2>4. /\ IsASequence(log') /\ DOMAIN log \subseteq DOMAIN log'
        /\ \A i \in DOMAIN log : log'[i] = log[i]
    BY <1>0, <1>2, AppendLineKeeps DEF Logged
  <2>5. SignaturesRecorded'
    BY <1>0, <1>1, <2>4, RecordsStay DEF Logged
  <2>6. ASSUME Undisturbed
        PROVE  /\ verifyChain(log') /\ log' # <<>> /\ proc[p].entry = <<log'[Len(log')]>>
               /\ log'[Len(log')].seq = Len(log')
               /\ log'[Len(log')].event = proc[p].event /\ log'[Len(log')].digest = proc[p].digest
    <3>1. verifyChain(log) /\ proc[p].entry = NextEntry(log, proc[p].event, proc[p].digest)
      BY <1>0, <1>1, <2>6 DEF Logged, Appending
    <3>2. IsASequence(log) /\ proc[p].event # "torn"
      BY <1>0 DEF Logged, Shaped
    <3>3. PICK e : /\ NextEntry(log, proc[p].event, proc[p].digest) = <<e>>
                   /\ e.event = proc[p].event /\ e.digest = proc[p].digest
                   /\ e.seq = Len(log) + 1
                   /\ AppendLine(log, e) = Append(log, e)
                   /\ verifyChain(Append(log, e))
      BY <3>1, <3>2, NextEntryVerifies
    <3>4. proc[p].entry = <<e>> /\ proc[p].entry[1] = e
      BY <3>1, <3>3
    <3>5. log' = Append(log, e)
      BY <1>2, <3>3, <3>4
    <3>6. Len(log') = Len(log) + 1 /\ log'[Len(log) + 1] = e /\ log' # <<>>
      BY <3>2, <3>5, AppendSequence
    <3> QED  BY <3>3, <3>4, <3>5, <3>6
  <2>7. Appending'
    BY <1>2, <2>1, <2>3, <2>6 DEF Appending, Undisturbed, At, Writing
  <2>8. ChainKept'
    <3> SUFFICES ASSUME disturbed' \cap {"takeover", "torn"} = {}
                 PROVE  /\ verifyChain(log')
                        /\ \A i \in DOMAIN anchor :
                             anchor[i].seq \in DOMAIN log' /\ log'[anchor[i].seq].hash = anchor[i].hash
      BY <1>1 DEF ChainKept
    <3>1. disturbed \cap {"takeover", "torn"} = {} /\ Undisturbed
      BY <1>2 DEF Undisturbed
    <3>2. \A i \in DOMAIN anchor :
            anchor[i].seq \in DOMAIN log /\ log[anchor[i].seq].hash = anchor[i].hash
      BY <1>0, <3>1 DEF Logged, ChainKept
    <3> QED  BY <2>4, <2>6, <3>1, <3>2
  <2>9. Logged'
    BY <1>0, <1>1, <1>2, <2>3, <2>4, <2>5, <2>7, <2>8 DEF Logged, AnchorWhole
  <2> QED  BY <2>1, <2>2, <2>9 DEF Inv
<1>3. ASSUME NEW torn \in BOOLEAN,
             log' = IF torn THEN AppendLine(log, TornLine) ELSE log,
             disturbed' = IF torn THEN disturbed \cup {"torn"} ELSE disturbed,
             proc' = [proc EXCEPT ![p].pc = "release", ![p].entry = <<>>, ![p].ok = FALSE]
      PROVE  Inv'
  <2> DEFINE r == [proc[p] EXCEPT !.pc = "release", !.entry = <<>>, !.ok = FALSE]
  <2>1. Shaped(r) /\ r.pc = "release" /\ ~r.ok
    BY <1>0 DEF Shaped, Fields
  <2>2. proc' = [proc EXCEPT ![p] = r]
    BY <1>3
  <2> HIDE DEF r
  <2>3. Commands' /\ Only(p) /\ proc'[p].pc = "release" /\ ~proc'[p].ok
    BY <1>0, <2>1, <2>2, OneMoves
  <2>4. Throttled'
    BY <1>0, <1>1, <2>3, CountKept DEF Counting, At
  <2>5. /\ LockKept'
        /\ Undisturbed' => \A q \in Process \ {p} : proc'[q].pc \notin Writing
    BY <1>0, <1>1, <2>3, HoldsOn DEF Logged, Writing
  <2>6. /\ IsASequence(log') /\ DOMAIN log \subseteq DOMAIN log'
        /\ \A i \in DOMAIN log : log'[i] = log[i]
    BY <1>0, <1>3, AppendLineKeeps DEF Logged
  <2>7. SignaturesRecorded'
    BY <1>0, <1>1, <2>6, RecordsStay DEF Logged
  <2>8. Appending'
    BY <2>3, <2>5 DEF Appending, At, Writing
  <2>9. AnchorWhole' /\ ChainKept'
    <3>1. CASE torn
      BY <1>3, <3>1 DEF AnchorWhole, ChainKept
    <3>2. CASE ~torn
      BY <1>0, <1>1, <1>3, <3>2 DEF Logged, AnchorWhole, ChainKept
    <3> QED  BY <3>1, <3>2
  <2>10. Logged'
    BY <1>0, <1>1, <2>5, <2>6, <2>7, <2>8, <2>9 DEF Logged
  <2> QED  BY <2>3, <2>4, <2>10 DEF Inv
<1> QED  BY <1>2, <1>3 DEF appendLog

LEMMA AnchoringKeeps ==
  ASSUME Inv, NEW p \in Process, appendAnchor(p)
  PROVE  Inv'
<1>0. Shaped(proc[p]) /\ Commands /\ Logged /\ Throttled
  BY DEF Inv, Commands
<1>1. /\ UNCHANGED <<lock, log, throttle, released, misses>> /\ At(p, "watermark")
      /\ disturbed \subseteq disturbed' /\ p \in Holding
  BY DEF appendAnchor, Holding, At
<1>2. ASSUME Undisturbed
      PROVE  /\ log # <<>> /\ proc[p].entry = <<log[Len(log)]>>
             /\ log[Len(log)].seq = Len(log)
             /\ log[Len(log)].event = proc[p].event /\ log[Len(log)].digest = proc[p].digest
             /\ Len(log) \in DOMAIN log
  <2>1. log \in Seq({log[i] : i \in DOMAIN log})
    BY <1>0 DEF Logged, IsASequence
  <2>2. log # <<>>
    BY <1>0, <1>1, <1>2 DEF Logged, Appending
  <2>3. Len(log) \in DOMAIN log
    BY <2>1, <2>2, EmptySeq, LenProperties
  <2> QED  BY <1>0, <1>1, <1>2, <2>3 DEF Logged, Appending
<1>3. ASSUME NEW r, Shaped(r), r.pc = "release", r.event = proc[p].event, r.digest = proc[p].digest,
             proc' = [proc EXCEPT ![p] = r], IsASequence(anchor'), AnchorWhole', ChainKept',
             r.ok => proc[p].ok
      PROVE  Inv'
  <2>1. /\ Commands' /\ Only(p) /\ proc'[p] = r
    BY <1>0, <1>3, OneMoves
  <2>2. Throttled'
    BY <1>0, <1>1, <1>3, <2>1, CountKept DEF Counting, At
  <2>3. /\ LockKept'
        /\ Undisturbed' => \A q \in Process \ {p} : proc'[q].pc \notin Writing
    BY <1>0, <1>1, <1>3, <2>1, HoldsOn DEF Logged, Writing
  <2>4. SignaturesRecorded'
    BY <1>0, <1>1 DEF Logged, SignaturesRecorded
  <2>5. Appending'
    <3>1. Undisturbed' => Undisturbed
      BY <1>1 DEF Undisturbed
    <3>2. Undisturbed => InLog(proc[p].event, proc[p].digest)'
      BY <1>1, <1>2, <1>3, <2>1 DEF InLog
    <3>3. Undisturbed' => InLog(proc[p].event, proc[p].digest)' /\ proc'[p].pc = "release"
      BY <3>1, <3>2, <1>3, <2>1
    <3> QED  BY <2>3, <3>3 DEF Appending, At, Writing
  <2>6. Logged'
    BY <1>0, <1>1, <1>3, <2>3, <2>4, <2>5 DEF Logged
  <2> QED  BY <2>1, <2>2, <2>6 DEF Inv
<1>4. CASE /\ anchor' = AppendLine(anchor, AnchorOf(proc[p].entry[1])) /\ UNCHANGED disturbed
           /\ proc' = [proc EXCEPT ![p].pc = "release", ![p].entry = <<>>]
  <2> DEFINE r == [proc[p] EXCEPT !.pc = "release", !.entry = <<>>]
             a == AnchorOf(proc[p].entry[1])
  <2>1. /\ Shaped(r) /\ r.pc = "release" /\ r.event = proc[p].event /\ r.digest = proc[p].digest
        /\ r.ok => proc[p].ok
    BY <1>0 DEF Shaped, Fields
  <2>2. proc' = [proc EXCEPT ![p] = r]
    BY <1>4
  <2> HIDE DEF r
  <2>3. IsASequence(anchor')
    BY <1>0, <1>4, AppendLineKeeps DEF Logged
  <2>4. AnchorWhole' /\ ChainKept'
    <3> SUFFICES ASSUME disturbed' \cap {"takeover", "torn"} = {}
                 PROVE  /\ \A i \in DOMAIN anchor' :
                             /\ anchor'[i].event # "torn"
                             /\ anchor'[i].seq \in DOMAIN log /\ log[anchor'[i].seq].hash = anchor'[i].hash
                        /\ verifyChain(log)
      BY <1>1 DEF AnchorWhole, ChainKept
    <3>1. disturbed \cap {"takeover", "torn"} = {} /\ Undisturbed
      BY <1>4 DEF Undisturbed
    <3>2. verifyChain(log) /\ \A i \in DOMAIN anchor :
            /\ anchor[i].event # "torn"
            /\ anchor[i].seq \in DOMAIN log /\ log[anchor[i].seq].hash = anchor[i].hash
      BY <1>0, <3>1 DEF Logged, AnchorWhole, ChainKept
    <3>3. a.event = "anchor" /\ a.seq = Len(log) /\ a.hash = log[Len(log)].hash
      BY <1>2, <3>1 DEF AnchorOf
    <3>4. IsASequence(anchor)
      BY <1>0 DEF Logged
    <3> HIDE DEF a
    <3>5. /\ Len(anchor) \in Nat /\ DOMAIN anchor = 1..Len(anchor)
          /\ DOMAIN Append(anchor, a) = 1..(Len(anchor) + 1)
          /\ \A i \in DOMAIN anchor : Append(anchor, a)[i] = anchor[i]
          /\ Append(anchor, a)[Len(anchor) + 1] = a
      BY <3>4, AppendSequence
    <3>6. CASE anchor' = anchor
      BY <3>2, <3>6
    <3>7. CASE anchor' = Append(anchor, a)
      <4>1. \A i \in DOMAIN anchor' : i \in DOMAIN anchor \/ i = Len(anchor) + 1
        BY <3>5, <3>7
      <4> QED  BY <1>2, <3>1, <3>2, <3>3, <3>5, <3>7, <4>1
    <3> QED  BY <1>4, <3>6, <3>7 DEF AppendLine, a
  <2> QED  BY <1>3, <2>1, <2>2, <2>3, <2>4
<1>5. ASSUME NEW torn \in BOOLEAN,
             anchor' = IF torn THEN AppendLine(anchor, TornAnchor) ELSE anchor,
             disturbed' = IF torn THEN disturbed \cup {"torn"} ELSE disturbed,
             proc' = [proc EXCEPT ![p].pc = "release", ![p].entry = <<>>, ![p].ok = FALSE]
      PROVE  Inv'
  <2> DEFINE r == [proc[p] EXCEPT !.pc = "release", !.entry = <<>>, !.ok = FALSE]
  <2>1. /\ Shaped(r) /\ r.pc = "release" /\ r.event = proc[p].event /\ r.digest = proc[p].digest
        /\ ~r.ok
    BY <1>0 DEF Shaped, Fields
  <2>2. proc' = [proc EXCEPT ![p] = r]
    BY <1>5
  <2> HIDE DEF r
  <2>3. IsASequence(anchor')
    BY <1>0, <1>5, AppendLineKeeps DEF Logged
  <2>4. AnchorWhole' /\ ChainKept'
    <3>1. CASE torn
      BY <1>5, <3>1 DEF AnchorWhole, ChainKept
    <3>2. CASE ~torn
      BY <1>0, <1>1, <1>5, <3>2 DEF Logged, AnchorWhole, ChainKept
    <3> QED  BY <3>1, <3>2
  <2> QED  BY <1>3, <2>1, <2>2, <2>3, <2>4
<1> QED  BY <1>4, <1>5 DEF appendAnchor

LEMMA ReleasingKeeps ==
  ASSUME Inv, NEW p \in Process, releaseAuditLock(p)
  PROVE  Inv'
<1>0. Commands /\ Logged /\ Throttled
  BY DEF Inv
<1>1. /\ Commands' /\ Only(p) /\ proc'[p].pc \in {"acquire", "idle"}
      /\ \/ UNCHANGED released
         \/ /\ proc[p].event = "signed" /\ (proc[p].ok \/ proc[p].unsafe)
            /\ released' = released \cup {[digest |-> proc[p].digest, unsafe |-> proc[p].unsafe]}
  BY <1>0, AppendedGoes DEF releaseAuditLock
<1>2. UNCHANGED <<log, anchor, throttle, misses, disturbed>> /\ At(p, "release")
  BY DEF releaseAuditLock
<1>3. Throttled'
  BY <1>0, <1>1, <1>2, CountKept DEF Counting, At
<1>4. LockKept'
  <2>1. Holding' = Holding \ {p} /\ p \in Holding
    BY <1>1, <1>2 DEF Holding, Only, At
  <2>2. Undisturbed => Holding' = {}
    BY <1>0, <2>1 DEF Logged, LockKept
  <2> QED  BY <1>2, <2>2 DEF LockKept, Undisturbed
<1>5. Appending'
  BY <1>0, <1>1, <1>2 DEF Logged, Appending, Undisturbed, At, Only, InLog
<1>6. SignaturesRecorded'
  <2>1. CASE UNCHANGED released
    BY <1>0, <1>2, <2>1 DEF Logged, SignaturesRecorded
  <2>2. CASE /\ proc[p].event = "signed" /\ (proc[p].ok \/ proc[p].unsafe)
             /\ released' = released \cup {[digest |-> proc[p].digest, unsafe |-> proc[p].unsafe]}
    <3>1. (Undisturbed /\ proc[p].ok) => InLog("signed", proc[p].digest)
      BY <1>0, <1>2, <2>2 DEF Logged, Appending
    <3> QED  BY <1>0, <1>2, <2>2, <3>1 DEF Logged, SignaturesRecorded, Undisturbed, InLog
  <2> QED  BY <1>1, <2>1, <2>2
<1>7. Logged'
  BY <1>0, <1>2, <1>4, <1>5, <1>6 DEF Logged, AnchorWhole, ChainKept
<1> QED  BY <1>1, <1>3, <1>7 DEF Inv

-----------------------------------------------------------------------------
(* Crashes and the passing of time.                                        *)

LEMMA CrashKeeps ==
  ASSUME Inv, NEW p \in Process, Crash(p)
  PROVE  Inv'
<1>0. Commands /\ Logged /\ Throttled
  BY DEF Inv
<1>1. /\ Commands' /\ Only(p) /\ proc'[p].pc = "idle"
      /\ UNCHANGED <<throttle, lock, log, anchor, released, misses>> /\ disturbed \subseteq disturbed'
  BY <1>0, Ends DEF Crash, files
<1>2. Logged'
  BY <1>0, <1>1, LogsKept DEF Writing
<1>3. Throttled'
  <2>1. CASE p \notin Counting
    BY <1>0, <1>1, <2>1, CountKept
  <2>2. CASE p \in Counting
    <3>1. disturbed' \cap {"truncated", "uncounted"} # {}
      BY <2>2 DEF Crash, Counting, At
    <3> QED  BY <1>0, <1>1, <3>1 DEF Throttled, ThrottleFile, Counted
  <2> QED  BY <2>1, <2>2
<1> QED  BY <1>1, <1>2, <1>3 DEF Inv

LEMMA TickKeeps ==
  ASSUME Inv, Tick
  PROVE  Inv'
<1>0. Commands /\ Logged /\ Throttled
  BY DEF Inv
<1>1. UNCHANGED <<log, anchor, released, misses, disturbed>>
  BY DEF Tick
<1>2. ASSUME NEW p \in Process
      PROVE  /\ Shaped(proc'[p]) /\ proc'[p].pc = proc[p].pc /\ proc'[p].event = proc[p].event
             /\ proc'[p].digest = proc[p].digest /\ proc'[p].entry = proc[p].entry
             /\ proc'[p].failures = proc[p].failures /\ (proc'[p].ok <=> proc[p].ok)
  <2> DEFINE least == Least(proc[p].waited + 1, auditLockTimeout + 1)
             r == [proc[p] EXCEPT !.waited = least]
  <2>1. proc'[p] = r \/ proc'[p] = proc[p]
    BY DEF Tick
  <2>2. Shaped(proc[p])
    BY <1>0 DEF Commands
  <2> HIDE DEF least
  <2>3. /\ Shaped(r) /\ r.pc = proc[p].pc /\ r.event = proc[p].event
        /\ r.digest = proc[p].digest /\ r.entry = proc[p].entry
        /\ r.failures = proc[p].failures /\ (r.ok <=> proc[p].ok)
    BY <2>2 DEF Shaped, Fields
  <2> HIDE DEF r
  <2> QED  BY <2>1, <2>2, <2>3
<1>3. proc' = [p \in Process |-> proc'[p]]
  BY DEF Tick
<1>4. Commands'
  BY <1>2, <1>3 DEF Commands
<1>5. Holding' = Holding /\ Counting' = Counting
  BY <1>2 DEF Holding, Counting
<1>6. Logged'
  <2>1. DOMAIN lock' = DOMAIN lock
    BY DEF Tick
  <2>2. LockKept'
    BY <1>0, <1>1, <1>5, <2>1 DEF Logged, LockKept, Undisturbed
  <2>3. Appending'
    BY <1>0, <1>1, <1>2 DEF Logged, Appending, Undisturbed, At, InLog
  <2> QED  BY <1>0, <1>1, <2>2, <2>3 DEF Logged, AnchorWhole, ChainKept, SignaturesRecorded
<1>7. Throttled'
  <2> DEFINE line == throttle[1]
             less == line.lockedFor - 1
             down == [line EXCEPT !.lockedFor = less]
  <2>1. throttle' = [i \in DOMAIN throttle |->
                       IF throttle[i].written /\ throttle[i].lockedFor > 0
                       THEN [throttle[i] EXCEPT !.lockedFor = @ - 1] ELSE throttle[i]]
    BY DEF Tick
  <2>2. ThrottleFile' /\ loadThrottleState'.failures = loadThrottleState.failures
    <3>1. CASE throttle = <<>>
      <4>1. throttle' = <<>>
        BY <2>1, <3>1
      <4> QED  BY <3>1, <4>1 DEF ThrottleFile, loadThrottleState
    <3>2. CASE throttle # <<>>
      <4>1. /\ throttle = <<line>>
            /\ line.written => line = [f \in {"written", "failures", "lockedFor"} |-> line[f]]
        BY <1>0, <3>2 DEF Throttled, ThrottleFile
      <4>2. DOMAIN throttle = {1}
        BY <4>1
      <4>3. throttle' = <<throttle'[1]>>
        BY <2>1, <4>2
      <4>4. throttle'[1] = line \/ (line.written /\ throttle'[1] = down)
        BY <2>1, <4>2
      <4> HIDE DEF line
      <4>5. line.written => /\ down.written /\ down.failures = line.failures
                            /\ down = [f \in {"written", "failures", "lockedFor"} |-> down[f]]
        <5> HIDE DEF less
        <5> QED  BY <4>1
      <4> HIDE DEF down
      <4>6. /\ throttle'[1].written <=> line.written
            /\ line.written => throttle'[1].failures = line.failures
        BY <4>4, <4>5
      <4>7. ThrottleFile'
        BY <4>1, <4>3, <4>4, <4>5 DEF ThrottleFile
      <4>8. throttle # <<>> /\ throttle' # <<>> /\ throttle[1] = line
        BY <3>2, <4>3 DEF line
      <4> QED  BY <4>6, <4>7, <4>8 DEF loadThrottleState
    <3> QED  BY <3>1, <3>2
  <2>3. Counted'
    BY <1>0, <1>1, <1>2, <1>5, <2>2 DEF Throttled, Counted, Counting
  <2> QED  BY <2>2, <2>3 DEF Throttled
<1> QED  BY <1>4, <1>6, <1>7 DEF Inv

-----------------------------------------------------------------------------
(* The theorems.                                                           *)

LEMMA InitHolds ==
  ASSUME Init
  PROVE  Inv
<1>1. Commands
  BY IdleShaped DEF Init, Commands
<1>2. Holding = {} /\ Counting = {}
  BY IdleShaped DEF Init, Holding, Counting
<1>3. IsASequence(log) /\ IsASequence(anchor)
  BY DEF Init, IsASequence
<1>4. Appending
  BY IdleShaped DEF Init, Appending, At
<1>5. verifyChain(log)
  BY DEF Init, verifyChain
<1>6. Throttled
  BY <1>2 DEF Init, Throttled, ThrottleFile, Counted, loadThrottleState
<1>7. Logged
  BY <1>2, <1>3, <1>4, <1>5 DEF Init, Logged, LockKept, AnchorWhole, ChainKept, SignaturesRecorded
<1> QED  BY <1>1, <1>6, <1>7 DEF Inv

LEMMA StepKeeps ==
  ASSUME Inv, NEW p \in Process, Step(p)
  PROVE  Inv'
BY CreatingKeeps, OpeningKeeps, CountingKeeps, ClearingKeeps, LockingKeeps, TimingOutKeeps,
   ReadingKeeps, LoggingKeeps, AnchoringKeeps, ReleasingKeeps DEF Step

LEMMA NextKeeps ==
  ASSUME Inv, [Next]_vars
  PROVE  Inv'
<1>1. CASE UNCHANGED vars
  BY <1>1 DEF vars, files, Inv, Commands, Logged, LockKept, Appending, AnchorWhole, ChainKept,
              SignaturesRecorded, Throttled, ThrottleFile, Counted, Holding, Counting,
              loadThrottleState, At, InLog, Undisturbed
<1>2. CASE \E p \in Process : Step(p) \/ Crash(p)
  BY <1>2, StepKeeps, CrashKeeps
<1>3. CASE \E p \in Process, d \in Digests, w \in Passwords, unsafe \in TestMode :
             signDigest(p, d, w, unsafe)
  BY <1>3, OpeningKeeps
<1>4. CASE \E p \in Process, w \in Passwords : writeNewKeystore(p, w)
  BY <1>4, CreatingKeeps
<1>5. CASE Tick
  BY <1>5, TickKeeps
<1> QED  BY <1>1, <1>2, <1>3, <1>4, <1>5 DEF Next

LEMMA Invariant == Spec => []Inv
<1>1. Init => Inv
  BY InitHolds
<1>2. Inv /\ [Next]_vars => Inv'
  BY NextKeeps
<1> QED  BY <1>1, <1>2, PTL DEF Spec

\* The audit log of a keystore verifies and agrees with its anchor, however many
\* commands append to it and whichever crash, as long as no line is torn and no
\* lock is taken from a process that holds it (acquireAuditLock and
\* AppendAuditEventTo).
THEOREM LogStaysVerifiable == Spec => []ChainKept
<1>1. Inv => ChainKept
  BY DEF Inv, Logged
<1> QED  BY <1>1, Invariant, PTL

\* A signature made in normal mode is handed out only after the log records it,
\* torn lines, failed writes and crashes included (the appends of signDigest).
THEOREM SignaturesStayRecorded == Spec => []SignaturesRecorded
<1>1. Inv => SignaturesRecorded
  BY DEF Inv, Logged
<1> QED  BY <1>1, Invariant, PTL

\* Between attempts that neither overlap nor are cut short, the throttle file
\* counts every failed unlock since the last success (RecordUnlockFailure and
\* RecordUnlockSuccess).
THEOREM FailuresStayCounted == Spec => []MissesCounted
<1>1. Inv => MissesCounted
  BY DEF Inv, Throttled, Counted, MissesCounted
<1> QED  BY <1>1, Invariant, PTL
=============================================================================
