--------------------------- MODULE IndexerProofs ---------------------------
(***************************************************************************)
(* The stored events are those of the canonical chain, for any chain,      *)
(* number of replicas, policy and operator's interventions, while the      *)
(* chain reorganises only between polls.  The argument: events, history    *)
(* and dead letters always fit the hash of the checkpoint, canonical or    *)
(* not; a poll that may still write has read the checkpoint it replaces,   *)
(* which its version tells; and what it has read is still canonical.       *)
(***************************************************************************)
EXTENDS Indexer, SequenceTheorems, WellFoundedInduction, TLAPS

\* Two replicas never raise the pause flag on each other's checkpoints: there
\* is one replica, or no reorganisation is deeper than the automatic depth.
FlagsAlone == (\A r, s \in Replicas : r = s) \/ MaxHeight <= MaxAutoReorgDepth

-----------------------------------------------------------------------------
\* h is an initial part of c; the row of a chain's block; rows of some chain.
Begins(h, c) == Len(h) <= Len(c) /\ h = SubSeq(c, 1, Len(h))

Row(h, n) == [log |-> h[n], number |-> n, hash |-> SubSeq(h, 1, n)]

Genuine(e) ==
    /\ e.hash \in Hash /\ e.number = Len(e.hash) /\ e.number >= 1
    /\ e.log \in Logs /\ e = Row(e.hash, e.number)

NoRepeats(h) == \A i, j \in DOMAIN h : h[i] \in Logs /\ h[i] = h[j] => i = j

ChainOK == chain \in Hash /\ Len(chain) \in 1..MaxHeight /\ NoRepeats(chain)

\* The chain below the trusted start never changes.
Rooted(h) ==
    \A n \in 1..Len(h) : n <= StartBlock => n <= Len(chain) /\ SubSeq(h, 1, n) = HashAt(n)

Checkpoints == [lastBlock : Nat, hash : Hash, flagged : BOOLEAN, version : Nat, stored : BOOLEAN]

CheckpointOK ==
    /\ checkpoint \in Checkpoints
    /\ checkpoint.lastBlock = Len(checkpoint.hash) /\ checkpoint.lastBlock <= MaxHeight
    /\ ~checkpoint.stored => checkpoint = NoCheckpoint
    /\ Rooted(checkpoint.hash)

\* No event but those of the checkpoint's own chain.
EventsFit ==
    \A e \in events : /\ e.number \in 1..checkpoint.lastBlock /\ e.log \in Logs
                      /\ e = Row(checkpoint.hash, e.number)

HistoryFits ==
    /\ history = [n \in DOMAIN history |-> history[n]]
    /\ DOMAIN history \subseteq Nat
    /\ \A n \in DOMAIN history :
          n <= checkpoint.lastBlock => history[n] = SubSeq(checkpoint.hash, 1, n)

DeadLettersFit ==
    /\ deadLetters = [l \in DOMAIN deadLetters |-> deadLetters[l]]
    /\ \A l \in DOMAIN deadLetters :
          /\ deadLetters[l] = [source |-> deadLetters[l].source, resolved |-> deadLetters[l].resolved]
          /\ deadLetters[l].resolved \in BOOLEAN
          /\ Genuine(deadLetters[l].source) /\ deadLetters[l].source.log = l

\* A log is stored, or its open dead letter has this very row, or an operator
\* dismissed it.
Open(l) == /\ l.log \in DOMAIN deadLetters
           /\ ~deadLetters[l.log].resolved /\ deadLetters[l.log].source = l

Accounted(l) == l \in events \/ l.log \in dismissed \/ Open(l)

Complete ==
    reindexing = 0 => \A n \in StartBlock..checkpoint.lastBlock :
        checkpoint.hash[n] \in Logs => Accounted(Row(checkpoint.hash, n))

Reindexing ==
    /\ reindexing \in 0..2
    /\ reindexing = 0 => (~checkpoint.stored => history = <<>>)
    /\ reindexing > 0 => (events = {} /\ \A r \in Replicas : poll[r].pc = "idle")
    /\ reindexing = 1 => ~checkpoint.stored

-----------------------------------------------------------------------------
(* What a poll in progress knows.                                          *)

Scans == {"boundary", "scan", "validate", "prepare", "commit"}

Shape(p) ==
    /\ p = [pc |-> p.pc, cp |-> p.cp, head |-> p.head, from |-> p.from, to |-> p.to, hash |-> p.hash,
            logs |-> p.logs, new |-> p.new, hashes |-> p.hashes, attempt |-> p.attempt]
    /\ p.pc \in {"idle", "rollback", "flag", "rewind"} \cup Scans
    /\ p.cp \in Checkpoints /\ p.head \in Nat /\ p.from \in Nat /\ p.to \in Nat /\ p.hash \in Hash

\* The version the poll has read is the stored one: nobody wrote since.
Fresh(p) == p.cp.version = checkpoint.version

Loaded(p) ==
    /\ reindexing = 0
    /\ p.cp.version <= checkpoint.version /\ p.cp.lastBlock <= MaxHeight
    /\ Fresh(p) => p.cp = loadCheckpoint /\ ~checkpoint.flagged
    /\ (\A r, s \in Replicas : r = s) => Fresh(p)

Scanning(p) ==
    /\ Begins(checkpoint.hash, chain)
    /\ 1 <= p.from /\ p.from <= p.to
    /\ Fresh(p) => IF checkpoint.stored THEN p.from = checkpoint.lastBlock + 1 ELSE p.from <= StartBlock
    /\ p.pc # "boundary" => p.to <= BlockNumber /\ p.hash \in {<<>>, HashAt(p.to)}
    /\ p.pc \in {"validate", "prepare", "commit"} => p.logs = FilterLogs(p.from, p.to)
    /\ p.pc \in {"prepare", "commit"} => p.hash = HashAt(p.to)
    /\ p.pc = "commit" =>
          /\ p.hashes = [n \in RecordFrom(p)..p.to |-> HashAt(n)]
          /\ p.new \subseteq p.logs
          /\ Fresh(p) => \A l \in p.logs : l \in p.new \/ l.log \in dismissed \/ Open(l)

RollingBack(p) ==
    /\ p.cp.stored
    /\ p.pc = "flag" => \A r, s \in Replicas : r = s
    /\ p.pc # "flag" => p.to <= BlockNumber /\ p.to <= p.cp.lastBlock
    /\ p.pc = "rewind" => p.hash = HashAt(p.to) /\ (Fresh(p) => p.hash = SubSeq(checkpoint.hash, 1, p.to))

PollOK(p) ==
    /\ Shape(p)
    /\ p.pc # "idle" => Loaded(p)
    /\ p.pc \in Scans => Scanning(p)
    /\ p.pc \in {"rollback", "flag", "rewind"} => RollingBack(p)

PollsOK == poll = [r \in Replicas |-> poll[r]] /\ \A r \in Replicas : PollOK(poll[r])

StoresOK == CheckpointOK /\ EventsFit /\ HistoryFits /\ DeadLettersFit /\ Complete /\ Reindexing

Inv == ChainOK /\ StoresOK /\ PollsOK

-----------------------------------------------------------------------------
(* Hashes: initial parts of chains.                                        *)

LEMMA PartOf ==
    ASSUME NEW c \in Hash, NEW n \in 0..Len(c)
    PROVE  /\ SubSeq(c, 1, n) \in Hash /\ Len(SubSeq(c, 1, n)) = n
           /\ \A i \in 1..n : SubSeq(c, 1, n)[i] = c[i]
  BY SubSeqProperties DEF Hash

LEMMA Whole ==
    ASSUME NEW c \in Hash
    PROVE  SubSeq(c, 1, Len(c)) = c
  BY SubSeqFull DEF Hash

LEMMA PartOfPart ==
    ASSUME NEW c \in Hash, NEW n \in 0..Len(c), NEW m \in 0..n
    PROVE  SubSeq(SubSeq(c, 1, n), 1, m) = SubSeq(c, 1, m)
<1>1. CASE m = 0
  BY <1>1, SubSeqEmpty
<1>2. CASE m # 0
  <2>1. /\ SubSeq(c, 1, n) \in Seq({Empty} \cup Logs)
        /\ m \in 1..n /\ n \in 1..Len(c) /\ 1 \in 1..Len(c) /\ 1 \in 1..(n - 1 + 1)
        /\ c \in Seq({Empty} \cup Logs) /\ m \in 1..(n - 1 + 1)
    BY <1>2, PartOf DEF Hash
  <2>2. SubSeq(SubSeq(c, 1, n), 1, m) = SubSeq(c, 1 + 1 - 1, 1 + m - 1)
    BY <2>1, SubSeqOfSubSeq
  <2> QED  BY <2>1, <2>2
<1> QED  BY <1>1, <1>2

LEMMA PartBegins ==
    ASSUME NEW c \in Hash, NEW n \in 0..Len(c)
    PROVE  Begins(SubSeq(c, 1, n), c)
  BY PartOf DEF Begins

LEMMA BeginsParts ==
    ASSUME NEW c \in Hash, NEW h \in Hash, Begins(h, c), NEW n \in 0..Len(h)
    PROVE  n \in 0..Len(c) /\ SubSeq(h, 1, n) = SubSeq(c, 1, n)
<1>1. Len(h) \in 0..Len(c)
  BY DEF Begins, Hash
<1> QED  BY <1>1, PartOfPart DEF Begins

LEMMA BeginsRow ==
    ASSUME NEW c \in Hash, NEW h \in Hash, Begins(h, c), NEW n \in 1..Len(h)
    PROVE  n \in 1..Len(c) /\ h[n] = c[n] /\ Row(h, n) = Row(c, n)
<1>1. Len(h) \in 0..Len(c) /\ n \in 0..Len(h)
  BY DEF Begins, Hash
<1>2. h[n] = c[n]
  BY <1>1, PartOf DEF Begins
<1> QED  BY <1>1, <1>2, BeginsParts DEF Row

LEMMA BeginsTransitive ==
    ASSUME NEW a \in Hash, NEW b \in Hash, NEW c \in Hash, Begins(a, b), Begins(b, c)
    PROVE  Begins(a, c)
<1>1. Len(a) \in 0..Len(b) /\ Len(b) \in 0..Len(c)
  BY DEF Begins, Hash
<1> QED  BY <1>1, BeginsParts DEF Begins

LEMMA BeginsAppended ==
    ASSUME NEW c \in Hash, NEW x \in {Empty} \cup Logs
    PROVE  Append(c, x) \in Hash /\ Len(Append(c, x)) = Len(c) + 1 /\ Begins(c, Append(c, x))
<1>1. /\ Append(c, x) \in Seq({Empty} \cup Logs) /\ Len(Append(c, x)) = Len(c) + 1 /\ Len(c) \in Nat
      /\ \A i \in 1..Len(c) : Append(c, x)[i] = c[i]
  BY DEF Hash
<1>2. /\ SubSeq(Append(c, x), 1, Len(c)) \in Hash /\ Len(SubSeq(Append(c, x), 1, Len(c))) = Len(c)
      /\ \A i \in 1..Len(c) : SubSeq(Append(c, x), 1, Len(c))[i] = c[i]
  BY <1>1, PartOf DEF Hash
<1>3. SubSeq(Append(c, x), 1, Len(c)) = c
  BY <1>2, SeqEqual DEF Hash
<1> QED  BY <1>1, <1>3 DEF Begins, Hash

\* A part of a chain repeats no log, nor does the chain with a block it may have.
LEMMA PartsRepeatNothing ==
    ASSUME NEW c \in Hash, NoRepeats(c), NEW n \in 0..Len(c)
    PROVE  NoRepeats(SubSeq(c, 1, n))
<1>1. DOMAIN SubSeq(c, 1, n) = 1..n /\ DOMAIN c = 1..Len(c)
  BY PartOf DEF Hash
<1> QED  BY <1>1, PartOf DEF NoRepeats

LEMMA NextRepeatsNothing ==
    ASSUME NEW c \in Hash, NoRepeats(c), NEW x \in Contents(c)
    PROVE  x \in {Empty} \cup Logs /\ NoRepeats(Append(c, x))
<1>1. x \in {Empty} \cup Logs
  BY DEF Contents
<1>2. /\ DOMAIN Append(c, x) = 1..(Len(c) + 1) /\ Append(c, x)[Len(c) + 1] = x
      /\ \A i \in 1..Len(c) : Append(c, x)[i] = c[i]
      /\ DOMAIN c = 1..Len(c) /\ Len(c) \in Nat
  BY <1>1 DEF Hash
<1>3. x \in Logs => \A i \in DOMAIN c : c[i] # x
  BY IndexerAssumption DEF Contents, Blocks
<1> QED  BY <1>1, <1>2, <1>3 DEF NoRepeats

LEMMA BeginningRooted ==
    ASSUME chain \in Hash, NEW h \in Hash, Begins(h, chain)
    PROVE  Rooted(h)
<1>1. ASSUME NEW n \in 1..Len(h)
      PROVE  n <= Len(chain) /\ SubSeq(h, 1, n) = HashAt(n)
  <2>1. n \in 0..Len(h)
    BY DEF Hash
  <2> QED  BY <2>1, BeginsParts DEF HashAt
<1> QED  BY <1>1 DEF Rooted

\* A genuine row of which the hash is part of a chain is that chain's row.
LEMMA GenuineRow ==
    ASSUME NEW e, Genuine(e), NEW c \in Hash, e.number <= Len(c), e.hash = SubSeq(c, 1, e.number)
    PROVE  e.number \in 1..Len(c) /\ e = Row(c, e.number) /\ c[e.number] = e.log
<1>1. e.number \in 1..Len(c) /\ Len(c) \in Nat
  BY DEF Genuine, Hash
<1>2. Begins(e.hash, c) /\ e.number \in 1..Len(e.hash)
  BY <1>1, PartBegins DEF Genuine, Hash
<1>3. e.hash \in Hash /\ e = Row(e.hash, e.number) /\ e.hash[e.number] = e.log
  BY DEF Genuine, Row
<1> QED  BY <1>1, <1>2, <1>3, BeginsRow

LEMMA RowGenuine ==
    ASSUME NEW c \in Hash, NEW n \in 1..Len(c), c[n] \in Logs
    PROVE  Genuine(Row(c, n)) /\ Row(c, n).log = c[n] /\ Row(c, n).number = n /\ Row(c, n).hash = SubSeq(c, 1, n)
<1>1. Len(c) \in Nat /\ n \in 0..Len(c) /\ n \in 0..n
  BY DEF Hash
<1>2. SubSeq(c, 1, n) \in Hash /\ Len(SubSeq(c, 1, n)) = n /\ SubSeq(c, 1, n)[n] = c[n]
  BY <1>1, PartOf
<1>3. SubSeq(SubSeq(c, 1, n), 1, n) = SubSeq(c, 1, n)
  BY <1>1, PartOfPart
<1> QED  BY <1>1, <1>2, <1>3 DEF Genuine, Row

-----------------------------------------------------------------------------
(* Largest and smallest.                                                   *)

LEMMA MinOfTwo ==
    ASSUME NEW a \in Nat, NEW b \in Nat
    PROVE  Min({a, b}) \in {a, b} /\ Min({a, b}) <= a /\ Min({a, b}) <= b
<1>1. \E x \in {a, b} : \A y \in {a, b} : x <= y
  OBVIOUS
<1> QED  BY <1>1 DEF Min

LEMMA MaxOfTwo ==
    ASSUME NEW a \in Nat, NEW b \in Nat
    PROVE  Max({a, b}) \in {a, b} /\ Max({a, b}) >= a /\ Max({a, b}) >= b
<1>1. \E x \in {a, b} : \A y \in {a, b} : x >= y
  OBVIOUS
<1> QED  BY <1>1 DEF Max

\* A set of numbers below a bound has a largest one: the distances to the bound
\* are well-founded.
LEMMA MaxOfBounded ==
    ASSUME NEW b \in Nat, NEW S \in SUBSET (0..b), S # {}
    PROVE  Max(S) \in S
<1> DEFINE D == {b - n : n \in S}
<1>1. D \subseteq Nat /\ D # {}
  <2>1. \A n \in S : b - n \in Nat
    OBVIOUS
  <2>2. PICK n \in S : TRUE
    OBVIOUS
  <2> QED  BY <2>1, <2>2
<1>2. PICK k \in D : \A j \in D : ~(<<j, k>> \in OpToRel(<, Nat))
  BY <1>1, NatLessThanWellFounded, WFMin, Zenon
<1>3. \A j \in D : ~(j < k)
  BY <1>1, <1>2 DEF OpToRel
<1>4. PICK n \in S : k = b - n
  OBVIOUS
<1>5. \A m \in S : n >= m
  BY <1>3, <1>4
<1> QED  BY <1>5 DEF Max

-----------------------------------------------------------------------------
(* Steps of a poll that write nothing.                                     *)

\* Every poll still knows what it knew when nothing it looks at has changed.
LEMMA PollAdvances ==
    ASSUME Inv, NEW r \in Replicas, NEW q, PollOK(q), poll' = [poll EXCEPT ![r] = q],
           UNCHANGED <<chain, stores, reindexing, dismissed>>
    PROVE  Inv'
<1>1. ChainOK'
  BY DEF Inv, ChainOK
<1>2. CheckpointOK' /\ EventsFit' /\ HistoryFits' /\ DeadLettersFit'
  BY DEF Inv, StoresOK, stores, CheckpointOK, Rooted, HashAt, EventsFit, HistoryFits, DeadLettersFit
<1>3. Complete'
  BY DEF Inv, StoresOK, stores, Complete, Accounted, Open
<1>4. Reindexing'
  BY DEF Inv, StoresOK, stores, Reindexing, PollsOK, PollOK, Loaded
<1>5. ASSUME NEW s \in Replicas
      PROVE  PollOK(poll[s])'
  <2>1. PollOK(poll'[s])
    BY DEF Inv, PollsOK
  <2> QED  BY <2>1 DEF PollOK, Shape, Loaded, Scanning, RollingBack, Fresh, loadCheckpoint, HashAt,
                    BlockNumber, FilterLogs, LogAt, RecordFrom, Open, stores
<1>6. (poll = [s \in Replicas |-> poll[s]])'
  BY DEF Inv, PollsOK
<1> QED  BY <1>1, <1>2, <1>3, <1>4, <1>5, <1>6 DEF Inv, StoresOK, PollsOK

LEMMA IdleFields ==
    /\ Idle = [pc |-> Idle.pc, cp |-> Idle.cp, head |-> Idle.head, from |-> Idle.from, to |-> Idle.to,
               hash |-> Idle.hash, logs |-> Idle.logs, new |-> Idle.new, hashes |-> Idle.hashes,
               attempt |-> Idle.attempt]
    /\ Idle.from = 0 /\ Idle.hash = <<>>
  BY DEF Idle

LEMMA IdleOK == PollOK(Idle)
  BY DEF PollOK, Shape, Idle, Scans, Checkpoints, NoCheckpoint, Hash

LEMMA InitOK == IndexerInit => Inv
<1> SUFFICES ASSUME IndexerInit
             PROVE  Inv
  OBVIOUS
<1>1. PICK c \in {Empty} \cup Logs : chain = <<c>>
  BY DEF IndexerInit
<1>2. ChainOK
  BY <1>1, IndexerAssumption DEF ChainOK, Hash, NoRepeats
<1>3. checkpoint = NoCheckpoint /\ events = {} /\ history = <<>> /\ deadLetters = <<>>
  BY DEF IndexerInit
<1>4. CheckpointOK
  BY <1>3, IndexerAssumption DEF CheckpointOK, Checkpoints, NoCheckpoint, Rooted, Hash
<1>5. HistoryFits /\ DeadLettersFit
  BY <1>3 DEF HistoryFits, DeadLettersFit
<1>6. EventsFit /\ Complete /\ Reindexing
  BY <1>3, IndexerAssumption DEF EventsFit, Complete, Reindexing, NoCheckpoint, IndexerInit
<1>7. PollsOK
  BY IdleOK DEF PollsOK, IndexerInit
<1> QED  BY <1>2, <1>4, <1>5, <1>6, <1>7 DEF Inv, StoresOK

\* A call that has begun the chunk from..to.
Chunk(cp, from, to, head, attempt) ==
    [pc |-> "boundary", cp |-> cp, head |-> head, from |-> from, to |-> to, hash |-> <<>>,
     logs |-> {}, new |-> {}, hashes |-> <<>>, attempt |-> attempt]

LEMMA ChunkRange ==
    ASSUME NEW cp, NEW from \in Nat, NEW head \in Nat, from <= head
    PROVE  \E to \in Nat : from <= to /\ NextChunk(cp, from, head) = Chunk(cp, from, to, head, 1)
<1> DEFINE to == IF MaxLogRange > 0 THEN Min({head, from + MaxLogRange - 1}) ELSE head
<1>1. to \in Nat /\ from <= to
  <2>1. CASE MaxLogRange > 0
    <3>1. from + MaxLogRange - 1 \in Nat /\ from <= from + MaxLogRange - 1
      BY <2>1, IndexerAssumption
    <3>2. Min({head, from + MaxLogRange - 1}) \in {head, from + MaxLogRange - 1}
      BY <3>1, MinOfTwo
    <3> QED  BY <2>1, <3>1, <3>2
  <2>2. CASE ~(MaxLogRange > 0)
    BY <2>2
  <2> QED  BY <2>1, <2>2
<1>2. NextChunk(cp, from, head) = [Idle EXCEPT !.pc = "boundary", !.cp = cp, !.head = head, !.from = from,
                                               !.attempt = 1, !.to = to]
  BY DEF NextChunk
<1> HIDE DEF to
<1>3. NextChunk(cp, from, head) = Chunk(cp, from, to, head, 1)
  BY <1>2 DEF Chunk, Idle
<1> QED  BY <1>1, <1>3

\* What a poll knows does not depend on the number of its attempts.
LEMMA AttemptOK ==
    ASSUME NEW p, PollOK(p), NEW n
    PROVE  PollOK([p EXCEPT !.attempt = n])
<1>1. p = [pc |-> p.pc, cp |-> p.cp, head |-> p.head, from |-> p.from, to |-> p.to, hash |-> p.hash,
           logs |-> p.logs, new |-> p.new, hashes |-> p.hashes, attempt |-> p.attempt]
  BY DEF PollOK, Shape
<1>2. [p EXCEPT !.attempt = n] =
          [pc |-> p.pc, cp |-> p.cp, head |-> p.head, from |-> p.from, to |-> p.to, hash |-> p.hash,
           logs |-> p.logs, new |-> p.new, hashes |-> p.hashes, attempt |-> n]
  BY <1>1
<1> QED  BY <1>2 DEF PollOK, Shape, Loaded, Scanning, RollingBack, Fresh, RecordFrom

\* A poll that begins a chunk on a checkpoint of the canonical chain.
LEMMA ChunkOK ==
    ASSUME NEW cp \in Checkpoints, NEW from \in Nat, NEW head \in Nat, from >= 1,
           reindexing = 0, cp.version <= checkpoint.version, cp.lastBlock <= MaxHeight,
           cp.version = checkpoint.version => cp = loadCheckpoint /\ ~checkpoint.flagged,
           (\A r, s \in Replicas : r = s) => cp.version = checkpoint.version,
           Begins(checkpoint.hash, chain),
           cp.version = checkpoint.version =>
               IF checkpoint.stored THEN from = checkpoint.lastBlock + 1 ELSE from <= StartBlock
    PROVE  PollOK(NextChunk(cp, from, head))
<1>1. CASE from > head
  BY <1>1, IdleOK DEF NextChunk
<1>2. CASE from <= head
  <2>1. PICK to \in Nat : from <= to /\ NextChunk(cp, from, head) = Chunk(cp, from, to, head, 1)
    BY <1>2, ChunkRange
  <2>2. <<>> \in Hash
    BY DEF Hash
  <2>3. PollOK(Chunk(cp, from, to, head, 1))
    BY <2>1, <2>2 DEF PollOK, Chunk, Shape, Loaded, Scanning, Fresh, Scans
  <2> QED  BY <2>1, <2>3
<1> QED  BY <1>1, <1>2

\* The checkpoint as a poll loads it.
LEMMA LoadedCheckpoint ==
    ASSUME CheckpointOK
    PROVE  /\ loadCheckpoint \in Checkpoints /\ loadCheckpoint.lastBlock <= MaxHeight
           /\ loadCheckpoint.version = checkpoint.version /\ loadCheckpoint.stored = checkpoint.stored
           /\ checkpoint.stored => loadCheckpoint = checkpoint
           /\ ~checkpoint.stored => checkpoint.hash = <<>> /\ ~checkpoint.flagged
<1>1. CASE checkpoint.stored
  BY <1>1 DEF CheckpointOK, loadCheckpoint
<1>2. CASE ~checkpoint.stored
  <2>1. loadCheckpoint = [lastBlock |-> StartBlock, hash |-> <<>>, flagged |-> FALSE, version |-> 0, stored |-> FALSE]
    BY <1>2 DEF loadCheckpoint, NoCheckpoint
  <2>2. checkpoint = [lastBlock |-> 0, hash |-> <<>>, flagged |-> FALSE, version |-> 0, stored |-> FALSE]
    BY <1>2 DEF CheckpointOK, NoCheckpoint
  <2> QED  BY <2>1, <2>2, <1>2, IndexerAssumption DEF Checkpoints, Hash
<1> QED  BY <1>1, <1>2

\* A checkpoint that has not diverged begins the chain.
LEMMA NotDiverged ==
    ASSUME Inv, ~Diverged(loadCheckpoint)
    PROVE  Begins(checkpoint.hash, chain)
<1>0. chain \in Hash /\ Len(chain) \in Nat /\ CheckpointOK /\ checkpoint.hash \in Hash
      /\ checkpoint.lastBlock = Len(checkpoint.hash) /\ checkpoint.lastBlock \in Nat
  BY DEF Inv, StoresOK, ChainOK, CheckpointOK, Checkpoints, Hash
<1>1. CASE checkpoint.hash = <<>>
  <2>1. Len(checkpoint.hash) = 0 /\ SubSeq(chain, 1, 0) = <<>>
    BY <1>1, SubSeqEmpty
  <2> QED  BY <1>0, <1>1, <2>1 DEF Begins
<1>2. CASE checkpoint.hash # <<>>
  <2>1. loadCheckpoint = checkpoint /\ checkpoint.stored
    BY <1>0, <1>2, LoadedCheckpoint
  <2>2. checkpoint.lastBlock > 0
    BY <1>0, <1>2 DEF Hash
  <2>3. ~(Len(chain) < checkpoint.lastBlock) /\ SubSeq(chain, 1, checkpoint.lastBlock) = checkpoint.hash
    BY <1>2, <2>1, <2>2 DEF Diverged, BlockNumber, HashAt
  <2> QED  BY <1>0, <2>3 DEF Begins
<1> QED  BY <1>1, <1>2

LEMMA PollKeeps ==
    ASSUME Inv, NEW r \in Replicas, Poll(r), Quiet
    PROVE  Inv'
<1> DEFINE cp == loadCheckpoint
           q == IF Diverged(cp)
                THEN [Idle EXCEPT !.pc = "rollback", !.cp = cp, !.head = BlockNumber,
                                  !.to = Min({BlockNumber, cp.lastBlock})]
                ELSE ScanFrom(cp, BlockNumber)
<1>1. poll' = [poll EXCEPT ![r] = q] /\ UNCHANGED <<chain, stores, reindexing, dismissed>> /\ reindexing = 0 /\ ~checkpoint.flagged
  BY DEF Poll, Paused
<1>2. /\ CheckpointOK /\ BlockNumber \in Nat /\ BlockNumber >= 1
      /\ cp \in Checkpoints /\ cp.lastBlock <= MaxHeight /\ cp.lastBlock \in Nat
      /\ cp.version = checkpoint.version /\ cp.version \in Nat
  BY LoadedCheckpoint DEF Inv, StoresOK, ChainOK, BlockNumber, Checkpoints
<1>3. CASE Diverged(cp)
  <2> DEFINE m == Min({BlockNumber, cp.lastBlock})
  <2>1. m \in Nat /\ m <= BlockNumber /\ m <= cp.lastBlock
    BY <1>2, MinOfTwo
  <2>2. cp.stored
    BY <1>3 DEF Diverged
  <2> HIDE DEF m, cp
  <2>3. PICK p : p = [Idle EXCEPT !.pc = "rollback", !.cp = cp, !.head = BlockNumber, !.to = m]
    OBVIOUS
  <2>4. <<>> \in Hash /\ cp = loadCheckpoint
    BY DEF Hash, cp
  <2>5. p = [pc |-> "rollback", cp |-> cp, head |-> BlockNumber, from |-> Idle.from, to |-> m, hash |-> Idle.hash,
             logs |-> Idle.logs, new |-> Idle.new, hashes |-> Idle.hashes, attempt |-> Idle.attempt]
    BY <2>3, IdleFields
  <2>6. Shape(p)
    BY IdleFields, <1>2, <2>1, <2>4, <2>5 DEF Shape
  <2>7. PollOK(p)
    BY <1>1, <1>2, <2>1, <2>2, <2>4, <2>5, <2>6 DEF PollOK, Loaded, RollingBack, Fresh, Scans
  <2> QED  BY <1>1, <1>3, <2>3, <2>7, PollAdvances DEF m, cp
<1>4. CASE ~Diverged(cp)
  <2>1. Begins(checkpoint.hash, chain)
    BY <1>4, NotDiverged
  <2>2. PollOK(ScanFrom(cp, BlockNumber))
    <3>1. CASE checkpoint.stored
      <4>1. cp = checkpoint /\ cp.stored
        BY <1>2, <3>1, LoadedCheckpoint
      <4>2. PollOK(NextChunk(cp, cp.lastBlock + 1, BlockNumber))
        BY <1>1, <1>2, <2>1, <3>1, <4>1, ChunkOK
      <4> QED  BY <4>1, <4>2 DEF ScanFrom
    <3>2. CASE ~checkpoint.stored
      <4>1. ~cp.stored
        BY <1>2, <3>2, LoadedCheckpoint
      <4>2. Min({StartBlock, BlockNumber}) \in Nat /\ Min({StartBlock, BlockNumber}) >= 1 /\ Min({StartBlock, BlockNumber}) <= StartBlock
        BY <1>2, MinOfTwo, IndexerAssumption
      <4>3. PollOK(NextChunk(cp, Min({StartBlock, BlockNumber}), BlockNumber))
        BY <1>1, <1>2, <2>1, <3>2, <4>2, ChunkOK
      <4> QED  BY <4>1, <4>3 DEF ScanFrom
    <3> QED  BY <3>1, <3>2
  <2> QED  BY <1>1, <1>4, <2>2, PollAdvances
<1> QED  BY <1>3, <1>4

\* Any call may find a reason to give up.
LEMMA GivingUpKeeps ==
    ASSUME Inv, NEW r \in Replicas, poll' = [poll EXCEPT ![r] = Idle],
           UNCHANGED <<chain, stores, reindexing, dismissed>>
    PROVE  Inv'
  BY IdleOK, PollAdvances

\* What is known of a call in progress.
LEMMA CallInProgress ==
    ASSUME Inv, NEW r \in Replicas
    PROVE  PollOK(poll[r])
  BY DEF Inv, PollsOK

\* A candidate's hash is that of the checkpoint's own chain when the
\* checkpoint has not moved; so is the trusted start's.
LEMMA AncestorShared ==
    ASSUME Inv, NEW p, PollOK(p), p.pc = "rollback", ~NeedsReconciliation(p.cp, p.to)
    PROVE  LET n == findCommonAncestor(p.cp, p.to)
           IN  /\ n \in Nat /\ n <= p.cp.lastBlock
               /\ Fresh(p) => HashAt(n) = SubSeq(checkpoint.hash, 1, n)
<1> DEFINE C == Candidates(p.cp, p.to)
           n == findCommonAncestor(p.cp, p.to)
<1>1. /\ p.to \in Nat /\ p.to <= p.cp.lastBlock /\ p.cp.stored /\ p.cp.lastBlock \in Nat
      /\ p.cp \in Checkpoints
      /\ Fresh(p) => p.cp = checkpoint
  BY LoadedCheckpoint DEF PollOK, Shape, Loaded, RollingBack, Fresh, Checkpoints, Inv, StoresOK
<1>2. /\ checkpoint.lastBlock = Len(checkpoint.hash) /\ Rooted(checkpoint.hash) /\ HistoryFits
      /\ chain \in Hash /\ checkpoint.hash \in Hash
  BY DEF Inv, StoresOK, CheckpointOK, ChainOK, Checkpoints
<1>3. CASE C # {}
  <2>1. C \subseteq 0..p.to
    <3>1. DepthFloor(p.cp) \in Nat
      BY <1>1, IndexerAssumption DEF DepthFloor
    <3>2. Max({DepthFloor(p.cp), StartBlock}) \in Nat
      BY <3>1, MaxOfTwo, IndexerAssumption
    <3> QED  BY <1>1, <3>2 DEF Candidates
  <2>2. n \in C
    BY <1>1, <1>3, <2>1, MaxOfBounded DEF findCommonAncestor
  <2>3. n \in Nat /\ n <= p.to /\ n \in DOMAIN history /\ history[n] = HashAt(n)
    BY <1>1, <2>1, <2>2 DEF Candidates
  <2> QED  BY <1>1, <1>2, <2>3 DEF HistoryFits
<1>4. CASE C = {}
  <2>1. n = Min({StartBlock, p.to})
    BY <1>4 DEF findCommonAncestor
  <2>2. n \in Nat /\ n <= StartBlock /\ n <= p.to
    BY <1>1, <2>1, MinOfTwo, IndexerAssumption
  <2>3. ASSUME Fresh(p)
        PROVE  HashAt(n) = SubSeq(checkpoint.hash, 1, n)
    <3>1. n <= Len(checkpoint.hash)
      BY <1>1, <1>2, <2>2, <2>3
    <3>2. CASE n = 0
      BY <3>2, SubSeqEmpty DEF HashAt
    <3>3. CASE n # 0
      BY <1>2, <2>2, <3>1, <3>3 DEF Rooted
    <3> QED  BY <3>2, <3>3
  <2> QED  BY <1>1, <2>2, <2>3
<1> QED  BY <1>3, <1>4

LEMMA RollbackKeeps ==
    ASSUME Inv, FlagsAlone, NEW r \in Replicas, Rollback(r)
    PROVE  Inv'
<1> DEFINE p == poll[r]
           n == findCommonAncestor(p.cp, p.to)
<1>1. PollOK(p) /\ p.pc = "rollback" /\ UNCHANGED <<chain, stores, reindexing, dismissed>>
  BY CallInProgress DEF Rollback
<1>2. PICK q : /\ q = IF NeedsReconciliation(p.cp, p.to) THEN [p EXCEPT !.pc = "flag"]
                      ELSE IF n > BlockNumber THEN Idle
                      ELSE [p EXCEPT !.pc = "rewind", !.to = n, !.hash = HashAt(n)]
               /\ poll' = [poll EXCEPT ![r] = q]
  BY DEF Rollback
<1> HIDE DEF p
<1>0. p = [pc |-> p.pc, cp |-> p.cp, head |-> p.head, from |-> p.from, to |-> p.to, hash |-> p.hash,
           logs |-> p.logs, new |-> p.new, hashes |-> p.hashes, attempt |-> p.attempt]
  BY <1>1 DEF PollOK, Shape
<1>3. CASE NeedsReconciliation(p.cp, p.to)
  <2>1. q = [pc |-> "flag", cp |-> p.cp, head |-> p.head, from |-> p.from, to |-> p.to, hash |-> p.hash,
             logs |-> p.logs, new |-> p.new, hashes |-> p.hashes, attempt |-> p.attempt]
    BY <1>0, <1>2, <1>3
  <2>2. p.cp.lastBlock > MaxAutoReorgDepth /\ p.cp.lastBlock <= MaxHeight /\ p.cp.lastBlock \in Nat
    BY <1>1, <1>3, IndexerAssumption DEF NeedsReconciliation, DepthFloor, PollOK, Loaded, Shape, Checkpoints
  <2>3. \A a, b \in Replicas : a = b
    BY <2>2, IndexerAssumption DEF FlagsAlone
  <2>4. PollOK(q)
    BY <1>1, <2>1, <2>3 DEF PollOK, Shape, Loaded, RollingBack, Fresh, Scans
  <2> QED  BY <1>1, <1>2, <2>4, PollAdvances
<1>4. CASE ~NeedsReconciliation(p.cp, p.to) /\ n > BlockNumber
  BY <1>1, <1>2, <1>4, GivingUpKeeps
<1>5. CASE ~NeedsReconciliation(p.cp, p.to) /\ ~(n > BlockNumber)
  <2>1. PICK m, h : m = n /\ h = HashAt(n)
    OBVIOUS
  <2>2. q = [p EXCEPT !.pc = "rewind", !.to = m, !.hash = h]
    <3>1. q = [p EXCEPT !.pc = "rewind", !.to = n, !.hash = HashAt(n)]
      BY <1>2, <1>5
    <3> HIDE DEF n
    <3> QED  BY <2>1, <3>1, Zenon
  <2>3. m \in Nat /\ m <= p.cp.lastBlock /\ m <= BlockNumber /\ h = HashAt(m)
        /\ (Fresh(p) => h = SubSeq(checkpoint.hash, 1, m))
    <3>1. /\ n \in Nat /\ n <= p.cp.lastBlock /\ n <= BlockNumber
          /\ Fresh(p) => HashAt(n) = SubSeq(checkpoint.hash, 1, n)
      BY <1>1, <1>5, AncestorShared DEF Inv, ChainOK, BlockNumber
    <3> HIDE DEF n
    <3> QED  BY <2>1, <3>1
  <2>4. h \in Hash
    BY <2>3, PartOf DEF HashAt, BlockNumber, Inv, ChainOK, Hash
  <2> HIDE DEF n
  <2>5. q = [pc |-> "rewind", cp |-> p.cp, head |-> p.head, from |-> p.from, to |-> m, hash |-> h,
             logs |-> p.logs, new |-> p.new, hashes |-> p.hashes, attempt |-> p.attempt]
    BY <1>0, <2>2
  <2>6. PollOK(q)
    BY <1>1, <2>3, <2>4, <2>5 DEF PollOK, Shape, Loaded, RollingBack, Fresh, Scans
  <2> QED  BY <1>1, <1>2, <2>6, PollAdvances
<1> QED  BY <1>3, <1>4, <1>5

LEMMA BoundaryKeeps ==
    ASSUME Inv, NEW r \in Replicas, Boundary(r)
    PROVE  Inv'
<1> DEFINE p == poll[r]
<1>1. PollOK(p) /\ p.pc = "boundary" /\ UNCHANGED <<chain, stores, reindexing, dismissed>>
  BY CallInProgress DEF Boundary
<1>2. PICK h, q : /\ h = HashAt(p.to)
                  /\ q = IF p.to > BlockNumber THEN Idle ELSE [p EXCEPT !.pc = "scan", !.hash = h]
                  /\ poll' = [poll EXCEPT ![r] = q]
  BY DEF Boundary, Inv, PollsOK
<1> HIDE DEF p
<1>3. CASE p.to > BlockNumber
  BY <1>1, <1>2, <1>3, GivingUpKeeps
<1>4. CASE ~(p.to > BlockNumber)
  <2>1. p.to \in Nat /\ p.to <= BlockNumber /\ h \in Hash
    BY <1>1, <1>2, <1>4, PartOf DEF PollOK, Shape, Inv, ChainOK, BlockNumber, HashAt, Hash
  <2>2. p = [pc |-> p.pc, cp |-> p.cp, head |-> p.head, from |-> p.from, to |-> p.to, hash |-> p.hash,
             logs |-> p.logs, new |-> p.new, hashes |-> p.hashes, attempt |-> p.attempt]
    BY <1>1 DEF PollOK, Shape
  <2>3. q = [pc |-> "scan", cp |-> p.cp, head |-> p.head, from |-> p.from, to |-> p.to, hash |-> h,
             logs |-> p.logs, new |-> p.new, hashes |-> p.hashes, attempt |-> p.attempt]
    BY <1>2, <1>4, <2>2
  <2>4. PollOK(q)
    BY <1>1, <1>2, <2>1, <2>3 DEF PollOK, Shape, Loaded, Scanning, Fresh, Scans
  <2> QED  BY <1>1, <1>2, <2>4, PollAdvances
<1> QED  BY <1>3, <1>4

\* A refused range is halved, down to a part of it that is not empty.
LEMMA HalvedRange ==
    ASSUME NEW from \in Nat, NEW to \in Nat, NEW h \in Halved(from, to)
    PROVE  h \in Nat /\ from <= h /\ h <= to
  BY DEF Halved

LEMMA ShrunkRange ==
    ASSUME NEW from \in Nat, NEW to \in Nat, from <= to, NEW h \in ShrunkTo(from, to)
    PROVE  h \in Nat /\ from <= h /\ h <= to
<1>1. CASE h = to
  BY <1>1
<1>2. CASE h \in Halved(from, to)
  BY <1>2, HalvedRange
<1>3. ASSUME NEW m \in Halved(from, to), h \in Halved(from, m)
      PROVE  h \in Nat /\ from <= h /\ h <= to
  <2>1. m \in Nat /\ m <= to
    BY HalvedRange
  <2>2. h \in Nat /\ from <= h /\ h <= m
    BY <1>3, <2>1, HalvedRange
  <2> QED  BY <2>1, <2>2
<1> QED  BY <1>1, <1>2, <1>3 DEF ShrunkTo

LEMMA ScanKeeps ==
    ASSUME Inv, NEW r \in Replicas, scanChunk(r)
    PROVE  Inv'
<1> DEFINE p == poll[r]
<1>1. PollOK(p) /\ p.pc = "scan" /\ UNCHANGED <<chain, stores, reindexing, dismissed>>
  BY CallInProgress DEF scanChunk
<1>2. PICK to, h, L, q :
          /\ to \in ShrunkTo(p.from, p.to)
          /\ h = IF to = p.to THEN p.hash ELSE <<>>
          /\ L = FilterLogs(p.from, to)
          /\ q = [p EXCEPT !.pc = "validate", !.logs = L, !.to = to, !.hash = h]
          /\ poll' = [poll EXCEPT ![r] = q]
  BY DEF scanChunk
<1> HIDE DEF p
<1>3. p.from \in Nat /\ p.to \in Nat /\ p.from <= p.to /\ p.to <= BlockNumber
      /\ BlockNumber \in Nat /\ p.hash \in {<<>>, HashAt(p.to)} /\ p.hash \in Hash /\ <<>> \in Hash
  BY <1>1 DEF PollOK, Shape, Scanning, Scans, Inv, ChainOK, BlockNumber, Hash
<1>4. to \in Nat /\ p.from <= to /\ to <= BlockNumber /\ h \in {<<>>, HashAt(to)} /\ h \in Hash
  <2>1. to \in Nat /\ p.from <= to /\ to <= p.to
    BY <1>2, <1>3, ShrunkRange
  <2> QED  BY <1>2, <1>3, <2>1
<1>5. p = [pc |-> p.pc, cp |-> p.cp, head |-> p.head, from |-> p.from, to |-> p.to, hash |-> p.hash,
           logs |-> p.logs, new |-> p.new, hashes |-> p.hashes, attempt |-> p.attempt]
  BY <1>1 DEF PollOK, Shape
<1>6. q = [pc |-> "validate", cp |-> p.cp, head |-> p.head, from |-> p.from, to |-> to, hash |-> h,
           logs |-> L, new |-> p.new, hashes |-> p.hashes, attempt |-> p.attempt]
  BY <1>2, <1>5
<1>7. PollOK(q)
  BY <1>1, <1>2, <1>3, <1>4, <1>6 DEF PollOK, Shape, Loaded, Scanning, Fresh, Scans
<1> QED  BY <1>1, <1>2, <1>7, PollAdvances

LEMMA ValidateKeeps ==
    ASSUME Inv, NEW r \in Replicas, Validate(r)
    PROVE  Inv'
<1> DEFINE p == poll[r]
<1>1. PollOK(p) /\ p.pc = "validate" /\ UNCHANGED <<chain, stores, reindexing, dismissed>>
  BY CallInProgress DEF Validate
<1>2. PICK h, q :
          /\ h = HashAt(p.to)
          /\ q = IF p.to > BlockNumber THEN Idle
                 ELSE IF Coherent(p) THEN [p EXCEPT !.pc = "prepare", !.hash = h]
                 ELSE IF p.attempt < MaxRangeRetries
                      THEN [NextChunk(p.cp, p.from, p.head) EXCEPT !.attempt = p.attempt + 1]
                 ELSE Idle
          /\ poll' = [poll EXCEPT ![r] = q]
  BY DEF Validate
<1> HIDE DEF p
<1>3. CASE q = Idle
  BY <1>1, <1>2, <1>3, GivingUpKeeps
<1>4. CASE ~(p.to > BlockNumber) /\ Coherent(p)
  <2>1. p.to \in Nat /\ p.to <= BlockNumber /\ h \in Hash
    BY <1>1, <1>2, <1>4, PartOf DEF PollOK, Shape, Inv, ChainOK, BlockNumber, HashAt, Hash
  <2>2. p = [pc |-> p.pc, cp |-> p.cp, head |-> p.head, from |-> p.from, to |-> p.to, hash |-> p.hash,
             logs |-> p.logs, new |-> p.new, hashes |-> p.hashes, attempt |-> p.attempt]
    BY <1>1 DEF PollOK, Shape
  <2>3. q = [pc |-> "prepare", cp |-> p.cp, head |-> p.head, from |-> p.from, to |-> p.to, hash |-> h,
             logs |-> p.logs, new |-> p.new, hashes |-> p.hashes, attempt |-> p.attempt]
    BY <1>2, <1>4, <2>2
  <2>4. PollOK(q)
    BY <1>1, <1>2, <2>1, <2>3 DEF PollOK, Shape, Loaded, Scanning, Fresh, Scans
  <2> QED  BY <1>1, <1>2, <2>4, PollAdvances
<1>5. CASE q = [NextChunk(p.cp, p.from, p.head) EXCEPT !.attempt = p.attempt + 1]
  <2>1. PollOK(NextChunk(p.cp, p.from, p.head))
    BY <1>1, ChunkOK DEF PollOK, Shape, Loaded, Scanning, Fresh, Scans
  <2>2. PollOK(q)
    BY <1>5, <2>1, AttemptOK
  <2> QED  BY <1>1, <1>2, <2>2, PollAdvances
<1> QED  BY <1>2, <1>3, <1>4, <1>5

LEMMA AbortKeeps ==
    ASSUME Inv, NEW r \in Replicas, PollAborted(r)
    PROVE  Inv'
  BY GivingUpKeeps DEF PollAborted

-----------------------------------------------------------------------------
(* Dead letters.                                                           *)

\* The rows of the canonical chain.
Canonical(l) == \E n \in 1..Len(chain) : chain[n] \in Logs /\ l = Row(chain, n)

LEMMA ScannedCanonical ==
    ASSUME ChainOK, NEW from \in Nat, NEW to \in Nat, from >= 1, NEW l \in FilterLogs(from, to)
    PROVE  Canonical(l)
  BY DEF ChainOK, FilterLogs, LogAt, HashAt, Row, Canonical, BlockNumber, Hash

\* A chain has one row for a log.
LEMMA OneRow ==
    ASSUME ChainOK, NEW l, NEW m, Canonical(l), Canonical(m), l.log = m.log
    PROVE  l = m
<1>1. PICK i \in 1..Len(chain) : chain[i] \in Logs /\ l = Row(chain, i)
  BY DEF Canonical
<1>2. PICK j \in 1..Len(chain) : chain[j] \in Logs /\ m = Row(chain, j)
  BY DEF Canonical
<1>3. chain[i] = chain[j] /\ DOMAIN chain = 1..Len(chain)
  BY <1>1, <1>2 DEF Row, ChainOK, Hash
<1> QED  BY <1>1, <1>2, <1>3 DEF ChainOK, NoRepeats

LEMMA CanonicalGenuine ==
    ASSUME ChainOK, NEW l, Canonical(l)
    PROVE  Genuine(l) /\ l.log \in Logs
<1>1. PICK n \in 1..Len(chain) : chain[n] \in Logs /\ l = Row(chain, n)
  BY DEF Canonical
<1> QED  BY <1>1, RowGenuine DEF ChainOK

\* Recorded failures are open dead letters, and open ones stay so.
LEMMA Recorded ==
    ASSUME ChainOK, DeadLettersFit, NEW failed, \A f \in failed : Canonical(f),
           deadLetters' = Record(failed)
    PROVE  /\ DeadLettersFit'
           /\ \A l : Canonical(l) /\ (Open(l) \/ l \in failed) =>
                 /\ l.log \in DOMAIN deadLetters'
                 /\ ~deadLetters'[l.log].resolved /\ deadLetters'[l.log].source = l
<1> DEFINE D == DOMAIN deadLetters \cup {f.log : f \in failed}
           Entry(l) == IF \E f \in failed : f.log = l
                       THEN [source |-> CHOOSE f \in failed : f.log = l, resolved |-> FALSE]
                       ELSE deadLetters[l]
<1>1. deadLetters' = [l \in D |-> Entry(l)]
  BY DEF Record, deadLetterRecordUpdate
<1>2. ASSUME NEW l \in D, \E f \in failed : f.log = l
      PROVE  \E f \in failed : f.log = l /\ Entry(l) = [source |-> f, resolved |-> FALSE]
  BY <1>2
<1>3. ASSUME NEW l \in D, ~\E f \in failed : f.log = l
      PROVE  l \in DOMAIN deadLetters /\ Entry(l) = deadLetters[l]
  BY <1>3
<1> HIDE DEF Entry
<1>4. ASSUME NEW l \in DOMAIN deadLetters'
      PROVE  /\ deadLetters'[l] = [source |-> deadLetters'[l].source, resolved |-> deadLetters'[l].resolved]
             /\ deadLetters'[l].resolved \in BOOLEAN
             /\ Genuine(deadLetters'[l].source) /\ deadLetters'[l].source.log = l
  <2>1. l \in D /\ deadLetters'[l] = Entry(l)
    BY <1>1
  <2>2. CASE \E f \in failed : f.log = l
    <3>1. PICK f \in failed : f.log = l /\ Entry(l) = [source |-> f, resolved |-> FALSE]
      BY <1>2, <2>1, <2>2
    <3>2. Genuine(f)
      BY CanonicalGenuine
    <3> QED  BY <2>1, <3>1, <3>2
  <2>3. CASE ~\E f \in failed : f.log = l
    <3>1. l \in DOMAIN deadLetters /\ Entry(l) = deadLetters[l]
      BY <1>3, <2>1, <2>3
    <3> QED  BY <2>1, <3>1 DEF DeadLettersFit
  <2> QED  BY <2>2, <2>3
<1>5. deadLetters' = [l \in DOMAIN deadLetters' |-> deadLetters'[l]]
  BY <1>1
<1>6. DeadLettersFit'
  BY <1>4, <1>5 DEF DeadLettersFit, Genuine, Row
<1>7. ASSUME NEW l, Canonical(l), Open(l) \/ l \in failed
      PROVE  /\ l.log \in DOMAIN deadLetters'
             /\ ~deadLetters'[l.log].resolved /\ deadLetters'[l.log].source = l
  <2>1. l.log \in D
    BY <1>7 DEF Open
  <2>2. CASE \E f \in failed : f.log = l.log
    <3>1. PICK f \in failed : f.log = l.log /\ Entry(l.log) = [source |-> f, resolved |-> FALSE]
      BY <1>2, <2>1, <2>2
    <3>2. f = l
      BY <1>7, <3>1, OneRow
    <3> QED  BY <1>1, <2>1, <3>1, <3>2
  <2>3. CASE ~\E f \in failed : f.log = l.log
    BY <1>1, <1>3, <1>7, <2>1, <2>3 DEF Open
  <2> QED  BY <2>2, <2>3
<1> QED  BY <1>6, <1>7

\* Canonical logs stay accounted for when failures are recorded, whatever the
\* other stores do, if they keep the checkpoint's rows.
LEMMA RecordedComplete ==
    ASSUME Inv, Begins(checkpoint.hash, chain), UNCHANGED <<checkpoint, dismissed>>,
           reindexing' = reindexing, events \subseteq events',
           \A l : Canonical(l) /\ Open(l) =>
               l \in events' \/ /\ l.log \in DOMAIN deadLetters'
                                /\ ~deadLetters'[l.log].resolved /\ deadLetters'[l.log].source = l
    PROVE  Complete'
<1> SUFFICES ASSUME reindexing = 0, NEW n \in StartBlock..checkpoint.lastBlock, checkpoint.hash[n] \in Logs
             PROVE  Accounted(Row(checkpoint.hash, n))'
  BY DEF Complete
<1>1. Accounted(Row(checkpoint.hash, n))
  BY DEF Inv, StoresOK, Complete
<1>2. n \in 1..Len(checkpoint.hash)
  BY IndexerAssumption DEF Inv, StoresOK, CheckpointOK, Checkpoints
<1>3. Canonical(Row(checkpoint.hash, n))
  BY <1>2, BeginsRow DEF Canonical, Inv, ChainOK, StoresOK, CheckpointOK, Checkpoints
<1>4. Row(checkpoint.hash, n)' = Row(checkpoint.hash, n)
  BY DEF Row
<1> QED  BY <1>1, <1>3, <1>4 DEF Accounted, Open

LEMMA PrepareKeeps ==
    ASSUME Inv, NEW r \in Replicas, prepareChunkEvents(r)
    PROVE  Inv'
<1> DEFINE p == poll[r]
<1>1. PollOK(p) /\ p.pc = "prepare" /\ UNCHANGED <<chain, events, checkpoint, history, reindexing, dismissed>>
  BY CallInProgress DEF prepareChunkEvents
<1>2. PICK failed, N, H, q :
          /\ failed \in SUBSET {l \in {m \in p.logs : ~Exists(m.log)} : l.log \in Undecodable}
          /\ N = {m \in p.logs : ~Exists(m.log)} \ failed /\ H = HashesOf(p)
          /\ deadLetters' = Record(failed)
          /\ q = IF p.to > BlockNumber THEN Idle ELSE [p EXCEPT !.pc = "commit", !.new = N, !.hashes = H]
          /\ poll' = [poll EXCEPT ![r] = q]
  BY DEF prepareChunkEvents
<1> HIDE DEF p
<1>3. /\ p.from \in Nat /\ p.to \in Nat /\ p.from >= 1 /\ p.to <= BlockNumber /\ p.head \in Nat
      /\ p.logs = FilterLogs(p.from, p.to) /\ p.hash = HashAt(p.to) /\ Begins(checkpoint.hash, chain)
      /\ reindexing = 0 /\ BlockNumber = Len(chain) /\ BlockNumber \in Nat
      /\ ChainOK /\ DeadLettersFit /\ StoresOK /\ PollsOK
  BY <1>1 DEF PollOK, Shape, Loaded, Scanning, Scans, Inv, BlockNumber, ChainOK, StoresOK
<1>4. \A l \in p.logs : Canonical(l)
  BY <1>3, ScannedCanonical
<1>5. /\ DeadLettersFit'
      /\ \A l : Canonical(l) /\ (Open(l) \/ l \in failed) =>
            /\ l.log \in DOMAIN deadLetters'
            /\ ~deadLetters'[l.log].resolved /\ deadLetters'[l.log].source = l
  <2>1. \A f \in failed : Canonical(f)
    BY <1>2, <1>4
  <2> QED  BY <1>2, <1>3, <2>1, Recorded
<1>6. ChainOK' /\ CheckpointOK' /\ EventsFit' /\ HistoryFits'
  BY <1>1, <1>3 DEF ChainOK, StoresOK, CheckpointOK, Rooted, HashAt, EventsFit, HistoryFits
<1>7. Complete'
  BY <1>1, <1>3, <1>5, RecordedComplete
<1>8. Reindexing'
  BY <1>1, <1>3 DEF StoresOK, Reindexing
<1>9. PollOK(q)'
  <2>1. CASE p.to > BlockNumber
    <3>1. q = Idle
      BY <1>2, <2>1
    <3> QED  BY <3>1 DEF PollOK, Shape, Idle, Scans, Checkpoints, NoCheckpoint, Hash
  <2>2. CASE ~(p.to > BlockNumber)
    <3>1. p = [pc |-> p.pc, cp |-> p.cp, head |-> p.head, from |-> p.from, to |-> p.to, hash |-> p.hash,
               logs |-> p.logs, new |-> p.new, hashes |-> p.hashes, attempt |-> p.attempt]
      BY <1>1 DEF PollOK, Shape
    <3>2. q = [pc |-> "commit", cp |-> p.cp, head |-> p.head, from |-> p.from, to |-> p.to, hash |-> p.hash,
               logs |-> p.logs, new |-> N, hashes |-> H, attempt |-> p.attempt]
      BY <1>2, <2>2, <3>1
    <3>3. H = [n \in RecordFrom(p)..p.to |-> HashAt(n)]
      <4>1. ASSUME NEW n \in RecordFrom(p)..p.to
            PROVE  (IF n = p.to THEN p.hash
                    ELSE IF \E l \in p.logs : l.number = n THEN (CHOOSE l \in p.logs : l.number = n).hash
                    ELSE HashAt(n)) = HashAt(n)
        <5>1. CASE n # p.to /\ \E l \in p.logs : l.number = n
          <6>1. PICK l : l = (CHOOSE m \in p.logs : m.number = n)
            OBVIOUS
          <6>2. l \in p.logs /\ l.number = n
            BY <5>1, <6>1
          <6>3. l.hash = HashAt(n)
            BY <1>3, <6>2 DEF FilterLogs, LogAt
          <6> QED  BY <5>1, <6>1, <6>3
        <5> QED  BY <1>3, <5>1
      <4> QED  BY <1>2, <4>1 DEF HashesOf
    <3>4. \A l \in p.logs : l \in N \/ l.log \in dismissed \/
              /\ l.log \in DOMAIN deadLetters'
              /\ ~deadLetters'[l.log].resolved /\ deadLetters'[l.log].source = l
          \/ p.cp.version # checkpoint.version
      <4> SUFFICES ASSUME p.cp.version = checkpoint.version, NEW l \in p.logs, l \notin N, l \notin failed
                   PROVE  FALSE
        BY <1>4, <1>5
      <4>1. Exists(l.log)
        BY <1>2
      <4>2. PICK e \in events : e.log = l.log
        BY <4>1 DEF Exists
      <4>3. /\ e.number \in 1..checkpoint.lastBlock /\ e.log \in Logs /\ e = Row(checkpoint.hash, e.number)
            /\ checkpoint.lastBlock = Len(checkpoint.hash) /\ checkpoint.hash \in Hash /\ chain \in Hash
            /\ checkpoint.lastBlock \in Nat
        BY <1>3, <4>2 DEF StoresOK, EventsFit, CheckpointOK, Checkpoints, ChainOK
      <4>4. e.number \in 1..Len(chain) /\ e = Row(chain, e.number)
        BY <1>3, <4>3, BeginsRow
      <4>5. Canonical(e)
        BY <4>3, <4>4 DEF Canonical, Row
      <4>6. e = l
        BY <1>3, <1>4, <4>2, <4>5, OneRow
      <4>7. l.number \in p.from..p.to
        BY <1>3 DEF FilterLogs, LogAt
      <4>8. IF checkpoint.stored THEN p.from = checkpoint.lastBlock + 1 ELSE checkpoint.lastBlock = 0
        BY <1>1, <1>3 DEF PollOK, Scanning, Scans, Fresh, StoresOK, CheckpointOK, NoCheckpoint
      <4> QED  BY <1>3, <4>3, <4>6, <4>7, <4>8
    <3>5. Shape(q) /\ q.pc = "commit"
      BY <1>1, <3>2 DEF PollOK, Shape, Scans
    <3>6. Loaded(q)'
      BY <1>1, <3>2 DEF PollOK, Scans, Loaded, Fresh, loadCheckpoint
    <3>7. N \subseteq p.logs
      BY <1>2
    <3>8. RecordFrom(q) = RecordFrom(p)
      BY <3>2 DEF RecordFrom
    <3>9. q.hashes = [n \in RecordFrom(q)..q.to |-> HashAt(n)'] /\ q.logs = FilterLogs(q.from, q.to)'
      <4>1. q.hashes = [n \in RecordFrom(q)..q.to |-> HashAt(n)] /\ q.logs = FilterLogs(q.from, q.to)
        BY <1>3, <3>2, <3>3, <3>8
      <4> QED  BY <1>1, <4>1 DEF HashAt, FilterLogs, LogAt, BlockNumber
    <3>10. /\ q.new \subseteq q.logs
           /\ q.cp.version = checkpoint'.version => \A l \in q.logs : l \in q.new \/ l.log \in dismissed' \/ Open(l)'
      BY <1>1, <3>2, <3>4, <3>7 DEF Open
    <3>11. /\ Begins(checkpoint'.hash, chain') /\ 1 <= q.from /\ q.from <= q.to
           /\ q.to <= BlockNumber' /\ q.hash = HashAt(q.to)'
           /\ q.cp.version = checkpoint'.version =>
                 IF checkpoint'.stored THEN q.from = checkpoint'.lastBlock + 1 ELSE q.from <= StartBlock
      BY <1>1, <1>3, <3>2 DEF PollOK, Scans, Scanning, Fresh, HashAt, BlockNumber
    <3>12. Scanning(q)'
      <4> QED  BY <3>9, <3>10, <3>11 DEF Scanning, Fresh, RecordFrom
    <3> QED  BY <3>5, <3>6, <3>12 DEF PollOK, Scans, Shape
  <2> QED  BY <2>1, <2>2
<1>10. ASSUME NEW p1, PollOK(p1)
       PROVE  PollOK(p1)'
  <2>1. CASE p1.pc \in Scans
    <3>1. \A l : Canonical(l) /\ Open(l) => Open(l)'
      BY <1>5 DEF Open
    <3>2. p1.pc = "commit" => \A l \in p1.logs : Canonical(l)
      BY <1>3, <1>10, <2>1, ScannedCanonical DEF PollOK, Shape, Scanning
    <3>3. Shape(p1) /\ Loaded(p1)'
      BY <1>1, <1>10, <2>1 DEF PollOK, Scans, Loaded, Fresh, loadCheckpoint
    <3>4. p1.pc = "commit" => (Fresh(p1)' => \A l \in p1.logs : l \in p1.new \/ l.log \in dismissed' \/ Open(l)')
      BY <1>1, <1>10, <2>1, <3>1, <3>2 DEF PollOK, Scanning, Fresh
    <3>5. Scanning(p1)'
      BY <1>1, <1>10, <2>1, <3>4
         DEF PollOK, Scanning, Fresh, HashAt, BlockNumber, FilterLogs, LogAt, RecordFrom
    <3> QED  BY <2>1, <3>3, <3>5 DEF PollOK, Scans, Shape
  <2>2. CASE p1.pc \notin Scans
    BY <1>1, <1>10, <2>2 DEF PollOK, Shape, Loaded, Fresh, loadCheckpoint, RollingBack, HashAt, BlockNumber
  <2> QED  BY <2>1, <2>2
<1>11. PollsOK'
  <2>1. ASSUME NEW s \in Replicas
        PROVE  PollOK(poll[s])'
    <3>1. PICK p1 : p1 = poll'[s]
      OBVIOUS
    <3>2. PollOK(p1)'
      BY <1>2, <1>3, <1>9, <1>10, <3>1 DEF PollsOK
    <3> QED  BY <3>1, <3>2 DEF PollOK, Shape, Loaded, Scanning, RollingBack, Fresh, RecordFrom
  <2> QED  BY <1>2, <1>3, <2>1 DEF PollsOK
<1> QED  BY <1>3, <1>5, <1>6, <1>7, <1>8, <1>11 DEF Inv, StoresOK

-----------------------------------------------------------------------------
(* Steps that move the checkpoint.                                         *)

\* A call whose checkpoint is replaced knows that it has lost the race.
LEMMA Superseded ==
    ASSUME Inv, NEW p, PollOK(p), UNCHANGED <<chain, reindexing>>, ~(\A r, s \in Replicas : r = s),
           checkpoint'.version \in Nat, checkpoint'.version > checkpoint.version,
           Begins(checkpoint'.hash, chain)
    PROVE  PollOK(p)'
<1>1. Shape(p) /\ p.cp.version \in Nat /\ checkpoint.version \in Nat
  BY DEF PollOK, Shape, Checkpoints, Inv, StoresOK, CheckpointOK
<1>2. p.pc # "idle" => Loaded(p)' /\ ~Fresh(p)'
  BY <1>1 DEF PollOK, Loaded, Fresh
<1>3. ASSUME p.pc \in Scans
      PROVE  Scanning(p)'
  <2>1. p.pc # "idle"
    BY <1>3 DEF Scans
  <2> QED  BY <1>2, <1>3, <2>1
           DEF PollOK, Scanning, HashAt, BlockNumber, FilterLogs, LogAt, RecordFrom, Fresh
<1>4. ASSUME p.pc \in {"rollback", "flag", "rewind"}
      PROVE  RollingBack(p)'
  BY <1>2, <1>4 DEF PollOK, RollingBack, HashAt, BlockNumber, Fresh
<1> QED  BY <1>1, <1>2, <1>3, <1>4 DEF PollOK, Shape

LEMMA Replaced ==
    ASSUME Inv, NEW r \in Replicas, UNCHANGED <<chain, reindexing>>,
           checkpoint'.version \in Nat, checkpoint'.version > checkpoint.version,
           Begins(checkpoint'.hash, chain),
           NEW q, PollOK(q)', poll' = [poll EXCEPT ![r] = q]
    PROVE  PollsOK'
<1>1. ASSUME NEW s \in Replicas
      PROVE  PollOK(poll[s])'
  <2>1. PICK p : p = poll'[s]
    OBVIOUS
  <2>2. PollOK(p)'
    <3>1. CASE s = r
      BY <2>1, <3>1 DEF Inv, PollsOK
    <3>2. CASE s # r
      <4>1. PollOK(p)
        BY <2>1, <3>2 DEF Inv, PollsOK
      <4> QED  BY <3>2, <4>1, Superseded
    <3> QED  BY <3>1, <3>2
  <2> QED  BY <2>1, <2>2 DEF PollOK, Shape, Loaded, Scanning, RollingBack, Fresh, RecordFrom
<1>2. (poll = [s \in Replicas |-> poll[s]])'
  BY DEF Inv, PollsOK
<1> QED  BY <1>1, <1>2 DEF PollsOK

\* A call that goes on from the checkpoint it has written.
LEMMA GoesOn ==
    ASSUME NEW cp \in Checkpoints, cp = checkpoint', cp.stored, ~cp.flagged, cp.lastBlock <= MaxHeight,
           reindexing' = 0, Begins(cp.hash, chain'), NEW head \in Nat,
           NEW q, q = NextChunk(cp, cp.lastBlock + 1, head)
    PROVE  PollOK(q)'
<1>1. cp.lastBlock \in Nat
  BY DEF Checkpoints
<1>2. CASE cp.lastBlock + 1 > head
  <2>1. q = Idle
    BY <1>2 DEF NextChunk
  <2>2. Shape(Idle)
    BY IdleOK DEF PollOK
  <2>3. Idle.pc = "idle"
    BY DEF Idle
  <2>4. Shape(q) /\ q.pc = "idle"
    BY <2>1, <2>2, <2>3
  <2> QED  BY <2>4 DEF PollOK, Shape, Scans
<1>3. CASE cp.lastBlock + 1 <= head
  <2>1. PICK to \in Nat : cp.lastBlock + 1 <= to /\ q = Chunk(cp, cp.lastBlock + 1, to, head, 1)
    BY <1>1, <1>3, ChunkRange
  <2>2. <<>> \in Hash
    BY DEF Hash
  <2>3. /\ Shape(q) /\ q.pc = "boundary" /\ q.cp = cp /\ q.from = cp.lastBlock + 1 /\ q.to = to
        /\ 1 <= q.from /\ q.from <= q.to
    BY <1>1, <2>1, <2>2 DEF Chunk, Shape, Scans
  <2>4. Loaded(q)'
    BY <2>3 DEF Loaded, Fresh, loadCheckpoint, Checkpoints
  <2>5. Scanning(q)'
    BY <2>3 DEF Scanning
  <2> QED  BY <2>3, <2>4, <2>5 DEF PollOK, Shape, Scans
<1> QED  BY <1>1, <1>2, <1>3

LEMMA CheckpointTyped ==
    ASSUME NEW n \in Nat, NEW h \in Hash, NEW v \in Nat
    PROVE  Checkpoint(n, h, v) \in Checkpoints
  BY DEF Checkpoint, Checkpoints

LEMMA PartRows ==
    ASSUME NEW c \in Hash, NEW n \in 0..Len(c)
    PROVE  \E h \in Hash : /\ h = SubSeq(c, 1, n) /\ Len(h) = n
                           /\ \A m \in 0..n : SubSeq(h, 1, m) = SubSeq(c, 1, m)
                           /\ \A m \in 1..n : h[m] = c[m] /\ Row(h, m) = Row(c, m)
<1> DEFINE h == SubSeq(c, 1, n)
<1>1. h \in Hash /\ Len(h) = n /\ Begins(h, c)
  BY PartOf, PartBegins
<1>2. \A m \in 0..n : SubSeq(h, 1, m) = SubSeq(c, 1, m)
  BY PartOfPart
<1>3. \A m \in 1..n : h[m] = c[m] /\ Row(h, m) = Row(c, m)
  BY <1>1, BeginsRow
<1> QED  BY <1>1, <1>2, <1>3

\* The stores fit a part of the checkpoint's chain when the events above it go.
LEMMA Shortened ==
    ASSUME Inv, NEW n \in 0..checkpoint.lastBlock, NEW v \in Nat, DeleteFromBlock(n + 1),
           checkpoint' = Checkpoint(n, SubSeq(checkpoint.hash, 1, n), v),
           UNCHANGED <<chain, history, deadLetters, reindexing, dismissed>>
    PROVE  CheckpointOK' /\ EventsFit' /\ HistoryFits' /\ DeadLettersFit' /\ Complete'
<1>0. PICK c : c = checkpoint.hash
  OBVIOUS
<1>1. /\ c \in Hash /\ checkpoint.lastBlock \in Nat /\ checkpoint.lastBlock = Len(c)
      /\ checkpoint.lastBlock <= MaxHeight /\ Rooted(c) /\ n \in Nat /\ n <= Len(c) /\ n \in 0..Len(c)
      /\ EventsFit /\ HistoryFits /\ DeadLettersFit /\ Complete
  BY <1>0 DEF Inv, StoresOK, CheckpointOK, Checkpoints
<1>2. PICK h \in Hash : /\ h = SubSeq(c, 1, n) /\ Len(h) = n
                        /\ \A m \in 0..n : SubSeq(h, 1, m) = SubSeq(c, 1, m)
                        /\ \A m \in 1..n : h[m] = c[m] /\ Row(h, m) = Row(c, m)
  BY <1>1, PartRows
<1>3. checkpoint' = [lastBlock |-> n, hash |-> h, flagged |-> FALSE, version |-> v, stored |-> TRUE]
  BY <1>0, <1>2 DEF Checkpoint
<1>4. checkpoint'.lastBlock = n /\ checkpoint'.hash = h /\ checkpoint'.stored
  BY <1>3
<1>5. CheckpointOK'
  <2>1. ASSUME NEW m \in 1..Len(h), m <= StartBlock
        PROVE  m <= Len(chain') /\ SubSeq(h, 1, m) = HashAt(m)'
    <3>1. m \in 1..Len(c) /\ m \in 0..n
      BY <1>1, <1>2
    <3> QED  BY <1>1, <1>2, <2>1, <3>1 DEF Rooted, HashAt
  <2>2. Rooted(checkpoint.hash)'
    BY <1>4, <2>1 DEF Rooted
  <2>3. checkpoint' = Checkpoint(n, h, v)
    BY <1>0, <1>2
  <2>4. checkpoint' \in Checkpoints
    BY <1>1, <2>3, CheckpointTyped
  <2>5. n <= MaxHeight /\ Len(h) = n
    BY <1>1, <1>2, IndexerAssumption
  <2> QED  BY <1>4, <2>2, <2>4, <2>5 DEF CheckpointOK
<1>6. EventsFit'
  <2>1. ASSUME NEW e \in events'
        PROVE  e.number \in 1..n /\ e.log \in Logs /\ e = Row(h, e.number)
    <3>1. e \in events /\ e.number < n + 1
      BY DEF DeleteFromBlock
    <3> QED  BY <1>0, <1>1, <1>2, <3>1 DEF EventsFit
  <2>2. \A e \in events' : e.number \in 1..checkpoint'.lastBlock /\ e.log \in Logs /\ e = Row(checkpoint'.hash, e.number)
    BY <1>4, <2>1
  <2> QED  BY <2>2 DEF EventsFit, Row
<1>7. HistoryFits'
  <2>1. \A m \in DOMAIN history : m <= n => history[m] = SubSeq(h, 1, m)
    BY <1>0, <1>1, <1>2 DEF HistoryFits
  <2> QED  BY <1>1, <1>4, <2>1 DEF HistoryFits
<1>8. DeadLettersFit'
  BY <1>1 DEF DeadLettersFit, Genuine
<1>9. Complete'
  <2>1. ASSUME reindexing = 0, NEW m \in StartBlock..n, h[m] \in Logs
        PROVE  Row(h, m) \in events' \/ Row(h, m).log \in dismissed' \/ Open(Row(h, m))'
    <3>1. m \in 1..n /\ m \in StartBlock..Len(c)
      BY <1>1, IndexerAssumption
    <3>2. Row(h, m) = Row(c, m) /\ h[m] = c[m]
      BY <1>2, <3>1
    <3>3. Accounted(Row(c, m))
      BY <1>0, <1>1, <2>1, <3>1, <3>2 DEF Complete
    <3>4. Row(h, m).number = m
      BY DEF Row
    <3>5. PICK l : l = Row(h, m)
      OBVIOUS
    <3>6. l \in events' \/ l.log \in dismissed' \/ Open(l)'
      BY <1>1, <3>1, <3>2, <3>3, <3>4, <3>5 DEF Accounted, DeleteFromBlock, Open
    <3> QED  BY <3>5, <3>6 DEF Open, Row
  <2> QED  BY <1>4, <2>1 DEF Complete, Accounted, Open, Row
<1> QED  BY <1>5, <1>6, <1>7, <1>8, <1>9

LEMMA RewindKeeps ==
    ASSUME Inv, NEW r \in Replicas, Rewind(r)
    PROVE  Inv'
<1> DEFINE p == poll[r]
<1>1. PollOK(p) /\ p.pc = "rewind" /\ UNCHANGED <<chain, history, deadLetters, reindexing, dismissed>>
  BY CallInProgress DEF Rewind
<1>2. CASE /\ RewindChunk(p.to + 1, p.to, p.hash, p.cp.version)
           /\ poll' = [poll EXCEPT ![r] = ScanFrom(checkpoint', p.head)]
  <2>1. PICK q : q = ScanFrom(checkpoint', p.head) /\ poll' = [poll EXCEPT ![r] = q]
    BY <1>2
  <2> HIDE DEF p
  <2>2. /\ Fresh(p) /\ p.to \in Nat /\ p.hash = SubSeq(checkpoint.hash, 1, p.to) /\ p.hash = HashAt(p.to)
        /\ p.to <= p.cp.lastBlock /\ p.to <= BlockNumber /\ p.cp = checkpoint /\ p.head \in Nat
        /\ checkpoint.version \in Nat /\ checkpoint.lastBlock \in Nat /\ p.cp.version = checkpoint.version
        /\ reindexing = 0
    <3>1. Fresh(p)
      BY <1>2 DEF RewindChunk, Fresh, storedCheckpointVersion
    <3>2. Shape(p) /\ Loaded(p) /\ RollingBack(p)
      BY <1>1 DEF PollOK
    <3>3. p.cp = checkpoint
      BY <3>1, <3>2, LoadedCheckpoint DEF Loaded, RollingBack, Inv, StoresOK
    <3> QED  BY <1>1, <3>1, <3>2, <3>3 DEF Shape, Loaded, RollingBack, Checkpoints, Fresh
  <2>3. checkpoint' = Checkpoint(p.to, SubSeq(checkpoint.hash, 1, p.to), checkpoint.version + 1)
        /\ DeleteFromBlock(p.to + 1)
    BY <1>2, <2>2 DEF RewindChunk
  <2>4. CheckpointOK' /\ EventsFit' /\ HistoryFits' /\ DeadLettersFit' /\ Complete'
    <3>1. p.to \in 0..checkpoint.lastBlock
      BY <2>2
    <3> QED  BY <1>1, <2>2, <2>3, <3>1, Shortened
  <2>5. /\ checkpoint'.stored /\ ~checkpoint'.flagged /\ checkpoint'.version = checkpoint.version + 1
        /\ checkpoint'.lastBlock = p.to /\ checkpoint'.hash = HashAt(p.to)
    BY <2>2, <2>3 DEF Checkpoint
  <2>6. Begins(checkpoint'.hash, chain)
    BY <2>2, <2>5, PartBegins DEF HashAt, BlockNumber, Inv, ChainOK, Hash
  <2>7. q = NextChunk(checkpoint', checkpoint'.lastBlock + 1, p.head)
    BY <2>1, <2>5 DEF ScanFrom
  <2>8. PollOK(q)'
    <3>1. PICK cp : cp = checkpoint'
      OBVIOUS
    <3>2. cp \in Checkpoints /\ cp.lastBlock <= MaxHeight
      BY <2>4, <3>1 DEF CheckpointOK
    <3>3. q = NextChunk(cp, cp.lastBlock + 1, p.head) /\ cp.stored /\ ~cp.flagged /\ Begins(cp.hash, chain')
      BY <1>1, <2>5, <2>6, <2>7, <3>1
    <3> QED  BY <1>1, <2>2, <3>1, <3>2, <3>3, GoesOn
  <2>9. PollsOK'
    <3>1. UNCHANGED <<chain, reindexing>> /\ checkpoint'.version \in Nat /\ checkpoint'.version > checkpoint.version
      BY <1>1, <2>2, <2>5
    <3> QED  BY <2>1, <2>6, <2>8, <3>1, Replaced
  <2>10. ChainOK' /\ Reindexing'
    BY <1>1, <2>2, <2>5 DEF Inv, ChainOK, StoresOK, Reindexing
  <2> QED  BY <2>4, <2>9, <2>10 DEF Inv, StoresOK
<1>3. CASE poll' = [poll EXCEPT ![r] = Idle] /\ UNCHANGED <<events, checkpoint>>
  BY <1>1, <1>3, GivingUpKeeps DEF stores
<1> QED  BY <1>2, <1>3 DEF Rewind

LEMMA FlagKeeps ==
    ASSUME Inv, NEW r \in Replicas, Flag(r)
    PROVE  Inv'
<1> DEFINE p == poll[r]
<1>1. /\ PollOK(p) /\ p.pc = "flag" /\ UNCHANGED <<chain, events, history, deadLetters, reindexing, dismissed>>
      /\ checkpoint' = [p.cp EXCEPT !.flagged = TRUE] /\ poll' = [poll EXCEPT ![r] = Idle]
  BY CallInProgress DEF Flag
<1>2. /\ \A s \in Replicas : s = r
      /\ p.cp = checkpoint /\ checkpoint.stored /\ reindexing = 0
  BY <1>1, LoadedCheckpoint DEF PollOK, RollingBack, Loaded, Fresh, Inv, StoresOK
<1> HIDE DEF p
<1>3. checkpoint' = [lastBlock |-> checkpoint.lastBlock, hash |-> checkpoint.hash, flagged |-> TRUE,
                     version |-> checkpoint.version, stored |-> checkpoint.stored]
  BY <1>1, <1>2 DEF Inv, StoresOK, CheckpointOK, Checkpoints
<1>4. CheckpointOK'
  BY <1>1, <1>2, <1>3 DEF Inv, StoresOK, CheckpointOK, Checkpoints, Rooted, HashAt
<1>8. EventsFit' /\ HistoryFits' /\ DeadLettersFit' /\ ChainOK'
  BY <1>1, <1>3 DEF Inv, StoresOK, ChainOK, EventsFit, HistoryFits, DeadLettersFit
<1>5. Complete'
  BY <1>1, <1>3 DEF Inv, StoresOK, Complete, Accounted, Open
<1>6. Reindexing'
  BY <1>1, <1>2, <1>3 DEF Inv, StoresOK, Reindexing
<1>7. PollsOK'
  <2>1. \A s \in Replicas : poll'[s] = Idle
    BY <1>1, <1>2 DEF Inv, PollsOK
  <2>2. Shape(Idle)
    BY IdleOK DEF PollOK
  <2>3. Idle.pc = "idle"
    BY DEF Idle
  <2>4. \A s \in Replicas : PollOK(poll[s])'
    BY <2>1, <2>2, <2>3 DEF PollOK, Shape, Scans
  <2> QED  BY <1>1, <2>4 DEF PollsOK, Inv
<1> QED  BY <1>4, <1>5, <1>6, <1>7, <1>8 DEF Inv, StoresOK

\* What a commit under the version just read finds: the chunk begins where the
\* checkpoint ends, or at the start block.
LEMMA CommitContext ==
    ASSUME Inv, NEW p, PollOK(p), p.pc = "commit", Fresh(p)
    PROVE  /\ p.from \in Nat /\ p.to \in Nat /\ p.head \in Nat /\ 1 <= p.from /\ p.from <= p.to
           /\ p.to <= Len(chain) /\ p.to \in 0..Len(chain) /\ p.hash = SubSeq(chain, 1, p.to)
           /\ p.hashes = [n \in RecordFrom(p)..p.to |-> SubSeq(chain, 1, n)]
           /\ p.logs = FilterLogs(p.from, p.to) /\ p.new \subseteq p.logs
           /\ \A l \in p.logs : l \in p.new \/ l.log \in dismissed \/ Open(l)
           /\ Begins(checkpoint.hash, chain) /\ reindexing = 0
           /\ checkpoint.hash \in Hash /\ checkpoint.lastBlock = Len(checkpoint.hash)
           /\ checkpoint.lastBlock \in Nat /\ checkpoint.version \in Nat
           /\ checkpoint.lastBlock < p.from
           /\ checkpoint.stored => p.from = checkpoint.lastBlock + 1
           /\ ~checkpoint.stored => p.from <= StartBlock /\ history = <<>>
<1>1. Shape(p) /\ Loaded(p) /\ Scanning(p)
  BY DEF PollOK, Scans
<1>2. CheckpointOK /\ Reindexing
  BY DEF Inv, StoresOK
<1>3. checkpoint.hash \in Hash /\ checkpoint.lastBlock = Len(checkpoint.hash)
      /\ checkpoint.lastBlock \in Nat /\ checkpoint.version \in Nat
  BY <1>2 DEF CheckpointOK, Checkpoints
<1>4. p.from \in Nat /\ p.to \in Nat /\ p.head \in Nat /\ 1 <= p.from /\ p.from <= p.to
      /\ p.to <= Len(chain) /\ p.hash = SubSeq(chain, 1, p.to)
      /\ p.logs = FilterLogs(p.from, p.to) /\ p.new \subseteq p.logs /\ Begins(checkpoint.hash, chain)
      /\ \A l \in p.logs : l \in p.new \/ l.log \in dismissed \/ Open(l)
  BY <1>1 DEF Shape, Scanning, HashAt, BlockNumber
<1>5. p.hashes = [n \in RecordFrom(p)..p.to |-> SubSeq(chain, 1, n)]
  BY <1>1 DEF Scanning, HashAt
<1>6. reindexing = 0
  BY <1>1 DEF Loaded
<1>9. p.to \in 0..Len(chain)
  BY <1>4 DEF Inv, ChainOK, Hash
<1>7. CASE checkpoint.stored
  <2>1. p.from = checkpoint.lastBlock + 1
    BY <1>1, <1>7 DEF Scanning
  <2> QED  BY <1>3, <1>4, <1>5, <1>6, <1>7, <1>9, <2>1
<1>8. CASE ~checkpoint.stored
  <2>1. p.from <= StartBlock /\ history = <<>> /\ checkpoint.lastBlock = 0
    BY <1>1, <1>2, <1>6, <1>8 DEF Scanning, Reindexing, CheckpointOK, NoCheckpoint
  <2> QED  BY <1>3, <1>4, <1>5, <1>6, <1>8, <1>9, <2>1
<1> QED  BY <1>7, <1>8

\* A stored event is a row of the chain when the checkpoint is.
LEMMA StoredCanonical ==
    ASSUME Inv, Begins(checkpoint.hash, chain), NEW e \in events
    PROVE  Canonical(e) /\ e.number \in 1..checkpoint.lastBlock
<1>1. /\ e.number \in 1..checkpoint.lastBlock /\ e.log \in Logs /\ e = Row(checkpoint.hash, e.number)
      /\ checkpoint.lastBlock = Len(checkpoint.hash) /\ checkpoint.hash \in Hash /\ chain \in Hash
  BY DEF Inv, StoresOK, EventsFit, CheckpointOK, Checkpoints, ChainOK
<1>2. e.number \in 1..Len(chain) /\ e = Row(chain, e.number)
  BY <1>1, BeginsRow
<1> QED  BY <1>1, <1>2 DEF Canonical, Row

\* Rows of the chain that are inserted are stored, and nothing else is new.
LEMMA InsertedRows ==
    ASSUME Inv, Begins(checkpoint.hash, chain), NEW new, \A l \in new : Canonical(l), events' = Inserted(new)
    PROVE  events' = events \cup new
<1>1. ASSUME NEW l \in new, Exists(l.log)
      PROVE  l \in events
  <2>1. PICK e \in events : e.log = l.log
    BY <1>1 DEF Exists
  <2>2. Canonical(e) /\ Canonical(l)
    BY StoredCanonical
  <2>3. e = l
    BY <2>1, <2>2, OneRow DEF Inv
  <2> QED  BY <2>3
<1> QED  BY <1>1 DEF Inserted

\* A chunk of the chain, stored after the part of it the stores fit.
LEMMA Lengthened ==
    ASSUME Inv, NEW p, PollOK(p), p.pc = "commit", Fresh(p),
           CommitChunk(p.new, p.hashes, IF p.head > MaxHistory THEN p.head - MaxHistory ELSE 0,
                       p.to, p.hash, p.cp.version),
           UNCHANGED <<chain, deadLetters, reindexing, dismissed>>
    PROVE  CheckpointOK' /\ EventsFit' /\ HistoryFits' /\ DeadLettersFit' /\ Complete'
<1>1. PICK c, k, to, from, prune : /\ c = checkpoint.hash /\ k = chain /\ to = p.to /\ from = p.from
                                   /\ prune = IF p.head > MaxHistory THEN p.head - MaxHistory ELSE 0
  OBVIOUS
<1>2. /\ from \in Nat /\ to \in Nat /\ 1 <= from /\ from <= to /\ to <= Len(k) /\ to \in 0..Len(k)
      /\ p.hash = SubSeq(k, 1, to)
      /\ checkpoint.lastBlock \in Nat /\ checkpoint.lastBlock = Len(c) /\ checkpoint.lastBlock < from
      /\ c \in Hash /\ k \in Hash /\ Begins(c, k) /\ reindexing = 0 /\ checkpoint.version \in Nat
      /\ checkpoint.stored => from = checkpoint.lastBlock + 1
      /\ ~checkpoint.stored => from <= StartBlock /\ history = <<>>
      /\ ChainOK /\ EventsFit /\ HistoryFits /\ DeadLettersFit /\ Complete
  BY <1>1, CommitContext DEF Inv, ChainOK, StoresOK
<1>3. prune \in Nat /\ RecordFrom(p) = Max({from, prune}) /\ p.head \in Nat
  <2>1. p.head \in Nat
    BY CommitContext
  <2> QED  BY <1>1, <2>1, IndexerAssumption DEF RecordFrom
<1>4. /\ events' = Inserted(p.new)
      /\ history' = [n \in {m \in DOMAIN history \cup DOMAIN p.hashes : m >= prune} |->
                        IF n \in DOMAIN p.hashes THEN p.hashes[n] ELSE history[n]]
      /\ checkpoint' = Checkpoint(to, p.hash, checkpoint.version + 1)
  BY <1>1 DEF CommitChunk, Fresh
<1>5. PICK h \in Hash : /\ h = SubSeq(k, 1, to) /\ Len(h) = to
                        /\ \A m \in 0..to : SubSeq(h, 1, m) = SubSeq(k, 1, m)
                        /\ \A m \in 1..to : h[m] = k[m] /\ Row(h, m) = Row(k, m)
  BY <1>2, PartRows
<1>6. checkpoint'.lastBlock = to /\ checkpoint'.hash = h /\ checkpoint'.stored
  BY <1>2, <1>4, <1>5 DEF Checkpoint
<1>7. /\ \A m \in 0..Len(c) : m \in 0..to /\ SubSeq(c, 1, m) = SubSeq(h, 1, m)
      /\ \A m \in 1..Len(c) : m \in 1..to /\ c[m] = h[m] /\ Row(c, m) = Row(h, m)
  <2>1. Len(c) \in Nat /\ to \in Nat /\ Len(c) < to
    BY <1>2
  <2>2. \A m \in 0..Len(c) : m \in 0..to /\ SubSeq(c, 1, m) = SubSeq(h, 1, m)
    BY <1>2, <1>5, <2>1, BeginsParts
  <2>3. ASSUME NEW m \in 1..Len(c)
        PROVE  m \in 1..to /\ c[m] = h[m] /\ Row(c, m) = Row(h, m)
    <3>1. c[m] = k[m] /\ Row(c, m) = Row(k, m)
      BY <1>2, BeginsRow
    <3>2. m \in 1..to
      BY <2>1
    <3> QED  BY <1>5, <3>1, <3>2
  <2> QED  BY <2>2, <2>3
<1>8. \A l \in p.logs : Canonical(l) /\ l.number \in from..to /\ l = Row(k, l.number)
  <2>1. p.logs = FilterLogs(from, to)
    BY <1>1, CommitContext
  <2>2. \A l \in p.logs : Canonical(l)
    BY <1>2, <2>1, ScannedCanonical
  <2> QED  BY <1>1, <2>1, <2>2 DEF FilterLogs, LogAt, HashAt, Row
<1>9. events' = events \cup p.new
  <2>1. \A l \in p.new : Canonical(l)
    BY <1>8, CommitContext
  <2> QED  BY <1>1, <1>2, <1>4, <2>1, InsertedRows
<1>10. CheckpointOK'
  <2>1. Rooted(h)
    BY <1>1, <1>2, <1>5, PartBegins, BeginningRooted
  <2>2. Rooted(checkpoint.hash)'
    BY <1>6, <2>1 DEF Rooted, HashAt
  <2>3. checkpoint' \in Checkpoints
    <3>1. checkpoint' = Checkpoint(to, h, checkpoint.version + 1) /\ checkpoint.version + 1 \in Nat
      BY <1>2, <1>4, <1>5
    <3> QED  BY <1>2, <3>1, CheckpointTyped
  <2>4. to <= MaxHeight
    BY <1>1, <1>2, IndexerAssumption DEF ChainOK
  <2> QED  BY <1>5, <1>6, <2>2, <2>3, <2>4 DEF CheckpointOK
<1>11. EventsFit'
  <2>1. ASSUME NEW e \in events'
        PROVE  e.number \in 1..to /\ e.log \in Logs /\ e = Row(h, e.number)
    <3>1. CASE e \in events
      <4>1. e.number \in 1..Len(c) /\ e.log \in Logs /\ e = Row(c, e.number)
        BY <1>1, <1>2, <3>1 DEF EventsFit
      <4> QED  BY <1>7, <4>1
    <3>2. CASE e \in p.new
      <4>1. Canonical(e) /\ e.number \in from..to /\ e = Row(k, e.number)
        BY <1>8, <3>2, CommitContext
      <4>2. e.number \in 1..to
        BY <1>2, <4>1
      <4>3. e.log \in Logs
        BY <1>2, <4>1, CanonicalGenuine
      <4> QED  BY <1>5, <4>1, <4>2, <4>3
    <3> QED  BY <1>9, <3>1, <3>2
  <2>2. \A e \in events' : e.number \in 1..checkpoint'.lastBlock /\ e.log \in Logs /\ e = Row(checkpoint'.hash, e.number)
    BY <1>6, <2>1
  <2> QED  BY <2>2 DEF EventsFit, Row
<1>12. HistoryFits'
  <2>1. PICK since : since = RecordFrom(p)
    OBVIOUS
  <2>2. since \in Nat /\ (since = from \/ since = prune)
    BY <1>2, <1>3, <2>1, MaxOfTwo
  <2>3. DOMAIN p.hashes = since..to /\ \A n \in since..to : p.hashes[n] = SubSeq(k, 1, n)
    <3>1. p.hashes = [n \in RecordFrom(p)..p.to |-> SubSeq(chain, 1, n)]
      BY CommitContext
    <3>2. p.hashes = [n \in since..to |-> SubSeq(k, 1, n)]
      BY <1>1, <2>1, <3>1
    <3> QED  BY <3>2
  <2>4. ASSUME NEW n \in DOMAIN history'
        PROVE  n \in Nat /\ (n <= to => history'[n] = SubSeq(h, 1, n))
    <3>1. n \in DOMAIN history \cup DOMAIN p.hashes /\ n >= prune
          /\ history'[n] = IF n \in DOMAIN p.hashes THEN p.hashes[n] ELSE history[n]
      BY <1>4
    <3>2. CASE n \in DOMAIN p.hashes
      <4>1. n \in 0..to /\ history'[n] = SubSeq(k, 1, n)
        BY <2>2, <2>3, <3>1, <3>2
      <4> QED  BY <1>2, <1>5, <4>1
    <3>3. CASE n \notin DOMAIN p.hashes
      <4>1. n \in DOMAIN history /\ n \in Nat /\ history'[n] = history[n]
        BY <1>2, <3>1, <3>3 DEF HistoryFits
      <4>2. ASSUME n <= to
            PROVE  history[n] = SubSeq(h, 1, n)
        <5>1. n < since
          BY <1>2, <2>2, <2>3, <3>3, <4>1, <4>2
        <5>2. n < from
          BY <1>2, <1>3, <2>2, <3>1, <4>1, <5>1
        <5>3. checkpoint.stored
          BY <1>2, <4>1
        <5>4. n \in 0..Len(c)
          BY <1>2, <4>1, <5>2, <5>3
        <5> QED  BY <1>1, <1>2, <1>7, <4>1, <5>4 DEF HistoryFits
      <4> QED  BY <4>1, <4>2
    <3> QED  BY <3>2, <3>3
  <2>5. history' = [n \in DOMAIN history' |-> history'[n]]
    BY <1>4
  <2> QED  BY <1>6, <2>4, <2>5 DEF HistoryFits
<1>13. DeadLettersFit'
  BY <1>2 DEF DeadLettersFit, Genuine
<1>14. Complete'
  <2>1. ASSUME NEW m \in StartBlock..to, h[m] \in Logs
        PROVE  \E l : l = Row(h, m) /\ (l \in events' \/ l.log \in dismissed' \/ Open(l)')
    <3>1. PICK l : l = Row(h, m)
      OBVIOUS
    <3>2. CASE m <= checkpoint.lastBlock
      <4>1. m \in 1..Len(c) /\ m \in StartBlock..checkpoint.lastBlock
        BY <1>2, <3>2, IndexerAssumption
      <4>2. l = Row(c, m) /\ c[m] \in Logs
        BY <1>7, <2>1, <3>1, <4>1
      <4>3. Accounted(l)
        BY <1>1, <1>2, <4>1, <4>2 DEF Complete
      <4> QED  BY <1>9, <3>1, <4>3 DEF Accounted, Open
    <3>3. CASE ~(m <= checkpoint.lastBlock)
      <4>1. m \in from..to /\ m \in 1..to
        BY <1>2, <3>3, IndexerAssumption
      <4>2. l = Row(k, m) /\ k[m] \in Logs
        BY <1>5, <2>1, <3>1, <4>1
      <4>3. l \in FilterLogs(from, to)
        <5>1. l = LogAt(m) /\ chain[m] \in Logs
          BY <1>1, <4>2 DEF LogAt, HashAt, Row
        <5>2. m <= BlockNumber
          BY <1>1, <1>2, <4>1 DEF BlockNumber, Hash
        <5> QED  BY <4>1, <5>1, <5>2 DEF FilterLogs
      <4>4. l \in p.new \/ l.log \in dismissed \/ Open(l)
        BY <1>1, <4>3, CommitContext
      <4> QED  BY <1>9, <3>1, <4>4 DEF Open
    <3> QED  BY <3>2, <3>3
  <2> QED  BY <1>6, <2>1 DEF Complete, Accounted, Open, Row
<1> QED  BY <1>10, <1>11, <1>12, <1>13, <1>14

LEMMA CommitKeeps ==
    ASSUME Inv, NEW r \in Replicas, commitChunk(r)
    PROVE  Inv'
<1> DEFINE p == poll[r]
<1>1. PollOK(p) /\ p.pc = "commit" /\ UNCHANGED <<chain, deadLetters, reindexing, dismissed>>
  BY CallInProgress DEF commitChunk
<1>2. CASE /\ CommitChunk(p.new, p.hashes, IF p.head > MaxHistory THEN p.head - MaxHistory ELSE 0,
                          p.to, p.hash, p.cp.version)
           /\ poll' = [poll EXCEPT ![r] = NextChunk(checkpoint', p.to + 1, p.head)]
  <2>1. PICK q : q = NextChunk(checkpoint', p.to + 1, p.head) /\ poll' = [poll EXCEPT ![r] = q]
    BY <1>2
  <2> HIDE DEF p
  <2>2. Fresh(p) /\ checkpoint' = Checkpoint(p.to, p.hash, checkpoint.version + 1)
    BY <1>2 DEF CommitChunk, Fresh, storedCheckpointVersion
  <2>3. /\ p.to \in 0..Len(chain) /\ p.hash = SubSeq(chain, 1, p.to) /\ p.head \in Nat /\ reindexing = 0
        /\ checkpoint.version \in Nat
    BY <1>1, <2>2, CommitContext
  <2>4. CheckpointOK' /\ EventsFit' /\ HistoryFits' /\ DeadLettersFit' /\ Complete'
    <3>1. CommitChunk(p.new, p.hashes, IF p.head > MaxHistory THEN p.head - MaxHistory ELSE 0,
                      p.to, p.hash, p.cp.version)
      BY <1>2
    <3> QED  BY <1>1, <2>2, <3>1, Lengthened
  <2>5. /\ checkpoint'.stored /\ ~checkpoint'.flagged /\ checkpoint'.version = checkpoint.version + 1
        /\ checkpoint'.lastBlock = p.to /\ checkpoint'.hash = SubSeq(chain, 1, p.to)
    BY <2>2, <2>3 DEF Checkpoint
  <2>6. Begins(checkpoint'.hash, chain)
    BY <2>3, <2>5, PartBegins DEF Inv, ChainOK
  <2>7. q = NextChunk(checkpoint', checkpoint'.lastBlock + 1, p.head)
    BY <2>1, <2>5
  <2>8. PollOK(q)'
    <3>1. PICK cp : cp = checkpoint'
      OBVIOUS
    <3>2. cp \in Checkpoints /\ cp.lastBlock <= MaxHeight
      BY <2>4, <3>1 DEF CheckpointOK
    <3>3. q = NextChunk(cp, cp.lastBlock + 1, p.head) /\ cp.stored /\ ~cp.flagged /\ Begins(cp.hash, chain')
      BY <1>1, <2>5, <2>6, <2>7, <3>1
    <3> QED  BY <1>1, <2>3, <3>1, <3>2, <3>3, GoesOn
  <2>9. PollsOK'
    <3>1. UNCHANGED <<chain, reindexing>> /\ checkpoint'.version \in Nat /\ checkpoint'.version > checkpoint.version
      BY <1>1, <2>3, <2>5
    <3> QED  BY <2>1, <2>6, <2>8, <3>1, Replaced
  <2>10. ChainOK' /\ Reindexing'
    BY <1>1, <2>3, <2>5 DEF Inv, ChainOK, StoresOK, Reindexing
  <2> QED  BY <2>4, <2>9, <2>10 DEF Inv, StoresOK
<1>3. CASE poll' = [poll EXCEPT ![r] = Idle] /\ UNCHANGED <<events, checkpoint, history>>
  BY <1>1, <1>3, GivingUpKeeps DEF stores
<1> QED  BY <1>2, <1>3 DEF commitChunk

-----------------------------------------------------------------------------
(* The operator's tools.                                                   *)

LEMMA IdlePolls ==
    ASSUME Inv, \A r \in Replicas : poll[r].pc = "idle", poll' = poll
    PROVE  PollsOK'
  BY DEF Inv, PollsOK, PollOK, Shape, Scans

LEMMA ResetKeeps ==
    ASSUME Inv, Quiet, ResetToTrustedCheckpoint
    PROVE  Inv'
<1>1. /\ reindexing = 0 /\ \A r \in Replicas : poll[r].pc = "idle"
      /\ UNCHANGED <<chain, history, deadLetters, poll, reindexing, dismissed>>
  BY DEF ResetToTrustedCheckpoint, Undisturbed
<1>2. PICK n \in Trusted : DeleteFromBlock(n + 1) /\ checkpoint' = Checkpoint(n, HashAt(n), 0)
  BY DEF ResetToTrustedCheckpoint
<1>3. n \in 0..checkpoint.lastBlock
  <2>1. BlockNumber \in Nat /\ checkpoint.lastBlock \in Nat
    BY DEF Inv, ChainOK, StoresOK, CheckpointOK, Checkpoints, BlockNumber
  <2> QED  BY <2>1, MinOfTwo DEF Trusted
<1>4. checkpoint' = Checkpoint(n, SubSeq(checkpoint.hash, 1, n), 0)
  BY <1>2 DEF Trusted
<1>5. CheckpointOK' /\ EventsFit' /\ HistoryFits' /\ DeadLettersFit' /\ Complete'
  BY <1>1, <1>2, <1>3, <1>4, Shortened
<1>6. ChainOK' /\ Reindexing'
  BY <1>1, <1>4 DEF Inv, ChainOK, StoresOK, Reindexing, Checkpoint
<1>7. PollsOK'
  BY <1>1, IdlePolls
<1> QED  BY <1>5, <1>6, <1>7 DEF Inv, StoresOK

LEMMA Resolved ==
    ASSUME DeadLettersFit, NEW log \in DOMAIN deadLetters, Resolve(log)
    PROVE  /\ DeadLettersFit'
           /\ \A l : Open(l) /\ l.log # log =>
                 /\ l.log \in DOMAIN deadLetters'
                 /\ ~deadLetters'[l.log].resolved /\ deadLetters'[l.log].source = l
<1>1. DOMAIN deadLetters' = DOMAIN deadLetters
      /\ \A l \in DOMAIN deadLetters : l # log => deadLetters'[l] = deadLetters[l]
  BY DEF Resolve, DeadLettersFit
<1>2. deadLetters'[log] = [source |-> deadLetters[log].source, resolved |-> TRUE]
  <2>1. PICK d, e : d = deadLetters[log] /\ e = [d EXCEPT !.resolved = TRUE]
    OBVIOUS
  <2>2. deadLetters' = [deadLetters EXCEPT ![log] = e]
    BY <2>1 DEF Resolve
  <2>3. d = [source |-> d.source, resolved |-> d.resolved]
    BY <2>1 DEF DeadLettersFit
  <2>4. e = [source |-> d.source, resolved |-> TRUE]
    BY <2>1, <2>3
  <2>5. deadLetters'[log] = e
    BY <2>2 DEF DeadLettersFit
  <2> QED  BY <2>1, <2>4, <2>5
<1>3. deadLetters' = [l \in DOMAIN deadLetters' |-> deadLetters'[l]]
  BY DEF Resolve, DeadLettersFit
<1>4. ASSUME NEW l \in DOMAIN deadLetters'
      PROVE  /\ deadLetters'[l] = [source |-> deadLetters'[l].source, resolved |-> deadLetters'[l].resolved]
             /\ deadLetters'[l].resolved \in BOOLEAN
             /\ Genuine(deadLetters'[l].source) /\ deadLetters'[l].source.log = l
  <2>1. CASE l = log
    <3>1. PICK s : s = deadLetters[log].source
      OBVIOUS
    <3>2. Genuine(s) /\ s.log = log
      BY <3>1 DEF DeadLettersFit
    <3>3. deadLetters'[log] = [source |-> s, resolved |-> TRUE]
      BY <1>2, <3>1
    <3>4. deadLetters'[log].source = s /\ deadLetters'[log].resolved = TRUE
      BY <3>3
    <3> QED  BY <2>1, <3>2, <3>3, <3>4
  <2>2. CASE l # log
    BY <1>1, <2>2 DEF DeadLettersFit
  <2> QED  BY <2>1, <2>2
<1>5. DeadLettersFit'
  BY <1>3, <1>4 DEF DeadLettersFit, Genuine, Row
<1> QED  BY <1>1, <1>5 DEF Open

LEMMA RetryKeeps ==
    ASSUME Inv, Quiet, NEW log \in Logs, RetryDeadLetter(log)
    PROVE  Inv'
<1>1. /\ reindexing = 0 /\ \A r \in Replicas : poll[r].pc = "idle"
      /\ UNCHANGED <<chain, checkpoint, history, poll, reindexing, dismissed>>
      /\ checkpoint.hash = chain /\ log \in DOMAIN deadLetters
  BY DEF RetryDeadLetter, Undisturbed
<1>2. PICK source : source = deadLetters[log].source
  OBVIOUS
<1>3. /\ source.number <= BlockNumber
      /\ \/ source.hash # HashAt(source.number) /\ Resolve(log) /\ UNCHANGED events
         \/ source.hash = HashAt(source.number) /\ events' = Inserted({source}) /\ Resolve(log)
         \/ source.hash = HashAt(source.number) /\ deadLetters' = Record({source}) /\ UNCHANGED events
  BY <1>2 DEF RetryDeadLetter
<1>4. /\ chain \in Hash /\ Len(chain) \in Nat /\ ChainOK /\ DeadLettersFit
      /\ checkpoint.lastBlock = Len(chain) /\ EventsFit /\ StoresOK
  BY <1>1 DEF Inv, ChainOK, StoresOK, CheckpointOK, Hash
<1>5. Begins(checkpoint.hash, chain)
  BY <1>1, <1>4, Whole DEF Begins
<1>6. Genuine(source) /\ source.log = log
  BY <1>1, <1>2, <1>4 DEF DeadLettersFit
<1>7. source.hash = HashAt(source.number) => Canonical(source)
  <2>1. ASSUME source.hash = HashAt(source.number)
        PROVE  source.number \in 1..Len(chain) /\ source = Row(chain, source.number) /\ chain[source.number] = source.log
    BY <1>3, <1>4, <1>6, <2>1, GenuineRow DEF HashAt, BlockNumber
  <2> QED  BY <1>6, <2>1 DEF Canonical, Genuine
<1>8. CheckpointOK' /\ HistoryFits' /\ ChainOK' /\ Reindexing'
  BY <1>1, <1>4 DEF ChainOK, StoresOK, CheckpointOK, Rooted, HashAt, HistoryFits, Reindexing
<1>9. PollsOK'
  BY <1>1, IdlePolls
<1>10. CASE source.hash # HashAt(source.number) /\ Resolve(log) /\ UNCHANGED events
  <2>1. ASSUME NEW l, Canonical(l), Open(l)
        PROVE  l.log # log
    <3> SUFFICES ASSUME l.log = log
                 PROVE  FALSE
      OBVIOUS
    <3>1. l = source
      BY <1>2, <2>1 DEF Open
    <3>2. l.hash = HashAt(l.number)
      BY <2>1 DEF Canonical, Row, HashAt
    <3> QED  BY <1>10, <3>1, <3>2
  <2>2. DeadLettersFit' /\ Complete'
    BY <1>1, <1>4, <1>5, <1>10, <2>1, Resolved, RecordedComplete
  <2>3. EventsFit'
    BY <1>1, <1>4, <1>10 DEF EventsFit
  <2> QED  BY <1>8, <1>9, <2>2, <2>3 DEF Inv, StoresOK
<1>11. CASE source.hash = HashAt(source.number) /\ events' = Inserted({source}) /\ Resolve(log)
  <2>1. Canonical(source) /\ events' = events \cup {source}
    BY <1>5, <1>7, <1>11, InsertedRows
  <2>2. ASSUME NEW l, Canonical(l), Open(l), l.log = log
        PROVE  l = source
    BY <1>2, <2>2 DEF Open
  <2>3. DeadLettersFit' /\ Complete'
    BY <1>1, <1>4, <1>5, <1>11, <2>1, <2>2, Resolved, RecordedComplete
  <2>4. source.number \in 1..Len(chain) /\ source.log \in Logs /\ source = Row(chain, source.number)
    BY <2>1 DEF Canonical, Row
  <2>5. \A e \in events' : e.number \in 1..checkpoint.lastBlock /\ e.log \in Logs /\ e = Row(checkpoint.hash, e.number)
    BY <1>1, <1>4, <2>1, <2>4 DEF EventsFit
  <2>6. EventsFit'
    BY <1>1, <2>5 DEF EventsFit, Row
  <2> QED  BY <1>8, <1>9, <2>3, <2>6 DEF Inv, StoresOK
<1>12. CASE source.hash = HashAt(source.number) /\ deadLetters' = Record({source}) /\ UNCHANGED events
  <2>1. \A f \in {source} : Canonical(f)
    BY <1>7, <1>12
  <2>2. /\ DeadLettersFit'
        /\ \A l : Canonical(l) /\ (Open(l) \/ l \in {source}) =>
              /\ l.log \in DOMAIN deadLetters'
              /\ ~deadLetters'[l.log].resolved /\ deadLetters'[l.log].source = l
    BY <1>4, <1>12, <2>1, Recorded
  <2>3. Complete'
    BY <1>1, <1>5, <1>12, <2>2, RecordedComplete
  <2>4. EventsFit'
    BY <1>1, <1>4, <1>12 DEF EventsFit
  <2> QED  BY <1>8, <1>9, <2>2, <2>3, <2>4 DEF Inv, StoresOK
<1> QED  BY <1>3, <1>10, <1>11, <1>12

\* Dismissing does not wait for the polls.
LEMMA DismissKeeps ==
    ASSUME Inv, NEW log \in Logs, DismissDeadLetter(log)
    PROVE  Inv'
<1>1. /\ log \in DOMAIN deadLetters /\ Resolve(log) /\ dismissed' = dismissed \cup {log}
      /\ UNCHANGED <<chain, events, checkpoint, history, poll, reindexing>>
  BY DEF DismissDeadLetter
<1>2. /\ DeadLettersFit'
      /\ \A l : Open(l) /\ l.log # log => Open(l)'
  <2>1. DeadLettersFit
    BY DEF Inv, StoresOK
  <2> QED  BY <1>1, <2>1, Resolved DEF Open
<1>3. ChainOK' /\ CheckpointOK' /\ EventsFit' /\ HistoryFits' /\ Reindexing'
  BY <1>1 DEF Inv, ChainOK, StoresOK, CheckpointOK, Rooted, HashAt, EventsFit, HistoryFits, Reindexing
<1>4. Complete'
  <2>1. \A l : Accounted(l) => l \in events' \/ l.log \in dismissed' \/ Open(l)'
    BY <1>1, <1>2 DEF Accounted
  <2> QED  BY <1>1, <2>1 DEF Inv, StoresOK, Complete, Accounted, Open, Row
<1>5. ASSUME NEW p, PollOK(p)
      PROVE  PollOK(p)'
  <2>1. CASE p.pc \in Scans
    <3>1. p.pc = "commit" => (Fresh(p)' => \A l \in p.logs : l \in p.new \/ l.log \in dismissed' \/ Open(l)')
      BY <1>1, <1>2, <1>5, <2>1 DEF PollOK, Scanning, Fresh
    <3>2. Shape(p) /\ Loaded(p)'
      BY <1>1, <1>5, <2>1 DEF PollOK, Scans, Loaded, Fresh, loadCheckpoint
    <3>3. Scanning(p)'
      BY <1>1, <1>5, <2>1, <3>1
         DEF PollOK, Scanning, Fresh, HashAt, BlockNumber, FilterLogs, LogAt, RecordFrom
    <3> QED  BY <2>1, <3>2, <3>3 DEF PollOK, Scans, Shape
  <2>2. CASE p.pc \notin Scans
    BY <1>1, <1>5, <2>2 DEF PollOK, Shape, Loaded, Fresh, loadCheckpoint, RollingBack, HashAt, BlockNumber
  <2> QED  BY <2>1, <2>2
<1>6. PollsOK'
  <2>1. ASSUME NEW s \in Replicas
        PROVE  PollOK(poll[s])'
    <3>1. PICK p : p = poll'[s]
      OBVIOUS
    <3>2. PollOK(p)'
      BY <1>1, <1>5, <3>1 DEF Inv, PollsOK
    <3> QED  BY <3>1, <3>2 DEF PollOK, Shape, Loaded, Scanning, RollingBack, Fresh, RecordFrom
  <2> QED  BY <1>1, <2>1 DEF Inv, PollsOK
<1> QED  BY <1>2, <1>3, <1>4, <1>6 DEF Inv, StoresOK

LEMMA ReindexEventsKeeps ==
    ASSUME Inv, Quiet, ReindexEvents
    PROVE  Inv'
<1>1. /\ \A r \in Replicas : poll[r].pc = "idle"
      /\ DeleteFromBlock(0) /\ reindexing' = 2
      /\ UNCHANGED <<chain, checkpoint, history, deadLetters, poll, dismissed>>
  BY DEF ReindexEvents, Undisturbed
<1>2. events' = {}
  <2>1. \A e \in events : ~(e.number < 0)
    BY DEF Inv, StoresOK, EventsFit, CheckpointOK, Checkpoints
  <2> QED  BY <1>1, <2>1 DEF DeleteFromBlock
<1>3. ChainOK' /\ CheckpointOK' /\ HistoryFits' /\ DeadLettersFit'
  BY <1>1 DEF Inv, ChainOK, StoresOK, CheckpointOK, Rooted, HashAt, HistoryFits, DeadLettersFit, Genuine
<1>4. EventsFit' /\ Complete' /\ Reindexing'
  BY <1>1, <1>2 DEF EventsFit, Complete, Reindexing
<1>5. PollsOK'
  BY <1>1, IdlePolls
<1> QED  BY <1>3, <1>4, <1>5 DEF Inv, StoresOK

LEMMA ReindexRestKeeps ==
    ASSUME Inv, ReindexRest
    PROVE  Inv'
<1>1. /\ reindexing \in {1, 2} /\ events = {} /\ \A r \in Replicas : poll[r].pc = "idle"
      /\ reindexing = 1 => ~checkpoint.stored
      /\ UNCHANGED <<chain, events, deadLetters, poll, dismissed>>
      /\ reindexing' = reindexing - 1
  BY DEF Inv, StoresOK, Reindexing, ReindexRest
<1>2. ChainOK' /\ EventsFit' /\ DeadLettersFit' /\ PollsOK'
  BY <1>1, IdlePolls DEF Inv, ChainOK, StoresOK, EventsFit, DeadLettersFit, Genuine
<1>3. CASE reindexing = 2
  <2>1. checkpoint' = NoCheckpoint /\ history' = history /\ reindexing' = 1
    BY <1>1, <1>3 DEF ReindexRest
  <2>2. /\ checkpoint'.lastBlock = 0 /\ checkpoint'.hash = <<>> /\ ~checkpoint'.stored /\ Len(<<>>) = 0
        /\ <<>> \in Hash
    BY <2>1 DEF NoCheckpoint, Hash
  <2>3. CheckpointOK'
    BY <2>1, <2>2, IdleOK, IndexerAssumption DEF CheckpointOK, Rooted, PollOK, Shape, Idle, Hash, Checkpoints, NoCheckpoint
  <2>4. HistoryFits'
    <3>1. ASSUME NEW n \in DOMAIN history, n <= 0
          PROVE  history[n] = SubSeq(<<>>, 1, n)
      <4>1. n = 0
        BY <3>1 DEF Inv, StoresOK, HistoryFits
      <4>2. history[0] = SubSeq(checkpoint.hash, 1, 0)
        BY <4>1 DEF Inv, StoresOK, HistoryFits, CheckpointOK, Checkpoints
      <4> QED  BY <4>1, <4>2, SubSeqEmpty
    <3> QED  BY <2>1, <2>2, <3>1 DEF Inv, StoresOK, HistoryFits
  <2>5. Complete' /\ Reindexing'
    BY <1>1, <2>1, <2>2 DEF Complete, Reindexing
  <2> QED  BY <1>2, <2>3, <2>4, <2>5 DEF Inv, StoresOK
<1>4. CASE reindexing = 1
  <2>1. checkpoint' = checkpoint /\ history' = <<>> /\ reindexing' = 0
    BY <1>1, <1>4 DEF ReindexRest
  <2>2. checkpoint.lastBlock = 0 /\ ~checkpoint.stored
    BY <1>1, <1>4 DEF Inv, StoresOK, CheckpointOK, NoCheckpoint
  <2>3. CheckpointOK'
    BY <1>1, <2>1 DEF Inv, StoresOK, CheckpointOK, Rooted, HashAt
  <2>4. HistoryFits' /\ Complete' /\ Reindexing'
    BY <1>1, <2>1, <2>2, IndexerAssumption DEF HistoryFits, Complete, Reindexing
  <2> QED  BY <1>2, <2>3, <2>4 DEF Inv, StoresOK
<1> QED  BY <1>1, <1>3, <1>4

-----------------------------------------------------------------------------
(* The chain.                                                              *)

\* Polls and stores fit a chain that has grown.
LEMMA ExtendedPoll ==
    ASSUME Inv, NEW p, PollOK(p), NEW k \in Hash, chain' = k, Begins(chain, k),
           UNCHANGED <<stores, reindexing, dismissed>>
    PROVE  PollOK(p)'
<1>1. chain \in Hash /\ Len(chain) \in Nat /\ Len(k) \in Nat /\ Len(chain) <= Len(k)
      /\ checkpoint.hash \in Hash
  BY DEF Inv, ChainOK, Begins, Hash, StoresOK, CheckpointOK, Checkpoints
<1>2. /\ \A n \in 0..Len(chain) : SubSeq(k, 1, n) = SubSeq(chain, 1, n)
      /\ \A n \in 1..Len(chain) : k[n] = chain[n]
  BY <1>1, BeginsParts, BeginsRow
<1>3. Shape(p) /\ (p.pc # "idle" => Loaded(p)')
  BY DEF PollOK, Loaded, Fresh, loadCheckpoint, stores
<1>4. ASSUME p.pc \in {"rollback", "flag", "rewind"}
      PROVE  RollingBack(p)'
  <2>1. p.to \in Nat /\ RollingBack(p)
    BY <1>4 DEF PollOK, Shape
  <2>2. p.pc # "flag" => p.to \in 0..Len(chain)
    BY <1>1, <2>1 DEF RollingBack, BlockNumber
  <2> QED  BY <1>1, <1>2, <2>1, <2>2 DEF RollingBack, Fresh, HashAt, BlockNumber, stores
<1>5. ASSUME p.pc \in Scans
      PROVE  Scanning(p)'
  <2>1. p.from \in Nat /\ p.to \in Nat /\ p.head \in Nat /\ Scanning(p)
    BY <1>5 DEF PollOK, Shape
  <2>2. Begins(checkpoint.hash, k)
    BY <1>1, <2>1, BeginsTransitive DEF Scanning
  <2>3. ASSUME p.pc # "boundary"
        PROVE  p.to <= Len(k) /\ p.to \in 0..Len(chain) /\ SubSeq(k, 1, p.to) = SubSeq(chain, 1, p.to)
    BY <1>1, <1>2, <2>1, <2>3 DEF Scanning, BlockNumber
  <2>4. ASSUME p.pc # "boundary"
        PROVE  FilterLogs(p.from, p.to)' = FilterLogs(p.from, p.to)
    <3>1. \A n \in p.from..p.to : n \in 1..Len(chain) /\ n \in 0..Len(chain) /\ n <= Len(k)
      BY <1>1, <2>1, <2>3, <2>4 DEF Scanning
    <3>2. \A n \in p.from..p.to : k[n] = chain[n] /\ LogAt(n)' = LogAt(n)
      BY <1>2, <3>1 DEF LogAt, HashAt
    <3>3. {n \in p.from..p.to : n <= BlockNumber' /\ chain'[n] \in Logs}
              = {n \in p.from..p.to : n <= BlockNumber /\ chain[n] \in Logs}
      BY <3>1, <3>2 DEF BlockNumber
    <3> QED  BY <3>2, <3>3 DEF FilterLogs
  <2>5. ASSUME p.pc = "commit"
        PROVE  p.hashes = [n \in RecordFrom(p)..p.to |-> HashAt(n)']
    <3>1. RecordFrom(p) \in Nat
      <4>1. (IF p.head > MaxHistory THEN p.head - MaxHistory ELSE 0) \in Nat
        BY <2>1, IndexerAssumption
      <4> QED  BY <2>1, <4>1, MaxOfTwo DEF RecordFrom
    <3>2. \A n \in RecordFrom(p)..p.to : n \in 0..Len(chain)
      BY <1>1, <2>1, <2>3, <2>5, <3>1
    <3>3. \A n \in RecordFrom(p)..p.to : HashAt(n)' = HashAt(n)
      BY <1>2, <3>2 DEF HashAt
    <3> QED  BY <2>1, <2>5, <3>3 DEF Scanning
  <2>6. p.pc # "boundary" => p.to <= BlockNumber' /\ p.hash \in {<<>>, HashAt(p.to)'}
    BY <2>1, <2>3 DEF Scanning, HashAt, BlockNumber
  <2>7. p.pc \in {"validate", "prepare", "commit"} => p.logs = FilterLogs(p.from, p.to)'
    BY <2>1, <2>4 DEF Scanning
  <2>8. p.pc \in {"prepare", "commit"} => p.hash = HashAt(p.to)'
    BY <2>1, <2>3 DEF Scanning, HashAt
  <2>9. UNCHANGED <<checkpoint, dismissed, deadLetters>>
    BY DEF stores
  <2>10. p.pc = "commit" =>
            /\ p.new \subseteq p.logs
            /\ Fresh(p)' => \A l \in p.logs : l \in p.new \/ l.log \in dismissed' \/ Open(l)'
    BY <2>1, <2>9 DEF Scanning, Fresh, Open
  <2>11. /\ 1 <= p.from /\ p.from <= p.to
         /\ Fresh(p)' => IF checkpoint'.stored THEN p.from = checkpoint'.lastBlock + 1 ELSE p.from <= StartBlock
    BY <2>1, <2>9 DEF Scanning, Fresh
  <2> QED  BY <2>2, <2>5, <2>6, <2>7, <2>8, <2>9, <2>10, <2>11 DEF Scanning, RecordFrom, Begins
<1> QED  BY <1>3, <1>4, <1>5 DEF PollOK, Shape

LEMMA ExtendKeeps ==
    ASSUME Inv, Extend
    PROVE  Inv'
<1>1. /\ UNCHANGED <<stores, poll, reindexing, dismissed>> /\ Len(chain) < MaxHeight
      /\ chain \in Hash /\ Len(chain) \in Nat /\ Len(chain) >= 1 /\ NoRepeats(chain)
  BY DEF Extend, Inv, ChainOK, BlockNumber
<1>2. PICK x \in Contents(chain) : chain' = Append(chain, x)
  BY DEF Extend
<1>3. PICK k : k = Append(chain, x)
  OBVIOUS
<1>4. k \in Hash /\ Len(k) = Len(chain) + 1 /\ Begins(chain, k) /\ NoRepeats(k)
  <2>1. x \in {Empty} \cup Logs /\ NoRepeats(Append(chain, x))
    BY <1>1, NextRepeatsNothing
  <2> QED  BY <1>1, <1>3, <2>1, BeginsAppended
<1>5. ChainOK'
  BY <1>1, <1>2, <1>3, <1>4, IndexerAssumption DEF ChainOK
<1>6. CheckpointOK'
  <2>1. PICK h : h = checkpoint.hash
    OBVIOUS
  <2>2. Rooted(h) /\ h \in Hash /\ Len(h) \in Nat
    BY <2>1 DEF Inv, StoresOK, CheckpointOK, Checkpoints, Hash
  <2>3. ASSUME NEW n \in 1..Len(h), n <= StartBlock
        PROVE  n <= Len(k) /\ SubSeq(h, 1, n) = SubSeq(k, 1, n)
    <3>1. n \in 0..Len(chain) /\ SubSeq(h, 1, n) = SubSeq(chain, 1, n)
      BY <1>1, <2>2, <2>3 DEF Rooted, HashAt
    <3> QED  BY <1>1, <1>4, <3>1, BeginsParts
  <2>4. Rooted(h)'
    BY <1>2, <1>3, <2>3 DEF Rooted, HashAt
  <2>5. checkpoint' = checkpoint
    BY <1>1 DEF stores
  <2> QED  BY <2>1, <2>4, <2>5 DEF Inv, StoresOK, CheckpointOK, Rooted, HashAt
<1>7. EventsFit' /\ HistoryFits' /\ DeadLettersFit' /\ Complete' /\ Reindexing'
  BY <1>1 DEF Inv, StoresOK, stores, EventsFit, HistoryFits, DeadLettersFit, Complete, Accounted, Open,
              Reindexing
<1>8. ASSUME NEW s \in Replicas
      PROVE  PollOK(poll[s])'
  <2>1. PICK p : p = poll'[s]
    OBVIOUS
  <2>2. PollOK(p)
    BY <1>1, <2>1, CallInProgress
  <2>3. PollOK(p)'
    BY <1>1, <1>2, <1>3, <1>4, <2>2, ExtendedPoll
  <2> QED  BY <2>1, <2>3 DEF PollOK, Shape, Loaded, Scanning, RollingBack, Fresh, RecordFrom
<1> QED  BY <1>1, <1>5, <1>6, <1>7, <1>8 DEF Inv, StoresOK, PollsOK

\* Another fork above the trusted start.
LEMMA ReorganiseKeeps ==
    ASSUME Inv, Quiet, Reorganise
    PROVE  Inv'
<1>1. /\ UNCHANGED <<stores, poll, reindexing, dismissed>> /\ \A r \in Replicas : poll[r].pc = "idle"
      /\ chain \in Hash /\ Len(chain) \in Nat /\ NoRepeats(chain) /\ Len(chain) <= MaxHeight
  BY DEF Reorganise, Undisturbed, Inv, ChainOK, Hash
<1>2. PICK n \in StartBlock..(Len(chain) - 1) :
          \/ chain' = HashAt(n)
          \/ \E x \in Contents(HashAt(n)) : chain' = Append(HashAt(n), x)
  BY DEF Reorganise, BlockNumber
<1>3. PICK f : f = SubSeq(chain, 1, n)
  OBVIOUS
<1>4. n \in 0..Len(chain) /\ n \in Nat /\ n >= 1 /\ n >= StartBlock /\ n < Len(chain) /\ StartBlock \in Nat
  BY <1>1, IndexerAssumption
<1>5. f \in Hash /\ Len(f) = n /\ NoRepeats(f) /\ Begins(f, chain)
  BY <1>1, <1>3, <1>4, PartOf, PartBegins, PartsRepeatNothing
<1>6. PICK k : /\ chain' = k /\ k \in Hash /\ NoRepeats(k) /\ Begins(f, k)
               /\ Len(k) \in Nat /\ Len(k) >= n /\ Len(k) <= MaxHeight
  <2>1. CASE chain' = f
    <3>1. Begins(f, f)
      BY <1>5, Whole DEF Begins
    <3> QED  BY <1>1, <1>4, <1>5, <2>1, <3>1, IndexerAssumption
  <2>2. ASSUME NEW x \in Contents(f), chain' = Append(f, x)
        PROVE  /\ Append(f, x) \in Hash /\ NoRepeats(Append(f, x)) /\ Begins(f, Append(f, x))
               /\ Len(Append(f, x)) \in Nat /\ Len(Append(f, x)) >= n /\ Len(Append(f, x)) <= MaxHeight
    <3>1. x \in {Empty} \cup Logs /\ NoRepeats(Append(f, x))
      BY <1>5, NextRepeatsNothing
    <3>2. Append(f, x) \in Hash /\ Begins(f, Append(f, x)) /\ Len(Append(f, x)) = n + 1
      BY <1>5, <3>1, BeginsAppended
    <3> QED  BY <1>1, <1>4, <3>1, <3>2, IndexerAssumption
  <2> QED  BY <1>2, <1>3, <2>1, <2>2 DEF HashAt
<1>7. ChainOK'
  BY <1>4, <1>6, IndexerAssumption DEF ChainOK
<1>8. CheckpointOK'
  <2>1. PICK h : h = checkpoint.hash
    OBVIOUS
  <2>2. Rooted(h) /\ h \in Hash /\ Len(h) \in Nat
    BY <2>1 DEF Inv, StoresOK, CheckpointOK, Checkpoints, Hash
  <2>3. ASSUME NEW m \in 1..Len(h), m <= StartBlock
        PROVE  m <= Len(k) /\ SubSeq(h, 1, m) = SubSeq(k, 1, m)
    <3>1. m \in 0..n /\ m \in Nat /\ SubSeq(h, 1, m) = SubSeq(chain, 1, m)
      BY <1>4, <2>2, <2>3 DEF Rooted, HashAt
    <3>2. SubSeq(f, 1, m) = SubSeq(chain, 1, m)
      BY <1>1, <1>3, <1>4, <3>1, PartOfPart
    <3>3. SubSeq(f, 1, m) = SubSeq(k, 1, m)
      BY <1>5, <1>6, <3>1, BeginsParts
    <3> QED  BY <1>4, <1>6, <3>1, <3>2, <3>3
  <2>4. Rooted(h)'
    BY <1>6, <2>3 DEF Rooted, HashAt
  <2>5. checkpoint' = checkpoint
    BY <1>1 DEF stores
  <2> QED  BY <2>1, <2>4, <2>5 DEF Inv, StoresOK, CheckpointOK, Rooted, HashAt
<1>9. EventsFit' /\ HistoryFits' /\ DeadLettersFit' /\ Complete' /\ Reindexing'
  BY <1>1 DEF Inv, StoresOK, stores, EventsFit, HistoryFits, DeadLettersFit, Complete, Accounted, Open,
              Reindexing
<1>10. PollsOK'
  BY <1>1, IdlePolls
<1> QED  BY <1>7, <1>8, <1>9, <1>10 DEF Inv, StoresOK

-----------------------------------------------------------------------------
(* The theorem.                                                            *)

LEMMA StutterKeeps ==
    ASSUME Inv, UNCHANGED indexerVars
    PROVE  Inv'
<1>1. ChainOK' /\ CheckpointOK' /\ EventsFit' /\ HistoryFits' /\ DeadLettersFit'
  BY DEF indexerVars, stores, Inv, StoresOK, ChainOK, CheckpointOK, Rooted, HashAt, EventsFit, HistoryFits,
         DeadLettersFit
<1>2. Complete' /\ Reindexing'
  BY DEF indexerVars, stores, Inv, StoresOK, Complete, Accounted, Open, Reindexing
<1>3. PollsOK'
  BY DEF indexerVars, stores, Inv, PollsOK, PollOK, Shape, Loaded, Scanning, RollingBack, Fresh,
         loadCheckpoint, HashAt, BlockNumber, FilterLogs, LogAt, RecordFrom, Open
<1> QED  BY <1>1, <1>2, <1>3 DEF Inv, StoresOK

LEMMA NextKeeps ==
    ASSUME Inv, Quiet, FlagsAlone, [IndexerNext]_indexerVars
    PROVE  Inv'
<1>1. CASE UNCHANGED indexerVars
  BY <1>1, StutterKeeps
<1>2. ASSUME NEW r \in Replicas, PollStep(r) \/ PollAborted(r)
      PROVE  Inv'
  <2>1. CASE Poll(r)
    BY <2>1, PollKeeps
  <2>2. CASE Rollback(r)
    BY <2>2, RollbackKeeps
  <2>3. CASE Flag(r)
    BY <2>3, FlagKeeps
  <2>4. CASE Rewind(r)
    BY <2>4, RewindKeeps
  <2>5. CASE Boundary(r)
    BY <2>5, BoundaryKeeps
  <2>6. CASE scanChunk(r)
    BY <2>6, ScanKeeps
  <2>7. CASE Validate(r)
    BY <2>7, ValidateKeeps
  <2>8. CASE prepareChunkEvents(r)
    BY <2>8, PrepareKeeps
  <2>9. CASE commitChunk(r)
    BY <2>9, CommitKeeps
  <2>10. CASE PollAborted(r)
    BY <2>10, AbortKeeps
  <2> QED  BY <1>2, <2>1, <2>2, <2>3, <2>4, <2>5, <2>6, <2>7, <2>8, <2>9, <2>10 DEF PollStep
<1>3. CASE ResetToTrustedCheckpoint
  BY <1>3, ResetKeeps
<1>4. ASSUME NEW l \in Logs, RetryDeadLetter(l) \/ DismissDeadLetter(l)
      PROVE  Inv'
  BY <1>4, RetryKeeps, DismissKeeps
<1>5. CASE ReindexEvents
  BY <1>5, ReindexEventsKeeps
<1>6. CASE ReindexRest
  BY <1>6, ReindexRestKeeps
<1>7. CASE Extend
  BY <1>7, ExtendKeeps
<1>8. CASE Reorganise
  BY <1>8, ReorganiseKeeps
<1> QED  BY <1>1, <1>2, <1>3, <1>4, <1>5, <1>6, <1>7, <1>8 DEF IndexerNext

LEMMA InvCanonical == Inv => EventsCanonical
<1> SUFFICES ASSUME Inv, Settled
             PROVE  /\ \A e \in events : e.number <= checkpoint.lastBlock /\ e = LogAt(e.number)
                    /\ \A l \in FilterLogs(StartBlock, checkpoint.lastBlock) : Accounted(l)
  BY DEF EventsCanonical, NoStaleEvents, Accounted, Open
<1>1. PICK h, b : h = checkpoint.hash /\ b = checkpoint.lastBlock
  OBVIOUS
<1>2. /\ h \in Hash /\ b = Len(h) /\ b \in Nat /\ chain \in Hash /\ EventsFit /\ Complete
      /\ b <= Len(chain) /\ h = SubSeq(chain, 1, b) /\ reindexing = 0
  BY <1>1 DEF Inv, ChainOK, StoresOK, CheckpointOK, Checkpoints, Settled, BlockNumber, HashAt
<1>3. \A n \in 1..b : h[n] = chain[n] /\ Row(h, n) = LogAt(n)
  <2>1. Begins(h, chain)
    BY <1>2 DEF Begins
  <2>2. \A n \in 1..b : n \in 1..Len(chain) /\ h[n] = chain[n] /\ Row(h, n) = Row(chain, n)
    BY <1>2, <2>1, BeginsRow
  <2> QED  BY <2>2 DEF LogAt, HashAt, Row
<1>4. ASSUME NEW e \in events
      PROVE  e.number <= b /\ e = LogAt(e.number)
  <2>1. e.number \in 1..b /\ e = Row(h, e.number)
    BY <1>1, <1>2 DEF EventsFit
  <2> QED  BY <1>2, <1>3, <2>1
<1>5. ASSUME NEW l \in FilterLogs(StartBlock, b)
      PROVE  Accounted(l)
  <2>1. PICK n \in StartBlock..b : chain[n] \in Logs /\ l = LogAt(n)
    BY DEF FilterLogs
  <2>2. n \in 1..b
    BY <1>2, IndexerAssumption
  <2>3. Accounted(Row(h, n))
    BY <1>1, <1>2, <1>3, <2>1, <2>2 DEF Complete
  <2> QED  BY <1>3, <2>1, <2>2, <2>3
<1> QED  BY <1>1, <1>4, <1>5

\* Whatever chunk size, retained history and depth of automatic rollback are
\* configured, and however polls abort, race and are retried, the events stored
\* when the checkpoint agrees with the chain are exactly the canonical logs up
\* to it, failed decodings and dismissals excepted: Poll, its rollback and its
\* commit, and the operator's tools between polls.
THEOREM EventsStayCanonical ==
    ASSUME Quiet, FlagsAlone
    PROVE  IndexerSpec => []EventsCanonical
<1>1. IndexerInit => Inv
  BY InitOK
<1>2. Inv /\ [IndexerNext]_indexerVars => Inv'
  BY NextKeeps
<1>3. Inv => EventsCanonical
  BY InvCanonical
<1> QED  BY <1>1, <1>2, <1>3, PTL DEF IndexerSpec

-----------------------------------------------------------------------------
(* The pause.                                                              *)

\* While the checkpoint is flagged no call is in progress.
Pausing ==
    /\ poll = [r \in Replicas |-> poll[r]]
    /\ checkpoint.flagged => \A r \in Replicas : poll[r].pc = "idle"

LEMMA PausingHolds ==
    ASSUME \A r, s \in Replicas : r = s, Pausing, [IndexerNext]_indexerVars
    PROVE  Pausing'
<1>1. CASE UNCHANGED indexerVars
  BY <1>1 DEF indexerVars, stores, Pausing
<1>2. ASSUME NEW r \in Replicas, PollStep(r) \/ PollAborted(r)
      PROVE  Pausing'
  <2>1. PICK q : poll' = [poll EXCEPT ![r] = q]
    BY <1>2 DEF PollStep, Poll, Rollback, Flag, Rewind, Boundary, scanChunk, Validate, prepareChunkEvents,
                commitChunk, PollAborted
  <2>2. (poll = [s \in Replicas |-> poll[s]])'
    BY <2>1 DEF Pausing
  <2>3. ASSUME checkpoint'.flagged
        PROVE  poll'[r].pc = "idle"
    <3>1. CASE Flag(r) \/ PollAborted(r)
      BY <3>1 DEF Flag, PollAborted, Pausing, Idle
    <3>2. CASE Poll(r)
      BY <2>3, <3>2 DEF Poll, Paused, stores
    <3>3. CASE Rewind(r)
      BY <2>3, <3>3 DEF Rewind, RewindChunk, Checkpoint, Pausing
    <3>4. CASE commitChunk(r)
      BY <2>3, <3>4 DEF commitChunk, CommitChunk, Checkpoint, Pausing
    <3>5. CASE Rollback(r) \/ Boundary(r) \/ scanChunk(r) \/ Validate(r) \/ prepareChunkEvents(r)
      <4>1. checkpoint' = checkpoint /\ poll[r].pc # "idle"
        BY <3>5 DEF Rollback, Boundary, scanChunk, Validate, prepareChunkEvents, stores
      <4> QED  BY <2>3, <4>1 DEF Pausing
    <3> QED  BY <1>2, <3>1, <3>2, <3>3, <3>4, <3>5 DEF PollStep
  <2> QED  BY <2>2, <2>3 DEF Pausing
<1>3. CASE ResetToTrustedCheckpoint
  BY <1>3 DEF ResetToTrustedCheckpoint, Checkpoint, Pausing
<1>4. ASSUME NEW l \in Logs, RetryDeadLetter(l) \/ DismissDeadLetter(l)
      PROVE  Pausing'
  BY <1>4 DEF RetryDeadLetter, DismissDeadLetter, Pausing
<1>5. CASE ReindexEvents
  BY <1>5 DEF ReindexEvents, Pausing
<1>6. CASE ReindexRest
  BY <1>6 DEF ReindexRest, NoCheckpoint, Pausing
<1>7. CASE Extend \/ Reorganise
  BY <1>7 DEF Extend, Reorganise, stores, Pausing
<1> QED  BY <1>1, <1>2, <1>3, <1>4, <1>5, <1>6, <1>7 DEF IndexerNext

LEMMA PauseLifted ==
    ASSUME Pausing, [IndexerNext]_indexerVars, checkpoint.flagged, ~checkpoint'.flagged
    PROVE  interventions' = interventions + 1 \/ reindexing > 0
<1>1. ~UNCHANGED indexerVars
  BY DEF indexerVars, stores
<1>2. ASSUME NEW r \in Replicas
      PROVE  ~PollStep(r) /\ ~PollAborted(r)
  BY DEF Pausing, PollStep, Poll, Paused, Rollback, Flag, Rewind, Boundary, scanChunk, Validate,
         prepareChunkEvents, commitChunk, PollAborted
<1>3. ASSUME NEW l \in Logs
      PROVE  ~RetryDeadLetter(l) /\ ~DismissDeadLetter(l)
  BY DEF RetryDeadLetter, DismissDeadLetter
<1>4. ~Extend /\ ~Reorganise /\ ~ReindexEvents
  BY DEF Extend, Reorganise, ReindexEvents, stores
<1>5. ResetToTrustedCheckpoint \/ ReindexRest
  BY <1>1, <1>2, <1>3, <1>4 DEF IndexerNext
<1> QED  BY <1>5 DEF ResetToTrustedCheckpoint, ReindexRest, Intervene

\* A server that polls alone never clears the flag of a paused checkpoint,
\* whatever it had read before: only a reset or a reindex does (Poll's pause
\* check, and the Set of a rollback that needs reconciliation).
THEOREM PauseStaysSet ==
    ASSUME \A r, s \in Replicas : r = s
    PROVE  IndexerSpec => PauseKept
<1>1. IndexerInit => Pausing /\ interventions \in Nat
  BY DEF IndexerInit, NoCheckpoint, Pausing
<1>2. Pausing /\ interventions \in Nat /\ [IndexerNext]_indexerVars => (Pausing /\ interventions \in Nat)'
  <2> SUFFICES ASSUME Pausing, interventions \in Nat, [IndexerNext]_indexerVars
               PROVE  Pausing' /\ interventions' \in Nat
    OBVIOUS
  <2>1. interventions' \in {interventions, interventions + 1}
    BY DEF IndexerNext, indexerVars, budgets, PollStep, Poll, Rollback, Flag, Rewind, Boundary, scanChunk,
           Validate, prepareChunkEvents, commitChunk, PollAborted, ResetToTrustedCheckpoint,
           RetryDeadLetter, DismissDeadLetter, ReindexEvents, ReindexRest, Extend, Reorganise, Intervene
  <2> QED  BY <2>1, PausingHolds
<1>3. Pausing /\ interventions \in Nat /\ [IndexerNext]_indexerVars
          => [checkpoint.flagged /\ ~checkpoint'.flagged
                 => interventions' > interventions \/ reindexing > 0]_indexerVars
  BY PauseLifted
<1> QED  BY <1>1, <1>2, <1>3, PTL DEF IndexerSpec, PauseKept
=============================================================================
