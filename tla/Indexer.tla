------------------------------ MODULE Indexer ------------------------------
(***************************************************************************)
(* The event indexer: replicas poll the chain in bounded chunks, store its *)
(* logs, checkpoint their progress under a version, and roll back when the *)
(* chain reorganises.  The operator's tools that write the same            *)
(* collections (checkpoint reset, dead-letter retry, reindex) are here too.*)
(*                                                                         *)
(* The chain is the sequence of its blocks' contents, at most one log in a *)
(* block; the hash of block n is the chain up to n, as a hash commits to   *)
(* every ancestor.  A log is identified by its transaction, whatever block *)
(* it ends up in.                                                          *)
(***************************************************************************)
EXTENDS Naturals, Sequences, FiniteSets, FiniteSetsExt, SequencesExt

CONSTANTS
    Replicas,           \* platform servers polling the same chain
    Logs,               \* the logs the watched contracts may emit
    Undecodable,        \* those the decoder may fail on
    Empty,              \* a block without a log of the watched contracts
    StartBlock,         \* the trusted deployment baseline
    MaxLogRange, MaxHistory, MaxAutoReorgDepth, MaxRangeRetries,
    MaxHeight,          \* bound: blocks of a chain
    MaxReorgs,          \* bound: reorganisations
    MaxInterventions,   \* bound: runs of the operator's tools
    MaxAborts,          \* bound: polls cut short by an error or a crash
    Quiet               \* TRUE: the chain reorganises and the tools run only between polls

ASSUME IndexerAssumption ==
    /\ Undecodable \subseteq Logs /\ Empty \notin Logs
    /\ StartBlock \in Nat \ {0} /\ MaxLogRange \in Nat
    /\ MaxHistory \in Nat \ {0} /\ MaxAutoReorgDepth \in Nat
    /\ MaxRangeRetries \in Nat \ {0}
    /\ MaxHeight \in Nat /\ StartBlock <= MaxHeight
    /\ MaxReorgs \in Nat /\ MaxInterventions \in Nat /\ MaxAborts \in Nat
    /\ Quiet \in BOOLEAN

VARIABLES
    chain,          \* the node's canonical chain
    events,         \* chain_events: [log, number, hash]
    checkpoint,     \* the shared checkpoint, or NoCheckpoint
    history,        \* indexer_block_hashes: block number -> hash, partial
    deadLetters,    \* indexer_dead_letters: log -> entry, partial
    poll,           \* each replica's Poll in progress
    reindexing,     \* steps the reindex tool has left
    dismissed,      \* logs an operator dismissed without ingesting them
    reorgs, interventions, aborts

stores == <<events, checkpoint, history, deadLetters>>
budgets == <<reorgs, interventions, aborts>>
indexerVars == <<chain, stores, poll, reindexing, dismissed, budgets>>

-----------------------------------------------------------------------------
(* The chain source. *)

Hash == Seq({Empty} \cup Logs)
BlockNumber == Len(chain)
HashAt(n) == SubSeq(chain, 1, n)
Blocks(c) == {c[n] : n \in DOMAIN c}

\* A chain includes a transaction at most once.
Contents(c) == {Empty} \cup (Logs \ Blocks(c))

\* FilterLogs: the canonical logs of a range.
LogAt(n) == [log |-> chain[n], number |-> n, hash |-> HashAt(n)]
FilterLogs(from, to) == {LogAt(n) : n \in {m \in from..to : m <= BlockNumber /\ chain[m] \in Logs}}

-----------------------------------------------------------------------------
(* The repositories. *)

NoCheckpoint == [lastBlock |-> 0, hash |-> <<>>, flagged |-> FALSE, version |-> 0, stored |-> FALSE]

Checkpoint(block, hash, version) ==
    [lastBlock |-> block, hash |-> hash, flagged |-> FALSE, version |-> version, stored |-> TRUE]

\* An absent checkpoint counts as version 0.
storedCheckpointVersion == checkpoint.version

\* A flagged checkpoint pauses the polls and the tools that depend on them.
PausedNever == FALSE
Paused == checkpoint.flagged

Exists(log) == \E e \in events : e.log = log

\* Rows whose key is stored already are skipped.
Inserted(new) == events \cup {e \in new : ~Exists(e.log)}

\* A repeated failure reopens the entry.
deadLetterRecordUpdate(log) == [source |-> log, resolved |-> FALSE]

Record(failed) ==
    [l \in DOMAIN deadLetters \cup {f.log : f \in failed} |->
        IF \E f \in failed : f.log = l
        THEN deadLetterRecordUpdate(CHOOSE f \in failed : f.log = l)
        ELSE deadLetters[l]]

Resolve(log) == deadLetters' = [deadLetters EXCEPT ![log].resolved = TRUE]

\* Mutant: the chunk is written whatever the stored version.
CommitChunkUnversioned(new, hashes, pruneBefore, to, toHash, expected) ==
    /\ events' = Inserted(new)
    /\ history' = [n \in DOMAIN history \cup DOMAIN hashes |->
                     IF n \in DOMAIN hashes THEN hashes[n] ELSE history[n]]
    /\ checkpoint' = Checkpoint(to, toHash, expected + 1)

\* A chunk: its rows, its hashes, the pruning and the checkpoint, unless the
\* version moved.
CommitChunk(new, hashes, pruneBefore, to, toHash, expected) ==
    /\ storedCheckpointVersion = expected
    /\ events' = Inserted(new)
    /\ LET kept == {n \in DOMAIN history \cup DOMAIN hashes : n >= pruneBefore}
       IN history' = [n \in kept |-> IF n \in DOMAIN hashes THEN hashes[n] ELSE history[n]]
    /\ checkpoint' = Checkpoint(to, toHash, expected + 1)

DeleteFromBlock(n) == events' = {e \in events : e.number < n}

\* The deletion and the new checkpoint in one transaction, unless the version moved.
RewindChunk(deleteFrom, block, hash, expected) ==
    /\ storedCheckpointVersion = expected
    /\ DeleteFromBlock(deleteFrom)
    /\ checkpoint' = Checkpoint(block, hash, expected + 1)

-----------------------------------------------------------------------------
(* Poll.  A replica's record holds what its call has read so far. *)

Idle == [pc |-> "idle", cp |-> NoCheckpoint, head |-> 0, from |-> 0, to |-> 0,
         hash |-> <<>>, logs |-> {}, new |-> {}, hashes |-> <<>>, attempt |-> 0]

IndexerInit ==
    /\ chain \in {<<c>> : c \in {Empty} \cup Logs}
    /\ events = {} /\ checkpoint = NoCheckpoint
    /\ history = <<>> /\ deadLetters = <<>>
    /\ poll = [r \in Replicas |-> Idle]
    /\ reindexing = 0 /\ dismissed = {}
    /\ reorgs = 0 /\ interventions = 0 /\ aborts = 0

\* An absent checkpoint stands for the start block, without a hash.
loadCheckpoint == IF checkpoint.stored THEN checkpoint
                  ELSE [NoCheckpoint EXCEPT !.lastBlock = StartBlock]

\* The checkpoint is not on the canonical chain any more.
Diverged(cp) == /\ cp.stored /\ cp.lastBlock > 0 /\ cp.hash # <<>>
                /\ BlockNumber < cp.lastBlock \/ HashAt(cp.lastBlock) # cp.hash

\* The bounded chunk a poll that has seen block head scans from block from, if any.
NextChunkShort(cp, from, head) ==
    IF from >= head THEN Idle
    ELSE [Idle EXCEPT !.pc = "boundary", !.cp = cp, !.head = head, !.from = from, !.attempt = 1,
                      !.to = IF MaxLogRange > 0 THEN Min({head, from + MaxLogRange - 1}) ELSE head]
NextChunk(cp, from, head) ==
    IF from > head THEN Idle
    ELSE [Idle EXCEPT !.pc = "boundary", !.cp = cp, !.head = head, !.from = from, !.attempt = 1,
                      !.to = IF MaxLogRange > 0 THEN Min({head, from + MaxLogRange - 1}) ELSE head]

ScanFrom(cp, head) ==
    IF cp.stored THEN NextChunk(cp, cp.lastBlock + 1, head)
    ELSE NextChunk(cp, Min({StartBlock, head}), head)

\* A flagged checkpoint ends the poll before any chain read.
Poll(r) ==
    /\ poll[r].pc = "idle"
    /\ Quiet => reindexing = 0
    /\ ~Paused
    /\ LET cp == loadCheckpoint
       IN poll' = [poll EXCEPT ![r] =
              IF Diverged(cp)
              THEN [Idle EXCEPT !.pc = "rollback", !.cp = cp, !.head = BlockNumber,
                                !.to = Min({BlockNumber, cp.lastBlock})]
              ELSE ScanFrom(cp, BlockNumber)]
    /\ UNCHANGED <<chain, stores, reindexing, dismissed, budgets>>

DepthFloor(cp) == IF cp.lastBlock > MaxAutoReorgDepth THEN cp.lastBlock - MaxAutoReorgDepth ELSE 0

\* The highest block whose retained hash is canonical, down to the policy
\* floor; failing that the trusted start, unless the depth floor lies above it.
Candidates(cp, searchFrom) ==
    {n \in (Max({DepthFloor(cp), StartBlock}) + 1)..searchFrom :
        n \in DOMAIN history /\ n <= BlockNumber /\ history[n] = HashAt(n)}

NeedsReconciliation(cp, searchFrom) ==
    Candidates(cp, searchFrom) = {} /\ StartBlock < DepthFloor(cp)

findCommonAncestor(cp, searchFrom) ==
    IF Candidates(cp, searchFrom) # {} THEN Max(Candidates(cp, searchFrom))
    ELSE Min({StartBlock, searchFrom})

\* The search of a rollback; searchFrom is the replica's to.
Rollback(r) ==
    /\ poll[r].pc = "rollback"
    /\ LET p == poll[r]
           ancestor == findCommonAncestor(p.cp, p.to)
       IN poll' = [poll EXCEPT ![r] =
            IF NeedsReconciliation(p.cp, p.to) THEN [p EXCEPT !.pc = "flag"]
            ELSE IF ancestor > BlockNumber THEN Idle
            ELSE [p EXCEPT !.pc = "rewind", !.to = ancestor, !.hash = HashAt(ancestor)]]
    /\ UNCHANGED <<chain, stores, reindexing, dismissed, budgets>>

\* The flag is a plain Set of the checkpoint as this poll loaded it.
Flag(r) ==
    /\ poll[r].pc = "flag"
    /\ checkpoint' = [poll[r].cp EXCEPT !.flagged = TRUE]
    /\ poll' = [poll EXCEPT ![r] = Idle]
    /\ UNCHANGED <<chain, events, history, deadLetters, reindexing, dismissed, budgets>>

\* The rewind of a rollback; a lost race ends the poll.
Rewind(r) ==
    /\ poll[r].pc = "rewind"
    /\ LET p == poll[r]
       IN \/ /\ RewindChunk(p.to + 1, p.to, p.hash, p.cp.version)
             /\ poll' = [poll EXCEPT ![r] = ScanFrom(checkpoint', p.head)]
          \/ /\ storedCheckpointVersion # p.cp.version
             /\ poll' = [poll EXCEPT ![r] = Idle]
             /\ UNCHANGED <<events, checkpoint>>
    /\ UNCHANGED <<chain, history, deadLetters, reindexing, dismissed, budgets>>

\* The boundary header before the scan.
Boundary(r) ==
    /\ poll[r].pc = "boundary"
    /\ poll' = [poll EXCEPT ![r] =
          IF poll[r].to > BlockNumber THEN Idle
          ELSE [@ EXCEPT !.pc = "scan", !.hash = HashAt(poll[r].to)]]
    /\ UNCHANGED <<chain, stores, reindexing, dismissed, budgets>>

\* The upper bounds scanChunk may end at when the provider refuses or times out.
Halved(from, to) == IF to > from THEN {from + ((to - from + 1) \div 2) - 1} ELSE {}
ShrunkTo(from, to) == {to} \cup Halved(from, to) \cup UNION {Halved(from, h) : h \in Halved(from, to)}

\* A shrunk range gives up the boundary comparison: its hash is <<>>.
scanChunk(r) ==
    /\ poll[r].pc = "scan"
    /\ LET p == poll[r]
       IN \E actualTo \in ShrunkTo(p.from, p.to) :
            poll' = [poll EXCEPT ![r] =
               [p EXCEPT !.pc = "validate", !.logs = FilterLogs(p.from, actualTo), !.to = actualTo,
                         !.hash = IF actualTo = p.to THEN p.hash ELSE <<>>]]
    /\ UNCHANGED <<chain, stores, reindexing, dismissed, budgets>>

\* The boundary is unchanged, and every log's block is canonical.
Coherent(p) ==
    /\ p.hash \in {<<>>, HashAt(p.to)}
    /\ \A l \in p.logs : l.number <= BlockNumber /\ l.hash = HashAt(l.number)

\* The recheck after the scan.  An incoherent chunk is scanned again, at
\* most MaxRangeRetries times.
Validate(r) ==
    /\ poll[r].pc = "validate"
    /\ LET p == poll[r]
       IN poll' = [poll EXCEPT ![r] =
            IF p.to > BlockNumber THEN Idle
            ELSE IF Coherent(p) THEN [p EXCEPT !.pc = "prepare", !.hash = HashAt(p.to)]
            ELSE IF p.attempt < MaxRangeRetries
                 THEN [NextChunk(p.cp, p.from, p.head) EXCEPT !.attempt = p.attempt + 1]
            ELSE Idle]
    /\ UNCHANGED <<chain, stores, reindexing, dismissed, budgets>>

\* The hashes kept for the chunk: those of the validated headers, the rest
\* fetched only now.
RecordFrom(p) == Max({p.from, IF p.head > MaxHistory THEN p.head - MaxHistory ELSE 0})
HashesOf(p) ==
    [n \in RecordFrom(p)..p.to |->
        IF n = p.to THEN p.hash
        ELSE IF \E l \in p.logs : l.number = n THEN (CHOOSE l \in p.logs : l.number = n).hash
        ELSE HashAt(n)]

\* Rows for the logs that are not stored; a decode failure becomes a dead
\* letter, written outside the chunk's transaction.
prepareChunkEvents(r) ==
    /\ poll[r].pc = "prepare"
    /\ LET p == poll[r]
           new == {l \in p.logs : ~Exists(l.log)}
       IN \E failed \in SUBSET {l \in new : l.log \in Undecodable} :
            /\ deadLetters' = Record(failed)
            /\ poll' = [poll EXCEPT ![r] =
                  IF p.to > BlockNumber THEN Idle
                  ELSE [p EXCEPT !.pc = "commit", !.new = new \ failed, !.hashes = HashesOf(p)]]
    /\ UNCHANGED <<chain, events, checkpoint, history, reindexing, dismissed, budgets>>

\* The chunk is committed under the version the poll has read, or given up.
commitChunk(r) ==
    /\ poll[r].pc = "commit"
    /\ LET p == poll[r]
       IN \/ /\ CommitChunk(p.new, p.hashes, IF p.head > MaxHistory THEN p.head - MaxHistory ELSE 0,
                            p.to, p.hash, p.cp.version)
             /\ poll' = [poll EXCEPT ![r] = NextChunk(checkpoint', p.to + 1, p.head)]
          \/ /\ storedCheckpointVersion # p.cp.version
             /\ poll' = [poll EXCEPT ![r] = Idle]
             /\ UNCHANGED <<events, checkpoint, history>>
    /\ UNCHANGED <<chain, deadLetters, reindexing, dismissed, budgets>>

\* An RPC or database error, or a crash, ends a poll anywhere.
PollAborted(r) ==
    /\ poll[r].pc # "idle"
    /\ aborts < MaxAborts
    /\ aborts' = aborts + 1
    /\ poll' = [poll EXCEPT ![r] = Idle]
    /\ UNCHANGED <<chain, stores, reindexing, dismissed, reorgs, interventions>>

-----------------------------------------------------------------------------
(* The operator's tools. *)

Undisturbed == Quiet => (reindexing = 0 /\ \A r \in Replicas : poll[r].pc = "idle")

Intervene == /\ interventions < MaxInterventions
             /\ interventions' = interventions + 1

\* Blocks an operator can vouch for: the stored history up to them is canonical.
Trusted == {n \in 0..Min({BlockNumber, checkpoint.lastBlock}) :
                SubSeq(checkpoint.hash, 1, n) = HashAt(n)}

\* opsctl's indexer has no chunk committer: it deletes and then stores a
\* checkpoint whose version is 0.  Block 0 gets no hash.
ResetToTrustedCheckpoint ==
    /\ Undisturbed
    /\ Intervene
    /\ \E n \in Trusted :
         /\ DeleteFromBlock(n + 1)
         /\ checkpoint' = Checkpoint(n, HashAt(n), 0)
    /\ UNCHANGED <<chain, history, deadLetters, poll, reindexing, dismissed, reorgs, aborts>>

\* The retained log is ingested if its block is canonical and it decodes,
\* dismissed if its block is not; refused while the indexer is paused.
\* Operators retry when the indexer has caught up with the chain.
RetryDeadLetter(log) ==
    /\ Undisturbed /\ (Quiet => checkpoint.hash = chain)
    /\ log \in DOMAIN deadLetters /\ ~Paused
    /\ Intervene
    /\ LET source == deadLetters[log].source
       IN /\ source.number <= BlockNumber
          /\ \/ /\ source.hash # HashAt(source.number)
                /\ Resolve(log)
                /\ UNCHANGED events
             \/ /\ source.hash = HashAt(source.number)
                /\ events' = Inserted({source})
                /\ Resolve(log)
             \/ /\ source.hash = HashAt(source.number)
                /\ deadLetters' = Record({source})
                /\ UNCHANGED events
    /\ UNCHANGED <<chain, checkpoint, history, poll, reindexing, dismissed, reorgs, aborts>>

DismissDeadLetter(log) ==
    /\ log \in DOMAIN deadLetters
    /\ Intervene
    /\ Resolve(log)
    /\ dismissed' = dismissed \cup {log}
    /\ UNCHANGED <<chain, events, checkpoint, history, poll, reindexing, reorgs, aborts>>

\* The reindex tool deletes the events, then the checkpoint, then the hashes.
ReindexEvents ==
    /\ Undisturbed /\ reindexing = 0
    /\ Intervene
    /\ DeleteFromBlock(0)
    /\ reindexing' = 2
    /\ UNCHANGED <<chain, checkpoint, history, deadLetters, poll, dismissed, reorgs, aborts>>

ReindexRest ==
    /\ reindexing > 0
    /\ reindexing' = reindexing - 1
    /\ IF reindexing = 2 THEN checkpoint' = NoCheckpoint /\ UNCHANGED history
       ELSE history' = <<>> /\ UNCHANGED checkpoint
    /\ UNCHANGED <<chain, events, deadLetters, poll, dismissed, budgets>>

-----------------------------------------------------------------------------
(* The chain. *)

Extend ==
    /\ BlockNumber < MaxHeight
    /\ \E c \in Contents(chain) : chain' = Append(chain, c)
    /\ UNCHANGED <<stores, poll, reindexing, dismissed, budgets>>

\* The node switches to another fork above the trusted start block; its
\* head may be lower.
Reorganise ==
    /\ Undisturbed
    /\ reorgs < MaxReorgs
    /\ reorgs' = reorgs + 1
    /\ \E n \in StartBlock..(BlockNumber - 1) :
         \/ chain' = HashAt(n)
         \/ \E c \in Contents(HashAt(n)) : c # chain[n + 1] /\ chain' = Append(HashAt(n), c)
    /\ UNCHANGED <<stores, poll, reindexing, dismissed, interventions, aborts>>

PollStep(r) == \/ Poll(r) \/ Rollback(r) \/ Flag(r) \/ Rewind(r) \/ Boundary(r) \/ scanChunk(r)
               \/ Validate(r) \/ prepareChunkEvents(r) \/ commitChunk(r)

IndexerNext ==
    \/ \E r \in Replicas : PollStep(r) \/ PollAborted(r)
    \/ ResetToTrustedCheckpoint
    \/ \E l \in Logs : RetryDeadLetter(l) \/ DismissDeadLetter(l)
    \/ ReindexEvents \/ ReindexRest
    \/ Extend \/ Reorganise

\* Every server polls on a ticker, and a reindex that has begun completes.
IndexerFairness == /\ \A r \in Replicas : WF_indexerVars(PollStep(r))
                   /\ WF_indexerVars(ReindexRest)

IndexerSpec == IndexerInit /\ [][IndexerNext]_indexerVars /\ IndexerFairness

-----------------------------------------------------------------------------
\* The checkpoint is on the canonical chain and no tool is half way.
Settled == /\ checkpoint.stored /\ ~checkpoint.flagged /\ reindexing = 0
           /\ checkpoint.hash # <<>> /\ checkpoint.lastBlock <= BlockNumber
           /\ checkpoint.hash = HashAt(checkpoint.lastBlock)

\* Whenever the checkpoint agrees with the chain, no stored event up to it
\* comes from an abandoned fork.
NoStaleEvents ==
    Settled => \A e \in events : e.number <= checkpoint.lastBlock => e = LogAt(e.number)

\* Whenever the checkpoint agrees with the chain, the stored events are the
\* canonical chain's logs up to it: none from an abandoned fork, none above
\* the checkpoint, and none missing except those whose dead letter is open or
\* was dismissed.
EventsCanonical ==
    /\ NoStaleEvents
    /\ Settled =>
        /\ \A e \in events : e.number <= checkpoint.lastBlock
        /\ \A l \in FilterLogs(StartBlock, checkpoint.lastBlock) :
              \/ l \in events
              \/ l.log \in dismissed
              \/ l.log \in DOMAIN deadLetters /\ ~deadLetters[l.log].resolved

\* A pause is lifted only by the operator: no poll of any replica clears the
\* flag once it is set.
PauseKept == [][checkpoint.flagged /\ ~checkpoint'.flagged
                  => interventions' > interventions \/ reindexing > 0]_indexerVars

\* With servers that keep polling, the index catches up with the chain or is
\* paused for the operator.
Synced == <>[](checkpoint.flagged \/ checkpoint.hash = chain)
=============================================================================
