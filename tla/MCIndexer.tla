----------------------------- MODULE MCIndexer -----------------------------
(***************************************************************************)
(* The indexer with behaviours of two kinds: one replica that meets deeper *)
(* reorganisations and failed polls on a chain with one log, or two        *)
(* replicas that race on a shorter chain with two.                         *)
(***************************************************************************)
EXTENDS Indexer

CONSTANTS Alone, OnlyLog

VARIABLE polling     \* the replicas that poll: {Alone} or both

partVars == <<indexerVars, polling>>

Keeps ==
    IF polling = {Alone}
    THEN /\ \A r \in Replicas \ polling : poll'[r] = poll[r]
         /\ Blocks(chain') \subseteq {Empty, OnlyLog}
    ELSE BlockNumber' < MaxHeight /\ reorgs' <= 1 /\ interventions' = 0 /\ aborts' = 0

PartInit ==
    /\ IndexerInit
    /\ Blocks(chain) \subseteq {Empty, OnlyLog}
    /\ polling \in {{Alone}, Replicas}

PartSpec ==
    /\ PartInit
    /\ [][IndexerNext /\ Keeps /\ UNCHANGED polling]_partVars
    /\ \A r \in Replicas : WF_partVars(r \in polling /\ PollStep(r) /\ UNCHANGED polling)
    /\ WF_partVars(ReindexRest /\ UNCHANGED polling)
=============================================================================
