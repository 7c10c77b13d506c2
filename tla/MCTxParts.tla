----------------------------- MODULE MCTxParts -----------------------------
(***************************************************************************)
(* TxManager with behaviours of two kinds: one server that signs more and  *)
(* meets reorganisations and uses of its key from outside, or two servers  *)
(* that share the key and a node that drops transactions.                  *)
(***************************************************************************)
EXTENDS TxManager, TLC

Symmetry == Permutations(Servers)

VARIABLE alone       \* the only server that acts, or NoServer for both

OthersRest == \A s \in Servers \ {alone} : call'[s] = call[s] /\ tick'[s] = tick[s]

Keeps ==
  IF alone # NoServer
  THEN OthersRest /\ mishaps'.evictions = 0 /\ mishaps'.reorgs + mishaps'.external <= 1
  ELSE /\ Len(signed') <= 2 /\ Len(txs') <= 2
       /\ mishaps'.reorgs = 0 /\ mishaps'.external = 0

PartSpec ==
  /\ Init /\ alone \in Servers \cup {NoServer}
  /\ [][Next /\ Keeps /\ UNCHANGED alone]_<<vars, alone>>
=============================================================================
