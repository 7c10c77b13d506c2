------------------------------ MODULE EvmNode ------------------------------
(***************************************************************************)
(* The EVM network as blockchain.Client shows it to the server, for the    *)
(* transactions of one signer: an account nonce, the transactions that     *)
(* wait to be mined anywhere in the network, and those that were mined.    *)
(* A transaction is named by its hash, which is its position in signed.    *)
(***************************************************************************)
EXTENDS Naturals, Sequences, FiniteSets, SequencesExt

CONSTANTS
  External,          \* a mined transaction of the key that the server did not sign
  MaxSigned,         \* bound on the transactions that are signed
  MaxReorgs,         \* bound on the blocks that are reorganised away
  MaxEvictions,      \* bound on the transactions nodes drop from their pools
  MaxExternal        \* bound on the uses of the key outside the server

ASSUME NodeAssumption == External \notin Nat /\ MaxSigned \in Nat

VARIABLES
  signed,            \* the transactions signed so far, with key and nonce
  mempool,           \* the hashes that wait to be mined
  chain,             \* the hash mined under each nonce, in order
  mishaps            \* counts reorgs, evictions and external uses

nodeVars == <<signed, mempool, chain, mishaps>>

NodeInit ==
  /\ signed = <<>>
  /\ mempool = {}
  /\ chain = <<>>
  /\ mishaps = [reorgs |-> 0, evictions |-> 0, external |-> 0]

nonceAt == Len(chain)

isMined(hash) == \E i \in DOMAIN chain : chain[i] = hash

\* The first nonce that neither the chain nor the pool uses.
pendingNonceAt ==
  CHOOSE n \in nonceAt..(nonceAt + MaxSigned) :
    /\ \A h \in mempool : signed[h].nonce # n
    /\ \A m \in nonceAt..(n - 1) : \E h \in mempool : signed[h].nonce = m

\* What SendTransaction may answer.  A node refuses a transaction it knows, or
\* whose nonce is used up, and may refuse any other one (underpriced, pool
\* full, no funds); an answer may be lost whether or not it was a yes.
acceptable(hash) == hash \notin mempool /\ signed[hash].nonce >= nonceAt

sendTransaction(hash, answer) ==
  \/ /\ answer \in {"accepted", "lost"}
     /\ acceptable(hash)
     /\ mempool' = mempool \cup {hash}
  \/ /\ answer \in {"rejected", "lost"}
     /\ UNCHANGED mempool

mine(hash) ==
  /\ hash \in mempool
  /\ signed[hash].nonce = nonceAt
  /\ chain' = Append(chain, hash)
  /\ mempool' = {h \in mempool : signed[h].nonce # nonceAt}
  /\ UNCHANGED <<signed, mishaps>>

\* Somebody else uses the key, or a transaction the server knows nothing of.
useExternally ==
  /\ mishaps.external < MaxExternal
  /\ chain' = Append(chain, External)
  /\ mempool' = {h \in mempool : signed[h].nonce # nonceAt}
  /\ mishaps' = [mishaps EXCEPT !.external = @ + 1]
  /\ UNCHANGED signed

\* The last block disappears; its transaction returns to the pool or is lost.
reorg(kept) ==
  /\ mishaps.reorgs < MaxReorgs
  /\ chain # <<>>
  /\ chain' = Front(chain)
  /\ mempool' = mempool \cup (IF kept /\ Last(chain) # External THEN {Last(chain)} ELSE {})
  /\ mishaps' = [mishaps EXCEPT !.reorgs = @ + 1]
  /\ UNCHANGED signed

evict(hash) ==
  /\ mishaps.evictions < MaxEvictions
  /\ hash \in mempool
  /\ mempool' = mempool \ {hash}
  /\ mishaps' = [mishaps EXCEPT !.evictions = @ + 1]
  /\ UNCHANGED <<signed, chain>>

NodeNext ==
  \/ \E h \in mempool : mine(h)
  \/ useExternally
  \/ \E kept \in BOOLEAN : reorg(kept)
  \/ \E h \in mempool : evict(h)
=============================================================================
