----------------------------- MODULE NonceLease -----------------------------
(***************************************************************************)
(* The distributed lease on one signer's nonce sequence                    *)
(* (server/internal/dal/mongodb/nonce_lease.go).  The lease document is    *)
(* never deleted, so its token only grows.  Time is not counted: an expiry *)
(* is a step of the environment (see LeaseExpires in TxManager).           *)
(***************************************************************************)
EXTENDS Naturals

CONSTANTS
  Servers,           \* the replicas that share the signer; holder ids
  NoServer,          \* the holder of a lease that was never taken
  MaxLeases          \* bound on the leases taken

ASSUME LeaseAssumption == NoServer \notin Servers /\ MaxLeases \in Nat

VARIABLE lease       \* the lease document; live while expiresAt is ahead

LeaseInit == lease = [holder |-> NoServer, token |-> 0, live |-> FALSE]

\* An absent or expired lease is taken under the next token.
acquire(s) ==
  /\ ~lease.live
  /\ lease.token < MaxLeases
  /\ lease' = [holder |-> s, token |-> lease.token + 1, live |-> TRUE]

\* Renewal asks for the holder and the token, not for the expiry.
holds(s, token) == lease.holder = s /\ lease.token = token

renew(s, token) ==
  /\ holds(s, token)
  /\ lease' = [lease EXCEPT !.live = TRUE]

\* Releasing expires the lease; a stale holder changes nothing.
released(s, token) ==
  IF holds(s, token) THEN [lease EXCEPT !.live = FALSE] ELSE lease

LeaseTypeOK ==
  lease \in [holder : Servers \cup {NoServer}, token : Nat, live : BOOLEAN]
=============================================================================
