---------------------------- MODULE MCCompliance ----------------------------
EXTENDS Compliance

CONSTANTS alice, bob, none, r1, r2, run

Reviewed(id, w, at, answer, reject) ==
  [signed |-> TRUE, eventId |-> id, externalUserId |-> w, at |-> at,
   type |-> "applicantReviewed", answer |-> answer, reject |-> reject, mode |-> ""]

OnHold(id, w, at) ==
  [signed |-> TRUE, eventId |-> id, externalUserId |-> w, at |-> at,
   type |-> "applicantOnHold", answer |-> "", reject |-> "", mode |-> ""]

Workflow(id, action, status, at) ==
  [signed |-> TRUE, eventId |-> id, action |-> action, ref |-> run, status |-> status, at |-> at]

Generic(id, w, status, at) ==
  [signed |-> TRUE, eventId |-> id, address |-> w, status |-> status, at |-> at]

Quiet == [provider |-> "sumsub", deliveries |-> {}, verified |-> {alice, bob}, nonces |-> {}, applicants |-> {}, admin |-> {},
          multisig |-> {}, edits |-> {}, maxWallets |-> 0,
          handlers |-> 1, faults |-> 0, crashes |-> 0, consumed |-> 0]

\* An approval and a later rejection of one wallet, out of order.
Reversal == [Quiet EXCEPT !.deliveries =
  {Reviewed(1, alice, 1, "GREEN", ""), Reviewed(2, alice, 2, "RED", "FINAL")}]
ReversalRace == [Reversal EXCEPT !.handlers = 2]
ReversalCrash == [Reversal EXCEPT !.crashes = 1]
ReversalFault == [Reversal EXCEPT !.faults = 1]

\* An approval, and a hit that blocks the wallet again.
Monitored == [Quiet EXCEPT !.consumed = 1, !.deliveries = {Reviewed(1, alice, 1, "GREEN", ""), OnHold(2, alice, 2)}]

\* Two approvals, one by the administrator, for the last slot.
LastSlot == [Quiet EXCEPT !.maxWallets = 1, !.deliveries = {Reviewed(1, alice, 1, "GREEN", "")},
  !.faults = 1,
  !.admin = {[key |-> 100, address |-> bob, status |-> "Allowed"]}]

Listed == [Quiet EXCEPT !.applicants = {alice}, !.edits = {{alice}, {}}, !.faults = 1, !.deliveries = {Reviewed(1, alice, 1, "GREEN", "")}]

\* Onfido's decision arrives only for a wallet that proved its ownership and
\* started a workflow run; other deliveries are ignored.
Onfido == [Quiet EXCEPT !.provider = "onfido", !.verified = {}, !.nonces = {1}, !.applicants = Wallets,
  !.deliveries = {Workflow(1, "workflow_run.completed", "declined", 1),
                  Workflow(2, "workflow_run.completed", "approved", 0),
                  Workflow(3, "watchlist_monitor.matches_updated", "", 1)}]

Issuer == [Quiet EXCEPT !.provider = "generic",
  !.deliveries = {Generic(1, bob, "Allowed", 1), Generic(2, bob, "Pending", 1)},
  !.multisig = {[key |-> 200, address |-> bob, status |-> "Blocked"]}]

MCSetups == {ReversalRace, ReversalCrash, ReversalFault, Monitored, LastSlot, Listed, Onfido, Issuer}

=============================================================================
