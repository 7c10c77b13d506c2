------------------------------ MODULE MCParts ------------------------------
(***************************************************************************)
(* Project with behaviours that each keep to one part of it: the token,    *)
(* the supply or the income.                                               *)
(***************************************************************************)
EXTENDS MCProject

VARIABLE part

\* Only the decisions of a given set change the registry.
decides(updates) ==
  \A a \in Accounts :
    records'[a] # records[a] => update1(a, records'[a].status, records'[a].validUntil) \in updates

Keeps ==
  CASE part = "token"  -> /\ decides(ManyUpdates) /\ executed' \subseteq {FirstMint}
                          /\ now' <= 3
                          /\ UNCHANGED <<auditor, treasury, incomeVars>>
    [] part = "supply" -> /\ decides({update1(bob, "Allowed", 0)})
                          /\ now' <= 3
                          /\ UNCHANGED <<frozen, treasury, incomeVars>>
    [] part = "income" -> /\ decides(BothAllowed)
                          /\ UNCHANGED <<supplyVars, frozen>>

PartSpec ==
  /\ Init /\ part \in {"token", "supply", "income"}
  /\ [][Next /\ Keeps /\ UNCHANGED part]_<<vars, part>>
=============================================================================
