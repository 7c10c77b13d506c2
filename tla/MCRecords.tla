----------------------------- MODULE MCRecords -----------------------------
(***************************************************************************)
(* Bounds for Records.  Burns and the upkeep of publications share only    *)
(* the publications' rows: one kind of behaviour burns, one reissues and   *)
(* reorganises a record's mint more often, and one publishes a record      *)
(* under two contents and loses copies.                                    *)
(***************************************************************************)
EXTENDS Records

CONSTANTS q1, q2, r1, b1, b2, k1, k2, c1, c2

MCScopes ==
    {[burns |-> {b1, b2}, executed |-> {r1, b1, b2}, contents |-> {c1}, upkeep |-> FALSE, events |-> 1],
     [burns |-> {}, executed |-> {r1}, contents |-> {c1}, upkeep |-> FALSE, events |-> 3],
     [burns |-> {}, executed |-> {}, contents |-> {c1, c2}, upkeep |-> TRUE, events |-> 3]}
=============================================================================
