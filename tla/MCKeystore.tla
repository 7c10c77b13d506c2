----------------------------- MODULE MCKeystore -----------------------------
(* Two signer processes, one of the two passwords too short for a new key. *)
(* The ages are in units of a timeout.                                     *)
EXTENDS Keystore

Strong == [length |-> 12, distinct |-> 6, listed |-> FALSE]
Short == [length |-> 11, distinct |-> 6, listed |-> FALSE]
MCPasswords == {Strong, Short}

V3(kdf, params) ==
    [format |-> "v3", kdf |-> kdf, params |-> params, password |-> Strong, ownerOnly |-> TRUE, small |-> TRUE]

MCKeystores ==
    {<<>>, <<V3("scrypt", [n |-> 2^18, r |-> 8, p |-> 1])>>}
=============================================================================
