-------------------------------- MODULE JsonValue --------------------------------
(***************************************************************************)
(* JSON documents as the server (auditpkg) and the offline signer          *)
(* (canonical) read them.  The two programs share no code: the server      *)
(* walks the tokens with a stack of open containers, the signer descends   *)
(* recursively and builds the tree, and both must bound and canonicalise a *)
(* document in the same way.                                               *)
(*                                                                         *)
(* A text is its length in characters and in bytes, whether every          *)
(* character is printable, and the formats (patterns) it matches; a number *)
(* is its value in halves, and whether it is written as a plain integer.   *)
(* An object is the sequence of its members as written, repeated keys      *)
(* included.                                                               *)
(***************************************************************************)
EXTENDS Integers, Sequences, SequencesExt, FiniteSets

CONSTANTS
    MaxObjectDepth,     \* containers that may be open at once
    MaxStringLength,    \* bytes of a string or of a key
    MaxArrayLength,     \* elements of an array
    MaxObjectKeys,      \* members of an object
    SafeInteger         \* largest plain integer literal

Text(id, runes, bytes, printable, forms) ==
    [id |-> id, runes |-> runes, bytes |-> bytes, printable |-> printable, forms |-> forms]

Word(id, forms) == Text(id, 1, 1, TRUE, forms)

Null == [t |-> "null"]
Bool(b) == [t |-> "bool", b |-> b]
Num(halves, plain) == [t |-> "num", h |-> halves, plain |-> plain]
Str(s) == [t |-> "str", s |-> s]
Arr(e) == [t |-> "arr", e |-> e]
Obj(m) == [t |-> "obj", m |-> m]
Member(k, v) == [k |-> k, v |-> v]

(* A raw document: well formed JSON may be followed by further values.     *)
Raw(values, utf8) == [values |-> values, utf8 |-> utf8]

Keys(o) == {o.m[i].k : i \in DOMAIN o.m}

(* json.Unmarshal into a map: the last of two members of one name counts.  *)
Get(o, k) == o.m[CHOOSE i \in DOMAIN o.m :
                     o.m[i].k = k /\ \A j \in DOMAIN o.m : o.m[j].k = k => j <= i].v

KeyBytes(k) == IF k = "a long key" THEN MaxStringLength + 1 ELSE 1

RECURSIVE Tokens(_)
Tokens(v) ==
    CASE v.t = "arr" -> <<[t |-> "["]>> \o FlattenSeq([i \in DOMAIN v.e |-> Tokens(v.e[i])])
                                         \o <<[t |-> "close"]>>
      [] v.t = "obj" -> <<[t |-> "{"]>>
                        \o FlattenSeq([i \in DOMAIN v.m |->
                               <<Str(Text(v.m[i].k, 1, KeyBytes(v.m[i].k), TRUE, {}))>>
                               \o Tokens(v.m[i].v)])
                        \o <<[t |-> "close"]>>
      [] OTHER       -> <<v>>

-----------------------------------------------------------------------------
(* The server.                                                             *)

container(isObject) == [isObject |-> isObject, count |-> 0, awaitingValue |-> FALSE]

limitDecoder == [stack |-> <<>>, ok |-> TRUE]

(* A plain integer literal outside the range other languages hold exactly. *)
checkSafeInteger(n) == n.plain => n.h \in -2 * SafeInteger .. 2 * SafeInteger

(* A scalar or a closed container counts in the container that holds it,   *)
(* unless it is the key of a pair.                                         *)
recordElement(d, isLeaf) ==
    IF d.stack = <<>> THEN d
    ELSE LET top   == Last(d.stack)
             key   == top.isObject /\ isLeaf /\ ~top.awaitingValue
             count == top.count + IF key THEN 0 ELSE 1
         IN [stack |-> Front(d.stack) \o
                       <<[top EXCEPT !.count = count, !.awaitingValue = key]>>,
             ok |-> count <= IF top.isObject THEN MaxObjectKeys ELSE MaxArrayLength]

handle(d, tok) ==
    CASE ~d.ok -> d
      [] d.ok /\ tok.t \in {"{", "["} ->
             [stack |-> Append(d.stack, container(tok.t = "{")),
              ok |-> Len(d.stack) + 1 <= MaxObjectDepth]
      [] d.ok /\ tok.t = "close" -> recordElement([d EXCEPT !.stack = Front(@)], FALSE)
      [] d.ok /\ tok.t = "str" /\ tok.s.bytes > MaxStringLength -> [d EXCEPT !.ok = FALSE]
      [] d.ok /\ tok.t = "num" /\ ~checkSafeInteger(tok) -> [d EXCEPT !.ok = FALSE]
      [] OTHER -> recordElement(d, TRUE)

walk(raw) == FoldLeft(handle, limitDecoder,
                      FlattenSeq([i \in DOMAIN raw.values |-> Tokens(raw.values[i])])).ok

(* auditpkg.CheckLimits; the size in bytes of a whole document is left     *)
(* out, both programs compare it with the same bound.                      *)
CheckLimits(raw) == raw.values # <<>> /\ raw.utf8 /\ walk(raw)

-----------------------------------------------------------------------------
(* The signer.                                                             *)

RECURSIVE parseValue(_, _)
parseValue(v, depth) ==
    /\ depth <= MaxObjectDepth
    /\ CASE v.t = "num" -> checkSafeInteger(v)
         [] v.t = "str" -> v.s.bytes <= MaxStringLength
         [] v.t = "arr" -> /\ Len(v.e) <= MaxArrayLength
                           /\ \A i \in DOMAIN v.e : parseValue(v.e[i], depth + 1)
         [] v.t = "obj" -> /\ Len(v.m) <= MaxObjectKeys
                           /\ \A i, j \in DOMAIN v.m : v.m[i].k = v.m[j].k => i = j
                           /\ \A i \in DOMAIN v.m :
                                 /\ KeyBytes(v.m[i].k) <= MaxStringLength
                                 /\ parseValue(v.m[i].v, depth + 1)
         [] OTHER       -> TRUE

ParseWithLimits(raw) == Len(raw.values) = 1 /\ raw.utf8 /\ parseValue(raw.values[1], 0)

(* The canonical bytes: members in one order whatever the order they were  *)
(* written in, a number by its value and not by its literal.               *)
RECURSIVE Marshal(_)
Marshal(v) ==
    CASE v.t = "num" -> [num |-> v.h]
      [] v.t = "arr" -> [arr |-> [i \in DOMAIN v.e |-> Marshal(v.e[i])]]
      [] v.t = "obj" -> [obj |-> {<<v.m[i].k, Marshal(v.m[i].v)>> : i \in DOMAIN v.m}]
      [] OTHER       -> [scalar |-> v]

(* The value the canonical bytes parse to.                                 *)
RECURSIVE Canonical(_)
Canonical(v) ==
    CASE v.t = "num" -> Num(v.h, v.h % 2 = 0)
      [] v.t = "arr" -> Arr([i \in DOMAIN v.e |-> Canonical(v.e[i])])
      [] v.t = "obj" -> Obj([i \in DOMAIN v.m |-> Member(v.m[i].k, Canonical(v.m[i].v))])
      [] OTHER       -> v

(* jcs.Transform, the library the server canonicalises with: RFC 8785 over *)
(* one value, refusing repeated keys.                                      *)
RECURSIVE Unrepeated(_)
Unrepeated(v) ==
    CASE v.t = "arr" -> \A i \in DOMAIN v.e : Unrepeated(v.e[i])
      [] v.t = "obj" -> /\ Cardinality(Keys(v)) = Len(v.m)
                        /\ \A i \in DOMAIN v.m : Unrepeated(v.m[i].v)
      [] OTHER       -> TRUE

(* auditpkg.CanonicalizeAndDigest: the digest and the CID are the bytes'.  *)
CanCanonicalize(raw) == CheckLimits(raw) /\ Len(raw.values) = 1 /\ Unrepeated(raw.values[1])
=============================================================================
