--------------------------- MODULE AssetDocuments ---------------------------
(***************************************************************************)
(* The two documents an attestation binds, the Asset Profile and the       *)
(* metadata of a record, as the server (assets) and the signer (profile,   *)
(* metadata) validate them.  The server decodes into Go structs, where     *)
(* null leaves the zero value and a member's name matches whatever its     *)
(* case; the signer reads the parsed tree.                                 *)
(***************************************************************************)
EXTENDS AssetSchema

CONSTANT Numerals    \* the number a decimal string or a timestamp stands for

Value(s) == Numerals[s.id]

TextOf(v) == IF v.t = "str" THEN v.s ELSE Text("", 0, 0, TRUE, {})

Exactly(forms, v) == v.t = "str" /\ forms \subseteq v.s.forms

FoldCase(k) == CASE k = "Label" -> "label" [] k = "Provider" -> "provider" [] OTHER -> k

(* What unmarshalStrict finds of a member of a struct.                     *)
Field(o, k) == LET at == {i \in DOMAIN o.m : FoldCase(o.m[i].k) = k} IN
               IF at = {} THEN Null ELSE o.m[CHOOSE i \in at : \A j \in at : j <= i].v

unmarshalStrict(v, fields) ==
    v.t = "null" \/ (v.t = "obj" /\ {FoldCase(k) : k \in Keys(v)} \subseteq fields)

profileRequired == {"profileVersion", "projectId", "assetType", "tokenUnit", "tokenDecimals",
                    "recordIdLabel", "assetSchema"}
profileAllowedTopLevelKeys == profileRequired \cup {"displayFields", "legal"}

metadataRequired == {"platformVersion", "projectId", "recordId", "asset", "issuance", "createdAt"}
metadataAllowedTopLevelKeys == metadataRequired \cup {"proofs"}

legalMembers == {"wrapper", "issuerLei", "holderRights", "redemptionTerms", "maturityDate",
                 "rating"}

MaxNames == [assetType |-> 128, tokenUnit |-> 64, recordIdLabel |-> 128]

-----------------------------------------------------------------------------
(* The server.                                                             *)

printableLen(s, max) == s.runes \in 1 .. max /\ s.printable

checkDocRef(o) ==
    LET uri == TextOf(Field(o, "uri")) IN
    /\ Field(o, "uri").t \in {"null", "str"} /\ Field(o, "sha256").t \in {"null", "str"}
    /\ printableLen(uri, 2048) /\ "uri" \in uri.forms
    /\ Exactly({"sha256"}, Field(o, "sha256"))

Optional(o, k, Holds(_)) == Field(o, k).t = "null" \/ Holds(Field(o, k))

parseLegal(v) ==
    /\ v.t = "obj" /\ unmarshalStrict(v, legalMembers)
    /\ Exactly({"wrapper"}, Field(v, "wrapper"))
    /\ Optional(v, "issuerLei", LAMBDA x : Exactly({"lei"}, x))
    /\ Optional(v, "holderRights", LAMBDA x : x.t = "str" /\ printableLen(x.s, 2048))
    /\ Optional(v, "redemptionTerms",
                LAMBDA x : unmarshalStrict(x, {"uri", "sha256"}) /\ checkDocRef(x))
    /\ Optional(v, "maturityDate", LAMBDA x : Exactly({"date"}, x))
    /\ Optional(v, "rating", LAMBDA x :
           /\ unmarshalStrict(x, {"provider", "grade", "uri", "sha256"})
           /\ Field(x, "provider").t = "str" /\ printableLen(Field(x, "provider").s, 128)
           /\ Optional(x, "grade", LAMBDA g : g.t = "str" /\ printableLen(g.s, 32))
           /\ checkDocRef(x))

displayFieldOK(v) ==
    /\ v.t = "obj" /\ unmarshalStrict(v, {"label", "pointer"})
    /\ Field(v, "label").t = "str" /\ Field(v, "label").s.runes > 0
    /\ Exactly({"pointer"}, Field(v, "pointer"))

(* ValidateProfile up to the guard of its assetSchema.                     *)
ProfileEnvelope(raw) ==
    /\ CheckLimits(raw)
    /\ Len(raw.values) = 1 /\ raw.values[1].t = "obj"
    /\ LET top == raw.values[1] IN
       /\ Keys(top) \subseteq profileAllowedTopLevelKeys
       /\ profileRequired \subseteq Keys(top)
       /\ Exactly({"1.0"}, Get(top, "profileVersion"))
       /\ Exactly({"uuid"}, Get(top, "projectId"))
       /\ \A k \in DOMAIN MaxNames :
              Get(top, k).t = "str" /\ Get(top, k).s.runes \in 1 .. MaxNames[k]
       /\ LET d == Get(top, "tokenDecimals") IN
          d.t = "null" \/ (d.t = "num" /\ d.h % 2 = 0 /\ d.h \in 0 .. 72)
       /\ Has(top, "displayFields") =>
              LET f == Get(top, "displayFields") IN
              f.t = "null" \/ (f.t = "arr" /\ \A i \in DOMAIN f.e : displayFieldOK(f.e[i]))
       /\ Has(top, "legal") => parseLegal(Get(top, "legal"))

ProofRecordOK(v) ==
    /\ v.t = "obj" /\ unmarshalStrict(v, {"type", "sha256", "uri"})
    /\ Field(v, "type").t = "str" /\ Field(v, "type").s.runes > 0
    /\ Exactly({"sha256"}, Field(v, "sha256"))
    /\ Field(v, "uri").t \in {"null", "str"}

(* ValidateRecord, against the schema of the project's profile.            *)
ValidateRecord(schema, raw, expectedAmount, expectedProjectID) ==
    /\ CheckLimits(raw)
    /\ Len(raw.values) = 1 /\ raw.values[1].t = "obj"
    /\ LET top == raw.values[1] IN
       /\ Keys(top) \subseteq metadataAllowedTopLevelKeys
       /\ metadataRequired \subseteq Keys(top)
       /\ Exactly({"1.0"}, Get(top, "platformVersion"))
       /\ Exactly({"uuid"}, Get(top, "projectId")) /\ Get(top, "projectId").s = expectedProjectID
       /\ Exactly({"recordId"}, Get(top, "recordId"))
       /\ Get(top, "asset").t \in {"obj", "null"} /\ Conforms(schema, schema, Get(top, "asset"))
       /\ LET issuance == Get(top, "issuance") IN
          /\ issuance.t = "obj" /\ unmarshalStrict(issuance, {"amount", "unit"})
          /\ Exactly({"decimal", "positive uint256"}, Field(issuance, "amount"))
          /\ Field(issuance, "amount").s = expectedAmount
          /\ Field(issuance, "unit").t = "str" /\ Field(issuance, "unit").s.runes > 0
       /\ Has(top, "proofs") =>
              LET p == Get(top, "proofs") IN
              p.t = "null" \/ (p.t = "arr" /\ \A i \in DOMAIN p.e : ProofRecordOK(p.e[i]))
       /\ Exactly({"RFC 3339"}, Get(top, "createdAt"))
    /\ CanCanonicalize(raw)

-----------------------------------------------------------------------------
(* The signer.                                                             *)

boundedString(o, k, max) ==
    Get(o, k).t = "str" /\ Get(o, k).s.runes \in 1 .. max /\ Get(o, k).s.printable

legalString(o, k, max, required) == IF Has(o, k) THEN boundedString(o, k, max) ELSE ~required

parseDocRef(o) ==
    /\ legalString(o, "uri", 2048, TRUE) /\ "uri" \in Get(o, "uri").s.forms
    /\ legalString(o, "sha256", 64, TRUE) /\ "sha256" \in Get(o, "sha256").s.forms

SignerLegal(v) ==
    /\ v.t = "obj" /\ Keys(v) \subseteq legalMembers
    /\ legalString(v, "wrapper", 32, TRUE) /\ "wrapper" \in Get(v, "wrapper").s.forms
    /\ Has(v, "issuerLei") => Exactly({"lei"}, Get(v, "issuerLei"))
    /\ legalString(v, "holderRights", 2048, FALSE)
    /\ Has(v, "redemptionTerms") =>
           LET ro == Get(v, "redemptionTerms") IN
           ro.t = "obj" /\ Keys(ro) \subseteq {"uri", "sha256"} /\ parseDocRef(ro)
    /\ Has(v, "maturityDate") => Exactly({"date"}, Get(v, "maturityDate"))
    /\ Has(v, "rating") =>
           LET ro == Get(v, "rating") IN
           /\ ro.t = "obj" /\ Keys(ro) \subseteq {"provider", "grade", "uri", "sha256"}
           /\ legalString(ro, "provider", 128, TRUE) /\ legalString(ro, "grade", 32, FALSE)
           /\ parseDocRef(ro)

SignerDisplayField(v) ==
    /\ v.t = "obj" /\ Keys(v) = {"label", "pointer"}
    /\ boundedString(v, "label", MaxStringLength)
    /\ Exactly({"pointer"}, Get(v, "pointer"))

(* profile.Validate.                                                       *)
SignerProfile(raw) ==
    /\ ParseWithLimits(raw)
    /\ LET top == raw.values[1] IN
       /\ top.t = "obj"
       /\ profileRequired \subseteq Keys(top) /\ Keys(top) \subseteq profileAllowedTopLevelKeys
       /\ Exactly({"1.0"}, Get(top, "profileVersion"))
       /\ Exactly({"uuid"}, Get(top, "projectId"))
       /\ \A k \in DOMAIN MaxNames : boundedString(top, k, MaxNames[k])
       /\ LET d == Get(top, "tokenDecimals") IN d.t = "num" /\ d.plain /\ d.h \in 0 .. 72
       /\ Has(top, "displayFields") =>
              LET f == Get(top, "displayFields") IN
              f.t = "arr" /\ \A i \in DOMAIN f.e : SignerDisplayField(f.e[i])
       /\ Has(top, "legal") => SignerLegal(Get(top, "legal"))
       /\ Get(top, "assetSchema").t = "obj" /\ Compile(Get(top, "assetSchema"))

(* metadata.Validate.                                                      *)
SignerMetadata(raw) ==
    /\ ParseWithLimits(raw)
    /\ LET top == raw.values[1] IN
       /\ top.t = "obj"
       /\ metadataRequired \subseteq Keys(top) /\ Keys(top) \subseteq metadataAllowedTopLevelKeys
       /\ Exactly({"1.0"}, Get(top, "platformVersion"))
       /\ Exactly({"uuid"}, Get(top, "projectId"))
       /\ Exactly({"recordId"}, Get(top, "recordId"))
       /\ Get(top, "asset").t = "obj"
       /\ LET issuance == Get(top, "issuance") IN
          /\ issuance.t = "obj" /\ Keys(issuance) = {"amount", "unit"}
          /\ Exactly({"decimal", "positive uint256"}, Get(issuance, "amount"))
          /\ boundedString(issuance, "unit", MaxStringLength)
       /\ Has(top, "proofs") =>
              LET p == Get(top, "proofs") IN
              /\ p.t = "arr"
              /\ \A i \in DOMAIN p.e :
                     /\ p.e[i].t = "obj" /\ Keys(p.e[i]) \subseteq {"type", "sha256", "uri"}
                     /\ {"type", "sha256"} \subseteq Keys(p.e[i])
                     /\ boundedString(p.e[i], "type", MaxStringLength)
                     /\ Exactly({"sha256"}, Get(p.e[i], "sha256"))
                     /\ Has(p.e[i], "uri") => Get(p.e[i], "uri").t = "str"
       /\ Exactly({"RFC 3339"}, Get(top, "createdAt"))
=============================================================================
