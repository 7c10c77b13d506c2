----------------------------- MODULE MCSigning -----------------------------
(***************************************************************************)
(* The documents of Signing on a small instance: profiles and records that *)
(* the server accepts and ones it must refuse, each wrong in one way, and  *)
(* the ways in which a package may arrive altered.                         *)
(***************************************************************************)
EXTENDS Signing, TLC

MCNumerals == [x \in {"7", "07", "3", "9", "0"} |->
                  CASE x = "7" -> 7 [] x = "07" -> 7 [] x = "3" -> 3 [] x = "9" -> 9 [] OTHER -> 0]
              @@ "t0" :> 0 @@ "t1" :> 1 @@ "t2" :> 2 @@ "t3" :> 3 @@ "t4" :> 4 @@ "t5" :> 5

MCPointers == "#" :> <<>> @@ "#/$defs/a" :> <<"$defs", "a">> @@ "#/$defs/b" :> <<"$defs", "b">>
              @@ "#/properties/name" :> <<"properties", "name">>

MCUnsafeNames == {"../up"}
MCBadPaths == {"with space"}

Amount(id) == Word(id, {"decimal"} \cup IF id = "0" THEN {} ELSE {"positive uint256"})
W(id) == Str(Word(id, {}))
F(id, form) == Str(Word(id, {form}))
Types1(t) == <<Member("type", W(t))>>
Sha == F("sha", "sha256")

-----------------------------------------------------------------------------
Name == Obj(Types1("string") \o <<Member("minLength", Num(2, TRUE)), Member("maxLength", Num(4, TRUE))>>)
Ref(p) == Obj(<<Member("$ref", W(p))>>)
Props(m) == Obj(Types1("object") \o <<Member("properties", Obj(m)),
                                      Member("required", Arr(<<W("name")>>)),
                                      Member("additionalProperties", Bool(FALSE))>>)

(* Schemas the guard and the library accept.                               *)
GoodSchemas ==
    {Props(<<Member("name", Name),
             Member("list", Obj(Types1("array") \o <<Member("items", Obj(Types1("integer"))),
                                                     Member("uniqueItems", Bool(TRUE)),
                                                     Member("maxItems", Num(4, TRUE))>>))>>),
     Obj(Props(<<Member("name", Ref("#/$defs/a"))>>).m \o
         <<Member("$defs", Obj(<<Member("a", Ref("#/$defs/b")), Member("b", Name)>>))>>)}

(* Schemas one or both must refuse: cycles, unknown keywords, unresolved   *)
(* references, references with siblings, malformed types.                  *)
BadSchemas ==
    {Props(<<Member("name", Ref("#"))>>),
     Props(<<Member("name", Obj(<<Member("properties", Obj(<<Member("x", Ref("#/properties/name"))>>))>>))>>),
     Obj(Types1("object") \o <<Member("$defs", Obj(<<Member("a", Ref("#/$defs/b")),
                                                     Member("b", Ref("#/$defs/a"))>>))>>),
     Obj(Types1("object") \o <<Member("items", Ref("#/$defs/a"))>>),
     Obj(Types1("object") \o <<Member("oneOf", Arr(<<>>))>>),
     Obj(<<Member("$ref", W("#/$defs/a")), Member("type", W("object")),
           Member("$defs", Obj(<<Member("a", Name)>>))>>),
     Obj(Types1("objects")),
     Obj(Types1("object") \o <<Member("required", Arr(<<W("name"), W("name")>>))>>),
     Obj(Types1("object") \o <<Member("minItems", Num(1, FALSE))>>)}

Envelope(schema) ==
    <<Member("profileVersion", F("1.0", "1.0")), Member("projectId", F("project", "uuid")),
      Member("assetType", W("gold")), Member("tokenUnit", W("gram")),
      Member("tokenDecimals", Num(36, TRUE)), Member("recordIdLabel", W("bar")),
      Member("assetSchema", schema)>>

Legal(wrapper) == Obj(<<Member("wrapper", F("spv", wrapper)), Member("issuerLei", F("lei", "lei")),
                        Member("rating", Obj(<<Member("provider", W("p")), Member("uri", F("u", "uri")),
                                               Member("sha256", Sha)>>))>>)

Doc(m) == Raw(<<Obj(m)>>, TRUE)

Plain == CHOOSE s \in GoodSchemas : "$defs" \notin Keys(s)

MCProfiles ==
    {Doc(Envelope(s)) : s \in (GoodSchemas \ {Plain}) \cup BadSchemas}
    \cup {Doc(Envelope(Plain) \o <<Member("legal", Legal("wrapper")), Member("displayFields",
                  Arr(<<Obj(<<Member("label", W("l")), Member("pointer", F("/name", "pointer"))>>)>>))>>),
          Doc(Envelope(Plain) \o <<Member("legal", Legal("none"))>>),
          Doc(Envelope(Plain) \o <<Member("extra", Null)>>),
          Doc(Tail(Envelope(Plain))),
          Doc(Envelope(Plain) \o <<Member("assetType", W("silver"))>>),
          Raw(<<Obj(Envelope(Plain)), Null>>, TRUE),
          Raw(<<Obj(Envelope(Plain))>>, FALSE)}

-----------------------------------------------------------------------------
Text2(n) == Str(Text("name", n, n, TRUE, {}))
Asset(m) == Obj(m)
MCRequests ==
    LET Req(id, asset, amount, proofs) == [recordId |-> Word(id, IF id = "bad id" THEN {} ELSE {"recordId"}),
                                           asset |-> asset, amount |-> Amount(amount), proofs |-> proofs]
        ok == Asset(<<Member("name", Text2(2))>>)
    IN {Req("bar-1", ok, "07", <<>>),
        Req("bar-2", Asset(<<Member("name", Text2(1)),
                             Member("list", Arr(<<Num(2, TRUE), Num(4, FALSE)>>))>>), "7",
            <<Obj(<<Member("type", W("assay")), Member("sha256", Sha)>>)>>),
        Req("bar-1", Asset(<<Member("name", Text2(3))>>), "7", <<>>),
        Req("bar-1", Asset(<<Member("name", Text2(2)), Member("name", Text2(1))>>), "7", <<>>),
        Req("bar-1", Asset(<<Member("name", Text2(2)),
                             Member("list", Arr(<<Num(2, TRUE), Num(2, FALSE)>>))>>), "7", <<>>),
        Req("bar-1", Asset(<<>>), "7", <<>>),
        Req("bad id", ok, "7", <<>>),
        Req("bar-1", ok, "0", <<>>),
        Req("bar-1", ok, "7", <<Obj(<<Member("type", W("assay"))>>)>>)}

MCBurnRequests == {[amount |-> Amount("3"), proofs |-> <<>>], [amount |-> Amount("9"), proofs |-> <<>>],
                   [amount |-> Amount("7"), proofs |-> <<Obj(<<Member("type", W("assay")),
                                                               Member("sha256", Sha)>>)>>]}

-----------------------------------------------------------------------------
(* Edits of a package.  Reseal writes the manifest anew, so that only the  *)
(* checks that relate the documents can tell.                              *)
At(p, name) == CHOOSE i \in DOMAIN p.entries : p.entries[i].name = name
Body(p, name, body) == [p EXCEPT !.entries[At(p, name)].body = body]
Reseal(p) == [p EXCEPT !.manifest[1].files =
                 [i \in DOMAIN p.manifest[1].files |->
                     ManifestFile(p.manifest[1].files[i].path, 1, FileOf(p, p.manifest[1].files[i].path).body)]]
Message(p, m) == Reseal(Body(p, "typed-data.json", [typed |-> [TypedData(p) EXCEPT !.message = m]]))

(* Other metadata, with its digest in the manifest and in the message.     *)
Metadata(p, doc) ==
    LET q == Message(Body(p, "metadata.json", [doc |-> doc]),
                     [TypedData(p).message EXCEPT !.metadataDigest = <<Marshal(doc.values[1])>>])
    IN [q EXCEPT !.manifest[1].metadataDigest = <<Marshal(doc.values[1])>>]

MCAltered(p) ==
    LET td   == TypedData(p)
        m    == td.message
        meta == FileOf(p, "metadata.json").body.doc.values[1]
        Set(k, v) == Raw(<<Replace(meta, k, v)>>, TRUE)
        one  == Head(p.entries)
    IN {Metadata(p, Set("issuance", Obj(<<Member("amount", Str(Amount("9"))), Member("unit", W("gram"))>>))),
        Metadata(p, Set("issuance", Obj(<<Member("amount", Str(Amount("7"))), Member("unit", W("kg"))>>))),
        Metadata(p, Set("asset", Obj(<<Member("name", Text2(3))>>))),
        Metadata(p, Set("recordId", F("bar-9", "recordId"))),
        Metadata(p, Set("createdAt", Timestamp(Horizon))),
        Metadata(p, Raw(<<Obj(meta.m \o <<Member("note", Null)>>)>>, TRUE)),
        Message(p, [m EXCEPT !.amount = 9]),
        Message(p, [m EXCEPT !.validUntil = @ + Horizon]),
        Message(p, [m EXCEPT !.auditor = "other"]),
        Message(p, [m EXCEPT !.recordKey = <<Word("bar-9", {"recordId"})>>]),
        Message(p, [m EXCEPT !.metadataDigest = <<>>]),
        Reseal(Body(p, "typed-data.json", [typed |-> [td EXCEPT !.domain.chainId = 2]])),
        Reseal(Body(p, "typed-data.json", [typed |-> [td EXCEPT !.domain.name = "Other"]])),
        Reseal(Body(p, "typed-data.json", [typed |-> [td EXCEPT !.primaryType = "BurnAttestation"]])),
        Body(p, "metadata.json", [doc |-> Set("recordId", F("bar-9", "recordId"))]),
        [p EXCEPT !.entries = Tail(@)],
        [p EXCEPT !.entries = Append(@, one)],
        [p EXCEPT !.entries = Append(@, [one EXCEPT !.name = "proofs/a"])],
        [p EXCEPT !.entries = Append(@, [one EXCEPT !.name = "../up"])],
        [p EXCEPT !.entries[2].kind = "symlink"],
        [p EXCEPT !.entries[2].kind = "device"],
        [p EXCEPT !.entries[2].method = "unknown"],
        [p EXCEPT !.entries[2].size = MaxSingleFileSize + 1,
                  !.manifest[1].files[1].size = MaxSingleFileSize + 1],
        [p EXCEPT !.manifest[1].files = Append(@, Head(@))],
        [p EXCEPT !.manifest[1].files = Tail(@)],
        [p EXCEPT !.manifest = <<>>]}

MCPolicyChoices ==
    {[lifetime |-> attestationValidUntilWindow, safe |-> <<>>],
     [lifetime |-> Horizon + attestationValidUntilWindow,
      safe |-> <<[owners |-> <<"o1", "o2", "o3">>, threshold |-> 2]>>]}
=============================================================================
