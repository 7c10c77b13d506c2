------------------------------ MODULE Signing ------------------------------
(***************************************************************************)
(* One attestation from end to end: an operator creates the project's      *)
(* profile and a record on the server (api/assets.go, assets), downloads   *)
(* the package, and the auditor's key, or the owners of the auditor's      *)
(* Safe, review and sign it offline.  The package crosses between the two  *)
(* machines by hand: what arrives may be an older package, or one that     *)
(* was damaged or edited on the way.                                       *)
(*                                                                         *)
(* The guard of the asset schema runs step by step, a step for each call   *)
(* of walkSchema.  Time is a counter of the unit in which windows count.   *)
(***************************************************************************)
EXTENDS AuditPackage

CONSTANTS
    Profiles,                      \* profiles an operator may submit
    Requests,                      \* records an operator may ask for
    BurnRequests,                  \* burns of a minted record
    PolicyChoices,                 \* the auditor's lifetime and Safe
    Altered(_),                    \* what may arrive instead of a package
    Signers,                       \* keys that are used to sign
    attestationValidUntilWindow,   \* how long an attestation is valid
    Horizon,                       \* last moment of a behaviour
    MaxReissues,                   \* reissues of the record
    MaxSignatures                  \* signatures made

VARIABLES
    clock,
    proposal,    \* the profile under validation: its text, stage and the guard's walks
    policy,      \* the auditor's policy file, provisioned for the deployed profile
    record,      \* the asset record, when there is one
    burn,        \* a burn of it, when there is one
    pkg,         \* the package the auditor holds, when there is one
    signed,      \* what keys have signed, with what was reviewed
    results      \* signed results written by combine

vars == <<clock, proposal, policy, record, burn, pkg, signed, results>>

Profile == proposal.raw.values[1]
Schema == Get(Profile, "assetSchema")
ProjectID == Get(Profile, "projectId").s

Timestamp(t) == Str(Word(<<"t0", "t1", "t2", "t3", "t4", "t5", "t6">>[t + 1], {"RFC 3339"}))

-----------------------------------------------------------------------------
(* The profile.                                                            *)

createProfile(raw) ==
    /\ proposal.stage = "none"
    /\ proposal' = [raw |-> raw,
                    stage |-> IF ProfileEnvelope(raw) /\ Get(raw.values[1], "assetSchema").t = "obj"
                              THEN "guard" ELSE "refused",
                    walks |-> IF ProfileEnvelope(raw)
                              THEN <<Walk(Get(raw.values[1], "assetSchema"), {})>> ELSE <<>>]
    /\ UNCHANGED <<clock, policy, record, burn, pkg, signed, results>>

GuardStep ==
    /\ proposal.stage = "guard" /\ proposal.walks # <<>>
    /\ LET w == Head(proposal.walks)
           r == walkSchema(Schema, w.node, w.chain)
       IN proposal' = IF r.ok THEN [proposal EXCEPT !.walks = r.calls \o Tail(@)]
                      ELSE [proposal EXCEPT !.stage = "refused", !.walks = <<>>]
    /\ UNCHANGED <<clock, policy, record, burn, pkg, signed, results>>

(* The guard is through: the library compiles the schema, the document is  *)
(* canonicalised and stored as it was sent, and the auditor's policy file  *)
(* is provisioned with the digest that was deployed.                       *)
StoreProfile(choice) ==
    /\ proposal.stage = "guard" /\ proposal.walks = <<>>
    /\ IF LibraryCompiles(Schema) /\ CanCanonicalize(proposal.raw)
       THEN /\ proposal' = [proposal EXCEPT !.stage = "stored"]
            /\ policy' = <<[chainId |-> Domain.chainId, controller |-> Domain.verifyingContract,
                            vault |-> "vault", auditor |-> "auditor", projectId |-> ProjectID,
                            profileDigest |-> <<Marshal(Profile)>>,
                            maxAttestationLifetime |-> choice.lifetime, safe |-> choice.safe]>>
       ELSE /\ proposal' = [proposal EXCEPT !.stage = "refused"]
            /\ UNCHANGED policy
    /\ UNCHANGED <<clock, record, burn, pkg, signed, results>>

-----------------------------------------------------------------------------
(* The record and its burn.                                                *)

metadataEnvelope(req, at) ==
    Raw(<<Obj(<<Member("platformVersion", Str(Word("1.0", {"1.0"}))),
                Member("projectId", Get(Profile, "projectId")),
                Member("recordId", Str(req.recordId)),
                Member("asset", req.asset),
                Member("issuance", Obj(<<Member("amount", Str(req.amount)),
                                         Member("unit", Get(Profile, "tokenUnit"))>>)),
                Member("createdAt", Timestamp(at))>>
              \o IF req.proofs = <<>> THEN <<>> ELSE <<Member("proofs", Arr(req.proofs))>>)>>,
        TRUE)

(* The creation time is read before the metadata is validated, the expiry  *)
(* counts from a second reading of the clock.                              *)
CreateRecord(req, later) ==
    /\ proposal.stage = "stored" /\ record = <<>>
    /\ later <= Horizon
    /\ LET raw == metadataEnvelope(req, clock) IN
       /\ ValidateRecord(Schema, raw, req.amount, ProjectID)
       /\ record' = <<[status |-> "Pending", meta |-> Raw(<<Canonical(raw.values[1])>>, TRUE),
                       recordId |-> req.recordId, amount |-> req.amount, nonce |-> 0,
                       createdAt |-> clock,
                       validUntil |-> later + attestationValidUntilWindow]>>
       /\ clock' = later
    /\ UNCHANGED <<proposal, policy, burn, pkg, signed, results>>

ReissueRecord ==
    /\ record # <<>> /\ record[1].status = "Pending" /\ record[1].nonce < MaxReissues
    /\ record' = [record EXCEPT ![1].nonce = @ + 1,
                                ![1].validUntil = clock + attestationValidUntilWindow]
    /\ UNCHANGED <<clock, proposal, policy, burn, pkg, signed, results>>

(* The mint the attestation allows is executed and indexed.                *)
MintRecord ==
    /\ record # <<>> /\ record[1].status = "Pending" /\ results # {}
    /\ record' = [record EXCEPT ![1].status = "Minted"]
    /\ UNCHANGED <<clock, proposal, policy, burn, pkg, signed, results>>

Replace(o, k, v) == Obj([i \in DOMAIN o.m |-> IF o.m[i].k = k THEN Member(k, v) ELSE o.m[i]])
Without(o, k) == Obj(SelectSeq(o.m, LAMBDA e : e.k # k))

buildBurnMetadata(amount, proofs, at) ==
    LET issuance == Obj(<<Member("amount", Str(amount)), Member("unit", Get(Profile, "tokenUnit"))>>)
        top == Without(Replace(Replace(record[1].meta.values[1], "issuance", issuance),
                               "createdAt", Timestamp(at)), "proofs")
    IN Raw(<<Obj(top.m \o IF proofs = <<>> THEN <<>> ELSE <<Member("proofs", Arr(proofs))>>)>>, TRUE)

CreateBurn(req) ==
    /\ record # <<>> /\ record[1].status = "Minted" /\ burn = <<>>
    /\ "positive uint256" \in req.amount.forms
    /\ Value(req.amount) <= Value(record[1].amount)
    /\ LET raw == buildBurnMetadata(req.amount, req.proofs, clock) IN
       /\ ValidateRecord(Schema, raw, req.amount, ProjectID)
       /\ burn' = <<[meta |-> Raw(<<Canonical(raw.values[1])>>, TRUE), amount |-> req.amount,
                     nonce |-> 0, validUntil |-> clock + attestationValidUntilWindow]>>
    /\ UNCHANGED <<clock, proposal, policy, record, pkg, signed, results>>

-----------------------------------------------------------------------------
(* The package.                                                            *)

Attestation(meta, key, operation, amount, nonce, validUntil) ==
    [auditor |-> "auditor", profileDigest |-> <<Marshal(Profile)>>, recordKey |-> key,
     operationId |-> operation, metadataDigest |-> <<Marshal(meta.values[1])>>,
     amount |-> Value(amount), nonce |-> nonce, validUntil |-> validUntil, vault |-> "vault"]

LivePackage ==
    LET a == Attestation(record[1].meta, <<record[1].recordId>>, <<>>, record[1].amount,
                         record[1].nonce, record[1].validUntil)
    IN BuildPackage("MintAttestation", a.profileDigest, a.metadataDigest, proposal.raw,
                    record[1].meta, NewMintTypedDataDoc(Domain, record[1].recordId, a))

LiveBurnPackage ==
    LET a == Attestation(burn[1].meta, <<>>, <<"burn">>, burn[1].amount, burn[1].nonce,
                         burn[1].validUntil)
    IN BuildPackage("BurnAttestation", a.profileDigest, a.metadataDigest, proposal.raw,
                    burn[1].meta, NewBurnTypedDataDoc(Domain, a))

downloadPackage ==
    /\ record # <<>>
    /\ pkg' = <<LivePackage>>
    /\ UNCHANGED <<clock, proposal, policy, record, burn, signed, results>>

downloadBurnPackage ==
    /\ burn # <<>>
    /\ pkg' = <<LiveBurnPackage>>
    /\ UNCHANGED <<clock, proposal, policy, record, burn, signed, results>>

(* What may reach the auditor: the package, or an altered one.             *)
Arrivals == IF pkg = <<>> THEN {} ELSE {pkg[1]} \cup Altered(pkg[1])

-----------------------------------------------------------------------------
(* The auditor.                                                            *)

TypedData(p) == FileOf(p, "typed-data.json").body.typed

(* runSign: a single key's signature is the result; an owner's is a share. *)
(* A key that signed a message before would only write the same again.     *)
runSign(key, arrived) ==
    /\ policy # <<>> /\ Cardinality(signed) < MaxSignatures
    /\ MaySign(policy[1], key)
    /\ Reviewed(arrived, policy[1], clock)
    /\ \A s \in signed : s.share.owner = key => s.message # TypedData(arrived).message
    /\ LET td     == TypedData(arrived)
           digest == SignerDigest(td.domain, td.primaryType, td.message)
           hash   == SignHash(policy[1], td)
       IN /\ signed' = signed \cup
                {[share |-> NewShare(td.message.auditor, td.domain.chainId, key, td.primaryType,
                                     digest, hash, key),
                  message |-> td.message, meta |-> FileOf(arrived, "metadata.json").body.doc,
                  at |-> clock]}
          /\ results' = IF policy[1].safe # <<>> THEN results
                        ELSE results \cup {[digest |-> digest,
                                            signatures |-> {[key |-> key, over |-> hash]}]}
    /\ UNCHANGED <<clock, proposal, policy, record, burn, pkg>>

Shares == {s.share : s \in signed}

runCombine(shares) ==
    /\ policy # <<>> /\ Combinable(policy[1], shares)
    /\ results' = results \cup {[digest |-> shares[1].typedDataDigest,
                                 signatures |-> CombineSafeSignatures(shares)]}
    /\ UNCHANGED <<clock, proposal, policy, record, burn, pkg, signed>>

Tick == /\ clock < Horizon /\ record # <<>>
        /\ clock' = clock + 1
        /\ UNCHANGED <<proposal, policy, record, burn, pkg, signed, results>>

Init == /\ clock = 0
        /\ proposal = [stage |-> "none", raw |-> Raw(<<>>, TRUE), walks |-> <<>>]
        /\ policy = <<>> /\ record = <<>> /\ burn = <<>> /\ pkg = <<>>
        /\ signed = {} /\ results = {}

Next == \/ \E raw \in Profiles : createProfile(raw)
        \/ GuardStep
        \/ \E choice \in PolicyChoices : StoreProfile(choice)
        \/ \E req \in Requests, slow \in {0, 1} : CreateRecord(req, clock + slow)
        \/ ReissueRecord
        \/ MintRecord
        \/ \E req \in BurnRequests : CreateBurn(req)
        \/ downloadPackage
        \/ downloadBurnPackage
        \/ \E arrived \in Arrivals, key \in Signers : runSign(key, arrived)
        \/ \E a, b \in Shares : runCombine(<<a, b>>)
        \/ Tick

Spec == Init /\ [][Next]_vars /\ WF_vars(GuardStep)

-----------------------------------------------------------------------------
(* What a key signed, whatever package arrived, the server would have      *)
(* accepted as a record of the deployed profile; the signature is over the *)
(* digest that the server and the contract compute for that message; and   *)
(* the message carries the amount and the record key of the metadata and   *)
(* an expiry within the policy's lifetime (runSign, ValidateRecord).       *)
SignedConforms ==
    \A s \in signed :
       LET d == s.meta.values[1]
           m == s.message
           type == s.share.primaryType
       IN /\ ValidateRecord(Schema, s.meta, Get(Get(d, "issuance"), "amount").s, ProjectID)
          /\ m.profileDigest = <<Marshal(Profile)>> /\ m.metadataDigest = <<Marshal(d)>>
          /\ m.amount = Value(Get(Get(d, "issuance"), "amount").s)
          /\ type = "MintAttestation" => m.recordKey = <<Get(d, "recordId").s>>
          /\ m.validUntil > s.at /\ m.validUntil <= s.at + policy[1].maxAttestationLifetime
          /\ s.share.typedDataDigest = ServerDigest(Domain, type, m)

(* A record the server accepted can be attested: while its package is the  *)
(* live one and has not expired, and the policy's lifetime leaves room for *)
(* the age of the metadata, the signer's independent validation accepts    *)
(* what the server's accepted (assets against profile, metadata,           *)
(* jsonschema).                                                            *)
Unexpired == record # <<>> /\ record[1].status = "Pending" /\ record[1].validUntil > clock

Signable ==
    (pkg # <<>> /\ Unexpired /\ policy[1].maxAttestationLifetime > Horizon
                             /\ pkg[1] = LivePackage)
        => Reviewed(pkg[1], policy[1], clock)

(* An archive that the server's reader accepts the signer's accepts too    *)
(* (OpenPackage against Extract, ParseManifest and VerifyFiles).  A        *)
(* signature changes no package, so it is stated before the first one.     *)
OpenedIsExtractable ==
    signed = {} => \A p \in Arrivals :
        OpenPackage(p) => /\ Extract(p) /\ ParseManifest(p.manifest[1])
                          /\ VerifyFiles(p.manifest[1], p)

(* Server and signer agree: no signature over what the server would        *)
(* refuse, no live package that the signer would refuse, and no archive    *)
(* that only one of them can open.                                         *)
SignerServerAgree == SignedConforms /\ Signable /\ OpenedIsExtractable

(* A result the contract will take has signatures of as many owners as the *)
(* Safe's threshold, all over one message, and every one of them was made  *)
(* after a review of that attestation (runCombine, CombineSafeSignatures). *)
ThresholdKept ==
    \A r \in results :
       LET keys == {sig.key : sig \in r.signatures} IN
       /\ Cardinality(keys) >= IF policy[1].safe = <<>> THEN 1 ELSE policy[1].safe[1].threshold
       /\ \A k \in keys : MaySign(policy[1], k) /\
             \E s \in signed : s.share.owner = k /\ s.share.typedDataDigest = r.digest

(* The guard of a submitted schema ends, whatever it refers to             *)
(* (schema_guard.go).                                                      *)
GuardEnds == (proposal.walks # <<>>) ~> (proposal.walks = <<>>)
=============================================================================
