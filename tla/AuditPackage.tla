---------------------------- MODULE AuditPackage ----------------------------
(***************************************************************************)
(* The .rwa archive that carries an attestation from the server to the     *)
(* offline signer: how the server builds it (auditpkg, eip712), how both   *)
(* programs open it, and what the signer checks before it signs (rwapkg,   *)
(* attestation, output, policy, cmd/signer).                               *)
(*                                                                         *)
(* Hashes are injective: the SHA-256 of a file is the file, the digest of  *)
(* a document its canonical value, a Keccak hash the tuple of the words    *)
(* that are hashed, in their order.  A digest read from a package is a     *)
(* one-element sequence, or the empty one when it is not 32 bytes of hex.  *)
(***************************************************************************)
EXTENDS AssetDocuments

CONSTANTS
    MaxPackageFiles, MaxSingleFileSize, MaxExpandedPackageSize,           \* the server's
    MaxFileCount, MaxSingleFileUncompressed, MaxTotalUncompressed,        \* the signer's
    UnsafeNames,     \* archive names that are absolute, not clean, or lead upwards
    BadPaths         \* names outside the characters a manifest admits

Documents == {"profile.json", "metadata.json", "typed-data.json"}
ProofNames == {"proofs/a", "proofs/b"}
PrimaryTypes == {"MintAttestation", "BurnAttestation"}

Entry(name, size, body) == [name |-> name, size |-> size, body |-> body,
                            kind |-> "regular", method |-> "deflate"]
ManifestFile(path, size, body) == [path |-> path, size |-> size, sha256 |-> <<body>>, mime |-> TRUE]

Domain == [name |-> "RWA-Supply-Attestation", version |-> "1", chainId |-> 1,
           verifyingContract |-> "controller"]

-----------------------------------------------------------------------------
(* The server.                                                             *)

DomainSeparator(d) == <<"EIP712Domain", d.name, d.version, d.chainId, d.verifyingContract>>

HashMintAttestation(m) ==
    <<"MintAttestation", m.auditor, m.profileDigest, m.recordKey, m.metadataDigest, m.amount,
      m.nonce, m.validUntil, m.vault>>

HashBurnAttestation(b) ==
    <<"BurnAttestation", b.auditor, b.profileDigest, b.operationId, b.metadataDigest, b.amount,
      b.nonce, b.validUntil, b.vault>>

(* The digest the server records for an attestation.                       *)
ServerDigest(d, type, m) ==
    <<"1901", DomainSeparator(d),
      IF type = "MintAttestation" THEN HashMintAttestation(m) ELSE HashBurnAttestation(m)>>

NewMintTypedDataDoc(d, recordId, a) ==
    [primaryType |-> "MintAttestation", domain |-> d,
     message |-> [auditor |-> a.auditor, profileDigest |-> a.profileDigest,
                  recordId |-> <<recordId>>, recordKey |-> a.recordKey, operationId |-> <<>>,
                  metadataDigest |-> a.metadataDigest, amount |-> a.amount, nonce |-> a.nonce,
                  validUntil |-> a.validUntil, vault |-> a.vault]]

NewBurnTypedDataDoc(d, a) ==
    [primaryType |-> "BurnAttestation", domain |-> d,
     message |-> [auditor |-> a.auditor, profileDigest |-> a.profileDigest,
                  recordId |-> <<>>, recordKey |-> <<>>, operationId |-> a.operationId,
                  metadataDigest |-> a.metadataDigest, amount |-> a.amount, nonce |-> a.nonce,
                  validUntil |-> a.validUntil, vault |-> a.vault]]

(* Every document is one unit in size; the archive is its manifest and the *)
(* entries, in order.                                                      *)
BuildPackage(primaryType, profileDigest, metadataDigest, profileJSON, metadataJSON, typedData) ==
    LET files == <<<<"profile.json", [doc |-> profileJSON]>>,
                   <<"metadata.json", [doc |-> metadataJSON]>>,
                   <<"typed-data.json", [typed |-> typedData]>>>>
    IN [manifest |-> <<[packageVersion |-> "1.0", primaryType |-> primaryType,
                        profileDigest |-> profileDigest, metadataDigest |-> metadataDigest,
                        files |-> [i \in DOMAIN files |->
                                      ManifestFile(files[i][1], 1, files[i][2])]]>>,
        entries |-> <<Entry("manifest.json", 1, [doc |-> "manifest"])>> \o
                    [i \in DOMAIN files |-> Entry(files[i][1], 1, files[i][2])]]

Names(pkg) == {pkg.entries[i].name : i \in DOMAIN pkg.entries}
FileOf(pkg, name) == pkg.entries[CHOOSE i \in DOMAIN pkg.entries : pkg.entries[i].name = name]
Expanded(pkg) == FoldLeft(LAMBDA n, e : n + e.size, 0, pkg.entries)

Distinct(s) == \A i, j \in DOMAIN s : s[i] = s[j] => i = j

parseManifestStrict(m) ==
    /\ m.packageVersion = "1.0" /\ m.primaryType \in PrimaryTypes
    /\ m.profileDigest # <<>> /\ m.metadataDigest # <<>>
    /\ Distinct([i \in DOMAIN m.files |-> m.files[i].path])
    /\ \A i \in DOMAIN m.files :
          /\ m.files[i].path \in (Documents \cup ProofNames) \ BadPaths
          /\ m.files[i].sha256 # <<>> /\ m.files[i].size >= 0 /\ m.files[i].mime
    /\ Documents \subseteq {m.files[i].path : i \in DOMAIN m.files}

Declared(m, pkg) ==
    /\ \A i \in DOMAIN m.files :
          /\ m.files[i].path \in Names(pkg)
          /\ FileOf(pkg, m.files[i].path).size = m.files[i].size
          /\ m.files[i].sha256 = <<FileOf(pkg, m.files[i].path).body>>
    /\ Names(pkg) \ {"manifest.json"} \subseteq {m.files[i].path : i \in DOMAIN m.files}

OpenPackage(pkg) ==
    /\ Len(pkg.entries) <= MaxPackageFiles
    /\ Distinct([i \in DOMAIN pkg.entries |-> pkg.entries[i].name])
    /\ \A i \in DOMAIN pkg.entries :
          /\ pkg.entries[i].name \notin UnsafeNames
          /\ pkg.entries[i].kind = "regular" /\ pkg.entries[i].method # "unknown"
          /\ pkg.entries[i].size <= MaxSingleFileSize
    /\ Expanded(pkg) <= MaxExpandedPackageSize
    /\ "manifest.json" \in Names(pkg) /\ pkg.manifest # <<>>
    /\ parseManifestStrict(pkg.manifest[1]) /\ Declared(pkg.manifest[1], pkg)

-----------------------------------------------------------------------------
(* The signer opens the archive.                                           *)

Extract(pkg) ==
    /\ Len(pkg.entries) \in 1 .. MaxFileCount
    /\ \A i \in DOMAIN pkg.entries :
          LET e == pkg.entries[i] IN
          /\ e.name \notin UnsafeNames /\ e.kind # "symlink"
          /\ \A j \in 1 .. i - 1 : pkg.entries[j].name # e.name
          /\ e.method \in {"store", "deflate"}
          /\ e.size <= MaxSingleFileUncompressed
          /\ Expanded([pkg EXCEPT !.entries = SubSeq(@, 1, i)]) <= MaxTotalUncompressed

ParseManifest(m) ==
    /\ m.packageVersion = "1.0" /\ m.primaryType \in PrimaryTypes
    /\ m.profileDigest # <<>> /\ m.metadataDigest # <<>>
    /\ \A i \in DOMAIN m.files :
          LET f == m.files[i] IN
          /\ f.path \notin BadPaths /\ f.sha256 # <<>> /\ f.size >= 0 /\ f.mime
          /\ \A j \in 1 .. i - 1 : m.files[j].path # f.path
          /\ f.path \notin Documents => f.path \in ProofNames
    /\ \A d \in Documents : \E i \in DOMAIN m.files : m.files[i].path = d

VerifyFiles(m, pkg) ==
    /\ \A i \in DOMAIN m.files : \E j \in DOMAIN pkg.entries :
          /\ pkg.entries[j].name = m.files[i].path /\ pkg.entries[j].name # "manifest.json"
          /\ pkg.entries[j].size = m.files[i].size /\ m.files[i].sha256 = <<pkg.entries[j].body>>
    /\ \A j \in DOMAIN pkg.entries : pkg.entries[j].name = "manifest.json" \/
          \E i \in DOMAIN m.files : m.files[i].path = pkg.entries[j].name

parseTypedData(td) ==
    /\ td.primaryType \in PrimaryTypes
    /\ td.domain.name = Domain.name /\ td.domain.version = Domain.version
    /\ td.message.profileDigest # <<>> /\ td.message.metadataDigest # <<>>
    /\ td.primaryType = "MintAttestation" =>
          td.message.recordId # <<>> /\ td.message.recordKey # <<>> /\ td.message.operationId = <<>>
    /\ td.primaryType = "BurnAttestation" =>
          td.message.operationId # <<>> /\ td.message.recordId = <<>> /\ td.message.recordKey = <<>>

(* attestation.Separator, HashStruct and Digest.                           *)
Separator(d) == <<"EIP712Domain", Domain.name, Domain.version, d.chainId, d.verifyingContract>>

HashStruct(type, m) ==
    <<type, m.auditor, m.profileDigest,
      IF type = "MintAttestation" THEN m.recordKey ELSE m.operationId,
      m.metadataDigest, m.amount, m.nonce, m.validUntil, m.vault>>

SignerDigest(d, type, m) == <<"1901", Separator(d), HashStruct(type, m)>>

SafeMessageHash(chainId, safe, digest) ==
    <<"1901", <<"SafeDomain", chainId, safe>>, <<"SafeMessage", digest>>>>

-----------------------------------------------------------------------------
(* policy.Load: a Safe's owners are distinct and its threshold within them.*)
LoadPolicy(p) ==
    p.safe # <<>> =>
       /\ p.safe[1].owners # <<>> /\ Distinct(p.safe[1].owners)
       /\ p.safe[1].threshold \in 1 .. Len(p.safe[1].owners)

Min2(a, b) == IF a < b THEN a ELSE b

(* runSign from the archive to the digest it would sign: every check, on   *)
(* the documents of the package and the auditor's own policy.              *)
Reviewed(pkg, pol, now) ==
    /\ LoadPolicy(pol)
    /\ Extract(pkg)
    /\ "manifest.json" \in Names(pkg) /\ pkg.manifest # <<>>
    /\ LET m == pkg.manifest[1] IN
       /\ ParseManifest(m) /\ VerifyFiles(m, pkg)
       /\ LET prof == FileOf(pkg, "profile.json").body.doc
              meta == FileOf(pkg, "metadata.json").body.doc
              td   == FileOf(pkg, "typed-data.json").body.typed
          IN /\ SignerProfile(prof) /\ SignerMetadata(meta)
             /\ LET p == prof.values[1]
                    d == meta.values[1]
                    pd == <<Marshal(p)>>
                    md == <<Marshal(d)>>
                IN /\ validateAt(Get(p, "assetSchema"), Get(p, "assetSchema"), Get(d, "asset"))
                   /\ Get(d, "projectId") = Get(p, "projectId")
                   /\ Get(Get(d, "issuance"), "unit") = Get(p, "tokenUnit")
                   /\ pol.projectId = Get(p, "projectId").s
                   /\ pd = pol.profileDigest /\ pd = m.profileDigest /\ md = m.metadataDigest
                   /\ parseTypedData(td) /\ td.primaryType = m.primaryType
                   /\ td.message.profileDigest = pd /\ td.message.metadataDigest = md
                   /\ td.message.amount = Value(Get(Get(d, "issuance"), "amount").s)
                   /\ td.primaryType = "MintAttestation" =>
                         /\ td.message.recordId = <<Get(d, "recordId").s>>
                         /\ td.message.recordKey = <<Get(d, "recordId").s>>
                   /\ td.domain.chainId = pol.chainId
                   /\ td.domain.verifyingContract = pol.controller
                   /\ td.message.vault = pol.vault /\ td.message.auditor = pol.auditor
                   /\ td.message.validUntil > now
                   /\ td.message.validUntil <=
                         Min2(now, Value(Get(d, "createdAt").s)) + pol.maxAttestationLifetime

(* What a key signs for a package that passed: the digest, or for a Safe   *)
(* its owners' message over the digest.                                    *)
SignHash(pol, td) ==
    LET digest == SignerDigest(td.domain, td.primaryType, td.message) IN
    IF pol.safe = <<>> THEN digest ELSE SafeMessageHash(td.domain.chainId, td.message.auditor, digest)

(* A key that may sign under the policy.                                   *)
MaySign(pol, key) ==
    IF pol.safe = <<>> THEN key = pol.auditor
    ELSE key \in {pol.safe[1].owners[i] : i \in DOMAIN pol.safe[1].owners}

NewShare(safe, chainId, owner, primaryType, digest, hash, key) ==
    [safe |-> safe, chainId |-> chainId, owner |-> owner, primaryType |-> primaryType,
     typedDataDigest |-> digest, safeMessageHash |-> hash,
     signature |-> [key |-> key, over |-> hash]]

(* The second share of an owner is refused; and a loop that forgets to.    *)
FirstOfAny(shares, i) == TRUE
FirstOfOwner(shares, i) == \A j \in 1 .. i - 1 : shares[j].owner # shares[i].owner

(* runCombine over a sequence of shares: what it needs, and what it makes. *)
Combinable(pol, shares) ==
    /\ LoadPolicy(pol) /\ pol.safe # <<>> /\ shares # <<>>
    /\ \A i \in DOMAIN shares :
          LET s == shares[i]
              h == SafeMessageHash(pol.chainId, pol.auditor, s.typedDataDigest)
          IN /\ s.safe = pol.auditor /\ s.chainId = pol.chainId
             /\ s.primaryType = shares[1].primaryType
             /\ s.typedDataDigest = shares[1].typedDataDigest
             /\ s.safeMessageHash = h
             /\ s.signature.over = h /\ s.signature.key = s.owner
             /\ MaySign(pol, s.owner)
             /\ FirstOfOwner(shares, i)
    /\ Len(shares) >= pol.safe[1].threshold

CombineSafeSignatures(shares) == {shares[i].signature : i \in DOMAIN shares}
=============================================================================
