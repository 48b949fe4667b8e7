------------------------------- MODULE Tokens -------------------------------
(***************************************************************************)
(* Anchor batches and daily roots (crates/bundle/src/anchors.rs) and the   *)
(* checks of a timestamp token (crates/verify/src/tsa.rs).  Digests are    *)
(* symbolic; the root of a tree is its set of leaves and a leaf has an     *)
(* inclusion proof exactly when it is one of them, as module Merkle shows. *)
(***************************************************************************)
EXTENDS Options

\* Leaf of a note: the digest of the note.
LeafOf(note) == note.digest

Root(leaves) == <<"root", leaves>>
Sha256(digest) == <<"sha256", digest>>
Signature(key, message) == <<"signature", key, message>>

-----------------------------------------------------------------------------
(* Tokens. *)

\* TimeStampResp with PKIStatus 0 or 1 and a token, or a bare ContentInfo.
ParseToken(token) == token.form \in {"granted", "granted_with_mods", "content_info"}

\* The places of the embedded certificates with the signer's serial number; of
\* all of them when the signer is named by its key identifier (sid = None).
SignerCerts(token) ==
    {i \in DOMAIN token.certs : token.sid # None => token.certs[i].serial = Get(token.sid)}

\* The first one that fits is taken.
FindSignerCert(token) ==
    token.certs[CHOOSE i \in SignerCerts(token) : \A j \in SignerCerts(token) : i <= j]

VerifyCmsSignature(token, cert) ==
    /\ token.message_digest = Sha256(token.tst)
    /\ token.signature = Signature(cert.key, token.message_digest)

VerifyToken(token, imprint) ==
    /\ ParseToken(token)
    /\ token.tst.alg = "sha256"
    /\ token.tst.imprint = imprint
    /\ SignerCerts(token) # {}
    /\ VerifyCmsSignature(token, FindSignerCert(token))

\* A file of the bundle; stored is FALSE when there is no such entry.
TokenVerifies(file, imprint) == file.stored /\ VerifyToken(file.token, imprint)

-----------------------------------------------------------------------------
(* What the console and the authority write. *)

Stamp(imprint, time) ==
    LET tst == [alg |-> "sha256", imprint |-> imprint, time |-> time]
    IN  [form |-> "granted", tst |-> tst, certs |-> <<[serial |-> 1, key |-> "tsa"]>>,
         sid |-> Some(1), message_digest |-> Sha256(tst),
         signature |-> Signature("tsa", Sha256(tst))]

File(token) == [stored |-> TRUE, token |-> token]

\* build_batch over some of the notes.
BuildBatch(notes, tsrFile) ==
    LET root == Root({LeafOf(n) : n \in notes})
    IN  [root |-> root, root_sha256 |-> Sha256(root), tsr_file |-> tsrFile,
         checkpoints |-> {[id |-> n.id, leaf |-> LeafOf(n), proved |-> TRUE] : n \in notes}]

DailyRootOf(roots) == <<"daily", roots>>
=============================================================================
