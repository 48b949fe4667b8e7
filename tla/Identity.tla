------------------------------ MODULE Identity ------------------------------
(***************************************************************************)
(* Step 2 of verify_bundle: the trust roots, the certificates of           *)
(* identity/certs.pem, the console keys and the revocation list            *)
(* (crates/verify/src/engine.rs over crates/evidence/src/certs.rs).        *)
(* A PEM file is the sequence of its blocks.  A certificate keeps its      *)
(* names, key, signer, validity and basic constraints and stands for its   *)
(* own fingerprint; "form" says how far it can be read.  Times are in      *)
(* minutes.                                                                *)
(* The walk up from a certificate is one step per iteration of the loop.   *)
(***************************************************************************)
EXTENDS Options, FiniteSetsExt, Functions

VARIABLES
    options,        \* --root, --console-key and the roots built in
    identity,       \* Option: identity/ as read from the bundle
    now_unix,       \* the time of verification
    findings,       \* classes of the findings reported so far
    step,           \* what verify_bundle does next
    root_pems,      \* the PEM files taken as trust roots
    queue,          \* listed certificates still to be validated
    walk,           \* Option: validate_chain in progress [leaf, current, hops]
    cert_map,       \* validated certificate -> its public key
    entries,        \* console key entries still to be read
    key_map,        \* key id -> console key
    revocations     \* Option: revoked certificates [cert, effective_at]

\* Files are sequences of blocks or entries; a key or a signature may be absent.
WellFormed(files) ==
    /\ IsOption(files)
    /\ files # None =>
          /\ Get(files).certs_pem \in Seq(Range(Get(files).certs_pem))
          /\ Get(files).console_keys \in Seq(Range(Get(files).console_keys))
          /\ \A e \in Range(Get(files).console_keys) :
                IsOption(e.statement.key) /\ IsOption(e.signature)

givenVars == <<options, identity, now_unix>>
identityVars == <<givenVars, findings, step, root_pems, queue, walk, cert_map, entries,
                  key_map, revocations>>

-----------------------------------------------------------------------------
(* Issuing certificates and statements. *)

ROOT_VALIDITY_DAYS == 3650
TENANT_CA_VALIDITY_DAYS == 730
RECORDER_CERT_VALIDITY_DAYS == 90

\* path_len: how many further CAs may follow this one in a chain, None for
\* any number (IsCa::Ca(Unconstrained)).
Certificate(subject, key, issuer, signer, at, lasting, ca, pathLen) ==
    [form |-> "ed25519", subject |-> subject, key |-> key, issuer |-> issuer, signer |-> signer,
     not_before |-> at - 5, not_after |-> at + lasting * 24 * 60, is_ca |-> ca,
     path_len |-> pathLen]

GenerateSelfSignedCa(key, name, at, lasting) ==
    Certificate(name, key, name, key, at, lasting, TRUE, None)

IssueIntermediateCa(key, name, parent, at, lasting) ==
    Certificate(name, key, parent.subject, parent.key, at, lasting, TRUE, Some(0))

\* generate_csr by the recorder and sign_csr by the tenant CA.
SignCsr(key, name, ca, at, lasting) ==
    Certificate(name, key, ca.subject, ca.key, at, lasting, FALSE, None)

IdentitySignature(key, message) == <<"signature", key, message>>

-----------------------------------------------------------------------------
(* Reading certificates. *)

\* A PEM file without a certificate, or with a block that does not decode, is
\* an error as a whole.
PemParses(pem) == pem # <<>> /\ \A i \in DOMAIN pem : pem[i].form # "garbled"

Readable(cert) == cert.form \in {"ed25519", "other_key"}

\* extract_ed25519_key returns Ok.
HasKey(cert) == cert.form = "ed25519"

\* Mutant: the last moment of the validity does not belong to it.
ValidBefore(cert, at) == cert.not_before <= at /\ at < cert.not_after

ValidAt(cert, at) == cert.not_before <= at /\ at <= cert.not_after

\* The roots are joined into one PEM file: it parses, and validate_chain takes the
\* first certificate of it.
RootsParse ==
    /\ \E i \in DOMAIN root_pems : root_pems[i] # <<>>
    /\ \A i \in DOMAIN root_pems : root_pems[i] # <<>> => PemParses(root_pems[i])
Root == LET filled == {i \in DOMAIN root_pems : root_pems[i] # <<>>}
        IN  root_pems[Min(filled)][1]

Listed == IF identity = None THEN <<>> ELSE Get(identity).certs_pem
BundleRoots == IF identity = None THEN <<>> ELSE Get(identity).roots

ListedCerts == {Listed[i] : i \in DOMAIN Listed}

\* The other listed certificates, by their places in the list.
Pool(leaf) == {i \in DOMAIN Listed : Listed[i] # leaf}

-----------------------------------------------------------------------------
IdentityInit ==
    /\ root_pems = <<>>
    /\ queue = <<>>
    /\ walk = None
    /\ cert_map = <<>>
    /\ entries = <<>>
    /\ key_map = <<>>
    /\ revocations = None

\* select_roots: --root, else the embedded roots, else the bundle's own.
SelectRoots ==
    /\ step = "roots"
    /\ step' = "certs"
    /\ \/ /\ options.root # None
          /\ root_pems' = <<Get(options.root)>>
          /\ UNCHANGED findings
       \/ /\ options.root = None
          /\ options.embedded # <<>>
          /\ root_pems' = <<options.embedded>>
          /\ UNCHANGED findings
       \/ /\ options.root = None
          /\ options.embedded = <<>>
          /\ BundleRoots # <<>>
          /\ root_pems' = BundleRoots
          /\ findings' = findings \cup {"root_bundle_pinned"}
       \/ /\ options.root = None
          /\ options.embedded = <<>>
          /\ BundleRoots = <<>>
          /\ root_pems' = <<>>
          /\ findings' = findings \cup {"no_trust_root"}
    /\ UNCHANGED <<givenVars, queue, walk, cert_map, entries, key_map, revocations>>

\* build_cert_map up to its loop.
CertFindings ==
    IF identity = None THEN {"identity_missing"}
    ELSE IF root_pems = <<>> \/ PemParses(Listed) THEN {}
    ELSE {"identity_unparseable"}

ListCerts ==
    /\ step = "certs"
    /\ findings' = findings \cup CertFindings
    /\ queue' = IF CertFindings = {} /\ root_pems # <<>> THEN Listed ELSE <<>>
    /\ step' = "walks"
    /\ UNCHANGED <<givenVars, root_pems, walk, cert_map, entries, key_map, revocations>>

\* validate_chain up to its loop: only leaf and root are looked at.
Startable(leaf) ==
    /\ RootsParse
    /\ Readable(leaf)
    /\ Readable(Root)
    /\ ValidAt(leaf, now_unix)
    /\ ValidAt(Root, now_unix)

BeginWalk ==
    /\ step = "walks" /\ walk = None /\ queue # <<>>
    /\ queue' = Tail(queue)
    /\ IF Startable(Head(queue))
       THEN /\ walk' = Some([leaf |-> Head(queue), current |-> Head(queue), hops |-> 0])
            /\ UNCHANGED findings
       ELSE /\ findings' = findings \cup {"cert_unvalidated"}
            /\ UNCHANGED walk
    /\ UNCHANGED <<givenVars, step, root_pems, cert_map, entries, key_map, revocations>>

MAX_HOPS == 8

\* Mutant: the hops are not counted.
DeeperUncounted(w) == w.hops

Deeper(w) == w.hops + 1

AtRoot(w) == w.current.issuer = Root.subject

RootSigned(w) == w.current.signer = Root.key /\ Root.is_ca

\* Mutant: an issuer is taken whether or not it is a CA in its validity.
IssuesUnchecked(issuer, cert) == Readable(issuer) /\ cert.signer = issuer.key

Issues(issuer, cert) ==
    /\ Readable(issuer)
    /\ ValidAt(issuer, now_unix)
    /\ issuer.is_ca
    /\ cert.signer = issuer.key

\* Where the search for the issuer stops: at its name, or at a certificate that
\* cannot be read.
Hits(w) ==
    {i \in Pool(w.leaf) : ~Readable(Listed[i]) \/ Listed[i].subject = w.current.issuer}

\* The first such certificate of the pool.
Found(w) == IF Hits(w) = {} THEN None ELSE Some(Listed[Min(Hits(w))])

Reaches(w) == Deeper(w) <= MAX_HOPS /\ AtRoot(w) /\ RootSigned(w) /\ HasKey(w.leaf)

Climbs(w) ==
    /\ Deeper(w) <= MAX_HOPS
    /\ ~AtRoot(w)
    /\ Found(w) # None
    /\ Issues(Get(Found(w)), w.current)

ReachRoot ==
    /\ walk # None /\ Reaches(Get(walk))
    /\ LET leaf == Get(walk).leaf
       IN  cert_map' = [c \in DOMAIN cert_map \cup {leaf} |-> c.key]
    /\ walk' = None
    /\ UNCHANGED <<givenVars, findings, step, root_pems, queue, entries, key_map, revocations>>

ClimbToIssuer ==
    /\ walk # None /\ Climbs(Get(walk))
    /\ walk' = Some([Get(walk) EXCEPT !.current = Get(Found(Get(walk))),
                                      !.hops = Deeper(Get(walk))])
    /\ UNCHANGED <<givenVars, findings, step, root_pems, queue, cert_map, entries, key_map,
                   revocations>>

GiveUpWalk ==
    /\ walk # None /\ ~Reaches(Get(walk)) /\ ~Climbs(Get(walk))
    /\ findings' = findings \cup {"cert_unvalidated"}
    /\ walk' = None
    /\ UNCHANGED <<givenVars, step, root_pems, queue, cert_map, entries, key_map, revocations>>

EndWalks ==
    /\ step = "walks" /\ walk = None /\ queue = <<>>
    /\ entries' = IF identity = None \/ options.console_key # None THEN <<>>
                  ELSE Get(identity).console_keys
    /\ step' = "keys"
    /\ UNCHANGED <<givenVars, findings, root_pems, queue, walk, cert_map, key_map, revocations>>

-----------------------------------------------------------------------------
(* Console keys. *)

KeyMapWith(id, key) ==
    [k \in DOMAIN key_map \cup {id} |-> IF k = id THEN key ELSE key_map[k]]

\* --console-key replaces the bundle's keys; None inside stands for a file that
\* is not a key.
OverrideConsoleKey ==
    /\ step = "keys" /\ options.console_key # None
    /\ LET key == Get(options.console_key)
       IN  IF key = None
           THEN findings' = findings \cup {"console_key_invalid"} /\ UNCHANGED key_map
           ELSE key_map' = KeyMapWith("override", Get(key)) /\ UNCHANGED findings
    /\ step' = "revocations"
    /\ UNCHANGED <<givenVars, root_pems, queue, walk, cert_map, entries, revocations>>

\* The keys of all certificates in all root files that can be read.
RootKeys ==
    UNION {IF PemParses(root_pems[i])
           THEN {c.key : c \in {d \in Range(root_pems[i]) : HasKey(d)}} ELSE {}
             : i \in DOMAIN root_pems}

\* Mutant: any signature will do.
AttestedByAny(entry) == entry.signature # None

Attested(entry) ==
    \E k \in RootKeys : Get(entry.signature) = IdentitySignature(k, entry.statement)

KeyFindings(entry) ==
    IF entry.statement.key = None THEN {"console_key_unparseable"}
    ELSE IF entry.signature = None THEN {"console_key_unattested"}
    ELSE IF Attested(entry) THEN {}
    ELSE {"console_key_attestation_invalid"}

\* A key without attestation is reported and used all the same.
ReadConsoleKey ==
    /\ step = "keys" /\ entries # <<>>
    /\ LET entry == Head(entries)
       IN  /\ findings' = findings \cup KeyFindings(entry)
           /\ key_map' = IF KeyFindings(entry) \subseteq {"console_key_unattested"}
                         THEN KeyMapWith(entry.statement.key_id, Get(entry.statement.key))
                         ELSE key_map
    /\ entries' = Tail(entries)
    /\ UNCHANGED <<givenVars, step, root_pems, queue, walk, cert_map, revocations>>

EndConsoleKeys ==
    /\ step = "keys" /\ options.console_key = None /\ entries = <<>>
    /\ step' = "revocations"
    /\ UNCHANGED <<givenVars, findings, root_pems, queue, walk, cert_map, entries, key_map,
                   revocations>>

ConsoleKeys == {key_map[k] : k \in DOMAIN key_map}

\* identity/revocations.json, None when the bundle has none.
RevocationList == IF identity = None THEN None ELSE Get(identity).revocations

SignedByConsole(list) ==
    \E k \in ConsoleKeys : list.signature = IdentitySignature(k, list.revoked)

\* The list is applied whether or not its signature could be verified.
RevocationFindings(list) ==
    IF ConsoleKeys = {} THEN {"revocation_list_unverifiable"}
    ELSE IF SignedByConsole(list) THEN {}
    ELSE {"revocation_list_signature_invalid"}

CheckRevocations ==
    /\ step = "revocations"
    /\ IF RevocationList = None
       THEN UNCHANGED <<findings, revocations>>
       ELSE /\ findings' = findings \cup RevocationFindings(Get(RevocationList))
            /\ revocations' = Some(Get(RevocationList).revoked)
    /\ step' = "chain"
    /\ UNCHANGED <<givenVars, root_pems, queue, walk, cert_map, entries, key_map>>

IdentityNext ==
    \/ SelectRoots
    \/ ListCerts
    \/ BeginWalk
    \/ ReachRoot
    \/ ClimbToIssuer
    \/ GiveUpWalk
    \/ EndWalks
    \/ OverrideConsoleKey
    \/ ReadConsoleKey
    \/ EndConsoleKeys
    \/ CheckRevocations

IdentityErrors ==
    {"no_trust_root", "identity_unparseable", "console_key_invalid",
     "console_key_attestation_invalid", "revocation_list_signature_invalid"}

IdentityWarnings ==
    {"root_bundle_pinned", "identity_missing", "cert_unvalidated", "console_key_unparseable",
     "console_key_unattested", "revocation_list_unverifiable"}

-----------------------------------------------------------------------------
(* Properties. *)

IsIssuer(ca, c) == ca.subject = c.issuer /\ ca.key = c.signer /\ ca.is_ca

\* The listed certificates that are valid now and issued by one of these CAs or
\* by the root.
IssuedBy(above) ==
    {c \in ListedCerts : Startable(c) /\ \E ca \in above \cup {Root} : IsIssuer(ca, c)}

\* Those with a chain of at most n signatures, through listed CAs that are valid
\* now, to the root.
TrustedWithin[n \in 0..MAX_HOPS] == IF n = 0 THEN {} ELSE IssuedBy(TrustedWithin[n - 1])

\* Those that the checks of the walk, made on one issuer after the other, let pass.
Trusted == IF root_pems = <<>> \/ ~PemParses(Listed) THEN {}
           ELSE {c \in TrustedWithin[MAX_HOPS] : HasKey(c)}

PathLength(ca) == IF ca.path_len = None THEN MAX_HOPS ELSE Get(ca.path_len)

\* A certificate below a CA with the number of CAs that may still follow it in a
\* chain; -1 when it may only end one.
Below(ca, c) ==
    [cert |-> c, follow |-> IF ca.follow > PathLength(c) THEN PathLength(c) ELSE ca.follow - 1]

\* The certificates with a chain of at most n signatures in which no CA is
\* followed by more CAs than its basic constraints allow.
ConstrainedWithin[n \in 0..MAX_HOPS] ==
    IF n = 0 THEN {}
    ELSE LET above == ConstrainedWithin[n - 1]
                        \cup {[cert |-> Root, follow |-> PathLength(Root)]}
         IN  UNION {{Below(ca, c) : c \in {d \in ListedCerts : Startable(d) /\ IsIssuer(ca.cert, d)}} :
                       ca \in {x \in above : x.follow >= 0}}

\* The trusted certificates that have a chain with "CA constraints respected".
Constrained == {c \in Trusted : \E x \in ConstrainedWithin[MAX_HOPS] : x.cert = c}

\* No two certificates carry the same name, and all can be read.
Unambiguous ==
    RootsParse =>
       LET all == ListedCerts \cup {Root}
       IN  /\ \A c \in all : Readable(c)
           /\ \A c, d \in all : c.subject = d.subject => c = d

\* The walk of validate_chain finds what it should.  A certificate is validated
\* only if there is a chain from it to the root, in which every certificate is
\* valid at the time of verification and every issuer is a CA; when names are
\* unique, every certificate with such a chain whose CAs respect their path
\* lengths is validated, wherever in the list its issuers are and however the
\* chains of the others go.  (The walk does not look at path lengths; what lies
\* between the two is the subject of ValidatesAsDocumented.)
WalkExact ==
    /\ step \in {"walks", "keys"} => DOMAIN cert_map \subseteq Trusted
    /\ step = "keys" =>
          /\ Unambiguous => Constrained \subseteq DOMAIN cert_map
          /\ "cert_unvalidated" \in findings <=>
                /\ root_pems # <<>> /\ identity # None /\ PemParses(Listed)
                /\ ListedCerts \ DOMAIN cert_map # {}

\* What validate_chain is documented to do: a certificate is validated if and only
\* if it chains through the listed certificates, "in any order; matched by issuer"
\* (also when two CAs have one name), to the root, with every certificate valid,
\* signatures verified and "CA constraints respected".
ValidatesAsDocumented ==
    step = "keys" /\ (\A c \in ListedCerts : Readable(c)) => DOMAIN cert_map = Constrained

\* Console keys come from somewhere: a key in use is the one given on the command
\* line, or a root the verifier trusts signed its statement, under the id it is
\* kept by, or the report says that it did not.
KeysVouched ==
    step \in {"keys", "revocations"} => \A id \in DOMAIN key_map :
       \/ options.console_key = Some(Some(key_map[id]))
       \/ \E k \in RootKeys, e \in Range(Get(identity).console_keys) :
             /\ e.statement.key_id = id /\ e.statement.key = Some(key_map[id])
             /\ e.signature = Some(IdentitySignature(k, e.statement))
       \/ "console_key_unattested" \in findings
=============================================================================
