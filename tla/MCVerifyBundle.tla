--------------------------- MODULE MCVerifyBundle ---------------------------
(***************************************************************************)
(* Values of the constants of VerifyBundle: two hierarchies that use the   *)
(* same names, the genuine one and another, and bundles that mix what the  *)
(* two have signed.                                                        *)
(***************************************************************************)
EXTENDS VerifyBundle

D == INSTANCE Digests WITH
        Streams <- {StreamId}, Segments <- {}, Walls <- {}, Monos <- {}, RecordTypes <- {},
        Contents <- {}
N == INSTANCE Notes
T == INSTANCE Tokens

Day == 24 * 60

TheRoot == GenerateSelfSignedCa("root_key", "Root", 0, ROOT_VALIDITY_DAYS)
Tenant == IssueIntermediateCa("tenant_key", "Tenant", TheRoot, 0, TENANT_CA_VALIDITY_DAYS)
Recorder == SignCsr("recorder_key", "Recorder", Tenant, 0, RECORDER_CERT_VALIDITY_DAYS)

OtherRoot == GenerateSelfSignedCa("other_root_key", "Root", 0, ROOT_VALIDITY_DAYS)
OtherTenant == IssueIntermediateCa("other_tenant_key", "Tenant", OtherRoot, 0,
                                   TENANT_CA_VALIDITY_DAYS)
OtherRecorder == SignCsr("other_recorder_key", "Recorder", OtherTenant, 0,
                         RECORDER_CERT_VALIDITY_DAYS)

ConsoleKeyEntry(id, key, signer) ==
    LET statement == [key_id |-> id, key |-> key]
    IN  [statement |-> statement,
         signature |-> IF signer = None THEN None
                       ELSE Some(IdentitySignature(Get(signer), statement))]

IdentityOf(certs, roots, keys, list) ==
    Some([certs_pem |-> certs, roots |-> roots, console_keys |-> keys, revocations |-> list])

SignedList(revoked, key) ==
    Some([revoked |-> revoked, signature |-> IdentitySignature(key, revoked)])

GenuineIdentity ==
    IdentityOf(<<Recorder, Tenant>>, <<<<TheRoot>>>>,
               <<ConsoleKeyEntry("k", Some("console"), Some("root_key"))>>,
               SignedList({}, "console"))

-----------------------------------------------------------------------------
(* The recorder's stream, and another history of it. *)

Line(seq, content, prevHash) ==
    D!Finalized(D!Record(StreamId, "A", seq, [text |-> seq, ms |-> Some(seq)], seq,
                           "lifecycle", content, prevHash, None))

R0 == Line(0, "segment_start", D!GenesisPrevHash(StreamId))
R1 == Line(1, "segment_end", R0.record_hash)
Other0 == Line(0, "other", D!GenesisPrevHash(StreamId))
Other1 == Line(1, "other", Other0.record_hash)
EditedR1 == [R1 EXCEPT !.content = "other"]

Note(id, r, cert, prevHash) ==
    N!BuildNote(id, r.seq, <<r.record_hash>>, Some(10), cert, prevHash)

N0 == Note("n0", R0, Recorder, None)
N1 == Note("n1", R1, Recorder, Some(N!NoteHash(N0)))
O0 == Note("n0", Other0, OtherRecorder, None)
O1 == Note("n1", Other1, Recorder, Some(N!NoteHash(O0)))

CheckpointOf(note, key, consoleKey) ==
    LET cs == [checkpoint_id |-> note.checkpoint_id,
               stream_high_water_seq |-> Some(note.seq_to)]
    IN  N!Checkpoint(note, N!Signature(key, note),
                      Some([note |-> cs, signature |-> N!Signature(consoleKey, cs)]))

Anchor(note, file) ==
    T!BuildBatch({[id |-> note.checkpoint_id, digest |-> N!NoteHash(note)]}, file)

StampedAnchor(note) ==
    LET bare == Anchor(note, None)
    IN  [bare EXCEPT !.tsr_file = Some(T!File(T!Stamp(bare.root_sha256, 20)))]

DayOver(roots) ==
    [root |-> T!DailyRootOf(roots), batch_roots |-> roots, signature |-> None,
     console_key_id |-> None, qts_file |-> None]

-----------------------------------------------------------------------------
(* Options. *)

Given ==
    [usage |-> "ok", root |-> Some(<<TheRoot>>), embedded |-> <<>>, console_key |-> None,
     expect_high_water |-> None]
Embedded == [Given EXCEPT !.root = None, !.embedded = <<TheRoot>>]
Nothing == [Given EXCEPT !.root = None]
Expecting == [Given EXCEPT !.expect_high_water = Some(1)]
WithKey == [Given EXCEPT !.console_key = Some(Some("console"))]

\* Keys of the root and of every certificate below it.
CaNames == <<"CA1", "CA2", "CA3", "CA4", "CA5", "CA6", "CA7", "CA8", "Leaf">>
GenuineKeys ==
    {"root_key", "tenant_key", "tenant_key_2", "recorder_key", "below_key", "old_key",
     "below_old_key", "region_key", "site_key", "worker_key"} \cup Range(CaNames)

MCGenuine ==
    [lines |-> <<R0, R1>>, identity |-> Get(GenuineIdentity),
     checkpoints |-> <<CheckpointOf(N0, "recorder_key", "console"),
                       CheckpointOf(N1, "recorder_key", "console")>>,
     batches |-> {StampedAnchor(N0), StampedAnchor(N1)},
     options |-> {Given, Embedded, Expecting, WithKey},
     keys |-> GenuineKeys]

SoundContainer ==
    [schema_known |-> TRUE, contents |-> "listed", scoped |-> TRUE, checkpoints |-> TRUE]

-----------------------------------------------------------------------------
(* Scenarios. *)

OtherIdentity ==
    IdentityOf(<<OtherRecorder, OtherTenant>>, <<<<OtherRoot>>>>,
               <<ConsoleKeyEntry("k", Some("other_console"), Some("other_root_key"))>>, None)

\* The console has revoked the recorder, from the time of its notes on.
RevokedIdentity ==
    IdentityOf(<<Recorder, Tenant>>, <<<<TheRoot>>>>,
               <<ConsoleKeyEntry("k", Some("console"), Some("root_key"))>>,
               SignedList({[cert |-> Recorder, effective_at |-> Some(10)]}, "console"))

\* Records and checkpoints of both histories in any order, under identities
\* that list certificates and keys of either hierarchy.
Mixed ==
    [options |-> {Given, Expecting, Nothing},
     identities |->
        {GenuineIdentity, OtherIdentity, RevokedIdentity,
         IdentityOf(<<Recorder, Tenant, OtherRecorder, OtherTenant>>, <<<<TheRoot>>>>,
                    <<ConsoleKeyEntry("k", Some("console"), Some("root_key")),
                      ConsoleKeyEntry("k", Some("other_console"), None)>>, None)},
     times |-> {10},
     containers |-> {SoundContainer},
     faulty |-> FALSE,
     lines |-> {R0, R1, EditedR1, Other0, Other1},
     checkpoints |-> {CheckpointOf(N0, "recorder_key", "console"),
                      CheckpointOf(N1, "recorder_key", "console"),
                      CheckpointOf(O0, "other_recorder_key", "other_console"),
                      CheckpointOf(O1, "other_recorder_key", "other_console")},
     max_checkpoints |-> 2,
     batches |-> {StampedAnchor(N1)},
     days |-> {},
     max_anchors |-> 1]

\* The genuine stream, whole or in part.
Plain ==
    [Mixed EXCEPT !.identities = {GenuineIdentity},
                  !.options = {Given},
                  !.lines = {R0, R1},
                  !.checkpoints = {MCGenuine.checkpoints[1], MCGenuine.checkpoints[2]}]

\* The other hierarchy, trusted because the bundle says so.
BundlePinned ==
    [Plain EXCEPT !.options = {Nothing}, !.identities = {OtherIdentity},
                  !.lines = {Other0, Other1},
                  !.checkpoints = {CheckpointOf(O0, "other_recorder_key", "other_console")}]

\* Some part of the bundle is missing or cannot be read.
Damaged ==
    [Plain EXCEPT
        !.containers = {[SoundContainer EXCEPT !.schema_known = FALSE],
                        [SoundContainer EXCEPT !.contents = "unlisted"],
                        [SoundContainer EXCEPT !.contents = "altered"],
                        [SoundContainer EXCEPT !.checkpoints = FALSE],
                        SoundContainer},
        !.faulty = TRUE,
        !.max_checkpoints = 1,
        !.batches = {Anchor(N0, None)},
        !.days = {DayOver(<<>>)}]

\* Ways to call the program, right and wrong.
Invoked ==
    [Plain EXCEPT
        !.options = MCGenuine.options \cup
           {[Given EXCEPT !.usage = "root_unreadable"],
            [Given EXCEPT !.usage = "high_water_malformed"],
            [Given EXCEPT !.console_key = Some(None)], Nothing},
        !.containers = {SoundContainer, [SoundContainer EXCEPT !.scoped = FALSE]},
        !.identities = {None, GenuineIdentity, IdentityOf(<<>>, <<>>, <<>>, None)}]

\* Verified before, at the ends of, and after the validity of the certificates.
Timed == [Plain EXCEPT !.times = {-6, -5, 90 * Day, 90 * Day + 1}]

-----------------------------------------------------------------------------
(* Identities alone, under an empty stream. *)

Alone == [Plain EXCEPT !.lines = {}, !.max_checkpoints = 0, !.max_anchors = 0]

\* A CA renewed under its name, a certificate below a certificate that is no CA,
\* two CAs that signed each other, one whose validity has ended, a certificate
\* that cannot be read and one with a key of another kind.
RenewedTenant == IssueIntermediateCa("tenant_key_2", "Tenant", TheRoot, 0, 730)
BelowRecorder == SignCsr("below_key", "Below", Recorder, 0, 90)
Left == [IssueIntermediateCa("left_key", "Left", TheRoot, 0, 730) EXCEPT
            !.issuer = "Right", !.signer = "right_key"]
Right == IssueIntermediateCa("right_key", "Right", Left, 0, 730)
BelowLeft == SignCsr("below_left_key", "BelowLeft", Left, 0, 90)
OldTenant == IssueIntermediateCa("old_key", "OldTenant", TheRoot, -731 * Day, 730)
BelowOld == SignCsr("below_old_key", "BelowOld", OldTenant, 0, 90)
Unreadable == [Recorder EXCEPT !.form = "not_der", !.subject = "Unreadable"]
OtherKind == [Tenant EXCEPT !.form = "other_key"]

Pairs(certs) == {<<c>> : c \in certs} \cup (certs \X certs)
Triples(certs) == Pairs(certs) \cup (certs \X certs \X certs)

\* A CA issued by a CA that none may follow, and a certificate below it.
Region == IssueIntermediateCa("region_key", "Region", TheRoot, 0, 730)
Site == IssueIntermediateCa("site_key", "Site", Region, 0, 730)
Worker == SignCsr("worker_key", "Worker", Site, 0, 90)

\* A line of n CAs without path lengths below the root and a leaf below the last.
LineOfCas(n) ==
    [i \in 1..(n + 1) |->
        Certificate(CaNames[i], CaNames[i],
                    IF i = 1 THEN "Root" ELSE CaNames[i - 1],
                    IF i = 1 THEN "root_key" ELSE CaNames[i - 1], 0, 730, i <= n, None)]

CertLists ==
    Triples({Recorder, Tenant, RenewedTenant, BelowRecorder})
      \cup Triples({BelowLeft, Left, Right})
      \cup Pairs({BelowOld, OldTenant, OtherTenant, Recorder, OtherKind})
      \cup Triples({Recorder, Unreadable, Tenant})
      \cup {<<Recorder, [Unreadable EXCEPT !.form = "garbled"]>>}
      \cup {<<Worker, Site, Region>>, LineOfCas(7), LineOfCas(8)}

OfLists ==
    [Alone EXCEPT
        !.identities = {IdentityOf(l, <<<<TheRoot>>>>, <<>>, None) : l \in CertLists}]

\* Console keys signed by either root, by nobody, or not readable, two with the
\* same id, and revocation lists signed by either.
KeyEntries ==
    {ConsoleKeyEntry("k", Some("console"), Some("root_key")),
     ConsoleKeyEntry("k", Some("other_console"), Some("other_root_key")),
     ConsoleKeyEntry("k", Some("other_console"), None),
     ConsoleKeyEntry("j", None, Some("root_key"))}

Keyed ==
    [Alone EXCEPT
        !.options = {Given, Nothing, WithKey},
        !.identities =
           {IdentityOf(<<Recorder, Tenant>>, roots, keys, list) :
              roots \in {<<<<TheRoot>>>>, <<<<OtherRoot>>, <<TheRoot>>>>},
              keys \in Pairs(KeyEntries),
              list \in {SignedList({}, "console"), SignedList({}, "other_console")}}]

MCScenarios ==
    [mixed |-> Mixed, pinned |-> BundlePinned, damaged |-> Damaged, invoked |-> Invoked,
     timed |-> Timed, listed |-> OfLists, keyed |-> Keyed]

\* A recorder below the tenant CA, which was renewed under its name, and a worker
\* below two CAs of which only one is allowed.
DocumentedScenario ==
    [listed |-> [OfLists EXCEPT
        !.identities = {IdentityOf(<<Recorder, RenewedTenant, Tenant, Worker, Site, Region>>,
                                   <<<<TheRoot>>>>, <<>>, None)}]]
=============================================================================
