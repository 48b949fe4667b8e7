---------------------------- MODULE VerifyBundle ----------------------------
(***************************************************************************)
(* The whole program on a bundle with one stream: main                     *)
(* (crates/verify/src/main.rs), verify_bundle (engine.rs) and the verdict  *)
(* (report.rs).  The steps are those of the modules that model the parts;  *)
(* here they are put in order and share their state.  What the bundle      *)
(* holds is chosen from the scenario as it is read.                        *)
(***************************************************************************)
EXTENDS Identity

CONSTANTS
    MAX_SAFE_INTEGER, U64, StreamId, MaxLines, LineFaults,
    Genuine,    \* what recorder and console wrote, and the keys of their hierarchy
    Scenarios   \* name -> the inputs a behaviour may choose from, and bounds

ASSUME InputsAssumption ==
    /\ LineFaults \subseteq {"record_parse_error", "record_invalid", "stream_read_error"}
    /\ \A x \in DOMAIN Scenarios :
          Scenarios[x].containers \subseteq
             [schema_known : BOOLEAN, contents : {"listed", "unlisted", "altered"},
              scoped : BOOLEAN, checkpoints : BOOLEAN]
    /\ \A x \in DOMAIN Scenarios :
          /\ \A files \in Scenarios[x].identities : WellFormed(files)
          /\ \A o \in Scenarios[x].options :
                /\ IsOption(o.console_key)
                /\ o.console_key # None => IsOption(Get(o.console_key))

VARIABLES
    scenario,   \* name of the scenario
    container,  \* manifest and entries: [schema_known, contents, scoped, checkpoints]
    exit,       \* Option: the exit code
    prev, prev_wall_ms, hashes_by_seq, ts_min, ts_max, coverage_gap_count, segments_seen,
    segments_ended, reading, lines,
    ranges, attested_seqs, countersigned_high_water, checkpoint_note_hashes,
    checkpoint_links, top_checkpoint, valid_checkpoint_ranges, checked,
    anchored_seqs, earliest, batches, days

SV == INSTANCE StreamVerifier WITH
         Streams <- {StreamId}, Segments <- {}, Walls <- {}, Monos <- {}, RecordTypes <- {},
         Contents <- {}, MalformedIds <- {}, Seqs <- {}, OtherHashes <- {}, PrevHashKinds <- {}

CV == INSTANCE CheckpointVerifier WITH console_keys <- ConsoleKeys

AV == INSTANCE AnchorVerifier WITH
         StreamOrder   <- <<StreamId>>,
         console_keys  <- ConsoleKeys,
         accepted      <- [s \in {StreamId} |-> valid_checkpoint_ranges],
         attested_seqs <- [s \in {StreamId} |-> attested_seqs]

\* The ends of a note's range are u64s; marks and pins are numbers.
ASSUME RangesAssumption ==
    /\ U64 \in Nat \ {0}
    /\ \A x \in DOMAIN Scenarios :
          /\ \A bc \in Scenarios[x].checkpoints :
                /\ {bc.note.seq_from, bc.note.seq_to} \subseteq 0..(U64 - 1)
                /\ bc.countersignature # None =>
                      LET mark == Get(bc.countersignature).note.stream_high_water_seq
                      IN  mark = None \/ Get(mark) \in Nat
          /\ \A o \in Scenarios[x].options :
                o.expect_high_water = None \/ Get(o.expect_high_water) \in Nat

\* A record as recorder or exporter write it.
IsLine(r) ==
    /\ r.seq \in Nat
    /\ r = SV!Record(r.stream_id, r.segment_id, r.seq, r.ts_wall, r.ts_mono_ns, r.record_type,
                     r.content, r.prev_hash, r.record_hash)

\* The note is over the records that the recorder wrote.
OverGenuine(note) ==
    /\ note.seq_to < Len(Genuine.lines)
    /\ note.merkle_root = CV!MerkleRoot([i \in 1..(note.seq_to - note.seq_from + 1) |->
                                           Genuine.lines[note.seq_from + i].record_hash])

\* Nobody signs with another's key: a root given to the program belongs to the
\* genuine hierarchy, what one of its keys signed is a certificate of it, or a
\* note over the recorder's records.
ASSUME KeysAssumption ==
    /\ Genuine.lines \in Seq(Range(Genuine.lines))
    /\ \A i \in DOMAIN Genuine.lines :
          /\ IsLine(Genuine.lines[i])
          /\ Genuine.lines[i].seq = i - 1
          /\ Genuine.lines[i].record_hash = SV!ComputeHash(Genuine.lines[i])
    /\ \A x \in DOMAIN Scenarios :
          /\ \A r \in Scenarios[x].lines : IsLine(r)
          /\ \A o \in Scenarios[x].options :
                /\ o.root # None /\ Get(o.root) # <<>> => Get(o.root)[1].key \in Genuine.keys
                /\ o.embedded # <<>> => o.embedded[1].key \in Genuine.keys
          /\ \A files \in Scenarios[x].identities : files # None =>
                \A c \in Range(Get(files).certs_pem) :
                   c.signer \in Genuine.keys => c.key \in Genuine.keys
          /\ \A bc \in Scenarios[x].checkpoints, k \in Genuine.keys :
                bc.signature = CV!Signature(k, bc.note) => OverGenuine(bc.note)

fixedVars == <<scenario, container, options, identity, now_unix>>
trustVars == <<root_pems, queue, walk, cert_map, entries, key_map, revocations>>
chainVars == <<prev, prev_wall_ms, hashes_by_seq, ts_min, ts_max, coverage_gap_count,
               segments_seen, segments_ended, reading, lines>>
checkpointVars == <<ranges, attested_seqs, countersigned_high_water, checkpoint_note_hashes,
                    checkpoint_links, top_checkpoint, valid_checkpoint_ranges, checked>>
anchorVars == <<anchored_seqs, earliest, batches, days>>
bundleVars == <<fixedVars, findings, step, exit, trustVars, chainVars, checkpointVars,
                anchorVars>>

-----------------------------------------------------------------------------
Inputs == Scenarios[scenario]

Init ==
    /\ scenario \in DOMAIN Scenarios
    /\ options \in Inputs.options
    /\ identity \in Inputs.identities
    /\ now_unix \in Inputs.times
    /\ container \in Inputs.containers
    /\ step = "arguments"
    /\ exit = None
    /\ IdentityInit
    /\ SV!VerifierInit
    /\ CV!CheckpointsInit
    /\ anchored_seqs = [s \in {StreamId} |-> {}]
    /\ earliest = None
    /\ batches = <<>>
    /\ days = <<>>

\* An option or a bundle that cannot be read ends the program with 30, a
\* malformed --expect-high-water with 2.
RefuseArguments ==
    /\ step = "arguments"
    /\ options.usage # "ok"
    /\ exit' = Some(IF options.usage = "high_water_malformed" THEN 2 ELSE 30)
    /\ step' = "exited"
    /\ UNCHANGED <<fixedVars, findings, trustVars, chainVars, checkpointVars, anchorVars>>

AcceptArguments ==
    /\ step = "arguments"
    /\ options.usage = "ok"
    /\ step' = "container"
    /\ UNCHANGED <<fixedVars, findings, exit, trustVars, chainVars, checkpointVars, anchorVars>>

\* Schema version and verify_content_hashes.
VerifyContainer ==
    /\ step = "container"
    /\ findings' = findings
          \cup (IF container.schema_known THEN {} ELSE {"schema_version_unknown"})
          \cup (CASE container.contents = "listed" -> {}
                  [] container.contents = "unlisted" -> {"unlisted_entry"}
                  [] container.contents = "altered" -> {"content_hash_mismatch"})
    /\ step' = "roots"
    /\ UNCHANGED <<fixedVars, exit, trustVars, chainVars, checkpointVars, anchorVars>>

VerifyIdentity ==
    /\ IdentityNext
    /\ UNCHANGED <<scenario, container, exit, chainVars, checkpointVars, anchorVars>>

\* One line of the stream.
VerifyRecord ==
    /\ step = "chain"
    /\ container.scoped
    /\ \/ Inputs.faulty /\ SV!ReadBadLine
       \/ \E r \in Inputs.lines : SV!ReadRecord(r)
    /\ UNCHANGED <<fixedVars, step, exit, trustVars, checkpointVars, anchorVars>>

EndChain ==
    /\ step = "chain"
    /\ container.scoped
    /\ (Inputs.faulty /\ SV!StreamReadError) \/ SV!EndOfStream
    /\ step' = "checkpoints"
    /\ UNCHANGED <<fixedVars, exit, trustVars, checkpointVars, anchorVars>>

\* A stream that the manifest's scope does not list is not looked at: per_stream
\* is empty, here and in the loops over checkpoints and coverage.
SkipStream ==
    /\ step = "chain"
    /\ ~container.scoped
    /\ step' = "anchors"
    /\ UNCHANGED <<fixedVars, findings, exit, trustVars, chainVars, checkpointVars, anchorVars>>

VerifyNextCheckpoint ==
    /\ step = "checkpoints"
    /\ container.checkpoints
    /\ Len(checked) < Inputs.max_checkpoints
    /\ UNCHANGED <<fixedVars, step, exit, trustVars, chainVars, anchorVars>>
    /\ \E bc \in Inputs.checkpoints : CV!VerifyCheckpoint(bc)

\* Mutant: an unreadable list of checkpoints is taken for an empty one.
EndCheckpointsSilently ==
    /\ step = "checkpoints"
    /\ step' = "anchors"
    /\ UNCHANGED <<fixedVars, findings, exit, trustVars, chainVars, checkpointVars, anchorVars>>

EndCheckpoints ==
    /\ step = "checkpoints"
    /\ findings' = findings \cup IF container.checkpoints THEN {} ELSE {"checkpoints_missing"}
    /\ step' = "anchors"
    /\ UNCHANGED <<fixedVars, exit, trustVars, chainVars, checkpointVars, anchorVars>>

\* proofs.json that is absent or cannot be read has no batches and no days.
VerifyAnchor ==
    /\ step = "anchors"
    /\ Len(batches) + Len(days) < Inputs.max_anchors
    /\ UNCHANGED <<fixedVars, step, exit, trustVars, chainVars, checkpointVars>>
    /\ \/ days = <<>> /\ \E batch \in Inputs.batches : AV!CheckBatch(batch)
       \/ \E day \in Inputs.days : AV!CheckDay(day)

EndAnchors ==
    /\ step = "anchors"
    /\ step' = "coverage"
    /\ UNCHANGED <<fixedVars, findings, exit, trustVars, chainVars, checkpointVars, anchorVars>>

CrossCheckCoverage ==
    /\ step = "coverage"
    /\ findings' = findings \cup
          IF container.scoped
          THEN CV!CoverageFindings(options.expect_high_water)
                 \cup (IF coverage_gap_count > 0 THEN {"coverage_gaps_recorded"} ELSE {})
                 \cup (IF SV!SegmentsWithoutEnd # {} THEN {"segment_no_clean_end"} ELSE {})
          ELSE {}
    /\ step' = "report"
    /\ UNCHANGED <<fixedVars, exit, trustVars, chainVars, checkpointVars, anchorVars>>

-----------------------------------------------------------------------------
(* The verdict. *)

Errors ==
    {"unlisted_entry", "content_hash_mismatch"} \cup IdentityErrors \cup CV!ErrorClasses
      \cup AV!AnchorErrors \cup {c \in SV!Classes : SV!Severity(c) = "Error"}

Warnings ==
    {"schema_version_unknown", "segment_break", "checkpoints_missing",
     "countersignature_unverifiable", "anchor_pending", "unattested_tail",
     "tail_completeness_unproven", "coverage_gaps_recorded"} \cup IdentityWarnings

\* Mutant: errors are looked for after the warnings.
ComputeResultWarningsFirst ==
    IF findings \cap Warnings # {} THEN "pass_with_findings"
    ELSE IF findings \cap Errors # {} THEN "fail"
    ELSE "pass"

ComputeResult ==
    IF findings \cap Errors # {} THEN "fail"
    ELSE IF findings \cap Warnings # {} THEN "pass_with_findings"
    ELSE "pass"

ExitCode == [pass |-> 0, pass_with_findings |-> 10, fail |-> 11]

Conclude ==
    /\ step = "report"
    /\ exit' = Some(ExitCode[ComputeResult])
    /\ step' = "exited"
    /\ UNCHANGED <<fixedVars, findings, trustVars, chainVars, checkpointVars, anchorVars>>

Next ==
    \/ RefuseArguments
    \/ AcceptArguments
    \/ VerifyContainer
    \/ VerifyIdentity
    \/ VerifyRecord
    \/ EndChain
    \/ SkipStream
    \/ VerifyNextCheckpoint
    \/ EndCheckpoints
    \/ VerifyAnchor
    \/ EndAnchors
    \/ CrossCheckCoverage
    \/ Conclude

\* The program is one thread that never waits for anybody: it takes its next step.
Spec == Init /\ [][Next]_bundleVars /\ WF_bundleVars(Next)

-----------------------------------------------------------------------------
(* Properties. *)

\* The trust root was given to the program, or is built into it.
RootFromOutside == options.root # None \/ options.embedded # <<>>

\* The record read last under each sequence number.
RecordsRead ==
    [s \in DOMAIN hashes_by_seq |->
        LET at == {i \in DOMAIN lines : lines[i].seq = s}
        IN  lines[CHOOSE i \in at : \A j \in at : j <= i]]

\* What the countersignatures in the bundle say of the extent of the stream.
StatedExtents ==
    {Get(m) : m \in {Get(checked[i].countersignature).note.stream_high_water_seq :
                        i \in {j \in DOMAIN checked : checked[j].countersignature # None}}
                      \ {None}}

V == INSTANCE Verdict WITH
        Written  <- [s \in {Genuine.lines[i].seq : i \in DOMAIN Genuine.lines} |->
                       Genuine.lines[s + 1]],
        trusted  <- RootFromOutside,
        scoped   <- container.scoped,
        expected <- options.expect_high_water,
        records  <- RecordsRead,
        attested <- attested_seqs,
        anchored <- anchored_seqs[StreamId],
        stated   <- StatedExtents

\* The program keeps the promise of its exit code (module Verdict), whatever the
\* bundle holds: its checks of hashes, checkpoints, certificates, keys and extent
\* add up, and the verdict is given once, over everything that was read.
PromiseKept == V!VerdictSpec

\* Every verification ends with an exit code, whatever certificates are listed
\* (the walk up a circle of CAs must not go on for ever).
Terminates == <>(exit # None)

\* The state of the parts stays consistent across them: validated certificates
\* are listed ones, a walk is under way only in its step and within its hops,
\* attested records were read, anchored records are attested, findings are of
\* known classes, and there is an exit code exactly when the program has ended.
BundleTypeOK ==
    /\ DOMAIN cert_map \subseteq ListedCerts
    /\ walk # None => step = "walks" /\ Get(walk).hops \in 0..MAX_HOPS
    /\ attested_seqs \subseteq DOMAIN hashes_by_seq
    /\ anchored_seqs[StreamId] \subseteq attested_seqs
    /\ findings \subseteq Errors \cup Warnings \cup
          {"checkpoint_range_not_fully_exported", "not_countersigned", "anchor_verified",
           "anchor_checkpoint_not_in_export", "qts_verified", "segment_no_clean_end"}
    /\ exit # None <=> step = "exited"

\* A bundle passes only if the parts it must have were there and could be read, no
\* line of its stream was skipped, and a revocation list, if it has one, is signed
\* by a console key in use. Two parts are optional and their absence says nothing:
\* anchors/proofs.json and identity/revocations.json.
UnreadableReported ==
    exit = Some(0) =>
       /\ identity # None /\ PemParses(Listed)
       /\ container.schema_known /\ container.contents = "listed"
       /\ container.scoped => container.checkpoints
       /\ findings \cap LineFaults = {}
       /\ RevocationList # None => SignedByConsole(Get(RevocationList))

\* The bundle that was read is the one recorder and console wrote.
GenuineRead ==
    /\ options.usage = "ok"
    /\ container = [schema_known |-> TRUE, contents |-> "listed", scoped |-> TRUE,
                    checkpoints |-> TRUE]
    /\ identity = Some(Genuine.identity)
    /\ lines = Genuine.lines
    /\ findings \cap LineFaults = {}
    /\ checked = Genuine.checkpoints
    /\ \A i \in DOMAIN batches : batches[i] \in Genuine.batches
    /\ days = <<>>

\* A user who knows the root, verifies a genuine bundle while its certificates are
\* valid and does not expect more than was written, gets a pass, whatever of the
\* optional parts (anchors, embedded roots, console key) is there.
GenuinePasses ==
    /\ exit # None
    /\ GenuineRead
    /\ options \in Genuine.options
    /\ \A i \in DOMAIN Listed : now_unix \in Listed[i].not_before..Listed[i].not_after
    => exit = Some(0)
=============================================================================
