-------------------------- MODULE CheckpointSystem --------------------------
(***************************************************************************)
(* The life of a stream's checkpoints: the recorder writes records and     *)
(* signs linked notes over them, the console countersigns some of them at  *)
(* its own pace, and at some point a bundle is exported and verified.      *)
(* Recorder, console and exporter are not part of the repository; they are *)
(* modelled from what the note builders and the format require of them.    *)
(* In an honest scenario the bundle is what the exporter wrote; otherwise  *)
(* it holds any records and any checkpoints, genuine or edited.            *)
(***************************************************************************)
EXTENDS CheckpointVerifier

CONSTANTS
    RecorderCert,   \* certificate the recorder signs with
    RecorderKey,    \* the key that certificate is for
    ConsoleKey,     \* key the console signs with
    OtherKey,       \* a key of nobody the verifier trusts
    Scenarios       \* what may happen in a behaviour, and its bounds

\* A scenario is fixed for a behaviour: whether the bundle is the exporter's own
\* (else anything), the verifier's console keys and revocations, the times of
\* notes, whether countersignatures state a high-water mark, extents pinned out
\* of band, first records of honest exports, whether these may end before the
\* stream does, whether a restored recorder signs a second history or a faulty
\* one a range that ends before it begins, whether records are replaced, how
\* notes are edited, and the numbers of records, notes and checkpoints read.
ASSUME SystemAssumption ==
    \A x \in Scenarios :
       /\ x.max_records \in 0..(U64 - 1) /\ x.max_notes \in Nat /\ x.max_checked \in Nat
       /\ {x.honest, x.scoped, x.forking, x.reversing, x.tampering} \subseteq BOOLEAN
       /\ x.high_waters \subseteq BOOLEAN
       /\ x.honest_from \subseteq Nat
       /\ \A t \in x.times : t = None \/ Get(t) \in Int
       /\ \A p \in x.pins : p = None \/ Get(p) \in Nat
       /\ x.revocations # None =>
             \A r \in Get(x.revocations) : r.effective_at = None \/ Get(r.effective_at) \in Int

ASSUME KeysAssumption == RecorderKey # OtherKey

\* Whoever verifies an honest export knows the console's key, or none at all, and
\* the recorder had signed its notes before its certificate was revoked.
ASSUME HonestAssumption ==
    \A x \in Scenarios : x.honest =>
       /\ x.console_keys = {} \/ ConsoleKey \in x.console_keys
       /\ x.revocations # None =>
             \A r \in Get(x.revocations), t \in x.times :
                r.cert = RecorderCert /\ r.effective_at # None /\ t # None =>
                   Get(t) < Get(r.effective_at)

VARIABLES
    extent,             \* number of records written
    notes,              \* notes the recorder signed, in order
    forks,              \* notes it signed over its second history
    countersignatures,  \* what the console signed
    stage,              \* "recording", "verifying" or "done"
    pinned,             \* Option: --expect-high-water for the stream
    scenario

recordingVars == <<extent, notes, forks, countersignatures, scenario>>
systemVars == <<recordingVars, stage, pinned, checkpointVars>>

\* The records' hashes: of the recorder's history, and of a second history
\* written after the recorder was restored from a backup.
RecordHash(s) == <<"record", s>>
ForkHash(s) == <<"fork", s>>

-----------------------------------------------------------------------------
SystemInit ==
    /\ extent = 0
    /\ notes = <<>>
    /\ forks = {}
    /\ countersignatures = {}
    /\ stage = "recording"
    /\ pinned = None
    /\ scenario \in Scenarios
    /\ cert_map = [c \in {RecorderCert} |-> RecorderKey]
    /\ console_keys = scenario.console_keys
    /\ revocations = scenario.revocations
    /\ hashes_by_seq = <<>>
    /\ CheckpointsInit

WriteRecord ==
    /\ stage = "recording"
    /\ extent < scenario.max_records
    /\ extent' = extent + 1
    /\ UNCHANGED <<notes, forks, countersignatures, scenario, stage, pinned, checkpointVars>>

LastNoteHash == IF notes = <<>> THEN None ELSE Some(NoteHash(notes[Len(notes)]))

FirstUncovered == IF notes = <<>> THEN 0 ELSE notes[Len(notes)].seq_to + 1

\* A checkpoint over everything written since the last one, linked to it.
EmitCheckpoint ==
    /\ stage = "recording"
    /\ Len(notes) < scenario.max_notes
    /\ FirstUncovered < extent
    /\ \E time \in scenario.times :
          notes' = Append(notes,
             BuildNote(<<"main", Len(notes) + 1>>, FirstUncovered,
                       [i \in 1..(extent - FirstUncovered) |-> RecordHash(FirstUncovered + i - 1)],
                       time, RecorderCert, LastNoteHash))
    /\ UNCHANGED <<extent, forks, countersignatures, scenario, stage, pinned, checkpointVars>>

\* A restored recorder repeats a stretch of the stream with other records, from
\* the start of an earlier note on, and signs a note over it.
EmitForked ==
    /\ stage = "recording"
    /\ scenario.forking
    /\ forks = {}
    /\ \E i \in DOMAIN notes, n \in 1..scenario.max_records, time \in scenario.times :
          /\ notes[i].seq_from + n <= scenario.max_records
          /\ forks' = {BuildNote(<<"fork", i>>, notes[i].seq_from,
                                 [k \in 1..n |-> ForkHash(notes[i].seq_from + k - 1)],
                                 time, RecorderCert, notes[i].prev_checkpoint_hash)}
    /\ UNCHANGED <<extent, notes, countersignatures, scenario, stage, pinned, checkpointVars>>

\* A faulty recorder's note: its range ends before it begins, over no records.
EmitReversed ==
    /\ stage = "recording"
    /\ scenario.reversing
    /\ forks = {}
    /\ \E i \in DOMAIN notes, to \in 0..(extent - 1), time \in scenario.times :
          /\ to < notes[i].seq_from
          /\ forks' = {[notes[i] EXCEPT !.checkpoint_id = <<"reversed", i>>, !.seq_to = to,
                                        !.tree_size = 0, !.ts_wall = time]}
    /\ UNCHANGED <<extent, notes, countersignatures, scenario, stage, pinned, checkpointVars>>

\* The console accepts a note once it has its records; it may have accepted
\* later records by then.
Countersign ==
    /\ stage = "recording"
    /\ \E i \in DOMAIN notes :
          /\ \A c \in countersignatures : c.checkpoint_id # notes[i].checkpoint_id
          /\ \E stated \in scenario.high_waters, hw \in notes[i].seq_to..(extent - 1) :
                /\ ~stated => hw = notes[i].seq_to
                /\ countersignatures' = countersignatures
                      \cup {[checkpoint_id |-> notes[i].checkpoint_id,
                             stream_high_water_seq |-> IF stated THEN Some(hw) ELSE None]}
    /\ UNCHANGED <<extent, notes, forks, scenario, stage, pinned, checkpointVars>>

\* Countersignature::create by the console, and by a key nobody trusts.
Countersigned(note, key) == [note |-> note, signature |-> Signature(key, note)]

-----------------------------------------------------------------------------
(* Bundles. *)

\* The user may pin any extent the stream had reached.
Pin == \E p \in scenario.pins : (p # None => Get(p) < extent) /\ pinned' = p

\* The records from some point on, to the end of the stream or of the scope.
ExportHonest ==
    /\ stage = "recording"
    /\ scenario.honest
    /\ \E from \in scenario.honest_from, to \in 0..(extent - 1) :
          /\ from <= to
          /\ ~scenario.scoped => to = extent - 1
          /\ hashes_by_seq' = [s \in from..to |-> RecordHash(s)]
    /\ Pin
    /\ stage' = "verifying"
    /\ UNCHANGED <<recordingVars, cert_map, console_keys, revocations, derivedVars>>

\* Genuine records, replaced ones, and those of the second history.
RecordKinds ==
    {"record"} \cup (IF scenario.tampering THEN {"edited"} ELSE {})
               \cup (IF scenario.forking THEN {"fork"} ELSE {})

\* Any records at all.
ExportAny ==
    /\ stage = "recording"
    /\ ~scenario.honest
    /\ \E present \in SUBSET (0..(extent - 1)) :
          \E hashes \in [present -> RecordKinds] :
             hashes_by_seq' = [s \in present |-> <<hashes[s], s>>]
    /\ Pin
    /\ stage' = "verifying"
    /\ UNCHANGED <<recordingVars, cert_map, console_keys, revocations, derivedVars>>

Signed == {notes[i] : i \in DOMAIN notes} \cup forks

CountersignaturesOf(note) ==
    {Countersigned(c, ConsoleKey) :
        c \in {k \in countersignatures : k.checkpoint_id = note.checkpoint_id}}

\* The exporter lists the notes in order, with their countersignatures.
CheckExported ==
    /\ stage = "verifying"
    /\ scenario.honest
    /\ Len(checked) < Len(notes)
    /\ LET note == notes[Len(checked) + 1]
           own  == CountersignaturesOf(note)
       IN  VerifyCheckpoint(Checkpoint(note, Signature(RecorderKey, note),
                                       IF own = {} THEN None ELSE Some(CHOOSE c \in own : TRUE)))
    /\ UNCHANGED <<recordingVars, stage, pinned>>

\* What an edit of the bundle may put in the place of something.
By(edit, changed) == IF edit \in scenario.edits THEN {changed} ELSE {}

\* The ways in which a note may have been edited after it was signed.
Edited(note) ==
    {note}
      \cup By("unlinked", [note EXCEPT !.prev_checkpoint_hash = None])
      \cup By("stream", [note EXCEPT !.stream_id = "other"])
      \cup By("cert", [note EXCEPT !.recorder_cert_fingerprint = OtherKey])
      \cup IF FullyExported(note)
           THEN By("rerooted", [note EXCEPT !.merkle_root = MerkleRoot(Covered(note)),
                                            !.chain_head_hash = hashes_by_seq[note.seq_to]])
           ELSE {}

\* Whose signature an edited note may carry.
SignaturesOn(note, edited) ==
    {Signature(RecorderKey, note)}
      \cup IF edited = note THEN {} ELSE {Signature(OtherKey, edited)}

\* The countersignatures a note may be listed with: none, its own, that of
\* another note, or one by a key nobody trusts.
CountersignaturesOn(note) ==
    {None}
      \cup {Some(c) : c \in CountersignaturesOf(note)}
      \cup (UNION {By("swapped", Some(Countersigned(c, ConsoleKey))) : c \in countersignatures})
      \cup By("countersignature",
              Some(Countersigned([checkpoint_id |-> note.checkpoint_id,
                                  stream_high_water_seq |-> None], OtherKey)))

CheckAny ==
    /\ stage = "verifying"
    /\ ~scenario.honest
    /\ Len(checked) < scenario.max_checked
    /\ \E note \in Signed : \E edited \in Edited(note) :
          \E signature \in SignaturesOn(note, edited), cs \in CountersignaturesOn(note) :
             VerifyCheckpoint(Checkpoint(edited, signature, cs))
    /\ UNCHANGED <<recordingVars, stage, pinned>>

\* The list of checkpoints ends; the exporter's holds all notes that begin at or
\* before its last record.
Finish ==
    /\ stage = "verifying"
    /\ scenario.honest =>
          \A i \in DOMAIN notes : i > Len(checked) =>
             \A s \in DOMAIN hashes_by_seq : s < notes[i].seq_from
    /\ CrossCheck(pinned)
    /\ stage' = "done"
    /\ UNCHANGED <<recordingVars, pinned>>

Next ==
    \/ WriteRecord
    \/ EmitCheckpoint
    \/ EmitForked
    \/ EmitReversed
    \/ Countersign
    \/ ExportHonest
    \/ CheckExported
    \/ ExportAny
    \/ CheckAny
    \/ Finish

Spec == SystemInit /\ [][Next]_systemVars

-----------------------------------------------------------------------------
(* Properties. *)

Accepted == {v.id : v \in valid_checkpoint_ranges}

\* The checkpoints read that carry the recorder's signature in good time.
Vouched == {checked[i] : i \in {j \in DOMAIN checked : Rejection(checked[j]) = None}}

\* The state of verify_checkpoints is well typed, and what it derives from the
\* notes stays consistent: accepted notes are among the ranges it remembers, and
\* the top checkpoint is the accepted one that reaches furthest.
CheckpointTypeOK ==
    /\ DOMAIN hashes_by_seq \subseteq 0..(scenario.max_records - 1)
    /\ attested_seqs \subseteq 0..(scenario.max_records - 1)
    /\ countersigned_high_water = None \/ Get(countersigned_high_water) < extent
    /\ \A v \in valid_checkpoint_ranges :
          /\ \E r \in ranges : r.from..r.to = v.seqs
          /\ v.digest \in checkpoint_note_hashes
    /\ Accepted = {} <=> top_checkpoint = None
    /\ top_checkpoint # None =>
          \A v \in valid_checkpoint_ranges : \A s \in v.seqs : s <= Get(top_checkpoint).seq_to

\* Attestation is earned: a record counts as attested only if it is in the
\* bundle and its hash is the one some note signed by the recorder has at its
\* place, however notes and records were edited or mixed.
AttestedGenuine ==
    \A s \in attested_seqs :
       /\ s \in DOMAIN hashes_by_seq
       /\ \E note \in Signed : /\ s \in Seqs(note)
                                /\ note.merkle_root[2][s - note.seq_from + 1] = hashes_by_seq[s]

\* No checkpoint is lost from the middle: when the verdict has no error, the
\* accepted checkpoints are the recorder's first ones, without a hole.
CheckpointPrefix ==
    stage = "done" /\ Clean /\ forks = {} =>
       \E k \in 0..Len(notes) : Accepted = {<<"main", i>> : i \in 1..k}

\* Two histories signed over the same range of records are reported as a fork, in
\* whatever order the notes are listed and whichever of them the records match.
SameRangeForksReported ==
    \A a \in Vouched, b \in Vouched :
       /\ a.note.seq_from <= a.note.seq_to
       /\ a.note.seq_from = b.note.seq_from
       /\ a.note.seq_to = b.note.seq_to
       /\ a.note.merkle_root # b.note.merkle_root
       => "chain_fork_detected" \in findings

\* The count behind unattested_tail, a difference of two sizes, is exact: the
\* warning is given precisely when some record has no valid checkpoint.
UnattestedReported ==
    stage = "done" =>
       ("unattested_tail" \in findings <=> DOMAIN hashes_by_seq \ attested_seqs # {})

\* No record is attested only by notes dated at or after the revocation of the
\* certificate that signed them.
AttestedBeforeRevocation ==
    \A s \in attested_seqs :
       \E i \in DOMAIN checked :
          /\ s \in Seqs(checked[i].note)
          /\ checked[i].note.ts_wall # None /\ revocations # None =>
                \A r \in Get(revocations) :
                   r.cert = checked[i].note.recorder_cert_fingerprint /\ r.effective_at # None =>
                      Get(checked[i].note.ts_wall) < Get(r.effective_at)

\* When the verdict has no error, the bundle reaches every high-water mark the
\* console signed on a checkpoint that is in it, in whatever order they are
\* listed.
ReachesHighWater ==
    stage = "done" /\ Clean =>
       \A i \in DOMAIN checked :
          AssertedHighWater(checked[i]) # None =>
             \E s \in DOMAIN hashes_by_seq : s >= Get(AssertedHighWater(checked[i]))

\* The extents the verifier was told of: pinned, or countersigned in the bundle.
Marks ==
    {Get(m) : m \in ({pinned} \cup {AssertedHighWater(checked[i]) : i \in DOMAIN checked})
                       \ {None}}

\* An export of the recorder's own records and checkpoints is never an error but
\* for one: truncation is reported exactly when the export stops short of some
\* extent the verifier was told of.  So an export up to the end of the stream is
\* clean, wherever it begins and whatever part of it was countersigned, and a
\* scoped one may "fail" on a countersignature it contains.
HonestExportExact ==
    scenario.honest /\ stage = "done" =>
       /\ findings \cap ErrorClasses \subseteq {"truncation_detected"}
       /\ "truncation_detected" \in findings <=>
             \E m \in Marks : \A s \in DOMAIN hashes_by_seq : s < m
       /\ extent - 1 \in DOMAIN hashes_by_seq => Clean

\* Every note of an honest export whose whole range was exported attests all of
\* its records, the first and the last included.
HonestExportAttested ==
    scenario.honest /\ stage = "done" =>
       \A i \in DOMAIN notes :
          Seqs(notes[i]) \subseteq DOMAIN hashes_by_seq => Seqs(notes[i]) \subseteq attested_seqs

\* Given both branches, the verifier detects a fork.
BranchesReported ==
    stage = "done" =>
       (\A a \in Vouched, b \in Vouched :
           (\E s \in Seqs(a.note) \cap Seqs(b.note) :
               a.note.merkle_root[2][s - a.note.seq_from + 1]
                  # b.note.merkle_root[2][s - b.note.seq_from + 1])
           => ~Clean)
=============================================================================
