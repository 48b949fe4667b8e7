------------------------- MODULE CheckpointVerifier -------------------------
(***************************************************************************)
(* Checkpoint verification of one stream: verify_checkpoints and the       *)
(* coverage cross-checks of verify_bundle (crates/verify/src/engine.rs),   *)
(* over the notes and countersignatures of module Notes.                   *)
(***************************************************************************)
EXTENDS Notes, FiniteSets

CONSTANT
    U64     \* number of values of a u64 (2^64)

ASSUME WidthAssumption == U64 \in Nat \ {0}

VARIABLES
    cert_map,                   \* validated certificate -> its public key
    console_keys,               \* the console keys known to the verifier
    revocations,                \* Option: set of [cert, effective_at: Option]
    hashes_by_seq,              \* seq -> record_hash of the records in the bundle
    findings,                   \* classes of the findings reported so far
    ranges,                     \* validly signed notes seen: [from, to, root]
    attested_seqs,
    countersigned_high_water,   \* Option
    checkpoint_note_hashes,     \* hashes of the notes that were accepted
    checkpoint_links,           \* prev_checkpoint_hash of the accepted notes
    top_checkpoint,             \* Option: accepted note with the highest seq_to
    valid_checkpoint_ranges,    \* the accepted notes' ids, ranges and digests
    checked                     \* history: the checkpoints read, in order

\* What the verifier is given, and what it derives from the checkpoints.
inputVars == <<cert_map, console_keys, revocations, hashes_by_seq>>
derivedVars == <<findings, ranges, attested_seqs, countersigned_high_water,
                 checkpoint_note_hashes, checkpoint_links, top_checkpoint,
                 valid_checkpoint_ranges, checked>>
checkpointVars == <<inputVars, derivedVars>>

-----------------------------------------------------------------------------
(* Coverage of a note. *)

Seqs(note) == note.seq_from..note.seq_to

\* The covered records that are in the bundle, up to the first that is not.
Present(note) == {s \in Seqs(note) : note.seq_from..s \subseteq DOMAIN hashes_by_seq}

Covered(note) ==
    [i \in 1..Cardinality(Present(note)) |-> hashes_by_seq[note.seq_from + i - 1]]

\* seq_to - seq_from + 1 is computed in u64 and wraps.
FullyExported(note) ==
    Len(Covered(note)) = (note.seq_to - note.seq_from + 1) % U64

\* Mutant: compares the size and the last record only.
VerifyHeadOnly(note, hashes) ==
    /\ hashes # <<>>
    /\ Len(hashes) = note.tree_size
    /\ hashes[Len(hashes)] = note.chain_head_hash

VerifyRoot(note, hashes) ==
    /\ hashes # <<>>
    /\ Len(hashes) = note.tree_size
    /\ MerkleRoot(hashes) = note.merkle_root
    /\ hashes[Len(hashes)] = note.chain_head_hash

\* Mutant: a revocation counts only after its effective time.
IsRevokedAtExclusive(cert, at) ==
    revocations # None /\ \E r \in Get(revocations) :
       /\ r.cert = cert
       /\ r.effective_at # None
       /\ at > Get(r.effective_at)

\* A revocation counts from its effective time on; one whose time cannot be
\* read does not count.
IsRevokedAt(cert, at) ==
    revocations # None /\ \E r \in Get(revocations) :
       /\ r.cert = cert
       /\ r.effective_at # None
       /\ at >= Get(r.effective_at)

RevokedWhenSigned(note) ==
    /\ note.ts_wall # None
    /\ IsRevokedAt(note.recorder_cert_fingerprint, Get(note.ts_wall))

\* The first check a checkpoint fails before its range is even looked at.
Rejection(bc) ==
    IF bc.note.stream_id # StreamId
       THEN Some("checkpoint_stream_mismatch")
    ELSE IF bc.note.recorder_cert_fingerprint \notin DOMAIN cert_map
       THEN Some("checkpoint_cert_unknown")
    ELSE IF bc.signature # Signature(cert_map[bc.note.recorder_cert_fingerprint], bc.note)
       THEN Some("checkpoint_signature_invalid")
    ELSE IF RevokedWhenSigned(bc.note)
       THEN Some("checkpoint_after_revocation")
    ELSE None

\* Two notes over the same range with different roots; a range that ends before
\* it begins overlaps none.
Forks(note) ==
    \E r \in ranges : /\ note.seq_from <= r.to /\ r.from <= note.seq_to
                      /\ r.from = note.seq_from
                      /\ r.to = note.seq_to
                      /\ r.root # note.merkle_root

\* Mutant: a range that was exported in part counts as a mismatch.
RootMismatchPartial(note) == FullyExported(note) => ~VerifyRoot(note, Covered(note))

RootMismatch(note) == FullyExported(note) /\ ~VerifyRoot(note, Covered(note))

\* Any known console key may have signed it.
CountersignatureVerifies(cs) ==
    \E key \in console_keys : cs.signature = Signature(key, cs.note)

CountersignatureInvalid(bc) ==
    /\ bc.countersignature # None
    /\ ~CountersignatureVerifies(Get(bc.countersignature))
    /\ console_keys # {}

-----------------------------------------------------------------------------
CheckpointsInit ==
    /\ findings = {}
    /\ ranges = {}
    /\ attested_seqs = {}
    /\ countersigned_high_water = None
    /\ checkpoint_note_hashes = {}
    /\ checkpoint_links = {}
    /\ top_checkpoint = None
    /\ valid_checkpoint_ranges = {}
    /\ checked = <<>>

\* What every validly signed note leaves behind, whatever follows.
NoteFindings(note) ==
    (IF Forks(note) THEN {"chain_fork_detected"} ELSE {})
      \cup (IF RootMismatch(note) THEN {"checkpoint_root_mismatch"} ELSE {})
      \cup (IF FullyExported(note) THEN {} ELSE {"checkpoint_range_not_fully_exported"})

RecordRange(note) ==
    ranges' = ranges \cup {[from |-> note.seq_from, to |-> note.seq_to,
                             root |-> note.merkle_root]}

\* Mutant: attests the range of a note whatever part of it was exported.
AttestUnseen(note) ==
    attested_seqs' = attested_seqs \cup Seqs(note)

\* Mutant: loops over seq_from..seq_to instead of seq_from..=seq_to.
AttestHalfOpen(note) ==
    attested_seqs' = attested_seqs
       \cup IF FullyExported(note) THEN Seqs(note) \ {note.seq_to} ELSE {}

Attest(note) ==
    attested_seqs' = attested_seqs \cup IF FullyExported(note) THEN Seqs(note) ELSE {}

RejectCheckpoint(bc) ==
    /\ Rejection(bc) # None
    /\ findings' = findings \cup {Get(Rejection(bc))}
    /\ UNCHANGED <<ranges, attested_seqs, countersigned_high_water, checkpoint_note_hashes,
                   checkpoint_links, top_checkpoint, valid_checkpoint_ranges>>

\* Mutant: a note whose root does not match is forgotten before forks are sought.
RejectRootForgets(bc) ==
    /\ Rejection(bc) = None
    /\ RootMismatch(bc.note)
    /\ findings' = findings \cup NoteFindings(bc.note)
    /\ UNCHANGED <<ranges, attested_seqs, countersigned_high_water, checkpoint_note_hashes,
                   checkpoint_links, top_checkpoint, valid_checkpoint_ranges>>

RejectRoot(bc) ==
    /\ Rejection(bc) = None
    /\ RootMismatch(bc.note)
    /\ findings' = findings \cup NoteFindings(bc.note)
    /\ RecordRange(bc.note)
    /\ UNCHANGED <<attested_seqs, countersigned_high_water, checkpoint_note_hashes,
                   checkpoint_links, top_checkpoint, valid_checkpoint_ranges>>

\* The records stay attested by the recorder; the note is not accepted.
RejectCountersignature(bc) ==
    /\ Rejection(bc) = None
    /\ ~RootMismatch(bc.note)
    /\ CountersignatureInvalid(bc)
    /\ findings' = findings \cup NoteFindings(bc.note) \cup {"countersignature_invalid"}
    /\ RecordRange(bc.note)
    /\ Attest(bc.note)
    /\ UNCHANGED <<countersigned_high_water, checkpoint_note_hashes, checkpoint_links,
                   top_checkpoint, valid_checkpoint_ranges>>

CountersignatureFindings(bc) ==
    IF bc.countersignature = None THEN {"not_countersigned"}
    ELSE IF CountersignatureVerifies(Get(bc.countersignature)) THEN {}
    ELSE {"countersignature_unverifiable"}

\* The high-water mark a verified countersignature asserts, if it has one.
AssertedHighWater(bc) ==
    IF /\ bc.countersignature # None
       /\ CountersignatureVerifies(Get(bc.countersignature))
    THEN Get(bc.countersignature).note.stream_high_water_seq
    ELSE None

\* Mutant: the last countersignature listed wins.
RaisedToLast(asserted) == IF asserted = None THEN countersigned_high_water ELSE asserted

\* The highest mark is kept across all countersignatures.
Raised(asserted) ==
    IF asserted = None THEN countersigned_high_water
                       ELSE MaxWith(countersigned_high_water, Get(asserted))

\* Mutant: the last note listed is taken for the top one.
TopsAlways(note) == TRUE

Tops(note) == top_checkpoint = None \/ note.seq_to > Get(top_checkpoint).seq_to

AcceptCheckpoint(bc) ==
    /\ Rejection(bc) = None
    /\ ~RootMismatch(bc.note)
    /\ ~CountersignatureInvalid(bc)
    /\ findings' = findings \cup NoteFindings(bc.note) \cup CountersignatureFindings(bc)
    /\ RecordRange(bc.note)
    /\ Attest(bc.note)
    /\ countersigned_high_water' = Raised(AssertedHighWater(bc))
    /\ checkpoint_note_hashes' = checkpoint_note_hashes \cup {NoteHash(bc.note)}
    /\ checkpoint_links' = checkpoint_links
          \cup IF bc.note.prev_checkpoint_hash = None THEN {}
               ELSE {Get(bc.note.prev_checkpoint_hash)}
    /\ top_checkpoint' = IF Tops(bc.note)
                         THEN Some([id |-> bc.note.checkpoint_id, seq_to |-> bc.note.seq_to])
                         ELSE top_checkpoint
    /\ valid_checkpoint_ranges' =
          {v \in valid_checkpoint_ranges : v.id # bc.note.checkpoint_id}
             \cup {[id |-> bc.note.checkpoint_id, seqs |-> Seqs(bc.note),
                    digest |-> NoteHash(bc.note)]}

\* One iteration of verify_checkpoints.
VerifyCheckpoint(bc) ==
    /\ \/ RejectCheckpoint(bc)
       \/ RejectRoot(bc)
       \/ RejectCountersignature(bc)
       \/ AcceptCheckpoint(bc)
    /\ checked' = Append(checked, bc)
    /\ UNCHANGED inputVars

-----------------------------------------------------------------------------
(* The coverage cross-checks, after all checkpoints. *)

\* The strongest extent somebody outside the recorder vouches for.
RequiredHighWater(pinned) ==
    IF pinned = None THEN countersigned_high_water
    ELSE MaxWith(countersigned_high_water, Get(pinned))

Truncated(pinned) ==
    /\ RequiredHighWater(pinned) # None
    /\ \A s \in DOMAIN hashes_by_seq : s < Get(RequiredHighWater(pinned))

\* Mutant: one resolved link is enough.
SomeLinkResolves ==
    checkpoint_links = {} \/ checkpoint_links \cap checkpoint_note_hashes # {}

LinksResolve == checkpoint_links \subseteq checkpoint_note_hashes

CoverageFindings(pinned) ==
    (IF Cardinality(DOMAIN hashes_by_seq) > Cardinality(attested_seqs)
        THEN {"unattested_tail"} ELSE {})
      \cup (IF LinksResolve THEN {} ELSE {"checkpoint_chain_broken"})
      \cup (IF Truncated(pinned) THEN {"truncation_detected"} ELSE {})
      \cup (IF /\ pinned = None
               /\ DOMAIN hashes_by_seq # {}
               /\ countersigned_high_water = None
               THEN {"tail_completeness_unproven"} ELSE {})

CrossCheck(pinned) ==
    /\ findings' = findings \cup CoverageFindings(pinned)
    /\ UNCHANGED <<inputVars, ranges, attested_seqs, countersigned_high_water,
                   checkpoint_note_hashes, checkpoint_links, top_checkpoint,
                   valid_checkpoint_ranges, checked>>

ErrorClasses ==
    {"checkpoint_stream_mismatch", "checkpoint_cert_unknown", "checkpoint_signature_invalid",
     "checkpoint_after_revocation", "chain_fork_detected", "checkpoint_root_mismatch",
     "countersignature_invalid", "checkpoint_chain_broken", "truncation_detected"}

\* No finding of Error severity: this part of the verdict is not "fail".
Clean == findings \cap ErrorClasses = {}
=============================================================================
