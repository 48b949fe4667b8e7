------------------------- MODULE CheckpointProofs --------------------------
(***************************************************************************)
(* What verify_checkpoints establishes about any bundle of CheckpointSystem*)
(* for every value of the constants: any number of records, notes, edits   *)
(* and checkpoints, listed in any order.                                   *)
(*                                                                         *)
(* The properties speak of the list of checkpoints as a whole, while the   *)
(* loop keeps a few sums of it.  Each invariant ties such a sum to the     *)
(* list read so far: RangesInv the ranges, MarksInv the high-water mark,   *)
(* TimesInv the attested records.                                          *)
(***************************************************************************)
EXTENDS CheckpointSystem, SequenceFacts

\* What verify_checkpoints looks things up in; it never changes it.
lookupVars == <<cert_map, console_keys, revocations>>

-----------------------------------------------------------------------------
(* Steps. *)

\* A checkpoint is read: the loop of verify_checkpoints goes round once.
Reads(bc) ==
    stage = "verifying" /\ VerifyCheckpoint(bc) /\ UNCHANGED <<recordingVars, stage, pinned>>

\* A bundle is exported: records and pin are chosen, nothing is derived yet.
Exports ==
    /\ stage = "recording" /\ stage' = "verifying"
    /\ UNCHANGED <<recordingVars, lookupVars, derivedVars>>

\* A step of recorder or console.
Records ==
    /\ stage = "recording"
    /\ UNCHANGED <<scenario, stage, pinned, checkpointVars>>

\* The checkpoints a bundle may list: a note of the recorder, edited or not,
\* that carries its date, with a signature of the recorder over the note or of
\* somebody else, and a mark the console stated or none.
Listable(bc) ==
    \E note \in Signed :
       /\ bc.note.ts_wall = note.ts_wall
       /\ \/ bc.signature = Signature(RecorderKey, note)
          \/ bc.signature = Signature(OtherKey, bc.note)
       /\ \/ bc.countersignature = None
          \/ Get(bc.countersignature).note.stream_high_water_seq = None
          \/ \E c \in countersignatures :
                Get(bc.countersignature).note.stream_high_water_seq = c.stream_high_water_seq

ReadsListable == \E bc : Reads(bc) /\ Listable(bc)

\* A record with the fields of a note.
IsNote(n) ==
    n = [checkpoint_id             |-> n.checkpoint_id,
         stream_id                 |-> n.stream_id,
         seq_from                  |-> n.seq_from,
         seq_to                    |-> n.seq_to,
         chain_head_hash           |-> n.chain_head_hash,
         merkle_root               |-> n.merkle_root,
         tree_size                 |-> n.tree_size,
         ts_wall                   |-> n.ts_wall,
         recorder_cert_fingerprint |-> n.recorder_cert_fingerprint,
         prev_checkpoint_hash      |-> n.prev_checkpoint_hash]

LEMMA ByOne ==
    ASSUME NEW edit, NEW changed, NEW x \in By(edit, changed)
    PROVE  x = changed
  BY DEF By

\* Edits keep the date of a note.
LEMMA EditsKeepDate ==
    ASSUME NEW note, IsNote(note), NEW edited \in Edited(note)
    PROVE  edited.ts_wall = note.ts_wall
  <1> DEFINE unlinked == [note EXCEPT !.prev_checkpoint_hash = None]
             streamed == [note EXCEPT !.stream_id = "other"]
             certed   == [note EXCEPT !.recorder_cert_fingerprint = OtherKey]
             rerooted == [note EXCEPT !.merkle_root = MerkleRoot(Covered(note)),
                                      !.chain_head_hash = hashes_by_seq[note.seq_to]]
  <1>1. \A x \in {note, unlinked, streamed, certed, rerooted} : x.ts_wall = note.ts_wall
    BY DEF IsNote
  <1>2. \/ edited = note
        \/ edited \in By("unlinked", unlinked)
        \/ edited \in By("stream", streamed)
        \/ edited \in By("cert", certed)
        \/ edited \in By("rerooted", rerooted)
    BY Zenon DEF Edited
  <1> HIDE DEF unlinked, streamed, certed, rerooted
  <1> QED
    BY <1>1, <1>2, ByOne

\* The checkpoints read are such checkpoints.
LEMMA ChecksListable ==
    ASSUME IsSeq(notes), IsSeq(checked), \A n \in Signed : IsNote(n), CheckExported \/ CheckAny
    PROVE  ReadsListable
  <1>1. CASE CheckExported
    <2> DEFINE note == notes[Len(checked) + 1]
               own  == CountersignaturesOf(note)
               cs   == IF own = {} THEN None ELSE Some(CHOOSE c \in own : TRUE)
               bc   == Checkpoint(note, Signature(RecorderKey, note), cs)
    <2>1. Reads(bc)
      BY <1>1 DEF CheckExported, Reads
    <2>2. note \in Signed
      <3>1. Len(checked) \in Nat /\ Len(notes) \in Nat /\ DOMAIN notes = 1..Len(notes)
        BY AppendFacts DEF IsSeq
      <3>2. Len(checked) + 1 \in DOMAIN notes
        BY <1>1, <3>1 DEF CheckExported
      <3> QED
        BY <3>2 DEF Signed
    <2>3. \/ cs = None
          \/ \E c \in countersignatures :
                Get(cs).note.stream_high_water_seq = c.stream_high_water_seq
      <3>1. CASE own # {}
        <4>1. PICK c : c \in own /\ cs = Some(c)
          BY <3>1
        <4>2. PICK k \in countersignatures : c = Countersigned(k, ConsoleKey)
          BY <4>1 DEF CountersignaturesOf
        <4> HIDE DEF cs
        <4>3. Get(cs) = c /\ c.note = k
          BY <4>1, <4>2 DEF Countersigned, Get, Some
        <4> QED
          BY <4>3
      <3> QED
        BY <3>1
    <2> HIDE DEF note, cs
    <2>4. Listable(bc)
      BY <2>2, <2>3 DEF Listable, Checkpoint
    <2> QED
      BY <2>1, <2>4 DEF ReadsListable
  <1>2. CASE CheckAny
    <2>1. PICK note \in Signed : \E edited \in Edited(note) :
             \E signature \in SignaturesOn(note, edited), cs \in CountersignaturesOn(note) :
                VerifyCheckpoint(Checkpoint(edited, signature, cs))
      BY <1>2 DEF CheckAny
    <2>2. PICK edited \in Edited(note) :
             \E signature \in SignaturesOn(note, edited), cs \in CountersignaturesOn(note) :
                VerifyCheckpoint(Checkpoint(edited, signature, cs))
      BY <2>1
    <2>a. PICK signature \in SignaturesOn(note, edited), cs \in CountersignaturesOn(note) :
             VerifyCheckpoint(Checkpoint(edited, signature, cs))
      BY <2>2
    <2>b. signature = Signature(RecorderKey, note) \/ signature = Signature(OtherKey, edited)
      BY DEF SignaturesOn
    <2>c. \/ cs = None
          \/ \E c \in CountersignaturesOf(note) : cs = Some(c)
          \/ \E c \in countersignatures : cs = Some(Countersigned(c, ConsoleKey))
          \/ cs = Some(Countersigned([checkpoint_id |-> note.checkpoint_id,
                                      stream_high_water_seq |-> None], OtherKey))
      <3> DEFINE own     == {Some(c) : c \in CountersignaturesOf(note)}
                 swapped == {By("swapped", Some(Countersigned(c, ConsoleKey))) :
                                c \in countersignatures}
                 others  == By("countersignature",
                               Some(Countersigned([checkpoint_id |-> note.checkpoint_id,
                                                   stream_high_water_seq |-> None], OtherKey)))
      <3>1. cs \in {None} \cup own \cup (UNION swapped) \cup others
        BY Zenon DEF CountersignaturesOn
      <3>2. CASE cs \in UNION swapped
        <4>1. PICK c \in countersignatures :
                 cs \in By("swapped", Some(Countersigned(c, ConsoleKey)))
          BY <3>2
        <4> QED
          BY <4>1, ByOne
      <3>3. CASE cs \in others
        BY <3>3, ByOne
      <3>4. cs \in {None} \/ cs \in own \/ cs \in UNION swapped \/ cs \in others
        <4> HIDE DEF own, swapped, others
        <4> QED
          BY <3>1
      <3> QED
        BY <3>2, <3>3, <3>4
    <2>3. Reads(Checkpoint(edited, signature, cs))
      BY <1>2, <2>a DEF CheckAny, Reads
    <2>4. \/ cs = None
          \/ Get(cs).note.stream_high_water_seq = None
          \/ \E c \in countersignatures :
                Get(cs).note.stream_high_water_seq = c.stream_high_water_seq
      <3>1. CASE \E c \in countersignatures : cs = Some(Countersigned(c, ConsoleKey))
        BY <3>1 DEF Countersigned, Get, Some
      <3>2. CASE \E c \in CountersignaturesOf(note) : cs = Some(c)
        BY <3>1, <3>2 DEF CountersignaturesOf
      <3>3. CASE cs = Some(Countersigned([checkpoint_id |-> note.checkpoint_id,
                                          stream_high_water_seq |-> None], OtherKey))
        BY <3>3 DEF Countersigned, Get, Some
      <3> QED
        BY <2>c, <3>1, <3>2, <3>3
    <2>5. Listable(Checkpoint(edited, signature, cs))
      BY <2>b, <2>4, EditsKeepDate DEF Listable, Checkpoint
    <2> QED
      BY <2>3, <2>5 DEF ReadsListable
  <1> QED
    BY <1>1, <1>2

\* Every step is one of these.
LEMMA StepKinds ==
    ASSUME IsSeq(notes), IsSeq(checked), \A n \in Signed : IsNote(n), [Next]_systemVars
    PROVE  Records \/ Exports \/ ReadsListable \/ Finish \/ UNCHANGED systemVars
  <1>1. CASE WriteRecord \/ EmitCheckpoint \/ EmitForked \/ EmitReversed \/ Countersign
    BY <1>1 DEF WriteRecord, EmitCheckpoint, EmitForked, EmitReversed, Countersign, Records
  <1>2. CASE ExportHonest \/ ExportAny
    BY <1>2 DEF ExportHonest, ExportAny, Exports, lookupVars
  <1> QED
    BY <1>1, <1>2, ChecksListable DEF Next

-----------------------------------------------------------------------------
(* The notes, and what never changes. *)

\* A note over a range within the bounds of the scenario, dated in it.
WellFormed(n) ==
    /\ IsNote(n)
    /\ n.ts_wall \in scenario.times
    /\ n.seq_from \in 0..(scenario.max_records - 1)
    /\ n.seq_to \in 0..(scenario.max_records - 1)

Base ==
    /\ IsSeq(notes)
    /\ IsSeq(checked)
    /\ scenario \in Scenarios
    /\ extent \in 0..scenario.max_records
    /\ cert_map = [c \in {RecorderCert} |-> RecorderKey]
    /\ revocations = scenario.revocations
    /\ \A n \in Signed : WellFormed(n)
    /\ \A c \in countersignatures :
          c.stream_high_water_seq = None \/ Get(c.stream_high_water_seq) \in Int
    /\ stage \in {"recording", "verifying", "done"}
    /\ pinned = None \/ Get(pinned) \in Nat
    /\ DOMAIN hashes_by_seq \subseteq 0..(scenario.max_records - 1)

\* Changing these fields leaves a note a note.
LEMMA NoteRenamed ==
    ASSUME NEW n, IsNote(n), NEW x, NEW r, r = [n EXCEPT !.checkpoint_id = x]
    PROVE  IsNote(r) /\ r.seq_from = n.seq_from
  BY DEF IsNote

LEMMA NoteEnded ==
    ASSUME NEW n, IsNote(n), NEW x, NEW r, r = [n EXCEPT !.seq_to = x]
    PROVE  IsNote(r) /\ r.seq_from = n.seq_from /\ r.seq_to = x
  BY DEF IsNote

LEMMA NoteResized ==
    ASSUME NEW n, IsNote(n), NEW x, NEW r, r = [n EXCEPT !.tree_size = x]
    PROVE  IsNote(r) /\ r.seq_from = n.seq_from /\ r.seq_to = n.seq_to
  BY DEF IsNote

LEMMA NoteRedated ==
    ASSUME NEW n, IsNote(n), NEW time
    PROVE  LET r == [n EXCEPT !.ts_wall = time]
           IN  IsNote(r) /\ r.seq_from = n.seq_from /\ r.seq_to = n.seq_to /\ r.ts_wall = time
  BY DEF IsNote

\* What is left of a note whose end is moved before its beginning.
Reversed(n, id, to, time) ==
    [n EXCEPT !.checkpoint_id = id, !.seq_to = to, !.tree_size = 0, !.ts_wall = time]

LEMMA ReversedNote ==
    ASSUME NEW n, IsNote(n), NEW id, NEW to, NEW time,
           NEW note, note = Reversed(n, id, to, time)
    PROVE  /\ IsNote(note)
           /\ note.ts_wall = time
           /\ note.seq_from = n.seq_from
           /\ note.seq_to = to
  <1> DEFINE a == [n EXCEPT !.checkpoint_id = id]
             b == [a EXCEPT !.seq_to = to]
             c == [b EXCEPT !.tree_size = 0]
             r == [c EXCEPT !.ts_wall = time]
  <1>1. IsNote(a) /\ a.seq_from = n.seq_from
    BY NoteRenamed
  <1>2. IsNote(b) /\ b.seq_from = a.seq_from /\ b.seq_to = to
    <2> HIDE DEF a
    <2> QED BY <1>1, NoteEnded
  <1>3. IsNote(c) /\ c.seq_from = b.seq_from /\ c.seq_to = b.seq_to
    <2> HIDE DEF b
    <2> QED BY <1>2, NoteResized
  <1>4. IsNote(r) /\ r.seq_from = c.seq_from /\ r.seq_to = c.seq_to /\ r.ts_wall = time
    <2> HIDE DEF c
    <2> QED BY <1>3, NoteRedated
  <1>5. r = note
    BY DEF Reversed
  <1> HIDE DEF a, b, c, r
  <1> QED
    BY <1>1, <1>2, <1>3, <1>4, <1>5

LEMMA BaseInit == SystemInit => Base
  <1> SUFFICES ASSUME SystemInit PROVE Base
    OBVIOUS
  <1>1. IsSeq(notes) /\ IsSeq(checked) /\ DOMAIN notes = {}
    BY DEF SystemInit, CheckpointsInit, IsSeq
  <1>2. extent \in 0..scenario.max_records
    BY SystemAssumption DEF SystemInit
  <1>3. Signed = {}
    BY <1>1 DEF SystemInit, Signed
  <1>4. DOMAIN hashes_by_seq = {}
    BY DEF SystemInit
  <1> QED
    BY <1>1, <1>2, <1>3, <1>4 DEF SystemInit, Base

\* Base survives a step that adds well-formed notes.
LEMMA BaseWithNotes ==
    ASSUME Base, IsSeq(notes'), \A n \in Signed' : n \in Signed \/ WellFormed(n),
           UNCHANGED <<extent, countersignatures, scenario, stage, pinned, checkpointVars>>
    PROVE  Base'
  BY DEF Base, WellFormed, checkpointVars, inputVars, derivedVars

\* Base survives a step that leaves the recording alone.
LEMMA BaseWithBundle ==
    ASSUME Base, UNCHANGED recordingVars, UNCHANGED lookupVars, IsSeq(checked'),
           stage' \in {"recording", "verifying", "done"},
           pinned' = None \/ Get(pinned') \in Nat,
           DOMAIN hashes_by_seq' \subseteq 0..(scenario.max_records - 1)
    PROVE  Base'
  BY DEF Base, WellFormed, Signed, recordingVars, lookupVars

LEMMA BaseNext == Base /\ [Next]_systemVars => Base'
  <1> SUFFICES ASSUME Base, [Next]_systemVars PROVE Base'
    OBVIOUS
  <1>a. /\ scenario.max_records \in Nat
        /\ extent \in Nat
        /\ \A p \in scenario.pins : p = None \/ Get(p) \in Nat
        /\ scenario.honest_from \subseteq Nat
    BY SystemAssumption, WidthAssumption DEF Base
  <1>b. Len(notes) \in Nat /\ DOMAIN notes = 1..Len(notes) /\ Len(checked) \in Nat
    BY DEF Base, IsSeq
  <1>c. \A i \in DOMAIN notes : notes[i] \in Signed /\ WellFormed(notes[i])
    BY DEF Base, Signed
  <1>1. CASE WriteRecord
    <2>1. extent' \in 0..scenario.max_records
      BY <1>1, <1>a DEF WriteRecord
    <2> QED
      BY <1>1, <2>1 DEF WriteRecord, Base, WellFormed, Signed, checkpointVars, inputVars,
                        derivedVars
  <1>2. CASE EmitCheckpoint
    <2> DEFINE h == [i \in 1..(extent - FirstUncovered) |-> RecordHash(FirstUncovered + i - 1)]
    <2>1. PICK time \in scenario.times :
             notes' = Append(notes, BuildNote(<<"main", Len(notes) + 1>>, FirstUncovered, h,
                                              time, RecorderCert, LastNoteHash))
      BY <1>2 DEF EmitCheckpoint
    <2>2. FirstUncovered \in Nat /\ FirstUncovered < extent
      <3>1. CASE notes = <<>>
        BY <1>2, <3>1 DEF EmitCheckpoint, FirstUncovered
      <3>2. CASE notes # <<>>
        <4>1. Len(notes) \in DOMAIN notes
          BY <1>b, <3>2 DEF Base, IsSeq
        <4>2. notes[Len(notes)].seq_to \in Nat
          BY <1>a, <1>c, <4>1 DEF WellFormed
        <4> QED
          BY <1>2, <3>2, <4>2 DEF EmitCheckpoint, FirstUncovered
      <3> QED
        BY <3>1, <3>2
    <2>3. IsSeq(h) /\ Len(h) = extent - FirstUncovered /\ extent - FirstUncovered \in Nat \ {0}
      <3>1. extent - FirstUncovered \in Nat \ {0}
        BY <2>2, <1>a
      <3>2. h = [i \in 1..(extent - FirstUncovered) |-> h[i]]
        OBVIOUS
      <3> HIDE DEF h
      <3> QED
        BY <3>1, <3>2, FunctionSeq
    <2> DEFINE note == BuildNote(<<"main", Len(notes) + 1>>, FirstUncovered, h, time,
                                 RecorderCert, LastNoteHash)
    <2> HIDE DEF h
    <2>4. /\ IsNote(note)
          /\ note.ts_wall = time
          /\ note.seq_from = FirstUncovered
          /\ note.seq_to = FirstUncovered + (extent - FirstUncovered) - 1
      <3> DEFINE id   == <<"main", Len(notes) + 1>>
                 from == FirstUncovered
                 prev == LastNoteHash
                 size == extent - FirstUncovered
      <3>1. note = BuildNote(id, from, h, time, RecorderCert, prev)
        OBVIOUS
      <3>2. IsSeq(h) /\ Len(h) = size /\ size \in Nat \ {0} /\ from \in Nat
        BY <2>2, <2>3
      <3> HIDE DEF note, id, from, prev, size
      <3>3. IsNote(note) /\ note.ts_wall = time /\ note.seq_from = from
              /\ note.seq_to = from + size - 1
        BY <3>1, <3>2 DEF BuildNote, IsNote
      <3> QED
        BY <3>3 DEF from, size
    <2> HIDE DEF note
    <2>5. WellFormed(note)
      BY <1>a, <2>2, <2>4 DEF WellFormed, Base
    <2>6. IsSeq(notes') /\ \A n \in Signed' : n \in Signed \/ n = note
      <3>1. notes' = Append(notes, note) /\ forks' = forks
        BY <1>2, <2>1 DEF EmitCheckpoint, note
      <3>2. IsSeq(notes') /\ Len(notes') = Len(notes) + 1 /\ notes'[Len(notes) + 1] = note
        BY <3>1, AppendFacts DEF Base
      <3>3. \A i \in 1..Len(notes) : notes'[i] = notes[i]
        BY <3>1, AppendFacts DEF Base
      <3>4. DOMAIN notes' = 1..Len(notes')
        BY <3>2 DEF IsSeq
      <3> QED
        BY <3>1, <3>2, <3>3, <3>4, <1>b DEF Signed
    <2> QED
      BY <1>2, <2>5, <2>6, BaseWithNotes DEF EmitCheckpoint
  <1>3. CASE EmitForked
    <2>1. PICK i \in DOMAIN notes, n \in 1..scenario.max_records, time \in scenario.times :
             /\ notes[i].seq_from + n <= scenario.max_records
             /\ forks' = {BuildNote(<<"fork", i>>, notes[i].seq_from,
                                    [k \in 1..n |-> ForkHash(notes[i].seq_from + k - 1)],
                                    time, RecorderCert, notes[i].prev_checkpoint_hash)}
      BY <1>3 DEF EmitForked
    <2> DEFINE h    == [k \in 1..n |-> ForkHash(notes[i].seq_from + k - 1)]
               note == BuildNote(<<"fork", i>>, notes[i].seq_from, h, time, RecorderCert,
                                 notes[i].prev_checkpoint_hash)
    <2>2. IsSeq(h) /\ Len(h) = n /\ n \in Nat \ {0}
      <3>1. h = [k \in 1..n |-> h[k]] /\ n \in Nat \ {0}
        BY <1>a
      <3> HIDE DEF h
      <3> QED
        BY <3>1, FunctionSeq
    <2>3. notes[i].seq_from \in Nat
      BY <1>a, <1>c DEF WellFormed
    <2>a. forks' = {note}
      BY <2>1
    <2> HIDE DEF h
    <2> DEFINE from == notes[i].seq_from
               prev == notes[i].prev_checkpoint_hash
               id   == <<"fork", i>>
    <2>b. note = BuildNote(id, from, h, time, RecorderCert, prev) /\ from \in Nat
      BY <2>3
    <2> HIDE DEF note, from, prev, id
    <2>c. /\ IsNote(note)
          /\ note.ts_wall = time
          /\ note.seq_from = from
          /\ note.seq_to = from + n - 1
      BY <2>2, <2>b DEF BuildNote, IsNote
    <2>4. /\ IsNote(note)
          /\ note.ts_wall = time
          /\ note.seq_from = notes[i].seq_from
          /\ note.seq_to = notes[i].seq_from + n - 1
      BY <2>c DEF from
    <2>5. WellFormed(note)
      BY <1>a, <2>1, <2>2, <2>3, <2>4 DEF WellFormed
    <2>6. IsSeq(notes') /\ \A m \in Signed' : m \in Signed \/ m = note
      BY <1>3, <2>a DEF EmitForked, Signed, Base
    <2> QED
      BY <1>3, <2>5, <2>6, BaseWithNotes DEF EmitForked
  <1>4. CASE EmitReversed
    <2>1. PICK i \in DOMAIN notes, to \in 0..(extent - 1), time \in scenario.times :
             forks' = {Reversed(notes[i], <<"reversed", i>>, to, time)}
      BY <1>4, Zenon DEF EmitReversed, Reversed
    <2> DEFINE note == Reversed(notes[i], <<"reversed", i>>, to, time)
    <2>2. IsNote(notes[i]) /\ notes[i].seq_from \in 0..(scenario.max_records - 1)
      BY <1>c DEF WellFormed
    <2>3. /\ IsNote(note)
          /\ note.ts_wall = time
          /\ note.seq_from = notes[i].seq_from
          /\ note.seq_to = to
      BY <2>2, ReversedNote
    <2>a. forks' = {note}
      BY <2>1
    <2> HIDE DEF note
    <2>4. WellFormed(note)
      BY <1>a, <2>2, <2>3 DEF WellFormed, Base
    <2>b. UNCHANGED <<extent, notes, countersignatures, scenario, stage, pinned, checkpointVars>>
      BY <1>4, Zenon DEF EmitReversed
    <2>5. IsSeq(notes') /\ \A m \in Signed' : m \in Signed \/ m = note
      BY <2>a, <2>b DEF Signed, Base
    <2> QED
      BY <2>b, <2>4, <2>5, BaseWithNotes
  <1>5. CASE Countersign
    <2>1. PICK i \in DOMAIN notes, stated \in scenario.high_waters :
             \E hw \in notes[i].seq_to..(extent - 1) :
                countersignatures' = countersignatures
                      \cup {[checkpoint_id |-> notes[i].checkpoint_id,
                             stream_high_water_seq |-> IF stated THEN Some(hw) ELSE None]}
      BY <1>5 DEF Countersign
    <2>2. PICK hw \in notes[i].seq_to..(extent - 1) :
             countersignatures' = countersignatures
                   \cup {[checkpoint_id |-> notes[i].checkpoint_id,
                          stream_high_water_seq |-> IF stated THEN Some(hw) ELSE None]}
      BY <2>1
    <2>3. hw \in Int
      BY <1>a, <1>c DEF WellFormed
    <2>4. \A c \in countersignatures' :
             c.stream_high_water_seq = None \/ Get(c.stream_high_water_seq) \in Int
      BY <2>2, <2>3 DEF Base, Some, Get, None
    <2> QED
      BY <1>5, <2>4 DEF Countersign, Base, WellFormed, Signed, checkpointVars, inputVars,
                        derivedVars
  <1>6. CASE ExportHonest
    <2>1. pinned' = None \/ Get(pinned') \in Nat
      BY <1>6, <1>a DEF ExportHonest, Pin
    <2>2. PICK from \in scenario.honest_from, to \in 0..(extent - 1) :
             hashes_by_seq' = [s \in from..to |-> RecordHash(s)]
      BY <1>6 DEF ExportHonest
    <2>3. from..to \subseteq 0..(scenario.max_records - 1)
      BY <1>a DEF Base
    <2> QED
      BY <1>6, <2>1, <2>2, <2>3, BaseWithBundle
      DEF ExportHonest, lookupVars, derivedVars, Base
  <1>7. CASE ExportAny
    <2>1. pinned' = None \/ Get(pinned') \in Nat
      BY <1>7, <1>a DEF ExportAny, Pin
    <2>2. PICK present \in SUBSET (0..(extent - 1)) : DOMAIN hashes_by_seq' = present
      BY <1>7 DEF ExportAny
    <2>3. present \subseteq 0..(scenario.max_records - 1)
      BY <1>a DEF Base
    <2> QED
      BY <1>7, <2>1, <2>2, <2>3, BaseWithBundle
      DEF ExportAny, lookupVars, derivedVars, Base
  <1>8. CASE ReadsListable
    <2>1. PICK bc : Reads(bc)
      BY <1>8 DEF ReadsListable
    <2>2. IsSeq(checked')
      BY <2>1, AppendFacts DEF Reads, VerifyCheckpoint, Base
    <2> QED
      BY <2>1, <2>2, BaseWithBundle DEF Reads, VerifyCheckpoint, inputVars, lookupVars, Base
  <1>9. CASE Finish
    BY <1>9, BaseWithBundle DEF Finish, CrossCheck, inputVars, lookupVars, Base
  <1>10. CASE UNCHANGED systemVars
    BY <1>10, BaseWithBundle DEF systemVars, checkpointVars, inputVars, derivedVars, lookupVars,
                                 Base
  <1>11. CASE CheckExported \/ CheckAny
    <2>1. \A n \in Signed : IsNote(n)
      BY DEF Base, WellFormed
    <2> QED
      BY <1>11, <2>1, <1>8, ChecksListable DEF Base
  <1> QED
    BY <1>1, <1>2, <1>3, <1>4, <1>5, <1>6, <1>7, <1>9, <1>10, <1>11 DEF Next

-----------------------------------------------------------------------------
(* The list read so far. *)

Listed == {checked[i] : i \in DOMAIN checked}

LEMMA ListedGrows ==
    ASSUME IsSeq(checked), NEW bc, checked' = Append(checked, bc)
    PROVE  Listed' = Listed \cup {bc}
  <1>1. /\ IsSeq(checked') /\ Len(checked) \in Nat /\ Len(checked') = Len(checked) + 1
        /\ \A i \in 1..Len(checked) : checked'[i] = checked[i]
        /\ checked'[Len(checked) + 1] = bc
    BY AppendFacts
  <1>2. DOMAIN checked = 1..Len(checked) /\ DOMAIN checked' = 1..Len(checked')
    BY <1>1 DEF IsSeq
  <1>3. Listed' \subseteq Listed \cup {bc}
    BY <1>1, <1>2 DEF Listed
  <1>4. ASSUME NEW x \in Listed PROVE x \in Listed'
    <2>1. PICK i \in 1..Len(checked) : x = checked[i]
      BY <1>2 DEF Listed
    <2> QED
      BY <1>1, <1>2, <2>1 DEF Listed
  <1>5. bc \in Listed'
    BY <1>1, <1>2 DEF Listed
  <1> QED
    BY <1>3, <1>4, <1>5

\* A checkpoint is judged the same however often it is looked at.
LEMMA JudgedAlike ==
    ASSUME UNCHANGED lookupVars, NEW bc
    PROVE  /\ Rejection(bc)' = Rejection(bc)
           /\ AssertedHighWater(bc)' = AssertedHighWater(bc)
  BY DEF lookupVars, Rejection, RevokedWhenSigned, IsRevokedAt, AssertedHighWater,
         CountersignatureVerifies

\* The kinds of a step, once Base holds.
LEMMA BaseSteps ==
    ASSUME Base, [Next]_systemVars
    PROVE  Records \/ Exports \/ ReadsListable \/ Finish \/ UNCHANGED systemVars
  BY StepKinds DEF Base, WellFormed

\* What reading a checkpoint always does.
LEMMA ReadFacts ==
    ASSUME Base, NEW bc, Reads(bc)
    PROVE  /\ UNCHANGED lookupVars
           /\ UNCHANGED <<hashes_by_seq, stage, pinned, scenario>>
           /\ Signed' = Signed
           /\ Listed' = Listed \cup {bc}
           /\ findings \subseteq findings'
           /\ ranges \subseteq ranges'
  <1>1. UNCHANGED lookupVars /\ UNCHANGED <<hashes_by_seq, stage, pinned, scenario>>
        /\ Signed' = Signed
    BY DEF Reads, VerifyCheckpoint, inputVars, lookupVars, recordingVars, Signed
  <1>2. Listed' = Listed \cup {bc}
    BY ListedGrows DEF Reads, VerifyCheckpoint, Base
  <1>3. findings \subseteq findings' /\ ranges \subseteq ranges'
    BY DEF Reads, VerifyCheckpoint, RejectCheckpoint, RejectRoot, RejectCountersignature,
           AcceptCheckpoint, RecordRange
  <1> QED
    BY <1>1, <1>2, <1>3

-----------------------------------------------------------------------------
(* Forks over one range. *)

RangeOf(note) == [from |-> note.seq_from, to |-> note.seq_to, root |-> note.merkle_root]

\* The ranges hold every note signed in good time, and two that differ in their
\* root only were reported.
RangesInv ==
    /\ \A bc \in Listed : Rejection(bc) = None => RangeOf(bc.note) \in ranges
    /\ \A r \in ranges, q \in ranges :
          r.from <= r.to /\ r.from = q.from /\ r.to = q.to /\ r.root # q.root =>
             "chain_fork_detected" \in findings

LEMMA RangesInit == SystemInit => RangesInv
  BY DEF SystemInit, CheckpointsInit, RangesInv, Listed

LEMMA RangesNext == Base /\ RangesInv /\ [Next]_systemVars => RangesInv'
  <1> SUFFICES ASSUME Base, RangesInv, [Next]_systemVars PROVE RangesInv'
    OBVIOUS
  <1>1. CASE Records \/ Exports \/ Finish \/ UNCHANGED systemVars
    <2>1. UNCHANGED lookupVars /\ Listed' = Listed /\ ranges' = ranges /\ findings \subseteq findings'
      BY <1>1 DEF Records, Exports, Finish, CrossCheck, systemVars, checkpointVars, inputVars,
                  derivedVars, lookupVars, Listed
    <2> QED
      BY <2>1, JudgedAlike DEF RangesInv
  <1>2. CASE ReadsListable
    <2>1. PICK bc : Reads(bc)
      BY <1>2 DEF ReadsListable
    <2>2. CASE Rejection(bc) # None
      <3>1. ranges' = ranges
        BY <2>1, <2>2 DEF Reads, VerifyCheckpoint, RejectCheckpoint, RejectRoot,
                          RejectCountersignature, AcceptCheckpoint
      <3> QED
        BY <2>1, <2>2, <3>1, ReadFacts, JudgedAlike DEF RangesInv
    <2>3. CASE Rejection(bc) = None
      <3>1. ranges' = ranges \cup {RangeOf(bc.note)}
        BY <2>1, <2>3 DEF Reads, VerifyCheckpoint, RejectCheckpoint, RejectRoot,
                          RejectCountersignature, AcceptCheckpoint, RecordRange, RangeOf
      <3>2. Forks(bc.note) => "chain_fork_detected" \in findings'
        BY <2>1, <2>3 DEF Reads, VerifyCheckpoint, RejectCheckpoint, RejectRoot,
                          RejectCountersignature, AcceptCheckpoint, NoteFindings
      <3>3. \A x \in Listed' : Rejection(x)' = None => RangeOf(x.note) \in ranges'
        BY <2>1, <3>1, ReadFacts, JudgedAlike DEF RangesInv
      <3>4. ASSUME NEW r \in ranges', NEW q \in ranges', r.from <= r.to, r.from = q.from,
                   r.to = q.to, r.root # q.root
            PROVE  "chain_fork_detected" \in findings'
        <4>1. CASE r \in ranges /\ q \in ranges
          BY <2>1, <3>4, <4>1, ReadFacts DEF RangesInv
        <4>2. CASE r = RangeOf(bc.note) /\ q \in ranges
          BY <3>2, <3>4, <4>2 DEF Forks, RangeOf
        <4>3. CASE q = RangeOf(bc.note) /\ r \in ranges
          BY <3>2, <3>4, <4>3 DEF Forks, RangeOf
        <4> QED
          BY <3>1, <3>4, <4>1, <4>2, <4>3
      <3> QED
        BY <3>3, <3>4 DEF RangesInv
    <2> QED
      BY <2>2, <2>3
  <1> QED
    BY <1>1, <1>2, BaseSteps

\* For any number of notes and checkpoints, listed in any order, edited or not:
\* two notes that verify_checkpoints takes for the recorder's own, over the same
\* range of records with different roots, are reported as a fork.
THEOREM ForksReported == Spec => []SameRangeForksReported
  <1>1. ASSUME RangesInv PROVE SameRangeForksReported
    <2>1. \A bc \in Vouched : bc \in Listed /\ Rejection(bc) = None
      BY DEF Vouched, Listed
    <2>2. \A bc \in Vouched : RangeOf(bc.note) \in ranges
      BY <1>1, <2>1 DEF RangesInv
    <2>3. \A note : /\ RangeOf(note).from = note.seq_from
                    /\ RangeOf(note).to = note.seq_to
                    /\ RangeOf(note).root = note.merkle_root
      BY DEF RangeOf
    <2> QED
      BY <1>1, <2>2, <2>3 DEF RangesInv, SameRangeForksReported
  <1> QED
    BY <1>1, BaseInit, BaseNext, RangesInit, RangesNext, PTL DEF Spec

-----------------------------------------------------------------------------
(* Revocation. *)

\* The note is dated before every revocation of its certificate that counts, or
\* at a time that cannot be read.
Timely(note) ==
    note.ts_wall # None /\ revocations # None =>
       \A r \in Get(revocations) :
          r.cert = note.recorder_cert_fingerprint /\ r.effective_at # None =>
             Get(note.ts_wall) < Get(r.effective_at)

TimesInv == \A s \in attested_seqs : \E bc \in Listed : s \in Seqs(bc.note) /\ Timely(bc.note)

\* A checkpoint that passes the first checks is timely.
LEMMA UnrejectedTimely ==
    ASSUME Base, NEW bc, Listable(bc), Rejection(bc) = None
    PROVE  Timely(bc.note)
  <1>1. bc.note.ts_wall = None \/ Get(bc.note.ts_wall) \in Int
    BY SystemAssumption DEF Base, Listable, WellFormed
  <1>2. revocations # None =>
           \A r \in Get(revocations) : r.effective_at = None \/ Get(r.effective_at) \in Int
    BY SystemAssumption DEF Base
  <1>3. ~RevokedWhenSigned(bc.note)
    BY DEF Rejection, Some, None
  <1> QED
    BY <1>1, <1>2, <1>3 DEF RevokedWhenSigned, IsRevokedAt, Timely

\* Only an unrejected checkpoint attests, and only its own range.
LEMMA AttestsOwn ==
    ASSUME NEW bc, Reads(bc)
    PROVE  \/ attested_seqs' = attested_seqs
           \/ /\ Rejection(bc) = None
              /\ ~RootMismatch(bc.note)
              /\ FullyExported(bc.note)
              /\ attested_seqs' = attested_seqs \cup Seqs(bc.note)
  BY DEF Reads, VerifyCheckpoint, RejectCheckpoint, RejectRoot, RejectCountersignature,
         AcceptCheckpoint, Attest

LEMMA TimesNext == Base /\ TimesInv /\ [Next]_systemVars => TimesInv'
  <1> SUFFICES ASSUME Base, TimesInv, [Next]_systemVars PROVE TimesInv'
    OBVIOUS
  <1>1. ASSUME UNCHANGED lookupVars, NEW note PROVE Timely(note)' <=> Timely(note)
    BY <1>1 DEF lookupVars, Timely
  <1>2. \A note : Seqs(note)' = Seqs(note)
    BY DEF Seqs
  <1>3. CASE Records \/ Exports \/ Finish \/ UNCHANGED systemVars
    <2>1. UNCHANGED lookupVars /\ Listed' = Listed /\ attested_seqs' = attested_seqs
      BY <1>3 DEF Records, Exports, Finish, CrossCheck, systemVars, checkpointVars, inputVars,
                  derivedVars, lookupVars, Listed
    <2> QED
      BY <1>1, <1>2, <2>1 DEF TimesInv
  <1>4. CASE ReadsListable
    <2>1. PICK bc : Reads(bc) /\ Listable(bc)
      BY <1>4 DEF ReadsListable
    <2>2. UNCHANGED lookupVars /\ Listed' = Listed \cup {bc}
      BY <2>1, ReadFacts
    <2> QED
      BY <1>1, <1>2, <2>1, <2>2, AttestsOwn, UnrejectedTimely DEF TimesInv
  <1> QED
    BY <1>3, <1>4, BaseSteps

\* For any revocations and any dates of notes: every attested record is in the
\* range of a listed note dated before its certificate was revoked, or at a time
\* that cannot be read.
THEOREM AttestedInTime == Spec => []AttestedBeforeRevocation
  <1>1. SystemInit => TimesInv
    BY DEF SystemInit, CheckpointsInit, TimesInv
  <1>2. TimesInv => AttestedBeforeRevocation
    BY DEF TimesInv, Timely, AttestedBeforeRevocation, Listed
  <1> QED
    BY <1>1, <1>2, BaseInit, BaseNext, TimesNext, PTL DEF Spec

-----------------------------------------------------------------------------
(* High-water marks. *)

IsMark(option) == option = None \/ Get(option) \in Int

\* Unless an error was found, the mark kept is at least each one asserted so
\* far; and once all is read, the bundle reaches the marks or is in error.
MarksInv ==
    /\ IsMark(countersigned_high_water)
    /\ \A bc \in Listed :
          /\ IsMark(AssertedHighWater(bc))
          /\ AssertedHighWater(bc) # None /\ Clean =>
                /\ countersigned_high_water # None
                /\ Get(countersigned_high_water) >= Get(AssertedHighWater(bc))
    /\ stage = "done" /\ Clean => ~Truncated(pinned)

\* MaxWith keeps the larger one.
LEMMA MaxWithFacts ==
    ASSUME NEW option, IsMark(option), NEW n \in Int
    PROVE  /\ MaxWith(option, n) # None
           /\ Get(MaxWith(option, n)) \in Int
           /\ Get(MaxWith(option, n)) >= n
           /\ option # None => Get(MaxWith(option, n)) >= Get(option)
  BY DEF MaxWith, IsMark, Some, None, Get

\* Checkpoints that are not accepted are errors.
LEMMA OnlyAcceptedClean ==
    ASSUME NEW bc, Reads(bc), Clean'
    PROVE  AcceptCheckpoint(bc)
  <1>1. RejectCheckpoint(bc) => ~Clean'
    BY DEF RejectCheckpoint, Rejection, Some, None, Get, Clean, ErrorClasses
  <1>2. RejectRoot(bc) => ~Clean'
    BY DEF RejectRoot, NoteFindings, Clean, ErrorClasses
  <1>3. RejectCountersignature(bc) => ~Clean'
    BY DEF RejectCountersignature, Clean, ErrorClasses
  <1> QED
    BY <1>1, <1>2, <1>3 DEF Reads, VerifyCheckpoint

LEMMA MarksNext == Base /\ MarksInv /\ [Next]_systemVars => MarksInv'
  <1> SUFFICES ASSUME Base, MarksInv, [Next]_systemVars PROVE MarksInv'
    OBVIOUS
  <1>1. CASE Records \/ Exports \/ UNCHANGED systemVars
    <2>1. /\ UNCHANGED lookupVars /\ Listed' = Listed /\ Clean' = Clean
          /\ countersigned_high_water' = countersigned_high_water
          /\ stage' = "done" => /\ stage = "done"
                                /\ UNCHANGED <<pinned, hashes_by_seq>>
      BY <1>1 DEF Records, Exports, systemVars, checkpointVars, inputVars, derivedVars,
                  lookupVars, Listed, Clean
    <2>2. stage' = "done" => Truncated(pinned)' = Truncated(pinned)
      BY <2>1 DEF Truncated, RequiredHighWater
    <2> QED
      BY <2>1, <2>2, JudgedAlike DEF MarksInv, IsMark
  <1>2. CASE Finish
    <2>1. /\ UNCHANGED lookupVars /\ Listed' = Listed
          /\ UNCHANGED <<countersigned_high_water, pinned, hashes_by_seq>>
          /\ findings' = findings \cup CoverageFindings(pinned)
      BY <1>2 DEF Finish, CrossCheck, inputVars, lookupVars, Listed
    <2>2. Clean' => Clean /\ ~Truncated(pinned)
      BY <2>1 DEF Clean, CoverageFindings, ErrorClasses
    <2>3. Truncated(pinned)' = Truncated(pinned)
      BY <2>1 DEF Truncated, RequiredHighWater
    <2> QED
      BY <2>1, <2>2, <2>3, JudgedAlike DEF MarksInv, IsMark
  <1>3. CASE ReadsListable
    <2>1. PICK bc : Reads(bc) /\ Listable(bc)
      BY <1>3 DEF ReadsListable
    <2>2. /\ UNCHANGED lookupVars /\ Listed' = Listed \cup {bc}
          /\ findings \subseteq findings' /\ stage' = "verifying"
      BY <2>1, ReadFacts DEF Reads
    <2>3. Clean' => Clean
      BY <2>2 DEF Clean
    <2>4. IsMark(AssertedHighWater(bc))
      BY <2>1 DEF Listable, AssertedHighWater, IsMark, Base
    <2>5. \/ countersigned_high_water' = countersigned_high_water
          \/ countersigned_high_water' = Raised(AssertedHighWater(bc))
      BY <2>1 DEF Reads, VerifyCheckpoint, RejectCheckpoint, RejectRoot,
                  RejectCountersignature, AcceptCheckpoint
    <2>6. Clean' => countersigned_high_water' = Raised(AssertedHighWater(bc))
      BY <2>1, OnlyAcceptedClean DEF AcceptCheckpoint
    <2>7. /\ IsMark(Raised(AssertedHighWater(bc)))
          /\ AssertedHighWater(bc) # None =>
                /\ Raised(AssertedHighWater(bc)) # None
                /\ Get(Raised(AssertedHighWater(bc))) >= Get(AssertedHighWater(bc))
          /\ countersigned_high_water # None =>
                /\ Raised(AssertedHighWater(bc)) # None
                /\ Get(Raised(AssertedHighWater(bc))) >= Get(countersigned_high_water)
      <3>1. IsMark(countersigned_high_water)
        BY DEF MarksInv
      <3>2. CASE AssertedHighWater(bc) = None
        BY <3>1, <3>2 DEF Raised, IsMark
      <3>3. CASE AssertedHighWater(bc) # None
        <4>1. Get(AssertedHighWater(bc)) \in Int
          BY <2>4, <3>3 DEF IsMark
        <4>2. Raised(AssertedHighWater(bc))
                 = MaxWith(countersigned_high_water, Get(AssertedHighWater(bc)))
          BY <3>3 DEF Raised
        <4>3. IsMark(Raised(AssertedHighWater(bc)))
          BY <3>1, <4>1, <4>2, MaxWithFacts DEF IsMark
        <4> QED
          BY <3>1, <4>1, <4>2, <4>3, MaxWithFacts
      <3> QED
        BY <3>2, <3>3
    <2>8. IsMark(countersigned_high_water')
      BY <2>5, <2>7 DEF MarksInv
    <2>9. ASSUME NEW x \in Listed'
          PROVE  /\ IsMark(AssertedHighWater(x)')
                 /\ AssertedHighWater(x)' # None /\ Clean' =>
                       /\ countersigned_high_water' # None
                       /\ Get(countersigned_high_water') >= Get(AssertedHighWater(x)')
      <3>1. AssertedHighWater(x)' = AssertedHighWater(x)
        BY <2>2, JudgedAlike
      <3>2. CASE x = bc
        BY <2>4, <2>6, <2>7, <3>1, <3>2
      <3>3. CASE x \in Listed
        BY <2>3, <2>6, <2>7, <3>1, <3>3 DEF MarksInv, IsMark
      <3> QED
        BY <2>2, <3>2, <3>3
    <2> QED
      BY <2>2, <2>8, <2>9 DEF MarksInv, IsMark
  <1> QED
    BY <1>1, <1>2, <1>3, BaseSteps

\* For any bundle: if the verdict has no error, the records reach every mark
\* that a verified countersignature in the bundle states.
THEOREM MarksReached == Spec => []ReachesHighWater
  <1>1. SystemInit => MarksInv
    BY DEF SystemInit, CheckpointsInit, MarksInv, Listed, IsMark
  <1>2. ASSUME Base, MarksInv PROVE ReachesHighWater
    <2> SUFFICES ASSUME stage = "done", Clean, NEW bc \in Listed, AssertedHighWater(bc) # None
                 PROVE  \E s \in DOMAIN hashes_by_seq : s >= Get(AssertedHighWater(bc))
      BY DEF ReachesHighWater, Listed
    <2>1. /\ IsMark(countersigned_high_water) /\ countersigned_high_water # None
          /\ Get(AssertedHighWater(bc)) \in Int
          /\ Get(countersigned_high_water) >= Get(AssertedHighWater(bc))
          /\ ~Truncated(pinned)
      BY <1>2 DEF MarksInv, IsMark
    <2>2. /\ RequiredHighWater(pinned) # None
          /\ Get(RequiredHighWater(pinned)) \in Int
          /\ Get(RequiredHighWater(pinned)) >= Get(countersigned_high_water)
      <3>1. CASE pinned = None
        BY <2>1, <3>1 DEF RequiredHighWater, IsMark
      <3>2. CASE pinned # None
        <4>1. Get(pinned) \in Int
          BY <1>2, <3>2 DEF Base
        <4>2. RequiredHighWater(pinned) = MaxWith(countersigned_high_water, Get(pinned))
          BY <3>2 DEF RequiredHighWater
        <4> QED
          BY <2>1, <4>1, <4>2, MaxWithFacts
      <3> QED
        BY <3>1, <3>2
    <2>3. PICK s \in DOMAIN hashes_by_seq : ~(s < Get(RequiredHighWater(pinned)))
      BY <2>1, <2>2 DEF Truncated
    <2>4. s \in Int
      BY <1>2, SystemAssumption, WidthAssumption DEF Base
    <2> QED
      BY <2>1, <2>2, <2>3, <2>4 DEF IsMark
  <1> QED
    BY <1>1, <1>2, BaseInit, BaseNext, MarksNext, PTL DEF Spec

=============================================================================
