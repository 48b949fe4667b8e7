------------------------------ MODULE Anchors ------------------------------
(***************************************************************************)
(* The anchors a bundle may hold, and what AnchorVerifier makes of them:   *)
(* those the console wrote, with at most one fault each, after any         *)
(* checkpoint verification.                                                *)
(***************************************************************************)
EXTENDS AnchorVerifier

CONSTANTS
    Notes,          \* the recorders' notes: [id, stream, seqs, digest]
    ConsoleKey,     \* key the console signs daily roots with
    Scenarios       \* what a bundle may hold, and bounds

\* A scenario is fixed for a behaviour: how anchors may differ from what the
\* console wrote, the genTime values, and the numbers of batches and days.
ASSUME AnchorAssumption ==
    \A x \in Scenarios : x.max_batches \in Nat /\ x.max_days \in Nat /\ x.times \subseteq Nat

\* Checkpoint ids are unique, and a note's digest covers its id.
ASSUME NotesAssumption ==
    \A m \in Notes, n \in Notes : m.id = n.id \/ m.digest = n.digest => m = n

VARIABLE scenario

-----------------------------------------------------------------------------
(* Faults. *)

By(fault, changed) == IF fault \in scenario.faults THEN {changed} ELSE {}

\* The token files for an imprint and a time: the authority's, or a faulty one.
FilesAt(imprint, t) ==
    LET good == Stamp(imprint, t)
    IN  {Some(File(good))}
          \cup By("lost", Some([stored |-> FALSE, token |-> good]))
          \cup By("refused", Some(File([good EXCEPT !.form = "rejected"])))
          \cup By("signer", Some(File([good EXCEPT !.sid = Some(2)])))
          \cup By("imprint", Some(File(Stamp(Sha256(<<"other">>), t))))
          \cup By("alg", Some(File([good EXCEPT !.tst.alg = "sha1"])))
          \cup By("digest", Some(File([good EXCEPT !.tst.time = t + 1])))
          \cup By("keyed", Some(File([good EXCEPT !.sid = None])))
          \cup By("resigned", Some(File([good EXCEPT !.signature = Signature("else", @[3])])))

\* The token files for an imprint, or none yet.
TokenFiles(imprint) == {None} \cup UNION {FilesAt(imprint, t) : t \in scenario.times}

WithCheckpoints(batch, included) == [batch EXCEPT !.checkpoints = included]

ListedFor(inc, note) == [inc EXCEPT !.id = note.id]

Misnamed(batch) ==
    {WithCheckpoints(batch, (batch.checkpoints \ {inc}) \cup {ListedFor(inc, n)}) :
        inc \in batch.checkpoints, n \in Notes}

Unproved(batch) ==
    {WithCheckpoints(batch, (batch.checkpoints \ {inc}) \cup {[inc EXCEPT !.proved = FALSE]}) :
        inc \in batch.checkpoints}

\* A batch as the console wrote it, or a faulty one.
BatchesFrom(good) ==
    {good}
      \cup By("root", [good EXCEPT !.root = <<"garbage", {}>>])
      \cup By("binding", [good EXCEPT !.root_sha256 = Sha256(<<"other">>)])
      \cup (IF "misnamed" \in scenario.faults THEN Misnamed(good) ELSE {})
      \cup (IF "unproved" \in scenario.faults THEN Unproved(good) ELSE {})

ReadBatch ==
    /\ days = <<>>
    /\ Len(batches) < scenario.max_batches
    /\ \E notes \in SUBSET Notes \ {{}} :
          \E file \in TokenFiles(Sha256(Root({LeafOf(n) : n \in notes}))) :
             \E batch \in BatchesFrom(BuildBatch(notes, file)) : CheckBatch(batch)
    /\ UNCHANGED scenario

\* A daily root over some batches, not signed yet.
BareDay(roots, file) ==
    [root |-> DailyRootOf(roots), batch_roots |-> roots, signature |-> None,
     console_key_id |-> Some(ConsoleKey), qts_file |-> file]

SignedDay(day, key) == [day EXCEPT !.signature = Some(Signature(key, day))]

DaysFrom(bare) ==
    {bare, SignedDay(bare, ConsoleKey)}
      \cup By("day_root", [bare EXCEPT !.root = DailyRootOf(<<>>)])
      \cup By("day_key", SignedDay(bare, "else"))

\* The console's root over the batches of the day, the bundle's among them.
ReadDay ==
    /\ Len(days) < scenario.max_days
    /\ LET roots == [i \in DOMAIN batches |-> batches[i].root]
       IN  \E file \in TokenFiles(Sha256(DailyRootOf(roots))) :
              \E day \in DaysFrom(BareDay(roots, file)) : CheckDay(day)
    /\ UNCHANGED scenario

\* What checkpoint verification may leave behind: a note may be accepted without
\* its records being attested (not all exported), or the other way round (bad
\* countersignature).
AnchorInit ==
    /\ \E acc \in SUBSET Notes, att \in SUBSET Notes :
          /\ accepted = [s \in AnchorStreams |-> {n \in acc : n.stream = s}]
          /\ attested_seqs = [s \in AnchorStreams |->
                                 UNION {n.seqs : n \in {m \in att : m.stream = s}}]
    /\ anchored_seqs = [s \in AnchorStreams |-> {}]
    /\ earliest = None
    /\ findings = {}
    /\ batches = <<>>
    /\ days = <<>>
    /\ scenario \in Scenarios
    /\ console_keys = {ConsoleKey}

AnchorNext == ReadBatch \/ ReadDay

AnchorSpec == AnchorInit /\ [][AnchorNext]_<<anchorVars, scenario>>

-----------------------------------------------------------------------------
(* Properties. *)

Stamped(batch) == batch.tsr_file # None /\ TokenVerifies(Get(batch.tsr_file), Sha256(batch.root))

\* The batches a timestamp authority vouches for, and the accepted notes whose
\* own digest they commit to.
Covering(note) ==
    {i \in DOMAIN batches : Stamped(batches[i]) /\ batches[i].root[1] = "root"
                              /\ LeafOf(note) \in batches[i].root[2]}

\* A record counts as anchored only if it is attested and an accepted checkpoint
\* over it has its digest under a root with a verified timestamp, whatever ids,
\* proofs and tokens the bundle puts together.
AnchoredEarned ==
    \A s \in AnchorStreams : \A q \in anchored_seqs[s] :
       /\ q \in attested_seqs[s]
       /\ \E n \in accepted[s] : q \in n.seqs /\ Covering(n) # {}

\* The console's own anchors are never reported as errors, whatever part of the
\* anchored checkpoints the export holds, and they anchor every attested record
\* of every accepted checkpoint they cover.
HonestAnchorsCount ==
    scenario.faults = {} =>
       /\ findings \cap AnchorErrors = {}
       /\ \A s \in AnchorStreams : \A n \in accepted[s] :
             Covering(n) # {} => n.seqs \cap attested_seqs[s] \subseteq anchored_seqs[s]

\* The anchor time in the report is never later than a timestamp that anchors
\* some record, in whatever order the batches are listed.
EarliestBounds ==
    \A s \in AnchorStreams : \A n \in accepted[s] : \A i \in Covering(n) :
       n.seqs \cap anchored_seqs[s] # {} /\ batches[i].root_sha256 = Sha256(batches[i].root) =>
          earliest # None /\ Get(earliest) <= Get(batches[i].tsr_file).token.tst.time

\* "Earliest anchor time covering any checkpoint": in a bundle without daily
\* roots it is the time of a token over a checkpoint of this bundle.
EarliestCovers ==
    earliest # None /\ days = <<>> =>
       \E s \in AnchorStreams : \E n \in accepted[s] : \E i \in Covering(n) :
          Get(batches[i].tsr_file).token.tst.time = Get(earliest)
=============================================================================
