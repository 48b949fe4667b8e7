------------------------- MODULE MCCheckpointSystem -------------------------
(* Values of the constants of CheckpointSystem. *)
EXTENDS CheckpointSystem

\* One revocation that counts and one whose time cannot be read.
MCRevocations == Some({[cert |-> "recorder", effective_at |-> Some(1)],
                       [cert |-> "recorder", effective_at |-> None]})

\* The recorder's own exports: where they begin, pinned extents, and
\* countersignatures with and without a high-water mark.
HonestExports ==
    [honest |-> TRUE, console_keys |-> {"console"}, revocations |-> MCRevocations,
     max_records |-> 4, max_notes |-> 3, max_checked |-> 0, times |-> {Some(0)},
     high_waters |-> BOOLEAN, pins |-> {None, Some(2)}, honest_from |-> {0, 1},
     scoped |-> FALSE, forking |-> FALSE, reversing |-> FALSE, tampering |-> FALSE, edits |-> {}]

\* Exports that end before the stream does.
ScopedExports ==
    [HonestExports EXCEPT !.scoped = TRUE, !.max_records = 3, !.max_notes = 2,
                          !.pins = {None, Some(1)}]

\* Any subset of the records with any list of genuine checkpoints.
SubsetBundles ==
    [HonestExports EXCEPT !.honest = FALSE, !.max_records = 3, !.max_checked = 3,
                          !.pins = {None}]

\* Records replaced, and notes edited to follow them: links and roots rewritten,
\* countersignatures of one note given to another.
EditedBundles ==
    [SubsetBundles EXCEPT !.max_notes = 2, !.max_checked = 2, !.high_waters = {TRUE},
                          !.tampering = TRUE, !.edits = {"unlinked", "rerooted", "swapped"}]

\* Records replaced, and notes and countersignatures of other origin.
ForeignBundles ==
    [EditedBundles EXCEPT !.edits = {"stream", "cert", "countersignature"}]

\* Notes of two histories, with and without matching records.
ForkedBundles ==
    [SubsetBundles EXCEPT !.max_notes = 2, !.max_checked = 2, !.high_waters = {TRUE},
                          !.console_keys = {}, !.forking = TRUE, !.tampering = TRUE]

\* A note over a range that ends before it begins, by one record or by more.
ReversedBundles ==
    [SubsetBundles EXCEPT !.max_notes = 3, !.max_checked = 2, !.high_waters = {TRUE},
                          !.console_keys = {}, !.reversing = TRUE]

\* Notes dated before, at and after the revocation, or at an unreadable time.
RevokedBundles ==
    [SubsetBundles EXCEPT !.max_notes = 2, !.max_checked = 2, !.high_waters = {TRUE},
                          !.times = {None, Some(0), Some(1), Some(2)}]

MCScenarios == {HonestExports, ScopedExports, SubsetBundles, EditedBundles, ForeignBundles,
                ForkedBundles, ReversedBundles, RevokedBundles}
=============================================================================
