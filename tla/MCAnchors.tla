----------------------------- MODULE MCAnchors -----------------------------
(* Values of the constants of Anchors. *)
EXTENDS Anchors

MCStreamOrder == <<"s1", "s2">>

\* Two linked notes of one stream and one of another.
MCNotes == {[id |-> "n1", stream |-> "s1", seqs |-> {0, 1}, digest |-> <<"note", "n1">>],
            [id |-> "n2", stream |-> "s1", seqs |-> {2}, digest |-> <<"note", "n2">>],
            [id |-> "n3", stream |-> "s2", seqs |-> {0}, digest |-> <<"note", "n3">>]}

\* The console's anchors as it wrote them, at different times.
HonestAnchors == [faults |-> {}, times |-> {1, 2}, max_batches |-> 2, max_days |-> 1]

\* A batch and a day with any fault.
FaultyAnchors ==
    [faults |-> {"lost", "refused", "signer", "imprint", "resigned", "alg", "digest", "keyed",
                 "root", "binding", "misnamed", "unproved", "day_root", "day_key"},
     times |-> {1}, max_batches |-> 1, max_days |-> 1]

MCScenarios == {HonestAnchors, FaultyAnchors}
=============================================================================
