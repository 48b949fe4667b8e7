------------------------------ MODULE MCBundle ------------------------------
(* Values of the constants of Bundle. *)
EXTENDS Bundle

\* Two streams with lines across shards, some without seq, and nothing else.
RecordExports ==
    [streams |-> {"s1", "s2"}, line_sizes |-> {1}, line_seqs |-> {None, Some(0)},
     shard_threshold |-> 2, batches |-> {}, days |-> {}, vault_names |-> {},
     added_names |-> {}, max_lines |-> 3, max_edits |-> 0]

\* Entries of every kind, in any order, and two edits of the result.
FullExports ==
    [streams |-> {"s1"}, line_sizes |-> {1}, line_seqs |-> {Some(0), Some(1)},
     shard_threshold |-> 1, batches |-> {"b1"}, days |-> {"d1"},
     vault_names |-> {"plain", "../up"}, added_names |-> {"added", "added/"},
     max_lines |-> 1, max_edits |-> 2]

MCScenarios == {RecordExports, FullExports}
=============================================================================
