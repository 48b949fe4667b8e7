------------------------------- MODULE Bundle -------------------------------
(***************************************************************************)
(* The .seal container: BundleWriter (crates/bundle/src/write.rs), driven  *)
(* by an exporter that calls its operations in any order, and the parts of *)
(* BundleReader (read.rs) that check the container and read the records.   *)
(* The writer's fields are one record; "ok" is the result of the last call *)
(* (an operation that fails keeps what it did before it failed).           *)
(***************************************************************************)
EXTENDS Options, FiniteSets, SequencesExt

CONSTANTS
    InvalidNames,   \* the vault names that contain ".." or start with "/"
    SlashNames,     \* the names that end in "/"
    Scenarios       \* what an exporter has to export, and bounds

\* A scenario is fixed for a behaviour: stream ids, sizes and seq values of
\* record lines (None when the field is missing), shard_threshold, names of
\* tokens, of vault entries and of entries somebody adds afterwards, and the
\* numbers of lines per stream and of edits of the finished container.
ASSUME BundleAssumption ==
    \A x \in Scenarios :
       /\ x.shard_threshold \in Nat \ {0} /\ x.line_sizes \subseteq Nat \ {0}
       /\ x.max_lines \in Nat /\ x.max_edits \in Nat

VARIABLES
    writer,     \* [zip, contents, index, phase, ok]
    manifest,   \* Option: the manifest written by finish()
    container,  \* path -> bytes: the finished file, as the reader finds it
    exported,   \* history: what add_stream_records returned Ok for
    edits,      \* history: number of edits made to the container
    scenario

bundleVars == <<writer, manifest, container, exported, edits, scenario>>

Rank == [Records |-> 1, Checkpoints |-> 2, Anchors |-> 3, Identity |-> 4, Vault |-> 5]

Blake3(bytes) == <<"blake3", bytes>>

Paths(entries) == {entries[i].path : i \in DOMAIN entries}

IndexPath == <<"records/index.json">>
ShardPath(stream, n) == <<"records", stream, n>>

-----------------------------------------------------------------------------
(* The writer's helpers. Like "?", each passes an earlier failure on. *)

Fail(w) == [w EXCEPT !.ok = FALSE]

\* Mutant: does not remember the phase it enters.
RequirePhaseOnly(w, atMost, next) ==
    IF ~w.ok \/ Rank[w.phase] > Rank[atMost] THEN Fail(w) ELSE w

RequirePhase(w, atMost, next) ==
    IF ~w.ok \/ Rank[w.phase] > Rank[atMost] THEN Fail(w) ELSE [w EXCEPT !.phase = next]

\* Mutant: lists the entry before the zip has taken it.
WriteEntryListsFirst(w, path, bytes) ==
    LET listed == [w EXCEPT !.contents = Append(@, [path |-> path, blake3 |-> Blake3(bytes)])]
    IN  IF ~w.ok THEN w
        ELSE IF path \in Paths(w.zip) THEN Fail(listed)
        ELSE [listed EXCEPT !.zip = Append(@, [path |-> path, bytes |-> bytes])]

\* zip::ZipWriter::start_file refuses a name it has already written.
WriteEntry(w, path, bytes) ==
    IF ~w.ok \/ path \in Paths(w.zip) THEN Fail(w)
    ELSE [w EXCEPT !.zip = Append(@, [path |-> path, bytes |-> bytes]),
                   !.contents = Append(@, [path |-> path, blake3 |-> Blake3(bytes)])]

FinishRecords(w) ==
    IF w.phase # "Records" THEN w
    ELSE LET written == WriteEntry(w, IndexPath, <<"index", w.index>>)
         IN  IF written.ok THEN [written EXCEPT !.phase = "Checkpoints"] ELSE written

Size(lines) == FoldLeft(LAMBDA n, line : n + line.size, 0, lines)

\* Lines are collected until the shard is full.
Filled(lines) ==
    FoldLeft(LAMBDA acc, line :
                LET buf == Append(acc.buf, line)
                IN  IF Size(buf) >= scenario.shard_threshold
                    THEN [shards |-> Append(acc.shards, buf), buf |-> <<>>]
                    ELSE [acc EXCEPT !.buf = buf],
             [shards |-> <<>>, buf |-> <<>>], lines)

\* Mutant: what is left when the lines end is not flushed.
ShardsUnflushed(lines, broken) == Filled(lines).shards

\* The shards flushed over an iterator of lines: full ones as they fill, the
\* rest when the lines end; nothing more once the iterator fails ("broken").
Shards(lines, broken) ==
    LET filled == Filled(lines)
    IN  IF broken \/ filled.buf = <<>> THEN filled.shards
        ELSE Append(filled.shards, filled.buf)

FlushShards(w, stream, shards) ==
    FoldLeft(LAMBDA x, n : WriteEntry(x, ShardPath(stream, n), <<"lines", shards[n]>>),
             w, [n \in DOMAIN shards |-> n])

\* The index entry of a stream whose first and last lines have their seq.
IndexStream(w, stream, lines, shards) ==
    IF \/ ~w.ok
       \/ lines = <<>>
       \/ lines[1].seq = None
       \/ lines[Len(lines)].seq = None
    THEN Fail(w)
    ELSE [w EXCEPT !.index = Append(@,
             [stream_id    |-> stream,
              shards       |-> [n \in DOMAIN shards |-> ShardPath(stream, n)],
              seq_from     |-> Get(lines[1].seq),
              seq_to       |-> Get(lines[Len(lines)].seq),
              record_count |-> Len(lines)])]

-----------------------------------------------------------------------------
(* The operations. A call starts from ok = TRUE. *)

Lines == [seq : scenario.line_seqs, size : scenario.line_sizes]

Call(result) ==
    /\ manifest = None
    /\ writer' = result
    /\ UNCHANGED <<manifest, container, edits, scenario>>

Fresh == [writer EXCEPT !.ok = TRUE]

AddStreamRecords ==
    \E stream \in scenario.streams, lines \in SeqOf(Lines, scenario.max_lines), broken \in BOOLEAN :
       LET shards  == Shards(lines, broken)
           flushed == FlushShards(RequirePhase(Fresh, "Records", "Records"), stream, shards)
           result  == IF broken THEN Fail(flushed) ELSE IndexStream(flushed, stream, lines, shards)
       IN  /\ Call(result)
           /\ exported' = exported \cup IF result.ok THEN {[stream_id |-> stream, lines |-> lines]}
                                                     ELSE {}

AddStreamCheckpoints ==
    /\ \E stream \in scenario.streams :
          Call(WriteEntry(RequirePhase(FinishRecords(Fresh), "Checkpoints", "Checkpoints"),
                          <<"checkpoints", stream>>, <<"checkpoints">>))
    /\ UNCHANGED exported

AddAnchor(path, bytes) ==
    /\ Call(WriteEntry(RequirePhase(FinishRecords(Fresh), "Anchors", "Anchors"), path, bytes))
    /\ UNCHANGED exported

AddRfc3161Token ==
    \E batch \in scenario.batches : AddAnchor(<<"anchors/rfc3161", batch>>, <<"token">>)

AddQtsToken == \E day \in scenario.days : AddAnchor(<<"anchors/qts", day>>, <<"token">>)

AddAnchorProofs == AddAnchor(<<"anchors/proofs.json">>, <<"proofs">>)

AddIdentity ==
    /\ \E revocations \in BOOLEAN :
          LET entered == RequirePhase(FinishRecords(Fresh), "Anchors", "Identity")
              certs   == WriteEntry(entered, <<"identity/certs.pem">>, <<"certs">>)
              revoked == IF revocations
                         THEN WriteEntry(certs, <<"identity/revocations.json">>, <<"revocations">>)
                         ELSE certs
          IN  Call(WriteEntry(revoked, <<"identity/roots.json">>, <<"roots">>))
    /\ UNCHANGED exported

AddVaultEntry ==
    /\ \E name \in scenario.vault_names :
          LET entered == RequirePhase(Fresh, "Vault", "Vault")
          IN  Call(IF name \in InvalidNames THEN Fail(entered)
                   ELSE WriteEntry(entered, <<"vault", name>>, <<"vault">>))
    /\ UNCHANGED exported

ManifestPath == <<"manifest.json">>

AsContainer(entries) ==
    [path \in Paths(entries) |->
        entries[CHOOSE i \in DOMAIN entries : entries[i].path = path].bytes]

\* finish() consumes the writer: no call follows it.
Finish ==
    /\ manifest = None
    /\ LET done == WriteEntry(FinishRecords(Fresh), <<"VERIFY.md">>, <<"verify">>)
       IN  /\ writer' = done
           /\ manifest' = Some([streams |-> [i \in DOMAIN done.index |->
                                                [stream_id    |-> done.index[i].stream_id,
                                                 seq_from     |-> done.index[i].seq_from,
                                                 seq_to       |-> done.index[i].seq_to,
                                                 record_count |-> done.index[i].record_count]],
                                contents |-> done.contents])
           /\ container' = AsContainer(Append(done.zip, [path |-> ManifestPath,
                                                         bytes |-> <<"manifest">>]))
    /\ UNCHANGED <<exported, edits, scenario>>

-----------------------------------------------------------------------------
(* The reader. *)

ContentHashMismatch ==
    \E i \in DOMAIN Get(manifest).contents :
       LET entry == Get(manifest).contents[i]
       IN  \/ entry.path \notin DOMAIN container
           \/ Blake3(container[entry.path]) # entry.blake3

\* Mutant: forgets to look for entries the manifest does not list.
NoUnlisted == {}

EndsWithSlash(path) == path[Len(path)] \in SlashNames

\* An entry whose name ends in "/" passes for a directory, whatever it holds.
Unlisted ==
    {path \in DOMAIN container \ ({ManifestPath} \cup Paths(Get(manifest).contents)) :
        ~EndsWithSlash(path)}

\* What verify_bundle reports about the container.
ContainerFindings ==
    IF ContentHashMismatch THEN {"content_hash_mismatch"}
    ELSE IF Unlisted # {} THEN {"unlisted_entry"}
    ELSE {}

\* The index entries found for a stream; only the first is used.
IndexEntries(stream) ==
    SelectSeq(container[IndexPath][2], LAMBDA e : e.stream_id = stream)

\* The lines read_stream_records passes on, None when it returns Err.
ReadStreamRecords(stream) ==
    IF \/ IndexPath \notin DOMAIN container
       \/ IndexEntries(stream) = <<>>
    THEN None
    ELSE LET shards == IndexEntries(stream)[1].shards
         IN  IF \E n \in DOMAIN shards : shards[n] \notin DOMAIN container THEN None
             ELSE Some(FlattenSeq([n \in DOMAIN shards |-> container[shards[n]][2]]))

\* Somebody changes, removes or adds an entry of the finished container.
Edit ==
    /\ manifest # None
    /\ edits < scenario.max_edits
    /\ \/ \E path \in DOMAIN container \ {ManifestPath} :
             container' = [container EXCEPT ![path] = <<"edited">>]
       \/ \E path \in DOMAIN container \ {ManifestPath} :
             container' = [p \in DOMAIN container \ {path} |-> container[p]]
       \/ \E name \in scenario.added_names :
             container' = [p \in DOMAIN container \cup {<<name>>} |->
                              IF p = <<name>> THEN <<"edited">> ELSE container[p]]
    /\ edits' = edits + 1
    /\ UNCHANGED <<writer, manifest, exported, scenario>>

BundleInit ==
    /\ writer = [zip |-> <<>>, contents |-> <<>>, index |-> <<>>, phase |-> "Records", ok |-> TRUE]
    /\ manifest = None
    /\ container = <<>>
    /\ exported = {}
    /\ edits = 0
    /\ scenario \in Scenarios

BundleNext ==
    \/ AddStreamRecords
    \/ AddStreamCheckpoints
    \/ AddRfc3161Token
    \/ AddQtsToken
    \/ AddAnchorProofs
    \/ AddIdentity
    \/ AddVaultEntry
    \/ Finish
    \/ Edit

BundleSpec == BundleInit /\ [][BundleNext]_bundleVars

-----------------------------------------------------------------------------
(* Properties. *)

\* The manifest's list and the zip agree entry by entry, also after operations
\* that failed half way (refused by the phase, by a name the zip has already, by
\* the iterator of lines), and no index entry names a shard that is not there.
WriterTypeOK ==
    /\ writer.phase \in DOMAIN Rank
    /\ Len(writer.contents) = Len(writer.zip)
    /\ \A i \in DOMAIN writer.zip :
          /\ writer.contents[i].path = writer.zip[i].path
          /\ writer.contents[i].blake3 = Blake3(writer.zip[i].bytes)
    /\ Cardinality(Paths(writer.zip)) = Len(writer.zip)
    /\ \A i \in DOMAIN writer.index :
          \A n \in DOMAIN writer.index[i].shards : writer.index[i].shards[n] \in Paths(writer.zip)

\* Place of an entry in the canonical order.
Section(path) ==
    CASE Len(path) = 3                   -> 1
      [] path = IndexPath                -> 2
      [] path[1] = "checkpoints"         -> 3
      [] path[1] \in {"anchors/rfc3161", "anchors/qts", "anchors/proofs.json"} -> 4
      [] path[1] \in {"identity/certs.pem", "identity/revocations.json",
                      "identity/roots.json"} -> 5
      [] path[1] = "vault"               -> 6
      [] path[1] = "VERIFY.md"           -> 7

\* In whatever order the exporter calls the operations, and whichever of them
\* fail, the entries are in the canonical order.
CanonicalOrder ==
    \A i, j \in DOMAIN writer.zip :
       i < j => Section(writer.zip[i].path) <= Section(writer.zip[j].path)

\* A stream reads back as it was exported, or not at all when its export
\* failed, and the manifest's scope says the same of it.
ReadsBack(stream) ==
    LET calls == {e \in exported : e.stream_id = stream}
        scope == {i \in DOMAIN Get(manifest).streams :
                     Get(manifest).streams[i].stream_id = stream}
    IN  /\ ReadStreamRecords(stream) = IF calls = {} THEN None
                                       ELSE Some((CHOOSE e \in calls : TRUE).lines)
        /\ Cardinality(calls) = Cardinality(scope)
        /\ Cardinality(calls) <= 1
        /\ \A e \in calls, i \in scope :
              /\ Get(manifest).streams[i].record_count = Len(e.lines)
              /\ Get(manifest).streams[i].seq_to = Get(e.lines[Len(e.lines)].seq)

\* Export and reading are inverse, across shards, failed calls and retries, in
\* every finished bundle that has its record index.
RoundTrip ==
    manifest # None /\ edits = 0 /\ IndexPath \in DOMAIN container =>
       \A stream \in scenario.streams : ReadsBack(stream)

\* The canonical layout has records/index.json in it: every stream in the scope
\* of a finished bundle can be read.
FinishedReadable ==
    manifest # None /\ edits = 0 =>
       \A stream \in scenario.streams : ReadsBack(stream)

\* What the writer put into the container is there with its bytes, and nothing
\* else but entries whose names end in "/", exactly when verify_bundle finds
\* nothing in it. A changed, a lost and an added entry are thus each reported,
\* also when they come together; the entries added under a name that ends in "/"
\* are the only ones that go unreported.
EditsReported ==
    manifest # None =>
       LET written == Paths(writer.zip) \cup {ManifestPath}
       IN  ContainerFindings = {} <=>
              /\ written \subseteq DOMAIN container
              /\ \A path \in DOMAIN container \ written : EndsWithSlash(path)
              /\ \A i \in DOMAIN writer.zip : container[writer.zip[i].path] = writer.zip[i].bytes
=============================================================================
