# Verification of sealr-verify in TLA+

`sealr-verify` checks `.seal` evidence bundles offline: records chained by
hashes, checkpoints signed over them, console countersignatures, certificates,
timestamp anchors. This directory models the program from its command line to
its exit code, together with the writers of what it reads, checks the models
with TLC on small instances, and proves the central properties of chain, log,
checkpoints, anchors, certificates and verdict with TLAPS for every size.

## The system and its models

| Part | Code (`src/crates/`) | Modules |
|---|---|---|
| Records, digests, sentinels | `evidence/src/{record,hash,jcs}.rs` | `Digests` |
| Chain writer (`ChainHead`) and its recorder | `evidence/src/chain.rs` | `ChainHead`; the log it promises: `EvidenceLog` |
| Chain verifier (`StreamVerifier`, `verify_stream_chain`) | `evidence/src/chain.rs`, `verify/src/engine.rs` | `StreamVerifier`, `ChainProofs` |
| Writer and verifier of one stream | both | `ChainSystem`, `ChainProofs` |
| Checkpoints, countersignatures, revocation, coverage | `evidence/src/{checkpoint,revocation}.rs`, `verify/src/engine.rs` | `Notes`, `CheckpointVerifier`, `CheckpointSystem`, `CheckpointProofs`, `AttestationProofs` |
| Merkle trees and audit paths | `evidence/src/merkle.rs` | `Merkle` |
| Anchors, daily roots, timestamp tokens | `bundle/src/anchors.rs`, `verify/src/{engine,tsa}.rs` | `Tokens`, `AnchorVerifier`, `Anchors`, `AnchorProofs` |
| `.seal` container: writer and reader | `bundle/src/{write,read,manifest,types}.rs` | `Bundle` |
| Identity: roots, certificates, console keys, revocation list | `evidence/src/certs.rs`, `verify/src/engine.rs` | `Identity`, `IdentityProofs` |
| The whole program and its verdict | `verify/src/{main,engine,report}.rs` | `VerifyBundle`; what the exit code promises: `Verdict`, `BundleProofs`, `VerdictProofs` |

`Options` holds `Option<T>`, as a sequence of at most one element;
`SequenceFacts` a few lemmas on sequences. `MC*.tla` give the constants their
values for TLC. Operators whose comment begins with "Mutant:" are variants with
a planted mistake; nothing uses them, they serve to show that each property
would notice that mistake.

How the parts interact: a recorder appends records to a stream (`ChainHead`)
and signs notes over runs of them (`Notes`); the console countersigns notes and
anchors batches of them (`Tokens`); an exporter puts all of it into a container
(`Bundle`). `verify_bundle` checks the container, validates certificates and
keys (`Identity`), reads each stream's chain (`StreamVerifier`), whose
`hashes_by_seq` goes to the checkpoints (`CheckpointVerifier`) with the
validated certificates, console keys and revocations; the accepted notes and
attested sequence numbers go to the anchors (`AnchorVerifier`), and coverage
and verdict look at all of it. `VerifyBundle` is this composition: it INSTANCEs
the verifiers over shared variables. `CheckpointSystem`, `ChainSystem` and
`Anchors` put one verifier each into a richer environment of its own.

Recorder, console, exporter and timestamp authority are not in the repository.
They are modelled from what the code requires of them, and marked external in
the map.

### State and actions

* `StreamVerifier`: `prev`, `prev_wall_ms` are the fields of the struct;
  `hashes_by_seq`, `ts_min`, `ts_max`, `coverage_gap_count`, `segments_seen`,
  `segments_ended` those of the read loop. `ReadRecord` is one iteration for a
  line that `verify_next` accepts, `ReadBadLine` one that it refuses,
  `StreamReadError` and `EndOfStream` end the loop. `lines` is a history
  variable. Findings are kept as the set of their classes, since the verdict
  depends on nothing else. `records_verified` is left out (it is a counter
  nobody reads during verification).
* `ChainHead`: `AppendRecord` and `AppendRefused` are the outcomes of `append`;
  `StartStream`, `Resume`, `ResumeAfterLoss`, `PersistRecord`, `Crash` are the
  recorder's.
* `CheckpointVerifier`: `VerifyCheckpoint` is one iteration of
  `verify_checkpoints`, with one disjunct per way it ends (the four early
  `continue`s in `RejectCheckpoint`, then `RejectRoot`,
  `RejectCountersignature`, `AcceptCheckpoint`); `CrossCheck` is step 7 of
  `verify_bundle`. `checkpoint_digests` and `valid_checkpoint_ranges` are one
  variable, as they always have the same keys. `countersigned_checkpoints` is
  left out: nothing reads it. `seq_to - seq_from + 1` is taken modulo `U64`, as
  in a release build; a debug build panics instead.
* `Identity`: `SelectRoots`, `ListCerts`, `CheckRevocations` are `select_roots`,
  the head of `build_cert_map` and the check of the revocation list.
  `validate_chain` is taken apart: `BeginWalk` is everything before its loop,
  `ClimbToIssuer` one iteration, `ReachRoot` and `GiveUpWalk` its two results.
  `OverrideConsoleKey`, `ReadConsoleKey`, `EndConsoleKeys` are
  `resolve_console_keys`.
* `AnchorVerifier`: `CheckBatch` and `CheckDay` are the iterations of the two
  loops of `verify_anchors`, with one disjunct per way they end.
* `VerifyBundle`: `step` is the place in `main` and `verify_bundle`;
  `RefuseArguments` and `AcceptArguments` are the outcomes of `main` before the
  call, `Conclude` what it does after it. `scenario` names the inputs, and the
  lines, checkpoints and anchors of the bundle are chosen as they are read.
  `container` says what the manifest makes of the entries; when its scope does
  not list the stream, `SkipStream` goes from the chain to the anchors, as the
  loops over `per_stream` then do nothing. The informational finding `root_source` is left out.
* `Bundle`: one action per public operation of `BundleWriter`. An operation is
  the composition of its helpers, each of which passes an earlier failure on as
  `?` does, so that a call that fails keeps what it had already written.
  `Edit` changes the finished container, and the reader's functions are
  operators over it.
* `Merkle`: recursive operators for the recursive functions; actions grow trees
  and make claims about them.

### Abstractions

Hashes are symbolic and injective: a digest is a tuple of a tag and what was
hashed. Signatures are the tuple of key and message. So collisions and
forgeries do not exist in the models, and what is shown is that the code
combines digests and signatures in a way that makes them count. `Merkle` shows
what `CheckpointVerifier` and `Tokens` then assume of roots: equal roots mean
equal leaves, and only leaves have proofs. A certificate stands for its own
fingerprint and keeps names, key, signer, validity, CA flag and path length; a PEM file is
the sequence of its blocks, and `form` says how far a block can be read. A
`ts_wall` is the rank of its text (reports compare texts) and the milliseconds
it parses to, if it does. All other fields of a record are one value,
`content`. ULIDs are model values, some of which may be malformed. The record's
numbers have the canonicalizer's upper limit, `MAX_SAFE_INTEGER`, as a small
constant, and 64-bit arithmetic is modulo `U64`.

### Two promises

`EvidenceLog` says what a stream is to whoever holds a copy: an append-only log
in which the place of a record is its sequence number and every record is
linked to the one before it, or opens a new segment after a declared loss.
`ChainSystem!KeepsEvidence` is that specification under the mapping
`log <- log` for a recorder that does not start from outdated heads: crashes,
boots and lost tails are stuttering steps, `PersistRecord` extends the log.

`Verdict` says what the exit code promises, whatever the bundle holds. 0: the
trust root came from outside the bundle, every record is attested and is the
one the recorder wrote at that place, and the bundle reaches every extent that
a countersignature in it or the user states (at least one, if it holds records
at all). 10: attested records are the recorder's, if the root came from
outside, and the user's extent is reached. Both speak of the user's extent only
for a stream that the manifest lists (`scoped`): the code looks up no other. 11,
2 and 30 promise nothing. `PromiseKept` is `VerdictSpec` under the mapping that
`VerifyBundle` gives with `V`.

## What TLC checks

A run that asks several questions of one specification has a `scenario` (in
`MCStreamVerifier`, a `kind` of file): inputs and bounds, chosen in the initial
state and then fixed. Each scenario makes some inputs vary and keeps the others
small; all properties of the run are checked in all of them, unless the
property itself names the scenario (`HonestExportExact` is about honest
exports).

| Run | Scenarios | Shows |
|---|---|---|
| `StreamVerifier_files` | structure (sequence numbers, hashes, links, sentinels, bad lines); clocks (both clocks at 2000 and 2001 ms, unreadable times, `clock_anomaly`); segments (ends, gaps, foreign records, read errors) | The neighbour checks give order and gap rules for all pairs (`SeqRulesHold`), links bind contents (`LinksBindContent`), the hash index is faithful (`HashIndexFaithful`), clock rules hold over stretches, and unreadable times neither hide a fall nor widen the tolerance (`ClockRulesHold`), missing segment ends are exact (`EndsReported`); `VerifierTypeOK` |
| `ChainSystem_exports` | | No false alarm for exports of a recorder that crashes, reboots, loses state, is refused appends (`NoFalseAlarm`); a boot from an outdated head is reported (`RollbackReported`) |
| `ChainSystem_any` | | Tamper evidence over arbitrary files (`TamperEvidence`); the recorder implements the append-only log (`KeepsEvidence`) |
| `CheckpointSystem_bundles` | honest exports; scoped ones that end early; subsets of records and checkpoints; edited notes and records (`EditedBundles`); keys, streams and countersignatures of others (`ForeignBundles`); two histories, without console keys; ranges that end before they begin; notes around a revocation | An honest export has no Error but truncation, and that exactly when it stops short of an extent the verifier was told of (`HonestExportExact`); it is attested (`HonestExportAttested`); attestation is earned (`AttestedGenuine`, `AttestedBeforeRevocation`); unattested records are reported exactly (`UnattestedReported`); no hole among accepted checkpoints (`CheckpointPrefix`); high-water marks are reached (`ReachesHighWater`); forks over one range are reported in every order (`SameRangeForksReported`); `CheckpointTypeOK` |
| `VerifyBundle_bundles` | mixed (records, checkpoints, certificates and keys of two hierarchies that use the same names); pinned (the bundle's own root); damaged (parts missing or unreadable); invoked (arguments, right and wrong, with a manifest that lists the stream or leaves it out); timed (at the ends of validity); listed (certificate lists); keyed (console keys and revocation lists) | The exit code's promise is kept (`PromiseKept`); every verification ends (`Terminates`); the certificate walk validates only certificates that have a chain of valid signatures and, when names are unique, every one whose CAs also respect their path lengths (`WalkExact`); console keys in use are given, attested or reported (`KeysVouched`); a pass means that every part that must be there was read and that a revocation list, if there is one, is signed by a console key (`UnreadableReported`); genuine bundles pass (`GenuinePasses`); `BundleTypeOK` |
| `Bundle_exports` | records over several shards and calls; entries of every kind in any order, with up to two edits afterwards | Canonical order (`CanonicalOrder`), manifest and zip agree (`WriterTypeOK`), write and read are inverse (`RoundTrip`), every edit is reported, except entries added under a name that ends in `/` (`EditsReported`) |
| `Merkle_trees` | | Audit paths verify and are short (`HonestProofs`); only leaves verify (`InclusionSound`); roots are injective (`RootsInjective`) |
| `Anchors_bundles` | the console's own anchors; one fault in each batch, inclusion, token or day | The console's anchors count, in any order and for partial exports (`HonestAnchorsCount`); the reported time is a lower bound (`EarliestBounds`); anchoring is earned (`AnchoredEarned`) |

Four runs end in a counterexample, each a place where the code does not do
what a comment or the format says:

| Run | Disagreement |
|---|---|
| `CheckpointSystem_branches` | Diverging branches with unequal ranges pass without an Error |
| `Bundle_vault_first` | A vault entry directly after the records suppresses `records/index.json` |
| `Anchors_earliest` | `earliest_anchor` counts tokens that cover nothing in the bundle |
| `VerifyBundle_documented` | `validate_chain` against its documentation (`ValidatesAsDocumented`), in two ways: a recorder certificate below one of two CAs of the same name validates or not depending on the order of `identity/certs.pem`; and path lengths are ignored, so that a certificate validates below a second CA under one that was issued with path length 0 |

Other things met while modelling, some recorded with the hazards:

* An unreadable `ts_wall` of the first record of a file is not reported.
  `ClockRulesHold` is therefore about the times that can be read.
* The search for unlisted entries passes over names that end in `/`
  (`read.rs:80`), although such an entry may hold bytes; the function is
  documented to return the "entry paths present in the zip but not the manifest"
  (`read.rs:48`). `EditsReported` says that these are the only edits not
  reported.
* Two parts of a bundle may be absent without a finding: `anchors/proofs.json`
  and `identity/revocations.json`.
* The warning about the tail says "carries no console countersignature" also of
  a checkpoint whose countersignature states no high-water mark.
* A scoped export that ends below a mark in one of its own countersignatures is
  reported as truncated (`HonestExportExact` states exactly when).
* A segment interrupted by another one may continue with a hole in its sequence
  numbers (`SeqRulesHold` is about unbroken stretches).
* `verify_inclusion` ties a path to a root but not to its index
  (`InclusionSound` is about membership).
* A malformed `--expect-high-water` exits with 2; the head of `main.rs` lists 30
  for usage errors.
* The validity in a console key statement is never looked at.
* Several trust roots are joined, and certificates are validated against the
  first one only, while any of them attests console keys. No text says which is
  meant; `WalkExact` and `KeysVouched` each follow the code, so that neither would
  notice a change of the other notion.
* An extent pinned for a stream that the manifest does not list is never looked
  at, which is why `Verdict` needs `scoped`.

### Fairness and liveness

`sealr-verify` is one thread that waits for nobody: as long as it has a next
step it takes it. `VerifyBundle!Spec` therefore has weak fairness of `Next`,
and `Terminates` says that an exit code is always reached. This is a statement
about the loops of the program, above all the walk from a certificate to the
root, which only the hop limit keeps from following a circle of CAs for ever;
the other loops run over finite lists. The other specifications have no
fairness and only safety properties: recorder and console are not in the
repository and may stop at any time. No specification is checked for deadlock
(`CHECK_DEADLOCK FALSE`), because each of them may end: a verification exits, a
container is finished, a recorder reaches its bound.

### Bounds

* Streams: three lines in `StreamVerifier_files`. Every rule of `verify_next`
  compares two records, and the only memory that reaches further is
  `prev_wall_ms`, so three records show every interaction (a rule, an exemption,
  and what follows); the proofs remove this bound. The three kinds of file are subsets of what `VerifierSpec`, the
  specification of the proofs, allows.
* `ChainSystem`: three boots and three records, so that a crash, a loss, a
  resume or a rollback can follow one another, and clock values
  above `MAX_SAFE_INTEGER`. `ChainSystem_any` lets the recorder go first
  and stops at the first Error (the property is about clean files, and the
  verifier does not influence the recorder).
* Checkpoints: four records and three notes for honest exports; three and three
  for subsets, which is the smallest chain with a middle; edited and forked
  bundles list two checkpoints, enough for every order of a note and its rival
  or successor. `U64 = 16`, well above any length that occurs, so that only a
  reversed range wraps; by one record (to zero) and by more.
* `VerifyBundle`: two records (`MaxLines = 2`) with a note each and one anchor,
  so that a bundle can hold the first, the second, both, or one of another
  history; lists of up to three certificates in every order, lines of seven and
  eight CAs around the limit of eight hops, circles of two; up to two console
  keys. Times, in minutes, are just before and at the beginning, and at and
  just after the end, of the shortest validity.
* Bundle: shards of two lines and up to three lines per call, so that a call
  fills a shard exactly, and leaves a rest; two streams, any number of calls
  until names run out.
* Merkle: trees of up to nine leaves for honest paths (all shapes around 2, 4
  and 8); claims and roots over trees of up to four leaves (`MaxClaimed`) with
  all digests of the tree.
* Anchors: three notes in two streams; two batches and a day, or one of each
  with faults.

## What is proved

Eight modules hold theorems, for every value of the constants: any number of
lines, records, boots, notes, batches, certificates and keys, and all field
values. `SequenceFacts` holds the lemmas on sequences that the others share.

* `ChainProofs`, first part: any file. `VerifierTyped`: `VerifierSpec =>
  []VerifierTypeOK`. `SeqRulesProved`, `LinksProved`, `IndexProved`,
  `ClockRulesProved`, `EndsProved`: the rules of the file. None is inductive
  alone, because the verifier looks at `prev` and the properties at `lines`.
  `FileInv` adds what is missing: `prev` is the last line (part of
  `VerifierTypeOK`), every line has typed fields, and without a hash finding
  every line has its own digest. With it each property is inductive: a step adds
  one line at the end, the neighbour check relates it to the last one, and the
  property already known for the lines before carries the relation on to all of
  them. `IndexProved` also uses `SeqRulesHold` after the step: a record with a
  new sequence number overwrites no entry of the index. `ClockInv` adds that
  over a stretch without a `clock_anomaly` up to the last line the wall time kept,
  which may be that of an earlier line, has fallen by at most the tolerance per
  line, and is the first line's if no other has one; `SegmentsInv` that the statistics
  list the segments of the lines read, although only direct repeats are dropped.
* `ChainProofs`, second part: recorder and verifier. `TamperEvident`: `AnySpec
  => []TamperEvidence` for a recorder without stale heads. `TamperEvidence`
  speaks of the last line and the durable log, and is not inductive: a line may
  already equal a record that is still pending. The inductive invariant is
  `ChainInv /\ HeadInv /\ LinesInv /\ ProvenanceInv`: the durable and pending
  records form one chain in which each has its own digest and its predecessor's
  digest or a break sentinel as `prev_hash`; the head continues that chain;
  without a hash finding every line has its own digest; and from every line that
  has a digest of the chain, links lead back through equal records. Equal
  digests mean equal records, equal records have equal `prev_hash`, and
  sentinels are no digests. The assumption `StaleHeads = FALSE` is needed: with
  a second history in the log, the record before is not the one listed before.
  `RecorderImplementsLog`: `AnySpec => KeepsEvidence`, a refinement, again
  without stale heads. What `PersistRecord` writes was built earlier by
  `AppendRecord` from a head that a boot set earlier still; `PlacesInv`
  therefore says of the whole chain, pending records included, what
  `EvidenceLog` says of the log, and `ReadyInv` that the head fits the chain it
  will extend. `NoFalseAlarmProved` (for a recorder whose ids are ULIDs) and
  `RollbackReportedProved`, of `HonestSpec`, allow stale heads: `HistoryInv` says how each record continues
  those before it, in the same or in a second history, `ResumedInv` what the
  next one will do, and `ExportInv` that the file is a run of the log up to the
  cursor and the findings are exactly those of its lines.
* `CheckpointProofs`. `Base` types the state and says what the notes of the
  recorder look like. On it rest `ForksReported` (`RangesInv`: `ranges` holds
  the range and root of every note listed that passed the first checks, and two
  that differ in the root only were reported), `AttestedInTime` (`TimesInv`: an
  attested record has a listed note that was timely) and `MarksReached`
  (`MarksInv`: unless there was an Error, the mark kept is at least every mark
  asserted so far, and at the end the bundle reaches it). The properties alone
  speak of the end of the verification; the invariants say the same of every
  prefix of the list.
* `AttestationProofs`. `AttestationEarned`: an attested record is the one that
  a note of the recorder has at its place. The argument is that of the code: the
  signature makes the note one of the recorder's, its recomputed root equals
  the signed one, equal roots mean equal leaves, and the records were all there;
  a reversed range, whose length wraps, has no record to attest. `TailReported`:
  attested numbers are numbers of records present, so the difference of the two
  set sizes that the code takes is positive exactly when a record is
  unattested. `CheckpointTyped` (`DerivedInv`: the sums of the accepted notes
  agree with one another). `PrefixAccepted`: `NotesInv` says that the recorder
  links each note to the one before, `AcceptedInv` that the digests and links
  kept are those of the accepted notes and that a verdict without Error has
  looked at the links; as digests determine notes, an accepted note's
  predecessor is accepted, down to the first (by way of the least missing one).
  `HonestExact` and `HonestAttested`: `HonestInv` follows an honest list note by
  note; each is accepted, attests its range if that was exported, and leaves no
  Error.
* `AnchorProofs`. `AnchoringEarned` (`EarnedInv`), `EarliestBounded`
  (`EarliestInv`: the time kept is at most that of each batch accepted so far)
  and `HonestAnchored` (`CountsInv`: every batch read so far anchors what it
  covers), for which a checkpoint is found by its id, which is unique.
* `IdentityProofs` and the first part of `VerdictProofs`. `WalkProved`: the walk
  of `validate_chain` accepts only certificates that have a chain to the root and,
  when names are unique, every one whose CAs respect their path lengths (it in
  fact accepts every one with a chain, and these are among them). A walk is a path through the listed
  certificates (`Path`), which its first certificate determines; `WalkInv`
  accounts for each listed certificate: in the map with a path to the root,
  refused with a finding, under way, or still in the queue. What the property
  defines by layers, certificates at most so many signatures from the root, is
  the same as a path of that length. `KeysProved` (`KeysInv`): console keys in
  use are given, attested or reported.
* `BundleProofs`, the steps of the whole program. `NothingSkipped`: `Spec =>
  []UnreadableReported`. No step looks back at what an earlier one could not
  read; `ReadInv` says for each part, from the step on that reads it, that it
  was read or that a finding that rules out a pass is kept, and `SignedInv` the
  same of the signature of the revocation list. The other parts of
  `StreamInv` say what each step leaves for the verdict: the root is genuine or
  reported as the bundle's own (`RootsInv`), the index holds the lines read
  (`LinesInv`), attested records are in the bundle and genuine (`AttestInv`),
  the mark kept is the highest stated (`ExtentInv`), the coverage cross-checks
  were made on the final state (`CoverInv`), and findings are of known classes
  (`KnownInv`), so that each has its severity.
* `VerdictProofs`. `PromiseProved`: `Spec => PromiseKept`, the program
  implements `Verdict`. The initial states map to initial states; a step
  that sets no exit code maps to `Verify`; refused arguments map to a `Decide`
  for a code that promises nothing; and `Conclude` to one for the code whose
  promise the invariants establish.
  For code 0 that is: every record read is, one by one, the recorder's, attested,
  and the bundle reaches every extent stated. `NotesAttest` gives the link that
  `AttestInv` needs: a note that passes is signed by a key in `cert_map`, which
  by `WalkInv` and `RootsInv` has a path to a genuine root, so the note is over
  genuine records; `RangeVerified` shows that a range whose size wraps in `u64`
  attests nothing. `TailKnown` uses that the sets counted are finite.
  `BundleTyped`: `Spec => []BundleTypeOK`.

Where an argument needs the first missing or least element, it takes the least
element of a set of natural numbers (`LeastNat`) in place of an induction.

The assumptions are those stated with the constants, which TLC evaluates too.
Most give types. The ones with content:

* `KeysAssumption`: nobody signs with another's key. In `CheckpointSystem` the
  recorder's key differs from others'; in `VerifyBundle` roots given from
  outside are genuine, genuine keys sign only certificates of the hierarchy, and
  notes over the recorder's records.
* `SystemAssumption`, `RangesAssumption`: a stream has fewer records than `U64`,
  and sequence numbers in a note are below it, which their type in the code says.
* `NotesAssumption`: checkpoint ids are unique, and a digest covers its note.
* `HonestAssumption`, of honest exports only: the verifier knows the console
  that countersigned, or no console, and the notes are older than a revocation
  of their certificate. Without it the findings are right, and not false alarms.
* `InputsAssumption`: faults of a line and of the container are those the reader
  can report, and files and options have the form of their types.

Only model-checked: liveness (`Terminates`), `GenuinePasses`, the container
(whose operations are folds over sequences), and Merkle trees (recursive
operators). Liveness under fairness, and what a recursive definition computes
for every input, are out of the prover's reach. Hashes and Merkle roots are
symbolic in the other modules: that a root determines its leaves is what
`RootsInjective` checks of the real construction.

## Not modelled

* Byte-level encodings: canonical JSON, hex, PEM, DER, CMS, zip, zstd. They are
  string building or library calls, without state.
* Payload commitments and the console projection: pure functions of a few
  lines; with symbolic hashes any property of them restates the definition.
* clap's parsing of the arguments, the text and JSON renderings, the wording of
  findings, and the counts in `Proven`, which nothing reads.
* I/O errors of the container writer, such as one between writing a zip entry and
  listing it in the manifest (`write_entry`). The failures modelled are those of
  phase, of a name already taken and of the caller's iterator.
* In `VerifyBundle`, bundles of several streams. The steps treat each stream by itself, except for anchors, whose
  look-up across streams is modelled in `Anchors` with two streams.

## What could follow

1. Proofs of `WriterTypeOK` and `CanonicalOrder` of the container writer.
2. A proof of `GenuinePasses`, by following a genuine bundle through the steps
   of `VerifyBundle` as `HonestInv` does for checkpoints.
3. `VerifyBundle` with two streams.
