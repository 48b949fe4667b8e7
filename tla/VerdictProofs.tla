--------------------------- MODULE VerdictProofs ----------------------------
(***************************************************************************)
(* The whole program keeps the promise of its exit code, for every value   *)
(* of the constants.                                                       *)
(*                                                                         *)
(* The walks of validate_chain and the console keys (IdentityProofs) are   *)
(* put into the whole program; with them, a note that passes is signed by  *)
(* a key of the genuine hierarchy and is over genuine records, and the     *)
(* steps of BundleProofs add up to the refinement of Verdict.              *)
(***************************************************************************)
EXTENDS BundleProofs, IdentityProofs, FiniteSetTheorems

-----------------------------------------------------------------------------
(* The walks and the console keys, in the whole program. *)

LEMMA FilesAlways == Spec => []FilesInv
  <1>1. Init => FilesInv
    BY InputsAssumption, Zenon DEF Init, Inputs, FilesInv
  <1>2. ASSUME FilesInv, [Next]_bundleVars PROVE FilesInv'
    <2>1. identity' = identity /\ options' = options
      BY <1>2, GivenKept, Zenon
    <2> QED
      BY <1>2, <2>1, Zenon DEF FilesInv
  <1> QED
    BY <1>1, <1>2, PTL DEF Spec

LEMMA WalkInit == Init => WalkInv
  <1> SUFFICES ASSUME Init PROVE WalkInv
    BY Zenon
  <1>1. step = "arguments" /\ NothingWalked
    BY DEF Init, IdentityInit, NothingWalked, Kept, SV!VerifierInit
  <1> QED
    BY <1>1, Zenon DEF WalkInv, NothingWalked

LEMMA WalkNext ==
    ASSUME FilesInv, WalkInv, ReadInv, [Next]_bundleVars
    PROVE  WalkInv'
  <1>1. CASE VerifyIdentity
    BY <1>1, WalkIdentity, Zenon DEF VerifyIdentity
  <1>2. CASE UNCHANGED bundleVars
    <2>1. UNCHANGED <<identity, now_unix, root_pems, queue, walk, cert_map, step, findings>>
      BY <1>2, Zenon DEF bundleVars, fixedVars, trustVars
    <2> QED
      BY <2>1, WalkKept, Zenon DEF WalkInv, Kept
  <1>3. CASE Next /\ ~VerifyIdentity
    <2>1. /\ UNCHANGED <<identity, now_unix, root_pems, queue, walk, cert_map>>
          /\ step \notin {"roots", "certs", "walks", "keys", "revocations"}
          /\ step' \notin {"arguments", "certs", "walks", "keys", "revocations"}
          /\ step' \in {"container", "roots"} => AcceptArguments \/ VerifyContainer
      BY <1>3, GivenKept, OtherSteps, Zenon
    <2>2. AcceptArguments \/ VerifyContainer =>
             /\ step \in {"arguments", "container"}
             /\ Kept("cert_unvalidated")' = Kept("cert_unvalidated")
      <3>1. container.contents \in {"listed", "unlisted", "altered"}
        BY Zenon DEF ReadInv
      <3> QED
        BY <3>1 DEF AcceptArguments, VerifyContainer, Kept
    <2>3. walk = None
      BY <2>1, Zenon DEF WalkInv
    <2> QED
      BY <2>1, <2>2, <2>3, WalkKept, Zenon
  <1> QED
    BY <1>1, <1>2, <1>3, Zenon

LEMMA WalkAlways == Spec => [](FilesInv /\ WalkInv)
  <1>1. FilesInv /\ WalkInv /\ ReadInv /\ [Next]_bundleVars => WalkInv'
    BY WalkNext, Zenon
  <1> QED
    BY <1>1, WalkInit, ReadAlways, FilesAlways, PTL DEF Spec

\* Whatever certificates are listed, in whatever order, and whatever root is
\* trusted: validate_chain accepts only certificates with a chain of at most
\* eight signatures to the root, through CAs that are all valid at the time of
\* verification; with unique names it accepts every such certificate whose CAs
\* respect their path lengths; and it reports exactly when it left one out.
THEOREM WalkProved == Spec => []WalkExact
  <1>1. FilesInv /\ WalkInv => WalkExact
    BY WalkFacts, Zenon
  <1> QED
    BY <1>1, WalkAlways, PTL

LEMMA KeysNext ==
    ASSUME FilesInv, KeysInv, [Next]_bundleVars
    PROVE  KeysInv'
  <1>0. findings \subseteq findings'
    BY FindingsGrow, Zenon
  <1>1. CASE VerifyIdentity
    <2>1. IdentityNext
      BY <1>1, Zenon DEF VerifyIdentity
    <2> QED
      BY <1>0, <2>1, KeysIdentity, Zenon
  <1>2. CASE UNCHANGED bundleVars
    <2>1. UNCHANGED <<options, identity, root_pems, key_map, entries, step>>
      BY <1>2, Zenon DEF bundleVars, fixedVars, trustVars
    <2>2. \A id \in DOMAIN key_map : Vouched(id, key_map[id]) => Vouched(id, key_map[id])'
      BY <1>0, <2>1, VouchedKept, Zenon
    <2>3. Entries' = Entries
      BY <2>1, Zenon DEF Entries
    <2> QED
      BY <2>1, <2>2, <2>3, Zenon DEF KeysInv
  <1>3. CASE Next /\ ~VerifyIdentity
    <2>1. UNCHANGED <<key_map, entries>>
      BY <1>3, OtherSteps, Zenon
    <2>2. /\ step' \in {"container", "roots"} => step \in {"arguments", "container"}
          /\ step' \notin {"arguments", "certs", "walks", "keys", "revocations"}
      BY <1>3, OtherSteps, Zenon DEF AcceptArguments, VerifyContainer
    <2> QED
      BY <2>1, <2>2, Zenon DEF KeysInv
  <1> QED
    BY <1>1, <1>2, <1>3, Zenon

\* Whatever keys a bundle brings and whatever is given on the command line: no
\* console key comes into use unless the user gave it, a trusted root signed its
\* statement under the id it is kept by, or the report says that none did.
THEOREM KeysProved == Spec => []KeysVouched
  <1>1. Init => KeysInv
    BY DEF Init, IdentityInit, KeysInv
  <1>2. FilesInv /\ KeysInv /\ [Next]_bundleVars => KeysInv'
    BY KeysNext, Zenon
  <1>3. KeysInv => KeysVouched
    BY Zenon DEF KeysInv, KeysVouched, Vouched, Entries, Kept
  <1> QED
    BY <1>1, <1>2, <1>3, FilesAlways, PTL DEF Spec
-----------------------------------------------------------------------------
(* What a note attests. *)

\* Cardinality is the same in the instance.
LEMMA SameSize ==
    ASSUME NEW S
    PROVE  CV!Cardinality(S) = Cardinality(S)
  BY Zenon DEF CV!Cardinality, CV!IsFiniteSet, Cardinality, IsFiniteSet

\* A range whose collected hashes are as many as it is long, and pass against the
\* note, is in the bundle as a whole: a size that wraps around to 0 does not pass.
LEMMA RangeVerified ==
    ASSUME NEW note, note.seq_from \in 0..(U64 - 1), note.seq_to \in 0..(U64 - 1),
           CV!FullyExported(note), CV!VerifyRoot(note, CV!Covered(note)),
           NEW s \in CV!Seqs(note)
    PROVE  /\ s \in DOMAIN hashes_by_seq
           /\ s - note.seq_from + 1 \in 1..(note.seq_to - note.seq_from + 1)
           /\ CV!Covered(note)[s - note.seq_from + 1] = hashes_by_seq[s]
  <1> DEFINE from == note.seq_from
             to   == note.seq_to
             P    == CV!Present(note)
             c    == CV!Covered(note)
             n    == Cardinality(P)
  <1>1. /\ U64 \in Nat \ {0} /\ from \in 0..(U64 - 1) /\ to \in 0..(U64 - 1)
        /\ s \in from..to /\ from <= to
    BY RangesAssumption DEF CV!Seqs
  <1>b. /\ s \in from..s
        /\ s - from + 1 \in 1..(to - from + 1) /\ from + (s - from + 1) - 1 = s
    <2>1. from \in Nat /\ to \in Nat
      BY <1>1
    <2>2. s \in from..to
      BY <1>1
    <2> HIDE DEF from, to
    <2>3. s \in from..s
      BY <2>1, <2>2
    <2>4. s - from + 1 \in 1..(to - from + 1) /\ from + (s - from + 1) - 1 = s
      BY <2>1, <2>2
    <2> QED
      BY <2>3, <2>4, Zenon
  <1>2. P \subseteq from..to
    BY Zenon DEF CV!Present, CV!Seqs
  <1>3. IsFiniteSet(from..to) /\ Cardinality(from..to) = to - from + 1
    <2>1. from \in Int /\ to \in Int /\ ~(from > to)
      BY <1>1
    <2> HIDE DEF from, to
    <2> QED
      BY <2>1, FS_Interval, Zenon
  <1>4. IsFiniteSet(P) /\ n \in Nat
    <2>1. IsFiniteSet(P)
      BY <1>2, <1>3, FS_Subset, Zenon
    <2> QED
      BY <2>1, FS_CardinalityType, Zenon
  <1>a. c = [i \in 1..n |-> hashes_by_seq[from + i - 1]]
    BY SameSize, Zenon DEF CV!Covered
  <1>5. Len(c) = n
    <2>1. c = [i \in 1..n |-> c[i]]
      BY <1>a, Zenon
    <2> HIDE DEF c, n
    <2> QED
      BY <1>4, <2>1, FunctionSeq, Zenon
  <1>6. n # 0
    <2>1. c # <<>>
      BY Zenon DEF CV!VerifyRoot
    <2>2. n = 0 => c = <<>>
      BY <1>a
    <2> QED
      BY <2>1, <2>2, Zenon
  <1>7. n = to - from + 1
    <2>1. n = (to - from + 1) % U64
      BY <1>5, Zenon DEF CV!FullyExported
    <2> HIDE DEF n, from, to
    <2> QED
      BY <1>1, <1>6, <2>1, RangeSize, Zenon
  <1>8. P = from..to
    <2> HIDE DEF P
    <2> QED
      BY <1>2, <1>3, <1>7, FS_Subset, Zenon DEF n
  <1>9. s \in DOMAIN hashes_by_seq
    <2>1. s \in P
      BY <1>1, <1>8, Zenon
    <2> QED
      BY <1>b, <2>1, Zenon DEF CV!Present
  <1>10. s - from + 1 \in 1..n /\ from + (s - from + 1) - 1 = s
    BY <1>7, <1>b, Zenon
  <1>11. c[s - from + 1] = hashes_by_seq[from + (s - from + 1) - 1]
    <2> HIDE DEF c, n
    <2> QED
      BY <1>a, <1>10, Zenon
  <1> QED
    BY <1>b, <1>9, <1>10, <1>11, Zenon

\* A note that passes is over the records in the bundle; if the root is from
\* outside, the note is by a genuine key and so over genuine records.
LEMMA NotesAttest ==
    ASSUME FilesInv, GivenInv, WalkInv, RootsInv, step = "checkpoints"
    PROVE  NotesSound
  <1> SUFFICES ASSUME NEW bc \in Inputs.checkpoints,
                      CV!Rejection(bc) = None, ~CV!RootMismatch(bc.note),
                      CV!FullyExported(bc.note), NEW s \in CV!Seqs(bc.note)
               PROVE  s \in DOMAIN hashes_by_seq /\ (RootFromOutside => WrittenAt(s))
    BY Zenon DEF NotesSound
  <1> DEFINE note == bc.note
             c    == note.recorder_cert_fingerprint
             from == note.seq_from
             to   == note.seq_to
  <1>1. CV!VerifyRoot(note, CV!Covered(note))
    BY Zenon DEF CV!RootMismatch
  <1>2. U64 \in Nat \ {0} /\ from \in 0..(U64 - 1) /\ to \in 0..(U64 - 1)
    BY RangesAssumption, Zenon DEF GivenInv, Inputs
  <1>3. /\ s \in DOMAIN hashes_by_seq
        /\ s - from + 1 \in 1..(to - from + 1)
        /\ CV!Covered(note)[s - from + 1] = hashes_by_seq[s]
    BY <1>1, <1>2, RangeVerified, Zenon
  <1>4. ASSUME RootFromOutside PROVE WrittenAt(s)
    <2>1. c \in DOMAIN cert_map /\ bc.signature = CV!Signature(cert_map[c], note)
      BY Zenon DEF CV!Rejection, CV!Some, CV!None, None
    <2>2. cert_map[c] \in Genuine.keys
      <3>1. PathValidates(c) /\ cert_map[c] = c.key
        BY <2>1, Zenon DEF WalkInv
      <3>2. RootsParse => Root.key \in Genuine.keys
        BY <1>4, Zenon DEF RootsInv, Ran, AfterRoots, AfterContainer
      <3>3. \A d \in ListedCerts : d.signer \in Genuine.keys => d.key \in Genuine.keys
        <4> TAKE d \in ListedCerts
        <4>1. identity # None /\ d \in Range(Get(identity).certs_pem)
          BY DEF ListedCerts, Listed, Range
        <4> QED
          BY <4>1, KeysAssumption, Zenon DEF GivenInv, Inputs
      <3> HIDE DEF c
      <3> QED
        BY <3>1, <3>2, <3>3, GenuineChain, Zenon
    <2>3. OverGenuine(note)
      BY <2>1, <2>2, KeysAssumption, Zenon DEF GivenInv, Inputs
    <2> DEFINE g == [i \in 1..(to - from + 1) |-> Genuine.lines[from + i].record_hash]
    <2>4. CV!MerkleRoot(CV!Covered(note)) = CV!MerkleRoot(g) /\ to < Len(Genuine.lines)
      BY <1>1, <2>3, Zenon DEF CV!VerifyRoot, OverGenuine
    <2>5. CV!Covered(note) = g
      <3> HIDE DEF g
      <3> QED
        BY <2>4, Zenon DEF CV!MerkleRoot
    <2>6. hashes_by_seq[s] = Genuine.lines[from + (s - from + 1)].record_hash
      BY <1>3, <2>5, Zenon
    <2>7. /\ from + (s - from + 1) = s + 1
          /\ \A l \in Nat : to < l => s + 1 \in 1..l
      <3>1. from \in Nat /\ to \in Nat
        BY <1>2
      <3> QED
        BY <3>1, PlaceInRange, Zenon DEF CV!Seqs
    <2>8. s + 1 \in DOMAIN Genuine.lines
      <3>1. Len(Genuine.lines) \in Nat /\ DOMAIN Genuine.lines = 1..Len(Genuine.lines)
        BY KeysAssumption
      <3> QED
        BY <2>4, <2>7, <3>1, Zenon
    <2> QED
      BY <2>6, <2>7, <2>8, Zenon DEF WrittenAt
  <1> QED
    BY <1>3, <1>4, Zenon
-----------------------------------------------------------------------------
(* The records are finitely many, and counted. *)

\* Finitely many records have been read.
FiniteInv == IsFiniteSet(DOMAIN hashes_by_seq)

LEMMA FiniteAlways == Spec => []FiniteInv
  <1>1. Init => FiniteInv
    <2> SUFFICES ASSUME Init PROVE FiniteInv
      BY Zenon
    <2>1. DOMAIN hashes_by_seq = {}
      BY DEF Init, SV!VerifierInit
    <2> QED
      BY <2>1, FS_EmptySet, Zenon DEF FiniteInv
  <1>2. ASSUME FiniteInv, [Next]_bundleVars PROVE FiniteInv'
    <2>1. \/ hashes_by_seq' = hashes_by_seq
          \/ \E s : DOMAIN hashes_by_seq' = DOMAIN hashes_by_seq \cup {s}
      <3>1. CASE VerifyRecord
        BY <3>1, Zenon DEF VerifyRecord, SV!ReadBadLine, SV!ReadRecord, SV!VerifyNext,
           SV!CollectStats
      <3>2. CASE ~VerifyRecord
        BY <1>2, <3>2, HashesKept, Zenon
      <3> QED
        BY <3>1, <3>2, Zenon
    <2> QED
      BY <1>2, <2>1, FS_AddElement, Zenon DEF FiniteInv
  <1> QED
    BY <1>1, <1>2, PTL DEF Spec

\* The difference of the two sizes is zero only when every record is attested.
LEMMA TailKnown ==
    ASSUME FiniteInv, AttestInv, CoverInv
    PROVE  TailCounted
  <1> SUFFICES ASSUME step = "report", container.scoped, ~Reported("unattested_tail")
               PROVE  attested_seqs = DOMAIN hashes_by_seq
    BY Zenon DEF TailCounted
  <1>1. ~(Cardinality(DOMAIN hashes_by_seq) > Cardinality(attested_seqs))
    BY SameSize, Zenon DEF CoverInv, CV!CoverageFindings, Reported
  <1>2. attested_seqs \subseteq DOMAIN hashes_by_seq /\ IsFiniteSet(DOMAIN hashes_by_seq)
    BY Zenon DEF AttestInv, FiniteInv
  <1>3. /\ IsFiniteSet(attested_seqs)
        /\ Cardinality(attested_seqs) <= Cardinality(DOMAIN hashes_by_seq)
        /\ Cardinality(attested_seqs) = Cardinality(DOMAIN hashes_by_seq) =>
              attested_seqs = DOMAIN hashes_by_seq
    BY <1>2, FS_Subset, Zenon
  <1>4. Cardinality(attested_seqs) \in Nat /\ Cardinality(DOMAIN hashes_by_seq) \in Nat
    BY <1>2, <1>3, FS_CardinalityType, Zenon
  <1>5. PICK m, n : m = Cardinality(attested_seqs) /\ n = Cardinality(DOMAIN hashes_by_seq)
    BY Zenon
  <1>6. m = n
    <2>1. m \in Nat /\ n \in Nat /\ m <= n /\ ~(n > m)
      BY <1>1, <1>3, <1>4, <1>5, Zenon
    <2> QED
      BY <2>1
  <1> QED
    BY <1>3, <1>5, <1>6, Zenon
-----------------------------------------------------------------------------
(* The program implements what its exit code promises. *)

\* The inductive invariant of the whole program: the parts, the walks of
\* validate_chain, and the finiteness of what was read.
LEMMA StreamAlways == Spec => [](FilesInv /\ WalkInv /\ FiniteInv /\ StreamInv)
  <1>1. ASSUME FilesInv, WalkInv, StreamInv, [Next]_bundleVars PROVE StreamInv'
    <2>1. step = "checkpoints" => NotesSound
      BY <1>1, NotesAttest, Zenon DEF StreamInv
    <2> QED
      BY <1>1, <2>1, StreamNext, Zenon
  <1> QED
    BY <1>1, StreamInit, WalkAlways, FiniteAlways, PTL DEF Spec

\* Whatever is in the bundle: certificates that were validated are listed, no walk
\* is longer than its bound, attested records were read and anchored ones are
\* attested, the findings are the known ones, and the exit code comes at the end.
THEOREM BundleTyped == Spec => []BundleTypeOK
  <1>1. ASSUME WalkInv, StreamInv PROVE BundleTypeOK
    <2>1. DOMAIN cert_map \subseteq ListedCerts
      BY <1>1, Zenon DEF WalkInv, PathValidates, Path
    <2>2. ASSUME walk # None PROVE step = "walks" /\ Get(walk).hops \in 0..MAX_HOPS
      <3>1. step = "walks" /\ OnPath(Get(walk))
        BY <1>1, <2>2, Zenon DEF WalkInv
      <3>2. PICK w : w = Get(walk)
        BY Zenon
      <3>3. PICK p : w.hops \in Nat /\ Path(w.leaf, p, w.hops)
        BY <3>1, <3>2, Zenon DEF OnPath
      <3>4. w.hops # 0 => Climbs(At(w.leaf, p, w.hops - 1))
        <4>1. w.hops # 0 => w.hops - 1 \in 0..(w.hops - 1)
          BY <3>3
        <4> QED
          BY <3>3, <4>1, Zenon DEF Path
      <3>5. w.hops # 0 => (w.hops - 1) + 1 <= MAX_HOPS
        BY <3>4, Zenon DEF Climbs, Deeper, At
      <3> QED
        BY <3>1, <3>2, <3>3, <3>5 DEF MAX_HOPS
    <2>3. /\ attested_seqs \subseteq DOMAIN hashes_by_seq
          /\ anchored_seqs[StreamId] \subseteq attested_seqs
      BY <1>1, Zenon DEF StreamInv, AttestInv
    <2>4. exit # None <=> step = "exited"
      BY <1>1, Zenon DEF StreamInv, ReadInv, KnownInv
    <2>5. findings \subseteq Known
      BY <1>1, Zenon DEF StreamInv, KnownInv
    <2> QED
      BY <2>1, <2>2, <2>3, <2>4, <2>5, Zenon DEF BundleTypeOK, Known
  <1> QED
    BY <1>1, StreamAlways, PTL

\* Whatever the bundle holds, the exit code of the program keeps the promise of
\* module Verdict: every step of verify_bundle is a step of verification that
\* decides nothing, and the last one decides for a code whose promise is kept.  A
\* pass means that the records are, one by one, those the recorder wrote, all of
\* them attested, up to every extent that a countersignature or the user states.
THEOREM PromiseProved == Spec => PromiseKept
  <1>1. FiniteInv /\ StreamInv /\ [Next]_bundleVars =>
           [V!Verify \/ V!Decide]_(V!verdictVars)
    BY TailKnown, VerdictSteps, Zenon DEF StreamInv
  <1> QED
    BY <1>1, VerdictStarts, StreamAlways, PTL DEF Spec, PromiseKept, V!VerdictSpec
=============================================================================
