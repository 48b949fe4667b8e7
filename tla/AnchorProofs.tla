---------------------------- MODULE AnchorProofs ----------------------------
(***************************************************************************)
(* What verify_anchors establishes for any number of streams, checkpoints, *)
(* batches and daily roots, whatever they hold.                            *)
(***************************************************************************)
EXTENDS Anchors, SequenceFacts, WellFoundedInduction

\* A nonempty set of natural numbers has a least element.
LEMMA LeastNat ==
    ASSUME NEW T \in SUBSET Nat, T # {}
    PROVE  \E x \in T : \A y \in T : x <= y
  <1>1. PICK x \in T : \A y \in T : ~(<<y, x>> \in OpToRel(<, Nat))
    BY NatLessThanWellFounded, WFMin, Zenon
  <1>2. \A y \in T : ~(y < x)
    BY <1>1 DEF OpToRel
  <1> QED
    BY <1>2

\* The stream found for an inclusion has accepted a checkpoint of that id, and
\* NoteFor is such a checkpoint.
LEMMA HolderHolds ==
    ASSUME NEW inc, HolderOf(inc) # None
    PROVE  /\ Get(HolderOf(inc)) \in AnchorStreams
           /\ NoteFor(inc) \in accepted[Get(HolderOf(inc))]
           /\ NoteFor(inc).id = inc.id
  <1> DEFINE at == {i \in DOMAIN StreamOrder :
                       \E n \in accepted[StreamOrder[i]] : n.id = inc.id}
             least == CHOOSE i \in at : \A j \in at : i <= j
  <1>1. at \subseteq Nat
    BY StreamOrderAssumption
  <1>2. HolderOf(inc) = IF at = {} THEN None ELSE Some(StreamOrder[least])
    BY DEF HolderOf
  <1>3. at # {}
    BY <1>2
  <1>4. least \in at
    <2> HIDE DEF at
    <2>1. \E i \in at : \A j \in at : i <= j
      BY <1>1, <1>3, LeastNat
    <2> QED
      BY <2>1
  <1>5. Get(HolderOf(inc)) = StreamOrder[least]
    <2> HIDE DEF at, least
    <2> QED
      BY <1>2, <1>3 DEF Get, Some
  <1>6. /\ StreamOrder[least] \in AnchorStreams
        /\ \E n \in accepted[StreamOrder[least]] : n.id = inc.id
    <2> HIDE DEF least
    <2> QED
      BY <1>4 DEF AnchorStreams
  <1> HIDE DEF at, least
  <1> QED
    BY <1>5, <1>6 DEF NoteFor

-----------------------------------------------------------------------------
(* Steps. *)

\* Every step reads one batch or one day, or does nothing.
LEMMA AnchorSteps ==
    ASSUME [AnchorNext]_<<anchorVars, scenario>>
    PROVE  \/ \E batch : CheckBatch(batch)
           \/ \E day : CheckDay(day)
           \/ UNCHANGED anchorVars
  <1>1. ReadBatch => \E batch : CheckBatch(batch)
    BY Zenon DEF ReadBatch
  <1>2. ReadDay => \E day : CheckDay(day)
    BY Zenon DEF ReadDay
  <1> QED
    BY <1>1, <1>2 DEF AnchorNext

BatchesSeq == IsSeq(batches)

LEMMA BatchesSeqNext ==
    BatchesSeq /\ [AnchorNext]_<<anchorVars, scenario>> => BatchesSeq'
  <1> SUFFICES ASSUME BatchesSeq, [AnchorNext]_<<anchorVars, scenario>> PROVE BatchesSeq'
    OBVIOUS
  <1>1. ASSUME NEW batch, CheckBatch(batch) PROVE BatchesSeq'
    BY <1>1, AppendFacts DEF CheckBatch, BatchesSeq
  <1>2. ASSUME NEW day, CheckDay(day) PROVE BatchesSeq'
    BY <1>2 DEF CheckDay, BatchesSeq
  <1>3. CASE UNCHANGED anchorVars
    BY <1>3 DEF anchorVars, BatchesSeq
  <1> QED
    BY <1>1, <1>2, <1>3, AnchorSteps

\* Batches once read stay read.
LEMMA BatchAppended ==
    ASSUME BatchesSeq, NEW batch, CheckBatch(batch)
    PROVE  /\ \A i \in DOMAIN batches : i \in DOMAIN batches' /\ batches'[i] = batches[i]
           /\ Len(batches) + 1 \in DOMAIN batches' /\ batches'[Len(batches) + 1] = batch
           /\ \A i \in DOMAIN batches' : i \in DOMAIN batches \/ batches'[i] = batch
  <1>1. /\ IsSeq(batches') /\ Len(batches) \in Nat /\ Len(batches') = Len(batches) + 1
        /\ \A i \in 1..Len(batches) : batches'[i] = batches[i]
        /\ batches'[Len(batches) + 1] = batch
    BY AppendFacts DEF CheckBatch, BatchesSeq
  <1>2. DOMAIN batches = 1..Len(batches) /\ DOMAIN batches' = 1..Len(batches')
    BY <1>1 DEF IsSeq, BatchesSeq
  <1> QED
    BY <1>1, <1>2

-----------------------------------------------------------------------------
(* Anchoring is earned. *)

\* A batch that is accepted is one a timestamp authority vouches for.
LEMMA AcceptedStamped ==
    ASSUME NEW batch, AcceptBatch(batch)
    PROVE  Stamped(batch) /\ batch.root[1] = "root"
  <1>1. batch.root[1] = "root" /\ batch.root_sha256 = Sha256(batch.root)
    BY DEF AcceptBatch, Bound
  <1>2. TokenFindings(batch) = {"anchor_verified"}
    BY DEF AcceptBatch
  <1>3. /\ batch.tsr_file # None /\ Get(batch.tsr_file).stored
        /\ VerifyToken(Get(batch.tsr_file).token, batch.root_sha256)
    BY <1>2 DEF TokenFindings
  <1> QED
    BY <1>1, <1>3 DEF Stamped, TokenVerifies

\* Covering, as a statement about one batch.
Covers(batch, note) ==
    Stamped(batch) /\ batch.root[1] = "root" /\ LeafOf(note) \in batch.root[2]

Earned(s, q) ==
    /\ q \in attested_seqs[s]
    /\ \E n \in accepted[s] : q \in n.seqs /\ \E i \in DOMAIN batches : Covers(batches[i], n)

EarnedInv ==
    /\ DOMAIN anchored_seqs = AnchorStreams
    /\ \A s \in AnchorStreams : \A q \in anchored_seqs[s] : Earned(s, q)

LEMMA EarnedNext ==
    BatchesSeq /\ EarnedInv /\ [AnchorNext]_<<anchorVars, scenario>> => EarnedInv'
  <1> SUFFICES ASSUME BatchesSeq, EarnedInv, [AnchorNext]_<<anchorVars, scenario>>
               PROVE  EarnedInv'
    OBVIOUS
  <1>1. ASSUME NEW batch, CheckBatch(batch) PROVE EarnedInv'
    <2>1. UNCHANGED <<accepted, attested_seqs>>
      BY <1>1 DEF CheckBatch
    <2>2. ASSUME NEW s, NEW q, Earned(s, q) PROVE Earned(s, q)'
      <3>1. PICK n \in accepted[s], i \in DOMAIN batches : q \in n.seqs /\ Covers(batches[i], n)
        BY <2>2 DEF Earned
      <3>2. i \in DOMAIN batches' /\ batches'[i] = batches[i]
        BY <1>1, BatchAppended
      <3> QED
        BY <2>1, <2>2, <3>1, <3>2
        DEF Earned, Covers, Stamped, TokenVerifies, VerifyToken
    <2>3. CASE anchored_seqs' = anchored_seqs
      BY <2>2, <2>3 DEF EarnedInv
    <2>4. CASE AcceptBatch(batch)
      <3>1. /\ DOMAIN anchored_seqs' = AnchorStreams
            /\ \A s \in AnchorStreams :
                  anchored_seqs'[s] = anchored_seqs[s] \cup Anchored(batch, s)
        BY <2>4 DEF AcceptBatch
      <3>2. ASSUME NEW s \in AnchorStreams, NEW q \in Anchored(batch, s) PROVE Earned(s, q)'
        <4>1. PICK inc \in BatchCheckpoints(batch) :
                 Get(HolderOf(inc)) = s /\ q \in NoteFor(inc).seqs \cap attested_seqs[s]
          BY <3>2 DEF Anchored
        <4>2. /\ HolderOf(inc) # None /\ inc.leaf \in batch.root[2]
              /\ inc.leaf = LeafOf(NoteFor(inc))
          BY <4>1 DEF BatchCheckpoints, Included, DigestOf
        <4>3. NoteFor(inc) \in accepted[s]
          BY <4>1, <4>2, HolderHolds
        <4>4. Covers(batch, NoteFor(inc))
          BY <2>4, <4>2, AcceptedStamped DEF Covers
        <4> DEFINE n == NoteFor(inc)
                   k == Len(batches) + 1
        <4>5. k \in DOMAIN batches' /\ batches'[k] = batch
          BY <1>1, BatchAppended
        <4>6. n \in accepted[s] /\ q \in n.seqs /\ q \in attested_seqs[s] /\ Covers(batch, n)
          BY <4>1, <4>3, <4>4
        <4> HIDE DEF n, k
        <4> QED
          BY <2>1, <4>5, <4>6 DEF Earned, Covers, Stamped, TokenVerifies, VerifyToken
      <3> QED
        BY <2>2, <3>1, <3>2 DEF EarnedInv
    <2> QED
      BY <1>1, <2>3, <2>4 DEF CheckBatch, RejectBatch, LeavePending
  <1>2. CASE (\E day : CheckDay(day)) \/ UNCHANGED anchorVars
    <2>1. UNCHANGED <<accepted, attested_seqs, anchored_seqs, batches>>
      BY <1>2 DEF CheckDay, anchorVars
    <2> QED
      BY <2>1 DEF EarnedInv, Earned, Covers, Stamped, TokenVerifies, VerifyToken
  <1> QED
    BY <1>1, <1>2, AnchorSteps

\* For any streams and any batches, whatever ids, leaves, proofs and tokens they
\* put together: an anchored record is attested and lies in the range of an
\* accepted checkpoint whose digest is under a root with a verified timestamp.
THEOREM AnchoringEarned == AnchorSpec => []AnchoredEarned
  <1>1. AnchorInit => BatchesSeq /\ EarnedInv
    BY DEF AnchorInit, BatchesSeq, IsSeq, EarnedInv
  <1>2. EarnedInv => AnchoredEarned
    BY DEF EarnedInv, Earned, AnchoredEarned, Covering, Covers
  <1> QED
    BY <1>1, <1>2, BatchesSeqNext, EarnedNext, PTL DEF AnchorSpec

-----------------------------------------------------------------------------
(* The time of the anchors. *)

\* A token file, if there is one, states a time.
Timed(file) == file # None => Get(file).token.tst.time \in Int

LEMMA ByOne ==
    ASSUME NEW fault, NEW changed, NEW x \in By(fault, changed)
    PROVE  x = changed
  BY DEF By

TokenTimed(token) == token.tst.time \in Int

LEMMA FileTimed ==
    ASSUME NEW token, TokenTimed(token), NEW stored
    PROVE  Timed(Some([stored |-> stored, token |-> token]))
  BY DEF Timed, TokenTimed, Some, Get

\* Faults keep the time of a token a time.
LEMMA FaultyTimed ==
    ASSUME NEW imprint, NEW t \in Int
    PROVE  LET good == Stamp(imprint, t)
           IN  /\ TokenTimed(good)
               /\ TokenTimed([good EXCEPT !.form = "rejected"])
               /\ TokenTimed([good EXCEPT !.sid = Some(2)])
               /\ TokenTimed([good EXCEPT !.sid = None])
               /\ TokenTimed([good EXCEPT !.signature = Signature("else", @[3])])
               /\ TokenTimed([good EXCEPT !.tst.alg = "sha1"])
               /\ TokenTimed([good EXCEPT !.tst.time = t + 1])
  BY DEF Stamp, TokenTimed

LEMMA FilesTimed ==
    ASSUME NEW imprint, NEW t \in Int, NEW file \in FilesAt(imprint, t)
    PROVE  Timed(file)
  <1> DEFINE good     == Stamp(imprint, t)
             refused  == [good EXCEPT !.form = "rejected"]
             signer   == [good EXCEPT !.sid = Some(2)]
             other    == Stamp(Sha256(<<"other">>), t)
             alg      == [good EXCEPT !.tst.alg = "sha1"]
             digest   == [good EXCEPT !.tst.time = t + 1]
             keyed    == [good EXCEPT !.sid = None]
             resigned == [good EXCEPT !.signature = Signature("else", @[3])]
  <1>1. \A x \in {good, refused, signer, other, alg, digest, keyed, resigned} : TokenTimed(x)
    <2>1. TokenTimed(other)
      BY FaultyTimed
    <2>2. /\ TokenTimed(good) /\ TokenTimed(refused) /\ TokenTimed(signer) /\ TokenTimed(alg)
          /\ TokenTimed(digest) /\ TokenTimed(keyed) /\ TokenTimed(resigned)
      BY FaultyTimed, Zenon
    <2> HIDE DEF good, refused, signer, other, alg, digest, keyed, resigned
    <2> QED
      BY <2>1, <2>2
  <1>2. \/ file = Some(File(good))
        \/ file \in By("lost", Some([stored |-> FALSE, token |-> good]))
        \/ file \in By("refused", Some(File(refused)))
        \/ file \in By("signer", Some(File(signer)))
        \/ file \in By("imprint", Some(File(other)))
        \/ file \in By("alg", Some(File(alg)))
        \/ file \in By("digest", Some(File(digest)))
        \/ file \in By("keyed", Some(File(keyed)))
        \/ file \in By("resigned", Some(File(resigned)))
    BY Zenon DEF FilesAt
  <1> HIDE DEF good, refused, signer, other, alg, digest, keyed, resigned
  <1>3. \E token \in {good, refused, signer, other, alg, digest, keyed, resigned} :
           \E stored : file = Some([stored |-> stored, token |-> token])
    BY <1>2, ByOne DEF File
  <1> QED
    BY <1>1, <1>3, FileTimed

LEMMA TokenFilesTimed ==
    ASSUME scenario \in Scenarios, NEW imprint, NEW file \in TokenFiles(imprint)
    PROVE  Timed(file)
  <1>1. scenario.times \subseteq Int
    BY AnchorAssumption
  <1>2. file = None \/ \E t \in scenario.times : file \in FilesAt(imprint, t)
    BY DEF TokenFiles
  <1> QED
    BY <1>1, <1>2, FilesTimed DEF Timed

\* Faults other than those of its token leave the token file of a batch alone.
LEMMA BatchesTimed ==
    ASSUME NEW notes, NEW file, Timed(file), NEW batch \in BatchesFrom(BuildBatch(notes, file))
    PROVE  Timed(batch.tsr_file)
  <1> DEFINE good    == BuildBatch(notes, file)
             rooted  == [good EXCEPT !.root = <<"garbage", {}>>]
             unbound == [good EXCEPT !.root_sha256 = Sha256(<<"other">>)]
  <1>1. \/ batch = good
        \/ batch \in By("root", rooted)
        \/ batch \in By("binding", unbound)
        \/ batch \in Misnamed(good)
        \/ batch \in Unproved(good)
    BY Zenon DEF BatchesFrom
  <1>2. good.tsr_file = file /\ rooted.tsr_file = file /\ unbound.tsr_file = file
    BY DEF BuildBatch
  <1>3. \A included : WithCheckpoints(good, included).tsr_file = file
    BY DEF WithCheckpoints, BuildBatch
  <1>4. batch \in Misnamed(good) \/ batch \in Unproved(good) =>
           \E included : batch = WithCheckpoints(good, included)
    <2>1. batch \in Misnamed(good) => \E included : batch = WithCheckpoints(good, included)
      <3> HIDE DEF good
      <3>1. ASSUME batch \in Misnamed(good)
            PROVE  \E inc \in good.checkpoints, n \in Notes :
                      batch = WithCheckpoints(good, (good.checkpoints \ {inc})
                                                       \cup {ListedFor(inc, n)})
        BY <3>1 DEF Misnamed
      <3> QED
        BY <3>1, Zenon
    <2>2. batch \in Unproved(good) => \E included : batch = WithCheckpoints(good, included)
      BY Zenon DEF Unproved
    <2> QED
      BY <2>1, <2>2
  <1> HIDE DEF good, rooted, unbound
  <1> QED
    BY <1>1, <1>2, <1>3, <1>4, ByOne

LEMMA DaysTimed ==
    ASSUME NEW roots, NEW file, Timed(file), NEW day \in DaysFrom(BareDay(roots, file))
    PROVE  Timed(day.qts_file)
  <1> DEFINE bare  == BareDay(roots, file)
             wrong == [bare EXCEPT !.root = DailyRootOf(<<>>)]
  <1>1. \/ day = bare
        \/ day = SignedDay(bare, ConsoleKey)
        \/ day \in By("day_root", wrong)
        \/ day \in By("day_key", SignedDay(bare, "else"))
    BY Zenon DEF DaysFrom
  <1>2. bare.qts_file = file /\ wrong.qts_file = file
    BY DEF BareDay
  <1>3. \A key : SignedDay(bare, key).qts_file = file
    BY DEF SignedDay, BareDay
  <1> HIDE DEF bare, wrong
  <1> QED
    BY <1>1, <1>2, <1>3, ByOne

LEMMA TimedSteps ==
    ASSUME scenario \in Scenarios, [AnchorNext]_<<anchorVars, scenario>>
    PROVE  /\ scenario' = scenario
           /\ \/ \E batch : CheckBatch(batch) /\ Timed(batch.tsr_file)
              \/ \E day : CheckDay(day) /\ Timed(day.qts_file)
              \/ UNCHANGED anchorVars
  <1>1. CASE ReadBatch
    <2>1. PICK notes, file : /\ Timed(file)
                             /\ \E batch \in BatchesFrom(BuildBatch(notes, file)) : CheckBatch(batch)
      BY <1>1, TokenFilesTimed, Zenon DEF ReadBatch
    <2> QED
      BY <1>1, <2>1, BatchesTimed, Zenon DEF ReadBatch
  <1>2. CASE ReadDay
    <2>1. PICK roots, file : /\ Timed(file)
                             /\ \E day \in DaysFrom(BareDay(roots, file)) : CheckDay(day)
      BY <1>2, TokenFilesTimed, Zenon DEF ReadDay
    <2> QED
      BY <1>2, <2>1, DaysTimed, Zenon DEF ReadDay
  <1> QED
    BY <1>1, <1>2 DEF AnchorNext

\* The time a batch is anchored at.
TimeOf(batch) == Get(batch.tsr_file).token.tst.time

Accepts(batch) == Bound(batch) /\ TokenFindings(batch) = {"anchor_verified"}

\* The time kept is at most that of each batch accepted so far.
EarliestInv ==
    /\ scenario \in Scenarios
    /\ earliest = None \/ Get(earliest) \in Int
    /\ \A i \in DOMAIN batches :
          Accepts(batches[i]) => /\ earliest # None /\ TimeOf(batches[i]) \in Int
                                 /\ Get(earliest) <= TimeOf(batches[i])

LEMMA MinWithFacts ==
    ASSUME NEW option, option = None \/ Get(option) \in Int, NEW n \in Int
    PROVE  /\ MinWith(option, n) # None
           /\ Get(MinWith(option, n)) \in Int
           /\ Get(MinWith(option, n)) <= n
           /\ option # None => Get(MinWith(option, n)) <= Get(option)
  BY DEF MinWith, Some, None, Get

LEMMA EarliestNext ==
    BatchesSeq /\ EarliestInv /\ [AnchorNext]_<<anchorVars, scenario>> => EarliestInv'
  <1> SUFFICES ASSUME BatchesSeq, EarliestInv, [AnchorNext]_<<anchorVars, scenario>>
               PROVE  EarliestInv'
    OBVIOUS
  <1>0. scenario' = scenario /\ scenario \in Scenarios
    BY TimedSteps DEF EarliestInv
  <1>a. \A batch : Accepts(batch)' <=> Accepts(batch)
    BY DEF Accepts, Bound, TokenFindings, VerifyToken
  \* A time that is kept or replaced by an earlier one still bounds the batches.
  <1>b. ASSUME batches' = batches,
               earliest' = earliest \/ \E n \in Int : earliest' = MinWith(earliest, n)
        PROVE  EarliestInv'
    <2>1. CASE earliest' = earliest
      BY <1>0, <1>a, <1>b, <2>1 DEF EarliestInv, TimeOf
    <2>2. CASE \E n \in Int : earliest' = MinWith(earliest, n)
      <3>1. PICK n \in Int : earliest' = MinWith(earliest, n)
        BY <2>2
      <3>2. /\ earliest' # None /\ Get(earliest') \in Int
            /\ earliest # None => Get(earliest') <= Get(earliest)
        BY <3>1, MinWithFacts DEF EarliestInv
      <3> QED
        BY <1>0, <1>a, <1>b, <3>2 DEF EarliestInv, TimeOf
    <2> QED
      BY <1>b, <2>1, <2>2
  <1>1. ASSUME NEW batch, CheckBatch(batch), Timed(batch.tsr_file) PROVE EarliestInv'
    <2>1. CASE Accepts(batch)
      <3>1. earliest' = MinWith(earliest, TimeOf(batch))
        BY <1>1, <2>1 DEF CheckBatch, RejectBatch, LeavePending, AcceptBatch, Accepts, TimeOf
      <3>2. TimeOf(batch) \in Int
        BY <1>1, <2>1 DEF Accepts, TokenFindings, Timed, TimeOf
      <3>3. /\ earliest' # None /\ Get(earliest') \in Int /\ Get(earliest') <= TimeOf(batch)
            /\ earliest # None => Get(earliest') <= Get(earliest)
        BY <3>1, <3>2, MinWithFacts DEF EarliestInv
      <3>4. ASSUME NEW i \in DOMAIN batches', Accepts(batches'[i])
            PROVE  TimeOf(batches'[i]) \in Int /\ Get(earliest') <= TimeOf(batches'[i])
        <4>1. CASE i \in DOMAIN batches
          <5>1. batches'[i] = batches[i]
            BY <1>1, <4>1, BatchAppended
          <5>2. /\ earliest # None /\ Get(earliest) \in Int /\ TimeOf(batches[i]) \in Int
                /\ Get(earliest) <= TimeOf(batches[i])
            BY <3>4, <4>1, <5>1 DEF EarliestInv
          <5> QED
            BY <3>3, <5>1, <5>2
        <4>2. CASE batches'[i] = batch
          BY <3>2, <3>3, <4>2
        <4> QED
          BY <1>1, <4>1, <4>2, BatchAppended
      <3> QED
        BY <1>0, <1>a, <3>3, <3>4 DEF EarliestInv, TimeOf, Accepts, Bound, TokenFindings, VerifyToken
    <2>2. CASE ~Accepts(batch)
      <3>1. earliest' = earliest
        BY <1>1, <2>2 DEF CheckBatch, RejectBatch, LeavePending, AcceptBatch, Accepts
      <3>2. ASSUME NEW i \in DOMAIN batches', Accepts(batches'[i])
            PROVE  /\ earliest' # None /\ TimeOf(batches'[i]) \in Int
                   /\ Get(earliest') <= TimeOf(batches'[i])
        <4>1. i \in DOMAIN batches /\ batches'[i] = batches[i]
          BY <1>1, <2>2, <3>2, BatchAppended
        <4> QED
          BY <3>1, <3>2, <4>1 DEF EarliestInv
      <3> QED
        BY <1>0, <3>1, <3>2 DEF EarliestInv, TimeOf, Accepts, Bound, TokenFindings, VerifyToken
    <2> QED
      BY <2>1, <2>2
  <1>2. ASSUME NEW day, CheckDay(day), Timed(day.qts_file) PROVE EarliestInv'
    <2>1. batches' = batches
      BY <1>2 DEF CheckDay
    <2>2. QtsFindings(day) = {"qts_verified"} => Get(day.qts_file).token.tst.time \in Int
      BY <1>2 DEF QtsFindings, Timed
    <2>3. \/ earliest' = earliest
          \/ /\ QtsFindings(day) = {"qts_verified"}
             /\ earliest' = MinWith(earliest, Get(day.qts_file).token.tst.time)
      BY <1>2 DEF CheckDay, RejectDay, AcceptDay
    <2> QED
      BY <1>b, <2>1, <2>2, <2>3
  <1>3. CASE UNCHANGED anchorVars
    BY <1>3, <1>b DEF anchorVars
  <1> QED
    BY <1>1, <1>2, <1>3, TimedSteps DEF EarliestInv

\* For any batches and daily roots in any order: the anchor time of the report is
\* never later than a timestamp that anchors some record.
THEOREM EarliestBounded == AnchorSpec => []EarliestBounds
  <1>1. AnchorInit => BatchesSeq /\ EarliestInv
    BY DEF AnchorInit, BatchesSeq, IsSeq, EarliestInv
  <1>2. ASSUME EarliestInv PROVE EarliestBounds
    <2>1. ASSUME NEW batch, Stamped(batch), batch.root[1] = "root",
                 batch.root_sha256 = Sha256(batch.root)
          PROVE  Accepts(batch)
      BY <2>1 DEF Accepts, Bound, TokenFindings, Stamped, TokenVerifies
    <2> QED
      BY <1>2, <2>1 DEF EarliestInv, EarliestBounds, Covering, TimeOf
  <1> QED
    BY <1>1, <1>2, BatchesSeqNext, EarliestNext, PTL DEF AnchorSpec

-----------------------------------------------------------------------------
(* The console's own anchors. *)

\* The authority's tokens verify.
LEMMA StampVerifies ==
    ASSUME NEW imprint, NEW t
    PROVE  VerifyToken(Stamp(imprint, t), imprint)
  <1> DEFINE token == Stamp(imprint, t)
             tst   == [alg |-> "sha256", imprint |-> imprint, time |-> t]
             cert  == [serial |-> 1, key |-> "tsa"]
  <1>1. /\ token.form = "granted" /\ token.tst = tst /\ token.certs = <<cert>>
        /\ token.sid = Some(1) /\ token.message_digest = Sha256(tst)
        /\ token.signature = Signature("tsa", Sha256(tst))
    BY DEF Stamp
  <1>2. tst.alg = "sha256" /\ tst.imprint = imprint /\ cert.serial = 1 /\ cert.key = "tsa"
    OBVIOUS
  <1> HIDE DEF token, tst, cert
  <1>3. SignerCerts(token) = {1}
    BY <1>1, <1>2 DEF SignerCerts, Some, None, Get
  <1>4. FindSignerCert(token) = cert
    <2>1. (CHOOSE i \in {1} : \A j \in {1} : i <= j) = 1
      OBVIOUS
    <2> QED
      BY <1>1, <1>3, <2>1 DEF FindSignerCert
  <1> QED
    BY <1>1, <1>2, <1>3, <1>4 DEF VerifyToken, ParseToken, VerifyCmsSignature, token

\* Without faults, a token file is the authority's.
LEMMA OwnFiles ==
    ASSUME scenario.faults = {}, NEW imprint, NEW file \in TokenFiles(imprint)
    PROVE  file = None \/ (file # None /\ TokenVerifies(Get(file), imprint))
  <1>1. \A fault, changed : By(fault, changed) = {}
    BY DEF By
  <1>2. file = None \/ \E t \in scenario.times : file \in FilesAt(imprint, t)
    BY DEF TokenFiles
  <1>3. ASSUME NEW t, file \in FilesAt(imprint, t)
        PROVE  file # None /\ TokenVerifies(Get(file), imprint)
    <2>1. file = Some(File(Stamp(imprint, t)))
      BY <1>1, <1>3, Zenon DEF FilesAt
    <2>2. file # None /\ Get(file).stored /\ Get(file).token = Stamp(imprint, t)
      BY <2>1 DEF Some, None, Get, File
    <2> QED
      BY <2>2, StampVerifies DEF TokenVerifies
  <1> QED
    BY <1>2, <1>3

\* What the verifier was given.
GivenInv ==
    /\ console_keys = {ConsoleKey}
    /\ \A s \in AnchorStreams : \A n \in accepted[s] : n \in Notes /\ n.stream = s

\* How the console lists a note.
Listing(n) == [id |-> n.id, leaf |-> LeafOf(n), proved |-> TRUE]

\* A listed note is found in its own stream, if it was accepted there.
LEMMA ListingFound ==
    ASSUME GivenInv, NEW n \in Notes
    PROVE  /\ HolderOf(Listing(n)) # None =>
                 NoteFor(Listing(n)) = n /\ Get(HolderOf(Listing(n))) = n.stream
           /\ \A s \in AnchorStreams : n \in accepted[s] => HolderOf(Listing(n)) # None
  <1> DEFINE inc == Listing(n)
  <1>1. inc.id = n.id
    BY DEF Listing
  <1> HIDE DEF inc
  <1>2. ASSUME HolderOf(inc) # None PROVE NoteFor(inc) = n /\ Get(HolderOf(inc)) = n.stream
    <2>1. /\ Get(HolderOf(inc)) \in AnchorStreams
          /\ NoteFor(inc) \in accepted[Get(HolderOf(inc))]
          /\ NoteFor(inc).id = n.id
      BY <1>1, <1>2, HolderHolds
    <2>2. NoteFor(inc) \in Notes /\ NoteFor(inc).stream = Get(HolderOf(inc))
      BY <2>1 DEF GivenInv
    <2> QED
      BY <2>1, <2>2, NotesAssumption
  <1>3. ASSUME NEW s \in AnchorStreams, n \in accepted[s] PROVE HolderOf(inc) # None
    <2>1. PICK i \in DOMAIN StreamOrder : StreamOrder[i] = s
      BY DEF AnchorStreams
    <2>2. {k \in DOMAIN StreamOrder : \E m \in accepted[StreamOrder[k]] : m.id = inc.id} # {}
      BY <1>1, <1>3, <2>1
    <2> QED
      BY <2>2 DEF HolderOf, Some, None
  <1> QED
    BY <1>2, <1>3 DEF inc

\* What holds of a batch the console wrote.
LEMMA OwnBatch ==
    ASSUME GivenInv, NEW notes, notes \subseteq Notes, NEW file,
           NEW batch, batch = BuildBatch(notes, file),
           file = None \/ (file # None /\ TokenVerifies(Get(file), Sha256(batch.root)))
    PROVE  /\ batch.root[1] = "root" /\ Bound(batch)
           /\ InclusionFindings(batch) \subseteq {"anchor_checkpoint_not_in_export"}
           /\ TokenFindings(batch) \subseteq {"anchor_pending", "anchor_verified"}
           /\ Stamped(batch) => TokenFindings(batch) = {"anchor_verified"}
           /\ \A s \in AnchorStreams : \A n \in accepted[s] :
                 LeafOf(n) \in batch.root[2] =>
                    n.seqs \cap attested_seqs[s] \subseteq Anchored(batch, s)
  <1> DEFINE leaves == {LeafOf(n) : n \in notes}
  <1>1. /\ batch.root = <<"root", leaves>> /\ batch.root_sha256 = Sha256(batch.root)
        /\ batch.tsr_file = file
        /\ batch.checkpoints = {Listing(n) : n \in notes}
    BY DEF BuildBatch, Root, Listing
  <1>2. batch.root[1] = "root" /\ batch.root[2] = leaves
    BY <1>1
  <1>3. ASSUME NEW n \in notes
        PROVE  /\ Included(Listing(n), batch)
               /\ HolderOf(Listing(n)) # None => DigestOf(Listing(n), NoteFor(Listing(n)))
    <2>1. Listing(n).proved /\ Listing(n).leaf = LeafOf(n)
      BY DEF Listing
    <2>2. HolderOf(Listing(n)) # None => NoteFor(Listing(n)) = n
      BY ListingFound
    <2> QED
      BY <1>2, <2>1, <2>2 DEF Included, DigestOf
  <1>4. InclusionFindings(batch) \subseteq {"anchor_checkpoint_not_in_export"}
    BY <1>1, <1>3 DEF InclusionFindings
  <1>5. /\ TokenFindings(batch) \subseteq {"anchor_pending", "anchor_verified"}
        /\ Stamped(batch) => TokenFindings(batch) = {"anchor_verified"}
    BY <1>1 DEF TokenFindings, Stamped, TokenVerifies
  <1>6. ASSUME NEW s \in AnchorStreams, NEW n \in accepted[s], LeafOf(n) \in batch.root[2]
        PROVE  n.seqs \cap attested_seqs[s] \subseteq Anchored(batch, s)
    <2>1. PICK m \in notes : LeafOf(m) = LeafOf(n)
      BY <1>2, <1>6
    <2>2. m = n /\ n \in Notes /\ n.stream = s
      BY <2>1, NotesAssumption DEF GivenInv, LeafOf
    <2>3. /\ HolderOf(Listing(n)) # None /\ NoteFor(Listing(n)) = n
          /\ Get(HolderOf(Listing(n))) = s
      BY <1>6, <2>2, ListingFound
    <2>4. Listing(n) \in BatchCheckpoints(batch)
      BY <1>1, <1>3, <2>2, <2>3 DEF BatchCheckpoints
    <2> DEFINE inc == Listing(n)
    <2> HIDE DEF inc
    <2>5. inc \in BatchCheckpoints(batch) /\ Get(HolderOf(inc)) = s /\ NoteFor(inc) = n
      BY <2>3, <2>4 DEF inc
    <2> QED
      BY <2>5 DEF Anchored
  <1> QED
    BY <1>1, <1>2, <1>4, <1>5, <1>6 DEF Bound

\* A daily root the console wrote, signed or not.
LEMMA OwnDay ==
    ASSUME GivenInv, NEW roots, \A i \in DOMAIN roots : roots[i][1] = "root",
           NEW file, file = None \/ (file # None /\ TokenVerifies(Get(file), Sha256(DailyRootOf(roots)))),
           NEW day \in {BareDay(roots, file), SignedDay(BareDay(roots, file), ConsoleKey)}
    PROVE  /\ ~RejectDay(day)
           /\ DaySignatureFindings(day) = {}
           /\ QtsFindings(day) \subseteq {"qts_verified"}
  <1> DEFINE bare == BareDay(roots, file)
  <1>1. day.root = DailyRootOf(roots) /\ day.batch_roots = roots /\ day.qts_file = file
    BY DEF BareDay, SignedDay
  <1>2. \/ day.signature = None
        \/ day.signature = Some(Signature(ConsoleKey, Unsigned(day)))
    <2>1. CASE day = bare
      BY <2>1 DEF BareDay
    <2>2. CASE day = SignedDay(bare, ConsoleKey)
      <3>1. day.signature = Some(Signature(ConsoleKey, bare))
        BY <2>2 DEF SignedDay, BareDay
      <3>2. Unsigned(day) = bare
        <4> DEFINE s == Some(Signature(ConsoleKey, bare))
        <4>1. DOMAIN bare = {"root", "batch_roots", "signature", "console_key_id", "qts_file"}
              /\ bare = [f \in DOMAIN bare |-> bare[f]] /\ bare["signature"] = None
          BY DEF BareDay
        <4>2. Unsigned(day) = [[bare EXCEPT !.signature = s] EXCEPT !.signature = None]
          BY <2>2, Zenon DEF SignedDay, Unsigned
        <4> HIDE DEF bare, s
        <4> QED
          BY <4>1, <4>2
      <3> QED
        BY <3>1, <3>2
    <2> QED
      BY <2>1, <2>2
  <1>3. DaySignatureFindings(day) = {}
    BY <1>2 DEF DaySignatureFindings, GivenInv, Some, None, Get
  <1>4. QtsFindings(day) \subseteq {"qts_verified"}
    BY <1>1 DEF QtsFindings, TokenVerifies
  <1>5. ~RejectDay(day)
    BY <1>1 DEF RejectDay
  <1> QED
    BY <1>3, <1>4, <1>5

\* Every batch read so far anchors what it covers.
CountsInv ==
    /\ scenario \in Scenarios
    /\ GivenInv
    /\ DOMAIN anchored_seqs = AnchorStreams
    /\ scenario.faults = {} =>
          /\ findings \cap AnchorErrors = {}
          /\ \A i \in DOMAIN batches :
                /\ batches[i].root[1] = "root"
                /\ \A s \in AnchorStreams : \A n \in accepted[s] :
                      Covers(batches[i], n) => n.seqs \cap attested_seqs[s] \subseteq anchored_seqs[s]

LEMMA CountsNext ==
    BatchesSeq /\ CountsInv /\ [AnchorNext]_<<anchorVars, scenario>> => CountsInv'
  <1> SUFFICES ASSUME BatchesSeq, CountsInv, [AnchorNext]_<<anchorVars, scenario>>
               PROVE  CountsInv'
    OBVIOUS
  <1>a. scenario' = scenario
    BY Zenon DEF AnchorNext, ReadBatch, ReadDay
  <1>b. UNCHANGED <<console_keys, accepted, attested_seqs>>
    BY AnchorSteps DEF CheckBatch, CheckDay, anchorVars
  <1>c. GivenInv'
    BY <1>b DEF CountsInv, GivenInv
  <1>d. DOMAIN anchored_seqs' = AnchorStreams
    BY AnchorSteps DEF CheckBatch, RejectBatch, LeavePending, AcceptBatch, CheckDay, anchorVars,
                       CountsInv
  <1>1. CASE UNCHANGED anchorVars
    BY <1>1, <1>a DEF anchorVars, CountsInv, GivenInv, Covers, Stamped
  <1>2. CASE ReadBatch /\ scenario.faults = {}
    <2>1. PICK notes \in SUBSET Notes \ {{}} :
             \E file \in TokenFiles(Sha256(Root({LeafOf(n) : n \in notes}))) :
                \E batch \in BatchesFrom(BuildBatch(notes, file)) : CheckBatch(batch)
      BY <1>2, Zenon DEF ReadBatch
    <2>2. PICK file \in TokenFiles(Sha256(Root({LeafOf(n) : n \in notes}))) :
             \E batch \in BatchesFrom(BuildBatch(notes, file)) : CheckBatch(batch)
      BY <2>1
    <2>3. PICK batch \in BatchesFrom(BuildBatch(notes, file)) : CheckBatch(batch)
      BY <2>2
    <2>4. batch = BuildBatch(notes, file)
      BY <1>2, <2>3, Zenon DEF BatchesFrom, By
    <2>5. batch.root = Root({LeafOf(n) : n \in notes})
      BY <2>4 DEF BuildBatch
    <2>6. file = None \/ (file # None /\ TokenVerifies(Get(file), Sha256(batch.root)))
      BY <1>2, <2>2, <2>5, OwnFiles
    <2>7. /\ batch.root[1] = "root" /\ Bound(batch)
          /\ InclusionFindings(batch) \subseteq {"anchor_checkpoint_not_in_export"}
          /\ TokenFindings(batch) \subseteq {"anchor_pending", "anchor_verified"}
          /\ Stamped(batch) => TokenFindings(batch) = {"anchor_verified"}
          /\ \A s \in AnchorStreams : \A n \in accepted[s] :
                LeafOf(n) \in batch.root[2] =>
                   n.seqs \cap attested_seqs[s] \subseteq Anchored(batch, s)
      BY <2>1, <2>4, <2>6, OwnBatch DEF CountsInv
    <2>8. /\ findings' = findings \cup InclusionFindings(batch) \cup TokenFindings(batch)
          /\ \A s \in AnchorStreams : anchored_seqs[s] \subseteq anchored_seqs'[s]
          /\ Stamped(batch) =>
                \A s \in AnchorStreams : Anchored(batch, s) \subseteq anchored_seqs'[s]
      BY <2>3, <2>7 DEF CheckBatch, RejectBatch, LeavePending, AcceptBatch
    <2>9. findings' \cap AnchorErrors = {}
      BY <1>2, <2>7, <2>8 DEF CountsInv, AnchorErrors
    <2>10. ASSUME NEW i \in DOMAIN batches'
           PROVE  /\ batches'[i].root[1] = "root"
                  /\ \A s \in AnchorStreams : \A n \in accepted[s] :
                        Covers(batches'[i], n) =>
                           n.seqs \cap attested_seqs[s] \subseteq anchored_seqs'[s]
      <3>1. CASE i \in DOMAIN batches
        <4>1. batches'[i] = batches[i]
          BY <2>3, <3>1, BatchAppended
        <4> QED
          BY <1>2, <2>8, <3>1, <4>1 DEF CountsInv
      <3>2. CASE batches'[i] = batch
        BY <2>7, <2>8, <3>2 DEF Covers
      <3> QED
        BY <2>3, <3>1, <3>2, BatchAppended
    <2> QED
      BY <1>a, <1>b, <1>c, <1>d, <2>9, <2>10 DEF CountsInv, Covers, Stamped
  <1>3. CASE ReadDay /\ scenario.faults = {}
    <2> DEFINE roots == [i \in DOMAIN batches |-> batches[i].root]
    <2>1. PICK file \in TokenFiles(Sha256(DailyRootOf(roots))) :
             \E day \in DaysFrom(BareDay(roots, file)) : CheckDay(day)
      BY <1>3, Zenon DEF ReadDay
    <2>2. PICK day \in DaysFrom(BareDay(roots, file)) : CheckDay(day)
      BY <2>1
    <2>3. \A i \in DOMAIN roots : roots[i][1] = "root"
      BY <1>3 DEF CountsInv
    <2>4. file = None \/ (file # None /\ TokenVerifies(Get(file), Sha256(DailyRootOf(roots))))
      BY <1>3, <2>1, OwnFiles
    <2>5. day \in {BareDay(roots, file), SignedDay(BareDay(roots, file), ConsoleKey)}
      BY <1>3, <2>2, Zenon DEF DaysFrom, By
    <2> HIDE DEF roots
    <2>6. /\ ~RejectDay(day)
          /\ DaySignatureFindings(day) = {}
          /\ QtsFindings(day) \subseteq {"qts_verified"}
      BY <2>3, <2>4, <2>5, OwnDay DEF CountsInv
    <2>7. findings' = findings \cup QtsFindings(day)
      BY <2>2, <2>6 DEF CheckDay, AcceptDay
    <2>8. findings' \cap AnchorErrors = {}
      BY <1>3, <2>6, <2>7 DEF CountsInv, AnchorErrors
    <2>9. UNCHANGED <<anchored_seqs, batches>>
      BY <2>2 DEF CheckDay
    <2> QED
      BY <1>a, <1>b, <1>c, <2>8, <2>9 DEF CountsInv, Covers, Stamped
  <1>4. CASE scenario.faults # {}
    BY <1>4, <1>a, <1>c, <1>d DEF CountsInv
  <1> QED
    BY <1>1, <1>2, <1>3, <1>4 DEF AnchorNext

\* For any streams, notes and batches of an honest console: its anchors are never
\* errors, and each batch with a token anchors every attested record of the
\* accepted checkpoints it commits to, whichever stream they are in.  A listed
\* checkpoint is looked up by its id, which is unique (NotesAssumption).
THEOREM HonestAnchored == AnchorSpec => []HonestAnchorsCount
  <1>1. AnchorInit => BatchesSeq /\ CountsInv
    <2> SUFFICES ASSUME AnchorInit PROVE BatchesSeq /\ CountsInv
      OBVIOUS
    <2>1. PICK acc \in SUBSET Notes : accepted = [s \in AnchorStreams |-> {n \in acc : n.stream = s}]
      BY DEF AnchorInit
    <2>2. GivenInv
      BY <2>1 DEF AnchorInit, GivenInv
    <2>3. DOMAIN batches = {} /\ BatchesSeq
      BY DEF AnchorInit, BatchesSeq, IsSeq
    <2> QED
      BY <2>2, <2>3 DEF AnchorInit, CountsInv
  <1>2. CountsInv => HonestAnchorsCount
    BY DEF CountsInv, HonestAnchorsCount, Covering, Covers
  <1> QED
    BY <1>1, <1>2, BatchesSeqNext, CountsNext, PTL DEF AnchorSpec
=============================================================================
