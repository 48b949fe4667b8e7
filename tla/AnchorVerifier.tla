--------------------------- MODULE AnchorVerifier ---------------------------
(***************************************************************************)
(* Timestamp anchors: verify_anchors (crates/verify/src/engine.rs) over    *)
(* the batches, daily roots and tokens of module Tokens.                   *)
(***************************************************************************)
EXTENDS Tokens, FiniteSets

CONSTANT
    StreamOrder     \* stream ids, in the order of per_stream

VARIABLES
    console_keys,   \* the console keys known to the verifier
    accepted,       \* stream -> valid_checkpoint_ranges: [id, seqs, digest]
    attested_seqs,  \* stream -> attested sequence numbers
    anchored_seqs,  \* stream -> anchored sequence numbers
    earliest,       \* Option: earliest genTime
    findings,
    batches,        \* history: batches read, in order
    days            \* history: daily roots read, in order

anchorVars == <<console_keys, accepted, attested_seqs, anchored_seqs, earliest, findings,
                batches, days>>

AnchorStreams == {StreamOrder[i] : i \in DOMAIN StreamOrder}

ASSUME StreamOrderAssumption == StreamOrder \in Seq(AnchorStreams)

-----------------------------------------------------------------------------
(* Batches. *)

\* Mutant: any leaf that is in the tree does.
DigestOfAny(inc, note) == TRUE

\* The leaf is the digest of the checkpoint it is listed for.
DigestOf(inc, note) == inc.leaf = LeafOf(note)

Included(inc, batch) == inc.proved /\ inc.leaf \in batch.root[2]

\* Mutant: only looks at the first stream.
HolderFirst(inc) ==
    IF \E n \in accepted[StreamOrder[1]] : n.id = inc.id THEN Some(StreamOrder[1]) ELSE None

\* The first stream that has accepted a checkpoint of that id.
HolderOf(inc) ==
    LET at == {i \in DOMAIN StreamOrder : \E n \in accepted[StreamOrder[i]] : n.id = inc.id}
    IN  IF at = {} THEN None ELSE Some(StreamOrder[CHOOSE i \in at : \A j \in at : i <= j])

NoteFor(inc) == CHOOSE n \in accepted[Get(HolderOf(inc))] : n.id = inc.id

\* batch_checkpoints: the inclusions that check out.
BatchCheckpoints(batch) ==
    {inc \in batch.checkpoints : /\ Included(inc, batch)
                                 /\ HolderOf(inc) # None
                                 /\ DigestOf(inc, NoteFor(inc))}

InclusionFindings(batch) ==
    UNION {IF ~Included(inc, batch) THEN {"anchor_inclusion_invalid"}
           ELSE IF HolderOf(inc) = None THEN {"anchor_checkpoint_not_in_export"}
           ELSE IF ~DigestOf(inc, NoteFor(inc)) THEN {"anchor_leaf_mismatch"}
           ELSE {} : inc \in batch.checkpoints}

\* The attested records in the ranges of the batch's checkpoints.
Anchored(batch, stream) ==
    UNION {NoteFor(inc).seqs \cap attested_seqs[stream] :
              inc \in {i \in BatchCheckpoints(batch) : Get(HolderOf(i)) = stream}}

\* Mutant: the last token read wins.
LastWith(option, n) == Some(n)

MinWith(option, n) == IF option = None \/ n < Get(option) THEN Some(n) ELSE option

Bound(batch) == batch.root[1] = "root" /\ batch.root_sha256 = Sha256(batch.root)

\* Rejected before its inclusions and its token are looked at.
RejectBatch(batch) ==
    /\ ~Bound(batch)
    /\ findings' = findings \cup {IF batch.root[1] # "root" THEN "anchor_invalid"
                                  ELSE "anchor_digest_binding_broken"}
    /\ UNCHANGED <<anchored_seqs, earliest>>

TokenFindings(batch) ==
    IF batch.tsr_file = None THEN {"anchor_pending"}
    ELSE IF ~Get(batch.tsr_file).stored THEN {"anchor_token_missing"}
    ELSE IF VerifyToken(Get(batch.tsr_file).token, batch.root_sha256) THEN {"anchor_verified"}
    ELSE {"anchor_invalid"}

\* No verified token: the inclusions are reported on, nothing is anchored.
LeavePending(batch) ==
    /\ Bound(batch)
    /\ TokenFindings(batch) # {"anchor_verified"}
    /\ findings' = findings \cup InclusionFindings(batch) \cup TokenFindings(batch)
    /\ UNCHANGED <<anchored_seqs, earliest>>

AcceptBatch(batch) ==
    /\ Bound(batch)
    /\ TokenFindings(batch) = {"anchor_verified"}
    /\ findings' = findings \cup InclusionFindings(batch) \cup TokenFindings(batch)
    /\ earliest' = MinWith(earliest, Get(batch.tsr_file).token.tst.time)
    /\ anchored_seqs' = [s \in AnchorStreams |-> anchored_seqs[s] \cup Anchored(batch, s)]

CheckBatch(batch) ==
    /\ RejectBatch(batch) \/ LeavePending(batch) \/ AcceptBatch(batch)
    /\ batches' = Append(batches, batch)
    /\ UNCHANGED <<console_keys, accepted, attested_seqs, days>>

-----------------------------------------------------------------------------
(* Daily roots. *)

Unsigned(day) == [day EXCEPT !.signature = None]

RejectDay(day) ==
    /\ \/ \E i \in DOMAIN day.batch_roots : day.batch_roots[i][1] # "root"
       \/ day.root # DailyRootOf(day.batch_roots)
    /\ findings' = findings
          \cup {IF \E i \in DOMAIN day.batch_roots : day.batch_roots[i][1] # "root"
                THEN "daily_root_invalid" ELSE "daily_root_mismatch"}
    /\ UNCHANGED earliest

\* A bad signature is reported; the qualified timestamp is looked at all the same.
DaySignatureFindings(day) ==
    IF /\ day.signature # None
       /\ day.console_key_id # None
       /\ \A k \in console_keys : Get(day.signature) # Signature(k, Unsigned(day))
       /\ console_keys # {}
    THEN {"daily_root_signature_invalid"} ELSE {}

QtsFindings(day) ==
    IF day.qts_file = None THEN {}
    ELSE IF ~Get(day.qts_file).stored THEN {"qts_token_missing"}
    ELSE IF VerifyToken(Get(day.qts_file).token, Sha256(day.root)) THEN {"qts_verified"}
    ELSE {"qts_invalid"}

AcceptDay(day) ==
    /\ \A i \in DOMAIN day.batch_roots : day.batch_roots[i][1] = "root"
    /\ day.root = DailyRootOf(day.batch_roots)
    /\ findings' = findings \cup DaySignatureFindings(day) \cup QtsFindings(day)
    /\ earliest' = IF QtsFindings(day) = {"qts_verified"}
                   THEN MinWith(earliest, Get(day.qts_file).token.tst.time) ELSE earliest

CheckDay(day) ==
    /\ RejectDay(day) \/ AcceptDay(day)
    /\ days' = Append(days, day)
    /\ UNCHANGED <<console_keys, accepted, attested_seqs, anchored_seqs, batches>>

-----------------------------------------------------------------------------
AnchorErrors ==
    {"anchor_invalid", "anchor_digest_binding_broken", "anchor_inclusion_invalid",
     "anchor_leaf_mismatch", "anchor_token_missing", "daily_root_invalid",
     "daily_root_mismatch", "daily_root_signature_invalid", "qts_invalid", "qts_token_missing"}
=============================================================================
