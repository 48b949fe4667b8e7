------------------------------- MODULE Notes -------------------------------
(***************************************************************************)
(* Checkpoint notes and countersignatures (crates/evidence/checkpoint.rs). *)
(* Signatures and digests are symbolic: a signature is the pair of the key *)
(* and what it signed.  A certificate stands for its own fingerprint.      *)
(***************************************************************************)
EXTENDS Options

CONSTANT
    StreamId    \* the stream under consideration

Signature(key, message) == <<"signature", key, message>>

NoteHash(note) == <<"note", note>>

\* merkle_root_of_record_hashes: equal roots mean equal leaves.
MerkleRoot(hashes) == <<"root", hashes>>

\* build_note_linked over records that start at sequence number "from"; the
\* records are contiguous, as build_note requires.
BuildNote(id, from, hashes, time, cert, prevHash) ==
    [checkpoint_id             |-> id,
     stream_id                 |-> StreamId,
     seq_from                  |-> from,
     seq_to                    |-> from + Len(hashes) - 1,
     chain_head_hash           |-> hashes[Len(hashes)],
     merkle_root               |-> MerkleRoot(hashes),
     tree_size                 |-> Len(hashes),
     ts_wall                   |-> time,
     recorder_cert_fingerprint |-> cert,
     prev_checkpoint_hash      |-> prevHash]

\* A BundleCheckpoint: signed note and optional countersignature.
Checkpoint(note, signature, countersignature) ==
    [note |-> note, signature |-> signature, countersignature |-> countersignature]
=============================================================================
