--------------------------- MODULE VoteAttestation ---------------------------
(***************************************************************************)
(* Assembly of the vote attestation of a block being sealed:                *)
(* SealBlock::assemble_vote_attestation_stub of consensus/parlia/seal.rs,   *)
(* as a pure function of what it reads: the header, the parent header found *)
(* by hash, the snapshot found by number, which it reads twice, and the     *)
(* votes fetched for the parent hash.                                       *)
(*                                                                         *)
(* Bytes are abstracted: extra_data is a sequence of symbols, the RLP       *)
(* encoding of an attestation is one symbol carrying the attestation, an    *)
(* aggregate signature is the set of the signatures aggregated, and the     *)
(* 64-bit vote_address_set is the set of its one bits.                      *)
(***************************************************************************)
EXTENDS ParliaSnapshot

CONSTANTS
    SealLen,        \* EXTRA_SEAL_LEN: length of the trailing seal of extra_data
    LubanBlock,     \* first block at which is_luban_active_at_block holds
    MalformedSigs   \* vote signatures that blst's Signature::from_bytes rejects

ASSUME SealLen \in Nat \ {0} /\ LubanBlock \in Nat

-----------------------------------------------------------------------------
(* Results of the assembly.  A panic aborts the thread that seals. *)

Skipped     == [status |-> "skip"]
Failed(e)   == [status |-> "err", err |-> e]
Panicked(e) == [status |-> "panic", err |-> e]
Assembled(a, extra) == [status |-> "ok", attestation |-> a, extra_data |-> extra]

\* The RLP encoding of an attestation, spliced into extra_data as one chunk.
Encoded(att) == [rlp |-> att]

-----------------------------------------------------------------------------
\* votes.len() < snap.validators.len() * 2 / 3, in integer arithmetic
NotEnoughVotes(snap, votes) ==
    Cardinality(votes) < (Len(snap.validators) * 2) \div 3

\* get_justified_number_and_hash, once its own read of the snapshot one block
\* below the header has returned one: the justified checkpoint it records.
JustifiedNumberAndHash(snap) ==
    << snap.vote_data.target_number, snap.vote_data.target_hash >>

\* The checkpoint the attestation refers to: the justified checkpoint as
\* source, and as target the parent's number with the parent's mix_hash (the
\* field the code reads: it does not hash the parent).
AttestationData(parent, snap) ==
    LET justified == JustifiedNumberAndHash(snap)
    IN  VoteData(justified[1], justified[2], parent.number, parent.mix_hash)

\* attestation.vote_address_set: one bit, index - 1, per validator of the
\* snapshot whose vote address is among the voters.
VoteAddressSet(snap, votes) ==
    LET voters == {v.vote_address : v \in votes}
    IN  {snap.validators_map[a].index - 1 :
            a \in {b \in DOMAIN snap.validators_map :
                      snap.validators_map[b].vote_addr \in voters}}

\* One vote with another vote data than the attestation fails the assembly.
VoteCheckError(votes, data) == \E v \in votes : v.data # data

\* InvalidAttestationSet that accepts every bitset.
InvalidAttestationSetIgnored(bits, votes) == FALSE

\* vote_address_set.count_ones() != signatures.len(): a voter that is no
\* validator of the snapshot sets no bit.
InvalidAttestationSet(bits, votes) == Cardinality(bits) # Cardinality(votes)

\* SpliceAttestation that puts the attestation over the seal.
SpliceAttestationOverSeal(extra, att) ==
    SubSeq(extra, 1, Len(extra) - SealLen) \o << Encoded(att) >>

\* The new extra_data: the attestation goes between what precedes the seal
\* and the seal.
SpliceAttestation(extra, att) ==
    LET extra_seal_start == Len(extra) - SealLen
    IN  SubSeq(extra, 1, extra_seal_start)
            \o << Encoded(att) >>
            \o SubSeq(extra, extra_seal_start + 1, Len(extra))

\* assemble_vote_attestation_stub, every early return in the order of the
\* code.  parent is get_header_by_hash(header.parent_hash), snap is
\* snapshot(parent.number - 1) (None when parent is), votes is
\* fetch_vote_by_block_hash(header.parent_hash), and justified is what
\* get_justified_number_and_hash reads, snapshot(parent.number - 1) again.
AssembleVoteAttestation(header, parent, snap, justified, votes) ==
    IF header.number < LubanBlock \/ header.number < 2 THEN Skipped
    ELSE IF parent = None THEN Failed("ParentNotFound")
    ELSE IF snap = None THEN Failed("SnapshotNotFound")
    ELSE IF NotEnoughVotes(snap, votes) THEN Failed("NotEnoughVotes")
    ELSE IF justified = None THEN Failed("SnapshotNotFound")
    ELSE LET data == AttestationData(parent, justified)
             bits == VoteAddressSet(snap, votes)
             att  == [data             |-> data,
                      vote_address_set |-> bits,
                      agg_signature    |-> {v.signature : v \in votes}]
         IN  IF VoteCheckError(votes, data) THEN Failed("VoteCheck")
             ELSE IF \E v \in votes : v.signature \in MalformedSigs
                  THEN Failed("SigDecode")
             \* AggregateSignature::aggregate rejects an empty list, and the
             \* code expects it to succeed
             ELSE IF votes = {} THEN Panicked("AggregateFailed")
             ELSE IF InvalidAttestationSet(bits, votes)
                  THEN Failed("InvalidAttestationSet")
             \* header.extra_data.len() - EXTRA_SEAL_LEN underflows
             ELSE IF Len(header.extra_data) < SealLen
                  THEN Panicked("ExtraDataTooShort")
             ELSE Assembled(att, SpliceAttestation(header.extra_data, att))

=============================================================================
