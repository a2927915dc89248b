-------------------------- MODULE MCVoteAttestation --------------------------
(***************************************************************************)
(* assemble_vote_attestation_stub over every input of a small universe: a   *)
(* block of number 1 or 3, its parent found or not, the snapshot found or   *)
(* not at each of its two reads, an extra_data with or without room for a   *)
(* seal, and every pool of votes with at most one vote per vote address.    *)
(* A vote is cast by a validator or by an outsider, for the vote data the   *)
(* assembly expects or for the parent's hash, with a signature that decodes *)
(* or does not.  The vote pool of the node hands the assembly votes for the *)
(* parent's hash, which the function refuses (run sealer_quorum); the pools *)
(* with votes for the parent's mix_hash are the only inputs it attests for. *)
(***************************************************************************)
EXTENDS VoteAttestation

CONSTANTS
    ValidatorLists, \* the validator lists of the snapshot
    Voters          \* the vote addresses of the votes

VARIABLES
    header,         \* the header being sealed
    parent,         \* get_header_by_hash(header.parent_hash), or None
    snap,           \* snapshot(parent.number - 1), or None
    justified,      \* the same read by get_justified_number_and_hash
    votes           \* fetch_vote_by_block_hash(header.parent_hash)

vars == << header, parent, snap, justified, votes >>

Vanity == [pad |-> "vanity"]
Zero   == [pad |-> "zero"]

MCVoteAddrOf == [a \in {"a1", "a2", "a3", "a4"} |->
                    CASE a = "a1" -> "k1" [] a = "a2" -> "k2"
                      [] a = "a3" -> "k3" [] a = "a4" -> "k4"]

MCValidatorLists == {<< "a1" >>, << "a1", "a2", "a3" >>,
                     << "a1", "a2", "a3", "a4" >>}

MCMalformedSigs == {[malformed |-> a] : a \in Voters}

ParentHeader == [number |-> 2, hash |-> "h2", mix_hash |-> "zero"]

\* The votes a pool may hold for the parent: its number as target, its
\* mix_hash or its hash as target hash, the checkpoint of the snapshot as
\* source.
Envelopes ==
    LET datas == {VoteData(1, "h1", ParentHeader.number, th) :
                     th \in {ParentHeader.mix_hash, ParentHeader.hash}}
    IN  {[vote_address |-> a, data |-> d,
          signature |-> IF decodes THEN [by |-> a, data |-> d]
                                   ELSE [malformed |-> a]] :
            a \in Voters, d \in datas, decodes \in BOOLEAN}

Init ==
    /\ header \in [number : {1, 3}, parent_hash : {ParentHeader.hash},
                   extra_data : {<< Vanity, Zero, Zero >>, << Vanity >>}]
    /\ parent \in {None, ParentHeader}
    /\ \E validators \in ValidatorLists :
          snap \in {None, CheckpointSnapshot(1, "h1", validators)}
    /\ parent = None => snap = None
    /\ justified \in {None, snap}
    /\ votes = {}

\* The pool receives one more vote for the parent.
AddVote(vote) ==
    /\ \A v \in votes : v.vote_address # vote.vote_address
    /\ votes' = votes \cup {vote}
    /\ UNCHANGED << header, parent, snap, justified >>

Next == \E vote \in Envelopes : AddVote(vote)

Spec == Init /\ [][Next]_vars

Result == AssembleVoteAttestation(header, parent, snap, justified, votes)

-----------------------------------------------------------------------------
\* What the assembly returns has the shape of its status, and an extra_data
\* it returns is the header's with one chunk more and the seal of the header
\* still at its end (the splice of assemble_vote_attestation_stub).
ResultOK ==
    /\ Result.status \in {"skip", "err", "panic", "ok"}
    /\ Result.status = "ok" =>
          LET old == header.extra_data
              new == Result.extra_data
          IN  /\ Len(new) = Len(old) + 1
              /\ SubSeq(new, Len(new) - SealLen + 1, Len(new))
                    = SubSeq(old, Len(old) - SealLen + 1, Len(old))
              /\ new[Len(old) - SealLen + 1] = Encoded(Result.attestation)

\* An attestation that is assembled is backed by its votes: every vote is
\* the vote of another validator of the snapshot for the data of the
\* attestation, the bitset has the bit of each of these validators and no
\* other, and the aggregate is made of their signatures (the vote data
\* comparison and the count_ones test of assemble_vote_attestation_stub).
AttestationBacked ==
    Result.status = "ok" =>
        LET att    == Result.attestation
            voters == {a \in ValidatorSet(snap) :
                          \E v \in votes : v.vote_address = VoteAddrOf[a]}
        IN  /\ \A v \in votes :
                  /\ v.data = att.data
                  /\ \E a \in voters : v.vote_address = VoteAddrOf[a]
            /\ att.vote_address_set
                  = {i - 1 : i \in {j \in DOMAIN snap.validators :
                                       snap.validators[j] \in voters}}
            /\ Cardinality(att.vote_address_set) = Cardinality(votes)
            /\ att.agg_signature = {[by |-> v.vote_address, data |-> att.data] :
                                       v \in votes}

\* spec.md 4.3: "require at least ceil(2n/3) votes sharing byte-identical
\* VoteData": the assembly does not attest with fewer votes (the
\* threshold validators.len() * 2 / 3 of assemble_vote_attestation_stub).
AttestsOnlyQuorum ==
    Result.status = "ok" =>
        3 * Cardinality(Result.attestation.vote_address_set)
            >= 2 * Len(snap.validators)

=============================================================================
