--------------------------- MODULE ParliaSnapshot ---------------------------
(***************************************************************************)
(* The validator snapshot of the Parlia engine: the validator set of an     *)
(* epoch, the window of recent signers and the latest justified checkpoint. *)
(*                                                                         *)
(* The snapshot's source (consensus/parlia/snapshot.rs) is not part of the  *)
(* analysed files, so every definition here follows spec.md sections 3, 4.1 *)
(* and 8.  The sealer (Sealer.tla) reads a snapshot through `validators`,   *)
(* `validators_map`, `vote_data` and `sign_recently`, whose names are kept. *)
(***************************************************************************)
EXTENDS Integers, FiniteSets, Sequences

CONSTANTS
    None,           \* the absent value: Option::None of a lookup
    VoteAddrOf      \* VoteAddrOf[a]: the BLS vote address registered by validator a

-----------------------------------------------------------------------------
(* Data *)

\* A justified-checkpoint reference: source block and target block.
VoteData(sn, sh, tn, th) ==
    [source_number |-> sn, source_hash |-> sh,
     target_number |-> tn, target_hash |-> th]

\* The recent-signer window holds floor(n/2)+1 entries for n validators.
WindowSize(n) == n \div 2 + 1

\* validators_map: metadata per validator.  The index is the 1-based position
\* of the validator in the canonical order of its epoch.
ValidatorsMap(validators) ==
    [a \in {validators[i] : i \in DOMAIN validators} |->
        [vote_addr |-> VoteAddrOf[a],
         index     |-> CHOOSE i \in DOMAIN validators : validators[i] = a]]

\* The snapshot built directly from the validator list of a checkpoint header.
CheckpointSnapshot(number, hash, validators) ==
    [block_number   |-> number,
     block_hash     |-> hash,
     validators     |-> validators,
     validators_map |-> ValidatorsMap(validators),
     recents        |-> << >>,
     vote_data      |-> VoteData(number, hash, number, hash)]

ValidatorSet(snap) == {snap.validators[i] : i \in DOMAIN snap.validators}

-----------------------------------------------------------------------------
(* Operations *)

\* sign_recently: val signed one of the blocks that still count against it
\* when the block after this snapshot is produced.  Of the floor(n/2)+1
\* entries of the window the oldest is due for eviction by that block, so any
\* floor(n/2)+1 consecutive blocks have distinct signers (spec.md section 8).
SignRecently(snap, val) ==
    \E seen \in DOMAIN snap.recents :
        /\ snap.recents[seen] = val
        /\ seen + WindowSize(Len(snap.validators)) > snap.block_number + 1

\* apply(prev, header): the snapshot after an accepted header.  The signer
\* enters the window, the entries older than the window leave it, and an
\* attestation carried by the header moves the justified checkpoint.
Apply(snap, header) ==
    LET limit == WindowSize(Len(snap.validators))
        kept  == {n \in DOMAIN snap.recents : n + limit > header.number}
    IN  [snap EXCEPT
            !.block_number = header.number,
            !.block_hash   = header.hash,
            !.recents      = [n \in kept \cup {header.number} |->
                                 IF n = header.number THEN header.signer
                                                      ELSE snap.recents[n]],
            !.vote_data    = IF header.attestation = None
                             THEN snap.vote_data
                             ELSE header.attestation]

=============================================================================
