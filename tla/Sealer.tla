------------------------------- MODULE Sealer -------------------------------
(***************************************************************************)
(* The block sealer of the Parlia engine: SealBlock of                      *)
(* consensus/parlia/seal.rs.  One thread calls seal(block): it checks that  *)
(* the local validator may sign, sleeps until the block's slot, assembles   *)
(* the vote attestation, signs the header and returns the sealed block.     *)
(*                                                                         *)
(* While the sealer sleeps the rest of the node keeps running: the chain    *)
(* import path appends blocks of other validators (ImportBlock) and the     *)
(* vote pool receives gossiped votes (ReceiveVote).  The sealer reads the   *)
(* snapshot provider, the header store and the vote pool and changes none   *)
(* of them.                                                                 *)
(*                                                                         *)
(* Time is counted in ticks of 100 ms.                                      *)
(***************************************************************************)
EXTENDS VoteAttestation

CONSTANTS
    Val,            \* validator_address: the address the local node seals with
    ValidatorSets,  \* the validator lists the genesis checkpoint may carry
    VoteAddrs,      \* the vote addresses gossiped votes may claim
    MaxNumber,      \* bound: the highest block number the chain reaches
    MaxVotes,       \* bound: the most votes the pool holds
    RamanujanBlock, \* first block at which is_ramanujan_active_at_block holds
    ZeroHash,       \* the mix_hash of every block, and the genesis parent hash
    UnknownHash,    \* the hash of a block the header store does not hold
    Timestamps,     \* header.timestamp of candidate blocks, in seconds
    ClockReadings,  \* what SystemTime::now() may read, in ticks
    ExtraDatas,     \* header.extra_data of candidate blocks
    SigLens         \* lengths of the signatures an external signer returns

ASSUME /\ MaxNumber \in Nat /\ MaxVotes \in Nat /\ RamanujanBlock \in Nat
       /\ Timestamps \subseteq Nat /\ ClockReadings \subseteq Nat
       /\ SigLens \subseteq Nat \ {0}

VARIABLES
    chain,      \* header store: chain[n + 1] is the canonical header of number n
    snaps,      \* snapshot provider: snaps[n + 1] is the snapshot at number n
    votePool,   \* vote pool: the vote envelopes received and kept
    pc,         \* the sealing thread: "idle" or "sleeping" inside seal()
    block,      \* the header of the block seal() was called with
    sign_fn,    \* the signer of the SealBlock at hand, None when there is none
    wakeAt,     \* earliest tick at which thread::sleep(delay) returns
    result      \* what the last call of seal() returned

env  == << chain, snaps, votePool >>
vars == << chain, snaps, votePool, pc, block, sign_fn, wakeAt, result >>

DIFF_NOTURN == 1
DIFF_INTURN == 2

TicksPerSec == 10
FIXED_BACKOFF_TIME_BEFORE_FORK == 2     \* 200 ms
WIGGLE_TIME_BEFORE_FORK == 5            \* 500 ms

-----------------------------------------------------------------------------
(* What the sealer reads *)

HeadNumber == Len(chain) - 1

\* The hash of the canonical block of number n.
BlockHash(n) == n

\* HeaderProvider::get_header_by_hash
GetHeaderByHash(hash) ==
    IF \E i \in DOMAIN chain : chain[i].hash = hash
    THEN chain[CHOOSE i \in DOMAIN chain : chain[i].hash = hash]
    ELSE None

\* SnapshotProvider::snapshot(block_number)
SnapshotAt(n) == IF n \in 0..HeadNumber THEN snaps[n + 1] ELSE None

\* vote_pool::fetch_vote_by_block_hash: the votes whose target is that block
FetchVoteByBlockHash(hash) == {v \in votePool : v.data.target_hash = hash}

-----------------------------------------------------------------------------
(* Signing *)

SignErr == [ok |-> FALSE]
Signed(addr, data, len) ==
    [ok |-> TRUE, sig |-> [i \in 1..len |-> [signer |-> addr, over |-> data]]]

\* What is signed: the header without the seal at the end of its extra_data.
SigningInput(header) ==
    [header EXCEPT !.extra_data =
        SubSeq(@, 1, IF Len(@) >= SealLen THEN Len(@) - SealLen ELSE Len(@))]

\* default_sign_fn: its private key is 40 zero bytes, which
\* SigningKey::from_slice refuses, so it returns the error.
DefaultSignFn(addr, data) == {SignErr}

\* sign_fn(val, "mimetype/parlia", bytes): the results the signer may give.
SignFn(fn, addr, data) ==
    IF fn = "default" THEN DefaultSignFn(addr, data)
    ELSE {SignErr} \cup {Signed(addr, data, len) : len \in SigLens}

-----------------------------------------------------------------------------
(* seal(), up to the sleep *)

NoError == "NoError"

\* SealError without the test of the recent signers.
SealErrorIgnoringRecents(header) ==
    IF header.number = 0 THEN "GenesisSealing"
    ELSE LET snap == SnapshotAt(header.number - 1)
         IN  IF snap = None THEN "SnapshotNotFound"
             ELSE IF Val \notin ValidatorSet(snap) THEN "Unauthorized"
             ELSE NoError

\* The early returns of seal(), in the order of the code.
SealError(header) ==
    IF header.number = 0 THEN "GenesisSealing"
    ELSE LET snap == SnapshotAt(header.number - 1)
         IN  IF snap = None THEN "SnapshotNotFound"
             ELSE IF Val \notin ValidatorSet(snap) THEN "Unauthorized"
             ELSE IF SignRecently(snap, Val) THEN "SignedRecently"
             ELSE NoError

\* NowSecs that rounds the clock up to the next second.
NowSecsRoundedUp(now) == (now + TicksPerSec - 1) \div TicksPerSec

\* now.duration_since(UNIX_EPOCH).as_secs(): whole seconds, rounded down
NowSecs(now) == now \div TicksPerSec

\* rand::rng().random_range(0..WIGGLE_TIME_BEFORE_FORK * (validators / 2 + 1))
RandWiggle(snapshot) ==
    0 .. (WIGGLE_TIME_BEFORE_FORK * (Len(snapshot.validators) \div 2 + 1) - 1)

\* delay_for_ramanujan_fork: the wait until the slot of the header and, for an
\* out-of-turn block before the fork, the back-off on top of it.
DelayForRamanujanFork(snapshot, header, now, rand_wiggle) ==
    LET secs     == header.timestamp - NowSecs(now)
        delay    == TicksPerSec * (IF secs > 0 THEN secs ELSE 0)
        backsOff == /\ header.number < RamanujanBlock
                    /\ header.difficulty = DIFF_NOTURN
    IN  delay + IF backsOff THEN FIXED_BACKOFF_TIME_BEFORE_FORK + rand_wiggle
                            ELSE 0

NoResult    == [kind |-> "none", err |-> None, header |-> None]
Err(e)      == [kind |-> "err", err |-> e, header |-> None]
Panic(e)    == [kind |-> "panic", err |-> e, header |-> None]
Ok(header)  == [kind |-> "ok", err |-> None, header |-> header]

\* SealBlock::new: a sealer with the default signer.
New ==
    /\ pc = "idle"
    /\ sign_fn = None
    /\ sign_fn' = "default"
    /\ UNCHANGED << env, pc, block, wakeAt, result >>

\* SealBlock::new_with_sign_fn: a sealer with the signer of the caller.
NewWithSignFn(fn) ==
    /\ pc = "idle"
    /\ sign_fn = None
    /\ sign_fn' = fn
    /\ UNCHANGED << env, pc, block, wakeAt, result >>

\* update_sign_fn: the sealer at hand gets another signer.
UpdateSignFn(fn) ==
    /\ pc = "idle"
    /\ sign_fn # None
    /\ sign_fn' = fn
    /\ UNCHANGED << env, pc, block, wakeAt, result >>

\* seal() returns an error before it sleeps.  seal() takes the SealBlock by
\* value: whatever it returns, the sealer is gone.
SealRejected(header) ==
    /\ pc = "idle"
    /\ sign_fn # None
    /\ SealError(header) # NoError
    /\ result' = Err(SealError(header))
    /\ sign_fn' = None
    /\ UNCHANGED << env, pc, block, wakeAt >>

\* seal() passes its checks and goes to sleep for the delay.
SealSleep(header, now) ==
    /\ pc = "idle"
    /\ sign_fn # None
    /\ SealError(header) = NoError
    /\ LET snap == SnapshotAt(header.number - 1)
       IN  \E rand_wiggle \in RandWiggle(snap) :
              wakeAt' = now + DelayForRamanujanFork(snap, header, now, rand_wiggle)
    /\ pc' = "sleeping"
    /\ block' = header
    /\ result' = NoResult
    /\ UNCHANGED << env, sign_fn >>

-----------------------------------------------------------------------------
(* seal(), after the sleep *)

\* assemble_vote_attestation_stub with the reads it makes.  Nothing imports
\* between its two reads of the snapshot: both return the same.
AssembleVoteAttestationStub(header) ==
    LET parent == GetHeaderByHash(header.parent_hash)
        snap   == IF parent = None THEN None ELSE SnapshotAt(parent.number - 1)
    IN  AssembleVoteAttestation(header, parent, snap, snap,
                                FetchVoteByBlockHash(header.parent_hash))

\* InsertSeal that appends the signature instead of overwriting the seal.
InsertSealAppended(header, signed) ==
    IF ~signed.ok \/ Len(header.extra_data) < SealLen THEN Ok(header)
    ELSE IF Len(signed.sig) # SealLen THEN Panic("CopyFromSlice")
    ELSE Ok([header EXCEPT !.extra_data = @ \o signed.sig])

\* InsertSeal that writes the signature over the first bytes of extra_data.
InsertSealAtFront(header, signed) ==
    IF ~signed.ok \/ Len(header.extra_data) < SealLen THEN Ok(header)
    ELSE IF Len(signed.sig) # SealLen THEN Panic("CopyFromSlice")
    ELSE Ok([header EXCEPT !.extra_data =
                signed.sig \o SubSeq(@, SealLen + 1, Len(@))])

\* The signature goes over the last SealLen bytes of extra_data.  A signature
\* of another length makes copy_from_slice panic; an error of the signer and
\* an extra_data too short for a seal are logged and the header stays as it is.
InsertSeal(header, signed) ==
    LET extra == header.extra_data
        start == Len(extra) - SealLen
    IN  IF ~signed.ok \/ Len(extra) < SealLen THEN Ok(header)
        ELSE IF Len(signed.sig) # SealLen THEN Panic("CopyFromSlice")
        ELSE Ok([header EXCEPT !.extra_data = SubSeq(extra, 1, start) \o signed.sig])

\* The sleep ends: the attestation is assembled (a failure is logged and the
\* header goes on without one), the header is signed and the block returned.
SealWake ==
    /\ pc = "sleeping"
    /\ LET assembled == AssembleVoteAttestationStub(block)
           header    == IF assembled.status = "ok"
                        THEN [block EXCEPT !.extra_data = assembled.extra_data]
                        ELSE block
       IN  IF assembled.status = "panic"
           THEN result' = Panic(assembled.err)
           ELSE \E signed \in SignFn(sign_fn, Val, SigningInput(header)) :
                   result' = InsertSeal(header, signed)
    /\ pc' = "idle"
    /\ block' = None
    /\ wakeAt' = 0
    /\ sign_fn' = None
    /\ UNCHANGED env

-----------------------------------------------------------------------------
(* The rest of the node *)

\* The chain import path accepts the block of a validator that may sign it.
\* With justify the block carries an attestation of its parent.
ImportBlock(signer, justify) ==
    LET snap   == snaps[Len(snaps)]
        parent == chain[Len(chain)]
        number == HeadNumber + 1
        header == [number      |-> number,
                   hash        |-> BlockHash(number),
                   parent_hash |-> parent.hash,
                   mix_hash    |-> ZeroHash,
                   signer      |-> signer,
                   attestation |->
                       IF justify
                       THEN VoteData(snap.vote_data.target_number,
                                     snap.vote_data.target_hash,
                                     parent.number, parent.hash)
                       ELSE None]
    IN  /\ HeadNumber < MaxNumber
        /\ signer \in ValidatorSet(snap)
        /\ ~SignRecently(snap, signer)
        /\ justify => number >= 2 /\ number >= LubanBlock
        /\ chain' = Append(chain, header)
        /\ snaps' = Append(snaps, Apply(snap, header))
        /\ UNCHANGED << votePool, pc, block, sign_fn, wakeAt, result >>

\* The votes peers cast for the head: its number and hash as target, and as
\* source the justified checkpoint below or at the head.
GossipVotes ==
    LET sources == {SnapshotAt(n).vote_data :
                       n \in {HeadNumber - 1, HeadNumber} \cap Nat}
    IN  {[vote_address |-> a, data |-> d, signature |-> [by |-> a, data |-> d]] :
            a \in VoteAddrs,
            d \in {VoteData(s.target_number, s.target_hash,
                              HeadNumber, BlockHash(HeadNumber)) : s \in sources}}

\* The pool keeps a vote unless it holds one of that address for that target.
ReceiveVote(vote) ==
    /\ HeadNumber >= 1
    /\ Cardinality(votePool) < MaxVotes
    /\ ~\E v \in votePool : /\ v.vote_address = vote.vote_address
                            /\ v.data.target_hash = vote.data.target_hash
    /\ votePool' = votePool \cup {vote}
    /\ UNCHANGED << chain, snaps, pc, block, sign_fn, wakeAt, result >>

-----------------------------------------------------------------------------
(* The specification *)

Genesis ==
    [number |-> 0, hash |-> BlockHash(0), parent_hash |-> ZeroHash,
     mix_hash |-> ZeroHash, signer |-> None, attestation |-> None]

SignFns == {"default", "custom"}

\* The parents a block of number n may name: the canonical block below it, or
\* a block the header store does not hold.
ParentHashes(n) ==
    {UnknownHash} \cup {BlockHash(m) : m \in {n - 1} \cap (0..HeadNumber)}

\* The blocks the payload builder hands to seal(): genesis, a block on the
\* head, or a block whose parent is not imported yet.
Candidates ==
    UNION {{[number |-> n, parent_hash |-> p, timestamp |-> t,
             difficulty |-> d, extra_data |-> e] :
               p \in ParentHashes(n), t \in Timestamps,
               d \in {DIFF_NOTURN, DIFF_INTURN}, e \in ExtraDatas} :
           n \in {0, HeadNumber + 1, HeadNumber + 2}}

Init ==
    /\ \E validators \in ValidatorSets :
          snaps = << CheckpointSnapshot(0, BlockHash(0), validators) >>
    /\ chain = << Genesis >>
    /\ votePool = {}
    /\ pc = "idle"
    /\ block = None
    /\ sign_fn = None
    /\ wakeAt = 0
    /\ result = NoResult

Next ==
    \/ New
    \/ \E fn \in SignFns : NewWithSignFn(fn) \/ UpdateSignFn(fn)
    \/ \E header \in Candidates : SealRejected(header)
    \/ \E header \in Candidates, now \in ClockReadings : SealSleep(header, now)
    \/ SealWake
    \/ \E signer \in ValidatorSet(snaps[Len(snaps)]), justify \in BOOLEAN :
          ImportBlock(signer, justify)
    \/ \E vote \in GossipVotes : ReceiveVote(vote)

Spec == Init /\ [][Next]_vars

-----------------------------------------------------------------------------
(* Properties *)

SealStart(header) == Len(header.extra_data) - SealLen
SealOf(header) ==
    SubSeq(header.extra_data, SealStart(header) + 1, Len(header.extra_data))
IsSignatureByte(b) == "signer" \in DOMAIN b

\* The variables keep their shapes: the header store and the snapshot provider
\* hold one entry per block number, the sealing thread holds a block exactly
\* while it sleeps, and seal() returns a header exactly when it returns Ok,
\* with an extra_data as long as the candidate's or one attestation longer.
TypeOK ==
    /\ pc \in {"idle", "sleeping"}
    /\ sign_fn \in SignFns \cup {None}
    /\ wakeAt \in Nat
    /\ Len(chain) = Len(snaps) /\ Len(chain) \in 1..(MaxNumber + 1)
    /\ \A i \in DOMAIN chain :
          /\ chain[i].number = i - 1 /\ chain[i].hash = BlockHash(i - 1)
          /\ snaps[i].block_number = i - 1
          /\ DOMAIN snaps[i].recents \subseteq 1..(i - 1)
    /\ \A v \in votePool : /\ v.vote_address \in VoteAddrs
                           /\ v.data.target_number \in 1..MaxNumber
    /\ Cardinality(votePool) <= MaxVotes
    /\ (pc = "sleeping") = (block # None)
    /\ pc = "sleeping" => sign_fn # None /\ block.number \in 1..(MaxNumber + 1)
    /\ result.kind \in {"none", "ok", "err", "panic"}
    /\ (result.kind = "ok") = (result.header # None)
    /\ result.kind = "ok" =>
          \E e \in ExtraDatas : Len(result.header.extra_data) \in {Len(e), Len(e) + 1}

\* seal() never returns a block of the local validator inside the window of
\* its own recent blocks: every canonical block below the sealed one that the
\* local validator signed is at least floor(n/2)+1 numbers below it, and the
\* local validator belongs to the validator set (the checks of seal() against
\* snapshot(number - 1), whatever the chain does while the sealer sleeps).
NoDoubleSignInWindow ==
    result.kind = "ok" =>
        LET number == result.header.number
            snap   == SnapshotAt(number - 1)
        IN  /\ snap # None
            /\ Val \in ValidatorSet(snap)
            /\ \A i \in DOMAIN chain :
                  chain[i].signer = Val /\ chain[i].number < number
                      => chain[i].number + WindowSize(Len(snap.validators)) <= number

\* The sealer never wakes before the slot of its block, and before the
\* Ramanujan fork an out-of-turn sealer leaves the validator in turn the
\* fixed back-off after the slot: the sleep computed by
\* delay_for_ramanujan_fork from a clock reading ends at or after
\* header.timestamp, whatever the clock read and the wiggle drawn.
NotSealedBeforeSlot ==
    pc = "sleeping" =>
        LET slot     == block.timestamp * TicksPerSec
            backsOff == /\ block.number < RamanujanBlock
                        /\ block.difficulty = DIFF_NOTURN
        IN  /\ wakeAt >= slot
            /\ backsOff => wakeAt >= slot + FIXED_BACKOFF_TIME_BEFORE_FORK

\* A seal that seal() writes is a signature of the local validator over the
\* very header it returns, taken without its seal: the signature fills the
\* last SealLen bytes and nothing else of extra_data moves.
SignatureCoversHeader ==
    result.kind = "ok" /\ Len(result.header.extra_data) >= SealLen =>
        LET header == result.header
            seal   == SealOf(header)
            signed == [header EXCEPT
                          !.extra_data = SubSeq(@, 1, SealStart(header))]
        IN  \/ \A i \in DOMAIN seal : ~IsSignatureByte(seal[i])
            \/ \A i \in DOMAIN seal : /\ IsSignatureByte(seal[i])
                                      /\ seal[i].signer = Val
                                      /\ seal[i].over = signed

-----------------------------------------------------------------------------
(* What spec.md says of the sealer and the code does not do *)

\* spec.md 4.3: "every precondition failure (..., signer failure) is a
\* distinct, non-fatal error -- the node simply forfeits that slot": a block
\* that seal() returns carries a signature in its seal (seal(), the Err arm
\* after sign_fn and the branch for an extra_data too short).
SealedImpliesSigned ==
    result.kind = "ok" =>
        /\ Len(result.header.extra_data) >= SealLen
        /\ \A i \in DOMAIN SealOf(result.header) :
              IsSignatureByte(SealOf(result.header)[i])

\* spec.md 7: sealing errors "never abort chain import or crash the
\* process": no call of seal() ends in a panic (the expect on
\* AggregateSignature::aggregate, copy_from_slice).
SealNeverPanics == result.kind # "panic"

\* spec.md 5: "if a competing block at the same height is observed while
\* waiting, the pending seal attempt must abort rather than produce a
\* now-stale header": seal() does not return a block for a number the chain
\* has reached while it slept (thread::sleep in seal()).
SealedOnHead ==
    [][pc = "sleeping" /\ result'.kind = "ok" => block.number > HeadNumber]_vars

\* The votes of the pool for the parent of the block: a quorum of validators
\* of the snapshot, all with the same vote data, whose target is the parent.
HonestQuorum(header) ==
    LET parent == GetHeaderByHash(header.parent_hash)
        votes  == FetchVoteByBlockHash(header.parent_hash)
    IN  /\ header.number >= LubanBlock /\ header.number >= 2
        /\ Len(header.extra_data) >= SealLen
        /\ parent # None
        /\ LET snap == SnapshotAt(parent.number - 1)
           IN  /\ \A v, w \in votes : v.data = w.data
               /\ \A v \in votes :
                     /\ v.data.target_number = parent.number
                     /\ v.data.target_hash = parent.hash
                     /\ \E a \in ValidatorSet(snap) :
                           snap.validators_map[a].vote_addr = v.vote_address
               /\ votes # {}
               /\ 3 * Cardinality(votes) >= 2 * Len(snap.validators)

\* spec.md 8: "Given k votes (k >= ceil(2n/3)) sharing identical VoteData,
\* aggregation succeeds": a block sealed while the pool holds such votes for its parent
\* carries an attestation (assemble_vote_attestation_stub, the target_hash
\* of the vote data it compares the votes with).
QuorumVotesAttested ==
    [][pc = "sleeping" /\ result'.kind = "ok" /\ HonestQuorum(block)
          => \E i \in DOMAIN result'.header.extra_data :
                "rlp" \in DOMAIN result'.header.extra_data[i]]_vars

\* spec.md 4.3: "base delay = scheduled slot deadline minus now": without a
\* back-off the sealer wakes at the slot of its block, or at once when the
\* slot has passed (delay_for_ramanujan_fork, the clock read in whole
\* seconds).
WakesAtSlot ==
    [][\A header \in Candidates, now \in ClockReadings :
          /\ SealSleep(header, now)
          /\ header.number >= RamanujanBlock \/ header.difficulty = DIFF_INTURN
          => LET slot == header.timestamp * TicksPerSec
             IN  wakeAt' = IF slot > now THEN slot ELSE now]_vars

=============================================================================
