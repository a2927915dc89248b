---------------------------- MODULE BscConsensus ----------------------------
(***************************************************************************)
(* The consensus component of the node (node/consensus.rs): the builder     *)
(* that installs the process-wide providers, and BscConsensus, whose        *)
(* methods the import pipeline calls on a block in a fixed order: header,   *)
(* header against parent, body against header, pre-execution and, after     *)
(* the block has been executed, post-execution.  A block that passes them   *)
(* all becomes the tip of the chain.                                        *)
(*                                                                         *)
(* A hash is the number of its block.  The receipts root is the list of     *)
(* receipts it commits to, a logs bloom is the set of its bits, and the     *)
(* hash of the requests is the requests.                                    *)
(***************************************************************************)
EXTENDS Integers, Sequences, TLC

CONSTANTS
    None,           \* Option::None
    UnknownHash,    \* a hash that is not the hash of the tip
    MsPerSec,       \* milliseconds in a second (1000 in the code)
    ByzantiumBlock, \* is_byzantium_active_at_block from this block
    LondonBlock,    \* is_london_active_at_block from this block
    CancunTime,     \* is_cancun_active_at_timestamp from this timestamp
    PragueTime,     \* is_prague_active_at_timestamp from this timestamp
    BlobParamsTime, \* blob_params_at_timestamp is Some from this timestamp
    BlobTarget,     \* target blob gas per block of the blob params
    MaxNumber,      \* bound: the highest block imported
    HeaderFields,   \* bound: the fields of a header but its number and parent
    Results,        \* bound: the results an execution may come to
    Verdicts        \* bound: what Parlia and the base consensus may answer

ASSUME /\ MsPerSec \in Nat \ {0} /\ MaxNumber \in Nat /\ BlobTarget \in Nat
       /\ {ByzantiumBlock, LondonBlock, CancunTime, PragueTime} \subseteq Nat

\* The chain specs of BSC have London from the first block a node imports
\* here and blob parameters from Cancun on.  The code relies on it: before
\* London, or without blob parameters, it skips the checks of the later
\* forks without an error.
ASSUME LondonBlock <= 1 /\ BlobParamsTime <= CancunTime

VARIABLES
    node,       \* "new", "built", or how build_consensus panicked
    globals,    \* the process-wide providers that are set
    chain,      \* what a child's validation reads of each imported header
    candidate,  \* the block in the pipeline
    stage,      \* the method the pipeline calls next, or how the block ended
    verdict,    \* Ok or the error of the last method called
    executed    \* the execution result of the candidate once it has run

vars == << node, globals, chain, candidate, stage, verdict, executed >>

Ok == "ok"

-----------------------------------------------------------------------------
(* The chain spec *)

IsByzantium(number) == number >= ByzantiumBlock
IsLondon(number) == number >= LondonBlock
IsCancun(number, timestamp) == timestamp >= CancunTime
IsPrague(timestamp) == timestamp >= PragueTime
BlobParamsAt(timestamp) ==
    IF timestamp >= BlobParamsTime THEN [target |-> BlobTarget] ELSE None

-----------------------------------------------------------------------------
(* build_consensus *)

AllProviders == {"snapshot_provider", "header_provider"}

\* create_snapshot_provider: the snapshot database under the data directory
\* is opened, which may fail, and the provider is built on it.
CreateSnapshotProvider(db_ok) ==
    IF db_ok THEN [ok |-> TRUE, provider |-> "snapshot_provider"]
    ELSE [ok |-> FALSE, err |-> "Failed to initialize snapshot database"]

\* The outcome of build_consensus: each global can be set once, and every
\* failure is a panic.
BuildOutcome(db_ok) ==
    IF ~CreateSnapshotProvider(db_ok).ok THEN "panic_snapshot_db"
    ELSE IF "snapshot_provider" \in globals THEN "panic_snapshot_provider_set"
    ELSE IF "header_provider" \in globals THEN "panic_header_provider_set"
    ELSE "built"

\* BuildConsensus that returns the consensus without the header provider.
BuildConsensusWithoutHeaderProvider(db_ok) ==
    /\ node \in {"new", "built"}
    /\ candidate = None
    /\ node' = BuildOutcome(db_ok)
    /\ globals' = globals
            \cup (IF db_ok /\ "snapshot_provider" \notin globals
                  THEN {"snapshot_provider"} ELSE {})
    /\ UNCHANGED << chain, candidate, stage, verdict, executed >>

\* build_consensus: the providers are installed one after the other, the
\* first staying set when the second fails.
BuildConsensus(db_ok) ==
    /\ node \in {"new", "built"}
    /\ candidate = None
    /\ node' = BuildOutcome(db_ok)
    /\ globals' = globals
            \cup (IF db_ok /\ "snapshot_provider" \notin globals
                  THEN {"snapshot_provider"} ELSE {})
            \cup (IF BuildOutcome(db_ok) = "built"
                  THEN {"header_provider"} ELSE {})
    /\ UNCHANGED << chain, candidate, stage, verdict, executed >>

\* The process ends, by a panic of build_consensus or at any other moment,
\* and the node is started again: the globals and the block at hand are gone
\* with the process, the chain is in the database.
Restart ==
    /\ node # "new"
    /\ node' = "new"
    /\ globals' = {}
    /\ candidate' = None
    /\ stage' = "idle"
    /\ verdict' = None
    /\ executed' = None
    /\ UNCHANGED chain

-----------------------------------------------------------------------------
(* Header against parent *)

\* calculate_millisecond_timestamp: the seconds of the header and the
\* milliseconds carried by its mix_hash.
MsTimestamp(header) == header.timestamp * MsPerSec + header.millis

ValidateAgainstParentHashNumber(header, parent) ==
    IF parent.number + 1 # header.number THEN "ParentBlockNumberMismatch"
    ELSE IF parent.hash # header.parent_hash THEN "ParentHashMismatch"
    ELSE Ok

\* TimestampIsInPast that lets a block share the timestamp of its parent.
TimestampIsInPastStrictly(header, parent) ==
    MsTimestamp(header) < MsTimestamp(parent)

TimestampIsInPast(header, parent) ==
    MsTimestamp(header) <= MsTimestamp(parent)

OrZero(field) == IF field = None THEN 0 ELSE field

NextBlockExcessBlobGas(parent, params) ==
    LET spent == OrZero(parent.excess_blob_gas) + OrZero(parent.blob_gas_used)
    IN  IF spent > params.target THEN spent - params.target ELSE 0

ValidateAgainstParent4844(header, parent, params) ==
    IF header.blob_gas_used = None THEN "BlobGasUsedMissing"
    ELSE IF header.excess_blob_gas = None THEN "ExcessBlobGasMissing"
    ELSE IF header.excess_blob_gas # NextBlockExcessBlobGas(parent, params)
         THEN "ExcessBlobGasDiff"
    ELSE Ok

\* The blob gas fields are checked at all.
BlobGasChecked(header) ==
    /\ IsLondon(header.number)
    /\ IsCancun(header.number, header.timestamp)
    /\ BlobParamsAt(header.timestamp) # None

\* ValidateHeaderAgainstParent that takes any number for the child's.
ValidateHeaderAgainstParentAnyNumber(header, parent) ==
    IF TimestampIsInPast(header, parent) THEN "TimestampIsInPast"
    ELSE IF BlobGasChecked(header)
         THEN ValidateAgainstParent4844(header, parent,
                                        BlobParamsAt(header.timestamp))
    ELSE Ok

\* ValidateHeaderAgainstParent that leaves the blob gas fields alone.
ValidateHeaderAgainstParentNoBlobGas(header, parent) ==
    IF ValidateAgainstParentHashNumber(header, parent) # Ok
    THEN ValidateAgainstParentHashNumber(header, parent)
    ELSE IF TimestampIsInPast(header, parent) THEN "TimestampIsInPast"
    ELSE Ok

\* validate_header_against_parent: the first of its checks that fails.
ValidateHeaderAgainstParent(header, parent) ==
    IF ValidateAgainstParentHashNumber(header, parent) # Ok
    THEN ValidateAgainstParentHashNumber(header, parent)
    ELSE IF TimestampIsInPast(header, parent) THEN "TimestampIsInPast"
    ELSE IF BlobGasChecked(header)
         THEN ValidateAgainstParent4844(header, parent,
                                        BlobParamsAt(header.timestamp))
    ELSE Ok

-----------------------------------------------------------------------------
(* Post-execution *)

\* CumulativeGasUsed that reads the first receipt.
CumulativeGasUsedOfFirst(receipts) ==
    IF receipts = << >> THEN 0 ELSE receipts[1].cumulative_gas_used

\* The cumulative gas of the last receipt, 0 for a block with none.
CumulativeGasUsed(receipts) ==
    IF receipts = << >> THEN 0
    ELSE receipts[Len(receipts)].cumulative_gas_used

ReceiptRoot(receipts) == [root |-> receipts]

\* The blooms of the receipts folded with bitwise or.
LogsBloom(receipts) == UNION {receipts[i].bloom : i \in DOMAIN receipts}

RequestsHash(requests) == [hash |-> requests]

\* Calculated against expected: the root first, then the bloom.
CompareReceiptsRootAndLogsBloom(root, bloom, expected_root, expected_bloom) ==
    IF root # expected_root THEN "BodyReceiptRootDiff"
    ELSE IF bloom # expected_bloom THEN "BodyBloomLogDiff"
    ELSE Ok

VerifyReceipts(expected_root, expected_bloom, receipts) ==
    CompareReceiptsRootAndLogsBloom(ReceiptRoot(receipts), LogsBloom(receipts),
                                    expected_root, expected_bloom)

\* validate_block_post_execution: the first of its checks that fails.
ValidateBlockPostExecution(header, result) ==
    LET receipts_err == VerifyReceipts(header.receipts_root, header.logs_bloom,
                                       result.receipts)
    IN  IF header.gas_used # CumulativeGasUsed(result.receipts)
        THEN "BlockGasUsed"
        ELSE IF IsByzantium(header.number) /\ receipts_err # Ok
             THEN receipts_err
        ELSE IF IsLondon(header.number) /\ IsPrague(header.timestamp)
             THEN IF header.requests_hash = None THEN "RequestsHashMissing"
                  ELSE IF RequestsHash(result.requests) # header.requests_hash
                       THEN "BodyRequestsHashDiff"
                  ELSE Ok
        ELSE Ok

-----------------------------------------------------------------------------
(* The import pipeline *)

Tip == chain[Len(chain)]

\* What the validation of a child reads of its parent.
ParentView(header) ==
    [number          |-> header.number,
     hash            |-> header.number,
     timestamp       |-> header.timestamp,
     millis          |-> header.millis,
     blob_gas_used   |-> header.blob_gas_used,
     excess_blob_gas |-> header.excess_blob_gas]

\* The pipeline goes on to the next method, or drops the block.
Proceed(err, next) ==
    /\ verdict' = err
    /\ stage' = IF err = Ok THEN next ELSE "rejected"
    /\ candidate' = IF err = Ok THEN candidate ELSE None

\* The headers offered for a tip: the next number or the one after, on the
\* tip or on a block that is not the tip.
Offers ==
    {[number |-> number, parent_hash |-> parent_hash] @@ fields :
        number \in {Tip.number + 1, Tip.number + 2},
        parent_hash \in {Tip.hash, UnknownHash},
        fields \in HeaderFields}

\* A peer offers a block for the tip.
ReceiveBlock ==
    /\ node = "built"
    /\ stage \in {"idle", "imported", "rejected"}
    /\ Tip.number < MaxNumber
    /\ candidate' \in Offers
    /\ stage' = "header"
    /\ verdict' = None
    /\ executed' = None
    /\ UNCHANGED << node, globals, chain >>

\* validate_header: the answer of Parlia, handed on.
ValidateHeader(parlia) ==
    /\ stage = "header"
    /\ Proceed(parlia, "against_parent")
    /\ UNCHANGED << node, globals, chain, executed >>

CheckHeaderAgainstParent ==
    /\ stage = "against_parent"
    /\ Proceed(ValidateHeaderAgainstParent(candidate, Tip), "body")
    /\ UNCHANGED << node, globals, chain, executed >>

\* validate_body_against_header: the answer of the base consensus.
ValidateBodyAgainstHeader(base) ==
    /\ stage = "body"
    /\ Proceed(base, "pre_execution")
    /\ UNCHANGED << node, globals, chain, executed >>

\* validate_block_pre_execution: the answer of Parlia.
ValidateBlockPreExecution(parlia) ==
    /\ stage = "pre_execution"
    /\ Proceed(parlia, "post_execution")
    /\ UNCHANGED << node, globals, chain, executed >>

\* The block is executed and its result validated; a block that passes is
\* the new tip.
CheckBlockPostExecution(result) ==
    /\ stage = "post_execution"
    /\ executed' = IF ValidateBlockPostExecution(candidate, result) = Ok
                   THEN result ELSE None
    /\ Proceed(ValidateBlockPostExecution(candidate, result), "imported")
    /\ chain' = IF ValidateBlockPostExecution(candidate, result) = Ok
                THEN Append(chain, ParentView(candidate)) ELSE chain
    /\ UNCHANGED << node, globals >>

-----------------------------------------------------------------------------

Genesis ==
    [number |-> 0, hash |-> 0, timestamp |-> 0, millis |-> 0,
     blob_gas_used |-> None, excess_blob_gas |-> None]

\* A header is its number, the hash of its parent and its other fields.
IsHeader(header) ==
    /\ header.number \in 1..(MaxNumber + 1)
    /\ header.parent_hash \in 0..MaxNumber \cup {UnknownHash}
    /\ [field \in DOMAIN header \ {"number", "parent_hash"} |-> header[field]]
            \in HeaderFields

Init ==
    /\ node = "new"
    /\ globals = {}
    /\ chain = << Genesis >>
    /\ candidate = None
    /\ stage = "idle"
    /\ verdict = None
    /\ executed = None

Next ==
    \/ \E db_ok \in BOOLEAN : BuildConsensus(db_ok)
    \/ Restart
    \/ ReceiveBlock
    \/ \E parlia \in Verdicts : ValidateHeader(parlia)
    \/ CheckHeaderAgainstParent
    \/ \E base \in Verdicts : ValidateBodyAgainstHeader(base)
    \/ \E parlia \in Verdicts : ValidateBlockPreExecution(parlia)
    \/ \E result \in Results : CheckBlockPostExecution(result)

Spec == Init /\ [][Next]_vars

-----------------------------------------------------------------------------
(* Properties *)

Stages == {"idle", "header", "against_parent", "body", "pre_execution",
           "post_execution", "imported", "rejected"}

\* The type invariant: the chain holds one block per number up to the bound,
\* and the pipeline holds a block exactly while it works on one.
TypeOK ==
    /\ node \in {"new", "built", "panic_snapshot_db",
                 "panic_snapshot_provider_set", "panic_header_provider_set"}
    /\ globals \subseteq AllProviders
    /\ Len(chain) \in 1..(MaxNumber + 1)
    /\ \A i \in DOMAIN chain : chain[i].number \in 0..MaxNumber
    /\ stage \in Stages
    /\ (stage \in {"idle", "rejected"}) = (candidate = None)
    /\ candidate = None \/ IsHeader(candidate)
    /\ executed \in Results \cup {None}
    /\ (stage = "rejected") => verdict \notin {Ok, None}

\* A block is validated only in a process that has both providers installed,
\* and the header provider is never set without the snapshot provider,
\* whatever builds, panics and restarts came before: the globals that
\* build_consensus sets one after the other outlive a second build that
\* panics and are gone with the process.
ValidatesWithProviders ==
    /\ stage # "idle" => globals = AllProviders
    /\ "header_provider" \in globals => "snapshot_provider" \in globals

\* Along the imported chain every block names its parent, has the next
\* number, and is later than its parent in milliseconds; a block whose
\* mix_hash carries less than a second is, whatever the milliseconds of its
\* parent, not earlier in seconds either.  validate_header_against_parent
\* compares only the sum and takes the milliseconds as they come: a header
\* with a second or more in its mix_hash may go back in seconds.
ChainContinuity ==
    \A i \in DOMAIN chain \ {1} :
        /\ chain[i].number = chain[i - 1].number + 1
        /\ MsTimestamp(chain[i]) > MsTimestamp(chain[i - 1])
        /\ chain[i].millis < MsPerSec
              => chain[i].timestamp >= chain[i - 1].timestamp

\* A block imported at a Cancun timestamp carries the excess blob gas that
\* follows from the blob gas of its parent, pre-Cancun parents counting as 0:
\* the blob gas check of validate_header_against_parent.
BlobGasFollowsParent ==
    \A i \in DOMAIN chain \ {1} :
        IsCancun(chain[i].number, chain[i].timestamp) =>
            /\ chain[i].blob_gas_used # None
            /\ chain[i].excess_blob_gas =
                 LET spent == OrZero(chain[i - 1].excess_blob_gas)
                                + OrZero(chain[i - 1].blob_gas_used)
                 IN  IF spent > BlobTarget THEN spent - BlobTarget ELSE 0

\* The header of an imported block commits to the result of its execution:
\* its gas used is the gas of the whole block, from Byzantium on its receipts
\* root and logs bloom are those of the receipts, and from Prague on its
\* requests hash is that of the requests: validate_block_post_execution.
ExecutionCommitted ==
    stage = "imported" =>
        LET receipts == executed.receipts
            all == {receipts[i].cumulative_gas_used : i \in DOMAIN receipts}
        IN  /\ \A gas \in all : candidate.gas_used >= gas
            /\ candidate.gas_used \in all \cup {0}
            /\ IsByzantium(candidate.number) =>
                 /\ candidate.receipts_root = ReceiptRoot(receipts)
                 /\ \A i \in DOMAIN receipts :
                        receipts[i].bloom \subseteq candidate.logs_bloom
                 /\ \A bit \in candidate.logs_bloom :
                        \E i \in DOMAIN receipts : bit \in receipts[i].bloom
            /\ IsPrague(candidate.timestamp) =>
                 candidate.requests_hash = RequestsHash(executed.requests)

=============================================================================
