# Model checking reth-bsc: sealer, block validation and forkchoice benchmark

This directory holds TLA+ specifications of the parts of reth-bsc that decide
something: the Parlia block sealer, the validation methods of `BscConsensus`,
the `engine_forkchoiceUpdatedV1` method and the forkchoice benchmark that
drives it. Every module is written from the Rust source; where the code calls
into files outside the analysed source (the snapshot, the vote pool, reth's
validation helpers) the module follows `spec.md` or the documented behaviour of
the callee and `PROJECT.json` marks the definition `spec_modelled`.

`PROJECT.json` lists the components, the runs, the map from definitions to
source lines, the mutants that show each property can fail, the findings and
the hazards.

## The system

| Part | Source | State | Operations |
|---|---|---|---|
| Sealer `SealBlock` | `consensus/parlia/seal.rs` | validator address, signer function, handles to provider and chain spec | `new`, `new_with_sign_fn`, `update_sign_fn`, `seal` (checks, sleep, attestation, signature), `delay_for_ramanujan_fork`, `assemble_vote_attestation_stub`, `get_justified_number_and_hash`, `default_sign_fn` |
| Snapshot, snapshot provider, header store, vote pool | outside the analysed source | snapshots by number, headers by hash, votes by target hash | read by the sealer: `snapshot`, `get_header_by_hash`, `fetch_vote_by_block_hash`, `sign_recently` |
| Consensus builder | `node/consensus.rs` | two process-wide providers, each set once | `build_consensus`, `create_snapshot_provider` |
| `BscConsensus` | `node/consensus.rs` | none of its own | `validate_header`, `validate_header_against_parent`, `validate_body_against_header`, `validate_block_pre_execution`, `validate_block_post_execution`, `verify_receipts`, `compare_receipts_root_and_logs_bloom` |
| Engine API method | `node/engine_api/mod.rs` | none | `into_rpc_module` (the method exists only in a build with the `bench-test` feature), `engine_forkchoiceUpdatedV1` |
| Forkchoice benchmark | `reth-bench/src/bench/mod.rs`, `bench/forkchoice_only.rs`, `valid_payload.rs`, `bench/output.rs` | producer task, channel of 1000, main task with its three timers, rows, two CSV files | `BenchmarkCommand::execute`, `Command::execute`, `fork_choice_updated_v{1,2,3}_wait`, `call_forkchoice_updated`, `TotalGasOutput::new`, the serialisers of the rows |
| Sub-protocol handler, boot nodes, Rialto chain spec, module roots, chain ids | `handler.rs`, `bootnodes.rs`, `bsc_rialto.rs`, `parlia/mod.rs`, `bsc_config.rs`, `engine_api/builder.rs` | constants and wiring | not modelled |

How they interact. The payload builder hands a block to `seal`, which reads the
snapshot below the block, sleeps until the block's slot while the import path
and the vote pool go on changing, then reads the parent header, the snapshot
below the parent and the votes for the parent, and signs. The import pipeline
calls the methods of `BscConsensus` on every block in a fixed order and makes a
block the tip when all of them return `Ok`. The benchmark is a client of the
engine API: a spawned task fetches blocks and sends them through a bounded
channel, the main task calls `engine_forkchoiceUpdated` for each and repeats the
call while the node is syncing; it times every call, keeps the time it spent
waiting for the producer out of its account, and writes its rows to two files.

What is hard to test here: the chain and the vote pool moving while the sealer
sleeps; the integer arithmetic of quorum, window and delay at their edges; a
signer that fails; the two tasks of the benchmark around a full or a closed
channel; retry loops without a limit; a server and a client that disagree on how
SYNCING and INVALID are reported, or on whether the method exists; durations
subtracted from one another; an output of two files of which one fails; globals
that are set once in a process that may build twice.

## Modules

| Module | Models | Composition |
|---|---|---|
| `ParliaSnapshot` | the snapshot: `VoteData`, the window of size floor(n/2)+1, `sign_recently`, `apply` (after spec.md) | extended by `VoteAttestation` |
| `VoteAttestation` | `assemble_vote_attestation_stub` as a function of the header, the parent, the snapshot at each of its two reads and the votes, every early return in the order of the code | extended by `Sealer` |
| `Sealer` | `SealBlock` as a state machine next to the import path (`ImportBlock`) and the vote pool (`ReceiveVote`) | the composition of sealer, chain and vote pool |
| `EngineApi` | `into_rpc_module` as the set of methods of a build, `engine_forkchoiceUpdatedV1` as a function from the parse result and the engine's answer to the JSON-RPC response | extended by `ForkchoiceBench` |
| `ForkchoiceBench` | the benchmark from the command line to its exit: a producer task and a main task around the channel, a clock, the rows and the files, against a node that imports blocks | the composition of benchmark, server method and node |
| `BenchmarkLog` | the abstract specification of the benchmark: the rows it may record, what their times mean, the summary it returns and the files it leaves | implemented by `ForkchoiceBench` under the mapping `Log` |
| `BscConsensus` | `build_consensus`, the restart of the process and the five validation methods as the steps of an import | one pipeline, one chain |
| `MCSealer`, `MCVoteAttestation`, `MCForkchoiceBench`, `MCBscConsensus` | the instances TLC checks | |

### Sealer

`seal()` is two steps, because everything before `thread::sleep` reads the state
of one moment and everything after it the state of a later one. `SealRejected`
is a call that returns an error before the sleep (`SealError`: the genesis
block, no snapshot, not a validator, signed recently; `seal()` takes the
difficulty of the header as the payload builder set it and does not compare it
with the turn). `SealSleep` does
the same checks, computes the delay from a clock reading and goes to sleep.
`SealWake` is the rest: the attestation stub, whose error the code logs and
drops, the signer, whose error the code drops too, the copy of the signature
into the last `SealLen` bytes, and the return. Between the two, `ImportBlock`
appends a block of any validator that may sign and `ReceiveVote` adds a vote.

The snapshot the sealer reads is that of `ParliaSnapshot`, written from
spec.md: `Apply` keeps the signers of the last floor(n/2)+1 blocks and
`SignRecently` tests all of them but the oldest, which the next block evicts.
No property is stated of the snapshot alone: it would hold or fail whatever
`seal.rs` does. The chain of the model only grows, so `snapshot(number - 1)`
is the same before and after the sleep, and `NoDoubleSignInWindow` rests on
the test `seal()` makes before it sleeps; a reorganisation during the sleep
is a hazard `PROJECT.json` lists without a property.

`assemble_vote_attestation_stub` reads `snapshot(parent.number - 1)` twice,
the second time inside `get_justified_number_and_hash`, and either read may
find nothing. `MCVoteAttestation` gives the function both answers; in
`Sealer` nothing imports between the two reads and they are one. The vote
pool hands the assembly the votes whose target is the parent's hash, and
the assembly compares them with the parent's `mix_hash`: in `Sealer` no
pool with a vote is ever attested (run `sealer_quorum`), and the inputs of
`MCVoteAttestation` for which the function does attest, votes for the
`mix_hash`, are inputs of the function that the node does not produce. What
`attestation` and `attestation_quorum` show is about the function.

Time is in ticks of 100 ms, so that the truncation of the clock to whole seconds
in `delay_for_ramanujan_fork` is visible. The wiggle of the back-off before the
Ramanujan fork is any value of the range the code draws from,
`0..WIGGLE * (validators / 2 + 1)` with the division rounding down (spec.md 4.3
writes the range with n/2 rounded up; the code's range lies inside it). Bytes of `extra_data` are symbols; a
signature byte records who signed and over which header, an attestation is one
symbol holding the attestation. The panics of the code (the `expect` on the
aggregation, `copy_from_slice` with a signature of another length, the
subtraction `len - EXTRA_SEAL_LEN`) are results of kind `panic`.

### BscConsensus

The state is the imported chain, kept as what a child's validation reads of its
parent, the block in the pipeline and the stage it has reached. The checks are
functions that return `"ok"` or the name of the `ConsensusError`, in the order
of the code. What Parlia and the base consensus answer is an input
(`Verdicts`). A hash is the number of its block, the receipts root is the list
it commits to, a bloom is a set of bits.

Two things the code takes for granted are written down where the module
depends on them. The chain spec has London from the first block and blob
parameters from Cancun on (an `ASSUME`): before London, or without blob
parameters, `validate_header_against_parent` and
`validate_block_post_execution` skip the checks of the later forks without an
error. And the milliseconds of a header, which come from its `mix_hash`, are
added to its seconds as they are: the instance offers headers with more than a
second of them, and `ChainContinuity` says what then still holds (the order in
milliseconds) and what holds only for headers with less than a second (the
order in seconds, and with it the order of the forks that a timestamp
activates). Whether Parlia's `validate_header` refuses a `mix_hash` out of
range is outside the analysed files.

`BuildConsensus` installs the two process-wide providers one after the other;
a build that fails is a panic, and a second build in the same process panics on
the first provider and leaves both as they were. `Restart` ends the process at
any moment: the providers and the block at hand are gone, the chain stays.

### ForkchoiceBench

The main task starts at the command line (`BenchmarkCommandExecute`: tracing
may fail to start), builds its context and spawns the producer
(`ConsumerStart`), and is then `recv` / `call` / `sleep` / `finish`. The
producer is `fetch` / `send`; a block the provider does not return is the
`unwrap` that panics, which ends the task and drops the sender. `ConsumerCall` is one call of the
engine API together with what both loops around it make of the answer:
`fork_choice_updated_v1_wait` for a status that came as a result, the loop of
`execute()` for an error whose text holds `SYNCING`. The server is the method of
`EngineApi` in a build with the `bench-test` feature (`bsc`), the same node
built without it, where the method is not found (`bsc_release`), or, for
comparison, an engine API that returns every status as a result (`standard`);
the node imports blocks on its own (`NodeImport`), or stops importing. The
test `contains("SYNCING")` on the text of an error is a test of the one part
of the model's error that can hold the word, its detail.

The clock is a counter that `Tick` advances while the main task awaits; the
statements between two awaits take no time, so the model has rows with a time
of 0, which a run of the program does not. The
three timers of `execute()` are the clock readings they were started at:
`wait_start` around `recv`, `start` around the call, and the start of the
benchmark at 0. A row holds `time = clock - total_wait_time` and
`latency = clock - start`; both are durations in ticks, and the files hold them
in microseconds of `TicksPerMicro` ticks, rounded down as `as_micros` does.
`sent` is the one variable with no counterpart in the code: the clock when the
call in flight was sent, set wherever the main task enters `call`. No action
reads it; `LatencyOfTheCall` compares the latency of a row with it.
`ConsumerFinish` writes the file of latencies, then the file of rows, then
builds the summary; either writer may fail, and `TotalGasOutput::new` panics
without a row. The rate of the summary is a float in the code and here the
class of its value: finite with its whole part, infinite, or NaN.

`BenchmarkLog` says what the benchmark owes its user without tasks, channels
or timers: rows are recorded in the order of the range, a block only once the
node holds it and has not refused it, nothing after the end; the time of a row
is the time the benchmark has spent other than waiting for a block, and its
latency is part of that time since the row before; the summary is that of the
rows; an output file has a line for every row, and the file of rows exists only
beside the file of latencies. `ForkchoiceBench` implements it under the mapping
`Log`: `results` for the rows, the exit of the main task for the outcome,
`consumer = "recv"` for waiting, and for the time spent the clock less the
waits, the wait in progress included. The summary computed by the recursive
`SumGas` is compared with the fold of the abstract specification; the rate,
a quotient of two mapped fields, is left out of the mapping.

The time of a row in `BenchmarkLog` is the time `execute()` computes, "since
the start of the benchmark minus the time waiting for blocks" in the words of
its comment (`forkchoice_only.rs:136`). The doc comment of the field,
`output.rs:70`, says "Time since the start of the benchmark". The two differ
by the waits, and the summary takes its total duration and its gas per second
from this field. `PROJECT.json` records the disagreement as a finding, and the
mutant of `ImplementsBenchmarkLog` is the reading of the doc comment: with
`time = clock` TLC finds the refinement violated after the first wait.

## Runs

| Run | Module / cfg | Result | Shows |
|---|---|---|---|
| `sealer` | `MCSealer` / `MCSealer.cfg` | holds, about 270,000 states | `NoDoubleSignInWindow`, `NotSealedBeforeSlot` (with the fixed back-off of an out-of-turn sealer before the fork), `SignatureCoversHeader`, `TypeOK` |
| `attestation` | `MCVoteAttestation` / `MCVoteAttestation.cfg` | holds, 62,500 states | `ResultOK`, `AttestationBacked`: over every vote pool of the bounds an assembled attestation is backed by votes of validators of the snapshot, one bit each, and is spliced in front of the seal |
| `consensus` | `MCBscConsensus` / `MCBscConsensus.cfg` | holds, about 1,330,000 states | `ChainContinuity`, `BlobGasFollowsParent`, `ExecutionCommitted`, `ValidatesWithProviders`, `TypeOK` |
| `bench` | `MCForkchoiceBench` / `MCForkchoiceBench.cfg` | holds, about 63,000 states | `BlocksConserved`, `BscInvalidIsAnError`, `TimeCoversLatencies`, `TypeOK`, the refinement `ImplementsBenchmarkLog` and the liveness property `Termination` |
| `sealer_unsigned` | `MCSealerUnsigned.cfg` | violated | `SealedImpliesSigned` |
| `sealer_panic` | `MCSealerPanic.cfg` | violated | `SealNeverPanics` |
| `sealer_stale` | `MCSealerStale.cfg` | violated | `SealedOnHead` |
| `sealer_quorum` | `MCSealerQuorum.cfg` | violated | `QuorumVotesAttested` |
| `sealer_slot` | `MCSealerSlot.cfg` | violated | `WakesAtSlot` |
| `attestation_quorum` | `MCVoteAttestationQuorum.cfg` | violated | `AttestsOnlyQuorum` |
| `bench_no_rows` | `MCForkchoiceBenchNoRows.cfg` | violated | `SummaryHasRows` |
| `bench_latency` | `MCForkchoiceBenchLatency.cfg` | violated | `LatencyOfTheCall` |

Every property of a run that holds has a mutant in `PROJECT.json`: a definition
changed the way a slip in the code would change it (a dropped check, `<` for
`<=`, the first receipt for the last, a send that does not wait, a wait
counted from the start of the benchmark, a row with the time since the start,
a build that sets one provider),
under which TLC finds the property violated.

### What the violated runs say

Each states a sentence of `spec.md`, or an expectation written in the code, and
TLC shows a behaviour of the code against it.

- `SealedImpliesSigned`: when the signer fails, `seal()` returns `Ok` with the
  seal left as it was (`seal.rs:116`); the default signer always fails.
- `SealNeverPanics`: with one validator the quorum is 0, the list of votes may
  be empty and the `expect` on the aggregation panics (`seal.rs:206`); a signer
  that returns another length than the seal panics in `copy_from_slice`
  (`seal.rs:110`).
- `SealedOnHead`: the sleep cannot be cancelled; a block imported meanwhile at
  the same number does not stop the seal (`seal.rs:96`).
- `QuorumVotesAttested`: the attestation data takes the parent's `mix_hash` as
  target hash, so votes for the parent's real hash fail the vote check and an
  honest quorum is never attested (`seal.rs:173`).
- `AttestsOnlyQuorum`: the threshold is `n * 2 / 3` rounded down; with 4
  validators 2 votes are enough, where the rule asks for 3 (`seal.rs:163`).
- `WakesAtSlot`: the clock is read in whole seconds, so the sealer may wake up
  to one second after the slot (`seal.rs:126`).
- `SummaryHasRows`: when the producer task fails on its first block the receive
  loop ends without a row and `TotalGasOutput::new` panics (`output.rs:92`).
- `LatencyOfTheCall`: `ForkchoiceResult` is documented as the result of a
  single `forkchoiceUpdated` call, but `start` is taken before the retry loop
  (`forkchoice_only.rs:113`) and read after it. For a block the node did not
  yet hold, the latency and the gas per second printed for it include the
  calls answered SYNCING or ACCEPTED and the sleeps between them. Whether the
  figure is meant to be "time until the node accepted the head" is for the
  authors to say; the comment and the code do not agree.

## Bounds

| Bound | Value | Why it is enough |
|---|---|---|
| Sealer: validator lists | the local validator alone, three validators with the local one, two without it | windows of size 1 and 2, quorum 0 and 2, the local validator in and out of the list |
| Sealer: `MaxNumber` | 3 | a block of the local validator, a full window after it, and the next turn |
| Sealer: `MaxVotes` | 2 | a quorum of 3 validators, and a vote too few |
| Sealer: forks | Ramanujan at 2, Luban at 3 | blocks before and after each |
| Sealer: clock readings | inside a second before the slot, on a second before the slot, after the slot | the truncation, the wait that ends exactly at the slot so that only the back-off is left, and the elapsed slot |
| Sealer: `extra_data` | vanity and seal, and one shorter than the seal | the subtraction `len - EXTRA_SEAL_LEN` above and below zero |
| Attestation: voters | four validators and a stranger; snapshots of 1, 3 and 4 validators | the quorum at n = 1, 3 and 4, a vote that sets no bit |
| Consensus: `MaxNumber` | 3 | every check compares a block with its parent, and the parent is itself any imported block |
| Consensus: forks | Byzantium at block 2, London at 1, Cancun at time 1, Prague at time 2 | the guards of Byzantium, Cancun and Prague are false for some imported block and true for another; London holds for all, as the module assumes |
| Consensus: `MsPerSec` | 2 | two blocks may share a second and differ in milliseconds |
| Consensus: milliseconds | 0, 1 and 3 | inside a second, and enough beyond one for a block to be later in milliseconds and earlier in seconds |
| Consensus: receipts | none, one, two with growing gas and different blooms | the empty case, and last against first |
| Bench: range | blocks 1 to 4, channel of 2 | the producer waits on a full channel while the main task retries |
| Bench: providers | all blocks, the lower blocks only, all but block 0, none | the panic on the first block and on a later one, for the head and for the safe block |
| Bench: statuses | SYNCING and ACCEPTED for a block the node lacks, INVALID for a bad block, an engine error at any call | every arm of the method and of the wait |
| Bench: `MaxClock` | 4 ticks | a wait and a call of a tick each for two blocks: rows whose time differs from the time since the start, and latencies that add up over rows |
| Bench: `NodeTip` | 4 | the node may reach the end of the range, and may stop at any block below it |
| Bench: `TicksPerMicro` | 2 | a duration that is not a whole number of microseconds |
| Bench: output | no output path, both files written, the first writer fails, the second fails | every exit of the writing of the files |

## Fairness

Only `ForkchoiceBench` has a liveness property. Its specification assumes weak
fairness of the producer task and of the main task, and nothing else. The
two tasks run on the tokio runtime, which polls a task that is ready, and a
task of this benchmark that can take a step stays able to until it takes it: a
send waits for room that only the main task makes, a receive for a message that
only the producer sends, a sleep ends by itself. The node is not under
fairness: it may stop importing at any block, and the retry loops have no
limit. `Termination` therefore says what the code can promise: the benchmark
ends, or from some point on it is calling for a block the node never
imports. The clock is not under fairness either: time need not pass for the benchmark to
end, and `Tick` stops at `MaxClock`. No fairness is assumed of the sealer: its properties are safety
properties.

The runs `bench` and `consensus` do not check for deadlock, because both systems
stop: the benchmark returns, and the import ends at the bound or when
`build_consensus` panics.

## Not modelled

- The snapshot provider's cache and persistence, the header validator of
  Parlia and the vote pool's own rules: their source is outside the analysed
  files. The sealer sees them through the operations it calls. `spec.md`
  names their properties (bounded cache, backward walk, replay, recovery) and
  not their steps, so a module of them would be written from invention, not
  from code; the components stay `partly`. `build_consensus` opens the
  snapshot database apart from the chain database (`consensus.rs:258`); what
  a crash between a write to one and a write to the other leaves is a hazard
  `PROJECT.json` lists without a property, for the same reason.
- BLS and ECDSA: a signature is the fact of who signed what, an aggregate the
  set of its parts.
- RLP and the layout of bytes beyond the position of the seal.
- Of the benchmark: the length of the sleep between two calls (200 ms; the
  clock may advance by any amount during it), the width of the sum of gas (a
  `u64` that no range of blocks fills), the digits of the rate beyond its
  class and whole part, the wording of the CSV header and of the log lines.
- The sub-protocol handler (`handler.rs`): it accepts every connection and
  wraps it in a `BscProtocolConnection`; the session that calls it and the
  connection it builds, `stream.rs`, are outside the analysed files, so there
  is no state machine to write from source. `PROJECT.json` keeps the hazard of
  its command channel, whose sender is dropped when `into_connection` returns.
- Boot nodes, the Rialto chain spec, the chain ids of `bsc_config.rs`, the
  module roots and `engine_api/builder.rs`: constants and wiring. The fork
  activations they hold enter the modules as CONSTANTS.

## Plan

Done: the sealer with its environment, the attestation assembly, the builder
and the validation methods, the engine API method and its registration, and
the benchmark from the command line to its files, with its timing and its
abstract specification; each with its instance and its runs.

Every file under `src/` that holds behaviour is modelled; the lines the map
leaves out are imports, declarations, `Display` and command-line structs.

Open, and waiting for source rather than for modelling:

1. Several sealers on one chain, shown to implement an abstract slot (one
   validator in turn, the others after a back-off, nobody inside its window).
   What happens to a sealed block is decided by the miner and the header
   validator, which are outside the analysed files.
2. The snapshot provider as spec.md describes it (bounded cache, backward walk,
   replay, persistence with crash and restart), and the connection of the
   sub-protocol (`stream.rs`).
