--------------------------- MODULE ForkchoiceBench ---------------------------
(***************************************************************************)
(* The forkchoice-only benchmark of reth-bench (bench/forkchoice_only.rs)   *)
(* against a node: a spawned task fetches the blocks of the benchmark range *)
(* from a block provider and sends them down a bounded channel; the main    *)
(* task receives them, calls engine_forkchoiceUpdated for each and repeats  *)
(* the call while the node is syncing (valid_payload.rs and the retry loop  *)
(* of forkchoice_only.rs), timing every call and the benchmark less its     *)
(* waits for blocks; at the end it writes the output files and sums up the  *)
(* rows (output.rs).                                                        *)
(*                                                                         *)
(* The node answers through the module of BscEngineApi (EngineApi.tla),     *)
(* built with or without its bench-test feature, or through a standard      *)
(* engine API that returns every status as a result.  It imports blocks on  *)
(* its own while the benchmark runs, or stops importing.                    *)
(*                                                                         *)
(* Time is a clock of ticks that advances while the main task awaits; the   *)
(* statements between two awaits take no time.                              *)
(***************************************************************************)
EXTENDS EngineApi, Sequences

CONSTANTS
    None,               \* no message at hand
    FromBlock, ToBlock, \* benchmark_mode: the range of blocks to send
    ChannelCap,         \* capacity of the mpsc channel (1000 in the code)
    SafeDistance,       \* the safe block is this far below the head (32)
    FinalizedDistance,  \* the finalized block is this far below the head (64)
    NodeTip,            \* bound: the highest block the node imports
    Setups,             \* the server, block provider and bad blocks of a run
    PendingStatuses,    \* what the engine answers for a head it does not have
    CsvOutcomes,        \* what writing the output files may come to
    MaxClock,           \* bound: the clock stops at this reading
    TicksPerMicro       \* ticks of the clock in a microsecond

ASSUME /\ FromBlock \in Nat /\ ToBlock \in Nat /\ NodeTip \in Nat
       /\ ChannelCap \in Nat \ {0}
       /\ SafeDistance \in Nat /\ FinalizedDistance \in Nat
       /\ PendingStatuses \subseteq Statuses \ {"VALID", "INVALID"}
       /\ CsvOutcomes \subseteq
             {"no_output", "written", "forkchoice_error", "gas_error"}
       /\ MaxClock \in Nat /\ TicksPerMicro \in Nat \ {0}

VARIABLES
    setup,      \* [server, blocks, invalid]: fixed from the start
    nodeHead,   \* the highest block the node has imported
    clock,      \* Instant::now(), in ticks since total_benchmark_duration
    producer,   \* the spawned task: "unspawned", "fetch", "send", "done"
                \* or "panicked"
    next_block, \* the next block the producer fetches
    pending,    \* the message the producer is sending
    channel,    \* the messages sent and not yet received
    consumer,   \* the main task: "cli", "start", "recv", "call", "sleep",
                \* "finish" or an exit
    current,    \* the message the main task is working on
    wait_start, \* the clock when the current receive began
    total_wait_time,    \* the time spent in receives so far
    start,      \* the clock when the calls for the current block began
    sent,       \* the clock when the call in flight was sent: no variable
                \* of the code, kept to state LatencyOfTheCall
    results,    \* the pairs of row and latency recorded so far
    summary,    \* TotalGasOutput, once computed
    files       \* the output files completed

node == << setup, nodeHead, clock >>
prod == << producer, next_block, pending >>
timers == << wait_start, total_wait_time, start >>
cons == << consumer, current, timers, sent, results, summary, files >>
vars == << node, prod, channel, cons >>

\* How execute() ends: Ok(()), an error, or one of its two panics.
Exits == {"ok", "err", "panic_invalid", "panic_no_rows"}

-----------------------------------------------------------------------------
(* The node *)

\* The node imports its next block.
NodeImport ==
    /\ nodeHead < NodeTip
    /\ nodeHead' = nodeHead + 1
    /\ UNCHANGED << setup, clock, prod, channel, cons >>

\* Time passes while the main task awaits a block, an answer or its sleep.
Tick ==
    /\ clock < MaxClock
    /\ consumer \in {"recv", "call", "sleep"}
    /\ clock' = clock + 1
    /\ UNCHANGED << setup, nodeHead, prod, channel, cons >>

\* What the engine service answers to a forkchoice update with this head.
EngineResponses(head) ==
    {EngineErr(e) : e \in EngineErrors} \cup
    IF head \in setup.invalid
    THEN {EngineOk("INVALID", e) : e \in ValidationErrors}
    ELSE IF head <= nodeHead THEN {EngineOk("VALID", None)}
    ELSE {EngineOk(s, None) : s \in PendingStatuses}

\* An engine API that returns the payload status whatever it is.
StandardForkchoiceUpdated(response) ==
    IF response.ok THEN RpcOk(response.status)
    ELSE RpcErr(-32603, "Internal error", response.err)

\* call_forkchoice_updated: the method a message version is sent to.
ForkchoiceMethod(version) ==
    CASE version \in {"V3", "V4", "V5"} -> "engine_forkchoiceUpdatedV3"
      [] version = "V2" -> "engine_forkchoiceUpdatedV2"
      [] version = "V1" -> "engine_forkchoiceUpdatedV1"

\* The answers the benchmark may get from its server to a call.
RpcResponses(version, state) ==
    LET methods == IntoRpcModule(setup.server = "bsc")
    IN  {IF setup.server = "standard" THEN StandardForkchoiceUpdated(r)
         ELSE Call(methods, ForkchoiceMethod(version), TRUE, r) :
            r \in EngineResponses(state.head_block_hash)}

-----------------------------------------------------------------------------
(* The producer task *)

SaturatingSub(a, b) == IF a > b THEN a - b ELSE 0

\* The forkchoice state sent for a block.  A hash is the number of its block.
ForkchoiceState(number) ==
    [head_block_hash      |-> number,
     safe_block_hash      |-> SaturatingSub(number, SafeDistance),
     finalized_block_hash |-> SaturatingSub(number, FinalizedDistance)]

Contains(number) == number \in FromBlock..ToBlock

\* The three get_block_by_number calls of one round return a block.
Fetched(number) ==
    LET state == ForkchoiceState(number)
    IN  {number, state.safe_block_hash, state.finalized_block_hash}
            \subseteq setup.blocks

ReceiverOpen == consumer \notin Exits
SenderDropped == producer \in {"done", "panicked"}

\* BenchmarkCommand::execute: tracing is set up, which may fail, and the
\* subcommand is run.
BenchmarkCommandExecute ==
    /\ consumer = "cli"
    /\ \E tracing_ok \in BOOLEAN :
          consumer' = IF tracing_ok THEN "start" ELSE "err"
    /\ UNCHANGED << node, prod, channel, current, timers, sent, results,
                    summary, files >>

\* The head of Command::execute: the benchmark context is built, which may
\* fail; then the channel is made, the producer task is spawned, the clock
\* of the benchmark starts and the first receive begins.
ConsumerStart ==
    /\ consumer = "start"
    /\ \E context_ok \in BOOLEAN :
          IF context_ok
          THEN producer' = "fetch" /\ consumer' = "recv" /\ wait_start' = clock
          ELSE consumer' = "err" /\ UNCHANGED << producer, wait_start >>
    /\ UNCHANGED << node, next_block, pending, channel, current,
                    total_wait_time, start, sent, results, summary, files >>

\* One round of the loop up to the send: the block and its safe and finalized
\* blocks are fetched and next_block moves on.
ProducerFetch ==
    /\ producer = "fetch"
    /\ Contains(next_block)
    /\ Fetched(next_block)
    /\ pending' = [header |-> [number |-> next_block, gas_used |-> next_block],
                   state  |-> ForkchoiceState(next_block)]
    /\ next_block' = next_block + 1
    /\ producer' = "send"
    /\ UNCHANGED << node, channel, cons >>

\* A block the provider does not return: unwrap and expect panic, the task
\* ends and its sender is dropped.
ProducerPanic ==
    /\ producer = "fetch"
    /\ Contains(next_block)
    /\ ~Fetched(next_block)
    /\ producer' = "panicked"
    /\ UNCHANGED << node, next_block, pending, channel, cons >>

\* The range is exhausted: the loop and the task end.
ProducerEnd ==
    /\ producer = "fetch"
    /\ ~Contains(next_block)
    /\ producer' = "done"
    /\ UNCHANGED << node, next_block, pending, channel, cons >>

\* ProducerSendClosed that never notices the receiver is gone.
ProducerSendClosedNever == FALSE /\ UNCHANGED vars

\* sender.send(..).await when the receiver has been dropped: an error, and the
\* task stops.
ProducerSendClosed ==
    /\ producer = "send"
    /\ ~ReceiverOpen
    /\ producer' = "done"
    /\ pending' = None
    /\ UNCHANGED << node, next_block, channel, cons >>

\* ProducerSend that does not wait for room in the channel.
ProducerSendUnbounded ==
    /\ producer = "send"
    /\ ReceiverOpen
    /\ channel' = Append(channel, pending)
    /\ pending' = None
    /\ producer' = "fetch"
    /\ UNCHANGED << node, next_block, cons >>

\* ProducerSend that drops the message when the channel is full.
ProducerSendLossy ==
    /\ producer = "send"
    /\ ReceiverOpen
    /\ channel' = IF Len(channel) < ChannelCap THEN Append(channel, pending)
                                               ELSE channel
    /\ pending' = None
    /\ producer' = "fetch"
    /\ UNCHANGED << node, next_block, cons >>

\* sender.send(..).await: waits for room in the channel.
ProducerSend ==
    /\ producer = "send"
    /\ ReceiverOpen
    /\ Len(channel) < ChannelCap
    /\ channel' = Append(channel, pending)
    /\ pending' = None
    /\ producer' = "fetch"
    /\ UNCHANGED << node, next_block, cons >>

-----------------------------------------------------------------------------
(* The main task *)

\* WaitedTotal that measures every wait from the start of the benchmark.
WaitedSinceBenchmarkStart == total_wait_time + clock

\* total_wait_time += wait_start.elapsed(), when a receive returns.
WaitedTotal == total_wait_time + (clock - wait_start)

\* receiver.recv().await returns a message: the wait is added up and the
\* timer of the calls for the block starts.
ConsumerRecv ==
    /\ consumer = "recv"
    /\ channel # << >>
    /\ current' = Head(channel)
    /\ channel' = Tail(channel)
    /\ total_wait_time' = WaitedTotal
    /\ wait_start' = None
    /\ start' = clock
    /\ sent' = clock
    /\ consumer' = "call"
    /\ UNCHANGED << node, prod, results, summary, files >>

\* receiver.recv().await returns None: the channel is empty and the sender
\* is dropped.  The loop ends.
ConsumerRecvClosed ==
    /\ consumer = "recv"
    /\ channel = << >>
    /\ SenderDropped
    /\ total_wait_time' = WaitedTotal
    /\ wait_start' = None
    /\ consumer' = "finish"
    /\ UNCHANGED << node, prod, channel, current, start, sent, results,
                    summary, files >>

\* fork_choice_updated_v1_wait, for one answer: an
\* error leaves through `?`, VALID returns, INVALID panics, SYNCING sleeps
\* and calls again, any other status calls again at once.
WaitOutcome(response) ==
    IF ~response.ok THEN "err"
    ELSE IF response.status = "VALID" THEN "valid"
    ELSE IF response.status = "INVALID" THEN "panic"
    ELSE IF response.status = "SYNCING" THEN "sleep"
    ELSE "retry"

\* format!("{:?}", e).contains("SYNCING") searches the whole text of the
\* error.  Of what a response is made of here only the detail, the status or
\* the engine's error formatted into the message, can hold the word, and it
\* holds it when it is the status SYNCING.
ContainsSyncing(response) == response.message.detail = "SYNCING"

\* The retry loop of execute(): an error that names SYNCING sleeps and calls
\* again, any other error ends the benchmark.
RetryOutcome(response) ==
    LET outcome == WaitOutcome(response)
    IN  IF outcome # "err" THEN outcome
        ELSE IF ContainsSyncing(response) THEN "sleep"
        ELSE "fail"

\* Row with the time its doc comment in output.rs gives it, "Time since the
\* start of the benchmark".
RowTimeSinceStart(header) ==
    [block_number |-> header.number,
     gas_used     |-> header.gas_used,
     time         |-> clock,
     latency      |-> clock - start]

\* The pair pushed for a block: its TotalGasRow, whose time is the time since
\* the start of the benchmark less the waits, and the latency of its
\* ForkchoiceResult.
Row(header) ==
    [block_number |-> header.number,
     gas_used     |-> header.gas_used,
     time         |-> clock - total_wait_time,
     latency      |-> clock - start]

\* Where the main task goes after an answer that is not VALID.
AfterCall ==
    [panic |-> "panic_invalid", sleep |-> "sleep", retry |-> "call",
     fail  |-> "err"]

\* One call of the engine API and what the two loops around it do with the
\* answer; a VALID answer records the block and begins the next receive.
ConsumerCall ==
    /\ consumer = "call"
    /\ \E response \in RpcResponses("V1", current.state) :
          LET outcome == RetryOutcome(response)
          IN  IF outcome = "valid"
              THEN /\ results' = Append(results, Row(current.header))
                   /\ current' = None
                   /\ start' = None
                   /\ wait_start' = clock
                   /\ sent' = None
                   /\ consumer' = "recv"
              ELSE /\ consumer' = AfterCall[outcome]
                   /\ sent' = IF outcome = "retry" THEN clock ELSE None
                   /\ UNCHANGED << current, start, wait_start, results >>
    /\ UNCHANGED << node, prod, channel, total_wait_time, summary, files >>

\* tokio::time::sleep(200 ms) is over.
ConsumerWake ==
    /\ consumer = "sleep"
    /\ consumer' = "call"
    /\ sent' = clock
    /\ UNCHANGED << node, prod, channel, current, timers, results, summary,
                    files >>

-----------------------------------------------------------------------------
(* The output *)

\* results.into_iter().unzip(): the TotalGasRow and the ForkchoiceResult of
\* every pair.
TotalGasRows(pairs) ==
    [i \in DOMAIN pairs |->
        [f \in {"block_number", "gas_used", "time"} |-> pairs[i][f]]]
ForkchoiceResults(pairs) ==
    [i \in DOMAIN pairs |-> [f \in {"gas_used", "latency"} |-> pairs[i][f]]]

\* Duration::as_micros: whole microseconds, the rest is cut off.
AsMicros(duration) == duration \div TicksPerMicro

\* The serialisers of the two CSV files write the duration in microseconds.
SerializeForkchoiceResult(result) == [result EXCEPT !.latency = AsMicros(@)]
SerializeTotalGasRow(row) == [row EXCEPT !.time = AsMicros(@)]

\* The files execute() has completed: the latencies are written first, then
\* the rows, and an error of a writer ends execute() where it happens.
OutputFiles(csv) ==
    [forkchoice |->
        IF csv \in {"written", "gas_error"}
        THEN [i \in DOMAIN results |->
                SerializeForkchoiceResult(ForkchoiceResults(results)[i])]
        ELSE None,
     gas |->
        IF csv = "written"
        THEN [i \in DOMAIN results |->
                SerializeTotalGasRow(TotalGasRows(results)[i])]
        ELSE None]

\* gas_per_second: a division of f64, which by zero gives infinity, or NaN
\* for no gas; a finite rate is kept as its whole part, per tick.
GasPerSecond(gas_used, duration) ==
    [is    |-> IF duration # 0 THEN "finite"
               ELSE IF gas_used # 0 THEN "inf" ELSE "NaN",
     whole |-> IF duration # 0 THEN gas_used \div duration ELSE 0]

RECURSIVE SumGas(_)
SumGas(rows) ==
    IF rows = << >> THEN 0 ELSE Head(rows).gas_used + SumGas(Tail(rows))

\* TotalGasOutput::new, for a list with at least one row: the duration is
\* the time of the last row.
TotalGasOutput(rows) ==
    LET total_duration == rows[Len(rows)].time
        total_gas_used == SumGas(rows)
    IN  [total_gas_used       |-> total_gas_used,
         total_duration       |-> total_duration,
         total_gas_per_second |-> GasPerSecond(total_gas_used, total_duration),
         blocks_processed     |-> Len(rows)]

\* After the loop: the output files are written when asked for, and then the
\* rows are summed up; TotalGasOutput::new expects a row and panics without.
ConsumerFinish ==
    /\ consumer = "finish"
    /\ \E csv \in CsvOutcomes :
          /\ files' = OutputFiles(csv)
          /\ IF csv \in {"forkchoice_error", "gas_error"}
             THEN consumer' = "err" /\ UNCHANGED summary
             ELSE IF results = << >>
             THEN consumer' = "panic_no_rows" /\ UNCHANGED summary
             ELSE /\ consumer' = "ok"
                  /\ summary' = TotalGasOutput(TotalGasRows(results))
    /\ UNCHANGED << node, prod, channel, current, timers, sent, results >>

-----------------------------------------------------------------------------
(* The specification *)

Init ==
    /\ setup \in Setups
    /\ nodeHead = 0
    /\ clock = 0
    /\ producer = "unspawned"
    /\ next_block = FromBlock
    /\ pending = None
    /\ channel = << >>
    /\ consumer = "cli"
    /\ current = None
    /\ wait_start = None
    /\ total_wait_time = 0
    /\ start = None
    /\ sent = None
    /\ results = << >>
    /\ summary = None
    /\ files = OutputFiles("no_output")

ProducerNext ==
    \/ ProducerFetch
    \/ ProducerPanic
    \/ ProducerEnd
    \/ ProducerSend
    \/ ProducerSendClosed

ConsumerNext ==
    \/ BenchmarkCommandExecute
    \/ ConsumerStart
    \/ ConsumerRecv
    \/ ConsumerRecvClosed
    \/ ConsumerCall
    \/ ConsumerWake
    \/ ConsumerFinish

Next == ProducerNext \/ ConsumerNext \/ NodeImport \/ Tick

\* The runtime runs a task that is ready.  Nothing is assumed of the node:
\* it may stop importing at any block.
Fairness ==
    /\ WF_vars(ProducerNext)
    /\ WF_vars(ConsumerNext)

Spec == Init /\ [][Next]_vars /\ Fairness

-----------------------------------------------------------------------------
(* Properties *)

Rows ==
    [block_number : FromBlock..ToBlock, gas_used : Nat, time : 0..MaxClock,
     latency : 0..MaxClock]

\* The variables keep their shapes: the channel never holds more than its
\* capacity, a task holds a message and a timer exactly in the states that
\* use one, no duration is negative, and the summary exists exactly when
\* execute() has returned Ok.
TypeOK ==
    /\ setup \in Setups
    /\ nodeHead \in 0..NodeTip
    /\ clock \in 0..MaxClock
    /\ producer \in {"unspawned", "fetch", "send", "done", "panicked"}
    /\ next_block \in FromBlock..(ToBlock + 1)
    /\ Len(channel) <= ChannelCap
    /\ consumer \in {"cli", "start", "recv", "call", "sleep", "finish"}
                        \cup Exits
    /\ (producer = "send") = (pending # None)
    /\ consumer \in {"call", "sleep"} => current # None /\ start \in 0..clock
    /\ IF consumer = "recv" THEN wait_start \in 0..clock ELSE wait_start = None
    /\ total_wait_time \in 0..clock
    /\ \A i \in DOMAIN results : results[i] \in Rows
    /\ (consumer = "call") = (sent # None)
    /\ sent # None => sent \in start..clock
    /\ (consumer = "ok") = (summary # None)
    /\ summary # None => summary.blocks_processed = Len(results)

RECURSIVE Numbers(_)
Numbers(msgs) ==
    IF msgs = << >> THEN << >>
    ELSE << Head(msgs).header.number >> \o Numbers(Tail(msgs))

AsSeq(msg) == IF msg = None THEN << >> ELSE << msg >>

\* No block is lost, repeated or reordered between the two tasks: while the
\* main task runs, the blocks recorded, the one being called for, the ones in
\* the channel and the one being sent are, in this order, the blocks of the
\* range below next_block (the producer loop, the channel and the receive
\* loop of execute()).
BlocksConserved ==
    consumer \notin {"err", "panic_invalid"} =>
        [i \in DOMAIN results |-> results[i].block_number]
            \o Numbers(AsSeq(current) \o channel \o AsSeq(pending))
        = [i \in 1..(next_block - FromBlock) |-> FromBlock + i - 1]

RECURSIVE SumLatency(_)
SumLatency(pairs) ==
    IF pairs = << >> THEN 0 ELSE Head(pairs).latency + SumLatency(Tail(pairs))

\* The time column accounts for every call: the time of a row, which the loop
\* computes as the time since the start of the benchmark less the waits for
\* blocks added up so far, covers the latencies of all the calls up to that
\* row, so the subtraction of durations never goes below zero and the
\* duration of the summary is zero only if no call took any time
\* (wait_start, total_wait_time and start in the receive loop of execute(),
\* whose waits end at the pace of the producer task).
TimeCoversLatencies ==
    \A k \in DOMAIN results :
        results[k].time >= SumLatency(SubSeq(results, 1, k))

\* The benchmark seen through its rows implements BenchmarkLog: a step of any
\* task either leaves the rows alone or records the next block of the range,
\* which the node then holds and has not refused, with the time spent other
\* than waiting for blocks as its time (the doc comment of TotalGasRow.time
\* says "Time since the start of the benchmark", the comment in execute()
\* "minus the time waiting for blocks": the log is that of execute(), and
\* with the time of the doc comment the rows do not implement it); nothing
\* is recorded after execute() has ended; a SYNCING, ACCEPTED or INVALID
\* answer and an error never count as a row; and the files left hold a line
\* for every row, the file of rows only beside the file of latencies (the
\* loops of fork_choice_updated_v1_wait and of execute() around the call,
\* the order kept by the channel, the timers of the receive loop and the
\* writers).
Outcome ==
    CASE consumer \in {"panic_invalid", "panic_no_rows"} -> "panic"
      [] consumer \in {"ok", "err"} -> consumer
      [] OTHER -> "running"

Busy ==
    IF consumer = "recv" THEN wait_start - total_wait_time
                         ELSE clock - total_wait_time

Summed ==
    IF summary = None THEN None
    ELSE [f \in {"blocks_processed", "total_duration", "total_gas_used"} |->
            summary[f]]

Log == INSTANCE BenchmarkLog WITH
           head <- nodeHead, refused <- setup.invalid,
           waiting <- (consumer = "recv"), busy <- Busy, rows <- results,
           outcome <- Outcome, summary <- Summed, NoSummary <- None,
           NoFile <- None, Micros <- AsMicros

ImplementsBenchmarkLog == Log!Spec

\* Against the module of BscEngineApi the benchmark never panics on an
\* INVALID status: the method turns it into an error that ends execute()
\* with Err (engine_forkchoiceUpdatedV1 and the panic of
\* fork_choice_updated_v1_wait).
BscInvalidIsAnError ==
    setup.server # "standard" => consumer # "panic_invalid"

\* The main task is calling for a block the node does not hold.
NodeLacksBlock ==
    consumer \in {"call", "sleep"} /\ current.header.number > nodeHead

\* The benchmark ends unless the node stops short of a block it is asked
\* for: either the main task returns or panics and no producer task is left
\* running, or from some point on the main task repeats its call for a block
\* the node never imports.  Nothing else keeps a task from ending: not the
\* blocking send into a full channel, not the blocking receive, not an answer
\* the loops repeat the call for once the node holds the block (the retry
\* loops of execute() and of fork_choice_updated_v1_wait, which have no
\* bound, and the channel between the tasks).
Termination ==
    \/ <>(consumer \in Exits /\ producer \notin {"fetch", "send"})
    \/ <>[]NodeLacksBlock

-----------------------------------------------------------------------------
(* What the code expects and does not ensure *)

\* The expect of output.rs, "the row has at least one element":
\* TotalGasOutput::new is never given an empty list of rows.
SummaryHasRows == consumer # "panic_no_rows"

\* The doc comment of ForkchoiceResult, "The latency of the
\* `forkchoiceUpdated` call": the latency recorded for a block is the time
\* the call that was answered VALID took, from when it was sent to its
\* answer (`start` is taken before the retry loop of execute()).
LatencyOfTheCall ==
    [][Len(results') > Len(results) =>
          results'[Len(results')].latency = clock - sent]_vars

=============================================================================
