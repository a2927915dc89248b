---------------------------- MODULE BenchmarkLog ----------------------------
(***************************************************************************)
(* What the forkchoice benchmark promises of its rows, whatever tasks,      *)
(* channels and clock readings it is made of: it records the blocks of its  *)
(* range in order, a block only once the node holds it and has not refused  *)
(* it; the time of a row is the time the benchmark has spent so far other   *)
(* than blocked waiting for a block, and the latency of a row is part of    *)
(* that time since the row before; when it returns Ok its summary is that   *)
(* of the rows recorded, and an output file it leaves has a line for every  *)
(* row, the file of rows only beside the file of latencies.                 *)
(*                                                                         *)
(* The time of a row follows execute() and the comment there ("current      *)
(* duration since the start of the benchmark minus the time waiting for     *)
(* blocks"), from which the gas per second of the summary is taken.  The    *)
(* doc comment of the field in output.rs, "Time since the start of the      *)
(* benchmark", leaves the waits out of its words: read to the letter it is  *)
(* another log, which the benchmark does not implement.                     *)
(***************************************************************************)
EXTENDS Integers, SequencesExt

CONSTANTS
    FromBlock, ToBlock, \* the range of blocks of the benchmark
    NoSummary,          \* the summary of a benchmark that has none
    NoFile,             \* the content of a file that was not completed
    Micros(_)           \* a duration in the unit of the output files

VARIABLES
    head,       \* the highest block the node holds
    refused,    \* the blocks the node answers INVALID for
    waiting,    \* the benchmark is blocked waiting for the next block
    busy,       \* the time it has spent other than so blocked
    rows,       \* the rows recorded, one per block
    outcome,    \* "running", or how the benchmark ended
    summary,    \* the summary of a benchmark that returned Ok
    files       \* the output files it has left

vars == << head, refused, waiting, busy, rows, outcome, summary, files >>

Summary(recorded) ==
    [blocks_processed |-> Len(recorded),
     total_duration   |-> Last(recorded).time,
     total_gas_used   |-> FoldSeq(LAMBDA row, sum : row.gas_used + sum, 0,
                                  recorded)]

LatencyLines(recorded) ==
    [i \in DOMAIN recorded |->
        [gas_used |-> recorded[i].gas_used,
         latency  |-> Micros(recorded[i].latency)]]

RowLines(recorded) ==
    [i \in DOMAIN recorded |->
        [block_number |-> recorded[i].block_number,
         gas_used     |-> recorded[i].gas_used,
         time         |-> Micros(recorded[i].time)]]

NoFiles == [forkchoice |-> NoFile, gas |-> NoFile]
AllFiles(recorded) ==
    [forkchoice |-> LatencyLines(recorded), gas |-> RowLines(recorded)]

Init ==
    /\ head = 0
    /\ refused \in SUBSET (FromBlock..ToBlock)
    /\ waiting = FALSE
    /\ busy = 0
    /\ rows = << >>
    /\ outcome = "running"
    /\ summary = NoSummary
    /\ files = NoFiles

\* The node imports a block.
Import ==
    /\ head' = head + 1
    /\ UNCHANGED << refused, waiting, busy, rows, outcome, summary, files >>

\* The benchmark starts or stops waiting for a block.
Block ==
    /\ outcome = "running"
    /\ waiting' = ~waiting
    /\ UNCHANGED << head, refused, busy, rows, outcome, summary, files >>

\* Time passes while the benchmark is not waiting for a block.
Work ==
    /\ ~waiting
    /\ busy' = busy + 1
    /\ UNCHANGED << head, refused, waiting, rows, outcome, summary, files >>

\* The next block of the range is recorded, and the benchmark waits for the
\* one after it.
Record ==
    LET number == FromBlock + Len(rows)
        before == IF rows = << >> THEN 0 ELSE Last(rows).time
    IN  /\ outcome = "running" /\ ~waiting
        /\ number <= ToBlock /\ number <= head /\ number \notin refused
        /\ Len(rows') = Len(rows) + 1
        /\ Front(rows') = rows
        /\ Last(rows').block_number = number
        /\ Last(rows').time = busy
        /\ Last(rows').latency \in 0..(busy - before)
        /\ waiting' = TRUE
        /\ UNCHANGED << head, refused, busy, outcome, summary, files >>

\* The benchmark returns Ok with the summary of its rows, of which there is
\* at least one, and with both output files or none.
Return ==
    /\ outcome = "running"
    /\ rows # << >>
    /\ outcome' = "ok"
    /\ summary' = Summary(rows)
    /\ files' \in {NoFiles, AllFiles(rows)}
    /\ UNCHANGED << head, refused, waiting, busy, rows >>

\* The benchmark ends with an error or a panic; it may have completed the
\* file of latencies, and after it the file of rows.
Fail ==
    /\ outcome = "running"
    /\ outcome' \in {"err", "panic"}
    /\ files' \in {NoFiles, AllFiles(rows),
                   [AllFiles(rows) EXCEPT !.gas = NoFile]}
    /\ UNCHANGED << head, refused, waiting, busy, rows, summary >>

Next == Import \/ Block \/ Work \/ Record \/ Return \/ Fail

Spec == Init /\ [][Next]_vars

=============================================================================
