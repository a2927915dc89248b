--------------------------- MODULE MCBscConsensus ---------------------------
(***************************************************************************)
(* BscConsensus for TLC: a chain of three blocks above genesis.  The forks  *)
(* lie inside the range of numbers and timestamps, so that a block may come *)
(* before or after each of them, and a second has two milliseconds; the     *)
(* mix_hash of a header may also carry more than a second.                  *)
(***************************************************************************)
EXTENDS BscConsensus

\* Receipts whose cumulative gas grows, with different blooms.
Paid == [cumulative_gas_used |-> 1, bloom |-> {"x"}]
Logged == [cumulative_gas_used |-> 2, bloom |-> {"y"}]

MCReceiptLists == {<< >>, << Paid >>, << Paid, Logged >>}

MCResults == [receipts : MCReceiptLists, requests : {"deposit", "exit"}]

MCHeaderFields ==
    [timestamp       : 0..2,
     millis          : 0..(MsPerSec - 1) \cup {2 * MsPerSec - 1},
     blob_gas_used   : {None, 2},
     excess_blob_gas : {None, 0, 1},
     gas_used        : 0..2,
     receipts_root   : {ReceiptRoot(r) : r \in MCReceiptLists \ {<< >>}},
     logs_bloom      : {{"x"}, {"x", "y"}},
     requests_hash   : {None, RequestsHash("deposit")}]

=============================================================================
