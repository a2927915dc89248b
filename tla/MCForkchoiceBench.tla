--------------------------- MODULE MCForkchoiceBench ---------------------------
(***************************************************************************)
(* The benchmark over blocks 1 to 4 with a channel of two messages, against  *)
(* both servers, a node that starts at block 0, and block providers that    *)
(* hold every block, stop short of the range or have pruned block 0.        *)
(***************************************************************************)
EXTENDS ForkchoiceBench

MCSetups ==
    [server  : {"bsc", "bsc_release", "standard"},
     blocks  : {0..4, 0..2, 1..4, {}},
     invalid : {{}, {2}}]

=============================================================================
