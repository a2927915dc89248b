------------------------------ MODULE MCSealer ------------------------------
(***************************************************************************)
(* The sealer over a chain of at most MaxNumber imported blocks, with the   *)
(* local validator a1 and the genesis validator lists of MCValidatorSets.   *)
(***************************************************************************)
EXTENDS Sealer

Vanity == [pad |-> "vanity"]
Zero   == [pad |-> "zero"]

\* A single validator (its quorum of n*2/3 is 0), three validators with the
\* local one in turn first, and a set the local validator is not part of.
MCValidatorSets == {<< "a1" >>, << "a1", "a2", "a3" >>, << "a2", "a3" >>}

MCVoteAddrOf == [a \in {"a1", "a2", "a3"} |-> CASE a = "a1" -> "k1"
                                                [] a = "a2" -> "k2"
                                                [] a = "a3" -> "k3"]

\* An extra_data of vanity and a zeroed seal, and one too short for a seal.
MCExtraDatas == {<< Vanity, Zero, Zero >>, << Vanity >>}

\* Only the extra_data the payload builder is meant to produce.
MCWellFormedExtraDatas == {<< Vanity, Zero, Zero >>}

=============================================================================
