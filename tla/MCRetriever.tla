---------------------------- MODULE MCRetriever ------------------------------
(* Instances of Retriever for TLC.  The spans cross, nest with and without  *)
(* a common end, coincide and touch; their tokens are 2, 2, 4 and 1.        *)
EXTENDS Retriever

Spans == {<<0, 8>>, <<4, 12>>, <<0, 16>>, <<8, 12>>}

=============================================================================
