---------------------------- MODULE MCCodeCache ------------------------------
(* Instances of CodeCache for TLC: the cfg files choose among these values. *)
EXTENDS CodeCache

CONSTANTS a, b, other, c1, c2, bin, cli, server

Counts      == [c \in Content |-> IF c = c2 THEN 2 ELSE 1]
RankByName  == [p \in Path |-> IF p = a THEN 1 ELSE IF p = b THEN 2 ELSE 3]
Distinct    == [n \in Move |-> n]

OneJobEach  == [w \in Worker |-> {"index", "update", "search"}]
AllJobs     == [w \in Worker |-> {"index", "update", "forced", "search"}]
SearchJobs  == [w \in Worker |-> {"index", "search"}]
IndexAndSearch == [w \in Worker |-> IF w = cli THEN {"index"} ELSE {"search"}]
SharedJobs  == [w \in Worker |-> IF w = cli THEN {"index"} ELSE {"forced", "search"}]

=============================================================================
