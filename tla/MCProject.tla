------------------------------ MODULE MCProject ------------------------------
(* Instances of Project for TLC: the cfg files choose among these values.   *)
EXTENDS Project

CONSTANTS a, b, here, there, cli, ci

Defaults == [k \in Key |-> CASE k = "index_paths"    -> here
                             [] k = "db_path"        -> here
                             [] k = "max_db_size_mb" -> here]

\* A text that leaves out what it does not change.
Elsewhere == [Empty EXCEPT !["db_path"] = there]
Full      == [k \in Key |-> IF k = "index_paths" THEN there ELSE here]

Edits   == {None, Malformed, Elsewhere}
Written == {Full}

Row(f) == [file |-> f, known |-> TRUE]
Three  == [json |-> TRUE, records |-> <<Row(a), Row(b), Row(a)>>]
NoRow  == [json |-> TRUE, records |-> <<>>]
OneBad == [json |-> TRUE, records |-> <<Row(a), [file |-> b, known |-> FALSE]>>]
NoJson == [json |-> FALSE, records |-> <<>>]
AllInputs == {Three, NoRow, OneBad, NoJson}

\* The user of the command line may start each of them beside an ingest.
Roles   == [w \in Proc |-> IF w = cli THEN {"init", "config", "status", "query", "ingest"}
                                      ELSE {"ingest"}]
Configs == [w \in Proc |-> {"config"}]

=============================================================================
