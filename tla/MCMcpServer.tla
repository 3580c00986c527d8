---------------------------- MODULE MCMcpServer ------------------------------
(* Instances of McpServer for TLC: one line for each way through the server. *)
EXTENDS McpServer

Notice(form) == [form |-> form, id |-> Absent, method |-> "missing", params |-> "missing"]

Ask(id, method, params) == [form |-> "object", id |-> id, method |-> method, params |-> params]

SomeId == CHOOSE i \in Id : TRUE

OneOfEach ==
    {Notice(form) : form \in {"blank", "undecodable", "unparsable", "scalar"}}
        \cup {Ask(Absent, "codecache_update", "good"), Ask(Null, "tools/list", "missing"),
              Ask(SomeId, "missing", "good"), Ask(SomeId, "unknown", "good")}
        \cup {Ask(SomeId, "initialize", p) : p \in {"bad", "good"}}
        \cup {Ask(SomeId, "codecache_search", p) : p \in {"bad", "bad glob", "good"}}
        \cup {Ask(SomeId, "codecache_update", p) : p \in {"missing", "bad", "good"}}
        \cup {Ask(SomeId, "codecache_outline", p) : p \in {"bad", "good"}}

=============================================================================
