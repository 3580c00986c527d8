------------------------------ MODULE McpServer ------------------------------
(***************************************************************************)
(* The loop of the MCP server over its standard input and output, and the  *)
(* client at the other end, which may send many lines before it reads an   *)
(* answer, close its end, or be gone.  A tool runs as the steps that can   *)
(* fail by themselves; of the index, it is kept on behalf of which lines   *)
(* it was written (the steps in full are in SelfHeal).                     *)
(***************************************************************************)
EXTENDS Integers, Sequences

CONSTANTS Id, Null, Absent, Lines,
    MaxLines  \* bound on the lines that the client sends

VARIABLES
    sent,     \* the lines on standard input, read or not
    client,   \* "open", "closed" (its sending end) or "gone"
    at,       \* how many lines are read
    phase,    \* what the server is at with the line in hand
    reply,    \* the response that waits to be written
    written,  \* the frames on standard output
    touched,  \* the lines on whose behalf the index was written
    staleness \* the search (its line) whose metric StalenessHandle shows

pvars == <<sent, client, at, phase, reply, written, touched, staleness>>

\* The promise: a line is dealt with once the server is ready for the next.
Promise ==
    INSTANCE JsonRpc WITH
        done <- IF phase \in {"idle", "ended"} THEN at ELSE at - 1,
        answers <- written

ASSUME McpServerAssumption ==
    /\ Null \notin Id /\ Absent \notin Id \cup {Null}
    /\ Lines \subseteq Promise!Line
    /\ MaxLines \in Nat

line == sent[at]

PInit ==
    /\ sent = <<>> /\ client = "open"
    /\ at = 0 /\ phase = "idle" /\ reply = <<>> /\ written = <<>>
    /\ touched = {} /\ staleness = 0

-----------------------------------------------------------------------------
(* The client.                                                             *)

Send(l) ==
    /\ client = "open" /\ Len(sent) < MaxLines
    /\ sent' = Append(sent, l)
    /\ UNCHANGED <<client, at, phase, reply, written, touched, staleness>>

Close ==
    /\ client = "open"
    /\ client' = "closed"
    /\ UNCHANGED <<sent, at, phase, reply, written, touched, staleness>>

Vanish ==
    /\ client # "gone"
    /\ client' = "gone"
    /\ UNCHANGED <<sent, at, phase, reply, written, touched, staleness>>

-----------------------------------------------------------------------------
(* serve                                                                   *)

Read(next) ==
    /\ phase = "idle" /\ at < Len(sent)
    /\ at' = at + 1
    /\ phase' = next
    /\ UNCHANGED <<sent, client, reply, written, touched, staleness>>

SkipBlank == Read("idle") /\ sent[at + 1].form = "blank"

\* lines() gives an error for a line that is not UTF-8, which ends the loop.
ReadFails == Read("failed") /\ sent[at + 1].form = "undecodable"

ReadLine == Read("parse") /\ sent[at + 1].form \notin {"blank", "undecodable"}

\* Mutant: lines that are not read yet are dropped when the client closes.
EndOfInput_Early ==
    /\ phase = "idle" /\ client # "open"
    /\ phase' = "ended"
    /\ UNCHANGED <<sent, client, at, reply, written, touched, staleness>>

EndOfInput ==
    /\ phase = "idle" /\ at = Len(sent) /\ client # "open"
    /\ phase' = "ended"
    /\ UNCHANGED <<sent, client, at, reply, written, touched, staleness>>

write_frame ==
    /\ phase = "write" /\ client # "gone"
    /\ written' = Append(written, reply)
    /\ reply' = <<>>
    /\ phase' = "idle"
    /\ UNCHANGED <<sent, client, at, touched, staleness>>

WriteFails ==
    /\ phase = "write" /\ client = "gone"
    /\ phase' = "failed"
    /\ UNCHANGED <<sent, client, at, reply, written, touched, staleness>>

-----------------------------------------------------------------------------
(* handle_line and dispatch                                                *)

Respond(id, code) ==
    /\ phase' = "write"
    /\ reply' = [line |-> at, id |-> id, code |-> code]
    /\ UNCHANGED <<sent, client, at, written>>

Object == phase = "parse" /\ line.form = "object"

\* Mutant: the id of a line is echoed although the line has none.
ParseError_Echoes ==
    /\ phase = "parse" /\ line.form \in {"unparsable", "scalar"}
    /\ Respond(line.id, Promise!PARSE_ERROR)
    /\ UNCHANGED <<touched, staleness>>

ParseError ==
    /\ phase = "parse" /\ line.form \in {"unparsable", "scalar"}
    /\ Respond(Null, Promise!PARSE_ERROR)
    /\ UNCHANGED <<touched, staleness>>

\* Mutant: an id that is null counts as none.
DropNotification_NullToo ==
    /\ Object /\ line.id \in {Absent, Null}
    /\ phase' = "idle"
    /\ UNCHANGED <<sent, client, at, reply, written, touched, staleness>>

DropNotification ==
    /\ Object /\ line.id = Absent
    /\ phase' = "idle"
    /\ UNCHANGED <<sent, client, at, reply, written, touched, staleness>>

Request(methods) == Object /\ line.id # Absent /\ line.method \in methods

MissingMethod ==
    /\ Request({"missing"})
    /\ Respond(line.id, Promise!INVALID_PARAMS)
    /\ UNCHANGED <<touched, staleness>>

UnknownMethod ==
    /\ Request({"unknown"})
    /\ Respond(line.id, Promise!METHOD_NOT_FOUND)
    /\ UNCHANGED <<touched, staleness>>

handle_initialize ==
    /\ Request({"initialize"})
    /\ Respond(line.id, IF line.params \in {"missing", "bad"} THEN Promise!INVALID_PARAMS
                                                              ELSE Promise!RESULT)
    /\ UNCHANGED <<touched, staleness>>

handle_tools_list ==
    /\ Request({"tools/list"})
    /\ Respond(line.id, Promise!RESULT)
    /\ UNCHANGED <<touched, staleness>>

-----------------------------------------------------------------------------
(* handle_tools_call and the handlers of the tools                         *)

\* A step of a tool that may have written to the index, all or in part.
MayWrite == touched' \in {touched, touched \cup {at}}

\* Mutant: the paths of an update are looked at one by one, as they are cleared.
BadArguments_Late ==
    /\ Request(Promise!Tool) /\ line.params \in {"missing", "bad"}
    /\ Respond(line.id, Promise!INVALID_PARAMS)
    /\ IF line.method = "codecache_update" THEN MayWrite ELSE UNCHANGED touched
    /\ UNCHANGED staleness

BadArguments ==
    /\ Request(Promise!Tool) /\ line.params \in {"missing", "bad"}
    /\ Respond(line.id, Promise!INVALID_PARAMS)
    /\ UNCHANGED <<touched, staleness>>

FirstStep ==
    [codecache_search |-> "query", codecache_update |-> "clear", codecache_outline |-> "outline"]

CallTool ==
    /\ Request(Promise!Tool) /\ line.params \in {"bad glob", "good"}
    /\ phase' = FirstStep[line.method]
    /\ UNCHANGED <<sent, client, at, reply, written, touched, staleness>>

\* Any step of a tool may fail, the writing ones half done.
ToolFails ==
    /\ phase \in {"query", "heal", "requery", "clear", "reindex", "outline"}
    /\ Respond(line.id, Promise!INTERNAL_ERROR)
    /\ IF phase \in {"heal", "clear", "reindex"} THEN MayWrite ELSE UNCHANGED touched
    /\ UNCHANGED staleness

BadFilter ==
    /\ phase = "query" /\ line.params = "bad glob"
    /\ Respond(line.id, Promise!INVALID_PARAMS)
    /\ UNCHANGED <<touched, staleness>>

ToolStep(from, to) ==
    /\ phase = from
    /\ phase' = to
    /\ UNCHANGED <<sent, client, at, reply, written, staleness>>

Query == ToolStep("query", "heal") /\ line.params = "good" /\ UNCHANGED touched

\* Mutant: the metric is recorded as soon as the files are healed.
Heal_Records ==
    /\ phase = "heal"
    /\ phase' = "requery"
    /\ MayWrite
    /\ staleness' = at
    /\ UNCHANGED <<sent, client, at, reply, written>>

Heal == ToolStep("heal", "requery") /\ MayWrite

\* The metric is recorded once the second query has succeeded.
Requery ==
    /\ phase = "requery"
    /\ Respond(line.id, Promise!RESULT)
    /\ staleness' = at
    /\ UNCHANGED touched

ClearMeta == ToolStep("clear", "reindex") /\ MayWrite

Reindex ==
    /\ phase = "reindex"
    /\ Respond(line.id, Promise!RESULT)
    /\ MayWrite
    /\ UNCHANGED staleness

handle_outline ==
    /\ phase = "outline"
    /\ Respond(line.id, Promise!RESULT)
    /\ UNCHANGED <<touched, staleness>>

-----------------------------------------------------------------------------
ClientStep == (\E l \in Lines : Send(l)) \/ Close \/ Vanish

handle_line ==
    \/ ParseError \/ DropNotification \/ MissingMethod \/ UnknownMethod
    \/ handle_initialize \/ handle_tools_list \/ BadArguments \/ CallTool

ToolCall ==
    \/ ToolFails \/ BadFilter \/ Query \/ Heal \/ Requery
    \/ ClearMeta \/ Reindex \/ handle_outline

serve ==
    \/ SkipBlank \/ ReadFails \/ ReadLine \/ EndOfInput
    \/ handle_line \/ ToolCall
    \/ write_frame \/ WriteFails

PNext == ClientStep \/ serve

\* The server is scheduled; the client need not do anything.
PSpec == PInit /\ [][PNext]_pvars /\ WF_pvars(serve)

-----------------------------------------------------------------------------
\* The shape of every variable.
PTypeOK ==
    /\ sent \in Seq(Lines)
    /\ client \in {"open", "closed", "gone"}
    /\ at \in 0 .. Len(sent)
    /\ phase \in {"idle", "parse", "query", "heal", "requery", "clear", "reindex", "outline",
                  "write", "ended", "failed"}
    /\ reply \in Promise!Frame \cup {<<>>}
    /\ written \in Seq(Promise!Frame)
    /\ touched \subseteq 1 .. at
    /\ staleness \in 0 .. at

\* A line refused for its form, its method or its params changed nothing, and
\* neither did a line without an answer.
RefusedChangesNothing ==
    \A k \in touched :
        /\ Promise!Owed(sent[k]) /\ ~Promise!Unreadable(sent[k])
        /\ \A n \in DOMAIN written :
              written[n].line = k =>
                  written[n].code \in {Promise!RESULT, Promise!INTERNAL_ERROR}

AnsweredSearch(n) ==
    written[n].code = Promise!RESULT /\ sent[written[n].line].method = "codecache_search"

\* The metric shown is that of the last search that was answered with a result.
MetricOfLastSearch ==
    phase \in {"idle", "ended"} =>
        \/ staleness = 0 /\ \A n \in DOMAIN written : ~AnsweredSearch(n)
        \/ \E n \in DOMAIN written :
              /\ AnsweredSearch(n) /\ staleness = written[n].line
              /\ \A m \in DOMAIN written : m > n => ~AnsweredSearch(m)

\* The server gives the client what JsonRpc promises.
ImplementsJsonRpc == Promise!ASpec

\* Every line that asks for an answer gets one, unless the loop fails.
EveryRequestAnswered ==
    \A k \in 1 .. MaxLines :
        (k <= Len(sent) /\ Promise!Owed(sent[k]))
            ~> (phase = "failed" \/ \E n \in DOMAIN written : written[n].line = k)

\* Only a client that is gone makes the loop fail: bad lines are answered, and
\* it goes on.
SurvivesBadLines == phase = "failed" => client = "gone"

=============================================================================
