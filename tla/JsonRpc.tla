------------------------------- MODULE JsonRpc -------------------------------
(***************************************************************************)
(* What a client of the MCP server is promised: every line that asks for   *)
(* an answer gets one, at most once and in the order of the lines; no      *)
(* other line gets any.                                                    *)
(***************************************************************************)
EXTENDS Integers, Sequences

CONSTANTS
    Id,     \* the ids of requests
    Null,   \* the id null
    Absent, \* no member "id": a notification
    Lines   \* the lines that a client sends

PARSE_ERROR == -32700
METHOD_NOT_FOUND == -32601
INVALID_PARAMS == -32602
INTERNAL_ERROR == -32603
RESULT == 0 \* the answer is no error

Tool == {"codecache_search", "codecache_update", "codecache_outline"}

\* A line by what the server can tell of it.  Its method is the tool's name for
\* tools/call.  Its params may be missing, of the wrong shape, a malformed glob
\* that only the search itself notices, or right; a tool that does not exist is
\* one with bad params.
Line ==
    [form : {"blank", "undecodable", "unparsable", "scalar", "object"},
     id : Id \cup {Null, Absent},
     method : {"missing", "initialize", "tools/list", "unknown"} \cup Tool,
     params : {"missing", "bad", "bad glob", "good"}]

Code == {RESULT, PARSE_ERROR, METHOD_NOT_FOUND, INVALID_PARAMS, INTERNAL_ERROR}

Frame == [line : Nat, id : Id \cup {Null}, code : Code]

VARIABLES
    sent,   \* the lines sent
    done,   \* how many of them are answered or need no answer
    answers \* the answers, with the number of the line answered

-----------------------------------------------------------------------------
Unreadable(l) == l.form \in {"undecodable", "unparsable", "scalar"}

Notification(l) == l.form = "object" /\ l.id = Absent

\* Nothing can be told of an unreadable line, so it is answered as well.
Owed(l) == l.form # "blank" /\ ~Notification(l)

AnswerId(l) == IF Unreadable(l) THEN Null ELSE l.id

AInit == sent = <<>> /\ done = 0 /\ answers = <<>>

Send ==
    /\ \E l \in Lines : sent' = Append(sent, l)
    /\ UNCHANGED <<done, answers>>

Ignore ==
    /\ done < Len(sent) /\ ~Owed(sent[done + 1])
    /\ done' = done + 1
    /\ UNCHANGED <<sent, answers>>

Answer ==
    /\ done < Len(sent) /\ Owed(sent[done + 1])
    /\ \E code \in Code :
          /\ code = PARSE_ERROR <=> Unreadable(sent[done + 1])
          /\ answers' = Append(answers, [line |-> done + 1, id |-> AnswerId(sent[done + 1]),
                                        code |-> code])
    /\ done' = done + 1
    /\ UNCHANGED sent

ANext == Send \/ Ignore \/ Answer

ASpec == AInit /\ [][ANext]_<<sent, done, answers>>

=============================================================================
