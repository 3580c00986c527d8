--------------------------- MODULE McpServer_proofs ---------------------------
(***************************************************************************)
(* Proofs about McpServer, for any number of lines of any kind.  ServerInv *)
(* says what the server knows of the line in hand in each phase, and what  *)
(* of the lines it is done with.                                           *)
(***************************************************************************)
EXTENDS McpServer, SequenceTheorems, TLAPS

\* The phases in which a tool runs, and those before it may write.
ToolPhase == {"query", "heal", "requery", "clear", "reindex", "outline"}
Clean == {"parse", "query", "outline"}

\* The line in hand is one that the phase is for.
InHand ==
    /\ phase \notin {"idle", "ended"} => at > 0
    /\ phase \in {"parse", "write"} \cup ToolPhase => line.form \notin {"blank", "undecodable"}
    /\ phase \in {"write"} \cup ToolPhase => Promise!Owed(line)
    /\ phase \in ToolPhase => line.form = "object"
    /\ phase \in {"query", "heal", "requery"} => line.method = "codecache_search"
    /\ phase \in {"clear", "reindex", "outline"} => line.method # "codecache_search"

\* The response that waits is the one that the line in hand is owed.
Waiting ==
    phase = "write" =>
        /\ reply \in Promise!Frame
        /\ reply.line = at /\ reply.id = Promise!AnswerId(line)
        /\ reply.code = Promise!PARSE_ERROR <=> Promise!Unreadable(line)
        /\ at \in touched => reply.code \in {Promise!RESULT, Promise!INTERNAL_ERROR}

\* What is written are answers to lines read, before the one in hand.
Past ==
    \A n \in DOMAIN written :
        /\ written[n].line \in 1 .. at
        /\ phase \notin {"idle", "ended"} => written[n].line < at

\* The line in hand has written nothing before a tool could.
Untouched == phase \in Clean => at \notin touched

ServerInv == PTypeOK /\ InHand /\ Waiting /\ Past /\ Untouched /\ RefusedChangesNothing

-----------------------------------------------------------------------------
\* A line in hand is one of the lines, and stays when the client sends more.
LEMMA LineType ==
    ASSUME PTypeOK, at > 0
    PROVE  line \in Lines /\ line \in Promise!Line /\ at \in DOMAIN sent
BY McpServerAssumption DEF PTypeOK, line

LEMMA SendKeeps ==
    ASSUME ServerInv, NEW l \in Lines, Send(l)
    PROVE  ServerInv'
<1> USE DEF ServerInv
<1>1. /\ UNCHANGED <<client, at, phase, reply, written, touched, staleness>>
      /\ sent' = Append(sent, l)
  BY DEF Send
<1>2. /\ sent' \in Seq(Lines) /\ Len(sent') = Len(sent) + 1
      /\ \A k \in 1 .. Len(sent) : sent'[k] = sent[k]
  BY <1>1 DEF PTypeOK
<1>3. PTypeOK'
  BY <1>1, <1>2 DEF PTypeOK
<1>4. at > 0 => line' = line
  BY <1>1, <1>2 DEF line, PTypeOK
<1>5. InHand' /\ Waiting'
  <2>1. CASE at > 0
    BY <1>1, <1>4, <2>1 DEF InHand, Waiting, Promise!Owed, Promise!AnswerId,
       Promise!Unreadable, Promise!Notification
  <2>2. CASE ~(at > 0)
    BY <1>1, <2>2 DEF InHand, Waiting, ToolPhase
  <2> QED BY <2>1, <2>2
<1>6. Past' /\ Untouched'
  BY <1>1 DEF Past, Untouched
<1>7. RefusedChangesNothing'
  <2>1. \A k \in touched : sent'[k] = sent[k]
    BY <1>2 DEF PTypeOK
  <2> QED BY <1>1, <2>1 DEF RefusedChangesNothing, Promise!Owed, Promise!Unreadable,
          Promise!Notification
<1> QED BY <1>3, <1>5, <1>6, <1>7

LEMMA ClientKeeps ==
    ASSUME ServerInv, Close \/ Vanish
    PROVE  ServerInv'
<1>1. /\ UNCHANGED <<sent, at, phase, reply, written, touched, staleness>>
      /\ client' \in {"closed", "gone"}
  BY DEF Close, Vanish
<1> QED BY <1>1 DEF ServerInv, PTypeOK, InHand, Waiting, Past, Untouched, RefusedChangesNothing,
       line

\* A line read is not written for yet: no line is, beyond those read.
LEMMA ReadKeeps ==
    ASSUME ServerInv, SkipBlank \/ ReadFails \/ ReadLine
    PROVE  ServerInv'
<1> USE DEF ServerInv
<1>1. /\ phase = "idle" /\ at < Len(sent) /\ at' = at + 1 /\ at \in Nat
      /\ UNCHANGED <<sent, client, reply, written, touched, staleness>>
      /\ phase' \in {"idle", "failed", "parse"}
      /\ phase' = "parse" => sent[at + 1].form \notin {"blank", "undecodable"}
  BY DEF SkipBlank, ReadFails, ReadLine, Read, PTypeOK
<1>2. PTypeOK'
  BY <1>1 DEF PTypeOK
<1>3. InHand' /\ Waiting' /\ Past' /\ RefusedChangesNothing'
  BY <1>1 DEF InHand, Waiting, Past, ToolPhase, line, RefusedChangesNothing
<1>4. at + 1 \notin touched
  BY <1>1 DEF PTypeOK
<1>5. Untouched'
  BY <1>1, <1>4 DEF Untouched
<1> QED BY <1>2, <1>3, <1>5

\* A step that makes no response and does not write.
LEMMA TurnKeeps ==
    ASSUME ServerInv, EndOfInput \/ WriteFails \/ DropNotification
    PROVE  ServerInv'
<1> USE DEF ServerInv
<1>1. /\ UNCHANGED <<sent, client, at, reply, written, touched, staleness>>
      /\ phase' \in {"idle", "ended", "failed"}
      /\ phase' = "failed" => phase = "write"
  BY DEF EndOfInput, WriteFails, DropNotification
<1>2. PTypeOK' /\ InHand' /\ Waiting' /\ Untouched' /\ RefusedChangesNothing'
  BY <1>1 DEF PTypeOK, InHand, Waiting, Untouched, Clean, ToolPhase, RefusedChangesNothing
<1>3. Past'
  BY <1>1 DEF Past
<1> QED BY <1>2, <1>3

LEMMA WriteKeeps ==
    ASSUME ServerInv, write_frame
    PROVE  ServerInv'
<1> USE DEF ServerInv
<1>1. /\ phase = "write" /\ phase' = "idle" /\ reply' = <<>>
      /\ written' = Append(written, reply)
      /\ UNCHANGED <<sent, client, at, touched, staleness>>
  BY DEF write_frame
<1>2. /\ reply \in Promise!Frame /\ reply.line = at /\ at > 0 /\ at \in Nat
      /\ written \in Seq(Promise!Frame)
      /\ at \in touched => reply.code \in {Promise!RESULT, Promise!INTERNAL_ERROR}
  BY <1>1 DEF Waiting, InHand, PTypeOK
<1>3. /\ written' \in Seq(Promise!Frame) /\ Len(written) \in Nat
      /\ DOMAIN written' = 1 .. Len(written) + 1 /\ DOMAIN written = 1 .. Len(written)
      /\ \A n \in DOMAIN written : written'[n] = written[n]
      /\ written'[Len(written) + 1] = reply
  BY <1>1, <1>2, AppendProperties
<1>4. PTypeOK'
  BY <1>1, <1>3 DEF PTypeOK
<1>5. InHand' /\ Waiting' /\ Untouched'
  BY <1>1 DEF InHand, Waiting, Untouched, Clean, ToolPhase
<1>6. Past'
  BY <1>1, <1>2, <1>3 DEF Past
<1>7. RefusedChangesNothing'
  <2> SUFFICES ASSUME NEW k \in touched
               PROVE  /\ Promise!Owed(sent[k]) /\ ~Promise!Unreadable(sent[k])
                      /\ \A n \in DOMAIN written' :
                            written'[n].line = k =>
                                written'[n].code \in {Promise!RESULT, Promise!INTERNAL_ERROR}
    BY <1>1 DEF RefusedChangesNothing
  <2>1. Promise!Owed(sent[k]) /\ ~Promise!Unreadable(sent[k])
    BY DEF RefusedChangesNothing
  <2>2. ASSUME NEW n \in DOMAIN written', written'[n].line = k
        PROVE  written'[n].code \in {Promise!RESULT, Promise!INTERNAL_ERROR}
    <3>1. CASE n \in DOMAIN written
      BY <1>3, <2>2, <3>1 DEF RefusedChangesNothing
    <3>2. CASE n = Len(written) + 1
      BY <1>2, <1>3, <2>2, <3>2
    <3> QED BY <1>3, <3>1, <3>2
  <2> QED BY <2>1, <2>2
<1> QED BY <1>4, <1>5, <1>6, <1>7

\* A step on behalf of the line in hand that leaves its fellows alone.
LEMMA OwnWrites ==
    ASSUME ServerInv, phase \notin {"idle", "ended"}, UNCHANGED <<sent, written>>,
           touched' \in {touched, touched \cup {at}},
           at \in touched' => Promise!Owed(line) /\ ~Promise!Unreadable(line)
    PROVE  RefusedChangesNothing'
<1>1. \A n \in DOMAIN written : written[n].line # at
  BY DEF ServerInv, Past, PTypeOK
<1>2. ASSUME NEW k \in touched', k \notin touched
      PROVE  /\ Promise!Owed(sent[k]) /\ ~Promise!Unreadable(sent[k])
             /\ \A n \in DOMAIN written : written[n].line # k
  BY <1>1, <1>2 DEF line
<1>3. \A k \in touched' :
        /\ Promise!Owed(sent[k]) /\ ~Promise!Unreadable(sent[k])
        /\ \A n \in DOMAIN written :
              written[n].line = k =>
                  written[n].code \in {Promise!RESULT, Promise!INTERNAL_ERROR}
  BY <1>2 DEF ServerInv, RefusedChangesNothing
<1> QED BY <1>3 DEF RefusedChangesNothing

LEMMA RespondKeeps ==
    ASSUME ServerInv, phase \in {"parse"} \cup ToolPhase,
           NEW id, NEW code \in Promise!Code, Respond(id, code),
           Promise!Owed(line), id = Promise!AnswerId(line),
           code = Promise!PARSE_ERROR <=> Promise!Unreadable(line),
           touched' \in {touched, touched \cup {at}},
           at \in touched' => code \in {Promise!RESULT, Promise!INTERNAL_ERROR},
           staleness' \in {staleness, at}
    PROVE  ServerInv'
<1> USE DEF ServerInv
<1>1. /\ phase' = "write" /\ reply' = [line |-> at, id |-> id, code |-> code]
      /\ UNCHANGED <<sent, client, at, written>> /\ at > 0 /\ at \in Nat
  BY DEF Respond, InHand, PTypeOK, ToolPhase
<1>2. line' = line /\ line \in Promise!Line /\ at \in 1 .. at
  BY <1>1, LineType DEF line
<1>3. id \in Id \cup {Null}
  BY <1>2 DEF Promise!AnswerId, Promise!Owed, Promise!Notification, Promise!Unreadable,
     Promise!Line
<1>4. reply' \in Promise!Frame
  BY <1>1, <1>3 DEF Promise!Frame
<1>5. PTypeOK'
  BY <1>1, <1>2, <1>4 DEF PTypeOK
<1>6. InHand'
  BY <1>1, <1>2 DEF InHand, ToolPhase
<1>7. Waiting'
  BY <1>1, <1>2, <1>4 DEF Waiting
<1>8. Past' /\ Untouched'
  BY <1>1 DEF Past, Untouched, Clean, ToolPhase
<1>9. ~(at \in touched' /\ Promise!Unreadable(line))
  BY DEF Promise!PARSE_ERROR, Promise!RESULT, Promise!INTERNAL_ERROR
<1>10. RefusedChangesNothing'
  BY <1>1, <1>9, OwnWrites DEF ToolPhase
<1> QED BY <1>5, <1>6, <1>7, <1>8, <1>10

\* A tool starts, or goes on to its next step.
LEMMA AdvanceKeeps ==
    ASSUME ServerInv, phase \in {"parse"} \cup ToolPhase, phase' \in ToolPhase,
           UNCHANGED <<sent, client, at, reply, written, staleness>>,
           touched' \in {touched, touched \cup {at}},
           phase' \in Clean => touched' = touched /\ phase \in Clean,
           line.form = "object", Promise!Owed(line),
           phase' \in {"query", "heal", "requery"} => line.method = "codecache_search",
           phase' \in {"clear", "reindex", "outline"} => line.method # "codecache_search"
    PROVE  ServerInv'
<1> USE DEF ServerInv
<1>1. line' = line /\ at > 0 /\ at \in Nat /\ at \in 1 .. at
  BY DEF InHand, ToolPhase, PTypeOK, line
<1>2. PTypeOK'
  BY <1>1 DEF PTypeOK, ToolPhase
<1>3. InHand' /\ Waiting'
  BY <1>1 DEF InHand, Waiting, ToolPhase
<1>4. Past' /\ Untouched'
  BY DEF Past, Untouched, ToolPhase
<1>5. RefusedChangesNothing'
  BY OwnWrites DEF Promise!Unreadable, ToolPhase
<1> QED BY <1>2, <1>3, <1>4, <1>5

LEMMA CallToolKeeps ==
    ASSUME ServerInv, CallTool
    PROVE  ServerInv'
<1>1. /\ phase = "parse" /\ line.form = "object" /\ line.id # Absent
      /\ line.method \in Promise!Tool /\ phase' = FirstStep[line.method]
      /\ UNCHANGED <<sent, client, at, reply, written, touched, staleness>>
  BY DEF CallTool, Request, Object
<1>2. Promise!Owed(line)
  BY <1>1 DEF Promise!Owed, Promise!Notification
<1>3. CASE line.method = "codecache_search"
  <2>1. phase' = "query"
    BY <1>1, <1>3 DEF FirstStep
  <2> QED BY <1>1, <1>2, <1>3, <2>1, AdvanceKeeps DEF ToolPhase, Clean
<1>4. CASE line.method = "codecache_update"
  <2>1. phase' = "clear"
    BY <1>1, <1>4 DEF FirstStep
  <2> QED BY <1>1, <1>2, <1>4, <2>1, AdvanceKeeps DEF ToolPhase, Clean
<1>5. CASE line.method = "codecache_outline"
  <2>1. phase' = "outline"
    BY <1>1, <1>5 DEF FirstStep
  <2> QED BY <1>1, <1>2, <1>5, <2>1, AdvanceKeeps DEF ToolPhase, Clean
<1> QED BY <1>1, <1>3, <1>4, <1>5 DEF Promise!Tool

LEMMA StepKeeps ==
    ASSUME ServerInv, Query \/ Heal \/ ClearMeta
    PROVE  ServerInv'
<1>1. /\ phase \in ToolPhase /\ line.form = "object" /\ Promise!Owed(line)
      /\ UNCHANGED <<sent, client, at, reply, written, staleness>>
  BY DEF Query, Heal, ClearMeta, ToolStep, ToolPhase, ServerInv, InHand
<1>2. CASE Query
  BY <1>1, <1>2, AdvanceKeeps DEF Query, ToolStep, ToolPhase, Clean, ServerInv, InHand
<1>3. CASE Heal
  BY <1>1, <1>3, AdvanceKeeps DEF Heal, ToolStep, ToolPhase, Clean, ServerInv, InHand, MayWrite
<1>4. CASE ClearMeta
  BY <1>1, <1>4, AdvanceKeeps DEF ClearMeta, ToolStep, ToolPhase, Clean, ServerInv, InHand,
     MayWrite
<1> QED BY <1>2, <1>3, <1>4

\* An object is answered, without an effect on the index.
LEMMA AnsweredKeeps ==
    ASSUME ServerInv, phase \in {"parse", "query"}, line.form = "object", Promise!Owed(line),
           NEW code \in {Promise!RESULT, Promise!METHOD_NOT_FOUND, Promise!INVALID_PARAMS},
           Respond(line.id, code), UNCHANGED <<touched, staleness>>
    PROVE  ServerInv'
<1>1. at \notin touched
  BY DEF ServerInv, Untouched, Clean
<1>2. code \in Promise!Code /\ code # Promise!PARSE_ERROR
  BY DEF Promise!Code, Promise!RESULT, Promise!METHOD_NOT_FOUND, Promise!INVALID_PARAMS,
     Promise!PARSE_ERROR
<1>3. ~Promise!Unreadable(line) /\ Promise!AnswerId(line) = line.id
  BY DEF Promise!Unreadable, Promise!AnswerId
<1> QED BY <1>1, <1>2, <1>3, RespondKeeps DEF ToolPhase

LEMMA ParseErrorKeeps ==
    ASSUME ServerInv, ParseError
    PROVE  ServerInv'
<1>1. /\ Respond(Null, Promise!PARSE_ERROR) /\ UNCHANGED <<touched, staleness>>
      /\ phase = "parse" /\ line.form \in {"unparsable", "scalar"}
  BY DEF ParseError
<1>2. Promise!Owed(line) /\ Promise!Unreadable(line) /\ Promise!AnswerId(line) = Null
  BY <1>1 DEF Promise!Owed, Promise!Unreadable, Promise!AnswerId, Promise!Notification
<1>3. at \notin touched /\ Promise!PARSE_ERROR \in Promise!Code
  BY <1>1 DEF ServerInv, Untouched, Clean, Promise!Code
<1> QED BY <1>1, <1>2, <1>3, RespondKeeps DEF ToolPhase

LEMMA RequestKeeps ==
    ASSUME ServerInv, NEW methods, Request(methods),
           NEW code \in {Promise!RESULT, Promise!METHOD_NOT_FOUND, Promise!INVALID_PARAMS},
           Respond(line.id, code), UNCHANGED <<touched, staleness>>
    PROVE  ServerInv'
<1>1. phase = "parse" /\ line.form = "object" /\ line.id # Absent
  BY DEF Request, Object
<1>2. Promise!Owed(line)
  BY <1>1 DEF Promise!Owed, Promise!Notification
<1> QED BY <1>1, <1>2, AnsweredKeeps

LEMMA RefuseKeeps ==
    ASSUME ServerInv,
           \/ MissingMethod \/ UnknownMethod \/ handle_initialize \/ handle_tools_list
           \/ BadArguments \/ BadFilter
    PROVE  ServerInv'
<1>1. CASE MissingMethod
  BY <1>1, RequestKeeps DEF MissingMethod
<1>2. CASE UnknownMethod
  BY <1>2, RequestKeeps DEF UnknownMethod
<1>3. CASE handle_initialize
  BY <1>3, RequestKeeps DEF handle_initialize
<1>4. CASE handle_tools_list
  BY <1>4, RequestKeeps DEF handle_tools_list
<1>5. CASE BadArguments
  BY <1>5, RequestKeeps DEF BadArguments
<1>6. CASE BadFilter
  <2>1. phase = "query" /\ line.form = "object" /\ Promise!Owed(line)
    BY <1>6 DEF BadFilter, ServerInv, InHand, ToolPhase
  <2> QED BY <1>6, <2>1, AnsweredKeeps DEF BadFilter
<1> QED BY <1>1, <1>2, <1>3, <1>4, <1>5, <1>6

LEMMA ToolEndKeeps ==
    ASSUME ServerInv, ToolFails \/ Requery \/ Reindex \/ handle_outline
    PROVE  ServerInv'
<1> USE DEF ServerInv, Promise!PARSE_ERROR, Promise!METHOD_NOT_FOUND, Promise!INVALID_PARAMS,
        Promise!INTERNAL_ERROR, Promise!RESULT, Promise!Code
<1>1. /\ phase \in ToolPhase
      /\ touched' \in {touched, touched \cup {at}} /\ staleness' \in {staleness, at}
  BY DEF ToolFails, Requery, Reindex, handle_outline, ToolPhase, MayWrite
<1>2. PICK code \in {Promise!RESULT, Promise!INTERNAL_ERROR} : Respond(line.id, code)
  BY DEF ToolFails, Requery, Reindex, handle_outline
<1>3. line.form = "object" /\ Promise!Owed(line)
  BY <1>1 DEF InHand
<1>4. ~Promise!Unreadable(line) /\ Promise!AnswerId(line) = line.id
  BY <1>3 DEF Promise!Unreadable, Promise!AnswerId
<1> QED BY <1>1, <1>2, <1>3, <1>4, RespondKeeps

LEMMA ServerInvHolds == PSpec => []ServerInv
<1>1. PInit => ServerInv
  BY DEF PInit, ServerInv, PTypeOK, InHand, Waiting, Past, Untouched, Clean, ToolPhase,
     RefusedChangesNothing
<1>2. ServerInv /\ [PNext]_pvars => ServerInv'
  <2> SUFFICES ASSUME ServerInv, [PNext]_pvars PROVE ServerInv'
    OBVIOUS
  <2>1. CASE ClientStep
    BY <2>1, SendKeeps, ClientKeeps DEF ClientStep
  <2>2. CASE handle_line
    BY <2>2, TurnKeeps, ParseErrorKeeps, RefuseKeeps, CallToolKeeps DEF handle_line
  <2>3. CASE ToolCall
    BY <2>3, RefuseKeeps, StepKeeps, ToolEndKeeps DEF ToolCall
  <2>4. CASE SkipBlank \/ ReadFails \/ ReadLine \/ EndOfInput \/ write_frame \/ WriteFails
    BY <2>4, ReadKeeps, TurnKeeps, WriteKeeps
  <2>5. CASE UNCHANGED pvars
    <3> USE <2>5 DEF pvars, ServerInv
    <3>1. PTypeOK' BY DEF PTypeOK
    <3>2. InHand' BY DEF InHand, line
    <3>3. Waiting' BY DEF Waiting, line
    <3>4. Past' /\ Untouched' BY DEF Past, Untouched
    <3>5. RefusedChangesNothing' BY DEF RefusedChangesNothing
    <3> QED BY <3>1, <3>2, <3>3, <3>4, <3>5
  <2> QED BY <2>1, <2>2, <2>3, <2>4, <2>5 DEF PNext, serve
<1> QED BY <1>1, <1>2, PTL DEF PSpec

-----------------------------------------------------------------------------
(* The metric.                                                             *)

\* The response that waits is the result of a search.
SearchWaits ==
    phase = "write" /\ reply.code = Promise!RESULT /\ line.method = "codecache_search"

Latest ==
    \/ staleness = 0 /\ \A n \in DOMAIN written : ~AnsweredSearch(n)
    \/ \E n \in DOMAIN written :
          /\ AnsweredSearch(n) /\ staleness = written[n].line
          /\ \A m \in DOMAIN written : m > n => ~AnsweredSearch(m)

\* A search that has its result, not yet written, has recorded its metric.
MetricInv ==
    /\ SearchWaits => staleness = at
    /\ phase # "failed" /\ ~SearchWaits => Latest

LEMMA LatestStays ==
    ASSUME ServerInv, Latest, UNCHANGED <<written, staleness>>,
           \A n \in DOMAIN written : sent'[written[n].line] = sent[written[n].line]
    PROVE  Latest'
BY DEF Latest, AnsweredSearch

LEMMA MetricKeeps ==
    ASSUME ServerInv, MetricInv, [PNext]_pvars
    PROVE  MetricInv'
<1> USE DEF MetricInv, SearchWaits
<1>1. CASE write_frame
  <2>1. /\ phase = "write" /\ phase' = "idle" /\ written' = Append(written, reply)
        /\ UNCHANGED <<sent, at, staleness>>
    BY <1>1 DEF write_frame
  <2>2. /\ written \in Seq(Promise!Frame) /\ reply \in Promise!Frame /\ reply.line = at
    BY <2>1 DEF ServerInv, PTypeOK, Waiting
  <2>3. /\ Len(written) \in Nat
        /\ DOMAIN written' = 1 .. Len(written) + 1 /\ DOMAIN written = 1 .. Len(written)
        /\ \A n \in DOMAIN written : written'[n] = written[n]
        /\ written'[Len(written) + 1] = reply
    BY <2>1, <2>2, AppendProperties
  <2>4. CASE SearchWaits
    BY <2>1, <2>2, <2>3, <2>4 DEF Latest, AnsweredSearch, line
  <2>5. CASE ~SearchWaits
    <3>1. Latest
      BY <2>1, <2>5
    <3>2. ~(reply.code = Promise!RESULT /\ sent[reply.line].method = "codecache_search")
      BY <2>1, <2>2, <2>5 DEF line
    <3>3. CASE staleness = 0 /\ \A n \in DOMAIN written : ~AnsweredSearch(n)
      BY <2>1, <2>3, <3>2, <3>3 DEF Latest, AnsweredSearch
    <3>4. CASE \E n \in DOMAIN written :
                 /\ AnsweredSearch(n) /\ staleness = written[n].line
                 /\ \A m \in DOMAIN written : m > n => ~AnsweredSearch(m)
      BY <2>1, <2>3, <3>2, <3>4 DEF Latest, AnsweredSearch
    <3> QED BY <2>1, <3>1, <3>3, <3>4 DEF Latest
  <2> QED BY <2>4, <2>5
<1>2. CASE Requery
  BY <1>2 DEF Requery, Respond, line, ServerInv, InHand
<1>3. ASSUME phase # "failed", phase # "write", UNCHANGED <<sent, written, staleness>>,
             ~(SearchWaits')
      PROVE  MetricInv'
  BY <1>3, LatestStays
<1>4. CASE ReadFails \/ WriteFails
  BY <1>4 DEF ReadFails, WriteFails, Read
<1>5. CASE ToolFails
  <2>1. reply'.code = Promise!INTERNAL_ERROR /\ phase \in ToolPhase
        /\ UNCHANGED <<sent, written, staleness>>
    BY <1>5 DEF ToolFails, Respond, ToolPhase
  <2> QED BY <1>3, <2>1 DEF ToolPhase, Promise!INTERNAL_ERROR, Promise!RESULT
<1>6. CASE Reindex \/ handle_outline
  <2>1. phase \in {"reindex", "outline"} /\ UNCHANGED <<sent, at, written, staleness>>
    BY <1>6 DEF Reindex, handle_outline, Respond
  <2>2. line.method # "codecache_search"
    BY <2>1 DEF ServerInv, InHand
  <2> QED BY <1>3, <2>1, <2>2 DEF line
<1>6a. CASE BadFilter
  <2>1. /\ phase = "query" /\ UNCHANGED <<sent, written, staleness>>
        /\ reply'.code = Promise!INVALID_PARAMS
    BY <1>6a DEF BadFilter, Respond
  <2> QED BY <1>3, <2>1 DEF Promise!INVALID_PARAMS, Promise!RESULT
<1>6b. CASE Query \/ Heal \/ ClearMeta
  <2>1. /\ phase \in ToolPhase /\ UNCHANGED <<sent, written, staleness>>
        /\ phase' # "write"
    BY <1>6b DEF Query, Heal, ClearMeta, ToolStep, ToolPhase
  <2> QED BY <1>3, <2>1 DEF ToolPhase
<1>7. CASE ParseError \/ MissingMethod \/ UnknownMethod \/ BadArguments
  <2>1. /\ phase = "parse" /\ UNCHANGED <<sent, written, staleness>>
        /\ reply'.code \in {Promise!PARSE_ERROR, Promise!INVALID_PARAMS,
                            Promise!METHOD_NOT_FOUND}
    BY <1>7 DEF ParseError, MissingMethod, UnknownMethod, BadArguments, Request, Object, Respond
  <2> QED BY <1>3, <2>1 DEF Promise!PARSE_ERROR, Promise!INVALID_PARAMS,
             Promise!METHOD_NOT_FOUND, Promise!RESULT
<1>8. CASE handle_initialize \/ handle_tools_list
  <2>1. /\ phase = "parse" /\ UNCHANGED <<sent, at, written, staleness>>
        /\ line.method # "codecache_search"
    BY <1>8 DEF handle_initialize, handle_tools_list, Request, Object, Respond
  <2> QED BY <1>3, <2>1 DEF line
<1>9. CASE CallTool
  <2>1. /\ phase = "parse" /\ UNCHANGED <<sent, at, written, staleness>> /\ phase' # "write"
    <3>1. line.method \in Promise!Tool /\ phase' = FirstStep[line.method]
      BY <1>9 DEF CallTool, Request
    <3>2. \A m \in Promise!Tool : FirstStep[m] # "write"
      BY DEF FirstStep, Promise!Tool
    <3> QED BY <1>9, <3>1, <3>2 DEF CallTool, Request, Object
  <2> QED BY <1>3, <2>1
<1>10. CASE SkipBlank \/ ReadLine \/ EndOfInput \/ DropNotification
  <2>1. /\ phase \in {"idle", "parse"} /\ UNCHANGED <<sent, written, staleness>>
        /\ phase' # "write"
    BY <1>10 DEF SkipBlank, ReadLine, Read, EndOfInput, DropNotification, Object
  <2> QED BY <1>3, <2>1
<1>11. ASSUME UNCHANGED <<at, phase, reply, written, staleness>>,
              \A k \in 1 .. Len(sent) : sent'[k] = sent[k]
       PROVE  MetricInv'
  <2>1. \A n \in DOMAIN written : sent'[written[n].line] = sent[written[n].line]
    <3>1. at \in Nat /\ at <= Len(sent) /\ Len(sent) \in Nat
      BY DEF ServerInv, PTypeOK
    <3>2. \A n \in DOMAIN written : written[n].line \in 1 .. at
      BY DEF ServerInv, Past
    <3> QED BY <1>11, <3>1, <3>2
  <2>2. phase = "write" => line' = line
    BY <1>11 DEF line, ServerInv, PTypeOK, InHand
  <2> QED BY <1>11, <2>1, <2>2, LatestStays
<1>12. ASSUME NEW l \in Lines, Send(l) PROVE MetricInv'
  <2>1. \A k \in 1 .. Len(sent) : sent'[k] = sent[k]
    BY <1>12 DEF Send, ServerInv, PTypeOK
  <2> QED BY <1>11, <1>12, <2>1 DEF Send
<1>13. CASE Close \/ Vanish \/ UNCHANGED pvars
  BY <1>11, <1>13 DEF Close, Vanish, pvars
<1> QED BY <1>1, <1>2, <1>4, <1>5, <1>6, <1>7, <1>8, <1>9, <1>10, <1>12, <1>13,
          <1>6a, <1>6b
        DEF PNext, ClientStep, serve, handle_line, ToolCall

-----------------------------------------------------------------------------
(* The theorems.                                                           *)

\* The variables keep their shape, whatever lines the client sends.
THEOREM ServerTypeCorrect == PSpec => []PTypeOK
<1>1. ServerInv => PTypeOK
  BY DEF ServerInv
<1> QED BY <1>1, ServerInvHolds, PTL

\* A line that handle_line or a handler refuses has no effect on the index.
THEOREM RefusedChangesNothingHolds == PSpec => []RefusedChangesNothing
<1>1. ServerInv => RefusedChangesNothing
  BY DEF ServerInv
<1> QED BY <1>1, ServerInvHolds, PTL

\* The metric of the last search answered is shown, not that of one that failed.
THEOREM MetricOfLastSearchHolds == PSpec => []MetricOfLastSearch
<1>1. PInit => MetricInv
  BY DEF PInit, MetricInv, SearchWaits, Latest
<1>2. MetricInv => MetricOfLastSearch
  BY DEF MetricInv, SearchWaits, Latest, MetricOfLastSearch
<1> QED BY <1>1, <1>2, MetricKeeps, ServerInvHolds, PTL DEF PSpec

\* The loop answers as JsonRpc promises: each step of server and client is one
\* of JsonRpc's, or leaves what the client sees as it is.
THEOREM ServerRefines == PSpec => ImplementsJsonRpc
<1> DEFINE done == IF phase \in {"idle", "ended"} THEN at ELSE at - 1
           seen == <<sent, done, written>>
<1>1. PInit => Promise!AInit
  BY DEF PInit, Promise!AInit
<1>2. ASSUME ServerInv, [PNext]_pvars PROVE [Promise!ANext]_seen
  <2> USE <1>2 DEF ServerInv
  <2>1. at \in Nat /\ at <= Len(sent) /\ Len(sent) \in Nat
    BY DEF PTypeOK
  <2>2. ASSUME NEW l \in Lines, Send(l) PROVE Promise!Send
    <3>1. sent' = Append(sent, l) /\ UNCHANGED <<done, written>>
      BY <2>2 DEF Send
    <3> QED BY <3>1 DEF Promise!Send
  <2>3. CASE SkipBlank
    <3>1. done = at /\ done' = at + 1 /\ UNCHANGED <<sent, written>>
          /\ at < Len(sent) /\ sent[at + 1].form = "blank"
      BY <2>3 DEF SkipBlank, Read
    <3>2. Promise!Ignore
      BY <3>1 DEF Promise!Ignore, Promise!Owed
    <3> QED BY <3>2 DEF Promise!ANext
  <2>4. CASE DropNotification
    <3>1. done = at - 1 /\ done' = at /\ UNCHANGED <<sent, written>>
          /\ at > 0 /\ line.form = "object" /\ line.id = Absent
      BY <2>4 DEF DropNotification, Object, InHand
    <3>2. done + 1 = at /\ done < Len(sent)
      BY <2>1, <3>1
    <3>3. Promise!Ignore
      BY <2>1, <3>1, <3>2 DEF Promise!Ignore, Promise!Owed, Promise!Notification, line
    <3> QED BY <3>3 DEF Promise!ANext
  <2>5. CASE write_frame
    <3>1. /\ done = at - 1 /\ done' = at /\ UNCHANGED sent
          /\ written' = Append(written, reply)
      BY <2>5 DEF write_frame
    <3>2. /\ reply \in Promise!Frame /\ reply.line = at /\ at > 0
          /\ reply.id = Promise!AnswerId(line) /\ Promise!Owed(line)
          /\ reply.code = Promise!PARSE_ERROR <=> Promise!Unreadable(line)
      BY <2>5 DEF write_frame, Waiting, InHand
    <3>3. done + 1 = at /\ done < Len(sent) /\ line = sent[done + 1]
      BY <2>1, <3>1, <3>2 DEF line
    <3>4. reply = [line |-> done + 1, id |-> Promise!AnswerId(line), code |-> reply.code]
          /\ reply.code \in Promise!Code
      BY <3>2, <3>3 DEF Promise!Frame
    <3>5. Promise!Answer
      BY <2>1, <3>1, <3>2, <3>3, <3>4 DEF Promise!Answer
    <3> QED BY <3>5 DEF Promise!ANext
  <2>6. CASE ReadFails \/ ReadLine \/ EndOfInput \/ WriteFails
    BY <2>1, <2>6 DEF ReadFails, ReadLine, Read, EndOfInput, WriteFails
  <2>7. ASSUME UNCHANGED <<sent, at, written>>, phase \notin {"idle", "ended"},
               phase' \notin {"idle", "ended"}
        PROVE  UNCHANGED seen
    BY <2>7
  <2>8. CASE \/ ParseError \/ MissingMethod \/ UnknownMethod \/ handle_initialize
             \/ handle_tools_list \/ BadArguments \/ CallTool
    <3>1. phase = "parse"
      BY <2>8 DEF ParseError, MissingMethod, UnknownMethod, handle_initialize,
         handle_tools_list, BadArguments, CallTool, Request, Object
    <3>2. phase' \in {"write"} \cup ToolPhase
      <4>1. CASE CallTool
        <5>1. line.method \in Promise!Tool /\ phase' = FirstStep[line.method]
          BY <4>1 DEF CallTool, Request
        <5>2. \A m \in Promise!Tool : FirstStep[m] \in ToolPhase
          BY DEF FirstStep, Promise!Tool, ToolPhase
        <5> QED BY <5>1, <5>2
      <4>2. CASE ~CallTool
        BY <2>8, <4>2 DEF ParseError, MissingMethod, UnknownMethod, handle_initialize,
           handle_tools_list, BadArguments, Respond
      <4> QED BY <4>1, <4>2
    <3>3. UNCHANGED <<sent, at, written>>
      BY <2>8 DEF ParseError, MissingMethod, UnknownMethod, handle_initialize,
         handle_tools_list, BadArguments, CallTool, Respond
    <3> QED BY <2>7, <3>1, <3>2, <3>3 DEF ToolPhase
  <2>9. CASE ToolCall
    <3>1. phase \in ToolPhase /\ phase' \in {"write"} \cup ToolPhase
          /\ UNCHANGED <<sent, at, written>>
      BY <2>9 DEF ToolCall, ToolFails, BadFilter, Query, Heal, Requery, ClearMeta, Reindex,
         handle_outline, Respond, ToolStep, ToolPhase
    <3> QED BY <2>7, <3>1 DEF ToolPhase
  <2>10. CASE Close \/ Vanish \/ UNCHANGED pvars
    BY <2>10 DEF Close, Vanish, pvars
  <2> HIDE DEF seen
  <2> QED BY <1>2, <2>2, <2>3, <2>4, <2>5, <2>6, <2>8, <2>9, <2>10
          DEF PNext, ClientStep, serve, handle_line, Promise!ANext
<1> HIDE DEF seen
<1>3. PSpec => Promise!AInit /\ [][Promise!ANext]_seen
  BY <1>1, <1>2, ServerInvHolds, PTL DEF PSpec
<1> QED BY <1>3 DEF ImplementsJsonRpc, Promise!ASpec, seen
=============================================================================
