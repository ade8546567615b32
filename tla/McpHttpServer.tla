----------------------------- MODULE McpHttpServer -----------------------------
(***************************************************************************)
(* The HTTP front of the program (mcp-http.ts): requests that open, use    *)
(* and delete MCP sessions, the admission counter, the request timers, the *)
(* cleanup of idle sessions and the stop of the server.                    *)
(*                                                                         *)
(* JavaScript runs one handler at a time, and another may run wherever one *)
(* awaits: an action is the code from one await to the next.  A session id *)
(* is fresh, so the session a request opens is named after the request.    *)
(*                                                                         *)
(* Time is kept as what is compared: the age of a session since its last   *)
(* use and the time a request has been waiting.  A due request timer fires *)
(* before the next tick.  What a handler goes on to do after its caller    *)
(* was answered 504 touches no state of this module and is left out.       *)
(*                                                                         *)
(* The timer of the body is not like the others: its fallback throws where *)
(* nothing catches it.  Whether the runtime then ends the process is not   *)
(* decided in this code, so both outcomes are modelled.                    *)
(***************************************************************************)
EXTENDS Naturals, FiniteSets, Functions

CONSTANTS
  Requests,        \* bound: requests that ever arrive
  MaxSessions,     \* MCP_HTTP_MAX_SESSIONS
  MaxInFlight,     \* MCP_HTTP_MAX_IN_FLIGHT
  Timeout,         \* requestTimeoutMs, in ticks
  TTL              \* MCP_HTTP_SESSION_TTL_MS, in ticks

ASSUME RequestAssumption == IsFiniteSet(Requests) /\ "none" \notin Requests
ASSUME LimitAssumption == MaxSessions \in Nat \ {0} /\ MaxInFlight \in Nat \ {0}
ASSUME TimeAssumption == Timeout \in Nat \ {0} /\ TTL \in Nat /\ Timeout < TTL

VARIABLES
  req,        \* per request: where its handler is
  sessions,   \* the map: id -> age since lastUsedAt
  closed,     \* sessions whose server was closed
  inFlight,   \* the admission counter
  phase       \* of the server: up, stopping, down

mcpVars == <<req, sessions, closed, inFlight, phase>>

NoSession == "none"
Ids == DOMAIN sessions
ReqAt(r, step) == req[r].step = step
Opened == {r \in Requests : r \in Ids \cup closed}

\* Where a handler awaits its body, and where it holds a slot of the counter.
Reading == {"body", "late"}
Held == {"connecting", "handshaking", "handling", "closing"}

Blank(step) == [step |-> step, kind |-> "none", session |-> NoSession, wait |-> 0]
Moved(r, step) == req' = [req EXCEPT ![r] = [@ EXCEPT !.step = step, !.wait = 0]]
Answer(r) == req' = [req EXCEPT ![r] = Blank("answered")]

\* sessions.set, and sessions.delete for a set of ids
Put(s, age) == sessions' = [i \in Ids \cup {s} |-> IF i = s THEN age ELSE sessions[i]]
Drop(S) == sessions' = Restrict(sessions, Ids \ S)

-----------------------------------------------------------------------------
(* Admission: the code between the body and the next await                 *)

\* Mutant: the finally block also covers the refusal.
BusyReleased(r) ==
  /\ inFlight >= MaxInFlight
  /\ inFlight' = inFlight - 1
  /\ Answer(r) /\ UNCHANGED <<sessions, closed>>

Busy(r) == inFlight >= MaxInFlight /\ Answer(r) /\ UNCHANGED <<sessions, closed, inFlight>>

\* A return inside the try block gives the slot back before any await.
Refused(r) == Answer(r) /\ UNCHANGED <<sessions, closed, inFlight>>

OpenSession(r) ==
  \/ Cardinality(Ids) >= MaxSessions /\ Refused(r)
  \/ /\ Cardinality(Ids) < MaxSessions
     /\ inFlight' = inFlight + 1
     /\ Moved(r, "connecting")
     /\ UNCHANGED <<sessions, closed>>

\* Mutant: lastUsedAt is left as it was.
UseSessionAged(r, s) ==
  inFlight' = inFlight + 1 /\ Moved(r, "handling") /\ UNCHANGED <<sessions, closed>>

UseSession(r, s) ==
  /\ inFlight' = inFlight + 1
  /\ Put(s, 0)
  /\ Moved(r, "handling")
  /\ UNCHANGED closed

\* Mutant: the server is closed first and the id deleted when that returns.
DeleteSessionLater(r, s) ==
  /\ inFlight' = inFlight + 1
  /\ closed' = closed \cup {s}
  /\ Moved(r, "closing")
  /\ UNCHANGED sessions

DeleteSession(r, s) ==
  /\ inFlight' = inFlight + 1
  /\ Drop({s})
  /\ closed' = closed \cup {s}
  /\ Moved(r, "closing")

\* GET refreshes the session and is answered 405.
ProbeSession(r, s) == Put(s, 0) /\ Answer(r) /\ UNCHANGED <<closed, inFlight>>

Admit(r, kind, s) ==
  \/ Busy(r)
  \/ /\ inFlight < MaxInFlight
     /\ \/ kind = "init" /\ OpenSession(r)
        \/ kind # "init" /\ s \notin Ids /\ Refused(r)
        \/ kind = "call" /\ s \in Ids /\ UseSession(r, s)
        \/ kind = "get" /\ s \in Ids /\ ProbeSession(r, s)
        \/ kind = "delete" /\ s \in Ids /\ DeleteSession(r, s)

-----------------------------------------------------------------------------
(* Handlers                                                                *)

\* An initialize names no session, anything else one it was once given; only
\* a POST has a body to wait for.
Receive(r) ==
  /\ ReqAt(r, "unsent") /\ phase # "down"
  /\ \/ \E kind \in {"init", "call"}, s \in Opened \cup {NoSession} :
          /\ (kind = "init") = (s = NoSession)
          /\ req' = [req EXCEPT ![r] =
               [step |-> "body", kind |-> kind, session |-> s, wait |-> 0]]
          /\ UNCHANGED <<sessions, closed, inFlight>>
     \/ \E kind \in {"get", "delete"}, s \in Opened : Admit(r, kind, s)
  /\ UNCHANGED phase

BodyRead(r) ==
  /\ req[r].step \in Reading
  /\ Admit(r, req[r].kind, req[r].session)
  /\ UNCHANGED phase

\* readBoundedJson rejects, on a body that is too large or not JSON or whose
\* stream broke off, and the handler answers 413 or 400.
BodyFails(r) ==
  /\ req[r].step \in Reading
  /\ Answer(r)
  /\ UNCHANGED <<sessions, closed, inFlight, phase>>

\* An exception that nothing catches may end the process, and with it every
\* session and every request that was not answered.
ProcessEnds ==
  /\ req' = [q \in Requests |->
       IF req[q].step \in {"unsent", "answered"} THEN req[q] ELSE Blank("lost")]
  /\ Drop(Ids) /\ closed' = closed \cup Ids
  /\ inFlight' = 0
  /\ phase' = "down"

\* The deadline of the body: the fallback throws inside the callback of the
\* timer, before resolve is called, so the race stays open and nobody answers
\* 408.  The handler reads on, without a timer, until the stream moves again.
BodyTimerThrows(r) ==
  /\ ReqAt(r, "body") /\ req[r].wait = Timeout
  /\ \/ Moved(r, "late") /\ UNCHANGED <<sessions, closed, inFlight, phase>>
     \/ ProcessEnds

Connected(r) ==
  /\ ReqAt(r, "connecting")
  /\ Moved(r, "handshaking")
  /\ UNCHANGED <<sessions, closed, inFlight, phase>>

Leave(r) == inFlight' = inFlight - 1 /\ Answer(r)

\* However the handshake came out, the session is kept if it has an id.
InitReturns(r) ==
  /\ ReqAt(r, "handshaking")
  /\ Put(r, req[r].wait) \/ UNCHANGED sessions
  /\ Leave(r)
  /\ UNCHANGED <<closed, phase>>

HandlerReturns(r) ==
  /\ ReqAt(r, "handling") /\ Leave(r)
  /\ UNCHANGED <<sessions, closed, phase>>

CloseReturns(r) ==
  /\ ReqAt(r, "closing") /\ Leave(r)
  /\ UNCHANGED <<sessions, closed, phase>>

\* Mutant: the tool call is awaited without a timer.
TimerFiresBeforeHandler(r) ==
  /\ req[r].wait = Timeout
  /\ InitReturns(r)

\* withTimeout answers 504 instead of the promise it raced.
TimerFires(r) ==
  /\ req[r].wait = Timeout
  /\ InitReturns(r) \/ HandlerReturns(r)

-----------------------------------------------------------------------------
(* Timers and the stop of the server                                       *)

Timed == {"body", "handshaking", "handling"}

Tick ==
  /\ \A r \in Requests : req[r].wait < Timeout
  /\ req' = [r \in Requests |->
       IF req[r].step \in Timed THEN [req[r] EXCEPT !.wait = @ + 1] ELSE req[r]]
  /\ sessions' = [s \in Ids |-> IF sessions[s] > TTL THEN sessions[s] ELSE sessions[s] + 1]
  /\ UNCHANGED <<closed, inFlight, phase>>

Expired == {s \in Ids : sessions[s] > TTL}

CleanUp ==
  /\ phase = "up" /\ Expired # {}
  /\ Drop(Expired)
  /\ closed' = closed \cup Expired
  /\ UNCHANGED <<req, inFlight, phase>>

BeginStop ==
  /\ phase = "up"
  /\ phase' = "stopping"
  /\ UNCHANGED <<req, sessions, closed, inFlight>>

StopClosesOne(s) ==
  /\ phase = "stopping" /\ s \in Ids \ closed
  /\ closed' = closed \cup {s}
  /\ UNCHANGED <<req, sessions, inFlight, phase>>

FinishStop ==
  /\ phase = "stopping" /\ Ids \subseteq closed
  /\ Drop(Ids)
  /\ phase' = "down"
  /\ UNCHANGED <<req, closed, inFlight>>

-----------------------------------------------------------------------------

McpInit ==
  /\ req = [r \in Requests |-> Blank("unsent")]
  /\ sessions = [s \in {} |-> 0]
  /\ closed = {}
  /\ inFlight = 0
  /\ phase = "up"

McpNext ==
  \/ \E r \in Requests :
       \/ Receive(r) \/ BodyRead(r) \/ BodyFails(r) \/ BodyTimerThrows(r) \/ Connected(r)
       \/ InitReturns(r) \/ HandlerReturns(r) \/ CloseReturns(r) \/ TimerFires(r)
  \/ Tick \/ CleanUp
  \/ BeginStop \/ (\E s \in Requests : StopClosesOne(s)) \/ FinishStop

McpSpec == McpInit /\ [][McpNext]_mcpVars

\* Timers fire, and connect and close of an in-process transport return.  A
\* client need not finish its body, nor a tool call ever return.
McpFairness ==
  /\ WF_mcpVars(Tick)
  /\ \A r \in Requests :
       /\ WF_mcpVars(BodyTimerThrows(r)) /\ WF_mcpVars(TimerFires(r))
       /\ WF_mcpVars(Connected(r)) /\ WF_mcpVars(CloseReturns(r))

-----------------------------------------------------------------------------
(* Properties                                                              *)

\* Types of the state: the counter stays within its limit and never goes
\* below zero, whichever way a handler is left.
McpTypeOK ==
  /\ req \in [Requests ->
       [step : {"unsent", "late", "answered", "lost"} \cup Timed \cup Held,
        kind : {"none", "init", "call", "delete"},
        session : Requests \cup {NoSession}, wait : 0..Timeout]]
  /\ Ids \subseteq Requests /\ sessions \in [Ids -> 0..TTL + 1]
  /\ closed \subseteq Requests
  /\ inFlight \in 0..MaxInFlight
  /\ phase \in {"up", "stopping", "down"}

\* docs/cli-mcp.md: "Sessions are bounded, stateful in memory (64 sessions
\* maximum, 30-minute idle expiry)", however many clients shake hands at once.
SessionLimitHolds == Cardinality(Ids) <= MaxSessions

\* A running server never has a closed session in its map, so no request is
\* handed to one, however deletes, expiry and handshakes interleave.
OnlyOpenSessionsServe == phase = "up" => Ids \cap closed = {}

\* A session leaves the map under a request that is being handled in it only
\* by a DELETE of its client or by the stop of the server, never by expiry.
NotExpiredInUse ==
  [][\A r \in Requests :
       /\ ReqAt(r, "handling") /\ phase' = "up"
       /\ req[r].session \in Ids /\ req[r].session \notin DOMAIN sessions'
       => \E d \in Requests : ~ReqAt(d, "closing") /\ req'[d].step = "closing"]_mcpVars

\* Every admitted request is answered, whatever its client or its tool call
\* does, unless the process ends under it; a request is admitted once, so this
\* is to say that the time comes when no handler holds a slot any more.  A
\* request that is still reading its body is not admitted: nothing ends its wait.
AdmittedAnswered == <>[](\A r \in Requests : req[r].step \notin Held)
=============================================================================
