-------------------------- MODULE McpHttpServerProofs --------------------------
(***************************************************************************)
(* What McpHttpServer guarantees for any number of requests and any limits.*)
(*                                                                         *)
(* The admission counter equals the number of handlers between admission   *)
(* and answer, however they are left (Counted).  A handshake holds a slot  *)
(* of it until its session is registered, which bounds the sessions        *)
(* (Bounded).  A session id is registered once, by the request that opens  *)
(* it, so a closed session never comes back (Fresh).                       *)
(***************************************************************************)
EXTENDS McpHttpServer, FiniteSetTheorems, TLAPS

Admitted == {r \in Requests : req[r].step \in Held}
Pending == {r \in Requests : req[r].step \in {"connecting", "handshaking"}}

Counted == inFlight = Cardinality(Admitted)
Bounded == Cardinality(Ids) + Cardinality(Pending) < MaxSessions + MaxInFlight
Fresh == \A r \in Opened : ReqAt(r, "answered")

\* The inductive invariant.
McpInv == McpTypeOK /\ Counted /\ Bounded /\ Fresh /\ OnlyOpenSessionsServe

\* Request r, and no other, has moved to a step.
NewStep(r, step) ==
  /\ req'[r].step = step
  /\ \A q \in Requests \ {r} : req'[q] = req[q]

ReqType ==
  req \in [Requests ->
    [step : {"unsent", "late", "answered", "lost"} \cup Timed \cup Held,
     kind : {"none", "init", "call", "delete"},
     session : Requests \cup {NoSession}, wait : 0..Timeout]]

-----------------------------------------------------------------------------
(* Moves of one request                                                    *)

LEMMA MovedStep ==
  ASSUME ReqType, NEW r \in Requests, NEW step \in Held \cup {"late"}, Moved(r, step)
  PROVE  /\ NewStep(r, step) /\ ReqType'
         /\ req'[r].wait = 0 /\ req'[r].session = req[r].session
<1> DEFINE new == [req[r] EXCEPT !.step = step, !.wait = 0]
<1>1. 0 \in 0..Timeout
  BY TimeAssumption
<1>2. /\ new \in [step : {"unsent", "late", "answered", "lost"} \cup Timed \cup Held,
                  kind : {"none", "init", "call", "delete"},
                  session : Requests \cup {NoSession}, wait : 0..Timeout]
      /\ new.step = step /\ new.wait = 0 /\ new.session = req[r].session
  BY <1>1 DEF ReqType, Held, Timed
<1>3. req' = [req EXCEPT ![r] = new]
  BY DEF Moved
<1> HIDE DEF new
<1> QED BY <1>2, <1>3 DEF ReqType, NewStep

LEMMA AnswerStep ==
  ASSUME ReqType, NEW r \in Requests, Answer(r)
  PROVE  NewStep(r, "answered") /\ ReqType'
BY TimeAssumption DEF ReqType, Answer, Blank, NewStep

LEMMA AdmittedFinite ==
  /\ IsFiniteSet(Admitted) /\ Cardinality(Admitted) \in Nat
  /\ IsFiniteSet(Pending) /\ Cardinality(Pending) \in Nat
  /\ Cardinality(Pending) <= Cardinality(Admitted)
<1>1. Admitted \in SUBSET Requests /\ Pending \in SUBSET Admitted
  BY DEF Admitted, Pending, Held
<1>2. IsFiniteSet(Admitted)
  BY <1>1, RequestAssumption, FS_Subset
<1>3. IsFiniteSet(Pending) /\ Cardinality(Pending) <= Cardinality(Admitted)
  BY <1>1, <1>2, FS_Subset
<1> QED BY <1>2, <1>3, FS_CardinalityType

\* A handler is admitted: the counter goes up by one.
LEMMA EnterStep ==
  ASSUME NEW r \in Requests, req[r].step \notin Held,
         NEW step \in Held, NewStep(r, step)
  PROVE  /\ Cardinality(Admitted)' = Cardinality(Admitted) + 1
         /\ Cardinality(Pending)' =
              IF step \in {"connecting", "handshaking"} THEN Cardinality(Pending) + 1
              ELSE Cardinality(Pending)
<1>1. Admitted' = Admitted \cup {r} /\ r \notin Admitted
  BY DEF Admitted, NewStep
<1>2. CASE step \in {"connecting", "handshaking"}
  <2>1. Pending' = Pending \cup {r} /\ r \notin Pending
    BY <1>2 DEF Pending, NewStep, Held
  <2> QED BY <1>1, <1>2, <2>1, AdmittedFinite, FS_AddElement
<1>3. CASE step \notin {"connecting", "handshaking"}
  <2>1. Pending' = Pending
    BY <1>3 DEF Pending, NewStep, Held
  <2> QED BY <1>1, <1>3, <2>1, AdmittedFinite, FS_AddElement
<1> QED BY <1>2, <1>3

\* A handler answers: the counter goes down by one.
LEMMA LeaveStep ==
  ASSUME NEW r \in Requests, req[r].step \in Held,
         NEW step, step \notin Held, NewStep(r, step)
  PROVE  /\ Cardinality(Admitted)' = Cardinality(Admitted) - 1
         /\ Cardinality(Pending)' =
              IF req[r].step \in {"connecting", "handshaking"} THEN Cardinality(Pending) - 1
              ELSE Cardinality(Pending)
<1>1. Admitted' = Admitted \ {r} /\ r \in Admitted
  BY DEF Admitted, NewStep
<1>2. Pending' = Pending \ {r}
  BY DEF Pending, NewStep, Held
<1>3. r \in Pending <=> req[r].step \in {"connecting", "handshaking"}
  BY DEF Pending
<1> QED BY <1>1, <1>2, <1>3, AdmittedFinite, FS_RemoveElement

\* A request moves without entering or leaving: nothing is counted.
LEMMA StayStep ==
  ASSUME \A q \in Requests : /\ req'[q].step \in Held <=> req[q].step \in Held
                             /\ req'[q].step \in {"connecting", "handshaking"}
                                  <=> req[q].step \in {"connecting", "handshaking"}
  PROVE  /\ Cardinality(Admitted)' = Cardinality(Admitted)
         /\ Cardinality(Pending)' = Cardinality(Pending)
<1>1. Admitted' = Admitted /\ Pending' = Pending
  BY DEF Admitted, Pending
<1> QED BY <1>1
-----------------------------------------------------------------------------
(* The map of sessions                                                     *)

LEMMA IdsFinite ==
  ASSUME McpTypeOK
  PROVE  IsFiniteSet(Ids) /\ Cardinality(Ids) \in Nat
<1>1. Ids \in SUBSET Requests
  BY DEF McpTypeOK
<1> QED BY <1>1, RequestAssumption, FS_Subset, FS_CardinalityType

LEMMA PutStep ==
  ASSUME McpTypeOK, NEW s \in Requests, NEW age \in 0..TTL + 1, Put(s, age)
  PROVE  /\ Ids' = Ids \cup {s}
         /\ Ids' \subseteq Requests /\ (sessions \in [Ids -> 0..TTL + 1])'
         /\ Cardinality(Ids)' <= Cardinality(Ids) + 1
         /\ s \in Ids => Cardinality(Ids)' = Cardinality(Ids)
<1>1. Ids' = Ids \cup {s} /\ (sessions \in [Ids -> 0..TTL + 1])' /\ Ids' \subseteq Requests
  BY DEF McpTypeOK, Put, Ids
<1> QED BY <1>1, IdsFinite, FS_AddElement

LEMMA DropStep ==
  ASSUME McpTypeOK, NEW S, Drop(S)
  PROVE  /\ Ids' = Ids \ S
         /\ Ids' \subseteq Requests /\ (sessions \in [Ids -> 0..TTL + 1])'
         /\ Cardinality(Ids)' <= Cardinality(Ids)
<1>1. Ids' = Ids \ S /\ (sessions \in [Ids -> 0..TTL + 1])' /\ Ids' \subseteq Requests
  BY DEF McpTypeOK, Drop, Ids, Restrict
<1>2. Cardinality(Ids \ S) <= Cardinality(Ids)
  BY IdsFinite, FS_Subset, Ids \ S \in SUBSET Ids
<1> QED BY <1>1, <1>2

\* A session is registered by the request that is answered with its id.
LEMMA FreshStep ==
  ASSUME Fresh, NEW r \in Requests, ~ReqAt(r, "answered"), NEW step, NewStep(r, step),
         Opened' \subseteq Opened \cup (IF step = "answered" THEN {r} ELSE {})
  PROVE  Fresh'
BY DEF Fresh, Opened, ReqAt, NewStep

-----------------------------------------------------------------------------
(* The invariant, step by step                                             *)

LEMMA AdmitInv ==
  ASSUME McpInv, NEW r \in Requests, req[r].step \in {"unsent"} \cup Reading,
         NEW kind, NEW s, Admit(r, kind, s), phase' = phase
  PROVE  McpInv'
<1> USE DEF McpInv
<1>1. ReqType /\ ~ReqAt(r, "answered") /\ req[r].step \notin Held
  BY DEF McpTypeOK, ReqType, ReqAt, Held, Reading
<1>2. inFlight \in Nat /\ MaxInFlight \in Nat /\ MaxSessions \in Nat /\ inFlight <= MaxInFlight
  BY LimitAssumption DEF McpTypeOK
<1>3. 0 \in 0..TTL + 1
  BY TimeAssumption
<1>4. ASSUME Answer(r), UNCHANGED <<closed, inFlight>>,
             UNCHANGED sessions \/ (Put(s, 0) /\ s \in Ids)
      PROVE  McpInv'
  <2>1. NewStep(r, "answered") /\ ReqType'
    BY <1>1, <1>4, AnswerStep
  <2>2. Cardinality(Admitted)' = Cardinality(Admitted) /\ Cardinality(Pending)' = Cardinality(Pending)
    BY <2>1, <1>1, StayStep DEF NewStep, Held
  <2>3. /\ Ids' = Ids /\ (sessions \in [Ids -> 0..TTL + 1])' /\ Ids' \subseteq Requests
        /\ Cardinality(Ids)' = Cardinality(Ids)
    <3>1. CASE UNCHANGED sessions
      BY <3>1 DEF McpTypeOK, Ids
    <3>2. CASE Put(s, 0) /\ s \in Ids
      <4>1. s \in Requests
        BY <3>2 DEF McpTypeOK
      <4> QED BY <3>2, <4>1, <1>3, PutStep
    <3> QED BY <1>4, <3>1, <3>2
  <2>4. Opened' = Opened
    BY <2>3, <1>4 DEF Opened
  <2>5. McpTypeOK'
    BY <2>1, <2>3, <1>4 DEF McpTypeOK, ReqType
  <2>6. Counted' /\ Bounded'
    BY <2>2, <2>3, <1>4 DEF Counted, Bounded
  <2>7. Fresh'
    BY <2>1, <2>4, <1>1, FreshStep
  <2>8. OnlyOpenSessionsServe'
    BY <2>3, <1>4 DEF OnlyOpenSessionsServe
  <2> QED BY <2>5, <2>6, <2>7, <2>8
<1>5. ASSUME NEW step \in Held, Moved(r, step), inFlight < MaxInFlight, inFlight' = inFlight + 1,
             step \in {"connecting", "handshaking"} => Cardinality(Ids) < MaxSessions,
             closed \subseteq closed', closed' \subseteq Ids \cup closed, Ids' \subseteq Ids,
             (sessions \in [Ids -> 0..TTL + 1])',
             Cardinality(Ids)' \in Nat, Cardinality(Ids)' <= Cardinality(Ids),
             phase = "up" => Ids' \cap closed' = {}
      PROVE  McpInv'
  <2>1. NewStep(r, step) /\ ReqType'
    BY <1>1, <1>5, MovedStep
  <2>2. /\ Cardinality(Admitted)' = Cardinality(Admitted) + 1
        /\ Cardinality(Pending)' = IF step \in {"connecting", "handshaking"}
                                    THEN Cardinality(Pending) + 1 ELSE Cardinality(Pending)
    BY <2>1, <1>1, EnterStep
  <2>3. McpTypeOK'
    BY <2>1, <1>2, <1>5 DEF McpTypeOK, ReqType
  <2>4. Counted'
    BY <2>2, <1>5 DEF Counted
  <2>5. Bounded'
    BY <2>2, <2>4, <1>2, <1>5, AdmittedFinite, IdsFinite DEF Bounded, Counted
  <2>6. Fresh'
    <3>1. Opened' \subseteq Opened
      BY <1>5 DEF Opened
    <3> QED BY <3>1, <2>1, <1>1, FreshStep
  <2>7. OnlyOpenSessionsServe'
    BY <1>5 DEF OnlyOpenSessionsServe
  <2> QED BY <2>3, <2>4, <2>5, <2>6, <2>7
<1>6. UNCHANGED sessions => /\ Ids' = Ids /\ Cardinality(Ids)' = Cardinality(Ids)
                            /\ (sessions \in [Ids -> 0..TTL + 1])'
  BY DEF McpTypeOK, Ids
<1>7. CASE Busy(r) \/ Refused(r) \/ (s \in Ids /\ ProbeSession(r, s))
  BY <1>7, <1>4 DEF Busy, Refused, ProbeSession
<1>8. CASE inFlight < MaxInFlight /\ OpenSession(r)
  <2>1. CASE Refused(r)
    BY <2>1, <1>7
  <2>2. CASE Cardinality(Ids) < MaxSessions /\ ~Refused(r)
    BY <2>2, <1>8, <1>5, <1>6, IdsFinite DEF OpenSession, Held, OnlyOpenSessionsServe
  <2> QED BY <1>8, <2>1, <2>2 DEF OpenSession
<1>9. CASE inFlight < MaxInFlight /\ s \in Ids /\ UseSession(r, s)
  <2>1. s \in Requests
    BY <1>9 DEF McpTypeOK
  <2>2. /\ Ids' = Ids /\ (sessions \in [Ids -> 0..TTL + 1])'
        /\ Cardinality(Ids)' = Cardinality(Ids)
    BY <2>1, <1>9, <1>3, PutStep DEF UseSession
  <2> QED BY <2>2, <1>9, <1>5, IdsFinite DEF UseSession, Held, OnlyOpenSessionsServe
<1>10. CASE inFlight < MaxInFlight /\ s \in Ids /\ DeleteSession(r, s)
  <2>1. /\ Ids' = Ids \ {s} /\ (sessions \in [Ids -> 0..TTL + 1])'
        /\ Cardinality(Ids)' <= Cardinality(Ids)
    BY <1>10, DropStep DEF DeleteSession
  <2>2. Cardinality(Ids)' \in Nat
    BY <2>1, IdsFinite, FS_RemoveElement, FS_CardinalityType
  <2> QED BY <2>1, <2>2, <1>10, <1>5 DEF DeleteSession, Held, OnlyOpenSessionsServe
<1> QED BY <1>7, <1>8, <1>9, <1>10 DEF Admit

LEMMA LeaveInv ==
  ASSUME McpInv, NEW r \in Requests,
         InitReturns(r) \/ HandlerReturns(r) \/ CloseReturns(r)
  PROVE  McpInv'
<1> USE DEF McpInv
<1>1. /\ ReqType /\ ~ReqAt(r, "answered") /\ req[r].step \in Held /\ Leave(r)
      /\ UNCHANGED <<closed, phase>>
  BY DEF McpTypeOK, ReqType, ReqAt, Held, InitReturns, HandlerReturns, CloseReturns
<1>2. inFlight \in Nat /\ MaxInFlight \in Nat /\ MaxSessions \in Nat /\ inFlight <= MaxInFlight
  BY LimitAssumption DEF McpTypeOK
<1>3. NewStep(r, "answered") /\ ReqType'
  BY <1>1, AnswerStep DEF Leave
<1>4. /\ Cardinality(Admitted)' = Cardinality(Admitted) - 1
      /\ Cardinality(Pending)' = IF req[r].step \in {"connecting", "handshaking"}
                                  THEN Cardinality(Pending) - 1 ELSE Cardinality(Pending)
  BY <1>1, <1>3, LeaveStep DEF Held
<1>5. Cardinality(Admitted)' \in Nat
  <2>1. Admitted' \in SUBSET Requests
    BY DEF Admitted
  <2> QED BY <2>1, RequestAssumption, FS_Subset, FS_CardinalityType
<1>6. inFlight' = inFlight - 1 /\ inFlight' \in 0..MaxInFlight
  BY <1>1, <1>2, <1>4, <1>5 DEF Leave, Counted
<1>7. r \notin closed /\ r \notin Ids
  BY <1>1 DEF Fresh, Opened
<1>8. \/ Ids' = Ids /\ (sessions \in [Ids -> 0..TTL + 1])' /\ Cardinality(Ids)' = Cardinality(Ids)
      \/ /\ Ids' = Ids \cup {r} /\ (sessions \in [Ids -> 0..TTL + 1])'
         /\ Cardinality(Ids)' <= Cardinality(Ids) + 1
         /\ req[r].step \in {"connecting", "handshaking"}
  <2>1. CASE UNCHANGED sessions
    BY <2>1 DEF McpTypeOK, Ids
  <2>2. CASE InitReturns(r) /\ Put(r, req[r].wait)
    <3>1. req[r].wait \in 0..TTL + 1
      BY <1>1, TimeAssumption DEF ReqType
    <3> QED BY <2>2, <3>1, PutStep DEF InitReturns, ReqAt
  <2> QED BY <2>1, <2>2 DEF InitReturns, HandlerReturns, CloseReturns
<1>9. Cardinality(Ids)' \in Nat
  <2>1. Ids' = Ids \/ Ids' = Ids \cup {r}
    BY <1>8
  <2> QED BY <2>1, IdsFinite, FS_AddElement, FS_CardinalityType
<1>10. McpTypeOK'
  BY <1>1, <1>3, <1>6, <1>8 DEF McpTypeOK, ReqType
<1>11. Counted'
  BY <1>4, <1>6 DEF Counted
<1>12. Bounded'
  BY <1>2, <1>4, <1>8, <1>9, IdsFinite, AdmittedFinite DEF Bounded
<1>13. Fresh'
  <2>1. Opened' \subseteq Opened \cup {r}
    BY <1>1, <1>8 DEF Opened
  <2> QED BY <2>1, <1>1, <1>3, FreshStep
<1>14. OnlyOpenSessionsServe'
  BY <1>1, <1>7, <1>8 DEF OnlyOpenSessionsServe
<1> QED BY <1>10, <1>11, <1>12, <1>13, <1>14

\* A request waits, or goes on from one await to the next.
LEMMA WaitInv ==
  ASSUME McpInv, NEW r \in Requests,
         \/ Connected(r) \/ BodyFails(r)
         \/ ReqAt(r, "body") /\ Moved(r, "late") /\ UNCHANGED <<sessions, closed, inFlight, phase>>
         \/ /\ ReqAt(r, "unsent") /\ UNCHANGED <<sessions, closed, inFlight, phase>>
            /\ \E kind \in {"init", "call"}, s \in Opened \cup {NoSession} :
                 req' = [req EXCEPT ![r] =
                   [step |-> "body", kind |-> kind, session |-> s, wait |-> 0]]
  PROVE  McpInv'
<1> USE DEF McpInv
<1>1. ReqType /\ ~ReqAt(r, "answered") /\ UNCHANGED <<sessions, closed, inFlight, phase>>
  BY DEF McpTypeOK, ReqType, ReqAt, Connected, BodyFails, Reading
<1>2. PICK step \in {"handshaking", "answered", "body", "late"} :
        /\ NewStep(r, step) /\ ReqType'
        /\ step = "handshaking" <=> req[r].step = "connecting"
        /\ req[r].step \in {"connecting", "unsent", "body", "late"}
  <2>1. CASE Connected(r)
    BY <2>1, <1>1, MovedStep DEF Connected, Held, ReqAt
  <2>2. CASE BodyFails(r)
    BY <2>2, <1>1, AnswerStep DEF BodyFails, ReqAt, Reading
  <2>3. ASSUME ReqAt(r, "unsent"), NEW kind \in {"init", "call"}, NEW s \in Opened \cup {NoSession},
               req' = [req EXCEPT ![r] =
                   [step |-> "body", kind |-> kind, session |-> s, wait |-> 0]]
        PROVE  NewStep(r, "body") /\ ReqType' /\ req[r].step = "unsent"
    <3>1. s \in Requests \cup {NoSession} /\ 0 \in 0..Timeout
      BY TimeAssumption DEF Opened
    <3> QED BY <2>3, <3>1, <1>1 DEF ReqType, NewStep, Timed, ReqAt
  <2>4. CASE ReqAt(r, "body") /\ Moved(r, "late")
    BY <2>4, <1>1, MovedStep DEF ReqAt
  <2> QED BY <2>1, <2>2, <2>3, <2>4
<1>3. Cardinality(Admitted)' = Cardinality(Admitted) /\ Cardinality(Pending)' = Cardinality(Pending)
  BY <1>2, StayStep DEF NewStep, Held
<1>4. Ids' = Ids /\ Opened' = Opened
  BY <1>1 DEF Ids, Opened
<1>5. McpTypeOK'
  BY <1>1, <1>2, <1>4 DEF McpTypeOK, ReqType
<1>6. Counted' /\ Bounded'
  BY <1>1, <1>3, <1>4 DEF Counted, Bounded
<1>7. Fresh'
  BY <1>1, <1>2, <1>4, FreshStep
<1>8. OnlyOpenSessionsServe'
  BY <1>1, <1>4 DEF OnlyOpenSessionsServe
<1> QED BY <1>5, <1>6, <1>7, <1>8

\* The process ends: nothing is held and nothing is admitted any more.
LEMMA EndInv ==
  ASSUME McpInv, ProcessEnds
  PROVE  McpInv'
<1> USE DEF McpInv
<1>1. /\ Ids' = Ids \ Ids /\ (sessions \in [Ids -> 0..TTL + 1])' /\ Ids' \subseteq Requests
      /\ inFlight' = 0 /\ phase' = "down" /\ closed' = closed \cup Ids
  BY DropStep DEF ProcessEnds
<1>2. /\ ReqType'
      /\ \A q \in Requests : req'[q].step \in {"unsent", "answered", "lost"}
      /\ \A q \in Requests : ReqAt(q, "answered") => ReqAt(q, "answered")'
  BY TimeAssumption DEF ProcessEnds, McpTypeOK, ReqType, Blank, ReqAt
<1>3. Ids' = {} /\ Admitted' = {} /\ Pending' = {}
  BY <1>1, <1>2 DEF Admitted, Pending, Held
<1>4. McpTypeOK'
  BY <1>1, <1>2, LimitAssumption DEF McpTypeOK, ReqType
<1>5. Counted' /\ Bounded'
  BY <1>1, <1>3, FS_EmptySet, LimitAssumption DEF Counted, Bounded
<1>6. Opened' \subseteq Opened
  BY <1>1, <1>3 DEF Opened
<1>7. Fresh'
  BY <1>2, <1>6 DEF Fresh, Opened
<1>8. OnlyOpenSessionsServe'
  BY <1>1 DEF OnlyOpenSessionsServe
<1> QED BY <1>4, <1>5, <1>7, <1>8

\* A step of the server touches no handler; sessions only close.
LEMMA ServerInv ==
  ASSUME McpInv,
         CleanUp \/ BeginStop \/ (\E s \in Requests : StopClosesOne(s)) \/ FinishStop
  PROVE  McpInv'
<1> USE DEF McpInv
<1>1. /\ UNCHANGED <<req, inFlight>> /\ closed \subseteq closed' /\ closed' \subseteq Ids \cup closed
      /\ phase' \in {"up", "stopping", "down"}
  BY DEF CleanUp, BeginStop, StopClosesOne, FinishStop, McpTypeOK, Expired, Ids
<1> DEFINE Shrunk == /\ Ids' \subseteq Ids /\ (sessions \in [Ids -> 0..TTL + 1])'
                     /\ Cardinality(Ids)' \in Nat /\ Cardinality(Ids)' <= Cardinality(Ids)
                     /\ phase' = "up" => Ids' \cap closed' = {}
<1>2. Shrunk
  <2>1. CASE UNCHANGED sessions /\ phase' # "up"
    BY <2>1, IdsFinite DEF McpTypeOK, Ids
  <2>2. ASSUME NEW S, Drop(S), closed' \subseteq closed \cup S,
               phase' = "up" => phase = "up"
        PROVE  Shrunk
    <3>1. /\ Ids' = Ids \ S /\ (sessions \in [Ids -> 0..TTL + 1])'
          /\ Cardinality(Ids)' <= Cardinality(Ids)
      BY <2>2, DropStep
    <3>2. Cardinality(Ids)' \in Nat
      BY <3>1, IdsFinite, FS_Subset, FS_CardinalityType, Ids \ S \in SUBSET Ids
    <3> QED BY <3>1, <3>2, <2>2 DEF OnlyOpenSessionsServe
  <2>3. CASE CleanUp
    BY <2>3, <2>2 DEF CleanUp
  <2>4. CASE FinishStop
    BY <2>4, <2>2 DEF FinishStop
  <2> QED BY <2>1, <2>3, <2>4 DEF BeginStop, StopClosesOne
<1>3. Cardinality(Admitted)' = Cardinality(Admitted) /\ Cardinality(Pending)' = Cardinality(Pending)
  BY <1>1, StayStep
<1>4. McpTypeOK'
  BY <1>1, <1>2 DEF McpTypeOK
<1>5. Counted' /\ Bounded'
  BY <1>1, <1>2, <1>3, IdsFinite, AdmittedFinite, LimitAssumption DEF Counted, Bounded
<1>6. Fresh'
  BY <1>1, <1>2 DEF Fresh, Opened, ReqAt
<1>7. OnlyOpenSessionsServe'
  BY <1>2 DEF OnlyOpenSessionsServe
<1> QED BY <1>4, <1>5, <1>6, <1>7

LEMMA TickInv ==
  ASSUME McpInv, Tick
  PROVE  McpInv'
<1> USE DEF McpInv
<1>1. UNCHANGED <<closed, inFlight, phase>> /\ Ids' = Ids
  BY DEF Tick, Ids
<1>2. (sessions \in [Ids -> 0..TTL + 1])'
  BY <1>1, TimeAssumption DEF Tick, McpTypeOK, Ids
<1>3. ReqType' /\ \A q \in Requests : req'[q].step = req[q].step
  BY TimeAssumption DEF Tick, McpTypeOK, ReqType, Timed
<1>4. Cardinality(Admitted)' = Cardinality(Admitted) /\ Cardinality(Pending)' = Cardinality(Pending)
  BY <1>3, StayStep
<1>5. McpTypeOK'
  BY <1>1, <1>2, <1>3 DEF McpTypeOK, ReqType
<1>6. Counted' /\ Bounded'
  BY <1>1, <1>4 DEF Counted, Bounded
<1>7. Fresh' /\ OnlyOpenSessionsServe'
  BY <1>1, <1>3 DEF Fresh, Opened, ReqAt, OnlyOpenSessionsServe
<1> QED BY <1>5, <1>6, <1>7

LEMMA McpInitial == ASSUME McpInit PROVE McpInv
<1>1. Ids = {}
  BY DEF McpInit, Ids
<1>2. Admitted = {} /\ Pending = {}
  BY DEF McpInit, Admitted, Pending, Held, Blank
<1>3. McpTypeOK
  BY <1>1, LimitAssumption, TimeAssumption DEF McpInit, McpTypeOK, Blank
<1>4. Counted /\ Bounded
  BY <1>1, <1>2, FS_EmptySet, LimitAssumption DEF McpInit, Counted, Bounded
<1>5. Fresh /\ OnlyOpenSessionsServe
  BY <1>1 DEF McpInit, Fresh, Opened, OnlyOpenSessionsServe
<1> QED BY <1>3, <1>4, <1>5 DEF McpInv

LEMMA McpStep ==
  ASSUME McpInv, [McpNext]_mcpVars
  PROVE  McpInv'
<1>1. CASE UNCHANGED mcpVars
  <2>1. Ids' = Ids /\ Opened' = Opened /\ Admitted' = Admitted /\ Pending' = Pending
    BY <1>1 DEF mcpVars, Ids, Opened, Admitted, Pending
  <2> QED BY <1>1, <2>1 DEF mcpVars, McpInv, McpTypeOK, Counted, Bounded, Fresh, ReqAt,
                            OnlyOpenSessionsServe
<1>2. ASSUME NEW r \in Requests, Receive(r)
      PROVE  McpInv'
  <2>1. ASSUME NEW kind \in {"get", "delete"}, NEW s \in Opened, Admit(r, kind, s)
        PROVE  McpInv'
    BY <1>2, <2>1, AdmitInv DEF Receive, ReqAt
  <2> QED BY <1>2, <2>1, WaitInv DEF Receive
<1>3. ASSUME NEW r \in Requests, BodyRead(r)
      PROVE  McpInv'
  BY <1>3, AdmitInv DEF BodyRead, ReqAt
<1>4. ASSUME NEW r \in Requests,
             \/ BodyFails(r) \/ Connected(r) \/ InitReturns(r)
             \/ HandlerReturns(r) \/ CloseReturns(r) \/ TimerFires(r)
      PROVE  McpInv'
  BY <1>4, WaitInv, LeaveInv DEF TimerFires
<1>5. ASSUME NEW r \in Requests, BodyTimerThrows(r)
      PROVE  McpInv'
  BY <1>5, WaitInv, EndInv DEF BodyTimerThrows
<1> QED BY <1>1, <1>2, <1>3, <1>4, <1>5, TickInv, ServerInv DEF McpNext

-----------------------------------------------------------------------------
(* A session in use has been used more recently than its request waits.    *)

InUse ==
  \A r \in Requests : ReqAt(r, "handling") =>
    /\ req[r].session \in Opened
    /\ req[r].session \in Ids => sessions[req[r].session] <= req[r].wait

\* Nothing but a tick makes a session older, and an id is never reused.
Younger ==
  \A s \in Opened :
    /\ s \in Opened'
    /\ s \in Ids' => s \in Ids /\ sessions'[s] <= sessions[s]

LEMMA YoungerPut ==
  ASSUME McpInv, NEW s, NEW age \in Nat, Put(s, age), UNCHANGED closed,
         age = 0 \/ s \notin Opened, s \in Ids \/ s \notin Opened
  PROVE  Younger
BY TimeAssumption DEF McpInv, McpTypeOK, Put, Younger, Opened, Ids

LEMMA YoungerDrop ==
  ASSUME McpInv, NEW S, Drop(S), S \cap Ids \subseteq closed', closed \subseteq closed'
  PROVE  Younger
BY TimeAssumption DEF McpInv, McpTypeOK, Drop, Younger, Opened, Ids, Restrict

LEMMA YoungerSame ==
  ASSUME McpInv, UNCHANGED sessions, closed \subseteq closed'
  PROVE  Younger
BY TimeAssumption DEF McpInv, McpTypeOK, Younger, Opened, Ids

\* The record of a request in a handler changes only when the handler ends.
OnlyEnters ==
  \A q \in Requests : req'[q].step = "handling" =>
    \/ req'[q] = req[q]
    \/ /\ req'[q].wait = 0 /\ req'[q].session \in Ids /\ req'[q].session \in Ids'
       /\ sessions'[req'[q].session] = 0

\* What the code between two awaits does to ages and to requests in use.
LEMMA AdmitUse ==
  ASSUME McpInv, NEW r \in Requests, req[r].step \in {"unsent"} \cup Reading,
         NEW kind, NEW s, Admit(r, kind, s),
         kind = "call" => s = req[r].session
  PROVE  Younger /\ OnlyEnters
<1>1. ReqType
  BY DEF McpInv, McpTypeOK, ReqType
<1>2. ASSUME Answer(r)
      PROVE  OnlyEnters
  BY <1>1, <1>2, AnswerStep DEF OnlyEnters, NewStep
<1>3. ASSUME NEW step \in Held, step # "handling", Moved(r, step)
      PROVE  OnlyEnters
  BY <1>1, <1>3, MovedStep DEF OnlyEnters, NewStep
<1>4. CASE Busy(r) \/ Refused(r)
  BY <1>2, <1>4, YoungerSame DEF Busy, Refused
<1>5. CASE ProbeSession(r, s) /\ s \in Ids
  BY <1>2, <1>5, YoungerPut DEF ProbeSession
<1>6. CASE Moved(r, "connecting") /\ UNCHANGED <<sessions, closed>>
  BY <1>3, <1>6, YoungerSame DEF Held
<1>7. CASE UseSession(r, s) /\ s \in Ids /\ kind = "call"
  <2>1. Younger
    BY <1>7, YoungerPut DEF UseSession
  <2>2. s \in Ids' /\ sessions'[s] = 0
    BY <1>7 DEF UseSession, Put, Ids
  <2>3. OnlyEnters
    BY <1>1, <1>7, <2>2, MovedStep DEF UseSession, OnlyEnters, NewStep, Held
  <2> QED BY <2>1, <2>3
<1>8. CASE DeleteSession(r, s)
  <2>1. Younger
    BY <1>8, YoungerDrop DEF DeleteSession
  <2> QED BY <1>3, <1>8, <2>1 DEF DeleteSession, Held
<1> QED BY <1>4, <1>5, <1>6, <1>7, <1>8 DEF Admit, OpenSession

LEMMA StepUse ==
  ASSUME McpInv, [McpNext]_mcpVars, ~Tick
  PROVE  Younger /\ OnlyEnters
<1>1. ReqType
  BY DEF McpInv, McpTypeOK, ReqType
<1>2. ASSUME UNCHANGED req PROVE OnlyEnters
  BY <1>2 DEF OnlyEnters
<1>3. CASE UNCHANGED mcpVars
  BY <1>2, <1>3, YoungerSame DEF mcpVars
<1>4. ASSUME NEW r \in Requests, Receive(r)
      PROVE  Younger /\ OnlyEnters
  <2>1. ASSUME NEW kind \in {"get", "delete"}, NEW s \in Opened, Admit(r, kind, s)
        PROVE  Younger /\ OnlyEnters
    BY <1>4, <2>1, AdmitUse DEF Receive, ReqAt
  <2>2. ASSUME UNCHANGED <<sessions, closed>>, NEW kind, NEW s,
               req' = [req EXCEPT ![r] =
                 [step |-> "body", kind |-> kind, session |-> s, wait |-> 0]]
        PROVE  Younger /\ OnlyEnters
    BY <1>1, <2>2, YoungerSame DEF OnlyEnters, ReqType
  <2> QED BY <1>4, <2>1, <2>2 DEF Receive
<1>5. ASSUME NEW r \in Requests, BodyRead(r)
      PROVE  Younger /\ OnlyEnters
  BY <1>5, AdmitUse DEF BodyRead, ReqAt
<1>6. ASSUME NEW r \in Requests, BodyFails(r) \/ HandlerReturns(r) \/ CloseReturns(r)
      PROVE  Younger /\ OnlyEnters
  BY <1>1, <1>6, AnswerStep, YoungerSame
     DEF BodyFails, HandlerReturns, CloseReturns, Leave, OnlyEnters, NewStep
<1>7. ASSUME NEW r \in Requests, InitReturns(r)
      PROVE  Younger /\ OnlyEnters
  <2>1. r \notin Opened /\ req[r].wait \in Nat
    BY <1>1, <1>7, TimeAssumption DEF McpInv, Fresh, InitReturns, ReqAt, ReqType
  <2>2. Younger
    BY <1>7, <2>1, YoungerPut, YoungerSame DEF InitReturns
  <2> QED BY <1>1, <1>7, <2>2, AnswerStep DEF InitReturns, Leave, OnlyEnters, NewStep
<1>8. ASSUME NEW r \in Requests, Connected(r)
      PROVE  Younger /\ OnlyEnters
  BY <1>1, <1>8, MovedStep, YoungerSame DEF Connected, Held, OnlyEnters, NewStep
<1>9. CASE CleanUp
  BY <1>2, <1>9, YoungerDrop DEF CleanUp
<1>10. CASE BeginStop \/ \E s \in Requests : StopClosesOne(s)
  BY <1>2, <1>10, YoungerSame DEF BeginStop, StopClosesOne
<1>11. CASE FinishStop
  BY <1>2, <1>11, YoungerDrop DEF FinishStop
<1>12. ASSUME NEW r \in Requests, BodyTimerThrows(r)
       PROVE  Younger /\ OnlyEnters
  <2>1. CASE Moved(r, "late") /\ UNCHANGED <<sessions, closed>>
    BY <1>1, <2>1, MovedStep, YoungerSame DEF OnlyEnters, NewStep
  <2>2. CASE ProcessEnds
    <3>1. OnlyEnters
      BY <1>1, <2>2 DEF ProcessEnds, Blank, OnlyEnters
    <3> QED BY <2>2, <3>1, YoungerDrop DEF ProcessEnds
  <2> QED BY <1>12, <2>1, <2>2 DEF BodyTimerThrows
<1> QED BY <1>3, <1>4, <1>5, <1>6, <1>7, <1>8, <1>9, <1>10, <1>11, <1>12 DEF McpNext, TimerFires

LEMMA InUseStep ==
  ASSUME McpInv, InUse, [McpNext]_mcpVars
  PROVE  InUse'
<1>1. McpInv'
  BY McpStep
<1>2. CASE Tick
  <2>1. Ids' = Ids /\ Opened' = Opened
    BY <1>2 DEF Tick, Ids, Opened
  <2> QED BY <1>2, <2>1, TimeAssumption
          DEF Tick, InUse, ReqAt, McpInv, McpTypeOK, Timed, Ids
<1>3. CASE ~Tick
  <2>1. Younger /\ OnlyEnters
    BY <1>3, StepUse
  <2>2. ASSUME NEW q \in Requests, ReqAt(q, "handling")'
        PROVE  /\ req'[q].session \in Opened'
               /\ req'[q].session \in Ids' => sessions'[req'[q].session] <= req'[q].wait
    <3>1. CASE req'[q] = req[q]
      <4>1. ReqAt(q, "handling")
        BY <2>2, <3>1 DEF ReqAt
      <4>2. \A s \in Ids : sessions[s] \in Nat
        BY TimeAssumption DEF McpInv, McpTypeOK
      <4>3. \A s \in Ids' : sessions'[s] \in Nat
        BY <1>1, TimeAssumption DEF McpInv, McpTypeOK
      <4>4. req[q].wait \in Nat
        BY TimeAssumption DEF McpInv, McpTypeOK
      <4> QED BY <2>1, <3>1, <4>1, <4>2, <4>3, <4>4 DEF InUse, Younger
    <3>2. CASE req'[q] # req[q]
      <4>1. /\ req'[q].wait = 0 /\ req'[q].session \in Ids'
            /\ sessions'[req'[q].session] = 0
        BY <2>1, <2>2, <3>2 DEF OnlyEnters, ReqAt
      <4>2. req'[q].session \in Opened'
        BY <1>1, <4>1 DEF Opened, McpInv, McpTypeOK
      <4> QED BY <4>1, <4>2
    <3> QED BY <3>1, <3>2
  <2> QED BY <2>2 DEF InUse
<1> QED BY <1>2, <1>3

-----------------------------------------------------------------------------
(* Theorems                                                                *)

LEMMA McpInvariant == McpSpec => []McpInv
<1> QED BY McpInitial, McpStep, PTL DEF McpSpec

\* Every reachable state is well formed, and the admission counter stays
\* between zero and MCP_HTTP_MAX_IN_FLIGHT (mcp-http.ts:310-347).
THEOREM McpTypeCorrect == McpSpec => []McpTypeOK
<1>1. McpInv => McpTypeOK
  BY DEF McpInv
<1> QED BY <1>1, McpInvariant, PTL

\* What the code keeps in the place of the "64 sessions maximum" of
\* docs/cli-mcp.md:59: the limit is compared before the two awaits of a
\* handshake and the session is registered after them, so up to MaxInFlight - 1
\* handshakes overshoot it.  Run McpSessionLimit shows that they do.
SessionsBounded == Cardinality(Ids) < MaxSessions + MaxInFlight

\* However many clients shake hands at once, the documented limit is overshot by
\* less than the admission limit (mcp-http.ts:310, 316-326).
THEOREM SessionsStayBounded == McpSpec => []SessionsBounded
<1>1. McpInv => SessionsBounded
  BY IdsFinite, AdmittedFinite, LimitAssumption DEF McpInv, Bounded, SessionsBounded
<1> QED BY <1>1, McpInvariant, PTL

\* A running server hands no request to a closed session (mcp-http.ts:254-262,
\* 326, 331-335).
THEOREM ClosedSessionsNeverServe == McpSpec => []OnlyOpenSessionsServe
<1>1. McpInv => OnlyOpenSessionsServe
  BY DEF McpInv
<1> QED BY <1>1, McpInvariant, PTL

\* Expiry never takes a session from under a request in it, because the use
\* refreshes the session and the request timer is shorter than the time to
\* live (mcp-http.ts:254-262, 330, 340-344).
THEOREM SessionsInUseStay == McpSpec => NotExpiredInUse
<1> DEFINE Kept(r) ==
      /\ ReqAt(r, "handling") /\ phase' = "up"
      /\ req[r].session \in Ids /\ req[r].session \notin DOMAIN sessions'
      => \E d \in Requests : ~ReqAt(d, "closing") /\ req'[d].step = "closing"
<1>1. McpInit => InUse
  BY DEF McpInit, InUse, ReqAt, Blank
<1>2. ASSUME McpInv, InUse, [McpNext]_mcpVars, NEW r \in Requests
      PROVE  Kept(r)
  <2> SUFFICES ASSUME ReqAt(r, "handling"), phase' = "up", req[r].session \in Ids,
                      req[r].session \notin Ids'
               PROVE  \E d \in Requests : ~ReqAt(d, "closing") /\ req'[d].step = "closing"
    BY DEF Ids
  <2>1. ~CleanUp
    <3>1. req[r].session \notin Expired
      BY <1>2, TimeAssumption DEF InUse, McpInv, McpTypeOK, Expired
    <3> QED BY <3>1 DEF CleanUp, Drop, Ids, Restrict
  <2>2. \A s, age : ~Put(s, age)
    BY DEF Put, Ids
  <2>3. ~UNCHANGED sessions
    BY DEF Ids
  <2>4. PICK d \in Requests :
          /\ \E s : DeleteSession(d, s)
          /\ req[d].step \in {"unsent"} \cup Reading
    BY <1>2, <2>1, <2>2, <2>3
       DEF mcpVars, McpNext, Receive, BodyRead, BodyFails, Connected, InitReturns, HandlerReturns,
           CloseReturns, TimerFires, BodyTimerThrows, ProcessEnds, ReqAt, Tick, Ids, BeginStop, StopClosesOne, FinishStop,
           Admit, Busy, Refused, OpenSession, UseSession, ProbeSession
  <2>5. ReqType
    BY <1>2 DEF McpInv, McpTypeOK, ReqType
  <2>6. req'[d].step = "closing"
    BY <2>4, <2>5 DEF DeleteSession, Moved, ReqType
  <2> QED BY <2>4, <2>6 DEF ReqAt, Reading
<1>3. ASSUME McpInv, InUse, [McpNext]_mcpVars
      PROVE  [\A r \in Requests : Kept(r)]_mcpVars
  BY <1>2, <1>3
<1>4. McpInv /\ InUse /\ [McpNext]_mcpVars => InUse'
  BY InUseStep
<1> QED BY <1>1, <1>3, <1>4, McpInvariant, PTL DEF McpSpec, NotExpiredInUse
=============================================================================
