--------------------------- MODULE HttpAdapter_proofs ---------------------------
(***************************************************************************)
(* Theorems about HttpAdapter, for any set of requests: the core refuses   *)
(* one of the adapter's requests only if a shutdown has closed the session *)
(* in between.  The steps of the core are left to ServerCore_proofs.       *)
(***************************************************************************)
EXTENDS HttpAdapter, ServerCore_proofs

\* The types of the variables that HttpAdapter adds.
HttpTypeOK ==
  /\ attached \in BOOLEAN /\ thrown \in BOOLEAN
  /\ ref \in BOOLEAN /\ listening \in BOOLEAN
  /\ closing \in {"no", "draining", "drained"}
  /\ exchange \in [Requests -> {"none", "accepted", "reading", "waiting", "answered", "aborted"}]
  /\ answer \in [Requests -> {"none", "reply", "error"}]

\* A core that runs with its http server listens through it.
RunningListens == started /\ ref => attached /\ listening

AnswersMatch == \A r \in Requests : exchange[r] = "answered" <=> answer[r] # "none"

\* A session is only ever given the request it was created for.
OwnSession == \A s \in Sessions : current[s] \subseteq {s}

\* A request is only closed with its session.
DoneIsClosed == \A r \in isDone : state[r] = "invalid"

\* Between the creation of its session and its registration a request is new; while its
\* body is read it is managed.
AcceptedIsNew == \A r \in Requests : exchange[r] = "accepted" => state[r] = "valid" /\ ~Managed(r)
ReadIsManaged == \A r \in Requests : exchange[r] = "reading" => Managed(r)

HttpInv ==
  /\ CoreInv
  /\ HttpTypeOK
  /\ RunningListens
  /\ AnswersMatch
  /\ OwnSession
  /\ DoneIsClosed
  /\ AcceptedIsNew
  /\ ReadIsManaged
  /\ RefusalMeansShutdown

LEMMA HttpInvInit == Init => HttpInv
<1> SUFFICES ASSUME Init PROVE HttpInv
  OBVIOUS
<1>1. CoreInv
  BY CoreInvInit DEF Init
<1>2. HttpTypeOK /\ RunningListens /\ AnswersMatch
  BY DEF Init, CoreInit, HttpTypeOK, RunningListens, AnswersMatch
<1>3. OwnSession /\ DoneIsClosed
  BY DEF Init, CoreInit, OwnSession, DoneIsClosed
<1>4. AcceptedIsNew /\ ReadIsManaged /\ RefusalMeansShutdown
  BY DEF Init, CoreInit, AcceptedIsNew, ReadIsManaged, RefusalMeansShutdown, Errors
<1> QED
  BY <1>1, <1>2, <1>3, <1>4 DEF HttpInv

\* Every step of the server with its HTTP adapter is one of the core, or none.
LEMMA StepIsCoreStep == [Next]_vars => [CoreNext]_coreVars
<1> SUFFICES ASSUME [Next]_vars PROVE [CoreNext]_coreVars
  OBVIOUS
<1>1. CASE Prepare \/ HttpStartup \/ HttpShutdown
  BY <1>1 DEF Prepare, HttpStartup, HttpShutdown, CoreNext
<1>2. CASE HttpShutdownThrows \/ Drain \/ CloseEvent
  BY <1>2 DEF HttpShutdownThrows, Drain, CloseEvent
<1>3. ASSUME NEW r \in Requests, Abort(r) \/ Refuse(r) \/ Reply(r)
      PROVE  UNCHANGED coreVars
  BY <1>3 DEF Abort, Refuse, Reply
<1>4. ASSUME NEW r \in Requests, Accept(r) \/ Register(r)
      PROVE  CoreNext
  BY <1>4, OneSessionEach DEF Accept, Register, CoreNext
<1>5. ASSUME NEW r \in Requests, BodyEnd(r)
      PROVE  CoreNext \/ UNCHANGED coreVars
  BY <1>5 DEF BodyEnd, CoreNext
<1>6. ASSUME NEW r \in Requests, Settle(r)
      PROVE  CoreNext
  BY <1>6 DEF Settle, CoreNext
<1>7. CASE UNCHANGED vars
  BY <1>7 DEF vars
<1> QED
  BY <1>1, <1>2, <1>3, <1>4, <1>5, <1>6, <1>7 DEF Next

\* What is refused of a request whose body has been read: nothing, or its session has
\* been closed.
LEMMA RefusedIsClosed ==
  ASSUME HttpInv, NEW r \in Requests, Managed(r), Refusal(r) # "none"
  PROVE  Refusal(r) \in {"IllegalState", "TypeError"} /\ state[r] = "invalid"
<1>1. CASE r \in isDone
  <2>1. parent[r] = None /\ state[r] = "invalid"
    BY <1>1 DEF HttpInv, CoreInv, CoreTypeOK, DoneIsClosed
  <2> QED
    BY <2>1 DEF Refusal
<1>2. CASE r \notin isDone
  <2>1. PICK s \in Valid : parent[r] = s /\ r \in current[s]
    BY <1>2 DEF HttpInv, CoreInv, OpenRequestIsReachable
  <2>2. started /\ state[s] = "valid" /\ s \in Sessions
    BY <2>1 DEF Valid, HttpInv, CoreInv, StoppedHasNoSession, CoreTypeOK
  <2>3. parent[r] # None /\ state[parent[r]] = "valid"
    BY <2>1, <2>2, NoneAssumption
  <2>4. Refusal(r) = "none"
    BY <2>2, <2>3 DEF Refusal
  <2> QED
    BY <2>4
<1> QED
  BY <1>1, <1>2

\* A step that leaves the requests and the exchanges alone keeps what is said of them.
LEMMA QuietStep ==
  ASSUME HttpInv, UNCHANGED <<session, request, error>>,
         \A r \in Requests : exchange'[r] \in {"accepted", "reading"} => exchange'[r] = exchange[r]
  PROVE  /\ OwnSession' /\ DoneIsClosed' /\ AcceptedIsNew' /\ ReadIsManaged'
         /\ RefusalMeansShutdown'
BY DEF HttpInv, session, request, OwnSession, DoneIsClosed, AcceptedIsNew, ReadIsManaged,
       RefusalMeansShutdown, Managed

LEMMA HttpInvStep == HttpInv /\ [Next]_vars => HttpInv'
<1> SUFFICES ASSUME HttpInv, [Next]_vars PROVE HttpInv'
  OBVIOUS
<1>a. CoreInv' /\ CoreInv
  BY StepIsCoreStep, CoreInvStep DEF HttpInv
<1>b. HttpTypeOK /\ RunningListens /\ AnswersMatch
  BY DEF HttpInv
<1>1. CASE Prepare
  <2>1. HttpTypeOK' /\ RunningListens' /\ AnswersMatch'
    BY <1>1, <1>b DEF Prepare, Use, node, http, HttpTypeOK, RunningListens, AnswersMatch
  <2>2. UNCHANGED <<session, request, error, exchange>>
    BY <1>1 DEF Prepare, Use, http
  <2> QED
    BY <1>a, <2>1, <2>2, QuietStep DEF HttpInv
<1>2. CASE HttpStartup
  <2>1. HttpTypeOK' /\ RunningListens' /\ AnswersMatch'
    BY <1>2, <1>b DEF HttpStartup, Startup, http, HttpTypeOK, RunningListens, AnswersMatch
  <2>2. UNCHANGED <<session, request, error, exchange>>
    BY <1>2 DEF HttpStartup, Startup, http
  <2> QED
    BY <1>a, <2>1, <2>2, QuietStep DEF HttpInv
<1>3. CASE HttpShutdown
  <2>1. HttpTypeOK' /\ RunningListens' /\ AnswersMatch'
    BY <1>3, <1>b DEF HttpShutdown, Closing, Shutdown, http, HttpTypeOK, RunningListens, AnswersMatch
  <2>2. /\ Invalidate(sessions) /\ sessions \subseteq Sessions /\ UNCHANGED error
        /\ UNCHANGED exchange /\ \A r \in Requests : exchange[r] # "accepted"
    BY <1>3, <1>a DEF HttpShutdown, Shutdown, http, Idle, CoreInv, CoreTypeOK
  <2>3. \A s \in Sessions : /\ current'[s] \subseteq current[s]
                            /\ state[s] = "invalid" => state'[s] = "invalid"
                            /\ s \in sessions => state'[s] = "invalid"
    BY <2>2, <1>a DEF Invalidate, CoreInv, CoreTypeOK
  <2>4. OwnSession'
    BY <2>3 DEF HttpInv, OwnSession
  <2>5. ASSUME NEW r \in isDone' PROVE state'[r] = "invalid"
    <3>1. CASE r \in isDone
      BY <3>1, <2>3, <1>a, OneSessionEach DEF HttpInv, DoneIsClosed, CoreInv, CoreTypeOK
    <3>2. CASE r \notin isDone
      <4>1. PICK s \in sessions : r \in current[s]
        BY <3>2, <2>2 DEF Invalidate, Finish
      <4>2. r = s /\ s \in Sessions
        BY <4>1, <2>2 DEF HttpInv, OwnSession
      <4> QED
        BY <4>1, <4>2, <2>3
    <3> QED
      BY <3>1, <3>2
  <2>6. AcceptedIsNew'
    BY <2>2 DEF AcceptedIsNew
  <2>7. ReadIsManaged'
    BY <2>2 DEF HttpInv, ReadIsManaged, Managed, Invalidate, Finish
  <2>8. RefusalMeansShutdown'
    BY <2>2, <2>3, OneSessionEach DEF HttpInv, RefusalMeansShutdown
  <2> QED
    BY <1>a, <2>1, <2>4, <2>5, <2>6, <2>7, <2>8 DEF HttpInv, DoneIsClosed
<1>4. CASE HttpShutdownThrows \/ Drain \/ CloseEvent
  <2>1. HttpTypeOK' /\ RunningListens' /\ AnswersMatch'
    <3>1. UNCHANGED <<started, exchange, answer>>
      BY <1>4 DEF HttpShutdownThrows, Drain, CloseEvent, coreVars, core, http
    <3>2. CASE HttpShutdownThrows
      BY <3>1, <3>2, <1>b DEF HttpShutdownThrows, node, HttpTypeOK, RunningListens, AnswersMatch
    <3>3. CASE Drain
      BY <3>1, <3>3, <1>b DEF Drain, HttpTypeOK, RunningListens, AnswersMatch
    <3>4. CASE CloseEvent
      BY <3>1, <3>4, <1>b DEF CloseEvent, HttpTypeOK, RunningListens, AnswersMatch
    <3> QED
      BY <1>4, <3>2, <3>3, <3>4
  <2>2. UNCHANGED <<session, request, error, exchange>>
    BY <1>4 DEF HttpShutdownThrows, Drain, CloseEvent, coreVars, http
  <2> QED
    BY <1>a, <2>1, <2>2, QuietStep DEF HttpInv
<1>5. ASSUME NEW r \in Requests, Abort(r) \/ Refuse(r) \/ Settle(r) \/ Reply(r) PROVE HttpInv'
  <2>1. /\ UNCHANGED <<core, session, request, error, attached, node, thrown>>
        /\ \/ UNCHANGED http
           \/ /\ exchange' = [exchange EXCEPT ![r] = "aborted"] /\ UNCHANGED answer
              /\ exchange[r] \in {"reading", "waiting"}
           \/ \E a \in {"reply", "error"} : Answer(r, a)
    BY <1>5 DEF Abort, Refuse, Settle, Reply, ChainSettles, coreVars
  <2>2. HttpTypeOK' /\ RunningListens' /\ AnswersMatch'
    BY <2>1, <1>b DEF core, node, http, Answer, HttpTypeOK, RunningListens, AnswersMatch
  <2>3. \A q \in Requests : exchange'[q] \in {"accepted", "reading"} => exchange'[q] = exchange[q]
    BY <2>1, <1>b DEF http, Answer, HttpTypeOK
  <2> QED
    BY <1>a, <2>1, <2>2, <2>3, QuietStep DEF HttpInv
<1>6. ASSUME NEW r \in Requests, Accept(r) PROVE HttpInv'
  <2>1. /\ state[r] = "none" /\ state' = [state EXCEPT ![r] = "valid"]
        /\ exchange' = [exchange EXCEPT ![r] = "accepted"] /\ exchange[r] = "none"
        /\ UNCHANGED <<started, current, parent, isDone, error, answer, attached, node, thrown>>
    BY <1>6 DEF Accept, CreateSession, Incoming, request
  <2>2. HttpTypeOK' /\ RunningListens' /\ AnswersMatch'
    BY <2>1, <1>b DEF node, HttpTypeOK, RunningListens, AnswersMatch
  <2>3. OwnSession' /\ ReadIsManaged'
    BY <2>1, <1>b DEF HttpInv, OwnSession, ReadIsManaged, Managed, HttpTypeOK
  <2>4. \A q \in Requests : state[q] = "invalid" => state'[q] = "invalid"
    BY <2>1, <1>a, OneSessionEach DEF CoreInv, CoreTypeOK
  <2>5. DoneIsClosed' /\ RefusalMeansShutdown'
    <3>1. isDone \subseteq Requests /\ isDone' = isDone /\ error' = error
      BY <2>1, <1>a DEF CoreInv, CoreTypeOK
    <3> QED
      BY <3>1, <2>4 DEF HttpInv, DoneIsClosed, RefusalMeansShutdown
  <2>6. r \notin isDone
    BY <2>1 DEF HttpInv, DoneIsClosed
  <2>7. ~Managed(r)
    <3> SUFFICES ASSUME Managed(r) PROVE FALSE
      OBVIOUS
    <3>1. PICK s \in Valid : r \in current[s]
      BY <2>6, <1>a DEF CoreInv, OpenRequestIsReachable
    <3>2. s = r /\ state[s] = "valid"
      BY <3>1 DEF HttpInv, OwnSession, Valid
    <3> QED
      BY <3>2, <2>1
  <2>8. AcceptedIsNew'
    BY <2>1, <2>7, <1>a, <1>b, OneSessionEach
       DEF HttpInv, AcceptedIsNew, Managed, HttpTypeOK, CoreInv, CoreTypeOK
  <2> QED
    BY <1>a, <2>2, <2>3, <2>5, <2>8 DEF HttpInv
<1>7. ASSUME NEW r \in Requests, Register(r) PROVE HttpInv'
  <2>1. /\ ~Managed(r)
        /\ parent' = [parent EXCEPT ![r] = r] /\ current' = [current EXCEPT ![r] = @ \cup {r}]
        /\ exchange' = [exchange EXCEPT ![r] = "reading"] /\ exchange[r] = "accepted"
        /\ UNCHANGED <<started, state, isDone, error, answer, attached, node, thrown>>
    BY <1>7 DEF Register, RegisterRequest, core
  <2>2. HttpTypeOK' /\ RunningListens' /\ AnswersMatch'
    BY <2>1, <1>b DEF node, HttpTypeOK, RunningListens, AnswersMatch
  <2>3. OwnSession' /\ DoneIsClosed' /\ RefusalMeansShutdown'
    BY <2>1, <1>a, OneSessionEach
       DEF HttpInv, OwnSession, DoneIsClosed, RefusalMeansShutdown, CoreInv, CoreTypeOK
  <2>4. parent'[r] = r /\ r # None /\ \A q \in Requests \ {r} : parent'[q] = parent[q]
    BY <2>1, <1>a, NoneAssumption, OneSessionEach DEF CoreInv, CoreTypeOK
  <2>5. exchange'[r] = "reading" /\ \A q \in Requests \ {r} : exchange'[q] = exchange[q]
    BY <2>1, <1>b DEF HttpTypeOK
  <2>6. AcceptedIsNew' /\ ReadIsManaged'
    BY <2>1, <2>4, <2>5 DEF HttpInv, AcceptedIsNew, ReadIsManaged, Managed
  <2> QED
    BY <1>a, <2>2, <2>3, <2>6 DEF HttpInv
<1>8. ASSUME NEW r \in Requests, BodyEnd(r) PROVE HttpInv'
  <2>1. /\ UNCHANGED <<core, session, request, attached, node, thrown>>
        /\ exchange[r] = "reading"
        /\ \/ Answer(r, "error")
           \/ exchange' = [exchange EXCEPT ![r] = "waiting"] /\ UNCHANGED answer
        /\ UNCHANGED error \/ \E e \in Errors : ProcessThrows(r, e)
    BY <1>8 DEF BodyEnd, Process, ProcessThrows, coreVars
  <2>2. HttpTypeOK' /\ RunningListens' /\ AnswersMatch'
    BY <2>1, <1>b DEF core, node, Answer, HttpTypeOK, RunningListens, AnswersMatch
  <2>3. \A q \in Requests : exchange'[q] \in {"accepted", "reading"} => exchange'[q] = exchange[q]
    BY <2>1, <1>b DEF Answer, HttpTypeOK
  <2>4. OwnSession' /\ DoneIsClosed' /\ AcceptedIsNew' /\ ReadIsManaged'
    BY <2>1, <2>3 DEF HttpInv, session, request, OwnSession, DoneIsClosed, AcceptedIsNew,
                      ReadIsManaged, Managed
  <2>5. RefusalMeansShutdown'
    <3>1. CASE UNCHANGED error
      BY <2>1, <3>1 DEF HttpInv, RefusalMeansShutdown, session
    <3>2. ASSUME NEW e \in Errors, ProcessThrows(r, e) PROVE RefusalMeansShutdown'
      <4>1. /\ e = IF Refusal(r) = "none" THEN "content" ELSE Refusal(r)
            /\ error' = [error EXCEPT ![r] = e] /\ state' = state
        BY <3>2 DEF ProcessThrows, session
      <4>2. Managed(r)
        BY <2>1 DEF HttpInv, ReadIsManaged
      <4>3. e = "content" \/ (e # "InvalidArgument" /\ state[r] = "invalid")
        BY <4>1, <4>2, RefusedIsClosed
      <4> QED
        BY <4>1, <4>3, <1>a DEF HttpInv, RefusalMeansShutdown, CoreInv, CoreTypeOK
    <3> QED
      BY <2>1, <3>1, <3>2
  <2> QED
    BY <1>a, <2>2, <2>4, <2>5 DEF HttpInv
<1>9. CASE UNCHANGED vars
  <2>1. HttpTypeOK' /\ RunningListens' /\ AnswersMatch'
    BY <1>9, <1>b DEF vars, coreVars, core, node, http, HttpTypeOK, RunningListens, AnswersMatch
  <2>2. UNCHANGED <<session, request, error, exchange>>
    BY <1>9 DEF vars, coreVars, http
  <2> QED
    BY <1>a, <2>1, <2>2, QuietStep DEF HttpInv
<1> QED
  BY <1>1, <1>2, <1>3, <1>4, <1>5, <1>6, <1>7, <1>8, <1>9 DEF Next

LEMMA HttpInvAlways == SafeSpec => []HttpInv
BY HttpInvInit, HttpInvStep, PTL DEF SafeSpec

\* Every variable keeps its type; a running core listens, and answers are sent once.
THEOREM TypeCorrect == SafeSpec => []TypeOK
<1>1. HttpInv => TypeOK
  BY DEF HttpInv, CoreInv, HttpTypeOK, RunningListens, AnswersMatch, TypeOK
<1> QED
  BY <1>1, HttpInvAlways, PTL

\* The core refuses a request of the adapter only if its session has been closed.
THEOREM RefusalMeansShutdownHolds == SafeSpec => []RefusalMeansShutdown
<1>1. HttpInv => RefusalMeansShutdown
  BY DEF HttpInv
<1> QED
  BY <1>1, HttpInvAlways, PTL
================================================================================
