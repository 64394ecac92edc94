-------------------------- MODULE DirectServer_proofs --------------------------
(***************************************************************************)
(* Theorems about DirectServer, for any sets of clients and requests: it   *)
(* uses the core as ServerCore lets an adapter do, and so inherits the     *)
(* invariant proved in ServerCore_proofs, on which its own rests.          *)
(***************************************************************************)
EXTENDS DirectServer, ServerCore_proofs

\* The types of the variables that DirectServer adds.
DirectTypeOK ==
  /\ client \in [Sessions -> {"none", "connected", "disconnected"}]
  /\ promise \in [Requests -> {"none", "pending", "answered", "resolved", "rejected"}]
  /\ turn \in Requests \cup {None}

\* A call between its registration and the core's checks has an open request.
TurnIsOpen == turn # None => promise[turn] = "pending" /\ parent[turn] # None

\* Marking the request as done comes before resolving the client's promise.
AnsweredIsDone == \A r \in Requests : promise[r] \in {"answered", "resolved"} => r \in isDone

DirectInv ==
  /\ CoreInv
  /\ DirectTypeOK
  /\ TurnIsOpen
  /\ GoneClientOwnsNothing
  /\ ChecksAgree
  /\ AnsweredIsDone

LEMMA DirectInvInit == Init => DirectInv
<1> SUFFICES ASSUME Init PROVE DirectInv
  OBVIOUS
<1>1. CoreInv
  BY CoreInvInit DEF Init
<1>2. DirectTypeOK /\ TurnIsOpen
  BY DEF Init, DirectTypeOK, TurnIsOpen
<1>3. GoneClientOwnsNothing
  BY NoneAssumption DEF Init, CoreInit, GoneClientOwnsNothing
<1>4. ChecksAgree /\ AnsweredIsDone
  BY DEF Init, CoreInit, ChecksAgree, AnsweredIsDone
<1> QED
  BY <1>1, <1>2, <1>3, <1>4 DEF DirectInv

\* Every step of the direct server is one of the core, or none.
LEMMA StepIsCoreStep ==
  ASSUME DirectInv, [Next]_vars PROVE [CoreNext]_coreVars
<1>1. CASE Manage
  BY <1>1 DEF Manage, CoreNext
<1>2. ASSUME NEW c \in Sessions, OpenConnection(c) \/ Disconnect(c)
      PROVE  CoreNext
  BY <1>2 DEF OpenConnection, Disconnect, CoreNext
<1>3. ASSUME NEW c \in Sessions, NEW r \in Requests, Call(c, r)
      PROVE  CoreNext
  BY <1>3 DEF Call, CoreNext
<1>4. ASSUME NEW c \in Sessions, NEW r \in Requests, NEW badContent \in BOOLEAN,
             CallRejected(c, r, badContent)
      PROVE  UNCHANGED coreVars
  BY <1>4 DEF CallRejected
<1>5. CASE CallCore
  <2>1. turn \in Requests
    BY <1>5 DEF CallCore, DirectInv, DirectTypeOK
  <2> QED
    BY <1>5, <2>1 DEF CallCore, CoreNext
<1>6. ASSUME NEW r \in Requests, Settle(r) \/ Answer(r)
      PROVE  CoreNext
  BY <1>6 DEF Settle, Answer, CoreNext
<1>7. ASSUME NEW r \in Requests, Deliver(r) \/ DeliverFailure(r)
      PROVE  UNCHANGED coreVars
  BY <1>7 DEF Deliver, DeliverFailure
<1>8. CASE UNCHANGED vars
  BY <1>8 DEF vars
<1> QED
  BY <1>1, <1>2, <1>3, <1>4, <1>5, <1>6, <1>7, <1>8 DEF Next

\* What the server sees when it checks the request of a call: nothing to refuse.
LEMMA NothingToRefuse ==
  ASSUME DirectInv, turn # None PROVE Refusal(turn) = "none"
<1>1. turn \in Requests /\ parent[turn] # None
  BY DEF DirectInv, DirectTypeOK, TurnIsOpen
<1>2. Managed(turn) /\ turn \notin isDone
  BY <1>1 DEF Managed, DirectInv, CoreInv, CoreTypeOK
<1>3. PICK s \in Valid : parent[turn] = s
  BY <1>1, <1>2 DEF DirectInv, CoreInv, OpenRequestIsReachable
<1>4. started /\ state[s] = "valid"
  BY <1>3 DEF Valid, DirectInv, CoreInv, StoppedHasNoSession, CoreTypeOK
<1> QED
  BY <1>1, <1>2, <1>3, <1>4 DEF Refusal

\* Invalidating a session leaves no open request in it, and only closes requests.
LEMMA InvalidateEmpties ==
  ASSUME CoreInv, NEW S \in SUBSET Sessions, Invalidate(S)
  PROVE  /\ \A r \in Requests : parent'[r] = parent[r] \/ parent'[r] = None
         /\ \A r \in Requests : parent'[r] \notin S
         /\ isDone \subseteq isDone'
<1>1. \A r \in Requests : parent'[r] = IF r \in UNION {current[s] : s \in S} THEN None
                                       ELSE parent[r]
  BY DEF Invalidate, Finish
<1>2. ASSUME NEW r \in Requests, parent'[r] \in S PROVE FALSE
  <2>1. parent[r] \in S /\ parent[r] # None /\ r \notin UNION {current[s] : s \in S}
    BY <1>1, <1>2, NoneAssumption
  <2>2. Managed(r) /\ r \notin isDone
    BY <2>1 DEF Managed, CoreInv, CoreTypeOK
  <2>3. r \in current[parent[r]]
    BY <2>2 DEF CoreInv, OpenRequestIsReachable
  <2> QED
    BY <2>1, <2>3
<1> QED
  BY <1>1, <1>2 DEF Invalidate, Finish

LEMMA DirectInvStep == DirectInv /\ [Next]_vars => DirectInv'
<1> SUFFICES ASSUME DirectInv, [Next]_vars PROVE DirectInv'
  OBVIOUS
<1>a. CoreInv' /\ CoreInv
  BY StepIsCoreStep, CoreInvStep DEF DirectInv
<1>b. /\ client \in [Sessions -> {"none", "connected", "disconnected"}]
      /\ promise \in [Requests -> {"none", "pending", "answered", "resolved", "rejected"}]
      /\ turn \in Requests \cup {None}
      /\ parent \in [Requests -> Sessions \cup {None}]
      /\ parent' \in [Requests -> Sessions \cup {None}]
      /\ error \in [Requests -> Errors \cup {"none"}]
  BY <1>a DEF DirectInv, DirectTypeOK, CoreInv, CoreTypeOK
<1>c. /\ TurnIsOpen /\ GoneClientOwnsNothing /\ ChecksAgree /\ AnsweredIsDone
  BY DEF DirectInv
\* Most steps only close requests, and do not touch the clients.
<1>d. ASSUME turn = None, UNCHANGED <<client, promise, turn, error>>,
             \A r \in Requests : parent'[r] = parent[r] \/ parent'[r] = None,
             isDone \subseteq isDone'
      PROVE  DirectInv'
  <2>1. GoneClientOwnsNothing'
    BY <1>c, <1>d, NoneAssumption DEF GoneClientOwnsNothing
  <2>2. DirectTypeOK' /\ TurnIsOpen' /\ ChecksAgree' /\ AnsweredIsDone'
    BY <1>b, <1>c, <1>d DEF DirectTypeOK, TurnIsOpen, ChecksAgree, AnsweredIsDone
  <2> QED
    BY <1>a, <2>1, <2>2 DEF DirectInv
<1>1. CASE Manage
  <2>1. CASE Shutdown
    <3>1. Invalidate(sessions) /\ sessions \in SUBSET Sessions /\ error' = error
      BY <2>1, <1>a DEF Shutdown, CoreInv, CoreTypeOK
    <3> QED
      BY <1>1, <1>a, <1>d, <3>1, InvalidateEmpties DEF Manage, direct
  <2>2. CASE Use \/ Startup
    BY <1>1, <1>d, <2>2 DEF Manage, direct, Use, Startup, request
  <2> QED
    BY <1>1, <2>1, <2>2 DEF Manage
<1>2. ASSUME NEW c \in Sessions, OpenConnection(c) PROVE DirectInv'
  <2>1. /\ turn = None /\ UNCHANGED <<parent, isDone, promise, turn, error>>
        /\ client' = [client EXCEPT ![c] = "connected"]
    BY <1>2 DEF OpenConnection, CreateSession, request
  <2>2. DirectTypeOK' /\ TurnIsOpen' /\ ChecksAgree' /\ AnsweredIsDone'
    BY <1>b, <1>c, <2>1 DEF DirectTypeOK, TurnIsOpen, ChecksAgree, AnsweredIsDone
  <2>3. GoneClientOwnsNothing'
    BY <1>b, <1>c, <2>1 DEF GoneClientOwnsNothing
  <2> QED
    BY <1>a, <2>2, <2>3 DEF DirectInv
<1>3. ASSUME NEW c \in Sessions, Disconnect(c) PROVE DirectInv'
  <2>1. /\ turn = None /\ UNCHANGED <<promise, turn, error>> /\ Invalidate({c})
        /\ client' = [client EXCEPT ![c] = "disconnected"]
    BY <1>3 DEF Disconnect, InvalidateSession
  <2>2. /\ \A r \in Requests : parent'[r] = parent[r] \/ parent'[r] = None
        /\ \A r \in Requests : parent'[r] # c
        /\ isDone \subseteq isDone'
    BY <1>a, <2>1, InvalidateEmpties
  <2>3. DirectTypeOK' /\ TurnIsOpen' /\ ChecksAgree' /\ AnsweredIsDone'
    BY <1>b, <1>c, <2>1, <2>2 DEF DirectTypeOK, TurnIsOpen, ChecksAgree, AnsweredIsDone
  <2>4. GoneClientOwnsNothing'
    BY <1>b, <1>c, <2>1, <2>2, NoneAssumption DEF GoneClientOwnsNothing
  <2> QED
    BY <1>a, <2>3, <2>4 DEF DirectInv
<1>4. ASSUME NEW c \in Sessions, NEW r \in Requests, Call(c, r) PROVE DirectInv'
  <2>1. /\ turn' = r /\ UNCHANGED <<client, isDone, error>>
        /\ client[c] = "connected"
        /\ parent' = [parent EXCEPT ![r] = c]
        /\ promise' = [promise EXCEPT ![r] = "pending"]
    BY <1>4 DEF Call, RegisterRequest
  <2>2. DirectTypeOK' /\ TurnIsOpen' /\ ChecksAgree'
    BY <1>b, <1>c, <2>1, NoneAssumption DEF DirectTypeOK, TurnIsOpen, ChecksAgree
  <2>3. AnsweredIsDone'
    BY <1>b, <1>c, <2>1 DEF AnsweredIsDone
  <2>4. GoneClientOwnsNothing'
    BY <1>b, <1>c, <2>1 DEF GoneClientOwnsNothing
  <2> QED
    BY <1>a, <2>2, <2>3, <2>4 DEF DirectInv
<1>5. ASSUME NEW r \in Requests, turn = None,
             UNCHANGED <<coreVars, client, turn>>,
             \/ promise' = [promise EXCEPT ![r] = "rejected"]
             \/ promise' = [promise EXCEPT ![r] = "resolved"] /\ promise[r] = "answered"
      PROVE  DirectInv'
  <2>1. UNCHANGED <<parent, isDone, error>>
    BY <1>5 DEF coreVars, request
  <2>2. DirectTypeOK' /\ TurnIsOpen' /\ ChecksAgree' /\ GoneClientOwnsNothing'
    BY <1>b, <1>c, <1>5, <2>1
       DEF DirectTypeOK, TurnIsOpen, ChecksAgree, GoneClientOwnsNothing
  <2>3. AnsweredIsDone'
    BY <1>b, <1>c, <1>5, <2>1 DEF AnsweredIsDone
  <2> QED
    BY <1>a, <2>2, <2>3 DEF DirectInv
<1>6. CASE CallCore
  <2>1. turn # None /\ turn' = None /\ turn \in Requests /\ Refusal(turn) = "none"
    BY <1>6, <1>b, NothingToRefuse DEF CallCore
  <2>2. /\ UNCHANGED <<client, parent, isDone>>
        /\ \/ UNCHANGED <<promise, error>>
           \/ /\ promise' = [promise EXCEPT ![turn] = "rejected"]
              /\ error' = [error EXCEPT ![turn] = "content"]
    BY <1>6, <2>1 DEF CallCore, Process, ProcessThrows, request
  <2>3. DirectTypeOK' /\ TurnIsOpen' /\ GoneClientOwnsNothing'
    BY <1>b, <1>c, <2>1, <2>2 DEF DirectTypeOK, TurnIsOpen, GoneClientOwnsNothing
  <2>4. ChecksAgree' /\ AnsweredIsDone'
    BY <1>b, <1>c, <2>1, <2>2 DEF ChecksAgree, AnsweredIsDone
  <2> QED
    BY <1>a, <2>3, <2>4 DEF DirectInv
<1>7. ASSUME NEW r \in Requests, Settle(r) PROVE DirectInv'
  BY <1>7, <1>d DEF Settle, ChainSettles, direct, request
<1>8. ASSUME NEW r \in Requests, Answer(r) PROVE DirectInv'
  <2>1. /\ turn = None /\ UNCHANGED <<client, turn, error>>
        /\ isDone' = isDone \cup {r}
        /\ parent' = [q \in Requests |-> IF q \in {r} THEN None ELSE parent[q]]
        /\ promise' = [promise EXCEPT ![r] = "answered"]
    BY <1>8 DEF Answer, RequestDone, Finish
  <2>2. DirectTypeOK' /\ TurnIsOpen' /\ ChecksAgree' /\ AnsweredIsDone'
    BY <1>b, <1>c, <2>1 DEF DirectTypeOK, TurnIsOpen, ChecksAgree, AnsweredIsDone
  <2>3. GoneClientOwnsNothing'
    BY <1>c, <2>1, NoneAssumption DEF GoneClientOwnsNothing
  <2> QED
    BY <1>a, <2>2, <2>3 DEF DirectInv
<1>9. ASSUME NEW r \in Requests, Deliver(r) PROVE DirectInv'
  BY <1>9, <1>5 DEF Deliver
<1>10. ASSUME NEW r \in Requests, DeliverFailure(r) PROVE DirectInv'
  BY <1>10, <1>5 DEF DeliverFailure
<1>11. ASSUME NEW c \in Sessions, NEW r \in Requests, NEW badContent \in BOOLEAN,
              CallRejected(c, r, badContent)
       PROVE  DirectInv'
  BY <1>11, <1>5 DEF CallRejected
<1>12. CASE UNCHANGED vars
  BY <1>12, <1>a, <1>b, <1>c
     DEF vars, direct, coreVars, request, DirectInv, DirectTypeOK, TurnIsOpen,
         GoneClientOwnsNothing, ChecksAgree, AnsweredIsDone
<1> QED
  BY <1>1, <1>2, <1>3, <1>4, <1>6, <1>7, <1>8, <1>9, <1>10, <1>11, <1>12 DEF Next

LEMMA DirectInvAlways == SafeSpec => []DirectInv
BY DirectInvInit, DirectInvStep, PTL DEF SafeSpec

\* Every variable keeps its type, and the call being executed is pending.
THEOREM TypeCorrect == SafeSpec => []TypeOK
<1>1. DirectInv => TypeOK
  BY DEF DirectInv, CoreInv, DirectTypeOK, TurnIsOpen, TypeOK
<1> QED
  BY <1>1, DirectInvAlways, PTL

\* Disconnecting closes whatever the client had in flight.
THEOREM GoneClientOwnsNothingHolds == SafeSpec => []GoneClientOwnsNothing
<1>1. DirectInv => GoneClientOwnsNothing
  BY DEF DirectInv
<1> QED
  BY <1>1, DirectInvAlways, PTL

\* A call that registers its request is never refused for its session.
THEOREM ChecksAgreeHolds == SafeSpec => []ChecksAgree
<1>1. DirectInv => ChecksAgree
  BY DEF DirectInv
<1> QED
  BY <1>1, DirectInvAlways, PTL

\* A resolved promise is that of a request which is done.
THEOREM ResolvedIsDoneHolds == SafeSpec => []ResolvedIsDone
<1>1. DirectInv => ResolvedIsDone
  BY DEF DirectInv, AnsweredIsDone, ResolvedIsDone
<1> QED
  BY <1>1, DirectInvAlways, PTL
================================================================================
