--------------------------- MODULE ServerCore_proofs ---------------------------
(***************************************************************************)
(* Theorems about ServerCore, for any sets of sessions and requests, and   *)
(* adapters that call the core in any order.                               *)
(***************************************************************************)
EXTENDS ServerCore, TLAPS

CoreInv ==
  /\ CoreTypeOK
  /\ ValidIsTracked
  /\ StoppedHasNoSession
  /\ OpenRequestIsReachable

LEMMA CoreInvInit == CoreInit => CoreInv
BY DEF CoreInit, CoreInv, CoreTypeOK, ValidIsTracked, StoppedHasNoSession,
       OpenRequestIsReachable, Valid, Managed

\* Invalidating sessions closes their requests and disturbs no other.
LEMMA InvalidateKeeps ==
  ASSUME CoreInv, NEW S \in SUBSET Sessions, Invalidate(S),
         head' \in BOOLEAN, started' \in BOOLEAN, sessions' \subseteq Sessions,
         UNCHANGED <<chain, error>>
  PROVE  /\ CoreTypeOK'
         /\ Valid' = Valid \ S
         /\ OpenRequestIsReachable'
<1> DEFINE R == UNION {current[s] : s \in S}
<1>1. R \subseteq Requests
  BY DEF CoreInv, CoreTypeOK
<1>2. CoreTypeOK'
  BY <1>1 DEF CoreInv, CoreTypeOK, Invalidate, Finish
<1>3. Valid' = Valid \ S
  BY DEF Valid, Invalidate, CoreInv, CoreTypeOK
<1>4. ASSUME NEW r \in Requests, Managed(r)', r \notin isDone'
      PROVE  \E s \in Valid' : parent'[r] = s /\ r \in current'[s]
  <2>1. r \notin R /\ r \notin isDone /\ parent'[r] = parent[r]
    BY <1>4 DEF Invalidate, Finish
  <2>2. Managed(r)
    BY <1>4, <2>1 DEF Managed
  <2>3. PICK s \in Valid : parent[r] = s /\ r \in current[s]
    BY <2>1, <2>2 DEF CoreInv, OpenRequestIsReachable
  <2>4. s \notin S /\ s \in Sessions
    BY <2>1, <2>3 DEF Valid
  <2>5. current'[s] = current[s]
    BY <2>4 DEF Invalidate, CoreInv, CoreTypeOK
  <2> QED
    BY <1>3, <2>1, <2>3, <2>4, <2>5
<1> QED
  BY <1>2, <1>3, <1>4 DEF OpenRequestIsReachable

LEMMA CoreInvStep == CoreInv /\ [CoreNext]_coreVars => CoreInv'
<1> SUFFICES ASSUME CoreInv, [CoreNext]_coreVars PROVE CoreInv'
  OBVIOUS
<1>a. /\ head \in BOOLEAN /\ started \in BOOLEAN /\ sessions \subseteq Sessions
      /\ Valid \subseteq sessions
      /\ ~started => Valid = {}
  BY DEF CoreInv, CoreTypeOK, ValidIsTracked, StoppedHasNoSession
<1>b. ASSUME CoreTypeOK', UNCHANGED <<started, sessions, state>>, OpenRequestIsReachable'
      PROVE  CoreInv'
  BY <1>a, <1>b DEF CoreInv, ValidIsTracked, StoppedHasNoSession, Valid
<1>1. CASE Use
  <2>1. CoreTypeOK' /\ OpenRequestIsReachable'
    BY <1>1 DEF Use, session, request, CoreInv, CoreTypeOK, OpenRequestIsReachable,
                Managed, Valid
  <2> QED
    BY <1>1, <1>b, <2>1 DEF Use, session
<1>2. CASE Startup
  <2>1. /\ CoreTypeOK' /\ OpenRequestIsReachable'
        /\ UNCHANGED <<sessions, Valid>> /\ started'
    BY <1>2 DEF Startup, session, request, CoreInv, CoreTypeOK, OpenRequestIsReachable,
                Managed, Valid
  <2> QED
    BY <1>a, <2>1 DEF CoreInv, ValidIsTracked, StoppedHasNoSession
<1>3. CASE Shutdown
  <2>1. /\ Invalidate(sessions) /\ sessions' = {} /\ started' = FALSE /\ head' = head
        /\ UNCHANGED <<chain, error>>
    BY <1>3 DEF Shutdown
  <2>2. CoreTypeOK' /\ Valid' = Valid \ sessions /\ OpenRequestIsReachable'
    BY <1>a, <2>1, InvalidateKeeps
  <2>3. Valid' = {}
    BY <1>a, <2>2
  <2> QED
    BY <2>2, <2>3 DEF CoreInv, ValidIsTracked, StoppedHasNoSession
<1>4. ASSUME NEW s \in Sessions, CreateSession(s) PROVE CoreInv'
  <2>1. CoreTypeOK'
    BY <1>4 DEF CreateSession, request, CoreInv, CoreTypeOK
  <2>2. Valid' = Valid \cup {s} /\ s \notin Valid
    BY <1>4 DEF CreateSession, Valid, CoreInv, CoreTypeOK
  <2>3. UNCHANGED <<current, parent, isDone>>
    BY <1>4 DEF CreateSession, request
  <2>4. OpenRequestIsReachable'
    BY <2>2, <2>3 DEF CoreInv, OpenRequestIsReachable, Managed
  <2>5. ValidIsTracked' /\ StoppedHasNoSession'
    BY <1>4, <1>a, <2>2 DEF CreateSession, ValidIsTracked, StoppedHasNoSession
  <2> QED
    BY <2>1, <2>4, <2>5 DEF CoreInv
<1>5. ASSUME NEW s \in Sessions, TerminateSession(s) PROVE CoreInv'
  <2>1. /\ Invalidate({s}) /\ head' = head /\ started' = started
        /\ sessions' = {t \in sessions : state'[t] = "valid"}
        /\ UNCHANGED <<chain, error>>
    BY <1>5 DEF TerminateSession
  <2>2. CoreTypeOK' /\ Valid' = Valid \ {s} /\ OpenRequestIsReachable'
    BY <1>a, <2>1, InvalidateKeeps
  <2>3. Valid' \subseteq sessions'
    BY <1>a, <2>1, <2>2 DEF Valid
  <2> QED
    BY <1>a, <2>1, <2>2, <2>3 DEF CoreInv, ValidIsTracked, StoppedHasNoSession
<1>6. ASSUME NEW s \in Sessions, InvalidateSession(s) PROVE CoreInv'
  <2>1. /\ Invalidate({s}) /\ UNCHANGED <<head, started, sessions, chain, error>>
    BY <1>6 DEF InvalidateSession, core
  <2>2. CoreTypeOK' /\ Valid' = Valid \ {s} /\ OpenRequestIsReachable'
    BY <1>a, <2>1, InvalidateKeeps
  <2> QED
    BY <1>a, <2>1, <2>2 DEF CoreInv, ValidIsTracked, StoppedHasNoSession
<1>7. ASSUME NEW s \in Sessions, NEW r \in Requests, RegisterRequest(s, r) PROVE CoreInv'
  <2>1. CoreTypeOK'
    BY <1>7 DEF RegisterRequest, core, CoreInv, CoreTypeOK, Managed
  <2>2. /\ UNCHANGED <<started, sessions, state, isDone>> /\ Valid' = Valid /\ s \in Valid
    BY <1>7 DEF RegisterRequest, core, Valid
  <2>3. /\ parent'[r] = s /\ r \in current'[s]
        /\ \A q \in Requests \ {r} : parent'[q] = parent[q]
        /\ \A t \in Sessions : current[t] \subseteq current'[t]
    BY <1>7 DEF RegisterRequest, CoreInv, CoreTypeOK
  <2>4. ASSUME NEW q \in Requests, Managed(q)', q \notin isDone'
        PROVE  \E t \in Valid' : parent'[q] = t /\ q \in current'[t]
    <3>1. CASE q = r
      BY <2>2, <2>3, <3>1
    <3>2. CASE q # r
      BY <2>2, <2>3, <2>4, <3>2 DEF CoreInv, OpenRequestIsReachable, Managed, Valid
    <3> QED
      BY <3>1, <3>2
  <2> QED
    BY <1>b, <2>1, <2>2, <2>4 DEF OpenRequestIsReachable
<1>8. ASSUME NEW s \in Sessions, NEW r \in Requests, TerminateRequest(s, r) PROVE CoreInv'
  <2>1. CoreTypeOK'
    BY <1>8 DEF TerminateRequest, Finish, core, CoreInv, CoreTypeOK
  <2>2. /\ UNCHANGED <<started, sessions, state>> /\ Valid' = Valid
        /\ isDone' = isDone \cup {r}
        /\ \A q \in Requests \ {r} : parent'[q] = parent[q]
        /\ \A t \in Sessions : \A q \in current[t] : q \in isDone' \/ q \in current'[t]
    BY <1>8 DEF TerminateRequest, Finish, core, Valid, CoreInv, CoreTypeOK
  <2>3. OpenRequestIsReachable'
    BY <2>2 DEF CoreInv, OpenRequestIsReachable, Managed, Valid
  <2> QED
    BY <1>b, <2>1, <2>2, <2>3
<1>9. ASSUME NEW r \in Requests, RequestDone(r) PROVE CoreInv'
  <2>1. CoreTypeOK'
    BY <1>9 DEF RequestDone, Finish, core, session, CoreInv, CoreTypeOK
  <2>2. /\ UNCHANGED <<started, sessions, state, current>> /\ Valid' = Valid
        /\ isDone' = isDone \cup {r}
        /\ \A q \in Requests \ {r} : parent'[q] = parent[q]
    BY <1>9 DEF RequestDone, Finish, core, session, Valid, CoreInv, CoreTypeOK
  <2>3. OpenRequestIsReachable'
    BY <2>2 DEF CoreInv, OpenRequestIsReachable, Managed, Valid
  <2> QED
    BY <1>b, <2>1, <2>2, <2>3
<1>10. ASSUME NEW r \in Requests,
              Process(r) \/ (\E e \in Errors : ProcessThrows(r, e))
                \/ (\E how \in {"replied", "failed"} : ChainSettles(r, how))
       PROVE  CoreInv'
  <2>1. UNCHANGED <<core, session, request>>
    BY <1>10 DEF Process, ProcessThrows, ChainSettles
  <2>2. CoreTypeOK'
    BY <1>10, <2>1 DEF Process, ProcessThrows, ChainSettles, core, session, request,
                       CoreInv, CoreTypeOK
  <2>3. OpenRequestIsReachable'
    BY <2>1 DEF core, session, request, CoreInv, OpenRequestIsReachable, Managed, Valid
  <2> QED
    BY <1>b, <2>1, <2>2, <2>3 DEF core, session
<1>11. CASE UNCHANGED coreVars
  <2>1. CoreTypeOK' /\ OpenRequestIsReachable'
    BY <1>11 DEF coreVars, core, session, request, CoreInv, CoreTypeOK,
                 OpenRequestIsReachable, Managed, Valid
  <2> QED
    BY <1>b, <1>11, <2>1 DEF coreVars, core, session
<1> QED
  BY <1>1, <1>2, <1>3, <1>4, <1>5, <1>6, <1>7, <1>8, <1>9, <1>10, <1>11 DEF CoreNext

LEMMA CoreInvAlways == CoreSpec => []CoreInv
BY CoreInvInit, CoreInvStep, PTL DEF CoreSpec

\* Every variable of the core keeps its type.
THEOREM CoreTypeCorrect == CoreSpec => []CoreTypeOK
<1>1. CoreInv => CoreTypeOK
  BY DEF CoreInv
<1> QED
  BY <1>1, CoreInvAlways, PTL

\* No valid session escapes the core, whoever invalidates or terminates sessions.
THEOREM ValidIsTrackedHolds == CoreSpec => []ValidIsTracked
<1>1. CoreInv => ValidIsTracked
  BY DEF CoreInv
<1> QED
  BY <1>1, CoreInvAlways, PTL

\* A stopped server has no valid session left.
THEOREM StoppedHasNoSessionHolds == CoreSpec => []StoppedHasNoSession
<1>1. CoreInv => StoppedHasNoSession
  BY DEF CoreInv
<1> QED
  BY <1>1, CoreInvAlways, PTL

\* Every open request can be closed through the session it belongs to.
THEOREM OpenRequestIsReachableHolds == CoreSpec => []OpenRequestIsReachable
<1>1. CoreInv => OpenRequestIsReachable
  BY DEF CoreInv
<1> QED
  BY <1>1, CoreInvAlways, PTL

\* Every step that ends the validity of a session empties it.
LEMMA OverIsReleasedStep ==
  ASSUME CoreTypeOK, OverIsReleased, [CoreNext]_coreVars
  PROVE  OverIsReleased'
<1>a. ASSUME NEW S \in SUBSET Sessions, Invalidate(S)
      PROVE  \A s \in Sessions \ Valid' : current'[s] = {}
  <2> SUFFICES ASSUME NEW s \in Sessions, s \notin Valid', s \notin S
               PROVE  current'[s] = {}
    BY <1>a DEF Invalidate
  <2>1. s \notin Valid /\ current'[s] = current[s]
    BY <1>a DEF Invalidate, Valid
  <2> QED
    BY <2>1 DEF OverIsReleased
<1>b. ASSUME UNCHANGED <<started, sessions>>,
             \A s \in Sessions \ Valid' : s \notin Valid /\ current'[s] = current[s]
      PROVE  OverIsReleased'
  BY <1>b DEF OverIsReleased
<1>1. CASE Use \/ Startup
  BY <1>1 DEF Use, Startup, session, OverIsReleased, Valid
<1>2. CASE Shutdown
  BY <1>2, <1>a DEF Shutdown, OverIsReleased, CoreTypeOK
<1>3. ASSUME NEW s \in Sessions, CreateSession(s) PROVE OverIsReleased'
  BY <1>3 DEF CreateSession, OverIsReleased, Valid, CoreTypeOK
<1>4. ASSUME NEW s \in Sessions, TerminateSession(s) \/ InvalidateSession(s)
      PROVE  OverIsReleased'
  <2>1. Invalidate({s}) /\ sessions' \subseteq sessions /\ UNCHANGED started
    BY <1>4 DEF TerminateSession, InvalidateSession, core
  <2> QED
    BY <1>a, <2>1 DEF OverIsReleased
<1>5. ASSUME NEW s \in Sessions, NEW r \in Requests, RegisterRequest(s, r)
      PROVE  OverIsReleased'
  <2>1. \A t \in Sessions \ Valid' : t \notin Valid /\ t # s
    BY <1>5 DEF RegisterRequest, Valid
  <2> QED
    BY <1>5, <1>b, <2>1 DEF RegisterRequest, core, CoreTypeOK
<1>6. ASSUME NEW s \in Sessions, NEW r \in Requests, TerminateRequest(s, r)
      PROVE  OverIsReleased'
  <2>1. UNCHANGED <<started, sessions, Valid>>
    BY <1>6 DEF TerminateRequest, core, Valid
  <2>2. \A t \in Sessions : current'[t] \subseteq current[t]
    BY <1>6 DEF TerminateRequest, CoreTypeOK
  <2> QED
    BY <2>1, <2>2 DEF OverIsReleased
<1>7. ASSUME UNCHANGED <<core, session>> PROVE OverIsReleased'
  BY <1>7 DEF core, session, OverIsReleased, Valid
<1>8. ASSUME NEW r \in Requests,
             \/ RequestDone(r) \/ Process(r)
             \/ \E e \in Errors : ProcessThrows(r, e)
             \/ \E how \in {"replied", "failed"} : ChainSettles(r, how)
      PROVE  OverIsReleased'
  BY <1>7, <1>8 DEF RequestDone, Process, ProcessThrows, ChainSettles
<1>9. CASE UNCHANGED coreVars
  BY <1>7, <1>9 DEF coreVars
<1> QED
  BY <1>1, <1>2, <1>3, <1>4, <1>5, <1>6, <1>8, <1>9 DEF CoreNext

\* Closed sessions hold no request, and a stopped core no session.
THEOREM OverIsReleasedHolds == CoreSpec => []OverIsReleased
<1>1. CoreInit => OverIsReleased
  BY DEF CoreInit, OverIsReleased
<1>2. CoreInv => CoreTypeOK
  BY DEF CoreInv
<1> QED
  BY <1>1, <1>2, CoreInvAlways, OverIsReleasedStep, PTL DEF CoreSpec
================================================================================
