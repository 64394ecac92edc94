---------------------------- MODULE Adapters_proofs ----------------------------
(***************************************************************************)
(* Theorems about Adapters, for any adapters added in any order.           *)
(*                                                                         *)
(* The invariant joins that of the core to what the owner may rely on; the *)
(* steps of the core are left to ServerCore_proofs.                        *)
(***************************************************************************)
EXTENDS Adapters, ServerCore_proofs

AdaptersInv ==
  /\ CoreInv
  /\ AdaptersTypeOK
  /\ StoppedIsQuiet
  /\ AllServe

LEMMA AdaptersInvInit == AdaptersInit => AdaptersInv
<1> SUFFICES ASSUME AdaptersInit PROVE AdaptersInv
  OBVIOUS
<1>1. CoreInv
  BY CoreInvInit DEF AdaptersInit
<1>2. CoreTypeOK
  BY <1>1 DEF CoreInv
<1>3. started = FALSE
  BY DEF AdaptersInit, CoreInit
<1>4. /\ list = <<>> /\ list \in Seq(AllAdapters)
      /\ up = {} /\ listening = {} /\ gone = {} /\ closing = {} /\ thrown = FALSE
  BY DEF AdaptersInit
<1> QED
  BY <1>1, <1>2, <1>3, <1>4 DEF AdaptersInv, AdaptersTypeOK, StoppedIsQuiet, AllServe

\* Work is that of the core, and neither starts nor stops it.
LEMMA WorkIsOfCore == Work => CoreNext /\ started' = started /\ UNCHANGED adapters
<1> SUFFICES ASSUME Work PROVE CoreNext /\ started' = started /\ UNCHANGED adapters
  OBVIOUS
<1>1. CoreNext /\ UNCHANGED adapters
  BY DEF Work, CoreNext
<1>2. started' = started
  BY DEF Work, Use, TerminateSession, InvalidateSession, RegisterRequest, TerminateRequest,
         RequestDone, Process, ProcessThrows, ChainSettles, core
<1> QED
  BY <1>1, <1>2

LEMMA StepOfCore == [AdaptersNext]_vars => [CoreNext]_coreVars
<1> SUFFICES ASSUME [AdaptersNext]_vars PROVE [CoreNext]_coreVars
  OBVIOUS
<1>1. CASE \E a \in AllAdapters : AddAdapter(a) \/ CloseEvent(a)
  BY <1>1 DEF AddAdapter, CloseEvent
<1>2. CASE StartAll \/ StopAll \/ StopThrows
  BY <1>2 DEF StartAll, StopAll, StopThrows, CoreNext
<1>3. CASE \E a \in AllAdapters, s \in Sessions : Connect(a, s)
  BY <1>3 DEF Connect, CoreNext
<1>4. CASE Work
  BY <1>4, WorkIsOfCore
<1>5. CASE UNCHANGED vars
  BY <1>5 DEF vars
<1> QED
  BY <1>1, <1>2, <1>3, <1>4, <1>5 DEF AdaptersNext

LEMMA AppendLists ==
  ASSUME AdaptersTypeOK, NEW a \in AllAdapters, list' = Append(list, a)
  PROVE  list' \in Seq(AllAdapters) /\ Listed' = Listed \cup {a}
BY DEF AdaptersTypeOK, Listed

LEMMA CalledAreListed == \A T : Called(T) \subseteq Listed
BY DEF Called, Listed

\* When none of those that would throw is listed, the loop calls them all.
LEMMA AllCalled ==
  ASSUME NEW T, list \in Seq(AllAdapters), Listed \cap T = {}
  PROVE  Called(T) = Listed
<1>1. \A i \in DOMAIN list : \A j \in 1..(i - 1) : j \in DOMAIN list
  OBVIOUS
<1> QED
  BY <1>1 DEF Called, Listed

LEMMA AdaptersInvStep == AdaptersInv /\ [AdaptersNext]_vars => AdaptersInv'
<1> SUFFICES ASSUME AdaptersInv, [AdaptersNext]_vars PROVE AdaptersInv'
  OBVIOUS
<1>a. CoreInv'
  BY StepOfCore, CoreInvStep DEF AdaptersInv
<1>b. CoreTypeOK'
  BY <1>a DEF CoreInv
<1>c. /\ list \in Seq(AllAdapters) /\ up \subseteq Listed /\ listening \subseteq Listed \cap Http
      /\ gone \subseteq Listed \cap Http /\ closing \subseteq Listed \cap Http
      /\ thrown \in BOOLEAN
  BY DEF AdaptersInv, AdaptersTypeOK
<1>d. /\ ~started => up \subseteq closing /\ listening = {}
      /\ started /\ ~thrown => \A a \in Listed : (a \in up /\ (a \in Http => a \in listening)) \/ a \in gone
  BY DEF AdaptersInv, StoppedIsQuiet, AllServe, Serving
<1>e. ASSUME list' = list PROVE Listed' = Listed
  BY <1>e DEF Listed
<1> DEFINE Typed == /\ list' \in Seq(AllAdapters) /\ up' \subseteq Listed'
                    /\ listening' \subseteq Listed' \cap Http
                    /\ gone' \subseteq Listed' \cap Http /\ closing' \subseteq Listed' \cap Http
                    /\ thrown' \in BOOLEAN
           Quiet == ~started' => up' \subseteq closing' /\ listening' = {}
           Served == started' /\ ~thrown' =>
                       \A a \in Listed' : (a \in up' /\ (a \in Http => a \in listening')) \/ a \in gone'
<1>f. ASSUME Typed, Quiet, Served PROVE AdaptersInv'
  BY <1>a, <1>b, <1>f DEF AdaptersInv, AdaptersTypeOK, StoppedIsQuiet, AllServe, Serving
<1>1. ASSUME NEW a \in AllAdapters, AddAdapter(a) PROVE AdaptersInv'
  <2>1. list' \in Seq(AllAdapters) /\ Listed' = Listed \cup {a} /\ a \notin Listed
    BY <1>1, AppendLists DEF AddAdapter, AdaptersInv
  <2>2. UNCHANGED <<started, gone, closing, thrown>>
    BY <1>1 DEF AddAdapter, coreVars, core
  <2>3. CASE started
    <3>1. up' = up \cup {a} /\ listening' = listening \cup (({a} \cap Http) \ gone)
      BY <1>1, <2>3 DEF AddAdapter, Start
    <3> QED
      BY <1>c, <1>d, <1>f, <2>1, <2>2, <2>3, <3>1
  <2>4. CASE ~started
    <3>1. UNCHANGED <<up, listening>>
      BY <1>1, <2>4 DEF AddAdapter
    <3> QED
      BY <1>c, <1>d, <1>f, <2>1, <2>2, <2>4, <3>1
  <2> QED
    BY <2>3, <2>4
<1>2. ASSUME NEW a \in AllAdapters, CloseEvent(a) PROVE AdaptersInv'
  BY <1>2, <1>c, <1>d, <1>e, <1>f DEF CloseEvent, coreVars, core
<1>3. CASE StartAll
  <2>1. /\ started' /\ Listed' = Listed /\ UNCHANGED <<list, gone, closing>>
    BY <1>3, <1>e DEF StartAll, Startup
  <2>2. PICK T \in StartThrowing : Start(Called(T)) /\ thrown' = (Listed \cap T # {})
    BY <1>3 DEF StartAll
  <2>3. gone \subseteq T
    BY <2>2 DEF StartThrowing
  <2>4. /\ up' = up \cup Called(T)
        /\ listening' = listening \cup ((Called(T) \cap Http) \ gone)
    BY <2>2 DEF Start
  <2>5. Typed
    BY <1>c, <2>1, <2>2, <2>4, CalledAreListed
  <2>6. Served
    <3> SUFFICES ASSUME ~thrown' PROVE Served
      OBVIOUS
    <3>1. Called(T) = Listed
      BY <1>c, <2>2, AllCalled
    <3> QED
      BY <2>1, <2>4, <3>1
  <2> QED
    BY <1>f, <2>1, <2>5, <2>6
<1>4. CASE StopAll
  <2>1. /\ ~started' /\ Listed' = Listed /\ UNCHANGED <<list, gone>> /\ thrown' = FALSE
        /\ up' = up \ (Listed \cap Direct)
        /\ listening' = listening \ Listed
        /\ closing' = closing \cup (Listed \cap Http)
    BY <1>4, <1>e DEF StopAll, Shutdown, Stop
  <2>2. Listed \cap Express = {}
    BY <1>4 DEF StopAll, Throwing
  <2>3. Listed \subseteq AllAdapters
    BY <1>c DEF Listed
  <2> QED
    BY <1>c, <1>f, <2>1, <2>2, <2>3 DEF AllAdapters
<1>5. CASE StopThrows
  <2>1. PICK T \in Throwing : Stop(Called(T) \ T)
    BY <1>5 DEF StopThrows
  <2>2. /\ started' = started /\ thrown' = TRUE
        /\ Listed' = Listed /\ UNCHANGED <<list, gone>>
    BY <1>5, <1>e DEF StopThrows, coreVars, core
  <2> QED
    BY <1>c, <1>d, <1>f, <2>1, <2>2, CalledAreListed DEF Stop
<1>6. CASE \E a \in AllAdapters, s \in Sessions : Connect(a, s)
  BY <1>6, <1>c, <1>d, <1>e, <1>f DEF Connect, CreateSession, adapters
<1>7. CASE Work \/ UNCHANGED vars
  <2>1. started' = started /\ UNCHANGED adapters
    BY <1>7, WorkIsOfCore DEF vars, coreVars, core
  <2> QED
    BY <1>c, <1>d, <1>e, <1>f, <2>1 DEF adapters
<1> QED
  BY <1>1, <1>2, <1>3, <1>4, <1>5, <1>6, <1>7 DEF AdaptersNext

LEMMA AdaptersInvAlways == AdaptersSpec => []AdaptersInv
BY AdaptersInvInit, AdaptersInvStep, PTL DEF AdaptersSpec

\* Every variable of the adapters keeps its type.
THEOREM AdaptersTypeCorrect == AdaptersSpec => []AdaptersTypeOK
<1>1. AdaptersInv => AdaptersTypeOK
  BY DEF AdaptersInv
<1> QED
  BY <1>1, AdaptersInvAlways, PTL

\* A stopped core has no adapter that lets anything in.
THEOREM StoppedIsQuietHolds == AdaptersSpec => []StoppedIsQuiet
<1>1. AdaptersInv => StoppedIsQuiet
  BY DEF AdaptersInv
<1> QED
  BY <1>1, AdaptersInvAlways, PTL

\* After a startup that returned every adapter serves, unless its http server is gone.
THEOREM AllServeHolds == AdaptersSpec => []AllServe
<1>1. AdaptersInv => AllServe
  BY DEF AdaptersInv
<1> QED
  BY <1>1, AdaptersInvAlways, PTL
================================================================================
