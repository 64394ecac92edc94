-------------------------------- MODULE Adapters --------------------------------
(***************************************************************************)
(* Several adapters on one core: core.js starts and stops them one by one, *)
(* in the order they were added, and whatever one of them throws ends the  *)
(* loop and the core's own operation with it.                              *)
(*                                                                         *)
(* An adapter is seen from the core: what its startup() and shutdown() do, *)
(* when they throw, and whether a session can be had through it.           *)
(* HttpAdapter has the life of HTTP requests; here a 'close' event that is *)
(* awaited may fire at any time.                                           *)
(***************************************************************************)
EXTENDS ServerCore, Naturals, Sequences

CONSTANTS Direct,  \* adapters/direct.js
          Http,    \* adapters/http.js
          Express  \* adapters/express.js

AllAdapters == Direct \cup Http \cup Express

ASSUME KindAssumption == /\ Direct \cap Http = {}
                         /\ Express \cap (Direct \cup Http) = {}

VARIABLES
  list,      \* core.adapters_
  up,        \* the adapters that are started and know the core
  listening, \* the HTTP adapters whose node http server accepts connections
  gone,      \* those whose http_server has been released
  closing,   \* those that await the 'close' event of their http server
  thrown     \* the last startup() or shutdown() of the core threw, or an add_adapter() since

adapters == <<list, up, listening, gone, closing, thrown>>
vars == <<coreVars, adapters>>

Listed == {list[i] : i \in DOMAIN list}

\* An adapter that can do its work (which is none, so far, for express.js).
Serving(a) == a \in up /\ (a \in Http => a \in listening)

AdaptersTypeOK ==
  /\ CoreTypeOK
  /\ list \in Seq(AllAdapters)
  /\ up \subseteq Listed
  /\ listening \subseteq Listed \cap Http
  /\ gone \subseteq Listed \cap Http
  /\ closing \subseteq Listed \cap Http
  /\ thrown \in BOOLEAN

AdaptersInit ==
  /\ CoreInit
  /\ list = <<>>
  /\ up = {} /\ listening = {} /\ gone = {} /\ closing = {}
  /\ thrown = FALSE

--------------------------------------------------------------------------------
(***************************************************************************)
(* The owner of the server.                                                *)
(***************************************************************************)

\* The adapters that a loop over the list calls, when those of T throw.
Called(T) == {list[i] : i \in {i \in DOMAIN list : \A j \in 1..(i - 1) : list[j] \notin T}}

\* startup() of the adapters A: an HTTP adapter is attached to the core before it finds out
\* that it has nothing to listen with, or that it listens already.
Start(A) ==
  /\ up' = up \cup A
  /\ listening' = listening \cup ((A \cap Http) \ gone)

\* core.add_adapter(): a new adapter is started at once if the core is.
AddAdapter(a) ==
  /\ a \notin Listed
  /\ list' = Append(list, a)
  /\ IF started THEN Start({a}) ELSE UNCHANGED <<up, listening>>
  /\ UNCHANGED <<coreVars, gone, closing, thrown>>

\* Those whose startup() throws: an HTTP adapter that has no http server any more, and in
\* some versions of node one that listens already.
StartThrowing == {gone \cup I : I \in SUBSET listening}

\* Mutant of StartAll: a core that is started already has nothing to do.
StartAllOnce ==
  /\ Startup
  /\ \E T \in StartThrowing :
       IF started
       THEN thrown' = FALSE /\ UNCHANGED <<up, listening>>
       ELSE Start(Called(T)) /\ thrown' = (Listed \cap T # {})
  /\ UNCHANGED <<list, gone, closing>>

\* core.startup(): the core is started, again or not, when the adapters are called; a
\* startup that threw half-way, or followed a shutdown that did, may be tried again.
StartAll ==
  /\ Startup
  /\ \E T \in StartThrowing :
       /\ Start(Called(T))
       /\ thrown' = (Listed \cap T # {})
  /\ UNCHANGED <<list, gone, closing>>

\* Those whose shutdown() throws: express.js names a variable that does not exist, an HTTP
\* adapter may have no http server any more, and to close one that does not listen throws
\* in some versions of node and not in others.
Throwing == {Express \cup gone \cup I : I \in SUBSET (Http \ (listening \cup gone))}

\* shutdown() of the adapters A: an HTTP adapter stays attached until 'close'.
Stop(A) ==
  /\ up' = up \ (A \cap Direct)
  /\ listening' = listening \ A
  /\ closing' = closing \cup (A \cap Http)

\* Mutant of StopAll: what an adapter throws is ignored.
StopAllRegardless ==
  /\ Shutdown
  /\ \E T \in Throwing : Stop(Listed \ T)
  /\ thrown' = FALSE
  /\ UNCHANGED <<list, gone>>

\* core.shutdown(): the adapters, then the sessions and the core itself.
StopAll ==
  /\ Shutdown
  /\ \E T \in Throwing : Listed \cap T = {}
  /\ Stop(Listed)
  /\ thrown' = FALSE
  /\ UNCHANGED <<list, gone>>

\* The same when an adapter throws: those before it are stopped, and nothing else.
StopThrows ==
  /\ \E T \in Throwing : Listed \cap T # {} /\ Stop(Called(T) \ T)
  /\ thrown' = TRUE
  /\ UNCHANGED <<coreVars, list, gone>>

--------------------------------------------------------------------------------
(***************************************************************************)
(* Events and requests.                                                    *)
(***************************************************************************)

\* 'close': the http server is released and the adapter detached, restarted or not.
CloseEvent(a) ==
  /\ a \in closing
  /\ closing' = closing \ {a}
  /\ gone' = gone \cup {a}
  /\ up' = up \ {a}
  /\ UNCHANGED <<coreVars, list, listening, thrown>>

\* A session is had through an adapter: new_connection(), or a request by HTTP.
Connect(a, s) ==
  /\ Serving(a) /\ a \notin Express
  /\ CreateSession(s)
  /\ UNCHANGED adapters

\* Everything else that may happen to the core.
Work ==
  /\ \/ Use
     \/ \E s \in Sessions : TerminateSession(s) \/ InvalidateSession(s)
     \/ \E s \in Sessions, r \in Requests : RegisterRequest(s, r) \/ TerminateRequest(s, r)
     \/ \E r \in Requests : RequestDone(r) \/ Process(r)
     \/ \E r \in Requests, e \in Errors : ProcessThrows(r, e)
     \/ \E r \in Requests, how \in {"replied", "failed"} : ChainSettles(r, how)
  /\ UNCHANGED adapters

AdaptersNext ==
  \/ \E a \in AllAdapters : AddAdapter(a) \/ CloseEvent(a)
  \/ StartAll \/ StopAll \/ StopThrows
  \/ \E a \in AllAdapters, s \in Sessions : Connect(a, s)
  \/ Work

AdaptersSpec == AdaptersInit /\ [][AdaptersNext]_vars

--------------------------------------------------------------------------------
(***************************************************************************)
(* What the owner of the server may rely on.                               *)
(***************************************************************************)

\* When the core is stopped nothing comes in any more, whatever startups and shutdowns
\* failed half-way before: no adapter knows the core, except those that wait for 'close'
\* and listen no more (core.js:91-104; "should never happen", direct.js:44-52).
StoppedIsQuiet == ~started => up \subseteq closing /\ listening = {}

\* A startup that returned has started every adapter, whatever startup or shutdown stopped
\* half-way before it, and those added since are started too: each one serves unless its
\* http server was released by the end of an earlier shutdown (core.js:60-62, 84-86).
AllServe == started /\ ~thrown => \A a \in Listed : Serving(a) \/ a \in gone
================================================================================
