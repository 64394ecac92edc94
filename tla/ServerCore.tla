------------------------------ MODULE ServerCore ------------------------------
(***************************************************************************)
(* The server core and its sessions: server/core.js, server/session.js.    *)
(*                                                                         *)
(* The operations are those an adapter, or the owner of the server, may    *)
(* call; here they are called in any order (DirectServer restricts them to *)
(* what the direct adapter does).  The middleware chain is seen from       *)
(* outside: a request put in it leaves it replied or failed, some time     *)
(* later (MiddlewareChain says why it leaves).                             *)
(***************************************************************************)
EXTENDS FiniteSets

CONSTANTS Sessions,  \* the session objects that may be created
          Requests,  \* the request objects
          None       \* JavaScript's undefined

ASSUME NoneAssumption == None \notin Sessions

VARIABLES
  head,      \* core.head_middleware_ is set
  started,   \* core.is_started()
  sessions,  \* core.sessions_, a list of which the order never matters
  state,     \* of each session: not created yet, or what is_valid() says
  current,   \* session.current_requests_
  parent,    \* request.session_infos_.parent_session
  isDone,    \* the requests whose session_infos_.is_done is true
  chain,     \* where each request is with respect to the middleware chain
  error      \* what core.process_request() threw on each request

core    == <<head, started, sessions>>
session == <<state, current>>
request == <<parent, isDone>>
coreVars == <<core, session, request, chain, error>>

\* request.hasOwnProperty('session_infos_'): it was registered one day.
Managed(r) == parent[r] # None \/ r \in isDone

Valid == {s \in Sessions : state[s] = "valid"}

Errors == {"IllegalState", "InvalidArgument", "TypeError", "content"}

CoreTypeOK ==
  /\ head \in BOOLEAN
  /\ started \in BOOLEAN
  /\ sessions \subseteq Sessions
  /\ state \in [Sessions -> {"none", "valid", "invalid"}]
  /\ current \in [Sessions -> SUBSET Requests]
  /\ parent \in [Requests -> Sessions \cup {None}]
  /\ isDone \subseteq Requests
  /\ \A r \in isDone : parent[r] = None
  /\ chain \in [Requests -> {"out", "in", "replied", "failed"}]
  /\ error \in [Requests -> Errors \cup {"none"}]

CoreInit ==
  /\ head = FALSE
  /\ started = FALSE
  /\ sessions = {}
  /\ state = [s \in Sessions |-> "none"]
  /\ current = [s \in Sessions |-> {}]
  /\ parent = [r \in Requests |-> None]
  /\ isDone = {}
  /\ chain = [r \in Requests |-> "out"]
  /\ error = [r \in Requests |-> "none"]

--------------------------------------------------------------------------------
(***************************************************************************)
(* What happens to sessions and requests.                                  *)
(***************************************************************************)

\* request.done() on each of the requests R.
Finish(R) ==
  /\ isDone' = isDone \cup R
  /\ parent' = [r \in Requests |-> IF r \in R THEN None ELSE parent[r]]

\* Mutant of Invalidate: the pending requests are forgotten instead of finished.
InvalidateForgetting(S) ==
  /\ state' = [s \in Sessions |-> IF s \in S THEN "invalid" ELSE state[s]]
  /\ current' = [s \in Sessions |-> IF s \in S THEN {} ELSE current[s]]
  /\ UNCHANGED request

\* Mutant of Invalidate: the list of requests is kept.
InvalidateKeeping(S) ==
  /\ state' = [s \in Sessions |-> IF s \in S THEN "invalid" ELSE state[s]]
  /\ Finish(UNION {current[s] : s \in S})
  /\ UNCHANGED current

\* session.invalidate() on each of the sessions S; the session's reference to the
\* server goes with its validity.
Invalidate(S) ==
  /\ state' = [s \in Sessions |-> IF s \in S THEN "invalid" ELSE state[s]]
  /\ Finish(UNION {current[s] : s \in S})
  /\ current' = [s \in Sessions |-> IF s \in S THEN {} ELSE current[s]]

--------------------------------------------------------------------------------
(***************************************************************************)
(* The operations of the core.                                             *)
(***************************************************************************)

\* core.use() of a first middleware; the next ones only lengthen the chain.
Use ==
  /\ ~head
  /\ head' = TRUE
  /\ UNCHANGED <<started, sessions, session, request, chain, error>>

\* core.startup(), which throws when there is no middleware.  Nothing asks whether the
\* core is started already: that only matters to its adapters.
Startup ==
  /\ head
  /\ started' = TRUE
  /\ UNCHANGED <<head, sessions, session, request, chain, error>>

\* Mutant of Shutdown: the sessions are dropped without being invalidated.
ShutdownKeepingSessions ==
  /\ sessions' = {}
  /\ started' = FALSE
  /\ UNCHANGED <<head, session, request, chain, error>>

\* core.shutdown(), started or not.
Shutdown ==
  /\ Invalidate(sessions)
  /\ sessions' = {}
  /\ started' = FALSE
  /\ UNCHANGED <<head, chain, error>>

\* core.create_session(), which throws when the server is stopped.
CreateSession(s) ==
  /\ started
  /\ state[s] = "none"
  /\ state' = [state EXCEPT ![s] = "valid"]
  /\ sessions' = sessions \cup {s}
  /\ UNCHANGED <<head, started, current, request, chain, error>>

\* Mutant of TerminateSession: the filter keeps the wrong half.
TerminateSessionInverted(s) ==
  /\ state[s] # "none"
  /\ Invalidate({s})
  /\ sessions' = {t \in sessions : state'[t] # "valid"}
  /\ UNCHANGED <<head, started, chain, error>>

\* core.terminate_session(): the list is filtered after the session is invalidated.
TerminateSession(s) ==
  /\ state[s] # "none"
  /\ Invalidate({s})
  /\ sessions' = {t \in sessions : state'[t] = "valid"}
  /\ UNCHANGED <<head, started, chain, error>>

\* session.invalidate(), called behind the core's back (client.disconnect()).
InvalidateSession(s) ==
  /\ state[s] # "none"
  /\ Invalidate({s})
  /\ UNCHANGED <<core, chain, error>>

\* session.register_request(), which throws when the session is not valid or when
\* the request is managed already.
RegisterRequest(s, r) ==
  /\ state[s] = "valid"
  /\ ~Managed(r)
  /\ parent' = [parent EXCEPT ![r] = s]
  /\ current' = [current EXCEPT ![s] = @ \cup {r}]
  /\ UNCHANGED <<core, state, isDone, chain, error>>

\* request.done(): the session is not told.
RequestDone(r) ==
  /\ Managed(r)
  /\ Finish({r})
  /\ UNCHANGED <<core, session, chain, error>>

\* session.terminate_request(): done, then the list is filtered.
TerminateRequest(s, r) ==
  /\ Managed(r)
  /\ Finish({r})
  /\ current' = [current EXCEPT ![s] = {q \in @ : q \notin isDone'}]
  /\ UNCHANGED <<core, state, chain, error>>

\* The checks of core.process_request(), in their order.  get_session() of a
\* request that is done is undefined, and undefined has no is_valid().
Refusal(r) ==
  CASE ~started                     -> "IllegalState"
    [] started /\ ~Managed(r)       -> "InvalidArgument"
    [] started /\ Managed(r) /\ parent[r] = None -> "TypeError"
    [] OTHER -> IF state[parent[r]] # "valid" THEN "InvalidArgument" ELSE "none"

\* core.process_request() lets the request in the chain ...
Process(r) ==
  /\ chain[r] = "out" /\ error[r] = "none"
  /\ Refusal(r) = "none"
  /\ chain' = [chain EXCEPT ![r] = "in"]
  /\ UNCHANGED <<core, session, request, error>>

\* ... or throws: a check fails, or the content cannot be deserialised.
ProcessThrows(r, e) ==
  /\ chain[r] = "out" /\ error[r] = "none"
  /\ e = IF Refusal(r) = "none" THEN "content" ELSE Refusal(r)
  /\ error' = [error EXCEPT ![r] = e]
  /\ UNCHANGED <<core, session, request, chain>>

\* The promise that initiate_processing() gave is resolved, or rejected.
ChainSettles(r, how) ==
  /\ chain[r] = "in"
  /\ chain' = [chain EXCEPT ![r] = how]
  /\ UNCHANGED <<core, session, request, error>>

CoreNext ==
  \/ Use \/ Startup \/ Shutdown
  \/ \E s \in Sessions :
       CreateSession(s) \/ TerminateSession(s) \/ InvalidateSession(s)
  \/ \E s \in Sessions, r \in Requests : RegisterRequest(s, r) \/ TerminateRequest(s, r)
  \/ \E r \in Requests : RequestDone(r) \/ Process(r)
  \/ \E r \in Requests, e \in Errors : ProcessThrows(r, e)
  \/ \E r \in Requests, how \in {"replied", "failed"} : ChainSettles(r, how)

CoreSpec == CoreInit /\ [][CoreNext]_coreVars

--------------------------------------------------------------------------------
(***************************************************************************)
(* What the core promises.                                                 *)
(***************************************************************************)

\* The core can reach every session that is still in use: none escapes the
\* shutdown, whoever created it, invalidated it or terminated another one
\* (core.js:45-46, 96-100).
ValidIsTracked == Valid \subseteq sessions

\* A stopped server has no valid session: nothing can be asked of it, also after it
\* has been restarted (core.js:96-98, 107).
StoppedHasNoSession == ~started => Valid = {}

\* A request that is not done belongs to a valid session which knows it, so that
\* invalidating the session reaches it (session.js:106-108, 158-161).
OpenRequestIsReachable ==
  \A r \in Requests : Managed(r) /\ r \notin isDone =>
    \E s \in Valid : parent[r] = s /\ r \in current[s]

\* What is over is let go: the core's list of sessions grows while clients come and go, but
\* those that are closed hold no request any more, and a shutdown empties it
\* (core.js:96-100, session.js:158-162).
OverIsReleased ==
  /\ ~started => sessions = {}
  /\ \A s \in Sessions \ Valid : current[s] = {}
================================================================================
