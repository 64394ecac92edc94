------------------------------ MODULE DirectServer ------------------------------
(***************************************************************************)
(* The server with its direct adapter and clients: server.js,              *)
(* server/adapters/direct.js, client/base.js, client/direct.js, on top of  *)
(* ServerCore.  A direct client owns one session for its whole life, so    *)
(* clients and sessions have the same names here.  The direct adapter is   *)
(* started and stopped within core.startup() and core.shutdown().          *)
(*                                                                         *)
(* client.process_request() registers the request and passes it to the     *)
(* core in one synchronous call: turn is the request whose call is being   *)
(* executed, and nothing else runs until it is over.                       *)
(***************************************************************************)
EXTENDS ServerCore

VARIABLES
  client,   \* of each session, the direct client that owns it
  promise,  \* what the client's last process_request() returned for each request
  turn      \* the request of the call being executed, or None

direct == <<client, promise, turn>>
vars   == <<coreVars, direct>>

TypeOK ==
  /\ CoreTypeOK
  /\ client \in [Sessions -> {"none", "connected", "disconnected"}]
  /\ promise \in [Requests -> {"none", "pending", "answered", "resolved", "rejected"}]
  /\ turn \in Requests \cup {None}
  /\ turn # None => promise[turn] = "pending"

Init ==
  /\ CoreInit
  /\ client = [c \in Sessions |-> "none"]
  /\ promise = [r \in Requests |-> "none"]
  /\ turn = None

\* What the owner of the server does.
Manage ==
  /\ turn = None
  /\ Use \/ Startup \/ Shutdown
  /\ UNCHANGED direct

\* server.open_direct_connection(): the adapter runs when the core does.
OpenConnection(c) ==
  /\ turn = None
  /\ client[c] = "none"
  /\ CreateSession(c)
  /\ client' = [client EXCEPT ![c] = "connected"]
  /\ UNCHANGED <<promise, turn>>

\* client.disconnect().
Disconnect(c) ==
  /\ turn = None
  /\ client[c] = "connected"
  /\ InvalidateSession(c)
  /\ client' = [client EXCEPT ![c] = "disconnected"]
  /\ UNCHANGED <<promise, turn>>

\* client.process_request(), up to the registration: unless the client is gone, its
\* session is closed, or the request has been used before, the request is now open.
Call(c, r) ==
  /\ turn = None
  /\ client[c] = "connected" /\ state[c] = "valid" /\ ~Managed(r)
  /\ promise[r] \in {"none", "rejected"}
  /\ RegisterRequest(c, r)
  /\ turn' = r
  /\ promise' = [promise EXCEPT ![r] = "pending"]
  /\ UNCHANGED client

\* The same call, failing early: badContent when the content cannot be serialised.
\* A request still on its way keeps the promise of its first call.
CallRejected(c, r, badContent) ==
  /\ turn = None
  /\ client[c] # "none"
  /\ badContent \/ client[c] = "disconnected" \/ state[c] # "valid" \/ Managed(r)
  /\ promise[r] \in {"none", "rejected"}
  /\ promise' = [promise EXCEPT ![r] = "rejected"]
  /\ UNCHANGED <<coreVars, client, turn>>

\* Mutant of CallCore: what the core throws leaves the promise pending.
CallCoreUncaught ==
  /\ turn # None
  /\ turn' = None
  /\ Process(turn) \/ \E e \in Errors : ProcessThrows(turn, e)
  /\ UNCHANGED <<client, promise>>

\* The rest of the call: the core takes the request, or throws, which process_request()
\* turns into a rejected promise.
CallCore ==
  /\ turn # None
  /\ turn' = None
  /\ \/ Process(turn) /\ UNCHANGED promise
     \/ \E e \in Errors : /\ ProcessThrows(turn, e)
                          /\ promise' = [promise EXCEPT ![turn] = "rejected"]
  /\ UNCHANGED client

\* The chain settles the promise it gave to the core.
Settle(r) ==
  /\ turn = None
  /\ \E how \in {"replied", "failed"} : ChainSettles(r, how)
  /\ UNCHANGED direct

\* resolve_request_ is called back with the response: the request is done.
Answer(r) ==
  /\ turn = None
  /\ promise[r] = "pending" /\ chain[r] = "replied"
  /\ RequestDone(r)
  /\ promise' = [promise EXCEPT ![r] = "answered"]
  /\ UNCHANGED <<client, turn>>

\* client.process_request() is called back: contents are deserialised, which may fail.
Deliver(r) ==
  /\ turn = None
  /\ promise[r] = "answered"
  /\ \E result \in {"resolved", "rejected"} : promise' = [promise EXCEPT ![r] = result]
  /\ UNCHANGED <<coreVars, client, turn>>

\* A rejection goes through both callbacks untouched.
DeliverFailure(r) ==
  /\ turn = None
  /\ promise[r] = "pending" /\ chain[r] = "failed"
  /\ promise' = [promise EXCEPT ![r] = "rejected"]
  /\ UNCHANGED <<coreVars, client, turn>>

Next ==
  \/ Manage
  \/ \E c \in Sessions : OpenConnection(c) \/ Disconnect(c)
  \/ \E c \in Sessions, r \in Requests : Call(c, r)
  \/ \E c \in Sessions, r \in Requests, badContent \in BOOLEAN :
       CallRejected(c, r, badContent)
  \/ CallCore
  \/ \E r \in Requests : Settle(r) \/ Answer(r) \/ Deliver(r) \/ DeliverFailure(r)

SafeSpec == Init /\ [][Next]_vars

\* A call runs to its end, the chain settles what it was given (MiddlewareChain), and
\* the callbacks of settled promises are called.
Spec ==
  /\ SafeSpec
  /\ WF_vars(CallCore)
  /\ \A r \in Requests : WF_vars(Settle(r)) /\ WF_vars(Answer(r) \/ Deliver(r) \/ DeliverFailure(r))

--------------------------------------------------------------------------------

\* A client that has disconnected, or that never connected, owns no open request:
\* whatever was in flight has been closed (client/direct.js:65-73).
GoneClientOwnsNothing ==
  \A c \in Sessions : client[c] # "connected" => \A r \in Requests : parent[r] # c

\* Registration and the core's own checks never disagree: the session that was valid
\* at registration still is when the core looks (client/direct.js:52-54).
ChecksAgree == \A r \in Requests : error[r] \in {"none", "content"}

\* A client that gets its response finds the request done, whatever happened to the
\* session and the server in between (client/direct.js:57-61).
ResolvedIsDone == \A r \in Requests : promise[r] = "resolved" => r \in isDone

\* Every call is answered, even when the client disconnects or the server stops in
\* between.
CallsSettle ==
  \A r \in Requests : promise[r] = "pending" ~> promise[r] \in {"resolved", "rejected"}
================================================================================
