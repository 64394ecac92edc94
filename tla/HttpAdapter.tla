------------------------------ MODULE HttpAdapter ------------------------------
(***************************************************************************)
(* The server with its HTTP adapter, server/adapters/http.js and base.js,  *)
(* on top of ServerCore.  The adapter opens a session for each request and *)
(* never closes it, so sessions and requests have the same names here.     *)
(*                                                                         *)
(* The node http server is external.  close() stops listening at once, but *)
(* the 'close' event comes later: when the last connection has ended, and  *)
(* never before the next turn of the event loop.  A connection kept alive  *)
(* may bring further requests in between, or stay idle.                    *)
(***************************************************************************)
EXTENDS ServerCore

ASSUME OneSessionEach == Sessions = Requests

VARIABLES
  attached,  \* adapter.is_started(), and its restlink_core is set
  ref,       \* adapter.http_server is set
  listening, \* the node http server accepts connections
  closing,   \* the 'close' event: not expected, "draining" or "drained" (about to fire)
  exchange,  \* where each HTTP request is
  answer,    \* the HTTP response that was sent to it
  thrown     \* whether the owner's last startup() or shutdown() threw

node == <<ref, listening, closing>>
http == <<exchange, answer>>
vars == <<coreVars, attached, node, http, thrown>>

TypeOK ==
  /\ CoreTypeOK
  /\ attached \in BOOLEAN /\ thrown \in BOOLEAN
  /\ ref \in BOOLEAN /\ listening \in BOOLEAN
  /\ closing \in {"no", "draining", "drained"}
  /\ exchange \in [Requests -> {"none", "accepted", "reading", "waiting", "answered", "aborted"}]
  /\ answer \in [Requests -> {"none", "reply", "error"}]
  /\ started /\ ref => attached /\ listening
  /\ \A r \in Requests : exchange[r] = "answered" <=> answer[r] # "none"

Init ==
  /\ CoreInit
  /\ attached = FALSE
  /\ ref = TRUE
  /\ listening = FALSE
  /\ closing = "no"
  /\ exchange = [r \in Requests |-> "none"]
  /\ answer = [r \in Requests |-> "none"]
  /\ thrown = FALSE

Open == {r \in Requests : exchange[r] \in {"accepted", "reading", "waiting"}}

\* No server_callback() is being executed: it runs to its end, nothing in between.
Idle == \A r \in Requests : exchange[r] # "accepted"

--------------------------------------------------------------------------------
(***************************************************************************)
(* The owner of the server.                                                *)
(***************************************************************************)

Prepare == Idle /\ Use /\ UNCHANGED <<attached, node, http, thrown>>

\* core.startup(), adapter included: once the http server has been released there is
\* nothing to listen with; that throws when everything else has been started.  To make
\* one that listens listen again throws in some versions of node, and changes nothing.
HttpStartup ==
  /\ Idle
  /\ Startup
  /\ attached' = TRUE
  /\ listening' = (listening \/ ref)
  /\ thrown' \in {~ref} \cup (IF listening THEN {TRUE} ELSE {})
  /\ UNCHANGED <<ref, closing, http>>

\* What close() makes of the 'close' event: connections have to end first, unless there is
\* none; an event that is about to fire already may do so.
Closing ==
  IF listening \/ closing = "draining"
  THEN {"draining"} \cup (IF Open = {} THEN {"drained"} ELSE {}) \cup ({closing} \cap {"drained"})
  ELSE {"drained"}

\* core.shutdown(), adapter included: the adapter stays attached until 'close'.
HttpShutdown ==
  /\ Idle
  /\ ref
  /\ Shutdown
  /\ listening' = FALSE
  /\ closing' \in Closing
  /\ thrown' = FALSE
  /\ UNCHANGED <<attached, ref, http>>

\* The same without http server: that throws before the core is stopped.  So does, in some
\* versions of node, closing one that does not listen.
HttpShutdownThrows ==
  /\ Idle
  /\ ~ref \/ ~listening
  /\ thrown' = TRUE
  /\ UNCHANGED <<coreVars, attached, node, http>>

--------------------------------------------------------------------------------
(***************************************************************************)
(* The node http server.                                                   *)
(***************************************************************************)

\* The last connection ends.
Drain ==
  /\ Idle
  /\ closing = "draining" /\ ~listening /\ Open = {}
  /\ closing' = "drained"
  /\ UNCHANGED <<coreVars, attached, ref, listening, http, thrown>>

\* 'close' fires, restarted server or not.
CloseEvent ==
  /\ Idle
  /\ closing = "drained"
  /\ closing' = "no"
  /\ ref' = FALSE
  /\ attached' = FALSE
  /\ UNCHANGED <<coreVars, listening, http, thrown>>

\* The client goes away.
Abort(r) ==
  /\ Idle
  /\ exchange[r] \in {"reading", "waiting"}
  /\ exchange' = [exchange EXCEPT ![r] = "aborted"]
  /\ UNCHANGED <<coreVars, attached, node, answer, thrown>>

--------------------------------------------------------------------------------
(***************************************************************************)
(* The adapter.                                                            *)
(***************************************************************************)

Answer(r, a) ==
  /\ exchange' = [exchange EXCEPT ![r] = "answered"]
  /\ answer' = [answer EXCEPT ![r] = a]

\* A request comes in, by a new connection or one kept alive.
Incoming(r) ==
  /\ Idle
  /\ exchange[r] = "none"
  /\ listening \/ closing = "draining"

\* server_callback(): a session is created for it ...
Accept(r) ==
  /\ Incoming(r)
  /\ attached
  /\ CreateSession(r)
  /\ exchange' = [exchange EXCEPT ![r] = "accepted"]
  /\ UNCHANGED <<attached, node, answer, thrown>>

\* ... unless there is no core any more, or it is stopped, ...
Refuse(r) ==
  /\ Incoming(r)
  /\ ~attached \/ ~started
  /\ Answer(r, "error")
  /\ UNCHANGED <<coreVars, attached, node, thrown>>

\* Mutant of Register: the request is not registered.
RegisterForgotten(r) ==
  /\ exchange[r] = "accepted"
  /\ exchange' = [exchange EXCEPT ![r] = "reading"]
  /\ UNCHANGED <<coreVars, attached, node, answer, thrown>>

\* ... and the request is registered; its body will come in chunks.
Register(r) ==
  /\ exchange[r] = "accepted"
  /\ RegisterRequest(r, r)
  /\ exchange' = [exchange EXCEPT ![r] = "reading"]
  /\ UNCHANGED <<attached, node, answer, thrown>>

\* Mutant of BodyEnd: what the core throws is not caught.
BodyEndUncaught(r) ==
  /\ Idle
  /\ exchange[r] = "reading"
  /\ \/ Answer(r, "error") /\ UNCHANGED coreVars
     \/ /\ Process(r) \/ \E e \in Errors : ProcessThrows(r, e)
        /\ exchange' = [exchange EXCEPT ![r] = "waiting"]
        /\ UNCHANGED answer
  /\ UNCHANGED <<attached, node, thrown>>

\* 'end': the request has url parameters, which are not supported; or goes to the core,
\* which takes it or throws.  The core may have been stopped, or restarted, since.
BodyEnd(r) ==
  /\ Idle
  /\ exchange[r] = "reading"
  /\ \/ Answer(r, "error") /\ UNCHANGED coreVars
     \/ /\ Process(r)
        /\ exchange' = [exchange EXCEPT ![r] = "waiting"]
        /\ UNCHANGED answer
     \/ (\E e \in Errors : ProcessThrows(r, e)) /\ Answer(r, "error")
  /\ UNCHANGED <<attached, node, thrown>>

\* The chain settles the promise it gave, aborted or not.
Settle(r) ==
  /\ Idle
  /\ \E how \in {"replied", "failed"} : ChainSettles(r, how)
  /\ UNCHANGED <<attached, node, http, thrown>>

\* The callback of the promise: the response is sent, or an error when it cannot be
\* serialised or there is none.
Reply(r) ==
  /\ Idle
  /\ exchange[r] = "waiting"
  /\ \/ chain[r] = "replied" /\ Answer(r, "reply")
     \/ chain[r] \in {"replied", "failed"} /\ Answer(r, "error")
  /\ UNCHANGED <<coreVars, attached, node, thrown>>

Next ==
  \/ Prepare \/ HttpStartup \/ HttpShutdown \/ HttpShutdownThrows
  \/ Drain \/ CloseEvent
  \/ \E r \in Requests :
       \/ Abort(r) \/ Accept(r) \/ Refuse(r) \/ Register(r)
       \/ BodyEnd(r) \/ Settle(r) \/ Reply(r)

SafeSpec == Init /\ [][Next]_vars

\* A callback runs to its end, bodies end or are aborted, the chain settles what it was
\* given (MiddlewareChain) and the callbacks of settled promises are called.
Spec ==
  /\ SafeSpec
  /\ \A r \in Requests : /\ WF_vars(Register(r))
                         /\ WF_vars(BodyEnd(r))
                         /\ WF_vars(Settle(r))
                         /\ WF_vars(Reply(r))

--------------------------------------------------------------------------------

\* The core refuses a request of the adapter for one reason only: its session has been
\* closed, by a shutdown that came while the body was read (http.js:141-142, 201).
RefusalMeansShutdown ==
  \A r \in Requests : error[r] \in Errors \ {"content"} =>
    error[r] # "InvalidArgument" /\ state[r] = "invalid"

\* Every request is answered unless its client goes away, also when the server is
\* stopped or restarted in between.
ExchangesSettle ==
  \A r \in Requests : exchange[r] = "accepted" ~> exchange[r] \in {"answered", "aborted"}

--------------------------------------------------------------------------------

\* The core knows its adapters "to be able to transmit them some events (startup/
\* shutdown for ex.)" (core.js:37-38): but the 'close' event of a previous shutdown
\* detaches the adapter of a server that has been restarted.
StartedIsAttached == started => attached
================================================================================
