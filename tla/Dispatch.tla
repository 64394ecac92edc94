-------------------------------- MODULE Dispatch --------------------------------
(***************************************************************************)
(* What the default middleware chain (server.js:37-42: logger, callback,   *)
(* meta, catch_all) answers to a request, and server.on(), which registers *)
(* the handlers it calls.  MiddlewareChain models how the middlewares hand *)
(* the request over; here each one is what it answers, or that it calls    *)
(* next().  The logger always does, and its back function always sends.    *)
(*                                                                         *)
(* A middleware of the application may come first, look the match infos up *)
(* and keep the request while registrations go on and the session of the   *)
(* request is closed.  Match infos are looked up once; what they hold is   *)
(* as it was then, but for the payload, which is part of the index.        *)
(* Requests only meet in the index, which none of them changes: one is     *)
(* enough.                                                                 *)
(*                                                                         *)
(* The url <<"*">> is "*", the one of OPTIONS requests to the whole server.*)
(* A handler that never answers is left to MiddlewareChain.                *)
(***************************************************************************)
EXTENDS RouteIndex, FiniteSets

CONSTANTS Handlers,      \* the functions given to on()
          KnownMethods,  \* those of network-constants/http
          MaxEntries     \* bound on the entries of the index

VARIABLES callbacks,     \* callback_mw_infos_.callback of the entries that have one
          request,       \* the request that is served
          views,         \* how the index has seen it since it came (history)
          reply          \* its response, and what its handler did

dispatchVars == <<nodes, entries, callbacks, request, views, reply>>

Star == <<"*">>

\* What a handler does: it sends, or it throws, before or after it has sent.
Outcomes == {"replies", "throws"}

Unanswered == [status |-> "none", by |-> {}, allow |-> {}]
Answer(status) == [Unanswered EXCEPT !.status = status]

Statuses == {"none", "handler's", "200", "400", "404", "405", "414", "500", "501"}

\* get_match_infos() has not been called, or cannot be: the session is closed.
Unknown == [result |-> "unknown", node |-> Root, action_found |-> FALSE, no_actions |-> TRUE]
Gone == [Unknown EXCEPT !.result = "gone"]

Results == {"unknown", "gone", "found", "not found", "malformed", "too long"}

NoRequest == [url |-> Root, action |-> "none", infos |-> Unknown]
NoReply == [outcome |-> "none", response |-> Unanswered]

DispatchTypeOK ==
  /\ IndexTypeOK
  /\ \E E \in SUBSET entries : callbacks \in [E -> Handlers]
  /\ request = NoRequest \/ (request.url \in Urls /\ request.action \in Actions)
  /\ request.infos.result \in Results
  /\ request.infos.node \in nodes
  /\ reply.response \in [status : Statuses, by : SUBSET Handlers, allow : SUBSET Actions]

DispatchInit ==
  /\ IndexInit
  /\ callbacks = <<>>
  /\ request = NoRequest
  /\ views = {}
  /\ reply = NoReply

Replied == reply # NoReply
Held == request # NoRequest /\ ~Replied

\* How the index sees a url: the nodes it leads to, by the greedy rule of RouteIndex and
\* not by detailed_at(), and their actions.
View(url) ==
  LET targets == {n \in nodes : SizeCheck(url) = "found" /\ IsUrl(url) /\ Matches(url, n)}
  IN  [targets |-> targets, actions |-> UNION {ActionsOf(n) : n \in targets}]

Observe == views' = IF Held THEN views \cup {View(request.url)'} ELSE views

--------------------------------------------------------------------------------
(***************************************************************************)
(* Registration.                                                           *)
(***************************************************************************)

\* Bounds: the entries, and no registration before the response was received.
Bounded(route, action) ==
  /\ ~Replied
  /\ Cardinality(entries \cup {<<route, action>>}) <= MaxEntries

Register(route, action, h) ==
  callbacks' = [e \in DOMAIN callbacks \cup {<<route, action>>} |->
                  IF e = <<route, action>> THEN h ELSE callbacks[e]]

\* Mutant of On: the handler is kept even when its route is refused.
OnRefusedToo(route, action, h) ==
  /\ Bounded(route, action)
  /\ Ensure(route, action) \/ EnsureFails(route)
  /\ Register(route, action, h)
  /\ UNCHANGED <<request, reply>>
  /\ Observe

\* on(): a handler for a route and an action, in the place of the one there is, if any:
\* when that is not to be replaced, on() throws, and nothing changes.
On(route, action, h) ==
  /\ Bounded(route, action)
  /\ Ensure(route, action)
  /\ Register(route, action, h)
  /\ UNCHANGED <<request, reply>>
  /\ Observe

\* A middleware of the application adds its own data to the shared index, under a route
\* and an action that may have no handler.
Share(route, action) ==
  /\ Bounded(route, action)
  /\ Ensure(route, action)
  /\ UNCHANGED <<callbacks, request, reply>>
  /\ Observe

\* on() throws because the route is refused.
OnFails(route) ==
  /\ ~Replied
  /\ EnsureFails(route)
  /\ UNCHANGED <<callbacks, request, reply>>
  /\ Observe

--------------------------------------------------------------------------------
(***************************************************************************)
(* The answer to a request.                                                *)
(***************************************************************************)

\* internal_detailed_at(): result, node, whether the node has the action, or any.
Lookup(url, action) ==
  LET m == DetailedAt(url)
      found == m.result = "found"
  IN  [result       |-> m.result,
       node         |-> m.node,
       action_found |-> found /\ <<m.node, action>> \in entries,
       no_actions   |-> ~found \/ ActionsOf(m.node) = {}]

\* Mutant of MatchInfos: the session of the request is not needed.
MatchInfosAnyway(r) == IF r.infos \in {Unknown, Gone} THEN Lookup(r.url, r.action) ELSE r.infos

\* get_match_infos(): looked up when they are not known, if the session is still there.
MatchInfos(r) == IF r.infos = Unknown THEN Lookup(r.url, r.action) ELSE r.infos

\* The response is the same object to the end: a handler that throws makes it an internal
\* error, even when it was sent already.  The handler is the one of the payload now.
CallbackMW(m, action, outcome) ==
  CASE m.result = "too long"  -> Answer("414")
    [] m.result = "malformed" -> Answer("400")
    [] m.result = "gone"      -> Answer("500")
    [] m.action_found /\ <<m.node, action>> \in DOMAIN callbacks ->
         [Answer(IF outcome = "replies" THEN "handler's" ELSE "500")
           EXCEPT !.by = {callbacks[<<m.node, action>>]}]
    [] OTHER -> Unanswered

\* Mutant of ListMatchedMethods: an entry without a handler is not listed.
ListHandled(m) == {a \in Actions : <<m.node, a>> \in DOMAIN callbacks}

\* list_matched_methods(): the payload, as it is now, is that of the action if OPTIONS had
\* an entry.
ListMatchedMethods(m) == IF m.action_found THEN {} ELSE ActionsOf(m.node)

\* TRACE sends the response as it was made, with status 500.
MetaMW(m, url, action) ==
  CASE action = "OPTIONS" /\ url = Star -> Answer("501")
    [] action = "TRACE" -> Answer("500")
    [] action = "OPTIONS" /\ url # Star /\ m.result = "found" ->
         [Answer("200") EXCEPT !.allow = ListMatchedMethods(m)]
    [] OTHER -> Unanswered

\* Mutant of CatchAllMW: an intermediate segment is taken for a resource.
CatchAllIntermediate(m, action) ==
  CASE m.result # "found" -> Answer("404")
    [] m.action_found -> Answer("500")
    [] OTHER -> Answer(IF action \in KnownMethods THEN "405" ELSE "501")

CatchAllMW(m, action) ==
  CASE m.result # "found" -> Answer("404")
    [] m.action_found -> Answer("500")
    [] ~m.action_found /\ m.no_actions -> Answer("404")
    [] OTHER -> Answer(IF action \in KnownMethods THEN "405" ELSE "501")

\* The response that the chain of server.js:37-42 gives.
Response(m, url, action, outcome) ==
  LET answers == <<CallbackMW(m, action, outcome), MetaMW(m, url, action), CatchAllMW(m, action)>>
  IN  answers[CHOOSE i \in 1..3 : /\ answers[i] # Unanswered
                                  /\ \A j \in 1..(i - 1) : answers[j] = Unanswered]

\* A request comes, and a middleware of the application keeps it for a while, ...
Arrive(url, action) ==
  /\ request = NoRequest
  /\ request' = [url |-> url, action |-> action, infos |-> Unknown]
  /\ views' = {View(url)}
  /\ UNCHANGED <<nodes, entries, callbacks, reply>>

\* ... may look at its match infos (what that throws is not kept) ...
Peek ==
  /\ Held /\ request.infos = Unknown
  /\ MatchInfos(request).result \in {"found", "not found"}
  /\ request' = [request EXCEPT !.infos = MatchInfos(request)]
  /\ UNCHANGED <<nodes, entries, callbacks, views, reply>>

\* ... and meanwhile the session may be closed, which nobody notices when the match infos
\* are known.
Close ==
  /\ Held /\ request.infos = Unknown
  /\ request' = [request EXCEPT !.infos = Gone]
  /\ UNCHANGED <<nodes, entries, callbacks, views, reply>>

\* The request goes through the default chain, in one turn.
Serve(outcome) ==
  /\ Held
  /\ LET response == Response(MatchInfos(request), request.url, request.action, outcome)
     IN  /\ outcome = "throws" => response.by # {}
         /\ reply' = [outcome |-> outcome, response |-> response]
  /\ UNCHANGED <<nodes, entries, callbacks, request, views>>

\* The client has its response: the next request, or registration, may come.
Receive ==
  /\ Replied
  /\ request' = NoRequest /\ views' = {} /\ reply' = NoReply
  /\ UNCHANGED <<nodes, entries, callbacks>>

DispatchNext ==
  \/ \E route \in Registrations, action \in Actions :
       \/ \E h \in Handlers : On(route, action, h)
       \/ Share(route, action)
  \/ \E route \in Registrations : OnFails(route)
  \/ \E url \in Urls, action \in Actions : Arrive(url, action)
  \/ Peek \/ Close
  \/ \E outcome \in Outcomes : Serve(outcome)
  \/ Receive

DispatchSpec == DispatchInit /\ [][DispatchNext]_dispatchVars

--------------------------------------------------------------------------------
(***************************************************************************)
(* What a client may rely on.                                              *)
(***************************************************************************)

\* No registration since the request came changed what its url leads to.
Undisturbed == Cardinality(views) = 1

\* A request is handled by a function registered now for its action, where its url led at
\* some time since it came; if nothing changed for the url meanwhile, by the one that is
\* registered there, if any; and what that function throws is an error of the server, even
\* when it had answered (callback.js:56-111, request_enrichments.js:18-39).
HandlersOf(targets) ==
  {callbacks[e] : e \in (targets \X {request.action}) \cap DOMAIN callbacks}
HandlerServes ==
  Replied /\ request.infos # Gone =>
    /\ reply.response.by \subseteq UNION {HandlersOf(v.targets) : v \in views}
    /\ Undisturbed => reply.response.by = HandlersOf(View(request.url).targets)
    /\ reply.response.by # {} /\ reply.outcome # "replies" => reply.response.status = "500"

\* When the session was closed before anyone looked the match infos up, no handler sees the
\* request and the response is an internal error, or says that the url is not one
\* (request_enrichments.js:21-32).
GoneIsNotServed ==
  Replied /\ request.infos = Gone => reply.response = Answer("500")

\* What no handler serves is refused for the right reason, as of some time since the request
\* came: 404 when the url is that of no resource, be it a mere part of another's route; 405
\* and 501 only when the resource has other actions (catch_all.js:40-76).
AptIn(v, status, url, action) ==
  CASE status = "404" -> v.actions = {}
    [] status = "405" -> v.actions # {} /\ action \notin v.actions /\ action \in KnownMethods
    [] status = "501" -> \/ url = Star
                         \/ v.actions # {} /\ action \notin v.actions /\ action \notin KnownMethods
    [] status \in {"400", "414"} -> v.targets = {}
    [] OTHER -> TRUE
RefusalIsApt ==
  Replied =>
    /\ \E v \in views : AptIn(v, reply.response.status, request.url, request.action)
    /\ (\A v \in views : v.actions = {}) /\ request.action \notin {"OPTIONS", "TRACE"}
       /\ request.infos # Gone =>
         reply.response.status \in {"400", "404", "414"}

\* The answer to OPTIONS, unless the index holds something for OPTIONS itself, lists the
\* actions that are not refused with 405 or 501 and no other, if nothing changed for the url
\* meanwhile (meta.js:36-49).
AllowIsComplete ==
  Replied /\ reply.response.status = "200" /\ Undisturbed
  /\ "OPTIONS" \notin View(request.url).actions =>
    \A a \in Actions \ {"OPTIONS", "TRACE"} :
      a \in reply.response.allow <=>
        Response(Lookup(request.url, a), request.url, a, "replies").status \in {"handler's", "500"}
================================================================================
