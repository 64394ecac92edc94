---------------------------- MODULE BackboneService ----------------------------
(***************************************************************************)
(* Serving a Backbone model from the server, utils/serve_backbone_model.js:*)
(* the handlers that register_rest_routes_for_model() registers, for a     *)
(* model that is kept in a store.                                          *)
(*                                                                         *)
(* Backbone, its sync() and the store are external.  A model's save(),     *)
(* fetch(), destroy() and find() return a promise; the store does what is  *)
(* asked at some point, and a callback learns about it in a later turn.    *)
(* It may fail, with a hint when what is asked for is missing.             *)
(***************************************************************************)
EXTENDS Naturals, FiniteSets

CONSTANTS Requests,  \* the requests that reach a handler
          Ids,       \* the ids that the store may give
          Keys,      \* the names of attributes
          Values,    \* their values
          Contents,  \* the contents of requests
          Blank,     \* the attributes of a new model
          None,      \* JavaScript's undefined
          Junk       \* a content that is not an object

Records == [Keys -> Values]
Patches == UNION {[K -> Values] : K \in SUBSET Keys}

ASSUME ContentAssumption == /\ Contents \subseteq Patches \cup {None, Junk}
                            /\ None # Junk /\ {None, Junk} \cap Patches = {}
                            /\ Blank \in Records /\ None \notin Ids

Methods == {"create", "read", "update", "delete", "read all", "unserved"}

VARIABLES
  store,     \* what the store keeps under each id
  given,     \* the ids it has given
  asked,     \* each request: method, id and content
  instance,  \* the model that its handler works with: id and attributes
  op,        \* the sync() operation the handler waits for, "none" when it does not
  outcome,   \* what the promise of that operation holds
  unsafe,    \* the requests whose safety_promise is rejected
  response,  \* the response to each request
  sends,     \* how often it was sent
  seen       \* history: what its resource was since a read or update came, its own writes apart

storage == <<store, given>>
handler == <<instance, op, outcome, unsafe>>
replies == <<response, sends>>
serviceVars == <<storage, asked, handler, replies, seen>>

NoRequest  == [method |-> "none", id |-> None, content |-> None]
NoResponse == [status |-> "none", content |-> None, id |-> None]
Statuses   == {"200", "201", "204", "404", "406", "500", "501"}

ServiceTypeOK ==
  /\ store \in [Ids -> Records \cup {None}]
  /\ given \subseteq Ids
  /\ \A i \in Ids : store[i] # None => i \in given
  /\ asked \in [Requests -> [method : Methods, id : Ids \cup {None}, content : Contents]
                             \cup {NoRequest}]
  /\ instance \in [Requests -> [id : Ids \cup {None}, attributes : Records]]
  /\ op \in [Requests -> {"none", "create", "read", "update", "delete", "find"}]
  /\ outcome \in [Requests -> {"none", "done", "missing", "failed"}]
  /\ unsafe \subseteq Requests
  /\ response \in [Requests -> [status : Statuses, content : Records \cup {None}, id : Ids \cup {None}]
                                \cup {NoResponse}]
  /\ \A r \in Requests : response[r].status = "201" => response[r].id \in given
  /\ sends \in [Requests -> Nat]
  /\ seen \in [Requests -> SUBSET (Records \cup {None})]

\* The store may hold resources from before.
ServiceInit ==
  /\ store \in [Ids -> {None} \cup Records]
  /\ given = {i \in Ids : store[i] # None}
  /\ asked = [r \in Requests |-> NoRequest]
  /\ instance = [r \in Requests |-> [id |-> None, attributes |-> Blank]]
  /\ op = [r \in Requests |-> "none"]
  /\ outcome = [r \in Requests |-> "none"]
  /\ unsafe = {}
  /\ response = [r \in Requests |-> NoResponse]
  /\ sends = [r \in Requests |-> 0]
  /\ seen = [r \in Requests |-> {}]

Fresh    == {r \in Requests : asked[r] = NoRequest}
Answered == {r \in Requests : response[r] # NoResponse}

\* model.set() and new Model(): the attributes that the content names are replaced.  None of
\* them is the id, which would have the model saved as another resource.
Patch(attributes, content) ==
  [k \in Keys |-> IF content \in Patches /\ k \in DOMAIN content THEN content[k] ELSE attributes[k]]

--------------------------------------------------------------------------------
(***************************************************************************)
(* What a handler does.                                                    *)
(***************************************************************************)

Respond(r, answer) ==
  /\ response' = [response EXCEPT ![r] = answer]
  /\ sends' = [sends EXCEPT ![r] = @ + 1]

Status(code) == [NoResponse EXCEPT !.status = code]
WithContent(code, attributes) == [Status(code) EXCEPT !.content = attributes]

\* The response to a creation holds the id and all attributes.
Created(m) == [WithContent("201", m.attributes) EXCEPT !.id = m.id]

\* The operation of sync() that a handler begins with.
FirstOp(method) ==
  CASE method = "create" -> "create"
    [] method \in {"read", "update"} -> "read"
    [] method = "delete" -> "delete"
    [] OTHER -> "find"

\* What each handler answers without asking the store: to contents it does not take, or
\* when the model or its sync() throws.  The routes that are not served answer 501.
Refusals(method, content) ==
  CASE method = "unserved" -> {"501"}
    [] method = "create" /\ content = Junk -> {"406"}
    [] method = "update" /\ content \in {None, Junk} -> {"406"}
    [] method = "read" /\ content # None -> {"500", "501"}
    [] method = "read all" /\ content # None -> {"500", "501"}
    [] OTHER -> {"500"}

\* Whether a handler may go as far as the store; only "read all" reads on with a content.
MayAsk(method, content) ==
  /\ method # "unserved"
  /\ method = "create" => content # Junk
  /\ method = "update" => content \notin {None, Junk}
  /\ method = "read" => content = None

\* A request reaches its handler; id is the one in its url, if any.
Arrive(r, method, id, content) ==
  /\ r \in Fresh
  /\ method \in {"read", "update", "delete"} <=> id # None
  /\ asked' = [asked EXCEPT ![r] = [method |-> method, id |-> id, content |-> content]]
  /\ seen' = [seen EXCEPT ![r] = IF method \in {"read", "update"} THEN {store[id]} ELSE {}]

Ask(r, method, id, content) ==
  /\ Arrive(r, method, id, content)
  /\ MayAsk(method, content)
  /\ instance' = [instance EXCEPT ![r] =
       [id |-> id,
        attributes |-> IF method \in {"create", "delete"} THEN Patch(Blank, content) ELSE Blank]]
  /\ op' = [op EXCEPT ![r] = FirstOp(method)]
  /\ UNCHANGED <<storage, outcome, unsafe, replies>>

Refuse(r, method, id, content) ==
  /\ Arrive(r, method, id, content)
  /\ \E code \in Refusals(method, content) : Respond(r, Status(code))
  /\ UNCHANGED <<storage, handler>>

\* The handler's callback has run, and waits for nothing more.
Over(r) ==
  /\ op' = [op EXCEPT ![r] = "none"]
  /\ outcome' = [outcome EXCEPT ![r] = "none"]

\* The promise of the store is fulfilled: the handler answers, ...
Answer(r) ==
  /\ outcome[r] = "done"
  /\ ~(asked[r].method = "update" /\ op[r] = "read")
  /\ LET m == instance[r]
     IN  CASE op[r] = "create" -> Respond(r, Created(m))
           [] op[r] = "read"   -> Respond(r, WithContent("200", m.attributes))
           [] op[r] = "update" -> Respond(r, Status("200"))
           [] op[r] = "delete" -> Respond(r, Status("204"))
           [] OTHER            -> Respond(r, WithContent("200", m.attributes))
  /\ Over(r)
  /\ UNCHANGED <<storage, asked, instance, unsafe, seen>>

\* Mutant of SaveFetched: the content is saved without what was fetched.
SaveContentOnly(r) ==
  /\ outcome[r] = "done"
  /\ asked[r].method = "update" /\ op[r] = "read"
  /\ instance' = [instance EXCEPT ![r].attributes = Patch(Blank, asked[r].content)]
  /\ op' = [op EXCEPT ![r] = "update"]
  /\ outcome' = [outcome EXCEPT ![r] = "none"]
  /\ UNCHANGED <<storage, asked, unsafe, replies, seen>>

\* ... or, having fetched what it is to update, patches and saves it, ...
SaveFetched(r) ==
  /\ outcome[r] = "done"
  /\ asked[r].method = "update" /\ op[r] = "read"
  /\ instance' = [instance EXCEPT ![r].attributes = Patch(@, asked[r].content)]
  /\ op' = [op EXCEPT ![r] = "update"]
  /\ outcome' = [outcome EXCEPT ![r] = "none"]
  /\ UNCHANGED <<storage, asked, unsafe, replies, seen>>

\* ... unless the callback throws: the model does not take the patch, its save() throws or
\* returns no promise, or the answer to a creation, which has its url, cannot be made.
CallbackThrows(r) ==
  /\ outcome[r] = "done"
  /\ \/ asked[r].method = "update" /\ op[r] = "read"
     \/ op[r] = "create"
  /\ unsafe' = unsafe \cup {r}
  /\ Over(r)
  /\ UNCHANGED <<storage, asked, instance, replies, seen>>

\* What the store hints at when something is missing, or an internal error.
Hint(r) == CASE outcome[r] = "failed" -> "500"
             [] outcome[r] = "missing" /\ op[r] = "find" -> "501"
             [] OTHER -> "404"

\* Mutant of Reject: the error is forwarded after it has been handled.
RejectForwarding(r) ==
  /\ outcome[r] \in {"missing", "failed"}
  /\ op[r] # "update"
  /\ Respond(r, Status(Hint(r)))
  /\ unsafe' = unsafe \cup {r}
  /\ Over(r)
  /\ UNCHANGED <<storage, asked, instance, seen>>

\* The promise of the store is rejected.
Reject(r) ==
  /\ outcome[r] \in {"missing", "failed"}
  /\ op[r] # "update"
  /\ Respond(r, Status(Hint(r)))
  /\ Over(r)
  /\ UNCHANGED <<storage, asked, instance, unsafe, seen>>

\* Mutant of RejectSave: the promise of save() is not returned to the one of fetch().
RejectSaveUnseen(r) ==
  /\ outcome[r] \in {"missing", "failed"}
  /\ op[r] = "update"
  /\ Over(r)
  /\ UNCHANGED <<storage, asked, instance, unsafe, replies, seen>>

\* That of save() in an update has no handler of its own, so that its hint is not read.
RejectSave(r) ==
  /\ outcome[r] \in {"missing", "failed"}
  /\ op[r] = "update"
  /\ unsafe' = unsafe \cup {r}
  /\ Over(r)
  /\ UNCHANGED <<storage, asked, instance, replies, seen>>

\* The final catch-all: safety_promise.otherwise().
CatchAll(r) ==
  /\ r \in unsafe
  /\ unsafe' = unsafe \ {r}
  /\ Respond(r, Status("500"))
  /\ UNCHANGED <<storage, asked, instance, op, outcome, seen>>

--------------------------------------------------------------------------------
(***************************************************************************)
(* The store.                                                              *)
(***************************************************************************)

\* The other reads and updates under way see the new version of their resource.
Write(r, id, attributes) ==
  /\ store' = [store EXCEPT ![id] = attributes]
  /\ seen' = [q \in Requests |->
                IF /\ q \notin Answered \cup {r}
                   /\ asked[q].id = id /\ asked[q].method # "delete"
                THEN seen[q] \cup {attributes}
                ELSE seen[q]]

Waiting(r, operation) == op[r] = operation /\ outcome[r] = "none"
Told(r, result) == outcome' = [outcome EXCEPT ![r] = result]

StoreCreates(r) ==
  /\ Waiting(r, "create")
  /\ \E id \in Ids \ given : /\ Write(r, id, instance[r].attributes)
                             /\ given' = given \cup {id}
                             /\ instance' = [instance EXCEPT ![r].id = id]
  /\ Told(r, "done")
  /\ UNCHANGED <<asked, op, unsafe, replies>>

StoreFetches(r) ==
  /\ Waiting(r, "read")
  /\ store[instance[r].id] # None
  /\ instance' = [instance EXCEPT ![r].attributes = store[instance[r].id]]
  /\ Told(r, "done")
  /\ UNCHANGED <<storage, asked, op, unsafe, replies, seen>>

\* A store may take a resource that is gone, or refuse it.
StoreSaves(r) ==
  /\ Waiting(r, "update")
  /\ Write(r, instance[r].id, instance[r].attributes)
  /\ Told(r, "done")
  /\ UNCHANGED <<given, asked, instance, op, unsafe, replies>>

\* Deleting what is not there is not an error.
StoreDeletes(r) ==
  /\ Waiting(r, "delete")
  /\ Write(r, instance[r].id, None)
  /\ Told(r, "done")
  /\ UNCHANGED <<given, asked, instance, op, unsafe, replies>>

StoreFinds(r) ==
  /\ Waiting(r, "find")
  /\ \E result \in {"done", "missing"} : Told(r, result)
  /\ UNCHANGED <<storage, asked, instance, op, unsafe, replies, seen>>

StoreMisses(r) ==
  /\ Waiting(r, "read") \/ Waiting(r, "update")
  /\ store[instance[r].id] = None
  /\ Told(r, "missing")
  /\ UNCHANGED <<storage, asked, instance, op, unsafe, replies, seen>>

StoreFails(r) ==
  /\ op[r] # "none" /\ outcome[r] = "none"
  /\ Told(r, "failed")
  /\ UNCHANGED <<storage, asked, instance, op, unsafe, replies, seen>>

--------------------------------------------------------------------------------

Come(r) ==
  \E method \in Methods, id \in Ids \cup {None}, content \in Contents :
    Ask(r, method, id, content) \/ Refuse(r, method, id, content)

\* The store and the callbacks of its promises.
Proceed(r) ==
  \/ StoreCreates(r) \/ StoreFetches(r) \/ StoreSaves(r) \/ StoreDeletes(r) \/ StoreFinds(r)
  \/ StoreMisses(r) \/ StoreFails(r)
  \/ Answer(r) \/ SaveFetched(r) \/ CallbackThrows(r) \/ Reject(r) \/ RejectSave(r) \/ CatchAll(r)

ServiceNext == \E r \in Requests : Come(r) \/ Proceed(r)

ServiceSpec == ServiceInit /\ [][ServiceNext]_serviceVars

--------------------------------------------------------------------------------
(***************************************************************************)
(* What the service promises.                                              *)
(***************************************************************************)

\* What is answered is so: a read gives a version that the resource had while the request
\* was under way; an update that succeeded had written such a version, one that was there
\* without it, with the attributes of the request replaced; and 404 means that the resource
\* was missing for a moment (serve_backbone_model.js:191-201, 257-262).  Whatever other
\* requests did meanwhile; an update may write over what came between its two operations.
AnswersAreTrue ==
  \A r \in Answered :
    LET answer == response[r]
    IN  /\ asked[r].method = "read" /\ answer.status = "200" => answer.content \in seen[r]
        /\ asked[r].method = "update" /\ answer.status = "200" =>
             \E v \in seen[r] \ {None} : instance[r].attributes = Patch(v, asked[r].content)
        /\ answer.status = "404" => None \in seen[r]

\* A response is sent once, whatever the store and the model do: the three places of each
\* handler that send it exclude each other (serve_backbone_model.js:191-213).
AnsweredOnce == \A r \in Requests : sends[r] <= 1
================================================================================
