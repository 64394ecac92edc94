------------------------------ MODULE BackboneSync ------------------------------
(***************************************************************************)
(* A Backbone model of a client that is kept on the server:                *)
(* utils/backbone_sync_to_restlink_mixin.js, on top of BackboneService.    *)
(* The application changes the attributes of the model, and saves, fetches *)
(* and destroys it; sync() makes a request of that, and a callback brings  *)
(* the answer back to the model, which may have changed since.             *)
(*                                                                         *)
(* The base model is external.  It remembers which attributes were set     *)
(* since it was declared in sync; those are its changed attributes.  No    *)
(* other client uses the resource.                                         *)
(***************************************************************************)
EXTENDS BackboneService

CONSTANT MaxCalls  \* how many calls of sync() the application lets overlap

\* A model sends some of its attributes, or nothing.
ASSUME CallAssumption == MaxCalls \in Nat \ {0} /\ Patches \cup {None} \subseteq Contents

VARIABLES
  model,    \* the model of the client: id and attributes
  changed,  \* the attributes that changed since it was in sync
  copy,     \* the attributes it had when each call was made
  settled   \* the promise of each call of sync()

local == <<model, changed>>
calls == <<copy, settled>>
syncVars == <<serviceVars, local, calls>>

SyncTypeOK ==
  /\ ServiceTypeOK
  /\ model \in [id : Ids \cup {None}, attributes : Records]
  /\ changed \subseteq Keys
  /\ copy \in [Requests -> Records]
  /\ settled \in [Requests -> {"none", "pending", "resolved", "rejected"}]

\* A new model, with an id if it is to be fetched.
SyncInit ==
  /\ ServiceInit
  /\ model \in [id : Ids \cup {None}, attributes : {Blank}]
  /\ changed = Keys
  /\ copy = [r \in Requests |-> Blank]
  /\ settled = [r \in Requests |-> "none"]

Pending == {r \in Requests : settled[r] = "pending"}

\* The application sets an attribute.
Set(k, v) ==
  /\ v # model.attributes[k]
  /\ model' = [model EXCEPT !.attributes[k] = v]
  /\ changed' = changed \cup {k}
  /\ UNCHANGED <<serviceVars, calls>>

--------------------------------------------------------------------------------
(***************************************************************************)
(* sync().                                                                 *)
(***************************************************************************)

\* The request that sync() makes; a new model can only be created.
Request(method) ==
  [method  |-> method,
   id      |-> model.id,
   content |-> CASE method = "create" -> model.attributes
                 [] method = "update" -> [k \in changed |-> model.attributes[k]]
                 [] OTHER -> None]

\* Bound: the application waits when MaxCalls calls are pending.
MaySync(r, method) ==
  /\ r \in Fresh /\ settled[r] = "none"
  /\ Cardinality(Pending) < MaxCalls
  /\ method = "create" <=> model.id = None
  /\ method = "update" => changed # {}

\* The request gets to its handler within the call, direct clients being synchronous.
Sync(r, method) ==
  /\ MaySync(r, method)
  /\ LET request == Request(method)
     IN  \/ Ask(r, method, request.id, request.content)
         \/ Refuse(r, method, request.id, request.content)
  /\ copy' = [copy EXCEPT ![r] = model.attributes]
  /\ settled' = [settled EXCEPT ![r] = "pending"]
  /\ UNCHANGED local

\* ... unless making the request, or the client, fails: no url, disconnected ...
SyncRejected(r, method) ==
  /\ MaySync(r, method)
  /\ settled' = [settled EXCEPT ![r] = "rejected"]
  /\ UNCHANGED <<serviceVars, local, copy>>

\* The status is the one that the method expects.
Success(r) ==
  response[r].status = CASE asked[r].method = "create" -> "201"
                         [] asked[r].method = "delete" -> "204"
                         [] OTHER -> "200"

\* Mutant of StillSame: the model is taken to be in sync without a look.
StillSameAlways(r) == TRUE

\* The attributes are those that were sent.
StillSame(r) == model.attributes = copy[r]

\* declare_in_sync(), if the model is.
DeclareInSync(yes) == changed' = IF yes THEN {} ELSE changed

Callback(r) ==
  /\ r \in Pending /\ r \in Answered
  /\ UNCHANGED <<serviceVars, copy>>

\* The answer is not the expected one: the promise is rejected, the model untouched.
Fail(r) ==
  /\ Callback(r)
  /\ ~Success(r)
  /\ settled' = [settled EXCEPT ![r] = "rejected"]
  /\ UNCHANGED local

Succeed(r, method) ==
  /\ Callback(r)
  /\ asked[r].method = method
  /\ Success(r)
  /\ settled' = [settled EXCEPT ![r] = "resolved"]

\* The attributes are cleared and replaced, changed or not.
OnRead(r) ==
  /\ Succeed(r, "read")
  /\ model' = [model EXCEPT !.attributes = response[r].content]
  /\ DeclareInSync(TRUE)

OnCreate(r) ==
  /\ Succeed(r, "create")
  /\ model' = [model EXCEPT !.id = response[r].id]
  /\ DeclareInSync(StillSame(r))

OnUpdate(r) ==
  /\ Succeed(r, "update")
  /\ DeclareInSync(StillSame(r))
  /\ UNCHANGED model

\* declare_fully_out_of_sync().
OnDelete(r) ==
  /\ Succeed(r, "delete")
  /\ model' = [model EXCEPT !.id = None]
  /\ changed' = Keys

SyncCallback(r) == Fail(r) \/ OnRead(r) \/ OnCreate(r) \/ OnUpdate(r) \/ OnDelete(r)

Serve(r) == Proceed(r) /\ UNCHANGED <<local, calls>>

SyncNext ==
  \/ \E k \in Keys, v \in Values : Set(k, v)
  \/ \E r \in Requests, method \in {"create", "read", "update", "delete"} :
       Sync(r, method) \/ SyncRejected(r, method)
  \/ \E r \in Requests : Serve(r) \/ SyncCallback(r)

SyncSafeSpec == SyncInit /\ [][SyncNext]_syncVars

\* The service goes on with what it was asked, and callbacks are called.
SyncSpec ==
  /\ SyncSafeSpec
  /\ \A r \in Requests : WF_syncVars(Serve(r) \/ SyncCallback(r))

--------------------------------------------------------------------------------
(***************************************************************************)
(* What an application may rely on.                                        *)
(***************************************************************************)

\* When an application waits for each call, an attribute that is not to be sent any more
\* is on the server as it is in the model, whatever was changed while the call was on its
\* way and whether it succeeded or not (backbone_sync_to_restlink_mixin.js:103-107,
\* 135-142).
NoChangeIsLost ==
  MaxCalls = 1 /\ Pending = {} =>
    \A k \in Keys \ changed : /\ model.id # None /\ store[model.id] # None
                              /\ model.attributes[k] = store[model.id][k]

\* Every call of sync() settles its promise, through the handlers of the service, their
\* store and back.
SyncSettles == \A r \in Requests : settled[r] = "pending" ~> settled[r] \in {"resolved", "rejected"}

--------------------------------------------------------------------------------

\* "still same data, ok" (lines 105, 140): a model that is declared in sync has the
\* attributes of its resource.  But with two calls on their way the data may be the same
\* again, or the answer of one tell nothing of the other.
InSyncIsTrue ==
  Pending = {} /\ changed = {} /\ model.id # None => store[model.id] = model.attributes
================================================================================
