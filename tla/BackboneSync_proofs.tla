-------------------------- MODULE BackboneSync_proofs --------------------------
(***************************************************************************)
(* Theorems about BackboneService and about the client's BackboneSync on   *)
(* top of it, for any requests, ids and attributes.                        *)
(***************************************************************************)
EXTENDS BackboneSync, FiniteSetTheorems, TLAPS

--------------------------------------------------------------------------------
(***************************************************************************)
(* The service.                                                            *)
(***************************************************************************)

\* The variables of a request agree on where its handler is.
Lifecycle(r) ==
  /\ op[r] # "none" => r \notin unsafe /\ response[r] = NoResponse /\ asked[r] # NoRequest
  /\ outcome[r] # "none" => op[r] # "none"
  /\ r \in unsafe => response[r] = NoResponse /\ asked[r] # NoRequest
  /\ response[r] # NoResponse => asked[r] # NoRequest
  /\ sends[r] = IF response[r] = NoResponse THEN 0 ELSE 1

\* What the store works on for a request is what was asked for.
Fits(r) ==
  /\ op[r] # "none" => \/ op[r] = FirstOp(asked[r].method)
                       \/ asked[r].method = "update" /\ op[r] = "update"
  /\ op[r] \in {"read", "update", "delete"} => asked[r].id \in Ids /\ instance[r].id = asked[r].id
  /\ outcome[r] = "missing" => op[r] \in {"read", "update", "find"}
  /\ op[r] = "update" \/ (op[r] \in {"create", "read"} /\ outcome[r] = "done") =>
       instance[r].id \in given

\* What a handler knows of its resource was so while the request was under way.
Knows(r) ==
  /\ op[r] = "read" =>
       /\ store[instance[r].id] \in seen[r]
       /\ outcome[r] = "done" => instance[r].attributes \in seen[r] \ {None}
       /\ outcome[r] = "missing" => None \in seen[r]
  /\ op[r] = "update" =>
       \E v \in seen[r] \ {None} : instance[r].attributes = Patch(v, asked[r].content)

\* AnswersAreTrue, of one request.
AnswerIsTrue(r) ==
  /\ asked[r].method = "read" /\ response[r].status = "200" =>
       response[r].content \in seen[r] \ {None}
  /\ asked[r].method = "update" /\ response[r].status = "200" =>
       \E v \in seen[r] \ {None} : instance[r].attributes = Patch(v, asked[r].content)
  /\ response[r].status = "404" => None \in seen[r]

RequestInv(r) == Lifecycle(r) /\ Fits(r) /\ Knows(r) /\ AnswerIsTrue(r)

ServiceInv ==
  /\ ServiceTypeOK
  /\ \A r \in Requests : RequestInv(r)

LEMMA PatchIsRecord ==
  ASSUME NEW attributes \in Records, NEW content
  PROVE  Patch(attributes, content) \in Records
<1> SUFFICES ASSUME NEW k \in Keys, content \in Patches, k \in DOMAIN content
             PROVE  content[k] \in Values
  BY DEF Patch, Records
<1> PICK K \in SUBSET Keys : content \in [K -> Values]
  BY DEF Patches
<1> QED
  OBVIOUS

LEMMA ServiceInvInit == ServiceInit => ServiceInv
<1> SUFFICES ASSUME ServiceInit PROVE ServiceInv
  OBVIOUS
<1>1. ServiceTypeOK
  BY ContentAssumption DEF ServiceInit, ServiceTypeOK, NoRequest, NoResponse, Statuses
<1>2. ASSUME NEW r \in Requests PROVE RequestInv(r)
  BY <1>2 DEF ServiceInit, RequestInv, Lifecycle, Fits, Knows, AnswerIsTrue, NoRequest, NoResponse
<1> QED
  BY <1>1, <1>2 DEF ServiceInv

--------------------------------------------------------------------------------

\* The handler of a request leaves another one alone ...
Same(q) ==
  /\ asked'[q] = asked[q] /\ instance'[q] = instance[q] /\ op'[q] = op[q]
  /\ outcome'[q] = outcome[q] /\ response'[q] = response[q] /\ sends'[q] = sends[q]
  /\ q \in unsafe' <=> q \in unsafe

\* ... and the store adds to what that one sees.
LEMMA OthersKeep ==
  ASSUME ServiceInv, NEW q \in Requests, Same(q),
         seen[q] \subseteq seen'[q], given \subseteq given',
         op[q] = "read" => store'[instance[q].id] \in seen'[q]
  PROVE  RequestInv(q)'
<1>1. Lifecycle(q)' /\ Fits(q)'
  BY DEF ServiceInv, RequestInv, Lifecycle, Fits, Same
<1>2. Knows(q)' /\ AnswerIsTrue(q)'
  BY DEF ServiceInv, RequestInv, Knows, AnswerIsTrue, Same
<1> QED
  BY <1>1, <1>2 DEF RequestInv

\* So a step of a handler that does not involve the store disturbs its own request only.
LEMMA QuietStep ==
  ASSUME ServiceInv, NEW r \in Requests, UNCHANGED storage,
         \A q \in Requests \ {r} : Same(q) /\ seen'[q] = seen[q],
         ServiceTypeOK', RequestInv(r)'
  PROVE  ServiceInv'
<1>1. ASSUME NEW q \in Requests, q # r PROVE RequestInv(q)'
  <2>1. op[q] = "read" => store'[instance[q].id] \in seen'[q]
    BY <1>1 DEF ServiceInv, RequestInv, Knows, storage
  <2> QED
    BY <1>1, <2>1, OthersKeep DEF storage
<1> QED
  BY <1>1 DEF ServiceInv

LEMMA ComeStep ==
  ASSUME ServiceInv, NEW r \in Requests, Come(r) PROVE ServiceInv'
<1> PICK method \in Methods, id \in Ids \cup {None}, content \in Contents :
         Ask(r, method, id, content) \/ Refuse(r, method, id, content)
  BY DEF Come
<1> USE DEF Arrive, Fresh
<1>0. /\ Lifecycle(r) /\ ServiceTypeOK
      /\ method # "none" /\ asked[r] = NoRequest
  BY DEF ServiceInv, RequestInv, Ask, Refuse, Methods
<1>1. /\ response[r] = NoResponse /\ sends[r] = 0
      /\ op[r] = "none" /\ outcome[r] = "none" /\ r \notin unsafe
  BY <1>0 DEF Lifecycle, ServiceTypeOK
<1>2. /\ asked' = [asked EXCEPT ![r] = [method |-> method, id |-> id, content |-> content]]
      /\ asked'[r] = [method |-> method, id |-> id, content |-> content]
      /\ asked'[r] # NoRequest
      /\ method \in {"read", "update", "delete"} => id \in Ids
      /\ method \in {"read", "update"} => seen'[r] = {store[id]}
      /\ \A q \in Requests \ {r} : asked'[q] = asked[q] /\ seen'[q] = seen[q]
  BY <1>0 DEF Ask, Refuse, ServiceTypeOK, NoRequest
<1>3. /\ asked' \in [Requests -> [method : Methods, id : Ids \cup {None}, content : Contents]
                                  \cup {NoRequest}]
      /\ seen' \in [Requests -> SUBSET (Records \cup {None})]
  BY <1>0, <1>2 DEF Ask, Refuse, ServiceTypeOK
<1>4. CASE Ask(r, method, id, content)
  <2>1. /\ Patch(Blank, content) \in Records /\ Blank \in Records
        /\ FirstOp(method) \in {"create", "read", "update", "delete", "find"}
    BY PatchIsRecord, ContentAssumption DEF FirstOp
  <2>2. ServiceTypeOK'
    BY <1>0, <1>3, <1>4, <2>1 DEF Ask, ServiceTypeOK, storage, replies
  <2>3. Lifecycle(r)'
    BY <1>0, <1>1, <1>2, <1>4 DEF Ask, Lifecycle, ServiceTypeOK, replies
  <2>4. /\ op'[r] = FirstOp(method) /\ outcome'[r] = "none" /\ instance'[r].id = id
        /\ response'[r].status = "none"
    BY <1>0, <1>1, <1>4 DEF Ask, ServiceTypeOK, replies, NoResponse
  <2>8. /\ FirstOp(method) # "update"
        /\ FirstOp(method) = "read" => method \in {"read", "update"}
        /\ FirstOp(method) = "delete" => method = "delete"
    BY DEF FirstOp
  <2>5. Fits(r)'
    BY <1>2, <2>4, <2>8 DEF Fits
  <2>6. Knows(r)' /\ AnswerIsTrue(r)'
    BY <1>2, <1>4, <2>4, <2>8 DEF Knows, AnswerIsTrue, Ask, storage
  <2>7. \A q \in Requests \ {r} : Same(q)
    BY <1>0, <1>2, <1>4 DEF Ask, Same, ServiceTypeOK, replies
  <2> QED
    BY <1>2, <1>4, <2>2, <2>3, <2>5, <2>6, <2>7, QuietStep DEF Ask, RequestInv
<1>5. CASE Refuse(r, method, id, content)
  <2>1. PICK code \in Refusals(method, content) : Respond(r, Status(code))
    BY <1>5 DEF Refuse
  <2>2. code \in {"406", "500", "501"}
    BY <2>1 DEF Refusals
  <2>3. /\ Status(code) \in [status : Statuses, content : Records \cup {None}, id : Ids \cup {None}]
        /\ Status(code).status = code
    BY <2>2 DEF Status, NoResponse, Statuses
  <2>4. ServiceTypeOK'
    BY <1>0, <1>3, <1>5, <2>1, <2>2, <2>3 DEF Refuse, Respond, ServiceTypeOK, storage, handler
  <2>5. /\ response'[r] = Status(code) /\ sends'[r] = 1 /\ Status(code) # NoResponse
        /\ op'[r] = "none" /\ outcome'[r] = "none" /\ r \notin unsafe'
    BY <1>0, <1>1, <1>5, <2>1, <2>2, <2>3 DEF Refuse, Respond, ServiceTypeOK, handler, NoResponse
  <2>6. Lifecycle(r)' /\ Fits(r)' /\ Knows(r)' /\ AnswerIsTrue(r)'
    BY <1>2, <2>2, <2>3, <2>5 DEF Lifecycle, Fits, Knows, AnswerIsTrue
  <2>7. \A q \in Requests \ {r} : Same(q)
    BY <1>0, <1>2, <1>5, <2>1 DEF Refuse, Respond, Same, ServiceTypeOK, handler
  <2> QED
    BY <1>2, <1>5, <2>4, <2>6, <2>7, QuietStep DEF Refuse, RequestInv
<1> QED
  BY <1>4, <1>5

LEMMA AnswerStep ==
  ASSUME ServiceInv, NEW r \in Requests, Answer(r) PROVE ServiceInv'
<1>0. /\ Lifecycle(r) /\ Fits(r) /\ Knows(r) /\ ServiceTypeOK
      /\ outcome[r] = "done" /\ UNCHANGED <<storage, asked, instance, unsafe, seen>>
  BY DEF ServiceInv, RequestInv, Answer
<1> DEFINE m == instance[r]
<1>1. /\ response[r] = NoResponse /\ sends[r] = 0 /\ op[r] # "none"
      /\ r \notin unsafe /\ asked[r] # NoRequest
      /\ m \in [id : Ids \cup {None}, attributes : Records]
  BY <1>0 DEF Lifecycle, ServiceTypeOK
<1>2. PICK answer \in {Created(m), WithContent("200", m.attributes), Status("200"), Status("204")} :
        /\ Respond(r, answer)
        /\ answer = Created(m) => op[r] = "create"
        /\ op[r] = "read" => answer = WithContent("200", m.attributes)
  <2> USE <1>0, <1>1
  <2>1. op[r] \in {"create", "read", "update", "delete", "find"}
    BY DEF ServiceTypeOK
  <2>2. /\ Created(m).status = "201" /\ Status("200").status = "200"
        /\ Status("204").status = "204" /\ WithContent("200", m.attributes).status = "200"
    BY DEF Created, Status, WithContent, NoResponse
  <2>3. CASE op[r] = "create"
    BY <2>2, <2>3 DEF Answer
  <2>4. CASE op[r] = "read"
    BY <2>2, <2>4 DEF Answer
  <2>5. CASE op[r] = "update"
    BY <2>2, <2>5 DEF Answer
  <2>6. CASE op[r] = "delete"
    BY <2>2, <2>6 DEF Answer
  <2>7. CASE op[r] = "find"
    BY <2>2, <2>7 DEF Answer
  <2> QED
    BY <2>1, <2>3, <2>4, <2>5, <2>6, <2>7
<1>3. /\ answer \in [status : {"200", "201", "204"}, content : Records \cup {None},
                     id : Ids \cup {None}]
      /\ answer.status = "201" => answer = Created(m) /\ answer.id = m.id
      /\ answer # NoResponse
  <2>1. CASE answer = Created(m)
    BY <1>1, <2>1 DEF Created, Status, WithContent, NoResponse
  <2>2. CASE answer = WithContent("200", m.attributes)
    BY <1>1, <2>2 DEF Status, WithContent, NoResponse
  <2>3. CASE answer = Status("200")
    BY <2>3 DEF Status, NoResponse
  <2>4. CASE answer = Status("204")
    BY <2>4 DEF Status, NoResponse
  <2> QED
    BY <1>2, <2>1, <2>2, <2>3, <2>4
<1>4. answer.status = "201" => answer.id \in given
  BY <1>0, <1>2, <1>3 DEF Fits
<1>5. ServiceTypeOK'
  BY <1>0, <1>2, <1>3, <1>4 DEF Answer, Respond, Over, ServiceTypeOK, Statuses, storage
<1>6. /\ response'[r] = answer /\ sends'[r] = 1 /\ op'[r] = "none" /\ outcome'[r] = "none"
      /\ \A q \in Requests \ {r} : Same(q) /\ seen'[q] = seen[q]
  BY <1>0, <1>1, <1>2 DEF Answer, Respond, Over, Same, ServiceTypeOK
<1>7. Lifecycle(r)' /\ Fits(r)' /\ Knows(r)'
  BY <1>0, <1>1, <1>3, <1>6 DEF Lifecycle, Fits, Knows
<1>8. AnswerIsTrue(r)'
  <2>1. op[r] = "read" => asked[r].method # "update"
    BY <1>0 DEF Answer
  <2>2. asked[r].method = "read" => op[r] = "read"
    BY <1>0, <1>1 DEF Fits, FirstOp
  <2>3. asked[r].method = "update" => op[r] = "update"
    BY <1>0, <1>1, <2>1 DEF Fits, FirstOp
  <2>4. CASE asked[r].method = "read"
    <3>1. answer.content = instance[r].attributes
      BY <1>2, <2>2, <2>4 DEF WithContent, Status, NoResponse
    <3> QED
      BY <1>0, <1>3, <1>6, <2>2, <2>4, <3>1 DEF AnswerIsTrue, Knows
  <2>5. CASE asked[r].method = "update"
    BY <1>0, <1>3, <1>6, <2>3, <2>5 DEF AnswerIsTrue, Knows
  <2> QED
    BY <1>0, <1>3, <1>6, <2>4, <2>5 DEF AnswerIsTrue
<1> QED
  BY <1>0, <1>5, <1>6, <1>7, <1>8, QuietStep DEF RequestInv

\* The callbacks that end without an answer, or with a failure.
LEMMA CallbackStep ==
  ASSUME ServiceInv, NEW r \in Requests,
         SaveFetched(r) \/ CallbackThrows(r) \/ Reject(r) \/ RejectSave(r) \/ CatchAll(r)
  PROVE  ServiceInv'
<1>0. Lifecycle(r) /\ Fits(r) /\ Knows(r) /\ AnswerIsTrue(r) /\ ServiceTypeOK
  BY DEF ServiceInv, RequestInv
<1>1. CASE SaveFetched(r)
  <2>1. /\ asked[r] \in [method : Methods, id : Ids \cup {None}, content : Contents] \cup {NoRequest}
        /\ instance[r].attributes \in Records
        /\ Patch(instance[r].attributes, asked[r].content) \in Records
    BY <1>0, PatchIsRecord DEF ServiceTypeOK
  <2>2. ServiceTypeOK'
    BY <1>0, <1>1, <2>1 DEF SaveFetched, ServiceTypeOK, storage, replies
  <2>3. /\ instance'[r].id = instance[r].id
        /\ instance'[r].attributes = Patch(instance[r].attributes, asked[r].content)
        /\ op'[r] = "update" /\ outcome'[r] = "none"
        /\ UNCHANGED <<asked[r], response[r], sends[r], seen[r], unsafe, given>>
    BY <1>0, <1>1 DEF SaveFetched, ServiceTypeOK, replies, storage
  <2>4. Lifecycle(r)' /\ Fits(r)'
    BY <1>0, <1>1, <2>3 DEF SaveFetched, Lifecycle, Fits
  <2>5. /\ Patch(instance[r].attributes, asked[r].content)'
             = Patch(instance'[r].attributes, asked'[r].content)
        /\ instance[r].attributes \in seen'[r] \ {None}
        /\ response'[r].status = "none"
    BY <1>0, <1>1, <2>3 DEF SaveFetched, Knows, Lifecycle, NoResponse
  <2>6. Knows(r)' /\ AnswerIsTrue(r)'
    BY <2>3, <2>5 DEF Knows, AnswerIsTrue
  <2>7. \A q \in Requests \ {r} : Same(q) /\ seen'[q] = seen[q]
    BY <1>0, <1>1 DEF SaveFetched, Same, ServiceTypeOK, replies
  <2> QED
    BY <1>1, <2>2, <2>4, <2>6, <2>7, QuietStep DEF SaveFetched, RequestInv
<1>2. CASE CallbackThrows(r) \/ RejectSave(r)
  <2>1. /\ unsafe' = unsafe \cup {r} /\ Over(r) /\ UNCHANGED <<storage, asked, instance, replies, seen>>
        /\ outcome[r] # "none"
    BY <1>2 DEF CallbackThrows, RejectSave
  <2>2. ServiceTypeOK'
    BY <1>0, <2>1 DEF Over, ServiceTypeOK, storage, replies
  <2>3. op'[r] = "none" /\ outcome'[r] = "none"
    BY <1>0, <2>1 DEF Over, ServiceTypeOK
  <2>4. RequestInv(r)'
    BY <1>0, <2>1, <2>3 DEF RequestInv, Lifecycle, Fits, Knows, AnswerIsTrue, replies
  <2>5. \A q \in Requests \ {r} : Same(q) /\ seen'[q] = seen[q]
    BY <1>0, <2>1 DEF Over, Same, ServiceTypeOK, replies
  <2> QED
    BY <2>1, <2>2, <2>4, <2>5, QuietStep
<1>3. CASE Reject(r) \/ CatchAll(r)
  <2>1. PICK code \in {"404", "500", "501"} :
          /\ Respond(r, Status(code))
          /\ code = "404" => op[r] = "read" /\ outcome[r] = "missing"
    <3>1. CASE CatchAll(r)
      BY <3>1 DEF CatchAll
    <3>2. CASE Reject(r)
      BY <1>0, <3>2 DEF Reject, Fits, Hint
    <3> QED
      BY <1>3, <3>1, <3>2
  <2>2. /\ response[r] = NoResponse /\ sends[r] = 0 /\ asked[r] # NoRequest
        /\ UNCHANGED <<storage, asked, instance, seen>>
        /\ op'[r] = "none" /\ outcome'[r] = "none" /\ r \notin unsafe'
    <3>1. CASE CatchAll(r)
      BY <1>0, <3>1 DEF CatchAll, Lifecycle
    <3>2. CASE Reject(r)
      <4>1. op[r] # "none" /\ response[r] = NoResponse /\ asked[r] # NoRequest /\ sends[r] = 0
        BY <1>0, <3>2 DEF Reject, Lifecycle
      <4> QED
        BY <1>0, <3>2, <4>1 DEF Reject, Lifecycle, Over, ServiceTypeOK
    <3> QED
      BY <1>3, <3>1, <3>2
  <2>3. /\ Status(code) \in [status : Statuses, content : Records \cup {None}, id : Ids \cup {None}]
        /\ Status(code).status = code /\ Status(code) # NoResponse
    BY <2>1 DEF Status, NoResponse, Statuses
  <2>4. ServiceTypeOK'
    <3>1. /\ op' \in [Requests -> {"none", "create", "read", "update", "delete", "find"}]
          /\ outcome' \in [Requests -> {"none", "done", "missing", "failed"}]
          /\ unsafe' \subseteq Requests
      BY <1>0, <1>3 DEF Reject, CatchAll, Over, ServiceTypeOK
    <3>2. /\ response' \in [Requests -> [status : Statuses, content : Records \cup {None},
                                         id : Ids \cup {None}] \cup {NoResponse}]
          /\ \A q \in Requests : response'[q].status = "201" => response'[q].id \in given
          /\ sends' \in [Requests -> Nat]
      BY <1>0, <2>1, <2>3 DEF Respond, ServiceTypeOK
    <3> QED
      BY <1>0, <2>2, <3>1, <3>2 DEF ServiceTypeOK, storage
  <2>5. response'[r] = Status(code) /\ sends'[r] = 1
    BY <1>0, <2>1, <2>2 DEF Respond, ServiceTypeOK
  <2>6. RequestInv(r)'
    BY <1>0, <2>1, <2>2, <2>3, <2>5 DEF RequestInv, Lifecycle, Fits, Knows, AnswerIsTrue
  <2>7. \A q \in Requests \ {r} : Same(q) /\ seen'[q] = seen[q]
    BY <1>0, <1>3, <2>1, <2>2 DEF Reject, CatchAll, Respond, Over, Same, ServiceTypeOK
  <2> QED
    BY <2>2, <2>4, <2>6, <2>7, QuietStep
<1> QED
  BY <1>1, <1>2, <1>3

--------------------------------------------------------------------------------

\* What the store does without writing.
LEMMA StoreAnswerStep ==
  ASSUME ServiceInv, NEW r \in Requests,
         StoreFetches(r) \/ StoreFinds(r) \/ StoreMisses(r) \/ StoreFails(r)
  PROVE  ServiceInv'
<1>0. /\ Lifecycle(r) /\ Fits(r) /\ Knows(r) /\ AnswerIsTrue(r) /\ ServiceTypeOK
      /\ op[r] # "none" /\ outcome[r] = "none"
      /\ UNCHANGED <<storage, asked, op, unsafe, replies, seen>>
  BY DEF ServiceInv, RequestInv, StoreFetches, StoreFinds, StoreMisses, StoreFails, Waiting
<1>1. PICK result \in {"done", "missing", "failed"} : Told(r, result)
  BY DEF StoreFetches, StoreFinds, StoreMisses, StoreFails
<1>2. outcome'[r] = result
  BY <1>0, <1>1 DEF Told, ServiceTypeOK
<1>3. CASE StoreFetches(r)
  <2>1. /\ op[r] = "read" /\ instance[r].id \in Ids /\ store[instance[r].id] \in Records
        /\ store[instance[r].id] # None /\ outcome'[r] = "done"
    BY <1>0, <1>3 DEF StoreFetches, Waiting, Told, Fits, ServiceTypeOK
  <2>2. ServiceTypeOK'
    BY <1>0, <1>1, <1>3, <2>1 DEF StoreFetches, Told, ServiceTypeOK, storage, replies
  <2>3. instance'[r].id = instance[r].id /\ instance'[r].attributes = store[instance[r].id]
    BY <1>0, <1>3 DEF StoreFetches, ServiceTypeOK
  <2>4. instance[r].id \in given
    BY <1>0, <2>1 DEF ServiceTypeOK
  <2>5. Lifecycle(r)' /\ Fits(r)'
    BY <1>0, <2>1, <2>3, <2>4 DEF Lifecycle, Fits, storage, replies
  <2>6. Knows(r)' /\ AnswerIsTrue(r)'
    BY <1>0, <2>1, <2>3 DEF Knows, AnswerIsTrue, storage, replies, Lifecycle, NoResponse
  <2>7. \A q \in Requests \ {r} : Same(q) /\ seen'[q] = seen[q]
    BY <1>0, <1>1, <1>3 DEF StoreFetches, Told, Same, ServiceTypeOK, replies
  <2> QED
    BY <1>0, <2>2, <2>5, <2>6, <2>7, QuietStep DEF RequestInv
<1>4. CASE ~StoreFetches(r)
  <2>1. /\ instance' = instance
        /\ result = "done" => op[r] = "find"
        /\ result = "missing" => \/ op[r] = "find"
                                 \/ op[r] \in {"read", "update"} /\ store[instance[r].id] = None
    BY <1>0, <1>2, <1>4 DEF StoreFinds, StoreMisses, StoreFails, Waiting, Told, ServiceTypeOK
  <2>2. ServiceTypeOK'
    BY <1>0, <1>1, <2>1 DEF Told, ServiceTypeOK, storage, replies
  <2>3. RequestInv(r)'
    BY <1>0, <1>2, <2>1 DEF RequestInv, Lifecycle, Fits, Knows, AnswerIsTrue, storage, replies
  <2>4. \A q \in Requests \ {r} : Same(q) /\ seen'[q] = seen[q]
    BY <1>0, <1>1, <2>1 DEF Told, Same, ServiceTypeOK, replies
  <2> QED
    BY <1>0, <2>2, <2>3, <2>4, QuietStep
<1> QED
  BY <1>3, <1>4

\* What the store writes, the other requests see.
LEMMA WriteKeepsOthers ==
  ASSUME ServiceInv, NEW r \in Requests, NEW id \in Ids, NEW attributes \in Records \cup {None},
         Write(r, id, attributes), given \subseteq given',
         NEW q \in Requests, q # r, Same(q)
  PROVE  RequestInv(q)'
<1>0. Lifecycle(q) /\ Fits(q) /\ Knows(q) /\ ServiceTypeOK
  BY DEF ServiceInv, RequestInv
<1>1. seen[q] \subseteq seen'[q]
  BY <1>0 DEF Write, ServiceTypeOK
<1>2. ASSUME op[q] = "read" PROVE store'[instance[q].id] \in seen'[q]
  <2>1. /\ q \notin Answered \cup {r} /\ asked[q].method # "delete"
        /\ asked[q].id = instance[q].id /\ instance[q].id \in Ids
        /\ store[instance[q].id] \in seen[q]
    BY <1>0, <1>2 DEF Lifecycle, Fits, Knows, Answered, FirstOp
  <2>2. CASE id = instance[q].id
    BY <1>0, <2>1, <2>2 DEF Write, ServiceTypeOK
  <2>3. CASE id # instance[q].id
    BY <1>0, <2>1, <2>3 DEF Write, ServiceTypeOK
  <2> QED
    BY <2>2, <2>3
<1> QED
  BY <1>1, <1>2, OthersKeep

LEMMA StoreWriteStep ==
  ASSUME ServiceInv, NEW r \in Requests, StoreCreates(r) \/ StoreSaves(r) \/ StoreDeletes(r)
  PROVE  ServiceInv'
<1>0. /\ Lifecycle(r) /\ Fits(r) /\ Knows(r) /\ AnswerIsTrue(r) /\ ServiceTypeOK
      /\ op[r] \in {"create", "update", "delete"} /\ outcome[r] = "none" /\ Told(r, "done")
      /\ UNCHANGED <<asked, op, unsafe, replies>>
  BY DEF ServiceInv, RequestInv, StoreCreates, StoreSaves, StoreDeletes, Waiting
<1>1. PICK id \in Ids, attributes \in Records \cup {None} :
        /\ Write(r, id, attributes)
        /\ given \subseteq given' /\ given' \subseteq Ids
        /\ attributes # None => id \in given'
        /\ op[r] = "create" => instance' = [instance EXCEPT ![r].id = id] /\ id \in given'
        /\ op[r] # "create" => instance' = instance
  <2>1. CASE StoreCreates(r)
    BY <1>0, <2>1 DEF StoreCreates, Waiting, ServiceTypeOK
  <2>2. CASE StoreSaves(r)
    <3>1. /\ op[r] = "update" /\ Write(r, instance[r].id, instance[r].attributes)
          /\ UNCHANGED <<given, instance>>
      BY <2>2 DEF StoreSaves, Waiting
    <3>2. instance[r].id \in given /\ given \subseteq Ids /\ instance[r].attributes \in Records
      BY <1>0, <3>1 DEF Fits, ServiceTypeOK
    <3> QED
      BY <3>1, <3>2
  <2>3. CASE StoreDeletes(r)
    <3>1. /\ op[r] = "delete" /\ Write(r, instance[r].id, None)
          /\ UNCHANGED <<given, instance>>
      BY <2>3 DEF StoreDeletes, Waiting
    <3>2. instance[r].id \in Ids /\ given \subseteq Ids
      BY <1>0, <3>1 DEF Fits, ServiceTypeOK
    <3> QED
      BY <3>1, <3>2
  <2> QED
    BY <2>1, <2>2, <2>3
<1>2. store' \in [Ids -> Records \cup {None}] /\ \A i \in Ids : store'[i] # None => i \in given'
  BY <1>0, <1>1 DEF Write, ServiceTypeOK
<1>3. seen' \in [Requests -> SUBSET (Records \cup {None})] /\ seen'[r] = seen[r]
  BY <1>0, <1>1 DEF Write, ServiceTypeOK
<1>4. /\ instance' \in [Requests -> [id : Ids \cup {None}, attributes : Records]]
      /\ outcome' \in [Requests -> {"none", "done", "missing", "failed"}]
      /\ outcome'[r] = "done"
  <2>1. instance \in [Requests -> [id : Ids \cup {None}, attributes : Records]]
    BY <1>0 DEF ServiceTypeOK
  <2>2. instance' \in [Requests -> [id : Ids \cup {None}, attributes : Records]]
    <3>1. CASE op[r] = "create"
      BY <1>1, <2>1, <3>1
    <3>2. CASE op[r] # "create"
      BY <1>1, <2>1, <3>2
    <3> QED
      BY <3>1, <3>2
  <2>3. outcome' \in [Requests -> {"none", "done", "missing", "failed"}] /\ outcome'[r] = "done"
    BY <1>0 DEF Told, ServiceTypeOK
  <2> QED
    BY <2>2, <2>3
<1>5. ServiceTypeOK'
  BY <1>0, <1>1, <1>2, <1>3, <1>4 DEF ServiceTypeOK, replies
<1>6. \A q \in Requests \ {r} : Same(q)
  BY <1>0, <1>1 DEF Told, Same, ServiceTypeOK, replies
<1>7. /\ op[r] = "create" => instance'[r].id \in given'
      /\ op[r] # "create" => instance'[r] = instance[r]
      /\ response'[r] = NoResponse
  BY <1>0, <1>1 DEF ServiceTypeOK, Lifecycle, replies
<1>8. RequestInv(r)'
  <2>1. Lifecycle(r)' /\ AnswerIsTrue(r)'
    BY <1>0, <1>7 DEF Lifecycle, AnswerIsTrue, replies, NoResponse
  <2>2. Fits(r)'
    BY <1>0, <1>1, <1>4, <1>7 DEF Fits
  <2>3. Knows(r)'
    BY <1>0, <1>3, <1>7 DEF Knows
  <2> QED
    BY <2>1, <2>2, <2>3 DEF RequestInv
<1> QED
  BY <1>1, <1>5, <1>6, <1>8, WriteKeepsOthers DEF ServiceInv

--------------------------------------------------------------------------------

LEMMA ServiceInvStep == ServiceInv /\ [ServiceNext]_serviceVars => ServiceInv'
<1> SUFFICES ASSUME ServiceInv, [ServiceNext]_serviceVars PROVE ServiceInv'
  OBVIOUS
<1>1. ASSUME NEW r \in Requests, Come(r) \/ Proceed(r) PROVE ServiceInv'
  BY <1>1, ComeStep, AnswerStep, CallbackStep, StoreAnswerStep, StoreWriteStep DEF Proceed
<1>2. CASE UNCHANGED serviceVars
  <2>1. ServiceTypeOK'
    BY <1>2 DEF ServiceInv, ServiceTypeOK, serviceVars, storage, handler, replies
  <2>2. ASSUME NEW r \in Requests PROVE RequestInv(r)'
    BY <1>2, <2>2 DEF ServiceInv, RequestInv, Lifecycle, Fits, Knows, AnswerIsTrue,
                      serviceVars, storage, handler, replies
  <2> QED
    BY <2>1, <2>2 DEF ServiceInv
<1> QED
  BY <1>1, <1>2 DEF ServiceNext

LEMMA ServiceInvAlways == ServiceSpec => []ServiceInv
BY ServiceInvInit, ServiceInvStep, PTL DEF ServiceSpec

\* The state of requests, their handlers and the store is well-formed, and a resource that is
\* said to be created has an id that the store gave.
THEOREM ServiceTypeCorrect == ServiceSpec => []ServiceTypeOK
<1>1. ServiceInv => ServiceTypeOK
  BY DEF ServiceInv
<1> QED
  BY <1>1, ServiceInvAlways, PTL

\* A read, an update and a 404 tell the truth about the resource, whatever other requests do
\* and however the store fails (serve_backbone_model.js:191-201, 257-262).
THEOREM AnswersAreTrueHolds == ServiceSpec => []AnswersAreTrue
<1>1. ServiceInv => AnswersAreTrue
  BY DEF ServiceInv, RequestInv, AnswersAreTrue, AnswerIsTrue, Answered
<1> QED
  BY <1>1, ServiceInvAlways, PTL

\* No request is answered twice: the callbacks of a handler exclude each other, and the final
\* catch-all only runs when none of them has answered (serve_backbone_model.js:191-213).
THEOREM AnsweredOnceHolds == ServiceSpec => []AnsweredOnce
<1>1. ServiceInv => AnsweredOnce
  BY DEF ServiceInv, RequestInv, Lifecycle, AnsweredOnce
<1> QED
  BY <1>1, ServiceInvAlways, PTL

--------------------------------------------------------------------------------
(***************************************************************************)
(* The client.                                                             *)
(***************************************************************************)

\* The types of the client, apart from those of the service.
ClientTypes ==
  /\ model \in [id : Ids \cup {None}, attributes : Records]
  /\ changed \subseteq Keys
  /\ copy \in [Requests -> Records]
  /\ settled \in [Requests -> {"none", "pending", "resolved", "rejected"}]

ClientInv == ServiceInv /\ ClientTypes /\ IsFiniteSet(Pending)

LEMMA ClientInvInit == SyncInit => ClientInv
<1> SUFFICES ASSUME SyncInit PROVE ClientInv
  OBVIOUS
<1>1. ServiceInv
  BY ServiceInvInit DEF SyncInit
<1>2. ClientTypes
  BY ContentAssumption DEF SyncInit, ClientTypes
<1>3. Pending = {}
  BY DEF SyncInit, Pending
<1> QED
  BY <1>1, <1>2, <1>3, FS_EmptySet DEF ClientInv

\* The request that a call of sync() makes is one that the service may get.
LEMMA SyncComes ==
  ASSUME ClientInv, NEW r \in Requests, NEW method \in {"create", "read", "update", "delete"},
         Sync(r, method)
  PROVE  /\ Come(r)
         /\ Ask(r, method, model.id, Request(method).content)
            \/ Refuse(r, method, model.id, Request(method).content)
         /\ Request(method).content \in Patches \cup {None}
<1>1. Ask(r, method, model.id, Request(method).content)
      \/ Refuse(r, method, model.id, Request(method).content)
  BY DEF Sync, Request
<1>2. Request(method).content = CASE method = "create" -> model.attributes
                                  [] method = "update" -> [k \in changed |-> model.attributes[k]]
                                  [] OTHER -> None
  BY DEF Request
<1>3. /\ model.id \in Ids \cup {None} /\ model.attributes \in Records
      /\ [k \in changed |-> model.attributes[k]] \in [changed -> Values]
  BY DEF ClientInv, ClientTypes, Records
<1>4. model.attributes \in Patches /\ [k \in changed |-> model.attributes[k]] \in Patches
  BY <1>3 DEF ClientInv, ClientTypes, Patches, Records
<1>5. Request(method).content \in Patches \cup {None}
  BY <1>2, <1>4
<1> QED
  BY <1>1, <1>3, <1>5, CallAssumption DEF Come, Methods

\* The set of pending calls when one of them begins, or ends.
LEMMA OnePending ==
  ASSUME ClientTypes, NEW r \in Requests, NEW promise \in {"pending", "resolved", "rejected"},
         settled' = [settled EXCEPT ![r] = promise]
  PROVE  Pending' = IF promise = "pending" THEN Pending \cup {r} ELSE Pending \ {r}
BY DEF ClientTypes, Pending

LEMMA ClientInvStep == ClientInv /\ [SyncNext]_syncVars => ClientInv'
<1> SUFFICES ASSUME ClientInv, [SyncNext]_syncVars PROVE ClientInv'
  OBVIOUS
<1>a. /\ ServiceTypeOK /\ \A r \in Requests : RequestInv(r)
      /\ model \in [id : Ids \cup {None}, attributes : Records]
      /\ changed \subseteq Keys /\ copy \in [Requests -> Records]
      /\ settled \in [Requests -> {"none", "pending", "resolved", "rejected"}]
  BY DEF ClientInv, ClientTypes, ServiceInv
<1>b. ASSUME UNCHANGED serviceVars PROVE ServiceInv'
  BY <1>b, ServiceInvStep DEF ClientInv
<1>c. ASSUME NEW r \in Requests, NEW promise \in {"pending", "resolved", "rejected"},
             settled' = [settled EXCEPT ![r] = promise]
      PROVE  /\ settled' \in [Requests -> {"none", "pending", "resolved", "rejected"}]
             /\ IsFiniteSet(Pending')
  <2>1. IsFiniteSet(Pending \cup {r}) /\ IsFiniteSet(Pending \ {r})
    BY FS_AddElement, FS_RemoveElement DEF ClientInv
  <2> QED
    BY <1>a, <1>c, <2>1, OnePending DEF ClientInv
<1>d. ASSUME UNCHANGED settled PROVE IsFiniteSet(Pending')
  BY <1>d DEF Pending, ClientInv
<1>1. ASSUME NEW k \in Keys, NEW v \in Values, Set(k, v) PROVE ClientInv'
  <2>1. /\ UNCHANGED <<serviceVars, copy, settled>> /\ changed' = changed \cup {k}
        /\ model' = [model EXCEPT !.attributes[k] = v]
    BY <1>1 DEF Set, calls
  <2>2. model' \in [id : Ids \cup {None}, attributes : Records]
    <3>1. [model.attributes EXCEPT ![k] = v] \in Records
      BY <1>a DEF Records
    <3>2. model' = [model EXCEPT !.attributes = [model.attributes EXCEPT ![k] = v]]
      BY <2>1
    <3> QED
      BY <1>a, <3>1, <3>2
  <2>3. ClientTypes'
    BY <1>a, <2>1, <2>2 DEF ClientTypes
  <2> QED
    BY <1>b, <1>d, <2>1, <2>3 DEF ClientInv
<1>2. ASSUME NEW r \in Requests, NEW method \in {"create", "read", "update", "delete"},
             Sync(r, method) \/ SyncRejected(r, method)
      PROVE  ClientInv'
  <2>1. PICK promise \in {"pending", "resolved", "rejected"} :
          settled' = [settled EXCEPT ![r] = promise]
    BY <1>2 DEF Sync, SyncRejected
  <2>2. ServiceInv'
    BY <1>2, <1>b, SyncComes, ServiceInvStep DEF ClientInv, ServiceNext, SyncRejected
  <2>3. UNCHANGED local /\ copy' \in [Requests -> Records]
    BY <1>2, <1>a DEF Sync, SyncRejected
  <2>4. ClientTypes'
    BY <1>a, <1>c, <2>1, <2>3 DEF ClientTypes, local
  <2> QED
    BY <1>c, <2>1, <2>2, <2>4 DEF ClientInv
<1>3. ASSUME NEW r \in Requests, Serve(r) PROVE ClientInv'
  <2>1. ServiceInv' /\ UNCHANGED <<model, changed, copy, settled>>
    BY <1>3, ServiceInvStep DEF Serve, ServiceNext, ClientInv, local, calls
  <2>2. ClientTypes'
    BY <1>a, <2>1 DEF ClientTypes
  <2> QED
    BY <1>d, <2>1, <2>2 DEF ClientInv
<1>4. ASSUME NEW r \in Requests, SyncCallback(r) PROVE ClientInv'
  <2>1. /\ UNCHANGED <<serviceVars, copy>>
        /\ \E promise \in {"resolved", "rejected"} : settled' = [settled EXCEPT ![r] = promise]
    BY <1>4 DEF SyncCallback, Fail, OnRead, OnCreate, OnUpdate, OnDelete, Succeed, Callback
  <2>2. changed' \subseteq Keys
    BY <1>4, <1>a DEF SyncCallback, Fail, OnRead, OnCreate, OnUpdate, OnDelete, DeclareInSync, local
  <2>3. model' \in [id : Ids \cup {None}, attributes : Records]
    <3>1. CASE Fail(r) \/ OnUpdate(r)
      BY <1>a, <3>1 DEF Fail, OnUpdate, local
    <3>2. CASE OnDelete(r)
      BY <1>a, <3>2 DEF OnDelete
    <3>3. CASE OnRead(r)
      <4>1. /\ asked[r].method = "read" /\ response[r].status = "200"
            /\ model' = [model EXCEPT !.attributes = response[r].content]
        BY <3>3 DEF OnRead, Succeed, Success
      <4>2. response[r].content \in seen[r] \ {None} /\ seen[r] \subseteq Records \cup {None}
        BY <1>a, <4>1 DEF RequestInv, AnswerIsTrue, ServiceTypeOK
      <4> QED
        BY <1>a, <4>1, <4>2
    <3>4. CASE OnCreate(r)
      <4>1. /\ response[r].status = "201" /\ model' = [model EXCEPT !.id = response[r].id]
        BY <3>4 DEF OnCreate, Succeed, Success
      <4>2. response[r].id \in Ids
        BY <1>a, <4>1 DEF ServiceTypeOK
      <4> QED
        BY <1>a, <4>1, <4>2
    <3> QED
      BY <1>4, <3>1, <3>2, <3>3, <3>4 DEF SyncCallback
  <2>4. ClientTypes'
    BY <1>a, <1>c, <2>1, <2>2, <2>3 DEF ClientTypes
  <2> QED
    BY <1>b, <1>c, <2>1, <2>4 DEF ClientInv
<1>5. CASE UNCHANGED syncVars
  <2>1. UNCHANGED <<serviceVars, model, changed, copy, settled>>
    BY <1>5 DEF syncVars, local, calls
  <2> QED
    BY <1>a, <1>b, <1>d, <2>1 DEF ClientInv, ClientTypes
<1> QED
  BY <1>1, <1>2, <1>3, <1>4, <1>5 DEF SyncNext

LEMMA ClientInvAlways == SyncSafeSpec => []ClientInv
BY ClientInvInit, ClientInvStep, PTL DEF SyncSafeSpec

\* The state of the client and of the service that it talks to is well-formed.
THEOREM SyncTypeCorrect == SyncSafeSpec => []SyncTypeOK
<1>1. ClientInv => SyncTypeOK
  BY DEF ClientInv, ClientTypes, ServiceInv, SyncTypeOK
<1> QED
  BY <1>1, ClientInvAlways, PTL
\* The model and its resource agree on an attribute.
Agree(k) == /\ model.id # None /\ store[model.id] # None
            /\ model.attributes[k] = store[model.id][k]

\* What is so while a call is pending, by the method that it asks for: what the handler, the
\* store and the response hold of the attributes that were sent.
Saved(p) == (op[p] = "update" /\ outcome[p] = "done") \/ response[p].status = "200"

Creates(p) ==
  /\ model.id = None /\ changed = Keys /\ asked[p].content = copy[p]
  /\ op[p] = "create" => instance[p].attributes = copy[p]
  /\ op[p] = "create" /\ outcome[p] = "done" => store[instance[p].id] = copy[p]
  /\ response[p].status = "201" => store[response[p].id] = copy[p]

Reads(p) ==
  /\ \A k \in Keys \ changed : Agree(k)
  /\ op[p] = "read" /\ outcome[p] = "done" => instance[p].attributes = store[model.id]
  /\ response[p].status = "200" => response[p].content = store[model.id]

Updates(p) ==
  LET sent == DOMAIN asked[p].content
  IN  /\ sent \subseteq changed /\ asked[p].content = [k \in sent |-> copy[p][k]]
      /\ \A k \in Keys \ sent : store[model.id] # None /\ store[model.id][k] = copy[p][k]
      /\ op[p] = "read" /\ outcome[p] = "done" => instance[p].attributes = store[model.id]
      /\ op[p] = "update" => instance[p].attributes = copy[p]
      /\ Saved(p) => store[model.id] = copy[p]

Deletes(p) ==
  \/ \A k \in Keys \ changed : Agree(k)
  \/ op[p] = "delete" /\ outcome[p] = "done"
  \/ response[p].status = "204"

PendingInv(p) ==
  /\ asked[p].id = model.id
  /\ \A k \in Keys \ changed : model.attributes[k] = copy[p][k]
  /\ \/ asked[p].method = "create" /\ Creates(p)
     \/ asked[p].method = "read" /\ model.id # None /\ Reads(p)
     \/ asked[p].method = "update" /\ model.id # None /\ Updates(p)
     \/ asked[p].method = "delete" /\ model.id # None /\ Deletes(p)

CallsInv ==
  /\ \A p, q \in Pending : p = q
  /\ \A r \in Requests \ Pending : r \in Fresh \cup Answered
  /\ \A p \in Pending : PendingInv(p)
  /\ Pending = {} => \A k \in Keys \ changed : Agree(k)

\* What a step of the service does for a request.
Effect(r) ==
  \/ /\ store' = store /\ instance'[r] = instance[r] /\ response'[r] = NoResponse
     /\ op'[r] \in {op[r], "none"} /\ (outcome'[r] = "done" => op'[r] = "find")
  \/ /\ store' = store /\ op'[r] = "none" /\ outcome'[r] = "none"
     /\ response'[r].status \in {"404", "500", "501"}
  \/ /\ op[r] = "read" /\ store' = store /\ op'[r] = "read" /\ response'[r] = NoResponse
     /\ instance'[r].attributes = store[instance[r].id]
  \/ /\ op[r] = "create" /\ op'[r] = "create" /\ response'[r] = NoResponse
     /\ instance'[r].attributes = instance[r].attributes
     /\ store'[instance'[r].id] = instance[r].attributes
  \/ /\ op[r] = "update" /\ op'[r] = "update" /\ response'[r] = NoResponse
     /\ instance'[r] = instance[r]
     /\ store' = [store EXCEPT ![instance[r].id] = instance[r].attributes]
  \/ /\ op[r] = "delete" /\ op'[r] = "delete" /\ outcome'[r] = "done" /\ response'[r] = NoResponse
  \/ /\ op[r] = "read" /\ outcome[r] = "done" /\ asked[r].method = "update"
     /\ store' = store /\ op'[r] = "update" /\ outcome'[r] = "none" /\ response'[r] = NoResponse
     /\ instance'[r].attributes = Patch(instance[r].attributes, asked[r].content)
  \/ /\ outcome[r] = "done" /\ store' = store /\ op'[r] = "none" /\ outcome'[r] = "none"
     /\ \/ /\ op[r] = "create" /\ response'[r].status = "201"
           /\ response'[r].id = instance[r].id
        \/ /\ op[r] = "read" /\ asked[r].method # "update" /\ response'[r].status = "200"
           /\ response'[r].content = instance[r].attributes
        \/ op[r] = "update" /\ response'[r].status = "200"
        \/ op[r] = "delete" /\ response'[r].status = "204"
        \/ op[r] = "find"

LEMMA ServeIs ==
  ASSUME ServiceInv, NEW r \in Requests, Proceed(r)
  PROVE  /\ asked' = asked /\ (\A q \in Requests \ {r} : response'[q] = response[q])
         /\ Effect(r)
         /\ op[r] # "none" \/ r \in unsafe
<1>a. /\ ServiceTypeOK /\ Lifecycle(r) /\ Fits(r)
  BY DEF ServiceInv, RequestInv
<1>b. /\ store \in [Ids -> Records \cup {None}]
      /\ instance \in [Requests -> [id : Ids \cup {None}, attributes : Records]]
      /\ op \in [Requests -> {"none", "create", "read", "update", "delete", "find"}]
      /\ outcome \in [Requests -> {"none", "done", "missing", "failed"}]
      /\ DOMAIN response = Requests
      /\ op[r] # "none" => response[r] = NoResponse
      /\ r \in unsafe => response[r] = NoResponse
      /\ outcome[r] # "none" => op[r] # "none"
  BY <1>a DEF ServiceTypeOK, Lifecycle
<1>c. \A code : /\ Status(code).status = code
                /\ \A a : /\ WithContent(code, a).status = code
                          /\ WithContent(code, a).content = a
  BY DEF Status, WithContent, NoResponse
<1>d. \A m : Created(m).status = "201" /\ Created(m).id = m.id
  BY DEF Created, WithContent, Status, NoResponse
<1>e. ASSUME NEW answer, Respond(r, answer)
      PROVE  response'[r] = answer /\ \A q \in Requests \ {r} : response'[q] = response[q]
  BY <1>b, <1>e DEF Respond
<1>f. ASSUME Over(r) PROVE op'[r] = "none" /\ outcome'[r] = "none"
  BY <1>b, <1>f DEF Over
<1>g. ASSUME NEW result, Told(r, result) PROVE outcome'[r] = result
  BY <1>b, <1>g DEF Told
<1>1. CASE StoreCreates(r)
  <2>1. PICK id \in Ids : /\ Write(r, id, instance[r].attributes)
                          /\ instance' = [instance EXCEPT ![r].id = id]
    BY <1>1 DEF StoreCreates
  <2>2. /\ instance'[r].id = id /\ instance'[r].attributes = instance[r].attributes
        /\ store'[id] = instance[r].attributes
    BY <1>b, <2>1 DEF Write
  <2> QED
    BY <1>1, <1>b, <2>2 DEF StoreCreates, Waiting, replies, Effect
<1>2. CASE StoreFetches(r)
  <2>1. instance'[r].attributes = store[instance[r].id]
    BY <1>2, <1>b DEF StoreFetches
  <2> QED
    BY <1>2, <1>b, <2>1 DEF StoreFetches, Waiting, replies, storage, Effect
<1>3. CASE StoreSaves(r)
  BY <1>3, <1>b DEF StoreSaves, Waiting, Write, replies, Effect
<1>4. CASE StoreDeletes(r)
  BY <1>4, <1>b, <1>g DEF StoreDeletes, Waiting, replies, Effect
<1>5. CASE StoreFinds(r) \/ StoreMisses(r) \/ StoreFails(r)
  <2>1. /\ UNCHANGED <<store, instance, asked, op, response>> /\ op[r] # "none"
        /\ outcome'[r] = "done" => op[r] = "find"
    BY <1>5, <1>b, <1>g DEF StoreFinds, StoreMisses, StoreFails, Waiting, storage, replies
  <2> QED
    BY <1>b, <2>1 DEF Effect
<1>6. CASE SaveFetched(r)
  <2>1. /\ instance'[r].attributes = Patch(instance[r].attributes, asked[r].content)
        /\ op'[r] = "update" /\ outcome'[r] = "none"
    BY <1>6, <1>b DEF SaveFetched
  <2> QED
    BY <1>6, <1>b, <2>1 DEF SaveFetched, storage, replies, Effect
<1>7. CASE CallbackThrows(r) \/ RejectSave(r)
  <2>1. /\ UNCHANGED <<store, instance, asked, response>> /\ op[r] # "none" /\ Over(r)
    BY <1>7, <1>b DEF CallbackThrows, RejectSave, storage, replies
  <2> QED
    BY <1>b, <1>f, <2>1 DEF Effect
<1>8. CASE Reject(r)
  <2>1. /\ UNCHANGED <<store, asked>> /\ op[r] # "none" /\ Over(r)
        /\ Respond(r, Status(Hint(r)))
    BY <1>8, <1>b DEF Reject, storage
  <2>2. Hint(r) \in {"404", "500", "501"}
    BY DEF Hint
  <2> QED
    BY <1>c, <1>e, <1>f, <2>1, <2>2 DEF Effect
<1>9. CASE CatchAll(r)
  <2>1. /\ UNCHANGED <<store, asked, op, outcome>> /\ r \in unsafe
        /\ Respond(r, Status("500"))
    BY <1>9 DEF CatchAll, storage
  <2>2. op[r] = "none" /\ outcome[r] = "none"
    BY <1>a, <2>1 DEF Lifecycle
  <2> QED
    BY <1>c, <1>e, <2>1, <2>2 DEF Effect
<1>10. CASE Answer(r)
  <2>1. /\ UNCHANGED <<store, asked>> /\ op[r] # "none" /\ outcome[r] = "done" /\ Over(r)
        /\ ~ (asked[r].method = "update" /\ op[r] = "read")
        /\ op[r] \in {"create", "read", "update", "delete", "find"}
    BY <1>10, <1>b DEF Answer, storage
  <2>2. PICK m : m = instance[r]
    OBVIOUS
  <2>3. CASE op[r] = "create"
    <3>1. Respond(r, Created(m))
      BY <1>10, <2>2, <2>3 DEF Answer
    <3> QED
      BY <1>d, <1>e, <1>f, <2>1, <2>2, <2>3, <3>1 DEF Effect
  <2>4. CASE op[r] = "read"
    <3>1. Respond(r, WithContent("200", m.attributes))
      BY <1>10, <2>2, <2>4 DEF Answer
    <3> QED
      BY <1>c, <1>e, <1>f, <2>1, <2>2, <2>4, <3>1 DEF Effect
  <2>5. CASE op[r] = "update"
    <3>1. Respond(r, Status("200"))
      BY <1>10, <2>5 DEF Answer
    <3> QED
      BY <1>c, <1>e, <1>f, <2>1, <2>5, <3>1 DEF Effect
  <2>6. CASE op[r] = "delete"
    <3>1. Respond(r, Status("204"))
      BY <1>10, <2>6 DEF Answer
    <3> QED
      BY <1>c, <1>e, <1>f, <2>1, <2>6, <3>1 DEF Effect
  <2>7. CASE op[r] = "find"
    <3>1. Respond(r, WithContent("200", m.attributes))
      BY <1>10, <2>2, <2>7 DEF Answer
    <3> QED
      BY <1>c, <1>e, <1>f, <2>1, <2>7, <3>1 DEF Effect
  <2> QED
    BY <2>1, <2>3, <2>4, <2>5, <2>6, <2>7
<1> QED
  BY <1>1, <1>2, <1>3, <1>4, <1>5, <1>6, <1>7, <1>8, <1>9, <1>10 DEF Proceed

\* What is sent replaces what differs.
LEMMA PatchIsCopy ==
  ASSUME NEW u \in Records, NEW sent \in SUBSET Keys, NEW sender \in Records, NEW content,
         content = [k \in sent |-> sender[k]],
         \A k \in Keys \ sent : u[k] = sender[k]
  PROVE  Patch(u, content) = sender
<1>1. content \in Patches /\ DOMAIN content = sent
  <2>1. content \in [sent -> Values]
    BY DEF Records
  <2> QED
    BY <2>1 DEF Patches
<1>2. Patch(u, content) = [k \in Keys |-> IF k \in sent THEN content[k] ELSE u[k]]
  BY <1>1 DEF Patch
<1>3. \A k \in Keys : (IF k \in sent THEN content[k] ELSE u[k]) = sender[k]
  OBVIOUS
<1>4. sender = [k \in Keys |-> sender[k]]
  BY DEF Records
<1> QED
  BY <1>2, <1>3, <1>4

\* No record is None.
LEMMA NoneIsNoRecord == None \notin Records
BY ContentAssumption DEF Patches, Records

\* What holds of a pending call and of what the service knows of it.
LEMMA CallFacts ==
  ASSUME ClientInv, NEW p \in Requests
  PROVE  /\ Lifecycle(p) /\ Fits(p) /\ AnswerIsTrue(p)
         /\ store \in [Ids -> Records \cup {None}] /\ None \notin Ids
         /\ model.id \in Ids \cup {None} /\ model.attributes \in Records
         /\ changed \subseteq Keys /\ copy[p] \in Records
         /\ instance[p].attributes \in Records /\ instance[p].id \in Ids \cup {None}
         /\ op[p] \in {"none", "create", "read", "update", "delete", "find"}
         /\ (response[p].status = "201" => response[p].id \in Ids)
<1>1. ServiceTypeOK /\ RequestInv(p) /\ ClientTypes
  BY DEF ClientInv, ServiceInv
<1>2. instance[p] \in [id : Ids \cup {None}, attributes : Records]
  BY <1>1 DEF ServiceTypeOK
<1>3. model \in [id : Ids \cup {None}, attributes : Records]
  BY <1>1 DEF ClientTypes
<1> QED
  BY <1>1, <1>2, <1>3, ContentAssumption DEF RequestInv, ServiceTypeOK, ClientTypes

\* The service gets on with the call.
LEMMA CreatesOn ==
  ASSUME ClientInv, NEW p \in Requests, asked[p].method = "create", Creates(p), Effect(p),
         UNCHANGED <<model, changed, copy, asked>>
  PROVE  Creates(p)'
<1>1. op[p] \in {"none", "create"}
  BY CallFacts DEF Fits, FirstOp
<1>2. NoResponse.status = "none"
  BY DEF NoResponse
<1>3. op'[p] = "create" => instance'[p].attributes = copy[p]
  BY <1>1 DEF Effect, Creates
<1>4. op'[p] = "create" /\ outcome'[p] = "done" => store'[instance'[p].id] = copy[p]
  BY <1>1 DEF Effect, Creates
<1>5. response'[p].status = "201" => store'[response'[p].id] = copy[p]
  BY <1>1, <1>2 DEF Effect, Creates
<1> QED
  BY <1>3, <1>4, <1>5 DEF Creates

LEMMA ReadsOn ==
  ASSUME ClientInv, NEW p \in Requests, asked[p].method = "read", asked[p].id = model.id,
         Reads(p), Effect(p), UNCHANGED <<model, changed, copy, asked>>
  PROVE  Reads(p)'
<1>1. op[p] \in {"none", "read"} /\ (op[p] = "read" => instance[p].id = model.id)
  BY CallFacts DEF Fits, FirstOp
<1>2. NoResponse.status = "none"
  BY DEF NoResponse
<1>3. store' = store
  BY <1>1 DEF Effect
<1>4. op'[p] = "read" /\ outcome'[p] = "done" => instance'[p].attributes = store[model.id]
  BY <1>1 DEF Effect, Reads
<1>5. response'[p].status = "200" => response'[p].content = store[model.id]
  BY <1>1, <1>2 DEF Effect, Reads
<1>6. \A k \in Keys \ changed : Agree(k)'
  BY <1>3 DEF Reads, Agree
<1> QED
  BY <1>3, <1>4, <1>5, <1>6 DEF Reads

LEMMA UpdatesOn ==
  ASSUME ClientInv, NEW p \in Requests, asked[p].method = "update", asked[p].id = model.id,
         model.id # None, Updates(p), Effect(p), UNCHANGED <<model, changed, copy, asked>>
  PROVE  Updates(p)'
<1>1. /\ op[p] \in {"none", "read", "update"}
      /\ op[p] # "none" => instance[p].id = model.id
      /\ model.id \in Ids /\ copy[p] \in Records /\ store \in [Ids -> Records \cup {None}]
      /\ changed \subseteq Keys /\ instance[p].attributes \in Records
  BY CallFacts DEF Fits, FirstOp
<1>2. PICK content, sent : content = asked[p].content /\ sent = DOMAIN content
  OBVIOUS
<1>3. /\ sent \subseteq changed /\ content = [k \in sent |-> copy[p][k]]
      /\ \A k \in Keys \ sent : store[model.id] # None /\ store[model.id][k] = copy[p][k]
      /\ op[p] = "read" /\ outcome[p] = "done" => instance[p].attributes = store[model.id]
      /\ op[p] = "update" => instance[p].attributes = copy[p]
      /\ Saved(p) => store[model.id] = copy[p]
  BY <1>2 DEF Updates
<1>4. NoResponse.status = "none"
  BY DEF NoResponse
<1>5. op'[p] = "update" => instance'[p].attributes = copy[p]
  <2>1. CASE op[p] = "update"
    BY <1>3, <2>1 DEF Effect
  <2>2. CASE op[p] = "read" /\ op'[p] = "update"
    <3>1. /\ outcome[p] = "done"
          /\ instance'[p].attributes = Patch(instance[p].attributes, content)
      BY <1>2, <2>2 DEF Effect
    <3>2. instance[p].attributes = store[model.id]
      BY <1>3, <2>2, <3>1
    <3>3. Patch(instance[p].attributes, content) = copy[p]
      <4>1. PICK u \in Records : u = instance[p].attributes
        BY <1>1
      <4>2. /\ sent \in SUBSET Keys /\ copy[p] \in Records
            /\ content = [k \in sent |-> copy[p][k]]
            /\ \A k \in Keys \ sent : u[k] = copy[p][k]
        BY <1>1, <1>3, <3>2, <4>1
      <4>3. Patch(u, content) = copy[p]
        BY <4>2, PatchIsCopy
      <4> QED
        BY <4>1, <4>3
    <3> QED
      BY <3>1, <3>3
  <2> QED
    BY <1>1, <2>1, <2>2 DEF Effect
<1>6. store' = store \/ (op[p] = "update" /\ store' = [store EXCEPT ![model.id] = copy[p]])
  BY <1>1, <1>3 DEF Effect
<1>7. \A k \in Keys \ sent : store'[model.id] # None /\ store'[model.id][k] = copy[p][k]
  BY <1>1, <1>3, <1>6, NoneIsNoRecord
<1>8. op'[p] = "read" /\ outcome'[p] = "done" => instance'[p].attributes = store'[model.id]
  BY <1>1, <1>3 DEF Effect
<1>9. Saved(p)' => store'[model.id] = copy[p]
  <2>1. CASE op'[p] = "update" /\ outcome'[p] = "done"
    BY <1>1, <1>3, <2>1 DEF Effect
  <2>2. CASE response'[p].status = "200"
    <3>1. op[p] = "update" /\ outcome[p] = "done" /\ store' = store
      BY <1>1, <1>4, <2>2 DEF Effect
    <3> QED
      BY <1>3, <3>1 DEF Saved
  <2> QED
    BY <2>1, <2>2 DEF Saved
<1> QED
  BY <1>2, <1>3, <1>5, <1>7, <1>8, <1>9 DEF Updates

LEMMA DeletesOn ==
  ASSUME ClientInv, NEW p \in Requests, asked[p].method = "delete", Proceed(p),
         Deletes(p), Effect(p), UNCHANGED <<model, changed, copy, asked>>
  PROVE  Deletes(p)'
<1>1. op[p] \in {"none", "delete"}
  BY CallFacts DEF Fits, FirstOp
<1>2. response[p] = NoResponse
  BY CallFacts, ServeIs DEF Lifecycle, ClientInv
<1>3. NoResponse.status = "none"
  BY DEF NoResponse
<1>4. CASE op[p] = "delete" /\ outcome[p] = "done"
  <2>1. ~ (Reject(p) \/ StoreFails(p) \/ CatchAll(p)) /\ Answer(p)
    BY <1>2, <1>4, CallFacts
       DEF Proceed, Reject, StoreFails, CatchAll, StoreCreates, StoreFetches, StoreSaves,
           StoreDeletes, StoreFinds, StoreMisses, SaveFetched, CallbackThrows, RejectSave,
           Waiting, Lifecycle
  <2>2. Respond(p, Status("204"))
    BY <1>4, <2>1 DEF Answer
  <2>3. response'[p] = Status("204")
    BY <2>2 DEF Respond, ClientInv, ServiceInv, ServiceTypeOK
  <2>4. response'[p].status = "204"
    BY <2>3 DEF Status, NoResponse
  <2> QED
    BY <2>4 DEF Deletes
<1>5. CASE ~ (op[p] = "delete" /\ outcome[p] = "done")
  <2>1. \A k \in Keys \ changed : Agree(k)
    BY <1>2, <1>3, <1>5 DEF Deletes
  <2>2. store' = store \/ (op'[p] = "delete" /\ outcome'[p] = "done")
    BY <1>1, <1>5 DEF Effect
  <2>3. store' = store => \A k \in Keys \ changed : Agree(k)'
    BY <2>1 DEF Agree
  <2> QED
    BY <2>2, <2>3 DEF Deletes
<1> QED
  BY <1>4, <1>5

LEMMA ServeKeeps ==
  ASSUME ClientInv, CallsInv, NEW r \in Requests, Serve(r) PROVE CallsInv'
<1>1. /\ Proceed(r) /\ UNCHANGED <<model, changed, copy, settled>>
  BY DEF Serve, local, calls
<1>2. /\ asked' = asked /\ (\A q \in Requests \ {r} : response'[q] = response[q])
      /\ Effect(r) /\ (op[r] # "none" \/ r \in unsafe)
  BY <1>1, ServeIs DEF ClientInv
<1>3. response[r] = NoResponse /\ asked[r] # NoRequest
  BY <1>2, CallFacts DEF Lifecycle
<1>4. r \in Pending /\ Pending' = Pending
  BY <1>1, <1>3 DEF CallsInv, Fresh, Answered, Pending
<1>5. \A q \in Requests \ Pending : q \in Fresh' \cup Answered'
  BY <1>2, <1>4 DEF CallsInv, Fresh, Answered
<1>6. PendingInv(r)'
  <2>1. PendingInv(r)
    BY <1>4 DEF CallsInv
  <2>2. CASE asked[r].method = "create" /\ Creates(r)
    BY <1>1, <1>2, <2>1, <2>2, CreatesOn DEF PendingInv
  <2>3. CASE asked[r].method = "read" /\ model.id # None /\ Reads(r)
    BY <1>1, <1>2, <2>1, <2>3, ReadsOn DEF PendingInv
  <2>4. CASE asked[r].method = "update" /\ model.id # None /\ Updates(r)
    BY <1>1, <1>2, <2>1, <2>4, UpdatesOn DEF PendingInv
  <2>5. CASE asked[r].method = "delete" /\ model.id # None /\ Deletes(r)
    BY <1>1, <1>2, <2>1, <2>5, DeletesOn DEF PendingInv
  <2> QED
    BY <2>1, <2>2, <2>3, <2>4, <2>5 DEF PendingInv
<1>7. \A p \in Pending : p = r
  BY <1>4 DEF CallsInv
<1> QED
  BY <1>4, <1>5, <1>6, <1>7 DEF CallsInv

--------------------------------------------------------------------------------

\* Another attribute is set.
LEMMA SetKeeps ==
  ASSUME ClientInv, CallsInv, NEW k \in Keys, NEW v \in Values, Set(k, v) PROVE CallsInv'
<1>1. /\ UNCHANGED <<serviceVars, copy, settled>> /\ changed' = changed \cup {k}
      /\ model' = [model EXCEPT !.attributes[k] = v]
  BY DEF Set, calls
<1>2. /\ UNCHANGED <<store, asked, instance, op, outcome, response>>
      /\ Pending' = Pending /\ Fresh' = Fresh /\ Answered' = Answered
  BY <1>1 DEF serviceVars, storage, handler, replies, Pending, Fresh, Answered
<1>3. /\ model'.id = model.id
      /\ \A j \in Keys \ changed' : model'.attributes[j] = model.attributes[j]
  <2>1. model \in [id : Ids \cup {None}, attributes : Records] /\ model.attributes \in Records
    BY DEF ClientInv, ClientTypes
  <2>2. PICK new : new = [model.attributes EXCEPT ![k] = v]
    OBVIOUS
  <2>3. \A j \in Keys \ {k} : new[j] = model.attributes[j]
    BY <2>1, <2>2 DEF Records
  <2>4. model' = [model EXCEPT !.attributes = new]
    BY <1>1, <2>2
  <2>5. model'.id = model.id /\ model'.attributes = new
    BY <2>1, <2>4
  <2> QED
    BY <1>1, <2>3, <2>5
<1>4. changed \subseteq changed' /\ changed' \subseteq Keys \cup changed
  BY <1>1
<1>5. \A j \in Keys \ changed' : Agree(j) => Agree(j)'
  BY <1>2, <1>3 DEF Agree
<1>6. ASSUME NEW p \in Pending PROVE PendingInv(p)'
  <2>1. PendingInv(p)
    BY <1>6 DEF CallsInv
  <2>2. \A j \in Keys \ changed' : model'.attributes[j] = copy'[p][j]
    BY <1>1, <1>3, <1>4, <2>1 DEF PendingInv
  <2>3. asked'[p] = asked[p] /\ model'.id = model.id
    BY <1>2, <1>3
  <2>4. Creates(p) => Creates(p)'
    BY <1>1, <1>2, <1>3 DEF Creates
  <2>5. Reads(p) => Reads(p)'
    BY <1>2, <1>3, <1>4, <1>5 DEF Reads
  <2>6. Updates(p) => Updates(p)'
    BY <1>1, <1>2, <1>3, <1>4 DEF Updates, Saved
  <2>7. Deletes(p) => Deletes(p)'
    BY <1>2, <1>3, <1>4, <1>5 DEF Deletes
  <2> QED
    BY <2>1, <2>2, <2>3, <2>4, <2>5, <2>6, <2>7 DEF PendingInv
<1> QED
  BY <1>2, <1>4, <1>5, <1>6 DEF CallsInv

\* A call begins: nothing is known of it yet, but that the model and the resource agree on
\* what did not change.
LEMMA SyncKeeps ==
  ASSUME ClientInv, CallsInv, MaxCalls = 1, NEW r \in Requests,
         NEW method \in {"create", "read", "update", "delete"}, Sync(r, method)
  PROVE  CallsInv'
<1>1. /\ r \in Fresh /\ Cardinality(Pending) < 1
      /\ method = "create" <=> model.id = None
      /\ UNCHANGED <<model, changed>>
      /\ copy' = [copy EXCEPT ![r] = model.attributes]
      /\ settled' = [settled EXCEPT ![r] = "pending"]
  BY DEF Sync, MaySync, local
<1>2. Pending = {}
  <2>1. IsFiniteSet(Pending) /\ Cardinality(Pending) \in Nat
    BY FS_CardinalityType DEF ClientInv
  <2>2. Cardinality(Pending) = 0
    BY <1>1, <2>1
  <2> QED
    BY <2>1, <2>2, FS_EmptySet
<1>3. Pending' = {r}
  BY <1>1, <1>2, OnePending DEF ClientInv
<1>4. PICK content : content = Request(method).content
  OBVIOUS
<1>5. /\ ServiceTypeOK /\ ClientTypes /\ Lifecycle(r)
      /\ Ask(r, method, model.id, content) \/ Refuse(r, method, model.id, content)
  BY <1>4, SyncComes, CallFacts DEF ClientInv, ServiceInv
<1>6. /\ asked[r] = NoRequest /\ response[r] = NoResponse
      /\ op[r] = "none" /\ outcome[r] = "none"
  BY <1>1, <1>5 DEF Fresh, Lifecycle
<1>7. /\ asked' = [asked EXCEPT ![r] = [method |-> method, id |-> model.id, content |-> content]]
      /\ store' = store
  BY <1>5 DEF Ask, Refuse, Arrive, storage
<1>8. PICK request : request = [method |-> method, id |-> model.id, content |-> content]
  OBVIOUS
<1>9. /\ request.method = method /\ request.id = model.id /\ request.content = content
      /\ asked'[r] = request /\ copy'[r] = model.attributes
      /\ \A q \in Requests \ {r} : asked'[q] = asked[q]
  BY <1>1, <1>5, <1>7, <1>8 DEF ServiceTypeOK, ClientTypes
<1>10. /\ outcome'[r] = "none"
       /\ \/ /\ op'[r] = FirstOp(method) /\ response'[r] = NoResponse
             /\ method = "create" => instance'[r].attributes = Patch(Blank, content)
          \/ op'[r] = "none" /\ response'[r].status \in {"406", "500", "501"}
       /\ \A q \in Requests \ {r} : response'[q] = response[q]
  <2>1. CASE Ask(r, method, model.id, content)
    BY <1>5, <1>6, <2>1 DEF Ask, ServiceTypeOK, replies
  <2>2. CASE Refuse(r, method, model.id, content)
    <3>1. PICK code \in {"406", "500", "501"} : Respond(r, Status(code))
      BY <2>2 DEF Refuse, Refusals
    <3>2. Status(code).status = code
      BY DEF Status, NoResponse
    <3> QED
      BY <1>5, <1>6, <2>2, <3>1, <3>2 DEF Refuse, Respond, ServiceTypeOK, handler
  <2> QED
    BY <1>5, <2>1, <2>2
<1>11. NoResponse.status = "none"
  BY DEF NoResponse
<1>12. /\ response'[r].status \notin {"200", "201", "204"}
       /\ op'[r] # "update" /\ outcome'[r] # "done"
  BY <1>10, <1>11 DEF FirstOp
<1>13. \A k \in Keys \ changed : Agree(k) /\ Agree(k)'
  BY <1>1, <1>2, <1>7 DEF CallsInv, Agree
<1>14. /\ model.attributes \in Records /\ changed \subseteq Keys /\ Blank \in Records
       /\ Request(method).content = CASE method = "create" -> model.attributes
                                      [] method = "update" -> [k \in changed |-> model.attributes[k]]
                                      [] OTHER -> None
  BY CallFacts, ContentAssumption DEF Request
<1>15. ASSUME method = "create" PROVE PendingInv(r)'
  <2>1. changed = Keys /\ content = model.attributes /\ model.id = None
    BY <1>1, <1>4, <1>13, <1>14, <1>15 DEF Agree
  <2>2. Patch(Blank, content) = model.attributes
    <3>1. content = [k \in Keys |-> model.attributes[k]]
      BY <1>14, <2>1 DEF Records
    <3> QED
      BY <1>14, <3>1, PatchIsCopy
  <2>3. Creates(r)'
    BY <1>1, <1>9, <1>10, <1>12, <1>15, <2>1, <2>2 DEF Creates
  <2> QED
    BY <1>1, <1>9, <1>15, <2>1, <2>3 DEF PendingInv
<1>16. ASSUME method = "read" PROVE PendingInv(r)'
  <2>1. Reads(r)'
    BY <1>1, <1>12, <1>13 DEF Reads
  <2> QED
    BY <1>1, <1>9, <1>16, <2>1 DEF PendingInv
<1>17. ASSUME method = "update" PROVE PendingInv(r)'
  <2>1. content = [k \in changed |-> model.attributes[k]] /\ DOMAIN content = changed
    BY <1>4, <1>14, <1>17
  <2>2. \A k \in Keys \ changed : store'[model'.id] # None /\ store'[model'.id][k] = copy'[r][k]
    BY <1>1, <1>9, <1>13 DEF Agree
  <2>3. Updates(r)'
    BY <1>1, <1>9, <1>12, <2>1, <2>2 DEF Updates, Saved
  <2> QED
    BY <1>1, <1>9, <1>17, <2>3 DEF PendingInv
<1>18. ASSUME method = "delete" PROVE PendingInv(r)'
  <2>1. Deletes(r)'
    BY <1>1, <1>13 DEF Deletes
  <2> QED
    BY <1>1, <1>9, <1>18, <2>1 DEF PendingInv
<1>19. \A q \in Requests \ Pending' : q \in Fresh' \cup Answered'
  BY <1>2, <1>3, <1>9, <1>10 DEF CallsInv, Fresh, Answered
<1>20. PendingInv(r)'
  BY <1>15, <1>16, <1>17, <1>18
<1> QED
  BY <1>3, <1>19, <1>20 DEF CallsInv

\* A call ends.
LEMMA CallbackKeeps ==
  ASSUME ClientInv, CallsInv, NEW r \in Requests, SyncCallback(r) PROVE CallsInv'
<1>1. /\ r \in Pending /\ r \in Answered /\ UNCHANGED <<serviceVars, copy>>
      /\ \E promise \in {"resolved", "rejected"} : settled' = [settled EXCEPT ![r] = promise]
  BY DEF SyncCallback, Fail, OnRead, OnCreate, OnUpdate, OnDelete, Succeed, Callback
<1>2. Pending = {r} /\ Pending' = {}
  BY <1>1, OnePending DEF CallsInv, ClientInv
<1>3. UNCHANGED <<store, asked, response>> /\ Fresh' = Fresh /\ Answered' = Answered
  BY <1>1 DEF serviceVars, storage, replies, Fresh, Answered
<1>4. \A q \in Requests \ Pending' : q \in Fresh' \cup Answered'
  BY <1>1, <1>2, <1>3 DEF CallsInv
<1>5. PendingInv(r) /\ op[r] = "none"
  BY <1>1, CallFacts DEF CallsInv, Answered, Lifecycle
<1>6. /\ store \in [Ids -> Records \cup {None}] /\ None \notin Ids /\ None \notin Records
      /\ model \in [id : Ids \cup {None}, attributes : Records] /\ copy[r] \in Records
      /\ changed \subseteq Keys
  BY CallFacts, NoneIsNoRecord DEF ClientInv, ClientTypes
<1>7. ASSUME NEW k \in Keys \ changed' PROVE Agree(k)'
  <2>1. CASE Fail(r)
    <3>1. ~Success(r) /\ model' = model /\ changed' = changed
      BY <2>1 DEF Fail, local
    <3>2. Agree(k)
      <4>1. CASE asked[r].method = "create" /\ Creates(r)
        BY <1>7, <3>1, <4>1 DEF Creates
      <4>2. CASE asked[r].method = "read" /\ Reads(r)
        BY <1>7, <3>1, <4>2 DEF Reads
      <4>3. CASE asked[r].method = "update" /\ model.id # None /\ Updates(r)
        BY <1>5, <1>7, <3>1, <4>3 DEF Updates, PendingInv, Agree
      <4>4. CASE asked[r].method = "delete" /\ Deletes(r)
        BY <1>5, <1>7, <3>1, <4>4 DEF Deletes, Success
      <4> QED
        BY <1>5, <4>1, <4>2, <4>3, <4>4 DEF PendingInv
    <3> QED
      BY <1>3, <3>1, <3>2 DEF Agree
  <2>2. CASE OnRead(r)
    <3>1. /\ asked[r].method = "read" /\ response[r].status = "200"
          /\ model' = [model EXCEPT !.attributes = response[r].content]
      BY <2>2 DEF OnRead, Succeed, Success
    <3>2. model.id # None /\ response[r].content = store[model.id]
      BY <1>5, <3>1 DEF PendingInv, Reads
    <3>3. response[r].content # None
      BY <3>1, CallFacts DEF AnswerIsTrue
    <3>4. model'.id = model.id /\ model'.attributes = store[model.id]
      BY <1>6, <3>1, <3>2
    <3> QED
      BY <1>3, <3>2, <3>3, <3>4 DEF Agree
  <2>3. CASE OnCreate(r)
    <3>1. /\ asked[r].method = "create" /\ response[r].status = "201"
          /\ model' = [model EXCEPT !.id = response[r].id]
          /\ changed' = IF model.attributes = copy[r] THEN {} ELSE changed
      BY <2>3 DEF OnCreate, Succeed, Success, DeclareInSync, StillSame
    <3>2. changed = Keys /\ store[response[r].id] = copy[r] /\ response[r].id \in Ids
      BY <1>5, <3>1, CallFacts DEF PendingInv, Creates
    <3>3. model.attributes = copy[r]
      BY <1>7, <3>1, <3>2
    <3>4. model'.id = response[r].id /\ model'.attributes = model.attributes
      BY <1>6, <3>1
    <3> QED
      BY <1>3, <1>6, <3>2, <3>3, <3>4 DEF Agree
  <2>4. CASE OnUpdate(r)
    <3>1. /\ asked[r].method = "update" /\ response[r].status = "200" /\ model' = model
          /\ changed' = IF model.attributes = copy[r] THEN {} ELSE changed
      BY <2>4 DEF OnUpdate, Succeed, Success, DeclareInSync, StillSame
    <3>2. model.id # None /\ store[model.id] = copy[r]
      BY <1>5, <3>1 DEF PendingInv, Updates, Saved
    <3>3. model.attributes[k] = copy[r][k]
      BY <1>5, <1>7, <3>1 DEF PendingInv
    <3> QED
      BY <1>3, <1>6, <3>1, <3>2, <3>3 DEF Agree
  <2>5. CASE OnDelete(r)
    BY <1>7, <2>5 DEF OnDelete
  <2> QED
    BY <2>1, <2>2, <2>3, <2>4, <2>5 DEF SyncCallback
<1> QED
  BY <1>2, <1>4, <1>7 DEF CallsInv

LEMMA CallsInvStep ==
  ASSUME ClientInv, CallsInv, MaxCalls = 1, [SyncNext]_syncVars PROVE CallsInv'
<1>1. CASE \E r \in Requests, method \in {"create", "read", "update", "delete"} :
             SyncRejected(r, method)
  <2>1. PICK r \in Requests, method \in {"create", "read", "update", "delete"} :
          SyncRejected(r, method)
    BY <1>1
  <2>2. /\ settled[r] = "none" /\ settled' = [settled EXCEPT ![r] = "rejected"] /\ r \in Fresh
        /\ UNCHANGED <<serviceVars, local, copy>>
    BY <2>1 DEF SyncRejected, MaySync
  <2>3. Pending' = Pending
    BY <2>2, OnePending DEF ClientInv, Pending
  <2> QED
    BY <2>2, <2>3 DEF CallsInv, PendingInv, Creates, Reads, Updates, Saved, Deletes, Agree, Fresh,
                      Answered, serviceVars, local, storage, handler, replies
<1>2. CASE UNCHANGED syncVars
  BY <1>2 DEF CallsInv, PendingInv, Creates, Reads, Updates, Saved, Deletes, Agree, Pending,
              Fresh, Answered, syncVars, serviceVars, local, calls, storage, handler, replies
<1> QED
  BY <1>1, <1>2, SetKeeps, SyncKeeps, ServeKeeps, CallbackKeeps DEF SyncNext

\* When the application waits for each call, what the model does not mean to send any more is
\* on the server as it is in the model, whatever was set while calls were on their way and
\* whichever of them failed.
THEOREM NoChangeIsLostHolds == SyncSafeSpec => []NoChangeIsLost
<1>1. SyncInit => CallsInv
  <2> SUFFICES ASSUME SyncInit PROVE CallsInv
    OBVIOUS
  <2>1. Pending = {} /\ Fresh = Requests /\ changed = Keys
    BY DEF SyncInit, ServiceInit, Pending, Fresh
  <2> QED
    BY <2>1 DEF CallsInv
<1>2. ClientInv /\ (MaxCalls = 1 => CallsInv) /\ [SyncNext]_syncVars => (MaxCalls = 1 => CallsInv)'
  BY CallsInvStep
<1>3. (MaxCalls = 1 => CallsInv) => NoChangeIsLost
  BY DEF CallsInv, NoChangeIsLost, Agree
<1> QED
  BY <1>1, <1>2, <1>3, ClientInvAlways, PTL DEF SyncSafeSpec
================================================================================
