--------------------------------- MODULE Content ---------------------------------
(***************************************************************************)
(* The content of a request and of its response, from the application to   *)
(* the handler and back: utils/serialization_utils.js and where the direct *)
(* client, the core and the HTTP adapter call it.                          *)
(*                                                                         *)
(* A content is what it was before any JSON.stringify(), and how often it  *)
(* went through: its coats.  An object that comes out of JSON.parse() is a *)
(* copy.  A content type is "json", or "other".  Handlers leave the content*)
(* of the request alone; what else may fail in an exchange is the subject  *)
(* of DirectServer and HttpAdapter.                                        *)
(*                                                                         *)
(* node lower-cases the names of headers, so http.js:145 and 179 never find*)
(* a 'Content-Type': over HTTP the type is always guessed.                 *)
(***************************************************************************)
EXTENDS Naturals

CONSTANT MaxCoats  \* bound on the coats of what an application gives

ASSUME CoatsAssumption == MaxCoats \in Nat

VARIABLES
  transport, \* "direct" or "http"
  stage,     \* how far the exchange is
  given,     \* the request as the application made it
  request,   \* what has become of it
  seen,      \* the content that the handler found
  written,   \* the response as the handler left it
  response   \* what has become of it

vars == <<transport, stage, given, request, seen, written, response>>

\* "words" is a text that is no JSON; null and arrays are objects.
Kinds == {"undefined", "blank", "words", "scalar", "error", "object", "copy"}
Types == {"json", "other"}

Message == [kind : Kinds, coats : Nat, type : Types]

NoMessage == [kind |-> "undefined", coats |-> 0, type |-> "json"]

ContentTypeOK ==
  /\ transport \in {"direct", "http"}
  /\ stage \in {"given", "handling", "answered", "done", "failed"}
  /\ {given, request, seen, written, response} \subseteq Message
  /\ \A m \in {given, request, seen, written, response} :
       m.coats > 0 => m.kind \notin {"undefined", "error"}

--------------------------------------------------------------------------------
(***************************************************************************)
(* serialization_utils.js.                                                 *)
(***************************************************************************)

IsText(m) == m.coats > 0 \/ m.kind \in {"blank", "words"}
IsEmpty(m) == m.coats = 0 /\ m.kind = "blank"
IsJson(m) == m.coats > 0
IsObject(m) == m.coats = 0 /\ m.kind \in {"object", "copy"}
IsUndefined(m) == m.kind = "undefined"

\* auto_serialize_content_if_needed() throws otherwise: for an Error because the code that
\* would describe it names a variable that does not exist.
Serializable(m) ==
  IF m.type = "json" THEN IsText(m) \/ IsUndefined(m) \/ IsObject(m)
  ELSE IsText(m) \/ IsUndefined(m)

\* Mutant of Serialized: an object goes as it is.
SerializedLazily(m) == IF IsUndefined(m) THEN [m EXCEPT !.kind = "blank"] ELSE m

Serialized(m) ==
  CASE IsUndefined(m) -> [m EXCEPT !.kind = "blank"]
    [] IsObject(m)    -> [m EXCEPT !.coats = 1]
    [] OTHER          -> m

\* JSON.parse() of a JSON text.
Parsed(m) ==
  [m EXCEPT !.coats = @ - 1,
            !.kind = IF m.coats = 1 /\ m.kind = "object" THEN "copy" ELSE @]

\* Mutant of Deserializable: an empty text is not made an exception.
DeserializableStrictly(m) == m.type = "json" /\ IsText(m) => IsJson(m)

\* auto_deserialize_content_if_needed() throws otherwise.
Deserializable(m) == m.type = "json" /\ IsText(m) => IsEmpty(m) \/ IsJson(m)

\* Mutant of Deserialized: an empty text stays one.
DeserializedKeepingBlank(m) == IF m.type = "json" /\ IsJson(m) THEN Parsed(m) ELSE m

Deserialized(m) ==
  CASE m.type = "json" /\ IsEmpty(m) -> [m EXCEPT !.kind = "undefined"]
    [] m.type = "json" /\ IsJson(m)  -> Parsed(m)
    [] OTHER                         -> m

--------------------------------------------------------------------------------
(***************************************************************************)
(* An exchange.                                                            *)
(***************************************************************************)

\* What an application may give to a direct client, or a handler leave in its response.
Writable(m) ==
  /\ m.coats <= MaxCoats
  /\ m.kind # "copy"
  /\ m.coats > 0 => m.kind \notin {"undefined", "error"}

Writings == {m \in [kind : Kinds, coats : 0..MaxCoats, type : Types] : Writable(m)}

ContentInit ==
  /\ \/ transport = "direct" /\ given \in Writings
     \/ transport = "http" /\ given \in {m \in Writings : IsText(m) /\ m.type = "json"}
  /\ stage = "given"
  /\ request = given
  /\ seen = NoMessage /\ written = NoMessage /\ response = NoMessage

\* core.process_request() decodes what it is given, and the chain reaches a handler.
Enter(m) ==
  /\ IF Deserializable(m)
     THEN request' = Deserialized(m) /\ seen' = Deserialized(m) /\ stage' = "handling"
     ELSE request' = m /\ stage' = "failed" /\ UNCHANGED seen
  /\ UNCHANGED <<transport, given, written, response>>

\* A direct client encodes its request and gives it to the core.
SendDirect ==
  /\ stage = "given" /\ transport = "direct"
  /\ Serializable(request)
  /\ Enter(Serialized(request))

\* The direct client rejects what it cannot encode.
SendFails ==
  /\ stage = "given" /\ transport = "direct"
  /\ ~Serializable(request)
  /\ stage' = "failed"
  /\ UNCHANGED <<transport, given, request, seen, written, response>>

\* The HTTP adapter takes for JSON, and decodes, what it can.  No body leaves the request
\* as it was made, without content.
Guessed(m) ==
  CASE IsEmpty(m) -> NoMessage
    [] IsJson(m)  -> Parsed(m)
    [] OTHER      -> [m EXCEPT !.type = "other"]

SendHttp ==
  /\ stage = "given" /\ transport = "http"
  /\ Enter(Guessed(request))

\* The handler writes what it likes, or nothing, or what it has seen (TRACE).
Handle ==
  /\ stage = "handling"
  /\ \E m \in Writings \cup {[seen EXCEPT !.kind = "blank", !.coats = 0], seen} :
       response' = m /\ written' = m
  /\ stage' = "answered"
  /\ UNCHANGED <<transport, given, request, seen>>

\* A direct client decodes both the request, which the core may have decoded already, and
\* the response; what it cannot decode rejects the call.
ReceiveDirect ==
  /\ stage = "answered" /\ transport = "direct"
  /\ IF Deserializable(request) THEN request' = Deserialized(request) ELSE UNCHANGED request
  /\ IF Deserializable(request) /\ Deserializable(response)
     THEN response' = Deserialized(response) /\ stage' = "done"
     ELSE UNCHANGED response /\ stage' = "failed"
  /\ UNCHANGED <<transport, given, seen, written>>

\* The HTTP adapter encodes the response, or sends an error instead.
ReplyHttp ==
  /\ stage = "answered" /\ transport = "http"
  /\ IF Serializable(response)
     THEN response' = Serialized(response) /\ stage' = "done"
     ELSE UNCHANGED response /\ stage' = "failed"
  /\ UNCHANGED <<transport, given, request, seen, written>>

\* The exchange is over.
Over == stage \in {"done", "failed"} /\ UNCHANGED vars

ContentNext ==
  \/ SendDirect \/ SendFails \/ SendHttp
  \/ Handle
  \/ ReceiveDirect \/ ReplyHttp
  \/ Over

ContentSpec == ContentInit /\ [][ContentNext]_vars

--------------------------------------------------------------------------------
(***************************************************************************)
(* What applications and handlers may rely on.                             *)
(***************************************************************************)

SameValue(m, n) ==
  /\ m.coats = n.coats
  /\ m.kind = n.kind \/ {m.kind, n.kind} = {"object", "copy"}

\* What both ends use without a thought: objects and no content as JSON, and texts, which
\* are no JSON, as another type.
Plain(m) ==
  IF m.type = "json" THEN m.coats = 0 /\ m.kind \in {"object", "copy", "undefined", "blank"}
  ELSE m.coats = 0 /\ m.kind \in {"blank", "words"}

\* The handler sees what was meant, whichever way it came: of an object, or of its JSON, a
\* copy, never the application's own object; of nothing, nothing; and other texts as they
\* are (client/base.js:68-70, core.js:133-135, http.js:179-190).
SeenAsMeant ==
  stage \in {"handling", "answered", "done"} =>
    /\ ~(IsObject(seen) /\ seen.kind = "object")
    /\ given.kind = "object" /\ given.coats <= 1 /\ given.type = "json" => IsObject(seen)
    /\ given.coats = 0 /\ given.kind = "words" => SameValue(seen, given)
    /\ given.coats = 0 /\ given.kind \in {"undefined", "blank"} =>
         IsUndefined(seen) \/ IsEmpty(seen)

\* What both write plainly arrives: the exchange does not fail, and what the client can
\* read of the response is what the handler wrote (base.js:69-83, http.js:84-114).
PlainArrives ==
  Plain(given) =>
    /\ stage = "failed" => ~Plain(written)
    /\ stage = "done" /\ Plain(written) =>
         \/ SameValue(Deserialized(response), written)
         \/ IsEmpty(written) /\ IsUndefined(Deserialized(response))

\* A direct client whose call is resolved finds in its request what it had put there, by
\* which sync() tells whether the model has changed meanwhile (base.js:78,
\* backbone_sync_to_restlink_mixin.js:104).
RequestIsRestored ==
  stage = "done" /\ transport = "direct" /\ given.type = "json" /\ ~IsText(given) =>
    SameValue(request, given)
==================================================================================
