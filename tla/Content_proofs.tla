------------------------------ MODULE Content_proofs ------------------------------
(***************************************************************************)
(* What Content promises holds however often a content was encoded.  The   *)
(* inductive invariant says at each stage how the request and the response *)
(* come from what the application gave and the handler wrote.              *)
(***************************************************************************)
EXTENDS Content, TLAPS

Sane(m) == m \in Message /\ (m.coats > 0 => m.kind \notin {"undefined", "error"})

\* What the core decodes, on either way to it.
Sent(m) == IF transport = "direct" THEN Serialized(m) ELSE Guessed(m)

Entered ==
  /\ transport = "direct" => Serializable(given)
  /\ Deserializable(Sent(given))
  /\ seen = Deserialized(Sent(given))

NotEntered ==
  /\ \/ transport = "direct" /\ ~Serializable(given)
     \/ ~Deserializable(Sent(given))
  /\ seen = NoMessage /\ written = NoMessage /\ response = NoMessage

Received ==
  IF transport = "direct"
  THEN /\ Deserializable(seen) /\ request = Deserialized(seen)
       /\ Deserializable(written) /\ response = Deserialized(written)
  ELSE Serializable(written) /\ response = Serialized(written)

NotReceived ==
  IF transport = "direct" THEN ~Deserializable(seen) \/ ~Deserializable(written)
  ELSE ~Serializable(written)

ContentInv ==
  /\ ContentTypeOK
  /\ transport = "http" => IsText(given) /\ given.type = "json"
  /\ stage = "given" => /\ request = given
                        /\ seen = NoMessage /\ written = NoMessage /\ response = NoMessage
  /\ stage = "handling" => Entered /\ request = seen /\ written = NoMessage
  /\ stage = "answered" => Entered /\ request = seen /\ response = written
  /\ stage = "done" => Entered /\ Received
  /\ stage = "failed" => NotEntered \/ (Entered /\ NotReceived)

\* Encoding and decoding, field by field.
LEMMA SerializedFields ==
  ASSUME NEW m, Sane(m)
  PROVE  /\ Serialized(m) \in Message
         /\ Serialized(m).kind = IF IsUndefined(m) THEN "blank" ELSE m.kind
         /\ Serialized(m).coats = IF IsObject(m) THEN 1 ELSE m.coats
         /\ Serialized(m).type = m.type
BY DEF Sane, Message, Kinds, Types, Serialized, IsUndefined, IsObject

LEMMA ParsedFields ==
  ASSUME NEW m, Sane(m), IsJson(m)
  PROVE  /\ Parsed(m) \in Message
         /\ Parsed(m).kind = IF m.coats = 1 /\ m.kind = "object" THEN "copy" ELSE m.kind
         /\ Parsed(m).coats = m.coats - 1
         /\ Parsed(m).type = m.type
<1> DEFINE k == IF m.coats = 1 /\ m.kind = "object" THEN "copy" ELSE m.kind
<1>1. m \in Message /\ m.coats - 1 \in Nat /\ k \in Kinds
  BY DEF Sane, Message, Kinds, IsJson
<1>2. Parsed(m) = [m EXCEPT !.coats = m.coats - 1, !.kind = k]
  BY DEF Parsed
<1> HIDE DEF k
<1>3. /\ Parsed(m) \in Message /\ Parsed(m).kind = k
      /\ Parsed(m).coats = m.coats - 1 /\ Parsed(m).type = m.type
  BY <1>1, <1>2 DEF Message
<1> QED
  BY <1>3 DEF k

LEMMA DeserializedFields ==
  ASSUME NEW m, Sane(m)
  PROVE  /\ Deserialized(m) \in Message
         /\ Deserialized(m).kind =
              IF m.type = "json" /\ IsEmpty(m) THEN "undefined"
              ELSE IF m.type = "json" /\ m.coats = 1 /\ m.kind = "object" THEN "copy"
              ELSE m.kind
         /\ Deserialized(m).coats = IF m.type = "json" /\ IsJson(m) THEN m.coats - 1 ELSE m.coats
         /\ Deserialized(m).type = m.type
<1>1. CASE m.type = "json" /\ IsEmpty(m)
  <2>1. Deserialized(m) = [m EXCEPT !.kind = "undefined"]
    BY <1>1 DEF Deserialized, IsEmpty, IsJson
  <2> QED
    BY <1>1, <2>1 DEF Sane, Message, Kinds, IsEmpty, IsJson
<1>2. CASE m.type = "json" /\ IsJson(m)
  <2>1. Deserialized(m) = Parsed(m)
    BY <1>2 DEF Deserialized, IsEmpty, IsJson
  <2> QED
    BY <1>2, <2>1, ParsedFields DEF IsEmpty, IsJson
<1>3. CASE ~(m.type = "json" /\ (IsEmpty(m) \/ IsJson(m)))
  <2>1. Deserialized(m) = m
    BY <1>3 DEF Deserialized
  <2> QED
    BY <1>3, <2>1 DEF Sane, IsJson
<1> QED
  BY <1>1, <1>2, <1>3

LEMMA GuessedFields ==
  ASSUME NEW m, Sane(m), IsText(m), m.type = "json"
  PROVE  /\ Guessed(m) \in Message
         /\ Guessed(m).kind =
              IF IsEmpty(m) THEN "undefined"
              ELSE IF m.coats = 1 /\ m.kind = "object" THEN "copy"
              ELSE m.kind
         /\ Guessed(m).coats = IF IsJson(m) THEN m.coats - 1 ELSE 0
         /\ Guessed(m).type = IF IsEmpty(m) \/ IsJson(m) THEN "json" ELSE "other"
<1>1. CASE IsEmpty(m)
  BY <1>1 DEF Guessed, NoMessage, Message, Kinds, Types, IsEmpty, IsJson
<1>2. CASE IsJson(m)
  <2>1. Guessed(m) = Parsed(m)
    BY <1>2 DEF Guessed, IsEmpty, IsJson
  <2> QED
    BY <1>2, <2>1, ParsedFields DEF IsEmpty, IsJson
<1>3. CASE ~IsEmpty(m) /\ ~IsJson(m)
  <2>1. Guessed(m) = [m EXCEPT !.type = "other"]
    BY <1>3 DEF Guessed
  <2>2. m.coats = 0
    BY <1>3 DEF Sane, Message, IsJson
  <2> QED
    BY <1>3, <2>1, <2>2 DEF Sane, Message, Kinds, Types, IsEmpty, IsJson
<1> QED
  BY <1>1, <1>2, <1>3

\* They keep a message well formed.
LEMMA Conversions ==
  ASSUME NEW m, Sane(m)
  PROVE  /\ Sane(Serialized(m)) /\ Sane(Deserialized(m))
         /\ IsText(m) /\ m.type = "json" => Sane(Guessed(m))
<1>1. m \in Message /\ (m.coats > 0 => m.kind \notin {"undefined", "error"})
  BY DEF Sane
<1>2. Sane(Serialized(m))
  BY <1>1, SerializedFields DEF Sane, IsObject, IsUndefined
<1>3. Sane(Deserialized(m))
  BY <1>1, DeserializedFields DEF Sane, Message, IsJson, IsEmpty
<1>4. ASSUME IsText(m), m.type = "json" PROVE Sane(Guessed(m))
  BY <1>1, <1>4, GuessedFields DEF Sane, Message, IsJson, IsEmpty
<1> QED
  BY <1>2, <1>3, <1>4

LEMMA WritingsAreSane == \A m \in Writings : Sane(m)
<1> SUFFICES ASSUME NEW m \in Writings PROVE Sane(m)
  OBVIOUS
<1>1. m \in [kind : Kinds, coats : 0..MaxCoats, type : Types] /\ Writable(m)
  BY DEF Writings
<1> QED
  BY <1>1, CoatsAssumption DEF Writable, Sane, Message

\* ContentTypeOK, as far as messages go.
LEMMA TypeBySanity ==
  ContentTypeOK <=> /\ transport \in {"direct", "http"}
                    /\ stage \in {"given", "handling", "answered", "done", "failed"}
                    /\ Sane(given) /\ Sane(request) /\ Sane(seen) /\ Sane(written)
                    /\ Sane(response)
BY DEF ContentTypeOK, Sane

LEMMA ContentInvInit == ContentInit => ContentInv
<1> SUFFICES ASSUME ContentInit PROVE ContentInv
  OBVIOUS
<1>1. given \in Writings
  BY DEF ContentInit
<1>2. Sane(given)
  BY <1>1, WritingsAreSane
<1>3. Sane(NoMessage)
  BY DEF Sane, Message, Kinds, Types, NoMessage
<1> QED
  BY <1>2, <1>3, TypeBySanity DEF ContentInit, ContentInv

LEMMA ContentInvStep == ContentInv /\ [ContentNext]_vars => ContentInv'
<1> SUFFICES ASSUME ContentInv, [ContentNext]_vars PROVE ContentInv'
  OBVIOUS
<1>a. /\ transport \in {"direct", "http"}
      /\ Sane(given) /\ Sane(request) /\ Sane(seen) /\ Sane(written) /\ Sane(response)
  BY TypeBySanity DEF ContentInv
<1>e. ASSUME stage = "given", Enter(Sent(given)), transport = "direct" => Serializable(given)
      PROVE  ContentInv'
  <2>1. Sane(Sent(given)) /\ Sane(Deserialized(Sent(given)))
    BY <1>a, Conversions DEF Sent, ContentInv
  <2>2. UNCHANGED <<transport, given, written, response>>
    BY <1>e DEF Enter
  <2>3. CASE Deserializable(Sent(given))
    <3>1. stage' = "handling" /\ request' = seen' /\ seen' = Deserialized(Sent(given))
      BY <1>e, <2>3 DEF Enter
    <3>2. Entered'
      BY <1>e, <2>2, <2>3, <3>1 DEF Entered, Sent
    <3>3. ContentTypeOK'
      BY <1>a, <2>1, <2>2, <3>1 DEF ContentTypeOK, Sane
    <3> QED
      BY <1>e, <2>2, <3>1, <3>2, <3>3 DEF ContentInv
  <2>4. CASE ~Deserializable(Sent(given))
    <3>1. stage' = "failed" /\ request' = Sent(given) /\ seen' = seen
      BY <1>e, <2>4 DEF Enter
    <3>2. NotEntered'
      BY <1>e, <2>2, <2>4, <3>1 DEF NotEntered, Sent, ContentInv
    <3>3. ContentTypeOK'
      BY <1>a, <2>1, <2>2, <3>1 DEF ContentTypeOK, Sane
    <3> QED
      BY <2>2, <3>1, <3>2, <3>3 DEF ContentInv
  <2> QED
    BY <2>3, <2>4
<1>1. CASE SendDirect
  <2>1. stage = "given" /\ Serializable(given) /\ Enter(Sent(given))
    BY <1>1 DEF SendDirect, Sent, ContentInv
  <2> QED
    BY <1>e, <2>1
<1>2. CASE SendHttp
  <2>1. stage = "given" /\ transport = "http" /\ Enter(Sent(given))
    BY <1>2 DEF SendHttp, Sent, ContentInv
  <2> QED
    BY <1>e, <2>1
<1>3. CASE SendFails
  <2>1. /\ UNCHANGED <<transport, given, request, seen, written, response>>
        /\ stage = "given" /\ stage' = "failed"
    BY <1>3 DEF SendFails
  <2>2. NotEntered'
    BY <1>3, <2>1 DEF SendFails, ContentInv, NotEntered
  <2>3. ContentTypeOK'
    BY <1>a, <2>1 DEF ContentTypeOK, Sane
  <2> QED
    BY <2>1, <2>2, <2>3 DEF ContentInv
<1>4. CASE Handle
  <2>1. /\ UNCHANGED <<transport, given, request, seen>>
        /\ stage = "handling" /\ stage' = "answered" /\ response' = written'
    BY <1>4 DEF Handle
  <2>2. Sane([seen EXCEPT !.kind = "blank", !.coats = 0])
    BY <1>a DEF Sane, Message, Kinds, Types
  <2>3. Sane(written')
    BY <1>4, <1>a, <2>2, WritingsAreSane DEF Handle
  <2>4. ContentTypeOK'
    BY <1>a, <2>1, <2>3 DEF ContentTypeOK, Sane
  <2>5. Entered'
    BY <2>1 DEF ContentInv, Entered, Sent
  <2> QED
    BY <2>1, <2>4, <2>5 DEF ContentInv
<1>5. CASE ReceiveDirect
  <2>1. /\ UNCHANGED <<transport, given, seen, written>>
        /\ stage = "answered" /\ transport = "direct" /\ stage' \in {"done", "failed"}
    BY <1>5 DEF ReceiveDirect
  <2>2. Entered /\ request = seen /\ response = written
    BY <2>1 DEF ContentInv
  <2>3. Entered'
    BY <2>1, <2>2 DEF Entered, Sent
  <2>4. IF stage' = "done" THEN Received' ELSE NotReceived'
    BY <1>5, <2>1, <2>2 DEF ReceiveDirect, Received, NotReceived
  <2>5. request' \in {request, Deserialized(request)} /\ response' \in {response, Deserialized(response)}
    BY <1>5 DEF ReceiveDirect
  <2>6. ContentTypeOK'
    BY <1>a, <2>1, <2>5, Conversions DEF ContentTypeOK, Sane
  <2> QED
    BY <2>1, <2>3, <2>4, <2>6 DEF ContentInv
<1>6. CASE ReplyHttp
  <2>1. /\ UNCHANGED <<transport, given, request, seen, written>>
        /\ stage = "answered" /\ transport = "http" /\ stage' \in {"done", "failed"}
    BY <1>6 DEF ReplyHttp
  <2>2. Entered /\ response = written
    BY <2>1 DEF ContentInv
  <2>3. Entered'
    BY <2>1, <2>2 DEF Entered, Sent
  <2>4. IF stage' = "done" THEN Received' ELSE NotReceived'
    BY <1>6, <2>1, <2>2 DEF ReplyHttp, Received, NotReceived
  <2>5. response' \in {response, Serialized(response)}
    BY <1>6 DEF ReplyHttp
  <2>6. ContentTypeOK'
    BY <1>a, <2>1, <2>5, Conversions DEF ContentTypeOK, Sane
  <2> QED
    BY <2>1, <2>3, <2>4, <2>6 DEF ContentInv
<1>7. CASE UNCHANGED vars
  BY <1>7 DEF vars, ContentInv, ContentTypeOK, Entered, NotEntered, Received, NotReceived, Sent
<1> QED
  BY <1>1, <1>2, <1>3, <1>4, <1>5, <1>6, <1>7 DEF ContentNext, Over

LEMMA ContentInvAlways == ContentSpec => []ContentInv
BY ContentInvInit, ContentInvStep, PTL DEF ContentSpec

--------------------------------------------------------------------------------

\* What the handler sees, in terms of what was given.
LEMMA SeenIs ==
  ASSUME ContentInv, Entered
  PROVE  /\ Sane(given)
         /\ seen = Deserialized(Sent(given))
         /\ transport = "http" => IsText(given) /\ given.type = "json"
         /\ transport = "direct" => Serializable(given)
         /\ transport \in {"direct", "http"}
BY TypeBySanity DEF ContentInv, Entered

LEMMA SeenAsMeantByInv == ContentInv => SeenAsMeant
<1> SUFFICES ASSUME ContentInv, stage \in {"handling", "answered", "done"} PROVE SeenAsMeant
  BY DEF SeenAsMeant
<1>1. Entered
  BY DEF ContentInv
<1>2. /\ Sane(given)
      /\ seen = Deserialized(Sent(given))
      /\ transport = "http" => IsText(given) /\ given.type = "json"
      /\ transport = "direct" => Serializable(given)
      /\ transport \in {"direct", "http"}
  BY <1>1, SeenIs
<1>3. CASE transport = "direct"
  <2> DEFINE s == Serialized(given)
  <2>1. seen = Deserialized(s) /\ Sane(s) /\ Serializable(given)
    BY <1>2, <1>3, Conversions DEF Sent
  <2>2. /\ s.kind = IF IsUndefined(given) THEN "blank" ELSE given.kind
        /\ s.coats = IF IsObject(given) THEN 1 ELSE given.coats
        /\ s.type = given.type
    BY <1>2, SerializedFields
  <2>3. /\ seen.kind = IF s.type = "json" /\ IsEmpty(s) THEN "undefined"
                       ELSE IF s.type = "json" /\ s.coats = 1 /\ s.kind = "object" THEN "copy"
                       ELSE s.kind
        /\ seen.coats = IF s.type = "json" /\ IsJson(s) THEN s.coats - 1 ELSE s.coats
    BY <2>1, DeserializedFields
  <2>4. given.coats \in Nat /\ given.kind \in Kinds /\ given.type \in Types
    BY <1>2 DEF Sane, Message
  <2> HIDE DEF s
  <2> QED
    BY <2>1, <2>2, <2>3, <2>4
       DEF SeenAsMeant, Kinds, Types, Serializable, SameValue,
           IsText, IsEmpty, IsJson, IsObject, IsUndefined
<1>4. CASE transport = "http"
  <2> DEFINE s == Guessed(given)
  <2>1. seen = Deserialized(s) /\ Sane(s) /\ IsText(given) /\ given.type = "json"
    BY <1>2, <1>4, Conversions DEF Sent
  <2>2. /\ s.kind = IF IsEmpty(given) THEN "undefined"
                    ELSE IF given.coats = 1 /\ given.kind = "object" THEN "copy"
                    ELSE given.kind
        /\ s.coats = IF IsJson(given) THEN given.coats - 1 ELSE 0
        /\ s.type = IF IsEmpty(given) \/ IsJson(given) THEN "json" ELSE "other"
    BY <1>2, <2>1, GuessedFields
  <2>3. /\ seen.kind = IF s.type = "json" /\ IsEmpty(s) THEN "undefined"
                       ELSE IF s.type = "json" /\ s.coats = 1 /\ s.kind = "object" THEN "copy"
                       ELSE s.kind
        /\ seen.coats = IF s.type = "json" /\ IsJson(s) THEN s.coats - 1 ELSE s.coats
    BY <2>1, DeserializedFields
  <2>4. given.coats \in Nat /\ given.kind \in Kinds
    BY <1>2 DEF Sane, Message
  <2> HIDE DEF s
  <2> QED
    BY <2>1, <2>2, <2>3, <2>4
       DEF SeenAsMeant, Kinds, SameValue, IsText, IsEmpty, IsJson, IsObject, IsUndefined
<1> QED
  BY <1>2, <1>3, <1>4

\* What a plain message becomes on its way is never refused, and can be read as it was.
Read(m, n) == SameValue(m, n) \/ (IsEmpty(n) /\ IsUndefined(m))

LEMMA PlainTravels ==
  ASSUME NEW m, Sane(m), Plain(m)
  PROVE  /\ Serializable(m) /\ Deserializable(m)
         /\ Deserializable(Serialized(m))
         /\ Deserializable(Deserialized(Serialized(m)))
         /\ Read(Deserialized(Deserialized(m)), m)
         /\ Read(Deserialized(Serialized(m)), m)
<1> DEFINE s == Serialized(m)
           d == Deserialized(m)
           ds == Deserialized(s)
           dd == Deserialized(d)
<1>1. Sane(s) /\ Sane(d)
  BY Conversions
<1>2. m.coats = 0 /\ m.kind \in Kinds /\ m.type \in Types
  BY DEF Sane, Message, Plain
<1>3. /\ s.kind = IF IsUndefined(m) THEN "blank" ELSE m.kind
      /\ s.coats = IF IsObject(m) THEN 1 ELSE m.coats
      /\ s.type = m.type
  BY SerializedFields
<1>4. /\ d.kind = IF m.type = "json" /\ IsEmpty(m) THEN "undefined" ELSE m.kind
      /\ d.coats = 0
      /\ d.type = m.type
  BY <1>2, DeserializedFields DEF IsJson
<1>5. /\ ds.kind = IF s.type = "json" /\ IsEmpty(s) THEN "undefined"
                   ELSE IF s.type = "json" /\ s.coats = 1 /\ s.kind = "object" THEN "copy"
                   ELSE s.kind
      /\ ds.coats = IF s.type = "json" /\ IsJson(s) THEN s.coats - 1 ELSE s.coats
      /\ ds.type = s.type
  BY <1>1, DeserializedFields
<1>6. /\ dd.kind = IF d.type = "json" /\ IsEmpty(d) THEN "undefined" ELSE d.kind
      /\ dd.coats = 0
  BY <1>1, <1>4, DeserializedFields DEF IsJson
<1> HIDE DEF s, d, ds, dd
<1>7. Serializable(m) /\ Deserializable(m)
  BY <1>2 DEF Plain, Serializable, Deserializable, IsText, IsEmpty, IsJson, IsObject,
              IsUndefined
<1>8. Deserializable(s) /\ Deserializable(ds) /\ Read(ds, m)
  BY <1>2, <1>3, <1>5 DEF Plain, Deserializable, Read, SameValue, Kinds, Types, IsText,
                          IsEmpty, IsJson, IsObject, IsUndefined
<1>9. Read(dd, m)
  BY <1>2, <1>4, <1>6 DEF Plain, Read, SameValue, Types, IsEmpty, IsUndefined
<1> QED
  BY <1>7, <1>8, <1>9 DEF s, d, ds, dd

\* A plain request gets to its handler, and back.
LEMMA PlainEnters ==
  ASSUME ContentInv, Plain(given)
  PROVE  /\ ~NotEntered
         /\ Entered /\ transport = "direct" => Deserializable(seen)
<1>1. Sane(given) /\ transport \in {"direct", "http"}
  BY TypeBySanity DEF ContentInv
<1>2. CASE transport = "direct"
  BY <1>1, <1>2, PlainTravels DEF NotEntered, Entered, Sent
<1>3. CASE transport = "http"
  <2>1. IsEmpty(given)
    BY <1>3 DEF ContentInv, Plain, IsText, IsEmpty
  <2>2. Sent(given) = NoMessage
    BY <1>3, <2>1 DEF Sent, Guessed, IsEmpty, IsJson
  <2>3. Deserializable(NoMessage)
    BY DEF Deserializable, NoMessage, IsText
  <2> QED
    BY <1>3, <2>2, <2>3 DEF NotEntered
<1> QED
  BY <1>1, <1>2, <1>3

LEMMA PlainArrivesByInv == ContentInv => PlainArrives
<1> SUFFICES ASSUME ContentInv, Plain(given)
             PROVE  /\ stage = "failed" => ~Plain(written)
                    /\ stage = "done" /\ Plain(written) => Read(Deserialized(response), written)
  BY DEF PlainArrives, Read
<1>1. Sane(written)
  BY TypeBySanity DEF ContentInv
<1>2. ASSUME stage = "failed", Plain(written) PROVE FALSE
  <2>1. Entered /\ NotReceived
    BY <1>2, PlainEnters DEF ContentInv
  <2> QED
    BY <1>1, <1>2, <2>1, PlainEnters, PlainTravels, TypeBySanity DEF NotReceived, ContentInv
<1>3. ASSUME stage = "done", Plain(written) PROVE Read(Deserialized(response), written)
  <2>1. response \in {Deserialized(written), Serialized(written)}
    BY <1>3 DEF ContentInv, Received
  <2> QED
    BY <1>1, <1>3, <2>1, PlainTravels
<1> QED
  BY <1>2, <1>3

LEMMA RequestIsRestoredByInv == ContentInv => RequestIsRestored
<1> SUFFICES ASSUME ContentInv, stage = "done", transport = "direct", given.type = "json",
                    ~IsText(given)
             PROVE  SameValue(request, given)
  BY DEF RequestIsRestored
<1>1. /\ Sane(given) /\ Serializable(given)
      /\ request = Deserialized(Deserialized(Serialized(given)))
  BY TypeBySanity DEF ContentInv, Entered, Received, Sent
<1>2. given.coats = 0 /\ (IsUndefined(given) \/ IsObject(given))
  BY <1>1 DEF Sane, Message, Serializable, IsText
<1> DEFINE s == Serialized(given)
           d == Deserialized(s)
<1>3. Sane(s) /\ Sane(d)
  BY <1>1, Conversions
<1>4. /\ s.kind = IF IsUndefined(given) THEN "blank" ELSE given.kind
      /\ s.coats = IF IsObject(given) THEN 1 ELSE 0
      /\ s.type = "json"
  BY <1>1, <1>2, SerializedFields
<1>5. /\ d.kind = IF IsEmpty(s) THEN "undefined"
                  ELSE IF s.coats = 1 /\ s.kind = "object" THEN "copy"
                  ELSE s.kind
      /\ d.coats = IF IsJson(s) THEN s.coats - 1 ELSE s.coats
      /\ d.type = "json"
  BY <1>3, <1>4, DeserializedFields
<1>6. d.coats = 0 /\ d.kind \in {"undefined", "object", "copy"} /\ SameValue(d, given)
  BY <1>2, <1>4, <1>5 DEF SameValue, IsEmpty, IsJson, IsObject, IsUndefined
<1>7. Deserialized(d).kind = d.kind /\ Deserialized(d).coats = 0
  BY <1>3, <1>6, DeserializedFields DEF IsEmpty, IsJson
<1> QED
  BY <1>1, <1>6, <1>7 DEF SameValue

--------------------------------------------------------------------------------

\* The types of the messages, however often they were encoded.
THEOREM ContentTypeCorrect == ContentSpec => []ContentTypeOK
<1>1. ContentInv => ContentTypeOK
  BY DEF ContentInv
<1> QED
  BY <1>1, ContentInvAlways, PTL

\* The handler sees what the application meant, over both transports.
THEOREM SeenAsMeantHolds == ContentSpec => []SeenAsMeant
BY SeenAsMeantByInv, ContentInvAlways, PTL

\* Between parties that write plainly nothing is refused or changed.
THEOREM PlainArrivesHolds == ContentSpec => []PlainArrives
BY PlainArrivesByInv, ContentInvAlways, PTL

\* A resolved direct call leaves in the request what was there before.
THEOREM RequestIsRestoredHolds == ContentSpec => []RequestIsRestored
BY RequestIsRestoredByInv, ContentInvAlways, PTL
=================================================================================
