------------------------ MODULE MiddlewareChain_proofs ------------------------
(***************************************************************************)
(* Theorems about MiddlewareChain, for every length of the chain, every    *)
(* choice of back functions and every number of calls user functions make. *)
(***************************************************************************)
EXTENDS MiddlewareChain, SequenceTheorems, FiniteSetTheorems, TLAPS

FrameType == [kind : Kinds, pos : Nat, calls : 0..MaxCalls, resumed : BOOLEAN]
BackType  == [mw : 1..N, depth : Nat]

\* The position of a call is that of one of t traversed middlewares, or of one of
\* b back functions.
GoodFrame(f, t, b) == /\ f \in FrameType
                      /\ f.kind = "proc" => f.pos \in 1..t
                      /\ f.kind = "back" => f.pos + 1 \in 1..b

\* A callback is called by the event loop, hence at the bottom of the stack.
GoodStack(s, t, b) == /\ s \in Seq(FrameType)
                      /\ \A i \in 1..Len(s) : GoodFrame(s[i], t, b)
                      /\ \A i \in 2..Len(s) : ~s[i].resumed

\* Depths recorded in the back chain rise with the order of registration, and
\* those still to be visited do not exceed the current depth.
DepthsOrdered ==
  /\ \A i, j \in 1..Len(backs) : i <= j => backs[i].depth <= backs[j].depth
  /\ \A i \in 1..Len(backs) : i <= BackIndex => backs[i].depth <= pci

Bounds ==
  /\ bpi <= Len(backs)
  /\ deferred = "none" => bpi = -1 /\ stack = <<>> /\ suspended = {} /\ ~raised
  /\ GoodStack(stack, Len(traversed), Len(backs))
  /\ \A f \in suspended : GoodFrame(f, Len(traversed), Len(backs))

\* An exception that travels while the promise is pending will be caught, unless a callback
\* threw that has answered: somebody else has to.
RaisedIsCaught ==
  raised => \/ Settled
            \/ stack # <<>> /\ ~Top.resumed
            \/ \E f \in suspended : f.calls = 0

TypeInv == TypeOK /\ Bounds

--------------------------------------------------------------------------------
(***************************************************************************)
(* Facts about sequences.                                                  *)
(***************************************************************************)

\* What popping a call stack yields.
LEMMA Pop ==
  ASSUME NEW S, NEW s \in Seq(S), s # <<>>
  PROVE  /\ Front(s) \in Seq(S)
         /\ Last(s) \in S
         /\ Last(s) = s[Len(s)]
         /\ Len(s) \in 1..Len(s)
         /\ Len(Front(s)) = Len(s) - 1
         /\ \A i \in 1..Len(Front(s)) : i \in 1..Len(s) /\ Front(s)[i] = s[i]
<1>1. Len(s) \in Nat \ {0}
  BY EmptySeq
<1>2. \A i \in 1..Len(s) - 1 : s[i] \in S
  BY <1>1, ElementOfSeq
<1>3. PICK n \in Nat : n = Len(s) - 1
  BY <1>1
<1>4. /\ SubSeq(s, 1, n) \in Seq(S)
      /\ Len(SubSeq(s, 1, n)) = IF 1 <= n THEN n - 1 + 1 ELSE 0
      /\ \A i \in 1..n - 1 + 1 : SubSeq(s, 1, n)[i] = s[1 + i - 1]
  <2>1. \A i \in 1..n : s[i] \in S
    BY <1>2, <1>3
  <2> QED
    BY <2>1, <1>3, SubSeqProperties
<1>5. /\ Front(s) \in Seq(S)
      /\ Len(Front(s)) = Len(s) - 1
      /\ \A i \in 1..Len(s) - 1 : Front(s)[i] = s[i]
  BY <1>1, <1>3, <1>4 DEF Front
<1> QED
  BY <1>1, <1>5, ElementOfSeq DEF Last

\* What pushing on a sequence yields.
LEMMA Push ==
  ASSUME NEW S, NEW s \in Seq(S), NEW e \in S
  PROVE  /\ Append(s, e) \in Seq(S)
         /\ Append(s, e) # <<>>
         /\ Last(Append(s, e)) = e
         /\ Len(Append(s, e)) = Len(s) + 1
         /\ \A i \in 1..Len(s) : Append(s, e)[i] = s[i]
         /\ Append(s, e)[Len(s) + 1] = e
BY AppendProperties, LenProperties DEF Last

\* The stack of good calls: pushing, popping, and the exchange going on under it.
LEMMA GoodPush ==
  ASSUME NEW s, NEW e, NEW t \in Nat, NEW b \in Nat,
         GoodStack(s, t, b), GoodFrame(e, t, b), e.resumed => s = <<>>
  PROVE  GoodStack(Append(s, e), t, b)
<1>1. s \in Seq(FrameType) /\ e \in FrameType
  BY DEF GoodStack, GoodFrame
<1>2. Len(s) \in Nat
  BY <1>1, LenProperties
<1>3. \A i \in 1..Len(s) + 1 : GoodFrame(Append(s, e)[i], t, b)
  <2> SUFFICES ASSUME NEW i \in 1..Len(s) + 1
               PROVE  GoodFrame(Append(s, e)[i], t, b)
    OBVIOUS
  <2>1. CASE i \in 1..Len(s)
    BY <1>1, <2>1, Push DEF GoodStack
  <2>2. CASE i = Len(s) + 1
    BY <1>1, <2>2, Push
  <2> QED
    BY <1>2, <2>1, <2>2
<1>4. \A i \in 2..Len(s) + 1 : ~Append(s, e)[i].resumed
  <2> SUFFICES ASSUME NEW i \in 2..Len(s) + 1
               PROVE  ~Append(s, e)[i].resumed
    OBVIOUS
  <2>1. CASE i \in 2..Len(s)
    <3>1. i \in 1..Len(s)
      BY <1>2, <2>1
    <3> QED
      BY <1>1, <2>1, <3>1, Push DEF GoodStack
  <2>2. CASE i = Len(s) + 1
    <3>1. s # <<>>
      BY <1>2, <2>2, EmptySeq
    <3> QED
      BY <1>1, <2>2, <3>1, Push
  <2> QED
    BY <1>2, <2>1, <2>2
<1> QED
  BY <1>1, <1>3, <1>4, Push DEF GoodStack

LEMMA GoodPop ==
  ASSUME NEW s, NEW t \in Nat, NEW b \in Nat,
         GoodStack(s, t, b), s # <<>>
  PROVE  /\ GoodStack(Front(s), t, b)
         /\ GoodFrame(Last(s), t, b)
         /\ Last(s).resumed => Front(s) = <<>>
<1>1. /\ s \in Seq(FrameType) /\ Len(s) \in Nat
      /\ Front(s) \in Seq(FrameType)
      /\ Last(s) = s[Len(s)]
      /\ Len(s) \in 1..Len(s)
      /\ Len(Front(s)) = Len(s) - 1
      /\ \A i \in 1..Len(Front(s)) : i \in 1..Len(s) /\ Front(s)[i] = s[i]
  BY Pop, LenProperties DEF GoodStack
<1>2. \A i \in 2..Len(Front(s)) : i \in 2..Len(s) /\ Front(s)[i] = s[i]
  BY <1>1
<1>3. GoodStack(Front(s), t, b) /\ GoodFrame(Last(s), t, b)
  BY <1>1, <1>2 DEF GoodStack
<1>4. ASSUME Last(s).resumed PROVE Front(s) = <<>>
  <2>1. Len(s) \notin 2..Len(s)
    BY <1>1, <1>4 DEF GoodStack
  <2> QED
    BY <1>1, <2>1, EmptySeq
<1> QED
  BY <1>3, <1>4

LEMMA GoodGrow ==
  ASSUME NEW t \in Nat, NEW b \in Nat, NEW t2 \in Nat, NEW b2 \in Nat,
         t <= t2, b <= b2
  PROVE  /\ \A f : GoodFrame(f, t, b) => GoodFrame(f, t2, b2)
         /\ \A s : GoodStack(s, t, b) => GoodStack(s, t2, b2)
BY DEF GoodStack, GoodFrame, FrameType

--------------------------------------------------------------------------------
(***************************************************************************)
(* Type correctness.                                                       *)
(***************************************************************************)

\* The lengths and the frames at hand when the invariant holds.
LEMMA Lengths ==
  ASSUME TypeInv
  PROVE  /\ Len(traversed) \in Nat /\ Len(backs) \in Nat
         /\ \A i \in 1..Len(traversed) : traversed[i] \in 1..N
         /\ \A i \in 1..Len(backs) : backs[i] \in BackType
         /\ BackIndex \in 0..Len(backs)
<1>1. traversed \in Seq(1..N) /\ backs \in Seq(BackType)
  BY DEF TypeInv, TypeOK, BackType
<1>2. /\ \A i \in 1..Len(traversed) : traversed[i] \in 1..N
      /\ \A i \in 1..Len(backs) : backs[i] \in BackType
  BY <1>1, ElementOfSeq
<1>3. Len(traversed) \in Nat /\ Len(backs) \in Nat
  BY <1>1, LenProperties
<1> QED
  BY <1>2, <1>3 DEF TypeInv, TypeOK, Bounds, BackIndex

LEMMA RunningFrame ==
  ASSUME TypeInv, stack # <<>>
  PROVE  /\ GoodStack(Below, Len(traversed), Len(backs))
         /\ GoodFrame(Top, Len(traversed), Len(backs))
         /\ Mw(Top) \in 1..N
         /\ Top.resumed => Below = <<>>
         /\ Top.calls < MaxCalls => GoodStack(Called, Len(traversed), Len(backs))
<1>1. GoodStack(stack, Len(traversed), Len(backs))
  BY DEF TypeInv, Bounds
<1>2. /\ GoodStack(Below, Len(traversed), Len(backs))
      /\ GoodFrame(Top, Len(traversed), Len(backs))
      /\ Top.resumed => Below = <<>>
  BY <1>1, GoodPop, Lengths DEF Below, Top
<1>3. Mw(Top) \in 1..N
  BY <1>2, Lengths DEF GoodFrame, FrameType, Kinds, BackType, Mw
<1>4. ASSUME Top.calls < MaxCalls
      PROVE  GoodStack(Called, Len(traversed), Len(backs))
  <2>1. /\ GoodFrame([Top EXCEPT !.calls = @ + 1], Len(traversed), Len(backs))
        /\ [Top EXCEPT !.calls = @ + 1].resumed = Top.resumed
    BY <1>2, <1>4, ChainAssumption DEF GoodFrame, FrameType
  <2> QED
    BY <1>2, <2>1, GoodPush, Lengths DEF Called
<1> QED
  BY <1>2, <1>3, <1>4

\* What the types of the variables that only engine operations change become.
LEMMA ProcessRequestTypes ==
  ASSUME TypeInv, NEW m \in 1..N, NEW chain \in Seq(BackType), NEW below,
         Len(backs) <= Len(chain),
         GoodStack(below, Len(traversed), Len(backs)),
         ProcessRequest(m, chain, below)
  PROVE  /\ pci' \in Nat
         /\ traversed' \in Seq(1..N)
         /\ backs' \in Seq(BackType)
         /\ Len(traversed) <= Len(traversed')
         /\ Len(backs) <= Len(backs')
         /\ GoodStack(stack', Len(traversed'), Len(backs'))
<1>1. /\ pci \in Nat /\ traversed \in Seq(1..N)
      /\ Len(traversed) \in Nat /\ Len(backs) \in Nat /\ Len(chain) \in Nat
  BY Lengths, LenProperties DEF TypeInv, TypeOK
<1>2. pci' \in Nat
  BY <1>1 DEF ProcessRequest
<1>3. traversed' \in Seq(1..N) /\ Len(traversed') = Len(traversed) + 1
  BY <1>1, Push DEF ProcessRequest
<1>4. backs' \in Seq(BackType) /\ Len(chain) <= Len(backs')
  <2>1. Registered(m, pci + 1) \in BackType
    BY <1>1 DEF Registered, BackType
  <2>2. /\ Append(chain, Registered(m, pci + 1)) \in Seq(BackType)
        /\ Len(Append(chain, Registered(m, pci + 1))) = Len(chain) + 1
    BY <2>1, Push
  <2> QED
    BY <1>1, <2>2 DEF ProcessRequest
<1>5. Len(backs') \in Nat
  BY <1>4, LenProperties
<1>6. GoodStack(below, Len(traversed'), Len(backs'))
  BY <1>1, <1>3, <1>4, <1>5, GoodGrow
<1>7. /\ GoodFrame(Frame("proc", Len(traversed) + 1), Len(traversed'), Len(backs'))
      /\ ~Frame("proc", Len(traversed) + 1).resumed
  BY <1>1, <1>3, ChainAssumption DEF GoodFrame, Frame, FrameType, Kinds
<1>8. GoodStack(stack', Len(traversed'), Len(backs'))
  BY <1>1, <1>3, <1>5, <1>6, <1>7, GoodPush DEF ProcessRequest
<1> QED
  BY <1>1, <1>2, <1>3, <1>4, <1>5, <1>8

LEMMA SignalTypes ==
  ASSUME TypeInv, NEW below,
         GoodStack(below, Len(traversed), Len(backs)),
         Signal(below)
  PROVE  /\ deferred' \in {deferred, "rejected"}
         /\ GoodStack(stack', Len(traversed), Len(backs))
         /\ raised' \in BOOLEAN
         /\ surfaced' \subseteq {"core", "caller"}
BY DEF TypeInv, TypeOK, Signal

LEMMA SendTypes ==
  ASSUME TypeInv, NEW below,
         GoodStack(below, Len(traversed), Len(backs)),
         SendImplementation(below)
  PROVE  /\ pci' \in Nat
         /\ bpi' \in 0..Len(backs)
         /\ deferred' \in {deferred, "resolved", "rejected"}
         /\ GoodStack(stack', Len(traversed), Len(backs))
         /\ raised' \in BOOLEAN
         /\ surfaced' \subseteq {"core", "caller"}
<1>1. CASE SendBack(below)
  <2>1. backs[BackIndex].depth \in Nat
    BY <1>1, Lengths DEF SendBack, BackType
  <2>2. /\ GoodFrame(Frame("back", BackIndex - 1), Len(traversed), Len(backs))
        /\ ~Frame("back", BackIndex - 1).resumed
    BY <1>1, Lengths, ChainAssumption DEF SendBack, GoodFrame, Frame, FrameType, Kinds
  <2>3. GoodStack(stack', Len(traversed), Len(backs))
    BY <1>1, <2>2, GoodPush, Lengths DEF SendBack
  <2>4. bpi' \in 0..Len(backs)
    BY <1>1, Lengths DEF SendBack
  <2>5. pci' \in Nat /\ deferred' = deferred /\ raised' = FALSE /\ surfaced' = surfaced
    BY <1>1, <2>1 DEF SendBack
  <2>6. surfaced \subseteq {"core", "caller"}
    BY DEF TypeInv, TypeOK
  <2> QED
    BY <2>3, <2>4, <2>5, <2>6
<1>2. CASE SendFinal(below)
  <2>1. CASE longLiving
    BY <1>2, <2>1, SignalTypes, Lengths DEF SendFinal
  <2>2. CASE ~longLiving
    BY <1>2, <2>2, Lengths DEF SendFinal, TypeInv, TypeOK
  <2> QED
    BY <2>1, <2>2
<1> QED
  BY <1>1, <1>2 DEF SendImplementation

LEMMA TypeInvInit == Init => TypeInv
<1> SUFFICES ASSUME Init PROVE TypeInv
  OBVIOUS
<1>1. TypeOK
  BY EmptySeq DEF Init, TypeOK
<1>2. GoodStack(stack, Len(traversed), Len(backs))
  BY EmptySeq DEF Init, GoodStack
<1>3. Bounds
  BY <1>2, EmptySeq DEF Init, Bounds
<1> QED
  BY <1>1, <1>3 DEF TypeInv

\* An action that enters one more middleware.
LEMMA TypeInvForward ==
  ASSUME TypeInv, NEW m \in 1..N, NEW chain \in Seq(BackType), NEW below,
         Len(backs) <= Len(chain),
         GoodStack(below, Len(traversed), Len(backs)),
         ProcessRequest(m, chain, below),
         bpi < 0,
         deferred' \in {"pending", "resolved", "rejected"}, UNCHANGED response,
         repeats' \in Nat
  PROVE  TypeInv'
<1>1. /\ pci' \in Nat
      /\ traversed' \in Seq(1..N)
      /\ backs' \in Seq(BackType)
      /\ Len(traversed) <= Len(traversed')
      /\ Len(backs) <= Len(backs')
      /\ GoodStack(stack', Len(traversed'), Len(backs'))
  BY ProcessRequestTypes
<1>2. /\ UNCHANGED <<longLiving, linked, bpi, suspended, raised, surfaced>>
      /\ bpi = -1
  BY DEF ProcessRequest, TypeInv, TypeOK
<1>3. Len(traversed') \in Nat /\ Len(backs') \in Nat
  BY <1>1, LenProperties
<1>4. TypeOK'
  BY <1>1, <1>2 DEF TypeInv, TypeOK, BackType, GoodStack, FrameType
<1>5. \A f \in suspended' : GoodFrame(f, Len(traversed'), Len(backs'))
  BY <1>1, <1>2, <1>3, Lengths, GoodGrow DEF TypeInv, Bounds
<1>6. Bounds'
  BY <1>1, <1>2, <1>3, <1>5 DEF Bounds
<1> QED
  BY <1>4, <1>6 DEF TypeInv

\* An action that leaves the middlewares traversed and the back chain alone.
LEMMA TypeInvElsewhere ==
  ASSUME TypeInv,
         UNCHANGED <<longLiving, backs, traversed>>,
         linked' \in BOOLEAN,
         pci' \in Nat,
         bpi' \in 0..Len(backs) \cup {bpi},
         deferred # "none",
         deferred' \in {deferred, "resolved", "rejected"},
         response' \in {response, "handled", "internal_error"},
         GoodStack(stack', Len(traversed), Len(backs)),
         \A f \in suspended' : GoodFrame(f, Len(traversed), Len(backs)),
         raised' \in BOOLEAN,
         surfaced' \subseteq {"core", "caller"},
         repeats' \in Nat
  PROVE  TypeInv'
<1>1. bpi' \in Nat \cup {-1} /\ bpi' <= Len(backs)
  BY Lengths DEF TypeInv, TypeOK, Bounds
<1>2. /\ stack' \in Seq(FrameType)
      /\ suspended' \subseteq FrameType
  BY DEF GoodStack, GoodFrame
<1>3. deferred' \in {"none", "pending", "resolved", "rejected"} /\ deferred' # "none"
  BY DEF TypeInv, TypeOK
<1>4. response' \in {"initial", "handled", "internal_error"}
  BY DEF TypeInv, TypeOK
<1>5. TypeOK'
  BY <1>1, <1>2, <1>3, <1>4 DEF TypeInv, TypeOK, FrameType
<1>6. Bounds'
  BY <1>1, <1>3 DEF Bounds
<1> QED
  BY <1>5, <1>6 DEF TypeInv

LEMMA TypeInvSend ==
  ASSUME TypeInv, NEW below,
         GoodStack(below, Len(traversed), Len(backs)),
         deferred # "none",
         response' \in {response, "handled", "internal_error"},
         SendImplementation(below),
         repeats' \in Nat
  PROVE  TypeInv'
<1>1. /\ pci' \in Nat
      /\ bpi' \in 0..Len(backs)
      /\ deferred' \in {deferred, "resolved", "rejected"}
      /\ GoodStack(stack', Len(traversed), Len(backs))
      /\ raised' \in BOOLEAN
      /\ surfaced' \subseteq {"core", "caller"}
  BY SendTypes
<1>2. UNCHANGED <<longLiving, linked, backs, traversed, suspended>>
  BY DEF SendImplementation, request
<1>3. linked' \in BOOLEAN /\ \A f \in suspended' : GoodFrame(f, Len(traversed), Len(backs))
  BY <1>2 DEF TypeInv, TypeOK, Bounds
<1> QED
  BY <1>1, <1>2, <1>3, TypeInvElsewhere

LEMMA TypeInvStep == TypeInv /\ [Next]_vars => TypeInv'
<1> SUFFICES ASSUME TypeInv, [Next]_vars PROVE TypeInv'
  OBVIOUS
<1>a. /\ raised \in BOOLEAN /\ linked \in BOOLEAN /\ pci \in Nat
      /\ surfaced \subseteq {"core", "caller"}
      /\ repeats \in Nat
      /\ backs \in Seq(BackType)
      /\ response \in {"initial", "handled", "internal_error"}
      /\ bpi \in Nat \cup {-1}
      /\ GoodStack(stack, Len(traversed), Len(backs))
      /\ \A f \in suspended : GoodFrame(f, Len(traversed), Len(backs))
      /\ deferred = "none" => bpi = -1 /\ stack = <<>> /\ suspended = {} /\ ~raised
  BY DEF TypeInv, TypeOK, Bounds, BackType
<1>b. repeats' = repeats => repeats' \in Nat
  BY <1>a
<1>c. AnswerForTop => repeats' \in Nat
  BY <1>a DEF AnswerForTop
<1>1. CASE InitiateProcessing
  <2>1. GoodStack(<<>>, Len(traversed), Len(backs))
    BY EmptySeq DEF GoodStack
  <2>2. 1 \in 1..N /\ Len(backs) <= Len(backs)
    BY ChainAssumption, Lengths
  <2>3. /\ ProcessRequest(1, backs, <<>>) /\ bpi < 0
        /\ deferred' = "pending" /\ UNCHANGED <<response, repeats>>
    BY <1>1, <1>a DEF InitiateProcessing
  <2> QED
    BY <1>a, <2>1, <2>2, <2>3, TypeInvForward
<1>2. ASSUME NEW extra \in Extras, CallNext(extra) PROVE TypeInv'
  <2> DEFINE chain == IF extra = "function" THEN Append(backs, Registered(Mw(Top), pci)) ELSE backs
  <2>1. stack # <<>> /\ Top.calls < MaxCalls
    BY <1>2 DEF CallNext, CanCall, Running
  <2>2. /\ GoodStack(Called, Len(traversed), Len(backs)) /\ Mw(Top) \in 1..N
    BY <2>1, RunningFrame
  <2>3. bpi < 0 /\ Mw(Top) # N /\ Mw(Top) + 1 \in 1..N
    BY <1>2, <1>a, <2>2, ChainAssumption DEF CallNext, NextRefused
  <2>4. chain \in Seq(BackType) /\ Len(backs) <= Len(chain)
    <3>1. Registered(Mw(Top), pci) \in BackType
      BY <1>a, <2>2 DEF Registered, BackType
    <3> QED
      BY <1>a, <3>1, Push, Lengths
  <2>5. ProcessRequest(Mw(Top) + 1, chain, Called)
    BY <1>2 DEF CallNext
  <2>6. /\ deferred' \in {"pending", "resolved", "rejected"} /\ UNCHANGED response
        /\ repeats' \in Nat
    BY <1>2, <1>a, <1>c, <2>1 DEF CallNext, TypeInv, TypeOK
  <2> HIDE DEF chain
  <2> QED
    BY <2>2, <2>3, <2>4, <2>5, <2>6, TypeInvForward
<1>3. ASSUME NEW extra \in Extras, CallNextInVain(extra) PROVE TypeInv'
  <2>1. stack # <<>> /\ Top.calls < MaxCalls /\ response' = "internal_error"
    BY <1>3 DEF CallNextInVain, CanCall, Running
  <2>2. GoodStack(Called, Len(traversed), Len(backs)) /\ deferred # "none"
    BY <1>a, <2>1, RunningFrame
  <2> QED
    BY <1>3, <1>c, <2>1, <2>2, TypeInvSend DEF CallNextInVain
<1>4. ASSUME NEW fill \in BOOLEAN, CallSend(fill) PROVE TypeInv'
  <2>1. stack # <<>> /\ Top.calls < MaxCalls /\ response' \in {response, "handled"}
    BY <1>4 DEF CallSend, CanCall, Running
  <2>2. GoodStack(Called, Len(traversed), Len(backs)) /\ deferred # "none"
    BY <1>a, <2>1, RunningFrame
  <2> QED
    BY <1>4, <1>c, <2>1, <2>2, TypeInvSend DEF CallSend
<1>5. CASE Suspend
  <2>1. /\ stack # <<>> /\ stack' = Below /\ suspended' = suspended \cup {Top}
        /\ UNCHANGED <<longLiving, linked, backs, traversed, pci, bpi, deferred,
                        response, raised, surfaced, repeats>>
    BY <1>5 DEF Suspend, CanCall, Running, request, mwdata
  <2>2. /\ GoodStack(stack', Len(traversed), Len(backs))
        /\ \A f \in suspended' : GoodFrame(f, Len(traversed), Len(backs))
    BY <1>a, <2>1, RunningFrame
  <2> QED
    BY <1>a, <2>1, <2>2, TypeInvElsewhere
<1>6. ASSUME NEW f \in suspended, Resume(f) PROVE TypeInv'
  <2>1. /\ stack' = <<[f EXCEPT !.resumed = TRUE]>> /\ suspended' = suspended \ {f}
        /\ UNCHANGED <<longLiving, linked, backs, traversed, pci, bpi, deferred,
                        response, raised, surfaced, repeats>>
    BY <1>6 DEF Resume, request, mwdata
  <2>2. GoodFrame([f EXCEPT !.resumed = TRUE], Len(traversed), Len(backs))
    BY <1>a DEF GoodFrame, FrameType
  <2>3. GoodStack(<<>>, Len(traversed), Len(backs))
    BY EmptySeq DEF GoodStack
  <2>4. <<[f EXCEPT !.resumed = TRUE]>> = Append(<<>>, [f EXCEPT !.resumed = TRUE])
    OBVIOUS
  <2>5. GoodStack(stack', Len(traversed), Len(backs))
    BY <2>1, <2>2, <2>3, <2>4, GoodPush, Lengths
  <2> QED
    BY <1>a, <2>1, <2>5, TypeInvElsewhere
<1>7. CASE Return
  <2>1. /\ stack # <<>> /\ stack' = Below
        /\ UNCHANGED <<longLiving, linked, backs, traversed, pci, bpi, deferred,
                        response, suspended, raised, surfaced, repeats>>
    BY <1>7 DEF Return, Running, request, mwdata
  <2> QED
    BY <1>a, <2>1, RunningFrame, TypeInvElsewhere
<1>8. CASE Throw
  <2>1. /\ stack # <<>> /\ raised' = TRUE
        /\ UNCHANGED <<longLiving, linked, backs, traversed, pci, bpi, deferred,
                        response, stack, suspended, surfaced, repeats>>
    BY <1>8 DEF Throw, Running, request, mwdata
  <2> QED
    BY <1>a, <2>1, TypeInvElsewhere
<1>9. CASE CatchInProcessing
  <2>1. stack # <<>> /\ response' = "internal_error"
    BY <1>9 DEF CatchInProcessing
  <2>2. GoodStack(Below, Len(traversed), Len(backs)) /\ deferred # "none"
    BY <1>a, <2>1, RunningFrame
  <2> QED
    BY <1>9, <1>c, <2>1, <2>2, TypeInvSend DEF CatchInProcessing
<1>10. CASE CatchInSend
  <2>1. /\ stack # <<>> /\ Signal(Below)
        /\ UNCHANGED <<longLiving, linked, backs, pci, bpi, traversed, response, suspended>>
    BY <1>10 DEF CatchInSend, request
  <2>2. GoodStack(Below, Len(traversed), Len(backs)) /\ deferred # "none"
    BY <1>a, <2>1, RunningFrame
  <2>3. /\ deferred' \in {deferred, "rejected"}
        /\ GoodStack(stack', Len(traversed), Len(backs))
        /\ raised' \in BOOLEAN
        /\ surfaced' \subseteq {"core", "caller"}
    BY <2>1, <2>2, SignalTypes
  <2>4. repeats' \in Nat
    BY <1>10, <1>c DEF CatchInSend
  <2> QED
    BY <1>a, <2>1, <2>2, <2>3, <2>4, TypeInvElsewhere
<1>11. CASE Escape
  <2>1. /\ raised /\ stack' = <<>> /\ raised' = FALSE
        /\ surfaced' = surfaced \cup {"caller"}
        /\ UNCHANGED <<longLiving, linked, backs, traversed, pci, bpi, deferred,
                        response, suspended, repeats>>
    BY <1>11 DEF Escape, request, mwdata
  <2>2. GoodStack(<<>>, Len(traversed), Len(backs))
    BY EmptySeq DEF GoodStack
  <2> QED
    BY <1>a, <2>1, <2>2, TypeInvElsewhere
<1>12. CASE Unlink
  <2>1. /\ linked' = FALSE
        /\ UNCHANGED <<longLiving, backs, traversed, pci, bpi, deferred,
                        response, stack, suspended, raised, surfaced, repeats>>
    BY <1>12 DEF Unlink, mwdata, activity
  <2>2. TypeOK'
    BY <2>1 DEF TypeInv, TypeOK
  <2>3. Bounds'
    BY <2>1 DEF TypeInv, Bounds
  <2> QED
    BY <2>2, <2>3 DEF TypeInv
<1>13. CASE UNCHANGED vars
  <2>1. TypeOK' /\ Bounds'
    BY <1>13 DEF TypeInv, TypeOK, Bounds, vars, request, mwdata, activity
  <2> QED
    BY <2>1 DEF TypeInv
<1> QED
  BY <1>1, <1>2, <1>3, <1>4, <1>5, <1>6, <1>7, <1>8, <1>9, <1>10, <1>11, <1>12, <1>13
     DEF Next, Turn, Callback

LEMMA TypeInvAlways == SafeSpec => []TypeInv
BY TypeInvInit, TypeInvStep, PTL DEF SafeSpec

\* Every variable keeps its type in every behaviour, whatever the length of the
\* chain and however often user functions call next() and send().
THEOREM TypeCorrect == SafeSpec => []TypeOK
<1>1. TypeInv => TypeOK
  BY DEF TypeInv
<1> QED
  BY <1>1, TypeInvAlways, PTL

--------------------------------------------------------------------------------
(***************************************************************************)
(* The way back.                                                           *)
(***************************************************************************)

LEMMA ChainDepths ==
  ASSUME NEW chain \in Seq(BackType)
  PROVE  Len(chain) \in Nat /\ \A i \in 1..Len(chain) : chain[i].depth \in Nat
<1>1. Len(chain) \in Nat /\ \A i \in 1..Len(chain) : chain[i] \in BackType
  BY LenProperties, ElementOfSeq
<1> QED
  BY <1>1 DEF BackType

\* Registering at the current depth, or one deeper, keeps the depths in order.
OrderedUpTo(chain, depth) ==
  /\ \A i, j \in 1..Len(chain) : i <= j => chain[i].depth <= chain[j].depth
  /\ \A i \in 1..Len(chain) : chain[i].depth <= depth

LEMMA RegisterOrdered ==
  ASSUME NEW chain \in Seq(BackType), NEW m \in 1..N,
         NEW d \in Nat, NEW e \in Nat, d <= e,
         OrderedUpTo(chain, d)
  PROVE  OrderedUpTo(Append(chain, Registered(m, e)), e)
<1> DEFINE new == Append(chain, Registered(m, e))
<1>1. Registered(m, e) \in BackType /\ Registered(m, e).depth = e
  BY DEF Registered, BackType
<1>2. /\ Len(new) = Len(chain) + 1
      /\ \A i \in 1..Len(chain) : new[i] = chain[i]
      /\ new[Len(chain) + 1] = Registered(m, e)
  BY <1>1, Push
<1>3. Len(chain) \in Nat /\ \A i \in 1..Len(chain) : chain[i].depth \in Nat
  BY ChainDepths
<1> HIDE DEF new
<1>4. \A i \in 1..Len(new) : new[i].depth <= e
  BY <1>1, <1>2, <1>3 DEF OrderedUpTo
<1>5. \A i, j \in 1..Len(new) : i <= j => new[i].depth <= new[j].depth
  <2> SUFFICES ASSUME NEW i \in 1..Len(new), NEW j \in 1..Len(new), i <= j
               PROVE  new[i].depth <= new[j].depth
    OBVIOUS
  <2>1. CASE j = Len(new)
    BY <1>1, <1>2, <1>3, <1>4, <2>1
  <2>2. CASE j # Len(new)
    <3>1. i \in 1..Len(chain) /\ j \in 1..Len(chain)
      BY <1>2, <1>3, <2>2
    <3> QED
      BY <1>2, <3>1 DEF OrderedUpTo
  <2> QED
    BY <2>1, <2>2
<1> QED
  BY <1>4, <1>5 DEF OrderedUpTo, new

LEMMA OrderedForward ==
  ASSUME TypeInv, DepthsOrdered, bpi < 0,
         NEW m \in 1..N, NEW chain \in Seq(BackType), NEW below,
         OrderedUpTo(chain, pci),
         ProcessRequest(m, chain, below)
  PROVE  DepthsOrdered'
<1>1. pci \in Nat /\ pci' = pci + 1 /\ bpi' = bpi
  BY DEF TypeInv, TypeOK, ProcessRequest
<1>2. OrderedUpTo(backs', pci')
  <2>1. CASE m \in HasBack
    BY <1>1, <2>1, RegisterOrdered DEF ProcessRequest
  <2>2. CASE m \notin HasBack
    <3>1. \A i \in 1..Len(chain) : chain[i].depth \in Nat
      BY ChainDepths
    <3>2. OrderedUpTo(chain, pci + 1)
      BY <1>1, <3>1 DEF OrderedUpTo
    <3>3. backs' = chain
      BY <2>2 DEF ProcessRequest
    <3> QED
      BY <1>1, <3>2, <3>3
  <2> QED
    BY <2>1, <2>2
<1> QED
  BY <1>2 DEF DepthsOrdered, OrderedUpTo

LEMMA OrderedSend ==
  ASSUME TypeInv, DepthsOrdered, NEW below, SendImplementation(below)
  PROVE  /\ DepthsOrdered'
         /\ bpi >= 0 => bpi' <= bpi
         /\ pci' <= pci
<1>1. /\ backs' = backs /\ pci \in Nat /\ bpi \in Nat \cup {-1}
      /\ Len(backs) \in Nat /\ BackIndex \in 0..Len(backs)
      /\ \A i \in 1..Len(backs) : backs[i].depth \in Nat
  BY Lengths DEF SendImplementation, request, TypeInv, TypeOK, BackType
<1>2. CASE SendBack(below)
  <2>1. /\ BackIndex \in 1..Len(backs)
        /\ bpi' = BackIndex - 1 /\ bpi' >= 0
        /\ pci' = backs[BackIndex].depth
    BY <1>1, <1>2 DEF SendBack
  <2>2. pci' <= pci /\ (bpi >= 0 => bpi' <= bpi)
    BY <1>1, <2>1 DEF DepthsOrdered, BackIndex
  <2>3. BackIndex' = BackIndex - 1
    BY <1>1, <2>1 DEF BackIndex
  <2>4. \A i \in 1..Len(backs) : i <= BackIndex - 1 => backs[i].depth <= pci'
    BY <1>1, <2>1 DEF DepthsOrdered
  <2> QED
    BY <1>1, <2>2, <2>3, <2>4 DEF DepthsOrdered
<1>3. CASE SendFinal(below)
  <2>1. bpi' = 0 /\ pci' = 0 /\ BackIndex' = 0
    BY <1>3 DEF SendFinal, BackIndex
  <2> QED
    BY <1>1, <2>1 DEF DepthsOrdered
<1> QED
  BY <1>2, <1>3 DEF SendImplementation

LEMMA OrderedStep ==
  TypeInv /\ DepthsOrdered /\ [Next]_vars
    => /\ DepthsOrdered'
       /\ bpi' >= 0 => (bpi >= 0 => bpi' <= bpi) /\ pci' <= pci
<1> SUFFICES ASSUME TypeInv, DepthsOrdered, [Next]_vars
             PROVE  /\ DepthsOrdered'
                    /\ bpi' >= 0 => (bpi >= 0 => bpi' <= bpi) /\ pci' <= pci
  OBVIOUS
<1>a. backs \in Seq(BackType) /\ pci \in Nat /\ bpi \in Nat \cup {-1}
  BY DEF TypeInv, TypeOK, BackType
<1>b. bpi < 0 => OrderedUpTo(backs, pci)
  BY DEF DepthsOrdered, OrderedUpTo, BackIndex
<1>1. CASE InitiateProcessing
  <2>1. bpi < 0 /\ bpi' = bpi /\ 1 \in 1..N /\ ProcessRequest(1, backs, <<>>)
    BY <1>1, ChainAssumption DEF InitiateProcessing, TypeInv, Bounds, ProcessRequest
  <2> QED
    BY <1>a, <1>b, <2>1, OrderedForward
<1>2. ASSUME NEW extra \in Extras, CallNext(extra)
      PROVE  DepthsOrdered' /\ ~(bpi' >= 0)
  <2> DEFINE chain == IF extra = "function" THEN Append(backs, Registered(Mw(Top), pci)) ELSE backs
  <2>1. bpi < 0 /\ bpi' = bpi /\ ProcessRequest(Mw(Top) + 1, chain, Called)
    BY <1>2, <1>a DEF CallNext, NextRefused, ProcessRequest
  <2>2. Mw(Top) \in 1..N /\ Mw(Top) + 1 \in 1..N
    BY <1>2, RunningFrame, ChainAssumption DEF CallNext, CanCall, Running, NextRefused
  <2>3. Registered(Mw(Top), pci) \in BackType
    BY <1>a, <2>2 DEF Registered, BackType
  <2>4. chain \in Seq(BackType) /\ OrderedUpTo(chain, pci)
    <3>1. Append(backs, Registered(Mw(Top), pci)) \in Seq(BackType)
      BY <1>a, <2>3, Push
    <3>2. pci <= pci /\ OrderedUpTo(backs, pci)
      BY <1>a, <1>b, <2>1
    <3>3. OrderedUpTo(Append(backs, Registered(Mw(Top), pci)), pci)
      BY <1>a, <2>2, <3>2, RegisterOrdered
    <3> QED
      BY <1>a, <3>1, <3>2, <3>3
  <2> HIDE DEF chain
  <2>5. DepthsOrdered'
    BY <2>1, <2>2, <2>4, OrderedForward
  <2> QED
    BY <1>a, <2>1, <2>5
<1>3. ASSUME NEW below, SendImplementation(below)
      PROVE  DepthsOrdered' /\ (bpi >= 0 => bpi' <= bpi) /\ pci' <= pci
  BY <1>3, OrderedSend
<1>4. CASE \/ \E extra \in Extras : CallNextInVain(extra)
           \/ CatchInProcessing
           \/ \E fill \in BOOLEAN : CallSend(fill)
  BY <1>3, <1>4 DEF CallNextInVain, CatchInProcessing, CallSend
<1>5. ASSUME UNCHANGED <<backs, pci, bpi>>
      PROVE  DepthsOrdered' /\ (bpi >= 0 => bpi' <= bpi) /\ pci' <= pci
  BY <1>5, <1>a DEF DepthsOrdered, BackIndex
<1>6. CASE \/ Suspend \/ Callback \/ Return \/ Throw \/ CatchInSend \/ Escape
           \/ Unlink \/ UNCHANGED vars
  <2>1. UNCHANGED <<backs, pci, bpi>>
    BY <1>6 DEF Suspend, Callback, Resume, Return, Throw, CatchInSend, Escape, Unlink,
                vars, request, mwdata
  <2> QED
    BY <1>5, <2>1
<1>7. InitiateProcessing => ~(bpi' >= 0)
  BY DEF InitiateProcessing, TypeInv, Bounds, ProcessRequest
<1>8. CASE \E extra \in Extras : CallNext(extra)
  BY <1>2, <1>8, <1>a
<1>9. CASE InitiateProcessing
  BY <1>1, <1>7, <1>9
<1> QED
  BY <1>4, <1>6, <1>8, <1>9 DEF Next, Turn

\* From the first send() on the response moves towards the client only: no back
\* function runs twice or out of order, even when send() is called too often.
THEOREM OutwardOnlyHolds == SafeSpec => OutwardOnly
<1>1. Init => DepthsOrdered
  BY EmptySeq DEF Init, DepthsOrdered
<1>2. SafeSpec => []DepthsOrdered
  BY <1>1, OrderedStep, TypeInvAlways, PTL DEF SafeSpec
<1>3. TypeInv /\ DepthsOrdered /\ [Next]_vars
        => [bpi' >= 0 => (bpi >= 0 => bpi' <= bpi) /\ pci' <= pci]_vars
  BY OrderedStep
<1> QED
  BY <1>2, <1>3, TypeInvAlways, PTL DEF SafeSpec, OutwardOnly

--------------------------------------------------------------------------------
(***************************************************************************)
(* No request is lost.                                                     *)
(***************************************************************************)

LEMMA ToSetPush ==
  ASSUME NEW S, NEW s \in Seq(S), NEW e \in S
  PROVE  ToSet(Append(s, e)) = ToSet(s) \cup {e}
<1>1. /\ Append(s, e) \in Seq(S)
      /\ Len(Append(s, e)) = Len(s) + 1
      /\ \A i \in 1..Len(s) : Append(s, e)[i] = s[i]
      /\ Append(s, e)[Len(s) + 1] = e
  BY Push
<1>2. Len(s) \in Nat /\ DOMAIN s = 1..Len(s) /\ DOMAIN Append(s, e) = 1..Len(s) + 1
  BY <1>1, LenProperties
<1> QED
  BY <1>1, <1>2 DEF ToSet

LEMMA ToSetPop ==
  ASSUME NEW S, NEW s \in Seq(S), s # <<>>
  PROVE  ToSet(s) = ToSet(Front(s)) \cup {Last(s)}
<1>1. /\ Front(s) \in Seq(S)
      /\ Last(s) = s[Len(s)]
      /\ Len(s) \in 1..Len(s)
      /\ Len(Front(s)) = Len(s) - 1
      /\ \A i \in 1..Len(Front(s)) : i \in 1..Len(s) /\ Front(s)[i] = s[i]
  BY Pop
<1>2. Len(s) \in Nat /\ DOMAIN s = 1..Len(s) /\ DOMAIN Front(s) = 1..Len(s) - 1
  BY <1>1, LenProperties
<1>3. ToSet(s) \subseteq ToSet(Front(s)) \cup {Last(s)}
  <2> SUFFICES ASSUME NEW i \in 1..Len(s)
               PROVE  s[i] \in ToSet(Front(s)) \cup {Last(s)}
    BY <1>2 DEF ToSet
  <2>1. CASE i = Len(s)
    BY <1>1, <2>1
  <2>2. CASE i \in 1..Len(s) - 1
    <3>1. i \in DOMAIN Front(s) /\ Front(s)[i] = s[i]
      BY <1>1, <1>2, <2>2
    <3> QED
      BY <3>1 DEF ToSet
  <2>3. Len(s) \in Nat
    BY <1>2
  <2>4. i = Len(s) \/ i \in 1..Len(s) - 1
    BY <2>3
  <2> QED
    BY <2>1, <2>2, <2>4
<1>4. ToSet(Front(s)) \cup {Last(s)} \subseteq ToSet(s)
  BY <1>1, <1>2 DEF ToSet
<1> QED
  BY <1>3, <1>4

\* A function that is entered owes an answer.
LEMMA EnteredOwes ==
  ASSUME NEW below \in Seq(FrameType), NEW kind \in Kinds, NEW pos \in Nat,
         stack' = Append(below, Frame(kind, pos))
  PROVE  Owing' # {} /\ Frame(kind, pos) \in Owing'
<1>1. Frame(kind, pos) \in FrameType /\ Frame(kind, pos).calls = 0
  BY ChainAssumption DEF Frame, FrameType
<1>2. Frame(kind, pos) \in ToSet(stack')
  BY <1>1, ToSetPush
<1> QED
  BY <1>1, <1>2 DEF Owing

\* send() hands the duty to answer on, or settles the promise.
LEMMA SendAnswers ==
  ASSUME TypeInv, deferred # "none", NEW below,
         GoodStack(below, Len(traversed), Len(backs)), SendImplementation(below)
  PROVE  (~raised' /\ Owing' # {}) \/ Settled'
<1>1. CASE SendBack(below)
  <2>1. /\ below \in Seq(FrameType) /\ BackIndex - 1 \in Nat /\ "back" \in Kinds
        /\ stack' = Append(below, Frame("back", BackIndex - 1)) /\ raised' = FALSE
    BY <1>1, Lengths DEF SendBack, GoodStack, Kinds
  <2> QED
    BY <2>1, EnteredOwes
<1>2. CASE SendFinal(below)
  <2>1. deferred \in {"pending", "resolved", "rejected"}
    BY DEF TypeInv, TypeOK
  <2> QED
    BY <1>2, <2>1 DEF SendFinal, Signal, Settled
<1> QED
  BY <1>1, <1>2 DEF SendImplementation

LEMMA RunningSets ==
  ASSUME TypeInv, stack # <<>>
  PROVE  /\ deferred # "none"
         /\ Below \in Seq(FrameType)
         /\ Top \in FrameType
         /\ ToSet(stack) = ToSet(Below) \cup {Top}
         /\ Top.calls < MaxCalls => Called \in Seq(FrameType)
<1>1. stack \in Seq(FrameType) /\ deferred # "none"
  BY DEF TypeInv, TypeOK, Bounds, FrameType
<1>2. ToSet(stack) = ToSet(Below) \cup {Top}
  BY <1>1, ToSetPop DEF Below, Top
<1> QED
  BY <1>1, <1>2, RunningFrame DEF GoodStack, GoodFrame

NotLost == NoLostRequest /\ RaisedIsCaught

LEMMA NotLostStep == TypeInv /\ NotLost /\ [Next]_vars => NotLost'
<1> SUFFICES ASSUME TypeInv, NotLost, [Next]_vars PROVE NotLost'
  OBVIOUS
<1>a. /\ stack \in Seq(FrameType)
      /\ deferred = "none" => stack = <<>> /\ suspended = {} /\ ~raised
      /\ deferred \in {"none", "pending", "resolved", "rejected"}
      /\ raised \in BOOLEAN
  BY DEF TypeInv, TypeOK, Bounds, FrameType
<1>c. ASSUME (~raised' /\ Owing' # {}) \/ Settled' PROVE NotLost'
  BY <1>c DEF NotLost, NoLostRequest, RaisedIsCaught, Settled
<1>d. ASSUME NEW m, NEW chain, NEW below \in Seq(FrameType), ~raised,
             ProcessRequest(m, chain, below)
      PROVE  NotLost'
  <2>1. /\ Len(traversed) + 1 \in Nat /\ "proc" \in Kinds /\ ~raised'
        /\ stack' = Append(below, Frame("proc", Len(traversed) + 1))
    BY <1>d, Lengths DEF ProcessRequest, Kinds
  <2>2. Owing' # {}
    BY <2>1, EnteredOwes
  <2> QED
    BY <1>c, <2>1, <2>2
<1>1. CASE InitiateProcessing
  BY <1>1, <1>a, <1>d, EmptySeq DEF InitiateProcessing
<1>2. CASE \E extra \in Extras : CallNext(extra)
  <2>1. ~raised /\ stack # <<>> /\ Top.calls < MaxCalls
    BY <1>2 DEF CallNext, CanCall, Running
  <2>2. Called \in Seq(FrameType)
    BY <2>1, RunningSets
  <2> QED
    BY <1>2, <1>d, <2>1, <2>2 DEF CallNext
<1>3. CASE \/ \E extra \in Extras : CallNextInVain(extra)
           \/ \E fill \in BOOLEAN : CallSend(fill)
  <2>1. stack # <<>> /\ Top.calls < MaxCalls /\ SendImplementation(Called)
    BY <1>3 DEF CallNextInVain, CallSend, CanCall, Running
  <2>2. deferred # "none" /\ GoodStack(Called, Len(traversed), Len(backs))
    BY <2>1, RunningSets, RunningFrame
  <2> QED
    BY <1>c, <2>1, <2>2, SendAnswers
<1>4. CASE CatchInProcessing
  <2>1. stack # <<>> /\ SendImplementation(Below)
    BY <1>4 DEF CatchInProcessing
  <2>2. deferred # "none" /\ GoodStack(Below, Len(traversed), Len(backs))
    BY <2>1, RunningSets, RunningFrame
  <2> QED
    BY <1>c, <2>1, <2>2, SendAnswers
<1>5. CASE Suspend
  <2>1. /\ stack # <<>> /\ stack' = Below /\ suspended' = suspended \cup {Top}
        /\ ~raised /\ ~raised' /\ deferred' = deferred
    BY <1>5 DEF Suspend, CanCall, Running, mwdata
  <2>2. ToSet(stack) = ToSet(Below) \cup {Top}
    BY <2>1, RunningSets
  <2>3. Owing' = Owing
    <3>1. ToSet(stack') \cup suspended' = ToSet(stack) \cup suspended
      BY <2>1, <2>2
    <3> QED
      BY <3>1 DEF Owing
  <2> QED
    BY <2>1, <2>3 DEF NotLost, NoLostRequest, RaisedIsCaught
<1>6. CASE Callback
  <2>1. PICK f \in suspended : Resume(f)
    BY <1>6 DEF Callback
  <2>2. ~raised /\ ~raised' /\ deferred' = deferred /\ stack = <<>>
    BY <2>1 DEF Resume, mwdata
  <2>3. f \in FrameType
    BY DEF TypeInv, TypeOK, FrameType
  <2>4. stack' = <<[f EXCEPT !.resumed = TRUE]>> /\ suspended' = suspended \ {f}
    BY <2>1 DEF Resume
  <2>5. [f EXCEPT !.resumed = TRUE] \in ToSet(stack')
    <3>1. DOMAIN stack' = {1} /\ stack'[1] = [f EXCEPT !.resumed = TRUE]
      BY <2>4
    <3> QED
      BY <3>1 DEF ToSet
  <2>6. f.calls = 0 => [f EXCEPT !.resumed = TRUE].calls = 0
    BY <2>3 DEF FrameType
  <2>7. ToSet(stack) = {}
    BY <2>2 DEF ToSet
  <2>8. Owing # {} => Owing' # {}
    BY <2>4, <2>5, <2>6, <2>7 DEF Owing
  <2> QED
    BY <2>2, <2>8 DEF NotLost, NoLostRequest, RaisedIsCaught
<1>7. CASE Return
  <2>1. /\ stack # <<>> /\ Top.calls > 0 /\ stack' = Below /\ UNCHANGED suspended
        /\ ~raised /\ ~raised' /\ deferred' = deferred
    BY <1>7 DEF Return, Running, mwdata
  <2>2. ToSet(stack) = ToSet(Below) \cup {Top} /\ Top \in FrameType
    BY <2>1, RunningSets
  <2>3. Owing' = Owing
    <3>1. Top.calls # 0
      BY <2>1, <2>2 DEF FrameType
    <3>2. ToSet(stack) = ToSet(stack') \cup {Top}
      BY <2>1, <2>2
    <3> QED
      BY <2>1, <3>1, <3>2 DEF Owing
  <2> QED
    BY <2>1, <2>3 DEF NotLost, NoLostRequest, RaisedIsCaught
<1>8. CASE Throw
  <2>1. /\ stack # <<>> /\ ~raised /\ (Top.resumed => Top.calls > 0)
        /\ UNCHANGED <<deferred, stack, suspended>>
    BY <1>8 DEF Throw, Running, mwdata
  <2>2. ASSUME deferred = "pending", Top.resumed
        PROVE  \E f \in suspended : f.calls = 0
    <3>1. PICK f \in Owing : TRUE
      BY <2>1, <2>2 DEF NotLost, NoLostRequest
    <3>2. ToSet(stack) = {Top} /\ Top \in FrameType
      <4>1. Below = <<>>
        BY <2>1, <2>2, RunningFrame
      <4> QED
        BY <2>1, <4>1, RunningSets DEF ToSet
    <3>3. Top.calls # 0
      BY <2>1, <2>2, <3>2 DEF FrameType
    <3> QED
      BY <3>1, <3>2, <3>3 DEF Owing
  <2>3. deferred \in {"pending", "resolved", "rejected"}
    BY <1>a, <2>1
  <2> QED
    BY <1>8, <2>1, <2>2, <2>3 DEF Throw, NotLost, NoLostRequest, RaisedIsCaught, Settled, Top
<1>9. CASE CatchInSend
  <2>1. Settled'
    BY <1>9, <1>a DEF CatchInSend, Signal, Settled
  <2> QED
    BY <1>c, <2>1
<1>10. CASE Escape
  <2>1. Settled \/ \E f \in suspended : f.calls = 0
    BY <1>10 DEF Escape, NotLost, RaisedIsCaught
  <2>2. ~raised' /\ UNCHANGED <<deferred, suspended>>
    BY <1>10 DEF Escape, mwdata
  <2> QED
    BY <1>c, <2>1, <2>2 DEF Settled, Owing
<1>11. CASE Unlink \/ UNCHANGED vars
  <2>1. UNCHANGED <<deferred, stack, suspended, raised>>
    BY <1>11 DEF Unlink, vars, mwdata, activity
  <2> QED
    BY <2>1 DEF NotLost, NoLostRequest, RaisedIsCaught, Owing, Settled, Top
<1> QED
  BY <1>1, <1>2, <1>3, <1>4, <1>5, <1>6, <1>7, <1>8, <1>9, <1>10, <1>11 DEF Next, Turn

\* As long as the promise is pending somebody is there to settle it: the engine
\* never drops a request, whatever user functions do.
THEOREM NoLostRequestHolds == SafeSpec => []NoLostRequest
<1>1. Init => NotLost
  BY DEF Init, NotLost, NoLostRequest, RaisedIsCaught
<1>2. NotLost => NoLostRequest
  BY DEF NotLost
<1> QED
  BY <1>1, <1>2, NotLostStep, TypeInvAlways, PTL DEF SafeSpec

--------------------------------------------------------------------------------
(***************************************************************************)
(* No error of a long-living request is swallowed.                         *)
(***************************************************************************)

\* Once such a request is settled the error has been told, or is on its way up the
\* stack, or a function has still to answer, which will raise it.
ErrorIsKept == longLiving /\ Settled => surfaced # {} \/ raised \/ Owing # {}

\* The last send() of a long-living request tells its error or raises it.
LEMMA SendTells ==
  ASSUME TypeInv, longLiving, NEW below \in Seq(FrameType), SendImplementation(below)
  PROVE  surfaced' # {} \/ raised' \/ Owing' # {}
<1>1. CASE SendBack(below)
  <2>1. /\ BackIndex - 1 \in Nat /\ "back" \in Kinds
        /\ stack' = Append(below, Frame("back", BackIndex - 1))
    BY <1>1, Lengths DEF SendBack, Kinds
  <2> QED
    BY <2>1, EnteredOwes
<1>2. CASE SendFinal(below)
  <2>1. Signal(below)
    BY <1>2 DEF SendFinal
  <2>2. linked => surfaced' = surfaced \cup {"core"}
    BY <2>1 DEF Signal
  <2>3. ~linked => raised'
    BY <2>1 DEF Signal
  <2>4. "core" \in surfaced \cup {"core"}
    OBVIOUS
  <2> QED
    BY <2>2, <2>3, <2>4
<1> QED
  BY <1>1, <1>2 DEF SendImplementation

LEMMA ErrorIsKeptStep == TypeInv /\ ErrorIsKept /\ [Next]_vars => ErrorIsKept'
<1> SUFFICES ASSUME TypeInv, ErrorIsKept, [Next]_vars PROVE ErrorIsKept'
  OBVIOUS
<1>a. stack \in Seq(FrameType)
  BY DEF TypeInv, TypeOK, FrameType
<1>b. ASSUME ~longLiving \/ surfaced' # {} \/ raised' \/ Owing' # {}, longLiving' = longLiving
      PROVE  ErrorIsKept'
  BY <1>b DEF ErrorIsKept
<1>c. ASSUME UNCHANGED <<longLiving, deferred, surfaced>>, ~raised,
             Owing # {} => Owing' # {}
      PROVE  ErrorIsKept'
  BY <1>c DEF ErrorIsKept, Settled
<1>d. ASSUME NEW m, NEW chain, NEW below \in Seq(FrameType), ProcessRequest(m, chain, below)
      PROVE  ErrorIsKept'
  <2>1. /\ Len(traversed) + 1 \in Nat /\ "proc" \in Kinds /\ longLiving' = longLiving
        /\ stack' = Append(below, Frame("proc", Len(traversed) + 1))
    BY <1>d, Lengths DEF ProcessRequest, Kinds
  <2>2. Owing' # {}
    BY <2>1, EnteredOwes
  <2> QED
    BY <1>b, <2>1, <2>2
<1>e. ASSUME NEW below \in Seq(FrameType), SendImplementation(below) PROVE ErrorIsKept'
  <2>1. longLiving' = longLiving
    BY <1>e DEF SendImplementation, request
  <2> QED
    BY <1>b, <1>e, <2>1, SendTells
<1>1. CASE InitiateProcessing
  BY <1>1, <1>d, EmptySeq DEF InitiateProcessing
<1>2. CASE \E extra \in Extras : CallNext(extra)
  <2>1. Called \in Seq(FrameType)
    BY <1>2, RunningSets DEF CallNext, CanCall, Running
  <2> QED
    BY <1>2, <1>d, <2>1 DEF CallNext
<1>3. CASE \/ \E extra \in Extras : CallNextInVain(extra)
           \/ \E fill \in BOOLEAN : CallSend(fill)
  <2>1. Called \in Seq(FrameType)
    BY <1>3, RunningSets DEF CallNextInVain, CallSend, CanCall, Running
  <2> QED
    BY <1>3, <1>e, <2>1 DEF CallNextInVain, CallSend
<1>4. CASE CatchInProcessing
  <2>1. Below \in Seq(FrameType)
    BY <1>4, RunningSets DEF CatchInProcessing
  <2> QED
    BY <1>4, <1>e, <2>1 DEF CatchInProcessing
<1>5. CASE Suspend
  <2>1. stack # <<>> /\ stack' = Below /\ suspended' = suspended \cup {Top}
    BY <1>5 DEF Suspend, CanCall, Running
  <2>2. ToSet(stack') \cup suspended' = ToSet(stack) \cup suspended
    BY <2>1, RunningSets
  <2>3. Owing' = Owing
    BY <2>2 DEF Owing
  <2> QED
    BY <1>5, <1>c, <2>3 DEF Suspend, CanCall, Running, mwdata, request
<1>6. CASE Callback
  <2>1. PICK f \in suspended : Resume(f)
    BY <1>6 DEF Callback
  <2>2. /\ stack = <<>> /\ suspended' = suspended \ {f}
        /\ stack' = <<[f EXCEPT !.resumed = TRUE]>>
    BY <2>1 DEF Resume
  <2>3. f \in FrameType
    BY DEF TypeInv, TypeOK, FrameType
  <2>4. [f EXCEPT !.resumed = TRUE] \in ToSet(stack')
    <3>1. DOMAIN stack' = {1} /\ stack'[1] = [f EXCEPT !.resumed = TRUE]
      BY <2>2
    <3> QED
      BY <3>1 DEF ToSet
  <2>5. f.calls = 0 => [f EXCEPT !.resumed = TRUE].calls = 0
    BY <2>3 DEF FrameType
  <2>6. ToSet(stack) = {}
    BY <2>2 DEF ToSet
  <2>7. Owing # {} => Owing' # {}
    BY <2>2, <2>4, <2>5, <2>6 DEF Owing
  <2> QED
    BY <2>1, <1>c, <2>7 DEF Resume, mwdata, request
<1>7. CASE Return
  <2>1. stack # <<>> /\ Top.calls > 0 /\ stack' = Below /\ UNCHANGED suspended
    BY <1>7 DEF Return, Running
  <2>2. ToSet(stack) = ToSet(stack') \cup {Top} /\ Top \in FrameType
    BY <2>1, RunningSets
  <2>3. Top.calls # 0
    BY <2>1, <2>2 DEF FrameType
  <2>4. Owing' = Owing
    BY <2>1, <2>2, <2>3 DEF Owing
  <2> QED
    BY <1>7, <1>c, <2>4 DEF Return, Running, mwdata, request
<1>8. CASE Throw
  BY <1>8, <1>b DEF Throw, request
<1>9. CASE CatchInSend
  BY <1>9, <1>b DEF CatchInSend, Signal, request
<1>10. CASE Escape
  BY <1>10, <1>b DEF Escape, request
<1>11. CASE Unlink \/ UNCHANGED vars
  <2>1. UNCHANGED <<longLiving, deferred, stack, suspended, raised, surfaced>>
    BY <1>11 DEF Unlink, vars, mwdata, activity, request
  <2> QED
    BY <2>1 DEF ErrorIsKept, Owing, Settled
<1> QED
  BY <1>1, <1>2, <1>3, <1>4, <1>5, <1>6, <1>7, <1>8, <1>9, <1>10, <1>11 DEF Next, Turn

\* Nobody listens to the promise of a long-living request: when nothing is left to
\* do for it, its session or the engine's caller has been told of the error.
THEOREM ErrorNeverSwallowedHolds == SafeSpec => []ErrorNeverSwallowed
<1>1. Init => ErrorIsKept
  BY DEF Init, ErrorIsKept, Settled
<1>2. ErrorIsKept => ErrorNeverSwallowed
  BY DEF ErrorIsKept, ErrorNeverSwallowed
<1> QED
  BY <1>1, <1>2, ErrorIsKeptStep, TypeInvAlways, PTL DEF SafeSpec

--------------------------------------------------------------------------------
(***************************************************************************)
(* Calls of user functions are told apart by their kind and position.      *)
(***************************************************************************)

Same(f, g) == f.kind = g.kind /\ f.pos = g.pos

\* No two calls on the stack s, or among the suspended ones w, are the same.
Distinct(s, w) ==
  /\ \A i, j \in 1..Len(s) : Same(s[i], s[j]) => i = j
  /\ \A i \in 1..Len(s) : \A f \in w : ~Same(s[i], f)
  /\ \A f, g \in w : Same(f, g) => f = g

\* Back functions run once the response is on its way back, from the last one on.
Entered(f, b) == f.kind = "back" => b >= 0 /\ f.pos >= b

CallsInv ==
  /\ Distinct(stack, suspended)
  /\ \A f \in ToSet(stack) \cup suspended : Entered(f, bpi)

LEMMA DistinctPop ==
  ASSUME NEW s \in Seq(FrameType), NEW w, s # <<>>, Distinct(s, w)
  PROVE  /\ Distinct(Front(s), w)
         /\ \A f \in ToSet(Front(s)) \cup w : ~Same(Last(s), f) /\ ~Same(f, Last(s))
<1>1. /\ Last(s) = s[Len(s)] /\ Len(s) \in 1..Len(s) /\ Len(s) \in Nat
      /\ Front(s) \in Seq(FrameType) /\ Len(Front(s)) = Len(s) - 1
      /\ \A i \in 1..Len(Front(s)) : i \in 1..Len(s) /\ Front(s)[i] = s[i]
  BY Pop, LenProperties
<1>2. Distinct(Front(s), w)
  BY <1>1 DEF Distinct
<1>3. ASSUME NEW f \in ToSet(Front(s)) PROVE ~Same(Last(s), f)
  <2>1. PICK i \in 1..Len(Front(s)) : f = Front(s)[i]
    BY <1>1, <1>3, LenProperties DEF ToSet
  <2>2. i \in 1..Len(s) /\ i # Len(s) /\ f = s[i]
    BY <1>1, <2>1
  <2> QED
    BY <1>1, <2>2 DEF Distinct
<1>4. \A f \in w : ~Same(Last(s), f)
  BY <1>1 DEF Distinct
<1> QED
  BY <1>2, <1>3, <1>4 DEF Same

LEMMA DistinctPush ==
  ASSUME NEW s \in Seq(FrameType), NEW e \in FrameType, NEW w, Distinct(s, w),
         \A f \in ToSet(s) \cup w : ~Same(e, f)
  PROVE  Distinct(Append(s, e), w)
<1> DEFINE new == Append(s, e)
<1>1. /\ Len(new) = Len(s) + 1 /\ Len(s) \in Nat
      /\ \A i \in 1..Len(s) : new[i] = s[i]
      /\ new[Len(s) + 1] = e
  BY Push, LenProperties
<1>2. \A i \in 1..Len(s) : s[i] \in ToSet(s)
  BY LenProperties DEF ToSet
<1> HIDE DEF new
<1>3. \A i \in 1..Len(s) : ~Same(e, s[i]) /\ ~Same(s[i], e)
  BY <1>2 DEF Same
<1>4. \A i, j \in 1..Len(new) : Same(new[i], new[j]) => i = j
  <2> SUFFICES ASSUME NEW i \in 1..Len(new), NEW j \in 1..Len(new), Same(new[i], new[j])
               PROVE  i = j
    OBVIOUS
  <2>1. CASE i \in 1..Len(s) /\ j \in 1..Len(s)
    BY <1>1, <2>1 DEF Distinct
  <2>2. CASE i = Len(s) + 1 /\ j \in 1..Len(s)
    BY <1>1, <1>3, <2>2
  <2>3. CASE i \in 1..Len(s) /\ j = Len(s) + 1
    BY <1>1, <1>3, <2>3
  <2> QED
    BY <1>1, <2>1, <2>2, <2>3
<1>5. \A i \in 1..Len(new) : \A f \in w : ~Same(new[i], f)
  <2> SUFFICES ASSUME NEW i \in 1..Len(new), NEW f \in w PROVE ~Same(new[i], f)
    OBVIOUS
  <2>1. CASE i \in 1..Len(s)
    BY <1>1, <2>1 DEF Distinct
  <2>2. CASE i = Len(s) + 1
    BY <1>1, <2>2
  <2> QED
    BY <1>1, <2>1, <2>2
<1>6. Distinct(new, w)
  BY <1>4, <1>5 DEF Distinct
<1> QED
  BY <1>6 DEF new

\* What a call of next() or send() makes of the function that calls.
LEMMA CallCounts ==
  ASSUME NEW f \in FrameType, f.calls < MaxCalls
  PROVE  LET e == [f EXCEPT !.calls = @ + 1]
         IN  e \in FrameType /\ e.calls # 0 /\ Same(e, f)
BY ChainAssumption DEF FrameType, Same

\* The running function is nowhere else, also when it has called next() or send().
LEMMA RunningAlone ==
  ASSUME TypeInv, CallsInv, stack # <<>>
  PROVE  /\ Distinct(Below, suspended)
         /\ \A f \in ToSet(Below) \cup suspended : ~Same(Top, f) /\ ~Same(f, Top)
         /\ Top \notin ToSet(Below) \cup suspended
         /\ \A f \in ToSet(Below) \cup {Top} : Entered(f, bpi)
         /\ Top.calls < MaxCalls =>
              /\ ToSet(Called) = ToSet(Below) \cup {[Top EXCEPT !.calls = @ + 1]}
              /\ [Top EXCEPT !.calls = @ + 1].calls # 0
              /\ Distinct(Called, suspended)
              /\ \A f \in ToSet(Called) : Entered(f, bpi)
<1>1. /\ stack \in Seq(FrameType) /\ Below \in Seq(FrameType) /\ Top \in FrameType
      /\ ToSet(stack) = ToSet(Below) \cup {Top}
  BY RunningSets DEF TypeInv, TypeOK, FrameType
<1>2. /\ Distinct(Below, suspended)
      /\ \A f \in ToSet(Below) \cup suspended : ~Same(Top, f) /\ ~Same(f, Top)
  BY <1>1, DistinctPop DEF CallsInv, Below, Top
<1>3. \A f \in ToSet(Below) \cup {Top} : Entered(f, bpi)
  BY <1>1 DEF CallsInv
<1>4. Top \notin ToSet(Below) \cup suspended
  BY <1>2 DEF Same
<1>5. ASSUME Top.calls < MaxCalls
      PROVE  /\ ToSet(Called) = ToSet(Below) \cup {[Top EXCEPT !.calls = @ + 1]}
             /\ [Top EXCEPT !.calls = @ + 1].calls # 0
             /\ Distinct(Called, suspended)
             /\ \A f \in ToSet(Called) : Entered(f, bpi)
  <2>1. PICK e : e = [Top EXCEPT !.calls = @ + 1]
    OBVIOUS
  <2>2. e \in FrameType /\ e.calls # 0 /\ e.kind = Top.kind /\ e.pos = Top.pos
    BY <1>1, <1>5, <2>1, CallCounts DEF Same
  <2>3. \A f \in ToSet(Below) \cup suspended : ~Same(e, f)
    BY <1>2, <2>2 DEF Same
  <2>4. ToSet(Called) = ToSet(Below) \cup {e} /\ Distinct(Called, suspended)
    BY <1>1, <1>2, <2>1, <2>2, <2>3, DistinctPush, ToSetPush DEF Called
  <2>5. Entered(e, bpi)
    BY <1>3, <2>2 DEF Entered
  <2> QED
    BY <1>3, <2>1, <2>2, <2>4, <2>5
<1> QED
  BY <1>2, <1>3, <1>4, <1>5

\* A middleware that is entered is at a new position.
LEMMA CallsForward ==
  ASSUME TypeInv, CallsInv, NEW m, NEW chain, NEW below,
         GoodStack(below, Len(traversed), Len(backs)), Distinct(below, suspended),
         \A f \in ToSet(below) : Entered(f, bpi),
         ProcessRequest(m, chain, below)
  PROVE  CallsInv'
<1>1. PICK pos \in Nat : pos = Len(traversed) + 1
  BY Lengths
<1>2. PICK e : e = Frame("proc", pos)
  OBVIOUS
<1>3. e \in FrameType /\ e.kind = "proc" /\ e.pos = pos
  BY <1>2, ChainAssumption DEF Frame, FrameType, Kinds
<1>4. /\ stack' = Append(below, e) /\ suspended' = suspended /\ bpi' = bpi
  BY <1>1, <1>2 DEF ProcessRequest
<1>5. below \in Seq(FrameType) /\ Len(traversed) \in Nat
  BY Lengths DEF GoodStack
<1>6. \A f \in ToSet(below) \cup suspended : ~Same(e, f)
  <2>1. \A f \in ToSet(below) \cup suspended : GoodFrame(f, Len(traversed), Len(backs))
    BY <1>5, LenProperties DEF GoodStack, ToSet, TypeInv, Bounds
  <2> QED
    BY <1>1, <1>3, <1>5, <2>1 DEF Same, GoodFrame
<1>7. ToSet(stack') = ToSet(below) \cup {e} /\ Distinct(stack', suspended')
  BY <1>3, <1>4, <1>5, <1>6, DistinctPush, ToSetPush
<1>8. \A f \in ToSet(stack') \cup suspended' : Entered(f, bpi')
  BY <1>3, <1>4, <1>7 DEF CallsInv, Entered
<1> QED
  BY <1>7, <1>8 DEF CallsInv

\* A back function that is entered is before those entered so far.
LEMMA CallsSend ==
  ASSUME TypeInv, CallsInv, NEW below \in Seq(FrameType), Distinct(below, suspended),
         \A f \in ToSet(below) : Entered(f, bpi),
         SendImplementation(below)
  PROVE  CallsInv'
<1>1. /\ BackIndex \in Nat /\ bpi \in Nat \cup {-1} /\ suspended' = suspended
      /\ suspended \subseteq FrameType /\ Len(below) \in Nat
      /\ \A f \in ToSet(below) \cup suspended : f.pos \in Nat
  <2>1. \A f \in ToSet(below) : f \in FrameType
    BY ElementOfSeq, LenProperties DEF ToSet
  <2> QED
    BY <2>1, Lengths, LenProperties DEF TypeInv, TypeOK, SendImplementation, FrameType
<1>2. \A f \in ToSet(below) \cup suspended : Entered(f, bpi)
  BY DEF CallsInv
<1>3. CASE SendBack(below)
  <2>1. PICK pos \in Nat : pos = BackIndex - 1
    BY <1>1, <1>3 DEF SendBack
  <2>2. PICK e : e = Frame("back", pos)
    OBVIOUS
  <2>3. e \in FrameType /\ e.kind = "back" /\ e.pos = pos
    BY <2>2, ChainAssumption DEF Frame, FrameType, Kinds
  <2>4. stack' = Append(below, e) /\ bpi' = pos /\ (bpi >= 0 => pos = bpi - 1)
    BY <1>1, <1>3, <2>1, <2>2 DEF SendBack, BackIndex
  <2>5. \A f \in ToSet(below) \cup suspended : ~Same(e, f)
    BY <1>1, <1>2, <2>3, <2>4 DEF Same, Entered
  <2>6. ToSet(stack') = ToSet(below) \cup {e} /\ Distinct(stack', suspended')
    BY <1>1, <2>3, <2>4, <2>5, DistinctPush, ToSetPush
  <2>7. \A f \in ToSet(below) \cup suspended : Entered(f, bpi')
    BY <1>1, <1>2, <2>4 DEF Entered
  <2>8. Entered(e, bpi')
    BY <2>3, <2>4 DEF Entered
  <2> QED
    BY <1>1, <2>6, <2>7, <2>8 DEF CallsInv
<1>4. CASE SendFinal(below)
  <2>1. stack' = below /\ bpi' = 0
    BY <1>4 DEF SendFinal, Signal
  <2>2. \A f \in ToSet(below) \cup suspended : Entered(f, bpi')
    BY <1>1, <2>1 DEF Entered
  <2> QED
    BY <1>1, <2>1, <2>2 DEF CallsInv
<1> QED
  BY <1>3, <1>4 DEF SendImplementation

LEMMA CallsStep == TypeInv /\ CallsInv /\ [Next]_vars => CallsInv'
<1> SUFFICES ASSUME TypeInv, CallsInv, [Next]_vars PROVE CallsInv'
  OBVIOUS
<1>a. ToSet(<<>>) = {} /\ \A w : (\A f, g \in w : Same(f, g) => f = g) => Distinct(<<>>, w)
  BY DEF ToSet, Distinct
<1>b. ASSUME stack # <<>>
      PROVE  /\ Below \in Seq(FrameType) /\ Top \in FrameType
             /\ GoodStack(Below, Len(traversed), Len(backs))
             /\ Top.calls < MaxCalls => GoodStack(Called, Len(traversed), Len(backs))
             /\ Top.calls < MaxCalls => Called \in Seq(FrameType)
  BY <1>b, RunningSets, RunningFrame
<1>1. CASE InitiateProcessing
  <2>1. ProcessRequest(1, backs, <<>>) /\ suspended = {}
    BY <1>1 DEF InitiateProcessing, TypeInv, Bounds
  <2>2. Distinct(<<>>, suspended) /\ GoodStack(<<>>, Len(traversed), Len(backs))
    BY <1>a, <2>1, EmptySeq DEF GoodStack
  <2> QED
    BY <1>a, <2>1, <2>2, CallsForward
<1>2. ASSUME NEW extra \in Extras, CallNext(extra) PROVE CallsInv'
  <2> DEFINE chain == IF extra = "function" THEN Append(backs, Registered(Mw(Top), pci)) ELSE backs
  <2>1. /\ stack # <<>> /\ Top.calls < MaxCalls
        /\ ProcessRequest(Mw(Top) + 1, chain, Called)
    BY <1>2 DEF CallNext, CanCall, Running
  <2> HIDE DEF chain
  <2> QED
    BY <1>b, <2>1, RunningAlone, CallsForward
<1>3. CASE \/ \E extra \in Extras : CallNextInVain(extra)
           \/ \E fill \in BOOLEAN : CallSend(fill)
  <2>1. stack # <<>> /\ Top.calls < MaxCalls /\ SendImplementation(Called)
    BY <1>3 DEF CallNextInVain, CallSend, CanCall, Running
  <2> QED
    BY <1>b, <2>1, RunningAlone, CallsSend
<1>4. CASE CatchInProcessing
  <2>1. stack # <<>> /\ SendImplementation(Below)
    BY <1>4 DEF CatchInProcessing
  <2> QED
    BY <1>b, <2>1, RunningAlone, CallsSend
<1>5. CASE Return \/ CatchInSend
  <2>1. /\ stack # <<>> /\ stack' = Below /\ suspended' = suspended /\ bpi' = bpi
    BY <1>5 DEF Return, CatchInSend, Signal, Running, mwdata
  <2> QED
    BY <2>1, RunningAlone DEF CallsInv
<1>6. CASE Suspend
  <2>1. /\ stack # <<>> /\ stack' = Below /\ suspended' = suspended \cup {Top}
        /\ bpi' = bpi
    BY <1>6 DEF Suspend, CanCall, Running, mwdata
  <2>2. /\ Distinct(Below, suspended)
        /\ \A f \in ToSet(Below) \cup suspended : ~Same(Top, f) /\ ~Same(f, Top)
        /\ \A f \in ToSet(Below) \cup {Top} : Entered(f, bpi)
    BY <2>1, RunningAlone
  <2>3. \A i \in 1..Len(Below) : Below[i] \in ToSet(Below)
    BY <1>b, <2>1, LenProperties DEF ToSet
  <2>4. Distinct(Below, suspended \cup {Top})
    BY <2>2, <2>3 DEF Distinct
  <2> QED
    BY <2>1, <2>2, <2>4 DEF CallsInv
<1>7. CASE Callback
  <2>1. PICK f \in suspended : Resume(f)
    BY <1>7 DEF Callback
  <2>2. PICK g : g = [f EXCEPT !.resumed = TRUE]
    OBVIOUS
  <2>3. stack' = <<g>> /\ suspended' = suspended \ {f} /\ bpi' = bpi
    BY <2>1, <2>2 DEF Resume, mwdata
  <2>4. g \in FrameType /\ g.kind = f.kind /\ g.pos = f.pos
    BY <2>2 DEF TypeInv, TypeOK, FrameType
  <2>5. \A h \in ToSet(<<>>) \cup suspended' : ~Same(g, h)
    BY <1>a, <2>3, <2>4 DEF CallsInv, Distinct, Same
  <2>6. <<>> \in Seq(FrameType) /\ <<g>> = Append(<<>>, g)
    BY EmptySeq
  <2>7. Distinct(<<>>, suspended')
    BY <1>a, <2>3 DEF CallsInv, Distinct
  <2>8. ToSet(stack') = {g} /\ Distinct(stack', suspended')
    <3>1. Distinct(Append(<<>>, g), suspended')
      BY <2>4, <2>5, <2>6, <2>7, DistinctPush
    <3>2. DOMAIN stack' = {1} /\ stack'[1] = g
      BY <2>3
    <3>3. PICK t : t = Append(<<>>, g)
      OBVIOUS
    <3>4. stack' = t /\ Distinct(t, suspended')
      BY <2>3, <2>6, <3>1, <3>3
    <3> QED
      BY <3>2, <3>4 DEF ToSet
  <2>9. \A h \in ToSet(stack') \cup suspended' : Entered(h, bpi')
    BY <2>3, <2>4, <2>8 DEF CallsInv, Entered
  <2> QED
    BY <2>8, <2>9 DEF CallsInv
<1>8. CASE Escape
  <2>1. stack' = <<>> /\ UNCHANGED <<suspended, bpi>>
    BY <1>8 DEF Escape, mwdata
  <2>2. Distinct(<<>>, suspended)
    BY <1>a DEF CallsInv, Distinct
  <2> QED
    BY <1>a, <2>1, <2>2 DEF CallsInv
<1>9. CASE Throw \/ Unlink \/ UNCHANGED vars
  <2>1. UNCHANGED <<stack, suspended, bpi>>
    BY <1>9 DEF Throw, Unlink, vars, mwdata, activity
  <2> QED
    BY <2>1 DEF CallsInv
<1> QED
  BY <1>1, <1>2, <1>3, <1>4, <1>5, <1>6, <1>7, <1>8, <1>9 DEF Next, Turn

LEMMA CallsAlways == SafeSpec => []CallsInv
<1>1. Init => CallsInv
  <2> SUFFICES ASSUME Init PROVE CallsInv
    OBVIOUS
  <2>1. stack = <<>> /\ suspended = {} /\ ToSet(<<>>) = {} /\ Len(<<>>) = 0
    BY DEF Init, ToSet
  <2> QED
    BY <2>1 DEF CallsInv, Distinct
<1> QED
  BY <1>1, CallsStep, TypeInvAlways, PTL DEF SafeSpec

--------------------------------------------------------------------------------
(***************************************************************************)
(* The engine implements OnionReply.                                       *)
(***************************************************************************)

\* The refinement mapping, by name.
Phase == IF deferred = "none" THEN "idle" ELSE IF bpi < 0 THEN "forward" ELSE "back"
Todo  == IF bpi < 0 THEN backs ELSE SubSeq(backs, 1, bpi)

LEMMA PrefixByElements ==
  ASSUME NEW S, NEW s \in Seq(S), NEW t \in Seq(S),
         Len(s) <= Len(t), \A i \in 1..Len(s) : t[i] = s[i]
  PROVE  IsPrefix(s, t)
<1>1. PICK n \in Nat : n = Len(s)
  BY LenProperties
<1>2. /\ \A i \in 1..n : s[i] \in S
      /\ \A i \in 1..n : t[i] \in S
  BY <1>1, ElementOfSeq
<1>3. /\ SubSeq(s, 1, n) \in Seq(S)
      /\ Len(SubSeq(s, 1, n)) = IF 1 <= n THEN n - 1 + 1 ELSE 0
      /\ \A i \in 1..n - 1 + 1 : SubSeq(s, 1, n)[i] = s[1 + i - 1]
  BY <1>1, <1>2, SubSeqProperties
<1>4. /\ SubSeq(t, 1, n) \in Seq(S)
      /\ Len(SubSeq(t, 1, n)) = IF 1 <= n THEN n - 1 + 1 ELSE 0
      /\ \A i \in 1..n - 1 + 1 : SubSeq(t, 1, n)[i] = t[1 + i - 1]
  BY <1>1, <1>2, SubSeqProperties
<1>5. /\ Len(SubSeq(s, 1, n)) = Len(SubSeq(t, 1, n))
      /\ \A i \in 1..Len(SubSeq(s, 1, n)) : SubSeq(s, 1, n)[i] = SubSeq(t, 1, n)[i]
  BY <1>1, <1>3, <1>4
<1>6. SubSeq(s, 1, n) = SubSeq(t, 1, n)
  BY <1>3, <1>4, <1>5, SeqEqual
<1> QED
  BY <1>1, <1>6 DEF IsPrefix

\* Registering back functions only lengthens the chain.
LEMMA ProcessRequestPrefix ==
  ASSUME NEW m \in 1..N, NEW d \in Nat, NEW below,
         backs \in Seq(BackType), pci \in Nat,
         \/ ProcessRequest(m, backs, below)
         \/ \E o \in 1..N : ProcessRequest(m, Append(backs, Registered(o, d)), below)
  PROVE  IsPrefix(backs, backs')
<1>1. Len(backs) \in Nat
  BY LenProperties
<1>a. ASSUME NEW chain \in Seq(BackType), Len(backs) <= Len(chain),
             \A i \in 1..Len(backs) : chain[i] = backs[i],
             ProcessRequest(m, chain, below)
      PROVE  IsPrefix(backs, backs')
  <2>1. Registered(m, pci + 1) \in BackType /\ Len(chain) \in Nat
    BY LenProperties DEF Registered, BackType
  <2>2. /\ Append(chain, Registered(m, pci + 1)) \in Seq(BackType)
        /\ Len(Append(chain, Registered(m, pci + 1))) = Len(chain) + 1
        /\ \A i \in 1..Len(chain) : Append(chain, Registered(m, pci + 1))[i] = chain[i]
    BY <2>1, Push
  <2>3. \A i \in 1..Len(backs) : i \in 1..Len(chain)
    BY <1>1, <1>a, <2>1
  <2>4. IsPrefix(backs, Append(chain, Registered(m, pci + 1)))
    <3> DEFINE new == Append(chain, Registered(m, pci + 1))
    <3>1. new \in Seq(BackType) /\ Len(backs) <= Len(new)
      BY <1>1, <1>a, <2>1, <2>2
    <3>2. \A i \in 1..Len(backs) : new[i] = backs[i]
      BY <1>a, <2>2, <2>3
    <3> HIDE DEF new
    <3>3. IsPrefix(backs, new)
      BY <3>1, <3>2, PrefixByElements
    <3> QED
      BY <3>3 DEF new
  <2>5. IsPrefix(backs, chain)
    BY <1>a, PrefixByElements
  <2> QED
    BY <1>a, <2>4, <2>5 DEF ProcessRequest
<1>2. CASE ProcessRequest(m, backs, below)
  BY <1>1, <1>2, <1>a
<1>3. ASSUME NEW o \in 1..N, ProcessRequest(m, Append(backs, Registered(o, d)), below)
      PROVE  IsPrefix(backs, backs')
  <2>1. Registered(o, d) \in BackType
    BY DEF Registered, BackType
  <2>2. /\ Append(backs, Registered(o, d)) \in Seq(BackType)
        /\ Len(Append(backs, Registered(o, d))) = Len(backs) + 1
        /\ \A i \in 1..Len(backs) : Append(backs, Registered(o, d))[i] = backs[i]
    BY <2>1, Push
  <2>3. Len(backs) <= Len(Append(backs, Registered(o, d)))
    BY <1>1, <2>2
  <2> QED
    BY <1>3, <1>a, <2>2, <2>3
<1> QED
  BY <1>2, <1>3

LEMMA FrontOfPrefix ==
  ASSUME NEW S, NEW s \in Seq(S), NEW k \in 1..Len(s)
  PROVE  /\ SubSeq(s, 1, k) # <<>>
         /\ Front(SubSeq(s, 1, k)) = SubSeq(s, 1, k - 1)
<1>1. Len(s) \in Nat /\ \A i \in 1..k : s[i] \in S
  <2>1. Len(s) \in Nat
    BY LenProperties
  <2>2. \A i \in 1..k : i \in 1..Len(s)
    BY <2>1
  <2> QED
    BY <2>1, <2>2, ElementOfSeq
<1>2. Len(SubSeq(s, 1, k)) = IF 1 <= k THEN k - 1 + 1 ELSE 0
  BY <1>1, SubSeqProperties
<1>3. Len(SubSeq(s, 1, k)) = k
  BY <1>1, <1>2
<1>4. CASE k = 1
  <2>1. SubSeq(SubSeq(s, 1, k), 1, 0) = <<>> /\ SubSeq(s, 1, 0) = <<>>
    BY SubSeqEmpty
  <2> QED
    BY <1>3, <1>4, <2>1, EmptySeq DEF Front
<1>5. CASE k > 1
  <2>1. /\ 1 \in 1..Len(s) /\ k \in 1..Len(s)
        /\ 1 \in 1..k - 1 + 1 /\ k - 1 \in 1..k - 1 + 1
    BY <1>1, <1>5
  <2>2. SubSeq(SubSeq(s, 1, k), 1, k - 1) = SubSeq(s, 1 + 1 - 1, 1 + (k - 1) - 1)
    BY <2>1, SubSeqOfSubSeq
  <2>3. 1 + 1 - 1 = 1 /\ 1 + (k - 1) - 1 = k - 1
    BY <1>1
  <2> QED
    BY <1>1, <1>3, <1>5, <2>2, <2>3, EmptySeq DEF Front
<1> QED
  BY <1>1, <1>4, <1>5

\* send() moves the answer one obligation outwards, or delivers it.
LEMMA SendRefines ==
  ASSUME TypeInv, deferred # "none", NEW below, SendImplementation(below)
  PROVE  Onion!Outward \/ Onion!Deliver
<1>1. /\ backs \in Seq(BackType) /\ backs' = backs
      /\ Len(backs) \in Nat /\ BackIndex \in 0..Len(backs)
      /\ bpi \in Nat \cup {-1} /\ bpi <= Len(backs)
      /\ deferred \in {"pending", "resolved", "rejected"}
  BY Lengths DEF TypeInv, TypeOK, Bounds, BackType, SendImplementation, request
<1>2. Todo = SubSeq(backs, 1, BackIndex)
  BY <1>1, SubSeqFull DEF Todo, BackIndex
<1>3. Phase \in {"forward", "back"}
  BY DEF Phase
<1>4. CASE SendBack(below)
  <2>1. /\ BackIndex \in 1..Len(backs) /\ bpi' = BackIndex - 1
        /\ ~(bpi' < 0) /\ deferred' = deferred
    BY <1>1, <1>4 DEF SendBack
  <2>2. Todo # <<>> /\ Front(Todo) = SubSeq(backs, 1, BackIndex - 1)
    BY <1>1, <1>2, <2>1, FrontOfPrefix
  <2>3. Todo' = SubSeq(backs, 1, BackIndex - 1) /\ Phase' = "back"
    BY <1>1, <2>1 DEF Todo, Phase
  <2>4. Onion!Outward
    BY <1>3, <2>1, <2>2, <2>3 DEF Onion!Outward, Onion!Front, Front, Phase, Todo
  <2> QED
    BY <2>4
<1>5. CASE SendFinal(below)
  <2>1. BackIndex = 0 /\ bpi' = 0
    BY <1>5 DEF SendFinal
  <2>2. Todo = <<>> /\ Todo' = <<>>
    <3>1. SubSeq(backs, 1, 0) = <<>>
      BY SubSeqEmpty
    <3>2. Todo' = SubSeq(backs, 1, 0)
      BY <1>1, <2>1 DEF Todo
    <3> QED
      BY <1>2, <2>1, <3>1, <3>2
  <2>3. deferred' \in IF deferred = "pending" THEN {"resolved", "rejected"} ELSE {deferred}
    BY <1>5 DEF SendFinal, Signal
  <2>4. Phase' = "back"
    BY <1>1, <2>1, <2>3 DEF Phase
  <2>5. Onion!Deliver
    BY <1>3, <2>2, <2>3, <2>4 DEF Onion!Deliver, Phase, Todo
  <2> QED
    BY <2>5
<1> QED
  BY <1>4, <1>5 DEF SendImplementation

LEMMA RefinementStep ==
  TypeInv /\ CallsInv /\ [Next]_vars => [Onion!Next]_(Onion!vars)
<1> SUFFICES ASSUME TypeInv, CallsInv, [Next]_vars
             PROVE  [Onion!Next]_(Onion!vars)
  OBVIOUS
<1>a. /\ backs \in Seq(BackType) /\ pci \in Nat /\ bpi \in Nat \cup {-1}
      /\ deferred \in {"none", "pending", "resolved", "rejected"}
      /\ deferred = "none" => bpi = -1 /\ stack = <<>>
  BY DEF TypeInv, TypeOK, Bounds, BackType
<1>b. ASSUME UNCHANGED <<backs, bpi, deferred>>
      PROVE  UNCHANGED Onion!vars
  BY <1>b DEF Onion!vars
<1>c. ASSUME stack # <<>>, NEW below, SendImplementation(below)
      PROVE  Onion!Next
  <2>1. deferred # "none"
    BY <1>a, <1>c
  <2> QED
    BY <1>c, <2>1, SendRefines DEF Onion!Next
<1>1. CASE InitiateProcessing
  <2>1. /\ deferred = "none" /\ deferred' = "pending" /\ bpi < 0 /\ bpi' < 0
        /\ ProcessRequest(1, backs, <<>>)
    BY <1>1, <1>a DEF InitiateProcessing, ProcessRequest
  <2>2. 1 \in 1..N
    BY ChainAssumption
  <2>3. IsPrefix(backs, backs')
    BY <1>a, <2>1, <2>2, ProcessRequestPrefix
  <2>4. Onion!Begin
    BY <2>1, <2>3 DEF Onion!Begin, Onion!IsPrefix, IsPrefix
  <2> QED
    BY <2>4 DEF Onion!Next
<1>2. ASSUME NEW extra \in Extras, CallNext(extra)
      PROVE  Onion!Next
  <2>1. /\ stack # <<>> /\ bpi < 0 /\ bpi' < 0 /\ deferred' = deferred
        /\ Mw(Top) # N
    BY <1>2, <1>a DEF CallNext, CanCall, Running, NextRefused, ProcessRequest
  <2>2. Mw(Top) \in 1..N
    BY <2>1, RunningFrame
  <2>3. Mw(Top) + 1 \in 1..N
    BY <2>1, <2>2, ChainAssumption
  <2>4. IsPrefix(backs, backs')
    <3>1. CASE extra = "function"
      <4>1. ProcessRequest(Mw(Top) + 1, Append(backs, Registered(Mw(Top), pci)), Called)
        BY <1>2, <3>1 DEF CallNext
      <4> QED
        BY <1>a, <2>2, <2>3, <4>1, ProcessRequestPrefix
    <3>2. CASE extra # "function"
      <4>1. ProcessRequest(Mw(Top) + 1, backs, Called)
        BY <1>2, <3>2 DEF CallNext
      <4> QED
        BY <1>a, <2>3, <4>1, ProcessRequestPrefix
    <3> QED
      BY <3>1, <3>2
  <2>5. Onion!Inward
    BY <1>a, <2>1, <2>4 DEF Onion!Inward, Onion!IsPrefix, IsPrefix
  <2> QED
    BY <2>5 DEF Onion!Next
<1>3. CASE \/ \E extra \in Extras : CallNextInVain(extra)
           \/ CatchInProcessing
           \/ \E fill \in BOOLEAN : CallSend(fill)
  BY <1>3, <1>c DEF CallNextInVain, CatchInProcessing, CallSend, CanCall, Running
<1>4. CASE CatchInSend
  <2>1. /\ stack # <<>> /\ Top.kind = "back" /\ Signal(Below)
        /\ UNCHANGED <<backs, bpi>>
    BY <1>4 DEF CatchInSend, request
  <2>2. Top \in ToSet(stack)
    BY <2>1, RunningSets
  <2>3. bpi >= 0 /\ ~(bpi < 0)
    BY <1>a, <2>1, <2>2 DEF CallsInv, Entered
  <2>4. CASE deferred = "pending"
    <3>1. Onion!Fail
      BY <2>1, <2>3, <2>4 DEF Onion!Fail, Signal
    <3> QED
      BY <3>1 DEF Onion!Next
  <2>5. CASE deferred # "pending"
    BY <1>b, <2>1, <2>5 DEF Signal
  <2> QED
    BY <2>4, <2>5
<1>5. CASE \/ Suspend \/ Callback \/ Return \/ Throw \/ Escape
           \/ Unlink \/ UNCHANGED vars
  <2>1. UNCHANGED <<backs, bpi, deferred>>
    BY <1>5 DEF Suspend, Callback, Resume, Return, Throw, Escape, Unlink,
                vars, request, mwdata
  <2> QED
    BY <1>b, <2>1
<1> QED
  BY <1>1, <1>2, <1>3, <1>4, <1>5 DEF Next, Turn

\* Every behaviour of the engine is, seen through the refinement mapping, one of
\* the protocol: obligations are discharged last in first out, each once, all of
\* them before a delivery, and the promise is settled at most once.
THEOREM EngineImplementsOnionReply == SafeSpec => Onion!SafeSpec
<1>1. Init => Onion!Init
  BY DEF Init, Onion!Init
<1> QED
  BY <1>1, CallsAlways, RefinementStep, TypeInvAlways, PTL DEF SafeSpec, Onion!SafeSpec

--------------------------------------------------------------------------------
(***************************************************************************)
(* The duty to answer.                                                     *)
(***************************************************************************)

DutyInv == IsFiniteSet(Owing) /\ DutyIsConserved

\* Whoever is below the running function, or suspended, and owes an answer.
OwingBelow == {f \in ToSet(Below) \cup suspended : f.calls = 0}

LEMMA CountBelow ==
  ASSUME TypeInv, CallsInv, DutyInv, stack # <<>>
  PROVE  /\ IsFiniteSet(OwingBelow)
         /\ Cardinality(OwingBelow) \in Nat /\ Cardinality(Owing) \in Nat
         /\ Cardinality(Owing) = IF Top.calls = 0 THEN Cardinality(OwingBelow) + 1
                                                  ELSE Cardinality(OwingBelow)
<1>1. ToSet(stack) = ToSet(Below) \cup {Top} /\ Top \notin ToSet(Below) \cup suspended
  BY RunningSets, RunningAlone
<1>2. /\ OwingBelow = Owing \ {Top}
      /\ Top \in Owing <=> Top.calls = 0
  BY <1>1 DEF Owing, OwingBelow
<1>3. IsFiniteSet(Owing)
  BY DEF DutyInv
<1>4. PICK rest : rest = OwingBelow
  OBVIOUS
<1>5. PICK all : all = Owing
  OBVIOUS
<1>6. /\ IsFiniteSet(rest)
      /\ Cardinality(rest) = IF Top \in all THEN Cardinality(all) - 1 ELSE Cardinality(all)
  BY <1>2, <1>3, <1>4, <1>5, FS_RemoveElement
<1>7. Cardinality(rest) \in Nat /\ Cardinality(all) \in Nat
  BY <1>3, <1>5, <1>6, FS_CardinalityType
<1> QED
  BY <1>2, <1>4, <1>5, <1>6, <1>7

\* The running function is answered for: either one function e takes its duty over, or, with
\* none, the promise may have been settled.
LEMMA DutyHanded ==
  ASSUME TypeInv, CallsInv, DutyInv, stack # <<>>, AnswerForTop,
         \/ Owing' \subseteq OwingBelow
         \/ (Settled' => Settled) /\ \E e : Owing' \subseteq OwingBelow \cup {e}
  PROVE  DutyInv'
<1>1. /\ repeats \in Nat /\ repeats' = IF Top.calls = 0 THEN repeats ELSE repeats + 1
      /\ IsFiniteSet(OwingBelow) /\ Cardinality(OwingBelow) \in Nat
      /\ Cardinality(Owing) = IF Top.calls = 0 THEN Cardinality(OwingBelow) + 1
                                               ELSE Cardinality(OwingBelow)
      /\ Cardinality(Owing) + (IF Settled THEN 1 ELSE 0) <= 1 + repeats
  BY CountBelow DEF TypeInv, TypeOK, AnswerForTop, DutyInv, DutyIsConserved
<1>2. PICK new : new = Owing'
  OBVIOUS
<1>3. CASE Owing' \subseteq OwingBelow
  <2>1. IsFiniteSet(new) /\ Cardinality(new) <= Cardinality(OwingBelow)
    BY <1>1, <1>2, <1>3, FS_Subset
  <2>2. Cardinality(new) \in Nat
    BY <2>1, FS_CardinalityType
  <2>3. Cardinality(new) + (IF Settled' THEN 1 ELSE 0) <= 1 + repeats'
    BY <1>1, <2>1, <2>2
  <2> QED
    BY <1>2, <2>1, <2>3 DEF DutyInv, DutyIsConserved
<1>4. CASE (Settled' => Settled) /\ \E e : Owing' \subseteq OwingBelow \cup {e}
  <2>1. PICK e : new \subseteq OwingBelow \cup {e}
    BY <1>2, <1>4
  <2>2. PICK rest : rest = OwingBelow
    OBVIOUS
  <2>3. PICK more : more = rest \cup {e}
    OBVIOUS
  <2>4. IsFiniteSet(rest) /\ Cardinality(rest) \in Nat
    BY <1>1, <2>2
  <2>5. /\ IsFiniteSet(more)
        /\ Cardinality(more) = IF e \in rest THEN Cardinality(rest) ELSE Cardinality(rest) + 1
    BY <2>3, <2>4, FS_AddElement
  <2>6. IsFiniteSet(more) /\ Cardinality(more) <= Cardinality(OwingBelow) + 1
    BY <2>2, <2>4, <2>5
  <2>7. Cardinality(more) \in Nat
    BY <2>6, FS_CardinalityType
  <2>8. IsFiniteSet(new) /\ Cardinality(new) <= Cardinality(more)
    BY <2>1, <2>6, <2>2, <2>3, FS_Subset
  <2>9. Cardinality(new) \in Nat
    BY <2>8, FS_CardinalityType
  <2>10. Cardinality(new) + (IF Settled' THEN 1 ELSE 0) <= 1 + repeats'
    BY <1>1, <1>4, <2>6, <2>8, <2>9, <2>7
  <2> QED
    BY <1>2, <2>8, <2>10 DEF DutyInv, DutyIsConserved
<1> QED
  BY <1>3, <1>4

LEMMA DutyKept ==
  ASSUME TypeInv, DutyInv, Owing' \subseteq Owing, Settled' => Settled, repeats' = repeats
  PROVE  DutyInv'
<1>1. PICK new : new = Owing'
  OBVIOUS
<1>2. /\ IsFiniteSet(Owing) /\ Cardinality(Owing) \in Nat
      /\ IsFiniteSet(new) /\ Cardinality(new) <= Cardinality(Owing) /\ Cardinality(new) \in Nat
  BY <1>1, FS_Subset, FS_CardinalityType DEF DutyInv
<1>3. Cardinality(new) + (IF Settled' THEN 1 ELSE 0) <= 1 + repeats'
  BY <1>2 DEF DutyInv, DutyIsConserved, TypeInv, TypeOK
<1> QED
  BY <1>1, <1>2, <1>3 DEF DutyInv, DutyIsConserved

\* Who owes an answer after an operation of the engine over the stack below.
LEMMA OwingForward ==
  ASSUME TypeInv, NEW below \in Seq(FrameType), NEW m, NEW chain,
         ProcessRequest(m, chain, below)
  PROVE  LET e == Frame("proc", Len(traversed) + 1)
         IN  e \in Owing' /\ Owing' = {f \in ToSet(below) \cup {e} \cup suspended : f.calls = 0}
<1>1. PICK pos \in Nat : pos = Len(traversed) + 1
  BY Lengths
<1>2. PICK e : e = Frame("proc", pos)
  OBVIOUS
<1>3. stack' = Append(below, e) /\ suspended' = suspended
  BY <1>1, <1>2 DEF ProcessRequest
<1>4. e \in FrameType /\ e.calls = 0
  BY <1>2, ChainAssumption DEF Frame, FrameType, Kinds
<1>5. ToSet(stack') = ToSet(below) \cup {e}
  BY <1>3, <1>4, ToSetPush
<1> QED
  BY <1>1, <1>2, <1>3, <1>4, <1>5 DEF Owing

LEMMA OwingSend ==
  ASSUME TypeInv, deferred # "none", NEW below \in Seq(FrameType), SendImplementation(below)
  PROVE  \/ /\ BackIndex > 0 /\ pci' = backs[BackIndex].depth
            /\ deferred' = deferred
            /\ Frame("back", BackIndex - 1) \in Owing'
            /\ Owing' = {f \in ToSet(below) \cup {Frame("back", BackIndex - 1)} \cup suspended :
                            f.calls = 0}
         \/ /\ pci' = 0 /\ Settled'
            /\ Owing' = {f \in ToSet(below) \cup suspended : f.calls = 0}
<1>1. suspended' = suspended /\ deferred \in {"pending", "resolved", "rejected"}
  BY DEF SendImplementation, TypeInv, TypeOK
<1>2. CASE SendBack(below)
  <2>1. PICK pos \in Nat : pos = BackIndex - 1
    BY <1>2, Lengths DEF SendBack
  <2>2. PICK e : e = Frame("back", pos)
    OBVIOUS
  <2>3. stack' = Append(below, e)
    BY <1>2, <2>1, <2>2 DEF SendBack
  <2>4. e \in FrameType /\ e.calls = 0
    BY <2>2, ChainAssumption DEF Frame, FrameType, Kinds
  <2>5. ToSet(stack') = ToSet(below) \cup {e}
    BY <2>3, <2>4, ToSetPush
  <2>6. e \in Owing' /\ Owing' = {f \in ToSet(below) \cup {e} \cup suspended : f.calls = 0}
    BY <1>1, <2>4, <2>5 DEF Owing
  <2> QED
    BY <1>2, <2>1, <2>2, <2>6 DEF SendBack
<1>3. CASE SendFinal(below)
  <2>1. stack' = below /\ pci' = 0 /\ Settled'
    BY <1>1, <1>3 DEF SendFinal, Signal, Settled
  <2> QED
    BY <1>1, <2>1 DEF Owing
<1> QED
  BY <1>2, <1>3 DEF SendImplementation

\* What the stack that the engine goes on from contributes to those who owe an answer.
LEMMA OwingCalled ==
  ASSUME TypeInv, CallsInv, stack # <<>>, NEW below,
         below = Below \/ (Top.calls < MaxCalls /\ below = Called)
  PROVE  /\ below \in Seq(FrameType)
         /\ \A f \in ToSet(below) : f.calls = 0 => f \in ToSet(Below)
<1>1. CASE below = Below
  BY <1>1, RunningSets
<1>2. CASE Top.calls < MaxCalls /\ below = Called
  <2>1. PICK e : e = [Top EXCEPT !.calls = @ + 1]
    OBVIOUS
  <2>2. ToSet(below) = ToSet(Below) \cup {e} /\ e.calls # 0 /\ below \in Seq(FrameType)
    BY <1>2, <2>1, RunningSets, RunningAlone
  <2> QED
    BY <2>2
<1> QED
  BY <1>1, <1>2

LEMMA DutySend ==
  ASSUME TypeInv, CallsInv, DutyInv, stack # <<>>, AnswerForTop, NEW below,
         below = Below \/ (Top.calls < MaxCalls /\ below = Called),
         SendImplementation(below)
  PROVE  DutyInv'
<1>1. /\ below \in Seq(FrameType) /\ deferred # "none"
      /\ \A f \in ToSet(below) : f.calls = 0 => f \in ToSet(Below)
  BY OwingCalled, RunningSets
<1>2. CASE /\ deferred' = deferred
           /\ Owing' = {f \in ToSet(below) \cup {Frame("back", BackIndex - 1)} \cup suspended :
                           f.calls = 0}
  <2>1. PICK e : e = Frame("back", BackIndex - 1)
    OBVIOUS
  <2>2. Owing' \subseteq OwingBelow \cup {e} /\ (Settled' => Settled)
    BY <1>1, <1>2, <2>1 DEF OwingBelow, Settled
  <2> QED
    BY <2>2, DutyHanded
<1>3. CASE Owing' = {f \in ToSet(below) \cup suspended : f.calls = 0}
  <2>1. Owing' \subseteq OwingBelow
    BY <1>1, <1>3 DEF OwingBelow
  <2> QED
    BY <2>1, DutyHanded
<1> QED
  BY <1>1, <1>2, <1>3, OwingSend

LEMMA DutyStep == TypeInv /\ CallsInv /\ DutyInv /\ [Next]_vars => DutyInv'
<1> SUFFICES ASSUME TypeInv, CallsInv, DutyInv, [Next]_vars PROVE DutyInv'
  OBVIOUS
<1>a. ToSet(<<>>) = {} /\ (deferred = "none" => stack = <<>> /\ suspended = {})
  BY DEF ToSet, TypeInv, Bounds
<1>1. CASE InitiateProcessing
  <2>1. PICK e : e = Frame("proc", Len(traversed) + 1)
    OBVIOUS
  <2>2. /\ ProcessRequest(1, backs, <<>>) /\ <<>> \in Seq(FrameType)
        /\ suspended = {} /\ ~Settled' /\ repeats' = repeats
    BY <1>1, <1>a, EmptySeq DEF InitiateProcessing, Settled
  <2>3. Owing' \subseteq {e}
    BY <1>a, <2>1, <2>2, OwingForward
  <2>4. PICK new : new = Owing'
    OBVIOUS
  <2>5. IsFiniteSet({e}) /\ Cardinality({e}) = 1
    BY FS_Singleton
  <2>6. IsFiniteSet(new) /\ Cardinality(new) <= 1
    BY <2>3, <2>4, <2>5, FS_Subset
  <2>7. Cardinality(new) \in Nat
    BY <2>6, FS_CardinalityType
  <2>8. Cardinality(new) + (IF Settled' THEN 1 ELSE 0) <= 1 + repeats'
    BY <2>2, <2>6, <2>7 DEF TypeInv, TypeOK
  <2> QED
    BY <2>4, <2>6, <2>8 DEF DutyInv, DutyIsConserved
<1>2. ASSUME NEW extra \in Extras, CallNext(extra) PROVE DutyInv'
  <2> DEFINE chain == IF extra = "function" THEN Append(backs, Registered(Mw(Top), pci)) ELSE backs
  <2>1. /\ stack # <<>> /\ Top.calls < MaxCalls /\ AnswerForTop
        /\ ProcessRequest(Mw(Top) + 1, chain, Called) /\ deferred' = deferred
    BY <1>2 DEF CallNext, CanCall, Running
  <2> HIDE DEF chain
  <2>2. /\ Called \in Seq(FrameType)
        /\ \A f \in ToSet(Called) : f.calls = 0 => f \in ToSet(Below)
    BY <2>1, OwingCalled
  <2>3. PICK e : e = Frame("proc", Len(traversed) + 1)
    OBVIOUS
  <2>4. Owing' = {f \in ToSet(Called) \cup {e} \cup suspended : f.calls = 0}
    BY <2>1, <2>2, <2>3, OwingForward
  <2>5. Owing' \subseteq OwingBelow \cup {e} /\ (Settled' => Settled)
    BY <2>1, <2>2, <2>4 DEF OwingBelow, Settled
  <2> QED
    BY <2>1, <2>5, DutyHanded
<1>3. CASE \/ \E extra \in Extras : CallNextInVain(extra)
           \/ \E fill \in BOOLEAN : CallSend(fill)
  <2>1. stack # <<>> /\ Top.calls < MaxCalls /\ AnswerForTop /\ SendImplementation(Called)
    BY <1>3 DEF CallNextInVain, CallSend, CanCall, Running
  <2> QED
    BY <2>1, DutySend
<1>4. CASE CatchInProcessing
  <2>1. stack # <<>> /\ AnswerForTop /\ SendImplementation(Below)
    BY <1>4 DEF CatchInProcessing
  <2> QED
    BY <2>1, DutySend
<1>5. CASE CatchInSend
  <2>1. /\ stack # <<>> /\ AnswerForTop /\ stack' = Below /\ suspended' = suspended
    BY <1>5 DEF CatchInSend, Signal
  <2>2. Owing' \subseteq OwingBelow
    BY <2>1 DEF Owing, OwingBelow
  <2> QED
    BY <2>1, <2>2, DutyHanded
<1>6. CASE Suspend
  <2>1. /\ stack # <<>> /\ stack' = Below /\ suspended' = suspended \cup {Top}
        /\ UNCHANGED <<deferred, repeats>>
    BY <1>6 DEF Suspend, CanCall, Running, mwdata
  <2>2. ToSet(stack) = ToSet(Below) \cup {Top}
    BY <2>1, RunningSets
  <2>3. Owing' \subseteq Owing /\ (Settled' => Settled)
    BY <2>1, <2>2 DEF Owing, Settled
  <2> QED
    BY <2>1, <2>3, DutyKept
<1>7. CASE Return
  <2>1. /\ stack # <<>> /\ stack' = Below /\ suspended' = suspended
        /\ UNCHANGED <<deferred, repeats>>
    BY <1>7 DEF Return, Running, mwdata
  <2>2. ToSet(stack) = ToSet(Below) \cup {Top}
    BY <2>1, RunningSets
  <2>3. Owing' \subseteq Owing /\ (Settled' => Settled)
    BY <2>1, <2>2 DEF Owing, Settled
  <2> QED
    BY <2>1, <2>3, DutyKept
<1>8. CASE Callback
  <2>1. PICK f \in suspended : Resume(f)
    BY <1>8 DEF Callback
  <2>2. PICK g : g = [f EXCEPT !.resumed = TRUE]
    OBVIOUS
  <2>3. /\ stack = <<>> /\ stack' = <<g>> /\ suspended' = suspended \ {f}
        /\ UNCHANGED <<deferred, repeats>>
    BY <2>1, <2>2 DEF Resume, mwdata
  <2>4. g.calls = f.calls
    BY <2>2 DEF TypeInv, TypeOK
  <2>5. ToSet(stack') = {g}
    <3>1. DOMAIN stack' = {1} /\ stack'[1] = g
      BY <2>3
    <3> QED
      BY <3>1 DEF ToSet
  <2>6. PICK old, new, rest : old = Owing /\ new = Owing' /\ rest = old \ {f}
    OBVIOUS
  <2>7. /\ IsFiniteSet(old) /\ IsFiniteSet(rest)
        /\ Cardinality(rest) = IF f \in old THEN Cardinality(old) - 1 ELSE Cardinality(old)
    BY <2>6, FS_RemoveElement DEF DutyInv
  <2>8. /\ IsFiniteSet(rest \cup {g})
        /\ Cardinality(rest \cup {g}) = IF g \in rest THEN Cardinality(rest) ELSE Cardinality(rest) + 1
    BY <2>7, FS_AddElement
  <2>9. /\ Cardinality(old) \in Nat /\ Cardinality(rest) \in Nat
        /\ Cardinality(rest \cup {g}) \in Nat
    BY <2>7, <2>8, FS_CardinalityType
  <2>10. CASE f.calls = 0
    <3>1. f \in old /\ new \subseteq rest \cup {g}
      BY <1>a, <2>3, <2>5, <2>6, <2>10 DEF Owing
    <3>2. IsFiniteSet(new) /\ Cardinality(new) <= Cardinality(rest \cup {g})
      BY <2>8, <3>1, FS_Subset
    <3>3. Cardinality(new) \in Nat /\ (Settled' => Settled)
      BY <2>3, <3>2, FS_CardinalityType DEF Settled
    <3>4. Cardinality(new) + (IF Settled' THEN 1 ELSE 0) <= 1 + repeats'
      BY <2>3, <2>6, <2>7, <2>8, <2>9, <3>1, <3>2, <3>3
         DEF DutyInv, DutyIsConserved, TypeInv, TypeOK
    <3> QED
      BY <2>6, <3>2, <3>4 DEF DutyInv, DutyIsConserved
  <2>11. CASE f.calls # 0
    <3>1. Owing' \subseteq Owing /\ (Settled' => Settled)
      BY <2>3, <2>4, <2>5, <2>11 DEF Owing, Settled
    <3> QED
      BY <2>3, <3>1, DutyKept
  <2> QED
    BY <2>10, <2>11
<1>9. CASE Escape
  <2>1. stack' = <<>> /\ UNCHANGED <<suspended, deferred, repeats>>
    BY <1>9 DEF Escape, mwdata
  <2>2. Owing' \subseteq Owing /\ (Settled' => Settled)
    BY <1>a, <2>1 DEF Owing, Settled
  <2> QED
    BY <2>1, <2>2, DutyKept
<1>10. CASE Throw \/ Unlink \/ UNCHANGED vars
  <2>1. UNCHANGED <<stack, suspended, deferred, repeats>>
    BY <1>10 DEF Throw, Unlink, vars, mwdata, activity
  <2>2. Owing' \subseteq Owing /\ (Settled' => Settled)
    BY <2>1 DEF Owing, Settled
  <2> QED
    BY <2>1, <2>2, DutyKept
<1> QED
  BY <1>1, <1>2, <1>3, <1>4, <1>5, <1>6, <1>7, <1>8, <1>9, <1>10 DEF Next, Turn

LEMMA DutyAlways == SafeSpec => []DutyInv
<1>1. Init => DutyInv
  <2> SUFFICES ASSUME Init PROVE DutyInv
    OBVIOUS
  <2>1. Owing = {} /\ ~Settled /\ repeats = 0
    BY DEF Init, Owing, ToSet, Settled
  <2> QED
    BY <2>1, FS_EmptySet DEF DutyInv, DutyIsConserved
<1> QED
  BY <1>1, DutyStep, CallsAlways, TypeInvAlways, PTL DEF SafeSpec

\* Whatever user functions do, those that owe an answer, and the settled promise, are never more
\* than one and the number of times that a function was answered for once more.
THEOREM DutyIsConservedHolds == SafeSpec => []DutyIsConserved
<1>1. DutyInv => DutyIsConserved
  BY DEF DutyInv
<1> QED
  BY <1>1, DutyAlways, PTL

LEMMA AtMostOne ==
  ASSUME NEW S, IsFiniteSet(S), NEW f \in S, NEW k \in Nat, Cardinality(S) + k <= 1
  PROVE  S = {f} /\ k = 0
<1>1. IsFiniteSet({f}) /\ Cardinality({f}) = 1 /\ Cardinality(S) \in Nat
  BY FS_Singleton, FS_CardinalityType
<1>2. {f} \in SUBSET S
  OBVIOUS
<1>3. /\ Cardinality({f}) <= Cardinality(S)
      /\ Cardinality(S) = Cardinality({f}) => S = {f}
  BY <1>2, FS_Subset
<1> QED
  BY <1>1, <1>3

\* As long as nobody has answered once more, who owes an answer is alone, and the promise is
\* not settled.
LEMMA OwingAlone ==
  ASSUME DutyInv, repeats = 0, NEW f \in Owing
  PROVE  Owing = {f} /\ ~Settled
<1>1. PICK k \in Nat : k = IF Settled THEN 1 ELSE 0
  OBVIOUS
<1>2. IsFiniteSet(Owing) /\ Cardinality(Owing) + k <= 1
  BY <1>1 DEF DutyInv, DutyIsConserved
<1>3. Owing = {f} /\ k = 0
  BY <1>2, AtMostOne
<1> QED
  BY <1>1, <1>3

\* Of a function that is answered for, without a repeat.
LEMMA FirstAnswer ==
  ASSUME TypeInv, DutyInv, stack # <<>>, AnswerForTop, repeats' = 0
  PROVE  repeats = 0 /\ Top \in Owing /\ Owing = {Top} /\ ~Settled
<1>1. repeats = 0 /\ Top.calls = 0
  BY DEF AnswerForTop, TypeInv, TypeOK
<1>2. Top \in Owing
  BY <1>1, RunningSets DEF Owing
<1> QED
  BY <1>1, <1>2, OwingAlone

\* Until a function answers once more, nobody writes to a response that was delivered.
THEOREM ResponseStableHolds == SafeSpec => ResponseStable
<1>1. TypeInv /\ DutyInv /\ [Next]_vars
        => [deferred = "resolved" /\ response' # response => repeats' > 0]_vars
  <2> SUFFICES ASSUME TypeInv, DutyInv, Next, deferred = "resolved", response' # response
               PROVE  repeats' > 0
    OBVIOUS
  <2>1. \/ \E extra \in Extras : CallNextInVain(extra)
        \/ \E fill \in BOOLEAN : CallSend(fill)
        \/ CatchInProcessing
    BY DEF Next, Turn, Callback, InitiateProcessing, CallNext, Suspend, Resume, Return, Throw,
           CatchInSend, Escape, Unlink
  <2>2. stack # <<>> /\ AnswerForTop
    BY <2>1 DEF CallNextInVain, CallSend, CatchInProcessing, CanCall, Running
  <2>3. repeats' # 0
    BY <2>2, FirstAnswer DEF Settled
  <2>4. repeats' \in Nat
    BY <2>2 DEF AnswerForTop, TypeInv, TypeOK
  <2> QED
    BY <2>3, <2>4
<1> QED
  BY <1>1, DutyAlways, TypeInvAlways, PTL DEF SafeSpec, ResponseStable

\* As long as nobody has answered once more, a back function is registered at the depth of its
\* middleware, and the depth is that of whoever owes an answer.
DepthInv ==
  repeats = 0 => /\ deferred \in {"none", "resolved"} => pci = 0
                 /\ \A i \in 1..Len(backs) : backs[i].mw = backs[i].depth
                 /\ \A f \in Owing : pci = Mw(f)

\* One more middleware is entered, at the depth that comes next.
LEMMA DepthForward ==
  ASSUME TypeInv, DutyInv', repeats' = 0, NEW m \in 1..N, NEW chain \in Seq(BackType),
         NEW below \in Seq(FrameType),
         \A i \in 1..Len(chain) : chain[i].mw = chain[i].depth,
         m = pci + 1, ProcessRequest(m, chain, below), deferred' \notin {"none", "resolved"}
  PROVE  DepthInv'
<1>1. /\ pci' = m /\ traversed' = Append(traversed, m)
      /\ backs' = IF m \in HasBack THEN Append(chain, Registered(m, pci + 1)) ELSE chain
  BY DEF ProcessRequest
<1>2. PICK pos \in Nat : pos = Len(traversed) + 1
  BY Lengths
<1>3. PICK e : e = Frame("proc", pos)
  OBVIOUS
<1>4. Owing' = {e}
  <2>1. e \in Owing'
    BY <1>2, <1>3, OwingForward
  <2>2. PICK k \in Nat : k = IF Settled' THEN 1 ELSE 0
    OBVIOUS
  <2>3. IsFiniteSet(Owing') /\ Cardinality(Owing') + k <= 1
    BY <2>2 DEF DutyInv, DutyIsConserved
  <2>4. PICK new : new = Owing'
    OBVIOUS
  <2> QED
    BY <2>1, <2>3, <2>4, AtMostOne
<1>5. Mw(e)' = m
  <2>1. traversed \in Seq(1..N)
    BY DEF TypeInv, TypeOK
  <2>2. traversed'[pos] = m
    BY <1>1, <1>2, <2>1, Push
  <2> QED
    BY <1>3, <2>2 DEF Mw, Frame
<1>6. \A i \in 1..Len(backs') : backs'[i].mw = backs'[i].depth
  <2>1. PICK r : r = Registered(m, pci + 1)
    OBVIOUS
  <2>2. r \in BackType /\ r.mw = m /\ r.depth = m
    <3>1. m \in Nat
      BY ChainAssumption
    <3> QED
      BY <2>1, <3>1 DEF Registered, BackType
  <2>3. /\ Len(Append(chain, r)) = Len(chain) + 1 /\ Len(chain) \in Nat
        /\ \A i \in 1..Len(chain) : Append(chain, r)[i] = chain[i]
        /\ Append(chain, r)[Len(chain) + 1] = r
    BY <2>2, Push, LenProperties
  <2>4. \A i \in 1..Len(chain) + 1 : Append(chain, r)[i].mw = Append(chain, r)[i].depth
    BY <2>2, <2>3
  <2> QED
    BY <1>1, <2>1, <2>3, <2>4
<1>7. \A f \in Owing' : pci' = Mw(f)'
  BY <1>1, <1>4, <1>5
<1> QED
  BY <1>6, <1>7 DEF DepthInv

\* A back function is entered, at the depth of its middleware, or the response is delivered.
LEMMA DepthSend ==
  ASSUME TypeInv, DepthInv, DutyInv', repeats = 0, repeats' = 0, deferred # "none",
         NEW below \in Seq(FrameType), SendImplementation(below)
  PROVE  DepthInv'
<1>1. /\ UNCHANGED <<backs, traversed>> /\ BackIndex \in 0..Len(backs) /\ Len(backs) \in Nat
      /\ \A i \in 1..Len(backs) : backs[i].mw = backs[i].depth
  BY Lengths DEF SendImplementation, request, DepthInv
<1>2. PICK k \in Nat : k = IF Settled' THEN 1 ELSE 0
  OBVIOUS
<1>3. PICK new : new = Owing'
  OBVIOUS
<1>4. \A f \in new : new = {f} /\ ~Settled'
  <2>1. IsFiniteSet(new) /\ Cardinality(new) + k <= 1
    BY <1>2, <1>3 DEF DutyInv, DutyIsConserved
  <2> QED
    BY <1>2, <2>1, AtMostOne
<1>5. CASE /\ BackIndex > 0 /\ pci' = backs[BackIndex].depth
           /\ Frame("back", BackIndex - 1) \in Owing'
  <2>1. PICK pos \in Nat : pos = BackIndex - 1 /\ pos + 1 = BackIndex
    BY <1>1, <1>5
  <2>2. PICK e : e = Frame("back", pos)
    OBVIOUS
  <2>3. new = {e} /\ ~Settled'
    BY <1>3, <1>4, <1>5, <2>1, <2>2
  <2>4. Mw(e)' = backs[BackIndex].mw
    BY <1>1, <2>1, <2>2 DEF Mw, Frame
  <2>5. pci' = Mw(e)'
    BY <1>1, <1>5, <2>4
  <2>6. \A f \in Owing' : pci' = Mw(f)'
    BY <1>3, <2>3, <2>5
  <2>7. deferred' \notin {"none", "resolved"}
    <3>1. deferred' # "none"
      BY DEF SendImplementation, SendBack, SendFinal, Signal
    <3> QED
      BY <2>3, <3>1 DEF Settled
  <2> QED
    BY <1>1, <2>6, <2>7 DEF DepthInv
<1>6. CASE pci' = 0 /\ Settled'
  <2>1. \A f \in Owing' : FALSE
    BY <1>3, <1>4, <1>6
  <2> QED
    BY <1>1, <1>6, <2>1 DEF DepthInv
<1> QED
  BY <1>5, <1>6, OwingSend

LEMMA DepthStep == TypeInv /\ DutyInv /\ DutyInv' /\ DepthInv /\ [Next]_vars => DepthInv'
<1> SUFFICES ASSUME TypeInv, DutyInv, DutyInv', DepthInv, [Next]_vars, repeats' = 0
             PROVE  DepthInv'
  BY DEF DepthInv
<1>a. /\ backs \in Seq(BackType) /\ pci \in Nat
      /\ deferred = "none" => stack = <<>> /\ suspended = {}
      /\ deferred \in {"none", "pending", "resolved", "rejected"}
  BY DEF TypeInv, TypeOK, Bounds, BackType
<1>b. ASSUME repeats = 0, UNCHANGED <<pci, traversed, backs>>, Owing' \subseteq Owing,
             deferred' \in {deferred, "rejected"}
      PROVE  DepthInv'
  BY <1>b DEF DepthInv, Mw
<1>c. ASSUME stack # <<>>, AnswerForTop
      PROVE  /\ repeats = 0 /\ Top \in Owing /\ Owing = {Top} /\ ~Settled
             /\ pci = Mw(Top) /\ deferred # "none"
  <2>1. repeats = 0 /\ Top \in Owing /\ Owing = {Top} /\ ~Settled
    BY <1>c, FirstAnswer
  <2> QED
    BY <1>a, <1>c, <2>1 DEF DepthInv
<1>1. CASE InitiateProcessing
  <2>1. /\ ProcessRequest(1, backs, <<>>) /\ deferred = "none" /\ deferred' = "pending"
        /\ repeats = 0 /\ 1 \in 1..N /\ <<>> \in Seq(FrameType)
    BY <1>1, ChainAssumption, EmptySeq DEF InitiateProcessing
  <2>2. 1 = pci + 1 /\ \A i \in 1..Len(backs) : backs[i].mw = backs[i].depth
    BY <2>1 DEF DepthInv
  <2> QED
    BY <1>a, <2>1, <2>2, DepthForward
<1>2. ASSUME NEW extra \in Extras, CallNext(extra) PROVE DepthInv'
  <2> DEFINE chain == IF extra = "function" THEN Append(backs, Registered(Mw(Top), pci)) ELSE backs
  <2>1. /\ ProcessRequest(Mw(Top) + 1, chain, Called) /\ Mw(Top) # N
        /\ stack # <<>> /\ Top.calls < MaxCalls /\ AnswerForTop /\ deferred' = deferred
    BY <1>2 DEF CallNext, NextRefused, CanCall, Running
  <2>2. repeats = 0 /\ pci = Mw(Top) /\ deferred \notin {"none", "resolved"}
    BY <1>c, <2>1 DEF Settled
  <2>3. /\ Mw(Top) \in 1..N /\ Mw(Top) + 1 \in 1..N /\ Mw(Top) + 1 = pci + 1
        /\ Called \in Seq(FrameType)
    BY <2>1, <2>2, RunningFrame, RunningSets, ChainAssumption
  <2>4. PICK r : r = Registered(Mw(Top), pci)
    OBVIOUS
  <2>5. r \in BackType /\ r.mw = r.depth
    BY <1>a, <2>2, <2>3, <2>4 DEF Registered, BackType
  <2>6. /\ Append(backs, r) \in Seq(BackType) /\ Len(backs) \in Nat
        /\ Len(Append(backs, r)) = Len(backs) + 1
        /\ \A i \in 1..Len(backs) : Append(backs, r)[i] = backs[i]
        /\ Append(backs, r)[Len(backs) + 1] = r
    BY <1>a, <2>5, Push, LenProperties
  <2>7. \A i \in 1..Len(backs) : backs[i].mw = backs[i].depth
    BY <2>2 DEF DepthInv
  <2>8. \A i \in 1..Len(backs) + 1 : Append(backs, r)[i].mw = Append(backs, r)[i].depth
    BY <2>5, <2>6, <2>7
  <2>9. chain \in Seq(BackType) /\ \A i \in 1..Len(chain) : chain[i].mw = chain[i].depth
    BY <1>a, <2>4, <2>6, <2>7, <2>8
  <2> HIDE DEF chain
  <2> QED
    BY <2>1, <2>2, <2>3, <2>9, DepthForward
<1>3. CASE \/ \E extra \in Extras : CallNextInVain(extra)
           \/ \E fill \in BOOLEAN : CallSend(fill)
  <2>1. stack # <<>> /\ Top.calls < MaxCalls /\ AnswerForTop /\ SendImplementation(Called)
    BY <1>3 DEF CallNextInVain, CallSend, CanCall, Running
  <2> QED
    BY <1>c, <2>1, RunningSets, DepthSend
<1>4. CASE CatchInProcessing
  <2>1. stack # <<>> /\ AnswerForTop /\ SendImplementation(Below)
    BY <1>4 DEF CatchInProcessing
  <2> QED
    BY <1>c, <2>1, RunningSets, DepthSend
<1>5. CASE CatchInSend
  <2>1. /\ stack # <<>> /\ AnswerForTop /\ stack' = Below /\ suspended' = suspended
        /\ UNCHANGED <<pci, traversed, backs>> /\ deferred' \in {deferred, "rejected"}
    BY <1>5 DEF CatchInSend, Signal, request
  <2>2. Owing' \subseteq Owing
    BY <2>1, RunningSets DEF Owing
  <2> QED
    BY <1>b, <1>c, <2>1, <2>2
<1>6. CASE Suspend \/ Return
  <2>1. /\ stack # <<>> /\ stack' = Below /\ suspended' \subseteq suspended \cup {Top}
        /\ UNCHANGED <<pci, traversed, backs, deferred, repeats>>
    BY <1>6 DEF Suspend, Return, CanCall, Running, request, mwdata
  <2>2. Owing' \subseteq Owing
    BY <2>1, RunningSets DEF Owing
  <2> QED
    BY <1>b, <2>1, <2>2
<1>7. CASE Callback
  <2>1. PICK f \in suspended : Resume(f)
    BY <1>7 DEF Callback
  <2>2. PICK g : g = [f EXCEPT !.resumed = TRUE]
    OBVIOUS
  <2>3. /\ stack' = <<g>> /\ suspended' = suspended \ {f}
        /\ UNCHANGED <<pci, traversed, backs, deferred, repeats>>
    BY <2>1, <2>2 DEF Resume, request, mwdata
  <2>4. g.calls = f.calls /\ g.kind = f.kind /\ g.pos = f.pos
    BY <2>2 DEF TypeInv, TypeOK
  <2>5. ToSet(stack') = {g}
    <3>1. DOMAIN stack' = {1} /\ stack'[1] = g
      BY <2>3
    <3> QED
      BY <3>1 DEF ToSet
  <2>6. Mw(g)' = Mw(f) /\ \A h : Mw(h)' = Mw(h)
    BY <2>3, <2>4 DEF Mw
  <2>7. \A h \in Owing' : h = g \/ h \in Owing
    BY <2>3, <2>5 DEF Owing
  <2>8. g.calls = 0 => f \in Owing
    BY <2>4 DEF Owing
  <2>9. \A h \in Owing' : pci' = Mw(h)'
    <3>1. \A h \in Owing : pci = Mw(h)
      BY <2>3 DEF DepthInv
    <3> QED
      BY <2>3, <2>6, <2>7, <2>8, <3>1 DEF Owing
  <2> QED
    BY <2>3, <2>9 DEF DepthInv
<1>8. CASE Escape
  <2>1. /\ stack' = <<>> /\ suspended' = suspended
        /\ UNCHANGED <<pci, traversed, backs, deferred, repeats>>
    BY <1>8 DEF Escape, request, mwdata
  <2>2. ToSet(<<>>) = {}
    BY DEF ToSet
  <2>3. Owing' \subseteq Owing
    BY <2>1, <2>2 DEF Owing
  <2> QED
    BY <1>b, <2>1, <2>3
<1>9. CASE Throw \/ Unlink \/ UNCHANGED vars
  <2>1. UNCHANGED <<stack, suspended, pci, traversed, backs, deferred, repeats>>
    BY <1>9 DEF Throw, Unlink, vars, request, mwdata, activity
  <2>2. Owing' \subseteq Owing
    BY <2>1 DEF Owing
  <2> QED
    BY <1>b, <2>1, <2>2
<1> QED
  BY <1>1, <1>2, <1>3, <1>4, <1>5, <1>6, <1>7, <1>8, <1>9 DEF Next, Turn

\* Until a function answers once more, the index of the processing chain is the depth of the
\* middleware that has to answer, in both directions, and 0 in a delivered response.
THEOREM DepthTracksDutyHolds == SafeSpec => []DepthTracksDuty
<1>1. Init => DepthInv
  <2> SUFFICES ASSUME Init PROVE DepthInv
    OBVIOUS
  <2>1. Owing = {} /\ Len(backs) = 0 /\ pci = 0
    BY DEF Init, Owing, ToSet
  <2> QED
    BY <2>1 DEF DepthInv
<1>2. DepthInv => DepthTracksDuty
  BY DEF DepthInv, DepthTracksDuty
<1> QED
  BY <1>1, <1>2, DepthStep, DutyAlways, TypeInvAlways, PTL DEF SafeSpec
================================================================================
