---------------------------- MODULE MiddlewareChain ----------------------------
(***************************************************************************)
(* The middleware engine, server/middleware/base.js: one request and its   *)
(* response travelling through a chain of N middlewares.  All state the    *)
(* engine keeps lives in that request and that response, so one exchange   *)
(* is the whole machine.                                                   *)
(*                                                                         *)
(* JavaScript is single-threaded: the engine and the user's functions run  *)
(* on one call stack, modelled frame by frame (user functions only: the    *)
(* engine's own code between two of them is one step).  A user function    *)
(* may return and answer later, from a callback; it is then suspended.     *)
(* User functions are arbitrary: they may call next() or send() up to      *)
(* MaxCalls times, in any context, and may throw, before or after that.    *)
(* An answer that is not the first one of its function is a repeat.        *)
(***************************************************************************)
EXTENDS Integers, Sequences, FiniteSets, SequencesExt

CONSTANTS N,        \* the number of middlewares that use() has chained
          HasBack,  \* those with a default back processing function
          MaxCalls  \* how often one user function may call next() or send()

ASSUME ChainAssumption == /\ N \in Nat \ {0}
                          /\ HasBack \subseteq 1..N
                          /\ MaxCalls \in Nat \ {0}

VARIABLES
  longLiving, \* request.is_long_living
  linked,     \* request -> session -> server core can be followed
  backs,      \* request.middleware_.back_processing_chain_
  pci,        \* response.middleware_.processing_chain_index
  bpi,        \* response.middleware_.back_processing_chain_index
  traversed,  \* response.middleware_.traversed_mw_list
  deferred,   \* the state of response.middleware_.final_deferred
  response,   \* who last wrote the response's code and content
  stack,      \* the running user functions, innermost last
  suspended,  \* user functions that returned and will answer from a callback
  raised,     \* an exception is travelling down the stack
  surfaced,   \* where errors were reported other than through the promise
  repeats     \* history: how often a function was answered for, or answered, once more

request  == <<longLiving, linked, backs>>
mwdata   == <<pci, bpi, traversed, deferred>>
activity == <<stack, suspended, raised>>
vars     == <<request, mwdata, response, activity, surfaced, repeats>>

(***************************************************************************)
(* A call of a user function.  pos tells the calls apart: a processing     *)
(* function is the pos-th middleware traversed, a back function is entry   *)
(* pos of the back chain (counted from 0, as in the code).                 *)
(***************************************************************************)
Kinds == {"proc", "back"}
Frame(kind, pos) == [kind |-> kind, pos |-> pos, calls |-> 0, resumed |-> FALSE]

Top    == Last(stack)
Below  == Front(stack)
Called == Append(Below, [Top EXCEPT !.calls = @ + 1])

\* The middleware whose next() the function holds (callback_data.this_ in back).
Mw(f) == IF f.kind = "proc" THEN traversed[f.pos] ELSE backs[f.pos + 1].mw

TypeOK ==
  /\ longLiving \in BOOLEAN
  /\ linked \in BOOLEAN
  /\ backs \in Seq([mw : 1..N, depth : Nat])
  /\ pci \in Nat
  /\ bpi \in Nat \cup {-1}
  /\ traversed \in Seq(1..N)
  /\ deferred \in {"none", "pending", "resolved", "rejected"}
  /\ response \in {"initial", "handled", "internal_error"}
  /\ stack \in Seq([kind : Kinds, pos : Nat, calls : 0..MaxCalls, resumed : BOOLEAN])
  /\ suspended \subseteq [kind : Kinds, pos : Nat, calls : 0..MaxCalls, resumed : BOOLEAN]
  /\ raised \in BOOLEAN
  /\ surfaced \subseteq {"core", "caller"}
  /\ repeats \in Nat

Init ==
  /\ longLiving \in BOOLEAN
  /\ linked \in BOOLEAN
  /\ backs = <<>>
  /\ pci = 0
  /\ bpi = -1
  /\ traversed = <<>>
  /\ deferred = "none"
  /\ response = "initial"
  /\ stack = <<>>
  /\ suspended = {}
  /\ raised = FALSE
  /\ surfaced = {}
  /\ repeats = 0

--------------------------------------------------------------------------------
(***************************************************************************)
(* The engine's operations: what runs between two user functions.  below   *)
(* is the stack of their callers.                                          *)
(***************************************************************************)

Registered(m, depth) == [mw |-> m, depth |-> depth]

\* process_request_ of middleware m, up to the call of its processing function.
ProcessRequest(m, chain, below) ==
  /\ pci' = pci + 1
  /\ traversed' = Append(traversed, m)
  /\ backs' = IF m \in HasBack THEN Append(chain, Registered(m, pci + 1)) ELSE chain
  /\ stack' = Append(below, Frame("proc", Len(traversed) + 1))
  /\ UNCHANGED <<longLiving, linked, bpi, suspended, raised, surfaced>>

\* Mutant of Signal: the rejected promise is always taken for a signal.
SignalByPromiseOnly(below) ==
  /\ deferred' = IF deferred = "pending" THEN "rejected" ELSE deferred
  /\ stack' = below
  /\ raised' = FALSE
  /\ UNCHANGED surfaced

\* The catch of send_implementation: reject the promise; nobody listens to the
\* promise of a long-living request, so tell the core, and failing that rethrow.
Signal(below) ==
  /\ deferred' = IF deferred = "pending" THEN "rejected" ELSE deferred
  /\ stack' = below
  /\ raised' = (longLiving /\ ~linked)
  /\ surfaced' = IF longLiving /\ linked THEN surfaced \cup {"core"} ELSE surfaced

\* Mutants of BackIndex: a finished back processing starts again; the initial index
\* is that of the last entry instead of the length.
BackIndexRestarts == IF bpi <= 0 THEN Len(backs) ELSE bpi
BackIndexShort == IF bpi < 0 /\ backs # <<>> THEN Len(backs) - 1
                  ELSE IF bpi < 0 THEN 0 ELSE bpi

\* Where the back processing stands once send() has made sure it is initiated.
BackIndex == IF bpi < 0 THEN Len(backs) ELSE bpi

\* Mutants of SendBack: the depth is not restored; the promise is resolved on
\* entering the last back function instead of after it.
SendBackSameDepth(below) ==
  /\ BackIndex > 0
  /\ bpi' = BackIndex - 1
  /\ stack' = Append(below, Frame("back", BackIndex - 1))
  /\ raised' = FALSE
  /\ UNCHANGED <<pci, deferred, surfaced>>

SendBackEarly(below) ==
  /\ BackIndex > 0
  /\ bpi' = BackIndex - 1
  /\ pci' = backs[BackIndex].depth
  /\ stack' = Append(below, Frame("back", BackIndex - 1))
  /\ deferred' = IF BackIndex = 1 /\ ~longLiving THEN "resolved" ELSE deferred
  /\ raised' = FALSE
  /\ UNCHANGED surfaced

\* send() with back functions left: enter the last registered one.
SendBack(below) ==
  /\ BackIndex > 0
  /\ bpi' = BackIndex - 1
  /\ pci' = backs[BackIndex].depth
  /\ stack' = Append(below, Frame("back", BackIndex - 1))
  /\ raised' = FALSE
  /\ UNCHANGED <<deferred, surfaced>>

\* Mutant of SendFinal: the depth is counted down instead of reset.
SendFinalCountsDown(below) ==
  /\ BackIndex = 0
  /\ bpi' = 0
  /\ pci' = pci - 1
  /\ IF longLiving
       THEN Signal(below)
       ELSE /\ deferred' = IF deferred = "pending" THEN "resolved" ELSE deferred
            /\ stack' = below
            /\ raised' = FALSE
            /\ UNCHANGED surfaced

\* send() with none left: deliver, or fail to for a long-living request.
SendFinal(below) ==
  /\ BackIndex = 0
  /\ bpi' = 0
  /\ pci' = 0
  /\ IF longLiving
       THEN Signal(below)
       ELSE /\ deferred' = IF deferred = "pending" THEN "resolved" ELSE deferred
            /\ stack' = below
            /\ raised' = FALSE
            /\ UNCHANGED surfaced

SendImplementation(below) ==
  /\ SendBack(below) \/ SendFinal(below)
  /\ UNCHANGED <<request, traversed, suspended>>

\* What next() is called with: no back function, one, or something else.
Extras == {"none", "function", "other"}

\* next() refuses: no middleware left, the response is already on its way, or what it got is
\* not a function.
NextRefused(m, extra) == m = N \/ bpi >= 0 \/ extra = "other"

--------------------------------------------------------------------------------
(***************************************************************************)
(* The steps.                                                              *)
(***************************************************************************)

InitiateProcessing ==
  /\ deferred = "none"
  /\ deferred' = "pending"
  /\ ProcessRequest(1, backs, <<>>)
  /\ UNCHANGED <<response, repeats>>

Running == stack # <<>> /\ ~raised
CanCall == Running /\ Top.calls < MaxCalls

\* The running function is answered for: a repeat, unless it has done nothing yet.
AnswerForTop == repeats' = IF Top.calls = 0 THEN repeats ELSE repeats + 1

\* The running function calls next(), with an extra back function or without.
CallNext(extra) ==
  /\ CanCall
  /\ ~NextRefused(Mw(Top), extra)
  /\ ProcessRequest(Mw(Top) + 1,
                    IF extra = "function" THEN Append(backs, Registered(Mw(Top), pci)) ELSE backs,
                    Called)
  /\ AnswerForTop
  /\ UNCHANGED <<deferred, response>>

\* Mutant of CallNextInVain: the error is written to the response, which is not sent.
CallNextUnanswered(extra) ==
  /\ CanCall
  /\ NextRefused(Mw(Top), extra)
  /\ response' = "internal_error"
  /\ stack' = Called
  /\ AnswerForTop
  /\ UNCHANGED <<request, mwdata, suspended, raised, surfaced>>

\* next() throws, catches what it threw and answers in the function's place.
CallNextInVain(extra) ==
  /\ CanCall
  /\ NextRefused(Mw(Top), extra)
  /\ response' = "internal_error"
  /\ AnswerForTop
  /\ SendImplementation(Called)

\* The running function calls response.send(), having filled the response or not.
CallSend(fill) ==
  /\ CanCall
  /\ response' = IF fill THEN "handled" ELSE response
  /\ AnswerForTop
  /\ SendImplementation(Called)

\* The running function returns without having answered: a callback will.
Suspend ==
  /\ CanCall
  /\ ~Top.resumed
  /\ suspended' = suspended \cup {Top}
  /\ stack' = Below
  /\ UNCHANGED <<request, mwdata, response, raised, surfaced, repeats>>

\* The event loop fires the callback of a suspended function.
Resume(f) ==
  /\ stack = <<>>
  /\ ~raised
  /\ f \in suspended
  /\ suspended' = suspended \ {f}
  /\ stack' = <<[f EXCEPT !.resumed = TRUE]>>
  /\ UNCHANGED <<request, mwdata, response, raised, surfaced, repeats>>

\* The running function, having called next() or send(), returns to its caller.
Return ==
  /\ Running
  /\ Top.calls > 0
  /\ stack' = Below
  /\ UNCHANGED <<request, mwdata, response, suspended, raised, surfaced, repeats>>

\* The running function throws, whatever it has called before; a callback, which nobody
\* of the engine is there to catch for, only once it has answered.
Throw ==
  /\ Running
  /\ Top.resumed => Top.calls > 0
  /\ raised' = TRUE
  /\ UNCHANGED <<request, mwdata, response, stack, suspended, surfaced, repeats>>

\* Mutant of CatchInProcessing: the error is written to the response, which is not
\* sent.
CatchUnanswered ==
  /\ raised /\ stack # <<>>
  /\ Top.kind = "proc" /\ ~Top.resumed
  /\ response' = "internal_error"
  /\ stack' = Below
  /\ raised' = FALSE
  /\ AnswerForTop
  /\ UNCHANGED <<request, mwdata, suspended, surfaced>>

\* process_request_ catches: the response becomes an error and is sent.
CatchInProcessing ==
  /\ raised /\ stack # <<>>
  /\ Top.kind = "proc" /\ ~Top.resumed
  /\ response' = "internal_error"
  /\ AnswerForTop
  /\ SendImplementation(Below)

\* send_implementation catches what the back function it had called throws.
CatchInSend ==
  /\ raised /\ stack # <<>>
  /\ Top.kind = "back" /\ ~Top.resumed
  /\ AnswerForTop
  /\ Signal(Below)
  /\ UNCHANGED <<request, pci, bpi, traversed, response, suspended>>

\* Nobody catches: the exception leaves initiate_processing(), or the callback.
Escape ==
  /\ raised
  /\ stack # <<>> => Top.resumed
  /\ raised' = FALSE
  /\ stack' = <<>>
  /\ surfaced' = surfaced \cup {"caller"}
  /\ UNCHANGED <<request, mwdata, response, suspended, repeats>>

\* The session is closed, or the server stopped, under the request.
Unlink ==
  /\ linked /\ ~raised
  /\ linked' = FALSE
  /\ UNCHANGED <<longLiving, backs, mwdata, response, activity, surfaced, repeats>>

\* One step of the turn the event loop is in.
Turn ==
  \/ \E extra \in Extras : CallNext(extra) \/ CallNextInVain(extra)
  \/ \E fill \in BOOLEAN : CallSend(fill)
  \/ Suspend
  \/ Return
  \/ Throw
  \/ CatchInProcessing
  \/ CatchInSend
  \/ Escape

Callback == \E f \in suspended : Resume(f)

Next == InitiateProcessing \/ Turn \/ Callback \/ Unlink

SafeSpec == Init /\ [][Next]_vars

\* A turn runs to its end, and whoever promised to answer later does.
Spec == SafeSpec /\ WF_vars(Turn) /\ WF_vars(Callback)

--------------------------------------------------------------------------------
(***************************************************************************)
(* What the engine promises.                                               *)
(***************************************************************************)

Settled == deferred \in {"resolved", "rejected"}

\* The functions that have the duty to answer: nothing called yet.
Owing == {f \in ToSet(stack) \cup suspended : f.calls = 0}

\* The promise of the request never hangs for want of somebody to settle it:
\* as long as it is pending, a user function still has to call next() or send(),
\* or an exception is on its way to a catch that answers (base.js:110-113,
\* 172-189, 245-248).  Whatever the user functions do.
NoLostRequest == deferred = "pending" => raised \/ Owing # {}

\* The duty to answer is handed on and never multiplied: whoever settles the promise, or owes
\* an answer, beyond the one that the request asks for is there because some function
\* answered once more, or threw after it had answered (base.js:101-117, 159-170, 245-248).
DutyIsConserved ==
  Cardinality(Owing) + (IF Settled THEN 1 ELSE 0) <= 1 + repeats

\* Until a function answers once more, processing_chain_index tells the depth of the
\* middleware at work, on the way in and on the way back, and is 0 in a delivered
\* response (response_enrichments.js:30-34).
DepthTracksDuty ==
  repeats = 0 => /\ \A f \in Owing : pci = Mw(f)
                 /\ deferred = "resolved" => pci = 0

\* An error of a long-living request has no client to go to; once nothing is left
\* to do for the request, the core or the engine's caller has been told
\* (base.js:188-212).
ErrorNeverSwallowed ==
  longLiving /\ Settled /\ ~raised /\ Owing = {} => surfaced # {}

\* From the first send() on the response only moves towards the client: no middleware is
\* entered any more, and no back function is run twice or out of order, however often
\* next() and send() are called, and by whom.
OutwardOnly == [][bpi' >= 0 => /\ bpi >= 0 => bpi' <= bpi
                              /\ pci' <= pci]_vars

\* The client and the engine share the response: when it is touched after it was delivered,
\* it is because of a function that answered once more, or threw when it had answered, such
\* as a processing function that throws after send() (base.js:101-114, 245-248).
ResponseStable == [][deferred = "resolved" /\ response' # response => repeats' > 0]_vars

\* The client's promise is settled, provided that every user function answers.
Settles == deferred = "pending" ~> Settled

\* The engine implements the protocol of OnionReply.
Onion == INSTANCE OnionReply WITH
           phase <- IF deferred = "none" THEN "idle"
                    ELSE IF bpi < 0 THEN "forward" ELSE "back",
           todo <- IF bpi < 0 THEN backs ELSE SubSeq(backs, 1, bpi),
           outcome <- deferred

\* Back functions are discharged last in first out, each once, all of them before
\* the response is delivered, and the promise is settled exactly once.
ImplementsOnionReply == Onion!Spec
================================================================================
