------------------------------ MODULE OnionReply ------------------------------
(***************************************************************************)
(* What the middleware engine of server/middleware/base.js promises about  *)
(* one request: on the way in the middlewares hang up obligations (back    *)
(* functions); once an answer is given nothing more is hung up, the        *)
(* obligations are discharged last in first out, each one once, and only   *)
(* when none is left is the answer delivered.  The one exception is a      *)
(* failure on the way out, which settles the exchange as rejected and may  *)
(* leave obligations undischarged.  An exchange is settled once.           *)
(*                                                                         *)
(* No stack, no suspended callbacks, no user code: MiddlewareChain is      *)
(* shown to implement this.                                                *)
(***************************************************************************)
EXTENDS Sequences, SequencesExt

VARIABLES phase,    \* "idle", then "forward", then "back"
          todo,     \* obligations still to discharge, the next one last
          outcome   \* what the client's promise holds

vars == <<phase, todo, outcome>>

Init == phase = "idle" /\ todo = <<>> /\ outcome = "none"

\* The exchange starts; the first middleware may hang up an obligation.
Begin == /\ phase = "idle"
         /\ phase' = "forward"
         /\ outcome' = "pending"
         /\ IsPrefix(todo, todo')

\* One middleware further in: obligations are only ever added, at the end.
Inward == /\ phase = "forward"
          /\ IsPrefix(todo, todo')
          /\ UNCHANGED <<phase, outcome>>

\* The answer moves one obligation outwards.
Outward == /\ phase \in {"forward", "back"}
           /\ todo # <<>>
           /\ phase' = "back"
           /\ todo' = Front(todo)
           /\ UNCHANGED outcome

\* Nothing left to discharge: the exchange is settled, unless it was already.
Deliver == /\ phase \in {"forward", "back"}
           /\ todo = <<>>
           /\ phase' = "back"
           /\ outcome' \in IF outcome = "pending" THEN {"resolved", "rejected"}
                           ELSE {outcome}
           /\ UNCHANGED todo

\* Discharging an obligation failed: the client learns about it at once.
Fail == /\ phase = "back"
        /\ outcome = "pending"
        /\ outcome' = "rejected"
        /\ UNCHANGED <<phase, todo>>

Progress == outcome = "pending" /\ (Outward \/ Deliver \/ Fail)

Next == Begin \/ Inward \/ Outward \/ Deliver \/ Fail

\* The safety half: this is what the proofs relate MiddlewareChain to.
SafeSpec == Init /\ [][Next]_vars

Spec == SafeSpec /\ WF_vars(Progress)
==============================================================================
