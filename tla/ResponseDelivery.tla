-------------------------- MODULE ResponseDelivery --------------------------
(***************************************************************************)
(* What the output controller promises about the spoken responses of the   *)
(* agents, and no more: responses are numbered as they are submitted, each *)
(* is spoken at most once, and none is spoken after a later one.           *)
(*                                                                         *)
(* None is lost without a reason.  A barge-in may cost any of those that   *)
(* wait; a new response may cost one, when there are enough; and otherwise *)
(* only those are dropped that had been excused before: their synthesis    *)
(* gave nothing, they are from before a barge-in, or nobody listens.  Who  *)
(* is excused, and when, is not the controller's choice.                   *)
(***************************************************************************)
EXTENDS Integers, FiniteSets

CONSTANT Capacity     \* so many responses can wait without a loss

VARIABLES submitted,  \* number of responses submitted
          waiting,    \* the submitted responses that may still be spoken
          spoken,     \* the last response that was spoken
          excused,    \* those of the waiting that need not be spoken
          interrupts  \* number of barge-ins

dvars == <<submitted, waiting, spoken, excused, interrupts>>

Init ==
  submitted = 0 /\ waiting = {} /\ spoken = 0 /\ excused = {} /\ interrupts = 0

Submit ==
  \E lost \in SUBSET waiting :
    /\ \A r, other \in lost : r = other
    /\ lost # {} => Cardinality(waiting) >= Capacity
    /\ submitted' = submitted + 1
    /\ waiting' = (waiting \ lost) \cup {submitted + 1}
    /\ UNCHANGED <<spoken, interrupts>>

Speak ==
  \E r \in waiting :
    /\ \A other \in waiting : r <= other
    /\ spoken' = r
    /\ waiting' = waiting \ {r}
    /\ UNCHANGED <<submitted, interrupts>>

Drop ==
  /\ waiting' \subseteq waiting
  /\ waiting \ waiting' \subseteq excused
  /\ UNCHANGED <<submitted, spoken, interrupts>>

Interrupt ==
  /\ interrupts' = interrupts + 1
  /\ waiting' \subseteq waiting
  /\ UNCHANGED <<submitted, spoken>>

Next ==
  /\ Submit \/ Speak \/ Drop \/ Interrupt
  /\ excused' \in SUBSET waiting'

Spec == Init /\ [][Next]_dvars
=============================================================================
