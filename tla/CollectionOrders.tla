-------------------------- MODULE CollectionOrders --------------------------
(***************************************************************************)
(* What the relay queue promises whoever orders a collection, with no word *)
(* on polls, handlers, copies of rows, back-offs or restarts.  An order is *)
(* placed once and handed out a bounded number of times.  It is answered   *)
(* only after it was handed out, and the answer is final.  An order that   *)
(* was given up for want of an answer is never handed out again, though a  *)
(* late answer still counts.  A withdrawn order is gone.                   *)
(***************************************************************************)
EXTENDS Naturals

CONSTANTS Orders,  \* the orders there may be
          Limit    \* how often one may be handed out

VARIABLES stage,   \* per order: "none", "open", "unanswered", "done", "failed" or "gone"
          handed   \* per order, how often it was handed out

OrdersInit == stage = [o \in Orders |-> "none"] /\ handed = [o \in Orders |-> 0]

Place(o) ==
  /\ stage[o] = "none"
  /\ stage' = [stage EXCEPT ![o] = "open"]
  /\ UNCHANGED handed

HandOut(o) ==
  /\ stage[o] = "open" /\ handed[o] < Limit
  /\ handed' = [handed EXCEPT ![o] = @ + 1]
  /\ UNCHANGED stage

GiveUp(o) ==
  /\ stage[o] = "open" /\ handed[o] > 0
  /\ stage' = [stage EXCEPT ![o] = "unanswered"]
  /\ UNCHANGED handed

Answer(o, verdict) ==
  /\ stage[o] \in {"open", "unanswered"} /\ handed[o] > 0
  /\ stage' = [stage EXCEPT ![o] = verdict]
  /\ UNCHANGED handed

Withdraw(gone) ==
  /\ \A o \in gone : stage[o] # "none"
  /\ stage' = [o \in Orders |-> IF o \in gone THEN "gone" ELSE stage[o]]
  /\ UNCHANGED handed

\* Several orders are withdrawn at once when the agent they wait for is deleted.
OrdersNext ==
  \/ \E gone \in SUBSET Orders : Withdraw(gone)
  \/ \E o \in Orders : \/ Place(o) \/ HandOut(o) \/ GiveUp(o)
                       \/ \E verdict \in {"done", "failed"} : Answer(o, verdict)

OrdersSpec == OrdersInit /\ [][OrdersNext]_<<stage, handed>>
=============================================================================
