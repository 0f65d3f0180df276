----------------------------- MODULE Operations -----------------------------
(***************************************************************************)
(* The operations desk: work orders with their timeline, spare parts and   *)
(* their consumption (operations.go, operations_b.go).  An update of a     *)
(* work order reads it, writes it and appends to its timeline in three     *)
(* statements without a transaction; taking a part from stock is one.      *)
(* Free text, notes, names and money are left out: a work order keeps its  *)
(* status, its priority and whether it was ever resolved.                  *)
(***************************************************************************)
EXTENDS Naturals, Sequences, FiniteSets, SequencesExt

CONSTANTS Orders, Parts, Clerks,
          MaxStock,      \* bound: units counted into stock at once
          MaxEvents      \* bound: events on one timeline

ASSUME OpsAssumption == IsFiniteSet(Orders) /\ MaxStock \in Nat

Statuses   == {"open", "in_progress", "solved", "closed"}
Priorities == {"medium", "critical"}

VARIABLES order,     \* table work_orders
          timeline,  \* table work_order_events: the status after each event
          stock,     \* table spare_parts
          taken,     \* table work_order_parts: units per order and part
          clerk,     \* the request of each clerk
          counted,   \* ghost: units that entered each part's stock, net of corrections
          gaps       \* ghost: orders whose event failed or whose updates overlapped

opsVars == <<order, timeline, stock, taken, clerk, counted, gaps>>

NoOrder == [exists |-> FALSE, status |-> "open", priority |-> "medium", resolved |-> FALSE]
NoPart  == [exists |-> FALSE, quantity |-> 0, minimum |-> 0]
Away    == [op |-> "away"]

\* terminalStatus.
Terminal == {"solved", "closed"}
\* resolved_at is set by the first terminal status and never again.
ResolvedAt(o, st) == o.resolved \/ st \in Terminal

(* ---- statements ------------------------------------------------------- *)
CreateWorkOrder(w, pr) == [order EXCEPT ![w] = [NoOrder EXCEPT !.exists = TRUE, !.priority = pr]]
GetWorkOrder(w) == order[w]
\* Every column is written, the unnamed ones as the handler read them.
UpdateWorkOrder(w, st, pr) ==
  [order EXCEPT ![w].status = st, ![w].priority = pr, ![w].resolved = ResolvedAt(order[w], st)]
AddWorkOrderEvent(w, st) == [timeline EXCEPT ![w] = Append(@, st)]
CreateSparePart(p, q, low) ==
  [stock EXCEPT ![p] = [exists |-> TRUE, quantity |-> q, minimum |-> low]]
UpdateSparePart(p, low) == [stock EXCEPT ![p].minimum = low]
AdjustSparePartStock(p, q) == [stock EXCEPT ![p].quantity = q]
DeleteSparePart(p) == [stock EXCEPT ![p] = NoPart]
\* Mutant: any stock at all is enough.
ConsumePartToWorkOrder_Unchecked(p, n) ==
  /\ stock[p].exists /\ stock[p].quantity > 0
  /\ stock' = [stock EXCEPT ![p].quantity = IF @ > n THEN @ - n ELSE 0]

\* The units are taken only if there are enough: one UPDATE with the test in
\* its WHERE, which the INSERT of the consumption selects from.
ConsumePartToWorkOrder(p, n) ==
  /\ stock[p].exists /\ stock[p].quantity >= n
  /\ stock' = [stock EXCEPT ![p].quantity = @ - n]

-----------------------------------------------------------------------------
(* Work orders.                                                            *)

\* createWorkOrder; the "created" event is best effort.
createWorkOrder(w, pr) ==
  /\ ~order[w].exists
  /\ order' = CreateWorkOrder(w, pr)
  /\ \/ timeline' = AddWorkOrderEvent(w, "open") /\ UNCHANGED gaps
     \/ gaps' = gaps \cup {w} /\ UNCHANGED timeline
  /\ UNCHANGED <<stock, taken, clerk, counted>>

\* updateWorkOrder reads the order; an empty status or priority keeps it.
updateWorkOrder(c, w, st, pr) ==
  /\ clerk[c] = Away /\ order[w].exists /\ Len(timeline[w]) < MaxEvents
  /\ clerk' = [clerk EXCEPT ![c] =
                 LET prev == GetWorkOrder(w) IN
                 [op |-> "write", order |-> w, prev |-> prev.status,
                  status |-> IF st = "" THEN prev.status ELSE st,
                  priority |-> IF pr = "" THEN prev.priority ELSE pr]]
  /\ UNCHANGED <<order, timeline, stock, taken, counted, gaps>>

\* Its UPDATE.  What another clerk wrote since the read is overwritten, and
\* the timeline of the two can no longer be put in order.
WriteOrder(c) ==
  /\ clerk[c].op = "write"
  /\ LET k == clerk[c] IN
     /\ order' = UpdateWorkOrder(k.order, k.status, k.priority)
     /\ gaps' = IF \E d \in Clerks \ {c} : clerk[d] # Away /\ clerk[d].order = k.order
                THEN gaps \cup {k.order} ELSE gaps
  /\ clerk' = [clerk EXCEPT ![c].op = "event"]
  /\ UNCHANGED <<timeline, stock, taken, counted>>

\* Mutant: the event is recorded for a request that names the old status too.
RecordEvent_OldStatus(c) ==
  /\ clerk[c].op = "event"
  /\ LET k == clerk[c] IN
     IF k.status = k.prev THEN UNCHANGED <<timeline, gaps>>
     ELSE \/ timeline' = AddWorkOrderEvent(k.order, k.prev) /\ UNCHANGED gaps
          \/ gaps' = gaps \cup {k.order} /\ UNCHANGED timeline
  /\ clerk' = [clerk EXCEPT ![c] = Away]
  /\ UNCHANGED <<order, stock, taken, counted>>

\* The event of a status change; its error is ignored.
RecordEvent(c) ==
  /\ clerk[c].op = "event"
  /\ LET k == clerk[c] IN
     IF k.status = k.prev THEN UNCHANGED <<timeline, gaps>>
     ELSE \/ timeline' = AddWorkOrderEvent(k.order, k.status) /\ UNCHANGED gaps
          \/ gaps' = gaps \cup {k.order} /\ UNCHANGED timeline
  /\ clerk' = [clerk EXCEPT ![c] = Away]
  /\ UNCHANGED <<order, stock, taken, counted>>
-----------------------------------------------------------------------------
(* Spare parts.                                                            *)

createSparePart(p, q, low) ==
  /\ ~stock[p].exists
  /\ stock' = CreateSparePart(p, q, low)
  /\ counted' = [counted EXCEPT ![p] = q]
  /\ UNCHANGED <<order, timeline, taken, clerk, gaps>>

\* updateSparePart leaves the quantity to adjustSparePartStock.
updateSparePart(p, low) ==
  /\ stock[p].exists /\ stock' = UpdateSparePart(p, low)
  /\ UNCHANGED <<order, timeline, taken, clerk, counted, gaps>>

\* adjustSparePartStock sets the absolute quantity.
adjustSparePartStock(p, q) ==
  /\ stock[p].exists
  /\ stock' = AdjustSparePartStock(p, q)
  /\ counted' = [counted EXCEPT ![p] = @ + q - stock[p].quantity]
  /\ UNCHANGED <<order, timeline, taken, clerk, gaps>>

\* Parts taken stay on their work orders, without the link.
deleteSparePart(p) ==
  /\ stock[p].exists
  /\ stock' = DeleteSparePart(p)
  /\ counted' = [counted EXCEPT ![p] = 0]
  /\ taken' = [w \in Orders |-> [taken[w] EXCEPT ![p] = 0]]
  /\ UNCHANGED <<order, timeline, clerk, gaps>>

\* A stocked part (a free-text one touches no stock): one statement takes the
\* units and records them, or does neither when there are too few.
addWorkOrderPart(w, p, n) ==
  /\ order[w].exists /\ ConsumePartToWorkOrder(p, n)
  /\ taken' = [taken EXCEPT ![w][p] = @ + n]
  /\ UNCHANGED <<order, timeline, clerk, counted, gaps>>
-----------------------------------------------------------------------------
OpsInit ==
  /\ order = [w \in Orders |-> NoOrder] /\ timeline = [w \in Orders |-> << >>]
  /\ stock = [p \in Parts |-> NoPart] /\ taken = [w \in Orders |-> [p \in Parts |-> 0]]
  /\ clerk = [c \in Clerks |-> Away]
  /\ counted = [p \in Parts |-> 0] /\ gaps = {}

OpsNext ==
  \/ \E w \in Orders, pr \in Priorities : createWorkOrder(w, pr)
  \/ \E c \in Clerks :
        \/ \E w \in Orders, st \in Statuses \cup {""}, pr \in Priorities \cup {""} :
              updateWorkOrder(c, w, st, pr)
        \/ WriteOrder(c) \/ RecordEvent(c)
  \/ \E p \in Parts :
        \/ \E q \in 0 .. MaxStock, low \in {0, 1} : createSparePart(p, q, low)
        \/ \E low \in {0, 1} : updateSparePart(p, low)
        \/ \E q \in 0 .. MaxStock : adjustSparePartStock(p, q)
        \/ deleteSparePart(p)
        \/ \E w \in Orders, n \in 1 .. MaxStock :
              counted[p] < 2 * MaxStock /\ addWorkOrderPart(w, p, n)

OpsSpec == OpsInit /\ [][OpsNext]_opsVars
-----------------------------------------------------------------------------
\* "every status change / note becomes an event" (000010_operations.up.sql):
\* the last status event of a work order's timeline is the status it has,
\* except while its update is between its statements, or when the event could
\* not be written or two updates of the order overlapped (updateWorkOrder).
TimelineTellsStatus ==
  \A w \in Orders :
    order[w].exists =>
      \/ w \in gaps
      \/ \E c \in Clerks : clerk[c].op = "event" /\ clerk[c].order = w
      \/ timeline[w] # << >> /\ Last(timeline[w]) = order[w].status

\* Units of part p on all work orders.
UnitsTaken(t, p) == FoldFunction(LAMBDA u, sum : u[p] + sum, 0, t)

\* No unit is spent twice: what the work orders took of a part and what is
\* left of it are together what was counted in, however consumption,
\* corrections and deletions of the part interleave.
StockConserved ==
  \A p \in Parts : stock[p].quantity + UnitsTaken(taken, p) = counted[p]
=============================================================================
