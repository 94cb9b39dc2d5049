------------------------------- MODULE Orders -------------------------------
(***************************************************************************)
(* order-svc: the life of the sub-orders of a grouped order.               *)
(*                                                                         *)
(* Every operation is an HTTP handler or a background loop, and each SQL   *)
(* statement is one atomic step: a handler that reads a row, calls another *)
(* service and then writes is several steps, between which the handlers of *)
(* other requests and the reaper run.                                      *)
(***************************************************************************)
EXTENDS Market, FiniteSetsExt

CONSTANTS
    Clerks,         \* concurrent requests of the back office (cancellations)
    Products,
    NoProduct,      \* the absence of a product
    LinesOf,        \* products on the lines of each sub-order, one unit each
    Shelf,          \* stock of a product when its orders are placed
    StaffStatuses,  \* statuses the callers of updateOrderStatus send
    MaxStaff        \* bound: manual status changes and cancellations

OrderStatuses == {"pending_payment", "paid", "processing", "shipped",
                  "delivered", "cancelled", "refunded", "payment_expired"}

ASSUME OrdersAssumption ==
    /\ LinesOf \in [Subs -> SUBSET Products]
    /\ Shelf \in Nat
    /\ StaffStatuses \subseteq OrderStatuses
    /\ MaxStaff \in Nat
    /\ NoProduct \notin Products

Stages(payment, stage) == [payment |-> payment, stage |-> stage]

\* Mutant: a stage nobody knows.
statusToStagesTypo(status) == Stages("paid", "delivery")

\* From a status to (payment_status, fulfillment_stage).

statusToStages(status) ==
    CASE status = "payment_expired" -> Stages("expired", "pending")
      [] status = "paid"            -> Stages("paid", "pending")
      [] status = "processing"      -> Stages("paid", "preparing")
      [] status = "shipped"         -> Stages("paid", "in_transit")
      [] status = "delivered"       -> Stages("paid", "delivered")
      [] status = "cancelled"       -> Stages("pending", "cancelled")
      [] status = "refunded"        -> Stages("refunded", "cancelled")
      [] OTHER                      -> Stages("pending", "pending")

\* The three columns every writer of `orders` sets together.
Row(status, payment, stage) ==
    [status |-> status, payment |-> payment, stage |-> stage]

RowFor(status) ==
    Row(status, statusToStages(status).payment, statusToStages(status).stage)

\* What the SQL of the other writers sets the three columns to.
PendingRow == Row("pending_payment", "pending", "pending")
PaidRow == Row("paid", "paid", "pending")
CancelledRow == Row("cancelled", "pending", "cancelled")

\* Mutant: the reaper forgets payment_status.
ExpiredRowStale == Row("payment_expired", "pending", "pending")
ExpiredRow == Row("payment_expired", "expired", "pending")

NoRow == Row("absent", "pending", "pending")

VARIABLES
    order,       \* the rows of the table orders, per sub-order
    unpublished, \* sub-orders committed, order.created not yet sent
    aged,        \* sub-orders older than PAYMENT_TIMEOUT_MINUTES
    reaper,      \* locals of expireUnpaidLoop
    clerk,       \* locals of the cancelOrder requests in flight
    stock,       \* products.stock in catalog-svc
    confirms,    \* history: pending_payment -> paid by a confirmation
    reopens,     \* history: manual returns to pending_payment
    cancels,     \* history: cancellations written by cancelOrder
    staff        \* manual operations so far

clerkVars == <<clerk, stock, cancels>>
backOffice == <<clerkVars, staff>>
ordersOnly == <<order, unpublished, aged, reaper, confirms, reopens, backOffice>>
ordersVars == <<ordersOnly, topicVars>>

IdleReaper == [pc |-> "idle", candidates |-> {}, toExpire |-> {}]
IdleClerk == [pc |-> "idle", sub |-> NoSub, todo |-> {},
              line |-> NoProduct, seen |-> 0]

OrderRow == [status : OrderStatuses \cup {"absent"},
             payment : {"pending", "paid", "expired", "refunded"},
             stage : {"pending", "preparing", "in_transit", "delivered",
                      "cancelled"}]

OrdersTypeOK ==
    /\ TopicsTypeOK
    /\ order \in [Subs -> OrderRow]
    /\ unpublished \subseteq Subs
    /\ aged \subseteq Subs
    /\ reaper \in [pc : {"idle", "check"},
                   candidates : SUBSET Subs, toExpire : SUBSET Subs]
    /\ clerk \in [Clerks -> [pc : {"idle", "write", "get", "patch"},
                             sub : Subs \cup {NoSub},
                             todo : SUBSET Products,
                             line : Products \cup {NoProduct}, seen : Nat]]
    /\ stock \in [Products -> Nat]
    /\ confirms \in [Subs -> Nat]
    /\ reopens \in [Subs -> Nat]
    /\ cancels \in [Subs -> Nat]
    /\ staff \in 0 .. MaxStaff

OrdersInit ==
    /\ TopicsInit
    /\ order = [s \in Subs |-> NoRow]
    /\ unpublished = {}
    /\ aged = {}
    /\ reaper = IdleReaper
    /\ clerk = [c \in Clerks |-> IdleClerk]
    /\ stock = [p \in Products |-> Shelf]
    /\ confirms = [s \in Subs |-> 0]
    /\ reopens = [s \in Subs |-> 0]
    /\ cancels = [s \in Subs |-> 0]
    /\ staff = 0

Status(s) == order[s].status
Created(g) == \A s \in SubsOf(g) : Status(s) # "absent"

-----------------------------------------------------------------------------
\* createOrder: the parent and its sub-orders are inserted in one transaction,
\* and order.created is sent for each of them after the commit.
CreateOrder(g) ==
    /\ SubsOf(g) # {}
    /\ ~Created(g)
    /\ order' = [s \in Subs |-> IF s \in SubsOf(g)
                                THEN PendingRow
                                ELSE order[s]]
    /\ unpublished' = unpublished \cup SubsOf(g)
    /\ UNCHANGED <<aged, confirms, reopens, reaper, backOffice, topicVars>>

\* The loop over `created` at the end of createOrder; a broker error, or the
\* death of the process before the loop ends, loses the message.
PublishCreated(s) ==
    /\ s \in unpublished
    /\ unpublished' = unpublished \ {s}
    /\ events' = events \cup {s}
    /\ UNCHANGED <<order, aged, confirms, reopens, reaper, backOffice,
                   paidEvents, lost>>

LoseCreated(s) ==
    /\ s \in unpublished
    /\ CanDrop({s})
    /\ unpublished' = unpublished \ {s}
    /\ lost' = lost + 1
    /\ UNCHANGED <<order, aged, confirms, reopens, reaper, backOffice,
                   events, paidEvents>>

\* Time passes: created_at falls behind now() - PAYMENT_TIMEOUT_MINUTES.
Age(s) ==
    /\ Status(s) # "absent"
    /\ s \notin aged
    /\ aged' = aged \cup {s}
    /\ UNCHANGED <<order, unpublished, confirms, reopens, reaper, backOffice,
                   topicVars>>

-----------------------------------------------------------------------------
\* Mutant: an UPDATE without its WHERE status = 'pending_payment'.
AwaitingAny(ids) == {s \in ids : Status(s) # "absent"}

\* The sub-orders among ids that a guarded UPDATE reaches.
AwaitingPayment(ids) == {s \in ids : Status(s) = "pending_payment"}

\* UPDATE ... WHERE status = 'pending_payment' RETURNING id, then one
\* order.status_changed per returned id.
Confirm(ids) ==
    /\ ids # {}
    /\ order' = [s \in Subs |-> IF s \in ids THEN PaidRow ELSE order[s]]
    /\ confirms' = [s \in Subs |-> IF s \in ids THEN confirms[s] + 1
                                   ELSE confirms[s]]
    /\ \E drop \in SUBSET ids : PublishPaid(ids, drop)
    /\ UNCHANGED <<unpublished, aged, reopens, reaper, backOffice>>

confirmPayment(s) == Confirm(AwaitingPayment({s}))

confirmParentPayment(g) == Confirm(AwaitingPayment(SubsOf(g)))

\* updateOrderStatus writes any valid status over any other one.
updateOrderStatus(s, status) ==
    /\ staff < MaxStaff
    /\ Status(s) # "absent"
    /\ order' = [order EXCEPT ![s] = RowFor(status)]
    /\ reopens' = IF status = "pending_payment"
                  THEN [reopens EXCEPT ![s] = @ + 1] ELSE reopens
    /\ staff' = staff + 1
    /\ IF status = "paid"
       THEN \E drop \in SUBSET {s} : PublishPaid({s}, drop)
       ELSE UNCHANGED topicVars
    /\ UNCHANGED <<unpublished, aged, confirms, reaper, clerkVars>>

-----------------------------------------------------------------------------
\* cancelOrder reads the status, refuses a cancelled or delivered order ...
CancelRead(c, s) ==
    /\ clerk[c].pc = "idle"
    /\ staff < MaxStaff
    /\ Status(s) \notin {"absent", "cancelled", "delivered"}
    /\ clerk' = [clerk EXCEPT ![c] = [clerk[c] EXCEPT !.pc = "write", !.sub = s]]
    /\ staff' = staff + 1
    /\ UNCHANGED <<order, unpublished, aged, reaper, confirms, reopens, stock,
                   cancels, topicVars>>

\* ... and then cancels the row WHERE id = $1, whatever it has become.  The
\* order.status_changed it publishes has no consumer that changes state.
CancelWrite(c) ==
    LET s == clerk[c].sub IN
    /\ clerk[c].pc = "write"
    /\ order' = [order EXCEPT ![s] = CancelledRow]
    /\ cancels' = [cancels EXCEPT ![s] = @ + 1]
    /\ clerk' = [clerk EXCEPT ![c] = [clerk[c] EXCEPT !.pc = "get",
                                                     !.todo = LinesOf[s]]]
    /\ UNCHANGED <<unpublished, aged, reaper, confirms, reopens, stock,
                   staff, topicVars>>

\* restockProduct reads the stock of one line's product from catalog-svc ...
RestockGet(c, p) ==
    /\ clerk[c].pc = "get"
    /\ p \in clerk[c].todo
    /\ clerk' = [clerk EXCEPT ![c] = [clerk[c] EXCEPT !.pc = "patch", !.line = p,
                                                     !.seen = stock[p]]]
    /\ UNCHANGED <<order, unpublished, aged, reaper, confirms, reopens, stock,
                   cancels, staff, topicVars>>

\* Mutant: the loop does not get past a line.
SameLines(c, p) == clerk[c].todo

LinesAfter(c, p) == clerk[c].todo \ {p}

\* ... and writes back what it read plus the quantity of the line.
RestockPatch(c) ==
    LET p == clerk[c].line IN
    /\ clerk[c].pc = "patch"
    /\ stock' = [stock EXCEPT ![p] = clerk[c].seen + 1]
    /\ clerk' = [clerk EXCEPT ![c] = [clerk[c] EXCEPT !.pc = "get",
                                                     !.todo = LinesAfter(c, p)]]
    /\ UNCHANGED <<order, unpublished, aged, reaper, confirms, reopens, cancels,
                   staff, topicVars>>

\* A failed GET or PATCH is logged and the loop goes on to the next line.
RestockFail(c, p) ==
    /\ \/ clerk[c].pc = "get" /\ p \in clerk[c].todo
       \/ clerk[c].pc = "patch" /\ p = clerk[c].line
    /\ clerk' = [clerk EXCEPT ![c] = [clerk[c] EXCEPT !.pc = "get",
                                                     !.todo = LinesAfter(c, p)]]
    /\ UNCHANGED <<order, unpublished, aged, reaper, confirms, reopens, stock,
                   cancels, staff, topicVars>>

\* The request ends: the loop is over, or the process died in it.
CancelEnd(c) ==
    /\ clerk[c].pc # "idle"
    /\ clerk' = [clerk EXCEPT ![c] = IdleClerk]
    /\ UNCHANGED <<order, unpublished, aged, reaper, confirms, reopens, stock,
                   cancels, staff, topicVars>>

-----------------------------------------------------------------------------
\* expireUnpaidLoop is one goroutine.  A tick reads the candidates ...
ReaperScan ==
    LET late == {s \in aged : Status(s) = "pending_payment"} IN
    /\ reaper.pc = "idle"
    /\ late # {}
    /\ reaper' = [pc |-> "check", candidates |-> late, toExpire |-> {}]
    /\ UNCHANGED <<order, unpublished, aged, confirms, reopens, backOffice,
                   topicVars>>

\* ... asks payment-svc about each of them (reverifyBeforeExpire answers
\* whether to keep the order) ...
ReaperCheck(s, keep) ==
    /\ reaper.pc = "check"
    /\ s \in reaper.candidates
    /\ reaper' = [reaper EXCEPT
                     !.candidates = reaper.candidates \ {s},
                     !.toExpire = IF keep THEN reaper.toExpire
                                  ELSE reaper.toExpire \cup {s}]
    /\ UNCHANGED <<order, unpublished, aged, confirms, reopens, backOffice>>

\* ... and expires those that nothing has touched in the meantime.  The one
\* order.status_changed it sends names no order: no consumer reacts to it.
ReaperExpire ==
    /\ reaper.pc = "check"
    /\ reaper.candidates = {}
    /\ order' = [s \in Subs |-> IF s \in AwaitingPayment(reaper.toExpire)
                                THEN ExpiredRow ELSE order[s]]
    /\ reaper' = IdleReaper
    /\ UNCHANGED <<unpublished, aged, confirms, reopens, backOffice, topicVars>>

\* The 30 s context of the tick ends, the database refuses, or the process
\* dies: the pass is abandoned and the next tick starts afresh.  (A pass that
\* has nothing left to ask or to expire just ends, with ReaperExpire.)
ReaperAbort ==
    /\ reaper.pc = "check"
    /\ reaper.candidates # {} \/ AwaitingPayment(reaper.toExpire) # {}
    /\ reaper' = IdleReaper
    /\ UNCHANGED <<order, unpublished, aged, confirms, reopens, backOffice,
                   topicVars>>

-----------------------------------------------------------------------------
\* What order-svc does by itself or for its users, payment-svc aside.
OrdersInternal ==
    \/ \E g \in Groups : CreateOrder(g)
    \/ \E s \in Subs : PublishCreated(s)
    \/ \E s \in Subs : LoseCreated(s)
    \/ \E s \in Subs : Age(s)
    \/ \E s \in Subs, status \in StaffStatuses : updateOrderStatus(s, status)
    \/ \E c \in Clerks, s \in Subs : CancelRead(c, s)
    \/ \E c \in Clerks : CancelWrite(c)
    \/ \E c \in Clerks, p \in Products : RestockGet(c, p)
    \/ \E c \in Clerks : RestockPatch(c)
    \/ \E c \in Clerks, p \in Products : RestockFail(c, p)
    \/ \E c \in Clerks : CancelEnd(c)
    \/ ReaperScan
    \/ ReaperExpire
    \/ ReaperAbort

\* order-svc alone: payment-svc may confirm, and answer, anything at any time.
OrdersNext ==
    \/ OrdersInternal
    \/ \E s \in Subs : confirmPayment(s)
    \/ \E g \in Groups : confirmParentPayment(g)
    \/ \E s \in Subs, keep \in BOOLEAN : ReaperCheck(s, keep) /\ UNCHANGED topicVars

OrdersSpec == OrdersInit /\ [][OrdersNext]_ordersVars

-----------------------------------------------------------------------------
(* Properties *)

\* The two columns that replaced the old status agree with it in every row,
\* whichever of the five writers came last: the confirmations, the reaper and
\* cancelOrder each repeat by hand what statusToStages computes.
StagesInSync ==
    \A s \in Subs : Status(s) # "absent" => order[s] = RowFor(Status(s))

\* A confirmation takes an order out of pending_payment once; only a member of
\* the staff who puts the order back there makes room for another.  This is
\* what bounds the number of times the vendor of the order can be credited.
ConfirmedAtMostOnce ==
    \A s \in Subs : confirms[s] <= 1 + reopens[s]

\* Whatever was confirmed, shipped or cancelled while the reaper was asking
\* payment-svc about it is not expired by the pass that had picked it: the
\* reaper takes an order to payment_expired only out of pending_payment.
ReaperSparesSettled ==
    [][\A s \in Subs : /\ Status(s)' = "payment_expired"
                       /\ Status(s) # "payment_expired"
                       /\ staff' = staff
                       => Status(s) = "pending_payment" /\ s \in aged]_ordersVars

\* One unit for each line of product p that a cancellation has given up, and
\* the clerks who have one still to put back.
CancelledUnits(p) ==
    UNION {{s} \X (1 .. cancels[s]) : s \in {t \in Subs : p \in LinesOf[t]}}

Restocking(p) == {c \in Clerks : p \in clerk[c].todo}

\* The units still to be put back by the cancellations in flight and those put
\* back already never exceed one per product line and cancellation, also when
\* calls to catalog-svc fail half way or overwrite one another.
RestockedOncePerCancellation ==
    \A p \in Products :
        stock[p] + Cardinality(Restocking(p))
            <= Shelf + Cardinality(CancelledUnits(p))
=============================================================================
