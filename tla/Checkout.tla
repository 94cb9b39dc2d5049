------------------------------ MODULE Checkout ------------------------------
(***************************************************************************)
(* order-svc and payment-svc together: the path of a grouped order from    *)
(* the basket to the wallets of its vendors.                               *)
(*                                                                         *)
(* The services meet in four places: order.created on Kafka (the variable  *)
(* events they share), POST /orders/parent/{id}/confirm from payment-svc,  *)
(* POST /payments/order/{id}/reverify from order-svc's reaper, and         *)
(* order.status_changed, which this module leaves to fulfillment-svc.      *)
(***************************************************************************)
EXTENDS Orders, Payments

checkoutVars == <<ordersOnly, paymentsOnly, topicVars>>

CheckoutInit == OrdersInit /\ PaymentsInit

\* order-svc confirms what is still pending in the group, and payment-svc
\* credits the vendors of the sub-orders that the answer names ...
ConfirmAnswered(w) ==
    LET g == pw[w].group IN
    /\ confirmParentPayment(g)
    /\ CallConfirm(w, AwaitingPayment(SubsOf(g)))

\* ... none of them, if the answer is lost on its way back.
ConfirmLost(w) ==
    /\ confirmParentPayment(pw[w].group)
    /\ CallConfirm(w, {})

\* order-svc cannot be reached, or answers 409 as no sub-order is pending.
ConfirmFailed(w) ==
    /\ CallConfirm(w, {})
    /\ UNCHANGED <<ordersOnly, topicVars>>

\* reverifyBeforeExpire of a candidate; FALSE also when payment-svc is down.
\* The ids are those of sub-orders, the rows of payments have those of groups.
AskPayments(s, up) ==
    /\ ReaperCheck(s, up /\ ReverifyKeeps(s))
    /\ UNCHANGED <<paymentsOnly, topicVars>>

CheckoutNext ==
    \/ OrdersInternal /\ UNCHANGED paymentsOnly
    \/ PaymentsInternal /\ UNCHANGED ordersOnly
    \/ \E w \in Workers : At(w, "notify") /\ ConfirmAnswered(w)
    \/ \E w \in Workers : At(w, "notify") /\ ConfirmLost(w)
    \/ \E w \in Workers : ConfirmFailed(w)
    \/ \E s \in Subs, up \in BOOLEAN : AskPayments(s, up)

CheckoutSpec == CheckoutInit /\ [][CheckoutNext]_checkoutVars

-----------------------------------------------------------------------------
(* Fairness *)

\* A handler that has started and is not killed goes on: Go schedules it, and
\* every remote call ends, in an answer, an error or a timeout.
WorkerStep(w) ==
    \/ Mark(w)
    \/ Lock(w) \/ LockDenied(w)
    \/ CallFail(w)
    \/ \E x \in Sessions : CallOk(w, x)
    \/ \E hasLink \in BOOLEAN : Save(w, hasLink)
    \/ Fail(w)
    \/ ConfirmPayment(w) \/ markFailed(w)
    \/ \E s \in Subs : creditVendorWallet(w, s, TRUE)

NotifyStep(w) ==
    /\ At(w, "notify")
    /\ ConfirmAnswered(w) \/ ConfirmFailed(w)

\* The reaper's ticker never stops.  Passes may be abandoned, but not for ever:
\* from some time on payment-svc answers, or refuses, within the 30 s of a pass.
CheckoutFair ==
    /\ \A w \in Workers : WF_checkoutVars(WorkerStep(w) /\ UNCHANGED ordersOnly)
    /\ \A w \in Workers : WF_checkoutVars(NotifyStep(w))
    /\ WF_checkoutVars(\E s \in Subs, up \in BOOLEAN : AskPayments(s, up))
    /\ WF_checkoutVars((ReaperScan \/ ReaperExpire) /\ UNCHANGED paymentsOnly)
    /\ <>[][~ReaperAbort]_checkoutVars

FairCheckout == CheckoutSpec /\ CheckoutFair

-----------------------------------------------------------------------------
(* Properties *)

ChargedGroups ==
    {g \in Groups : \E x \in Sessions : sess[x].group = g /\ sess[x].state = "paid"}

Promise == INSTANCE Settlement WITH
    charged <- ChargedGroups, released <- confirms,
    reopened <- reopens, credited <- credits

\* The two services together keep the promise of Settlement: with webhooks
\* repeated and reordered, order.created redelivered, answers lost and requests
\* killed at any point, no order is released unpaid or twice, and no vendor is
\* credited for an order that was not released.
KeepsPromise == Promise!Spec

\* An order nobody has paid does not wait for ever: once it is older than the
\* timeout it leaves pending_payment, whatever payment-svc is doing.
LateOrdersLeave ==
    \A s \in Subs : (s \in aged /\ Status(s) = "pending_payment")
                        ~> Status(s) # "pending_payment"

\* reverifyBeforeExpire's comment: an order whose PawaPay payment is confirmed
\* or still in progress must above all not be expired by the reaper's pass.
SettledElsewhere(s) ==
    LET g == GroupOf[s] IN
    /\ pay[g].provider = "pawapay"
    /\ pay[g].ref # NoSession
    /\ sess[pay[g].ref].state = "paid"

PaidIsNotExpired ==
    [][\A s \in Subs : AskPayments(s, TRUE) /\ SettledElsewhere(s)
                          => s \notin reaper'.toExpire]_checkoutVars

\* README, section 11: when order-svc cannot be reached at the confirmation, the
\* change of status is tried again and nothing is silently lost.
ConfirmedReachesOrders ==
    \A g \in Groups : PayStatus(g) = "confirmed"
                          ~> \A s \in SubsOf(g) : confirms[s] > 0
=============================================================================
