------------------------------ MODULE Payflow ------------------------------
(***************************************************************************)
(* The payment of a basket as the customer's browser runs it: the checkout *)
(* page (CheckoutPage.tsx), the mobile money form it shows                 *)
(* (MobileMoneyDirectForm.tsx), the card form (StripePaymentForm.tsx), the *)
(* page a payment returns to (order-received/page.tsx) and the API routes  *)
(* they call (app/api/orders).                                             *)
(*                                                                         *)
(* Every "Confirmer et Payer" creates an order.  A mobile money form polls *)
(* the status of its order with an interval; an answer may come after the  *)
(* form, or the whole checkout page, has gone.  order-svc, payment-svc and *)
(* the customer's telephone are external: Orders and Payments model them.  *)
(***************************************************************************)
EXTENDS Integers, FiniteSets

CONSTANTS
    MaxOrders,      \* bound: orders created from the basket
    Enabled,        \* the aggregator GET /api/payment-gateways answers
    MaxTimers       \* bound: pending setTimeout(onOrderComplete)

Orders == 1 .. MaxOrders
NoOrder == 0
Aggregators == {"paydunya", "pawapay"}

ASSUME PayflowAssumption ==
    /\ MaxOrders \in Nat
    /\ MaxTimers \in Nat
    /\ Enabled \in Aggregators

VARIABLES
    \* order-svc and payment-svc
    status,         \* aggregated status of the group of sub-orders
    row,            \* provider and session of its payment
    due,            \* a request the customer can still accept
    confirmed,      \* the aggregator has the money
    paidInFull,     \* history: every sub-order was paid
    \* CheckoutPage and its place in the browser
    page,           \* its step, or where the customer is instead
    showForm,       \* showMobileMoneyForm
    sending,        \* provider of the POST /api/orders in flight
    created,        \* createdOrderId
    aggregator,     \* mobileMoneyProvider
    asking,         \* GET /api/payment-gateways in flight
    ours,           \* orders whose callbacks belong to this mount
    \* MobileMoneyDirectForm, one instance per order
    form,
    polls,          \* POST /api/orders/{id}/confirm-* in flight
    timers,         \* setTimeout(onOrderComplete, 5000) not fired yet
    emptied,        \* history: the cart was emptied
    \* order-received, and the aggregator's page before it
    at,             \* order of the page the browser is on
    outcome,        \* its state
    attempt,
    check           \* its fetch: none, asked, or the answer

backend == <<status, row, due, confirmed, paidInFull>>
checkout == <<page, showForm, sending, created, aggregator, asking, ours>>
mobile == <<form, polls, timers>>
returned == <<at, outcome, attempt, check>>
payVars == <<backend, checkout, mobile, emptied, returned>>

Nothing == "none"
CheckoutSteps == {"form", "payment", "confirm"}
Statuses == {Nothing, "pending_payment", "partially_paid", "payment_expired",
             "paid", "processing", "mixed"}
Verdicts == {"completed", "pending", "failed"}

Row == [provider : Aggregators \cup {"stripe"},
        session : {Nothing, "intent", "push", "page"}]

Form == [stage : {"idle", "switch", "reinit", "deposit", "confirming"},
         choice : Aggregators,      \* effectiveAggregator of the operator
         otp : BOOLEAN,             \* wizallTxId
         waiting : BOOLEAN,
         timer : BOOLEAN,           \* the interval of pollTimer
         stray : BOOLEAN]           \* one that pollTimer has forgotten
NoForm == [stage |-> "idle", choice |-> "paydunya", otp |-> FALSE,
           waiting |-> FALSE, timer |-> FALSE, stray |-> FALSE]

PayTypeOK ==
    /\ status \in [Orders -> Statuses]
    /\ row \in [Orders -> Row]
    /\ due \in [Orders -> BOOLEAN]
    /\ confirmed \in [Orders -> BOOLEAN]
    /\ paidInFull \in [Orders -> BOOLEAN]
    /\ page \in CheckoutSteps \cup {"shop", "hosted", "received"}
    /\ showForm \in BOOLEAN
    /\ sending \in Aggregators \cup {"stripe", Nothing}
    /\ created \in Orders \cup {NoOrder}
    /\ aggregator \in Aggregators
    /\ asking \in BOOLEAN
    /\ ours \subseteq Orders
    /\ form \in [Orders -> Form]
    /\ polls \subseteq [order : Orders, answer : Verdicts \cup {"asked"}]
    /\ timers \in 0 .. MaxTimers
    /\ emptied \in BOOLEAN
    /\ at \in Orders \cup {NoOrder}
    /\ outcome \in Verdicts \cup {Nothing, "loading", "timeout"}
    /\ attempt \in 0 .. 5
    /\ check \in Verdicts \cup {Nothing, "asked"}

PayInit ==
    /\ status = [o \in Orders |-> Nothing]
    /\ row = [o \in Orders |-> [provider |-> "paydunya", session |-> Nothing]]
    /\ due = [o \in Orders |-> FALSE]
    /\ confirmed = [o \in Orders |-> FALSE]
    /\ paidInFull = [o \in Orders |-> FALSE]
    /\ page = "form"
    /\ showForm = FALSE
    /\ sending = Nothing
    /\ created = NoOrder
    /\ aggregator = "paydunya"
    /\ asking = TRUE
    /\ ours = {}
    /\ form = [o \in Orders |-> NoForm]
    /\ polls = {}
    /\ timers = 0
    /\ emptied = FALSE
    /\ at = NoOrder
    /\ outcome = Nothing
    /\ attempt = 0
    /\ check = Nothing

-----------------------------------------------------------------------------
(* Helpers.                                                                *)

\* The form of o is on the screen: the confirmation hides it.
Mounted(o) == page = "form" /\ showForm /\ created = o

\* Unmounting clears the interval of pollTimer; a handler that awaits an
\* answer goes on, and so does an interval pollTimer has forgotten.
Unmounted(f, o) ==
    [x \in Orders |->
        IF x = o THEN [f[x] EXCEPT !.timer = FALSE, !.waiting = FALSE,
                                   !.otp = FALSE]
        ELSE f[x]]

\* The mounted form, if there is one.
Shown == IF page = "form" /\ showForm THEN created ELSE NoOrder

\* startPolling: pollTimer forgets the interval it held.
Polling(f) == [f EXCEPT !.stage = "idle", !.waiting = TRUE, !.timer = TRUE,
                        !.stray = @ \/ f.timer]

\* Mutant: a group of which one sub-order is paid counts as paid.
VerdictOfAny(s) ==
    CASE s \in {"paid", "processing", "partially_paid"} -> "completed"
      [] s = "pending_payment" -> "pending"
      [] OTHER -> "failed"

\* What confirm-stripe, confirm-pawapay and confirm-paydunya say of a status.
Verdict(s) ==
    CASE s \in {"paid", "processing"} -> "completed"
      [] s \in {"pending_payment", "partially_paid"} -> "pending"
      [] OTHER -> "failed"

\* window.location.href: the scripts of the old document are gone.
Navigate(where, o) ==
    /\ page' = where
    /\ at' = o
    /\ showForm' = FALSE /\ created' = NoOrder /\ ours' = {}
    /\ sending' = Nothing /\ asking' = FALSE
    /\ form' = [x \in Orders |-> NoForm]
    /\ polls' = {} /\ timers' = 0
    /\ UNCHANGED aggregator

\* POST /payments/init: the payment afterwards and whether it answers 200.
InitPayment(o, operatorKnown) ==
    LET r == row[o]
        open(s) == [ok |-> TRUE, row |-> [r EXCEPT !.session = s]]
        same == [ok |-> TRUE, row |-> r]
        error == [ok |-> FALSE, row |-> r]
    IN  CASE confirmed[o] \/ r.session = "page" -> {same}
          [] r.provider = "paydunya" -> {open("page"), error}
          [] r.provider = "pawapay" /\ operatorKnown ->
                {open("push"), open("page"), error}
          [] OTHER -> {same}

-----------------------------------------------------------------------------
(* The checkout page.                                                      *)

\* GET /api/payment-gateways answers; a failure keeps 'paydunya'.
GatewaysAnswer ==
    /\ asking
    /\ asking' = FALSE
    /\ aggregator' \in {"paydunya", Enabled}
    /\ UNCHANGED <<backend, page, showForm, sending, created, ours, mobile,
                   emptied, returned>>

\* "Confirmer et Payer", by card or with the aggregator known by now.
processFinalOrder ==
    /\ page = "form" /\ ~showForm /\ sending = Nothing
    /\ sending' \in {"stripe", aggregator}
    /\ UNCHANGED <<backend, page, showForm, created, aggregator, asking, ours,
                   mobile, emptied, returned>>

\* POST /api/orders creates the group; the payment may not be ready after
\* five attempts.
CreateOrder(o, method, ready) ==
    /\ status[o] = Nothing
    /\ \A x \in Orders : x < o => status[x] # Nothing
    /\ status' = [status EXCEPT ![o] = "pending_payment"]
    /\ row' = [row EXCEPT ![o] =
                  [provider |-> method,
                   session |-> CASE method = "stripe" /\ ready -> "intent"
                                 [] method = "paydunya" /\ ready -> "page"
                                 [] OTHER -> Nothing]]
    /\ UNCHANGED <<due, confirmed, paidInFull>>

\* The answer comes while the page is there: the card form, the mobile money
\* form, or an error when Stripe or PayDunya gave no session.
OrderAnswer(o, ready) ==
    /\ sending # Nothing
    /\ CreateOrder(o, sending, ready)
    /\ sending' = Nothing
    /\ IF page \in CheckoutSteps /\ (ready \/ sending = "pawapay")
       THEN /\ created' = o
            /\ ours' = ours \cup {o}
            /\ page' = IF sending = "stripe" THEN "payment" ELSE page
            /\ showForm' = (showForm \/ sending # "stripe")
       ELSE UNCHANGED <<created, ours, page, showForm>>
    /\ UNCHANGED <<aggregator, asking, mobile, emptied, returned>>

\* The answer is an error or is lost, with or without an order behind it.
OrderError ==
    /\ sending # Nothing
    /\ \/ UNCHANGED backend
       \/ \E o \in Orders, ready \in BOOLEAN : CreateOrder(o, sending, ready)
    /\ sending' = Nothing
    /\ UNCHANGED <<page, showForm, created, aggregator, asking, ours, mobile,
                   emptied, returned>>

\* The page unmounts: its back button, the browser's, or an expired session.
Leave ==
    /\ page \in CheckoutSteps
    /\ page' = "shop"
    /\ showForm' = FALSE /\ created' = NoOrder /\ ours' = {}
    /\ asking' = FALSE
    /\ form' = Unmounted(form, Shown)
    /\ UNCHANGED <<backend, sending, aggregator, polls, timers, emptied,
                   returned>>

\* The customer opens the checkout again: a new mount.
Enter ==
    /\ page = "shop" /\ sending = Nothing
    /\ page' = "form"
    /\ aggregator' = "paydunya" /\ asking' = TRUE
    /\ UNCHANGED <<backend, showForm, sending, created, ours, mobile, emptied,
                   returned>>

\* "Modifier mes informations" above the mobile money form.
ModifyInfo ==
    /\ Shown # NoOrder
    /\ showForm' = FALSE
    /\ form' = Unmounted(form, created)
    /\ UNCHANGED <<backend, page, sending, created, aggregator, asking, ours,
                   polls, timers, emptied, returned>>

\* The same button above the card form, and the card form that does not load.
BackFromCard ==
    /\ page = "payment"
    /\ page' = "form"
    /\ created' \in {created, NoOrder}
    /\ UNCHANGED <<backend, showForm, sending, aggregator, asking, ours,
                   mobile, emptied, returned>>

\* onOrderComplete: the cart is emptied and the orders are shown.
OrderComplete ==
    /\ emptied' = TRUE
    /\ page' = "shop"
    /\ showForm' = FALSE /\ created' = NoOrder /\ ours' = {}
    /\ asking' = FALSE
    /\ form' = Unmounted(form, Shown)
    /\ UNCHANGED <<backend, sending, aggregator, polls, returned>>

\* "Retour a la boutique" on the confirmation.
BackToShop ==
    /\ page = "confirm"
    /\ OrderComplete
    /\ UNCHANGED timers

\* The five seconds are over, wherever the customer is by now.
TimerFires ==
    /\ timers > 0
    /\ timers' = timers - 1
    /\ OrderComplete

\* Stripe's answer to confirmPayment, with or without 3-D Secure: the browser
\* goes to order-received, which does not ask when 3-D Secure has failed.
CardConfirmed ==
    /\ page = "payment"
    /\ \/ /\ due' = [due EXCEPT ![created] = TRUE]
          /\ outcome' = "loading" /\ check' = "asked"
       \/ /\ UNCHANGED due
          /\ outcome' = "failed" /\ check' = Nothing
    /\ attempt' = 0
    /\ Navigate("received", created)
    /\ UNCHANGED <<status, row, confirmed, paidInFull, emptied>>

-----------------------------------------------------------------------------
(* The mobile money form.                                                  *)

\* handleSubmit: the operator's aggregator is compared with the one the form
\* was given, not with the one of the payment.
handleSubmit(o, choice) ==
    /\ Mounted(o)
    /\ form[o].stage = "idle" /\ ~form[o].otp /\ ~form[o].waiting
    /\ form' = [form EXCEPT ![o].choice = choice,
                            ![o].stage = IF choice # aggregator THEN "switch"
                                         ELSE "deposit"]
    /\ UNCHANGED <<backend, checkout, polls, timers, emptied, returned>>

\* switchPaymentProviderHandler answers, unless the payment is confirmed.
SwitchProvider(o) ==
    /\ form[o].stage = "switch"
    /\ IF confirmed[o] THEN UNCHANGED row
       ELSE row' = [row EXCEPT ![o] = [provider |-> form[o].choice,
                                       session |-> Nothing]]
    /\ form' = [form EXCEPT ![o].stage =
                   IF confirmed[o] THEN "idle"
                   ELSE IF form[o].choice = "paydunya" THEN "reinit"
                   ELSE "deposit"]
    /\ UNCHANGED <<status, due, confirmed, paidInFull, checkout, polls,
                   timers, emptied, returned>>

\* reinit-payment makes PayDunya's invoice again.
ReinitPayment(o) ==
    /\ form[o].stage = "reinit"
    /\ \E answer \in InitPayment(o, FALSE) :
        /\ row' = [row EXCEPT ![o] = answer.row]
        /\ form' = [form EXCEPT ![o].stage = IF answer.ok THEN "deposit"
                                             ELSE "idle"]
    /\ UNCHANGED <<status, due, confirmed, paidInFull, checkout, polls,
                   timers, emptied, returned>>

\* The operator asks the customer to accept; the form polls from now on.
Accepted(o) ==
    /\ due' = [due EXCEPT ![o] = TRUE]
    /\ form' = [form EXCEPT ![o] = Polling(@)]
    /\ UNCHANGED <<checkout, polls, timers, returned>>

\* data.redirectUrl, even if the form has been left.
Redirected(o) ==
    /\ due' = [due EXCEPT ![o] = TRUE]
    /\ Navigate("hosted", o)
    /\ UNCHANGED <<outcome, attempt, check>>

\* An error, or the answer is lost: the form shows it.
Refused(o) ==
    /\ form' = [form EXCEPT ![o].stage = "idle"]
    /\ UNCHANGED <<checkout, polls, timers, returned>>

\* mobile-money-deposit: POST /payments/init with the operator.
PawapayDeposit(o) ==
    /\ form[o].stage = "deposit" /\ form[o].choice = "pawapay"
    /\ \E answer \in InitPayment(o, TRUE) :
        /\ row' = [row EXCEPT ![o] = answer.row]
        /\ \/ /\ answer.ok /\ answer.row.session = "page"
              /\ Redirected(o)
           \/ /\ answer.ok /\ answer.row.session # "page"
              /\ Accepted(o)
           \/ /\ due' = [due EXCEPT ![o] = @ \/ answer.row.session = "push"]
              /\ Refused(o)
    /\ UNCHANGED <<status, confirmed, paidInFull, emptied>>

\* paydunya-softpay-deposit wants the invoice of a PayDunya payment.
SoftpayDeposit(o) ==
    /\ form[o].stage = "deposit" /\ form[o].choice = "paydunya"
    /\ \/ /\ row[o].provider = "paydunya" /\ row[o].session # Nothing
          /\ \/ Redirected(o)
             \/ Accepted(o)
             \/ /\ form' = [form EXCEPT ![o].stage = "idle",
                                        ![o].otp = Mounted(o)]
                /\ UNCHANGED <<due, checkout, polls, timers, returned>>
       \/ /\ due' \in IF row[o] = [provider |-> "paydunya", session |-> "page"]
                     THEN {due, [due EXCEPT ![o] = TRUE]} ELSE {due}
          /\ Refused(o)
    /\ UNCHANGED <<status, row, confirmed, paidInFull, emptied>>

\* handleWizallConfirm, from a screen that stays when the form is waiting.
handleWizallConfirm(o) ==
    /\ Mounted(o)
    /\ form[o].otp /\ form[o].stage = "idle"
    /\ form' = [form EXCEPT ![o].stage = "confirming"]
    /\ UNCHANGED <<backend, checkout, polls, timers, emptied, returned>>

WizallAnswer(o) ==
    /\ form[o].stage = "confirming"
    /\ \/ Accepted(o)
       \/ /\ due' \in {due, [due EXCEPT ![o] = TRUE]}
          /\ Refused(o)
    /\ UNCHANGED <<status, row, confirmed, paidInFull, emptied>>

\* The interval, or one that pollTimer has forgotten, fires.
Tick(o) ==
    /\ form[o].timer \/ form[o].stray
    /\ polls' = polls \cup {[order |-> o, answer |-> "asked"]}
    /\ UNCHANGED <<backend, checkout, form, timers, emptied, returned>>

\* What the route answers of an order: an error of order-svc counts as failed.
RouteAnswers(o) == {Verdict(status[o]), "failed"}

\* confirm-pawapay and confirm-paydunya read the status from order-svc.
ConfirmRoute(p) ==
    /\ p \in polls /\ p.answer = "asked"
    /\ \E v \in RouteAnswers(p.order) :
          polls' = (polls \ {p}) \cup {[p EXCEPT !.answer = v]}
    /\ UNCHANGED <<backend, checkout, form, timers, emptied, returned>>

\* onSuccess: setStep does nothing once the page has unmounted, the timer of
\* onOrderComplete is started all the same.
PaymentSuccess(o) ==
    LET shown == page \in CheckoutSteps /\ o \in ours
    IN  /\ timers < MaxTimers
        /\ timers' = timers + 1
        /\ page' = IF shown THEN "confirm" ELSE page
        /\ form' = Unmounted([form EXCEPT ![o].timer = FALSE],
                             IF shown THEN Shown ELSE NoOrder)

\* Mutant: the interval is cleared and the form still says it waits.
StillWaiting(o) ==
    /\ form' = [form EXCEPT ![o].timer = FALSE]
    /\ UNCHANGED <<page, timers>>

\* onFailure, after the interval of pollTimer has been cleared.
PaymentFailure(o) ==
    /\ form' = [form EXCEPT ![o].timer = FALSE, ![o].waiting = FALSE]
    /\ UNCHANGED <<page, timers>>

\* The answer to a poll, whatever has happened to the form since.
PollAnswer(p) ==
    /\ p \in polls /\ p.answer # "asked"
    /\ polls' = polls \ {p}
    /\ CASE p.answer = "completed" -> PaymentSuccess(p.order)
         [] p.answer = "failed" -> PaymentFailure(p.order)
         [] p.answer = "pending" -> UNCHANGED <<form, page, timers>>
    /\ UNCHANGED <<backend, showForm, sending, created, aggregator, asking,
                   ours, emptied, returned>>

\* Mutant: one failed poll and the form stops asking.
GivesUp(p) ==
    /\ p \in polls
    /\ polls' = polls \ {p}
    /\ form' = [form EXCEPT ![p.order].timer = FALSE]
    /\ UNCHANGED <<backend, checkout, timers, emptied, returned>>

\* A network error is left to the next tick.
PollLost(p) ==
    /\ p \in polls
    /\ polls' = polls \ {p}
    /\ UNCHANGED <<backend, checkout, form, timers, emptied, returned>>

-----------------------------------------------------------------------------
(* Back from the aggregator or from Stripe.                                *)

\* The aggregator sends the customer to order-received, where PayDunya's
\* token may be missing; or the customer goes back to the shop.
ReturnFromHosted ==
    /\ page = "hosted"
    /\ \/ /\ Navigate("received", at)
          /\ outcome' = "loading" /\ check' = "asked"
       \/ /\ Navigate("received", at)
          /\ outcome' = "failed" /\ check' = Nothing
       \/ /\ Navigate("shop", NoOrder)
          /\ UNCHANGED <<outcome, check>>
    /\ attempt' = 0
    /\ UNCHANGED <<backend, emptied>>

\* confirm-stripe, confirm-pawapay or confirm-paydunya reads the status.
ReceivedRoute ==
    /\ check = "asked"
    /\ check' \in RouteAnswers(at)
    /\ UNCHANGED <<backend, checkout, mobile, emptied, at, outcome, attempt>>

\* Mutant: no way out after the last attempt, as before 2026-09-03.
PendingForEver ==
    /\ check \in Verdicts
    /\ check' = Nothing
    /\ outcome' = check
    /\ attempt' = IF check = "pending" /\ attempt < 5 THEN attempt + 1
                  ELSE attempt
    /\ emptied' = (emptied \/ check = "completed")
    /\ UNCHANGED <<backend, checkout, mobile, at>>

\* Mutant: the attempts are counted past the last delay.
CountsTooFar ==
    /\ check \in Verdicts
    /\ check' = Nothing
    /\ outcome' = IF check = "pending" /\ attempt = 6 THEN "timeout" ELSE check
    /\ attempt' = IF check = "pending" /\ attempt < 6 THEN attempt + 1
                  ELSE attempt
    /\ emptied' = (emptied \/ check = "completed")
    /\ UNCHANGED <<backend, checkout, mobile, at>>

\* The answer of an attempt: a final one, or a pause before the next, or
\* 'timeout' after the sixth.
ReceivedAnswer ==
    /\ check \in Verdicts
    /\ check' = Nothing
    /\ outcome' = IF check = "pending" /\ attempt = 5 THEN "timeout" ELSE check
    /\ attempt' = IF check = "pending" /\ attempt < 5 THEN attempt + 1
                  ELSE attempt
    /\ emptied' = (emptied \/ check = "completed")
    /\ UNCHANGED <<backend, checkout, mobile, at>>

\* A network error is final here.
ReceivedLost ==
    /\ check # Nothing
    /\ check' = Nothing
    /\ outcome' = "failed"
    /\ UNCHANGED <<backend, checkout, mobile, emptied, at, attempt>>

\* The pause between two attempts is over.
ReceivedAgain ==
    /\ outcome = "pending" /\ check = Nothing
    /\ check' = "asked"
    /\ UNCHANGED <<backend, checkout, mobile, emptied, at, outcome, attempt>>

\* The customer leaves order-received.
ReceivedLeft ==
    /\ page = "received"
    /\ Navigate("shop", NoOrder)
    /\ outcome' = Nothing /\ attempt' = 0 /\ check' = Nothing
    /\ UNCHANGED <<backend, emptied>>

-----------------------------------------------------------------------------
(* The world: the customer's telephone, payment-svc, order-svc.            *)

CustomerPays(o) ==
    /\ due[o] /\ ~confirmed[o]
    /\ confirmed' = [confirmed EXCEPT ![o] = TRUE]
    /\ UNCHANGED <<status, row, due, paidInFull, checkout, mobile, emptied,
                   returned>>

\* Where the aggregated status of a group may go next.
NextStatus(o) ==
    CASE status[o] \in {"pending_payment", "payment_expired"} ->
            {"payment_expired"} \cup
            IF confirmed[o] THEN {"paid", "partially_paid"} ELSE {}
      [] status[o] = "partially_paid" -> {"paid", "mixed"}
      [] status[o] = "paid" -> {"processing", "mixed"}
      [] OTHER -> {}

OrderMoves(o) ==
    /\ \E s \in NextStatus(o) \ {status[o]} :
        /\ status' = [status EXCEPT ![o] = s]
        /\ paidInFull' = [paidInFull EXCEPT ![o] = @ \/ s = "paid"]
    /\ UNCHANGED <<row, due, confirmed, checkout, mobile, emptied, returned>>

-----------------------------------------------------------------------------
PayNext ==
    \/ GatewaysAnswer
    \/ processFinalOrder
    \/ \E o \in Orders, ready \in BOOLEAN : OrderAnswer(o, ready)
    \/ OrderError
    \/ Leave
    \/ Enter
    \/ ModifyInfo
    \/ BackFromCard
    \/ BackToShop
    \/ TimerFires
    \/ CardConfirmed
    \/ \E o \in Orders, choice \in Aggregators : handleSubmit(o, choice)
    \/ \E o \in Orders :
        \/ SwitchProvider(o)
        \/ ReinitPayment(o)
        \/ PawapayDeposit(o)
        \/ SoftpayDeposit(o)
        \/ handleWizallConfirm(o)
        \/ WizallAnswer(o)
        \/ Tick(o)
        \/ CustomerPays(o)
        \/ OrderMoves(o)
    \/ \E p \in polls : ConfirmRoute(p) \/ PollAnswer(p) \/ PollLost(p)
    \/ ReturnFromHosted
    \/ ReceivedRoute
    \/ ReceivedAnswer
    \/ ReceivedLost
    \/ ReceivedAgain
    \/ ReceivedLeft

PaySpec == PayInit /\ [][PayNext]_payVars

\* Timers fire and servers answer.  Polls may be lost, but not every one.
FairPay ==
    /\ PaySpec
    /\ WF_payVars(ReceivedRoute)
    /\ WF_payVars(ReceivedAnswer)
    /\ WF_payVars(ReceivedAgain)
    /\ WF_payVars(TimerFires)
    /\ \A o \in Orders :
        /\ WF_payVars(Tick(o))
        /\ SF_payVars(\E p \in polls : p.order = o /\ ConfirmRoute(p))
        /\ SF_payVars(\E p \in polls : p.order = o /\ PollAnswer(p))

-----------------------------------------------------------------------------
(* Properties.                                                             *)

\* Neither the confirmation nor "Merci pour votre achat" is shown, nor is the
\* cart emptied, before every sub-order of an order made from it is paid;
\* answers and timers that come late included.
ThankedOncePaid ==
    /\ page = "confirm" => \E o \in ours : paidInFull[o]
    /\ outcome = "completed" => paidInFull[at]
    /\ emptied \/ timers > 0 => \E o \in Orders : paidInFull[o]

\* A mobile money form that says it waits has its interval, and one that does
\* not has none, after any mixture of refusals, retries and late answers.
WaitingIsPolled ==
    \A o \in Orders : Mounted(o) => form[o].waiting = form[o].timer

\* Once its order is paid, a form that waits shows it, unless left before.
OutcomeIsShown ==
    \A o \in Orders : (Mounted(o) /\ form[o].waiting /\ paidInFull[o])
                      ~> ~(Mounted(o) /\ form[o].waiting)

\* order-received always comes to an answer, if only 'timeout'.
ReceivedSettles ==
    outcome \in {"loading", "pending"} ~> outcome \notin {"loading", "pending"}

\* Refuted: the deposit of handleSubmit meets a payment of the aggregator of
\* the operator that the customer chose.
DepositOnItsAggregator ==
    \A o \in Orders : form[o].stage = "deposit" =>
                      confirmed[o] \/ row[o].provider = form[o].choice
=============================================================================
