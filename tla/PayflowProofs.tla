--------------------------- MODULE PayflowProofs ---------------------------
(***************************************************************************)
(* What the checkout promises for every number of orders made from one     *)
(* basket: nobody is thanked, and no cart emptied, before a payment is     *)
(* complete, and a mobile money form that waits is being polled.           *)
(***************************************************************************)
EXTENDS Payflow, TLAPS

-----------------------------------------------------------------------------
(* The inductive invariant: three groups of facts *)

\* Nothing is going on in a form.
Blank(g) == g.stage = "idle" /\ ~g.otp /\ ~g.waiting /\ ~g.timer /\ ~g.stray

\* Whatever says "completed" was read from a group that was paid.
CompletedWasPaid ==
    /\ \A p \in polls : p.answer = "completed" => paidInFull[p.order]
    /\ \A o \in Orders : status[o] \in {"paid", "processing"} => paidInFull[o]
    /\ check = "completed" => paidInFull[at]

\* A document replaced by another runs no script, and only order-received has
\* an outcome.
OneDocument ==
    /\ page \in {"hosted", "received"} =>
          /\ at \in Orders
          /\ polls = {} /\ timers = 0 /\ ~showForm /\ sending = Nothing
          /\ \A o \in Orders : Blank(form[o])
    /\ page # "received" => outcome = Nothing /\ check = Nothing
    /\ page = "payment" => created \in Orders
    /\ page \notin CheckoutSteps => created = NoOrder /\ ~showForm
    /\ created \in ours \cup {NoOrder}

\* A form is shown for the first time with its order.
ShownOnce ==
    /\ sending # Nothing => ~showForm
    /\ page = "payment" => ~showForm /\ sending = Nothing
    /\ \A o \in Orders : status[o] = Nothing =>
          /\ Blank(form[o])
          /\ created # o
          /\ \A p \in polls : p.order # o

PayInv ==
    /\ PayTypeOK
    /\ CompletedWasPaid
    /\ OneDocument
    /\ ThankedOncePaid
    /\ ShownOnce
    /\ WaitingIsPolled

-----------------------------------------------------------------------------
(* Lemmas on the helpers *)

LEMMA UnmountedTyped ==
    ASSUME NEW f \in [Orders -> Form], NEW o
    PROVE  Unmounted(f, o) \in [Orders -> Form]
  BY DEF Unmounted, Form

LEMMA UnmountedKeeps ==
    ASSUME NEW f \in [Orders -> Form], NEW o \in Orders, NEW x
    PROVE  /\ Blank(f[o]) => Blank(Unmounted(f, x)[o])
           /\ x # o => Unmounted(f, x)[o] = f[o]
  BY DEF Unmounted, Blank, Form

LEMMA ClearedTyped ==
    ASSUME NEW f \in [Orders -> Form], NEW o \in Orders
    PROVE  [f EXCEPT ![o].timer = FALSE] \in [Orders -> Form]
  BY DEF Form

LEMMA StoppedTyped ==
    ASSUME NEW f \in [Orders -> Form], NEW o \in Orders
    PROVE  [f EXCEPT ![o].timer = FALSE, ![o].waiting = FALSE] \in [Orders -> Form]
<1>1. ASSUME NEW g \in Form PROVE [g EXCEPT !.timer = FALSE] \in Form
  BY DEF Form
<1>2. ASSUME NEW g \in Form PROVE [g EXCEPT !.waiting = FALSE] \in Form
  BY DEF Form
<1>3. [f EXCEPT ![o].timer = FALSE] \in [Orders -> Form]
  BY <1>1
<1>4. QED BY <1>2, <1>3

LEMMA NoOrderIsNone == NoOrder \notin Orders
  BY DEF NoOrder, Orders

LEMMA PollingTyped ==
    ASSUME NEW g \in Form
    PROVE  Polling(g) \in Form /\ Polling(g).waiting = Polling(g).timer
  BY DEF Polling, Form

LEMMA NoFormTyped == NoForm \in Form /\ Blank(NoForm)
  BY DEF NoForm, Form, Aggregators, Blank

LEMMA VerdictTyped == \A s : Verdict(s) \in Verdicts
  BY DEF Verdict, Verdicts

LEMMA InitPaymentTyped ==
    ASSUME row \in [Orders -> Row], NEW o \in Orders, NEW known \in BOOLEAN,
           NEW answer \in InitPayment(o, known)
    PROVE  answer.row \in Row
  BY DEF InitPayment, Row, Nothing

LEMMA CreateTyped ==
    ASSUME status \in [Orders -> Statuses], row \in [Orders -> Row],
           NEW o \in Orders, NEW m \in Aggregators \cup {"stripe"},
           NEW ready \in BOOLEAN, CreateOrder(o, m, ready)
    PROVE  status' \in [Orders -> Statuses] /\ row' \in [Orders -> Row]
<1> DEFINE s == CASE m = "stripe" /\ ready -> "intent"
                  [] m = "paydunya" /\ ready -> "page"
                  [] OTHER -> Nothing
<1>1. s \in {Nothing, "intent", "push", "page"}
  OBVIOUS
<1>2. row' = [row EXCEPT ![o] = [provider |-> m, session |-> s]]
  BY DEF CreateOrder
<1> HIDE DEF s
<1>3. QED BY <1>1, <1>2 DEF CreateOrder, Row, Statuses

\* What a deposit that is accepted, refused or redirected leaves typed.
LEMMA DepositTyped ==
    ASSUME PayTypeOK, NEW o \in Orders,
           \/ Accepted(o)
           \/ Refused(o)
           \/ Redirected(o)
    PROVE  /\ form' \in [Orders -> Form]
           /\ polls' \subseteq [order : Orders, answer : Verdicts \cup {"asked"}]
           /\ timers' \in 0 .. MaxTimers
           /\ page' \in CheckoutSteps \cup {"shop", "hosted", "received"}
           /\ showForm' \in BOOLEAN
           /\ sending' \in Aggregators \cup {"stripe", Nothing}
           /\ created' \in Orders \cup {NoOrder}
           /\ asking' \in BOOLEAN
           /\ ours' \subseteq Orders
           /\ at' \in Orders \cup {NoOrder}
           /\ UNCHANGED <<aggregator, outcome, attempt, check>>
<1> USE DEF PayTypeOK, checkout, returned
<1>1. CASE Accepted(o)
  BY <1>1, PollingTyped DEF Accepted
<1>2. CASE Refused(o)
  BY <1>2 DEF Refused, Form
<1>3. CASE Redirected(o)
  <2>1. 0 \in 0 .. MaxTimers
    BY PayflowAssumption
  <2>2. QED BY <1>3, <2>1, NoFormTyped DEF Redirected, Navigate
<1>4. QED BY <1>1, <1>2, <1>3

\* ... and what it leaves as it was.
LEMMA DepositKeeps ==
    ASSUME PayTypeOK, NEW o \in Orders,
           \/ Accepted(o)
           \/ Refused(o)
           \/ Redirected(o)
    PROVE  /\ \A x \in Orders : x # o => form'[x] = form[x] \/ Blank(form'[x])
           /\ created' \in {created, NoOrder}
           /\ polls' \in {polls, {}}
           /\ timers' \in {timers, 0}
           /\ showForm' => showForm
           /\ sending' \in {sending, Nothing}
           /\ \/ UNCHANGED <<page, at, created, showForm, ours>> /\ (\A x \in Orders : x # o => form'[x] = form[x])
              \/ /\ page' = "hosted" /\ at' = o /\ ~showForm' /\ sending' = Nothing
                 /\ polls' = {} /\ timers' = 0 /\ created' = NoOrder
                 /\ \A x \in Orders : Blank(form'[x])
           /\ UNCHANGED <<outcome, attempt, check>>
<1> USE DEF PayTypeOK, checkout, returned
<1>1. CASE Accepted(o)
  BY <1>1 DEF Accepted
<1>2. CASE Refused(o)
  BY <1>2 DEF Refused
<1>3. CASE Redirected(o)
  BY <1>3, NoFormTyped DEF Redirected, Navigate
<1>4. QED BY <1>1, <1>2, <1>3

LEMMA NavigateTyped ==
    ASSUME PayTypeOK, NEW w \in {"shop", "hosted", "received"},
           NEW o \in Orders \cup {NoOrder}, Navigate(w, o)
    PROVE  /\ form' \in [Orders -> Form]
           /\ polls' = {}
           /\ timers' \in 0 .. MaxTimers
           /\ page' = w
           /\ showForm' \in BOOLEAN
           /\ sending' \in Aggregators \cup {"stripe", Nothing}
           /\ created' \in Orders \cup {NoOrder}
           /\ asking' \in BOOLEAN
           /\ ours' \subseteq Orders
           /\ at' \in Orders \cup {NoOrder}
           /\ UNCHANGED aggregator
           /\ ~showForm' /\ sending' = Nothing /\ created' = NoOrder
           /\ timers' = 0 /\ at' = o /\ ours' = {}
           /\ \A x \in Orders : Blank(form'[x])
<1>1. 0 \in 0 .. MaxTimers
  BY PayflowAssumption
<1>2. QED BY <1>1, NoFormTyped DEF Navigate, PayTypeOK

LEMMA NextStatusTyped ==
    ASSUME NEW o \in Orders
    PROVE  NextStatus(o) \subseteq Statuses \ {Nothing}
  BY DEF NextStatus, Statuses, Nothing

-----------------------------------------------------------------------------
(* Types *)

LEMMA TypeStep == PayTypeOK /\ [PayNext]_payVars => PayTypeOK'
<1> SUFFICES ASSUME PayTypeOK, [PayNext]_payVars
             PROVE  PayTypeOK'
  OBVIOUS
<1> USE DEF PayTypeOK, backend, checkout, mobile, returned
<1>1. ASSUME GatewaysAnswer
      PROVE  PayTypeOK'
  <2>1. aggregator' \in Aggregators
    BY <1>1, PayflowAssumption DEF GatewaysAnswer, Aggregators
  <2>2. QED BY <1>1, <2>1, ZenonT(40) DEF GatewaysAnswer
<1>2. ASSUME processFinalOrder
      PROVE  PayTypeOK'
  BY <1>2 DEF processFinalOrder, Aggregators
<1>3. ASSUME NEW o \in Orders, NEW ready \in BOOLEAN, OrderAnswer(o, ready)
      PROVE  PayTypeOK'
  <2>1. status' \in [Orders -> Statuses] /\ row' \in [Orders -> Row]
    BY <1>3, CreateTyped DEF OrderAnswer
  <2>2. QED BY <1>3, <2>1, ZenonT(40) DEF OrderAnswer, CreateOrder, CheckoutSteps, Nothing
<1>4. ASSUME OrderError
      PROVE  PayTypeOK'
  <2>1. status' \in [Orders -> Statuses] /\ row' \in [Orders -> Row]
    BY <1>4, CreateTyped DEF OrderError
  <2>2. QED BY <1>4, <2>1 DEF OrderError, CreateOrder, Nothing
<1>5. ASSUME Leave
      PROVE  PayTypeOK'
  BY <1>5, UnmountedTyped DEF Leave, CheckoutSteps
<1>6. ASSUME Enter
      PROVE  PayTypeOK'
  BY <1>6 DEF Enter, Aggregators, CheckoutSteps
<1>7. ASSUME ModifyInfo
      PROVE  PayTypeOK'
  BY <1>7, UnmountedTyped, ZenonT(40) DEF ModifyInfo
<1>8. ASSUME BackFromCard
      PROVE  PayTypeOK'
  BY <1>8 DEF BackFromCard, CheckoutSteps
<1>9. ASSUME BackToShop
      PROVE  PayTypeOK'
  BY <1>9, UnmountedTyped DEF BackToShop, OrderComplete, CheckoutSteps
<1>10. ASSUME TimerFires
      PROVE  PayTypeOK'
  <2>1. timers' \in 0 .. MaxTimers
    BY <1>10, PayflowAssumption DEF TimerFires
  <2>2. form' \in [Orders -> Form]
    BY <1>10, UnmountedTyped DEF TimerFires, OrderComplete
  <2>3. QED BY <1>10, <2>1, <2>2 DEF TimerFires, OrderComplete
<1>11. ASSUME CardConfirmed
      PROVE  PayTypeOK'
  <2>1. Navigate("received", created)
    BY <1>11 DEF CardConfirmed
  <2>2. due' \in [Orders -> BOOLEAN]
    BY <1>11 DEF CardConfirmed
  <2>3. QED BY <1>11, <2>1, <2>2, NavigateTyped DEF CardConfirmed, Nothing, Verdicts
<1>12. ASSUME NEW o \in Orders, NEW choice \in Aggregators, handleSubmit(o, choice)
      PROVE  PayTypeOK'
  BY <1>12 DEF handleSubmit, Form
<1>13. ASSUME NEW o \in Orders, SwitchProvider(o)
      PROVE  PayTypeOK'
  <2>1. row' \in [Orders -> Row]
    BY <1>13 DEF SwitchProvider, Form, Row
  <2>2. form' \in [Orders -> Form]
    BY <1>13 DEF SwitchProvider, Form
  <2>3. QED BY <1>13, <2>1, <2>2 DEF SwitchProvider
<1>14. ASSUME NEW o \in Orders, ReinitPayment(o)
      PROVE  PayTypeOK'
  <2>1. row' \in [Orders -> Row]
    BY <1>14, InitPaymentTyped DEF ReinitPayment
  <2>2. form' \in [Orders -> Form]
    BY <1>14 DEF ReinitPayment, Form
  <2>3. QED BY <1>14, <2>1, <2>2 DEF ReinitPayment
<1>15. ASSUME NEW o \in Orders, PawapayDeposit(o)
      PROVE  PayTypeOK'
  <2>1. row' \in [Orders -> Row]
    BY <1>15, InitPaymentTyped DEF PawapayDeposit
  <2>2. due' \in [Orders -> BOOLEAN]
    BY <1>15 DEF PawapayDeposit, Accepted, Redirected
  <2>3. Accepted(o) \/ Refused(o) \/ Redirected(o)
    BY <1>15 DEF PawapayDeposit
  <2>4. QED BY <1>15, <2>1, <2>2, <2>3, DepositTyped DEF PawapayDeposit
<1>16. ASSUME NEW o \in Orders, SoftpayDeposit(o)
      PROVE  PayTypeOK'
  <2>1. due' \in [Orders -> BOOLEAN]
    BY <1>16 DEF SoftpayDeposit, Accepted, Redirected
  <2>2. CASE Accepted(o) \/ Refused(o) \/ Redirected(o)
    BY <1>16, <2>1, <2>2, DepositTyped DEF SoftpayDeposit
  <2>3. CASE /\ form' = [form EXCEPT ![o].stage = "idle", ![o].otp = Mounted(o)]
             /\ UNCHANGED <<due, checkout, polls, timers, returned>>
    <3> DEFINE screen == Mounted(o)
    <3>1. screen \in BOOLEAN
      BY DEF Mounted
    <3>2. form' = [form EXCEPT ![o].stage = "idle", ![o].otp = screen]
      BY <2>3
    <3> HIDE DEF screen
    <3>3. form' \in [Orders -> Form]
      BY <3>1, <3>2, ZenonT(40) DEF Form
    <3>4. QED BY <1>16, <2>1, <2>3, <3>3 DEF SoftpayDeposit
  <2>4. QED BY <1>16, <2>2, <2>3 DEF SoftpayDeposit
<1>17. ASSUME NEW o \in Orders, handleWizallConfirm(o)
      PROVE  PayTypeOK'
  BY <1>17 DEF handleWizallConfirm, Form
<1>18. ASSUME NEW o \in Orders, WizallAnswer(o)
      PROVE  PayTypeOK'
  <2>1. due' \in [Orders -> BOOLEAN]
    BY <1>18 DEF WizallAnswer, Accepted
  <2>2. Accepted(o) \/ Refused(o) \/ Redirected(o)
    BY <1>18 DEF WizallAnswer
  <2>3. QED BY <1>18, <2>1, <2>2, DepositTyped DEF WizallAnswer
<1>19. ASSUME NEW o \in Orders, Tick(o)
      PROVE  PayTypeOK'
  BY <1>19 DEF Tick
<1>20. ASSUME NEW o \in Orders, CustomerPays(o)
      PROVE  PayTypeOK'
  BY <1>20 DEF CustomerPays
<1>21. ASSUME NEW o \in Orders, OrderMoves(o)
      PROVE  PayTypeOK'
  BY <1>21, NextStatusTyped DEF OrderMoves
<1>22. ASSUME NEW p \in polls, ConfirmRoute(p)
      PROVE  PayTypeOK'
  BY <1>22, VerdictTyped DEF ConfirmRoute, RouteAnswers, Verdicts
<1>23. ASSUME NEW p \in polls, PollAnswer(p)
      PROVE  PayTypeOK'
  <2>1. p.order \in Orders /\ p.answer \in Verdicts
    BY <1>23 DEF PollAnswer
  <2>2. \/ PaymentSuccess(p.order)
        \/ PaymentFailure(p.order)
        \/ UNCHANGED <<form, page, timers>>
    BY <1>23, <2>1 DEF PollAnswer, Verdicts
  <2>3. form' \in [Orders -> Form]
    <3>1. [form EXCEPT ![p.order].timer = FALSE] \in [Orders -> Form]
      BY <2>1, ClearedTyped
    <3>2. CASE PaymentFailure(p.order)
      <4>1. form' = [form EXCEPT ![p.order].timer = FALSE, ![p.order].waiting = FALSE]
        BY <3>2 DEF PaymentFailure
      <4>2. QED BY <2>1, <4>1, StoppedTyped
    <3>3. CASE PaymentSuccess(p.order)
      <4>1. PICK x : form' = Unmounted([form EXCEPT ![p.order].timer = FALSE], x)
        BY <3>3 DEF PaymentSuccess
      <4>2. QED BY <3>1, <4>1, UnmountedTyped
    <3>4. QED BY <2>2, <3>2, <3>3
  <2>4. timers' \in 0 .. MaxTimers
    BY <2>2, PayflowAssumption DEF PaymentSuccess, PaymentFailure
  <2>5. page' \in CheckoutSteps \cup {"shop", "hosted", "received"}
    BY <2>2 DEF PaymentSuccess, PaymentFailure, CheckoutSteps
  <2>6. QED BY <1>23, <2>3, <2>4, <2>5 DEF PollAnswer
<1>24. ASSUME NEW p \in polls, PollLost(p)
      PROVE  PayTypeOK'
  BY <1>24 DEF PollLost
<1>25. ASSUME ReturnFromHosted
      PROVE  PayTypeOK'
  <2>1. Navigate("received", at) \/ Navigate("shop", NoOrder)
    BY <1>25 DEF ReturnFromHosted
  <2>2. outcome' \in Verdicts \cup {Nothing, "loading", "timeout"}
        /\ check' \in Verdicts \cup {Nothing, "asked"}
    BY <1>25 DEF ReturnFromHosted, Verdicts
  <2>3. QED BY <1>25, <2>1, <2>2, NavigateTyped DEF ReturnFromHosted
<1>26. ASSUME ReceivedRoute
      PROVE  PayTypeOK'
  BY <1>26, VerdictTyped DEF ReceivedRoute, RouteAnswers, Verdicts
<1>27. ASSUME ReceivedAnswer
      PROVE  PayTypeOK'
  BY <1>27 DEF ReceivedAnswer, Nothing, Verdicts
<1>28. ASSUME ReceivedLost
      PROVE  PayTypeOK'
  BY <1>28 DEF ReceivedLost, Nothing, Verdicts
<1>29. ASSUME ReceivedAgain
      PROVE  PayTypeOK'
  BY <1>29 DEF ReceivedAgain
<1>30. ASSUME ReceivedLeft
      PROVE  PayTypeOK'
  <2>1. Navigate("shop", NoOrder)
    BY <1>30 DEF ReceivedLeft
  <2>2. QED BY <1>30, <2>1, NavigateTyped DEF ReceivedLeft
<1>31. CASE UNCHANGED payVars
  BY <1>31 DEF payVars
<1>32. QED
  BY <1>1, <1>2, <1>3, <1>4, <1>5, <1>6, <1>7, <1>8, <1>9, <1>10, <1>11, <1>12, <1>13, <1>14, <1>15, <1>16, <1>17, <1>18, <1>19, <1>20, <1>21, <1>22, <1>23, <1>24, <1>25, <1>26, <1>27, <1>28, <1>29, <1>30, <1>31 DEF PayNext

-----------------------------------------------------------------------------
(* The four other groups *)

LEMMA DocumentStep == PayTypeOK /\ OneDocument /\ [PayNext]_payVars => OneDocument'
<1> SUFFICES ASSUME PayTypeOK /\ OneDocument, [PayNext]_payVars
             PROVE  OneDocument'
  OBVIOUS
<1> USE DEF PayTypeOK, OneDocument, CheckoutSteps, backend, checkout, mobile, returned
<1>1. ASSUME GatewaysAnswer
      PROVE  OneDocument'
  BY <1>1 DEF GatewaysAnswer, Nothing, NoForm, Blank
<1>2. ASSUME processFinalOrder
      PROVE  OneDocument'
  BY <1>2 DEF processFinalOrder, Nothing, NoForm, Blank
<1>3. ASSUME NEW o \in Orders, NEW ready \in BOOLEAN, OrderAnswer(o, ready)
      PROVE  OneDocument'
  BY <1>3 DEF OrderAnswer, CreateOrder, Nothing, NoForm, Blank
<1>4. ASSUME OrderError
      PROVE  OneDocument'
  BY <1>4 DEF OrderError, CreateOrder, Nothing, NoForm, Blank
<1>5. ASSUME Leave
      PROVE  OneDocument'
  BY <1>5 DEF Leave, Nothing, NoForm, Blank
<1>6. ASSUME Enter
      PROVE  OneDocument'
  BY <1>6 DEF Enter, Nothing, NoForm, Blank
<1>7. ASSUME ModifyInfo
      PROVE  OneDocument'
  BY <1>7 DEF ModifyInfo, Shown, Nothing, NoForm, Blank
<1>8. ASSUME BackFromCard
      PROVE  OneDocument'
  BY <1>8 DEF BackFromCard, Nothing, NoForm, Blank
<1>9. ASSUME BackToShop
      PROVE  OneDocument'
  BY <1>9 DEF BackToShop, OrderComplete, Nothing, NoForm, Blank
<1>10. ASSUME TimerFires
      PROVE  OneDocument'
  BY <1>10 DEF TimerFires, OrderComplete, Nothing, NoForm, Blank
<1>11. ASSUME CardConfirmed
      PROVE  OneDocument'
  BY <1>11 DEF CardConfirmed, Navigate, Nothing, NoForm, Blank
<1>12. ASSUME NEW o \in Orders, NEW choice \in Aggregators, handleSubmit(o, choice)
      PROVE  OneDocument'
  BY <1>12 DEF handleSubmit, Mounted, Nothing, NoForm, Blank
<1>13. ASSUME NEW o \in Orders, SwitchProvider(o)
      PROVE  OneDocument'
  BY <1>13 DEF SwitchProvider, Nothing, NoForm, Blank
<1>14. ASSUME NEW o \in Orders, ReinitPayment(o)
      PROVE  OneDocument'
  BY <1>14 DEF ReinitPayment, Nothing, NoForm, Blank
<1>15. ASSUME NEW o \in Orders, PawapayDeposit(o)
      PROVE  OneDocument'
  <2>1. page \notin {"hosted", "received"}
    BY <1>15 DEF PawapayDeposit, Blank
  <2>2. UNCHANGED <<status, paidInFull>>
    BY <1>15 DEF PawapayDeposit
  <2>3. CASE Accepted(o) \/ Refused(o) \/ Redirected(o)
    BY <2>1, <2>2, <2>3, DepositKeeps, NoFormTyped
  <2>4. QED BY <1>15, <2>3 DEF PawapayDeposit
<1>16. ASSUME NEW o \in Orders, SoftpayDeposit(o)
      PROVE  OneDocument'
  <2>1. page \notin {"hosted", "received"}
    BY <1>16 DEF SoftpayDeposit, Blank
  <2>2. UNCHANGED <<status, paidInFull>>
    BY <1>16 DEF SoftpayDeposit
  <2>3. CASE Accepted(o) \/ Refused(o) \/ Redirected(o)
    BY <2>1, <2>2, <2>3, DepositKeeps, NoFormTyped
  <2>4. CASE /\ form' = [form EXCEPT ![o].stage = "idle", ![o].otp = Mounted(o)]
             /\ UNCHANGED <<due, checkout, polls, timers, returned>>
    <3>1. \A x \in Orders : x # o => form'[x] = form[x]
      BY <2>4
    <3>2. QED BY <2>1, <2>2, <2>4, <3>1
  <2>5. QED BY <1>16, <2>3, <2>4 DEF SoftpayDeposit
<1>17. ASSUME NEW o \in Orders, handleWizallConfirm(o)
      PROVE  OneDocument'
  BY <1>17 DEF handleWizallConfirm, Mounted, Nothing, NoForm, Blank
<1>18. ASSUME NEW o \in Orders, WizallAnswer(o)
      PROVE  OneDocument'
  <2>1. page \notin {"hosted", "received"}
    BY <1>18 DEF WizallAnswer, Blank
  <2>2. UNCHANGED <<status, paidInFull>>
    BY <1>18 DEF WizallAnswer
  <2>3. CASE Accepted(o) \/ Refused(o) \/ Redirected(o)
    BY <2>1, <2>2, <2>3, DepositKeeps, NoFormTyped
  <2>4. QED BY <1>18, <2>3 DEF WizallAnswer
<1>19. ASSUME NEW o \in Orders, Tick(o)
      PROVE  OneDocument'
  BY <1>19 DEF Tick, Nothing, NoForm, Blank
<1>20. ASSUME NEW o \in Orders, CustomerPays(o)
      PROVE  OneDocument'
  BY <1>20 DEF CustomerPays, Nothing, NoForm, Blank
<1>21. ASSUME NEW o \in Orders, OrderMoves(o)
      PROVE  OneDocument'
  BY <1>21 DEF OrderMoves, Nothing, NoForm, Blank
<1>22. ASSUME NEW p \in polls, ConfirmRoute(p)
      PROVE  OneDocument'
  BY <1>22 DEF ConfirmRoute, Nothing, NoForm, Blank
<1>23. ASSUME NEW p \in polls, PollAnswer(p)
      PROVE  OneDocument'
  <2>1. page \notin {"hosted", "received"}
    OBVIOUS
  <2>0. p.answer \in Verdicts
    BY <1>23 DEF PollAnswer
  <2>2. /\ page' = page \/ (page' = "confirm" /\ page \in CheckoutSteps)
        /\ UNCHANGED <<created, ours, showForm, outcome, check>>
    <3>1. UNCHANGED <<created, ours, showForm, outcome, check>>
      BY <1>23 DEF PollAnswer
    <3>2. \/ PaymentSuccess(p.order)
          \/ PaymentFailure(p.order)
          \/ UNCHANGED <<form, page, timers>>
      BY <1>23, <2>0 DEF PollAnswer, Verdicts
    <3>3. page' = page \/ (page' = "confirm" /\ page \in CheckoutSteps)
      BY <3>2 DEF PaymentSuccess, PaymentFailure
    <3>4. QED BY <3>1, <3>3
  <2>3. QED BY <2>1, <2>2
<1>24. ASSUME NEW p \in polls, PollLost(p)
      PROVE  OneDocument'
  BY <1>24 DEF PollLost, Nothing, NoForm, Blank
<1>25. ASSUME ReturnFromHosted
      PROVE  OneDocument'
  BY <1>25 DEF ReturnFromHosted, Navigate, Nothing, NoForm, Blank
<1>26. ASSUME ReceivedRoute
      PROVE  OneDocument'
  BY <1>26 DEF ReceivedRoute, RouteAnswers, Nothing, NoForm, Blank
<1>27. ASSUME ReceivedAnswer
      PROVE  OneDocument'
  BY <1>27 DEF ReceivedAnswer, Verdicts, Nothing, NoForm, Blank
<1>28. ASSUME ReceivedLost
      PROVE  OneDocument'
  BY <1>28 DEF ReceivedLost, Nothing, NoForm, Blank
<1>29. ASSUME ReceivedAgain
      PROVE  OneDocument'
  BY <1>29 DEF ReceivedAgain, Nothing, NoForm, Blank
<1>30. ASSUME ReceivedLeft
      PROVE  OneDocument'
  BY <1>30 DEF ReceivedLeft, Navigate, Nothing, NoForm, Blank
<1>31. CASE UNCHANGED payVars
  BY <1>31 DEF payVars
<1>32. QED
  BY <1>1, <1>2, <1>3, <1>4, <1>5, <1>6, <1>7, <1>8, <1>9, <1>10, <1>11, <1>12, <1>13, <1>14, <1>15, <1>16, <1>17, <1>18, <1>19, <1>20, <1>21, <1>22, <1>23, <1>24, <1>25, <1>26, <1>27, <1>28, <1>29, <1>30, <1>31 DEF PayNext

LEMMA ShownStep == PayTypeOK /\ ShownOnce /\ [PayNext]_payVars => ShownOnce'
<1> SUFFICES ASSUME PayTypeOK /\ ShownOnce, [PayNext]_payVars
             PROVE  ShownOnce'
  OBVIOUS
<1> USE DEF PayTypeOK, ShownOnce, backend, checkout, mobile, returned
<1>1. ASSUME GatewaysAnswer
      PROVE  ShownOnce'
  BY <1>1 DEF GatewaysAnswer, Nothing
<1>2. ASSUME processFinalOrder
      PROVE  ShownOnce'
  BY <1>2 DEF processFinalOrder, Nothing
<1>3. ASSUME NEW o \in Orders, NEW ready \in BOOLEAN, OrderAnswer(o, ready)
      PROVE  ShownOnce'
  <2>1. status' = [status EXCEPT ![o] = "pending_payment"]
    BY <1>3 DEF OrderAnswer, CreateOrder
  <2>2. ~showForm /\ sending' = Nothing /\ UNCHANGED <<form, polls>>
    BY <1>3 DEF OrderAnswer
  <2>3. page' = "payment" => ~showForm'
    BY <1>3, <2>2 DEF OrderAnswer, CheckoutSteps
  <2>4. created' \in {created, o}
    BY <1>3 DEF OrderAnswer
  <2>5. QED BY <2>1, <2>2, <2>3, <2>4 DEF Nothing
<1>4. ASSUME OrderError
      PROVE  ShownOnce'
  BY <1>4 DEF OrderError, CreateOrder, Nothing
<1>5. ASSUME Leave
      PROVE  ShownOnce'
  BY <1>5, UnmountedKeeps, NoOrderIsNone DEF Leave, CheckoutSteps, Nothing
<1>6. ASSUME Enter
      PROVE  ShownOnce'
  BY <1>6 DEF Enter, Nothing
<1>7. ASSUME ModifyInfo
      PROVE  ShownOnce'
  BY <1>7, UnmountedKeeps, NoOrderIsNone DEF ModifyInfo, Shown, Nothing
<1>8. ASSUME BackFromCard
      PROVE  ShownOnce'
  BY <1>8, NoOrderIsNone DEF BackFromCard, Nothing
<1>9. ASSUME BackToShop
      PROVE  ShownOnce'
  BY <1>9, UnmountedKeeps, NoOrderIsNone DEF BackToShop, OrderComplete, Nothing
<1>10. ASSUME TimerFires
      PROVE  ShownOnce'
  BY <1>10, UnmountedKeeps, NoOrderIsNone DEF TimerFires, OrderComplete, Nothing
<1>11. ASSUME CardConfirmed
      PROVE  ShownOnce'
  <2>1. PICK o \in Orders \cup {NoOrder} : Navigate("received", o)
    BY <1>11 DEF CardConfirmed
  <2>2. UNCHANGED status
    BY <1>11 DEF CardConfirmed
  <2>3. QED BY <2>1, <2>2, NavigateTyped, NoOrderIsNone
<1>12. ASSUME NEW o \in Orders, NEW choice \in Aggregators, handleSubmit(o, choice)
      PROVE  ShownOnce'
  BY <1>12 DEF handleSubmit, Mounted, Nothing
<1>13. ASSUME NEW o \in Orders, SwitchProvider(o)
      PROVE  ShownOnce'
  <2>1. status[o] # Nothing
    BY <1>13 DEF SwitchProvider, Blank
  <2>2. \A x \in Orders : x # o => form'[x] = form[x]
    BY <1>13 DEF SwitchProvider
  <2>3. QED BY <1>13, <2>1, <2>2 DEF SwitchProvider
<1>14. ASSUME NEW o \in Orders, ReinitPayment(o)
      PROVE  ShownOnce'
  <2>1. status[o] # Nothing
    BY <1>14 DEF ReinitPayment, Blank
  <2>2. \A x \in Orders : x # o => form'[x] = form[x]
    BY <1>14 DEF ReinitPayment
  <2>3. QED BY <1>14, <2>1, <2>2 DEF ReinitPayment
<1>15. ASSUME NEW o \in Orders, PawapayDeposit(o)
      PROVE  ShownOnce'
  <2>1. status[o] # Nothing
    BY <1>15 DEF PawapayDeposit, Blank
  <2>2. UNCHANGED <<status, paidInFull>>
    BY <1>15 DEF PawapayDeposit
  <2>3. CASE Accepted(o) \/ Refused(o) \/ Redirected(o)
    BY <2>1, <2>2, <2>3, DepositKeeps, NoFormTyped, NoOrderIsNone DEF Nothing
  <2>4. QED BY <1>15, <2>3 DEF PawapayDeposit
<1>16. ASSUME NEW o \in Orders, SoftpayDeposit(o)
      PROVE  ShownOnce'
  <2>1. status[o] # Nothing
    BY <1>16 DEF SoftpayDeposit, Blank
  <2>2. UNCHANGED <<status, paidInFull>>
    BY <1>16 DEF SoftpayDeposit
  <2>3. CASE Accepted(o) \/ Refused(o) \/ Redirected(o)
    BY <2>1, <2>2, <2>3, DepositKeeps, NoFormTyped, NoOrderIsNone DEF Nothing
  <2>4. CASE /\ form' = [form EXCEPT ![o].stage = "idle", ![o].otp = Mounted(o)]
             /\ UNCHANGED <<due, checkout, polls, timers, returned>>
    <3>1. \A x \in Orders : x # o => form'[x] = form[x]
      BY <2>4
    <3>2. QED BY <2>1, <2>2, <2>4, <3>1 DEF Nothing
  <2>5. QED BY <1>16, <2>3, <2>4 DEF SoftpayDeposit
<1>17. ASSUME NEW o \in Orders, handleWizallConfirm(o)
      PROVE  ShownOnce'
  BY <1>17 DEF handleWizallConfirm, Mounted, Nothing
<1>18. ASSUME NEW o \in Orders, WizallAnswer(o)
      PROVE  ShownOnce'
  <2>1. status[o] # Nothing
    BY <1>18 DEF WizallAnswer, Blank
  <2>2. UNCHANGED <<status, paidInFull>>
    BY <1>18 DEF WizallAnswer
  <2>3. CASE Accepted(o) \/ Refused(o) \/ Redirected(o)
    BY <2>1, <2>2, <2>3, DepositKeeps, NoFormTyped, NoOrderIsNone DEF Nothing
  <2>4. QED BY <1>18, <2>3 DEF WizallAnswer
<1>19. ASSUME NEW o \in Orders, Tick(o)
      PROVE  ShownOnce'
  <2>1. status[o] # Nothing
    BY <1>19 DEF Tick, Blank
  <2>2. QED BY <1>19, <2>1 DEF Tick
<1>20. ASSUME NEW o \in Orders, CustomerPays(o)
      PROVE  ShownOnce'
  BY <1>20 DEF CustomerPays, Nothing
<1>21. ASSUME NEW o \in Orders, OrderMoves(o)
      PROVE  ShownOnce'
  BY <1>21, NextStatusTyped DEF OrderMoves, Statuses, Nothing
<1>22. ASSUME NEW p \in polls, ConfirmRoute(p)
      PROVE  ShownOnce'
  BY <1>22 DEF ConfirmRoute, Nothing
<1>23. ASSUME NEW p \in polls, PollAnswer(p)
      PROVE  ShownOnce'
  <2>1. p.order \in Orders /\ p.answer \in Verdicts /\ status[p.order] # Nothing
    BY <1>23 DEF PollAnswer
  <2>2. \/ PaymentSuccess(p.order)
        \/ PaymentFailure(p.order)
        \/ UNCHANGED <<form, page, timers>>
    BY <1>23, <2>1 DEF PollAnswer, Verdicts
  <2>3. \A x \in Orders : status[x] = Nothing => Blank(form'[x])
    <3>1. CASE PaymentFailure(p.order)
      BY <2>1, <3>1 DEF PaymentFailure
    <3>2. CASE PaymentSuccess(p.order)
      <4> DEFINE f == [form EXCEPT ![p.order].timer = FALSE]
      <4>1. f \in [Orders -> Form]
        BY <2>1, ClearedTyped
      <4>2. \A x \in Orders : x # p.order => f[x] = form[x]
        BY <2>1
      <4>3. PICK y : form' = Unmounted(f, y)
        BY <3>2 DEF PaymentSuccess
      <4> HIDE DEF f
      <4>4. QED BY <2>1, <4>1, <4>2, <4>3, UnmountedKeeps
    <3>3. QED BY <2>2, <3>1, <3>2
  <2>4. page' \in {page, "confirm"} /\ polls' \subseteq polls
        /\ UNCHANGED <<created, showForm, sending, status>>
    BY <1>23, <2>2 DEF PollAnswer, PaymentSuccess, PaymentFailure
  <2>5. QED BY <2>3, <2>4
<1>24. ASSUME NEW p \in polls, PollLost(p)
      PROVE  ShownOnce'
  BY <1>24 DEF PollLost, Nothing
<1>25. ASSUME ReturnFromHosted
      PROVE  ShownOnce'
  <2>1. PICK w \in {"shop", "received"}, o \in Orders \cup {NoOrder} : Navigate(w, o)
    BY <1>25 DEF ReturnFromHosted
  <2>2. UNCHANGED status
    BY <1>25 DEF ReturnFromHosted
  <2>3. QED BY <2>1, <2>2, NavigateTyped, NoOrderIsNone
<1>26. ASSUME ReceivedRoute
      PROVE  ShownOnce'
  BY <1>26 DEF ReceivedRoute, Nothing
<1>27. ASSUME ReceivedAnswer
      PROVE  ShownOnce'
  BY <1>27 DEF ReceivedAnswer, Verdicts, Nothing
<1>28. ASSUME ReceivedLost
      PROVE  ShownOnce'
  BY <1>28 DEF ReceivedLost, Nothing
<1>29. ASSUME ReceivedAgain
      PROVE  ShownOnce'
  BY <1>29 DEF ReceivedAgain, Nothing
<1>30. ASSUME ReceivedLeft
      PROVE  ShownOnce'
  <2>1. Navigate("shop", NoOrder)
    BY <1>30 DEF ReceivedLeft
  <2>2. UNCHANGED status
    BY <1>30 DEF ReceivedLeft
  <2>3. QED BY <2>1, <2>2, NavigateTyped, NoOrderIsNone
<1>31. CASE UNCHANGED payVars
  BY <1>31 DEF payVars
<1>32. QED
  BY <1>1, <1>2, <1>3, <1>4, <1>5, <1>6, <1>7, <1>8, <1>9, <1>10, <1>11, <1>12, <1>13, <1>14, <1>15, <1>16, <1>17, <1>18, <1>19, <1>20, <1>21, <1>22, <1>23, <1>24, <1>25, <1>26, <1>27, <1>28, <1>29, <1>30, <1>31 DEF PayNext

LEMMA CompletedStep == PayTypeOK /\ OneDocument /\ CompletedWasPaid /\ [PayNext]_payVars => CompletedWasPaid'
<1> SUFFICES ASSUME PayTypeOK /\ OneDocument /\ CompletedWasPaid, [PayNext]_payVars
             PROVE  CompletedWasPaid'
  OBVIOUS
<1> USE DEF PayTypeOK, CompletedWasPaid, backend, checkout, mobile, returned
<1>1. ASSUME GatewaysAnswer
      PROVE  CompletedWasPaid'
  BY <1>1 DEF GatewaysAnswer, OneDocument, Nothing
<1>2. ASSUME processFinalOrder
      PROVE  CompletedWasPaid'
  BY <1>2 DEF processFinalOrder, OneDocument, Nothing
<1>3. ASSUME NEW o \in Orders, NEW ready \in BOOLEAN, OrderAnswer(o, ready)
      PROVE  CompletedWasPaid'
  BY <1>3 DEF OrderAnswer, CreateOrder, CheckoutSteps, OneDocument, Nothing
<1>4. ASSUME OrderError
      PROVE  CompletedWasPaid'
  BY <1>4 DEF OrderError, CreateOrder, OneDocument, Nothing
<1>5. ASSUME Leave
      PROVE  CompletedWasPaid'
  BY <1>5 DEF Leave, CheckoutSteps, OneDocument, Nothing
<1>6. ASSUME Enter
      PROVE  CompletedWasPaid'
  BY <1>6 DEF Enter, OneDocument, Nothing
<1>7. ASSUME ModifyInfo
      PROVE  CompletedWasPaid'
  BY <1>7 DEF ModifyInfo, Shown, OneDocument, Nothing
<1>8. ASSUME BackFromCard
      PROVE  CompletedWasPaid'
  BY <1>8 DEF BackFromCard, OneDocument, Nothing
<1>9. ASSUME BackToShop
      PROVE  CompletedWasPaid'
  BY <1>9 DEF BackToShop, OrderComplete, OneDocument, Nothing
<1>10. ASSUME TimerFires
      PROVE  CompletedWasPaid'
  BY <1>10 DEF TimerFires, OrderComplete, OneDocument, Nothing
<1>11. ASSUME CardConfirmed
      PROVE  CompletedWasPaid'
  BY <1>11 DEF CardConfirmed, Navigate, OneDocument, Nothing
<1>12. ASSUME NEW o \in Orders, NEW choice \in Aggregators, handleSubmit(o, choice)
      PROVE  CompletedWasPaid'
  BY <1>12 DEF handleSubmit, Mounted, OneDocument, Nothing
<1>13. ASSUME NEW o \in Orders, SwitchProvider(o)
      PROVE  CompletedWasPaid'
  BY <1>13 DEF SwitchProvider, OneDocument, Nothing
<1>14. ASSUME NEW o \in Orders, ReinitPayment(o)
      PROVE  CompletedWasPaid'
  BY <1>14 DEF ReinitPayment, OneDocument, Nothing
<1>15. ASSUME NEW o \in Orders, PawapayDeposit(o)
      PROVE  CompletedWasPaid'
  <2>1. page \notin {"hosted", "received"}
    BY <1>15 DEF PawapayDeposit, Blank, OneDocument
  <2>2. UNCHANGED <<status, paidInFull>>
    BY <1>15 DEF PawapayDeposit
  <2>3. CASE Accepted(o) \/ Refused(o) \/ Redirected(o)
    BY <2>1, <2>2, <2>3, DepositKeeps, NoFormTyped DEF OneDocument, Nothing
  <2>4. QED BY <1>15, <2>3 DEF PawapayDeposit
<1>16. ASSUME NEW o \in Orders, SoftpayDeposit(o)
      PROVE  CompletedWasPaid'
  <2>1. page \notin {"hosted", "received"}
    BY <1>16 DEF SoftpayDeposit, Blank, OneDocument
  <2>2. UNCHANGED <<status, paidInFull>>
    BY <1>16 DEF SoftpayDeposit
  <2>3. CASE Accepted(o) \/ Refused(o) \/ Redirected(o)
    BY <2>1, <2>2, <2>3, DepositKeeps, NoFormTyped DEF OneDocument, Nothing
  <2>4. CASE /\ form' = [form EXCEPT ![o].stage = "idle", ![o].otp = Mounted(o)]
             /\ UNCHANGED <<due, checkout, polls, timers, returned>>
    <3>1. \A x \in Orders : x # o => form'[x] = form[x]
      BY <2>4
    <3>2. QED BY <2>1, <2>2, <2>4, <3>1 DEF OneDocument, Nothing
  <2>5. QED BY <1>16, <2>3, <2>4 DEF SoftpayDeposit
<1>17. ASSUME NEW o \in Orders, handleWizallConfirm(o)
      PROVE  CompletedWasPaid'
  BY <1>17 DEF handleWizallConfirm, Mounted, OneDocument, Nothing
<1>18. ASSUME NEW o \in Orders, WizallAnswer(o)
      PROVE  CompletedWasPaid'
  <2>1. page \notin {"hosted", "received"}
    BY <1>18 DEF WizallAnswer, Blank, OneDocument
  <2>2. UNCHANGED <<status, paidInFull>>
    BY <1>18 DEF WizallAnswer
  <2>3. CASE Accepted(o) \/ Refused(o) \/ Redirected(o)
    BY <2>1, <2>2, <2>3, DepositKeeps, NoFormTyped DEF OneDocument, Nothing
  <2>4. QED BY <1>18, <2>3 DEF WizallAnswer
<1>19. ASSUME NEW o \in Orders, Tick(o)
      PROVE  CompletedWasPaid'
  BY <1>19 DEF Tick, OneDocument, Nothing
<1>20. ASSUME NEW o \in Orders, CustomerPays(o)
      PROVE  CompletedWasPaid'
  BY <1>20 DEF CustomerPays, OneDocument, Nothing
<1>21. ASSUME NEW o \in Orders, OrderMoves(o)
      PROVE  CompletedWasPaid'
  BY <1>21, ZenonT(40) DEF OrderMoves, NextStatus, OneDocument, Nothing
<1>22. ASSUME NEW p \in polls, ConfirmRoute(p)
      PROVE  CompletedWasPaid'
  BY <1>22 DEF ConfirmRoute, RouteAnswers, Verdict, OneDocument, Nothing
<1>23. ASSUME NEW p \in polls, PollAnswer(p)
      PROVE  CompletedWasPaid'
  BY <1>23 DEF PollAnswer, PaymentSuccess, PaymentFailure, CheckoutSteps, OneDocument, Nothing
<1>24. ASSUME NEW p \in polls, PollLost(p)
      PROVE  CompletedWasPaid'
  BY <1>24 DEF PollLost, OneDocument, Nothing
<1>25. ASSUME ReturnFromHosted
      PROVE  CompletedWasPaid'
  BY <1>25 DEF ReturnFromHosted, Navigate, OneDocument, Nothing
<1>26. ASSUME ReceivedRoute
      PROVE  CompletedWasPaid'
  BY <1>26 DEF ReceivedRoute, RouteAnswers, Verdict, OneDocument, Nothing
<1>27. ASSUME ReceivedAnswer
      PROVE  CompletedWasPaid'
  BY <1>27 DEF ReceivedAnswer, Verdicts, OneDocument, Nothing
<1>28. ASSUME ReceivedLost
      PROVE  CompletedWasPaid'
  BY <1>28 DEF ReceivedLost, OneDocument, Nothing
<1>29. ASSUME ReceivedAgain
      PROVE  CompletedWasPaid'
  BY <1>29 DEF ReceivedAgain, OneDocument, Nothing
<1>30. ASSUME ReceivedLeft
      PROVE  CompletedWasPaid'
  BY <1>30 DEF ReceivedLeft, Navigate, OneDocument, Nothing
<1>31. CASE UNCHANGED payVars
  BY <1>31 DEF payVars
<1>32. QED
  BY <1>1, <1>2, <1>3, <1>4, <1>5, <1>6, <1>7, <1>8, <1>9, <1>10, <1>11, <1>12, <1>13, <1>14, <1>15, <1>16, <1>17, <1>18, <1>19, <1>20, <1>21, <1>22, <1>23, <1>24, <1>25, <1>26, <1>27, <1>28, <1>29, <1>30, <1>31 DEF PayNext

LEMMA ThankedStep == PayTypeOK /\ OneDocument /\ CompletedWasPaid /\ ThankedOncePaid /\ [PayNext]_payVars => ThankedOncePaid'
<1> SUFFICES ASSUME PayTypeOK /\ OneDocument /\ CompletedWasPaid /\ ThankedOncePaid, [PayNext]_payVars
             PROVE  ThankedOncePaid'
  OBVIOUS
<1> USE DEF PayTypeOK, ThankedOncePaid, backend, checkout, mobile, returned
<1>1. ASSUME GatewaysAnswer
      PROVE  ThankedOncePaid'
  BY <1>1 DEF GatewaysAnswer, OneDocument, CompletedWasPaid, CheckoutSteps, Nothing
<1>2. ASSUME processFinalOrder
      PROVE  ThankedOncePaid'
  BY <1>2 DEF processFinalOrder, OneDocument, CompletedWasPaid, CheckoutSteps, Nothing
<1>3. ASSUME NEW o \in Orders, NEW ready \in BOOLEAN, OrderAnswer(o, ready)
      PROVE  ThankedOncePaid'
  BY <1>3 DEF OrderAnswer, CreateOrder, CheckoutSteps, OneDocument, CompletedWasPaid, CheckoutSteps, Nothing
<1>4. ASSUME OrderError
      PROVE  ThankedOncePaid'
  BY <1>4 DEF OrderError, CreateOrder, OneDocument, CompletedWasPaid, CheckoutSteps, Nothing
<1>5. ASSUME Leave
      PROVE  ThankedOncePaid'
  BY <1>5 DEF Leave, CheckoutSteps, OneDocument, CompletedWasPaid, CheckoutSteps, Nothing
<1>6. ASSUME Enter
      PROVE  ThankedOncePaid'
  BY <1>6 DEF Enter, OneDocument, CompletedWasPaid, CheckoutSteps, Nothing
<1>7. ASSUME ModifyInfo
      PROVE  ThankedOncePaid'
  BY <1>7 DEF ModifyInfo, Shown, OneDocument, CompletedWasPaid, CheckoutSteps, Nothing
<1>8. ASSUME BackFromCard
      PROVE  ThankedOncePaid'
  BY <1>8 DEF BackFromCard, OneDocument, CompletedWasPaid, CheckoutSteps, Nothing
<1>9. ASSUME BackToShop
      PROVE  ThankedOncePaid'
  BY <1>9 DEF BackToShop, OrderComplete, OneDocument, CompletedWasPaid, CheckoutSteps, Nothing
<1>10. ASSUME TimerFires
      PROVE  ThankedOncePaid'
  BY <1>10 DEF TimerFires, OrderComplete, OneDocument, CompletedWasPaid, CheckoutSteps, Nothing
<1>11. ASSUME CardConfirmed
      PROVE  ThankedOncePaid'
  BY <1>11 DEF CardConfirmed, Navigate, OneDocument, CompletedWasPaid, CheckoutSteps, Nothing
<1>12. ASSUME NEW o \in Orders, NEW choice \in Aggregators, handleSubmit(o, choice)
      PROVE  ThankedOncePaid'
  BY <1>12 DEF handleSubmit, Mounted, OneDocument, CompletedWasPaid, CheckoutSteps, Nothing
<1>13. ASSUME NEW o \in Orders, SwitchProvider(o)
      PROVE  ThankedOncePaid'
  BY <1>13 DEF SwitchProvider, OneDocument, CompletedWasPaid, CheckoutSteps, Nothing
<1>14. ASSUME NEW o \in Orders, ReinitPayment(o)
      PROVE  ThankedOncePaid'
  BY <1>14 DEF ReinitPayment, OneDocument, CompletedWasPaid, CheckoutSteps, Nothing
<1>15. ASSUME NEW o \in Orders, PawapayDeposit(o)
      PROVE  ThankedOncePaid'
  <2>1. page \notin {"hosted", "received"}
    BY <1>15 DEF PawapayDeposit, Blank, OneDocument
  <2>2. UNCHANGED <<status, paidInFull, emptied>>
    BY <1>15 DEF PawapayDeposit
  <2>3. CASE Accepted(o) \/ Refused(o) \/ Redirected(o)
    BY <2>1, <2>2, <2>3, DepositKeeps DEF OneDocument, Nothing
  <2>4. QED BY <1>15, <2>3 DEF PawapayDeposit
<1>16. ASSUME NEW o \in Orders, SoftpayDeposit(o)
      PROVE  ThankedOncePaid'
  <2>1. page \notin {"hosted", "received"}
    BY <1>16 DEF SoftpayDeposit, Blank, OneDocument
  <2>2. UNCHANGED <<status, paidInFull, emptied>>
    BY <1>16 DEF SoftpayDeposit
  <2>3. CASE Accepted(o) \/ Refused(o) \/ Redirected(o)
    BY <2>1, <2>2, <2>3, DepositKeeps DEF OneDocument, Nothing
  <2>4. CASE /\ form' = [form EXCEPT ![o].stage = "idle", ![o].otp = Mounted(o)]
             /\ UNCHANGED <<due, checkout, polls, timers, returned>>
    BY <2>2, <2>4
  <2>5. QED BY <1>16, <2>3, <2>4 DEF SoftpayDeposit
<1>17. ASSUME NEW o \in Orders, handleWizallConfirm(o)
      PROVE  ThankedOncePaid'
  BY <1>17 DEF handleWizallConfirm, Mounted, OneDocument, CompletedWasPaid, CheckoutSteps, Nothing
<1>18. ASSUME NEW o \in Orders, WizallAnswer(o)
      PROVE  ThankedOncePaid'
  BY <1>18 DEF WizallAnswer, Accepted, Refused, OneDocument, CompletedWasPaid, CheckoutSteps, Nothing
<1>19. ASSUME NEW o \in Orders, Tick(o)
      PROVE  ThankedOncePaid'
  BY <1>19 DEF Tick, OneDocument, CompletedWasPaid, CheckoutSteps, Nothing
<1>20. ASSUME NEW o \in Orders, CustomerPays(o)
      PROVE  ThankedOncePaid'
  BY <1>20 DEF CustomerPays, OneDocument, CompletedWasPaid, CheckoutSteps, Nothing
<1>21. ASSUME NEW o \in Orders, OrderMoves(o)
      PROVE  ThankedOncePaid'
  BY <1>21 DEF OrderMoves, NextStatus, OneDocument, CompletedWasPaid, CheckoutSteps, Nothing
<1>22. ASSUME NEW p \in polls, ConfirmRoute(p)
      PROVE  ThankedOncePaid'
  BY <1>22 DEF ConfirmRoute, OneDocument, CompletedWasPaid, CheckoutSteps, Nothing
<1>23. ASSUME NEW p \in polls, PollAnswer(p)
      PROVE  ThankedOncePaid'
  <2>1. p.order \in Orders /\ p.answer \in Verdicts
    BY <1>23 DEF PollAnswer
  <2>2. UNCHANGED <<paidInFull, ours, emptied, outcome, at>>
    BY <1>23 DEF PollAnswer
  <2>3. CASE PaymentSuccess(p.order) /\ p.answer = "completed"
    BY <2>1, <2>2, <2>3 DEF PaymentSuccess, CompletedWasPaid
  <2>4. CASE UNCHANGED <<page, timers>>
    BY <2>2, <2>4
  <2>5. QED BY <1>23, <2>1, <2>3, <2>4 DEF PollAnswer, PaymentFailure, Verdicts
<1>24. ASSUME NEW p \in polls, PollLost(p)
      PROVE  ThankedOncePaid'
  BY <1>24 DEF PollLost, OneDocument, CompletedWasPaid, CheckoutSteps, Nothing
<1>25. ASSUME ReturnFromHosted
      PROVE  ThankedOncePaid'
  BY <1>25 DEF ReturnFromHosted, Navigate, OneDocument, CompletedWasPaid, CheckoutSteps, Nothing
<1>26. ASSUME ReceivedRoute
      PROVE  ThankedOncePaid'
  BY <1>26 DEF ReceivedRoute, OneDocument, CompletedWasPaid, CheckoutSteps, Nothing
<1>27. ASSUME ReceivedAnswer
      PROVE  ThankedOncePaid'
  BY <1>27 DEF ReceivedAnswer, Verdicts, OneDocument, CompletedWasPaid, CheckoutSteps, Nothing
<1>28. ASSUME ReceivedLost
      PROVE  ThankedOncePaid'
  BY <1>28 DEF ReceivedLost, OneDocument, CompletedWasPaid, CheckoutSteps, Nothing
<1>29. ASSUME ReceivedAgain
      PROVE  ThankedOncePaid'
  BY <1>29 DEF ReceivedAgain, OneDocument, CompletedWasPaid, CheckoutSteps, Nothing
<1>30. ASSUME ReceivedLeft
      PROVE  ThankedOncePaid'
  BY <1>30 DEF ReceivedLeft, Navigate, OneDocument, CompletedWasPaid, CheckoutSteps, Nothing
<1>31. CASE UNCHANGED payVars
  BY <1>31 DEF payVars
<1>32. QED
  BY <1>1, <1>2, <1>3, <1>4, <1>5, <1>6, <1>7, <1>8, <1>9, <1>10, <1>11, <1>12, <1>13, <1>14, <1>15, <1>16, <1>17, <1>18, <1>19, <1>20, <1>21, <1>22, <1>23, <1>24, <1>25, <1>26, <1>27, <1>28, <1>29, <1>30, <1>31 DEF PayNext

LEMMA WaitingStep == PayTypeOK /\ OneDocument /\ ShownOnce /\ WaitingIsPolled /\ [PayNext]_payVars => WaitingIsPolled'
<1> SUFFICES ASSUME PayTypeOK /\ OneDocument /\ ShownOnce /\ WaitingIsPolled, [PayNext]_payVars
             PROVE  WaitingIsPolled'
  OBVIOUS
<1> USE DEF PayTypeOK, WaitingIsPolled, Mounted, backend, checkout, mobile, returned
<1>1. ASSUME GatewaysAnswer
      PROVE  WaitingIsPolled'
  BY <1>1 DEF GatewaysAnswer
<1>2. ASSUME processFinalOrder
      PROVE  WaitingIsPolled'
  BY <1>2 DEF processFinalOrder
<1>3. ASSUME NEW o \in Orders, NEW ready \in BOOLEAN, OrderAnswer(o, ready)
      PROVE  WaitingIsPolled'
  <2>1. Blank(form[o]) /\ UNCHANGED form /\ ~showForm
    BY <1>3 DEF OrderAnswer, CreateOrder, ShownOnce
  <2>2. showForm' => created' = o
    BY <1>3, <2>1 DEF OrderAnswer
  <2>3. ~form[o].waiting /\ ~form[o].timer
    BY <2>1 DEF Blank
  <2>4. form[o].waiting = form[o].timer
    BY <2>3 DEF Form
  <2>5. QED BY <2>1, <2>2, <2>4
<1>4. ASSUME OrderError
      PROVE  WaitingIsPolled'
  BY <1>4 DEF OrderError, CreateOrder
<1>5. ASSUME Leave
      PROVE  WaitingIsPolled'
  BY <1>5 DEF Leave, CheckoutSteps
<1>6. ASSUME Enter
      PROVE  WaitingIsPolled'
  BY <1>6 DEF Enter, OneDocument, CheckoutSteps
<1>7. ASSUME ModifyInfo
      PROVE  WaitingIsPolled'
  BY <1>7 DEF ModifyInfo, Shown
<1>8. ASSUME BackFromCard
      PROVE  WaitingIsPolled'
  BY <1>8 DEF BackFromCard, ShownOnce
<1>9. ASSUME BackToShop
      PROVE  WaitingIsPolled'
  BY <1>9 DEF BackToShop, OrderComplete
<1>10. ASSUME TimerFires
      PROVE  WaitingIsPolled'
  BY <1>10 DEF TimerFires, OrderComplete
<1>11. ASSUME CardConfirmed
      PROVE  WaitingIsPolled'
  BY <1>11 DEF CardConfirmed, Navigate
<1>12. ASSUME NEW o \in Orders, NEW choice \in Aggregators, handleSubmit(o, choice)
      PROVE  WaitingIsPolled'
  BY <1>12 DEF handleSubmit, Mounted
<1>13. ASSUME NEW o \in Orders, SwitchProvider(o)
      PROVE  WaitingIsPolled'
  BY <1>13 DEF SwitchProvider
<1>14. ASSUME NEW o \in Orders, ReinitPayment(o)
      PROVE  WaitingIsPolled'
  BY <1>14 DEF ReinitPayment
<1>15. ASSUME NEW o \in Orders, PawapayDeposit(o)
      PROVE  WaitingIsPolled'
  <2>1. CASE Accepted(o)
    BY <2>1, PollingTyped DEF Accepted
  <2>2. CASE Refused(o)
    BY <2>2 DEF Refused, Form
  <2>3. CASE Redirected(o)
    BY <2>3 DEF Redirected, Navigate
  <2>4. QED BY <1>15, <2>1, <2>2, <2>3 DEF PawapayDeposit
<1>16. ASSUME NEW o \in Orders, SoftpayDeposit(o)
      PROVE  WaitingIsPolled'
  <2>1. CASE Accepted(o)
    BY <2>1, PollingTyped DEF Accepted
  <2>2. CASE Refused(o)
    BY <2>2 DEF Refused, Form
  <2>3. CASE Redirected(o)
    BY <2>3 DEF Redirected, Navigate
  <2>4. CASE /\ form' = [form EXCEPT ![o].stage = "idle", ![o].otp = Mounted(o)]
             /\ UNCHANGED <<due, checkout, polls, timers, returned>>
    BY <2>4 DEF Form
  <2>5. QED BY <1>16, <2>1, <2>2, <2>3, <2>4 DEF SoftpayDeposit
<1>17. ASSUME NEW o \in Orders, handleWizallConfirm(o)
      PROVE  WaitingIsPolled'
  BY <1>17 DEF handleWizallConfirm, Mounted
<1>18. ASSUME NEW o \in Orders, WizallAnswer(o)
      PROVE  WaitingIsPolled'
  <2>1. CASE Accepted(o)
    BY <2>1, PollingTyped DEF Accepted
  <2>2. CASE Refused(o)
    BY <2>2 DEF Refused, Form
  <2>3. QED BY <1>18, <2>1, <2>2 DEF WizallAnswer
<1>19. ASSUME NEW o \in Orders, Tick(o)
      PROVE  WaitingIsPolled'
  BY <1>19 DEF Tick
<1>20. ASSUME NEW o \in Orders, CustomerPays(o)
      PROVE  WaitingIsPolled'
  BY <1>20 DEF CustomerPays
<1>21. ASSUME NEW o \in Orders, OrderMoves(o)
      PROVE  WaitingIsPolled'
  BY <1>21 DEF OrderMoves
<1>22. ASSUME NEW p \in polls, ConfirmRoute(p)
      PROVE  WaitingIsPolled'
  BY <1>22 DEF ConfirmRoute
<1>23. ASSUME NEW p \in polls, PollAnswer(p)
      PROVE  WaitingIsPolled'
  <2>1. p.order \in Orders /\ p.answer \in Verdicts
    BY <1>23 DEF PollAnswer
  <2>2. UNCHANGED <<created, showForm>>
    BY <1>23 DEF PollAnswer
  <2>3. CASE PaymentFailure(p.order)
    <3>1. form'[p.order].waiting = form'[p.order].timer
      BY <2>1, <2>3, ZenonT(40) DEF PaymentFailure, Form
    <3>2. \A x \in Orders : x # p.order => form'[x] = form[x]
      BY <2>1, <2>3 DEF PaymentFailure
    <3>3. QED BY <2>2, <2>3, <3>1, <3>2 DEF PaymentFailure
  <2>4. CASE PaymentSuccess(p.order)
    <3> DEFINE f == [form EXCEPT ![p.order].timer = FALSE]
    <3>1. f \in [Orders -> Form] /\ \A x \in Orders : x # p.order => f[x] = form[x]
      BY <2>1, ClearedTyped
    <3>2. PICK y : /\ form' = Unmounted(f, y)
                   /\ page \in CheckoutSteps /\ p.order \in ours
                      => page' = "confirm"
                   /\ ~(page \in CheckoutSteps /\ p.order \in ours)
                      => page' = page /\ y = NoOrder
      BY <2>4 DEF PaymentSuccess
    <3> HIDE DEF f
    <3>3. SUFFICES ASSUME NEW x \in Orders, Mounted(x)'
                   PROVE  form'[x].waiting = form'[x].timer
      OBVIOUS
    <3>4. page = "form" /\ page' = page /\ created = x /\ showForm
          /\ p.order \notin ours /\ y = NoOrder
      BY <2>2, <3>2, <3>3 DEF CheckoutSteps
    <3>5. x # p.order /\ x # NoOrder
      BY <3>4, NoOrderIsNone DEF OneDocument
    <3>6. form'[x] = form[x]
      BY <3>1, <3>2, <3>4, <3>5, UnmountedKeeps
    <3>7. QED BY <3>4, <3>6
  <2>5. QED BY <1>23, <2>1, <2>3, <2>4 DEF PollAnswer, Verdicts
<1>24. ASSUME NEW p \in polls, PollLost(p)
      PROVE  WaitingIsPolled'
  BY <1>24 DEF PollLost
<1>25. ASSUME ReturnFromHosted
      PROVE  WaitingIsPolled'
  BY <1>25 DEF ReturnFromHosted, Navigate
<1>26. ASSUME ReceivedRoute
      PROVE  WaitingIsPolled'
  BY <1>26 DEF ReceivedRoute
<1>27. ASSUME ReceivedAnswer
      PROVE  WaitingIsPolled'
  BY <1>27 DEF ReceivedAnswer, Verdicts
<1>28. ASSUME ReceivedLost
      PROVE  WaitingIsPolled'
  BY <1>28 DEF ReceivedLost
<1>29. ASSUME ReceivedAgain
      PROVE  WaitingIsPolled'
  BY <1>29 DEF ReceivedAgain
<1>30. ASSUME ReceivedLeft
      PROVE  WaitingIsPolled'
  BY <1>30 DEF ReceivedLeft, Navigate
<1>31. CASE UNCHANGED payVars
  BY <1>31 DEF payVars
<1>32. QED
  BY <1>1, <1>2, <1>3, <1>4, <1>5, <1>6, <1>7, <1>8, <1>9, <1>10, <1>11, <1>12, <1>13, <1>14, <1>15, <1>16, <1>17, <1>18, <1>19, <1>20, <1>21, <1>22, <1>23, <1>24, <1>25, <1>26, <1>27, <1>28, <1>29, <1>30, <1>31 DEF PayNext

-----------------------------------------------------------------------------
(* The invariant and the theorems *)

LEMMA PayInitInv == PayInit => PayInv
<1> SUFFICES ASSUME PayInit
             PROVE  PayInv
  OBVIOUS
<1> USE NoFormTyped, NoOrderIsNone DEF PayInit, Nothing
<1>1. PayTypeOK
  <2>1. 0 \in 0 .. MaxTimers /\ 0 \in 0 .. 5
    BY PayflowAssumption
  <2>2. QED BY <2>1 DEF PayTypeOK, Statuses, Row, Aggregators, CheckoutSteps
<1>2. CompletedWasPaid
  BY DEF CompletedWasPaid
<1>3. OneDocument
  BY DEF OneDocument, CheckoutSteps
<1>4. ThankedOncePaid
  BY DEF ThankedOncePaid
<1>5. ShownOnce
  BY DEF ShownOnce
<1>6. WaitingIsPolled
  BY DEF WaitingIsPolled, Mounted
<1>7. QED BY <1>1, <1>2, <1>3, <1>4, <1>5, <1>6 DEF PayInv

LEMMA PayInvStep == PayInv /\ [PayNext]_payVars => PayInv'
  BY TypeStep, DocumentStep, ShownStep, CompletedStep, ThankedStep,
     WaitingStep DEF PayInv

\* The state of the checkout, of its forms and of order-received keeps its
\* shape through every interleaving of answers, timers and navigation.
THEOREM PayTypeCorrect == PaySpec => []PayTypeOK
<1>1. PayInv => PayTypeOK
  BY DEF PayInv
<1>2. QED BY <1>1, PayInitInv, PayInvStep, PTL DEF PaySpec

\* For every number of orders made from one basket, the confirmation, "Merci
\* pour votre achat" and the empty cart come after a complete payment: late
\* answers, timers of a checkout that was left and reloads included.
THEOREM ThankedOnlyOncePaid == PaySpec => []ThankedOncePaid
<1>1. PayInv => ThankedOncePaid
  BY DEF PayInv
<1>2. QED BY <1>1, PayInitInv, PayInvStep, PTL DEF PaySpec

\* The form on the screen says it waits exactly while its interval runs,
\* whichever form, and after whichever refusals and late answers.
THEOREM WaitingFormIsPolled == PaySpec => []WaitingIsPolled
<1>1. PayInv => WaitingIsPolled
  BY DEF PayInv
<1>2. QED BY <1>1, PayInitInv, PayInvStep, PTL DEF PaySpec

=============================================================================
