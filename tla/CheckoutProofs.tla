--------------------------- MODULE CheckoutProofs ---------------------------
(***************************************************************************)
(* order-svc and payment-svc together implement Settlement, for every      *)
(* number of groups, sub-orders, workers and sessions.  The invariants of  *)
(* each service alone hold of both: they meet in the topics, of which      *)
(* these invariants know only the types, and in the confirmation of a      *)
(* group.  So what each promises alone, both keep together.                *)
(***************************************************************************)
EXTENDS Checkout, OrdersProofs, PaymentsProofs

-----------------------------------------------------------------------------
(* What each service keeps, alone or not *)

OrdersPart == OrdersTypedInv /\ ClerkSaw /\ OnceInv
PaymentsPart == TypedInv /\ EarnedInv

\* A step of one service leaves what the other keeps alone.
LEMMA OrdersUntouched ==
    ASSUME OrdersPart, UNCHANGED ordersOnly, TopicsTypeOK'
    PROVE  OrdersPart'
<1>1. UNCHANGED <<order, unpublished, aged, reaper, confirms, reopens, clerk,
                  stock, cancels, staff>>
  BY DEF ordersOnly, backOffice, clerkVars
<1>2. OrdersTypedInv'
  BY <1>1 DEF OrdersPart, OrdersTypedInv, OrdersTypeOK, BusyClerk, ReaperPicksLate,
     StagesInSync, Status
<1>3. ClerkSaw' /\ OnceInv'
  BY <1>1 DEF OrdersPart, ClerkSaw, OnceInv, BornTogether, PendingIsReopened,
     ConfirmedAtMostOnce, Status
<1>4. QED BY <1>2, <1>3 DEF OrdersPart

LEMMA PaymentsUntouched ==
    ASSUME PaymentsPart, UNCHANGED paymentsOnly, TopicsTypeOK'
    PROVE  PaymentsPart'
<1>1. UNCHANGED <<pay, pw, sess, hooks, switches, credits>>
  BY DEF paymentsOnly
<1>2. TypedInv'
  BY <1>1 DEF PaymentsPart, TypedInv, PaymentsTypeOK, BusyGrouped
<1>3. EarnedInv'
  BY <1>1 DEF PaymentsPart, EarnedInv, HooksTrue, RefsOwned, SavesOwned, ApplyEarned,
     ConfirmedMeansPaid, PayStatus
<1>4. QED BY <1>2, <1>3 DEF PaymentsPart

LEMMA OrdersMoved ==
    ASSUME OrdersPart, OrdersNext
    PROVE  OrdersPart' /\ TopicsTypeOK'
<1>1. OrdersPart'
  BY OrdersTypedStep, ClerkSawStep, OnceStep DEF OrdersPart
<1>2. QED BY <1>1 DEF OrdersPart, OrdersTypedInv, OrdersTypeOK

LEMMA PaymentsMoved ==
    ASSUME PaymentsPart, PaymentsNext
    PROVE  PaymentsPart' /\ TopicsTypeOK'
<1>1. PaymentsPart'
  BY TypedStep, EarnedStep DEF PaymentsPart
<1>2. QED BY <1>1 DEF PaymentsPart, TypedInv, PaymentsTypeOK

\* What the answer of order-svc does to the worker that asked.
LEMMA AnswerEffect ==
    ASSUME TypedInv, NEW w \in Workers, NEW ids \in SUBSET Subs, CallConfirm(w, ids)
    PROVE  /\ OthersKeep(w)
           /\ \/ ids = {} /\ pw'[w] = Idle
              \/ pw'[w].pc = "credit" /\ pw'[w].todo = ids
           /\ pw'[w] \in Worker
           /\ pw'[w].pc # "idle" => pw'[w].group \in Groups
<1> DEFINE r == [pw[w] EXCEPT !.pc = "credit", !.todo = ids]
<1>1. WorkersOK
  BY TypedWorkers
<1>2. /\ r.pc = "credit" /\ r.todo = ids /\ r.group = pw[w].group
      /\ r \in Worker
  BY <1>1 DEF WorkersOK, Worker
<1>3. pw[w].group \in Groups
  BY <1>1 DEF CallConfirm, At, WorkersOK, BusyGrouped
<1>4. pw' = [pw EXCEPT ![w] = IF ids = {} THEN Idle ELSE r]
  BY DEF CallConfirm
<1> HIDE DEF r
<1>5. pw'[w] = IF ids = {} THEN Idle ELSE r
  BY <1>1, <1>4, WriteEffect
<1>6. OthersKeep(w)
  BY <1>1, <1>4, WriteEffect
<1>7. Idle \in Worker /\ Idle.pc = "idle"
  BY RowsTyped DEF Idle
<1>8. QED BY <1>2, <1>3, <1>5, <1>6, <1>7

LEMMA AnswerKeeps ==
    ASSUME PaymentsPart, TopicsTypeOK', NEW w \in Workers, NEW ids \in SUBSET Subs,
           CallConfirm(w, ids)
    PROVE  PaymentsPart'
<1>1. TypedInv /\ EarnedInv /\ WorkersOK
  BY TypedWorkers DEF PaymentsPart
<1>2. /\ UNCHANGED <<pay, sess, hooks, switches, credits>>
      /\ pw' \in [Workers -> Worker]
  <2>1. pw' \in [Workers -> Worker]
    <3>1. \A v \in Workers : pw'[v] \in Worker
      BY <1>1, AnswerEffect DEF OthersKeep, WorkersOK
    <3>2. \E r : pw' = [pw EXCEPT ![w] = r]
      BY DEF CallConfirm
    <3>3. QED BY <1>1, <3>1, <3>2 DEF WorkersOK
  <2>2. QED BY <2>1 DEF CallConfirm
<1>3. BusyGrouped'
  BY <1>1, AnswerEffect DEF OthersKeep, WorkersOK, BusyGrouped
<1>4. TypedInv'
  BY <1>1, <1>2, <1>3 DEF TypedInv, PaymentsTypeOK
<1>5. Forgets
  <2>1. pw'[w].pc \in {"idle", "credit"}
    BY <1>1, AnswerEffect DEF Idle
  <2>2. OthersKeep(w)
    BY <1>1, AnswerEffect
  <2>3. QED BY <2>1, <2>2 DEF Forgets, OthersKeep
<1>6. EarnedInv'
  BY <1>1, <1>2, <1>5, EarnedUndisturbed DEF SessGrow, HooksTrue, EarnedInv
<1>7. QED BY <1>4, <1>6 DEF PaymentsPart

-----------------------------------------------------------------------------
(* What binds the two services *)

\* A worker that calls order-svc does so for a group that has been charged.
NotifyEarned ==
    \A w \in Workers : pw[w].pc = "notify" => pw[w].group \in ChargedGroups

\* The workers that are still to credit the vendor of s.
Owed(s) == {w \in Workers : pw[w].pc = "credit" /\ s \in pw[w].todo}

\* Every credit given or still to be given stands for a confirmation.
CreditsCovered ==
    \A s \in Subs : /\ IsFiniteSet(Owed(s))
                    /\ credits[s] + Cardinality(Owed(s)) <= confirms[s]

CheckoutInv == OrdersPart /\ PaymentsPart /\ NotifyEarned /\ CreditsCovered

LEMMA CheckoutInitInv == CheckoutInit => CheckoutInv
<1> SUFFICES ASSUME CheckoutInit PROVE CheckoutInv
  OBVIOUS
<1>1. OrdersPart
  BY OrdersTypedInit, ClerkSawInit, OnceInit DEF CheckoutInit, OrdersPart
<1>2. PaymentsPart
  BY TypedInit, EarnedInit DEF CheckoutInit, PaymentsPart
<1>3. \A w \in Workers : pw[w].pc = "idle"
  BY DEF CheckoutInit, PaymentsInit, Idle
<1>4. \A s \in Subs : Owed(s) = {} /\ credits[s] = 0 /\ confirms[s] = 0
  BY <1>3 DEF Owed, CheckoutInit, PaymentsInit, OrdersInit
<1>5. QED BY <1>1, <1>2, <1>3, <1>4, FS_EmptySet
          DEF CheckoutInv, NotifyEarned, CreditsCovered

-----------------------------------------------------------------------------
(* What a step of payment-svc does to the customers' money and to workers *)

\* The sessions that have been paid are the same, for the same groups.
SamePaid ==
    \A x \in Sessions :
        /\ sess'[x].state = "paid" <=> sess[x].state = "paid"
        /\ sess[x].state = "paid" => sess'[x].group = sess[x].group

LEMMA SamePaidSameCharged == ASSUME SamePaid PROVE ChargedGroups' = ChargedGroups
  BY DEF SamePaid, ChargedGroups

LEMMA OpenIsUnpaid ==
    ASSUME TypedInv, NEW w \in Workers, NEW x \in Sessions, Open(w, x)
    PROVE  SamePaid
  BY SessTyped DEF Open, SamePaid, Session

\* Only the customer who pays a session makes a group a charged one.
LEMMA ChargeOnly ==
    ASSUME TypedInv, PaymentsInternal
    PROVE  \/ ChargedGroups' = ChargedGroups
           \/ \E g \in Groups : ChargedGroups' = ChargedGroups \cup {g}
<1>0. sess \in [Sessions -> Session]
  BY SessTyped
<1>1. ASSUME NEW w \in Workers, NEW x \in Sessions, CallOk(w, x) \/ CallLost(w, x)
      PROVE  SamePaid
  BY <1>1, OpenIsUnpaid DEF CallOk, CallLost
<1>2. ASSUME NEW w \in Workers, NEW hasLink \in BOOLEAN, Save(w, hasLink)
      PROVE  SamePaid
  <2>1. sess' = [sess EXCEPT ![pw[w].ref].state = IF @ = "made" THEN "open" ELSE @]
    BY <1>2 DEF Save
  <2>2. QED BY <1>0, <2>1 DEF SamePaid, Session
<1>3. ASSUME NEW x \in Sessions, ProviderPay(x)
      PROVE  \/ ChargedGroups' = ChargedGroups
             \/ \E g \in Groups : ChargedGroups' = ChargedGroups \cup {g}
  <2>1. /\ sess'[x].state = "paid" /\ sess'[x].group = sess[x].group
        /\ \A y \in Sessions \ {x} : sess'[y] = sess[y]
    BY <1>0, <1>3 DEF ProviderPay, Session
  <2>2. CASE sess[x].group \in Groups
    <3>1. ChargedGroups' = ChargedGroups \cup {sess[x].group}
      BY <2>1, <2>2 DEF ChargedGroups
    <3>2. QED BY <2>2, <3>1
  <2>3. CASE sess[x].group \notin Groups
    BY <2>1, <2>3 DEF ChargedGroups
  <2>4. QED BY <2>2, <2>3
<1>4. ASSUME NEW x \in Sessions, ProviderFail(x)
      PROVE  SamePaid
  BY <1>0, <1>4 DEF ProviderFail, SamePaid, Session
<1>5. ASSUME UNCHANGED sess
      PROVE  SamePaid
  BY <1>5 DEF SamePaid
<1>6. QED
  BY <1>1, <1>2, <1>3, <1>4, <1>5, SamePaidSameCharged
     DEF PaymentsInternal, KafkaInsert, Mark, InitRead, Lock, LockDenied, CallFail,
         Fail, switchPaymentProvider, Webhook, ConfirmPayment, markFailed,
         creditVendorWallet, Abandon

\* A worker goes somewhere else than to order-svc and to the vendors, or dies.
Aside(w) == OthersKeep(w) /\ pw'[w].pc \notin {"notify", "credit"}

\* Only confirmPayment sends a worker to order-svc, and only a credit adds one.
LEMMA WorkerMoves ==
    ASSUME TypedInv, PaymentsInternal
    PROVE  \/ \E w \in Workers : ConfirmPayment(w)
           \/ \E w \in Workers, s \in Subs, done \in BOOLEAN :
                  creditVendorWallet(w, s, done)
           \/ credits' = credits /\ (pw' = pw \/ \E w \in Workers : Aside(w))
<1>0. WorkersOK
  BY TypedWorkers
<1>1. ASSUME NEW w \in Workers, NEW s \in Subs, NEW reached \in BOOLEAN,
             KafkaInsert(w, s, reached)
      PROVE  credits' = credits /\ Aside(w)
  <2> DEFINE g == GroupOf[s]
             r == [Idle EXCEPT !.pc = IF /\ PayStatus(g) = "absent"
                                         /\ MethodOf[g] = "paydunya"
                                      THEN "lock" ELSE "mark",
                               !.via = "kafka", !.group = g, !.sub = s,
                               !.provider = MethodOf[g]]
  <2>1. r.pc \in {"lock", "mark"}
    BY DEF Idle
  <2>2. pw' = [pw EXCEPT ![w] = r] /\ credits' = credits
    BY <1>1 DEF KafkaInsert
  <2> HIDE DEF r
  <2>3. QED BY <1>0, <2>1, <2>2, WriteEffect DEF Aside
<1>2. ASSUME NEW w \in Workers, NEW g \in Groups, NEW operator \in BOOLEAN,
             InitRead(w, g, operator)
      PROVE  credits' = credits /\ Aside(w)
  <2> DEFINE r == [Idle EXCEPT
                      !.pc = IF pay[g].provider = "stripe" THEN "call" ELSE "lock",
                      !.via = "init", !.group = g, !.provider = pay[g].provider]
  <2>1. r.pc \in {"call", "lock"}
    BY DEF Idle
  <2>2. pw' = [pw EXCEPT ![w] = r] /\ credits' = credits
    BY <1>2 DEF InitRead
  <2> HIDE DEF r
  <2>3. QED BY <1>0, <2>1, <2>2, WriteEffect DEF Aside
<1>3. ASSUME NEW w \in Workers, NEW x \in Sessions, CallOk(w, x)
      PROVE  credits' = credits /\ Aside(w)
  <2> DEFINE r == [pw[w] EXCEPT !.pc = "save", !.ref = x]
  <2>1. r.pc = "save"
    BY <1>0 DEF WorkersOK, Worker
  <2>2. pw' = [pw EXCEPT ![w] = r] /\ credits' = credits
    BY <1>3 DEF CallOk
  <2> HIDE DEF r
  <2>3. QED BY <1>0, <2>1, <2>2, WriteEffect DEF Aside
<1>4. ASSUME NEW w \in Workers, NEW x \in Sessions, NEW verdict \in {"paid", "failed"},
             NEW g \in Groups, Webhook(w, x, verdict, g)
      PROVE  credits' = credits /\ Aside(w)
  <2> DEFINE r == [Idle EXCEPT !.pc = "apply", !.via = "hook", !.group = g, !.ref = x,
                               !.paid = Verdict(x, verdict)]
  <2>1. r.pc = "apply"
    BY DEF Idle
  <2>2. pw' = [pw EXCEPT ![w] = r] /\ credits' = credits
    BY <1>4 DEF Webhook
  <2> HIDE DEF r
  <2>3. QED BY <1>0, <2>1, <2>2, WriteEffect DEF Aside
<1>5. ASSUME NEW w \in Workers,
             Mark(w) \/ Lock(w) \/ LockDenied(w) \/ CallFail(w) \/ Fail(w)
             \/ markFailed(w) \/ Abandon(w)
      PROVE  credits' = credits /\ Aside(w)
  <2>1. credits' = credits
    BY <1>5 DEF Mark, Lock, LockDenied, CallFail, Fail, markFailed, Abandon
  <2>2. \/ Goto(w, "call") \/ Goto(w, "fail") \/ Return(w)
        \/ pw' = [pw EXCEPT ![w] = Idle]
    BY <1>5 DEF Mark, Lock, LockDenied, CallFail, Refused, Fail, markFailed, Abandon
  <2>3. Idle.pc = "idle"
    BY DEF Idle
  <2>4. QED BY <1>0, <2>1, <2>2, <2>3, GotoEffect, WriteEffect, ReturnEffect DEF Aside
<1>6. ASSUME NEW w \in Workers, NEW x \in Sessions, CallLost(w, x)
      PROVE  credits' = credits /\ Aside(w)
  BY <1>0, <1>6, GotoEffect, ReturnEffect DEF CallLost, Refused, Aside
<1>7. ASSUME NEW w \in Workers, NEW hasLink \in BOOLEAN, Save(w, hasLink)
      PROVE  credits' = credits /\ Aside(w)
  BY <1>0, <1>7, ReturnEffect DEF Save, Aside
<1>8. ASSUME UNCHANGED <<pw, credits>>
      PROVE  credits' = credits /\ pw' = pw
  BY <1>8
<1>9. QED
  BY <1>1, <1>2, <1>3, <1>4, <1>5, <1>6, <1>7, <1>8
     DEF PaymentsInternal, switchPaymentProvider, ProviderPay, ProviderFail

\* confirmPayment sends the worker to order-svc for a group that is charged.
LEMMA NotifyIsEarned ==
    ASSUME PaymentsPart, NEW w \in Workers, ConfirmPayment(w)
    PROVE  /\ credits' = credits
           /\ OthersKeep(w)
           /\ pw'[w].pc # "credit"
           /\ pw'[w].pc = "notify" => pw'[w].group \in ChargedGroups
<1>1. TypedInv /\ WorkersOK
  BY TypedWorkers DEF PaymentsPart
<1>2. pw[w].group \in ChargedGroups
  <2>1. pw[w].group \in Groups
    BY <1>1, ConfirmEffect
  <2>2. /\ pw[w].ref \in Sessions
        /\ sess[pw[w].ref].group = pw[w].group
        /\ sess[pw[w].ref].state = "paid"
    BY DEF ConfirmPayment, At, PaymentsPart, EarnedInv, ApplyEarned
  <2>3. QED BY <2>1, <2>2 DEF ChargedGroups
<1>3. CASE Goto(w, "notify")
  BY <1>1, <1>2, <1>3, GotoEffect DEF SameJob, ConfirmPayment
<1>4. CASE Return(w)
  BY <1>1, <1>4, ReturnEffect DEF ConfirmPayment
<1>5. QED BY <1>1, <1>3, <1>4, ConfirmEffect

-----------------------------------------------------------------------------
(* The invariant is kept *)

LEMMA ChargedGrow ==
    ASSUME NotifyEarned, ChargedGroups \subseteq ChargedGroups',
           NEW w \in Workers, OthersKeep(w),
           pw'[w].pc = "notify" => pw'[w].group \in ChargedGroups'
    PROVE  NotifyEarned'
  BY DEF NotifyEarned, OthersKeep

\* A worker that is not on its way to the vendors afterwards owes nothing.
LEMMA NothingOwed ==
    ASSUME CreditsCovered, UNCHANGED <<credits, confirms>>,
           NEW w \in Workers, OthersKeep(w), pw'[w].pc # "credit",
           confirms \in [Subs -> Nat], credits \in [Subs -> Nat]
    PROVE  CreditsCovered'
<1> SUFFICES ASSUME NEW s \in Subs
             PROVE  /\ IsFiniteSet(Owed(s)')
                    /\ credits[s] + Cardinality(Owed(s)') <= confirms[s]
  BY DEF CreditsCovered
<1>1. Owed(s)' = Owed(s) \ {w}
  BY DEF Owed, OthersKeep
<1>2. IsFiniteSet(Owed(s)) /\ credits[s] + Cardinality(Owed(s)) <= confirms[s]
  BY DEF CreditsCovered
<1>3. /\ IsFiniteSet(Owed(s) \ {w})
      /\ Cardinality(Owed(s)) \in Nat
      /\ Cardinality(Owed(s) \ {w}) \in {Cardinality(Owed(s)), Cardinality(Owed(s)) - 1}
  BY <1>2, FS_RemoveElement, FS_CardinalityType
<1>4. credits[s] \in Nat /\ confirms[s] \in Nat
  OBVIOUS
<1> HIDE DEF Owed
<1>5. QED BY <1>1, <1>2, <1>3, <1>4

\* One credit is given, or forgotten, and one worker owes one less.
LEMMA CreditGiven ==
    ASSUME CheckoutInv, UNCHANGED ordersOnly, NEW w \in Workers, NEW s \in Subs,
           NEW done \in BOOLEAN, creditVendorWallet(w, s, done)
    PROVE  /\ NotifyEarned'
           /\ CreditsCovered'
           /\ credits[s] < confirms[s]
<1>0. /\ WorkersOK
      /\ confirms \in [Subs -> Nat] /\ credits \in [Subs -> Nat]
      /\ confirms' = confirms /\ sess' = sess
  BY TypedWorkers DEF CheckoutInv, OrdersPart, OrdersTypedInv, OrdersTypeOK, PaymentsPart,
     TypedInv, PaymentsTypeOK, ordersOnly, creditVendorWallet
<1>1. /\ OthersKeep(w)
      /\ pw'[w].pc \in {"idle", "credit"}
      /\ pw'[w].pc = "credit" => pw'[w].todo = pw[w].todo \ {s}
      /\ pw'[w].pc = "idle" => pw[w].todo = {s}
      /\ pw[w].pc = "credit" /\ s \in pw[w].todo
  <2> DEFINE r == [pw[w] EXCEPT !.todo = @ \ {s}]
  <2>1. r.pc = pw[w].pc /\ r.todo = pw[w].todo \ {s}
    BY <1>0 DEF WorkersOK, Worker
  <2>2. /\ pw' = [pw EXCEPT ![w] = IF pw[w].todo = {s} THEN Idle ELSE r]
        /\ pw[w].pc = "credit" /\ s \in pw[w].todo
    BY DEF creditVendorWallet, At
  <2> HIDE DEF r
  <2>3. pw'[w] = (IF pw[w].todo = {s} THEN Idle ELSE r) /\ OthersKeep(w)
    BY <1>0, <2>2, WriteEffect
  <2>4. Idle.pc = "idle"
    BY DEF Idle
  <2>5. QED BY <2>1, <2>2, <2>3, <2>4
<1>2. NotifyEarned'
  BY <1>0, <1>1 DEF CheckoutInv, NotifyEarned, OthersKeep, ChargedGroups
<1>3. Owed(s)' = Owed(s) \ {w} /\ w \in Owed(s)
  BY <1>1 DEF Owed, OthersKeep
<1>4. \A t \in Subs \ {s} : Owed(t)' = Owed(t)
  BY <1>1 DEF Owed, OthersKeep
<1>5. \A t \in Subs : /\ IsFiniteSet(Owed(t))
                      /\ Cardinality(Owed(t)) \in Nat
                      /\ credits[t] + Cardinality(Owed(t)) <= confirms[t]
  BY FS_CardinalityType DEF CheckoutInv, CreditsCovered
<1>6. /\ IsFiniteSet(Owed(s) \ {w})
      /\ Cardinality(Owed(s) \ {w}) = Cardinality(Owed(s)) - 1
      /\ Cardinality(Owed(s) \ {w}) \in Nat
  BY <1>3, <1>5, FS_RemoveElement, FS_CardinalityType
<1>7. /\ credits'[s] \in {credits[s], credits[s] + 1}
      /\ \A t \in Subs \ {s} : credits'[t] = credits[t]
  BY <1>0 DEF creditVendorWallet
<1> HIDE DEF Owed
<1>8. /\ credits[s] < confirms[s]
      /\ credits'[s] + Cardinality(Owed(s) \ {w}) <= confirms[s]
  BY <1>0, <1>5, <1>6, <1>7
<1>9. CreditsCovered'
  <2> SUFFICES ASSUME NEW t \in Subs
               PROVE  /\ IsFiniteSet(Owed(t)')
                      /\ credits'[t] + Cardinality(Owed(t)') <= confirms'[t]
    BY DEF CreditsCovered
  <2>1. CASE t = s
    BY <1>0, <1>3, <1>6, <1>8, <2>1
  <2>2. CASE t # s
    BY <1>0, <1>4, <1>5, <1>7, <2>2
  <2>3. QED BY <2>1, <2>2
<1>10. QED BY <1>2, <1>8, <1>9

\* What order-svc answers it has confirmed is owed once more, if it is heard.
LEMMA AnswerOwed ==
    ASSUME CheckoutInv, NEW w \in Workers, NEW ids \in SUBSET Subs, CallConfirm(w, ids),
           confirms' \in [Subs -> Nat],
           \A s \in Subs : /\ confirms[s] <= confirms'[s]
                           /\ s \in ids => confirms'[s] = confirms[s] + 1
    PROVE  NotifyEarned' /\ CreditsCovered'
<1>0. /\ TypedInv /\ sess' = sess /\ credits' = credits
      /\ confirms \in [Subs -> Nat] /\ credits \in [Subs -> Nat]
  BY DEF CheckoutInv, OrdersPart, OrdersTypedInv, OrdersTypeOK, PaymentsPart, TypedInv,
     PaymentsTypeOK, CallConfirm
<1>1. /\ OthersKeep(w) /\ pw[w].pc = "notify"
      /\ pw'[w].pc \in {"idle", "credit"}
      /\ pw'[w].pc = "credit" => pw'[w].todo = ids
  <2>1. Idle.pc = "idle"
    BY DEF Idle
  <2>2. pw'[w] = Idle \/ (pw'[w].pc = "credit" /\ pw'[w].todo = ids)
    BY <1>0, AnswerEffect
  <2>3. OthersKeep(w)
    BY <1>0, AnswerEffect
  <2>4. QED BY <2>1, <2>2, <2>3 DEF CallConfirm, At
<1>2. NotifyEarned'
  BY <1>0, <1>1 DEF CheckoutInv, NotifyEarned, OthersKeep, ChargedGroups
<1>3. CreditsCovered'
  <2> SUFFICES ASSUME NEW s \in Subs
               PROVE  /\ IsFiniteSet(Owed(s)')
                      /\ credits[s] + Cardinality(Owed(s)') <= confirms'[s]
    BY <1>0 DEF CreditsCovered
  <2>1. /\ IsFiniteSet(Owed(s))
        /\ Cardinality(Owed(s)) \in Nat
        /\ credits[s] + Cardinality(Owed(s)) <= confirms[s]
    BY FS_CardinalityType DEF CheckoutInv, CreditsCovered
  <2>2. /\ confirms[s] \in Nat /\ confirms'[s] \in Nat /\ credits[s] \in Nat
        /\ confirms[s] <= confirms'[s]
        /\ s \in ids => confirms'[s] = confirms[s] + 1
    BY <1>0
  <2>3. /\ Owed(s)' = Owed(s) \/ (s \in ids /\ Owed(s)' = Owed(s) \cup {w})
        /\ w \notin Owed(s)
    <3>1. w \notin Owed(s)
      BY <1>1 DEF Owed
    <3>2. CASE pw'[w].pc = "credit" /\ s \in ids
      BY <1>1, <3>1, <3>2 DEF Owed, OthersKeep
    <3>3. CASE ~(pw'[w].pc = "credit" /\ s \in ids)
      <4>1. \A v \in Workers : pw'[v].pc = "credit" /\ s \in pw'[v].todo
                              <=> pw[v].pc = "credit" /\ s \in pw[v].todo
        BY <1>1, <3>3 DEF OthersKeep
      <4>2. Owed(s)' = Owed(s)
        BY <4>1 DEF Owed
      <4>3. QED BY <3>1, <4>2
    <3>4. QED BY <3>1, <3>2, <3>3
  <2>4. /\ IsFiniteSet(Owed(s) \cup {w})
        /\ Cardinality(Owed(s) \cup {w}) = Cardinality(Owed(s)) + 1
    BY <2>1, <2>3, FS_AddElement
  <2> HIDE DEF Owed
  <2>5. QED BY <2>1, <2>2, <2>3, <2>4
<1>4. QED BY <1>2, <1>3

-----------------------------------------------------------------------------
(* Every step keeps the invariant and is one of Settlement, or none *)

PromiseStep == [Promise!Next]_(Promise!settlementVars)

LEMMA PromiseStutters ==
    ASSUME UNCHANGED <<ChargedGroups, confirms, reopens, credits>>
    PROVE  PromiseStep
  BY DEF PromiseStep, Promise!settlementVars

\* What order-svc does by itself never releases an order.
LEMMA OrdersOwnStep ==
    ASSUME CheckoutInv, OrdersInternal, UNCHANGED paymentsOnly
    PROVE  CheckoutInv' /\ PromiseStep
<1>0. OrdersInternal => OrdersNext
  BY DEF OrdersNext
<1>1. OrdersPart' /\ PaymentsPart'
  BY <1>0, OrdersMoved, PaymentsUntouched DEF CheckoutInv
<1>2. /\ UNCHANGED <<pw, sess, credits, confirms>>
      /\ reopens' = reopens \/ \E s \in Subs : reopens' = [reopens EXCEPT ![s] = @ + 1]
  BY DEF paymentsOnly, OrdersInternal, CreateOrder, PublishCreated, LoseCreated, Age,
     updateOrderStatus, CancelRead, CancelWrite, RestockGet, RestockPatch, RestockFail,
     CancelEnd, ReaperScan, ReaperExpire, ReaperAbort
<1>3. UNCHANGED ChargedGroups
  BY <1>2 DEF ChargedGroups
<1>4. NotifyEarned' /\ CreditsCovered'
  BY <1>2, <1>3 DEF CheckoutInv, NotifyEarned, CreditsCovered, Owed
<1>5. ASSUME reopens' = reopens PROVE PromiseStep
  BY <1>2, <1>3, <1>5, PromiseStutters
<1>6. ASSUME NEW s \in Subs, reopens' = [reopens EXCEPT ![s] = @ + 1]
      PROVE  Promise!Next
  BY <1>2, <1>3, <1>6 DEF Promise!Next, Promise!Reopen
<1>7. PromiseStep
  BY <1>2, <1>5, <1>6 DEF PromiseStep
<1>8. QED BY <1>1, <1>4, <1>7 DEF CheckoutInv

\* What payment-svc does by itself charges one group, or credits one vendor.
LEMMA PaymentsOwnStep ==
    ASSUME CheckoutInv, PaymentsInternal, UNCHANGED ordersOnly
    PROVE  CheckoutInv' /\ PromiseStep
<1>0. /\ TypedInv /\ PaymentsPart /\ NotifyEarned /\ CreditsCovered
      /\ confirms \in [Subs -> Nat] /\ credits \in [Subs -> Nat]
      /\ UNCHANGED <<confirms, reopens>>
  BY DEF CheckoutInv, OrdersPart, OrdersTypedInv, OrdersTypeOK, PaymentsPart, TypedInv,
     PaymentsTypeOK, ordersOnly
<1>1. OrdersPart' /\ PaymentsPart'
  <2>1. PaymentsNext
    BY DEF PaymentsNext
  <2>2. QED BY <2>1, PaymentsMoved, OrdersUntouched DEF CheckoutInv
<1>2. \/ UNCHANGED ChargedGroups
      \/ \E g \in Groups : ChargedGroups' = ChargedGroups \cup {g}
  BY <1>0, ChargeOnly
<1>3. ChargedGroups \subseteq ChargedGroups'
  BY <1>2
<1>4. UNCHANGED credits => PromiseStep
  <2> SUFFICES ASSUME UNCHANGED credits PROVE PromiseStep
    OBVIOUS
  <2>1. CASE UNCHANGED ChargedGroups
    BY <1>0, <2>1, PromiseStutters
  <2>2. ASSUME NEW g \in Groups, ChargedGroups' = ChargedGroups \cup {g}
        PROVE  Promise!Next
    BY <1>0, <2>2 DEF Promise!Next, Promise!Charge
  <2>3. QED BY <1>2, <2>1, <2>2 DEF PromiseStep
<1>5. ASSUME NEW w \in Workers, ConfirmPayment(w)
      PROVE  NotifyEarned' /\ CreditsCovered' /\ PromiseStep
  <2>1. /\ OthersKeep(w) /\ UNCHANGED credits /\ pw'[w].pc # "credit"
        /\ pw'[w].pc = "notify" => pw'[w].group \in ChargedGroups'
    BY <1>0, <1>3, <1>5, NotifyIsEarned
  <2>2. NotifyEarned'
    BY <1>0, <1>3, <2>1, ChargedGrow
  <2>3. CreditsCovered'
    BY <1>0, <2>1, NothingOwed
  <2>4. QED BY <1>4, <2>1, <2>2, <2>3
<1>6. ASSUME NEW w \in Workers, NEW s \in Subs, NEW done \in BOOLEAN,
             creditVendorWallet(w, s, done)
      PROVE  NotifyEarned' /\ CreditsCovered' /\ PromiseStep
  <2>1. NotifyEarned' /\ CreditsCovered' /\ credits[s] < confirms[s]
    BY <1>6, CreditGiven
  <2>2. UNCHANGED sess /\ credits' = IF done THEN [credits EXCEPT ![s] = @ + 1] ELSE credits
    BY <1>6 DEF creditVendorWallet
  <2>3. UNCHANGED ChargedGroups
    BY <2>2 DEF ChargedGroups
  <2>4. CASE credits' = [credits EXCEPT ![s] = @ + 1]
    <3>1. Promise!Credit(s)
      BY <1>0, <2>1, <2>3, <2>4 DEF Promise!Credit
    <3>2. QED BY <2>1, <3>1 DEF PromiseStep, Promise!Next
  <2>5. CASE UNCHANGED credits
    BY <1>4, <2>1, <2>5
  <2>6. QED BY <2>2, <2>4, <2>5
<1>7. ASSUME UNCHANGED credits, NEW w \in Workers, Aside(w)
      PROVE  NotifyEarned' /\ CreditsCovered' /\ PromiseStep
  BY <1>0, <1>3, <1>4, <1>7, ChargedGrow, NothingOwed DEF Aside
<1>8. ASSUME UNCHANGED <<credits, pw>>
      PROVE  NotifyEarned' /\ CreditsCovered' /\ PromiseStep
  BY <1>0, <1>3, <1>4, <1>8 DEF NotifyEarned, CreditsCovered, Owed
<1>9. NotifyEarned' /\ CreditsCovered' /\ PromiseStep
  BY <1>0, <1>5, <1>6, <1>7, <1>8, WorkerMoves
<1>10. QED BY <1>1, <1>9 DEF CheckoutInv

\* What a confirmation of order-svc writes.
LEMMA ConfirmEffects ==
    ASSUME CheckoutInv, NEW ids \in SUBSET Subs, Confirm(ids)
    PROVE  /\ confirms' = [s \in Subs |-> IF s \in ids THEN confirms[s] + 1
                                          ELSE confirms[s]]
           /\ reopens' = reopens
           /\ confirms' \in [Subs -> Nat]
           /\ \A s \in Subs : /\ confirms[s] <= confirms'[s]
                              /\ s \in ids => confirms'[s] = confirms[s] + 1
<1>1. confirms \in [Subs -> Nat]
  BY DEF CheckoutInv, OrdersPart, OrdersTypedInv, OrdersTypeOK
<1>2. QED BY <1>1 DEF Confirm

\* A confirmation releases what is pending in a group that has been charged,
\* whoever hears the answer.
LEMMA ConfirmationStep ==
    ASSUME CheckoutInv, NEW w \in Workers, NEW heard \in SUBSET Subs,
           CallConfirm(w, heard), confirmParentPayment(pw[w].group),
           heard \subseteq AwaitingPayment(SubsOf(pw[w].group))
    PROVE  CheckoutInv' /\ PromiseStep
<1> DEFINE g == pw[w].group
           ids == AwaitingPayment(SubsOf(g))
<1>0. /\ ids \in SUBSET Subs
      /\ \A s \in ids : GroupOf[s] = g /\ Status(s) = "pending_payment"
      /\ Confirm(ids)
  BY DEF confirmParentPayment, AwaitingPayment, SubsOf
<1>1. g \in Groups /\ g \in ChargedGroups
  BY DEF CallConfirm, At, CheckoutInv, NotifyEarned, ChargedGroups
<1>2. OrdersPart' /\ PaymentsPart'
  <2>1. OrdersNext
    BY <1>1 DEF OrdersNext
  <2>2. QED BY <2>1, OrdersMoved, AnswerKeeps DEF CheckoutInv
<1> HIDE DEF ids
<1>3. /\ confirms' = [s \in Subs |-> IF s \in ids THEN confirms[s] + 1 ELSE confirms[s]]
      /\ reopens' = reopens
      /\ confirms' \in [Subs -> Nat]
      /\ \A s \in Subs : /\ confirms[s] <= confirms'[s]
                         /\ s \in heard => confirms'[s] = confirms[s] + 1
  BY <1>0, ConfirmEffects DEF ids
<1>4. NotifyEarned' /\ CreditsCovered'
  BY <1>3, AnswerOwed
<1>5. UNCHANGED <<ChargedGroups, credits>>
  BY DEF CallConfirm, ChargedGroups
<1>6. \A s \in ids : confirms[s] <= reopens[s]
  BY <1>0 DEF CheckoutInv, OrdersPart, OnceInv, PendingIsReopened
<1>7. Promise!Release(g, ids)
  BY <1>0, <1>1, <1>3, <1>5, <1>6 DEF Promise!Release
<1>8. PromiseStep
  BY <1>0, <1>1, <1>7 DEF PromiseStep, Promise!Next
<1>9. QED BY <1>2, <1>4, <1>8 DEF CheckoutInv

\* order-svc cannot be reached, or refuses.
LEMMA RefusalStep ==
    ASSUME CheckoutInv, NEW w \in Workers, ConfirmFailed(w)
    PROVE  CheckoutInv' /\ PromiseStep
<1>1. CallConfirm(w, {}) /\ UNCHANGED <<ordersOnly, topicVars>>
  BY DEF ConfirmFailed
<1>2. TopicsTypeOK'
  BY <1>1 DEF CheckoutInv, OrdersPart, OrdersTypedInv, OrdersTypeOK, TopicsTypeOK, topicVars
<1>3. OrdersPart' /\ PaymentsPart'
  BY <1>1, <1>2, OrdersUntouched, AnswerKeeps DEF CheckoutInv
<1>4. confirms \in [Subs -> Nat] /\ UNCHANGED <<confirms, reopens>>
  BY <1>1 DEF CheckoutInv, OrdersPart, OrdersTypedInv, OrdersTypeOK, ordersOnly
<1>5. NotifyEarned' /\ CreditsCovered'
  BY <1>1, <1>4, AnswerOwed
<1>6. UNCHANGED <<ChargedGroups, credits>>
  BY <1>1 DEF CallConfirm, ChargedGroups
<1>7. PromiseStep
  BY <1>4, <1>6, PromiseStutters
<1>8. QED BY <1>3, <1>5, <1>7 DEF CheckoutInv

\* The reaper asks payment-svc, which changes nothing there.
LEMMA AskStep ==
    ASSUME CheckoutInv, NEW s \in Subs, NEW up \in BOOLEAN, AskPayments(s, up)
    PROVE  CheckoutInv' /\ PromiseStep
<1>1. /\ ReaperCheck(s, up /\ ReverifyKeeps(s))
      /\ UNCHANGED <<paymentsOnly, topicVars>>
  BY DEF AskPayments
<1>2. OrdersNext
  <2> DEFINE keep == up /\ ReverifyKeeps(s)
  <2>1. keep \in BOOLEAN
    OBVIOUS
  <2>2. ReaperCheck(s, keep) /\ UNCHANGED topicVars
    BY <1>1
  <2> HIDE DEF keep
  <2>3. QED BY <2>1, <2>2 DEF OrdersNext
<1>3. OrdersPart' /\ PaymentsPart'
  BY <1>1, <1>2, OrdersMoved, PaymentsUntouched DEF CheckoutInv
<1>4. UNCHANGED <<pw, sess, credits, confirms, reopens>>
  BY <1>1 DEF ReaperCheck, paymentsOnly
<1>5. UNCHANGED ChargedGroups
  BY <1>4 DEF ChargedGroups
<1>6. NotifyEarned' /\ CreditsCovered'
  BY <1>4, <1>5 DEF CheckoutInv, NotifyEarned, CreditsCovered, Owed
<1>7. QED BY <1>3, <1>4, <1>5, <1>6, PromiseStutters DEF CheckoutInv

LEMMA CheckoutStep ==
    CheckoutInv /\ [CheckoutNext]_checkoutVars => CheckoutInv' /\ PromiseStep
<1> SUFFICES ASSUME CheckoutInv, [CheckoutNext]_checkoutVars
             PROVE  CheckoutInv' /\ PromiseStep
  OBVIOUS
<1>1. CASE OrdersInternal /\ UNCHANGED paymentsOnly
  BY <1>1, OrdersOwnStep
<1>2. CASE PaymentsInternal /\ UNCHANGED ordersOnly
  BY <1>2, PaymentsOwnStep
<1>3. ASSUME NEW w \in Workers, ConfirmAnswered(w) \/ ConfirmLost(w)
      PROVE  CheckoutInv' /\ PromiseStep
  <2>1. AwaitingPayment(SubsOf(pw[w].group)) \in SUBSET Subs
    BY DEF AwaitingPayment, SubsOf
  <2>2. QED BY <1>3, <2>1, ConfirmationStep DEF ConfirmAnswered, ConfirmLost
<1>4. ASSUME NEW w \in Workers, ConfirmFailed(w)
      PROVE  CheckoutInv' /\ PromiseStep
  BY <1>4, RefusalStep
<1>5. ASSUME NEW s \in Subs, NEW up \in BOOLEAN, AskPayments(s, up)
      PROVE  CheckoutInv' /\ PromiseStep
  BY <1>5, AskStep
<1>6. CASE UNCHANGED checkoutVars
  <2>1. UNCHANGED <<ordersOnly, paymentsOnly, topicVars>>
    BY <1>6 DEF checkoutVars
  <2>2. TopicsTypeOK'
    BY <2>1 DEF CheckoutInv, OrdersPart, OrdersTypedInv, OrdersTypeOK, TopicsTypeOK,
       topicVars
  <2>3. OrdersPart' /\ PaymentsPart'
    BY <2>1, <2>2, OrdersUntouched, PaymentsUntouched DEF CheckoutInv
  <2>4. UNCHANGED <<pw, sess, credits, confirms, reopens>>
    BY <2>1 DEF ordersOnly, paymentsOnly
  <2>5. UNCHANGED ChargedGroups
    BY <2>4 DEF ChargedGroups
  <2>6. NotifyEarned' /\ CreditsCovered'
    BY <2>4, <2>5 DEF CheckoutInv, NotifyEarned, CreditsCovered, Owed
  <2>7. QED BY <2>3, <2>4, <2>5, <2>6, PromiseStutters DEF CheckoutInv
<1>7. QED BY <1>1, <1>2, <1>3, <1>4, <1>5, <1>6 DEF CheckoutNext

\* Together, order-svc and payment-svc release an order only if the customer of
\* its group was charged, once each time it is open for payment, and credit its
\* vendor at most once per release: with notifications repeated and reordered,
\* order.created delivered again, answers lost and requests killed anywhere.
THEOREM PromiseKept == CheckoutSpec => KeepsPromise
<1>1. CheckoutInit => Promise!Init
  BY DEF CheckoutInit, OrdersInit, PaymentsInit, Promise!Init, ChargedGroups, NoSess
<1>2. CheckoutSpec => []CheckoutInv
  BY CheckoutInitInv, CheckoutStep, PTL DEF CheckoutSpec
<1>3. CheckoutInv /\ [CheckoutNext]_checkoutVars
          => [Promise!Next]_(Promise!settlementVars)
  BY CheckoutStep DEF PromiseStep
<1>4. QED BY <1>1, <1>2, <1>3, PTL DEF CheckoutSpec, KeepsPromise, Promise!Spec

-----------------------------------------------------------------------------
(* What each service keeps by itself, it keeps in the company of the other. *)

\* A step of both is a step of order-svc, or leaves what it stores alone ...
LEMMA OrdersSide ==
    ASSUME CheckoutInv, [CheckoutNext]_checkoutVars
    PROVE  OrdersNext \/ UNCHANGED ordersOnly
<1>1. ASSUME NEW w \in Workers, At(w, "notify"), ConfirmAnswered(w) \/ ConfirmLost(w)
      PROVE  OrdersNext
  <2>1. pw[w].group \in Groups
    BY <1>1 DEF CheckoutInv, PaymentsPart, TypedInv, BusyGrouped, At
  <2>2. QED BY <1>1, <2>1 DEF ConfirmAnswered, ConfirmLost, OrdersNext
<1>2. ASSUME NEW w \in Workers, ConfirmFailed(w)
      PROVE  UNCHANGED ordersOnly
  BY <1>2 DEF ConfirmFailed
<1>3. ASSUME NEW s \in Subs, NEW up \in BOOLEAN, AskPayments(s, up)
      PROVE  OrdersNext
  <2>1. ReaperCheck(s, up /\ ReverifyKeeps(s)) /\ UNCHANGED topicVars
    BY <1>3 DEF AskPayments
  <2>2. (up /\ ReverifyKeeps(s)) \in BOOLEAN
    OBVIOUS
  <2>3. QED BY <2>1, <2>2 DEF OrdersNext
<1>4. QED BY <1>1, <1>2, <1>3 DEF CheckoutNext, OrdersNext, checkoutVars

\* ... and of payment-svc too, but that what it hears of a confirmation comes
\* with the messages that order-svc sends about it.
LEMMA PaymentsSide ==
    ASSUME CheckoutInv, [CheckoutNext]_checkoutVars
    PROVE  \/ PaymentsNext
           \/ \E w \in Workers, ids \in SUBSET Subs : CallConfirm(w, ids)
           \/ UNCHANGED paymentsOnly
<1>1. ASSUME NEW w \in Workers,
             ConfirmAnswered(w) \/ ConfirmLost(w) \/ ConfirmFailed(w)
      PROVE  \E ids \in SUBSET Subs : CallConfirm(w, ids)
  <2>1. AwaitingPayment(SubsOf(pw[w].group)) \in SUBSET Subs
    BY DEF AwaitingPayment, SubsOf
  <2>2. QED BY <1>1, <2>1 DEF ConfirmAnswered, ConfirmLost, ConfirmFailed
<1>2. ASSUME NEW s \in Subs, NEW up \in BOOLEAN, AskPayments(s, up)
      PROVE  UNCHANGED paymentsOnly
  BY <1>2 DEF AskPayments
<1>3. QED BY <1>1, <1>2 DEF CheckoutNext, PaymentsNext, checkoutVars

\* The stock and the lock, which the refinement does not need.
JointInv == CheckoutInv /\ RestockInv /\ LockInv

LEMMA JointStep == JointInv /\ [CheckoutNext]_checkoutVars => JointInv'
<1> SUFFICES ASSUME JointInv, [CheckoutNext]_checkoutVars PROVE JointInv'
  OBVIOUS
<1>1. /\ CheckoutInv /\ RestockInv /\ LockInv
      /\ OrdersTypedInv /\ TypedInv
  BY DEF JointInv, CheckoutInv, OrdersPart, PaymentsPart
<1>2. RestockInv'
  <2>1. CASE OrdersNext
    BY <1>1, <2>1, RestockStep
  <2>2. CASE UNCHANGED ordersOnly
    <3>1. UNCHANGED <<clerk, stock, cancels>>
      BY <2>2 DEF ordersOnly, backOffice, clerkVars
    <3>2. QED
      BY <1>1, <3>1 DEF RestockInv, CountsFinite, TodoByStage, SeenIsCovered,
         RestockedOncePerCancellation, Restocking, CancelledUnits
  <2>3. QED BY <1>1, <2>1, <2>2, OrdersSide
<1>3. LockInv'
  <2>1. CASE PaymentsNext
    BY <1>1, <2>1, LockStep
  <2>2. ASSUME NEW w \in Workers, NEW ids \in SUBSET Subs, CallConfirm(w, ids)
        PROVE  LockInv'
    <3>1. OthersKeep(w) /\ pw'[w].pc \in {"idle", "credit"}
      BY <1>1, <2>2, AnswerEffect DEF Idle
    <3>2. Recedes
      BY <3>1 DEF Recedes, OthersKeep, CreatingPcs
    <3>3. QED BY <1>1, <2>2, <3>2, LockUndisturbed DEF CallConfirm
  <2>3. CASE UNCHANGED paymentsOnly
    BY <1>1, <2>3, LockUndisturbed DEF paymentsOnly, Recedes
  <2>4. QED BY <1>1, <2>1, <2>2, <2>3, PaymentsSide
<1>4. QED BY <1>1, <1>2, <1>3, CheckoutStep DEF JointInv

LEMMA Joint == CheckoutSpec => []JointInv
<1>1. CheckoutInit => JointInv
  BY CheckoutInitInv, RestockInit, LockInit DEF CheckoutInit, JointInv
<1>2. QED BY <1>1, JointStep, PTL DEF CheckoutSpec

\* With payment-svc as it is, and not anybody, to confirm payments: the columns
\* of an order agree, it is confirmed once each time it is open, cancellations
\* put back what they gave up at most, and the reaper spares what is settled.
THEOREM OrdersHoldTogether ==
    CheckoutSpec => /\ []OrdersTypeOK
                    /\ []StagesInSync
                    /\ []ConfirmedAtMostOnce
                    /\ []RestockedOncePerCancellation
                    /\ ReaperSparesSettled
<1>1. JointInv => /\ OrdersTypeOK /\ StagesInSync /\ ConfirmedAtMostOnce
                  /\ RestockedOncePerCancellation
  BY DEF JointInv, CheckoutInv, OrdersPart, OrdersTypedInv, OnceInv, RestockInv
<1>2. JointInv /\ [CheckoutNext]_checkoutVars =>
          [\A s \in Subs : /\ Status(s)' = "payment_expired"
                           /\ Status(s) # "payment_expired"
                           /\ staff' = staff
                           => Status(s) = "pending_payment" /\ s \in aged]_ordersVars
  <2> SUFFICES ASSUME JointInv, [CheckoutNext]_checkoutVars, NEW s \in Subs,
                      Status(s)' = "payment_expired", Status(s) # "payment_expired",
                      staff' = staff
               PROVE  Status(s) = "pending_payment" /\ s \in aged
    OBVIOUS
  <2>1. CheckoutInv /\ OrdersTypedInv
    BY DEF JointInv, CheckoutInv, OrdersPart
  <2>2. CASE OrdersNext
    BY <2>1, <2>2, ReaperStep
  <2>3. CASE UNCHANGED ordersOnly
    BY <2>3 DEF ordersOnly, Status
  <2>4. QED BY <2>1, <2>2, <2>3, OrdersSide
<1>3. QED BY <1>1, <1>2, Joint, PTL DEF CheckoutSpec, ReaperSparesSettled

\* With order-svc as it is to answer: one session at a time is created for a
\* group, only what was paid is confirmed, and nothing undoes a confirmation.
THEOREM PaymentsHoldTogether ==
    CheckoutSpec => /\ []PaymentsTypeOK
                    /\ []OneCreationAtATime
                    /\ []ConfirmedMeansPaid
                    /\ ConfirmedIsFinal
                    /\ NoLateFailure
<1>1. JointInv => PaymentsTypeOK /\ OneCreationAtATime /\ ConfirmedMeansPaid
  BY DEF JointInv, CheckoutInv, PaymentsPart, TypedInv, EarnedInv, LockInv
<1>2. ASSUME JointInv, [CheckoutNext]_checkoutVars, NEW g \in Groups,
             PayStatus(g) = "confirmed", switches[g] = 0
      PROVE  /\ PayStatus(g)' # "failed"
             /\ MethodOf[g] # "stripe" => PayStatus(g)' = "confirmed"
  <2>1. CheckoutInv /\ TypedInv /\ LockInv
    BY <1>2 DEF JointInv, CheckoutInv, PaymentsPart
  <2>2. CASE PaymentsNext
    BY <1>2, <2>1, <2>2, StaysConfirmed
  <2>3. CASE UNCHANGED pay
    BY <1>2, <2>3 DEF PayStatus
  <2>4. QED BY <1>2, <2>1, <2>2, <2>3, PaymentsSide DEF CallConfirm, paymentsOnly
<1>3. JointInv /\ [CheckoutNext]_checkoutVars =>
          [\A g \in Groups : PayStatus(g) = "confirmed" /\ Untouched(g)
                               => PayStatus(g)' = "confirmed"]_paymentsVars
  BY <1>2 DEF Untouched
<1>4. JointInv /\ [CheckoutNext]_checkoutVars =>
          [\A g \in Groups : PayStatus(g) = "confirmed" /\ switches[g] = 0
                               => PayStatus(g)' # "failed"]_paymentsVars
  BY <1>2
<1>5. QED BY <1>1, <1>3, <1>4, Joint, PTL
          DEF CheckoutSpec, ConfirmedIsFinal, NoLateFailure
=============================================================================
