--------------------------- MODULE PaymentsProofs ---------------------------
(***************************************************************************)
(* What Payments promises for every number of groups, workers and          *)
(* sessions: the types, the lock on the creation of a session, and that a  *)
(* confirmation is earned and final.                                       *)
(***************************************************************************)
EXTENDS Payments, TLAPS

-----------------------------------------------------------------------------
(* Types *)

\* Only an idle worker has no group.
BusyGrouped == \A w \in Workers : pw[w].pc # "idle" => pw[w].group \in Groups

\* What is written to the rows of a worker, a payment and a session is one.
LEMMA RowsTyped ==
    /\ NoPayment \in PaymentRow
    /\ Idle \in Worker
    /\ NoSess \in Session
    /\ \A g \in Groups, s \in Subs, reached \in BOOLEAN :
           NewPayment(g, s, reached) \in PaymentRow
  BY MarketAssumption DEF NoPayment, PaymentRow, Idle, Worker, NoSess, Session,
     NewPayment, SubsOf, Providers, Links

\* Workers are workers, and only an idle one has no group.
WorkersOK == pw \in [Workers -> Worker] /\ BusyGrouped

\* A busy worker that goes on, or returns, is still one.
LEMMA GotoTyped ==
    ASSUME WorkersOK, NEW w \in Workers, ~At(w, "idle"),
           NEW pc \in {"call", "save", "fail", "mark", "notify"},
           Goto(w, pc)
    PROVE  WorkersOK'
<1>1. pw' \in [Workers -> Worker]
  BY DEF Goto, Worker, WorkersOK
<1>2. BusyGrouped'
  BY DEF Goto, BusyGrouped, WorkersOK, At
<1>3. QED BY <1>1, <1>2 DEF WorkersOK

\* What replaces the locals of a worker has to be locals with a group.
LEMMA WriteTyped ==
    ASSUME WorkersOK, NEW w \in Workers, NEW r \in Worker,
           r.pc # "idle" => r.group \in Groups,
           pw' = [pw EXCEPT ![w] = r]
    PROVE  WorkersOK'
  BY DEF WorkersOK, BusyGrouped

LEMMA ReturnTyped ==
    ASSUME WorkersOK, NEW w \in Workers, ~At(w, "idle"), Return(w)
    PROVE  WorkersOK'
  BY GotoTyped, WriteTyped, RowsTyped DEF Return, Idle

\* The rows keep their type when a status is written, ...
LEMMA StatusTyped ==
    ASSUME pay \in [Groups -> PaymentRow], NEW g,
           NEW st \in {"initiated", "creating", "failed", "confirmed"}
    PROVE  [pay EXCEPT ![g].status = st] \in [Groups -> PaymentRow]
  BY DEF PaymentRow

\* ... when a reference is saved or kept, and when the provider is switched.
LEMMA SaveTyped ==
    ASSUME NEW r \in PaymentRow, NEW ref \in Sessions \cup {NoSession},
           NEW links \in SUBSET Links,
           NEW st \in {"absent", "initiated", "creating", "failed", "confirmed"}
    PROVE  /\ [r EXCEPT !.ref = ref, !.links = links, !.status = st] \in PaymentRow
           /\ [r EXCEPT !.status = st, !.ref = ref] \in PaymentRow
           /\ r.ref \in Sessions \cup {NoSession}
           /\ r.links \in SUBSET Links
           /\ r.status \in {"absent", "initiated", "creating", "failed", "confirmed"}
  BY DEF PaymentRow

LEMMA SwitchTyped ==
    ASSUME NEW r \in PaymentRow, NEW provider \in {"paydunya", "pawapay"}
    PROVE  [r EXCEPT !.provider = provider, !.ref = NoSession,
                     !.links = {}, !.status = "initiated"] \in PaymentRow
  BY DEF PaymentRow, Providers

\* Sessions keep theirs when their state changes ...
LEMMA StateTyped ==
    ASSUME sess \in [Sessions -> Session], NEW x, NEW st,
           x \in Sessions => st \in {"unused", "made", "open", "paid", "failed"}
    PROVE  [sess EXCEPT ![x].state = st] \in [Sessions -> Session]
  BY DEF Session

\* A worker that learns a reference, or has sub-orders left to credit.
LEMMA LocalsTyped ==
    ASSUME NEW r \in Worker, NEW x \in Sessions, NEW todo \in SUBSET Subs
    PROVE  /\ [r EXCEPT !.pc = "save", !.ref = x] \in Worker
           /\ [r EXCEPT !.pc = "credit", !.todo = todo] \in Worker
           /\ [r EXCEPT !.todo = todo] \in Worker
           /\ r.todo \in SUBSET Subs
           /\ r.ref \in Sessions \cup {NoSession}
  BY DEF Worker

\* ... and when one is opened.
LEMMA OpenTyped ==
    ASSUME PaymentsTypeOK, BusyGrouped, NEW w \in Workers,
           NEW x \in Sessions, Open(w, x)
    PROVE  sess' \in [Sessions -> Session]
<1>1. /\ pw[w].provider \in Providers \cup {"none"}
      /\ pw[w].group \in Groups
  BY DEF PaymentsTypeOK, Worker, BusyGrouped, Open, At
<1>2. pay[pw[w].group].covers \in SUBSET Subs
  BY <1>1 DEF PaymentsTypeOK, PaymentRow
<1>3. QED BY <1>1, <1>2 DEF Open, Session, PaymentsTypeOK

\* Every column and every local keeps its type, and every busy worker its
\* group, whatever the interleaving.
TypedInv == PaymentsTypeOK /\ BusyGrouped

LEMMA TypedStep == TypedInv /\ [PaymentsNext]_paymentsVars => TypedInv'
<1> SUFFICES ASSUME TypedInv, [PaymentsNext]_paymentsVars
             PROVE  TypedInv'
  OBVIOUS
<1> USE MarketAssumption, PaymentsAssumption
        DEF TypedInv, WorkersOK, PaymentsTypeOK, TopicsTypeOK, topicVars
<1>1. ASSUME NEW w \in Workers, NEW s \in Subs, NEW reached \in BOOLEAN,
             KafkaInsert(w, s, reached)
      PROVE  TypedInv'
  <2>1. GroupOf[s] \in Groups /\ MethodOf[GroupOf[s]] \in Providers
    OBVIOUS
  <2>2. WorkersOK'
    <3> DEFINE pc == IF PayStatus(GroupOf[s]) = "absent" /\ MethodOf[GroupOf[s]] = "paydunya"
                     THEN "lock" ELSE "mark"
               r == [Idle EXCEPT !.pc = pc, !.via = "kafka", !.group = GroupOf[s],
                                 !.sub = s, !.provider = MethodOf[GroupOf[s]]]
    <3>1. r \in Worker /\ r.group = GroupOf[s]
      BY <2>1, RowsTyped DEF Idle, Worker
    <3>2. pw' = [pw EXCEPT ![w] = r]
      BY <1>1 DEF KafkaInsert
    <3>3. QED BY <2>1, <3>1, <3>2, WriteTyped
  <2>3. pay' \in [Groups -> PaymentRow]
    BY <1>1, <2>1, RowsTyped DEF KafkaInsert
  <2>4. QED BY <1>1, <2>2, <2>3 DEF KafkaInsert
<1>2. ASSUME NEW w \in Workers, Mark(w)
      PROVE  TypedInv'
  BY <1>2, RowsTyped, WriteTyped DEF Mark, Idle
<1>3. ASSUME NEW w \in Workers, NEW g \in Groups, NEW operator \in BOOLEAN,
             InitRead(w, g, operator)
      PROVE  TypedInv'
  <2> DEFINE r == [Idle EXCEPT
                      !.pc = IF pay[g].provider = "stripe" THEN "call" ELSE "lock",
                      !.via = "init", !.group = g, !.provider = pay[g].provider]
  <2>1. r \in Worker /\ r.group = g
    BY DEF Worker, Idle, PaymentRow
  <2>2. pw' = [pw EXCEPT ![w] = r]
    BY <1>3 DEF InitRead
  <2>3. WorkersOK'
    BY <2>1, <2>2, WriteTyped
  <2>4. QED BY <1>3, <2>3 DEF InitRead
<1>4. ASSUME NEW w \in Workers, Lock(w)
      PROVE  TypedInv'
  BY <1>4, StatusTyped, GotoTyped DEF Lock, At
<1>5. ASSUME NEW w \in Workers, LockDenied(w)
      PROVE  TypedInv'
  BY <1>5, ReturnTyped DEF LockDenied, At
<1>6. ASSUME NEW w \in Workers, NEW x \in Sessions, CallOk(w, x)
      PROVE  TypedInv'
  <2> DEFINE r == [pw[w] EXCEPT !.pc = "save", !.ref = x]
  <2>1. r \in Worker /\ r.group = pw[w].group
    <3>1. pw[w] \in Worker
      OBVIOUS
    <3>2. QED BY <3>1, LocalsTyped DEF Worker
  <2>2. pw' = [pw EXCEPT ![w] = r] /\ pw[w].group \in Groups
    BY <1>6 DEF CallOk, Open, At, BusyGrouped
  <2>3. WorkersOK'
    BY <2>1, <2>2, WriteTyped
  <2>4. QED BY <1>6, <2>3, OpenTyped DEF CallOk
<1>7. ASSUME NEW w \in Workers, CallFail(w)
      PROVE  TypedInv'
  BY <1>7, GotoTyped, ReturnTyped DEF CallFail, Refused, At
<1>8. ASSUME NEW w \in Workers, NEW x \in Sessions, CallLost(w, x)
      PROVE  TypedInv'
  <2>1. WorkersOK'
    BY <1>8, GotoTyped, ReturnTyped DEF CallLost, Open, Refused, At
  <2>2. QED BY <1>8, <2>1, OpenTyped DEF CallLost
<1>9. ASSUME NEW w \in Workers, NEW hasLink \in BOOLEAN, Save(w, hasLink)
      PROVE  TypedInv'
  <2>1. WorkersOK'
    BY <1>9, ReturnTyped DEF Save, At
  <2>2. sess' \in [Sessions -> Session]
    <3> DEFINE x == pw[w].ref
               st == IF sess[x].state = "made" THEN "open" ELSE sess[x].state
    <3>1. x \in Sessions =>
              sess[x].state \in {"unused", "made", "open", "paid", "failed"}
      <4>1. sess \in [Sessions -> Session]
        OBVIOUS
      <4>2. QED BY <4>1 DEF Session
    <3>2. sess' = [sess EXCEPT ![x].state = st]
      BY <1>9 DEF Save
    <3>3. QED BY <3>1, <3>2, StateTyped
  <2>3. pay' \in [Groups -> PaymentRow]
    <3> DEFINE g == pw[w].group
               link == Link(pw[w].provider)
               links == IF hasLink THEN pay[g].links \cup {link}
                                   ELSE pay[g].links \ {link}
               st == IF pw[w].via = "kafka" THEN pay[g].status ELSE "initiated"
    <3>1. /\ pw[w].ref \in Sessions \cup {NoSession}
          /\ link \in Links
          /\ g \in Groups
      BY <1>9 DEF Worker, Link, Links, Save, At, BusyGrouped
    <3>2. pay[g] \in PaymentRow
      BY <3>1
    <3>3. links \in SUBSET Links /\ st \in {"absent", "initiated", "creating", "failed", "confirmed"}
      BY <3>1, <3>2, SaveTyped
    <3>4. pay' = [pay EXCEPT ![g] = [pay[g] EXCEPT !.ref = pw[w].ref,
                                                   !.links = links, !.status = st]]
      BY <1>9, <3>1 DEF Save
    <3> HIDE DEF g, links, st
    <3>5. QED BY <3>1, <3>2, <3>3, <3>4, SaveTyped
  <2>4. QED BY <1>9, <2>1, <2>2, <2>3 DEF Save
<1>10. ASSUME NEW w \in Workers, Fail(w)
       PROVE  TypedInv'
  BY <1>10, StatusTyped, ReturnTyped DEF Fail, At
<1>11. ASSUME NEW g \in Groups, NEW provider \in {"paydunya", "pawapay"},
              switchPaymentProvider(g, provider)
       PROVE  TypedInv'
  <2>1. pay' \in [Groups -> PaymentRow]
    BY <1>11, SwitchTyped DEF switchPaymentProvider
  <2>2. switches' \in [Groups -> 0 .. MaxSwitches]
    BY <1>11 DEF switchPaymentProvider
  <2>3. QED BY <1>11, <2>1, <2>2 DEF switchPaymentProvider, BusyGrouped
<1>12. ASSUME NEW x \in Sessions, ProviderPay(x)
       PROVE  TypedInv'
  <2>1. sess' \in [Sessions -> Session]
    BY <1>12, StateTyped DEF ProviderPay
  <2>2. QED BY <1>12, <2>1 DEF ProviderPay, BusyGrouped
<1>13. ASSUME NEW x \in Sessions, ProviderFail(x)
       PROVE  TypedInv'
  <2>1. sess' \in [Sessions -> Session]
    BY <1>13, StateTyped DEF ProviderFail
  <2>2. QED BY <1>13, <2>1 DEF ProviderFail, BusyGrouped
<1>14. ASSUME NEW w \in Workers, NEW x \in Sessions,
              NEW verdict \in {"paid", "failed"}, NEW g \in Groups,
              Webhook(w, x, verdict, g)
       PROVE  TypedInv'
  <2> DEFINE r == [Idle EXCEPT !.pc = "apply", !.via = "hook", !.group = g, !.ref = x,
                               !.paid = Verdict(x, verdict)]
  <2>1. r \in Worker /\ r.group = g
    BY DEF Worker, Idle, Verdict
  <2>2. pw' = [pw EXCEPT ![w] = r]
    BY <1>14 DEF Webhook
  <2>3. WorkersOK'
    BY <2>1, <2>2, WriteTyped
  <2>4. QED BY <1>14, <2>3 DEF Webhook
<1>15. ASSUME NEW w \in Workers, ConfirmPayment(w)
       PROVE  TypedInv'
  <2>1. WorkersOK'
    BY <1>15, GotoTyped, ReturnTyped DEF ConfirmPayment, At
  <2>2. pay' \in [Groups -> PaymentRow]
    <3> DEFINE g == pw[w].group
               ref == IF pay[g].ref = NoSession THEN pw[w].ref ELSE pay[g].ref
    <3>1. /\ pw[w].ref \in Sessions \cup {NoSession}
          /\ g \in Groups
      BY <1>15 DEF Worker, ConfirmPayment, At, BusyGrouped
    <3>2. pay[g] \in PaymentRow
      BY <3>1
    <3>3. ref \in Sessions \cup {NoSession}
      BY <3>1, <3>2, SaveTyped
    <3>4. \/ pay' = pay
          \/ pay' = [pay EXCEPT ![g] = [pay[g] EXCEPT !.status = "confirmed",
                                                      !.ref = ref]]
      BY <1>15, <3>1 DEF ConfirmPayment
    <3> HIDE DEF g, ref
    <3>5. [pay[g] EXCEPT !.status = "confirmed", !.ref = ref] \in PaymentRow
      BY <3>2, <3>3, SaveTyped
    <3>6. QED BY <3>1, <3>4, <3>5
  <2>3. QED BY <1>15, <2>1, <2>2 DEF ConfirmPayment
<1>16. ASSUME NEW w \in Workers, markFailed(w)
       PROVE  TypedInv'
  BY <1>16, StatusTyped, ReturnTyped DEF markFailed, At
<1>17. ASSUME NEW w \in Workers, NEW s \in Subs, NEW done \in BOOLEAN,
              creditVendorWallet(w, s, done)
       PROVE  TypedInv'
  <2> DEFINE r == [pw[w] EXCEPT !.todo = @ \ {s}]
  <2>1. r \in Worker /\ r.group = pw[w].group
    <3>1. pw[w] \in Worker
      OBVIOUS
    <3>2. QED BY <3>1, LocalsTyped DEF Worker
  <2>2. pw[w].group \in Groups
    BY <1>17 DEF creditVendorWallet, At, BusyGrouped
  <2>3. pw' = [pw EXCEPT ![w] = Idle] \/ pw' = [pw EXCEPT ![w] = r]
    <3>1. pw' = [pw EXCEPT ![w] = IF pw[w].todo = {s} THEN Idle ELSE r]
      BY <1>17 DEF creditVendorWallet
    <3>2. QED BY <3>1
  <2>4. WorkersOK'
    BY <2>1, <2>2, <2>3, WriteTyped, RowsTyped DEF Idle
  <2>5. credits' \in [Subs -> Nat]
    BY <1>17 DEF creditVendorWallet
  <2>6. QED BY <1>17, <2>4, <2>5 DEF creditVendorWallet
<1>18. ASSUME NEW w \in Workers, Abandon(w)
       PROVE  TypedInv'
  BY <1>18, WriteTyped, RowsTyped DEF Abandon, Idle
<1>19. ASSUME NEW s \in Subs, OrderCreated(s)
       PROVE  TypedInv'
  BY <1>19 DEF OrderCreated, paymentsOnly, BusyGrouped
<1>20. ASSUME NEW w \in Workers, NEW g \in Groups, Reverify(w, g)
       PROVE  TypedInv'
  <2> DEFINE r == [Idle EXCEPT !.pc = "apply", !.via = "hook", !.group = g,
                               !.ref = pay[g].ref,
                               !.paid = sess[pay[g].ref].state = "paid"]
  <2>1. r \in Worker /\ r.group = g
    BY DEF Worker, Idle, PaymentRow
  <2>2. pw' = [pw EXCEPT ![w] = r]
    BY <1>20 DEF Reverify
  <2>3. WorkersOK'
    BY <2>1, <2>2, WriteTyped, ZenonT(40)
  <2>4. QED BY <1>20, <2>3 DEF Reverify
<1>21. ASSUME NEW w \in Workers, NEW ids \in SUBSET Subs,
              CallConfirm(w, ids), UNCHANGED topicVars
       PROVE  TypedInv'
  <2> DEFINE r == [pw[w] EXCEPT !.pc = "credit", !.todo = ids]
  <2>1. r \in Worker /\ r.group = pw[w].group
    <3>1. pw[w] \in Worker
      OBVIOUS
    <3>2. QED BY <3>1, LocalsTyped DEF Worker
  <2>2. pw[w].group \in Groups
    BY <1>21 DEF CallConfirm, At, BusyGrouped
  <2>3. pw' = [pw EXCEPT ![w] = Idle] \/ pw' = [pw EXCEPT ![w] = r]
    BY <1>21 DEF CallConfirm
  <2>4. WorkersOK'
    BY <2>1, <2>2, <2>3, WriteTyped, RowsTyped DEF Idle
  <2>5. QED BY <1>21, <2>4 DEF CallConfirm
<1>22. CASE UNCHANGED paymentsVars
  BY <1>22 DEF paymentsVars, paymentsOnly, BusyGrouped
<1>23. QED
  BY <1>1, <1>2, <1>3, <1>4, <1>5, <1>6, <1>7, <1>8, <1>9, <1>10, <1>11,
     <1>12, <1>13, <1>14, <1>15, <1>16, <1>17, <1>18, <1>19, <1>20, <1>21,
     <1>22 DEF PaymentsNext, PaymentsInternal

LEMMA TypedInit == PaymentsInit => TypedInv
  BY RowsTyped, PaymentsAssumption, MarketAssumption
     DEF PaymentsInit, TypedInv, PaymentsTypeOK, TopicsInit, TopicsTypeOK,
         BusyGrouped, Idle

\* The tables, the sessions and the locals of the requests hold values of
\* their types in every reachable state.
THEOREM PaymentsTypeCorrect == PaymentsSpec => []PaymentsTypeOK
<1>1. PaymentsSpec => []TypedInv
  BY TypedInit, TypedStep, PTL DEF PaymentsSpec
<1>2. TypedInv => PaymentsTypeOK
  BY DEF TypedInv
<1>3. QED BY <1>1, <1>2, PTL

-----------------------------------------------------------------------------
(* What a step does to the fields of the locals and of the rows *)

SameJob(w) ==
    /\ pw'[w].group = pw[w].group
    /\ pw'[w].provider = pw[w].provider
    /\ pw'[w].ref = pw[w].ref
    /\ pw'[w].paid = pw[w].paid

OthersKeep(w) == \A v \in Workers : v # w => pw'[v] = pw[v]

OtherRowsKeep(g) == \A h \in Groups : h # g => pay'[h] = pay[h]

LEMMA GotoEffect ==
    ASSUME WorkersOK, NEW w \in Workers, NEW pc, Goto(w, pc)
    PROVE  pw'[w].pc = pc /\ SameJob(w) /\ OthersKeep(w)
  BY DEF WorkersOK, Worker, Goto, SameJob, OthersKeep

LEMMA WriteEffect ==
    ASSUME WorkersOK, NEW w \in Workers, NEW r, pw' = [pw EXCEPT ![w] = r]
    PROVE  pw'[w] = r /\ OthersKeep(w)
  BY DEF WorkersOK, OthersKeep

LEMMA ReturnEffect ==
    ASSUME WorkersOK, NEW w \in Workers, Return(w)
    PROVE  pw'[w].pc \in {"mark", "idle"} /\ OthersKeep(w)
  BY GotoEffect, WriteEffect DEF Return, Idle

LEMMA StatusEffect ==
    ASSUME pay \in [Groups -> PaymentRow], NEW g \in Groups, NEW st,
           pay' = [pay EXCEPT ![g].status = st]
    PROVE  /\ pay'[g].status = st
           /\ pay'[g].provider = pay[g].provider
           /\ pay'[g].ref = pay[g].ref
           /\ OtherRowsKeep(g)
  BY DEF PaymentRow, OtherRowsKeep

LEMMA SaveEffect ==
    ASSUME TypedInv, NEW w \in Workers, NEW hasLink \in BOOLEAN, Save(w, hasLink)
    PROVE  /\ pw[w].group \in Groups
           /\ pay'[pw[w].group].status \in {pay[pw[w].group].status, "initiated"}
           /\ pay'[pw[w].group].provider = pay[pw[w].group].provider
           /\ pay'[pw[w].group].ref = pw[w].ref
           /\ OtherRowsKeep(pw[w].group)
<1>1. pw[w].group \in Groups
  BY DEF Save, At, TypedInv, BusyGrouped
<1>2. pay \in [Groups -> PaymentRow]
  BY DEF TypedInv, PaymentsTypeOK
<1>3. QED BY <1>1, <1>2 DEF Save, PaymentRow, OtherRowsKeep

LEMMA ConfirmEffect ==
    ASSUME TypedInv, NEW w \in Workers, ConfirmPayment(w)
    PROVE  /\ pw[w].group \in Groups
           /\ OtherRowsKeep(pw[w].group)
           /\ \/ /\ PayStatus(pw[w].group) \in {"initiated", "failed"}
                 /\ pay'[pw[w].group].status = "confirmed"
                 /\ pay'[pw[w].group].provider = pay[pw[w].group].provider
                 /\ pay'[pw[w].group].ref \in {pay[pw[w].group].ref, pw[w].ref}
                 /\ Goto(w, "notify")
              \/ /\ UNCHANGED pay
                 /\ Return(w)
<1>1. pw[w].group \in Groups
  BY DEF ConfirmPayment, At, TypedInv, BusyGrouped
<1>2. pay \in [Groups -> PaymentRow]
  BY DEF TypedInv, PaymentsTypeOK
<1>3. CASE PayStatus(pw[w].group) \in {"initiated", "failed"}
  <2> DEFINE g == pw[w].group
             ref == IF pay[g].ref = NoSession THEN pw[w].ref ELSE pay[g].ref
  <2>1. pay' = [pay EXCEPT ![g] = [pay[g] EXCEPT !.status = "confirmed",
                                                 !.ref = ref]]
    BY <1>3 DEF ConfirmPayment
  <2>2. ref \in {pay[g].ref, pw[w].ref}
    OBVIOUS
  <2> HIDE DEF g, ref
  <2>3. QED BY <1>1, <1>2, <1>3, <2>1, <2>2
            DEF ConfirmPayment, PaymentRow, OtherRowsKeep, g
<1>4. CASE ~(PayStatus(pw[w].group) \in {"initiated", "failed"})
  BY <1>1, <1>4 DEF ConfirmPayment, OtherRowsKeep
<1>5. QED BY <1>3, <1>4

LEMMA TypedWorkers == TypedInv => WorkersOK /\ pay \in [Groups -> PaymentRow]
  BY DEF TypedInv, WorkersOK, PaymentsTypeOK

-----------------------------------------------------------------------------
(* The lock *)

CreatingPcs == {"lock", "call", "save", "fail"}

\* Until the provider of a group is switched, its row and every worker that is
\* creating a session for it have the provider chosen at the checkout.
RowAsChosen ==
    \A g \in Groups : PayStatus(g) # "absent" /\ switches[g] = 0 =>
        pay[g].provider = MethodOf[g]

WorkersAsChosen ==
    \A w \in Workers :
        pw[w].pc \in CreatingPcs /\ switches[pw[w].group] = 0 =>
            pw[w].provider = MethodOf[pw[w].group]

\* They create it for a row that exists; a card payment neither takes the lock
\* nor records a failed creation.
WorkersHaveRow ==
    \A w \in Workers : pw[w].pc \in CreatingPcs => PayStatus(pw[w].group) # "absent"

CardsUnlocked ==
    \A w \in Workers : pw[w].pc \in {"lock", "fail"} => pw[w].provider # "stripe"

LockInv ==
    /\ RowAsChosen
    /\ WorkersAsChosen
    /\ WorkersHaveRow
    /\ CardsUnlocked
    /\ OneCreationAtATime

\* Workers keep their locals, stop creating, or go on after their call.
Recedes ==
    \A v \in Workers :
        \/ pw'[v] = pw[v]
        \/ pw'[v].pc \notin CreatingPcs
        \/ /\ pw[v].pc = "call"
           /\ pw'[v].pc \in {"save", "fail"}
           /\ pw'[v].pc = "fail" => pw[v].provider # "stripe"
           /\ pw'[v].group = pw[v].group
           /\ pw'[v].provider = pw[v].provider

\* The lock is not disturbed by a step in which nobody begins to create, the
\* rows keep their statuses and providers, and nothing is switched.
LEMMA LockUndisturbed ==
    ASSUME TypedInv, LockInv, Recedes, UNCHANGED switches,
           \A g \in Groups : /\ pay'[g].status = pay[g].status
                             /\ pay'[g].provider = pay[g].provider
    PROVE  LockInv'
<1>1. \A v \in Workers : pw'[v].pc \in CreatingPcs =>
          /\ pw[v].pc \in CreatingPcs
          /\ pw'[v].group = pw[v].group
          /\ pw'[v].provider = pw[v].provider
          /\ pw[v].group \in Groups
  BY DEF Recedes, CreatingPcs, TypedInv, BusyGrouped
<1>2. \A v \in Workers : Creating(v)' => Creating(v)
  BY DEF Recedes, Creating, CreatingPcs
<1>3. RowAsChosen' /\ WorkersAsChosen' /\ WorkersHaveRow'
  BY <1>1 DEF LockInv, RowAsChosen, WorkersAsChosen, WorkersHaveRow, PayStatus
<1>4. CardsUnlocked'
  BY <1>1 DEF LockInv, CardsUnlocked, Recedes, CreatingPcs
<1>5. OneCreationAtATime'
  BY <1>1, <1>2 DEF LockInv, OneCreationAtATime, Creating, CreatingPcs, PayStatus
<1>6. QED BY <1>3, <1>4, <1>5 DEF LockInv

\* Nor by one that changes the row of a group without creators left, unless it
\* makes a row of another provider than the one chosen.
LEMMA LockFreed ==
    ASSUME TypedInv, LockInv, Recedes, UNCHANGED switches, NEW g \in Groups,
           OtherRowsKeep(g),
           pay'[g].status # "absent",
           switches[g] = 0 => pay'[g].provider = MethodOf[g],
           switches[g] = 0 => \A v \in Workers : Creating(v)' => pw'[v].group # g
    PROVE  LockInv'
<1>1. \A v \in Workers : pw'[v].pc \in CreatingPcs =>
          /\ pw[v].pc \in CreatingPcs
          /\ pw'[v].group = pw[v].group
          /\ pw'[v].provider = pw[v].provider
          /\ pw[v].group \in Groups
  BY DEF Recedes, CreatingPcs, TypedInv, BusyGrouped
<1>2. \A v \in Workers : Creating(v)' => Creating(v)
  BY DEF Recedes, Creating, CreatingPcs
<1>3. RowAsChosen' /\ WorkersAsChosen' /\ WorkersHaveRow'
  BY <1>1 DEF LockInv, RowAsChosen, WorkersAsChosen, WorkersHaveRow, PayStatus,
     OtherRowsKeep
<1>4. CardsUnlocked'
  BY <1>1 DEF LockInv, CardsUnlocked, Recedes, CreatingPcs
<1>5. OneCreationAtATime'
  BY <1>1, <1>2 DEF LockInv, OneCreationAtATime, Creating, CreatingPcs, PayStatus,
     OtherRowsKeep
<1>6. QED BY <1>3, <1>4, <1>5 DEF LockInv

\* Whatever happens, the lock is kept.
LEMMA LockStep ==
    TypedInv /\ LockInv /\ [PaymentsNext]_paymentsVars => LockInv'
<1> SUFFICES ASSUME TypedInv, LockInv, [PaymentsNext]_paymentsVars
             PROVE  LockInv'
  OBVIOUS
<1> WorkersOK /\ pay \in [Groups -> PaymentRow]
  BY TypedWorkers
<1>1. ASSUME NEW w \in Workers, NEW s \in Subs, NEW reached \in BOOLEAN,
             KafkaInsert(w, s, reached)
      PROVE  LockInv'
  <2> DEFINE g == GroupOf[s]
  <2>1. g \in Groups /\ MethodOf[g] \in Providers
    BY MarketAssumption
  <2>2. OthersKeep(w) /\ pw'[w].group = g /\ pw'[w].provider = MethodOf[g]
        /\ pw'[w].pc \in {"lock", "mark"}
        /\ (pw'[w].pc = "lock" => MethodOf[g] = "paydunya")
    <3> DEFINE r == [Idle EXCEPT !.pc = IF /\ PayStatus(g) = "absent"
                                           /\ MethodOf[g] = "paydunya"
                                        THEN "lock" ELSE "mark",
                                 !.via = "kafka", !.group = g, !.sub = s,
                                 !.provider = MethodOf[g]]
    <3>1. /\ r.group = g /\ r.provider = MethodOf[g]
          /\ r.pc \in {"lock", "mark"}
          /\ r.pc = "lock" => MethodOf[g] = "paydunya"
      BY DEF Idle
    <3>2. pw' = [pw EXCEPT ![w] = r]
      BY <1>1 DEF KafkaInsert
    <3> HIDE DEF r, g
    <3>3. QED BY <3>1, <3>2, WriteEffect
  <2>3. /\ OtherRowsKeep(g)
        /\ \/ /\ PayStatus(g) # "absent"
              /\ pay'[g].status = PayStatus(g)
              /\ pay'[g].provider = pay[g].provider
           \/ /\ PayStatus(g) = "absent"
              /\ pay'[g].status = "initiated"
              /\ pay'[g].provider = MethodOf[g]
    BY <1>1, <2>1 DEF KafkaInsert, NewPayment, OtherRowsKeep, PayStatus
  <2>4. pay'[g].status # "absent" /\ UNCHANGED switches
    BY <1>1, <2>3 DEF KafkaInsert
  <2>5. \A v \in Workers : v # w /\ pw'[v].pc \in CreatingPcs =>
            pw'[v] = pw[v] /\ pw[v].group \in Groups
    BY <2>2 DEF OthersKeep, CreatingPcs, TypedInv, BusyGrouped
  <2> HIDE DEF g
  <2>6. RowAsChosen' /\ WorkersAsChosen' /\ WorkersHaveRow'
    BY <2>1, <2>2, <2>3, <2>4, <2>5 DEF LockInv, RowAsChosen, WorkersAsChosen,
       WorkersHaveRow, PayStatus, OtherRowsKeep
  <2>7. CardsUnlocked'
    BY <2>2 DEF LockInv, CardsUnlocked, OthersKeep
  <2>8. \A v \in Workers : Creating(v)' => v # w /\ pw'[v] = pw[v]
    BY <2>2 DEF Creating, OthersKeep
  <2>9. OneCreationAtATime'
    BY <2>3, <2>4, <2>5, <2>8 DEF LockInv, OneCreationAtATime, Creating,
       CreatingPcs, PayStatus, OtherRowsKeep
  <2>10. QED BY <2>6, <2>7, <2>9 DEF LockInv
<1>2. ASSUME NEW w \in Workers, Mark(w)
      PROVE  LockInv'
  <2>1. Recedes
    BY <1>2, WriteEffect DEF Recedes, OthersKeep, CreatingPcs, At, Mark, Idle
  <2>2. QED BY <1>2, <2>1, LockUndisturbed DEF Mark
<1>3. ASSUME NEW w \in Workers, NEW g \in Groups, NEW operator \in BOOLEAN,
             InitRead(w, g, operator)
      PROVE  LockInv'
  <2>1. /\ OthersKeep(w)
        /\ pw'[w].group = g
        /\ pw'[w].provider = pay[g].provider
        /\ pw'[w].pc \in {"call", "lock"}
        /\ pw'[w].pc = "call" <=> pay[g].provider = "stripe"
        /\ PayStatus(g) # "absent"
    <3> DEFINE r == [Idle EXCEPT
                        !.pc = IF pay[g].provider = "stripe" THEN "call" ELSE "lock",
                        !.via = "init", !.group = g, !.provider = pay[g].provider]
    <3>1. /\ r.group = g /\ r.provider = pay[g].provider
          /\ r.pc \in {"call", "lock"}
          /\ r.pc = "call" <=> pay[g].provider = "stripe"
      BY DEF Idle
    <3>2. pw' = [pw EXCEPT ![w] = r] /\ PayStatus(g) # "absent"
      BY <1>3 DEF InitRead, PayStatus
    <3> HIDE DEF r
    <3>3. QED BY <3>1, <3>2, WriteEffect
  <2>2. UNCHANGED <<pay, switches>>
    BY <1>3 DEF InitRead
  <2>3. RowAsChosen' /\ WorkersAsChosen' /\ WorkersHaveRow' /\ CardsUnlocked'
    BY <2>1, <2>2 DEF LockInv, RowAsChosen, WorkersAsChosen, WorkersHaveRow,
       CardsUnlocked, PayStatus, OthersKeep
  <2>4. \A v \in Workers : Creating(v)' => v # w /\ pw'[v] = pw[v]
    BY <2>1 DEF Creating, OthersKeep
  <2>5. OneCreationAtATime'
    BY <2>2, <2>4 DEF LockInv, OneCreationAtATime, Creating, PayStatus
  <2>6. QED BY <2>3, <2>5 DEF LockInv
<1>4. ASSUME NEW w \in Workers, Lock(w)
      PROVE  LockInv'
  <2> DEFINE g == pw[w].group
  <2>1. g \in Groups /\ pw[w].pc = "lock" /\ PayStatus(g) # "creating"
    BY <1>4 DEF Lock, At, Lockable, TypedInv, BusyGrouped
  <2>2. pw'[w].pc = "call" /\ SameJob(w) /\ OthersKeep(w)
    BY <1>4, GotoEffect DEF Lock
  <2>3. /\ pay'[g].status = "creating"
        /\ pay'[g].provider = pay[g].provider
        /\ OtherRowsKeep(g)
    BY <1>4, <2>1, StatusEffect DEF Lock
  <2>4. UNCHANGED switches /\ PayStatus(g) # "absent"
    BY <1>4 DEF Lock, Lockable
  <2>5. \A v \in Workers : v # w /\ pw'[v].pc \in CreatingPcs =>
            pw'[v] = pw[v] /\ pw[v].group \in Groups
    BY <2>2 DEF OthersKeep, CreatingPcs, TypedInv, BusyGrouped
  <2>6. RowAsChosen' /\ WorkersAsChosen' /\ WorkersHaveRow'
    BY <2>1, <2>2, <2>3, <2>4, <2>5 DEF LockInv, RowAsChosen, WorkersAsChosen,
       WorkersHaveRow, PayStatus, OtherRowsKeep, SameJob, CreatingPcs
  <2>7. CardsUnlocked'
    BY <2>2 DEF LockInv, CardsUnlocked, OthersKeep
  <2>8. switches[g] = 0 => \A v \in Workers : Creating(v) => pw[v].group # g
    BY <2>1 DEF LockInv, OneCreationAtATime
  <2>9. OneCreationAtATime'
    BY <2>1, <2>2, <2>3, <2>4, <2>5, <2>8 DEF LockInv, OneCreationAtATime, Creating,
       CreatingPcs, PayStatus, OtherRowsKeep, SameJob
  <2>10. QED BY <2>6, <2>7, <2>9 DEF LockInv
<1>5. ASSUME NEW w \in Workers, LockDenied(w)
      PROVE  LockInv'
  <2>1. Recedes
    BY <1>5, ReturnEffect DEF Recedes, OthersKeep, CreatingPcs, At, LockDenied
  <2>2. QED BY <1>5, <2>1, LockUndisturbed DEF LockDenied
<1>6. ASSUME NEW w \in Workers, NEW x \in Sessions, CallOk(w, x)
      PROVE  LockInv'
  <2> DEFINE r == [pw[w] EXCEPT !.pc = "save", !.ref = x]
  <2>1. /\ r.pc = "save"
        /\ r.group = pw[w].group
        /\ r.provider = pw[w].provider
    BY DEF WorkersOK, Worker
  <2>2. pw' = [pw EXCEPT ![w] = r]
    BY <1>6 DEF CallOk
  <2> HIDE DEF r
  <2>3. Recedes
    BY <1>6, <2>1, <2>2, WriteEffect DEF CallOk, Open, At, Recedes, OthersKeep
  <2>4. QED BY <1>6, <2>3, LockUndisturbed DEF CallOk
<1>7. ASSUME NEW w \in Workers, CallFail(w)
      PROVE  LockInv'
  <2>1. Recedes
    BY <1>7, GotoEffect, ReturnEffect DEF Recedes, OthersKeep, CreatingPcs, At, CallFail, Refused, SameJob
  <2>2. QED BY <1>7, <2>1, LockUndisturbed DEF CallFail
<1>8. ASSUME NEW w \in Workers, NEW x \in Sessions, CallLost(w, x)
      PROVE  LockInv'
  <2>1. Recedes
    BY <1>8, GotoEffect, ReturnEffect DEF Recedes, OthersKeep, CreatingPcs, At, CallLost, Open, Refused, SameJob
  <2>2. QED BY <1>8, <2>1, LockUndisturbed DEF CallLost
<1>9. ASSUME NEW w \in Workers, NEW hasLink \in BOOLEAN, Save(w, hasLink)
      PROVE  LockInv'
  <2> DEFINE g == pw[w].group
  <2>1. Recedes /\ UNCHANGED switches /\ pw[w].pc = "save"
    BY <1>9, ReturnEffect DEF Save, At, Recedes, OthersKeep, CreatingPcs
  <2>2. /\ g \in Groups
        /\ OtherRowsKeep(g)
        /\ pay'[g].provider = pay[g].provider
        /\ pay'[g].status \in {PayStatus(g), "initiated", "failed"}
    BY <1>9, SaveEffect DEF Save, PayStatus, At, TypedInv, BusyGrouped
  <2>3. PayStatus(g) # "absent" /\ pay'[g].status # "absent"
    BY <2>1, <2>2 DEF LockInv, WorkersHaveRow, CreatingPcs
  <2>4. switches[g] = 0 => pay'[g].provider = MethodOf[g]
    BY <2>2, <2>3 DEF LockInv, RowAsChosen
  <2>5. ~Creating(w)' /\ \A v \in Workers : Creating(v)' =>
            Creating(v) /\ pw'[v].group = pw[v].group
    BY <1>9, <2>1, ReturnEffect DEF Save, Recedes, Creating, CreatingPcs
  <2>6. ASSUME switches[g] = 0, NEW v \in Workers, Creating(v)', pw'[v].group = g
        PROVE  FALSE
    <3>1. Creating(v) /\ pw[v].group = g /\ v # w
      BY <2>5, <2>6
    <3>2. pw[v].provider = MethodOf[g] /\ pw[w].provider = MethodOf[g]
      BY <2>1, <2>6, <3>1 DEF LockInv, WorkersAsChosen, Creating, CreatingPcs
    <3>3. Creating(w)
      BY <2>1, <3>1, <3>2 DEF Creating
    <3>4. QED BY <2>6, <3>1, <3>3 DEF LockInv, OneCreationAtATime
  <2>7. QED BY <2>1, <2>2, <2>3, <2>4, <2>6, LockFreed
<1>10. ASSUME NEW w \in Workers, Fail(w)
       PROVE  LockInv'
  <2> DEFINE g == pw[w].group
  <2>1. Recedes /\ UNCHANGED switches /\ pw[w].pc = "fail"
    BY <1>10, ReturnEffect DEF Fail, At, Recedes, OthersKeep, CreatingPcs
  <2>2. /\ g \in Groups
        /\ OtherRowsKeep(g)
        /\ pay'[g].provider = pay[g].provider
        /\ pay'[g].status \in {PayStatus(g), "initiated", "failed"}
    BY <1>10, StatusEffect DEF Fail, PayStatus, At, TypedInv, BusyGrouped
  <2>3. PayStatus(g) # "absent" /\ pay'[g].status # "absent"
    BY <2>1, <2>2 DEF LockInv, WorkersHaveRow, CreatingPcs
  <2>4. switches[g] = 0 => pay'[g].provider = MethodOf[g]
    BY <2>2, <2>3 DEF LockInv, RowAsChosen
  <2>5. ~Creating(w)' /\ \A v \in Workers : Creating(v)' =>
            Creating(v) /\ pw'[v].group = pw[v].group
    BY <1>10, <2>1, ReturnEffect DEF Fail, Recedes, Creating, CreatingPcs
  <2>6. ASSUME switches[g] = 0, NEW v \in Workers, Creating(v)', pw'[v].group = g
        PROVE  FALSE
    <3>1. Creating(v) /\ pw[v].group = g /\ v # w
      BY <2>5, <2>6
    <3>2. pw[v].provider = MethodOf[g] /\ pw[w].provider = MethodOf[g]
      BY <2>1, <2>6, <3>1 DEF LockInv, WorkersAsChosen, Creating, CreatingPcs
    <3>3. Creating(w)
      BY <2>1, <3>1, <3>2 DEF Creating
    <3>4. QED BY <2>6, <3>1, <3>3 DEF LockInv, OneCreationAtATime
  <2>7. QED BY <2>1, <2>2, <2>3, <2>4, <2>6, LockFreed
<1>11. ASSUME NEW g \in Groups, NEW provider \in {"paydunya", "pawapay"},
              switchPaymentProvider(g, provider)
       PROVE  LockInv'
  <2>1. UNCHANGED pw /\ OtherRowsKeep(g) /\ pay'[g].status = "initiated"
    BY <1>11 DEF switchPaymentProvider, OtherRowsKeep, PaymentRow
  <2>2. switches'[g] > 0 /\ switches'[g] # 0
        /\ \A h \in Groups : h # g => switches'[h] = switches[h]
    BY <1>11, PaymentsAssumption DEF switchPaymentProvider, TypedInv, PaymentsTypeOK
  <2>3. \A v \in Workers : pw[v].pc \in CreatingPcs => pw[v].group \in Groups
    BY DEF CreatingPcs, TypedInv, BusyGrouped
  <2>4. RowAsChosen' /\ WorkersAsChosen' /\ WorkersHaveRow' /\ CardsUnlocked'
    BY <2>1, <2>2, <2>3 DEF LockInv, RowAsChosen, WorkersAsChosen, WorkersHaveRow,
       CardsUnlocked, PayStatus, OtherRowsKeep
  <2>5. OneCreationAtATime'
    BY <2>1, <2>2, <2>3 DEF LockInv, OneCreationAtATime, Creating, CreatingPcs,
       PayStatus, OtherRowsKeep
  <2>6. QED BY <2>4, <2>5 DEF LockInv
<1>12. ASSUME NEW x \in Sessions, ProviderPay(x)
       PROVE  LockInv'
  BY <1>12, LockUndisturbed DEF ProviderPay, Recedes
<1>13. ASSUME NEW x \in Sessions, ProviderFail(x)
       PROVE  LockInv'
  BY <1>13, LockUndisturbed DEF ProviderFail, Recedes
<1>14. ASSUME NEW w \in Workers, NEW x \in Sessions,
              NEW verdict \in {"paid", "failed"}, NEW g \in Groups,
              Webhook(w, x, verdict, g)
       PROVE  LockInv'
  <2>1. Recedes
    BY <1>14, WriteEffect DEF Recedes, OthersKeep, CreatingPcs, At, Webhook, Idle
  <2>2. QED BY <1>14, <2>1, LockUndisturbed DEF Webhook
<1>15. ASSUME NEW w \in Workers, ConfirmPayment(w)
       PROVE  LockInv'
  <2> DEFINE g == pw[w].group
  <2>1. Recedes /\ UNCHANGED switches
    BY <1>15, GotoEffect, ReturnEffect DEF ConfirmPayment, At, Recedes, OthersKeep, CreatingPcs
  <2>2. UNCHANGED pay \/ LockInv'
    <3> SUFFICES ASSUME PayStatus(g) \in {"initiated", "failed"},
                        pay'[g].status \in {"failed", "confirmed"},
                        pay'[g].provider = pay[g].provider,
                        OtherRowsKeep(g), g \in Groups
                 PROVE  LockInv'
      BY <1>15, ConfirmEffect
    <3>1. switches[g] = 0 => pay'[g].provider = MethodOf[g]
      BY DEF LockInv, RowAsChosen
    <3>2. switches[g] = 0 => \A v \in Workers : Creating(v)' => pw'[v].group # g
      BY <2>1 DEF LockInv, OneCreationAtATime, Recedes, Creating, CreatingPcs
    <3>3. QED BY <2>1, <3>1, <3>2, LockFreed
  <2>3. QED BY <1>15, <2>1, <2>2, LockUndisturbed DEF ConfirmPayment
<1>16. ASSUME NEW w \in Workers, markFailed(w)
       PROVE  LockInv'
  <2> DEFINE g == pw[w].group
  <2>1. Recedes /\ UNCHANGED switches
    BY <1>16, ReturnEffect DEF markFailed, At, Recedes, OthersKeep, CreatingPcs
  <2>2. UNCHANGED pay \/ LockInv'
    <3> SUFFICES ASSUME PayStatus(g) \in {"initiated", "failed"},
                        pay'[g].status \in {"failed", "confirmed"},
                        pay'[g].provider = pay[g].provider,
                        OtherRowsKeep(g), g \in Groups
                 PROVE  LockInv'
      BY <1>16, StatusEffect DEF markFailed, Failable, At, TypedInv, BusyGrouped
    <3>1. switches[g] = 0 => pay'[g].provider = MethodOf[g]
      BY DEF LockInv, RowAsChosen
    <3>2. switches[g] = 0 => \A v \in Workers : Creating(v)' => pw'[v].group # g
      BY <2>1 DEF LockInv, OneCreationAtATime, Recedes, Creating, CreatingPcs
    <3>3. QED BY <2>1, <3>1, <3>2, LockFreed
  <2>3. QED BY <1>16, <2>1, <2>2, LockUndisturbed DEF markFailed
<1>17. ASSUME NEW w \in Workers, NEW s \in Subs, NEW done \in BOOLEAN,
              creditVendorWallet(w, s, done)
       PROVE  LockInv'
  <2> DEFINE r == [pw[w] EXCEPT !.todo = @ \ {s}]
  <2>1. r.pc = pw[w].pc
    BY DEF WorkersOK, Worker
  <2>2. pw' = [pw EXCEPT ![w] = IF pw[w].todo = {s} THEN Idle ELSE r]
    BY <1>17 DEF creditVendorWallet
  <2>3. pw'[w].pc \in {"idle", "credit"} /\ OthersKeep(w)
    BY <1>17, <2>1, <2>2, WriteEffect DEF creditVendorWallet, Idle, At
  <2>4. Recedes
    BY <2>3 DEF Recedes, OthersKeep, CreatingPcs
  <2>5. QED BY <1>17, <2>4, LockUndisturbed DEF creditVendorWallet
<1>18. ASSUME NEW w \in Workers, Abandon(w)
       PROVE  LockInv'
  <2>1. Recedes
    BY <1>18, WriteEffect DEF Recedes, OthersKeep, CreatingPcs, At, Abandon, Idle
  <2>2. QED BY <1>18, <2>1, LockUndisturbed DEF Abandon
<1>19. ASSUME NEW s \in Subs, OrderCreated(s)
       PROVE  LockInv'
  BY <1>19, LockUndisturbed DEF OrderCreated, paymentsOnly, Recedes
<1>20. ASSUME NEW w \in Workers, NEW g \in Groups, Reverify(w, g)
       PROVE  LockInv'
  <2>1. Recedes
    BY <1>20, WriteEffect DEF Recedes, OthersKeep, CreatingPcs, At, Reverify, Idle
  <2>2. QED BY <1>20, <2>1, LockUndisturbed DEF Reverify
<1>21. ASSUME NEW w \in Workers, NEW ids \in SUBSET Subs,
              CallConfirm(w, ids), UNCHANGED topicVars
       PROVE  LockInv'
  <2> DEFINE r == [pw[w] EXCEPT !.pc = "credit", !.todo = ids]
  <2>1. r.pc = "credit"
    BY DEF WorkersOK, Worker
  <2>2. pw' = [pw EXCEPT ![w] = IF ids = {} THEN Idle ELSE r]
    BY <1>21 DEF CallConfirm
  <2>3. pw'[w].pc \in {"idle", "credit"} /\ OthersKeep(w)
    BY <1>21, <2>1, <2>2, WriteEffect DEF Idle
  <2>4. Recedes
    BY <2>3 DEF Recedes, OthersKeep, CreatingPcs
  <2>5. QED BY <1>21, <2>4, LockUndisturbed DEF CallConfirm
<1>22. CASE UNCHANGED paymentsVars
  BY <1>22, LockUndisturbed DEF paymentsVars, paymentsOnly, Recedes
<1>23. QED
  BY <1>1, <1>2, <1>3, <1>4, <1>5, <1>6, <1>7, <1>8, <1>9, <1>10, <1>11,
     <1>12, <1>13, <1>14, <1>15, <1>16, <1>17, <1>18, <1>19, <1>20, <1>21,
     <1>22 DEF PaymentsNext, PaymentsInternal

LEMMA LockInit == PaymentsInit => LockInv
  BY DEF PaymentsInit, LockInv, RowAsChosen, WorkersAsChosen, WorkersHaveRow,
     CardsUnlocked, OneCreationAtATime, Creating, CreatingPcs, Idle, NoPayment,
     PayStatus

\* As long as nobody switches its provider, at most one request or handler
\* creates the invoice or the deposit of a group, and the row says so.
THEOREM OneCreation == PaymentsSpec => []OneCreationAtATime
<1>1. PaymentsSpec => [](TypedInv /\ LockInv)
  BY TypedInit, TypedStep, LockInit, LockStep, PTL DEF PaymentsSpec
<1>2. LockInv => OneCreationAtATime
  BY DEF LockInv
<1>3. QED BY <1>1, <1>2, PTL

-----------------------------------------------------------------------------
(* Confirmations are final *)

\* Only the end of a creation can take a row out of 'confirmed'.
LEMMA WhoReopens ==
    ASSUME TypedInv, [PaymentsNext]_paymentsVars, NEW g \in Groups,
           PayStatus(g) = "confirmed", PayStatus(g)' # "confirmed"
    PROVE  \E w \in Workers :
               /\ pw[w].group = g
               /\ \/ pw[w].pc = "save" /\ PayStatus(g)' = "initiated"
                  \/ pw[w].pc = "fail"
<1> USE TypedWorkers DEF PayStatus
<1>1. ASSUME NEW s \in Subs, NEW reached \in BOOLEAN, NEW w \in Workers,
             KafkaInsert(w, s, reached)
      PROVE  FALSE
  BY <1>1, MarketAssumption DEF KafkaInsert
<1>2. ASSUME NEW w \in Workers, Lock(w)
      PROVE  FALSE
  BY <1>2, StatusEffect DEF Lock, Lockable, At, TypedInv, BusyGrouped, OtherRowsKeep
<1>3. ASSUME NEW w \in Workers, NEW hasLink \in BOOLEAN, Save(w, hasLink)
      PROVE  pw[w].group = g /\ pw[w].pc = "save" /\ PayStatus(g)' = "initiated"
  BY <1>3, SaveEffect DEF Save, At, OtherRowsKeep
<1>4. ASSUME NEW w \in Workers, Fail(w)
      PROVE  pw[w].group = g /\ pw[w].pc = "fail"
  BY <1>4, StatusEffect DEF Fail, At, TypedInv, BusyGrouped, OtherRowsKeep
<1>5. ASSUME NEW h \in Groups, NEW provider \in {"paydunya", "pawapay"},
             switchPaymentProvider(h, provider)
      PROVE  FALSE
  BY <1>5 DEF switchPaymentProvider
<1>6. ASSUME NEW w \in Workers, ConfirmPayment(w)
      PROVE  FALSE
  BY <1>6, ConfirmEffect DEF OtherRowsKeep
<1>7. ASSUME NEW w \in Workers, markFailed(w)
      PROVE  FALSE
  BY <1>7, StatusEffect DEF markFailed, Failable, At, TypedInv, BusyGrouped, OtherRowsKeep
<1>8. CASE UNCHANGED pay
  BY <1>8
<1>9. QED
  BY <1>1, <1>2, <1>3, <1>4, <1>5, <1>6, <1>7, <1>8
     DEF PaymentsNext, PaymentsInternal, Mark, InitRead, LockDenied, CallOk,
         CallFail, CallLost, ProviderPay, ProviderFail, Webhook,
         creditVendorWallet, Abandon, OrderCreated, Reverify, CallConfirm,
         paymentsVars, paymentsOnly

\* And none of those that create for a group whose provider has not been
\* switched does, unless it is paid by card and the row was saved again.
LEMMA StaysConfirmed ==
    ASSUME TypedInv, LockInv, [PaymentsNext]_paymentsVars, NEW g \in Groups,
           PayStatus(g) = "confirmed", switches[g] = 0
    PROVE  /\ PayStatus(g)' # "failed"
           /\ MethodOf[g] # "stripe" => PayStatus(g)' = "confirmed"
<1> SUFFICES ASSUME PayStatus(g)' # "confirmed"
             PROVE  PayStatus(g)' = "initiated" /\ MethodOf[g] = "stripe"
  OBVIOUS
<1>1. PICK w \in Workers :
          /\ pw[w].group = g
          /\ \/ pw[w].pc = "save" /\ PayStatus(g)' = "initiated"
             \/ pw[w].pc = "fail"
  BY WhoReopens
<1>2. ~Creating(w)
  BY <1>1 DEF LockInv, OneCreationAtATime
<1>3. pw[w].provider = "stripe"
  BY <1>1, <1>2 DEF Creating
<1>4. pw[w].pc # "fail"
  BY <1>3 DEF LockInv, CardsUnlocked
<1>5. MethodOf[g] = "stripe"
  BY <1>1, <1>3 DEF LockInv, WorkersAsChosen, CreatingPcs
<1>6. QED BY <1>1, <1>4, <1>5

\* Nothing undoes the confirmation of a payment by PayDunya or PawaPay whose
\* provider has not been switched.
THEOREM Finality == PaymentsSpec => ConfirmedIsFinal
<1>1. PaymentsSpec => [](TypedInv /\ LockInv)
  BY TypedInit, TypedStep, LockInit, LockStep, PTL DEF PaymentsSpec
<1>2. TypedInv /\ LockInv /\ [PaymentsNext]_paymentsVars =>
          [\A g \in Groups : PayStatus(g) = "confirmed" /\ Untouched(g)
                               => PayStatus(g)' = "confirmed"]_paymentsVars
  BY StaysConfirmed DEF Untouched
<1>3. QED BY <1>1, <1>2, PTL DEF PaymentsSpec, ConfirmedIsFinal

\* A failure notified late never makes a confirmed payment a failed one.
THEOREM LateFailures == PaymentsSpec => NoLateFailure
<1>1. PaymentsSpec => [](TypedInv /\ LockInv)
  BY TypedInit, TypedStep, LockInit, LockStep, PTL DEF PaymentsSpec
<1>2. TypedInv /\ LockInv /\ [PaymentsNext]_paymentsVars =>
          [\A g \in Groups : PayStatus(g) = "confirmed" /\ switches[g] = 0
                               => PayStatus(g)' # "failed"]_paymentsVars
  BY StaysConfirmed
<1>3. QED BY <1>1, <1>2, PTL DEF PaymentsSpec, NoLateFailure

-----------------------------------------------------------------------------
(* Confirmations are earned *)

\* A paid notification is about a session that has been paid.
HooksTrue == \A x \in Sessions : <<x, "paid">> \in hooks => sess[x].state = "paid"

\* The reference of a row is a session opened for that row's group, ...
RefsOwned ==
    \A g \in Groups : pay[g].ref # NoSession =>
        /\ sess[pay[g].ref].group = g
        /\ sess[pay[g].ref].state # "unused"

\* ... and so is the reference that a worker is about to save.
SavesOwned ==
    \A w \in Workers : pw[w].pc = "save" =>
        /\ pw[w].ref \in Sessions
        /\ sess[pw[w].ref].group = pw[w].group
        /\ sess[pw[w].ref].state # "unused"

\* A worker about to confirm holds a session of its group that has been paid.
ApplyEarned ==
    \A w \in Workers : pw[w].pc = "apply" /\ pw[w].paid =>
        /\ pw[w].ref \in Sessions
        /\ sess[pw[w].ref].group = pw[w].group
        /\ sess[pw[w].ref].state = "paid"

EarnedInv ==
    /\ HooksTrue
    /\ RefsOwned
    /\ SavesOwned
    /\ ApplyEarned
    /\ ConfirmedMeansPaid

\* A session belongs to its group for good, and a paid one stays paid.
SessGrow ==
    \A x \in Sessions :
        /\ sess[x].state # "unused" => /\ sess'[x].group = sess[x].group
                                       /\ sess'[x].state # "unused"
        /\ sess[x].state = "paid" => sess'[x].state = "paid"

\* Nobody learns of a session.
Forgets == \A v \in Workers : pw'[v] = pw[v] \/ pw'[v].pc \notin {"save", "apply"}

LEMMA RefsTyped == TypedInv => \A g \in Groups : pay[g].ref \in Sessions \cup {NoSession}
  BY TypedWorkers DEF PaymentRow

LEMMA SessTyped == TypedInv => sess \in [Sessions -> Session]
  BY DEF TypedInv, PaymentsTypeOK

LEMMA OpenEffect ==
    ASSUME TypedInv, NEW w \in Workers, NEW x \in Sessions, Open(w, x)
    PROVE  /\ SessGrow
           /\ sess'[x].group = pw[w].group
           /\ sess'[x].state # "unused"
  BY SessTyped DEF Open, SessGrow

LEMMA EarnedUndisturbed ==
    ASSUME TypedInv, EarnedInv, Forgets, SessGrow, HooksTrue',
           \A g \in Groups : /\ pay'[g].ref \in {pay[g].ref, NoSession}
                             /\ pay'[g].status = "confirmed" => pay[g].status = "confirmed"
    PROVE  EarnedInv'
<1>1. RefsOwned'
  <2> SUFFICES ASSUME NEW g \in Groups, pay'[g].ref # NoSession
               PROVE  /\ sess'[pay'[g].ref].group = g
                      /\ sess'[pay'[g].ref].state # "unused"
    BY DEF RefsOwned
  <2> DEFINE x == pay[g].ref
  <2>1. pay'[g].ref = x /\ x \in Sessions /\ x # NoSession
    BY RefsTyped
  <2>2. sess[x].group = g /\ sess[x].state # "unused"
    BY <2>1 DEF EarnedInv, RefsOwned
  <2>3. QED BY <2>1, <2>2 DEF SessGrow
<1>2. SavesOwned' /\ ApplyEarned'
  BY DEF EarnedInv, SavesOwned, ApplyEarned, Forgets, SessGrow
<1>3. ConfirmedMeansPaid'
  <2> SUFFICES ASSUME NEW g \in Groups, pay'[g].status = "confirmed"
               PROVE  \E x \in Sessions : sess'[x].group = g /\ sess'[x].state = "paid"
    BY DEF ConfirmedMeansPaid, PayStatus
  <2>1. PICK x \in Sessions : sess[x].group = g /\ sess[x].state = "paid"
    BY DEF EarnedInv, ConfirmedMeansPaid, PayStatus
  <2>2. QED BY <2>1 DEF SessGrow
<1>4. QED BY <1>1, <1>2, <1>3 DEF EarnedInv

LEMMA EarnedStep ==
    TypedInv /\ EarnedInv /\ [PaymentsNext]_paymentsVars => EarnedInv'
<1> SUFFICES ASSUME TypedInv, EarnedInv, [PaymentsNext]_paymentsVars
             PROVE  EarnedInv'
  OBVIOUS
<1> WorkersOK /\ pay \in [Groups -> PaymentRow]
  BY TypedWorkers
<1>1. ASSUME NEW w \in Workers, NEW s \in Subs, NEW reached \in BOOLEAN,
             KafkaInsert(w, s, reached)
      PROVE  EarnedInv'
  <2> DEFINE g == GroupOf[s]
             r == [Idle EXCEPT !.pc = IF /\ PayStatus(g) = "absent"
                                         /\ MethodOf[g] = "paydunya"
                                      THEN "lock" ELSE "mark",
                               !.via = "kafka", !.group = g, !.sub = s,
                               !.provider = MethodOf[g]]
  <2>1. r.pc \in {"lock", "mark"}
    BY DEF Idle
  <2>2. pw' = [pw EXCEPT ![w] = r]
    BY <1>1 DEF KafkaInsert
  <2> HIDE DEF r
  <2>3. Forgets
    BY <2>1, <2>2, WriteEffect DEF Forgets, OthersKeep
  <2>4. \A h \in Groups : /\ pay'[h].ref \in {pay[h].ref, NoSession}
                          /\ pay'[h].status = "confirmed" => pay[h].status = "confirmed"
    BY <1>1, MarketAssumption DEF KafkaInsert, NewPayment
  <2>5. SessGrow /\ UNCHANGED <<sess, hooks>>
    BY <1>1 DEF KafkaInsert, SessGrow
  <2>6. HooksTrue'
    BY <2>5 DEF HooksTrue, EarnedInv
  <2>7. QED BY <2>3, <2>4, <2>5, <2>6, EarnedUndisturbed
<1>2. ASSUME NEW w \in Workers, Mark(w)
      PROVE  EarnedInv'
  BY <1>2, WriteEffect, EarnedUndisturbed DEF Mark, Idle, EarnedInv, Forgets, OthersKeep, SessGrow, HooksTrue, At
<1>3. ASSUME NEW w \in Workers, NEW g \in Groups, NEW operator \in BOOLEAN,
             InitRead(w, g, operator)
      PROVE  EarnedInv'
  <2> DEFINE r == [Idle EXCEPT
                      !.pc = IF pay[g].provider = "stripe" THEN "call" ELSE "lock",
                      !.via = "init", !.group = g, !.provider = pay[g].provider]
  <2>1. r.pc \in {"call", "lock"}
    BY DEF Idle
  <2>2. pw' = [pw EXCEPT ![w] = r]
    BY <1>3 DEF InitRead
  <2> HIDE DEF r
  <2>3. Forgets
    BY <2>1, <2>2, WriteEffect DEF Forgets, OthersKeep
  <2>4. QED BY <1>3, <2>3, EarnedUndisturbed DEF InitRead, SessGrow, HooksTrue, EarnedInv
<1>4. ASSUME NEW w \in Workers, Lock(w)
      PROVE  EarnedInv'
  <2>1. Forgets
    BY <1>4, GotoEffect DEF Lock, Forgets, OthersKeep
  <2>2. \A h \in Groups : /\ pay'[h].ref \in {pay[h].ref, NoSession}
                          /\ pay'[h].status = "confirmed" => pay[h].status = "confirmed"
    BY <1>4, StatusEffect DEF Lock, OtherRowsKeep, TypedInv, BusyGrouped, At
  <2>3. QED BY <1>4, <2>1, <2>2, EarnedUndisturbed
            DEF Lock, SessGrow, HooksTrue, EarnedInv
<1>5. ASSUME NEW w \in Workers, LockDenied(w)
      PROVE  EarnedInv'
  BY <1>5, ReturnEffect, EarnedUndisturbed DEF LockDenied, EarnedInv, Forgets, OthersKeep, SessGrow, HooksTrue, At
<1>6. ASSUME NEW w \in Workers, NEW x \in Sessions, CallOk(w, x)
      PROVE  EarnedInv'
  <2> DEFINE r == [pw[w] EXCEPT !.pc = "save", !.ref = x]
  <2>1. r.pc = "save" /\ r.group = pw[w].group /\ r.ref = x
    BY DEF WorkersOK, Worker
  <2>2. pw' = [pw EXCEPT ![w] = r] /\ UNCHANGED <<pay, hooks>>
    BY <1>6 DEF CallOk
  <2>3. pw'[w] = r /\ OthersKeep(w)
    BY <2>2, WriteEffect
  <2>4. /\ SessGrow
        /\ sess'[x].group = pw[w].group
        /\ sess'[x].state # "unused"
    BY <1>6, OpenEffect DEF CallOk
  <2>5. HooksTrue' /\ RefsOwned' /\ ConfirmedMeansPaid'
    BY <2>2, <2>4, RefsTyped DEF HooksTrue, RefsOwned, ConfirmedMeansPaid, SessGrow,
       EarnedInv, PayStatus
  <2>6. SavesOwned'
    <3> HIDE DEF r
    <3>1. \A v \in Workers : v # w /\ pw'[v].pc = "save" => pw'[v] = pw[v] /\ pw[v].pc = "save"
      BY <2>3 DEF OthersKeep
    <3>2. QED BY <2>1, <2>3, <2>4, <3>1 DEF SavesOwned, SessGrow, EarnedInv
  <2>7. ApplyEarned'
    <3> HIDE DEF r
    <3>1. \A v \in Workers : pw'[v].pc = "apply" => pw'[v] = pw[v]
      BY <2>1, <2>3 DEF OthersKeep
    <3>2. QED BY <2>4, <3>1 DEF ApplyEarned, SessGrow, EarnedInv
  <2>8. QED BY <2>5, <2>6, <2>7 DEF EarnedInv
<1>7. ASSUME NEW w \in Workers, CallFail(w)
      PROVE  EarnedInv'
  BY <1>7, GotoEffect, ReturnEffect, EarnedUndisturbed DEF CallFail, Refused, EarnedInv, Forgets, OthersKeep, SessGrow, HooksTrue, At
<1>8. ASSUME NEW w \in Workers, NEW x \in Sessions, CallLost(w, x)
      PROVE  EarnedInv'
  <2>1. SessGrow
    BY <1>8, OpenEffect DEF CallLost
  <2>2. Forgets
    BY <1>8, GotoEffect, ReturnEffect DEF CallLost, Refused, Forgets, OthersKeep
  <2>3. UNCHANGED <<pay, hooks>>
    BY <1>8 DEF CallLost
  <2>4. HooksTrue'
    BY <2>1, <2>3 DEF HooksTrue, SessGrow, EarnedInv
  <2>5. QED BY <2>1, <2>2, <2>3, <2>4, EarnedUndisturbed
<1>9. ASSUME NEW w \in Workers, NEW hasLink \in BOOLEAN, Save(w, hasLink)
      PROVE  EarnedInv'
  <2> DEFINE g == pw[w].group
  <2>1. /\ pw[w].ref \in Sessions
        /\ sess[pw[w].ref].group = g
        /\ sess[pw[w].ref].state # "unused"
    BY <1>9 DEF Save, At, EarnedInv, SavesOwned
  <2>2. /\ \A x \in Sessions : /\ sess'[x].group = sess[x].group
                               /\ sess'[x].state = "paid" <=> sess[x].state = "paid"
                               /\ sess'[x].state = "unused" <=> sess[x].state = "unused"
        /\ UNCHANGED hooks
    <3> HIDE DEF g
    <3>1. sess \in [Sessions -> Session]
      BY SessTyped
    <3>2. /\ sess' = [sess EXCEPT ![pw[w].ref].state = IF @ = "made" THEN "open" ELSE @]
          /\ UNCHANGED hooks
      BY <1>9 DEF Save
    <3>3. QED BY <2>1, <3>1, <3>2 DEF Session
  <2>3. pw'[w].pc \in {"mark", "idle"} /\ OthersKeep(w)
    BY <1>9, ReturnEffect DEF Save
  <2>4. /\ g \in Groups
        /\ pay'[g].ref = pw[w].ref
        /\ pay'[g].status \in {pay[g].status, "initiated"}
        /\ OtherRowsKeep(g)
    BY <1>9, SaveEffect
  <2> HIDE DEF g
  <2>5. HooksTrue'
    BY <2>2 DEF HooksTrue, EarnedInv
  <2>6. SavesOwned' /\ ApplyEarned'
    <3>1. \A v \in Workers : pw'[v].pc \in {"save", "apply"} => pw'[v] = pw[v]
      BY <2>3 DEF OthersKeep
    <3>2. QED BY <2>2, <3>1 DEF SavesOwned, ApplyEarned, EarnedInv
  <2>7. RefsOwned'
    BY <2>1, <2>2, <2>4, RefsTyped DEF RefsOwned, EarnedInv, OtherRowsKeep
  <2>8. ConfirmedMeansPaid'
    <3> SUFFICES ASSUME NEW h \in Groups, pay'[h].status = "confirmed"
                 PROVE  \E x \in Sessions : sess'[x].group = h /\ sess'[x].state = "paid"
      BY DEF ConfirmedMeansPaid, PayStatus
    <3>1. pay[h].status = "confirmed"
      BY <2>4 DEF OtherRowsKeep
    <3>2. PICK x \in Sessions : sess[x].group = h /\ sess[x].state = "paid"
      BY <3>1 DEF EarnedInv, ConfirmedMeansPaid, PayStatus
    <3>3. QED BY <2>2, <3>2
  <2>9. QED BY <2>5, <2>6, <2>7, <2>8 DEF EarnedInv
<1>10. ASSUME NEW w \in Workers, Fail(w)
       PROVE  EarnedInv'
  <2>1. Forgets
    BY <1>10, ReturnEffect DEF Fail, Forgets, OthersKeep
  <2>2. \A h \in Groups : /\ pay'[h].ref \in {pay[h].ref, NoSession}
                          /\ pay'[h].status = "confirmed" => pay[h].status = "confirmed"
    BY <1>10, StatusEffect DEF Fail, OtherRowsKeep, TypedInv, BusyGrouped, At
  <2>3. QED BY <1>10, <2>1, <2>2, EarnedUndisturbed
            DEF Fail, SessGrow, HooksTrue, EarnedInv
<1>11. ASSUME NEW g \in Groups, NEW provider \in {"paydunya", "pawapay"},
              switchPaymentProvider(g, provider)
       PROVE  EarnedInv'
  <2>1. \A h \in Groups : /\ pay'[h].ref \in {pay[h].ref, NoSession}
                          /\ pay'[h].status = "confirmed" => pay[h].status = "confirmed"
    BY <1>11 DEF switchPaymentProvider, PaymentRow
  <2>2. QED BY <1>11, <2>1, EarnedUndisturbed
            DEF switchPaymentProvider, Forgets, SessGrow, HooksTrue, EarnedInv
<1>12. ASSUME NEW x \in Sessions, ProviderPay(x)
       PROVE  EarnedInv'
  <2>1. SessGrow /\ UNCHANGED <<pay, pw>>
    BY <1>12, SessTyped DEF ProviderPay, SessGrow, Session
  <2>2. hooks' = hooks \cup {<<x, "paid">>} /\ sess'[x].state = "paid"
    BY <1>12, SessTyped DEF ProviderPay, Session
  <2>3. HooksTrue'
    BY <2>1, <2>2 DEF HooksTrue, EarnedInv, SessGrow
  <2>4. QED BY <2>1, <2>3, EarnedUndisturbed DEF Forgets
<1>13. ASSUME NEW x \in Sessions, ProviderFail(x)
       PROVE  EarnedInv'
  <2>1. SessGrow /\ UNCHANGED <<pay, pw>>
    BY <1>13, SessTyped DEF ProviderFail, SessGrow, Session
  <2>2. hooks' = hooks \cup {<<x, "failed">>}
    BY <1>13, SessTyped DEF ProviderFail, Session
  <2>3. HooksTrue'
    BY <2>1, <2>2 DEF HooksTrue, EarnedInv, SessGrow
  <2>4. QED BY <2>1, <2>3, EarnedUndisturbed DEF Forgets
<1>14. ASSUME NEW w \in Workers, NEW x \in Sessions,
              NEW verdict \in {"paid", "failed"}, NEW g \in Groups,
              Webhook(w, x, verdict, g)
       PROVE  EarnedInv'
  <2> DEFINE r == [Idle EXCEPT !.pc = "apply", !.via = "hook", !.group = g, !.ref = x,
                               !.paid = Verdict(x, verdict)]
  <2>1. /\ r.pc = "apply" /\ r.group = g /\ r.ref = x
        /\ r.paid = Verdict(x, verdict)
    BY DEF Idle
  <2>2. pw' = [pw EXCEPT ![w] = r] /\ UNCHANGED <<pay, sess, hooks>>
    BY <1>14 DEF Webhook
  <2>3. pw'[w] = r /\ OthersKeep(w)
    BY <2>2, WriteEffect
  <2>4. Verdict(x, verdict) => sess[x].group = g /\ sess[x].state = "paid"
    <3>1. Verdict(x, verdict) => sess[x].state = "paid"
      BY <1>14 DEF Webhook, Verdict, EarnedInv, HooksTrue
    <3>2. sess[x].group = g
      <4>1. g \in About(x)
        BY <1>14 DEF Webhook
      <4>2. sess[x].group = g \/ pay[g].ref = x
        BY <4>1 DEF About
      <4>3. QED BY <4>2, PaymentsAssumption DEF EarnedInv, RefsOwned
    <3>3. QED BY <3>1, <3>2
  <2> HIDE DEF r
  <2>5. HooksTrue' /\ RefsOwned' /\ SavesOwned' /\ ConfirmedMeansPaid'
    BY <2>1, <2>2, <2>3 DEF HooksTrue, RefsOwned, SavesOwned, ConfirmedMeansPaid,
       EarnedInv, OthersKeep, PayStatus
  <2>6. ApplyEarned'
    BY <2>1, <2>2, <2>3, <2>4 DEF ApplyEarned, EarnedInv, OthersKeep
  <2>7. QED BY <2>5, <2>6 DEF EarnedInv
<1>15. ASSUME NEW w \in Workers, ConfirmPayment(w)
       PROVE  EarnedInv'
  <2> DEFINE g == pw[w].group
             x == pw[w].ref
  <2>1. x \in Sessions /\ sess[x].group = g /\ sess[x].state = "paid"
    BY <1>15 DEF ConfirmPayment, At, EarnedInv, ApplyEarned
  <2>2. /\ UNCHANGED <<sess, hooks>>
        /\ pw'[w].pc \in {"notify", "mark", "idle"}
        /\ OthersKeep(w)
    BY <1>15, GotoEffect, ReturnEffect DEF ConfirmPayment
  <2>3. g \in Groups /\ OtherRowsKeep(g) /\ pay'[g].ref \in {pay[g].ref, x}
    BY <1>15, ConfirmEffect
  <2>4. HooksTrue' /\ SavesOwned' /\ ApplyEarned'
    BY <2>2 DEF HooksTrue, SavesOwned, ApplyEarned, EarnedInv, OthersKeep
  <2> HIDE DEF g, x
  <2>5. RefsOwned'
    BY <2>1, <2>2, <2>3 DEF RefsOwned, EarnedInv, OtherRowsKeep
  <2>6. ConfirmedMeansPaid'
    BY <2>1, <2>2, <2>3 DEF ConfirmedMeansPaid, EarnedInv, OtherRowsKeep, PayStatus
  <2>7. QED BY <2>4, <2>5, <2>6 DEF EarnedInv
<1>16. ASSUME NEW w \in Workers, markFailed(w)
       PROVE  EarnedInv'
  <2>1. Forgets
    BY <1>16, ReturnEffect DEF markFailed, Forgets, OthersKeep
  <2>2. \A h \in Groups : /\ pay'[h].ref \in {pay[h].ref, NoSession}
                          /\ pay'[h].status = "confirmed" => pay[h].status = "confirmed"
    BY <1>16, StatusEffect DEF markFailed, OtherRowsKeep, TypedInv, BusyGrouped, At
  <2>3. QED BY <1>16, <2>1, <2>2, EarnedUndisturbed
            DEF markFailed, SessGrow, HooksTrue, EarnedInv
<1>17. ASSUME NEW w \in Workers, NEW s \in Subs, NEW done \in BOOLEAN,
              creditVendorWallet(w, s, done)
       PROVE  EarnedInv'
  <2> DEFINE r == [pw[w] EXCEPT !.todo = @ \ {s}]
  <2>1. r.pc = pw[w].pc
    BY DEF WorkersOK, Worker
  <2>2. pw' = [pw EXCEPT ![w] = IF pw[w].todo = {s} THEN Idle ELSE r]
    BY <1>17 DEF creditVendorWallet
  <2>3. pw'[w].pc \in {"idle", "credit"} /\ OthersKeep(w)
    BY <1>17, <2>1, <2>2, WriteEffect DEF creditVendorWallet, Idle, At
  <2>4. Forgets
    BY <2>3 DEF Forgets, OthersKeep
  <2>5. QED BY <1>17, <2>4, EarnedUndisturbed
            DEF creditVendorWallet, SessGrow, HooksTrue, EarnedInv
<1>18. ASSUME NEW w \in Workers, Abandon(w)
       PROVE  EarnedInv'
  BY <1>18, WriteEffect, EarnedUndisturbed DEF Abandon, Idle, EarnedInv, Forgets, OthersKeep, SessGrow, HooksTrue, At
<1>19. ASSUME NEW s \in Subs, OrderCreated(s)
       PROVE  EarnedInv'
  BY <1>19, EarnedUndisturbed DEF OrderCreated, paymentsOnly, EarnedInv, Forgets, OthersKeep, SessGrow, HooksTrue, At
<1>20. ASSUME NEW w \in Workers, NEW g \in Groups, Reverify(w, g)
       PROVE  EarnedInv'
  <2> DEFINE x == pay[g].ref
             r == [Idle EXCEPT !.pc = "apply", !.via = "hook", !.group = g,
                               !.ref = pay[g].ref,
                               !.paid = sess[pay[g].ref].state = "paid"]
  <2>1. /\ r.pc = "apply" /\ r.group = g /\ r.ref = x
        /\ r.paid = (sess[x].state = "paid")
    BY DEF Idle
  <2>2. pw' = [pw EXCEPT ![w] = r] /\ UNCHANGED <<pay, sess, hooks>>
    BY <1>20 DEF Reverify
  <2>3. pw'[w] = r /\ OthersKeep(w)
    BY <2>2, WriteEffect
  <2>4. x \in Sessions /\ sess[x].group = g
    BY <1>20, RefsTyped DEF Reverify, EarnedInv, RefsOwned
  <2> HIDE DEF r
  <2>5. HooksTrue' /\ RefsOwned' /\ SavesOwned' /\ ConfirmedMeansPaid'
    BY <2>1, <2>2, <2>3 DEF HooksTrue, RefsOwned, SavesOwned, ConfirmedMeansPaid,
       EarnedInv, OthersKeep, PayStatus
  <2>6. ApplyEarned'
    BY <2>1, <2>2, <2>3, <2>4, ZenonT(40) DEF ApplyEarned, EarnedInv, OthersKeep
  <2>7. QED BY <2>5, <2>6 DEF EarnedInv
<1>21. ASSUME NEW w \in Workers, NEW ids \in SUBSET Subs,
              CallConfirm(w, ids), UNCHANGED topicVars
       PROVE  EarnedInv'
  <2> DEFINE r == [pw[w] EXCEPT !.pc = "credit", !.todo = ids]
  <2>1. r.pc = "credit"
    BY DEF WorkersOK, Worker
  <2>2. pw' = [pw EXCEPT ![w] = IF ids = {} THEN Idle ELSE r]
    BY <1>21 DEF CallConfirm
  <2>3. pw'[w].pc \in {"idle", "credit"} /\ OthersKeep(w)
    BY <1>21, <2>1, <2>2, WriteEffect DEF Idle
  <2>4. Forgets
    BY <2>3 DEF Forgets, OthersKeep
  <2>5. QED BY <1>21, <2>4, EarnedUndisturbed DEF CallConfirm, SessGrow, HooksTrue, EarnedInv
<1>22. CASE UNCHANGED paymentsVars
  BY <1>22, EarnedUndisturbed DEF paymentsVars, paymentsOnly, Forgets, SessGrow,
     HooksTrue, EarnedInv
<1>23. QED
  BY <1>1, <1>2, <1>3, <1>4, <1>5, <1>6, <1>7, <1>8, <1>9, <1>10, <1>11,
     <1>12, <1>13, <1>14, <1>15, <1>16, <1>17, <1>18, <1>19, <1>20, <1>21,
     <1>22 DEF PaymentsNext, PaymentsInternal

LEMMA EarnedInit == PaymentsInit => EarnedInv
  BY DEF PaymentsInit, EarnedInv, HooksTrue, RefsOwned, SavesOwned, ApplyEarned,
     ConfirmedMeansPaid, Idle, NoPayment, PayStatus

\* A payment is confirmed only if its customer has paid one of its sessions,
\* however many notifications arrive, late, twice or in the wrong order.
THEOREM Earned == PaymentsSpec => []ConfirmedMeansPaid
<1>1. PaymentsSpec => [](TypedInv /\ EarnedInv)
  BY TypedInit, TypedStep, EarnedInit, EarnedStep, PTL DEF PaymentsSpec
<1>2. EarnedInv => ConfirmedMeansPaid
  BY DEF EarnedInv
<1>3. QED BY <1>1, <1>2, PTL
=============================================================================
