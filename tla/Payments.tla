------------------------------ MODULE Payments ------------------------------
(***************************************************************************)
(* payment-svc: the payment of a grouped order, from order.created to the  *)
(* credit of the vendors' wallets.                                         *)
(*                                                                         *)
(* A worker is an HTTP request or a Kafka handler in flight.  It runs one  *)
(* SQL statement or one remote call per step; everything it remembers from *)
(* one step to the next is in pw, and is lost when the process dies or the *)
(* request's context is cancelled.  The rows of the table payments are in  *)
(* pay; a session is what a provider opens when it is asked to: a          *)
(* PaymentIntent, a PayDunya invoice, a PawaPay deposit.                   *)
(***************************************************************************)
EXTENDS Market

CONSTANTS
    Workers,        \* requests and handlers in flight at once
    Sessions,       \* sessions the providers can open
    NoSession,      \* an empty provider_ref
    MaxSwitches     \* bound: changes of provider per group

ASSUME PaymentsAssumption ==
    /\ NoSession \notin Sessions
    /\ MaxSwitches \in Nat

Links == {"client_secret", "redirect_url"}

VARIABLES
    pay,        \* the row of payments of each group
    pw,         \* the locals of each worker
    sess,       \* the sessions, as their provider knows them
    hooks,      \* notifications a provider has for payment-svc
    switches,   \* history: changes of provider per group
    credits     \* 'sale' rows of wallet_transactions per sub-order

paymentsOnly == <<pay, pw, sess, hooks, switches, credits>>
paymentsVars == <<paymentsOnly, topicVars>>

NoPayment == [status |-> "absent", provider |-> "none", ref |-> NoSession,
              links |-> {}, covers |-> {}]

Idle == [pc |-> "idle", via |-> "none", group |-> NoGroup, sub |-> NoSub,
         provider |-> "none", ref |-> NoSession, paid |-> FALSE, todo |-> {}]

NoSess == [state |-> "unused", group |-> NoGroup, provider |-> "none",
           covers |-> {}]

PaymentRow == [status : {"absent", "initiated", "creating", "failed", "confirmed"},
               provider : Providers \cup {"none"},
               ref : Sessions \cup {NoSession},
               links : SUBSET Links,
               covers : SUBSET Subs]

Worker == [pc : {"idle", "lock", "call", "save", "fail", "mark", "apply",
                 "notify", "credit"},
           via : {"none", "kafka", "init", "hook"},
           group : Groups \cup {NoGroup},
           sub : Subs \cup {NoSub},
           provider : Providers \cup {"none"},
           ref : Sessions \cup {NoSession},
           paid : BOOLEAN,
           todo : SUBSET Subs]

Session == [state : {"unused", "made", "open", "paid", "failed"},
            group : Groups \cup {NoGroup},
            provider : Providers \cup {"none"},
            covers : SUBSET Subs]

PaymentsTypeOK ==
    /\ TopicsTypeOK
    /\ pay \in [Groups -> PaymentRow]
    /\ pw \in [Workers -> Worker]
    /\ sess \in [Sessions -> Session]
    /\ hooks \subseteq Sessions \X {"paid", "failed"}
    /\ switches \in [Groups -> 0 .. MaxSwitches]
    /\ credits \in [Subs -> Nat]

PaymentsInit ==
    /\ TopicsInit
    /\ pay = [g \in Groups |-> NoPayment]
    /\ pw = [w \in Workers |-> Idle]
    /\ sess = [x \in Sessions |-> NoSess]
    /\ hooks = {}
    /\ switches = [g \in Groups |-> 0]
    /\ credits = [s \in Subs |-> 0]

PayStatus(g) == pay[g].status

\* Mutant: a column that does not exist.
LinkUnknown(provider) == "invoice_url"

\* The column that tells whether the row has a session the customer can use.
Link(provider) ==
    IF provider = "stripe" THEN "client_secret" ELSE "redirect_url"

At(w, pc) == pw[w].pc = pc

\* Worker w goes on to pc, or ends: a Kafka handler then marks its message.
Goto(w, pc) == pw' = [pw EXCEPT ![w].pc = pc]

Return(w) == IF pw[w].via = "kafka" THEN Goto(w, "mark")
                                    ELSE pw' = [pw EXCEPT ![w] = Idle]

-----------------------------------------------------------------------------
(* The Kafka consumer of order.created *)

\* The amount to pay is the total of the group, or that of the one sub-order
\* when order-svc cannot be reached.
NewPayment(g, s, reached) ==
    [status |-> "initiated", provider |-> MethodOf[g], ref |-> NoSession,
     links |-> {}, covers |-> IF reached THEN SubsOf(g) ELSE {s}]

\* initiateFor inserts the row of the group, ON CONFLICT DO NOTHING.  Only
\* PayDunya's session is created from here.
KafkaInsert(w, s, reached) ==
    LET g == GroupOf[s]
        first == PayStatus(g) = "absent"
        pc == IF first /\ MethodOf[g] = "paydunya" THEN "lock" ELSE "mark"
    IN
    /\ At(w, "idle")
    /\ s \in events
    /\ pay' = IF first
              THEN [pay EXCEPT ![g] = NewPayment(g, s, reached)]
              ELSE pay
    /\ pw' = [pw EXCEPT ![w] = [Idle EXCEPT !.pc = pc, !.via = "kafka",
                                            !.group = g, !.sub = s,
                                            !.provider = MethodOf[g]]]
    /\ UNCHANGED <<sess, hooks, switches, credits, topicVars>>

\* The handler has returned: sess.MarkMessage.
Mark(w) ==
    /\ At(w, "mark")
    /\ events' = events \ {pw[w].sub}
    /\ pw' = [pw EXCEPT ![w] = Idle]
    /\ UNCHANGED <<pay, sess, hooks, switches, credits, paidEvents, lost>>

-----------------------------------------------------------------------------
(* POST /payments/init *)

\* initPayment reads the row and decides on what it read: Stripe goes straight
\* to the network, PayDunya and PawaPay have to win the lock first, PawaPay
\* only once the customer has chosen an operator.
InitRead(w, g, operator) ==
    LET row == pay[g] IN
    /\ At(w, "idle")
    /\ row.status \in {"initiated", "failed"}
    /\ Link(row.provider) \notin row.links
    /\ row.provider = "pawapay" => operator
    /\ pw' = [pw EXCEPT ![w] =
                 [Idle EXCEPT !.pc = IF row.provider = "stripe" THEN "call" ELSE "lock",
                              !.via = "init", !.group = g,
                              !.provider = row.provider]]
    /\ UNCHANGED <<pay, sess, hooks, switches, credits, topicVars>>

\* Mutant: a lock that does not exclude.
LockableAlways(w) == {"initiated", "failed", "creating"}

\* UPDATE payments SET status = 'creating' WHERE status IN (...): the consumer
\* takes the lock from initiated only, initPayment from failed as well.
Lockable(w) ==
    IF pw[w].via = "kafka" THEN {"initiated"} ELSE {"initiated", "failed"}

Lock(w) ==
    LET g == pw[w].group IN
    /\ At(w, "lock")
    /\ PayStatus(g) \in Lockable(w)
    /\ pay' = [pay EXCEPT ![g].status = "creating"]
    /\ Goto(w, "call")
    /\ UNCHANGED <<sess, hooks, switches, credits, topicVars>>

LockDenied(w) ==
    /\ At(w, "lock")
    /\ PayStatus(pw[w].group) \notin Lockable(w)
    /\ Return(w)
    /\ UNCHANGED <<pay, sess, hooks, switches, credits, topicVars>>

-----------------------------------------------------------------------------
(* The call to the provider and its outcome *)

\* The provider opens session x.  The prompt of a PawaPay deposit is on the
\* customer's phone at once; the others wait for the customer to get a link.
Open(w, x) ==
    LET g == pw[w].group IN
    /\ At(w, "call")
    /\ sess[x].state = "unused"
    /\ sess' = [sess EXCEPT ![x] =
                   [state |-> IF pw[w].provider = "pawapay" THEN "open" ELSE "made",
                    group |-> g, provider |-> pw[w].provider,
                    covers |-> pay[g].covers]]

CallOk(w, x) ==
    /\ Open(w, x)
    /\ pw' = [pw EXCEPT ![w] = [pw[w] EXCEPT !.pc = "save", !.ref = x]]
    /\ UNCHANGED <<pay, hooks, switches, credits, topicVars>>

\* The call was refused or timed out.  On a Stripe error initPayment only
\* answers 502; the others still have to record the failure.
Refused(w) ==
    IF pw[w].provider = "stripe" THEN Return(w) ELSE Goto(w, "fail")

CallFail(w) ==
    /\ At(w, "call")
    /\ Refused(w)
    /\ UNCHANGED <<pay, sess, hooks, switches, credits, topicVars>>

\* The deposit was accepted and the answer lost.  (An invoice or an intent
\* whose answer is lost cannot be paid: nobody has its link.)
CallLost(w, x) ==
    /\ pw[w].provider = "pawapay"
    /\ Open(w, x)
    /\ Refused(w)
    /\ UNCHANGED <<pay, hooks, switches, credits, topicVars>>

\* The reference and the link are written WHERE id = $1, whatever has become
\* of the row.  initPayment also sets the status; the consumer does not.  A
\* direct PawaPay deposit has an empty redirect_url.
Save(w, hasLink) ==
    LET g == pw[w].group
        x == pw[w].ref
        link == Link(pw[w].provider)
    IN
    /\ At(w, "save")
    /\ pw[w].provider # "pawapay" => hasLink
    /\ pay' = [pay EXCEPT ![g] =
                  [pay[g] EXCEPT !.ref = x,
                                 !.links = IF hasLink THEN @ \cup {link} ELSE @ \ {link},
                                 !.status = IF pw[w].via = "kafka" THEN @ ELSE "initiated"]]
    /\ sess' = [sess EXCEPT ![x].state = IF @ = "made" THEN "open" ELSE @]
    /\ Return(w)
    /\ UNCHANGED <<hooks, switches, credits, topicVars>>

\* UPDATE payments SET status = 'failed' WHERE id = $1, as unconditional.
Fail(w) ==
    /\ At(w, "fail")
    /\ pay' = [pay EXCEPT ![pw[w].group].status = "failed"]
    /\ Return(w)
    /\ UNCHANGED <<sess, hooks, switches, credits, topicVars>>

\* POST /payments/order/{id}/switch-provider starts the row afresh, unless the
\* payment is confirmed.
switchPaymentProvider(g, provider) ==
    /\ switches[g] < MaxSwitches
    /\ PayStatus(g) \in {"initiated", "failed", "creating"}
    /\ pay' = [pay EXCEPT ![g] =
                  [pay[g] EXCEPT !.provider = provider, !.ref = NoSession,
                                 !.links = {}, !.status = "initiated"]]
    /\ switches' = [switches EXCEPT ![g] = @ + 1]
    /\ UNCHANGED <<pw, sess, hooks, credits, topicVars>>

-----------------------------------------------------------------------------
(* The customer and the provider *)

\* The customer pays session x, or fails to.  A Stripe PaymentIntent can still
\* succeed after a failed attempt; an invoice or a deposit is then final.  The
\* notification is delivered any number of times, in any order, or never.
ProviderPay(x) ==
    /\ \/ sess[x].state = "open"
       \/ sess[x].state = "failed" /\ sess[x].provider = "stripe"
    /\ sess' = [sess EXCEPT ![x].state = "paid"]
    /\ hooks' = hooks \cup {<<x, "paid">>}
    /\ UNCHANGED <<pay, pw, switches, credits, topicVars>>

ProviderFail(x) ==
    /\ sess[x].state = "open"
    /\ sess' = [sess EXCEPT ![x].state = "failed"]
    /\ hooks' = hooks \cup {<<x, "failed">>}
    /\ UNCHANGED <<pay, pw, switches, credits, topicVars>>

-----------------------------------------------------------------------------
(* Webhooks *)

\* The group a notification is about: Stripe's carries it in its metadata, a
\* PayDunya token is looked up among all references, a PawaPay deposit among
\* those of the rows whose provider is PawaPay.
About(x) ==
    CASE sess[x].provider = "stripe"   -> {sess[x].group}
      [] sess[x].provider = "paydunya" -> {g \in Groups : pay[g].ref = x}
      [] sess[x].provider = "pawapay"  ->
             {g \in Groups : pay[g].ref = x /\ pay[g].provider = "pawapay"}
      [] OTHER                         -> {}

\* Mutant: every final notification is taken for a success.
VerdictAny(x, verdict) == verdict \in {"paid", "failed"}

\* PawaPay's body is not trusted: what counts is what GET /v2/deposits/{id} says.
Verdict(x, verdict) ==
    IF sess[x].provider = "pawapay" THEN sess[x].state = "paid"
                                    ELSE verdict = "paid"

\* stripeWebhook, paydunyaCallback and pawapayHandleDepositWebhook up to their
\* call of confirmPayment or markFailed.
Webhook(w, x, verdict, g) ==
    /\ At(w, "idle")
    /\ <<x, verdict>> \in hooks
    /\ g \in About(x)
    /\ pw' = [pw EXCEPT ![w] =
                 [Idle EXCEPT !.pc = "apply", !.via = "hook", !.group = g, !.ref = x,
                              !.paid = Verdict(x, verdict)]]
    /\ UNCHANGED <<pay, sess, hooks, switches, credits, topicVars>>

\* POST /payments/order/{id}/reverify asks PawaPay again about the deposit of
\* an initiated row and applies a final answer as a webhook would.
Reverify(w, g) ==
    LET x == pay[g].ref IN
    /\ At(w, "idle")
    /\ PayStatus(g) = "initiated"
    /\ pay[g].provider = "pawapay"
    /\ x # NoSession
    /\ sess[x].state \in {"paid", "failed"}
    /\ sess[x].provider = "pawapay"
    /\ pw' = [pw EXCEPT ![w] =
                 [Idle EXCEPT !.pc = "apply", !.via = "hook", !.group = g, !.ref = x,
                              !.paid = sess[x].state = "paid"]]
    /\ UNCHANGED <<pay, sess, hooks, switches, credits, topicVars>>

\* Mutant: an id without a payment is kept.
ReverifyKeepsUnknown(id) == TRUE

\* What the endpoint answers for an id: whether order-svc is to keep the order.
\* An id without a row gets a 404, which order-svc reads as "no".
ReverifyKeeps(id) ==
    /\ id \in Groups
    /\ \/ PayStatus(id) = "confirmed"
       \/ /\ PayStatus(id) = "initiated"
          /\ pay[id].provider = "pawapay"
          /\ pay[id].ref # NoSession
          /\ sess[pay[id].ref].provider = "pawapay"
          /\ sess[pay[id].ref].state # "failed"

\* confirmPayment: UPDATE ... WHERE status IN ('initiated', 'failed'), and 409
\* if no row is left to confirm.
ConfirmPayment(w) ==
    LET g == pw[w].group IN
    /\ At(w, "apply")
    /\ pw[w].paid
    /\ IF PayStatus(g) \in {"initiated", "failed"}
       THEN /\ pay' = [pay EXCEPT ![g] =
                          [pay[g] EXCEPT !.status = "confirmed",
                                         !.ref = IF @ = NoSession THEN pw[w].ref ELSE @]]
            /\ Goto(w, "notify")
       ELSE /\ Return(w)
            /\ UNCHANGED pay
    /\ UNCHANGED <<sess, hooks, switches, credits, topicVars>>

\* Mutant: no WHERE status = 'initiated'.
FailableAlways(g) == PayStatus(g) # "absent"

Failable(g) == PayStatus(g) = "initiated"

markFailed(w) ==
    LET g == pw[w].group IN
    /\ At(w, "apply")
    /\ ~pw[w].paid
    /\ pay' = IF Failable(g)
              THEN [pay EXCEPT ![g].status = "failed"] ELSE pay
    /\ Return(w)
    /\ UNCHANGED <<sess, hooks, switches, credits, topicVars>>

\* confirmPayment goes on: POST /orders/parent/{id}/confirm returned the
\* sub-orders it confirmed; none if order-svc refused or could not be heard.
CallConfirm(w, ids) ==
    /\ At(w, "notify")
    /\ pw' = [pw EXCEPT ![w] = IF ids = {} THEN Idle
                               ELSE [pw[w] EXCEPT !.pc = "credit", !.todo = ids]]
    /\ UNCHANGED <<pay, sess, hooks, switches, credits>>

\* creditVendorWallet of one sub-order after the other, each in a transaction
\* of its own; an error is logged and the loop goes on.
creditVendorWallet(w, s, done) ==
    /\ At(w, "credit")
    /\ s \in pw[w].todo
    /\ credits' = IF done THEN [credits EXCEPT ![s] = @ + 1] ELSE credits
    /\ pw' = [pw EXCEPT ![w] = IF pw[w].todo = {s} THEN Idle
                               ELSE [pw[w] EXCEPT !.todo = @ \ {s}]]
    /\ UNCHANGED <<pay, sess, hooks, switches, topicVars>>

\* The process dies, or the context of the request is cancelled, between two
\* steps.  A Kafka message that was not marked is delivered again.
Abandon(w) ==
    /\ ~At(w, "idle")
    /\ pw' = [pw EXCEPT ![w] = Idle]
    /\ UNCHANGED <<pay, sess, hooks, switches, credits, topicVars>>

-----------------------------------------------------------------------------
\* The steps of payment-svc that it takes without hearing from order-svc.
PaymentsInternal ==
    \/ \E w \in Workers, s \in Subs, reached \in BOOLEAN : KafkaInsert(w, s, reached)
    \/ \E w \in Workers : Mark(w)
    \/ \E w \in Workers, g \in Groups, operator \in BOOLEAN : InitRead(w, g, operator)
    \/ \E w \in Workers : Lock(w)
    \/ \E w \in Workers : LockDenied(w)
    \/ \E w \in Workers, x \in Sessions : CallOk(w, x)
    \/ \E w \in Workers : CallFail(w)
    \/ \E w \in Workers, x \in Sessions : CallLost(w, x)
    \/ \E w \in Workers, hasLink \in BOOLEAN : Save(w, hasLink)
    \/ \E w \in Workers : Fail(w)
    \/ \E g \in Groups, provider \in {"paydunya", "pawapay"} :
           switchPaymentProvider(g, provider)
    \/ \E x \in Sessions : ProviderPay(x)
    \/ \E x \in Sessions : ProviderFail(x)
    \/ \E w \in Workers, x \in Sessions, verdict \in {"paid", "failed"}, g \in Groups :
           Webhook(w, x, verdict, g)
    \/ \E w \in Workers : ConfirmPayment(w)
    \/ \E w \in Workers : markFailed(w)
    \/ \E w \in Workers, s \in Subs, done \in BOOLEAN : creditVendorWallet(w, s, done)
    \/ \E w \in Workers : Abandon(w)

\* payment-svc alone: order-svc creates orders (external), confirms any of the
\* sub-orders it is asked to, and /reverify is called for any group.
OrderCreated(s) ==
    /\ s \notin events
    /\ PayStatus(GroupOf[s]) = "absent"
    /\ events' = events \cup {s}
    /\ UNCHANGED <<paymentsOnly, paidEvents, lost>>

PaymentsNext ==
    \/ PaymentsInternal
    \/ \E s \in Subs : OrderCreated(s)
    \/ \E w \in Workers, g \in Groups : Reverify(w, g)
    \/ \E w \in Workers, ids \in SUBSET Subs :
           /\ ids \subseteq SubsOf(pw[w].group)
           /\ CallConfirm(w, ids)
           /\ UNCHANGED topicVars

PaymentsSpec == PaymentsInit /\ [][PaymentsNext]_paymentsVars

-----------------------------------------------------------------------------
(* Properties *)

\* A worker that may reach the provider, or write what became of the call.
Creating(w) == pw[w].pc \in {"call", "save", "fail"} /\ pw[w].provider # "stripe"

\* The 'creating' lock of initiateFor and initPayment: as long as nobody has
\* switched the provider of the group, at most one worker is creating its
\* PayDunya invoice or PawaPay deposit, and the row says so.
OneCreationAtATime ==
    \A w \in Workers :
        Creating(w) /\ switches[pw[w].group] = 0 =>
            /\ PayStatus(pw[w].group) = "creating"
            /\ \A v \in Workers : Creating(v) /\ pw[v].group = pw[w].group => v = w

\* A payment is confirmed only for a group whose customer has paid one of its
\* own sessions, whatever notifications arrive, late, twice or out of order,
\* and whichever provider the row has been switched to meanwhile.
ConfirmedMeansPaid ==
    \A g \in Groups : PayStatus(g) = "confirmed" =>
        \E x \in Sessions : sess[x].group = g /\ sess[x].state = "paid"

\* Nothing undoes a confirmation: a creation that ends late, or a failure that
\* arrives late, would reopen a payment that has been collected.
Untouched(g) == switches[g] = 0 /\ MethodOf[g] # "stripe"

ConfirmedIsFinal ==
    [][\A g \in Groups : PayStatus(g) = "confirmed" /\ Untouched(g)
                           => PayStatus(g)' = "confirmed"]_paymentsVars

\* A failed attempt that is notified after the success of the next one does not
\* mark a confirmed card payment as failed.
NoLateFailure ==
    [][\A g \in Groups : PayStatus(g) = "confirmed" /\ switches[g] = 0
                           => PayStatus(g)' # "failed"]_paymentsVars

\* initPayment's comment: a group whose PaymentIntent exists gets that one
\* back, never a second one to pay as well.
OneIntentPerGroup ==
    \A g \in Groups : switches[g] = 0 /\ MethodOf[g] = "stripe" =>
        Cardinality({x \in Sessions : /\ sess[x].group = g
                                      /\ sess[x].state \in {"open", "paid"}}) <= 1

\* README: the confirmation of a PayDunya payment goes on to the order.  A
\* notification that the customer has paid must find a row it can confirm.
PaidIsConfirmed ==
    [][\A w \in Workers : ConfirmPayment(w) =>
          pay'[pw[w].group].status = "confirmed"]_paymentsVars

\* initiateFor's comment: the amount to pay is the total of the group, not that
\* of the one sub-order whose message came first.
PaidInFull ==
    \A g \in Groups : PayStatus(g) = "confirmed" =>
        \E x \in Sessions : /\ sess[x].group = g
                            /\ sess[x].state = "paid"
                            /\ sess[x].covers = SubsOf(g)
=============================================================================
