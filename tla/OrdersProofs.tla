---------------------------- MODULE OrdersProofs ----------------------------
(***************************************************************************)
(* What Orders promises for every number of groups, sub-orders, products   *)
(* and clerks: the types, that the three columns of a row agree, that an   *)
(* order is confirmed once, that the reaper expires only what is both late *)
(* and still unpaid, and that cancellations put back what they gave up and *)
(* no more.                                                                *)
(***************************************************************************)
EXTENDS Orders, TLAPS, FiniteSetTheorems

-----------------------------------------------------------------------------
(* Types *)

Clerk == [pc : {"idle", "write", "get", "patch"}, sub : Subs \cup {NoSub},
          todo : SUBSET Products, line : Products \cup {NoProduct}, seen : Nat]

Reaper == [pc : {"idle", "check"}, candidates : SUBSET Subs, toExpire : SUBSET Subs]

\* Only a request that has not read its order yet has none.
BusyClerk == \A c \in Clerks : clerk[c].pc # "idle" => clerk[c].sub \in Subs

\* The reaper only handles orders that have passed the timeout.
ReaperPicksLate == reaper.candidates \subseteq aged /\ reaper.toExpire \subseteq aged

\* Every row that a writer writes is one, and its columns agree.
LEMMA WrittenRows ==
    /\ \A status \in OrderStatuses : RowFor(status) \in OrderRow
    /\ \A status \in OrderStatuses : RowFor(status).status = status
    /\ PendingRow = RowFor("pending_payment")
    /\ PaidRow = RowFor("paid")
    /\ CancelledRow = RowFor("cancelled")
    /\ ExpiredRow = RowFor("payment_expired")
    /\ NoRow \in OrderRow /\ NoRow.status = "absent"
    /\ {"pending_payment", "paid", "cancelled", "payment_expired"} \subseteq OrderStatuses
    /\ "absent" \notin OrderStatuses
<1>1. \A status \in OrderStatuses : RowFor(status) \in OrderRow /\ RowFor(status).status = status
  BY DEF OrderStatuses, RowFor, statusToStages, Stages, Row, OrderRow
<1>2. PendingRow = RowFor("pending_payment") /\ PaidRow = RowFor("paid")
  BY DEF RowFor, statusToStages, Stages, Row, PendingRow, PaidRow
<1>3. CancelledRow = RowFor("cancelled") /\ ExpiredRow = RowFor("payment_expired")
  BY DEF RowFor, statusToStages, Stages, Row, CancelledRow, ExpiredRow
<1>4. NoRow \in OrderRow /\ NoRow.status = "absent"
  BY DEF NoRow, Row, OrderRow, OrderStatuses
<1>5. /\ {"pending_payment", "paid", "cancelled", "payment_expired"} \subseteq OrderStatuses
      /\ "absent" \notin OrderStatuses
  BY DEF OrderStatuses
<1>6. QED BY <1>1, <1>2, <1>3, <1>4, <1>5

\* A clerk that reads an order, or has one and goes on, is still one.
LEMMA ReadsTyped ==
    ASSUME NEW r \in Clerk, NEW s \in Subs
    PROVE  LET q == [r EXCEPT !.pc = "write", !.sub = s]
           IN  q \in Clerk /\ q.sub = s
  BY DEF Clerk

LEMMA GetsTyped ==
    ASSUME NEW r \in Clerk, NEW todo \in SUBSET Products
    PROVE  LET q == [r EXCEPT !.pc = "get", !.todo = todo]
           IN  q \in Clerk /\ q.sub = r.sub
  BY DEF Clerk

\* Clerks remain clerks when one of them becomes a clerk with an order, or idle.
LEMMA ClerkWritten ==
    ASSUME clerk \in [Clerks -> Clerk], BusyClerk, NEW c \in Clerks, NEW r \in Clerk,
           r.pc # "idle" => r.sub \in Subs, clerk' = [clerk EXCEPT ![c] = r]
    PROVE  clerk' \in [Clerks -> Clerk] /\ BusyClerk'
  BY DEF BusyClerk

\* The messages of one statement keep the topics typed.
LEMMA PublishTyped ==
    ASSUME TopicsTypeOK, MaxLost \in Nat, NEW ids \in SUBSET Subs, NEW drop,
           PublishPaid(ids, drop)
    PROVE  TopicsTypeOK'
<1>1. IsFiniteSet(drop) /\ lost + Cardinality(drop) <= MaxLost
  BY DEF PublishPaid, CanDrop
<1>2. Cardinality(drop) \in Nat
  BY <1>1, FS_CardinalityType
<1>3. lost' \in 0 .. MaxLost
  BY <1>1, <1>2 DEF PublishPaid, TopicsTypeOK
<1>4. QED BY <1>3 DEF PublishPaid, TopicsTypeOK

\* The types, what a clerk and the reaper hold, and the agreement of the columns
\* are preserved together.
OrdersTypedInv == OrdersTypeOK /\ BusyClerk /\ ReaperPicksLate /\ StagesInSync

\* What a row written among the others leaves of the types and of the columns.
RowsOK == order \in [Subs -> OrderRow] /\ StagesInSync

LEMMA RowWritten ==
    ASSUME RowsOK, NEW ids, NEW status \in OrderStatuses,
           order' = [s \in Subs |-> IF s \in ids THEN RowFor(status) ELSE order[s]]
    PROVE  RowsOK'
<1> DEFINE row == RowFor(status)
<1>1. row \in OrderRow /\ row = RowFor(row.status)
  BY WrittenRows
<1> HIDE DEF row
<1>2. order' = [s \in Subs |-> IF s \in ids THEN row ELSE order[s]]
  BY DEF row
<1>3. order' \in [Subs -> OrderRow]
  BY <1>1, <1>2 DEF RowsOK
<1>4. ASSUME NEW s \in Subs, order'[s].status # "absent"
      PROVE  order'[s] = RowFor(order'[s].status)
  BY <1>1, <1>2, <1>4 DEF RowsOK, StagesInSync, Status
<1>5. QED BY <1>3, <1>4 DEF RowsOK, StagesInSync, Status

LEMMA OneRowWritten ==
    ASSUME RowsOK, NEW t \in Subs, NEW status \in OrderStatuses,
           order' = [order EXCEPT ![t] = RowFor(status)]
    PROVE  RowsOK'
<1>1. order' = [s \in Subs |-> IF s \in {t} THEN RowFor(status) ELSE order[s]]
  BY DEF RowsOK
<1>2. QED BY <1>1, RowWritten

LEMMA OrdersTypedInit == OrdersInit => OrdersTypedInv
<1> SUFFICES ASSUME OrdersInit PROVE OrdersTypedInv
  OBVIOUS
<1> USE OrdersAssumption, MarketAssumption DEF OrdersInit
<1>1. order \in [Subs -> OrderRow] /\ StagesInSync
  BY WrittenRows DEF StagesInSync, Status
<1>2. clerk \in [Clerks -> Clerk] /\ BusyClerk
  BY DEF IdleClerk, Clerk, BusyClerk
<1>3. reaper \in Reaper /\ ReaperPicksLate
  BY DEF IdleReaper, Reaper, ReaperPicksLate
<1>4. QED
  BY <1>1, <1>2, <1>3 DEF OrdersTypedInv, OrdersTypeOK, Clerk, Reaper, TopicsInit,
     TopicsTypeOK

\* The part of the invariant that no handler of the back office disturbs.
Others ==
    /\ TopicsTypeOK /\ unpublished \subseteq Subs /\ aged \subseteq Subs
    /\ reaper \in Reaper /\ ReaperPicksLate
    /\ confirms \in [Subs -> Nat] /\ reopens \in [Subs -> Nat]

BackOfficeOK ==
    /\ clerk \in [Clerks -> Clerk] /\ BusyClerk
    /\ stock \in [Products -> Nat] /\ cancels \in [Subs -> Nat]
    /\ staff \in 0 .. MaxStaff

LEMMA OrdersTypedStep == OrdersTypedInv /\ [OrdersNext]_ordersVars => OrdersTypedInv'
<1> SUFFICES ASSUME RowsOK, Others, BackOfficeOK, [OrdersNext]_ordersVars
             PROVE  RowsOK' /\ Others' /\ BackOfficeOK'
  BY DEF OrdersTypedInv, OrdersTypeOK, RowsOK, Others, BackOfficeOK, Clerk, Reaper
<1> USE OrdersAssumption, MarketAssumption
<1>1. ASSUME NEW g \in Groups, CreateOrder(g)
      PROVE  RowsOK' /\ Others' /\ BackOfficeOK'
  <2>1. RowsOK'
    BY <1>1, WrittenRows, RowWritten DEF CreateOrder
  <2>2. Others'
    BY <1>1 DEF CreateOrder, Others, topicVars, TopicsTypeOK, SubsOf, ReaperPicksLate
  <2>3. BackOfficeOK'
    BY <1>1 DEF CreateOrder, backOffice, clerkVars, BackOfficeOK, BusyClerk
  <2>4. QED BY <2>1, <2>2, <2>3
<1>2. ASSUME NEW s \in Subs, PublishCreated(s)
      PROVE  RowsOK' /\ Others' /\ BackOfficeOK'
  BY <1>2 DEF PublishCreated, RowsOK, StagesInSync, Status, Others, TopicsTypeOK,
     ReaperPicksLate, backOffice, clerkVars, BackOfficeOK, BusyClerk
<1>3. ASSUME NEW s \in Subs, LoseCreated(s)
      PROVE  RowsOK' /\ Others' /\ BackOfficeOK'
  <2>1. Cardinality({s}) = 1
    BY FS_Singleton
  <2>2. TopicsTypeOK'
    BY <1>3, <2>1 DEF LoseCreated, CanDrop, Others, TopicsTypeOK
  <2>3. QED
    BY <1>3, <2>2 DEF LoseCreated, RowsOK, StagesInSync, Status, Others,
       ReaperPicksLate, backOffice, clerkVars, BackOfficeOK, BusyClerk
<1>4. ASSUME NEW s \in Subs, Age(s)
      PROVE  RowsOK' /\ Others' /\ BackOfficeOK'
  BY <1>4 DEF Age, RowsOK, StagesInSync, Status, Others, TopicsTypeOK, topicVars,
     ReaperPicksLate, backOffice, clerkVars, BackOfficeOK, BusyClerk
<1>5. ASSUME NEW s \in Subs, NEW status \in StaffStatuses, updateOrderStatus(s, status)
      PROVE  RowsOK' /\ Others' /\ BackOfficeOK'
  <2>1. RowsOK'
    BY <1>5, OneRowWritten DEF updateOrderStatus
  <2>2. TopicsTypeOK'
    <3>1. CASE status = "paid"
      <4>1. PICK drop \in SUBSET {s} : PublishPaid({s}, drop)
        BY <1>5, <3>1 DEF updateOrderStatus
      <4>2. QED BY <4>1, PublishTyped DEF Others
    <3>2. CASE status # "paid"
      BY <1>5, <3>2 DEF updateOrderStatus, topicVars, TopicsTypeOK, Others
    <3>3. QED BY <3>1, <3>2
  <2>3. reopens' \in [Subs -> Nat]
    BY <1>5 DEF updateOrderStatus, Others
  <2>4. Others'
    BY <1>5, <2>2, <2>3 DEF updateOrderStatus, Others, ReaperPicksLate
  <2>5. BackOfficeOK'
    BY <1>5 DEF updateOrderStatus, clerkVars, BackOfficeOK, BusyClerk
  <2>6. QED BY <2>1, <2>4, <2>5
<1>6. ASSUME NEW c \in Clerks, NEW s \in Subs, CancelRead(c, s)
      PROVE  RowsOK' /\ Others' /\ BackOfficeOK'
  <2>1. clerk' \in [Clerks -> Clerk] /\ BusyClerk'
    <3> DEFINE r == [clerk[c] EXCEPT !.pc = "write", !.sub = s]
    <3>1. r \in Clerk /\ r.sub \in Subs
      <4>1. clerk[c] \in Clerk
        BY DEF BackOfficeOK
      <4>2. QED BY <4>1, ReadsTyped
    <3>2. clerk' = [clerk EXCEPT ![c] = r]
      BY <1>6 DEF CancelRead
    <3> HIDE DEF r
    <3>3. QED BY <3>1, <3>2, ClerkWritten DEF BackOfficeOK
  <2>2. QED
    BY <1>6, <2>1 DEF CancelRead, RowsOK, StagesInSync, Status, Others, TopicsTypeOK,
       topicVars, ReaperPicksLate, BackOfficeOK
<1>7. ASSUME NEW c \in Clerks, CancelWrite(c)
      PROVE  RowsOK' /\ Others' /\ BackOfficeOK'
  <2>1. clerk[c].sub \in Subs /\ clerk[c] \in Clerk
    BY <1>7 DEF CancelWrite, BackOfficeOK, BusyClerk
  <2>2. RowsOK'
    BY <1>7, <2>1, WrittenRows, OneRowWritten DEF CancelWrite
  <2>3. LinesOf[clerk[c].sub] \in SUBSET Products
    BY <2>1
  <2>4. clerk' \in [Clerks -> Clerk] /\ BusyClerk'
    <3> DEFINE r == [clerk[c] EXCEPT !.pc = "get", !.todo = LinesOf[clerk[c].sub]]
    <3>1. r \in Clerk /\ r.sub \in Subs
      BY <2>1, <2>3, GetsTyped
    <3>2. clerk' = [clerk EXCEPT ![c] = r]
      BY <1>7 DEF CancelWrite
    <3> HIDE DEF r
    <3>3. QED BY <3>1, <3>2, ClerkWritten DEF BackOfficeOK
  <2>5. BackOfficeOK'
    BY <1>7, <2>1, <2>4 DEF CancelWrite, BackOfficeOK
  <2>6. Others'
    BY <1>7 DEF CancelWrite, Others, TopicsTypeOK, topicVars, ReaperPicksLate
  <2>7. QED BY <2>2, <2>5, <2>6
<1>8. ASSUME NEW c \in Clerks, NEW p \in Products, RestockGet(c, p)
      PROVE  RowsOK' /\ Others' /\ BackOfficeOK'
  <2>1. stock[p] \in Nat /\ clerk[c] \in Clerk /\ clerk[c].sub \in Subs
    BY <1>8 DEF RestockGet, BackOfficeOK, BusyClerk
  <2>2. clerk' \in [Clerks -> Clerk] /\ BusyClerk'
    <3> DEFINE r == [clerk[c] EXCEPT !.pc = "patch", !.line = p, !.seen = stock[p]]
    <3>1. r \in Clerk /\ r.sub \in Subs
      BY <2>1 DEF Clerk
    <3>2. clerk' = [clerk EXCEPT ![c] = r]
      BY <1>8 DEF RestockGet
    <3> HIDE DEF r
    <3>3. QED BY <3>1, <3>2, ClerkWritten DEF BackOfficeOK
  <2>3. QED
    BY <1>8, <2>2 DEF RestockGet, RowsOK, StagesInSync, Status, Others, TopicsTypeOK,
       topicVars, ReaperPicksLate, BackOfficeOK
<1>9. ASSUME NEW c \in Clerks, RestockPatch(c)
      PROVE  RowsOK' /\ Others' /\ BackOfficeOK'
  <2>1. clerk[c] \in Clerk /\ clerk[c].sub \in Subs
    BY <1>9 DEF RestockPatch, BackOfficeOK, BusyClerk
  <2>2. LinesAfter(c, clerk[c].line) \in SUBSET Products /\ clerk[c].seen + 1 \in Nat
    BY <2>1 DEF LinesAfter, Clerk
  <2>3. clerk' \in [Clerks -> Clerk] /\ BusyClerk'
    <3> DEFINE r == [clerk[c] EXCEPT !.pc = "get", !.todo = LinesAfter(c, clerk[c].line)]
    <3>1. r \in Clerk /\ r.sub \in Subs
      BY <2>1, <2>2, GetsTyped
    <3>2. clerk' = [clerk EXCEPT ![c] = r]
      BY <1>9 DEF RestockPatch
    <3> HIDE DEF r
    <3>3. QED BY <3>1, <3>2, ClerkWritten DEF BackOfficeOK
  <2>4. stock' \in [Products -> Nat]
    BY <1>9, <2>2 DEF RestockPatch, BackOfficeOK
  <2>5. QED
    BY <1>9, <2>3, <2>4 DEF RestockPatch, RowsOK, StagesInSync, Status, Others,
       TopicsTypeOK, topicVars, ReaperPicksLate, BackOfficeOK
<1>10. ASSUME NEW c \in Clerks, NEW p \in Products, RestockFail(c, p)
       PROVE  RowsOK' /\ Others' /\ BackOfficeOK'
  <2>1. clerk[c] \in Clerk /\ clerk[c].sub \in Subs
    BY <1>10 DEF RestockFail, BackOfficeOK, BusyClerk
  <2>2. LinesAfter(c, p) \in SUBSET Products
    BY <2>1 DEF LinesAfter, Clerk
  <2>3. clerk' \in [Clerks -> Clerk] /\ BusyClerk'
    <3> DEFINE r == [clerk[c] EXCEPT !.pc = "get", !.todo = LinesAfter(c, p)]
    <3>1. r \in Clerk /\ r.sub \in Subs
      BY <2>1, <2>2, GetsTyped
    <3>2. clerk' = [clerk EXCEPT ![c] = r]
      BY <1>10 DEF RestockFail
    <3> HIDE DEF r
    <3>3. QED BY <3>1, <3>2, ClerkWritten DEF BackOfficeOK
  <2>4. QED
    BY <1>10, <2>3 DEF RestockFail, RowsOK, StagesInSync, Status, Others,
       TopicsTypeOK, topicVars, ReaperPicksLate, BackOfficeOK
<1>11. ASSUME NEW c \in Clerks, CancelEnd(c)
       PROVE  RowsOK' /\ Others' /\ BackOfficeOK'
  <2>1. IdleClerk \in Clerk /\ IdleClerk.pc = "idle"
    BY DEF IdleClerk, Clerk
  <2>2. clerk' \in [Clerks -> Clerk] /\ BusyClerk'
    BY <1>11, <2>1, ClerkWritten DEF CancelEnd, BackOfficeOK
  <2>3. QED
    BY <1>11, <2>2 DEF CancelEnd, RowsOK, StagesInSync, Status, Others,
       TopicsTypeOK, topicVars, ReaperPicksLate, BackOfficeOK
<1>12. CASE ReaperScan
  BY <1>12 DEF ReaperScan, RowsOK, StagesInSync, Status, Others, TopicsTypeOK,
     topicVars, ReaperPicksLate, Reaper, backOffice, clerkVars, BackOfficeOK, BusyClerk
<1>13. CASE ReaperExpire
  <2>1. RowsOK'
    BY <1>13, WrittenRows, RowWritten DEF ReaperExpire
  <2>2. Others' /\ BackOfficeOK'
    BY <1>13 DEF ReaperExpire, IdleReaper, Others, TopicsTypeOK, topicVars,
       ReaperPicksLate, Reaper, backOffice, clerkVars, BackOfficeOK, BusyClerk
  <2>3. QED BY <2>1, <2>2
<1>14. CASE ReaperAbort
  BY <1>14 DEF ReaperAbort, IdleReaper, RowsOK, StagesInSync, Status, Others,
     TopicsTypeOK, topicVars, ReaperPicksLate, Reaper, backOffice, clerkVars,
     BackOfficeOK, BusyClerk
<1>15. ASSUME NEW ids \in SUBSET Subs, Confirm(ids)
       PROVE  RowsOK' /\ Others' /\ BackOfficeOK'
  <2>1. RowsOK'
    <3>1. order' = [s \in Subs |-> IF s \in ids THEN RowFor("paid") ELSE order[s]]
      BY <1>15, WrittenRows DEF Confirm
    <3>2. "paid" \in OrderStatuses
      BY WrittenRows
    <3>3. QED BY <3>1, <3>2, RowWritten
  <2>2. PICK drop \in SUBSET ids : PublishPaid(ids, drop)
    BY <1>15 DEF Confirm
  <2>3. TopicsTypeOK'
    BY <2>2, PublishTyped DEF Others
  <2>4. Others'
    BY <1>15, <2>3 DEF Confirm, Others, ReaperPicksLate
  <2>5. BackOfficeOK'
    BY <1>15 DEF Confirm, backOffice, clerkVars, BackOfficeOK, BusyClerk
  <2>6. QED BY <2>1, <2>4, <2>5
<1>16. ASSUME NEW s \in Subs, confirmPayment(s)
       PROVE  RowsOK' /\ Others' /\ BackOfficeOK'
  BY <1>15, <1>16 DEF confirmPayment, AwaitingPayment
<1>17. ASSUME NEW g \in Groups, confirmParentPayment(g)
       PROVE  RowsOK' /\ Others' /\ BackOfficeOK'
  BY <1>15, <1>17 DEF confirmParentPayment, AwaitingPayment, SubsOf
<1>18. ASSUME NEW s \in Subs, NEW keep \in BOOLEAN, ReaperCheck(s, keep),
              UNCHANGED topicVars
       PROVE  RowsOK' /\ Others' /\ BackOfficeOK'
  <2>1. reaper' \in Reaper /\ ReaperPicksLate'
    BY <1>18 DEF ReaperCheck, Others, Reaper, ReaperPicksLate
  <2>2. QED
    BY <1>18, <2>1 DEF ReaperCheck, RowsOK, StagesInSync, Status, Others,
       TopicsTypeOK, topicVars, backOffice, clerkVars, BackOfficeOK, BusyClerk
<1>19. CASE UNCHANGED ordersVars
  BY <1>19 DEF ordersVars, ordersOnly, RowsOK, StagesInSync, Status, Others,
     TopicsTypeOK, topicVars, ReaperPicksLate, backOffice, clerkVars, BackOfficeOK,
     BusyClerk
<1>20. QED
  BY <1>1, <1>2, <1>3, <1>4, <1>5, <1>6, <1>7, <1>8, <1>9, <1>10, <1>11, <1>12,
     <1>13, <1>14, <1>16, <1>17, <1>18, <1>19 DEF OrdersNext, OrdersInternal

LEMMA OrdersTyped == OrdersSpec => []OrdersTypedInv
  BY OrdersTypedInit, OrdersTypedStep, PTL DEF OrdersSpec

\* The rows of orders, the stock, the topics and the locals of the handlers and
\* of the reaper keep their types under every interleaving.
THEOREM OrdersTypeCorrect == OrdersSpec => []OrdersTypeOK
  BY OrdersTyped, PTL DEF OrdersTypedInv

\* status, payment_status and fulfillment_stage agree in every row, whichever
\* handler or loop of order-svc wrote it last.
THEOREM Columns == OrdersSpec => []StagesInSync
  BY OrdersTyped, PTL DEF OrdersTypedInv

-----------------------------------------------------------------------------
(* Confirmations *)

\* The sub-orders of a group are inserted together, none of them confirmed.
BornTogether ==
    \A s, t \in Subs : GroupOf[s] = GroupOf[t] /\ Status(s) = "absent"
                          => Status(t) = "absent" /\ confirms[s] = 0

\* As long as an order is pending, every confirmation of it has been taken back
\* by a member of the staff.
PendingIsReopened ==
    \A s \in Subs : Status(s) = "pending_payment" => confirms[s] <= reopens[s]

OnceInv == BornTogether /\ PendingIsReopened /\ ConfirmedAtMostOnce

\* Rows are never deleted.
LEMMA NoDelete ==
    ASSUME OrdersTypedInv, OrdersNext, NEW s \in Subs, Status(s) # "absent"
    PROVE  Status(s)' # "absent"
<1>0. order \in [Subs -> OrderRow]
  BY DEF OrdersTypedInv, OrdersTypeOK
<1>1. ASSUME NEW g \in Groups, CreateOrder(g) PROVE Status(s)' # "absent"
  BY <1>1 DEF CreateOrder, Status, PendingRow, Row
<1>2. ASSUME NEW t \in Subs, NEW status \in StaffStatuses, updateOrderStatus(t, status)
      PROVE  Status(s)' # "absent"
  BY <1>0, <1>2, OrdersAssumption, WrittenRows DEF updateOrderStatus, Status
<1>3. ASSUME NEW c \in Clerks, CancelWrite(c) PROVE Status(s)' # "absent"
  BY <1>0, <1>3 DEF CancelWrite, Status, CancelledRow, Row
<1>4. CASE ReaperExpire
  BY <1>4 DEF ReaperExpire, Status, ExpiredRow, Row
<1>5. ASSUME NEW ids, Confirm(ids) PROVE Status(s)' # "absent"
  BY <1>5 DEF Confirm, Status, PaidRow, Row
<1>6. CASE UNCHANGED order
  BY <1>6 DEF Status
<1>7. QED
  BY <1>1, <1>2, <1>3, <1>4, <1>5, <1>6
     DEF OrdersNext, OrdersInternal, PublishCreated, LoseCreated, Age, CancelRead,
         RestockGet, RestockPatch, RestockFail, CancelEnd, ReaperScan, ReaperCheck,
         ReaperAbort, confirmPayment, confirmParentPayment

\* An order that is being cancelled has been created.
ClerkSaw == \A c \in Clerks : clerk[c].pc # "idle" => Status(clerk[c].sub) # "absent"

LEMMA ClerkSawInit == OrdersInit => ClerkSaw
  BY DEF OrdersInit, ClerkSaw, IdleClerk

LEMMA ClerkSawStep ==
    OrdersTypedInv /\ ClerkSaw /\ [OrdersNext]_ordersVars => ClerkSaw'
<1> SUFFICES ASSUME OrdersTypedInv, ClerkSaw, OrdersNext, NEW c \in Clerks,
                    clerk'[c].pc # "idle"
             PROVE  order'[clerk'[c].sub].status # "absent"
  BY DEF ordersVars, ordersOnly, backOffice, clerkVars, ClerkSaw, Status
<1> DEFINE Kept == clerk[c].pc # "idle" /\ clerk'[c].sub = clerk[c].sub
           Seen == clerk'[c].sub \in Subs /\ Status(clerk'[c].sub) # "absent"
<1>0. clerk \in [Clerks -> Clerk] /\ BusyClerk
  BY DEF OrdersTypedInv, OrdersTypeOK, Clerk
<1>1. ASSUME NEW d \in Clerks, NEW s \in Subs, CancelRead(d, s) PROVE Kept \/ Seen
  BY <1>0, <1>1 DEF CancelRead, Clerk
<1>2. ASSUME NEW d \in Clerks, CancelWrite(d) PROVE Kept
  BY <1>0, <1>2 DEF CancelWrite, Clerk
<1>3. ASSUME NEW d \in Clerks, NEW p \in Products, RestockGet(d, p) PROVE Kept
  BY <1>0, <1>3 DEF RestockGet, Clerk
<1>4. ASSUME NEW d \in Clerks, RestockPatch(d) PROVE Kept
  BY <1>0, <1>4 DEF RestockPatch, Clerk
<1>5. ASSUME NEW d \in Clerks, NEW p \in Products, RestockFail(d, p) PROVE Kept
  BY <1>0, <1>5 DEF RestockFail, Clerk
<1>6. ASSUME NEW d \in Clerks, CancelEnd(d) PROVE Kept
  BY <1>0, <1>6 DEF CancelEnd, IdleClerk
<1>7. Kept \/ Seen
  BY <1>1, <1>2, <1>3, <1>4, <1>5, <1>6
     DEF OrdersNext, OrdersInternal, CreateOrder, PublishCreated, LoseCreated, Age,
         updateOrderStatus, ReaperScan, ReaperCheck, ReaperExpire, ReaperAbort, Confirm,
         confirmPayment, confirmParentPayment, backOffice, clerkVars
<1>8. clerk'[c].sub \in Subs /\ Status(clerk'[c].sub) # "absent"
  BY <1>0, <1>7 DEF BusyClerk, ClerkSaw
<1> HIDE DEF Kept, Seen
<1>9. \A s \in Subs : Status(s) # "absent" => order'[s].status # "absent"
  BY NoDelete DEF Status
<1>10. QED BY <1>8, <1>9

\* A step that leaves the rows and the histories of some sub-orders alone, and
\* takes the others out of pending_payment, keeps OnceInv.
LEMMA LeavesPending ==
    ASSUME OnceInv, confirms' = confirms, reopens' = reopens,
           \A s \in Subs :
               \/ Status(s)' = Status(s)
               \/ /\ Status(s) # "absent"
                  /\ Status(s)' \notin {"absent", "pending_payment"}
    PROVE  OnceInv'
  BY DEF OnceInv, BornTogether, PendingIsReopened, ConfirmedAtMostOnce

LEMMA OnceInit == OrdersInit => OnceInv
  BY DEF OrdersInit, OnceInv, BornTogether, PendingIsReopened, ConfirmedAtMostOnce,
     Status, NoRow, Row

LEMMA ConfirmOnce ==
    ASSUME OrdersTypedInv, OnceInv, NEW ids \in SUBSET Subs,
           \A s \in ids : Status(s) = "pending_payment",
           Confirm(ids)
    PROVE  OnceInv'
<1>1. /\ reopens' = reopens
      /\ \A s \in Subs : IF s \in ids
                        THEN Status(s)' = "paid" /\ confirms'[s] = confirms[s] + 1
                        ELSE Status(s)' = Status(s) /\ confirms'[s] = confirms[s]
  BY DEF Confirm, Status, PaidRow, Row
<1>2. /\ confirms \in [Subs -> Nat] /\ reopens \in [Subs -> Nat]
      /\ GroupOf \in [Subs -> Groups]
  BY MarketAssumption DEF OrdersTypedInv, OrdersTypeOK
<1>3. BornTogether' /\ PendingIsReopened'
  BY <1>1 DEF OnceInv, BornTogether, PendingIsReopened
<1>4. ConfirmedAtMostOnce'
  BY <1>1, <1>2 DEF OnceInv, PendingIsReopened, ConfirmedAtMostOnce
<1>5. QED BY <1>3, <1>4 DEF OnceInv

LEMMA OnceStep ==
    OrdersTypedInv /\ ClerkSaw /\ OnceInv /\ [OrdersNext]_ordersVars => OnceInv'
<1> SUFFICES ASSUME OrdersTypedInv, ClerkSaw, OnceInv, [OrdersNext]_ordersVars
             PROVE  OnceInv'
  OBVIOUS
<1>0. /\ confirms \in [Subs -> Nat] /\ reopens \in [Subs -> Nat]
      /\ order \in [Subs -> OrderRow]
  BY DEF OrdersTypedInv, OrdersTypeOK
<1>1. ASSUME NEW g \in Groups, CreateOrder(g)
      PROVE  OnceInv'
  <2>1. PICK t \in SubsOf(g) : Status(t) = "absent"
    BY <1>1 DEF CreateOrder, Created
  <2>2. \A s \in SubsOf(g) : Status(s) = "absent" /\ confirms[s] = 0
    BY <2>1 DEF OnceInv, BornTogether, SubsOf
  <2>3. /\ confirms' = confirms /\ reopens' = reopens
        /\ \A s \in Subs : Status(s)' = IF s \in SubsOf(g) THEN "pending_payment"
                                        ELSE Status(s)
    BY <1>1 DEF CreateOrder, Status, PendingRow, Row, backOffice
  <2>4. BornTogether'
    BY <2>3 DEF OnceInv, BornTogether, SubsOf
  <2>5. PendingIsReopened' /\ ConfirmedAtMostOnce'
    BY <1>0, <2>2, <2>3 DEF OnceInv, PendingIsReopened, ConfirmedAtMostOnce
  <2>6. QED BY <2>4, <2>5 DEF OnceInv
<1>2. ASSUME NEW s \in Subs, NEW status \in StaffStatuses, updateOrderStatus(s, status)
      PROVE  OnceInv'
  <2>1. status \in OrderStatuses
    BY OrdersAssumption
  <2>2. /\ confirms' = confirms /\ Status(s) # "absent" /\ status # "absent"
        /\ Status(s)' = status
        /\ \A t \in Subs \ {s} : Status(t)' = Status(t)
    BY <1>0, <1>2, <2>1, WrittenRows DEF updateOrderStatus, Status
  <2>3. /\ \A t \in Subs : reopens'[t] \in Nat /\ reopens[t] <= reopens'[t]
        /\ status = "pending_payment" => reopens'[s] = reopens[s] + 1
    BY <1>0, <1>2 DEF updateOrderStatus
  <2>4. BornTogether'
    BY <2>2 DEF OnceInv, BornTogether
  <2>5. PendingIsReopened' /\ ConfirmedAtMostOnce'
    BY <1>0, <2>2, <2>3 DEF OnceInv, PendingIsReopened, ConfirmedAtMostOnce
  <2>6. QED BY <2>4, <2>5 DEF OnceInv
<1>3. ASSUME NEW c \in Clerks, CancelWrite(c)
      PROVE  OnceInv'
  <2>1. PICK s \in Subs : s = clerk[c].sub /\ Status(s) # "absent"
    BY <1>3 DEF CancelWrite, OrdersTypedInv, BusyClerk, ClerkSaw
  <2>2. /\ confirms' = confirms /\ reopens' = reopens
        /\ Status(s)' = "cancelled"
        /\ \A t \in Subs \ {s} : Status(t)' = Status(t)
    BY <1>0, <1>3, <2>1 DEF CancelWrite, Status, CancelledRow, Row
  <2>3. QED BY <2>1, <2>2, LeavesPending
<1>4. CASE ReaperExpire
  <2>1. confirms' = confirms /\ reopens' = reopens
    BY <1>4 DEF ReaperExpire
  <2>2. \A s \in Subs :
            \/ Status(s)' = Status(s)
            \/ /\ Status(s) # "absent"
               /\ Status(s)' \notin {"absent", "pending_payment"}
    BY <1>0, <1>4 DEF ReaperExpire, AwaitingPayment, Status, ExpiredRow, Row
  <2>3. QED BY <2>1, <2>2, LeavesPending
<1>5. ASSUME NEW s \in Subs, confirmPayment(s)
      PROVE  OnceInv'
  BY <1>5, ConfirmOnce DEF confirmPayment, AwaitingPayment
<1>6. ASSUME NEW g \in Groups, confirmParentPayment(g)
      PROVE  OnceInv'
  BY <1>6, ConfirmOnce DEF confirmParentPayment, AwaitingPayment, SubsOf
<1>7. ASSUME UNCHANGED <<order, confirms, reopens>>
      PROVE  OnceInv'
  BY <1>7 DEF OnceInv, BornTogether, PendingIsReopened, ConfirmedAtMostOnce, Status
<1>8. QED
  BY <1>1, <1>2, <1>3, <1>4, <1>5, <1>6, <1>7
     DEF OrdersNext, OrdersInternal, PublishCreated, LoseCreated, Age, CancelRead,
         RestockGet, RestockPatch, RestockFail, CancelEnd, ReaperScan, ReaperCheck,
         ReaperAbort, ordersVars, ordersOnly

\* However many confirmations reach order-svc for a sub-order, through its group
\* or by itself, one takes effect each time it is open for payment.
THEOREM SingleConfirmation == OrdersSpec => []ConfirmedAtMostOnce
<1>1. OrdersSpec => []ClerkSaw
  BY ClerkSawInit, ClerkSawStep, OrdersTyped, PTL DEF OrdersSpec
<1>2. OrdersSpec => []OnceInv
  BY <1>1, OnceInit, OnceStep, OrdersTyped, PTL DEF OrdersSpec
<1>3. OnceInv => ConfirmedAtMostOnce
  BY DEF OnceInv
<1>4. QED BY <1>2, <1>3, PTL

-----------------------------------------------------------------------------
(* The reaper *)

LEMMA ReaperStep ==
    ASSUME OrdersTypedInv, [OrdersNext]_ordersVars, NEW s \in Subs,
           Status(s)' = "payment_expired", Status(s) # "payment_expired",
           staff' = staff
    PROVE  Status(s) = "pending_payment" /\ s \in aged
<1>0. /\ order \in [Subs -> OrderRow] /\ staff \in Nat
      /\ reaper.toExpire \subseteq aged
  BY OrdersAssumption DEF OrdersTypedInv, OrdersTypeOK, ReaperPicksLate
<1>1. ASSUME NEW g \in Groups, CreateOrder(g) PROVE FALSE
  BY <1>1 DEF CreateOrder, Status, PendingRow, Row
<1>2. ASSUME NEW t \in Subs, NEW status \in StaffStatuses, updateOrderStatus(t, status)
      PROVE  FALSE
  BY <1>0, <1>2 DEF updateOrderStatus
<1>3. ASSUME NEW c \in Clerks, CancelWrite(c) PROVE FALSE
  BY <1>0, <1>3 DEF CancelWrite, Status, CancelledRow, Row
<1>4. CASE ReaperExpire
  BY <1>0, <1>4 DEF ReaperExpire, AwaitingPayment, Status
<1>5. ASSUME NEW ids, Confirm(ids) PROVE FALSE
  BY <1>5 DEF Confirm, Status, PaidRow, Row
<1>6. order' # order
  BY DEF Status
<1>7. QED
  BY <1>1, <1>2, <1>3, <1>4, <1>5, <1>6
     DEF OrdersNext, OrdersInternal, PublishCreated, LoseCreated, Age, CancelRead,
         RestockGet, RestockPatch, RestockFail, CancelEnd, ReaperScan, ReaperCheck,
         ReaperAbort, ordersVars, ordersOnly, confirmPayment, confirmParentPayment

\* Whatever happens while the reaper is asking payment-svc about its candidates,
\* it expires only what is late and still unpaid when it writes.
THEOREM ReaperIsCareful == OrdersSpec => ReaperSparesSettled
<1>1. OrdersTypedInv /\ [OrdersNext]_ordersVars =>
          [\A s \in Subs : /\ Status(s)' = "payment_expired"
                           /\ Status(s) # "payment_expired"
                           /\ staff' = staff
                           => Status(s) = "pending_payment" /\ s \in aged]_ordersVars
  BY ReaperStep
<1>2. QED
  BY <1>1, OrdersTyped, PTL DEF OrdersSpec, ReaperSparesSettled

-----------------------------------------------------------------------------
(* The stock *)

\* What a clerk has still to put back is finite, and so is what was given up.
CountsFinite ==
    \A p \in Products : IsFiniteSet(Restocking(p)) /\ IsFiniteSet(CancelledUnits(p))

\* A clerk has lines to put back only once the row is cancelled, and the line
\* it is about to write is one of them.
TodoByStage ==
    \A c \in Clerks :
        /\ clerk[c].pc \in {"idle", "write"} => clerk[c].todo = {}
        /\ clerk[c].pc = "patch" => clerk[c].line \in clerk[c].todo

\* The stock that a clerk has read may have changed since, in either direction;
\* it was within the bound when it was read, and the bound never shrinks.
SeenIsCovered ==
    \A c \in Clerks :
        clerk[c].pc = "patch" =>
            clerk[c].seen + Cardinality(Restocking(clerk[c].line))
                <= Shelf + Cardinality(CancelledUnits(clerk[c].line))

RestockInv ==
    CountsFinite /\ TodoByStage /\ SeenIsCovered /\ RestockedOncePerCancellation

\* A request that ends, or a line that is done with, leaves fewer lines to put
\* back; what was given up stays.
LEMMA LessToRestock ==
    ASSUME RestockInv, cancels' = cancels, NEW p \in Products,
           \A d \in Clerks : p \in clerk'[d].todo => p \in clerk[d].todo
    PROVE  /\ IsFiniteSet(Restocking(p)') /\ IsFiniteSet(CancelledUnits(p)')
           /\ CancelledUnits(p)' = CancelledUnits(p)
           /\ Cardinality(CancelledUnits(p)) \in Nat
           /\ Cardinality(Restocking(p)) \in Nat /\ Cardinality(Restocking(p)') \in Nat
           /\ Cardinality(Restocking(p)') <= Cardinality(Restocking(p))
<1>1. IsFiniteSet(Restocking(p)) /\ IsFiniteSet(CancelledUnits(p))
  BY DEF RestockInv, CountsFinite
<1>2. Restocking(p)' \in SUBSET Restocking(p)
  BY DEF Restocking
<1>3. CancelledUnits(p)' = CancelledUnits(p)
  BY DEF CancelledUnits
<1> HIDE DEF Restocking, CancelledUnits
<1>4. QED
  BY <1>1, <1>2, <1>3, FS_Subset, FS_CardinalityType

\* A step that neither writes the stock nor cancels a row, and by which no clerk
\* takes up lines, keeps RestockInv; a clerk that reads the stock sees it as it is.
LEMMA StockLeftAlone ==
    ASSUME OrdersTypedInv, RestockInv, TodoByStage', cancels' = cancels, stock' = stock,
           \A d \in Clerks : clerk'[d].todo \subseteq clerk[d].todo,
           \A d \in Clerks : clerk'[d].pc = "patch" =>
               \/ clerk'[d] = clerk[d]
               \/ clerk'[d].seen = stock[clerk'[d].line]
    PROVE  RestockInv'
<1>0. /\ clerk \in [Clerks -> Clerk] /\ stock \in [Products -> Nat] /\ Shelf \in Nat
  BY OrdersAssumption DEF OrdersTypedInv, OrdersTypeOK, Clerk
<1>1. \A p \in Products :
          /\ IsFiniteSet(Restocking(p)') /\ IsFiniteSet(CancelledUnits(p)')
          /\ CancelledUnits(p)' = CancelledUnits(p)
          /\ Cardinality(CancelledUnits(p)) \in Nat
          /\ Cardinality(Restocking(p)) \in Nat /\ Cardinality(Restocking(p)') \in Nat
          /\ Cardinality(Restocking(p)') <= Cardinality(Restocking(p))
  BY LessToRestock
<1>2. \A p \in Products :
          stock[p] + Cardinality(Restocking(p)') <= Shelf + Cardinality(CancelledUnits(p))
  BY <1>0, <1>1 DEF RestockInv, RestockedOncePerCancellation
<1>3. ASSUME NEW d \in Clerks, clerk'[d].pc = "patch"
      PROVE  (clerk[d].seen + Cardinality(Restocking(clerk[d].line))
                 <= Shelf + Cardinality(CancelledUnits(clerk[d].line)))'
  <2> DEFINE p == clerk'[d].line
  <2>1. p \in Products
    BY <1>0, <1>3 DEF TodoByStage, Clerk
  <2>2. CASE clerk'[d] = clerk[d]
    <3>1. /\ clerk[d].pc = "patch" /\ p = clerk[d].line
          /\ clerk'[d].seen = clerk[d].seen /\ clerk[d].seen \in Nat
      BY <1>0, <1>3, <2>2 DEF Clerk
    <3>2. clerk[d].seen + Cardinality(Restocking(p)) <= Shelf + Cardinality(CancelledUnits(p))
      BY <3>1 DEF RestockInv, SeenIsCovered
    <3> HIDE DEF p
    <3>3. QED BY <1>0, <1>1, <2>1, <3>1, <3>2 DEF p
  <2>3. CASE clerk'[d].seen = stock[p]
    <3> HIDE DEF p
    <3>1. QED BY <1>1, <1>2, <2>1, <2>3 DEF p
  <2>4. QED BY <1>3, <2>2, <2>3
<1>4. SeenIsCovered'
  BY <1>3 DEF SeenIsCovered
<1>5. QED
  BY <1>1, <1>2, <1>4 DEF RestockInv, CountsFinite, RestockedOncePerCancellation

LEMMA RestockInit == OrdersInit => RestockInv
<1> SUFFICES ASSUME OrdersInit PROVE RestockInv
  OBVIOUS
<1>1. ASSUME NEW p \in Products
      PROVE  Restocking(p) = {} /\ CancelledUnits(p) = {} /\ stock[p] = Shelf
  <2>1. Restocking(p) = {} /\ stock[p] = Shelf
    BY DEF OrdersInit, IdleClerk, Restocking
  <2>2. \A s \in Subs : {s} \X (1 .. cancels[s]) = {}
    BY DEF OrdersInit
  <2>3. QED BY <2>1, <2>2 DEF CancelledUnits
<1>2. CountsFinite /\ RestockedOncePerCancellation
  <2>1. IsFiniteSet({}) /\ Cardinality({}) = 0 /\ Shelf \in Nat
    BY FS_EmptySet, OrdersAssumption
  <2>2. \A p \in Products :
            /\ IsFiniteSet(Restocking(p)) /\ Cardinality(Restocking(p)) = 0
            /\ IsFiniteSet(CancelledUnits(p)) /\ Cardinality(CancelledUnits(p)) = 0
    BY <1>1, <2>1
  <2>3. QED BY <1>1, <2>1, <2>2 DEF CountsFinite, RestockedOncePerCancellation
<1>3. TodoByStage /\ SeenIsCovered
  BY DEF OrdersInit, IdleClerk, TodoByStage, SeenIsCovered
<1>4. QED BY <1>2, <1>3 DEF RestockInv

\* The step from the status to the stock: the row is cancelled, and each line of
\* the order gives one clerk one unit to put back.
LEMMA CancelGivesUp ==
    ASSUME OrdersTypedInv, RestockInv, NEW c \in Clerks, CancelWrite(c)
    PROVE  RestockInv'
<1> DEFINE s == clerk[c].sub
           n == cancels[s] + 1
<1>0. /\ clerk \in [Clerks -> Clerk] /\ clerk[c] \in Clerk /\ s \in Subs
      /\ cancels \in [Subs -> Nat] /\ n \in Nat
      /\ stock \in [Products -> Nat] /\ Shelf \in Nat /\ LinesOf \in [Subs -> SUBSET Products]
  <2>1. /\ clerk \in [Clerks -> Clerk] /\ cancels \in [Subs -> Nat]
        /\ stock \in [Products -> Nat]
    BY DEF OrdersTypedInv, OrdersTypeOK, Clerk
  <2>2. s \in Subs
    BY DEF OrdersTypedInv, BusyClerk, CancelWrite
  <2>3. QED BY <2>1, <2>2, OrdersAssumption
<1>1. /\ clerk[c].todo = {} /\ clerk[c].pc = "write"
      /\ clerk'[c].todo = LinesOf[s] /\ clerk'[c].pc = "get"
      /\ \A d \in Clerks \ {c} : clerk'[d] = clerk[d]
      /\ stock' = stock /\ cancels' = [cancels EXCEPT ![s] = n]
  BY <1>0 DEF CancelWrite, RestockInv, TodoByStage, Clerk
<1> HIDE DEF s, n
<1>2. TodoByStage'
  BY <1>1 DEF RestockInv, TodoByStage
<1>3. ASSUME NEW p \in Products, p \in LinesOf[s]
      PROVE  /\ Restocking(p)' = Restocking(p) \cup {c} /\ c \notin Restocking(p)
             /\ CancelledUnits(p)' = CancelledUnits(p) \cup {<<s, n>>}
             /\ <<s, n>> \notin CancelledUnits(p)
  <2>1. Restocking(p)' = Restocking(p) \cup {c} /\ c \notin Restocking(p)
    BY <1>1, <1>3 DEF Restocking
  <2>2. \A x : x \in CancelledUnits(p) <=>
            \E t \in Subs : \E k \in 1 .. cancels[t] : p \in LinesOf[t] /\ x = <<t, k>>
    BY DEF CancelledUnits
  <2>3. \A x : x \in CancelledUnits(p)' <=>
            \E t \in Subs : \E k \in 1 .. cancels'[t] : p \in LinesOf[t] /\ x = <<t, k>>
    BY DEF CancelledUnits
  <2>4. <<s, n>> \notin CancelledUnits(p)
    BY <1>0, <2>2 DEF n
  <2>5. \A t \in Subs : t # s => cancels'[t] = cancels[t]
    BY <1>0, <1>1
  <2>6. 1 .. cancels'[s] = (1 .. cancels[s]) \cup {n}
    BY <1>0, <1>1 DEF n
  <2>7. ASSUME NEW x PROVE x \in CancelledUnits(p)' <=> x \in CancelledUnits(p) \/ x = <<s, n>>
    <3>1. ASSUME x \in CancelledUnits(p)' PROVE x \in CancelledUnits(p) \/ x = <<s, n>>
      BY <2>2, <2>3, <2>5, <2>6, <3>1
    <3>2. ASSUME x \in CancelledUnits(p) PROVE x \in CancelledUnits(p)'
      <4>1. PICK t \in Subs : \E k \in 1 .. cancels[t] : p \in LinesOf[t] /\ x = <<t, k>>
        BY <2>2, <3>2
      <4>2. 1 .. cancels[t] \subseteq 1 .. cancels'[t]
        BY <2>5, <2>6
      <4>3. QED BY <2>3, <4>1, <4>2
    <3>3. <<s, n>> \in CancelledUnits(p)'
      BY <1>0, <1>3, <2>3, <2>6
    <3>4. QED BY <3>1, <3>2, <3>3
  <2>8. QED BY <2>1, <2>4, <2>7
<1>4. ASSUME NEW p \in Products, p \notin LinesOf[s]
      PROVE  Restocking(p)' = Restocking(p) /\ CancelledUnits(p)' = CancelledUnits(p)
  <2>1. Restocking(p)' = Restocking(p)
    BY <1>1, <1>4 DEF Restocking
  <2>2. \A t \in Subs : p \in LinesOf[t] => cancels'[t] = cancels[t]
    BY <1>0, <1>1, <1>4
  <2>3. QED BY <2>1, <2>2 DEF CancelledUnits
<1>5. ASSUME NEW p \in Products
      PROVE  /\ IsFiniteSet(Restocking(p)') /\ IsFiniteSet(CancelledUnits(p)')
             /\ Cardinality(Restocking(p)) \in Nat /\ Cardinality(CancelledUnits(p)) \in Nat
             /\ \E k \in 0 .. 1 :
                    /\ Cardinality(Restocking(p)') = Cardinality(Restocking(p)) + k
                    /\ Cardinality(CancelledUnits(p)') = Cardinality(CancelledUnits(p)) + k
  <2>1. /\ IsFiniteSet(Restocking(p)) /\ Cardinality(Restocking(p)) \in Nat
        /\ IsFiniteSet(CancelledUnits(p)) /\ Cardinality(CancelledUnits(p)) \in Nat
    BY FS_CardinalityType DEF RestockInv, CountsFinite
  <2>2. CASE p \in LinesOf[s]
    <3>1. /\ IsFiniteSet(Restocking(p)')
          /\ Cardinality(Restocking(p)') = Cardinality(Restocking(p)) + 1
      BY <1>3, <2>1, <2>2, FS_AddElement
    <3>2. /\ IsFiniteSet(CancelledUnits(p)')
          /\ Cardinality(CancelledUnits(p)') = Cardinality(CancelledUnits(p)) + 1
      BY <1>3, <2>1, <2>2, FS_AddElement
    <3>3. QED BY <2>1, <3>1, <3>2
  <2>3. CASE p \notin LinesOf[s]
    BY <1>4, <2>1, <2>3
  <2>4. QED BY <2>2, <2>3
<1>6. RestockedOncePerCancellation'
  BY <1>0, <1>1, <1>5 DEF RestockInv, RestockedOncePerCancellation
<1>7. SeenIsCovered'
  <2>1. SUFFICES ASSUME NEW d \in Clerks, clerk'[d].pc = "patch"
                 PROVE  (clerk[d].seen + Cardinality(Restocking(clerk[d].line))
                            <= Shelf + Cardinality(CancelledUnits(clerk[d].line)))'
    BY DEF SeenIsCovered
  <2>2. clerk'[d] = clerk[d] /\ clerk[d].line \in Products /\ clerk[d].seen \in Nat
    BY <1>0, <1>1, <2>1 DEF RestockInv, TodoByStage, Clerk
  <2>3. clerk[d].seen + Cardinality(Restocking(clerk[d].line))
            <= Shelf + Cardinality(CancelledUnits(clerk[d].line))
    BY <2>1, <2>2 DEF RestockInv, SeenIsCovered
  <2>4. QED BY <1>0, <1>5, <2>2, <2>3
<1>8. QED BY <1>2, <1>5, <1>6, <1>7 DEF RestockInv, CountsFinite

\* The PATCH: what the clerk read was covered together with its own unit.
LEMMA PatchPutsBack ==
    ASSUME OrdersTypedInv, RestockInv, NEW c \in Clerks, RestockPatch(c)
    PROVE  RestockInv'
<1>0. /\ clerk \in [Clerks -> Clerk] /\ clerk[c] \in Clerk /\ clerk[c].seen \in Nat
      /\ stock \in [Products -> Nat] /\ Shelf \in Nat
  BY OrdersAssumption DEF OrdersTypedInv, OrdersTypeOK, Clerk
<1>1. PICK p \in Products :
      /\ clerk[c].pc = "patch" /\ p = clerk[c].line /\ p \in clerk[c].todo
      /\ clerk'[c].pc = "get" /\ clerk'[c].todo = clerk[c].todo \ {p}
      /\ \A d \in Clerks \ {c} : clerk'[d] = clerk[d]
      /\ stock' = [stock EXCEPT ![p] = clerk[c].seen + 1] /\ cancels' = cancels
  BY <1>0 DEF RestockPatch, RestockInv, TodoByStage, Clerk, LinesAfter
<1>2. clerk[c].seen + Cardinality(Restocking(p)) <= Shelf + Cardinality(CancelledUnits(p))
  BY <1>1 DEF RestockInv, SeenIsCovered
<1>3. TodoByStage'
  BY <1>1 DEF RestockInv, TodoByStage
<1>4. \A q \in Products :
          /\ IsFiniteSet(Restocking(q)') /\ IsFiniteSet(CancelledUnits(q)')
          /\ CancelledUnits(q)' = CancelledUnits(q)
          /\ Cardinality(CancelledUnits(q)) \in Nat
          /\ Cardinality(Restocking(q)) \in Nat /\ Cardinality(Restocking(q)') \in Nat
          /\ Cardinality(Restocking(q)') <= Cardinality(Restocking(q))
  <2>1. \A q \in Products, d \in Clerks : q \in clerk'[d].todo => q \in clerk[d].todo
    BY <1>1
  <2>2. QED BY <1>1, <2>1, LessToRestock
<1>5. Cardinality(Restocking(p)') = Cardinality(Restocking(p)) - 1
  <2>1. Restocking(p)' = Restocking(p) \ {c} /\ c \in Restocking(p)
    BY <1>1 DEF Restocking
  <2>2. IsFiniteSet(Restocking(p))
    BY <1>1 DEF RestockInv, CountsFinite
  <2>3. QED BY <2>1, <2>2, FS_RemoveElement
<1>6. RestockedOncePerCancellation'
  <2>1. stock'[p] + Cardinality(Restocking(p)') <= Shelf + Cardinality(CancelledUnits(p)')
    BY <1>0, <1>1, <1>2, <1>4, <1>5
  <2>2. \A q \in Products \ {p} :
            stock'[q] + Cardinality(Restocking(q)') <= Shelf + Cardinality(CancelledUnits(q)')
    BY <1>0, <1>1, <1>4 DEF RestockInv, RestockedOncePerCancellation
  <2>3. QED BY <2>1, <2>2 DEF RestockedOncePerCancellation
<1>7. SeenIsCovered'
  <2>1. SUFFICES ASSUME NEW d \in Clerks, clerk'[d].pc = "patch"
                 PROVE  (clerk[d].seen + Cardinality(Restocking(clerk[d].line))
                            <= Shelf + Cardinality(CancelledUnits(clerk[d].line)))'
    BY DEF SeenIsCovered
  <2>2. clerk'[d] = clerk[d] /\ clerk[d].line \in Products /\ clerk[d].seen \in Nat
    BY <1>0, <1>1, <2>1 DEF RestockInv, TodoByStage, Clerk
  <2>3. clerk[d].seen + Cardinality(Restocking(clerk[d].line))
            <= Shelf + Cardinality(CancelledUnits(clerk[d].line))
    BY <2>1, <2>2 DEF RestockInv, SeenIsCovered
  <2>4. QED BY <1>0, <1>4, <2>2, <2>3
<1>8. QED BY <1>3, <1>4, <1>6, <1>7 DEF RestockInv, CountsFinite

LEMMA RestockStep == OrdersTypedInv /\ RestockInv /\ [OrdersNext]_ordersVars => RestockInv'
<1> SUFFICES ASSUME OrdersTypedInv, RestockInv, [OrdersNext]_ordersVars
             PROVE  RestockInv'
  OBVIOUS
<1>0. clerk \in [Clerks -> Clerk] /\ TodoByStage
  BY DEF OrdersTypedInv, OrdersTypeOK, Clerk, RestockInv
<1>1. ASSUME NEW c \in Clerks, NEW s \in Subs, CancelRead(c, s) PROVE RestockInv'
  <2>1. /\ clerk'[c].pc = "write" /\ clerk'[c].todo = clerk[c].todo /\ clerk[c].todo = {}
        /\ \A d \in Clerks \ {c} : clerk'[d] = clerk[d]
    BY <1>0, <1>1 DEF CancelRead, Clerk, TodoByStage
  <2>2. TodoByStage'
    BY <1>0, <2>1 DEF TodoByStage
  <2>3. QED BY <1>1, <2>1, <2>2, StockLeftAlone DEF CancelRead
<1>2. ASSUME NEW c \in Clerks, NEW p \in Products, RestockGet(c, p) PROVE RestockInv'
  <2>1. /\ clerk'[c].pc = "patch" /\ clerk'[c].todo = clerk[c].todo
        /\ clerk'[c].line = p /\ p \in clerk[c].todo /\ clerk'[c].seen = stock[p]
        /\ \A d \in Clerks \ {c} : clerk'[d] = clerk[d]
    BY <1>0, <1>2 DEF RestockGet, Clerk
  <2>2. TodoByStage'
    BY <1>0, <2>1 DEF TodoByStage
  <2>3. QED BY <1>2, <2>1, <2>2, StockLeftAlone DEF RestockGet
<1>3. ASSUME NEW c \in Clerks, NEW p \in Products, RestockFail(c, p) PROVE RestockInv'
  <2>1. /\ clerk'[c].pc = "get" /\ clerk'[c].todo \subseteq clerk[c].todo
        /\ \A d \in Clerks \ {c} : clerk'[d] = clerk[d]
    BY <1>0, <1>3 DEF RestockFail, LinesAfter, Clerk
  <2>2. TodoByStage'
    BY <1>0, <2>1 DEF TodoByStage
  <2>3. QED BY <1>3, <2>1, <2>2, StockLeftAlone DEF RestockFail
<1>4. ASSUME NEW c \in Clerks, CancelEnd(c) PROVE RestockInv'
  <2>1. /\ clerk'[c].pc = "idle" /\ clerk'[c].todo = {}
        /\ \A d \in Clerks \ {c} : clerk'[d] = clerk[d]
    BY <1>0, <1>4 DEF CancelEnd, IdleClerk
  <2>2. TodoByStage'
    BY <1>0, <2>1 DEF TodoByStage
  <2>3. QED BY <1>4, <2>1, <2>2, StockLeftAlone DEF CancelEnd
<1>5. CASE UNCHANGED clerkVars
  <2>1. clerk' = clerk /\ stock' = stock /\ cancels' = cancels
    BY <1>5 DEF clerkVars
  <2>2. TodoByStage'
    BY <1>0, <2>1 DEF TodoByStage
  <2>3. QED BY <2>1, <2>2, StockLeftAlone
<1>6. QED
  BY <1>1, <1>2, <1>3, <1>4, <1>5, CancelGivesUp, PatchPutsBack
     DEF OrdersNext, OrdersInternal, CreateOrder, PublishCreated, LoseCreated, Age,
         updateOrderStatus, ReaperScan, ReaperCheck, ReaperExpire, ReaperAbort, Confirm,
         confirmPayment, confirmParentPayment, backOffice, ordersVars, ordersOnly

\* However many cancellations put stock back at once, each over what it has read,
\* and wherever their calls fail, a product never has more units than it started
\* with and one for each of its lines that was cancelled.
THEOREM RestockIsEarned == OrdersSpec => []RestockedOncePerCancellation
<1>1. RestockInv => RestockedOncePerCancellation
  BY DEF RestockInv
<1>2. QED
  BY <1>1, RestockInit, RestockStep, OrdersTyped, PTL DEF OrdersSpec
=============================================================================
