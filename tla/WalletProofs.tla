---------------------------- MODULE WalletProofs ----------------------------
(***************************************************************************)
(* What the payouts promise for every number of vendors, requests,         *)
(* administrators and payouts: exactly the approved and the paid requests  *)
(* are debited, never twice by the same administrator, and every balance   *)
(* is what its ledger says.                                                *)
(***************************************************************************)
EXTENDS Wallet, TLAPS, FiniteSetTheorems

-----------------------------------------------------------------------------
(* What a step does to a request and to the locals of an administrator *)

LEMMA RequestTyped ==
    ASSUME NEW q \in RequestRow
    PROVE  /\ q.amount \in Nat
           /\ q.payout \in Payouts \cup {NoPayout}
  BY WalletAssumption DEF RequestRow

LEMMA StatusTyped ==
    ASSUME NEW q \in RequestRow, NEW st \in {"pending", "approved", "rejected", "paid"}
    PROVE  /\ [q EXCEPT !.status = st] \in RequestRow
           /\ [q EXCEPT !.status = st].payout = q.payout
           /\ [q EXCEPT !.status = st].status = st
  BY DEF RequestRow

LEMMA ApprovalTyped ==
    ASSUME NEW q \in RequestRow, NEW x \in Payouts \cup {NoPayout}
    PROVE  /\ [q EXCEPT !.status = "approved", !.payout = x] \in RequestRow
           /\ [q EXCEPT !.status = "approved", !.payout = x].status = "approved"
  BY DEF RequestRow

LEMMA AdminTyped ==
    ASSUME NEW l \in AdminRow, NEW r \in Requests,
           NEW pc \in {"approve", "execute", "call"}
    PROVE  /\ [l EXCEPT !.pc = pc] \in AdminRow
           /\ [l EXCEPT !.pc = pc].req = l.req
           /\ [l EXCEPT !.pc = pc, !.req = r] \in AdminRow
           /\ [l EXCEPT !.pc = pc, !.req = r].req = r
           /\ l.req \in Requests \cup {NoRequest}
           /\ l.payout \in Payouts \cup {NoPayout}
  BY DEF AdminRow

LEMMA AcceptedTyped ==
    ASSUME NEW l \in AdminRow, NEW x \in Payouts
    PROVE  /\ [l EXCEPT !.pc = "commit", !.payout = x] \in AdminRow
           /\ [l EXCEPT !.pc = "commit", !.payout = x].req = l.req
  BY DEF AdminRow

LEMMA NullsTyped ==
    /\ Idle \in AdminRow
    /\ Idle.pc = "idle"
    /\ NoTransfer \in TransferRow
    /\ NoRow \in RequestRow
    /\ \A v \in Vendors, n \in 1 .. MaxAmount : NewRequest(v, n) \in RequestRow
  BY WalletAssumption DEF Idle, AdminRow, NoTransfer, TransferRow, NoRow, RequestRow,
     NewRequest

-----------------------------------------------------------------------------
(* The inductive invariant *)

\* An administrator at work has a request.
BusyHasRequest == \A a \in Admins : admin[a].pc # "idle" => admin[a].req \in Requests

\* A request that PawaPay knows a payout for has been debited.
SentDebited ==
    \A r \in Requests : request[r].payout # NoPayout => WasDebited(r)

\* An administrator at work has not debited the request yet.
NotYetDebited ==
    \A a \in Admins : admin[a].pc # "idle" => debits[admin[a].req][a] = 0

WalletInv ==
    /\ WalletTypeOK
    /\ BusyHasRequest
    /\ SentDebited
    /\ DebitedIffApproved
    /\ OncePerAdmin
    /\ NotYetDebited

LEMMA WalletStep == WalletInv /\ [WalletNext]_walletVars => WalletInv'
<1> SUFFICES ASSUME WalletInv, [WalletNext]_walletVars
             PROVE  WalletInv'
  OBVIOUS
<1> USE DEF WalletInv
<1>1. ASSUME NEW v \in Vendors, Sale(v)
      PROVE  WalletInv'
  <2>1. WalletTypeOK'
    BY <1>1, WalletAssumption DEF Sale, WalletTypeOK
  <2>2. QED BY <1>1, <2>1 DEF Sale, BusyHasRequest, SentDebited,
      DebitedIffApproved, OncePerAdmin, NotYetDebited, ReqStatus, WasDebited
<1>2. ASSUME NEW r \in Requests, NEW v \in Vendors, NEW n \in 1 .. MaxAmount,
             createPayoutRequest(r, v, n)
      PROVE  WalletInv'
  <2>1. /\ request' = [request EXCEPT ![r] = NewRequest(v, n)]
        /\ request[r].status = "absent"
        /\ UNCHANGED <<balance, sold, debits, locker, admin, transfer>>
    BY <1>2 DEF createPayoutRequest, ReqStatus
  <2>2. WalletTypeOK'
    BY <2>1, NullsTyped DEF WalletTypeOK
  <2>3. request'[r].status = "pending" /\ request'[r].payout = NoPayout
    BY <2>1 DEF WalletTypeOK, NewRequest
  <2>4. \A q \in Requests : q # r => request'[q] = request[q]
    BY <2>1 DEF WalletTypeOK
  <2>5. QED BY <2>1, <2>2, <2>3, <2>4 DEF BusyHasRequest, SentDebited,
      DebitedIffApproved, OncePerAdmin, NotYetDebited, ReqStatus, WasDebited
<1>3. ASSUME NEW a \in Admins, NEW r \in Requests,
             NEW how \in {"approve", "execute"}, ReadRequest(a, r, how)
      PROVE  WalletInv'
  <2> DEFINE l == [admin[a] EXCEPT !.pc = how, !.req = r]
  <2>1. l \in AdminRow /\ l.req = r
    <3>1. admin[a] \in AdminRow
      BY DEF WalletTypeOK
    <3>2. QED BY <3>1 DEF AdminRow
  <2>2. /\ admin' = [admin EXCEPT ![a] = l]
        /\ request[r].status = "pending"
        /\ UNCHANGED <<balance, sold, debits, request, locker, transfer>>
    BY <1>3 DEF ReadRequest, Pending, ReqStatus
  <2> HIDE DEF l
  <2>3. WalletTypeOK'
    BY <2>1, <2>2 DEF WalletTypeOK
  <2>4. admin'[a] = l /\ \A b \in Admins : b # a => admin'[b] = admin[b]
    BY <2>2 DEF WalletTypeOK
  <2>5. debits[r][a] = 0
    BY <2>2 DEF DebitedIffApproved, WasDebited, ReqStatus, WalletTypeOK
  <2>6. QED BY <2>1, <2>2, <2>3, <2>4, <2>5 DEF BusyHasRequest, SentDebited,
      DebitedIffApproved, OncePerAdmin, NotYetDebited, ReqStatus, WasDebited
<1>4. ASSUME NEW a \in Admins, approvePayout(a)
      PROVE  WalletInv'
  <2> DEFINE r == admin[a].req
  <2>1. r \in Requests
    BY <1>4 DEF approvePayout, BusyHasRequest
  <2>2. /\ balance' = [balance EXCEPT ![VendorOf(a)] = @ - request[r].amount]
        /\ debits' = [debits EXCEPT ![r][a] = @ + 1]
        /\ admin' = [admin EXCEPT ![a] = Idle]
        /\ admin[a].pc # "idle"
        /\ UNCHANGED <<sold, transfer>>
        /\ locker' \in {locker, [locker EXCEPT ![VendorOf(a)] = NoAdmin]}
    BY <1>4 DEF approvePayout, Debit
  <2>3. /\ request'[r].status \in {"paid", "approved"}
        /\ request' \in [Requests -> RequestRow]
        /\ \A q \in Requests : q # r => request'[q] = request[q]
    <3>1. request[r] \in RequestRow /\ admin[a].payout \in Payouts \cup {NoPayout}
      BY <2>1, AdminTyped DEF WalletTypeOK
    <3>2. request' = [request EXCEPT ![r] = [request[r] EXCEPT !.status = "paid"]]
      BY <1>4 DEF approvePayout
    <3> HIDE DEF r
    <3>3. QED BY <2>1, <3>1, <3>2, StatusTyped DEF WalletTypeOK
  <2>4. request[r].amount \in Nat
    BY <2>1, RequestTyped DEF WalletTypeOK
  <2>5. /\ debits' \in [Requests -> [Admins -> Nat]]
        /\ debits'[r][a] = 1
        /\ \A q \in Requests, b \in Admins :
               q # r \/ b # a => debits'[q][b] = debits[q][b]
    BY <2>1, <2>2 DEF WalletTypeOK, NotYetDebited
  <2>6. admin'[a] = Idle /\ \A b \in Admins : b # a => admin'[b] = admin[b]
    BY <2>2 DEF WalletTypeOK
  <2>7. WalletTypeOK'
    <3>1. balance' \in [Vendors -> Int]
      <4> DEFINE v == VendorOf(a)
                 n == request[r].amount
      <4>1. balance' = [balance EXCEPT ![v] = balance[v] - n]
        BY <2>2
      <4>2. n \in Nat /\ balance \in [Vendors -> Int]
        BY <2>4 DEF WalletTypeOK
      <4> HIDE DEF v, n
      <4>3. v \in Vendors => balance[v] - n \in Int
        BY <4>2
      <4>4. QED BY <4>1, <4>2, <4>3
    <3>2. /\ locker' \in [Vendors -> Admins \cup {NoAdmin}]
          /\ admin' \in [Admins -> AdminRow]
      BY <2>2, NullsTyped DEF WalletTypeOK
    <3>3. QED BY <2>2, <2>3, <2>5, <3>1, <3>2 DEF WalletTypeOK
  <2>8. BusyHasRequest'
    BY <2>6, NullsTyped DEF BusyHasRequest
  <2> HIDE DEF r
  <2>9. /\ \E b \in Admins : debits'[r][b] > 0
        /\ \A q \in Requests : q # r => (WasDebited(q)' <=> WasDebited(q))
    <3>1. debits'[r][a] > 0
      BY <2>5
    <3>2. QED BY <2>5, <3>1 DEF WasDebited
  <2>10. SentDebited' /\ DebitedIffApproved'
    BY <2>1, <2>3, <2>9 DEF SentDebited, DebitedIffApproved, ReqStatus, WasDebited
  <2>11. OncePerAdmin' /\ NotYetDebited'
    BY <2>1, <2>5, <2>6, NullsTyped DEF OncePerAdmin, NotYetDebited, BusyHasRequest
  <2>12. QED BY <2>7, <2>8, <2>10, <2>11 DEF WalletInv
<1>5. ASSUME NEW r \in Requests, rejectPayout(r)
      PROVE  WalletInv'
  <2>1. /\ request[r].status = "pending"
        /\ request' = [request EXCEPT ![r] = [request[r] EXCEPT !.status = "rejected"]]
        /\ UNCHANGED <<balance, sold, debits, locker, admin, transfer>>
    BY <1>5 DEF rejectPayout, Pending, ReqStatus
  <2>2. request[r] \in RequestRow
    BY DEF WalletTypeOK
  <2>3. WalletTypeOK'
    BY <2>1, <2>2, StatusTyped DEF WalletTypeOK
  <2>4. /\ request'[r].status = "rejected"
        /\ request'[r].payout = request[r].payout
        /\ \A q \in Requests : q # r => request'[q] = request[q]
    BY <2>1, <2>2, StatusTyped DEF WalletTypeOK
  <2>5. QED BY <2>1, <2>3, <2>4 DEF BusyHasRequest, SentDebited,
      DebitedIffApproved, OncePerAdmin, NotYetDebited, ReqStatus, WasDebited
<1>6. ASSUME NEW a \in Admins, BeginPayout(a)
      PROVE  WalletInv'
  <2> DEFINE l == [admin[a] EXCEPT !.pc = "call"]
  <2>1. l \in AdminRow /\ l.req = admin[a].req
    <3>1. admin[a] \in AdminRow /\ admin[a].req \in Requests
      BY <1>6 DEF BeginPayout, BusyHasRequest, WalletTypeOK
    <3>2. QED BY <3>1, AdminTyped
  <2>2. /\ admin' = [admin EXCEPT ![a] = l]
        /\ admin[a].pc # "idle"
        /\ UNCHANGED <<balance, sold, debits, request>>
    BY <1>6 DEF BeginPayout
  <2> HIDE DEF l
  <2>3. WalletTypeOK'
    <3>1. locker' \in [Vendors -> Admins \cup {NoAdmin}]
      BY <1>6 DEF BeginPayout, WalletTypeOK
    <3>2. transfer' \in [Payouts -> TransferRow]
      BY <1>6, AdminTyped, <2>2 DEF BeginPayout, WalletTypeOK, TransferRow
    <3>3. QED BY <2>1, <2>2, <3>1, <3>2 DEF WalletTypeOK
  <2>4. admin'[a] = l /\ \A b \in Admins : b # a => admin'[b] = admin[b]
    BY <2>2 DEF WalletTypeOK
  <2>5. QED BY <2>1, <2>2, <2>3, <2>4 DEF BusyHasRequest, SentDebited,
      DebitedIffApproved, OncePerAdmin, NotYetDebited, ReqStatus, WasDebited
<1>7. ASSUME NEW a \in Admins, NEW x \in Payouts, PayoutAccepted(a, x)
      PROVE  WalletInv'
  <2> DEFINE l == [admin[a] EXCEPT !.pc = "commit", !.payout = x]
  <2>1. l \in AdminRow /\ l.req = admin[a].req
    BY AcceptedTyped DEF WalletTypeOK
  <2>2. /\ admin' = [admin EXCEPT ![a] = l]
        /\ admin[a].pc # "idle"
        /\ UNCHANGED <<balance, sold, debits, request>>
    BY <1>7 DEF PayoutAccepted, Send
  <2> HIDE DEF l
  <2>3. WalletTypeOK'
    <3>1. locker' \in [Vendors -> Admins \cup {NoAdmin}]
      BY <1>7 DEF PayoutAccepted, Send, WalletTypeOK
    <3>2. transfer' \in [Payouts -> TransferRow]
      <4>1. transfer' = [transfer EXCEPT ![x] = [state |-> "sent", req |-> admin[a].req]]
        BY <1>7 DEF PayoutAccepted, Send
      <4>2. admin[a].req \in Requests \cup {NoRequest}
        BY DEF WalletTypeOK, AdminRow
      <4>3. [state |-> "sent", req |-> admin[a].req] \in TransferRow
        BY <4>2 DEF TransferRow
      <4>4. QED BY <4>1, <4>3 DEF WalletTypeOK
    <3>3. QED BY <2>1, <2>2, <3>1, <3>2 DEF WalletTypeOK
  <2>4. admin'[a] = l /\ \A b \in Admins : b # a => admin'[b] = admin[b]
    BY <2>2 DEF WalletTypeOK
  <2>5. QED BY <2>1, <2>2, <2>3, <2>4 DEF BusyHasRequest, SentDebited,
      DebitedIffApproved, OncePerAdmin, NotYetDebited, ReqStatus, WasDebited
<1>8. ASSUME NEW a \in Admins, PayoutRefused(a)
      PROVE  WalletInv'
  <2>1. /\ admin' = [admin EXCEPT ![a] = Idle]
        /\ UNCHANGED <<balance, sold, debits, request>>
    BY <1>8 DEF PayoutRefused, Rollback
  <2>2. locker' \in [Vendors -> Admins \cup {NoAdmin}]
    BY <1>8 DEF PayoutRefused, Rollback, WalletTypeOK
  <2>3. transfer' \in [Payouts -> TransferRow]
    BY <1>8, AdminTyped DEF PayoutRefused, WalletTypeOK, TransferRow
  <2>4. WalletTypeOK'
    BY <2>1, <2>2, <2>3, NullsTyped DEF WalletTypeOK
  <2>5. admin'[a] = Idle /\ \A b \in Admins : b # a => admin'[b] = admin[b]
    BY <2>1 DEF WalletTypeOK
  <2>6. QED BY <2>1, <2>4, <2>5, NullsTyped DEF BusyHasRequest, SentDebited,
      DebitedIffApproved, OncePerAdmin, NotYetDebited, ReqStatus, WasDebited
<1>9. ASSUME NEW a \in Admins, NEW x \in Payouts, PayoutLost(a, x)
      PROVE  WalletInv'
  <2>1. /\ admin' = [admin EXCEPT ![a] = Idle]
        /\ UNCHANGED <<balance, sold, debits, request>>
    BY <1>9 DEF PayoutLost, Rollback
  <2>2. locker' \in [Vendors -> Admins \cup {NoAdmin}]
    BY <1>9 DEF PayoutLost, Rollback, WalletTypeOK
  <2>3. transfer' \in [Payouts -> TransferRow]
    <3>1. transfer' = [transfer EXCEPT ![x] = [state |-> "sent", req |-> admin[a].req]]
      BY <1>9 DEF PayoutLost, Send
    <3>2. admin[a].req \in Requests \cup {NoRequest}
      BY DEF WalletTypeOK, AdminRow
    <3>3. [state |-> "sent", req |-> admin[a].req] \in TransferRow
      BY <3>2 DEF TransferRow
    <3>4. QED BY <3>1, <3>3 DEF WalletTypeOK
  <2>4. WalletTypeOK'
    BY <2>1, <2>2, <2>3, NullsTyped DEF WalletTypeOK
  <2>5. admin'[a] = Idle /\ \A b \in Admins : b # a => admin'[b] = admin[b]
    BY <2>1 DEF WalletTypeOK
  <2>6. QED BY <2>1, <2>4, <2>5, NullsTyped DEF BusyHasRequest, SentDebited,
      DebitedIffApproved, OncePerAdmin, NotYetDebited, ReqStatus, WasDebited
<1>10. ASSUME NEW a \in Admins, CommitPayout(a)
       PROVE  WalletInv'
  <2> DEFINE r == admin[a].req
  <2>1. r \in Requests
    BY <1>10 DEF CommitPayout, BusyHasRequest
  <2>2. /\ balance' = [balance EXCEPT ![VendorOf(a)] = @ - request[r].amount]
        /\ debits' = [debits EXCEPT ![r][a] = @ + 1]
        /\ admin' = [admin EXCEPT ![a] = Idle]
        /\ admin[a].pc # "idle"
        /\ UNCHANGED <<sold, transfer>>
        /\ locker' \in {locker, [locker EXCEPT ![VendorOf(a)] = NoAdmin]}
    BY <1>10 DEF CommitPayout, Debit
  <2>3. /\ request'[r].status \in {"paid", "approved"}
        /\ request' \in [Requests -> RequestRow]
        /\ \A q \in Requests : q # r => request'[q] = request[q]
    <3>1. request[r] \in RequestRow /\ admin[a].payout \in Payouts \cup {NoPayout}
      BY <2>1, AdminTyped DEF WalletTypeOK
    <3>2. request' = [request EXCEPT ![r] = [request[r] EXCEPT !.status = "approved", !.payout = admin[a].payout]]
      BY <1>10 DEF CommitPayout
    <3> HIDE DEF r
    <3>3. QED BY <2>1, <3>1, <3>2, ApprovalTyped DEF WalletTypeOK
  <2>4. request[r].amount \in Nat
    BY <2>1, RequestTyped DEF WalletTypeOK
  <2>5. /\ debits' \in [Requests -> [Admins -> Nat]]
        /\ debits'[r][a] = 1
        /\ \A q \in Requests, b \in Admins :
               q # r \/ b # a => debits'[q][b] = debits[q][b]
    BY <2>1, <2>2 DEF WalletTypeOK, NotYetDebited
  <2>6. admin'[a] = Idle /\ \A b \in Admins : b # a => admin'[b] = admin[b]
    BY <2>2 DEF WalletTypeOK
  <2>7. WalletTypeOK'
    <3>1. balance' \in [Vendors -> Int]
      <4> DEFINE v == VendorOf(a)
                 n == request[r].amount
      <4>1. balance' = [balance EXCEPT ![v] = balance[v] - n]
        BY <2>2
      <4>2. n \in Nat /\ balance \in [Vendors -> Int]
        BY <2>4 DEF WalletTypeOK
      <4> HIDE DEF v, n
      <4>3. v \in Vendors => balance[v] - n \in Int
        BY <4>2
      <4>4. QED BY <4>1, <4>2, <4>3
    <3>2. /\ locker' \in [Vendors -> Admins \cup {NoAdmin}]
          /\ admin' \in [Admins -> AdminRow]
      BY <2>2, NullsTyped DEF WalletTypeOK
    <3>3. QED BY <2>2, <2>3, <2>5, <3>1, <3>2 DEF WalletTypeOK
  <2>8. BusyHasRequest'
    BY <2>6, NullsTyped DEF BusyHasRequest
  <2> HIDE DEF r
  <2>9. /\ \E b \in Admins : debits'[r][b] > 0
        /\ \A q \in Requests : q # r => (WasDebited(q)' <=> WasDebited(q))
    <3>1. debits'[r][a] > 0
      BY <2>5
    <3>2. QED BY <2>5, <3>1 DEF WasDebited
  <2>10. SentDebited' /\ DebitedIffApproved'
    BY <2>1, <2>3, <2>9 DEF SentDebited, DebitedIffApproved, ReqStatus, WasDebited
  <2>11. OncePerAdmin' /\ NotYetDebited'
    BY <2>1, <2>5, <2>6, NullsTyped DEF OncePerAdmin, NotYetDebited, BusyHasRequest
  <2>12. QED BY <2>7, <2>8, <2>10, <2>11 DEF WalletInv
<1>11. ASSUME NEW a \in Admins, Abandon(a)
       PROVE  WalletInv'
  <2>1. /\ admin' = [admin EXCEPT ![a] = Idle]
        /\ UNCHANGED <<balance, sold, debits, request>>
    BY <1>11 DEF Abandon, Rollback
  <2>2. locker' \in [Vendors -> Admins \cup {NoAdmin}]
    BY <1>11 DEF Abandon, Rollback, WalletTypeOK
  <2>3. transfer' \in [Payouts -> TransferRow]
    BY <1>11, AdminTyped DEF Abandon, WalletTypeOK, TransferRow
  <2>4. WalletTypeOK'
    BY <2>1, <2>2, <2>3, NullsTyped DEF WalletTypeOK
  <2>5. admin'[a] = Idle /\ \A b \in Admins : b # a => admin'[b] = admin[b]
    BY <2>1 DEF WalletTypeOK
  <2>6. QED BY <2>1, <2>4, <2>5, NullsTyped DEF BusyHasRequest, SentDebited,
      DebitedIffApproved, OncePerAdmin, NotYetDebited, ReqStatus, WasDebited
<1>12. ASSUME NEW x \in Payouts, NEW outcome \in {"completed", "failed"},
              Settle(x, outcome)
       PROVE  WalletInv'
  <2>1. WalletTypeOK'
    BY <1>12 DEF Settle, WalletTypeOK, TransferRow
  <2>2. QED BY <1>12, <2>1 DEF Settle, BusyHasRequest, SentDebited,
      DebitedIffApproved, OncePerAdmin, NotYetDebited, ReqStatus, WasDebited
<1>13. ASSUME NEW x \in Payouts, NEW r \in Requests, PayoutWebhook(x, r)
       PROVE  WalletInv'
  <2>1. /\ request[r].payout # NoPayout
        /\ request' = [request EXCEPT ![r] = [request[r] EXCEPT !.status = "paid"]]
        /\ UNCHANGED <<balance, sold, debits, locker, admin, transfer>>
    BY <1>13, WalletAssumption DEF PayoutWebhook
  <2>2. request[r] \in RequestRow
    BY DEF WalletTypeOK
  <2>3. WalletTypeOK'
    BY <2>1, <2>2, StatusTyped DEF WalletTypeOK
  <2>4. /\ request'[r].status = "paid"
        /\ request'[r].payout = request[r].payout
        /\ \A q \in Requests : q # r => request'[q] = request[q]
    BY <2>1, <2>2, StatusTyped DEF WalletTypeOK
  <2>5. WasDebited(r)
    BY <2>1 DEF SentDebited
  <2>6. QED BY <2>1, <2>3, <2>4, <2>5 DEF BusyHasRequest, SentDebited,
      DebitedIffApproved, OncePerAdmin, NotYetDebited, ReqStatus, WasDebited
<1>14. CASE UNCHANGED walletVars
  BY <1>14 DEF walletVars, WalletTypeOK, BusyHasRequest, SentDebited,
     DebitedIffApproved, OncePerAdmin, NotYetDebited, ReqStatus, WasDebited
<1>15. QED
  BY <1>1, <1>2, <1>3, <1>4, <1>5, <1>6, <1>7, <1>8, <1>9, <1>10, <1>11, <1>12,
     <1>13, <1>14 DEF WalletNext

LEMMA WalletStart == WalletInit => WalletInv
  BY NullsTyped, WalletAssumption
     DEF WalletInit, WalletInv, WalletTypeOK, BusyHasRequest, SentDebited,
         DebitedIffApproved, OncePerAdmin, NotYetDebited, ReqStatus, WasDebited,
         NoRow, Idle

LEMMA WalletInvariant == WalletSpec => []WalletInv
  BY WalletStart, WalletStep, PTL DEF WalletSpec

-----------------------------------------------------------------------------
\* The tables of the wallets hold values of their types.
THEOREM WalletTypeCorrect == WalletSpec => []WalletTypeOK
<1>1. WalletInv => WalletTypeOK
  BY DEF WalletInv
<1>2. QED BY <1>1, WalletInvariant, PTL

\* However approvals, rejections, transfers and their notifications interleave,
\* the vendor is debited for the approved and paid requests and no others.
THEOREM Debits == WalletSpec => []DebitedIffApproved
<1>1. WalletInv => DebitedIffApproved
  BY DEF WalletInv
<1>2. QED BY <1>1, WalletInvariant, PTL

\* No administrator debits a request twice, whatever PawaPay answers and
\* whenever it notifies.
THEOREM SingleDebit == WalletSpec => []OncePerAdmin
<1>1. WalletInv => OncePerAdmin
  BY DEF WalletInv
<1>2. QED BY <1>1, WalletInvariant, PTL

-----------------------------------------------------------------------------
(* The ledger *)

\* The balance agrees with a ledger that is finite: the units that the next
\* debit adds can be counted.
LedgerInv ==
    /\ \A v \in Vendors : IsFiniteSet(DebitedUnits(v))
    /\ BalanceMatchesLedger

LEMMA LedgerRow ==
    ASSUME NEW r, NEW x
    PROVE  x \in LedgerRows(r) <=>
             \E a \in Admins : \E i \in 1 .. debits[r][a] : x = <<a, i>>
  BY DEF LedgerRows

LEMMA DebitedUnit ==
    ASSUME NEW v, NEW x
    PROVE  x \in DebitedUnits(v) <=>
             \E r \in Requests : \E row \in LedgerRows(r), u \in 1 .. request[r].amount :
                 request[r].vendor = v /\ x = <<<<r, row>>, u>>
  BY DEF DebitedUnits

LEMMA DebitedUnitAfter ==
    ASSUME NEW v, NEW x
    PROVE  x \in DebitedUnits(v)' <=>
             \E r \in Requests : \E row \in LedgerRows(r)', u \in 1 .. request'[r].amount :
                 request'[r].vendor = v /\ x = <<<<r, row>>, u>>
  BY DEF DebitedUnits

\* A step that writes no ledger row and neither renames nor reprices a request
\* that has been debited leaves the ledger as it is.
LEMMA SameLedger ==
    ASSUME NEW v \in Vendors, debits' = debits,
           \A r \in Requests : \/ /\ request'[r].vendor = request[r].vendor
                                  /\ request'[r].amount = request[r].amount
                               \/ \A a \in Admins : debits[r][a] = 0
    PROVE  DebitedUnits(v)' = DebitedUnits(v)
<1>1. \A r \in Requests : LedgerRows(r)' = LedgerRows(r)
  BY DEF LedgerRows
<1>2. \A r \in Requests : LedgerRows(r) # {} =>
          request'[r].vendor = request[r].vendor /\ request'[r].amount = request[r].amount
  <2>1. 1 .. 0 = {}
    OBVIOUS
  <2>2. QED BY <2>1, LedgerRow
<1>3. \A x : x \in DebitedUnits(v)' <=> x \in DebitedUnits(v)
  BY <1>1, <1>2, DebitedUnit, DebitedUnitAfter
<1>4. QED BY <1>3

\* A debit and its ledger row: both are worth the amount of the request.
LEMMA DebitKeepsLedger ==
    ASSUME WalletInv, LedgerInv, NEW a \in Admins, NEW r \in Requests,
           Debit(request[r].vendor, r), debits' = [debits EXCEPT ![r][a] = @ + 1],
           sold' = sold,
           \A q \in Requests : /\ request'[q].vendor = request[q].vendor
                               /\ request'[q].amount = request[q].amount
    PROVE  LedgerInv'
<1> DEFINE row == <<a, debits[r][a] + 1>>
           n == request[r].amount
           Units == ({r} \X {row}) \X (1 .. n)
<1>1. /\ n \in Nat /\ balance \in [Vendors -> Int] /\ sold \in [Vendors -> Nat]
      /\ debits \in [Requests -> [Admins -> Nat]]
  BY RequestTyped DEF WalletInv, WalletTypeOK
<1>2. LedgerRows(r)' = LedgerRows(r) \cup {row} /\ row \notin LedgerRows(r)
  <2>1. /\ 1 .. debits'[r][a] = (1 .. debits[r][a]) \cup {debits[r][a] + 1}
        /\ debits[r][a] + 1 \notin 1 .. debits[r][a]
        /\ \A b \in Admins : b # a => debits'[r][b] = debits[r][b]
    <3>1. debits[r][a] \in Nat /\ debits'[r][a] = debits[r][a] + 1
      BY <1>1
    <3>2. \A k \in Nat : 1 .. (k + 1) = (1 .. k) \cup {k + 1} /\ k + 1 \notin 1 .. k
      OBVIOUS
    <3>3. \A b \in Admins : b # a => debits'[r][b] = debits[r][b]
      BY <1>1
    <3>4. QED BY <3>1, <3>2, <3>3
  <2>2. \A x : x \in LedgerRows(r)' <=>
            \E b \in Admins : \E i \in 1 .. debits'[r][b] : x = <<b, i>>
    BY DEF LedgerRows
  <2>3. ASSUME NEW x PROVE x \in LedgerRows(r)' <=> x \in LedgerRows(r) \/ x = row
    BY <2>1, <2>2, LedgerRow
  <2>4. row \notin LedgerRows(r)
    BY <2>1, LedgerRow
  <2>5. QED BY <2>3, <2>4
<1>3. \A q \in Requests : q # r => LedgerRows(q)' = LedgerRows(q)
  <2>1. \A q \in Requests : q # r => debits'[q] = debits[q]
    BY <1>1
  <2>2. QED BY <2>1 DEF LedgerRows
<1>4. IsFiniteSet(Units) /\ Cardinality(Units) = n
  <2>1. IsFiniteSet({r} \X {row}) /\ Cardinality({r} \X {row}) = 1
    <3>1. {r} \X {row} = {<<r, row>>}
      OBVIOUS
    <3>2. QED BY <3>1, FS_Singleton
  <2> HIDE DEF row, n
  <2>2. IsFiniteSet(1 .. n) /\ Cardinality(1 .. n) = n
    <3>1. IsFiniteSet(1 .. n) /\ Cardinality(1 .. n) = IF 1 > n THEN 0 ELSE n - 1 + 1
      BY <1>1, FS_Interval
    <3>2. QED BY <1>1, <3>1
  <2>3. Cardinality(Units) = Cardinality({r} \X {row}) * Cardinality(1 .. n)
    BY <2>1, <2>2, FS_Product
  <2>4. IsFiniteSet(Units)
    BY <2>1, <2>2, FS_Product
  <2>5. QED BY <1>1, <2>1, <2>2, <2>3, <2>4
<1>5. \A x : x \in Units <=> \E u \in 1 .. n : x = <<<<r, row>>, u>>
  OBVIOUS
<1> HIDE DEF row, n, Units
<1>6. ASSUME NEW v \in Vendors, v = request[r].vendor
      PROVE  DebitedUnits(v)' = DebitedUnits(v) \cup Units /\ DebitedUnits(v) \cap Units = {}
  <2>1. \A x \in Units : x \notin DebitedUnits(v)
    BY <1>2, <1>5, DebitedUnit
  <2>2. \A x : x \in DebitedUnits(v)' <=>
            \E q \in Requests : \E p \in LedgerRows(q)', u \in 1 .. request[q].amount :
                request[q].vendor = v /\ x = <<<<q, p>>, u>>
    BY DebitedUnitAfter
  <2>3. ASSUME NEW x \in DebitedUnits(v)' PROVE x \in DebitedUnits(v) \cup Units
    <3>0. PICK q \in Requests : \E p \in LedgerRows(q)',
                                    u \in 1 .. request[q].amount :
              request[q].vendor = v /\ x = <<<<q, p>>, u>>
      BY <2>2
    <3>1. PICK p \in LedgerRows(q)', u \in 1 .. request[q].amount :
              request[q].vendor = v /\ x = <<<<q, p>>, u>>
      BY <3>0
    <3>2. CASE q = r /\ p = row
      BY <1>5, <3>1, <3>2 DEF n
    <3>3. CASE ~(q = r /\ p = row)
      <4>1. p \in LedgerRows(q)
        BY <1>2, <1>3, <3>1, <3>3
      <4>2. QED BY <3>1, <4>1, DebitedUnit
    <3>4. QED BY <3>2, <3>3
  <2>4. ASSUME NEW x \in DebitedUnits(v) PROVE x \in DebitedUnits(v)'
    <3>1. \A q \in Requests : LedgerRows(q) \subseteq LedgerRows(q)'
      BY <1>2, <1>3
    <3>2. QED BY <2>2, <3>1, DebitedUnit
  <2>5. ASSUME NEW x \in Units PROVE x \in DebitedUnits(v)'
    BY <1>2, <1>5, <1>6, <2>2 DEF n
  <2>6. QED BY <2>1, <2>3, <2>4, <2>5
<1>7. ASSUME NEW v \in Vendors, v # request[r].vendor
      PROVE  DebitedUnits(v)' = DebitedUnits(v)
  <2>1. \A x : x \in DebitedUnits(v)' <=> x \in DebitedUnits(v)
    BY <1>3, <1>7, DebitedUnit, DebitedUnitAfter
  <2>2. QED BY <2>1
<1>8. ASSUME NEW v \in Vendors
      PROVE  /\ IsFiniteSet(DebitedUnits(v)')
             /\ balance'[v] = sold'[v] - Cardinality(DebitedUnits(v)')
  <2>1. /\ IsFiniteSet(DebitedUnits(v)) /\ Cardinality(DebitedUnits(v)) \in Nat
        /\ balance[v] = sold[v] - Cardinality(DebitedUnits(v))
    BY FS_CardinalityType DEF LedgerInv, BalanceMatchesLedger
  <2>2. CASE v = request[r].vendor
    <3>1. balance'[v] = balance[v] - n
      BY <1>1, <2>2 DEF Debit, n
    <3>2. /\ IsFiniteSet(DebitedUnits(v)')
          /\ Cardinality(DebitedUnits(v)') =
                 Cardinality(DebitedUnits(v)) + Cardinality(Units) - Cardinality({})
      BY <1>4, <1>6, <2>1, <2>2, FS_Union
    <3>3. QED BY <1>1, <1>4, <2>1, <3>1, <3>2, FS_EmptySet
  <2>3. CASE v # request[r].vendor
    <3>1. balance'[v] = balance[v]
      BY <1>1, <2>3 DEF Debit
    <3>2. QED BY <1>7, <2>1, <2>3, <3>1
  <2>4. QED BY <2>2, <2>3
<1>9. QED BY <1>8 DEF LedgerInv, BalanceMatchesLedger

\* The balances, the sales and the ledger rows stay, and so do the vendor and the
\* amount of each request that has been debited.
LEMMA BooksLeftAlone ==
    ASSUME LedgerInv, balance' = balance, sold' = sold, debits' = debits,
           \A r \in Requests : \/ /\ request'[r].vendor = request[r].vendor
                                  /\ request'[r].amount = request[r].amount
                               \/ \A a \in Admins : debits[r][a] = 0
    PROVE  LedgerInv'
<1>1. \A v \in Vendors : DebitedUnits(v)' = DebitedUnits(v)
  BY SameLedger
<1>2. QED BY <1>1 DEF LedgerInv, BalanceMatchesLedger

LEMMA LedgerStart == WalletInit => LedgerInv
<1> SUFFICES ASSUME WalletInit PROVE LedgerInv
  OBVIOUS
<1>1. \A r \in Requests : LedgerRows(r) = {}
  <2>1. \A r \in Requests, a \in Admins : 1 .. debits[r][a] = {}
    BY DEF WalletInit
  <2>2. QED BY <2>1, LedgerRow
<1>2. \A v \in Vendors : DebitedUnits(v) = {}
  BY <1>1, DebitedUnit
<1>3. \A v \in Vendors : balance[v] = 0 /\ sold[v] = 0
  BY DEF WalletInit
<1>4. IsFiniteSet({}) /\ Cardinality({}) = 0
  BY FS_EmptySet
<1>5. QED BY <1>2, <1>3, <1>4 DEF LedgerInv, BalanceMatchesLedger

LEMMA LedgerStep == WalletInv /\ LedgerInv /\ [WalletNext]_walletVars => LedgerInv'
<1> SUFFICES ASSUME WalletInv, LedgerInv, [WalletNext]_walletVars
             PROVE  LedgerInv'
  OBVIOUS
<1>0. /\ balance \in [Vendors -> Int] /\ sold \in [Vendors -> Nat]
      /\ debits \in [Requests -> [Admins -> Nat]] /\ request \in [Requests -> RequestRow]
      /\ \A a \in Admins : admin[a].pc # "idle" => admin[a].req \in Requests
  BY DEF WalletInv, WalletTypeOK, BusyHasRequest
<1>1. ASSUME NEW v \in Vendors, Sale(v) PROVE LedgerInv'
  <2>1. \A w \in Vendors : DebitedUnits(w)' = DebitedUnits(w)
    BY <1>1, SameLedger DEF Sale
  <2>2. ASSUME NEW w \in Vendors
        PROVE  IsFiniteSet(DebitedUnits(w)) /\ Cardinality(DebitedUnits(w)) \in Nat
    BY FS_CardinalityType DEF LedgerInv
  <2>3. ASSUME NEW w \in Vendors
        PROVE  balance'[w] = sold'[w] - Cardinality(DebitedUnits(w))
    <3>1. \E k \in 0 .. 1 : balance'[w] = balance[w] + k /\ sold'[w] = sold[w] + k
      BY <1>0, <1>1 DEF Sale
    <3>2. balance[w] = sold[w] - Cardinality(DebitedUnits(w))
      BY DEF LedgerInv, BalanceMatchesLedger
    <3>3. QED BY <1>0, <2>2, <3>1, <3>2
  <2>4. QED BY <2>1, <2>2, <2>3 DEF LedgerInv, BalanceMatchesLedger
<1>2. ASSUME NEW r \in Requests, NEW v \in Vendors, NEW n \in 1 .. MaxAmount,
             createPayoutRequest(r, v, n)
      PROVE  LedgerInv'
  <2>1. \A a \in Admins : debits[r][a] = 0
    BY <1>0, <1>2 DEF createPayoutRequest, ReqStatus, WalletInv, DebitedIffApproved, WasDebited
  <2>2. \A q \in Requests : q # r => request'[q] = request[q]
    BY <1>0, <1>2 DEF createPayoutRequest
  <2>3. QED BY <1>2, <2>1, <2>2, BooksLeftAlone DEF createPayoutRequest
<1>3. ASSUME NEW a \in Admins, approvePayout(a) PROVE LedgerInv'
  <2>1. PICK r \in Requests : r = admin[a].req
    BY <1>0, <1>3 DEF approvePayout
  <2>2. \A q \in Requests : /\ request'[q].vendor = request[q].vendor
                            /\ request'[q].amount = request[q].amount
    BY <1>0, <1>3, <2>1 DEF approvePayout, RequestRow
  <2>3. QED BY <1>3, <2>1, <2>2, DebitKeepsLedger DEF approvePayout, VendorOf
<1>4. ASSUME NEW a \in Admins, CommitPayout(a) PROVE LedgerInv'
  <2>1. PICK r \in Requests : r = admin[a].req
    BY <1>0, <1>4 DEF CommitPayout
  <2>2. \A q \in Requests : /\ request'[q].vendor = request[q].vendor
                            /\ request'[q].amount = request[q].amount
    BY <1>0, <1>4, <2>1 DEF CommitPayout, RequestRow
  <2>3. QED BY <1>4, <2>1, <2>2, DebitKeepsLedger DEF CommitPayout, VendorOf
<1>5. ASSUME NEW r \in Requests, NEW st, request' = [request EXCEPT ![r].status = st],
             UNCHANGED <<balance, sold, debits>>
      PROVE  LedgerInv'
  <2>1. \A q \in Requests : /\ request'[q].vendor = request[q].vendor
                            /\ request'[q].amount = request[q].amount
    BY <1>0, <1>5 DEF RequestRow
  <2>2. QED BY <1>5, <2>1, BooksLeftAlone
<1>6. ASSUME NEW r \in Requests, rejectPayout(r) PROVE LedgerInv'
  BY <1>5, <1>6 DEF rejectPayout
<1>7. ASSUME NEW x \in Payouts, NEW r \in Requests, PayoutWebhook(x, r) PROVE LedgerInv'
  BY <1>5, <1>7 DEF PayoutWebhook
<1>8. CASE UNCHANGED <<balance, sold, debits, request>>
  BY <1>8, BooksLeftAlone
<1>9. QED
  BY <1>1, <1>2, <1>3, <1>4, <1>6, <1>7, <1>8
     DEF WalletNext, ReadRequest, BeginPayout, PayoutAccepted, PayoutRefused, PayoutLost,
         Rollback, Abandon, Settle, walletVars

\* Whatever fails, is lost or is done twice, the balance of every wallet is its
\* sales less the amounts of its payout rows, for any number of requests and
\* administrators.
THEOREM Books == WalletSpec => []BalanceMatchesLedger
<1>1. LedgerInv => BalanceMatchesLedger
  BY DEF LedgerInv
<1>2. QED
  BY <1>1, LedgerStart, LedgerStep, WalletInvariant, PTL DEF WalletSpec
=============================================================================
