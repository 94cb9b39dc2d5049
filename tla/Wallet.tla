------------------------------- MODULE Wallet -------------------------------
(***************************************************************************)
(* payment-svc: the wallets of the vendors and their payout requests.      *)
(*                                                                         *)
(* A sale credits the wallet; a vendor asks for a payout; an administrator *)
(* either transfers the money by hand and approves the request, has        *)
(* PawaPay transfer it, or rejects it.  An approval reads the request      *)
(* first and opens its transaction afterwards; the UPDATE of               *)
(* vendor_wallets at the start of a transaction locks the wallet until the *)
(* transaction ends.                                                       *)
(***************************************************************************)
EXTENDS Integers, FiniteSets

CONSTANTS
    Vendors,
    Requests,       \* ids of payout_requests
    Admins,         \* requests of administrators in flight at once
    Payouts,        \* payout ids at PawaPay
    NoVendor, NoRequest, NoPayout, NoAdmin,
    MaxAmount,      \* bound: amount of one request
    MaxSales        \* bound: units credited per vendor

ASSUME WalletAssumption ==
    /\ NoVendor \notin Vendors
    /\ NoRequest \notin Requests
    /\ NoPayout \notin Payouts
    /\ NoAdmin \notin Admins
    /\ MaxAmount \in Nat
    /\ MaxSales \in Nat

VARIABLES
    balance,    \* vendor_wallets.balance_usd
    sold,       \* sum of the 'sale' rows of wallet_transactions
    debits,     \* 'payout' rows of wallet_transactions per request and per
                \* administrator whose call wrote them
    request,    \* payout_requests
    locker,     \* whose transaction holds the wallet's row
    admin,      \* locals of the administrators' requests
    transfer    \* the payouts, as PawaPay knows them

walletVars == <<balance, sold, debits, request, locker, admin, transfer>>

NoRow == [vendor |-> NoVendor, amount |-> 0, status |-> "absent",
          payout |-> NoPayout]
Idle == [pc |-> "idle", req |-> NoRequest, payout |-> NoPayout]
NoTransfer == [state |-> "unused", req |-> NoRequest]

RequestRow == [vendor : Vendors \cup {NoVendor}, amount : 0 .. MaxAmount,
               status : {"absent", "pending", "approved", "rejected", "paid"},
               payout : Payouts \cup {NoPayout}]

AdminRow == [pc : {"idle", "approve", "execute", "call", "commit"},
             req : Requests \cup {NoRequest},
             payout : Payouts \cup {NoPayout}]

TransferRow == [state : {"unused", "sent", "completed", "failed"},
                req : Requests \cup {NoRequest}]

WalletTypeOK ==
    /\ balance \in [Vendors -> Int]
    /\ sold \in [Vendors -> 0 .. MaxSales]
    /\ debits \in [Requests -> [Admins -> Nat]]
    /\ request \in [Requests -> RequestRow]
    /\ locker \in [Vendors -> Admins \cup {NoAdmin}]
    /\ admin \in [Admins -> AdminRow]
    /\ transfer \in [Payouts -> TransferRow]

WalletInit ==
    /\ balance = [v \in Vendors |-> 0]
    /\ sold = [v \in Vendors |-> 0]
    /\ debits = [r \in Requests |-> [a \in Admins |-> 0]]
    /\ request = [r \in Requests |-> NoRow]
    /\ locker = [v \in Vendors |-> NoAdmin]
    /\ admin = [a \in Admins |-> Idle]
    /\ transfer = [x \in Payouts |-> NoTransfer]

ReqStatus(r) == request[r].status

\* Mutant: a request in progress passes for a pending one.
PendingOrApproved(r) == ReqStatus(r) \in {"pending", "approved"}

\* The check before an approval, and the WHERE of a rejection.
Pending(r) == ReqStatus(r) = "pending"

Free(v) == locker[v] = NoAdmin
VendorOf(a) == request[admin[a].req].vendor

\* Mutant: a debit that stops at zero.
DebitClamped(v, r) ==
    balance' = [balance EXCEPT ![v] = IF @ < request[r].amount THEN 0
                                      ELSE @ - request[r].amount]

\* UPDATE vendor_wallets SET balance_usd = balance_usd - amount.
Debit(v, r) == balance' = [balance EXCEPT ![v] = @ - request[r].amount]

-----------------------------------------------------------------------------
\* creditVendorWallet: one unit of net revenue and its 'sale' row.
Sale(v) ==
    /\ Free(v)
    /\ sold[v] < MaxSales
    /\ balance' = [balance EXCEPT ![v] = @ + 1]
    /\ sold' = [sold EXCEPT ![v] = @ + 1]
    /\ UNCHANGED <<debits, request, locker, admin, transfer>>

\* Mutant: a status that the column's comment does not list.
NewRequestCreated(v, n) ==
    [vendor |-> v, amount |-> n, status |-> "created", payout |-> NoPayout]

NewRequest(v, n) ==
    [vendor |-> v, amount |-> n, status |-> "pending", payout |-> NoPayout]

\* createPayoutRequest compares the amount with the balance and inserts the
\* request.  Nothing is reserved, so it does not matter what happens between
\* the two statements: it could as well happen after the second.
createPayoutRequest(r, v, n) ==
    /\ ReqStatus(r) = "absent"
    /\ n > 0
    /\ n <= balance[v]
    /\ request' = [request EXCEPT ![r] = NewRequest(v, n)]
    /\ UNCHANGED <<balance, sold, debits, locker, admin, transfer>>

\* approvePayout and executePayoutViaPawapay read the request and answer 409
\* unless it is pending.
ReadRequest(a, r, how) ==
    /\ admin[a].pc = "idle"
    /\ Pending(r)
    /\ admin' = [admin EXCEPT ![a] = [admin[a] EXCEPT !.pc = how, !.req = r]]
    /\ UNCHANGED <<balance, sold, debits, request, locker, transfer>>

\* The transaction of approvePayout: debit, ledger row, status 'paid' WHERE id.
approvePayout(a) ==
    LET r == admin[a].req IN
    /\ admin[a].pc = "approve"
    /\ Free(VendorOf(a))
    /\ Debit(VendorOf(a), r)
    /\ debits' = [debits EXCEPT ![r][a] = @ + 1]
    /\ request' = [request EXCEPT ![r].status = "paid"]
    /\ admin' = [admin EXCEPT ![a] = Idle]
    /\ UNCHANGED <<sold, locker, transfer>>

\* rejectPayout: UPDATE ... WHERE status = 'pending'.
rejectPayout(r) ==
    /\ Pending(r)
    /\ request' = [request EXCEPT ![r].status = "rejected"]
    /\ UNCHANGED <<balance, sold, debits, locker, admin, transfer>>

\* The transaction of executePayoutViaPawapay opens with the debit, which only
\* the commit makes visible, and the lock on the wallet ...
BeginPayout(a) ==
    /\ admin[a].pc = "execute"
    /\ Free(VendorOf(a))
    /\ locker' = [locker EXCEPT ![VendorOf(a)] = a]
    /\ admin' = [admin EXCEPT ![a].pc = "call"]
    /\ UNCHANGED <<balance, sold, debits, request, transfer>>

\* ... calls PawaPay while it holds it ...
Send(a, x) ==
    /\ admin[a].pc = "call"
    /\ transfer[x].state = "unused"
    /\ transfer' = [transfer EXCEPT ![x] = [state |-> "sent", req |-> admin[a].req]]

PayoutAccepted(a, x) ==
    /\ Send(a, x)
    /\ admin' = [admin EXCEPT ![a] = [admin[a] EXCEPT !.pc = "commit", !.payout = x]]
    /\ UNCHANGED <<balance, sold, debits, request, locker>>

Rollback(a) ==
    /\ admin' = [admin EXCEPT ![a] = Idle]
    /\ locker' = [v \in Vendors |-> IF locker[v] = a THEN NoAdmin ELSE locker[v]]
    /\ UNCHANGED <<balance, sold, debits, request>>

\* (refused, or accepted with the answer lost) ...
PayoutRefused(a) ==
    /\ admin[a].pc = "call"
    /\ Rollback(a)
    /\ UNCHANGED transfer

PayoutLost(a, x) ==
    /\ Send(a, x)
    /\ Rollback(a)

\* ... and commits debit, ledger row and status 'approved' WHERE id.
CommitPayout(a) ==
    LET r == admin[a].req IN
    /\ admin[a].pc = "commit"
    /\ Debit(VendorOf(a), r)
    /\ debits' = [debits EXCEPT ![r][a] = @ + 1]
    /\ request' = [request EXCEPT ![r] =
                      [request[r] EXCEPT !.status = "approved",
                                         !.payout = admin[a].payout]]
    /\ locker' = [locker EXCEPT ![VendorOf(a)] = NoAdmin]
    /\ admin' = [admin EXCEPT ![a] = Idle]
    /\ UNCHANGED <<sold, transfer>>

\* The process dies, the request is cancelled or the database refuses: the
\* transaction, if any, is rolled back.
Abandon(a) ==
    /\ admin[a].pc # "idle"
    /\ Rollback(a)
    /\ UNCHANGED transfer

\* PawaPay (external) brings a payout to its final status.
Settle(x, outcome) ==
    /\ transfer[x].state = "sent"
    /\ transfer' = [transfer EXCEPT ![x].state = outcome]
    /\ UNCHANGED <<balance, sold, debits, request, locker, admin>>

\* pawapayHandlePayoutWebhook: only a completed payout changes the status.
PayoutWebhook(x, r) ==
    /\ request[r].payout = x
    /\ transfer[x].state = "completed"
    /\ ReqStatus(r) # "paid"
    /\ request' = [request EXCEPT ![r].status = "paid"]
    /\ UNCHANGED <<balance, sold, debits, locker, admin, transfer>>

WalletNext ==
    \/ \E v \in Vendors : Sale(v)
    \/ \E r \in Requests, v \in Vendors, n \in 1 .. MaxAmount :
           createPayoutRequest(r, v, n)
    \/ \E a \in Admins, r \in Requests, how \in {"approve", "execute"} :
           ReadRequest(a, r, how)
    \/ \E a \in Admins : approvePayout(a)
    \/ \E r \in Requests : rejectPayout(r)
    \/ \E a \in Admins : BeginPayout(a)
    \/ \E a \in Admins, x \in Payouts : PayoutAccepted(a, x)
    \/ \E a \in Admins : PayoutRefused(a)
    \/ \E a \in Admins, x \in Payouts : PayoutLost(a, x)
    \/ \E a \in Admins : CommitPayout(a)
    \/ \E a \in Admins : Abandon(a)
    \/ \E x \in Payouts, outcome \in {"completed", "failed"} : Settle(x, outcome)
    \/ \E x \in Payouts, r \in Requests : PayoutWebhook(x, r)

WalletSpec == WalletInit /\ [][WalletNext]_walletVars

-----------------------------------------------------------------------------
(* Properties *)

WasDebited(r) == \E a \in Admins : debits[r][a] > 0

\* The 'payout' rows that the administrators wrote for a request, and the units
\* of money that all of them take from a wallet: each row the request's amount.
LedgerRows(r) == UNION {{a} \X (1 .. debits[r][a]) : a \in Admins}

DebitedUnits(v) ==
    UNION {({r} \X LedgerRows(r)) \X (1 .. request[r].amount) :
             r \in {q \in Requests : request[q].vendor = v}}

\* The balance of a wallet is what its ledger says, between any two
\* transactions, also when payouts are sent, refused, lost or abandoned.
BalanceMatchesLedger ==
    \A v \in Vendors : balance[v] = sold[v] - Cardinality(DebitedUnits(v))

\* A vendor is debited for the requests that are approved or paid and for no
\* other: a rejection that comes while an approval is in flight does not leave
\* a rejected request debited, nor a payout webhook a paid one undebited.
DebitedIffApproved ==
    \A r \in Requests : ReqStatus(r) \in {"approved", "paid"} <=> WasDebited(r)

\* Calls that follow one another never debit a request twice, by whichever of
\* the two ways it is processed and whatever PawaPay answers: a second debit
\* takes a second administrator, at work at the same time.
OncePerAdmin == \A r \in Requests, a \in Admins : debits[r][a] <= 1

\* approvePayout answers 409 already_processed to a request that is no longer
\* pending, for it to be debited once, however many administrators there are.
ProcessedOnce ==
    \A r \in Requests, a, b \in Admins :
        debits[r][a] > 0 /\ debits[r][b] > 0 => a = b
=============================================================================
