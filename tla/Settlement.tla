----------------------------- MODULE Settlement -----------------------------
(***************************************************************************)
(* What the checkout promises about money, without saying how: an order is *)
(* released to its vendor only once the customer of its group has been     *)
(* charged, once per time it is open for payment, and its vendor is        *)
(* credited at most once per release.                                      *)
(***************************************************************************)
EXTENDS Naturals

CONSTANTS Groups, Subs, GroupOf

VARIABLES
    charged,    \* groups whose customer has paid
    released,   \* how often each sub-order was confirmed
    reopened,   \* how often the staff put it back to pending_payment
    credited    \* how often its vendor was credited

settlementVars == <<charged, released, reopened, credited>>

Init ==
    /\ charged = {}
    /\ released = [s \in Subs |-> 0]
    /\ reopened = [s \in Subs |-> 0]
    /\ credited = [s \in Subs |-> 0]

Charge(g) ==
    /\ charged' = charged \cup {g}
    /\ UNCHANGED <<released, reopened, credited>>

\* One confirmation releases several sub-orders of a charged group at once.
Release(g, ids) ==
    /\ g \in charged
    /\ \A s \in ids : GroupOf[s] = g /\ released[s] <= reopened[s]
    /\ released' = [s \in Subs |-> IF s \in ids THEN released[s] + 1 ELSE released[s]]
    /\ UNCHANGED <<charged, reopened, credited>>

Reopen(s) ==
    /\ reopened' = [reopened EXCEPT ![s] = @ + 1]
    /\ UNCHANGED <<charged, released, credited>>

Credit(s) ==
    /\ credited[s] < released[s]
    /\ credited' = [credited EXCEPT ![s] = @ + 1]
    /\ UNCHANGED <<charged, released, reopened>>

Next ==
    \/ \E g \in Groups : Charge(g)
    \/ \E g \in Groups, ids \in SUBSET Subs : Release(g, ids)
    \/ \E s \in Subs : Reopen(s)
    \/ \E s \in Subs : Credit(s)

Spec == Init /\ [][Next]_settlementVars
=============================================================================
