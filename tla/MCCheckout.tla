----------------------------- MODULE MCCheckout -----------------------------
(* order-svc and payment-svc: one grouped order of two vendors.            *)
EXTENDS Checkout

CONSTANTS g1, s1, s2, Method

MCGroupOf == [s \in Subs |-> g1]
MCMethodOf == [g \in {g1} |-> Method]
MCLinesOf == [s \in Subs |-> {}]
=============================================================================
