----------------------------- MODULE MCPayments -----------------------------
(* payment-svc alone: one group, whose method the cfg chooses.             *)
EXTENDS Payments

CONSTANTS g1, s1, s2, Method

MCGroupOf == [s \in Subs |-> g1]
MCMethodOf == [g \in {g1} |-> Method]
=============================================================================
