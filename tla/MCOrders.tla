------------------------------ MODULE MCOrders ------------------------------
(* order-svc alone: one grouped order of two vendors, two clerks.          *)
EXTENDS Orders

CONSTANTS g1, s1, s2, p1

MCGroupOf == [s \in {s1, s2} |-> g1]
MCMethodOf == [g \in {g1} |-> "pawapay"]
MCLinesOf == [s \in {s1, s2} |-> IF s = s1 THEN {p1} ELSE {}]
=============================================================================
