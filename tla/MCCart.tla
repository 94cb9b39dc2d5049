------------------------------- MODULE MCCart -------------------------------
(* One customer, one browser.                                              *)
EXTENDS Cart, TLC

\* Two variations of one product; a shared link restores one of each.
MCProductOf == [l \in Lines |-> "product"]
MCBaskets == {[l \in Lines |-> 1]}

MCSymmetry == Permutations(Tabs) \cup Permutations(Lines)
=============================================================================
