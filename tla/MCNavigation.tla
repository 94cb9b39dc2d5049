---------------------------- MODULE MCNavigation ----------------------------
(* Two products and a shop; one product is in the first page of products.   *)
EXTENDS Navigation

MCKindOf == [i \in Items |-> IF i = "shop" THEN "store" ELSE "product"]
=============================================================================
