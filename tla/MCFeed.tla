------------------------------- MODULE MCFeed -------------------------------
(* One shop with most of the products: two pages in French, one in English. *)
EXTENDS Feed

MCLangOf == [p \in 1 .. MaxId |-> IF p = MaxId THEN "en" ELSE "fr"]
MCVendorOf ==
    [p \in 1 .. MaxId |->
       IF p < MaxId - 1 THEN "v1" ELSE IF p = MaxId THEN NoVendor ELSE "v2"]
=============================================================================
