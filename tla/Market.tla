------------------------------- MODULE Market -------------------------------
(***************************************************************************)
(* What order-svc and payment-svc share: the identifiers of a grouped      *)
(* order, and the Kafka topics by which one service tells the others what  *)
(* it has done.                                                            *)
(*                                                                         *)
(* A checkout creates one parent row (the GROUP) and one SUB-order per     *)
(* vendor in the basket.  Both kinds of rows live in the table `orders`    *)
(* and draw their id from the same BIGSERIAL, so that no id is at once the *)
(* id of a group and the id of a sub-order.                                *)
(***************************************************************************)
EXTENDS Naturals, FiniteSets

CONSTANTS
    Groups,     \* ids of parent orders
    Subs,       \* ids of sub-orders
    GroupOf,    \* parent_order_id of each sub-order
    MethodOf,   \* payment_method chosen when the group was created
    NoSub,      \* the absence of a sub-order
    NoGroup,    \* the absence of a group
    MaxLost     \* bound: publications the broker may lose

Providers == {"stripe", "paydunya", "pawapay"}

ASSUME MarketAssumption ==
    /\ Groups \cap Subs = {}
    /\ GroupOf \in [Subs -> Groups]
    /\ MethodOf \in [Groups -> Providers]
    /\ NoSub \notin Subs
    /\ NoGroup \notin Groups
    /\ MaxLost \in Nat

SubsOf(g) == {s \in Subs : GroupOf[s] = g}

VARIABLES
    events,     \* order.created: sub-orders whose message awaits payment-svc
    paidEvents, \* order.status_changed with status paid, one per sub-order
    lost        \* publications lost so far

topicVars == <<events, paidEvents, lost>>

TopicsTypeOK ==
    /\ events \subseteq Subs
    /\ paidEvents \subseteq Subs
    /\ lost \in 0 .. MaxLost

TopicsInit ==
    /\ events = {}
    /\ paidEvents = {}
    /\ lost = 0

\* kit.Publish logs an error of the broker and returns nothing to its caller:
\* of the messages a handler sends, those in drop are gone for good.
CanDrop(drop) == IsFiniteSet(drop) /\ lost + Cardinality(drop) <= MaxLost

PublishPaid(ids, drop) ==
    /\ drop \subseteq ids
    /\ CanDrop(drop)
    /\ paidEvents' = paidEvents \cup (ids \ drop)
    /\ lost' = lost + Cardinality(drop)
    /\ UNCHANGED events
=============================================================================
