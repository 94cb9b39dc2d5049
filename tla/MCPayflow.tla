----------------------------- MODULE MCPayflow -----------------------------
(* A small instance of Payflow. *)
EXTENDS Payflow
=============================================================================
