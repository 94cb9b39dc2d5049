------------------------------ MODULE MCWallet ------------------------------
(* Payout requests of one vendor.                                          *)
EXTENDS Wallet, TLC

\* Requests and payout ids are interchangeable.
MCSymmetry == Permutations(Requests) \cup Permutations(Payouts)
=============================================================================
