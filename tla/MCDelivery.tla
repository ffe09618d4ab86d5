----------------------------- MODULE MCDelivery -----------------------------
(* TLC instance of Delivery: a few sends and short timers, chosen so that  *)
(* an answer can fall before the registration, well before the deadline,   *)
(* in the last nap, and after the report.                                  *)
EXTENDS Delivery, TLC

Symmetry == Permutations(Sends)
=============================================================================
