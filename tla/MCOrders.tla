------------------------------ MODULE MCOrders ------------------------------
(***************************************************************************)
(* Instance of Orders for TLC: ids are model values, interchangeable, so   *)
(* that a state stands for its permutations.                               *)
(***************************************************************************)
EXTENDS Orders, TLC

IdSymmetry == Permutations(Cid) \cup Permutations(OrderId)
=============================================================================
