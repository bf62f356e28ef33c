----------------------------- MODULE MCEventLoop -----------------------------
(***************************************************************************)
(* EventLoop for TLC: model values, and the permutations under which its   *)
(* safety properties are symmetric.  One task handed over at most once     *)
(* bounds every queue by the number of tasks.                              *)
(***************************************************************************)
EXTENDS EventLoop, TLC

Symmetry == Permutations(Users) \cup Permutations(Tasks) \cup Permutations(Channels)
=============================================================================
