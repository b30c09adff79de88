------------------------------ MODULE MCAccounts ------------------------------
(***************************************************************************)
(* TLC instance of Accounts: the calls are model values, given in the cfg.  *)
(***************************************************************************)
EXTENDS Accounts, TLC

CONSTANTS open1, open2, reset1, reset2, poll, sweep, o1, o2

Symmetry == Permutations(Openings) \cup Permutations(Resets) \cup Permutations(Orders)
================================================================================
