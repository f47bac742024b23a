------------------------------ MODULE MCInproApi ------------------------------
(***************************************************************************)
(* The composition, from an empty database and with one account in it.     *)
(***************************************************************************)
EXTENDS InproApi, TLC

Symmetry == Permutations(Users) \cup Permutations(Sids) \cup Permutations(Jtis)
              \cup Permutations(Emails)
===============================================================================
