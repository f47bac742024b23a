------------------------------ MODULE MCAccounts ------------------------------
(***************************************************************************)
(* Accounts on a small instance.  Ids, emails, passwords and request slots *)
(* are interchangeable in the specification and in its properties.         *)
(***************************************************************************)
EXTENDS Accounts, TLC

Symmetry == Permutations(Users) \cup Permutations(Emails) \cup Permutations(Passwords)
              \cup Permutations(Creators)
===============================================================================
