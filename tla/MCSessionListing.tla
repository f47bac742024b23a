--------------------------- MODULE MCSessionListing ---------------------------
(***************************************************************************)
(* SessionListing on small instances, reduced by symmetry as in            *)
(* MCAuthSessions.                                                         *)
(***************************************************************************)
EXTENDS SessionListing

\* one session at a time, the rest without a limit, and a query that is refused
MCPages == {[skip |-> 0, take |-> 1], [skip |-> 1, take |-> 0], [skip |-> 0, take |-> 51]}

Symmetry == Permutations(Users) \cup Permutations(Devices) \cup Permutations(Sids)
              \cup Permutations(Jtis) \cup Permutations(Procs)
===============================================================================
