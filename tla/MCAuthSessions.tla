---------------------------- MODULE MCAuthSessions ----------------------------
(***************************************************************************)
(* AuthSessions on small instances.  Users, devices, session and token ids *)
(* and request slots are interchangeable in the specification and in every *)
(* safety property, so runs that check no liveness reduce by symmetry.     *)
(***************************************************************************)
EXTENDS AuthSessionsProps, TLC

Symmetry == Permutations(Users) \cup Permutations(Devices) \cup Permutations(Sids)
              \cup Permutations(Jtis) \cup Permutations(Procs)
===============================================================================
