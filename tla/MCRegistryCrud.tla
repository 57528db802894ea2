--------------------------- MODULE MCRegistryCrud ---------------------------
(* Instance of RegistryCrud for TLC: one service registered over the API    *)
(* and one uploaded skill, and two handlers at a time.                     *)
EXTENDS RegistryCrud, TLC

CONSTANTS s1, k1, t1, t2, v1, v2

Symmetry == Permutations(Thread) \cup Permutations(Value)
=============================================================================
