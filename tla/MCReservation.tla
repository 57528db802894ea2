--------------------------- MODULE MCReservation ---------------------------
(* Instance of Reservation for TLC: two services, two holders that contend  *)
(* for them, and the two workers of the router's pool.                      *)
EXTENDS Reservation, TLC

CONSTANTS p1, p2, w1, w2

Symmetry == Permutations(Worker) \cup Permutations(Principal)

===========================================================================
