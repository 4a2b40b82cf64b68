--------------------------- MODULE MCOutputQueue ---------------------------
(* Small instances of OutputQueue for TLC.                                  *)
EXTENDS OutputQueue

MCMaxSleeps == 2
(* The constructor takes any capacity, setCapacity makes 1 of 0: a queue of  *)
(* capacity 0 rejects every grid, one of 1 is full with the first of two     *)
(* tasks, one of 2 never is.                                                 *)
MCCapacities == {0, 2}
=============================================================================
