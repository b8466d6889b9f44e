------------------------------ MODULE MCSidecar ------------------------------
(***************************************************************************)
(* Sidecar on a small instance: documents 1, 2, 3 and two rendered files.   *)
(* Documents 1 and 3 differ in the main file only (a change outside the    *)
(* section of the `also` rendering).                                       *)
(***************************************************************************)
EXTENDS Sidecar, TLC

MCText ==
  [d \in Docs |-> [o \in 1..N |-> IF o = 1 THEN d ELSE IF d = 2 THEN 12 ELSE 11]]

MCTexts == {1, 2, 3, 11, 12}

Symmetric == Permutations(Tasks)

=============================================================================
