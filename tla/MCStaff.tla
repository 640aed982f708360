------------------------------ MODULE MCStaff ------------------------------
(* TLC instance of StaffProperties. *)
EXTENDS StaffProperties, TLC

\* Starts are interchangeable, and so are resets.
Symmetry == Permutations(Boot) \cup Permutations(Reset)
=============================================================================
