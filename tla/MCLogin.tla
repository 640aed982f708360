------------------------------ MODULE MCLogin ------------------------------
(* TLC instances of LoginProperties. *)
EXTENDS LoginProperties, TLC

\* Requests are interchangeable model values.
Symmetry == Permutations(Request)
=============================================================================
