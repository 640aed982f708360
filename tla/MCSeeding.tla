----------------------------- MODULE MCSeeding -----------------------------
(* TLC instance of SeedingProperties. *)
EXTENDS SeedingProperties, TLC

\* All runs one after the other, or a single one beside the requests.
OneBesideOrAllApart ==
  {[ apart |-> Run, beside |-> {} ]} \cup {[ apart |-> {}, beside |-> {s} ] : s \in Run}

\* Documents, requests and runs are interchangeable model values.
Symmetry ==
  Permutations(Payment) \cup Permutations(Employee)
    \cup Permutations(Request) \cup Permutations(Run)
=============================================================================
