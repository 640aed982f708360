----------------------------- MODULE MCPayment -----------------------------
(* TLC instances of PaymentProperties. *)
EXTENDS PaymentProperties, TLC

\* Payments, employees and requests are interchangeable model values and no
\* property of these runs singles one out.
Symmetry ==
  Permutations(Payment) \cup Permutations(Employee) \cup Permutations(Request)
=============================================================================
