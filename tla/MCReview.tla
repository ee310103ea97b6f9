------------------------------ MODULE MCReview ------------------------------
(***************************************************************************)
(* Two admins and two employees of one company, and the admin of another.  *)
(***************************************************************************)
EXTENDS Review, TLC

CONSTANTS a1, a2, b1, e1, e2, c1, c2

MCCompanyOf == [u \in Admin \cup Employee |-> IF u = b1 THEN c2 ELSE c1]

(* Calls, employees and the admins of one company may change places.       *)
Symmetry == Permutations(Call) \cup Permutations(Employee) \cup Permutations({a1, a2})
=============================================================================
