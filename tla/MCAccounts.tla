----------------------------- MODULE MCAccounts -----------------------------
(***************************************************************************)
(* Accounts for TLC.  Requests and tabs are interchangeable, and the run   *)
(* checks safety only: invariants and a refinement without fairness.       *)
(***************************************************************************)
EXTENDS Accounts, TLC

CONSTANTS e1, e2, e3, p1, p2, c1

(* Two users are there already, and work on different pages.               *)
MCSeed ==
    [e \in Email |->
        IF e = e1 THEN [password |-> p1, role |-> "company_admin", company |-> c1]
        ELSE IF e = e2 THEN [password |-> p1, role |-> "platform_admin", company |-> None]
        ELSE None]

(* An email of a user, a new one with two passwords, and two forms whose   *)
(* company does not suit the role or does not exist.                       *)
MCForm ==
    { [email |-> e1, password |-> p2, role |-> "employee", company |-> c1],
      [email |-> e3, password |-> p1, role |-> "provider", company |-> c1],
      [email |-> e3, password |-> p2, role |-> "employee", company |-> c1],
      [email |-> e3, password |-> p1, role |-> "employee", company |-> None],
      [email |-> e3, password |-> p1, role |-> "employee", company |-> Unknown] }

Symmetry == Permutations(Request) \cup Permutations(Tab)
=============================================================================
