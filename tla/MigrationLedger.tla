-------------------------- MODULE MigrationLedger --------------------------
(***************************************************************************)
(* What bringing the schema up to date promises, without sessions, pools,  *)
(* retries and errors: the versions are applied one after the other, by    *)
(* whoever has the right to, which one process has at a time.  The right   *)
(* may be lost without notice, and from then on nobody's is worth much;    *)
(* but a process that is up has the whole schema even so.                  *)
(***************************************************************************)
EXTENDS Naturals

CONSTANTS Proc, Versions

VARIABLES
    applied,   \* how many versions the database has
    inside,    \* who has the right to apply the next one
    up,        \* the processes that serve
    lost       \* whether a right was ever lost

migrationVars == <<applied, inside, up, lost>>

MigrationInit ==
    /\ applied = 0
    /\ inside = {} /\ up = {}
    /\ lost = FALSE

Enter(p) ==
    /\ inside = {}
    /\ inside' = {p}
    /\ UNCHANGED <<applied, up, lost>>

Leave(p) ==
    /\ p \in inside
    /\ inside' = inside \ {p}
    /\ UNCHANGED <<applied, up, lost>>

(* A process that had the right, or should have waited for it, goes on     *)
(* without.                                                                *)
Lose(p) ==
    /\ lost' = TRUE
    /\ inside' = inside \ {p}
    /\ UNCHANGED <<applied, up>>

(* The version is there, and the process may be told so or not.            *)
Apply(p) ==
    /\ p \in inside \/ lost
    /\ applied < Versions
    /\ applied' = applied + 1
    /\ inside' \in {inside, inside \ {p}}
    /\ UNCHANGED <<up, lost>>

GetUp(p) ==
    /\ applied = Versions /\ p \notin inside
    /\ up' = up \cup {p}
    /\ UNCHANGED <<applied, inside, lost>>

GoDown(p) ==
    /\ p \in up
    /\ up' = up \ {p}
    /\ UNCHANGED <<applied, inside, lost>>

MigrationNext ==
    \E p \in Proc :
        Enter(p) \/ Leave(p) \/ Lose(p) \/ Apply(p) \/ GetUp(p) \/ GoDown(p)

MigrationSpec == MigrationInit /\ [][MigrationNext]_migrationVars
=============================================================================
