---------------------------- MODULE MCDashboard ----------------------------
(***************************************************************************)
(* The dashboard of a1, whose company has another admin a2; the employee   *)
(* e2 belongs to another company.                                          *)
(***************************************************************************)
EXTENDS Dashboard

CONSTANTS a1, a2, e1, e2, c1, c2

MCCompanyOf == [u \in Admin \cup Employee |-> IF u = e2 THEN c2 ELSE c1]

(* The admin goes back and forth between two tabs.                         *)
TwoTabs == tab' \in {None, "pending", "all"}

(* All rows are in when the page is opened, the first one of e1.           *)
RowsFirst ==
    /\ IF tab = None THEN tab' # None => Len(table) = MaxRows ELSE Len(table') = Len(table)
    /\ table' # <<>> => table'[1].by = e1

(* The page approves and the other admin rejects.                          *)
OneDecisionEach ==
    \A q \in Call : call'[q].decision \in {None, IF call'[q].admin = Me THEN "approved" ELSE "rejected"}

(* None of the three is about a fair action.                               *)
BusyPageSpec == Init /\ [][Next /\ TwoTabs /\ RowsFirst /\ OneDecisionEach]_vars /\ Fairness
=============================================================================
