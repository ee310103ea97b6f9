------------------------------- MODULE Review -------------------------------
(***************************************************************************)
(* The verifications table as employees and company admins use it: rows    *)
(* come in with every submission, admins of several companies list them,   *)
(* decide them at the same time and export what is approved.  Approve is a *)
(* read, a check and an update; nothing holds the row in between.          *)
(*                                                                         *)
(* A row is its position in the table, which stands for its place in the   *)
(* order of submitted_at; 0 is an id that no row has.  A filter is a value *)
(* of approval_status or "all".  The filter on result only narrows a list  *)
(* further and is left out, as is the result itself: nothing here writes it. *)
(***************************************************************************)
EXTENDS Naturals, Sequences, FiniteSets

CONSTANTS
    Company,
    Admin,        \* users with the role company_admin
    Employee,     \* users with the role employee
    CompanyOf,    \* the company_id in the token of a user
    Call,         \* PATCH requests
    None,         \* SQL NULL, or a request that was not made
    MaxRows,      \* bound on the rows of the table
    ListLimit     \* VerificationFilter.Limit (50)

ASSUME ReviewAssumption ==
    /\ CompanyOf \in [Admin \cup Employee -> Company]
    /\ Admin \cap Employee = {}
    /\ None \notin Admin \cup Employee
    /\ MaxRows \in Nat /\ ListLimit \in Nat \ {0}

VARIABLES
    table,      \* the rows of verifications, in the order they came in
    call,       \* what a PATCH request asks for
    callPc,     \* what Approve does next, or the answer
    reply       \* the last answer of List or Export

reviewVars == <<table, call, callPc, reply>>

Decision == {"approved", "rejected"}
Approval == Decision \cup {"pending"}
Filter == Approval \cup {"all"}

RowRecord == [company : Company, by : Employee, approval : Approval, approver : Admin \cup {None}]
CallRecord == [admin : Admin, row : Nat, decision : Decision]
Line == [row : Nat, approval : Approval, approver : Admin \cup {None}]
Reply == [user : Admin \cup Employee, filter : Filter \cup {"sheet"}, lines : SUBSET Line]
NoCall == [admin |-> None, row |-> 0, decision |-> None]
NoReply == [user |-> None, filter |-> "all", lines |-> {}]

ReviewTypeOK ==
    /\ table \in Seq(RowRecord)
    /\ call \in [Call -> CallRecord \cup {NoCall}]
    /\ callPc \in [Call -> {"idle", "fetch", "update", "ok", "refused", "error"}]
    /\ reply \in Reply \cup {NoReply}

ReviewInit ==
    /\ table = <<>>
    /\ call = [q \in Call |-> NoCall]
    /\ callPc = [q \in Call |-> "idle"]
    /\ reply = NoReply

-----------------------------------------------------------------------------
(* The insert at the end of Submit: nobody has decided yet.                *)
CreateVerification(e) ==
    /\ Len(table) < MaxRows
    /\ table' = Append(table,
            [company |-> CompanyOf[e], by |-> e, approval |-> "pending", approver |-> None])
    /\ UNCHANGED <<call, callPc, reply>>

(* A well-formed PATCH of an admin: others end before the table is touched. *)
Approve(q, a, v, d) ==
    /\ callPc[q] = "idle"
    /\ call' = [call EXCEPT ![q] = [admin |-> a, row |-> v, decision |-> d]]
    /\ callPc' = [callPc EXCEPT ![q] = "fetch"]
    /\ UNCHANGED <<table, reply>>

Reached(q, pc) == callPc' = [callPc EXCEPT ![q] = pc]

(* Mutant: the check is left out.                                          *)
AnyCompany(q) == TRUE

(* v.CompanyID != companyID: the wall between the companies.               *)
SameCompany(q) == table[call[q].row].company = CompanyOf[call[q].admin]

(* The row is read and its company compared; an unknown id is refused too. *)
CheckCompany(q) ==
    /\ callPc[q] = "fetch"
    /\ \/ Reached(q, IF call[q].row # 0 /\ SameCompany(q) THEN "update" ELSE "refused")
       \/ Reached(q, "error")
    /\ UNCHANGED <<table, call, reply>>

(* One UPDATE sets the decision and who made it, whatever they were.       *)
UpdateVerificationApproval(v, d, a) ==
    table' = [table EXCEPT ![v] =
        [company |-> @.company, by |-> @.by, approval |-> d, approver |-> a]]

(* Mutant: the error of the update is not looked at.                       *)
UpdateUnchecked(q) ==
    /\ callPc[q] = "update"
    /\ \/ UpdateVerificationApproval(call[q].row, call[q].decision, call[q].admin)
       \/ UNCHANGED table
    /\ Reached(q, "ok")
    /\ UNCHANGED <<call, reply>>

(* The answer of an update that took effect may still be an error.         *)
Update(q) ==
    /\ callPc[q] = "update"
    /\ \/ /\ UpdateVerificationApproval(call[q].row, call[q].decision, call[q].admin)
          /\ Reached(q, "ok") \/ Reached(q, "error")
       \/ Reached(q, "error") /\ UNCHANGED table
    /\ UNCHANGED <<call, reply>>

(* Mutant: nobody's list goes by company.                                  *)
VisibleToAll(u, v) == TRUE

(* An admin's lists go by company, an employee's by submitted_by.          *)
Visible(u, v) ==
    IF u \in Admin THEN table[v].company = CompanyOf[u] ELSE table[v].by = u

Selected(u, f) ==
    {v \in DOMAIN table : Visible(u, v) /\ f \in {"all", table[v].approval}}

LineOf(v) == [row |-> v, approval |-> table[v].approval, approver |-> table[v].approver]

(* ORDER BY submitted_at DESC LIMIT n.  Concurrent inserts may be ordered  *)
(* by their column's default otherwise than they commit; positions stand   *)
(* for that order.                                                         *)
Newest(S, n) == {v \in S : Cardinality({w \in S : w > v}) < n}

(* Mutant: the limit is applied before the filter.                         *)
ListingLimitedFirst(u, f) ==
    {LineOf(v) : v \in Newest(Selected(u, "all"), ListLimit) \cap Selected(u, f)}

Listing(u, f) == {LineOf(v) : v \in Newest(Selected(u, f), ListLimit)}

List(u, f) ==
    /\ reply' = [user |-> u, filter |-> f, lines |-> Listing(u, f)]
    /\ UNCHANGED <<table, call, callPc>>

(* Mutant: the query without its condition on approval_status.             *)
AllForExport(a) == {v \in DOMAIN table : table[v].company = CompanyOf[a]}

(* ListApprovedForExport: one query, no limit.                             *)
ApprovedForExport(a) ==
    {v \in DOMAIN table : table[v].company = CompanyOf[a] /\ table[v].approval = "approved"}

Export(a) ==
    /\ reply' = [user |-> a, filter |-> "sheet", lines |-> {LineOf(v) : v \in ApprovedForExport(a)}]
    /\ UNCHANGED <<table, call, callPc>>

Decide(q) == CheckCompany(q) \/ Update(q)

ReviewNext ==
    \/ \E e \in Employee : CreateVerification(e)
    \/ \E q \in Call, a \in Admin, v \in 0 .. Len(table), d \in Decision : Approve(q, a, v, d)
    \/ \E q \in Call : Decide(q)
    \/ \E u \in Admin \cup Employee, f \in Filter : List(u, f)
    \/ \E a \in Admin : Export(a)

ReviewSpec == ReviewInit /\ [][ReviewNext]_reviewVars

-----------------------------------------------------------------------------
(* The call whose admin and decision these are got as far as the update.   *)
Earned(v, approval, approver) ==
    \E q \in Call :
        /\ call[q] = [admin |-> approver, row |-> v, decision |-> approval]
        /\ callPc[q] \in {"ok", "error"}
        /\ CompanyOf[approver] = table[v].company

(* However the calls of several admins interleave, decision and approver   *)
(* of a row come from one call of an admin of the row's company            *)
(* (handlers.go:200, db/verifications.go:172-189).                         *)
DecisionsAreEarned ==
    \A v \in DOMAIN table :
        IF table[v].approval = "pending"
        THEN table[v].approver = None
        ELSE Earned(v, table[v].approval, table[v].approver)

(* A call that was answered 200 decided its row for good: the row may only *)
(* be decided again, by a later call (handlers.go:206-212).                *)
AckedIsDecided ==
    \A q \in Call : callPc[q] = "ok" =>
        call[q].row \in DOMAIN table /\ table[call[q].row].approval # "pending"

(* No list and no sheet shows a row of another company, or to an employee  *)
(* one of a colleague (README.md:12, handlers.go:103-131).                 *)
RepliesAreOwn ==
    \A l \in reply.lines :
        /\ l.row \in DOMAIN table
        /\ table[l.row].company = CompanyOf[reply.user]
        /\ reply.user \in Employee => table[l.row].by = reply.user

(* Every decision that a list or a sheet names was made as it is named,    *)
(* also if the row has been decided differently since; a sheet names only  *)
(* approvals (handlers.go:215-227, db/verifications.go:193-214).           *)
RepliesAreEarned ==
    \A l \in reply.lines :
        /\ l.approval # "pending" => Earned(l.row, l.approval, l.approver)
        /\ reply.filter = "sheet" => l.approval = "approved"

(* What a call has learnt: it updates only a row of its admin's company.   *)
CallInv ==
    \A q \in Call :
        /\ callPc[q] = "idle" <=> call[q] = NoCall
        /\ callPc[q] # "idle" => call[q].row \in 0 .. Len(table)
        /\ callPc[q] \in {"update", "ok"} => call[q].row # 0 /\ SameCompany(q)

(* A row is of the company that its employee had in the token.             *)
RowInv == \A v \in DOMAIN table : table[v].company = CompanyOf[table[v].by]

(* What makes the properties above inductive: the row of a call that may   *)
(* still update it has been checked, and rows keep their company           *)
(* (handlers.go:190-206).                                                  *)
ReviewInv ==
    /\ ReviewTypeOK /\ CallInv /\ RowInv
    /\ DecisionsAreEarned /\ AckedIsDecided /\ RepliesAreOwn /\ RepliesAreEarned

(* A list leaves out a row that matches only when it is full, and then     *)
(* what it shows is newer: the limit cuts after the filter, never before,  *)
(* so that an admin who decides what is listed as pending gets to all of   *)
(* it (db/verifications.go:104-128).                                       *)
CutOnlyWhenFull ==
    [][\A u \in Admin \cup Employee, f \in Filter :
        reply' # reply /\ reply'.user = u /\ reply'.filter = f =>
            \A v \in Selected(u, f) :
                \/ \E l \in reply'.lines : l.row = v
                \/ /\ Cardinality(reply'.lines) = ListLimit
                   /\ \A l \in reply'.lines : l.row > v
      ]_reviewVars

(* Read, check and update of a decision, with other decisions and inserts  *)
(* in between, look like one step: the company is checked on a row that    *)
(* may have been decided since, yet nobody decides a row of another        *)
(* company, is refused a row of the own one, or told 200 for nothing       *)
(* (handlers.go:190-212).                                                  *)
Approvals == INSTANCE ApprovalLedger WITH
    answer <- [q \in Call |-> IF callPc[q] \in {"fetch", "update"} THEN "open" ELSE callPc[q]]

ImplementsApprovals == Approvals!ApprovalSpec
=============================================================================
