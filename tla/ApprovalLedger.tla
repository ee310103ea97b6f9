--------------------------- MODULE ApprovalLedger ---------------------------
(***************************************************************************)
(* What deciding verifications promises, without reads, checks and         *)
(* updates: a decision is one indivisible step, taken between question and *)
(* answer, by an admin whose company is that of the row at that moment.    *)
(* Who is refused has changed nothing; who is told of an error has decided *)
(* the row or not, and nothing else.                                       *)
(***************************************************************************)
EXTENDS Naturals, Sequences

CONSTANTS Admin, Employee, CompanyOf, Call, None

VARIABLES
    table,    \* the verifications, in the order they came in
    call,     \* who asks for which decision on which row
    answer    \* "idle", "open", then what the admin is told

approvalVars == <<table, call, answer>>

ApprovalInit ==
    /\ table = <<>>
    /\ call = [q \in Call |-> [admin |-> None, row |-> 0, decision |-> None]]
    /\ answer = [q \in Call |-> "idle"]

Submit(e) ==
    /\ table' = Append(table,
            [company |-> CompanyOf[e], by |-> e, approval |-> "pending", approver |-> None])
    /\ UNCHANGED <<call, answer>>

Ask(q, a, v, d) ==
    /\ answer[q] = "idle"
    /\ call' = [call EXCEPT ![q] = [admin |-> a, row |-> v, decision |-> d]]
    /\ answer' = [answer EXCEPT ![q] = "open"]
    /\ UNCHANGED table

MayDecide(q) ==
    /\ call[q].row \in DOMAIN table
    /\ table[call[q].row].company = CompanyOf[call[q].admin]

DecideRow(q) ==
    table' = [table EXCEPT ![call[q].row] =
        [company |-> @.company, by |-> @.by, approval |-> call[q].decision, approver |-> call[q].admin]]

Answer(q, a) ==
    /\ answer[q] = "open"
    /\ answer' = [answer EXCEPT ![q] = a]
    /\ UNCHANGED call

Grant(q) == MayDecide(q) /\ DecideRow(q) /\ Answer(q, "ok")
Refuse(q) == ~MayDecide(q) /\ UNCHANGED table /\ Answer(q, "refused")
Fail(q) == ((MayDecide(q) /\ DecideRow(q)) \/ UNCHANGED table) /\ Answer(q, "error")

ApprovalNext ==
    \/ \E e \in Employee : Submit(e)
    \/ \E q \in Call, a \in Admin, v \in 0 .. Len(table), d \in {"approved", "rejected"} :
            Ask(q, a, v, d)
    \/ \E q \in Call : Grant(q) \/ Refuse(q) \/ Fail(q)

ApprovalSpec == ApprovalInit /\ [][ApprovalNext]_approvalVars
=============================================================================
