--------------------------- MODULE Review_proofs ---------------------------
(***************************************************************************)
(* Decisions, lists and sheets are right for any number of companies,      *)
(* users, rows and concurrent calls.                                       *)
(***************************************************************************)
EXTENDS Review, FunctionTheorems, FiniteSetTheorems, WellFoundedInduction, TLAPS

(* The steps that change the table or a call. *)
TableStep ==
    /\ \/ \E e \in Employee : CreateVerification(e)
       \/ \E q \in Call, a \in Admin, v \in 0 .. Len(table), d \in Decision : Approve(q, a, v, d)
       \/ \E q \in Call : Decide(q)

(* What no such step takes back: rows stay, with their company and their   *)
(* employee, a decided row stays decided, and calls that ended stay.       *)
Kept ==
    /\ DOMAIN table \subseteq DOMAIN table'
    /\ \A v \in DOMAIN table :
        /\ table'[v].company = table[v].company /\ table'[v].by = table[v].by
        /\ table[v].approval # "pending" => table'[v].approval # "pending"
    /\ \A q \in Call :
        /\ callPc[q] \in {"ok", "error"} => callPc'[q] = callPc[q]
        /\ callPc[q] # "idle" => call'[q] = call[q]

(* The UPDATE changes the two columns of one row. *)
LEMMA UpdateOfOneRow ==
    ASSUME ReviewTypeOK, NEW v \in DOMAIN table, NEW d \in Decision, NEW a \in Admin,
           UpdateVerificationApproval(v, d, a)
    PROVE  /\ table' \in Seq(RowRecord) /\ Len(table') = Len(table)
           /\ \A w \in DOMAIN table :
                table'[w] = IF w = v THEN [company |-> table[v].company, by |-> table[v].by,
                                           approval |-> d, approver |-> a]
                            ELSE table[w]
<1>1. table \in Seq(RowRecord) BY DEF ReviewTypeOK
<1>2. table[v] \in RowRecord BY <1>1
<1>3. table' = [table EXCEPT ![v] =
                  [company |-> table[v].company, by |-> table[v].by, approval |-> d, approver |-> a]]
  BY DEF UpdateVerificationApproval
<1>4. [company |-> table[v].company, by |-> table[v].by, approval |-> d, approver |-> a] \in RowRecord
  BY <1>2 DEF RowRecord, Approval
<1> QED BY <1>1, <1>3, <1>4

LEMMA InitReview == ReviewAssumption /\ ReviewInit => ReviewInv
  BY DEF ReviewInit, ReviewInv, ReviewTypeOK, CallInv, RowInv, DecisionsAreEarned, AckedIsDecided,
         RepliesAreOwn, RepliesAreEarned, NoCall, NoReply

(* An insert adds a row that nobody has decided. *)
LEMMA CreateKeeps ==
    ASSUME ReviewAssumption, ReviewInv, NEW e \in Employee, CreateVerification(e)
    PROVE  Kept /\ table' \in Seq(RowRecord) /\ Len(table') = Len(table) + 1
           /\ table'[Len(table')].approval = "pending" /\ table'[Len(table')].approver = None
           /\ table'[Len(table')].company = CompanyOf[table'[Len(table')].by]
           /\ \A w \in DOMAIN table : table'[w] = table[w]
<1> DEFINE new == [company |-> CompanyOf[e], by |-> e, approval |-> "pending", approver |-> None]
<1>1. table \in Seq(RowRecord) BY DEF ReviewInv, ReviewTypeOK
<1>2. new \in RowRecord BY DEF ReviewAssumption, RowRecord, Approval
<1>3. table' = Append(table, new) BY DEF CreateVerification
<1>4. /\ table' \in Seq(RowRecord) /\ Len(table') = Len(table) + 1
      /\ table'[Len(table')] = new /\ \A w \in DOMAIN table : table'[w] = table[w]
      /\ DOMAIN table \subseteq DOMAIN table'
  BY <1>1, <1>2, <1>3
<1> QED BY <1>4 DEF Kept, CreateVerification

(* Only an idle call becomes one. *)
LEMMA ApproveKeeps ==
    ASSUME ReviewAssumption, ReviewInv, NEW q \in Call, NEW a \in Admin, NEW v \in 0 .. Len(table),
           NEW d \in Decision, Approve(q, a, v, d)
    PROVE  Kept
  BY DEF Approve, Kept, ReviewInv, ReviewTypeOK

LEMMA CheckKeeps ==
    ASSUME ReviewAssumption, ReviewInv, NEW q \in Call, CheckCompany(q)
    PROVE  Kept
  BY DEF CheckCompany, Reached, Kept, ReviewInv, ReviewTypeOK

(* Only the row of the call is written, with its decision and its admin.   *)
Written(q) ==
    \A w \in DOMAIN table :
        table'[w] = IF w = call[q].row
                    THEN [company |-> table[w].company, by |-> table[w].by,
                          approval |-> call[q].decision, approver |-> call[q].admin]
                    ELSE table[w]

(* What an update writes is the request of a checked call. *)
LEMMA UpdateWrites ==
    ASSUME ReviewAssumption, ReviewInv, NEW q \in Call, Update(q)
    PROVE  /\ call[q] \in CallRecord /\ call[q].row \in DOMAIN table
           /\ table[call[q].row].company = CompanyOf[call[q].admin]
           /\ callPc'[q] \in {"ok", "error"}
           /\ \A p \in Call \ {q} : callPc'[p] = callPc[p]
           /\ \/ /\ table' \in Seq(RowRecord) /\ Len(table') = Len(table)
                 /\ Written(q)
              \/ table' = table /\ callPc'[q] = "error"
<1>1. table \in Seq(RowRecord) /\ callPc[q] = "update" BY DEF ReviewInv, ReviewTypeOK, Update
<1>2. call[q] # NoCall /\ call[q] \in CallRecord /\ call[q].row # 0 /\ SameCompany(q)
      /\ call[q].row \in 0 .. Len(table)
  BY <1>1 DEF ReviewInv, ReviewTypeOK, CallInv
<1>3. call[q].row \in DOMAIN table BY <1>1, <1>2
<1>4. call[q].decision \in Decision /\ call[q].admin \in Admin BY <1>2 DEF CallRecord
<1>5. callPc'[q] \in {"ok", "error"} /\ \A p \in Call \ {q} : callPc'[p] = callPc[p]
  BY DEF Update, Reached, ReviewInv, ReviewTypeOK
<1>6. ASSUME UpdateVerificationApproval(call[q].row, call[q].decision, call[q].admin)
      PROVE  table' \in Seq(RowRecord) /\ Len(table') = Len(table) /\ Written(q)
  <2>1. ReviewTypeOK BY DEF ReviewInv
  <2> DEFINE v == call[q].row  d == call[q].decision  a == call[q].admin
  <2>2. v \in DOMAIN table /\ d \in Decision /\ a \in Admin BY <1>3, <1>4
  <2>3. UpdateVerificationApproval(v, d, a) BY <1>6
  <2> HIDE DEF v, d, a
  <2>4. /\ table' \in Seq(RowRecord) /\ Len(table') = Len(table)
        /\ \A w \in DOMAIN table :
             table'[w] = IF w = v THEN [company |-> table[v].company, by |-> table[v].by,
                                        approval |-> d, approver |-> a]
                         ELSE table[w]
    BY <2>1, <2>2, <2>3, UpdateOfOneRow
  <2>5. \A w \in DOMAIN table :
          table'[w] = IF w = v THEN [company |-> table[w].company, by |-> table[w].by,
                                     approval |-> d, approver |-> a]
                      ELSE table[w]
    BY <2>4
  <2> QED BY <2>4, <2>5 DEF v, d, a, Written
<1>7. ASSUME UNCHANGED table /\ Reached(q, "error")
      PROVE  table' = table /\ callPc'[q] = "error"
  BY <1>7 DEF Reached, ReviewInv, ReviewTypeOK
<1>8. table[call[q].row].company = CompanyOf[call[q].admin] BY <1>2 DEF SameCompany
<1>9. \/ table' \in Seq(RowRecord) /\ Len(table') = Len(table) /\ Written(q)
      \/ table' = table /\ callPc'[q] = "error"
  BY <1>6, <1>7 DEF Update
<1> QED BY <1>2, <1>3, <1>5, <1>8, <1>9

LEMMA UpdateKeeps ==
    ASSUME ReviewAssumption, ReviewInv, NEW q \in Call, Update(q)
    PROVE  Kept
<1>1. table \in Seq(RowRecord) /\ callPc[q] = "update" /\ call' = call
  BY DEF ReviewInv, ReviewTypeOK, Update
<1>2. call[q].decision \in Decision BY UpdateWrites DEF CallRecord
<1>3. ASSUME NEW p \in Call
      PROVE  /\ callPc[p] \in {"ok", "error"} => callPc'[p] = callPc[p]
             /\ callPc[p] # "idle" => call'[p] = call[p]
  BY <1>1, UpdateWrites
<1>4. CASE table' = table BY <1>3, <1>4 DEF Kept
<1>5. CASE table' # table
  <2>1. table' \in Seq(RowRecord) /\ Len(table') = Len(table) /\ Written(q)
    BY <1>5, UpdateWrites
  <2>2. DOMAIN table \subseteq DOMAIN table' BY <1>1, <2>1
  <2>3. ASSUME NEW v \in DOMAIN table
        PROVE  /\ table'[v].company = table[v].company /\ table'[v].by = table[v].by
               /\ table[v].approval # "pending" => table'[v].approval # "pending"
    <3>1. CASE v = call[q].row
      <4>1. table'[v] = [company |-> table[v].company, by |-> table[v].by,
                         approval |-> call[q].decision, approver |-> call[q].admin]
        BY <2>1, <3>1 DEF Written
      <4>2. call[q].decision # "pending" BY <1>2 DEF Decision
      <4> QED BY <4>1, <4>2
    <3>2. CASE v # call[q].row
      <4>1. table'[v] = table[v] BY <2>1, <3>2 DEF Written
      <4> QED BY <4>1
    <3> QED BY <3>1, <3>2
  <2> QED BY <1>3, <2>2, <2>3 DEF Kept
<1> QED BY <1>4, <1>5

LEMMA TableStepKeeps ==
    ASSUME ReviewAssumption, ReviewInv, TableStep
    PROVE  Kept
  BY CreateKeeps, ApproveKeeps, CheckKeeps, UpdateKeeps DEF TableStep, Decide

(* A decision that was made stays made. *)
LEMMA EarnedIsKept ==
    ASSUME Kept, NEW v \in DOMAIN table, NEW d, NEW a, Earned(v, d, a)
    PROVE  Earned(v, d, a)'
  BY DEF Kept, Earned

-----------------------------------------------------------------------------
(* Every table step keeps the types. *)
LEMMA TypeStep ==
    ASSUME ReviewAssumption, ReviewInv, TableStep
    PROVE  ReviewTypeOK'
<1>1. ReviewTypeOK BY DEF ReviewInv
<1>2. ASSUME NEW e \in Employee, CreateVerification(e) PROVE ReviewTypeOK'
  <2>1. table' \in Seq(RowRecord) BY <1>2, CreateKeeps
  <2> QED BY <1>1, <1>2, <2>1 DEF ReviewTypeOK, CreateVerification
<1>3. ASSUME NEW q \in Call, NEW a \in Admin, NEW v \in 0 .. Len(table), NEW d \in Decision,
             Approve(q, a, v, d)
      PROVE  ReviewTypeOK'
  <2>1. v \in Nat BY <1>1 DEF ReviewTypeOK
  <2>2. [admin |-> a, row |-> v, decision |-> d] \in CallRecord BY <2>1 DEF CallRecord
  <2> QED BY <1>1, <1>3, <2>2 DEF ReviewTypeOK, Approve
<1>4. ASSUME NEW q \in Call, CheckCompany(q) PROVE ReviewTypeOK'
  BY <1>1, <1>4 DEF ReviewTypeOK, CheckCompany, Reached
<1>5. ASSUME NEW q \in Call, Update(q) PROVE ReviewTypeOK'
  <2>1. table' \in Seq(RowRecord) BY <1>1, <1>5, UpdateWrites DEF ReviewTypeOK
  <2>2. callPc' \in [Call -> {"idle", "fetch", "update", "ok", "refused", "error"}]
    BY <1>1, <1>5 DEF Update, Reached, ReviewTypeOK
  <2>3. UNCHANGED <<call, reply>> BY <1>5 DEF Update
  <2> QED BY <1>1, <2>1, <2>2, <2>3 DEF ReviewTypeOK
<1> QED BY <1>2, <1>3, <1>4, <1>5 DEF TableStep, Decide

(* A call that may update has been checked, and its row stays checked. *)
LEMMA CallStep ==
    ASSUME ReviewAssumption, ReviewInv, TableStep
    PROVE  CallInv'
<1>1. ReviewTypeOK /\ CallInv BY DEF ReviewInv
<1>2. Kept BY TableStepKeeps
<1>3. ReviewTypeOK' BY TypeStep
<1>4. Len(table) \in Nat /\ Len(table') \in Nat /\ Len(table) <= Len(table')
  <2>1. table \in Seq(RowRecord) /\ table' \in Seq(RowRecord) BY <1>1, <1>3 DEF ReviewTypeOK
  <2>2. 1 .. Len(table) \subseteq 1 .. Len(table') BY <1>2, <2>1 DEF Kept
  <2>3. Len(table) \in Nat /\ Len(table') \in Nat BY <2>1
  <2> QED BY <2>2, <2>3
<1>5. ASSUME NEW p \in Call, callPc'[p] = callPc[p], call'[p] = call[p]
      PROVE  /\ callPc'[p] = "idle" <=> call'[p] = NoCall
             /\ callPc'[p] # "idle" => call'[p].row \in 0 .. Len(table')
             /\ callPc'[p] \in {"update", "ok"} => call'[p].row # 0 /\ SameCompany(p)'
  <2>1. callPc[p] # "idle" => call[p].row \in 0 .. Len(table) BY <1>1 DEF CallInv
  <2>2. ASSUME callPc[p] \in {"update", "ok"} PROVE call'[p].row # 0 /\ SameCompany(p)'
    <3>1. call[p].row # 0 /\ SameCompany(p) BY <1>1, <2>2 DEF CallInv
    <3>2. call[p].row \in DOMAIN table BY <1>1, <2>1, <2>2, <3>1 DEF ReviewTypeOK
    <3>3. table'[call[p].row].company = table[call[p].row].company BY <1>2, <3>2 DEF Kept
    <3> QED BY <1>5, <3>1, <3>3 DEF SameCompany
  <2> QED BY <1>1, <1>4, <1>5, <2>1, <2>2 DEF CallInv
<1>6. ASSUME NEW e \in Employee, CreateVerification(e) PROVE CallInv'
  BY <1>5, <1>6 DEF CreateVerification, CallInv
<1>7. ASSUME NEW q \in Call, NEW a \in Admin, NEW v \in 0 .. Len(table), NEW d \in Decision,
             Approve(q, a, v, d)
      PROVE  CallInv'
  <2>1. callPc'[q] = "fetch" /\ call'[q] = [admin |-> a, row |-> v, decision |-> d] /\ table' = table
    BY <1>1, <1>7 DEF Approve, ReviewTypeOK
  <2>2. call'[q] # NoCall
    <3>1. call'[q].admin = a /\ NoCall.admin = None BY <2>1 DEF NoCall
    <3>2. a # None BY DEF ReviewAssumption
    <3> QED BY <3>1, <3>2
  <2>3. call'[q].row = v BY <2>1
  <2>4. \A p \in Call \ {q} : callPc'[p] = callPc[p] /\ call'[p] = call[p]
    BY <1>1, <1>7 DEF Approve, ReviewTypeOK
  <2> QED BY <1>5, <2>1, <2>2, <2>3, <2>4 DEF CallInv
<1>8. ASSUME NEW q \in Call, CheckCompany(q) PROVE CallInv'
  <2>1. table' = table /\ call' = call /\ callPc[q] = "fetch" BY <1>8 DEF CheckCompany
  <2>2. /\ \A p \in Call \ {q} : callPc'[p] = callPc[p]
        /\ callPc'[q] \in {"update", "refused", "error"}
        /\ callPc'[q] = "update" => call[q].row # 0 /\ SameCompany(q)
    BY <1>1, <1>8 DEF CheckCompany, Reached, ReviewTypeOK
  <2>3. call[q] # NoCall /\ call[q].row \in 0 .. Len(table) BY <1>1, <2>1 DEF CallInv
  <2>4. SameCompany(q)' = SameCompany(q) BY <2>1 DEF SameCompany
  <2>5. /\ callPc'[q] = "idle" <=> call'[q] = NoCall
        /\ callPc'[q] # "idle" => call'[q].row \in 0 .. Len(table')
        /\ callPc'[q] \in {"update", "ok"} => call'[q].row # 0 /\ SameCompany(q)'
    BY <2>1, <2>2, <2>3, <2>4
  <2> QED BY <1>5, <2>1, <2>2, <2>5 DEF CallInv
<1>9. ASSUME NEW q \in Call, Update(q) PROVE CallInv'
  <2>1. call' = call /\ callPc[q] = "update" BY <1>9 DEF Update
  <2>2. /\ \A p \in Call \ {q} : callPc'[p] = callPc[p]
        /\ callPc'[q] \in {"ok", "error"}
    BY <1>9, UpdateWrites
  <2>3. call[q] # NoCall /\ call[q].row \in 0 .. Len(table) /\ call[q].row # 0 /\ SameCompany(q)
    BY <1>1, <2>1 DEF CallInv
  <2>4. call[q].row \in DOMAIN table BY <1>1, <2>3 DEF ReviewTypeOK
  <2>5. SameCompany(q)' BY <1>2, <2>1, <2>3, <2>4 DEF Kept, SameCompany
  <2>6. /\ callPc'[q] = "idle" <=> call'[q] = NoCall
        /\ callPc'[q] # "idle" => call'[q].row \in 0 .. Len(table')
        /\ callPc'[q] \in {"update", "ok"} => call'[q].row # 0 /\ SameCompany(q)'
    BY <1>4, <2>1, <2>2, <2>3, <2>5
  <2> QED BY <1>5, <2>1, <2>2, <2>6 DEF CallInv
<1> QED BY <1>6, <1>7, <1>8, <1>9 DEF TableStep, Decide

(* What a row says of its decision was asked for by one checked call. *)
LEMMA DecisionStep ==
    ASSUME ReviewAssumption, ReviewInv, TableStep
    PROVE  DecisionsAreEarned'
<1>1. ReviewTypeOK /\ DecisionsAreEarned BY DEF ReviewInv
<1>2. Kept BY TableStepKeeps
<1> DEFINE Right(v) == IF table[v].approval = "pending"
                       THEN table[v].approver = None
                       ELSE Earned(v, table[v].approval, table[v].approver)
<1>3. ASSUME NEW v \in DOMAIN table, table'[v] = table[v] PROVE Right(v)'
  <2>1. Right(v) BY <1>1 DEF DecisionsAreEarned
  <2>2. CASE table[v].approval = "pending" BY <1>3, <2>1, <2>2
  <2>3. CASE table[v].approval # "pending"
    <3>2. Earned(v, table[v].approval, table[v].approver) BY <2>1, <2>3
    <3>3. PICK q \in Call :
            /\ call[q] = [admin |-> table[v].approver, row |-> v, decision |-> table[v].approval]
            /\ callPc[q] \in {"ok", "error"}
            /\ CompanyOf[table[v].approver] = table[v].company
      BY <3>2 DEF Earned
    <3>4. call'[q] = call[q] /\ callPc'[q] = callPc[q] BY <1>2, <3>3 DEF Kept
    <3>5. Earned(v, table[v].approval, table[v].approver)' BY <1>3, <3>3, <3>4 DEF Earned
    <3> QED BY <1>3, <2>3, <3>5
  <2> QED BY <2>2, <2>3
<1>4. ASSUME NEW e \in Employee, CreateVerification(e) PROVE DecisionsAreEarned'
  <2>1. /\ table \in Seq(RowRecord) /\ table' \in Seq(RowRecord) /\ Len(table') = Len(table) + 1
        /\ table'[Len(table')].approval = "pending" /\ table'[Len(table')].approver = None
        /\ \A w \in DOMAIN table : table'[w] = table[w]
    BY <1>1, <1>4, CreateKeeps DEF ReviewTypeOK
  <2>2. ASSUME NEW v \in DOMAIN table' PROVE Right(v)'
    <3>1. v \in DOMAIN table \/ v = Len(table') BY <2>1
    <3>2. CASE v \in DOMAIN table BY <1>3, <2>1, <3>2
    <3>3. CASE v = Len(table') BY <2>1, <3>3
    <3> QED BY <3>1, <3>2, <3>3
  <2> QED BY <2>2 DEF DecisionsAreEarned
<1>5. ASSUME table' = table PROVE DecisionsAreEarned' BY <1>3, <1>5 DEF DecisionsAreEarned
<1>6. ASSUME NEW q \in Call, Update(q) PROVE DecisionsAreEarned'
  <2>1. CASE table' = table BY <1>5, <2>1
  <2>2. CASE table' # table
    <3>1. Written(q) /\ table' \in Seq(RowRecord) /\ Len(table') = Len(table)
          /\ table \in Seq(RowRecord)
      BY <1>1, <1>6, <2>2, UpdateWrites DEF ReviewTypeOK
    <3>2. call[q] \in CallRecord /\ callPc'[q] \in {"ok", "error"} /\ call' = call
          /\ table[call[q].row].company = CompanyOf[call[q].admin]
      BY <1>6, UpdateWrites DEF Update
    <3>3. ASSUME NEW v \in DOMAIN table PROVE Right(v)'
      <4>1. CASE v = call[q].row
        <5> DEFINE a == call[q].admin  d == call[q].decision
        <5>1. call[q] = [admin |-> a, row |-> v, decision |-> d] BY <3>2, <4>1 DEF CallRecord
        <5>2. table'[v] = [company |-> table[v].company, by |-> table[v].by,
                           approval |-> d, approver |-> a]
          BY <3>1, <4>1 DEF Written
        <5>3. d # "pending" BY <3>2 DEF CallRecord, Decision
        <5>4. table'[v].company = table[v].company /\ table'[v].approval = d /\ table'[v].approver = a
          BY <5>2
        <5>5. CompanyOf[a] = table'[v].company BY <3>2, <4>1, <5>4
        <5> HIDE DEF a, d
        <5>6. call'[q] = [admin |-> a, row |-> v, decision |-> d] BY <3>2, <5>1
        <5>7. Earned(v, table[v].approval, table[v].approver)'
          BY <3>2, <5>4, <5>5, <5>6 DEF Earned
        <5> QED BY <5>3, <5>4, <5>7
      <4>2. CASE v # call[q].row
        <5>1. table'[v] = table[v] BY <3>1, <4>2 DEF Written
        <5> QED BY <1>3, <5>1
      <4> QED BY <4>1, <4>2
    <3>4. DOMAIN table' = DOMAIN table BY <3>1
    <3> QED BY <3>3, <3>4 DEF DecisionsAreEarned
  <2> QED BY <2>1, <2>2
<1>7. ASSUME NEW q \in Call, NEW a \in Admin, NEW v \in 0 .. Len(table), NEW d \in Decision,
             Approve(q, a, v, d)
      PROVE  DecisionsAreEarned'
  BY <1>5, <1>7 DEF Approve
<1>8. ASSUME NEW q \in Call, CheckCompany(q) PROVE DecisionsAreEarned'
  BY <1>5, <1>8 DEF CheckCompany
<1> QED BY <1>4, <1>6, <1>7, <1>8 DEF TableStep, Decide

(* A 200 is only answered when the row has been written. *)
LEMMA AckStep ==
    ASSUME ReviewAssumption, ReviewInv, TableStep
    PROVE  AckedIsDecided'
<1>1. ReviewTypeOK /\ AckedIsDecided BY DEF ReviewInv
<1>2. Kept BY TableStepKeeps
<1>3. ASSUME NEW p \in Call, callPc[p] = "ok"
      PROVE  call'[p].row \in DOMAIN table' /\ table'[call'[p].row].approval # "pending"
  BY <1>1, <1>2, <1>3 DEF AckedIsDecided, Kept
<1>4. ASSUME NEW p \in Call, callPc'[p] = "ok", callPc[p] # "ok"
      PROVE  Update(p)
  <2>1. ASSUME NEW q \in Call, Update(q) PROVE p = q BY <1>4, <2>1, UpdateWrites
  <2> QED BY <1>1, <1>4, <2>1
          DEF TableStep, Decide, CreateVerification, Approve, CheckCompany, Reached, ReviewTypeOK
<1>5. ASSUME NEW p \in Call, callPc'[p] = "ok", Update(p)
      PROVE  call'[p].row \in DOMAIN table' /\ table'[call'[p].row].approval # "pending"
  <2>1. call' = call /\ Written(p) /\ call[p] \in CallRecord /\ call[p].row \in DOMAIN table
    BY <1>5, UpdateWrites DEF Update
  <2>2. table'[call[p].row] = [company |-> table[call[p].row].company, by |-> table[call[p].row].by,
                               approval |-> call[p].decision, approver |-> call[p].admin]
    BY <2>1 DEF Written
  <2>3. call[p].decision # "pending" BY <2>1 DEF CallRecord, Decision
  <2> QED BY <1>2, <2>1, <2>2, <2>3 DEF Kept
<1> QED BY <1>3, <1>4, <1>5 DEF AckedIsDecided

(* An insert takes company and employee from one token, and nobody changes *)
(* them. *)
LEMMA RowStep ==
    ASSUME ReviewAssumption, ReviewInv, TableStep
    PROVE  RowInv'
<1>1. ReviewTypeOK /\ RowInv /\ table \in Seq(RowRecord) BY DEF ReviewInv, ReviewTypeOK
<1>2. Kept /\ ReviewTypeOK' /\ table' \in Seq(RowRecord) BY TableStepKeeps, TypeStep DEF ReviewTypeOK
<1>3. ASSUME NEW v \in DOMAIN table PROVE table'[v].company = CompanyOf[table'[v].by]
  BY <1>1, <1>2 DEF Kept, RowInv
<1>4. ASSUME NEW e \in Employee, CreateVerification(e) PROVE RowInv'
  <2>1. Len(table') = Len(table) + 1 /\ table'[Len(table')].company = CompanyOf[table'[Len(table')].by]
    BY <1>4, CreateKeeps
  <2>2. \A v \in DOMAIN table' : v \in DOMAIN table \/ v = Len(table') BY <1>1, <1>2, <2>1
  <2> QED BY <1>3, <2>1, <2>2 DEF RowInv
<1>5. ASSUME DOMAIN table' = DOMAIN table PROVE RowInv' BY <1>3, <1>5 DEF RowInv
<1>6. ASSUME NEW q \in Call, Update(q) PROVE DOMAIN table' = DOMAIN table
  BY <1>1, <1>6, UpdateWrites
<1> QED BY <1>4, <1>5, <1>6 DEF TableStep, Decide, Approve, CheckCompany

-----------------------------------------------------------------------------
(* An answer that is out stays right while the table moves on. *)
LEMMA ReplyStays ==
    ASSUME ReviewAssumption, ReviewInv, TableStep
    PROVE  RepliesAreOwn' /\ RepliesAreEarned'
<1>1. ReviewTypeOK /\ RepliesAreOwn /\ RepliesAreEarned BY DEF ReviewInv
<1>2. Kept BY TableStepKeeps
<1>3. reply' = reply
  BY DEF TableStep, Decide, CreateVerification, Approve, CheckCompany, Update
<1>4. ASSUME NEW l \in reply.lines
      PROVE  /\ l.row \in DOMAIN table'
             /\ table'[l.row].company = CompanyOf[reply.user]
             /\ reply.user \in Employee => table'[l.row].by = reply.user
             /\ l.approval # "pending" => Earned(l.row, l.approval, l.approver)'
             /\ reply.filter = "sheet" => l.approval = "approved"
  <2>1. l.row \in DOMAIN table BY <1>1 DEF RepliesAreOwn
  <2>2. /\ l.row \in DOMAIN table'
        /\ table'[l.row].company = CompanyOf[reply.user]
        /\ reply.user \in Employee => table'[l.row].by = reply.user
    BY <1>1, <1>2, <2>1 DEF RepliesAreOwn, Kept
  <2>3. ASSUME l.approval # "pending" PROVE Earned(l.row, l.approval, l.approver)'
    <3>1. Earned(l.row, l.approval, l.approver) BY <1>1, <2>3 DEF RepliesAreEarned
    <3> QED BY <1>2, <2>1, <3>1, EarnedIsKept
  <2> QED BY <1>1, <2>2, <2>3 DEF RepliesAreEarned
<1> QED BY <1>3, <1>4 DEF RepliesAreOwn, RepliesAreEarned

(* A line of an answer is right when it is made. *)
LEMMA LineIsRight ==
    ASSUME ReviewAssumption, ReviewInv, NEW v \in DOMAIN table
    PROVE  /\ LineOf(v) \in Line /\ LineOf(v).row = v
           /\ LineOf(v).approval = table[v].approval
           /\ table[v].approval # "pending" => Earned(v, LineOf(v).approval, LineOf(v).approver)
<1>1. table \in Seq(RowRecord) /\ DecisionsAreEarned BY DEF ReviewInv, ReviewTypeOK
<1>2. v \in Nat /\ table[v] \in RowRecord BY <1>1
<1>3. LineOf(v) \in Line BY <1>2 DEF LineOf, Line, RowRecord
<1>4. LineOf(v).row = v /\ LineOf(v).approval = table[v].approval /\ LineOf(v).approver = table[v].approver
  BY DEF LineOf
<1>5. table[v].approval # "pending" => Earned(v, table[v].approval, table[v].approver)
  BY <1>1 DEF DecisionsAreEarned
<1> QED BY <1>3, <1>4, <1>5

(* Each line of a list is one of a row that matches. *)
LEMMA ListingIsSelected ==
    ASSUME NEW u, NEW f, NEW l \in Listing(u, f)
    PROVE  \E v \in Selected(u, f) : l = LineOf(v)
  BY DEF Listing, Newest

LEMMA ListStep ==
    ASSUME ReviewAssumption, ReviewInv, NEW u \in Admin \cup Employee, NEW f \in Filter, List(u, f)
    PROVE  ReviewTypeOK' /\ RepliesAreOwn' /\ RepliesAreEarned'
<1>1. ReviewTypeOK /\ table \in Seq(RowRecord) BY DEF ReviewInv, ReviewTypeOK
<1>2. table' = table /\ call' = call /\ callPc' = callPc
      /\ reply' = [user |-> u, filter |-> f, lines |-> Listing(u, f)]
  BY DEF List
<1>3. ASSUME NEW l \in Listing(u, f)
      PROVE  /\ l \in Line /\ l.row \in DOMAIN table
             /\ table[l.row].company = CompanyOf[u]
             /\ u \in Employee => table[l.row].by = u
             /\ l.approval # "pending" => Earned(l.row, l.approval, l.approver)
  <2>1. PICK v \in Selected(u, f) : l = LineOf(v) BY ListingIsSelected
  <2>2. v \in DOMAIN table /\ Visible(u, v) BY DEF Selected
  <2>3. l \in Line /\ l.row = v
        /\ (l.approval # "pending" => Earned(l.row, l.approval, l.approver))
    BY <2>1, <2>2, LineIsRight
  <2>4. table[v].company = CompanyOf[u] /\ (u \in Employee => table[v].by = u)
    BY <2>2 DEF Visible, ReviewAssumption, ReviewInv, RowInv
  <2> QED BY <2>2, <2>3, <2>4
<1>4. f # "sheet" BY DEF Filter, Approval, Decision
<1>5. reply' \in Reply BY <1>2, <1>3 DEF Reply
<1>6. ReviewTypeOK' BY <1>1, <1>2, <1>5 DEF ReviewTypeOK
<1>7. \A l \in Listing(u, f) : Earned(l.row, l.approval, l.approver)' = Earned(l.row, l.approval, l.approver)
  BY <1>2 DEF Earned
<1>8. reply'.user = u /\ reply'.filter = f /\ reply'.lines = Listing(u, f) BY <1>2
<1>9. RepliesAreOwn' BY <1>2, <1>3, <1>8 DEF RepliesAreOwn
<1>10. RepliesAreEarned' BY <1>3, <1>4, <1>7, <1>8 DEF RepliesAreEarned
<1> QED BY <1>6, <1>9, <1>10

LEMMA ExportStep ==
    ASSUME ReviewAssumption, ReviewInv, NEW a \in Admin, Export(a)
    PROVE  ReviewTypeOK' /\ RepliesAreOwn' /\ RepliesAreEarned'
<1> DEFINE L == {LineOf(v) : v \in ApprovedForExport(a)}
<1>1. ReviewTypeOK /\ table \in Seq(RowRecord) BY DEF ReviewInv, ReviewTypeOK
<1>2. table' = table /\ call' = call /\ callPc' = callPc
      /\ reply' = [user |-> a, filter |-> "sheet", lines |-> L]
  BY DEF Export
<1>3. ASSUME NEW l \in L
      PROVE  /\ l \in Line /\ l.row \in DOMAIN table
             /\ table[l.row].company = CompanyOf[a]
             /\ l.approval = "approved"
             /\ Earned(l.row, l.approval, l.approver)
  <2>1. PICK v \in ApprovedForExport(a) : l = LineOf(v) OBVIOUS
  <2>2. v \in DOMAIN table /\ table[v].company = CompanyOf[a] /\ table[v].approval = "approved"
    BY DEF ApprovedForExport
  <2> QED BY <2>1, <2>2, LineIsRight
<1>4. a \notin Employee BY DEF ReviewAssumption
<1> HIDE DEF L
<1>5. reply' \in Reply BY <1>2, <1>3 DEF Reply
<1>6. ReviewTypeOK' BY <1>1, <1>2, <1>5 DEF ReviewTypeOK
<1>7. \A l \in L : Earned(l.row, l.approval, l.approver)' = Earned(l.row, l.approval, l.approver)
  BY <1>2 DEF Earned
<1>8. reply'.user = a /\ reply'.filter = "sheet" /\ reply'.lines = L BY <1>2
<1>9. RepliesAreOwn' BY <1>2, <1>3, <1>4, <1>8 DEF RepliesAreOwn
<1>10. RepliesAreEarned' BY <1>3, <1>7, <1>8 DEF RepliesAreEarned
<1> QED BY <1>6, <1>9, <1>10

-----------------------------------------------------------------------------
(* The table steps keep everything; the page of an admin relies on this.   *)
LEMMA TableStepInv ==
    ASSUME ReviewAssumption, ReviewInv, TableStep
    PROVE  ReviewInv'
  BY TypeStep, CallStep, RowStep, DecisionStep, AckStep, ReplyStays DEF ReviewInv

LEMMA ReadStepInv ==
    ASSUME ReviewAssumption, ReviewInv, UNCHANGED <<table, call, callPc>>,
           ReviewTypeOK', RepliesAreOwn', RepliesAreEarned'
    PROVE  ReviewInv'
  BY DEF ReviewInv, CallInv, RowInv, SameCompany, DecisionsAreEarned, Earned, AckedIsDecided

LEMMA ReviewStep ==
    ASSUME ReviewAssumption, ReviewInv, [ReviewNext]_reviewVars
    PROVE  ReviewInv'
<1>1. CASE TableStep BY <1>1, TableStepInv
<1>2. ASSUME NEW u \in Admin \cup Employee, NEW f \in Filter, List(u, f) PROVE ReviewInv'
  <2>1. UNCHANGED <<table, call, callPc>> BY <1>2 DEF List
  <2> QED BY <1>2, <2>1, ListStep, ReadStepInv
<1>3. ASSUME NEW a \in Admin, Export(a) PROVE ReviewInv'
  <2>1. UNCHANGED <<table, call, callPc>> BY <1>3 DEF Export
  <2> QED BY <1>3, <2>1, ExportStep, ReadStepInv
<1>4. CASE UNCHANGED reviewVars
  BY <1>4 DEF reviewVars, ReviewInv, ReviewTypeOK, CallInv, RowInv, SameCompany, DecisionsAreEarned,
              Earned, AckedIsDecided, RepliesAreOwn, RepliesAreEarned
<1> QED BY <1>1, <1>2, <1>3, <1>4 DEF ReviewNext, TableStep

(* The verifications table keeps its types and the inductive invariant,    *)
(* however calls, inserts, lists and exports interleave.                   *)
THEOREM ReviewSafe == ReviewSpec => []ReviewInv
<1>1. ReviewInit => ReviewInv BY ReviewAssumption, InitReview
<1>2. ReviewInv /\ [ReviewNext]_reviewVars => ReviewInv' BY ReviewAssumption, ReviewStep
<1> QED BY <1>1, <1>2, PTL DEF ReviewSpec

(* Decision and approver of a row come from one call of an admin of the    *)
(* row's company, for any number of concurrent calls (handlers.go:200).    *)
THEOREM EveryDecisionIsEarned == ReviewSpec => []DecisionsAreEarned
<1>1. ReviewInv => DecisionsAreEarned BY DEF ReviewInv
<1> QED BY <1>1, ReviewSafe, PTL

(* An answer 200 means that the row is decided and stays so                *)
(* (handlers.go:206-212).                                                  *)
THEOREM AcknowledgedStaysDecided == ReviewSpec => []AckedIsDecided
<1>1. ReviewInv => AckedIsDecided BY DEF ReviewInv
<1> QED BY <1>1, ReviewSafe, PTL

(* Lists and sheets stay within the company, and lists of an employee with *)
(* the employee (README.md:12).                                            *)
THEOREM RepliesStayOwn == ReviewSpec => []RepliesAreOwn
<1>1. ReviewInv => RepliesAreOwn BY DEF ReviewInv
<1> QED BY <1>1, ReviewSafe, PTL

(* A list or a sheet names no decision that was not made, and a sheet only *)
(* approvals (db/verifications.go:193-214).                                *)
THEOREM EveryReplyIsEarned == ReviewSpec => []RepliesAreEarned
<1>1. ReviewInv => RepliesAreEarned BY DEF ReviewInv
<1> QED BY <1>1, ReviewSafe, PTL

-----------------------------------------------------------------------------
(* The newest of some rows. *)
LEMMA GreatestRow ==
    ASSUME NEW m \in Nat, NEW S, S \subseteq 1 .. m, S # {}
    PROVE  \E v \in S : \A w \in S : w <= v
<1> DEFINE R == OpToRel(<, Nat)
           T == {m - v : v \in S}
<1>1. \A v \in S : v \in Nat /\ v <= m OBVIOUS
<1>2. T \subseteq Nat /\ T # {}
  <2>1. \A v \in S : m - v \in Nat BY <1>1
  <2> QED BY <2>1
<1>3. IsWellFoundedOn(R, Nat) BY NatLessThanWellFounded
<1>4. PICK x \in T : \A y \in T : ~ (<<y, x>> \in R)
  <2> HIDE DEF R, T
  <2> QED BY <1>2, <1>3, WFMin
<1>5. PICK v \in S : x = m - v OBVIOUS
<1>6. ASSUME NEW w \in S PROVE w <= v
  <2>1. m - w \in T /\ m - w \in Nat /\ x \in Nat BY <1>1, <1>2
  <2>2. ~ (m - w < x)
    <3>1. m - w < x => <<m - w, x>> \in R BY <2>1 DEF OpToRel
    <3> QED BY <1>4, <2>1, <3>1
  <2> QED BY <1>1, <1>5, <2>2
<1> QED BY <1>6

(* The oldest of some rows. *)
LEMMA LeastRow ==
    ASSUME NEW S, S \subseteq Nat, S # {}
    PROVE  \E v \in S : \A w \in S : v <= w
<1> DEFINE R == OpToRel(<, Nat)
<1>1. IsWellFoundedOn(R, Nat) BY NatLessThanWellFounded
<1>2. PICK x \in S : \A y \in S : ~ (<<y, x>> \in R)
  <2> HIDE DEF R
  <2> QED BY <1>1, WFMin
<1>3. ASSUME NEW w \in S PROVE x <= w
  <2>1. w \in Nat /\ x \in Nat OBVIOUS
  <2>2. w < x => <<w, x>> \in R BY <2>1 DEF OpToRel
  <2> HIDE DEF R
  <2>3. ~ (w < x) BY <1>2, <2>2
  <2> QED BY <2>1, <2>3
<1> QED BY <1>3

LEMMA RowsAreFinite ==
    ASSUME NEW m \in Nat, NEW S, S \subseteq 1 .. m
    PROVE  IsFiniteSet(S) /\ Cardinality(S) \in Nat
<1>1. IsFiniteSet(1 .. m) BY FS_Interval
<1>2. IsFiniteSet(S) BY <1>1, FS_Subset
<1> QED BY <1>2, FS_CardinalityType

(* A row that is not among the newest n is older than all of these, and    *)
(* they are n. *)
LEMMA NewestIsFull ==
    ASSUME NEW m \in Nat, NEW S, S \subseteq 1 .. m, NEW n \in Nat \ {0},
           NEW v \in S, v \notin Newest(S, n)
    PROVE  Cardinality(Newest(S, n)) = n /\ \A w \in Newest(S, n) : w > v
<1> DEFINE N == Newest(S, n)
           Above(x) == {w \in S : w > x}
<1>1. N \subseteq S /\ \A x \in S : x \in N <=> Cardinality(Above(x)) < n BY DEF Newest
<1>2. \A x \in S : x \in Nat OBVIOUS
<1>3. ASSUME NEW x \in S PROVE IsFiniteSet(Above(x)) /\ Cardinality(Above(x)) \in Nat
  <2>1. Above(x) \subseteq 1 .. m OBVIOUS
  <2> HIDE DEF Above
  <2> QED BY <2>1, RowsAreFinite
<1>4. ASSUME NEW x \in S \ N, NEW w \in N PROVE w > x
  <2>0. w \in S /\ x \in S /\ w \in Nat /\ x \in Nat
    <3> HIDE DEF N
    <3> QED BY <1>1, <1>2
  <2>1. SUFFICES ASSUME w <= x PROVE FALSE
    <3> HIDE DEF N
    <3> QED BY <2>0
  <2>2. Above(x) \subseteq Above(w)
    <3>1. \A y \in S : y > x => y > w BY <1>2, <2>0, <2>1
    <3> QED BY <3>1
  <2>3. IsFiniteSet(Above(w)) /\ Cardinality(Above(w)) \in Nat /\ Cardinality(Above(x)) \in Nat
    <3> HIDE DEF N, Above
    <3> QED BY <2>0, <1>3
  <2>4. Cardinality(Above(x)) <= Cardinality(Above(w))
    <3> HIDE DEF Above
    <3> QED BY <2>2, <2>3, FS_Subset
  <2>5. Cardinality(Above(w)) < n /\ ~ (Cardinality(Above(x)) < n) BY <1>1
  <2> HIDE DEF Above
  <2> QED BY <2>3, <2>4, <2>5
<1>5. PICK t \in S \ N : \A w \in S \ N : w <= t
  <2>1. S \ N \subseteq 1 .. m /\ S \ N # {} OBVIOUS
  <2> HIDE DEF N
  <2> QED BY <2>1, GreatestRow
<1>6. N = Above(t)
  <2>1. ASSUME NEW w \in Above(t) PROVE w \in N
    <3>1. w \in S /\ w > t OBVIOUS
    <3>2. ~ (w <= t) BY <1>2, <3>1
    <3> QED BY <1>5, <3>1, <3>2
  <2>2. ASSUME NEW w \in N PROVE w \in Above(t) BY <1>1, <1>4
  <2> QED BY <2>1, <2>2
<1>7. IsFiniteSet(N) /\ Cardinality(N) \in Nat /\ Cardinality(N) >= n
  <2>1. ~ (Cardinality(Above(t)) < n) BY <1>1
  <2>2. IsFiniteSet(Above(t)) /\ Cardinality(Above(t)) \in Nat BY <1>3
  <2> HIDE DEF N, Above
  <2> QED BY <1>6, <2>1, <2>2
<1>8. Cardinality(N) <= n
  <2>1. N # {}
    <3> HIDE DEF N
    <3> QED BY <1>7, FS_EmptySet
  <2>2. N \subseteq Nat BY <1>1, <1>2
  <2>3. PICK p \in N : \A w \in N : p <= w
    <3> HIDE DEF N
    <3> QED BY <2>1, <2>2, LeastRow
  <2>4. p \in S /\ p > t BY <1>1, <1>4
  <2>5. Above(p) = N \ {p}
    <3>1. ASSUME NEW w \in N, w # p PROVE w \in Above(p)
      <4>1. w \in S /\ p <= w BY <1>1, <2>3
      <4> QED BY <1>2, <2>4, <3>1, <4>1
    <3>2. ASSUME NEW w \in Above(p) PROVE w \in N \ {p}
      <4>1. w \in S /\ w > p OBVIOUS
      <4>2. w > t /\ w # p BY <1>2, <2>4, <4>1
      <4>3. w \in Above(t) BY <4>1, <4>2
      <4> HIDE DEF N, Above
      <4> QED BY <1>6, <4>2, <4>3
    <3> HIDE DEF N
    <3> QED BY <3>1, <3>2
  <2>6. Cardinality(Above(p)) < n BY <1>1, <2>4
  <2>7. Cardinality(N \ {p}) = Cardinality(N) - 1
    <3> HIDE DEF N
    <3> QED BY <1>7, FS_RemoveElement
  <2> HIDE DEF N, Above
  <2> QED BY <1>7, <2>5, <2>6, <2>7
<1>9. Cardinality(N) = n
  <2> HIDE DEF N
  <2> QED BY <1>7, <1>8
<1> QED BY <1>4, <1>9

(* Lines tell their rows apart. *)
LEMMA AsManyLines ==
    ASSUME NEW S, IsFiniteSet(S)
    PROVE  Cardinality({LineOf(v) : v \in S}) = Cardinality(S)
<1> DEFINE L == {LineOf(v) : v \in S}
           f == [v \in S |-> LineOf(v)]
<1>1. \A v \in S : LineOf(v).row = v BY DEF LineOf
<1>2. f \in [S -> L] OBVIOUS
<1>3. \A v, w \in S : f[v] = f[w] => v = w BY <1>1
<1>4. \A l \in L : \E v \in S : f[v] = l OBVIOUS
<1>5. ExistsBijection(S, L)
  <2> HIDE DEF f, L
  <2>1. f \in Bijection(S, L) BY <1>2, <1>3, <1>4, Fun_IsBij
  <2> QED BY <2>1, Fun_ExistsBij
<1>6. Cardinality(L) = Cardinality(S)
  <2> HIDE DEF L
  <2> QED BY <1>5, FS_Bijection
<1> QED BY <1>6

(* What a list leaves out is older than all it shows, and the list is full. *)
LEMMA ListingIsFull ==
    ASSUME ReviewAssumption, ReviewTypeOK, NEW u, NEW f, NEW v \in Selected(u, f)
    PROVE  \/ \E l \in Listing(u, f) : l.row = v
           \/ /\ Cardinality(Listing(u, f)) = ListLimit
              /\ \A l \in Listing(u, f) : l.row > v
<1> DEFINE S == Selected(u, f)
           N == Newest(S, ListLimit)
<1>1. table \in Seq(RowRecord) /\ Len(table) \in Nat /\ DOMAIN table = 1 .. Len(table)
  BY DEF ReviewTypeOK
<1>2. S \subseteq 1 .. Len(table) BY <1>1 DEF Selected
<1>3. ListLimit \in Nat \ {0} BY DEF ReviewAssumption
<1>4. Listing(u, f) = {LineOf(w) : w \in N} /\ N \subseteq S BY DEF Listing, Newest
<1>5. \A w \in N : LineOf(w).row = w BY DEF LineOf
<1>6. CASE v \in N BY <1>4, <1>5, <1>6
<1>7. CASE v \notin N
  <2>1. Cardinality(N) = ListLimit /\ \A w \in N : w > v
    <3>1. v \in S /\ v \notin Newest(S, ListLimit) BY <1>7
    <3> HIDE DEF S
    <3> QED BY <1>1, <1>2, <1>3, <3>1, NewestIsFull
  <2>2. IsFiniteSet(N)
    <3> HIDE DEF S, N
    <3> QED BY <1>1, <1>2, <1>4, RowsAreFinite
  <2>3. Cardinality(Listing(u, f)) = ListLimit
    <3> HIDE DEF N
    <3> QED BY <1>4, <2>1, <2>2, AsManyLines
  <2>4. \A l \in Listing(u, f) : l.row > v
    <3> HIDE DEF N
    <3> QED BY <1>4, <1>5, <2>1
  <2> QED BY <2>3, <2>4
<1> QED BY <1>6, <1>7

(* Lists are cut after the filter and only when they are full, for every   *)
(* limit, table and filter (db/verifications.go:104-128).                  *)
THEOREM ListsAreFull == ReviewSpec => CutOnlyWhenFull
<1> DEFINE Full ==
        \A u \in Admin \cup Employee, f \in Filter :
            reply' # reply /\ reply'.user = u /\ reply'.filter = f =>
                \A v \in Selected(u, f) :
                    \/ \E l \in reply'.lines : l.row = v
                    \/ /\ Cardinality(reply'.lines) = ListLimit
                       /\ \A l \in reply'.lines : l.row > v
<1>1. ReviewInv /\ [ReviewNext]_reviewVars => Full \/ UNCHANGED reviewVars
  <2> SUFFICES ASSUME ReviewInv, ReviewNext, reply' # reply PROVE Full BY DEF reviewVars
  <2>1. ~ TableStep BY DEF TableStep, Decide, CreateVerification, Approve, CheckCompany, Update
  <2>2. ASSUME NEW u \in Admin \cup Employee, NEW f \in Filter, List(u, f) PROVE Full
    <3>1. reply'.user = u /\ reply'.filter = f /\ reply'.lines = Listing(u, f) BY <2>2 DEF List
    <3>2. ASSUME NEW v \in Selected(u, f)
          PROVE  \/ \E l \in Listing(u, f) : l.row = v
                 \/ /\ Cardinality(Listing(u, f)) = ListLimit
                    /\ \A l \in Listing(u, f) : l.row > v
      BY ReviewAssumption, ListingIsFull DEF ReviewInv
    <3> QED BY <3>1, <3>2
  <2>3. ASSUME NEW a \in Admin, Export(a) PROVE Full
    <3>1. reply'.filter = "sheet" BY <2>3 DEF Export
    <3>2. "sheet" \notin Filter BY DEF Filter, Approval, Decision
    <3> QED BY <3>1, <3>2
  <2> QED BY <2>1, <2>2, <2>3 DEF ReviewNext, TableStep
<1>2. Full => [Full]_reviewVars OBVIOUS
<1> QED BY <1>1, ReviewSafe, PTL DEF ReviewSpec, CutOnlyWhenFull

-----------------------------------------------------------------------------
(* What the ledger of ApprovalLedger sees of a call: read, check and       *)
(* update are one open question to it.                                     *)
Seen(p) == IF p \in {"fetch", "update"} THEN "open" ELSE p

(* A call that goes on changes what the ledger sees of this call alone. *)
LEMMA SeenOf ==
    ASSUME ReviewTypeOK, NEW q \in Call, NEW p, callPc' = [callPc EXCEPT ![q] = p]
    PROVE  [x \in Call |-> Seen(callPc'[x])] = [[x \in Call |-> Seen(callPc[x])] EXCEPT ![q] = Seen(p)]
  BY DEF ReviewTypeOK

(* The check is nothing to the ledger, or a refusal, or an error. *)
LEMMA CheckRefines ==
    ASSUME ReviewAssumption, ReviewInv, NEW q \in Call, CheckCompany(q)
    PROVE  Approvals!Refuse(q) \/ Approvals!Fail(q) \/ UNCHANGED Approvals!approvalVars
<1>1. ReviewTypeOK /\ callPc[q] = "fetch" /\ table' = table /\ call' = call /\ table \in Seq(RowRecord)
  BY DEF ReviewInv, ReviewTypeOK, CheckCompany
<1>2. call[q].row \in 0 .. Len(table) BY <1>1 DEF ReviewInv, CallInv
<1>3. Seen(callPc[q]) = "open" BY <1>1 DEF Seen
<1>4. CASE Reached(q, "update")
  <2>1. [x \in Call |-> Seen(callPc'[x])] = [x \in Call |-> Seen(callPc[x])]
    BY <1>1, <1>4 DEF Reached, Seen, ReviewTypeOK
  <2> QED BY <1>1, <2>1 DEF Seen, Approvals!approvalVars
<1>5. CASE Reached(q, "refused") /\ ~ (call[q].row # 0 /\ SameCompany(q))
  <2>1. [x \in Call |-> Seen(callPc'[x])] = [[x \in Call |-> Seen(callPc[x])] EXCEPT ![q] = "refused"]
    BY <1>1, <1>5, SeenOf DEF Reached, Seen
  <2>2. ~ Approvals!MayDecide(q) BY <1>1, <1>2, <1>5 DEF Approvals!MayDecide, SameCompany
  <2> QED BY <1>1, <1>3, <2>1, <2>2 DEF Seen, Approvals!Refuse, Approvals!Answer
<1>6. CASE Reached(q, "error")
  <2>1. [x \in Call |-> Seen(callPc'[x])] = [[x \in Call |-> Seen(callPc[x])] EXCEPT ![q] = "error"]
    BY <1>1, <1>6, SeenOf DEF Reached, Seen
  <2> QED BY <1>1, <1>3, <2>1 DEF Seen, Approvals!Fail, Approvals!Answer
<1> QED BY <1>4, <1>5, <1>6 DEF CheckCompany

(* The update is the decision: what was checked before still holds.        *)
LEMMA UpdateRefines ==
    ASSUME ReviewAssumption, ReviewInv, NEW q \in Call, Update(q)
    PROVE  Approvals!Grant(q) \/ Approvals!Fail(q)
<1>1. ReviewTypeOK /\ callPc[q] = "update" /\ call' = call BY DEF ReviewInv, Update
<1>2. Approvals!MayDecide(q) BY UpdateWrites DEF Approvals!MayDecide
<1>3. ASSUME UpdateVerificationApproval(call[q].row, call[q].decision, call[q].admin)
      PROVE  Approvals!DecideRow(q)
  BY <1>3 DEF UpdateVerificationApproval, Approvals!DecideRow
<1>4. Seen(callPc[q]) = "open" BY <1>1 DEF Seen
<1>5. ASSUME NEW a \in {"ok", "error"}, Reached(q, a) PROVE Approvals!Answer(q, a)
  <2>1. [x \in Call |-> Seen(callPc'[x])] = [[x \in Call |-> Seen(callPc[x])] EXCEPT ![q] = a]
    BY <1>1, <1>5, SeenOf DEF Reached, Seen
  <2> QED BY <1>1, <1>4, <2>1 DEF Seen, Approvals!Answer
<1> QED BY <1>2, <1>3, <1>5 DEF Update, Approvals!Grant, Approvals!Fail

LEMMA ApprovalStep ==
    ASSUME ReviewAssumption, ReviewInv, [ReviewNext]_reviewVars
    PROVE  Approvals!ApprovalNext \/ UNCHANGED Approvals!approvalVars
<1>1. ReviewTypeOK BY DEF ReviewInv
<1>2. ASSUME NEW e \in Employee, CreateVerification(e) PROVE Approvals!Submit(e)
  BY <1>2 DEF CreateVerification, Approvals!Submit
<1>3. ASSUME NEW q \in Call, NEW a \in Admin, NEW v \in 0 .. Len(table), NEW d \in Decision,
             Approve(q, a, v, d)
      PROVE  Approvals!Ask(q, a, v, d)
  <2>1. callPc[q] = "idle" /\ callPc' = [callPc EXCEPT ![q] = "fetch"] BY <1>3 DEF Approve
  <2>2. [x \in Call |-> Seen(callPc'[x])] = [[x \in Call |-> Seen(callPc[x])] EXCEPT ![q] = "open"]
    BY <1>1, <2>1, SeenOf DEF Seen
  <2> QED BY <1>3, <2>1, <2>2 DEF Approve, Seen, Approvals!Ask
<1>4. ASSUME UNCHANGED <<table, call, callPc>> PROVE UNCHANGED Approvals!approvalVars
  BY <1>4 DEF Approvals!approvalVars
<1>5. ASSUME NEW u \in Admin \cup Employee, NEW f \in Filter, List(u, f)
      PROVE  UNCHANGED <<table, call, callPc>>
  BY <1>5 DEF List
<1>6. ASSUME NEW a \in Admin, Export(a) PROVE UNCHANGED <<table, call, callPc>> BY <1>6 DEF Export
<1>7. CASE UNCHANGED reviewVars BY <1>4, <1>7 DEF reviewVars
<1>8. CASE \E e \in Employee : CreateVerification(e) BY <1>2, <1>8 DEF Approvals!ApprovalNext
<1>9. CASE \E q \in Call, a \in Admin, v \in 0 .. Len(table), d \in Decision : Approve(q, a, v, d)
  BY <1>3, <1>9 DEF Approvals!ApprovalNext, Decision
<1>10. CASE \E q \in Call : Decide(q)
  BY <1>10, CheckRefines, UpdateRefines DEF Decide, Approvals!ApprovalNext
<1> QED BY <1>4, <1>5, <1>6, <1>7, <1>8, <1>9, <1>10 DEF ReviewNext

(* Deciding is atomic: read, check and update implement the ledger in      *)
(* which a decision is one step, for any number of concurrent calls        *)
(* (handlers.go:190-212).                                                  *)
THEOREM DecidingIsAtomic == ReviewSpec => ImplementsApprovals
<1>1. ReviewInit => Approvals!ApprovalInit BY DEF ReviewInit, NoCall, Approvals!ApprovalInit
<1>2. ReviewInv /\ [ReviewNext]_reviewVars => [Approvals!ApprovalNext]_Approvals!approvalVars
  BY ReviewAssumption, ApprovalStep
<1> QED BY <1>1, <1>2, ReviewSafe, PTL DEF ReviewSpec, ImplementsApprovals, Approvals!ApprovalSpec
=============================================================================
