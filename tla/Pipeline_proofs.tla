-------------------------- MODULE Pipeline_proofs --------------------------
(***************************************************************************)
(* Proofs about requests and worker together, for every number of          *)
(* requests, rows, codes, amounts, retries and attempts.                   *)
(***************************************************************************)
EXTENDS Pipeline, StampWorker_proofs

IInv == IssuanceTypeOK /\ WorkerIInv /\ RequestInv

-----------------------------------------------------------------------------
(* Steps of a request.                                                     *)
LEMMA IssueKeepsTypes ==
    ASSUME IssuanceTypeOK, RequestInv, NEW r \in Request, Issue(r)
    PROVE  IssuanceTypeOK'
<1> USE IssuanceAssumption, StoreAssumption
    DEF IssuanceTypeOK, StoreTypeOK, ReqPc, JobState
<1>1. ASSUME reqPc[r] = "insert", InsertErrored(r)
      PROVE  /\ tries' \in [Request -> 0 .. MaxTries]
             /\ reqPc' \in [Request -> ReqPc]
             /\ reqInv' \in [Request -> Invoice \cup {None}]
  <2>1. tries[r] < MaxTries /\ tries[r] + 1 \in 0 .. MaxTries
    BY <1>1 DEF RequestInv, HoldInv
  <2> QED BY <1>1, <2>1 DEF InsertErrored
<1>2. CASE Validate(r)
  BY <1>2 DEF Validate, storeVars
<1>3. CASE InsertRow(r)
  <2>1. PICK i \in Invoice, c \in Code :
            /\ status' = [status EXCEPT ![i] = "processing"]
            /\ refCode' = [refCode EXCEPT ![i] = c]
            /\ InsertAnswered(r, i) \/ InsertErrored(r)
    BY <1>3 DEF InsertRow, CreateInvoice
  <2>2. CASE InsertErrored(r)
    BY <1>1, <1>3, <2>1, <2>2 DEF InsertRow, CreateInvoice
  <2>3. CASE InsertAnswered(r, i)
    BY <1>3, <2>1, <2>3 DEF InsertRow, CreateInvoice, InsertAnswered
  <2> QED BY <2>1, <2>2, <2>3
<1>4. CASE InsertRefused(r)
  BY <1>1, <1>4 DEF InsertRefused, storeVars
<1>5. CASE NoCode(r)
  BY <1>5 DEF NoCode, GiveUp, storeVars
<1>6. CASE PutRaw(r)
  <2>1. reqInv[r] \in Invoice
    BY <1>6 DEF PutRaw, RequestInv, HoldInv
  <2> QED BY <1>6, <2>1 DEF PutRaw, GiveUp
<1>7. CASE EnqueueJob(r)
  <2>1. reqInv[r] \in Invoice
    BY <1>7 DEF EnqueueJob, RequestInv, HoldInv
  <2>2. job' \in [Invoice -> JobState]
    BY <1>7, <2>1 DEF EnqueueJob
  <2>3. reqPc' \in [Request -> ReqPc]
    <3>1. reqPc' = [reqPc EXCEPT ![r] = "acked"] \/ reqPc' = [reqPc EXCEPT ![r] = "failed"]
      BY <1>7 DEF EnqueueJob, GiveUp
    <3>2. reqPc \in [Request -> ReqPc]
      OBVIOUS
    <3> QED BY <3>1, <3>2
  <2> QED BY <1>7, <2>2, <2>3 DEF EnqueueJob
<1> QED BY <1>2, <1>3, <1>4, <1>5, <1>6, <1>7 DEF Issue

(* A step of one request keeps what the others, and the rows, rely on: a   *)
(* row belongs to one request, and only its own request queues its job.    *)
LEMMA IssueKeepsHolds ==
    ASSUME IssuanceTypeOK, RequestInv, NEW r \in Request, Issue(r), NEW s \in Request
    PROVE  HoldInv(s)'
<1> USE IssuanceAssumption, StoreAssumption
    DEF IssuanceTypeOK, StoreTypeOK, ReqPc, JobState
<1>0. HoldInv(r) /\ HoldInv(s) /\ (reqInv[r] # None /\ reqInv[s] = reqInv[r] => r = s)
  BY DEF RequestInv, CodeLeadsToOneRequest
<1>2. CASE Validate(r)
  BY <1>0, <1>2 DEF Validate, storeVars, HoldInv
<1>3. CASE InsertRow(r)
  <2>1. PICK i \in Invoice, c \in Code :
            /\ status[i] = "absent" /\ amount[r] <= Int4Max
            /\ status' = [status EXCEPT ![i] = "processing"]
            /\ refCode' = [refCode EXCEPT ![i] = c]
            /\ InsertAnswered(r, i) \/ InsertErrored(r)
    BY <1>3 DEF InsertRow, CreateInvoice
  <2>0. HeldInv(i)
    BY DEF RequestInv
  <2>2. CASE InsertErrored(r)
    <3>1. /\ reqPc[r] = "insert" /\ UNCHANGED <<raw, job, amount, reqInv>>
          /\ tries' = [tries EXCEPT ![r] = @ + 1]
          /\ reqPc' = [reqPc EXCEPT ![r] = IF tries'[r] < MaxTries THEN @ ELSE "failed"]
      BY <1>3, <2>2 DEF InsertRow, InsertErrored
    <3>2. CASE s = r
      BY <1>0, <3>1, <3>2 DEF HoldInv
    <3>3. CASE s # r
      BY <1>0, <2>1, <3>1, <3>3 DEF HoldInv
    <3> QED BY <3>2, <3>3
  <2>3. CASE InsertAnswered(r, i)
    <3>1. /\ reqPc[r] = "insert" /\ UNCHANGED <<raw, job, amount, tries>>
          /\ reqPc' = [reqPc EXCEPT ![r] = "put"] /\ reqInv' = [reqInv EXCEPT ![r] = i]
      BY <1>3, <2>3 DEF InsertRow, InsertAnswered
    <3>2. job[i] = "none"
      BY <2>0, <2>1 DEF HeldInv
    <3>3. CASE s = r
      BY <1>0, <2>1, <3>1, <3>2, <3>3 DEF HoldInv
    <3>4. CASE s # r
      BY <1>0, <2>1, <3>1, <3>4 DEF HoldInv
    <3> QED BY <3>3, <3>4
  <2> QED BY <2>1, <2>2, <2>3
<1>4. CASE InsertRefused(r)
  BY <1>0, <1>4 DEF InsertRefused, InsertErrored, storeVars, HoldInv
<1>5. CASE NoCode(r)
  BY <1>0, <1>5 DEF NoCode, GiveUp, storeVars, HoldInv
<1>6. CASE PutRaw(r)
  <2>1. /\ reqPc[r] = "put" /\ raw \subseteq raw'
        /\ UNCHANGED <<status, job, amount, reqInv, tries>>
    BY <1>6 DEF PutRaw
  <2>2. \/ reqPc' = [reqPc EXCEPT ![r] = "enqueue"] /\ reqInv[r] \in raw'
        \/ reqPc' = [reqPc EXCEPT ![r] = "failed"]
    BY <1>6 DEF PutRaw, GiveUp
  <2>3. CASE s = r
    BY <1>0, <2>1, <2>2, <2>3 DEF HoldInv
  <2>4. CASE s # r
    BY <1>0, <2>1, <2>2, <2>4 DEF HoldInv
  <2> QED BY <2>3, <2>4
<1>7. CASE EnqueueJob(r)
  <2>1. /\ reqPc[r] = "enqueue" /\ reqInv[r] \in Invoice
        /\ UNCHANGED <<status, raw, amount, reqInv, tries>>
    BY <1>0, <1>7 DEF EnqueueJob, HoldInv
  <2>2. \/ reqPc' = [reqPc EXCEPT ![r] = "acked"] /\ job'[reqInv[r]] = "available"
        \/ reqPc' = [reqPc EXCEPT ![r] = "failed"]
    BY <1>7, <2>1 DEF EnqueueJob, GiveUp
  <2>3. \A i \in Invoice \ {reqInv[r]} : job'[i] = job[i]
    BY <1>7 DEF EnqueueJob
  <2>4. CASE s = r
    BY <1>0, <2>1, <2>2, <2>4 DEF HoldInv
  <2>5. CASE s # r
    BY <1>0, <2>1, <2>2, <2>3, <2>5 DEF HoldInv
  <2> QED BY <2>4, <2>5
<1> QED BY <1>2, <1>3, <1>4, <1>5, <1>6, <1>7 DEF Issue

LEMMA IssueKeepsRows ==
    ASSUME IssuanceTypeOK, RequestInv, NEW r \in Request, Issue(r)
    PROVE  (\A i \in Invoice : HeldInv(i)') /\ CodeLeadsToOneRequest'
<1> USE IssuanceAssumption, StoreAssumption
    DEF IssuanceTypeOK, StoreTypeOK, ReqPc, JobState
<1>0. HoldInv(r) /\ CodeLeadsToOneRequest /\ \A i \in Invoice : HeldInv(i)
  BY DEF RequestInv
<1>2. CASE Validate(r)
  BY <1>0, <1>2 DEF Validate, storeVars, HeldInv, CodeLeadsToOneRequest
<1>3. CASE InsertRow(r)
  <2>1. PICK i \in Invoice, c \in Code :
            /\ status[i] = "absent" /\ CodeFree(c)
            /\ status' = [status EXCEPT ![i] = "processing"]
            /\ refCode' = [refCode EXCEPT ![i] = c]
            /\ InsertAnswered(r, i) \/ InsertErrored(r)
    BY <1>3 DEF InsertRow, CreateInvoice
  <2>2. \A s \in Request : reqInv[s] # i
    BY <2>1 DEF RequestInv, HoldInv
  <2>3. \A s \in Request : reqInv'[s] = reqInv[s] \/ (s = r /\ reqInv'[s] = i)
    BY <2>1 DEF InsertAnswered, InsertErrored
  <2>4. i \notin raw /\ job[i] = "none"
    BY <1>0, <2>1, <2>2 DEF HeldInv
  <2>5. ASSUME NEW j \in Invoice PROVE HeldInv(j)'
    <3>1. raw' = raw /\ job' = job
      BY <1>3 DEF InsertRow, CreateInvoice
    <3>2. j \in raw => \E s \in Request : reqInv'[s] = j
      <4>1. reqInv[r] = None
        BY <1>0, <1>3 DEF HoldInv, InsertRow
      <4>2. SUFFICES ASSUME j \in raw PROVE \E s \in Request : reqInv'[s] = j
        OBVIOUS
      <4>3. PICK s \in Request : reqInv[s] = j
        BY <1>0, <4>2 DEF HeldInv
      <4> QED BY <2>3, <4>1, <4>3
    <3>3. status'[j] # "absent" <=> refCode'[j] # None
      BY <1>0, <2>1 DEF HeldInv
    <3>4. job[j] # "none" => status'[j] # "absent" /\ j \in raw
      BY <1>0, <2>1 DEF HeldInv
    <3> QED BY <3>1, <3>2, <3>3, <3>4 DEF HeldInv
  <2>6. CodeLeadsToOneRequest'
    <3>1. ASSUME NEW j \in Invoice, NEW k \in Invoice,
                 refCode'[j] = refCode'[k], refCode'[j] # None
          PROVE  j = k
      BY <1>0, <2>1, <3>1 DEF CodeLeadsToOneRequest, CodeFree
    <3>2. ASSUME NEW s \in Request, NEW t \in Request,
                 reqInv'[s] = reqInv'[t], reqInv'[s] # None
          PROVE  s = t
      BY <1>0, <2>2, <2>3, <3>2 DEF CodeLeadsToOneRequest
    <3> QED BY <3>1, <3>2 DEF CodeLeadsToOneRequest
  <2> QED BY <2>5, <2>6
<1>4. CASE InsertRefused(r)
  BY <1>0, <1>4
     DEF InsertRefused, InsertErrored, storeVars, HeldInv, CodeLeadsToOneRequest
<1>5. CASE NoCode(r)
  BY <1>0, <1>5 DEF NoCode, storeVars, HeldInv, CodeLeadsToOneRequest
<1>6. CASE PutRaw(r)
  BY <1>0, <1>6 DEF PutRaw, HeldInv, CodeLeadsToOneRequest
<1>7. CASE EnqueueJob(r)
  BY <1>0, <1>7 DEF EnqueueJob, GiveUp, HoldInv, HeldInv, CodeLeadsToOneRequest
<1> QED BY <1>2, <1>3, <1>4, <1>5, <1>6, <1>7 DEF Issue

(* Issuing does not disturb the worker: it adds rows nobody works on yet   *)
(* and queues jobs that have not been started.                             *)
LEMMA IssueKeepsWorker ==
    ASSUME IInv, NEW r \in Request, Issue(r), UNCHANGED workVars
    PROVE  WorkerInv'
<1> SUFFICES ASSUME NEW i \in Invoice PROVE OneInvoice(i)'
  BY DEF WorkerInv, OneInvoice
<1> USE IssuanceAssumption DEF IInv, IssuanceTypeOK, StoreTypeOK, ReqPc, JobState
<1>0. OneInvoice(i) /\ HoldInv(r) /\ HeldInv(i)
  BY DEF WorkerIInv, WorkerInv, OneInvoice, RequestInv
<1>1. v1' = v1 /\ versions' = versions /\ attempt' = attempt /\ pc' = pc /\ made' = made
  BY DEF Issue, Validate, InsertRow, CreateInvoice, InsertRefused, NoCode, PutRaw,
       EnqueueJob,
         storeVars, workVars
<1>2. i \in raw => i \in raw'
  BY DEF Issue, Validate, InsertRow, CreateInvoice, InsertRefused, NoCode, PutRaw,
       EnqueueJob, storeVars
<1>3. status'[i] = status[i] \/ (status[i] = "absent" /\ status'[i] = "processing")
  BY DEF Issue, Validate, InsertRow, CreateInvoice, InsertRefused, NoCode, PutRaw,
       EnqueueJob, storeVars
<1>4. job'[i] = job[i] \/ (/\ job[i] = "none" /\ job'[i] = "available"
                           /\ status[i] # "absent" /\ i \in raw)
  BY <1>0 DEF Issue, Validate, InsertRow, CreateInvoice, InsertRefused, NoCode, PutRaw,
       EnqueueJob,
              storeVars, HoldInv
<1> QED
  BY <1>0, <1>1, <1>2, <1>3, <1>4 DEF OneInvoice, JobInv, ProgressInv, RecordInv, Last

LEMMA IssueKeepsIInv ==
    ASSUME IInv, IssuanceNext, UNCHANGED workVars
    PROVE  IInv'
<1>1. PICK r \in Request : Issue(r)
  BY DEF IssuanceNext
<1>2. IssuanceTypeOK' /\ RequestInv'
  BY <1>1, IssueKeepsTypes, IssueKeepsHolds, IssueKeepsRows DEF IInv, RequestInv
<1>3. StoreTypeOK' /\ WorkTypeOK'
  BY <1>2 DEF IInv, IssuanceTypeOK, WorkerIInv, WorkTypeOK, workVars
<1> QED BY <1>1, <1>2, <1>3, IssueKeepsWorker DEF IInv, WorkerIInv

-----------------------------------------------------------------------------
(* No step of the worker adds a row or a job.                              *)
LEMMA WorkerKeepsRows ==
    ASSUME IInv, WorkerNext, NEW i \in Invoice
    PROVE  /\ (job[i] = "none") = (job'[i] = "none")
           /\ (status[i] = "absent") = (status'[i] = "absent")
<1> USE DEF IInv, IssuanceTypeOK, StoreTypeOK, JobState
<1> /\ job \in [Invoice -> JobState]
    /\ status \in [Invoice -> {"absent", "processing", "ready"}]
    /\ \A j \in Invoice : JobInv(j)
  BY DEF WorkerIInv, WorkerInv
<1> USE DEF JobInv
<1>1. CASE \E j \in Invoice : Start(j)
  BY <1>1 DEF Start, storeVars
<1>2. CASE \E j \in Invoice : Rescue(j)
  BY <1>2 DEF Rescue, Unsuccessful, storeVars
<1>3. CASE Crash
  BY <1>3 DEF Crash, storeVars
<1>4. CASE \E j \in Invoice : Work(j)
  <2>1. PICK j \in Invoice : Work(j)
    BY <1>4
  <2>2. job[j] = "running"
    BY <2>1 DEF Work, Fetch, PutStamped, InsertVersion, FlipReady, Complete
  <2>3. \/ job' = job
        \/ \E b \in {"retryable", "discarded", "completed"} : job' = [job EXCEPT ![j] = b]
    <3>1. CASE Complete(j)
      BY <3>1 DEF Complete
    <3>2. CASE Fetch(j) \/ PutStamped(j) \/ InsertVersion(j) \/ FlipReady(j)
      BY <3>2 DEF Fetch, PutStamped, InsertVersion, FlipReady, GoOn, Return, Unsuccessful
    <3> QED BY <2>1, <3>1, <3>2 DEF Work
  <2>4. status' = status \/ status' = [status EXCEPT ![j] = "ready"]
    BY <2>1 DEF Work, Fetch, PutStamped, InsertVersion, FlipReady, UpdateInvoiceStatus,
                Complete
  <2> QED BY <2>2, <2>3, <2>4
<1> QED BY <1>1, <1>2, <1>3, <1>4 DEF WorkerNext

(* Steps of the worker: a job it takes from the queue is one a request has *)
(* put there, and it never goes back to "none".                            *)
LEMMA WorkerKeepsRequests ==
    ASSUME IInv, WorkerNext, UNCHANGED reqVars
    PROVE  IssuanceTypeOK' /\ RequestInv'
<1> USE DEF IInv, IssuanceTypeOK, StoreTypeOK, JobState
<1>1. /\ raw' = raw /\ refCode' = refCode
      /\ amount' = amount /\ reqPc' = reqPc /\ reqInv' = reqInv /\ tries' = tries
  BY DEF WorkerNext, Start, Work, Fetch, StampPDF, PutStamped, InsertVersion,
       CreateInvoiceVersion, FlipReady, UpdateInvoiceStatus, Complete,
         Crash, Rescue, storeVars, reqVars
<1>2. ASSUME NEW i \in Invoice
      PROVE  /\ (job[i] = "none") = (job'[i] = "none")
             /\ (status[i] = "absent") = (status'[i] = "absent")
  BY WorkerKeepsRows
<1>3. IssuanceTypeOK'
  BY <1>1, WorkerKeepsTypes
<1>4. RequestInv'
  BY <1>1, <1>2 DEF RequestInv, HoldInv, HeldInv, CodeLeadsToOneRequest
<1> QED BY <1>3, <1>4

LEMMA StepKeepsIInv == IInv /\ [Next]_vars => IInv'
<1> SUFFICES ASSUME IInv, [Next]_vars PROVE IInv'
  OBVIOUS
<1>1. CASE IssuanceNext /\ UNCHANGED workVars
  BY <1>1, IssueKeepsIInv
<1>2. CASE WorkerNext /\ UNCHANGED reqVars
  BY <1>2, WorkerKeepsRequests, WorkerKeepsInv DEF IInv
<1>3. CASE UNCHANGED vars
  <2>1. WorkerIInv'
    BY <1>3, WorkerStutters DEF IInv, vars, workerVars
  <2>2. IssuanceTypeOK' /\ RequestInv'
    BY <1>3 DEF IInv, vars, storeVars, reqVars, IssuanceTypeOK, StoreTypeOK, RequestInv,
                HoldInv, HeldInv, CodeLeadsToOneRequest
  <2> QED BY <2>1, <2>2 DEF IInv
<1> QED BY <1>1, <1>2, <1>3 DEF Next

LEMMA InitIInv == Init => IInv
<1> SUFFICES ASSUME Init PROVE IInv
  OBVIOUS
<1> USE StoreAssumption, IssuanceAssumption
    DEF Init, IssuanceInit, StoreInit, ReqInit, WorkInit
<1>1. IssuanceTypeOK /\ WorkTypeOK
  BY DEF IssuanceTypeOK, StoreTypeOK, WorkTypeOK, JobState, ReqPc, WorkPc
<1>2. RequestInv
  BY DEF RequestInv, HoldInv, HeldInv, CodeLeadsToOneRequest
<1>3. ASSUME NEW i \in Invoice PROVE OneInvoice(i)
  <2>1. Len(versions[i]) = 0 /\ versions[i] = <<>>
    OBVIOUS
  <2> QED BY <1>1, <2>1 DEF OneInvoice, JobInv, ProgressInv, RecordInv
<1> QED BY <1>1, <1>2, <1>3 DEF IInv, WorkerIInv, WorkerInv, OneInvoice, IssuanceTypeOK

-----------------------------------------------------------------------------
(* The pipeline keeps its types.                                           *)
THEOREM PipelineTypes == Spec => []TypeOK
<1>1. IInv => TypeOK
  BY DEF IInv, TypeOK, WorkerIInv
<1> QED BY InitIInv, StepKeepsIInv, <1>1, PTL DEF Spec

(* Requests and worker together keep the inductive invariant.              *)
THEOREM PipelineSafe == Spec => []PipelineInv
<1>1. IInv => PipelineInv
  BY DEF IInv, PipelineInv, WorkerIInv
<1> QED BY InitIInv, StepKeepsIInv, <1>1, PTL DEF Spec

(* The 202 of a create request holds for ever after (invoice.go:94-113).   *)
THEOREM AckIsKept == Spec => []AckedIsQueued
<1>1. IInv => AckedIsQueued
  <2> SUFFICES ASSUME IInv, NEW r \in Request, reqPc[r] = "acked"
               PROVE  /\ reqInv[r] \in raw
                      /\ status[reqInv[r]] # "absent" /\ job[reqInv[r]] # "none"
    BY DEF AckedIsQueued
  <2>1. HoldInv(r) /\ reqInv[r] \in Invoice
    BY DEF IInv, RequestInv, HoldInv, IssuanceTypeOK
  <2>2. HeldInv(reqInv[r])
    BY <2>1 DEF IInv, RequestInv
  <2> QED BY <2>1, <2>2 DEF HoldInv, HeldInv
<1> QED BY InitIInv, StepKeepsIInv, <1>1, PTL DEF Spec

(* A row whose insert was retried is never stamped (invoice.go:68-89).     *)
THEOREM OrphansStayInert == Spec => []OrphanIsInert
<1>1. IInv => OrphanIsInert
  BY DEF IInv, RequestInv, HeldInv, OrphanIsInert, Orphan
<1> QED BY InitIInv, StepKeepsIInv, <1>1, PTL DEF Spec

(* Whatever the requests do, a ready invoice can be served and verified    *)
(* (handlers.go:158-187).                                                  *)
THEOREM PipelineServes == Spec => []ReadyIsComplete
<1>1. IInv => ReadyIsComplete
  BY InvImpliesProperties DEF IInv
<1> QED BY InitIInv, StepKeepsIInv, <1>1, PTL DEF Spec

(* A job River calls completed left the served file recorded last.         *)
THEOREM PipelineCompletes == Spec => []CompletedServesRecorded
<1>1. IInv => CompletedServesRecorded
  BY InvImpliesProperties DEF IInv
<1> QED BY InitIInv, StepKeepsIInv, <1>1, PTL DEF Spec

(* An invoice of one attempt has one record, the served file's.            *)
THEOREM OneAttemptOneRecord == Spec => []FirstAttemptIsExact
<1>1. IInv => FirstAttemptIsExact
  BY InvImpliesProperties DEF IInv
<1> QED BY InitIInv, StepKeepsIInv, <1>1, PTL DEF Spec

(* Charging rows to turns: with more turns to choose from an injection is  *)
(* still one, and a new row may be charged to a turn that was not there.   *)
LEMMA MoreToChargeTo ==
    ASSUME NEW S, NEW T, NEW U, T \subseteq U, ExistsInjection(S, T)
    PROVE  ExistsInjection(S, U)
<1>1. PICK f \in [S -> T] : IsInjective(f)
  BY DEF ExistsInjection, Injection
<1>2. f \in [S -> U]
  OBVIOUS
<1> QED BY <1>1, <1>2 DEF ExistsInjection, Injection

LEMMA OneMoreToCharge ==
    ASSUME NEW S, NEW T, NEW U, NEW i, NEW t, T \subseteq U, t \in U \ T, i \notin S,
           ExistsInjection(S, T)
    PROVE  ExistsInjection(S \cup {i}, U)
<1>1. PICK f \in [S -> T] : IsInjective(f)
  BY DEF ExistsInjection, Injection
<1> DEFINE g == [j \in S \cup {i} |-> IF j = i THEN t ELSE f[j]]
<1>2. g \in [S \cup {i} -> U]
  OBVIOUS
<1>3. ASSUME NEW j \in S \cup {i}, NEW k \in S \cup {i}, g[j] = g[k]
      PROVE  j = k
  <2>1. CASE j \in S /\ k \in S
    BY <1>1, <1>3, <2>1 DEF IsInjective
  <2>2. CASE j = i \/ k = i
    BY <1>3, <2>2
  <2> QED BY <2>1, <2>2
<1>4. IsInjective(g)
  BY <1>3 DEF IsInjective
<1> QED BY <1>2, <1>4 DEF ExistsInjection, Injection

(* Turns are only added, and none that is charged is lost: a turn that has *)
(* a row is over, or it is the one its request stopped at.                 *)
LEMMA TurnsAreKept ==
    ASSUME IssuanceTypeOK, RequestInv, NEW r \in Request, Issue(r)
    PROVE  InsertTurns \subseteq InsertTurns'
<1> USE IssuanceAssumption DEF IssuanceTypeOK
<1>1. HoldInv(r) /\ amount' = amount
  BY DEF RequestInv, Issue, Validate, InsertRow, InsertRefused, NoCode, PutRaw, EnqueueJob
<1>2. ASSUME NEW s \in Request
      PROVE  \/ tries'[s] = tries[s] /\ reqInv'[s] = reqInv[s]
             \/ reqInv[s] = None /\ tries'[s] = tries[s]
             \/ reqInv[s] = None /\ tries'[s] = tries[s] + 1
  <2>1. CASE InsertRow(r) \/ InsertRefused(r)
    <3>1. reqInv[r] = None
      BY <1>1, <2>1 DEF HoldInv, InsertRow, InsertRefused
    <3>2. (\E i \in Invoice : InsertAnswered(r, i)) \/ InsertErrored(r)
      BY <2>1 DEF InsertRow, InsertRefused
    <3>3. ASSUME NEW i \in Invoice, InsertAnswered(r, i)
          PROVE  tries' = tries /\ \A q \in Request \ {r} : reqInv'[q] = reqInv[q]
      BY <3>3 DEF InsertAnswered
    <3>4. CASE InsertErrored(r)
      BY <3>1, <3>4 DEF InsertErrored
    <3> QED BY <3>1, <3>2, <3>3, <3>4
  <2>2. CASE Validate(r) \/ NoCode(r) \/ PutRaw(r) \/ EnqueueJob(r)
    BY <2>2 DEF Validate, NoCode, PutRaw, EnqueueJob
  <2> QED BY <2>1, <2>2 DEF Issue
<1>3. ASSUME NEW s \in Request, NEW k \in 0 .. MaxTries - 1, Took(s, k) PROVE Took(s, k)'
  <2>1. Acceptable(s)' = Acceptable(s)
    BY <1>1 DEF Acceptable
  <2>2. tries[s] \in Nat
    OBVIOUS
  <2> QED BY <1>2, <1>3, <2>1, <2>2 DEF Took
<1> QED BY <1>3 DEF InsertTurns

LEMMA StepCharges == IInv /\ RowsAreChargedToTurns /\ [Next]_vars => RowsAreChargedToTurns'
<1> SUFFICES ASSUME IInv, RowsAreChargedToTurns, [Next]_vars PROVE RowsAreChargedToTurns'
  OBVIOUS
<1> USE IssuanceAssumption
<1>1. ASSUME Rows' = Rows, InsertTurns \subseteq InsertTurns' PROVE RowsAreChargedToTurns'
  BY <1>1, MoreToChargeTo DEF RowsAreChargedToTurns
<1>2. ASSUME NEW r \in Request, InsertRow(r) PROVE RowsAreChargedToTurns'
  <2>1. PICK i \in Invoice, c \in Code :
            /\ amount[r] <= Int4Max /\ status[i] = "absent"
            /\ status' = [status EXCEPT ![i] = "processing"]
            /\ InsertAnswered(r, i) \/ InsertErrored(r)
    BY <1>2 DEF InsertRow, CreateInvoice
  <2>2. Rows' = Rows \cup {i} /\ i \notin Rows
    BY <2>1 DEF Rows, IInv, IssuanceTypeOK, StoreTypeOK
  <2>3. InsertTurns \subseteq InsertTurns'
    BY <1>2, TurnsAreKept DEF IInv, Issue
  <2>4. /\ reqPc[r] = "insert" /\ amount' = amount
        /\ reqInv[r] = None /\ 0 < amount[r] /\ tries[r] < MaxTries /\ tries[r] \in Nat
    BY <1>2 DEF InsertRow, IInv, RequestInv, HoldInv, IssuanceTypeOK
  <2>5. Acceptable(r) /\ Acceptable(r)' /\ tries[r] \in 0 .. MaxTries - 1
    BY <2>1, <2>4 DEF Acceptable
  <2>6. ~ Took(r, tries[r])
    BY <2>4 DEF Took
  <2>7. tries[r] < tries'[r] \/ (tries[r] = tries'[r] /\ reqInv'[r] # None)
    <3>1. CASE InsertAnswered(r, i)
      BY <3>1, StoreAssumption DEF InsertAnswered, IInv, IssuanceTypeOK
    <3>2. CASE InsertErrored(r)
      BY <2>4, <3>2 DEF InsertErrored, IInv, IssuanceTypeOK
    <3> QED BY <2>1, <3>1, <3>2
  <2>8. <<r, tries[r]>> \in InsertTurns' \ InsertTurns
    BY <2>5, <2>6, <2>7 DEF InsertTurns, Took
  <2> QED BY <2>2, <2>3, <2>8, OneMoreToCharge DEF RowsAreChargedToTurns
<1>3. ASSUME NEW r \in Request, Issue(r), ~ InsertRow(r) PROVE RowsAreChargedToTurns'
  <2>1. status' = status
    BY <1>3 DEF Issue, Validate, InsertRefused, NoCode, PutRaw, EnqueueJob, storeVars
  <2> QED BY <1>1, <1>3, <2>1, TurnsAreKept DEF IInv, Rows
<1>4. CASE WorkerNext /\ UNCHANGED reqVars
  <2>1. \A i \in Invoice : (status[i] = "absent") = (status'[i] = "absent")
    BY <1>4, WorkerKeepsRows
  <2> QED BY <1>1, <1>4, <2>1 DEF Rows, InsertTurns, Took, Acceptable, reqVars
<1>5. CASE UNCHANGED vars
  BY <1>1, <1>5 DEF vars, storeVars, reqVars, Rows, InsertTurns, Took, Acceptable
<1> QED BY <1>2, <1>3, <1>4, <1>5 DEF Next, IssuanceNext

(* Each row of the table, lost ones included, has a turn of a loop whose   *)
(* amount form and column accept: MaxTries rows for a request at most, and *)
(* none for one that is refused (RowsAreChargedToTurns).                   *)
THEOREM RowsAreAccountedFor == Spec => []RowsAreChargedToTurns
<1>1. Init => RowsAreChargedToTurns
  <2> SUFFICES ASSUME Init PROVE ExistsInjection(Rows, InsertTurns)
    BY DEF RowsAreChargedToTurns
  <2>1. Rows = {}
    BY DEF Init, IssuanceInit, StoreInit, Rows
  <2> DEFINE f == [i \in {} |-> i]
  <2>2. f \in [Rows -> InsertTurns] /\ IsInjective(f)
    BY <2>1 DEF IsInjective
  <2> QED BY <2>2 DEF ExistsInjection, Injection
<1> QED BY InitIInv, StepKeepsIInv, StepCharges, <1>1, PTL DEF Spec

(* An invoice that stays in processing has a reason a reader of the three  *)
(* stores can find: handlers.go:162 tells its clients to try again, and    *)
(* here is when that is in vain (ProcessingIsExplained).                   *)
THEOREM ProcessingHasAReason == Spec => []ProcessingIsExplained
<1>1. IInv => ProcessingIsExplained
  <2> SUFFICES ASSUME IInv, NEW i \in Invoice, status[i] = "processing",
                      job[i] \notin {"available", "running", "retryable", "discarded"}
               PROVE  /\ job[i] = "none"
                      /\ \A r \in Request :
                            reqInv[r] = i => reqPc[r] \in {"put", "enqueue", "failed"}
    BY DEF ProcessingIsExplained
  <2>1. job[i] = "none"
    <3>1. job[i] \in JobState /\ RecordInv(i)
      BY DEF IInv, IssuanceTypeOK, StoreTypeOK, WorkerIInv, WorkerInv
    <3> QED BY <3>1 DEF JobState, RecordInv
  <2>2. ASSUME NEW r \in Request, reqInv[r] = i
        PROVE  reqPc[r] \in {"put", "enqueue", "failed"}
    <3>1. reqPc[r] \in ReqPc /\ HoldInv(r)
      BY DEF IInv, IssuanceTypeOK, RequestInv
    <3>2. i # None
      BY StoreAssumption
    <3> QED BY <2>1, <2>2, <3>1, <3>2 DEF ReqPc, HoldInv
  <2> QED BY <2>1, <2>2
<1> QED BY InitIInv, StepKeepsIInv, <1>1, PTL DEF Spec

(* A code never leads to two rows, nor a row to two requests, although the *)
(* loop draws codes without looking and inserts whose answer is lost are   *)
(* tried again (invoice.go:68-89).                                         *)
THEOREM CodesAreUnambiguous == Spec => []CodeLeadsToOneRequest
<1>1. IInv => CodeLeadsToOneRequest
  BY DEF IInv, RequestInv
<1> QED BY InitIInv, StepKeepsIInv, <1>1, PTL DEF Spec

(* An invoice has no more hashes than its job was started, nor than River  *)
(* starts it (VersionsWithinAttempts).                                     *)
THEOREM HashesAreBounded == Spec => []VersionsWithinAttempts
<1>1. IInv => VersionsWithinAttempts
  BY InvImpliesProperties DEF IInv
<1> QED BY InitIInv, StepKeepsIInv, <1>1, PTL DEF Spec

(* No request can give a job that has come to its end a new life: in the   *)
(* whole pipeline each job makes a bounded number of moves (JobsWearOut).  *)
THEOREM QueuedJobsAreFinite == Spec => JobsWearOut
<1>1. ASSUME IInv, Next, IInv', NEW i \in Invoice PROVE Worn(i)
  <2>1. CASE WorkerNext
    BY <1>1, <2>1, WorkerWorn DEF IInv
  <2>2. ASSUME NEW r \in Request, Issue(r), UNCHANGED workVars, job[i] # "none"
        PROVE  Worn(i)
    <3>1. job'[i] = job[i] /\ attempt' = attempt /\ pc' = pc
      <4>1. CASE EnqueueJob(r)
        <5>1. job[reqInv[r]] = "none"
          BY <1>1, <4>1 DEF IInv, RequestInv, HoldInv, EnqueueJob
        <5> QED BY <1>1, <2>2, <4>1, <5>1
                DEF IInv, IssuanceTypeOK, StoreTypeOK, EnqueueJob, workVars
      <4> QED
        BY <2>2, <4>1
           DEF Issue, Validate, InsertRow, InsertRefused, NoCode, PutRaw, storeVars, workVars
    <3>2. attempt'[i] \in 0 .. MaxAttempts /\ pc'[i] \in WorkPc
      BY <1>1 DEF IInv, WorkerIInv, StoreTypeOK, WorkTypeOK
    <3>3. MovesLeft(i)' \in Nat
      BY <3>2, StoreAssumption DEF MovesLeft, MovesOfWork, WorkPc
    <3> QED BY <3>1, <3>3, RestingJob DEF Worn
  <2> QED BY <1>1, <2>1, <2>2 DEF Next, IssuanceNext, Worn
<1>2. IInv /\ IInv' /\ [Next]_vars => [\A i \in Invoice : Worn(i)]_workerVars
  BY <1>1 DEF vars, workerVars, workVars
<1>3. [\A i \in Invoice : Worn(i)]_workerVars =>
        [\A i \in Invoice : job[i] # "none" =>
            /\ MovesLeft(i)' >= 0
            /\ \/ MovesLeft(i)' < MovesLeft(i)
               \/ MovesLeft(i)' = MovesLeft(i) /\ job'[i] = job[i] /\ pc'[i] = pc[i]]_workerVars
  BY DEF Worn, Wears
<1> QED BY InitIInv, StepKeepsIInv, <1>2, <1>3, PTL DEF Spec, JobsWearOut

-----------------------------------------------------------------------------
(* Each step of the pipeline is a step of the ledger, or hidden from it.   *)
LEMMA StepRefines == IInv /\ [Next]_vars => [Ledger!LedgerNext]_Ledger!ledgerVars
<1> SUFFICES ASSUME IInv, [Next]_vars
             PROVE  Ledger!LedgerNext \/ UNCHANGED <<status, v1, versions>>
  BY DEF Ledger!ledgerVars
<1> USE DEF IInv, IssuanceTypeOK, StoreTypeOK
<1>1. ASSUME NEW r \in Request, Issue(r)
      PROVE  Ledger!LedgerNext \/ UNCHANGED <<status, v1, versions>>
  <2>1. CASE InsertRow(r)
    BY <2>1 DEF InsertRow, CreateInvoice, Ledger!LedgerNext, Ledger!Open
  <2> QED
    BY <1>1, <2>1
       DEF Issue, Validate, InsertRefused, NoCode, PutRaw, EnqueueJob, storeVars
<1>2. CASE WorkerNext
  BY <1>2, WorkerKeepsLedger DEF IInv
<1> QED BY <1>1, <1>2 DEF Next, IssuanceNext, vars, storeVars

(* The pipeline implements the ledger of InvoiceLedger: an invoice goes    *)
(* absent, processing, ready and never back; records are only added; and   *)
(* it is published when the file served is the one recorded last.          *)
THEOREM PipelineRefinesLedger == Spec => ImplementsLedger
<1>1. Init => Ledger!LedgerInit
  BY DEF Init, IssuanceInit, StoreInit, Ledger!LedgerInit
<1> QED
  BY InitIInv, StepKeepsIInv, StepRefines, <1>1, PTL
     DEF Spec, ImplementsLedger, Ledger!LedgerSpec

(* Whatever happens to requests and attempts, what clients have seen is    *)
(* not taken back (NothingIsWithdrawn): what the ledger does not do, the   *)
(* pipeline does not do.                                                   *)
THEOREM WhatIsSeenStays == Spec => NothingIsWithdrawn
<1> DEFINE Kept(i) ==
        /\ \/ status'[i] = status[i]
           \/ status[i] = "absent" /\ status'[i] = "processing"
           \/ status[i] = "processing" /\ status'[i] = "ready"
        /\ Len(versions[i]) <= Len(versions'[i])
        /\ \A k \in 1 .. Len(versions[i]) : versions'[i][k] = versions[i][k]
        /\ v1[i] # None => v1'[i] # None
<1>1. ASSUME IInv, [Ledger!LedgerNext]_Ledger!ledgerVars PROVE \A i \in Invoice : Kept(i)
  <2> SUFFICES ASSUME NEW i \in Invoice PROVE Kept(i)
    OBVIOUS
  <2>0. /\ status \in [Invoice -> {"absent", "processing", "ready"}]
        /\ v1 \in [Invoice -> Rendering \cup {None}]
        /\ versions[i] \in Seq(Rendering) /\ versions \in [Invoice -> Seq(Rendering)]
    BY <1>1 DEF IInv, IssuanceTypeOK, StoreTypeOK
  <2>1. CASE UNCHANGED Ledger!ledgerVars
    BY <2>0, <2>1 DEF Ledger!ledgerVars
  <2>2. ASSUME NEW j \in Invoice, Ledger!Open(j) \/ Ledger!Publish(j) PROVE Kept(i)
    BY <2>0, <2>2 DEF Ledger!Open, Ledger!Publish
  <2>3. ASSUME NEW j \in Invoice, Ledger!Serve(j) PROVE Kept(i)
    BY <2>0, <2>3, StoreAssumption DEF Ledger!Serve
  <2>4. ASSUME NEW j \in Invoice, Ledger!Record(j) PROVE Kept(i)
    <3>1. v1[j] \in Rendering
      BY <2>0, <2>4 DEF Ledger!Record
    <3>2. CASE i = j
      <4>1. versions'[i] = Append(versions[i], v1[j]) /\ status' = status /\ v1' = v1
        BY <2>0, <2>4, <3>2 DEF Ledger!Record
      <4>2. Len(versions'[i]) = Len(versions[i]) + 1
        BY <2>0, <3>1, <4>1
      <4>3. \A k \in 1 .. Len(versions[i]) : versions'[i][k] = versions[i][k]
        BY <2>0, <3>1, <4>1, AppendFacts
      <4> QED BY <2>0, <4>1, <4>2, <4>3
    <3>3. CASE i # j
      BY <2>0, <2>4, <3>3 DEF Ledger!Record
    <3> QED BY <3>2, <3>3
  <2> QED BY <1>1, <2>1, <2>2, <2>3, <2>4 DEF Ledger!LedgerNext
<1>2. IInv /\ [Next]_vars => [\A i \in Invoice : Kept(i)]_vars
  BY <1>1, StepRefines
<1>3. Spec => []IInv
  BY InitIInv, StepKeepsIInv, PTL DEF Spec
<1> QED BY <1>2, <1>3, PTL DEF Spec, NothingIsWithdrawn
=============================================================================
