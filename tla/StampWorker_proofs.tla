------------------------ MODULE StampWorker_proofs ------------------------
(***************************************************************************)
(* Proofs about the worker, for every number of invoices, renderings,      *)
(* attempts and worker slots.  The lemmas speak of one step of WorkerNext  *)
(* from any typed state that satisfies WorkerInv, so the pipeline uses     *)
(* them as they are.                                                       *)
(***************************************************************************)
EXTENDS StampWorker, TLAPS

WorkerIInv == StoreTypeOK /\ WorkTypeOK /\ WorkerInv

(* A sequence that Append made has the new element last.                   *)
LEMMA AppendFacts ==
    ASSUME NEW S, NEW s \in Seq(S), NEW d \in S
    PROVE  /\ Append(s, d) \in Seq(S)
           /\ Len(Append(s, d)) = Len(s) + 1
           /\ Append(s, d)[Len(s) + 1] = d
           /\ Len(s) > 0 => Append(s, d)[1] = s[1]
           /\ Len(s) \in Nat
OBVIOUS

(* However a call of Work ends, the job and the place in Work keep their   *)
(* types.                                                                  *)
LEMMA CallEnds ==
    ASSUME StoreTypeOK, WorkTypeOK, NEW i \in Invoice, NEW next \in WorkPc,
           GoOn(i, next) \/ Return(i)
    PROVE  job' \in [Invoice -> JobState] /\ pc' \in [Invoice -> WorkPc]
<1>1. CASE GoOn(i, next)
  BY <1>1 DEF GoOn, StoreTypeOK, WorkTypeOK
<1>2. CASE Return(i)
  <2>1. Unsuccessful(i) \in JobState /\ "idle" \in WorkPc
    BY DEF Unsuccessful, JobState, WorkPc
  <2> QED BY <1>2, <2>1 DEF Return, StoreTypeOK, WorkTypeOK
<1> QED BY <1>1, <1>2

(* The types survive every step of the worker.  Only Start needs more than *)
(* types: an attempt is left because of JobInv.                            *)
LEMMA WorkerKeepsTypes ==
    ASSUME WorkerIInv, WorkerNext
    PROVE  StoreTypeOK' /\ WorkTypeOK'
<1> USE DEF WorkerIInv, StoreTypeOK, WorkTypeOK, JobState, WorkPc
<1>1. ASSUME NEW i \in Invoice, Start(i) PROVE StoreTypeOK' /\ WorkTypeOK'
  <2>1. attempt[i] < MaxAttempts
    BY <1>1, StoreAssumption DEF Start, WorkerInv, JobInv
  <2> QED BY <1>1, <2>1, StoreAssumption DEF Start
<1>2. ASSUME NEW i \in Invoice, Fetch(i) PROVE StoreTypeOK' /\ WorkTypeOK'
  <2>1. job' \in [Invoice -> JobState] /\ pc' \in [Invoice -> WorkPc]
    BY <1>2, CallEnds DEF Fetch
  <2>2. made' \in [Invoice -> Rendering \cup {None}]
    BY <1>2 DEF Fetch, StampPDF
  <2> QED BY <1>2, <2>1, <2>2 DEF Fetch
<1>3. ASSUME NEW i \in Invoice, PutStamped(i) PROVE StoreTypeOK' /\ WorkTypeOK'
  <2>1. job' \in [Invoice -> JobState] /\ pc' \in [Invoice -> WorkPc]
    BY <1>3, CallEnds DEF PutStamped
  <2>2. v1' \in [Invoice -> Rendering \cup {None}]
    BY <1>3 DEF PutStamped
  <2> QED BY <1>3, <2>1, <2>2 DEF PutStamped
<1>4. ASSUME NEW i \in Invoice, InsertVersion(i) PROVE StoreTypeOK' /\ WorkTypeOK'
  <2>1. made[i] \in Rendering
    BY <1>4 DEF InsertVersion, WorkerInv, ProgressInv
  <2>2. Append(versions[i], made[i]) \in Seq(Rendering)
    BY <2>1, AppendFacts
  <2>3. versions' \in [Invoice -> Seq(Rendering)]
    BY <1>4, <2>2 DEF InsertVersion, CreateInvoiceVersion
  <2>4. job' \in [Invoice -> JobState] /\ pc' \in [Invoice -> WorkPc]
    BY <1>4, CallEnds DEF InsertVersion
  <2> QED BY <1>4, <2>3, <2>4 DEF InsertVersion
<1>5. ASSUME NEW i \in Invoice, FlipReady(i) PROVE StoreTypeOK' /\ WorkTypeOK'
  <2>1. job' \in [Invoice -> JobState] /\ pc' \in [Invoice -> WorkPc]
    BY <1>5, CallEnds DEF FlipReady
  <2>2. status' \in [Invoice -> {"absent", "processing", "ready"}]
    BY <1>5 DEF FlipReady, UpdateInvoiceStatus
  <2> QED BY <1>5, <2>1, <2>2 DEF FlipReady
<1>6. ASSUME NEW i \in Invoice, Complete(i) PROVE StoreTypeOK' /\ WorkTypeOK'
  BY <1>6 DEF Complete
<1>7. ASSUME NEW i \in Invoice, Rescue(i) PROVE StoreTypeOK' /\ WorkTypeOK'
  BY <1>7 DEF Rescue, workVars, Unsuccessful
<1>8. CASE Crash
  BY <1>8 DEF Crash, storeVars
<1> QED
  BY <1>1, <1>2, <1>3, <1>4, <1>5, <1>6, <1>7, <1>8 DEF WorkerNext, Work

-----------------------------------------------------------------------------
OneInvoice(i) == JobInv(i) /\ ProgressInv(i) /\ RecordInv(i)

(* A step of River or of Work on invoice i keeps the invariant of every    *)
(* invoice j, i itself included.                                           *)
LEMMA WorkStep ==
    ASSUME WorkerIInv, NEW i \in Invoice, NEW j \in Invoice,
           Start(i) \/ Work(i) \/ Rescue(i)
    PROVE  OneInvoice(j)'
<1> USE DEF StoreTypeOK, WorkTypeOK, JobState, WorkPc
<1>1. OneInvoice(i) /\ OneInvoice(j) /\ Len(versions[i]) \in Nat /\ attempt[i] \in Nat
  BY AppendFacts DEF WorkerIInv, WorkerInv, OneInvoice
<1>3. CASE Start(i)
  <2>1. /\ job[i] \in {"available", "retryable"} /\ job'[i] = "running"
        /\ attempt'[i] = attempt[i] + 1 /\ pc[i] = "idle" /\ pc'[i] = "fetch"
        /\ j # i => job'[j] = job[j] /\ attempt'[j] = attempt[j] /\ pc'[j] = pc[j]
        /\ UNCHANGED <<status, raw, v1, versions, made>>
    BY <1>1, <1>3 DEF WorkerIInv, Start, OneInvoice, JobInv
  <2>2. JobInv(j)'
    BY <1>1, <2>1 DEF OneInvoice, JobInv
  <2>3. ProgressInv(j)'
    BY <1>1, <2>1 DEF OneInvoice, ProgressInv, Last
  <2>4. RecordInv(j)'
    BY <1>1, <2>1 DEF OneInvoice, RecordInv, Last
  <2> QED BY <2>2, <2>3, <2>4 DEF OneInvoice
<1>4. CASE Fetch(i)
  <2>1. /\ pc[i] = "fetch"
        /\ \/ pc'[i] = "put" /\ job'[i] = job[i] /\ made'[i] \in Rendering
           \/ pc'[i] = "idle" /\ job'[i] = Unsuccessful(i)
        /\ j # i => job'[j] = job[j] /\ pc'[j] = pc[j] /\ made'[j] = made[j]
        /\ UNCHANGED <<status, raw, v1, versions, attempt>>
    BY <1>4 DEF WorkerIInv, Fetch, StampPDF, GoOn, Return
  <2>2. JobInv(j)'
    BY <1>1, <2>1 DEF OneInvoice, JobInv, Unsuccessful
  <2>3. ProgressInv(j)'
    BY <1>1, <2>1, StoreAssumption DEF OneInvoice, ProgressInv, Last
  <2>4. RecordInv(j)'
    BY <1>1, <2>1 DEF OneInvoice, RecordInv, Unsuccessful, Last
  <2> QED BY <2>2, <2>3, <2>4 DEF OneInvoice
<1>5. CASE PutStamped(i)
  <2>1. /\ pc[i] = "put"
        /\ \/ pc'[i] = "insert" /\ job'[i] = job[i] /\ v1'[i] = made[i]
           \/ pc'[i] = "idle" /\ job'[i] = Unsuccessful(i) /\ v1'[i] \in {v1[i], made[i]}
        /\ j # i => job'[j] = job[j] /\ pc'[j] = pc[j] /\ v1'[j] = v1[j]
        /\ UNCHANGED <<status, raw, versions, attempt, made>>
    BY <1>5 DEF WorkerIInv, PutStamped, GoOn, Return
  <2>2. made[i] # None /\ job[i] = "running" /\ Len(versions[i]) < attempt[i]
    BY <1>1, <2>1 DEF OneInvoice, JobInv, ProgressInv, RecordInv
  <2>3. JobInv(j)'
    BY <1>1, <2>1, <2>2 DEF OneInvoice, JobInv, Unsuccessful
  <2>4. ProgressInv(j)'
    BY <1>1, <2>1 DEF OneInvoice, ProgressInv, Last
  <2>5. RecordInv(j)'
    BY <1>1, <2>1, <2>2 DEF OneInvoice, RecordInv, Unsuccessful, Last
  <2> QED BY <2>3, <2>4, <2>5 DEF OneInvoice
<1>6. CASE InsertVersion(i)
  <2>1. versions' = [versions EXCEPT ![i] = Append(@, made[i])] \/ versions' = versions
    BY <1>6 DEF InsertVersion, CreateInvoiceVersion
  <2>2. CASE versions' = versions
    <3>1. UNCHANGED <<status, refCode, raw, v1, versions, attempt, made>>
      BY <1>6, <2>2 DEF InsertVersion
    <3>2. CASE GoOn(i, "flip")
      <4>1. CreateInvoiceVersion(i, made[i])
        BY <1>6, <3>2 DEF InsertVersion, GoOn, Return, WorkerIInv
      <4>2. made[i] \in Rendering
        BY <1>1, <1>6 DEF WorkerIInv, InsertVersion, OneInvoice, ProgressInv
      <4>3. Len(versions'[i]) = Len(versions[i]) + 1
        BY <4>1, <4>2, AppendFacts DEF CreateInvoiceVersion, WorkerIInv
      <4> QED BY <1>1, <2>2, <4>3
    <3>3. CASE Return(i)
      <4>1. /\ pc'[i] = "idle" /\ job'[i] = Unsuccessful(i) /\ pc[i] # "idle"
            /\ j # i => pc'[j] = pc[j] /\ job'[j] = job[j]
        BY <1>6, <3>3 DEF WorkerIInv, InsertVersion, Return
      <4>2. JobInv(j)'
        BY <1>1, <3>1, <4>1, StoreAssumption DEF WorkerIInv, Unsuccessful, OneInvoice, JobInv
      <4>3. ProgressInv(j)'
        BY <1>1, <3>1, <4>1, StoreAssumption DEF WorkerIInv, OneInvoice, ProgressInv, Last
      <4>4. RecordInv(j)'
        BY <1>1, <3>1, <4>1, StoreAssumption
           DEF WorkerIInv, Unsuccessful, OneInvoice, RecordInv, Last
      <4> QED BY <4>2, <4>3, <4>4 DEF OneInvoice
    <3> QED BY <1>6, <3>2, <3>3 DEF InsertVersion
  <2>3. CASE versions' = [versions EXCEPT ![i] = Append(@, made[i])]
    <3>1. made[i] \in Rendering /\ v1[i] = made[i] /\ Len(versions[i]) < attempt[i]
      BY <1>1, <1>6 DEF WorkerIInv, InsertVersion, OneInvoice, ProgressInv, RecordInv
    <3>2. /\ Len(versions'[i]) = Len(versions[i]) + 1
          /\ versions'[i][Len(versions[i]) + 1] = made[i]
          /\ Len(versions[i]) > 0 => versions'[i][1] = versions[i][1]
          /\ Len(versions[i]) = 0 => versions'[i][1] = made[i]
          /\ j # i => versions'[j] = versions[j]
      BY <2>3, <3>1, AppendFacts DEF WorkerIInv
    <3>3. UNCHANGED <<status, refCode, raw, v1, attempt, made>>
      BY <1>6 DEF InsertVersion
    <3>4. \/ pc' = [pc EXCEPT ![i] = "flip"] /\ job' = job
          \/ pc' = [pc EXCEPT ![i] = "idle"] /\ job' = [job EXCEPT ![i] = Unsuccessful(i)]
      BY <1>6, <2>3 DEF InsertVersion, GoOn, Return
    <3>5. pc[i] = "insert" /\ job[i] = "running"
      BY <1>1, <1>6 DEF InsertVersion, OneInvoice, JobInv
    <3>6. CASE j # i
      BY <1>1, <3>2, <3>3, <3>4, <3>6
         DEF WorkerIInv, OneInvoice, JobInv, ProgressInv, RecordInv
    <3>7. CASE j = i
      <4>1. JobInv(i)'
        BY <1>1, <3>3, <3>4, <3>5, StoreAssumption
           DEF WorkerIInv, OneInvoice, JobInv, Unsuccessful
      <4>2. ProgressInv(i)'
        BY <1>1, <3>1, <3>2, <3>3, <3>4, StoreAssumption
           DEF WorkerIInv, OneInvoice, ProgressInv, Last
      <4>3. RecordInv(i)'
        <5>1. /\ pc'[i] \in {"flip", "idle"} /\ job'[i] # "completed"
              /\ v1'[i] = made[i] /\ v1'[i] # None /\ attempt'[i] = attempt[i]
          BY <3>1, <3>3, <3>4, <3>5, StoreAssumption DEF WorkerIInv, Unsuccessful
        <5>2. attempt[i] <= 1 => Len(versions[i]) = 0
          BY <1>1, <3>1
        <5> QED BY <1>1, <3>1, <3>2, <5>1, <5>2 DEF RecordInv
      <4> QED BY <3>7, <4>1, <4>2, <4>3 DEF OneInvoice
    <3> QED BY <3>6, <3>7
  <2> QED BY <2>1, <2>2, <2>3
<1>7. CASE FlipReady(i)
  BY <1>1, <1>7
     DEF WorkerIInv, FlipReady, UpdateInvoiceStatus, GoOn, Return, Unsuccessful,
       OneInvoice, JobInv, ProgressInv, RecordInv, Last
<1>8. CASE Complete(i)
  BY <1>1, <1>8
     DEF WorkerIInv, Complete, OneInvoice, JobInv, ProgressInv, RecordInv, Last
<1>9. CASE Rescue(i)
  BY <1>1, <1>9 DEF WorkerIInv, Rescue, Unsuccessful, workVars,
       OneInvoice, JobInv, ProgressInv, RecordInv, Last
<1> QED BY <1>3, <1>4, <1>5, <1>6, <1>7, <1>8, <1>9 DEF Work

(* A crash forgets what every Work has done, and what a Work knows is all  *)
(* that the invariant says of it.                                          *)
LEMMA CrashStep ==
    ASSUME WorkerIInv, Crash, NEW j \in Invoice
    PROVE  OneInvoice(j)'
BY DEF WorkerIInv, WorkerInv, OneInvoice, Crash, storeVars, WorkTypeOK,
       JobInv, ProgressInv, RecordInv, Last

(* WorkerInv is inductive over the worker's steps.                         *)
LEMMA WorkerKeepsInv ==
    ASSUME WorkerIInv, WorkerNext
    PROVE  WorkerIInv'
<1>1. \A j \in Invoice : OneInvoice(j)'
  BY WorkStep, CrashStep DEF WorkerNext
<1>2. WorkerInv'
  BY <1>1 DEF WorkerInv, OneInvoice
<1> QED BY <1>2, WorkerKeepsTypes DEF WorkerIInv

(* Nothing of the worker's state changes in a stuttering step, or in the   *)
(* step of another process that leaves these variables alone.              *)
LEMMA WorkerStutters ==
    ASSUME WorkerIInv, UNCHANGED workerVars
    PROVE  WorkerIInv'
BY DEF WorkerIInv, WorkerInv, StoreTypeOK, WorkTypeOK, workerVars, storeVars, workVars,
       JobInv, ProgressInv, RecordInv, Last

LEMMA WorkerStarts == WorkerInit => WorkerIInv
<1> SUFFICES ASSUME WorkerInit PROVE WorkerIInv
  OBVIOUS
<1>1. StoreTypeOK /\ WorkTypeOK
  BY StoreAssumption DEF WorkerInit, WorkInit, StoreTypeOK, WorkTypeOK, JobState, WorkPc
<1>2. ASSUME NEW i \in Invoice PROVE OneInvoice(i)
  <2>1. Len(versions[i]) = 0 /\ versions[i] = <<>>
    BY DEF WorkerInit
  <2> QED BY <1>1, <2>1
       DEF WorkerInit, WorkInit, OneInvoice, JobInv, ProgressInv, RecordInv
<1> QED BY <1>1, <1>2 DEF WorkerIInv, WorkerInv, OneInvoice

-----------------------------------------------------------------------------
(* The worker alone keeps its types and WorkerInv.                         *)
THEOREM WorkerSafe == WorkerSpec => [](WorkerTypeOK /\ WorkerInv)
<1>1. WorkerIInv /\ [WorkerNext]_workerVars => WorkerIInv'
  BY WorkerKeepsInv, WorkerStutters
<1>2. WorkerIInv => WorkerTypeOK /\ WorkerInv
  BY DEF WorkerIInv, WorkerTypeOK
<1> QED BY WorkerStarts, <1>1, <1>2, PTL DEF WorkerSpec

LEMMA SingletonSeq ==
    ASSUME NEW S, NEW s \in Seq(S), Len(s) = 1
    PROVE  s = <<s[1]>>
OBVIOUS

LEMMA ExactlyOne ==
    ASSUME NEW m \in Nat, NEW n \in Nat, 0 < m, m <= n, n <= 1
    PROVE  m = 1
OBVIOUS

(* What the invariant means for clients: a ready invoice can be served and *)
(* verified, a completed job leaves the served file recorded last, and a   *)
(* single attempt leaves no other record.                                  *)
LEMMA InvImpliesProperties ==
    ASSUME WorkerIInv
    PROVE  /\ ReadyIsComplete
           /\ CompletedServesRecorded
           /\ FirstAttemptIsExact
           /\ VersionsWithinAttempts
<1>0. ASSUME NEW i \in Invoice
      PROVE  /\ RecordInv(i)
             /\ versions[i] \in Seq(Rendering) /\ Len(versions[i]) \in Nat
             /\ attempt[i] \in Nat /\ attempt[i] <= MaxAttempts
  BY StoreAssumption DEF WorkerIInv, WorkerInv, StoreTypeOK
<1>1. ReadyIsComplete
  BY <1>0 DEF ReadyIsComplete, RecordInv
<1>2. CompletedServesRecorded
  BY <1>0 DEF CompletedServesRecorded, RecordInv
<1>3. FirstAttemptIsExact
  <2> SUFFICES ASSUME NEW i \in Invoice, attempt[i] <= 1, status[i] = "ready"
               PROVE  versions[i] = <<v1[i]>>
    BY DEF FirstAttemptIsExact
  <2>1. Len(versions[i]) > 0 /\ Len(versions[i]) <= attempt[i] /\ versions[i][1] = v1[i]
    BY <1>0 DEF RecordInv
  <2>2. Len(versions[i]) = 1
    BY <1>0, <2>1, ExactlyOne
  <2>3. versions[i] = <<versions[i][1]>>
    BY <1>0, <2>2, SingletonSeq
  <2> QED BY <2>1, <2>3
<1>4. VersionsWithinAttempts
  BY <1>0 DEF VersionsWithinAttempts, RecordInv
<1> QED BY <1>1, <1>2, <1>3, <1>4

THEOREM ReadyServesAndVerifies == WorkerSpec => []ReadyIsComplete
<1>1. WorkerTypeOK /\ WorkerInv => ReadyIsComplete
  BY InvImpliesProperties DEF WorkerIInv, WorkerTypeOK
<1> QED BY <1>1, WorkerSafe, PTL

(* The step that publishes an invoice finds the served file recorded last, *)
(* because the Work that takes it did both before (FlipPublishesRecorded). *)
THEOREM FlipIsExact == WorkerSpec => FlipPublishesRecorded
<1> DEFINE Exact(i) == status[i] # "ready" /\ status'[i] = "ready" =>
                          versions[i] # <<>> /\ v1[i] = Last(versions[i])
<1>1. ASSUME WorkerTypeOK, WorkerInv, WorkerNext, NEW i \in Invoice
      PROVE  Exact(i)
  <2>0. ProgressInv(i)
    BY <1>1 DEF WorkerInv
  <2>1. ASSUME NEW j \in Invoice, FlipReady(j)
        PROVE  Exact(i)
    BY <1>1, <2>0, <2>1
       DEF FlipReady, UpdateInvoiceStatus, ProgressInv, WorkerTypeOK, WorkTypeOK, StoreTypeOK
  <2>2. CASE UNCHANGED status
    BY <2>2
  <2> QED
    BY <1>1, <2>1, <2>2
       DEF WorkerNext, Work, Start, Rescue, Fetch, PutStamped, InsertVersion, Complete,
           Crash, storeVars
<1>2. ASSUME UNCHANGED workerVars, NEW i \in Invoice
      PROVE  Exact(i)
  BY <1>2 DEF workerVars, storeVars
<1>3. WorkerTypeOK /\ WorkerInv /\ [WorkerNext]_workerVars =>
        [\A i \in Invoice : Exact(i)]_workerVars
  BY <1>1
<1> QED BY <1>3, WorkerSafe, PTL DEF WorkerSpec, FlipPublishesRecorded

-----------------------------------------------------------------------------
(* The bound on what is left is a number, and the place in Work adds less  *)
(* to it than an attempt does.                                             *)
LEMMA MovesFacts ==
    ASSUME WorkerIInv, NEW i \in Invoice
    PROVE  /\ attempt[i] \in Nat /\ attempt[i] <= MaxAttempts /\ MaxAttempts \in Nat
           /\ MovesOfWork[pc[i]] \in 1 .. 6
           /\ MovesLeft(i) \in Nat
<1>1. attempt[i] \in Nat /\ attempt[i] <= MaxAttempts /\ MaxAttempts \in Nat
  BY StoreAssumption DEF WorkerIInv, StoreTypeOK
<1>2. MovesOfWork[pc[i]] \in 1 .. 6
  <2>1. pc[i] \in WorkPc
    BY DEF WorkerIInv, WorkTypeOK
  <2> QED BY <2>1 DEF WorkPc, MovesOfWork
<1> QED BY <1>1, <1>2 DEF MovesLeft

(* Of each invoice with a job: its job has made a move and has fewer left, *)
(* or it has stayed where it was.                                          *)
Wears(i) ==
    \/ MovesLeft(i)' < MovesLeft(i)
    \/ MovesLeft(i)' = MovesLeft(i) /\ job'[i] = job[i] /\ pc'[i] = pc[i]

LEMMA RestingJob ==
    ASSUME NEW i \in Invoice, job'[i] = job[i], pc'[i] = pc[i], attempt'[i] = attempt[i]
    PROVE  Wears(i)
BY DEF Wears, MovesLeft

LEMMA WorkerWears ==
    ASSUME WorkerIInv, WorkerNext, NEW j \in Invoice
    PROVE  Wears(j)
<1> USE DEF StoreTypeOK, WorkTypeOK
<1>0. /\ attempt[j] \in Nat /\ attempt[j] <= MaxAttempts /\ MaxAttempts \in Nat
      /\ MovesOfWork[pc[j]] \in 1 .. 6
  BY MovesFacts
<1>1. /\ job \in [Invoice -> JobState] /\ pc \in [Invoice -> WorkPc]
      /\ attempt \in [Invoice -> 0 .. MaxAttempts] /\ JobInv(j)
  BY DEF WorkerIInv, WorkerInv
<1>2. ASSUME NEW i \in Invoice, i # j, Start(i) \/ Work(i) \/ Rescue(i)
      PROVE  Wears(j)
  <2>1. job'[j] = job[j] /\ pc'[j] = pc[j] /\ attempt'[j] = attempt[j]
    BY <1>1, <1>2
       DEF Start, Work, Rescue, Fetch, PutStamped, InsertVersion, FlipReady, Complete,
         GoOn, Return, workVars
  <2> QED BY <2>1, RestingJob
<1>3. CASE Start(j)
  <2>1. job[j] # "running" /\ job'[j] = "running" /\ pc'[j] = "fetch"
        /\ attempt'[j] = attempt[j] + 1
    BY <1>1, <1>3 DEF Start
  <2>2. attempt[j] + 1 <= MaxAttempts
    BY <1>0, <1>1, <2>1, <1>3, StoreAssumption DEF Start, JobInv
  <2> QED BY <1>0, <2>1, <2>2 DEF Wears, MovesLeft, MovesOfWork
<1>4. CASE Work(j)
  <2>1. job[j] = "running" /\ pc[j] # "idle" /\ attempt'[j] = attempt[j]
    BY <1>1, <1>4
       DEF JobInv, Work, Fetch, PutStamped, InsertVersion, FlipReady, Complete
  <2>2. CASE job'[j] # "running"
    BY <1>0, <2>1, <2>2 DEF Wears, MovesLeft
  <2>3. CASE job'[j] = "running"
    <3>1. \/ pc[j] = "fetch" /\ pc'[j] = "put"
          \/ pc[j] = "put" /\ pc'[j] = "insert"
          \/ pc[j] = "insert" /\ pc'[j] = "flip"
          \/ pc[j] = "flip" /\ pc'[j] = "return"
      BY <1>1, <1>4, <2>3
         DEF Work, Fetch, PutStamped, InsertVersion, FlipReady, Complete,
           GoOn, Return, Unsuccessful
    <3> QED BY <1>0, <2>1, <2>3, <3>1 DEF Wears, MovesLeft, MovesOfWork
  <2> QED BY <2>2, <2>3
<1>5. CASE Rescue(j)
  <2>1. job[j] = "running" /\ job'[j] # "running" /\ attempt'[j] = attempt[j]
    BY <1>1, <1>5 DEF Rescue, Unsuccessful
  <2> QED BY <1>0, <2>1 DEF Wears, MovesLeft
<1>6. CASE Crash
  <2>1. job'[j] = job[j] /\ attempt'[j] = attempt[j] /\ pc'[j] = "idle"
    BY <1>6 DEF Crash, storeVars
  <2>2. CASE pc[j] = "idle"
    BY <2>1, <2>2, RestingJob
  <2>3. CASE pc[j] # "idle"
    <3>1. job[j] = "running" /\ MovesOfWork[pc[j]] > 1
      BY <1>1, <2>3 DEF JobInv, WorkPc, MovesOfWork
    <3> QED BY <1>0, <2>1, <3>1 DEF Wears, MovesLeft, MovesOfWork
  <2> QED BY <2>2, <2>3
<1> QED BY <1>2, <1>3, <1>4, <1>5, <1>6 DEF WorkerNext

(* What JobsWearOut says of one invoice.                                   *)
Worn(i) == job[i] # "none" => MovesLeft(i)' >= 0 /\ Wears(i)

LEMMA WorkerWorn ==
    ASSUME WorkerIInv, WorkerNext, WorkerIInv', NEW i \in Invoice
    PROVE  Worn(i)
<1>1. MovesLeft(i)' \in Nat
  <2>1. attempt'[i] \in 0 .. MaxAttempts /\ pc'[i] \in WorkPc
    BY DEF WorkerIInv, StoreTypeOK, WorkTypeOK
  <2> QED BY <2>1, StoreAssumption DEF MovesLeft, MovesOfWork, WorkPc
<1> QED BY <1>1, WorkerWears DEF Worn

(* A job makes at most seven moves for each of its MaxAttempts attempts,   *)
(* whatever fails and however often the worker dies (JobsWearOut).         *)
THEOREM JobsAreFinite == WorkerSpec => JobsWearOut
<1>1. WorkerTypeOK /\ WorkerInv /\ [WorkerNext]_workerVars =>
        [\A i \in Invoice : Worn(i)]_workerVars
  BY WorkerWorn, WorkerKeepsInv DEF WorkerIInv, WorkerTypeOK
<1>2. [\A i \in Invoice : Worn(i)]_workerVars =>
        [\A i \in Invoice : job[i] # "none" =>
            /\ MovesLeft(i)' >= 0
            /\ \/ MovesLeft(i)' < MovesLeft(i)
               \/ MovesLeft(i)' = MovesLeft(i) /\ job'[i] = job[i] /\ pc'[i] = pc[i]]_workerVars
  BY DEF Worn, Wears
<1> QED BY <1>1, <1>2, WorkerSafe, PTL DEF WorkerSpec, JobsWearOut

-----------------------------------------------------------------------------
(* To anyone who looks at the rows and the served object alone, a step of  *)
(* the worker is a step of the ledger, or nothing.                         *)
LEMMA WorkerKeepsLedger ==
    ASSUME WorkerIInv, WorkerNext
    PROVE  Ledger!LedgerNext \/ UNCHANGED <<status, v1, versions>>
<1> USE DEF StoreTypeOK
<1>1. ASSUME NEW i \in Invoice, Start(i) \/ Work(i) \/ Rescue(i)
      PROVE  Ledger!LedgerNext \/ UNCHANGED <<status, v1, versions>>
  <2>0. JobInv(i) /\ ProgressInv(i)
    BY DEF WorkerIInv, WorkerInv
  <2>1. CASE PutStamped(i)
    BY <2>0, <2>1 DEF PutStamped, JobInv, ProgressInv, WorkerIInv, WorkTypeOK,
         Ledger!LedgerNext, Ledger!Serve
  <2>2. CASE InsertVersion(i)
    BY <2>0, <2>2, StoreAssumption
       DEF InsertVersion, CreateInvoiceVersion, JobInv, ProgressInv, WorkerIInv,
         WorkTypeOK, Ledger!LedgerNext, Ledger!Record
  <2>3. CASE FlipReady(i)
    BY <2>0, <2>3 DEF FlipReady, UpdateInvoiceStatus, JobInv, ProgressInv, WorkerIInv,
         WorkTypeOK, Last,
         Ledger!LedgerNext, Ledger!Publish
  <2> QED
    BY <1>1, <2>1, <2>2, <2>3 DEF Work, Start, Fetch, StampPDF, Complete, Rescue
<1>2. CASE Crash
  BY <1>2 DEF Crash, storeVars
<1> QED BY <1>1, <1>2 DEF WorkerNext
=============================================================================
