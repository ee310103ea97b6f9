-------------------------- MODULE Delivery_proofs --------------------------
(***************************************************************************)
(* Proofs about the whole server: downloads and verifications while        *)
(* requests issue invoices and the worker runs and reruns jobs, for every  *)
(* number of requests, invoices, clients and submissions.                  *)
(***************************************************************************)
EXTENDS Delivery, Pipeline_proofs

(* A reference code leads to at most one row (CodeLeadsToOneRequest).      *)
CodesUnique ==
    /\ \A i \in Invoice : status[i] # "absent" <=> refCode[i] # None
    /\ \A i, j \in Invoice : refCode[i] = refCode[j] /\ refCode[i] # None => i = j

ServerIInv ==
    /\ IInv /\ CodesUnique
    /\ DownloadTypeOK /\ VerificationTypeOK
    /\ DeliveryInv

LEMMA CodesAreUnique == (IInv => CodesUnique) /\ (IInv' => CodesUnique')
BY DEF IInv, RequestInv, HeldInv, CodeLeadsToOneRequest, CodesUnique

-----------------------------------------------------------------------------
(* What no step of a request or of the worker takes back from clients: the *)
(* row and its code, readiness, recorded hashes; and in a first attempt    *)
(* also the file.                                                          *)
Kept(i) ==
    /\ status[i] # "absent" => status'[i] # "absent" /\ refCode'[i] = refCode[i]
    /\ status[i] = "ready" => status'[i] = "ready"
    /\ Len(versions'[i]) \in Nat /\ Len(versions[i]) <= Len(versions'[i])
    /\ \A k \in 1 .. Len(versions[i]) : versions'[i][k] = versions[i][k]
    /\ attempt[i] <= attempt'[i]
    /\ status[i] = "ready" /\ attempt'[i] <= 1 => versions'[i] = versions[i]

LEMMA LenIsNat == \A S : \A s \in Seq(S) : Len(s) \in Nat
OBVIOUS

LEMMA AppendKeeps ==
    ASSUME NEW S, NEW s \in Seq(S), NEW d \in S
    PROVE  \A k \in 1 .. Len(s) : Append(s, d)[k] = s[k]
OBVIOUS

LEMMA WorkerKeeps ==
    ASSUME WorkerIInv, WorkerNext, NEW i \in Invoice
    PROVE  Kept(i)
<1> USE DEF StoreTypeOK, WorkTypeOK, JobState, WorkPc
<1>1. /\ OneInvoice(i) /\ Len(versions[i]) \in Nat /\ attempt[i] \in Nat
      /\ versions[i] \in Seq(Rendering)
  BY AppendFacts DEF WorkerIInv, WorkerInv, OneInvoice
<1>2. ASSUME NEW j \in Invoice,
             Start(j) \/ Fetch(j) \/ PutStamped(j) \/ Complete(j) \/ Rescue(j)
      PROVE  Kept(i)
  <2>1. refCode' = refCode /\ status' = status /\ versions' = versions
    BY <1>2 DEF Start, Fetch, PutStamped, Complete, Rescue, workVars
  <2>2. attempt' = attempt \/ attempt' = [attempt EXCEPT ![j] = @ + 1]
    BY <1>2 DEF Start, Fetch, PutStamped, Complete, Rescue, workVars
  <2>3. attempt'[i] = attempt[i] \/ attempt'[i] = attempt[i] + 1
    BY <2>2 DEF WorkerIInv
  <2> QED BY <1>1, <2>1, <2>3 DEF Kept
<1>3. ASSUME NEW j \in Invoice, FlipReady(j) PROVE Kept(i)
  BY <1>1, <1>3 DEF WorkerIInv, FlipReady, UpdateInvoiceStatus, Kept
<1>4. ASSUME NEW j \in Invoice, InsertVersion(j) PROVE Kept(i)
  <2>1. /\ refCode' = refCode /\ status' = status /\ attempt' = attempt
        /\ \/ versions'[i] = versions[i]
           \/ i = j /\ versions'[i] = Append(versions[i], made[i])
    BY <1>4 DEF WorkerIInv, InsertVersion, CreateInvoiceVersion
  <2>2. CASE versions'[i] = versions[i]
    BY <1>1, <2>1, <2>2 DEF WorkerIInv, Kept
  <2>3. CASE i = j /\ versions'[i] = Append(versions[i], made[i])
    <3>1. made[i] \in Rendering /\ Len(versions[i]) < attempt[i]
      BY <1>1, <1>4, <2>3
         DEF WorkerIInv, InsertVersion, OneInvoice, ProgressInv, RecordInv
    <3>2. Len(versions'[i]) = Len(versions[i]) + 1
      BY <1>1, <2>3, <3>1, AppendFacts
    <3>3. \A k \in 1 .. Len(versions[i]) : versions'[i][k] = versions[i][k]
      BY <1>1, <2>3, <3>1, AppendKeeps
    <3>4. ~ (status[i] = "ready" /\ attempt[i] <= 1)
      BY <1>1, <3>1 DEF OneInvoice, RecordInv
    <3> QED BY <1>1, <2>1, <3>2, <3>3, <3>4 DEF Kept
  <2> QED BY <2>1, <2>2, <2>3
<1>5. CASE Crash
  BY <1>1, <1>5 DEF WorkerIInv, Crash, storeVars, Kept
<1> QED BY <1>2, <1>3, <1>4, <1>5 DEF WorkerNext, Work

LEMMA PipelineKeeps ==
    ASSUME IInv, [Next]_vars, NEW i \in Invoice
    PROVE  Kept(i)
<1>0. WorkerIInv /\ Len(versions[i]) \in Nat /\ attempt[i] \in Nat
  BY AppendFacts, StoreAssumption DEF IInv, WorkerIInv, StoreTypeOK
<1>1. ASSUME NEW r \in Request, Issue(r) PROVE Kept(i)
  <2>1. versions' = versions /\ attempt' = attempt
    BY <1>1
       DEF Issue, Validate, InsertRow, InsertRefused, NoCode, PutRaw, EnqueueJob, storeVars
  <2>2. \/ status' = status /\ refCode' = refCode
        \/ \E j \in Invoice, c \in Code : CreateInvoice(j, c)
    BY <1>1
       DEF Issue, Validate, InsertRow, InsertRefused, NoCode, PutRaw, EnqueueJob, storeVars
  <2>3. /\ status[i] # "absent" => status'[i] = status[i] /\ refCode'[i] = refCode[i]
    BY <1>0, <2>2 DEF CreateInvoice, WorkerIInv, StoreTypeOK
  <2> QED BY <1>0, <2>1, <2>3 DEF Kept
<1>2. CASE UNCHANGED vars
  BY <1>0, <1>2 DEF vars, storeVars, Kept
<1> QED BY <1>0, <1>1, <1>2, WorkerKeeps DEF Next, IssuanceNext

(* A job is run again only when its invoice was published, if at all, by   *)
(* an earlier attempt: a first attempt serves what it has recorded.        *)
LEMMA ServedIsFileOf ==
    ASSUME WorkerIInv, NEW i \in Invoice, status[i] = "ready"
    PROVE  FileOf(i, v1[i])
BY InvImpliesProperties DEF FirstAttemptIsExact, FileOf

-----------------------------------------------------------------------------
(* Steps of requests and of the worker.                                    *)
LEMMA PipelineKeepsClient ==
    ASSUME ServerIInv, [Next]_vars, UNCHANGED <<dlVars, subVars>>, NEW d \in Client
    PROVE  ClientInv(d)'
<1>1. ClientInv(d) /\ dlInv[d] \in Invoice \cup {None} /\ (\A j \in Invoice : Kept(j))
  BY PipelineKeeps DEF ServerIInv, DeliveryInv, DownloadTypeOK
<1>2. /\ billed' = billed /\ asked' = asked /\ dlPc' = dlPc /\ dlInv' = dlInv
      /\ sawReady' = sawReady /\ answer' = answer /\ body' = body
  BY DEF dlVars
<1>3. ASSUME NEW j \in Invoice
      PROVE  HasCode(j, asked[d]) => HasCode(j, asked[d])'
  BY <1>1, <1>2 DEF Kept, HasCode
<1>4. sawReady'[d] =>
        /\ answer'[d] # "202"
        /\ \E j \in Invoice : HasCode(j, asked[d])' /\ status'[j] = "ready"
  BY <1>1, <1>2, <1>3 DEF ClientInv, Kept
<1>5. CASE dlInv[d] = None
  BY <1>1, <1>2, <1>4, <1>5 DEF ClientInv
<1>6. CASE dlInv[d] \in Invoice
  <2>0. PICK i \in Invoice : i = dlInv[d]
    BY <1>6
  <2>1. Kept(i) /\ (HasCode(i, asked[d]) => HasCode(i, asked[d])')
    BY <1>1, <1>3
  <2>2. status[i] = "ready" /\ FileOf(i, body[d]) =>
            status'[i] = "ready" /\ FileOf(i, body[d])'
    <3>1. attempt[i] \in Nat /\ attempt'[i] \in Nat
      BY StepKeepsIInv, StoreAssumption DEF ServerIInv, IInv, WorkerIInv, StoreTypeOK
    <3>2. attempt'[i] <= 1 => attempt[i] <= 1
      BY <2>1, <3>1 DEF Kept
    <3> QED BY <1>2, <2>1, <3>2 DEF Kept, FileOf
  <2>3. body'[d] # None =>
            status'[i] = "ready" /\ billed'[i] = 1 /\ FileOf(i, body[d])'
    BY <1>1, <1>2, <2>0, <2>2 DEF ClientInv, FileOf
  <2>4. HasCode(i, asked[d])' /\ (dlPc'[d] # "idle" => status'[i] = "ready")
    BY <1>1, <1>2, <2>0, <2>1, StoreAssumption DEF ClientInv, Kept, HasCode
  <2>5. dlPc'[d] = "read" => billed'[i] = 1
    BY <1>1, <1>2, <2>0 DEF ClientInv
  <2> QED BY <1>1, <1>2, <1>4, <2>0, <2>3, <2>4, <2>5, StoreAssumption
       DEF ClientInv, HasCode, FileOf
<1> QED BY <1>1, <1>5, <1>6

LEMMA PipelineKeepsSubmission ==
    ASSUME ServerIInv, [Next]_vars, UNCHANGED <<dlVars, subVars>>, NEW s \in Submission
    PROVE  SubmissionInv(s)'
<1>1. SubmissionInv(s) /\ (\A j \in Invoice : Kept(j))
  BY PipelineKeeps DEF ServerIInv, DeliveryInv
<1>2. /\ file' = file /\ subPc' = subPc /\ subInv' = subInv /\ matched' = matched
      /\ verdict' = verdict
  BY DEF subVars
<1>3. CASE subPc[s] = "new"
  BY <1>1, <1>2, <1>3 DEF SubmissionInv
<1>4. CASE subPc[s] # "new"
  <2> DEFINE i == file[s].of
  <2>1. /\ file[s] \in File /\ i \in Invoice \cup {None}
        /\ subInv[s] \in Invoice \cup {None}
    BY <1>1, <1>4 DEF SubmissionInv, File, ServerIInv, VerificationTypeOK
  <2>2. subPc'[s] = "compare" => subInv'[s] # None /\ HasCode(subInv[s], file[s].ref)'
    BY <1>1, <1>2, <1>4, <2>1 DEF SubmissionInv, HasCode, Kept
  <2>3. CASE i = None
    BY <1>1, <1>2, <1>4, <2>1, <2>2, <2>3 DEF SubmissionInv, Genuine
  <2>4. CASE i \in Invoice
    <3>1. Kept(i) /\ i # None
      BY <1>1, <2>4, StoreAssumption
    <3>2. /\ attempt[i] \in Nat /\ attempt'[i] \in Nat
          /\ Len(versions[i]) \in Nat /\ Len(versions'[i]) \in Nat
      <4>1. StoreTypeOK /\ StoreTypeOK'
        BY StepKeepsIInv DEF ServerIInv, IInv, WorkerIInv
      <4>2. versions[i] \in Seq(Rendering) /\ versions'[i] \in Seq(Rendering)
        BY <2>4, <4>1 DEF StoreTypeOK
      <4>3. attempt[i] \in 0 .. MaxAttempts /\ attempt'[i] \in 0 .. MaxAttempts
        BY <2>4, <4>1 DEF StoreTypeOK
      <4>4. attempt[i] \in Nat /\ attempt'[i] \in Nat
        BY <4>3, StoreAssumption
      <4> QED BY <4>2, <4>4, LenIsNat
    <3>3. attempt'[i] <= 1 => attempt[i] <= 1
      BY <3>1, <3>2 DEF Kept
    <3>4. status'[i] = "ready" /\ FileOf(i, file[s].doc)'
      BY <1>1, <1>2, <1>4, <3>1, <3>3 DEF SubmissionInv, Kept, FileOf
    <3>5. verdict'[s] = "match" =>
            /\ refCode'[i] = file[s].ref
            /\ \E k \in 1 .. Len(versions'[i]) : versions'[i][k] = file[s].doc
      <4> SUFFICES ASSUME verdict[s] = "match"
                   PROVE  /\ refCode'[i] = file[s].ref
                          /\ \E k \in 1 .. Len(versions'[i]) : versions'[i][k] = file[s].doc
        BY <1>2
      <4>1. PICK k \in 1 .. Len(versions[i]) : versions[i][k] = file[s].doc
        BY <1>1, <1>4 DEF SubmissionInv
      <4>2. refCode[i] = file[s].ref
        BY <1>1, <1>4 DEF SubmissionInv
      <4>3. k \in 1 .. Len(versions'[i]) /\ versions'[i][k] = versions[i][k]
        <5>1. Len(versions[i]) <= Len(versions'[i])
          BY <3>1 DEF Kept
        <5>2. k \in 1 .. Len(versions'[i])
          BY <3>2, <4>1, <5>1
        <5> QED BY <3>1, <4>1, <5>2 DEF Kept
      <4>4. refCode'[i] = refCode[i]
        BY <1>1, <1>4, <3>1 DEF SubmissionInv, Kept
      <4> QED BY <4>1, <4>2, <4>3, <4>4
    <3>6. verdict'[s] = "mismatch" /\ Genuine(file[s])' => attempt'[i] >= 2
      <4>1. refCode'[i] = refCode[i] /\ attempt[i] <= attempt'[i]
        BY <1>1, <1>4, <3>1 DEF SubmissionInv, Kept
      <4>2. verdict[s] = "mismatch" /\ Genuine(file[s]) => attempt[i] >= 2
        BY <1>1, <1>4 DEF SubmissionInv
      <4> QED BY <1>2, <3>2, <4>1, <4>2 DEF Genuine
    <3> QED BY <1>2, <1>4, <2>1, <2>2, <3>1, <3>4, <3>5, <3>6 DEF SubmissionInv, File
  <2> QED BY <2>1, <2>3, <2>4
<1> QED BY <1>3, <1>4

LEMMA PipelineKeepsServer ==
    ASSUME ServerIInv, [Next]_vars, UNCHANGED <<dlVars, subVars>>
    PROVE  ServerIInv'
<1>1. IInv' /\ CodesUnique' /\ \A j \in Invoice : Kept(j)
  <2>1. IInv' /\ \A j \in Invoice : Kept(j)
    BY StepKeepsIInv, PipelineKeeps DEF ServerIInv
  <2> QED BY <2>1, CodesAreUnique
<1>2. BilledOnceWhenReady'
  BY <1>1 DEF ServerIInv, DeliveryInv, BilledOnceWhenReady, Kept, dlVars
<1>3. DownloadTypeOK' /\ VerificationTypeOK'
  BY DEF ServerIInv, DownloadTypeOK, VerificationTypeOK, dlVars, subVars
<1> QED
  BY <1>1, <1>2, <1>3, PipelineKeepsClient, PipelineKeepsSubmission
     DEF ServerIInv, DeliveryInv

-----------------------------------------------------------------------------
(* Steps of a client.                                                      *)
LEMMA ClientKeepsTypes ==
    ASSUME ServerIInv, NEW d \in Client, GetStatus(d) \/ LookUp(d) \/ DownloadStep(d)
    PROVE  DownloadTypeOK'
<1> USE DEF DownloadTypeOK, Answer
<1>0. DownloadTypeOK /\ StoreTypeOK /\ ClientInv(d)
  BY DEF ServerIInv, IInv, WorkerIInv, DeliveryInv
<1>1. CASE GetStatus(d)
  BY <1>0, <1>1 DEF GetStatus
<1>2. CASE LookUp(d)
  BY <1>0, <1>2 DEF LookUp, End
<1>3. CASE GetVersion(d)
  BY <1>0, <1>3 DEF GetVersion, End
<1>4. CASE CreateBillingEvent(d)
  <2>1. /\ dlPc' \in [Client -> {"idle", "version", "bill", "read"}]
        /\ answer' \in [Client -> Answer]
    BY <1>0, <1>4 DEF CreateBillingEvent, End
  <2>2. billed' \in [Invoice -> Nat]
    BY <1>0, <1>4 DEF CreateBillingEvent, InsertEvent
  <2> QED BY <1>0, <1>4, <2>1, <2>2 DEF CreateBillingEvent
<1>5. CASE Stream(d)
  <2>1. /\ dlPc' \in [Client -> {"idle", "version", "bill", "read"}]
        /\ answer' \in [Client -> Answer]
    BY <1>0, <1>5 DEF Stream, End
  <2>2. dlInv[d] \in Invoice
    BY <1>0, <1>5 DEF Stream, ClientInv
  <2>3. body' \in [Client -> Rendering \cup {None}]
    BY <1>0, <1>5, <2>2 DEF Stream, StoreTypeOK
  <2> QED BY <1>0, <1>5, <2>1, <2>3 DEF Stream
<1> QED BY <1>1, <1>2, <1>3, <1>4, <1>5 DEF DownloadStep

(* Two clients that hold the same code hold the same invoice, and no step  *)
(* of one takes the billing event of the other away.                       *)
LEMMA ClientKeepsBilling ==
    ASSUME ServerIInv, NEW d \in Client, GetStatus(d) \/ LookUp(d) \/ DownloadStep(d)
    PROVE  BilledOnceWhenReady' /\ \A i \in Invoice : billed[i] = 1 => billed'[i] = 1
<1>0. DownloadTypeOK /\ ClientInv(d) /\ BilledOnceWhenReady
  BY DEF ServerIInv, DeliveryInv
<1>1. CASE GetStatus(d) \/ LookUp(d) \/ GetVersion(d) \/ Stream(d)
  BY <1>0, <1>1
     DEF GetStatus, LookUp, GetVersion, Stream, BilledOnceWhenReady, storeVars
<1>2. CASE CreateBillingEvent(d)
  BY <1>0, <1>2
     DEF DownloadTypeOK, CreateBillingEvent, InsertEvent, ClientInv, BilledOnceWhenReady,
         storeVars
<1> QED BY <1>1, <1>2 DEF DownloadStep

LEMMA ClientKeepsClient ==
    ASSUME ServerIInv, NEW d \in Client, GetStatus(d) \/ LookUp(d) \/ DownloadStep(d),
           NEW e \in Client
    PROVE  ClientInv(e)'
<1> USE DEF DownloadTypeOK
<1>0. /\ DownloadTypeOK /\ ClientInv(d) /\ ClientInv(e) /\ CodesUnique
      /\ (\A i \in Invoice : billed[i] = 1 => billed'[i] = 1)
  BY ClientKeepsBilling DEF ServerIInv, DeliveryInv
<1>1. UNCHANGED storeVars /\ asked' = asked
  BY DEF GetStatus, LookUp, DownloadStep, GetVersion, CreateBillingEvent, Stream
<1>2. CASE GetStatus(d)
  BY <1>0, <1>1, <1>2 DEF GetStatus, ClientInv, FileOf, HasCode, CodesUnique, storeVars
<1>3. CASE LookUp(d)
  <2>1. CASE e # d
    BY <1>0, <1>1, <1>3, <2>1 DEF LookUp, End, ClientInv, FileOf, HasCode, storeVars
  <2>2. CASE e = d
    BY <1>0, <1>1, <1>3, <2>2, StoreAssumption
       DEF LookUp, End, ClientInv, FileOf, HasCode, CodesUnique, storeVars
  <2> QED BY <2>1, <2>2
<1>4. CASE GetVersion(d)
  BY <1>0, <1>1, <1>4 DEF GetVersion, End, ClientInv, FileOf, HasCode, storeVars
<1>5. CASE CreateBillingEvent(d)
  <2>1. /\ dlInv' = dlInv /\ sawReady' = sawReady /\ body' = body
        /\ answer'[e] = answer[e] \/ answer'[e] = "500"
    BY <1>0, <1>5 DEF CreateBillingEvent, End
  <2>2. ASSUME NEW i \in Invoice, i = dlInv[e], dlPc'[e] = "read"
        PROVE  billed'[i] = 1
    <3>1. CASE e # d
      BY <1>0, <1>5, <2>2, <3>1 DEF CreateBillingEvent, End, ClientInv
    <3>2. CASE e = d
      <4>1. billed[i] \in Nat /\ billed[i] <= 1
        BY DEF ServerIInv, DeliveryInv, BilledOnceWhenReady
      <4>2. InsertEvent(i)
        BY <1>0, <1>5, <2>2, <3>2 DEF CreateBillingEvent, End
      <4> QED BY <1>0, <4>1, <4>2 DEF InsertEvent
    <3> QED BY <3>1, <3>2
  <2>3. dlPc'[e] # "idle" => dlPc[e] # "idle"
    BY <1>0, <1>5 DEF CreateBillingEvent, End
  <2> QED BY <1>0, <1>1, <2>1, <2>2, <2>3 DEF ClientInv, FileOf, HasCode, storeVars
<1>6. CASE Stream(d)
  <2>1. dlInv[d] \in Invoice /\ status[dlInv[d]] = "ready"
    BY <1>0, <1>6 DEF Stream, ClientInv
  <2>2. FileOf(dlInv[d], v1[dlInv[d]])
    BY <2>1, ServedIsFileOf DEF ServerIInv, IInv
  <2> QED BY <1>0, <1>1, <1>6, <2>1, <2>2
       DEF Stream, End, ClientInv, FileOf, HasCode, storeVars
<1> QED BY <1>2, <1>3, <1>4, <1>5, <1>6 DEF DownloadStep

(* What a client does leaves submissions, the worker and the rows alone.   *)
LEMMA ClientKeepsServer ==
    ASSUME ServerIInv, DownloadNext, UNCHANGED <<reqVars, workVars, subVars>>
    PROVE  ServerIInv'
<1>1. PICK d \in Client : GetStatus(d) \/ LookUp(d) \/ DownloadStep(d)
  BY DEF DownloadNext
<1>2. UNCHANGED storeVars
  BY <1>1 DEF GetStatus, LookUp, DownloadStep, GetVersion, CreateBillingEvent, Stream
<1>3. IInv' /\ CodesUnique'
  BY <1>2, StepKeepsIInv, CodesAreUnique DEF ServerIInv, vars
<1>4. VerificationTypeOK'
  BY DEF ServerIInv, VerificationTypeOK, subVars
<1>5. ASSUME NEW s \in Submission PROVE SubmissionInv(s)'
  <2>1. SubmissionInv(s)
    BY DEF ServerIInv, DeliveryInv
  <2> QED BY <1>2, <2>1 DEF SubmissionInv, Genuine, FileOf, HasCode, storeVars, subVars
<1> QED
  BY <1>1, <1>3, <1>4, <1>5, ClientKeepsTypes, ClientKeepsBilling, ClientKeepsClient
     DEF ServerIInv, DeliveryInv

-----------------------------------------------------------------------------
(* Steps of a submission.                                                  *)
LEMMA SubmitKeepsTypes ==
    ASSUME VerificationTypeOK, StoreTypeOK, NEW s \in Submission,
           (\E f \in File : Submit(s, f)) \/ SubmitStep(s)
    PROVE  VerificationTypeOK'
<1> USE DEF VerificationTypeOK, Verdict
<1>1. CASE \E f \in File : Submit(s, f)
  BY <1>1 DEF Submit, Judge
<1>2. CASE FindInvoice(s)
  BY <1>2 DEF FindInvoice, Judge
<1>3. CASE Compare(s)
  <2>1. CASE \E k \in LatestVersion(subInv[s]) :
                /\ matched' = [matched EXCEPT ![s] = k]
                /\ Judge(s, IF SameBytes(file[s], subInv[s], k)
                            THEN "match" ELSE "mismatch")
    BY <1>3, <2>1 DEF Compare, Judge, LatestVersion
  <2> QED BY <1>3, <2>1 DEF Compare
<1>4. CASE Save(s)
  BY <1>4 DEF Save
<1> QED BY <1>1, <1>2, <1>3, <1>4 DEF SubmitStep

(* A downloaded file comes with what its client knows of the invoice.      *)
LEMMA SubmitKeepsSubmission ==
    ASSUME ServerIInv, NEW s \in Submission, NEW f \in File,
           Downloaded(f) \/ Foreign(f), Submit(s, f)
    PROVE  SubmissionInv(s)'
<1> USE DEF VerificationTypeOK
<1>1. VerificationTypeOK /\ SubmissionInv(s) /\ subPc[s] = "new" /\ UNCHANGED storeVars
  BY DEF ServerIInv, DeliveryInv, Submit
<1>2. f.of # None => status[f.of] = "ready" /\ FileOf(f.of, f.doc)
  BY DEF ServerIInv, DeliveryInv, ClientInv, Downloaded, Foreign
<1>3. /\ file'[s] = f
      /\ subPc'[s] \in {"save", "lookup"}
      /\ verdict'[s] \in {"none", "not_found"}
  BY <1>1 DEF Submit, Judge, SubmissionInv
<1> QED BY <1>1, <1>2, <1>3 DEF SubmissionInv, FileOf, storeVars

(* The row found by the code is the file's own, if the code is; and while  *)
(* there was no second attempt, that row has one hash, the file's.         *)
LEMMA CompareKeepsSubmission ==
    ASSUME ServerIInv, NEW s \in Submission, Compare(s)
    PROVE  SubmissionInv(s)'
<1> USE DEF VerificationTypeOK
<1>1. /\ VerificationTypeOK /\ SubmissionInv(s) /\ CodesUnique
      /\ subPc[s] = "compare" /\ UNCHANGED storeVars /\ file' = file /\ subInv' = subInv
  BY DEF ServerIInv, DeliveryInv, Compare
<1>2. /\ file[s] \in File /\ subInv[s] \in Invoice
      /\ HasCode(subInv[s], file[s].ref)
      /\ file[s].of # None =>
            /\ file[s].of \in Invoice
            /\ status[file[s].of] = "ready" /\ FileOf(file[s].of, file[s].doc)
  BY <1>1 DEF SubmissionInv, File
<1>3. CASE subPc' = [subPc EXCEPT ![s] = "failed"] /\ verdict' = verdict
  BY <1>1, <1>3 DEF SubmissionInv, FileOf, Genuine, storeVars
<1>4. ASSUME NEW k \in LatestVersion(subInv[s]),
             Judge(s, IF SameBytes(file[s], subInv[s], k) THEN "match" ELSE "mismatch")
      PROVE  SubmissionInv(s)'
  <2>1. /\ subPc'[s] = "save"
        /\ verdict'[s] = IF SameBytes(file[s], subInv[s], k) THEN "match" ELSE "mismatch"
    BY <1>1, <1>4 DEF Judge
  <2>2. verdict'[s] = "match" =>
            /\ file[s].of # None /\ refCode[file[s].of] = file[s].ref
            /\ \E n \in 1 .. Len(versions[file[s].of]) :
                    versions[file[s].of][n] = file[s].doc
    BY <1>2, <1>4, <2>1, StoreAssumption DEF SameBytes, LatestVersion, HasCode
  <2>3. ASSUME verdict'[s] = "mismatch", Genuine(file[s]), attempt[file[s].of] <= 1
        PROVE  FALSE
    <3>1. file[s].of = subInv[s]
      BY <1>1, <1>2, <2>3 DEF CodesUnique, Genuine, HasCode
    <3>2. versions[subInv[s]] = <<file[s].doc>>
      BY <1>2, <2>3, <3>1, StoreAssumption DEF FileOf
    <3>3. k = 1
      BY <3>2 DEF LatestVersion
    <3> QED BY <2>1, <2>3, <3>1, <3>2, <3>3 DEF SameBytes
  <2>4. verdict'[s] = "mismatch" /\ Genuine(file[s]) => attempt[file[s].of] >= 2
    <3>1. file[s].of # None => attempt[file[s].of] \in Nat
      BY <1>2, StoreAssumption DEF ServerIInv, IInv, WorkerIInv, StoreTypeOK
    <3> QED BY <2>3, <3>1 DEF Genuine
  <2> QED BY <1>1, <1>2, <2>1, <2>2, <2>4 DEF SubmissionInv, FileOf, Genuine, storeVars
<1> QED BY <1>3, <1>4 DEF Compare

LEMMA SubmissionKeepsServer ==
    ASSUME ServerIInv, NEW s \in Submission, UNCHANGED <<reqVars, workVars, dlVars>>,
           \/ \E f \in File : (Downloaded(f) \/ Foreign(f)) /\ Submit(s, f)
           \/ SubmitStep(s)
    PROVE  ServerIInv'
<1>1. /\ UNCHANGED storeVars
      /\ \A t \in Submission \ {s} :
            /\ file'[t] = file[t] /\ subPc'[t] = subPc[t] /\ subInv'[t] = subInv[t]
            /\ verdict'[t] = verdict[t]
  BY DEF Submit, SubmitStep, FindInvoice, Compare, Save, Judge, ServerIInv, VerificationTypeOK
<1>2. IInv' /\ CodesUnique'
  BY <1>1, StepKeepsIInv, CodesAreUnique DEF ServerIInv, vars
<1>3. BilledOnceWhenReady' /\ DownloadTypeOK'
  BY <1>1 DEF ServerIInv, DeliveryInv, BilledOnceWhenReady, DownloadTypeOK, storeVars, dlVars
<1>4. ASSUME NEW d \in Client PROVE ClientInv(d)'
  <2>1. ClientInv(d)
    BY DEF ServerIInv, DeliveryInv
  <2> QED BY <1>1, <2>1 DEF ClientInv, FileOf, HasCode, storeVars, dlVars
<1>5. VerificationTypeOK'
  BY SubmitKeepsTypes DEF ServerIInv, IInv, WorkerIInv
<1>6. SubmissionInv(s)'
  <2>1. VerificationTypeOK /\ SubmissionInv(s)
    BY DEF ServerIInv, DeliveryInv
  <2>2. CASE FindInvoice(s)
    BY <1>1, <2>1, <2>2, StoreAssumption
       DEF FindInvoice, Judge, VerificationTypeOK, SubmissionInv, FileOf, HasCode, Genuine,
           storeVars
  <2>3. CASE Save(s)
    BY <1>1, <2>1, <2>3
       DEF Save, VerificationTypeOK, SubmissionInv, FileOf, HasCode, Genuine, storeVars
  <2> QED BY <2>2, <2>3, SubmitKeepsSubmission, CompareKeepsSubmission DEF SubmitStep
<1>7. ASSUME NEW t \in Submission \ {s} PROVE SubmissionInv(t)'
  <2>1. SubmissionInv(t)
    BY DEF ServerIInv, DeliveryInv
  <2> QED BY <1>1, <2>1 DEF SubmissionInv, Genuine, FileOf, HasCode, storeVars
<1> QED BY <1>2, <1>3, <1>4, <1>5, <1>6, <1>7 DEF ServerIInv, DeliveryInv

-----------------------------------------------------------------------------
LEMMA Starts == ServerInit => ServerIInv
<1> SUFFICES ASSUME ServerInit PROVE ServerIInv
  OBVIOUS
<1> USE DEF ServerInit, DownloadInit, VerificationInit
<1>1. IInv /\ CodesUnique
  BY InitIInv, CodesAreUnique
<1>2. DownloadTypeOK /\ VerificationTypeOK
  BY DEF DownloadTypeOK, VerificationTypeOK, Answer, Verdict
<1>3. BilledOnceWhenReady
  <2>1. ASSUME NEW i \in Invoice PROVE billed[i] = 0
    OBVIOUS
  <2>2. ASSUME NEW i \in Invoice PROVE billed[i] <= 1 /\ billed[i] # 1
    BY <2>1
  <2> QED BY <2>2 DEF BilledOnceWhenReady
<1>4. (\A d \in Client : ClientInv(d)) /\ (\A s \in Submission : SubmissionInv(s))
  BY DEF ClientInv, SubmissionInv
<1> QED BY <1>1, <1>2, <1>3, <1>4 DEF ServerIInv, DeliveryInv

LEMMA ServerStep == ServerIInv /\ [ServerNext]_serverVars => ServerIInv'
BY PipelineKeepsServer, ClientKeepsServer, SubmissionKeepsServer DEF ServerNext, serverVars

(* ServerIInv holds in every behaviour of the server.                      *)
LEMMA Always == ServerSpec => []ServerIInv
BY Starts, ServerStep, PTL DEF ServerSpec

(* To requests and worker, downloads and verifications do not exist: the   *)
(* server is a pipeline, whatever clients and employees do.                *)
THEOREM ServerIsAPipeline == ServerSpec => Init /\ [][Next]_vars
<1>1. ServerInit => Init
  BY DEF ServerInit
<1>2. [ServerNext]_serverVars => [Next]_vars
  <2>1. ASSUME DownloadNext, UNCHANGED <<reqVars, workVars, subVars>>
        PROVE  UNCHANGED vars
    BY <2>1
       DEF DownloadNext, GetStatus, LookUp, DownloadStep, GetVersion, CreateBillingEvent,
           Stream, vars
  <2>2. ASSUME NEW s \in Submission, (\E f \in File : Submit(s, f)) \/ SubmitStep(s),
               UNCHANGED <<reqVars, workVars, dlVars>>
        PROVE  UNCHANGED vars
    BY <2>2 DEF Submit, SubmitStep, FindInvoice, Compare, Save, vars
  <2> QED BY <2>1, <2>2 DEF ServerNext, serverVars
<1> QED BY <1>1, <1>2, PTL DEF ServerSpec

(* So the server as a whole implements the ledger of invoices.             *)
THEOREM ServerRefinesLedger == ServerSpec => ImplementsLedger
<1>1. Init => Ledger!LedgerInit
  BY DEF Init, IssuanceInit, StoreInit, Ledger!LedgerInit
<1> QED
  BY ServerIsAPipeline, InitIInv, StepKeepsIInv, StepRefines, <1>1, PTL
     DEF ImplementsLedger, Ledger!LedgerSpec

(* The types of all components, and the invariant the properties rest on.  *)
THEOREM DeliverySafe == ServerSpec => [](ServerTypeOK /\ DeliveryInv)
<1>1. ServerIInv => ServerTypeOK /\ DeliveryInv
  BY DEF ServerIInv, IInv, WorkerIInv, ServerTypeOK, TypeOK
<1> QED BY Always, <1>1, PTL

(* A download that has passed its status check meets no missing row and no *)
(* missing object, whatever the worker reruns meanwhile.                   *)
THEOREM DownloadsReachTheirFile == ServerSpec => []NoDeadEnd
<1>1. ServerIInv => NoDeadEnd
  <2> SUFFICES ASSUME ServerIInv, NEW d \in Client, dlPc[d] # "idle"
               PROVE  /\ status[dlInv[d]] = "ready"
                      /\ versions[dlInv[d]] # <<>> /\ v1[dlInv[d]] # None
    BY DEF NoDeadEnd
  <2>1. dlInv[d] \in Invoice /\ status[dlInv[d]] = "ready"
    BY DEF ServerIInv, DeliveryInv, ClientInv, DownloadTypeOK
  <2> QED BY <2>1, InvImpliesProperties DEF ServerIInv, IInv, ReadyIsComplete
<1> QED BY Always, <1>1, PTL

(* "ready": true is never taken back by a later download.                  *)
THEOREM ReadyStaysReady == ServerSpec => []ReadyIsReliable
<1>1. ServerIInv => ReadyIsReliable
  BY DEF ServerIInv, DeliveryInv, ClientInv, ReadyIsReliable
<1> QED BY Always, <1>1, PTL

(* Any number of concurrent downloads bill an invoice once, when ready.    *)
THEOREM BilledAtMostOnce == ServerSpec => []BilledOnceWhenReady
<1>1. ServerIInv => BilledOnceWhenReady
  BY DEF ServerIInv, DeliveryInv
<1> QED BY Always, <1>1, PTL

(* No file is in a client's hands that was not billed.                     *)
THEOREM NoFileUnbilled == ServerSpec => []DeliveredIsBilled
<1>1. ServerIInv => DeliveredIsBilled
  BY DEF ServerIInv, DeliveryInv, ClientInv, DeliveredIsBilled
<1> QED BY Always, <1>1, PTL

(* A match vouches for the bytes and for the invoice of the code in them.  *)
THEOREM MatchesAreAuthentic == ServerSpec => []MatchIsAuthentic
<1>1. ServerIInv => MatchIsAuthentic
  BY DEF ServerIInv, DeliveryInv, SubmissionInv, MatchIsAuthentic
<1> QED BY Always, <1>1, PTL

(* A genuine file is refused only after a second attempt at its job.       *)
THEOREM MismatchNeedsRetry == ServerSpec => []GenuineMismatchNeedsRetry
<1>1. ServerIInv => GenuineMismatchNeedsRetry
  BY DEF ServerIInv, DeliveryInv, SubmissionInv, GenuineMismatchNeedsRetry
<1> QED BY Always, <1>1, PTL

-----------------------------------------------------------------------------
(* Stamping leaves no file without a code: whatever the extraction misses, *)
(* the comment is still there for its last method.                         *)
LEMMA StampLeavesCode ==
    ASSUME NEW c \in Code
    PROVE  None \notin FoundCodes[c]
<1>1. ASSUME NEW f \in Content, NEW g \in Stamp(f, c)
      PROVE  ExtractRefCode(g) # None
  <2>1. PICK h \in Stamped(f, c) \cup {f} : g = [h EXCEPT !.bytes = First(@, c)]
    BY <1>1 DEF Stamp
  <2>2. h \in Content
    BY <2>1 DEF Stamped, Content, MaybeCode
  <2>3. g.bytes # None
    BY <2>1, <2>2, StoreAssumption DEF Content, First
  <2> QED BY <2>3 DEF ExtractRefCode, First
<1>2. FoundCodes[c] = { ExtractRefCode(g) : g \in UNION { Stamp(f, c) : f \in Content } }
  BY DEF FoundCodes
<1> QED BY <1>1, <1>2

(* What is found in a stamped file is the code stamped, unless the PDF     *)
(* brought another along: stamp_worker.go:65-66 promises it of every file. *)
THEOREM StampIsFoundUnlessForeign ==
    ASSUME NEW c \in Code, NEW f \in Content,
           {f.qr, f.text, f.word, f.bytes} \subseteq {c, None},
           NEW g \in Stamp(f, c)
    PROVE  ExtractRefCode(g) = c
<1>1. PICK h \in Stamped(f, c) \cup {f} : g = [h EXCEPT !.bytes = First(@, c)]
  BY DEF Stamp
<1>2. /\ h \in Content
      /\ h.qr \in {c, None} /\ h.text \in {c, None}
      /\ h.word \in {c, None} /\ h.bytes \in {c, None}
  BY <1>1 DEF Stamped, Content, MaybeCode
<1>3. g.qr = h.qr /\ g.text = h.text /\ g.word = h.word /\ g.bytes = c
  BY <1>1, <1>2, StoreAssumption DEF Content, First
<1> QED BY <1>2, <1>3 DEF ExtractRefCode, ExtractRefFromText, First

(* A file of the worker is never taken for one without a code.             *)
THEOREM OwnFilesAreLookedUp == ServerSpec => []OwnFileHasCode
<1>1. ServerInit => OwnFileHasCode
  BY DEF ServerInit, VerificationInit, OwnFileHasCode
<1>2. ServerIInv /\ OwnFileHasCode /\ [ServerNext]_serverVars => OwnFileHasCode'
  <2> SUFFICES ASSUME ServerIInv, OwnFileHasCode, [ServerNext]_serverVars PROVE OwnFileHasCode'
    OBVIOUS
  <2>1. CASE UNCHANGED subVars
    BY <2>1 DEF OwnFileHasCode, subVars
  <2>2. ASSUME NEW s \in Submission, NEW f \in File, Downloaded(f) \/ Foreign(f), Submit(s, f)
        PROVE  OwnFileHasCode'
    <3>1. f.of # None => f.ref # None
      <4> SUFFICES ASSUME f.of # None PROVE f.ref # None
        OBVIOUS
      <4>1. PICK d \in Client : /\ body[d] # None /\ f.of = dlInv[d]
                              /\ f.ref \in FoundCodes[refCode[f.of]]
        BY <2>2 DEF Downloaded, Foreign
      <4>2. f.of \in Invoice /\ status[f.of] = "ready"
        BY <4>1 DEF ServerIInv, DeliveryInv, ClientInv, DownloadTypeOK
      <4>3. refCode[f.of] \in Code
        BY <4>2 DEF ServerIInv, IInv, DeliveryInv, CodesUnique, WorkerIInv, StoreTypeOK
      <4> QED BY <4>1, <4>3, StampLeavesCode
    <3>2. VerificationTypeOK
      BY DEF ServerIInv
    <3> QED BY <2>2, <3>1, <3>2 DEF Submit, Judge, OwnFileHasCode, VerificationTypeOK
  <2>3. ASSUME NEW s \in Submission, SubmitStep(s) PROVE OwnFileHasCode'
    <3>1. file' = file /\ subPc[s] # "new"
      BY <2>3 DEF SubmitStep, FindInvoice, Compare, Save
    <3>2. VerificationTypeOK
      BY DEF ServerIInv
    <3>3. \A t \in Submission \ {s} : subPc'[t] = subPc[t]
      BY <2>3, <3>2 DEF SubmitStep, FindInvoice, Compare, Save, Judge, VerificationTypeOK
    <3> QED BY <3>1, <3>3 DEF OwnFileHasCode
  <2> QED BY <2>1, <2>2, <2>3 DEF ServerNext, serverVars
<1> QED BY Always, <1>1, <1>2, PTL DEF ServerSpec
-----------------------------------------------------------------------------
(* Who has bytes of the worker has them from a billed download, and no     *)
(* verdict is given before the bytes are compared.                         *)
Vouchable(s) ==
    /\ subPc[s] \in {"new", "lookup", "compare"} => verdict[s] = "none"
    /\ subPc[s] # "new" /\ file[s].of # None => billed[file[s].of] = 1

DInv == ServerIInv /\ \A s \in Submission : Vouchable(s)

(* The events that are in the table stay there.                            *)
LEMMA BillsStay ==
    ASSUME ServerIInv, [ServerNext]_serverVars, NEW i \in Invoice, billed[i] = 1
    PROVE  billed'[i] = 1
<1>1. CASE DownloadNext
  BY <1>1, ClientKeepsBilling DEF DownloadNext
<1>2. CASE UNCHANGED dlVars
  BY <1>2 DEF dlVars
<1> QED BY <1>1, <1>2 DEF ServerNext, serverVars

LEMMA StepKeepsDInv == DInv /\ [ServerNext]_serverVars => DInv'
<1> SUFFICES ASSUME DInv, [ServerNext]_serverVars PROVE DInv'
  OBVIOUS
<1>1. ServerIInv /\ ServerIInv' /\ VerificationTypeOK /\ \A s \in Submission : Vouchable(s)
  BY ServerStep DEF DInv, ServerIInv
<1>2. ASSUME NEW s \in Submission, subPc[s] # "new"
      PROVE  file[s] \in File
  BY <1>1, <1>2 DEF ServerIInv, DeliveryInv, SubmissionInv
<1>3. ASSUME NEW t \in Submission,
             file'[t] = file[t] /\ subPc'[t] = subPc[t] /\ verdict'[t] = verdict[t]
      PROVE  Vouchable(t)'
  <2>1. subPc[t] # "new" /\ file[t].of # None => file[t].of \in Invoice
    BY <1>2 DEF File
  <2> QED BY <1>1, <1>3, <2>1, BillsStay DEF Vouchable
<1>4. CASE UNCHANGED subVars
  BY <1>1, <1>3, <1>4 DEF DInv, subVars
<1>5. ASSUME NEW s \in Submission, UNCHANGED dlVars,
             NEW f \in File, Downloaded(f) \/ Foreign(f), Submit(s, f)
      PROVE  DInv'
  <2>1. ASSUME NEW t \in Submission \ {s} PROVE Vouchable(t)'
    <3>1. file'[t] = file[t] /\ subPc'[t] = subPc[t] /\ verdict'[t] = verdict[t]
      BY <1>1, <1>5 DEF Submit, Judge, VerificationTypeOK
    <3> QED BY <1>3, <3>1
  <2>2. f.of # None => billed[f.of] = 1
    BY <1>1, <1>5 DEF Downloaded, Foreign, ServerIInv, DeliveryInv, ClientInv
  <2>3. Vouchable(s)'
    BY <1>1, <1>5, <2>2 DEF Submit, Judge, VerificationTypeOK, Vouchable, dlVars
  <2> QED BY <1>1, <2>1, <2>3 DEF DInv
<1>6. ASSUME NEW s \in Submission, UNCHANGED dlVars, SubmitStep(s)
      PROVE  DInv'
  <2>1. ASSUME NEW t \in Submission \ {s} PROVE Vouchable(t)'
    <3>1. file'[t] = file[t] /\ subPc'[t] = subPc[t] /\ verdict'[t] = verdict[t]
      BY <1>1, <1>6
         DEF SubmitStep, FindInvoice, Compare, Save, Judge, VerificationTypeOK
    <3> QED BY <1>3, <3>1
  <2>2. Vouchable(s)'
    <3>1. file' = file /\ billed' = billed /\ subPc[s] # "new"
      BY <1>6 DEF SubmitStep, FindInvoice, Compare, Save, dlVars
    <3>2. subPc'[s] \in {"new", "lookup", "compare"} => verdict'[s] = "none"
      BY <1>1, <1>6
         DEF SubmitStep, FindInvoice, Compare, Save, Judge, VerificationTypeOK, Vouchable
    <3> QED BY <1>1, <3>1, <3>2 DEF Vouchable
  <2> QED BY <1>1, <2>1, <2>2 DEF DInv
<1> QED BY <1>4, <1>5, <1>6 DEF ServerNext, serverVars

-----------------------------------------------------------------------------
(* Delivery as its ledger sees it.                                         *)
Held(d) == IF body[d] = None THEN None ELSE [inv |-> dlInv[d], doc |-> body[d]]
VouchedFor(s) ==
    IF verdict[s] # "match" THEN None ELSE [inv |-> file[s].of, doc |-> file[s].doc]
Hand == [d \in Client |-> Held(d)]
Word == [s \in Submission |-> VouchedFor(s)]

(* A step of a client hands a file over, or bills, or shows nothing.       *)
LEMMA ClientDelivers ==
    ASSUME ServerIInv, NEW d \in Client, GetStatus(d) \/ LookUp(d) \/ DownloadStep(d)
    PROVE  \/ UNCHANGED <<billed, Hand>>
           \/ \E i \in Invoice :
                \/ /\ status[i] = "ready" /\ billed[i] = 0
                   /\ billed' = [billed EXCEPT ![i] = 1] /\ UNCHANGED Hand
                \/ /\ billed[i] = 1 /\ v1[i] # None
                   /\ Hand[d] = None \/ Hand[d].inv = i
                   /\ Hand' = [Hand EXCEPT ![d] = [inv |-> i, doc |-> v1[i]]]
                   /\ UNCHANGED billed
<1> USE DEF DownloadTypeOK
<1>1. DownloadTypeOK /\ ClientInv(d) /\ CodesUnique
  BY DEF ServerIInv, DeliveryInv
<1>2. CASE GetStatus(d)
  BY <1>2 DEF GetStatus, Hand, Held
<1>3. CASE LookUp(d)
  <2>1. body' = body /\ billed' = billed
    BY <1>3 DEF LookUp
  <2>2. \A e \in Client \ {d} : dlInv'[e] = dlInv[e]
    BY <1>1, <1>3 DEF LookUp
  <2>3. dlInv[d] # None => dlInv'[d] = dlInv[d]
    BY <1>1, <1>3 DEF LookUp, ClientInv, CodesUnique, HasCode
  <2>4. body[d] # None => dlInv[d] # None
    BY <1>1 DEF ClientInv
  <2>5. \A e \in Client : Held(e)' = Held(e)
    BY <2>1, <2>2, <2>3, <2>4 DEF Held
  <2> QED BY <2>1, <2>5 DEF Hand
<1>4. CASE GetVersion(d)
  BY <1>4 DEF GetVersion, Hand, Held
<1>5. CASE CreateBillingEvent(d)
  <2>1. UNCHANGED Hand
    BY <1>5 DEF CreateBillingEvent, Hand, Held
  <2>2. dlInv[d] \in Invoice /\ status[dlInv[d]] = "ready"
    BY <1>1, <1>5 DEF CreateBillingEvent, ClientInv
  <2>3. CASE InsertEvent(dlInv[d])
    <3>1. CASE billed[dlInv[d]] = 0
      BY <1>1, <2>1, <2>2, <2>3, <3>1 DEF InsertEvent
    <3>2. CASE billed[dlInv[d]] # 0
      <4>1. billed' = billed
        BY <1>1, <2>2, <2>3, <3>2 DEF InsertEvent
      <4> QED BY <2>1, <4>1
    <3> QED BY <3>1, <3>2
  <2> QED BY <1>5, <2>1, <2>3 DEF CreateBillingEvent
<1>6. CASE Stream(d)
  <2>1. dlInv[d] \in Invoice /\ billed[dlInv[d]] = 1 /\ UNCHANGED billed
    BY <1>1, <1>6 DEF Stream, ClientInv
  <2>2. CASE body' = [body EXCEPT ![d] = v1[dlInv[d]]] /\ v1[dlInv[d]] # None
    <3>1. dlInv' = dlInv
      BY <1>6 DEF Stream
    <3>2. Held(d)' = [inv |-> dlInv[d], doc |-> v1[dlInv[d]]]
      BY <1>1, <2>2, <3>1 DEF Held
    <3>3. \A e \in Client \ {d} : Held(e)' = Held(e)
      BY <1>1, <2>2, <3>1 DEF Held
    <3>4. Hand' = [Hand EXCEPT ![d] = [inv |-> dlInv[d], doc |-> v1[dlInv[d]]]]
      BY <3>2, <3>3 DEF Hand
    <3>5. Hand[d] = None \/ Hand[d].inv = dlInv[d]
      BY DEF Hand, Held
    <3> QED BY <2>1, <2>2, <3>4, <3>5
  <2>3. CASE UNCHANGED body
    BY <1>6, <2>1, <2>3 DEF Stream, Hand, Held
  <2> QED BY <1>6, <2>2, <2>3 DEF Stream
<1> QED BY <1>2, <1>3, <1>4, <1>5, <1>6 DEF DownloadStep

(* A step of a submission vouches for its file, or says nothing.           *)
LEMMA SubmissionDelivers ==
    ASSUME DInv, NEW s \in Submission,
           (\E f \in File : Submit(s, f)) \/ SubmitStep(s)
    PROVE  \/ UNCHANGED Word
           \/ /\ Word[s] = None
              /\ \E i \in Invoice : billed[i] = 1 /\ \E k \in 1 .. Len(versions[i]) :
                    Word' = [Word EXCEPT ![s] = [inv |-> i, doc |-> versions[i][k]]]
<1> USE DEF VerificationTypeOK
<1>1. VerificationTypeOK /\ Vouchable(s) /\ SubmissionInv(s)
  BY DEF DInv, ServerIInv, DeliveryInv
<1>2. \A t \in Submission \ {s} : VouchedFor(t)' = VouchedFor(t)
  <2>1. \A t \in Submission \ {s} : file'[t] = file[t] /\ verdict'[t] = verdict[t]
    BY <1>1 DEF Submit, SubmitStep, FindInvoice, Compare, Save, Judge
  <2> QED BY <2>1 DEF VouchedFor
<1>3. ASSUME verdict[s] # "match", verdict'[s] # "match"
      PROVE  UNCHANGED Word
  BY <1>2, <1>3 DEF Word, VouchedFor
<1>4. CASE \E f \in File : Submit(s, f)
  BY <1>1, <1>3, <1>4 DEF Submit, Judge, Vouchable
<1>5. CASE FindInvoice(s)
  BY <1>1, <1>3, <1>5 DEF FindInvoice, Judge, Vouchable
<1>6. CASE Save(s)
  BY <1>6 DEF Save, Word, VouchedFor
<1>7. CASE Compare(s)
  <2>1. verdict[s] = "none" /\ file' = file /\ subInv[s] \in Invoice
    BY <1>1, <1>7 DEF Compare, Vouchable, SubmissionInv
  <2>2. CASE verdict' = verdict
    BY <1>3, <2>1, <2>2
  <2>3. ASSUME NEW k \in LatestVersion(subInv[s]),
               Judge(s, IF SameBytes(file[s], subInv[s], k) THEN "match" ELSE "mismatch"),
               SameBytes(file[s], subInv[s], k)
        PROVE  /\ Word[s] = None
               /\ \E i \in Invoice : billed[i] = 1 /\ \E n \in 1 .. Len(versions[i]) :
                    Word' = [Word EXCEPT ![s] = [inv |-> i, doc |-> versions[i][n]]]
    <3>1. /\ file[s].of = subInv[s] /\ file[s].doc = versions[subInv[s]][k]
          /\ verdict'[s] = "match"
      BY <1>1, <2>3 DEF SameBytes, Judge
    <3>2. billed[subInv[s]] = 1
      BY <1>1, <1>7, <2>1, <3>1, StoreAssumption DEF Compare, Vouchable
    <3>3. VouchedFor(s)' = [inv |-> subInv[s], doc |-> versions[subInv[s]][k]]
      BY <2>1, <3>1 DEF VouchedFor
    <3>4. Word' = [Word EXCEPT ![s] = [inv |-> subInv[s], doc |-> versions[subInv[s]][k]]]
      BY <1>2, <3>3 DEF Word
    <3>5. Word[s] = None
      BY <2>1 DEF Word, VouchedFor
    <3> QED BY <2>1, <2>3, <3>2, <3>4, <3>5 DEF LatestVersion
  <2>4. ASSUME NEW k \in LatestVersion(subInv[s]),
               Judge(s, IF SameBytes(file[s], subInv[s], k) THEN "match" ELSE "mismatch"),
               ~SameBytes(file[s], subInv[s], k)
        PROVE  UNCHANGED Word
    BY <1>1, <1>3, <2>1, <2>4 DEF Judge
  <2> QED BY <1>7, <2>2, <2>3, <2>4 DEF Compare
<1> QED BY <1>4, <1>5, <1>6, <1>7 DEF SubmitStep

(* Each step of the server is one of what is promised.                     *)
LEMMA StepDelivers ==
    DInv /\ [ServerNext]_serverVars => [Promised!DeliveryNext]_Promised!deliveryVars
<1> SUFFICES ASSUME DInv, [ServerNext]_serverVars
             PROVE  \/ Promised!DeliveryNext
                    \/ UNCHANGED <<status, v1, versions, billed, Hand, Word>>
  BY DEF Promised!deliveryVars, Promised!ledgerVars, Hand, Word, Held, VouchedFor
<1>1. CASE [Next]_vars /\ UNCHANGED <<dlVars, subVars>>
  <2>1. UNCHANGED <<billed, Hand, Word>>
    BY <1>1 DEF dlVars, subVars, Hand, Word, Held, VouchedFor
  <2>2. Ledger!LedgerNext \/ UNCHANGED <<status, v1, versions>>
    BY <1>1, StepRefines DEF DInv, ServerIInv, Ledger!ledgerVars
  <2> QED
    BY <2>1, <2>2
       DEF Promised!DeliveryNext, Hand, Word, Held, VouchedFor,
           Ledger!LedgerNext, Ledger!Open, Ledger!Serve, Ledger!Record, Ledger!Publish,
           Promised!LedgerNext, Promised!Open, Promised!Serve, Promised!Record,
           Promised!Publish
<1>2. ASSUME NEW d \in Client, GetStatus(d) \/ LookUp(d) \/ DownloadStep(d),
             UNCHANGED <<reqVars, workVars, subVars>>
      PROVE  \/ Promised!DeliveryNext
             \/ UNCHANGED <<status, v1, versions, billed, Hand, Word>>
  <2>1. UNCHANGED <<status, v1, versions, Word>>
    BY <1>2
       DEF GetStatus, LookUp, DownloadStep, GetVersion, CreateBillingEvent, Stream,
           storeVars, subVars, Word, VouchedFor
  <2> QED
    BY <1>2, <2>1, ClientDelivers
       DEF DInv, Hand, Word, Held, VouchedFor, Promised!DeliveryNext, Promised!Bill,
           Promised!HandOver, Promised!FileRecord, Promised!ledgerVars
<1>3. ASSUME NEW s \in Submission, (\E f \in File : Submit(s, f)) \/ SubmitStep(s),
             UNCHANGED <<reqVars, workVars, dlVars>>
      PROVE  \/ Promised!DeliveryNext
             \/ UNCHANGED <<status, v1, versions, billed, Hand, Word>>
  <2>1. UNCHANGED <<status, v1, versions, billed, Hand>>
    BY <1>3
       DEF Submit, SubmitStep, FindInvoice, Compare, Save, storeVars, dlVars, Hand, Held
  <2>2. ASSUME NEW i \in Invoice, NEW k \in 1 .. Len(versions[i]),
               Word[s] = None, billed[i] = 1,
               Word' = [Word EXCEPT ![s] = [inv |-> i, doc |-> versions[i][k]]]
        PROVE  Promised!DeliveryNext
    <3>1. Promised!Vouch(s, i)
      BY <2>1, <2>2
         DEF Hand, Word, Held, VouchedFor, Promised!Vouch, Promised!FileRecord,
             Promised!ledgerVars
    <3> QED BY <3>1 DEF Promised!DeliveryNext
  <2> QED BY <1>3, <2>1, <2>2, SubmissionDelivers
<1> QED BY <1>1, <1>2, <1>3 DEF ServerNext, DownloadNext, serverVars

(* The server, with all its requests, implements the ledger of deliveries: *)
(* seen from outside, an invoice is billed, handed over and vouched for at *)
(* single moments, in this order (ImplementsDelivery).                     *)
THEOREM DeliveryKeepsItsPromise == ServerSpec => ImplementsDelivery
<1>1. ServerInit => DInv
  <2>1. ServerInit => \A s \in Submission : Vouchable(s)
    BY DEF ServerInit, VerificationInit, Vouchable
  <2> QED BY <2>1, Starts DEF DInv
<1>2. ServerInit => Promised!DeliveryInit
  BY DEF ServerInit, Init, IssuanceInit, StoreInit, DownloadInit, VerificationInit,
       Promised!DeliveryInit, Promised!LedgerInit
<1> QED
  BY <1>1, <1>2, StepKeepsDInv, StepDelivers, PTL
     DEF ServerSpec, ImplementsDelivery, Promised!DeliverySpec
=============================================================================
