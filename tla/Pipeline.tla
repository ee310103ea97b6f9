------------------------------ MODULE Pipeline ------------------------------
(***************************************************************************)
(* The API's CreateInvoice requests and the worker process, meeting in the *)
(* database, the bucket and the queue.                                     *)
(***************************************************************************)
EXTENDS Issuance, StampWorker

vars == <<storeVars, reqVars, workVars>>

Init == IssuanceInit /\ WorkInit

Next ==
    \/ IssuanceNext /\ UNCHANGED workVars
    \/ WorkerNext /\ UNCHANGED reqVars

(* A request handler is a goroutine: it takes its next step until it ends. *)
(* The worker is as fair as in StampWorker.                                *)
Fairness ==
    /\ \A r \in Request : WF_vars(Issue(r) /\ UNCHANGED workVars)
    /\ \A i \in Invoice :
        /\ WF_vars(Start(i) /\ UNCHANGED reqVars)
        /\ WF_vars(Work(i) /\ UNCHANGED reqVars)
        /\ WF_vars(Rescue(i) /\ UNCHANGED reqVars)

Spec == Init /\ [][Next]_vars /\ Fairness

-----------------------------------------------------------------------------
TypeOK == IssuanceTypeOK /\ WorkTypeOK

(* The requests and the worker see the same queue; the conjunction is      *)
(* inductive over the steps of both.                                       *)
PipelineInv == RequestInv /\ WorkerInv

(* An acknowledged invoice becomes ready, unless River has given its job   *)
(* up after MaxAttempts failures (invoice.go:104, stamp_worker.go:91).     *)
AckedBecomesReady ==
    \A r \in Request, i \in Invoice :
        reqPc[r] = "acked" /\ reqInv[r] = i ~> status[i] = "ready" \/ job[i] = "discarded"

(* Every create request comes to an end: an amount that is too large for   *)
(* the column is not tried for ever, although the loop takes the error for *)
(* a collision of codes each time, and it is never acknowledged            *)
(* (handlers.go:66, invoice.go:68-92).                                     *)
RequestsEnd ==
    \A r \in Request :
        <>(reqPc[r] \in {"failed", IF Acceptable(r) THEN "acked" ELSE "rejected"})

(* The pipeline implements the ledger: whatever is lost or run again, each *)
(* step is a step of the ledger or leaves it as it is.                     *)
ImplementsLedger == Ledger!LedgerSpec

(* handlers.go:162 answers every download of a "processing" invoice with   *)
(* "invoice is still processing, try again shortly": some request or job   *)
(* would still be at work on it.                                           *)
ProcessingIsInProgress ==
    \A i \in Invoice : status[i] = "processing" =>
        \/ \E r \in Request : reqPc[r] \in {"insert", "put", "enqueue"}
        \/ job[i] \in {"available", "running", "retryable"}
(* What there is instead: an invoice in processing has a job that may yet  *)
(* run or was given up; or it never had one, because each request that     *)
(* holds it (none, if its insert was retried) is still on its way to the   *)
(* queue or failed before it came there (invoice.go:68-113).               *)
ProcessingIsExplained ==
    \A i \in Invoice : status[i] = "processing" =>
        \/ job[i] \in {"available", "running", "retryable", "discarded"}
        \/ /\ job[i] = "none"
           /\ \A r \in Request : reqInv[r] = i => reqPc[r] \in {"put", "enqueue", "failed"}

(* Nothing a client has seen is taken back, by any step of any request or  *)
(* attempt: the status only goes forward, a recorded hash stays where it   *)
(* is, and there is an object to serve from the first upload on            *)
(* (handlers.go:158-187).                                                  *)
NothingIsWithdrawn ==
    [][\A i \in Invoice :
        /\ \/ status'[i] = status[i]
           \/ status[i] = "absent" /\ status'[i] = "processing"
           \/ status[i] = "processing" /\ status'[i] = "ready"
        /\ Len(versions[i]) <= Len(versions'[i])
        /\ \A k \in 1 .. Len(versions[i]) : versions'[i][k] = versions[i][k]
        /\ v1[i] # None => v1'[i] # None]_vars
=============================================================================
