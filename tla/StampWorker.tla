---------------------------- MODULE StampWorker ----------------------------
(***************************************************************************)
(* cmd/worker: one process whose River client runs at most MaxWorkers      *)
(* stamp_and_hash jobs at a time, each by StampAndHashWorker.Work.  River  *)
(* starts a job again when Work returned an error, and, through its        *)
(* rescuer, when the process died under it, until MaxAttempts is reached.  *)
(* It completes a job only after Work has returned, in a step of its own.  *)
(***************************************************************************)
EXTENDS Store, FiniteSets, SequencesExt

CONSTANT MaxWorkers   \* concurrent jobs of the process (5 in the code)

ASSUME WorkerAssumption == MaxWorkers \in Nat \ {0}

VARIABLES
    pc,     \* what Work does next for the invoice, "idle" if no Work runs
    made    \* the bytes of "stamped" in the running Work

workVars == <<pc, made>>
workerVars == <<storeVars, workVars>>

WorkPc == {"idle", "fetch", "put", "insert", "flip", "return"}

WorkTypeOK ==
    /\ pc \in [Invoice -> WorkPc]
    /\ made \in [Invoice -> Rendering \cup {None}]

WorkInit ==
    /\ pc = [i \in Invoice |-> "idle"]
    /\ made = [i \in Invoice |-> None]

-----------------------------------------------------------------------------
(* River hands the job to a free worker of the pool.                       *)
Start(i) ==
    /\ job[i] \in {"available", "retryable"}
    /\ Cardinality({j \in Invoice : pc[j] # "idle"}) < MaxWorkers
    /\ job' = [job EXCEPT ![i] = "running"]
    /\ attempt' = [attempt EXCEPT ![i] = @ + 1]
    /\ pc' = [pc EXCEPT ![i] = "fetch"]
    /\ UNCHANGED <<status, refCode, raw, v1, versions, made>>

(* River's verdict on a job whose attempt did not succeed.                 *)
Unsuccessful(i) == IF attempt[i] < MaxAttempts THEN "retryable" ELSE "discarded"

(* A call was answered as it should: Work goes on to its next statement.   *)
GoOn(i, next) ==
    /\ pc' = [pc EXCEPT ![i] = next]
    /\ UNCHANGED job

(* Work returns an error, or JobTimeout has cancelled its context.         *)
Return(i) ==
    /\ pc' = [pc EXCEPT ![i] = "idle"]
    /\ job' = [job EXCEPT ![i] = Unsuccessful(i)]

(* Mutants: deliberate bugs the properties must notice.  Here, a Work that *)
(* marks its invoice as being processed when it starts.                    *)
FetchMarks(i) ==
    /\ pc[i] = "fetch"
    /\ UpdateInvoiceStatus(i, "processing")
    /\ \E d \in Rendering : made' = [made EXCEPT ![i] = d]
    /\ GoOn(i, "put")
    /\ UNCHANGED <<refCode, raw, v1, versions, attempt>>

(* stampPDF gives the text stamp and the QR code, the text stamp alone, or *)
(* nothing but the raw file; what it writes also depends on the time.      *)
StampPDF == Rendering

(* Read the row and raw.pdf, and stamp.                                    *)
Fetch(i) ==
    /\ pc[i] = "fetch"
    /\ \/ /\ status[i] # "absent" /\ i \in raw
          /\ \E d \in StampPDF : made' = [made EXCEPT ![i] = d]
          /\ GoOn(i, "put")
       \/ Return(i) /\ UNCHANGED made
    /\ UNCHANGED <<status, refCode, raw, v1, versions, attempt>>

(* Mutants: the version row is forgotten; the file is stamped once more    *)
(* after its hash was taken.                                               *)
PutThenFlip(i) ==
    /\ pc[i] = "put"
    /\ \/ v1' = [v1 EXCEPT ![i] = made[i]] /\ (GoOn(i, "flip") \/ Return(i))
       \/ UNCHANGED v1 /\ Return(i)
    /\ UNCHANGED <<status, refCode, raw, versions, attempt, made>>

PutRestamped(i) ==
    /\ pc[i] = "put"
    /\ \/ v1' \in {[v1 EXCEPT ![i] = d] : d \in Rendering} /\ GoOn(i, "insert")
       \/ UNCHANGED v1 /\ Return(i)
    /\ UNCHANGED <<status, refCode, raw, versions, attempt, made>>

(* Upload v1.pdf, over whatever an earlier attempt has put there.          *)
PutStamped(i) ==
    /\ pc[i] = "put"
    /\ \/ v1' = [v1 EXCEPT ![i] = made[i]] /\ (GoOn(i, "insert") \/ Return(i))
       \/ UNCHANGED v1 /\ Return(i)
    /\ UNCHANGED <<status, refCode, raw, versions, attempt, made>>

(* Mutant: the error of the insert is dropped.                             *)
InsertUnchecked(i) ==
    /\ pc[i] = "insert"
    /\ versions' \in {versions, [versions EXCEPT ![i] = Append(@, made[i])]}
    /\ GoOn(i, "flip")
    /\ UNCHANGED <<status, refCode, raw, v1, attempt, made>>

(* A second attempt inserts a second row.                                  *)
InsertVersion(i) ==
    /\ pc[i] = "insert"
    /\ \/ /\ CreateInvoiceVersion(i, made[i])
          /\ GoOn(i, "flip") \/ Return(i)
       \/ UNCHANGED versions /\ Return(i)
    /\ UNCHANGED <<status, refCode, raw, v1, attempt, made>>

(* Mutants: an update that waits for a row still in processing; an update  *)
(* whose error is dropped.                                                 *)
FlipWaits(i) ==
    /\ pc[i] = "flip" /\ status[i] = "processing"
    /\ UpdateInvoiceStatus(i, "ready") /\ GoOn(i, "return")
    /\ UNCHANGED <<refCode, raw, v1, versions, attempt, made>>

FlipUnchecked(i) ==
    /\ pc[i] = "flip"
    /\ status' \in {status, [status EXCEPT ![i] = "ready"]} /\ GoOn(i, "return")
    /\ UNCHANGED <<refCode, raw, v1, versions, attempt, made>>

(* A second attempt makes a ready invoice ready again.                     *)
FlipReady(i) ==
    /\ pc[i] = "flip"
    /\ \/ UpdateInvoiceStatus(i, "ready") /\ (GoOn(i, "return") \/ Return(i))
       \/ UNCHANGED status /\ Return(i)
    /\ UNCHANGED <<refCode, raw, v1, versions, attempt, made>>

(* Work has returned nil and River records that.                           *)
Complete(i) ==
    /\ pc[i] = "return"
    /\ pc' = [pc EXCEPT ![i] = "idle"]
    /\ job' = [job EXCEPT ![i] = "completed"]
    /\ UNCHANGED <<status, refCode, raw, v1, versions, attempt, made>>

Work(i) ==
    Fetch(i) \/ PutStamped(i) \/ InsertVersion(i) \/ FlipReady(i) \/ Complete(i)

(* The worker process dies and is started again: every running Work is     *)
(* lost, and its job is left in state "running".                           *)
Crash ==
    /\ \E i \in Invoice : pc[i] # "idle"
    /\ pc' = [i \in Invoice |-> "idle"]
    /\ UNCHANGED <<storeVars, made>>

(* Mutant: a rescuer that does not look at the attempts a job has had.     *)
RescueAlways(i) ==
    /\ job[i] = "running" /\ pc[i] = "idle"
    /\ job' = [job EXCEPT ![i] = "retryable"]
    /\ UNCHANGED <<status, refCode, raw, v1, versions, attempt, workVars>>

(* River's rescuer finds a job nobody has finished for RescueStuckJobsAfter *)
(* (an hour), long after JobTimeout (5 minutes) has ended its Work.         *)
Rescue(i) ==
    /\ job[i] = "running" /\ pc[i] = "idle"
    /\ job' = [job EXCEPT ![i] = Unsuccessful(i)]
    /\ UNCHANGED <<status, refCode, raw, v1, versions, attempt, workVars>>

WorkerNext ==
    \/ \E i \in Invoice : Start(i) \/ Work(i) \/ Rescue(i)
    \/ Crash

(* River polls for jobs and runs the rescuer for as long as a worker       *)
(* process is up, and Work has no wait without a timeout.  That a process  *)
(* is up again after a crash is assumed of whoever operates it.            *)
WorkerFairness ==
    \A i \in Invoice :
        /\ WF_workerVars(Start(i))
        /\ WF_workerVars(Work(i))
        /\ WF_workerVars(Rescue(i))

(* The worker alone: some invoices are issued and queued, none is stamped. *)
WorkerInit ==
    /\ \E S \in SUBSET Invoice :
        /\ status = [i \in Invoice |-> IF i \in S THEN "processing" ELSE "absent"]
        /\ job = [i \in Invoice |-> IF i \in S THEN "available" ELSE "none"]
        /\ raw = S
        /\ \E f \in [S -> Code] :
            /\ \A i, j \in S : f[i] = f[j] => i = j
            /\ refCode = [i \in Invoice |-> IF i \in S THEN f[i] ELSE None]
    /\ v1 = [i \in Invoice |-> None]
    /\ versions = [i \in Invoice |-> <<>>]
    /\ attempt = [i \in Invoice |-> 0]
    /\ WorkInit

WorkerSpec == WorkerInit /\ [][WorkerNext]_workerVars /\ WorkerFairness

-----------------------------------------------------------------------------
WorkerTypeOK == StoreTypeOK /\ WorkTypeOK

(* What a client may do with a "ready" invoice works: there is an object   *)
(* to serve and a row to verify against, however often the job was rerun   *)
(* or lost (handlers.go:158-187).                                          *)
ReadyIsComplete ==
    \A i \in Invoice : status[i] = "ready" => v1[i] # None /\ versions[i] # <<>>

(* Once River counts the job as completed, the file that is served is the  *)
(* one whose hash was recorded last: no attempt is left half-way between   *)
(* the upload and the row (stamp_worker.go:73-93).                         *)
CompletedServesRecorded ==
    \A i \in Invoice : job[i] = "completed" =>
        status[i] = "ready" /\ versions[i] # <<>> /\ v1[i] = Last(versions[i])

(* Without a second attempt there is no doubt which file is the invoice:   *)
(* one row, and it is the hash of the file served.                         *)
FirstAttemptIsExact ==
    \A i \in Invoice : attempt[i] <= 1 /\ status[i] = "ready" => versions[i] = <<v1[i]>>

(* Each attempt adds at most one row, so River's limit also bounds how     *)
(* many hashes an invoice can have.                                        *)
VersionsWithinAttempts ==
    \A i \in Invoice : Len(versions[i]) <= attempt[i] /\ attempt[i] <= MaxAttempts

(* The step that makes an invoice ready publishes the file that was just   *)
(* recorded, although upload, row and status are three calls.              *)
FlipPublishesRecorded ==
    [][\A i \in Invoice : status[i] # "ready" /\ status'[i] = "ready" =>
            versions[i] # <<>> /\ v1[i] = Last(versions[i])]_workerVars

(* Without any fairness: a job wears out.  An attempt is paid for when it  *)
(* starts, so whatever fails, crashes or is rescued, and whatever the      *)
(* other jobs do, each move of a job leaves it fewer, out of a number that *)
(* MaxAttempts alone bounds: seven for an attempt, the last of them its    *)
(* rescue.  A file that kills the worker each time it is stamped cannot do *)
(* so for ever (stamp_worker.go:45-100).                                   *)
MovesOfWork ==
    [fetch |-> 6, put |-> 5, insert |-> 4, flip |-> 3, return |-> 2, idle |-> 1]

MovesLeft(i) ==
    7 * (MaxAttempts - attempt[i])
        + (IF job[i] = "running" THEN MovesOfWork[pc[i]] ELSE 0)

JobsWearOut ==
    [][\A i \in Invoice : job[i] # "none" =>
        /\ MovesLeft(i)' >= 0
        /\ \/ MovesLeft(i)' < MovesLeft(i)
           \/ MovesLeft(i)' = MovesLeft(i) /\ job'[i] = job[i] /\ pc'[i] = pc[i]]_workerVars

(* Every queued job comes to rest for good, completed or given up, through *)
(* failing calls, process crashes and lost completions.                    *)
JobSettles ==
    \A i \in Invoice :
        job[i] = "available" ~> [](job[i] \in {"completed", "discarded"} /\ pc[i] = "idle")

(* The rows and the object as InvoiceLedger speaks of them.                *)
Ledger == INSTANCE InvoiceLedger WITH phase <- status, served <- v1, records <- versions

-----------------------------------------------------------------------------
(* The inductive invariant behind the properties above, by what a Work     *)
(* that has come so far knows.                                             *)
JobInv(i) ==
    /\ job[i] # "none" => status[i] # "absent" /\ i \in raw
    /\ job[i] = "none" => status[i] # "ready" /\ v1[i] = None /\ versions[i] = <<>>
    /\ job[i] \in {"none", "available"} => attempt[i] = 0
    /\ job[i] = "retryable" => attempt[i] < MaxAttempts
    /\ job[i] = "running" => attempt[i] >= 1
    /\ pc[i] # "idle" => job[i] = "running"

ProgressInv(i) ==
    /\ pc[i] \in {"put", "insert", "flip", "return"} => made[i] # None
    /\ pc[i] \in {"insert", "flip", "return"} => v1[i] = made[i]
    /\ pc[i] \in {"flip", "return"} => Len(versions[i]) > 0 /\ Last(versions[i]) = made[i]
    /\ pc[i] = "return" => status[i] = "ready"

RecordInv(i) ==
    /\ Len(versions[i]) <= attempt[i]
    /\ pc[i] \in {"fetch", "put", "insert"} => Len(versions[i]) < attempt[i]
    /\ Len(versions[i]) > 0 => v1[i] # None
    /\ status[i] = "ready" => Len(versions[i]) > 0
    /\ attempt[i] <= 1 /\ Len(versions[i]) > 0 => versions[i][1] = v1[i]
    /\ job[i] = "completed" => status[i] = "ready" /\ v1[i] = Last(versions[i])

(* A Work in progress, its job and its rows agree on what has been done.   *)
WorkerInv == \A i \in Invoice : JobInv(i) /\ ProgressInv(i) /\ RecordInv(i)
=============================================================================
