------------------------------ MODULE Delivery ------------------------------
(***************************************************************************)
(* The whole server: requests and worker as in Pipeline, clients that poll *)
(* and download, and employees handing in what was downloaded, or anything *)
(* else, for verification.                                                 *)
(***************************************************************************)
EXTENDS Pipeline, Download, Verification

serverVars == <<vars, dlVars, subVars>>

ServerInit == Init /\ DownloadInit /\ VerificationInit

(* A file that came out of a complete download.  The code found in it need *)
(* not be its own: the raw PDF may have brought one along.                 *)
Downloaded(f) ==
    \E d \in Client :
        /\ body[d] # None /\ f.of = dlInv[d] /\ f.doc = body[d]
        /\ f.ref \in FoundCodes[refCode[f.of]]

(* Anything else: other bytes, with or without a code in them.             *)
Foreign(f) == f.of = None

ServerNext ==
    \/ Next /\ UNCHANGED <<dlVars, subVars>>
    \/ DownloadNext /\ UNCHANGED <<reqVars, workVars, subVars>>
    \/ /\ \E s \in Submission :
            \/ \E f \in File : (Downloaded(f) \/ Foreign(f)) /\ Submit(s, f)
            \/ SubmitStep(s)
       /\ UNCHANGED <<reqVars, workVars, dlVars>>

ServerSpec == ServerInit /\ [][ServerNext]_serverVars

-----------------------------------------------------------------------------
ServerTypeOK == TypeOK /\ DownloadTypeOK /\ VerificationTypeOK

(* A download that has passed the status check runs into no missing row    *)
(* and no missing object, although the check, the version and the object   *)
(* are read in three calls while a job may be run again (handlers.go:158). *)
NoDeadEnd ==
    \A d \in Client : dlPc[d] # "idle" =>
        /\ status[dlInv[d]] = "ready"
        /\ versions[dlInv[d]] # <<>> /\ v1[dlInv[d]] # None

(* A client that was told "ready": true is not told "still processing"     *)
(* afterwards, whatever the worker repeats (handlers.go:131, 158).         *)
ReadyIsReliable == \A d \in Client : sawReady[d] => answer[d] # "202"

(* However many clients download one invoice at a time, and however often  *)
(* they try again, it is billed once, and not before it is ready           *)
(* (handlers.go:174, billing_events.go:13-15).                             *)
BilledOnceWhenReady ==
    \A i \in Invoice : billed[i] <= 1 /\ (billed[i] = 1 => status[i] = "ready")

(* Nobody holds a file that was not billed: the event is in the table      *)
(* before the first byte is sent (handlers.go:174-192).                    *)
DeliveredIsBilled == \A d \in Client : body[d] # None => billed[dlInv[d]] = 1

(* A match says that these very bytes were recorded for the invoice whose  *)
(* code is in them: a tampered file never has one, nor has the file of one *)
(* invoice under the code of another (verification.go:79-100).             *)
MatchIsAuthentic ==
    \A s \in Submission : verdict[s] = "match" =>
        LET i == file[s].of IN
        /\ i # None /\ refCode[i] = file[s].ref
        /\ \E k \in 1 .. Len(versions[i]) : versions[i][k] = file[s].doc

(* The file is one the worker made, and its own code was found in it.      *)
Genuine(f) == f.of # None /\ f.ref = refCode[f.of]

(* A genuine file is called a mismatch only if the worker has run the job  *)
(* of its invoice a second time, wherever the submission meets the job.    *)
GenuineMismatchNeedsRetry ==
    \A s \in Submission : verdict[s] = "mismatch" /\ Genuine(file[s]) =>
        attempt[file[s].of] >= 2

(* Whatever stamping made of it, and whatever the PDF brought along, a     *)
(* file of the worker is never taken for one without a code: a not_found   *)
(* for it comes from the lookup (stamp_worker.go:64-67).                   *)
OwnFileHasCode ==
    \A s \in Submission : subPc[s] # "new" /\ file[s].of # None => file[s].ref # None

(* Worker, downloads and submissions together implement the ledger of what *)
(* is delivered: between a check and the read it was made for another      *)
(* process may do anything, and yet every invoice is billed once and when  *)
(* it is ready, every file that is handed over is billed before and the    *)
(* one served then, and every match is for a file recorded, and billed     *)
(* (handlers.go:158-192, verification.go:79-100).                          *)
Promised ==
    INSTANCE DeliveryLedger WITH
        phase <- status, served <- v1, records <- versions,
        held <- [d \in Client |->
                    IF body[d] = None THEN None ELSE [inv |-> dlInv[d], doc |-> body[d]]],
        vouched <- [s \in Submission |->
                    IF verdict[s] # "match" THEN None
                    ELSE [inv |-> file[s].of, doc |-> file[s].doc]]
ImplementsDelivery == Promised!DeliverySpec

-----------------------------------------------------------------------------
(* The inductive invariant behind the properties above.  A file that was   *)
(* handed out is the only record of its invoice until a second attempt.    *)
FileOf(i, d) == attempt[i] <= 1 => versions[i] = <<d>>

ClientInv(d) ==
    LET i == dlInv[d] IN
    /\ i # None => HasCode(i, asked[d])
    /\ dlPc[d] # "idle" => i # None /\ status[i] = "ready"
    /\ dlPc[d] = "read" => billed[i] = 1
    /\ body[d] # None =>
        i # None /\ status[i] = "ready" /\ billed[i] = 1 /\ FileOf(i, body[d])
    /\ sawReady[d] =>
        /\ answer[d] # "202"
        /\ \E j \in Invoice : HasCode(j, asked[d]) /\ status[j] = "ready"

SubmissionInv(s) ==
    LET i == file[s].of IN
    IF subPc[s] = "new" THEN verdict[s] = "none"
    ELSE /\ file[s] \in File
         /\ i # None => status[i] = "ready" /\ FileOf(i, file[s].doc)
         /\ subPc[s] = "compare" => subInv[s] # None /\ HasCode(subInv[s], file[s].ref)
         /\ verdict[s] = "match" =>
             /\ i # None /\ refCode[i] = file[s].ref
             /\ \E k \in 1 .. Len(versions[i]) : versions[i][k] = file[s].doc
         /\ verdict[s] = "mismatch" /\ Genuine(file[s]) => attempt[i] >= 2

DeliveryInv ==
    /\ BilledOnceWhenReady
    /\ \A d \in Client : ClientInv(d)
    /\ \A s \in Submission : SubmissionInv(s)

-----------------------------------------------------------------------------
(* e2e_test.go:338-340: submitting the downloaded file gives "match".      *)
DownloadedMatches ==
    \A s \in saved : Genuine(file[s]) => verdict[s] # "mismatch"

(* stamp_worker.go:65-66: "this guarantees extractRefFromRawBytes will     *)
(* always find it": what is found in a stamped file is the code stamped.   *)
StampIsFound ==
    \A s \in Submission : subPc[s] # "new" /\ file[s].of # None =>
        file[s].ref = refCode[file[s].of]
=============================================================================
