------------------------------- MODULE Store -------------------------------
(***************************************************************************)
(* What the processes of Provenn share: the rows of the PostgreSQL tables  *)
(* invoices and invoice_versions, the objects of the MinIO bucket, and the *)
(* River job table.                                                        *)
(*                                                                         *)
(* An Invoice is the uuid of one possible row of the invoices table; uuids *)
(* come from gen_random_uuid() and are taken to be unique.  The file that  *)
(* the worker makes of an invoice is named by the invoice and a rendering: *)
(* the invoice's own reference code is in every file made of it, so files  *)
(* of two invoices differ, while two runs over one invoice may or may not  *)
(* give the same bytes (stampPDF falls back to a text stamp or to the raw  *)
(* file, and pdfcpu writes a date).  SHA-256 is taken to be injective: the *)
(* hash in a version row is the rendering it was computed from.            *)
(***************************************************************************)
EXTENDS Naturals, Sequences

CONSTANTS
    Invoice,      \* uuids of the rows of the invoices table
    Code,         \* reference codes
    Rendering,    \* distinct byte strings the worker may make of one raw PDF
    None,         \* SQL NULL, or an object key that is not in the bucket
    MaxAttempts   \* River's rivertype.MaxAttempts of a job (25 by default)

ASSUME StoreAssumption ==
    /\ None \notin Invoice
    /\ None \notin Code
    /\ None \notin Rendering
    /\ MaxAttempts \in Nat \ {0}

VARIABLES
    status,     \* invoices.status; "absent" before the row is inserted
    refCode,    \* invoices.reference_code
    raw,        \* the invoices whose {id}/raw.pdf is in the bucket
    v1,         \* the content of {id}/v1.pdf
    versions,   \* the rows of invoice_versions, oldest first; all have number 1
    job,        \* river_job.state of the stamp_and_hash job of the invoice
    attempt     \* river_job.attempt: how many times the job was started

storeVars == <<status, refCode, raw, v1, versions, job, attempt>>

JobState == {"none", "available", "running", "retryable", "completed", "discarded"}

StoreTypeOK ==
    /\ status \in [Invoice -> {"absent", "processing", "ready"}]
    /\ refCode \in [Invoice -> Code \cup {None}]
    /\ raw \subseteq Invoice
    /\ v1 \in [Invoice -> Rendering \cup {None}]
    /\ versions \in [Invoice -> Seq(Rendering)]
    /\ job \in [Invoice -> JobState]
    /\ attempt \in [Invoice -> 0 .. MaxAttempts]

(* An empty database, bucket and queue. *)
StoreInit ==
    /\ status = [i \in Invoice |-> "absent"]
    /\ refCode = [i \in Invoice |-> None]
    /\ raw = {}
    /\ v1 = [i \in Invoice |-> None]
    /\ versions = [i \in Invoice |-> <<>>]
    /\ job = [i \in Invoice |-> "none"]
    /\ attempt = [i \in Invoice |-> 0]

(* The UNIQUE constraint on invoices.reference_code: a code some row holds *)
(* cannot be inserted again.                                               *)
CodeFree(c) == \A i \in Invoice : refCode[i] # c

(* The INSERT of a row; its status defaults to processing.                 *)
CreateInvoice(i, c) ==
    /\ status[i] = "absent" /\ CodeFree(c)
    /\ status' = [status EXCEPT ![i] = "processing"]
    /\ refCode' = [refCode EXCEPT ![i] = c]

(* The UPDATE of the status of a row, whatever it was before.              *)
UpdateInvoiceStatus(i, s) == status' = [status EXCEPT ![i] = s]

(* The INSERT of a version row.  No constraint of the schema keeps a       *)
(* second row with version_number 1 out.                                   *)
CreateInvoiceVersion(i, d) == versions' = [versions EXCEPT ![i] = Append(@, d)]

(* GetInvoiceByReferenceCode: the row that holds the code, if there is one. *)
HasCode(i, c) == status[i] # "absent" /\ refCode[i] = c

(* GetLatestInvoiceVersion orders by version_number and takes one row.     *)
(* Every row has number 1, so any row of the invoice may be the one.       *)
LatestVersion(i) == 1 .. Len(versions[i])
=============================================================================
