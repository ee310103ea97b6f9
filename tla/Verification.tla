---------------------------- MODULE Verification ----------------------------
(***************************************************************************)
(* verification.Service.Submit: an employee hands in a PDF; the service    *)
(* finds the reference code in it, looks the invoice up, compares the hash *)
(* of the PDF with the recorded one and stores a verifications row.  Each  *)
(* submission is a request of its own and, if it gets that far, a row.     *)
(*                                                                         *)
(* A file is what ExtractRefCode finds in it (ref, None if nothing) and    *)
(* what its bytes are: rendering doc of invoice of, or of = None for bytes *)
(* the worker never made (a tampered or foreign file).                     *)
(***************************************************************************)
EXTENDS RefCode

CONSTANT Submission

VARIABLES
    file,       \* PDFData of the request
    subPc,      \* what Submit does next, or how the request ended
    subInv,     \* invoiceID, as found by the reference code
    matched,    \* which version row was compared (matchedVersionID)
    verdict,    \* result
    saved       \* the submissions whose verifications row is in the table

subVars == <<file, subPc, subInv, matched, verdict, saved>>

File == [ref : Code \cup {None}, of : Invoice, doc : Rendering]
        \cup [ref : Code \cup {None}, of : {None}, doc : {None}]

Verdict == {"none", "match", "mismatch", "not_found"}

VerificationTypeOK ==
    /\ file \in [Submission -> File \cup {None}]
    /\ subPc \in [Submission -> {"new", "lookup", "compare", "save", "done", "failed"}]
    /\ subInv \in [Submission -> Invoice \cup {None}]
    /\ matched \in [Submission -> Nat]
    /\ verdict \in [Submission -> Verdict]
    /\ saved \subseteq Submission

VerificationInit ==
    /\ file = [s \in Submission |-> None]
    /\ subPc = [s \in Submission |-> "new"]
    /\ subInv = [s \in Submission |-> None]
    /\ matched = [s \in Submission |-> 0]
    /\ verdict = [s \in Submission |-> "none"]
    /\ saved = {}

-----------------------------------------------------------------------------
(* Mutant: the hash of the object that is served now.                      *)
SameServed(f, i, k) == f.of = i /\ f.doc = v1[i]

(* submittedHash == version.SHA256Hash.                                    *)
SameBytes(f, i, k) == f.of = i /\ f.doc = versions[i][k]

Judge(s, result) ==
    /\ verdict' = [verdict EXCEPT ![s] = result]
    /\ subPc' = [subPc EXCEPT ![s] = "save"]

Submit(s, f) ==
    /\ subPc[s] = "new"
    /\ file' = [file EXCEPT ![s] = f]
    /\ IF f.ref = None
       THEN Judge(s, "not_found")
       ELSE subPc' = [subPc EXCEPT ![s] = "lookup"] /\ UNCHANGED verdict
    /\ UNCHANGED <<storeVars, subInv, matched, saved>>

(* Every error of the lookup is taken for a code that is not in the table. *)
FindInvoice(s) ==
    /\ subPc[s] = "lookup"
    /\ \/ \E i \in Invoice :
            /\ HasCode(i, file[s].ref)
            /\ subInv' = [subInv EXCEPT ![s] = i]
            /\ subPc' = [subPc EXCEPT ![s] = "compare"]
            /\ UNCHANGED verdict
       \/ Judge(s, "not_found") /\ UNCHANGED subInv
    /\ UNCHANGED <<storeVars, file, matched, saved>>

Compare(s) ==
    LET i == subInv[s] IN
    /\ subPc[s] = "compare"
    /\ \/ \E k \in LatestVersion(i) :
            /\ matched' = [matched EXCEPT ![s] = k]
            /\ Judge(s, IF SameBytes(file[s], i, k) THEN "match" ELSE "mismatch")
       \/ subPc' = [subPc EXCEPT ![s] = "failed"] /\ UNCHANGED <<matched, verdict>>
    /\ UNCHANGED <<storeVars, file, subInv, saved>>

(* CreateVerification: the only write.  A row may be in the table although *)
(* the employee was told that the submission failed.                       *)
Save(s) ==
    /\ subPc[s] = "save"
    /\ \/ saved' = saved \cup {s} /\ subPc' = [subPc EXCEPT ![s] = "done"]
       \/ saved' \in {saved, saved \cup {s}} /\ subPc' = [subPc EXCEPT ![s] = "failed"]
    /\ UNCHANGED <<storeVars, file, subInv, matched, verdict>>

SubmitStep(s) == FindInvoice(s) \/ Compare(s) \/ Save(s)
=============================================================================
