------------------------------ MODULE Download ------------------------------
(***************************************************************************)
(* Handlers.GetStatus and Handlers.Download: anyone who knows a reference  *)
(* code may poll for the invoice and fetch its file; the first fetch is    *)
(* billed.  Each call to the database or the bucket may fail; a failing    *)
(* call, or the end of the API process, ends the request.                  *)
(***************************************************************************)
EXTENDS Store

CONSTANT Client

VARIABLES
    billed,     \* how many rows of billing_events an invoice has
    asked,      \* the reference code a client asks for
    dlPc,       \* what the client's Download does next, "idle" if none runs
    dlInv,      \* inv.ID in that Download
    sawReady,   \* GetStatus has told the client that the invoice is ready
    answer,     \* how the client's last Download was answered
    body        \* the file that came with the last complete 200

dlVars == <<billed, asked, dlPc, dlInv, sawReady, answer, body>>

Answer == {"none", "200", "cut", "202", "404", "500"}

DownloadTypeOK ==
    /\ billed \in [Invoice -> Nat]
    /\ asked \in [Client -> Code]
    /\ dlPc \in [Client -> {"idle", "version", "bill", "read"}]
    /\ dlInv \in [Client -> Invoice \cup {None}]
    /\ sawReady \in [Client -> BOOLEAN]
    /\ answer \in [Client -> Answer]
    /\ body \in [Client -> Rendering \cup {None}]

DownloadInit ==
    /\ billed = [i \in Invoice |-> 0]
    /\ asked \in [Client -> Code]
    /\ dlPc = [d \in Client |-> "idle"]
    /\ dlInv = [d \in Client |-> None]
    /\ sawReady = [d \in Client |-> FALSE]
    /\ answer = [d \in Client |-> "none"]
    /\ body = [d \in Client |-> None]

-----------------------------------------------------------------------------
(* One poll between two downloads.  A poll that fails tells nothing.       *)
GetStatus(d) ==
    /\ dlPc[d] = "idle"
    /\ \E i \in Invoice :
        /\ HasCode(i, asked[d])
        /\ sawReady' = [sawReady EXCEPT ![d] = status[i] = "ready"]
    /\ answer' = [answer EXCEPT ![d] = "none"]
    /\ UNCHANGED <<storeVars, billed, asked, dlPc, dlInv, body>>

End(d, code) ==
    /\ dlPc' = [dlPc EXCEPT ![d] = "idle"]
    /\ answer' = [answer EXCEPT ![d] = code]

(* Every error of the lookup is a 404, a lost connection like a missing row. *)
LookUp(d) ==
    /\ dlPc[d] = "idle"
    /\ \/ \E i \in Invoice :
            /\ HasCode(i, asked[d])
            /\ dlInv' = [dlInv EXCEPT ![d] = i]
            /\ IF status[i] = "ready"
               THEN dlPc' = [dlPc EXCEPT ![d] = "version"] /\ UNCHANGED answer
               ELSE End(d, "202")
       \/ End(d, "404") /\ UNCHANGED dlInv
    /\ UNCHANGED <<storeVars, billed, asked, sawReady, body>>

(* Which of the rows is taken does not matter: all hold the same key.      *)
GetVersion(d) ==
    /\ dlPc[d] = "version"
    /\ \/ /\ LatestVersion(dlInv[d]) # {}
          /\ dlPc' = [dlPc EXCEPT ![d] = "bill"] /\ UNCHANGED answer
       \/ End(d, "500")
    /\ UNCHANGED <<storeVars, billed, asked, dlInv, sawReady, body>>

(* Mutant: a plain INSERT, without the idempotency key.                    *)
InsertEventAgain(i) == billed' = [billed EXCEPT ![i] = @ + 1]

(* INSERT ... ON CONFLICT (idempotency_key) DO NOTHING; the key is the     *)
(* invoice.  The row is then read back, which can only fail as a call.     *)
InsertEvent(i) == billed' = [billed EXCEPT ![i] = IF @ = 0 THEN 1 ELSE @]

(* Mutant: the error of the insert is dropped.                             *)
CreateBillingEventUnchecked(d) ==
    /\ dlPc[d] = "bill"
    /\ InsertEvent(dlInv[d]) \/ UNCHANGED billed
    /\ dlPc' = [dlPc EXCEPT ![d] = "read"]
    /\ UNCHANGED <<storeVars, asked, dlInv, sawReady, answer, body>>

CreateBillingEvent(d) ==
    /\ dlPc[d] = "bill"
    /\ \/ /\ InsertEvent(dlInv[d])
          /\ dlPc' = [dlPc EXCEPT ![d] = "read"] /\ UNCHANGED answer
       \/ (InsertEvent(dlInv[d]) \/ UNCHANGED billed) /\ End(d, "500")
    /\ UNCHANGED <<storeVars, asked, dlInv, sawReady, body>>

(* The header 200 is written before the object is read: MinIO opens the    *)
(* object at the first read, so what fails then cuts the body short.       *)
Stream(d) ==
    /\ dlPc[d] = "read"
    /\ \/ /\ v1[dlInv[d]] # None
          /\ body' = [body EXCEPT ![d] = v1[dlInv[d]]]
          /\ End(d, "200")
       \/ (End(d, "cut") \/ End(d, "500")) /\ UNCHANGED body
    /\ UNCHANGED <<storeVars, billed, asked, dlInv, sawReady>>

DownloadStep(d) == GetVersion(d) \/ CreateBillingEvent(d) \/ Stream(d)

DownloadNext == \E d \in Client : GetStatus(d) \/ LookUp(d) \/ DownloadStep(d)
=============================================================================
