------------------------------ MODULE Issuance ------------------------------
(***************************************************************************)
(* invoice.Service.CreateInvoice: the synchronous half of issuing an       *)
(* invoice, run by one goroutine per HTTP request.  It inserts the row,    *)
(* uploads the raw PDF and enqueues the job, in that order and with no     *)
(* transaction around them.  A call to the database, the bucket or the     *)
(* queue either takes effect or does not, and either answers or does not   *)
(* (timeout, lost connection, cancelled request, crash of the API): an     *)
(* effect without its answer is reported to the code as an error.          *)
(***************************************************************************)
EXTENDS Store, Integers, Functions

CONSTANTS
    Request,   \* issuing requests
    Amount,    \* the amounts that may be asked for
    Int4Max,   \* the largest value of the INTEGER column invoices.amount_cents
    MaxTries   \* how often the row is tried (5 in the code)

ASSUME IssuanceAssumption ==
    /\ Amount \subseteq Int
    /\ Int4Max \in Nat
    /\ MaxTries \in Nat \ {0}

VARIABLES
    amount,   \* the amount_cents of the form
    reqPc,    \* what CreateInvoice does next, or how the request ended
    reqInv,   \* inv.ID once the insert has answered
    tries     \* the loop counter "attempt"

reqVars == <<amount, reqPc, reqInv, tries>>

ReqPc == {"received", "insert", "put", "enqueue", "acked", "failed", "rejected"}

IssuanceTypeOK ==
    /\ StoreTypeOK
    /\ amount \in [Request -> Amount]
    /\ reqPc \in [Request -> ReqPc]
    /\ reqInv \in [Request -> Invoice \cup {None}]
    /\ tries \in [Request -> 0 .. MaxTries]

ReqInit ==
    /\ amount \in [Request -> Amount]
    /\ reqPc = [r \in Request |-> "received"]
    /\ reqInv = [r \in Request |-> None]
    /\ tries = [r \in Request |-> 0]

IssuanceInit == StoreInit /\ ReqInit

-----------------------------------------------------------------------------
(* Handlers.createInvoice checks the form before anything is written.      *)
Validate(r) ==
    /\ reqPc[r] = "received"
    /\ reqPc' = [reqPc EXCEPT ![r] = IF amount[r] > 0 THEN "insert" ELSE "rejected"]
    /\ UNCHANGED <<storeVars, amount, reqInv, tries>>

(* Mutants: deliberate bugs the properties must notice.  Here, the err of  *)
(* the loop shadows the one that is looked at after it.                    *)
InsertErroredShadowed(r) ==
    /\ tries' = [tries EXCEPT ![r] = @ + 1]
    /\ reqPc' = [reqPc EXCEPT ![r] = IF tries'[r] < MaxTries THEN @ ELSE "put"]
    /\ UNCHANGED reqInv

(* The insert answered with an error.  Whatever the error was, the loop    *)
(* takes it for a collision of codes and starts over with a new row.       *)
InsertErrored(r) ==
    /\ tries' = [tries EXCEPT ![r] = @ + 1]
    /\ reqPc' = [reqPc EXCEPT ![r] = IF tries'[r] < MaxTries THEN @ ELSE "failed"]
    /\ UNCHANGED reqInv

InsertAnswered(r, i) ==
    /\ reqPc' = [reqPc EXCEPT ![r] = "put"]
    /\ reqInv' = [reqInv EXCEPT ![r] = i]
    /\ UNCHANGED tries

(* Mutant: the job goes into the queue in the transaction of the row.      *)
InsertRowAndJob(r) ==
    /\ reqPc[r] = "insert"
    /\ \E i \in Invoice, c \in Code :
        /\ amount[r] <= Int4Max
        /\ CreateInvoice(i, c)
        /\ job' = [job EXCEPT ![i] = "available"]
        /\ InsertAnswered(r, i) \/ InsertErrored(r)
    /\ UNCHANGED <<raw, v1, versions, attempt, amount>>

(* The code is made afresh in each turn of the loop.  The row goes in if   *)
(* the code is free and the amount fits the column.                        *)
InsertRow(r) ==
    /\ reqPc[r] = "insert"
    /\ \E i \in Invoice, c \in Code :
        /\ amount[r] <= Int4Max
        /\ CreateInvoice(i, c)
        /\ InsertAnswered(r, i) \/ InsertErrored(r)
    /\ UNCHANGED <<raw, v1, versions, job, attempt, amount>>

(* No row: the code is taken, the amount does not fit, or no answer came.  *)
InsertRefused(r) ==
    /\ reqPc[r] = "insert"
    /\ InsertErrored(r)
    /\ UNCHANGED <<storeVars, amount>>

(* The request ends with a 500, or with no answer at all.                  *)
GiveUp(r) == reqPc' = [reqPc EXCEPT ![r] = "failed"]

(* The random source of GenerateReferenceCode failed: there is no retry.   *)
NoCode(r) ==
    /\ reqPc[r] = "insert"
    /\ GiveUp(r)
    /\ UNCHANGED <<storeVars, amount, reqInv, tries>>

(* Mutant: the error of the upload is dropped.                             *)
PutRawUnchecked(r) ==
    /\ reqPc[r] = "put"
    /\ raw' \in {raw, raw \cup {reqInv[r]}}
    /\ reqPc' = [reqPc EXCEPT ![r] = "enqueue"]
    /\ UNCHANGED <<status, refCode, v1, versions, job, attempt, amount, reqInv, tries>>

(* Mutant: a failed upload starts over with a row of its own.              *)
PutRawOrInsertAgain(r) ==
    /\ reqPc[r] = "put"
    /\ \/ /\ raw' = raw \cup {reqInv[r]}
          /\ reqPc' = [reqPc EXCEPT ![r] = "enqueue"] /\ UNCHANGED reqInv
       \/ /\ raw' \in {raw, raw \cup {reqInv[r]}}
          /\ reqPc' = [reqPc EXCEPT ![r] = "insert"] /\ reqInv' = [reqInv EXCEPT ![r] = None]
    /\ UNCHANGED <<status, refCode, v1, versions, job, attempt, amount, tries>>

PutRaw(r) ==
    /\ reqPc[r] = "put"
    /\ \/ raw' = raw \cup {reqInv[r]} /\ reqPc' = [reqPc EXCEPT ![r] = "enqueue"]
       \/ raw' \in {raw, raw \cup {reqInv[r]}} /\ GiveUp(r)
    /\ UNCHANGED <<status, refCode, v1, versions, job, attempt, amount, reqInv, tries>>

EnqueueJob(r) ==
    LET queued == [job EXCEPT ![reqInv[r]] = "available"] IN
    /\ reqPc[r] = "enqueue"
    /\ \/ job' = queued /\ reqPc' = [reqPc EXCEPT ![r] = "acked"]
       \/ job' \in {job, queued} /\ GiveUp(r)
    /\ UNCHANGED <<status, refCode, raw, v1, versions, attempt, amount, reqInv, tries>>

Issue(r) ==
    \/ Validate(r)
    \/ InsertRow(r) \/ InsertRefused(r) \/ NoCode(r)
    \/ PutRaw(r)
    \/ EnqueueJob(r)

IssuanceNext == \E r \in Request : Issue(r)

-----------------------------------------------------------------------------
(* The table's rows that no request holds: their insert answered with an   *)
(* error, and the loop went on to another row.                             *)
Orphan(i) == status[i] # "absent" /\ \A r \in Request : reqInv[r] # i

(* A 202 is a promise over three stores: the row is in the database, the   *)
(* raw PDF in the bucket and the job in the queue (invoice.go:94-113).     *)
AckedIsQueued ==
    \A r \in Request : reqPc[r] = "acked" =>
        /\ reqInv[r] \in raw
        /\ status[reqInv[r]] # "absent" /\ job[reqInv[r]] # "none"

(* A row the loop lost track of is inert: nothing is uploaded for it and   *)
(* no job will ever stamp it, so no retry makes one invoice out of two     *)
(* rows (invoice.go:68-89).                                                *)
OrphanIsInert == \A i \in Invoice : Orphan(i) => i \notin raw /\ job[i] = "none"

(* A reference code leads to one row, and a row to one request, whatever   *)
(* was retried: the code is what clients download and verify by.           *)
CodeLeadsToOneRequest ==
    /\ \A i, j \in Invoice : refCode[i] = refCode[j] /\ refCode[i] # None => i = j
    /\ \A r, s \in Request : reqInv[r] = reqInv[s] /\ reqInv[r] # None => r = s

(* An amount that the handler and the int4 column both take.              *)
Acceptable(r) == 0 < amount[r] /\ amount[r] <= Int4Max

(* The turns of the loops that got as far as an INSERT which could succeed; *)
(* the last turn of a loop that ended well is not counted by tries.        *)
Took(r, k) == Acceptable(r) /\ (k < tries[r] \/ (k = tries[r] /\ reqInv[r] # None))

InsertTurns == {t \in Request \X (0 .. MaxTries - 1) : Took(t[1], t[2])}

Rows == {i \in Invoice : status[i] # "absent"}

(* Each row of the table can be charged to a turn of its own of some       *)
(* request's loop, rows counted whose insert answered with an error and    *)
(* which no request knows of: a request leaves MaxTries rows at most, and  *)
(* one whose amount is refused by the form or by the column leaves none,   *)
(* not even a lost one (handlers.go:66, invoice.go:68-92).                 *)
RowsAreChargedToTurns == ExistsInjection(Rows, InsertTurns)

-----------------------------------------------------------------------------
(* The inductive invariant behind the properties above: what a request     *)
(* that has come so far has left in the three stores.                      *)
HoldInv(r) ==
    /\ reqPc[r] \in {"received", "insert", "rejected"} => reqInv[r] = None
    /\ reqPc[r] \in {"put", "enqueue", "acked"} => reqInv[r] # None
    /\ reqPc[r] = "put" => job[reqInv[r]] = "none"
    /\ reqPc[r] = "enqueue" => job[reqInv[r]] = "none" /\ reqInv[r] \in raw
    /\ reqPc[r] = "acked" => job[reqInv[r]] # "none"
    /\ reqInv[r] # None =>
        status[reqInv[r]] # "absent" /\ 0 < amount[r] /\ amount[r] <= Int4Max
    /\ reqPc[r] = "insert" => 0 < amount[r]
    /\ reqPc[r] \in {"received", "insert"} => tries[r] < MaxTries

(* An object or a job of an invoice is there because a request holds it.   *)
HeldInv(i) ==
    /\ i \in raw => \E r \in Request : reqInv[r] = i
    /\ job[i] # "none" => status[i] # "absent" /\ i \in raw
    /\ status[i] # "absent" <=> refCode[i] # None

RequestInv ==
    /\ \A r \in Request : HoldInv(r)
    /\ \A i \in Invoice : HeldInv(i)
    /\ CodeLeadsToOneRequest
=============================================================================
