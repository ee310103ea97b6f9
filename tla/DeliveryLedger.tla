--------------------------- MODULE DeliveryLedger ---------------------------
(***************************************************************************)
(* What Provenn promises those outside it, without requests, polls or      *)
(* lookups: each of the steps below happens at one moment.  An invoice is  *)
(* billed once, when it is ready; only then is its file handed over, the   *)
(* one that is up at that moment; a client's files are all of one invoice; *)
(* and a submission is vouched for once, if its very file is recorded for  *)
(* an invoice that has been billed.                                        *)
(***************************************************************************)
EXTENDS InvoiceLedger

CONSTANTS Client, Submission

VARIABLES
    billed,    \* how often an invoice was billed
    held,      \* the file a client was handed last, and of which invoice
    vouched    \* the file and the invoice a submission was vouched for as

deliveryVars == <<ledgerVars, billed, held, vouched>>

FileRecord(i, d) == [inv |-> i, doc |-> d]

DeliveryInit ==
    /\ LedgerInit
    /\ billed = [i \in Invoice |-> 0]
    /\ held = [d \in Client |-> None]
    /\ vouched = [s \in Submission |-> None]

Bill(i) ==
    /\ phase[i] = "ready" /\ billed[i] = 0
    /\ billed' = [billed EXCEPT ![i] = 1]
    /\ UNCHANGED <<ledgerVars, held, vouched>>

HandOver(d, i) ==
    /\ billed[i] = 1 /\ served[i] # None
    /\ held[d] = None \/ held[d].inv = i
    /\ held' = [held EXCEPT ![d] = FileRecord(i, served[i])]
    /\ UNCHANGED <<ledgerVars, billed, vouched>>

Vouch(s, i) ==
    /\ vouched[s] = None /\ billed[i] = 1
    /\ \E k \in 1 .. Len(records[i]) :
            vouched' = [vouched EXCEPT ![s] = FileRecord(i, records[i][k])]
    /\ UNCHANGED <<ledgerVars, billed, held>>

DeliveryNext ==
    \/ LedgerNext /\ UNCHANGED <<billed, held, vouched>>
    \/ \E i \in Invoice :
        \/ Bill(i)
        \/ \E d \in Client : HandOver(d, i)
        \/ \E s \in Submission : Vouch(s, i)

DeliverySpec == DeliveryInit /\ [][DeliveryNext]_deliveryVars
=============================================================================
