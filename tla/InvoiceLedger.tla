--------------------------- MODULE InvoiceLedger ---------------------------
(***************************************************************************)
(* What issuing and stamping promise together, without requests, jobs or   *)
(* attempts: an invoice is opened, files are put up for it and recorded,   *)
(* and it is published once, at a moment when the file that is up is the   *)
(* one recorded last.  Nothing is withdrawn: records are only added and a  *)
(* published invoice stays published.                                      *)
(***************************************************************************)
EXTENDS Naturals, Sequences

CONSTANTS Invoice, Rendering, None

VARIABLES
    phase,    \* "absent", "processing", then "ready"
    served,   \* the file a download would be given
    records   \* the files recorded for the invoice, oldest first

ledgerVars == <<phase, served, records>>

LedgerInit ==
    /\ phase = [i \in Invoice |-> "absent"]
    /\ served = [i \in Invoice |-> None]
    /\ records = [i \in Invoice |-> <<>>]

Open(i) ==
    /\ phase[i] = "absent"
    /\ phase' = [phase EXCEPT ![i] = "processing"]
    /\ UNCHANGED <<served, records>>

Serve(i) ==
    /\ phase[i] # "absent"
    /\ \E d \in Rendering : served' = [served EXCEPT ![i] = d]
    /\ UNCHANGED <<phase, records>>

Record(i) ==
    /\ phase[i] # "absent" /\ served[i] # None
    /\ records' = [records EXCEPT ![i] = Append(@, served[i])]
    /\ UNCHANGED <<phase, served>>

Publish(i) ==
    /\ phase[i] = "processing"
    /\ records[i] # <<>> /\ records[i][Len(records[i])] = served[i]
    /\ phase' = [phase EXCEPT ![i] = "ready"]
    /\ UNCHANGED <<served, records>>

LedgerNext == \E i \in Invoice : Open(i) \/ Serve(i) \/ Record(i) \/ Publish(i)

LedgerSpec == LedgerInit /\ [][LedgerNext]_ledgerVars
=============================================================================
