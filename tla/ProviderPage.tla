---------------------------- MODULE ProviderPage ----------------------------
(***************************************************************************)
(* web/app/provider/page.tsx: a provider issues one invoice after another  *)
(* and watches each until it can be downloaded.  A loop per issued invoice *)
(* asks for its status; going back to the form cancels the loop, but not   *)
(* the request it has under way, whose answer is stored when it comes.     *)
(* The server is what InvoiceLedger allows: an invoice is processing, then *)
(* ready for good.                                                         *)
(***************************************************************************)
EXTENDS Naturals

CONSTANTS
    Invoice,   \* invoices the page may get to issue
    None       \* null

Status == [of : Invoice, ready : BOOLEAN]

ASSUME ProviderAssumption == None \notin Invoice /\ None \notin Status

VARIABLES
    phase,           \* invoices.status on the server
    post,            \* the POST of handleSubmit; loading unless it is idle
    result,          \* the invoice on the screen, None while the form is
    status,          \* the status on the screen, with the invoice it was asked for
    hasDownloaded,   \* the button says Downloaded
    poll             \* the loop of the effect on result, for each invoice

pageVars == <<post, result, status, hasDownloaded, poll>>
vars == <<phase, pageVars>>

Idle == [at |-> "idle", inv |-> None]

ProviderTypeOK ==
    /\ phase \in [Invoice -> {"absent", "processing", "ready"}]
    /\ post \in {Idle} \cup [at : {"sent"}, inv : {None}] \cup [at : {"answered"}, inv : Invoice]
    /\ result \in Invoice \cup {None}
    /\ status \in Status \cup {None}
    /\ hasDownloaded \in BOOLEAN
    /\ poll \in [Invoice -> [at : {"none", "sent", "answered", "sleep", "over"},
                             ready : BOOLEAN, cancelled : BOOLEAN]]

Init ==
    /\ phase = [i \in Invoice |-> "absent"]
    /\ post = Idle
    /\ result = None
    /\ status = None
    /\ hasDownloaded = FALSE
    /\ poll = [i \in Invoice |-> [at |-> "none", ready |-> FALSE, cancelled |-> FALSE]]

-----------------------------------------------------------------------------
(* The worker is done with the invoice, which may never happen.            *)
Publish(i) ==
    /\ phase[i] = "processing"
    /\ phase' = [phase EXCEPT ![i] = "ready"]
    /\ UNCHANGED pageVars

(* handleSubmit as far as its await.  The form is only there without a     *)
(* result and its button only while no POST is under way.                  *)
HandleSubmit ==
    /\ result = None /\ post = Idle
    /\ status' = None
    /\ hasDownloaded' = FALSE
    /\ post' \in {Idle, [at |-> "sent", inv |-> None]}   \* no PDF: back at once
    /\ UNCHANGED <<phase, result, poll>>

(* The API has issued an invoice.                                          *)
AnswerPost ==
    /\ post.at = "sent"
    /\ \E i \in Invoice :
        /\ phase[i] = "absent"
        /\ phase' = [phase EXCEPT ![i] = "processing"]
        /\ post' = [at |-> "answered", inv |-> i]
    /\ UNCHANGED <<result, status, hasDownloaded, poll>>

(* setResult, and the effect that starts the loop with its first request.  *)
EndPost ==
    /\ post.at = "answered"
    /\ result' = post.inv
    /\ poll' = [poll EXCEPT ![post.inv].at = "sent"]
    /\ post' = Idle
    /\ UNCHANGED <<phase, status, hasDownloaded>>

(* An error, or no answer: an invoice may have been issued all the same.   *)
PostFails ==
    /\ post # Idle
    /\ post' = Idle
    /\ UNCHANGED <<phase, result, status, hasDownloaded, poll>>

-----------------------------------------------------------------------------
(* Mutant: whatever has a row is called ready.                             *)
AnswerPollEarly(i) ==
    /\ poll[i].at = "sent"
    /\ poll' = [poll EXCEPT ![i].at = "answered", ![i].ready = (phase[i] # "absent")]
    /\ UNCHANGED <<phase, post, result, status, hasDownloaded>>

(* GetStatus answers; the answer is under way to the page.                 *)
AnswerPoll(i) ==
    /\ poll[i].at = "sent"
    /\ poll' = [poll EXCEPT ![i].at = "answered", ![i].ready = (phase[i] = "ready")]
    /\ UNCHANGED <<phase, post, result, status, hasDownloaded>>

(* Mutant: any status other than an error ends the loop.                   *)
ApplyPollStops(i) ==
    /\ poll[i].at = "answered"
    /\ status' = [of |-> i, ready |-> poll[i].ready]
    /\ poll' = [poll EXCEPT ![i].at = "over"]
    /\ UNCHANGED <<phase, post, result, hasDownloaded>>

(* setStatus, whether or not the loop was cancelled while it waited.       *)
ApplyPoll(i) ==
    /\ poll[i].at = "answered"
    /\ status' = [of |-> i, ready |-> poll[i].ready]
    /\ poll' = [poll EXCEPT ![i].at = IF poll[i].ready THEN "over" ELSE "sleep"]
    /\ UNCHANGED <<phase, post, result, hasDownloaded>>

(* Mutant: the error of a poll ends the loop.                              *)
PollFailsStops(i) ==
    /\ poll[i].at \in {"sent", "answered"}
    /\ poll' = [poll EXCEPT ![i].at = "over"]
    /\ UNCHANGED <<phase, post, result, status, hasDownloaded>>

(* Poll errors are ignored.                                                *)
PollFails(i) ==
    /\ poll[i].at \in {"sent", "answered"}
    /\ poll' = [poll EXCEPT ![i].at = "sleep"]
    /\ UNCHANGED <<phase, post, result, status, hasDownloaded>>

(* 1.5 seconds later.                                                      *)
Wake(i) ==
    /\ poll[i].at = "sleep"
    /\ poll' = [poll EXCEPT ![i].at = IF poll[i].cancelled THEN "over" ELSE "sent"]
    /\ UNCHANGED <<phase, post, result, status, hasDownloaded>>

-----------------------------------------------------------------------------
(* Mutant: the effect without its cleanup.                                 *)
IssueAnotherKeepsLoop ==
    /\ result # None
    /\ result' = None
    /\ status' = None
    /\ UNCHANGED <<phase, post, hasDownloaded, poll>>

(* The button Issue Another; the cleanup of the effect cancels its loop.   *)
IssueAnother ==
    /\ result # None
    /\ result' = None
    /\ status' = None
    /\ poll' = [poll EXCEPT ![result].cancelled = TRUE]
    /\ UNCHANGED <<phase, post, hasDownloaded>>

ShowsReady == result # None /\ status # None /\ status.ready

(* The button Download PDF opens the file of the result in a window.       *)
ClickDownload ==
    /\ ShowsReady /\ ~ hasDownloaded
    /\ hasDownloaded' = TRUE
    /\ UNCHANGED <<phase, post, result, status, poll>>

Next ==
    \/ HandleSubmit \/ AnswerPost \/ EndPost \/ PostFails
    \/ IssueAnother \/ ClickDownload
    \/ \E i \in Invoice :
        Publish(i) \/ AnswerPoll(i) \/ ApplyPoll(i) \/ PollFails(i) \/ Wake(i)

(* Timers fire, and a request that is made again and again is answered in  *)
(* the end.  Nothing is assumed of the worker: its job may be discarded.   *)
Fairness ==
    \A i \in Invoice :
        WF_vars(Wake(i)) /\ SF_vars(AnswerPoll(i)) /\ SF_vars(ApplyPoll(i))

Spec == Init /\ [][Next]_vars /\ Fairness

-----------------------------------------------------------------------------
Alive(i) == poll[i].at \in {"sent", "answered", "sleep"}

(* Loops do not pile up: whatever was issued before, one loop is meant to  *)
(* go on, that of the invoice on the screen (page.tsx:52-75).              *)
OneLoop == \A i \in Invoice : Alive(i) /\ ~ poll[i].cancelled => result = i

(* The loop of the invoice on the screen has ended only if it stored       *)
(* Ready; if the screen says otherwise, a late answer has replaced it      *)
(* (page.tsx:63).                                                          *)
OnlyLateAnswersUndo ==
    \A i \in Invoice : result = i /\ ~ Alive(i) =>
        /\ phase[i] = "ready"
        /\ status # None
        /\ ~ status.ready => status.of # i

(* A download that the server refuses was offered by a late answer: the    *)
(* loop of another invoice, cancelled, had told Ready (page.tsx:260-271).  *)
RefusedDownloadIsLate ==
    hasDownloaded /\ result # None /\ phase[result] # "ready" =>
        \E j \in Invoice : poll[j].cancelled /\ poll[j].ready

(* Who still watches an invoice when it gets ready will see it so, however *)
(* many polls fail and however long the worker took (page.tsx:57-68).      *)
ReadyIsShown ==
    \A i \in Invoice :
        result = i /\ Alive(i) /\ phase[i] = "ready" ~>
            result # i \/ (status # None /\ status.of = i /\ status.ready)

-----------------------------------------------------------------------------
(* The inductive invariant behind the properties above.                    *)
LoopInv(i) ==
    /\ poll[i].at = "none" => ~ poll[i].cancelled /\ result # i /\ ~ (status # None /\ status.of = i)
    /\ poll[i].at = "over" => poll[i].cancelled \/ phase[i] = "ready"
    /\ poll[i].at # "none" => phase[i] # "absent" /\ post.inv # i
    /\ poll[i].at # "none" /\ result # i => poll[i].cancelled
    /\ result = i => ~ poll[i].cancelled
    /\ poll[i].ready => phase[i] = "ready" /\ poll[i].at # "none"

ProviderInv ==
    /\ \A i \in Invoice : LoopInv(i)
    /\ post # Idle => result = None
    /\ post # Idle => ~ hasDownloaded
    /\ post.at = "answered" => phase[post.inv] # "absent"
    /\ status # None /\ status.ready => phase[status.of] = "ready" /\ poll[status.of].ready
    /\ OnlyLateAnswersUndo
    /\ RefusedDownloadIsLate
=============================================================================
