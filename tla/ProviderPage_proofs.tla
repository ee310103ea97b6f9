------------------------ MODULE ProviderPage_proofs ------------------------
(***************************************************************************)
(* Proofs about the provider's page, for any number of invoices issued on  *)
(* one page and so any number of late answers.                             *)
(***************************************************************************)
EXTENDS ProviderPage, TLAPS

ProviderIInv == ProviderTypeOK /\ ProviderInv

(* What one loop is, and how its fields are set. *)
Loop == [at : {"none", "sent", "answered", "sleep", "over"}, ready : BOOLEAN, cancelled : BOOLEAN]

LEMMA LoopEdits ==
    ASSUME NEW p \in Loop, NEW r \in BOOLEAN
    PROVE  /\ [p EXCEPT !.at = "answered", !.ready = r] \in Loop
           /\ [p EXCEPT !.cancelled = TRUE] \in Loop
BY DEF Loop

LEMMA ProviderStarts == Init => ProviderIInv
<1> SUFFICES ASSUME Init PROVE ProviderIInv
  OBVIOUS
<1> USE ProviderAssumption DEF Init, Idle, Status
<1>1. ProviderTypeOK
  BY DEF ProviderTypeOK
<1>2. ProviderInv
  BY DEF ProviderInv, LoopInv, OnlyLateAnswersUndo, RefusedDownloadIsLate
<1> QED BY <1>1, <1>2 DEF ProviderIInv

(* The POST and the form: a result comes with a loop of its own, and the   *)
(* screen before it was wiped.                                             *)
LEMMA FormStep ==
    ASSUME ProviderIInv,
           HandleSubmit \/ AnswerPost \/ EndPost \/ PostFails \/ IssueAnother \/ ClickDownload
    PROVE  ProviderIInv'
<1> USE ProviderAssumption
<1> USE DEF ProviderIInv, ProviderTypeOK, ProviderInv, Idle, Status
<1>1. CASE HandleSubmit
  <2>1. ProviderTypeOK'
    <3>1. post' \in {Idle} \cup [at : {"sent"}, inv : {None}]
      BY <1>1 DEF HandleSubmit
    <3>2. hasDownloaded' = FALSE /\ status' = None /\ UNCHANGED <<phase, result, poll>>
      BY <1>1 DEF HandleSubmit
    <3> QED BY <3>1, <3>2
  <2>2. ASSUME NEW j \in Invoice PROVE LoopInv(j)'
    BY <1>1, <2>2 DEF HandleSubmit, LoopInv
  <2> QED BY <1>1, <2>1, <2>2 DEF HandleSubmit, OnlyLateAnswersUndo, RefusedDownloadIsLate
<1>2. CASE AnswerPost
  <2>1. PICK i \in Invoice :
          /\ phase[i] = "absent"
          /\ phase' = [phase EXCEPT ![i] = "processing"]
          /\ post' = [at |-> "answered", inv |-> i]
    BY <1>2 DEF AnswerPost
  <2>2. post.at = "sent" /\ UNCHANGED <<result, status, hasDownloaded, poll>>
    BY <1>2 DEF AnswerPost
  <2>3. ProviderTypeOK'
    BY <2>1, <2>2
  <2>4. ASSUME NEW j \in Invoice PROVE LoopInv(j)'
    BY <2>1, <2>2, <2>4 DEF LoopInv
  <2>5. status # None /\ status.ready => status.of # i
    BY <2>1
  <2>6. OnlyLateAnswersUndo' /\ RefusedDownloadIsLate'
    BY <2>2 DEF OnlyLateAnswersUndo, RefusedDownloadIsLate, Alive
  <2> QED BY <2>1, <2>2, <2>3, <2>4, <2>5, <2>6
<1>3. CASE EndPost
  <2> DEFINE i == post.inv
  <2>1. i \in Invoice /\ post.at = "answered" /\ result = None /\ ~ hasDownloaded
    BY <1>3 DEF EndPost
  <2>2. /\ result' = i /\ post' = Idle
        /\ poll' = [poll EXCEPT ![i].at = "sent"]
        /\ UNCHANGED <<phase, status, hasDownloaded>>
    BY <1>3 DEF EndPost
  <2>3. poll[i].at = "none"
    BY <2>1 DEF LoopInv
  <2>4. ProviderTypeOK'
    BY <2>1, <2>2
  <2>5. ASSUME NEW j \in Invoice PROVE LoopInv(j)'
    BY <2>1, <2>2, <2>3, <2>5 DEF LoopInv
  <2>6. OnlyLateAnswersUndo'
    BY <2>1, <2>2 DEF OnlyLateAnswersUndo, Alive
  <2>7. status # None /\ status.ready => poll'[status.of].ready
    BY <2>1, <2>2
  <2> QED BY <2>1, <2>2, <2>4, <2>5, <2>6, <2>7 DEF RefusedDownloadIsLate
<1>4. CASE PostFails
  <2>1. ASSUME NEW j \in Invoice PROVE LoopInv(j)'
    BY <1>4, <2>1 DEF PostFails, LoopInv
  <2> QED BY <1>4, <2>1 DEF PostFails, OnlyLateAnswersUndo, RefusedDownloadIsLate, Alive
<1>5. CASE IssueAnother
  <2>1. ASSUME NEW j \in Invoice PROVE LoopInv(j)'
    BY <1>5, <2>1 DEF IssueAnother, LoopInv
  <2>2. /\ result \in Invoice /\ result' = None /\ status' = None
        /\ poll' = [poll EXCEPT ![result].cancelled = TRUE]
        /\ UNCHANGED <<phase, post, hasDownloaded>>
    BY <1>5 DEF IssueAnother
  <2>3. poll' \in [Invoice -> [at : {"none", "sent", "answered", "sleep", "over"},
                              ready : BOOLEAN, cancelled : BOOLEAN]]
    <3>1. poll \in [Invoice -> Loop]
      BY DEF Loop
    <3>2. [poll[result] EXCEPT !.cancelled = TRUE] \in Loop
      BY <2>2, <3>1, LoopEdits
    <3> QED BY <2>2, <3>1, <3>2 DEF Loop
  <2>4. ProviderTypeOK'
    BY <2>2, <2>3 DEF ProviderTypeOK
  <2>5. OnlyLateAnswersUndo' /\ RefusedDownloadIsLate'
    BY <2>2, ProviderAssumption DEF OnlyLateAnswersUndo, RefusedDownloadIsLate
  <2> QED BY <2>1, <2>2, <2>4, <2>5
<1>6. CASE ClickDownload
  <2>1. /\ ShowsReady /\ hasDownloaded'
        /\ UNCHANGED <<phase, post, result, status, poll>>
    BY <1>6 DEF ClickDownload
  <2>2. ASSUME NEW j \in Invoice PROVE LoopInv(j)'
    BY <2>1, <2>2 DEF LoopInv
  <2>3. OnlyLateAnswersUndo'
    BY <2>1 DEF OnlyLateAnswersUndo, Alive
  <2>4. RefusedDownloadIsLate'
    <3>1. status.of \in Invoice /\ phase[status.of] = "ready" /\ poll[status.of].ready
      BY <2>1 DEF ShowsReady
    <3>2. status.of # result => poll[status.of].cancelled
      BY <3>1 DEF LoopInv
    <3> QED BY <2>1, <3>1, <3>2 DEF RefusedDownloadIsLate
  <2> QED BY <2>1, <2>2, <2>3, <2>4 DEF ShowsReady
<1> QED BY <1>1, <1>2, <1>3, <1>4, <1>5, <1>6

(* A step of one loop, or of the worker on one invoice.                    *)
LEMMA LoopStep ==
    ASSUME ProviderIInv, NEW i \in Invoice,
           Publish(i) \/ AnswerPoll(i) \/ ApplyPoll(i) \/ PollFails(i) \/ Wake(i)
    PROVE  ProviderIInv'
<1> USE ProviderAssumption
<1> USE DEF ProviderIInv, ProviderTypeOK, ProviderInv, Idle, Status
<1>1. CASE Publish(i)
  <2>1. ASSUME NEW j \in Invoice PROVE LoopInv(j)'
    BY <1>1, <2>1 DEF Publish, pageVars, LoopInv
  <2> QED BY <1>1, <2>1 DEF Publish, pageVars, OnlyLateAnswersUndo, RefusedDownloadIsLate, Alive
<1>2. CASE AnswerPoll(i)
  <2>1. ProviderTypeOK'
    <3> DEFINE to == [poll[i] EXCEPT !.at = "answered", !.ready = (phase[i] = "ready")]
    <3>1. to \in [at : {"none", "sent", "answered", "sleep", "over"},
                  ready : BOOLEAN, cancelled : BOOLEAN]
      <4>1. poll[i] \in Loop
        BY DEF Loop
      <4>2. (phase[i] = "ready") \in BOOLEAN
        OBVIOUS
      <4> QED BY <4>1, <4>2, LoopEdits DEF Loop
    <3>2. poll' = [poll EXCEPT ![i] = to] /\ UNCHANGED <<phase, post, result, status, hasDownloaded>>
      BY <1>2 DEF AnswerPoll
    <3> HIDE DEF to
    <3> QED BY <3>1, <3>2
  <2>2. ASSUME NEW j \in Invoice PROVE LoopInv(j)'
    BY <1>2, <2>2 DEF AnswerPoll, LoopInv
  <2>3. status # None /\ status.ready => poll'[status.of].ready
    BY <1>2 DEF AnswerPoll
  <2>4. OnlyLateAnswersUndo'
    BY <1>2 DEF AnswerPoll, OnlyLateAnswersUndo, Alive
  <2>5. RefusedDownloadIsLate'
    BY <1>2 DEF AnswerPoll, RefusedDownloadIsLate, LoopInv
  <2> QED BY <1>2, <2>1, <2>2, <2>3, <2>4, <2>5 DEF AnswerPoll
<1>3. CASE ApplyPoll(i)
  <2>1. ProviderTypeOK'
    BY <1>3 DEF ApplyPoll
  <2>2. ASSUME NEW j \in Invoice PROVE LoopInv(j)'
    BY <1>3, <2>2 DEF ApplyPoll, LoopInv
  <2>3. poll[i].ready => phase[i] = "ready"
    BY DEF LoopInv
  <2>4. OnlyLateAnswersUndo'
    <3>1. /\ status' = [of |-> i, ready |-> poll[i].ready]
          /\ \A j \in Invoice \ {i} : poll'[j] = poll[j]
          /\ poll'[i].at = "over" => poll[i].ready
          /\ poll'[i].at \in {"over", "sleep"}
          /\ UNCHANGED <<phase, result>>
      BY <1>3 DEF ApplyPoll
    <3>2. status' \in Status
      BY <3>1
    <3>3. ASSUME NEW j \in Invoice, result' = j, ~ Alive(j)'
          PROVE  phase'[j] = "ready" /\ status' # None /\ (~ status'.ready => status'.of # j)
      <4>1. CASE j = i
        BY <2>3, <3>1, <3>2, <3>3, <4>1 DEF Alive
      <4>2. CASE j # i
        BY <3>1, <3>2, <3>3, <4>2 DEF Alive, OnlyLateAnswersUndo
      <4> QED BY <4>1, <4>2
    <3> QED BY <3>3 DEF OnlyLateAnswersUndo
  <2>5. RefusedDownloadIsLate'
    BY <1>3 DEF ApplyPoll, RefusedDownloadIsLate
  <2> QED BY <1>3, <2>1, <2>2, <2>3, <2>4, <2>5 DEF ApplyPoll
<1>4. CASE PollFails(i) \/ Wake(i)
  <2>1. ProviderTypeOK' /\ UNCHANGED <<phase, post, result, status, hasDownloaded>>
    BY <1>4 DEF PollFails, Wake
  <2>2. ASSUME NEW j \in Invoice PROVE LoopInv(j)'
    BY <1>4, <2>2 DEF PollFails, Wake, LoopInv
  <2>3. /\ \A j \in Invoice : poll'[j].ready = poll[j].ready /\ poll'[j].cancelled = poll[j].cancelled
        /\ Alive(i) /\ (poll'[i].at = "over" => poll[i].cancelled)
        /\ \A j \in Invoice \ {i} : poll'[j] = poll[j]
    BY <1>4 DEF PollFails, Wake, Alive
  <2>4. OnlyLateAnswersUndo'
    BY <1>4, <2>1, <2>3 DEF PollFails, Wake, OnlyLateAnswersUndo, Alive, LoopInv
  <2> QED BY <2>1, <2>2, <2>3, <2>4 DEF RefusedDownloadIsLate
<1> QED BY <1>1, <1>2, <1>3, <1>4

LEMMA ProviderSteps == ProviderIInv /\ [Next]_vars => ProviderIInv'
<1> SUFFICES ASSUME ProviderIInv, [Next]_vars PROVE ProviderIInv'
  OBVIOUS
<1>1. CASE Next
  BY <1>1, FormStep, LoopStep DEF Next
<1>2. CASE UNCHANGED vars
  BY <1>2 DEF vars, pageVars, ProviderIInv, ProviderTypeOK, ProviderInv, LoopInv,
       OnlyLateAnswersUndo, RefusedDownloadIsLate, Alive
<1> QED BY <1>1, <1>2

(* ProviderInv holds in every state of the page, whatever polls are late.  *)
THEOREM ProviderSafe == Spec => [](ProviderTypeOK /\ ProviderInv)
<1>1. Spec => []ProviderIInv
  BY ProviderStarts, ProviderSteps, PTL DEF Spec
<1>2. ProviderIInv => ProviderTypeOK /\ ProviderInv
  BY DEF ProviderIInv
<1> QED BY <1>1, <1>2, PTL

(* At most one loop is meant to go on, that of the invoice on the screen.  *)
THEOREM LoopsDoNotPileUp == Spec => []OneLoop
<1>1. ProviderInv => OneLoop
  BY DEF ProviderInv, LoopInv, OneLoop, Alive
<1> QED BY <1>1, ProviderSafe, PTL

(* A finished loop has stored Ready, and only a late answer replaces it.   *)
THEOREM ReadyIsUndoneLate == Spec => []OnlyLateAnswersUndo
<1>1. ProviderInv => OnlyLateAnswersUndo
  BY DEF ProviderInv
<1> QED BY <1>1, ProviderSafe, PTL

(* A refused download was offered by a late answer.                        *)
THEOREM RefusalsAreLate == Spec => []RefusedDownloadIsLate
<1>1. ProviderInv => RefusedDownloadIsLate
  BY DEF ProviderInv
<1> QED BY <1>1, ProviderSafe, PTL
=============================================================================
