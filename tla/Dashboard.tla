----------------------------- MODULE Dashboard -----------------------------
(***************************************************************************)
(* The page of one company admin (Me) over the verifications table, with   *)
(* every other admin deciding at the same time.  The page keeps no order   *)
(* among its requests: each click on a tab and each successful decision    *)
(* starts a fetch of its own, answers are shown in the order they arrive,  *)
(* and what a decision refreshes is the tab of the render it was clicked   *)
(* in.  A fetch or a decision is a slot of a bounded set; a click that     *)
(* would need one more is not made.                                        *)
(***************************************************************************)
EXTENDS Review

CONSTANTS
    Me,         \* the admin whose page it is
    Fetch       \* bound on the list requests under way

ASSUME DashboardAssumption == Me \in Admin /\ None \notin Call \cup Filter

VARIABLES
    tab,        \* activeTab; None before the page has its token
    shown,      \* verifications, as the last applied answer told them
    loading,    \* the spinner is on the screen instead of the list
    error,      \* a message of failure is on the screen
    acting,     \* actionLoading: the row whose buttons are disabled, 0 if none
    fetch,      \* the list requests of the page
    clickTab,   \* the tab a decision of the page was clicked in
    seen        \* how many rows the table had when the page was opened

pageVars == <<tab, shown, loading, error, acting, fetch, clickTab, seen>>
vars == <<reviewVars, pageVars>>

FetchRecord ==
    [at : {"sent", "answered"}, tab : Filter, after : Call \cup {None}, lines : SUBSET Line]
NoFetch == [at |-> "free", tab |-> "all", after |-> None, lines |-> {}]

DashboardTypeOK ==
    /\ ReviewTypeOK
    /\ tab \in Filter \cup {None}
    /\ shown \subseteq Line
    /\ loading \in BOOLEAN /\ error \in BOOLEAN
    /\ acting \in Nat
    /\ fetch \in [Fetch -> FetchRecord \cup {NoFetch}]
    /\ clickTab \in [Call -> Filter \cup {None}]
    /\ seen \in Nat

Init ==
    /\ ReviewInit
    /\ tab = None
    /\ shown = {}
    /\ loading = FALSE /\ error = FALSE
    /\ acting = 0
    /\ fetch = [k \in Fetch |-> NoFetch]
    /\ clickTab = [q \in Call |-> None]
    /\ seen = 0

-----------------------------------------------------------------------------
(* fetchVerifications of a render with tab t, as far as its await.  It     *)
(* runs on mount, after a change of the tab and after decision q.          *)
FetchVerifications(t, q) ==
    /\ \E k \in Fetch :
        /\ fetch[k].at = "free"
        /\ fetch' = [fetch EXCEPT ![k] = [at |-> "sent", tab |-> t, after |-> q, lines |-> {}]]
    /\ loading' = TRUE
    /\ error' = FALSE

OpenPage ==
    /\ tab = None
    /\ tab' = "pending"
    /\ FetchVerifications("pending", None)
    /\ seen' = Len(table)
    /\ UNCHANGED <<reviewVars, shown, acting, clickTab>>

SelectTab(t) ==
    /\ tab \notin {None, t}
    /\ tab' = t
    /\ FetchVerifications(t, None)
    /\ UNCHANGED <<reviewVars, shown, acting, clickTab, seen>>

(* The List handler answers; the answer is under way to the page.          *)
AnswerList(k) ==
    /\ fetch[k].at = "sent"
    /\ fetch' = [fetch EXCEPT ![k].at = "answered", ![k].lines = Listing(Me, fetch[k].tab)]
    /\ UNCHANGED <<reviewVars, tab, shown, loading, error, acting, clickTab, seen>>

(* Mutant: an early return of fetchVerifications that skips finally.       *)
EndFetchNoFinally(k) ==
    /\ \/ fetch[k].at = "answered" /\ shown' = fetch[k].lines /\ loading' = FALSE /\ UNCHANGED error
       \/ fetch[k].at # "free" /\ error' = TRUE /\ UNCHANGED <<shown, loading>>
    /\ fetch' = [fetch EXCEPT ![k] = NoFetch]
    /\ UNCHANGED <<reviewVars, tab, acting, clickTab, seen>>

(* The rest of fetchVerifications: the answer replaces the list whatever   *)
(* tab it was asked for; an error leaves the list; the spinner goes off.   *)
EndFetch(k) ==
    /\ \/ fetch[k].at = "answered" /\ shown' = fetch[k].lines /\ UNCHANGED error
       \/ fetch[k].at # "free" /\ error' = TRUE /\ UNCHANGED shown
    /\ fetch' = [fetch EXCEPT ![k] = NoFetch]
    /\ loading' = FALSE
    /\ UNCHANGED <<reviewVars, tab, acting, clickTab, seen>>

(* Cards with a decision have no buttons, and none are on the screen with  *)
(* the spinner.                                                            *)
HasButtons(v) == ~loading /\ \E l \in shown : l.row = v /\ l.approval = "pending"

(* Mutant: the list is refreshed without waiting for the decision.         *)
HandleDecisionEager(q, v, d) ==
    /\ HasButtons(v) /\ acting # v
    /\ Approve(q, Me, v, d)
    /\ FetchVerifications(tab, q)
    /\ acting' = v
    /\ clickTab' = [clickTab EXCEPT ![q] = tab]
    /\ UNCHANGED <<tab, shown, seen>>

(* A click, as far as the await: one slot disables the buttons of the row  *)
(* that was clicked last, and of no other.                                 *)
HandleDecision(q, v, d) ==
    /\ HasButtons(v) /\ acting # v
    /\ Approve(q, Me, v, d)
    /\ acting' = v
    /\ clickTab' = [clickTab EXCEPT ![q] = tab]
    /\ UNCHANGED <<tab, shown, loading, error, fetch, seen>>

Clicked(q) == clickTab[q] # None

(* Mutant: a failed decision returns before the slot is freed.             *)
EndDecisionKeepsSlot(q) ==
    /\ Clicked(q)
    /\ \/ callPc[q] = "ok" /\ acting' = 0 /\ FetchVerifications(clickTab[q], q)
       \/ error' = TRUE /\ UNCHANGED <<fetch, loading, acting>>
    /\ clickTab' = [clickTab EXCEPT ![q] = None]
    /\ UNCHANGED <<reviewVars, tab, shown, seen>>

(* The rest of handleDecision: refresh after a 200, not after an error,    *)
(* which may be a lost connection with the call still under way at the     *)
(* server; the slot is freed even if another row has taken it.             *)
EndDecision(q) ==
    /\ Clicked(q)
    /\ \/ callPc[q] = "ok" /\ FetchVerifications(clickTab[q], q)
       \/ error' = TRUE /\ UNCHANGED <<fetch, loading>>
    /\ clickTab' = [clickTab EXCEPT ![q] = None]
    /\ acting' = 0
    /\ UNCHANGED <<reviewVars, tab, shown, seen>>

Server ==
    /\ \/ \E e \in Employee : CreateVerification(e)
       \/ \E q \in Call, a \in Admin \ {Me}, v \in DOMAIN table, d \in Decision : Approve(q, a, v, d)
       \/ \E q \in Call : Decide(q)
    /\ UNCHANGED pageVars

Page ==
    \/ OpenPage
    \/ \E t \in Filter : SelectTab(t)
    \/ \E k \in Fetch : AnswerList(k) \/ EndFetch(k)
    \/ \E q \in Call, v \in DOMAIN table, d \in Decision : HandleDecision(q, v, d)
    \/ \E q \in Call : EndDecision(q)

Next == Server \/ Page

(* Requests end, in an answer or an error, and their continuations run.    *)
Fairness ==
    /\ \A k \in Fetch : WF_vars(EndFetch(k))
    /\ \A q \in Call : WF_vars(Decide(q) /\ UNCHANGED pageVars) /\ WF_vars(EndDecision(q))

Spec == Init /\ [][Next]_vars /\ Fairness

-----------------------------------------------------------------------------
InFlight == {k \in Fetch : fetch[k].at # "free"}

(* The cards on the screen, and those on the way to it, are of the admin's *)
(* own company, and none names a decision that was not made (README.md:12, *)
(* page.tsx:71).                                                           *)
CardsAreOwn ==
    \A l \in shown \cup UNION {fetch[k].lines : k \in Fetch} :
        /\ l.row \in DOMAIN table /\ table[l.row].company = CompanyOf[Me]
        /\ l.approval # "pending" => Earned(l.row, l.approval, l.approver)

(* The page sends no decision that the server refuses, whether or not it   *)
(* still waits for the answer: what it shows is old at worst, but never of *)
(* another company (handlers.go:190-203).                                  *)
PageIsNeverRefused == \A q \in Call : call[q].admin = Me => callPc[q] # "refused"

(* The spinner is on only while a list is under way, also if several are   *)
(* and one of them fails (page.tsx:46-77).                                 *)
SpinnerHasFetch == loading => InFlight # {}

(* The page has sent a decision on another row than v.                     *)
DecidedAnother(v) == \E s \in Call : call[s].admin = Me /\ call[s].row # v

(* The buttons of a row are disabled only while a decision on it is under  *)
(* way (page.tsx:83-111).                                                  *)
DisabledHasDecision ==
    acting # 0 => \E q \in Call : Clicked(q) /\ call[q].row = acting

(* The slot keeps an admin from deciding a row a second time while the     *)
(* first decision is under way, unless a decision of the page on another   *)
(* row has taken or freed it meanwhile (page.tsx:36, 84, 110, 265).        *)
SecondClickNeedsOther ==
    \A p, q \in Call :
        p # q /\ Clicked(p) /\ Clicked(q) /\ call[p].row = call[q].row => DecidedAnother(call[q].row)

(* The refresh after a decision does not show its row as pending again,    *)
(* in whatever order requests are answered (page.tsx:104).                 *)
RefreshSeesDecision ==
    \A k \in Fetch : fetch[k].after # None =>
        \A l \in fetch[k].lines : l.row = call[fetch[k].after].row => l.approval # "pending"

(* A decision of the page is on a row of the own company, so the check of  *)
(* the server cannot refuse it; a refresh follows an answer 200.           *)
PageInv ==
    /\ \A q \in Call : call[q].admin = Me =>
        call[q].row \in DOMAIN table /\ table[call[q].row].company = CompanyOf[Me]
    /\ \A q \in Call : Clicked(q) => call[q].admin = Me
    /\ \A k \in Fetch : fetch[k].after # None => callPc[fetch[k].after] = "ok"

(* A row with a decision under way has lost the slot only to another row.  *)
SlotInv == \A q \in Call : Clicked(q) /\ acting # call[q].row => DecidedAnother(call[q].row)

(* Nothing is asked for and nothing is shown before the page is opened.    *)
OpenInv ==
    tab = None =>
        /\ shown = {}
        /\ \A k \in Fetch : fetch[k] = NoFetch
        /\ \A q \in Call : ~Clicked(q)

(* The conjunction that every step of page and server keeps.               *)
DashboardInv ==
    /\ ReviewInv /\ DashboardTypeOK /\ PageInv /\ SlotInv /\ OpenInv
    /\ CardsAreOwn /\ PageIsNeverRefused /\ SpinnerHasFetch
    /\ DisabledHasDecision /\ SecondClickNeedsOther /\ RefreshSeesDecision

(* The spinner goes off again, and disabled buttons come back.             *)
SpinnerStops == loading ~> ~loading
ButtonsComeBack == acting # 0 ~> acting = 0

(* page.tsx:202 says "No ... verifications found." with the name of the    *)
(* tab.  It would not say so of the pending tab, with nothing under way    *)
(* and no error shown, while a row waits that was there before the page    *)
(* was opened.                                                             *)
EmptyTabIsEmpty ==
    tab = "pending" /\ InFlight = {} /\ ~error /\ shown = {} =>
        \A v \in 1 .. seen : v \notin Selected(Me, "pending")
=============================================================================
