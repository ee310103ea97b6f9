-------------------------- MODULE Dashboard_proofs --------------------------
(***************************************************************************)
(* What an admin's page shows and asks for stays right for any number of   *)
(* rows, of lists and decisions under way, and of other admins.            *)
(***************************************************************************)
EXTENDS Dashboard, Review_proofs

USE DashboardAssumption, ReviewAssumption

LEMMA InitDashboard == Init => DashboardInv
<1> SUFFICES ASSUME Init PROVE DashboardInv OBVIOUS
<1>1. ReviewInv /\ ReviewTypeOK BY InitReview DEF Init, ReviewInv
<1>2. \A k \in Fetch : fetch[k] = NoFetch BY DEF Init
<1>3. \A k \in Fetch : fetch[k].lines = {} /\ fetch[k].after = None BY <1>2 DEF NoFetch
<1>4. DashboardTypeOK BY <1>1 DEF Init, DashboardTypeOK
<1>5. PageInv /\ PageIsNeverRefused
  <2>1. \A q \in Call : call[q].admin # Me /\ ~ Clicked(q)
    BY DEF Init, ReviewInit, NoCall, Clicked
  <2> QED BY <1>3, <2>1 DEF PageInv, PageIsNeverRefused
<1>6. CardsAreOwn
  <2>1. shown \cup UNION {fetch[k].lines : k \in Fetch} = {} BY <1>3 DEF Init
  <2> QED BY <2>1 DEF CardsAreOwn
<1>7. SpinnerHasFetch /\ DisabledHasDecision /\ RefreshSeesDecision
  BY <1>3 DEF Init, SpinnerHasFetch, DisabledHasDecision, RefreshSeesDecision
<1>8. SlotInv /\ SecondClickNeedsOther BY DEF Init, SlotInv, SecondClickNeedsOther, Clicked
<1>9. OpenInv BY <1>2 DEF Init, OpenInv, Clicked
<1> QED BY <1>1, <1>4, <1>5, <1>6, <1>7, <1>8, <1>9 DEF DashboardInv

-----------------------------------------------------------------------------
(* The steps of the server and of other admins are table steps. *)
LEMMA ServerIsTableStep == ReviewInv /\ Server => TableStep /\ UNCHANGED pageVars
<1> SUFFICES ASSUME ReviewInv, Server PROVE TableStep /\ UNCHANGED pageVars OBVIOUS
<1>1. \A v \in DOMAIN table : v \in 0 .. Len(table) BY DEF ReviewInv, ReviewTypeOK
<1> QED BY <1>1 DEF Server, TableStep

(* A card stays right while rows come in and are decided. *)
LEMMA CardStays ==
    ASSUME Kept, NEW l, l.row \in DOMAIN table, table[l.row].company = CompanyOf[Me],
           l.approval # "pending" => Earned(l.row, l.approval, l.approver)
    PROVE  /\ l.row \in DOMAIN table' /\ table'[l.row].company = CompanyOf[Me]
           /\ l.approval # "pending" => Earned(l.row, l.approval, l.approver)'
<1>1. ASSUME l.approval # "pending" PROVE Earned(l.row, l.approval, l.approver)'
  <2>1. Earned(l.row, l.approval, l.approver) BY <1>1
  <2> QED BY <2>1, EarnedIsKept
<1> QED BY <1>1 DEF Kept

(* The slot is right as long as it is not touched: calls of the page stay  *)
(* what they are.                                                          *)
LEMMA SlotStays ==
    ASSUME DashboardInv, acting' = acting,
           \A q \in Call : Clicked(q)' => Clicked(q),
           \A q \in Call : call[q].admin = Me => call'[q] = call[q]
    PROVE  SlotInv' /\ SecondClickNeedsOther'
<1>1. ASSUME NEW v, DecidedAnother(v) PROVE DecidedAnother(v)'
  BY <1>1 DEF DecidedAnother
<1>2. \A q \in Call : Clicked(q)' => Clicked(q) /\ call'[q] = call[q]
  BY DEF DashboardInv, PageInv
<1>3. SlotInv'
  BY <1>1, <1>2 DEF DashboardInv, SlotInv
<1>4. SecondClickNeedsOther'
  BY <1>1, <1>2 DEF DashboardInv, SecondClickNeedsOther
<1> QED BY <1>3, <1>4

(* The calls of the page are its own, and no call turns into one of them. *)
LEMMA CallsOfThePage ==
    ASSUME DashboardInv, Server, NEW q \in Call
    PROVE  /\ call[q].admin = Me => callPc[q] # "idle"
           /\ call'[q].admin = Me => call[q].admin = Me
<1>1. call[q].admin = Me => callPc[q] # "idle"
  BY DEF DashboardInv, ReviewInv, CallInv, NoCall
<1>2. call \in [Call -> CallRecord \cup {NoCall}]
  BY DEF DashboardInv, ReviewInv, ReviewTypeOK
<1>3. ASSUME NEW p \in Call, NEW a \in Admin \ {Me}, NEW v \in DOMAIN table, NEW d \in Decision,
             Approve(p, a, v, d)
      PROVE  call'[q].admin = Me => call[q].admin = Me
  BY <1>2, <1>3 DEF Approve
<1>4. ASSUME \/ \E e \in Employee : CreateVerification(e)
             \/ \E p \in Call : Decide(p)
      PROVE  call' = call
  BY <1>4 DEF CreateVerification, Decide, CheckCompany, Update
<1> QED BY <1>1, <1>3, <1>4 DEF Server

(* A call of the page passes the company check. *)
LEMMA PageCallPasses ==
    ASSUME DashboardInv, TableStep, NEW q \in Call, call[q].admin = Me, callPc[q] # "idle"
    PROVE  callPc'[q] # "refused"
<1>1. callPc[q] # "refused" /\ SameCompany(q) /\ call[q].row # 0
  BY DEF DashboardInv, PageInv, PageIsNeverRefused, SameCompany, ReviewInv, ReviewTypeOK
<1>2. callPc \in [Call -> {"idle", "fetch", "update", "ok", "refused", "error"}]
  BY DEF DashboardInv, ReviewInv, ReviewTypeOK
<1>3. ASSUME NEW p \in Call, NEW a \in Admin, NEW v \in 0 .. Len(table), NEW d \in Decision,
             Approve(p, a, v, d)
      PROVE  callPc'[q] = callPc[q]
  BY <1>2, <1>3 DEF Approve
<1>4. ASSUME NEW p \in Call, CheckCompany(p) PROVE callPc'[q] # "refused"
  BY <1>1, <1>2, <1>4 DEF CheckCompany, Reached
<1>5. ASSUME NEW p \in Call, Update(p) PROVE callPc'[q] # "refused"
  BY <1>1, <1>2, <1>5 DEF Update, Reached
<1>6. ASSUME NEW e \in Employee, CreateVerification(e) PROVE callPc'[q] = callPc[q]
  BY <1>6 DEF CreateVerification
<1> QED BY <1>1, <1>3, <1>4, <1>5, <1>6 DEF TableStep, Decide

LEMMA ServerStep ==
    ASSUME DashboardInv, Server
    PROVE  DashboardInv'
<1>1. TableStep /\ UNCHANGED pageVars /\ ReviewInv BY ServerIsTableStep DEF DashboardInv
<1>2. Kept /\ ReviewInv' BY <1>1, TableStepKeeps, TableStepInv
<1>3. /\ tab' = tab /\ shown' = shown /\ loading' = loading /\ error' = error /\ acting' = acting
      /\ fetch' = fetch /\ clickTab' = clickTab /\ seen' = seen
  BY <1>1 DEF pageVars
<1>4. DashboardTypeOK' BY <1>2, <1>3 DEF DashboardInv, DashboardTypeOK, ReviewInv
<1>5. ASSUME NEW q \in Call, call'[q].admin = Me
      PROVE  /\ callPc'[q] # "refused" /\ call'[q] = call[q]
             /\ call'[q].row \in DOMAIN table'
             /\ table'[call'[q].row].company = CompanyOf[Me]
  <2>1. call[q].admin = Me /\ callPc[q] # "idle"
    BY <1>5, CallsOfThePage
  <2>2. call[q].row \in DOMAIN table /\ table[call[q].row].company = CompanyOf[Me]
    BY <2>1 DEF DashboardInv, PageInv
  <2>3. call'[q] = call[q]
    BY <1>2, <2>1 DEF Kept
  <2>4. call[q].row \in DOMAIN table' /\ table'[call[q].row].company = CompanyOf[Me]
    BY <1>2, <2>2 DEF Kept
  <2>5. callPc'[q] # "refused"
    BY <1>1, <2>1, PageCallPasses
  <2> QED BY <2>3, <2>4, <2>5
<1>6. ASSUME NEW q \in Call, call[q].admin = Me PROVE call'[q] = call[q]
  BY <1>2, <1>6, CallsOfThePage DEF Kept
<1>7. \A q \in Call : Clicked(q)' = Clicked(q) BY <1>3 DEF Clicked
<1>8. ASSUME NEW k \in Fetch, fetch[k].after # None
      PROVE  /\ callPc'[fetch[k].after] = "ok"
             /\ call'[fetch[k].after] = call[fetch[k].after]
  <2>1. fetch[k].after \in Call BY <1>8 DEF DashboardInv, DashboardTypeOK, FetchRecord, NoFetch
  <2> QED BY <1>2, <1>8, <2>1 DEF DashboardInv, PageInv, Kept
<1>9. PageInv'
  <2>1. \A q \in Call : Clicked(q)' => call'[q].admin = Me
    BY <1>6, <1>7 DEF DashboardInv, PageInv
  <2> QED BY <1>3, <1>5, <1>8, <2>1 DEF PageInv
<1>10. PageIsNeverRefused' BY <1>5 DEF PageIsNeverRefused
<1>11. CardsAreOwn'
  <2>1. ASSUME NEW l \in shown \cup UNION {fetch[k].lines : k \in Fetch}
        PROVE  /\ l.row \in DOMAIN table' /\ table'[l.row].company = CompanyOf[Me]
               /\ l.approval # "pending" => Earned(l.row, l.approval, l.approver)'
    BY <1>2, CardStays DEF DashboardInv, CardsAreOwn
  <2> QED BY <1>3, <2>1 DEF CardsAreOwn
<1>12. SpinnerHasFetch' BY <1>3 DEF DashboardInv, SpinnerHasFetch, InFlight
<1>13. DisabledHasDecision'
  BY <1>3, <1>6, <1>7 DEF DashboardInv, PageInv, DisabledHasDecision
<1>14. SlotInv' /\ SecondClickNeedsOther' BY <1>3, <1>6, <1>7, SlotStays
<1>15. RefreshSeesDecision' BY <1>3, <1>8 DEF DashboardInv, RefreshSeesDecision
<1>16. OpenInv' BY <1>3, <1>7 DEF DashboardInv, OpenInv
<1> QED BY <1>2, <1>4, <1>9, <1>10, <1>11, <1>12, <1>13, <1>14, <1>15, <1>16 DEF DashboardInv

-----------------------------------------------------------------------------
(* What a list request would be answered now are cards of the company. *)
LEMMA ListedCards ==
    ASSUME ReviewInv, NEW f, NEW l \in Listing(Me, f)
    PROVE  /\ l \in Line /\ l.row \in DOMAIN table /\ table[l.row].company = CompanyOf[Me]
           /\ l.approval = table[l.row].approval
           /\ l.approval # "pending" => Earned(l.row, l.approval, l.approver)
<1>1. PICK v \in Selected(Me, f) : l = LineOf(v) BY ListingIsSelected
<1>2. v \in DOMAIN table /\ table[v].company = CompanyOf[Me] BY DEF Selected, Visible
<1> QED BY <1>1, <1>2, LineIsRight

(* A step of the page that leaves the server alone: cards come from the    *)
(* page or from a list, no click is added, a refresh follows a 200.        *)
LEMMA QuietStep ==
    ASSUME DashboardInv, UNCHANGED reviewVars,
           \A q \in Call : Clicked(q)' => Clicked(q),
           \A k \in Fetch : fetch'[k].after # None => callPc[fetch'[k].after] = "ok",
           \A l \in shown' \cup UNION {fetch'[k].lines : k \in Fetch} :
                \/ l \in shown \cup UNION {fetch[k].lines : k \in Fetch}
                \/ \E f \in Filter : l \in Listing(Me, f)
    PROVE  ReviewInv' /\ ReviewTypeOK' /\ PageInv' /\ PageIsNeverRefused' /\ CardsAreOwn'
<1>1. table' = table /\ call' = call /\ callPc' = callPc /\ reply' = reply BY DEF reviewVars
<1>2. ReviewInv' BY ReviewStep DEF DashboardInv
<1>3. ReviewTypeOK' BY <1>2 DEF ReviewInv
<1>4. PageInv' BY <1>1 DEF DashboardInv, PageInv
<1>5. PageIsNeverRefused' BY <1>1 DEF DashboardInv, PageIsNeverRefused
<1>6. ASSUME NEW l \in shown' \cup UNION {fetch'[k].lines : k \in Fetch}
      PROVE  /\ l.row \in DOMAIN table' /\ table'[l.row].company = CompanyOf[Me]
             /\ l.approval # "pending" => Earned(l.row, l.approval, l.approver)'
  <2>1. /\ l.row \in DOMAIN table /\ table[l.row].company = CompanyOf[Me]
        /\ l.approval # "pending" => Earned(l.row, l.approval, l.approver)
    <3>1. CASE l \in shown \cup UNION {fetch[k].lines : k \in Fetch}
      BY <3>1 DEF DashboardInv, CardsAreOwn
    <3>2. ASSUME NEW f \in Filter, l \in Listing(Me, f)
          PROVE  /\ l.row \in DOMAIN table /\ table[l.row].company = CompanyOf[Me]
                 /\ l.approval # "pending" => Earned(l.row, l.approval, l.approver)
      BY <3>2, ListedCards DEF DashboardInv
    <3> QED BY <3>1, <3>2
  <2>2. Earned(l.row, l.approval, l.approver)' = Earned(l.row, l.approval, l.approver)
    BY <1>1 DEF Earned
  <2> QED BY <1>1, <2>1, <2>2
<1>7. CardsAreOwn' BY <1>6 DEF CardsAreOwn
<1> QED BY <1>2, <1>3, <1>4, <1>5, <1>7

(* A list request that is sent brings nothing and turns the spinner on. *)
LEMMA FetchSends ==
    ASSUME DashboardInv, NEW t \in Filter, NEW q \in Call \cup {None}, FetchVerifications(t, q)
    PROVE  /\ loading' = TRUE /\ error' = FALSE
           /\ fetch' \in [Fetch -> FetchRecord \cup {NoFetch}]
           /\ \E k \in Fetch :
                /\ fetch'[k].at # "free" /\ fetch'[k].after = q /\ fetch'[k].lines = {}
                /\ \A j \in Fetch \ {k} : fetch'[j] = fetch[j]
<1>1. PICK k \in Fetch :
        fetch' = [fetch EXCEPT ![k] = [at |-> "sent", tab |-> t, after |-> q, lines |-> {}]]
  BY DEF FetchVerifications
<1>2. fetch \in [Fetch -> FetchRecord \cup {NoFetch}] BY DEF DashboardInv, DashboardTypeOK
<1>3. [at |-> "sent", tab |-> t, after |-> q, lines |-> {}] \in FetchRecord BY DEF FetchRecord
<1>4. fetch'[k] = [at |-> "sent", tab |-> t, after |-> q, lines |-> {}]
      /\ \A j \in Fetch \ {k} : fetch'[j] = fetch[j]
  BY <1>1, <1>2
<1> QED BY <1>1, <1>2, <1>3, <1>4 DEF FetchVerifications

(* Opening the page and changing the tab start a list request. *)
LEMMA FetchStep ==
    ASSUME DashboardInv, NEW t \in Filter, FetchVerifications(t, None), tab' = t,
           seen' \in Nat, UNCHANGED <<reviewVars, shown, acting, clickTab>>
    PROVE  DashboardInv'
<1>1. PICK k \in Fetch :
        /\ fetch'[k].at # "free" /\ fetch'[k].after = None /\ fetch'[k].lines = {}
        /\ \A j \in Fetch \ {k} : fetch'[j] = fetch[j]
  BY FetchSends
<1>2. loading' = TRUE /\ error' = FALSE /\ fetch' \in [Fetch -> FetchRecord \cup {NoFetch}]
  BY FetchSends
<1>3. \A q \in Call : Clicked(q)' => Clicked(q) BY DEF Clicked
<1>4. \A j \in Fetch : fetch'[j].after # None => callPc[fetch'[j].after] = "ok"
  BY <1>1 DEF DashboardInv, PageInv
<1>5. \A l \in shown' \cup UNION {fetch'[j].lines : j \in Fetch} :
        l \in shown \cup UNION {fetch[j].lines : j \in Fetch}
  BY <1>1
<1>6. ReviewInv' /\ ReviewTypeOK' /\ PageInv' /\ PageIsNeverRefused' /\ CardsAreOwn'
  BY <1>3, <1>4, <1>5, QuietStep
<1>7. DashboardTypeOK' BY <1>2, <1>6 DEF DashboardInv, DashboardTypeOK
<1>8. SpinnerHasFetch' BY <1>1 DEF SpinnerHasFetch, InFlight
<1>9. DisabledHasDecision' BY DEF DashboardInv, DisabledHasDecision, Clicked, reviewVars
<1>10. RefreshSeesDecision' BY <1>1 DEF DashboardInv, RefreshSeesDecision, reviewVars
<1>11. OpenInv' BY DEF OpenInv
<1>12. SlotInv' /\ SecondClickNeedsOther' BY <1>3, SlotStays DEF reviewVars
<1> QED BY <1>6, <1>7, <1>8, <1>9, <1>10, <1>11, <1>12 DEF DashboardInv

(* The answer of a list is made of the table as it is now; what was        *)
(* decided before a refresh was sent is decided in it.                     *)
LEMMA AnswerStep ==
    ASSUME DashboardInv, NEW k \in Fetch, AnswerList(k)
    PROVE  DashboardInv'
<1> DEFINE t == fetch[k].tab
           new == [at |-> "answered", tab |-> t, after |-> fetch[k].after, lines |-> Listing(Me, t)]
<1>1. fetch \in [Fetch -> FetchRecord \cup {NoFetch}] /\ fetch[k].at = "sent"
  BY DEF DashboardInv, DashboardTypeOK, AnswerList
<1>2. fetch[k] \in FetchRecord BY <1>1 DEF NoFetch
<1>3. ReviewInv BY DEF DashboardInv
<1>4. t \in Filter /\ fetch[k].after \in Call \cup {None} BY <1>2 DEF FetchRecord
<1>5. new \in FetchRecord
  <2>1. Listing(Me, t) \in SUBSET Line BY <1>3, ListedCards
  <2> QED BY <1>4, <2>1 DEF FetchRecord
<1>6. fetch'[k] = new /\ \A j \in Fetch \ {k} : fetch'[j] = fetch[j]
  BY <1>1, <1>2 DEF AnswerList, FetchRecord
<1>7. fetch' \in [Fetch -> FetchRecord \cup {NoFetch}]
  <2>1. DOMAIN fetch' = Fetch /\ fetch' = [j \in Fetch |-> fetch'[j]] BY <1>1 DEF AnswerList
  <2>2. \A j \in Fetch : fetch'[j] \in FetchRecord \cup {NoFetch} BY <1>1, <1>5, <1>6
  <2> QED BY <2>1, <2>2
<1>8. UNCHANGED <<reviewVars, tab, shown, loading, error, acting, clickTab, seen>> BY DEF AnswerList
<1>9. ReviewInv' /\ ReviewTypeOK' /\ PageInv' /\ PageIsNeverRefused' /\ CardsAreOwn'
  <2>1. \A q \in Call : Clicked(q)' => Clicked(q) BY <1>8 DEF Clicked
  <2>2. \A j \in Fetch : fetch'[j].after # None => callPc[fetch'[j].after] = "ok"
    BY <1>6 DEF DashboardInv, PageInv
  <2>3. \A l \in shown' \cup UNION {fetch'[j].lines : j \in Fetch} :
          \/ l \in shown \cup UNION {fetch[j].lines : j \in Fetch}
          \/ \E f \in Filter : l \in Listing(Me, f)
    BY <1>4, <1>6, <1>8
  <2> QED BY <1>8, <2>1, <2>2, <2>3, QuietStep
<1>10. DashboardTypeOK' BY <1>7, <1>8, <1>9 DEF DashboardInv, DashboardTypeOK
<1>11. SpinnerHasFetch' BY <1>1, <1>6, <1>8 DEF DashboardInv, SpinnerHasFetch, InFlight
<1>12. DisabledHasDecision' BY <1>8 DEF DashboardInv, DisabledHasDecision, Clicked, reviewVars
<1>13. RefreshSeesDecision'
  <2>1. ASSUME fetch[k].after # None, NEW l \in Listing(Me, t), l.row = call[fetch[k].after].row
        PROVE  l.approval # "pending"
    <3>1. fetch[k].after \in Call /\ callPc[fetch[k].after] = "ok"
      BY <1>4, <2>1 DEF DashboardInv, PageInv
    <3>2. table[l.row].approval # "pending"
      BY <2>1, <3>1 DEF DashboardInv, ReviewInv, AckedIsDecided
    <3> QED BY <1>3, <3>2, ListedCards
  <2>2. call' = call BY <1>8 DEF reviewVars
  <2> QED BY <1>6, <2>1, <2>2 DEF DashboardInv, RefreshSeesDecision
<1>14. OpenInv' BY <1>1, <1>8 DEF DashboardInv, OpenInv, NoFetch
<1>15. SlotInv' /\ SecondClickNeedsOther' BY <1>8, SlotStays DEF Clicked, reviewVars
<1> QED BY <1>9, <1>10, <1>11, <1>12, <1>13, <1>14, <1>15 DEF DashboardInv

(* The page takes over what an answer brought, or leaves its list. *)
LEMMA EndFetchStep ==
    ASSUME DashboardInv, NEW k \in Fetch, EndFetch(k)
    PROVE  DashboardInv'
<1>1. fetch \in [Fetch -> FetchRecord \cup {NoFetch}] BY DEF DashboardInv, DashboardTypeOK
<1>2. fetch'[k] = NoFetch /\ \A j \in Fetch \ {k} : fetch'[j] = fetch[j] BY <1>1 DEF EndFetch
<1>3. fetch' \in [Fetch -> FetchRecord \cup {NoFetch}] BY <1>1 DEF EndFetch
<1>4. UNCHANGED <<reviewVars, tab, acting, clickTab, seen>> /\ loading' = FALSE /\ error' \in BOOLEAN
  BY DEF EndFetch, DashboardInv, DashboardTypeOK
<1>5. shown' = shown \/ shown' = fetch[k].lines BY DEF EndFetch
<1>6. NoFetch.lines = {} /\ NoFetch.after = None BY DEF NoFetch
<1>7. ReviewInv' /\ ReviewTypeOK' /\ PageInv' /\ PageIsNeverRefused' /\ CardsAreOwn'
  <2>1. \A q \in Call : Clicked(q)' => Clicked(q) BY <1>4 DEF Clicked
  <2>2. \A j \in Fetch : fetch'[j].after # None => callPc[fetch'[j].after] = "ok"
    BY <1>2, <1>6 DEF DashboardInv, PageInv
  <2>3. \A l \in shown' \cup UNION {fetch'[j].lines : j \in Fetch} :
          l \in shown \cup UNION {fetch[j].lines : j \in Fetch}
    BY <1>2, <1>5, <1>6
  <2> QED BY <1>4, <2>1, <2>2, <2>3, QuietStep
<1>8. shown' \subseteq Line
  <2>1. fetch[k].lines \subseteq Line BY <1>1, <1>6 DEF FetchRecord
  <2> QED BY <1>5, <2>1 DEF DashboardInv, DashboardTypeOK
<1>9. DashboardTypeOK' BY <1>3, <1>4, <1>7, <1>8 DEF DashboardInv, DashboardTypeOK
<1>10. SpinnerHasFetch' BY <1>4 DEF SpinnerHasFetch
<1>11. DisabledHasDecision' BY <1>4 DEF DashboardInv, DisabledHasDecision, Clicked, reviewVars
<1>12. RefreshSeesDecision' BY <1>2, <1>4, <1>6 DEF DashboardInv, RefreshSeesDecision, reviewVars
<1>13. OpenInv'
  <2>1. fetch[k] # NoFetch BY DEF EndFetch, NoFetch
  <2> QED BY <1>4, <2>1 DEF DashboardInv, OpenInv
<1>14. SlotInv' /\ SecondClickNeedsOther' BY <1>4, SlotStays DEF Clicked, reviewVars
<1> QED BY <1>7, <1>9, <1>10, <1>11, <1>12, <1>13, <1>14 DEF DashboardInv

(* A click: the row is one that is shown, so it is of the own company. *)
LEMMA ClickStep ==
    ASSUME DashboardInv, NEW q \in Call, NEW v \in DOMAIN table, NEW d \in Decision,
           HandleDecision(q, v, d)
    PROVE  DashboardInv'
<1>1. /\ ReviewInv /\ v \in 0 .. Len(table) /\ table[v].company = CompanyOf[Me]
  <2>1. ReviewInv /\ v \in 0 .. Len(table) BY DEF DashboardInv, ReviewInv, ReviewTypeOK
  <2>2. PICK l \in shown : l.row = v BY DEF HandleDecision, HasButtons
  <2> QED BY <2>1, <2>2 DEF DashboardInv, CardsAreOwn
<1>2. Approve(q, Me, v, d) BY DEF HandleDecision
<1>3. TableStep BY <1>1, <1>2 DEF TableStep
<1>4. Kept /\ ReviewInv' BY <1>1, <1>3, TableStepKeeps, TableStepInv
<1>5. /\ callPc[q] = "idle" /\ callPc'[q] = "fetch" /\ table' = table
      /\ call'[q] = [admin |-> Me, row |-> v, decision |-> d]
      /\ \A p \in Call \ {q} : callPc'[p] = callPc[p] /\ call'[p] = call[p]
  BY <1>1, <1>2 DEF Approve, ReviewInv, ReviewTypeOK
<1>6. /\ UNCHANGED <<tab, shown, loading, error, fetch, seen>> /\ acting' = v
      /\ clickTab' = [clickTab EXCEPT ![q] = tab] /\ clickTab \in [Call -> Filter \cup {None}]
      /\ tab \in Filter \cup {None}
  BY DEF HandleDecision, DashboardInv, DashboardTypeOK
<1>7. DashboardTypeOK'
  <2>1. acting' \in Nat BY <1>1, <1>6 DEF ReviewInv, ReviewTypeOK
  <2>2. clickTab' \in [Call -> Filter \cup {None}] BY <1>6
  <2> QED BY <1>4, <1>6, <2>1, <2>2 DEF DashboardInv, DashboardTypeOK, ReviewInv
<1>8. \A p \in Call \ {q} : Clicked(p)' = Clicked(p) BY <1>6 DEF Clicked
<1>9. PageInv'
  <2>1. ASSUME NEW p \in Call, call'[p].admin = Me
        PROVE  call'[p].row \in DOMAIN table' /\ table'[call'[p].row].company = CompanyOf[Me]
    <3>1. CASE p = q BY <1>1, <1>5, <3>1
    <3>2. CASE p # q BY <1>5, <2>1, <3>2 DEF DashboardInv, PageInv
    <3> QED BY <3>1, <3>2
  <2>2. ASSUME NEW p \in Call, Clicked(p)' PROVE call'[p].admin = Me
    <3>1. CASE p = q BY <1>5, <3>1
    <3>2. CASE p # q BY <1>5, <1>8, <2>2, <3>2 DEF DashboardInv, PageInv
    <3> QED BY <3>1, <3>2
  <2>3. ASSUME NEW k \in Fetch, fetch'[k].after # None PROVE callPc'[fetch'[k].after] = "ok"
    <3>1. fetch[k].after \in Call
      BY <1>6, <2>3 DEF DashboardInv, DashboardTypeOK, FetchRecord, NoFetch
    <3> QED BY <1>4, <1>6, <2>3, <3>1 DEF DashboardInv, PageInv, Kept
  <2> QED BY <2>1, <2>2, <2>3 DEF PageInv
<1>10. PageIsNeverRefused'
  <2>1. ASSUME NEW p \in Call, call'[p].admin = Me PROVE callPc'[p] # "refused"
    <3>1. CASE p = q BY <1>5, <3>1
    <3>2. CASE p # q BY <1>5, <2>1, <3>2 DEF DashboardInv, PageIsNeverRefused
    <3> QED BY <3>1, <3>2
  <2> QED BY <2>1 DEF PageIsNeverRefused
<1>11. CardsAreOwn'
  <2>1. ASSUME NEW l \in shown \cup UNION {fetch[k].lines : k \in Fetch}
        PROVE  /\ l.row \in DOMAIN table' /\ table'[l.row].company = CompanyOf[Me]
               /\ l.approval # "pending" => Earned(l.row, l.approval, l.approver)'
    BY <1>4, CardStays DEF DashboardInv, CardsAreOwn
  <2> QED BY <1>6, <2>1 DEF CardsAreOwn
<1>12. SpinnerHasFetch' BY <1>6 DEF DashboardInv, SpinnerHasFetch, InFlight
<1>13. tab # None
  <2>1. shown # {} BY DEF HandleDecision, HasButtons
  <2> QED BY <2>1 DEF DashboardInv, OpenInv
<1>14. DisabledHasDecision'
  <2>1. Clicked(q)' BY <1>6, <1>13 DEF Clicked
  <2> QED BY <1>5, <1>6, <2>1 DEF DisabledHasDecision
<1>15. OpenInv' BY <1>6, <1>13 DEF OpenInv
<1>16. RefreshSeesDecision'
  <2>1. ASSUME NEW k \in Fetch, fetch[k].after # None
        PROVE  call'[fetch[k].after] = call[fetch[k].after]
    <3>1. fetch[k].after \in Call BY <2>1 DEF DashboardInv, DashboardTypeOK, FetchRecord, NoFetch
    <3>2. callPc[fetch[k].after] = "ok" BY <2>1 DEF DashboardInv, PageInv
    <3> QED BY <1>4, <3>1, <3>2 DEF Kept
  <2> QED BY <1>6, <2>1 DEF DashboardInv, RefreshSeesDecision
<1>17. call[q].admin # Me
  BY <1>1, <1>5 DEF ReviewInv, CallInv, NoCall
<1> DEFINE Another(w) == \E s \in Call : call'[s].admin = Me /\ call'[s].row # w
<1>18. SlotInv'
  <2>1. ASSUME NEW p \in Call, Clicked(p)', v # call'[p].row PROVE Another(call'[p].row)
    BY <1>5, <2>1
  <2> QED BY <1>6, <2>1 DEF SlotInv, DecidedAnother
<1>19. SecondClickNeedsOther'
  <2>1. ASSUME NEW w, DecidedAnother(w) PROVE Another(w)
    BY <1>5, <1>17, <2>1 DEF DecidedAnother
  <2>2. ASSUME NEW p \in Call \ {q}, Clicked(p)', call'[p].row = v PROVE Another(v)
    <3>1. Clicked(p) /\ acting # call[p].row
      BY <1>5, <1>8, <2>2 DEF HandleDecision
    <3>2. DecidedAnother(v)
      BY <1>5, <2>2, <3>1 DEF DashboardInv, SlotInv
    <3> QED BY <2>1, <3>2
  <2>3. ASSUME NEW p \in Call \ {q}, NEW s \in Call \ {q}, p # s, Clicked(p)', Clicked(s)',
               call'[p].row = call'[s].row
        PROVE  Another(call'[s].row)
    <3>1. DecidedAnother(call[s].row)
      BY <1>5, <1>8, <2>3 DEF DashboardInv, SecondClickNeedsOther
    <3> QED BY <1>5, <2>1, <3>1
  <2>4. ASSUME NEW p \in Call, NEW s \in Call, p # s, Clicked(p)', Clicked(s)',
               call'[p].row = call'[s].row
        PROVE  Another(call'[s].row)
    <3>1. CASE p = q BY <1>5, <2>2, <2>4, <3>1
    <3>2. CASE s = q BY <1>5, <2>2, <2>4, <3>2
    <3>3. CASE p # q /\ s # q BY <2>3, <2>4, <3>3
    <3> QED BY <3>1, <3>2, <3>3
  <2> QED BY <2>4 DEF SecondClickNeedsOther, DecidedAnother
<1> QED BY <1>4, <1>7, <1>9, <1>10, <1>11, <1>12, <1>14, <1>15, <1>16, <1>18, <1>19 DEF DashboardInv

(* A decision ends: after a 200 its row is decided, and stays so.          *)
LEMMA EndDecisionStep ==
    ASSUME DashboardInv, NEW q \in Call, EndDecision(q)
    PROVE  DashboardInv'
<1>1. UNCHANGED <<reviewVars, tab, shown, seen>> /\ acting' = 0 /\ Clicked(q)
      /\ clickTab' = [clickTab EXCEPT ![q] = None]
  BY DEF EndDecision
<1>2. clickTab \in [Call -> Filter \cup {None}] /\ fetch \in [Fetch -> FetchRecord \cup {NoFetch}]
  BY DEF DashboardInv, DashboardTypeOK
<1>3. clickTab[q] \in Filter BY <1>1, <1>2 DEF Clicked
<1>4. \A p \in Call : Clicked(p)' => Clicked(p) BY <1>1, <1>2 DEF Clicked
<1>5. /\ loading' \in BOOLEAN /\ error' \in BOOLEAN /\ fetch' \in [Fetch -> FetchRecord \cup {NoFetch}]
      /\ SpinnerHasFetch'
      /\ \A k \in Fetch :
            \/ fetch'[k] = fetch[k]
            \/ fetch'[k].after = q /\ callPc[q] = "ok" /\ fetch'[k].lines = {}
  <2>1. CASE callPc[q] = "ok" /\ FetchVerifications(clickTab[q], q)
    <3>1. PICK k \in Fetch :
            /\ fetch'[k].at # "free" /\ fetch'[k].after = q /\ fetch'[k].lines = {}
            /\ \A j \in Fetch \ {k} : fetch'[j] = fetch[j]
      BY <1>3, <2>1, FetchSends
    <3>2. loading' = TRUE /\ error' = FALSE /\ fetch' \in [Fetch -> FetchRecord \cup {NoFetch}]
      BY <1>3, <2>1, FetchSends
    <3>3. SpinnerHasFetch' BY <3>1 DEF SpinnerHasFetch, InFlight
    <3> QED BY <2>1, <3>1, <3>2, <3>3
  <2>2. CASE error' = TRUE /\ UNCHANGED <<fetch, loading>>
    <3>1. SpinnerHasFetch' BY <2>2 DEF DashboardInv, SpinnerHasFetch, InFlight
    <3> QED BY <1>2, <2>2, <3>1 DEF DashboardInv, DashboardTypeOK
  <2> QED BY <2>1, <2>2 DEF EndDecision
<1>6. ReviewInv' /\ ReviewTypeOK' /\ PageInv' /\ PageIsNeverRefused' /\ CardsAreOwn'
  <2>1. \A k \in Fetch : fetch'[k].after # None => callPc[fetch'[k].after] = "ok"
    BY <1>5 DEF DashboardInv, PageInv
  <2>2. \A l \in shown' \cup UNION {fetch'[k].lines : k \in Fetch} :
          l \in shown \cup UNION {fetch[k].lines : k \in Fetch}
    BY <1>1, <1>5
  <2> QED BY <1>1, <1>4, <2>1, <2>2, QuietStep
<1>7. clickTab' \in [Call -> Filter \cup {None}] BY <1>1, <1>2
<1>8. DashboardTypeOK' BY <1>1, <1>5, <1>6, <1>7 DEF DashboardInv, DashboardTypeOK
<1>9. DisabledHasDecision' BY <1>1 DEF DisabledHasDecision
<1>10. RefreshSeesDecision' BY <1>1, <1>5 DEF DashboardInv, RefreshSeesDecision, reviewVars
<1>11. OpenInv' BY <1>1 DEF DashboardInv, OpenInv
<1>12. call' = call /\ call[q].admin = Me BY <1>1 DEF DashboardInv, PageInv, reviewVars
<1>13. ASSUME NEW p \in Call, Clicked(p)' PROVE DecidedAnother(call[p].row)
  <2>1. p # q /\ Clicked(p) BY <1>1, <1>2, <1>4, <1>13 DEF Clicked
  <2>2. CASE call[p].row = call[q].row
    BY <1>1, <2>1, <2>2 DEF DashboardInv, SecondClickNeedsOther
  <2>3. CASE call[p].row # call[q].row BY <1>12, <2>3 DEF DecidedAnother
  <2> QED BY <2>2, <2>3
<1>14. \A w : DecidedAnother(w)' = DecidedAnother(w) BY <1>12 DEF DecidedAnother
<1>15. SlotInv' /\ SecondClickNeedsOther'
  BY <1>12, <1>13, <1>14 DEF SlotInv, SecondClickNeedsOther
<1> QED BY <1>5, <1>6, <1>8, <1>9, <1>10, <1>11, <1>15 DEF DashboardInv

-----------------------------------------------------------------------------
LEMMA DashboardStep ==
    ASSUME DashboardInv, [Next]_vars
    PROVE  DashboardInv'
<1>1. CASE Server BY <1>1, ServerStep
<1>2. CASE OpenPage
  <2>1. /\ FetchVerifications("pending", None) /\ tab' = "pending" /\ seen' = Len(table)
        /\ UNCHANGED <<reviewVars, shown, acting, clickTab>>
    BY <1>2 DEF OpenPage
  <2>2. seen' \in Nat BY <2>1 DEF DashboardInv, ReviewInv, ReviewTypeOK
  <2>3. "pending" \in Filter BY DEF Filter, Approval
  <2> QED BY <2>1, <2>2, <2>3, FetchStep
<1>3. ASSUME NEW t \in Filter, SelectTab(t) PROVE DashboardInv'
  <2>1. /\ FetchVerifications(t, None) /\ tab' = t /\ seen' = seen
        /\ UNCHANGED <<reviewVars, shown, acting, clickTab>>
    BY <1>3 DEF SelectTab
  <2>2. seen' \in Nat BY <2>1 DEF DashboardInv, DashboardTypeOK
  <2> QED BY <2>1, <2>2, FetchStep
<1>4. ASSUME NEW k \in Fetch, AnswerList(k) \/ EndFetch(k) PROVE DashboardInv'
  BY <1>4, AnswerStep, EndFetchStep
<1>5. ASSUME NEW q \in Call, NEW v \in DOMAIN table, NEW d \in Decision, HandleDecision(q, v, d)
      PROVE  DashboardInv'
  BY <1>5, ClickStep
<1>6. ASSUME NEW q \in Call, EndDecision(q) PROVE DashboardInv'
  BY <1>6, EndDecisionStep
<1>7. CASE UNCHANGED vars
  <2>1. UNCHANGED reviewVars /\ UNCHANGED pageVars BY <1>7 DEF vars
  <2>2. /\ tab' = tab /\ shown' = shown /\ loading' = loading /\ error' = error /\ acting' = acting
        /\ fetch' = fetch /\ clickTab' = clickTab /\ seen' = seen
    BY <2>1 DEF pageVars
  <2>3. call' = call /\ callPc' = callPc BY <2>1 DEF reviewVars
  <2>4. ReviewInv' /\ ReviewTypeOK' /\ PageInv' /\ PageIsNeverRefused' /\ CardsAreOwn'
    <3>1. \A q \in Call : Clicked(q)' => Clicked(q) BY <2>2 DEF Clicked
    <3>2. \A k \in Fetch : fetch'[k].after # None => callPc[fetch'[k].after] = "ok"
      BY <2>2 DEF DashboardInv, PageInv
    <3> QED BY <2>1, <2>2, <3>1, <3>2, QuietStep
  <2>5. DashboardTypeOK' BY <2>2, <2>4 DEF DashboardInv, DashboardTypeOK
  <2>6. SpinnerHasFetch' /\ OpenInv' BY <2>2 DEF DashboardInv, SpinnerHasFetch, InFlight, OpenInv, Clicked
  <2>7. DisabledHasDecision' BY <2>2, <2>3 DEF DashboardInv, DisabledHasDecision, Clicked
  <2>8. RefreshSeesDecision' BY <2>2, <2>3 DEF DashboardInv, RefreshSeesDecision
  <2>9. SlotInv' /\ SecondClickNeedsOther' BY <2>2, <2>3, SlotStays DEF Clicked
  <2> QED BY <2>4, <2>5, <2>6, <2>7, <2>8, <2>9 DEF DashboardInv
<1> QED BY <1>1, <1>2, <1>3, <1>4, <1>5, <1>6, <1>7 DEF Next, Page

(* The inductive invariant of the page and the server, for any number of   *)
(* rows, lists under way and decisions (page.tsx:46-111).                  *)
THEOREM DashboardSafe == Spec => []DashboardInv
<1>1. Init => DashboardInv BY InitDashboard
<1>2. DashboardInv /\ [Next]_vars => DashboardInv' BY DashboardStep
<1> QED BY <1>1, <1>2, PTL DEF Spec

(* Whatever overtakes what, the page shows cards of the own company, and   *)
(* no decision that was not made (page.tsx:71).                            *)
THEOREM CardsStayOwn == Spec => []CardsAreOwn
<1>1. DashboardInv => CardsAreOwn BY DEF DashboardInv
<1> QED BY <1>1, DashboardSafe, PTL

(* No decision that the page sends fails the company check                 *)
(* (handlers.go:190-203).                                                  *)
THEOREM PageNeverRefused == Spec => []PageIsNeverRefused
<1>1. DashboardInv => PageIsNeverRefused BY DEF DashboardInv
<1> QED BY <1>1, DashboardSafe, PTL

(* The spinner is on only while a list is under way (page.tsx:46-77).      *)
THEOREM SpinnerIsHonest == Spec => []SpinnerHasFetch
<1>1. DashboardInv => SpinnerHasFetch BY DEF DashboardInv
<1> QED BY <1>1, DashboardSafe, PTL

(* Buttons are disabled only while a decision on their row is under way    *)
(* (page.tsx:83-111).                                                      *)
THEOREM DisabledIsDecided == Spec => []DisabledHasDecision
<1>1. DashboardInv => DisabledHasDecision BY DEF DashboardInv
<1> QED BY <1>1, DashboardSafe, PTL

(* A second decision on a row while the first is under way is only sent    *)
(* after one on another row, however many rows are on the screen           *)
(* (page.tsx:36, 84, 110, 265).                                            *)
THEOREM SecondClicksAreExplained == Spec => []SecondClickNeedsOther
<1>1. DashboardInv => SecondClickNeedsOther BY DEF DashboardInv
<1> QED BY <1>1, DashboardSafe, PTL

(* The refresh after a decision shows its row decided (page.tsx:104).      *)
THEOREM RefreshesSeeDecisions == Spec => []RefreshSeesDecision
<1>1. DashboardInv => RefreshSeesDecision BY DEF DashboardInv
<1> QED BY <1>1, DashboardSafe, PTL

-----------------------------------------------------------------------------
(* The page asks the server for nothing that another client could not ask. *)
LEMMA StepIsReview == DashboardInv /\ [Next]_vars => [ReviewNext]_reviewVars
<1> SUFFICES ASSUME DashboardInv, [Next]_vars PROVE ReviewNext \/ UNCHANGED reviewVars OBVIOUS
<1>1. ReviewInv BY DEF DashboardInv
<1>2. CASE Server
  <2>1. TableStep BY <1>1, <1>2, ServerIsTableStep
  <2> QED BY <2>1 DEF TableStep, ReviewNext
<1>3. ASSUME NEW q \in Call, NEW v \in DOMAIN table, NEW d \in Decision, HandleDecision(q, v, d)
      PROVE  ReviewNext
  <2>1. v \in 0 .. Len(table) BY <1>1 DEF ReviewInv, ReviewTypeOK
  <2>2. Approve(q, Me, v, d) BY <1>3 DEF HandleDecision
  <2> QED BY <2>1, <2>2 DEF ReviewNext
<1>4. ASSUME \/ OpenPage
             \/ \E t \in Filter : SelectTab(t)
             \/ \E k \in Fetch : AnswerList(k) \/ EndFetch(k)
             \/ \E q \in Call : EndDecision(q)
             \/ UNCHANGED vars
      PROVE  UNCHANGED reviewVars
  BY <1>4 DEF OpenPage, SelectTab, AnswerList, EndFetch, EndDecision, vars
<1> QED BY <1>2, <1>3, <1>4 DEF Next, Page

(* With the page, the verifications table does only what it does without   *)
(* it: all that is proved of the table holds of the table behind the page  *)
(* (page.tsx:46-111, handlers.go:85-227).                                  *)
THEOREM PageIsAClient == Spec => ReviewSpec
<1>1. Init => ReviewInit BY DEF Init
<1> QED BY <1>1, StepIsReview, DashboardSafe, PTL DEF Spec, ReviewSpec

(* Decisions made on the page are atomic as well, however old the list is  *)
(* that they were clicked in (page.tsx:83-111, handlers.go:190-212).       *)
THEOREM ClicksAreAtomic == Spec => ImplementsApprovals
  BY PageIsAClient, DecidingIsAtomic, PTL
=============================================================================
