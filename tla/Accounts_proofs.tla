-------------------------- MODULE Accounts_proofs --------------------------
(***************************************************************************)
(* Proofs about registration, login and the tabs of a browser, for any     *)
(* number of users, requests and tabs.                                     *)
(***************************************************************************)
EXTENDS Accounts, TLAPS

AccountsIInv == AccountsTypeOK /\ AccountsInv

LEMMA HomesArePages == \A r \in Role : HomeOf[r] \in Page
BY DEF Role, HomeOf, Page, TokenPage

LEMMA AccountsStart == Init => AccountsIInv
<1> SUFFICES ASSUME Init PROVE AccountsIInv
  OBVIOUS
<1> USE AccountsAssumption, PagesAssumption DEF Init
<1>1. AccountsTypeOK
  BY DEF AccountsTypeOK, Page
<1>2. RowsAreSound /\ TokensTellTheRow /\ CreatedIsKept
  BY DEF RowsAreSound, TokensTellTheRow, Tokens, CreatedIsKept
<1>3. \A r \in Request : RequestInv(r)
  BY DEF RequestInv
<1>4. \A t \in Tab : TabInv(t)
  BY DEF TabInv, TokenPage, Page
<1> QED BY <1>1, <1>2, <1>3, <1>4 DEF AccountsIInv, AccountsInv

-----------------------------------------------------------------------------
(* No new token comes up when the table stays as it is.                    *)
LEMMA SameTokens ==
    ASSUME TokensTellTheRow, users' = users, Tokens' \subseteq Tokens \cup {None}
    PROVE  TokensTellTheRow'
BY DEF TokensTellTheRow, TokenOf

(* A form is sent.                                                         *)
LEMMA SubmitStep ==
    ASSUME AccountsIInv, NEW r \in Request, NEW t \in Tab,
           NEW k \in {"register", "login"}, NEW f \in Form \cup Credentials,
           k = "register" => f \in Form, k = "login" => f \in Credentials,
           Submit(r, t, k, f)
    PROVE  AccountsIInv'
<1> USE AccountsAssumption
<1>1. AccountsTypeOK /\ AccountsInv
  BY DEF AccountsIInv
<1>2. AccountsTypeOK'
  BY <1>1 DEF AccountsTypeOK, Submit, tabVars
<1>3. /\ at[r] = "new" /\ page[t] = k /\ UNCHANGED <<users, code, got, where, tabVars>>
      /\ at'[r] = "sent" /\ kind'[r] = k /\ form'[r] = f /\ from'[r] = t
      /\ \A q \in Request \ {r} : /\ at'[q] = at[q] /\ kind'[q] = kind[q]
                                  /\ form'[q] = form[q] /\ from'[q] = from[q]
  BY <1>1 DEF Submit, AccountsTypeOK
<1>4. RowsAreSound' /\ TokensTellTheRow'
  BY <1>1, <1>3, SameTokens DEF AccountsInv, RowsAreSound, Tokens, tabVars
<1>5. code[r] = "none"
  BY <1>1, <1>3 DEF AccountsInv, RequestInv
<1>6. CreatedIsKept'
  BY <1>1, <1>3, <1>5 DEF AccountsInv, CreatedIsKept
<1>7. ASSUME NEW q \in Request PROVE RequestInv(q)'
  BY <1>1, <1>3, <1>5 DEF AccountsInv, RequestInv
<1>8. ASSUME NEW u \in Tab PROVE TabInv(u)'
  <2>1. TabInv(u) /\ u # None /\ routed[u] \in Request \cup {None}
    BY <1>1 DEF AccountsInv, AccountsTypeOK
  <2>2. UNCHANGED <<stored, page[u], going[u], token[u], routed[u], got, where>>
    BY <1>3 DEF tabVars
  <2>3. \A x : FromElsewhere(x, u) => FromElsewhere(x, u)'
    BY <1>3, <2>2 DEF FromElsewhere
  <2>4. routed[u] # None => routed[u] # r
    BY <1>3, <2>1 DEF TabInv
  <2>5. Misfit(u)' <=> Misfit(u)
    BY <2>2 DEF Misfit
  <2>6. routed[u] = None /\ page[u] \in TokenPage => u # t
    BY <1>3 DEF TokenPage
  <2> QED BY <1>3, <2>1, <2>2, <2>3, <2>4, <2>5, <2>6 DEF TabInv
<1> QED BY <1>2, <1>4, <1>6, <1>7, <1>8 DEF AccountsIInv, AccountsInv

(* The tabs do not notice that a request is answered.                      *)
LEMMA TabsDoNotNotice ==
    ASSUME AccountsIInv, NEW r \in Request, at[r] = "sent",
           at' = [at EXCEPT ![r] = "answered"],
           \A q \in Request \ {r} : got'[q] = got[q],
           UNCHANGED <<from, where, tabVars>>,
           NEW t \in Tab
    PROVE  TabInv(t)'
<1>1. TabInv(t) /\ AccountsTypeOK /\ routed[t] \in Request \cup {None}
  BY DEF AccountsIInv, AccountsInv, AccountsTypeOK
<1>2. UNCHANGED <<stored, page, going, token, routed>>
  BY DEF tabVars
<1>3. \A q \in Request : at[q] = "done" => at'[q] = "done" /\ got'[q] = got[q]
  BY <1>1 DEF AccountsTypeOK
<1>4. \A x : FromElsewhere(x, t) => FromElsewhere(x, t)'
  BY <1>3 DEF FromElsewhere
<1>5. Misfit(t)' <=> Misfit(t)
  BY <1>2 DEF Misfit
<1> QED BY <1>1, <1>2, <1>3, <1>4, <1>5 DEF TabInv

(* A row that is new in the table is sound, and nothing else is new.       *)
LEMMA CreateStep ==
    ASSUME AccountsTypeOK, NEW f \in Form, FormOK(f), CreateUser(f)
    PROVE  /\ users' \in [Email -> Row \cup {None}]
           /\ f.email \in Email /\ users[f.email] = None
           /\ users'[f.email] = [password |-> f.password, role |-> f.role, company |-> f.company]
           /\ users'[f.email] # None
           /\ \A e \in Email \ {f.email} : users'[e] = users[e]
           /\ RowsAreSound => RowsAreSound'
<1> USE AccountsAssumption
<1>1. f.email \in Email /\ f.password \in Password /\ f.role \in Role
      /\ f.company \in Company \cup {None}
  BY DEF FormOK, CreateUser
<1> DEFINE row == [password |-> f.password, role |-> f.role, company |-> f.company]
<1>2. row \in Row /\ row # None
  BY <1>1 DEF Row
<1> HIDE DEF row
<1>3. users' = [users EXCEPT ![f.email] = row]
  BY DEF CreateUser, row
<1>4. /\ users' \in [Email -> Row \cup {None}] /\ users'[f.email] = row
      /\ \A e \in Email \ {f.email} : users'[e] = users[e]
  BY <1>1, <1>2, <1>3 DEF AccountsTypeOK
<1>5. row.role = "platform_admin" <=> row.company = None
  BY DEF row, FormOK
<1>6. RowsAreSound => RowsAreSound'
  BY <1>4, <1>5 DEF RowsAreSound
<1> QED BY <1>1, <1>2, <1>4, <1>6 DEF CreateUser, row

(* The register handler answers.                                           *)
LEMMA RegisterStep ==
    ASSUME AccountsIInv, NEW r \in Request, Register(r)
    PROVE  AccountsIInv'
<1> USE AccountsAssumption
<1>1. AccountsTypeOK /\ AccountsInv /\ RequestInv(r)
  BY DEF AccountsIInv, AccountsInv
<1>2. /\ at[r] = "sent" /\ at' = [at EXCEPT ![r] = "answered"]
      /\ kind[r] = "register" /\ form[r] \in Form /\ code[r] = "none"
      /\ UNCHANGED <<kind, form, from, got, where, tabVars>>
      /\ \E c \in {"201", "400", "409", "lost"} : code' = [code EXCEPT ![r] = c]
  BY <1>1 DEF Register, Answer, RequestInv
<1>3. \A t \in Tab : TabInv(t)'
  BY <1>2, TabsDoNotNotice
<1>5. CASE UNCHANGED users /\ code'[r] # "201"
  <2>1. AccountsTypeOK'
    BY <1>1, <1>2, <1>5 DEF AccountsTypeOK, tabVars
  <2>2. RowsAreSound' /\ TokensTellTheRow'
    BY <1>1, <1>2, <1>5, SameTokens DEF AccountsInv, RowsAreSound, Tokens, tabVars
  <2>3. CreatedIsKept'
    BY <1>1, <1>2, <1>5 DEF AccountsInv, AccountsTypeOK, CreatedIsKept
  <2>4. ASSUME NEW q \in Request PROVE RequestInv(q)'
    BY <1>1, <1>2, <1>5 DEF AccountsInv, AccountsTypeOK, RequestInv
  <2> QED BY <1>3, <2>1, <2>2, <2>3, <2>4 DEF AccountsIInv, AccountsInv
<1>6. CASE FormOK(form[r]) /\ CreateUser(form[r])
  <2> DEFINE e == form[r].email
  <2>1. /\ users' \in [Email -> Row \cup {None}] /\ RowsAreSound'
        /\ e \in Email /\ users[e] = None /\ users'[e] # None
        /\ users'[e] = [password |-> form[r].password, role |-> form[r].role,
                        company |-> form[r].company]
        /\ \A d \in Email \ {e} : users'[d] = users[d]
    BY <1>1, <1>2, <1>6, CreateStep DEF AccountsInv
  <2> HIDE DEF e
  <2>2. AccountsTypeOK'
    BY <1>1, <1>2, <2>1 DEF AccountsTypeOK, tabVars
  <2>3. TokensTellTheRow'
    <3>1. Tokens' = Tokens
      BY <1>2 DEF Tokens, tabVars
    <3>2. \A k \in Tokens \ {None} : k.user \in Email
      BY <1>1 DEF AccountsTypeOK, Tokens, Token
    <3>3. ASSUME NEW k \in Tokens \ {None}
          PROVE  users'[k.user] # None /\ k = TokenOf(k.user)'
      <4>1. users[k.user] # None /\ k = TokenOf(k.user)
        BY <1>1 DEF AccountsInv, TokensTellTheRow
      <4>2. users'[k.user] = users[k.user]
        BY <2>1, <3>2, <4>1
      <4> QED BY <4>1, <4>2 DEF TokenOf
    <3> QED BY <3>1, <3>3 DEF TokensTellTheRow
  <2>4. CreatedIsKept'
    <3>1. ASSUME NEW q \in Request \ {r}, code'[q] = "201"
          PROVE  /\ form[q].email \in Email \ {e} /\ code[q] = "201"
                 /\ users'[form[q].email] =
                       [password |-> form[q].password, role |-> form[q].role,
                        company |-> form[q].company]
      <4>1. code[q] = "201" /\ form[q] \in Form
        BY <1>1, <1>2, <3>1 DEF AccountsInv, AccountsTypeOK, RequestInv
      <4>2. users[form[q].email] = [password |-> form[q].password, role |-> form[q].role,
                                    company |-> form[q].company]
        BY <1>1, <4>1 DEF AccountsInv, CreatedIsKept
      <4>3. form[q].email \in Email /\ users[form[q].email] # None
        BY <1>1, <4>1 DEF AccountsInv, RequestInv
      <4> QED BY <2>1, <4>1, <4>2, <4>3
    <3>2. ASSUME NEW q \in Request, code'[q] = "201"
          PROVE  users'[form'[q].email] =
                    [password |-> form'[q].password, role |-> form'[q].role,
                     company |-> form'[q].company]
      BY <1>2, <2>1, <3>1, <3>2 DEF e
    <3>3. ASSUME NEW q \in Request, NEW p \in Request \ {q}, code'[q] = "201", code'[p] = "201"
          PROVE  form'[q].email # form'[p].email
      <4>1. CASE q # r /\ p # r
        <5>1. code[q] = "201" /\ code[p] = "201"
          BY <3>1, <3>3, <4>1
        <5> QED BY <1>1, <1>2, <3>3, <5>1 DEF AccountsInv, CreatedIsKept
      <4>2. CASE q = r
        BY <1>2, <3>1, <3>3, <4>2 DEF e
      <4>3. CASE p = r
        BY <1>2, <3>1, <3>3, <4>3 DEF e
      <4> QED BY <4>1, <4>2, <4>3
    <3> QED BY <3>2, <3>3 DEF CreatedIsKept
  <2>5. ASSUME NEW q \in Request PROVE RequestInv(q)'
    <3>1. RequestInv(q)
      BY <1>1 DEF AccountsInv
    <3>2. CASE q = r
      BY <1>1, <1>2, <1>6, <2>1, <3>1, <3>2 DEF AccountsTypeOK, RequestInv, e
    <3>3. CASE q # r
      <4>1. code[q] = "201" => form[q].email \in Email /\ users[form[q].email] # None
        BY <3>1, AccountsAssumption DEF RequestInv
      <4>2. code[q] = "201" => users'[form[q].email] # None
        BY <2>1, <4>1
      <4>3. /\ code'[q] = code[q] /\ at'[q] = at[q] /\ form'[q] = form[q]
            /\ kind'[q] = kind[q] /\ from'[q] = from[q] /\ got'[q] = got[q]
        BY <1>1, <1>2, <3>3 DEF AccountsTypeOK
      <4> QED BY <3>1, <4>2, <4>3 DEF RequestInv
    <3> QED BY <3>2, <3>3
  <2> QED BY <1>3, <2>1, <2>2, <2>3, <2>4, <2>5 DEF AccountsIInv, AccountsInv
<1> QED BY <1>1, <1>2, <1>5, <1>6 DEF Register, Answer, AccountsTypeOK

(* The login handler answers: a token is made from the row of its user.    *)
LEMMA LoginStep ==
    ASSUME AccountsIInv, NEW r \in Request, Login(r)
    PROVE  AccountsIInv'
<1> USE AccountsAssumption
<1>1. AccountsTypeOK /\ AccountsInv /\ RequestInv(r)
  BY DEF AccountsIInv, AccountsInv
<1> DEFINE e == form[r].email
<1>2. /\ at[r] = "sent" /\ at' = [at EXCEPT ![r] = "answered"]
      /\ kind[r] = "login" /\ form[r] \in Credentials /\ code[r] = "none"
      /\ UNCHANGED <<users, kind, form, from, where, tabVars>>
      /\ \/ users[e] # None /\ got' = [got EXCEPT ![r] = TokenOf(e)]
            /\ code' = [code EXCEPT ![r] = "200"]
         \/ got' = got /\ \E c \in {"401", "lost"} : code' = [code EXCEPT ![r] = c]
  BY <1>1 DEF Login, Answer, RequestInv
<1>3. e \in Email
  BY <1>2 DEF Credentials
<1> HIDE DEF e
<1>4. users[e] # None => /\ TokenOf(e) \in Token /\ TokenOf(e) # None
                         /\ TokenOf(e).user = e
  BY <1>1, <1>3 DEF AccountsTypeOK, TokenOf, Token, Row
<1>5. AccountsTypeOK'
  <2>1. got' \in [Request -> Token \cup {None}]
    BY <1>1, <1>2, <1>4 DEF AccountsTypeOK
  <2>2. /\ at' \in [Request -> {"new", "sent", "answered", "done"}]
        /\ code' \in [Request -> {"none", "200", "201", "400", "401", "409", "lost"}]
    BY <1>1, <1>2 DEF AccountsTypeOK
  <2> QED BY <1>1, <1>2, <2>1, <2>2 DEF AccountsTypeOK, tabVars
<1>6. \A q \in Request \ {r} : got'[q] = got[q]
  BY <1>1, <1>2 DEF AccountsTypeOK
<1>7. \A t \in Tab : TabInv(t)'
  BY <1>2, <1>6, TabsDoNotNotice
<1>8. RowsAreSound'
  BY <1>1, <1>2 DEF AccountsInv, RowsAreSound
<1>9. CreatedIsKept'
  BY <1>1, <1>2 DEF AccountsInv, AccountsTypeOK, CreatedIsKept
<1>10. ASSUME NEW q \in Request PROVE RequestInv(q)'
  BY <1>1, <1>2, <1>4 DEF AccountsInv, AccountsTypeOK, RequestInv
<1>11. TokensTellTheRow'
  <2>1. CASE got' = got
    BY <1>1, <1>2, <2>1, SameTokens DEF AccountsInv, Tokens, tabVars
  <2>2. CASE users[e] # None /\ got' = [got EXCEPT ![r] = TokenOf(e)]
    <3>1. Tokens' \subseteq Tokens \cup {TokenOf(e)}
      BY <1>1, <1>2, <2>2 DEF AccountsTypeOK, Tokens, tabVars
    <3>2. \A k \in Tokens' \ {None} : users[k.user] # None /\ k = TokenOf(k.user)
      BY <1>1, <1>4, <2>2, <3>1 DEF AccountsInv, TokensTellTheRow
    <3> QED BY <1>2, <3>2 DEF TokensTellTheRow, TokenOf
  <2> QED BY <1>2, <2>1, <2>2
<1> QED BY <1>5, <1>7, <1>8, <1>9, <1>10, <1>11 DEF AccountsIInv, AccountsInv

-----------------------------------------------------------------------------
(* What the server knows is left alone when a tab does something.          *)
LEMMA QuietStep ==
    ASSUME AccountsIInv, UNCHANGED <<users, kind, form, from, code, got>>,
           \A q \in Request : at'[q] = at[q] \/ (at[q] = "answered" /\ at'[q] = "done"),
           AccountsTypeOK', Tokens' \subseteq Tokens \cup {None},
           \A t \in Tab : TabInv(t)'
    PROVE  AccountsIInv'
<1>1. AccountsTypeOK /\ AccountsInv
  BY DEF AccountsIInv
<1>2. RowsAreSound' /\ TokensTellTheRow' /\ CreatedIsKept'
  BY <1>1, SameTokens DEF AccountsInv, RowsAreSound, CreatedIsKept
<1>3. ASSUME NEW q \in Request PROVE RequestInv(q)'
  BY <1>1 DEF AccountsInv, RequestInv
<1> QED BY <1>2, <1>3 DEF AccountsIInv, AccountsInv

(* A tab that does not change itself stays sound when a request of another *)
(* ends, and when another tab logs in.                                     *)
LEMMA OtherTab ==
    ASSUME AccountsIInv, NEW u \in Tab,
           UNCHANGED <<page[u], going[u], token[u], routed[u], from, got>>,
           \A q \in Request : at'[q] = at[q] \/ (at[q] = "answered" /\ at'[q] = "done"),
           \A q \in Request : from[q] = u /\ where[q] = "gone" => where'[q] = "gone",
           stored' = stored \/ FromElsewhere(stored, u)'
    PROVE  TabInv(u)'
<1>1. TabInv(u) /\ routed[u] \in Request \cup {None}
  BY DEF AccountsIInv, AccountsInv, AccountsTypeOK
<1>2. \A q \in Request : at[q] = "done" => at'[q] = "done"
  OBVIOUS
<1>3. \A x : FromElsewhere(x, u) => FromElsewhere(x, u)'
  BY <1>2 DEF FromElsewhere
<1>4. Misfit(u)' <=> Misfit(u)
  BY DEF Misfit
<1> QED BY <1>1, <1>2, <1>3, <1>4 DEF TabInv

(* A page hears of the answer to its request.                              *)
LEMMA EndStep ==
    ASSUME AccountsIInv, NEW r \in Request, EndRegister(r) \/ EndLogin(r) \/ EndError(r)
    PROVE  AccountsIInv'
<1> USE AccountsAssumption, PagesAssumption
<1>1. AccountsTypeOK /\ AccountsInv /\ RequestInv(r)
  BY DEF AccountsIInv, AccountsInv
<1>2. /\ at[r] = "answered" /\ where[r] # "gone" /\ at' = [at EXCEPT ![r] = "done"]
      /\ UNCHANGED <<users, kind, form, from, code, got, where, page, token>>
      /\ from[r] \in Tab /\ got[r] \in Token \cup {None}
  BY <1>1 DEF EndRegister, EndLogin, EndError, EndRequest, tabVars, RequestInv, AccountsTypeOK
<1>3. /\ \A q \in Request : at'[q] = at[q] \/ (at[q] = "answered" /\ at'[q] = "done")
      /\ at'[r] = "done"
  BY <1>1, <1>2 DEF AccountsTypeOK
<1>t. PICK t \in Tab : from[r] = t
  BY <1>2
<1>4. \A x : FromElsewhere(x, t) => FromElsewhere(x, t)'
  BY <1>2, <1>3 DEF FromElsewhere
<1>5. TabInv(t) /\ routed[t] \in Request \cup {None} /\ from[r] = t /\ from'[r] = t
  BY <1>1, <1>2, <1>t DEF AccountsInv, AccountsTypeOK
<1>6. Misfit(t)' => FromElsewhere(token[t], t)'
  BY <1>2, <1>4, <1>5 DEF TabInv, Misfit
<1>7. CASE EndLogin(r)
  <2>1. got[r] # None /\ got[r] \in Token /\ got[r].role \in Role
    BY <1>1, <1>2, <1>7 DEF EndLogin, RequestInv, Token
  <2>2. HomeOf[got[r].role] \in Page
    BY <2>1, HomesArePages
  <2>3. /\ context' = [context EXCEPT ![t] = got[r]] /\ stored' = got[r]
        /\ going' = [going EXCEPT ![t] = HomeOf[got[r].role]]
        /\ routed' = [routed EXCEPT ![t] = r]
    BY <1>7, <1>t DEF EndLogin, Push
  <2>4. AccountsTypeOK'
    BY <1>1, <1>2, <1>5, <2>1, <2>2, <2>3 DEF AccountsTypeOK
  <2>5. Tokens' \subseteq Tokens \cup {None}
    BY <1>1, <1>2, <1>5, <2>3 DEF Tokens, AccountsTypeOK
  <2>6. TabInv(t)'
    <3>1. routed'[t] = r /\ going'[t] = HomeOf[got[r].role]
      BY <1>1, <1>5, <2>3 DEF AccountsTypeOK
    <3> QED BY <1>2, <1>3, <1>5, <1>6, <2>1, <2>3, <3>1 DEF TabInv
  <2>7. ASSUME NEW u \in Tab \ {t} PROVE TabInv(u)'
    <3>1. FromElsewhere(stored, u)'
      BY <1>2, <1>3, <1>5, <2>3 DEF FromElsewhere
    <3>2. UNCHANGED <<page[u], going[u], token[u], routed[u]>>
      BY <1>1, <1>2, <1>5, <2>3 DEF AccountsTypeOK
    <3> QED BY <1>2, <1>3, <3>1, <3>2, OtherTab
  <2> QED BY <1>2, <1>3, <2>4, <2>5, <2>6, <2>7, QuietStep
<1>8. CASE EndRegister(r)
  <2>1. going' = [going EXCEPT ![t] = "login"] /\ UNCHANGED <<stored, context, routed>>
    BY <1>8, <1>t DEF EndRegister, Push
  <2>2. AccountsTypeOK'
    BY <1>1, <1>2, <1>5, <2>1 DEF AccountsTypeOK, Page
  <2>3. Tokens' \subseteq Tokens \cup {None}
    BY <1>2, <2>1 DEF Tokens
  <2>4. TabInv(t)'
    <3>1. going'[t] \notin TokenPage
      BY <1>1, <1>5, <2>1 DEF AccountsTypeOK, TokenPage
    <3> QED BY <1>2, <1>3, <1>4, <1>5, <1>6, <2>1, <3>1 DEF TabInv
  <2>5. ASSUME NEW u \in Tab \ {t} PROVE TabInv(u)'
    <3>1. UNCHANGED <<page[u], going[u], token[u], routed[u]>>
      BY <1>1, <1>2, <1>5, <2>1 DEF AccountsTypeOK
    <3> QED BY <1>2, <1>3, <2>1, <3>1, OtherTab
  <2> QED BY <1>2, <1>3, <2>2, <2>3, <2>4, <2>5, QuietStep
<1>9. CASE EndError(r)
  <2>1. UNCHANGED tabVars
    BY <1>9 DEF EndError
  <2>2. AccountsTypeOK'
    BY <1>1, <1>2, <2>1 DEF AccountsTypeOK, tabVars
  <2>3. Tokens' \subseteq Tokens \cup {None}
    BY <1>2, <2>1 DEF Tokens, tabVars
  <2>4. \A u \in Tab : TabInv(u)'
    BY <1>2, <1>3, <2>1, OtherTab DEF tabVars
  <2> QED BY <1>2, <1>3, <2>2, <2>3, <2>4, QuietStep
<1> QED BY <1>7, <1>8, <1>9

(* A page is mounted in a tab, by a navigation that a login or a guard has *)
(* asked for or by loading it.                                             *)
LEMMA MountStep ==
    ASSUME AccountsIInv, NEW t \in Tab, NEW p \in Page, NEW c \in BOOLEAN, Mount(t, p, c),
           NEW w \in {"left", "gone"}, LeaveAs(t, w),
           UNCHANGED <<users, kind, form, from, at, code, got, stored>>,
           context' \in [Tab -> Token \cup {None}],
           \A u \in Tab : context'[u] \in {context[u], stored},
           routed' \in [Tab -> Request \cup {None}],
           \A u \in Tab \ {t} : routed'[u] = routed[u],
           \/ routed'[t] = None /\ w = "gone"
           \/ routed'[t] = routed[t] /\ going[t] = p
    PROVE  AccountsIInv'
<1> USE AccountsAssumption, PagesAssumption
<1>1. AccountsTypeOK /\ AccountsInv /\ TabInv(t) /\ routed[t] \in Request \cup {None}
  BY DEF AccountsIInv, AccountsInv, AccountsTypeOK
<1>2. "login" \in Page \ TokenPage /\ None \notin TokenPage
  BY DEF Page, TokenPage
<1>3. /\ page' = [page EXCEPT ![t] = p]
      /\ token' = [token EXCEPT ![t] = IF p \in TokenPage THEN stored ELSE None]
      /\ \E g \in {"login", None} : going' = [going EXCEPT ![t] = g]
      /\ where' = [q \in Request |-> IF from[q] = t /\ where[q] # "gone" THEN w ELSE where[q]]
  BY DEF Mount, LeaveAs, Push
<1>4. AccountsTypeOK'
  BY <1>1, <1>2, <1>3 DEF AccountsTypeOK
<1>5. Tokens' \subseteq Tokens \cup {None}
  <2>1. \A u \in Tab : token'[u] \in {token[u], stored, None}
    BY <1>1, <1>3 DEF AccountsTypeOK
  <2> QED BY <2>1 DEF Tokens
<1>6. /\ page'[t] = p /\ going'[t] \notin TokenPage
      /\ p \in TokenPage => token'[t] = stored
  BY <1>1, <1>2, <1>3 DEF AccountsTypeOK
<1>7. \A x : FromElsewhere(x, t) => FromElsewhere(x, t)'
  BY DEF FromElsewhere
<1>8. TabInv(t)'
  <2>1. CASE routed'[t] = None /\ w = "gone"
    <3>1. \A q \in Request : from[q] = t => where'[q] = "gone"
      BY <1>3, <2>1
    <3> QED BY <1>6, <2>1, <3>1 DEF TabInv
  <2>2. CASE routed'[t] = routed[t] /\ going[t] = p
    <3>1. p \in TokenPage => routed[t] # None /\ p = HomeOf[got[routed[t]].role]
      BY <1>1, <2>2 DEF TabInv
    <3>2. routed[t] # None /\ Misfit(t)' => FromElsewhere(stored, t) /\ token'[t] = stored
      BY <1>1, <1>6, <3>1 DEF TabInv, Misfit
    <3> QED BY <1>1, <1>6, <1>7, <2>2, <3>1, <3>2 DEF TabInv
  <2> QED BY <2>1, <2>2
<1>9. ASSUME NEW u \in Tab \ {t} PROVE TabInv(u)'
  <2>1. UNCHANGED <<page[u], going[u], token[u], routed[u]>>
    BY <1>1, <1>3 DEF AccountsTypeOK
  <2>2. \A q \in Request : from[q] = u /\ where[q] = "gone" => where'[q] = "gone"
    BY <1>3
  <2> QED BY <2>1, <2>2, OtherTab
<1> QED BY <1>4, <1>5, <1>8, <1>9, QuietStep

(* A navigation ends.                                                      *)
LEMMA ArriveStep ==
    ASSUME AccountsIInv, NEW t \in Tab, Arrive(t)
    PROVE  AccountsIInv'
<1> USE AccountsAssumption, PagesAssumption
<1>1. AccountsTypeOK /\ AccountsInv /\ TabInv(t)
  BY DEF AccountsIInv, AccountsInv
<1>2. UNCHANGED <<users, kind, form, from, at, code, got, stored, context, routed>>
  BY DEF Arrive
<1>3. CASE going[t] = page[t] /\ Push(t, None) /\ UNCHANGED <<page, token, where>>
  <2>1. AccountsTypeOK'
    BY <1>1, <1>2, <1>3 DEF AccountsTypeOK, Push
  <2>2. Tokens' \subseteq Tokens \cup {None}
    BY <1>2, <1>3 DEF Tokens
  <2>3. going'[t] \notin TokenPage
    BY <1>1, <1>3 DEF AccountsTypeOK, Push, Page
  <2>4. TabInv(t)'
    BY <1>1, <1>2, <1>3, <2>3 DEF TabInv, Misfit, FromElsewhere
  <2>5. ASSUME NEW u \in Tab \ {t} PROVE TabInv(u)'
    <3>1. UNCHANGED <<page[u], going[u], token[u], routed[u]>>
      BY <1>1, <1>2, <1>3 DEF AccountsTypeOK, Push
    <3> QED BY <1>2, <1>3, <3>1, OtherTab
  <2> QED BY <1>2, <2>1, <2>2, <2>4, <2>5, QuietStep
<1>4. CASE Mount(t, going[t], context[t] # None) /\ LeaveAs(t, "left")
  <2>1. going[t] \in Page
    BY <1>1 DEF Arrive, AccountsTypeOK
  <2> QED BY <1>1, <1>2, <1>4, <2>1, MountStep DEF AccountsTypeOK
<1> QED BY <1>3, <1>4 DEF Arrive

(* The link between the two forms is followed.                             *)
LEMMA LinkStep ==
    ASSUME AccountsIInv, NEW t \in Tab, FollowLink(t)
    PROVE  AccountsIInv'
<1> USE AccountsAssumption, PagesAssumption
<1>1. AccountsTypeOK /\ AccountsInv
  BY DEF AccountsIInv, AccountsInv
<1>2. /\ page[t] \in {"login", "register"}
      /\ \E g \in {"login", "register"} : going' = [going EXCEPT ![t] = g]
      /\ routed' = [routed EXCEPT ![t] = None]
      /\ UNCHANGED <<users, kind, form, from, at, code, got, where, stored, page, context, token>>
  BY DEF FollowLink, Push, reqVars
<1>3. AccountsTypeOK'
  BY <1>1, <1>2 DEF AccountsTypeOK, Page
<1>4. Tokens' \subseteq Tokens \cup {None}
  BY <1>2 DEF Tokens
<1>5. TabInv(t)'
  BY <1>1, <1>2 DEF TabInv, TokenPage, AccountsTypeOK
<1>6. ASSUME NEW u \in Tab \ {t} PROVE TabInv(u)'
  <2>1. UNCHANGED <<page[u], going[u], token[u], routed[u]>>
    BY <1>1, <1>2 DEF AccountsTypeOK
  <2> QED BY <1>2, <2>1, OtherTab
<1> QED BY <1>2, <1>3, <1>4, <1>5, <1>6, QuietStep

(* A page is loaded: its AuthProvider reads localStorage.                  *)
LEMMA LoadStep ==
    ASSUME AccountsIInv, NEW t \in Tab, NEW p \in Page, Load(t, p)
    PROVE  AccountsIInv'
<1>1. AccountsTypeOK
  BY DEF AccountsIInv
<1>2. /\ Mount(t, p, FALSE) /\ LeaveAs(t, "gone")
      /\ UNCHANGED <<users, kind, form, from, at, code, got, stored>>
      /\ context' = [context EXCEPT ![t] = stored]
      /\ routed' = [routed EXCEPT ![t] = None]
  BY DEF Load
<1>3. /\ context' \in [Tab -> Token \cup {None}]
      /\ \A u \in Tab : context'[u] \in {context[u], stored}
  BY <1>1, <1>2 DEF AccountsTypeOK
<1>4. /\ routed' \in [Tab -> Request \cup {None}] /\ routed'[t] = None
      /\ \A u \in Tab \ {t} : routed'[u] = routed[u]
  BY <1>1, <1>2 DEF AccountsTypeOK
<1> QED BY <1>2, <1>3, <1>4, MountStep

-----------------------------------------------------------------------------
(* Every step keeps the invariant, and so does none.                       *)
LEMMA AccountsSteps == AccountsIInv /\ [Next]_vars => AccountsIInv'
<1> SUFFICES ASSUME AccountsIInv, [Next]_vars PROVE AccountsIInv'
  OBVIOUS
<1>1. ASSUME NEW r \in Request, NEW t \in Tab, NEW f \in Form, Submit(r, t, "register", f)
      PROVE  AccountsIInv'
  BY <1>1, SubmitStep
<1>2. ASSUME NEW r \in Request, NEW t \in Tab, NEW f \in Credentials, Submit(r, t, "login", f)
      PROVE  AccountsIInv'
  BY <1>2, SubmitStep
<1>3. ASSUME UNCHANGED vars PROVE AccountsIInv'
  <2> USE DEF vars, reqVars, tabVars
  <2>1. AccountsTypeOK'
    BY <1>3 DEF AccountsIInv, AccountsTypeOK
  <2>2. RowsAreSound' /\ TokensTellTheRow' /\ CreatedIsKept'
    BY <1>3 DEF AccountsIInv, AccountsInv, RowsAreSound, TokensTellTheRow, Tokens, TokenOf,
                CreatedIsKept
  <2>3. \A r \in Request : RequestInv(r)'
    BY <1>3 DEF AccountsIInv, AccountsInv, RequestInv
  <2>4. \A t \in Tab : TabInv(t)'
    BY <1>3 DEF AccountsIInv, AccountsInv, TabInv, Misfit, FromElsewhere
  <2> QED BY <2>1, <2>2, <2>3, <2>4 DEF AccountsIInv, AccountsInv
<1> QED BY <1>1, <1>2, <1>3, RegisterStep, LoginStep, EndStep, ArriveStep, LinkStep, LoadStep
        DEF Next

(* Types and the joint invariant of table, requests and tabs.              *)
THEOREM AccountsSafe == Spec => []AccountsIInv
BY AccountsStart, AccountsSteps, PTL DEF Spec

(* A token tells role and company of its user's row, however old it is,    *)
(* so trusting it is as good as reading the row (TokensTellTheRow).        *)
THEOREM TokensStayTrue == Spec => []TokensTellTheRow
<1>1. AccountsIInv => TokensTellTheRow
  BY DEF AccountsIInv, AccountsInv
<1> QED BY <1>1, AccountsSafe, PTL

(* Whom a company route lets in has a company (CompanyRoutesHaveCompany).  *)
THEOREM CompanyRoutesSafe == Spec => []CompanyRoutesHaveCompany
<1>1. AccountsIInv => CompanyRoutesHaveCompany
  <2> SUFFICES ASSUME AccountsIInv, NEW k \in Tokens \ {None}, NEW route \in DOMAIN RequireRole,
                      k.role \in RequireRole[route]
               PROVE  k.company \in Company
    BY DEF CompanyRoutesHaveCompany
  <2>1. k.role # "platform_admin"
    BY DEF RequireRole
  <2>2. users[k.user] # None /\ k = TokenOf(k.user) /\ k.user \in Email
    BY DEF AccountsIInv, AccountsInv, AccountsTypeOK, TokensTellTheRow, Tokens, Token
  <2>3. users[k.user] \in Row /\ users[k.user].role = k.role /\ users[k.user].company = k.company
    BY <2>2 DEF TokenOf, AccountsIInv, AccountsTypeOK
  <2>4. users[k.user].company # None
    BY <2>1, <2>2, <2>3 DEF AccountsIInv, AccountsInv, RowsAreSound
  <2> QED BY <2>3, <2>4 DEF Row
<1> QED BY <1>1, AccountsSafe, PTL

(* An account belongs for good to the registration that was told 201       *)
(* (CreatedIsKept).                                                        *)
THEOREM CreatedStaysKept == Spec => []CreatedIsKept
<1>1. AccountsIInv => CreatedIsKept
  BY DEF AccountsIInv, AccountsInv
<1> QED BY <1>1, AccountsSafe, PTL

(* After a login a page works with the token of an unsuitable role only if *)
(* another tab has logged in as well (MisfitNeedsOtherTab).                *)
THEOREM MisfitsComeFromElsewhere == Spec => []MisfitNeedsOtherTab
<1>1. AccountsIInv => MisfitNeedsOtherTab
  BY DEF AccountsIInv, AccountsInv, TabInv, MisfitNeedsOtherTab
<1> QED BY <1>1, AccountsSafe, PTL

-----------------------------------------------------------------------------
(* The requests that were answered 201, as the registry speaks of them.    *)
Told == {<<r, form[r].email, AccountOf(form[r])>> : r \in {q \in Request : code[q] = "201"}}

(* A step that leaves the table and what was told of it alone can only     *)
(* forget tokens.                                                          *)
LEMMA Forgets ==
    ASSUME users' = users, Told' = Told, Tokens' \subseteq Tokens \cup {None}
    PROVE  Registry!Forget
<1>1. Tokens' \ {None} \subseteq Tokens \ {None}
  OBVIOUS
<1> QED BY <1>1 DEF Registry!Forget, Told

LEMMA SubmitForgets ==
    ASSUME AccountsIInv, NEW r \in Request, NEW t \in Tab, NEW k, NEW f, Submit(r, t, k, f)
    PROVE  Registry!Forget
<1>1. /\ UNCHANGED <<users, code, got, tabVars>>
      /\ \A q \in Request \ {r} : form'[q] = form[q]
  BY DEF AccountsIInv, AccountsTypeOK, Submit
<1>2. code[r] # "201"
  BY DEF AccountsIInv, AccountsInv, RequestInv, Submit
<1>3. Told' = Told
  <2>1. \A q \in Request : code'[q] = "201" => form'[q] = form[q]
    BY <1>1, <1>2
  <2>2. {q \in Request : code'[q] = "201"} = {q \in Request : code[q] = "201"}
    BY <1>1
  <2> QED BY <2>1, <2>2 DEF Told, AccountOf
<1>4. Tokens' = Tokens
  BY <1>1 DEF Tokens, tabVars
<1> QED BY <1>1, <1>3, <1>4, Forgets

LEMMA RegisterOpens ==
    ASSUME AccountsIInv, NEW r \in Request, Register(r)
    PROVE  Registry!RegistryNext
<1>1. /\ kind[r] = "register" /\ form[r] \in Form /\ code[r] = "none"
      /\ UNCHANGED <<form, got, tabVars>>
      /\ code \in [Request -> {"none", "200", "201", "400", "401", "409", "lost"}]
  BY DEF AccountsIInv, AccountsInv, AccountsTypeOK, RequestInv, Register
<1>2. Tokens' = Tokens
  BY <1>1 DEF Tokens, tabVars
<1>3. CASE users' = users /\ code'[r] # "201"
  <2>1. {q \in Request : code'[q] = "201"} = {q \in Request : code[q] = "201"}
    BY <1>1, <1>3 DEF Register, Answer
  <2>2. Told' = Told
    BY <1>1, <2>1 DEF Told
  <2> QED BY <1>2, <1>3, <2>2, Forgets DEF Registry!RegistryNext
<1>4. ASSUME FormOK(form[r]), CreateUser(form[r]),
             NEW c \in {"201", "409", "lost"}, Answer(r, c)
      PROVE  Registry!RegistryNext
  <2> DEFINE f == form[r]
             asked == <<r, form[r].email, AccountOf(form[r])>>
  <2>1. f.email \in Email /\ f.password \in Password /\ f.role \in Role
        /\ f.company \in Company \cup {None}
    BY <1>1, <1>4, AccountsAssumption DEF FormOK, CreateUser
  <2>2. AccountOf(f) \in Row
    BY <2>1 DEF AccountOf, Row
  <2>3. users[f.email] = None /\ users' = [users EXCEPT ![f.email] = AccountOf(f)]
    BY <1>4 DEF CreateUser, AccountOf
  <2>4. Told' \in {Told, Told \cup {asked}}
    <3>1. CASE c = "201"
      <4>1. {q \in Request : code'[q] = "201"} = {q \in Request : code[q] = "201"} \cup {r}
        BY <1>1, <1>4, <3>1 DEF Answer
      <4> QED BY <1>1, <4>1 DEF Told
    <3>2. CASE c # "201"
      <4>1. {q \in Request : code'[q] = "201"} = {q \in Request : code[q] = "201"}
        BY <1>1, <1>4, <3>2 DEF Answer
      <4> QED BY <1>1, <4>1 DEF Told
    <3> QED BY <3>1, <3>2
  <2>5. Registry!Open(f.email, AccountOf(f), r)
    BY <1>2, <2>3, <2>4 DEF Registry!Open, Told
  <2> QED BY <2>1, <2>2, <2>5 DEF Registry!RegistryNext
<1> QED BY <1>1, <1>3, <1>4 DEF Register, Answer

LEMMA LoginGrants ==
    ASSUME AccountsIInv, NEW r \in Request, Login(r)
    PROVE  Registry!RegistryNext
<1> DEFINE e == form[r].email
<1>1. /\ form[r] \in Credentials /\ code[r] = "none"
      /\ UNCHANGED <<users, form, tabVars>>
      /\ code \in [Request -> {"none", "200", "201", "400", "401", "409", "lost"}]
      /\ got \in [Request -> Token \cup {None}]
  BY DEF AccountsIInv, AccountsInv, AccountsTypeOK, RequestInv, Login
<1>2. Told' = Told
  <2>1. {q \in Request : code'[q] = "201"} = {q \in Request : code[q] = "201"}
    BY <1>1 DEF Login, Answer
  <2> QED BY <1>1, <2>1 DEF Told
<1>3. CASE users[e] # None /\ got' = [got EXCEPT ![r] = TokenOf(e)]
  <2>1. Tokens' \subseteq Tokens \cup {TokenOf(e)}
    BY <1>1, <1>3 DEF Tokens, tabVars
  <2>2. Tokens' \ {None} \subseteq (Tokens \ {None}) \cup {TokenOf(e)}
    BY <2>1
  <2>3. e \in Email
    BY <1>1 DEF Credentials
  <2>4. Registry!Grant(e)
    BY <1>1, <1>2, <1>3, <2>2 DEF Registry!Grant, Registry!TokenFor, TokenOf, Told
  <2> QED BY <2>3, <2>4 DEF Registry!RegistryNext
<1>4. CASE got' = got
  <2>1. Tokens' = Tokens
    BY <1>1, <1>4 DEF Tokens, tabVars
  <2> QED BY <1>1, <1>2, <2>1, Forgets DEF Registry!RegistryNext
<1> QED BY <1>3, <1>4 DEF Login

(* Everything that happens in the browser copies tokens or drops them.     *)
LEMMA BrowserForgets ==
    ASSUME AccountsIInv,
           \/ \E r \in Request : EndRegister(r) \/ EndLogin(r) \/ EndError(r)
           \/ \E t \in Tab : Arrive(t) \/ FollowLink(t) \/ \E p \in Page : Load(t, p)
    PROVE  Registry!Forget
<1>1. /\ context \in [Tab -> Token \cup {None}] /\ token \in [Tab -> Token \cup {None}]
      /\ UNCHANGED <<users, form, code, got>>
  BY DEF AccountsIInv, AccountsTypeOK, EndRegister, EndLogin, EndError, EndRequest,
       Arrive, FollowLink, Load, reqVars
<1>2. /\ stored' \in Tokens \cup {None}
      /\ \A t \in Tab : context'[t] \in Tokens \cup {None}
                       /\ token'[t] \in Tokens \cup {None}
  <2>1. ASSUME NEW r \in Request, EndRegister(r) \/ EndLogin(r) \/ EndError(r), NEW t \in Tab
        PROVE  /\ stored' \in Tokens \cup {None}
               /\ context'[t] \in Tokens \cup {None} /\ token'[t] \in Tokens \cup {None}
    BY <1>1, <2>1 DEF EndRegister, EndLogin, EndError, tabVars, Tokens
  <2>2. ASSUME NEW u \in Tab,
               Arrive(u) \/ FollowLink(u) \/ \E p \in Page : Load(u, p), NEW t \in Tab
        PROVE  /\ stored' \in Tokens \cup {None}
               /\ context'[t] \in Tokens \cup {None} /\ token'[t] \in Tokens \cup {None}
    BY <1>1, <2>2 DEF Arrive, FollowLink, Load, Mount, Tokens
  <2>3. stored' \in Tokens \cup {None}
    BY DEF EndRegister, EndLogin, EndError, Arrive, FollowLink, Load, tabVars, Tokens
  <2> QED BY <2>1, <2>2, <2>3
<1>3. Tokens' \subseteq Tokens \cup {None}
  BY <1>1, <1>2 DEF Tokens
<1>4. Told' = Told
  BY <1>1 DEF Told
<1> QED BY <1>1, <1>3, <1>4, Forgets

LEMMA AccountsRegister ==
    AccountsIInv /\ [Next]_vars => [Registry!RegistryNext]_Registry!registryVars
<1> SUFFICES ASSUME AccountsIInv, [Next]_vars
             PROVE  [Registry!RegistryNext]_Registry!registryVars
  OBVIOUS
<1>1. ASSUME NEW r \in Request, NEW t \in Tab,
             \/ \E f \in Form : Submit(r, t, "register", f)
             \/ \E f \in Credentials : Submit(r, t, "login", f)
      PROVE  Registry!Forget
  BY <1>1, SubmitForgets
<1>2. CASE UNCHANGED vars
  <2>1. Told' = Told /\ Tokens' = Tokens /\ users' = users
    BY <1>2 DEF vars, reqVars, tabVars, Told, Tokens
  <2> QED BY <2>1, Forgets DEF Registry!RegistryNext
<1>3. CASE Next
  <2>1. \/ Registry!Forget
        \/ \E r \in Request : Register(r) \/ Login(r)
    BY <1>1, <1>3, BrowserForgets DEF Next
  <2> QED BY <2>1, RegisterOpens, LoginGrants DEF Registry!RegistryNext
<1> QED BY <1>2, <1>3

(* Registrations and logins from any number of tabs implement the registry *)
(* of accounts (ImplementsRegistry).                                       *)
THEOREM AccountsKeepTheRegistry == Spec => ImplementsRegistry
<1>1. Init => Registry!RegistryInit
  <2> SUFFICES ASSUME Init PROVE Registry!RegistryInit
    OBVIOUS
  <2>1. users \in [Email -> Row \cup {None}]
    BY AccountsAssumption DEF Init
  <2>2. Tokens \ {None} = {}
    BY DEF Init, Tokens
  <2>3. {q \in Request : code[q] = "201"} = {}
    BY DEF Init
  <2> QED BY <2>1, <2>2, <2>3 DEF Registry!RegistryInit
<1> QED
  BY AccountsStart, AccountsSteps, AccountsRegister, <1>1, PTL
     DEF Spec, ImplementsRegistry, Registry!RegistrySpec
=============================================================================
