------------------------------ MODULE Accounts ------------------------------
(***************************************************************************)
(* Registration and login (internal/auth) and the browser that uses them:  *)
(* its tabs share localStorage, each tab has an AuthProvider of its own,   *)
(* and most pages take their token from localStorage when they are mounted. *)
(* An answer may come when its tab shows another page, or after another    *)
(* tab has logged somebody else in.  Nothing logs out.                     *)
(*                                                                         *)
(* A user is named by the email.  Expiry of tokens is left out: it only    *)
(* takes tokens away.                                                      *)
(***************************************************************************)

CONSTANTS
    Email, Password,
    Company,    \* companies.id
    Unknown,    \* a company_id that is no company's
    Form,       \* what is entered on the registration page
    Seed,       \* the users that scripts/seed.sh has registered
    Request,    \* submissions of one of the two forms
    Tab,        \* tabs of the browser
    None

Role == {"provider", "employee", "company_admin", "platform_admin"}

Row == [password : Password, role : Role, company : Company \cup {None}]
Token == [user : Email, role : Role, company : Company \cup {None}]
Credentials == [email : Email, password : Password, role : {"none"}, company : {None}]

ASSUME AccountsAssumption ==
    /\ None \notin Email \cup Company \cup Request \cup Tab \cup Row \cup Token
    /\ None # Unknown /\ Unknown \notin Company
    /\ Form \subseteq [email : Email, password : Password, role : Role \cup {"other"},
                       company : Company \cup {Unknown, None}]
    /\ Seed \in [Email -> Row \cup {None}]
    /\ \A e \in Email : Seed[e] # None =>
            (Seed[e].role = "platform_admin" <=> Seed[e].company = None)

TokenPage == {"home", "admin", "console"}
Page == TokenPage \cup {"login", "register", "provider"}

(* Where a login leads (login/page.tsx:41-49).                             *)
HomeOf == [provider |-> "provider", employee |-> "home",
           company_admin |-> "admin", platform_admin |-> "console"]

ASSUME PagesAssumption == None \notin Page

VARIABLES
    users,      \* the users table
    kind,       \* the form that was submitted, "none" before
    form,       \* what was in it
    from,       \* the tab it was submitted in
    at,         \* how far the request is
    code,       \* the status it was answered with; lost: none, or a 500
    got,        \* the token of a 200
    where,      \* its page is still there, was left, or was unloaded
    stored,     \* localStorage, provenn_auth and provenn_token
    page,       \* the page in the tab
    going,      \* the page that router.push was called for
    context,    \* the state of the tab's AuthProvider
    token,      \* the state of a page that takes its token from localStorage
    routed      \* history: the login that led the tab to its page

reqVars == <<kind, form, from, at, code, got, where>>
tabVars == <<stored, page, going, context, token, routed>>
vars == <<users, reqVars, tabVars>>

AccountsTypeOK ==
    /\ users \in [Email -> Row \cup {None}]
    /\ kind \in [Request -> {"none", "register", "login"}]
    /\ form \in [Request -> Form \cup Credentials \cup {None}]
    /\ from \in [Request -> Tab \cup {None}]
    /\ at \in [Request -> {"new", "sent", "answered", "done"}]
    /\ code \in [Request -> {"none", "200", "201", "400", "401", "409", "lost"}]
    /\ got \in [Request -> Token \cup {None}]
    /\ where \in [Request -> {"there", "left", "gone"}]
    /\ stored \in Token \cup {None}
    /\ page \in [Tab -> Page]
    /\ going \in [Tab -> Page \cup {None}]
    /\ context \in [Tab -> Token \cup {None}]
    /\ token \in [Tab -> Token \cup {None}]
    /\ routed \in [Tab -> Request \cup {None}]

Init ==
    /\ users = Seed
    /\ kind = [r \in Request |-> "none"]
    /\ form = [r \in Request |-> None]
    /\ from = [r \in Request |-> None]
    /\ at = [r \in Request |-> "new"]
    /\ code = [r \in Request |-> "none"]
    /\ got = [r \in Request |-> None]
    /\ where = [r \in Request |-> "there"]
    /\ stored = None
    /\ page = [t \in Tab |-> "login"]
    /\ going = [t \in Tab |-> None]
    /\ context = [t \in Tab |-> None]
    /\ token = [t \in Tab |-> None]
    /\ routed = [t \in Tab |-> None]

-----------------------------------------------------------------------------
(* The button of a form is disabled while its own request is under way.    *)
Loading(t) ==
    \E r \in Request : from[r] = t /\ where[r] = "there" /\ at[r] \in {"sent", "answered"}

Submit(r, t, k, f) ==
    /\ at[r] = "new" /\ page[t] = k /\ ~ Loading(t)
    /\ kind' = [kind EXCEPT ![r] = k]
    /\ form' = [form EXCEPT ![r] = f]
    /\ from' = [from EXCEPT ![r] = t]
    /\ at' = [at EXCEPT ![r] = "sent"]
    /\ UNCHANGED <<users, code, got, where, tabVars>>

Answer(r, c) ==
    /\ at' = [at EXCEPT ![r] = "answered"]
    /\ code' = [code EXCEPT ![r] = c]

(* Mutant: the company is not looked at.                                   *)
RoleOK(f) == f.role \in Role

(* The checks of Register: only a platform admin has no company.           *)
FormOK(f) == f.role \in Role /\ (f.role = "platform_admin" <=> f.company = None)

(* Mutant: ON CONFLICT (email) DO UPDATE.                                  *)
UpsertUser(f) ==
    /\ f.company \in Company \cup {None}
    /\ users' = [users EXCEPT ![f.email] =
                    [password |-> f.password, role |-> f.role, company |-> f.company]]

(* The INSERT: the email is UNIQUE, the company references companies.      *)
CreateUser(f) ==
    /\ users[f.email] = None
    /\ f.company \in Company \cup {None}
    /\ users' = [users EXCEPT ![f.email] =
                    [password |-> f.password, role |-> f.role, company |-> f.company]]

(* Every error of the INSERT is a 409, one that came after its effect too. *)
Register(r) ==
    /\ kind[r] = "register" /\ at[r] = "sent"
    /\ \/ ~ FormOK(form[r]) /\ Answer(r, "400") /\ UNCHANGED users
       \/ /\ FormOK(form[r]) /\ CreateUser(form[r])
          /\ \E c \in {"201", "409", "lost"} : Answer(r, c)
       \/ FormOK(form[r]) /\ Answer(r, "409") /\ UNCHANGED users
       \/ Answer(r, "lost") /\ UNCHANGED users
    /\ UNCHANGED <<kind, form, from, got, where, tabVars>>

TokenOf(e) == [user |-> e, role |-> users[e].role, company |-> users[e].company]

(* Every error of the lookup is a 401, like a wrong password.              *)
Login(r) ==
    LET e == form[r].email IN
    /\ kind[r] = "login" /\ at[r] = "sent"
    /\ \/ /\ users[e] # None /\ users[e].password = form[r].password
          /\ got' = [got EXCEPT ![r] = TokenOf(e)]
          /\ Answer(r, "200")
       \/ (Answer(r, "401") \/ Answer(r, "lost")) /\ UNCHANGED got
    /\ UNCHANGED <<users, kind, form, from, where, tabVars>>

-----------------------------------------------------------------------------
Push(t, p) == going' = [going EXCEPT ![t] = p]

(* The continuation of handleSubmit runs although its page was left; only  *)
(* unloading the page ends it.                                             *)
EndRequest(r) ==
    /\ at[r] = "answered" /\ where[r] # "gone"
    /\ at' = [at EXCEPT ![r] = "done"]
    /\ UNCHANGED <<users, kind, form, from, code, got, where>>

EndRegister(r) ==
    /\ EndRequest(r) /\ code[r] = "201"
    /\ Push(from[r], "login")
    /\ UNCHANGED <<stored, page, context, token, routed>>

(* Mutant: localStorage is only written when nobody is logged in.          *)
EndLoginKeepsStored(r) ==
    /\ EndRequest(r) /\ code[r] = "200"
    /\ context' = [context EXCEPT ![from[r]] = got[r]]
    /\ stored' = IF stored = None THEN got[r] ELSE stored
    /\ Push(from[r], HomeOf[got[r].role])
    /\ routed' = [routed EXCEPT ![from[r]] = r]
    /\ UNCHANGED <<page, token>>

(* login() of the AuthProvider, then on to the page of the role.           *)
EndLogin(r) ==
    /\ EndRequest(r) /\ code[r] = "200"
    /\ context' = [context EXCEPT ![from[r]] = got[r]]
    /\ stored' = got[r]
    /\ Push(from[r], HomeOf[got[r].role])
    /\ routed' = [routed EXCEPT ![from[r]] = r]
    /\ UNCHANGED <<page, token>>

EndError(r) ==
    /\ EndRequest(r) /\ code[r] \notin {"200", "201"}
    /\ UNCHANGED tabVars

-----------------------------------------------------------------------------
(* The first effect of a page that the tab now shows; c is isAuthenticated *)
(* as that effect sees it.                                                 *)
Mount(t, p, c) ==
    /\ page' = [page EXCEPT ![t] = p]
    /\ token' = [token EXCEPT ![t] = IF p \in TokenPage THEN stored ELSE None]
    /\ Push(t, IF (p \in TokenPage /\ stored = None) \/ (p = "provider" /\ ~ c)
               THEN "login" ELSE None)

LeaveAs(t, w) ==
    where' = [r \in Request |-> IF from[r] = t /\ where[r] # "gone" THEN w ELSE where[r]]

(* A navigation ends.  One to the page that is there remounts nothing.     *)
Arrive(t) ==
    /\ going[t] # None
    /\ IF going[t] = page[t]
       THEN Push(t, None) /\ UNCHANGED <<page, token, where>>
       ELSE Mount(t, going[t], context[t] # None) /\ LeaveAs(t, "left")
    /\ UNCHANGED <<users, kind, form, from, at, code, got, stored, context, routed>>

(* The links between the two forms.                                        *)
FollowLink(t) ==
    /\ \/ page[t] = "login" /\ Push(t, "register")
       \/ page[t] = "register" /\ Push(t, "login")
    /\ routed' = [routed EXCEPT ![t] = None]
    /\ UNCHANGED <<users, reqVars, stored, page, context, token>>

(* An address is entered or the tab reloaded.  Effects of a page run before *)
(* that of the AuthProvider around it, which only then reads localStorage. *)
Load(t, p) ==
    /\ Mount(t, p, FALSE)
    /\ LeaveAs(t, "gone")
    /\ context' = [context EXCEPT ![t] = stored]
    /\ routed' = [routed EXCEPT ![t] = None]
    /\ UNCHANGED <<users, kind, form, from, at, code, got, stored>>

Next ==
    \/ \E r \in Request :
        \/ \E t \in Tab :
            \/ \E f \in Form : Submit(r, t, "register", f)
            \/ \E f \in Credentials : Submit(r, t, "login", f)
        \/ Register(r) \/ Login(r)
        \/ EndRegister(r) \/ EndLogin(r) \/ EndError(r)
    \/ \E t \in Tab :
        \/ Arrive(t) \/ FollowLink(t)
        \/ \E p \in Page : Load(t, p)

Spec == Init /\ [][Next]_vars

-----------------------------------------------------------------------------
(* The tokens that are anywhere.                                           *)
Tokens ==
    {stored} \cup {got[r] : r \in Request}
    \cup {context[t] : t \in Tab} \cup {token[t] : t \in Tab}

(* However old a token is and wherever it was kept, role and company in it *)
(* are those of a row of the table: the handlers trust it without reading  *)
(* the row (auth/handlers.go:117, context.go:54).                          *)
TokensTellTheRow ==
    \A k \in Tokens \ {None} : users[k.user] # None /\ k = TokenOf(k.user)

(* The routes whose handlers take the company from the token, and the      *)
(* roles RequireRole lets in (cmd/api/main.go:165-173).                    *)
RequireRole == [submit |-> {"employee"}, list |-> {"employee", "company_admin"},
                approve |-> {"company_admin"}, export |-> {"company_admin"}]

(* Whom RequireRole lets in has a company, and one that exists, so that    *)
(* CompanyIDFromContext never fails there and rows refer to companies      *)
(* (context.go:54-63, verification/handlers.go:35).                        *)
CompanyRoutesHaveCompany ==
    \A k \in Tokens \ {None}, route \in DOMAIN RequireRole :
        k.role \in RequireRole[route] => k.company \in Company

(* Of all registrations of an email one at most is answered 201, and the   *)
(* account is that one's for good: its password and its role, whatever was *)
(* sent at the same time or again (auth/handlers.go:84-90).                *)
CreatedIsKept ==
    \A r \in Request : code[r] = "201" =>
        LET f == form[r] IN
        /\ users[f.email] = [password |-> f.password, role |-> f.role, company |-> f.company]
        /\ \A q \in Request \ {r} : code[q] = "201" => form[q].email # f.email

(* To whoever looks at the accounts, at who was told of one and at the     *)
(* tokens in the browser, registrations that race, answers that are lost   *)
(* or come late and tabs that share a storage are opening an account once, *)
(* and handing out tokens of it (auth/handlers.go:60-125).                 *)
AccountOf(f) == [password |-> f.password, role |-> f.role, company |-> f.company]

Registry == INSTANCE AccountRegistry WITH
    Account <- Row, Person <- Request, Nobody <- None,
    accounts <- users,
    told <- {<<r, form[r].email, AccountOf(form[r])>> : r \in {q \in Request : code[q] = "201"}},
    held <- Tokens \ {None}

ImplementsRegistry == Registry!RegistrySpec

(* The token is of a login that ended in another tab.                      *)
FromElsewhere(k, t) == \E q \in Request : from[q] # t /\ at[q] = "done" /\ got[q] = k

(* The page works with the token of a role that is led to another page.    *)
Misfit(t) == page[t] \in TokenPage /\ token[t] # None /\ HomeOf[token[t].role] # page[t]

(* A page that a login has led to works with a token of another role only  *)
(* if that token is of a login in another tab, which came between the      *)
(* login here and the mounting of the page (login/page.tsx:38-49).         *)
MisfitNeedsOtherTab ==
    \A t \in Tab :
        routed[t] # None /\ Misfit(t) => FromElsewhere(token[t], t)

-----------------------------------------------------------------------------
(* The inductive invariant behind the properties above.                    *)
RowsAreSound ==
    \A e \in Email : users[e] # None =>
        (users[e].role = "platform_admin" <=> users[e].company = None)

RequestInv(r) ==
    /\ kind[r] = "register" => form[r] \in Form
    /\ kind[r] = "login" => form[r] \in Credentials
    /\ at[r] \in {"new", "sent"} => code[r] = "none"
    /\ at[r] = "new" => from[r] = None
    /\ at[r] # "new" => from[r] \in Tab
    /\ code[r] = "200" => got[r] # None
    /\ code[r] = "201" => kind[r] = "register" /\ users[form[r].email] # None

TabInv(t) ==
    /\ routed[t] # None =>
        /\ from[routed[t]] = t /\ at[routed[t]] = "done" /\ got[routed[t]] # None
        /\ stored = got[routed[t]] \/ FromElsewhere(stored, t)
        /\ Misfit(t) => FromElsewhere(token[t], t)
    /\ going[t] \in TokenPage =>
        routed[t] # None /\ going[t] = HomeOf[got[routed[t]].role]
    /\ routed[t] = None /\ page[t] \in TokenPage =>
        \A r \in Request : from[r] = t => at[r] = "done" \/ where[r] = "gone"

AccountsInv ==
    /\ RowsAreSound
    /\ TokensTellTheRow
    /\ CreatedIsKept
    /\ \A r \in Request : RequestInv(r)
    /\ \A t \in Tab : TabInv(t)
=============================================================================
