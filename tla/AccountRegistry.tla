-------------------------- MODULE AccountRegistry --------------------------
(***************************************************************************)
(* What registration and login promise, without requests, tabs, storage    *)
(* and lost answers: an account is opened once, in one step, for one       *)
(* person, who may be told so in that step only; it never changes; and     *)
(* every token that is anywhere was made of an account.                    *)
(***************************************************************************)

CONSTANTS Email, Account, Person, Nobody

VARIABLES
    accounts,   \* the account of an email, or Nobody's
    told,       \* who was told that which account was opened
    held        \* the tokens that somebody or something keeps

registryVars == <<accounts, told, held>>

RegistryInit ==
    /\ accounts \in [Email -> Account \cup {Nobody}]
    /\ told = {} /\ held = {}

Open(e, a, w) ==
    /\ accounts[e] = Nobody
    /\ accounts' = [accounts EXCEPT ![e] = a]
    /\ told' \in {told, told \cup {<<w, e, a>>}}
    /\ UNCHANGED held

TokenFor(e) == [user |-> e, role |-> accounts[e].role, company |-> accounts[e].company]

(* A token may take the place of others.                                   *)
Grant(e) ==
    /\ accounts[e] # Nobody
    /\ held' \subseteq held \cup {TokenFor(e)}
    /\ UNCHANGED <<accounts, told>>

Forget ==
    /\ held' \subseteq held
    /\ UNCHANGED <<accounts, told>>

RegistryNext ==
    \/ \E e \in Email :
        \/ Grant(e)
        \/ \E a \in Account, w \in Person : Open(e, a, w)
    \/ Forget

RegistrySpec == RegistryInit /\ [][RegistryNext]_registryVars
=============================================================================
