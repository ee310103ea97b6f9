------------------------------ MODULE Startup ------------------------------
(***************************************************************************)
(* The first thing that cmd/api and cmd/worker do with the database: each  *)
(* runs the migrations of River under a PostgreSQL advisory lock.  The     *)
(* lock belongs to a session, the session to a connection, and the calls   *)
(* go through a pool that takes an idle connection or opens another one.   *)
(* Errors of locking and unlocking are dropped.                            *)
(*                                                                         *)
(* A session is named by its process and a place in the process's pool; a  *)
(* connection that was closed and one opened later in its place share the  *)
(* name, since nothing but the lock is kept in a session.                  *)
(***************************************************************************)
EXTENDS Naturals

CONSTANTS
    Proc,       \* processes that migrate: the API and the worker
    MaxConns,   \* size of a pool (4 or the number of CPUs)
    Versions,   \* versions of River's migration line
    MaxTries,   \* turns of the loop (3 in the code)
    None        \* no session

Session == Proc \X (1 .. MaxConns)

ASSUME StartupAssumption ==
    /\ MaxConns \in Nat \ {0}
    /\ Versions \in Nat \ {0}
    /\ MaxTries \in Nat \ {0}
    /\ None \notin Session

VARIABLES
    pc,         \* what a process does next, "up" behind the loop, "dead" if it exited
    attempt,    \* the loop counter
    seen,       \* the versions that Migrate knows to be applied
    err,        \* what Migrate returned
    sess,       \* the session whose lock call waits or was granted in this turn
    schema,     \* how many versions the database has
    holder,     \* the session that holds advisory lock 42
    depth,      \* how many times it holds it
    unguarded   \* history: some Migrate went on without the lock

vars == <<pc, attempt, seen, err, sess, schema, holder, depth, unguarded>>

SessionsOf(p) == {p} \X (1 .. MaxConns)
Owner(s) == s[1]

Migrating(p) == pc[p] \in {"read", "apply"}

StartupTypeOK ==
    /\ pc \in [Proc -> {"lock", "wait", "read", "apply", "unlock", "up", "dead"}]
    /\ attempt \in [Proc -> 1 .. MaxTries]
    /\ seen \in [Proc -> 0 .. Versions]
    /\ err \in [Proc -> {"nil", "duplicate", "other"}]
    /\ sess \in [Proc -> Session \cup {None}]
    /\ schema \in 0 .. Versions
    /\ holder \in Session \cup {None}
    /\ depth \in Nat
    /\ unguarded \in BOOLEAN

Init ==
    /\ pc = [p \in Proc |-> "lock"]
    /\ attempt = [p \in Proc |-> 1]
    /\ seen = [p \in Proc |-> 0]
    /\ err = [p \in Proc |-> "nil"]
    /\ sess = [p \in Proc |-> None]
    /\ schema = 0
    /\ holder = None /\ depth = 0
    /\ unguarded = FALSE

-----------------------------------------------------------------------------
GoTo(p, l) == pc' = [pc EXCEPT ![p] = l]

(* Mutant: pg_advisory_xact_lock, which a call of its own releases at once. *)
LockForStatement(p) ==
    /\ pc[p] = "lock"
    /\ \E s \in SessionsOf(p) :
        /\ holder \in {None, s}
        /\ sess' = [sess EXCEPT ![p] = s]
        /\ GoTo(p, "read")
    /\ UNCHANGED <<attempt, seen, err, schema, holder, depth, unguarded>>

(* pg_advisory_lock(42) on any connection of the pool.  A session that has *)
(* the lock gets it once more; the session of another connection waits,    *)
(* be it one of the same process.                                          *)
Lock(p) ==
    /\ pc[p] = "lock"
    /\ \E s \in SessionsOf(p) :
        /\ sess' = [sess EXCEPT ![p] = s]
        /\ \/ /\ holder \in {None, s}
              /\ holder' = s /\ depth' = depth + 1
              /\ GoTo(p, "read")
           \/ /\ holder \notin {None, s}
              /\ GoTo(p, "wait")
              /\ UNCHANGED <<holder, depth>>
    /\ UNCHANGED <<attempt, seen, err, schema, unguarded>>

Granted(p) ==
    /\ pc[p] = "wait" /\ holder = None
    /\ holder' = sess[p] /\ depth' = 1
    /\ GoTo(p, "read")
    /\ UNCHANGED <<attempt, seen, err, sess, schema, unguarded>>

(* The call fails, at once or while it waits, and nobody looks.            *)
LockFails(p) ==
    /\ pc[p] \in {"lock", "wait"}
    /\ sess' = [sess EXCEPT ![p] = None]
    /\ unguarded' = TRUE
    /\ GoTo(p, "read")
    /\ UNCHANGED <<attempt, seen, err, schema, holder, depth>>

-----------------------------------------------------------------------------
MigrateReturns(p, e) ==
    /\ err' = [err EXCEPT ![p] = e]
    /\ GoTo(p, "unlock")

(* Migrate first reads which versions are there; making the migrator and   *)
(* reading may fail.                                                       *)
ReadVersions(p) ==
    /\ pc[p] = "read"
    /\ \/ /\ seen' = [seen EXCEPT ![p] = schema]
          /\ GoTo(p, "apply")
          /\ UNCHANGED err
       \/ MigrateReturns(p, "other") /\ UNCHANGED seen
    /\ UNCHANGED <<attempt, sess, schema, holder, depth, unguarded>>

(* Each version is a transaction, which may commit without an answer.  It  *)
(* does not commit when another process has applied the version meanwhile: *)
(* a key or a table is there already.                                      *)
ApplyVersion(p) ==
    /\ pc[p] = "apply" /\ seen[p] < Versions
    /\ \/ /\ schema = seen[p] /\ schema' = schema + 1
          /\ \/ seen' = [seen EXCEPT ![p] = @ + 1] /\ UNCHANGED <<pc, err>>
             \/ MigrateReturns(p, "other") /\ UNCHANGED seen
       \/ /\ schema > seen[p] /\ MigrateReturns(p, "duplicate")
          /\ UNCHANGED <<schema, seen>>
       \/ MigrateReturns(p, "other") /\ UNCHANGED <<schema, seen>>
    /\ UNCHANGED <<attempt, sess, holder, depth, unguarded>>

AllApplied(p) ==
    /\ pc[p] = "apply" /\ seen[p] = Versions
    /\ MigrateReturns(p, "nil")
    /\ UNCHANGED <<attempt, seen, sess, schema, holder, depth, unguarded>>

-----------------------------------------------------------------------------
(* Mutant: the lock is a row of a table, which outlives who inserted it.   *)
ReleasesNothing(p) == UNCHANGED <<holder, depth>>

(* The end of a process closes its connections, and with them its sessions. *)
ProcessEnds(p) ==
    IF holder \in SessionsOf(p) THEN holder' = None /\ depth' = 0
    ELSE UNCHANGED <<holder, depth>>

(* pg_advisory_unlock(42) on any connection of the pool, or not at all: on *)
(* a session without the lock it is a warning.                             *)
Unlock(p) ==
    \/ /\ holder \in SessionsOf(p)
       /\ depth' = depth - 1
       /\ holder' = IF depth = 1 THEN None ELSE holder
    \/ UNCHANGED <<holder, depth>>

(* Mutant: the last turn of the loop is not told from the others.          *)
LoopOnEveryRace(p) ==
    \/ /\ err[p] = "nil" /\ GoTo(p, "up")
       /\ Unlock(p) /\ UNCHANGED attempt
    \/ /\ err[p] = "duplicate"
       /\ IF attempt[p] < MaxTries
          THEN GoTo(p, "lock") /\ attempt' = [attempt EXCEPT ![p] = @ + 1]
          ELSE GoTo(p, "up") /\ UNCHANGED attempt
       /\ Unlock(p)
    \/ /\ err[p] = "other" /\ GoTo(p, "dead")
       /\ ProcessEnds(p) /\ UNCHANGED attempt

(* Mutant: losing a race is no turn of the loop.                           *)
RaceCostsNothing(p) ==
    \/ /\ err[p] = "nil" /\ GoTo(p, "up")
       /\ Unlock(p) /\ UNCHANGED attempt
    \/ /\ err[p] = "duplicate"
       /\ GoTo(p, "lock") /\ Unlock(p) /\ UNCHANGED attempt
    \/ /\ err[p] = "other" /\ GoTo(p, "dead")
       /\ ProcessEnds(p) /\ UNCHANGED attempt

(* The loop ends, goes on or ends the process, which unlocks as well.      *)
Decide(p) ==
    \/ /\ err[p] = "nil" /\ GoTo(p, "up")
       /\ Unlock(p) /\ UNCHANGED attempt
    \/ /\ err[p] = "duplicate" /\ attempt[p] < MaxTries
       /\ GoTo(p, "lock") /\ attempt' = [attempt EXCEPT ![p] = @ + 1]
       /\ Unlock(p)
    \/ /\ \/ err[p] = "other"
          \/ err[p] = "duplicate" /\ attempt[p] = MaxTries
       /\ GoTo(p, "dead")
       /\ ProcessEnds(p) /\ UNCHANGED attempt

UnlockAndDecide(p) ==
    /\ pc[p] = "unlock"
    /\ Decide(p)
    /\ sess' = [sess EXCEPT ![p] = None]
    /\ UNCHANGED <<seen, err, schema, unguarded>>

-----------------------------------------------------------------------------
Crash(p) ==
    /\ pc[p] # "dead"
    /\ GoTo(p, "dead")
    /\ ProcessEnds(p)
    /\ sess' = [sess EXCEPT ![p] = None]
    /\ UNCHANGED <<attempt, seen, err, schema, unguarded>>

(* Nothing restarts a process but its operator.                            *)
Restart(p) ==
    /\ pc[p] = "dead"
    /\ GoTo(p, "lock")
    /\ attempt' = [attempt EXCEPT ![p] = 1]
    /\ seen' = [seen EXCEPT ![p] = 0]
    /\ err' = [err EXCEPT ![p] = "nil"]
    /\ UNCHANGED <<sess, schema, holder, depth, unguarded>>

(* The connection that holds the lock in this turn is lost.                *)
LoseSession(p) ==
    /\ Migrating(p) /\ sess[p] # None
    /\ sess' = [sess EXCEPT ![p] = None]
    /\ holder' = None /\ depth' = 0
    /\ unguarded' = TRUE
    /\ UNCHANGED <<pc, attempt, seen, err, schema>>

(* An unlock on another connection has left the lock behind.  The pool     *)
(* closes connections that are idle or old (after 30 and 60 minutes).      *)
CloseIdle ==
    /\ holder # None
    /\ sess[Owner(holder)] # holder
    /\ holder' = None /\ depth' = 0
    /\ UNCHANGED <<pc, attempt, seen, err, sess, schema, unguarded>>

Step(p) ==
    \/ Lock(p) \/ LockFails(p)
    \/ ReadVersions(p) \/ ApplyVersion(p) \/ AllApplied(p)
    \/ UnlockAndDecide(p)

Next ==
    \/ \E p \in Proc : Step(p) \/ Granted(p) \/ Crash(p) \/ Restart(p) \/ LoseSession(p)
    \/ CloseIdle

(* A process goes on; waiters for an advisory lock are served in turn; the *)
(* pool looks for idle connections every minute.                           *)
Fairness ==
    /\ \A p \in Proc :
        /\ WF_vars(Step(p) /\ pc[p] # "wait")
        /\ SF_vars(Granted(p))
    /\ WF_vars(CloseIdle)

Spec == Init /\ [][Next]_vars /\ Fairness

-----------------------------------------------------------------------------
(* Behind the loop the whole schema is there, however often the migration  *)
(* was tried and whoever else applied parts of it (cmd/api/main.go:58-82). *)
UpHasSchema == \A p \in Proc : pc[p] = "up" => schema = Versions

(* Two processes migrate at a time only if one of them has no lock: its    *)
(* call failed or its session is gone (cmd/api/main.go:59-60).             *)
LockExcludes ==
    \A p, q \in Proc : Migrating(p) /\ Migrating(q) /\ p # q =>
        sess[p] = None \/ sess[q] = None

(* The branch on "duplicate key" is for migrations without the lock: as    *)
(* long as each was guarded, none meets another's versions, also when the  *)
(* lock was left behind or taken twice (cmd/api/main.go:72).               *)
RaceNeedsLostLock ==
    \A p \in Proc : err[p] = "duplicate" \/ attempt[p] > 1 => unguarded

(* The lock of a process that exited or crashed in any place is free.      *)
HolderIsAlive == holder # None => pc[Owner(holder)] # "dead"

(* To anyone who sees the schema and who serves, locking over pools, with  *)
(* versions in transactions of their own and a loop around all of it, is   *)
(* entering, applying and leaving (cmd/api/main.go:58-82): the right to    *)
(* apply is the granted lock of a migration under way.                     *)
Migrations == INSTANCE MigrationLedger WITH
    applied <- schema,
    inside <- {p \in Proc : Migrating(p) /\ sess[p] # None},
    up <- {p \in Proc : pc[p] = "up"},
    lost <- unguarded

ImplementsMigrations == Migrations!MigrationSpec

(* Without any fairness: a start wears out.  Whatever the other processes  *)
(* apply, lock or lose meanwhile, each move of a process leaves it fewer,  *)
(* out of a number that the versions and the turns of the loop bound: only *)
(* waiting for the lock can keep a start from its end                      *)
(* (cmd/api/main.go:62-82).                                                *)
MovesOfTurn(p) ==
    [lock |-> Versions + 6, wait |-> Versions + 5, read |-> Versions + 4,
     apply |-> (Versions - seen[p]) + 3, unlock |-> 2, up |-> 1, dead |-> 0][pc[p]]

MovesLeft(p) == (MaxTries - attempt[p]) * (Versions + 5) + MovesOfTurn(p)

StartsWearOut ==
    [][\A p \in Proc : pc[p] # "dead" =>
        /\ MovesLeft(p)' >= 0
        /\ \/ MovesLeft(p)' < MovesLeft(p)
           \/ /\ MovesLeft(p)' = MovesLeft(p)
              /\ pc'[p] = pc[p] /\ seen'[p] = seen[p] /\ attempt'[p] = attempt[p]]_vars

(* A start comes to an end: the process is up or has exited, even when its *)
(* own pool has the lock on another connection than the one that waits.    *)
StartupEnds == \A p \in Proc : pc[p] = "lock" ~> pc[p] \in {"up", "dead"}

-----------------------------------------------------------------------------
(* The inductive invariant behind the properties above.                    *)
ProcInv(p) ==
    /\ Migrating(p) /\ sess[p] # None => holder = sess[p]
    /\ sess[p] # None => Owner(sess[p]) = p /\ pc[p] \in {"wait", "read", "apply", "unlock"}
    /\ seen[p] <= schema
    /\ pc[p] = "wait" => sess[p] # None
    /\ pc[p] = "unlock" /\ err[p] = "nil" => schema = Versions
    /\ pc[p] = "up" => schema = Versions
    /\ Migrating(p) /\ sess[p] = None => unguarded
    /\ pc[p] = "apply" /\ ~ unguarded => seen[p] = schema
    /\ err[p] = "duplicate" \/ attempt[p] > 1 => unguarded

StartupInv ==
    /\ \A p \in Proc : ProcInv(p)
    /\ holder = None <=> depth = 0
    /\ HolderIsAlive
=============================================================================
