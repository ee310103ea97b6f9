--------------------------- MODULE Startup_proofs ---------------------------
(***************************************************************************)
(* Proofs about the start of the processes, for any number of processes,   *)
(* connections per pool, versions and turns of the loop.                   *)
(***************************************************************************)
EXTENDS Startup, TLAPS

StartupIInv == StartupTypeOK /\ StartupInv

(* The sessions of two processes differ.                                   *)
LEMMA SessionFacts ==
    ASSUME NEW p \in Proc, NEW s \in Session
    PROVE  /\ Owner(s) \in Proc
           /\ s \in SessionsOf(p) <=> Owner(s) = p
           /\ SessionsOf(p) \subseteq Session
           /\ None \notin SessionsOf(p)
BY StartupAssumption DEF Session, SessionsOf, Owner

LEMMA HolderOwner ==
    ASSUME StartupTypeOK
    PROVE  holder # None => Owner(holder) \in Proc
BY DEF StartupTypeOK, Session, Owner

(* The end of process p frees the lock if p had it and only then, and      *)
(* neither an end nor an unlock takes the lock from another process.       *)
LEMMA ReleaseFacts ==
    ASSUME StartupIInv, NEW p \in Proc, Unlock(p) \/ ProcessEnds(p)
    PROVE  /\ holder' \in Session \cup {None}
           /\ depth' \in Nat
           /\ holder' = None <=> depth' = 0
           /\ holder' \in {holder, None}
           /\ holder' # holder => Owner(holder) = p /\ holder # None
           /\ ProcessEnds(p) => holder' = None \/ Owner(holder') # p
<1>1. holder # None => (holder \in SessionsOf(p) <=> Owner(holder) = p)
  BY SessionFacts DEF StartupIInv, StartupTypeOK
<1>2. None \notin SessionsOf(p)
  BY StartupAssumption DEF SessionsOf, Session
<1> QED
  BY <1>1, <1>2
     DEF StartupIInv, StartupTypeOK, StartupInv, Unlock, ProcessEnds

LEMMA StartupStarts == Init => StartupIInv
<1> SUFFICES ASSUME Init PROVE StartupIInv
  OBVIOUS
<1> USE DEF Init
<1>1. StartupTypeOK
  <2>1. 1 \in 1 .. MaxTries /\ 0 \in 0 .. Versions
    BY StartupAssumption
  <2>2. pc \in [Proc -> {"lock", "wait", "read", "apply", "unlock", "up", "dead"}]
    OBVIOUS
  <2>3. attempt \in [Proc -> 1 .. MaxTries] /\ seen \in [Proc -> 0 .. Versions]
    BY <2>1
  <2> QED BY <2>1, <2>2, <2>3 DEF StartupTypeOK
<1>2. ASSUME NEW p \in Proc PROVE ProcInv(p)
  BY DEF ProcInv, Migrating
<1>3. (holder = None <=> depth = 0) /\ HolderIsAlive
  BY DEF HolderIsAlive
<1> QED BY <1>1, <1>2, <1>3 DEF StartupIInv, StartupInv

(* A process takes the lock, waits for it, or goes on without it.          *)
LEMMA LockStep ==
    ASSUME StartupIInv, NEW p \in Proc, Lock(p) \/ Granted(p) \/ LockFails(p)
    PROVE  StartupIInv'
<1> USE DEF StartupIInv, StartupTypeOK, StartupInv, GoTo
<1>1. CASE Lock(p)
  <2>1. PICK s \in SessionsOf(p) :
          /\ sess' = [sess EXCEPT ![p] = s]
          /\ \/ /\ holder \in {None, s}
                /\ holder' = s /\ depth' = depth + 1
                /\ GoTo(p, "read")
             \/ /\ holder \notin {None, s}
                /\ GoTo(p, "wait")
                /\ UNCHANGED <<holder, depth>>
    BY <1>1 DEF Lock
  <2>2. s \in Session /\ Owner(s) = p /\ s # None
    BY SessionFacts, StartupAssumption DEF Session, SessionsOf, Owner
  <2>3. pc[p] = "lock" /\ UNCHANGED <<attempt, seen, err, schema, unguarded>>
    BY <1>1 DEF Lock
  <2>4. StartupTypeOK'
    BY <2>1, <2>2, <2>3
  <2>5. ASSUME NEW q \in Proc PROVE ProcInv(q)'
    BY <2>1, <2>2, <2>3, <2>5 DEF ProcInv, Migrating
  <2>6. (holder = None <=> depth = 0)' /\ HolderIsAlive'
    BY <2>1, <2>2, <2>3, HolderOwner DEF HolderIsAlive
  <2> QED BY <2>4, <2>5, <2>6
<1>2. CASE Granted(p)
  <2>1. sess[p] \in Session /\ Owner(sess[p]) = p /\ sess[p] # None
    BY <1>2, StartupAssumption DEF Granted, ProcInv
  <2>2. StartupTypeOK'
    BY <1>2, <2>1 DEF Granted
  <2>3. ASSUME NEW q \in Proc PROVE ProcInv(q)'
    BY <1>2, <2>1, <2>3 DEF Granted, ProcInv, Migrating
  <2>4. (holder = None <=> depth = 0)' /\ HolderIsAlive'
    BY <1>2, <2>1 DEF Granted, HolderIsAlive
  <2> QED BY <2>2, <2>3, <2>4
<1>3. CASE LockFails(p)
  <2>1. StartupTypeOK'
    BY <1>3 DEF LockFails
  <2>2. ASSUME NEW q \in Proc PROVE ProcInv(q)'
    BY <1>3, <2>2 DEF LockFails, ProcInv, Migrating
  <2>3. (holder = None <=> depth = 0)' /\ HolderIsAlive'
    BY <1>3 DEF LockFails, HolderIsAlive
  <2> QED BY <2>1, <2>2, <2>3
<1> QED BY <1>1, <1>2, <1>3

(* A guarded process is alone: it reads and applies what is there.         *)
LEMMA MigrateStep ==
    ASSUME StartupIInv, NEW p \in Proc,
           ReadVersions(p) \/ ApplyVersion(p) \/ AllApplied(p)
    PROVE  StartupIInv'
<1> USE DEF StartupIInv, StartupTypeOK, StartupInv, GoTo, MigrateReturns
<1> USE StartupAssumption
<1>1. CASE ReadVersions(p)
  <2>1. StartupTypeOK'
    BY <1>1 DEF ReadVersions
  <2>2. ASSUME NEW q \in Proc PROVE ProcInv(q)'
    BY <1>1, <2>2 DEF ReadVersions, ProcInv, Migrating
  <2>3. (holder = None <=> depth = 0)' /\ HolderIsAlive'
    BY <1>1, HolderOwner DEF ReadVersions, HolderIsAlive
  <2> QED BY <2>1, <2>2, <2>3
<1>2. CASE ApplyVersion(p)
  <2>1. StartupTypeOK'
    BY <1>2 DEF ApplyVersion
  <2>2. pc[p] = "apply" /\ schema' >= schema /\ (schema = Versions => schema' = Versions)
    BY <1>2 DEF ApplyVersion, ProcInv
  <2>3. ASSUME NEW q \in Proc, q # p PROVE ProcInv(q)'
    <3>1. ~ unguarded => ~ Migrating(q)
      BY <2>2, <2>3 DEF ProcInv, Migrating
    <3>2. /\ pc'[q] = pc[q] /\ attempt' = attempt /\ seen'[q] = seen[q] /\ err'[q] = err[q]
          /\ sess' = sess /\ holder' = holder /\ unguarded' = unguarded
      BY <1>2, <2>3 DEF ApplyVersion
    <3> QED BY <2>1, <2>2, <3>1, <3>2 DEF ProcInv, Migrating
  <2>4. ProcInv(p)'
    BY <1>2 DEF ApplyVersion, ProcInv, Migrating
  <2>5. (holder = None <=> depth = 0)' /\ HolderIsAlive'
    BY <1>2, HolderOwner DEF ApplyVersion, HolderIsAlive
  <2> QED BY <2>1, <2>3, <2>4, <2>5
<1>3. CASE AllApplied(p)
  <2>1. StartupTypeOK'
    BY <1>3 DEF AllApplied
  <2>2. ASSUME NEW q \in Proc PROVE ProcInv(q)'
    BY <1>3, <2>2 DEF AllApplied, ProcInv, Migrating
  <2>3. (holder = None <=> depth = 0)' /\ HolderIsAlive'
    BY <1>3 DEF AllApplied, HolderIsAlive
  <2> QED BY <2>1, <2>2, <2>3
<1> QED BY <1>1, <1>2, <1>3

(* The lock given back is never the lock of another process.               *)
LEMMA ReleaseStep ==
    ASSUME StartupIInv, NEW p \in Proc, UnlockAndDecide(p) \/ Crash(p)
    PROVE  StartupIInv'
<1> USE DEF StartupIInv, StartupTypeOK, StartupInv, GoTo
<1>1. Unlock(p) \/ ProcessEnds(p)
  BY DEF UnlockAndDecide, Decide, Crash
<1>2. /\ sess' = [sess EXCEPT ![p] = None]
      /\ UNCHANGED <<seen, err, schema, unguarded>>
  BY DEF UnlockAndDecide, Crash
<1>3. /\ pc' \in [Proc -> {"lock", "wait", "read", "apply", "unlock", "up", "dead"}]
      /\ attempt' \in [Proc -> 1 .. MaxTries]
      /\ pc'[p] \in {"lock", "up", "dead"}
      /\ pc'[p] = "dead" => ProcessEnds(p)
      /\ pc'[p] = "up" => schema = Versions
      /\ attempt'[p] > 1 => unguarded
      /\ \A q \in Proc \ {p} : pc'[q] = pc[q] /\ attempt'[q] = attempt[q]
  <2>1. CASE UnlockAndDecide(p)
    BY <2>1, StartupAssumption DEF UnlockAndDecide, Decide, ProcInv
  <2>2. CASE Crash(p)
    BY <2>2 DEF Crash, ProcInv
  <2> QED BY <2>1, <2>2
<1>4. /\ holder' \in Session \cup {None}
      /\ depth' \in Nat
      /\ holder' = None <=> depth' = 0
      /\ holder' \in {holder, None}
      /\ holder' # holder => Owner(holder) = p /\ holder # None
      /\ ProcessEnds(p) => holder' = None \/ Owner(holder') # p
  BY <1>1, ReleaseFacts DEF StartupIInv
<1>5. StartupTypeOK'
  BY <1>2, <1>3, <1>4
<1>6. ASSUME NEW q \in Proc PROVE ProcInv(q)'
  <2>1. CASE q = p
    BY <1>2, <1>3, <2>1 DEF ProcInv, Migrating
  <2>2. CASE q # p
    <3>1. sess[q] # None => Owner(sess[q]) = q
      BY DEF ProcInv
    <3>2. Migrating(q) /\ sess[q] # None => holder' = sess[q]
      BY <1>4, <2>2, <3>1 DEF ProcInv
    <3>3. pc'[q] = pc[q] /\ attempt'[q] = attempt[q] /\ sess'[q] = sess[q]
      BY <1>2, <1>3, <2>2
    <3> QED BY <1>2, <3>2, <3>3 DEF ProcInv, Migrating
  <2> QED BY <2>1, <2>2
<1>7. HolderIsAlive'
  <2>1. holder' # None => Owner(holder') \in Proc
    BY <1>4, SessionFacts
  <2> QED BY <1>3, <1>4, <2>1 DEF HolderIsAlive
<1> QED BY <1>4, <1>5, <1>6, <1>7

(* Connections that are lost or closed, and a process that is restarted.   *)
LEMMA OutsideStep ==
    ASSUME StartupIInv,
           CloseIdle \/ \E p \in Proc : LoseSession(p) \/ Restart(p)
    PROVE  StartupIInv'
<1> USE DEF StartupIInv, StartupTypeOK, StartupInv, GoTo
<1>1. CASE CloseIdle
  <2>1. ASSUME NEW q \in Proc PROVE ProcInv(q)'
    <3>1. Migrating(q) => sess[q] = None
      BY <1>1 DEF CloseIdle, ProcInv
    <3> QED BY <1>1, <3>1 DEF CloseIdle, ProcInv, Migrating
  <2> QED BY <1>1, <2>1 DEF CloseIdle, HolderIsAlive
<1>2. ASSUME NEW p \in Proc, LoseSession(p) PROVE StartupIInv'
  <2>1. ASSUME NEW q \in Proc PROVE ProcInv(q)'
    <3>1. q # p => ~ (Migrating(q) /\ sess[q] # None)
      BY <1>2 DEF LoseSession, ProcInv
    <3> QED BY <1>2, <3>1 DEF LoseSession, ProcInv, Migrating
  <2> QED BY <1>2, <2>1 DEF LoseSession, HolderIsAlive
<1>3. ASSUME NEW p \in Proc, Restart(p) PROVE StartupIInv'
  <2>1. StartupTypeOK'
    BY <1>3, StartupAssumption DEF Restart
  <2>2. ASSUME NEW q \in Proc PROVE ProcInv(q)'
    BY <1>3, <2>2, StartupAssumption DEF Restart, ProcInv, Migrating
  <2>3. (holder = None <=> depth = 0)' /\ HolderIsAlive'
    BY <1>3 DEF Restart, HolderIsAlive
  <2> QED BY <2>1, <2>2, <2>3
<1> QED BY <1>1, <1>2, <1>3

LEMMA StartupSteps == StartupIInv /\ [Next]_vars => StartupIInv'
<1> SUFFICES ASSUME StartupIInv, [Next]_vars PROVE StartupIInv'
  OBVIOUS
<1>1. CASE Next
  BY <1>1, LockStep, MigrateStep, ReleaseStep, OutsideStep DEF Next, Step
<1>2. CASE UNCHANGED vars
  BY <1>2 DEF vars, StartupIInv, StartupTypeOK, StartupInv, ProcInv, HolderIsAlive, Migrating
<1> QED BY <1>1, <1>2

(* StartupInv holds in every state: what is known of a process in each     *)
(* place of the loop, with a lock that may be left behind or lost.         *)
THEOREM StartupSafe == Spec => [](StartupTypeOK /\ StartupInv)
<1>1. Spec => []StartupIInv
  BY StartupStarts, StartupSteps, PTL DEF Spec
<1>2. StartupIInv => StartupTypeOK /\ StartupInv
  BY DEF StartupIInv
<1> QED BY <1>1, <1>2, PTL

(* A process that is up has the whole schema.                              *)
THEOREM UpMeansMigrated == Spec => []UpHasSchema
<1>1. StartupInv => UpHasSchema
  BY DEF StartupInv, ProcInv, UpHasSchema
<1> QED BY <1>1, StartupSafe, PTL

(* Two locks are never granted to processes that migrate at a time.        *)
THEOREM LockedAreAlone == Spec => []LockExcludes
<1>1. StartupInv => LockExcludes
  BY DEF StartupInv, ProcInv, LockExcludes
<1> QED BY <1>1, StartupSafe, PTL

(* A race of migrations shows that some lock call failed or was undone.    *)
THEOREM RacesAreUnguarded == Spec => []RaceNeedsLostLock
<1>1. StartupInv => RaceNeedsLostLock
  BY DEF StartupInv, ProcInv, RaceNeedsLostLock
<1> QED BY <1>1, StartupSafe, PTL

-----------------------------------------------------------------------------
(* The processes that MigrationLedger sees inside and up.                  *)
Inside == {p \in Proc : Migrating(p) /\ sess[p] # None}
Up == {p \in Proc : pc[p] = "up"}

(* A step of one process moves nobody else in or out.                      *)
LEMMA OneMoves ==
    ASSUME NEW p \in Proc,
           \A q \in Proc \ {p} : pc'[q] = pc[q] /\ sess'[q] = sess[q]
    PROVE  /\ p \in Inside <=> Migrating(p) /\ sess[p] # None
           /\ p \in Inside' <=> Migrating(p)' /\ sess'[p] # None
           /\ (p \in Inside <=> p \in Inside') => Inside' = Inside
           /\ p \in Inside' => Inside' = Inside \cup {p}
           /\ p \notin Inside' => Inside' = Inside \ {p}
           /\ p \in Up <=> pc[p] = "up"
           /\ p \in Up' <=> pc'[p] = "up"
           /\ (p \in Up <=> p \in Up') => Up' = Up
           /\ p \in Up' => Up' = Up \cup {p}
           /\ p \notin Up' => Up' = Up \ {p}
<1>1. /\ \A q \in Proc \ {p} : q \in Inside' <=> q \in Inside
      /\ Inside \subseteq Proc /\ Inside' \subseteq Proc
      /\ p \in Inside <=> Migrating(p) /\ sess[p] # None
      /\ p \in Inside' <=> Migrating(p)' /\ sess'[p] # None
  BY DEF Inside, Migrating
<1>2. /\ \A q \in Proc \ {p} : q \in Up' <=> q \in Up
      /\ Up \subseteq Proc /\ Up' \subseteq Proc
      /\ p \in Up <=> pc[p] = "up"
      /\ p \in Up' <=> pc'[p] = "up"
  BY DEF Up
<1> QED BY <1>1, <1>2

(* Whoever is granted the lock finds nobody inside, also when its session  *)
(* had it before: who is inside has the lock, on a session of its own.     *)
LEMMA GrantedFindsNobody ==
    ASSUME StartupIInv, NEW p \in Proc, pc[p] \in {"lock", "wait"},
           NEW s \in SessionsOf(p), holder \in {None, s}
    PROVE  Inside = {}
<1> SUFFICES ASSUME NEW q \in Proc, Migrating(q), sess[q] # None PROVE FALSE
  BY DEF Inside
<1>1. sess[q] = holder /\ Owner(sess[q]) = q
  BY DEF StartupIInv, StartupInv, ProcInv
<1>2. Owner(s) = p
  BY DEF SessionsOf, Owner
<1> QED BY <1>1, <1>2 DEF Migrating

(* The steps of MigrationLedger, in terms of the two sets.                 *)
LEMMA MigrationsAre ==
    ASSUME NEW p \in Proc,
           \/ /\ Inside = {} /\ Inside' = {p}
              /\ UNCHANGED <<schema, Up, unguarded>>
           \/ /\ p \in Inside /\ Inside' = Inside \ {p}
              /\ UNCHANGED <<schema, Up, unguarded>>
           \/ /\ unguarded' = TRUE /\ Inside' = Inside \ {p}
              /\ UNCHANGED <<schema, Up>>
           \/ /\ p \in Inside \/ unguarded
              /\ schema < Versions /\ schema' = schema + 1
              /\ Inside' \in {Inside, Inside \ {p}}
              /\ UNCHANGED <<Up, unguarded>>
           \/ /\ schema = Versions /\ p \notin Inside /\ Up' = Up \cup {p}
              /\ UNCHANGED <<schema, Inside, unguarded>>
           \/ /\ p \in Up /\ Up' = Up \ {p}
              /\ UNCHANGED <<schema, Inside, unguarded>>
           \/ UNCHANGED <<schema, Inside, Up, unguarded>>
    PROVE  Migrations!MigrationNext \/ UNCHANGED Migrations!migrationVars
BY DEF Inside, Up, Migrations!MigrationNext, Migrations!migrationVars, Migrations!Enter,
       Migrations!Leave, Migrations!Lose, Migrations!Apply, Migrations!GetUp,
       Migrations!GoDown

(* Each step of a process is a step of the ledger, or hidden from it.      *)
LEMMA ProcessMigrates ==
    ASSUME StartupIInv, NEW p \in Proc,
           Step(p) \/ Granted(p) \/ Crash(p) \/ Restart(p) \/ LoseSession(p)
    PROVE  Migrations!MigrationNext \/ UNCHANGED Migrations!migrationVars
<1> USE DEF StartupIInv, StartupTypeOK, GoTo, Migrating
<1>0. ProcInv(p) /\ p \in Proc
  BY DEF StartupInv
<1>1. CASE Lock(p) \/ Granted(p)
  <2>1. PICK s \in SessionsOf(p) :
          /\ sess' = [sess EXCEPT ![p] = s]
          /\ \/ holder \in {None, s} /\ pc' = [pc EXCEPT ![p] = "read"]
             \/ pc' = [pc EXCEPT ![p] = "wait"]
    <3>1. CASE Lock(p)
      BY <3>1 DEF Lock
    <3>2. CASE Granted(p)
      <4>1. sess[p] \in SessionsOf(p)
        BY <1>0, <3>2 DEF Granted, ProcInv, Session, SessionsOf, Owner
      <4> QED BY <3>2, <4>1 DEF Granted
    <3> QED BY <1>1, <3>1, <3>2
  <2>2. s # None
    BY StartupAssumption DEF SessionsOf, Session
  <2>3. pc[p] \in {"lock", "wait"} /\ UNCHANGED <<schema, unguarded>>
    BY <1>1 DEF Lock, Granted
  <2>4. \A q \in Proc \ {p} : pc'[q] = pc[q] /\ sess'[q] = sess[q]
    BY <2>1
  <2>5. CASE holder \in {None, s} /\ pc' = [pc EXCEPT ![p] = "read"]
    <3>1. Inside = {}
      BY <2>3, <2>5, GrantedFindsNobody
    <3>2. Inside' = {p} /\ Up' = Up
      BY <2>1, <2>2, <2>3, <2>4, <2>5, <3>1, OneMoves
    <3> QED BY <2>3, <3>1, <3>2, MigrationsAre
  <2>6. CASE pc' = [pc EXCEPT ![p] = "wait"]
    <3>1. Inside' = Inside /\ Up' = Up
      BY <2>3, <2>4, <2>6, OneMoves
    <3> QED BY <2>3, <3>1, MigrationsAre
  <2> QED BY <2>1, <2>5, <2>6
<1>2. CASE LockFails(p) \/ LoseSession(p)
  <2>1. /\ \A q \in Proc \ {p} : pc'[q] = pc[q] /\ sess'[q] = sess[q]
        /\ sess'[p] = None /\ pc[p] # "up" /\ pc'[p] # "up"
        /\ unguarded' = TRUE /\ schema' = schema
    BY <1>2 DEF LockFails, LoseSession
  <2>2. Inside' = Inside \ {p} /\ Up' = Up
    BY <2>1, OneMoves
  <2> QED BY <2>1, <2>2, MigrationsAre
<1>3. CASE ReadVersions(p) \/ AllApplied(p)
  <2>1. /\ \A q \in Proc \ {p} : pc'[q] = pc[q] /\ sess'[q] = sess[q]
        /\ sess'[p] = sess[p] /\ pc[p] \in {"read", "apply"} /\ pc'[p] \in {"apply", "unlock"}
        /\ UNCHANGED <<schema, unguarded>>
    BY <1>3 DEF ReadVersions, AllApplied, MigrateReturns
  <2>2. /\ Inside' = Inside \/ (p \in Inside /\ Inside' = Inside \ {p})
        /\ Up' = Up
    BY <2>1, OneMoves
  <2> QED BY <2>1, <2>2, MigrationsAre
<1>4. CASE ApplyVersion(p)
  <2>1. /\ \A q \in Proc \ {p} : pc'[q] = pc[q] /\ sess'[q] = sess[q]
        /\ sess'[p] = sess[p] /\ pc[p] = "apply" /\ pc'[p] \in {"apply", "unlock"}
        /\ unguarded' = unguarded
    BY <1>4 DEF ApplyVersion, MigrateReturns
  <2>2. Inside' \in {Inside, Inside \ {p}} /\ Up' = Up
    BY <2>1, OneMoves
  <2>3. p \in Inside \/ unguarded
    BY <1>0, <2>1, OneMoves DEF ProcInv
  <2>4. schema' = schema \/ (schema' = schema + 1 /\ schema < Versions)
    BY <1>4 DEF ApplyVersion
  <2>5. Inside' = Inside \/ (p \in Inside /\ Inside' = Inside \ {p})
    BY <2>2
  <2> QED BY <2>1, <2>2, <2>3, <2>4, <2>5, MigrationsAre
<1>5. CASE UnlockAndDecide(p)
  <2>1. /\ \A q \in Proc \ {p} : pc'[q] = pc[q] /\ sess'[q] = sess[q]
        /\ pc[p] = "unlock" /\ pc'[p] \in {"lock", "up", "dead"}
        /\ UNCHANGED <<schema, unguarded>>
        /\ pc'[p] = "up" => err[p] = "nil"
    BY <1>5 DEF UnlockAndDecide, Decide
  <2>2. p \notin Inside /\ Inside' = Inside
    BY <2>1, OneMoves
  <2>3. Up' = Up \/ (schema = Versions /\ Up' = Up \cup {p})
    BY <1>0, <2>1, OneMoves DEF ProcInv
  <2> QED BY <2>1, <2>2, <2>3, MigrationsAre
<1>6. CASE Crash(p) \/ Restart(p)
  <2>1. /\ \A q \in Proc \ {p} : pc'[q] = pc[q] /\ sess'[q] = sess[q]
        /\ pc'[p] \in {"dead", "lock"}
        /\ UNCHANGED <<schema, unguarded>>
    BY <1>6 DEF Crash, Restart
  <2>2. /\ Inside' = Inside \ {p} /\ Up' = Up \ {p}
        /\ p \in Inside => p \notin Up
    BY <2>1, OneMoves
  <2>3. CASE p \in Inside
    <3>1. Up' = Up
      BY <2>2, <2>3
    <3> QED BY <2>1, <2>2, <2>3, <3>1, MigrationsAre
  <2>4. CASE p \notin Inside
    <3>1. Inside' = Inside
      BY <2>2, <2>4
    <3>2. p \in Up \/ Up' = Up
      BY <2>2
    <3> QED BY <2>1, <2>2, <3>1, <3>2, MigrationsAre
  <2> QED BY <2>3, <2>4
<1> QED BY <1>1, <1>2, <1>3, <1>4, <1>5, <1>6 DEF Step

LEMMA StepMigrates ==
    StartupIInv /\ [Next]_vars => [Migrations!MigrationNext]_Migrations!migrationVars
<1> SUFFICES ASSUME StartupIInv, [Next]_vars
             PROVE  Migrations!MigrationNext \/ UNCHANGED Migrations!migrationVars
  OBVIOUS
<1>1. CASE UNCHANGED <<pc, sess, schema, unguarded>>
  BY <1>1 DEF Migrations!migrationVars, Migrating
<1> QED BY <1>1, ProcessMigrates DEF Next, CloseIdle, vars

(* The loop over pooled connections implements the ledger of migrations:   *)
(* versions come one by one, from the one process inside unless a right    *)
(* was lost, and who is up has them all (ImplementsMigrations).            *)
THEOREM StartsMigrate == Spec => ImplementsMigrations
<1>1. Init => Migrations!MigrationInit
  BY DEF Init, Migrating, Migrations!MigrationInit
<1> QED
  BY StartupStarts, StartupSteps, StepMigrates, <1>1, PTL
     DEF Spec, ImplementsMigrations, Migrations!MigrationSpec

-----------------------------------------------------------------------------
(* What one more turn of the loop adds to the moves.                       *)
LEMMA TurnCosts ==
    ASSUME NEW n \in Nat, NEW k \in Nat
    PROVE  /\ n * k \in Nat
           /\ n > 0 => (n - 1) * k = n * k - k
OBVIOUS

LEMMA TurnMoves ==
    ASSUME StartupTypeOK, NEW p \in Proc
    PROVE  /\ MovesOfTurn(p) \in Nat
           /\ (MaxTries - attempt[p]) * (Versions + 5) \in Nat
           /\ MovesLeft(p) \in Nat
<1>1. Versions \in Nat /\ Versions + 5 \in Nat /\ MaxTries - attempt[p] \in Nat
  BY StartupAssumption DEF StartupTypeOK
<1>2. Versions - seen[p] \in Nat
  BY StartupAssumption DEF StartupTypeOK
<1>3. MovesOfTurn(p) \in Nat
  <2>1. pc[p] \in {"lock", "wait", "read", "apply", "unlock", "up", "dead"}
    BY DEF StartupTypeOK
  <2> QED BY <1>1, <1>2, <2>1 DEF MovesOfTurn
<1>4. (MaxTries - attempt[p]) * (Versions + 5) \in Nat
  BY <1>1, TurnCosts
<1> QED BY <1>3, <1>4 DEF MovesLeft

(* Of a process that lives: it has made a move and has fewer left, or it   *)
(* has stayed where it was.                                                *)
Wears(p) ==
    \/ MovesLeft(p)' < MovesLeft(p)
    \/ /\ MovesLeft(p)' = MovesLeft(p)
       /\ pc'[p] = pc[p] /\ seen'[p] = seen[p] /\ attempt'[p] = attempt[p]

LEMMA WaitingProcess ==
    ASSUME NEW p \in Proc,
           pc'[p] = pc[p], seen'[p] = seen[p], attempt'[p] = attempt[p]
    PROVE  Wears(p)
BY DEF Wears, MovesLeft, MovesOfTurn

(* A move within a turn, or to the end of the loop.                        *)
LEMMA MoveInTurn ==
    ASSUME StartupTypeOK, StartupTypeOK', NEW p \in Proc, attempt'[p] = attempt[p],
           MovesOfTurn(p)' < MovesOfTurn(p)
    PROVE  Wears(p)
<1> DEFINE Turns == (MaxTries - attempt[p]) * (Versions + 5)
<1>1. Turns \in Nat /\ MovesOfTurn(p) \in Nat
  BY TurnMoves
<1>2. MovesOfTurn(p)' \in Nat
  <2>1. Versions \in Nat /\ seen'[p] \in 0 .. Versions
        /\ pc'[p] \in {"lock", "wait", "read", "apply", "unlock", "up", "dead"}
    BY StartupAssumption DEF StartupTypeOK
  <2> QED BY <2>1 DEF MovesOfTurn
<1>3. MovesLeft(p) = Turns + MovesOfTurn(p) /\ MovesLeft(p)' = Turns + MovesOfTurn(p)'
  BY DEF MovesLeft
<1> HIDE DEF Turns
<1> QED BY <1>1, <1>2, <1>3 DEF Wears

LEMMA OwnMove ==
    ASSUME StartupIInv, StartupTypeOK', NEW p \in Proc,
           Step(p) \/ Granted(p) \/ Crash(p) \/ LoseSession(p), pc[p] # "dead"
    PROVE  Wears(p)
<1> USE DEF GoTo
<1>1. /\ Versions \in Nat /\ seen[p] \in 0 .. Versions /\ seen'[p] \in 0 .. Versions
      /\ attempt \in [Proc -> 1 .. MaxTries] /\ MaxTries \in Nat
      /\ pc \in [Proc -> {"lock", "wait", "read", "apply", "unlock", "up", "dead"}]
      /\ seen \in [Proc -> 0 .. Versions]
  BY StartupAssumption DEF StartupIInv, StartupTypeOK
<1>2. CASE Lock(p) \/ Granted(p) \/ LockFails(p) \/ Crash(p)
  <2>1. /\ attempt' = attempt
        /\ \/ pc[p] = "lock" /\ pc'[p] = "wait"
           \/ pc[p] \in {"lock", "wait"} /\ pc'[p] = "read"
           \/ pc'[p] = "dead"
    BY <1>1, <1>2 DEF Lock, Granted, LockFails, Crash
  <2>2. MovesOfTurn(p)' < MovesOfTurn(p)
    BY <1>1, <2>1 DEF MovesOfTurn
  <2> QED BY <2>1, <2>2, MoveInTurn DEF StartupIInv
<1>3. CASE ReadVersions(p) \/ ApplyVersion(p) \/ AllApplied(p)
  <2>1. /\ attempt' = attempt
        /\ \/ pc[p] = "read" /\ pc'[p] = "apply"
           \/ pc[p] = "apply" /\ pc'[p] = "apply" /\ seen'[p] = seen[p] + 1
           \/ pc[p] \in {"read", "apply"} /\ pc'[p] = "unlock"
    BY <1>1, <1>3 DEF ReadVersions, ApplyVersion, AllApplied, MigrateReturns
  <2>2. MovesOfTurn(p)' < MovesOfTurn(p)
    BY <1>1, <2>1 DEF MovesOfTurn
  <2> QED BY <2>1, <2>2, MoveInTurn DEF StartupIInv
<1>4. CASE UnlockAndDecide(p)
  <2>1. CASE attempt'[p] = attempt[p] /\ pc'[p] \in {"up", "dead"}
    <3>1. MovesOfTurn(p)' < MovesOfTurn(p)
      BY <1>1, <1>4, <2>1 DEF UnlockAndDecide, MovesOfTurn
    <3> QED BY <2>1, <3>1, MoveInTurn DEF StartupIInv
  <2>2. CASE attempt[p] < MaxTries /\ attempt'[p] = attempt[p] + 1 /\ pc'[p] = "lock"
    <3> DEFINE n == MaxTries - attempt[p]
    <3>1. n \in Nat /\ n > 0 /\ MaxTries - attempt'[p] = n - 1 /\ Versions + 5 \in Nat
      BY <1>1, <2>2
    <3>2. n * (Versions + 5) \in Nat
          /\ (n - 1) * (Versions + 5) = n * (Versions + 5) - (Versions + 5)
      BY <3>1, TurnCosts
    <3>3. MovesOfTurn(p) = 2 /\ MovesOfTurn(p)' = Versions + 6
      BY <1>4, <2>2 DEF UnlockAndDecide, MovesOfTurn
    <3>4. /\ MovesLeft(p) = n * (Versions + 5) + 2
          /\ MovesLeft(p)' = (n - 1) * (Versions + 5) + (Versions + 6)
      BY <3>1, <3>3 DEF MovesLeft
    <3> HIDE DEF n
    <3> QED BY <1>1, <3>1, <3>2, <3>4 DEF Wears
  <2> QED BY <1>1, <1>4, <2>1, <2>2 DEF UnlockAndDecide, Decide
<1>5. CASE LoseSession(p)
  BY <1>5, WaitingProcess DEF LoseSession
<1> QED BY <1>2, <1>3, <1>4, <1>5 DEF Step

LEMMA StartupWears ==
    ASSUME StartupIInv, StartupTypeOK', Next, NEW q \in Proc, pc[q] # "dead"
    PROVE  MovesLeft(q)' >= 0 /\ Wears(q)
<1>1. MovesLeft(q)' >= 0
  <2>1. attempt'[q] \in 1 .. MaxTries /\ seen'[q] \in 0 .. Versions
        /\ pc'[q] \in {"lock", "wait", "read", "apply", "unlock", "up", "dead"}
        /\ Versions \in Nat /\ MaxTries \in Nat
    BY StartupAssumption DEF StartupTypeOK
  <2>2. MovesOfTurn(q)' \in Nat
    BY <2>1 DEF MovesOfTurn
  <2>3. (MaxTries - attempt'[q]) * (Versions + 5) \in Nat
    <3>1. MaxTries - attempt'[q] \in Nat /\ Versions + 5 \in Nat
      BY <2>1
    <3> QED BY <3>1, TurnCosts
  <2> QED BY <2>2, <2>3 DEF MovesLeft
<1>2. ASSUME NEW p \in Proc, p # q,
             Step(p) \/ Granted(p) \/ Crash(p) \/ Restart(p) \/ LoseSession(p)
      PROVE  Wears(q)
  <2>1. pc'[q] = pc[q] /\ seen'[q] = seen[q] /\ attempt'[q] = attempt[q]
    BY <1>2
       DEF StartupIInv, StartupTypeOK, GoTo, Step, Lock, Granted, LockFails, ReadVersions,
         ApplyVersion, AllApplied, MigrateReturns, UnlockAndDecide, Decide, Crash, Restart,
         LoseSession
  <2> QED BY <2>1, WaitingProcess
<1>3. ASSUME CloseIdle PROVE Wears(q)
  BY <1>3, WaitingProcess DEF CloseIdle
<1>4. ASSUME Step(q) \/ Granted(q) \/ Crash(q) \/ Restart(q) \/ LoseSession(q)
      PROVE  Wears(q)
  <2>1. ~ Restart(q)
    BY DEF Restart
  <2> QED BY <1>4, <2>1, OwnMove
<1>5. Wears(q)
  BY <1>2, <1>3, <1>4 DEF Next
<1> QED BY <1>1, <1>5

(* A start makes a bounded number of moves, for any number of processes    *)
(* that migrate at the same time, lock calls that fail and sessions that   *)
(* are lost (StartsWearOut).                                               *)
THEOREM StartsAreFinite == Spec => StartsWearOut
<1> DEFINE Worn(p) == pc[p] # "dead" =>
        /\ MovesLeft(p)' >= 0
        /\ \/ MovesLeft(p)' < MovesLeft(p)
           \/ /\ MovesLeft(p)' = MovesLeft(p)
              /\ pc'[p] = pc[p] /\ seen'[p] = seen[p] /\ attempt'[p] = attempt[p]
<1>1. StartupIInv /\ StartupIInv' /\ [Next]_vars => [\A p \in Proc : Worn(p)]_vars
  BY StartupWears DEF StartupIInv, Wears
<1> QED BY StartupStarts, StartupSteps, <1>1, PTL DEF Spec, StartsWearOut
=============================================================================
