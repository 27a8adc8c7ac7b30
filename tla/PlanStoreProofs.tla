--------------------------- MODULE PlanStoreProofs ---------------------------
(***************************************************************************)
(* What PlanStore guarantees for any number of processes, writes and       *)
(* crashes, and whatever the file system refuses.  The lock holds unless a *)
(* process that reclaims one is overtaken between its look and its rename; *)
(* then it says which write has lost it.  The files are proved about until *)
(* that happens for the first time.                                        *)
(*                                                                         *)
(* The plans in the files form a chain: each write adds to the newest one  *)
(* it finds.  The newest plan of all is therefore a superset of the other  *)
(* candidates, and so is the newest outside the temporary file among those *)
(* a crash in the middle of the next write leaves.                         *)
(***************************************************************************)
EXTENDS PlanStore, FiniteSetTheorems, WellFoundedInduction, TLAPS

-----------------------------------------------------------------------------
(* The inductive invariant.                                                *)

(* Whoever is inside a write, or about to be, holds the lock or was robbed *)
(* of it.                                                                  *)
LockOwners ==
  \A w \in Writers :
    /\ stage[w] \in Inside \cup {"opened"} => lock.owner = w \/ write[w] \in robbed
    /\ stage[w] \in Inside /\ lock.owner = w => lock.complete
    /\ stage[w] = "opened" /\ lock.owner = w => ~lock.old /\ ~lock.complete

(* A lock that is looked at to be moved away is a dead process's.          *)
LookedDead ==
  /\ lock.old /\ ~lock.complete => stage[lock.owner] = "dead"
  /\ \A w \in Writers : stage[w] = "reclaiming" =>
       looked[w] \in Writers /\ stage[looked[w]] = "dead"

AtWork == \A w \in Writers : stage[w] \notin {"idle", "dead"} => write[w] \in Writes

LocksInv == TypeOK /\ LockOwners /\ LookedDead /\ AtWork

(* Until a write is robbed, whoever is inside holds the lock.              *)
HoldersOwnLock ==
  \A w \in Writers :
    /\ stage[w] \in Inside \cup {"opened"} => lock.owner = w
    /\ stage[w] \in Inside => lock.complete
    /\ stage[w] = "opened" => ~lock.old /\ ~lock.complete

Above(p, files)  == \A q \in files : q \subseteq p
HasNewest(files) == files # {} => \E p \in files : Above(p, files)

(* What is left when the temporary file is lost.                           *)
Durable == plan \cup backups

FilesInv ==
  /\ HasNewest(Candidates)
  /\ HasNewest(Durable)
  /\ acked # {} => \E p \in Durable : acked \subseteq p

(* What the write that is under way has made of the files so far.          *)
WriteInv ==
  \A w \in Writers :
    /\ stage[w] = "read" => Above(seen[w], Candidates)
    /\ stage[w] \in {"flushed", "aside"} =>
         temp # {} /\ \A p \in temp : Above(p, Candidates) /\ write[w] \in p
    /\ stage[w] = "replaced" =>
         plan # {} /\ \A p \in plan : Above(p, Candidates) /\ write[w] \in p
    /\ stage[w] \notin {"idle", "dead"} => write[w] \in Writes
    /\ written[w] => stage[w] \in {"releasing", "dead"}
    /\ written[w] /\ stage[w] = "releasing" =>
         \E p \in Durable : acked \cup {write[w]} \subseteq p

StoreInv == TypeOK /\ HoldersOwnLock /\ FilesInv /\ WriteInv
-----------------------------------------------------------------------------
(* Where the newest candidate contains the others, it is what is read.     *)
LEMMA LatestIsNewest ==
  ASSUME TypeOK, HasNewest(Candidates), Candidates # {}
  PROVE  Latest \in Candidates /\ Above(Latest, Candidates)
<1>1. \A p \in Candidates : IsFiniteSet(p) /\ Cardinality(p) \in Nat
  <2>1. IsFiniteSet(Writes)
    BY FS_Interval, StoreAssumption DEF Writes
  <2>2. \A p \in Candidates : p \in SUBSET Writes
    BY DEF TypeOK, Candidates, Plans
  <2>. QED BY <2>1, <2>2, FS_Subset, FS_CardinalityType
<1>2. PICK top \in Candidates : Above(top, Candidates)
  BY DEF HasNewest
<1>3. \A q \in Candidates : Cardinality(q) <= Cardinality(top)
  BY <1>1, <1>2, FS_Subset DEF Above
<1>4. /\ Latest \in Candidates
      /\ \A q \in Candidates : Cardinality(q) <= Cardinality(Latest)
  BY <1>2, <1>3 DEF Latest
<1>5. Cardinality(top) = Cardinality(Latest)
  BY <1>1, <1>3, <1>4
<1>6. Latest \in SUBSET top
  BY <1>2, <1>4 DEF Above
<1>7. top = Latest
  BY <1>1, <1>2, <1>5, <1>6, FS_Subset
<1>. QED BY <1>2, <1>4, <1>7

(* Among finitely many revisions one is the highest.                       *)
LEMMA HighestRevision ==
  ASSUME TypeOK, Candidates # {}
  PROVE  \E p \in Candidates : \A q \in Candidates : Cardinality(q) <= Cardinality(p)
<1>1. IsFiniteSet(Writes) /\ Cardinality(Writes) = MaxWrites
  BY FS_Interval, StoreAssumption DEF Writes
<1>2. \A p \in Candidates : Cardinality(p) \in Nat /\ Cardinality(p) <= MaxWrites
  <2>1. \A p \in Candidates : p \in SUBSET Writes
    BY DEF TypeOK, Candidates, Plans
  <2>. QED BY <1>1, <2>1, FS_Subset, FS_CardinalityType
<1> DEFINE short(p) == MaxWrites - Cardinality(p)
           T == {short(p) : p \in Candidates}
<1>3. T \subseteq Nat /\ T # {}
  BY <1>2, StoreAssumption
<1>4. \E x \in T : \A y \in T : <<y, x>> \notin OpToRel(<, Nat)
  <2> HIDE DEF T
  <2>. QED BY <1>3, WFMin, NatLessThanWellFounded
<1>5. PICK p \in Candidates : \A q \in Candidates : <<short(q), short(p)>> \notin OpToRel(<, Nat)
  BY <1>4
<1>6. ASSUME NEW q \in Candidates PROVE Cardinality(q) <= Cardinality(p)
  <2>1. short(p) \in Nat /\ short(q) \in Nat
    BY <1>3
  <2>2. ~(short(q) < short(p))
    <3> HIDE DEF short
    <3>. QED BY <1>5, <2>1 DEF OpToRel
  <2>. QED BY <1>2, <2>2, StoreAssumption
<1>. QED BY <1>6

(* What is read is a set of writes.                                        *)
LEMMA LatestPlan == TypeOK => Latest \in Plans
<1>1. CASE Candidates = {}
  BY <1>1 DEF Latest, Plans
<1>2. ASSUME TypeOK, Candidates # {} PROVE Latest \in Plans
  <2>1. Latest \in Candidates
    BY <1>2, HighestRevision DEF Latest
  <2>. QED BY <1>2, <2>1 DEF TypeOK, Candidates, Plans
<1>. QED BY <1>1, <1>2

(* Where the candidates form a chain it contains all of them.              *)
LEMMA LatestTyped ==
  ASSUME TypeOK, HasNewest(Candidates)
  PROVE  Latest \in Plans /\ Above(Latest, Candidates)
<1>1. CASE Candidates = {}
  BY <1>1 DEF Latest, Plans, Above
<1>2. CASE Candidates # {}
  BY <1>2, LatestIsNewest, LatestPlan
<1>. QED BY <1>1, <1>2

(* Holding the lock excludes everybody else.                               *)
LEMMA HoldersExclude ==
  ASSUME HoldersOwnLock, NEW v \in Writers, NEW w \in Writers, v # w,
         stage[v] \in Inside \cup {"opened"}
  PROVE  stage[w] \notin Inside \cup {"opened"}
BY DEF HoldersOwnLock

-----------------------------------------------------------------------------
(* Every step keeps the types.                                             *)
LEMMA TypeStep ==
  ASSUME LocksInv, [Next]_vars
  PROVE  TypeOK'
<1>a. TypeOK
  BY DEF LocksInv
<1>. USE DEF TypeOK, Goes, Stages, Waiting, Inside, lockPast
<1>1. ASSUME NEW w \in Writers, Request(w) PROVE TypeOK'
  BY <1>a, <1>1, StoreAssumption DEF Request, fileVars, Writes
<1>2. ASSUME NEW w \in Writers, OpenLock(w) PROVE TypeOK'
  BY <1>a, <1>2 DEF OpenLock, fileVars, procVars, history, Locks
<1>3. ASSUME NEW w \in Writers, FillLock(w) PROVE TypeOK'
  <2>1. lock.owner = w => lock \in Locks
    BY <1>a, <1>3, StoreAssumption DEF FillLock, NoLock
  <2>2. lock' \in Locks \cup {NoLock}
    BY <1>a, <1>3, <2>1 DEF FillLock, Locks
  <2>. QED BY <1>a, <1>3, <2>2 DEF FillLock, fileVars, procVars, history
<1>4. ASSUME NEW w \in Writers, Reclaim(w) PROVE TypeOK'
  <2>1. lock.owner \in Writers
    BY <1>a, <1>4 DEF Reclaim, Stale, Locks
  <2>. QED BY <1>a, <1>4, <2>1 DEF Reclaim, fileVars, procVars, history
<1>5. ASSUME NEW w \in Writers, Quarantine(w) PROVE TypeOK'
  <2>1. Robs(w) \subseteq Writes
    BY DEF LocksInv, AtWork, Robs
  <2>. QED BY <1>a, <1>5, <2>1 DEF Quarantine, TimesOut, fileVars, history
<1>6. ASSUME NEW w \in Writers, GiveUp(w) PROVE TypeOK'
  BY <1>a, <1>6 DEF GiveUp, TimesOut, fileVars, history
<1>7. ASSUME NEW w \in Writers, ReadPlan(w) PROVE TypeOK'
  BY <1>a, <1>7, LatestPlan DEF ReadPlan, fileVars, history
<1>8. ASSUME NEW w \in Writers, Flush(w) PROVE TypeOK'
  <2>1. write[w] \in Writes
    BY <1>8 DEF Flush, LocksInv, AtWork
  <2>. QED BY <1>a, <1>8, <2>1 DEF Flush, Flushed, Plans, procVars, history
<1>9. ASSUME NEW w \in Writers, Replace(w) \/ HandOff(w) PROVE TypeOK'
  BY <1>a, <1>9 DEF Replace, HandOff, Renamed, procVars, history
<1>10. ASSUME NEW w \in Writers, SetAside(w) PROVE TypeOK'
  BY <1>a, <1>10 DEF SetAside, SetAsideAsBackup, procVars, history
<1>11. ASSUME NEW w \in Writers, CleanBackups(w) PROVE TypeOK'
  BY <1>a, <1>11 DEF CleanBackups, history
<1>12. ASSUME NEW w \in Writers, Release(w) PROVE TypeOK'
  <2>1. write[w] \in Writes
    BY <1>12 DEF Release, LocksInv, AtWork
  <2>. QED BY <1>a, <1>12, <2>1 DEF Release, fileVars, Plans
<1>13. ASSUME NEW w \in Writers, Crash(w) PROVE TypeOK'
  BY <1>a, <1>13, StoreAssumption DEF Crash, procVars
<1>14. ASSUME Age PROVE TypeOK'
  BY <1>a, <1>14 DEF Age, Locks, fileVars, procVars, history
<1>15. ASSUME UNCHANGED vars PROVE TypeOK'
  BY <1>a, <1>15 DEF vars
<1>. QED
  BY <1>1, <1>2, <1>3, <1>4, <1>5, <1>6, <1>7, <1>8, <1>9, <1>10, <1>11, <1>12, <1>13,
     <1>14, <1>15 DEF Next

(* What a step does to the requests under way.                             *)
LEMMA AtWorkStep ==
  ASSUME LocksInv, [Next]_vars
  PROVE  AtWork' /\ robbed \subseteq robbed'
<1>. USE DEF LocksInv, TypeOK, AtWork, Goes, lockPast
<1>1. ASSUME NEW w \in Writers, Request(w) PROVE AtWork' /\ robbed \subseteq robbed'
  BY <1>1, StoreAssumption DEF Request, Writes
<1>2. ASSUME NEW w \in Writers, OpenLock(w) \/ FillLock(w) \/ Reclaim(w)
      PROVE AtWork' /\ robbed \subseteq robbed'
  BY <1>2 DEF OpenLock, FillLock, Reclaim, procVars
<1>3. ASSUME NEW w \in Writers, Quarantine(w) \/ GiveUp(w) PROVE AtWork' /\ robbed \subseteq robbed'
  BY <1>3 DEF Quarantine, GiveUp, TimesOut
<1>4. ASSUME NEW w \in Writers, ReadPlan(w) \/ Flush(w) \/ SetAside(w) \/ CleanBackups(w)
      PROVE AtWork' /\ robbed \subseteq robbed'
  BY <1>4 DEF ReadPlan, Flush, SetAside, CleanBackups, procVars
<1>5. ASSUME NEW w \in Writers, Replace(w) \/ HandOff(w) PROVE AtWork' /\ robbed \subseteq robbed'
  BY <1>5 DEF Replace, HandOff, Renamed, procVars
<1>6. ASSUME NEW w \in Writers, Release(w) \/ Crash(w) PROVE AtWork' /\ robbed \subseteq robbed'
  BY <1>6 DEF Release, Crash, procVars
<1>7. ASSUME Age \/ UNCHANGED vars PROVE AtWork' /\ robbed \subseteq robbed'
  BY <1>7 DEF Age, vars, procVars
<1>. QED BY <1>1, <1>2, <1>3, <1>4, <1>5, <1>6, <1>7 DEF Next

(* Every step leaves the lock to who is inside a write, or robs it of it.  *)
LEMMA LockStep ==
  ASSUME LocksInv, [Next]_vars
  PROVE  LockOwners'
<1>a. TypeOK /\ LockOwners /\ LookedDead /\ NoWriter \notin Writers
  BY StoreAssumption DEF LocksInv
<1>. USE DEF TypeOK, LockOwners, Goes, Inside, lockPast
<1>1. ASSUME NEW w \in Writers, Request(w) PROVE LockOwners'
  BY <1>a, <1>1 DEF Request
<1>2. ASSUME NEW w \in Writers, OpenLock(w) PROVE LockOwners'
  <2>1. lock.owner = NoWriter /\ lock' = [owner |-> w, complete |-> FALSE, old |-> FALSE]
    BY <1>2 DEF OpenLock, NoLock
  <2>. QED BY <1>a, <1>2, <2>1 DEF OpenLock, procVars
<1>3. ASSUME NEW w \in Writers, FillLock(w) PROVE LockOwners'
  <2>1. lock'.owner = lock.owner /\ (lock.owner = w => lock'.complete)
    BY <1>a, <1>3 DEF FillLock, Locks, NoLock
  <2>2. \A v \in Writers : v # w => stage'[v] = stage[v] /\ (lock.owner = v => lock' = lock)
    BY <1>a, <1>3 DEF FillLock
  <2>. QED BY <1>a, <1>3, <2>1, <2>2 DEF FillLock, procVars
<1>4. ASSUME NEW w \in Writers, Reclaim(w) PROVE LockOwners'
  BY <1>a, <1>4 DEF Reclaim, procVars
<1>5. ASSUME NEW w \in Writers, Quarantine(w) PROVE LockOwners'
  <2>1. stage[looked[w]] = "dead" /\ stage[w] = "reclaiming"
    BY <1>a, <1>5 DEF LookedDead, Quarantine
  <2>2. lock'.owner = NoWriter
    BY <1>5 DEF Quarantine, NoLock
  <2>3. ASSUME NEW v \in Writers, stage'[v] \in Inside \cup {"opened"} PROVE write'[v] \in robbed'
    <3>1. v # w /\ stage[v] \in Inside \cup {"opened"} /\ write'[v] = write[v]
      BY <1>a, <1>5, <2>1, <2>3 DEF Quarantine, TimesOut
    <3>2. lock.owner = v => write[v] \in Robs(w)
      BY <2>1, <3>1 DEF Robs
    <3>. QED BY <1>a, <1>5, <3>1, <3>2 DEF Quarantine
  <2>. QED BY <1>a, <2>2, <2>3
<1>6. ASSUME NEW w \in Writers, GiveUp(w) PROVE LockOwners'
  BY <1>a, <1>6 DEF GiveUp, TimesOut
<1>7. ASSUME NEW w \in Writers,
             ReadPlan(w) \/ Flush(w) \/ Replace(w) \/ HandOff(w) \/ SetAside(w) \/ CleanBackups(w)
      PROVE  LockOwners'
  BY <1>a, <1>7 DEF ReadPlan, Flush, Replace, HandOff, Renamed, SetAside, CleanBackups, procVars
<1>8. ASSUME NEW w \in Writers, Release(w) PROVE LockOwners'
  <2>1. lock' = lock \/ (lock.owner = w /\ lock'.owner = NoWriter)
    BY <1>8 DEF Release, NoLock
  <2>2. stage' = [stage EXCEPT ![w] = "idle"] /\ robbed' = robbed
        /\ \A v \in Writers : v # w => write'[v] = write[v]
    BY <1>a, <1>8 DEF Release
  <2>. QED BY <1>a, <2>1, <2>2
<1>9. ASSUME NEW w \in Writers, Crash(w) PROVE LockOwners'
  BY <1>a, <1>9 DEF Crash, procVars
<1>10. ASSUME Age PROVE LockOwners'
  <2>1. lock \in Locks /\ lock'.owner = lock.owner /\ lock'.complete = lock.complete
    BY <1>a, <1>10 DEF Age, Locks
  <2>2. stage' = stage /\ write' = write /\ robbed' = robbed /\ (lock.complete \/ ~Alive(lock.owner))
    BY <1>10 DEF Age, procVars
  <2>. QED BY <1>a, <2>1, <2>2 DEF Alive
<1>11. ASSUME UNCHANGED vars PROVE LockOwners'
  BY <1>a, <1>11 DEF vars
<1>. QED
  BY <1>1, <1>2, <1>3, <1>4, <1>5, <1>6, <1>7, <1>8, <1>9, <1>10, <1>11 DEF Next

(* The dead stay dead.                                                     *)
LEMMA DeadStay ==
  ASSUME LocksInv, [Next]_vars, NEW v \in Writers, stage[v] = "dead"
  PROVE  stage'[v] = "dead"
<1>1. stage \in [Writers -> Stages]
  BY DEF LocksInv, TypeOK
<1>2. ASSUME NEW w \in Writers, NEW to, Goes(w, to), stage[w] # "dead" PROVE stage'[v] = "dead"
  BY <1>1, <1>2 DEF Goes
<1>3. ASSUME NEW w \in Writers,
             \/ Request(w) \/ OpenLock(w) \/ FillLock(w) \/ Reclaim(w) \/ Quarantine(w) \/ GiveUp(w)
             \/ ReadPlan(w) \/ Flush(w) \/ Replace(w) \/ SetAside(w) \/ HandOff(w)
             \/ CleanBackups(w) \/ Release(w) \/ Crash(w)
      PROVE  stage'[v] = "dead"
  <2>1. stage[w] # "dead"
    BY <1>3 DEF Request, OpenLock, FillLock, Reclaim, Quarantine, GiveUp, ReadPlan, Flush, Replace,
                SetAside, HandOff, CleanBackups, Release, Crash, Alive
  <2>2. \E to : Goes(w, to)
    BY <1>3 DEF Request, OpenLock, FillLock, Reclaim, Quarantine, GiveUp, TimesOut, ReadPlan, Flush,
                Replace, SetAside, HandOff, Renamed, CleanBackups, Release, Crash
  <2>. QED BY <1>2, <2>1, <2>2
<1>4. CASE Age \/ UNCHANGED vars
  BY <1>4 DEF Age, vars
<1>. QED BY <1>3, <1>4 DEF Next

(* What is looked at stays a dead process's lock.                          *)
LEMMA LookedStep ==
  ASSUME LocksInv, [Next]_vars
  PROVE  LookedDead'
<1>a. TypeOK /\ LockOwners /\ LookedDead /\ NoWriter \notin Writers
  BY StoreAssumption DEF LocksInv
<1>b. lock # NoLock => lock.owner \in Writers
  BY <1>a DEF TypeOK, Locks
<1>1. ASSUME lock' \in {lock, NoLock} PROVE (lock.old /\ ~lock.complete => stage[lock.owner] = "dead")'
  <2>1. CASE lock' = NoLock
    BY <2>1 DEF NoLock
  <2>2. CASE lock' = lock /\ lock # NoLock
    BY <1>a, <1>b, <2>2, DeadStay DEF LookedDead
  <2>. QED BY <1>1, <2>1, <2>2
<1>2. ASSUME looked' = looked, \A w \in Writers : stage'[w] = "reclaiming" => stage[w] = "reclaiming"
      PROVE  \A w \in Writers : (stage[w] = "reclaiming" =>
               looked[w] \in Writers /\ stage[looked[w]] = "dead")'
  BY <1>a, <1>2, DeadStay DEF LookedDead
<1>. USE DEF TypeOK, LookedDead, Goes, lockPast
<1>3. ASSUME NEW w \in Writers, Request(w) \/ GiveUp(w) \/ ReadPlan(w) \/ Flush(w) \/ Replace(w)
               \/ HandOff(w) \/ SetAside(w) \/ CleanBackups(w) \/ Release(w)
      PROVE  LookedDead'
  <2>1. lock' \in {lock, NoLock} /\ looked' = looked
    BY <1>3 DEF Request, GiveUp, ReadPlan, Flush, Replace, HandOff, SetAside, CleanBackups, Release
  <2>2. \A v \in Writers : stage'[v] = "reclaiming" => stage[v] = "reclaiming"
    BY <1>a, <1>3 DEF Request, GiveUp, TimesOut, ReadPlan, Flush, Replace, HandOff, Renamed, SetAside,
                      CleanBackups, Release
  <2>. QED BY <1>1, <1>2, <2>1, <2>2
<1>4. ASSUME NEW w \in Writers, OpenLock(w) \/ FillLock(w) PROVE LookedDead'
  <2>1. (lock.old /\ ~lock.complete => stage[lock.owner] = "dead")'
    <3>1. CASE OpenLock(w)
      BY <3>1 DEF OpenLock
    <3>2. CASE FillLock(w) /\ lock.owner = w
      BY <1>a, <3>2 DEF FillLock, Locks, NoLock
    <3>3. CASE FillLock(w) /\ lock.owner # w
      BY <1>1, <3>3 DEF FillLock
    <3>. QED BY <1>4, <3>1, <3>2, <3>3
  <2>2. looked' = looked /\ \A v \in Writers : stage'[v] = "reclaiming" => stage[v] = "reclaiming"
    BY <1>a, <1>4 DEF OpenLock, FillLock
  <2>. QED BY <1>2, <2>1, <2>2
<1>5. ASSUME NEW w \in Writers, Reclaim(w) PROVE LookedDead'
  <2>1. lock.owner \in Writers /\ stage[lock.owner] = "dead"
    BY <1>a, <1>b, <1>5 DEF Reclaim, Stale, Alive
  <2>2. stage'[lock.owner] = "dead"
    BY <2>1, DeadStay
  <2>3. \A v \in Writers : v # w => looked'[v] = looked[v] /\ stage'[v] = stage[v]
    BY <1>a, <1>5 DEF Reclaim
  <2>4. looked'[w] = lock.owner /\ lock' = lock
    BY <1>a, <1>5 DEF Reclaim
  <2>5. ASSUME NEW v \in Writers, stage'[v] = "reclaiming"
        PROVE  looked'[v] \in Writers /\ stage'[looked'[v]] = "dead"
    BY <1>a, <2>1, <2>2, <2>3, <2>4, <2>5, DeadStay
  <2>. QED BY <1>1, <2>4, <2>5
<1>6. ASSUME NEW w \in Writers, Quarantine(w) \/ Crash(w) PROVE LookedDead'
  <2>1. lock' \in {lock, NoLock} /\ stage'[w] # "reclaiming"
    BY <1>a, <1>6 DEF Quarantine, Crash, TimesOut
  <2>2. \A v \in Writers : v # w => looked'[v] = looked[v] /\ stage'[v] = stage[v]
    BY <1>a, <1>6 DEF Quarantine, Crash, TimesOut
  <2>3. ASSUME NEW v \in Writers, stage'[v] = "reclaiming"
        PROVE  looked'[v] \in Writers /\ stage'[looked'[v]] = "dead"
    BY <1>a, <2>1, <2>2, <2>3, DeadStay
  <2>. QED BY <1>1, <2>1, <2>3
<1>7. ASSUME Age PROVE LookedDead'
  <2>1. lock'.owner = lock.owner /\ lock'.complete = lock.complete /\ UNCHANGED <<stage, looked>>
    BY <1>a, <1>7 DEF Age, Locks
  <2>2. lock.complete \/ stage[lock.owner] = "dead"
    BY <1>7 DEF Age, Alive
  <2>. QED BY <1>a, <2>1, <2>2
<1>8. ASSUME UNCHANGED vars PROVE LookedDead'
  BY <1>a, <1>8 DEF vars
<1>. QED BY <1>3, <1>4, <1>5, <1>6, <1>7, <1>8 DEF Next

LEMMA LocksStep == LocksInv /\ [Next]_vars => LocksInv'
BY TypeStep, LockStep, LookedStep, AtWorkStep DEF LocksInv

-----------------------------------------------------------------------------
(* Only one write is under way: what WriteInv says of the others is about  *)
(* processes outside.                                                      *)
OutsideInv(w) ==
  /\ stage[w] \notin {"idle", "dead"} => write[w] \in Writes
  /\ written[w] => stage[w] = "dead"

(* While a process is inside its write, no other is.                       *)
LEMMA OthersOutside ==
  ASSUME StoreInv, NEW v \in Writers, NEW w \in Writers, v # w, stage[v] \in Inside
  PROVE  stage[w] \notin Inside /\ OutsideInv(w)
<1>1. stage[w] \notin Inside
  BY HoldersExclude DEF StoreInv
<1>. QED BY <1>1 DEF StoreInv, WriteInv, OutsideInv, Inside

(* The conjuncts of WriteInv for one process.                              *)
WriteOf(w) ==
  /\ stage[w] = "read" => Above(seen[w], Candidates)
  /\ stage[w] \in {"flushed", "aside"} =>
       temp # {} /\ \A p \in temp : Above(p, Candidates) /\ write[w] \in p
  /\ stage[w] = "replaced" =>
       plan # {} /\ \A p \in plan : Above(p, Candidates) /\ write[w] \in p
  /\ stage[w] \notin {"idle", "dead"} => write[w] \in Writes
  /\ written[w] => stage[w] \in {"releasing", "dead"}
  /\ written[w] /\ stage[w] = "releasing" =>
       \E p \in Durable : acked \cup {write[w]} \subseteq p

(* A step of a process inside a write leaves the others where they are.    *)
LEMMA WriteStepOfOne ==
  ASSUME StoreInv, NEW v \in Writers, stage[v] \in Inside, WriteOf(v)',
         \A w \in Writers : w # v =>
           stage'[w] = stage[w] /\ write'[w] = write[w] /\ written'[w] = written[w]
  PROVE  WriteInv'
<1>1. ASSUME NEW w \in Writers, w # v PROVE WriteOf(w)'
  BY <1>1, OthersOutside DEF OutsideInv, WriteOf, Inside
<1>. QED BY <1>1 DEF WriteInv, WriteOf

(* Steps that leave the files alone and go to no stage WriteInv speaks of. *)
LEMMA WriteStepOutside ==
  ASSUME StoreInv, UNCHANGED <<fileVars, seen, written, acked>>,
         \A w \in Writers :
           \/ stage'[w] = stage[w] /\ write'[w] = write[w]
           \/ /\ stage[w] \in {"idle", "opened"} \cup Waiting
              /\ stage'[w] \in {"opened", "locked"} \cup Waiting /\ write'[w] \in Writes
           \/ stage[w] \in Waiting /\ stage'[w] = "idle"
           \/ stage'[w] = "dead"
  PROVE  WriteInv' /\ FilesInv'
<1>1. FilesInv'
  BY DEF StoreInv, FilesInv, fileVars, HasNewest, Above, Candidates, Durable
<1>2. ASSUME NEW w \in Writers PROVE WriteOf(w)'
  <2>1. WriteOf(w)
    BY DEF StoreInv, WriteInv, WriteOf
  <2>2. Candidates' = Candidates /\ Durable' = Durable
    BY DEF fileVars, Candidates, Durable
  <2>3. CASE stage'[w] = stage[w] /\ write'[w] = write[w]
    BY <2>1, <2>2, <2>3 DEF WriteOf, Above, fileVars
  <2>4. CASE stage'[w] # stage[w] \/ write'[w] # write[w]
    BY <2>1, <2>4 DEF WriteOf, Waiting
  <2>. QED BY <2>3, <2>4
<1>. QED BY <1>1, <1>2 DEF WriteInv, WriteOf

(* Where the newest of a set of files is replaced by one above all of them *)
(* or joined by it, that one is the newest.                                *)
LEMMA NewestOnTop ==
  ASSUME NEW files, NEW p \in files, Above(p, files)
  PROVE  HasNewest(files)
BY DEF HasNewest

-----------------------------------------------------------------------------
(* Every step keeps the chain of plans and the write under way in it.      *)
LEMMA FilesStep ==
  ASSUME StoreInv, [Next]_vars
  PROVE  FilesInv' /\ WriteInv'
<1>a. TypeOK /\ HoldersOwnLock /\ FilesInv /\ WriteInv
  BY DEF StoreInv
<1>b. \A w \in Writers : WriteOf(w)
  BY <1>a DEF WriteInv, WriteOf
<1>1. ASSUME NEW w \in Writers, Request(w) PROVE FilesInv' /\ WriteInv'
  <2>1. requests + 1 \in Writes
    BY <1>a, <1>1, StoreAssumption DEF Request, TypeOK, Writes
  <2>. QED BY <1>a, <1>1, <2>1, WriteStepOutside DEF Request, Goes, TypeOK, fileVars, Waiting
<1>2. ASSUME NEW w \in Writers, OpenLock(w) \/ FillLock(w) \/ Reclaim(w)
      PROVE  FilesInv' /\ WriteInv'
  <2>1. write[w] \in Writes
    BY <1>b, <1>2 DEF OpenLock, FillLock, Reclaim, WriteOf
  <2>. QED BY <1>a, <1>2, <2>1, WriteStepOutside
           DEF OpenLock, FillLock, Reclaim, Goes, TypeOK, fileVars, procVars, history, Waiting
<1>3. ASSUME NEW w \in Writers, Quarantine(w) \/ GiveUp(w) PROVE FilesInv' /\ WriteInv'
  <2>1. write[w] \in Writes
    BY <1>b, <1>3 DEF Quarantine, GiveUp, WriteOf
  <2>. QED BY <1>a, <1>3, <2>1, WriteStepOutside
           DEF Quarantine, GiveUp, TimesOut, Goes, TypeOK, fileVars, history, Waiting
<1>6. ASSUME NEW w \in Writers, ReadPlan(w) PROVE FilesInv' /\ WriteInv'
  <2>1. stage[w] \in Inside /\ write[w] \in Writes /\ ~written[w]
    BY <1>b, <1>6 DEF ReadPlan, WriteOf, Inside
  <2>2. FilesInv' /\ Candidates' = Candidates
    BY <1>a, <1>6 DEF ReadPlan, fileVars, history, FilesInv, HasNewest, Above, Candidates, Durable
  <2>3. Above(Latest, Candidates)
    BY <1>a, LatestTyped DEF FilesInv
  <2>4. WriteOf(w)'
    BY <1>a, <1>6, <2>1, <2>2, <2>3 DEF ReadPlan, WriteOf, Goes, TypeOK, Above
  <2>. QED BY <1>a, <1>6, <2>1, <2>2, <2>4, WriteStepOfOne DEF ReadPlan, Goes, TypeOK
<1>7. ASSUME NEW w \in Writers, Flush(w) PROVE FilesInv' /\ WriteInv'
  <2>1. stage[w] \in Inside /\ write[w] \in Writes /\ ~written[w] /\ Above(seen[w], Candidates)
    BY <1>b, <1>7 DEF Flush, WriteOf, Inside
  <2>. DEFINE new == seen[w] \cup {write[w]}
  <2>2. /\ temp' = {new} /\ Durable' = Durable /\ Candidates' = Durable \cup {new}
        /\ acked' = acked /\ write' = write /\ written' = written
    BY <1>7 DEF Flush, Flushed, procVars, history, Durable, Candidates
  <2>3. Above(new, Candidates')
    BY <2>1, <2>2 DEF Above, Durable, Candidates
  <2>4. FilesInv'
    <3>1. HasNewest(Candidates')
      BY <2>2, <2>3, NewestOnTop
    <3>2. HasNewest(Candidates)' /\ HasNewest(Durable)'
      BY <1>a, <2>2, <3>1 DEF FilesInv, HasNewest, Above
    <3>. QED BY <1>a, <2>2, <3>2 DEF FilesInv
  <2>5. WriteOf(w)'
    BY <1>a, <1>7, <2>1, <2>2, <2>3 DEF Flush, WriteOf, Goes, TypeOK, Above
  <2>. QED BY <1>a, <1>7, <2>1, <2>2, <2>4, <2>5, WriteStepOfOne DEF Flush, Goes, TypeOK
<1>8. ASSUME NEW w \in Writers, Renamed(w), stage[w] \in {"flushed", "aside"},
             UNCHANGED <<backups, procVars, history>>
      PROVE  FilesInv' /\ WriteInv'
  <2>1. /\ stage[w] \in Inside /\ write[w] \in Writes /\ ~written[w]
        /\ temp # {} /\ \A p \in temp : Above(p, Candidates) /\ write[w] \in p
    BY <1>b, <1>8 DEF WriteOf, Inside
  <2>2. /\ plan' = temp /\ temp' = {} /\ stage' = [stage EXCEPT ![w] = "replaced"]
        /\ acked' = acked /\ write' = write /\ written' = written
    BY <1>8, <2>1 DEF Renamed, Goes, procVars, history
  <2>3. PICK p \in temp : Above(p, Candidates) /\ write[w] \in p
    BY <2>1
  <2>4. Candidates' = Durable' /\ Durable' \subseteq Candidates /\ p \in Durable'
    BY <1>8, <2>2 DEF Candidates, Durable
  <2>5. Above(p, Durable')
    BY <2>3, <2>4 DEF Above
  <2>6. acked \subseteq p
    BY <1>a, <2>3 DEF FilesInv, Durable, Candidates, Above
  <2>7. FilesInv'
    BY <2>2, <2>4, <2>5, <2>6, NewestOnTop DEF FilesInv, HasNewest, Above
  <2>8. \A q \in plan' : Above(q, Candidates)' /\ write[w] \in q
    BY <2>1, <2>2, <2>4 DEF Above
  <2>9. WriteOf(w)'
    BY <1>a, <2>1, <2>2, <2>8 DEF WriteOf, TypeOK
  <2>. QED BY <1>a, <2>1, <2>2, <2>7, <2>9, WriteStepOfOne DEF TypeOK
<1>9. ASSUME NEW w \in Writers, Replace(w) PROVE FilesInv' /\ WriteInv'
  BY <1>8, <1>9 DEF Replace
<1>10. ASSUME NEW w \in Writers, HandOff(w) PROVE FilesInv' /\ WriteInv'
  <2>1. CASE Renamed(w)
    BY <1>8, <1>10, <2>1 DEF HandOff
  <2>2. CASE Goes(w, "releasing") /\ UNCHANGED <<plan, temp>>
    <3>1. stage[w] \in Inside /\ write[w] \in Writes /\ ~written[w]
      BY <1>b, <1>10 DEF HandOff, WriteOf, Inside
    <3>2. FilesInv'
      BY <1>a, <1>10, <2>2
      DEF HandOff, history, FilesInv, HasNewest, Above, Candidates, Durable
    <3>3. WriteOf(w)'
      BY <1>a, <1>10, <2>2, <3>1 DEF HandOff, Goes, procVars, TypeOK, WriteOf
    <3>. QED BY <1>a, <1>10, <2>2, <3>1, <3>2, <3>3, WriteStepOfOne
             DEF HandOff, Goes, procVars, TypeOK
  <2>. QED BY <1>10, <2>1, <2>2 DEF HandOff
<1>11. ASSUME NEW w \in Writers, SetAside(w) PROVE FilesInv' /\ WriteInv'
  <2>1. /\ stage[w] \in Inside /\ write[w] \in Writes /\ ~written[w]
        /\ temp # {} /\ \A p \in temp : Above(p, Candidates) /\ write[w] \in p
    BY <1>b, <1>11 DEF SetAside, WriteOf, Inside
  <2>2. Candidates' = Candidates /\ Durable' = Durable
    BY <1>11 DEF SetAside, SetAsideAsBackup, Candidates, Durable
  <2>3. FilesInv'
    BY <1>a, <1>11, <2>2 DEF SetAside, history, FilesInv, HasNewest, Above
  <2>4. WriteOf(w)'
    BY <1>a, <1>11, <2>1, <2>2 DEF SetAside, Goes, procVars, TypeOK, WriteOf, Above
  <2>. QED BY <1>a, <1>11, <2>1, <2>3, <2>4, WriteStepOfOne DEF SetAside, Goes, procVars, TypeOK
<1>12. ASSUME NEW w \in Writers, CleanBackups(w) PROVE FilesInv' /\ WriteInv'
  <2>1. /\ stage[w] \in Inside /\ write[w] \in Writes
        /\ plan # {} /\ \A p \in plan : Above(p, Candidates) /\ write[w] \in p
    BY <1>b, <1>12 DEF CleanBackups, WriteOf, Inside
  <2>2. PICK p \in plan : Above(p, Candidates) /\ write[w] \in p
    BY <2>1
  <2>3. /\ p \in Durable' /\ p \in Candidates' /\ Durable' \subseteq Candidates
        /\ Candidates' \subseteq Candidates /\ acked' = acked /\ write' = write
    BY <1>12, <2>2 DEF CleanBackups, Candidates, Durable, history
  <2>4. Above(p, Durable') /\ Above(p, Candidates')
    BY <2>2, <2>3 DEF Above
  <2>5. acked \subseteq p
    BY <1>a, <2>2 DEF FilesInv, Durable, Candidates, Above
  <2>6. FilesInv'
    BY <2>3, <2>4, <2>5, NewestOnTop DEF FilesInv, HasNewest, Above
  <2>7. WriteOf(w)'
    BY <1>a, <1>12, <2>1, <2>2, <2>3, <2>5 DEF CleanBackups, Goes, TypeOK, WriteOf
  <2>. QED BY <1>a, <1>12, <2>1, <2>6, <2>7, WriteStepOfOne DEF CleanBackups, Goes, TypeOK
<1>13. ASSUME NEW w \in Writers, Release(w) PROVE FilesInv' /\ WriteInv'
  <2>1. stage[w] \in Inside /\ WriteOf(w)
    BY <1>b, <1>13 DEF Release, Inside
  <2>2. Candidates' = Candidates /\ Durable' = Durable
    BY <1>13 DEF Release, fileVars, Candidates, Durable
  <2>3. acked' # {} => \E p \in Durable : acked' \subseteq p
    BY <1>a, <1>13, <2>1 DEF Release, FilesInv, WriteOf
  <2>4. FilesInv'
    BY <1>a, <2>2, <2>3 DEF FilesInv, HasNewest, Above
  <2>5. WriteOf(w)'
    BY <1>a, <1>13 DEF Release, Goes, TypeOK, WriteOf
  <2>. QED BY <1>a, <1>13, <2>1, <2>4, <2>5, WriteStepOfOne DEF Release, Goes, TypeOK
<1>14. ASSUME NEW w \in Writers, Crash(w) PROVE FilesInv' /\ WriteInv'
  <2>1. CASE UNCHANGED temp
    BY <1>a, <1>14, <2>1, WriteStepOutside DEF Crash, Goes, TypeOK, fileVars, procVars
  <2>2. CASE stage[w] = "read" /\ temp' = {}
    <3>1. stage[w] \in Inside
      BY <2>2 DEF Inside
    <3>2. Candidates' = Durable' /\ Durable' = Durable /\ acked' = acked
      BY <1>14, <2>2 DEF Crash, Candidates, Durable
    <3>3. FilesInv'
      BY <1>a, <3>2 DEF FilesInv, HasNewest, Above
    <3>4. WriteOf(w)'
      BY <1>a, <1>14 DEF Crash, Goes, TypeOK, WriteOf
    <3>. QED BY <1>a, <1>14, <3>1, <3>3, <3>4, WriteStepOfOne DEF Crash, Goes, procVars, TypeOK
  <2>. QED BY <1>14, <2>1, <2>2 DEF Crash
<1>15. ASSUME Age PROVE FilesInv' /\ WriteInv'
  BY <1>a, <1>15, WriteStepOutside DEF Age, fileVars, procVars, history
<1>16. ASSUME UNCHANGED vars PROVE FilesInv' /\ WriteInv'
  BY <1>a, <1>16, WriteStepOutside DEF vars, fileVars
<1>. QED
  BY <1>1, <1>2, <1>3, <1>6, <1>7, <1>9, <1>10, <1>11, <1>12, <1>13, <1>14,
     <1>15, <1>16 DEF Next

(* The invariants hold from the start on: the lock's always, the files'    *)
(* until a write is robbed.                                                *)
LEMMA StartsSound == Init => LocksInv /\ StoreInv
<1>. SUFFICES ASSUME Init PROVE LocksInv /\ StoreInv
  OBVIOUS
<1>1. TypeOK
  BY StoreAssumption DEF Init, TypeOK, Stages, Plans, Writes
<1>2. \A w \in Writers : stage[w] = "idle" /\ ~written[w]
  BY DEF Init
<1>3. LockOwners /\ LookedDead /\ AtWork /\ HoldersOwnLock /\ WriteInv
  BY <1>2 DEF Init, NoLock, LockOwners, LookedDead, AtWork, HoldersOwnLock, WriteInv, Inside
<1>4. FilesInv
  BY DEF Init, FilesInv, HasNewest, Above, Candidates, Durable
<1>. QED BY <1>1, <1>3, <1>4 DEF LocksInv, StoreInv

LEMMA StoreStep ==
  ASSUME LocksInv, robbed = {} => StoreInv, [Next]_vars
  PROVE  (robbed = {} => StoreInv)'
<1>. SUFFICES ASSUME robbed' = {} PROVE StoreInv'
  OBVIOUS
<1>1. robbed = {}
  BY AtWorkStep
<1>2. TypeOK' /\ HoldersOwnLock'
  BY LocksStep DEF LocksInv, LockOwners, HoldersOwnLock
<1>3. FilesInv' /\ WriteInv'
  BY <1>1, FilesStep
<1>. QED BY <1>2, <1>3 DEF StoreInv

LEMMA StoreAlways == Spec => []LocksInv /\ [](robbed = {} => StoreInv)
<1>1. Init => LocksInv /\ (robbed = {} => StoreInv)
  BY StartsSound
<1>2. LocksInv /\ (robbed = {} => StoreInv) /\ [Next]_vars => LocksInv' /\ (robbed = {} => StoreInv)'
  BY LocksStep, StoreStep
<1>. QED BY <1>1, <1>2, PTL DEF Spec

-----------------------------------------------------------------------------
(* The files, locks and local variables of plan/store.ts hold what their   *)
(* types say; what is read is a plan.                                      *)
THEOREM TypeCorrect == Spec => []TypeOK
<1>1. LocksInv => TypeOK
  BY DEF LocksInv
<1>. QED BY <1>1, StoreAlways, PTL

(* The lock file excludes: acquireLock, reclaimStaleLock and releaseLock   *)
(* let one process at a time into runWrite, whoever dies holding the lock  *)
(* and whatever locks cannot be removed; two are in it only if the lock of *)
(* one was moved away by a process that had looked at an earlier one.      *)
THEOREM MutualExclusion == Spec => []OneWriter
<1>1. ASSUME LocksInv, NEW v \in Writers, NEW w \in Writers,
             stage[v] \in Inside, stage[w] \in Inside, v # w
      PROVE  {write[v], write[w]} \cap robbed # {}
  BY <1>1 DEF LocksInv, LockOwners
<1>2. LocksInv => OneWriter
  BY <1>1 DEF OneWriter
<1>. QED BY <1>2, StoreAlways, PTL

(* Until a write is robbed of its lock, one answered with success is in    *)
(* whatever PlanStore.read returns from then on, through crashes, refused  *)
(* renames and failed handoffs.                                            *)
THEOREM AckedWritesSurvive == Spec => []AckedSurvive
<1>1. ASSUME robbed = {} => StoreInv PROVE AckedSurvive
  <2>. SUFFICES ASSUME StoreInv PROVE acked \subseteq Latest
    BY <1>1 DEF AckedSurvive
  <2>1. CASE acked = {}
    BY <2>1
  <2>2. CASE acked # {}
    <3>1. PICK p \in Candidates : acked \subseteq p
      BY <2>2 DEF StoreInv, FilesInv, Durable, Candidates
    <3>2. Above(Latest, Candidates)
      BY LatestTyped DEF StoreInv, FilesInv
    <3>. QED BY <3>1, <3>2 DEF Above
  <2>. QED BY <2>1, <2>2
<1>. QED BY <1>1, StoreAlways, PTL
-----------------------------------------------------------------------------
(* Where a lock file can be removed, its owner is still inside or died.    *)
HeldOrLeft ==
  lock # NoLock => lock.owner \in Writers /\ stage[lock.owner] \in Inside \cup {"opened", "dead"}

(* Every step that leaves a lock leaves it to such an owner.               *)
LEMMA LeftStep ==
  ASSUME LocksInv, HeldOrLeft, ~UnlinkFails, [Next]_vars
  PROVE  HeldOrLeft'
<1>a. /\ lock \in Locks \cup {NoLock} /\ stage \in [Writers -> Stages]
      /\ LockOwners /\ NoWriter \notin Writers
  BY StoreAssumption DEF LocksInv, TypeOK
<1>. USE DEF HeldOrLeft
<1>1. ASSUME NEW w \in Writers, lock' = lock, stage[w] \notin Inside \cup {"opened", "dead"},
             \E to : Goes(w, to)
      PROVE  HeldOrLeft'
  BY <1>a, <1>1 DEF Goes
<1>2. ASSUME NEW w \in Writers, Request(w) \/ Reclaim(w) \/ GiveUp(w) PROVE HeldOrLeft'
  BY <1>1, <1>2 DEF Request, Reclaim, GiveUp, TimesOut, Inside
<1>3. ASSUME NEW w \in Writers, lock' = lock, NEW to \in Inside \cup {"dead"}, Goes(w, to)
      PROVE  HeldOrLeft'
  BY <1>a, <1>3 DEF Goes
<1>4. ASSUME NEW w \in Writers,
             ReadPlan(w) \/ Flush(w) \/ Replace(w) \/ HandOff(w) \/ SetAside(w) \/ CleanBackups(w)
               \/ Crash(w)
      PROVE  HeldOrLeft'
  <2>1. lock' = lock /\ \E to \in Inside \cup {"dead"} : Goes(w, to)
    BY <1>4 DEF ReadPlan, Flush, Replace, HandOff, Renamed, SetAside, CleanBackups, Crash, Inside
  <2>. QED BY <1>3, <2>1
<1>5. ASSUME NEW w \in Writers, OpenLock(w) PROVE HeldOrLeft'
  BY <1>a, <1>5 DEF OpenLock, Goes
<1>6. ASSUME NEW w \in Writers, FillLock(w) PROVE HeldOrLeft'
  <2>1. stage[w] = "opened" /\ stage' = [stage EXCEPT ![w] = "locked"]
    BY <1>6 DEF FillLock, Goes
  <2>2. lock'.owner = lock.owner /\ (lock' # NoLock => lock # NoLock)
    <3>1. CASE lock.owner = w
      BY <1>a, <1>6, <3>1 DEF FillLock, Locks, NoLock
    <3>2. CASE lock.owner # w
      BY <1>6, <3>2 DEF FillLock
    <3>. QED BY <3>1, <3>2
  <2>. QED BY <1>a, <2>1, <2>2 DEF Inside
<1>7. ASSUME NEW w \in Writers, Release(w) \/ Quarantine(w) PROVE HeldOrLeft'
  <2>1. CASE lock' = NoLock
    BY <2>1 DEF NoLock
  <2>2. CASE lock' # NoLock
    <3>1. Release(w) /\ lock' = lock /\ lock.owner # w
      BY <1>a, <1>7, <2>2 DEF Release, Quarantine, LockOwners, Inside
    <3>. QED BY <1>a, <3>1 DEF Release, Goes
  <2>. QED BY <2>1, <2>2
<1>8. ASSUME Age PROVE HeldOrLeft'
  <2>1. lock \in Locks /\ lock'.owner = lock.owner /\ stage' = stage
    BY <1>a, <1>8 DEF Age, Locks
  <2>. QED BY <1>8, <2>1 DEF Age
<1>9. ASSUME UNCHANGED vars PROVE HeldOrLeft'
  BY <1>9 DEF vars, NoLock
<1>. QED
  BY <1>2, <1>4, <1>5, <1>6, <1>7, <1>8, <1>9 DEF Next

(* acquireLock gives up only on a lock whose owner is still at work: one   *)
(* that nobody holds is moved away by reclaimStaleLock once it is old,     *)
(* wherever its owner died.                                                *)
THEOREM AbandonedLocksAreRecovered ==
  ASSUME ~UnlinkFails
  PROVE  Spec => AbandonedLocksRecovered
<1>1. Init => HeldOrLeft
  BY DEF Init, HeldOrLeft
<1>2. LocksInv /\ HeldOrLeft /\ [Next]_vars => HeldOrLeft'
  BY LeftStep
<1>3. ASSUME LocksInv, HeldOrLeft, [Next]_vars, NEW w \in Writers,
             stage[w] = "waiting", stage'[w] = "idle"
      PROVE  ~Abandoned(lock')
  <2>1. stage \in [Writers -> Stages]
    BY <1>3 DEF LocksInv, TypeOK
  <2>2. GiveUp(w) \/ \E v \in Writers : Quarantine(v)
    <3>1. ASSUME NEW v \in Writers, NEW to, Goes(v, to), v # w \/ to # "idle"
          PROVE  FALSE
      BY <1>3, <2>1, <3>1 DEF Goes
    <3>2. stage' # stage
      BY <1>3
    <3>3. ~Age /\ ~UNCHANGED vars
      BY <3>2 DEF Age, vars
    <3>4. PICK v \in Writers :
            \/ Request(v) \/ OpenLock(v) \/ FillLock(v)
            \/ Reclaim(v) \/ Quarantine(v) \/ GiveUp(v)
            \/ ReadPlan(v) \/ Flush(v) \/ Replace(v) \/ SetAside(v) \/ HandOff(v)
            \/ CleanBackups(v) \/ Release(v) \/ Crash(v)
      BY <1>3, <3>3 DEF Next
    <3>5. ~Request(v) /\ ~OpenLock(v) /\ ~FillLock(v) /\ ~Reclaim(v)
      BY <3>1 DEF Request, OpenLock, FillLock, Reclaim
    <3>6. ~ReadPlan(v) /\ ~Flush(v) /\ ~CleanBackups(v) /\ ~SetAside(v) /\ ~Crash(v)
      BY <3>1 DEF ReadPlan, Flush, CleanBackups, SetAside, Crash
    <3>7. ~Replace(v) /\ ~HandOff(v)
      BY <3>1 DEF Replace, HandOff, Renamed
    <3>8. ~Release(v)
      BY <1>3, <3>1 DEF Release
    <3>9. GiveUp(v) => v = w
      BY <3>1 DEF GiveUp, TimesOut
    <3>. QED BY <3>4, <3>5, <3>6, <3>7, <3>8, <3>9
  <2>q. ASSUME NEW v \in Writers, Quarantine(v) PROVE ~Abandoned(lock')
    BY <2>q DEF Quarantine, Abandoned
  <2>. SUFFICES ASSUME GiveUp(w) PROVE ~Abandoned(lock')
    BY <2>2, <2>q
  <2>3. lock' = lock /\ lock # NoLock /\ ~Stale(lock)
    BY DEF GiveUp
  <2>4. CASE ~lock.old
    BY <2>3, <2>4 DEF Abandoned
  <2>5. CASE stage[lock.owner] # "dead"
    BY <1>3, <2>3, <2>5 DEF HeldOrLeft, Abandoned
  <2>. QED BY <2>3, <2>4, <2>5 DEF Stale, Alive
<1>4. LocksInv /\ HeldOrLeft /\ [Next]_vars
        => [\A w \in Writers : stage[w] = "waiting" /\ stage'[w] = "idle" => ~Abandoned(lock')]_vars
  BY <1>3
<1>. QED BY <1>1, <1>2, <1>4, StoreAlways, PTL DEF Spec, AbandonedLocksRecovered
-----------------------------------------------------------------------------
(* Refinement.  A flushed write is taken by the register, a release is its *)
(* answer, a crash halfway through the temporary file may lose something.  *)

(* Writes have numbers of their own, and no plan has one before its flush. *)
Early == Waiting \cup {"opened", "locked", "read"}
NumbersInv ==
  /\ \A w \in Writers : write[w] <= requests /\ (stage[w] = "idle" => write[w] = 0)
  /\ \A v, w \in Writers : write[v] = write[w] /\ write[v] # 0 => v = w
  /\ \A p \in Candidates : p \subseteq 1..requests
  /\ \A w \in Writers : stage[w] \in Early => \A p \in Candidates : write[w] \notin p

(* What a write has read is what there is until it is flushed.             *)
ReadInv == \A w \in Writers : stage[w] = "read" => seen[w] = Latest

(* What is read is the newest candidate.                                   *)
NewestRead ==
  /\ Above(Latest, Candidates)
  /\ Latest \in Candidates \/ (Candidates = {} /\ Latest = {})

RegisterInv == StoreInv /\ NewestRead /\ NumbersInv /\ ReadInv

(* What is read depends on the files alone, whatever they are called.      *)
LEMMA SameFiles == Candidates' = Candidates => Latest' = Latest
BY DEF Latest

(* What is known of the files and of each write.                           *)
LEMMA FilesKnown ==
  ASSUME StoreInv
  PROVE  NewestRead /\ TypeOK /\ Latest \in Plans /\ \A w \in Writers : WriteOf(w)
<1>1. TypeOK /\ HasNewest(Candidates) /\ \A w \in Writers : WriteOf(w)
  BY DEF StoreInv, FilesInv, WriteInv, WriteOf
<1>2. Latest \in Candidates \/ (Candidates = {} /\ Latest = {})
  BY <1>1, LatestIsNewest DEF Latest
<1>. QED BY <1>1, <1>2, LatestTyped DEF NewestRead

(* Where the process at work has its plan as the newest candidate, moving  *)
(* the files about leaves what is read.                                    *)
LEMMA LatestStays ==
  ASSUME NewestRead, NewestRead', NEW p \in Candidates, Above(p, Candidates),
         p \in Candidates', Candidates' \subseteq Candidates
  PROVE  Latest' = Latest
<1>1. Latest = p
  BY DEF NewestRead, Above
<1>2. Latest' = p
  BY DEF NewestRead, Above
<1>. QED BY <1>1, <1>2

(* What one file operation of a write does to what is read.                *)
LEMMA FlushAdds ==
  ASSUME RegisterInv, StoreInv', NewestRead', NEW w \in Writers, Flush(w)
  PROVE  /\ Latest' = Latest \cup {write[w]} /\ write[w] \notin Latest /\ write[w] \in Writes
         /\ Candidates' \subseteq Candidates \cup {Latest \cup {write[w]}}
<1>1. seen[w] = Latest /\ stage[w] = "read" /\ WriteOf(w)
  BY FilesKnown DEF RegisterInv, ReadInv, Flush
<1> DEFINE new == Latest \cup {write[w]}
<1>2. Candidates' = plan \cup backups \cup {new}
  BY <1>1 DEF Flush, Flushed, Candidates
<1>3. Above(new, Candidates')
  BY <1>1, <1>2 DEF WriteOf, Above, Candidates
<1>4. new \in Candidates'
  BY <1>2
<1>5. Latest' \in Candidates' /\ Above(Latest', Candidates')
  BY <1>4 DEF NewestRead, Above
<1>6. Latest' = new
  BY <1>3, <1>4, <1>5 DEF Above
<1>7. write[w] \notin Latest
  BY <1>1, FilesKnown DEF RegisterInv, NewestRead, NumbersInv, Early
<1>8. write[w] \in Writes
  BY <1>1 DEF WriteOf
<1>. QED BY <1>2, <1>6, <1>7, <1>8 DEF Candidates

(* Only a flush adds a plan: whatever else is done with the files leaves   *)
(* the newest one as it is.                                                *)
LEMMA OthersLeaveLatest ==
  ASSUME RegisterInv, StoreInv', NewestRead', NEW w \in Writers,
         ReadPlan(w) \/ Replace(w) \/ HandOff(w) \/ SetAside(w) \/ CleanBackups(w)
  PROVE  Latest' = Latest /\ Candidates' \subseteq Candidates
<1>1. NewestRead /\ WriteOf(w)
  BY FilesKnown DEF RegisterInv
<1>2. CASE UNCHANGED fileVars
  BY <1>2, SameFiles DEF fileVars, Candidates
<1>3. CASE Renamed(w) /\ UNCHANGED backups /\ stage[w] \in {"flushed", "aside"}
  <2>1. PICK p \in temp : Above(p, Candidates)
    BY <1>1, <1>3 DEF WriteOf
  <2>2. plan' = temp /\ temp' = {}
    BY <1>3, <2>1 DEF Renamed
  <2>. QED BY <1>1, <1>3, <2>1, <2>2, LatestStays DEF Candidates
<1>4. CASE SetAside(w)
  BY <1>4, SameFiles DEF SetAside, SetAsideAsBackup, Candidates
<1>5. CASE CleanBackups(w)
  <2>1. PICK p \in plan : Above(p, Candidates)
    BY <1>1, <1>5 DEF WriteOf, CleanBackups
  <2>2. plan' = plan /\ temp' = temp /\ backups' \subseteq backups
    BY <1>5 DEF CleanBackups
  <2>. QED BY <1>1, <2>1, <2>2, LatestStays DEF Candidates
<1>. QED BY <1>2, <1>3, <1>4, <1>5 DEF ReadPlan, Replace, HandOff, fileVars

(* Steps that request nothing and flush nothing.                           *)
LEMMA NumbersStay ==
  ASSUME RegisterInv, TypeOK', requests' = requests, Candidates' \subseteq Candidates,
         \A w \in Writers :
           /\ write'[w] \in {write[w], 0}
           /\ stage'[w] = "idle" => write'[w] = 0
           /\ stage'[w] \in Early => stage[w] \in Early /\ write'[w] = write[w]
  PROVE  NumbersInv'
<1>1. requests \in Nat
  BY DEF RegisterInv, StoreInv, TypeOK
<1>2. \A w \in Writers : write'[w] <= requests
  BY <1>1 DEF RegisterInv, NumbersInv
<1>. QED BY <1>2 DEF RegisterInv, NumbersInv

(* Requests are numbered once, and files hold requested writes only.       *)
LEMMA NumbersStep ==
  ASSUME RegisterInv, StoreInv', NewestRead', [Next]_vars
  PROVE  NumbersInv'
<1>1. TypeOK /\ TypeOK' /\ stage \in [Writers -> Stages] /\ write \in [Writers -> Writes \cup {0}]
  BY DEF RegisterInv, StoreInv, TypeOK
<1>2. ASSUME NEW w \in Writers, Request(w) PROVE NumbersInv'
  <2> DEFINE n == requests + 1
  <2>1. /\ n \in Nat /\ requests \in Nat /\ requests' = n
        /\ write' = [write EXCEPT ![w] = n] /\ stage' = [stage EXCEPT ![w] = "waiting"]
        /\ Candidates' = Candidates
    BY <1>1, <1>2 DEF Request, TypeOK, Goes, Candidates, fileVars
  <2>2. \A v \in Writers : write[v] <= requests /\ write[v] \in Nat
    BY <1>1 DEF RegisterInv, NumbersInv, Writes
  <2>3. \A p \in Candidates : n \notin p /\ p \subseteq 1..n
    <3>1. 1..requests \subseteq 1..n /\ n \notin 1..requests
      BY <2>1
    <3>. QED BY <3>1 DEF RegisterInv, NumbersInv
  <2>4. \A v \in Writers : write[v] # n /\ write[v] <= n
    BY <2>1, <2>2
  <2> HIDE DEF n
  <2>5. \A v \in Writers : write'[v] <= n /\ (stage'[v] = "idle" => write'[v] = 0)
    BY <1>1, <2>1, <2>4 DEF RegisterInv, NumbersInv
  <2>6. \A u, v \in Writers : write'[u] = write'[v] /\ write'[u] # 0 => u = v
    BY <1>1, <2>1, <2>4 DEF RegisterInv, NumbersInv
  <2>7. ASSUME NEW v \in Writers, stage'[v] \in Early, NEW p \in Candidates PROVE write'[v] \notin p
    BY <1>1, <2>1, <2>3, <2>7 DEF RegisterInv, NumbersInv
  <2>. QED BY <2>1, <2>3, <2>5, <2>6, <2>7 DEF NumbersInv
<1>3. ASSUME NEW w \in Writers, Flush(w) PROVE NumbersInv'
  <2>1. /\ UNCHANGED <<write, requests>> /\ stage' = [stage EXCEPT ![w] = "flushed"]
        /\ stage[w] \in Inside /\ stage[w] = "read"
    BY <1>3 DEF Flush, procVars, history, Goes, Inside
  <2>2. /\ Candidates' \subseteq Candidates \cup {Latest \cup {write[w]}}
        /\ write[w] \in Writes
    BY <1>3, FlushAdds
  <2>3. Latest \subseteq 1..requests /\ \A v \in Writers : stage[v] \in Early => write[v] \notin Latest
    BY FilesKnown DEF RegisterInv, NewestRead, NumbersInv
  <2>4. write[w] \in 1..requests
    BY <1>1, <2>2 DEF RegisterInv, NumbersInv, Writes, TypeOK
  <2>5. \A p \in Candidates' : p \subseteq 1..requests
    BY <2>2, <2>3, <2>4 DEF RegisterInv, NumbersInv
  <2>6. ASSUME NEW v \in Writers, stage'[v] \in Early, NEW p \in Candidates' PROVE write[v] \notin p
    <3>1. v # w /\ stage[v] \in Early
      BY <1>1, <2>1, <2>6 DEF Early, Waiting
    <3>2. write[v] # write[w]
      BY <2>2, <3>1, StoreAssumption DEF RegisterInv, NumbersInv, Writes
    <3>. QED BY <2>2, <2>3, <3>1, <3>2 DEF RegisterInv, NumbersInv
  <2>. QED BY <1>1, <2>1, <2>5, <2>6 DEF RegisterInv, NumbersInv
<1>4. ASSUME NEW w \in Writers, OpenLock(w) \/ FillLock(w) \/ Reclaim(w) PROVE NumbersInv'
  <2>1. /\ UNCHANGED <<fileVars, write, requests>> /\ stage[w] \in Early
        /\ \E to \in Early : stage' = [stage EXCEPT ![w] = to]
    BY <1>4 DEF OpenLock, FillLock, Reclaim, Goes, procVars, history, Early, Waiting
  <2>2. \A v \in Writers : stage'[v] = "idle" => stage[v] = "idle"
    BY <1>1, <2>1 DEF Early, Waiting
  <2>. QED BY <1>1, <2>1, <2>2, NumbersStay DEF fileVars, Candidates, RegisterInv, NumbersInv
<1>5. ASSUME NEW w \in Writers, Quarantine(w) \/ GiveUp(w) PROVE NumbersInv'
  BY <1>1, <1>5, NumbersStay
  DEF Quarantine, GiveUp, TimesOut, Goes, fileVars, history, Candidates, Early, Waiting,
      RegisterInv, NumbersInv
<1>6. ASSUME NEW w \in Writers, ReadPlan(w) \/ Replace(w) \/ HandOff(w) \/ SetAside(w) \/ CleanBackups(w)
      PROVE  NumbersInv'
  <2>1. /\ UNCHANGED <<write, requests>>
        /\ \A v \in Writers : v # w => stage'[v] = stage[v]
        /\ stage'[w] # "idle" /\ (stage'[w] \in Early => stage[w] \in Early)
    BY <1>1, <1>6
    DEF ReadPlan, Replace, HandOff, Renamed, SetAside, CleanBackups, Goes, procVars, history, Early, Waiting
  <2>2. Candidates' \subseteq Candidates
    BY <1>6, OthersLeaveLatest
  <2>. QED BY <1>1, <2>1, <2>2, NumbersStay DEF RegisterInv, NumbersInv
<1>7. ASSUME NEW w \in Writers, Release(w) PROVE NumbersInv'
  BY <1>1, <1>7, NumbersStay
  DEF Release, Goes, fileVars, Candidates, Early, Waiting, RegisterInv, NumbersInv
<1>8. ASSUME NEW w \in Writers, Crash(w) PROVE NumbersInv'
  BY <1>1, <1>8, NumbersStay
  DEF Crash, Goes, procVars, Candidates, Early, Waiting, RegisterInv, NumbersInv
<1>9. CASE Age \/ UNCHANGED vars
  BY <1>1, <1>9, NumbersStay
  DEF Age, vars, fileVars, procVars, history, Candidates, RegisterInv, NumbersInv
<1>. QED BY <1>2, <1>3, <1>4, <1>5, <1>6, <1>7, <1>8, <1>9 DEF Next

(* While somebody has read, the files stay: nobody else is inside a write. *)
LEMMA ReadStep ==
  ASSUME RegisterInv, StoreInv', NewestRead', [Next]_vars
  PROVE  ReadInv'
<1>1. TypeOK /\ stage \in [Writers -> Stages] /\ seen \in [Writers -> Plans]
  BY DEF RegisterInv, StoreInv, TypeOK
<1>2. ASSUME NEW w \in Writers, stage[w] \in Inside, NEW to, Goes(w, to), to # "read"
      PROVE  ReadInv'
  <2>1. \A v \in Writers : stage'[v] # "read"
    BY <1>1, <1>2, OthersOutside DEF RegisterInv, Goes, Inside
  <2>. QED BY <2>1 DEF ReadInv
<1>3. ASSUME NEW w \in Writers, ReadPlan(w) PROVE ReadInv'
  <2>1. UNCHANGED fileVars /\ stage[w] \in Inside
    BY <1>3 DEF ReadPlan, Inside
  <2>2. CASE Goes(w, "releasing")
    BY <1>2, <2>1, <2>2
  <2>3. CASE seen' = [seen EXCEPT ![w] = Latest] /\ Goes(w, "read")
    <3>1. \A v \in Writers : stage'[v] = "read" => v = w
      BY <1>1, <2>1, <2>3, OthersOutside DEF RegisterInv, Goes, Inside
    <3>2. Latest' = Latest
      BY <2>1, SameFiles DEF fileVars, Candidates
    <3>. QED BY <1>1, <2>3, <3>1, <3>2 DEF ReadInv
  <2>. QED BY <1>3, <2>2, <2>3 DEF ReadPlan
<1>4. ASSUME NEW w \in Writers,
             \/ Flush(w) \/ Replace(w) \/ SetAside(w) \/ HandOff(w) \/ CleanBackups(w)
             \/ Release(w)
             \/ Crash(w) /\ stage[w] = "read"
      PROVE  ReadInv'
  <2>1. stage[w] \in Inside
    BY <1>4 DEF Flush, Replace, SetAside, HandOff, CleanBackups, Release, Inside
  <2>2. \E to : Goes(w, to) /\ to # "read"
    BY <1>4 DEF Flush, Replace, SetAside, HandOff, Renamed, CleanBackups, Release, Crash
  <2>. QED BY <1>2, <2>1, <2>2
<1>5. ASSUME UNCHANGED <<fileVars, seen>>, \A w \in Writers : stage'[w] = "read" => stage[w] = "read"
      PROVE  ReadInv'
  <2>1. Latest' = Latest
    BY <1>5, SameFiles DEF fileVars, Candidates
  <2>. QED BY <1>5, <2>1 DEF RegisterInv, ReadInv
<1>6. ASSUME NEW w \in Writers,
             \/ Request(w) \/ OpenLock(w) \/ FillLock(w) \/ Reclaim(w) \/ Quarantine(w) \/ GiveUp(w)
             \/ Crash(w) /\ stage[w] # "read"
      PROVE  ReadInv'
  <2>1. UNCHANGED <<fileVars, seen>>
    BY <1>6 DEF Request, OpenLock, FillLock, Reclaim, Quarantine, GiveUp, Crash, fileVars, procVars
  <2>2. \E to : Goes(w, to) /\ to # "read"
    BY <1>6 DEF Request, OpenLock, FillLock, Reclaim, Quarantine, GiveUp, TimesOut, Crash
  <2>. QED BY <1>1, <1>5, <2>1, <2>2 DEF Goes
<1>7. CASE Age \/ UNCHANGED vars
  BY <1>5, <1>7 DEF Age, vars, fileVars, procVars
<1>. QED BY <1>3, <1>4, <1>6, <1>7 DEF Next

(* The writes that are asked for and not answered.                         *)
Pending == {write[w] : w \in Writers} \ {0}

(* The answer of one write is not that of another.                         *)
LEMMA Answered ==
  ASSUME RegisterInv, NEW w \in Writers, write' = [write EXCEPT ![w] = 0]
  PROVE  Pending' = Pending \ {write[w]}
<1>1. write \in [Writers -> Writes \cup {0}]
  BY DEF RegisterInv, StoreInv, TypeOK
<1>. QED BY <1>1 DEF Pending, RegisterInv, NumbersInv

(* Every step of the store is one of the register or none.                 *)
LEMMA RegisterStep ==
  ASSUME RegisterInv, StoreInv', NewestRead', robbed = {}, robbed' = {}, [Next]_vars
  PROVE  [Register!RegisterNext]_(Register!registerVars)
<1> DEFINE Step == \/ UNCHANGED <<Latest, Pending, acked>>
                   \/ \E n \in Writes :
                        \/ /\ n \notin Latest \cup Pending \cup acked
                           /\ Pending' = Pending \cup {n} /\ UNCHANGED <<Latest, acked>>
                        \/ /\ n \in Pending \ Latest
                           /\ Latest' = Latest \cup {n} /\ UNCHANGED <<Pending, acked>>
                        \/ /\ n \in Pending \cap Latest /\ Pending' = Pending \ {n}
                           /\ acked' = acked \cup {n} /\ UNCHANGED Latest
                        \/ /\ n \in Pending /\ Pending' = Pending \ {n}
                           /\ UNCHANGED <<Latest, acked>>
                   \/ /\ Latest' \in SUBSET Latest /\ acked \subseteq Latest'
                      /\ UNCHANGED <<Pending, acked>>
<1>1. TypeOK /\ write \in [Writers -> Writes \cup {0}] /\ \A w \in Writers : WriteOf(w)
  BY FilesKnown DEF RegisterInv, TypeOK
<1>2. UNCHANGED fileVars => Latest' = Latest
  BY SameFiles DEF fileVars, Candidates
<1>3. UNCHANGED write => Pending' = Pending
  BY DEF Pending
<1>4. ASSUME NEW w \in Writers, Request(w) PROVE Step
  <2> DEFINE n == requests + 1
  <2>1. n \in Writes /\ write' = [write EXCEPT ![w] = n] /\ UNCHANGED <<fileVars, acked>>
    BY <1>1, <1>4, StoreAssumption DEF Request, Writes, TypeOK
  <2>2. n \notin 1..requests /\ requests \in Nat /\ 0 \notin 1..requests
    BY <1>1 DEF TypeOK
  <2>3. Latest \subseteq 1..requests
    BY FilesKnown DEF RegisterInv, NewestRead, NumbersInv
  <2>4. acked \subseteq Latest
    <3>1. acked # {} => \E p \in Candidates : acked \subseteq p
      BY DEF RegisterInv, StoreInv, FilesInv, Durable, Candidates
    <3>. QED BY <3>1, FilesKnown DEF RegisterInv, NewestRead, Above
  <2>5. n \notin Pending
    <3>1. \A v \in Writers : write[v] <= requests /\ write[v] \in Nat
      BY <1>1 DEF RegisterInv, NumbersInv, Writes
    <3>. QED BY <2>2, <3>1 DEF Pending
  <2>6. Pending' = Pending \cup {n}
    <3>1. write[w] = 0 /\ n # 0
      BY <1>4, <2>2 DEF RegisterInv, NumbersInv, Request
    <3> HIDE DEF n
    <3>. QED BY <1>1, <2>1, <3>1 DEF Pending
  <2>. QED BY <1>2, <2>1, <2>2, <2>3, <2>4, <2>5, <2>6
<1>5. ASSUME NEW w \in Writers, Flush(w) PROVE Step
  <2>1. Latest' = Latest \cup {write[w]} /\ write[w] \notin Latest /\ write[w] \in Writes
    BY <1>5, FlushAdds
  <2>2. write[w] \in Pending
    BY <2>1 DEF Pending, Writes
  <2>. QED BY <1>3, <1>5, <2>1, <2>2 DEF Flush, procVars, history
<1>6. ASSUME NEW w \in Writers, Release(w) PROVE Step
  <2>1. /\ Pending' = Pending \ {write[w]} /\ Latest' = Latest
        /\ write[w] \in Writes /\ write[w] \in Pending
    <3>1. write[w] \in Writes
      BY <1>1, <1>6 DEF WriteOf, Release
    <3>2. Pending' = Pending \ {write[w]} /\ Latest' = Latest
      BY <1>2, <1>6, Answered DEF Release
    <3>3. write[w] \in Pending
      BY <3>1 DEF Pending, Writes
    <3>. QED BY <3>1, <3>2, <3>3
  <2>2. CASE ~written[w]
    BY <1>6, <2>1, <2>2 DEF Release
  <2>3. CASE written[w]
    <3>1. PICK p \in Candidates : write[w] \in p
      BY <1>1, <1>6, <2>3 DEF WriteOf, Release, Durable, Candidates
    <3>2. write[w] \in Latest
      BY <3>1, FilesKnown DEF RegisterInv, NewestRead, Above
    <3>. QED BY <1>6, <2>1, <2>3, <3>2 DEF Release
  <2>. QED BY <2>2, <2>3
<1>7. ASSUME NEW w \in Writers, TimesOut(w), stage[w] \in Waiting, UNCHANGED <<fileVars, acked>>
      PROVE  Step
  <2>1. write[w] \in Writes /\ Pending' = Pending \ {write[w]}
    BY <1>1, <1>7, Answered DEF TimesOut, WriteOf, Waiting
  <2>2. write[w] \in Pending
    BY <2>1 DEF Pending, Writes
  <2>. QED BY <1>2, <1>7, <2>1, <2>2
<1>8. ASSUME NEW w \in Writers, Quarantine(w) \/ GiveUp(w) PROVE Step
  BY <1>2, <1>3, <1>7, <1>8 DEF Quarantine, GiveUp, history, Waiting
<1>9. ASSUME NEW w \in Writers, OpenLock(w) \/ FillLock(w) \/ Reclaim(w) PROVE Step
  BY <1>2, <1>3, <1>9 DEF OpenLock, FillLock, Reclaim, procVars, history
<1>10. ASSUME NEW w \in Writers, ReadPlan(w) \/ Replace(w) \/ HandOff(w) \/ SetAside(w) \/ CleanBackups(w)
       PROVE  Step
  BY <1>3, <1>10, OthersLeaveLatest DEF ReadPlan, Replace, HandOff, SetAside, CleanBackups, procVars, history
<1>11. ASSUME NEW w \in Writers, Crash(w) PROVE Step
  <2>1. UNCHANGED <<write, acked>>
    BY <1>11 DEF Crash, procVars
  <2>2. CASE UNCHANGED temp
    BY <1>2, <1>3, <1>11, <2>1, <2>2 DEF Crash, fileVars
  <2>3. CASE temp' = {}
    <3>1. Candidates' \subseteq Candidates
      BY <1>11, <2>3 DEF Crash, Candidates
    <3>2. Latest' \in SUBSET Latest
      <4>1. Latest' \in Candidates' \/ Latest' = {}
        BY DEF NewestRead
      <4>. QED BY <3>1, <4>1, FilesKnown DEF RegisterInv, NewestRead, Above
    <3>3. acked' \subseteq Latest'
      <4>1. acked' # {} => \E p \in Candidates' : acked' \subseteq p
        BY DEF StoreInv, FilesInv, Durable, Candidates
      <4>2. Above(Latest, Candidates)'
        BY DEF NewestRead
      <4>. QED BY <4>1, <4>2 DEF Above
    <3>. QED BY <1>3, <2>1, <3>2, <3>3
  <2>. QED BY <1>11, <2>2, <2>3 DEF Crash
<1>12. ASSUME Age \/ UNCHANGED vars PROVE Step
  <2>1. UNCHANGED <<fileVars, write, acked>>
    BY <1>12 DEF Age, vars, fileVars, procVars, history
  <2>. QED BY <1>2, <1>3, <2>1
<1> HIDE DEF Step
<1>13. Step
  BY <1>4, <1>5, <1>6, <1>8, <1>9, <1>10, <1>11, <1>12 DEF Next
<1>. QED BY <1>13
  DEF Step, Pending, Register!RegisterNext, Register!registerVars, Register!Ask, Register!Take,
      Register!Promise, Register!Refuse, Register!Lose

(* Once a write was robbed, answers still belong to requests.              *)
LEMMA ContendStep ==
  ASSUME LocksInv, LocksInv', robbed' # {}, [Next]_vars
  PROVE  Register!RegisterNext
<1>1. robbed \subseteq robbed' /\ Pending' \subseteq Writes
  BY AtWorkStep DEF LocksInv, TypeOK, Pending
<1>2. acked' = acked \/ \E w \in Writers : Release(w)
  BY DEF Next, Request, OpenLock, FillLock, Reclaim, Quarantine, GiveUp, ReadPlan, Flush, Replace,
         SetAside, HandOff, CleanBackups, Crash, Age, vars, history
<1>3. ASSUME NEW w \in Writers, Release(w) PROVE acked' \in {acked, acked \cup {write[w]}} /\ write[w] \in Pending
  BY <1>3, StoreAssumption DEF Release, LocksInv, AtWork, Pending, Writes
<1>4. acked \subseteq acked' /\ acked' \subseteq acked \cup Pending
  BY <1>2, <1>3
<1>. QED BY <1>1, <1>4 DEF Register!RegisterNext, Register!Contend, Pending

(* The store is a register: what PlanStore.read returns is taken from      *)
(* write to write without one being overwritten, applied twice or lost     *)
(* after its caller was told of its success (runWrite, writeAtomic,        *)
(* releaseLock), through every crash and refused rename, as long as no     *)
(* write is robbed of its lock; after that it answers requests, and no     *)
(* more.                                                                   *)
THEOREM StoreImplementsRegister == Spec => ImplementsRegister
<1> DEFINE Sound  == robbed = {} => StoreInv /\ NewestRead
           Intact == robbed = {} => NumbersInv /\ ReadInv
<1>1. Init => NumbersInv /\ ReadInv /\ Register!RegisterInit
  <2>. SUFFICES ASSUME Init PROVE NumbersInv /\ ReadInv /\ Register!RegisterInit
    OBVIOUS
  <2>1. Candidates = {} /\ Latest = {}
    BY DEF Init, Candidates, Latest
  <2>. QED BY <2>1 DEF Init, NumbersInv, ReadInv, Early, Waiting, Register!RegisterInit
<1>2. ASSUME LocksInv, Sound, Sound', Intact, [Next]_vars
      PROVE  Intact'
  <2>. SUFFICES ASSUME robbed' = {} PROVE NumbersInv' /\ ReadInv'
    OBVIOUS
  <2>1. robbed = {}
    BY <1>2, AtWorkStep
  <2>2. StoreInv' /\ NewestRead'
    BY <1>2
  <2>3. RegisterInv
    BY <1>2, <2>1 DEF RegisterInv
  <2>. QED BY <1>2, <2>2, <2>3, NumbersStep, ReadStep
<1>3. ASSUME LocksInv, LocksInv', Sound, Sound', Intact, [Next]_vars
      PROVE  [Register!RegisterNext]_(Register!registerVars)
  <2>1. CASE robbed' # {}
    BY <1>3, <2>1, ContendStep
  <2>2. CASE robbed' = {}
    <3>1. robbed = {}
      BY <1>3, <2>2, AtWorkStep
    <3>2. StoreInv' /\ NewestRead'
      BY <1>3, <2>2
    <3>3. RegisterInv
      BY <1>3, <3>1 DEF RegisterInv
    <3>. QED BY <1>3, <2>2, <3>1, <3>2, <3>3, RegisterStep
  <2>. QED BY <2>1, <2>2
<1>4. (robbed = {} => StoreInv) => Sound
  BY FilesKnown
<1>5. Init => Intact /\ Register!RegisterInit
  BY <1>1
<1>6. LocksInv /\ Sound /\ Sound' /\ Intact /\ [Next]_vars => Intact'
  BY <1>2
<1>7. LocksInv /\ LocksInv' /\ Sound /\ Sound' /\ Intact /\ [Next]_vars
        => [Register!RegisterNext]_(Register!registerVars)
  BY <1>3
<1> HIDE DEF Sound, Intact
<1>. QED BY <1>4, <1>5, <1>6, <1>7, StoreAlways, PTL
     DEF Spec, ImplementsRegister, Register!RegisterSpec
=============================================================================
