------------------------------ MODULE PlanStore ------------------------------
(***************************************************************************)
(* The plan file shared by several processes (PlanStore in plan/store.ts): *)
(* the lock file beside it, the temporary file a write goes through, the   *)
(* backups of the Windows-style handoff and what a crash leaves of them.   *)
(*                                                                         *)
(* A write runs without awaiting once it has the lock, so the processes    *)
(* interleave at the file operations.  A process performs one write at a   *)
(* time (drain); its other requests wait in its queue.  A plan is known by *)
(* the set of writes it contains, its revision is their number.            *)
(***************************************************************************)
EXTENDS Naturals, FiniteSets

CONSTANTS
  Writers,         \* processes, each with a pid of its own that is never reused
  NoWriter,
  MaxWrites,       \* bound on the writes requested
  MaxCrashes,      \* bound on the crashes
  ReplaceRefused,  \* may rename refuse to replace plan.json (EEXIST, EPERM)?
  HandoffFails,    \* may the rename of the handoff fail as well?
  UnlinkFails      \* may the removal of the lock file fail?

ASSUME StoreAssumption ==
  /\ NoWriter \notin Writers
  /\ MaxWrites \in Nat /\ MaxCrashes \in Nat
  /\ {ReplaceRefused, HandoffFails, UnlinkFails} \subseteq BOOLEAN

VARIABLES
  lock,     \* plan.json.lock
  plan,     \* plan.json, as a set of at most one plan
  temp,     \* plan.json.tmp, empty also when its content is incomplete
  backups,  \* plan.json.bak.*
  stage,    \* per process: where its write stands
  seen,     \* per process: the plan its write read
  write,    \* per process: the number of the write it performs
  written,  \* has the process's write replaced the plan?
  looked,   \* history, per process: whose lock it is about to move away
  robbed,   \* history: writes whose lock was moved by a process that had looked at another's
  requests, \* history: writes requested so far
  acked,    \* history: the writes that were answered with success
  crashes   \* history: crashes so far

fileVars == <<plan, temp, backups>>
procVars == <<seen, write, written>>
lockPast == <<looked, robbed>>
history  == <<requests, acked, crashes>>
vars == <<lock, plan, temp, backups, stage, seen, write, written, looked, robbed,
          requests, acked, crashes>>

Writes == 1..MaxWrites
Plans  == SUBSET Writes

Waiting == {"waiting", "reclaiming"}
Inside  == {"locked", "read", "flushed", "aside", "replaced", "releasing"}
Stages  == {"idle", "opened", "dead"} \cup Waiting \cup Inside

(* complete: the owner's pid is in the file; old: past the age at which it *)
(* may be stale (staleLockMs, for an incomplete one corruptLockGraceMs on  *)
(* top).                                                                   *)
Locks  == [owner : Writers, complete : BOOLEAN, old : BOOLEAN]
NoLock == [owner |-> NoWriter, complete |-> FALSE, old |-> FALSE]

(* A file holds at most one plan.                                          *)
TypeOK ==
  /\ lock \in Locks \cup {NoLock}
  /\ plan \in SUBSET Plans /\ temp \in SUBSET Plans /\ backups \in SUBSET Plans
  /\ \A p, q \in plan : p = q
  /\ \A p, q \in temp : p = q
  /\ stage \in [Writers -> Stages]
  /\ seen \in [Writers -> Plans]
  /\ write \in [Writers -> Writes \cup {0}]
  /\ written \in [Writers -> BOOLEAN]
  /\ looked \in [Writers -> Writers \cup {NoWriter}]
  /\ robbed \subseteq Writes
  /\ requests \in 0..MaxWrites
  /\ acked \subseteq Writes
  /\ crashes \in 0..MaxCrashes

Init ==
  /\ lock = NoLock
  /\ plan = {} /\ temp = {} /\ backups = {}
  /\ stage = [w \in Writers |-> "idle"]
  /\ seen = [w \in Writers |-> {}]
  /\ write = [w \in Writers |-> 0]
  /\ written = [w \in Writers |-> FALSE]
  /\ looked = [w \in Writers |-> NoWriter]
  /\ robbed = {}
  /\ requests = 0
  /\ acked = {}
  /\ crashes = 0
-----------------------------------------------------------------------------
Alive(w) == stage[w] # "dead"
Goes(w, to) == stage' = [stage EXCEPT ![w] = to]

Candidates == plan \cup temp \cup backups

(* read: the candidate with the highest revision, null without any.        *)
Latest ==
  IF Candidates = {} THEN {}
  ELSE CHOOSE p \in Candidates : \A q \in Candidates : Cardinality(q) <= Cardinality(p)

(* Mutant: the age of a lock is enough.                                    *)
StaleByAge(l) == l.old

(* Mutant: an incomplete lock is left for its owner to complete.           *)
StaleIfComplete(l) == l.old /\ l.complete /\ ~Alive(l.owner)

(* A lock with a pid in it is stale if that process is dead, one without   *)
(* after the grace period.                                                 *)
Stale(l) == l # NoLock /\ l.old /\ (l.complete => ~Alive(l.owner))
-----------------------------------------------------------------------------
(* The queue hands the next request to runWrite.                           *)
Request(w) ==
  /\ stage[w] = "idle" /\ requests < MaxWrites
  /\ requests' = requests + 1
  /\ write' = [write EXCEPT ![w] = requests + 1]
  /\ Goes(w, "waiting")
  /\ UNCHANGED <<lock, fileVars, seen, written, acked, crashes, lockPast>>

(* acquireLock creates the file, which fails if it exists ...              *)
OpenLock(w) ==
  /\ stage[w] = "waiting" /\ lock = NoLock
  /\ lock' = [owner |-> w, complete |-> FALSE, old |-> FALSE]
  /\ Goes(w, "opened")
  /\ UNCHANGED <<fileVars, procVars, history, lockPast>>

(* ... and writes its owner into it, unless it was moved away meanwhile.   *)
FillLock(w) ==
  /\ stage[w] = "opened"
  /\ lock' = IF lock.owner = w THEN [lock EXCEPT !.complete = TRUE] ELSE lock
  /\ Goes(w, "locked")
  /\ UNCHANGED <<fileVars, procVars, history, lockPast>>

(* reclaimStaleLock looks at the lock ...                                  *)
Reclaim(w) ==
  /\ stage[w] = "waiting" /\ Stale(lock)
  /\ Goes(w, "reclaiming")
  /\ looked' = [looked EXCEPT ![w] = lock.owner]
  /\ UNCHANGED <<lock, fileVars, procVars, history, robbed>>

(* The wait for the lock has lasted too long.                              *)
TimesOut(w) ==
  /\ Goes(w, "idle")
  /\ write' = [write EXCEPT ![w] = 0]

(* The write that loses its lock although it is under way, if the process  *)
(* that moves the lock has looked at an earlier one.                       *)
Robs(w) ==
  {write[v] : v \in {u \in Writers : /\ lock.owner = u /\ u # looked[w]
                                     /\ stage[u] \in Inside \cup {"opened"}}}

(* ... and moves away the file that has its name then, which need not be   *)
(* the one it looked at.                                                   *)
Quarantine(w) ==
  /\ stage[w] = "reclaiming"
  /\ lock' = NoLock
  /\ looked' = [looked EXCEPT ![w] = NoWriter]
  /\ robbed' = robbed \cup Robs(w)
  /\ \/ Goes(w, "waiting") /\ UNCHANGED write
     \/ TimesOut(w)
  /\ UNCHANGED <<fileVars, seen, written, history>>

(* The lock looked at last is not stale.                                   *)
GiveUp(w) ==
  /\ stage[w] = "waiting" /\ lock # NoLock /\ ~Stale(lock)
  /\ TimesOut(w)
  /\ UNCHANGED <<lock, fileVars, seen, written, history, lockPast>>

(* runWrite reads the latest plan; the caller's closure may refuse it.     *)
ReadPlan(w) ==
  /\ stage[w] = "locked"
  /\ \/ seen' = [seen EXCEPT ![w] = Latest] /\ Goes(w, "read")
     \/ UNCHANGED seen /\ Goes(w, "releasing")
  /\ UNCHANGED <<lock, fileVars, write, written, history, lockPast>>

(* Mutant: what a crash left in the temporary file is not truncated.       *)
FlushedBehind(w) == temp \cup {seen[w] \cup {write[w]}}

Flushed(w) == {seen[w] \cup {write[w]}}

(* writeAtomic: the temporary file is truncated, written and flushed ...   *)
Flush(w) ==
  /\ stage[w] = "read"
  /\ temp' = Flushed(w)
  /\ Goes(w, "flushed")
  /\ UNCHANGED <<lock, plan, backups, procVars, history, lockPast>>

Renamed(w) ==
  /\ IF temp = {} THEN Goes(w, "releasing") /\ UNCHANGED plan
                  ELSE Goes(w, "replaced") /\ plan' = temp
  /\ temp' = {}

(* ... and renamed over the plan ...                                       *)
Replace(w) ==
  /\ stage[w] = "flushed"
  /\ Renamed(w)
  /\ UNCHANGED <<lock, backups, procVars, history, lockPast>>

(* Mutant: the previous plan is deleted to make room.                      *)
SetAsideDeleted == backups

SetAsideAsBackup == backups \cup plan

(* ... or, where that is refused, moved into the place of the plan after   *)
(* the previous one was set aside.                                         *)
SetAside(w) ==
  /\ ReplaceRefused
  /\ stage[w] = "flushed" /\ plan # {}
  /\ backups' = SetAsideAsBackup
  /\ plan' = {}
  /\ Goes(w, "aside")
  /\ UNCHANGED <<lock, temp, procVars, history, lockPast>>

HandOff(w) ==
  /\ stage[w] = "aside"
  /\ \/ Renamed(w)
     \/ HandoffFails /\ Goes(w, "releasing") /\ UNCHANGED <<plan, temp>>
  /\ UNCHANGED <<lock, backups, procVars, history, lockPast>>

(* A backup that cannot be removed is left behind.                         *)
CleanBackups(w) ==
  /\ stage[w] = "replaced"
  /\ \E left \in {{}, backups} : backups' = left
  /\ written' = [written EXCEPT ![w] = TRUE]
  /\ Goes(w, "releasing")
  /\ UNCHANGED <<lock, plan, temp, seen, write, history, lockPast>>

(* releaseLock removes the lock if it is still its own and swallows every  *)
(* error; then the caller is answered.                                     *)
Release(w) ==
  /\ stage[w] = "releasing"
  /\ \/ lock' = IF lock.owner = w /\ lock.complete THEN NoLock ELSE lock
     \/ UnlinkFails /\ UNCHANGED lock
  /\ acked' = IF written[w] THEN acked \cup {write[w]} ELSE acked
  /\ Goes(w, "idle")
  /\ seen' = [seen EXCEPT ![w] = {}]
  /\ write' = [write EXCEPT ![w] = 0]
  /\ written' = [written EXCEPT ![w] = FALSE]
  /\ UNCHANGED <<fileVars, requests, crashes, lockPast>>
-----------------------------------------------------------------------------
(* A process dies anywhere, also halfway through the temporary file.       *)
Crash(w) ==
  /\ Alive(w) /\ crashes < MaxCrashes
  /\ crashes' = crashes + 1
  /\ Goes(w, "dead")
  /\ \/ UNCHANGED temp
     \/ stage[w] = "read" /\ temp' = {}
  /\ looked' = [looked EXCEPT ![w] = NoWriter]
  /\ UNCHANGED <<lock, plan, backups, procVars, requests, acked, robbed>>

(* A lock grows old, an incomplete one only once its owner is dead: a live *)
(* process is not suspended for eleven seconds between open and write.     *)
Age ==
  /\ lock # NoLock /\ ~lock.old
  /\ lock.complete \/ ~Alive(lock.owner)
  /\ lock' = [lock EXCEPT !.old = TRUE]
  /\ UNCHANGED <<fileVars, stage, procVars, history, lockPast>>

Next ==
  \/ \E w \in Writers :
       \/ Request(w) \/ OpenLock(w) \/ FillLock(w)
       \/ Reclaim(w) \/ Quarantine(w) \/ GiveUp(w)
       \/ ReadPlan(w) \/ Flush(w) \/ Replace(w) \/ SetAside(w) \/ HandOff(w)
       \/ CleanBackups(w) \/ Release(w) \/ Crash(w)
  \/ Age

Spec == Init /\ [][Next]_vars
-----------------------------------------------------------------------------
(* Two processes are inside a write at the same time only if the lock of   *)
(* one was moved away by a process that had looked at an earlier lock      *)
(* (reclaimStaleLock renames what has the name, quarantineLock): there is  *)
(* no other way past the lock, whatever locks dead processes have left.    *)
OneWriter ==
  \A v, w \in Writers :
    stage[v] \in Inside /\ stage[w] \in Inside /\ v # w => {write[v], write[w]} \cap robbed # {}

(* As long as no write has lost its lock that way, one that was answered   *)
(* with success is in every plan read later: no crash at any file          *)
(* operation, handoff or waiting write loses it.                           *)
AckedSurvive == robbed = {} => acked \subseteq Latest

(* A process that gives up waiting has not been waiting for a lock that    *)
(* nobody holds any more and that is old enough to be reclaimed            *)
(* ("A stale-lock pass will recover it").                                  *)
Abandoned(l) == l # NoLock /\ l.old /\ stage[l.owner] \notin Inside \cup {"opened"}
AbandonedLocksRecovered ==
  [][\A w \in Writers : stage[w] = "waiting" /\ stage'[w] = "idle" => ~Abandoned(lock')]_vars

(* What callers may rely on: reads and writes of a register, whatever is   *)
(* in which file and whoever dies, until a write is robbed of its lock;    *)
(* then only of an answer that belongs to a request.                       *)
Register == INSTANCE PlanRegister WITH
  content <- Latest, pending <- {write[w] : w \in Writers} \ {0}, promised <- acked,
  contested <- robbed

ImplementsRegister == Register!RegisterSpec
=============================================================================
