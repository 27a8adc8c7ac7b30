---------------------------- MODULE WorkspaceSweep ----------------------------
(***************************************************************************)
(* The files of one task's snapshot workspace and who takes them away: the *)
(* lease file (plan/workspace-lease.ts) with the heartbeats and watchers   *)
(* that write it (runChild in plan/tools.ts), the creation and the removal *)
(* of the workspace (plan/child-workspace.ts), and the background scan of  *)
(* plan/workspace-maintenance.ts with the sweeper of                       *)
(* plan/workspace-sweeper.ts, which may run in another process.            *)
(*                                                                         *)
(* A scan reads the plans once and the leases once, and acts on both some  *)
(* awaits later.  Deadlines are flags that time may turn; a machine that   *)
(* sleeps lets them pass while a child works.  Shared baselines, sizes,    *)
(* the rotation over many workspaces, unsafe paths and the purge of the    *)
(* quarantine are left out; what a dispatch does next to a loop that is    *)
(* still running is the subject of TaskLifecycle.                          *)
(***************************************************************************)
EXTENDS Naturals

CONSTANTS
  MaxRuns,         \* bound on the runs of the task
  MaxCrashes,      \* bound on the deaths of either process
  MaxFails,        \* bound on removals that fail (a file is in use)
  Late             \* may a lease lapse although its child works?

Runs == 1..MaxRuns

ASSUME SweepAssumption ==
  /\ MaxRuns \in Nat \ {0}
  /\ {MaxCrashes, MaxFails} \subseteq Nat
  /\ Late \in BOOLEAN

VARIABLES
  task,      \* what the plan says of the task, as the scan would read it
  run,       \* the newest run
  launch,    \* how far the dispatch of the newest run has come
  loop,      \* per run: the loop and its watcher
  session,   \* per run: the child session, which a continuation shares
  dir, manifest, lease,  \* the workspace, its manifest, its lease file
  aged,      \* are directory and manifest older than the grace period?
  cleaning,  \* is the plan's own removal between directory and sidecars?
  queue,     \* the sweeper's cleanup record of the task
  scan,      \* the scan under way
  raced,     \* was the newest dispatch made during a scan that takes the task for inactive?
  crashes, fails  \* bounded counters

files == <<dir, manifest, lease, aged>>
runs  == <<task, run, launch, loop, session>>
history == <<raced, crashes, fails>>
vars == <<runs, files, cleaning, queue, scan, history>>

(* working: dispatched or running; held: reported, approved, rejected with *)
(* feedback or not long ago, merged in a Step that goes on; over: anything *)
(* else the plan refers to; unknown: no plan refers to the workspace.      *)
TaskStates == {"working", "held", "over", "unknown"}
Active == task \in {"working", "held"}
Over   == task \in {"over", "unknown"}

(* live, past expires_at, or an hour past it; retained: retention_until is *)
(* still to come.                                                          *)
Ages   == {"live", "expired", "orphaned"}
Leases == [session : Nat, age : Ages, finished : BOOLEAN, retained : BOOLEAN]
NoLease == [session |-> 0, age |-> "orphaned", finished |-> FALSE, retained |-> FALSE]
Gone == ~dir /\ ~manifest /\ lease = NoLease

(* The order of a scan: looked, candidate, then removal, quarantine or     *)
(* neither, then whatever has no lease.                                    *)
ScanStages == {"idle", "looked", "candidate", "rmdir", "rmmanifest", "rmlease", "complete",
               "qdir", "qmanifest", "qlease", "unleased", "checked", "moving", "sidecar"}
(* plan, live: what the scan knows of the task; lease: its copy; target:   *)
(* the entry without a lease it looks at.                                  *)
Scans == [at : ScanStages, plan : {"active", "terminal", "unknown"}, live : BOOLEAN,
          lease : Leases, target : {"none", "dir", "manifest", "lease"}]
NoScan == [at |-> "idle", plan |-> "unknown", live |-> FALSE, lease |-> NoLease,
           target |-> "none"]

RunTypes ==
  /\ task \in TaskStates
  /\ run \in Runs
  /\ launch \in {"none", "committed", "manifest", "created"}
  /\ loop \in [Runs -> {"none", "live", "settling", "settled", "over"}]
  /\ session \in [Runs -> Nat]
FileTypes ==
  /\ dir \in BOOLEAN /\ manifest \in BOOLEAN /\ aged \in BOOLEAN /\ cleaning \in BOOLEAN
  /\ lease \in Leases
SweepTypes ==
  /\ queue \in {"none", "deleting", "failed", "completed"}
  /\ scan \in Scans
  /\ raced \in BOOLEAN
  /\ crashes \in Nat /\ fails \in Nat
TypeOK == RunTypes /\ FileTypes /\ SweepTypes

(* The first dispatch has been written to the plan.                        *)
Init ==
  /\ task = "working" /\ run = 1 /\ launch = "committed"
  /\ loop = [r \in Runs |-> "none"]
  /\ session = [r \in Runs |-> IF r = 1 THEN 1 ELSE 0]
  /\ dir = FALSE /\ manifest = FALSE /\ lease = NoLease /\ aged = FALSE
  /\ cleaning = FALSE
  /\ queue = "none"
  /\ scan = NoScan
  /\ raced = FALSE
  /\ crashes = 0 /\ fails = 0
-----------------------------------------------------------------------------
(* WorkspaceLeaseStore.                                                    *)

Created(s) == [session |-> s, age |-> "live", finished |-> FALSE, retained |-> FALSE]
Renewed(l) == [l EXCEPT !.age = "live"]

(* Whoever's lease it is; the first to finish it sets the retention.       *)
Finished(l) ==
  IF l = NoLease \/ l.finished THEN l
  ELSE [l EXCEPT !.age = "expired", !.finished = TRUE, !.retained = TRUE]
-----------------------------------------------------------------------------
(* Dispatch, child and review.                                             *)

Loaded == dir /\ manifest

(* A scan that has found the task inactive, and acts on it some awaits     *)
(* later.                                                                  *)
FoundInactive == scan.at # "idle" /\ scan.plan # "active"

(* The plan lists the workspace before anything of it exists.  Nothing     *)
(* makes a dispatch wait for a scan.                                       *)
Dispatch ==
  /\ task = "over" /\ launch = "none" /\ ~cleaning /\ run < MaxRuns
  /\ \A r \in Runs : loop[r] # "live"
  /\ task' = "working" /\ launch' = "committed"
  /\ run' = run + 1
  /\ session' = [session EXCEPT ![run + 1] = run + 1]
  /\ raced' = FoundInactive
  /\ UNCHANGED <<loop, files, cleaning, queue, scan, crashes, fails>>

(* A workspace that is complete is used again.  The manager of the         *)
(* workspaces is made for one tool call and remembers no earlier one.      *)
WriteManifest ==
  /\ launch = "committed"
  /\ IF Loaded
     THEN /\ launch' = "created"
          /\ UNCHANGED <<manifest, aged>>
     ELSE /\ launch' = "manifest"
          /\ manifest' = TRUE /\ aged' = FALSE
  /\ UNCHANGED <<task, run, loop, session, dir, lease, cleaning, queue, scan, history>>

MakeDirectory ==
  /\ launch = "manifest"
  /\ launch' = "created"
  /\ dir' = TRUE /\ aged' = FALSE
  /\ UNCHANGED <<task, run, loop, session, manifest, lease, cleaning, queue, scan, history>>

CreateFails ==
  /\ launch \in {"committed", "manifest"} /\ ~Loaded /\ fails < MaxFails
  /\ launch' = "none" /\ task' = "over"
  /\ dir' = FALSE
  /\ manifest' = (manifest /\ launch = "committed")
  /\ fails' = fails + 1
  /\ UNCHANGED <<run, loop, session, lease, aged, cleaning, queue, scan, raced, crashes>>

StartChild ==
  /\ launch = "created"
  /\ launch' = "none"
  /\ lease' = Created(session[run])
  /\ loop' = [loop EXCEPT ![run] = "live"]
  /\ UNCHANGED <<task, run, session, dir, manifest, aged, cleaning, queue, scan, history>>

Heartbeat(r) ==
  /\ loop[r] = "live"
  /\ lease # NoLease /\ lease.session = session[r]
  /\ lease' = Renewed(lease)
  /\ UNCHANGED <<runs, dir, manifest, aged, cleaning, queue, scan, history>>

Report ==
  /\ task = "working" /\ loop[run] = "live"
  /\ task' = "held"
  /\ UNCHANGED <<run, launch, loop, session, files, cleaning, queue, scan, history>>

(* The review sends the child back to work in its session and directory,   *)
(* perhaps before the watcher of its last run is through.                  *)
Continue ==
  /\ task = "held" /\ launch = "none" /\ run < MaxRuns
  /\ task' = "working"
  /\ run' = run + 1
  /\ IF Loaded
     THEN /\ session' = [session EXCEPT ![run + 1] = session[run]]
          /\ lease' = Created(session[run])
          /\ loop' = [loop EXCEPT ![run + 1] = "live"]
          /\ UNCHANGED launch
     ELSE /\ session' = [session EXCEPT ![run + 1] = run + 1]
          /\ launch' = "committed"
          /\ UNCHANGED <<lease, loop>>
  /\ UNCHANGED <<dir, manifest, aged, cleaning, queue, scan, history>>

(* settleAndNotify: the heartbeats stop, the exit is settled, the lease is *)
(* finished.                                                               *)
LoopEnds(r) ==
  /\ loop[r] = "live"
  /\ loop' = [loop EXCEPT ![r] = "settling"]
  /\ UNCHANGED <<task, run, launch, session, files, cleaning, queue, scan, history>>

SettleExit(r) ==
  /\ loop[r] = "settling"
  /\ loop' = [loop EXCEPT ![r] = "settled"]
  /\ task' = IF r = run /\ task = "working" THEN "held" ELSE task
  /\ UNCHANGED <<run, launch, session, files, cleaning, queue, scan, history>>

FinishLease(r) ==
  /\ loop[r] = "settled"
  /\ loop' = [loop EXCEPT ![r] = "over"]
  /\ lease' = Finished(lease)
  /\ UNCHANGED <<task, run, launch, session, dir, manifest, aged, cleaning, queue, scan, history>>

(* Cancelled; merged with its whole Step; dismissed; rejected a day ago.   *)
Conclude ==
  /\ Active /\ launch = "none"
  /\ task' = "over"
  /\ UNCHANGED <<run, launch, loop, session, files, cleaning, queue, scan, history>>

(* terminateChild: the intent keeps the watcher from settling.             *)
Terminate(r) ==
  /\ task = "over" /\ loop[r] = "live"
  /\ loop' = [loop EXCEPT ![r] = "over"]
  /\ lease' = Finished(lease)
  /\ UNCHANGED <<task, run, launch, session, dir, manifest, aged, cleaning, queue, scan, history>>

(* The plan or its session is deleted.                                     *)
Forget ==
  /\ task = "over"
  /\ task' = "unknown"
  /\ UNCHANGED <<run, launch, loop, session, files, cleaning, queue, scan, history>>

(* ChildWorkspace.remove, called by the plan's cleanup; it may never be,   *)
(* or fail.                                                                *)
CleanDirectory ==
  /\ task = "over" /\ dir /\ ~cleaning
  /\ \A r \in Runs : loop[r] # "live"
  /\ dir' = FALSE /\ cleaning' = TRUE
  /\ UNCHANGED <<runs, manifest, lease, aged, queue, scan, history>>

CleanSidecars ==
  /\ cleaning
  /\ manifest' = FALSE /\ lease' = NoLease
  /\ cleaning' = FALSE
  /\ UNCHANGED <<runs, dir, aged, queue, scan, history>>
-----------------------------------------------------------------------------
(* The scan.                                                               *)

(* The copy of the lease is not looked at again once a decision is made.   *)
Continues(at) == scan' = [scan EXCEPT !.at = at, !.lease = NoLease]

(* Mutant: a rejected task that will be retried is taken for terminal.     *)
PlanSaysWorking ==
  CASE task = "working" -> "active"
    [] task \in {"held", "over"} -> "terminal"
    [] task = "unknown" -> "unknown"
(* Mutant: the plan's own word is used.                                    *)
PlanSaysVerbatim == task
(* planTaskIsActive.                                                       *)
PlanSays ==
  CASE Active -> "active"
    [] task = "over" -> "terminal"
    [] task = "unknown" -> "unknown"

(* The live activations and the plans' references are read at one time.    *)
Look ==
  /\ scan.at = "idle"
  /\ \E seen \in BOOLEAN :
       /\ seen => \E r \in Runs : loop[r] = "live"
       /\ Late \/ seen \/ \A r \in Runs : loop[r] # "live"
       /\ scan' = [NoScan EXCEPT !.at = "looked", !.live = seen, !.plan = PlanSays]
  /\ UNCHANGED <<runs, files, cleaning, queue, history>>

(* candidates() copies every lease before the first one is acted upon.     *)
ReadLease ==
  /\ scan.at = "looked"
  /\ IF lease = NoLease THEN Continues("unleased")
     ELSE scan' = [scan EXCEPT !.at = "candidate", !.lease = lease]
  /\ UNCHANGED <<runs, files, cleaning, queue, history>>

Lapsed(l) == l.age # "live" /\ ~l.retained
Removable == scan.at = "candidate" /\ Lapsed(scan.lease) /\ manifest /\ ~scan.live

(* A failed removal waits for its time; a record that is completed is      *)
(* returned as it is by the cleanup service.                               *)
Preserve ==
  /\ scan.at = "candidate"
  /\ \/ ~Removable
     \/ scan.plan = "active"
     \/ scan.plan = "unknown" /\ scan.lease.age # "orphaned"
     \/ scan.plan = "terminal" /\ queue \in {"failed", "completed"}
  /\ Continues("unleased")
  /\ UNCHANGED <<runs, files, cleaning, queue, history>>

BeginRemoval ==
  /\ Removable /\ scan.plan = "terminal" /\ queue # "completed"
  /\ queue' = "deleting"
  /\ Continues("rmdir")
  /\ UNCHANGED <<runs, files, cleaning, history>>

BeginQuarantine ==
  /\ Removable /\ scan.plan = "unknown" /\ scan.lease.age = "orphaned"
  /\ Continues("qdir")
  /\ UNCHANGED <<runs, files, cleaning, queue, history>>

(* defaultRemove.                                                          *)
RemoveDirectory ==
  /\ scan.at = "rmdir"
  /\ dir' = FALSE
  /\ Continues("rmmanifest")
  /\ UNCHANGED <<runs, manifest, lease, aged, cleaning, queue, history>>

RemoveManifest ==
  /\ scan.at = "rmmanifest"
  /\ manifest' = FALSE
  /\ Continues("rmlease")
  /\ UNCHANGED <<runs, dir, lease, aged, cleaning, queue, history>>

RemoveLease ==
  /\ scan.at = "rmlease"
  /\ lease' = NoLease
  /\ Continues("complete")
  /\ UNCHANGED <<runs, dir, manifest, aged, cleaning, queue, history>>

Complete ==
  /\ scan.at = "complete"
  /\ queue' = "completed"
  /\ Continues("unleased")
  /\ UNCHANGED <<runs, files, cleaning, history>>

RemovalFails ==
  /\ scan.at \in {"rmdir", "rmmanifest", "rmlease"} /\ fails < MaxFails
  /\ queue' = "failed" /\ fails' = fails + 1
  /\ Continues("unleased")
  /\ UNCHANGED <<runs, files, cleaning, raced, crashes>>

(* defaultQuarantine; a directory that is not there cannot be renamed.     *)
QuarantineDirectory ==
  /\ scan.at = "qdir"
  /\ dir' = FALSE
  /\ Continues(IF dir THEN "qmanifest" ELSE "unleased")
  /\ UNCHANGED <<runs, manifest, lease, aged, cleaning, queue, history>>

QuarantineManifest ==
  /\ scan.at = "qmanifest"
  /\ manifest' = FALSE
  /\ Continues("qlease")
  /\ UNCHANGED <<runs, dir, lease, aged, cleaning, queue, history>>

QuarantineLease ==
  /\ scan.at = "qlease"
  /\ lease' = NoLease
  /\ Continues("unleased")
  /\ UNCHANGED <<runs, dir, manifest, aged, cleaning, queue, history>>

(* Mutant: a lease file whose directory is gone is left where it is.       *)
ReclaimableFiles(target) ==
  /\ scan.plan # "active" /\ ~scan.live
  /\ CASE target = "dir"      -> dir /\ lease = NoLease
       [] target = "manifest" -> manifest /\ ~dir /\ lease = NoLease
       [] target = "lease"    -> FALSE
(* reclaimUnleased: a directory or a sidecar without directory, if it is   *)
(* not protected and has no lease; a lease file only long after its end.   *)
Reclaimable(target) ==
  /\ scan.plan # "active" /\ ~scan.live
  /\ CASE target = "dir"      -> dir /\ lease = NoLease
       [] target = "manifest" -> manifest /\ ~dir /\ lease = NoLease
       [] target = "lease"    -> lease # NoLease /\ ~dir /\ lease.age = "orphaned"
                                 /\ ~lease.retained
Targets == {"dir", "manifest", "lease"}

PickUnleased ==
  /\ scan.at = "unleased"
  /\ \E target \in Targets :
       /\ Reclaimable(target)
       /\ scan' = [scan EXCEPT !.at = "checked", !.target = target]
  /\ UNCHANGED <<runs, files, cleaning, queue, history>>

EndScan ==
  /\ scan.at = "unleased" /\ \A target \in Targets : ~Reclaimable(target)
  /\ scan' = NoScan
  /\ UNCHANGED <<runs, files, cleaning, queue, history>>

(* After the await: is it old, and still without a lease?                  *)
Recheck ==
  /\ scan.at = "checked"
  /\ scan' = IF scan.target = "lease" \/ (aged /\ lease = NoLease)
             THEN [scan EXCEPT !.at = "moving"] ELSE NoScan
  /\ UNCHANGED <<runs, files, cleaning, queue, history>>

MoveUnleased ==
  /\ scan.at = "moving"
  /\ dir' = (dir /\ scan.target # "dir")
  /\ manifest' = (manifest /\ scan.target # "manifest")
  /\ lease' = IF scan.target = "lease" THEN NoLease ELSE lease
  /\ scan' = IF scan.target = "dir" /\ dir THEN [scan EXCEPT !.at = "sidecar"] ELSE NoScan
  /\ UNCHANGED <<runs, aged, cleaning, queue, history>>

MoveSidecar ==
  /\ scan.at = "sidecar"
  /\ manifest' = FALSE
  /\ scan' = NoScan
  /\ UNCHANGED <<runs, dir, lease, aged, cleaning, queue, history>>
-----------------------------------------------------------------------------
(* Time and failures.                                                      *)

Beating(s) == \E r \in Runs : loop[r] = "live" /\ session[r] = s
LapseOf(l) == [l EXCEPT !.age = IF @ = "live" THEN "expired" ELSE "orphaned"]

LeaseLapses ==
  /\ lease # NoLease /\ lease.age # "orphaned"
  /\ Late \/ ~Beating(lease.session)
  /\ lease' = LapseOf(lease)
  /\ UNCHANGED <<runs, dir, manifest, aged, cleaning, queue, scan, history>>

RetentionEnds ==
  /\ lease.retained
  /\ lease' = [lease EXCEPT !.retained = FALSE]
  /\ UNCHANGED <<runs, dir, manifest, aged, cleaning, queue, scan, history>>

FilesAge ==
  /\ (dir \/ manifest) /\ ~aged
  /\ aged' = TRUE
  /\ UNCHANGED <<runs, dir, manifest, lease, cleaning, queue, scan, history>>

RetryIsDue ==
  /\ queue = "failed"
  /\ queue' = "deleting"
  /\ UNCHANGED <<runs, files, cleaning, scan, history>>

(* The process of the main agent dies; its next one rejects what it finds  *)
(* in work (PlanRecovery).                                                 *)
RunnerDies ==
  /\ crashes < MaxCrashes
  /\ crashes' = crashes + 1
  /\ loop' = [r \in Runs |-> IF loop[r] = "none" THEN "none" ELSE "over"]
  /\ launch' = "none"
  /\ cleaning' = FALSE
  /\ task' = IF task = "working" THEN "held" ELSE task
  /\ UNCHANGED <<run, session, files, queue, scan, raced, fails>>

ScannerDies ==
  /\ scan.at # "idle" /\ crashes < MaxCrashes
  /\ crashes' = crashes + 1
  /\ scan' = NoScan
  /\ UNCHANGED <<runs, files, cleaning, queue, raced, fails>>
-----------------------------------------------------------------------------
Launching == WriteManifest \/ MakeDirectory \/ StartChild
Watching(r) == LoopEnds(r) \/ SettleExit(r) \/ FinishLease(r) \/ Terminate(r)
Scanning ==
  \/ Look \/ ReadLease \/ Preserve \/ BeginRemoval \/ BeginQuarantine
  \/ RemoveDirectory \/ RemoveManifest \/ RemoveLease \/ Complete
  \/ QuarantineDirectory \/ QuarantineManifest \/ QuarantineLease
  \/ PickUnleased \/ EndScan \/ Recheck \/ MoveUnleased \/ MoveSidecar
Time == LeaseLapses \/ RetentionEnds \/ FilesAge \/ RetryIsDue

Next ==
  \/ Dispatch \/ Launching \/ CreateFails \/ Report \/ Continue \/ Conclude \/ Forget
  \/ CleanDirectory \/ CleanSidecars
  \/ \E r \in Runs : Heartbeat(r) \/ Watching(r)
  \/ Scanning \/ RemovalFails \/ Time \/ RunnerDies \/ ScannerDies

Spec == Init /\ [][Next]_vars

(* Promises go on, loops end (they have a budget), time passes, and there  *)
(* is a scan every ten minutes wherever the program runs.                  *)
FairSpec ==
  /\ Spec
  /\ WF_vars(Launching) /\ WF_vars(CleanSidecars) /\ WF_vars(Scanning)
  /\ \A r \in Runs : WF_vars(Watching(r))
  /\ WF_vars(LeaseLapses) /\ WF_vars(RetentionEnds) /\ WF_vars(FilesAge) /\ WF_vars(RetryIsDue)
-----------------------------------------------------------------------------
(* A child of a task the plan still cares for works in a directory that is *)
(* there: whatever lapses while the machine sleeps, whoever finishes the   *)
(* lease of the resumed run, and whichever process scans                   *)
(* (WorkspaceSweeper.executeScan, reclaimUnleased).  It can lose it only   *)
(* if it was dispatched while a scan that had found the task inactive was  *)
(* under way, since a scan does not look at the plan again.                *)
LoopHasDirectory ==
  Active /\ (\E r \in Runs : loop[r] = "live") => dir \/ raced

(* The files of a task that is over are taken away in the end, also when a *)
(* process died between two of them, or one was in use: no order of the    *)
(* removals leaves something no scan will take (defaultRemove,             *)
(* defaultQuarantine, reclaimUnleased).  A scan that takes the manifest of *)
(* a workspace under construction can: a directory and a lease without     *)
(* manifest are neither removed nor unleased.                              *)
OverIsReclaimed == Over /\ queue # "completed" /\ ~raced ~> Gone \/ ~Over
=============================================================================
