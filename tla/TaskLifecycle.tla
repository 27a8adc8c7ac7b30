---------------------------- MODULE TaskLifecycle ----------------------------
(***************************************************************************)
(* One standard task of the active Step in multi-agent mode: dispatch,     *)
(* report, review, cancel, merge and cleanup (PlanProtocol in              *)
(* plan/protocol.ts) together with the child loop and its exit watcher     *)
(* (runChild in plan/tools.ts).                                            *)
(*                                                                         *)
(* Each action is the code between two awaits.  The plan file is written   *)
(* by one closure at a time, so a write is atomic; what was read before an *)
(* await may be stale after it.  Runs are numbered in the order they are   *)
(* prepared, and the session of a freshly created child carries the number *)
(* of the run that created it.  The process does not crash, hence no lease *)
(* expires (LoopKeepsRow of PlanActivationProofs).  The workspace is a     *)
(* worktree or a snapshot, in the one directory reserved for the task.     *)
(*                                                                         *)
(* Every call of a tool builds a PlanProtocol of its own (protocolFor) and *)
(* with it a WorkspaceCleanupService, so cleanups of different calls do    *)
(* not know of each other.                                                 *)
(***************************************************************************)
EXTENDS Naturals

CONSTANTS
  MaxRuns,        \* bound on the dispatches explored
  MaxInterrupts,  \* bound on the user's interruptions of the main agent
  PrecheckFails,  \* may a child report artifacts that do not exist?
  StopFails,      \* may a child refuse to stop in time?
  DeleteFails     \* may the removal of a workspace fail?

ASSUME LifecycleAssumption ==
  /\ MaxRuns \in Nat /\ MaxInterrupts \in Nat
  /\ {PrecheckFails, StopFails, DeleteFails} \subseteq BOOLEAN

Runs    == 1..MaxRuns
NoRun   == 0
NoChild == 0      \* the placeholder "child_<session>_<task>" before a child exists
Host    == "host" \* the only process

Activation == INSTANCE ActivationRow WITH
  Owners <- {Host}, NoOwner <- "nobody", LeaseTtl <- 1

VARIABLES
  task,        \* the task's record in plan.json
  launch,      \* per run: where its launch stands inside dispatch()
  loop,        \* per run: its runChild fiber
  registered,  \* per child session: childRunRegistry
  intents,     \* child sessions with an entry in childRunIntents
  activation,  \* per child session: its plan_activation row
  workspace,   \* does the task's one workspace directory exist?
  jobs,        \* per tool call: its workspace cleanup
  merging,     \* the Merge.apply call: where it stands and for which run
  cancelling,  \* is a Dispatch_cancel between its fence and its write?
  retrying,    \* has a Plan_update yet to dispatch what it rejected?
  main,        \* the calls the main agent waits for
  changed,     \* has a call of its present turn changed the plan?
  interrupts,  \* history: interruptions so far
  overlapped   \* history: has a launch met a cleanup, another launch or the
               \* child of an earlier one that could not be stopped?

childVars == <<loop, registered, intents, activation>>
mainVars == <<main, changed>>
callVars == <<launch, merging, cancelling, retrying, mainVars>>
program == <<task, launch, loop, registered, intents, activation, workspace, jobs,
             merging, cancelling, retrying, mainVars, interrupts>>
vars == <<program, overlapped>>

Statuses == {"pending", "dispatched", "running", "reported", "approved", "rejected"}

(* dispatch.run_id, .child_session_id, .activation_generation (0: none),   *)
(* .cancelled_at # null; the run whose report is stored and whether it     *)
(* carries review feedback; merge.status with the run merged last,         *)
(* merge.cleanup and merge.cleanup_record.state.                           *)
Tasks == [status : Statuses, run : Runs \cup {NoRun}, child : Runs \cup {NoChild},
          generation : Nat, cancelled : BOOLEAN,
          report : Runs \cup {NoRun}, feedback : BOOLEAN,
          merge : {"pending", "running", "merged", "conflict", "failed"},
          merged : Runs \cup {NoRun},
          cleanup : {"not_started", "pending", "completed", "failed"},
          record : {"none", "stopping", "deleting", "completed", "failed"}]

LaunchStages == {"none", "prepared", "workspace", "create", "mark", "claim",
                 "publish", "start", "failing", "done"}
(* resumes: the child session to continue, or NoChild for a fresh child;   *)
(* child: the session this launch would have to clean up; automatic: made  *)
(* by Plan_update, which passes no abort signal on.                        *)
Launches == [stage : LaunchStages, resumes : Runs \cup {NoChild},
             child : Runs \cup {NoChild}, generation : Nat,
             aborted : BOOLEAN, automatic : BOOLEAN]

(* A loop that failed is settled twice: by catchCause and by flatMap.      *)
LoopStages == {"none", "running", "failed", "ended", "parking failed", "parking", "over"}

(* The tool calls that can start a cleanup.                                *)
Calls == ({"dispatch", "report"} \X Runs) \cup ({"cancel", "merge", "update"} \X {NoRun})
Update == <<"update", NoRun>>
Cancel == <<"cancel", NoRun>>
Merge  == <<"merge", NoRun>>

(* removes: can this call remove the directory?                            *)
Jobs == [stage : {"idle", "drain", "begin", "mark", "stop", "delete", "remove"},
         child : Runs \cup {NoChild}, generation : Nat, removes : BOOLEAN]
NoJob == [stage |-> "idle", child |-> NoChild, generation |-> 0, removes |-> FALSE]

Mergings == [stage : {"none", "begun", "running"}, run : Runs \cup {NoRun}]
NoMerging == [stage |-> "none", run |-> NoRun]

(* What a field of the program may hold: a run is known by its number, a   *)
(* generation is positive once claimed.                                    *)
TypeOK ==
  /\ task \in Tasks
  /\ launch \in [Runs -> Launches]
  /\ loop \in [Runs -> LoopStages]
  /\ registered \in [Runs -> Runs \cup {NoRun}]
  /\ intents \subseteq Runs
  /\ activation \in [Runs -> Activation!Row \cup {Activation!NoRow}]
  /\ workspace \in BOOLEAN
  /\ jobs \in [Calls -> Jobs]
  /\ merging \in Mergings
  /\ cancelling \in BOOLEAN
  /\ retrying \in BOOLEAN
  /\ main \subseteq Calls
  /\ {changed, overlapped} \subseteq BOOLEAN
  /\ interrupts \in Nat

Init ==
  /\ task = [status |-> "pending", run |-> NoRun, child |-> NoChild,
             generation |-> 0, cancelled |-> FALSE,
             report |-> NoRun, feedback |-> FALSE,
             merge |-> "pending", merged |-> NoRun,
             cleanup |-> "not_started", record |-> "none"]
  /\ launch = [r \in Runs |-> [stage |-> "none", resumes |-> NoChild, child |-> NoChild,
                               generation |-> 0, aborted |-> FALSE, automatic |-> FALSE]]
  /\ loop = [r \in Runs |-> "none"]
  /\ registered = [r \in Runs |-> NoRun]
  /\ intents = {}
  /\ activation = [r \in Runs |-> Activation!NoRow]
  /\ workspace = FALSE
  /\ jobs = [c \in Calls |-> NoJob]
  /\ merging = NoMerging
  /\ cancelling = FALSE
  /\ retrying = FALSE
  /\ main = {}
  /\ changed = FALSE
  /\ interrupts = 0
  /\ overlapped = FALSE
-----------------------------------------------------------------------------
(* Helpers.                                                                *)

Dispatched == task.run # NoRun
(* Mutant: a rejected task is always given to a fresh child.               *)
ContinuesNever == FALSE

(* hasReviewContinuation: a rejected report with a recorded child session. *)
Continues == Dispatched /\ task.feedback

(* Bound: a task whose last launch failed before its child existed, and     *)
(* that has the feedback of an earlier run, is not dispatched again (the   *)
(* code would resume the placeholder session, whose loop fails at once).   *)
ContinuationExplored == task.child # NoChild

Dispatchable == task.status \in {"pending", "rejected"}

Child(r) == IF launch[r].resumes = NoChild THEN r ELSE launch[r].resumes

Launched(r, stage) == launch' = [launch EXCEPT ![r].stage = stage]

(* The calls of one turn are made together and all of them waited for.     *)
(* Those that change the plan are served one by one, and after one that    *)
(* did the others are skipped; Merge.apply is not among them.              *)
MayCall == main = {} \/ (main = {Merge} /\ ~changed)
Called(call) == main' = main \cup {call} /\ changed' = TRUE
AtOnce == UNCHANGED main /\ changed' = (main # {})

(* The main agent gets an answer, unless it was interrupted; its turn ends *)
(* with the last one.                                                      *)
Answered(call) == main' = main \ {call} /\ changed' = (changed /\ main \ {call} # {})

(* transitionTaskActivation without its effect: a dispatch without a       *)
(* generation is not fenced at all.                                        *)
Fenced(child, generation, to) ==
  generation # 0 /\ child # NoChild =>
    /\ Activation!CasOk(activation[child], Host, generation)
    /\ Activation!CanTransition(activation[child], to)

ActivationMoved(child, generation, to) ==
  activation' =
    IF generation = 0 \/ child = NoChild THEN activation
    ELSE [activation EXCEPT ![child] = Activation!Transitioned(@, to, 1)]

Claim(child, r) == activation' = [activation EXCEPT ![child] = Activation!Claimed(@, Host, r, 1)]
ClaimedGeneration(child, r) == Activation!Claimed(activation[child], Host, r, 1).generation

(* A call goes on to clean up on behalf of the child it knows of.          *)
CleansUp(call, stage, child) ==
  /\ jobs[call] = NoJob
  /\ jobs' = [jobs EXCEPT ![call] = [NoJob EXCEPT !.stage = stage, !.child = child]]
-----------------------------------------------------------------------------
(* Dispatch_dispatch.                                                      *)

(* Everything up to the commit: resume or fresh is decided from this read. *)
Prepared(r, automatic) ==
  /\ launch[r].stage = "none"
  /\ \A s \in Runs : s < r => launch[s].stage # "none"
  /\ Dispatchable
  /\ Continues => workspace /\ ContinuationExplored
  /\ launch' = [launch EXCEPT ![r].stage = "prepared", ![r].automatic = automatic,
                              ![r].resumes = IF Continues THEN task.child ELSE NoChild]
  /\ UNCHANGED <<task, childVars, workspace, jobs, merging, cancelling, interrupts>>

Prepare(r) ==
  /\ MayCall
  /\ Prepared(r, FALSE)
  /\ Called(<<"dispatch", r>>)
  /\ UNCHANGED retrying

(* Plan_update dispatches a task again whose report it has rejected ...    *)
PrepareRetry(r) ==
  /\ retrying
  /\ Prepared(r, TRUE)
  /\ retrying' = FALSE
  /\ main' = IF Update \in main THEN (main \ {Update}) \cup {<<"dispatch", r>>} ELSE main
  /\ UNCHANGED changed

(* ... unless that is refused.                                             *)
RefuseRetry ==
  /\ retrying
  /\ ~Dispatchable \/ (Continues /\ ~workspace)
  /\ retrying' = FALSE
  /\ Answered(Update)
  /\ UNCHANGED <<task, launch, childVars, workspace, jobs, merging, cancelling, interrupts>>

(* Mutant: the commit keeps the merge record of the run before.            *)
CommittedKeepingMerge(t, r, child) ==
  [t EXCEPT !.status = "dispatched", !.run = r, !.child = child, !.generation = 0,
            !.cancelled = FALSE]

Committed(t, r, child) ==
  [t EXCEPT !.status = "dispatched", !.run = r, !.child = child, !.generation = 0,
            !.cancelled = FALSE, !.merge = "pending", !.cleanup = "not_started",
            !.record = "none"]

(* The write that makes the run current.                                   *)
Commit(r) ==
  /\ launch[r].stage = "prepared"
  /\ IF ~launch[r].aborted /\ Dispatchable
     THEN /\ task' = Committed(task, r, launch[r].resumes)
          /\ Launched(r, IF launch[r].resumes = NoChild THEN "workspace" ELSE "claim")
          /\ UNCHANGED mainVars
     ELSE /\ Launched(r, "done")
          /\ Answered(<<"dispatch", r>>)
          /\ UNCHANGED task
  /\ UNCHANGED <<childVars, workspace, jobs, merging, cancelling, retrying, interrupts>>

(* Launching a fresh child: its workspace ...                              *)
CreateWorkspace(r) ==
  /\ launch[r].stage = "workspace"
  /\ \/ workspace' = TRUE /\ Launched(r, IF launch[r].aborted \/ ~Dispatched THEN "failing" ELSE "create")
     \/ UNCHANGED workspace /\ Launched(r, "failing")
  /\ UNCHANGED <<task, childVars, jobs, merging, cancelling, retrying, mainVars, interrupts>>

(* ... its session, registered and claimed ...                             *)
CreateChild(r) ==
  /\ launch[r].stage = "create"
  /\ \/ /\ Launched(r, "failing")
        /\ UNCHANGED <<registered, activation>>
     \/ /\ launch[r].aborted
        /\ launch' = [launch EXCEPT ![r].stage = "failing", ![r].child = r]
        /\ UNCHANGED <<registered, activation>>
     \/ /\ ~launch[r].aborted
        /\ registered' = [registered EXCEPT ![r] = r]
        /\ Claim(r, r)
        /\ launch' = [launch EXCEPT ![r].stage = "mark", ![r].child = r,
                                    ![r].generation = ClaimedGeneration(r, r)]
  /\ UNCHANGED <<task, loop, intents, workspace, jobs, merging, cancelling, retrying, mainVars, interrupts>>

(* ... and its identity in the plan.                                       *)
MarkCreated(r) ==
  /\ launch[r].stage = "mark"
  /\ IF Dispatched
     THEN /\ task' = [task EXCEPT !.child = r, !.generation = launch[r].generation]
          /\ Launched(r, "publish")
     ELSE UNCHANGED task /\ Launched(r, "failing")
  /\ UNCHANGED <<childVars, workspace, jobs, merging, cancelling, retrying, mainVars, interrupts>>

(* Launching a resumed child: the same session, claimed for the new run.   *)
ClaimResumed(r) ==
  /\ launch[r].stage = "claim"
  /\ IF launch[r].aborted
     THEN Launched(r, "failing") /\ UNCHANGED <<registered, activation>>
     ELSE LET c == launch[r].resumes IN
          /\ registered' = [registered EXCEPT ![c] = r]
          /\ Claim(c, r)
          /\ launch' = [launch EXCEPT ![r].stage = "publish", ![r].child = c,
                                      ![r].generation = ClaimedGeneration(c, r)]
  /\ UNCHANGED <<task, loop, intents, workspace, jobs, merging, cancelling, retrying, mainVars, interrupts>>

(* updateDispatchLifecycle(running): a resumed launch writes its           *)
(* generation here.  There is no look at the run that is current.          *)
Publish(r) ==
  /\ launch[r].stage = "publish"
  /\ IF Dispatched
     THEN /\ task' = [task EXCEPT !.status = "running", !.generation =
                        IF launch[r].resumes = NoChild THEN @ ELSE launch[r].generation]
          /\ Launched(r, "start")
     ELSE UNCHANGED task /\ Launched(r, "failing")
  /\ UNCHANGED <<childVars, workspace, jobs, merging, cancelling, retrying, mainVars, interrupts>>

(* children.start or resume, then the activation goes to running.          *)
Start(r) ==
  /\ launch[r].stage = "start"
  /\ IF launch[r].aborted
     THEN Launched(r, "failing") /\ UNCHANGED <<loop, activation, mainVars>>
     ELSE /\ loop' = [loop EXCEPT ![r] = "running"]
          /\ IF Fenced(Child(r), launch[r].generation, "running")
             THEN /\ ActivationMoved(Child(r), launch[r].generation, "running")
                  /\ Launched(r, "done")
                  /\ Answered(<<"dispatch", r>>)
             ELSE Launched(r, "failing") /\ UNCHANGED <<activation, mainVars>>
  /\ UNCHANGED <<task, registered, intents, workspace, jobs, merging, cancelling, retrying, interrupts>>

(* failDispatch: park the task, then clean up what this launch made.       *)
FailDispatch(r) ==
  /\ launch[r].stage = "failing"
  /\ task' = IF Dispatched THEN [task EXCEPT !.status = "rejected"] ELSE task
  /\ Launched(r, "done")
  /\ CleansUp(<<"dispatch", r>>, "begin", launch[r].child)
  /\ UNCHANGED <<childVars, workspace, merging, cancelling, retrying, mainVars, interrupts>>
-----------------------------------------------------------------------------
(* The child.                                                              *)

(* Mutant: the report is matched by task id only.                          *)
ReportAcceptedForTask(r) == task.status = "running"

(* The run in the report has to be the current one and still running.      *)
ReportAccepted(r) == task.run = r /\ task.status = "running"

(* Report, from a loop whose session is registered for the run.  A report  *)
(* that fails the artifact check for the last time parks the task and      *)
(* cleans up, but has no workspace manager to remove the directory with.   *)
Report(r) ==
  /\ loop[r] = "running"
  /\ registered[Child(r)] = r
  /\ ReportAccepted(r)
  /\ \/ /\ task' = [task EXCEPT !.status = "reported", !.report = r]
        /\ UNCHANGED jobs
     \/ /\ PrecheckFails
        /\ task' = [task EXCEPT !.status = "rejected", !.report = r]
        /\ CleansUp(<<"report", r>>, "begin", NoChild)
  /\ UNCHANGED <<callVars, childVars, workspace, interrupts>>

Ended(child, how) ==
  loop' = [r \in Runs |-> IF loop[r] = "running" /\ Child(r) = child THEN how ELSE loop[r]]

(* The loop of a session ends, for every fiber that waits for it.          *)
LoopEnds(child) ==
  /\ \E r \in Runs : loop[r] = "running" /\ Child(r) = child
  /\ \E how \in {"ended", "failed"} : Ended(child, how)
  /\ UNCHANGED <<task, registered, intents, activation, workspace, callVars, jobs, interrupts>>

Settled(r) ==
  loop' = [loop EXCEPT ![r] = IF @ \in {"failed", "parking failed"} THEN "ended" ELSE "over"]

(* Mutant: only a child that never got to run is parked.                   *)
NeedsParkingUnstarted(r) ==
  /\ task.run = r /\ task.child = Child(r)
  /\ ~task.cancelled
  /\ task.status = "dispatched"

(* settleChildExit's classification of the task for the run that ended.    *)
NeedsParking(r) ==
  /\ task.run = r /\ task.child = Child(r)
  /\ ~task.cancelled
  /\ task.status \in {"running", "dispatched"}

(* Mutant: the watcher leaves the activation of an exited child alone.     *)
ExitSettlesNothing(r) == UNCHANGED activation

ExitSettles(r) == ActivationMoved(Child(r), task.generation, "settled")

(* settleAndNotify up to the write: an intent means somebody else ends the *)
(* run; a newer activation means the run is not this process's any more.   *)
WatchExit(r) ==
  /\ loop[r] \in {"failed", "ended"}
  /\ IF Child(r) \in intents
     THEN /\ intents' = intents \ {Child(r)}
          /\ Settled(r)
          /\ UNCHANGED activation
     ELSE /\ UNCHANGED intents
          /\ IF NeedsParking(r) /\ Fenced(Child(r), task.generation, "settled")
             THEN /\ ExitSettles(r)
                  /\ loop' = [loop EXCEPT ![r] = IF @ = "failed" THEN "parking failed" ELSE "parking"]
             ELSE Settled(r) /\ UNCHANGED activation
  /\ UNCHANGED <<task, registered, workspace, callVars, jobs, interrupts>>

(* Mutant: the write does not classify again.                              *)
StillNeedsNothing(r) == TRUE

StillNeedsParking(r) == NeedsParking(r)

(* The write of settleChildExit.                                           *)
Park(r) ==
  /\ loop[r] \in {"parking", "parking failed"}
  /\ task' = IF StillNeedsParking(r) THEN [task EXCEPT !.status = "rejected"] ELSE task
  /\ Settled(r)
  /\ UNCHANGED <<registered, intents, activation, workspace, callVars, jobs, interrupts>>
-----------------------------------------------------------------------------
(* Plan_update.                                                            *)

Approve ==
  /\ MayCall /\ AtOnce
  /\ task.status = "reported"
  /\ task' = [task EXCEPT !.status = "approved"]
  /\ UNCHANGED <<launch, merging, cancelling, retrying, childVars, workspace, jobs, interrupts>>

(* A rejection is followed by a dispatch in the same call.                 *)
RejectReport ==
  /\ MayCall /\ Called(Update)
  /\ task.status = "reported"
  /\ task' = [task EXCEPT !.status = "rejected", !.feedback = TRUE]
  /\ retrying' = TRUE
  /\ UNCHANGED <<launch, merging, cancelling, childVars, workspace, jobs, interrupts>>

(* reopen_task: another turn of the same conversation if there was one.    *)
Reopen ==
  /\ MayCall /\ AtOnce
  /\ task.status \in {"reported", "approved", "rejected"}
  /\ \/ /\ task.status = "rejected" /\ Continues
        /\ task' = [task EXCEPT !.status = "pending"]
     \/ /\ ~(task.status = "rejected" /\ Continues)
        /\ Dispatched /\ task.report # NoRun
        /\ ~task.cancelled /\ task.cleanup # "completed"
        /\ task' = [task EXCEPT !.status = "pending", !.feedback = TRUE]
     \/ /\ ~(Dispatched /\ task.report # NoRun)
        /\ task' = [task EXCEPT !.status = "pending", !.run = NoRun, !.child = NoChild,
                                !.generation = 0, !.cancelled = FALSE,
                                !.report = NoRun, !.feedback = FALSE]
  /\ UNCHANGED <<launch, merging, cancelling, retrying, childVars, workspace, jobs, interrupts>>
-----------------------------------------------------------------------------
(* Dispatch_cancel.                                                        *)

(* The fence in front of the write; only a run not yet cancelled has one.  *)
FenceCancel ==
  /\ MayCall /\ Called(Cancel)
  /\ Dispatched /\ ~cancelling /\ jobs[Cancel] = NoJob
  /\ ~task.cancelled => Fenced(task.child, task.generation, "draining")
  /\ cancelling' = TRUE
  /\ UNCHANGED <<task, launch, merging, retrying, childVars, workspace, jobs, interrupts>>

(* The write; a task cancelled before is set back to pending whatever it   *)
(* is, and its child is left alone.                                        *)
WriteCancel ==
  /\ cancelling
  /\ cancelling' = FALSE
  /\ IF ~Dispatched \/ (~task.cancelled /\ task.status \notin {"dispatched", "running"})
     THEN Answered(Cancel) /\ UNCHANGED <<task, jobs>>
     ELSE /\ task' = [task EXCEPT !.status = "pending", !.cancelled = TRUE]
          /\ IF task.cancelled
             THEN Answered(Cancel) /\ UNCHANGED jobs
             ELSE CleansUp(Cancel, "drain", task.child) /\ UNCHANGED mainVars
  /\ UNCHANGED <<launch, merging, retrying, childVars, workspace, interrupts>>

(* The child's activation is drained under the generation now recorded.    *)
Drain ==
  /\ jobs[Cancel].stage = "drain"
  /\ LET child == jobs[Cancel].child IN
     IF Fenced(child, task.generation, "draining")
     THEN /\ ActivationMoved(child, task.generation, "draining")
          /\ jobs' = [jobs EXCEPT ![Cancel].stage = "begin"]
          /\ UNCHANGED mainVars
     ELSE /\ jobs' = [jobs EXCEPT ![Cancel] = NoJob]
          /\ Answered(Cancel)
          /\ UNCHANGED activation
  /\ UNCHANGED <<task, launch, merging, cancelling, retrying, loop, registered, intents,
                 workspace, interrupts>>
-----------------------------------------------------------------------------
(* Merge.apply.                                                            *)

Mergeable == task.status = "approved" /\ Dispatched /\ ~task.cancelled

(* It may be called beside any other call.  Bound: one of the task at a    *)
(* time.                                                                   *)
MergeCalled ==
  /\ merging = NoMerging /\ jobs[Merge] = NoJob
  /\ main' = main \cup {Merge}
  /\ UNCHANGED changed

BeginMerge ==
  /\ MergeCalled
  /\ Mergeable /\ task.merge # "merged"
  /\ Fenced(task.child, task.generation, "draining")
  /\ workspace
  /\ merging' = [stage |-> "begun", run |-> task.run]
  /\ UNCHANGED <<task, launch, cancelling, retrying, childVars, workspace, jobs, interrupts>>

MergeStillWanted == task.status = "approved" /\ task.run = merging.run

RunMerge ==
  /\ merging.stage = "begun"
  /\ IF MergeStillWanted
     THEN /\ task' = [task EXCEPT !.merge = "running", !.cleanup = "pending"]
          /\ merging' = [merging EXCEPT !.stage = "running"]
          /\ UNCHANGED mainVars
     ELSE /\ merging' = NoMerging
          /\ Answered(Merge)
          /\ UNCHANGED task
  /\ UNCHANGED <<launch, cancelling, retrying, childVars, workspace, jobs, interrupts>>

MergeRunCurrent == task.run = merging.run

(* The files are merged, or not; what was merged may complete the Step.    *)
FinishMerge ==
  /\ merging.stage = "running"
  /\ merging' = NoMerging
  /\ \/ /\ ~MergeRunCurrent
        /\ Answered(Merge)
        /\ UNCHANGED <<task, jobs>>
     \/ /\ MergeRunCurrent
        /\ \E outcome \in {"conflict", "failed"} :
             task' = [task EXCEPT !.merge = outcome, !.cleanup = "not_started"]
        /\ Answered(Merge)
        /\ UNCHANGED jobs
     \/ /\ MergeRunCurrent
        /\ task' = [task EXCEPT !.merge = "merged", !.merged = merging.run]
        /\ CleansUp(Merge, "begin", NoChild)
        /\ UNCHANGED mainVars
  /\ UNCHANGED <<launch, cancelling, retrying, childVars, workspace, interrupts>>

(* cleanupCompletedStepWorkspaces from any later Plan_update, or from a    *)
(* repeated Merge.apply of this task or a sibling.                         *)
CleanupStep ==
  /\ task.merge = "merged"
  /\ \/ MayCall /\ Called(Update) /\ CleansUp(Update, "begin", NoChild)
     \/ MergeCalled /\ CleansUp(Merge, "begin", NoChild)
  /\ UNCHANGED <<task, launch, merging, cancelling, retrying, childVars, workspace, interrupts>>
-----------------------------------------------------------------------------
(* WorkspaceCleanupService.execute and terminateChild.                     *)

CleanupOver(call) == jobs' = [jobs EXCEPT ![call] = NoJob] /\ Answered(call)

(* Mutant: the two fields of the merge record are mixed up.                *)
RecordedSwapped(state, status) == task' = [task EXCEPT !.record = status, !.cleanup = state]

Recorded(state, status) == task' = [task EXCEPT !.record = state, !.cleanup = status]

CleanupFailed(call) == CleanupOver(call) /\ Recorded("failed", "failed")

(* A Step cleanup is for merged tasks only, and waits for the siblings.    *)
StepTask == task.status = "approved" /\ task.merge = "merged" /\ task.cleanup # "completed"
HasWorkspace(call) ==
  CASE call \in {Merge, Update} -> Dispatched /\ StepTask
    [] call[1] = "report"       -> Dispatched
    [] OTHER                    -> TRUE

(* The record of the task decides whether there is anything (left) to do;  *)
(* a cleanup that got as far as deleting does not stop the child again.    *)
BeginCleanup(call) ==
  /\ jobs[call].stage = "begin"
  /\ \/ /\ HasWorkspace(call) /\ task.record # "completed"
        /\ LET again == task.record = "deleting" IN
           /\ jobs' = [jobs EXCEPT ![call] =
                [stage |-> IF again THEN "delete" ELSE "mark",
                 child |-> IF call[1] \in {"dispatch", "cancel"} THEN @.child ELSE task.child,
                 generation |-> task.generation,
                 removes |-> call[1] # "report" /\ Dispatched]]
           /\ IF again THEN UNCHANGED task ELSE Recorded("stopping", "pending")
        /\ UNCHANGED mainVars
     \/ /\ ~HasWorkspace(call) \/ task.record = "completed" \/ call \in {Merge, Update}
        /\ CleanupOver(call)
        /\ UNCHANGED task
  /\ UNCHANGED <<launch, merging, cancelling, retrying, childVars, workspace, interrupts>>

(* The termination marks its intent; there is nothing to stop before the   *)
(* child exists (the placeholder session cannot be archived).              *)
MarkIntent(call) ==
  /\ jobs[call].stage = "mark"
  /\ IF jobs[call].child = NoChild
     THEN CleanupFailed(call) /\ UNCHANGED intents
     ELSE /\ intents' = intents \cup {jobs[call].child}
          /\ jobs' = [jobs EXCEPT ![call].stage = "stop"]
          /\ UNCHANGED <<task, mainVars>>
  /\ UNCHANGED <<launch, loop, registered, activation, workspace, merging, cancelling,
                 retrying, interrupts>>

(* Mutant: the termination does not wait for the loop to become idle.      *)
StoppedNot(child) == UNCHANGED loop

Stopped(child) == \E how \in {"ended", "failed"} : Ended(child, how)

(* Cancelled, idle, disposed, archived: then the activation is settled.    *)
StopChild(call) ==
  /\ jobs[call].stage = "stop"
  /\ Stopped(jobs[call].child)
  /\ IF Fenced(jobs[call].child, jobs[call].generation, "settled")
     THEN /\ ActivationMoved(jobs[call].child, jobs[call].generation, "settled")
          /\ jobs' = [jobs EXCEPT ![call].stage = "delete"]
          /\ UNCHANGED <<task, mainVars>>
     ELSE CleanupFailed(call) /\ UNCHANGED activation
  /\ UNCHANGED <<launch, registered, intents, workspace, merging, cancelling, retrying, interrupts>>

(* A phase timed out or failed; later phases are not entered.              *)
StopChildFails(call) ==
  /\ StopFails
  /\ jobs[call].stage = "stop"
  /\ CleanupFailed(call)
  /\ UNCHANGED <<launch, childVars, workspace, merging, cancelling, retrying, interrupts>>

RecordDeletion(call) ==
  /\ jobs[call].stage = "delete"
  /\ Recorded("deleting", "pending")
  /\ jobs' = [jobs EXCEPT ![call].stage = "remove"]
  /\ UNCHANGED <<callVars, childVars, workspace, interrupts>>

(* workspaceRemovalGuard looks at the child the cleanup was started for.   *)
RemovalAllowed(child) ==
  child # NoChild /\ Activation!Exists(activation[child]) => Activation!Settled(activation[child])

RemoveWorkspace(call) ==
  /\ jobs[call].stage = "remove"
  /\ jobs[call].removes /\ RemovalAllowed(jobs[call].child)
  /\ workspace' = FALSE
  /\ Recorded("completed", "completed")
  /\ CleanupOver(call)
  /\ UNCHANGED <<launch, childVars, merging, cancelling, retrying, interrupts>>

RemoveWorkspaceFails(call) ==
  /\ jobs[call].stage = "remove"
  /\ DeleteFails \/ ~jobs[call].removes \/ ~RemovalAllowed(jobs[call].child)
  /\ CleanupFailed(call)
  /\ UNCHANGED <<launch, childVars, workspace, merging, cancelling, retrying, interrupts>>
-----------------------------------------------------------------------------
(* The user interrupts the main agent: what it waits for goes on without   *)
(* it, a dispatch of its own until the next look at the abort signal.      *)
Interrupt ==
  /\ interrupts < MaxInterrupts
  /\ main # {}
  /\ interrupts' = interrupts + 1
  /\ launch' = [r \in Runs |->
       IF <<"dispatch", r>> \in main /\ ~launch[r].automatic
       THEN [launch[r] EXCEPT !.aborted = TRUE] ELSE launch[r]]
  /\ main' = {} /\ changed' = FALSE
  /\ UNCHANGED <<task, childVars, workspace, jobs, merging, cancelling, retrying>>

LaunchStep(r) ==
  \/ Commit(r) \/ CreateWorkspace(r) \/ CreateChild(r) \/ MarkCreated(r)
  \/ ClaimResumed(r) \/ Publish(r) \/ Start(r) \/ FailDispatch(r)

RetryStep == RefuseRetry \/ \E r \in Runs : PrepareRetry(r)
MergeStep == RunMerge \/ FinishMerge
CleanupStage(call) ==
  \/ BeginCleanup(call) \/ MarkIntent(call) \/ StopChild(call) \/ StopChildFails(call)
  \/ RecordDeletion(call) \/ RemoveWorkspace(call) \/ RemoveWorkspaceFails(call)

(* A launch meets a cleanup, another launch, or the child of an earlier one *)
(* whose cleanup failed; or a run is forgotten that is being cleaned up.   *)
(* Nothing in the code keeps them apart, but the main agent waits for what *)
(* it calls unless it is interrupted.                                      *)
Launching(r) == launch[r].stage \notin {"none", "done"}
CleaningUp == \E call \in Calls : jobs[call] # NoJob
Unsettled(child) == Activation!Exists(activation[child]) /\ ~Activation!Settled(activation[child])
Meets(r) ==
  \/ CleaningUp
  \/ \E s \in Runs \ {r} : Launching(s)
  \/ /\ launch[r].stage = "prepared" /\ task.record = "failed"
     /\ \E child \in Runs \ {Child(r)} : Unsettled(child)
Overlapping == \E r \in Runs : Launching(r) /\ Meets(r)
Forgotten == CleaningUp /\ task.run # NoRun /\ task'.run = NoRun

Step ==
  \/ \E r \in Runs : Prepare(r) \/ LaunchStep(r) \/ Report(r) \/ LoopEnds(r)
                       \/ WatchExit(r) \/ Park(r)
  \/ RetryStep \/ Approve \/ RejectReport \/ Reopen
  \/ FenceCancel \/ WriteCancel \/ Drain
  \/ BeginMerge \/ MergeStep \/ CleanupStep
  \/ \E call \in Calls : CleanupStage(call)
  \/ Interrupt

Next == Step /\ overlapped' = (overlapped \/ Overlapping' \/ Forgotten)

Spec == Init /\ [][Next]_vars

(* The server's own work goes on; a child loop ends because its budget of  *)
(* steps and time runs out; main agent and user may do nothing at all.     *)
Fairness ==
  /\ \A r \in Runs : WF_program(LaunchStep(r)) /\ WF_program(LoopEnds(r))
                       /\ WF_program(WatchExit(r)) /\ WF_program(Park(r))
  /\ WF_program(RetryStep) /\ WF_program(WriteCancel) /\ WF_program(Drain) /\ WF_program(MergeStep)
  /\ \A call \in Calls : WF_program(CleanupStage(call))

FairSpec == Spec /\ Fairness
-----------------------------------------------------------------------------
(* What is reviewed and merged is the work of the current run: a report of *)
(* an earlier run is never taken for the later one's.                      *)
ReportOfCurrentRun ==
  task.status \in {"reported", "approved"} => task.report = task.run

(* An approved task counts as merged only if the run that was approved is  *)
(* the one whose files were merged (isStepComplete relies on it), also     *)
(* when the task was reopened while a merge was under way.                 *)
MergedRunIsCurrent ==
  task.status = "approved" /\ task.merge = "merged" => task.merged = task.run

(* Nothing in the code keeps a launch apart from the cleanup of another    *)
(* run: after an interruption, or when a stop has failed, it removes the   *)
(* newer run's directory, or parks its task.  The properties below say     *)
(* what holds until the first such overlap, whatever is interrupted and    *)
(* whatever fails.                                                         *)

(* Only a review takes back a report that was accepted: the watcher of an  *)
(* earlier run, or of the same one, comes too late to park the task, and a *)
(* launch that fails has no report (settleChildExit, dispatch).            *)
AcceptedWorkStays ==
  [][~overlapped /\ task.status \in {"reported", "approved"} /\ task'.status = "rejected"
       => RejectReport]_vars

(* A child works in a workspace that exists, though every cleanup of the   *)
(* task removes the one directory that all its runs share.                 *)
LoopHasWorkspace == ~overlapped => ((\E r \in Runs : loop[r] = "running") => workspace)

(* Two children never work in the workspace at the same time: a cancel, a  *)
(* revision or a failed launch has settled the child before a fresh one is *)
(* launched, or the launch meets its cleanup or what that has left.        *)
OneChildInWorkspace ==
  ~overlapped => \A r, s \in Runs : loop[r] = "running" /\ loop[s] = "running" => Child(r) = Child(s)

(* docs/architecture/agent-isolation.md: "Child termination must settle    *)
(* the activation before the workspace manager removes the child           *)
(* directory."                                                             *)
ChildrenSettled ==
  \A r \in Runs : Activation!Exists(activation[r]) => Activation!Settled(activation[r])
RemovedAfterSettling == [][~overlapped /\ workspace /\ ~workspace' => ChildrenSettled]_vars

(* A task does not stay dispatched or running for ever.                    *)
InFlight == task.status \in {"dispatched", "running"}
RunsAreSettled == InFlight ~> ~InFlight
=============================================================================
