---------------------------- MODULE PlanRecovery ----------------------------
(***************************************************************************)
(* One task of a plan through crashes and restarts of the program: what    *)
(* PlanRecovery (plan/recovery.ts) does to it when a process opens the     *)
(* root session, between the dispatches, reports, reviews, cancels and     *)
(* merges of the processes before, beside and after.                       *)
(*                                                                         *)
(* runLoop (session/prompt.ts) reconciles the plan once per process and    *)
(* before anything else, gives recovery neither a child controller nor a   *)
(* workspace manager nor a way to resume, and calls a child active when    *)
(* its session is not archived.  A merge is one step here, and recovery    *)
(* meets none half done (MergeTransaction); cleaning a workspace up is     *)
(* left out (TaskLifecycle, WorkspaceSweep).                               *)
(*                                                                         *)
(* A write of the plan is one step; what was read before it may be stale.  *)
(* A tick is at least as long as such a write may wait (WAIT_TIMEOUT_MS,   *)
(* 10 s) and a heartbeat comes in each (10 s), so that a lease (30 s) is   *)
(* several ticks long.                                                     *)
(***************************************************************************)
EXTENDS Naturals, FiniteSets

CONSTANTS
  Processes,        \* runtime processes; one that is gone never comes back
  Nobody,           \* owner of an absent row
  MaxRuns,          \* bound on the dispatches explored
  LeaseTtl,         \* DEFAULT_PLAN_ACTIVATION_LEASE_TTL_MS, in ticks
  StartingTimeout,  \* startingTimeoutMs, in ticks
  MaxOpen           \* processes that may have the session open at a time

ASSUME RecoveryAssumption ==
  /\ Nobody \notin Processes
  /\ MaxRuns \in Nat
  /\ LeaseTtl \in Nat \ {0}
  /\ StartingTimeout \in Nat
  /\ MaxOpen \in Nat

Runs    == 1..MaxRuns
NoRun   == 0
NoChild == 0     \* the placeholder "child_<session>_<task>" before a child exists

Activation == INSTANCE ActivationRow WITH Owners <- Processes, NoOwner <- Nobody

VARIABLES
  task,        \* the task's record in plan.json
  activation,  \* per child session: its plan_activation row
  archived,    \* child sessions with time.archived
  process,     \* per process: has it started, does it run, is it gone?
  main,        \* per process: what the root session's loop is doing
  loops,       \* the child loops (runChild) and their exit watchers
  runs,        \* dispatches so far
  shared       \* history: have two processes had the session open at a time?

vars == <<task, activation, archived, process, main, loops, runs, shared>>

Statuses == {"pending", "dispatched", "running", "reported", "approved", "rejected"}
Lifecycles == {"none", "reserved", "child_created", "starting", "running", "settled"}

(* dispatch.run_id, .child_session_id, .activation_generation (0: none),   *)
(* .lifecycle, .cancelled_at # null and .dispatched_at (ticks until it is  *)
(* startingTimeoutMs old); review feedback; merge.status = "merged".       *)
Tasks == [status : Statuses, run : Runs \cup {NoRun}, child : Runs \cup {NoChild},
          generation : Nat, lifecycle : Lifecycles, cancelled : BOOLEAN,
          young : 0..StartingTimeout, feedback : BOOLEAN, merged : BOOLEAN]

NoTask == [status |-> "pending", run |-> NoRun, child |-> NoChild,
           generation |-> 0, lifecycle |-> "none", cancelled |-> FALSE,
           young |-> 0, feedback |-> FALSE, merged |-> FALSE]

RecoveryStages == {"judging", "taking", "recording", "checking", "rejecting"}
LaunchStages   == {"preparing", "creating", "claiming", "marking", "publishing",
                   "starting", "failing"}
CancelStages   == {"cancelling", "draining", "terminating"}
Stages == {"off", "new", "ready"} \cup RecoveryStages \cup LaunchStages \cup CancelStages

(* run, child and generation: of the dispatch, cancel or takeover under    *)
(* way; seen: the task as recovery has read it.                            *)
Mains == [at : Stages, run : Runs \cup {NoRun}, child : Runs \cup {NoChild},
          generation : Nat, seen : Tasks]
At(stage) == [at |-> stage, run |-> NoRun, child |-> NoChild, generation |-> 0, seen |-> NoTask]

(* generation: what the heartbeat presents, 0 when there is no heartbeat.  *)
Loops == [process : Processes, run : Runs, child : Runs, generation : Nat,
          at : {"running", "ended", "parking"}]

TypeOK ==
  /\ task \in Tasks
  /\ activation \in [Runs -> Activation!Row \cup {Activation!NoRow}]
  /\ archived \subseteq Runs
  /\ process \in [Processes -> {"off", "up", "gone"}]
  /\ main \in [Processes -> Mains]
  /\ loops \subseteq Loops
  /\ runs \in 0..MaxRuns
  /\ shared \in BOOLEAN

Init ==
  /\ task = NoTask
  /\ activation = [c \in Runs |-> Activation!NoRow]
  /\ archived = {}
  /\ process = [p \in Processes |-> "off"]
  /\ main = [p \in Processes |-> At("off")]
  /\ loops = {}
  /\ runs = 0
  /\ shared = FALSE
-----------------------------------------------------------------------------
(* Helpers.                                                                *)

Goes(p, stage) == main' = [main EXCEPT ![p].at = stage]
Ready(p) == main' = [main EXCEPT ![p] = At("ready")]

Dispatched == task.run # NoRun
Dispatchable == task.status \in {"pending", "rejected"}
Continues == Dispatched /\ task.feedback /\ task.child # NoChild

(* renewTaskActivation and transitionTaskActivation without their effect:  *)
(* a dispatch that recorded no generation is not fenced at all.            *)
RowOf(child) == IF child = NoChild THEN Activation!NoRow ELSE activation[child]
Unfenced(child, generation) == generation = 0 \/ child = NoChild
Fenced(p, child, generation, to) ==
  ~Unfenced(child, generation) =>
    /\ Activation!CasOk(activation[child], p, generation)
    /\ Activation!CanTransition(activation[child], to)

Moved(child, generation, to) ==
  activation' =
    IF Unfenced(child, generation) THEN activation
    ELSE [activation EXCEPT ![child] = Activation!Transitioned(@, to, LeaseTtl)]

Renew(child, generation) ==
  activation' =
    IF Unfenced(child, generation) THEN activation
    ELSE [activation EXCEPT ![child] = Activation!Renewed(@, LeaseTtl)]
-----------------------------------------------------------------------------
(* Processes come and go.                                                  *)

Others(p) == {q \in Processes \ {p} : process[q] = "up"}

Open(p) ==
  /\ process[p] = "off"
  /\ Cardinality(Others(p)) < MaxOpen
  /\ process' = [process EXCEPT ![p] = "up"]
  /\ Goes(p, "new")
  /\ shared' = (shared \/ Others(p) # {})
  /\ UNCHANGED <<task, activation, archived, loops, runs>>

Crash(p) ==
  /\ process[p] = "up"
  /\ process' = [process EXCEPT ![p] = "gone"]
  /\ main' = [main EXCEPT ![p] = At("off")]
  /\ loops' = {l \in loops : l.process # p}
  /\ UNCHANGED <<task, activation, archived, runs, shared>>

(* The interval callback: renew, and swallow every error.                  *)
Beat(l) ==
  /\ l.at = "running"
  /\ Activation!CasOk(activation[l.child], l.process, l.generation)
  /\ ~Activation!Settled(activation[l.child])
  /\ activation' = [activation EXCEPT ![l.child] = Activation!Renewed(@, LeaseTtl)]
  /\ UNCHANGED <<task, archived, process, main, loops, runs, shared>>

(* Time passes, but no further than the next heartbeat of a running loop   *)
(* and the next write of a call that has just claimed, taken over or       *)
(* renewed a row.                                                          *)
Hurried == {"recording", "checking", "marking", "publishing", "starting",
            "cancelling", "draining"}
Tick ==
  /\ \A l \in loops : l.at = "running" => activation[l.child].lease # 1
  /\ \A p \in Processes : main[p].at \notin Hurried
  /\ activation' = [c \in Runs |-> [activation[c] EXCEPT !.lease = IF @ = 0 THEN 0 ELSE @ - 1]]
  /\ task' = [task EXCEPT !.young = IF @ = 0 THEN 0 ELSE @ - 1]
  /\ activation' # activation \/ task' # task
  /\ UNCHANGED <<archived, process, main, loops, runs, shared>>
-----------------------------------------------------------------------------
(* reconcilePlan.                                                          *)

(* The plan is read once; a task without a dispatch is passed over.        *)
ReadPlan(p) ==
  /\ main[p].at = "new"
  /\ main' = [main EXCEPT ![p] = IF Dispatched THEN [At("judging") EXCEPT !.seen = task]
                                 ELSE At("ready")]
  /\ UNCHANGED <<task, activation, archived, process, loops, runs, shared>>

(* What is decided from the task that was read and the row of its child.   *)
Leave(seen) == seen.status \in {"reported", "approved"}
Unlaunched(seen) == seen.lifecycle \in {"none", "settled"}
(* Mutant: every half launched dispatch is given the time to start.        *)
WaitsForAll(seen) == seen.young > 0
Waits(seen) == seen.lifecycle = "starting" /\ seen.young > 0

Continued(seen) ==
  \/ Leave(seen)
  \/ Unlaunched(seen) /\ seen.status \notin {"running", "dispatched"}
  \/ Waits(seen)
  \/ /\ seen.lifecycle = "running"
     /\ LET row == RowOf(seen.child) IN
        IF Activation!Exists(row) THEN ~Activation!Settled(row) /\ ~Activation!Expired(row)
        ELSE seen.child \notin archived \cup {NoChild}

TakesOver(seen) ==
  /\ ~Leave(seen) /\ seen.lifecycle = "running"
  /\ LET row == RowOf(seen.child) IN
     Activation!Exists(row) /\ ~Activation!Settled(row) /\ Activation!Expired(row)

Judge(p) ==
  /\ main[p].at = "judging"
  /\ LET seen == main[p].seen IN
     \/ Continued(seen) /\ Ready(p)
     \/ TakesOver(seen) /\ Goes(p, "taking")
     \/ ~Continued(seen) /\ ~TakesOver(seen) /\ Goes(p, "rejecting")
  /\ UNCHANGED <<task, activation, archived, process, loops, runs, shared>>

(* The takeover is a transaction of its own.  It is refused when the lease *)
(* runs again: another process has been faster.                            *)
TakeOver(p) ==
  LET child == main[p].seen.child IN
  /\ main[p].at = "taking"
  /\ \/ /\ Activation!CanTakeOver(RowOf(child))
        /\ activation' = [activation EXCEPT ![child] = Activation!TakenOver(@, p, LeaseTtl)]
        /\ main' = [main EXCEPT ![p].at = "recording", ![p].child = child,
                                ![p].generation = activation'[child].generation]
     \/ /\ ~Activation!CanTakeOver(RowOf(child))
        /\ Goes(p, "rejecting")
        /\ UNCHANGED activation
  /\ UNCHANGED <<task, archived, process, loops, runs, shared>>

(* Mutant: the new generation is not written to the plan.                  *)
TakeoverRecordedPartly(generation) == [task EXCEPT !.lifecycle = "starting"]
TakeoverRecorded(generation) ==
  [task EXCEPT !.generation = generation, !.lifecycle = "starting"]

(* A write fails when the lock of another process is not released in time. *)
WriteFails(p) == Others(p) # {}

(* The token taken over is written to the dispatch the task has by now; a  *)
(* write that fails is followed by the rejection.                          *)
RecordTakeover(p) ==
  /\ main[p].at = "recording"
  /\ \/ /\ task' = IF Dispatched THEN TakeoverRecorded(main[p].generation) ELSE task
        /\ Goes(p, "checking")
     \/ /\ WriteFails(p)
        /\ Goes(p, "rejecting")
        /\ UNCHANGED task
  /\ UNCHANGED <<activation, archived, process, loops, runs, shared>>

(* The liveness check: the row goes to running if the session is there.    *)
CheckChild(p) ==
  /\ main[p].at = "checking"
  /\ LET c == main[p].child IN
     IF c \notin archived /\ Fenced(p, c, main[p].generation, "running")
     THEN Moved(c, main[p].generation, "running") /\ Ready(p)
     ELSE Goes(p, "rejecting") /\ UNCHANGED activation
  /\ UNCHANGED <<task, archived, process, loops, runs, shared>>

(* The write of reject, by task id, whatever the task is by now; with      *)
(* nothing to terminate the child with, its row stays as it is.            *)
Reject(p) ==
  /\ main[p].at = "rejecting"
  /\ \/ task' = [task EXCEPT !.status = "rejected",
                             !.lifecycle = IF Dispatched THEN "settled" ELSE @]
     \/ WriteFails(p) /\ UNCHANGED task
  /\ Ready(p)
  /\ UNCHANGED <<activation, archived, process, loops, runs, shared>>
-----------------------------------------------------------------------------
(* Dispatch_dispatch (TaskLifecycle has its interruptions).                *)

(* Resume or fresh is decided from this read.                              *)
Prepared(p) ==
  /\ runs < MaxRuns
  /\ runs' = runs + 1
  /\ main' = [main EXCEPT ![p] = [At("preparing") EXCEPT !.run = runs + 1,
                                    !.child = IF Continues' THEN task'.child ELSE NoChild]]

Prepare(p) ==
  /\ main[p].at = "ready"
  /\ Dispatchable
  /\ UNCHANGED task
  /\ Prepared(p)
  /\ UNCHANGED <<activation, archived, process, loops, shared>>

(* The write that makes the run current.                                   *)
Commit(p) ==
  /\ main[p].at = "preparing"
  /\ IF Dispatchable
     THEN /\ task' = [task EXCEPT !.status = "dispatched", !.run = main[p].run,
                        !.child = main[p].child, !.generation = 0, !.lifecycle = "reserved",
                        !.cancelled = FALSE, !.young = StartingTimeout, !.merged = FALSE]
          /\ Goes(p, IF main[p].child = NoChild THEN "creating" ELSE "claiming")
     ELSE Ready(p) /\ UNCHANGED task
  /\ UNCHANGED <<activation, archived, process, loops, runs, shared>>

(* The row is claimed for the run; what is claimed is this process's.      *)
ClaimFor(p, child, next) ==
  /\ activation' = [activation EXCEPT ![child] =
                      Activation!Claimed(@, p, main[p].run, LeaseTtl)]
  /\ main' = [main EXCEPT ![p].at = next, ![p].child = child,
                          ![p].generation = activation'[child].generation]

(* A fresh child: workspace and session can fail to be made.               *)
CreateChild(p) ==
  /\ main[p].at = "creating"
  /\ \/ ClaimFor(p, main[p].run, "marking")
     \/ Goes(p, "failing") /\ UNCHANGED activation
  /\ UNCHANGED <<task, archived, process, loops, runs, shared>>

(* Mutant: a resumed child is claimed whoever holds its row.               *)
ClaimableAlways(p, child) == TRUE
Claimable(p, child) == Activation!CanClaim(activation[child], p)

ClaimResumed(p) ==
  /\ main[p].at = "claiming"
  /\ IF Claimable(p, main[p].child)
     THEN ClaimFor(p, main[p].child, "publishing")
     ELSE Goes(p, "failing") /\ UNCHANGED activation
  /\ UNCHANGED <<task, archived, process, loops, runs, shared>>

(* updateDispatchLifecycle(child_created), by task id.                     *)
MarkCreated(p) ==
  /\ main[p].at = "marking"
  /\ task' = [task EXCEPT !.child = main[p].child, !.generation = main[p].generation,
                          !.lifecycle = "child_created"]
  /\ Goes(p, "publishing")
  /\ UNCHANGED <<activation, archived, process, loops, runs, shared>>

(* updateDispatchLifecycle(running), by task id; a resumed launch writes   *)
(* its generation here.                                                    *)
Publish(p) ==
  /\ main[p].at = "publishing"
  /\ task' = [task EXCEPT !.status = "running", !.lifecycle = "running",
                !.generation = IF main[p].child = main[p].run THEN @ ELSE main[p].generation]
  /\ Goes(p, "starting")
  /\ UNCHANGED <<activation, archived, process, loops, runs, shared>>

(* The heartbeat of a new loop presents the row's token, if it is its own. *)
NewLoop(p) ==
  LET row == activation[main[p].child] IN
  [process |-> p, run |-> main[p].run, child |-> main[p].child, at |-> "running",
   generation |-> IF row.owner = p THEN row.generation ELSE 0]

Start(p) ==
  /\ main[p].at = "starting"
  /\ loops' = loops \cup {NewLoop(p)}
  /\ IF Fenced(p, main[p].child, main[p].generation, "running")
     THEN Moved(main[p].child, main[p].generation, "running") /\ Ready(p)
     ELSE Goes(p, "failing") /\ UNCHANGED activation
  /\ UNCHANGED <<task, archived, process, runs, shared>>

(* Mutant: the placeholder is terminated like a child.                     *)
HasChildAlways(p) == TRUE
HasChild(p) == main[p].child # NoChild

(* failDispatch: park the task, then stop the child this launch had.       *)
FailDispatch(p) ==
  /\ main[p].at = "failing"
  /\ task' = [task EXCEPT !.status = "rejected", !.lifecycle = "settled"]
  /\ IF HasChild(p) THEN Goes(p, "terminating") ELSE Ready(p)
  /\ UNCHANGED <<activation, archived, process, loops, runs, shared>>

(* terminateChild stops the loop of this process, archives the session and *)
(* settles the row under the generation the plan records.                  *)
Terminate(p) ==
  /\ main[p].at = "terminating"
  /\ LET c == main[p].child IN
     /\ loops' = {l \in loops : l.process # p \/ l.child # c}
     /\ archived' = archived \cup {c}
     /\ IF Fenced(p, c, task.generation, "settled")
        THEN Moved(c, task.generation, "settled") ELSE UNCHANGED activation
  /\ Ready(p)
  /\ UNCHANGED <<task, process, runs, shared>>
-----------------------------------------------------------------------------
(* The child and its exit watcher.                                         *)

(* The run in the report has to be the current one and still running.      *)
Report(l) ==
  /\ l.at = "running"
  /\ task.run = l.run /\ task.status = "running"
  /\ task' = [task EXCEPT !.status = "reported"]
  /\ UNCHANGED <<activation, archived, process, main, loops, runs, shared>>

Watched(l, stage) == loops' = (loops \ {l}) \cup {[l EXCEPT !.at = stage]}

SameSession(k, l) == k.process = l.process /\ k.child = l.child

(* The loop of a session ends for every call that waits for it.            *)
LoopEnds(l) ==
  /\ l.at = "running"
  /\ loops' = {IF SameSession(k, l) /\ k.at = "running" THEN [k EXCEPT !.at = "ended"] ELSE k :
                k \in loops}
  /\ UNCHANGED <<task, activation, archived, process, main, runs, shared>>

(* settleChildExit's classification of the task for the run that ended.    *)
NeedsParking(l) ==
  /\ task.run = l.run /\ task.child = l.child /\ ~task.cancelled
  /\ task.status \in {"running", "dispatched"}

(* A row that is not this process's under the recorded generation belongs  *)
(* to a later owner: the task is left to that one.                         *)
WatchExit(l) ==
  /\ l.at = "ended"
  /\ IF NeedsParking(l) /\ Fenced(l.process, l.child, task.generation, "settled")
     THEN Moved(l.child, task.generation, "settled") /\ Watched(l, "parking")
     ELSE loops' = loops \ {l} /\ UNCHANGED activation
  /\ UNCHANGED <<task, archived, process, main, runs, shared>>

Park(l) ==
  /\ l.at = "parking"
  /\ task' = IF NeedsParking(l) THEN [task EXCEPT !.status = "rejected"] ELSE task
  /\ loops' = loops \ {l}
  /\ UNCHANGED <<activation, archived, process, main, runs, shared>>
-----------------------------------------------------------------------------
(* Plan_update, Dispatch_cancel and Merge.apply by the main agent, which   *)
(* gets to act once recovery is over.                                      *)

Approve(p) ==
  /\ main[p].at = "ready"
  /\ task.status = "reported"
  /\ task' = [task EXCEPT !.status = "approved"]
  /\ UNCHANGED <<activation, archived, process, main, loops, runs, shared>>

(* A rejection is followed by a dispatch in the same call.                 *)
RejectReport(p) ==
  /\ main[p].at = "ready"
  /\ task.status = "reported"
  /\ task' = [task EXCEPT !.status = "rejected", !.feedback = TRUE]
  /\ Prepared(p)
  /\ UNCHANGED <<activation, archived, process, loops, shared>>

(* reopen_task, of a task whose files are not in the parent yet.           *)
Reopen(p) ==
  /\ main[p].at = "ready"
  /\ task.status \in {"reported", "approved"} /\ ~task.cancelled /\ ~task.merged
  /\ task' = [task EXCEPT !.status = "pending", !.feedback = TRUE]
  /\ UNCHANGED <<activation, archived, process, main, loops, runs, shared>>

Cancellable == Dispatched /\ ~task.cancelled /\ task.status \in {"dispatched", "running"}

(* The fence in front of the write ...                                     *)
FenceCancel(p) ==
  /\ main[p].at = "ready"
  /\ Cancellable
  /\ Fenced(p, task.child, task.generation, "draining")
  /\ Renew(task.child, task.generation)
  /\ Goes(p, "cancelling")
  /\ UNCHANGED <<task, archived, process, loops, runs, shared>>

(* ... the write ...                                                       *)
WriteCancel(p) ==
  /\ main[p].at = "cancelling"
  /\ IF Cancellable
     THEN /\ task' = [task EXCEPT !.status = "pending", !.cancelled = TRUE]
          /\ main' = [main EXCEPT ![p].at = "draining", ![p].child = task.child]
     ELSE Ready(p) /\ UNCHANGED task
  /\ UNCHANGED <<activation, archived, process, loops, runs, shared>>

(* ... and the end of the child, under the generation now recorded.        *)
Drain(p) ==
  /\ main[p].at = "draining"
  /\ IF HasChild(p) /\ Fenced(p, main[p].child, task.generation, "draining")
     THEN Moved(main[p].child, task.generation, "draining") /\ Goes(p, "terminating")
     ELSE Ready(p) /\ UNCHANGED activation
  /\ UNCHANGED <<task, archived, process, loops, runs, shared>>

Mergeable == task.status = "approved" /\ ~task.cancelled /\ ~task.merged

Merge(p) ==
  /\ main[p].at = "ready"
  /\ Mergeable
  /\ Fenced(p, task.child, task.generation, "draining")
  /\ Renew(task.child, task.generation)
  /\ task' = [task EXCEPT !.merged = TRUE]
  /\ UNCHANGED <<archived, process, main, loops, runs, shared>>
-----------------------------------------------------------------------------
RecoveryStep(p) ==
  \/ ReadPlan(p) \/ Judge(p) \/ TakeOver(p)
  \/ RecordTakeover(p) \/ CheckChild(p) \/ Reject(p)
LaunchStep(p) ==
  \/ Commit(p) \/ CreateChild(p) \/ ClaimResumed(p) \/ MarkCreated(p)
  \/ Publish(p) \/ Start(p) \/ FailDispatch(p)
AgentStep(p) ==
  \/ Prepare(p) \/ Approve(p) \/ RejectReport(p) \/ Reopen(p)
  \/ FenceCancel(p) \/ WriteCancel(p) \/ Drain(p) \/ Terminate(p) \/ Merge(p)

Next ==
  \/ \E p \in Processes : Open(p) \/ Crash(p) \/ RecoveryStep(p) \/ LaunchStep(p) \/ AgentStep(p)
  \/ \E l \in loops : Beat(l) \/ Report(l) \/ LoopEnds(l) \/ WatchExit(l) \/ Park(l)
  \/ Tick

Spec == Init /\ [][Next]_vars
-----------------------------------------------------------------------------
(* plan-recovery.md: "A non-expired lease is preserved to avoid double     *)
(* execution."  A child's loop runs under the row's own token and an       *)
(* unexpired lease: no recovery, no dispatch and no cancel of another      *)
(* process takes the child away from it, and no other process runs it.     *)
LoopKeepsRow ==
  \A l \in loops : l.at = "running" =>
    LET row == activation[l.child] IN
    /\ Activation!CasOk(row, l.process, l.generation)
    /\ ~Activation!Settled(row)
    /\ row.lease > 0

(* However often the program is restarted (one process at a time): the     *)
(* process that owns the child of a task under way knows its token from    *)
(* the plan, so that its main agent passes the fence of Dispatch_cancel.   *)
OwnerCanCancel ==
  \A p \in Processes :
    /\ ~shared /\ main[p].at = "ready"
    /\ Cancellable /\ ~Unfenced(task.child, task.generation)
    /\ activation[task.child].owner = p
    => activation[task.child].generation = task.generation

(* Nor is a dispatch left behind whose process died before the child was   *)
(* published: once the next process is ready, the task is not dispatched   *)
(* unless that process launches it.                                        *)
NoHalfLaunchLeft ==
  \A p \in Processes :
    ~shared /\ main[p].at = "ready" => task.status # "dispatched"

(* README.md: "resumes what is safe".  Work that was accepted can be       *)
(* merged: the only process there is passes the fence of Merge.apply.      *)
AcceptedCanBeMerged ==
  \A p \in Processes :
    ~shared /\ main[p].at = "ready" /\ Mergeable
      => Fenced(p, task.child, task.generation, "draining")
-----------------------------------------------------------------------------
(* The contract of the activation table, through every dispatch, recovery, *)
(* cancel, crash and restart.                                              *)
PhaseOf(row) ==
  IF ~Activation!Exists(row) \/ Activation!Settled(row) THEN "free"
  ELSE IF Activation!Expired(row) THEN "lapsed" ELSE "held"

Ownership == INSTANCE FencedTable WITH
  Children <- Runs, Holders <- Processes,
  epoch  <- [c \in Runs |-> activation[c].generation],
  holder <- [c \in Runs |-> activation[c].owner],
  phase  <- [c \in Runs |-> PhaseOf(activation[c])]

ImplementsOwnership == Ownership!TableSpec
=============================================================================
