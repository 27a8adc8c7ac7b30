# A verification development for JYY-Code

JYY-Code is a coding agent.  In its multi-agent mode a main agent keeps a plan,
hands the plan's tasks to child agents in isolated workspaces, reviews what they
report and merges their files.  The TLA+ modules here model that core,
`packages/jyycode/src/plan`, the runner every session's loop runs in, and the
event log by which a session moves between servers.  They check it with TLC on
small instances and prove its most important properties with TLAPS for every
instance.  `P/` stands for
`src/packages/jyycode/src/plan/` and `J/` for `src/packages/jyycode/src/` below.

## 1. The system and its parts

| Part | State | Operations | What makes it correct |
| --- | --- | --- | --- |
| Activation store (`P/activation.ts`) | table `plan_activation`: per child session owner, generation, run, state, lease | claim, renew, transition, settle, takeover, remove; one immediate SQLite transaction each | a generation has one owner; a replaced owner can change nothing any more; a running loop is not taken over |
| Child runner (`runChild`, `P/tools.ts`) | one fiber per run, `childRunRegistry`, `childRunIntents`, two heartbeats | start, resume, exit watcher (`settleAndNotify`), terminate | every exit is settled exactly once, by the watcher or by whoever ended the run |
| Task protocol (`P/protocol.ts`) | `plan.json`: per task status, dispatch, report, merge; activities and report attempts in memory | create, update (edit, review, reopen), dispatch, cancel, report, merge, settleChildExit, candidate discussion | what is reviewed and merged is the current run's; nobody waits for a report that cannot come |
| Workspace cleanup (`P/workspace-cleanup.ts`), termination (`P/child-termination.ts`) | cleanup record in the task's merge record | stop, settle, record, delete; retried by the next caller | no directory is removed under a child |
| Plan store (`P/store.ts`) | `plan.json`, `.tmp`, `.bak.*`, `.lock`; a queue per process | read, enqueueWrite | one writer at a time, an acknowledged write is never lost, dead owners' locks are recovered |
| Child workspaces (`P/child-workspace.ts`) | git worktrees or snapshots, baselines, manifests | reserve, create, load, guarded remove, step baseline | one directory per task, identity checked before removal |
| Recovery (`P/recovery.ts`, `P/startup-cleanup.ts`) | memo of sessions already reconciled | takeover, settle, reject, continue, reconcile a merge | after a crash every task is continued or given back |
| Merge transaction (`P/workspace-merge.ts`) | journal, stage, backup directories | preflight, apply per path, resume, rollback | all or nothing, also after a crash; foreign changes are not overwritten |
| Workspace lease, sweeper (`P/workspace-lease.ts`, `P/workspace-maintenance.ts`, `P/workspace-sweeper.ts`) | one lease file per workspace, cleanup queue | create, heartbeat, finish, scan, remove, quarantine | a workspace in use is not swept; one that is over is, also after a crash |
| Events, wakeups, inbox (`P/events.ts`, `P/event-store.ts`, `P/inbox-store.ts`) | sequence per session, wakeup queues, inbox rows | publish, push, drain, add, acknowledge | no report stays unnoticed |
| Blackboard, candidates (`P/blackboard.ts`, `P/protocol.ts`) | entries, read marks; discussion phase | post, read, discuss, submit, select | nobody reports past unread messages; phases in order |
| Session runner (`J/effect/runner.ts`, `J/session/run-state.ts`) | map of runners; per runner `Idle`, `Running`, `Shell` or `ShellThenRun` | ensureRunning, startShell, cancel, onIdle; called by prompt, wake, shell, abort | one run per session, found by whoever wants to stop it; every caller answered, every message read |
| Background jobs (`J/background/job.ts`, `J/process/job.ts`) | jobs by id, fibers, deadlines | start, wait, cancel | one outcome per job |
| Event source (`J/sync/index.ts`, `J/session/projection.ts`) | event log, sequence, owner and watermark per session and database | run, replay, claim, rebuild | gapless and idempotent |
| Remote workspaces (`J/control-plane/workspace.ts`) | connection and syncing fiber per workspace, each session's workspace | sync loop, history, warp, steal; prompts are proxied | whoever owns a session is followed until all it wrote has arrived |
| Bus, reliable hub (`J/bus`) | bounded queue per subscriber | publish, drain, close | bounded, losses are announced |
| Everything else | memory, storage, permission and question prompts, session loop and compaction, providers, tools, HTTP, CLI, user interface, process guardian, SDK | | adapters, I/O and presentation around the above |

How they interact: the main agent's tools build a `PlanProtocol` per call
(`protocolFor`), which writes `plan.json` through the one `PlanStore` of the
process, fences children through the activation store, and starts loops through
`runChild`.  A child calls `Report` from its own loop.  The exit watcher, the
cleanup of another call and the user's interruption all act on the same task
record, the same directory and the same activation row, and each of them awaits
several times: that is where the difficulty of this code lies.  Concurrency is
cooperative inside a process (what runs between two awaits is atomic) and real
between processes (files, SQLite).

The files of a task have four writers more: `Merge.apply` copies them into the
parent's tree, recovery continues a merge that a crash interrupted, the watcher
of each run finishes the workspace's lease, and a background scan removes what
looks unused, on the strength of what it read some awaits ago.  The plan itself
outlives processes, so that what one wrote is judged by the next one, which
knows only `plan.json`, the activation table and the clock.  And a whole session
may be moved to another machine, whose database follows by replaying events.

The hazards, each at its line, are listed in `PROJECT.json`; the properties
below were chosen for them.

## 2. The modules and the code

### Activation: `ActivationRow`, `PlanActivation`, `FencedOwnership`

`ActivationRow` has what each SQL transaction computes from the row, as
operators: `Claimed`, `Renewed`, `Transitioned`, `TakenOver`, and the guards
`CanClaim`, `CasOk`, `CanTransition`, `CanTakeOver`.  `PlanActivation` adds the
processes: who is alive, the heartbeat of the loop each runs, the clock.  One
transaction is one action.  `now` is read before the transaction starts, so a
new lease may already be `MaxLag` ticks old (`NewLeases`).  A heartbeat is due
every `HeartbeatEvery` ticks and may be `MaxLate` late.  `grants` is a history
of all tokens handed out.  `StartLoop` is allowed with the token that the
caller's own claim returned; `Settle` only when the process runs no loop (every
caller stops the loop first).  `FencedOwnership` is the abstract promise: numbered epochs with one
holder each, which end by release or lapse.

### One task's life: `TaskLifecycle`

The record of one standard task in `plan.json` (`task`), the launches inside
`dispatch` (`launch`, one per run), the `runChild` fibers (`loop`), registry,
intents, activation rows (through `ActivationRow`), the task's directory, the
cleanups of up to all calls at once (`jobs`), a merge under way (`merging`), and
the calls the main agent waits for (`main`, with `changed` when one of the turn
changes the plan: `PROTOCOL_MUTATION_TOOL_IDS`, `J/session/tools.ts:58`, allows one
of those in a turn, while `Merge.apply` is not on that list and may be under way
beside it or beside another `Merge.apply`).  Each action is the code between two
awaits; the name of the action is that of the stage it models:

| Code | Actions |
| --- | --- |
| `dispatch` | `Prepare`, `Commit`, `CreateWorkspace`, `CreateChild`, `MarkCreated`, `ClaimResumed`, `Publish`, `Start`, `FailDispatch` |
| `update` | `Approve`, `RejectReport` (then `PrepareRetry` or `RefuseRetry`), `Reopen`, `CleanupStep` |
| `report` | `Report` |
| loop, `settleAndNotify`, `settleChildExit` | `LoopEnds`, `WatchExit`, `Park` |
| `cancel` | `FenceCancel`, `WriteCancel`, `Drain`, then a cleanup |
| `merge` | `BeginMerge`, `RunMerge`, `FinishMerge`, then a cleanup |
| `WorkspaceCleanupService.execute`, `terminateChild`, `remove` | `BeginCleanup`, `MarkIntent`, `StopChild`, `StopChildFails`, `RecordDeletion`, `RemoveWorkspace`, `RemoveWorkspaceFails` |
| the user presses stop | `Interrupt` |

Details that matter and are kept: a loop that fails is settled twice
(`catchCause`, then `flatMap`); an intent is consumed by the first watcher of
the session that looks; a dispatch without a recorded generation is not fenced;
a cleanup started by `report` has no workspace manager; a cancelled task that is
cancelled again is set back to pending without touching its child; the retry
`update` starts passes no abort signal on.

Limits: the process does not crash and no lease expires here (that is
`PlanActivation` and `PlanRecovery`); workspaces are worktrees or
snapshots, never `shared_compat`; candidate tasks and single-agent mode are out;
`MaxRuns` bounds dispatches, `MaxInterrupts` interruptions; one `cancel` and one
transaction of a `merge` are under way at a time; a task whose resumed placeholder session never
existed is not dispatched again (`ContinuationExplored`).

`overlapped` is a history variable: it becomes true when a launch meets a cleanup,
another launch, or the child of an earlier run whose cleanup has failed
(`Overlapping`), and when a run that is being cleaned up is forgotten
(`Forgotten`).  Nothing in the code keeps these apart; the main agent waits for
what it calls, so it takes an interruption, or a stop or removal that fails, to
get there.  From then on the cleanup of the older run may remove the newer one's
directory, since its guard looks at the older child (`P/protocol.ts:1601`).
`LoopHasWorkspace`, `OneChildInWorkspace`, `RemovedAfterSettling` and
`AcceptedWorkStays` say what holds before.

### The plan's file: `PlanStore`, `PlanRegister`

Files hold plans, and a plan is the set of writes it contains; the revision
counter is its cardinality.  `lock` is the lock file with its owner's pid,
whether the JSON is complete, and whether it is old enough to be reclaimed.
Every file operation of `runWrite` is an action, a crash may come between any
two and halfway through the temporary file.  `ReplaceRefused` is a file system
on which rename does not replace (Windows), `HandoffFails` lets the second
rename fail, `UnlinkFails` lets the lock's removal fail.  Any number of processes
may be between looking at a stale lock and renaming it (`P/store.ts:306`), so one of
them may move away a lock that a live process has created since: `looked`
remembers whose lock a process is about to move, and `robbed` collects the writes
whose lock was moved by one that had looked at another's.  Assumed: a pid is not
used again; a live process is not suspended for eleven seconds between creating
its lock and filling it; the holder of the lock reads all candidates without
another writer interfering (which is what `OneWriter` says of writers that are not
robbed).  A waiter's
deadline may pass at any moment (`GiveUp`).

`PlanRegister` is what callers are promised: a register (`content`) that takes
each requested write at most once and on top of all it contains, before the
request is answered.  What was answered with success stays (`promised`); a
refused write may have been taken nevertheless (a handoff that failed leaves the
new plan in the temporary file), and a death may lose what was not promised.
A register that is `contested` promises nothing any more (`Contend`).
In `PlanStore` the register's content is `Latest`, what `read` would return now,
the pending writes are those whose processes are not back in `idle`, and the
register is contested once a write was robbed.

### What runs in a session: `SessionRunner`

`ref` is the runner's state as the pair of a shell and a run, either of which may
be absent: `Idle`, `Running`, `Shell`, `ShellThenRun` are its four values.
`registered` is the session's entry in the map of runners.  A work is a fiber; a
runner is named after the work it was made for.  The runner's lock is held across
an await only by `startShell` (`"marking"`), and every other step on that runner
waits for it (`Locked`), except what reads `busy` without the lock.

| Code | Actions |
| --- | --- |
| `prompt`, `wake` (`J/session/prompt.ts`) | `Store`, then `Join` or `Begin`, `Answer`; a wake twice (`Turns`) |
| the loop, `finishRun`, `onIdle` | `LoopTurn`, `RunEnds`, `Idled` |
| `startShell`, `finishShell` | `StartShell`, `MarkBusy`, `ShellReady`, `ShellEnds` |
| `SessionRunState.cancel`, `Runner.cancel`, `stopShell`, `idleIfCurrent` | `CancelNothing` or `CancelRun` or `CancelShell`, `KillShell`, `CancelSettles`, `Released` |

An interrupted fiber ends when it likes, with a result if it had just got one,
with a failure, or cancelled; meanwhile the runner, idle at once, may be given
the next work.  Limits: one session; the disposal of the instance (which cancels
all runners), the background jobs a cancel stops first and the interruption of
the shell's caller are left out; a caller that meets the held lock is delayed
until after it, and does not keep a runner which is taken off the map meanwhile;
a child's loop that leaves before it reads, because its budget is spent, is out.

### Merging: `MergeTransaction`

`main`, `base` and `child` are the three trees of a merge; a file is absent or
holds so many insertions of the parent and so many of the child, which is all
that a three-way merge of it tells apart.  `journal` is `merge.json`, `plan` the
task's merge record, `calls` the `Merge.apply` calls and the recovery of a
restarted process, `tx` the transaction with the journal it has in memory.

| Code | Actions |
| --- | --- |
| `PlanProtocol.merge`, `recordMergeFailure` | `Ask`, `Begin`, `Settle`, `Thrown`, `Cleanup` |
| `applyWorkspaceMerge`, entry | `FailEntry`, `FindApplied`, `Resume` or `PrepareJournal` and `WriteFirst`, then `Verify` |
| `applyJournal`, per item | `Remove`, `Place`, `Log`, or `Refuse` |
| end and `rollbackJournal` | `Finish`, `Close`, `Restore`, `RestoreBreaks`, `RolledBack`, `Abort` |
| a file operation that fails | `FailItem` inside the try block, `WriteThrows` outside of it and in its `finally` |
| `reconcileMerge` | `Restart`, then `Begin`'s transaction without the call's arguments |
| outside | `Edit` (an editor, any time), `Crash` (between any two file operations) |

What reading the code for this module brought to light, kept in the model and
visible in its history variables: a crash between the replacement of a file and
its line in the journal makes the resumed journal `stale`; a crash, or an editor,
between the removal and the placing of a file loses it, and a retry then deletes
its backup; rollback overwrites what was edited since, also of a journal that was
resumed and found `stale`, when scanning the parent or writing that down fails
(`P/workspace-merge.ts:958`, `:961`: both are inside the `try`); `exposed` holds the
paths of either kind.  In the same case the item that a process which died had
placed and not journalled is not put back, under a journal that says `failed`
(`strayed`).  A last write that fails rolls a finished transaction back, and one
that fails in the `finally` leaves `merge.json` running under a plan which recovery
calls failed, so that no restart looks at it again.  Recovery passes neither paths nor resolutions; an exception of the
rollback leaves the plan `running`; a second `Merge.apply` that meets a finished
one sets `merged` back to `running` and fails.  A retry after a conflict inserts
the child's lines again into the files that had merged (`renderMergedText`
skips equal hunks only in its overlap test, `P/workspace-merge.ts:514`).  Two
overlapping calls may set the plan from `running` back to `failed` while the first
still replaces files; a process started after a crash there does not reconcile
the journal, and a merge asked for then meets a half merged parent, may resume
and roll back the old journal and yet close one of its own that has no items as
applied, because the parent is compared with the journal only after that exit
(`P/workspace-merge.ts:1047`, `:1053`).  `forgotten` remembers such a restart, and a
journal left running by a call that threw; `AppliedHoldsChild` and
`InterruptedIsSettled` speak of the others.  Left
out: symbolic links, directories, binary files, edits that replace lines,
`shared_compat`.

### The workspace's files: `WorkspaceSweep`

One task's directory, manifest and lease file, as flags; the runs of the task
with the lease's heartbeat and the watcher that finishes it; and one scan
(`executeScan`, `reclaimUnleased`), possibly of another process, that knows what
it has copied (`scan`).  Deadlines are flags that `Time` turns.

| Code | Actions |
| --- | --- |
| `reserve`, `create`, `load` (`P/child-workspace.ts`) | `Dispatch`, `WriteManifest`, `MakeDirectory`, `CreateFails`, `StartChild`, `Continue` |
| `runChild`'s lease calls (`P/tools.ts`) | `Heartbeat`, `LoopEnds`, `SettleExit`, `FinishLease`, `Terminate` |
| `remove` of the plan | `CleanDirectory`, `CleanSidecars` |
| `executeScan` | `Look`, `ReadLease`, `Preserve`, `BeginRemoval`, `RemoveDirectory`, `RemoveManifest`, `RemoveLease`, `Complete`, `RemovalFails`, `BeginQuarantine`, `QuarantineDirectory`, `QuarantineManifest`, `QuarantineLease` |
| `reclaimUnleased` | `PickUnleased`, `Recheck`, `MoveUnleased`, `MoveSidecar`, `EndScan` |
| outside | `Time`, `Forget`, `RunnerDies`, `ScannerDies` |

A finished task may be dispatched again while a scan is under way, and its
directory is then removed under the child:
`executeScan` acts on a lease it copied in `candidates` (`P/workspace-sweeper.ts:904`)
and on plans read before the scan, and only entries without a lease are looked
at again, although `P/workspace-maintenance.ts:217` says "Recheck after
asynchronous I/O: a child can acquire its lease during scanning".  Also seen:
the completed queue record of a swept task (`P/workspace-sweeper.ts:197`) makes
its next use report a removal that does not happen, which is why
`OverIsReclaimed` asks for a queue without one.  `raced` says that the newest
dispatch was made while a scan already took the task for inactive; such a
dispatch may lose its directory, or make one after the lease is gone, which the
queue does not list.  `LoopHasDirectory` says that this is the only way, whatever
else lapses, dies or comes late.  `WriteManifest` looks for the files on disk and
not at the manager's own reservations (`P/child-workspace.ts:1058`), because every
tool call builds its manager anew (`childWorkspaceFor` at `P/tools.ts:1252`, `:1314`,
`:1431`, `:1669`): a dispatch never finds a workspace in that map that an earlier
call has put there.  Left out: shared baselines,
sizes, rotation over many workspaces, the purge of the quarantine, unsafe paths.

### Across restarts: `PlanRecovery`, `FencedTable`

The task's record, the activation rows (through `ActivationRow`), the root
session's loop per process (`main`), child loops with their watchers, and the
clock.  `reconcilePlan` is modelled as `J/session/prompt.ts` calls it: once per
session and process, with no child controller, no workspace manager, no way to
resume, and a child counting as active while its session is not archived.

| Code | Actions |
| --- | --- |
| `runLoop` before the first turn | `Open`, `ReadPlan` |
| `reconcilePlan` | `Judge` (leave, reject, wait or take over), `TakeOver`, `RecordTakeover`, `CheckChild`, `Reject` |
| `dispatch`, launch | `Prepare`, `Commit`, `CreateChild`, `ClaimResumed`, `MarkCreated`, `Publish`, `Start`, `FailDispatch` |
| `update`, `cancel`, `merge` | `Approve`, `RejectReport`, `Reopen`, `FenceCancel`, `WriteCancel`, `Drain`, `Terminate`, `Merge` |
| `runChild`, `settleChildExit` | `Beat`, `Report`, `LoopEnds`, `WatchExit`, `Park` |
| outside | `Crash`, `Tick` |

What the code does here, and the properties are phrased around: a restart within
the lease "continues" a task nobody runs and does not look again, and
`Dispatch_cancel` fails in that process; a later restart takes the child over,
but no loop is started; with two processes at once, recovery's write by task id
can put a taken-over generation into a newer dispatch (`OwnerCanCancel` is
therefore about one process at a time, `~shared`), or reject what was reported
meanwhile; a cancelled pending task becomes rejected.  Left out: cleanup records,
running merges (see `MergeTransaction`), failures of writes other than the
lock's timeout, rows missing from old databases, `P/startup-cleanup.ts`, which
nothing calls.

`FencedTable` is what the activation rows promise those who dispatch, recover and
cancel children side by side: per child the numbered epochs of `FencedOwnership`,
without its removal of a row, which no product code asks for.  A row's generation
is the child's epoch and its owner the holder; `PhaseOf` tells a row that is
missing or settled (`free`) from one whose lease runs (`held`) or is over
(`lapsed`).  One step of the table concerns one child, but a tick may end several leases.

### A session on several servers: `SessionSync`

Per server the event rows (`log`), `event_sequence.seq`, the projection's
watermark (`mark`) and the session's workspace (`place`); Main's `owner`; per
remote workspace Main's connection; what each replayer has been sent (`todo`)
and has read (`pending`).  A replay is two steps, because it reads sequence,
watermark and event before its transaction.  Rows and streams are sets, and
`First` is the order in which they are worked through.

| Code | Actions |
| --- | --- |
| `sync.run` | `Works`, `Removes`, `MoveHome`, `Steal` (through `Run`) |
| `sync.replay`, `process` | `Look`, `Commit` |
| `syncWorkspaceLoop`, `syncHistory`, `startSync` | `Connect`, `Ask`, `AskFails`, `Cut`, `StartSync` |
| `sessionWarp`, `/sync/replay`, `/sync/steal` | `BeginMove`, `AskSource`, `Claim`, `CopyFails`, `Post`, `PostFails`, `Steal`, `MoveHome` |
| workspace routing, `prompt`, `revert.cleanup` | `Prompt`, `Works`, `Removes` |

`message.removed` and `message.part.removed` are events whose type does not begin
with `session.`, the only ones: they are written without moving the watermark,
so that every later replay of that session throws "Sequence mismatch" (the
history ends the syncing fiber and the workspace answers 503, a warp fails with
500, the stream drops the event).  `NumbersInOrder` speaks of databases without
such a removal, and `CaughtUp` of logs without.  Also kept: a move to a remote
does not stop the local loop, and Main sends prompts to the old place until it
has seen the steal, so that two servers may give one number to different events
(`Forked`), which replay skips silently; a remote's loop is never stopped; the
claim is made before the copy that may fail and is never taken back; a final
source sync that fails is only logged, and its events are then shut out.  Left
out: several sessions, local (worktree) workspaces, sessions created on a
remote, the fence of proxied requests, `rebuild`, `remove`, unknown events,
batches of ten (one sequence here), a posting that goes on at the target after
the request failed, losses inside a connected stream.

## 3. What is checked

| Run | Bounds | Shows |
| --- | --- | --- |
| `MCActivation` | 2 symmetric processes, 2 runs, lease 3, heartbeat every tick, transactions 1 tick late, 3 generations, 1 deletion | `OneOwnerPerGeneration`, `StaleTokenFenced` (including owner A, B, A again), `LoopOwnsRow`, and `ImplementsOwnership` |
| `MCLifecycle` | 3 runs, no interruption, prechecks, stops and removals succeed | `RunsAreSettled` |
| `MCLifecycleHostile` | 2 runs, one interruption anywhere, precheck, stop and removal may fail | `ReportOfCurrentRun`, `MergedRunIsCurrent`; until a launch overlaps another run's cleanup, `LoopHasWorkspace`, `OneChildInWorkspace`, `RemovedAfterSettling`, `AcceptedWorkStays` |
| `MCSession` | a prompt, a wakeup, 3 works, 2 cancels | `OneAtATime`, `RunningIsFound`, `QuietIsIdle`, `WakeupsAreRead`, `WaitersAnswered` |
| `MCPlanStore` | 3 symmetric processes, 4 writes, 2 crashes, rename refused, handoff failing, reclaims that come late | `OneWriter`, `AckedSurvive`, `AbandonedLocksRecovered`, and `ImplementsRegister` |
| `MCMerge` | 2 files, each changed or deleted by the child, 2 calls at a time of 2 in all, 1 edit of the parent per file (before the first call or at any moment of it), 1 crash, any file operation failing | `MergedIsApplied`, `EditsSurvive`, `AppliedHoldsChild`, `FailedIsRolledBack`, `InterruptedIsSettled` |
| `MCSweep` | 2 runs, each process dies once, 1 removal fails, leases may lapse under a child, dispatches at any moment of a scan | `LoopHasDirectory`, `OverIsReclaimed` |
| `MCRecovery` | 3 symmetric processes, 2 at a time, 2 dispatches, lease 2 ticks, starting timeout 2 ticks | `LoopKeepsRow`, `OwnerCanCancel`, `NoHalfLaunchLeft` |
| `MCSync` | Main and 1 remote, numbers to 4, 2 moves, 1 failure, 1 removal | `NumbersInOrder`, `CaughtUp` |

Why these bounds are enough to be of use: two processes give every order of
claim, lapse, takeover and return to the first owner, and 3 generations the
A-B-A case; three runs are a fresh run, its continuation and a fresh run after
it, the only relations two runs of one task can have; one interruption already
lets a launch be overtaken by a whole cancel and dispatch; three works are a
stopped one, its replacement and a later one on another runner; three processes are a
dead lock owner, a process that reclaims and one that overtakes it, and four
writes let a robbed write be followed by others and a crash fall on a write after a failed handoff after an acknowledged
one; two files are the least for a transaction to be half done, and a failure
then falls before, on or after either; two runs are a first one whose watcher is
late and its continuation in the same directory; with a lease of two ticks a
restart may find it running, ending or over, and the third process is the one
that opens the session after an overlap of two; numbers to 4 are the creation,
the two moves and work on either side, and the history, the stream and a move
are the three replayers a database can have.  `CHECK_DEADLOCK FALSE` because a task may be finished, all processes may
have crashed, and the bounds end every counter.

Fairness (`Fairness` of `TaskLifecycle`) is weak fairness of the server's own
work: an awaited promise continues, the watcher's fiber is scheduled, a cleanup
goes through its stages.  `LoopEnds` is fair because every child runs under a
step and time budget (`registerChildBudget`, `resolveChildBudget`).  Nothing is
assumed of the main agent, the child's willingness to report, or the user.  In
`SessionRunner` a fiber that was begun ends (the model and the tools return, a
shell has a timeout) and a cancel goes on; nobody has to call anything.
In `MergeTransaction` a call that has begun goes on and somebody starts a dead
process again.  In `WorkspaceSweep` awaited promises go on, time passes and scans
recur (every ten minutes wherever the program runs).  In `SessionSync` Main
reconnects to each remote for ever (the loop backs off and never gives up) and
works through what it was sent; connections break at most `MaxCuts` times.
The properties of `PlanActivation`, `PlanRecovery` and `PlanStore` need no fairness.

The other runs are expected to find a violation; each is a disagreement between
the code and what a document or comment of the repository says of it.

| Run | The disagreement |
| --- | --- |
| `MCSessionRestart` | a wakeup that was waiting when the session was stopped starts it again (`J/session/prompt.ts:571`), against `J/tool/shell.ts:596` "Stopping a session must never restart it via a completion wakeup" |
| `MCRecoveryMerge` | a task reported before a restart and approved after it can never be merged: the merge renews the activation under this process's name, which no recovery gave it (`P/protocol.ts:3333`), against `README.md:79` "resumes what is safe" |
| `MCSyncMove` | after a claim Main ignores the new owner's events too, because no replay names an owner (`J/sync/index.ts:115`), against `J/control-plane/workspace.ts:634` "any future events coming from the old workspace are ignored" |

Races which nothing in the code prevents are in the models, and a history variable
names the point from which a property no longer holds: `overlapped` (the cleanup
of an overtaken launch removes the newer run's directory, because its guard looks
at the wrong child, `P/protocol.ts:1601`), `robbed` (a live process's lock is moved
away, `P/store.ts:306`), `raced` (a scan removes the directory of a task dispatched
since its look, `P/workspace-sweeper.ts:904`), `exposed`, `strayed` and `forgotten` (edits
lost, an item left and a journal left running by a merge that fails or dies), and
`shared` (two processes recover at once).  The properties say
that there is no other way to lose what they promise, and the runs reach these
points: without its condition each of the properties is violated there, except
`AppliedHoldsChild`, whose conditions matter with more calls than the run has
(section 4).

The remaining conditions are constants.  `LoopOwnsRow` needs heartbeats in time:
with `MaxLate` in `MCActivation` a heartbeat that comes late is refused, the error is
swallowed at `P/tools.ts:791` and the loop goes on, against
`docs/architecture/plan-recovery.md:33`.  `RunsAreSettled` needs a main agent that is
not interrupted, and prechecks, stops and removals that succeed: a cleanup that
failed is not tried again unless somebody asks, and a terminate intent nobody
took swallows the next run's exit (`P/tools.ts:827`).  `OneAtATime` needs
a map whose entry no older runner takes away (the idle callback of a stopped
runner may do that, `J/session/run-state.ts:66`).
`AbandonedLocksRecovered` needs `UnlinkFails = FALSE`: a lock whose removal failed
stays as long as its process lives, although the comment at `P/store.ts:349`
expects the next stale-lock pass to remove it.

## 4. What is proved

`PlanActivationProofs`, for any processes, runs, lease and heartbeat constants:

- `TypeCorrect`, `GenerationNamesOwner`, `FenceHolds`.  The invariant behind
  them says that every granted token of the present table is at most the row's
  generation, and equal to the row's token if it has that generation: claim and
  takeover then hand out a token newer than all, and the fence lets only the
  newest through.
- `LoopKeepsRow` and `SingleLoop` (no two processes run loops of one child, which
  follows) assume `HeartbeatFits`: a period, the greatest
  delay and the clock lag together are shorter than the lease (10 s and 30 s in
  the code).  Without it a late
  heartbeat is the counterexample.
- `ActivationImplementsOwnership`: initial states map to initial states and every
  step of the table is a grant, an extension, a lapse, a release, the forgetting
  of a deleted row, or a stutter.

`TaskLifecycleProofs`, for any number of runs and interruptions and whatever
fails: `TypeCorrect` (inductive with `ClaimResumes`: a launch that claims knows
the session to resume), `ReportsAreCurrent` and `MergesAreCurrent`.
`ReportOfCurrentRun` is not inductive alone: reopening clears the dispatch, so
`AcceptedHasRun` says that a task with an accepted report has a run; and a merged
record must belong to the recorded run in every status (`MergedOfRun`), because
a reopened task is only approved again later.

`AcceptedWorkIsKept`, `LoopsHaveWorkspace`, `OneChildWorks` and
`ChildrenSettledFirst` have no hypotheses either; they speak of the time before
`overlapped`.  Their invariant `ApartInv` relates the rows, the launches, the
record in `plan.json`, the directory and the cleanups until then: at most one
child has a row that is not settled (`OneUnsettled`), and a run without a child has
none at all (`FreshRows`); a launch belongs to the task's current run, finds the
others settled and has a directory when a child is about to work in it
(`LaunchesOk`); a task that is under way, or will be continued, has no unsettled
child but its own, and one that will start afresh has none, unless its last
cleanup has failed (`TaskOk`); a cleanup is about the one child that may be
unsettled and has come to the deletion only when every child is settled
(`JobsOk`); a running loop is of an unsettled child with its directory there, and
a watcher that is about to park the task has settled the row (`LoopsOk`).  The
induction showed which meetings `Overlapping` and `Forgotten` have to name: two
launches, a launch beside any cleanup, a fresh launch after a cleanup that failed with
its child alive, and a run that is forgotten while it is being cleaned up.

`PlanStoreProofs`, for any number of processes, writes and crashes, and every
refusal the constants allow: `TypeCorrect`, `MutualExclusion`, `AckedWritesSurvive`.
The invariant of the lock, `LocksInv`, always holds: whoever is inside a write, or
about to be, owns the lock or was robbed of it (`LockOwners`), and a process that
is about to move a lock away has looked at a dead process's (`LookedDead`), so that
the lock it takes from a live one is counted in `robbed`.  About the files
`StoreInv` holds until a write is robbed: the writer owns a complete lock
(`HoldersOwnLock`), the files
have a newest plan that contains all the others, also without the temporary
file (`FilesInv`), and what the current writer read and wrote is above all of them
(`WriteInv`), which is needed because a crash turns the temporary file of a dead
writer into a candidate like any other.
`AbandonedLocksAreRecovered` assumes removals of the lock that succeed: then
every lock is held, or was left by a dead process (`HeldOrLeft`), and a waiter
never looks at an old lock of the latter kind without reclaiming it.
`StoreImplementsRegister` maps every file operation to a step of `PlanRegister`
or a stutter: the flush of the temporary file is where a write is taken, because
from then on a reader prefers it, and an answer adds to `promised`.  It needs that
requests are numbered once and that a number is in no file before its flush
(`NumbersInv`), that what is read is the unique newest candidate (`NewestRead`),
and that what a writer has read is still the newest when it flushes (`ReadInv`),
which is the read-modify-write the lock is there for.  After a robbed write every
step is one of a register that is contested.

`SessionRunnerProofs`, for any prompts, wakes, works and cancels: `TypeCorrect`,
`SingleWork`, `MapFindsWork`.  What a runner holds is its own work in the stage
its state says (`HeldRuns`, `HeldShells`), what a cancel stops is held by no
runner any more (`LetGo`), whatever is active is held (`ActiveIsHeld`); these
hold always.  That a busy runner is the one on the map (`BusyIsRegistered`) holds
until a cancel has taken a later runner off, which the code allows.
`WakeupsRead` shows, without that condition, why `wake` calls `loop`
twice: a run the second call may join was begun after the wakeup was stored, so
it has read it if it will not look again (`NextRunHasRead`, `SecondRunHasRead`).
`QuietSessionIsIdle` rests on `QuietInv`: a busy status has a runner that holds
work, a work that is about to show the session as idle, or a cancel that will
(`BusyIsCleared`); a runner on the map that holds nothing is being marked or
stopped (`MapIsCleared`); and nothing a cancel stops ends as the work that shows
the session as idle (`StopsWork`).

`MergeTransactionProofs`, for any number of files, calls, edits and crashes and
whatever the trees hold: `TypeCorrect`, `MergedMeansApplied`,
`ParentEditsSurvive`, `FailureRollsBack`.  The invariant `MergeInv` says that a
journal, on disk or in memory, would put nothing into a file but what keeps the
edits the parent had when the plan was made (`Sound`, `KeepsOwn`), what each
stage of the transaction may assume of its journal (`StagesInv`), that a call
which remembers "merged" has an applied journal to show (`AnswersInv`), that what a
replacement or a rollback is about to write holds every edit of the file, but for
`exposed` files (`BackupsInv`), and that a file which is not replaced is as the
plan found it, or edited, but for those a resumed journal was found not to
match (`strayed`, in `UntouchedInv`).  No file operation is assumed to succeed, the writes
of the journal and the look at the parent included.  `MergedIsApplied` alone is not
inductive, because the plan is written by a call that only remembers the result.
`AppliedBringsChild` adds `ChildInv`: every journal was planned from the three
trees (`PlannedInv`), one transaction is in the files at a time and nobody but
the recovery until it has settled a journal left running (`CallersInv`), a file
that a call has seen in the child's version stays so, in the parent and in what a
rollback restores (`SeenInv`), and while items are applied every watched file is
where the journal says or was edited (`PlacedInv`, `AppliedInv`).  It is the induction that found the restart behind
`forgotten`, which no bounded run had reached.

`WorkspaceSweepProofs`, for any number of runs, deaths and failures: `TypeCorrect`
and `WorkKeepsDirectory`, without hypotheses.  The invariant says
that whatever a scan is about to take away was of a task that is over
(`TakersFound`), and still is unless it was dispatched anew beside the scan
(`raced`, in `FoundIsOver`), and that the directory a run is started in has
been made (`CreatedIsThere`).

`PlanRecoveryProofs`, for any number of processes, dispatches, ticks and restarts,
overlapping or not: `TypeCorrect` and `RunningChildIsKept`.  A loop that runs, and a
launch between its claim and its start, hold the row (`RunningHold`,
`LaunchesHold`); a run belongs to one launch or one loop (`RunsInv`), whose child
has a row or is yet to be created (`RowsInv`, `FreshInv`).  `OldLoops` is what makes
it inductive: the watcher of an ended run settles the activation of its session,
which may be running again under a continuation, and is kept from it only by
asking whether its run is still the task's.  The clock must not run past a
heartbeat or a launch that is due (`Hurried`).
`OwnerKnowsToken` and `NoLaunchLeftBehind` are about one process at a time and
rest on `LoneAll`: while no two processes have been up at once, nobody but the
one that is up and its own loops writes the task (`UpInv`, `OwnersInv`), so that what a
stage of its recovery, cancel or launch has read is still true, and the plan has
its token from the end of the recovery on (`LoneAt`, `KnowsToken`).
`RecoveryImplementsOwnership` maps every step of every process, loop and watcher
to one of `FencedTable`, with any number of processes at once.  The
lemmas about the row's operators (`ClaimMoves`, `TakeOverMoves`, `RenewMoves`,
`TransitionMoves`) say which step each write is; `FreshInv` is needed because a
launch that creates a child must find no row of it, and `TypeOK` because the
lemmas are about well-formed rows.  The refinement is a theorem only: TLC
confirms it on the bounds of `MCRecovery` when it is added to that file.

`SessionSyncProofs`, for any number of remotes, moves, failures and removals:
`TypeCorrect` and `EventsNumbered`.  The invariant adds that a replay between its two
steps has read that its event is the next or one that has been
written meanwhile (`ReadsInOrder`), and that a call of `sessionWarp` goes on only
when its replays are over (`MoverReads`).  Others may write in
between, but nobody takes a number back, so that what the transaction still
accepts after its second look is exactly the next number.

## 5. What is only model-checked, and what is not modelled

Only model-checked: liveness (`RunsAreSettled`, `WaitersAnswered`,
`InterruptedIsSettled`, `OverIsReclaimed`, `CaughtUp`), because the prover handles
neither `ENABLED` nor fairness.  Every invariant, action property and refinement
that a passing run checks is also a theorem.  What a recursively defined operator computes for every
input could not be proved either (induction over data); none is used so far.

Not modelled: the parts of the table in section 1 that section 2 does not name,
for the reasons `PROJECT.json` gives; inside the modelled parts the texts of
hints and messages, metrics, events and inbox entries, the in-process write
queue's priorities, role profiles and budgets, `shared_compat` workspaces, the
HTTP steer and terminate endpoints, and what section 2 lists as left out.  The
reliable hub (`J/bus/reliable-hub.ts`) is exported and exercised by a script;
nothing in the product subscribes to it.

## 6. The plan

In order of importance:

1. `PlanEvents`: wakeup coalescing and deduplication, inbox, replay.
2. `Blackboard`: an entry against the unread check of a report, candidate phases.
3. `BackgroundJob`: start, finish and cancel of jobs that reuse an id.
4. The write queue of the plan store: priorities, ageing, a deadline per request.
5. `rebuild` of a projection next to replays in `SessionSync`; local workspaces.

Proofs planned next: abstract contracts for `MergeTransaction` (all or nothing per
journal) and `SessionRunner` (one server that answers its callers) with
refinements; the invariants of items 1 to 3 with their modules.
