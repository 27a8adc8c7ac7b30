------------------------ MODULE TaskLifecycleProofs ------------------------
(***************************************************************************)
(* What TaskLifecycle guarantees for any number of runs and interruptions  *)
(* and whatever fails.                                                     *)
(***************************************************************************)
EXTENDS TaskLifecycle, TLAPS

-----------------------------------------------------------------------------
(* Type correctness.                                                       *)

(* A launch that resumes has a session to resume.                          *)
ClaimResumes == \A r \in Runs : launch[r].stage = "claim" => launch[r].resumes # NoChild

TypeInv == TypeOK /\ ClaimResumes

ActivationTable == [Runs -> Activation!Row \cup {Activation!NoRow}]

(* No placeholder is a run or a session.                                   *)
LEMMA RunsTyped == NoRun \notin Runs /\ NoChild \notin Runs /\ Runs \subseteq Nat
BY LifecycleAssumption DEF Runs, NoRun, NoChild

(* The session of a launch is a real one.                                  *)
LEMMA ChildTyped ==
  ASSUME launch \in [Runs -> Launches], NEW r \in Runs
  PROVE  Child(r) \in Runs
BY DEF Child, Launches

(* Claiming for a run writes a row, whatever was there.                    *)
LEMMA ClaimTyped ==
  ASSUME activation \in ActivationTable, NEW c \in Runs, NEW r \in Runs, Claim(c, r)
  PROVE  activation' \in ActivationTable /\ ClaimedGeneration(c, r) \in Nat
<1>1. Activation!Claimed(activation[c], Host, r, 1) \in Activation!Row
  BY DEF ActivationTable, Activation!Claimed, Activation!KeepsGeneration, Activation!Exists,
         Activation!Row, Activation!NoRow, Activation!ActivationStates
<1>2. ClaimedGeneration(c, r) \in Nat
  BY <1>1 DEF ClaimedGeneration, Activation!Row
<1>. QED BY <1>1, <1>2 DEF Claim, ActivationTable

(* A transition of a row yields a row.                                     *)
LEMMA TransitionedTyped ==
  ASSUME NEW row \in Activation!Row, NEW to \in Activation!ActivationStates
  PROVE  Activation!Transitioned(row, to, 1) \in Activation!Row
<1>1. 1 \in 0..1 /\ row.lease \in 0..1
  BY DEF Activation!Row
<1>. QED BY <1>1 DEF Activation!Transitioned, Activation!Row

(* A fenced transition finds a row and writes one.                         *)
LEMMA MoveTyped ==
  ASSUME activation \in ActivationTable, NEW c \in Runs \cup {NoChild}, NEW g \in Nat,
         NEW to \in Activation!ActivationStates,
         Fenced(c, g, to), ActivationMoved(c, g, to)
  PROVE  activation' \in ActivationTable
<1>1. CASE g = 0 \/ c = NoChild
  BY <1>1 DEF ActivationMoved
<1>2. CASE g # 0 /\ c # NoChild
  <2>1. activation[c] \in Activation!Row
    BY <1>2 DEF Fenced, Activation!CasOk, Activation!Exists, ActivationTable, Activation!NoRow
  <2>2. Activation!Transitioned(activation[c], to, 1) \in Activation!Row
    BY <2>1, TransitionedTyped
  <2>. QED BY <1>2, <2>2 DEF ActivationMoved, ActivationTable
<1>. QED BY <1>1, <1>2
(* The updates of a launch.                                                *)
LEMMA LaunchTyped ==
  ASSUME NEW l \in Launches
  PROVE  /\ \A st \in LaunchStages, b \in BOOLEAN, c \in Runs \cup {NoChild} : [l EXCEPT !.stage = st, !.automatic = b, !.resumes = c] \in Launches
         /\ \A st \in LaunchStages, c \in Runs \cup {NoChild}, g \in Nat : [l EXCEPT !.stage = st, !.child = c, !.generation = g] \in Launches
         /\ [l EXCEPT !.aborted = TRUE] \in Launches
<1>. USE DEF Launches
<1>1. \A st \in LaunchStages, b \in BOOLEAN, c \in Runs \cup {NoChild} : [l EXCEPT !.stage = st, !.automatic = b, !.resumes = c] \in Launches
  OBVIOUS
<1>2. \A st \in LaunchStages, c \in Runs \cup {NoChild}, g \in Nat : [l EXCEPT !.stage = st, !.child = c, !.generation = g] \in Launches
  OBVIOUS
<1>3. [l EXCEPT !.aborted = TRUE] \in Launches
  OBVIOUS
<1>. QED BY <1>1, <1>2, <1>3

(* The updates of a task.                                                  *)
LEMMA TaskTyped ==
  ASSUME NEW t \in Tasks
  PROVE  /\ \A st \in Statuses : [t EXCEPT !.status = st] \in Tasks
         /\ \A st \in Statuses, r \in Runs : [t EXCEPT !.status = st, !.report = r] \in Tasks
         /\ \A st \in Statuses, g \in Nat : [t EXCEPT !.status = st, !.generation = g] \in Tasks
         /\ \A c \in Runs \cup {NoChild}, g \in Nat : [t EXCEPT !.child = c, !.generation = g] \in Tasks
         /\ \A r \in Runs, c \in Runs \cup {NoChild} : Committed(t, r, c) \in Tasks
         /\ [t EXCEPT !.status = "pending", !.run = NoRun, !.child = NoChild,
                      !.generation = 0, !.cancelled = FALSE,
                      !.report = NoRun, !.feedback = FALSE] \in Tasks
         /\ \A st \in Statuses : [t EXCEPT !.status = st, !.feedback = TRUE] \in Tasks
         /\ \A st \in Statuses : [t EXCEPT !.status = st, !.cancelled = TRUE] \in Tasks
         /\ \A r \in Runs \cup {NoRun} : [t EXCEPT !.merge = "merged", !.merged = r] \in Tasks
<1>. USE DEF Tasks
<1>1. \A st \in Statuses : [t EXCEPT !.status = st] \in Tasks
  OBVIOUS
<1>2. \A st \in Statuses, r \in Runs : [t EXCEPT !.status = st, !.report = r] \in Tasks
  OBVIOUS
<1>3. \A st \in Statuses, g \in Nat : [t EXCEPT !.status = st, !.generation = g] \in Tasks
  OBVIOUS
<1>4. \A c \in Runs \cup {NoChild}, g \in Nat : [t EXCEPT !.child = c, !.generation = g] \in Tasks
  OBVIOUS
<1>5. \A r \in Runs, c \in Runs \cup {NoChild} : Committed(t, r, c) \in Tasks
  BY DEF Committed, Statuses
<1>6. [t EXCEPT !.status = "pending", !.run = NoRun, !.child = NoChild,
                   !.generation = 0, !.cancelled = FALSE,
                   !.report = NoRun, !.feedback = FALSE] \in Tasks
  BY DEF Statuses
<1>7. \A st \in Statuses : [t EXCEPT !.status = st, !.feedback = TRUE] \in Tasks
  OBVIOUS
<1>8. \A st \in Statuses : [t EXCEPT !.status = st, !.cancelled = TRUE] \in Tasks
  OBVIOUS
<1>9. \A r \in Runs \cup {NoRun} : [t EXCEPT !.merge = "merged", !.merged = r] \in Tasks
  OBVIOUS
<1>. QED BY <1>1, <1>2, <1>3, <1>4, <1>5, <1>6, <1>7, <1>8, <1>9

(* Moving a launch on keeps its type, and what it resumes.                 *)
LEMMA LaunchedTyped ==
  ASSUME launch \in [Runs -> Launches], ClaimResumes, NEW r \in Runs,
         NEW stage \in LaunchStages, stage # "claim", Launched(r, stage)
  PROVE  launch' \in [Runs -> Launches] /\ ClaimResumes'
BY DEF Launched, Launches, ClaimResumes

(* So does writing down its child, and its generation if it has one.       *)
LEMMA ChildOfLaunchTyped ==
  ASSUME launch \in [Runs -> Launches], ClaimResumes, NEW r \in Runs,
         NEW st \in LaunchStages, st # "claim",
         NEW c \in Runs \cup {NoChild}, NEW g \in Nat,
         launch' = [launch EXCEPT ![r] =
           [launch[r] EXCEPT !.stage = st, !.child = c, !.generation = g]]
  PROVE  launch' \in [Runs -> Launches] /\ ClaimResumes'
<1>1. [launch[r] EXCEPT !.stage = st, !.child = c, !.generation = g] \in Launches
  BY LaunchTyped
<1>2. launch'[r].stage = st
  BY DEF Launches
<1>. QED BY <1>1, <1>2 DEF ClaimResumes

(* The main agent waits for calls, and what it may call depends on whether *)
(* one of them changed the plan.                                           *)
MainTyped == main \subseteq Calls /\ changed \in BOOLEAN

(* An answer leaves it waiting for the other calls.                        *)
LEMMA AnsweredTyped ==
  ASSUME MainTyped, NEW call, Answered(call)
  PROVE  MainTyped'
<1>1. main' \subseteq Calls
  BY DEF MainTyped, Answered
<1>2. changed' \in BOOLEAN
  BY Zenon DEF MainTyped, Answered
<1>. QED BY <1>1, <1>2 DEF MainTyped

(* One more call is one more to wait for.                                  *)
LEMMA CalledTyped ==
  ASSUME MainTyped, NEW call \in Calls, Called(call)
  PROVE  MainTyped'
BY DEF MainTyped, Called

(* What is done at once is not waited for.                                 *)
LEMMA AtOnceTyped ==
  ASSUME MainTyped, AtOnce
  PROVE  MainTyped'
<1>1. changed' \in BOOLEAN
  BY Zenon DEF AtOnce
<1>. QED BY <1>1 DEF MainTyped, AtOnce

(* The tool calls of Calls.                                                *)
LEMMA CallsTyped ==
  /\ \A r \in Runs : <<"dispatch", r>> \in Calls /\ <<"report", r>> \in Calls
  /\ {Update, Cancel, Merge} \subseteq Calls
BY DEF Calls, Update, Cancel, Merge

(* No job is a job.                                                        *)
LEMMA NoJobTyped == NoJob \in Jobs
BY DEF NoJob, Jobs

(* A call that goes on to clean up has a job.                              *)
LEMMA CleansUpTyped ==
  ASSUME jobs \in [Calls -> Jobs], NEW call \in Calls, NEW stage \in {"drain", "begin"},
         NEW child \in Runs \cup {NoChild}, CleansUp(call, stage, child)
  PROVE  jobs' \in [Calls -> Jobs]
<1>1. [NoJob EXCEPT !.stage = stage, !.child = child] \in Jobs
  BY DEF NoJob, Jobs
<1>. QED BY <1>1 DEF CleansUp

(* So has one whose cleanup is over: none.                                 *)
LEMMA CleanupOverTyped ==
  ASSUME jobs \in [Calls -> Jobs], MainTyped, NEW call \in Calls, CleanupOver(call)
  PROVE  jobs' \in [Calls -> Jobs] /\ MainTyped'
BY AnsweredTyped, NoJobTyped DEF CleanupOver

(* The record of a cleanup fits into the task.                             *)
LEMMA RecordedTyped ==
  ASSUME task \in Tasks,
         NEW state \in {"none", "stopping", "deleting", "completed", "failed"},
         NEW status \in {"not_started", "pending", "completed", "failed"},
         Recorded(state, status)
  PROVE  task' \in Tasks
BY DEF Recorded, Tasks

(* The end of a loop, whatever the reason ...                              *)
LEMMA EndedTyped ==
  ASSUME loop \in [Runs -> LoopStages], NEW child, NEW how \in {"ended", "failed"},
         Ended(child, how)
  PROVE  loop' \in [Runs -> LoopStages]
BY DEF Ended, LoopStages

(* ... and what its watcher makes of it, are stages of a loop.             *)
LEMMA SettledTyped ==
  ASSUME loop \in [Runs -> LoopStages], NEW r \in Runs, Settled(r)
  PROVE  loop' \in [Runs -> LoopStages]
BY DEF Settled, LoopStages

(* Preparing a launch only moves this launch on.                           *)
LEMMA PreparedTyped ==
  ASSUME TypeInv, NEW r \in Runs, NEW automatic \in BOOLEAN, Prepared(r, automatic)
  PROVE  launch' \in [Runs -> Launches] /\ ClaimResumes'
<1>1. (IF Continues THEN task.child ELSE NoChild) \in Runs \cup {NoChild}
  BY DEF TypeInv, TypeOK, Tasks
<1>2. PICK resumed \in Runs \cup {NoChild} :
        launch' = [launch EXCEPT ![r].stage = "prepared", ![r].automatic = automatic,
                                 ![r].resumes = resumed]
  BY <1>1 DEF Prepared
<1>3. [launch[r] EXCEPT !.stage = "prepared", !.automatic = automatic, !.resumes = resumed]
        \in Launches
  BY LaunchTyped DEF TypeInv, TypeOK, LaunchStages
<1>4. launch' = [launch EXCEPT ![r] = [launch[r] EXCEPT !.stage = "prepared",
                   !.automatic = automatic, !.resumes = resumed]]
  BY <1>2 DEF TypeInv, TypeOK
<1>5. launch' \in [Runs -> Launches]
  BY <1>3, <1>4 DEF TypeInv, TypeOK
<1>6. launch'[r].stage = "prepared"
  BY <1>4 DEF TypeInv, TypeOK, Launches
<1>7. ClaimResumes'
  BY <1>4, <1>6 DEF TypeInv, TypeOK, ClaimResumes
<1>. QED BY <1>5, <1>7

(* Every step keeps the types.                                             *)
LEMMA TypesAlways == Spec => []TypeInv
<1>1. Init => TypeInv
  <2> SUFFICES ASSUME Init PROVE TypeInv
    OBVIOUS
  <2> USE RunsTyped DEF Init
  <2>1. task \in Tasks
    BY DEF Tasks, Statuses
  <2>2. launch \in [Runs -> Launches] /\ ClaimResumes
    BY DEF Launches, LaunchStages, ClaimResumes
  <2>3. jobs \in [Calls -> Jobs] /\ merging \in Mergings
    BY NoJobTyped DEF Mergings, NoMerging
  <2>4. activation \in ActivationTable
    BY DEF ActivationTable
  <2>. QED
    BY <2>1, <2>2, <2>3, <2>4 DEF TypeInv, TypeOK, ActivationTable, LoopStages
<1>2. TypeInv /\ [Next]_vars => TypeInv'
  <2> SUFFICES ASSUME TypeInv, [Next]_vars PROVE TypeInv'
    OBVIOUS
  <2>0. overlapped' \in BOOLEAN
    <3>1. CASE Next
      BY <3>1, Zenon DEF Next
    <3>2. CASE UNCHANGED vars
      BY <3>2 DEF vars, TypeInv, TypeOK
    <3>. QED BY <3>1, <3>2
  <2> USE <2>0, RunsTyped DEF TypeInv, TypeOK, MainTyped, childVars, callVars, mainVars
  <2>1. ASSUME NEW r \in Runs, Prepare(r) PROVE TypeInv'
    <3>1. launch' \in [Runs -> Launches] /\ ClaimResumes'
      BY <2>1, PreparedTyped DEF Prepare
    <3>. QED BY <3>1, <2>1, CallsTyped, CalledTyped DEF Prepare, Prepared
  <2>2. ASSUME NEW r \in Runs, PrepareRetry(r) PROVE TypeInv'
    <3>1. launch' \in [Runs -> Launches] /\ ClaimResumes'
      BY <2>2, PreparedTyped DEF PrepareRetry
    <3>2. main' \subseteq Calls
      BY <2>2, CallsTyped DEF PrepareRetry
    <3>. QED BY <3>1, <3>2, <2>2 DEF PrepareRetry, Prepared
  <2>3. ASSUME RefuseRetry PROVE TypeInv'
    BY <2>3, AnsweredTyped
    DEF RefuseRetry, ClaimResumes
  <2>4. ASSUME NEW r \in Runs, Commit(r) PROVE TypeInv'
    <3>1. task' \in Tasks
      <4>1. launch[r].resumes \in Runs \cup {NoChild}
        BY DEF Launches
      <4>2. Committed(task, r, launch[r].resumes) \in Tasks
        BY <4>1, TaskTyped
      <4>. QED BY <4>2, <2>4 DEF Commit
    <3>2. launch' \in [Runs -> Launches] /\ ClaimResumes'
      <4>1. CASE Launched(r, "claim") /\ launch[r].resumes # NoChild
        BY <4>1 DEF Launched, Launches, LaunchStages, ClaimResumes
      <4>2. CASE Launched(r, "workspace") \/ Launched(r, "done")
        BY <4>2, LaunchedTyped DEF LaunchStages
      <4>. QED BY <4>1, <4>2, <2>4 DEF Commit
    <3>3. MainTyped'
      BY <2>4, AnsweredTyped DEF Commit
    <3>. QED BY <3>1, <3>2, <3>3, <2>4 DEF Commit
  <2>5. ASSUME NEW r \in Runs, CreateWorkspace(r) PROVE TypeInv'
    BY <2>5, LaunchedTyped
    DEF CreateWorkspace, LaunchStages
  <2>6. ASSUME NEW r \in Runs, CreateChild(r) PROVE TypeInv'
    <3>1. CASE Launched(r, "failing") /\ UNCHANGED <<registered, activation>>
      BY <3>1, <2>6, LaunchedTyped DEF CreateChild, LaunchStages
    <3>2. CASE /\ launch' = [launch EXCEPT ![r].stage = "failing", ![r].child = r]
               /\ UNCHANGED <<registered, activation>>
      <4>1. launch' = [launch EXCEPT ![r] = [launch[r] EXCEPT
              !.stage = "failing", !.child = r, !.generation = launch[r].generation]]
        BY <3>2 DEF Launches
      <4>2. launch[r].generation \in Nat /\ "failing" \in LaunchStages
        BY DEF Launches, LaunchStages
      <4>3. launch' \in [Runs -> Launches] /\ ClaimResumes'
        BY <4>1, <4>2, ChildOfLaunchTyped
      <4>. QED BY <4>3, <3>2, <2>6 DEF CreateChild
    <3>3. CASE /\ registered' = [registered EXCEPT ![r] = r]
               /\ Claim(r, r)
               /\ launch' = [launch EXCEPT ![r].stage = "mark", ![r].child = r,
                                           ![r].generation = ClaimedGeneration(r, r)]
      <4> DEFINE g == ClaimedGeneration(r, r)
      <4>1. activation' \in ActivationTable /\ g \in Nat
        BY <3>3, ClaimTyped DEF ActivationTable
      <4>2. launch' = [launch EXCEPT ![r].stage = "mark", ![r].child = r, ![r].generation = g]
        BY <3>3
      <4> HIDE DEF g
      <4>3. launch' = [launch EXCEPT ![r] =
              [launch[r] EXCEPT !.stage = "mark", !.child = r, !.generation = g]]
        BY <4>2
      <4>4. launch' \in [Runs -> Launches] /\ ClaimResumes'
        BY <4>1, <4>3, ChildOfLaunchTyped DEF LaunchStages
      <4>5. registered' \in [Runs -> Runs \cup {NoRun}]
        BY <3>3
      <4>. QED BY <4>1, <4>4, <4>5, <2>6 DEF CreateChild, ActivationTable
    <3>. QED BY <3>1, <3>2, <3>3, <2>6 DEF CreateChild
  <2>7. ASSUME NEW r \in Runs, MarkCreated(r) PROVE TypeInv'
    <3>1. task' \in Tasks
      <4>1. launch[r].generation \in Nat
        BY DEF Launches
      <4>2. [task EXCEPT !.child = r, !.generation = launch[r].generation] \in Tasks
        BY <4>1, TaskTyped
      <4>. QED BY <4>2, <2>7 DEF MarkCreated
    <3>2. launch' \in [Runs -> Launches] /\ ClaimResumes'
      BY <2>7, LaunchedTyped DEF MarkCreated, LaunchStages
    <3>. QED BY <3>1, <3>2, <2>7 DEF MarkCreated
  <2>8. ASSUME NEW r \in Runs, ClaimResumed(r) PROVE TypeInv'
    <3>1. CASE launch[r].aborted
      BY <2>8, <3>1, LaunchedTyped DEF ClaimResumed, LaunchStages
    <3>2. CASE ~launch[r].aborted
      <4> DEFINE c == launch[r].resumes
                 g == ClaimedGeneration(c, r)
      <4>1. c \in Runs
        BY <2>8 DEF ClaimResumed, ClaimResumes, Launches
      <4>2. activation' \in ActivationTable /\ g \in Nat
        BY <4>1, <2>8, <3>2, ClaimTyped DEF ClaimResumed, ActivationTable
      <4>3. launch' = [launch EXCEPT ![r].stage = "publish", ![r].child = c,
                                     ![r].generation = g]
        BY <2>8, <3>2 DEF ClaimResumed
      <4>4. registered' \in [Runs -> Runs \cup {NoRun}]
        BY <4>1, <2>8, <3>2 DEF ClaimResumed
      <4> HIDE DEF c, g
      <4>5. launch' \in [Runs -> Launches] /\ ClaimResumes'
        <5>1. [launch[r] EXCEPT !.stage = "publish", !.child = c, !.generation = g] \in Launches
          BY <4>1, <4>2, LaunchTyped DEF LaunchStages
        <5>2. launch' = [launch EXCEPT ![r] =
                [launch[r] EXCEPT !.stage = "publish", !.child = c, !.generation = g]]
          BY <4>3
        <5>3. launch'[r].stage = "publish"
          BY <5>2 DEF Launches
        <5>. QED BY <5>1, <5>2, <5>3 DEF ClaimResumes
      <4>. QED BY <4>2, <4>4, <4>5, <2>8 DEF ClaimResumed, ActivationTable
    <3>. QED BY <3>1, <3>2
  <2>9. ASSUME NEW r \in Runs, Publish(r) PROVE TypeInv'
    <3>1. task' \in Tasks
      <4>1. launch[r].generation \in Nat /\ task.generation \in Nat
        BY DEF Launches, Tasks
      <4>2. CASE UNCHANGED task
        BY <4>2
      <4>3. CASE \E g \in Nat : task' = [task EXCEPT !.status = "running", !.generation = g]
        <5>1. PICK g \in Nat : task' = [task EXCEPT !.status = "running", !.generation = g]
          BY <4>3
        <5>2. "running" \in Statuses
          BY DEF Statuses
        <5>3. [task EXCEPT !.status = "running", !.generation = g] \in Tasks
          BY <5>2, TaskTyped
        <5>. QED BY <5>1, <5>3
      <4>. QED BY <4>1, <4>2, <4>3, <2>9 DEF Publish
    <3>2. launch' \in [Runs -> Launches] /\ ClaimResumes'
      BY <2>9, LaunchedTyped DEF Publish, LaunchStages
    <3>. QED BY <3>1, <3>2, <2>9 DEF Publish
  <2>10. ASSUME NEW r \in Runs, Start(r) PROVE TypeInv'
    BY <2>10, LaunchedTyped, ChildTyped, MoveTyped, AnsweredTyped
    DEF Start, LaunchStages, LoopStages, Launches, ActivationTable,
        Activation!ActivationStates
  <2>11. ASSUME NEW r \in Runs, FailDispatch(r) PROVE TypeInv'
    <3>1. task' \in Tasks
      BY <2>11, TaskTyped DEF FailDispatch, Statuses
    <3>2. launch' \in [Runs -> Launches] /\ ClaimResumes'
      BY <2>11, LaunchedTyped DEF FailDispatch, LaunchStages
    <3>3. jobs' \in [Calls -> Jobs]
      <4>1. launch[r].child \in Runs \cup {NoChild} /\ <<"dispatch", r>> \in Calls
        BY CallsTyped DEF Launches
      <4>. QED BY <4>1, <2>11, CleansUpTyped DEF FailDispatch
    <3>. QED BY <3>1, <3>2, <3>3, <2>11 DEF FailDispatch
  <2>12. ASSUME NEW r \in Runs, Report(r) PROVE TypeInv'
    <3>1. task' \in Tasks
      <4>1. /\ [task EXCEPT !.status = "reported", !.report = r] \in Tasks
            /\ [task EXCEPT !.status = "rejected", !.report = r] \in Tasks
        BY TaskTyped DEF Statuses
      <4>. QED BY <4>1, <2>12 DEF Report
    <3>2. jobs' \in [Calls -> Jobs]
      BY <2>12, CleansUpTyped, CallsTyped DEF Report
    <3>. QED BY <3>1, <3>2, <2>12 DEF Report, ClaimResumes
  <2>13. ASSUME NEW r \in Runs, LoopEnds(r) PROVE TypeInv'
    BY <2>13, EndedTyped
    DEF LoopEnds, ClaimResumes
  <2>14. ASSUME NEW r \in Runs, WatchExit(r) PROVE TypeInv'
    <3>1. loop' \in [Runs -> LoopStages]
      BY <2>14, SettledTyped DEF WatchExit, LoopStages
    <3>2. activation' \in ActivationTable
      <4>1. CASE UNCHANGED activation
        BY <4>1 DEF ActivationTable
      <4>2. CASE Fenced(Child(r), task.generation, "settled") /\ ExitSettles(r)
        <5>1. task.generation \in Nat /\ "settled" \in Activation!ActivationStates
          BY DEF Tasks, Activation!ActivationStates
        <5>. QED BY <4>2, <5>1, ChildTyped, MoveTyped DEF ExitSettles, ActivationTable
      <4>. QED BY <4>1, <4>2, <2>14 DEF WatchExit
    <3>3. intents' \subseteq Runs
      BY <2>14 DEF WatchExit
    <3>. QED BY <3>1, <3>2, <3>3, <2>14 DEF WatchExit, ClaimResumes, ActivationTable
  <2>15. ASSUME NEW r \in Runs, Park(r) PROVE TypeInv'
    <3>1. task' \in Tasks
      BY <2>15, TaskTyped DEF Park, Statuses
    <3>2. loop' \in [Runs -> LoopStages]
      BY <2>15, SettledTyped DEF Park
    <3>. QED BY <3>1, <3>2, <2>15 DEF Park, ClaimResumes
  <2>16. ASSUME Approve PROVE TypeInv'
    BY <2>16, AtOnceTyped
    DEF Approve, Tasks, Statuses, ClaimResumes
  <2>17. ASSUME RejectReport PROVE TypeInv'
    BY <2>17, CallsTyped, CalledTyped
    DEF RejectReport, Tasks, Statuses, ClaimResumes
  <2>18. ASSUME Reopen PROVE TypeInv'
    <3>1. task' \in Tasks
      <4>1. /\ [task EXCEPT !.status = "pending"] \in Tasks
            /\ [task EXCEPT !.status = "pending", !.feedback = TRUE] \in Tasks
            /\ [task EXCEPT !.status = "pending", !.run = NoRun, !.child = NoChild,
                            !.generation = 0, !.cancelled = FALSE,
                            !.report = NoRun, !.feedback = FALSE] \in Tasks
        BY TaskTyped DEF Statuses
      <4>. QED BY <4>1, <2>18 DEF Reopen
    <3>. QED BY <3>1, <2>18, AtOnceTyped DEF Reopen, ClaimResumes
  <2>19. ASSUME FenceCancel PROVE TypeInv'
    BY <2>19, CallsTyped, CalledTyped
    DEF FenceCancel, ClaimResumes
  <2>20. ASSUME WriteCancel PROVE TypeInv'
    <3>1. task' \in Tasks
      <4>1. [task EXCEPT !.status = "pending", !.cancelled = TRUE] \in Tasks
        BY TaskTyped DEF Statuses
      <4>. QED BY <4>1, <2>20 DEF WriteCancel
    <3>2. jobs' \in [Calls -> Jobs]
      BY <2>20, CallsTyped, CleansUpTyped DEF WriteCancel, Tasks
    <3>3. MainTyped'
      BY <2>20, AnsweredTyped DEF WriteCancel
    <3>. QED BY <3>1, <3>2, <3>3, <2>20 DEF WriteCancel, ClaimResumes
  <2>21. ASSUME Drain PROVE TypeInv'
    <3> DEFINE child == jobs[Cancel].child
    <3>1. child \in Runs \cup {NoChild} /\ task.generation \in Nat
          /\ "draining" \in Activation!ActivationStates
      BY CallsTyped DEF Jobs, Tasks, Activation!ActivationStates
    <3>2. CASE Fenced(child, task.generation, "draining")
      <4>1. ActivationMoved(child, task.generation, "draining")
        BY <2>21, <3>2 DEF Drain
      <4>2. activation' \in ActivationTable
        BY <3>1, <3>2, <4>1, MoveTyped DEF ActivationTable
      <4>3. jobs' \in [Calls -> Jobs]
        BY <2>21, <3>2, CallsTyped DEF Drain, Jobs
      <4>. QED BY <4>2, <4>3, <2>21, <3>2 DEF Drain, ClaimResumes, ActivationTable
    <3>3. CASE ~Fenced(child, task.generation, "draining")
      <4>1. jobs' = [jobs EXCEPT ![Cancel] = NoJob] /\ Answered(Cancel) /\ UNCHANGED activation
        BY <2>21, <3>3 DEF Drain
      <4>2. jobs' \in [Calls -> Jobs] /\ MainTyped'
        BY <4>1, NoJobTyped, AnsweredTyped
      <4>. QED BY <4>1, <4>2, <2>21 DEF Drain, ClaimResumes
    <3>. QED BY <3>2, <3>3
  <2>22. ASSUME BeginMerge PROVE TypeInv'
    BY <2>22, CallsTyped
    DEF BeginMerge, MergeCalled, Mergings, Tasks, ClaimResumes
  <2>23. ASSUME RunMerge PROVE TypeInv'
    <3>1. task' \in Tasks
      <4>1. [task EXCEPT !.merge = "running", !.cleanup = "pending"] \in Tasks
        BY DEF Tasks
      <4>. QED BY <4>1, <2>23 DEF RunMerge
    <3>2. merging' \in Mergings
      BY <2>23 DEF RunMerge, Mergings, NoMerging
    <3>3. MainTyped'
      BY <2>23, AnsweredTyped DEF RunMerge
    <3>. QED BY <3>1, <3>2, <3>3, <2>23 DEF RunMerge, ClaimResumes
  <2>24. ASSUME FinishMerge PROVE TypeInv'
    <3>1. task' \in Tasks
      <4>1. merging.run \in Runs \cup {NoRun}
        BY DEF Mergings
      <4>2. [task EXCEPT !.merge = "merged", !.merged = merging.run] \in Tasks
        BY <4>1, TaskTyped
      <4>3. \A outcome \in {"conflict", "failed"} :
              [task EXCEPT !.merge = outcome, !.cleanup = "not_started"] \in Tasks
        BY DEF Tasks
      <4>. QED BY <4>2, <4>3, <2>24 DEF FinishMerge
    <3>2. merging' \in Mergings
      BY <2>24 DEF FinishMerge, Mergings, NoMerging
    <3>3. jobs' \in [Calls -> Jobs]
      BY <2>24, CallsTyped, CleansUpTyped DEF FinishMerge
    <3>4. MainTyped'
      BY <2>24, AnsweredTyped DEF FinishMerge
    <3>. QED BY <3>1, <3>2, <3>3, <3>4, <2>24 DEF FinishMerge, ClaimResumes
  <2>25. ASSUME CleanupStep PROVE TypeInv'
    <3>1. CASE Called(Update) /\ CleansUp(Update, "begin", NoChild)
      BY <3>1, <2>25, CallsTyped, CalledTyped, CleansUpTyped DEF CleanupStep, ClaimResumes
    <3>2. CASE MergeCalled /\ CleansUp(Merge, "begin", NoChild)
      BY <3>2, <2>25, CallsTyped, CleansUpTyped DEF CleanupStep, MergeCalled, ClaimResumes
    <3>. QED BY <3>1, <3>2, <2>25 DEF CleanupStep
  <2>26. ASSUME NEW call \in Calls, BeginCleanup(call) PROVE TypeInv'
    <3>1. task' \in Tasks
      BY <2>26, RecordedTyped DEF BeginCleanup
    <3>2. jobs' \in [Calls -> Jobs] /\ MainTyped'
      <4>1. CASE CleanupOver(call)
        BY <4>1, CleanupOverTyped
      <4>2. CASE UNCHANGED mainVars /\ ~CleanupOver(call)
        <5> DEFINE stage == IF task.record = "deleting" THEN "delete" ELSE "mark"
                   child == IF call[1] \in {"dispatch", "cancel"}
                            THEN jobs[call].child ELSE task.child
                   removes == call[1] # "report" /\ Dispatched
        <5>1. jobs' = [jobs EXCEPT ![call] = [stage |-> stage, child |-> child,
                        generation |-> task.generation, removes |-> removes]]
          BY <4>2, <2>26 DEF BeginCleanup
        <5>2. stage \in {"delete", "mark"} /\ removes \in BOOLEAN
          OBVIOUS
        <5>3. child \in Runs \cup {NoChild} /\ task.generation \in Nat
          BY DEF Jobs, Tasks
        <5> HIDE DEF stage, child, removes
        <5>4. [stage |-> stage, child |-> child, generation |-> task.generation,
               removes |-> removes] \in Jobs
          BY <5>2, <5>3 DEF Jobs
        <5>. QED BY <5>1, <5>4, <4>2
      <4>. QED BY <4>1, <4>2, <2>26 DEF BeginCleanup
    <3>. QED BY <3>1, <3>2, <2>26 DEF BeginCleanup, ClaimResumes
  <2>27. ASSUME NEW call \in Calls, MarkIntent(call) PROVE TypeInv'
    BY <2>27, CleanupOverTyped, RecordedTyped
    DEF MarkIntent, CleanupFailed, Jobs, ClaimResumes
  <2>28. ASSUME NEW call \in Calls, StopChild(call) PROVE TypeInv'
    <3> DEFINE child == jobs[call].child
               g == jobs[call].generation
    <3>1. child \in Runs \cup {NoChild} /\ g \in Nat /\ "settled" \in Activation!ActivationStates
      BY DEF Jobs, Activation!ActivationStates
    <3>2. loop' \in [Runs -> LoopStages]
      BY <2>28, EndedTyped DEF StopChild, Stopped
    <3>3. CASE /\ Fenced(child, g, "settled") /\ ActivationMoved(child, g, "settled")
               /\ jobs' = [jobs EXCEPT ![call].stage = "delete"]
               /\ UNCHANGED <<task, mainVars>>
      <4>1. activation' \in ActivationTable
        BY <3>1, <3>3, MoveTyped DEF ActivationTable
      <4>2. jobs' \in [Calls -> Jobs]
        BY <3>3 DEF Jobs
      <4>. QED BY <4>1, <4>2, <3>2, <3>3, <2>28 DEF StopChild, ClaimResumes, ActivationTable
    <3>4. CASE CleanupFailed(call) /\ UNCHANGED activation
      <4>1. task' \in Tasks /\ jobs' \in [Calls -> Jobs] /\ MainTyped'
        BY <3>4, CleanupOverTyped, RecordedTyped DEF CleanupFailed
      <4>. QED BY <4>1, <3>2, <3>4, <2>28 DEF StopChild, ClaimResumes
    <3>. QED BY <3>3, <3>4, <2>28 DEF StopChild
  <2>29. ASSUME NEW call \in Calls, StopChildFails(call) PROVE TypeInv'
    BY <2>29, CleanupOverTyped, RecordedTyped
    DEF StopChildFails, CleanupFailed, ClaimResumes
  <2>30. ASSUME NEW call \in Calls, RecordDeletion(call) PROVE TypeInv'
    BY <2>30, RecordedTyped
    DEF RecordDeletion, Jobs, ClaimResumes
  <2>31. ASSUME NEW call \in Calls, RemoveWorkspace(call) PROVE TypeInv'
    BY <2>31, CleanupOverTyped, RecordedTyped
    DEF RemoveWorkspace, ClaimResumes
  <2>32. ASSUME NEW call \in Calls, RemoveWorkspaceFails(call) PROVE TypeInv'
    BY <2>32, CleanupOverTyped, RecordedTyped
    DEF RemoveWorkspaceFails, CleanupFailed, ClaimResumes
  <2>33. ASSUME Interrupt PROVE TypeInv'
    <3>1. \A r \in Runs : launch'[r] \in {launch[r], [launch[r] EXCEPT !.aborted = TRUE]}
      BY <2>33 DEF Interrupt
    <3>2. \A r \in Runs : [launch[r] EXCEPT !.aborted = TRUE] \in Launches
      BY LaunchTyped
    <3>3. launch' = [r \in Runs |-> launch'[r]]
      BY <2>33 DEF Interrupt
    <3>4. launch' \in [Runs -> Launches]
      BY <3>1, <3>2, <3>3
    <3>5. \A r \in Runs : /\ launch'[r].stage = launch[r].stage
                         /\ launch'[r].resumes = launch[r].resumes
      BY <3>1 DEF Launches
    <3>6. ClaimResumes'
      BY <3>5 DEF ClaimResumes
    <3>7. /\ interrupts' = interrupts + 1 /\ main' = {} /\ changed' = FALSE
          /\ UNCHANGED <<task, childVars, workspace, jobs, merging, cancelling, retrying>>
      BY <2>33 DEF Interrupt
    <3>8. interrupts' \in Nat /\ MainTyped'
      <4>1. interrupts' \in Nat /\ main' \subseteq Calls
        BY <3>7
      <4>2. changed' \in BOOLEAN
        BY <3>7, Zenon
      <4>. QED BY <4>1, <4>2
    <3>9. /\ task' \in Tasks /\ loop' \in [Runs -> LoopStages] /\ jobs' \in [Calls -> Jobs]
          /\ registered' \in [Runs -> Runs \cup {NoRun}] /\ intents' \subseteq Runs
          /\ merging' \in Mergings
      BY <3>7
    <3>10. activation' \in [Runs -> Activation!Row \cup {Activation!NoRow}]
      BY <3>7
    <3>11. workspace' \in BOOLEAN /\ cancelling' \in BOOLEAN /\ retrying' \in BOOLEAN
      BY <3>7
    <3>. QED BY <3>4, <3>6, <3>8, <3>9, <3>10, <3>11
  <2>34. CASE UNCHANGED vars
    BY <2>34 DEF vars, program, ClaimResumes
  <2>. QED
    BY <2>1, <2>2, <2>3, <2>4, <2>5, <2>6, <2>7, <2>8, <2>9, <2>10, <2>11,
       <2>12, <2>13, <2>14, <2>15, <2>16, <2>17, <2>18, <2>19, <2>20, <2>21,
       <2>22, <2>23, <2>24, <2>25, <2>26, <2>27, <2>28, <2>29, <2>30, <2>31,
       <2>32, <2>33, <2>34
    DEF Next, Step, LaunchStep, RetryStep, MergeStep, CleanupStage
<1>. QED BY <1>1, <1>2, PTL DEF Spec

(* Every variable keeps its type; in particular no transition of an        *)
(* activation is made without a row for its token.                         *)
THEOREM TypeCorrect == Spec => []TypeOK
<1>1. TypeInv => TypeOK
  BY DEF TypeInv
<1>. QED BY <1>1, TypesAlways, PTL

-----------------------------------------------------------------------------
(* What is reviewed and what is merged.                                    *)

(* The inductive strengthening: reported work belongs to a run, and a      *)
(* merge record survives only with the run it is about (a reopened task    *)
(* without a run keeps its record until the next commit).                  *)
AcceptedHasRun == task.status \in {"reported", "approved"} => task.run # NoRun
MergedOfRun == task.merge = "merged" /\ task.run # NoRun => task.merged = task.run

(* Review feedback is about a report.                                      *)
FeedbackOnReport == task.feedback => task.report # NoRun

WorkInv == ReportOfCurrentRun /\ AcceptedHasRun /\ MergedOfRun /\ FeedbackOnReport

(* The invariant follows from its strengthening.                           *)
LEMMA WorkInvSuffices == WorkInv => ReportOfCurrentRun /\ MergedRunIsCurrent
BY DEF WorkInv, AcceptedHasRun, MergedOfRun, MergedRunIsCurrent

(* Every step of the program keeps reports and merges with their runs.     *)
LEMMA WorkStep ==
  ASSUME TypeInv, WorkInv, [Next]_vars PROVE WorkInv'
<1>. USE RunsTyped DEF WorkInv, ReportOfCurrentRun, AcceptedHasRun, MergedOfRun, FeedbackOnReport
<1>0. task \in Tasks /\ merging \in Mergings
  BY DEF TypeInv, TypeOK
<1>1. CASE UNCHANGED task
  BY <1>1
<1>2. ASSUME NEW r \in Runs, Commit(r) PROVE WorkInv'
  <2>1. CASE task' = task
    BY <2>1
  <2>2. CASE task' = Committed(task, r, launch[r].resumes)
    <3>1. /\ task'.status = "dispatched" /\ task'.merge # "merged"
          /\ task'.feedback = task.feedback /\ task'.report = task.report
      BY <1>0, <2>2 DEF Committed, Tasks
    <3>. QED BY <3>1
  <2>. QED BY <1>2, <2>1, <2>2 DEF Commit
<1>3. ASSUME NEW r \in Runs, MarkCreated(r) PROVE WorkInv'
  BY <1>0, <1>3 DEF MarkCreated, Tasks
<1>4. ASSUME NEW r \in Runs, Publish(r) PROVE WorkInv'
  BY <1>0, <1>4 DEF Publish, Tasks
<1>5. ASSUME NEW r \in Runs, FailDispatch(r) PROVE WorkInv'
  BY <1>0, <1>5 DEF FailDispatch, Tasks
<1>6. ASSUME NEW r \in Runs, Report(r) PROVE WorkInv'
  <2>1. PICK st \in {"reported", "rejected"} : task' = [task EXCEPT !.status = st, !.report = r]
    BY <1>6 DEF Report
  <2>2. task.run = r
    BY <1>6 DEF Report, ReportAccepted
  <2>. QED BY <1>0, <2>1, <2>2 DEF Tasks
<1>7. ASSUME NEW r \in Runs, Park(r) PROVE WorkInv'
  BY <1>0, <1>7 DEF Park, Tasks
<1>8. ASSUME Approve \/ RejectReport PROVE WorkInv'
  BY <1>0, <1>8 DEF Approve, RejectReport, Tasks
<1>9. ASSUME Reopen PROVE WorkInv'
  <2>1. /\ task'.status = "pending" /\ task'.merge = task.merge /\ task'.merged = task.merged
        /\ task'.run \in {task.run, NoRun}
        /\ FeedbackOnReport'
    <3>1. CASE task' = [task EXCEPT !.status = "pending"]
      BY <1>0, <3>1 DEF Tasks
    <3>2. CASE task.report # NoRun /\ task' = [task EXCEPT !.status = "pending", !.feedback = TRUE]
      BY <1>0, <3>2 DEF Tasks
    <3>3. CASE task' = [task EXCEPT !.status = "pending", !.run = NoRun, !.child = NoChild,
                                    !.generation = 0, !.cancelled = FALSE,
                                    !.report = NoRun, !.feedback = FALSE]
      <4>1. /\ task'.status = "pending" /\ task'.merge = task.merge /\ task'.merged = task.merged
            /\ task'.run = NoRun /\ task'.feedback = FALSE
        BY <1>0, <3>3 DEF Tasks
      <4>. QED BY <4>1
    <3>. QED BY <1>9, <3>1, <3>2, <3>3 DEF Reopen
  <2>. QED BY <2>1
<1>10. ASSUME WriteCancel PROVE WorkInv'
  BY <1>0, <1>10 DEF WriteCancel, Tasks
<1>11. ASSUME RunMerge PROVE WorkInv'
  BY <1>0, <1>11 DEF RunMerge, Tasks
<1>12. ASSUME FinishMerge PROVE WorkInv'
  BY <1>0, <1>12 DEF FinishMerge, MergeRunCurrent, Tasks, Mergings
<1>13. ASSUME NEW call \in Calls, CleanupStage(call) PROVE WorkInv'
  <2>1. CASE UNCHANGED task
    BY <2>1
  <2>2. CASE \E state, status : Recorded(state, status)
    BY <1>0, <2>2 DEF Recorded, Tasks
  <2>. QED
    BY <2>1, <2>2, <1>13
    DEF CleanupStage, BeginCleanup, MarkIntent, StopChild, StopChildFails, RecordDeletion,
        RemoveWorkspace, RemoveWorkspaceFails, CleanupFailed
<1>14. ASSUME Next PROVE \/ UNCHANGED task
                         \/ \E r \in Runs : \/ Commit(r) \/ MarkCreated(r) \/ Publish(r)
                                            \/ FailDispatch(r) \/ Report(r) \/ Park(r)
                         \/ Approve \/ RejectReport \/ Reopen \/ WriteCancel
                         \/ RunMerge \/ FinishMerge
                         \/ \E call \in Calls : CleanupStage(call)
  BY <1>14
  DEF Next, Step, LaunchStep, RetryStep, MergeStep, Prepare, PrepareRetry, Prepared, RefuseRetry,
      CreateWorkspace, CreateChild, ClaimResumed, Start, LoopEnds, WatchExit, FenceCancel,
      Drain, BeginMerge, CleanupStep, Interrupt, childVars, callVars
<1>. QED
  BY <1>1, <1>2, <1>3, <1>4, <1>5, <1>6, <1>7, <1>8, <1>9, <1>10, <1>11, <1>12, <1>13, <1>14
  DEF vars, program

(* The strengthening holds from the start.                                 *)
LEMMA WorkAlways == Spec => [](TypeInv /\ WorkInv)
<1>1. Init => WorkInv
  BY DEF Init, WorkInv, ReportOfCurrentRun, AcceptedHasRun, MergedOfRun, FeedbackOnReport
<1>2. TypeInv /\ WorkInv /\ [Next]_vars => WorkInv'
  BY WorkStep
<1>. QED BY <1>1, <1>2, TypesAlways, PTL DEF Spec

(* However dispatches, cancels, reopenings, late reports, exit watchers    *)
(* and interruptions interleave, a task under review or approved carries   *)
(* the report of its current run (the run_id check of Report).             *)
THEOREM ReportsAreCurrent == Spec => []ReportOfCurrentRun
BY WorkAlways, WorkInvSuffices, PTL

(* Likewise an approved task marked as merged had the files of its current *)
(* run merged (the run checks of Merge.apply, the reset of the commit).    *)
THEOREM MergesAreCurrent == Spec => []MergedRunIsCurrent
BY WorkAlways, WorkInvSuffices, PTL
-----------------------------------------------------------------------------
(* What holds until a launch overlaps a cleanup, another launch or a child *)
(* that could not be stopped, whatever is interrupted or fails.            *)

(* What is known of the rows: all are settled but one, of the generation   *)
(* that is given.                                                          *)
OthersSettled(c) == \A d \in Runs : Unsettled(d) => d = c
OnlyUnsettled(c, g) ==
  \A d \in Runs : Unsettled(d) => d = c /\ g # 0 /\ activation[d].generation = g
OneUnsettled == \A c, d \in Runs : Unsettled(c) /\ Unsettled(d) => c = d

(* A run whose child was not created yet has no row.                       *)
Early == {"none", "prepared", "workspace", "create"}
FreshRows ==
  \A r \in Runs : launch[r].stage \in Early =>
    ~Activation!Exists(activation[r]) /\ task.child # r /\ launch[r].child = NoChild

(* A launch before its commit, and from there to its end: which run the    *)
(* task is in, which children may be unsettled, and that there is a        *)
(* workspace when a child is about to work in it.                          *)
Committing(r) == launch[r].stage \notin {"none", "prepared", "done"}

PreparedOk(r) ==
  launch[r].stage = "prepared" =>
    /\ Dispatchable
    /\ launch[r].resumes = NoChild => ChildrenSettled
    /\ launch[r].resumes # NoChild => /\ Continues /\ workspace
                                      /\ launch[r].resumes = task.child
                                      /\ OthersSettled(task.child)

CommittedOk(r) ==
  Committing(r) =>
    /\ task.run = r /\ task.record = "none" /\ ~task.cancelled
    /\ task.status \in {"dispatched", "running"}
    /\ launch[r].stage = "start" => task.status = "running"

CreatingOk(r) ==
  launch[r].stage \in {"workspace", "create"} =>
    /\ launch[r].resumes = NoChild /\ task.child = NoChild /\ ChildrenSettled
    /\ launch[r].stage = "create" => workspace

MarkOk(r) ==
  launch[r].stage = "mark" =>
    /\ launch[r].resumes = NoChild /\ launch[r].child = r /\ workspace
    /\ Unsettled(r) /\ OnlyUnsettled(r, launch[r].generation)

ClaimOk(r) ==
  launch[r].stage = "claim" =>
    /\ workspace /\ launch[r].child = NoChild
    /\ launch[r].resumes = task.child /\ OthersSettled(task.child)

PublishOk(r) ==
  launch[r].stage \in {"publish", "start"} =>
    /\ launch[r].child = Child(r) /\ task.child = Child(r) /\ workspace
    /\ Unsettled(Child(r)) /\ OnlyUnsettled(Child(r), launch[r].generation)
    /\ launch[r].stage = "start" \/ launch[r].resumes = NoChild =>
         task.generation = launch[r].generation

FailingOk(r) ==
  launch[r].stage = "failing" =>
    /\ OthersSettled(task.child)
    /\ launch[r].child = NoChild \/ OnlyUnsettled(launch[r].child, task.generation)

LaunchOk(r) ==
  /\ PreparedOk(r) /\ CommittedOk(r) /\ CreatingOk(r) /\ MarkOk(r)
  /\ ClaimOk(r) /\ PublishOk(r) /\ FailingOk(r)
LaunchesOk == \A r \in Runs : LaunchOk(r)

(* The task between two launches: only its own child may be unsettled, and *)
(* once it may be given to a fresh child, not even that one, unless a      *)
(* cleanup goes on or has failed.                                          *)
Own(call) == call \notin {Merge, Update}
OwnJob == \E call \in Calls : Own(call) /\ jobs[call] # NoJob

RestOk ==
  /\ task.status # "dispatched"
  /\ ~Dispatchable => task.child # NoChild /\ OnlyUnsettled(task.child, task.generation)
  /\ ~Dispatchable => Dispatched
  /\ Dispatched \/ task.record # "failed" => OthersSettled(task.child)
  /\ Dispatchable /\ ~Continues /\ ~OwnJob => ChildrenSettled \/ task.record = "failed"

TaskOk ==
  /\ task.cancelled => task.status = "pending"
  /\ task.record \in {"deleting", "completed"} => ChildrenSettled
  /\ (\A r \in Runs : ~Committing(r)) => RestOk

(* A cleanup knows of the child that may be unsettled, or knows of none    *)
(* and fails; from the deletion on all children are settled.               *)
Target(call) == IF call[1] = "report" THEN task.child ELSE jobs[call].child
JobOk(call) ==
  /\ jobs[call] # NoJob /\ (Own(call) \/ jobs[call].stage # "begin") => Dispatched
  /\ jobs[call].stage \in {"drain", "begin"} /\ Own(call) =>
       Target(call) = NoChild \/ OnlyUnsettled(Target(call), task.generation)
  /\ jobs[call].stage \in {"mark", "stop"} =>
       jobs[call].child = NoChild \/ OnlyUnsettled(jobs[call].child, jobs[call].generation)
  /\ jobs[call].stage = "stop" => jobs[call].child # NoChild
  /\ jobs[call].stage \in {"delete", "remove"} => ChildrenSettled
JobsOk == \A call \in Calls : JobOk(call)

(* A loop that runs has a workspace and an unsettled child, and no run     *)
(* after it has ended; a watcher that parks the task has settled its child.*)
LoopOk(r) ==
  /\ loop[r] # "none" => launch[r].stage = "done"
  /\ loop[r] = "running" => workspace /\ Unsettled(Child(r))
  /\ loop[r] = "running" /\ Dispatched => loop[task.run] \in {"none", "running"}
  /\ loop[r] \in {"parking", "parking failed"} /\ NeedsParking(r) => ChildrenSettled
LoopsOk == \A r \in Runs : LoopOk(r)

ApartInv ==
  /\ ~Overlapping
  /\ OneUnsettled /\ FreshRows /\ LaunchesOk /\ TaskOk /\ JobsOk /\ LoopsOk

-----------------------------------------------------------------------------
(* The rows.                                                               *)

(* A row that exists is the host's, and has a positive generation.         *)
LEMMA RowTyped ==
  ASSUME TypeInv, NEW c \in Runs
  PROVE  /\ Activation!Exists(activation[c]) => activation[c].owner = Host
         /\ activation[c].generation \in Nat
         /\ Unsettled(c) => /\ activation[c].generation # 0
                            /\ activation[c].state # "settled"
<1>1. activation[c] \in Activation!Row \cup {Activation!NoRow}
  BY DEF TypeInv, TypeOK
<1>2. CASE activation[c] \in Activation!Row
  BY <1>2 DEF Activation!Row, Activation!Exists, Activation!Settled, Unsettled
<1>3. CASE activation[c] = Activation!NoRow
  BY <1>3 DEF Activation!NoRow, Activation!Exists, Unsettled
<1>. QED BY <1>1, <1>2, <1>3

(* No row is created or claimed.                                           *)
Shrinks ==
  \A c \in Runs :
    /\ Activation!Exists(activation'[c]) => Activation!Exists(activation[c])
    /\ Unsettled(c)' => Unsettled(c) /\ activation'[c].generation = activation[c].generation

(* What is known of the unsettled rows then remains true.                  *)
LEMMA ShrinksKeeps ==
  ASSUME Shrinks
  PROVE  /\ ChildrenSettled => ChildrenSettled'
         /\ OneUnsettled => OneUnsettled'
         /\ \A c : OthersSettled(c) => OthersSettled(c)'
         /\ \A c, g : OnlyUnsettled(c, g) => OnlyUnsettled(c, g)'
BY DEF Shrinks, ChildrenSettled, OneUnsettled, OthersSettled, OnlyUnsettled, Unsettled

(* Rows that are left alone, in particular.                                *)
LEMMA UnchangedShrinks ==
  ASSUME UNCHANGED activation
  PROVE  Shrinks
BY DEF Shrinks, Unsettled

(* All rows are settled: no row is unsettled.                              *)
LEMMA NoneUnsettled ==
  ChildrenSettled <=> \A c \in Runs : ~Unsettled(c)
BY DEF ChildrenSettled, Unsettled

(* When all rows are settled, whatever is known of the others holds.       *)
LEMMA NoneUnsettledKnown ==
  ASSUME ChildrenSettled
  PROVE  /\ OneUnsettled
         /\ \A c : OthersSettled(c)
         /\ \A c, g : OnlyUnsettled(c, g)
BY NoneUnsettled DEF OneUnsettled, OthersSettled, OnlyUnsettled

(* The one unsettled row known by its generation is the only one.          *)
LEMMA OnlyIsOne ==
  ASSUME NEW c, NEW g, OnlyUnsettled(c, g)
  PROVE  OneUnsettled /\ OthersSettled(c)
BY DEF OneUnsettled, OthersSettled, OnlyUnsettled

(* A fenced transition claims nothing; one that settles the only row that  *)
(* may be unsettled leaves none.                                           *)
LEMMA MoveShrinks ==
  ASSUME TypeInv, NEW c \in Runs \cup {NoChild}, NEW g \in Nat,
         NEW to \in Activation!ActivationStates,
         Fenced(c, g, to), ActivationMoved(c, g, to)
  PROVE  /\ Shrinks
         /\ to = "settled" /\ OnlyUnsettled(c, g) => ChildrenSettled'
         /\ to # "settled" => \A d \in Runs : Unsettled(d) => Unsettled(d)'
<1>1. CASE g = 0 \/ c = NoChild
  <2>1. UNCHANGED activation
    BY <1>1 DEF ActivationMoved
  <2>2. OnlyUnsettled(c, g) => ChildrenSettled
    BY <1>1, NoneUnsettled, RunsTyped DEF OnlyUnsettled
  <2>3. \A d \in Runs : Unsettled(d) => Unsettled(d)'
    BY <2>1 DEF Unsettled
  <2>. QED BY <2>1, <2>2, <2>3, UnchangedShrinks, ShrinksKeeps
<1>2. CASE g # 0 /\ c # NoChild
  <2>1. /\ c \in Runs
        /\ activation' = [activation EXCEPT ![c] = Activation!Transitioned(@, to, 1)]
        /\ Activation!Settled(activation[c]) => to = "settled"
        /\ Activation!Exists(activation[c])
    BY <1>2 DEF ActivationMoved, Fenced, Activation!CasOk, Activation!CanTransition
  <2>2. activation \in ActivationTable
    BY DEF TypeInv, TypeOK, ActivationTable
  <2>3. activation[c] \in Activation!Row
    BY <2>1, <2>2 DEF ActivationTable, Activation!Exists, Activation!NoRow
  <2>4. /\ activation'[c].generation = activation[c].generation
        /\ activation'[c].state = to
    BY <2>1, <2>2, <2>3 DEF ActivationTable, Activation!Row, Activation!Transitioned
  <2>5. \A d \in Runs \ {c} : activation'[d] = activation[d]
    BY <2>1, <2>2 DEF ActivationTable
  <2>6. Shrinks
    BY <2>1, <2>4, <2>5 DEF Shrinks, Unsettled, Activation!Exists, Activation!Settled
  <2>7. ASSUME to = "settled", OnlyUnsettled(c, g) PROVE ChildrenSettled'
    <3>1. ~Unsettled(c)'
      BY <2>4, <2>7 DEF Unsettled, Activation!Settled
    <3>2. \A d \in Runs \ {c} : ~Unsettled(d)'
      BY <2>5, <2>7 DEF OnlyUnsettled, Unsettled
    <3>. QED BY <3>1, <3>2 DEF ChildrenSettled, Unsettled
  <2>8. ASSUME to # "settled", NEW d \in Runs, Unsettled(d) PROVE Unsettled(d)'
    <3>1. CASE d = c
      BY <2>4, <2>8, <3>1 DEF Unsettled, Activation!Exists, Activation!Settled
    <3>2. CASE d # c
      BY <2>5, <2>8, <3>2 DEF Unsettled
    <3>. QED BY <3>1, <3>2
  <2>. QED BY <2>6, <2>7, <2>8
<1>. QED BY <1>1, <1>2

(* A transition that is refused finds nothing unsettled under its token.   *)
LEMMA RefusedIsSettled ==
  ASSUME TypeInv, NEW c \in Runs, NEW g \in Nat, NEW to, OnlyUnsettled(c, g),
         ~Fenced(c, g, to)
  PROVE  ChildrenSettled
<1>1. SUFFICES ASSUME NEW d \in Runs, Unsettled(d) PROVE FALSE
  BY NoneUnsettled
<1>2. d = c /\ g # 0 /\ activation[c].generation = g
  BY <1>1 DEF OnlyUnsettled
<1>3. Activation!CasOk(activation[c], Host, g)
  BY <1>1, <1>2, RowTyped DEF Activation!CasOk, Unsettled
<1>4. Activation!CanTransition(activation[c], to)
  BY <1>1, <1>2 DEF Activation!CanTransition, Unsettled
<1>. QED BY <1>2, <1>3, <1>4 DEF Fenced

-----------------------------------------------------------------------------
(* What a step leaves alone.                                               *)

SameLaunch(r) ==
  /\ launch'[r].stage = launch[r].stage /\ launch'[r].resumes = launch[r].resumes
  /\ launch'[r].child = launch[r].child /\ launch'[r].generation = launch[r].generation
SameRun ==
  /\ task'.run = task.run /\ task'.child = task.child /\ task'.generation = task.generation
SameTask ==
  /\ SameRun
  /\ task'.status = task.status /\ task'.cancelled = task.cancelled
  /\ task'.feedback = task.feedback /\ task'.record = task.record

(* The session of a run is that of its launch.                             *)
LEMMA SameChild ==
  ASSUME NEW r, launch'[r].resumes = launch[r].resumes
  PROVE  Child(r)' = Child(r)
BY DEF Child

(* A launch that goes on, and whose child's row is left alone.             *)
LEMMA LaunchKept ==
  ASSUME NEW r \in Runs, LaunchOk(r), SameLaunch(r), SameTask, Shrinks,
         UNCHANGED workspace, Committing(r) => UNCHANGED activation
  PROVE  LaunchOk(r)'
<1>. USE DEF SameLaunch, SameTask, SameRun, LaunchOk
<1>1. PreparedOk(r)'
  BY ShrinksKeeps DEF PreparedOk, Dispatchable, Continues, Dispatched, OthersSettled, Shrinks
<1>2. CommittedOk(r)'
  BY DEF CommittedOk, Committing
<1>3. CASE ~Committing(r)
  BY <1>1, <1>2, <1>3 DEF Committing, CreatingOk, MarkOk, ClaimOk, PublishOk, FailingOk
<1>4. CASE Committing(r)
  <2>1. UNCHANGED activation /\ Child(r)' = Child(r)
    BY <1>4, SameChild
  <2>2. /\ ChildrenSettled' = ChildrenSettled
        /\ \A c \in Runs : Unsettled(c)' = Unsettled(c)
    BY <2>1 DEF ChildrenSettled, Unsettled
  <2>3. CreatingOk(r)' /\ MarkOk(r)'
    BY <2>1, <2>2 DEF CreatingOk, MarkOk, OnlyUnsettled
  <2>4. ClaimOk(r)' /\ FailingOk(r)'
    BY <2>1, <2>2 DEF ClaimOk, FailingOk, OthersSettled, OnlyUnsettled
  <2>5. PublishOk(r)'
    <3>1. Unsettled(Child(r)) => Unsettled(Child(r))'
      BY <2>1 DEF Unsettled
    <3>. QED BY <3>1, <2>1, <2>2 DEF PublishOk, OnlyUnsettled
  <2>. QED BY <1>1, <1>2, <2>3, <2>4, <2>5
<1>. QED BY <1>3, <1>4

(* No launch, nothing to show of it.                                       *)
LEMMA NoLaunches ==
  ASSUME \A r \in Runs : ~Launching(r)'
  PROVE  LaunchesOk'
BY DEF Launching, LaunchesOk, LaunchOk, PreparedOk, CommittedOk, Committing, CreatingOk, MarkOk,
       ClaimOk, PublishOk, FailingOk

(* Runs that have no child yet have none afterwards.                       *)
LEMMA FreshKept ==
  ASSUME FreshRows, Shrinks, task'.child \in {task.child, NoChild},
         \A r \in Runs : launch'[r].stage \in Early =>
           launch[r].stage \in Early /\ launch'[r].child = launch[r].child
  PROVE  FreshRows'
BY RunsTyped DEF FreshRows, Shrinks, Activation!Exists

(* A cleanup the step does not touch.                                      *)
LEMMA JobKept ==
  ASSUME NEW call \in Calls, JobOk(call), jobs'[call] = jobs[call], Shrinks, SameRun
  PROVE  JobOk(call)'
<1>. USE DEF SameRun
<1>1. Target(call)' = Target(call) /\ Dispatched' = Dispatched
  BY DEF Target, Dispatched
<1>2. /\ \A c, g : OnlyUnsettled(c, g) => OnlyUnsettled(c, g)'
      /\ ChildrenSettled => ChildrenSettled'
  BY ShrinksKeeps
<1>3. OnlyUnsettled(Target(call), task.generation) => OnlyUnsettled(Target(call), task.generation)'
  <2>1. \A c, g : OnlyUnsettled(c, g) /\ c = Target(call) /\ g = task.generation =>
          OnlyUnsettled(Target(call), task.generation)'
    BY <1>1, <1>2 DEF OnlyUnsettled
  <2>. QED BY <2>1
<1>4. OnlyUnsettled(jobs[call].child, jobs[call].generation) =>
        OnlyUnsettled(jobs[call].child, jobs[call].generation)'
  BY <1>2 DEF OnlyUnsettled
<1>. QED BY <1>1, <1>2, <1>3, <1>4 DEF JobOk

(* A call without a cleanup, and all of them.                              *)
LEMMA NoJobOk ==
  ASSUME NEW call \in Calls, jobs'[call] = NoJob
  PROVE  JobOk(call)'
BY DEF JobOk, NoJob

(* Likewise for all calls.                                                 *)
LEMMA NoJobsOk ==
  ASSUME jobs' = [call \in Calls |-> NoJob]
  PROVE  JobsOk'
BY NoJobOk DEF JobsOk

(* A launch, or a call of the main agent, meets no cleanup.                *)
LEMMA ApartFromJobs ==
  ASSUME TypeInv, ~Overlapping, NEW r \in Runs, Launching(r)
  PROVE  /\ \A call \in Calls : jobs[call] = NoJob
         /\ \A s \in Runs \ {r} : ~Launching(s)
BY DEF Overlapping, Meets, CleaningUp

(* A loop the step does not touch.                                         *)
LEMMA LoopKept ==
  ASSUME NEW r \in Runs, LoopOk(r), UNCHANGED <<loop, workspace>>, SameRun, Shrinks,
         launch[r].stage = "done" => launch'[r].stage = "done",
         launch'[r].resumes = launch[r].resumes \/ loop[r] = "none",
         loop[r] = "running" => Unsettled(Child(r))',
         NeedsParking(r)' => NeedsParking(r) \/ loop[r] \in {"none", "running", "ended", "failed", "over"}
  PROVE  LoopOk(r)'
BY ShrinksKeeps DEF LoopOk, SameRun, Dispatched

(* The task between launches, when the step does not touch it.             *)
LEMMA TaskKept ==
  ASSUME TaskOk, SameTask, Shrinks, OwnJob => OwnJob',
         \A r \in Runs : Committing(r) => Committing(r)'
  PROVE  TaskOk'
<1>. USE DEF SameTask, SameRun
<1>1. /\ Dispatched' = Dispatched /\ Dispatchable' = Dispatchable /\ Continues' = Continues
  BY DEF Dispatched, Dispatchable, Continues
<1>2. /\ OthersSettled(task.child) => OthersSettled(task.child)'
      /\ OnlyUnsettled(task.child, task.generation) => OnlyUnsettled(task.child, task.generation)'
      /\ ChildrenSettled => ChildrenSettled'
  BY ShrinksKeeps DEF OthersSettled, OnlyUnsettled
<1>3. RestOk => RestOk'
  BY <1>1, <1>2 DEF RestOk
<1>. QED BY <1>2, <1>3 DEF TaskOk

(* Nothing happens to the task's run, its children and its cleanups.       *)
LEMMA Undisturbed ==
  ASSUME TypeInv, ApartInv, ~Overlapping', UNCHANGED <<loop, activation, workspace, jobs>>,
         SameTask, \A r \in Runs : SameLaunch(r)
  PROVE  ApartInv'
<1>. USE DEF ApartInv
<1>1. Shrinks /\ SameRun
  BY UnchangedShrinks DEF SameTask
<1>2. LaunchesOk'
  BY <1>1, LaunchKept DEF LaunchesOk
<1>3. FreshRows' /\ OneUnsettled'
  BY <1>1, FreshKept, ShrinksKeeps DEF SameLaunch, SameRun
<1>4. TaskOk'
  BY <1>1, TaskKept DEF Committing, SameLaunch, OwnJob
<1>5. JobsOk'
  BY <1>1, JobKept DEF JobsOk
<1>6. LoopsOk'
  <2>1. ASSUME NEW r \in Runs PROVE LoopOk(r)'
    <3>1. Child(r)' = Child(r) /\ LoopOk(r)
      BY SameChild DEF SameLaunch, LoopsOk
    <3>2. NeedsParking(r)' = NeedsParking(r)
      BY <3>1 DEF NeedsParking, SameTask, SameRun
    <3>3. loop[r] = "running" => Unsettled(Child(r))'
      BY <3>1 DEF LoopOk, Unsettled
    <3>. QED BY <1>1, <3>1, <3>2, <3>3, LoopKept DEF SameLaunch
  <2>. QED BY <2>1 DEF LoopsOk
<1>. QED BY <1>2, <1>3, <1>4, <1>5, <1>6

(* A launch that goes on after its commit: what is left to show.           *)
LEMMA LoopsDuringLaunch ==
  ASSUME NEW r \in Runs, LoopsOk, loop[r] = "none", task'.run = r, UNCHANGED loop,
         workspace => workspace',
         \A c \in Runs : Unsettled(c) => Unsettled(c)',
         \A s \in Runs : launch[s].stage = "done" =>
           launch'[s].stage = "done" /\ launch'[s].resumes = launch[s].resumes,
         \A s \in Runs : loop[s] # "none" => Child(s) \in Runs
  PROVE  LoopsOk'
<1>1. SUFFICES ASSUME NEW s \in Runs PROVE LoopOk(s)'
  BY DEF LoopsOk
<1>2. LoopOk(s)
  BY DEF LoopsOk
<1>3. CASE loop[s] = "none"
  BY <1>3 DEF LoopOk
<1>4. CASE loop[s] # "none"
  <2>1. launch[s].stage = "done" /\ Child(s)' = Child(s) /\ s # r
    BY <1>2, <1>4, SameChild DEF LoopOk
  <2>2. Unsettled(Child(s)) => Unsettled(Child(s))'
    <3>1. \A c \in Runs : c = Child(s) /\ Unsettled(c) => Unsettled(Child(s))'
      BY <2>1 DEF Unsettled
    <3>. QED BY <3>1, <1>4
  <2>3. ~NeedsParking(s)'
    BY <2>1 DEF NeedsParking
  <2>. QED BY <1>2, <2>1, <2>2, <2>3 DEF LoopOk
<1>. QED BY <1>3, <1>4

(* A launch that takes a step and is not over with it.                     *)
LEMMA LaunchGoesOn ==
  ASSUME TypeInv, ApartInv, ~Overlapping', NEW r \in Runs, Launching(r), Committing(r)',
         UNCHANGED <<loop, jobs>>, workspace => workspace',
         \A c \in Runs : Unsettled(c) => Unsettled(c)',
         \A s \in Runs \ {r} : launch'[s] = launch[s],
         LaunchOk(r)', FreshRows', OneUnsettled'
  PROVE  ApartInv'
<1>. USE DEF ApartInv
<1>1. /\ \A call \in Calls : jobs[call] = NoJob
      /\ \A s \in Runs \ {r} : ~Launching(s)
  BY ApartFromJobs
<1>2. LaunchesOk'
  <2>1. ASSUME NEW s \in Runs \ {r} PROVE LaunchOk(s)'
    BY <1>1 DEF Launching, LaunchOk, PreparedOk, CommittedOk, Committing, CreatingOk, MarkOk,
       ClaimOk, PublishOk, FailingOk
  <2>. QED BY <2>1 DEF LaunchesOk
<1>3. task'.run = r /\ TaskOk'
  BY DEF LaunchOk, CommittedOk, TaskOk
<1>4. JobsOk'
  <2>1. jobs' = [call \in Calls |-> NoJob]
    BY <1>1 DEF TypeInv, TypeOK
  <2>. QED BY <2>1, NoJobsOk
<1>5. LoopsOk'
  <2>1. loop[r] = "none"
    BY DEF LoopsOk, LoopOk, Launching
  <2>2. \A s \in Runs : launch[s].stage = "done" =>
          launch'[s].stage = "done" /\ launch'[s].resumes = launch[s].resumes
    BY DEF Launching
  <2>3. \A s \in Runs : Child(s) \in Runs
    BY ChildTyped DEF TypeInv, TypeOK
  <2>. QED BY <1>3, <2>1, <2>2, <2>3, LoopsDuringLaunch
<1>. QED BY <1>2, <1>3, <1>4, <1>5

(* No launch is under way when a report is accepted or was.                *)
LEMMA NoLaunchAround ==
  ASSUME ApartInv,
         \/ task.status \in {"reported", "approved"}
         \/ ~Dispatchable /\ task.run \in Runs /\ launch[task.run].stage = "done"
  PROVE  (\A r \in Runs : ~Launching(r)) /\ RestOk
<1>1. \A r \in Runs : ~Committing(r)
  BY DEF ApartInv, LaunchesOk, LaunchOk, CommittedOk, Committing
<1>2. \A r \in Runs : launch[r].stage # "prepared"
  BY DEF ApartInv, LaunchesOk, LaunchOk, PreparedOk, Dispatchable
<1>. QED BY <1>1, <1>2 DEF Committing, Launching, ApartInv, TaskOk

(* No launch is under way when a cleanup is.                               *)
LEMMA NoLaunchBeside ==
  ASSUME TypeInv, ApartInv, NEW call \in Calls, jobs[call] # NoJob
  PROVE  (\A r \in Runs : ~Launching(r)) /\ RestOk
<1>1. \A r \in Runs : ~Launching(r)
  BY ApartFromJobs DEF ApartInv
<1>. QED BY <1>1 DEF Launching, Committing, ApartInv, TaskOk

-----------------------------------------------------------------------------
(* The steps of a launch.                                                  *)

(* A launch is prepared while nothing goes on that it could meet.          *)
LEMMA PreparedApart ==
  ASSUME TypeInv, ApartInv, ~Overlapping', NEW r \in Runs, NEW automatic \in BOOLEAN,
         Prepared(r, automatic)
  PROVE  ApartInv'
<1>. USE DEF ApartInv
<1>0. /\ launch[r].stage = "none"
      /\ UNCHANGED <<task, loop, activation, workspace, jobs>>
  BY DEF Prepared, childVars
<1>1. /\ launch'[r].stage = "prepared"
      /\ launch'[r].resumes = IF Continues THEN task.child ELSE NoChild
      /\ launch'[r].child = launch[r].child
      /\ \A s \in Runs \ {r} : launch'[s] = launch[s]
  <2>1. launch[r] \in Launches
    BY DEF TypeInv, TypeOK
  <2> DEFINE resumed == IF Continues THEN task.child ELSE NoChild
  <2>2. launch' = [launch EXCEPT ![r].stage = "prepared", ![r].automatic = automatic,
                                 ![r].resumes = resumed]
    BY DEF Prepared
  <2> HIDE DEF resumed
  <2>3. /\ launch'[r].stage = "prepared" /\ launch'[r].resumes = resumed
        /\ launch'[r].child = launch[r].child
    BY <2>1, <2>2 DEF Launches, TypeInv, TypeOK
  <2>4. \A s \in Runs \ {r} : launch'[s] = launch[s]
    BY <2>2 DEF TypeInv, TypeOK
  <2>. QED BY <2>3, <2>4 DEF resumed
<1>2. /\ \A call \in Calls : jobs[call] = NoJob
      /\ \A s \in Runs : ~Launching(s)
  <2>1. Launching(r)'
    BY <1>1 DEF Launching
  <2>2. ~Meets(r)'
    BY <2>1 DEF Overlapping
  <2>. QED BY <1>0, <1>1, <2>2 DEF Meets, CleaningUp, Launching
<1>3. Shrinks /\ SameTask /\ SameRun
  BY <1>0, UnchangedShrinks DEF SameTask, SameRun
<1>4. RestOk /\ ~OwnJob
  BY <1>2 DEF TaskOk, Committing, Launching, OwnJob
<1>5. LaunchesOk'
  <2>1. ASSUME NEW s \in Runs \ {r} PROVE LaunchOk(s)'
    BY <1>1, <1>2 DEF Launching, LaunchOk, PreparedOk, CommittedOk, Committing, CreatingOk, MarkOk,
       ClaimOk, PublishOk, FailingOk
  <2>2. PreparedOk(r)'
    <3>1. Dispatchable' /\ Continues' = Continues /\ workspace' = workspace
      BY <1>0 DEF Prepared, Dispatchable, Continues, Dispatched
    <3>2. CASE Continues
      <4>1. task.child # NoChild /\ workspace /\ OthersSettled(task.child)
        BY <1>4, <3>2 DEF Prepared, ContinuationExplored, Continues, RestOk
      <4>. QED BY <1>0, <1>1, <3>1, <3>2, <4>1 DEF PreparedOk, OthersSettled, Unsettled
    <3>3. CASE ~Continues
      <4>1. ChildrenSettled \/ task.record = "failed"
        BY <1>4, <3>3 DEF Prepared, RestOk
      <4>2. ChildrenSettled'
        <5>1. CASE ChildrenSettled
          BY <1>0, <5>1 DEF ChildrenSettled
        <5>2. CASE task.record = "failed"
          <6>1. Launching(r)' /\ Child(r)' = r
            BY <1>1, <3>3 DEF Launching, Child
          <6>2. ~Meets(r)'
            BY <6>1 DEF Overlapping
          <6>3. \A c \in Runs \ {r} : ~Unsettled(c)'
            BY <1>0, <1>1, <5>2, <6>1, <6>2 DEF Meets
          <6>4. ~Unsettled(r)'
            BY <1>0 DEF FreshRows, Early, Unsettled
          <6>. QED BY <6>3, <6>4 DEF ChildrenSettled, Unsettled
        <5>. QED BY <4>1, <5>1, <5>2
      <4>. QED BY <1>1, <3>1, <3>3, <4>2 DEF PreparedOk
    <3>. QED BY <3>2, <3>3
  <2>3. LaunchOk(r)'
    BY <1>1, <2>2 DEF LaunchOk, CommittedOk, Committing, CreatingOk, MarkOk,
       ClaimOk, PublishOk, FailingOk
  <2>. QED BY <2>1, <2>3 DEF LaunchesOk
<1>6. FreshRows'
  BY <1>0, <1>1, <1>3, FreshKept DEF Early
<1>7. TaskOk' /\ OneUnsettled'
  BY <1>0, <1>1, <1>2, <1>3, TaskKept, ShrinksKeeps DEF Committing, Launching, OwnJob
<1>8. JobsOk'
  BY <1>0, <1>3, JobKept DEF JobsOk
<1>9. LoopsOk'
  <2>1. ASSUME NEW s \in Runs PROVE LoopOk(s)'
    <3>1. LoopOk(s)
      BY DEF LoopsOk
    <3>2. CASE s = r
      <4>1. loop[s] = "none"
        BY <1>0, <3>1, <3>2 DEF LoopOk
      <4>. QED BY <1>0, <4>1 DEF LoopOk
    <3>3. CASE s # r
      <4>1. Child(s)' = Child(s)
        BY <1>1, <3>3, SameChild
      <4>2. NeedsParking(s)' = NeedsParking(s)
        BY <1>0, <4>1 DEF NeedsParking
      <4>3. Unsettled(Child(s))' = Unsettled(Child(s))
        BY <1>0, <4>1 DEF Unsettled
      <4>. QED BY <1>0, <1>1, <1>3, <3>1, <3>3, <4>1, <4>2, <4>3, LoopKept DEF LoopOk
    <3>. QED BY <3>2, <3>3
  <2>. QED BY <2>1 DEF LoopsOk
<1>. QED BY <1>5, <1>6, <1>7, <1>8, <1>9

(* The stage a launch goes on to, and nothing else of it.                  *)
LEMMA LaunchedTo ==
  ASSUME TypeInv, NEW r \in Runs, NEW stage, Launched(r, stage)
  PROVE  /\ launch'[r].stage = stage /\ launch'[r].resumes = launch[r].resumes
         /\ launch'[r].child = launch[r].child /\ launch'[r].generation = launch[r].generation
         /\ \A s \in Runs \ {r} : launch'[s] = launch[s]
BY DEF Launched, TypeInv, TypeOK, Launches

(* The commit finds the task as it was read, or gives up.                  *)
LEMMA CommitApart ==
  ASSUME TypeInv, ApartInv, ~Overlapping', NEW r \in Runs, Commit(r)
  PROVE  ApartInv'
<1>. USE DEF ApartInv
<1>0. /\ launch[r].stage = "prepared" /\ PreparedOk(r) /\ Launching(r)
      /\ UNCHANGED <<loop, activation, workspace, jobs>>
  BY DEF Commit, childVars, LaunchesOk, LaunchOk, Launching
<1>1. Shrinks /\ OneUnsettled' /\ \A c \in Runs : Unsettled(c) => Unsettled(c)'
  BY <1>0, UnchangedShrinks, ShrinksKeeps DEF Unsettled
<1>2. CASE task' = task /\ Launched(r, "done")
  <2>1. /\ launch'[r].stage = "done" /\ launch'[r].resumes = launch[r].resumes
        /\ \A s \in Runs \ {r} : launch'[s] = launch[s]
    BY <1>2, LaunchedTo
  <2>2. \A s \in Runs \ {r} : ~Launching(s)
    BY <1>0, ApartFromJobs
  <2>3. LaunchesOk'
    BY <2>1, <2>2, NoLaunches DEF Launching
  <2>4. SameTask /\ SameRun
    BY <1>2 DEF SameTask, SameRun
  <2>5. FreshRows'
    BY <1>1, <1>2, <2>1, FreshKept DEF Early
  <2>6. TaskOk'
    BY <1>0, <1>1, <2>1, <2>4, TaskKept DEF Committing, OwnJob
  <2>7. JobsOk'
    BY <1>0, <1>1, <2>4, JobKept DEF JobsOk
  <2>8. LoopsOk'
    <3>1. ASSUME NEW s \in Runs PROVE LoopOk(s)'
      <4>1. LoopOk(s) /\ Child(s)' = Child(s)
        BY <2>1, SameChild DEF LoopsOk
      <4>2. NeedsParking(s)' = NeedsParking(s)
        BY <1>2, <4>1 DEF NeedsParking
      <4>3. Unsettled(Child(s))' = Unsettled(Child(s))
        BY <1>0, <4>1 DEF Unsettled
      <4>. QED BY <1>0, <1>1, <2>1, <2>4, <4>1, <4>2, <4>3, LoopKept DEF LoopOk
    <3>. QED BY <3>1 DEF LoopsOk
  <2>. QED BY <1>1, <2>3, <2>5, <2>6, <2>7, <2>8
<1>3. CASE /\ Dispatchable /\ task' = Committed(task, r, launch[r].resumes)
           /\ Launched(r, IF launch[r].resumes = NoChild THEN "workspace" ELSE "claim")
  <2>1. /\ launch'[r].stage = IF launch[r].resumes = NoChild THEN "workspace" ELSE "claim"
        /\ launch'[r].resumes = launch[r].resumes /\ launch'[r].child = launch[r].child
        /\ \A s \in Runs \ {r} : launch'[s] = launch[s]
    BY <1>3, LaunchedTo
  <2>2. /\ task'.run = r /\ task'.child = launch[r].resumes /\ task'.record = "none"
        /\ task'.cancelled = FALSE /\ task'.status = "dispatched"
    <3>1. task \in Tasks
      BY DEF TypeInv, TypeOK
    <3>. QED BY <1>3, <3>1 DEF Committed, Tasks
  <2>3. launch[r].child = NoChild
    BY <1>0 DEF FreshRows, Early
  <2>4. FreshRows'
    <3>1. task'.child \in {task.child, NoChild}
      BY <1>0, <2>2 DEF PreparedOk
    <3>. QED BY <1>0, <1>1, <2>1, <3>1, FreshKept DEF Early
  <2>5. CommittedOk(r)' /\ Committing(r)'
    BY <2>1, <2>2 DEF CommittedOk, Committing
  <2>6. CreatingOk(r)'
    BY <1>0, <2>1, <2>2 DEF CreatingOk, PreparedOk, ChildrenSettled
  <2>7. ClaimOk(r)'
    BY <1>0, <2>1, <2>2, <2>3 DEF ClaimOk, PreparedOk, OthersSettled, Unsettled
  <2>8. LaunchOk(r)'
    BY <2>1, <2>5, <2>6, <2>7 DEF LaunchOk, PreparedOk, MarkOk, PublishOk, FailingOk
  <2>. QED BY <1>0, <1>1, <2>1, <2>4, <2>5, <2>8, LaunchGoesOn
<1>. QED BY <1>2, <1>3 DEF Commit

(* The workspace is created before there is any child to settle.           *)
LEMMA CreateWorkspaceApart ==
  ASSUME TypeInv, ApartInv, ~Overlapping', NEW r \in Runs, CreateWorkspace(r)
  PROVE  ApartInv'
<1>. USE DEF ApartInv
<1>0. /\ launch[r].stage = "workspace" /\ LaunchOk(r) /\ Launching(r)
      /\ UNCHANGED <<task, loop, activation, jobs>>
  BY DEF CreateWorkspace, childVars, LaunchesOk, Launching
<1>1. Shrinks /\ OneUnsettled' /\ \A c \in Runs : Unsettled(c) => Unsettled(c)'
  BY <1>0, UnchangedShrinks, ShrinksKeeps DEF Unsettled
<1>2. \/ workspace' = TRUE /\ (Launched(r, "failing") \/ Launched(r, "create"))
      \/ UNCHANGED workspace /\ Launched(r, "failing")
  BY DEF CreateWorkspace
<1>3. /\ \/ launch'[r].stage = "create" /\ workspace'
         \/ launch'[r].stage = "failing"
      /\ workspace => workspace'
      /\ launch'[r].resumes = launch[r].resumes /\ launch'[r].child = launch[r].child
      /\ \A s \in Runs \ {r} : launch'[s] = launch[s]
  BY <1>2, LaunchedTo
<1>4. launch[r].child = NoChild /\ ChildrenSettled
  BY <1>0 DEF FreshRows, Early, LaunchOk, CreatingOk
<1>5. FreshRows'
  BY <1>0, <1>1, <1>3, FreshKept DEF Early
<1>6. CommittedOk(r)' /\ Committing(r)'
  BY <1>0, <1>3 DEF LaunchOk, CommittedOk, Committing
<1>7. CreatingOk(r)' /\ FailingOk(r)'
  <2>1. ChildrenSettled'
    BY <1>1, <1>4, ShrinksKeeps
  <2>2. OthersSettled(task.child)'
    BY <2>1 DEF OthersSettled, ChildrenSettled, Unsettled
  <2>. QED BY <1>0, <1>3, <1>4, <2>1, <2>2 DEF LaunchOk, CreatingOk, FailingOk
<1>8. LaunchOk(r)'
  BY <1>3, <1>6, <1>7 DEF LaunchOk, PreparedOk, MarkOk, ClaimOk, PublishOk
<1>. QED BY <1>0, <1>1, <1>3, <1>5, <1>6, <1>8, LaunchGoesOn

(* A claim makes its row the only unsettled one, if the others are settled.*)
LEMMA ClaimUnsettles ==
  ASSUME TypeInv, NEW c \in Runs, NEW r \in Runs, Claim(c, r), OthersSettled(c),
         NEW g, g = ClaimedGeneration(c, r)
  PROVE  /\ Unsettled(c)' /\ OnlyUnsettled(c, g)' /\ OneUnsettled'
         /\ \A d \in Runs : Unsettled(d) => Unsettled(d)'
         /\ \A d \in Runs \ {c} : activation'[d] = activation[d]
<1>1. activation'[c] = Activation!Claimed(activation[c], Host, r, 1)
  BY DEF Claim, TypeInv, TypeOK
<1>2. \A d \in Runs \ {c} : activation'[d] = activation[d]
  BY DEF Claim, TypeInv, TypeOK
<1>3. activation'[c].generation = g
  BY <1>1 DEF ClaimedGeneration
<1>4. activation'[c].generation # 0 /\ activation'[c].state = "starting"
  BY <1>1, RowTyped DEF Activation!Claimed, Activation!KeepsGeneration, Activation!Exists
<1>5. Unsettled(c)'
  BY <1>4 DEF Unsettled, Activation!Exists, Activation!Settled
<1>6. \A d \in Runs \ {c} : ~Unsettled(d)'
  BY <1>2 DEF OthersSettled, Unsettled
<1>7. OnlyUnsettled(c, g)' /\ OneUnsettled'
  BY <1>3, <1>4, <1>6 DEF OnlyUnsettled, OneUnsettled
<1>8. \A d \in Runs : Unsettled(d) => Unsettled(d)'
  BY <1>5 DEF OthersSettled
<1>. QED BY <1>2, <1>5, <1>7, <1>8

(* The child that is created is the only one that is unsettled.            *)
LEMMA CreateChildApart ==
  ASSUME TypeInv, ApartInv, ~Overlapping', NEW r \in Runs, CreateChild(r)
  PROVE  ApartInv'
<1>. USE DEF ApartInv
<1>0. /\ launch[r].stage = "create" /\ LaunchOk(r) /\ Launching(r) /\ launch[r] \in Launches
      /\ UNCHANGED <<task, loop, workspace, jobs>>
  BY DEF CreateChild, childVars, LaunchesOk, Launching, TypeInv, TypeOK
<1>1. /\ CreatingOk(r) /\ CommittedOk(r) /\ launch[r].child = NoChild /\ ChildrenSettled
      /\ workspace /\ task.child = NoChild /\ launch[r].resumes = NoChild
  BY <1>0 DEF LaunchOk, CreatingOk, FreshRows, Early
<1>2. CASE launch'[r].stage = "failing" /\ UNCHANGED activation
           /\ launch'[r].child \in {NoChild, r} /\ launch'[r].resumes = launch[r].resumes
           /\ \A s \in Runs \ {r} : launch'[s] = launch[s]
  <2>1. Shrinks /\ OneUnsettled' /\ \A c \in Runs : Unsettled(c) => Unsettled(c)'
    BY <1>2, UnchangedShrinks, ShrinksKeeps DEF Unsettled
  <2>2. FreshRows'
    BY <1>0, <1>2, <2>1, FreshKept DEF Early
  <2>3. FailingOk(r)'
    <3>1. ChildrenSettled'
      BY <1>1, <2>1, ShrinksKeeps
    <3>2. \A c \in Runs : ~Unsettled(c)'
      BY <3>1 DEF ChildrenSettled, Unsettled
    <3>. QED BY <3>2 DEF FailingOk, OthersSettled, OnlyUnsettled
  <2>4. CommittedOk(r)' /\ Committing(r)'
    BY <1>0, <1>1, <1>2 DEF CommittedOk, Committing
  <2>5. LaunchOk(r)'
    BY <1>2, <2>3, <2>4 DEF LaunchOk, PreparedOk, CreatingOk, MarkOk, ClaimOk, PublishOk
  <2>. QED BY <1>0, <1>2, <2>1, <2>2, <2>4, <2>5, LaunchGoesOn
<1>3. CASE /\ Claim(r, r)
           /\ launch' = [launch EXCEPT ![r].stage = "mark", ![r].child = r,
                                       ![r].generation = ClaimedGeneration(r, r)]
  <2> DEFINE g == ClaimedGeneration(r, r)
  <2>1. /\ launch'[r].stage = "mark" /\ launch'[r].child = r /\ launch'[r].generation = g
        /\ launch'[r].resumes = NoChild
        /\ \A s \in Runs \ {r} : launch'[s] = launch[s]
    <3>1. launch' = [launch EXCEPT ![r].stage = "mark", ![r].child = r, ![r].generation = g]
      BY <1>3
    <3> HIDE DEF g
    <3>. QED BY <1>0, <1>1, <3>1 DEF Launches, TypeInv, TypeOK
  <2>2. OthersSettled(r)
    BY <1>1, NoneUnsettledKnown
  <2>3. /\ Unsettled(r)' /\ OneUnsettled'
        /\ \A d \in Runs : Unsettled(d) => Unsettled(d)'
        /\ \A d \in Runs \ {r} : activation'[d] = activation[d]
        /\ \A h : h = g => OnlyUnsettled(r, h)'
    <3>1. PICK h : h = g
      OBVIOUS
    <3> HIDE DEF g
    <3>2. OnlyUnsettled(r, h)'
      BY <1>3, <2>2, <3>1, ClaimUnsettles DEF g
    <3>3. \A k : k = g => OnlyUnsettled(r, k)'
      BY <3>1, <3>2
    <3>. QED BY <1>3, <2>2, <3>3, ClaimUnsettles
  <2> HIDE DEF g
  <2>4. FreshRows'
    BY <1>0, <1>1, <2>1, <2>3 DEF FreshRows, Early, Activation!Exists
  <2>5. MarkOk(r)'
    <3>1. OnlyUnsettled(r, launch[r].generation)'
      BY <2>1, <2>3 DEF OnlyUnsettled
    <3>. QED BY <1>0, <1>1, <2>1, <2>3, <3>1 DEF MarkOk
  <2>6. CommittedOk(r)' /\ Committing(r)'
    BY <1>0, <1>1, <2>1 DEF CommittedOk, Committing
  <2>7. LaunchOk(r)'
    BY <2>1, <2>5, <2>6 DEF LaunchOk, PreparedOk, CreatingOk, FailingOk, ClaimOk, PublishOk
  <2>. QED BY <1>0, <2>1, <2>3, <2>4, <2>6, <2>7, LaunchGoesOn
<1>4. CASE Launched(r, "failing") /\ UNCHANGED activation
  BY <1>1, <1>2, <1>4, LaunchedTo
<1>5. CASE launch' = [launch EXCEPT ![r].stage = "failing", ![r].child = r] /\ UNCHANGED activation
  <2>1. /\ launch'[r].stage = "failing" /\ launch'[r].child = r
        /\ launch'[r].resumes = launch[r].resumes
        /\ \A s \in Runs \ {r} : launch'[s] = launch[s]
    BY <1>0, <1>5 DEF Launches, TypeInv, TypeOK
  <2>. QED BY <1>2, <1>5, <2>1
<1>. QED BY <1>3, <1>4, <1>5 DEF CreateChild

(* Its identity goes into the plan of the run that is still current.       *)
LEMMA MarkCreatedApart ==
  ASSUME TypeInv, ApartInv, ~Overlapping', NEW r \in Runs, MarkCreated(r)
  PROVE  ApartInv'
<1>. USE DEF ApartInv
<1>0. /\ launch[r].stage = "mark" /\ LaunchOk(r) /\ Launching(r)
      /\ UNCHANGED <<loop, activation, workspace, jobs>>
  BY DEF MarkCreated, childVars, LaunchesOk, Launching
<1>1. CommittedOk(r) /\ MarkOk(r) /\ task.run = r /\ Dispatched
  BY <1>0, RunsTyped DEF LaunchOk, CommittedOk, Committing, Dispatched
<1>2. /\ task' = [task EXCEPT !.child = r, !.generation = launch[r].generation]
      /\ Launched(r, "publish")
  BY <1>1 DEF MarkCreated
<1>3. /\ task'.child = r /\ task'.generation = launch[r].generation
      /\ task'.status = task.status /\ task'.run = task.run /\ task'.record = task.record
      /\ task'.cancelled = task.cancelled
  BY <1>2 DEF TypeInv, TypeOK, Tasks
<1>4. /\ launch'[r].stage = "publish" /\ launch'[r].resumes = launch[r].resumes
      /\ launch'[r].child = launch[r].child /\ launch'[r].generation = launch[r].generation
      /\ \A s \in Runs \ {r} : launch'[s] = launch[s]
  BY <1>2, LaunchedTo
<1>5. Shrinks /\ OneUnsettled' /\ \A c \in Runs : Unsettled(c) => Unsettled(c)'
  BY <1>0, UnchangedShrinks, ShrinksKeeps DEF Unsettled
<1>6. FreshRows'
  BY <1>0, <1>3, <1>4 DEF FreshRows, Early
<1>7. PublishOk(r)'
  <2>1. Child(r)' = r
    BY <1>0, <1>1, <1>4 DEF MarkOk, Child
  <2>2. /\ Unsettled(r)' /\ OnlyUnsettled(r, launch[r].generation)'
    BY <1>0, <1>1, <1>4 DEF MarkOk, Unsettled, OnlyUnsettled
  <2>3. Unsettled(Child(r))' /\ OnlyUnsettled(Child(r), launch[r].generation)'
    BY <2>1, <2>2 DEF Unsettled, OnlyUnsettled
  <2>. QED BY <1>0, <1>1, <1>3, <1>4, <2>1, <2>3 DEF MarkOk, PublishOk
<1>8. CommittedOk(r)' /\ Committing(r)'
  BY <1>0, <1>1, <1>3, <1>4 DEF CommittedOk, Committing
<1>9. LaunchOk(r)'
  BY <1>4, <1>7, <1>8 DEF LaunchOk, PreparedOk, CreatingOk, FailingOk, ClaimOk, MarkOk
<1>. QED BY <1>0, <1>4, <1>5, <1>6, <1>8, <1>9, LaunchGoesOn

(* A resumed session is claimed again; the others were settled.            *)
LEMMA ClaimResumedApart ==
  ASSUME TypeInv, ApartInv, ~Overlapping', NEW r \in Runs, ClaimResumed(r)
  PROVE  ApartInv'
<1>. USE DEF ApartInv
<1>0. /\ launch[r].stage = "claim" /\ LaunchOk(r) /\ Launching(r) /\ launch[r] \in Launches
      /\ UNCHANGED <<task, loop, workspace, jobs>>
  BY DEF ClaimResumed, childVars, LaunchesOk, Launching, TypeInv, TypeOK
<1>1. /\ CommittedOk(r) /\ launch[r].child = NoChild /\ workspace
      /\ launch[r].resumes = task.child /\ OthersSettled(task.child)
      /\ launch[r].resumes # NoChild
  BY <1>0 DEF LaunchOk, ClaimOk, TypeInv, ClaimResumes
<1>2. CASE Launched(r, "failing") /\ UNCHANGED activation
  <2>1. /\ launch'[r].stage = "failing" /\ launch'[r].child = NoChild
        /\ launch'[r].resumes = launch[r].resumes
        /\ \A s \in Runs \ {r} : launch'[s] = launch[s]
    BY <1>1, <1>2, LaunchedTo
  <2>2. Shrinks /\ OneUnsettled' /\ \A c \in Runs : Unsettled(c) => Unsettled(c)'
    BY <1>2, UnchangedShrinks, ShrinksKeeps DEF Unsettled
  <2>3. FreshRows'
    BY <1>0, <2>1, <2>2, FreshKept DEF Early
  <2>4. FailingOk(r)'
    BY <1>0, <1>1, <1>2, <2>1 DEF FailingOk, OthersSettled, Unsettled
  <2>5. CommittedOk(r)' /\ Committing(r)'
    BY <1>0, <1>1, <2>1 DEF CommittedOk, Committing
  <2>6. LaunchOk(r)'
    BY <2>1, <2>4, <2>5 DEF LaunchOk, PreparedOk, CreatingOk, MarkOk, ClaimOk, PublishOk
  <2>. QED BY <1>0, <2>1, <2>2, <2>3, <2>5, <2>6, LaunchGoesOn
<1>3. CASE ~launch[r].aborted
  <2> DEFINE c == launch[r].resumes
             g == ClaimedGeneration(c, r)
  <2>1. /\ Claim(c, r)
        /\ launch' = [launch EXCEPT ![r].stage = "publish", ![r].child = c, ![r].generation = g]
    BY <1>3 DEF ClaimResumed
  <2>2. c \in Runs /\ OthersSettled(c) /\ c = task.child /\ c # NoChild
    BY <1>0, <1>1 DEF Launches
  <2>3. /\ Unsettled(c)' /\ OneUnsettled'
        /\ \A d \in Runs : Unsettled(d) => Unsettled(d)'
        /\ \A d \in Runs \ {c} : activation'[d] = activation[d]
        /\ OnlyUnsettled(c, launch[r].generation)'
    <3>1. PICK b \in Runs : b = c
      BY <2>2
    <3>2. PICK h : h = ClaimedGeneration(b, r)
      OBVIOUS
    <3>3. h = g
      BY <3>1, <3>2
    <3> HIDE DEF g
    <3>4. /\ launch'[r].generation = g
      BY <1>0, <2>1 DEF Launches, TypeInv, TypeOK
    <3> HIDE DEF c
    <3>5. Claim(b, r) /\ OthersSettled(b)
      BY <2>1, <2>2, <3>1
    <3>6. /\ Unsettled(b)' /\ OnlyUnsettled(b, h)' /\ OneUnsettled'
          /\ \A d \in Runs : Unsettled(d) => Unsettled(d)'
          /\ \A d \in Runs \ {b} : activation'[d] = activation[d]
      BY <3>2, <3>5, ClaimUnsettles
    <3>7. c' = c
      BY <1>0, <2>1 DEF c, Launches, TypeInv, TypeOK
    <3>8. Unsettled(c)' /\ OnlyUnsettled(c, launch[r].generation)'
      BY <3>1, <3>3, <3>4, <3>6, <3>7 DEF Unsettled, OnlyUnsettled
    <3>. QED BY <3>1, <3>6, <3>8
  <2>4. /\ launch'[r].stage = "publish" /\ launch'[r].child = c /\ launch'[r].resumes = c
        /\ \A s \in Runs \ {r} : launch'[s] = launch[s]
    <3> HIDE DEF g
    <3>. QED BY <1>0, <2>1 DEF Launches, TypeInv, TypeOK
  <2>5. FreshRows'
    <3>1. launch[c].stage \notin Early
      BY <2>2 DEF FreshRows
    <3>. QED BY <1>0, <2>2, <2>3, <2>4, <3>1 DEF FreshRows, Early, Activation!Exists
  <2>6. PublishOk(r)'
    <3>1. Child(r)' = c
      BY <2>2, <2>4 DEF Child
    <3>2. Unsettled(Child(r))' /\ OnlyUnsettled(Child(r), launch[r].generation)'
      BY <2>3, <2>4, <3>1 DEF Unsettled, OnlyUnsettled
    <3>. QED BY <1>0, <1>1, <2>2, <2>4, <3>1, <3>2 DEF PublishOk
  <2>7. CommittedOk(r)' /\ Committing(r)'
    BY <1>0, <1>1, <2>4 DEF CommittedOk, Committing
  <2>8. LaunchOk(r)'
    BY <2>4, <2>6, <2>7 DEF LaunchOk, PreparedOk, CreatingOk, FailingOk, ClaimOk, MarkOk
  <2>. QED BY <1>0, <2>3, <2>4, <2>5, <2>7, <2>8, LaunchGoesOn
<1>. QED BY <1>2, <1>3 DEF ClaimResumed

(* The launch is published with the generation it has claimed.             *)
LEMMA PublishApart ==
  ASSUME TypeInv, ApartInv, ~Overlapping', NEW r \in Runs, Publish(r)
  PROVE  ApartInv'
<1>. USE DEF ApartInv
<1>0. /\ launch[r].stage = "publish" /\ LaunchOk(r) /\ Launching(r)
      /\ UNCHANGED <<loop, activation, workspace, jobs>>
  BY DEF Publish, childVars, LaunchesOk, Launching
<1>1. CommittedOk(r) /\ PublishOk(r) /\ task.run = r /\ Dispatched
  BY <1>0, RunsTyped DEF LaunchOk, CommittedOk, Committing, Dispatched
<1>2. /\ task'.generation = launch[r].generation
      /\ task'.status = "running" /\ task'.run = task.run /\ task'.record = task.record
      /\ task'.cancelled = task.cancelled /\ task'.child = task.child
  <2> DEFINE g == IF launch[r].resumes = NoChild THEN task.generation ELSE launch[r].generation
  <2>1. task' = [task EXCEPT !.status = "running", !.generation = g]
    BY <1>1 DEF Publish
  <2>2. g = launch[r].generation
    BY <1>0, <1>1 DEF PublishOk
  <2>. QED BY <2>1, <2>2 DEF TypeInv, TypeOK, Tasks
<1>3. Launched(r, "start")
  BY <1>1 DEF Publish
<1>4. /\ launch'[r].stage = "start" /\ launch'[r].resumes = launch[r].resumes
      /\ launch'[r].child = launch[r].child /\ launch'[r].generation = launch[r].generation
      /\ \A s \in Runs \ {r} : launch'[s] = launch[s]
  BY <1>3, LaunchedTo
<1>5. Shrinks /\ OneUnsettled' /\ \A c \in Runs : Unsettled(c) => Unsettled(c)'
  BY <1>0, UnchangedShrinks, ShrinksKeeps DEF Unsettled
<1>6. FreshRows'
  BY <1>0, <1>2, <1>4, <1>5, FreshKept DEF Early
<1>7. PublishOk(r)'
  <2>1. Child(r)' = Child(r)
    BY <1>4, SameChild
  <2>2. Unsettled(Child(r))' /\ OnlyUnsettled(Child(r), launch[r].generation)'
    BY <1>0, <1>1, <1>4, <2>1 DEF PublishOk, Unsettled, OnlyUnsettled
  <2>. QED BY <1>0, <1>1, <1>2, <1>4, <2>1, <2>2 DEF PublishOk
<1>8. CommittedOk(r)' /\ Committing(r)'
  BY <1>0, <1>1, <1>2, <1>4 DEF CommittedOk, Committing
<1>9. LaunchOk(r)'
  BY <1>4, <1>7, <1>8 DEF LaunchOk, PreparedOk, CreatingOk, FailingOk, ClaimOk, MarkOk
<1>. QED BY <1>0, <1>4, <1>5, <1>6, <1>8, <1>9, LaunchGoesOn

(* The child starts under the generation its launch has claimed.           *)
LEMMA StartApart ==
  ASSUME TypeInv, ApartInv, ~Overlapping', NEW r \in Runs, Start(r)
  PROVE  ApartInv'
<1>. USE DEF ApartInv
<1>0. /\ launch[r].stage = "start" /\ LaunchOk(r) /\ Launching(r)
      /\ UNCHANGED <<task, workspace, jobs>>
  BY DEF Start, LaunchesOk, Launching
<1>1. /\ CommittedOk(r) /\ PublishOk(r) /\ task.run = r /\ Dispatched
      /\ Child(r) \in Runs /\ launch[r].generation \in Nat
  BY <1>0, RunsTyped, ChildTyped
  DEF LaunchOk, CommittedOk, Committing, Dispatched, TypeInv, TypeOK, Launches
<1>2. CASE launch[r].aborted
  <2>1. Launched(r, "failing") /\ UNCHANGED <<loop, activation>>
    BY <1>2 DEF Start
  <2>2. /\ launch'[r].stage = "failing" /\ launch'[r].resumes = launch[r].resumes
        /\ launch'[r].child = launch[r].child
        /\ \A s \in Runs \ {r} : launch'[s] = launch[s]
    BY <2>1, LaunchedTo
  <2>3. Shrinks /\ OneUnsettled' /\ \A c \in Runs : Unsettled(c) => Unsettled(c)'
    BY <2>1, UnchangedShrinks, ShrinksKeeps DEF Unsettled
  <2>4. FreshRows'
    BY <1>0, <2>2, <2>3, FreshKept DEF Early
  <2>5. FailingOk(r)'
    <3>1. OnlyUnsettled(Child(r), task.generation) /\ launch[r].child = Child(r)
          /\ task.child = Child(r)
      BY <1>0, <1>1 DEF PublishOk
    <3>. QED BY <1>0, <2>1, <2>2, <3>1 DEF FailingOk, OnlyUnsettled, OthersSettled, Unsettled
  <2>6. CommittedOk(r)' /\ Committing(r)'
    BY <1>0, <1>1, <2>2 DEF CommittedOk, Committing
  <2>7. LaunchOk(r)'
    BY <2>2, <2>5, <2>6 DEF LaunchOk, PreparedOk, CreatingOk, MarkOk, ClaimOk, PublishOk
  <2>. QED BY <1>0, <2>1, <2>2, <2>3, <2>4, <2>6, <2>7, LaunchGoesOn
<1>3. CASE ~launch[r].aborted
  <2>0. /\ Unsettled(Child(r)) /\ OnlyUnsettled(Child(r), launch[r].generation)
        /\ task.generation = launch[r].generation /\ task.child = Child(r) /\ workspace
    BY <1>0, <1>1 DEF PublishOk
  <2>1. Fenced(Child(r), launch[r].generation, "running")
    BY <1>1, <2>0, RefusedIsSettled, NoneUnsettled
  <2>2. /\ loop' = [loop EXCEPT ![r] = "running"]
        /\ ActivationMoved(Child(r), launch[r].generation, "running")
        /\ Launched(r, "done")
    BY <1>3, <2>1 DEF Start
  <2>3. /\ Shrinks /\ \A c \in Runs : Unsettled(c) => Unsettled(c)'
    <3>1. "running" \in Activation!ActivationStates
      BY DEF Activation!ActivationStates
    <3>. QED BY <1>1, <2>1, <2>2, <3>1, MoveShrinks
  <2>4. /\ launch'[r].stage = "done" /\ launch'[r].resumes = launch[r].resumes
        /\ \A s \in Runs \ {r} : launch'[s] = launch[s]
    BY <2>2, LaunchedTo
  <2>5. /\ \A call \in Calls : jobs[call] = NoJob
        /\ \A s \in Runs \ {r} : ~Launching(s)
    BY <1>0, ApartFromJobs
  <2>6. LaunchesOk'
    BY <2>4, <2>5, NoLaunches DEF Launching
  <2>7. FreshRows' /\ OneUnsettled'
    BY <1>0, <2>3, <2>4, FreshKept, ShrinksKeeps DEF Early
  <2>8. \A c, g : OnlyUnsettled(c, g) => OnlyUnsettled(c, g)'
    BY <2>3, ShrinksKeeps
  <2>9. RestOk'
    <3>1. OnlyUnsettled(task.child, task.generation)'
      <4>1. OnlyUnsettled(Child(r), launch[r].generation) => OnlyUnsettled(task.child, task.generation)'
        BY <1>0, <2>0, <2>8 DEF OnlyUnsettled
      <4>. QED BY <2>0, <4>1
    <3>2. OthersSettled(task.child)'
      BY <3>1 DEF OthersSettled, OnlyUnsettled
    <3>3. task.status = "running" /\ task.child # NoChild
      BY <1>0, <1>1, <2>0, RunsTyped DEF CommittedOk, Committing
    <3>. QED BY <1>0, <1>1, <3>1, <3>2, <3>3 DEF RestOk, Dispatchable, Dispatched
  <2>10. TaskOk'
    BY <1>0, <1>1, <2>9 DEF TaskOk, CommittedOk, Committing
  <2>11. JobsOk'
    <3>1. jobs' = [call \in Calls |-> NoJob]
      BY <1>0, <2>5 DEF TypeInv, TypeOK
    <3>. QED BY <3>1, NoJobsOk
  <2>12. LoopsOk'
    <3>1. ASSUME NEW s \in Runs PROVE LoopOk(s)'
      <4>1. LoopOk(s) /\ Child(s)' = Child(s) /\ Child(s) \in Runs
        BY <2>4, SameChild, ChildTyped DEF LoopsOk, TypeInv, TypeOK
      <4>2. Unsettled(Child(s)) => Unsettled(Child(s))'
        <5>1. \A c \in Runs : c = Child(s) /\ Unsettled(c) => Unsettled(Child(s))'
          BY <2>3, <4>1 DEF Unsettled
        <5>. QED BY <4>1, <5>1
      <4>3. loop'[r] = "running"
        BY <2>2 DEF TypeInv, TypeOK
      <4>4. CASE s = r
        BY <1>0, <1>1, <2>0, <2>4, <4>2, <4>3, <4>4 DEF LoopOk
      <4>5. CASE s # r
        <5>1. loop'[s] = loop[s] /\ launch'[s] = launch[s]
          BY <2>2, <2>4, <4>5 DEF TypeInv, TypeOK
        <5>2. ~NeedsParking(s)'
          BY <1>0, <1>1, <4>5 DEF NeedsParking
        <5>. QED BY <1>0, <1>1, <4>1, <4>2, <4>3, <5>1, <5>2 DEF LoopOk
      <4>. QED BY <4>4, <4>5
    <3>. QED BY <3>1 DEF LoopsOk
  <2>. QED BY <2>6, <2>7, <2>10, <2>11, <2>12
<1>. QED BY <1>2, <1>3

(* A failing launch knows of the child it has claimed, if it has.          *)
LEMMA FailDispatchApart ==
  ASSUME TypeInv, ApartInv, ~Overlapping', NEW r \in Runs, FailDispatch(r)
  PROVE  ApartInv'
<1>. USE DEF ApartInv
<1> DEFINE call == <<"dispatch", r>>
<1>0. /\ launch[r].stage = "failing" /\ LaunchOk(r) /\ Launching(r)
      /\ UNCHANGED <<loop, activation, workspace>> /\ call \in Calls
  BY CallsTyped DEF FailDispatch, childVars, LaunchesOk, Launching
<1>1. CommittedOk(r) /\ FailingOk(r) /\ task.run = r /\ Dispatched
  BY <1>0, RunsTyped DEF LaunchOk, CommittedOk, Committing, Dispatched
<1>2. /\ task'.status = "rejected" /\ SameRun
      /\ task'.cancelled = task.cancelled /\ task'.record = task.record
      /\ task'.feedback = task.feedback
  BY <1>1 DEF FailDispatch, TypeInv, TypeOK, Tasks, SameRun
<1>3. /\ launch'[r].stage = "done" /\ launch'[r].resumes = launch[r].resumes
      /\ \A s \in Runs \ {r} : launch'[s] = launch[s]
  BY LaunchedTo DEF FailDispatch
<1>4. /\ \A c \in Calls : jobs[c] = NoJob
      /\ \A s \in Runs \ {r} : ~Launching(s)
  BY <1>0, ApartFromJobs
<1>5. LaunchesOk'
  BY <1>3, <1>4, NoLaunches DEF Launching
<1>6. Shrinks /\ OneUnsettled' /\ \A c \in Runs : Unsettled(c) => Unsettled(c)'
  BY <1>0, UnchangedShrinks, ShrinksKeeps DEF Unsettled
<1>7. FreshRows'
  BY <1>2, <1>3, <1>6, FreshKept DEF Early, SameRun
<1>8. /\ jobs'[call].stage = "begin" /\ jobs'[call].child = launch[r].child
      /\ \A c \in Calls \ {call} : jobs'[c] = NoJob
  <2>1. jobs' = [jobs EXCEPT ![call] = [NoJob EXCEPT !.stage = "begin", !.child = launch[r].child]]
    BY DEF FailDispatch, CleansUp
  <2>. QED BY <1>0, <1>4, <2>1 DEF TypeInv, TypeOK, NoJob
<1>9. JobsOk'
  <2>1. JobOk(call)'
    <3>1. Dispatched' /\ Target(call)' = launch[r].child
      BY <1>1, <1>2, <1>8 DEF Dispatched, SameRun, Target
    <3>2. launch[r].child = NoChild \/ OnlyUnsettled(launch[r].child, task.generation)
      BY <1>0, <1>1 DEF FailingOk
    <3>3. Target(call)' = NoChild \/ OnlyUnsettled(Target(call), task.generation)'
      BY <1>0, <1>2, <3>1, <3>2 DEF OnlyUnsettled, SameRun, Unsettled
    <3>. QED BY <1>8, <3>1, <3>3 DEF JobOk
  <2>2. ASSUME NEW c \in Calls \ {call} PROVE JobOk(c)'
    BY <1>8, NoJobOk
  <2>. QED BY <2>1, <2>2 DEF JobsOk
<1>10. TaskOk'
  <2>1. OthersSettled(task.child)'
    BY <1>0, <1>1, <1>2 DEF FailingOk, OthersSettled, SameRun, Unsettled
  <2>2. OwnJob'
    <3>1. Own(call) /\ jobs'[call] # NoJob
      BY <1>8 DEF Own, Merge, Update, NoJob
    <3>. QED BY <1>0, <3>1 DEF OwnJob
  <2>3. Dispatchable' /\ Dispatched' /\ ~task'.cancelled /\ task'.record = "none"
    BY <1>0, <1>1, <1>2 DEF Dispatchable, Dispatched, SameRun, CommittedOk, Committing
  <2>. QED BY <1>2, <2>1, <2>2, <2>3 DEF TaskOk, RestOk
<1>11. LoopsOk'
  <2>1. loop[r] = "none"
    BY <1>0 DEF LoopsOk, LoopOk
  <2>2. \A s \in Runs : launch[s].stage = "done" =>
          launch'[s].stage = "done" /\ launch'[s].resumes = launch[s].resumes
    BY <1>3
  <2>3. \A s \in Runs : Child(s) \in Runs
    BY ChildTyped DEF TypeInv, TypeOK
  <2>. QED BY <1>0, <1>1, <1>2, <1>6, <2>1, <2>2, <2>3, LoopsDuringLaunch DEF SameRun
<1>. QED BY <1>5, <1>6, <1>7, <1>9, <1>10, <1>11

-----------------------------------------------------------------------------
(* The steps of the child and of its watcher.                              *)

(* Loops of a status that needs no parking, when nothing else changes.     *)
LEMMA LoopsWithoutParking ==
  ASSUME TypeInv, LoopsOk, UNCHANGED <<loop, workspace, activation, launch>>, SameRun,
         task'.status \notin {"running", "dispatched"} \/ task'.cancelled
  PROVE  LoopsOk'
<1>1. ASSUME NEW s \in Runs PROVE LoopOk(s)'
  <2>1. LoopOk(s) /\ Child(s)' = Child(s)
    BY SameChild DEF LoopsOk
  <2>2. ~NeedsParking(s)' /\ Unsettled(Child(s))' = Unsettled(Child(s))
    BY <2>1 DEF NeedsParking, Unsettled
  <2>3. Dispatched' = Dispatched /\ task'.run = task.run
    BY DEF Dispatched, SameRun
  <2>. QED BY <2>1, <2>2, <2>3 DEF LoopOk
<1>. QED BY <1>1 DEF LoopsOk

(* A report comes from the current run, so no launch is under way.         *)
LEMMA ReportApart ==
  ASSUME TypeInv, ApartInv, ~Overlapping', NEW r \in Runs, Report(r)
  PROVE  ApartInv'
<1>. USE DEF ApartInv
<1> DEFINE call == <<"report", r>>
<1>0. /\ task.run = r /\ task.status = "running" /\ LoopOk(r) /\ loop[r] = "running"
      /\ UNCHANGED <<launch, loop, activation, workspace>> /\ call \in Calls
  BY CallsTyped DEF Report, ReportAccepted, LoopsOk, callVars, childVars
<1>1. (\A s \in Runs : ~Launching(s)) /\ RestOk
  BY <1>0, NoLaunchAround DEF Dispatchable, LoopOk
<1>2. Shrinks /\ OneUnsettled'
  BY <1>0, UnchangedShrinks, ShrinksKeeps
<1>3. LaunchesOk'
  BY <1>0, <1>1, NoLaunches DEF Launching
<1>4. /\ task'.status \in {"reported", "rejected"} /\ SameRun
      /\ task'.cancelled = task.cancelled /\ task'.feedback = task.feedback
      /\ task'.record = task.record
      /\ \/ task'.status = "reported" /\ jobs' = jobs
         \/ task'.status = "rejected" /\ CleansUp(call, "begin", NoChild)
  BY DEF Report, TypeInv, TypeOK, Tasks, SameRun
<1>5. FreshRows'
  BY <1>0, <1>2, <1>4, FreshKept DEF SameRun
<1>6. LoopsOk'
  BY <1>0, <1>4, LoopsWithoutParking
<1>7. Dispatched /\ Dispatched' /\ ~Dispatchable
  BY <1>0, <1>4, RunsTyped DEF Dispatched, SameRun, Dispatchable
<1>8. /\ OnlyUnsettled(task.child, task.generation) /\ task.child # NoChild
      /\ OnlyUnsettled(task.child, task.generation)' /\ OthersSettled(task.child)'
  <2>1. OnlyUnsettled(task.child, task.generation) /\ task.child # NoChild
    BY <1>1, <1>7 DEF RestOk
  <2>2. OnlyUnsettled(task.child, task.generation)'
    BY <1>0, <1>4, <2>1 DEF OnlyUnsettled, SameRun, Unsettled
  <2>. QED BY <2>1, <2>2 DEF OnlyUnsettled, OthersSettled
<1>9. ~task.cancelled /\ (task.record \in {"deleting", "completed"} => ChildrenSettled')
  BY <1>0, <1>2, ShrinksKeeps DEF TaskOk
<1>10. CASE task'.status = "reported" /\ jobs' = jobs
  <2>1. JobsOk'
    BY <1>2, <1>4, <1>10, JobKept DEF JobsOk
  <2>2. TaskOk'
    BY <1>4, <1>7, <1>8, <1>9, <1>10 DEF TaskOk, RestOk, Dispatchable, SameRun
  <2>. QED BY <1>2, <1>3, <1>5, <1>6, <2>1, <2>2
<1>11. CASE task'.status = "rejected" /\ CleansUp(call, "begin", NoChild)
  <2>1. /\ jobs'[call].stage = "begin"
        /\ \A c \in Calls \ {call} : jobs'[c] = jobs[c]
    <3>1. jobs' = [jobs EXCEPT ![call] = [NoJob EXCEPT !.stage = "begin", !.child = NoChild]]
      BY <1>11 DEF CleansUp
    <3>. QED BY <1>0, <3>1 DEF TypeInv, TypeOK, NoJob
  <2>2. JobOk(call)'
    <3>1. Target(call)' = task'.child
      BY DEF Target
    <3>2. OnlyUnsettled(Target(call), task.generation)'
      BY <1>8, <3>1 DEF OnlyUnsettled
    <3>. QED BY <1>7, <2>1, <3>2 DEF JobOk
  <2>3. JobsOk'
    BY <1>2, <1>4, <2>1, <2>2, JobKept DEF JobsOk
  <2>4. OwnJob'
    <3>1. Own(call) /\ jobs'[call] # NoJob
      BY <2>1 DEF Own, Merge, Update, NoJob
    <3>. QED BY <1>0, <3>1 DEF OwnJob
  <2>5. TaskOk'
    BY <1>4, <1>7, <1>8, <1>9, <1>11, <2>4 DEF TaskOk, RestOk, Dispatchable, SameRun
  <2>. QED BY <1>2, <1>3, <1>5, <1>6, <2>3, <2>5
<1>. QED BY <1>4, <1>10, <1>11

(* Where only one child may be unsettled, its end leaves no loop running.  *)
LEMMA EndedAll ==
  ASSUME TypeInv, LoopsOk, NEW child, OthersSettled(child),
         NEW how \in {"ended", "failed"}, Ended(child, how)
  PROVE  \A s \in Runs : /\ loop'[s] # "running"
                         /\ loop'[s] # "none" => loop[s] # "none"
                         /\ loop'[s] \in {"parking", "parking failed"} => loop'[s] = loop[s]
<1>1. SUFFICES ASSUME NEW s \in Runs
               PROVE  /\ loop'[s] # "running"
                      /\ loop'[s] # "none" => loop[s] # "none"
                      /\ loop'[s] \in {"parking", "parking failed"} => loop'[s] = loop[s]
  OBVIOUS
<1>2. Child(s) \in Runs
  BY ChildTyped DEF TypeInv, TypeOK
<1>3. loop[s] = "running" => Child(s) = child
  BY <1>2 DEF LoopsOk, LoopOk, OthersSettled
<1>. QED BY <1>3 DEF Ended

(* Loops after such an end.                                                *)
LEMMA LoopsAfterEnd ==
  ASSUME LoopsOk, Shrinks, UNCHANGED launch,
         \A s \in Runs : /\ loop'[s] # "running"
                         /\ loop'[s] # "none" => loop[s] # "none"
                         /\ loop'[s] \in {"parking", "parking failed"} => loop'[s] = loop[s],
         \A s \in Runs : NeedsParking(s)' => NeedsParking(s) \/ ChildrenSettled'
  PROVE  LoopsOk'
BY ShrinksKeeps DEF LoopsOk, LoopOk

(* A loop that ends.                                                       *)
LEMMA LoopEndsApart ==
  ASSUME TypeInv, ApartInv, ~Overlapping', NEW child \in Runs, LoopEnds(child)
  PROVE  ApartInv'
<1>. USE DEF ApartInv
<1>0. UNCHANGED <<task, launch, activation, workspace, jobs>>
  BY DEF LoopEnds, callVars
<1>1. Shrinks /\ SameTask /\ SameRun /\ OneUnsettled' /\ \A s \in Runs : SameLaunch(s)
  BY <1>0, UnchangedShrinks, ShrinksKeeps DEF SameTask, SameRun, SameLaunch
<1>2. LaunchesOk'
  BY <1>0, <1>1, LaunchKept DEF LaunchesOk
<1>3. FreshRows'
  BY <1>0, <1>1, FreshKept
<1>4. TaskOk'
  BY <1>0, <1>1, TaskKept DEF Committing, OwnJob
<1>5. JobsOk'
  BY <1>0, <1>1, JobKept DEF JobsOk
<1>6. LoopsOk'
  <2>1. OthersSettled(child)
    <3>1. PICK r \in Runs : loop[r] = "running" /\ Child(r) = child
      BY DEF LoopEnds
    <3>2. Unsettled(child)
      BY <3>1 DEF LoopsOk, LoopOk
    <3>. QED BY <3>2 DEF OneUnsettled, OthersSettled
  <2>2. PICK how \in {"ended", "failed"} : Ended(child, how)
    BY DEF LoopEnds
  <2>3. \A s \in Runs : NeedsParking(s)' = NeedsParking(s)
    BY <1>0 DEF NeedsParking, Child
  <2>. QED BY <1>0, <1>1, <2>1, <2>2, <2>3, EndedAll, LoopsAfterEnd
<1>. QED BY <1>1, <1>2, <1>3, <1>4, <1>5, <1>6

(* What the watcher makes of its loop.                                     *)
LEMMA SettledLoop ==
  ASSUME TypeInv, NEW r \in Runs, Settled(r)
  PROVE  /\ loop'[r] \in {"ended", "over"}
         /\ \A s \in Runs \ {r} : loop'[s] = loop[s]
BY DEF Settled, TypeInv, TypeOK

(* The watcher settles the one child that may be unsettled.                *)
LEMMA WatchExitApart ==
  ASSUME TypeInv, ApartInv, ~Overlapping', NEW r \in Runs, WatchExit(r)
  PROVE  ApartInv'
<1>. USE DEF ApartInv
<1>0. /\ loop[r] \in {"failed", "ended"} /\ LoopOk(r) /\ launch[r].stage = "done"
      /\ UNCHANGED <<task, launch, workspace, jobs>>
  BY DEF WatchExit, callVars, LoopsOk, LoopOk
<1>1. SameTask /\ SameRun /\ \A s \in Runs : SameLaunch(s) /\ Child(s)' = Child(s)
  BY <1>0 DEF SameTask, SameRun, SameLaunch, Child
<1>2. \A s \in Runs : NeedsParking(s)' = NeedsParking(s)
  BY <1>0, <1>1 DEF NeedsParking
<1>3. ASSUME Shrinks PROVE FreshRows' /\ OneUnsettled' /\ TaskOk' /\ JobsOk'
  <2>1. FreshRows' /\ OneUnsettled'
    BY <1>0, <1>1, <1>3, FreshKept, ShrinksKeeps
  <2>2. TaskOk'
    BY <1>0, <1>1, <1>3, TaskKept DEF Committing, OwnJob
  <2>3. JobsOk'
    BY <1>0, <1>1, <1>3, JobKept DEF JobsOk
  <2>. QED BY <2>1, <2>2, <2>3
<1>4. CASE Settled(r) /\ UNCHANGED activation
  <2>1. Shrinks
    BY <1>4, UnchangedShrinks
  <2>2. LaunchesOk'
    BY <1>0, <1>1, <1>4, <2>1, LaunchKept DEF LaunchesOk
  <2>3. /\ loop'[r] \in {"ended", "over"}
        /\ \A s \in Runs \ {r} : loop'[s] = loop[s]
    BY <1>4, SettledLoop
  <2>4. LoopsOk'
    <3>1. ASSUME NEW s \in Runs PROVE LoopOk(s)'
      <4>1. LoopOk(s) /\ LoopOk(r)
        BY DEF LoopsOk
      <4>2. Unsettled(Child(s))' = Unsettled(Child(s)) /\ ChildrenSettled' = ChildrenSettled
        BY <1>1, <1>4 DEF Unsettled, ChildrenSettled
      <4>3. loop'[s] = "running" /\ Dispatched' => loop'[task.run] \in {"none", "running"}
                                                  /\ task'.run = task.run
        <5>1. SUFFICES ASSUME loop'[s] = "running", Dispatched'
                       PROVE  loop'[task.run] \in {"none", "running"}
          BY <1>0
        <5>2. loop[s] = "running" /\ Dispatched /\ s # r
          BY <1>0, <2>3, <5>1 DEF Dispatched
        <5>3. task.run \in Runs
          BY <5>2 DEF Dispatched, TypeInv, TypeOK, Tasks
        <5>4. loop[task.run] \in {"none", "running"}
          BY <4>1, <5>2 DEF LoopOk
        <5>5. task.run # r
          BY <1>0, <5>4
        <5>. QED BY <2>3, <5>3, <5>4, <5>5
      <4>. QED BY <1>0, <1>2, <2>3, <4>1, <4>2, <4>3 DEF LoopOk
    <3>. QED BY <3>1 DEF LoopsOk
  <2>. QED BY <1>3, <2>1, <2>2, <2>4
<1>5. CASE /\ NeedsParking(r) /\ Fenced(Child(r), task.generation, "settled")
           /\ ExitSettles(r)
           /\ loop' = [loop EXCEPT ![r] = IF @ = "failed" THEN "parking failed" ELSE "parking"]
  <2>1. /\ task.run = r /\ task.child = Child(r) /\ ~Dispatchable
        /\ task.generation \in Nat /\ Child(r) \in Runs
    BY <1>5, ChildTyped DEF NeedsParking, Dispatchable, TypeInv, TypeOK, Tasks
  <2>2. (\A s \in Runs : ~Launching(s)) /\ RestOk
    BY <1>0, <2>1, NoLaunchAround
  <2>3. OnlyUnsettled(Child(r), task.generation)
    BY <2>1, <2>2 DEF RestOk
  <2>4. Shrinks /\ ChildrenSettled'
    BY <1>5, <2>1, <2>3, MoveShrinks DEF ExitSettles, Activation!ActivationStates
  <2>5. LaunchesOk'
    BY <1>0, <2>2, NoLaunches DEF Launching
  <2>6. LoopsOk'
    <3>1. ASSUME NEW s \in Runs PROVE LoopOk(s)'
      <4>1. LoopOk(s) /\ Dispatched
        BY <2>1, RunsTyped DEF LoopsOk, Dispatched
      <4>2. loop[s] # "running"
        BY <1>0, <2>1, <4>1 DEF LoopOk
      <4>3. loop'[s] # "running" /\ (loop'[s] # "none" => loop[s] # "none")
        BY <1>0, <1>5, <4>2 DEF TypeInv, TypeOK
      <4>. QED BY <1>0, <2>4, <4>1, <4>3 DEF LoopOk
    <3>. QED BY <3>1 DEF LoopsOk
  <2>. QED BY <1>3, <2>4, <2>5, <2>6
<1>. QED BY <1>4, <1>5 DEF WatchExit

(* A task is parked when its child is settled.                             *)
LEMMA ParkApart ==
  ASSUME TypeInv, ApartInv, ~Overlapping', NEW r \in Runs, Park(r)
  PROVE  ApartInv'
<1>. USE DEF ApartInv
<1>0. /\ loop[r] \in {"parking", "parking failed"} /\ LoopOk(r) /\ launch[r].stage = "done"
      /\ UNCHANGED <<launch, activation, workspace, jobs>>
  BY DEF Park, callVars, LoopsOk, LoopOk
<1>1. /\ loop'[r] \in {"ended", "over"}
      /\ \A s \in Runs \ {r} : loop'[s] = loop[s]
  BY SettledLoop DEF Park
<1>2. /\ Shrinks /\ OneUnsettled' /\ ChildrenSettled' = ChildrenSettled
      /\ \A s \in Runs : SameLaunch(s) /\ Child(s)' = Child(s)
      /\ \A s \in Runs : Unsettled(Child(s))' = Unsettled(Child(s))
  BY <1>0, UnchangedShrinks, ShrinksKeeps DEF SameLaunch, Child, ChildrenSettled, Unsettled
<1>3. CASE NeedsParking(r) /\ task' = [task EXCEPT !.status = "rejected"]
  <2>1. task.run = r /\ ~Dispatchable /\ ChildrenSettled /\ ~task.cancelled
    BY <1>0, <1>3 DEF NeedsParking, Dispatchable, LoopOk
  <2>2. (\A s \in Runs : ~Launching(s)) /\ RestOk
    BY <1>0, <2>1, NoLaunchAround
  <2>3. /\ task'.status = "rejected" /\ SameRun
        /\ task'.cancelled = task.cancelled /\ task'.record = task.record
    BY <1>3 DEF TypeInv, TypeOK, Tasks, SameRun
  <2>4. LaunchesOk'
    BY <1>0, <2>2, NoLaunches DEF Launching
  <2>5. FreshRows' /\ JobsOk'
    BY <1>0, <1>2, <2>3, FreshKept, JobKept DEF SameRun, JobsOk
  <2>6. TaskOk'
    <3>1. ChildrenSettled' /\ OthersSettled(task.child)'
      BY <1>2, <2>1 DEF OthersSettled, ChildrenSettled, Unsettled
    <3>2. ~task'.cancelled /\ Dispatchable'
      BY <2>1, <2>3 DEF Dispatchable
    <3>. QED BY <2>3, <3>1, <3>2 DEF TaskOk, RestOk
  <2>7. LoopsOk'
    <3>1. ASSUME NEW s \in Runs PROVE LoopOk(s)'
      <4>1. LoopOk(s) /\ loop[s] # "running"
        <5>1. Child(s) \in Runs
          BY ChildTyped DEF TypeInv, TypeOK
        <5>. QED BY <2>1, <5>1, NoneUnsettled DEF LoopsOk, LoopOk
      <4>2. loop'[s] # "running" /\ (loop'[s] # "none" => loop[s] # "none")
        BY <1>0, <1>1, <4>1
      <4>. QED BY <1>0, <1>2, <2>1, <4>1, <4>2 DEF LoopOk
    <3>. QED BY <3>1 DEF LoopsOk
  <2>. QED BY <1>2, <2>4, <2>5, <2>6, <2>7
<1>4. CASE task' = task
  <2>1. SameTask /\ SameRun
    BY <1>4 DEF SameTask, SameRun
  <2>2. LaunchesOk'
    BY <1>0, <1>2, <2>1, LaunchKept DEF LaunchesOk
  <2>3. FreshRows' /\ JobsOk'
    BY <1>0, <1>2, <2>1, FreshKept, JobKept DEF SameRun, JobsOk
  <2>4. TaskOk'
    BY <1>0, <1>2, <2>1, TaskKept DEF Committing, OwnJob
  <2>5. LoopsOk'
    <3>1. ASSUME NEW s \in Runs PROVE LoopOk(s)'
      <4>1. LoopOk(s) /\ NeedsParking(s)' = NeedsParking(s)
        BY <1>2, <1>4 DEF LoopsOk, NeedsParking
      <4>2. ASSUME loop'[s] = "running", Dispatched' PROVE loop'[task.run] \in {"none", "running"}
        <5>1. loop[s] = "running" /\ Dispatched
          BY <1>1, <1>4, <4>2 DEF Dispatched
        <5>2. task.run \in Runs /\ loop[task.run] \in {"none", "running"}
          BY <4>1, <5>1 DEF LoopOk, Dispatched, TypeInv, TypeOK, Tasks
        <5>3. task.run # r
          BY <1>0, <5>2
        <5>. QED BY <1>1, <5>2, <5>3
      <4>. QED BY <1>0, <1>1, <1>2, <1>4, <4>1, <4>2 DEF LoopOk
    <3>. QED BY <3>1 DEF LoopsOk
  <2>. QED BY <1>2, <2>2, <2>3, <2>4, <2>5
<1>. QED BY <1>3, <1>4 DEF Park, StillNeedsParking

-----------------------------------------------------------------------------
(* The steps of the main agent.                                            *)

(* A review: no launch is under way, the child stays the one it was.       *)
LEMMA ReviewApart ==
  ASSUME TypeInv, ApartInv, ~Overlapping', Approve \/ RejectReport
  PROVE  ApartInv'
<1>. USE DEF ApartInv
<1>0. /\ task.status = "reported"
      /\ UNCHANGED <<launch, loop, activation, workspace, jobs>>
  BY DEF Approve, RejectReport, childVars
<1>1. (\A s \in Runs : ~Launching(s)) /\ RestOk
  BY <1>0, NoLaunchAround
<1>2. /\ SameRun /\ task'.cancelled = task.cancelled /\ task'.record = task.record
      /\ \/ task'.status = "approved"
         \/ task'.status = "rejected" /\ task'.feedback
  BY DEF Approve, RejectReport, TypeInv, TypeOK, Tasks, SameRun
<1>3. Shrinks /\ OneUnsettled'
  BY <1>0, UnchangedShrinks, ShrinksKeeps
<1>4. LaunchesOk'
  BY <1>0, <1>1, NoLaunches DEF Launching
<1>5. FreshRows' /\ JobsOk'
  BY <1>0, <1>2, <1>3, FreshKept, JobKept DEF SameRun, JobsOk
<1>6. LoopsOk'
  BY <1>0, <1>2, LoopsWithoutParking
<1>7. TaskOk'
  <2>1. Dispatched /\ task.child # NoChild /\ OnlyUnsettled(task.child, task.generation)
    BY <1>0, <1>1 DEF RestOk, Dispatchable
  <2>2. OnlyUnsettled(task.child, task.generation)' /\ OthersSettled(task.child)'
    BY <1>0, <1>2, <2>1 DEF OnlyUnsettled, OthersSettled, SameRun, Unsettled
  <2>3. Dispatched' /\ ~task.cancelled /\ (task.record \in {"deleting", "completed"} => ChildrenSettled')
    BY <1>0, <1>2, <1>3, <2>1, ShrinksKeeps DEF Dispatched, SameRun, TaskOk
  <2>. QED BY <1>2, <2>1, <2>2, <2>3 DEF TaskOk, RestOk, Dispatchable, Continues, SameRun
<1>. QED BY <1>3, <1>4, <1>5, <1>6, <1>7

(* A task that is reopened keeps its child, unless it forgets a run that   *)
(* left nothing to settle or whose cleanup has failed.                     *)
LEMMA ReopenApart ==
  ASSUME TypeInv, WorkInv, ApartInv, ~Overlapping', ~Forgotten, Reopen
  PROVE  ApartInv'
<1>. USE DEF ApartInv
<1>0. /\ task.status \in {"reported", "approved", "rejected"} /\ task \in Tasks
      /\ UNCHANGED <<launch, loop, activation, workspace, jobs>>
  BY DEF Reopen, childVars, TypeInv, TypeOK
<1>1. \A s \in Runs : ~Committing(s)
  BY <1>0 DEF LaunchesOk, LaunchOk, CommittedOk
<1>2. RestOk /\ ~task.cancelled
  BY <1>0, <1>1 DEF TaskOk
<1>3. /\ Shrinks /\ OneUnsettled' /\ ChildrenSettled' = ChildrenSettled
      /\ \A c \in Runs : Unsettled(c)' = Unsettled(c)
  BY <1>0, UnchangedShrinks, ShrinksKeeps DEF ChildrenSettled, Unsettled
<1>4. /\ task'.status = "pending" /\ task'.record = task.record
      /\ \/ /\ SameRun
            /\ Continues'
         \/ /\ ~(task.status = "rejected" /\ Continues) /\ ~(Dispatched /\ task.report # NoRun)
            /\ task'.run = NoRun /\ task'.child = NoChild /\ ~Continues'
  <2>1. CASE /\ task.status = "rejected" /\ Continues
             /\ task' = [task EXCEPT !.status = "pending"]
    BY <1>0, <2>1 DEF Tasks, SameRun, Continues, Dispatched
  <2>2. CASE Dispatched /\ task' = [task EXCEPT !.status = "pending", !.feedback = TRUE]
    BY <1>0, <2>2 DEF Tasks, SameRun, Continues, Dispatched
  <2>3. CASE /\ ~(task.status = "rejected" /\ Continues) /\ ~(Dispatched /\ task.report # NoRun)
             /\ task' = [task EXCEPT !.status = "pending", !.run = NoRun, !.child = NoChild,
                                     !.generation = 0, !.cancelled = FALSE,
                                     !.report = NoRun, !.feedback = FALSE]
    <3>1. ~(task.status = "rejected" /\ Continues) /\ ~(Dispatched /\ task.report # NoRun)
      BY <2>3
    <3>2. /\ task'.status = "pending" /\ task'.record = task.record
          /\ task'.run = NoRun /\ task'.child = NoChild /\ task'.feedback = FALSE
      BY <1>0, <2>3 DEF Tasks
    <3>. QED BY <3>1, <3>2 DEF Continues, Dispatched
  <2>0. task.status = "rejected" /\ Continues => Dispatched /\ task.report # NoRun
    BY DEF WorkInv, FeedbackOnReport, Continues
  <2>4. \/ /\ task.status = "rejected" /\ Continues
           /\ task' = [task EXCEPT !.status = "pending"]
        \/ Dispatched /\ task' = [task EXCEPT !.status = "pending", !.feedback = TRUE]
        \/ /\ ~(task.status = "rejected" /\ Continues) /\ ~(Dispatched /\ task.report # NoRun)
           /\ task' = [task EXCEPT !.status = "pending", !.run = NoRun, !.child = NoChild,
                                   !.generation = 0, !.cancelled = FALSE,
                                   !.report = NoRun, !.feedback = FALSE]
    BY <2>0 DEF Reopen
  <2>. QED BY <2>1, <2>2, <2>3, <2>4
<1>5. FreshRows'
  BY <1>0, <1>3, <1>4, FreshKept DEF SameRun
<1>6. CASE SameRun /\ Continues'
  <2>1. LaunchesOk'
    <3>1. ASSUME NEW s \in Runs PROVE LaunchOk(s)'
      <4>1. ~Committing(s)' /\ PreparedOk(s)
        BY <1>0, <1>1 DEF Committing, LaunchesOk, LaunchOk
      <4>2. PreparedOk(s)'
        BY <1>0, <1>3, <1>4, <1>6, <4>1 DEF PreparedOk, Dispatchable, OthersSettled, SameRun
      <4>. QED BY <4>1, <4>2 DEF Committing, LaunchOk, CommittedOk, CreatingOk, MarkOk, ClaimOk,
                                 PublishOk, FailingOk
    <3>. QED BY <3>1 DEF LaunchesOk
  <2>2. JobsOk'
    BY <1>0, <1>3, <1>6, JobKept DEF JobsOk
  <2>3. LoopsOk'
    BY <1>0, <1>4, <1>6, LoopsWithoutParking
  <2>4. TaskOk'
    <3>1. OthersSettled(task.child)
      BY <1>2, <1>6 DEF RestOk, SameRun, Continues, Dispatched
    <3>2. OthersSettled(task.child)'
      BY <1>3, <1>6, <3>1 DEF OthersSettled, SameRun
    <3>. QED BY <1>3, <1>4, <1>6, <3>2 DEF TaskOk, RestOk, Dispatchable
  <2>. QED BY <1>3, <1>5, <2>1, <2>2, <2>3, <2>4
<1>7. CASE /\ ~(task.status = "rejected" /\ Continues) /\ ~(Dispatched /\ task.report # NoRun)
           /\ task'.run = NoRun /\ task'.child = NoChild /\ ~Continues'
  <2>1. task.status = "rejected" /\ Dispatchable /\ ~Continues
    BY <1>0, <1>7 DEF WorkInv, ReportOfCurrentRun, AcceptedHasRun, Dispatched, Dispatchable
  <2>2. \A call \in Calls : Own(call) \/ jobs[call].stage # "begin" => jobs[call] = NoJob
    <3>1. CASE task.run # NoRun
      BY <1>7, <3>1 DEF Forgotten, CleaningUp
    <3>2. CASE task.run = NoRun
      BY <3>2 DEF JobsOk, JobOk, Dispatched
    <3>. QED BY <3>1, <3>2
  <2>3. ChildrenSettled \/ task.record = "failed"
    BY <1>2, <2>1, <2>2 DEF RestOk, OwnJob
  <2>4. LaunchesOk'
    <3>1. ASSUME NEW s \in Runs PROVE LaunchOk(s)'
      <4>1. ~Committing(s)' /\ PreparedOk(s)
        BY <1>0, <1>1 DEF Committing, LaunchesOk, LaunchOk
      <4>2. PreparedOk(s)'
        BY <1>0, <1>3, <1>4, <2>1, <4>1 DEF PreparedOk, Dispatchable
      <4>. QED BY <4>1, <4>2 DEF Committing, LaunchOk, CommittedOk, CreatingOk, MarkOk, ClaimOk,
                                 PublishOk, FailingOk
    <3>. QED BY <3>1 DEF LaunchesOk
  <2>5. JobsOk'
    <3>1. ASSUME NEW call \in Calls PROVE JobOk(call)'
      <4>1. CASE jobs[call] = NoJob
        BY <1>0, <4>1, NoJobOk
      <4>2. CASE jobs[call] # NoJob
        BY <1>0, <2>2, <4>2 DEF JobOk, Own
      <4>. QED BY <4>1, <4>2
    <3>. QED BY <3>1 DEF JobsOk
  <2>6. LoopsOk'
    <3>1. ASSUME NEW s \in Runs PROVE LoopOk(s)'
      <4>1. LoopOk(s) /\ Child(s)' = Child(s)
        BY <1>0, SameChild DEF LoopsOk
      <4>2. ~NeedsParking(s)' /\ ~Dispatched' /\ Unsettled(Child(s))' = Unsettled(Child(s))
        BY <1>0, <1>4, <1>7, <4>1 DEF NeedsParking, Dispatched, Unsettled
      <4>. QED BY <1>0, <4>1, <4>2 DEF LoopOk
    <3>. QED BY <3>1 DEF LoopsOk
  <2>7. TaskOk'
    <3>1. task.record # "failed" => OthersSettled(task.child)'
      BY <1>3, <2>3, NoneUnsettled DEF OthersSettled
    <3>. QED BY <1>3, <1>4, <1>7, <2>3, <3>1 DEF TaskOk, RestOk, Dispatchable, Dispatched
  <2>. QED BY <1>3, <1>5, <2>4, <2>5, <2>6, <2>7
<1>. QED BY <1>4, <1>6, <1>7

(* A cancelled task knows the child it has to clean up.                    *)
LEMMA WriteCancelApart ==
  ASSUME TypeInv, ApartInv, ~Overlapping', WriteCancel
  PROVE  ApartInv'
<1>. USE DEF ApartInv
<1>0. /\ task \in Tasks /\ Cancel \in Calls
      /\ UNCHANGED <<launch, loop, activation, workspace>>
  BY CallsTyped DEF WriteCancel, childVars, TypeInv, TypeOK
<1>1. CASE UNCHANGED <<task, jobs>>
  <2>1. SameTask /\ \A s \in Runs : SameLaunch(s)
    BY <1>0, <1>1 DEF SameTask, SameRun, SameLaunch
  <2>. QED BY <1>0, <1>1, <2>1, Undisturbed
<1>2. CASE /\ task.cancelled /\ UNCHANGED jobs
           /\ task' = [task EXCEPT !.status = "pending", !.cancelled = TRUE]
  <2>1. task.status = "pending" /\ task.cancelled = TRUE
    BY <1>0, <1>2 DEF TaskOk, Tasks
  <2>2. SameTask /\ \A s \in Runs : SameLaunch(s)
    BY <1>0, <1>2, <2>1 DEF SameTask, SameRun, SameLaunch, Tasks
  <2>. QED BY <1>0, <1>2, <2>2, Undisturbed
<1>3. CASE /\ task.status \in {"dispatched", "running"} /\ Dispatched
           /\ CleansUp(Cancel, "drain", task.child)
           /\ task' = [task EXCEPT !.status = "pending", !.cancelled = TRUE]
  <2>1. /\ jobs'[Cancel].stage = "drain" /\ jobs'[Cancel].child = task.child
        /\ \A c \in Calls \ {Cancel} : jobs'[c] = jobs[c]
    <3>1. jobs' = [jobs EXCEPT ![Cancel] = [NoJob EXCEPT !.stage = "drain", !.child = task.child]]
      BY <1>3 DEF CleansUp
    <3>. QED BY <1>0, <3>1 DEF TypeInv, TypeOK, NoJob
  <2>2. /\ task'.status = "pending" /\ task'.cancelled /\ SameRun /\ task'.record = task.record
    BY <1>0, <1>3 DEF Tasks, SameRun
  <2>3. jobs'[Cancel] # NoJob
    BY <2>1 DEF NoJob
  <2>4. \A s \in Runs : ~Launching(s)'
    BY <1>0, <2>3 DEF Overlapping, Meets, CleaningUp
  <2>5. LaunchesOk' /\ RestOk
    BY <1>0, <2>4, NoLaunches DEF TaskOk, Launching, Committing
  <2>6. /\ Shrinks /\ OneUnsettled' /\ ChildrenSettled' = ChildrenSettled
    BY <1>0, UnchangedShrinks, ShrinksKeeps DEF ChildrenSettled
  <2>7. FreshRows' /\ LoopsOk'
    BY <1>0, <2>2, <2>6, FreshKept, LoopsWithoutParking DEF SameRun
  <2>8. OnlyUnsettled(task.child, task.generation) /\ Dispatched'
    BY <1>3, <2>2, <2>5 DEF RestOk, Dispatchable, Dispatched, SameRun
  <2>9. JobsOk'
    <3>1. JobOk(Cancel)'
      <4>1. Target(Cancel)' = task.child
        BY <2>1 DEF Target, Cancel
      <4>2. OnlyUnsettled(Target(Cancel), task.generation)'
        BY <1>0, <2>2, <2>8, <4>1 DEF OnlyUnsettled, SameRun, Unsettled
      <4>. QED BY <2>1, <2>8, <4>2 DEF JobOk
    <3>2. ASSUME NEW c \in Calls \ {Cancel} PROVE JobOk(c)'
      BY <2>1, <2>2, <2>6, JobKept DEF JobsOk
    <3>. QED BY <3>1, <3>2 DEF JobsOk
  <2>10. TaskOk'
    <3>1. OwnJob'
      <4>1. Own(Cancel)
        BY DEF Own, Cancel, Merge, Update
      <4>. QED BY <1>0, <2>3, <4>1 DEF OwnJob
    <3>2. OthersSettled(task.child)'
      BY <1>0, <2>2, <2>8 DEF OnlyUnsettled, OthersSettled, SameRun, Unsettled
    <3>. QED BY <2>2, <2>6, <2>8, <3>1, <3>2 DEF TaskOk, RestOk, Dispatchable
  <2>. QED BY <2>5, <2>6, <2>7, <2>9, <2>10
<1>. QED BY <1>1, <1>2, <1>3 DEF WriteCancel

-----------------------------------------------------------------------------
(* The steps of a cleanup.                                                 *)

SameReview ==
  /\ SameRun /\ task'.status = task.status
  /\ task'.cancelled = task.cancelled /\ task'.feedback = task.feedback

(* Loops that the step of a cleanup leaves alone.                          *)
LEMMA LoopsBeside ==
  ASSUME LoopsOk, UNCHANGED <<launch, loop, workspace>>, SameReview, Shrinks,
         \A c \in Runs : Unsettled(c) => Unsettled(c)',
         launch \in [Runs -> Launches]
  PROVE  LoopsOk'
<1>1. ASSUME NEW s \in Runs PROVE LoopOk(s)'
  <2>1. LoopOk(s) /\ Child(s)' = Child(s) /\ Child(s) \in Runs
    BY SameChild, ChildTyped DEF LoopsOk
  <2>2. NeedsParking(s)' = NeedsParking(s)
    BY <2>1 DEF NeedsParking, SameReview, SameRun
  <2>3. Unsettled(Child(s)) => Unsettled(Child(s))'
    <3>1. \A c \in Runs : c = Child(s) /\ Unsettled(c) => Unsettled(Child(s))'
      BY <2>1 DEF Unsettled
    <3>. QED BY <2>1, <3>1
  <2>. QED BY <2>1, <2>2, <2>3, LoopKept DEF SameReview, LoopOk
<1>. QED BY <1>1 DEF LoopsOk

(* A cleanup goes on: what is left to show.                                *)
LEMMA CleanupGoesOn ==
  ASSUME TypeInv, ApartInv, ~Overlapping', NEW call \in Calls, jobs[call] # NoJob,
         UNCHANGED launch, \A c \in Calls \ {call} : jobs'[c] = jobs[c],
         SameReview, Shrinks, JobOk(call)', TaskOk', LoopsOk'
  PROVE  ApartInv'
<1>. USE DEF ApartInv
<1>1. LaunchesOk'
  BY NoLaunchBeside, NoLaunches DEF Launching
<1>2. FreshRows' /\ OneUnsettled'
  BY FreshKept, ShrinksKeeps DEF SameReview, SameRun
<1>3. JobsOk'
  BY JobKept DEF JobsOk, SameReview
<1>. QED BY <1>1, <1>2, <1>3

(* The task while a cleanup records what it does.                          *)
LEMMA TaskBeside ==
  ASSUME TaskOk, RestOk, SameReview, Shrinks,
         task'.record \in {"deleting", "completed"} => ChildrenSettled',
         Dispatched \/ task'.record = "failed" \/ task'.record = task.record,
         OwnJob /\ task'.record # "failed" => OwnJob' \/ ChildrenSettled',
         task'.record = "stopping" /\ task.record = "failed" /\ Dispatchable =>
           OwnJob' \/ ChildrenSettled',
         task'.record \in {"stopping", "deleting", "completed", "failed", task.record}
  PROVE  TaskOk'
<1>. USE DEF SameReview, SameRun
<1>1. /\ Dispatched' = Dispatched /\ Dispatchable' = Dispatchable /\ Continues' = Continues
  BY DEF Dispatched, Dispatchable, Continues
<1>2. /\ OthersSettled(task.child) => OthersSettled(task.child)'
      /\ OnlyUnsettled(task.child, task.generation) => OnlyUnsettled(task.child, task.generation)'
      /\ ChildrenSettled => ChildrenSettled'
  BY ShrinksKeeps DEF OthersSettled, OnlyUnsettled
<1>3. Dispatchable /\ ~Continues /\ ~OwnJob' => ChildrenSettled' \/ task'.record = "failed"
  BY <1>1, <1>2 DEF RestOk, TaskOk
<1>4. Dispatched' \/ task'.record # "failed" => OthersSettled(task.child)'
  BY <1>1, <1>2 DEF RestOk
<1>5. RestOk'
  BY <1>1, <1>2, <1>3, <1>4 DEF RestOk
<1>. QED BY <1>5 DEF TaskOk

(* A cleanup that fails records it, and is over.                           *)
LEMMA FailedApart ==
  ASSUME TypeInv, ApartInv, ~Overlapping', NEW call \in Calls, jobs[call] # NoJob, Dispatched,
         CleanupFailed(call), UNCHANGED <<launch, activation, workspace>>,
         UNCHANGED loop \/ LoopsOk'
  PROVE  ApartInv'
<1>. USE DEF ApartInv
<1>1. /\ jobs' = [jobs EXCEPT ![call] = NoJob]
      /\ task' = [task EXCEPT !.record = "failed", !.cleanup = "failed"]
  BY DEF CleanupFailed, CleanupOver, Recorded
<1>2. jobs'[call] = NoJob /\ \A c \in Calls \ {call} : jobs'[c] = jobs[c]
  BY <1>1 DEF TypeInv, TypeOK
<1>3. SameReview /\ task'.record = "failed"
  BY <1>1 DEF TypeInv, TypeOK, Tasks, SameReview, SameRun
<1>4. Shrinks /\ \A c \in Runs : Unsettled(c) => Unsettled(c)'
  BY UnchangedShrinks DEF Unsettled
<1>5. LoopsOk'
  BY <1>3, <1>4, LoopsBeside DEF TypeInv, TypeOK
<1>6. RestOk
  BY NoLaunchBeside
<1>7. TaskOk'
  BY <1>3, <1>4, <1>6, TaskBeside
<1>8. JobOk(call)'
  BY <1>2, NoJobOk
<1>. QED BY <1>2, <1>3, <1>4, <1>5, <1>7, <1>8, CleanupGoesOn

(* The call that removes a workspace has a job once it begins.             *)
LEMMA StageIsJob ==
  ASSUME NEW call \in Calls, jobs[call].stage # "idle"
  PROVE  jobs[call] # NoJob
BY DEF NoJob

(* A cancelled child is drained, or is settled already.                    *)
LEMMA DrainApart ==
  ASSUME TypeInv, ApartInv, ~Overlapping', Drain
  PROVE  ApartInv'
<1>. USE DEF ApartInv
<1> DEFINE child == jobs[Cancel].child
<1>0. /\ jobs[Cancel].stage = "drain" /\ Cancel \in Calls /\ jobs[Cancel] # NoJob
      /\ UNCHANGED <<task, launch, loop, workspace>> /\ JobOk(Cancel) /\ Own(Cancel)
      /\ child \in Runs \cup {NoChild} /\ task.generation \in Nat
  BY CallsTyped, StageIsJob
  DEF Drain, JobsOk, Own, Cancel, Merge, Update, TypeInv, TypeOK, Jobs, Tasks
<1>1. /\ Dispatched /\ Target(Cancel) = child
      /\ child = NoChild \/ OnlyUnsettled(child, task.generation)
  BY <1>0 DEF JobOk, Target, Cancel
<1>2. RestOk
  BY <1>0, NoLaunchBeside
<1>3. SameReview /\ SameTask
  BY <1>0 DEF SameReview, SameTask, SameRun
<1>4. CASE Fenced(child, task.generation, "draining")
  <2>1. /\ ActivationMoved(child, task.generation, "draining")
        /\ jobs' = [jobs EXCEPT ![Cancel].stage = "begin"]
    BY <1>4 DEF Drain
  <2>2. Shrinks /\ \A c \in Runs : Unsettled(c) => Unsettled(c)'
    BY <1>0, <1>4, <2>1, MoveShrinks DEF Activation!ActivationStates
  <2>3. /\ jobs'[Cancel].stage = "begin" /\ jobs'[Cancel].child = child
        /\ \A c \in Calls \ {Cancel} : jobs'[c] = jobs[c]
    BY <1>0, <2>1 DEF TypeInv, TypeOK, Jobs
  <2>4. JobOk(Cancel)'
    <3>1. Target(Cancel)' = child /\ Dispatched'
      BY <1>0, <1>1, <2>3 DEF Target, Cancel, Dispatched
    <3>2. OnlyUnsettled(child, task.generation) => OnlyUnsettled(Target(Cancel), task.generation)'
      <4>1. OnlyUnsettled(child, task.generation) =>
              \A c, g : c = child /\ g = task.generation => OnlyUnsettled(c, g)'
        BY <2>2, ShrinksKeeps
      <4>. QED BY <1>0, <3>1, <4>1 DEF OnlyUnsettled
    <3>. QED BY <1>1, <2>3, <3>1, <3>2 DEF JobOk
  <2>5. OwnJob'
    BY <1>0, <2>3 DEF OwnJob, NoJob, Own
  <2>6. TaskOk'
    <3>1. \A r \in Runs : Committing(r) => Committing(r)'
      BY <1>0 DEF Committing
    <3>. QED BY <1>3, <2>2, <2>5, <3>1, TaskKept
  <2>7. LoopsOk'
    BY <1>0, <1>3, <2>2, LoopsBeside DEF TypeInv, TypeOK
  <2>. QED BY <1>0, <1>3, <2>2, <2>3, <2>4, <2>6, <2>7, CleanupGoesOn
<1>5. CASE ~Fenced(child, task.generation, "draining")
  <2>1. UNCHANGED activation /\ jobs' = [jobs EXCEPT ![Cancel] = NoJob]
    BY <1>5 DEF Drain
  <2>2. child # NoChild
    BY <1>5 DEF Fenced
  <2>3. ChildrenSettled
    BY <1>0, <1>1, <1>5, <2>2, RefusedIsSettled
  <2>4. Shrinks /\ (\A c \in Runs : Unsettled(c) => Unsettled(c)') /\ ChildrenSettled'
    BY <2>1, <2>3, UnchangedShrinks, ShrinksKeeps DEF Unsettled
  <2>5. jobs'[Cancel] = NoJob /\ \A c \in Calls \ {Cancel} : jobs'[c] = jobs[c]
    BY <1>0, <2>1 DEF TypeInv, TypeOK
  <2>6. JobOk(Cancel)'
    BY <1>0, <2>5, NoJobOk
  <2>7. TaskOk'
    BY <1>0, <1>1, <1>2, <1>3, <2>4, TaskBeside
  <2>8. LoopsOk'
    BY <1>0, <1>3, <2>4, LoopsBeside DEF TypeInv, TypeOK
  <2>. QED BY <1>0, <1>3, <2>4, <2>5, <2>6, <2>7, <2>8, CleanupGoesOn
<1>. QED BY <1>4, <1>5

(* A Step cleanup is called for.                                           *)
LEMMA StepCleanupApart ==
  ASSUME TypeInv, ApartInv, ~Overlapping', NEW call \in {Merge, Update},
         CleansUp(call, "begin", NoChild), UNCHANGED <<launch, loop, activation, workspace>>,
         SameTask
  PROVE  ApartInv'
<1>. USE DEF ApartInv
<1>0. call \in Calls /\ ~Own(call)
  BY CallsTyped DEF Own
<1>1. /\ jobs'[call].stage = "begin" /\ \A c \in Calls \ {call} : jobs'[c] = jobs[c]
  <2>1. jobs' = [jobs EXCEPT ![call] = [NoJob EXCEPT !.stage = "begin", !.child = NoChild]]
    BY DEF CleansUp
  <2>. QED BY <1>0, <2>1 DEF TypeInv, TypeOK, NoJob
<1>2. LaunchesOk'
  <2>1. jobs'[call] # NoJob
    BY <1>1 DEF NoJob
  <2>2. \A s \in Runs : ~Launching(s)'
    BY <1>0, <2>1 DEF Overlapping, Meets, CleaningUp
  <2>. QED BY <2>2, NoLaunches
<1>3. SameRun /\ SameReview
  BY DEF SameTask, SameReview
<1>4. Shrinks /\ OneUnsettled' /\ \A c \in Runs : Unsettled(c) => Unsettled(c)'
  BY UnchangedShrinks, ShrinksKeeps DEF Unsettled
<1>5. FreshRows'
  BY <1>3, <1>4, FreshKept DEF SameRun
<1>6. LoopsOk'
  BY <1>3, <1>4, LoopsBeside DEF TypeInv, TypeOK
<1>7. JobsOk'
  <2>1. JobOk(call)'
    BY <1>0, <1>1 DEF JobOk, Own
  <2>. QED BY <1>1, <1>3, <1>4, <2>1, JobKept DEF JobsOk
<1>8. TaskOk'
  <2>1. OwnJob => OwnJob'
    BY <1>0, <1>1 DEF OwnJob, Own
  <2>2. \A r \in Runs : Committing(r) => Committing(r)'
    BY DEF Committing
  <2>. QED BY <1>4, <2>1, <2>2, TaskKept
<1>. QED BY <1>2, <1>4, <1>5, <1>6, <1>7, <1>8

(* The record tells a cleanup where to start.                              *)
LEMMA BeginCleanupApart ==
  ASSUME TypeInv, ApartInv, ~Overlapping', NEW call \in Calls, BeginCleanup(call)
  PROVE  ApartInv'
<1>. USE DEF ApartInv
<1>0. /\ jobs[call].stage = "begin" /\ jobs[call] # NoJob /\ JobOk(call)
      /\ UNCHANGED <<launch, loop, activation, workspace>>
  BY StageIsJob DEF BeginCleanup, childVars, JobsOk
<1>1. RestOk /\ task \in Tasks
  BY <1>0, NoLaunchBeside DEF TypeInv, TypeOK
<1>2. Shrinks /\ ChildrenSettled' = ChildrenSettled /\ \A c \in Runs : Unsettled(c) => Unsettled(c)'
  BY <1>0, UnchangedShrinks DEF Unsettled, ChildrenSettled
<1>3. Own(call) => Dispatched /\ HasWorkspace(call)
  <2>1. Own(call) => Dispatched
    BY <1>0 DEF JobOk
  <2>. QED BY <2>1 DEF Own, HasWorkspace
<1>4. CASE /\ ~HasWorkspace(call) \/ task.record = "completed" \/ call \in {Merge, Update}
           /\ CleanupOver(call) /\ UNCHANGED task
  <2>1. SameReview /\ task'.record = task.record
    BY <1>4 DEF SameReview, SameRun
  <2>2. jobs'[call] = NoJob /\ \A c \in Calls \ {call} : jobs'[c] = jobs[c]
    BY <1>4 DEF CleanupOver, TypeInv, TypeOK
  <2>3. JobOk(call)'
    BY <2>2, NoJobOk
  <2>4. OwnJob => OwnJob' \/ ChildrenSettled'
    <3>1. CASE Own(call)
      <4>1. ChildrenSettled'
        BY <1>2, <1>3, <1>4, <3>1 DEF Own, TaskOk
      <4>. QED BY <4>1
    <3>2. CASE ~Own(call)
      BY <2>2, <3>2 DEF OwnJob, Own
    <3>. QED BY <3>1, <3>2
  <2>5. TaskOk'
    <3>1. task'.record \in {"deleting", "completed"} => ChildrenSettled'
      BY <1>2, <2>1 DEF TaskOk
    <3>. QED BY <1>1, <1>2, <2>1, <2>4, <3>1, TaskBeside
  <2>6. LoopsOk'
    BY <1>0, <1>2, <2>1, LoopsBeside DEF TypeInv, TypeOK
  <2>. QED BY <1>0, <1>2, <2>1, <2>2, <2>3, <2>5, <2>6, CleanupGoesOn
<1>5. CASE /\ HasWorkspace(call) /\ task.record # "completed"
           /\ jobs' = [jobs EXCEPT ![call] =
                [stage |-> IF task.record = "deleting" THEN "delete" ELSE "mark",
                 child |-> IF call[1] \in {"dispatch", "cancel"} THEN @.child ELSE task.child,
                 generation |-> task.generation,
                 removes |-> call[1] # "report" /\ Dispatched]]
           /\ IF task.record = "deleting" THEN UNCHANGED task ELSE Recorded("stopping", "pending")
  <2>1. Dispatched
    BY <1>3, <1>5 DEF Own, HasWorkspace
  <2>2. /\ jobs'[call].stage = IF task.record = "deleting" THEN "delete" ELSE "mark"
        /\ jobs'[call].child = IF call[1] \in {"dispatch", "cancel"}
                               THEN jobs[call].child ELSE task.child
        /\ jobs'[call].generation = task.generation
        /\ \A c \in Calls \ {call} : jobs'[c] = jobs[c]
    BY <1>5 DEF TypeInv, TypeOK
  <2>3. /\ SameReview /\ task'.record \in {"stopping", task.record}
        /\ task.record = "deleting" => task'.record = "deleting"
        /\ task.record # "deleting" => task'.record = "stopping"
    <3>1. CASE task.record = "deleting"
      BY <1>5, <3>1 DEF SameReview, SameRun
    <3>2. CASE task.record # "deleting"
      BY <1>1, <1>5, <3>2 DEF Recorded, Tasks, SameReview, SameRun
    <3>. QED BY <3>1, <3>2
  <2>4. jobs'[call] # NoJob
    BY <2>2 DEF NoJob
  <2>5. \/ jobs'[call].child = NoChild
        \/ OnlyUnsettled(jobs'[call].child, task.generation)
    <3>1. CASE Own(call)
      <4>1. call[1] \in {"dispatch", "report", "cancel"}
        BY <3>1 DEF Own, Calls, Merge, Update
      <4>2. jobs'[call].child = Target(call)
        BY <2>2, <4>1 DEF Target
      <4>. QED BY <1>0, <3>1, <4>2 DEF JobOk
    <3>2. CASE ~Own(call)
      <4>1. task.status = "approved" /\ jobs'[call].child = task.child
        BY <1>5, <2>2, <3>2 DEF Own, HasWorkspace, StepTask, Merge, Update
      <4>. QED BY <1>1, <4>1 DEF RestOk, Dispatchable
    <3>. QED BY <3>1, <3>2
  <2>6. JobOk(call)'
    <3>1. Dispatched'
      BY <2>1, <2>3 DEF Dispatched, SameReview, SameRun
    <3>2. task.record = "deleting" => ChildrenSettled'
      BY <1>2 DEF TaskOk
    <3>3. \/ jobs'[call].child = NoChild
          \/ OnlyUnsettled(jobs[call].child, jobs[call].generation)'
      BY <1>0, <2>2, <2>5 DEF OnlyUnsettled, Unsettled
    <3>. QED BY <2>2, <3>1, <3>2, <3>3 DEF JobOk
  <2>7. OwnJob => OwnJob'
    BY <2>2, <2>4 DEF OwnJob, Own
  <2>8. task'.record = "stopping" /\ Dispatchable => OwnJob'
    <3>1. CASE Own(call)
      BY <2>4, <3>1 DEF OwnJob, Own
    <3>2. CASE ~Own(call)
      BY <1>5, <3>2 DEF Own, HasWorkspace, StepTask, Dispatchable, Merge, Update
    <3>. QED BY <3>1, <3>2
  <2>9. TaskOk'
    <3>1. task'.record \in {"deleting", "completed"} => ChildrenSettled'
      BY <1>2, <2>3 DEF TaskOk
    <3>. QED BY <1>1, <1>2, <2>1, <2>3, <2>7, <2>8, <3>1, TaskBeside
  <2>10. LoopsOk'
    BY <1>0, <1>2, <2>3, LoopsBeside DEF TypeInv, TypeOK
  <2>. QED BY <1>0, <1>2, <2>2, <2>3, <2>6, <2>9, <2>10, CleanupGoesOn
<1>. QED BY <1>4, <1>5 DEF BeginCleanup

(* A termination marks its intent, if there is a child to stop.            *)
LEMMA MarkIntentApart ==
  ASSUME TypeInv, ApartInv, ~Overlapping', NEW call \in Calls, MarkIntent(call)
  PROVE  ApartInv'
<1>. USE DEF ApartInv
<1>0. /\ jobs[call].stage = "mark" /\ jobs[call] # NoJob /\ JobOk(call) /\ Dispatched
      /\ UNCHANGED <<launch, loop, activation, workspace>>
  BY StageIsJob DEF MarkIntent, JobsOk, JobOk
<1>1. CASE CleanupFailed(call)
  BY <1>0, <1>1, FailedApart
<1>2. CASE jobs[call].child # NoChild /\ jobs' = [jobs EXCEPT ![call].stage = "stop"]
           /\ UNCHANGED task
  <2>1. /\ jobs'[call].stage = "stop" /\ jobs'[call].child = jobs[call].child
        /\ jobs'[call].generation = jobs[call].generation
        /\ \A c \in Calls \ {call} : jobs'[c] = jobs[c]
    BY <1>2 DEF TypeInv, TypeOK, Jobs
  <2>2. SameReview /\ SameTask
    BY <1>2 DEF SameReview, SameTask, SameRun
  <2>3. Shrinks /\ \A c \in Runs : Unsettled(c) => Unsettled(c)'
    BY <1>0, UnchangedShrinks DEF Unsettled
  <2>4. JobOk(call)'
    BY <1>0, <1>2, <2>1 DEF JobOk, OnlyUnsettled, Unsettled, Dispatched
  <2>5. TaskOk'
    <3>1. OwnJob => OwnJob'
      BY <2>1 DEF OwnJob, NoJob, Own
    <3>2. \A r \in Runs : Committing(r) => Committing(r)'
      BY <1>0 DEF Committing
    <3>. QED BY <2>2, <2>3, <3>1, <3>2, TaskKept
  <2>6. LoopsOk'
    BY <1>0, <2>2, <2>3, LoopsBeside DEF TypeInv, TypeOK
  <2>. QED BY <1>0, <2>1, <2>2, <2>3, <2>4, <2>5, <2>6, CleanupGoesOn
<1>. QED BY <1>1, <1>2 DEF MarkIntent

(* A child that was stopped is settled, and no loop runs any more.         *)
LEMMA StopChildApart ==
  ASSUME TypeInv, ApartInv, ~Overlapping', NEW call \in Calls, StopChild(call)
  PROVE  ApartInv'
<1>. USE DEF ApartInv
<1> DEFINE child == jobs[call].child
           g == jobs[call].generation
<1>0. /\ jobs[call].stage = "stop" /\ jobs[call] # NoJob /\ JobOk(call)
      /\ UNCHANGED <<launch, workspace>> /\ g \in Nat
  BY StageIsJob DEF StopChild, JobsOk, TypeInv, TypeOK, Jobs
<1>1. /\ Dispatched /\ child \in Runs /\ OnlyUnsettled(child, g)
  BY <1>0 DEF JobOk, TypeInv, TypeOK, Jobs
<1>2. OthersSettled(child)
  BY <1>1 DEF OnlyUnsettled, OthersSettled
<1>3. PICK how \in {"ended", "failed"} : Ended(child, how)
  BY DEF StopChild, Stopped
<1>4. \A s \in Runs : /\ loop'[s] # "running"
                      /\ loop'[s] # "none" => loop[s] # "none"
                      /\ loop'[s] \in {"parking", "parking failed"} => loop'[s] = loop[s]
  BY <1>2, <1>3, EndedAll
<1>5. \A s \in Runs : Child(s)' = Child(s)
  BY <1>0 DEF Child
<1>6. RestOk
  BY <1>0, NoLaunchBeside
<1>7. CASE /\ Fenced(child, g, "settled") /\ ActivationMoved(child, g, "settled")
           /\ jobs' = [jobs EXCEPT ![call].stage = "delete"] /\ UNCHANGED task
  <2>1. Shrinks /\ ChildrenSettled'
    BY <1>0, <1>1, <1>7, MoveShrinks DEF Activation!ActivationStates
  <2>2. /\ jobs'[call].stage = "delete"
        /\ \A c \in Calls \ {call} : jobs'[c] = jobs[c]
    BY <1>7 DEF TypeInv, TypeOK, Jobs
  <2>3. SameReview /\ SameTask
    BY <1>7 DEF SameReview, SameTask, SameRun
  <2>4. JobOk(call)'
    BY <1>1, <1>7, <2>1, <2>2 DEF JobOk, Dispatched
  <2>5. TaskOk'
    <3>1. OwnJob => OwnJob'
      BY <2>2 DEF OwnJob, NoJob, Own
    <3>2. \A r \in Runs : Committing(r) => Committing(r)'
      BY <1>0 DEF Committing
    <3>. QED BY <2>1, <2>3, <3>1, <3>2, TaskKept
  <2>6. LoopsOk'
    BY <1>0, <1>4, <2>1, LoopsAfterEnd
  <2>. QED BY <1>0, <2>1, <2>2, <2>3, <2>4, <2>5, <2>6, CleanupGoesOn
<1>8. CASE ~Fenced(child, g, "settled") /\ CleanupFailed(call) /\ UNCHANGED activation
  <2>1. ChildrenSettled'
    <3>1. ChildrenSettled
      BY <1>0, <1>1, <1>8, RefusedIsSettled
    <3>. QED BY <1>8, <3>1 DEF ChildrenSettled
  <2>2. LoopsOk'
    BY <1>0, <1>4, <1>8, <2>1, LoopsAfterEnd, UnchangedShrinks
  <2>. QED BY <1>0, <1>1, <1>8, <2>2, FailedApart
<1>. QED BY <1>7, <1>8 DEF StopChild

(* The later phases: all children are settled.                             *)
LEMMA RecordDeletionApart ==
  ASSUME TypeInv, ApartInv, ~Overlapping', NEW call \in Calls, RecordDeletion(call)
  PROVE  ApartInv'
<1>. USE DEF ApartInv
<1>0. /\ jobs[call].stage = "delete" /\ jobs[call] # NoJob /\ JobOk(call)
      /\ UNCHANGED <<launch, loop, activation, workspace>>
      /\ task' = [task EXCEPT !.record = "deleting", !.cleanup = "pending"]
      /\ jobs' = [jobs EXCEPT ![call].stage = "remove"]
  BY StageIsJob DEF RecordDeletion, Recorded, JobsOk, callVars, childVars
<1>1. Dispatched /\ ChildrenSettled /\ RestOk
  BY <1>0, NoLaunchBeside DEF JobOk
<1>2. Shrinks /\ (\A c \in Runs : Unsettled(c) => Unsettled(c)') /\ ChildrenSettled'
  BY <1>0, <1>1, UnchangedShrinks, ShrinksKeeps DEF Unsettled
<1>3. SameReview /\ task'.record = "deleting"
  BY <1>0 DEF TypeInv, TypeOK, Tasks, SameReview, SameRun
<1>4. /\ jobs'[call].stage = "remove"
      /\ \A c \in Calls \ {call} : jobs'[c] = jobs[c]
  BY <1>0 DEF TypeInv, TypeOK, Jobs
<1>5. JobOk(call)'
  BY <1>1, <1>2, <1>3, <1>4 DEF JobOk, Dispatched, SameReview, SameRun
<1>6. TaskOk'
  BY <1>1, <1>2, <1>3, TaskBeside
<1>7. LoopsOk'
  BY <1>0, <1>2, <1>3, LoopsBeside DEF TypeInv, TypeOK
<1>. QED BY <1>0, <1>2, <1>3, <1>4, <1>5, <1>6, <1>7, CleanupGoesOn

(* The workspace is removed: its child is settled, so that no loop runs.   *)
LEMMA RemoveWorkspaceApart ==
  ASSUME TypeInv, ApartInv, ~Overlapping', NEW call \in Calls, RemoveWorkspace(call)
  PROVE  ApartInv'
<1>. USE DEF ApartInv
<1>0. /\ jobs[call].stage = "remove" /\ jobs[call] # NoJob /\ JobOk(call)
      /\ UNCHANGED <<launch, loop, activation>>
      /\ task' = [task EXCEPT !.record = "completed", !.cleanup = "completed"]
      /\ jobs' = [jobs EXCEPT ![call] = NoJob]
  BY StageIsJob DEF RemoveWorkspace, Recorded, CleanupOver, JobsOk, childVars
<1>1. Dispatched /\ ChildrenSettled /\ RestOk
  BY <1>0, NoLaunchBeside DEF JobOk
<1>2. Shrinks /\ ChildrenSettled'
  BY <1>0, <1>1, UnchangedShrinks, ShrinksKeeps
<1>3. SameReview /\ task'.record = "completed"
  BY <1>0 DEF TypeInv, TypeOK, Tasks, SameReview, SameRun
<1>4. /\ jobs'[call] = NoJob
      /\ \A c \in Calls \ {call} : jobs'[c] = jobs[c]
  BY <1>0 DEF TypeInv, TypeOK, Jobs
<1>5. JobOk(call)'
  BY <1>4, NoJobOk
<1>6. TaskOk'
  BY <1>1, <1>2, <1>3, TaskBeside
<1>7. LoopsOk'
  <2>1. \A s \in Runs : loop[s] # "running"
    <3>1. \A s \in Runs : Child(s) \in Runs
      BY ChildTyped DEF TypeInv, TypeOK
    <3>. QED BY <1>1, <3>1, NoneUnsettled DEF LoopsOk, LoopOk
  <2>. QED BY <1>0, <1>2, <2>1 DEF LoopsOk, LoopOk
<1>. QED BY <1>0, <1>2, <1>3, <1>4, <1>5, <1>6, <1>7, CleanupGoesOn

(* Any stage of a cleanup.                                                 *)
LEMMA CleanupApart ==
  ASSUME TypeInv, ApartInv, ~Overlapping', NEW call \in Calls, CleanupStage(call)
  PROVE  ApartInv'
<1>1. CASE StopChildFails(call) \/ RemoveWorkspaceFails(call)
  <2>1. /\ jobs[call].stage \in {"stop", "remove"} /\ CleanupFailed(call)
        /\ UNCHANGED <<launch, loop, activation, workspace>>
    BY <1>1 DEF StopChildFails, RemoveWorkspaceFails, childVars
  <2>2. jobs[call] # NoJob /\ Dispatched
    BY <2>1, StageIsJob DEF ApartInv, JobsOk, JobOk
  <2>. QED BY <2>1, <2>2, FailedApart
<1>. QED BY <1>1, BeginCleanupApart, MarkIntentApart, StopChildApart, RecordDeletionApart,
            RemoveWorkspaceApart DEF CleanupStage

-----------------------------------------------------------------------------
(* Every step, until the first overlap.                                    *)

(* What the main agent and the user do beside all this.                    *)
LEMMA BesideApart ==
  ASSUME TypeInv, ApartInv, ~Overlapping',
         \/ RefuseRetry \/ FenceCancel \/ BeginMerge \/ RunMerge \/ FinishMerge
         \/ CleanupStep \/ Interrupt
  PROVE  ApartInv'
<1>0. /\ UNCHANGED <<loop, activation, workspace>> /\ task \in Tasks
      /\ \A r \in Runs : SameLaunch(r)
  <2>1. CASE Interrupt
    <3>1. \A r \in Runs : launch'[r] \in {launch[r], [launch[r] EXCEPT !.aborted = TRUE]}
      BY <2>1 DEF Interrupt
    <3>2. \A r \in Runs : SameLaunch(r)
      BY <3>1 DEF SameLaunch, TypeInv, TypeOK, Launches
    <3>. QED BY <2>1, <3>2 DEF Interrupt, childVars, TypeInv, TypeOK
  <2>2. CASE UNCHANGED launch
    BY <2>2 DEF RefuseRetry, FenceCancel, BeginMerge, RunMerge, FinishMerge, CleanupStep,
                Interrupt, childVars, SameLaunch, TypeInv, TypeOK
  <2>. QED BY <2>1, <2>2 DEF RefuseRetry, FenceCancel, BeginMerge, RunMerge, FinishMerge, CleanupStep
<1>1. SameTask
  BY <1>0 DEF RefuseRetry, FenceCancel, BeginMerge, RunMerge, FinishMerge, CleanupStep,
              Interrupt, SameTask, SameRun, Tasks
<1>2. CASE UNCHANGED jobs
  BY <1>0, <1>1, <1>2, Undisturbed
<1>3. CASE \E call \in {Merge, Update} : CleansUp(call, "begin", NoChild) /\ UNCHANGED launch
  BY <1>0, <1>1, <1>3, StepCleanupApart
<1>. QED BY <1>2, <1>3 DEF RefuseRetry, FenceCancel, BeginMerge, RunMerge, FinishMerge, CleanupStep,
                           Interrupt

(* Every step that does not overlap keeps the invariant.                   *)
LEMMA ApartStep ==
  ASSUME TypeInv, WorkInv, ApartInv, Step, ~Overlapping', ~Forgotten
  PROVE  ApartInv'
<1>1. ASSUME NEW r \in Runs, Prepare(r) \/ PrepareRetry(r) PROVE ApartInv'
  <2>1. PICK automatic \in BOOLEAN : Prepared(r, automatic)
    BY <1>1 DEF Prepare, PrepareRetry
  <2>. QED BY <2>1, PreparedApart
<1>2. ASSUME NEW r \in Runs, LaunchStep(r) PROVE ApartInv'
  BY <1>2, CommitApart, CreateWorkspaceApart, CreateChildApart, MarkCreatedApart,
     ClaimResumedApart, PublishApart, StartApart, FailDispatchApart DEF LaunchStep
<1>3. ASSUME NEW r \in Runs, Report(r) \/ LoopEnds(r) \/ WatchExit(r) \/ Park(r) PROVE ApartInv'
  BY <1>3, ReportApart, LoopEndsApart, WatchExitApart, ParkApart
<1>4. CASE Approve \/ RejectReport \/ Reopen
  BY <1>4, ReviewApart, ReopenApart
<1>5. CASE WriteCancel \/ Drain
  BY <1>5, WriteCancelApart, DrainApart
<1>6. CASE \/ RefuseRetry \/ FenceCancel \/ BeginMerge \/ RunMerge \/ FinishMerge
           \/ CleanupStep \/ Interrupt
  BY <1>6, BesideApart
<1>7. ASSUME NEW call \in Calls, CleanupStage(call) PROVE ApartInv'
  BY <1>7, CleanupApart
<1>. QED BY <1>1, <1>2, <1>3, <1>4, <1>5, <1>6, <1>7 DEF Step, RetryStep, MergeStep

(* In the beginning there is nothing.                                      *)
LEMMA ApartInit ==
  ASSUME Init
  PROVE  ApartInv
<1>0. /\ \A r \in Runs : launch[r].stage = "none" /\ launch[r].child = NoChild
      /\ \A r \in Runs : loop[r] = "none"
      /\ \A r \in Runs : activation[r] = Activation!NoRow
      /\ \A call \in Calls : jobs[call] = NoJob
      /\ task.status = "pending" /\ task.run = NoRun /\ task.child = NoChild
      /\ task.record = "none" /\ task.cancelled = FALSE
  BY DEF Init
<1>1. \A r \in Runs : ~Activation!Exists(activation[r]) /\ ~Unsettled(r)
  BY <1>0 DEF Activation!NoRow, Activation!Exists, Unsettled
<1>2. ~Overlapping /\ FreshRows /\ OneUnsettled
  BY <1>0, <1>1, RunsTyped DEF Overlapping, Launching, FreshRows, OneUnsettled
<1>3. LaunchesOk
  BY <1>0 DEF LaunchesOk, LaunchOk, PreparedOk, CommittedOk, Committing, CreatingOk, MarkOk,
              ClaimOk, PublishOk, FailingOk
<1>4. TaskOk
  BY <1>0, <1>1, NoneUnsettled DEF TaskOk, RestOk, Dispatchable, OthersSettled
<1>5. JobsOk
  <2>. SUFFICES ASSUME NEW call \in Calls PROVE JobOk(call)
    BY DEF JobsOk
  <2>0. jobs[call] = NoJob
    BY <1>0
  <2>1. jobs[call] = NoJob /\ jobs[call].stage = "idle"
    BY <2>0 DEF NoJob
  <2>. QED BY <2>1 DEF JobOk
<1>6. LoopsOk
  BY <1>0 DEF LoopsOk, LoopOk
<1>. QED BY <1>2, <1>3, <1>4, <1>5, <1>6 DEF ApartInv

(* The invariant holds until the first overlap.                            *)
UntilOverlap == overlapped \/ ApartInv

(* It does: an overlap is remembered, and no other step breaks it.         *)
LEMMA ApartAlways == Spec => [](TypeInv /\ UntilOverlap)
<1>1. Init => UntilOverlap
  BY ApartInit DEF UntilOverlap
<1>2. TypeInv /\ WorkInv /\ UntilOverlap /\ [Next]_vars => UntilOverlap'
  <2> SUFFICES ASSUME TypeInv, WorkInv, UntilOverlap, [Next]_vars, ~overlapped' PROVE ApartInv'
    BY DEF UntilOverlap
  <2>1. CASE Next
    <3>1. ~overlapped /\ ~Overlapping' /\ ~Forgotten /\ Step
      BY <2>1 DEF Next
    <3>. QED BY <3>1, ApartStep DEF UntilOverlap
  <2>2. CASE UNCHANGED vars
    <3>1. UNCHANGED program /\ ~overlapped
      BY <2>2 DEF vars
    <3>2. UNCHANGED <<task, launch, loop, activation, workspace, jobs>>
      BY <3>1 DEF program
    <3>3. ~Overlapping'
      BY <3>1, <3>2 DEF UntilOverlap, ApartInv, Overlapping, Launching, Meets, CleaningUp,
                        Unsettled, Child
    <3>4. SameTask /\ \A r \in Runs : SameLaunch(r)
      BY <3>2 DEF SameTask, SameRun, SameLaunch
    <3>. QED BY <3>1, <3>2, <3>3, <3>4, Undisturbed DEF UntilOverlap
  <2>. QED BY <2>1, <2>2
<1>. QED BY <1>1, <1>2, WorkAlways, PTL DEF Spec

(* As long as no launch has overlapped a cleanup, another launch or a      *)
(* child that could not be stopped, a child's loop runs only in a          *)
(* workspace that exists (dispatch, terminateChild, the removal guard),    *)
(* whatever is interrupted and whatever fails.                             *)
THEOREM LoopsHaveWorkspace == Spec => []LoopHasWorkspace
<1>1. TypeInv /\ UntilOverlap => LoopHasWorkspace
  BY DEF UntilOverlap, ApartInv, LoopsOk, LoopOk, LoopHasWorkspace
<1>. QED BY <1>1, ApartAlways, PTL

(* Likewise two children never work in the workspace at the same time: a   *)
(* child is only started when all others are settled.                      *)
THEOREM OneChildWorks == Spec => []OneChildInWorkspace
<1>1. TypeInv /\ UntilOverlap => OneChildInWorkspace
  <2> SUFFICES ASSUME TypeInv, ApartInv, NEW r \in Runs, NEW s \in Runs,
                      loop[r] = "running", loop[s] = "running"
               PROVE  Child(r) = Child(s)
    BY DEF UntilOverlap, OneChildInWorkspace
  <2>1. Child(r) \in Runs /\ Child(s) \in Runs
    BY ChildTyped DEF TypeInv, TypeOK
  <2>2. Unsettled(Child(r)) /\ Unsettled(Child(s))
    BY DEF ApartInv, LoopsOk, LoopOk
  <2>. QED BY <2>1, <2>2 DEF ApartInv, OneUnsettled
<1>. QED BY <1>1, ApartAlways, PTL

(* Likewise the workspace is removed only when the activations of all the  *)
(* children that worked in it are settled, not only that of the child the  *)
(* removal guard looks at.                                                 *)
THEOREM ChildrenSettledFirst == Spec => RemovedAfterSettling
<1>1. TypeInv /\ UntilOverlap /\ [Next]_vars =>
        [~overlapped /\ workspace /\ ~workspace' => ChildrenSettled]_vars
  <2> SUFFICES ASSUME TypeInv, ApartInv, Next, workspace, ~workspace' PROVE ChildrenSettled
    BY DEF UntilOverlap
  <2>1. PICK call \in Calls : RemoveWorkspace(call)
    <3>1. Step
      BY DEF Next
    <3>. QED
      BY <3>1
      DEF Step, LaunchStep, RetryStep, MergeStep, CleanupStage, Prepare, PrepareRetry, Prepared,
          RefuseRetry, Commit, CreateWorkspace, CreateChild, MarkCreated, ClaimResumed, Publish,
          Start, FailDispatch, Report, LoopEnds, WatchExit, Park, Approve, RejectReport, Reopen,
          FenceCancel, WriteCancel, Drain, BeginMerge, RunMerge, FinishMerge, CleanupStep,
          BeginCleanup, MarkIntent, StopChild, StopChildFails, RecordDeletion,
          RemoveWorkspaceFails, Interrupt
  <2>2. jobs[call].stage = "remove"
    BY <2>1 DEF RemoveWorkspace
  <2>. QED BY <2>2 DEF ApartInv, JobsOk, JobOk
<1>. QED BY <1>1, ApartAlways, PTL DEF Spec, RemovedAfterSettling

(* And once a report is accepted, only a review takes it back: no launch   *)
(* that fails and no watcher that comes late parks the task.               *)
THEOREM AcceptedWorkIsKept == Spec => AcceptedWorkStays
<1>1. TypeInv /\ UntilOverlap /\ [Next]_vars =>
        [~overlapped /\ task.status \in {"reported", "approved"} /\ task'.status = "rejected"
           => RejectReport]_vars
  <2> SUFFICES ASSUME TypeInv, ApartInv, Next, task.status \in {"reported", "approved"},
                      task'.status = "rejected"
               PROVE  RejectReport
    BY DEF UntilOverlap
  <2>0. task \in Tasks /\ Step
    BY DEF TypeInv, TypeOK, Next
  <2>1. ASSUME NEW r \in Runs PROVE ~FailDispatch(r)
    BY DEF FailDispatch, ApartInv, LaunchesOk, LaunchOk, CommittedOk, Committing
  <2>2. ASSUME NEW r \in Runs PROVE ~Commit(r)
    BY DEF Commit, ApartInv, LaunchesOk, LaunchOk, PreparedOk, Dispatchable
  <2>3. ASSUME NEW r \in Runs PROVE ~MarkCreated(r) /\ ~Publish(r)
    BY DEF MarkCreated, Publish, ApartInv, LaunchesOk, LaunchOk, CommittedOk, Committing
  <2>4. ASSUME NEW r \in Runs PROVE ~Report(r)
    BY DEF Report, ReportAccepted
  <2>5. ASSUME NEW r \in Runs PROVE ~Park(r)
    BY DEF Park, StillNeedsParking, NeedsParking
  <2>6. ~Approve /\ ~Reopen /\ ~WriteCancel /\ ~RunMerge /\ ~FinishMerge
    BY <2>0 DEF Approve, Reopen, WriteCancel, RunMerge, FinishMerge, Tasks
  <2>7. ASSUME NEW call \in Calls PROVE ~CleanupStage(call)
    <3>1. CASE UNCHANGED task
      BY <3>1
    <3>2. CASE \E state, status : Recorded(state, status)
      BY <2>0, <3>2 DEF Recorded, Tasks
    <3>. QED
      BY <3>1, <3>2
      DEF CleanupStage, BeginCleanup, MarkIntent, StopChild, StopChildFails, RecordDeletion,
          RemoveWorkspace, RemoveWorkspaceFails, CleanupFailed
  <2>8. ~UNCHANGED task
    OBVIOUS
  <2>. QED
    BY <2>0, <2>1, <2>2, <2>3, <2>4, <2>5, <2>6, <2>7, <2>8
    DEF Step, LaunchStep, RetryStep, MergeStep, Prepare, PrepareRetry, Prepared, RefuseRetry,
        CreateWorkspace, CreateChild, ClaimResumed, Start, LoopEnds, WatchExit, FenceCancel,
        Drain, BeginMerge, CleanupStep, Interrupt, childVars, callVars
<1>. QED BY <1>1, ApartAlways, PTL DEF Spec, AcceptedWorkStays
=============================================================================
