------------------------- MODULE WorkspaceSweepProofs -------------------------
(***************************************************************************)
(* Proofs about WorkspaceSweep: types, and that no scan takes the          *)
(* directory of a working child unless the child was dispatched while the  *)
(* scan, which had found the task inactive, was under way.                 *)
(***************************************************************************)
EXTENDS WorkspaceSweep, TLAPS

RunnerSteps(r) == Heartbeat(r) \/ Watching(r)

LEMMA NothingTyped == NoLease \in Leases /\ NoScan \in Scans
<1>1. NoLease \in Leases
  BY DEF NoLease, Leases, Ages
<1> QED
  BY <1>1 DEF NoScan, Scans, ScanStages

(* What the lease store, time and the scan write is well typed.            *)
LEMMA LeasesTyped ==
  /\ \A s \in Nat : Created(s) \in Leases
  /\ \A l \in Leases : {Renewed(l), Finished(l), LapseOf(l), [l EXCEPT !.retained = FALSE]}
                          \subseteq Leases
BY DEF Created, Renewed, Finished, LapseOf, Leases, Ages

LEMMA ScansTyped ==
  ASSUME NEW s \in Scans, NEW at \in ScanStages
  PROVE  /\ [s EXCEPT !.at = at, !.lease = NoLease] \in Scans
         /\ [s EXCEPT !.at = at] \in Scans
         /\ \A l \in Leases : [s EXCEPT !.at = at, !.lease = l] \in Scans
         /\ \A t \in Targets : [s EXCEPT !.at = at, !.target = t] \in Scans
BY NothingTyped DEF Scans, Targets

LEMMA InitTyped == Init => TypeOK
<1> SUFFICES ASSUME Init PROVE TypeOK
  OBVIOUS
<1>0. 1 \in Runs
  BY SweepAssumption DEF SweepAssumption, Runs
<1>1. session \in [Runs -> Nat] /\ loop \in [Runs -> {"none", "live", "settling", "settled", "over"}]
  BY DEF Init
<1>2. RunTypes
  BY <1>0, <1>1 DEF Init, RunTypes, TaskStates
<1>3. FileTypes
  BY NothingTyped DEF Init, FileTypes
<1>4. SweepTypes
  BY NothingTyped DEF Init, SweepTypes
<1> QED BY <1>2, <1>3, <1>4 DEF TypeOK

LEMMA RunsTyped == TypeOK /\ [Next]_vars => RunTypes'
<1> SUFFICES ASSUME RunTypes, [Next]_vars PROVE RunTypes'
  BY DEF TypeOK
<1> USE DEF RunTypes
<1>1. CASE Dispatch \/ CreateFails \/ Report \/ Continue \/ Conclude \/ Forget
  <2>1. CASE CreateFails \/ Report \/ Conclude \/ Forget
    BY <2>1 DEF CreateFails, Report, Conclude, Forget, TaskStates
  <2>2. run < MaxRuns => run + 1 \in Runs
    BY SweepAssumption DEF SweepAssumption, Runs
  <2>3. CASE Dispatch
    <3>1. run + 1 \in Runs /\ run + 1 \in Nat
      BY <2>2, <2>3 DEF Dispatch, Runs
    <3>2. session' \in [Runs -> Nat]
      BY <3>1, <2>3 DEF Dispatch
    <3> QED BY <3>1, <3>2, <2>3 DEF Dispatch, TaskStates
  <2>4. CASE Continue
    <3>1. run + 1 \in Runs /\ run + 1 \in Nat /\ session[run] \in Nat
      BY <2>2, <2>4 DEF Continue, Runs
    <3>2. session' \in [Runs -> Nat]
      BY <3>1, <2>4 DEF Continue
    <3>3. loop' \in [Runs -> {"none", "live", "settling", "settled", "over"}]
      BY <3>1, <2>4 DEF Continue
    <3> QED BY <3>1, <3>2, <3>3, <2>4 DEF Continue, TaskStates
  <2> QED BY <1>1, <2>1, <2>3, <2>4
<1>2. CASE Launching
  BY <1>2 DEF Launching, WriteManifest, MakeDirectory, StartChild
<1>3. ASSUME NEW r \in Runs, RunnerSteps(r) PROVE RunTypes'
  BY <1>3 DEF RunnerSteps, Watching, Heartbeat, LoopEnds, SettleExit, FinishLease, Terminate, runs,
              TaskStates
<1>4. CASE RunnerDies
  BY <1>4 DEF RunnerDies, TaskStates
<1>5. CASE runs' = runs
  BY <1>5 DEF runs
<1>6. CASE CleanDirectory \/ CleanSidecars \/ Time \/ Scanning \/ RemovalFails \/ ScannerDies
  <2>1. runs' = runs
    BY <1>6 DEF CleanDirectory, CleanSidecars, Time, LeaseLapses, RetentionEnds, FilesAge,
       RetryIsDue, Scanning, Look, ReadLease, Preserve, BeginRemoval, BeginQuarantine,
       RemoveDirectory, RemoveManifest, RemoveLease, Complete, QuarantineDirectory,
       QuarantineManifest, QuarantineLease, PickUnleased, EndScan, Recheck, MoveUnleased,
       MoveSidecar, RemovalFails, ScannerDies
  <2> QED BY <2>1, <1>5
<1>7. CASE UNCHANGED vars
  BY <1>5, <1>7 DEF vars
<1> QED
  BY <1>1, <1>2, <1>3, <1>4, <1>6, <1>7 DEF Next, RunnerSteps

LEMMA FilesTyped == TypeOK /\ [Next]_vars => FileTypes'
<1> SUFFICES ASSUME RunTypes, FileTypes, [Next]_vars PROVE FileTypes'
  BY DEF TypeOK
<1> USE DEF FileTypes
<1>a. \A r \in Runs : session[r] \in Nat
  BY DEF RunTypes
<1>1. CASE Dispatch \/ CreateFails \/ Report \/ Conclude \/ Forget \/ WriteManifest \/ MakeDirectory
  BY <1>1 DEF Dispatch, CreateFails, Report, Conclude, Forget, WriteManifest, MakeDirectory, files
<1>2. CASE Continue \/ StartChild
  <2>1. lease' \in Leases
    BY <1>2, <1>a, LeasesTyped DEF Continue, StartChild, RunTypes
  <2> QED BY <1>2, <2>1 DEF Continue, StartChild
<1>3. ASSUME NEW r \in Runs, RunnerSteps(r) PROVE FileTypes'
  <2>1. lease' \in Leases
    BY <1>3, LeasesTyped DEF RunnerSteps, Watching, Heartbeat, LoopEnds, SettleExit, FinishLease,
       Terminate, files
  <2> QED
    BY <1>3, <2>1 DEF RunnerSteps, Watching, Heartbeat, LoopEnds, SettleExit, FinishLease,
       Terminate, files
<1>4. CASE CleanDirectory \/ CleanSidecars \/ RunnerDies
  BY <1>4, NothingTyped DEF CleanDirectory, CleanSidecars, RunnerDies, files
<1>5. CASE Time
  <2>1. lease' \in Leases
    BY <1>5, LeasesTyped DEF Time, LeaseLapses, RetentionEnds, FilesAge, RetryIsDue, files
  <2> QED
    BY <1>5, <2>1 DEF Time, LeaseLapses, RetentionEnds, FilesAge, RetryIsDue, files
<1>6. CASE Scanning \/ RemovalFails \/ ScannerDies
  <2>1. lease' \in Leases
    BY <1>6, NothingTyped DEF Scanning, Look, ReadLease, Preserve, BeginRemoval, BeginQuarantine,
       RemoveDirectory, RemoveManifest, RemoveLease, Complete, QuarantineDirectory,
       QuarantineManifest, QuarantineLease, PickUnleased, EndScan, Recheck, MoveUnleased,
       MoveSidecar, RemovalFails, ScannerDies, files
  <2>2. dir' \in BOOLEAN /\ manifest' \in BOOLEAN /\ aged' = aged /\ cleaning' = cleaning
    BY <1>6 DEF Scanning, Look, ReadLease, Preserve, BeginRemoval, BeginQuarantine,
       RemoveDirectory, RemoveManifest, RemoveLease, Complete, QuarantineDirectory,
       QuarantineManifest, QuarantineLease, PickUnleased, EndScan, Recheck, MoveUnleased,
       MoveSidecar, RemovalFails, ScannerDies, files
  <2> QED BY <2>1, <2>2
<1>7. CASE UNCHANGED vars
  BY <1>7 DEF vars, files
<1> QED
  BY <1>1, <1>2, <1>3, <1>4, <1>5, <1>6, <1>7 DEF Next, Launching, RunnerSteps

LEMMA SweepTyped == TypeOK /\ [Next]_vars => SweepTypes'
<1> SUFFICES ASSUME RunTypes, FileTypes, SweepTypes, [Next]_vars PROVE SweepTypes'
  BY DEF TypeOK
<1> USE DEF SweepTypes, history
<1>1. CASE Dispatch \/ CreateFails \/ Report \/ Continue \/ Conclude \/ Forget
  <2>1. CASE Dispatch
    <3>1. FoundInactive \in BOOLEAN
      BY DEF FoundInactive
    <3>2. raced' \in BOOLEAN
      BY <2>1, <3>1 DEF Dispatch
    <3> QED BY <2>1, <3>2 DEF Dispatch
  <2> QED BY <1>1, <2>1 DEF CreateFails, Report, Continue, Conclude, Forget
<1>2. CASE Launching \/ CleanDirectory \/ CleanSidecars \/ RunnerDies
  BY <1>2 DEF Launching, WriteManifest, MakeDirectory, StartChild, CleanDirectory, CleanSidecars,
              RunnerDies
<1>3. ASSUME NEW r \in Runs, RunnerSteps(r) PROVE SweepTypes'
  BY <1>3 DEF RunnerSteps, Watching, Heartbeat, LoopEnds, SettleExit, FinishLease, Terminate
<1>4. CASE Time \/ ScannerDies
  BY <1>4, NothingTyped DEF Time, LeaseLapses, RetentionEnds, FilesAge, RetryIsDue, ScannerDies
<1>5. CASE Scanning \/ RemovalFails
  <2>1. scan' \in Scans
    <3> USE DEF Continues, ScanStages
    <3>1. CASE Look
      <4>1. PlanSays \in {"active", "terminal", "unknown"}
        BY DEF PlanSays, Active, RunTypes, TaskStates
      <4> QED BY <3>1, <4>1, NothingTyped DEF Look, NoScan, Scans
    <3>2. CASE ReadLease
      <4>1. "unleased" \in ScanStages /\ "candidate" \in ScanStages
        BY DEF ScanStages
      <4>2. lease \in Leases
        BY DEF FileTypes
      <4>3. /\ [scan EXCEPT !.at = "unleased", !.lease = NoLease] \in Scans
            /\ [scan EXCEPT !.at = "candidate", !.lease = lease] \in Scans
        BY <4>1, <4>2, ScansTyped
      <4> QED BY <3>2, <4>3 DEF ReadLease
    <3>3. CASE PickUnleased \/ EndScan
      <4>1. "checked" \in ScanStages
        BY DEF ScanStages
      <4>2. \A t \in Targets : [scan EXCEPT !.at = "checked", !.target = t] \in Scans
        BY <4>1, ScansTyped
      <4> QED BY <3>3, <4>2, NothingTyped DEF PickUnleased, EndScan
    <3>4. CASE Recheck \/ MoveUnleased \/ MoveSidecar
      BY <3>4, ScansTyped, NothingTyped DEF Recheck, MoveUnleased, MoveSidecar
    <3>5. CASE Preserve \/ BeginRemoval \/ BeginQuarantine \/ RemovalFails
      BY <3>5, ScansTyped DEF Preserve, BeginRemoval, BeginQuarantine, RemovalFails
    <3>6. CASE RemoveDirectory \/ RemoveManifest \/ RemoveLease \/ Complete
      BY <3>6, ScansTyped DEF RemoveDirectory, RemoveManifest, RemoveLease, Complete
    <3>7. CASE QuarantineDirectory \/ QuarantineManifest \/ QuarantineLease
      BY <3>7, ScansTyped DEF QuarantineDirectory, QuarantineManifest, QuarantineLease
    <3> QED BY <1>5, <3>1, <3>2, <3>3, <3>4, <3>5, <3>6, <3>7 DEF Scanning
  <2>2. queue' \in {"none", "deleting", "failed", "completed"} /\ crashes' \in Nat
    BY <1>5 DEF Scanning, Look, ReadLease, Preserve, BeginRemoval, BeginQuarantine,
       RemoveDirectory, RemoveManifest, RemoveLease, Complete, QuarantineDirectory,
       QuarantineManifest, QuarantineLease, PickUnleased, EndScan, Recheck, MoveUnleased,
       MoveSidecar, RemovalFails
  <2>4. raced' = raced
    BY <1>5 DEF Scanning, Look, ReadLease, Preserve, BeginRemoval, BeginQuarantine,
       RemoveDirectory, RemoveManifest, RemoveLease, Complete, QuarantineDirectory,
       QuarantineManifest, QuarantineLease, PickUnleased, EndScan, Recheck, MoveUnleased,
       MoveSidecar, RemovalFails
  <2>3. fails' = fails \/ fails' = fails + 1
    BY <1>5 DEF Scanning, Look, ReadLease, Preserve, BeginRemoval, BeginQuarantine,
       RemoveDirectory, RemoveManifest, RemoveLease, Complete, QuarantineDirectory,
       QuarantineManifest, QuarantineLease, PickUnleased, EndScan, Recheck, MoveUnleased,
       MoveSidecar, RemovalFails
  <2> QED BY <2>1, <2>2, <2>3, <2>4
<1>6. CASE UNCHANGED vars
  BY <1>6 DEF vars
<1> QED
  BY <1>1, <1>2, <1>3, <1>4, <1>5, <1>6 DEF Next, RunnerSteps

(* Every variable keeps its type, whatever may happen.                     *)
THEOREM TypeCorrect == Spec => []TypeOK
<1>1. TypeOK /\ [Next]_vars => TypeOK'
  BY RunsTyped, FilesTyped, SweepTyped DEF TypeOK
<1> QED BY InitTyped, <1>1, PTL DEF Spec
-----------------------------------------------------------------------------
(* Only a scan that has found the task inactive takes files away ...       *)
Takes == scan.at \in {"rmdir", "rmmanifest", "rmlease", "complete", "qdir", "qmanifest", "qlease",
                      "checked", "moving", "sidecar"}
TakersFound == Takes => FoundInactive
(* ... and the task stays over as long as it goes on, or is dispatched     *)
(* anew beside it.                                                         *)
FoundIsOver == FoundInactive => Over \/ raced
(* What a launch has made is there when the child starts.                  *)
CreatedIsThere == launch = "created" /\ Active => dir \/ raced

SweepInv == TypeOK /\ TakersFound /\ FoundIsOver /\ CreatedIsThere /\ LoopHasDirectory

(* A step that takes no directory away, makes no loop live and reactivates *)
(* no task keeps the two facts about the directory.                        *)
LEMMA DirectoryKept ==
  ASSUME SweepInv, dir => dir', raced' = raced, Active' => Active,
         \A r \in Runs : loop'[r] = "live" => loop[r] = "live",
         launch' = "created" => launch = "created"
  PROVE  CreatedIsThere' /\ LoopHasDirectory'
BY DEF SweepInv, CreatedIsThere, LoopHasDirectory

(* A step of the scan's rest leaves what it found.                         *)
LEMMA FoundKept ==
  ASSUME SweepInv, scan' = scan, raced' = raced, Over => Over'
  PROVE  TakersFound' /\ FoundIsOver'
BY DEF SweepInv, TakersFound, Takes, FoundIsOver, FoundInactive

(* A child of a task the plan still cares for keeps its directory through  *)
(* lapsing leases, finished leases of resumed runs, crashes and scans      *)
(* (executeScan of the sweeper, reclaimUnleased), unless it was dispatched *)
(* during a scan that had found the task inactive.                         *)
THEOREM WorkKeepsDirectory == Spec => []LoopHasDirectory
<1>1. Init => SweepInv
  <2> SUFFICES ASSUME Init PROVE SweepInv
    OBVIOUS
  <2>1. TypeOK
    BY InitTyped
  <2> QED
    BY <2>1 DEF Init, SweepInv, TakersFound, Takes, FoundIsOver, FoundInactive, NoScan,
                CreatedIsThere, LoopHasDirectory
<1>2. SweepInv /\ TypeOK' /\ [Next]_vars => SweepInv'
  <2> SUFFICES ASSUME SweepInv, TypeOK', [Next]_vars
               PROVE  TakersFound' /\ FoundIsOver' /\ CreatedIsThere' /\ LoopHasDirectory'
    BY DEF SweepInv
  <2>a. TypeOK /\ TakersFound /\ FoundIsOver /\ CreatedIsThere /\ LoopHasDirectory
    BY DEF SweepInv
  <2>1. CASE Dispatch
    <3>1. scan' = scan /\ raced' = FoundInactive
      BY <2>1 DEF Dispatch
    <3>2. TakersFound' /\ FoundIsOver'
      BY <2>a, <3>1 DEF TakersFound, Takes, FoundIsOver, FoundInactive
    <3>3. CreatedIsThere' /\ LoopHasDirectory'
      BY <2>1 DEF Dispatch, CreatedIsThere, LoopHasDirectory
    <3> QED BY <3>2, <3>3
  <2>2. CASE Launching
    <3>1. scan' = scan /\ raced' = raced /\ (Over => Over')
      BY <2>2 DEF history, Launching, WriteManifest, MakeDirectory, StartChild, Over
    <3>2. CreatedIsThere' /\ LoopHasDirectory'
      <4>1. CASE WriteManifest
        BY <4>1, <2>a DEF history, WriteManifest, Loaded, CreatedIsThere, LoopHasDirectory, Active
      <4>2. CASE MakeDirectory
        BY <4>2 DEF MakeDirectory, CreatedIsThere, LoopHasDirectory
      <4>3. CASE StartChild
        BY <4>3, <2>a DEF history, StartChild, CreatedIsThere, LoopHasDirectory, Active
      <4> QED BY <2>2, <4>1, <4>2, <4>3 DEF Launching
    <3> QED BY <3>1, <3>2, FoundKept
  <2>3. CASE CreateFails
    <3>1. scan' = scan /\ raced' = raced /\ Over' /\ ~Active'
      BY <2>3 DEF history, CreateFails, Over, Active
    <3> QED BY <3>1, FoundKept DEF CreatedIsThere, LoopHasDirectory
  <2>4. CASE Continue
    <3>1. scan' = scan /\ raced' = raced /\ ~Over
      BY <2>4 DEF history, Continue, Over
    <3>2. CreatedIsThere' /\ LoopHasDirectory'
      BY <2>4, <2>a DEF history, Continue, CreatedIsThere, LoopHasDirectory, Loaded, Active
    <3> QED BY <3>1, <3>2, FoundKept
  <2>5. CASE Report \/ Conclude \/ Forget
    <3>1. scan' = scan /\ raced' = raced /\ (Over => Over') /\ (Active' => Active)
      BY <2>5 DEF history, Report, Conclude, Forget, Over, Active
    <3>2. dir' = dir /\ loop' = loop /\ launch' = launch
      BY <2>5 DEF Report, Conclude, Forget, files
    <3> QED BY <3>1, <3>2, FoundKept, DirectoryKept
  <2>6. CASE CleanDirectory
    <3>1. scan' = scan /\ raced' = raced /\ Over' /\ ~Active'
      BY <2>6 DEF history, CleanDirectory, Over, Active, runs
    <3> QED BY <3>1, FoundKept DEF CreatedIsThere, LoopHasDirectory
  <2>7. CASE CleanSidecars \/ Time
    <3>1. scan' = scan /\ raced' = raced /\ dir' = dir /\ runs' = runs
      BY <2>7 DEF history, CleanSidecars, Time, LeaseLapses, RetentionEnds, FilesAge, RetryIsDue, files
    <3>2. task' = task /\ loop' = loop /\ launch' = launch
      BY <3>1 DEF runs
    <3>3. (Over => Over') /\ (Active' => Active)
      BY <3>2 DEF Over, Active
    <3> QED BY <3>1, <3>2, <3>3, FoundKept, DirectoryKept
  <2>8. ASSUME NEW r \in Runs, RunnerSteps(r) PROVE TakersFound' /\ FoundIsOver' /\ CreatedIsThere' /\ LoopHasDirectory'
    <3>1. scan' = scan /\ raced' = raced /\ dir' = dir /\ launch' = launch
      BY <2>8 DEF history, RunnerSteps, Watching, Heartbeat, LoopEnds, SettleExit, FinishLease, Terminate,
                  files, runs
    <3>2. (Over => Over') /\ (Active' => Active)
      BY <2>8 DEF RunnerSteps, Watching, Heartbeat, LoopEnds, SettleExit, FinishLease, Terminate,
                  runs, Over, Active
    <3>3. \A q \in Runs : loop'[q] = "live" => loop[q] = "live"
      BY <2>8, <2>a DEF RunnerSteps, Watching, Heartbeat, LoopEnds, SettleExit, FinishLease,
                  Terminate, runs, TypeOK, RunTypes
    <3> QED BY <3>1, <3>2, <3>3, FoundKept, DirectoryKept
  <2>9. CASE Scanning \/ RemovalFails \/ ScannerDies
    <3>1. task' = task /\ loop' = loop /\ launch' = launch /\ raced' = raced
      BY <2>9 DEF history, Scanning, Look, ReadLease, Preserve, BeginRemoval, BeginQuarantine,
         RemoveDirectory, RemoveManifest, RemoveLease, Complete, QuarantineDirectory,
         QuarantineManifest, QuarantineLease, PickUnleased, EndScan, Recheck, MoveUnleased,
         MoveSidecar, RemovalFails, ScannerDies, runs
    <3>2. Over' = Over /\ Active' = Active
      BY <3>1 DEF Over, Active
    <3>3. dir => dir' \/ Over \/ raced
      BY <2>9, <2>a DEF Scanning, Look, ReadLease, Preserve, BeginRemoval, BeginQuarantine,
         RemoveDirectory, RemoveManifest, RemoveLease, Complete, QuarantineDirectory,
         QuarantineManifest, QuarantineLease, PickUnleased, EndScan, Recheck, MoveUnleased,
         MoveSidecar, RemovalFails, ScannerDies, files, TakersFound, Takes, FoundIsOver
    <3>4. CreatedIsThere' /\ LoopHasDirectory'
      BY <3>1, <3>2, <3>3, <2>a DEF CreatedIsThere, LoopHasDirectory, Active, Over
    <3>5. TakersFound' /\ FoundIsOver'
      <4> USE DEF TakersFound, Takes, FoundIsOver, FoundInactive, Continues, NoScan
      <4>1. CASE Look
        <5>1. scan'.plan = PlanSays /\ scan'.at = "looked"
          BY <4>1, NothingTyped DEF Look, Scans, NoScan
        <5>2. PlanSays # "active" => Over
          BY <2>a DEF PlanSays, Active, Over, TypeOK, RunTypes, TaskStates
        <5> QED BY <5>1, <5>2, <3>2
      <4>2. CASE ReadLease \/ Preserve \/ BeginRemoval \/ BeginQuarantine
        BY <4>2, <3>1, <3>2, <2>a DEF ReadLease, Preserve, BeginRemoval, BeginQuarantine, Removable,
                                TypeOK, SweepTypes, Scans
      <4>3. CASE RemoveDirectory \/ RemoveManifest \/ RemoveLease \/ Complete \/ RemovalFails
        BY <4>3, <3>1, <3>2, <2>a DEF RemoveDirectory, RemoveManifest, RemoveLease, Complete,
                                RemovalFails, TypeOK, SweepTypes, Scans
      <4>4. CASE QuarantineDirectory \/ QuarantineManifest \/ QuarantineLease
        BY <4>4, <3>1, <3>2, <2>a DEF QuarantineDirectory, QuarantineManifest, QuarantineLease,
                                TypeOK, SweepTypes, Scans
      <4>5. CASE PickUnleased \/ EndScan \/ Recheck \/ ScannerDies
        <5>1. CASE PickUnleased
          <6>1. scan.plan # "active" /\ scan.at = "unleased"
            BY <5>1 DEF PickUnleased, Reclaimable
          <6>2. scan'.plan = scan.plan
            BY <5>1, <2>a DEF PickUnleased, TypeOK, SweepTypes, Scans
          <6>3. scan'.at = "checked"
            BY <5>1, <2>a DEF PickUnleased, TypeOK, SweepTypes, Scans
          <6> QED BY <6>1, <6>2, <6>3, <3>1, <3>2, <2>a
        <5>2. CASE Recheck
          <6>1. scan' = NoScan \/ (scan.at = "checked" /\ scan'.at = "moving" /\ scan'.plan = scan.plan)
            BY <5>2, <2>a DEF Recheck, TypeOK, SweepTypes, Scans
          <6> QED BY <6>1, <3>1, <3>2, <2>a
        <5>3. CASE EndScan \/ ScannerDies
          BY <5>3 DEF EndScan, ScannerDies
        <5> QED BY <4>5, <5>1, <5>2, <5>3
      <4>6. CASE MoveUnleased \/ MoveSidecar
        BY <4>6, <3>1, <3>2, <2>a DEF MoveUnleased, MoveSidecar, TypeOK, SweepTypes, Scans
      <4> QED BY <2>9, <4>1, <4>2, <4>3, <4>4, <4>5, <4>6 DEF Scanning
    <3> QED BY <3>4, <3>5
  <2>10. CASE RunnerDies
    <3>1. scan' = scan /\ raced' = raced /\ (Over => Over') /\ (Active' => Active) /\ dir' = dir
      BY <2>10 DEF history, RunnerDies, Over, Active, files
    <3>2. launch' # "created" /\ \A r \in Runs : loop'[r] # "live"
      BY <2>10 DEF RunnerDies
    <3> QED BY <3>1, <3>2, FoundKept DEF CreatedIsThere, LoopHasDirectory
  <2>11. CASE UNCHANGED vars
    BY <2>11, FoundKept, DirectoryKept DEF vars, history, runs, files, Over, Active
  <2> QED
    BY <2>1, <2>2, <2>3, <2>4, <2>5, <2>6, <2>7, <2>8, <2>9, <2>10, <2>11
       DEF Next, RunnerSteps
<1>3. SweepInv => LoopHasDirectory
  BY DEF SweepInv
<1> QED
  BY <1>1, <1>2, <1>3, TypeCorrect, PTL DEF Spec
=============================================================================
