------------------------- MODULE PlanRecoveryProofs -------------------------
(***************************************************************************)
(* What PlanRecovery guarantees for any number of processes, dispatches,   *)
(* restarts and any length of leases and timeouts.                         *)
(***************************************************************************)
EXTENDS PlanRecovery, TLAPS

-----------------------------------------------------------------------------
(* The inductive invariant.                                                *)

(* Between its claim and the start of its loop a launch holds the row.     *)
Held == {"marking", "publishing", "starting"}
RowHeld(r, p, g) ==
  Activation!CasOk(r, p, g) /\ ~Activation!Settled(r) /\ r.lease > 0
HoldsRow(c, p, g) == RowHeld(activation[c], p, g)

RunningHold == \A l \in loops : l.at = "running" => HoldsRow(l.child, l.process, l.generation)
LaunchesHold ==
  \A p \in Processes : main[p].at \in Held => HoldsRow(main[p].child, p, main[p].generation)

(* What a stage knows of its run and its child.                            *)
StagesInv == \A p \in Processes :
  /\ main[p].at \in LaunchStages => main[p].run \in Runs
  /\ main[p].at \in Held \cup {"claiming", "terminating"} => main[p].child \in Runs
  /\ main[p].at = "creating" => main[p].child = NoChild

(* A run is dispatched by one call, which is over when its loop is there.  *)
RunsInv ==
  /\ \A p, q \in Processes : main[p].run # NoRun /\ main[p].run = main[q].run => p = q
  /\ \A p \in Processes : main[p].run <= runs
  /\ \A l \in loops : l.run <= runs /\ \A p \in Processes : main[p].run # l.run

(* Whatever names a child names one that has a row; the run of a launch    *)
(* that has yet to create its child has none.                              *)
RowsInv ==
  /\ task.child # NoChild => Activation!Exists(activation[task.child])
  /\ \A p \in Processes : main[p].child # NoChild => Activation!Exists(activation[main[p].child])
  /\ \A l \in loops : Activation!Exists(activation[l.child])
FreshInv ==
  /\ \A c \in Runs : c > runs => activation[c] = Activation!NoRow
  /\ \A p \in Processes : main[p].at \in {"preparing", "creating"} /\ main[p].child = NoChild
       => activation[main[p].run] = Activation!NoRow

(* An earlier loop of a child that is launched or runs again in the same   *)
(* process is not the current run's.                                       *)
OldLoops ==
  /\ \A p \in Processes, l \in loops :
       main[p].at \in Held \cup {"claiming"} /\ l.process = p /\ l.child = main[p].child
         => task.run # l.run
  /\ \A k, l \in loops : SameSession(k, l) /\ k.at = "running" /\ l.at = "ended"
       => task.run # l.run

Holds == RunningHold /\ LaunchesHold
Rest == StagesInv /\ RunsInv /\ RowsInv /\ FreshInv /\ OldLoops
RecInv == TypeOK /\ Holds /\ Rest
-----------------------------------------------------------------------------
(* Rows.                                                                   *)

MaybeRow == Activation!Row \cup {Activation!NoRow}

(* A row of the table is there exactly when its generation is not 0.       *)
LEMMA ExistsTyped ==
  ASSUME NEW r \in MaybeRow
  PROVE  /\ r.generation \in Nat /\ r.lease \in 0..LeaseTtl
         /\ Activation!Exists(r) <=> r \in Activation!Row
         /\ ~Activation!Exists(r) <=> r = Activation!NoRow
BY RecoveryAssumption DEF MaybeRow, Activation!Row, Activation!NoRow, Activation!Exists

(* A claim makes a row, and one its holder claims again it still holds.    *)
LEMMA ClaimedRow ==
  ASSUME NEW r \in MaybeRow, NEW o \in Processes, NEW run \in Runs
  PROVE  LET n == Activation!Claimed(r, o, run, LeaseTtl) IN
         /\ n \in Activation!Row
         /\ RowHeld(n, o, n.generation)
         /\ \A p, g : RowHeld(r, p, g) /\ Activation!CanClaim(r, o) => RowHeld(n, p, g)
<1> DEFINE n == Activation!Claimed(r, o, run, LeaseTtl)
<1>1. n \in Activation!Row
  BY ExistsTyped, RecoveryAssumption
  DEF Activation!Claimed, Activation!KeepsGeneration, Activation!Row, Activation!ActivationStates, MaybeRow
<1>2. RowHeld(n, o, n.generation)
  BY <1>1, RecoveryAssumption
  DEF Activation!Claimed, Activation!Row, RowHeld, Activation!CasOk, Activation!Settled, Activation!Exists
<1>3. ASSUME NEW p, NEW g, RowHeld(r, p, g), Activation!CanClaim(r, o) PROVE RowHeld(n, p, g)
  <2>1. p = o /\ Activation!Exists(r) /\ r.owner = o /\ ~Activation!Settled(r) /\ g = r.generation
    BY <1>3, ExistsTyped
    DEF RowHeld, Activation!CasOk, Activation!CanClaim, Activation!Reclaimable, Activation!Expired
  <2>2. n.generation = r.generation
    BY <2>1 DEF Activation!Claimed, Activation!KeepsGeneration
  <2>. QED BY <2>1, <2>2, <1>2
<1>. QED BY <1>1, <1>2, <1>3

(* Renewing a row and moving it to a state other than settled keeps it     *)
(* with its holder ...                                                     *)
LEMMA RenewedRow ==
  ASSUME NEW r \in Activation!Row
  PROVE  LET n == Activation!Renewed(r, LeaseTtl) IN
         n \in Activation!Row /\ \A p, g : RowHeld(r, p, g) => RowHeld(n, p, g)
BY RecoveryAssumption
DEF Activation!Renewed, Activation!Row, RowHeld, Activation!CasOk, Activation!Settled, Activation!Exists

LEMMA TransitionedRow ==
  ASSUME NEW r \in Activation!Row, NEW to \in Activation!ActivationStates
  PROVE  LET n == Activation!Transitioned(r, to, LeaseTtl) IN
         /\ n \in Activation!Row
         /\ \A p, g : RowHeld(r, p, g) /\ to # "settled" => RowHeld(n, p, g)
<1>1. Activation!Transitioned(r, to, LeaseTtl) \in Activation!Row
  <2>1. (IF to = "settled" THEN r.lease ELSE LeaseTtl) \in 0..LeaseTtl
    BY RecoveryAssumption DEF Activation!Row
  <2>. QED BY <2>1 DEF Activation!Transitioned, Activation!Row
<1>2. ASSUME NEW p, NEW g, RowHeld(r, p, g), to # "settled"
      PROVE  RowHeld(Activation!Transitioned(r, to, LeaseTtl), p, g)
  BY <1>2, RecoveryAssumption
  DEF Activation!Transitioned, Activation!Row, RowHeld, Activation!CasOk, Activation!Settled, Activation!Exists
<1>. QED BY <1>1, <1>2

(* ... and a takeover makes a row of a row.                                *)
LEMMA TakenOverRow ==
  ASSUME NEW r \in Activation!Row, NEW o \in Processes
  PROVE  Activation!TakenOver(r, o, LeaseTtl) \in Activation!Row
<1>1. r.generation + 1 \in Nat \ {0} /\ "starting" \in Activation!ActivationStates
  BY DEF Activation!Row, Activation!ActivationStates
<1>2. LeaseTtl \in 0..LeaseTtl
  BY RecoveryAssumption
<1>. QED BY <1>1, <1>2 DEF Activation!TakenOver, Activation!Row
-----------------------------------------------------------------------------
(* The table.                                                              *)

Table == [Runs -> MaybeRow]

(* No row of a child vanishes, and none appears but that of child new ...  *)
RowsStay(new) ==
  /\ activation' \in Table
  /\ \A c \in Runs : Activation!Exists(activation[c]) => Activation!Exists(activation'[c])
  /\ \A c \in Runs : activation[c] = Activation!NoRow /\ c # new => activation'[c] = Activation!NoRow

(* ... and who holds a row goes on holding it.                             *)
HoldsStay ==
  \A c \in Runs : \A p, g : RowHeld(activation[c], p, g) => RowHeld(activation'[c], p, g)

LEMMA RunsTyped == NoRun \notin Runs /\ NoChild \notin Runs /\ Runs \subseteq Nat
BY RecoveryAssumption DEF Runs, NoRun, NoChild

LEMMA SameRows ==
  ASSUME activation \in Table, UNCHANGED activation
  PROVE  RowsStay(NoChild) /\ HoldsStay
BY DEF RowsStay, HoldsStay

(* One row written over another.                                           *)
LEMMA RowWritten ==
  ASSUME activation \in Table, NEW c \in Runs, NEW r \in Activation!Row,
         activation' = [activation EXCEPT ![c] = r]
  PROVE  /\ RowsStay(c) /\ activation'[c] = r
         /\ \A d \in Runs \ {c} : activation'[d] = activation[d]
         /\ Activation!Exists(activation[c]) => RowsStay(NoChild)
<1>1. /\ activation' \in Table /\ activation'[c] = r
      /\ \A d \in Runs \ {c} : activation'[d] = activation[d]
  BY DEF Table, MaybeRow
<1>2. Activation!Exists(r) /\ activation[c] \in MaybeRow
  BY ExistsTyped DEF MaybeRow, Table
<1>3. Activation!Exists(activation[c]) => activation[c] # Activation!NoRow
  BY DEF Activation!Exists, Activation!NoRow
<1>. QED BY <1>1, <1>2, <1>3 DEF RowsStay

(* A fenced transition keeps every row, and everybody who holds one but    *)
(* the process that settles its own.                                       *)
LEMMA FencedMove ==
  ASSUME activation \in Table, NEW p \in Processes, NEW c \in Runs \cup {NoChild}, NEW g \in Nat,
         NEW to \in Activation!ActivationStates, Fenced(p, c, g, to), Moved(c, g, to)
  PROVE  /\ RowsStay(NoChild)
         /\ to # "settled" => HoldsStay
         /\ \A d \in Runs : \A q, h : RowHeld(activation[d], q, h) =>
              RowHeld(activation'[d], q, h) \/ (d = c /\ q = p)
<1>1. CASE Unfenced(c, g)
  BY <1>1, SameRows DEF Moved, HoldsStay
<1>2. CASE ~Unfenced(c, g)
  <2> DEFINE r == Activation!Transitioned(activation[c], to, LeaseTtl)
  <2>1. c \in Runs /\ Activation!CasOk(activation[c], p, g)
    BY <1>2 DEF Unfenced, Fenced
  <2>2. activation[c] \in Activation!Row
    BY <2>1, ExistsTyped DEF Activation!CasOk, Table
  <2>3. /\ r \in Activation!Row
        /\ \A q, h : RowHeld(activation[c], q, h) /\ to # "settled" => RowHeld(r, q, h)
    BY <2>2, TransitionedRow
  <2>4. activation' = [activation EXCEPT ![c] = r]
    BY <1>2 DEF Moved
  <2>5. /\ RowsStay(NoChild) /\ activation'[c] = r
        /\ \A d \in Runs \ {c} : activation'[d] = activation[d]
    BY <2>1, <2>3, <2>4, RowWritten DEF Activation!CasOk
  <2>6. \A q, h : RowHeld(activation[c], q, h) => q = p
    BY <2>1 DEF RowHeld, Activation!CasOk
  <2>. HIDE DEF r
  <2>. QED BY <2>3, <2>5, <2>6 DEF HoldsStay
<1>. QED BY <1>1, <1>2

LEMMA FencedRenew ==
  ASSUME activation \in Table, NEW p \in Processes, NEW c \in Runs \cup {NoChild}, NEW g \in Nat,
         NEW to, Fenced(p, c, g, to), Renew(c, g)
  PROVE  RowsStay(NoChild) /\ HoldsStay
<1>1. CASE Unfenced(c, g)
  BY <1>1, SameRows DEF Renew
<1>2. CASE ~Unfenced(c, g)
  <2> DEFINE r == Activation!Renewed(activation[c], LeaseTtl)
  <2>1. c \in Runs /\ Activation!CasOk(activation[c], p, g)
    BY <1>2 DEF Unfenced, Fenced
  <2>2. activation[c] \in Activation!Row
    BY <2>1, ExistsTyped DEF Activation!CasOk, Table
  <2>3. r \in Activation!Row /\ \A q, h : RowHeld(activation[c], q, h) => RowHeld(r, q, h)
    BY <2>2, RenewedRow
  <2>4. activation' = [activation EXCEPT ![c] = r]
    BY <1>2 DEF Renew
  <2>5. /\ RowsStay(NoChild) /\ activation'[c] = r
        /\ \A d \in Runs \ {c} : activation'[d] = activation[d]
    BY <2>1, <2>3, <2>4, RowWritten DEF Activation!CasOk
  <2>. HIDE DEF r
  <2>. QED BY <2>3, <2>5 DEF HoldsStay
<1>. QED BY <1>1, <1>2
-----------------------------------------------------------------------------
(* What the processes are doing.                                           *)

Alone(p) == main' \in [Processes -> Mains] /\ \A q \in Processes \ {p} : main'[q] = main[q]

LEMMA GoesTyped ==
  ASSUME main \in [Processes -> Mains], NEW p \in Processes, NEW stage \in Stages, Goes(p, stage)
  PROVE  /\ Alone(p) /\ main'[p].at = stage /\ main'[p].run = main[p].run
         /\ main'[p].child = main[p].child /\ main'[p].generation = main[p].generation
<1>1. main[p] \in Mains /\ [main[p] EXCEPT !.at = stage] \in Mains
  BY DEF Mains
<1>2. main' = [main EXCEPT ![p] = [main[p] EXCEPT !.at = stage]]
  BY DEF Goes
<1>3. Alone(p) /\ main'[p] = [main[p] EXCEPT !.at = stage]
  BY <1>1, <1>2 DEF Alone
<1>. QED BY <1>1, <1>3 DEF Mains

LEMMA AtTyped ==
  ASSUME NEW stage \in Stages
  PROVE  /\ At(stage) \in Mains /\ At(stage).at = stage
         /\ At(stage).run = NoRun /\ At(stage).child = NoChild
<1>1. NoTask \in Tasks
  BY RecoveryAssumption DEF NoTask, Tasks, Statuses, Lifecycles
<1>. QED BY <1>1 DEF At, Mains

LEMMA SetTyped ==
  ASSUME main \in [Processes -> Mains], NEW p \in Processes, NEW m \in Mains,
         main' = [main EXCEPT ![p] = m]
  PROVE  Alone(p) /\ main'[p] = m
BY DEF Alone

LEMMA ReadyTyped ==
  ASSUME main \in [Processes -> Mains], NEW p \in Processes, Ready(p)
  PROVE  /\ Alone(p) /\ main'[p].at = "ready"
         /\ main'[p].run = NoRun /\ main'[p].child = NoChild
<1>1. "ready" \in Stages
  BY DEF Stages
<1>. QED BY <1>1, AtTyped, SetTyped DEF Ready
-----------------------------------------------------------------------------
(* Steps that dispatch nothing new.                                        *)

Free(p) == main[p].at \notin Held \cup {"claiming", "preparing", "creating"}

(* A process that stays where it is, or is not launching afterwards.       *)
CalmStep(p) ==
  \/ main'[p] = main[p]
  \/ /\ main'[p].at \notin Held \cup {"claiming", "preparing", "creating"}
     /\ main'[p].run \in {NoRun, main[p].run}
     /\ main'[p].child # NoChild => Activation!Exists(activation'[main'[p].child])
     /\ main'[p].at \in LaunchStages => main'[p].run \in Runs
     /\ main'[p].at = "terminating" => main'[p].child \in Runs

(* No loop begins.                                                         *)
Older(l, k) ==
  /\ l.process = k.process /\ l.run = k.run /\ l.child = k.child /\ l.generation = k.generation
  /\ l.at = "running" => k.at = "running"
NoNewLoop == \A l \in loops' : \E k \in loops : Older(l, k)

(* The task stays the run's it is.                                         *)
SameRun ==
  /\ task'.run = task.run /\ runs' = runs
  /\ task'.child # NoChild => Activation!Exists(activation'[task'.child])

OthersOld ==
  \A k, l \in loops' : SameSession(k, l) /\ k.at = "running" /\ l.at = "ended" => task'.run # l.run

(* No launch begins to hold a row.                                         *)
HeldStep(p) == main'[p] = main[p] \/ main'[p].at \notin Held

LEMMA CalmHolds ==
  ASSUME TypeOK, TypeOK', RunningHold, LaunchesHold, StagesInv, HoldsStay,
         \A p \in Processes : HeldStep(p), NoNewLoop
  PROVE  RunningHold' /\ LaunchesHold'
<1>1. ASSUME NEW l \in loops', l.at = "running" PROVE HoldsRow(l.child, l.process, l.generation)'
  <2>1. PICK k \in loops : Older(l, k)
    BY DEF NoNewLoop
  <2>2. RowHeld(activation[k.child], k.process, k.generation) /\ k.child \in Runs
    BY <1>1, <2>1 DEF RunningHold, HoldsRow, Older, TypeOK, Loops
  <2>. QED BY <2>1, <2>2 DEF HoldsStay, HoldsRow, Older
<1>2. ASSUME NEW p \in Processes, main'[p].at \in Held
      PROVE  HoldsRow(main[p].child, p, main[p].generation)'
  <2>1. main'[p] = main[p]
    BY <1>2 DEF HeldStep
  <2>2. RowHeld(activation[main[p].child], p, main[p].generation) /\ main[p].child \in Runs
    BY <1>2, <2>1 DEF LaunchesHold, HoldsRow, StagesInv
  <2>. QED BY <2>1, <2>2 DEF HoldsStay, HoldsRow
<1>. QED BY <1>1, <1>2 DEF RunningHold, LaunchesHold

LEMMA CalmStages ==
  ASSUME StagesInv, \A p \in Processes : CalmStep(p)
  PROVE  StagesInv'
<1> SUFFICES ASSUME NEW p \in Processes
             PROVE  /\ main'[p].at \in LaunchStages => main'[p].run \in Runs
                    /\ main'[p].at \in Held \cup {"claiming", "terminating"} => main'[p].child \in Runs
                    /\ main'[p].at = "creating" => main'[p].child = NoChild
  BY DEF StagesInv
<1>1. CalmStep(p)
  OBVIOUS
<1>. QED BY <1>1 DEF CalmStep, StagesInv, Held

LEMMA CalmRuns ==
  ASSUME TypeOK, TypeOK', RunsInv, \A p \in Processes : CalmStep(p), NoNewLoop, SameRun
  PROVE  RunsInv'
<1>1. \A p \in Processes : main'[p].run \in {NoRun, main[p].run}
  BY DEF CalmStep
<1>2. \A p, q \in Processes : main'[p].run # NoRun /\ main'[p].run = main'[q].run => p = q
  BY <1>1 DEF RunsInv
<1>3. \A p \in Processes : main'[p].run <= runs'
  BY <1>1, RunsTyped DEF RunsInv, SameRun, TypeOK, NoRun
<1>4. ASSUME NEW l \in loops', NEW p \in Processes PROVE l.run <= runs' /\ main'[p].run # l.run
  <2>1. PICK k \in loops : Older(l, k)
    BY DEF NoNewLoop
  <2>2. l.run = k.run /\ k.run \in Runs
    BY <2>1 DEF Older, TypeOK, Loops
  <2>. QED BY <1>1, <2>2, RunsTyped DEF RunsInv, SameRun
<1>5. \A l \in loops' : l.run <= runs'
  <2>1. SUFFICES ASSUME NEW l \in loops' PROVE l.run <= runs'
    OBVIOUS
  <2>2. PICK k \in loops : Older(l, k)
    BY DEF NoNewLoop
  <2>. QED BY <2>2 DEF Older, RunsInv, SameRun
<1>. QED BY <1>2, <1>3, <1>4, <1>5 DEF RunsInv

LEMMA CalmRows ==
  ASSUME TypeOK, TypeOK', StagesInv, RowsInv, FreshInv, RowsStay(NoChild),
         \A p \in Processes : CalmStep(p), NoNewLoop, SameRun
  PROVE  RowsInv' /\ FreshInv'
<1>1. ASSUME NEW p \in Processes, main'[p].child # NoChild
      PROVE  Activation!Exists(activation'[main'[p].child])
  <2>1. CASE main'[p] = main[p]
    <3>1. main[p].child \in Runs
      BY <1>1, <2>1 DEF TypeOK, Mains
    <3>. QED BY <1>1, <2>1, <3>1 DEF RowsInv, RowsStay
  <2>2. CASE main'[p] # main[p]
    BY <1>1, <2>2 DEF CalmStep
  <2>. QED BY <2>1, <2>2
<1>2. ASSUME NEW l \in loops' PROVE Activation!Exists(activation'[l.child])
  <2>1. PICK k \in loops : Older(l, k)
    BY DEF NoNewLoop
  <2>2. l.child = k.child /\ k.child \in Runs
    BY <2>1 DEF Older, TypeOK, Loops
  <2>. QED BY <2>2 DEF RowsInv, RowsStay
<1>3. \A c \in Runs : c > runs' => activation'[c] = Activation!NoRow
  BY RunsTyped DEF FreshInv, RowsStay, SameRun
<1>4. ASSUME NEW p \in Processes, main'[p].at \in {"preparing", "creating"}, main'[p].child = NoChild
      PROVE  activation'[main'[p].run] = Activation!NoRow
  <2>1. main'[p] = main[p]
    BY <1>4 DEF CalmStep
  <2>2. activation[main[p].run] = Activation!NoRow
    BY <1>4, <2>1 DEF FreshInv
  <2>3. main[p].run \in Runs /\ NoChild \notin Runs
    BY <1>4, <2>1, RunsTyped DEF StagesInv, LaunchStages
  <2>. QED BY <2>1, <2>2, <2>3 DEF RowsStay
<1>. QED BY <1>1, <1>2, <1>3, <1>4 DEF RowsInv, FreshInv, SameRun

LEMMA CalmOld ==
  ASSUME OldLoops, \A p \in Processes : CalmStep(p), NoNewLoop, SameRun, OthersOld
  PROVE  OldLoops'
<1>1. ASSUME NEW p \in Processes, NEW l \in loops',
             main'[p].at \in Held \cup {"claiming"}, l.process = p, l.child = main'[p].child
      PROVE  task'.run # l.run
  <2>1. main'[p] = main[p]
    BY <1>1 DEF CalmStep
  <2>2. PICK k \in loops : Older(l, k)
    BY DEF NoNewLoop
  <2>. QED BY <1>1, <2>1, <2>2 DEF OldLoops, Older, SameRun
<1>. QED BY <1>1 DEF OldLoops, OthersOld

CalmAll == (\A p \in Processes : CalmStep(p)) /\ NoNewLoop /\ SameRun /\ RowsStay(NoChild)

LEMMA CalmRest ==
  ASSUME TypeOK, TypeOK', Rest, CalmAll, OthersOld
  PROVE  Rest'
BY CalmStages, CalmRuns, CalmRows, CalmOld DEF Rest, CalmAll

(* As long as the loops stay as they are, no loop is an older one's.       *)
LEMMA SameLoops ==
  ASSUME OldLoops, UNCHANGED loops
  PROVE  NoNewLoop /\ (SameRun => OthersOld)
BY DEF OldLoops, NoNewLoop, OthersOld, SameRun, Older

(* A process by itself is calm when it is.                                 *)
LEMMA AloneCalm ==
  ASSUME NEW p \in Processes, Alone(p), CalmStep(p)
  PROVE  \A q \in Processes : CalmStep(q)
BY DEF Alone, CalmStep
-----------------------------------------------------------------------------
(* Types of what is written to the plan.                                   *)

LEMMA TaskTyped ==
  ASSUME NEW t \in Tasks
  PROVE  /\ \A s \in Statuses, l \in Lifecycles : [t EXCEPT !.status = s, !.lifecycle = l] \in Tasks
         /\ \A s \in Statuses : [t EXCEPT !.status = s] \in Tasks
         /\ \A s \in Statuses : [t EXCEPT !.status = s, !.feedback = TRUE] \in Tasks
         /\ \A s \in Statuses : [t EXCEPT !.status = s, !.cancelled = TRUE] \in Tasks
         /\ \A g \in Nat, l \in Lifecycles : [t EXCEPT !.generation = g, !.lifecycle = l] \in Tasks
         /\ \A c \in Runs \cup {NoChild}, g \in Nat, l \in Lifecycles :
              [t EXCEPT !.child = c, !.generation = g, !.lifecycle = l] \in Tasks
         /\ \A s \in Statuses, g \in Nat, l \in Lifecycles :
              [t EXCEPT !.status = s, !.lifecycle = l, !.generation = g] \in Tasks
         /\ \A y \in 0..StartingTimeout : [t EXCEPT !.young = y] \in Tasks
         /\ [t EXCEPT !.merged = TRUE] \in Tasks
<1>. USE DEF Tasks
<1>1. \A s \in Statuses, l \in Lifecycles : [t EXCEPT !.status = s, !.lifecycle = l] \in Tasks
  OBVIOUS
<1>2. \A s \in Statuses : [t EXCEPT !.status = s] \in Tasks
  OBVIOUS
<1>3. \A s \in Statuses : [t EXCEPT !.status = s, !.feedback = TRUE] \in Tasks
  OBVIOUS
<1>4. \A s \in Statuses : [t EXCEPT !.status = s, !.cancelled = TRUE] \in Tasks
  OBVIOUS
<1>5. \A g \in Nat, l \in Lifecycles : [t EXCEPT !.generation = g, !.lifecycle = l] \in Tasks
  OBVIOUS
<1>6. \A c \in Runs \cup {NoChild}, g \in Nat, l \in Lifecycles :
        [t EXCEPT !.child = c, !.generation = g, !.lifecycle = l] \in Tasks
  OBVIOUS
<1>7. \A s \in Statuses, g \in Nat, l \in Lifecycles :
        [t EXCEPT !.status = s, !.lifecycle = l, !.generation = g] \in Tasks
  OBVIOUS
<1>8. \A y \in 0..StartingTimeout : [t EXCEPT !.young = y] \in Tasks
  OBVIOUS
<1>9. [t EXCEPT !.merged = TRUE] \in Tasks
  OBVIOUS
<1>. QED BY <1>1, <1>2, <1>3, <1>4, <1>5, <1>6, <1>7, <1>8, <1>9

LEMMA CommittedTyped ==
  ASSUME NEW t \in Tasks, NEW r \in Runs, NEW c \in Runs \cup {NoChild}
  PROVE  [t EXCEPT !.status = "dispatched", !.run = r, !.child = c, !.generation = 0,
                   !.lifecycle = "reserved", !.cancelled = FALSE,
                   !.young = StartingTimeout, !.merged = FALSE] \in Tasks
<1>1. StartingTimeout \in 0..StartingTimeout
  BY RecoveryAssumption
<1>. QED BY <1>1 DEF Tasks, Statuses, Lifecycles
-----------------------------------------------------------------------------
(* Every step keeps the invariant.                                         *)

LEMMA CalmInv ==
  ASSUME RecInv, TypeOK', CalmAll, OthersOld, HoldsStay
  PROVE  RecInv'
<1>1. \A p \in Processes : HeldStep(p)
  BY DEF HeldStep, CalmStep, CalmAll
<1>. QED BY <1>1, CalmRest, CalmHolds DEF RecInv, Holds, Rest, CalmAll

(* ... those of a process that touches no loop and leaves the run be.      *)
LEMMA AloneInv ==
  ASSUME RecInv, NEW p \in Processes, TypeOK', Alone(p), CalmStep(p), SameRun,
         RowsStay(NoChild), HoldsStay, UNCHANGED loops
  PROVE  RecInv'
<1>1. CalmAll /\ OthersOld
  BY AloneCalm, SameLoops DEF CalmAll, RecInv, Rest
<1>. QED BY <1>1, CalmInv

LEMMA StagesTyped ==
  /\ Held \subseteq LaunchStages /\ LaunchStages \subseteq Stages
  /\ RecoveryStages \subseteq Stages /\ CancelStages \subseteq Stages
  /\ {"new", "ready", "off"} \subseteq Stages
BY DEF Held, LaunchStages, Stages, RecoveryStages, CancelStages

LEMMA TypesOf ==
  ASSUME TypeOK
  PROVE  /\ activation \in Table /\ main \in [Processes -> Mains] /\ task \in Tasks
         /\ task.child \in Runs \cup {NoChild} /\ task.generation \in Nat
         /\ \A p \in Processes : /\ main[p].run \in Runs \cup {NoRun}
                                 /\ main[p].child \in Runs \cup {NoChild}
                                 /\ main[p].generation \in Nat
                                 /\ main[p].seen \in Tasks
                                 /\ main[p].seen.child \in Runs \cup {NoChild}
BY DEF TypeOK, Table, MaybeRow, Tasks, Mains

LEMMA OpenKeeps ==
  ASSUME RecInv, NEW p \in Processes, Open(p)
  PROVE  RecInv'
<1>1. TypeOK
  BY DEF RecInv
<1>2. /\ Alone(p) /\ main'[p].at = "new" /\ main'[p].run = main[p].run
      /\ main'[p].child = main[p].child
  BY <1>1, TypesOf, StagesTyped, GoesTyped DEF Open
<1>3. RowsStay(NoChild) /\ HoldsStay
  BY <1>1, TypesOf, SameRows DEF Open
<1>4. TypeOK'
  <2>1. process' \in [Processes -> {"off", "up", "gone"}] /\ shared' \in BOOLEAN
    BY <1>1 DEF Open, TypeOK
  <2>. QED BY <1>1, <1>2, <2>1 DEF Open, TypeOK, Alone
<1>5. CalmStep(p)
  BY <1>1, <1>2, TypesOf DEF CalmStep, Held, LaunchStages, RecInv, Rest, RowsInv, Open
<1>6. SameRun
  BY <1>1, <1>2, <1>3, TypesOf DEF SameRun, Open, RowsStay, RecInv, Rest, RowsInv
<1>. QED BY <1>2, <1>3, <1>4, <1>5, <1>6, AloneInv DEF Open

LEMMA ReadPlanKeeps ==
  ASSUME RecInv, NEW p \in Processes, ReadPlan(p)
  PROVE  RecInv'
<1>1. TypeOK
  BY DEF RecInv
<1>2. Alone(p) /\ main'[p].at \in {"judging", "ready"} /\ main'[p].run = NoRun /\ main'[p].child = NoChild
  <2> DEFINE m == IF Dispatched THEN [At("judging") EXCEPT !.seen = task] ELSE At("ready")
  <2>1. At("ready") \in Mains /\ At("judging") \in Mains
    BY AtTyped, StagesTyped DEF RecoveryStages
  <2>2. [At("judging") EXCEPT !.seen = task] \in Mains
    BY <1>1, <2>1, TypesOf DEF Mains
  <2>3. m \in Mains /\ m.at \in {"judging", "ready"} /\ m.run = NoRun /\ m.child = NoChild
    BY <2>1, <2>2 DEF At
  <2>4. main' = [main EXCEPT ![p] = m]
    BY DEF ReadPlan
  <2>. HIDE DEF m
  <2>. QED BY <1>1, <2>3, <2>4, SetTyped, TypesOf
<1>3. RowsStay(NoChild) /\ HoldsStay
  BY <1>1, TypesOf, SameRows DEF ReadPlan
<1>4. TypeOK'
  BY <1>1, <1>2 DEF ReadPlan, TypeOK, Alone
<1>5. CalmStep(p)
  BY <1>2 DEF CalmStep, Held, LaunchStages
<1>6. SameRun
  BY <1>1, <1>3, TypesOf DEF SameRun, ReadPlan, RowsStay, RecInv, Rest, RowsInv
<1>. QED BY <1>2, <1>3, <1>4, <1>5, <1>6, AloneInv DEF ReadPlan

(* What recovery decides changes nothing yet.                              *)
LEMMA JudgeKeeps ==
  ASSUME RecInv, NEW p \in Processes, Judge(p)
  PROVE  RecInv'
<1>1. /\ TypeOK /\ activation \in Table /\ main \in [Processes -> Mains]
      /\ UNCHANGED activation
  BY TypesOf DEF RecInv, Judge
<1>2. CASE Ready(p)
  <2>1. Alone(p) /\ main'[p].at = "ready" /\ main'[p].run = NoRun /\ main'[p].child = NoChild
    BY <1>1, <1>2, ReadyTyped
  <2>2. RowsStay(NoChild) /\ HoldsStay
    BY <1>1, <1>2, SameRows
  <2>3. TypeOK' /\ CalmStep(p)
    BY <1>1, <1>2, <2>1 DEF Judge, TypeOK, Alone, CalmStep, Held, LaunchStages
  <2>4. SameRun
    BY <1>1, <2>2, TypesOf DEF SameRun, Judge, RowsStay, RecInv, Rest, RowsInv
  <2>. QED BY <2>1, <2>2, <2>3, <2>4, AloneInv DEF Judge
<1>3. CASE Goes(p, "taking") \/ Goes(p, "rejecting")
  <2>1. /\ Alone(p) /\ main'[p].at \in {"taking", "rejecting"} /\ main'[p].run = main[p].run
        /\ main'[p].child = main[p].child
    BY <1>1, <1>3, GoesTyped, StagesTyped DEF RecoveryStages
  <2>2. RowsStay(NoChild) /\ HoldsStay
    BY <1>1, <1>3, SameRows
  <2>3. TypeOK'
    BY <1>1, <1>3, <2>1 DEF Judge, TypeOK, Alone
  <2>4. SameRun /\ CalmStep(p)
    BY <1>1, <2>1, <2>2, TypesOf
    DEF SameRun, Judge, RowsStay, RecInv, Rest, RowsInv, CalmStep, Held, LaunchStages
  <2>. QED BY <2>1, <2>2, <2>3, <2>4, AloneInv DEF Judge
<1>. QED BY <1>2, <1>3 DEF Judge

(* Taking over a row needs its lease to be over: nobody holds it.          *)
LEMMA TakeOverKeeps ==
  ASSUME RecInv, NEW p \in Processes, TakeOver(p)
  PROVE  RecInv'
<1> DEFINE seen == main[p].seen
<1>1. TypeOK /\ activation \in Table /\ main \in [Processes -> Mains]
  BY TypesOf DEF RecInv
<1>3. CASE Goes(p, "rejecting") /\ UNCHANGED activation
  <2>1. /\ Alone(p) /\ main'[p].at = "rejecting" /\ main'[p].run = main[p].run
        /\ main'[p].child = main[p].child
    BY <1>1, <1>3, GoesTyped, StagesTyped DEF RecoveryStages
  <2>2. RowsStay(NoChild) /\ HoldsStay
    BY <1>1, <1>3, SameRows
  <2>3. TypeOK'
    BY <1>1, <1>3, <2>1 DEF TakeOver, TypeOK, Alone
  <2>4. SameRun /\ CalmStep(p)
    BY <1>1, <2>1, <2>2, TypesOf
    DEF SameRun, TakeOver, RowsStay, RecInv, Rest, RowsInv, CalmStep, Held, LaunchStages
  <2>. QED BY <2>1, <2>2, <2>3, <2>4, AloneInv DEF TakeOver
<1>4. CASE /\ Activation!CanTakeOver(RowOf(seen.child))
           /\ activation' = [activation EXCEPT ![seen.child] = Activation!TakenOver(@, p, LeaseTtl)]
           /\ main' = [main EXCEPT ![p].at = "recording", ![p].child = seen.child,
                                   ![p].generation = activation'[seen.child].generation]
  <2> DEFINE r == Activation!TakenOver(activation[seen.child], p, LeaseTtl)
  <2>1. /\ seen.child \in Runs /\ Activation!Exists(activation[seen.child])
        /\ Activation!Reclaimable(activation[seen.child])
    BY <1>1, <1>4, TypesOf DEF Activation!CanTakeOver, RowOf, Activation!Exists, Activation!NoRow
  <2>2. activation[seen.child] \in Activation!Row
    BY <1>1, <2>1, ExistsTyped DEF Table
  <2>3. r \in Activation!Row
    BY <2>2, TakenOverRow
  <2>4. activation' = [activation EXCEPT ![seen.child] = r]
    BY <1>4
  <2> HIDE DEF r, seen
  <2>5. /\ RowsStay(NoChild) /\ activation'[seen.child] = r
        /\ \A d \in Runs \ {seen.child} : activation'[d] = activation[d]
    BY <1>1, <2>1, <2>3, <2>4, RowWritten
  <2>6. HoldsStay
    BY <2>1, <2>5 DEF HoldsStay, RowHeld, Activation!Reclaimable, Activation!Expired
  <2>7. "recording" \in Stages /\ activation'[seen.child].generation \in Nat
    BY <2>3, <2>5, StagesTyped DEF RecoveryStages, Activation!Row
  <2>8. main' = [main EXCEPT ![p].at = "recording", ![p].child = seen.child,
                             ![p].generation = activation'[seen.child].generation]
    BY <1>4 DEF seen
  <2>9. /\ Alone(p) /\ main'[p].at = "recording" /\ main'[p].child = seen.child
        /\ main'[p].run = main[p].run
    BY <1>1, <2>1, <2>7, <2>8 DEF Alone, Mains
  <2>10. TypeOK'
    BY <1>1, <2>5, <2>9 DEF TakeOver, TypeOK, Alone, RowsStay, Table, MaybeRow
  <2>11. Activation!Exists(r)
    BY <2>3 DEF Activation!Row, Activation!Exists
  <2>12. CalmStep(p)
    BY <2>5, <2>9, <2>11 DEF CalmStep, Held, LaunchStages
  <2>13. SameRun
    BY <1>1, <2>5, TypesOf DEF SameRun, TakeOver, RowsStay, RecInv, Rest, RowsInv
  <2>. QED BY <2>5, <2>6, <2>9, <2>10, <2>12, <2>13, AloneInv DEF TakeOver
<1>. QED BY <1>3, <1>4 DEF TakeOver

(* A write by recovery changes neither the run nor the child of the task.  *)
LEMMA RecordTakeoverKeeps ==
  ASSUME RecInv, NEW p \in Processes, RecordTakeover(p)
  PROVE  RecInv'
<1>1. TypeOK /\ activation \in Table /\ main \in [Processes -> Mains] /\ task \in Tasks
  BY TypesOf DEF RecInv
<1>2. task' \in Tasks /\ task'.run = task.run /\ task'.child = task.child
  <2>1. "starting" \in Lifecycles /\ main[p].generation \in Nat
    BY <1>1, TypesOf DEF Lifecycles
  <2>2. [task EXCEPT !.generation = main[p].generation, !.lifecycle = "starting"] \in Tasks
    BY <1>1, <2>1, TaskTyped
  <2>3. CASE UNCHANGED task
    BY <1>1, <2>3
  <2>4. CASE task' = [task EXCEPT !.generation = main[p].generation, !.lifecycle = "starting"]
    BY <1>1, <2>2, <2>4 DEF Tasks
  <2>. QED BY <2>3, <2>4 DEF RecordTakeover, TakeoverRecorded
<1>3. /\ Alone(p) /\ main'[p].at \in {"checking", "rejecting"} /\ main'[p].run = main[p].run
      /\ main'[p].child = main[p].child
  <2>1. "checking" \in Stages /\ "rejecting" \in Stages
    BY StagesTyped DEF RecoveryStages
  <2>. QED BY <1>1, <2>1, GoesTyped DEF RecordTakeover
<1>4. RowsStay(NoChild) /\ HoldsStay
  BY <1>1, SameRows DEF RecordTakeover
<1>5. TypeOK'
  BY <1>1, <1>2, <1>3 DEF RecordTakeover, TypeOK, Alone
<1>6. SameRun /\ CalmStep(p)
  BY <1>1, <1>2, <1>3, <1>4, TypesOf
  DEF SameRun, RecordTakeover, RowsStay, RecInv, Rest, RowsInv, CalmStep, Held, LaunchStages
<1>. QED BY <1>3, <1>4, <1>5, <1>6, AloneInv DEF RecordTakeover

LEMMA CheckChildKeeps ==
  ASSUME RecInv, NEW p \in Processes, CheckChild(p)
  PROVE  RecInv'
<1>1. TypeOK /\ activation \in Table /\ main \in [Processes -> Mains]
  BY TypesOf DEF RecInv
<1>2. /\ Alone(p) /\ main'[p].at \in {"ready", "rejecting"} /\ main'[p].run \in {NoRun, main[p].run}
      /\ main'[p].child \in {NoChild, main[p].child}
  <2>1. "rejecting" \in Stages
    BY StagesTyped DEF RecoveryStages
  <2>2. Ready(p) \/ Goes(p, "rejecting")
    BY DEF CheckChild
  <2>3. CASE Ready(p)
    BY <1>1, <2>3, ReadyTyped
  <2>4. CASE Goes(p, "rejecting")
    BY <1>1, <2>1, <2>4, GoesTyped
  <2>. QED BY <2>2, <2>3, <2>4
<1>3. RowsStay(NoChild) /\ HoldsStay
  <2>1. CASE UNCHANGED activation
    BY <1>1, <2>1, SameRows
  <2>2. CASE /\ Fenced(p, main[p].child, main[p].generation, "running")
             /\ Moved(main[p].child, main[p].generation, "running")
    BY <1>1, <2>2, TypesOf, FencedMove DEF Activation!ActivationStates
  <2>. QED BY <2>1, <2>2 DEF CheckChild
<1>4. TypeOK'
  BY <1>1, <1>2, <1>3 DEF CheckChild, TypeOK, Alone, RowsStay, Table, MaybeRow
<1>5. SameRun /\ CalmStep(p)
  BY <1>1, <1>2, <1>3, TypesOf
  DEF SameRun, CheckChild, RowsStay, RecInv, Rest, RowsInv, CalmStep, Held, LaunchStages
<1>. QED BY <1>2, <1>3, <1>4, <1>5, AloneInv DEF CheckChild

LEMMA RejectKeeps ==
  ASSUME RecInv, NEW p \in Processes, Reject(p)
  PROVE  RecInv'
<1>1. TypeOK /\ activation \in Table /\ main \in [Processes -> Mains] /\ task \in Tasks
  BY TypesOf DEF RecInv
<1>2. task' \in Tasks /\ task'.run = task.run /\ task'.child = task.child
  <2> DEFINE l == IF Dispatched THEN "settled" ELSE task.lifecycle
  <2>1. l \in Lifecycles /\ "rejected" \in Statuses
    BY <1>1 DEF Lifecycles, Statuses, Tasks
  <2>2. CASE UNCHANGED task
    BY <1>1, <2>2
  <2>3. CASE task' = [task EXCEPT !.status = "rejected", !.lifecycle = l]
    <3>. HIDE DEF l
    <3>1. task' \in Tasks
      BY <1>1, <2>1, <2>3, TaskTyped
    <3>. QED BY <1>1, <2>3, <3>1 DEF Tasks
  <2>. QED BY <2>2, <2>3 DEF Reject
<1>3. Alone(p) /\ main'[p].at = "ready" /\ main'[p].run = NoRun /\ main'[p].child = NoChild
  BY <1>1, ReadyTyped DEF Reject
<1>4. RowsStay(NoChild) /\ HoldsStay
  BY <1>1, SameRows DEF Reject
<1>5. TypeOK'
  BY <1>1, <1>2, <1>3 DEF Reject, TypeOK, Alone
<1>6. SameRun /\ CalmStep(p)
  BY <1>1, <1>2, <1>3, <1>4, TypesOf
  DEF SameRun, Reject, RowsStay, RecInv, Rest, RowsInv, CalmStep, Held, LaunchStages
<1>. QED BY <1>3, <1>4, <1>5, <1>6, AloneInv DEF Reject

(* What the main agent does to a task without dispatching it.              *)
SameChild == task' \in Tasks /\ task'.run = task.run /\ task'.child = task.child

LEMMA ReviewKeeps ==
  ASSUME RecInv, NEW p \in Processes, Approve(p) \/ Reopen(p) \/ Merge(p)
  PROVE  RecInv'
<1>1. TypeOK /\ activation \in Table /\ main \in [Processes -> Mains] /\ task \in Tasks
  BY TypesOf DEF RecInv
<1>2. SameChild
  <2>1. "approved" \in Statuses /\ "pending" \in Statuses
    BY DEF Statuses
  <2>2. task' \in Tasks
    BY <1>1, <2>1, TaskTyped DEF Approve, Reopen, Merge
  <2>3. CASE Approve(p)
    BY <1>1, <2>2, <2>3 DEF SameChild, Approve, Tasks
  <2>4. CASE Reopen(p)
    <3>1. task' = [task EXCEPT !.status = "pending", !.feedback = TRUE]
      BY <2>4 DEF Reopen
    <3>. QED BY <1>1, <2>2, <3>1 DEF SameChild, Tasks
  <2>5. CASE Merge(p)
    <3>1. task' = [task EXCEPT !.merged = TRUE]
      BY <2>5 DEF Merge
    <3>. QED BY <1>1, <2>2, <3>1 DEF SameChild, Tasks
  <2>. QED BY <2>3, <2>4, <2>5
<1>3. RowsStay(NoChild) /\ HoldsStay
  <2>1. CASE UNCHANGED activation
    BY <1>1, <2>1, SameRows
  <2>2. CASE Merge(p)
    BY <1>1, <2>2, TypesOf, FencedRenew DEF Merge
  <2>. QED BY <2>1, <2>2 DEF Approve, Reopen
<1>4. Alone(p) /\ CalmStep(p)
  BY <1>1 DEF Alone, CalmStep, Approve, Reopen, Merge
<1>5. TypeOK'
  BY <1>1, <1>2, <1>3, <1>4
  DEF Approve, Reopen, Merge, TypeOK, Alone, RowsStay, Table, MaybeRow, SameChild
<1>6. SameRun
  BY <1>1, <1>2, <1>3, TypesOf
  DEF SameRun, SameChild, Approve, Reopen, Merge, RowsStay, RecInv, Rest, RowsInv
<1>. QED BY <1>3, <1>4, <1>5, <1>6, AloneInv DEF Approve, Reopen, Merge

LEMMA FenceCancelKeeps ==
  ASSUME RecInv, NEW p \in Processes, FenceCancel(p)
  PROVE  RecInv'
<1>1. TypeOK /\ activation \in Table /\ main \in [Processes -> Mains] /\ task \in Tasks
  BY TypesOf DEF RecInv
<1>2. RowsStay(NoChild) /\ HoldsStay
  BY <1>1, TypesOf, FencedRenew DEF FenceCancel
<1>3. /\ Alone(p) /\ main'[p].at = "cancelling" /\ main'[p].run = main[p].run
      /\ main'[p].child = main[p].child
  <2>1. "cancelling" \in Stages
    BY StagesTyped DEF CancelStages
  <2>. QED BY <1>1, <2>1, GoesTyped DEF FenceCancel
<1>4. TypeOK'
  BY <1>1, <1>2, <1>3 DEF FenceCancel, TypeOK, Alone, RowsStay, Table, MaybeRow
<1>5. SameRun /\ CalmStep(p)
  BY <1>1, <1>2, <1>3, TypesOf
  DEF SameRun, FenceCancel, RowsStay, RecInv, Rest, RowsInv, CalmStep, Held, LaunchStages
<1>. QED BY <1>2, <1>3, <1>4, <1>5, AloneInv DEF FenceCancel

LEMMA WriteCancelKeeps ==
  ASSUME RecInv, NEW p \in Processes, WriteCancel(p)
  PROVE  RecInv'
<1>1. TypeOK /\ activation \in Table /\ main \in [Processes -> Mains] /\ task \in Tasks
  BY TypesOf DEF RecInv
<1>2. SameChild
  <2>1. "pending" \in Statuses
    BY DEF Statuses
  <2>2. CASE UNCHANGED task
    BY <1>1, <2>2 DEF SameChild
  <2>3. CASE task' = [task EXCEPT !.status = "pending", !.cancelled = TRUE]
    <3>1. task' \in Tasks
      BY <1>1, <2>1, <2>3, TaskTyped
    <3>. QED BY <1>1, <2>3, <3>1 DEF SameChild, Tasks
  <2>. QED BY <2>2, <2>3 DEF WriteCancel
<1>3. /\ Alone(p) /\ main'[p].at \in {"ready", "draining"} /\ main'[p].run \in {NoRun, main[p].run}
      /\ main'[p].child \in {NoChild, task.child}
  <2>1. CASE Ready(p)
    BY <1>1, <2>1, ReadyTyped
  <2>2. CASE main' = [main EXCEPT ![p].at = "draining", ![p].child = task.child]
    <3>1. "draining" \in Stages
      BY StagesTyped DEF CancelStages
    <3>. QED BY <1>1, <2>2, <3>1, TypesOf DEF Alone, Mains
  <2>. QED BY <2>1, <2>2 DEF WriteCancel
<1>4. RowsStay(NoChild) /\ HoldsStay
  BY <1>1, SameRows DEF WriteCancel
<1>5. TypeOK'
  BY <1>1, <1>2, <1>3 DEF WriteCancel, TypeOK, Alone, SameChild
<1>6. SameRun /\ CalmStep(p)
  BY <1>1, <1>2, <1>3, <1>4, TypesOf
  DEF SameRun, SameChild, WriteCancel, RowsStay, RecInv, Rest, RowsInv, CalmStep, Held, LaunchStages
<1>. QED BY <1>3, <1>4, <1>5, <1>6, AloneInv DEF WriteCancel

LEMMA DrainKeeps ==
  ASSUME RecInv, NEW p \in Processes, Drain(p)
  PROVE  RecInv'
<1>1. TypeOK /\ activation \in Table /\ main \in [Processes -> Mains] /\ task \in Tasks
  BY TypesOf DEF RecInv
<1>2. /\ Alone(p) /\ main'[p].run \in {NoRun, main[p].run}
      /\ \/ main'[p].at = "ready" /\ main'[p].child = NoChild
         \/ main'[p].at = "terminating" /\ main'[p].child = main[p].child /\ HasChild(p)
  <2>1. CASE Ready(p)
    BY <1>1, <2>1, ReadyTyped
  <2>2. CASE Goes(p, "terminating") /\ HasChild(p)
    <3>1. "terminating" \in Stages
      BY StagesTyped DEF CancelStages
    <3>. QED BY <1>1, <2>2, <3>1, GoesTyped
  <2>. QED BY <2>1, <2>2 DEF Drain
<1>3. RowsStay(NoChild) /\ HoldsStay
  <2>1. CASE UNCHANGED activation
    BY <1>1, <2>1, SameRows
  <2>2. CASE /\ Fenced(p, main[p].child, task.generation, "draining")
             /\ Moved(main[p].child, task.generation, "draining")
    BY <1>1, <2>2, TypesOf, FencedMove DEF Activation!ActivationStates
  <2>. QED BY <2>1, <2>2 DEF Drain
<1>4. TypeOK'
  BY <1>1, <1>2, <1>3 DEF Drain, TypeOK, Alone, RowsStay, Table, MaybeRow
<1>5. CalmStep(p)
  BY <1>1, <1>2, <1>3, TypesOf
  DEF RowsStay, RecInv, Rest, RowsInv, CalmStep, Held, LaunchStages, HasChild
<1>6. SameRun
  BY <1>1, <1>3, TypesOf DEF SameRun, Drain, RowsStay, RecInv, Rest, RowsInv
<1>. QED BY <1>2, <1>3, <1>4, <1>5, <1>6, AloneInv DEF Drain

LEMMA FailDispatchKeeps ==
  ASSUME RecInv, NEW p \in Processes, FailDispatch(p)
  PROVE  RecInv'
<1>1. TypeOK /\ activation \in Table /\ main \in [Processes -> Mains] /\ task \in Tasks
  BY TypesOf DEF RecInv
<1>2. SameChild
  <2>1. "rejected" \in Statuses /\ "settled" \in Lifecycles
    BY DEF Statuses, Lifecycles
  <2>2. task' \in Tasks
    BY <1>1, <2>1, TaskTyped DEF FailDispatch
  <2>. QED BY <1>1, <2>2 DEF SameChild, FailDispatch, Tasks
<1>3. /\ Alone(p) /\ main'[p].run \in {NoRun, main[p].run}
      /\ \/ main'[p].at = "ready" /\ main'[p].child = NoChild
         \/ main'[p].at = "terminating" /\ main'[p].child = main[p].child /\ HasChild(p)
  <2>1. CASE Ready(p)
    BY <1>1, <2>1, ReadyTyped
  <2>2. CASE Goes(p, "terminating") /\ HasChild(p)
    <3>1. "terminating" \in Stages
      BY StagesTyped DEF CancelStages
    <3>. QED BY <1>1, <2>2, <3>1, GoesTyped
  <2>. QED BY <2>1, <2>2 DEF FailDispatch
<1>4. RowsStay(NoChild) /\ HoldsStay
  BY <1>1, SameRows DEF FailDispatch
<1>5. TypeOK'
  BY <1>1, <1>2, <1>3 DEF FailDispatch, TypeOK, Alone, SameChild
<1>6. CalmStep(p)
  BY <1>1, <1>3, <1>4, TypesOf
  DEF RowsStay, RecInv, Rest, RowsInv, CalmStep, Held, LaunchStages, HasChild
<1>7. SameRun
  BY <1>1, <1>2, <1>4, TypesOf DEF SameRun, SameChild, FailDispatch, RowsStay, RecInv, Rest, RowsInv
<1>. QED BY <1>3, <1>4, <1>5, <1>6, <1>7, AloneInv DEF FailDispatch
-----------------------------------------------------------------------------
(* The steps of a dispatch.                                                *)

(* What a prepared dispatch (or a retry) makes of the task and of the      *)
(* launch.                                                                 *)
LEMMA PrepareEffect ==
  ASSUME TypeOK, NEW p \in Processes, Prepare(p) \/ RejectReport(p)
  PROVE  /\ SameChild /\ runs + 1 \in Runs /\ runs' = runs + 1
         /\ Alone(p) /\ main'[p].at = "preparing" /\ main'[p].run = runs + 1
         /\ main'[p].child \in {NoChild, task.child}
<1> DEFINE r == runs + 1
<1>1. activation \in Table /\ main \in [Processes -> Mains] /\ task \in Tasks
  BY TypesOf
<1>2. SameChild
  <2>1. CASE Prepare(p)
    BY <1>1, <2>1 DEF Prepare, SameChild
  <2>2. CASE RejectReport(p)
    <3>1. task' = [task EXCEPT !.status = "rejected", !.feedback = TRUE] /\ "rejected" \in Statuses
      BY <2>2 DEF RejectReport, Statuses
    <3>2. task' \in Tasks
      BY <1>1, <3>1, TaskTyped
    <3>. QED BY <1>1, <3>1, <3>2 DEF SameChild, Tasks
  <2>. QED BY <2>1, <2>2
<1>3. r \in Runs /\ runs' = r /\ runs \in Nat /\ Prepared(p)
  BY RecoveryAssumption DEF Prepare, RejectReport, Prepared, Runs, TypeOK
<1>4. /\ Alone(p) /\ main'[p].at = "preparing" /\ main'[p].run = r
      /\ main'[p].child \in {NoChild, task.child}
  <2> DEFINE c == IF Continues' THEN task'.child ELSE NoChild
  <2>1. c \in {NoChild, task.child} /\ c \in Runs \cup {NoChild}
    BY <1>2, TypesOf DEF SameChild
  <2>2. At("preparing") \in Mains /\ "preparing" \in Stages
    BY StagesTyped, AtTyped DEF LaunchStages
  <2>3. main' = [main EXCEPT ![p] = [At("preparing") EXCEPT !.run = r, !.child = c]]
    BY <1>3 DEF Prepared
  <2> HIDE DEF c, r
  <2>4. [At("preparing") EXCEPT !.run = r, !.child = c] \in Mains
    BY <1>3, <2>1, <2>2 DEF Mains
  <2>5. Alone(p) /\ main'[p] = [At("preparing") EXCEPT !.run = r, !.child = c]
    BY <1>1, <2>3, <2>4, SetTyped
  <2>. QED BY <2>1, <2>5 DEF At
<1>. QED BY <1>2, <1>3, <1>4

LEMMA PrepareKeeps ==
  ASSUME RecInv, NEW p \in Processes, Prepare(p) \/ RejectReport(p)
  PROVE  RecInv'
<1> DEFINE r == runs + 1
<1>1. TypeOK /\ activation \in Table /\ main \in [Processes -> Mains] /\ task \in Tasks
  BY TypesOf DEF RecInv
<1>2. SameChild
  BY <1>1, PrepareEffect
<1>3. r \in Runs /\ runs' = r /\ runs \in Nat
  BY <1>1, PrepareEffect DEF TypeOK
<1>4. /\ Alone(p) /\ main'[p].at = "preparing" /\ main'[p].run = r
      /\ main'[p].child \in {NoChild, task.child}
  BY <1>1, PrepareEffect
<1>5. UNCHANGED <<activation, archived, process, loops, shared>>
  BY DEF Prepare, RejectReport
<1>. HIDE DEF r
<1>6. TypeOK'
  BY <1>1, <1>2, <1>3, <1>4, <1>5, RecoveryAssumption DEF TypeOK, Alone, SameChild, Runs
<1>7. RowsStay(NoChild) /\ HoldsStay
  BY <1>1, <1>5, SameRows
<1>8. Holds'
  <2>1. \A q \in Processes : HeldStep(q)
    BY <1>4 DEF HeldStep, Alone, Held
  <2>2. NoNewLoop
    BY <1>5 DEF NoNewLoop, Older
  <2>. QED BY <1>6, <1>7, <2>1, <2>2, CalmHolds DEF RecInv, Holds, Rest
<1>9. StagesInv'
  BY <1>1, <1>3, <1>4 DEF RecInv, Rest, StagesInv, Alone, Held, LaunchStages
<1>10. RunsInv'
  <2>1. r > runs /\ r # NoRun /\ r \in Nat
    BY <1>3, RunsTyped DEF r, NoRun
  <2>2. \A q \in Processes : main[q].run \in Nat /\ main[q].run <= runs
    <3>1. \A q \in Processes : main[q].run \in Runs \cup {NoRun}
      BY <1>1, TypesOf
    <3>2. Runs \cup {NoRun} \subseteq Nat
      BY RunsTyped DEF NoRun
    <3>. QED BY <3>1, <3>2 DEF RecInv, Rest, RunsInv
  <2>3. \A l \in loops : l.run \in Nat /\ l.run <= runs
    BY <1>1, RunsTyped DEF RecInv, Rest, RunsInv, TypeOK, Loops
  <2>4. \A a, b \in Processes : main'[a].run # NoRun /\ main'[a].run = main'[b].run => a = b
    BY <1>4, <2>1, <2>2, <1>3 DEF RecInv, Rest, RunsInv, Alone
  <2>5. \A q \in Processes : main'[q].run <= runs'
    BY <1>4, <2>1, <2>2, <1>3 DEF Alone
  <2>6. \A l \in loops' : l.run <= runs' /\ \A q \in Processes : main'[q].run # l.run
    BY <1>3, <1>4, <1>5, <2>1, <2>3 DEF RecInv, Rest, RunsInv, Alone
  <2>. QED BY <2>4, <2>5, <2>6 DEF RunsInv
<1>11. RowsInv'
  BY <1>2, <1>4, <1>5 DEF RecInv, Rest, RowsInv, Alone, SameChild
<1>12. FreshInv'
  <2>1. r > runs /\ activation[r] = Activation!NoRow
    BY <1>3 DEF r, RecInv, Rest, FreshInv
  <2>2. \A c \in Runs : c > runs' => activation'[c] = Activation!NoRow
    BY <1>3, <1>5, <2>1, RunsTyped DEF RecInv, Rest, FreshInv
  <2>3. \A q \in Processes : main'[q].at \in {"preparing", "creating"} /\ main'[q].child = NoChild
          => activation'[main'[q].run] = Activation!NoRow
    BY <1>4, <1>5, <2>1 DEF RecInv, Rest, FreshInv, Alone
  <2>. QED BY <2>2, <2>3 DEF FreshInv
<1>13. OldLoops'
  BY <1>2, <1>4, <1>5 DEF RecInv, Rest, OldLoops, Alone, Held, SameChild
<1>. QED BY <1>6, <1>8, <1>9, <1>10, <1>11, <1>12, <1>13 DEF RecInv, Rest

(* The run that becomes current is no loop's run.                          *)
LEMMA CommitKeeps ==
  ASSUME RecInv, NEW p \in Processes, Commit(p)
  PROVE  RecInv'
<1>1. TypeOK /\ activation \in Table /\ main \in [Processes -> Mains] /\ task \in Tasks
  BY TypesOf DEF RecInv
<1>2. RowsStay(NoChild) /\ HoldsStay
  BY <1>1, SameRows DEF Commit
<1>3. CASE ~Dispatchable
  <2>1. Alone(p) /\ main'[p].at = "ready" /\ main'[p].run = NoRun /\ main'[p].child = NoChild
    BY <1>1, <1>3, ReadyTyped DEF Commit
  <2>2. TypeOK' /\ CalmStep(p)
    BY <1>1, <1>3, <2>1 DEF Commit, TypeOK, Alone, CalmStep, Held, LaunchStages
  <2>3. SameRun
    BY <1>1, <1>2, <1>3, TypesOf DEF SameRun, Commit, RowsStay, RecInv, Rest, RowsInv
  <2>. QED BY <1>2, <2>1, <2>2, <2>3, AloneInv DEF Commit
<1>4. CASE Dispatchable
  <2> DEFINE r == main[p].run
             c == main[p].child
  <2>1. r \in Runs /\ c \in Runs \cup {NoChild}
    BY <1>1, TypesOf DEF Commit, RecInv, Rest, StagesInv, LaunchStages
  <2>2. task' \in Tasks /\ task'.run = r /\ task'.child = c
    <3>1. task' = [task EXCEPT !.status = "dispatched", !.run = r, !.child = c, !.generation = 0,
                     !.lifecycle = "reserved", !.cancelled = FALSE,
                     !.young = StartingTimeout, !.merged = FALSE]
      BY <1>4 DEF Commit
    <3> HIDE DEF r, c
    <3>2. task' \in Tasks
      BY <1>1, <2>1, <3>1, CommittedTyped
    <3>. QED BY <1>1, <3>1, <3>2 DEF Tasks
  <2>3. /\ Alone(p) /\ main'[p].run = r /\ main'[p].child = c
        /\ \/ main'[p].at = "creating" /\ c = NoChild
           \/ main'[p].at = "claiming" /\ c \in Runs
    <3>1. "creating" \in Stages /\ "claiming" \in Stages
      BY StagesTyped DEF LaunchStages
    <3>. QED BY <1>1, <1>4, <2>1, <3>1, GoesTyped DEF Commit
  <2>4. UNCHANGED <<activation, archived, process, loops, runs, shared>> /\ main[p].at = "preparing"
    BY DEF Commit
  <2> HIDE DEF r, c
  <2>5. TypeOK'
    BY <1>1, <2>2, <2>3, <2>4 DEF TypeOK, Alone
  <2>6. Holds'
    <3>1. \A q \in Processes : HeldStep(q)
      BY <2>3 DEF HeldStep, Alone, Held
    <3>2. NoNewLoop
      BY <2>4 DEF NoNewLoop, Older
    <3>. QED BY <1>2, <2>5, <3>1, <3>2, CalmHolds DEF RecInv, Holds, Rest
  <2>7. StagesInv'
    BY <2>1, <2>3 DEF RecInv, Rest, StagesInv, Alone, Held, LaunchStages
  <2>8. \A q \in Processes : main'[q].run = main[q].run /\ main'[q].child = main[q].child
    BY <2>3 DEF Alone, r, c
  <2>9. RunsInv'
    BY <2>4, <2>8 DEF RecInv, Rest, RunsInv
  <2>10. RowsInv'
    <3>1. c # NoChild => Activation!Exists(activation[c])
      BY DEF c, RecInv, Rest, RowsInv
    <3>. QED BY <2>2, <2>4, <2>8, <3>1 DEF RecInv, Rest, RowsInv
  <2>11. FreshInv'
    BY <2>3, <2>4, <2>8 DEF RecInv, Rest, FreshInv, Alone, c
  <2>12. OldLoops'
    <3>1. \A l \in loops' : task'.run # l.run
      BY <2>2, <2>4 DEF RecInv, Rest, RunsInv, r
    <3>. QED BY <3>1 DEF OldLoops
  <2>. QED BY <2>5, <2>6, <2>7, <2>9, <2>10, <2>11, <2>12 DEF RecInv, Rest
<1>. QED BY <1>3, <1>4

(* What a claim leaves behind.                                             *)
LEMMA ClaimEffect ==
  ASSUME TypeOK, NEW p \in Processes, NEW c \in Runs, NEW next \in Stages,
         main[p].run \in Runs, Claimable(p, c), ClaimFor(p, c, next)
  PROVE  /\ RowsStay(c) /\ (Activation!Exists(activation[c]) => RowsStay(NoChild)) /\ HoldsStay
         /\ RowHeld(activation'[c], p, main'[p].generation)
         /\ Alone(p) /\ main'[p].at = next /\ main'[p].run = main[p].run /\ main'[p].child = c
<1> DEFINE r == Activation!Claimed(activation[c], p, main[p].run, LeaseTtl)
<1>1. activation \in Table /\ main \in [Processes -> Mains]
  BY TypesOf
<1>2. /\ r \in Activation!Row /\ RowHeld(r, p, r.generation)
      /\ \A q, g : RowHeld(activation[c], q, g) => RowHeld(r, q, g)
  BY <1>1, ClaimedRow DEF Table, Claimable
<1>3. activation' = [activation EXCEPT ![c] = r]
  BY DEF ClaimFor
<1> HIDE DEF r
<1>4. /\ RowsStay(c) /\ activation'[c] = r
      /\ \A d \in Runs \ {c} : activation'[d] = activation[d]
      /\ Activation!Exists(activation[c]) => RowsStay(NoChild)
  BY <1>1, <1>2, <1>3, RowWritten
<1>5. HoldsStay
  BY <1>2, <1>4 DEF HoldsStay
<1>6. main' = [main EXCEPT ![p].at = next, ![p].child = c, ![p].generation = r.generation]
  BY <1>4 DEF ClaimFor
<1>7. r.generation \in Nat
  BY <1>2 DEF Activation!Row
<1>8. /\ Alone(p) /\ main'[p].at = next /\ main'[p].run = main[p].run /\ main'[p].child = c
      /\ main'[p].generation = r.generation
  BY <1>1, <1>6, <1>7 DEF Alone, Mains
<1>. QED BY <1>2, <1>4, <1>5, <1>8

LEMMA HoldsRest ==
  ASSUME RecInv, TypeOK', NEW p \in Processes, Alone(p), HoldsStay, UNCHANGED loops,
         main'[p].at \in Held => HoldsRow(main[p].child, p, main[p].generation)'
  PROVE  Holds'
<1>1. RunningHold'
  BY DEF RecInv, Holds, RunningHold, HoldsStay, HoldsRow, TypeOK, Loops
<1>2. ASSUME NEW q \in Processes \ {p}, main'[q].at \in Held
      PROVE  HoldsRow(main[q].child, q, main[q].generation)'
  <2>1. main'[q] = main[q] /\ main[q].child \in Runs
    BY <1>2 DEF Alone, RecInv, Rest, StagesInv
  <2>. QED BY <1>2, <2>1 DEF RecInv, Holds, LaunchesHold, HoldsStay, HoldsRow
<1>. QED BY <1>1, <1>2 DEF Holds, LaunchesHold

LEMMA LaunchFails ==
  ASSUME RecInv, NEW p \in Processes, main[p].at \in LaunchStages, Goes(p, "failing"),
         UNCHANGED <<task, activation, archived, process, loops, runs, shared>>
  PROVE  RecInv'
<1>1. TypeOK /\ activation \in Table /\ main \in [Processes -> Mains] /\ task \in Tasks
  BY TypesOf DEF RecInv
<1>2. /\ Alone(p) /\ main'[p].at = "failing" /\ main'[p].run = main[p].run
      /\ main'[p].child = main[p].child
  <2>1. "failing" \in Stages
    BY StagesTyped DEF LaunchStages
  <2>. QED BY <1>1, <2>1, GoesTyped
<1>3. RowsStay(NoChild) /\ HoldsStay
  BY <1>1, SameRows
<1>4. TypeOK'
  BY <1>1, <1>2 DEF TypeOK, Alone
<1>5. SameRun /\ CalmStep(p)
  BY <1>1, <1>2, <1>3, TypesOf
  DEF SameRun, RowsStay, RecInv, Rest, RowsInv, StagesInv, CalmStep, Held
<1>. QED BY <1>2, <1>3, <1>4, <1>5, AloneInv

LEMMA CreateChildKeeps ==
  ASSUME RecInv, NEW p \in Processes, CreateChild(p)
  PROVE  RecInv'
<1> DEFINE c == main[p].run
<1>1. CASE Goes(p, "failing") /\ UNCHANGED activation
  BY <1>1, LaunchFails DEF CreateChild, LaunchStages
<1>2. CASE ClaimFor(p, c, "marking")
  <2>1. TypeOK /\ activation \in Table /\ main \in [Processes -> Mains]
    BY TypesOf DEF RecInv
  <2>2. c \in Runs /\ main[p].child = NoChild /\ activation[c] = Activation!NoRow
    BY DEF CreateChild, RecInv, Rest, StagesInv, FreshInv, LaunchStages
  <2>3. Claimable(p, c) /\ "marking" \in Stages
    BY <2>2, StagesTyped DEF Claimable, Activation!CanClaim, Activation!Exists, Activation!NoRow, LaunchStages
  <2>4. /\ RowsStay(c) /\ HoldsStay /\ RowHeld(activation'[c], p, main'[p].generation)
        /\ Alone(p) /\ main'[p].at = "marking" /\ main'[p].run = c /\ main'[p].child = c
    BY <1>2, <2>1, <2>2, <2>3, ClaimEffect
  <2>5. UNCHANGED <<task, archived, process, loops, runs, shared>>
    BY DEF CreateChild
  <2>6. c <= runs /\ \A q \in Processes \ {p} : main[q].run # c
    BY <2>2, RunsTyped DEF RecInv, Rest, RunsInv
  <2>7. \A q \in Processes : main'[q].run = main[q].run
    BY <2>4 DEF Alone
  <2>8. Activation!Exists(activation'[c])
    BY <2>4 DEF RowHeld, Activation!CasOk
  <2> HIDE DEF c
  <2>9. TypeOK'
    BY <2>1, <2>4, <2>5 DEF TypeOK, Alone, RowsStay, Table, MaybeRow
  <2>10. Holds'
    BY <2>4, <2>5, <2>9, HoldsRest DEF HoldsRow
  <2>11. StagesInv'
    BY <2>2, <2>4 DEF RecInv, Rest, StagesInv, Alone, LaunchStages
  <2>12. RunsInv'
    BY <2>5, <2>7 DEF RecInv, Rest, RunsInv
  <2>13. RowsInv'
    <3>1. task.child \in Runs \cup {NoChild} /\ \A q \in Processes : main[q].child \in Runs \cup {NoChild}
      BY <2>1, TypesOf
    <3>2. \A l \in loops : l.child \in Runs
      BY <2>1 DEF TypeOK, Loops
    <3>3. \A q \in Processes : main'[q].child # NoChild => Activation!Exists(activation'[main'[q].child])
      BY <2>4, <2>8, <3>1 DEF RecInv, Rest, RowsInv, RowsStay, Alone
    <3>. QED BY <2>4, <2>5, <3>1, <3>2, <3>3 DEF RecInv, Rest, RowsInv, RowsStay
  <2>14. FreshInv'
    <3>1. \A d \in Runs : d > runs' => activation'[d] = Activation!NoRow
      BY <2>4, <2>5, <2>6, RunsTyped, <2>1 DEF RecInv, Rest, FreshInv, RowsStay, TypeOK
    <3>2. ASSUME NEW q \in Processes, main'[q].at \in {"preparing", "creating"}, main'[q].child = NoChild
          PROVE  activation'[main'[q].run] = Activation!NoRow
      <4>1. q # p /\ main'[q] = main[q]
        BY <2>4, <3>2 DEF Alone
      <4>2. main[q].run \in Runs /\ main[q].run # c /\ activation[main[q].run] = Activation!NoRow
        BY <2>6, <3>2, <4>1 DEF RecInv, Rest, StagesInv, FreshInv, LaunchStages
      <4>. QED BY <2>4, <4>1, <4>2 DEF RowsStay
    <3>. QED BY <3>1, <3>2 DEF FreshInv
  <2>15. OldLoops'
    <3>1. \A l \in loops : l.child # c
      BY <2>2 DEF RecInv, Rest, RowsInv, Activation!Exists, Activation!NoRow
    <3>2. ASSUME NEW q \in Processes, NEW l \in loops',
                 main'[q].at \in Held \cup {"claiming"}, l.process = q, l.child = main'[q].child
          PROVE  task'.run # l.run
      <4>1. q # p
        BY <2>4, <2>5, <3>1, <3>2
      <4>. QED BY <2>4, <2>5, <3>2, <4>1 DEF RecInv, Rest, OldLoops, Alone
    <3>. QED BY <2>5, <3>2 DEF RecInv, Rest, OldLoops
  <2>. QED BY <2>9, <2>10, <2>11, <2>12, <2>13, <2>14, <2>15 DEF RecInv, Rest
<1>. QED BY <1>1, <1>2 DEF CreateChild

(* Steps of a launch whose child is there.                                 *)
LEMMA LaunchOn ==
  ASSUME RecInv, TypeOK', NEW p \in Processes, Alone(p),
         main[p].at \in Held \cup {"claiming"}, main'[p].at \in Held,
         main'[p].run = main[p].run, main'[p].child = main[p].child,
         HoldsRow(main[p].child, p, main[p].generation)',
         RowsStay(NoChild), HoldsStay, SameRun, UNCHANGED loops
  PROVE  RecInv'
<1>1. Holds'
  BY HoldsRest
<1>2. main[p].run \in Runs /\ main[p].child \in Runs
  BY DEF RecInv, Rest, StagesInv, Held, LaunchStages
<1>3. StagesInv'
  BY <1>2 DEF RecInv, Rest, StagesInv, Alone, Held
<1>4. \A q \in Processes : main'[q].run = main[q].run /\ main'[q].child = main[q].child
  BY DEF Alone
<1>5. RunsInv'
  BY <1>4 DEF RecInv, Rest, RunsInv, SameRun
<1>6. RowsInv'
  <2>1. \A q \in Processes : main[q].child \in Runs \cup {NoChild}
    BY TypesOf DEF RecInv
  <2>2. \A l \in loops : l.child \in Runs
    BY DEF RecInv, TypeOK, Loops
  <2>. QED BY <1>4, <2>1, <2>2 DEF RecInv, Rest, RowsInv, RowsStay, SameRun
<1>7. FreshInv'
  <2>1. \A d \in Runs : d > runs' => activation'[d] = Activation!NoRow
    BY RunsTyped DEF RecInv, Rest, FreshInv, RowsStay, SameRun
  <2>2. ASSUME NEW q \in Processes, main'[q].at \in {"preparing", "creating"}, main'[q].child = NoChild
        PROVE  activation'[main'[q].run] = Activation!NoRow
    <3>1. q # p /\ main'[q] = main[q]
      BY <2>2 DEF Alone, Held
    <3>2. main[q].run \in Runs /\ activation[main[q].run] = Activation!NoRow
      BY <2>2, <3>1 DEF RecInv, Rest, StagesInv, FreshInv, LaunchStages
    <3>. QED BY <3>1, <3>2, RunsTyped DEF RowsStay
  <2>. QED BY <2>1, <2>2 DEF FreshInv
<1>8. OldLoops'
  BY <1>4 DEF RecInv, Rest, OldLoops, SameRun, Alone
<1>. QED BY <1>1, <1>3, <1>5, <1>6, <1>7, <1>8 DEF RecInv, Rest

LEMMA ClaimResumedKeeps ==
  ASSUME RecInv, NEW p \in Processes, ClaimResumed(p)
  PROVE  RecInv'
<1> DEFINE c == main[p].child
<1>1. CASE ~Claimable(p, c)
  BY <1>1, LaunchFails DEF ClaimResumed, LaunchStages
<1>2. CASE Claimable(p, c)
  <2>1. TypeOK /\ activation \in Table /\ main \in [Processes -> Mains]
    BY TypesOf DEF RecInv
  <2>2. c \in Runs /\ main[p].run \in Runs /\ Activation!Exists(activation[c])
    BY RunsTyped DEF ClaimResumed, RecInv, Rest, StagesInv, RowsInv, LaunchStages
  <2>3. "publishing" \in Stages /\ ClaimFor(p, c, "publishing")
    BY <1>2, StagesTyped DEF ClaimResumed, LaunchStages
  <2>4. /\ RowsStay(NoChild) /\ HoldsStay /\ RowHeld(activation'[c], p, main'[p].generation)
        /\ Alone(p) /\ main'[p].at = "publishing" /\ main'[p].run = main[p].run /\ main'[p].child = c
    BY <1>2, <2>1, <2>2, <2>3, ClaimEffect
  <2>5. UNCHANGED <<task, archived, process, loops, runs, shared>> /\ main[p].at = "claiming"
    BY DEF ClaimResumed
  <2>6. TypeOK'
    BY <2>1, <2>4, <2>5 DEF TypeOK, Alone, RowsStay, Table, MaybeRow
  <2>7. SameRun
    BY <2>1, <2>4, <2>5, TypesOf DEF SameRun, RowsStay, RecInv, Rest, RowsInv
  <2>8. HoldsRow(main[p].child, p, main[p].generation)' /\ main'[p].at \in Held
    BY <2>4 DEF HoldsRow, Held
  <2>. QED BY <2>4, <2>5, <2>6, <2>7, <2>8, LaunchOn
<1>. QED BY <1>1, <1>2

LEMMA PublishKeeps ==
  ASSUME RecInv, NEW p \in Processes, MarkCreated(p) \/ Publish(p)
  PROVE  RecInv'
<1>1. TypeOK /\ activation \in Table /\ main \in [Processes -> Mains] /\ task \in Tasks
  BY TypesOf DEF RecInv
<1>2. /\ main[p].at \in Held /\ main[p].child \in Runs /\ main[p].generation \in Nat
      /\ HoldsRow(main[p].child, p, main[p].generation)
  BY <1>1, TypesOf DEF MarkCreated, Publish, Held, RecInv, Rest, Holds, StagesInv, LaunchesHold
<1>3. task' \in Tasks /\ task'.run = task.run /\ task'.child \in {task.child, main[p].child}
  <2>1. "child_created" \in Lifecycles /\ "running" \in Lifecycles /\ "running" \in Statuses
    BY DEF Lifecycles, Statuses
  <2>2. CASE MarkCreated(p)
    <3>1. task' = [task EXCEPT !.child = main[p].child, !.generation = main[p].generation,
                               !.lifecycle = "child_created"]
      BY <2>2 DEF MarkCreated
    <3>2. task' \in Tasks
      BY <1>1, <1>2, <2>1, <3>1, TaskTyped
    <3>. QED BY <1>1, <3>1, <3>2 DEF Tasks
  <2>3. CASE Publish(p)
    <3> DEFINE g == IF main[p].child = main[p].run THEN task.generation ELSE main[p].generation
    <3>1. task' = [task EXCEPT !.status = "running", !.lifecycle = "running", !.generation = g]
      BY <2>3 DEF Publish
    <3>2. g \in Nat
      BY <1>1, <1>2, TypesOf
    <3> HIDE DEF g
    <3>3. task' \in Tasks
      BY <1>1, <2>1, <3>1, <3>2, TaskTyped
    <3>. QED BY <1>1, <3>1, <3>3 DEF Tasks
  <2>. QED BY <2>2, <2>3
<1>4. /\ Alone(p) /\ main'[p].at \in Held /\ main'[p].run = main[p].run
      /\ main'[p].child = main[p].child /\ main'[p].generation = main[p].generation
  <2>1. "publishing" \in Stages /\ "starting" \in Stages
    BY StagesTyped DEF LaunchStages
  <2>. QED BY <1>1, <2>1, GoesTyped DEF MarkCreated, Publish, Held
<1>5. UNCHANGED <<activation, archived, process, loops, runs, shared>>
  BY DEF MarkCreated, Publish
<1>6. RowsStay(NoChild) /\ HoldsStay
  BY <1>1, <1>5, SameRows
<1>7. TypeOK'
  BY <1>1, <1>3, <1>4, <1>5 DEF TypeOK, Alone
<1>8. SameRun
  <2>1. Activation!Exists(activation[main[p].child])
    BY <1>2 DEF HoldsRow, RowHeld, Activation!CasOk
  <2>. QED BY <1>3, <1>5, <2>1 DEF SameRun, RecInv, Rest, RowsInv
<1>9. HoldsRow(main[p].child, p, main[p].generation)'
  BY <1>2, <1>4, <1>5 DEF HoldsRow
<1>. QED BY <1>2, <1>4, <1>5, <1>6, <1>7, <1>8, <1>9, LaunchOn

(* The fence of a start always lets it pass, and the loop gets the token.  *)
LEMMA StartKeeps ==
  ASSUME RecInv, NEW p \in Processes, Start(p)
  PROVE  RecInv'
<1> DEFINE c == main[p].child
           g == main[p].generation
           n == NewLoop(p)
<1>1. TypeOK /\ activation \in Table /\ main \in [Processes -> Mains] /\ task \in Tasks
  BY TypesOf DEF RecInv
<1>2. /\ c \in Runs /\ g \in Nat /\ main[p].run \in Runs /\ main[p].at = "starting"
      /\ RowHeld(activation[c], p, g)
  BY <1>1, TypesOf DEF Start, Held, RecInv, Rest, Holds, StagesInv, LaunchesHold, LaunchStages, HoldsRow
<1>3. Fenced(p, c, g, "running")
  BY <1>2 DEF Fenced, RowHeld, Activation!CanTransition
<1>4. /\ Moved(c, g, "running") /\ Ready(p) /\ loops' = loops \cup {n}
      /\ UNCHANGED <<task, archived, process, runs, shared>>
  BY <1>3 DEF Start
<1>5. /\ n \in Loops /\ n.process = p /\ n.run = main[p].run /\ n.child = c
      /\ n.generation = g /\ n.at = "running"
  BY <1>2 DEF NewLoop, Loops, RowHeld, Activation!CasOk
<1>6. Alone(p) /\ main'[p].at = "ready" /\ main'[p].run = NoRun /\ main'[p].child = NoChild
  BY <1>1, <1>4, ReadyTyped
<1>7. RowsStay(NoChild) /\ HoldsStay
  BY <1>1, <1>2, <1>3, <1>4, FencedMove DEF Activation!ActivationStates
<1> HIDE DEF n, c, g
<1>8. TypeOK'
  BY <1>1, <1>4, <1>5, <1>6, <1>7 DEF TypeOK, Alone, RowsStay, Table, MaybeRow
<1>9. SameRun /\ CalmStep(p)
  BY <1>1, <1>4, <1>6, <1>7, TypesOf
  DEF SameRun, RowsStay, RecInv, Rest, RowsInv, CalmStep, Held, LaunchStages
<1>10. \A q \in Processes : CalmStep(q)
  BY <1>6, <1>9, AloneCalm
<1>11. Holds'
  <2>1. ASSUME NEW l \in loops', l.at = "running"
        PROVE  RowHeld(activation'[l.child], l.process, l.generation)
    <3>1. CASE l = n
      BY <1>2, <1>5, <1>7, <3>1 DEF HoldsStay
    <3>2. CASE l \in loops
      BY <1>1, <1>7, <2>1, <3>2 DEF HoldsStay, RecInv, Holds, RunningHold, HoldsRow, TypeOK, Loops
    <3>. QED BY <1>4, <3>1, <3>2
  <2>2. ASSUME NEW q \in Processes, main'[q].at \in Held
        PROVE  RowHeld(activation'[main'[q].child], q, main'[q].generation)
    <3>1. main'[q] = main[q] /\ main[q].child \in Runs
      BY <1>6, <2>2 DEF Alone, Held, RecInv, Rest, StagesInv
    <3>. QED BY <1>7, <2>2, <3>1 DEF HoldsStay, RecInv, Holds, LaunchesHold, HoldsRow
  <2>. QED BY <2>1, <2>2 DEF Holds, RunningHold, LaunchesHold, HoldsRow
<1>12. StagesInv'
  BY <1>10, CalmStages DEF RecInv, Rest
<1>13. RunsInv'
  <2>1. main[p].run <= runs /\ main[p].run # NoRun
    BY <1>2, RunsTyped DEF RecInv, Rest, RunsInv
  <2>2. \A q \in Processes : main'[q].run = IF q = p THEN NoRun ELSE main[q].run
    BY <1>6 DEF Alone
  <2>3. \A a, b \in Processes : main'[a].run # NoRun /\ main'[a].run = main'[b].run => a = b
    BY <2>2 DEF RecInv, Rest, RunsInv
  <2>4. \A q \in Processes : main'[q].run <= runs'
    BY <1>1, <1>4, <2>2 DEF RecInv, Rest, RunsInv, NoRun, TypeOK
  <2>5. \A q \in Processes : main'[q].run # n.run
    BY <1>5, <2>1, <2>2 DEF RecInv, Rest, RunsInv
  <2>6. \A l \in loops : l.run # NoRun
    BY <1>1, RunsTyped DEF TypeOK, Loops
  <2>7. \A l \in loops : l.run <= runs' /\ \A q \in Processes : main'[q].run # l.run
    BY <1>4, <2>2, <2>6 DEF RecInv, Rest, RunsInv
  <2>. QED BY <1>4, <1>5, <2>1, <2>3, <2>4, <2>5, <2>7 DEF RunsInv
<1>14. RowsInv' /\ FreshInv'
  <2>1. Activation!Exists(activation'[c])
    BY <1>2, <1>7 DEF HoldsStay, RowHeld, Activation!CasOk
  <2>2. \A l \in loops' : Activation!Exists(activation'[l.child])
    BY <1>1, <1>4, <1>5, <1>7, <2>1 DEF RecInv, Rest, RowsInv, RowsStay, TypeOK, Loops
  <2>3. \A q \in Processes : main'[q].child # NoChild => Activation!Exists(activation'[main'[q].child])
    BY <1>1, <1>6, <1>7, TypesOf DEF RecInv, Rest, RowsInv, RowsStay, Alone
  <2>4. \A d \in Runs : d > runs' => activation'[d] = Activation!NoRow
    BY <1>4, <1>7, RunsTyped DEF RecInv, Rest, FreshInv, RowsStay
  <2>5. ASSUME NEW q \in Processes, main'[q].at \in {"preparing", "creating"}, main'[q].child = NoChild
        PROVE  activation'[main'[q].run] = Activation!NoRow
    <3>1. main'[q] = main[q]
      BY <1>6, <2>5 DEF Alone
    <3>2. main[q].run \in Runs /\ activation[main[q].run] = Activation!NoRow
      BY <2>5, <3>1 DEF RecInv, Rest, StagesInv, FreshInv, LaunchStages
    <3>. QED BY <1>7, <3>1, <3>2, RunsTyped DEF RowsStay
  <2>. QED BY <1>9, <2>2, <2>3, <2>4, <2>5 DEF RowsInv, FreshInv, SameRun
<1>15. OldLoops'
  <2>1. ASSUME NEW q \in Processes, NEW l \in loops',
               main'[q].at \in Held \cup {"claiming"}, l.process = q, l.child = main'[q].child
        PROVE  task'.run # l.run
    <3>1. q # p /\ main'[q] = main[q]
      BY <1>6, <2>1 DEF Held, Alone
    <3>2. l \in loops
      BY <1>4, <1>5, <2>1, <3>1
    <3>. QED BY <1>4, <2>1, <3>1, <3>2 DEF RecInv, Rest, OldLoops
  <2>2. ASSUME NEW k \in loops', NEW l \in loops', SameSession(k, l), k.at = "running", l.at = "ended"
        PROVE  task'.run # l.run
    <3>1. l \in loops
      BY <1>4, <1>5, <2>2
    <3>2. CASE k \in loops
      BY <1>4, <2>2, <3>1, <3>2 DEF RecInv, Rest, OldLoops
    <3>3. CASE k = n
      BY <1>2, <1>4, <1>5, <2>2, <3>1, <3>3 DEF RecInv, Rest, OldLoops, Held, SameSession, c
    <3>. QED BY <1>4, <3>2, <3>3
  <2>. QED BY <2>1, <2>2 DEF OldLoops
<1>. QED BY <1>8, <1>11, <1>12, <1>13, <1>14, <1>15 DEF RecInv, Rest

(* Termination settles the row of its own process, and ends its loop.      *)
LEMMA TerminateKeeps ==
  ASSUME RecInv, NEW p \in Processes, Terminate(p)
  PROVE  RecInv'
<1> DEFINE c == main[p].child
<1>1. TypeOK /\ activation \in Table /\ main \in [Processes -> Mains]
  BY TypesOf DEF RecInv
<1>2. /\ c \in Runs /\ Ready(p) /\ loops' = {l \in loops : l.process # p \/ l.child # c}
      /\ archived' = archived \cup {c} /\ UNCHANGED <<task, process, runs, shared>>
  BY DEF Terminate, RecInv, Rest, StagesInv
<1>3. Alone(p) /\ main'[p].at = "ready" /\ main'[p].run = NoRun /\ main'[p].child = NoChild
  BY <1>1, <1>2, ReadyTyped
<1>4. /\ RowsStay(NoChild)
      /\ \A d \in Runs : \A q, h : RowHeld(activation[d], q, h) =>
           RowHeld(activation'[d], q, h) \/ (d = c /\ q = p)
  <2>1. CASE UNCHANGED activation
    BY <1>1, <2>1, SameRows
  <2>2. CASE /\ Fenced(p, c, task.generation, "settled")
             /\ Moved(c, task.generation, "settled")
    BY <1>1, <1>2, <2>2, TypesOf, FencedMove DEF Activation!ActivationStates
  <2>. QED BY <2>1, <2>2 DEF Terminate
<1> HIDE DEF c
<1>5. TypeOK'
  BY <1>1, <1>2, <1>3, <1>4 DEF TypeOK, Alone, RowsStay, Table, MaybeRow
<1>6. CalmAll /\ OthersOld
  <2>1. SameRun /\ CalmStep(p)
    BY <1>1, <1>2, <1>3, <1>4, TypesOf
    DEF SameRun, RowsStay, RecInv, Rest, RowsInv, CalmStep, Held, LaunchStages
  <2>2. NoNewLoop /\ OthersOld
    BY <1>2 DEF NoNewLoop, Older, OthersOld, RecInv, Rest, OldLoops
  <2>. QED BY <1>3, <1>4, <2>1, <2>2, AloneCalm DEF CalmAll
<1>7. Holds'
  <2>1. ASSUME NEW l \in loops', l.at = "running"
        PROVE  RowHeld(activation'[l.child], l.process, l.generation)
    BY <1>1, <1>2, <1>4, <2>1 DEF RecInv, Holds, RunningHold, HoldsRow, TypeOK, Loops
  <2>2. ASSUME NEW q \in Processes, main'[q].at \in Held
        PROVE  RowHeld(activation'[main'[q].child], q, main'[q].generation)
    <3>1. q # p /\ main'[q] = main[q] /\ main[q].child \in Runs
      BY <1>3, <2>2 DEF Alone, Held, RecInv, Rest, StagesInv
    <3>. QED BY <1>4, <2>2, <3>1 DEF RecInv, Holds, LaunchesHold, HoldsRow
  <2>. QED BY <2>1, <2>2 DEF Holds, RunningHold, LaunchesHold, HoldsRow
<1>8. Rest'
  BY <1>1, <1>5, <1>6, CalmRest DEF RecInv
<1>. QED BY <1>5, <1>7, <1>8 DEF RecInv
-----------------------------------------------------------------------------
(* The steps of loops and watchers, of the clock and of crashes.           *)

LEMMA CrashKeeps ==
  ASSUME RecInv, NEW p \in Processes, Crash(p)
  PROVE  RecInv'
<1>1. TypeOK /\ activation \in Table /\ main \in [Processes -> Mains]
  BY TypesOf DEF RecInv
<1>2. /\ main' = [main EXCEPT ![p] = At("off")] /\ loops' = {l \in loops : l.process # p}
      /\ UNCHANGED <<task, activation, archived, runs, shared>>
      /\ process' = [process EXCEPT ![p] = "gone"]
  BY DEF Crash
<1>3. Alone(p) /\ main'[p].at = "off" /\ main'[p].run = NoRun /\ main'[p].child = NoChild
  BY <1>1, <1>2, AtTyped, StagesTyped, SetTyped
<1>4. RowsStay(NoChild) /\ HoldsStay
  BY <1>1, <1>2, SameRows
<1>5. TypeOK'
  BY <1>1, <1>2, <1>3 DEF TypeOK, Alone
<1>6. CalmAll /\ OthersOld
  <2>1. SameRun /\ CalmStep(p)
    BY <1>1, <1>2, <1>3, <1>4, TypesOf
    DEF SameRun, RowsStay, RecInv, Rest, RowsInv, CalmStep, Held, LaunchStages
  <2>2. NoNewLoop /\ OthersOld
    BY <1>2 DEF NoNewLoop, Older, OthersOld, RecInv, Rest, OldLoops
  <2>. QED BY <1>3, <1>4, <2>1, <2>2, AloneCalm DEF CalmAll
<1>. QED BY <1>4, <1>5, <1>6, CalmInv

(* A tick of the clock is the end of no row somebody holds.                *)
LEMMA TickKeeps ==
  ASSUME RecInv, Tick
  PROVE  RecInv'
<1> DEFINE older(r) == [r EXCEPT !.lease = IF r.lease = 0 THEN 0 ELSE r.lease - 1]
<1>1. TypeOK /\ activation \in Table /\ main \in [Processes -> Mains] /\ task \in Tasks
  BY TypesOf DEF RecInv
<1>2. ASSUME NEW r \in MaybeRow
      PROVE  /\ older(r) \in MaybeRow
             /\ older(r) = Activation!NoRow <=> r = Activation!NoRow
             /\ Activation!Exists(r) <=> Activation!Exists(older(r))
             /\ \A p, g : RowHeld(r, p, g) /\ r.lease # 1 => RowHeld(older(r), p, g)
  <2>1. CASE r = Activation!NoRow
    <3>1. older(r) = Activation!NoRow
      BY <2>1 DEF Activation!NoRow
    <3>. QED BY <2>1, <3>1 DEF MaybeRow, RowHeld
  <2>2. CASE r \in Activation!Row
    <3>1. (IF r.lease = 0 THEN 0 ELSE r.lease - 1) \in 0..LeaseTtl
      BY <2>2, RecoveryAssumption DEF Activation!Row
    <3>2. older(r) \in Activation!Row
      BY <2>2, <3>1 DEF Activation!Row
    <3>3. \A p, g : RowHeld(r, p, g) /\ r.lease # 1 => RowHeld(older(r), p, g)
      BY <2>2, RecoveryAssumption
      DEF RowHeld, Activation!CasOk, Activation!Exists, Activation!Settled, Activation!Row
    <3> HIDE DEF older
    <3>. QED BY <2>2, <3>2, <3>3, ExistsTyped DEF MaybeRow
  <2>. QED BY <2>1, <2>2 DEF MaybeRow
<1>3. activation' = [c \in Runs |-> older(activation[c])]
  BY DEF Tick
<1>4. task' \in Tasks /\ task'.run = task.run /\ task'.child = task.child
  <2> DEFINE y == IF task.young = 0 THEN 0 ELSE task.young - 1
  <2>1. task' = [task EXCEPT !.young = y]
    BY DEF Tick
  <2>2. y \in 0..StartingTimeout
    <3>1. task.young \in 0..StartingTimeout
      BY <1>1 DEF Tasks
    <3>. QED BY <3>1, RecoveryAssumption
  <2> HIDE DEF y
  <2>3. task' \in Tasks
    BY <1>1, <2>1, <2>2, TaskTyped
  <2>. QED BY <1>1, <2>1, <2>3 DEF Tasks
<1>5. UNCHANGED <<archived, process, main, loops, runs, shared>>
  BY DEF Tick
<1> HIDE DEF older
<1>6. RowsStay(NoChild)
  BY <1>1, <1>2, <1>3 DEF RowsStay, Table
<1>7. \A c \in Runs : \A p, g :
        RowHeld(activation[c], p, g) /\ activation[c].lease # 1 => RowHeld(activation'[c], p, g)
  BY <1>1, <1>2, <1>3 DEF Table
<1>8. TypeOK'
  BY <1>1, <1>4, <1>5, <1>6 DEF TypeOK, RowsStay, Table, MaybeRow
<1>9. CalmAll /\ OthersOld
  BY <1>1, <1>4, <1>5, <1>6, SameLoops, TypesOf
  DEF CalmAll, CalmStep, SameRun, RowsStay, RecInv, Rest, RowsInv
<1>10. Holds'
  <2>1. ASSUME NEW l \in loops, l.at = "running"
        PROVE  RowHeld(activation'[l.child], l.process, l.generation)
    BY <1>1, <1>7, <2>1 DEF Tick, RecInv, Holds, RunningHold, HoldsRow, TypeOK, Loops
  <2>2. \A p \in Processes : main[p].at \notin Held
    BY DEF Tick, Hurried, Held
  <2>. QED BY <1>5, <2>1, <2>2 DEF Holds, RunningHold, LaunchesHold, HoldsRow
<1>11. Rest'
  BY <1>1, <1>8, <1>9, CalmRest DEF RecInv
<1>. QED BY <1>8, <1>10, <1>11 DEF RecInv

LEMMA BeatKeeps ==
  ASSUME RecInv, NEW l \in loops, Beat(l)
  PROVE  RecInv'
<1> DEFINE r == Activation!Renewed(activation[l.child], LeaseTtl)
<1>1. TypeOK /\ activation \in Table /\ main \in [Processes -> Mains] /\ l.child \in Runs
  BY TypesOf DEF RecInv, TypeOK, Loops
<1>2. Activation!Exists(activation[l.child]) /\ activation[l.child] \in Activation!Row
  BY <1>1, ExistsTyped DEF Beat, Activation!CasOk, Table
<1>3. r \in Activation!Row /\ \A p, g : RowHeld(activation[l.child], p, g) => RowHeld(r, p, g)
  BY <1>2, RenewedRow
<1>4. activation' = [activation EXCEPT ![l.child] = r]
  BY DEF Beat
<1> HIDE DEF r
<1>5. /\ RowsStay(NoChild) /\ activation'[l.child] = r
      /\ \A d \in Runs \ {l.child} : activation'[d] = activation[d]
  BY <1>1, <1>2, <1>3, <1>4, RowWritten
<1>6. HoldsStay
  BY <1>3, <1>5 DEF HoldsStay
<1>7. UNCHANGED <<task, archived, process, main, loops, runs, shared>>
  BY DEF Beat
<1>8. TypeOK'
  BY <1>1, <1>5, <1>7 DEF TypeOK, RowsStay, Table, MaybeRow
<1>9. CalmAll /\ OthersOld
  BY <1>1, <1>5, <1>7, SameLoops, TypesOf
  DEF CalmAll, CalmStep, SameRun, RowsStay, RecInv, Rest, RowsInv
<1>. QED BY <1>6, <1>8, <1>9, CalmInv

LEMMA ReportKeeps ==
  ASSUME RecInv, NEW l \in loops, Report(l)
  PROVE  RecInv'
<1>1. TypeOK /\ activation \in Table /\ main \in [Processes -> Mains] /\ task \in Tasks
  BY TypesOf DEF RecInv
<1>2. SameChild
  <2>1. task' = [task EXCEPT !.status = "reported"] /\ "reported" \in Statuses
    BY DEF Report, Statuses
  <2>2. task' \in Tasks
    BY <1>1, <2>1, TaskTyped
  <2>. QED BY <1>1, <2>1, <2>2 DEF SameChild, Tasks
<1>3. UNCHANGED <<activation, archived, process, main, loops, runs, shared>>
  BY DEF Report
<1>4. RowsStay(NoChild) /\ HoldsStay
  BY <1>1, <1>3, SameRows
<1>5. TypeOK'
  BY <1>1, <1>2, <1>3 DEF TypeOK, SameChild
<1>6. CalmAll /\ OthersOld
  BY <1>1, <1>2, <1>3, <1>4, SameLoops, TypesOf
  DEF CalmAll, CalmStep, SameRun, SameChild, RowsStay, RecInv, Rest, RowsInv
<1>. QED BY <1>4, <1>5, <1>6, CalmInv

LEMMA LoopEndsKeeps ==
  ASSUME RecInv, NEW l \in loops, LoopEnds(l)
  PROVE  RecInv'
<1> DEFINE end(k) == IF SameSession(k, l) /\ k.at = "running" THEN [k EXCEPT !.at = "ended"] ELSE k
<1>1. TypeOK /\ activation \in Table /\ main \in [Processes -> Mains]
  BY TypesOf DEF RecInv
<1>2. \A k \in loops : /\ end(k) \in Loops /\ Older(end(k), k)
                       /\ end(k).at = "running" => end(k) = k /\ ~SameSession(k, l)
                       /\ end(k).at = "ended" => k.at = "ended" \/ SameSession(k, l)
  BY <1>1 DEF TypeOK, Loops, Older, SameSession
<1>3. loops' = {end(k) : k \in loops} /\ UNCHANGED <<task, activation, archived, process, main, runs, shared>>
  BY DEF LoopEnds
<1> HIDE DEF end
<1>4. RowsStay(NoChild) /\ HoldsStay
  BY <1>1, <1>3, SameRows
<1>5. TypeOK'
  BY <1>1, <1>2, <1>3 DEF TypeOK
<1>6. NoNewLoop
  BY <1>2, <1>3 DEF NoNewLoop
<1>7. OthersOld
  <2>1. SUFFICES ASSUME NEW j \in loops', NEW k \in loops', SameSession(j, k), j.at = "running", k.at = "ended"
                 PROVE  task.run # k.run
    BY <1>3 DEF OthersOld
  <2>2. j \in loops /\ ~SameSession(j, l)
    BY <1>2, <1>3, <2>1
  <2>3. PICK i \in loops : k = end(i)
    BY <1>3
  <2>4. i.at = "ended" /\ SameSession(j, i) /\ i.run = k.run
    BY <1>2, <2>1, <2>2, <2>3 DEF Older, SameSession
  <2>. QED BY <2>1, <2>2, <2>4 DEF RecInv, Rest, OldLoops
<1>8. CalmAll
  BY <1>1, <1>3, <1>4, <1>6, TypesOf DEF CalmAll, CalmStep, SameRun, RowsStay, RecInv, Rest, RowsInv
<1>. QED BY <1>4, <1>5, <1>7, <1>8, CalmInv

(* The watcher settles the row of the current run: a loop or a launch of   *)
(* the same session in the same process would be that run's (OldLoops).    *)
LEMMA WatchExitKeeps ==
  ASSUME RecInv, NEW l \in loops, WatchExit(l)
  PROVE  RecInv'
<1> DEFINE m == [l EXCEPT !.at = "parking"]
<1>1. TypeOK /\ activation \in Table /\ main \in [Processes -> Mains] /\ l \in Loops
  BY TypesOf DEF RecInv, TypeOK
<1>2. /\ m \in Loops /\ Older(m, l) /\ m.at = "parking"
      /\ l.at = "ended" /\ l.process \in Processes /\ l.child \in Runs
  BY <1>1 DEF Loops, Older, WatchExit
<1>3. /\ loops' \subseteq (loops \ {l}) \cup {m}
      /\ UNCHANGED <<task, archived, process, main, runs, shared>>
  BY DEF WatchExit, Watched
<1> HIDE DEF m
<1>4. /\ RowsStay(NoChild)
      /\ \/ HoldsStay
         \/ /\ task.run = l.run
            /\ \A d \in Runs : \A q, h : RowHeld(activation[d], q, h) =>
                 RowHeld(activation'[d], q, h) \/ (d = l.child /\ q = l.process)
  <2>1. CASE UNCHANGED activation
    BY <1>1, <2>1, SameRows
  <2>2. CASE /\ NeedsParking(l) /\ Fenced(l.process, l.child, task.generation, "settled")
             /\ Moved(l.child, task.generation, "settled")
    BY <1>1, <1>2, <2>2, TypesOf, FencedMove DEF Activation!ActivationStates, NeedsParking
  <2>. QED BY <2>1, <2>2 DEF WatchExit
<1>5. TypeOK'
  BY <1>1, <1>2, <1>3, <1>4 DEF TypeOK, RowsStay, Table, MaybeRow
<1>6. NoNewLoop /\ OthersOld
  BY <1>2, <1>3 DEF NoNewLoop, Older, OthersOld, RecInv, Rest, OldLoops
<1>7. CalmAll
  BY <1>1, <1>3, <1>4, <1>6, TypesOf DEF CalmAll, CalmStep, SameRun, RowsStay, RecInv, Rest, RowsInv
<1>8. CASE HoldsStay
  BY <1>5, <1>6, <1>7, <1>8, CalmInv
<1>9. CASE /\ task.run = l.run
           /\ \A d \in Runs : \A q, h : RowHeld(activation[d], q, h) =>
                RowHeld(activation'[d], q, h) \/ (d = l.child /\ q = l.process)
  <2>1. ASSUME NEW k \in loops', k.at = "running"
        PROVE  RowHeld(activation'[k.child], k.process, k.generation)
    <3>1. k \in loops /\ k.child \in Runs
      BY <1>1, <1>2, <1>3, <2>1 DEF TypeOK, Loops
    <3>2. ~(k.child = l.child /\ k.process = l.process)
      BY <1>2, <1>9, <2>1, <3>1 DEF RecInv, Rest, OldLoops, SameSession
    <3>. QED BY <1>9, <2>1, <3>1, <3>2 DEF RecInv, Holds, RunningHold, HoldsRow
  <2>2. ASSUME NEW q \in Processes, main[q].at \in Held
        PROVE  RowHeld(activation'[main[q].child], q, main[q].generation)
    <3>1. main[q].child \in Runs
      BY <2>2 DEF RecInv, Rest, StagesInv
    <3>2. ~(main[q].child = l.child /\ q = l.process)
      BY <1>9, <2>2 DEF RecInv, Rest, OldLoops
    <3>. QED BY <1>9, <2>2, <3>1, <3>2 DEF RecInv, Holds, LaunchesHold, HoldsRow
  <2>3. Holds'
    BY <1>3, <2>1, <2>2 DEF Holds, RunningHold, LaunchesHold, HoldsRow
  <2>. QED BY <1>1, <1>5, <1>6, <1>7, <2>3, CalmRest DEF RecInv
<1>. QED BY <1>4, <1>8, <1>9

LEMMA ParkKeeps ==
  ASSUME RecInv, NEW l \in loops, Park(l)
  PROVE  RecInv'
<1>1. TypeOK /\ activation \in Table /\ main \in [Processes -> Mains] /\ task \in Tasks
  BY TypesOf DEF RecInv
<1>2. SameChild
  <2>1. CASE UNCHANGED task
    BY <1>1, <2>1 DEF SameChild
  <2>2. CASE task' = [task EXCEPT !.status = "rejected"]
    <3>1. "rejected" \in Statuses
      BY DEF Statuses
    <3>2. task' \in Tasks
      BY <1>1, <2>2, <3>1, TaskTyped
    <3>. QED BY <1>1, <2>2, <3>2 DEF SameChild, Tasks
  <2>. QED BY <2>1, <2>2 DEF Park
<1>3. loops' = loops \ {l} /\ UNCHANGED <<activation, archived, process, main, runs, shared>>
  BY DEF Park
<1>4. RowsStay(NoChild) /\ HoldsStay
  BY <1>1, <1>3, SameRows
<1>5. TypeOK'
  BY <1>1, <1>2, <1>3 DEF TypeOK, SameChild
<1>6. NoNewLoop /\ OthersOld
  BY <1>2, <1>3 DEF NoNewLoop, Older, OthersOld, SameChild, RecInv, Rest, OldLoops
<1>7. CalmAll
  BY <1>1, <1>2, <1>3, <1>4, <1>6, TypesOf
  DEF CalmAll, CalmStep, SameRun, SameChild, RowsStay, RecInv, Rest, RowsInv
<1>. QED BY <1>4, <1>5, <1>6, <1>7, CalmInv
-----------------------------------------------------------------------------
(* The theorems.                                                           *)

(* Nothing is dispatched at first.                                         *)
LEMMA InitHolds == Init => RecInv
<1> SUFFICES ASSUME Init PROVE RecInv
  OBVIOUS
<1>1. NoTask \in Tasks /\ NoTask.child = NoChild
  BY RecoveryAssumption DEF NoTask, Tasks, Statuses, Lifecycles
<1>2. \A p \in Processes : /\ main[p] \in Mains /\ main[p].at = "off"
                           /\ main[p].run = NoRun /\ main[p].child = NoChild
  BY AtTyped, StagesTyped DEF Init
<1>3. TypeOK
  <2>1. main \in [Processes -> Mains]
    BY <1>2 DEF Init
  <2>2. runs \in 0..MaxRuns
    BY RecoveryAssumption DEF Init
  <2>. QED BY <1>1, <2>1, <2>2 DEF Init, TypeOK
<1>4. StagesInv /\ LaunchesHold
  BY <1>2 DEF StagesInv, LaunchesHold, Held, LaunchStages
<1>5. RunsInv /\ RowsInv /\ FreshInv /\ OldLoops /\ RunningHold
  BY <1>1, <1>2 DEF Init, RunsInv, RowsInv, FreshInv, OldLoops, RunningHold, Held, NoRun
<1>. QED BY <1>3, <1>4, <1>5 DEF RecInv, Holds, Rest

(* The invariant is inductive.                                             *)
LEMMA StepKeeps == RecInv /\ [Next]_vars => RecInv'
<1> SUFFICES ASSUME RecInv, [Next]_vars PROVE RecInv'
  OBVIOUS
<1>1. ASSUME NEW p \in Processes, RecoveryStep(p) PROVE RecInv'
  BY <1>1, ReadPlanKeeps, JudgeKeeps, TakeOverKeeps, RecordTakeoverKeeps, CheckChildKeeps,
     RejectKeeps
  DEF RecoveryStep
<1>2. ASSUME NEW p \in Processes, LaunchStep(p) PROVE RecInv'
  BY <1>2, CommitKeeps, CreateChildKeeps, ClaimResumedKeeps, PublishKeeps, StartKeeps, FailDispatchKeeps
  DEF LaunchStep
<1>3. ASSUME NEW p \in Processes, AgentStep(p) PROVE RecInv'
  BY <1>3, PrepareKeeps, ReviewKeeps, FenceCancelKeeps, WriteCancelKeeps, DrainKeeps, TerminateKeeps
  DEF AgentStep
<1>4. ASSUME NEW l \in loops, Beat(l) \/ Report(l) \/ LoopEnds(l) \/ WatchExit(l) \/ Park(l)
      PROVE  RecInv'
  BY <1>4, BeatKeeps, ReportKeeps, LoopEndsKeeps, WatchExitKeeps, ParkKeeps
<1>5. CASE UNCHANGED vars
  BY <1>5
  DEF vars, RecInv, TypeOK, Holds, RunningHold, LaunchesHold, HoldsRow,
      Rest, StagesInv, RunsInv, RowsInv, FreshInv, OldLoops
<1>. QED BY <1>1, <1>2, <1>3, <1>4, <1>5, OpenKeeps, CrashKeeps, TickKeeps DEF Next

(* The invariant of every process, dispatch, recovery and restart.         *)
THEOREM InvariantHolds == Spec => []RecInv
BY InitHolds, StepKeeps, PTL DEF Spec

(* The task, the rows, the stages of the processes and the loops are what  *)
(* plan.json, plan_activation and recovery.ts can have of them.            *)
THEOREM TypeCorrect == Spec => []TypeOK
<1>1. RecInv => TypeOK
  BY DEF RecInv
<1>. QED BY <1>1, InvariantHolds, PTL

(* No recovery, dispatch or cancel of another process takes a child away   *)
(* from the process that runs it, whatever crashes and in whatever order   *)
(* processes come and go: the lease of a running loop has not expired and  *)
(* its heartbeat passes the fence (recovery.ts, activation.ts).            *)
THEOREM RunningChildIsKept == Spec => []LoopKeepsRow
<1>1. RecInv => LoopKeepsRow
  BY DEF RecInv, Holds, RunningHold, HoldsRow, RowHeld, LoopKeepsRow
<1>. QED BY <1>1, InvariantHolds, PTL
-----------------------------------------------------------------------------
(* One process at a time.                                                  *)

(* A process that does anything is up, and one that has not yet judged the *)
(* plan owns no row and runs no child.                                     *)
Recovering == {"new"} \cup RecoveryStages
UpInv ==
  /\ \A p \in Processes : main[p].at # "off" <=> process[p] = "up"
  /\ \A l \in loops : process[l.process] = "up" /\ main[l.process].at \notin Recovering
OwnersInv ==
  \A p \in Processes, c \in Runs : activation[c].owner = p =>
    process[p] # "off" /\ main[p].at \notin {"new", "judging"}

(* What the only process knows of the task: nobody else writes it, but its *)
(* own loops and watchers, which report or park a run under way.           *)
UnderWay == task.status \in {"dispatched", "running"}
KnowsToken(p) ==
  /\ task.status = "running" /\ ~task.cancelled
  /\ ~Unfenced(task.child, task.generation)
  /\ activation[task.child].owner = p
  => activation[task.child].generation = task.generation

LoneAt(p) ==
  LET at == main[p].at
      child == main[p].child
      generation == main[p].generation
      seen == main[p].seen
  IN
  /\ at \in {"judging", "taking"} => task.status = seen.status /\ task.child = seen.child
                                      /\ task.lifecycle = seen.lifecycle
  /\ at = "taking" => seen.lifecycle = "running"
  /\ at \in {"judging", "taking", "recording"} => Dispatched
  /\ at \in {"recording", "checking", "starting", "ready", "cancelling"} => task.status # "dispatched"
  /\ at \in {"preparing", "draining", "terminating"} => ~UnderWay
  /\ at \in {"preparing", "claiming"} => child # main[p].run
  /\ at \in {"recording", "checking", "claiming", "publishing", "starting"} => task.child = child
  /\ at \in {"checking", "starting"} \/ (at = "publishing" /\ child = main[p].run) =>
       task.generation = generation
  /\ at \in {"ready", "cancelling"} => KnowsToken(p)

LoneInv == ~shared =>
  /\ \A p, q \in Processes : process[p] = "up" /\ process[q] = "up" => p = q
  /\ task.status = "dispatched" => Dispatched /\ task.lifecycle \in {"reserved", "child_created"}
  /\ \A p \in Processes : process[p] = "up" => LoneAt(p)
LoneAll == UpInv /\ OwnersInv /\ LoneInv

(* No row changes hands, and the task keeps the token it records.          *)
OwnersKept ==
  \A c \in Runs : activation'[c].owner = activation[c].owner
                    /\ activation'[c].generation = activation[c].generation
TokenKept ==
  /\ task'.run = task.run /\ task'.child = task.child /\ task'.generation = task.generation
  /\ task'.cancelled = task.cancelled /\ task'.lifecycle = task.lifecycle

(* A process that goes on without a transaction changes no row's owner.    *)
LEMMA MoveKeepsOwners ==
  ASSUME activation \in Table, NEW p \in Processes, NEW c \in Runs \cup {NoChild}, NEW g, NEW to,
         Fenced(p, c, g, to), Moved(c, g, to) \/ Renew(c, g)
  PROVE  OwnersKept
<1>1. CASE Unfenced(c, g)
  BY <1>1 DEF Moved, Renew, OwnersKept
<1>2. CASE ~Unfenced(c, g)
  <2>1. c \in Runs /\ activation[c] \in Activation!Row
    BY <1>2, ExistsTyped DEF Unfenced, Fenced, Activation!CasOk, Table
  <2>2. PICK r : /\ activation' = [activation EXCEPT ![c] = r]
                 /\ r = Activation!Transitioned(activation[c], to, LeaseTtl)
                    \/ r = Activation!Renewed(activation[c], LeaseTtl)
    BY <1>2 DEF Moved, Renew
  <2>3. r.owner = activation[c].owner /\ r.generation = activation[c].generation
    BY <2>1, <2>2 DEF Activation!Transitioned, Activation!Renewed, Activation!Row
  <2>. QED BY <2>1, <2>2, <2>3 DEF OwnersKept, Table
<1>. QED BY <1>1, <1>2

(* What a process knows of the task's child stays true while task and row  *)
(* do.                                                                     *)
LEMMA KnowsKept ==
  ASSUME TypeOK, NEW p \in Processes, KnowsToken(p), OwnersKept, TokenKept,
         task'.status = "running" => task.status = "running"
  PROVE  KnowsToken(p)'
<1>1. task.child \in Runs \cup {NoChild}
  BY TypesOf
<1>. QED BY <1>1 DEF KnowsToken, OwnersKept, TokenKept, Unfenced

(* What is known where one process at a time has had the session open.     *)
LEMMA Sole ==
  ASSUME TypeOK, LoneAll, NEW p \in Processes, main[p].at # "off", ~shared
  PROVE  /\ LoneAt(p) /\ Others(p) = {}
         /\ \A q \in Processes : process[q] = "up" => q = p
         /\ task.status = "dispatched" => Dispatched /\ task.lifecycle \in {"reserved", "child_created"}
         /\ main[p].at \in Recovering => loops = {}
<1>1. process[p] = "up" /\ \A q \in Processes : process[q] = "up" => q = p
  BY DEF LoneAll, UpInv, LoneInv
<1>2. main[p].at \in Recovering => loops = {}
  <2>. SUFFICES ASSUME NEW l \in loops, main[p].at \in Recovering PROVE FALSE
    OBVIOUS
  <2>1. process[l.process] = "up" /\ main[l.process].at \notin Recovering
    BY DEF LoneAll, UpInv
  <2>2. l.process \in Processes
    BY DEF TypeOK, Loops
  <2>. QED BY <1>1, <2>1, <2>2
<1>. QED BY <1>1, <1>2 DEF LoneAll, LoneInv, Others

(* A step of one process, alone or not.                                    *)
LEMMA LoneStep ==
  ASSUME TypeOK, LoneAll, NEW p \in Processes, main[p].at # "off",
         Alone(p), main'[p].at \notin {"off", "new"}, UNCHANGED <<process, shared>>,
         \A l \in loops' : l.process = p \/ l \in loops,
         main'[p].at \in Recovering => main[p].at \in Recovering /\ loops' \subseteq loops,
         main'[p].at = "judging" => main[p].at = "new",
         \A c \in Runs : \/ activation'[c].owner = activation[c].owner
                         \/ activation'[c].owner = p /\ main'[p].at # "judging",
         ~shared => LoneAt(p)',
         ~shared /\ task'.status = "dispatched" =>
           Dispatched' /\ task'.lifecycle \in {"reserved", "child_created"}
  PROVE  LoneAll'
<1>1. UpInv'
  <2>1. process[p] = "up" /\ \A q \in Processes : main'[q].at # "off" <=> process'[q] = "up"
    BY DEF LoneAll, UpInv, Alone
  <2>2. ASSUME NEW l \in loops' PROVE process'[l.process] = "up" /\ main'[l.process].at \notin Recovering
    <3>1. CASE l.process = p /\ l \notin loops
      BY <2>1, <3>1
    <3>2. CASE l \in loops
      <4>1. l.process \in Processes /\ process[l.process] = "up" /\ main[l.process].at \notin Recovering
        BY <3>2 DEF LoneAll, UpInv, TypeOK, Loops
      <4>. QED BY <4>1 DEF Alone
    <3>. QED BY <3>1, <3>2
  <2>. QED BY <2>1, <2>2 DEF UpInv
<1>2. OwnersInv'
  <2>. SUFFICES ASSUME NEW q \in Processes, NEW c \in Runs, activation'[c].owner = q
                PROVE  process'[q] # "off" /\ main'[q].at \notin {"new", "judging"}
    BY DEF OwnersInv
  <2>1. process[p] = "up"
    BY DEF LoneAll, UpInv
  <2>2. CASE activation[c].owner = q
    BY <2>2 DEF LoneAll, OwnersInv, Alone
  <2>3. CASE activation[c].owner # q
    BY <2>1, <2>3
  <2>. QED BY <2>2, <2>3
<1>3. LoneInv'
  <2>. SUFFICES ASSUME ~shared PROVE LoneInv'
    BY DEF LoneInv
  <2>1. \A q \in Processes : process[q] = "up" => q = p
    BY Sole
  <2>. QED BY <2>1 DEF LoneInv
<1>. QED BY <1>1, <1>2, <1>3 DEF LoneAll

(* ... and of a loop, a watcher or the clock: a run under way is reported  *)
(* or parked at most.                                                      *)
LEMMA LoneStays ==
  ASSUME TypeOK, LoneAll, UNCHANGED <<main, process, shared>>, OwnersKept, TokenKept,
         \/ task'.status = task.status
         \/ loops # {} /\ task'.status \notin {"dispatched", "running"},
         \A l \in loops' : \E k \in loops : k.process = l.process
  PROVE  LoneAll'
<1>1. UpInv'
  BY DEF LoneAll, UpInv
<1>2. OwnersInv'
  BY DEF LoneAll, OwnersInv, OwnersKept
<1>3. LoneInv'
  <2>. SUFFICES ASSUME ~shared PROVE LoneInv'
    BY DEF LoneInv
  <2>1. ASSUME NEW p \in Processes, process[p] = "up" PROVE LoneAt(p)'
    <3>1. main[p].at # "off"
      BY <2>1 DEF LoneAll, UpInv
    <3>2. LoneAt(p) /\ (main[p].at \in Recovering => loops = {})
      BY <3>1, Sole
    <3>3. main[p].at \in {"judging", "taking"} => task'.status = task.status
      BY <3>2 DEF Recovering, RecoveryStages
    <3>4. main[p].at \in {"ready", "cancelling"} => KnowsToken(p)'
      BY <3>2, KnowsKept DEF LoneAt
    <3>. QED BY <3>2, <3>3, <3>4 DEF LoneAt, TokenKept, UnderWay, Dispatched
  <2>. QED BY <2>1 DEF LoneAll, LoneInv, TokenKept, Dispatched
<1>. QED BY <1>1, <1>2, <1>3 DEF LoneAll

(* The main agent gets to act again.                                       *)
LEMMA GetsReady ==
  ASSUME TypeOK, LoneAll, NEW p \in Processes, main[p].at # "off", Ready(p),
         UNCHANGED <<process, shared>>, \A l \in loops' : l.process = p \/ l \in loops, OwnersKept,
         ~shared => task'.status # "dispatched" /\ KnowsToken(p)'
  PROVE  LoneAll'
<1>1. Alone(p) /\ main'[p].at = "ready"
  BY TypesOf, ReadyTyped
<1>2. ~shared => LoneAt(p)'
  BY <1>1 DEF LoneAt
<1>. QED BY <1>1, <1>2, LoneStep DEF OwnersKept, Recovering, RecoveryStages

(* No row, no owner changes.                                               *)
LEMMA OwnersSame == UNCHANGED activation => OwnersKept
BY DEF OwnersKept

(* A process that has yet to judge the plan owns no row.                   *)
LEMMA OwnsNothing ==
  ASSUME TypeOK, LoneAll, NEW p \in Processes, main[p].at \in {"new", "judging"},
         UNCHANGED <<task, activation>>
  PROVE  KnowsToken(p)'
<1>1. task.child \in Runs \cup {NoChild}
  BY TypesOf
<1>. QED BY <1>1 DEF LoneAll, OwnersInv, KnowsToken, Unfenced

(* Recovery: the task is as it was read.                                   *)
LEMMA RecoveryLone ==
  ASSUME RecInv, LoneAll, NEW p \in Processes, RecoveryStep(p)
  PROVE  LoneAll'
<1>1. TypeOK /\ activation \in Table /\ main \in [Processes -> Mains] /\ task \in Tasks
  BY TypesOf DEF RecInv
<1>2. /\ main[p].at \in Recovering /\ main[p].at # "off"
      /\ UNCHANGED <<process, loops, shared>>
  BY DEF RecoveryStep, ReadPlan, Judge, TakeOver, RecordTakeover, CheckChild, Reject, Recovering,
         RecoveryStages
<1>3. ~shared =>
        /\ LoneAt(p) /\ Others(p) = {}
        /\ task.status = "dispatched" => Dispatched /\ task.lifecycle \in {"reserved", "child_created"}
  BY <1>1, <1>2, Sole
<1>4. CASE ReadPlan(p)
  <2>1. UNCHANGED <<task, activation>> /\ main[p].at = "new"
    BY <1>4 DEF ReadPlan
  <2>2. CASE ~Dispatched
    <3>1. Ready(p)
      BY <1>4, <2>2 DEF ReadPlan, Ready
    <3>. QED BY <1>1, <1>2, <1>3, <2>1, <2>2, <3>1, GetsReady, OwnersSame, OwnsNothing
  <2>3. CASE Dispatched
    <3> DEFINE m == [At("judging") EXCEPT !.seen = task]
    <3>1. main' = [main EXCEPT ![p] = m]
      BY <1>4, <2>3 DEF ReadPlan
    <3>2. m \in Mains /\ m.at = "judging" /\ m.seen = task
      <4>1. At("judging") \in Mains
        BY AtTyped, StagesTyped DEF RecoveryStages
      <4>. QED BY <1>1, <4>1 DEF Mains, At
    <3> HIDE DEF m
    <3>3. Alone(p) /\ main'[p].at = "judging" /\ main'[p].seen = task
      BY <1>1, <3>1, <3>2, SetTyped
    <3>4. LoneAt(p)'
      BY <2>1, <2>3, <3>3 DEF LoneAt, Dispatched
    <3>. QED BY <1>1, <1>2, <1>3, <2>1, <3>3, <3>4, LoneStep DEF Dispatched
  <2>. QED BY <2>2, <2>3
<1>5. CASE Judge(p)
  <2> DEFINE seen == main[p].seen
  <2>1. UNCHANGED <<task, activation>> /\ main[p].at = "judging"
    BY <1>5 DEF Judge
  <2>2. ~shared => /\ task.status = seen.status /\ task.child = seen.child
                   /\ task.lifecycle = seen.lifecycle /\ Dispatched
    BY <1>3, <2>1 DEF LoneAt
  <2>3. CASE Continued(seen) /\ Ready(p)
    <3>1. ~shared => task.status # "dispatched"
      BY <1>3, <2>2, <2>3 DEF Continued, Leave, Unlaunched, Waits
    <3>. QED BY <1>1, <1>2, <2>1, <2>3, <3>1, GetsReady, OwnersSame, OwnsNothing
  <2>4. CASE Goes(p, "rejecting")
    <3>1. Alone(p) /\ main'[p].at = "rejecting"
      BY <1>1, <2>4, GoesTyped, StagesTyped DEF RecoveryStages
    <3>2. LoneAt(p)'
      BY <3>1 DEF LoneAt
    <3>. QED BY <1>1, <1>2, <1>3, <2>1, <3>1, <3>2, LoneStep DEF Dispatched
  <2>5. CASE TakesOver(seen) /\ Goes(p, "taking")
    <3>1. Alone(p) /\ main'[p].at = "taking" /\ main'[p].seen = seen
      <4>1. Alone(p) /\ main'[p].at = "taking"
        BY <1>1, <2>5, GoesTyped, StagesTyped DEF RecoveryStages
      <4>2. main' = [main EXCEPT ![p].at = "taking"] /\ main[p] \in Mains
        BY <1>1, <2>5 DEF Goes
      <4>3. main'[p] = [main[p] EXCEPT !.at = "taking"]
        BY <1>1, <4>2
      <4>. QED BY <4>1, <4>2, <4>3 DEF Mains
    <3>2. ~shared => LoneAt(p)'
      BY <2>1, <2>2, <2>5, <3>1 DEF LoneAt, TakesOver, Dispatched
    <3>. QED BY <1>1, <1>2, <1>3, <2>1, <3>1, <3>2, LoneStep DEF Dispatched
  <2>. QED BY <1>5, <2>3, <2>4, <2>5 DEF Judge
<1>9. CASE TakeOver(p)
  <2> DEFINE seen == main[p].seen
  <2>1. UNCHANGED task /\ main[p].at = "taking"
    BY <1>9 DEF TakeOver
  <2>2. ~shared => /\ task.status = seen.status /\ task.child = seen.child
                   /\ task.lifecycle = "running" /\ Dispatched
    BY <1>3, <2>1 DEF LoneAt
  <2>4. CASE Goes(p, "rejecting") /\ UNCHANGED activation
    <3>1. Alone(p) /\ main'[p].at = "rejecting"
      BY <1>1, <2>4, GoesTyped, StagesTyped DEF RecoveryStages
    <3>2. LoneAt(p)'
      BY <3>1 DEF LoneAt
    <3>. QED BY <1>1, <1>2, <1>3, <2>1, <2>4, <3>1, <3>2, LoneStep DEF Dispatched
  <2>5. CASE /\ Activation!CanTakeOver(RowOf(seen.child))
             /\ activation' = [activation EXCEPT ![seen.child] = Activation!TakenOver(@, p, LeaseTtl)]
             /\ main' = [main EXCEPT ![p].at = "recording", ![p].child = seen.child,
                                     ![p].generation = activation'[seen.child].generation]
    <3> DEFINE r == Activation!TakenOver(activation[seen.child], p, LeaseTtl)
    <3>1. seen.child \in Runs /\ activation[seen.child] \in Activation!Row
      BY <1>1, <2>5, TypesOf, ExistsTyped
      DEF Activation!CanTakeOver, RowOf, Activation!Exists, Activation!NoRow, Table
    <3>2. r \in Activation!Row /\ r.owner = p
      BY <3>1, TakenOverRow DEF Activation!TakenOver, Activation!Row
    <3>3. activation' = [activation EXCEPT ![seen.child] = r]
      BY <2>5
    <3>a. main' = [main EXCEPT ![p].at = "recording", ![p].child = seen.child,
                               ![p].generation = activation'[seen.child].generation]
      BY <2>5
    <3> HIDE DEF r, seen
    <3>4. /\ activation'[seen.child] = r
          /\ \A d \in Runs \ {seen.child} : activation'[d] = activation[d]
      BY <1>1, <3>1, <3>2, <3>3, RowWritten
    <3>5. "recording" \in Stages /\ activation'[seen.child].generation \in Nat
      BY <3>2, <3>4, StagesTyped DEF RecoveryStages, Activation!Row
    <3>6. Alone(p) /\ main'[p].at = "recording" /\ main'[p].child = seen.child
      BY <1>1, <3>1, <3>5, <3>a DEF Alone, Mains
    <3>7. ~shared => task.status # "dispatched"
      BY <1>3, <2>2, <3>1
    <3>8. ~shared => LoneAt(p)'
      BY <2>1, <2>2, <3>6, <3>7 DEF LoneAt, Dispatched
    <3>9. \A c \in Runs : activation'[c].owner \in {activation[c].owner, p}
      BY <3>2, <3>4
    <3>. QED BY <1>1, <1>2, <2>1, <3>6, <3>7, <3>8, <3>9, LoneStep
  <2>. QED BY <1>9, <2>4, <2>5 DEF TakeOver
<1>6. CASE RecordTakeover(p)
  <2>1. UNCHANGED activation /\ main[p].at = "recording"
    BY <1>6 DEF RecordTakeover
  <2>2. CASE Goes(p, "checking") /\ task' = IF Dispatched THEN TakeoverRecorded(main[p].generation) ELSE task
    <3>1. /\ Alone(p) /\ main'[p].at = "checking"
          /\ main'[p].child = main[p].child /\ main'[p].generation = main[p].generation
      BY <1>1, <2>2, GoesTyped, StagesTyped DEF RecoveryStages
    <3>2. ~shared => task' = [task EXCEPT !.generation = main[p].generation, !.lifecycle = "starting"]
      BY <1>3, <2>1, <2>2 DEF LoneAt, TakeoverRecorded
    <3>3. ~shared => task'.status # "dispatched" /\ task'.child = main[p].child
                       /\ task'.generation = main[p].generation
      BY <1>1, <1>3, <2>1, <3>2 DEF LoneAt, Tasks
    <3>4. ~shared => LoneAt(p)'
      BY <3>1, <3>3 DEF LoneAt
    <3>. QED BY <1>1, <1>2, <2>1, <3>1, <3>3, <3>4, LoneStep
  <2>3. CASE Goes(p, "rejecting") /\ UNCHANGED task
    <3>1. Alone(p) /\ main'[p].at = "rejecting"
      BY <1>1, <2>3, GoesTyped, StagesTyped DEF RecoveryStages
    <3>2. LoneAt(p)'
      BY <3>1 DEF LoneAt
    <3>. QED BY <1>1, <1>2, <1>3, <2>1, <2>3, <3>1, <3>2, LoneStep DEF Dispatched
  <2>. QED BY <1>6, <2>2, <2>3 DEF RecordTakeover
<1>7. CASE CheckChild(p)
  <2>1. UNCHANGED task /\ main[p].at = "checking"
    BY <1>7 DEF CheckChild
  <2>2. CASE /\ Fenced(p, main[p].child, main[p].generation, "running")
             /\ Moved(main[p].child, main[p].generation, "running") /\ Ready(p)
    <3>1. OwnersKept
      BY <1>1, <2>2, TypesOf, MoveKeepsOwners
    <3>2. ~shared => KnowsToken(p)
      BY <1>3, <2>1, <2>2 DEF LoneAt, KnowsToken, Fenced, Activation!CasOk
    <3>3. ~shared => KnowsToken(p)'
      BY <1>1, <2>1, <3>1, <3>2, KnowsKept DEF TokenKept
    <3>4. ~shared => task.status # "dispatched"
      BY <1>3, <2>1 DEF LoneAt
    <3>. QED BY <1>1, <1>2, <2>1, <2>2, <3>1, <3>3, <3>4, GetsReady
  <2>3. CASE Goes(p, "rejecting") /\ UNCHANGED activation
    <3>1. Alone(p) /\ main'[p].at = "rejecting"
      BY <1>1, <2>3, GoesTyped, StagesTyped DEF RecoveryStages
    <3>2. LoneAt(p)'
      BY <3>1 DEF LoneAt
    <3>. QED BY <1>1, <1>2, <1>3, <2>1, <2>3, <3>1, <3>2, LoneStep DEF Dispatched
  <2>. QED BY <1>7, <2>2, <2>3 DEF CheckChild
<1>8. CASE Reject(p)
  <2>1. UNCHANGED activation /\ Ready(p)
    BY <1>8 DEF Reject
  <2>2. ~shared => task'.status = "rejected"
    BY <1>1, <1>3, <1>8 DEF Reject, WriteFails, Tasks
  <2>. QED BY <1>1, <1>2, <2>1, <2>2, GetsReady, OwnersSame DEF KnowsToken
<1>. QED BY <1>4, <1>5, <1>6, <1>7, <1>8, <1>9 DEF RecoveryStep

(* A claim gives the row to the process that claims it.                    *)
LEMMA ClaimOwned ==
  ASSUME TypeOK, NEW p \in Processes, NEW c \in Runs, NEW next \in Stages,
         main[p].run \in Runs, ClaimFor(p, c, next)
  PROVE  /\ Alone(p) /\ main'[p].at = next /\ main'[p].run = main[p].run /\ main'[p].child = c
         /\ \A d \in Runs : activation'[d].owner \in {activation[d].owner, p}
<1> DEFINE r == Activation!Claimed(activation[c], p, main[p].run, LeaseTtl)
<1>1. activation \in Table /\ main \in [Processes -> Mains]
  BY TypesOf
<1>2. r \in Activation!Row /\ r.owner = p
  BY <1>1, ClaimedRow DEF Table, RowHeld, Activation!CasOk
<1>3. activation' = [activation EXCEPT ![c] = r]
  BY DEF ClaimFor
<1> HIDE DEF r
<1>4. activation'[c] = r /\ \A d \in Runs \ {c} : activation'[d] = activation[d]
  BY <1>1, <1>2, <1>3, RowWritten
<1>5. main' = [main EXCEPT ![p].at = next, ![p].child = c, ![p].generation = r.generation]
  BY <1>4 DEF ClaimFor
<1>6. r.generation \in Nat
  BY <1>2 DEF Activation!Row
<1>7. Alone(p) /\ main'[p].at = next /\ main'[p].run = main[p].run /\ main'[p].child = c
  BY <1>1, <1>5, <1>6 DEF Alone, Mains
<1>. QED BY <1>2, <1>4, <1>7

(* A launch that fails knows nothing any more.                             *)
LEMMA FailsLone ==
  ASSUME TypeOK, LoneAll, NEW p \in Processes, main[p].at \in LaunchStages, Goes(p, "failing"),
         UNCHANGED <<task, activation, process, shared>>, \A l \in loops' : l.process = p \/ l \in loops
  PROVE  LoneAll'
<1>1. Alone(p) /\ main'[p].at = "failing" /\ main[p].at # "off"
  BY TypesOf, GoesTyped, StagesTyped DEF LaunchStages
<1>2. LoneAt(p)'
  BY <1>1 DEF LoneAt
<1>3. ~shared /\ task.status = "dispatched" => Dispatched /\ task.lifecycle \in {"reserved", "child_created"}
  BY <1>1, Sole
<1>. QED BY <1>1, <1>2, <1>3, LoneStep DEF Recovering, RecoveryStages, Dispatched

(* A launch: the run that is dispatched is this process's until its loop   *)
(* is there, and the token the plan has of it is the one that was claimed. *)
LEMMA LaunchLone ==
  ASSUME RecInv, LoneAll, NEW p \in Processes, LaunchStep(p)
  PROVE  LoneAll'
<1>1. TypeOK /\ activation \in Table /\ main \in [Processes -> Mains] /\ task \in Tasks
  BY TypesOf DEF RecInv
<1>2. /\ main[p].at \in LaunchStages /\ main[p].at # "off"
      /\ UNCHANGED <<process, shared>>
  BY DEF LaunchStep, Commit, CreateChild, ClaimResumed, MarkCreated, Publish, Start, FailDispatch,
         LaunchStages
<1>3. ~shared =>
        /\ LoneAt(p)
        /\ task.status = "dispatched" => Dispatched /\ task.lifecycle \in {"reserved", "child_created"}
  BY <1>1, <1>2, Sole
<1>4. main[p].run \in Runs
  BY <1>2 DEF RecInv, Rest, StagesInv
<1>5. \A s \in LaunchStages : s \in Stages /\ s \notin Recovering \cup {"off"}
  BY StagesTyped DEF LaunchStages, Recovering, RecoveryStages
<1>6. "terminating" \in Stages /\ "terminating" \notin Recovering
  BY StagesTyped DEF CancelStages, Recovering, RecoveryStages
<1>7. CASE Commit(p)
  <2>1. UNCHANGED <<activation, loops>> /\ main[p].at = "preparing"
    BY <1>7 DEF Commit
  <2>2. CASE ~Dispatchable
    <3>1. Ready(p) /\ UNCHANGED task
      BY <1>7, <2>2 DEF Commit
    <3>2. ~shared => task'.status # "dispatched" /\ KnowsToken(p)'
      BY <1>3, <2>1, <3>1 DEF LoneAt, UnderWay, KnowsToken
    <3>. QED BY <1>1, <1>2, <2>1, <3>1, <3>2, GetsReady, OwnersSame
  <2>3. CASE Dispatchable
    <3> DEFINE stage == IF main[p].child = NoChild THEN "creating" ELSE "claiming"
    <3>1. task' = [task EXCEPT !.status = "dispatched", !.run = main[p].run,
                     !.child = main[p].child, !.generation = 0, !.lifecycle = "reserved",
                     !.cancelled = FALSE, !.young = StartingTimeout, !.merged = FALSE]
      BY <1>7, <2>3 DEF Commit
    <3>2. task'.run = main[p].run /\ task'.child = main[p].child /\ task'.lifecycle = "reserved"
      BY <1>1, <3>1 DEF Tasks
    <3>3. stage \in LaunchStages /\ stage \in {"creating", "claiming"} /\ Goes(p, stage)
      BY <1>7, <2>3 DEF Commit, LaunchStages
    <3> HIDE DEF stage
    <3>4. Alone(p) /\ main'[p].at = stage /\ main'[p].run = main[p].run /\ main'[p].child = main[p].child
      BY <1>1, <1>5, <3>3, GoesTyped
    <3>5. ~shared => LoneAt(p)'
      BY <1>3, <2>1, <3>2, <3>3, <3>4 DEF LoneAt
    <3>6. Dispatched'
      BY <1>4, <3>2, RunsTyped DEF Dispatched
    <3>. QED BY <1>1, <1>2, <1>5, <2>1, <3>2, <3>3, <3>4, <3>5, <3>6, LoneStep DEF Recovering, RecoveryStages
  <2>. QED BY <2>2, <2>3
<1>8. CASE CreateChild(p)
  <2>1. UNCHANGED <<task, loops>>
    BY <1>8 DEF CreateChild
  <2>2. CASE ClaimFor(p, main[p].run, "marking")
    <3>1. /\ Alone(p) /\ main'[p].at = "marking"
          /\ \A d \in Runs : activation'[d].owner \in {activation[d].owner, p}
      BY <1>1, <1>4, <1>5, <2>2, ClaimOwned DEF LaunchStages
    <3>2. LoneAt(p)'
      BY <3>1 DEF LoneAt
    <3>. QED BY <1>1, <1>2, <1>3, <2>1, <3>1, <3>2, LoneStep DEF Dispatched, Recovering, RecoveryStages
  <2>3. CASE Goes(p, "failing") /\ UNCHANGED activation
    BY <1>1, <1>2, <2>1, <2>3, FailsLone
  <2>. QED BY <1>8, <2>2, <2>3 DEF CreateChild
<1>9. CASE ClaimResumed(p)
  <2>1. UNCHANGED <<task, loops>> /\ main[p].at = "claiming" /\ main[p].child \in Runs
    BY <1>9 DEF ClaimResumed, RecInv, Rest, StagesInv
  <2>2. CASE ClaimFor(p, main[p].child, "publishing")
    <3>1. /\ Alone(p) /\ main'[p].at = "publishing" /\ main'[p].run = main[p].run
          /\ main'[p].child = main[p].child
          /\ \A d \in Runs : activation'[d].owner \in {activation[d].owner, p}
      BY <1>1, <1>4, <1>5, <2>1, <2>2, ClaimOwned DEF LaunchStages
    <3>2. ~shared => LoneAt(p)'
      BY <1>3, <2>1, <3>1 DEF LoneAt
    <3>. QED BY <1>1, <1>2, <1>3, <2>1, <3>1, <3>2, LoneStep DEF Dispatched, Recovering, RecoveryStages
  <2>3. CASE Goes(p, "failing") /\ UNCHANGED activation
    BY <1>1, <1>2, <2>1, <2>3, FailsLone
  <2>. QED BY <1>9, <2>2, <2>3 DEF ClaimResumed
<1>10. CASE MarkCreated(p)
  <2>1. /\ UNCHANGED <<activation, loops>> /\ main[p].at = "marking"
        /\ task' = [task EXCEPT !.child = main[p].child, !.generation = main[p].generation,
                                !.lifecycle = "child_created"]
    BY <1>10 DEF MarkCreated
  <2>2. /\ task'.child = main[p].child /\ task'.generation = main[p].generation
        /\ task'.lifecycle = "child_created" /\ task'.status = task.status /\ task'.run = task.run
    BY <1>1, <2>1 DEF Tasks
  <2>3. /\ Alone(p) /\ main'[p].at = "publishing"
        /\ main'[p].child = main[p].child /\ main'[p].generation = main[p].generation
    BY <1>1, <1>5, <1>10, GoesTyped DEF MarkCreated, LaunchStages
  <2>4. LoneAt(p)'
    BY <2>2, <2>3 DEF LoneAt
  <2>. QED BY <1>1, <1>2, <1>3, <2>1, <2>2, <2>3, <2>4, LoneStep DEF Dispatched, Recovering, RecoveryStages
<1>11. CASE Publish(p)
  <2> DEFINE g == IF main[p].child = main[p].run THEN task.generation ELSE main[p].generation
  <2>1. /\ UNCHANGED <<activation, loops>> /\ main[p].at = "publishing"
        /\ task' = [task EXCEPT !.status = "running", !.lifecycle = "running", !.generation = g]
    BY <1>11 DEF Publish
  <2>2. ~shared => g = main[p].generation /\ task.child = main[p].child
    BY <1>3, <2>1 DEF LoneAt
  <2> HIDE DEF g
  <2>3. task'.child = task.child /\ task'.generation = g /\ task'.status = "running"
    BY <1>1, <2>1 DEF Tasks
  <2>4. /\ Alone(p) /\ main'[p].at = "starting"
        /\ main'[p].child = main[p].child /\ main'[p].generation = main[p].generation
    BY <1>1, <1>5, <1>11, GoesTyped DEF Publish, LaunchStages
  <2>5. ~shared => LoneAt(p)'
    BY <2>2, <2>3, <2>4 DEF LoneAt
  <2>. QED BY <1>1, <1>2, <2>1, <2>3, <2>4, <2>5, LoneStep DEF Recovering, RecoveryStages
<1>12. CASE Start(p)
  <2>1. UNCHANGED task /\ main[p].at = "starting" /\ \A l \in loops' : l.process = p \/ l \in loops
    BY <1>12 DEF Start, NewLoop
  <2>2. CASE /\ Fenced(p, main[p].child, main[p].generation, "running")
             /\ Moved(main[p].child, main[p].generation, "running") /\ Ready(p)
    <3>1. OwnersKept
      BY <1>1, <2>2, TypesOf, MoveKeepsOwners
    <3>2. activation[main[p].child].generation = main[p].generation
      BY <2>1 DEF RecInv, Holds, LaunchesHold, HoldsRow, RowHeld, Held, Activation!CasOk
    <3>3. ~shared => KnowsToken(p)
      BY <1>3, <2>1, <3>2 DEF LoneAt, KnowsToken
    <3>4. ~shared => task'.status # "dispatched" /\ KnowsToken(p)'
      BY <1>1, <1>3, <2>1, <3>1, <3>3, KnowsKept DEF TokenKept, LoneAt
    <3>. QED BY <1>1, <1>2, <2>1, <2>2, <3>1, <3>4, GetsReady
  <2>3. CASE Goes(p, "failing") /\ UNCHANGED activation
    BY <1>1, <1>2, <2>1, <2>3, FailsLone
  <2>. QED BY <1>12, <2>2, <2>3 DEF Start
<1>13. CASE FailDispatch(p)
  <2>1. /\ UNCHANGED <<activation, loops>>
        /\ task' = [task EXCEPT !.status = "rejected", !.lifecycle = "settled"]
    BY <1>13 DEF FailDispatch
  <2>2. task'.status = "rejected"
    BY <1>1, <2>1 DEF Tasks
  <2>3. CASE Ready(p)
    BY <1>1, <1>2, <2>1, <2>2, <2>3, GetsReady, OwnersSame DEF KnowsToken
  <2>4. CASE Goes(p, "terminating")
    <3>1. Alone(p) /\ main'[p].at = "terminating"
      BY <1>1, <1>6, <2>4, GoesTyped
    <3>2. LoneAt(p)'
      BY <2>2, <3>1 DEF LoneAt, UnderWay
    <3>. QED BY <1>1, <1>2, <2>1, <2>2, <3>1, <3>2, LoneStep DEF Recovering, RecoveryStages
  <2>. QED BY <1>13, <2>3, <2>4 DEF FailDispatch
<1>. QED BY <1>7, <1>8, <1>9, <1>10, <1>11, <1>12, <1>13 DEF LaunchStep

(* The main agent keeps what it knows to the end of its call.              *)
LEMMA AgentLone ==
  ASSUME RecInv, LoneAll, NEW p \in Processes, AgentStep(p)
  PROVE  LoneAll'
<1>1. TypeOK /\ activation \in Table /\ main \in [Processes -> Mains] /\ task \in Tasks
  BY TypesOf DEF RecInv
<1>2. /\ main[p].at \in {"ready", "cancelling", "draining", "terminating"} /\ main[p].at # "off"
      /\ UNCHANGED <<process, shared>>
  BY DEF AgentStep, Prepare, Approve, RejectReport, Reopen, FenceCancel, WriteCancel, Drain, Terminate, Merge
<1>3. ~shared =>
        /\ LoneAt(p)
        /\ task.status = "dispatched" => Dispatched /\ task.lifecycle \in {"reserved", "child_created"}
  BY <1>1, <1>2, Sole
<1>4. {"cancelling", "draining", "terminating"} \subseteq Stages \ Recovering
  BY StagesTyped DEF CancelStages, Recovering, RecoveryStages
<1>5. CASE Prepare(p) \/ RejectReport(p)
  <2>1. UNCHANGED <<activation, loops>>
    BY <1>5 DEF Prepare, RejectReport
  <2>2. /\ Alone(p) /\ main'[p].at = "preparing" /\ main'[p].run = runs + 1
        /\ main'[p].child \in {NoChild, task.child} /\ runs + 1 \in Runs
    BY <1>1, <1>5, PrepareEffect
  <2>3. task'.status \in {"pending", "rejected"}
    BY <1>1, <1>5 DEF Prepare, RejectReport, Dispatchable, Tasks
  <2>4. main'[p].child # main'[p].run
    <3>1. activation[runs + 1] = Activation!NoRow
      BY <1>1, <2>2, RunsTyped DEF RecInv, Rest, FreshInv, TypeOK
    <3>2. task.child # runs + 1
      BY <2>2, <3>1, RunsTyped DEF RecInv, Rest, RowsInv, Activation!Exists, Activation!NoRow
    <3>. QED BY <2>2, <3>2, RunsTyped
  <2>5. LoneAt(p)'
    BY <2>2, <2>3, <2>4 DEF LoneAt, UnderWay
  <2>. QED BY <1>1, <1>2, <2>1, <2>2, <2>3, <2>5, LoneStep DEF Recovering, RecoveryStages
<1>6. CASE Approve(p) \/ Reopen(p) \/ Merge(p)
  <2>1. UNCHANGED <<main, loops>> /\ main[p].at = "ready"
    BY <1>6 DEF Approve, Reopen, Merge
  <2>2. task'.status \in {"approved", "pending"}
    BY <1>1, <1>6 DEF Approve, Reopen, Merge, Mergeable, Tasks
  <2>3. OwnersKept
    <3>1. CASE UNCHANGED activation
      BY <3>1, OwnersSame
    <3>2. CASE Fenced(p, task.child, task.generation, "draining") /\ Renew(task.child, task.generation)
      BY <1>1, <3>2, TypesOf, MoveKeepsOwners
    <3>. QED BY <1>6, <3>1, <3>2 DEF Approve, Reopen, Merge
  <2>4. LoneAt(p)'
    BY <2>1, <2>2 DEF LoneAt, KnowsToken
  <2>. QED BY <1>1, <1>2, <2>1, <2>2, <2>3, <2>4, LoneStep DEF Alone, OwnersKept, Recovering, RecoveryStages
<1>7. CASE FenceCancel(p)
  <2>1. UNCHANGED <<task, loops>> /\ main[p].at = "ready" /\ Goes(p, "cancelling")
    BY <1>7 DEF FenceCancel
  <2>2. OwnersKept
    BY <1>1, <1>7, TypesOf, MoveKeepsOwners DEF FenceCancel
  <2>3. Alone(p) /\ main'[p].at = "cancelling"
    BY <1>1, <1>4, <2>1, GoesTyped
  <2>4. ~shared => task.status # "dispatched" /\ KnowsToken(p)'
    BY <1>1, <1>3, <2>1, <2>2, KnowsKept DEF LoneAt, TokenKept
  <2>5. ~shared => LoneAt(p)'
    BY <2>1, <2>3, <2>4 DEF LoneAt
  <2>. QED BY <1>1, <1>2, <2>1, <2>2, <2>3, <2>4, <2>5, LoneStep DEF OwnersKept, Recovering, RecoveryStages
<1>8. CASE WriteCancel(p)
  <2>1. UNCHANGED <<activation, loops>> /\ main[p].at = "cancelling" /\ OwnersKept
    BY <1>8, OwnersSame DEF WriteCancel
  <2>2. CASE Ready(p) /\ UNCHANGED task
    <3>1. ~shared => task'.status # "dispatched" /\ KnowsToken(p)'
      BY <1>1, <1>3, <2>1, <2>2, KnowsKept DEF LoneAt, TokenKept
    <3>. QED BY <1>1, <1>2, <2>1, <2>2, <3>1, GetsReady
  <2>3. CASE /\ task' = [task EXCEPT !.status = "pending", !.cancelled = TRUE]
             /\ main' = [main EXCEPT ![p].at = "draining", ![p].child = task.child]
    <3>1. task'.status = "pending"
      BY <1>1, <2>3 DEF Tasks
    <3>2. task.child \in Runs \cup {NoChild} /\ "draining" \in Stages
      BY <1>1, <1>4, TypesOf
    <3>3. Alone(p) /\ main'[p].at = "draining"
      BY <1>1, <2>3, <3>2 DEF Alone, Mains
    <3>4. LoneAt(p)'
      BY <3>1, <3>3 DEF LoneAt, UnderWay
    <3>. QED BY <1>1, <1>2, <2>1, <3>1, <3>3, <3>4, LoneStep DEF Recovering, RecoveryStages
  <2>. QED BY <1>8, <2>2, <2>3 DEF WriteCancel
<1>9. CASE Drain(p)
  <2>1. UNCHANGED <<task, loops>> /\ main[p].at = "draining"
    BY <1>9 DEF Drain
  <2>2. ~shared => ~UnderWay /\ task'.status # "dispatched" /\ KnowsToken(p)'
    BY <1>3, <2>1 DEF LoneAt, UnderWay, KnowsToken
  <2>3. CASE Ready(p) /\ UNCHANGED activation
    BY <1>1, <1>2, <2>1, <2>2, <2>3, GetsReady, OwnersSame
  <2>4. CASE /\ Fenced(p, main[p].child, task.generation, "draining")
             /\ Moved(main[p].child, task.generation, "draining") /\ Goes(p, "terminating")
    <3>1. OwnersKept
      BY <1>1, <2>4, TypesOf, MoveKeepsOwners
    <3>2. Alone(p) /\ main'[p].at = "terminating"
      BY <1>1, <1>4, <2>4, GoesTyped
    <3>3. ~shared => LoneAt(p)'
      BY <2>1, <2>2, <3>2 DEF LoneAt, UnderWay
    <3>. QED BY <1>1, <1>2, <2>1, <2>2, <3>1, <3>2, <3>3, LoneStep DEF OwnersKept, Recovering, RecoveryStages
  <2>. QED BY <1>9, <2>3, <2>4 DEF Drain
<1>10. CASE Terminate(p)
  <2>1. /\ UNCHANGED task /\ main[p].at = "terminating" /\ loops' \subseteq loops /\ Ready(p)
        /\ UNCHANGED activation
           \/ /\ Fenced(p, main[p].child, task.generation, "settled")
              /\ Moved(main[p].child, task.generation, "settled")
    BY <1>10 DEF Terminate
  <2>2. OwnersKept
    BY <1>1, <2>1, TypesOf, MoveKeepsOwners, OwnersSame
  <2>3. ~shared => task'.status # "dispatched" /\ KnowsToken(p)'
    BY <1>3, <2>1 DEF LoneAt, UnderWay, KnowsToken
  <2>. QED BY <1>1, <1>2, <2>1, <2>2, <2>3, GetsReady
<1>. QED BY <1>5, <1>6, <1>7, <1>8, <1>9, <1>10 DEF AgentStep

(* A process that comes owns nothing; what one that goes has owned stays   *)
(* its own, for recovery to find.                                          *)
LEMMA OpenLone ==
  ASSUME RecInv, LoneAll, NEW p \in Processes, Open(p)
  PROVE  LoneAll'
<1>1. TypeOK
  BY DEF RecInv
<1>2. /\ process[p] = "off" /\ process' = [process EXCEPT ![p] = "up"]
      /\ shared' = (shared \/ Others(p) # {})
      /\ UNCHANGED <<task, activation, loops>>
  BY DEF Open
<1>3. Alone(p) /\ main'[p].at = "new"
  BY <1>1, TypesOf, GoesTyped, StagesTyped DEF Open
<1>4. process'[p] = "up" /\ \A q \in Processes \ {p} : process'[q] = process[q]
  BY <1>1, <1>2 DEF TypeOK
<1>5. UpInv'
  <2>1. \A q \in Processes : main'[q].at # "off" <=> process'[q] = "up"
    BY <1>3, <1>4 DEF LoneAll, UpInv, Alone
  <2>2. ASSUME NEW l \in loops PROVE process'[l.process] = "up" /\ main'[l.process].at \notin Recovering
    <3>1. l.process \in Processes /\ process[l.process] = "up" /\ main[l.process].at \notin Recovering
      BY <1>1 DEF LoneAll, UpInv, TypeOK, Loops
    <3>. QED BY <1>2, <1>3, <1>4, <3>1 DEF Alone
  <2>. QED BY <1>2, <2>1, <2>2 DEF UpInv
<1>6. OwnersInv'
  BY <1>2, <1>3, <1>4 DEF LoneAll, OwnersInv, Alone
<1>7. LoneInv'
  <2>. SUFFICES ASSUME ~shared' PROVE LoneInv'
    BY DEF LoneInv
  <2>1. \A q \in Processes : process'[q] = "up" => q = p
    BY <1>2, <1>4 DEF Others
  <2>2. LoneAt(p)'
    BY <1>3 DEF LoneAt
  <2>3. task.status = "dispatched" => Dispatched /\ task.lifecycle \in {"reserved", "child_created"}
    BY <1>2 DEF LoneAll, LoneInv
  <2>. QED BY <1>2, <2>1, <2>2, <2>3 DEF LoneInv, Dispatched
<1>. QED BY <1>5, <1>6, <1>7 DEF LoneAll

(* A process that dies takes its launch and its loops with it and leaves   *)
(* the rows.                                                               *)
LEMMA CrashLone ==
  ASSUME RecInv, LoneAll, NEW p \in Processes, Crash(p)
  PROVE  LoneAll'
<1>1. TypeOK
  BY DEF RecInv
<1>2. /\ process' = [process EXCEPT ![p] = "gone"] /\ main' = [main EXCEPT ![p] = At("off")]
      /\ loops' = {l \in loops : l.process # p} /\ UNCHANGED <<task, activation, shared>>
  BY DEF Crash
<1>3. Alone(p) /\ main'[p].at = "off"
  BY <1>1, <1>2, TypesOf, AtTyped, StagesTyped, SetTyped
<1>4. process'[p] = "gone" /\ \A q \in Processes \ {p} : process'[q] = process[q]
  BY <1>1, <1>2 DEF TypeOK
<1>5. UpInv'
  <2>1. \A q \in Processes : main'[q].at # "off" <=> process'[q] = "up"
    BY <1>3, <1>4 DEF LoneAll, UpInv, Alone
  <2>2. ASSUME NEW l \in loops, l.process # p
        PROVE  process'[l.process] = "up" /\ main'[l.process].at \notin Recovering
    <3>1. l.process \in Processes /\ process[l.process] = "up" /\ main[l.process].at \notin Recovering
      BY <1>1 DEF LoneAll, UpInv, TypeOK, Loops
    <3>. QED BY <1>3, <1>4, <2>2, <3>1 DEF Alone
  <2>. QED BY <1>2, <2>1, <2>2 DEF UpInv
<1>6. OwnersInv'
  BY <1>2, <1>3, <1>4 DEF LoneAll, OwnersInv, Alone
<1>7. LoneInv'
  <2>. SUFFICES ASSUME ~shared PROVE LoneInv'
    BY <1>2 DEF LoneInv
  <2>1. \A q \in Processes : process'[q] = "up" => process[q] = "up" /\ main'[q] = main[q]
    BY <1>3, <1>4 DEF Alone
  <2>2. ASSUME NEW q \in Processes, process'[q] = "up" PROVE LoneAt(q)'
    <3>1. LoneAt(q) /\ main'[q] = main[q]
      BY <2>1, <2>2 DEF LoneAll, LoneInv
    <3>. QED BY <1>2, <3>1 DEF LoneAt, KnowsToken, UnderWay, Dispatched, Unfenced
  <2>3. task.status = "dispatched" => Dispatched /\ task.lifecycle \in {"reserved", "child_created"}
    BY DEF LoneAll, LoneInv
  <2>4. \A q, r \in Processes : process'[q] = "up" /\ process'[r] = "up" => q = r
    BY <2>1 DEF LoneAll, LoneInv
  <2>. QED BY <1>2, <2>2, <2>3, <2>4 DEF LoneInv, Dispatched
<1>. QED BY <1>5, <1>6, <1>7 DEF LoneAll

(* Heartbeats, reports, exits and the clock take nothing from anybody.     *)
LEMMA ChildLone ==
  ASSUME RecInv, LoneAll, NEW l \in loops,
         Beat(l) \/ Report(l) \/ LoopEnds(l) \/ WatchExit(l) \/ Park(l)
  PROVE  LoneAll'
<1>1. TypeOK /\ activation \in Table /\ task \in Tasks /\ l \in Loops
  BY TypesOf DEF RecInv, TypeOK
<1>2. UNCHANGED <<main, process, shared>>
  BY DEF Beat, Report, LoopEnds, WatchExit, Park
<1>3. /\ TokenKept
      /\ task'.status = task.status \/ task'.status \notin {"dispatched", "running"}
  <2>1. CASE UNCHANGED task
    BY <2>1 DEF TokenKept
  <2>2. CASE task' = [task EXCEPT !.status = "reported"] \/ task' = [task EXCEPT !.status = "rejected"]
    BY <1>1, <2>2 DEF TokenKept, Tasks
  <2>. QED BY <2>1, <2>2 DEF Beat, Report, LoopEnds, WatchExit, Park
<1>4. OwnersKept
  <2>1. CASE UNCHANGED activation
    BY <2>1, OwnersSame
  <2>2. CASE Beat(l)
    <3>1. /\ l.child \in Runs /\ activation[l.child] \in Activation!Row
          /\ activation' = [activation EXCEPT ![l.child] = Activation!Renewed(@, LeaseTtl)]
      BY <1>1, <2>2, ExistsTyped DEF Beat, Activation!CasOk, Table, Loops
    <3> DEFINE r == Activation!Renewed(activation[l.child], LeaseTtl)
    <3>2. r.owner = activation[l.child].owner /\ r.generation = activation[l.child].generation
      BY <3>1 DEF Activation!Renewed, Activation!Row
    <3>3. activation' = [activation EXCEPT ![l.child] = r]
      BY <3>1
    <3> HIDE DEF r
    <3>. QED BY <1>1, <3>1, <3>2, <3>3 DEF OwnersKept, Table
  <2>3. CASE /\ Fenced(l.process, l.child, task.generation, "settled")
             /\ Moved(l.child, task.generation, "settled")
    <3>1. l.process \in Processes /\ l.child \in Runs \cup {NoChild}
      BY <1>1 DEF Loops
    <3>. QED BY <1>1, <2>3, <3>1, MoveKeepsOwners
  <2>. QED BY <2>1, <2>2, <2>3 DEF Report, LoopEnds, WatchExit, Park
<1>5. \A k \in loops' : \E j \in loops : j.process = k.process
  <2>1. CASE loops' \subseteq loops
    BY <2>1
  <2>2. CASE Watched(l, "parking")
    <3>1. [l EXCEPT !.at = "parking"].process = l.process
      BY <1>1 DEF Loops
    <3>. QED BY <2>2, <3>1 DEF Watched
  <2>3. CASE LoopEnds(l)
    <3>1. \A k \in loops : [k EXCEPT !.at = "ended"].process = k.process
      BY <1>1 DEF TypeOK, Loops
    <3>. QED BY <2>3, <3>1 DEF LoopEnds
  <2>. QED BY <2>1, <2>2, <2>3 DEF Beat, Report, WatchExit, Park
<1>. QED BY <1>1, <1>2, <1>3, <1>4, <1>5, LoneStays

(* Time changes leases, not owners.                                        *)
LEMMA TickLone ==
  ASSUME RecInv, LoneAll, Tick
  PROVE  LoneAll'
<1>1. TypeOK /\ activation \in Table /\ task \in Tasks
  BY TypesOf DEF RecInv
<1>2. UNCHANGED <<main, process, shared, loops>>
  BY DEF Tick
<1>3. TokenKept /\ task'.status = task.status
  BY <1>1 DEF Tick, TokenKept, Tasks
<1>4. OwnersKept
  <2>. SUFFICES ASSUME NEW c \in Runs
                PROVE  /\ activation'[c].owner = activation[c].owner
                       /\ activation'[c].generation = activation[c].generation
    BY DEF OwnersKept
  <2> DEFINE r == activation[c]
             n == IF r.lease = 0 THEN 0 ELSE r.lease - 1
  <2>1. activation'[c] = [r EXCEPT !.lease = n]
    BY DEF Tick
  <2>2. r \in MaybeRow
    BY <1>1 DEF Table
  <2> HIDE DEF n, r
  <2>3. [r EXCEPT !.lease = n].owner = r.owner /\ [r EXCEPT !.lease = n].generation = r.generation
    BY <2>2 DEF MaybeRow, Activation!Row, Activation!NoRow
  <2>. QED BY <2>1, <2>3 DEF r
<1>. QED BY <1>1, <1>2, <1>3, <1>4, LoneStays

(* Nobody runs, nobody owns.                                               *)
LEMMA InitLone == Init => LoneAll
<1> SUFFICES ASSUME Init PROVE LoneAll
  OBVIOUS
<1>1. \A p \in Processes : main[p].at = "off" /\ process[p] = "off"
  BY AtTyped, StagesTyped DEF Init
<1>2. \A p \in Processes, c \in Runs : activation[c].owner # p
  BY RecoveryAssumption DEF Init, Activation!NoRow
<1>. QED BY <1>1, <1>2 DEF Init, LoneAll, UpInv, OwnersInv, LoneInv, NoTask

(* What holds of one process at a time is kept by every step.              *)
LEMMA LoneKeeps == RecInv /\ LoneAll /\ [Next]_vars => LoneAll'
<1> SUFFICES ASSUME RecInv, LoneAll, [Next]_vars PROVE LoneAll'
  OBVIOUS
<1>1. CASE UNCHANGED vars
  BY <1>1 DEF vars, LoneAll, UpInv, OwnersInv, LoneInv, LoneAt, KnowsToken, UnderWay, Dispatched, Unfenced
<1>. QED BY <1>1, OpenLone, CrashLone, RecoveryLone, LaunchLone, AgentLone, ChildLone, TickLone DEF Next

(* What one process at a time knows of the task, at every stage.           *)
THEOREM LoneInvariant == Spec => []LoneAll
BY InvariantHolds, InitLone, LoneKeeps, PTL DEF Spec

(* However often the program is restarted, the process that owns the child *)
(* of a task under way has its token from the plan: a claim, a takeover    *)
(* and a crash between the two writes of either leave no child that runs   *)
(* and cannot be cancelled (recovery.ts, protocol.ts).                     *)
THEOREM OwnerKnowsToken == Spec => []OwnerCanCancel
<1>1. LoneAll => OwnerCanCancel
  <2>. SUFFICES ASSUME LoneAll, NEW p \in Processes, ~shared, main[p].at = "ready",
                       Cancellable, ~Unfenced(task.child, task.generation),
                       activation[task.child].owner = p
                PROVE  activation[task.child].generation = task.generation
    BY DEF OwnerCanCancel
  <2>1. LoneAt(p)
    BY DEF LoneAll, LoneInv, UpInv
  <2>. QED BY <2>1 DEF LoneAt, KnowsToken, Cancellable
<1>. QED BY <1>1, LoneInvariant, PTL

(* Once the next process has recovered the plan, no dispatch is left that  *)
(* a dead one had reserved and not published.                              *)
THEOREM NoLaunchLeftBehind == Spec => []NoHalfLaunchLeft
<1>1. LoneAll => NoHalfLaunchLeft
  BY DEF LoneAll, LoneInv, UpInv, LoneAt, NoHalfLaunchLeft
<1>. QED BY <1>1, LoneInvariant, PTL
-----------------------------------------------------------------------------
(* The contract of the table.                                              *)

(* How the row of a child may change: as a grant, an extension or a        *)
(* release of FencedTable, or not as far as that can tell.                 *)
Granted(r, n, p) ==
  /\ ~Activation!Exists(r) \/ Activation!Reclaimable(r)
  /\ n.generation = r.generation + 1 /\ n.owner = p /\ PhaseOf(n) = "held"
SameToken(r, n) == n.generation = r.generation /\ n.owner = r.owner
Becomes(r, n, to) == SameToken(r, n) /\ PhaseOf(r) \in {"held", "lapsed"} /\ PhaseOf(n) = to
RowMoves(r, n) ==
  \/ \E p \in Processes : Granted(r, n, p)
  \/ Becomes(r, n, "held") \/ Becomes(r, n, "free")
  \/ SameToken(r, n) /\ PhaseOf(n) = PhaseOf(r)

(* A claim grants a new epoch or extends the claimer's own.                *)
LEMMA ClaimMoves ==
  ASSUME NEW r \in MaybeRow, NEW p \in Processes, NEW run \in Runs, Activation!CanClaim(r, p)
  PROVE  RowMoves(r, Activation!Claimed(r, p, run, LeaseTtl))
<1> DEFINE n == Activation!Claimed(r, p, run, LeaseTtl)
<1>1. n \in Activation!Row /\ n.owner = p /\ n.state = "starting" /\ n.lease = LeaseTtl
  BY ClaimedRow DEF Activation!Claimed
<1>2. PhaseOf(n) = "held"
  BY <1>1, RecoveryAssumption
  DEF PhaseOf, Activation!Exists, Activation!Settled, Activation!Expired, Activation!Row
<1>3. CASE Activation!KeepsGeneration(r, p)
  <2>1. n.generation = r.generation /\ r.owner = p /\ PhaseOf(r) \in {"held", "lapsed"}
    BY <1>3 DEF Activation!Claimed, Activation!KeepsGeneration, PhaseOf
  <2>. QED BY <1>1, <1>2, <2>1 DEF RowMoves, Becomes, SameToken
<1>4. CASE ~Activation!KeepsGeneration(r, p)
  <2>1. n.generation = r.generation + 1
    BY <1>4 DEF Activation!Claimed
  <2>2. ~Activation!Exists(r) \/ Activation!Reclaimable(r)
    BY <1>4 DEF Activation!CanClaim, Activation!KeepsGeneration, Activation!Reclaimable
  <2>. QED BY <1>1, <1>2, <2>1, <2>2 DEF RowMoves, Granted
<1>. QED BY <1>3, <1>4

(* A takeover grants a new epoch of a row that has expired.                *)
LEMMA TakeOverMoves ==
  ASSUME NEW r \in Activation!Row, NEW p \in Processes, Activation!Reclaimable(r)
  PROVE  RowMoves(r, Activation!TakenOver(r, p, LeaseTtl))
<1> DEFINE n == Activation!TakenOver(r, p, LeaseTtl)
<1>1. /\ n.generation = r.generation + 1 /\ n.owner = p
      /\ n.state = "starting" /\ n.lease = LeaseTtl /\ r.generation \in Nat
  BY DEF Activation!TakenOver, Activation!Row
<1>2. PhaseOf(n) = "held"
  BY <1>1, RecoveryAssumption
  DEF PhaseOf, Activation!Exists, Activation!Settled, Activation!Expired
<1>. QED BY <1>1, <1>2 DEF RowMoves, Granted

(* A heartbeat, or a renewal in front of a write, extends.                 *)
LEMMA RenewMoves ==
  ASSUME NEW r \in Activation!Row, ~Activation!Settled(r)
  PROVE  RowMoves(r, Activation!Renewed(r, LeaseTtl))
<1> DEFINE n == Activation!Renewed(r, LeaseTtl)
<1>1. /\ n.generation = r.generation /\ n.owner = r.owner /\ n.state = r.state
      /\ n.lease = LeaseTtl /\ r.generation # 0
  BY DEF Activation!Renewed, Activation!Row
<1>2. PhaseOf(n) = "held" /\ PhaseOf(r) \in {"held", "lapsed"}
  BY <1>1, RecoveryAssumption
  DEF PhaseOf, Activation!Exists, Activation!Settled, Activation!Expired
<1>. QED BY <1>1, <1>2 DEF RowMoves, Becomes, SameToken

(* A transition extends or, if it settles the row, releases it.            *)
LEMMA TransitionMoves ==
  ASSUME NEW r \in Activation!Row, NEW to, Activation!CanTransition(r, to)
  PROVE  RowMoves(r, Activation!Transitioned(r, to, LeaseTtl))
<1> DEFINE n == Activation!Transitioned(r, to, LeaseTtl)
<1>1. /\ n.generation = r.generation /\ n.owner = r.owner /\ n.state = to
      /\ to # "settled" => n.lease = LeaseTtl
      /\ r.generation # 0
  BY DEF Activation!Transitioned, Activation!Row
<1>2. CASE to = "settled"
  <2>1. PhaseOf(n) = "free"
    BY <1>1, <1>2 DEF PhaseOf, Activation!Settled
  <2>. QED BY <1>1, <2>1 DEF RowMoves, Becomes, SameToken, PhaseOf
<1>3. CASE to # "settled"
  <2>1. PhaseOf(n) = "held" /\ PhaseOf(r) \in {"held", "lapsed"}
    BY <1>1, <1>3, RecoveryAssumption
    DEF PhaseOf, Activation!Exists, Activation!Settled, Activation!Expired, Activation!CanTransition
  <2>. QED BY <1>1, <2>1 DEF RowMoves, Becomes, SameToken
<1>. QED BY <1>2, <1>3

(* One row that moves is a step of the table.                              *)
TableStep == [Ownership!TableNext]_(Ownership!tableVars)

LEMMA OneRowMoves ==
  ASSUME activation \in Table, NEW c \in Runs, NEW n,
         activation' = [activation EXCEPT ![c] = n], RowMoves(activation[c], n)
  PROVE  TableStep
<1> DEFINE epoch  == [d \in Runs |-> activation[d].generation]
           holder == [d \in Runs |-> activation[d].owner]
           phase  == [d \in Runs |-> PhaseOf(activation[d])]
<1>1. activation'[c] = n /\ \A d \in Runs \ {c} : activation'[d] = activation[d]
  BY DEF Table
<1>2. /\ epoch' = [epoch EXCEPT ![c] = n.generation]
      /\ holder' = [holder EXCEPT ![c] = n.owner]
      /\ phase' = [phase EXCEPT ![c] = PhaseOf(n)]
  <2>1. \A d \in Runs :
          /\ activation'[d].generation = IF d = c THEN n.generation ELSE activation[d].generation
          /\ activation'[d].owner = IF d = c THEN n.owner ELSE activation[d].owner
          /\ PhaseOf(activation'[d]) = IF d = c THEN PhaseOf(n) ELSE PhaseOf(activation[d])
    BY <1>1
  <2>2. epoch' = [epoch EXCEPT ![c] = n.generation]
    BY <2>1
  <2>3. holder' = [holder EXCEPT ![c] = n.owner]
    BY <2>1
  <2>4. phase' = [phase EXCEPT ![c] = PhaseOf(n)]
    BY <2>1
  <2>. QED BY <2>2, <2>3, <2>4
<1>3. /\ epoch[c] = activation[c].generation /\ holder[c] = activation[c].owner
      /\ phase[c] = PhaseOf(activation[c])
  OBVIOUS
<1>4. /\ epoch = [epoch EXCEPT ![c] = epoch[c]] /\ holder = [holder EXCEPT ![c] = holder[c]]
      /\ phase = [phase EXCEPT ![c] = phase[c]]
  OBVIOUS
<1>5. ASSUME NEW p \in Processes, Granted(activation[c], n, p) PROVE Ownership!Grant(c, p)
  <2>1. phase[c] \in {"free", "lapsed"}
    BY <1>3, <1>5 DEF Granted, PhaseOf, Activation!Reclaimable
  <2>2. n.generation = epoch[c] + 1 /\ n.owner = p /\ PhaseOf(n) = "held"
    BY <1>3, <1>5 DEF Granted
  <2> HIDE DEF epoch, holder, phase
  <2>3. /\ epoch' = [epoch EXCEPT ![c] = epoch[c] + 1] /\ holder' = [holder EXCEPT ![c] = p]
        /\ phase' = [phase EXCEPT ![c] = "held"]
    BY <1>2, <2>2
  <2>. QED BY <2>1, <2>3 DEF Ownership!Grant, epoch, holder, phase
<1>6. ASSUME Becomes(activation[c], n, "held") PROVE Ownership!Extend(c)
  <2>1. phase[c] \in {"held", "lapsed"} /\ PhaseOf(n) = "held" /\ n.generation = epoch[c] /\ n.owner = holder[c]
    BY <1>3, <1>6 DEF Becomes, SameToken
  <2> HIDE DEF epoch, holder, phase
  <2>2. epoch' = epoch /\ holder' = holder /\ phase' = [phase EXCEPT ![c] = "held"]
    BY <1>2, <1>4, <2>1
  <2>. QED BY <2>1, <2>2 DEF Ownership!Extend, epoch, holder, phase
<1>7. ASSUME Becomes(activation[c], n, "free") PROVE Ownership!Release(c)
  <2>1. phase[c] \in {"held", "lapsed"} /\ PhaseOf(n) = "free" /\ n.generation = epoch[c] /\ n.owner = holder[c]
    BY <1>3, <1>7 DEF Becomes, SameToken
  <2> HIDE DEF epoch, holder, phase
  <2>2. epoch' = epoch /\ holder' = holder /\ phase' = [phase EXCEPT ![c] = "free"]
    BY <1>2, <1>4, <2>1
  <2>. QED BY <2>1, <2>2 DEF Ownership!Release, epoch, holder, phase
<1>8. ASSUME SameToken(activation[c], n), PhaseOf(n) = PhaseOf(activation[c])
      PROVE  UNCHANGED Ownership!tableVars
  <2>1. n.generation = epoch[c] /\ n.owner = holder[c] /\ PhaseOf(n) = phase[c]
    BY <1>3, <1>8 DEF SameToken
  <2> HIDE DEF epoch, holder, phase
  <2>2. epoch' = epoch /\ holder' = holder /\ phase' = phase
    BY <1>2, <1>4, <2>1
  <2>. QED BY <2>2 DEF Ownership!tableVars, epoch, holder, phase
<1>. QED
  BY <1>5, <1>6, <1>7, <1>8 DEF RowMoves, TableStep, Ownership!TableNext

(* A step that leaves the rows alone is a stutter of the table.            *)
LEMMA TableStays == ASSUME UNCHANGED activation PROVE TableStep
<1>1. UNCHANGED Ownership!tableVars
  BY DEF Ownership!tableVars
<1>. QED BY <1>1 DEF TableStep

(* A fenced transition and a fenced renewal are steps of the table.        *)
LEMMA FencedStep ==
  ASSUME activation \in Table, NEW p \in Processes, NEW c \in Runs \cup {NoChild}, NEW g, NEW to,
         Fenced(p, c, g, to), Moved(c, g, to) \/ (to # "settled" /\ Renew(c, g))
  PROVE  TableStep
<1>1. CASE Unfenced(c, g)
  BY <1>1, TableStays DEF Moved, Renew
<1>2. CASE ~Unfenced(c, g)
  <2>1. c \in Runs /\ Activation!CasOk(activation[c], p, g) /\ Activation!CanTransition(activation[c], to)
    BY <1>2 DEF Unfenced, Fenced
  <2>2. activation[c] \in Activation!Row
    BY <2>1, ExistsTyped DEF Activation!CasOk, Table
  <2>3. CASE Moved(c, g, to)
    <3>1. activation' = [activation EXCEPT ![c] = Activation!Transitioned(activation[c], to, LeaseTtl)]
      BY <1>2, <2>3 DEF Moved
    <3>. QED BY <2>1, <2>2, <3>1, TransitionMoves, OneRowMoves
  <2>4. CASE to # "settled" /\ Renew(c, g)
    <3>1. activation' = [activation EXCEPT ![c] = Activation!Renewed(activation[c], LeaseTtl)]
      BY <1>2, <2>4 DEF Renew
    <3>2. ~Activation!Settled(activation[c])
      BY <2>1, <2>4 DEF Activation!CanTransition
    <3>. QED BY <2>1, <2>2, <3>1, <3>2, RenewMoves, OneRowMoves
  <2>. QED BY <2>3, <2>4
<1>. QED BY <1>1, <1>2

(* So is every step of a process ...                                       *)
LEMMA ProcessSteps ==
  ASSUME RecInv, NEW p \in Processes, RecoveryStep(p) \/ LaunchStep(p) \/ AgentStep(p)
  PROVE  TableStep
<1>0. /\ activation \in Table /\ main[p] \in Mains /\ task \in Tasks
      /\ main[p].child \in Runs \cup {NoChild} /\ task.child \in Runs \cup {NoChild}
      /\ main[p].seen.child \in Runs \cup {NoChild}
  BY TypesOf DEF RecInv, Mains
<1>1. CASE UNCHANGED activation
  BY <1>1, TableStays
<1>2. CASE TakeOver(p) /\ ~UNCHANGED activation
  <2> DEFINE c == main[p].seen.child
  <2>1. /\ Activation!CanTakeOver(RowOf(c))
        /\ activation' = [activation EXCEPT ![c] = Activation!TakenOver(activation[c], p, LeaseTtl)]
    BY <1>2 DEF TakeOver
  <2>2. c # NoChild /\ Activation!Exists(activation[c]) /\ Activation!Reclaimable(activation[c])
    BY <2>1 DEF Activation!CanTakeOver, RowOf, Activation!Exists, Activation!NoRow
  <2>3. c \in Runs /\ activation[c] \in Activation!Row
    BY <1>0, <2>2, ExistsTyped DEF Table
  <2> HIDE DEF c
  <2>. QED BY <1>0, <2>1, <2>2, <2>3, TakeOverMoves, OneRowMoves
<1>3. CASE CheckChild(p) /\ ~UNCHANGED activation
  BY <1>0, <1>3, FencedStep DEF CheckChild
<1>4. ASSUME NEW c \in Runs, NEW next, main[p].run \in Runs, Claimable(p, c), ClaimFor(p, c, next)
      PROVE  TableStep
  <2>1. activation[c] \in MaybeRow /\ Activation!CanClaim(activation[c], p)
    BY <1>0, <1>4 DEF Table, Claimable
  <2>2. activation' = [activation EXCEPT ![c] = Activation!Claimed(activation[c], p, main[p].run, LeaseTtl)]
    BY <1>4 DEF ClaimFor
  <2>. QED BY <1>0, <1>4, <2>1, <2>2, ClaimMoves, OneRowMoves
<1>5. CASE CreateChild(p) /\ ~UNCHANGED activation
  <2>1. main[p].run \in Runs /\ main[p].child = NoChild /\ activation[main[p].run] = Activation!NoRow
    BY <1>5 DEF CreateChild, RecInv, Rest, StagesInv, FreshInv, LaunchStages
  <2>2. Claimable(p, main[p].run)
    BY <2>1 DEF Claimable, Activation!CanClaim, Activation!Exists, Activation!NoRow
  <2>. QED BY <1>4, <1>5, <2>1, <2>2 DEF CreateChild
<1>6. CASE ClaimResumed(p) /\ ~UNCHANGED activation
  <2>1. main[p].run \in Runs /\ main[p].child \in Runs
    BY <1>6 DEF ClaimResumed, RecInv, Rest, StagesInv, LaunchStages
  <2>. QED BY <1>4, <1>6, <2>1 DEF ClaimResumed
<1>7. CASE Start(p) /\ ~UNCHANGED activation
  BY <1>0, <1>7, FencedStep DEF Start
<1>8. CASE Terminate(p) /\ ~UNCHANGED activation
  BY <1>0, <1>8, FencedStep DEF Terminate
<1>9. CASE (FenceCancel(p) \/ Merge(p)) /\ ~UNCHANGED activation
  <2>1. Fenced(p, task.child, task.generation, "draining") /\ Renew(task.child, task.generation)
    BY <1>9 DEF FenceCancel, Merge
  <2>. QED BY <1>0, <2>1, FencedStep
<1>10. CASE Drain(p) /\ ~UNCHANGED activation
  BY <1>0, <1>10, FencedStep DEF Drain
<1>11. ASSUME ReadPlan(p) \/ Judge(p) \/ RecordTakeover(p) \/ Reject(p) \/ Commit(p) \/ MarkCreated(p)
              \/ Publish(p) \/ FailDispatch(p) \/ Prepare(p) \/ Approve(p) \/ RejectReport(p)
              \/ Reopen(p) \/ WriteCancel(p)
       PROVE  UNCHANGED activation
  BY <1>11
  DEF ReadPlan, Judge, RecordTakeover, Reject, Commit, MarkCreated, Publish, FailDispatch, Prepare,
      Approve, RejectReport, Reopen, WriteCancel
<1>. QED
  BY <1>1, <1>2, <1>3, <1>5, <1>6, <1>7, <1>8, <1>9, <1>10, <1>11
  DEF RecoveryStep, LaunchStep, AgentStep

(* ... of a child's loop and its watcher ...                               *)
LEMMA ChildSteps ==
  ASSUME RecInv, NEW l \in loops, Beat(l) \/ Report(l) \/ LoopEnds(l) \/ WatchExit(l) \/ Park(l)
  PROVE  TableStep
<1>0. activation \in Table /\ l.process \in Processes /\ l.child \in Runs
  BY TypesOf DEF RecInv, TypeOK, Loops
<1>1. CASE UNCHANGED activation
  BY <1>1, TableStays
<1>2. CASE Beat(l)
  <2>1. Activation!Exists(activation[l.child]) /\ ~Activation!Settled(activation[l.child])
    BY <1>2 DEF Beat, Activation!CasOk
  <2>2. activation[l.child] \in Activation!Row
    BY <1>0, <2>1, ExistsTyped DEF Table
  <2>3. activation' = [activation EXCEPT ![l.child] = Activation!Renewed(activation[l.child], LeaseTtl)]
    BY <1>2 DEF Beat
  <2>. QED BY <1>0, <2>1, <2>2, <2>3, RenewMoves, OneRowMoves
<1>3. CASE WatchExit(l) /\ ~UNCHANGED activation
  BY <1>0, <1>3, FencedStep DEF WatchExit
<1>. QED BY <1>1, <1>2, <1>3 DEF Report, LoopEnds, Park

(* ... and of time, which lets leases lapse.                               *)
LEMMA TickLapses ==
  ASSUME activation \in Table, Tick
  PROVE  TableStep
<1> DEFINE epoch  == [d \in Runs |-> activation[d].generation]
           holder == [d \in Runs |-> activation[d].owner]
           phase  == [d \in Runs |-> PhaseOf(activation[d])]
           those  == {d \in Runs : phase[d] = "held" /\ phase'[d] = "lapsed"}
<1>1. ASSUME NEW d \in Runs
      PROVE  /\ SameToken(activation[d], activation'[d])
             /\ \/ PhaseOf(activation'[d]) = PhaseOf(activation[d])
                \/ PhaseOf(activation[d]) = "held" /\ PhaseOf(activation'[d]) = "lapsed"
  <2>1. activation[d] \in MaybeRow
    BY DEF Table
  <2>2. activation'[d] = [activation[d] EXCEPT !.lease = IF @ = 0 THEN 0 ELSE @ - 1]
    BY DEF Tick
  <2>3. /\ activation'[d].generation = activation[d].generation
        /\ activation'[d].owner = activation[d].owner /\ activation'[d].state = activation[d].state
        /\ activation[d].lease = 0 => activation'[d].lease = 0
    BY <2>1, <2>2 DEF MaybeRow, Activation!Row, Activation!NoRow
  <2>. QED
    BY <2>3 DEF SameToken, PhaseOf, Activation!Exists, Activation!Settled, Activation!Expired
<1>2. epoch' = epoch /\ holder' = holder
  BY <1>1 DEF SameToken
<1>3. phase' = [d \in Runs |-> IF d \in those THEN "lapsed" ELSE phase[d]]
  <2>1. \A d \in Runs : phase'[d] = IF d \in those THEN "lapsed" ELSE phase[d]
    BY <1>1
  <2>. QED BY <2>1
<1>4. those \in SUBSET Runs /\ \A d \in those : phase[d] = "held"
  OBVIOUS
<1>5. Ownership!Lapse(those)
  <2> HIDE DEF those
  <2>. QED BY <1>2, <1>3, <1>4 DEF Ownership!Lapse
<1>. QED BY <1>4, <1>5 DEF TableStep, Ownership!TableNext

(* The rows of plan_activation, through every dispatch, recovery, cancel,  *)
(* merge, crash and restart of any number of processes, are children that  *)
(* move through numbered epochs: who is granted one has found the last     *)
(* released or lapsed, and no number is used twice for a child.            *)
THEOREM RecoveryImplementsOwnership == Spec => ImplementsOwnership
<1>1. Init => Ownership!TableInit
  BY DEF Init, PhaseOf, Activation!NoRow, Activation!Exists, Ownership!TableInit
<1>2. RecInv /\ [Next]_vars => TableStep
  <2> SUFFICES ASSUME RecInv, [Next]_vars PROVE TableStep
    OBVIOUS
  <2>1. activation \in Table
    BY TypesOf DEF RecInv
  <2>2. CASE UNCHANGED vars
    BY <2>2, TableStays DEF vars
  <2>3. ASSUME NEW p \in Processes, Open(p) \/ Crash(p) PROVE TableStep
    BY <2>3, TableStays DEF Open, Crash
  <2>. QED BY <2>1, <2>2, <2>3, ProcessSteps, ChildSteps, TickLapses DEF Next
<1>. QED
  BY <1>1, <1>2, InvariantHolds, PTL
  DEF Spec, TableStep, ImplementsOwnership, Ownership!TableSpec
=============================================================================
