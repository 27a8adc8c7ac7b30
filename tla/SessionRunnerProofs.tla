------------------------- MODULE SessionRunnerProofs -------------------------
(***************************************************************************)
(* For any prompts, wakes, works and cancels: the state stays well typed,  *)
(* and as long as no cancel has taken a later runner off the map, one loop *)
(* or shell runs in the session, and the map leads to it.                  *)
(***************************************************************************)
EXTENDS SessionRunner, TLAPS

(* loop is called at most twice for a message.                             *)
Counted == \A m \in Messages :
  calls[m].at \in {"none", "stored", "again"} => calls[m].turns <= 1

TypeInv == TypeOK /\ Counted

(* A work that was begun has a runner.                                     *)
Homes == \A f \in Works : stage[f] # "none" => home[f] \in Works

(* What a runner holds is a work of its own in the stage its state says.   *)
HeldRuns == \A r \in Works : ref[r].run # None =>
  /\ home[ref[r].run] = r
  /\ stage[ref[r].run] \in IF ref[r].shell = None THEN {"working", "leaving"} ELSE {"queued"}

HeldShells == \A r \in Works : ref[r].shell # None =>
  /\ home[ref[r].shell] = r
  /\ stage[ref[r].shell] \in {"starting", "executing"}

(* While a shell is being marked, its runner is idle and no other's.       *)
Marking == \A f \in Works : stage[f] = "marking" =>
  /\ ref[home[f]] = Idle
  /\ \A g \in Works : stage[g] = "marking" /\ home[g] = home[f] => g = f

(* What a cancel stops was begun, and no runner holds it any more.         *)
StoppedWork(k) == {cancels[k].work, cancels[k].queued} \ {None}
LetGo == \A k \in Cancels : cancels[k].at = "stopping" =>
  \A f \in StoppedWork(k) :
    /\ stage[f] \notin {"none", "marking"}
    /\ \A r \in Works : f \notin {ref[r].run, ref[r].shell}

(* Whatever is active is held by its runner.                               *)
ActiveIsHeld == \A f \in Works : Active(f) => f \in {ref[home[f]].run, ref[home[f]].shell}

(* A busy runner is the one on the map, unless a cancel took it off.       *)
BusyIsRegistered ==
  /\ \A r \in Works : ref[r] # Idle => registered = r
  /\ \A f \in Works : stage[f] = "marking" => registered = home[f]

RefInv == Homes /\ HeldRuns /\ HeldShells /\ Marking /\ LetGo /\ ActiveIsHeld
Inv    == TypeInv /\ RefInv /\ (orphaned \/ BusyIsRegistered)
-----------------------------------------------------------------------------
(* The initial state is well typed.                                        *)
LEMMA TypeInit == Init => TypeInv
<1> SUFFICES ASSUME Init PROVE TypeInv
  OBVIOUS
<1>1. /\ registered \in Works \cup {None} /\ ref \in [Works -> States]
      /\ home \in [Works -> Works \cup {None}]
  BY DEF Init, Idle, States
<1>2. stage \in [Works -> Stages] /\ exit \in [Works -> Exits]
  BY DEF Init, Stages, Exits
<1>3. calls \in [Messages -> Calls] /\ Counted
  BY DEF Init, NoCall, Calls, None, Counted
<1>4. cancels \in [Cancels -> Stops]
  BY DEF Init, NoStop, Stops
<1> QED
  BY <1>1, <1>2, <1>3, <1>4 DEF Init, TypeInv, TypeOK

(* Every step keeps the state well typed.                                  *)
LEMMA TypeStep == TypeInv /\ [Next]_vars => TypeInv'
<1> SUFFICES ASSUME TypeInv, [Next]_vars PROVE TypeInv'
  OBVIOUS
<1> USE DEF TypeInv, TypeOK, Counted, None, Works, Cancels, States, Stages,
            Runs, Shells, Exits, Calls, Stops
<1>1. ASSUME NEW m \in Messages, Store(m) PROVE TypeInv'
  BY <1>1 DEF Store
<1>2. ASSUME NEW m \in Messages, Join(m) PROVE TypeInv'
  BY <1>2 DEF Join, Waits, Busy
<1>3. ASSUME NEW m \in Messages, NEW f \in Works, Begin(m, f) PROVE TypeInv'
  BY <1>3 DEF Begin, BeginsAt, Waits, Goes, Behind, Fresh, RunnerFor
<1>4. ASSUME NEW m \in Messages, Answer(m) PROVE TypeInv'
  BY <1>4 DEF Answer, Turns
<1>5. ASSUME NEW f \in Works, LoopTurn(f) PROVE TypeInv'
  BY <1>5 DEF LoopTurn, Goes, Stored
<1>6. ASSUME NEW f \in Works, RunEnds(f) PROVE TypeInv'
  <2>1. CASE HoldsRun(f)
    BY <1>6, <2>1 DEF RunEnds, Outcomes, Goes, Idle
  <2>2. CASE ~HoldsRun(f)
    BY <1>6, <2>2 DEF RunEnds, Outcomes, Goes
  <2> QED
    BY <2>1, <2>2
<1>7. ASSUME NEW f \in Works, Idled(f) PROVE TypeInv'
  BY <1>7 DEF Idled, Goes
<1>8. ASSUME NEW f \in Works, StartShell(f) PROVE TypeInv'
  BY <1>8 DEF StartShell, BeginsAt, Goes, Fresh, RunnerFor
<1>9. ASSUME NEW f \in Works, MarkBusy(f) PROVE TypeInv'
  <2>1. ref' \in [Works -> States]
    <3>1. ref' = [r \in Works |-> IF r = home[f] THEN [ref[r] EXCEPT !.shell = f] ELSE ref[r]]
      BY <1>9 DEF MarkBusy
    <3>2. \A r \in Works : [ref[r] EXCEPT !.shell = f] \in States
      OBVIOUS
    <3> QED
      BY <3>1, <3>2
  <2>2. stage' \in [Works -> Stages]
    BY <1>9 DEF MarkBusy, Goes
  <2> QED
    BY <1>9, <2>1, <2>2 DEF MarkBusy
<1>10. ASSUME NEW f \in Works, ShellReady(f) PROVE TypeInv'
  BY <1>10 DEF ShellReady, Goes
<1>11. ASSUME NEW f \in Works, ShellEnds(f) PROVE TypeInv'
  <2>1. CASE HoldsShell(f)
    <3>1. ref' \in [Works -> States]
      BY <1>11, <2>1 DEF ShellEnds, AfterShell
    <3>2. stage' \in [Works -> Stages]
      BY <1>11, <2>1 DEF ShellEnds, Goes
    <3>3. registered' \in Works \cup {None}
      BY <1>11, <2>1 DEF ShellEnds
    <3> QED
      BY <1>11, <3>1, <3>2, <3>3 DEF ShellEnds
  <2>2. CASE ~HoldsShell(f)
    BY <1>11, <2>2 DEF ShellEnds, Goes
  <2> QED
    BY <2>1, <2>2
<1>12. ASSUME NEW k \in Cancels, CancelNothing(k) PROVE TypeInv'
  BY <1>12 DEF CancelNothing
<1>13. ASSUME NEW k \in Cancels, CancelRun(k) PROVE TypeInv'
  <2>1. /\ registered \in Works
        /\ ref[registered].run \in Works
    BY <1>13 DEF CancelRun, Busy, Idle
  <2>2. ref' \in [Works -> States]
    BY <1>13 DEF CancelRun, Idle
  <2>3. cancels' \in [Cancels -> Stops]
    BY <1>13, <2>1 DEF CancelRun
  <2>4. stage' \in [Works -> Stages]
    BY <1>13, <2>1 DEF CancelRun, Goes
  <2> QED
    BY <1>13, <2>2, <2>3, <2>4 DEF CancelRun
<1>14. ASSUME NEW k \in Cancels, CancelShell(k) PROVE TypeInv'
  BY <1>14 DEF CancelShell, Busy, Idle
<1>15. ASSUME NEW k \in Cancels, KillShell(k) PROVE TypeInv'
  BY <1>15 DEF KillShell, Goes
<1>16. ASSUME NEW k \in Cancels, CancelSettles(k) PROVE TypeInv'
  <2>1. stage' \in [Works -> Stages] /\ exit' \in [Works -> Exits]
    BY <1>16 DEF CancelSettles
  <2>2. cancels' \in [Cancels -> Stops]
    <3>1. PICK to \in {"releasing", "over"} : cancels' = [cancels EXCEPT ![k] = [NoStop EXCEPT !.at = to]]
      BY <1>16 DEF CancelSettles
    <3>2. \A ending \in {"releasing", "over"} : [NoStop EXCEPT !.at = ending] \in Stops
      BY DEF NoStop
    <3> QED
      BY <3>1, <3>2
  <2>3. registered' \in Works \cup {None}
    BY <1>16 DEF CancelSettles
  <2>4. orphaned' \in BOOLEAN
    BY <1>16, Zenon DEF CancelSettles
  <2> QED
    BY <1>16, <2>1, <2>2, <2>3, <2>4 DEF CancelSettles
<1>17. ASSUME NEW k \in Cancels, Released(k) PROVE TypeInv'
  BY <1>17 DEF Released
<1>18. CASE UNCHANGED vars
  BY <1>18 DEF vars
<1> QED
  BY <1>1, <1>2, <1>3, <1>4, <1>5, <1>6, <1>7, <1>8, <1>9, <1>10, <1>11, <1>12, <1>13,
     <1>14, <1>15, <1>16, <1>17, <1>18 DEF Next, CallStep, WorkStep, StopStep

(* The state of the session's runner, its works and callers is well typed. *)
THEOREM TypeCorrect == Spec => []TypeOK
<1>1. TypeInv => TypeOK
  BY DEF TypeInv
<1> QED
  BY TypeInit, TypeStep, <1>1, PTL DEF Spec
-----------------------------------------------------------------------------
(* What runners hold and cancels stop stays in step with the works.        *)
LEMMA RefStep == TypeInv /\ RefInv /\ [Next]_vars => RefInv'
<1> SUFFICES ASSUME TypeInv, RefInv, [Next]_vars PROVE RefInv'
  OBVIOUS
<1> USE DEF TypeInv, TypeOK, None, States, Idle, RefInv, Homes, HeldRuns, HeldShells, Marking,
            LetGo, StoppedWork, ActiveIsHeld, Active, Stopped, Stops
<1>1. ASSUME NEW m \in Messages, Store(m) PROVE RefInv'
  BY <1>1 DEF Store
<1>2. ASSUME NEW m \in Messages, Join(m) PROVE RefInv'
  BY <1>2 DEF Join, Waits
<1>3. ASSUME NEW m \in Messages, NEW f \in Works, Begin(m, f) PROVE RefInv'
  <2>0. PICK r \in Works :
          /\ stage[f] = "none" /\ ref[r].run = None
          /\ \A g \in Works : ~(stage[g] = "marking" /\ home[g] = r)
          /\ home' = [home EXCEPT ![f] = r] /\ stage' = [stage EXCEPT ![f] = Behind(r)]
          /\ ref' = [ref EXCEPT ![r].run = f]
          /\ UNCHANGED cancels
    <3> HIDE DEF TypeInv, TypeOK, None, States, Idle, RefInv, Homes, HeldRuns, HeldShells, Marking,
              LetGo, StoppedWork, ActiveIsHeld, Active, Stopped, Stops
    <3>1. PICK r \in Works :
            /\ BeginsAt(f, r, Behind(r)) /\ ref[r].run = None
            /\ ref' = [ref EXCEPT ![r].run = f] /\ UNCHANGED cancels
      BY <1>3 DEF Begin
    <3> QED
      BY <3>1 DEF BeginsAt, Goes, Fresh, Locked
  <2>1. Homes'
    BY <2>0 DEF Behind, Works
  <2>2. HeldRuns'
    BY <2>0 DEF Behind, Works
  <2>3. HeldShells'
    BY <2>0 DEF Behind, Works
  <2>4. Marking'
    BY <2>0 DEF Behind, Works
  <2>5. LetGo'
    BY <2>0 DEF Behind, Works
  <2>6. ActiveIsHeld'
    <3> SUFFICES ASSUME NEW g \in Works, Active(g)' PROVE (g \in {ref[home[g]].run, ref[home[g]].shell})'
      OBVIOUS
    <3>1. PICK q \in Works : ref[q].run = None /\ BeginsAt(f, q, Behind(q))
                             /\ ref' = [ref EXCEPT ![q].run = f]
      BY <1>3 DEF Begin
    <3>2. CASE g = f
      BY <3>1, <3>2 DEF BeginsAt
    <3>3. CASE g # f
      <4>1. Active(g) /\ home'[g] = home[g] /\ home[g] \in Works
        BY <1>3, <3>1, <3>3 DEF Begin, BeginsAt, Goes
      <4>2. g \in {ref[home[g]].run, ref[home[g]].shell}
        BY <4>1
      <4> QED
        BY <3>1, <4>1, <4>2 DEF Works
    <3> QED
      BY <3>2, <3>3
  <2> QED
    BY <2>1, <2>2, <2>3, <2>4, <2>5, <2>6
<1>4. ASSUME NEW m \in Messages, Answer(m) PROVE RefInv'
  BY <1>4 DEF Answer
<1>5. ASSUME NEW f \in Works, LoopTurn(f) PROVE RefInv'
  BY <1>5 DEF LoopTurn, Goes
<1>6. ASSUME NEW f \in Works, RunEnds(f) PROVE RefInv'
  <2>1. Homes'
    BY <1>6 DEF RunEnds, Goes, HoldsRun, Locked
  <2>2. HeldRuns'
    BY <1>6 DEF RunEnds, Goes, HoldsRun, Locked
  <2>3. HeldShells'
    BY <1>6 DEF RunEnds, Goes, HoldsRun, Locked
  <2>4. Marking'
    BY <1>6 DEF RunEnds, Goes, HoldsRun, Locked
  <2>5. LetGo'
    BY <1>6 DEF RunEnds, Goes, HoldsRun, Locked
  <2>6. ActiveIsHeld'
    BY <1>6 DEF RunEnds, Goes, HoldsRun, Locked
  <2> QED
    BY <2>1, <2>2, <2>3, <2>4, <2>5, <2>6
<1>7. ASSUME NEW f \in Works, Idled(f) PROVE RefInv'
  BY <1>7 DEF Idled, Goes
<1>8. ASSUME NEW f \in Works, StartShell(f) PROVE RefInv'
  <2>0. PICK r \in Works :
          /\ stage[f] = "none" /\ ref[r] = Idle
          /\ \A g \in Works : ~(stage[g] = "marking" /\ home[g] = r)
          /\ home' = [home EXCEPT ![f] = r] /\ stage' = [stage EXCEPT ![f] = "marking"]
          /\ UNCHANGED <<ref, cancels>>
    <3> HIDE DEF TypeInv, TypeOK, None, States, Idle, RefInv, Homes, HeldRuns, HeldShells, Marking,
              LetGo, StoppedWork, ActiveIsHeld, Active, Stopped, Stops
    <3>1. PICK r \in Works :
            BeginsAt(f, r, "marking") /\ ref[r] = Idle /\ UNCHANGED <<ref, cancels>>
      BY <1>8 DEF StartShell
    <3> QED
      BY <3>1 DEF BeginsAt, Goes, Fresh, Locked
  <2>1. Homes'
    BY <2>0
  <2>2. HeldRuns'
    BY <2>0
  <2>3. HeldShells'
    BY <2>0
  <2>4. Marking'
    BY <2>0
  <2>5. LetGo'
    BY <2>0
  <2>6. ActiveIsHeld'
    BY <2>0
  <2> QED
    BY <2>1, <2>2, <2>3, <2>4, <2>5, <2>6
<1>9. ASSUME NEW f \in Works, MarkBusy(f) PROVE RefInv'
  <2>1. Homes'
    BY <1>9 DEF MarkBusy, Goes
  <2>2. HeldRuns'
    BY <1>9 DEF MarkBusy, Goes
  <2>3. HeldShells'
    BY <1>9 DEF MarkBusy, Goes
  <2>4. Marking'
    BY <1>9 DEF MarkBusy, Goes
  <2>5. LetGo'
    BY <1>9 DEF MarkBusy, Goes
  <2>6. ActiveIsHeld'
    BY <1>9 DEF MarkBusy, Goes
  <2> QED
    BY <2>1, <2>2, <2>3, <2>4, <2>5, <2>6
<1>10. ASSUME NEW f \in Works, ShellReady(f) PROVE RefInv'
  <2>1. Homes'
    BY <1>10 DEF ShellReady, Goes
  <2>2. HeldRuns'
    BY <1>10 DEF ShellReady, Goes
  <2>3. HeldShells'
    BY <1>10 DEF ShellReady, Goes
  <2>4. Marking'
    BY <1>10 DEF ShellReady, Goes
  <2>5. LetGo'
    BY <1>10 DEF ShellReady, Goes
  <2>6. ActiveIsHeld'
    BY <1>10 DEF ShellReady, Goes
  <2> QED
    BY <2>1, <2>2, <2>3, <2>4, <2>5, <2>6
<1>11. ASSUME NEW f \in Works, ShellEnds(f) PROVE RefInv'
  <2>1. ASSUME HoldsShell(f), NEW r \in Works, r = home[f], NEW n, n = ref[r].run
        PROVE  RefInv'
    <3>1. /\ ref[r].shell = f /\ f # None /\ stage[f] = "executing"
          /\ ref' = [ref EXCEPT ![r] = [shell |-> None, run |-> n]]
          /\ UNCHANGED <<home, cancels>>
      <4>1. ref[r].shell = f /\ f # None /\ stage[f] = "executing"
        BY <1>11, <2>1 DEF ShellEnds, HoldsShell, Works
      <4>2. AfterShell(f) = [shell |-> None, run |-> n]
        BY <2>1 DEF AfterShell
      <4> QED
        BY <1>11, <2>1, <4>1, <4>2 DEF ShellEnds
    <3>2. CASE n = None
      <4>1. stage' = [stage EXCEPT ![f] = "idling"]
        BY <1>11, <2>1, <3>2 DEF ShellEnds, Goes
      <4> QED
        BY <2>1, <3>1, <3>2, <4>1
    <3>3. CASE n # None
      <4>1. n \in Works /\ n # f /\ home[n] = r /\ stage[n] = "queued"
        BY <2>1, <3>1, <3>3
      <4>2. stage' = [stage EXCEPT ![f] = "over", ![n] = "working"]
        BY <1>11, <2>1, <3>3 DEF ShellEnds
      <4>3. Homes'
        BY <2>1, <3>1, <3>3, <4>1, <4>2 DEF Works
      <4>4. HeldRuns'
        BY <2>1, <3>1, <3>3, <4>1, <4>2 DEF Works
      <4>5. HeldShells'
        BY <2>1, <3>1, <3>3, <4>1, <4>2 DEF Works
      <4>6. Marking'
        BY <2>1, <3>1, <3>3, <4>1, <4>2 DEF Works
      <4>7. LetGo'
        BY <2>1, <3>1, <3>3, <4>1, <4>2 DEF Works
      <4>8. ActiveIsHeld'
        BY <2>1, <3>1, <3>3, <4>1, <4>2 DEF Works
      <4> QED
        BY <4>3, <4>4, <4>5, <4>6, <4>7, <4>8
    <3> QED
      BY <3>2, <3>3
  <2>2. CASE ~HoldsShell(f)
    BY <1>11, <2>2 DEF ShellEnds, Goes, HoldsShell
  <2>3. home[f] \in Works
    BY <1>11 DEF ShellEnds
  <2> QED
    BY <2>1, <2>2, <2>3
<1>12. ASSUME NEW k \in Cancels, CancelNothing(k) PROVE RefInv'
  BY <1>12 DEF CancelNothing, Called
<1>13. ASSUME NEW k \in Cancels, CancelRun(k) PROVE RefInv'
  BY <1>13 DEF CancelRun, Busy, Called, Goes
<1>14. ASSUME NEW k \in Cancels, CancelShell(k) PROVE RefInv'
  BY <1>14 DEF CancelShell, Busy, Called
<1>15. ASSUME NEW k \in Cancels, KillShell(k) PROVE RefInv'
  BY <1>15 DEF KillShell, Goes
<1>16. ASSUME NEW k \in Cancels, CancelSettles(k) PROVE RefInv'
  <2>1. Homes'
    BY <1>16 DEF CancelSettles, NoStop, Dropped, IdleIfCurrent, Locked
  <2>2. HeldRuns'
    BY <1>16 DEF CancelSettles, NoStop, Dropped, IdleIfCurrent, Locked
  <2>3. HeldShells'
    BY <1>16 DEF CancelSettles, NoStop, Dropped, IdleIfCurrent, Locked
  <2>4. Marking'
    BY <1>16 DEF CancelSettles, NoStop, Dropped, IdleIfCurrent, Locked
  <2>5. LetGo'
    BY <1>16 DEF CancelSettles, NoStop, Dropped, IdleIfCurrent, Locked
  <2>6. ActiveIsHeld'
    <3> SUFFICES ASSUME NEW g \in Works, Active(g)' PROVE (g \in {ref[home[g]].run, ref[home[g]].shell})'
      OBVIOUS
    <3>1. stage[g] = stage'[g] /\ stage[g] # "over"
      BY <1>16 DEF CancelSettles
    <3>2. ~Stopped(g)
      <4> SUFFICES ASSUME NEW j \in Cancels, cancels[j].at = "stopping", cancels[j].work = g PROVE FALSE
        OBVIOUS
      <4>1. j # k
        BY <1>16, <3>1 DEF CancelSettles
      <4>2. cancels'[j] = cancels[j]
        BY <1>16, <4>1 DEF CancelSettles
      <4> QED
        BY <4>2
    <3> QED
      BY <1>16, <3>1, <3>2 DEF CancelSettles
  <2> QED
    BY <2>1, <2>2, <2>3, <2>4, <2>5, <2>6
<1>17. ASSUME NEW k \in Cancels, Released(k) PROVE RefInv'
  BY <1>17 DEF Released
<1>18. CASE UNCHANGED vars
  BY <1>18 DEF vars
<1> QED
  BY <1>1, <1>2, <1>3, <1>4, <1>5, <1>6, <1>7, <1>8, <1>9, <1>10, <1>11, <1>12, <1>13, <1>14, <1>15, <1>16, <1>17, <1>18 DEF Next, CallStep, WorkStep, StopStep

(* The map leads to the busy runner until a cancel takes a later one off.  *)
LEMMA MapStep ==
  TypeInv /\ RefInv /\ (orphaned \/ BusyIsRegistered) /\ [Next]_vars
    => (orphaned \/ BusyIsRegistered)'
<1> SUFFICES ASSUME TypeInv, RefInv, orphaned \/ BusyIsRegistered, [Next]_vars, ~orphaned'
             PROVE  BusyIsRegistered'
  BY DEF BusyIsRegistered
<1>0. orphaned => orphaned'
  BY Zenon DEF Next, CallStep, WorkStep, StopStep, Store, Join, Begin, Answer, LoopTurn, RunEnds,
     Idled, StartShell, MarkBusy, ShellReady, ShellEnds, CancelNothing, CancelRun, CancelShell,
     KillShell, CancelSettles, Released, vars
<1>a. BusyIsRegistered
  BY <1>0
<1> USE <1>a DEF BusyIsRegistered, TypeInv, TypeOK, None, States, Idle, RefInv, Homes, HeldRuns,
            HeldShells, Marking
<1>1. ASSUME NEW m \in Messages, Store(m) PROVE BusyIsRegistered'
  BY <1>1 DEF Store
<1>2. ASSUME NEW m \in Messages, Join(m) PROVE BusyIsRegistered'
  BY <1>2 DEF Join
<1>3. ASSUME NEW m \in Messages, NEW f \in Works, Begin(m, f) PROVE BusyIsRegistered'
  <2>1. PICK r \in Works : BeginsAt(f, r, Behind(r)) /\ ref' = [ref EXCEPT ![r].run = f]
    BY <1>3 DEF Begin
  <2>2. registered \in {None, r} /\ registered' = r /\ ~Locked(r) /\ home' = [home EXCEPT ![f] = r]
        /\ stage' = [stage EXCEPT ![f] = Behind(r)] /\ Behind(r) # "marking" /\ stage[f] = "none"
    BY <2>1 DEF BeginsAt, RunnerFor, Goes, Fresh, Behind
  <2>3. \A x \in Works : ref'[x] # Idle => x = r
    BY <2>1, <2>2 DEF Works
  <2>4. \A g \in Works : stage'[g] = "marking" => home'[g] = r
    BY <2>2 DEF Works
  <2> QED
    BY <2>2, <2>3, <2>4
<1>4. ASSUME NEW m \in Messages, Answer(m) PROVE BusyIsRegistered'
  BY <1>4 DEF Answer
<1>5. ASSUME NEW f \in Works, LoopTurn(f) PROVE BusyIsRegistered'
  BY <1>5 DEF LoopTurn, Goes
<1>6. ASSUME NEW f \in Works, RunEnds(f) PROVE BusyIsRegistered'
  <2>1. CASE HoldsRun(f)
    <3>1. home[f] \in Works /\ f # None /\ ref[home[f]] # Idle
      BY <1>6, <2>1 DEF RunEnds, HoldsRun, Works
    <3>2. /\ \A x \in Works : ref'[x] = Idle
          /\ \A g \in Works : stage'[g] # "marking"
      BY <1>6, <2>1, <3>1 DEF RunEnds, Goes
    <3> QED
      BY <3>2
  <2>2. CASE ~HoldsRun(f)
    BY <1>6, <2>2 DEF RunEnds, Goes
  <2> QED
    BY <2>1, <2>2
<1>7. ASSUME NEW f \in Works, Idled(f) PROVE BusyIsRegistered'
  BY <1>7 DEF Idled, Goes
<1>8. ASSUME NEW f \in Works, StartShell(f) PROVE BusyIsRegistered'
  <2>1. PICK r \in Works : BeginsAt(f, r, "marking") /\ ref' = ref
    BY <1>8 DEF StartShell
  <2>2. registered \in {None, r} /\ registered' = r /\ home' = [home EXCEPT ![f] = r]
        /\ stage' = [stage EXCEPT ![f] = "marking"]
    BY <2>1 DEF BeginsAt, RunnerFor, Goes
  <2>3. \A x \in Works : ref'[x] # Idle => x = r
    BY <2>1, <2>2 DEF Works
  <2>4. \A g \in Works : stage'[g] = "marking" => home'[g] = r
    BY <2>2 DEF Works
  <2> QED
    BY <2>2, <2>3, <2>4
<1>9. ASSUME NEW f \in Works, MarkBusy(f) PROVE BusyIsRegistered'
  BY <1>9 DEF MarkBusy, Goes
<1>10. ASSUME NEW f \in Works, ShellReady(f) PROVE BusyIsRegistered'
  BY <1>10 DEF ShellReady, Goes
<1>11. ASSUME NEW f \in Works, ShellEnds(f) PROVE BusyIsRegistered'
  <2>1. CASE HoldsShell(f)
    <3>1. /\ home[f] \in Works /\ f # None
          /\ ref[home[f]] # Idle /\ home[f] = registered
      BY <1>11, <2>1 DEF ShellEnds, HoldsShell, Works
    <3>2. /\ \A x \in Works : x # home[f] => ref'[x] = Idle
          /\ \A g \in Works : stage'[g] # "marking"
      BY <1>11, <2>1, <3>1 DEF ShellEnds, Goes
    <3>3. CASE ref[home[f]].run = None
      <4>1. AfterShell(f) = Idle
        BY <3>1, <3>3 DEF AfterShell
      <4>2. \A x \in Works : ref'[x] = Idle
        BY <1>11, <2>1, <3>1, <3>2, <4>1 DEF ShellEnds
      <4> QED
        BY <3>2, <4>2
    <3>4. CASE ref[home[f]].run # None
      <4>1. registered' = registered /\ home' = home
        BY <1>11, <2>1, <3>4 DEF ShellEnds
      <4> QED
        BY <3>1, <3>2, <4>1
    <3> QED
      BY <3>3, <3>4
  <2>2. CASE ~HoldsShell(f)
    BY <1>11, <2>2 DEF ShellEnds, Goes
  <2> QED
    BY <2>1, <2>2
<1>12. ASSUME NEW k \in Cancels, CancelNothing(k) PROVE BusyIsRegistered'
  BY <1>12 DEF CancelNothing
<1>13. ASSUME NEW k \in Cancels, CancelRun(k) PROVE BusyIsRegistered'
  BY <1>13 DEF CancelRun, Busy, Goes
<1>14. ASSUME NEW k \in Cancels, CancelShell(k) PROVE BusyIsRegistered'
  BY <1>14 DEF CancelShell, Busy
<1>15. ASSUME NEW k \in Cancels, KillShell(k) PROVE BusyIsRegistered'
  BY <1>15 DEF KillShell, Goes
<1>16. ASSUME NEW k \in Cancels, CancelSettles(k) PROVE BusyIsRegistered'
  <2>1. /\ \A g \in Works : stage'[g] = "marking" => stage[g] = "marking"
        /\ ref' = ref /\ home' = home
    BY <1>16 DEF CancelSettles
  <2>2. CASE IdleIfCurrent(cancels[k].runner)
    <3>1. ref[cancels[k].runner] = Idle /\ registered \in {None, cancels[k].runner}
      BY <1>16, <2>2, Zenon DEF CancelSettles, IdleIfCurrent
    <3>2. \A x \in Works : ref[x] = Idle
      BY <3>1 DEF Works
    <3>3. \A g \in Works : stage[g] # "marking"
      BY <1>16, <3>1 DEF CancelSettles, Locked, Works
    <3> QED
      BY <2>1, <3>2, <3>3
  <2>3. CASE ~IdleIfCurrent(cancels[k].runner)
    BY <1>16, <2>1, <2>3 DEF CancelSettles
  <2> QED
    BY <2>2, <2>3
<1>17. ASSUME NEW k \in Cancels, Released(k) PROVE BusyIsRegistered'
  BY <1>17 DEF Released
<1>18. CASE UNCHANGED vars
  BY <1>18 DEF vars
<1> QED
  BY <1>1, <1>2, <1>3, <1>4, <1>5, <1>6, <1>7, <1>8, <1>9, <1>10, <1>11, <1>12, <1>13, <1>14, <1>15, <1>16, <1>17, <1>18 DEF Next, CallStep, WorkStep, StopStep

(* The invariant holds in every reachable state.                           *)
LEMMA InvHolds == Spec => []Inv
<1>1. Init => Inv
  <2> SUFFICES ASSUME Init PROVE RefInv /\ BusyIsRegistered
    BY TypeInit DEF Inv
  <2> QED
    BY DEF Init, RefInv, BusyIsRegistered, Homes, HeldRuns, HeldShells, Marking, LetGo,
       ActiveIsHeld, Active, NoStop, Idle, None
<1>2. Inv /\ [Next]_vars => Inv'
  BY TypeStep, RefStep, MapStep DEF Inv
<1> QED
  BY <1>1, <1>2, PTL DEF Spec

(* One loop or shell at a time, as long as no cancel has taken a later     *)
(* runner off the map: the runner that holds an active work is the one on  *)
(* the map, and of a shell and a run behind it only the shell is active.   *)
THEOREM SingleWork == Spec => []OneAtATime
<1>1. Inv => OneAtATime
  <2> SUFFICES ASSUME Inv, ~orphaned, NEW f \in Works, NEW g \in Works, Active(f), Active(g)
               PROVE  f = g
    BY DEF OneAtATime
  <2>1. /\ home[f] \in Works /\ f \in {ref[home[f]].run, ref[home[f]].shell}
        /\ home[g] \in Works /\ g \in {ref[home[g]].run, ref[home[g]].shell}
        /\ f # None /\ g # None
    BY DEF Inv, RefInv, Homes, ActiveIsHeld, Active, Works, None
  <2>2. home[f] = home[g]
    BY <2>1 DEF Inv, BusyIsRegistered, Idle
  <2> QED
    BY <2>1, <2>2 DEF Inv, RefInv, HeldRuns, Active
<1> QED
  BY InvHolds, <1>1, PTL

(* ... and whatever runs is found by cancel, shell and assertNotBusy.      *)
THEOREM MapFindsWork == Spec => []RunningIsFound
<1>1. Inv => RunningIsFound
  <2> SUFFICES ASSUME Inv, ~orphaned, NEW f \in Works, Active(f) PROVE Found(f)
    BY DEF RunningIsFound
  <2>1. home[f] \in Works /\ f \in {ref[home[f]].run, ref[home[f]].shell} /\ f # None
    BY DEF Inv, RefInv, Homes, ActiveIsHeld, Active, Works, None
  <2>2. registered = home[f]
    BY <2>1 DEF Inv, BusyIsRegistered, Idle
  <2> QED
    BY <2>1, <2>2 DEF Found
<1> QED
  BY InvHolds, <1>1, PTL
-----------------------------------------------------------------------------
(* How often a wakeup has called loop.                                     *)
WakeTurns == \A w \in Wakes :
  /\ calls[w].at \in {"none", "stored"} => calls[w].turns = 0
  /\ calls[w].at = "again" => calls[w].turns = 1
  /\ calls[w].at \in {"waiting", "over"} => calls[w].turns \in {1, 2}
  /\ calls[w].at \in {"again", "over"} => stage[calls[w].run] = "over"
  /\ calls[w].at \in {"waiting", "again", "over"} => calls[w].run \in Works

(* Only a run that has ended has a result.                                 *)
Results == \A f \in Works : exit[f] = "ok" => stage[f] \in {"idling", "over"}

(* The run a second call may join was begun after the wakeup was stored:   *)
(* if it will not look for messages again, it has seen this one.           *)
NextRunHasRead == \A w \in Wakes, r \in Works :
  /\ calls[w].at \in {"waiting", "again"} /\ calls[w].turns = 1
  /\ registered = r /\ ref[r].run \in Works \ {calls[w].run}
  /\ stage[ref[r].run] = "leaving"
  => w \in read

(* The run that the second call has joined.                                *)
SecondRunHasRead == \A w \in Wakes :
  /\ calls[w].at \in {"waiting", "over"} /\ calls[w].turns = 2
  /\ stage[calls[w].run] = "leaving" \/ exit[calls[w].run] = "ok"
  => w \in read

(* A wakeup is content with its first call only if that failed.            *)
FirstRunFailed == \A w \in Wakes :
  calls[w].at = "over" /\ calls[w].turns = 1 => exit[calls[w].run] # "ok"

WakeInv == WakeTurns /\ Results /\ NextRunHasRead /\ SecondRunHasRead /\ FirstRunFailed

(* A wakeup's second run does not leave before it has read the wakeup.     *)
LEMMA WakeStep == TypeInv /\ RefInv /\ WakeInv /\ [Next]_vars => WakeInv'
<1> SUFFICES ASSUME TypeInv, RefInv, WakeInv, [Next]_vars PROVE WakeInv'
  OBVIOUS
<1> USE DEF TypeInv, TypeOK, None, States, Idle, RefInv, HeldRuns, WakeInv, WakeTurns, Results,
            NextRunHasRead, SecondRunHasRead, FirstRunFailed, Messages, Calls
<1>1. ASSUME NEW m \in Messages, Store(m) PROVE WakeInv'
  BY <1>1 DEF Store
<1>2. ASSUME NEW m \in Messages, Join(m) PROVE WakeInv'
  <2>1. WakeTurns'
    BY <1>2 DEF Join, Waits, Busy, Works
  <2>2. Results'
    BY <1>2 DEF Join, Waits, Busy, Works
  <2>3. NextRunHasRead'
    BY <1>2 DEF Join, Waits, Busy, Works
  <2>4. SecondRunHasRead'
    BY <1>2 DEF Join, Waits, Busy, Works
  <2>5. FirstRunFailed'
    BY <1>2 DEF Join, Waits, Busy, Works
  <2> QED
    BY <2>1, <2>2, <2>3, <2>4, <2>5
<1>3. ASSUME NEW m \in Messages, NEW f \in Works, Begin(m, f) PROVE WakeInv'
  BY <1>3 DEF Begin, BeginsAt, Waits, Goes, Fresh, Behind
<1>4. ASSUME NEW m \in Messages, Answer(m) PROVE WakeInv'
  BY <1>4 DEF Answer, Turns
<1>5. ASSUME NEW f \in Works, LoopTurn(f) PROVE WakeInv'
  BY <1>5 DEF LoopTurn, Goes, Stored
<1>6. ASSUME NEW f \in Works, RunEnds(f) PROVE WakeInv'
  <2>0. PICK to \in {"idling", "over"}, how \in Outcomes(f) :
          /\ stage' = [stage EXCEPT ![f] = to] /\ exit' = [exit EXCEPT ![f] = how]
          /\ stage[f] \in {"working", "leaving", "interrupted"}
          /\ how = "ok" => stage[f] = "leaving"
          /\ \/ registered' = None
             \/ UNCHANGED <<ref, registered>>
          /\ UNCHANGED <<calls, read>>
    BY <1>6 DEF RunEnds, Goes, Outcomes
  <2>1. WakeTurns'
    BY <2>0 DEF Works
  <2>2. Results'
    BY <2>0 DEF Works
  <2>3. NextRunHasRead'
    <3>1. CASE registered' = None
      BY <3>1 DEF Works
    <3>2. CASE UNCHANGED <<ref, registered>>
      BY <2>0, <3>2 DEF Works
    <3> QED
      BY <2>0, <3>1, <3>2
  <2>4. SecondRunHasRead'
    BY <2>0 DEF Works
  <2>5. FirstRunFailed'
    BY <2>0 DEF Works
  <2> QED
    BY <2>1, <2>2, <2>3, <2>4, <2>5
<1>7. ASSUME NEW f \in Works, Idled(f) PROVE WakeInv'
  BY <1>7 DEF Idled, Goes
<1>8. ASSUME NEW f \in Works, StartShell(f) PROVE WakeInv'
  <2>1. WakeTurns'
    BY <1>8 DEF StartShell, BeginsAt, Goes, Fresh, Works
  <2>2. Results'
    BY <1>8 DEF StartShell, BeginsAt, Goes, Fresh, Works
  <2>3. NextRunHasRead'
    BY <1>8 DEF StartShell, BeginsAt, Goes, Fresh, Works
  <2>4. SecondRunHasRead'
    BY <1>8 DEF StartShell, BeginsAt, Goes, Fresh, Works
  <2>5. FirstRunFailed'
    BY <1>8 DEF StartShell, BeginsAt, Goes, Fresh, Works
  <2> QED
    BY <2>1, <2>2, <2>3, <2>4, <2>5
<1>9. ASSUME NEW f \in Works, MarkBusy(f) PROVE WakeInv'
  BY <1>9 DEF MarkBusy, Goes
<1>10. ASSUME NEW f \in Works, ShellReady(f) PROVE WakeInv'
  BY <1>10 DEF ShellReady, Goes
<1>11. ASSUME NEW f \in Works, ShellEnds(f) PROVE WakeInv'
  <2>1. ASSUME HoldsShell(f), NEW r \in Works, r = home[f], NEW n, n = ref[r].run
        PROVE  WakeInv'
    <3>1. /\ stage[f] \in {"executing", "killed"}
          /\ ref' = [ref EXCEPT ![r] = [shell |-> None, run |-> n]]
          /\ UNCHANGED <<exit, calls, read>>
      BY <1>11, <2>1 DEF ShellEnds, HoldsShell, AfterShell
    <3>2. CASE n = None
      <4>1. stage' = [stage EXCEPT ![f] = "idling"] /\ registered' = None
        BY <1>11, <2>1, <3>2 DEF ShellEnds, Goes
      <4> QED
        BY <3>1, <4>1 DEF Works
    <3>3. CASE n # None
      <4>1. n \in Works /\ stage[n] \in {"queued", "working", "leaving"}
        BY <2>1, <3>3
      <4>2. stage' = [stage EXCEPT ![f] = "over", ![n] = "working"] /\ registered' = registered
        BY <1>11, <2>1, <3>3 DEF ShellEnds
      <4>3. WakeTurns'
        BY <2>1, <3>1, <3>3, <4>1, <4>2 DEF Works
      <4>4. Results'
        BY <2>1, <3>1, <3>3, <4>1, <4>2 DEF Works
      <4>5. NextRunHasRead'
        BY <2>1, <3>1, <3>3, <4>1, <4>2 DEF Works
      <4>6. SecondRunHasRead'
        BY <2>1, <3>1, <3>3, <4>1, <4>2 DEF Works
      <4>7. FirstRunFailed'
        BY <2>1, <3>1, <3>3, <4>1, <4>2 DEF Works
      <4> QED
        BY <4>3, <4>4, <4>5, <4>6, <4>7
    <3> QED
      BY <3>2, <3>3
  <2>2. CASE ~HoldsShell(f)
    <3>1. /\ stage' = [stage EXCEPT ![f] = "over"] /\ stage[f] \in {"executing", "killed"}
          /\ UNCHANGED <<ref, registered, exit, calls, read>>
      BY <1>11, <2>2 DEF ShellEnds, Goes
    <3> QED
      BY <3>1 DEF Works
  <2>3. home[f] \in Works
    BY <1>11 DEF ShellEnds, Homes
  <2> QED
    BY <2>1, <2>2, <2>3
<1>12. ASSUME NEW k \in Cancels, CancelNothing(k) PROVE WakeInv'
  BY <1>12 DEF CancelNothing
<1>13. ASSUME NEW k \in Cancels, CancelRun(k) PROVE WakeInv'
  <2>1. WakeTurns'
    BY <1>13 DEF CancelRun, Busy, Goes, Works
  <2>2. Results'
    BY <1>13 DEF CancelRun, Busy, Goes, Works
  <2>3. NextRunHasRead'
    BY <1>13 DEF CancelRun, Busy, Goes, Works
  <2>4. SecondRunHasRead'
    BY <1>13 DEF CancelRun, Busy, Goes, Works
  <2>5. FirstRunFailed'
    BY <1>13 DEF CancelRun, Busy, Goes, Works
  <2> QED
    BY <2>1, <2>2, <2>3, <2>4, <2>5
<1>14. ASSUME NEW k \in Cancels, CancelShell(k) PROVE WakeInv'
  <2>1. WakeTurns'
    BY <1>14 DEF CancelShell, Busy, Works
  <2>2. Results'
    BY <1>14 DEF CancelShell, Busy, Works
  <2>3. NextRunHasRead'
    BY <1>14 DEF CancelShell, Busy, Works
  <2>4. SecondRunHasRead'
    BY <1>14 DEF CancelShell, Busy, Works
  <2>5. FirstRunFailed'
    BY <1>14 DEF CancelShell, Busy, Works
  <2> QED
    BY <2>1, <2>2, <2>3, <2>4, <2>5
<1>15. ASSUME NEW k \in Cancels, KillShell(k) PROVE WakeInv'
  BY <1>15 DEF KillShell, Goes
<1>16. ASSUME NEW k \in Cancels, CancelSettles(k) PROVE WakeInv'
  <2>1. WakeTurns'
    BY <1>16 DEF CancelSettles, Dropped, Works
  <2>2. Results'
    BY <1>16 DEF CancelSettles, Dropped, Works
  <2>3. NextRunHasRead'
    BY <1>16 DEF CancelSettles, Dropped, Works
  <2>4. SecondRunHasRead'
    BY <1>16 DEF CancelSettles, Dropped, Works
  <2>5. FirstRunFailed'
    BY <1>16 DEF CancelSettles, Dropped, Works
  <2> QED
    BY <2>1, <2>2, <2>3, <2>4, <2>5
<1>17. ASSUME NEW k \in Cancels, Released(k) PROVE WakeInv'
  BY <1>17 DEF Released
<1>18. CASE UNCHANGED vars
  BY <1>18 DEF vars
<1> QED
  BY <1>1, <1>2, <1>3, <1>4, <1>5, <1>6, <1>7, <1>8, <1>9, <1>10, <1>11, <1>12, <1>13, <1>14, <1>15, <1>16, <1>17, <1>18 DEF Next, CallStep, WorkStep, StopStep

(* wake calls loop twice and therefore a loop reads its message, whatever  *)
(* overlaps, also when a runner has been lost.                             *)
THEOREM WakeupsRead == Spec => []WakeupsAreRead
<1>1. Init => WakeInv
  BY DEF Init, WakeInv, WakeTurns, Results, NextRunHasRead, SecondRunHasRead, FirstRunFailed,
     Messages, NoCall, Idle, None
<1>2. Inv /\ WakeInv /\ [Next]_vars => WakeInv'
  BY WakeStep DEF Inv
<1>3. WakeInv => WakeupsAreRead
  BY DEF WakeInv, WakeTurns, SecondRunHasRead, FirstRunFailed, WakeupsAreRead, HasRead
<1> QED
  BY InvHolds, <1>1, <1>2, <1>3, PTL DEF Spec
-----------------------------------------------------------------------------
(* Who is still to show the session as idle, or to clear the map.          *)
Ending  == \E f \in Works : stage[f] = "idling"
Closing == \E k \in Cancels : cancels[k].at \in {"stopping", "releasing"}
Holding == \E r \in Works : ref[r] # Idle
BusyIsCleared == status = "busy" => Ending \/ Closing \/ Holding

Marked(r)  == \E f \in Works : stage[f] = "marking" /\ home[f] = r
Halting(r) == \E k \in Cancels : cancels[k].at = "stopping" /\ cancels[k].runner = r
MapIsCleared ==
  registered # None => ref[registered] # Idle \/ Marked(registered) \/ Halting(registered)

Cleared == BusyIsCleared /\ MapIsCleared

(* A cancel has stopped a work on a runner; none of what it stopped ends   *)
(* as the work that shows the session as idle.                             *)
StopsWork == \A k \in Cancels : cancels[k].at = "stopping" =>
  /\ cancels[k].runner \in Works
  /\ cancels[k].work \in Works
  /\ \A f \in StoppedWork(k) : stage[f] # "idling"

QuietInv == Cleared /\ StopsWork

(* Only what a runner holds becomes the work that shows it idle.           *)
LEMMA IdlingWasHeld ==
  ASSUME TypeInv, RefInv, [Next]_vars, NEW f \in Works, stage'[f] = "idling"
  PROVE  stage[f] = "idling" \/ \E r \in Works : f \in {ref[r].run, ref[r].shell}
<1> USE DEF None
<1>0. /\ stage \in [Works -> Stages] /\ ref \in [Works -> States]
      /\ cancels \in [Cancels -> Stops] /\ None \notin Works
      /\ \A g \in Works : stage[g] # "none" => home[g] \in Works
  BY DEF TypeInv, TypeOK, Works, RefInv, Homes
<1>1. ASSUME UNCHANGED stage PROVE stage[f] = "idling"
  BY <1>1
<1>2. ASSUME NEW g \in Works, NEW to, to # "idling", Goes(g, to) PROVE stage[f] = "idling"
  BY <1>0, <1>2 DEF Goes
<1>3. ASSUME NEW m \in Messages, NEW g \in Works, Begin(m, g) PROVE stage[f] = "idling"
  <2>1. PICK r \in Works : Goes(g, Behind(r))
    BY <1>3 DEF Begin, BeginsAt
  <2> QED BY <1>2, <2>1 DEF Behind
<1>4. ASSUME NEW g \in Works, RunEnds(g) \/ ShellEnds(g)
      PROVE  stage[f] = "idling" \/ \E r \in Works : f \in {ref[r].run, ref[r].shell}
  <2>1. home[g] \in Works
    BY <1>0, <1>4 DEF RunEnds, ShellEnds
  <2>2. CASE RunEnds(g) /\ HoldsRun(g)
    BY <1>0, <2>1, <2>2 DEF RunEnds, HoldsRun, Goes
  <2>3. CASE RunEnds(g) /\ ~HoldsRun(g)
    BY <1>2, <2>3 DEF RunEnds
  <2>4. CASE ShellEnds(g) /\ HoldsShell(g)
    BY <1>0, <2>1, <2>4 DEF ShellEnds, HoldsShell, Goes
  <2>5. CASE ShellEnds(g) /\ ~HoldsShell(g)
    BY <1>2, <2>5 DEF ShellEnds
  <2> QED BY <1>4, <2>2, <2>3, <2>4, <2>5
<1>5. ASSUME NEW g \in Works, StartShell(g) PROVE stage[f] = "idling"
  BY <1>2, <1>5 DEF StartShell, BeginsAt
<1>6. ASSUME NEW g \in Works, LoopTurn(g) \/ Idled(g) \/ MarkBusy(g) \/ ShellReady(g)
      PROVE  stage[f] = "idling"
  <2>1. \E to \in Stages : to # "idling" /\ Goes(g, to)
    BY <1>6 DEF LoopTurn, Idled, MarkBusy, ShellReady, Stages, Runs, Shells
  <2> QED BY <1>2, <2>1
<1>7. ASSUME NEW k \in Cancels, CancelRun(k) PROVE stage[f] = "idling"
  <2>1. \E to : to # "idling" /\ stage' = [stage EXCEPT ![ref[registered].run] = to]
    BY <1>7 DEF CancelRun, Goes
  <2> QED BY <1>0, <2>1
<1>8. ASSUME NEW k \in Cancels, KillShell(k) PROVE stage[f] = "idling"
  BY <1>0, <1>8 DEF KillShell, Goes
<1>9. ASSUME NEW k \in Cancels, CancelSettles(k) PROVE stage[f] = "idling"
  BY <1>9 DEF CancelSettles
<1> QED
  BY <1>1, <1>3, <1>4, <1>5, <1>6, <1>7, <1>8, <1>9
  DEF Next, CallStep, WorkStep, StopStep, vars, Store, Join, Answer, CancelNothing, CancelShell,
      Released

(* Only cancelling a busy runner stops a work.                             *)
LEMMA StopsBegin ==
  ASSUME TypeInv, [Next]_vars, NEW k \in Cancels, cancels'[k].at = "stopping"
  PROVE  cancels'[k] = cancels[k] \/ CancelRun(k) \/ CancelShell(k)
<1>0. cancels \in [Cancels -> Stops]
  BY DEF TypeInv, TypeOK
<1>1. ASSUME NEW j \in Cancels, CancelNothing(j) \/ CancelSettles(j) \/ Released(j)
      PROVE  cancels'[k] = cancels[k]
  <2>1. cancels'[j].at # "stopping" /\ \A i \in Cancels : i # j => cancels'[i] = cancels[i]
    <3>1. CASE CancelNothing(j) \/ Released(j)
      BY <1>0, <3>1 DEF CancelNothing, Released, Stops
    <3>2. CASE CancelSettles(j)
      <4>1. PICK to \in {"releasing", "over"} :
              cancels' = [cancels EXCEPT ![j] = [NoStop EXCEPT !.at = to]]
        BY <3>2 DEF CancelSettles
      <4> QED BY <1>0, <4>1 DEF NoStop
    <3> QED BY <1>1, <3>1, <3>2
  <2> QED BY <1>0, <2>1
<1>2. ASSUME NEW j \in Cancels, CancelRun(j) \/ CancelShell(j)
      PROVE  cancels'[k] = cancels[k] \/ j = k
  BY <1>0, <1>2 DEF CancelRun, CancelShell
<1> QED
  BY <1>1, <1>2
  DEF Next, CallStep, WorkStep, StopStep, vars, Store, Join, Begin, Answer, LoopTurn, StartShell,
      RunEnds, Idled, MarkBusy, ShellReady, ShellEnds, KillShell

(* What a cancel stops ends without clearing up: the cancel does that.     *)
LEMMA StopsWorkStep == TypeInv /\ RefInv /\ StopsWork /\ [Next]_vars => StopsWork'
<1> SUFFICES ASSUME TypeInv, RefInv, StopsWork, [Next]_vars,
                    NEW k \in Cancels, cancels'[k].at = "stopping"
             PROVE  /\ cancels'[k].runner \in Works /\ cancels'[k].work \in Works
                    /\ \A f \in StoppedWork(k)' : stage'[f] # "idling"
  BY DEF StopsWork
<1>0. /\ registered \in Works \cup {None} /\ ref \in [Works -> States]
      /\ cancels \in [Cancels -> Stops] /\ stage \in [Works -> Stages]
  BY DEF TypeInv, TypeOK
<1>1. CASE cancels'[k] = cancels[k]
  <2>1. StoppedWork(k)' = StoppedWork(k) /\ StoppedWork(k) \subseteq Works
    BY <1>0, <1>1 DEF StoppedWork, Stops
  <2>2. \A f \in StoppedWork(k) : stage[f] # "idling" /\ \A r \in Works : f \notin {ref[r].run, ref[r].shell}
    BY <1>1 DEF StopsWork, RefInv, LetGo
  <2>3. \A f \in StoppedWork(k) : stage'[f] # "idling"
    BY <2>1, <2>2, IdlingWasHeld
  <2> QED BY <1>1, <2>1, <2>3 DEF StopsWork
<1>2. CASE CancelRun(k)
  <2>1. /\ cancels'[k].runner = registered /\ registered \in Works
        /\ cancels'[k].work = ref[registered].run /\ cancels'[k].queued = None
        /\ ref[registered].run \in Works
    BY <1>0, <1>2 DEF CancelRun, Busy, Idle, States
  <2>2. stage'[ref[registered].run] \in {"interrupted", "leaving"}
    BY <1>0, <1>2, <2>1 DEF CancelRun, Goes
  <2> QED BY <2>1, <2>2 DEF StoppedWork
<1>3. CASE CancelShell(k)
  <2>1. /\ cancels'[k].runner = registered /\ registered \in Works /\ stage' = stage
        /\ cancels'[k].work = ref[registered].shell /\ cancels'[k].queued = ref[registered].run
        /\ ref[registered].shell \in Works /\ ref[registered].shell # None
    BY <1>0, <1>3 DEF CancelShell, Busy, States
  <2>2. stage[ref[registered].shell] # "idling"
    BY <2>1 DEF RefInv, HeldShells
  <2>3. ref[registered].run # None => stage[ref[registered].run] # "idling"
    BY <2>1 DEF RefInv, HeldRuns
  <2> QED BY <2>1, <2>2, <2>3 DEF StoppedWork
<1> QED BY <1>1, <1>2, <1>3, StopsBegin

(* Whatever ends or is stopped leaves somebody who clears up after it.     *)
LEMMA QuietStep == TypeInv /\ RefInv /\ QuietInv /\ [Next]_vars => Cleared'
<1> SUFFICES ASSUME TypeInv, RefInv, QuietInv, [Next]_vars PROVE Cleared'
  OBVIOUS
<1> USE DEF None
<1>0. /\ registered \in Works \cup {None} /\ ref \in [Works -> States]
      /\ home \in [Works -> Works \cup {None}] /\ stage \in [Works -> Stages]
      /\ cancels \in [Cancels -> Stops]
      /\ None \notin Works
      /\ BusyIsCleared /\ MapIsCleared /\ StopsWork
  BY DEF TypeInv, TypeOK, QuietInv, Cleared, Works
<1>a. ASSUME UNCHANGED <<ref, registered, home, stage, cancels>>, status' \in {status, "idle"}
      PROVE  Cleared'
  BY <1>0, <1>a
  DEF Cleared, BusyIsCleared, MapIsCleared, Ending, Closing, Holding, Marked, Halting
<1>1. ASSUME NEW m \in Messages, Store(m) \/ Join(m) \/ Answer(m) PROVE Cleared'
  BY <1>1, <1>a DEF Store, Join, Answer
<1>3. ASSUME NEW m \in Messages, NEW f \in Works, Begin(m, f) PROVE Cleared'
  <2>1. PICK r \in Works :
          /\ registered' = r /\ ref' = [ref EXCEPT ![r].run = f] /\ UNCHANGED cancels
    BY <1>3 DEF Begin, BeginsAt
  <2>2. ref'[r] # Idle
    BY <1>0, <2>1 DEF Idle, States
  <2>. QED
    BY <1>0, <2>1, <2>2 DEF Cleared, BusyIsCleared, MapIsCleared, Holding
<1>5. ASSUME NEW f \in Works, LoopTurn(f) PROVE Cleared'
  <2>1. PICK to \in {"working", "leaving"} : stage' = [stage EXCEPT ![f] = to]
    BY <1>5 DEF LoopTurn, Goes
  <2>2. UNCHANGED <<registered, ref, home, cancels>> /\ stage[f] = "working"
    BY <1>5 DEF LoopTurn
  <2>3. Holding \/ Closing
    <3>1. CASE Stopped(f)
      BY <3>1 DEF Stopped, Closing
    <3>2. CASE ~Stopped(f)
      <4>1. f \in {ref[home[f]].run, ref[home[f]].shell} /\ home[f] \in Works
        BY <2>2, <3>2 DEF RefInv, ActiveIsHeld, Active, Homes
      <4>. QED BY <1>0, <4>1 DEF Holding, Idle
    <3>. QED BY <3>1, <3>2
  <2>4. BusyIsCleared'
    BY <2>2, <2>3 DEF BusyIsCleared, Holding, Closing
  <2>5. MapIsCleared' 
    BY <1>0, <2>1, <2>2 DEF MapIsCleared, Marked, Halting
  <2>. QED BY <2>4, <2>5 DEF Cleared
<1>6. ASSUME NEW f \in Works, RunEnds(f) PROVE Cleared'
  <2>0. UNCHANGED <<home, cancels, status>> /\ stage[f] \in {"working", "leaving", "interrupted"}
    BY <1>6 DEF RunEnds
  <2>1. CASE HoldsRun(f)
    <3>1. registered' = None /\ stage' = [stage EXCEPT ![f] = "idling"]
      BY <1>6, <2>1 DEF RunEnds, Goes
    <3>2. Ending'
      BY <1>0, <3>1 DEF Ending
    <3>. QED
      BY <1>0, <2>0, <3>1, <3>2 DEF Cleared, BusyIsCleared, MapIsCleared
  <2>2. CASE ~HoldsRun(f)
    <3>1. UNCHANGED <<ref, registered>> /\ stage' = [stage EXCEPT ![f] = "over"]
      BY <1>6, <2>2 DEF RunEnds, Goes
    <3>2. (Ending => Ending') /\ \A r : Marked(r) => Marked(r)'
      BY <1>0, <2>0, <3>1 DEF Ending, Marked
    <3>. QED
      BY <1>0, <2>0, <3>1, <3>2
      DEF Cleared, BusyIsCleared, MapIsCleared, Closing, Holding, Halting
  <2>. QED BY <2>1, <2>2
<1>7. ASSUME NEW f \in Works, Idled(f) PROVE Cleared'
  <2>1. /\ status' = "idle" /\ stage' = [stage EXCEPT ![f] = "over"] /\ stage[f] = "idling"
        /\ UNCHANGED <<registered, ref, home, cancels>>
    BY <1>7 DEF Idled, Goes
  <2>2. \A r : Marked(r) => Marked(r)'
    BY <1>0, <2>1 DEF Marked
  <2>. QED
    BY <1>0, <2>1, <2>2 DEF Cleared, BusyIsCleared, MapIsCleared, Halting
<1>8. ASSUME NEW f \in Works, StartShell(f) PROVE Cleared'
  <2>1. PICK r \in Works :
          /\ registered' = r /\ home' = [home EXCEPT ![f] = r]
          /\ stage' = [stage EXCEPT ![f] = "marking"] /\ stage[f] = "none"
          /\ UNCHANGED <<ref, cancels, status>>
    BY <1>8 DEF StartShell, BeginsAt, Goes, Fresh
  <2>2. Marked(registered)'
    BY <1>0, <2>1 DEF Marked
  <2>3. Ending => Ending'
    BY <1>0, <2>1 DEF Ending
  <2>. QED
    BY <1>0, <2>1, <2>2, <2>3
    DEF Cleared, BusyIsCleared, MapIsCleared, Closing, Holding
<1>9. ASSUME NEW f \in Works, MarkBusy(f) PROVE Cleared'
  <2>1. /\ ref' = [ref EXCEPT ![home[f]].shell = f]
        /\ stage' = [stage EXCEPT ![f] = "starting"] /\ stage[f] = "marking"
        /\ UNCHANGED <<registered, home, cancels>> /\ home[f] \in Works
    BY <1>9 DEF MarkBusy, Goes, RefInv, Homes
  <2>2. ref'[home[f]] # Idle /\ \A r \in Works : r # home[f] => ref'[r] = ref[r]
    BY <1>0, <2>1 DEF Idle, States
  <2>3. \A r : Marked(r) => Marked(r)' \/ r = home[f]
    BY <1>0, <2>1 DEF Marked
  <2>. QED
    BY <1>0, <2>1, <2>2, <2>3
    DEF Cleared, BusyIsCleared, MapIsCleared, Holding, Halting
<1>10. ASSUME NEW f \in Works, NEW to \in {"executing", "killed"}, stage[f] \in {"starting", "executing"},
              stage' = [stage EXCEPT ![f] = to], UNCHANGED <<registered, ref, home, cancels, status>>
       PROVE  Cleared'
  <2>1. (Ending => Ending') /\ \A r : Marked(r) => Marked(r)'
    BY <1>0, <1>10 DEF Ending, Marked
  <2>. QED
    BY <1>0, <1>10, <2>1
    DEF Cleared, BusyIsCleared, MapIsCleared, Closing, Holding, Halting
<1>11. ASSUME NEW f \in Works, ShellReady(f) PROVE Cleared'
  BY <1>10, <1>11 DEF ShellReady, Goes
<1>12. ASSUME NEW f \in Works, ShellEnds(f) PROVE Cleared'
  <2>0. /\ UNCHANGED <<home, cancels, status>> /\ stage[f] \in {"executing", "killed"}
        /\ home[f] \in Works
    BY <1>12 DEF ShellEnds, RefInv, Homes
  <2>. DEFINE n == ref[home[f]].run
  <2>1. CASE HoldsShell(f) /\ n = None
    <3>1. registered' = None /\ stage' = [stage EXCEPT ![f] = "idling"]
      BY <1>12, <2>1 DEF ShellEnds, Goes
    <3>2. Ending'
      BY <1>0, <3>1 DEF Ending
    <3>. QED
      BY <1>0, <2>0, <3>1, <3>2 DEF Cleared, BusyIsCleared, MapIsCleared
  <2>2. CASE HoldsShell(f) /\ n # None
    <3>1. /\ registered' = registered /\ stage' = [stage EXCEPT ![f] = "over", ![n] = "working"]
          /\ ref' = [ref EXCEPT ![home[f]] = AfterShell(f)]
      BY <1>12, <2>2 DEF ShellEnds
    <3>2. ref'[home[f]] # Idle /\ \A r \in Works : r # home[f] => ref'[r] = ref[r]
      BY <1>0, <2>0, <2>2, <3>1 DEF Idle, AfterShell, States
    <3>3. stage[n] = "queued"
      BY <1>0, <2>0, <2>2 DEF RefInv, HeldRuns, HoldsShell
    <3>4. \A r : Marked(r) => Marked(r)'
      BY <1>0, <2>0, <3>1, <3>3 DEF Marked
    <3>. QED
      BY <1>0, <2>0, <3>1, <3>2, <3>4
      DEF Cleared, BusyIsCleared, MapIsCleared, Holding, Halting
  <2>3. CASE ~HoldsShell(f)
    <3>1. UNCHANGED <<ref, registered>> /\ stage' = [stage EXCEPT ![f] = "over"]
      BY <1>12, <2>3 DEF ShellEnds, Goes
    <3>2. (Ending => Ending') /\ \A r : Marked(r) => Marked(r)'
      BY <1>0, <2>0, <3>1 DEF Ending, Marked
    <3>. QED
      BY <1>0, <2>0, <3>1, <3>2
      DEF Cleared, BusyIsCleared, MapIsCleared, Closing, Holding, Halting
  <2>. QED BY <2>1, <2>2, <2>3
<1>13. ASSUME NEW k \in Cancels, CancelNothing(k) PROVE Cleared'
  <2>1. /\ cancels[k].at = "none" /\ cancels' = [cancels EXCEPT ![k].at = "releasing"]
        /\ UNCHANGED <<registered, ref, home, stage, status>>
    BY <1>13 DEF CancelNothing, Called
  <2>2. \A j \in Cancels : cancels'[j] = cancels[j] \/ (j = k /\ cancels'[j].at = "releasing")
    BY <1>0, <2>1 DEF Stops
  <2>3. Closing' /\ \A r : Halting(r) => Halting(r)'
    BY <1>0, <2>1, <2>2 DEF Closing, Halting, Stops
  <2>. QED
    BY <1>0, <2>1, <2>2, <2>3 DEF Cleared, BusyIsCleared, MapIsCleared, Marked
<1>14. ASSUME NEW k \in Cancels, CancelRun(k) \/ CancelShell(k) PROVE Cleared'
  <2>1. /\ registered \in Works /\ registered' = registered
        /\ cancels[k].at = "none" /\ cancels'[k].at = "stopping" /\ cancels'[k].runner = registered
        /\ \A j \in Cancels : j # k => cancels'[j] = cancels[j]
    BY <1>0, <1>14 DEF CancelRun, CancelShell, Called, Busy
  <2>2. Closing' /\ Halting(registered)'
    BY <2>1 DEF Closing, Halting
  <2>. QED
    BY <1>0, <2>1, <2>2 DEF Cleared, BusyIsCleared, MapIsCleared
<1>15. ASSUME NEW k \in Cancels, KillShell(k) PROVE Cleared'
  <2>1. cancels[k].work \in Works
    BY <1>15 DEF KillShell, QuietInv, StopsWork
  <2>. QED BY <1>10, <1>15, <2>1 DEF KillShell, Goes
<1>16. ASSUME NEW k \in Cancels, CancelSettles(k) PROVE Cleared'
  <2>0. /\ UNCHANGED <<ref, home, status>> /\ cancels[k].at = "stopping"
        /\ cancels[k].runner \in Works
        /\ stage' = [f \in Works |-> IF f \in Dropped(k) THEN "over" ELSE stage[f]]
    BY <1>0, <1>16 DEF CancelSettles, StopsWork
  <2>a. \A f \in Dropped(k) : stage[f] \notin {"marking", "idling"}
    BY <1>0, <2>0 DEF StopsWork, RefInv, LetGo, Dropped, StoppedWork
  <2>1. (Ending => Ending') /\ \A r : Marked(r) => Marked(r)'
    BY <1>0, <2>0, <2>a DEF Ending, Marked
  <2>2. CASE IdleIfCurrent(cancels[k].runner)
    <3>1. registered' = None /\ cancels' = [cancels EXCEPT ![k] = [NoStop EXCEPT !.at = "releasing"]]
      BY <1>16, <2>2 DEF CancelSettles
    <3>2. cancels'[k].at = "releasing" /\ \A j \in Cancels : j # k => cancels'[j] = cancels[j]
      BY <1>0, <3>1 DEF NoStop
    <3>. QED
      BY <1>0, <3>1, <3>2 DEF Cleared, BusyIsCleared, MapIsCleared, Closing
  <2>3. CASE ~IdleIfCurrent(cancels[k].runner)
    <3>1. /\ registered' = registered
          /\ cancels' = [cancels EXCEPT ![k] = [NoStop EXCEPT !.at = "over"]]
      BY <1>16, <2>3 DEF CancelSettles
    <3>2. cancels'[k].at = "over" /\ \A j \in Cancels : j # k => cancels'[j] = cancels[j]
      BY <1>0, <3>1 DEF NoStop
    <3>3. ref[cancels[k].runner] # Idle
      BY <2>3 DEF IdleIfCurrent
    <3>4. \A r : Halting(r) => Halting(r)' \/ r = cancels[k].runner
      BY <3>2 DEF Halting
    <3>. QED
      BY <1>0, <2>0, <2>1, <3>1, <3>2, <3>3, <3>4
      DEF Cleared, BusyIsCleared, MapIsCleared, Holding
  <2>. QED BY <2>2, <2>3
<1>17. ASSUME NEW k \in Cancels, Released(k) PROVE Cleared'
  <2>1. /\ cancels[k].at = "releasing" /\ cancels' = [cancels EXCEPT ![k].at = "over"]
        /\ status' = "idle" /\ UNCHANGED <<registered, ref, home, stage>>
    BY <1>17 DEF Released
  <2>2. \A j \in Cancels : cancels'[j] = cancels[j] \/ (j = k /\ cancels'[j].at = "over")
    BY <1>0, <2>1 DEF Stops
  <2>3. \A r : Halting(r) => Halting(r)'
    BY <2>1, <2>2 DEF Halting
  <2>. QED
    BY <1>0, <2>1, <2>2, <2>3 DEF Cleared, BusyIsCleared, MapIsCleared, Marked
<1>18. CASE UNCHANGED vars
  BY <1>18, <1>a DEF vars
<1> QED
  BY <1>1, <1>3, <1>5, <1>6, <1>7, <1>8, <1>9, <1>11, <1>12, <1>13, <1>14, <1>15, <1>16, <1>17, <1>18
  DEF Next, CallStep, WorkStep, StopStep

(* When every work has ended and every cancel has returned, the session is *)
(* idle and off the map, also after a runner was lost.                     *)
THEOREM QuietSessionIsIdle == Spec => []QuietIsIdle
<1>1. Init => QuietInv
  BY DEF Init, QuietInv, Cleared, BusyIsCleared, MapIsCleared, StopsWork, NoStop, None
<1>2. Inv /\ QuietInv /\ [Next]_vars => QuietInv'
  BY QuietStep, StopsWorkStep DEF Inv, QuietInv
<1>3. Inv /\ QuietInv => QuietIsIdle
  <2> SUFFICES ASSUME Inv, QuietInv,
                      \A f \in Works : stage[f] \in {"none", "over"},
                      \A k \in Cancels : cancels[k].at \in {"none", "over"}
               PROVE  registered = None /\ status = "idle"
    BY DEF QuietIsIdle
  <2>1. /\ registered \in Works \cup {None} /\ ref \in [Works -> States]
        /\ status \in {"idle", "busy"}
    BY DEF Inv, TypeInv, TypeOK
  <2>2. \A r \in Works : ref[r] = Idle
    <3> SUFFICES ASSUME NEW r \in Works PROVE ref[r] = Idle
      OBVIOUS
    <3>1. ref[r].run \in Works \cup {None} /\ ref[r].shell \in Works \cup {None}
      BY <2>1 DEF States
    <3>2. ref[r].run = None /\ ref[r].shell = None
      BY <3>1 DEF Inv, RefInv, HeldRuns, HeldShells
    <3> QED BY <2>1, <3>2 DEF States, Idle
  <2> QED
    BY <2>1, <2>2 DEF QuietInv, Cleared, BusyIsCleared, MapIsCleared, Ending, Closing, Holding, Marked, Halting
<1> QED
  BY InvHolds, <1>1, <1>2, <1>3, PTL DEF Spec
=============================================================================
