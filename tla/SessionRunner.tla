---------------------------- MODULE SessionRunner ----------------------------
(***************************************************************************)
(* What runs in one session: the Runner state machine (effect/runner.ts),  *)
(* the map that finds a session's runner (session/run-state.ts), and those *)
(* who call it: prompt, wake, shell and cancel (session/prompt.ts).        *)
(*                                                                         *)
(* A work is a fiber, either the agent's loop or a shell command.  A       *)
(* runner is made for a work and named after it.  An action is the code    *)
(* between two points where the fibers of the session can interleave.      *)
(***************************************************************************)
EXTENDS Naturals

CONSTANTS
  Prompts,   \* calls of prompt, each with a message of its own
  Wakes,     \* calls of wake, each with a message of its own
  MaxWorks,  \* bound on the works that are started
  MaxCancels \* bound on the calls of cancel

ASSUME RunnerAssumption == Prompts \cap Wakes = {} /\ MaxWorks \in Nat /\ MaxCancels \in Nat

VARIABLES
  registered,  \* the session's entry in the map of runners
  ref,         \* per runner: the shell and the run it is busy with
  home,        \* per work: its runner
  stage,       \* per work: how far it is
  exit,        \* per work: how it ended
  calls,       \* per message: the call of prompt or wake it came with
  cancels,     \* per call of cancel: what it has stopped
  status,      \* what SessionStatus shows
  read,        \* messages that a loop has read
  orphaned     \* history: has a cancel taken another runner off the map?

vars == <<registered, ref, home, stage, exit, calls, cancels, status, read, orphaned>>

None  == 0
Works == 1..MaxWorks
Cancels == 1..MaxCancels
Messages == Prompts \cup Wakes

(* Idle has neither, Running a run, Shell a shell, ShellThenRun both.      *)
States == [shell : Works \cup {None}, run : Works \cup {None}]
Idle   == [shell |-> None, run |-> None]

Runs   == {"queued", "working", "leaving", "interrupted"}
Shells == {"marking", "starting", "executing", "killed"}
Stages == Runs \cup Shells \cup {"none", "idling", "over"}
Exits  == {"none", "ok", "failed", "cancelled"}

(* turns counts the calls of loop so far.                                  *)
Calls  == [at : {"none", "stored", "waiting", "again", "over"},
           run : Works \cup {None}, turns : 0..2]
Stops  == [at : {"none", "stopping", "releasing", "over"},
           runner : Works \cup {None}, work : Works \cup {None}, queued : Works \cup {None}]

TypeOK ==
  /\ registered \in Works \cup {None}
  /\ ref \in [Works -> States]
  /\ home \in [Works -> Works \cup {None}]
  /\ stage \in [Works -> Stages]
  /\ exit \in [Works -> Exits]
  /\ calls \in [Messages -> Calls]
  /\ cancels \in [Cancels -> Stops]
  /\ status \in {"idle", "busy"}
  /\ read \subseteq Messages
  /\ orphaned \in BOOLEAN

NoCall == [at |-> "none", run |-> None, turns |-> 0]
NoStop == [at |-> "none", runner |-> None, work |-> None, queued |-> None]

Init ==
  /\ registered = None
  /\ ref = [r \in Works |-> Idle]
  /\ home = [f \in Works |-> None]
  /\ stage = [f \in Works |-> "none"]
  /\ exit = [f \in Works |-> "none"]
  /\ calls = [m \in Messages |-> NoCall]
  /\ cancels = [k \in Cancels |-> NoStop]
  /\ status = "idle"
  /\ read = {}
  /\ orphaned = FALSE
-----------------------------------------------------------------------------
Goes(f, to) == stage' = [stage EXCEPT ![f] = to]

(* The next work to be started.                                            *)
Fresh(f) == stage[f] = "none" /\ \A g \in Works : g < f => stage[g] # "none"

(* The next call of cancel.                                                *)
Called(k) == cancels[k].at = "none" /\ \A j \in Cancels : j < k => cancels[j].at # "none"

(* startShell holds the runner's lock while it shows the session as busy.  *)
Locked(r) == \E f \in Works : stage[f] = "marking" /\ home[f] = r

(* The runner that a call is given when it asks for the session's.         *)
RunnerFor(f) == IF registered = None THEN f ELSE registered

(* A work begins on the session's runner, which is made if there is none.  *)
BeginsAt(f, r, to) ==
  /\ Fresh(f) /\ r = RunnerFor(f) /\ ~Locked(r)
  /\ registered' = r
  /\ home' = [home EXCEPT ![f] = r]
  /\ Goes(f, to)

(* Whether the runner on the map, if there is one, is busy.                *)
Busy == registered # None /\ ref[registered] # Idle

HoldsRun(f)   == ref[home[f]] = [shell |-> None, run |-> f]
HoldsShell(f) == ref[home[f]].shell = f

Stored == {m \in Messages : calls[m].at # "none"}
-----------------------------------------------------------------------------
(* prompt and wake store a message ...                                     *)
Store(m) ==
  /\ calls[m].at = "none"
  /\ calls' = [calls EXCEPT ![m].at = "stored"]
  /\ UNCHANGED <<registered, ref, home, stage, exit, cancels, status, read, orphaned>>

Waits(m, f) ==
  /\ calls[m].at \in {"stored", "again"}
  /\ calls' = [calls EXCEPT ![m] = [at |-> "waiting", run |-> f, turns |-> @.turns + 1]]

(* ... and call loop: ensureRunning joins the run there is ...             *)
Join(m) ==
  /\ Busy /\ ref[registered].run # None
  /\ Waits(m, ref[registered].run)
  /\ UNCHANGED <<registered, ref, home, stage, exit, cancels, status, read, orphaned>>

(* Mutant: the run does not wait for the shell.                            *)
BehindNothing(r) == "working"

Behind(r) == IF ref[r].shell = None THEN "working" ELSE "queued"

(* ... or begins one, behind the shell if there is one.                    *)
Begin(m, f) ==
  \E r \in Works :
    /\ BeginsAt(f, r, Behind(r))
    /\ ref[r].run = None
    /\ ref' = [ref EXCEPT ![r].run = f]
    /\ Waits(m, f)
    /\ UNCHANGED <<exit, cancels, status, read, orphaned>>

(* Mutants: a wakeup calls loop once; it calls it a third time.            *)
TurnsOnce(m)   == 1
TurnsThrice(m) == IF m \in Wakes THEN 3 ELSE 1

Turns(m) == IF m \in Wakes THEN 2 ELSE 1

(* The run is over; a failure goes to the caller, a cancelled run returns. *)
Answer(m) ==
  /\ calls[m].at = "waiting" /\ stage[calls[m].run] = "over"
  /\ LET done == exit[calls[m].run] = "failed" \/ calls[m].turns >= Turns(m)
     IN  calls' = [calls EXCEPT ![m].at = IF done THEN "over" ELSE "again"]
  /\ UNCHANGED <<registered, ref, home, stage, exit, cancels, status, read, orphaned>>

(* One turn of the loop: it reads the messages; it stays or has decided    *)
(* to leave, with or without a call of the model in between.               *)
LoopTurn(f) ==
  /\ stage[f] = "working"
  /\ status' = "busy"
  /\ read' = read \cup Stored
  /\ \E to \in {"working", "leaving"} : Goes(f, to)
  /\ UNCHANGED <<registered, ref, home, exit, calls, cancels, orphaned>>

Outcomes(f) ==
  IF stage[f] = "leaving" THEN {"ok"}
  ELSE IF stage[f] = "working" THEN {"failed"} ELSE {"failed", "cancelled"}

(* finishRun: only the run the runner holds makes it idle; the others are  *)
(* answered at once.                                                       *)
RunEnds(f) ==
  /\ stage[f] \in {"working", "leaving", "interrupted"} /\ ~Locked(home[f])
  /\ \E how \in Outcomes(f) : exit' = [exit EXCEPT ![f] = how]
  /\ IF HoldsRun(f)
     THEN /\ ref' = [ref EXCEPT ![home[f]] = Idle]
          /\ registered' = None
          /\ Goes(f, "idling")
     ELSE Goes(f, "over") /\ UNCHANGED <<ref, registered>>
  /\ UNCHANGED <<home, calls, cancels, status, read, orphaned>>

(* onIdle, after the computer session has been released.                   *)
Idled(f) ==
  /\ stage[f] = "idling"
  /\ status' = "idle"
  /\ Goes(f, "over")
  /\ UNCHANGED <<registered, ref, home, exit, calls, cancels, read, orphaned>>
-----------------------------------------------------------------------------
(* startShell on an idle runner: onBusy is called with the lock held ...   *)
StartShell(f) ==
  \E r \in Works :
    /\ BeginsAt(f, r, "marking")
    /\ ref[r] = Idle
    /\ UNCHANGED <<ref, exit, calls, cancels, status, read, orphaned>>

(* ... and then the shell's fiber is forked.                               *)
MarkBusy(f) ==
  /\ stage[f] = "marking"
  /\ status' = "busy"
  /\ ref' = [ref EXCEPT ![home[f]].shell = f]
  /\ Goes(f, "starting")
  /\ UNCHANGED <<registered, home, exit, calls, cancels, read, orphaned>>

(* The shell opens its latch.                                              *)
ShellReady(f) ==
  /\ stage[f] = "starting"
  /\ Goes(f, "executing")
  /\ UNCHANGED <<registered, ref, home, exit, calls, cancels, status, read, orphaned>>

(* Mutant: the run is started but not recorded.                            *)
AfterShellIdle(f) == Idle

AfterShell(f) == [ref[home[f]] EXCEPT !.shell = None]

(* finishShell: the run that waits behind the shell is started.            *)
ShellEnds(f) ==
  /\ stage[f] \in {"executing", "killed"} /\ ~Locked(home[f])
  /\ IF HoldsShell(f)
     THEN LET next == ref[home[f]].run IN
          /\ ref' = [ref EXCEPT ![home[f]] = AfterShell(f)]
          /\ IF next = None
             THEN Goes(f, "idling") /\ registered' = None
             ELSE /\ stage' = [stage EXCEPT ![f] = "over", ![next] = "working"]
                  /\ UNCHANGED registered
     ELSE Goes(f, "over") /\ UNCHANGED <<ref, registered>>
  /\ UNCHANGED <<home, exit, calls, cancels, status, read, orphaned>>
-----------------------------------------------------------------------------
(* cancel of a session without a busy runner.                              *)
CancelNothing(k) ==
  /\ Called(k)
  /\ ~Busy
  /\ cancels' = [cancels EXCEPT ![k].at = "releasing"]
  /\ UNCHANGED <<registered, ref, home, stage, exit, calls, status, read, orphaned>>

(* The runner is idle at once; a run is interrupted, unless it has just    *)
(* got its result ...                                                      *)
CancelRun(k) ==
  /\ Called(k)
  /\ Busy /\ ref[registered].shell = None
  /\ LET f == ref[registered].run IN
     /\ cancels' = [cancels EXCEPT ![k] =
          [at |-> "stopping", runner |-> registered, work |-> f, queued |-> None]]
     /\ \E to \in {"interrupted"} \cup ({stage[f]} \cap {"leaving"}) : Goes(f, to)
  /\ ref' = [ref EXCEPT ![registered] = Idle]
  /\ UNCHANGED <<registered, home, exit, calls, status, read, orphaned>>

(* ... a shell when it is ready.                                           *)
CancelShell(k) ==
  /\ Called(k)
  /\ Busy /\ ref[registered].shell # None
  /\ cancels' = [cancels EXCEPT ![k] =
       [at |-> "stopping", runner |-> registered,
        work |-> ref[registered].shell, queued |-> ref[registered].run]]
  /\ ref' = [ref EXCEPT ![registered] = Idle]
  /\ UNCHANGED <<registered, home, stage, exit, calls, status, read, orphaned>>

KillShell(k) ==
  /\ cancels[k].at = "stopping" /\ stage[cancels[k].work] = "executing"
  /\ Goes(cancels[k].work, "killed")
  /\ UNCHANGED <<registered, ref, home, exit, calls, cancels, status, read, orphaned>>

(* Mutant: the run behind the shell is forgotten.                          *)
DroppedNone(k) == {}

(* The run behind the shell, which will not be started.                    *)
Dropped(k) == {cancels[k].queued} \ {None}

(* Mutant: the stopped work is expected to have made the session idle.     *)
IdleIfCurrentNever(r) == FALSE

IdleIfCurrent(r) == ref[r] = Idle

(* The fiber has ended: who waits behind the shell is answered, and the    *)
(* session's runner taken off the map if nothing has begun on the stopped  *)
(* one meanwhile; it may be another runner by now.                         *)
CancelSettles(k) ==
  /\ cancels[k].at = "stopping" /\ stage[cancels[k].work] = "over"
  /\ ~Locked(cancels[k].runner)
  /\ stage' = [f \in Works |-> IF f \in Dropped(k) THEN "over" ELSE stage[f]]
  /\ exit' = [f \in Works |-> IF f \in Dropped(k) THEN "cancelled" ELSE exit[f]]
  /\ IF IdleIfCurrent(cancels[k].runner)
     THEN /\ registered' = None
          /\ orphaned' = (orphaned \/ registered \notin {None, cancels[k].runner})
          /\ cancels' = [cancels EXCEPT ![k] = [NoStop EXCEPT !.at = "releasing"]]
     ELSE /\ cancels' = [cancels EXCEPT ![k] = [NoStop EXCEPT !.at = "over"]]
          /\ UNCHANGED <<registered, orphaned>>
  /\ UNCHANGED <<ref, home, calls, status, read>>

Released(k) ==
  /\ cancels[k].at = "releasing"
  /\ cancels' = [cancels EXCEPT ![k].at = "over"]
  /\ status' = "idle"
  /\ UNCHANGED <<registered, ref, home, stage, exit, calls, read, orphaned>>
-----------------------------------------------------------------------------
CallStep(m) == Join(m) \/ (\E f \in Works : Begin(m, f)) \/ Answer(m)
WorkStep(f) == RunEnds(f) \/ Idled(f) \/ MarkBusy(f) \/ ShellReady(f) \/ ShellEnds(f)
StopStep(k) == KillShell(k) \/ CancelSettles(k) \/ Released(k)

Next ==
  \/ \E m \in Messages : Store(m) \/ CallStep(m)
  \/ \E f \in Works : LoopTurn(f) \/ StartShell(f) \/ WorkStep(f)
  \/ \E k \in Cancels : CancelNothing(k) \/ CancelRun(k) \/ CancelShell(k) \/ StopStep(k)

(* What has been called continues; a loop ends because the model and the   *)
(* tools return, a shell because it has a timeout.                         *)
Fairness ==
  /\ \A m \in Messages : WF_vars(Answer(m))
  /\ \A f \in Works : WF_vars(WorkStep(f))
  /\ \A k \in Cancels : WF_vars(StopStep(k))

Spec     == Init /\ [][Next]_vars
FairSpec == Spec /\ Fairness
-----------------------------------------------------------------------------
(* A work that nobody has stopped.                                         *)
Stopped(f) == \E k \in Cancels : cancels[k].at = "stopping" /\ cancels[k].work = f
Active(f)  == stage[f] \in {"working", "leaving", "starting", "executing"} /\ ~Stopped(f)

(* As long as no cancel has taken a later runner off the map, there is one *)
(* loop or shell in the session, whatever begins while a stopped one ends. *)
OneAtATime == orphaned \/ \A f, g \in Works : Active(f) /\ Active(g) => f = g

(* ... and whatever runs is what cancel, shell and assertNotBusy find.     *)
Found(f) == registered = home[f] /\ f \in {ref[registered].run, ref[registered].shell}
RunningIsFound == orphaned \/ \A f \in Works : Active(f) => Found(f)

(* Once everything has ended and every cancel has returned, the session is *)
(* shown as idle and has no runner, whatever overlapped.                   *)
QuietIsIdle ==
  /\ \A f \in Works : stage[f] \in {"none", "over"}
  /\ \A k \in Cancels : cancels[k].at \in {"none", "over"}
  => registered = None /\ status = "idle"

(* A call that returns a result has had its message read by a loop.        *)
HasRead(m) == calls[m].at = "over" /\ exit[calls[m].run] = "ok" => m \in read

(* wake calls loop twice so that a turn which had already looked at the    *)
(* messages is followed by one that has not.                               *)
WakeupsAreRead == \A m \in Wakes : HasRead(m)

(* "Stopping a session must never restart it via a completion wakeup"      *)
(* (tool/shell.ts): a wakeup whose turn was cancelled begins no other.     *)
StopSticks ==
  [][\A m \in Wakes, f \in Works :
       calls[m].at = "again" /\ exit[calls[m].run] = "cancelled" => ~Begin(m, f)]_vars

(* Who waits for a run is answered, also when it is cancelled, fails,      *)
(* waits behind a shell that is stopped, or its runner is lost.            *)
WaitersAnswered ==
  \A m \in Messages : calls[m].at = "waiting" ~> calls[m].at # "waiting"
=============================================================================
