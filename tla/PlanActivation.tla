--------------------------- MODULE PlanActivation ---------------------------
(***************************************************************************)
(* The durable activation of one child session (plan/activation.ts) shared *)
(* by several runtime processes, with the heartbeat that keeps its lease   *)
(* while a child loop runs (runChild in plan/tools.ts).                    *)
(*                                                                         *)
(* Every operation of the store is one immediate SQLite transaction, hence *)
(* one action; "now" is read before the transaction starts, so the lease   *)
(* it writes may already be up to MaxLag ticks old.                        *)
(***************************************************************************)
EXTENDS ActivationRow, FiniteSets

CONSTANTS
  HeartbeatEvery,  \* setInterval period of the activation heartbeat, in ticks
  MaxLate,         \* how late a due heartbeat may fire (blocked or suspended process)
  MaxLag,          \* ticks between reading "now" and committing
  MaxGeneration,   \* bound on the generations explored
  MaxRemovals      \* bound on remove(), which no product code calls

ASSUME ActivationAssumption ==
  /\ HeartbeatEvery \in Nat \ {0}
  /\ MaxLate \in Nat
  /\ MaxLag \in 0..(LeaseTtl - 1)
  /\ MaxGeneration \in Nat
  /\ MaxRemovals \in Nat

VARIABLES
  row,       \* the plan_activation row of the child session
  alive,     \* processes that have not crashed
  beat,      \* per process: the heartbeat of the child loop it runs
  grants,    \* history: every token ever handed out
  removals   \* history: how often the row was deleted

vars == <<row, alive, beat, grants, removals>>

(* A heartbeat carries the generation runChild captured; "due" counts the  *)
(* ticks until it has fired at the latest.  NoBeat: no loop in the process.*)
NoBeat    == [generation |-> 0, due |-> 0]
FreshBeat(g) == [generation |-> g, due |-> HeartbeatEvery + MaxLate]
Beats     == [generation : Nat, due : 0..(HeartbeatEvery + MaxLate)]

RunsLoop(o) == beat[o].generation # 0

Tokens == [generation : Nat \ {0}, owner : Owners, table : Nat]
Token  == [generation |-> row.generation, owner |-> row.owner, table |-> removals]

(* Types: the table holds at most one row for the session, an existing row *)
(* has a generation above 0 and never a lease longer than leaseTtlMs.      *)
TypeOK ==
  /\ row \in Row \cup {NoRow}
  /\ alive \subseteq Owners
  /\ beat \in [Owners -> Beats]
  /\ grants \subseteq Tokens
  /\ removals \in Nat

Init ==
  /\ row = NoRow
  /\ alive = Owners
  /\ beat = [o \in Owners |-> NoBeat]
  /\ grants = {}
  /\ removals = 0

-----------------------------------------------------------------------------
(* Leases a transaction may write, and generations a caller may present.   *)
NewLeases == (LeaseTtl - MaxLag)..LeaseTtl
KnownGenerations == {t.generation : t \in grants}

RecordGrant == grants' = grants \cup {Token'}

Claim(o, run) ==
  /\ o \in alive
  /\ CanClaim(row, o)
  /\ KeepsGeneration(row, o) \/ row.generation < MaxGeneration
  /\ \E lease \in NewLeases : row' = Claimed(row, o, run, lease)
  /\ UNCHANGED <<alive, beat, removals>>
  /\ RecordGrant

TakeOver(o) ==
  /\ o \in alive
  /\ CanTakeOver(row)
  /\ row.generation < MaxGeneration
  /\ \E lease \in NewLeases : row' = TakenOver(row, o, lease)
  /\ UNCHANGED <<alive, beat, removals>>
  /\ RecordGrant

(* renew as the fence of cancel and merge: note that an expired lease is   *)
(* no obstacle, only a changed token is.                                   *)
Renew(o, g) ==
  /\ o \in alive
  /\ CasOk(row, o, g)
  /\ ~Settled(row)
  /\ \E lease \in NewLeases : row' = Renewed(row, lease)
  /\ UNCHANGED <<alive, beat, grants, removals>>

Transition(o, g, to) ==
  /\ o \in alive
  /\ to # "settled"
  /\ CasOk(row, o, g)
  /\ CanTransition(row, to)
  /\ \E lease \in NewLeases : row' = Transitioned(row, to, lease)
  /\ UNCHANGED <<alive, beat, grants, removals>>

(* settle: every caller has stopped the loop first (stopHeartbeats in the  *)
(* exit watcher, cancel and idle in terminateChild).                       *)
Settle(o, g) ==
  /\ o \in alive
  /\ ~RunsLoop(o)
  /\ CasOk(row, o, g)
  /\ row' = Transitioned(row, "settled", row.lease)
  /\ UNCHANGED <<alive, beat, grants, removals>>

(* runChild starts the heartbeat and the loop; dispatch then transitions   *)
(* the activation to running without yielding to another task.             *)
StartLoop(o, g) ==
  /\ o \in alive
  /\ ~RunsLoop(o)
  /\ CasOk(row, o, g)
  /\ CanTransition(row, "running")
  /\ \E lease \in NewLeases : row' = Transitioned(row, "running", lease)
  /\ beat' = [beat EXCEPT ![o] = FreshBeat(g)]
  /\ UNCHANGED <<alive, grants, removals>>

(* The interval callback: renew, and swallow every error.                  *)
Beat(o) ==
  /\ o \in alive
  /\ RunsLoop(o)
  /\ beat[o].due <= MaxLate
  /\ IF CasOk(row, o, beat[o].generation) /\ ~Settled(row)
     THEN \E lease \in NewLeases : row' = Renewed(row, lease)
     ELSE UNCHANGED row
  /\ beat' = [beat EXCEPT ![o] = FreshBeat(beat[o].generation)]
  /\ UNCHANGED <<alive, grants, removals>>

(* The child loop ends; the watcher clears the interval.                   *)
StopLoop(o) ==
  /\ o \in alive
  /\ RunsLoop(o)
  /\ beat' = [beat EXCEPT ![o] = NoBeat]
  /\ UNCHANGED <<row, alive, grants, removals>>

Crash(o) ==
  /\ o \in alive
  /\ alive' = alive \ {o}
  /\ beat' = [beat EXCEPT ![o] = NoBeat]
  /\ UNCHANGED <<row, grants, removals>>

Remove(o) ==
  /\ o \in alive
  /\ Exists(row)
  /\ removals < MaxRemovals
  /\ row' = NoRow
  /\ removals' = removals + 1
  /\ UNCHANGED <<alive, beat, grants>>

(* Time passes unless a heartbeat has reached its latest moment.           *)
Tick ==
  /\ \A o \in Owners : RunsLoop(o) => beat[o].due > 0
  /\ row' = [row EXCEPT !.lease = IF @ = 0 THEN 0 ELSE @ - 1]
  /\ beat' = [o \in Owners |->
               IF RunsLoop(o) THEN [beat[o] EXCEPT !.due = @ - 1] ELSE beat[o]]
  /\ UNCHANGED <<alive, grants, removals>>

Next ==
  \/ \E o \in Owners, run \in Runs : Claim(o, run)
  \/ \E o \in Owners : TakeOver(o)
  \/ \E o \in Owners, g \in KnownGenerations : Renew(o, g)
  \/ \E o \in Owners, g \in KnownGenerations, to \in ActivationStates : Transition(o, g, to)
  \/ \E o \in Owners, g \in KnownGenerations : Settle(o, g)
  \/ \E o \in Owners, g \in KnownGenerations : StartLoop(o, g)
  \/ \E o \in Owners : Beat(o)
  \/ \E o \in Owners : StopLoop(o)
  \/ \E o \in Owners : Crash(o)
  \/ \E o \in Owners : Remove(o)
  \/ Tick

Spec == Init /\ [][Next]_vars
-----------------------------------------------------------------------------
(* A generation names one owner: two processes never hold the same number, *)
(* so a plan that stores only activation_generation cannot be confused     *)
(* about whose it is (as long as the table is not emptied in between).     *)
OneOwnerPerGeneration ==
  \A s, t \in grants :
    s.table = t.table /\ s.generation = t.generation => s.owner = t.owner

(* The fence: a call that is accepted presents the newest token.  Once a   *)
(* process was replaced, no renew, transition or settle of its old token   *)
(* changes the row again, also after the row came back to it under a newer *)
(* generation (the A-B-A sequence of docs/architecture/agent-isolation.md).*)
Newest(o, g) ==
  \A t \in grants :
    t.table = removals => t.generation < g \/ (t.generation = g /\ t.owner = o)

AcceptsOnlyNewest ==
  \A o \in Owners, g \in KnownGenerations :
    \/ Renew(o, g) \/ Settle(o, g) \/ StartLoop(o, g)
    \/ \E to \in ActivationStates : Transition(o, g, to)
    => Newest(o, g)

StaleTokenFenced == [][AcceptsOnlyNewest]_vars

(* A child loop that heartbeats runs under the row's own token: the lease  *)
(* outlives the next heartbeat, so nobody can take the child over under a  *)
(* running loop, and no two processes run loops of one child session.      *)
LoopOwnsRow ==
  removals = 0 =>
    \A o \in Owners : RunsLoop(o) =>
      /\ CasOk(row, o, beat[o].generation)
      /\ ~Settled(row)
      /\ row.lease > beat[o].due

OneLoopPerChild ==
  removals = 0 => \A o, p \in Owners : RunsLoop(o) /\ RunsLoop(p) => o = p
-----------------------------------------------------------------------------
(* The abstract contract, with the table row as its witness.               *)
Phase ==
  IF ~Exists(row) \/ Settled(row) THEN "free"
  ELSE IF Expired(row) THEN "lapsed" ELSE "held"

Ownership == INSTANCE FencedOwnership WITH
  Holders <- Owners, Nobody <- NoOwner,
  epoch <- row.generation, holder <- row.owner, phase <- Phase

ImplementsOwnership == Ownership!OwnershipSpec

=============================================================================
