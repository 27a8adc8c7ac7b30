---------------------------- MODULE ActivationRow ----------------------------
(***************************************************************************)
(* The pure part of PlanActivationStore (plan/activation.ts): one row of   *)
(* the plan_activation table and what each statement of a transaction      *)
(* computes from it.  A row fences one child session: owner_id plus        *)
(* generation is the token every later call must present.                  *)
(*                                                                         *)
(* Time is relative: "lease" is the number of ticks left before            *)
(* lease_expires_at, so 0 is the code's "lease_expires_at <= now".         *)
(***************************************************************************)
EXTENDS Naturals

CONSTANTS
  Owners,    \* process instances: "process:<pid>:<uuid>", never reused
  Runs,      \* dispatch attempts (run_id)
  NoOwner,   \* owner of the absent row
  NoRun,     \* run of the absent row
  LeaseTtl   \* leaseTtlMs, in ticks

ASSUME RowAssumption ==
  /\ NoOwner \notin Owners
  /\ NoRun \notin Runs
  /\ LeaseTtl \in Nat \ {0}

ActivationStates == {"starting", "running", "draining", "settled"}

(* One row, or NoRow when the table has none for the session.              *)
NoRow == [owner |-> NoOwner, generation |-> 0, run |-> NoRun,
          state |-> "absent", lease |-> 0]

Row == [owner : Owners, generation : Nat \ {0}, run : Runs,
        state : ActivationStates, lease : 0..LeaseTtl]

Exists(r)  == r.generation # 0
Settled(r) == r.state = "settled"
Expired(r) == r.lease = 0

(* A row whose token may be handed to somebody else.                       *)
Reclaimable(r) == Expired(r) \/ Settled(r)

(* Mutant: assertCas compares the owner only.                              *)
CasOkOwnerOnly(r, o, g) == Exists(r) /\ r.owner = o

(* assertCas: the token has to be the row's own owner and generation.      *)
CasOk(r, o, g) == Exists(r) /\ r.owner = o /\ r.generation = g

(* claim refuses only a row another process holds live.                    *)
CanClaim(r, o) == ~Exists(r) \/ r.owner = o \/ Reclaimable(r)

(* A re-claim by the owner of an unsettled row keeps the generation, even  *)
(* for a new run; every other claim of an existing row starts a new one.   *)
KeepsGeneration(r, o) == Exists(r) /\ r.owner = o /\ ~Settled(r)

(* Mutant: claiming a settled row starts counting again.                   *)
ClaimedFromOne(r, o, run, lease) ==
  [owner |-> o, run |-> run, state |-> "starting", lease |-> lease,
   generation |-> IF KeepsGeneration(r, o) THEN r.generation ELSE 1]

(* Mutant: only a settled row gets a new generation.                       *)
ClaimedWithoutBump(r, o, run, lease) ==
  [owner |-> o, run |-> run, state |-> "starting", lease |-> lease,
   generation |-> IF Settled(r) THEN r.generation + 1 ELSE r.generation]

Claimed(r, o, run, lease) ==
  [owner |-> o, run |-> run, state |-> "starting", lease |-> lease,
   generation |-> IF KeepsGeneration(r, o) THEN r.generation ELSE r.generation + 1]

(* Mutant: renew updates time_updated but not the lease.                   *)
RenewedNothing(r, lease) == r

Renewed(r, lease) == [r EXCEPT !.lease = lease]

(* A settled row accepts no other state; settling leaves the lease alone.  *)
CanTransition(r, to) == Settled(r) => to = "settled"

Transitioned(r, to, lease) ==
  [r EXCEPT !.state = to, !.lease = IF to = "settled" THEN r.lease ELSE lease]

(* Mutant: takeover does not look at the lease.                            *)
CanTakeOverAny(r) == Exists(r)

(* takeover keeps the run and moves owner and generation.                  *)
CanTakeOver(r) == Exists(r) /\ Reclaimable(r)

(* Mutant: takeover leaves the generation alone.                           *)
TakenOverSameGeneration(r, o, lease) ==
  [r EXCEPT !.owner = o, !.state = "starting", !.lease = lease]

TakenOver(r, o, lease) ==
  [r EXCEPT !.owner = o, !.generation = r.generation + 1,
            !.state = "starting", !.lease = lease]
=============================================================================
