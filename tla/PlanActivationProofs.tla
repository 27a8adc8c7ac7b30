------------------------ MODULE PlanActivationProofs ------------------------
(***************************************************************************)
(* What PlanActivation guarantees for any number of processes, runs and    *)
(* generations and for any lease length.                                   *)
(***************************************************************************)
EXTENDS PlanActivation, TLAPS

-----------------------------------------------------------------------------
(* Type correctness.                                                       *)

(* Every lease a transaction writes is one the row may hold.               *)
LEMMA NewLeaseTyped == NewLeases \subseteq 0..LeaseTtl
BY RowAssumption, ActivationAssumption DEF NewLeases

(* A row of the table is there exactly when its generation is not 0.       *)
LEMMA ExistsTyped ==
  ASSUME NEW r \in Row \cup {NoRow}
  PROVE  r.generation \in Nat /\ (Exists(r) <=> r \in Row)
BY DEF Row, NoRow, Exists

(* The statements of the store produce rows: claim, whatever was there ... *)
LEMMA ClaimedTyped ==
  ASSUME NEW r \in Row \cup {NoRow}, NEW o \in Owners, NEW run \in Runs,
         NEW lease \in 0..LeaseTtl
  PROVE  Claimed(r, o, run, lease) \in Row
BY ExistsTyped DEF Claimed, KeepsGeneration, Row, ActivationStates

(* ... renew and transition, which keep the generation ...                 *)
LEMMA UpdatedTyped ==
  ASSUME NEW r \in Row, NEW lease \in 0..LeaseTtl, NEW to \in ActivationStates
  PROVE  Renewed(r, lease) \in Row /\ Transitioned(r, to, lease) \in Row
<1>1. Renewed(r, lease) \in Row
  BY DEF Renewed, Row
<1>2. Transitioned(r, to, lease) \in Row
  BY DEF Transitioned, Row
<1>. QED BY <1>1, <1>2

(* ... and takeover, which advances it.                                    *)
LEMMA TakenOverTyped ==
  ASSUME NEW r \in Row, NEW o \in Owners, NEW lease \in 0..LeaseTtl
  PROVE  TakenOver(r, o, lease) \in Row
<1>1. r.generation + 1 \in Nat \ {0} /\ "starting" \in ActivationStates
  BY DEF Row, ActivationStates
<1>. QED BY <1>1 DEF TakenOver, Row

(* The token the current row stands for, once the row exists.              *)
LEMMA TokenTyped ==
  ASSUME row \in Row, removals \in Nat PROVE Token \in Tokens
BY DEF Row, Token, Tokens

(* Every variable keeps its type: in particular no transaction leaves a    *)
(* row with generation 0 or a lease beyond leaseTtlMs.                     *)
THEOREM TypeCorrect == Spec => []TypeOK
<1>1. Init => TypeOK
  BY ActivationAssumption DEF Init, TypeOK, NoBeat, Beats
<1>2. TypeOK /\ [Next]_vars => TypeOK'
  <2> SUFFICES ASSUME TypeOK, [Next]_vars PROVE TypeOK'
    OBVIOUS
  <2> USE NewLeaseTyped DEF TypeOK
  <2>1. ASSUME NEW o \in Owners, NEW run \in Runs, Claim(o, run) PROVE TypeOK'
    <3>1. row' \in Row
      BY <2>1, ClaimedTyped DEF Claim
    <3>2. Token' \in Tokens
      BY <3>1, <2>1 DEF Claim, Token, Tokens, Row
    <3>. QED BY <3>1, <3>2, <2>1 DEF Claim, RecordGrant
  <2>2. ASSUME NEW o \in Owners, TakeOver(o) PROVE TypeOK'
    <3>1. row \in Row
      BY <2>2 DEF TakeOver, CanTakeOver, NoRow, Exists
    <3>2. row' \in Row
      <4>1. PICK lease \in NewLeases : row' = TakenOver(row, o, lease)
        BY <2>2 DEF TakeOver
      <4>. QED BY <4>1, <3>1, TakenOverTyped
    <3>3. Token' \in Tokens
      BY <3>2, <2>2 DEF TakeOver, Token, Tokens, Row
    <3>. QED BY <3>2, <3>3, <2>2 DEF TakeOver, RecordGrant
  <2>3. ASSUME NEW o \in Owners, NEW g \in KnownGenerations, Renew(o, g) PROVE TypeOK'
    <3>1. row \in Row
      BY <2>3 DEF Renew, CasOk, NoRow, Exists
    <3>2. row' \in Row
      BY <3>1, <2>3 DEF Renew, Renewed, Row
    <3>. QED BY <3>2, <2>3 DEF Renew
  <2>4. ASSUME NEW o \in Owners, NEW g \in KnownGenerations, NEW to \in ActivationStates,
               Transition(o, g, to)
        PROVE TypeOK'
    <3>1. row \in Row
      BY <2>4 DEF Transition, CasOk, NoRow, Exists
    <3>2. row' \in Row
      <4>1. PICK lease \in NewLeases : row' = Transitioned(row, to, lease)
        BY <2>4 DEF Transition
      <4>. QED BY <4>1, <3>1, UpdatedTyped
    <3>. QED BY <3>2, <2>4 DEF Transition
  <2>5. ASSUME NEW o \in Owners, NEW g \in KnownGenerations, Settle(o, g) PROVE TypeOK'
    <3>1. row \in Row
      BY <2>5 DEF Settle, CasOk, NoRow, Exists
    <3>2. row' \in Row
      BY <3>1, <2>5 DEF Settle, Transitioned, Row, ActivationStates
    <3>. QED BY <3>2, <2>5 DEF Settle
  <2>6. ASSUME NEW o \in Owners, NEW g \in KnownGenerations, StartLoop(o, g) PROVE TypeOK'
    <3>1. row \in Row /\ g \in Nat
      BY <2>6 DEF StartLoop, CasOk, NoRow, Exists, Row
    <3>2. row' \in Row
      <4>1. PICK lease \in NewLeases : row' = Transitioned(row, "running", lease)
        BY <2>6 DEF StartLoop
      <4>. QED BY <4>1, <3>1, UpdatedTyped DEF ActivationStates
    <3>3. FreshBeat(g) \in Beats
      BY <3>1, ActivationAssumption DEF FreshBeat, Beats
    <3>. QED BY <3>2, <3>3, <2>6 DEF StartLoop
  <2>7. ASSUME NEW o \in Owners, Beat(o) PROVE TypeOK'
    <3>1. row' \in Row \cup {NoRow}
      <4>1. CASE CasOk(row, o, beat[o].generation) /\ ~Settled(row)
        <5>1. row \in Row
          BY <4>1 DEF CasOk, NoRow, Exists
        <5>. QED BY <5>1, <4>1, <2>7 DEF Beat, Renewed, Row
      <4>2. CASE ~(CasOk(row, o, beat[o].generation) /\ ~Settled(row))
        BY <4>2, <2>7 DEF Beat
      <4>. QED BY <4>1, <4>2
    <3>2. FreshBeat(beat[o].generation) \in Beats
      BY ActivationAssumption DEF FreshBeat, Beats
    <3>. QED BY <3>1, <3>2, <2>7 DEF Beat
  <2>8. ASSUME NEW o \in Owners, StopLoop(o) \/ Crash(o) PROVE TypeOK'
    <3>1. NoBeat \in Beats
      BY ActivationAssumption DEF NoBeat, Beats
    <3>. QED BY <3>1, <2>8 DEF StopLoop, Crash
  <2>9. ASSUME NEW o \in Owners, Remove(o) PROVE TypeOK'
    BY <2>9 DEF Remove
  <2>10. CASE Tick
    <3>1. row' \in Row \cup {NoRow}
      BY <2>10, RowAssumption DEF Tick, Row, NoRow
    <3>2. beat' \in [Owners -> Beats]
      <4> SUFFICES ASSUME NEW o \in Owners
                   PROVE (IF RunsLoop(o) THEN [beat[o] EXCEPT !.due = @ - 1] ELSE beat[o]) \in Beats
        BY <2>10 DEF Tick
      <4>. QED BY <2>10, ActivationAssumption DEF Tick, Beats
    <3>. QED BY <3>1, <3>2, <2>10 DEF Tick
  <2>11. CASE UNCHANGED vars
    BY <2>11 DEF vars
  <2>. QED
    BY <2>1, <2>2, <2>3, <2>4, <2>5, <2>6, <2>7, <2>8, <2>9, <2>10, <2>11 DEF Next
<1>. QED BY <1>1, <1>2, PTL DEF Spec

-----------------------------------------------------------------------------
(* The fence.  A token is behind the row, or it is the row's own token;    *)
(* a token of an earlier table is out of the picture.                      *)
GrantsFenced ==
  \A t \in grants :
    /\ t.table <= removals
    /\ t.table = removals =>
         t.generation < row.generation \/ (t.generation = row.generation /\ t.owner = row.owner)

(* The row never goes back to an older token: between two deletions the    *)
(* generation grows, and only together with it does the owner change.      *)
RowMovesForward ==
  \/ /\ removals' = removals
     /\ \/ row'.generation > row.generation
        \/ row'.generation = row.generation /\ row'.owner = row.owner
  \/ removals' = removals + 1

LEMMA StepsMoveForward ==
  ASSUME TypeOK, [Next]_vars
  PROVE  /\ RowMovesForward
         /\ grants' = grants \/ (grants' = grants \cup {Token'} /\ removals' = removals)
<1> USE NewLeaseTyped, ExistsTyped DEF TypeOK, RowMovesForward
<1>1. ASSUME NEW o \in Owners, NEW run \in Runs, Claim(o, run)
      PROVE  /\ RowMovesForward
             /\ grants' = grants \cup {Token'} /\ removals' = removals
  BY <1>1 DEF Claim, Claimed, KeepsGeneration, RecordGrant
<1>2. ASSUME NEW o \in Owners, TakeOver(o)
      PROVE  /\ RowMovesForward
             /\ grants' = grants \cup {Token'} /\ removals' = removals
  <2>1. row \in Row
    BY <1>2 DEF TakeOver, CanTakeOver, NoRow, Exists
  <2>2. row'.generation = row.generation + 1
    BY <2>1, <1>2 DEF TakeOver, TakenOver, Row
  <2>. QED BY <2>2, <1>2 DEF TakeOver, RecordGrant
<1>3. ASSUME row'.generation = row.generation, row'.owner = row.owner,
             UNCHANGED <<grants, removals>>
      PROVE  /\ RowMovesForward
             /\ grants' = grants
  BY <1>3
<1>4. ASSUME NEW o \in Owners, NEW g \in KnownGenerations,
             \/ Renew(o, g) \/ Settle(o, g) \/ StartLoop(o, g)
             \/ \E to \in ActivationStates : Transition(o, g, to)
      PROVE  /\ row'.generation = row.generation /\ row'.owner = row.owner
             /\ UNCHANGED <<grants, removals>>
  <2>1. row \in Row
    BY <1>4 DEF Renew, Settle, StartLoop, Transition, CasOk, NoRow, Exists
  <2>. QED BY <2>1, <1>4 DEF Renew, Settle, StartLoop, Transition, Renewed, Transitioned, Row
<1>5. ASSUME NEW o \in Owners, Beat(o)
      PROVE  /\ row'.generation = row.generation /\ row'.owner = row.owner
             /\ UNCHANGED <<grants, removals>>
  <2>1. CASE CasOk(row, o, beat[o].generation) /\ ~Settled(row)
    <3>1. row \in Row
      BY <2>1 DEF CasOk, NoRow, Exists
    <3>. QED BY <3>1, <2>1, <1>5 DEF Beat, Renewed, Row
  <2>2. CASE ~(CasOk(row, o, beat[o].generation) /\ ~Settled(row))
    BY <2>2, <1>5 DEF Beat
  <2>. QED BY <2>1, <2>2
<1>6. ASSUME \/ \E o \in Owners : StopLoop(o) \/ Crash(o)
             \/ UNCHANGED vars
      PROVE  /\ row'.generation = row.generation /\ row'.owner = row.owner
             /\ UNCHANGED <<grants, removals>>
  BY <1>6 DEF StopLoop, Crash, vars
<1>7. CASE Tick
  BY <1>7, <1>3 DEF Tick, Row, NoRow
<1>8. ASSUME NEW o \in Owners, Remove(o)
      PROVE  RowMovesForward /\ grants' = grants
  BY <1>8 DEF Remove
<1>. QED BY <1>1, <1>2, <1>3, <1>4, <1>5, <1>6, <1>7, <1>8 DEF Next

(* Every token handed out stays at or behind the row.                      *)
LEMMA GrantsStayFenced == Spec => []GrantsFenced
<1>1. Init => GrantsFenced
  BY DEF Init, GrantsFenced
<1>2. TypeOK /\ GrantsFenced /\ [Next]_vars /\ TypeOK' => GrantsFenced'
  <2> SUFFICES ASSUME TypeOK, GrantsFenced, [Next]_vars, TypeOK' PROVE GrantsFenced'
    OBVIOUS
  <2>1. /\ RowMovesForward
        /\ grants' = grants \/ (grants' = grants \cup {Token'} /\ removals' = removals)
    BY StepsMoveForward
  <2>2. /\ row.generation \in Nat /\ row'.generation \in Nat
        /\ removals \in Nat /\ removals' \in Nat
        /\ \A t \in grants : t.generation \in Nat /\ t.table \in Nat
    BY ExistsTyped DEF TypeOK, Tokens
  <2>. QED BY <2>1, <2>2 DEF RowMovesForward, GrantsFenced, Token
<1>. QED BY <1>1, <1>2, TypeCorrect, PTL DEF Spec

(* The generation column names one owner, however often the child changed  *)
(* hands, expired, was settled and claimed again.                          *)
THEOREM GenerationNamesOwner == Spec => []OneOwnerPerGeneration
<1>1. Init => OneOwnerPerGeneration
  BY DEF Init, OneOwnerPerGeneration
<1>2. TypeOK /\ OneOwnerPerGeneration /\ GrantsFenced' /\ [Next]_vars
      => OneOwnerPerGeneration'
  <2> SUFFICES ASSUME TypeOK, OneOwnerPerGeneration, GrantsFenced', [Next]_vars,
                      NEW s \in grants', NEW t \in grants',
                      s.table = t.table, s.generation = t.generation
               PROVE  s.owner = t.owner
    BY DEF OneOwnerPerGeneration
  <2>1. /\ RowMovesForward
        /\ grants' = grants \/ (grants' = grants \cup {Token'} /\ removals' = removals)
    BY StepsMoveForward
  <2>2. CASE s \in grants /\ t \in grants
    BY <2>2 DEF OneOwnerPerGeneration
  <2>3. CASE s = Token' \/ t = Token'
    <3>1. row.generation \in Nat /\ \A u \in grants : u.generation \in Nat
      BY ExistsTyped DEF TypeOK, Tokens
    <3>. QED BY <2>1, <2>3, <3>1, ExistsTyped DEF GrantsFenced, RowMovesForward, TypeOK, Token
  <2>. QED BY <2>1, <2>2, <2>3
<1>. QED BY <1>1, <1>2, TypeCorrect, GrantsStayFenced, PTL DEF Spec

(* No renew, transition, settle or start of a replaced owner is accepted.  *)
THEOREM FenceHolds == Spec => StaleTokenFenced
<1>1. GrantsFenced => [AcceptsOnlyNewest]_vars
  <2> SUFFICES ASSUME GrantsFenced, NEW o \in Owners, NEW g \in KnownGenerations,
                      \/ Renew(o, g) \/ Settle(o, g) \/ StartLoop(o, g)
                      \/ \E to \in ActivationStates : Transition(o, g, to)
               PROVE  Newest(o, g)
    BY DEF AcceptsOnlyNewest
  <2>1. row.owner = o /\ row.generation = g
    BY DEF Renew, Settle, StartLoop, Transition, CasOk
  <2>. QED BY <2>1 DEF GrantsFenced, Newest
<1>. QED BY <1>1, GrantsStayFenced, PTL DEF StaleTokenFenced

-----------------------------------------------------------------------------
(* The lease.  It has to outlive the latest moment of the next heartbeat,  *)
(* also when that heartbeat writes the oldest admissible "now".            *)
HeartbeatFits == HeartbeatEvery + MaxLate + MaxLag < LeaseTtl

(* What a running loop relies on: its heartbeat carries the row's token    *)
(* and fires before the lease ends.  Taking over needs a lease of 0 or a   *)
(* settled row, which is why the conjuncts about them are in.              *)
THEOREM LoopKeepsRow ==
  ASSUME HeartbeatFits PROVE Spec => []LoopOwnsRow
<1>1. Init => LoopOwnsRow
  BY DEF Init, LoopOwnsRow, RunsLoop, NoBeat
<1>2. TypeOK /\ LoopOwnsRow /\ [Next]_vars => LoopOwnsRow'
  <2> SUFFICES ASSUME TypeOK, LoopOwnsRow, [Next]_vars, removals' = 0,
                      NEW p \in Owners, RunsLoop(p)'
               PROVE  /\ CasOk(row', p, beat'[p].generation)
                      /\ ~Settled(row')
                      /\ row'.lease > beat'[p].due
    BY DEF LoopOwnsRow, CasOk, Settled, Exists, RunsLoop
  <2> USE DEF TypeOK, RunsLoop
  <2>0. /\ LeaseTtl \in Nat /\ HeartbeatEvery \in Nat /\ MaxLate \in Nat /\ MaxLag \in Nat
        /\ \A lease \in NewLeases : lease \in 0..LeaseTtl /\ lease > HeartbeatEvery + MaxLate
        /\ beat[p].due \in 0..(HeartbeatEvery + MaxLate) /\ beat[p].generation \in Nat
    BY RowAssumption, ActivationAssumption, HeartbeatFits DEF NewLeases, Beats, HeartbeatFits
  <2>1. ASSUME removals = 0, beat[p].generation # 0
        PROVE  /\ CasOk(row, p, beat[p].generation) /\ ~Settled(row)
               /\ row.lease > beat[p].due /\ row \in Row /\ ~Reclaimable(row)
    BY <2>1, <2>0, ExistsTyped DEF LoopOwnsRow, CasOk, Reclaimable, Expired, Row
  <2>2. ASSUME NEW o \in Owners, NEW run \in Runs, Claim(o, run)
        PROVE  /\ CasOk(row', p, beat'[p].generation)
               /\ ~Settled(row') /\ row'.lease > beat'[p].due
    <3>1. beat' = beat /\ removals = 0
      BY <2>2 DEF Claim
    <3>2. o = p
      BY <2>1, <2>2, <3>1 DEF Claim, CanClaim, CasOk
    <3>3. /\ CasOk(row, p, beat[p].generation) /\ ~Settled(row)
          /\ KeepsGeneration(row, p)
      BY <2>1, <3>1 DEF KeepsGeneration, CasOk
    <3>4. PICK lease \in NewLeases : row' = Claimed(row, p, run, lease)
      BY <2>2, <3>2 DEF Claim
    <3>5. /\ row'.owner = p /\ row'.generation = row.generation
          /\ row'.state = "starting" /\ row'.lease = lease
      BY <3>3, <3>4 DEF Claimed
    <3>. QED
      BY <2>0, <3>1, <3>3, <3>5 DEF CasOk, Settled, Exists
  <2>3. ASSUME NEW o \in Owners, TakeOver(o) PROVE FALSE
    BY <2>1, <2>3 DEF TakeOver, CanTakeOver
  <2>4. ASSUME NEW o \in Owners, NEW g \in KnownGenerations,
               Renew(o, g) \/ \E to \in ActivationStates : Transition(o, g, to)
        PROVE  /\ CasOk(row', p, beat'[p].generation)
               /\ ~Settled(row') /\ row'.lease > beat'[p].due
    <3>1. beat' = beat /\ removals = 0
      BY <2>4 DEF Renew, Transition
    <3>2. PICK lease \in NewLeases, to \in ActivationStates \ {"settled"} :
            row' = Renewed(row, lease) \/ row' = Transitioned(row, to, lease)
      BY <2>4 DEF Renew, Transition, ActivationStates
    <3>3. CasOk(row, p, beat[p].generation) /\ ~Settled(row) /\ row \in Row
      BY <2>1, <3>1
    <3>4. /\ row'.owner = row.owner /\ row'.generation = row.generation
          /\ row'.state # "settled" /\ row'.lease = lease
      BY <3>2, <3>3 DEF Renewed, Transitioned, Settled, Row
    <3>. QED
      BY <2>0, <3>1, <3>3, <3>4 DEF CasOk, Settled, Exists
  <2>5. ASSUME NEW o \in Owners, NEW g \in KnownGenerations, Settle(o, g) PROVE FALSE
    BY <2>1, <2>5 DEF Settle, CasOk
  <2>6. ASSUME NEW o \in Owners, NEW g \in KnownGenerations, StartLoop(o, g)
        PROVE  /\ CasOk(row', p, beat'[p].generation)
               /\ ~Settled(row') /\ row'.lease > beat'[p].due
    <3>1. o = p
      BY <2>1, <2>6 DEF StartLoop, CasOk
    <3>2. row \in Row /\ g \in Nat
      BY <2>6, ExistsTyped DEF StartLoop, CasOk, Row
    <3>3. PICK lease \in NewLeases : row' = Transitioned(row, "running", lease)
      BY <2>6 DEF StartLoop
    <3>4. beat'[p] = FreshBeat(g)
      BY <3>1, <2>6 DEF StartLoop
    <3>. QED
      BY <2>0, <2>6, <3>1, <3>2, <3>3, <3>4
      DEF StartLoop, Transitioned, CasOk, Settled, Exists, FreshBeat, Row
  <2>7. ASSUME NEW o \in Owners, Beat(o)
        PROVE  /\ CasOk(row', p, beat'[p].generation)
               /\ ~Settled(row') /\ row'.lease > beat'[p].due
    <3>1. beat[p].generation # 0 /\ removals = 0
      BY <2>7 DEF Beat, FreshBeat
    <3>2. CasOk(row, o, beat[o].generation) /\ ~Settled(row)
      BY <2>7, <3>1 DEF Beat, LoopOwnsRow
    <3>3. PICK lease \in NewLeases : row' = Renewed(row, lease)
      BY <3>2, <2>7 DEF Beat
    <3>4. beat'[p].generation = beat[p].generation /\ beat'[p].due <= HeartbeatEvery + MaxLate
      BY <2>0, <2>7 DEF Beat, FreshBeat
    <3>5. beat'[p].due \in Nat
      BY <2>0, <2>7 DEF Beat, FreshBeat
    <3>. QED
      BY <2>0, <2>1, <3>1, <3>3, <3>4, <3>5 DEF Renewed, CasOk, Settled, Exists, Row
  <2>8. ASSUME NEW o \in Owners, StopLoop(o) \/ Crash(o)
        PROVE  /\ CasOk(row', p, beat'[p].generation)
               /\ ~Settled(row') /\ row'.lease > beat'[p].due
    <3>1. beat'[p] = beat[p] /\ row' = row /\ removals = 0
      BY <2>8 DEF StopLoop, Crash, NoBeat
    <3>. QED BY <2>1, <3>1
  <2>9. ASSUME NEW o \in Owners, Remove(o) PROVE FALSE
    BY <2>9 DEF Remove
  <2>10. CASE Tick
    <3>1. removals = 0 /\ beat[p].generation # 0
      BY <2>10 DEF Tick
    <3>2. beat[p].due > 0 /\ beat'[p] = [beat[p] EXCEPT !.due = @ - 1]
      BY <3>1, <2>10 DEF Tick
    <3>3. row' = [row EXCEPT !.lease = @ - 1]
      BY <2>0, <2>1, <3>1, <2>10 DEF Tick, Row
    <3>. QED
      BY <2>0, <2>1, <3>1, <3>2, <3>3 DEF CasOk, Settled, Exists, Row, Beats
  <2>11. CASE UNCHANGED vars
    BY <2>1, <2>11 DEF vars
  <2>. QED
    BY <2>2, <2>3, <2>4, <2>5, <2>6, <2>7, <2>8, <2>9, <2>10, <2>11 DEF Next
<1>. QED BY <1>1, <1>2, TypeCorrect, PTL DEF Spec

(* Two processes never run loops of one child session at the same time, as *)
(* long as heartbeats are not starved for a whole lease.                   *)
THEOREM SingleLoop ==
  ASSUME HeartbeatFits PROVE Spec => []OneLoopPerChild
<1>1. LoopOwnsRow => OneLoopPerChild
  BY DEF LoopOwnsRow, OneLoopPerChild, CasOk
<1>. QED BY <1>1, LoopKeepsRow, PTL

-----------------------------------------------------------------------------
(* Refinement.  Each way a row can change maps to a step of the abstract   *)
(* ownership: a fresh token is a Grant, a written lease an Extend.         *)
LEMMA FreshTokenGrants ==
  ASSUME TypeOK, NEW o \in Owners, NEW lease \in NewLeases, row' \in Row,
         ~Exists(row) \/ Reclaimable(row),
         row'.generation = row.generation + 1, row'.owner = o,
         row'.state = "starting", row'.lease = lease
  PROVE  Ownership!OwnershipNext
<1>1. Phase \in {"free", "lapsed"}
  BY DEF Phase, Reclaimable
<1>2. Phase' = "held"
  BY RowAssumption, ActivationAssumption
  DEF Phase, Exists, Settled, Expired, NewLeases, Row
<1>. QED
  BY <1>1, <1>2 DEF Ownership!OwnershipNext, Ownership!Grant

LEMMA WrittenLeaseExtends ==
  ASSUME TypeOK, NEW lease \in NewLeases, row' \in Row, Exists(row), ~Settled(row),
         row'.generation = row.generation, row'.owner = row.owner,
         row'.state # "settled", row'.lease = lease
  PROVE  Ownership!OwnershipNext
<1>1. Phase \in {"held", "lapsed"}
  BY DEF Phase
<1>2. Phase' = "held"
  BY RowAssumption, ActivationAssumption
  DEF Phase, Exists, Settled, Expired, NewLeases, Row
<1>. QED
  BY <1>1, <1>2 DEF Ownership!OwnershipNext, Ownership!Extend

(* Every step of the activation table is one of these, or settles a row,   *)
(* or lets time pass, or leaves the row alone.                             *)
LEMMA StepsRefine ==
  ASSUME TypeOK, TypeOK', [Next]_vars
  PROVE  [Ownership!OwnershipNext]_(Ownership!ownershipVars)
<1>. USE DEF Ownership!ownershipVars
<1>0. row \in Row \cup {NoRow} /\ row' \in Row \cup {NoRow} /\ removals \in Nat
  BY DEF TypeOK
<1>1. ASSUME NEW o \in Owners, NEW run \in Runs, Claim(o, run)
      PROVE  Ownership!OwnershipNext
  <2>1. PICK lease \in NewLeases : row' = Claimed(row, o, run, lease)
    BY <1>1 DEF Claim
  <2>2. row' \in Row
    BY <2>1, <1>0, ClaimedTyped, NewLeaseTyped
  <2>3. row'.owner = o /\ row'.state = "starting" /\ row'.lease = lease
    BY <2>1 DEF Claimed
  <2>4. CASE KeepsGeneration(row, o)
    <3>1. row'.generation = row.generation /\ Exists(row) /\ ~Settled(row) /\ row.owner = o
      BY <2>1, <2>4 DEF Claimed, KeepsGeneration
    <3>. QED BY <2>2, <2>3, <3>1, WrittenLeaseExtends
  <2>5. CASE ~KeepsGeneration(row, o)
    <3>1. row'.generation = row.generation + 1
      BY <2>1, <2>5 DEF Claimed
    <3>2. ~Exists(row) \/ Reclaimable(row)
      BY <1>1, <2>5 DEF Claim, CanClaim, KeepsGeneration, Reclaimable
    <3>. QED BY <2>2, <2>3, <3>1, <3>2, FreshTokenGrants
  <2>. QED BY <2>4, <2>5
<1>2. ASSUME NEW o \in Owners, TakeOver(o)
      PROVE  Ownership!OwnershipNext
  <2>1. PICK lease \in NewLeases : row' = TakenOver(row, o, lease)
    BY <1>2 DEF TakeOver
  <2>2. row \in Row /\ Reclaimable(row)
    BY <1>0, <1>2, ExistsTyped DEF TakeOver, CanTakeOver
  <2>3. /\ row'.generation = row.generation + 1 /\ row'.owner = o
        /\ row'.state = "starting" /\ row'.lease = lease
    BY <2>1, <2>2 DEF TakenOver, Row
  <2>4. row' \in Row
    BY <1>0, <2>3, ExistsTyped DEF Exists, Row
  <2>. QED BY <2>2, <2>3, <2>4, FreshTokenGrants
<1>3. ASSUME NEW lease \in NewLeases, NEW to \in ActivationStates \ {"settled"},
             Exists(row), ~Settled(row),
             row' = Renewed(row, lease) \/ row' = Transitioned(row, to, lease)
      PROVE  Ownership!OwnershipNext
  <2>1. row \in Row
    BY <1>0, <1>3, ExistsTyped
  <2>2. /\ row'.generation = row.generation /\ row'.owner = row.owner
        /\ row'.state # "settled" /\ row'.lease = lease
    BY <1>3, <2>1 DEF Renewed, Transitioned, Settled, Row
  <2>3. row' \in Row
    BY <1>0, <2>1, <2>2, ExistsTyped DEF Exists, Row
  <2>. QED BY <1>3, <2>2, <2>3, WrittenLeaseExtends
<1>4. ASSUME NEW o \in Owners, NEW g \in KnownGenerations, Renew(o, g)
      PROVE  Ownership!OwnershipNext
  BY <1>3, <1>4 DEF Renew, CasOk, ActivationStates
<1>5. ASSUME NEW o \in Owners, NEW g \in KnownGenerations, NEW to \in ActivationStates,
             Transition(o, g, to)
      PROVE  Ownership!OwnershipNext
  BY <1>3, <1>5 DEF Transition, CasOk, CanTransition
<1>6. ASSUME NEW o \in Owners, NEW g \in KnownGenerations, StartLoop(o, g)
      PROVE  Ownership!OwnershipNext
  BY <1>3, <1>6 DEF StartLoop, CasOk, CanTransition, ActivationStates
<1>7. ASSUME NEW o \in Owners, NEW g \in KnownGenerations, Settle(o, g)
      PROVE  Ownership!OwnershipNext \/ UNCHANGED Ownership!ownershipVars
  <2>1. row \in Row /\ row' = [row EXCEPT !.state = "settled", !.lease = @]
    BY <1>0, <1>7, ExistsTyped DEF Settle, CasOk, Transitioned
  <2>2. /\ row'.generation = row.generation /\ row'.owner = row.owner
        /\ row'.state = "settled"
    BY <2>1 DEF Row
  <2>3. Phase' = "free"
    BY <2>2 DEF Phase, Settled
  <2>4. Phase \in {"free", "held", "lapsed"}
    BY DEF Phase
  <2>. QED
    BY <2>2, <2>3, <2>4 DEF Ownership!OwnershipNext, Ownership!Release
<1>8. ASSUME NEW o \in Owners, Beat(o)
      PROVE  Ownership!OwnershipNext \/ UNCHANGED Ownership!ownershipVars
  <2>1. CASE UNCHANGED row
    BY <2>1 DEF Phase, Exists, Settled, Expired
  <2>2. CASE Exists(row) /\ ~Settled(row) /\ \E lease \in NewLeases : row' = Renewed(row, lease)
    BY <2>2, <1>3 DEF ActivationStates
  <2>. QED BY <1>8, <2>1, <2>2 DEF Beat, CasOk
<1>9. CASE Tick
  <2>1. CASE ~Exists(row)
    <3>1. row' = row
      BY <1>0, <1>9, <2>1, ExistsTyped DEF Tick, NoRow
    <3>. QED BY <3>1 DEF Phase, Exists, Settled, Expired
  <2>2. CASE Exists(row)
    <3>1. row \in Row
      BY <1>0, <2>2, ExistsTyped
    <3>2. /\ row'.generation = row.generation /\ row'.owner = row.owner
          /\ row'.state = row.state /\ (row.lease = 0 => row'.lease = 0)
      BY <1>9, <3>1 DEF Tick, Row
    <3>3. Phase' = Phase \/ (Phase = "held" /\ Phase' = "lapsed")
      BY <3>2 DEF Phase, Exists, Settled, Expired
    <3>. QED BY <3>2, <3>3 DEF Ownership!OwnershipNext, Ownership!Lapse
  <2>. QED BY <2>1, <2>2
<1>10. ASSUME NEW o \in Owners, Remove(o)
       PROVE  Ownership!OwnershipNext
  <2>1. row'.generation = 0 /\ row'.owner = NoOwner
    BY <1>10 DEF Remove, NoRow
  <2>2. Phase' = "free"
    BY <2>1 DEF Phase, Exists
  <2>. QED BY <2>1, <2>2 DEF Ownership!OwnershipNext, Ownership!Forget
<1>11. ASSUME UNCHANGED row PROVE UNCHANGED Ownership!ownershipVars
  BY <1>11 DEF Phase, Exists, Settled, Expired
<1>. QED
  BY <1>1, <1>2, <1>4, <1>5, <1>6, <1>7, <1>8, <1>9, <1>10, <1>11
  DEF Next, StopLoop, Crash, vars

(* The table is an implementation of epoch-numbered ownership, in which a  *)
(* deleted row (no product code deletes one) is a forgotten history.       *)
THEOREM ActivationImplementsOwnership == Spec => ImplementsOwnership
<1>1. Init => Ownership!OwnershipInit
  BY DEF Init, NoRow, Phase, Exists, Ownership!OwnershipInit
<1>2. TypeOK /\ TypeOK' /\ [Next]_vars
        => [Ownership!OwnershipNext]_(Ownership!ownershipVars)
  BY StepsRefine
<1>. QED
  BY <1>1, <1>2, TypeCorrect, PTL
  DEF Spec, ImplementsOwnership, Ownership!OwnershipSpec
=============================================================================
