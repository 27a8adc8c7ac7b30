--------------------------- MODULE FencedOwnership ---------------------------
(***************************************************************************)
(* What a durable activation promises its callers, with no lease, table or *)
(* process in sight: ownership of a child moves through numbered epochs.   *)
(* An epoch has one holder, a held epoch ends only by being released or by *)
(* lapsing, and the next epoch has the next number, so the number fences   *)
(* every earlier holder until the whole history is forgotten.              *)
(***************************************************************************)
EXTENDS Naturals

CONSTANTS Holders, Nobody

VARIABLES
  epoch,    \* number of the current epoch, 0 before the first
  holder,   \* who was granted the current epoch
  phase     \* "free", "held" or "lapsed"

ownershipVars == <<epoch, holder, phase>>

OwnershipInit ==
  /\ epoch = 0
  /\ holder = Nobody
  /\ phase = "free"

Grant(h) ==
  /\ phase \in {"free", "lapsed"}
  /\ epoch' = epoch + 1
  /\ holder' = h
  /\ phase' = "held"

(* The holder keeps its epoch, also one that had lapsed but nobody took.   *)
Extend ==
  /\ phase \in {"held", "lapsed"}
  /\ phase' = "held"
  /\ UNCHANGED <<epoch, holder>>

Lapse ==
  /\ phase = "held"
  /\ phase' = "lapsed"
  /\ UNCHANGED <<epoch, holder>>

Release ==
  /\ phase \in {"held", "lapsed"}
  /\ phase' = "free"
  /\ UNCHANGED <<epoch, holder>>

(* The child's history is forgotten; epochs are counted anew.              *)
Forget ==
  /\ epoch' = 0
  /\ holder' = Nobody
  /\ phase' = "free"

OwnershipNext ==
  \/ \E h \in Holders : Grant(h)
  \/ Extend
  \/ Lapse
  \/ Release
  \/ Forget

OwnershipSpec == OwnershipInit /\ [][OwnershipNext]_ownershipVars
=============================================================================
