----------------------------- MODULE FencedTable -----------------------------
(***************************************************************************)
(* What the activation table promises all who dispatch, recover and cancel *)
(* children side by side: each child moves through numbered epochs as in   *)
(* FencedOwnership, one child at a time but for the passing of time, which *)
(* may end several leases at once.  No product code removes a row, so that *)
(* no epoch of a child ever comes back.                                    *)
(***************************************************************************)
EXTENDS Naturals

CONSTANTS Children, Holders, Nobody

VARIABLES
  epoch,    \* per child: number of its current epoch, 0 before the first
  holder,   \* who was granted it
  phase     \* "free", "held" or "lapsed"

tableVars == <<epoch, holder, phase>>

TableInit ==
  /\ epoch = [c \in Children |-> 0]
  /\ holder = [c \in Children |-> Nobody]
  /\ phase = [c \in Children |-> "free"]

Grant(c, h) ==
  /\ phase[c] \in {"free", "lapsed"}
  /\ epoch' = [epoch EXCEPT ![c] = @ + 1]
  /\ holder' = [holder EXCEPT ![c] = h]
  /\ phase' = [phase EXCEPT ![c] = "held"]

Extend(c) ==
  /\ phase[c] \in {"held", "lapsed"}
  /\ phase' = [phase EXCEPT ![c] = "held"]
  /\ UNCHANGED <<epoch, holder>>

Release(c) ==
  /\ phase[c] \in {"held", "lapsed"}
  /\ phase' = [phase EXCEPT ![c] = "free"]
  /\ UNCHANGED <<epoch, holder>>

Lapse(those) ==
  /\ \A c \in those : phase[c] = "held"
  /\ phase' = [c \in Children |-> IF c \in those THEN "lapsed" ELSE phase[c]]
  /\ UNCHANGED <<epoch, holder>>

TableNext ==
  \/ \E c \in Children : (\E h \in Holders : Grant(c, h)) \/ Extend(c) \/ Release(c)
  \/ \E those \in SUBSET Children : Lapse(those)

TableSpec == TableInit /\ [][TableNext]_tableVars
=============================================================================
