---------------------------- MODULE PlanRegister ----------------------------
(***************************************************************************)
(* What the plan store promises the processes that share a plan, with no   *)
(* lock, file or backup in sight: the plan is a register that takes one    *)
(* write at a time, each at most once and on top of all that is there,     *)
(* between its request and its answer.  A write that was answered with     *)
(* success stays; one that was not may be there, may come until it is      *)
(* answered, and may be lost.                                              *)
(*                                                                         *)
(* All of this ends when a writer loses the right to write although it is  *)
(* at it: two writers then overwrite each other.  An answer still belongs  *)
(* to one request, but says nothing of the plan.                           *)
(***************************************************************************)
CONSTANT Writes

VARIABLES
  content,   \* the writes the plan contains
  pending,   \* requested, and not answered so far
  promised,  \* answered with success
  contested  \* writes that lost the right to write

registerVars == <<content, pending, promised, contested>>

RegisterInit == content = {} /\ pending = {} /\ promised = {} /\ contested = {}

Ask(n) ==
  /\ n \in Writes \ (content \cup pending \cup promised)
  /\ pending' = pending \cup {n}
  /\ UNCHANGED <<content, promised>>

Take(n) ==
  /\ n \in pending \ content
  /\ content' = content \cup {n}
  /\ UNCHANGED <<pending, promised>>

Promise(n) ==
  /\ n \in pending \cap content
  /\ pending' = pending \ {n}
  /\ promised' = promised \cup {n}
  /\ UNCHANGED content

(* The caller is told of a failure; what was taken may stay all the same.  *)
Refuse(n) ==
  /\ n \in pending
  /\ pending' = pending \ {n}
  /\ UNCHANGED <<content, promised>>

(* A writer has died.                                                      *)
Lose ==
  /\ content' \in SUBSET content
  /\ promised \subseteq content'
  /\ UNCHANGED <<pending, promised>>

(* What is left of the register once a write is contested.                 *)
Contend ==
  /\ contested' # {} /\ contested \subseteq contested'
  /\ pending' \subseteq Writes
  /\ promised \subseteq promised' /\ promised' \subseteq promised \cup pending

RegisterNext ==
  \/ /\ contested = {} /\ contested' = {}
     /\ \/ \E n \in Writes : Ask(n) \/ Take(n) \/ Promise(n) \/ Refuse(n)
        \/ Lose
  \/ Contend

RegisterSpec == RegisterInit /\ [][RegisterNext]_registerVars
=============================================================================
