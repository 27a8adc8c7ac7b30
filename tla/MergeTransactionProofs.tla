------------------------ MODULE MergeTransactionProofs ------------------------
(***************************************************************************)
(* What MergeTransaction guarantees for any number of files and calls,     *)
(* through any edits, crashes and failing writes.                          *)
(***************************************************************************)
EXTENDS MergeTransaction, WellFoundedInduction, TLAPS

-----------------------------------------------------------------------------
(* The items left have a first one, and those applied a last one.          *)
LEMMA LeastPath ==
  ASSUME NEW S \in SUBSET Paths, S # {}
  PROVE  \E p \in S : \A q \in S : p <= q
<1>1. S \subseteq Nat
  BY MergeAssumption DEF Paths
<1>2. PICK p \in S : \A q \in S : <<q, p>> \notin OpToRel(<, Nat)
  BY <1>1, WFMin, NatLessThanWellFounded
<1>3. \A q \in S : ~(q < p)
  BY <1>1, <1>2 DEF OpToRel
<1>. QED BY <1>1, <1>3

LEMMA GreatestPath ==
  ASSUME NEW S \in SUBSET Paths, S # {}
  PROVE  \E p \in S : \A q \in S : q <= p
<1>. DEFINE Mirrored == {NumPaths + 1 - p : p \in S}
<1>. NumPaths \in Nat
  BY MergeAssumption DEF MergeAssumption
<1>1. Mirrored \in SUBSET Paths /\ Mirrored # {}
  <2>1. \A p \in S : p \in Nat /\ 1 <= p /\ p <= NumPaths
    BY DEF Paths
  <2>2. \A p \in S : NumPaths + 1 - p \in Paths
    BY <2>1 DEF Paths
  <2>. QED BY <2>2
<1>2. PICK m \in Mirrored : \A q \in Mirrored : m <= q
  BY <1>1, LeastPath
<1>3. PICK p \in S : m = NumPaths + 1 - p
  BY <1>2
<1>4. \A q \in S : m <= NumPaths + 1 - q
  BY <1>2
<1>. QED BY <1>3, <1>4 DEF Paths

LEMMA NextIsRemaining ==
  ASSUME NEW j \in Journals, Remaining(j) # {}
  PROVE  NextItem(j) \in Remaining(j)
<1>. DEFINE Kept_ == {p \in Remaining(j) : j.after[p].there}
<1>1. Remaining(j) \in SUBSET Paths
  BY DEF Remaining, Journals
<1>2. \E p \in Remaining(j) : \A q \in Remaining(j) : Before(j, p, q)
  <2>1. CASE Kept_ = {}
    <3>1. PICK p \in Remaining(j) : \A q \in Remaining(j) : p <= q
      BY <1>1, LeastPath
    <3>. QED BY <1>1, <2>1, <3>1 DEF Before, Journals, Tree, File
  <2>2. CASE Kept_ # {}
    <3>1. PICK p \in Kept_ : \A q \in Kept_ : p <= q
      BY <1>1, <2>2, LeastPath
    <3>. QED BY <1>1, <3>1 DEF Before, Journals, Tree, File
  <2>. QED BY <2>1, <2>2
<1>. QED BY <1>2 DEF NextItem

LEMMA LastIsApplied ==
  ASSUME NEW j \in Journals, j.applied # {}
  PROVE  LastApplied(j) \in j.applied
<1>. DEFINE Deleted == {p \in j.applied : ~j.after[p].there}
<1>1. j.applied \in SUBSET Paths
  BY DEF Journals
<1>2. \E p \in j.applied : \A q \in j.applied : Before(j, q, p)
  <2>1. CASE Deleted = {}
    <3>1. PICK p \in j.applied : \A q \in j.applied : q <= p
      BY <1>1, GreatestPath
    <3>. QED BY <1>1, <2>1, <3>1 DEF Before, Journals, Tree, File
  <2>2. CASE Deleted # {}
    <3>1. PICK p \in Deleted : \A q \in Deleted : q <= p
      BY <1>1, <2>2, GreatestPath
    <3>. QED BY <1>1, <3>1 DEF Before, Journals, Tree, File
  <2>. QED BY <2>1, <2>2
<1>. QED BY <1>2 DEF LastApplied
-----------------------------------------------------------------------------
(* The inductive invariant.                                                *)

(* Neither the baseline nor the child holds an insertion of the parent,    *)
(* nor the baseline one of the child.                                      *)
TreesInv ==
  \A p \in Paths :
    /\ base[p].own = 0 /\ child[p].own = 0
    /\ base[p] \in {Absent, Plain} /\ (child[p].there \/ child[p] = Absent)

ResolutionsInv ==
  \A c \in Callers, p \in Paths : calls[c].use[p] = "child" => <<p, "child">> \in decided

(* What a journal makes of the parent's insertions.                        *)
KeepsOwn(j, answers) ==
  \A p \in Paths :
    /\ j.after[p].own = j.target[p].own \/ <<p, "child">> \in answers
    /\ p \in j.items /\ ~j.after[p].there => j.after[p].own = 0

Sound(j, answers) ==
  /\ j.applied \subseteq j.items /\ j.items \subseteq j.watched
  /\ KeepsOwn(j, answers)
  /\ j.status = "applied" => j.conflicts = {}

JournalsInv == Sound(journal, decided) /\ Sound(tx.journal, decided)

Working == {"write", "verify", "next", "replacing", "log"}
StagesInv ==
  /\ tx.stage \in Working => tx.journal.status = "running"
  /\ tx.stage = "write" => tx.journal.applied = {}
  /\ tx.stage = "replacing" => Remaining(tx.journal) # {}
  /\ tx.stage = "close" /\ tx.journal.status = "failed" => tx.journal.applied = {}
  /\ tx.stage = "close" /\ tx.journal.status \notin {"failed", "stale"} =>
       Remaining(tx.journal) = {}
  /\ tx.strayed # {} => \/ tx.stage \in {"rollback", "abort"}
                        \/ tx.stage = "close" /\ tx.journal.status = "failed"
  /\ journal.status = "applied" => tx.stage = "none"

AnswersInv ==
  /\ \A c \in Callers : calls[c].stage = "answered" => calls[c].result # "none"
  /\ sidecars /\ (plan.merge = "merged" \/ \E c \in Callers : calls[c].result = "merged")
       => journal.status = "applied"

(* What a replacement or a rollback is about to write holds every edit.    *)
BackupsInv ==
  \A p \in AtRisk \ exposed :
    <<p, "child">> \notin decided => tx.journal.target[p].own = edits[p]

(* A file that is not replaced is as the plan found it, or was edited.     *)
Untouched ==
  \/ tx.stage \in {"next", "replacing", "log", "rollback"}
  \/ tx.stage = "close" /\ tx.journal.status = "failed"
Undone(p) ==
  main[p] = tx.journal.target[p] \/ main[p].own > tx.journal.target[p].own
UntouchedInv ==
  Untouched =>
    \A p \in tx.journal.items \ (tx.journal.applied \cup InFlight \cup exposed \cup tx.strayed) :
      Undone(p)

MergeInv ==
  /\ TypeOK /\ TreesInv /\ ResolutionsInv /\ JournalsInv /\ StagesInv
  /\ AnswersInv /\ EditsSurvive /\ BackupsInv /\ UntouchedInv
-----------------------------------------------------------------------------
(* What a fresh plan makes of a file.                                      *)
LEMMA OutcomeKeepsOwn ==
  ASSUME TypeOK, TreesInv, NEW p \in Paths, NEW m \in File, NEW use
  PROVE  /\ Outcome(p, m, use) \in File
         /\ Outcome(p, m, use).own = m.own \/ use = "child"
         /\ Outcome(p, m, use) # m /\ ~Outcome(p, m, use).there => Outcome(p, m, use).own = 0
         /\ Outcome(p, m, use) # m => child[p] # base[p]
<1>. USE DEF TypeOK, Tree, TreesInv
<1>1. CASE Kept(p, m)
  BY <1>1 DEF Outcome
<1>2. CASE ~Kept(p, m) /\ m = base[p]
  BY <1>2 DEF Outcome, Kept
<1>3. CASE ~Kept(p, m) /\ m # base[p] /\ TextMergeable(p, m)
  <2>1. Outcome(p, m, use) = MergedText(p, m)
    BY <1>3 DEF Outcome
  <2>2. /\ MergedText(p, m) \in File
        /\ MergedText(p, m).own = m.own
        /\ MergedText(p, m).there = m.there
    BY DEF MergedText, File
  <2>. QED BY <1>3, <2>1, <2>2 DEF Kept, TextMergeable
<1>4. CASE ~Kept(p, m) /\ m # base[p] /\ ~TextMergeable(p, m)
  BY <1>4 DEF Outcome, Kept
<1>. QED BY <1>1, <1>2, <1>3, <1>4

LEMMA FreshIsSound ==
  ASSUME TypeOK, TreesInv, ResolutionsInv, NEW c \in Callers, NEW seen \in Tree
  PROVE  /\ Fresh(c, seen) \in Journals
         /\ Sound(Fresh(c, seen), decided)
         /\ Fresh(c, seen).status = "running" /\ Fresh(c, seen).applied = {}
<1>. DEFINE after == [p \in Paths |-> Outcome(p, seen[p], calls[c].use[p])]
<1>1. \A p \in Paths :
        /\ after[p] \in File
        /\ after[p].own = seen[p].own \/ <<p, "child">> \in decided
        /\ after[p] # seen[p] /\ ~after[p].there => after[p].own = 0
        /\ after[p] # seen[p] => child[p] # base[p]
  <2>. SUFFICES ASSUME NEW p \in Paths
                PROVE  /\ after[p] \in File
                       /\ after[p].own = seen[p].own \/ <<p, "child">> \in decided
                       /\ after[p] # seen[p] /\ ~after[p].there => after[p].own = 0
                       /\ after[p] # seen[p] => child[p] # base[p]
    OBVIOUS
  <2>1. seen[p] \in File
    BY DEF Tree
  <2>. QED BY <2>1, OutcomeKeepsOwn DEF ResolutionsInv
<1>2. after \in Tree
  BY <1>1 DEF Tree
<1>3. calls[c].scope \in SUBSET Paths
  BY DEF TypeOK, CallStates
<1>. DEFINE items == {p \in calls[c].scope : after[p] # seen[p]}
<1>4. items \subseteq Watched(c, seen) /\ Watched(c, seen) \subseteq Paths
  BY <1>1, <1>3 DEF Watched
<1>5. /\ Fresh(c, seen).status = "running" /\ Fresh(c, seen).applied = {}
      /\ Fresh(c, seen).after = after /\ Fresh(c, seen).target = seen
      /\ Fresh(c, seen).items = items /\ Fresh(c, seen).watched = Watched(c, seen)
  BY DEF Fresh
<1>6. Fresh(c, seen) \in Journals
  BY <1>2, <1>3, <1>4 DEF Fresh, Journals, JournalStatuses
<1>7. Sound(Fresh(c, seen), decided)
  BY <1>1, <1>3, <1>4, <1>5 DEF Sound, KeepsOwn
<1>. QED BY <1>5, <1>6, <1>7

(* The files in the middle of a replacement are files of the trees.        *)
LEMMA InFlightIsItem ==
  ASSUME TypeOK, JournalsInv, StagesInv
  PROVE  /\ InFlight \subseteq Remaining(tx.journal)
         /\ Remaining(tx.journal) \subseteq Paths
         /\ AtRisk \subseteq tx.journal.items
         /\ tx.journal.items \subseteq Paths
<1>1. tx.journal \in Journals
  BY DEF TypeOK
<1>2. InFlight \subseteq Remaining(tx.journal)
  BY <1>1, NextIsRemaining DEF InFlight, StagesInv
<1>. QED BY <1>1, <1>2 DEF Remaining, Journals, AtRisk, JournalsInv, Sound

LEMMA NoCallTyped == NoCall \in CallStates /\ NoJournal \in Journals /\ Absent \in File
BY DEF NoCall, CallStates, NoJournal, Journals, JournalStatuses, Tree, Absent, File

LEMMA AnswersTyped ==
  ASSUME TypeOK, NEW c \in Callers, NEW j \in Journals, Answers(c, j)
  PROVE  /\ calls' \in [Callers -> CallStates]
         /\ \A d \in Callers \ {c} : calls'[d] = calls[d]
         /\ calls'[c].use = NoCall.use
         /\ calls'[c].result # "none"
         /\ calls'[c].result = "merged" => j.status = "applied"
<1>1. calls'[c] \in CallStates
  <2>. DEFINE answer == CASE j.status = "applied"  -> "merged"
                          [] j.status = "conflict" -> "conflict"
                          [] OTHER                 -> "failed"
  <2>1. answer \in {"none", "merged", "conflict", "failed"}
    OBVIOUS
  <2>2. calls'[c] = [NoCall EXCEPT !.stage = "answered", !.conflicts = j.conflicts,
                                   !.result = answer]
    BY DEF Answers, TypeOK
  <2>3. j.conflicts \in SUBSET Paths
    BY DEF Journals
  <2>. HIDE DEF answer
  <2>. QED BY <2>1, <2>2, <2>3, NoCallTyped DEF CallStates
<1>. QED BY <1>1 DEF Answers, TypeOK, NoCall

LEMMA AdvanceTyped ==
  ASSUME TypeOK, NEW stage \in TxStages, NEW j \in Journals, Advance(stage, j)
  PROVE  /\ tx' \in [stage : TxStages, by : Callers, journal : Journals, strayed : SUBSET Paths]
         /\ tx'.stage = stage /\ tx'.by = tx.by /\ tx'.journal = j /\ tx'.strayed = tx.strayed
BY DEF TypeOK, Advance

(* What a failure inside the transaction starts.                           *)
LEMMA FailOutcome ==
  ASSUME TypeOK, JournalsInv, StagesInv, Refuse \/ FailItem
  PROVE  /\ tx' \in [stage : TxStages, by : Callers, journal : Journals, strayed : SUBSET Paths]
         /\ tx'.stage = "rollback" /\ tx'.by = tx.by /\ tx'.journal = tx.journal
         /\ tx.stage \in {"verify", "next", "replacing", "log", "close"}
         /\ journal' \in {journal, NoJournal}
         /\ exposed' = exposed \cup InFlight \cup Overwritten(tx.journal)
         /\ exposed' \subseteq Paths
         /\ InFlight' = {} /\ AtRisk' = tx.journal.applied
         /\ main' = main /\ calls' = calls /\ plan' = plan /\ sidecars' = sidecars
         /\ down' = down /\ merges' = merges /\ crashes' = crashes /\ edits' = edits
         /\ decided' = decided /\ forgotten' = forgotten /\ UNCHANGED trees
<1>. USE DEF TypeOK
<1>1. /\ Overwritten(tx.journal) \subseteq Paths
      /\ Remaining(tx.journal) \subseteq Paths /\ InFlight \subseteq Paths
  BY InFlightIsItem DEF Overwritten, Remaining, Journals
<1>2. CASE Refuse
  <2>1. /\ tx'.stage = "rollback" /\ tx'.by = tx.by /\ tx'.journal = tx.journal
        /\ tx' \in [stage : TxStages, by : Callers, journal : Journals, strayed : SUBSET Paths]
    BY <1>2, AdvanceTyped DEF Refuse, TxStages
  <2>2. InFlight = {}
    BY <1>2 DEF Refuse, InFlight
  <2>3. InFlight' = {} /\ AtRisk' = tx.journal.applied
    BY <2>1 DEF InFlight, AtRisk
  <2>. QED BY <1>1, <1>2, <2>1, <2>2, <2>3 DEF Refuse
<1>3. CASE FailItem
  <2>. DEFINE odd == IF tx.stage = "verify" \/ tx.journal.status = "stale"
                     THEN {p \in Remaining(tx.journal) : main[p] # tx.journal.target[p]} ELSE {}
  <2>1. odd \in SUBSET Paths
    BY <1>1
  <2>2. tx' = [tx EXCEPT !.stage = "rollback", !.strayed = odd]
    BY <1>3 DEF FailItem
  <2>. HIDE DEF odd
  <2>3. /\ tx'.stage = "rollback" /\ tx'.by = tx.by /\ tx'.journal = tx.journal
        /\ tx' \in [stage : TxStages, by : Callers, journal : Journals, strayed : SUBSET Paths]
    BY <2>1, <2>2 DEF TxStages
  <2>4. InFlight' = {} /\ AtRisk' = tx.journal.applied
    BY <2>3 DEF InFlight, AtRisk
  <2>5. /\ tx.stage \in {"verify", "next", "replacing", "log", "close"}
        /\ journal' \in {journal, NoJournal}
    BY <1>3 DEF FailItem, WriteBreaks
  <2>. QED BY <1>1, <1>3, <2>3, <2>4, <2>5 DEF FailItem
<1>. QED BY <1>2, <1>3

(* A failing write of the journal that nothing answers.                    *)
LEMMA ThrowsOutcome ==
  ASSUME TypeOK, WriteThrows
  PROVE  /\ tx.stage \in {"write", "empty", "abort", "close"} /\ tx' = NoTx
         /\ journal' \in {journal, NoJournal}
         /\ tx.by \in Callers /\ Thrown(tx.by)
         /\ calls'[tx.by] = NoCall /\ \A d \in Callers \ {tx.by} : calls'[d] = calls[d]
         /\ plan'.merge \in {plan.merge, "failed"}
         /\ forgotten' = (forgotten \/ journal'.status = "running")
         /\ InFlight = {} /\ AtRisk = {} /\ InFlight' = {} /\ AtRisk' = {}
         /\ main' = main /\ sidecars' = sidecars /\ down' = down /\ merges' = merges
         /\ crashes' = crashes /\ edits' = edits /\ decided' = decided /\ exposed' = exposed
         /\ UNCHANGED trees
<1>1. /\ tx.stage \in {"write", "empty", "abort", "close"} /\ tx' = NoTx
      /\ journal' \in {journal, NoJournal}
  BY DEF WriteThrows, WriteBreaks
<1>2. tx.by \in Callers /\ calls \in [Callers -> CallStates] /\ plan.merge = plan.merge
  BY DEF TypeOK
<1>3. /\ calls'[tx.by] = NoCall /\ \A d \in Callers \ {tx.by} : calls'[d] = calls[d]
      /\ plan'.merge \in {plan.merge, "failed"}
  BY <1>2 DEF WriteThrows, Thrown, TypeOK
<1>4. InFlight = {} /\ AtRisk = {} /\ InFlight' = {} /\ AtRisk' = {}
  BY <1>1 DEF InFlight, AtRisk, NoTx
<1>. QED BY <1>1, <1>2, <1>3, <1>4 DEF WriteThrows

LEMMA AppliedTyped ==
  ASSUME TypeOK, NEW p \in Paths
  PROVE  /\ Applied(p) \in Journals
         /\ Applied(p) = [tx.journal EXCEPT !.applied = @ \cup {p}]
BY DEF TypeOK, Applied, Journals

LEMMA StatusTyped ==
  ASSUME NEW j \in Journals, NEW status \in JournalStatuses
  PROVE  [j EXCEPT !.status = status] \in Journals
BY DEF Journals

LEMMA ClosedTyped ==
  ASSUME NEW j \in Journals
  PROVE  Closed(j) \in Journals
BY DEF Closed, Journals, JournalStatuses

LEMMA RestoredTyped ==
  ASSUME NEW j \in Journals, NEW p
  PROVE  [j EXCEPT !.applied = @ \ {p}] \in Journals
BY DEF Journals

-----------------------------------------------------------------------------
(* Every step keeps the types.                                             *)
LEMMA TypeStep ==
  ASSUME MergeInv, [Next]_vars
  PROVE  TypeOK'
<1>. TypeOK /\ TreesInv /\ ResolutionsInv /\ JournalsInv /\ StagesInv /\ AnswersInv
  BY DEF MergeInv
<1>. USE DEF TypeOK, trees, history
<1>a. tx.journal \in Journals /\ journal \in Journals
  OBVIOUS
<1>b. \A s \in {"none", "write", "verify", "next", "replacing", "log", "rollback", "close",
                 "abort", "empty"} : s \in TxStages
  BY DEF TxStages
<1>c. \A s \in {"none", "running", "applied", "conflict", "failed", "stale"} : s \in JournalStatuses
  BY DEF JournalStatuses
<1>d. Remaining(tx.journal) # {} => NextItem(tx.journal) \in Paths
  BY NextIsRemaining, InFlightIsItem
<1>e. tx.journal.applied # {} => LastApplied(tx.journal) \in Paths
  BY LastIsApplied DEF Journals
<1>f. \A p \in Paths : /\ tx.journal.after[p] \in File /\ tx.journal.target[p] \in File
                       /\ main[p] \in File
  BY DEF Journals, Tree
<1>g. InFlight \subseteq Paths
  BY InFlightIsItem
<1>h. \A f : \A p \in Paths : f \in File => [main EXCEPT ![p] = f] \in Tree
  BY DEF Tree
<1>1. ASSUME NEW c \in Calls, NEW scope \in Scopes,
             NEW use \in [Paths -> {"none", "main", "child"}], Ask(c, scope, use)
      PROVE  TypeOK'
  <2>1. scope \in SUBSET Paths
    BY MergeAssumption DEF MergeAssumption
  <2>2. calls' \in [Callers -> CallStates]
    BY <1>1, <2>1 DEF Ask, Calls, Callers, CallStates
  <2>3. decided' \subseteq Paths \X {"main", "child"}
    BY <1>1 DEF Ask
  <2>. QED BY <1>1, <2>2, <2>3 DEF Ask
<1>2. ASSUME NEW c \in Calls, Begin(c) PROVE TypeOK'
  <2>1. calls[c] \in CallStates
    BY DEF Calls, Callers
  <2>2. [calls[c] EXCEPT !.stage = "begun"] \in CallStates
    BY <2>1 DEF CallStates
  <2>. QED BY <1>2, <2>2 DEF Begin
<1>3. ASSUME NEW c \in Callers, Settle(c) PROVE TypeOK'
  <2>1. /\ calls[c].result \in {"merged", "conflict", "failed"}
        /\ calls[c].conflicts \in SUBSET Paths
    BY <1>3 DEF CallStates, Settle, AnswersInv
  <2>. QED BY <1>3, <2>1, NoCallTyped DEF Settle
<1>4. ASSUME NEW c \in Callers, FailEntry(c) PROVE TypeOK'
  BY <1>4, NoCallTyped DEF FailEntry, Thrown
<1>5. ASSUME NEW c \in Callers, FindApplied(c) PROVE TypeOK'
  BY <1>a, <1>5, AnswersTyped DEF FindApplied
<1>6. ASSUME NEW c \in Callers, Resume(c) PROVE TypeOK'
  BY <1>a, <1>b, <1>6 DEF Resume
<1>7. ASSUME NEW c \in Callers, PrepareJournal(c) PROVE TypeOK'
  <2>1. (IF c = Recovery THEN main ELSE calls[c].seen) \in Tree
    BY DEF CallStates
  <2>. QED BY <1>b, <1>7, <2>1, FreshIsSound DEF PrepareJournal
<1>8. CASE WriteFirst
  BY <1>8, <1>a, <1>b, AdvanceTyped, ClosedTyped DEF WriteFirst
<1>9. CASE Verify
  BY <1>9, <1>a, <1>b, <1>c, AdvanceTyped, StatusTyped DEF Verify
<1>10. CASE Remove
  BY <1>10, <1>a, <1>b, <1>d, <1>h, AdvanceTyped, AppliedTyped, NoCallTyped DEF Remove
<1>11. CASE Place
  <2>1. NextItem(tx.journal) \in Paths
    BY <1>d, <1>11 DEF Place, StagesInv
  <2>. QED BY <1>11, <1>a, <1>b, <1>f, <1>h, <2>1, AdvanceTyped, AppliedTyped DEF Place
<1>12. CASE Log
  BY <1>12, <1>a, <1>b, AdvanceTyped DEF Log
<1>13. CASE Finish
  BY <1>13, <1>a, <1>b, AdvanceTyped, ClosedTyped DEF Finish
<1>14. CASE Close
  BY <1>14, <1>a, <1>b, AnswersTyped, NoCallTyped DEF Close, NoTx, Callers
<1>15. CASE Refuse \/ FailItem
  BY <1>15, NoCallTyped, FailOutcome
<1>16. CASE WriteThrows
  BY <1>16, ThrowsOutcome, NoCallTyped DEF WriteThrows, Thrown, NoTx, TxStages, Callers
<1>17. CASE Restore
  BY <1>17, <1>a, <1>b, <1>e, <1>f, <1>h, AdvanceTyped, RestoredTyped DEF Restore
<1>18. CASE RolledBack
  BY <1>18, <1>a, <1>b, <1>c, AdvanceTyped, StatusTyped DEF RolledBack
<1>19. CASE RestoreBreaks
  <2>1. PICK lost \in {{}, {LastApplied(tx.journal)}} :
          /\ main' = [q \in Paths |-> IF q \in lost THEN Absent ELSE main[q]]
          /\ exposed' = exposed \cup lost
    BY <1>19 DEF RestoreBreaks
  <2>2. main' \in Tree
    BY <1>f, <2>1, NoCallTyped DEF Tree
  <2>3. exposed' \subseteq Paths
    BY <1>19, <1>e, <2>1 DEF RestoreBreaks
  <2>. QED BY <1>19, <1>a, <1>b, <1>c, <2>2, <2>3, AdvanceTyped, StatusTyped DEF RestoreBreaks
<1>20. CASE Abort
  BY <1>20, <1>a, <1>b, NoCallTyped DEF Abort, Thrown, NoTx, Callers
<1>21. ASSUME NEW p \in Paths, Edit(p) PROVE TypeOK'
  <2>. DEFINE edited == [there |-> TRUE, own |-> main[p].own + 1, child |-> main[p].child]
  <2>1. edited \in File
    BY <1>f DEF File
  <2>2. main' = [main EXCEPT ![p] = edited]
    BY <1>21 DEF Edit
  <2>3. main' \in Tree
    BY <1>h, <2>1, <2>2
  <2>. QED BY <1>21, <2>3 DEF Edit
<1>22. CASE Cleanup
  BY <1>22, NoCallTyped DEF Cleanup
<1>23. CASE Crash
  <2>1. PICK lost :
          /\ main' = [p \in Paths |-> IF p \in lost THEN Absent ELSE main[p]]
          /\ exposed' = exposed \cup lost
          /\ \/ lost = {}
             \/ lost = {NextItem(tx.journal)} /\ tx.stage = "replacing"
             \/ lost = {LastApplied(tx.journal)} /\ tx.journal.applied # {}
    BY <1>23 DEF Crash
  <2>2. lost \subseteq Paths
    BY <1>d, <1>e, <2>1 DEF StagesInv
  <2>3. main' \in Tree
    BY <1>f, <2>1, NoCallTyped DEF Tree
  <2>. QED BY <1>23, <2>1, <2>2, <2>3, NoCallTyped DEF Crash, NoTx, Callers, TxStages
<1>24. CASE Restart
  BY <1>24, NoCallTyped DEF Restart, CallStates
<1>25. CASE UNCHANGED vars
  BY <1>25 DEF vars
<1>. QED
  BY <1>1, <1>2, <1>3, <1>4, <1>5, <1>6, <1>7, <1>8, <1>9, <1>10, <1>11, <1>12, <1>13, <1>14,
     <1>15, <1>16, <1>17, <1>18, <1>19, <1>20, <1>21, <1>22, <1>23, <1>24, <1>25
  DEF Next, ToolCall, Answering, Entering, Applying, RollingBack, Calls, Callers
-----------------------------------------------------------------------------
(* Journals stay sound: what they leave is what the plan has worked out.   *)
LEMMA StaysSound ==
  ASSUME NEW j \in Journals, NEW answers, NEW more, answers \subseteq more, Sound(j, answers)
  PROVE  /\ Sound(j, more)
         /\ Sound(NoJournal, more)
         /\ Sound(Closed(j), more)
         /\ \A status \in {"stale", "failed"} : Sound([j EXCEPT !.status = status], more)
         /\ \A p \in j.items : Sound([j EXCEPT !.applied = @ \cup {p}], more)
         /\ \A p : Sound([j EXCEPT !.applied = @ \ {p}], more)
<1>1. Sound(j, more)
  BY DEF Sound, KeepsOwn
<1>2. Sound(NoJournal, more)
  BY DEF Sound, KeepsOwn, NoJournal, Absent
<1>3. Sound(Closed(j), more)
  BY <1>1 DEF Sound, KeepsOwn, Closed, Journals
<1>4. \A status \in {"stale", "failed"} : Sound([j EXCEPT !.status = status], more)
  BY <1>1 DEF Sound, KeepsOwn, Journals
<1>5. \A p \in j.items : Sound([j EXCEPT !.applied = @ \cup {p}], more)
  BY <1>1 DEF Sound, KeepsOwn, Journals
<1>6. \A p : Sound([j EXCEPT !.applied = @ \ {p}], more)
  BY <1>1 DEF Sound, KeepsOwn, Journals
<1>. QED BY <1>1, <1>2, <1>3, <1>4, <1>5, <1>6

(* Every journal written, loaded or rolled back is a sound one.            *)
LEMMA JournalsStep ==
  ASSUME MergeInv, [Next]_vars
  PROVE  TreesInv' /\ ResolutionsInv' /\ JournalsInv'
<1>. TypeOK /\ TreesInv /\ ResolutionsInv /\ JournalsInv /\ StagesInv
  BY DEF MergeInv
<1>. USE DEF trees, history
<1>a. tx.journal \in Journals /\ journal \in Journals
  BY DEF TypeOK
<1>b. \A s \in {"none", "write", "verify", "next", "replacing", "log", "rollback", "close",
                 "abort", "empty"} : s \in TxStages
  BY DEF TxStages
<1>c. /\ Remaining(tx.journal) # {} => NextItem(tx.journal) \in Remaining(tx.journal)
      /\ Remaining(tx.journal) \subseteq tx.journal.items
      /\ tx.journal.items \subseteq Paths
  BY <1>a, NextIsRemaining, InFlightIsItem DEF Remaining
<1>d. decided \subseteq decided'
  BY DEF Next, vars, ToolCall, Answering, Entering, Applying, RollingBack, Ask, Begin, Settle,
         FailEntry, FindApplied, Resume, PrepareJournal, WriteFirst, Verify, Remove, Place, Log,
         Finish, Close, Refuse, FailItem, Restore, RolledBack, RestoreBreaks, Abort, Edit, Cleanup,
         Crash, Restart, WriteThrows
<1>. TreesInv'
  BY DEF TreesInv, Next, vars, ToolCall, Answering, Entering, Applying, RollingBack, Ask, Begin,
         Settle, FailEntry, FindApplied, Resume, PrepareJournal, WriteFirst, Verify, Remove,
         Place, Log, Finish, Close, Refuse, FailItem, Restore, RolledBack, RestoreBreaks, Abort,
         Edit, Cleanup, Crash, Restart, WriteThrows
<1>f. /\ Sound(journal, decided') /\ Sound(tx.journal, decided') /\ Sound(NoJournal, decided')
      /\ \A j \in {tx.journal, journal} : \A status \in {"stale", "failed"} :
           Sound([j EXCEPT !.status = status], decided')
      /\ Sound(Closed(tx.journal), decided')
      /\ \A p \in tx.journal.items : Sound(Applied(p), decided')
      /\ \A p : Sound([tx.journal EXCEPT !.applied = @ \ {p}], decided')
  BY <1>a, <1>d, StaysSound DEF JournalsInv, Applied
<1>g. ASSUME tx' = tx, journal' = journal \/ journal' = NoJournal \/ journal' = tx.journal
      PROVE  JournalsInv'
  BY <1>f, <1>g DEF JournalsInv
<1>h. ASSUME NEW stage \in TxStages, NEW j \in Journals, Advance(stage, j), Sound(j, decided'),
             journal' = journal \/ journal' = tx.journal
      PROVE  JournalsInv'
  BY <1>f, <1>h, AdvanceTyped DEF JournalsInv
<1>i. ASSUME decided' = decided, calls' = calls \/ \E c \in Callers : calls' = [calls EXCEPT ![c] = NoCall]
      PROVE  ResolutionsInv'
  BY <1>i DEF ResolutionsInv, NoCall, TypeOK
<1>j. ASSUME NEW c \in Callers, NEW j \in Journals, Answers(c, j), decided' = decided
      PROVE  ResolutionsInv'
  BY <1>j, AnswersTyped DEF ResolutionsInv, NoCall
<1>1. ASSUME NEW c \in Calls, NEW scope \in Scopes,
             NEW use \in [Paths -> {"none", "main", "child"}], Ask(c, scope, use)
      PROVE  ResolutionsInv' /\ JournalsInv'
  <2>1. ResolutionsInv'
    BY <1>1, <1>d DEF Ask, ResolutionsInv, TypeOK, Calls, Callers
  <2>. QED BY <1>1, <1>g, <2>1 DEF Ask
<1>2. ASSUME NEW c \in Calls, Begin(c) PROVE ResolutionsInv' /\ JournalsInv'
  <2>1. \A d \in Callers : calls'[d].use = calls[d].use
    BY <1>2 DEF Begin, TypeOK, CallStates
  <2>. QED BY <1>2, <1>g, <2>1 DEF Begin, ResolutionsInv
<1>3. ASSUME NEW c \in Callers, Settle(c) \/ FailEntry(c) PROVE ResolutionsInv' /\ JournalsInv'
  BY <1>3, <1>g, <1>i DEF Settle, FailEntry, Thrown
<1>4. ASSUME NEW c \in Callers, FindApplied(c) PROVE ResolutionsInv' /\ JournalsInv'
  BY <1>a, <1>4, <1>g, <1>j DEF FindApplied
<1>5. ASSUME NEW c \in Callers, Resume(c) PROVE ResolutionsInv' /\ JournalsInv'
  BY <1>5, <1>f, <1>i DEF Resume, JournalsInv
<1>6. ASSUME NEW c \in Callers, PrepareJournal(c) PROVE ResolutionsInv' /\ JournalsInv'
  <2>1. (IF c = Recovery THEN main ELSE calls[c].seen) \in Tree
    BY DEF TypeOK, CallStates
  <2>2. Sound(tx'.journal, decided')
    BY <1>6, <2>1, FreshIsSound DEF PrepareJournal
  <2>. QED BY <1>6, <1>f, <1>i, <2>2 DEF PrepareJournal, JournalsInv
<1>7. CASE WriteFirst
  BY <1>7, <1>a, <1>b, <1>f, <1>h, <1>i, ClosedTyped DEF WriteFirst
<1>8. CASE Verify
  BY <1>8, <1>a, <1>b, <1>f, <1>h, <1>i, StatusTyped DEF Verify, JournalStatuses
<1>9. CASE Remove
  BY <1>9, <1>a, <1>b, <1>c, <1>f, <1>h, <1>i, AppliedTyped DEF Remove
<1>10. CASE Place
  BY <1>10, <1>a, <1>b, <1>c, <1>f, <1>h, <1>i, AppliedTyped DEF Place, StagesInv
<1>11. CASE Log
  BY <1>11, <1>a, <1>b, <1>f, <1>h, <1>i DEF Log
<1>12. CASE Finish
  BY <1>12, <1>a, <1>b, <1>f, <1>h, <1>i, ClosedTyped DEF Finish
<1>13. CASE Close
  BY <1>13, <1>a, <1>f, <1>j DEF Close, NoTx, JournalsInv, TypeOK
<1>14. CASE Refuse \/ FailItem
  BY <1>14, <1>f, <1>i, FailOutcome DEF JournalsInv
<1>15. CASE Restore
  BY <1>15, <1>a, <1>b, <1>f, <1>h, <1>i, RestoredTyped DEF Restore
<1>16. CASE RolledBack \/ RestoreBreaks
  BY <1>16, <1>a, <1>b, <1>f, <1>h, <1>i, StatusTyped DEF RolledBack, RestoreBreaks, JournalStatuses
<1>17. CASE Abort
  BY <1>17, <1>f, <1>i DEF Abort, Thrown, NoTx, JournalsInv, TypeOK
<1>23. CASE WriteThrows
  BY <1>23, <1>f, <1>i, ThrowsOutcome DEF Thrown, NoTx, JournalsInv
<1>18. ASSUME NEW p \in Paths, Edit(p) PROVE ResolutionsInv' /\ JournalsInv'
  BY <1>18, <1>g, <1>i DEF Edit
<1>19. CASE Cleanup
  BY <1>19, <1>g, <1>i DEF Cleanup
<1>20. CASE Crash
  BY <1>20, <1>f DEF Crash, NoTx, NoCall, JournalsInv, ResolutionsInv
<1>21. CASE Restart
  <2>1. \A c \in Callers : calls'[c].use = calls[c].use \/ calls'[c].use = NoCall.use
    BY <1>21 DEF Restart, NoCall, TypeOK
  <2>. QED BY <1>21, <1>g, <2>1 DEF Restart, ResolutionsInv, NoCall
<1>22. CASE UNCHANGED vars
  BY <1>22, <1>g, <1>i DEF vars
<1>. QED
  BY <1>1, <1>2, <1>3, <1>4, <1>5, <1>6, <1>7, <1>8, <1>9, <1>10, <1>11, <1>12, <1>13, <1>14,
     <1>15, <1>16, <1>17, <1>18, <1>19, <1>20, <1>21, <1>22, <1>23
  DEF Next, ToolCall, Answering, Entering, Applying, RollingBack, Calls, Callers
-----------------------------------------------------------------------------
(* The journal in memory fits the stage of the transaction.                *)
LEMMA StagesStep ==
  ASSUME MergeInv, [Next]_vars
  PROVE  StagesInv'
<1>. TypeOK /\ TreesInv /\ ResolutionsInv /\ JournalsInv /\ StagesInv
  BY DEF MergeInv
<1>. USE DEF trees, history
<1>a. tx.journal \in Journals /\ journal \in Journals
  BY DEF TypeOK
<1>b. \A s \in {"none", "write", "verify", "next", "replacing", "log", "rollback", "close",
                 "abort", "empty"} : s \in TxStages
  BY DEF TxStages
<1>c. /\ Remaining(tx.journal) # {} => NextItem(tx.journal) \in Paths
      /\ Closed(tx.journal) \in Journals
      /\ Closed(tx.journal).status \in {"applied", "conflict"}
      /\ \A status \in {"stale", "failed"} : [tx.journal EXCEPT !.status = status] \in Journals
      /\ \A p : [tx.journal EXCEPT !.applied = @ \ {p}] \in Journals
  BY <1>a, NextIsRemaining, InFlightIsItem, ClosedTyped, StatusTyped, RestoredTyped
  DEF Closed, Journals, JournalStatuses
<1>d. CASE tx' = tx /\ journal' = journal
  BY <1>d DEF StagesInv, Remaining
<1>e. CASE tx'.stage = "none" /\ tx'.strayed = {}
  BY <1>e DEF StagesInv, Working
<1>f. tx.strayed = {} \/ tx.stage \in {"rollback", "abort", "close"}
  BY DEF StagesInv
<1>1. ASSUME NEW c \in Calls, ToolCall(c) PROVE StagesInv'
  BY <1>1, <1>d DEF ToolCall, Ask, Begin
<1>2. ASSUME NEW c \in Callers, Answering(c) \/ FindApplied(c) PROVE StagesInv'
  BY <1>2, <1>d DEF Answering, Settle, FailEntry, FindApplied
<1>3. ASSUME NEW c \in Callers, Resume(c) PROVE StagesInv'
  BY <1>3, <1>a DEF Resume, StagesInv, Working, Journals
<1>4. ASSUME NEW c \in Callers, PrepareJournal(c) PROVE StagesInv'
  <2>1. (IF c = Recovery THEN main ELSE calls[c].seen) \in Tree
    BY DEF TypeOK, CallStates
  <2>2. /\ tx'.stage = "write" /\ tx'.journal.status = "running" /\ tx'.journal.applied = {}
        /\ journal' = journal /\ journal.status # "applied" /\ tx'.strayed = {}
    BY <1>4, <2>1, FreshIsSound DEF PrepareJournal
  <2>. QED BY <2>2 DEF StagesInv, Working
<1>5. CASE WriteFirst
  <2>1. \/ tx'.stage = "empty" /\ tx'.journal = Closed(tx.journal)
        \/ tx'.stage = "verify" /\ tx'.journal = tx.journal
    BY <1>5, <1>a, <1>b, <1>c, AdvanceTyped DEF WriteFirst
  <2>2. tx'.strayed = {} /\ tx.stage = "write" /\ journal' = tx.journal
    BY <1>5, <1>a, <1>b, <1>c, <1>f, AdvanceTyped DEF WriteFirst
  <2>. QED BY <2>1, <2>2 DEF StagesInv, Working
<1>6. CASE Verify
  <2>1. [tx.journal EXCEPT !.status = "stale"].status = "stale"
    BY <1>a DEF Journals
  <2>2. \/ tx'.stage = "next" /\ tx'.journal = tx.journal
        \/ tx'.stage = "close" /\ tx'.journal.status = "stale"
    BY <1>6, <1>a, <1>b, <1>c, <2>1, AdvanceTyped DEF Verify
  <2>3. tx'.strayed = {} /\ tx.stage = "verify" /\ journal' = journal
    BY <1>6, <1>a, <1>b, <1>c, <1>f, AdvanceTyped DEF Verify
  <2>. QED BY <2>2, <2>3 DEF StagesInv, Working
<1>7. CASE Remove
  <2>. DEFINE p == NextItem(tx.journal)
  <2>1. p \in Paths /\ Applied(p) \in Journals /\ Applied(p).status = tx.journal.status
    BY <1>7, <1>c, AppliedTyped DEF Remove, Applied, Journals
  <2>. HIDE DEF p
  <2>2. /\ \/ tx'.stage = "replacing" /\ tx'.journal = tx.journal
           \/ tx'.stage = "log" /\ tx'.journal = Applied(p)
        /\ tx'.strayed = tx.strayed
    BY <1>7, <1>a, <1>b, <2>1, AdvanceTyped DEF Remove, p
  <2>. QED BY <1>7, <1>f, <2>1, <2>2 DEF Remove, StagesInv, Working, Remaining
<1>8. CASE Place
  <2>. DEFINE p == NextItem(tx.journal)
  <2>1. p \in Paths /\ Applied(p) \in Journals /\ Applied(p).status = tx.journal.status
    BY <1>8, <1>c, AppliedTyped DEF Place, Applied, Journals, StagesInv
  <2>. HIDE DEF p
  <2>2. tx'.stage = "log" /\ tx'.journal = Applied(p) /\ tx'.strayed = tx.strayed
    BY <1>8, <1>b, <2>1, AdvanceTyped DEF Place, p
  <2>. QED BY <1>8, <1>f, <2>1, <2>2 DEF Place, StagesInv, Working
<1>9. CASE Log
  BY <1>9, <1>a, <1>b, <1>f, AdvanceTyped DEF Log, StagesInv, Working
<1>10. CASE Finish
  <2>1. /\ tx'.stage = "close" /\ tx'.journal = Closed(tx.journal) /\ tx'.strayed = {}
        /\ tx.stage = "next" /\ Remaining(tx.journal) = {} /\ journal' = journal
    BY <1>10, <1>b, <1>c, <1>f, AdvanceTyped DEF Finish
  <2>2. Remaining(Closed(tx.journal)) = {}
    BY <1>a, <2>1 DEF Remaining, Closed, Journals
  <2>3. Remaining(tx'.journal) = {}
    BY <2>1, <2>2
  <2>. QED BY <1>c, <2>1, <2>3 DEF StagesInv, Working, Remaining
<1>11. CASE Close \/ Abort \/ Crash \/ WriteThrows
  BY <1>11, <1>e DEF Close, Abort, Crash, WriteThrows, NoTx
<1>12. CASE Refuse \/ FailItem
  <2>1. journal'.status # "applied"
    BY <1>12, FailOutcome DEF StagesInv, NoJournal
  <2>. QED BY <1>12, <2>1, FailOutcome DEF StagesInv, Working
<1>13. CASE Restore
  <2>. DEFINE undone == [tx.journal EXCEPT !.applied = @ \ {LastApplied(tx.journal)}]
  <2>1. undone \in Journals /\ undone.status = tx.journal.status
    BY <1>c DEF Journals
  <2>2. tx'.stage = "rollback" /\ tx'.journal = undone /\ tx'.strayed = tx.strayed
    BY <1>13, <1>b, <2>1, AdvanceTyped DEF Restore
  <2>. HIDE DEF undone
  <2>. QED BY <1>13, <2>1, <2>2 DEF Restore, StagesInv, Working
<1>14. CASE RolledBack \/ RestoreBreaks
  <2>1. /\ [tx.journal EXCEPT !.status = "failed"].status = "failed"
        /\ [tx.journal EXCEPT !.status = "failed"].applied = tx.journal.applied
    BY <1>a DEF Journals
  <2>. QED BY <1>14, <1>b, <1>c, <2>1, AdvanceTyped DEF RolledBack, RestoreBreaks, StagesInv, Working
<1>15. ASSUME NEW p \in Paths, Edit(p) PROVE StagesInv'
  BY <1>15, <1>d DEF Edit
<1>16. CASE Cleanup
  BY <1>16, <1>e DEF Cleanup, NoTx
<1>17. CASE Restart \/ UNCHANGED vars
  BY <1>17, <1>d DEF Restart, vars
<1>. QED
  BY <1>1, <1>2, <1>3, <1>4, <1>5, <1>6, <1>7, <1>8, <1>9, <1>10, <1>11, <1>12, <1>13, <1>14,
     <1>15, <1>16, <1>17
  DEF Next, Answering, Entering, Applying, RollingBack

-----------------------------------------------------------------------------
(* Nobody says "merged" unless the journal says "applied".                 *)
LEMMA AnswersStep ==
  ASSUME MergeInv, [Next]_vars
  PROVE  AnswersInv'
<1>. TypeOK /\ JournalsInv /\ StagesInv /\ AnswersInv
  BY DEF MergeInv
<1>. USE DEF trees, history
<1>a. tx.journal \in Journals /\ journal \in Journals
  BY DEF TypeOK
<1>b. NoCall.result = "none" /\ NoCall.stage = "idle"
  BY DEF NoCall
<1>c. CASE /\ plan' = plan /\ calls' = calls /\ sidecars' = sidecars
           /\ journal' = journal \/ tx.stage # "none"
  BY <1>c DEF AnswersInv, StagesInv
<1>1. ASSUME NEW c \in Calls, NEW scope \in Scopes,
             NEW use \in [Paths -> {"none", "main", "child"}], Ask(c, scope, use)
      PROVE  AnswersInv'
  <2>1. /\ calls'[c].stage = "asked" /\ calls'[c].result = "none"
        /\ \A d \in Callers \ {c} : calls'[d] = calls[d]
    BY <1>1 DEF Ask, TypeOK, Calls, Callers
  <2>. QED BY <1>1, <2>1 DEF Ask, AnswersInv
<1>2. ASSUME NEW c \in Calls, Begin(c) PROVE AnswersInv'
  <2>1. /\ calls'[c].stage = "begun" /\ calls'[c].result = calls[c].result
        /\ \A d \in Callers \ {c} : calls'[d] = calls[d]
        /\ plan'.merge = "running" /\ c \in Callers
    BY <1>2 DEF Begin, TypeOK, CallStates, Calls, Callers
  <2>. QED BY <1>2, <2>1 DEF Begin, AnswersInv
<1>3. ASSUME NEW c \in Callers, Settle(c) PROVE AnswersInv'
  <2>1. /\ calls'[c] = NoCall /\ plan'.merge = calls[c].result
        /\ \A d \in Callers \ {c} : calls'[d] = calls[d]
    BY <1>3 DEF Settle, TypeOK
  <2>. QED BY <1>3, <1>b, <2>1 DEF Settle, AnswersInv
<1>4. ASSUME NEW c \in Callers, FailEntry(c) PROVE AnswersInv'
  <2>1. /\ calls'[c] = NoCall /\ \A d \in Callers \ {c} : calls'[d] = calls[d]
        /\ plan'.merge \in {plan.merge, "failed"}
    BY <1>4 DEF FailEntry, Thrown, TypeOK
  <2>2. sidecars' = sidecars /\ journal' = journal
    BY <1>4 DEF FailEntry
  <2>. QED BY <1>b, <2>1, <2>2 DEF AnswersInv
<1>5. ASSUME NEW c \in Callers, FindApplied(c) PROVE AnswersInv'
  BY <1>a, <1>5, AnswersTyped DEF FindApplied, AnswersInv
<1>6. ASSUME NEW c \in Callers, Resume(c) \/ PrepareJournal(c) PROVE AnswersInv'
  BY <1>6, <1>c DEF Resume, PrepareJournal
<1>7. CASE WriteFirst \/ Verify \/ Remove \/ Place \/ Log \/ Finish
  BY <1>7, <1>c DEF WriteFirst, Verify, Remove, Place, Log, Finish
<1>8. CASE Close
  <2>1. journal.status # "applied" /\ tx.by \in Callers
    BY <1>8 DEF Close, StagesInv, TypeOK
  <2>. QED BY <1>a, <1>8, <2>1, AnswersTyped DEF Close, AnswersInv
<1>9. CASE Refuse \/ FailItem \/ Restore \/ RolledBack \/ RestoreBreaks
  <2>1. CASE Refuse \/ FailItem
    BY <2>1, <1>c, FailOutcome
  <2>. QED BY <1>9, <1>c, <2>1 DEF Restore, RolledBack, RestoreBreaks
<1>16. CASE WriteThrows
  BY <1>16, <1>b, ThrowsOutcome DEF AnswersInv, StagesInv
<1>10. CASE Abort
  <2>1. /\ journal.status # "applied" /\ tx.by \in Callers
        /\ calls'[tx.by] = NoCall /\ \A d \in Callers \ {tx.by} : calls'[d] = calls[d]
        /\ plan'.merge \in {plan.merge, "failed"} /\ sidecars' = sidecars
    BY <1>10 DEF Abort, Thrown, StagesInv, TypeOK
  <2>. QED BY <1>b, <2>1 DEF AnswersInv
<1>11. ASSUME NEW p \in Paths, Edit(p) PROVE AnswersInv'
  BY <1>11, <1>c DEF Edit
<1>12. CASE Cleanup
  BY <1>12 DEF Cleanup, AnswersInv
<1>13. CASE Crash
  <2>1. journal' = journal \/ journal.status # "applied"
    BY <1>13 DEF Crash, StagesInv
  <2>. QED BY <1>13, <1>b, <2>1 DEF Crash, AnswersInv
<1>14. CASE Restart
  <2>1. \A c \in Callers : \/ calls'[c] = calls[c]
                           \/ calls'[c].stage = "begun" /\ calls'[c].result = "none"
    BY <1>14 DEF Restart, NoCall, TypeOK
  <2>. QED BY <1>14, <2>1 DEF Restart, AnswersInv
<1>15. CASE UNCHANGED vars
  BY <1>15, <1>c DEF vars
<1>. QED
  BY <1>1, <1>2, <1>3, <1>4, <1>5, <1>6, <1>7, <1>8, <1>9, <1>10, <1>11, <1>12, <1>13, <1>14,
     <1>15, <1>16
  DEF Next, ToolCall, Answering, Entering, Applying, RollingBack
-----------------------------------------------------------------------------
(* What one step of the transaction makes of tx, of the files in the       *)
(* middle of a replacement and of those at risk.                           *)
LEMMA RemoveOutcome ==
  ASSUME TypeOK, JournalsInv, StagesInv, Remove
  PROVE  LET p == NextItem(tx.journal)
         IN /\ p \in tx.journal.items /\ p \in Paths /\ p \notin tx.journal.applied
            /\ main[p] = tx.journal.target[p]
            /\ main'[p] = Absent /\ \A q \in Paths \ {p} : main'[q] = main[q]
            /\ InFlight = {} /\ AtRisk = {} /\ AtRisk' = InFlight'
            /\ tx'.journal.target = tx.journal.target /\ tx'.journal.items = tx.journal.items
            /\ tx'.strayed = tx.strayed /\ tx'.stage \in {"replacing", "log"}
            /\ \/ /\ InFlight' = {p} /\ tx'.journal.applied = tx.journal.applied
               \/ /\ InFlight' = {} /\ tx'.journal.applied = tx.journal.applied \cup {p}
                  /\ ~tx.journal.after[p].there
<1>. DEFINE p == NextItem(tx.journal)
<1>1. /\ tx.stage = "next" /\ Remaining(tx.journal) # {}
      /\ main[p] = tx.journal.target[p] /\ main' = [main EXCEPT ![p] = Absent]
      /\ IF tx.journal.after[p].there
         THEN Advance("replacing", tx.journal) ELSE Advance("log", Applied(p))
  BY DEF Remove
<1>2. tx.journal \in Journals /\ main \in Tree
  BY DEF TypeOK
<1>3. p \in Remaining(tx.journal)
  BY <1>1, <1>2, NextIsRemaining
<1>4. p \in tx.journal.items /\ p \in Paths /\ p \notin tx.journal.applied
  BY <1>3, InFlightIsItem DEF Remaining
<1>5. /\ Applied(p) \in Journals /\ Applied(p).target = tx.journal.target
      /\ Applied(p).items = tx.journal.items
      /\ Applied(p).applied = tx.journal.applied \cup {p}
  BY <1>2, <1>4, AppliedTyped DEF Journals
<1>6. InFlight = {} /\ AtRisk = {}
  BY <1>1 DEF InFlight, AtRisk
<1>7. CASE tx.journal.after[p].there
  <2>1. tx'.stage = "replacing" /\ tx'.journal = tx.journal /\ tx'.strayed = tx.strayed
    BY <1>1, <1>2, <1>7, AdvanceTyped DEF TxStages
  <2>2. InFlight' = {p} /\ AtRisk' = InFlight'
    BY <2>1 DEF InFlight, AtRisk
  <2>. QED BY <1>1, <1>2, <1>4, <1>6, <2>1, <2>2 DEF Tree
<1>8. CASE ~tx.journal.after[p].there
  <2>1. tx'.stage = "log" /\ tx'.journal = Applied(p) /\ tx'.strayed = tx.strayed
    BY <1>1, <1>5, <1>8, AdvanceTyped DEF TxStages
  <2>2. InFlight' = {} /\ AtRisk' = InFlight'
    BY <1>5, <2>1 DEF InFlight, AtRisk
  <2>. QED BY <1>1, <1>2, <1>4, <1>5, <1>6, <1>8, <2>1, <2>2 DEF Tree
<1>. QED BY <1>7, <1>8

LEMMA PlaceOutcome ==
  ASSUME TypeOK, JournalsInv, StagesInv, Place
  PROVE  LET p == NextItem(tx.journal)
         IN /\ p \in tx.journal.items /\ p \in Paths
            /\ main'[p] = tx.journal.after[p] /\ \A q \in Paths \ {p} : main'[q] = main[q]
            /\ InFlight = {p} /\ AtRisk = {p} /\ InFlight' = {} /\ AtRisk' = {}
            /\ tx'.stage = "log" /\ tx'.strayed = tx.strayed
            /\ tx'.journal.target = tx.journal.target /\ tx'.journal.items = tx.journal.items
            /\ tx'.journal.applied = tx.journal.applied \cup {p}
<1>. DEFINE p == NextItem(tx.journal)
<1>1. /\ tx.stage = "replacing" /\ Remaining(tx.journal) # {}
      /\ main' = [main EXCEPT ![p] = tx.journal.after[p]]
      /\ Advance("log", Applied(p))
  BY DEF Place, StagesInv
<1>2. tx.journal \in Journals /\ main \in Tree
  BY DEF TypeOK
<1>3. p \in Remaining(tx.journal)
  BY <1>1, <1>2, NextIsRemaining
<1>4. p \in tx.journal.items /\ p \in Paths
  BY <1>3, InFlightIsItem DEF Remaining
<1>5. /\ Applied(p) \in Journals /\ Applied(p).target = tx.journal.target
      /\ Applied(p).items = tx.journal.items
      /\ Applied(p).applied = tx.journal.applied \cup {p}
  BY <1>2, <1>4, AppliedTyped DEF Journals
<1>6. tx'.stage = "log" /\ tx'.journal = Applied(p) /\ tx'.strayed = tx.strayed
  BY <1>1, <1>5, AdvanceTyped DEF TxStages
<1>7. InFlight = {p} /\ AtRisk = {p} /\ InFlight' = {} /\ AtRisk' = {}
  BY <1>1, <1>5, <1>6 DEF InFlight, AtRisk
<1>. QED BY <1>1, <1>2, <1>4, <1>5, <1>6, <1>7 DEF Tree

LEMMA RestoreOutcome ==
  ASSUME TypeOK, Restore
  PROVE  LET p == LastApplied(tx.journal)
         IN /\ p \in tx.journal.applied /\ p \in Paths
            /\ main'[p] = tx.journal.target[p] /\ \A q \in Paths \ {p} : main'[q] = main[q]
            /\ InFlight = {} /\ AtRisk = tx.journal.applied
            /\ InFlight' = {} /\ AtRisk' = tx.journal.applied \ {p}
            /\ tx'.stage = "rollback" /\ tx'.strayed = tx.strayed
            /\ tx'.journal.target = tx.journal.target /\ tx'.journal.items = tx.journal.items
            /\ tx'.journal.applied = tx.journal.applied \ {p}
<1>. DEFINE p == LastApplied(tx.journal)
            undone == [tx.journal EXCEPT !.applied = @ \ {p}]
<1>1. /\ tx.stage = "rollback" /\ tx.journal.applied # {}
      /\ main' = [main EXCEPT ![p] = tx.journal.target[p]] /\ Advance("rollback", undone)
  BY DEF Restore
<1>2. tx.journal \in Journals /\ main \in Tree
  BY DEF TypeOK
<1>3. p \in tx.journal.applied /\ p \in Paths
  BY <1>1, <1>2, LastIsApplied DEF Journals
<1>4. /\ undone \in Journals /\ undone.target = tx.journal.target
      /\ undone.items = tx.journal.items /\ undone.applied = tx.journal.applied \ {p}
  BY <1>2 DEF Journals
<1>5. tx'.stage = "rollback" /\ tx'.journal = undone /\ tx'.strayed = tx.strayed
  BY <1>1, <1>4, AdvanceTyped DEF TxStages
<1>6. /\ InFlight = {} /\ AtRisk = tx.journal.applied
      /\ InFlight' = {} /\ AtRisk' = tx.journal.applied \ {p}
  BY <1>1, <1>4, <1>5 DEF InFlight, AtRisk
<1>. QED BY <1>1, <1>2, <1>3, <1>4, <1>5, <1>6 DEF Tree

LEMMA BreaksOutcome ==
  ASSUME TypeOK, RestoreBreaks
  PROVE  /\ \A q \in Paths \ exposed' : main'[q] = main[q]
         /\ exposed \subseteq exposed'
         /\ tx'.stage = "abort" /\ tx'.strayed = tx.strayed
         /\ tx'.journal = [tx.journal EXCEPT !.status = "failed"] /\ tx'.journal.status = "failed"
         /\ InFlight = {} /\ InFlight' = {} /\ AtRisk' = {}
<1>1. PICK lost :
        /\ main' = [q \in Paths |-> IF q \in lost THEN Absent ELSE main[q]]
        /\ exposed' = exposed \cup lost
  BY DEF RestoreBreaks
<1>2. tx.journal \in Journals
  BY DEF TypeOK
<1>3. /\ tx'.stage = "abort" /\ tx'.strayed = tx.strayed
      /\ tx'.journal = [tx.journal EXCEPT !.status = "failed"]
  BY <1>2, AdvanceTyped, StatusTyped DEF RestoreBreaks, TxStages, JournalStatuses
<1>4. InFlight = {} /\ InFlight' = {} /\ AtRisk' = {}
  BY <1>3 DEF RestoreBreaks, InFlight, AtRisk
<1>. QED BY <1>1, <1>2, <1>3, <1>4 DEF Journals

LEMMA CrashOutcome ==
  ASSUME TypeOK, Crash
  PROVE  /\ \A p \in Paths \ exposed' : main'[p] = main[p]
         /\ InFlight \cup exposed \subseteq exposed'
         /\ InFlight' = {} /\ AtRisk' = {}
<1>1. PICK lost :
        /\ main' = [p \in Paths |-> IF p \in lost THEN Absent ELSE main[p]]
        /\ exposed' = exposed \cup lost
        /\ tx.stage = "replacing" => lost = {NextItem(tx.journal)}
  BY DEF Crash
<1>2. tx' = NoTx
  BY DEF Crash
<1>. QED BY <1>1, <1>2 DEF InFlight, AtRisk, NoTx
-----------------------------------------------------------------------------
(* The parent's edits stay, in the files and in what a rollback restores.  *)
LEMMA EditsStep ==
  ASSUME MergeInv, [Next]_vars
  PROVE  EditsSurvive' /\ BackupsInv'
<1>. TypeOK /\ JournalsInv /\ StagesInv /\ EditsSurvive /\ BackupsInv
  BY DEF MergeInv
<1>. USE DEF trees, history
<1>a. /\ tx.journal \in Journals /\ journal \in Journals
      /\ InFlight \subseteq AtRisk /\ AtRisk \subseteq tx.journal.items
      /\ tx.journal.items \subseteq Paths
  BY InFlightIsItem DEF TypeOK, InFlight, AtRisk
<1>b. ASSUME main' = main, edits' = edits, decided \subseteq decided', exposed \subseteq exposed',
             InFlight \subseteq InFlight' \cup exposed', AtRisk' \subseteq AtRisk \cup exposed',
             AtRisk' = {} \/ tx'.journal.target = tx.journal.target
      PROVE  EditsSurvive' /\ BackupsInv'
  <2>1. EditsSurvive'
    BY <1>b DEF EditsSurvive
  <2>2. BackupsInv'
    BY <1>b DEF BackupsInv
  <2>. QED BY <2>1, <2>2
<1>c. CASE /\ main' = main /\ edits' = edits /\ exposed' = exposed /\ tx' = tx
           /\ decided \subseteq decided'
  <2>1. InFlight' = InFlight /\ AtRisk' = AtRisk
    BY <1>c DEF InFlight, AtRisk, NextItem, Remaining, Before
  <2>. QED BY <1>b, <1>c, <2>1
<1>1. ASSUME NEW c \in Calls, ToolCall(c) PROVE EditsSurvive' /\ BackupsInv'
  BY <1>1, <1>c DEF ToolCall, Ask, Begin
<1>2. ASSUME NEW c \in Callers, Answering(c) \/ FindApplied(c) PROVE EditsSurvive' /\ BackupsInv'
  BY <1>2, <1>c DEF Answering, Settle, FailEntry, FindApplied
<1>3. ASSUME NEW c \in Callers, Resume(c) PROVE EditsSurvive' /\ BackupsInv'
  <2>1. InFlight = {} /\ AtRisk' = {}
    BY <1>3 DEF Resume, Enters, NoTx, InFlight, AtRisk
  <2>. QED BY <1>3, <1>b, <2>1 DEF Resume
<1>4. ASSUME NEW c \in Callers, PrepareJournal(c) PROVE EditsSurvive' /\ BackupsInv'
  <2>1. InFlight = {} /\ AtRisk' = {}
    BY <1>4 DEF PrepareJournal, Enters, NoTx, InFlight, AtRisk
  <2>. QED BY <1>4, <1>b, <2>1 DEF PrepareJournal
<1>5. CASE WriteFirst \/ Verify \/ Finish
  <2>1. InFlight = {}
    BY <1>5 DEF WriteFirst, Verify, Finish, InFlight
  <2>2. tx'.stage \in {"empty", "verify", "next", "close"}
    BY <1>5, <1>a, AdvanceTyped, ClosedTyped, StatusTyped
    DEF WriteFirst, Verify, Finish, TxStages, JournalStatuses
  <2>3. AtRisk' = {}
    BY <2>2 DEF AtRisk, InFlight
  <2>. QED BY <1>5, <1>b, <2>1, <2>3 DEF WriteFirst, Verify, Finish
<1>6. CASE Remove
  <2>. DEFINE p == NextItem(tx.journal)
  <2>1. edits' = edits /\ decided' = decided /\ exposed' = exposed
    BY <1>6 DEF Remove
  <2>2. p \notin exposed /\ <<p, "child">> \notin decided => tx.journal.target[p].own = edits[p]
    BY <1>6, RemoveOutcome DEF EditsSurvive
  <2>3. EditsSurvive'
    <3>1. CASE InFlight' = {p}
      BY <1>6, <2>1, <3>1, RemoveOutcome DEF EditsSurvive
    <3>2. CASE InFlight' = {} /\ ~tx.journal.after[p].there
      <4>. HIDE DEF p
      <4>0. p \in tx.journal.items /\ p \in Paths /\ main'[p] = Absent
        BY <1>6, RemoveOutcome DEF p
      <4>. KeepsOwn(tx.journal, decided)
        BY DEF JournalsInv, Sound
      <4>1a. tx.journal.after[p].own = 0
        BY <3>2, <4>0 DEF KeepsOwn
      <4>1. tx.journal.after[p].own = 0 /\ main'[p].own = 0
        BY <4>0, <4>1a DEF Absent
      <4>2. p \notin exposed /\ <<p, "child">> \notin decided => edits[p] = 0
        BY <2>2, <4>0, <4>1 DEF JournalsInv, Sound, KeepsOwn
      <4>. QED BY <1>6, <2>1, <3>2, <4>1, <4>2, RemoveOutcome DEF EditsSurvive, p
    <3>. QED BY <1>6, <3>1, <3>2, RemoveOutcome
  <2>4. BackupsInv'
    BY <1>6, <2>1, <2>2, RemoveOutcome DEF BackupsInv
  <2>. QED BY <2>3, <2>4
<1>7. CASE Place
  <2>. DEFINE p == NextItem(tx.journal)
  <2>1. edits' = edits /\ decided' = decided /\ exposed' = exposed
    BY <1>7 DEF Place
  <2>2. p \notin exposed /\ <<p, "child">> \notin decided => tx.journal.after[p].own = edits[p]
    BY <1>7, PlaceOutcome DEF BackupsInv, JournalsInv, Sound, KeepsOwn
  <2>3. EditsSurvive'
    BY <1>7, <2>1, <2>2, PlaceOutcome DEF EditsSurvive
  <2>4. BackupsInv'
    BY <1>7, <2>1, PlaceOutcome DEF BackupsInv
  <2>. QED BY <2>3, <2>4
<1>8. CASE Log
  <2>1. tx'.stage = "next" /\ tx.stage = "log"
    BY <1>8, <1>a, AdvanceTyped DEF Log, TxStages
  <2>2. InFlight = {} /\ AtRisk' = {}
    BY <2>1 DEF InFlight, AtRisk
  <2>. QED BY <1>8, <1>b, <2>2 DEF Log
<1>15. CASE Refuse \/ FailItem
  <2>1. /\ InFlight' = {} /\ AtRisk' = tx.journal.applied /\ tx'.journal = tx.journal
        /\ exposed' = exposed \cup InFlight \cup Overwritten(tx.journal)
        /\ main' = main /\ edits' = edits /\ decided' = decided
    BY <1>15, FailOutcome
  <2>2. EditsSurvive'
    BY <2>1 DEF EditsSurvive
  <2>3. ASSUME NEW p \in tx.journal.applied, p \notin exposed', <<p, "child">> \notin decided
        PROVE  tx.journal.target[p].own = edits[p]
    <3>1. p \in Paths /\ p \notin exposed /\ p \notin InFlight
      BY <1>a, <2>1, <2>3 DEF Journals
    <3>2. main[p].own = edits[p]
      BY <2>3, <3>1 DEF EditsSurvive
    <3>3. main[p] \in {tx.journal.after[p], tx.journal.target[p]}
      BY <2>1, <2>3 DEF Overwritten
    <3>4. tx.journal.after[p].own = tx.journal.target[p].own
      BY <2>3, <3>1 DEF JournalsInv, Sound, KeepsOwn
    <3>. QED BY <3>2, <3>3, <3>4
  <2>4. BackupsInv'
    BY <2>1, <2>3 DEF BackupsInv
  <2>. QED BY <2>2, <2>4
<1>16. CASE WriteThrows
  BY <1>16, <1>b, ThrowsOutcome
<1>9. CASE Restore
  <2>. DEFINE p == LastApplied(tx.journal)
  <2>1. edits' = edits /\ decided' = decided /\ exposed' = exposed
    BY <1>9 DEF Restore
  <2>2. EditsSurvive'
    BY <1>9, <2>1, RestoreOutcome DEF EditsSurvive, BackupsInv
  <2>3. BackupsInv'
    BY <1>9, <2>1, RestoreOutcome DEF BackupsInv
  <2>. QED BY <2>2, <2>3
<1>10. CASE RolledBack \/ Close \/ Abort
  <2>1. tx'.stage \in {"close", "none"}
    <3>1. CASE RolledBack
      BY <3>1, <1>a, AdvanceTyped, StatusTyped DEF RolledBack, TxStages, JournalStatuses
    <3>. QED BY <1>10, <3>1 DEF Close, Abort, NoTx
  <2>2. InFlight = {} /\ AtRisk' = {}
    BY <1>10, <2>1 DEF RolledBack, Close, Abort, InFlight, AtRisk
  <2>. QED BY <1>10, <1>b, <2>2 DEF RolledBack, Close, Abort
<1>11. CASE RestoreBreaks
  <2>1. edits' = edits /\ decided' = decided
    BY <1>11 DEF RestoreBreaks
  <2>. QED BY <1>11, <2>1, BreaksOutcome DEF EditsSurvive, BackupsInv
<1>12. ASSUME NEW p \in Paths, Edit(p) PROVE EditsSurvive' /\ BackupsInv'
  <2>1. /\ main'[p].own = main[p].own + 1 /\ edits'[p] = edits[p] + 1
        /\ \A q \in Paths \ {p} : main'[q] = main[q] /\ edits'[q] = edits[q]
        /\ exposed' = exposed \cup ({p} \cap AtRisk) /\ decided' = decided /\ tx' = tx
    BY <1>12 DEF Edit, TypeOK, Tree
  <2>2. InFlight' = InFlight /\ AtRisk' = AtRisk
    BY <2>1 DEF InFlight, AtRisk, NextItem, Remaining, Before
  <2>. QED BY <1>a, <2>1, <2>2 DEF EditsSurvive, BackupsInv
<1>13. CASE Cleanup \/ Restart \/ UNCHANGED vars
  BY <1>13, <1>c DEF Cleanup, Restart, vars
<1>14. CASE Crash
  <2>1. edits' = edits /\ decided' = decided
    BY <1>14 DEF Crash
  <2>. QED BY <1>14, <2>1, CrashOutcome DEF EditsSurvive, BackupsInv
<1>. QED
  BY <1>1, <1>2, <1>3, <1>4, <1>5, <1>6, <1>7, <1>8, <1>9, <1>10, <1>11, <1>12, <1>13, <1>14,
     <1>15, <1>16
  DEF Next, Answering, Entering, Applying, RollingBack

-----------------------------------------------------------------------------
(* What a rollback does not reach was never replaced.                      *)
LEMMA UntouchedStep ==
  ASSUME MergeInv, [Next]_vars
  PROVE  UntouchedInv'
<1>. TypeOK /\ JournalsInv /\ StagesInv /\ UntouchedInv
  BY DEF MergeInv
<1>. USE DEF trees, history
<1>a. /\ tx.journal \in Journals /\ journal \in Journals
      /\ tx.journal.items \subseteq Paths /\ journal.items \subseteq Paths
  BY InFlightIsItem DEF TypeOK, Journals
<1>b. CASE tx' = tx /\ main' = main /\ exposed' = exposed
  <2>1. InFlight' = InFlight
    BY <1>b DEF InFlight, NextItem, Remaining, Before
  <2>. QED BY <1>b, <2>1 DEF UntouchedInv, Untouched, Undone
<1>c. CASE ~Untouched'
  BY <1>c DEF UntouchedInv
<1>d. ASSUME MatchesJournal(tx.journal), main' = main, tx'.journal = tx.journal
      PROVE  UntouchedInv'
  <2>1. \A p \in tx.journal.items \ tx.journal.applied : main[p] = tx.journal.target[p]
    BY <1>a, <1>d DEF MatchesJournal, JournalsInv, Sound
  <2>. QED BY <1>d, <2>1 DEF UntouchedInv, Undone
<1>1. ASSUME NEW c \in Calls, ToolCall(c) PROVE UntouchedInv'
  BY <1>1, <1>b DEF ToolCall, Ask, Begin
<1>2. ASSUME NEW c \in Callers, Answering(c) \/ FindApplied(c) PROVE UntouchedInv'
  BY <1>2, <1>b DEF Answering, Settle, FailEntry, FindApplied
<1>3. ASSUME NEW c \in Callers, Resume(c) PROVE UntouchedInv'
  BY <1>3, <1>c DEF Resume, Untouched
<1>4. ASSUME NEW c \in Callers, PrepareJournal(c) PROVE UntouchedInv'
  BY <1>4, <1>c DEF PrepareJournal, Untouched
<1>5. CASE WriteFirst \/ Finish
  <2>1. Closed(tx.journal).status \in {"applied", "conflict"}
    BY <1>a DEF Closed, Journals
  <2>2. \/ tx'.stage \in {"verify", "empty"}
        \/ tx'.stage = "close" /\ tx'.journal.status \in {"applied", "conflict"}
    BY <1>a, <1>5, <2>1, AdvanceTyped, ClosedTyped DEF WriteFirst, Finish, TxStages
  <2>. QED BY <1>c, <2>2 DEF Untouched
<1>6. CASE Verify
  <2>1. CASE MatchesJournal(tx.journal)
    <3>1. tx'.journal = tx.journal /\ main' = main
      BY <1>6, <1>a, <2>1, AdvanceTyped DEF Verify, TxStages
    <3>. QED BY <1>d, <2>1, <3>1
  <2>2. CASE ~MatchesJournal(tx.journal)
    <3>1. [tx.journal EXCEPT !.status = "stale"].status = "stale"
      BY <1>a DEF Journals
    <3>2. tx'.stage = "close" /\ tx'.journal.status = "stale"
      BY <1>6, <1>a, <2>2, <3>1, AdvanceTyped, StatusTyped DEF Verify, TxStages, JournalStatuses
    <3>. QED BY <1>c, <3>2 DEF Untouched
  <2>. QED BY <2>1, <2>2
<1>7. CASE Remove
  <2>1. Untouched /\ exposed' = exposed
    BY <1>7 DEF Remove, Untouched
  <2>. QED BY <1>7, <1>a, <2>1, RemoveOutcome DEF UntouchedInv, Undone
<1>8. CASE Place
  <2>1. Untouched /\ exposed' = exposed
    BY <1>8 DEF Place, Untouched
  <2>. QED BY <1>8, <1>a, <2>1, PlaceOutcome DEF UntouchedInv, Undone
<1>9. CASE Log
  <2>1. /\ tx'.journal = tx.journal /\ tx'.strayed = tx.strayed /\ tx.stage = "log"
        /\ Untouched /\ main' = main /\ exposed' = exposed
    BY <1>9, <1>a, AdvanceTyped DEF Log, TxStages, Untouched
  <2>. QED BY <2>1 DEF UntouchedInv, Undone, InFlight
<1>16. CASE Refuse \/ FailItem
  <2>1. /\ tx'.journal = tx.journal /\ main' = main /\ InFlight \subseteq exposed'
        /\ exposed \subseteq exposed' /\ tx.stage \in {"verify", "next", "replacing", "log", "close"}
    BY <1>16, FailOutcome
  <2>2. CASE Untouched
    <3>1. tx.stage \in {"next", "replacing", "log"}
      BY <1>16, <2>2 DEF Untouched, Refuse, FailItem
    <3>2. tx.strayed = {}
      BY <3>1 DEF StagesInv
    <3>. QED BY <2>1, <2>2, <3>2 DEF UntouchedInv, Undone
  <2>3. CASE ~Untouched
    <3>1. FailItem /\ tx.stage \in {"verify", "close"}
      BY <1>16, <2>3 DEF Untouched, Refuse, FailItem
    <3>2. CASE tx.stage = "verify" \/ tx.journal.status = "stale"
      <4>1. tx'.strayed = {p \in Remaining(tx.journal) : main[p] # tx.journal.target[p]}
        BY <3>1, <3>2 DEF FailItem, TypeOK
      <4>. QED BY <2>1, <4>1 DEF UntouchedInv, Undone, Remaining
    <3>3. CASE tx.stage = "close" /\ tx.journal.status # "stale"
      <4>1. Remaining(tx.journal) = {}
        BY <3>1, <3>3 DEF StagesInv, FailItem
      <4>. QED BY <2>1, <4>1 DEF UntouchedInv, Remaining
    <3>. QED BY <3>1, <3>2, <3>3
  <2>. QED BY <2>2, <2>3
<1>10. CASE Restore
  <2>1. Untouched /\ exposed' = exposed
    BY <1>10 DEF Restore, Untouched
  <2>. QED BY <1>10, <1>a, <2>1, RestoreOutcome DEF UntouchedInv, Undone
<1>11. CASE RolledBack
  <2>. DEFINE closed == [tx.journal EXCEPT !.status = "failed"]
  <2>1. /\ closed \in Journals /\ closed.items = tx.journal.items
        /\ closed.applied = tx.journal.applied /\ closed.target = tx.journal.target
    BY <1>a, StatusTyped DEF Journals, JournalStatuses
  <2>2. tx'.stage = "close" /\ tx'.journal = closed /\ tx'.strayed = tx.strayed
    BY <1>11, <2>1, AdvanceTyped DEF RolledBack, TxStages
  <2>3. /\ Untouched /\ InFlight = {} /\ main' = main /\ exposed' = exposed
    BY <1>11 DEF RolledBack, Untouched, InFlight
  <2>. HIDE DEF closed
  <2>. QED BY <2>1, <2>2, <2>3 DEF UntouchedInv, Undone
<1>12. CASE RestoreBreaks
  <2>1. tx'.stage = "abort"
    BY <1>12, <1>a, AdvanceTyped, StatusTyped DEF RestoreBreaks, TxStages, JournalStatuses
  <2>. QED BY <1>c, <2>1 DEF Untouched
<1>13. CASE Close \/ Abort \/ Crash \/ WriteThrows
  BY <1>13, <1>c DEF Close, Abort, Crash, WriteThrows, NoTx, Untouched
<1>14. ASSUME NEW p \in Paths, Edit(p) PROVE UntouchedInv'
  <2>1. /\ main'[p].own = main[p].own + 1
        /\ \A q \in Paths \ {p} : main'[q] = main[q]
        /\ exposed \subseteq exposed' /\ tx' = tx
    BY <1>14 DEF Edit, TypeOK, Tree
  <2>2. \A q \in Paths : main[q].own \in Nat /\ tx.journal.target[q].own \in Nat
    BY <1>a DEF TypeOK, Journals, Tree, File
  <2>3. InFlight' = InFlight
    BY <2>1 DEF InFlight, NextItem, Remaining, Before
  <2>4. \A q \in Paths : Undone(q) => Undone(q)'
    BY <2>1, <2>2 DEF Undone
  <2>. QED BY <1>a, <2>1, <2>3, <2>4 DEF UntouchedInv, Untouched
<1>15. CASE Cleanup \/ Restart \/ UNCHANGED vars
  BY <1>15, <1>b DEF Cleanup, Restart, vars
<1>. QED
  BY <1>1, <1>2, <1>3, <1>4, <1>5, <1>6, <1>7, <1>8, <1>9, <1>10, <1>11, <1>12, <1>13, <1>14,
     <1>15, <1>16
  DEF Next, Answering, Entering, Applying, RollingBack

-----------------------------------------------------------------------------
(* Nothing is planned, in memory or applied at first.                      *)
LEMMA InitEstablishes == Init => MergeInv
<1>. SUFFICES ASSUME Init PROVE MergeInv
  OBVIOUS
<1>. USE DEF Init
<1>1. PICK shape \in [Paths -> Shapes] :
        /\ base = [p \in Paths |-> shape[p].base]
        /\ child = [p \in Paths |-> shape[p].child]
        /\ main = [p \in Paths |-> shape[p].main]
  OBVIOUS
<1>2. \A p \in Paths : /\ shape[p].base \in File /\ shape[p].child \in File
                       /\ shape[p].main \in File
                       /\ shape[p].base.own = 0 /\ shape[p].child.own = 0
                       /\ shape[p].base \in {Absent, Plain}
                       /\ (shape[p].child.there \/ shape[p].child = Absent)
  BY MergeAssumption DEF MergeAssumption, Absent, Plain
<1>3. TypeOK
  BY <1>1, <1>2, NoCallTyped DEF TypeOK, Tree, File, NoTx, TxStages, Callers
<1>4. TreesInv
  BY <1>1, <1>2 DEF TreesInv
<1>5. ResolutionsInv
  BY DEF ResolutionsInv, NoCall
<1>6. JournalsInv
  BY DEF JournalsInv, Sound, KeepsOwn, NoJournal, NoTx, Absent
<1>7. StagesInv /\ AnswersInv
  BY DEF StagesInv, AnswersInv, Working, NoTx, NoJournal, NoCall
<1>8. EditsSurvive /\ BackupsInv /\ UntouchedInv
  BY DEF EditsSurvive, BackupsInv, AtRisk, InFlight, UntouchedInv, Untouched, NoTx
<1>. QED BY <1>3, <1>4, <1>5, <1>6, <1>7, <1>8 DEF MergeInv

(* What every journal of workspace-merge.ts holds and every stage may      *)
(* assume is kept by each step of a call, editor, crash and restart.       *)
THEOREM MergeInvariant == Spec => []MergeInv
<1>1. MergeInv /\ [Next]_vars => MergeInv'
  BY TypeStep, JournalsStep, StagesStep, AnswersStep, EditsStep, UntouchedStep DEF MergeInv
<1>. QED BY <1>1, InitEstablishes, PTL DEF Spec

(* Trees, journals, plan and calls stay well typed for any number of       *)
(* files, calls, edits and crashes.                                        *)
THEOREM TypeCorrect == Spec => []TypeOK
<1>1. MergeInv => TypeOK
  BY DEF MergeInv
<1>. QED BY <1>1, MergeInvariant, PTL

(* The plan calls a task merged only when its journal has been applied to  *)
(* the last item without a conflict, whoever wrote which of the two.       *)
THEOREM MergedMeansApplied == Spec => []MergedIsApplied
<1>1. MergeInv => MergedIsApplied
  BY DEF MergeInv, AnswersInv, JournalsInv, Sound, MergedIsApplied
<1>. QED BY <1>1, MergeInvariant, PTL

(* No edit of the parent is lost, unless somebody has asked for the        *)
(* child's version, except inside the replacement of that very file and by *)
(* the rollback of a transaction that had replaced it before the edit:     *)
(* whatever fails, the journal's own writes and the look at the parent     *)
(* included (applyJournal, rollbackJournal).                               *)
THEOREM ParentEditsSurvive == Spec => []EditsSurvive
<1>1. MergeInv => EditsSurvive
  BY DEF MergeInv
<1>. QED BY <1>1, MergeInvariant, PTL

(* A failed transaction has put back what it had replaced, wherever it     *)
(* failed; what it had not replaced is as planned, but for files that a    *)
(* resumed journal had found changed (rollbackJournal).                    *)
THEOREM FailureRollsBack == Spec => []FailedIsRolledBack
<1>1. MergeInv => FailedIsRolledBack
  BY DEF MergeInv, UntouchedInv, Untouched, Undone, StagesInv, InFlight, FailedIsRolledBack
<1>. QED BY <1>1, MergeInvariant, PTL
-----------------------------------------------------------------------------
(* What an applied journal leaves.                                         *)

(* The child's version or its edit; or that, or an edit made over it.      *)
HoldsIt(f, p) == f = child[p] \/ f.child > 0
Reached(f, p) == HoldsIt(f, p) \/ f.own > 0

UsesInv ==
  \A c \in Callers, p \in Paths : calls[c].use[p] # "none" => <<p, calls[c].use[p]>> \in decided

(* What a plan does to the files it replaces and to those it leaves alone. *)
Planned(j, answers) ==
  /\ \A p \in j.items : HoldsIt(j.after[p], p) /\ (j.after[p].there \/ j.after[p] = Absent)
  /\ \A p \in j.watched \ j.items :
       /\ j.after[p] = j.target[p]
       /\ \/ child[p] = base[p] \/ j.target[p] = child[p]
          \/ p \in j.conflicts \/ <<p, "main">> \in answers
PlannedInv == Planned(journal, decided) /\ Planned(tx.journal, decided)

(* Who may be where: one transaction at a time, nobody while the process   *)
(* is down, and nobody but the recovery until it has settled a journal     *)
(* that was left running.                                                  *)
CallersInv ==
  /\ tx.stage # "none" => calls[tx.by].stage = "begun"
  /\ tx.stage \in {"close", "empty", "abort"} => tx.journal.status # "running"
  /\ ~sidecars => journal.status = "none" /\ tx.stage = "none"
  /\ down => tx.stage = "none" /\ (\A c \in Callers : calls[c].stage = "idle")
  /\ calls[Recovery].stage # "idle" => \A c \in Calls : calls[c].stage = "idle"
  /\ calls[Recovery].stage = "begun" => calls[Recovery].scope = Paths
  /\ journal.status = "running" /\ tx.stage = "none" /\ ~forgotten =>
       down \/ calls[Recovery].stage = "begun"

(* A file that a call has seen in the child's version stays there, in the  *)
(* parent and in what a rollback of somebody else's journal restores.      *)
Expecting(p) == \E c \in Calls : calls[c].stage \in {"asked", "begun"} /\ calls[c].seen[p] = child[p]
Expected(p) == Expecting(p) \/ (tx.stage = "write" /\ tx.journal.target[p] = child[p])
Undoable == tx.journal.applied \cup InFlight
SeenInv ==
  ~forgotten =>
    /\ \A p \in Paths \ (exposed \cup InFlight) : Expected(p) => Reached(main[p], p)
    /\ \A p \in Undoable \ exposed : Expecting(p) => Reached(tx.journal.target[p], p)

(* While items are applied every watched file is where the journal says.   *)
Current(j, p) == IF p \in j.applied THEN j.after[p] ELSE j.target[p]
Follows(j, p) == main[p] = Current(j, p) \/ main[p].own > Current(j, p).own
PlacedInv ==
  tx.stage \in {"next", "replacing", "log"} =>
    \A p \in tx.journal.watched \ (exposed \cup InFlight) : Follows(tx.journal, p)

Arrived(p) ==
  \/ child[p] = base[p] \/ main[p].child > 0
  \/ main[p] = child[p] /\ tx.journal.after[p].own = 0
  \/ <<p, "main">> \in decided
  \/ main[p].own > tx.journal.after[p].own
AppliedInv ==
  tx.stage \in {"close", "empty"} /\ tx.journal.status = "applied" /\ ~forgotten =>
    \A p \in tx.journal.watched \ exposed : Arrived(p)

ChildInv ==
  /\ UsesInv /\ PlannedInv /\ CallersInv /\ SeenInv /\ PlacedInv /\ AppliedInv

(* The trees of the child and the baseline are frozen, what has been asked *)
(* for or lost stays so, and a forgotten journal is not remembered.        *)
LEMMA HistoryGrows ==
  ASSUME [Next]_vars
  PROVE  /\ base' = base /\ child' = child
         /\ decided \subseteq decided' /\ exposed \subseteq exposed'
         /\ forgotten => forgotten'
<1>. USE DEF trees, history
<1>1. ASSUME NEW c \in Calls, NEW scope \in Scopes,
             NEW use \in [Paths -> {"none", "main", "child"}], Ask(c, scope, use)
      PROVE  /\ base' = base /\ child' = child
             /\ decided \subseteq decided' /\ exposed' = exposed /\ forgotten' = forgotten
  BY <1>1 DEF Ask
<1>2. CASE UNCHANGED <<trees, history>>
  BY <1>2
<1>3. CASE Refuse \/ FailItem \/ RestoreBreaks \/ WriteThrows \/ Crash \/ Restart
  <2>1. CASE Refuse
    BY <2>1 DEF Refuse
  <2>5. CASE FailItem
    BY <2>5 DEF FailItem
  <2>6. CASE WriteThrows
    BY <2>6 DEF WriteThrows
  <2>4. CASE RestoreBreaks
    <3>1. UNCHANGED <<trees, decided, forgotten>> /\ \E lost : exposed' = exposed \cup lost
      BY <2>4 DEF RestoreBreaks
    <3>. QED BY <3>1
  <2>2. CASE Crash
    <3>1. /\ UNCHANGED <<trees, decided, forgotten>>
          /\ \E lost : exposed' = exposed \cup lost
      BY <2>2 DEF Crash
    <3>. QED BY <3>1
  <2>3. CASE Restart
    BY <2>3 DEF Restart
  <2>. QED BY <1>3, <2>1, <2>2, <2>3, <2>4, <2>5, <2>6
<1>4. ASSUME NEW p \in Paths, Edit(p)
      PROVE  /\ base' = base /\ child' = child /\ decided' = decided
             /\ exposed \subseteq exposed' /\ forgotten' = forgotten
  BY <1>4 DEF Edit
<1>5. ASSUME NEW c \in Callers,
             \/ Begin(c) \/ Settle(c) \/ FindApplied(c) \/ Resume(c) \/ PrepareJournal(c)
      PROVE  UNCHANGED <<trees, history>>
  BY <1>5 DEF Begin, Settle, FindApplied, Resume, PrepareJournal
<1>8. ASSUME NEW c \in Callers, FailEntry(c)
      PROVE  UNCHANGED <<trees, decided, exposed>> /\ (forgotten => forgotten')
  BY <1>8 DEF FailEntry
<1>6. CASE \/ WriteFirst \/ Verify \/ Remove \/ Place \/ Log \/ Finish \/ Close
           \/ Restore \/ RolledBack \/ Abort \/ Cleanup \/ UNCHANGED vars
  BY <1>2, <1>6 DEF WriteFirst, Verify, Remove, Place, Log, Finish, Close, Restore, RolledBack,
                    Abort, Cleanup, vars
<1>7. Calls \subseteq Callers
  BY DEF Callers
<1>. QED
  BY <1>1, <1>2, <1>3, <1>4, <1>5, <1>6, <1>7, <1>8
  DEF Next, ToolCall, Answering, Entering, Applying, RollingBack

(* A step resumes a journal, goes on with one, drops it, or plans afresh.  *)
SamePlan(j, k) ==
  /\ j.items = k.items /\ j.watched = k.watched /\ j.conflicts = k.conflicts
  /\ j.after = k.after /\ j.target = k.target

(* A step plans a journal anew, loads the one on disk, drops it or leaves  *)
(* its plan as it is.                                                      *)
LEMMA PlansStay ==
  ASSUME MergeInv, [Next]_vars
  PROVE  /\ \/ SamePlan(tx'.journal, tx.journal)
            \/ SamePlan(tx'.journal, journal)
            \/ tx'.journal = NoJournal
            \/ \E c \in Callers : PrepareJournal(c)
         /\ journal' \in {journal, tx.journal, NoJournal}
<1>. TypeOK /\ StagesInv /\ JournalsInv
  BY DEF MergeInv
<1>. USE DEF trees, history
<1>a. tx.journal \in Journals /\ journal \in Journals
  BY DEF TypeOK
<1>b. \A s \in {"none", "write", "verify", "next", "replacing", "log", "rollback", "close",
                 "abort", "empty"} : s \in TxStages
  BY DEF TxStages
<1>c. /\ SamePlan(tx.journal, tx.journal)
      /\ Closed(tx.journal) \in Journals /\ SamePlan(Closed(tx.journal), tx.journal)
      /\ \A status \in {"stale", "failed"} :
           /\ [tx.journal EXCEPT !.status = status] \in Journals
           /\ SamePlan([tx.journal EXCEPT !.status = status], tx.journal)
           /\ SamePlan([journal EXCEPT !.status = status], journal)
  BY <1>a, ClosedTyped, StatusTyped DEF SamePlan, Closed, Journals, JournalStatuses
<1>d. \A p \in Paths : Applied(p) \in Journals /\ SamePlan(Applied(p), tx.journal)
  BY <1>a, AppliedTyped DEF SamePlan, Journals
<1>e. \A p : /\ [tx.journal EXCEPT !.applied = @ \ {p}] \in Journals
             /\ SamePlan([tx.journal EXCEPT !.applied = @ \ {p}], tx.journal)
  BY <1>a, RestoredTyped DEF SamePlan, Journals
<1>f. Remaining(tx.journal) # {} => NextItem(tx.journal) \in Paths
  BY <1>a, NextIsRemaining, InFlightIsItem
<1>1. ASSUME NEW c \in Calls, ToolCall(c)
      PROVE  tx' = tx /\ journal' = journal
  BY <1>1 DEF ToolCall, Ask, Begin
<1>2. ASSUME NEW c \in Callers, Answering(c) \/ FindApplied(c)
      PROVE  tx' = tx /\ journal' = journal
  BY <1>2 DEF Answering, Settle, FailEntry, FindApplied
<1>3. ASSUME NEW c \in Callers, Resume(c)
      PROVE  SamePlan(tx'.journal, journal) /\ journal' = journal
  BY <1>3, <1>c DEF Resume, SamePlan
<1>4. ASSUME NEW c \in Callers, PrepareJournal(c) PROVE journal' = journal
  BY <1>4 DEF PrepareJournal
<1>5. CASE WriteFirst
  BY <1>5, <1>a, <1>b, <1>c, AdvanceTyped DEF WriteFirst
<1>6. CASE Verify
  BY <1>6, <1>a, <1>b, <1>c, AdvanceTyped DEF Verify
<1>7. CASE Remove
  BY <1>7, <1>a, <1>b, <1>c, <1>d, <1>f, AdvanceTyped DEF Remove
<1>8. CASE Place
  BY <1>8, <1>b, <1>d, <1>f, AdvanceTyped DEF Place, StagesInv
<1>9. CASE Log
  BY <1>9, <1>a, <1>b, <1>c, AdvanceTyped DEF Log
<1>16. CASE Refuse \/ FailItem
  BY <1>16, <1>c, FailOutcome
<1>10. CASE Finish
  BY <1>10, <1>b, <1>c, AdvanceTyped DEF Finish
<1>11. CASE Close \/ Abort \/ Crash \/ WriteThrows
  BY <1>11, ThrowsOutcome DEF Close, Abort, Crash, NoTx
<1>12. CASE Restore
  BY <1>12, <1>b, <1>e, AdvanceTyped DEF Restore
<1>13. CASE RolledBack \/ RestoreBreaks
  BY <1>13, <1>b, <1>c, AdvanceTyped DEF RolledBack, RestoreBreaks
<1>14. ASSUME NEW p \in Paths, Edit(p) PROVE tx' = tx /\ journal' = journal
  BY <1>14 DEF Edit
<1>15. CASE Cleanup \/ Restart \/ UNCHANGED vars
  BY <1>15, <1>c DEF Cleanup, Restart, vars
<1>. QED
  BY <1>c, <1>1, <1>2, <1>3, <1>4, <1>5, <1>6, <1>7, <1>8, <1>9, <1>10, <1>11, <1>12, <1>13, <1>14,
     <1>15, <1>16
  DEF Next, Answering, Entering, Applying, RollingBack

(* A fresh plan brings every path it does not leave alone to the child's   *)
(* version, and leaves alone only what needs nothing.                      *)
LEMMA OutcomeReaches ==
  ASSUME TypeOK, TreesInv, NEW p \in Paths, NEW m \in File, NEW use
  PROVE  /\ Outcome(p, m, use) # m =>
              /\ HoldsIt(Outcome(p, m, use), p)
              /\ Outcome(p, m, use).there \/ Outcome(p, m, use) = Absent
         /\ Outcome(p, m, use) = m =>
              \/ child[p] = base[p] \/ m = child[p]
              \/ Conflicting(p, m) /\ use # "child"
<1>. USE DEF TypeOK, Tree, TreesInv
<1>a. base[p] \in File /\ child[p] \in File
  OBVIOUS
<1>1. CASE Kept(p, m)
  BY <1>1 DEF Outcome, Kept
<1>2. CASE ~Kept(p, m) /\ m = base[p]
  BY <1>2 DEF Outcome, Kept, HoldsIt
<1>3. CASE ~Kept(p, m) /\ m # base[p] /\ TextMergeable(p, m)
  <2>1. Outcome(p, m, use) = MergedText(p, m)
    BY <1>3 DEF Outcome
  <2>2. base[p] = Plain /\ child[p].child \in Nat /\ child[p].own = 0 /\ child[p].there
    BY <1>a, <1>3 DEF TextMergeable, Absent, File
  <2>3. child[p].child # 0
    <3>1. child[p] = [there |-> child[p].there, own |-> child[p].own, child |-> child[p].child]
      BY <1>a DEF File
    <3>. QED BY <1>3, <2>2, <3>1 DEF Kept, Plain
  <2>4. /\ MergedText(p, m).child = m.child + child[p].child /\ m.child \in Nat
        /\ MergedText(p, m).there = m.there
    BY DEF MergedText, File
  <2>. QED BY <1>3, <2>1, <2>2, <2>3, <2>4 DEF HoldsIt, TextMergeable
<1>4. CASE ~Kept(p, m) /\ m # base[p] /\ ~TextMergeable(p, m)
  BY <1>4 DEF Outcome, Kept, HoldsIt, Conflicting
<1>. QED BY <1>1, <1>2, <1>3, <1>4

(* What prepareJournal plans: an item brings the child's work, and a path  *)
(* without one needs none, is a conflict or was resolved for the parent.   *)
LEMMA FreshIsPlanned ==
  ASSUME TypeOK, TreesInv, UsesInv, CallersInv, NEW c \in Callers, calls[c].stage = "begun",
         NEW seen \in Tree
  PROVE  Planned(Fresh(c, seen), decided)
<1>. DEFINE after == [p \in Paths |-> Outcome(p, seen[p], calls[c].use[p])]
            items == {p \in calls[c].scope : after[p] # seen[p]}
            conflicts == {p \in calls[c].scope : Conflicting(p, seen[p])
                                                   /\ calls[c].use[p] = "none"}
<1>1. /\ Fresh(c, seen).after = after /\ Fresh(c, seen).target = seen
      /\ Fresh(c, seen).items = items /\ Fresh(c, seen).watched = Watched(c, seen)
      /\ Fresh(c, seen).conflicts = conflicts
  BY DEF Fresh
<1>2. calls[c] \in CallStates
  BY DEF TypeOK
<1>3. calls[c].scope \subseteq Paths /\ Watched(c, seen) \subseteq calls[c].scope
  BY <1>2 DEF CallStates, Watched, CallersInv
<1>4. ASSUME NEW p \in Paths
      PROVE  /\ after[p] # seen[p] =>
                  HoldsIt(after[p], p) /\ (after[p].there \/ after[p] = Absent)
             /\ after[p] = seen[p] =>
                  \/ child[p] = base[p] \/ seen[p] = child[p]
                  \/ Conflicting(p, seen[p]) /\ calls[c].use[p] # "child"
  <2>1. seen[p] \in File
    BY DEF Tree
  <2>. QED BY <2>1, OutcomeReaches
<1>5. \A p \in Paths : calls[c].use[p] \in {"none", "main", "child"}
  BY <1>2 DEF CallStates
<1>6. \A p \in calls[c].scope \ items :
        /\ after[p] = seen[p]
        /\ child[p] = base[p] \/ seen[p] = child[p] \/ p \in conflicts \/ <<p, "main">> \in decided
  BY <1>3, <1>4, <1>5 DEF UsesInv
<1>7. \A p \in items : HoldsIt(after[p], p) /\ (after[p].there \/ after[p] = Absent)
  BY <1>3, <1>4
<1>. HIDE DEF after, items, conflicts
<1>. QED BY <1>1, <1>3, <1>6, <1>7 DEF Planned

(* Every journal, on disk or in memory, was planned by prepareJournal.     *)
LEMMA PlannedStep ==
  ASSUME MergeInv, ChildInv, [Next]_vars
  PROVE  PlannedInv'
<1>. TypeOK /\ TreesInv /\ UsesInv /\ CallersInv /\ PlannedInv
  BY DEF MergeInv, ChildInv
<1>1. child' = child /\ base' = base /\ decided \subseteq decided'
  BY HistoryGrows
<1>2. \A j, k : SamePlan(j, k) /\ Planned(k, decided) => Planned(j, decided)'
  BY <1>1 DEF SamePlan, Planned, HoldsIt
<1>3. Planned(NoJournal, decided)'
  BY DEF Planned, NoJournal
<1>4. Planned(journal, decided)'
  BY <1>2, <1>3, PlansStay DEF SamePlan, PlannedInv
<1>5. ASSUME NEW c \in Callers, PrepareJournal(c) PROVE Planned(tx.journal, decided)'
  <2>1. (IF c = Recovery THEN main ELSE calls[c].seen) \in Tree
    BY DEF TypeOK, CallStates
  <2>2. Planned(tx'.journal, decided)
    BY <1>5, <2>1, FreshIsPlanned DEF PrepareJournal, Enters
  <2>. QED BY <1>2, <2>2 DEF SamePlan
<1>6. Planned(tx.journal, decided)'
  BY <1>2, <1>3, <1>5, PlansStay DEF PlannedInv
<1>. QED BY <1>4, <1>6 DEF PlannedInv

(* Whoever has asked for a side of a path is on record.                    *)
LEMMA UsesStep ==
  ASSUME MergeInv, ChildInv, [Next]_vars
  PROVE  UsesInv'
<1>. TypeOK /\ UsesInv
  BY DEF MergeInv, ChildInv
<1>. USE DEF trees, history
<1>a. tx.journal \in Journals /\ journal \in Journals
  BY DEF TypeOK
<1>b. decided \subseteq decided'
  BY HistoryGrows
<1>c. ASSUME \A c \in Callers : calls'[c].use = calls[c].use \/ calls'[c].use = NoCall.use
      PROVE  UsesInv'
  BY <1>b, <1>c DEF UsesInv, NoCall
<1>d. ASSUME calls' = calls \/ \E c \in Callers : calls' = [calls EXCEPT ![c] = NoCall]
      PROVE  UsesInv'
  BY <1>c, <1>d DEF TypeOK
<1>1. ASSUME NEW c \in Calls, NEW scope \in Scopes,
             NEW use \in [Paths -> {"none", "main", "child"}], Ask(c, scope, use)
      PROVE  UsesInv'
  BY <1>1, <1>b DEF Ask, UsesInv, TypeOK, Calls, Callers
<1>2. ASSUME NEW c \in Calls, Begin(c) PROVE UsesInv'
  <2>1. \A d \in Callers : calls'[d].use = calls[d].use
    BY <1>2 DEF Begin, TypeOK, CallStates
  <2>. QED BY <1>c, <2>1
<1>3. ASSUME NEW c \in Callers, NEW j \in Journals, Answers(c, j) PROVE UsesInv'
  BY <1>3, <1>c, AnswersTyped
<1>4. CASE Close
  BY <1>4, <1>a, <1>3 DEF Close, TypeOK
<1>5. ASSUME NEW c \in Callers, FindApplied(c) PROVE UsesInv'
  BY <1>5, <1>a, <1>3 DEF FindApplied
<1>6. CASE Abort
  BY <1>6, <1>d DEF Abort, Thrown, TypeOK
<1>7. CASE Crash
  BY <1>7, <1>c DEF Crash
<1>8. CASE Restart
  <2>1. \A c \in Callers : calls'[c].use = calls[c].use \/ calls'[c].use = NoCall.use
    BY <1>8 DEF Restart, NoCall, TypeOK
  <2>. QED BY <1>c, <2>1
<1>9. ASSUME NEW c \in Callers, Settle(c) \/ FailEntry(c) PROVE UsesInv'
  BY <1>9, <1>d DEF Settle, FailEntry, Thrown
<1>10. ASSUME NEW c \in Callers, Resume(c) \/ PrepareJournal(c) PROVE UsesInv'
  BY <1>10, <1>d DEF Resume, PrepareJournal
<1>11. ASSUME NEW p \in Paths, Edit(p) PROVE UsesInv'
  BY <1>11, <1>d DEF Edit
<1>13. CASE WriteThrows
  BY <1>13, <1>d, ThrowsOutcome DEF Thrown
<1>12. CASE \/ WriteFirst \/ Verify \/ Remove \/ Place \/ Log \/ Finish \/ Refuse \/ FailItem
            \/ Restore \/ RolledBack \/ RestoreBreaks \/ Cleanup \/ UNCHANGED vars
  BY <1>12, <1>d DEF WriteFirst, Verify, Remove, Place, Log, Finish, Refuse, FailItem, Restore,
                     RolledBack, RestoreBreaks, Cleanup, vars
<1>. QED
  BY <1>1, <1>2, <1>4, <1>5, <1>6, <1>7, <1>8, <1>9, <1>10, <1>11, <1>12, <1>13
  DEF Next, ToolCall, Answering, Entering, Applying, RollingBack

(* The calls, the transaction and the recovery stay out of each other's    *)
(* way.                                                                    *)
LEMMA CallersStep ==
  ASSUME MergeInv, ChildInv, [Next]_vars
  PROVE  CallersInv'
<1>. TypeOK /\ JournalsInv /\ StagesInv /\ CallersInv
  BY DEF MergeInv, ChildInv
<1>. USE DEF trees, history
<1>a. tx.journal \in Journals /\ journal \in Journals
  BY DEF TypeOK
<1>b. \A s \in {"none", "write", "verify", "next", "replacing", "log", "rollback", "close",
                 "abort", "empty"} : s \in TxStages
  BY DEF TxStages
<1>c. /\ NoCall.stage = "idle" /\ NoTx.stage = "none" /\ NoJournal.status = "none"
      /\ Recovery \notin Calls /\ Recovery \in Callers /\ Calls \subseteq Callers
      /\ \A c \in Callers : c # Recovery => c \in Calls
  BY DEF NoCall, NoTx, NoJournal, Calls, Callers, Recovery
<1>d. /\ Closed(tx.journal) \in Journals /\ Closed(tx.journal).status # "running"
      /\ \A status \in {"stale", "failed"} :
           /\ [tx.journal EXCEPT !.status = status] \in Journals
           /\ [tx.journal EXCEPT !.status = status].status # "running"
           /\ [journal EXCEPT !.status = status].status # "running"
  <2>1. \A status \in {"stale", "failed"} :
          /\ [tx.journal EXCEPT !.status = status].status = status
          /\ [journal EXCEPT !.status = status].status = status
    BY <1>a DEF Journals
  <2>2. Closed(tx.journal).status \in {"applied", "conflict"}
    BY <1>a DEF Closed, Journals
  <2>. QED BY <1>a, <2>1, <2>2, ClosedTyped, StatusTyped DEF JournalStatuses
<1>e. \A p \in Paths : Applied(p) \in Journals
  BY AppliedTyped
<1>f. \A p : [tx.journal EXCEPT !.applied = @ \ {p}] \in Journals
  BY <1>a, RestoredTyped
<1>g. Remaining(tx.journal) # {} => NextItem(tx.journal) \in Paths
  BY <1>a, NextIsRemaining, InFlightIsItem
<1>h. ASSUME NEW stage \in {"empty", "verify", "next", "replacing", "log", "rollback", "close",
                               "abort"},
             NEW j \in Journals, Advance(stage, j), tx.stage # "none",
             stage \in {"close", "empty", "abort"} => j.status # "running",
             calls' = calls, sidecars' = sidecars, down' = down
      PROVE  CallersInv'
  <2>1. tx'.stage = stage /\ tx'.by = tx.by /\ tx'.journal = j
    BY <1>b, <1>h, AdvanceTyped
  <2>2. sidecars /\ ~down
    BY <1>h DEF CallersInv
  <2>. QED BY <1>h, <2>1, <2>2 DEF CallersInv
(* A caller that leaves the journal settled behind it.                     *)
<1>i. ASSUME NEW c \in Callers, calls[c].stage \notin {"idle", "asked"},
             calls'[c].stage \in {"idle", "answered"}, \A d \in Callers \ {c} : calls'[d] = calls[d],
             tx'.stage = "none", sidecars' = sidecars, down' = down, forgotten' = forgotten,
             \/ journal' = journal /\ tx.stage = "none"
             \/ sidecars /\ journal'.status # "running",
             c = Recovery /\ calls[c].stage = "begun" => journal'.status # "running"
      PROVE  CallersInv'
  BY <1>c, <1>i DEF CallersInv
<1>1. ASSUME NEW c \in Calls, NEW scope \in Scopes,
             NEW use \in [Paths -> {"none", "main", "child"}], Ask(c, scope, use)
      PROVE  CallersInv'
  <2>1. /\ calls[Recovery].stage = "idle" /\ ~down /\ c \in Callers
        /\ \A d \in Callers \ {c} : calls'[d] = calls[d]
        /\ tx' = tx /\ tx.stage = "none" /\ journal' = journal /\ sidecars' = sidecars
        /\ down' = down /\ forgotten' = forgotten
    BY <1>1, <1>c DEF Ask, Up, TypeOK
  <2>. QED BY <2>1, <1>c DEF CallersInv
<1>2. ASSUME NEW c \in Calls, Begin(c) PROVE CallersInv'
  <2>1. /\ calls[c].stage = "asked" /\ c \in Callers
        /\ \A d \in Callers \ {c} : calls'[d] = calls[d]
        /\ tx' = tx /\ tx.stage = "none" /\ journal' = journal /\ sidecars' = sidecars
        /\ down' = down /\ forgotten' = forgotten
    BY <1>2, <1>c DEF Begin, TypeOK
  <2>. QED BY <2>1, <1>c DEF CallersInv
<1>3. ASSUME NEW c \in Callers, Settle(c) PROVE CallersInv'
  <2>1. /\ calls[c].stage = "answered" /\ calls'[c] = NoCall
        /\ \A d \in Callers \ {c} : calls'[d] = calls[d]
    BY <1>3 DEF Settle, TypeOK
  <2>2. /\ tx.stage = "none" /\ tx'.stage = "none" /\ journal' = journal
        /\ sidecars' = sidecars /\ down' = down /\ forgotten' = forgotten
        /\ calls'[c].stage = "idle"
    BY <1>3, <1>c, <2>1 DEF Settle
  <2>3. \A d \in Callers : calls'[d] = calls[d] \/ (d = c /\ calls'[d].stage = "idle")
    BY <2>1, <2>2
  <2>. QED BY <1>c, <2>1, <2>2, <2>3 DEF CallersInv
<1>4. ASSUME NEW c \in Callers, FailEntry(c) PROVE CallersInv'
  <2>1. /\ calls[c].stage = "begun" /\ calls'[c] = NoCall
        /\ \A d \in Callers \ {c} : calls'[d] = calls[d]
        /\ tx.stage = "none" /\ ~down
    BY <1>4, <1>c DEF FailEntry, Enters, Thrown, TypeOK, CallersInv
  <2>2. /\ tx' = tx /\ journal' = journal /\ sidecars' = sidecars /\ down' = down
        /\ forgotten' = (forgotten \/ journal.status = "running")
    BY <1>4 DEF FailEntry
  <2>. QED BY <1>c, <2>1, <2>2 DEF CallersInv
<1>5. ASSUME NEW c \in Callers, FindApplied(c) PROVE CallersInv'
  <2>1. /\ calls[c].stage = "begun" /\ calls'[c].stage = "answered"
        /\ \A d \in Callers \ {c} : calls'[d] = calls[d]
    BY <1>5, <1>a, AnswersTyped DEF FindApplied, Enters, Answers, TypeOK, NoCall
  <2>. QED BY <1>5, <1>c, <1>i, <2>1 DEF FindApplied, Enters
<1>6. ASSUME NEW c \in Callers, Resume(c) PROVE CallersInv'
  <2>1. calls[c].stage = "begun" /\ sidecars /\ ~down /\ tx'.by = c /\ tx'.stage = "verify"
    BY <1>6 DEF Resume, Enters, CallersInv
  <2>. QED BY <1>6, <2>1 DEF Resume, CallersInv
<1>7. ASSUME NEW c \in Callers, PrepareJournal(c) PROVE CallersInv'
  <2>1. calls[c].stage = "begun" /\ sidecars /\ ~down /\ tx'.by = c /\ tx'.stage = "write"
    BY <1>7 DEF PrepareJournal, Enters, CallersInv
  <2>. QED BY <1>7, <2>1 DEF PrepareJournal, CallersInv
<1>8. CASE WriteFirst
  BY <1>8, <1>a, <1>d, <1>h DEF WriteFirst
<1>9. CASE Verify
  BY <1>9, <1>a, <1>d, <1>h DEF Verify
<1>10. CASE Remove
  BY <1>10, <1>a, <1>e, <1>g, <1>h DEF Remove
<1>11. CASE Place
  BY <1>11, <1>e, <1>g, <1>h DEF Place, StagesInv
<1>12. CASE Log
  BY <1>12, <1>a, <1>h DEF Log
<1>23. CASE Refuse \/ FailItem
  <2>1. tx.stage # "none" /\ tx'.stage = "rollback" /\ tx'.by = tx.by
    BY <1>23, FailOutcome
  <2>2. sidecars /\ ~down
    BY <2>1 DEF CallersInv
  <2>3. /\ calls' = calls /\ sidecars' = sidecars /\ down' = down /\ forgotten' = forgotten
    BY <1>23, FailOutcome
  <2>4. calls[tx.by].stage = "begun"
    BY <2>1 DEF CallersInv
  <2>. QED BY <2>1, <2>2, <2>3, <2>4 DEF CallersInv
<1>24. CASE WriteThrows
  <2>1. calls[tx.by].stage = "begun" /\ sidecars /\ ~down /\ tx.by \in Callers
    BY <1>24, ThrowsOutcome DEF CallersInv
  <2>2. /\ tx' = NoTx /\ sidecars' = sidecars /\ down' = down
        /\ forgotten' = (forgotten \/ journal'.status = "running")
        /\ calls'[tx.by] = NoCall /\ \A d \in Callers \ {tx.by} : calls'[d] = calls[d]
    BY <1>24, ThrowsOutcome
  <2>3. \A d \in Callers : calls'[d] = calls[d] \/ calls'[d].stage = "idle"
    BY <1>c, <2>2
  <2>. QED BY <1>c, <2>1, <2>2, <2>3 DEF CallersInv
<1>13. CASE Finish
  BY <1>13, <1>d, <1>h DEF Finish
<1>14. CASE Restore
  BY <1>14, <1>f, <1>h DEF Restore
<1>15. CASE RolledBack \/ RestoreBreaks
  BY <1>15, <1>d, <1>h DEF RolledBack, RestoreBreaks
<1>16. CASE Close
  <2>1. /\ tx.by \in Callers /\ calls[tx.by].stage = "begun" /\ sidecars
        /\ tx.journal.status # "running"
    BY <1>16 DEF Close, TypeOK, CallersInv
  <2>2. calls'[tx.by].stage = "answered" /\ \A d \in Callers \ {tx.by} : calls'[d] = calls[d]
    BY <1>16, <1>a, <2>1, AnswersTyped DEF Close, Answers, TypeOK, NoCall
  <2>. QED BY <1>16, <1>c, <1>i, <2>1, <2>2 DEF Close
<1>17. CASE Abort
  <2>1. /\ tx.by \in Callers /\ calls[tx.by].stage = "begun" /\ sidecars
        /\ tx.journal.status # "running"
    BY <1>17 DEF Abort, TypeOK, CallersInv
  <2>2. calls'[tx.by] = NoCall /\ \A d \in Callers \ {tx.by} : calls'[d] = calls[d]
    BY <1>17, <2>1 DEF Abort, Thrown, TypeOK
  <2>. QED BY <1>17, <1>c, <1>i, <2>1, <2>2 DEF Abort
<1>18. ASSUME NEW p \in Paths, Edit(p) PROVE CallersInv'
  BY <1>18 DEF Edit, CallersInv
<1>19. CASE Cleanup
  BY <1>19, <1>c DEF Cleanup, Up, CallersInv
<1>20. CASE Crash
  <2>1. journal' \in {journal, NoJournal} /\ (~sidecars => journal' = journal)
    BY <1>20 DEF Crash, CallersInv
  <2>. QED BY <1>20, <1>c, <2>1 DEF Crash, CallersInv
<1>21. CASE Restart
  <2>1. /\ down /\ ~down' /\ tx' = tx /\ journal' = journal /\ sidecars' = sidecars
        /\ tx.stage = "none" /\ \A c \in Callers : calls[c].stage = "idle"
    BY <1>21 DEF Restart, CallersInv
  <2>2. CASE plan.merge = "running"
    <3>1. /\ calls'[Recovery].stage = "begun" /\ calls'[Recovery].scope = Paths
          /\ \A c \in Calls : calls'[c] = calls[c]
      BY <1>21, <1>c, <2>2 DEF Restart, TypeOK, NoCall
    <3>. QED BY <1>c, <2>1, <3>1 DEF CallersInv
  <2>3. CASE plan.merge # "running"
    <3>1. calls' = calls /\ (journal.status = "running" => forgotten')
      BY <1>21, <2>3 DEF Restart
    <3>. QED BY <1>c, <2>1, <3>1 DEF CallersInv
  <2>. QED BY <2>2, <2>3
<1>22. CASE UNCHANGED vars
  BY <1>22 DEF vars, CallersInv
<1>. QED
  BY <1>1, <1>2, <1>3, <1>4, <1>5, <1>6, <1>7, <1>8, <1>9, <1>10, <1>11, <1>12, <1>13, <1>14,
     <1>15, <1>16, <1>17, <1>18, <1>19, <1>20, <1>21, <1>22, <1>23, <1>24
  DEF Next, ToolCall, Answering, Entering, Applying, RollingBack

(* A file seen in the child's version is not taken away from it behind the *)
(* back of the call that saw it.                                           *)
LEMMA SeenStep ==
  ASSUME MergeInv, ChildInv, [Next]_vars
  PROVE  SeenInv'
<1>. TypeOK /\ JournalsInv /\ StagesInv /\ PlannedInv /\ CallersInv /\ SeenInv
  BY DEF MergeInv, ChildInv
<1>. USE DEF trees, history
<1>a. /\ child' = child /\ exposed \subseteq exposed' /\ (forgotten => forgotten')
      /\ \A f, p : (Reached(f, p) => Reached(f, p)') /\ (HoldsIt(f, p) => Reached(f, p)')
  BY HistoryGrows DEF Reached, HoldsIt
<1>. SUFFICES ASSUME ~forgotten' PROVE SeenInv'
  BY DEF SeenInv
<1>b. /\ tx.journal \in Journals /\ journal \in Journals
      /\ InFlight \subseteq Paths /\ Undoable \subseteq Paths
      /\ NoCall.stage = "idle" /\ NoTx.stage = "none"
      /\ NoTx.journal.applied = {}
  BY InFlightIsItem DEF TypeOK, NoCall, NoTx, NoJournal, Undoable, Journals
<1>c. \A s \in {"none", "write", "verify", "next", "replacing", "log", "rollback", "close",
                 "abort", "empty"} : s \in TxStages
  BY DEF TxStages
<1>d. /\ \A p \in Paths \ (exposed \cup InFlight) : Expected(p) => Reached(main[p], p)
      /\ \A p \in Undoable \ exposed : Expecting(p) => Reached(tx.journal.target[p], p)
  BY <1>a DEF SeenInv
<1>e. ASSUME main' = main, \A p \in Paths : Expecting(p)' => Expecting(p),
             InFlight \subseteq InFlight' \cup exposed',
             tx'.stage = "write" => tx' = tx,
             Undoable' \subseteq Undoable,
             Undoable' = {} \/ tx'.journal.target = tx.journal.target
      PROVE  SeenInv'
  BY <1>a, <1>b, <1>d, <1>e DEF SeenInv, Expected
<1>f. ASSUME tx' = tx PROVE InFlight' = InFlight /\ Undoable' = Undoable
  BY <1>f DEF InFlight, Undoable, NextItem, Remaining, Before
<1>g. ASSUME \A c \in Calls : calls'[c] = calls[c] \/ calls'[c].stage \notin {"asked", "begun"}
      PROVE  \A p \in Paths : Expecting(p)' => Expecting(p)
  BY <1>a, <1>g DEF Expecting
<1>h. ASSUME tx' = tx, main' = main,
             \A c \in Calls : calls'[c] = calls[c] \/ calls'[c].stage \notin {"asked", "begun"}
      PROVE  SeenInv'
  BY <1>e, <1>f, <1>g, <1>h
<1>i. ASSUME main' = main, calls' = calls, InFlight = {}, tx'.stage \notin {"write", "replacing"},
             tx'.journal.applied \subseteq tx.journal.applied,
             tx'.journal.target = tx.journal.target
      PROVE  SeenInv'
  <2>1. Undoable' \subseteq Undoable
    BY <1>i DEF Undoable, InFlight
  <2>. QED BY <1>e, <1>g, <1>i, <2>1
<1>j. /\ Closed(tx.journal) \in Journals
      /\ Closed(tx.journal).applied = tx.journal.applied
      /\ Closed(tx.journal).target = tx.journal.target
      /\ \A status \in {"stale", "failed"} :
           /\ [tx.journal EXCEPT !.status = status] \in Journals
           /\ [tx.journal EXCEPT !.status = status].applied = tx.journal.applied
           /\ [tx.journal EXCEPT !.status = status].target = tx.journal.target
  BY <1>b, ClosedTyped, StatusTyped DEF Closed, Journals, JournalStatuses
<1>k. tx.stage = "none" => InFlight = {}
  BY DEF InFlight
<1>1. ASSUME NEW c \in Calls, NEW scope \in Scopes,
             NEW use \in [Paths -> {"none", "main", "child"}], Ask(c, scope, use)
      PROVE  SeenInv'
  <2>1. /\ tx' = tx /\ tx = NoTx /\ tx.stage = "none" /\ main' = main /\ exposed' = exposed
        /\ calls'[c].seen = main /\ \A d \in Calls \ {c} : calls'[d] = calls[d]
    BY <1>1, <1>b DEF Ask, TypeOK, Calls, Callers
  <2>2. \A p \in Paths : Expected(p)' => Expected(p) \/ main[p] = child[p]
    BY <1>a, <2>1 DEF Expected, Expecting
  <2>3. \A p \in Paths : main[p] = child[p] => Reached(main[p], p)
    BY DEF Reached, HoldsIt
  <2>4. InFlight = {} /\ Undoable' = {}
    BY <1>b, <1>f, <2>1 DEF InFlight, Undoable
  <2>. QED BY <1>a, <1>d, <2>1, <2>2, <2>3, <2>4 DEF SeenInv
<1>2. ASSUME NEW c \in Calls, Begin(c) PROVE SeenInv'
  <2>1. /\ tx' = tx /\ main' = main
        /\ \A d \in Calls : \/ calls'[d] = calls[d]
                            \/ calls[d].stage = "asked" /\ calls'[d].seen = calls[d].seen
    BY <1>2 DEF Begin, TypeOK, CallStates, Callers
  <2>2. \A p \in Paths : Expecting(p)' => Expecting(p)
    BY <1>a, <2>1 DEF Expecting
  <2>. QED BY <1>e, <1>f, <2>1, <2>2
<1>3. ASSUME NEW c \in Callers, Answering(c) \/ FindApplied(c) PROVE SeenInv'
  <2>1. CASE Settle(c) \/ FailEntry(c)
    BY <2>1, <1>b, <1>h DEF Settle, FailEntry, Thrown, TypeOK, Callers
  <2>2. CASE FindApplied(c)
    <3>1. calls'[c].stage = "answered" /\ \A d \in Callers \ {c} : calls'[d] = calls[d]
      BY <2>2, <1>b, AnswersTyped DEF FindApplied, Answers, TypeOK, NoCall
    <3>. QED BY <2>2, <3>1, <1>h DEF FindApplied, Callers
  <2>. QED BY <1>3, <2>1, <2>2 DEF Answering
<1>4. ASSUME NEW c \in Callers, Resume(c) PROVE SeenInv'
  <2>1. /\ calls[c].stage = "begun" /\ journal.status = "running" /\ tx.stage = "none"
        /\ calls' = calls /\ tx'.stage # "write"
    BY <1>4, <1>b DEF Resume, Enters
  <2>2. calls[Recovery].stage = "begun"
    BY <1>a, <2>1 DEF CallersInv
  <2>3. \A p : ~Expecting(p)'
    BY <2>1, <2>2 DEF CallersInv, Expecting
  <2>. QED BY <2>1, <2>3 DEF SeenInv, Expected
<1>5. ASSUME NEW c \in Callers, PrepareJournal(c) PROVE SeenInv'
  <2>. DEFINE seen == IF c = Recovery THEN main ELSE calls[c].seen
  <2>1. /\ calls[c].stage = "begun" /\ tx.stage = "none" /\ tx'.stage = "write"
        /\ tx'.journal.target = seen /\ tx'.journal.applied = {}
        /\ main' = main /\ calls' = calls /\ exposed' = exposed
    BY <1>5, <1>b DEF PrepareJournal, Enters, Fresh
  <2>2. InFlight = {} /\ Undoable' = {} /\ \A p : Expecting(p)' = Expecting(p)
    BY <1>a, <2>1 DEF InFlight, Undoable, Expecting
  <2>3. ASSUME NEW p \in Paths, seen[p] = child[p], p \notin exposed PROVE Reached(main[p], p)
    <3>1. CASE c = Recovery
      BY <2>3, <3>1 DEF Reached, HoldsIt
    <3>2. CASE c # Recovery
      <4>1. Expecting(p)
        BY <2>1, <2>3, <3>2 DEF Expecting, Callers
      <4>. QED BY <1>d, <2>2, <2>3, <4>1 DEF Expected
    <3>. QED BY <3>1, <3>2
  <2>. QED BY <1>a, <1>d, <2>1, <2>2, <2>3 DEF SeenInv, Expected
<1>6. CASE WriteFirst \/ Verify \/ Finish
  <2>1. main' = main /\ calls' = calls /\ InFlight = {}
    BY <1>6 DEF WriteFirst, Verify, Finish, InFlight
  <2>2. /\ tx'.stage \in {"empty", "verify", "next", "close"}
        /\ tx'.journal.applied = tx.journal.applied /\ tx'.journal.target = tx.journal.target
    BY <1>6, <1>b, <1>j, AdvanceTyped DEF WriteFirst, Verify, Finish, TxStages
  <2>. QED BY <1>i, <2>1, <2>2
<1>7. CASE Remove
  <2>. DEFINE p == NextItem(tx.journal)
  <2>1. exposed' = exposed /\ calls' = calls
    BY <1>7 DEF Remove
  <2>2. /\ p \in tx.journal.items /\ p \in Paths /\ main[p] = tx.journal.target[p]
        /\ main'[p] = Absent /\ \A q \in Paths \ {p} : main'[q] = main[q]
        /\ InFlight = {} /\ tx'.stage \in {"replacing", "log"}
        /\ tx'.journal.target = tx.journal.target /\ Undoable' = Undoable \cup {p}
        /\ InFlight' = {p} \/ ~tx.journal.after[p].there
    BY <1>7, RemoveOutcome DEF Undoable
  <2>. HIDE DEF p
  <2>3. tx'.stage # "write" /\ \A q : Expecting(q)' = Expecting(q)
    BY <1>a, <2>1, <2>2 DEF Expecting
  <2>4. InFlight' = {p} \/ HoldsIt(main'[p], p)
    BY <2>2 DEF PlannedInv, Planned
  <2>. QED BY <1>a, <1>d, <2>1, <2>2, <2>3, <2>4 DEF SeenInv, Expected
<1>8. CASE Place
  <2>. DEFINE p == NextItem(tx.journal)
  <2>1. exposed' = exposed /\ calls' = calls
    BY <1>8 DEF Place
  <2>2. /\ p \in tx.journal.items /\ p \in Paths
        /\ main'[p] = tx.journal.after[p] /\ \A q \in Paths \ {p} : main'[q] = main[q]
        /\ InFlight = {p} /\ tx'.journal.target = tx.journal.target /\ Undoable' = Undoable
        /\ tx'.stage = "log"
    BY <1>8, PlaceOutcome DEF Undoable
  <2>. HIDE DEF p
  <2>3. tx'.stage # "write" /\ \A q : Expecting(q)' = Expecting(q)
    BY <1>a, <2>1, <2>2 DEF Expecting
  <2>4. HoldsIt(main'[p], p)
    BY <2>2 DEF PlannedInv, Planned
  <2>. QED BY <1>a, <1>d, <2>1, <2>2, <2>3, <2>4 DEF SeenInv, Expected
<1>9. CASE Log
  <2>1. /\ tx'.stage = "next" /\ tx'.journal = tx.journal /\ InFlight = {}
        /\ main' = main /\ calls' = calls
    BY <1>9, <1>b, AdvanceTyped DEF Log, TxStages, InFlight
  <2>. QED BY <1>i, <2>1
<1>18. CASE Refuse \/ FailItem
  <2>1. /\ tx'.stage = "rollback" /\ tx'.journal = tx.journal /\ InFlight \subseteq exposed'
        /\ InFlight' = {} /\ main' = main /\ calls' = calls
    BY <1>18, FailOutcome
  <2>2. Undoable' \subseteq Undoable
    BY <2>1 DEF Undoable
  <2>. QED BY <1>e, <1>g, <2>1, <2>2
<1>19. CASE WriteThrows
  <2>1. /\ main' = main /\ tx' = NoTx /\ InFlight = {} /\ InFlight' = {} /\ tx.by \in Callers
        /\ calls'[tx.by] = NoCall /\ \A d \in Callers \ {tx.by} : calls'[d] = calls[d]
    BY <1>19, ThrowsOutcome
  <2>2. \A c \in Calls : calls'[c] = calls[c] \/ calls'[c].stage \notin {"asked", "begun"}
    BY <1>b, <2>1 DEF Callers
  <2>3. Undoable' = {} /\ tx'.stage = "none"
    BY <1>b, <2>1 DEF Undoable
  <2>. QED BY <1>e, <1>g, <2>1, <2>2, <2>3
<1>10. CASE Restore
  <2>. DEFINE p == LastApplied(tx.journal)
  <2>1. exposed' = exposed /\ calls' = calls
    BY <1>10 DEF Restore
  <2>2. /\ p \in Paths /\ main'[p] = tx.journal.target[p]
        /\ \A q \in Paths \ {p} : main'[q] = main[q]
        /\ InFlight = {} /\ p \in Undoable /\ Undoable' \subseteq Undoable
        /\ tx'.stage = "rollback" /\ tx'.journal.target = tx.journal.target
    BY <1>10, RestoreOutcome DEF Undoable
  <2>. HIDE DEF p
  <2>3. \A q : Expecting(q)' = Expecting(q)
    BY <1>a, <2>1 DEF Expecting
  <2>. QED BY <1>a, <1>d, <2>1, <2>2, <2>3 DEF SeenInv, Expected
<1>11. CASE RolledBack
  <2>1. /\ tx'.stage = "close" /\ InFlight = {} /\ main' = main /\ calls' = calls
        /\ tx'.journal = [tx.journal EXCEPT !.status = "failed"]
    BY <1>11, <1>j, AdvanceTyped DEF RolledBack, TxStages, InFlight
  <2>. QED BY <1>i, <1>j, <2>1
<1>12. CASE RestoreBreaks
  <2>1. /\ tx'.stage = "abort" /\ InFlight = {} /\ InFlight' = {}
        /\ tx'.journal = [tx.journal EXCEPT !.status = "failed"]
        /\ \A q \in Paths \ exposed' : main'[q] = main[q]
    BY <1>12, BreaksOutcome
  <2>2. Undoable' \subseteq Undoable /\ tx'.journal.target = tx.journal.target
    BY <1>j, <2>1 DEF Undoable
  <2>3. calls' = calls /\ \A q : Expecting(q)' = Expecting(q)
    BY <1>12, <1>a DEF RestoreBreaks, Expecting
  <2>. QED BY <1>a, <1>d, <2>1, <2>2, <2>3 DEF SeenInv, Expected
<1>13. CASE Close \/ Abort
  <2>1. /\ main' = main /\ tx'.stage = "none" /\ tx.by \in Callers
        /\ InFlight = {} /\ Undoable' = {}
    BY <1>13, <1>b DEF Close, Abort, InFlight, Undoable, TypeOK
  <2>2. \A c \in Calls : calls'[c] = calls[c] \/ calls'[c].stage \notin {"asked", "begun"}
    <3>1. CASE Close
      BY <1>b, <2>1, <3>1, AnswersTyped DEF Close, Answers, TypeOK, NoCall, Callers
    <3>2. CASE Abort
      BY <1>b, <2>1, <3>2 DEF Abort, Thrown, TypeOK, Callers
    <3>. QED BY <1>13, <3>1, <3>2
  <2>. QED BY <1>e, <1>g, <2>1, <2>2
<1>14. ASSUME NEW p \in Paths, Edit(p) PROVE SeenInv'
  <2>1. /\ main'[p].own = main[p].own + 1 /\ main[p].own \in Nat
        /\ \A q \in Paths \ {p} : main'[q] = main[q]
        /\ tx' = tx /\ calls' = calls
    BY <1>14 DEF Edit, TypeOK, Tree, File
  <2>2. Reached(main[p], p)'
    BY <2>1 DEF Reached
  <2>3. InFlight' = InFlight /\ Undoable' = Undoable /\ \A q : Expecting(q)' = Expecting(q)
    BY <1>a, <1>f, <2>1 DEF Expecting
  <2>. QED BY <1>a, <1>d, <2>1, <2>2, <2>3 DEF SeenInv, Expected
<1>15. CASE Cleanup \/ UNCHANGED vars
  BY <1>15, <1>h DEF Cleanup, vars
<1>16. CASE Restart
  <2>1. \A c \in Calls : calls'[c] = calls[c]
    BY <1>16 DEF Restart, TypeOK, Calls, Callers, Recovery
  <2>. QED BY <1>16, <1>h, <2>1 DEF Restart
<1>17. CASE Crash
  <2>1. tx'.stage = "none" /\ \A c \in Callers : calls'[c].stage = "idle"
    BY <1>17, <1>b DEF Crash
  <2>. QED BY <2>1 DEF SeenInv, Expected, Expecting, Callers
<1>. QED
  BY <1>1, <1>2, <1>3, <1>4, <1>5, <1>6, <1>7, <1>8, <1>9, <1>10, <1>11, <1>12, <1>13, <1>14,
     <1>15, <1>16, <1>17, <1>18, <1>19
  DEF Next, ToolCall, Answering, Entering, Applying, RollingBack

(* While items are applied the parent is where the journal says.           *)
LEMMA PlacedStep ==
  ASSUME MergeInv, ChildInv, [Next]_vars
  PROVE  PlacedInv'
<1>. TypeOK /\ JournalsInv /\ StagesInv /\ PlannedInv /\ PlacedInv
  BY DEF MergeInv, ChildInv
<1>. USE DEF trees, history
<1>a. /\ tx.journal \in Journals /\ journal \in Journals
      /\ tx.journal.items \subseteq Paths /\ tx.journal.watched \subseteq Paths
      /\ NoTx.stage = "none"
  BY InFlightIsItem DEF TypeOK, Journals, NoTx
<1>b. \A s \in {"none", "write", "verify", "next", "replacing", "log", "rollback", "close",
                 "abort", "empty"} : s \in TxStages
  BY DEF TxStages
<1>c. CASE tx' = tx /\ main' = main /\ exposed' = exposed
  <2>1. InFlight' = InFlight
    BY <1>c DEF InFlight, NextItem, Remaining, Before
  <2>. QED BY <1>c, <2>1 DEF PlacedInv, Follows, Current
<1>d. CASE tx'.stage \notin {"next", "replacing", "log"}
  BY <1>d DEF PlacedInv
<1>e. ASSUME MatchesJournal(tx.journal), main' = main, tx'.journal = tx.journal
      PROVE  PlacedInv'
  BY <1>e DEF PlacedInv, Follows, Current, MatchesJournal
<1>f. ASSUME NEW p \in Paths
      PROVE  /\ Applied(p) \in Journals /\ Applied(p).after = tx.journal.after
             /\ Applied(p).watched = tx.journal.watched /\ Applied(p).target = tx.journal.target
             /\ Applied(p).applied = tx.journal.applied \cup {p}
  BY <1>a, AppliedTyped DEF Journals
<1>1. ASSUME NEW c \in Calls, ToolCall(c) PROVE PlacedInv'
  BY <1>1, <1>c DEF ToolCall, Ask, Begin
<1>2. ASSUME NEW c \in Callers, Answering(c) \/ FindApplied(c) PROVE PlacedInv'
  BY <1>2, <1>c DEF Answering, Settle, FailEntry, FindApplied
<1>3. ASSUME NEW c \in Callers, Resume(c) PROVE PlacedInv'
  BY <1>3, <1>d DEF Resume
<1>4. ASSUME NEW c \in Callers, PrepareJournal(c) PROVE PlacedInv'
  BY <1>4, <1>d DEF PrepareJournal
<1>5. CASE WriteFirst \/ Finish
  <2>1. tx'.stage \in {"empty", "close", "verify"}
    BY <1>a, <1>b, <1>5, AdvanceTyped, ClosedTyped DEF WriteFirst, Finish
  <2>. QED BY <1>d, <2>1
<1>6. CASE Verify
  <2>1. CASE MatchesJournal(tx.journal)
    <3>1. tx'.journal = tx.journal /\ main' = main
      BY <1>6, <1>a, <1>b, <2>1, AdvanceTyped DEF Verify
    <3>. QED BY <1>e, <2>1, <3>1
  <2>2. CASE ~MatchesJournal(tx.journal)
    <3>1. tx'.stage = "close"
      BY <1>6, <1>a, <1>b, <2>2, AdvanceTyped, StatusTyped DEF Verify, JournalStatuses
    <3>. QED BY <1>d, <3>1
  <2>. QED BY <2>1, <2>2
<1>7. CASE Remove
  <2>. DEFINE p == NextItem(tx.journal)
  <2>1. /\ tx.stage = "next" /\ p \in tx.journal.items /\ p \in Paths
        /\ main'[p] = Absent /\ \A q \in Paths \ {p} : main'[q] = main[q]
        /\ InFlight = {} /\ exposed' = exposed
        /\ InFlight' = {p} \/ (InFlight' = {} /\ ~tx.journal.after[p].there)
    BY <1>7, RemoveOutcome DEF Remove
  <2>2. /\ tx'.journal.after = tx.journal.after /\ tx'.journal.target = tx.journal.target
        /\ tx'.journal.watched = tx.journal.watched
        /\ \/ tx.journal.after[p].there /\ tx'.journal.applied = tx.journal.applied
           \/ ~tx.journal.after[p].there /\ tx'.journal.applied = tx.journal.applied \cup {p}
    BY <1>7, <1>a, <1>b, <1>f, <2>1, AdvanceTyped DEF Remove
  <2>. HIDE DEF p
  <2>3. ~tx.journal.after[p].there => main'[p] = tx.journal.after[p]
    BY <2>1 DEF PlannedInv, Planned
  <2>4. \A q \in tx.journal.watched \ exposed : Follows(tx.journal, q)
    BY <2>1 DEF PlacedInv
  <2>5. ASSUME NEW q \in tx.journal.watched \ (exposed \cup InFlight')
        PROVE  Follows(tx.journal, q)'
    <3>1. CASE q # p
      BY <1>a, <2>1, <2>2, <2>4, <3>1 DEF Follows, Current
    <3>2. CASE q = p
      BY <2>1, <2>2, <2>3, <2>5, <3>2 DEF Follows, Current
    <3>. QED BY <3>1, <3>2
  <2>. QED BY <2>1, <2>2, <2>5 DEF PlacedInv
<1>8. CASE Place
  <2>. DEFINE p == NextItem(tx.journal)
  <2>1. /\ tx.stage = "replacing" /\ p \in Paths
        /\ main'[p] = tx.journal.after[p] /\ \A q \in Paths \ {p} : main'[q] = main[q]
        /\ InFlight = {p} /\ exposed' = exposed
    BY <1>8, PlaceOutcome DEF Place
  <2>2. /\ tx'.journal.after = tx.journal.after /\ tx'.journal.target = tx.journal.target
        /\ tx'.journal.watched = tx.journal.watched
        /\ tx'.journal.applied = tx.journal.applied \cup {p}
    BY <1>8, <1>b, <1>f, <2>1, AdvanceTyped DEF Place
  <2>. HIDE DEF p
  <2>3. \A q \in tx.journal.watched \ (exposed \cup {p}) : Follows(tx.journal, q)
    BY <2>1 DEF PlacedInv
  <2>4. ASSUME NEW q \in tx.journal.watched \ exposed PROVE Follows(tx.journal, q)'
    <3>1. CASE q # p
      BY <1>a, <2>1, <2>2, <2>3, <3>1 DEF Follows, Current
    <3>2. CASE q = p
      BY <2>1, <2>2, <3>2 DEF Follows, Current
    <3>. QED BY <3>1, <3>2
  <2>. QED BY <2>1, <2>2, <2>4 DEF PlacedInv
<1>9. CASE Log
  <2>1. /\ tx'.journal = tx.journal /\ tx.stage = "log" /\ tx'.stage = "next"
    BY <1>9, <1>a, <1>b, AdvanceTyped DEF Log
  <2>. QED BY <1>9, <2>1 DEF Log, InFlight, PlacedInv, Follows, Current
<1>10. CASE Refuse \/ FailItem
  BY <1>10, <1>d, FailOutcome
<1>11. CASE Restore
  BY <1>11, <1>d, RestoreOutcome
<1>12. CASE RolledBack \/ RestoreBreaks
  <2>1. tx'.stage \in {"close", "abort"}
    BY <1>12, <1>a, <1>b, AdvanceTyped, StatusTyped DEF RolledBack, RestoreBreaks, JournalStatuses
  <2>. QED BY <1>d, <2>1
<1>13. CASE Close \/ Abort \/ Crash \/ WriteThrows
  BY <1>13, <1>a, <1>d DEF Close, Abort, Crash, WriteThrows
<1>14. ASSUME NEW p \in Paths, Edit(p) PROVE PlacedInv'
  <2>1. /\ main'[p].own = main[p].own + 1
        /\ \A q \in Paths \ {p} : main'[q] = main[q]
        /\ exposed \subseteq exposed' /\ tx' = tx
    BY <1>14 DEF Edit, TypeOK, Tree
  <2>2. \A q \in Paths : main[q].own \in Nat /\ Current(tx.journal, q).own \in Nat
    BY <1>a DEF TypeOK, Journals, Tree, File, Current
  <2>3. InFlight' = InFlight
    BY <2>1 DEF InFlight, NextItem, Remaining, Before
  <2>4. \A q \in Paths : Current(tx.journal, q)' = Current(tx.journal, q)
    BY <2>1 DEF Current
  <2>5. \A q \in Paths : Follows(tx.journal, q) => Follows(tx.journal, q)'
    BY <2>1, <2>2, <2>4 DEF Follows
  <2>. QED BY <1>a, <2>1, <2>3, <2>5 DEF PlacedInv
<1>15. CASE Cleanup \/ Restart \/ UNCHANGED vars
  BY <1>15, <1>c DEF Cleanup, Restart, vars
<1>. QED
  BY <1>1, <1>2, <1>3, <1>4, <1>5, <1>6, <1>7, <1>8, <1>9, <1>10, <1>11, <1>12, <1>13, <1>14, <1>15
  DEF Next, Answering, Entering, Applying, RollingBack

(* A journal is closed as applied when every path has arrived.             *)
LEMMA AppliedStep ==
  ASSUME MergeInv, ChildInv, [Next]_vars
  PROVE  AppliedInv'
<1>. TypeOK /\ TreesInv /\ JournalsInv /\ StagesInv /\ PlannedInv /\ SeenInv /\ PlacedInv /\ AppliedInv
  BY DEF MergeInv, ChildInv
<1>. USE DEF trees, history
<1>a. /\ tx.journal \in Journals /\ journal \in Journals
      /\ tx.journal.watched \subseteq Paths /\ tx.journal.items \subseteq Paths
      /\ NoTx.stage = "none"
      /\ \A p \in Paths : main[p] \in File /\ tx.journal.after[p] \in File
  BY InFlightIsItem DEF TypeOK, Journals, Tree, NoTx
<1>b. \A s \in {"none", "write", "verify", "next", "replacing", "log", "rollback", "close",
                 "abort", "empty"} : s \in TxStages
  BY DEF TxStages
<1>c. /\ child' = child /\ base' = base /\ decided \subseteq decided' /\ exposed \subseteq exposed'
      /\ (forgotten => forgotten')
  BY HistoryGrows
<1>d. /\ Closed(tx.journal) \in Journals
      /\ Closed(tx.journal).watched = tx.journal.watched
      /\ Closed(tx.journal).after = tx.journal.after
      /\ Closed(tx.journal).status = "applied" => tx.journal.conflicts = {}
  BY <1>a, ClosedTyped DEF Closed, Journals
<1>e. CASE tx'.stage \notin {"close", "empty"} \/ tx'.journal.status # "applied"
  BY <1>e DEF AppliedInv
<1>f. CASE tx' = tx /\ main' = main
  BY <1>c, <1>f DEF AppliedInv, Arrived
<1>1. ASSUME NEW c \in Calls, ToolCall(c) PROVE AppliedInv'
  BY <1>1, <1>f DEF ToolCall, Ask, Begin
<1>2. ASSUME NEW c \in Callers, Answering(c) \/ FindApplied(c) PROVE AppliedInv'
  BY <1>2, <1>f DEF Answering, Settle, FailEntry, FindApplied
<1>3. ASSUME NEW c \in Callers, Resume(c) PROVE AppliedInv'
  BY <1>3, <1>a, <1>e DEF Resume, Journals
<1>4. ASSUME NEW c \in Callers, PrepareJournal(c) PROVE AppliedInv'
  BY <1>4, <1>e DEF PrepareJournal
<1>5. CASE WriteFirst
  <2>1. CASE tx.journal.items # {}
    <3>1. tx'.stage = "verify"
      BY <1>5, <1>a, <1>b, <2>1, AdvanceTyped DEF WriteFirst
    <3>. QED BY <1>e, <3>1
  <2>2. CASE tx.journal.items = {}
    <3>1. /\ tx'.journal = Closed(tx.journal) /\ main' = main
          /\ exposed' = exposed /\ decided' = decided /\ forgotten' = forgotten
          /\ tx.stage = "write" /\ InFlight = {}
      BY <1>5, <1>b, <1>d, <2>2, AdvanceTyped DEF WriteFirst, InFlight
    <3>2. SUFFICES ASSUME tx'.journal.status = "applied", ~forgotten,
                          NEW p \in tx.journal.watched \ exposed
                   PROVE  Arrived(p)'
      BY <1>d, <3>1 DEF AppliedInv
    <3>3. /\ tx.journal.after[p] = tx.journal.target[p] /\ p \in Paths
          /\ child[p] = base[p] \/ tx.journal.target[p] = child[p] \/ <<p, "main">> \in decided
      BY <1>a, <1>d, <2>2, <3>1, <3>2 DEF PlannedInv, Planned
    <3>4. CASE tx.journal.target[p] = child[p]
      <4>1. Reached(main[p], p)
        BY <3>1, <3>2, <3>3, <3>4 DEF SeenInv, Expected
      <4>2. tx.journal.after[p].own = 0 /\ main[p].own \in Nat
        BY <1>a, <3>3, <3>4 DEF TreesInv, File
      <4>. QED BY <1>c, <1>d, <3>1, <4>1, <4>2 DEF Arrived, Reached, HoldsIt
    <3>5. CASE child[p] = base[p] \/ <<p, "main">> \in decided
      BY <1>c, <3>1, <3>5 DEF Arrived
    <3>. QED BY <3>3, <3>4, <3>5
  <2>. QED BY <2>1, <2>2
<1>6. CASE Finish
  <2>1. /\ tx'.journal = Closed(tx.journal) /\ main' = main
        /\ exposed' = exposed /\ decided' = decided /\ forgotten' = forgotten
        /\ tx.stage = "next" /\ InFlight = {} /\ Remaining(tx.journal) = {}
    BY <1>6, <1>b, <1>d, AdvanceTyped DEF Finish, InFlight
  <2>2. SUFFICES ASSUME tx'.journal.status = "applied", NEW p \in tx.journal.watched \ exposed
                 PROVE  Arrived(p)'
    BY <1>d, <2>1 DEF AppliedInv
  <2>3. Follows(tx.journal, p) /\ p \in Paths
    BY <1>a, <2>1, <2>2 DEF PlacedInv
  <2>4. CASE p \in tx.journal.items
    <3>1. Current(tx.journal, p) = tx.journal.after[p] /\ HoldsIt(tx.journal.after[p], p)
      BY <2>1, <2>4 DEF Remaining, Current, PlannedInv, Planned
    <3>2. tx.journal.after[p] = child[p] => tx.journal.after[p].own = 0
      BY <2>3 DEF TreesInv
    <3>. QED BY <1>c, <1>d, <2>1, <2>3, <3>1, <3>2 DEF Arrived, Follows, HoldsIt
  <2>5. CASE p \notin tx.journal.items
    <3>1. /\ Current(tx.journal, p) = tx.journal.after[p]
          /\ child[p] = base[p] \/ tx.journal.after[p] = child[p] \/ <<p, "main">> \in decided
      BY <1>d, <2>1, <2>2, <2>5 DEF Current, PlannedInv, Planned, JournalsInv, Sound
    <3>2. tx.journal.after[p] = child[p] => tx.journal.after[p].own = 0
      BY <2>3 DEF TreesInv
    <3>. QED BY <1>c, <1>d, <2>1, <2>3, <3>1, <3>2 DEF Arrived, Follows
  <2>. QED BY <2>4, <2>5
<1>7. CASE Verify
  <2>1. CASE MatchesJournal(tx.journal)
    <3>1. tx'.stage = "next"
      BY <1>7, <1>a, <1>b, <2>1, AdvanceTyped DEF Verify
    <3>. QED BY <1>e, <3>1
  <2>2. CASE ~MatchesJournal(tx.journal)
    <3>1. [tx.journal EXCEPT !.status = "stale"].status = "stale"
      BY <1>a DEF Journals
    <3>2. tx'.journal.status = "stale"
      BY <1>7, <1>a, <1>b, <2>2, <3>1, AdvanceTyped, StatusTyped DEF Verify, JournalStatuses
    <3>. QED BY <1>e, <3>2
  <2>. QED BY <2>1, <2>2
<1>8. CASE Remove \/ Place
  <2>1. NextItem(tx.journal) \in Paths
    BY <1>8, <1>a, NextIsRemaining, InFlightIsItem DEF Remove, Place, StagesInv
  <2>2. tx'.stage \in {"replacing", "log"}
    BY <1>8, <1>a, <1>b, <2>1, AdvanceTyped, AppliedTyped DEF Remove, Place
  <2>. QED BY <1>e, <2>2
<1>9. CASE Log \/ Refuse \/ FailItem
  <2>1. tx'.stage \in {"next", "rollback"}
    BY <1>9, <1>a, <1>b, AdvanceTyped, FailOutcome DEF Log
  <2>. QED BY <1>e, <2>1
<1>10. CASE Restore
  BY <1>10, <1>e, RestoreOutcome
<1>11. CASE RolledBack \/ RestoreBreaks
  <2>1. [tx.journal EXCEPT !.status = "failed"].status = "failed"
    BY <1>a DEF Journals
  <2>2. tx'.journal.status = "failed"
    BY <1>11, <1>a, <1>b, <2>1, AdvanceTyped, StatusTyped
    DEF RolledBack, RestoreBreaks, JournalStatuses
  <2>. QED BY <1>e, <2>2
<1>12. CASE Close \/ Abort \/ Crash \/ WriteThrows
  BY <1>12, <1>a, <1>e DEF Close, Abort, Crash, WriteThrows
<1>13. ASSUME NEW p \in Paths, Edit(p) PROVE AppliedInv'
  <2>1. /\ main'[p].own = main[p].own + 1 /\ main'[p].child = main[p].child
        /\ \A q \in Paths \ {p} : main'[q] = main[q]
        /\ tx' = tx
    BY <1>13 DEF Edit, TypeOK, Tree
  <2>2. \A q \in Paths : main[q].own \in Nat /\ tx.journal.after[q].own \in Nat
    BY <1>a DEF File
  <2>3. \A q \in Paths : Arrived(q) => Arrived(q)'
    BY <1>c, <2>1, <2>2 DEF Arrived
  <2>. QED BY <1>a, <1>c, <2>1, <2>3 DEF AppliedInv
<1>14. CASE Cleanup \/ Restart \/ UNCHANGED vars
  BY <1>14, <1>f DEF Cleanup, Restart, vars
<1>. QED
  BY <1>1, <1>2, <1>3, <1>4, <1>5, <1>6, <1>7, <1>8, <1>9, <1>10, <1>11, <1>12, <1>13, <1>14
  DEF Next, Answering, Entering, Applying, RollingBack

(* It holds of the empty journals at first.                                *)
LEMMA InitPlans == Init => ChildInv
<1>. SUFFICES ASSUME Init PROVE ChildInv
  OBVIOUS
<1>. USE DEF Init
<1>1. UsesInv /\ CallersInv
  BY DEF UsesInv, CallersInv, NoCall, NoTx, NoJournal, Calls, Callers
<1>2. PlannedInv
  BY DEF PlannedInv, Planned, NoJournal, NoTx
<1>3. SeenInv /\ PlacedInv /\ AppliedInv
  BY DEF SeenInv, PlacedInv, AppliedInv, Expected, Expecting, NoTx, NoCall, Calls, Callers
<1>. QED BY <1>1, <1>2, <1>3 DEF ChildInv

(* Where the child's work is at each stage of a merge, from the plan of    *)
(* the journal to its last item, is kept by every step.                    *)
THEOREM ChildInvariant == Spec => []ChildInv
<1>1. MergeInv /\ ChildInv /\ [Next]_vars => ChildInv'
  BY UsesStep, PlannedStep, CallersStep, SeenStep, PlacedStep, AppliedStep DEF ChildInv
<1>. QED BY <1>1, InitPlans, MergeInvariant, PTL DEF Spec

(* A merge that is closed as applied has brought the child's work to every *)
(* path it looked at, unless that was resolved for the parent or edited    *)
(* since, for any files, calls, crashes and edits.                         *)
THEOREM AppliedBringsChild == Spec => []AppliedHoldsChild
<1>1. ChildInv => AppliedHoldsChild
  BY DEF ChildInv, AppliedInv, Arrived, AppliedHoldsChild, HoldsChild
<1>. QED BY <1>1, ChildInvariant, PTL
=============================================================================
