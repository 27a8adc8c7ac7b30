--------------------------- MODULE MergeTransaction ---------------------------
(***************************************************************************)
(* Merge.apply for one approved task with an isolated workspace: the       *)
(* three-way plan, the journalled replacement of the parent's files and    *)
(* its rollback (plan/workspace-merge.ts), the two plan writes around it   *)
(* (PlanProtocol.merge in plan/protocol.ts) and what a restarted process   *)
(* does with an interrupted merge (PlanRecovery.reconcileMerge).           *)
(*                                                                         *)
(* A file is told apart by how many insertions of the parent and how many  *)
(* copies of the child's insertion it holds, or is absent; the baseline    *)
(* holds neither.  Symbolic links, directories, binary files and edits     *)
(* that replace as many lines as they remove are left out.                 *)
(*                                                                         *)
(* applyWorkspaceMerge is synchronous: two calls of this process never     *)
(* interleave inside it, while a crash, or an editor of another process,   *)
(* may come between any two of its file operations.                        *)
(***************************************************************************)
EXTENDS Naturals, FiniteSets

CONSTANTS
  NumPaths,    \* the files looked at, in the order of their names
  NumCalls,    \* bound on the Merge.apply calls of the main agent at a time
  Shapes,      \* the files of baseline, child and parent explored, per path
  Scopes,      \* the "paths" arguments explored; every path when omitted
  MaxMerges,   \* bound on the Merge.apply calls explored
  MaxEdits,    \* bound on the parent's edits while a merge is under way
  MaxCrashes,  \* bound on the crashes explored
  WriteFails   \* may a file operation of a merge fail (disk full, locked)?

Paths == 1..NumPaths

(* The calls take the lowest free number; the start-up reconciliation is   *)
(* a caller of the transaction as well.                                    *)
Calls    == 1..NumCalls
Recovery == 0
Callers  == Calls \cup {Recovery}

File == [there : BOOLEAN, own : Nat, child : Nat]
Absent == [there |-> FALSE, own |-> 0, child |-> 0]
Plain  == [there |-> TRUE, own |-> 0, child |-> 0]
Tree == [Paths -> File]

ASSUME MergeAssumption ==
  /\ NumPaths \in Nat \ {0}
  /\ NumCalls \in Nat
  /\ Shapes \subseteq [base : File, child : File, main : File]
  /\ \A s \in Shapes : s.base \in {Absent, Plain} /\ s.child.own = 0
                        /\ (s.child.there \/ s.child = Absent)
  /\ Scopes \subseteq (SUBSET Paths) \ {{}}
  /\ {MaxMerges, MaxEdits, MaxCrashes} \subseteq Nat
  /\ WriteFails \in BOOLEAN

VARIABLES
  base,       \* the task's baseline tree
  child,      \* the child's tree, frozen since the report
  overlaps,   \* paths where an edit of the parent overlaps the child's hunk
  main,       \* the parent's tree
  journal,    \* merge.json in the journal directory
  sidecars,   \* do the child, baseline and journal directories exist?
  plan,       \* the task's merge record in plan.json
  calls,      \* per caller: where it stands
  tx,         \* the transaction under way, with its journal in memory
  down,       \* has the process died, and not been started again?
  merges, crashes,  \* history: calls and crashes so far
  edits,      \* history: per path, the parent's insertions so far
  decided,    \* history: which side somebody asked to use for which path
  exposed,    \* history: paths lost by a crash or a failure inside their
              \* replacement, or edited after it and then rolled back
  forgotten   \* history: has a journal been left running by a call that goes
              \* no further, or by a crash under a plan that said otherwise?

trees == <<base, child, overlaps>>
history == <<merges, crashes, edits, decided, exposed, forgotten>>
vars == <<trees, main, journal, sidecars, plan, calls, tx, down, history>>

JournalStatuses == {"none", "running", "applied", "conflict", "failed", "stale"}
(* target: what the parent held when the plan was made, and with it the    *)
(* "before" of an item; after: what an item leaves; watched: target_paths. *)
Journals == [status : JournalStatuses, target : Tree, after : Tree,
             items : SUBSET Paths, watched : SUBSET Paths,
             applied : SUBSET Paths, conflicts : SUBSET Paths]
NoJournal == [status |-> "none", target |-> [p \in Paths |-> Absent],
              after |-> [p \in Paths |-> Absent], items |-> {}, watched |-> {},
              applied |-> {}, conflicts |-> {}]

(* use: the resolutions asked for; seen: the parent at the preflight.      *)
CallStates == [stage : {"idle", "asked", "begun", "answered"},
               scope : SUBSET Paths, use : [Paths -> {"none", "main", "child"}],
               seen : Tree, result : {"none", "merged", "conflict", "failed"},
               conflicts : SUBSET Paths]
NoCall == [stage |-> "idle", scope |-> {}, use |-> [p \in Paths |-> "none"],
           seen |-> [p \in Paths |-> Absent], result |-> "none", conflicts |-> {}]

(* write: the first journal is to be written; next: an item is to be       *)
(* replaced; replacing: its file is removed and not yet copied; log: the   *)
(* item is to be journalled; close, abort: the last write of the journal,  *)
(* after which the caller gets a result or an exception; empty: the last   *)
(* write of a journal without items, outside the try block.                *)
(* strayed (history): the items left alone that did not hold what the      *)
(* journal expected when a mismatching transaction failed.                 *)
TxStages == {"none", "write", "empty", "verify", "next", "replacing", "log",
             "rollback", "close", "abort"}
NoTx == [stage |-> "none", by |-> Recovery, journal |-> NoJournal, strayed |-> {}]

TypeOK ==
  /\ base \in Tree /\ child \in Tree /\ overlaps \subseteq Paths
  /\ main \in Tree
  /\ journal \in Journals
  /\ sidecars \in BOOLEAN
  /\ plan \in [merge : {"pending", "running", "merged", "conflict", "failed"},
               conflicts : SUBSET Paths]
  /\ calls \in [Callers -> CallStates]
  /\ tx \in [stage : TxStages, by : Callers, journal : Journals, strayed : SUBSET Paths]
  /\ down \in BOOLEAN
  /\ merges \in Nat /\ crashes \in Nat
  /\ edits \in [Paths -> Nat]
  /\ decided \subseteq Paths \X {"main", "child"} /\ exposed \subseteq Paths
  /\ forgotten \in BOOLEAN

Init ==
  /\ \E shape \in [Paths -> Shapes] :
       /\ base = [p \in Paths |-> shape[p].base]
       /\ child = [p \in Paths |-> shape[p].child]
       /\ main = [p \in Paths |-> shape[p].main]
  /\ overlaps \in SUBSET {p \in Paths : base[p].there /\ child[p].child > 0}
  /\ journal = NoJournal
  /\ sidecars = TRUE
  /\ plan = [merge |-> "pending", conflicts |-> {}]
  /\ calls = [c \in Callers |-> NoCall]
  /\ tx = NoTx
  /\ down = FALSE
  /\ merges = 0 /\ crashes = 0
  /\ edits = [p \in Paths |-> main[p].own]
  /\ decided = {} /\ exposed = {} /\ forgotten = FALSE
-----------------------------------------------------------------------------
(* The three-way plan, path by path; m is what the parent holds.           *)

Kept(p, m) == child[p] = base[p] \/ m = child[p]

(* A hunk of the parent overlaps the child's one, and is not the same.     *)
HunksOverlap(p, m) == (m.own > 0 /\ p \in overlaps) \/ m.child > 1

TextMergeable(p, m) ==
  base[p].there /\ m.there /\ child[p].there /\ ~HunksOverlap(p, m)

(* renderMergedText splices in the hunks of both sides, equal ones twice.  *)
MergedText(p, m) == [m EXCEPT !.child = m.child + child[p].child]

Conflicting(p, m) == ~Kept(p, m) /\ m # base[p] /\ ~TextMergeable(p, m)

Outcome(p, m, use) ==
  CASE Kept(p, m)          -> m
    [] ~Kept(p, m) /\ m = base[p] -> child[p]
    [] ~Kept(p, m) /\ m # base[p] /\ TextMergeable(p, m) -> MergedText(p, m)
    [] OTHER -> IF use = "child" THEN child[p] ELSE m

(* Only paths one of the sides has changed are scanned again, except by    *)
(* the recovery, which passes no manifest and no scope.                    *)
Watched(c, seen) ==
  IF c = Recovery THEN Paths
  ELSE {p \in calls[c].scope : seen[p] # base[p] \/ child[p] # base[p]}

(* The journal of a fresh plan.                                            *)
Fresh(c, seen) ==
  LET after == [p \in Paths |-> Outcome(p, seen[p], calls[c].use[p])]
  IN [status |-> "running", target |-> seen, after |-> after,
      items |-> {p \in calls[c].scope : after[p] # seen[p]},
      watched |-> Watched(c, seen), applied |-> {},
      conflicts |-> {p \in calls[c].scope : Conflicting(p, seen[p])
                                             /\ calls[c].use[p] = "none"}]

(* targetMatchesJournal: the watched files hold what the journal expects.  *)
MatchesJournal(j) ==
  \A p \in j.watched : main[p] = (IF p \in j.applied THEN j.after[p] ELSE j.target[p])

(* Items are applied in the order of their names, deletions last.          *)
Before(j, p, q) ==
  \/ j.after[p].there /\ ~j.after[q].there
  \/ j.after[p].there = j.after[q].there /\ p <= q
Remaining(j) == j.items \ j.applied
NextItem(j)  == CHOOSE p \in Remaining(j) : \A q \in Remaining(j) : Before(j, p, q)
LastApplied(j) == CHOOSE p \in j.applied : \A q \in j.applied : Before(j, q, p)

(* The file being replaced, and those a rollback is about to put back.     *)
InFlight == IF tx.stage = "replacing" THEN {NextItem(tx.journal)} ELSE {}
AtRisk == IF tx.stage = "rollback" THEN tx.journal.applied ELSE InFlight

(* A rollback puts its backups over what was edited after the replacement. *)
Overwritten(j) == {p \in j.applied : main[p] \notin {j.after[p], j.target[p]}}

Closed(j) == [j EXCEPT !.status = IF j.conflicts = {} THEN "applied" ELSE "conflict"]
-----------------------------------------------------------------------------
(* PlanProtocol.merge, around the transaction.                             *)

Up == ~down /\ calls[Recovery].stage = "idle"

(* The preflight; a resolution has to name a conflict of this plan that an *)
(* earlier answer has reported.                                            *)
Ask(c, scope, use) ==
  LET now == {p \in scope : Conflicting(p, main[p])}
      resolved == {p \in Paths : use[p] # "none"}
  IN /\ Up /\ sidecars /\ tx = NoTx
     /\ calls[c].stage = "idle" /\ \A d \in 1..(c - 1) : calls[d].stage # "idle"
     /\ merges < MaxMerges
     /\ plan.merge # "merged"
     /\ resolved \subseteq now \cap plan.conflicts
     /\ calls' = [calls EXCEPT ![c] = [stage |-> "asked", scope |-> scope, use |-> use,
                    seen |-> main, result |-> "none", conflicts |-> {}]]
     /\ merges' = merges + 1
     /\ decided' = decided \cup {<<p, use[p]>> : p \in resolved}
     /\ UNCHANGED <<trees, main, journal, sidecars, plan, tx, down, crashes, edits, exposed,
                    forgotten>>

(* The write that makes the merge visible as running.                      *)
Begin(c) ==
  /\ tx = NoTx /\ calls[c].stage = "asked"
  /\ plan' = [plan EXCEPT !.merge = "running"]
  /\ calls' = [calls EXCEPT ![c].stage = "begun"]
  /\ UNCHANGED <<trees, main, journal, sidecars, tx, down, history>>

(* Mutant: a failed transaction is recorded like a conflict-free one.      *)
SettledAsMerged(c) ==
  /\ tx = NoTx /\ calls[c].stage = "answered"
  /\ plan' = [merge |-> IF calls[c].result = "conflict" THEN "conflict" ELSE "merged",
              conflicts |-> calls[c].conflicts]
  /\ calls' = [calls EXCEPT ![c] = NoCall]
  /\ UNCHANGED <<trees, main, journal, sidecars, tx, down, history>>

(* The write of the result, by the call or by the recovery.                *)
Settle(c) ==
  /\ tx = NoTx /\ calls[c].stage = "answered"
  /\ plan' = [merge |-> calls[c].result, conflicts |-> calls[c].conflicts]
  /\ calls' = [calls EXCEPT ![c] = NoCall]
  /\ UNCHANGED <<trees, main, journal, sidecars, tx, down, history>>

(* An exception: the call leaves the plan as it is, the recovery records a *)
(* failed merge.                                                           *)
Thrown(c) ==
  /\ calls' = [calls EXCEPT ![c] = NoCall]
  /\ plan' = IF c = Recovery THEN [plan EXCEPT !.merge = "failed"] ELSE plan

(* A merged task's child, baseline and journal directories are removed     *)
(* once its Step is complete, by this call, a later one or the recovery.   *)
Cleanup ==
  /\ Up /\ tx = NoTx
  /\ sidecars /\ plan.merge = "merged"
  /\ sidecars' = FALSE
  /\ journal' = NoJournal
  /\ UNCHANGED <<trees, main, plan, calls, tx, down, history>>
-----------------------------------------------------------------------------
(* applyWorkspaceMerge.                                                    *)

Enters(c) == tx = NoTx /\ calls[c].stage = "begun"
(* Mutant: the status of the journal is answered as it is.                 *)
AnswersVerbatim(c, j) ==
  calls' = [calls EXCEPT ![c] = [NoCall EXCEPT !.stage = "answered", !.conflicts = j.conflicts,
              !.result = j.status]]
Answers(c, j) ==
  calls' = [calls EXCEPT ![c] = [NoCall EXCEPT !.stage = "answered", !.conflicts = j.conflicts,
              !.result = CASE j.status = "applied"  -> "merged"
                           [] j.status = "conflict" -> "conflict"
                           [] OTHER                 -> "failed"]]

Advance(stage, j) == tx' = [tx EXCEPT !.stage = stage, !.journal = j]

(* An exception before the transaction has a journal of its own: another   *)
(* call has merged and the directories are gone, or reading the journal,   *)
(* preparing the plan or staging the files fails.                          *)
FailEntry(c) ==
  /\ Enters(c) /\ (~sidecars \/ WriteFails)
  /\ Thrown(c)
  /\ forgotten' = (forgotten \/ journal.status = "running")
  /\ UNCHANGED <<trees, main, journal, sidecars, tx, down, merges, crashes, edits, decided,
                 exposed>>

FindApplied(c) ==
  /\ Enters(c) /\ sidecars /\ journal.status = "applied"
  /\ Answers(c, journal)
  /\ UNCHANGED <<trees, main, journal, sidecars, plan, tx, down, history>>

(* A running journal is that of a transaction that got no further.         *)
Resume(c) ==
  /\ Enters(c) /\ sidecars /\ journal.status = "running"
  /\ tx' = [stage |-> "verify", by |-> c, journal |-> journal, strayed |-> {}]
  /\ UNCHANGED <<trees, main, journal, sidecars, plan, calls, down, history>>

(* Anything else starts afresh; the call uses the plan of its preflight.   *)
PrepareJournal(c) ==
  /\ Enters(c) /\ sidecars
  /\ journal.status \notin {"applied", "running"}
  /\ tx' = [stage |-> "write", by |-> c,
            journal |-> Fresh(c, IF c = Recovery THEN main ELSE calls[c].seen),
            strayed |-> {}]
  /\ UNCHANGED <<trees, main, journal, sidecars, plan, calls, down, history>>

WriteFirst ==
  /\ tx.stage = "write"
  /\ journal' = tx.journal
  /\ IF tx.journal.items = {}
     THEN Advance("empty", Closed(tx.journal))
     ELSE Advance("verify", tx.journal)
  /\ UNCHANGED <<trees, main, sidecars, plan, calls, down, history>>

(* The parent may have changed since the preflight, or since the process   *)
(* died that left the journal.                                             *)
Verify ==
  /\ tx.stage = "verify"
  /\ IF MatchesJournal(tx.journal)
     THEN Advance("next", tx.journal)
     ELSE Advance("close", [tx.journal EXCEPT !.status = "stale"])
  /\ UNCHANGED <<trees, main, journal, sidecars, plan, calls, down, history>>

Applied(p) == [tx.journal EXCEPT !.applied = @ \cup {p}]

(* Mutant: an item is replaced without looking at what it holds.           *)
RemoveUnchecked ==
  LET p == NextItem(tx.journal)
  IN /\ tx.stage = "next" /\ Remaining(tx.journal) # {}
     /\ main' = [main EXCEPT ![p] = Absent]
     /\ IF tx.journal.after[p].there
        THEN Advance("replacing", tx.journal)
        ELSE Advance("log", Applied(p))
     /\ UNCHANGED <<trees, journal, sidecars, plan, calls, down, history>>

(* The item still holds what the plan was made for: it is backed up and    *)
(* removed.  A deletion is done with that.                                 *)
Remove ==
  LET p == NextItem(tx.journal)
  IN /\ tx.stage = "next" /\ Remaining(tx.journal) # {}
     /\ main[p] = tx.journal.target[p]
     /\ main' = [main EXCEPT ![p] = Absent]
     /\ IF tx.journal.after[p].there
        THEN Advance("replacing", tx.journal)
        ELSE Advance("log", Applied(p))
     /\ UNCHANGED <<trees, journal, sidecars, plan, calls, down, history>>

Place ==
  LET p == NextItem(tx.journal)
  IN /\ tx.stage = "replacing"
     /\ main' = [main EXCEPT ![p] = tx.journal.after[p]]
     /\ Advance("log", Applied(p))
     /\ UNCHANGED <<trees, journal, sidecars, plan, calls, down, history>>

Log ==
  /\ tx.stage = "log"
  /\ journal' = tx.journal
  /\ Advance("next", tx.journal)
  /\ UNCHANGED <<trees, main, sidecars, plan, calls, down, history>>

(* Mutant: the merge counts as applied although an item is left.           *)
FinishEarly ==
  /\ tx.stage = "next"
  /\ Advance("close", Closed(tx.journal))
  /\ UNCHANGED <<trees, main, journal, sidecars, plan, calls, down, history>>

Finish ==
  /\ tx.stage = "next" /\ Remaining(tx.journal) = {}
  /\ Advance("close", Closed(tx.journal))
  /\ UNCHANGED <<trees, main, journal, sidecars, plan, calls, down, history>>

(* Somebody has changed the file since the transaction looked.             *)
Refuse ==
  LET p == NextItem(tx.journal)
  IN /\ tx.stage = "next" /\ Remaining(tx.journal) # {}
     /\ main[p] # tx.journal.target[p]
     /\ Advance("rollback", tx.journal)
     /\ exposed' = exposed \cup Overwritten(tx.journal)
     /\ UNCHANGED <<trees, main, journal, sidecars, plan, calls, down, merges, crashes,
                    edits, decided, forgotten>>

(* writeJournal removes the old file before it renames the new one.        *)
WriteBreaks == journal' \in {journal, NoJournal}

(* Inside the try block: looking at the parent, removing or copying an     *)
(* item, or writing the journal fails, that of a stale or a completed      *)
(* transaction included; whatever it had applied is rolled back.           *)
FailItem ==
  /\ WriteFails
  /\ \/ tx.stage = "next" /\ Remaining(tx.journal) # {}
     \/ tx.stage \in {"verify", "replacing", "log"}
     \/ tx.stage = "close" /\ tx.journal.status # "failed"
  /\ IF tx.stage \in {"log", "close"} THEN WriteBreaks ELSE journal' = journal
  /\ tx' = [tx EXCEPT !.stage = "rollback", !.strayed =
              IF tx.stage = "verify" \/ tx.journal.status = "stale"
              THEN {p \in Remaining(tx.journal) : main[p] # tx.journal.target[p]} ELSE {}]
  /\ exposed' = exposed \cup InFlight \cup Overwritten(tx.journal)
  /\ UNCHANGED <<trees, main, sidecars, plan, calls, down, merges, crashes, edits, decided,
                 forgotten>>

(* Mutant: the first item applied is not restored.                         *)
RestoreAllButFirst ==
  LET p == LastApplied(tx.journal)
  IN /\ tx.stage = "rollback" /\ tx.journal.applied # {}
     /\ main' = IF tx.journal.applied = {p} THEN main
                ELSE [main EXCEPT ![p] = tx.journal.target[p]]
     /\ Advance("rollback", [tx.journal EXCEPT !.applied = @ \ {p}])
     /\ UNCHANGED <<trees, journal, sidecars, plan, calls, down, history>>

(* rollbackJournal, last item first; the backup is what the check before   *)
(* the replacement found, the target's entry.                              *)
Restore ==
  LET p == LastApplied(tx.journal)
  IN /\ tx.stage = "rollback" /\ tx.journal.applied # {}
     /\ main' = [main EXCEPT ![p] = tx.journal.target[p]]
     /\ Advance("rollback", [tx.journal EXCEPT !.applied = @ \ {p}])
     /\ UNCHANGED <<trees, journal, sidecars, plan, calls, down, history>>

RolledBack ==
  /\ tx.stage = "rollback" /\ tx.journal.applied = {}
  /\ Advance("close", [tx.journal EXCEPT !.status = "failed"])
  /\ UNCHANGED <<trees, main, journal, sidecars, plan, calls, down, history>>

(* Restoring stops halfway: the journal is failed all the same, and the    *)
(* exception leaves the transaction.                                       *)
RestoreBreaks ==
  LET p == LastApplied(tx.journal)
  IN /\ WriteFails
     /\ tx.stage = "rollback" /\ tx.journal.applied # {}
     /\ \E lost \in {{}, {p}} :
          /\ main' = [q \in Paths |-> IF q \in lost THEN Absent ELSE main[q]]
          /\ exposed' = exposed \cup lost
     /\ Advance("abort", [tx.journal EXCEPT !.status = "failed"])
     /\ UNCHANGED <<trees, journal, sidecars, plan, calls, down, merges, crashes, edits, decided,
                    forgotten>>

Close ==
  /\ tx.stage \in {"close", "empty"}
  /\ journal' = tx.journal
  /\ Answers(tx.by, tx.journal)
  /\ tx' = NoTx
  /\ UNCHANGED <<trees, main, sidecars, plan, down, history>>

Abort ==
  /\ tx.stage = "abort"
  /\ journal' = tx.journal
  /\ Thrown(tx.by)
  /\ tx' = NoTx
  /\ UNCHANGED <<trees, main, sidecars, down, history>>

(* Outside the try block nothing answers a failing write of the journal:   *)
(* the first one, the last one without items, and the last one after a     *)
(* rollback, in the finally block.                                         *)
WriteThrows ==
  /\ WriteFails
  /\ \/ tx.stage \in {"write", "empty", "abort"}
     \/ tx.stage = "close" /\ tx.journal.status = "failed"
  /\ WriteBreaks
  /\ Thrown(tx.by)
  /\ tx' = NoTx
  /\ forgotten' = (forgotten \/ journal'.status = "running")
  /\ UNCHANGED <<trees, main, sidecars, down, merges, crashes, edits, decided, exposed>>
-----------------------------------------------------------------------------
(* The world around the transaction.                                       *)

(* Somebody edits a file of the parent, or writes one that is not there.   *)
Edit(p) ==
  /\ edits[p] < MaxEdits
  /\ main' = [main EXCEPT ![p] = [there |-> TRUE, own |-> @.own + 1, child |-> @.child]]
  /\ edits' = [edits EXCEPT ![p] = @ + 1]
  /\ exposed' = exposed \cup ({p} \cap AtRisk)
  /\ UNCHANGED <<trees, journal, sidecars, plan, calls, tx, down, merges, crashes, decided,
                 forgotten>>

(* A crash may come inside a write of the journal as well; a file that was *)
(* being replaced or restored is gone.                                     *)
Crash ==
  LET torn == CASE tx.stage = "replacing" -> {{NextItem(tx.journal)}}
                [] tx.stage = "rollback" /\ tx.journal.applied # {}
                     -> {{}, {LastApplied(tx.journal)}}
                [] OTHER -> {{}}
  IN /\ ~down /\ crashes < MaxCrashes
     /\ down' = TRUE
     /\ crashes' = crashes + 1
     /\ tx' = NoTx
     /\ calls' = [c \in Callers |-> NoCall]
     /\ journal' \in IF tx.stage \in {"write", "empty", "log", "close", "abort"}
                     THEN {journal, NoJournal} ELSE {journal}
     /\ \E lost \in torn :
          /\ main' = [p \in Paths |-> IF p \in lost THEN Absent ELSE main[p]]
          /\ exposed' = exposed \cup lost
     /\ UNCHANGED <<trees, sidecars, plan, merges, edits, decided, forgotten>>

(* Mutant: the recovery leaves a running merge alone.                      *)
RestartOnly ==
  /\ down
  /\ down' = FALSE
  /\ UNCHANGED <<trees, main, journal, sidecars, plan, calls, tx, history>>

(* The first loop of the session in the new process reconciles the plan    *)
(* before anything else: reconcileMerge looks at a running merge only.     *)
Restart ==
  /\ down
  /\ down' = FALSE
  /\ calls' = IF plan.merge = "running"
              THEN [calls EXCEPT ![Recovery] = [NoCall EXCEPT !.stage = "begun", !.scope = Paths]]
              ELSE calls
  /\ forgotten' = (forgotten \/ (journal.status = "running" /\ plan.merge # "running"))
  /\ UNCHANGED <<trees, main, journal, sidecars, plan, tx, merges, crashes, edits, decided,
                 exposed>>
-----------------------------------------------------------------------------
ToolCall(c) ==
  \/ \E scope \in Scopes, use \in [Paths -> {"none", "main", "child"}] : Ask(c, scope, use)
  \/ Begin(c)
Answering(c) == Settle(c) \/ FailEntry(c)
Entering(c) == FindApplied(c) \/ Resume(c) \/ PrepareJournal(c)
Applying == WriteFirst \/ Verify \/ Remove \/ Place \/ Log \/ Finish \/ Close
RollingBack ==
  Refuse \/ FailItem \/ Restore \/ RolledBack \/ RestoreBreaks \/ Abort \/ WriteThrows

Next ==
  \/ \E c \in Calls : ToolCall(c)
  \/ \E c \in Callers : Answering(c) \/ Entering(c)
  \/ Applying \/ RollingBack
  \/ \E p \in Paths : Edit(p)
  \/ Cleanup \/ Crash \/ Restart

Spec == Init /\ [][Next]_vars

(* A call goes on once it has begun; somebody starts the process again.    *)
FairSpec ==
  /\ Spec
  /\ \A c \in Callers : WF_vars(Answering(c)) /\ WF_vars(Entering(c))
  /\ WF_vars(Applying) /\ WF_vars(Refuse \/ Restore \/ RolledBack \/ Abort)
  /\ WF_vars(Restart)
-----------------------------------------------------------------------------
(* A merge the plan calls merged is one whose journal has been applied to  *)
(* its last item: the two are written by different calls, and a crash may  *)
(* come between them (PlanProtocol.merge, PlanRecovery.reconcileMerge).    *)
MergedIsApplied ==
  plan.merge = "merged" /\ sidecars => journal.status = "applied" /\ journal.conflicts = {}

(* What the parent has edited stays in its files through conflicts,        *)
(* retries, stale journals, crashes and resumptions: only a resolution     *)
(* "child" gives it up, the replacement of that very file can lose it, or  *)
(* a rollback of a transaction that had already replaced the file; edits   *)
(* of files a transaction has replaced are kept when it succeeds           *)
(* (applyJournal, rollbackJournal).                                        *)
EditsSurvive ==
  \A p \in Paths \ (exposed \cup InFlight) :
    <<p, "child">> \notin decided => main[p].own = edits[p]

(* When a journal is closed as applied, every path it watched holds the    *)
(* child's version or its edit, unless somebody has resolved it with       *)
(* "main" or edited it since; the journal may have been resumed by another *)
(* process than the one that wrote it, and one without items is closed     *)
(* without looking at the parent again (applyWorkspaceMerge).  A journal   *)
(* left running by a call that threw, or found running by a process whose  *)
(* plan, overwritten by a second call, said something else, may break it:  *)
(* it is rolled back under a call that had already seen the child's files. *)
HoldsChild(p) == main[p] = child[p] \/ main[p].child > 0
AppliedHoldsChild ==
  tx.stage \in {"close", "empty"} /\ tx.journal.status = "applied" /\ ~forgotten =>
    \A p \in tx.journal.watched \ exposed :
      \/ child[p] = base[p] \/ HoldsChild(p)
      \/ <<p, "main">> \in decided
      \/ main[p].own > tx.journal.after[p].own

(* A transaction that failed and was rolled back leaves the parent as the  *)
(* plan had found it, except for files lost inside a replacement, those    *)
(* somebody has edited since, and, when a resumed journal had found the    *)
(* parent changed, files it never replaced itself: what a process that     *)
(* died had placed and not journalled stays (rollbackJournal).             *)
FailedIsRolledBack ==
  tx.stage = "close" /\ tx.journal.status = "failed" =>
    \A p \in tx.journal.items \ (exposed \cup tx.strayed) :
      main[p] = tx.journal.target[p] \/ main[p].own > tx.journal.target[p].own

(* A merge that a crash interrupted while plan and journal called it       *)
(* running is settled by the restarted process: the plan calls it running  *)
(* no more, and neither does the journal unless a file operation of the    *)
(* recovery failed without an answer (reconcileMerge).                     *)
Interrupted == down /\ plan.merge = "running" /\ journal.status = "running"
InterruptedIsSettled ==
  Interrupted ~> (plan.merge # "running" /\ (journal.status # "running" \/ forgotten))
=============================================================================
