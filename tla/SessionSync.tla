----------------------------- MODULE SessionSync -----------------------------
(***************************************************************************)
(* One session's events in several databases: the server the user talks to *)
(* (Main) and the servers of its remote workspaces.  Events are numbered   *)
(* and written by sync.run, and carried over by sync.replay                *)
(* (sync/index.ts): Main follows every remote through its history and its  *)
(* event stream, and moves the session with sessionWarp                    *)
(* (control-plane/workspace.ts).                                           *)
(*                                                                         *)
(* A replay is two steps, what it reads and its transaction.  Numbers are  *)
(* the code's: the first event has 0, and -1 stands for no row.            *)
(***************************************************************************)
EXTENDS Integers

CONSTANTS
  Main,       \* the server the user talks to
  Remotes,    \* the remote workspaces' servers
  MaxSeq,     \* bound on the events' numbers
  MaxMoves,   \* bound on the calls of sessionWarp
  MaxCuts,    \* bound on the requests and connections that fail
  MaxReverts  \* bound on the messages that a revert removes

ASSUME SyncAssumption ==
  /\ Main \notin Remotes /\ Remotes \cap {"warp", "nobody", "project"} = {}
  /\ MaxSeq \in Nat /\ MaxMoves \in Nat /\ MaxCuts \in Nat /\ MaxReverts \in Nat

VARIABLES
  log,     \* per server: the rows of the event table
  seq,     \* per server: event_sequence.seq
  mark,    \* per server: the watermark of the session's projection
  place,   \* per server: the session's workspace, Main for none
  owner,   \* event_sequence.owner_id in Main's database
  conn,    \* per remote: Main's connection to it
  todo,    \* per replayer: what it has been sent and not yet looked at
  pending, \* per replayer: what its replay has read
  warp,    \* the call of sessionWarp
  agents,  \* the servers on which a loop of the session was begun; nobody but
           \* itself ends it, and one that has ended writes no more
  moves, cuts, reverts  \* what has happened so far, for the bounds

vars == <<log, seq, mark, place, owner, conn, todo, pending, warp, agents, moves, cuts, reverts>>

Mover     == "warp"
Nobody    == "nobody"
Project   == "project"
Servers   == Remotes \cup {Main}
Replayers == Remotes \cup {Mover}

(* "removed" stands for message.removed and message.part.removed, the only *)
(* events whose type does not begin with session.; "moved" sets the        *)
(* session's workspace to that of the server that runs it.                 *)
Events == [by : Servers, seq : 0..MaxSeq, kind : {"work", "moved", "removed"}]
Ways    == {"history", "stream", "post"}
Sent    == [event : Events, from : Ways]
Reads   == [event : Events, from : Ways, known : BOOLEAN]
Nothing == [from |-> "nowhere"]
Warps  == [at : {"none", "asking", "fetching", "leaving", "posting"},
           source : Servers, target : Servers]
NoWarp == [at |-> "none", source |-> Main, target |-> Main]

TypeOK ==
  /\ log \in [Servers -> SUBSET Events]
  /\ seq \in [Servers -> -1..MaxSeq]
  /\ mark \in [Servers -> -1..MaxSeq]
  /\ place \in [Servers -> Servers]
  /\ owner \in Remotes \cup {Nobody, Project}
  /\ conn \in [Remotes -> {"off", "error", "open", "up", "dead"}]
  /\ todo \in [Replayers -> SUBSET Sent]
  /\ pending \in [Replayers -> Reads \cup {Nothing}]
  /\ warp \in Warps
  /\ agents \subseteq Servers
  /\ moves \in 0..MaxMoves /\ cuts \in 0..MaxCuts /\ reverts \in 0..MaxReverts

(* session.created has been run by Main.                                   *)
Created == [by |-> Main, seq |-> 0, kind |-> "work"]

Init ==
  /\ log = [n \in Servers |-> IF n = Main THEN {Created} ELSE {}]
  /\ seq = [n \in Servers |-> IF n = Main THEN 0 ELSE -1]
  /\ mark = seq
  /\ place = [n \in Servers |-> Main]
  /\ owner = Nobody
  /\ conn = [w \in Remotes |-> "off"]
  /\ todo = [r \in Replayers |-> {}]
  /\ pending = [r \in Replayers |-> Nothing]
  /\ warp = NoWarp
  /\ agents = {}
  /\ moves = 0 /\ cuts = 0 /\ reverts = 0
-----------------------------------------------------------------------------
(* Mutant: the watermark is the number that is expected next.              *)
MarksNext(e, m) == IF e.kind = "removed" THEN m ELSE e.seq + 1

Marks(e, m) == IF e.kind = "removed" THEN m ELSE e.seq

Moves(e, p) == IF e.kind = "moved" THEN e.by ELSE p

(* What the projector and the transaction leave of event e on server n.    *)
Projected(n, e) ==
  /\ mark' = [mark EXCEPT ![n] = Marks(e, @)]
  /\ place' = [place EXCEPT ![n] = Moves(e, @)]

Written(n, e) ==
  /\ log' = [log EXCEPT ![n] = @ \cup {e}]
  /\ seq' = [seq EXCEPT ![n] = e.seq]

As(from, events) == {[event |-> e, from |-> from] : e \in events}

(* Whoever follows server n's event stream is sent what it runs.           *)
Published(n, e) ==
  todo' = IF n \in Remotes /\ conn[n] \in {"open", "up"}
          THEN [todo EXCEPT ![n] = @ \cup As("stream", {e})]
          ELSE todo

(* sync.run: one immediate transaction numbers the event and projects it.  *)
Run(n, kind) ==
  LET e == [by |-> n, seq |-> seq[n] + 1, kind |-> kind] IN
  /\ seq[n] < MaxSeq
  /\ Written(n, e) /\ Projected(n, e) /\ Published(n, e)
-----------------------------------------------------------------------------
(* A prompt goes to the server that Main takes for the session's: Main     *)
(* proxies it unless the connection to that server is broken.              *)
Prompt ==
  LET n == place[Main] IN
  /\ n # Main => conn[n] \in {"off", "open", "up"}
  /\ agents' = agents \cup {n}
  /\ UNCHANGED <<log, seq, mark, place, owner, conn, todo, pending, warp, moves, cuts, reverts>>

Works(n) ==
  /\ n \in agents
  /\ Run(n, "work")
  /\ UNCHANGED <<owner, conn, pending, warp, agents, moves, cuts, reverts>>

(* Before it works, a prompt removes the messages that were reverted.      *)
Removes(n) ==
  /\ n \in agents /\ reverts < MaxReverts
  /\ Run(n, "removed")
  /\ reverts' = reverts + 1
  /\ UNCHANGED <<owner, conn, pending, warp, agents, moves, cuts>>
-----------------------------------------------------------------------------
(* Whose database a replayer writes to: sessionWarp posts to the target.   *)
Dest(r) == IF r = Mover /\ warp.at = "posting" THEN warp.target ELSE Main

Ignored(n) == n = Main /\ owner # Nobody

(* The history is read before the stream, either in the order of numbers.  *)
First(x, sent) ==
  \A y \in sent :
    IF x.from = y.from THEN x.event.seq <= y.event.seq ELSE x.from # "stream"

(* A replay that throws ends its caller, except in the stream, where the   *)
(* event is dropped.                                                       *)
Throws(r, x) ==
  /\ conn' = IF x.from = "history" /\ r # Mover THEN [conn EXCEPT ![r] = "dead"] ELSE conn
  /\ warp' = IF r = Mover THEN NoWarp ELSE warp
  /\ todo' = [todo EXCEPT ![r] = IF x.from = "stream" THEN @ \ {x} ELSE {}]

Skips(r, x) == todo' = [todo EXCEPT ![r] = @ \ {x}] /\ UNCHANGED <<conn, warp>>

Read(x, n) == [event |-> x.event, from |-> x.from, known |-> x.event \in log[n]]

(* replay reads the sequence row, the watermark and whether it has the     *)
(* event ...                                                               *)
Look(r) ==
  /\ pending[r] = Nothing
  /\ \E x \in todo[r] :
       LET n == Dest(r)
           k == x.event.seq IN
       /\ First(x, todo[r])
       /\ \/ (k <= mark[n] \/ Ignored(n)) /\ Skips(r, x) /\ UNCHANGED pending
          \/ k = mark[n] + 1 /\ ~Ignored(n) /\ Skips(r, x)
             /\ pending' = [pending EXCEPT ![r] = Read(x, n)]
          \/ k > mark[n] + 1 /\ ~Ignored(n) /\ Throws(r, x) /\ UNCHANGED pending
  /\ UNCHANGED <<log, seq, mark, place, owner, agents, moves, cuts, reverts>>

(* Mutant: the transaction trusts what replay has read.                    *)
NeverOvertaken(n, e) == FALSE

(* ... and its transaction looks at the watermark again.                   *)
Overtaken(n, e) == e.kind # "removed" /\ e.seq <= mark[n]

(* An event it has is projected again but not written; one that has been   *)
(* written since it looked clashes with the row's key.                     *)
Commit(r) ==
  /\ pending[r] # Nothing
  /\ pending' = [pending EXCEPT ![r] = Nothing]
  /\ LET x == pending[r]
         e == x.event
         n == Dest(r) IN
     \/ /\ Overtaken(n, e)
        /\ UNCHANGED <<log, seq, mark, place, conn, warp, todo>>
     \/ /\ ~Overtaken(n, e) /\ x.known
        /\ Projected(n, e) /\ UNCHANGED <<log, seq, conn, warp, todo>>
     \/ /\ ~Overtaken(n, e) /\ ~x.known /\ e \notin log[n]
        /\ Projected(n, e) /\ Written(n, e) /\ UNCHANGED <<conn, warp, todo>>
     \/ /\ ~Overtaken(n, e) /\ ~x.known /\ e \in log[n]
        /\ Throws(r, [event |-> e, from |-> x.from]) /\ UNCHANGED <<log, seq, mark, place>>
  /\ UNCHANGED <<owner, agents, moves, cuts, reverts>>
-----------------------------------------------------------------------------
Fails == cuts < MaxCuts /\ cuts' = cuts + 1

(* syncWorkspaceLoop: connect to the remote's event stream ...             *)
Connect(w) ==
  /\ conn[w] \in {"off", "error"}
  /\ conn' = [conn EXCEPT ![w] = "open"]
  /\ UNCHANGED <<log, seq, mark, place, owner, todo, pending, warp, agents, moves, cuts, reverts>>

(* Mutant: the bound sent is that of the first event missing.              *)
HistoryAfterNext(w) ==
  {e \in log[w] : place[Main] = w => e.seq > seq[Main] + 1}

(* The remote's events beyond what Main has, or all of them if Main does   *)
(* not know the session to be there.                                       *)
History(w) ==
  {e \in log[w] : place[Main] = w => e.seq > seq[Main]}

(* ... ask for its history (syncHistory), then follow the stream ...       *)
Ask(w) ==
  /\ conn[w] = "open"
  /\ conn' = [conn EXCEPT ![w] = "up"]
  /\ todo' = [todo EXCEPT ![w] = @ \cup As("history", History(w))]
  /\ UNCHANGED <<log, seq, mark, place, owner, pending, warp, agents, moves, cuts, reverts>>

AskFails(w) ==
  /\ conn[w] = "open" /\ Fails
  /\ conn' = [conn EXCEPT ![w] = "error"]
  /\ todo' = [todo EXCEPT ![w] = {}]
  /\ UNCHANGED <<log, seq, mark, place, owner, pending, warp, agents, moves, reverts>>

(* ... until it ends, with what has not been read of it.                   *)
Cut(w) ==
  /\ conn[w] = "up" /\ pending[w] = Nothing /\ Fails
  /\ \A x \in todo[w] : x.from = "stream"
  /\ conn' = [conn EXCEPT ![w] = "off"]
  /\ todo' = [todo EXCEPT ![w] = {}]
  /\ UNCHANGED <<log, seq, mark, place, owner, pending, warp, agents, moves, reverts>>

(* The user interface asks for the syncing again (POST /sync/start).       *)
StartSync(w) ==
  /\ conn[w] = "dead"
  /\ conn' = [conn EXCEPT ![w] = "off"]
  /\ UNCHANGED <<log, seq, mark, place, owner, todo, pending, warp, agents, moves, cuts, reverts>>
-----------------------------------------------------------------------------
Goes(to) == warp' = [warp EXCEPT !.at = to]

MoverIdle == todo[Mover] = {} /\ pending[Mover] = Nothing

(* sessionWarp: where the session is, as Main knows it.                    *)
BeginMove(t) ==
  /\ warp.at = "none" /\ moves < MaxMoves /\ t # place[Main]
  /\ warp' = [at |-> IF place[Main] = Main THEN "leaving" ELSE "asking",
              source |-> place[Main], target |-> t]
  /\ moves' = moves + 1
  /\ UNCHANGED <<log, seq, mark, place, owner, conn, todo, pending, agents, cuts, reverts>>

(* A last look at the source's events, which may fail.                     *)
AskSource ==
  /\ warp.at = "asking" /\ Goes("fetching")
  /\ \/ todo' = [todo EXCEPT ![Mover] = As("history", History(warp.source))] /\ UNCHANGED cuts
     \/ Fails /\ UNCHANGED todo
  /\ UNCHANGED <<log, seq, mark, place, owner, conn, pending, agents, moves, reverts>>

(* claim: from now on no replay writes to Main, for none names an owner.   *)
Claim ==
  /\ warp.at = "fetching" /\ MoverIdle /\ Goes("leaving")
  /\ owner' = IF warp.target = Main THEN Project ELSE warp.target
  /\ UNCHANGED <<log, seq, mark, place, conn, todo, pending, agents, moves, cuts, reverts>>

(* The source's changes cannot be applied at the target.                   *)
CopyFails ==
  /\ warp.at = "leaving" /\ warp.source # Main /\ Fails
  /\ warp' = NoWarp
  /\ UNCHANGED <<log, seq, mark, place, owner, conn, todo, pending, agents, moves, reverts>>

MoveHome ==
  /\ warp.at = "leaving" /\ warp.target = Main
  /\ Run(Main, "moved")
  /\ warp' = NoWarp
  /\ UNCHANGED <<owner, conn, pending, agents, moves, cuts, reverts>>

(* All rows of the session are posted to the target, in order ...          *)
Post ==
  /\ warp.at = "leaving" /\ warp.target # Main /\ Goes("posting")
  /\ todo' = [todo EXCEPT ![Mover] = As("post", log[Main])]
  /\ UNCHANGED <<log, seq, mark, place, owner, conn, pending, agents, moves, cuts, reverts>>

PostFails ==
  /\ warp.at = "posting" /\ pending[Mover] = Nothing /\ Fails
  /\ warp' = NoWarp
  /\ todo' = [todo EXCEPT ![Mover] = {}]
  /\ UNCHANGED <<log, seq, mark, place, owner, conn, pending, agents, moves, reverts>>

(* ... and the target makes the session its own (POST /sync/steal).        *)
Steal ==
  /\ warp.at = "posting" /\ MoverIdle
  /\ Run(warp.target, "moved")
  /\ warp' = NoWarp
  /\ UNCHANGED <<owner, conn, pending, agents, moves, cuts, reverts>>
-----------------------------------------------------------------------------
Follows(w) == Connect(w) \/ Ask(w) \/ Look(w) \/ Commit(w)

Next ==
  \/ Prompt
  \/ \E n \in Servers : Works(n) \/ Removes(n)
  \/ \E w \in Remotes : Follows(w) \/ AskFails(w) \/ Cut(w) \/ StartSync(w)
  \/ Look(Mover) \/ Commit(Mover)
  \/ \E t \in Servers : BeginMove(t)
  \/ AskSource \/ Claim \/ CopyFails \/ MoveHome \/ Post \/ PostFails \/ Steal

Spec == Init /\ [][Next]_vars

(* Main tries to connect for ever, and works through what it is sent.      *)
Fairness == \A w \in Remotes : WF_vars(Follows(w))

FairSpec == Spec /\ Fairness
-----------------------------------------------------------------------------
NoneRemoved(n) == \A e \in log[n] : e.kind # "removed"

(* A server's log has each number up to the last exactly once, and its     *)
(* projection has taken all of them, unless it holds a removal (the only   *)
(* events that leave the watermark behind).  Two replayers of one database *)
(* and its own loop may all be about to write the same number.             *)
NumbersInOrder ==
  \A n \in Servers : NoneRemoved(n) =>
    /\ mark[n] = seq[n]
    /\ \A k \in 0..seq[n] : \E e \in log[n] : e.seq = k
    /\ \A e \in log[n] : e.seq <= seq[n]
    /\ \A e, f \in log[n] : e.seq = f.seq => e = f

(* Two servers have given one number to different events.                  *)
Forked(w) == \E e \in log[w], f \in log[Main] : e.seq = f.seq /\ e # f

Lags(w) == ~Forked(w) /\ NoneRemoved(w) /\ ~(log[w] \subseteq log[Main])

(* While the session is where Main takes it to be, and nobody has claimed  *)
(* it, Main gets all that its server writes (whenever that pauses),        *)
(* whatever connections are lost on the way.                               *)
Lagging(w) == place[Main] = w /\ owner = Nobody /\ Lags(w)
CaughtUp == \A w \in Remotes : Lagging(w) ~> ~Lagging(w)

(* control-plane/workspace.ts:634, '"claim" this session so any future     *)
(* events coming from the old workspace are ignored': those of the new one *)
(* are not.                                                                *)
Unheard(w) == owner = w /\ Lags(w)
OwnerIsHeard == \A w \in Remotes : Unheard(w) ~> ~Unheard(w)
=============================================================================
