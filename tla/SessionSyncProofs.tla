-------------------------- MODULE SessionSyncProofs --------------------------
(***************************************************************************)
(* What sync.run and sync.replay keep of a session's events, for any       *)
(* servers, moves, failures and removals.                                  *)
(*                                                                         *)
(* A replay has read that its event is the next one; before its            *)
(* transaction others may write that number and more, but nobody takes     *)
(* numbers back.  So its event is at most the next one (ReadsInOrder), and *)
(* what the transaction still accepts is exactly that.                     *)
(***************************************************************************)
EXTENDS SessionSync, TLAPS

ReadsInOrder ==
  \A r \in Replayers :
    pending[r] # Nothing /\ NoneRemoved(Dest(r)) =>
      /\ pending[r].event.seq <= mark[Dest(r)] + 1
      /\ pending[r].known => pending[r].event \in log[Dest(r)]

(* sessionWarp's replays are over before it goes on, and none of them is   *)
(* of a stream.                                                            *)
MoverReads ==
  /\ warp.at \in {"fetching", "posting"} \/ MoverIdle
  /\ \A x \in todo[Mover] : x.from # "stream"
  /\ pending[Mover].from # "stream"

SyncInv == TypeOK /\ NumbersInOrder /\ ReadsInOrder /\ MoverReads
-----------------------------------------------------------------------------
LEMMA Apart == Main \notin Remotes /\ Mover \notin Remotes /\ Main \in Servers
               /\ Remotes \subseteq Servers /\ Remotes \subseteq Replayers /\ Mover \in Replayers
  BY SyncAssumption DEF Mover, Servers, Replayers

LEMMA ReadIsSomething == ASSUME NEW x \in Reads PROVE x # Nothing
  <1>1. x.from # Nothing.from
    BY DEF Reads, Ways, Nothing
  <1> QED BY <1>1

LEMMA DestIsServer == ASSUME TypeOK, NEW r \in Replayers PROVE Dest(r) \in Servers
  BY Apart DEF TypeOK, Warps, Dest

(* What an event leaves of a server's tables is again of their types.      *)
LEMMA ProjectedType ==
  ASSUME TypeOK, NEW n \in Servers, NEW e \in Events, Projected(n, e)
  PROVE  mark' \in [Servers -> -1..MaxSeq] /\ place' \in [Servers -> Servers]
  <1>1. Marks(e, mark[n]) \in -1..MaxSeq /\ Moves(e, place[n]) \in Servers
    BY SyncAssumption DEF TypeOK, Marks, Moves, Events
  <1> QED BY <1>1 DEF TypeOK, Projected

LEMMA WrittenType ==
  ASSUME TypeOK, NEW n \in Servers, NEW e \in Events, Written(n, e)
  PROVE  log' \in [Servers -> SUBSET Events] /\ seq' \in [Servers -> -1..MaxSeq]
  <1>1. e.seq \in -1..MaxSeq
    BY SyncAssumption DEF Events
  <1> QED BY <1>1 DEF TypeOK, Written

LEMMA SentAs ==
  ASSUME NEW from \in Ways, NEW events \in SUBSET Events
  PROVE  As(from, events) \subseteq Sent
  BY DEF As, Sent

(* The event that sync.run makes.                                          *)
Made(n, kind) == [by |-> n, seq |-> seq[n] + 1, kind |-> kind]

LEMMA RunType ==
  ASSUME TypeOK, NEW n \in Servers, NEW kind \in {"work", "moved", "removed"}, Run(n, kind)
  PROVE  /\ Made(n, kind) \in Events
         /\ Written(n, Made(n, kind)) /\ Projected(n, Made(n, kind))
         /\ log' \in [Servers -> SUBSET Events] /\ seq' \in [Servers -> -1..MaxSeq]
         /\ mark' \in [Servers -> -1..MaxSeq] /\ place' \in [Servers -> Servers]
         /\ todo' \in [Replayers -> SUBSET Sent]
  <1>1. seq[n] \in -1..MaxSeq /\ seq[n] < MaxSeq
    BY DEF TypeOK, Run
  <1>2. Made(n, kind) \in Events
    BY <1>1, SyncAssumption DEF Made, Events
  <1>3. Written(n, Made(n, kind)) /\ Projected(n, Made(n, kind)) /\ Published(n, Made(n, kind))
    BY DEF Run, Made
  <1>4. As("stream", {Made(n, kind)}) \subseteq Sent
    BY <1>2, SentAs DEF Ways
  <1>5. todo' \in [Replayers -> SUBSET Sent]
    BY <1>3, <1>4, Apart DEF TypeOK, Published
  <1> QED BY <1>2, <1>3, <1>5, ProjectedType, WrittenType

LEMMA ThrowsType ==
  ASSUME TypeOK, NEW r \in Replayers, NEW x \in Sent, Throws(r, x)
  PROVE  /\ conn' \in [Remotes -> {"off", "error", "open", "up", "dead"}]
         /\ warp' \in Warps /\ todo' \in [Replayers -> SUBSET Sent]
  <1>1. NoWarp \in Warps
    BY Apart DEF NoWarp, Warps
  <1> QED BY <1>1, Apart DEF TypeOK, Throws, Replayers

LEMMA LookType == ASSUME TypeOK, NEW r \in Replayers, Look(r) PROVE TypeOK'
  <1>1. PICK x \in todo[r] :
          LET n == Dest(r)
              k == x.event.seq IN
          \/ (k <= mark[n] \/ Ignored(n)) /\ Skips(r, x) /\ UNCHANGED pending
          \/ k = mark[n] + 1 /\ ~Ignored(n) /\ Skips(r, x)
             /\ pending' = [pending EXCEPT ![r] = Read(x, n)]
          \/ k > mark[n] + 1 /\ ~Ignored(n) /\ Throws(r, x) /\ UNCHANGED pending
    BY DEF Look
  <1>2. x \in Sent
    BY <1>1 DEF TypeOK
  <1>3. Read(x, Dest(r)) \in Reads
    BY <1>2 DEF Read, Reads, Sent
  <1>4. /\ conn' \in [Remotes -> {"off", "error", "open", "up", "dead"}]
        /\ warp' \in Warps /\ todo' \in [Replayers -> SUBSET Sent]
    <2>1. CASE Skips(r, x)
      BY <2>1 DEF TypeOK, Skips
    <2>2. CASE Throws(r, x)
      BY <1>2, <2>2, ThrowsType
    <2> QED BY <1>1, <2>1, <2>2
  <1>5. pending' \in [Replayers -> Reads \cup {Nothing}]
    BY <1>1, <1>3 DEF TypeOK
  <1> QED BY <1>4, <1>5 DEF TypeOK, Look

LEMMA CommitType == ASSUME TypeOK, NEW r \in Replayers, Commit(r) PROVE TypeOK'
  <1> DEFINE e == pending[r].event
             x == [event |-> e, from |-> pending[r].from]
  <1>1. pending[r] \in Reads
    BY DEF TypeOK, Commit
  <1>2. e \in Events /\ x \in Sent
    BY <1>1 DEF Reads, Sent
  <1>3. Dest(r) \in Servers
    BY DestIsServer
  <1>4. pending' \in [Replayers -> Reads \cup {Nothing}]
    BY DEF TypeOK, Commit
  <1>5. /\ log' \in [Servers -> SUBSET Events] /\ seq' \in [Servers -> -1..MaxSeq]
        /\ mark' \in [Servers -> -1..MaxSeq] /\ place' \in [Servers -> Servers]
        /\ conn' \in [Remotes -> {"off", "error", "open", "up", "dead"}]
        /\ warp' \in Warps /\ todo' \in [Replayers -> SUBSET Sent]
    <2>1. CASE UNCHANGED <<log, seq, mark, place, conn, warp, todo>>
      BY <2>1 DEF TypeOK
    <2>2. CASE Projected(Dest(r), e) /\ UNCHANGED <<log, seq, conn, warp, todo>>
      BY <2>2, <1>2, <1>3, ProjectedType DEF TypeOK
    <2>3. CASE Projected(Dest(r), e) /\ Written(Dest(r), e) /\ UNCHANGED <<conn, warp, todo>>
      BY <2>3, <1>2, <1>3, ProjectedType, WrittenType DEF TypeOK
    <2>4. CASE Throws(r, x) /\ UNCHANGED <<log, seq, mark, place>>
      BY <2>4, <1>2, ThrowsType DEF TypeOK
    <2> QED BY <2>1, <2>2, <2>3, <2>4 DEF Commit
  <1> QED BY <1>4, <1>5 DEF TypeOK, Commit

LEMMA TypeHolds == Spec => []TypeOK
  <1>1. Init => TypeOK
    BY SyncAssumption, Apart DEF Init, TypeOK, Created, Events, NoWarp, Warps
  <1>2. TypeOK /\ [Next]_vars => TypeOK'
    <2> SUFFICES ASSUME TypeOK, [Next]_vars PROVE TypeOK'
      OBVIOUS
    <2>1. CASE UNCHANGED vars
      BY <2>1 DEF TypeOK, vars
    <2>2. CASE Prompt
      BY <2>2, Apart DEF TypeOK, Prompt
    <2>3. ASSUME NEW n \in Servers, Works(n) PROVE TypeOK'
      BY <2>3, RunType DEF TypeOK, Works
    <2>4. ASSUME NEW n \in Servers, Removes(n) PROVE TypeOK'
      <3>1. reverts' \in 0..MaxReverts
        BY <2>4, SyncAssumption DEF TypeOK, Removes
      <3> QED BY <2>4, <3>1, RunType DEF TypeOK, Removes
    <2>5. ASSUME NEW w \in Remotes, Connect(w) PROVE TypeOK'
      BY <2>5 DEF TypeOK, Connect
    <2>6. ASSUME NEW w \in Remotes, Ask(w) PROVE TypeOK'
      <3>1. As("history", History(w)) \subseteq Sent
        BY SentAs, Apart DEF TypeOK, History, Ways
      <3> QED BY <2>6, <3>1, Apart DEF TypeOK, Ask
    <2>7. ASSUME NEW r \in Replayers, Look(r) \/ Commit(r) PROVE TypeOK'
      BY <2>7, LookType, CommitType
    <2>8. ASSUME NEW w \in Remotes, AskFails(w) \/ Cut(w) PROVE TypeOK'
      <3>1. cuts' \in 0..MaxCuts
        BY <2>8, SyncAssumption DEF TypeOK, AskFails, Cut, Fails
      <3> QED BY <2>8, <3>1, Apart DEF TypeOK, AskFails, Cut
    <2>9. ASSUME NEW w \in Remotes, StartSync(w) PROVE TypeOK'
      BY <2>9 DEF TypeOK, StartSync
    <2>10. ASSUME NEW t \in Servers, BeginMove(t) PROVE TypeOK'
      <3>1. moves' \in 0..MaxMoves
        BY <2>10, SyncAssumption DEF TypeOK, BeginMove
      <3>2. warp' \in Warps
        BY <2>10, Apart DEF TypeOK, BeginMove, Warps
      <3> QED BY <2>10, <3>1, <3>2 DEF TypeOK, BeginMove
    <2>11. CASE AskSource
      <3>1. cuts' \in 0..MaxCuts
        BY <2>11, SyncAssumption DEF TypeOK, AskSource, Fails
      <3>2. warp' \in Warps
        BY <2>11 DEF TypeOK, AskSource, Goes, Warps
      <3>3. As("history", History(warp.source)) \subseteq Sent
        BY SentAs DEF TypeOK, History, Ways, Warps
      <3>4. todo' \in [Replayers -> SUBSET Sent]
        BY <2>11, <3>3, Apart DEF TypeOK, AskSource
      <3> QED BY <2>11, <3>1, <3>2, <3>4 DEF TypeOK, AskSource
    <2>12. CASE Claim
      <3>1. warp' \in Warps
        BY <2>12 DEF TypeOK, Claim, Goes, Warps
      <3>2. owner' \in Remotes \cup {Nobody, Project}
        BY <2>12 DEF TypeOK, Claim, Warps, Servers
      <3> QED BY <2>12, <3>1, <3>2 DEF TypeOK, Claim
    <2>13. CASE CopyFails \/ PostFails
      <3>1. cuts' \in 0..MaxCuts
        BY <2>13, SyncAssumption DEF TypeOK, CopyFails, PostFails, Fails
      <3>2. warp' \in Warps
        BY <2>13, Apart DEF CopyFails, PostFails, NoWarp, Warps
      <3> QED BY <2>13, <3>1, <3>2, Apart DEF TypeOK, CopyFails, PostFails
    <2>14. CASE MoveHome \/ Steal
      <3>1. PICK n \in Servers : Run(n, "moved")
        BY <2>14, Apart DEF MoveHome, Steal, TypeOK, Warps
      <3>2. warp' \in Warps
        BY <2>14, Apart DEF MoveHome, Steal, NoWarp, Warps
      <3> QED BY <2>14, <3>1, <3>2, RunType DEF TypeOK, MoveHome, Steal
    <2>15. CASE Post
      <3>1. warp' \in Warps
        BY <2>15 DEF TypeOK, Post, Goes, Warps
      <3>2. As("post", log[Main]) \subseteq Sent
        BY SentAs, Apart DEF TypeOK, Ways
      <3> QED BY <2>15, <3>1, <3>2, Apart DEF TypeOK, Post
    <2> QED
      BY <2>1, <2>2, <2>3, <2>4, <2>5, <2>6, <2>7, <2>8, <2>9, <2>10, <2>11, <2>12, <2>13,
         <2>14, <2>15, Apart DEF Next, Follows
  <1> QED BY <1>1, <1>2, PTL DEF Spec

(* SessionSync.TypeOK: all variables have the values the code can give     *)
(* them.                                                                   *)
THEOREM TypeCorrect == Spec => []TypeOK
  BY TypeHolds
-----------------------------------------------------------------------------
(* The replays that go on have read what they had read, of the same server.*)
SameReads ==
  /\ \A r \in Replayers : pending'[r] # Nothing => pending'[r] = pending[r]
  /\ warp' = warp \/ pending'[Mover] = Nothing

LEMMA SameDest ==
  ASSUME SameReads, NEW r \in Replayers, pending'[r] # Nothing
  PROVE  pending'[r] = pending[r] /\ Dest(r)' = Dest(r)
  BY Apart DEF SameReads, Dest

(* A step that writes to no server ...                                     *)
LEMMA NothingWritten ==
  ASSUME SyncInv, UNCHANGED <<log, seq, mark>>, SameReads
  PROVE  NumbersInOrder' /\ ReadsInOrder'
  <1>1. NumbersInOrder'
    BY DEF SyncInv, NumbersInOrder, NoneRemoved
  <1>2. ASSUME NEW r \in Replayers, pending'[r] # Nothing, NoneRemoved(Dest(r))'
        PROVE  /\ pending'[r].event.seq <= mark'[Dest(r)'] + 1
               /\ pending'[r].known => pending'[r].event \in log'[Dest(r)']
    BY <1>2, SameDest DEF SyncInv, ReadsInOrder, NoneRemoved
  <1> QED BY <1>1, <1>2 DEF ReadsInOrder

(* ... and one that writes the next event to one of them.                  *)
LEMMA NextWritten ==
  ASSUME SyncInv, SameReads, NEW n \in Servers, NEW e \in Events,
         Written(n, e), Projected(n, e),
         NoneRemoved(n) /\ e.kind # "removed" => e.seq = seq[n] + 1
  PROVE  NumbersInOrder' /\ ReadsInOrder'
  <1> USE DEF SyncInv
  <1>1. ASSUME NEW m \in Servers, m # n
        PROVE  log'[m] = log[m] /\ seq'[m] = seq[m] /\ mark'[m] = mark[m]
    BY <1>1 DEF TypeOK, Written, Projected
  <1>2. /\ log'[n] = log[n] \cup {e} /\ seq'[n] = e.seq
        /\ mark'[n] = Marks(e, mark[n])
    BY DEF TypeOK, Written, Projected
  <1>3. ASSUME NoneRemoved(n)'
        PROVE  /\ NoneRemoved(n) /\ e.kind # "removed"
               /\ seq'[n] = seq[n] + 1 /\ mark'[n] = mark[n] + 1 /\ e.seq = seq[n] + 1
    <2>1. NoneRemoved(n) /\ e.kind # "removed"
      BY <1>2, <1>3 DEF NoneRemoved
    <2>2. mark[n] = seq[n]
      BY <2>1 DEF NumbersInOrder
    <2> QED BY <1>2, <2>1, <2>2 DEF Marks
  <1>4. ASSUME NEW m \in Servers, NoneRemoved(m)'
        PROVE  /\ mark'[m] = seq'[m]
               /\ \A k \in 0..seq'[m] : \E f \in log'[m] : f.seq = k
               /\ \A f \in log'[m] : f.seq <= seq'[m]
               /\ \A f, g \in log'[m] : f.seq = g.seq => f = g
    <2>1. CASE m # n
      BY <1>1, <1>4, <2>1 DEF NumbersInOrder, NoneRemoved
    <2>2. CASE m = n
      <3>1. /\ seq[n] \in Int /\ \A f \in log[n] : f.seq \in Int
        BY SyncAssumption DEF TypeOK, Events
      <3>2. /\ mark[n] = seq[n]
            /\ \A k \in 0..seq[n] : \E f \in log[n] : f.seq = k
            /\ \A f \in log[n] : f.seq <= seq[n]
            /\ \A f, g \in log[n] : f.seq = g.seq => f = g
        BY <1>3, <1>4, <2>2 DEF NumbersInOrder
      <3> QED BY <1>2, <1>3, <1>4, <2>2, <3>1, <3>2
    <2> QED BY <2>1, <2>2
  <1>5. ASSUME NEW r \in Replayers, pending'[r] # Nothing, NoneRemoved(Dest(r))'
        PROVE  /\ pending'[r].event.seq <= mark'[Dest(r)'] + 1
               /\ pending'[r].known => pending'[r].event \in log'[Dest(r)']
    <2>1. pending'[r] = pending[r] /\ Dest(r)' = Dest(r) /\ Dest(r) \in Servers
      BY <1>5, SameDest, DestIsServer
    <2>2. pending[r].event.seq \in Int /\ mark[Dest(r)] \in Int
      BY <1>5, <2>1, SyncAssumption DEF TypeOK, Reads, Events
    <2>3. NoneRemoved(Dest(r)) /\ mark'[Dest(r)] >= mark[Dest(r)]
      BY <1>1, <1>3, <1>5, <2>1, <2>2 DEF NoneRemoved
    <2>4. log[Dest(r)] \subseteq log'[Dest(r)]
      BY <1>1, <1>2, <2>1
    <2>5. mark'[Dest(r)] \in Int
      BY <2>1, ProjectedType DEF TypeOK
    <2>6. /\ pending[r].event.seq <= mark[Dest(r)] + 1
          /\ pending[r].known => pending[r].event \in log[Dest(r)]
      BY <1>5, <2>1, <2>3 DEF ReadsInOrder
    <2>7. pending'[r].event.seq <= mark'[Dest(r)] + 1
      BY <2>1, <2>2, <2>3, <2>5, <2>6
    <2> QED BY <2>1, <2>4, <2>6, <2>7
  <1> QED BY <1>4, <1>5 DEF NumbersInOrder, ReadsInOrder

LEMMA RunKeepsOrder ==
  ASSUME SyncInv, SameReads, NEW n \in Servers, NEW kind \in {"work", "moved", "removed"},
         Run(n, kind)
  PROVE  NumbersInOrder' /\ ReadsInOrder'
  <1>1. /\ Made(n, kind) \in Events /\ Written(n, Made(n, kind)) /\ Projected(n, Made(n, kind))
    BY RunType DEF SyncInv
  <1>2. Made(n, kind).seq = seq[n] + 1
    BY DEF Made
  <1> QED BY <1>1, <1>2, NextWritten

LEMMA LookKeepsOrder ==
  ASSUME SyncInv, NEW r \in Replayers, Look(r)
  PROVE  NumbersInOrder' /\ ReadsInOrder' /\ MoverReads'
  <1> USE DEF SyncInv
  <1>1. PICK x \in todo[r] :
          LET n == Dest(r)
              k == x.event.seq IN
          \/ (k <= mark[n] \/ Ignored(n)) /\ Skips(r, x) /\ UNCHANGED pending
          \/ k = mark[n] + 1 /\ ~Ignored(n) /\ Skips(r, x)
             /\ pending' = [pending EXCEPT ![r] = Read(x, n)]
          \/ k > mark[n] + 1 /\ ~Ignored(n) /\ Throws(r, x) /\ UNCHANGED pending
    BY DEF Look
  <1>2. pending[r] = Nothing /\ UNCHANGED <<log, seq, mark>>
    BY DEF Look
  <1>3. MoverReads'
    <2>1. CASE r = Mover
      <3>1. x.from # "stream" /\ warp.at \in {"fetching", "posting"}
        BY <1>1, <2>1 DEF MoverReads, MoverIdle
      <3>2. CASE Skips(r, x)
        <4>1. warp' = warp /\ todo'[Mover] \subseteq todo[Mover]
          BY <2>1, <3>2 DEF Skips, TypeOK
        <4>2. pending'[Mover].from # "stream"
          BY <1>1, <2>1, <3>1 DEF MoverReads, Read, TypeOK
        <4> QED BY <3>1, <4>1, <4>2 DEF MoverReads
      <3>3. CASE Throws(r, x) /\ UNCHANGED pending
        BY <1>2, <2>1, <3>1, <3>3, Apart DEF Throws, MoverReads, MoverIdle, TypeOK
      <3> QED BY <1>1, <3>2, <3>3 DEF Throws
    <2>2. CASE r # Mover
      <3>1. todo'[Mover] = todo[Mover] /\ pending'[Mover] = pending[Mover] /\ warp' = warp
        BY <1>1, <2>2, Apart DEF Skips, Throws, TypeOK
      <3> QED BY <3>1 DEF MoverReads, MoverIdle
    <2> QED BY <2>1, <2>2
  <1>5. CASE UNCHANGED pending
    <2>1. warp' = warp \/ pending[Mover] = Nothing
      BY <1>1, <1>2 DEF Skips, Throws
    <2>2. SameReads
      BY <1>5, <2>1 DEF SameReads
    <2> QED BY <1>2, <1>3, <2>2, NothingWritten
  <1>4. CASE /\ x.event.seq = mark[Dest(r)] + 1 /\ Skips(r, x)
             /\ pending' = [pending EXCEPT ![r] = Read(x, Dest(r))]
    <2>1. warp' = warp /\ \A q \in Replayers : Dest(q)' = Dest(q)
      BY <1>4 DEF Skips, Dest
    <2>2. ASSUME NEW q \in Replayers, pending'[q] # Nothing, NoneRemoved(Dest(q))'
          PROVE  /\ pending'[q].event.seq <= mark'[Dest(q)'] + 1
                 /\ pending'[q].known => pending'[q].event \in log'[Dest(q)']
      <3>1. CASE q = r
        <4>1. pending'[r] = Read(x, Dest(r))
          BY <1>4 DEF TypeOK
        <4>2. mark[Dest(r)] \in Int
          BY DestIsServer, SyncAssumption DEF TypeOK
        <4>3. pending'[q].event = x.event /\ (pending'[q].known => x.event \in log[Dest(r)])
          <5>1. Read(x, Dest(r)).event = x.event
            BY DEF Read
          <5>2. Read(x, Dest(r)).known = (x.event \in log[Dest(r)])
            BY Zenon DEF Read
          <5> QED BY <3>1, <4>1, <5>1, <5>2, Zenon
        <4>4. mark' = mark /\ log' = log /\ Dest(q)' = Dest(r)
          BY <1>2, <2>1, <3>1
        <4>5. x.event.seq <= mark[Dest(r)] + 1
          BY <1>4, <4>2
        <4> QED BY <4>3, <4>4, <4>5
      <3>2. CASE q # r
        <4>1. pending'[q] = pending[q]
          BY <1>4, <3>2 DEF TypeOK
        <4>2. pending[q] # Nothing /\ NoneRemoved(Dest(q))
          BY <1>2, <2>1, <2>2, <4>1 DEF NoneRemoved
        <4> QED BY <1>2, <2>1, <4>1, <4>2 DEF ReadsInOrder
      <3> QED BY <3>1, <3>2
    <2>3. NumbersInOrder'
      BY <1>2 DEF NumbersInOrder, NoneRemoved
    <2> QED BY <1>3, <2>2, <2>3 DEF ReadsInOrder
  <1> QED BY <1>1, <1>4, <1>5

LEMMA CommitKeepsOrder ==
  ASSUME SyncInv, NEW r \in Replayers, Commit(r)
  PROVE  NumbersInOrder' /\ ReadsInOrder' /\ MoverReads'
  <1> USE DEF SyncInv
  <1> DEFINE n == Dest(r)
             e == pending[r].event
             x == [event |-> e, from |-> pending[r].from]
  <1>1. /\ pending[r] # Nothing /\ pending[r] \in Reads /\ e \in Events /\ n \in Servers
        /\ pending' = [pending EXCEPT ![r] = Nothing]
    BY DestIsServer DEF Commit, TypeOK, Reads
  <1>2. \/ UNCHANGED <<log, seq, mark, place, conn, warp, todo>>
        \/ /\ ~Overtaken(n, e) /\ pending[r].known
           /\ Projected(n, e) /\ UNCHANGED <<log, seq, conn, warp, todo>>
        \/ /\ ~Overtaken(n, e)
           /\ Projected(n, e) /\ Written(n, e) /\ UNCHANGED <<conn, warp, todo>>
        \/ Throws(r, x) /\ UNCHANGED <<log, seq, mark, place>>
    BY DEF Commit
  <1>3. MoverReads'
    <2>1. CASE Throws(r, x)
      <3>1. CASE r = Mover
        BY <1>1, <2>1, <3>1, Apart DEF Throws, MoverReads, MoverIdle, TypeOK, Nothing
      <3>2. CASE r # Mover
        BY <1>1, <2>1, <3>2, Apart DEF Throws, MoverReads, MoverIdle, TypeOK
      <3> QED BY <3>1, <3>2
    <2>2. CASE UNCHANGED <<warp, todo>>
      BY <1>1, <2>2, Apart DEF MoverReads, MoverIdle, TypeOK, Nothing
    <2> QED BY <1>2, <2>1, <2>2
  <1>4. SameReads
    <2>1. ASSUME NEW q \in Replayers, pending'[q] # Nothing PROVE pending'[q] = pending[q]
      BY <1>1, <2>1 DEF TypeOK
    <2>2. warp' = warp \/ pending'[Mover] = Nothing
      BY <1>1, <1>2, Apart DEF Throws, TypeOK
    <2> QED BY <2>1, <2>2 DEF SameReads
  (* Without removals, what the transaction accepts is the next event.     *)
  <1>5. ASSUME NoneRemoved(n), e.kind # "removed", ~Overtaken(n, e)
        PROVE  e.seq = seq[n] + 1 /\ ~pending[r].known
    <2>1. mark[n] = seq[n] /\ \A f \in log[n] : f.seq <= seq[n]
      BY <1>1, <1>5 DEF NumbersInOrder
    <2>2. e.seq <= mark[n] + 1 /\ (pending[r].known => e \in log[n])
      BY <1>1, <1>5 DEF ReadsInOrder
    <2>3. e.seq \in Int /\ mark[n] \in Int /\ ~(e.seq <= mark[n])
      BY <1>1, <1>5, SyncAssumption DEF TypeOK, Events, Overtaken
    <2> QED BY <2>1, <2>2, <2>3
  <1>6. CASE UNCHANGED <<log, seq, mark>>
    BY <1>3, <1>4, <1>6, NothingWritten
  <1>7. CASE ~Overtaken(n, e) /\ Projected(n, e) /\ Written(n, e)
    BY <1>1, <1>3, <1>4, <1>5, <1>7, NextWritten
  <1>8. CASE ~Overtaken(n, e) /\ pending[r].known /\ Projected(n, e) /\ UNCHANGED <<log, seq>>
    (* It has the event: then it holds a removal, and nothing is claimed.  *)
    <2>1. ~NoneRemoved(n)
      <3> SUFFICES ASSUME NoneRemoved(n) PROVE FALSE
        OBVIOUS
      <3>1. e \in log[n]
        BY <1>1, <1>8 DEF ReadsInOrder
      <3>2. e.kind # "removed"
        BY <3>1 DEF NoneRemoved
      <3> QED BY <1>5, <1>8, <3>2
    <2>2. ASSUME NEW m \in Servers, NoneRemoved(m)'
          PROVE  NoneRemoved(m) /\ mark'[m] = mark[m]
      BY <1>8, <2>1, <2>2 DEF NoneRemoved, Projected, TypeOK
    <2>3. NumbersInOrder'
      BY <1>8, <2>2 DEF NumbersInOrder
    <2>4. ASSUME NEW q \in Replayers, pending'[q] # Nothing, NoneRemoved(Dest(q))'
          PROVE  /\ pending'[q].event.seq <= mark'[Dest(q)'] + 1
                 /\ pending'[q].known => pending'[q].event \in log'[Dest(q)']
      <3>1. pending'[q] = pending[q] /\ Dest(q)' = Dest(q) /\ Dest(q) \in Servers
        BY <1>4, <2>4, SameDest, DestIsServer
      <3>2. NoneRemoved(Dest(q)) /\ mark'[Dest(q)] = mark[Dest(q)]
        BY <1>8, <2>2, <2>4, <3>1 DEF NoneRemoved
      <3> QED BY <1>8, <2>4, <3>1, <3>2 DEF ReadsInOrder
    <2> QED BY <1>3, <2>3, <2>4 DEF ReadsInOrder
  <1> QED BY <1>2, <1>3, <1>6, <1>7, <1>8

LEMMA StepKeepsOrder ==
  ASSUME SyncInv, TypeOK', [Next]_vars
  PROVE  NumbersInOrder' /\ ReadsInOrder' /\ MoverReads'
  <1> USE DEF SyncInv
  <1>1. ASSUME NEW r \in Replayers, Look(r) \/ Commit(r)
        PROVE  NumbersInOrder' /\ ReadsInOrder' /\ MoverReads'
    BY <1>1, LookKeepsOrder, CommitKeepsOrder
  <1>2. ASSUME UNCHANGED <<log, seq, mark, pending>>, UNCHANGED warp \/ pending[Mover] = Nothing
        PROVE  NumbersInOrder' /\ ReadsInOrder'
    BY <1>2, NothingWritten DEF SameReads
  <1>3. ASSUME NEW n \in Servers, NEW kind \in {"work", "moved", "removed"}, Run(n, kind),
               UNCHANGED pending, UNCHANGED warp \/ pending[Mover] = Nothing
        PROVE  NumbersInOrder' /\ ReadsInOrder' /\ todo'[Mover] = todo[Mover]
    <2>1. NumbersInOrder' /\ ReadsInOrder'
      BY <1>3, RunKeepsOrder DEF SameReads
    <2>2. todo'[Mover] = todo[Mover]
      BY <1>3, Apart DEF Run, Published, TypeOK
    <2> QED BY <2>1, <2>2
  <1>4. ASSUME UNCHANGED <<pending, warp>>, todo'[Mover] = todo[Mover]
        PROVE  MoverReads'
    BY <1>4 DEF MoverReads, MoverIdle
  <1>5. CASE UNCHANGED vars
    BY <1>2, <1>4, <1>5 DEF vars
  <1>6. CASE Prompt
    BY <1>2, <1>4, <1>6 DEF Prompt
  <1>7. ASSUME NEW n \in Servers, Works(n) \/ Removes(n)
        PROVE  NumbersInOrder' /\ ReadsInOrder' /\ MoverReads'
    <2>1. PICK kind \in {"work", "moved", "removed"} : Run(n, kind) /\ UNCHANGED <<pending, warp>>
      BY <1>7 DEF Works, Removes
    <2> QED BY <1>3, <1>4, <2>1
  <1>8. ASSUME NEW w \in Remotes, Connect(w) \/ Ask(w) \/ AskFails(w) \/ Cut(w) \/ StartSync(w)
        PROVE  NumbersInOrder' /\ ReadsInOrder' /\ MoverReads'
    <2>1. UNCHANGED <<log, seq, mark, pending, warp>> /\ todo'[Mover] = todo[Mover]
      BY <1>8, Apart DEF Connect, Ask, AskFails, Cut, StartSync, TypeOK
    <2> QED BY <1>2, <1>4, <2>1
  <1>9. ASSUME NEW t \in Servers, BeginMove(t)
        PROVE  NumbersInOrder' /\ ReadsInOrder' /\ MoverReads'
    <2>1. MoverIdle
      BY <1>9 DEF BeginMove, MoverReads
    <2>2. MoverReads'
      BY <1>9, <2>1 DEF BeginMove, MoverReads, MoverIdle
    <2> QED BY <1>2, <1>9, <2>1, <2>2 DEF BeginMove, MoverIdle
  <1>10. CASE AskSource
    <2>1. MoverIdle /\ warp'.at = "fetching"
      BY <1>10 DEF AskSource, MoverReads, Goes, TypeOK, Warps
    <2>2. \A x \in todo'[Mover] : x.from # "stream"
      BY <1>10, Apart DEF AskSource, MoverReads, TypeOK, As
    <2>3. MoverReads'
      BY <1>10, <2>1, <2>2 DEF AskSource, MoverReads
    <2> QED BY <1>2, <1>10, <2>1, <2>3 DEF AskSource, MoverIdle
  <1>11. CASE Claim
    <2>1. MoverIdle
      BY <1>11 DEF Claim
    <2>2. MoverReads'
      BY <1>11, <2>1 DEF Claim, MoverReads, MoverIdle
    <2> QED BY <1>2, <1>11, <2>1, <2>2 DEF Claim, MoverIdle
  <1>12. CASE CopyFails
    <2>1. MoverIdle
      BY <1>12 DEF CopyFails, MoverReads
    <2>2. MoverReads'
      BY <1>12, <2>1 DEF CopyFails, MoverReads, MoverIdle
    <2> QED BY <1>2, <1>12, <2>1, <2>2 DEF CopyFails, MoverIdle
  <1>13. CASE PostFails
    <2>1. MoverReads'
      BY <1>13, Apart DEF PostFails, MoverReads, MoverIdle, TypeOK
    <2> QED BY <1>2, <1>13, <2>1 DEF PostFails
  <1>14. CASE MoveHome \/ Steal
    <2>1. MoverIdle
      BY <1>14 DEF MoveHome, Steal, MoverReads
    <2>2. PICK n \in Servers : Run(n, "moved")
      BY <1>14, Apart DEF MoveHome, Steal, TypeOK, Warps
    <2>3. NumbersInOrder' /\ ReadsInOrder' /\ todo'[Mover] = todo[Mover]
      BY <1>3, <1>14, <2>1, <2>2 DEF MoveHome, Steal, MoverIdle
    <2>4. MoverReads'
      BY <1>14, <2>1, <2>3 DEF MoveHome, Steal, MoverReads, MoverIdle
    <2> QED BY <2>3, <2>4
  <1>15. CASE Post
    <2>1. MoverIdle /\ warp'.at = "posting"
      BY <1>15 DEF Post, MoverReads, Goes, TypeOK, Warps
    <2>2. \A x \in todo'[Mover] : x.from # "stream"
      BY <1>15, Apart DEF Post, TypeOK, As
    <2>3. MoverReads'
      BY <1>15, <2>1, <2>2 DEF Post, MoverReads
    <2> QED BY <1>2, <1>15, <2>1, <2>3 DEF Post, MoverIdle
  <1> QED
    BY <1>1, <1>5, <1>6, <1>7, <1>8, <1>9, <1>10, <1>11, <1>12, <1>13, <1>14, <1>15, Apart
    DEF Next, Follows

(* SessionSync.NumbersInOrder: a server's log has each number up to the    *)
(* last exactly once, whoever writes to it at the same time, until it      *)
(* holds a removal.                                                        *)
THEOREM EventsNumbered == Spec => []NumbersInOrder
  <1>1. Init => NumbersInOrder /\ ReadsInOrder /\ MoverReads
    <2> SUFFICES ASSUME Init PROVE NumbersInOrder /\ ReadsInOrder /\ MoverReads
      OBVIOUS
    <2>1. ReadsInOrder /\ MoverReads
      BY Apart DEF Init, ReadsInOrder, MoverReads, MoverIdle, Nothing
    <2>2. NumbersInOrder
      <3>1. ASSUME NEW n \in Servers
            PROVE  /\ mark[n] = seq[n] /\ \A e \in log[n] : e = Created
                   /\ \/ seq[n] = 0 /\ Created \in log[n]
                      \/ seq[n] = -1 /\ log[n] = {}
        <4>1. mark[n] = seq[n]
          BY DEF Init
        <4>2. CASE n = Main
          BY <4>1, <4>2 DEF Init
        <4>3. CASE n # Main
          BY <4>1, <4>3 DEF Init
        <4> QED BY <4>2, <4>3
      <3>2. Created.seq = 0
        BY DEF Created
      <3> QED BY <3>1, <3>2 DEF NumbersInOrder
    <2> QED BY <2>1, <2>2
  <1>2. NumbersInOrder /\ ReadsInOrder /\ MoverReads /\ TypeOK /\ TypeOK' /\ [Next]_vars
        => NumbersInOrder' /\ ReadsInOrder' /\ MoverReads'
    BY StepKeepsOrder DEF SyncInv
  <1> QED BY <1>1, <1>2, TypeHolds, PTL DEF Spec
=============================================================================
