--------------------------- MODULE EditLockProofs ---------------------------
(***************************************************************************)
(* Proofs about the edit lock for any number of tabs and trees, any bounds *)
(* and any subset of requests.  LockInv carries the two properties of the  *)
(* pages; it needs the typing without the bounds, which QueueInv adds for  *)
(* TypeOK: requests in flight and queued messages stay within theirs.      *)
(***************************************************************************)
EXTENDS EditLock, FiniteSetTheorems, TLAPS

PageTypes ==
    /\ net \subseteq Requests
    /\ events \in [Tabs -> Seq(Messages)]
    /\ sel \in [Tabs -> Trees \cup {None}]
    /\ editing \in [Tabs -> BOOLEAN]
    /\ lock \in [Tabs -> {"free", "other", "own"}]
    /\ beat \in [Tabs -> Trees \cup {None}]

RowTypes == row \in [Trees -> Locks]

\* What an answer may say depends on what was asked: the page of a tab takes the
\* word of a status answer for its own lockStatus.
AnswersFit ==
    \A r \in net : r.kind = "status" => r.at \in {"own", "other", "free"}

LockInv ==
    PageTypes /\ RowTypes /\ AnswersFit /\ OwnMeansEditing /\ EditingWatched

USE DEF page, server

\* Initially nobody edits and nothing is in flight.
LEMMA LockInit == Init => LockInv
  BY EditLockAssumption
     DEF Init, LockInv, PageTypes, RowTypes, AnswersFit, OwnMeansEditing, EditingWatched,
         Locks, Unlocked, Messages

\* The request a tab sends is a request, and a status request carries its answer.
LEMMA RequestType ==
    ASSUME NEW s \in Tabs, NEW kind \in Kinds, NEW t \in Trees, RowTypes
    PROVE  /\ Request(s, kind, t) \in Requests
           /\ kind = "status" => Request(s, kind, t).at \in {"own", "other", "free"}
           /\ Request(s, kind, t).kind = kind /\ Request(s, kind, t).tab = s
           /\ Request(s, kind, t).at # "orphan"
  <1>1. Decision(s, kind, row[t]) \in {"read"} \cup Answers
    BY DEF Decision, Answers, AcquireBehaviorTreeLock, ReleaseBehaviorTreeLock,
           HeartbeatBehaviorTreeLock, GetBehaviorTreeLockStatus, Kinds
  <1>2. kind = "status" => Decision(s, kind, row[t]) \in {"own", "other", "free"}
    BY DEF Decision, GetBehaviorTreeLockStatus
  <1> QED
    BY <1>1, <1>2 DEF Request, Requests, Pending, Answers

\* A lock message queued for the tabs leaves their queues typed.
LEMMA BroadcastType ==
    ASSUME NEW t \in Trees, NEW action \in {"acquired", "released"}, NEW by,
           events \in [Tabs -> Seq(Messages)], Broadcast(t, action, by)
    PROVE  events' \in [Tabs -> Seq(Messages)]
  <1>1. [tree |-> t, action |-> action] \in Messages
    BY DEF Messages
  <1>2. \A s \in Tabs : Append(events[s], [tree |-> t, action |-> action]) \in Seq(Messages)
    BY <1>1
  <1> QED
    BY <1>2 DEF Broadcast

\* A step that sends a request, may stop the tab's interval once a release is on
\* its way, and leaves the rest of the page alone.
LEMMA SendKeeps ==
    ASSUME LockInv, NEW s \in Tabs, NEW kind \in Kinds, NEW t \in Trees, Send(s, kind, t),
           UNCHANGED <<row, events, editing, lock>>,
           sel' \in [Tabs -> Trees \cup {None}],
           \/ beat' = beat
           \/ kind = "release" /\ beat' = [beat EXCEPT ![s] = None]
    PROVE  LockInv'
  <1>1. /\ Request(s, kind, t) \in Requests
        /\ kind = "status" => Request(s, kind, t).at \in {"own", "other", "free"}
        /\ Request(s, kind, t).kind = kind /\ Request(s, kind, t).tab = s
        /\ Request(s, kind, t).at # "orphan"
    BY RequestType DEF LockInv
  <1>2. PageTypes' /\ RowTypes'
    BY <1>1 DEF LockInv, PageTypes, RowTypes, Send
  <1>3. AnswersFit'
    BY <1>1 DEF LockInv, AnswersFit, Send
  <1>4. OwnMeansEditing'
    BY DEF LockInv, OwnMeansEditing
  <1>5. ASSUME NEW u \in Tabs, editing'[u] PROVE beat'[u] # None \/ Releasing(u)'
    <2>1. Releasing(u) => Releasing(u)'
      BY DEF Releasing, Waiting, Send
    <2>2. beat[u] # None \/ Releasing(u)
      BY <1>5 DEF LockInv, EditingWatched
    <2>3. CASE beat' = beat
      BY <2>1, <2>2, <2>3
    <2>4. CASE kind = "release" /\ beat' = [beat EXCEPT ![s] = None]
      <3>1. Releasing(s)'
        BY <1>1, <2>4 DEF Releasing, Waiting, Send
      <3> QED
        BY <2>1, <2>2, <2>4, <3>1 DEF LockInv, PageTypes
    <2> QED
      BY <2>3, <2>4
  <1> QED
    BY <1>2, <1>3, <1>4, <1>5 DEF LockInv, EditingWatched

\* An answer that reaches the page of its tab.
LEMMA AnswerKeeps ==
    ASSUME LockInv, NEW r \in net, Answer(r) PROVE LockInv'
  <1> DEFINE s == r.tab
  <1>1. /\ r \in Requests /\ s \in Tabs /\ r.tree \in Trees /\ r.tree # None
        /\ net' = net \ {r} /\ row' = row /\ events' = events
        /\ r.kind = "status" => r.at \in {"own", "other", "free"}
    BY EditLockAssumption DEF LockInv, PageTypes, AnswersFit, Answer, Requests
  <1>2. /\ sel' = sel
        /\ editing' \in [Tabs -> BOOLEAN]
        /\ lock' \in [Tabs -> {"free", "other", "own"}]
        /\ beat' \in [Tabs -> Trees \cup {None}]
        /\ \A u \in Tabs \ {s} : editing'[u] = editing[u] /\ lock'[u] = lock[u] /\ beat'[u] = beat[u]
    <2>0. /\ editing \in [Tabs -> BOOLEAN] /\ lock \in [Tabs -> {"free", "other", "own"}]
          /\ beat \in [Tabs -> Trees \cup {None}]
      BY DEF LockInv, PageTypes
    <2>1. CASE r.kind = "acquire" /\ Acquired(s, r)
      BY <1>1, <2>0, <2>1 DEF Acquired
    <2>2. CASE r.kind = "status" /\ fetchLockStatus(s, r)
      BY <1>1, <2>0, <2>2 DEF fetchLockStatus
    <2>3. CASE r.kind = "heartbeat" /\ LockLost(s, r)
      BY <1>1, <2>0, <2>3 DEF LockLost
    <2>4. CASE r.kind = "force" /\ ForceUnlocked(s, r)
      BY <1>1, <2>0, <2>4 DEF ForceUnlocked
    <2>5. CASE r.kind = "release" /\ Released(s, r)
      BY <1>1, <2>0, <2>5 DEF Released
    <2> QED
      BY <2>1, <2>2, <2>3, <2>4, <2>5 DEF Answer
  <1>3. PageTypes' /\ RowTypes' /\ AnswersFit'
    BY <1>1, <1>2 DEF LockInv, PageTypes, RowTypes, AnswersFit
  <1>4. \A u \in Tabs \ {s} : /\ editing'[u] = editing[u] /\ lock'[u] = lock[u]
                              /\ beat'[u] = beat[u] /\ (Releasing(u) => Releasing(u)')
    <2>1. \A u \in Tabs \ {s} : Releasing(u) => Releasing(u)'
      BY <1>1 DEF Releasing, Waiting
    <2> QED
      BY <1>2, <2>1
  <1>5. lock'[s] = "own" => editing'[s]
    <2>0. /\ editing \in [Tabs -> BOOLEAN] /\ lock \in [Tabs -> {"free", "other", "own"}]
          /\ lock[s] = "own" => editing[s]
      BY <1>1 DEF LockInv, PageTypes, OwnMeansEditing
    <2>1. CASE r.kind = "acquire" /\ Acquired(s, r)
      BY <1>1, <2>0, <2>1 DEF Acquired
    <2>2. CASE r.kind = "status" /\ fetchLockStatus(s, r)
      BY <1>1, <2>0, <2>2 DEF fetchLockStatus
    <2>3. CASE \/ r.kind = "heartbeat" /\ LockLost(s, r)
               \/ r.kind = "force" /\ ForceUnlocked(s, r)
               \/ r.kind = "release" /\ Released(s, r)
      BY <1>1, <2>0, <2>3 DEF LockLost, ForceUnlocked, Released
    <2> QED
      BY <2>1, <2>2, <2>3 DEF Answer
  <1>6. ASSUME editing'[s] PROVE beat'[s] # None \/ Releasing(s)'
    <2>1. editing[s] => beat[s] # None \/ Releasing(s)
      BY <1>1 DEF LockInv, EditingWatched
    <2>2. r.kind # "release" => (Releasing(s) => Releasing(s)')
      BY <1>1 DEF Releasing, Waiting
    <2>3. CASE r.kind = "acquire" /\ Acquired(s, r)
      BY <1>1, <1>6, <2>1, <2>2, <2>3 DEF LockInv, PageTypes, Acquired
    <2>4. CASE r.kind = "status" /\ fetchLockStatus(s, r)
      BY <1>1, <1>6, <2>4 DEF LockInv, PageTypes, fetchLockStatus
    <2>5. CASE r.kind = "heartbeat" /\ LockLost(s, r)
      BY <1>1, <1>6, <2>5 DEF LockInv, PageTypes, LockLost
    <2>6. CASE r.kind = "force" /\ ForceUnlocked(s, r)
      BY <1>1, <1>6, <2>1, <2>2, <2>6 DEF ForceUnlocked
    <2>7. CASE r.kind = "release" /\ Released(s, r)
      BY <1>1, <1>6, <2>7 DEF LockInv, PageTypes, Released
    <2> QED
      BY <2>3, <2>4, <2>5, <2>6, <2>7 DEF Answer
  <1>7. OwnMeansEditing'
    <2> SUFFICES ASSUME NEW u \in Tabs, lock'[u] = "own" PROVE editing'[u]
      BY DEF OwnMeansEditing
    <2> QED
      BY <1>4, <1>5 DEF LockInv, OwnMeansEditing
  <1>8. EditingWatched'
    <2> SUFFICES ASSUME NEW u \in Tabs, editing'[u] PROVE beat'[u] # None \/ Releasing(u)'
      BY DEF EditingWatched
    <2>1. CASE u = s
      <3>1. editing'[s]
        BY <2>1
      <3>2. beat'[s] # None \/ Releasing(s)'
        BY <1>6, <3>1
      <3> QED
        BY <2>1, <3>2 DEF Releasing, Waiting
    <2>2. CASE u # s
      BY <1>4, <2>2 DEF LockInv, EditingWatched
    <2> QED
      BY <2>1, <2>2
  <1> QED
    BY <1>3, <1>7, <1>8 DEF LockInv

\* The server's steps leave the pages alone; a release stays in flight until its
\* answer is there.
LEMMA ServerKeeps ==
    ASSUME LockInv,
           \/ \E r \in net : HandlerWrite(r) \/ RequestFails(r)
           \/ \E t \in Trees : LockExpires(t) \/ cleanupExpiredLocks(t)
    PROVE  LockInv'
  <1>1. UNCHANGED page
    BY DEF HandlerWrite, RequestFails, LockExpires, cleanupExpiredLocks
  <1>2. ASSUME NEW r \in net, HandlerWrite(r) PROVE LockInv'
    <2>1. r \in Requests /\ r.tab \in Tabs /\ r.tree \in Trees /\ r.kind \in Kinds /\ r.kind # "status"
      BY <1>2 DEF LockInv, PageTypes, AnswersFit, HandlerWrite, Requests, Pending
    <2>2. Told(r) \subseteq Requests
          /\ \A q \in Told(r) : q.kind = r.kind /\ q.tab = r.tab /\ q.at # "orphan"
      BY <2>1 DEF Told, Requests, Answers
    <2>3. row' \in [Trees -> Locks]
      BY <1>2, <2>1 DEF LockInv, RowTypes, HandlerWrite, Written, Locks, Unlocked
    <2>4. events' \in [Tabs -> Seq(Messages)]
      <3>1. CASE r.kind = "acquire"
        BY <1>2, <2>1, <3>1, BroadcastType DEF LockInv, PageTypes, HandlerWrite
      <3>2. CASE r.kind \in {"release", "force"}
        BY <1>2, <2>1, <3>2, BroadcastType DEF LockInv, PageTypes, HandlerWrite
      <3>3. CASE r.kind = "heartbeat"
        BY <1>2, <3>3 DEF LockInv, PageTypes, HandlerWrite
      <3> QED
        BY <2>1, <3>1, <3>2, <3>3 DEF Kinds
    <2>5. net' = (net \ {r}) \cup Told(r)
      BY <1>2 DEF HandlerWrite
    <2>6. \A u \in Tabs : Releasing(u) => Releasing(u)'
      <3>1. r.kind = "release" /\ r.at # "orphan" => Told(r) # {}
        BY DEF Told
      <3> QED
        BY <2>2, <2>5, <3>1 DEF Releasing, Waiting
    <2> QED
      BY <1>1, <2>1, <2>2, <2>3, <2>4, <2>5, <2>6
         DEF LockInv, PageTypes, RowTypes, AnswersFit, OwnMeansEditing, EditingWatched
  <1>3. ASSUME NEW r \in net, RequestFails(r) PROVE LockInv'
    <2>1. r \in Requests
      BY DEF LockInv, PageTypes
    <2> DEFINE late == IF r.kind = "release" /\ r.at # "orphan"
                       THEN {[r EXCEPT !.at = "error"]} ELSE {}
    <2>2. net' = (net \ {r}) \cup late /\ row' = row /\ events' = events
      BY <1>3 DEF RequestFails
    <2>3. late \subseteq Requests
          /\ \A q \in late : q.kind = "release" /\ q.tab = r.tab /\ q.at # "orphan"
      BY <2>1 DEF Requests, Answers
    <2>4. r.kind = "release" /\ r.at # "orphan" => late # {}
      OBVIOUS
    <2> HIDE DEF late
    <2>5. \A u \in Tabs : Releasing(u) => Releasing(u)'
      BY <2>2, <2>3, <2>4 DEF Releasing, Waiting
    <2> QED
      BY <1>1, <2>2, <2>3, <2>5
         DEF LockInv, PageTypes, RowTypes, AnswersFit, OwnMeansEditing, EditingWatched
  <1>4. ASSUME NEW t \in Trees, LockExpires(t) \/ cleanupExpiredLocks(t) PROVE LockInv'
    <2>1. net' = net
      BY <1>4 DEF LockExpires, cleanupExpiredLocks
    <2>2. row' \in [Trees -> Locks]
      <3>1. [row[t] EXCEPT !.live = FALSE] \in Locks /\ Unlocked \in Locks
        BY DEF LockInv, RowTypes, Locks, Unlocked
      <3>2. \/ row' = row
            \/ row' = [row EXCEPT ![t] = [row[t] EXCEPT !.live = FALSE]]
            \/ row' = [row EXCEPT ![t] = Unlocked]
        BY <1>4 DEF LockExpires, cleanupExpiredLocks
      <3> QED
        BY <3>1, <3>2 DEF LockInv, RowTypes
    <2>3. events' \in [Tabs -> Seq(Messages)]
      <3>1. CASE events' = events
        BY <3>1 DEF LockInv, PageTypes
      <3>2. CASE Broadcast(t, "released", None)
        BY <3>2, BroadcastType DEF LockInv, PageTypes
      <3> QED
        BY <1>4, <3>1, <3>2 DEF LockExpires, cleanupExpiredLocks
    <2>4. \A u \in Tabs : Releasing(u) => Releasing(u)'
      BY <2>1 DEF Releasing, Waiting
    <2> QED
      BY <1>1, <2>1, <2>2, <2>3, <2>4
         DEF LockInv, PageTypes, RowTypes, AnswersFit, OwnMeansEditing, EditingWatched
  <1> QED
    BY <1>2, <1>3, <1>4

\* What a page leaves behind are handlers that have still to write.
LEMMA LeftBehindFits ==
    ASSUME LockInv, NEW s \in Tabs
    PROVE  /\ Orphans(s) \subseteq Requests
           /\ \A q \in Orphans(s) : q.tab = s /\ q.kind # "status"
           /\ IsFiniteSet(net) => IsFiniteSet(LeftBehind(s))
  <1> DEFINE R == {q \in net : q.tab = s /\ q.at = "read"}
             f == [r \in R |-> [r EXCEPT !.at = "orphan"]]
  <1>1. /\ R \subseteq net /\ net \subseteq Requests /\ Orphans(s) = {[r EXCEPT !.at = "orphan"] : r \in R}
        /\ \A r \in R : r.tab = s /\ r.kind # "status"
    BY DEF LockInv, PageTypes, AnswersFit, Orphans
  <1>2. f \in Surjection(R, Orphans(s))
    <2> HIDE DEF R
    <2> QED BY <1>1 DEF Surjection
  <1>3. ASSUME NEW q \in Orphans(s) PROVE q \in Requests /\ q.tab = s /\ q.kind # "status"
    <2>1. PICK r \in R : q = [r EXCEPT !.at = "orphan"]
      BY <1>1
    <2> HIDE DEF R
    <2> QED BY <1>1, <2>1 DEF Requests, Pending
  <1>4. IsFiniteSet(net) => IsFiniteSet(LeftBehind(s))
    <2> SUFFICES ASSUME IsFiniteSet(net) PROVE IsFiniteSet(LeftBehind(s))
      OBVIOUS
    <2>1. IsFiniteSet(R) /\ IsFiniteSet({r \in net : r.tab # s})
      BY FS_Subset
    <2>2. IsFiniteSet(Orphans(s))
      BY <1>2, <2>1, FS_Surjection
    <2> QED BY <2>1, <2>2, FS_Union DEF LeftBehind
  <1> QED BY <1>3, <1>4

\* A fresh mount forgets all of its tab but the selection.
LEMMA RemountKeeps ==
    ASSUME LockInv, NEW s \in Tabs, Remount(s) PROVE LockInv'
  <1>1. sel[s] \in Trees
    BY DEF LockInv, PageTypes, Remount
  <1> DEFINE q == Request(s, "status", sel[s])
  <1>2. q \in Requests /\ q.at \in {"own", "other", "free"} /\ q.kind = "status"
    BY <1>1, RequestType DEF LockInv, Kinds
  <1>l. Orphans(s) \subseteq Requests /\ \A r \in Orphans(s) : r.kind # "status"
    BY LeftBehindFits
  <1>3. /\ net' = {r \in net : r.tab # s} \cup Orphans(s) \cup {q} /\ row' = row /\ sel' = sel
        /\ events' \in [Tabs -> Seq(Messages)]
        /\ editing' = [editing EXCEPT ![s] = FALSE] /\ lock' = [lock EXCEPT ![s] = "free"]
        /\ beat' = [beat EXCEPT ![s] = None]
    BY DEF LockInv, PageTypes, Remount, LeftBehind
  <1> HIDE DEF q
  <1>4. PageTypes' /\ RowTypes' /\ AnswersFit'
    BY <1>2, <1>3, <1>l DEF LockInv, PageTypes, RowTypes, AnswersFit
  <1>5. \A u \in Tabs \ {s} : Releasing(u) => Releasing(u)'
    BY <1>3 DEF Releasing, Waiting
  <1> QED
    BY <1>3, <1>4, <1>5 DEF LockInv, PageTypes, OwnMeansEditing, EditingWatched

\* A message, or the loss of all of them.
LEMMA MessageKeeps ==
    ASSUME LockInv, NEW s \in Tabs, onmessage(s) \/ onclose(s) PROVE LockInv'
  <1>1. net' = net /\ row' = row /\ sel' = sel /\ events' \in [Tabs -> Seq(Messages)]
    <2>1. events[s] # <<>> => Tail(events[s]) \in Seq(Messages)
      BY DEF LockInv, PageTypes
    <2>2. \/ events' = [events EXCEPT ![s] = Tail(events[s])] /\ events[s] # <<>>
          \/ events' = [events EXCEPT ![s] = <<>>]
      BY DEF onmessage, onclose
    <2>3. net' = net /\ row' = row /\ sel' = sel
      BY DEF onmessage, onclose
    <2>4. events' \in [Tabs -> Seq(Messages)]
      <3>1. CASE events' = [events EXCEPT ![s] = Tail(events[s])] /\ events[s] # <<>>
        BY <2>1, <3>1 DEF LockInv, PageTypes
      <3>2. CASE events' = [events EXCEPT ![s] = <<>>]
        <4>1. <<>> \in Seq(Messages)
          OBVIOUS
        <4> QED
          BY <3>2, <4>1 DEF LockInv, PageTypes
      <3> QED
        BY <2>2, <3>1, <3>2
    <2> QED
      BY <2>3, <2>4
  <1>2. \/ UNCHANGED <<editing, lock, beat>>
        \/ lock' = [lock EXCEPT ![s] = "other"] /\ UNCHANGED <<editing, beat>>
        \/ /\ editing' = [editing EXCEPT ![s] = FALSE] /\ lock' = [lock EXCEPT ![s] = "free"]
           /\ beat' \in [Tabs -> Trees \cup {None}]
           /\ \A u \in Tabs \ {s} : beat'[u] = beat[u]
    BY DEF LockInv, PageTypes, onmessage, onclose, onLockMessage
  <1>3. \A u \in Tabs : Releasing(u) => Releasing(u)'
    BY <1>1 DEF Releasing, Waiting
  <1> QED
    BY <1>1, <1>2, <1>3 DEF LockInv, PageTypes, RowTypes, AnswersFit, OwnMeansEditing, EditingWatched

\* Every step keeps the invariant.
LEMMA LockNext == LockInv /\ [Next]_vars => LockInv'
  <1> SUFFICES ASSUME LockInv, [Next]_vars PROVE LockInv'
    OBVIOUS
  <1>1. CASE UNCHANGED vars
    BY <1>1 DEF vars, LockInv, PageTypes, RowTypes, AnswersFit, OwnMeansEditing, EditingWatched,
                Releasing, Waiting
  <1>2. ASSUME NEW s \in Tabs, TabNext(s) PROVE LockInv'
    <2>1. {"acquire", "release", "force", "status", "heartbeat"} = Kinds
      BY DEF Kinds
    <2>2. ASSUME NEW t \in Trees, handleOpenTask(s, t) PROVE LockInv'
      <3>1. sel' \in [Tabs -> Trees \cup {None}]
        BY <2>2 DEF handleOpenTask, LockInv, PageTypes
      <3> QED
        BY <2>1, <2>2, <3>1, SendKeeps DEF handleOpenTask
    <2>3. CASE acquireLock(s)
      BY <2>1, <2>3, SendKeeps DEF acquireLock, EditButton, LockInv, PageTypes
    <2>4. CASE forceUnlock(s)
      BY <2>1, <2>4, SendKeeps DEF forceUnlock, ForceButton, LockInv, PageTypes
    <2>5. CASE releaseLock(s)
      BY <2>1, <2>5, SendKeeps DEF releaseLock, DoneButton, LockInv, PageTypes
    <2>6. CASE HeartbeatTick(s)
      BY <2>1, <2>6, SendKeeps DEF HeartbeatTick, LockInv, PageTypes
    <2>7. CASE Remount(s)
      BY <2>7, RemountKeeps
    <2>8. CASE onmessage(s) \/ onclose(s)
      BY <2>8, MessageKeeps
    <2> QED
      BY <1>2, <2>2, <2>3, <2>4, <2>5, <2>6, <2>7, <2>8 DEF TabNext
  <1>3. ASSUME NEW r \in net, Answer(r) PROVE LockInv'
    BY <1>3, AnswerKeeps
  <1> QED
    BY <1>1, <1>2, <1>3, ServerKeeps DEF Next

\* A tab in edit mode always has a running heartbeat interval or a release of its
\* own in flight (acquireLock, releaseLock, fetchLockStatus and the callbacks that
\* end edit mode), for any number of tabs and trees.
THEOREM EditorsAreWatched == Spec => []EditingWatched
  <1>1. LockInv => EditingWatched
    BY DEF LockInv
  <1> QED
    BY LockInit, LockNext, <1>1, PTL DEF Spec

\* No tab shows its own lock outside edit mode (lockStatus and isEditing of the
\* task editor).
THEOREM OwnLockIsEditing == Spec => []OwnMeansEditing
  <1>1. LockInv => OwnMeansEditing
    BY DEF LockInv
  <1> QED
    BY LockInit, LockNext, <1>1, PTL DEF Spec

(***************************************************************************)
(* The bounds of the two queues                                            *)
(***************************************************************************)
QueueInv ==
    /\ LockInv
    /\ IsFiniteSet(net) /\ Cardinality(net) <= MaxInFlight
    /\ sweep \subseteq Trees
    /\ \A s \in Tabs : Len(events[s]) <= MaxEvents

\* One request more where there is room for one.
LEMMA RoomForOne ==
    ASSUME NEW S, IsFiniteSet(S), Cardinality(S) < MaxInFlight, NEW q
    PROVE  IsFiniteSet(S \cup {q}) /\ Cardinality(S \cup {q}) <= MaxInFlight
  <1>1. IsFiniteSet(S \cup {q}) /\ Cardinality(S \cup {q}) \in {Cardinality(S), Cardinality(S) + 1}
    BY FS_AddElement
  <1>2. Cardinality(S) \in Nat
    BY FS_CardinalityType
  <1> QED
    BY <1>1, <1>2, EditLockAssumption

\* A request that leaves makes room for the answer that takes its place.
LEMMA ReplacedRequest ==
    ASSUME NEW S, IsFiniteSet(S), Cardinality(S) <= MaxInFlight, NEW r \in S, NEW T,
           \/ T = S \ {r}
           \/ \E q : T = (S \ {r}) \cup {q}
    PROVE  IsFiniteSet(T) /\ Cardinality(T) <= MaxInFlight
  <1>1. IsFiniteSet(S \ {r}) /\ Cardinality(S \ {r}) = Cardinality(S) - 1
    BY FS_RemoveElement
  <1>2. Cardinality(S) \in Nat
    BY FS_CardinalityType
  <1>3. Cardinality(S \ {r}) < MaxInFlight
    BY <1>1, <1>2, EditLockAssumption
  <1>4. CASE T = S \ {r}
    BY <1>1, <1>2, <1>4, EditLockAssumption
  <1>5. ASSUME NEW q, T = (S \ {r}) \cup {q} PROVE IsFiniteSet(T) /\ Cardinality(T) <= MaxInFlight
    BY <1>1, <1>3, <1>5, RoomForOne
  <1> QED
    BY <1>4, <1>5

\* No step takes the requests in flight past their bound.
LEMMA NetBound ==
    ASSUME QueueInv, Next
    PROVE  IsFiniteSet(net') /\ Cardinality(net') <= MaxInFlight
  <1> DEFINE Goal == IsFiniteSet(net') /\ Cardinality(net') <= MaxInFlight
  <1>1. IsFiniteSet(net) /\ Cardinality(net) <= MaxInFlight
    BY DEF QueueInv
  <1>2. ASSUME net' = net PROVE Goal
    BY <1>1, <1>2
  <1>3. ASSUME NEW s \in Tabs, NEW kind, NEW t, CanSend(s, kind), Send(s, kind, t) PROVE Goal
    BY <1>1, <1>3, RoomForOne DEF CanSend, Send
  <1>4. ASSUME NEW s \in Tabs, Remount(s) PROVE Goal
    <2> DEFINE S == LeftBehind(s)
    <2>1. IsFiniteSet(S)
      BY <1>1, LeftBehindFits DEF QueueInv
    <2>2. Cardinality(S) < MaxInFlight /\ net' = S \cup {Request(s, "status", sel[s])}
      BY <1>4 DEF Remount
    <2> HIDE DEF S
    <2> QED
      BY <2>1, <2>2, RoomForOne
  <1>5. ASSUME NEW r \in net, HandlerWrite(r) \/ RequestFails(r) \/ Answer(r) PROVE Goal
    <2>1. net' = net \ {r} \/ \E q : net' = (net \ {r}) \cup {q}
      <3>1. CASE HandlerWrite(r)
        BY <3>1 DEF HandlerWrite, Told
      <3>2. CASE RequestFails(r)
        BY <3>2 DEF RequestFails
      <3>3. CASE Answer(r)
        BY <3>3 DEF Answer
      <3> QED
        BY <1>5, <3>1, <3>2, <3>3
    <2> QED
      BY <1>1, <2>1, ReplacedRequest
  <1>6. ASSUME NEW s \in Tabs, TabNext(s) PROVE Goal
    <2>1. ASSUME NEW t \in Trees, handleOpenTask(s, t) PROVE Goal
      BY <2>1, <1>3 DEF handleOpenTask
    <2>2. CASE acquireLock(s)
      BY <2>2, <1>3 DEF acquireLock
    <2>3. CASE forceUnlock(s)
      BY <2>3, <1>3 DEF forceUnlock
    <2>4. CASE releaseLock(s)
      BY <2>4, <1>3 DEF releaseLock
    <2>5. CASE HeartbeatTick(s)
      BY <2>5, <1>3 DEF HeartbeatTick
    <2>6. CASE onmessage(s) \/ onclose(s)
      BY <2>6, <1>2 DEF onmessage, onclose
    <2> QED
      BY <1>4, <1>6, <2>1, <2>2, <2>3, <2>4, <2>5, <2>6 DEF TabNext
  <1>7. ASSUME NEW t \in Trees, LockExpires(t) \/ cleanupExpiredLocks(t) PROVE Goal
    BY <1>2, <1>7 DEF LockExpires, cleanupExpiredLocks
  <1> QED
    BY <1>5, <1>6, <1>7 DEF Next

\* The hub drops a message for a tab whose queue is full.
LEMMA BroadcastBound ==
    ASSUME QueueInv, NEW t, NEW action, NEW by, Broadcast(t, action, by), NEW s \in Tabs
    PROVE  Len(events'[s]) <= MaxEvents
  <1>1. events[s] \in Seq(Messages) /\ Len(events[s]) <= MaxEvents
    BY DEF QueueInv, LockInv, PageTypes
  <1>2. \A m : Len(Append(events[s], m)) = Len(events[s]) + 1
    BY <1>1
  <1>3. events'[s] = IF s # by /\ Len(events[s]) < MaxEvents
                     THEN Append(events[s], [tree |-> t, action |-> action]) ELSE events[s]
    BY DEF Broadcast
  <1>4. Len(events[s]) \in Nat /\ MaxEvents \in Nat
    BY <1>1, EditLockAssumption
  <1> QED
    BY <1>1, <1>2, <1>3, <1>4

\* No step takes the messages queued for a tab past their bound.
LEMMA EventsBound ==
    ASSUME QueueInv, Next, NEW s \in Tabs
    PROVE  Len(events'[s]) <= MaxEvents
  <1>1. /\ events \in [Tabs -> Seq(Messages)] /\ \A u \in Tabs : Len(events[u]) <= MaxEvents
        /\ events[s] \in Seq(Messages) /\ Len(events[s]) \in Nat /\ MaxEvents \in Nat
    BY EditLockAssumption DEF QueueInv, LockInv, PageTypes
  <1> DEFINE Moves ==
          \/ events' = events
          \/ \E t, action, by : Broadcast(t, action, by)
          \/ \E u \in Tabs : events[u] # <<>> /\ events' = [events EXCEPT ![u] = Tail(events[u])]
          \/ \E u \in Tabs : events' = [events EXCEPT ![u] = <<>>]
  <1>2. Moves
    <2>1. ASSUME NEW u \in Tabs, TabNext(u) PROVE Moves
      BY <2>1 DEF TabNext, handleOpenTask, Remount, acquireLock, forceUnlock, releaseLock,
                  HeartbeatTick, onmessage, onclose
    <2>2. ASSUME NEW r \in net, HandlerWrite(r) \/ RequestFails(r) \/ Answer(r) PROVE Moves
      <3>1. CASE HandlerWrite(r)
        <4>1. \/ Broadcast(r.tree, "acquired", r.tab)
              \/ Broadcast(r.tree, "released", None)
              \/ events' = events
          BY <3>1 DEF HandlerWrite
        <4> QED
          BY <4>1
      <3>2. CASE RequestFails(r) \/ Answer(r)
        BY <3>2 DEF RequestFails, Answer
      <3> QED
        BY <2>2, <3>1, <3>2
    <2>3. ASSUME NEW t \in Trees, LockExpires(t) \/ cleanupExpiredLocks(t) PROVE Moves
      BY <2>3 DEF LockExpires, cleanupExpiredLocks
    <2> QED
      BY <2>1, <2>2, <2>3 DEF Next
  <1>3. CASE events' = events
    BY <1>1, <1>3
  <1>4. CASE \E t, action, by : Broadcast(t, action, by)
    BY <1>4, BroadcastBound
  <1>5. ASSUME NEW u \in Tabs, events[u] # <<>>, events' = [events EXCEPT ![u] = Tail(events[u])]
        PROVE  Len(events'[s]) <= MaxEvents
    <2>1. events[s] # <<>> => Len(Tail(events[s])) = Len(events[s]) - 1
      BY <1>1
    <2>2. events'[s] = IF s = u THEN Tail(events[s]) ELSE events[s]
      BY <1>1, <1>5
    <2> QED
      BY <1>1, <1>5, <2>1, <2>2
  <1>6. ASSUME NEW u \in Tabs, events' = [events EXCEPT ![u] = <<>>]
        PROVE  Len(events'[s]) <= MaxEvents
    <2>1. Len(<<>>) = 0
      OBVIOUS
    <2>2. events'[s] = IF s = u THEN <<>> ELSE events[s]
      BY <1>1, <1>6
    <2> QED
      BY <1>1, <2>1, <2>2
  <1> QED
    BY <1>2, <1>3, <1>4, <1>5, <1>6

\* Every step keeps the bounds.
LEMMA QueueNext == QueueInv /\ [Next]_vars => QueueInv'
  <1> SUFFICES ASSUME QueueInv, [Next]_vars PROVE QueueInv'
    OBVIOUS
  <1>1. LockInv'
    BY LockNext DEF QueueInv
  <1>2. CASE UNCHANGED vars
    BY <1>1, <1>2 DEF vars, QueueInv
  <1>3. CASE Next
    <2>1. sweep' \subseteq Trees
      BY <1>3 DEF QueueInv, Next, TabNext, handleOpenTask, Remount, acquireLock, forceUnlock,
                  releaseLock, HeartbeatTick, onmessage, onclose, HandlerWrite, RequestFails,
                  Answer, LockExpires, cleanupExpiredLocks
    <2> QED
      BY <1>1, <1>3, <2>1, NetBound, EventsBound DEF QueueInv
  <1> QED
    BY <1>2, <1>3

\* The state of the lock protocol is well formed, and the requests between the
\* tabs and the server and the messages of the hub stay within their bounds: the
\* page takes at most one place of a request for its answer, and the hub drops
\* what a slow client cannot take.
THEOREM EditLockTyped == Spec => []TypeOK
  <1>1. Init => QueueInv
    <2>1. IsFiniteSet({}) /\ Cardinality({}) = 0
      BY FS_EmptySet
    <2>2. Len(<<>>) = 0
      OBVIOUS
    <2> QED
      BY LockInit, <2>1, <2>2, EditLockAssumption DEF Init, QueueInv
  <1>2. QueueInv => TypeOK
    BY DEF QueueInv, LockInv, PageTypes, RowTypes, TypeOK
  <1> QED
    BY QueueNext, <1>1, <1>2, PTL DEF Spec
=============================================================================
