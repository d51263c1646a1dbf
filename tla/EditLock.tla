------------------------------ MODULE EditLock ------------------------------
(***************************************************************************)
(* The edit lock of a behaviour tree: browser tabs that show the task      *)
(* editor (frontend/src/pages/ActionGraph/index.tsx), the lock calls of    *)
(* api/client.ts, the WebSocket that announces lock changes                *)
(* (contexts/WebSocketContext.tsx) and the server's handlers               *)
(* (central_server_go/internal/api/behavior_tree_lock.go).                 *)
(*                                                                         *)
(* Every await is a step of its own: the server reads the row when the     *)
(* request arrives, later writes the whole row back, and the answer is     *)
(* applied by a callback that does not look at what changed meanwhile.     *)
(* A request whose failure the page only logs is one that was never sent.  *)
(* A tab is one session: sessionId is kept in localStorage and survives a  *)
(* reload of the page.                                                     *)
(***************************************************************************)
EXTENDS Naturals, Sequences, FiniteSets

CONSTANTS Tabs,         \* browser tabs, each with the sessionId of its user
          Trees,        \* behaviour trees (templates)
          None,         \* null
          Does,         \* bound: Does[s], the kinds of request tab s makes
          MaxInFlight,  \* bound: requests between all tabs and the server
          MaxEvents     \* bound: lock messages queued for one tab

ASSUME EditLockAssumption ==
    /\ None \notin Tabs \cup Trees
    /\ Does \in [Tabs -> SUBSET {"acquire", "release", "force", "status",
                                 "heartbeat"}]
    /\ MaxInFlight \in Nat \ {0} /\ MaxEvents \in Nat \ {0}

Kinds == {"acquire", "release", "force", "status", "heartbeat"}

\* What the page is told; before that the handler has still to write, for a page
\* that waits or for one that is gone.
Pending == {"read", "orphan"}
Answers == {"ok", "locked", "denied", "error", "own", "other", "free"}

\* The lock columns of a behaviour tree's row; live: LockExpiresAt is in the future.
Locks == [owner : Tabs \cup {None}, live : BOOLEAN]
Unlocked == [owner |-> None, live |-> FALSE]

Requests == [kind : Kinds, tab : Tabs, tree : Trees,
             at : Pending \cup Answers]
\* "expired" is handled like "released"
Messages == [tree : Trees, action : {"acquired", "released"}]

VARIABLES row,        \* the server's row of each tree
          sweep,      \* trees cleanupExpiredLocks has read as expired
          net,        \* requests in flight
          events,     \* lock messages on their way to each tab
          sel,        \* selectedTemplateId
          editing,    \* isEditing
          lock,       \* lockStatus: "free", "other" or "own"
          beat        \* the tree of the interval in lockHeartbeatRef

server == <<row, sweep>>
page == <<sel, editing, lock, beat>>
vars == <<row, sweep, net, events, sel, editing, lock, beat>>

TypeOK ==
    /\ row \in [Trees -> Locks]
    /\ sweep \subseteq Trees
    /\ net \subseteq Requests /\ Cardinality(net) <= MaxInFlight
    /\ events \in [Tabs -> Seq(Messages)]
    /\ \A s \in Tabs : Len(events[s]) <= MaxEvents
    /\ sel \in [Tabs -> Trees \cup {None}]
    /\ editing \in [Tabs -> BOOLEAN]
    /\ lock \in [Tabs -> {"free", "other", "own"}]
    /\ beat \in [Tabs -> Trees \cup {None}]

(***************************************************************************)
(* The server's handlers: read the row, refuse or go on, and write every   *)
(* column of the row that was read back.                                   *)
(***************************************************************************)
Foreign(k, s) == k.live /\ k.owner # s      \* locked by someone else

AcquireBehaviorTreeLock(s, k) == IF Foreign(k, s) THEN "locked" ELSE "read"
ReleaseBehaviorTreeLock(s, k) == IF k.owner # s THEN "denied" ELSE "read"
HeartbeatBehaviorTreeLock(s, k) ==
    IF k.owner # s \/ ~k.live THEN "denied" ELSE "read"
GetBehaviorTreeLockStatus(s, k) ==
    IF ~k.live THEN "free" ELSE IF k.owner = s THEN "own" ELSE "other"

\* The forced release never looks at the lock.
Decision(s, kind, k) ==
    CASE kind = "acquire" -> AcquireBehaviorTreeLock(s, k)
      [] kind = "release" -> ReleaseBehaviorTreeLock(s, k)
      [] kind = "heartbeat" -> HeartbeatBehaviorTreeLock(s, k)
      [] kind = "status" -> GetBehaviorTreeLockStatus(s, k)
      [] OTHER -> "read"

\* The lock a handler writes.  A heartbeat writes the owner it read, which was
\* its own session.
Written(r) ==
    IF r.kind \in {"acquire", "heartbeat"} THEN [owner |-> r.tab, live |-> TRUE]
    ELSE Unlocked

\* The hub drops a message for a client that is slow; a tab ignores the message
\* that tells of its own lock.
Broadcast(t, action, by) ==
    events' = [s \in Tabs |->
        IF s # by /\ Len(events[s]) < MaxEvents
        THEN Append(events[s], [tree |-> t, action |-> action])
        ELSE events[s]]

(***************************************************************************)
(* The HTTP client.  A page waits for one request of a kind.               *)
(***************************************************************************)
Waiting(s, kind) == \E r \in net : r.tab = s /\ r.kind = kind /\ r.at # "orphan"

CanSend(s, kind) ==
    /\ kind \in Does[s]
    /\ ~ Waiting(s, kind)
    /\ Cardinality(net) < MaxInFlight

Request(s, kind, t) ==
    [kind |-> kind, tab |-> s, tree |-> t, at |-> Decision(s, kind, row[t])]

Send(s, kind, t) == net' = net \cup {Request(s, kind, t)}

\* A successful heartbeat only moves the expiry time that is shown.
Told(r) ==
    IF r.kind # "heartbeat" /\ r.at # "orphan"
    THEN {[r EXCEPT !.at = "ok"]} ELSE {}

HandlerWrite(r) ==
    /\ r \in net /\ r.at \in Pending
    /\ net' = (net \ {r}) \cup Told(r)
    /\ row' = [row EXCEPT ![r.tree] = Written(r)]
    /\ CASE r.kind = "acquire" -> Broadcast(r.tree, "acquired", r.tab)
         [] r.kind \in {"release", "force"} -> Broadcast(r.tree, "released", None)
         [] OTHER -> UNCHANGED events
    /\ UNCHANGED <<sweep, page>>

\* The database, the request or its answer fails.
RequestFails(r) ==
    /\ r \in net /\ r.at # "error"
    /\ net' = (net \ {r}) \cup
              IF r.kind = "release" /\ r.at # "orphan"
              THEN {[r EXCEPT !.at = "error"]} ELSE {}
    /\ UNCHANGED <<server, events, page>>

\* Five minutes without a heartbeat.
LockExpires(t) ==
    /\ row[t].live
    /\ row' = [row EXCEPT ![t].live = FALSE]
    /\ UNCHANGED <<sweep, net, events, page>>

cleanupExpiredLocks(t) ==
    \/ /\ row[t].owner # None /\ ~row[t].live /\ t \notin sweep
       /\ sweep' = sweep \cup {t}
       /\ UNCHANGED <<row, net, events, page>>
    \/ /\ t \in sweep
       /\ sweep' = sweep \ {t}
       /\ row' = [row EXCEPT ![t] = Unlocked]
       /\ Broadcast(t, "released", None)
       /\ UNCHANGED <<net, page>>

(***************************************************************************)
(* The page opens a tree: the effect on selectedTemplateId asks for the    *)
(* lock's status.  isEditing and the heartbeat of the tree that was open   *)
(* before stay as they are until the answer comes.  Tasks are not deleted  *)
(* here, so that a selection never becomes null again.                     *)
(***************************************************************************)
handleOpenTask(s, t) ==
    /\ sel[s] # t /\ CanSend(s, "status")
    /\ sel' = [sel EXCEPT ![s] = t]
    /\ Send(s, "status", t)
    /\ UNCHANGED <<server, events, editing, lock, beat>>

\* What a page that goes leaves behind: the handlers that have still to write.
Orphans(s) == {[r EXCEPT !.at = "orphan"] : r \in {q \in net : q.tab = s /\ q.at = "read"}}
LeftBehind(s) == {r \in net : r.tab # s} \cup Orphans(s)

\* The page is reloaded or left and opened again: only the selection
\* (localStorage) survives, and the effects of a fresh mount run.  Answers under
\* way are lost with the page.  The page before it has left nothing behind.
Remount(s) ==
    /\ sel[s] # None /\ "status" \in Does[s]
    /\ ~ \E r \in net : r.tab = s /\ r.at = "orphan"
    /\ Cardinality(LeftBehind(s)) < MaxInFlight
    /\ editing' = [editing EXCEPT ![s] = FALSE]
    /\ lock' = [lock EXCEPT ![s] = "free"]
    /\ beat' = [beat EXCEPT ![s] = None]
    /\ net' = LeftBehind(s) \cup {Request(s, "status", sel[s])}
    /\ events' = [events EXCEPT ![s] = <<>>]
    /\ UNCHANGED <<server, sel>>

\* The answer of getStatus, applied whatever tree is open by now.
fetchLockStatus(s, r) ==
    /\ lock' = [lock EXCEPT ![s] = r.at]
    /\ editing' = [editing EXCEPT ![s] = r.at = "own"]
    /\ beat' = [beat EXCEPT ![s] = IF r.at = "own" THEN r.tree ELSE @]
    /\ UNCHANGED sel

(***************************************************************************)
(* The toolbar's buttons and what their answers do.                        *)
(***************************************************************************)
EditButton(s) == sel[s] # None /\ ~editing[s] /\ lock[s] # "other"
ForceButton(s) == sel[s] # None /\ ~editing[s] /\ lock[s] = "other"
DoneButton(s) == sel[s] # None /\ editing[s]

acquireLock(s) ==
    /\ EditButton(s) /\ CanSend(s, "acquire")
    /\ Send(s, "acquire", sel[s])
    /\ UNCHANGED <<server, events, page>>

\* Mutant: the interval is not set when the lock is granted.
AcquiredUnwatched(s, r) ==
    /\ lock' = [lock EXCEPT ![s] = IF r.at = "ok" THEN "own" ELSE "other"]
    /\ editing' = [editing EXCEPT ![s] = @ \/ r.at = "ok"]
    /\ UNCHANGED <<sel, beat>>

\* Mutant: lockStatus gets the server's word for the answer.
AcquiredVerbatim(s, r) ==
    /\ lock' = [lock EXCEPT ![s] = r.at]
    /\ editing' = [editing EXCEPT ![s] = @ \/ r.at = "ok"]
    /\ beat' = [beat EXCEPT ![s] = IF r.at = "ok" THEN r.tree ELSE @]
    /\ UNCHANGED sel

Acquired(s, r) ==
    /\ lock' = [lock EXCEPT ![s] = IF r.at = "ok" THEN "own" ELSE "other"]
    /\ editing' = [editing EXCEPT ![s] = @ \/ r.at = "ok"]
    /\ beat' = [beat EXCEPT ![s] = IF r.at = "ok" THEN r.tree ELSE @]
    /\ UNCHANGED sel

\* One tick of the two-minute interval; its tree is the one that was open
\* when the interval was set.
HeartbeatTick(s) ==
    /\ beat[s] # None /\ CanSend(s, "heartbeat")
    /\ Send(s, "heartbeat", beat[s])
    /\ UNCHANGED <<server, events, page>>

\* Mutant: the status shown is left as it was.
LockLostSilently(s, r) ==
    /\ editing' = [editing EXCEPT ![s] = FALSE]
    /\ beat' = [beat EXCEPT ![s] = None]
    /\ UNCHANGED <<sel, lock>>

\* Mutant: a refused heartbeat is only logged.
LockLostIgnored(s, r) == UNCHANGED page

\* Status 409 and 403: the lock is lost.
LockLost(s, r) ==
    /\ editing' = [editing EXCEPT ![s] = FALSE]
    /\ lock' = [lock EXCEPT ![s] = "free"]
    /\ beat' = [beat EXCEPT ![s] = None]
    /\ UNCHANGED sel

forceUnlock(s) ==
    /\ ForceButton(s) /\ CanSend(s, "force")
    /\ Send(s, "force", sel[s])
    /\ UNCHANGED <<server, events, page>>

ForceUnlocked(s, r) ==
    /\ lock' = [lock EXCEPT ![s] = "free"]
    /\ UNCHANGED <<sel, editing, beat>>

\* The save that releaseLock makes first is EditorCanvas's.
releaseLock(s) ==
    /\ DoneButton(s) /\ CanSend(s, "release")
    /\ Send(s, "release", sel[s])
    /\ beat' = [beat EXCEPT ![s] = None]
    /\ UNCHANGED <<server, events, sel, editing, lock>>

\* The answer of the release call, an error included.
Released(s, r) ==
    /\ editing' = [editing EXCEPT ![s] = FALSE]
    /\ lock' = [lock EXCEPT ![s] = "free"]
    /\ UNCHANGED <<sel, beat>>

\* The answer reaches the page that asked.
Answer(r) ==
    /\ r \in net /\ r.at \notin Pending
    /\ net' = net \ {r}
    /\ \/ r.kind = "acquire" /\ Acquired(r.tab, r)
       \/ r.kind = "status" /\ fetchLockStatus(r.tab, r)
       \/ r.kind = "heartbeat" /\ LockLost(r.tab, r)
       \/ r.kind = "force" /\ ForceUnlocked(r.tab, r)
       \/ r.kind = "release" /\ Released(r.tab, r)
    /\ UNCHANGED <<server, events>>

(***************************************************************************)
(* The WebSocket.                                                          *)
(***************************************************************************)
\* Messages are routed to the subscribers of their tree, which is the open one.
\* A released lock names no session, so a tab in edit mode takes it for its own.
onLockMessage(s, m) ==
    IF m.action = "acquired"
    THEN /\ lock' = [lock EXCEPT ![s] = "other"]
         /\ UNCHANGED <<editing, beat>>
    ELSE /\ editing' = [editing EXCEPT ![s] = FALSE]
         /\ beat' = [beat EXCEPT ![s] = IF editing[s] THEN None ELSE @]
         /\ lock' = [lock EXCEPT ![s] = "free"]

onmessage(s) ==
    /\ events[s] # <<>>
    /\ events' = [events EXCEPT ![s] = Tail(@)]
    /\ IF Head(events[s]).tree = sel[s] THEN onLockMessage(s, Head(events[s]))
       ELSE UNCHANGED <<editing, lock, beat>>
    /\ UNCHANGED <<server, net, sel>>

\* What was under way when the socket closed, and what is sent before the
\* reconnection five seconds later, is lost.
onclose(s) ==
    /\ events[s] # <<>>
    /\ events' = [events EXCEPT ![s] = <<>>]
    /\ UNCHANGED <<server, net, page>>

(***************************************************************************)
Init ==
    /\ row = [t \in Trees |-> Unlocked] /\ sweep = {}
    /\ net = {} /\ events = [s \in Tabs |-> <<>>]
    /\ sel \in [Tabs -> Trees \cup {None}]
    /\ editing = [s \in Tabs |-> FALSE] /\ lock = [s \in Tabs |-> "free"]
    /\ beat = [s \in Tabs |-> None]

TabNext(s) ==
    \/ \E t \in Trees : handleOpenTask(s, t)
    \/ Remount(s) \/ acquireLock(s) \/ forceUnlock(s) \/ releaseLock(s)
    \/ HeartbeatTick(s) \/ onmessage(s) \/ onclose(s)

Next ==
    \/ \E s \in Tabs : TabNext(s)
    \/ \E r \in net : HandlerWrite(r) \/ RequestFails(r) \/ Answer(r)
    \/ \E t \in Trees : LockExpires(t) \/ cleanupExpiredLocks(t)

(***************************************************************************)
(* Fairness: the interval ticks, the server answers, and the network does  *)
(* not lose the requests of a tab for ever.  Users owe nothing.            *)
(***************************************************************************)
\* A request of one of the kinds ks that tab s has in flight gets a step further.
Served(s, ks) ==
    \E r \in net : r.tab = s /\ r.kind \in ks /\ (HandlerWrite(r) \/ Answer(r))

Fairness ==
    /\ \A s \in Tabs : SF_vars(HeartbeatTick(s))
    /\ \A s \in Tabs : SF_vars(Served(s, {"heartbeat"}))
    /\ WF_vars(\E s \in Tabs : Served(s, Kinds \ {"heartbeat"}))

Spec == Init /\ [][Next]_vars /\ Fairness

(***************************************************************************)
(* Properties                                                              *)
(***************************************************************************)
\* A tab in edit mode always has something that will tell it when its lock is
\* gone: a running heartbeat interval, or the release it has itself begun.
Releasing(s) == Waiting(s, "release")

EditingWatched ==
    \A s \in Tabs : editing[s] => beat[s] # None \/ Releasing(s)

\* The toolbar never shows the tab's own lock outside edit mode, where the only
\* button it would offer is Edit: lockStatus and isEditing change together in
\* every callback that ends a session.
OwnMeansEditing ==
    \A s \in Tabs : lock[s] = "own" => editing[s]

\* A tab whose lock was taken over, forced open or lost to a racing write finds
\* out by its heartbeat: it leaves edit mode, or has the lock again.
StaleEditorStopped ==
    \A s \in Tabs, t \in Trees :
        (editing[s] /\ beat[s] = t /\ row[t].owner # s) ~>
        (~editing[s] \/ beat[s] # t \/ row[t].owner = s)
=============================================================================
