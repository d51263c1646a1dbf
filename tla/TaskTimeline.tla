---------------------------- MODULE TaskTimeline ----------------------------
(***************************************************************************)
(* The task sequence of each agent on the planning page                    *)
(* (frontend/src/pages/PDDL/index.tsx) while a realtime session runs: the  *)
(* page polls the session, then the executions that are active in it, and  *)
(* folds the plan and the steps it was told of into one row per agent.     *)
(* The server keeps the steps of an execution in a map, so each answer     *)
(* lists them in an order of its own.                                      *)
(*                                                                         *)
(* Names and step texts are left out; a task names the one resource that   *)
(* its step holds while it runs.  The page has not executed a plan itself  *)
(* (module PddlPage does).                                                 *)
(***************************************************************************)
EXTENDS Naturals, Sequences, FiniteSets, SequencesExt, FiniteSetsExt, Sublists

CONSTANTS PlanOf,     \* PlanOf[e]: the assignments [agent, task, order] of execution e
          NoRun,      \* no execution
          MaxReads,   \* bound: refreshes of the executions under way
          MaxPolled,  \* bound: polls of the session under way
          MaxRounds   \* bound: polls and ticks of the page

Runs == DOMAIN PlanOf       \* executions, numbered as their ids sort
\* The agents of the session.
Workers == {x.agent : x \in UNION {PlanOf[e] : e \in Runs}}

ASSUME TimelineAssumption ==
    /\ NoRun \notin Runs /\ Len(PlanOf) \in Nat /\ Runs = 1 .. Len(PlanOf)
    /\ MaxReads \in Nat \ {0} /\ MaxPolled \in Nat /\ MaxRounds \in Nat
    /\ \A e \in Runs : /\ IsFiniteSet(PlanOf[e]) /\ \A x \in PlanOf[e] : x.order \in Nat
                       /\ \A x, y \in PlanOf[e] : x.task = y.task => x = y

VARIABLES runs,    \* the server's executions: status, and the status of each task
          session, \* the server's realtime session
          line,    \* the page: ids and plan of the session, executions, allocations
          polled,  \* answers to polls of the session under way
          reads,   \* refreshes of the executions under way
          rounds

lineVars == <<runs, session, line, polled, reads, rounds>>

StepStatus == {"pending", "running", "completed", "failed", "cancelled"}
Over == {"completed", "failed", "cancelled"}

(***************************************************************************)
(* The server                                                              *)
(***************************************************************************)
\* The tick starts a plan only with agents that no active execution uses.
Busy == {x.agent : x \in UNION {PlanOf[e] : e \in session.live}}
startPlanExecution(e) ==
    /\ session.open /\ runs[e].status = "none"
    /\ {x.agent : x \in PlanOf[e]} \cap Busy = {}
    /\ runs' = [runs EXCEPT ![e].status = "running"]
    /\ session' = [session EXCEPT !.live = @ \cup {e}, !.last = e]
    /\ UNCHANGED <<line, polled, reads, rounds>>

\* Tasks of one order run together, the next order once all have completed.
dispatchStep(e, x) ==
    /\ runs[e].status = "running" /\ runs[e].step[x.task] = "pending"
    /\ \A y \in PlanOf[e] : y.order < x.order => runs[e].step[y.task] = "completed"
    /\ runs' = [runs EXCEPT ![e].step[x.task] = "running"]
    /\ UNCHANGED <<session, line, polled, reads, rounds>>

\* Only a cancelled execution has cancelled steps; the page shows none of its
\* steps, which are left as they were.
StepEnds(e, x, outcome) ==
    /\ runs[e].status = "running" /\ runs[e].step[x.task] = "running"
    /\ runs' = [runs EXCEPT ![e].step[x.task] = outcome]
    /\ UNCHANGED <<session, line, polled, reads, rounds>>

\* An execution ends when its last order has, or an order with a failed task.
runPlanExecution(e) ==
    LET ended == {runs[e].step[x.task] : x \in PlanOf[e]}
    IN /\ runs[e].status = "running" /\ "running" \notin ended
       /\ \/ ended = {"completed"} /\ runs' = [runs EXCEPT ![e].status = "completed"]
          \/ /\ "failed" \in ended
             /\ \A x, y \in PlanOf[e] : x.order = y.order /\ runs[e].step[x.task] \in Over
                                            => runs[e].step[y.task] \in Over
             /\ runs' = [runs EXCEPT ![e].status = "failed"]
       /\ UNCHANGED <<session, line, polled, reads, rounds>>

syncExecutions ==
    /\ session' = [session EXCEPT !.live = {e \in @ : runs[e].status = "running"}]
    /\ session' # session
    /\ UNCHANGED <<runs, line, polled, reads, rounds>>

\* Stopping a session cancels its executions.
StopSession ==
    /\ session.open
    /\ session' = [session EXCEPT !.open = FALSE, !.live = {}]
    /\ runs' = [e \in Runs |-> IF e \in session.live THEN [runs[e] EXCEPT !.status = "cancelled"]
                               ELSE runs[e]]
    /\ UNCHANGED <<line, polled, reads, rounds>>

\* GetExecution: Snapshot lists the map of steps in any order.
Snapshots(e) ==
    {[status |-> runs[e].status, resources |-> Held, steps |-> s] :
        s \in {[i \in DOMAIN p |-> [agent |-> p[i].agent, task |-> p[i].task, order |-> p[i].order,
                                    status |-> runs[e].step[p[i].task]]] : p \in SetToSeqs(PlanOf[e])},
        Held \in {{[resource |-> x.task, holder |-> x.agent] :
                      x \in {y \in PlanOf[e] : runs[e].step[y.task] = "running"}}}}

(***************************************************************************)
(* The polls.  realtimeActiveExecutionIds is a new array at each poll of a *)
(* session with executions, and an empty one is sent as no array: the      *)
(* effect on it runs again at each poll but those between two empty ones,  *)
(* and its clean-up makes the refreshes under way ignore their answers.    *)
(***************************************************************************)
Live == At([e \in Runs |-> e], session.live)
PollOnce == rounds < MaxRounds /\ rounds' = rounds + 1
pollSession ==
    /\ line.session /\ session.open /\ Cardinality(polled) < MaxPolled
    /\ polled' = polled \cup {[ids |-> Live, plan |-> session.last]}
    /\ PollOnce /\ UNCHANGED <<runs, session, line, reads>>

refreshRealtimeExecutions(ids) == [ids |-> ids, got |-> << >>]

\* Mutant: no clean-up.
CancelNoReads(rs) == rs

CancelReads(rs) == {}

\* setRealtimeSession and the effect on the executions.
SessionPolled(p) ==
    LET rerun == line.ids # << >> \/ p.ids # << >>
        empty == rerun /\ p.ids = << >>
    IN /\ polled' = polled \ {p}
       /\ line' = [line EXCEPT !.ids = p.ids, !.plan = p.plan,
                               !.map = IF empty THEN << >> ELSE @, !.held = IF empty THEN << >> ELSE @]
       /\ reads' = (IF rerun THEN CancelReads(reads) ELSE reads)
                       \cup IF p.ids = << >> THEN {} ELSE {refreshRealtimeExecutions(p.ids)}
       /\ UNCHANGED <<runs, session, rounds>>

\* setInterval: another refresh starts whether or not the last one has ended.
RefreshTick ==
    /\ line.ids # << >> /\ Cardinality(reads) < MaxReads
    /\ reads' = reads \cup {refreshRealtimeExecutions(line.ids)}
    /\ PollOnce /\ UNCHANGED <<runs, session, line, polled>>

\* The requests of a refresh are answered or fail, each on its own, at one time.
ExecutionRead(r) ==
    /\ r.got = << >>
    /\ \E answer \in [DOMAIN r.ids -> UNION {Snapshots(e) : e \in Range(r.ids)} \cup {NoRun}] :
         /\ \A i \in DOMAIN r.ids : answer[i] \in Snapshots(r.ids[i]) \cup {NoRun}
         /\ reads' = (reads \ {r}) \cup {[r EXCEPT !.got = answer]}
    /\ UNCHANGED <<runs, session, line, polled, rounds>>

\* What a complete refresh shows: executions that are not over, in the order
\* of the ids, and the first allocation of each resource.
Fetched(r) ==
    LET Answer(i) == r.got[i]
        kept == {i \in DOMAIN r.ids : Answer(i) # NoRun /\ Answer(i).status \notin Over}
        First(seen, i) ==
            seen \o SetToSeq({a \in Answer(i).resources :
                                \A k \in DOMAIN seen : seen[k].resource # a.resource})
    IN [map |-> [e \in {r.ids[i] : i \in kept} |-> Answer(CHOOSE i \in kept : r.ids[i] = e).steps],
        held |-> FoldLeft(First, << >>, SetToSortSeq(kept, <))]

RefreshDone(r) ==
    /\ Len(r.got) = Len(r.ids)
    /\ line' = [line EXCEPT !.map = Fetched(r).map, !.held = Fetched(r).held]
    /\ reads' = reads \ {r}
    /\ UNCHANGED <<runs, session, polled, rounds>>

\* realtimeSessionId becomes null: the stop is answered, or a poll finds no session.
SessionGone ==
    /\ line.session /\ ~ session.open
    /\ line' = [line EXCEPT !.session = FALSE, !.ids = << >>, !.plan = NoRun, !.map = << >>,
                            !.held = IF line.ids # << >> THEN << >> ELSE @]
    /\ polled' = {}
    /\ reads' = IF line.ids # << >> THEN CancelReads(reads) ELSE reads
    /\ UNCHANGED <<runs, session, rounds>>

(***************************************************************************)
(* The rows                                                                *)
(***************************************************************************)
sequenceStatusRank ==
    [running |-> 5, failed |-> 4, cancelled |-> 3, pending |-> 2, completed |-> 1]
mergeSequenceStatus(current, next) ==
    IF sequenceStatusRank[next] > sequenceStatusRank[current] THEN next ELSE current

\* realtimeExecutionSteps, which effectiveExecutionSteps is in a session.
effectiveExecutionSteps ==
    LET Of(e) == IF e \in DOMAIN line.map THEN line.map[e] ELSE << >>
    IN Flatten([i \in DOMAIN line.ids |-> Of(line.ids[i])])

\* The selected agents, which the session was started with, and those of the steps.
runtimeAgentIds == Workers \cup {s.agent : s \in Range(effectiveExecutionSteps)}

\* The sort of a list by order, which is stable.
ByOrder(blocks) == SortedBy(blocks, [b \in Elements(blocks) |-> b.order])

\* A step joins the block before it when they are of the same task.
AppendStep(list, s) ==
    LET b == Last(list)
        one == IF s.status = "completed" THEN 1 ELSE 0
    IN IF list # << >> /\ b.task = s.task
       THEN [list EXCEPT ![Len(list)] =
               [task |-> b.task, order |-> Min({b.order, s.order}),
                status |-> mergeSequenceStatus(b.status, s.status),
                total |-> b.total + 1, completed |-> b.completed + one]]
       ELSE Append(list, [task |-> s.task, order |-> s.order, status |-> s.status, total |-> 1,
                          completed |-> one])

executionTaskBlocksByAgent(a) ==
    LET own == Filter(effectiveExecutionSteps, LAMBDA s : s.agent = a)
        upTo[i \in 0 .. Len(own)] == IF i = 0 THEN << >> ELSE AppendStep(upTo[i - 1], own[i])
    IN ByOrder(upTo[Len(own)])

\* The plan's assignments come sorted by order.
Assignments ==
    IF line.plan = NoRun THEN << >>
    ELSE ByOrder(SetToSeq(PlanOf[line.plan]))
plannedTaskBlocksByAgent(a) ==
    LET own == Filter(Assignments, LAMBDA x : x.agent = a)
    IN ByOrder([i \in DOMAIN own |-> [task |-> own[i].task, order |-> own[i].order, status |-> "pending",
                                      total |-> 0, completed |-> 0]])

\* Mutant: the block that comes later decides the status.
MergeBlockStatus(line0, b) ==
    IF \E i \in DOMAIN line0 : line0[i].task = b.task
    THEN [i \in DOMAIN line0 |-> IF line0[i].task # b.task THEN line0[i]
                                 ELSE [b EXCEPT !.order = Min({line0[i].order, b.order})]]
    ELSE Append(line0, b)

\* mergedTimeline.set: a block takes the place of the one of its task.
MergeBlock(line0, b) ==
    IF \E i \in DOMAIN line0 : line0[i].task = b.task
    THEN [i \in DOMAIN line0 |->
            IF line0[i].task # b.task THEN line0[i]
            ELSE [b EXCEPT !.order = Min({line0[i].order, b.order}),
                           !.status = mergeSequenceStatus(line0[i].status, b.status)]]
    ELSE Append(line0, b)

timeline(a) ==
    LET blocks == executionTaskBlocksByAgent(a)
        upTo[i \in 0 .. Len(blocks)] ==
            IF i = 0 THEN plannedTaskBlocksByAgent(a) ELSE MergeBlock(upTo[i - 1], blocks[i])
    IN ByOrder(upTo[Len(blocks)])

\* The block shown as current: the first that runs, else the first that waits.
CurrentBlock(t) ==
    LET With(status) == {i \in DOMAIN t : t[i].status = status}
        candidates == IF With("running") # {} THEN With("running") ELSE With("pending")
    IN IF candidates = {} THEN [status |-> "none"] ELSE t[Min(candidates)]
LiveBadge(t) == CurrentBlock(t).status = "running"

\* agentDispatchMap: the agent's steps, the one to show first: by status, then by order.
DispatchRank == [running |-> 0, pending |-> 1, failed |-> 2, completed |-> 3, cancelled |-> 4]
agentDispatch(a) ==
    LET own == Filter(effectiveExecutionSteps, LAMBDA s : s.agent = a)
    IN SortedBy(ByOrder(own), [s \in Elements(own) |-> DispatchRank[s.status]])

(***************************************************************************)
(* Specification                                                           *)
(***************************************************************************)
TimelineInit ==
    /\ runs = [e \in Runs |-> [status |-> "none", step |-> [t \in {x.task : x \in PlanOf[e]} |-> "pending"]]]
    /\ session = [open |-> TRUE, live |-> {}, last |-> NoRun]
    /\ line = [session |-> TRUE, ids |-> << >>, plan |-> NoRun, map |-> << >>, held |-> << >>]
    /\ polled = {} /\ reads = {} /\ rounds = 0

ServerSteps ==
    \/ \E e \in Runs : \/ startPlanExecution(e) \/ runPlanExecution(e)
                       \/ \E x \in PlanOf[e] : \/ dispatchStep(e, x)
                                               \/ \E o \in {"completed", "failed"} : StepEnds(e, x, o)
    \/ syncExecutions \/ StopSession
PageSteps ==
    \/ pollSession \/ (\E p \in polled : SessionPolled(p)) \/ RefreshTick
    \/ (\E r \in reads : ExecutionRead(r) \/ RefreshDone(r)) \/ SessionGone
TimelineNext == ServerSteps \/ PageSteps

(***************************************************************************)
(* Properties                                                              *)
(***************************************************************************)
\* Types.
TimelineTypeOK ==
    /\ runs \in [Runs -> [status : {"none", "running"} \cup Over,
                          step : UNION {[{x.task : x \in PlanOf[e]} -> StepStatus] : e \in Runs}]]
    /\ Range(line.ids) \cup DOMAIN line.map \subseteq Runs /\ line.plan \in Runs \cup {NoRun}
    /\ Cardinality(reads) <= MaxReads /\ Cardinality(polled) <= MaxPolled /\ rounds \in 0 .. MaxRounds

\* A row sums up what the page was told, in whatever order the steps were listed:
\* each planned or executed task of the agent has one block, with its lowest order
\* and the highest status its steps were told to have; except that the plan gives
\* each of its tasks a "pending" of its own, which hides that the task is completed,
\* so that it may come back as the current one.  Blocks are sorted, and the live
\* badge of the row, the step shown in the live view and the steps agree on whether
\* the agent is working.
TimelineSound ==
    \A a \in runtimeAgentIds :
        LET t == timeline(a)
            planned == {x \in Range(Assignments) : x.agent = a}
            steps == {s \in Range(effectiveExecutionSteps) : s.agent = a}
            Of(k) == {s \in planned \cup steps : s.task = k}
            Told(k) == {s.status : s \in {u \in steps : u.task = k}}
            Highest(status, k) ==
                /\ status \in Told(k)
                /\ \A s \in Told(k) : sequenceStatusRank[s] <= sequenceStatusRank[status]
            Hidden(k) == Told(k) \subseteq {"completed"} /\ \E x \in planned : x.task = k
            running == \E s \in steps : s.status = "running"
        IN /\ \A k \in {s.task : s \in planned \cup steps} :
                \E i \in DOMAIN t :
                    /\ t[i].task = k /\ \A j \in DOMAIN t : t[j].task = k => i = j
                    /\ t[i].order = Min({s.order : s \in Of(k)})
                    /\ IF Hidden(k) THEN t[i].status = "pending" ELSE Highest(t[i].status, k)
           /\ \A i, j \in DOMAIN t : i < j => t[i].order <= t[j].order
           /\ LiveBadge(t) <=> running
           /\ steps # {} => (running <=> agentDispatch(a)[1].status = "running")

\* When the page shows no active execution it shows no resource as held: an
\* answer that was under way when the last execution ended cannot bring the
\* allocations back, where no later poll would clear them.
NoGhostHolds == line.ids = << >> => line.held = << >> /\ reads = {}
=============================================================================
