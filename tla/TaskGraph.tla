------------------------------ MODULE TaskGraph ------------------------------
(***************************************************************************)
(* The graph of a task: what can be drawn on the canvas of the task editor *)
(* (frontend/src/pages/ActionGraph/index.tsx and its node components), the *)
(* compilation of the drawing into the steps that are stored, and the      *)
(* conversion of stored steps back into a drawing.                         *)
(*                                                                         *)
(* Positions, colours and labels are left out.  React Flow is external: it *)
(* reports connections between handles that are on screen, and it may ask  *)
(* for the removal of an edge whose handles are being rendered again.      *)
(***************************************************************************)
EXTENDS Naturals, Sequences, FiniteSets, FiniteSetsExt, Sublists

CONSTANTS Ids,        \* ids of nodes and steps
          Start,      \* START_NODE_ID
          None,       \* null, undefined or the empty string
          Palette,    \* bound: kinds of node the user drops on the canvas
          Ports,      \* bound: outcomes whose handles the user connects
          Stored,     \* bound: step lists that other programs have stored
          NodeFields,     \* bound: fields the user edits, a subset of {"retry", "server"}
          MaxOps      \* bound: operations of the user

Outcomes == {"success", "failed", "aborted", "cancelled", "timeout", "rejected"}
Terminals == {"End", "Error", "Warning"}

ASSUME GraphAssumption ==
    /\ Start \notin Ids /\ None \notin Ids \cup {Start}
    /\ Palette \subseteq {"action", "retry", "Start"} \cup Terminals
    /\ Ports \subseteq Outcomes
    /\ MaxOps \in Nat

VARIABLES nodes,     \* nodes, in the order they were added
          edges,     \* edges, in the order they were added
          pending,   \* pendingDeletionsRef
          chainSaved, \* history: retry blocks wired one after the other were saved
          ops        \* operations of the user so far

graphVars == <<nodes, edges, pending, chainSaved, ops>>

(***************************************************************************)
(* Handles.  An id built from a word and a number is a pair.               *)
(***************************************************************************)
Port(word, i) == <<word, i>>
StateOut == Port("state-out", 0)
RetryOut == Port("retry-out", 0)
RetryFailed == Port("retry-failed", 0)
RetryWarning == Port("retry-warning", 0)
RetryId(id) == <<id>>            \* `${step.id}__retry`
NodeIds == Ids \cup {Start} \cup {RetryId(i) : i \in Ids}

\* Texts are strings; the ones this module writes are named for the proofs.
Texts ==
    STRING \cup {"idle", "error", "success", "failed", "aborted", "cancelled", "timeout",
                "end-success", "end-failure", "end-outcome", "end-outcome-step",
                "state-out", "retry-out", "retry-failed"}
Handles == Texts \X Nat
Configs == [retry : Nat, backoff : Nat]    \* of a retry block
EndStates == [id : Handles, state : Texts, label : SUBSET Texts, outcome : Outcomes]

\* Null is none of these, and no node is taken for a retry block.
ASSUME NullAssumption ==
    /\ None \notin Handles \cup Outcomes \cup Configs \cup Seq(EndStates)
    /\ {RetryId(i) : i \in Ids} \cap (Ids \cup {Start, None}) = {}

FirstAt(s, I) == IF I = {} THEN None ELSE s[Min(I)]

(***************************************************************************)
(* End states of an action and their outcomes.  The label is the set of    *)
(* the words that inferOutcome looks for in it.                            *)
(***************************************************************************)
Spellings ==
    [success |-> {"success", "succeeded"}, failed |-> {"failed", "failure", "error"},
     aborted |-> {"aborted", "abort"}, cancelled |-> {"cancelled", "canceled", "cancel"},
     timeout |-> {"timeout", "timed_out"}, rejected |-> {"rejected"}]
Spelled == [v \in UNION {Spellings[o] : o \in Outcomes} |->
               CHOOSE o \in Outcomes : v \in Spellings[o]]

normalizeOutcome(v) == IF v \in DOMAIN Spelled THEN Spelled[v] ELSE None

inferOutcome(es, i) ==
    LET words == es.label \cup {es.state}
        given == normalizeOutcome(es.outcome)
        good == es.label \cap {"success", "complete"} # {} \/ es.state \in {"idle", "ready"}
    IN IF given # None THEN given
       ELSE IF "timeout" \in words THEN "timeout"
       ELSE IF "cancel" \in words THEN "cancelled"
       ELSE IF "abort" \in words THEN "aborted"
       ELSE IF words \cap {"fail", "error"} # {} THEN "failed"
       ELSE IF good \/ i = 1 THEN "success" ELSE "failed"

IsFailure(o) == o # "success"     \* outcomeCategory

EndState(port, state, outcome) ==
    [id |-> port, state |-> state, label |-> {}, outcome |-> outcome]

\* The end states of an action that is dropped on the canvas.
DefaultEndStates ==
    << EndState(Port("success", 0), "idle", "success"),
       EndState(Port("failed", 0), "error", "failed"),
       EndState(Port("aborted", 0), "error", "aborted"),
       EndState(Port("cancelled", 0), "error", "cancelled") >>

Failing(ends) == {i \in DOMAIN ends : IsFailure(inferOutcome(ends[i], i))}

categorizeEndStates(ends) ==
    LET States(I) == Distinct(At([i \in DOMAIN ends |-> ends[i].state], I))
    IN [success |-> States(DOMAIN ends \ Failing(ends)), failure |-> States(Failing(ends))]

buildEndStates(ok, bad) ==
    LET Made(word, list, outcome) ==
            [i \in DOMAIN list |-> EndState(Port(word, i), list[i], outcome)]
    IN Made("end-success", IF ok = <<>> THEN <<"idle">> ELSE ok, "success")
       \o Made("end-failure", IF bad = <<>> THEN <<"error">> ELSE bad, "failed")

Known(outcome) ==
    IF normalizeOutcome(outcome) = None THEN "failed" ELSE normalizeOutcome(outcome)

DefaultState(outcome) == IF Known(outcome) = "success" THEN "idle" ELSE "error"
StateOf(t) == IF t.state = None THEN DefaultState(t.outcome) ELSE t.state

buildEndStatesFromOutcomes(ts) ==
    [i \in DOMAIN ts |-> EndState(Port("end-outcome", i), StateOf(ts[i]), Known(ts[i].outcome))]

(***************************************************************************)
(* Drawing to steps                                                        *)
(***************************************************************************)
eventSubtypeToTerminalPayload(sub) ==
    [terminal_type |-> IF sub = "Error" THEN "failure" ELSE "success",
     alert |-> sub \in {"Error", "Warning"}]

\* Mutant: a terminal step that raises an alert is loaded as a plain end.
terminalStepWithoutAlert(step) ==
    CASE step.terminal_type = "failure" -> "Error"
      [] step.terminal_type = "warning" -> "Warning"
      [] OTHER -> "End"

terminalStepToEventSubtype(step) ==
    IF step.terminal_type = "failure" THEN "Error"
    ELSE IF step.terminal_type = "warning" \/ step.alert THEN "Warning"
    ELSE "End"

NodeOf(ns, id) == FirstAt(ns, {i \in DOMAIN ns : ns[i].id = id})

\* Where a retry block leads when its retries are used up.
resolveRetryEdge(es, block, source) ==
    LET From(ports) == {i \in DOMAIN es : es[i].src = block /\ es[i].sh \in ports}
        legacy == {i \in From({None, StateOut}) : es[i].dst # source}
        found == IF From({RetryFailed}) # {} THEN From({RetryFailed})
                 ELSE IF From({RetryWarning}) # {} THEN From({RetryWarning}) ELSE legacy
    IN IF found = {} THEN None ELSE FirstAt(es, found).dst

\* An edge into a retry block stands for the block's fallback and its numbers.
resolveRetryTarget(ns, es, e) ==
    LET found == {i \in DOMAIN ns : ns[i].type = "retry" /\ ns[i].id = e.dst}
        block == FirstAt(ns, found)
    IN IF found = {} THEN [target |-> e.dst, config |-> None]
       ELSE [target |-> resolveRetryEdge(es, e.dst, e.src),
             config |-> [retry |-> block.retry, backoff |-> block.backoff]]

\* For the end states whose handle has an edge: where the first one leads.
Drawn(ns, es, n) ==
    LET From(i) == {k \in DOMAIN es : es[k].src = n.id /\ es[k].sh = n.ends[i].id}
        Leads(i) ==
            LET e == FirstAt(es, From(i))
                r == resolveRetryTarget(ns, es, e)
                outcome == inferOutcome(n.ends[i], i)
            IN [outcome |-> outcome, state |-> n.ends[i].state,
                next |-> IF r.target = None THEN e.dst ELSE r.target,
                target |-> r.target,
                config |-> IF IsFailure(outcome) THEN r.config ELSE None]
    IN Flatten([i \in DOMAIN n.ends |-> IF From(i) = {} THEN <<>> ELSE <<Leads(i)>>])

\* Failures that run into a retry block become on_failure and no outcome of their own.
OutcomeTransitions(drawn) ==
    LET direct == Filter(drawn, LAMBDA d : d.config = None)
    IN [i \in DOMAIN direct |-> [outcome |-> direct[i].outcome, next |-> direct[i].next,
                                 state |-> direct[i].state]]

FirstNext(drawn, I) == IF I = {} THEN None ELSE FirstAt(drawn, I).next

OnFailure(drawn) ==
    LET retried == {i \in DOMAIN drawn : drawn[i].config # None}
        block == FirstAt(drawn, retried)
        other == FirstNext(drawn, {i \in DOMAIN drawn \ retried : IsFailure(drawn[i].outcome)})
    IN IF retried = {} THEN [next |-> other, config |-> None]
       ELSE [next |-> IF block.target = None THEN other ELSE block.target,
             config |-> block.config]

StepOf(ns, es, n) ==
    LET drawn == Drawn(ns, es, n)
        states == categorizeEndStates(n.ends)
    IN [id |-> n.id, type |-> "action", ends |-> n.ends,
        success |-> IF states.success = <<>> THEN n.success ELSE states.success,
        failure |-> IF states.failure = <<>> THEN n.failure ELSE states.failure,
        on_success |-> FirstNext(drawn, {i \in DOMAIN drawn : drawn[i].outcome = "success"}),
        on_failure |-> OnFailure(drawn),
        on_outcomes |-> OutcomeTransitions(drawn)]

TerminalStep(n) ==
    LET p == eventSubtypeToTerminalPayload(n.sub)
    IN [id |-> n.id, type |-> "terminal", terminal_type |-> p.terminal_type, alert |-> p.alert]

Stepped(n) == n.type = "action" \/ (n.type = "event" /\ n.sub \in Terminals)

convertGraphToSteps(ns, es) ==
    LET made == Filter(ns, Stepped)
        list == [i \in DOMAIN made |->
                    IF made[i].type = "event" THEN TerminalStep(made[i])
                    ELSE StepOf(ns, es, made[i])]
        entries == {i \in DOMAIN es : es[i].src = Start}
        first == FirstAt(es, entries)
    IN [steps |-> list,
        entry |-> IF entries # {} /\ \E i \in DOMAIN list : list[i].id = first.dst
                  THEN first.dst
                  ELSE IF list = <<>> THEN None ELSE list[1].id]

(***************************************************************************)
(* Steps to drawing.  An edge keeps who made it: React Flow and the loader *)
(* give the same connection different ids.                                 *)
(***************************************************************************)
Edge(src, sh, dst, th, by) == [src |-> src, sh |-> sh, dst |-> dst, th |-> th, by |-> by]
LoadedEdge(src, sh, dst) == Edge(src, sh, dst, "state-in", "load")

Node(id, type, sub) ==
    [id |-> id, type |-> type, sub |-> sub, ends |-> <<>>,
     success |-> <<>>, failure |-> <<>>, server |-> FALSE, retry |-> 0, backoff |-> 0]
ActionNode(id, ends, ok, bad) ==
    [Node(id, "action", None) EXCEPT !.ends = ends, !.success = ok, !.failure = bad,
                               !.server = TRUE]
RetryNode(id, retry, backoff) ==
    [Node(id, "retry", "Retry") EXCEPT !.retry = retry, !.backoff = backoff]
StartNode == Node(Start, "event", "Start")

\* An end state for an outcome transition: i is the position of the transition.
Matches(es, i, t) ==
    inferOutcome(es, i) = Known(t.outcome) /\ t.state \in {None, es.state}

\* Stored end states, or ones made from the transitions or the state lists; then
\* one more for each transition that none of them fits.
EndStatesOf(step) ==
    LET base == IF step.ends # None THEN step.ends
                ELSE IF step.on_outcomes # <<>> THEN buildEndStatesFromOutcomes(step.on_outcomes)
                ELSE buildEndStates(step.success, step.failure)
        Made(t, i) == EndState(Port("end-outcome-step", i), StateOf(t), Known(t.outcome))
        lacking == {i \in DOMAIN step.on_outcomes :
                       \A k \in DOMAIN base : ~Matches(base[k], i, step.on_outcomes[i])}
    IN base \o At([i \in DOMAIN step.on_outcomes |-> Made(step.on_outcomes[i], i)], lacking)

HasRetry(step) ==
    step.on_failure.config # None
    /\ (step.on_failure.config.retry > 0 \/ step.on_failure.config.backoff > 0)

\* The handle of the first end state among some.
HandleOf(ends, I) == IF I = {} THEN None ELSE FirstAt(ends, I).id

\* The edge of one outcome transition, <<>> for a failure that goes to the retry block.
OutcomeEdge(step, ends, i) ==
    LET t == step.on_outcomes[i]
        fits == {k \in DOMAIN ends : Matches(ends[k], i, t)}
        handle == IF fits = {} THEN Port("end-outcome-step", i) ELSE HandleOf(ends, fits)
    IN IF t.next = None \/ (HasRetry(step) /\ IsFailure(Known(t.outcome))) THEN <<>>
       ELSE << LoadedEdge(step.id, handle, t.next) >>

\* The handle that the retry block hangs on: that of the first failure transition.
RetryHandle(step, ends) ==
    LET failing == {i \in DOMAIN step.on_outcomes :
                       /\ step.on_outcomes[i].next # None
                       /\ IsFailure(Known(step.on_outcomes[i].outcome))}
        fits == {k \in DOMAIN ends :
                    /\ IsFailure(inferOutcome(ends[k], Min(failing)))
                    /\ FirstAt(step.on_outcomes, failing).state \in {None, ends[k].state}}
    IN HandleOf(ends, IF failing = {} THEN Failing(ends) ELSE fits)

RetryEdges(step, ends, ids) ==
    LET block == RetryId(step.id)
        back == step.on_failure.next
    IN << Edge(step.id, RetryHandle(step, ends), block, "retry-in", "load") >>
       \o IF back \in ids \ {None, step.id}
          THEN << Edge(block, RetryFailed, back, "state-in", "load") >> ELSE <<>>

StepEdges(step, ids) ==
    LET ends == EndStatesOf(step)
        block == RetryId(step.id)
        fail == step.on_failure.next
        loop == IF HasRetry(step) THEN << Edge(block, RetryOut, step.id, "in", "load") >> ELSE <<>>
        direct == IF step.on_outcomes # <<>>
                  THEN Flatten([i \in DOMAIN step.on_outcomes |-> OutcomeEdge(step, ends, i)])
                  ELSE (IF step.on_success = None THEN <<>>
                        ELSE << LoadedEdge(step.id, HandleOf(ends, DOMAIN ends \ Failing(ends)), step.on_success) >>)
                       \o (IF HasRetry(step) \/ fail = None THEN <<>>
                           ELSE << LoadedEdge(step.id, HandleOf(ends, Failing(ends)), fail) >>)
    IN IF step.type = "terminal" THEN <<>>
       ELSE loop \o direct \o IF HasRetry(step) THEN RetryEdges(step, ends, ids) ELSE <<>>

StepNodes(step) ==
    IF step.type = "terminal"
    THEN << Node(step.id, "event", terminalStepToEventSubtype(step)) >>
    ELSE << ActionNode(step.id, EndStatesOf(step), step.success, step.failure) >>
         \o IF HasRetry(step)
            THEN << RetryNode(RetryId(step.id), step.on_failure.config.retry,
                              step.on_failure.config.backoff) >>
            ELSE <<>>

convertActionGraphToGraph(list, from) ==
    LET ids == {list[i].id : i \in DOMAIN list}
        first == IF from \in ids THEN from ELSE IF list = <<>> THEN None ELSE list[1].id
    IN [nodes |-> << StartNode >> \o Flatten([i \in DOMAIN list |-> StepNodes(list[i])]),
        edges |-> Flatten([i \in DOMAIN list |-> StepEdges(list[i], ids)])
                  \o IF first = None THEN <<>> ELSE << LoadedEdge(Start, StateOut, first) >>]

\* What is stored: steps with ids of their own that refer to each other, and the
\* end states that an action is drawn with have handles of their own.
Targets == (NodeIds \ {Start}) \cup {None}
Transitions == [outcome : Texts \cup Outcomes, state : Texts \cup {None}, next : Targets]
ActionSteps ==
    [id : Ids, type : {"action"}, ends : Seq(EndStates) \cup {None},
     success : Seq(Texts), failure : Seq(Texts), on_success : Targets,
     on_failure : [next : Targets, config : Configs \cup {None}], on_outcomes : Seq(Transitions)]
TerminalSteps == [id : Ids, type : {"terminal"}, terminal_type : {"success", "warning", "failure"},
                  alert : BOOLEAN]
StepIds(list) == {list[i].id : i \in DOMAIN list}

HandlesApart(ends) == \A i, j \in DOMAIN ends : ends[i].id = ends[j].id => i = j
StepsTyped(list) ==
    /\ list \in Seq(ActionSteps \cup TerminalSteps)
    /\ \A i, j \in DOMAIN list : list[i].id = list[j].id => i = j
    /\ \A i \in DOMAIN list : list[i].type = "action" => HandlesApart(EndStatesOf(list[i]))
Refers(step, known) ==
    step.type = "action" => /\ step.on_success \in known /\ step.on_failure.next \in known
                            /\ \A i \in DOMAIN step.on_outcomes : step.on_outcomes[i].next \in known
StepsResolve(list) == \A i \in DOMAIN list : Refers(list[i], StepIds(list) \cup {None})

ASSUME StoredAssumption ==
    \A file \in Stored : StepsTyped(file.steps) /\ StepsResolve(file.steps)

GraphInit ==
    \E file \in Stored : \E g \in {convertActionGraphToGraph(file.steps, file.entry)} :
        /\ nodes = g.nodes /\ edges = g.edges
        /\ pending = {} /\ chainSaved = FALSE /\ ops = 0

(***************************************************************************)
(* The user draws.                                                         *)
(***************************************************************************)
Unused == {i \in Ids : \A n \in Elements(nodes) : n.id \notin {i, RetryId(i)}}

\* The node of a kind that is dropped, with an id of its own (getNodeId).
Dropped(kind) ==
    LET id == CHOOSE i \in Unused : TRUE
    IN CASE kind = "Start" -> StartNode
         [] kind = "action" -> ActionNode(id, DefaultEndStates, <<"idle">>, <<"error">>)
         [] kind = "retry" -> RetryNode(id, 3, 0)
         [] OTHER -> Node(id, "event", kind)

\* Mutant: the Start node that is there stays.
onDropSecondStart(kind) ==
    /\ kind = "Start" \/ Unused # {}
    /\ nodes' = Append(nodes, Dropped(kind)) /\ UNCHANGED <<edges, pending>>

\* The canvas accepts actions, services, events and retry blocks; a second Start
\* replaces the first and keeps the entry it was connected to.
onDrop(kind) ==
    /\ UNCHANGED pending
    /\ IF kind = "Start"
       THEN LET old == {i \in DOMAIN edges : edges[i].src = Start}
            IN /\ nodes' = Filter(nodes, LAMBDA n : n.id # Start) \o << Dropped(kind) >>
               /\ edges' = Filter(edges, LAMBDA e : Start \notin {e.src, e.dst})
                           \o IF old = {} THEN <<>>
                              ELSE << LoadedEdge(Start, StateOut, FirstAt(edges, old).dst) >>
       ELSE Unused # {} /\ nodes' = Append(nodes, Dropped(kind)) /\ UNCHANGED edges

\* The handles the node components put on screen.
ActionHandles == {Port(o, 0) : o \in Outcomes \ {"rejected"}}
RetryHandles == {RetryOut, RetryFailed}
EventHandles(sub) == IF sub = "Start" THEN {StateOut} ELSE {}
SourceHandles(n) ==
    CASE n.type = "action" -> ActionHandles
      [] n.type = "retry" -> RetryHandles
      [] OTHER -> EventHandles(n.sub)
TargetHandle(type) ==
    CASE type = "action" -> "in" [] type = "retry" -> "retry-in" [] OTHER -> "state-in"

\* React Flow's addEdge leaves out a connection that is already there.
Same(e, f) == e.src = f.src /\ e.dst = f.dst /\ e.sh = f.sh /\ e.th = f.th
addEdge(e, es) == IF \E f \in Elements(es) : Same(e, f) THEN es ELSE Append(es, e)

\* The source handle of a connection that names none.
DefaultHandle(ns, src, dst) ==
    LET n == NodeOf(ns, src)
        fail == HandleOf(n.ends, Failing(n.ends))
    IN IF n.type = "retry" THEN RetryOut
       ELSE IF n.ends = <<>> THEN None
       ELSE IF NodeOf(ns, dst).type = "retry" /\ fail # None THEN fail
       ELSE n.ends[1].id

\* An unknown handle has no outcome, and so passes the test for retry blocks.
Outcome(n, sh) ==
    LET hits == {i \in DOMAIN n.ends : n.ends[i].id = sh}
    IN IF hits = {} THEN None ELSE inferOutcome(FirstAt(n.ends, hits), 1)

\* Mutant: the other edges of a port stay.
ConnectedToo(ns, es, src, given, dst) ==
    LET sh == IF given = None THEN DefaultHandle(ns, src, dst) ELSE given
        new == Edge(src, sh, dst, TargetHandle(NodeOf(ns, dst).type), "user")
    IN IF dst = Start THEN es
       ELSE IF src = Start THEN addEdge(new, Filter(es, LAMBDA e : e.src # Start))
       ELSE IF NodeOf(ns, dst).type = "retry" /\ Outcome(NodeOf(ns, src), sh) = "success" THEN es
       ELSE addEdge(new, es)

\* Connecting: Start has one edge; the same connection again removes it; the
\* ports of a retry block have one edge each.
Connected(ns, es, src, given, dst) ==
    LET sh == IF given = None THEN DefaultHandle(ns, src, dst) ELSE given
        new == Edge(src, sh, dst, TargetHandle(NodeOf(ns, dst).type), "user")
        fromBlock == NodeOf(ns, src).type = "retry"
        toBlock == NodeOf(ns, dst).type = "retry"
        Free(e) == /\ ~(fromBlock /\ e.src = src /\ e.sh = sh)
                   /\ ~(toBlock /\ e.dst = dst /\ e.th = new.th)
    IN IF dst = Start THEN es
       ELSE IF src = Start THEN addEdge(new, Filter(es, LAMBDA e : e.src # Start))
       ELSE IF toBlock /\ Outcome(NodeOf(ns, src), sh) = "success" THEN es
       ELSE IF \E e \in Elements(es) : Same(e, new) THEN Filter(es, LAMBDA e : ~Same(e, new))
       ELSE addEdge(new, Filter(es, Free))

onConnect(m, n, sh) ==
    /\ sh \in SourceHandles(m)
    /\ m.type = "action" => sh[1] \in Ports
    /\ edges' = Connected(nodes, edges, m.id, sh, n.id)
    /\ UNCHANGED <<nodes, pending>>

\* The button on an edge, there for everyone: edgesWithDelete passes it on in
\* view mode too.  The record stands for the id of the edge; only transitions of
\* one stored step that leave the same handle for the same node share it.
deleteEdge(e) ==
    /\ pending' = pending \cup {e}
    /\ edges' = Filter(edges, LAMBDA x : x # e)
    /\ UNCHANGED nodes

\* React Flow asks for the removal of an edge whose handles are rendered again:
\* refused while both ends exist, unless the button was used on an edge of that id.
onEdgesChange(e) ==
    /\ e \in pending \/ ~({e.src, e.dst} \subseteq {n.id : n \in Elements(nodes)})
    /\ edges' = Filter(edges, LAMBDA x : x # e)
    /\ pending' = pending \ {e}
    /\ UNCHANGED nodes

\* Mutant: the edges of a deleted node stay.
deleteSelectedNodes(ids, chosen) ==
    /\ ids # {} \/ chosen # {}
    /\ nodes' = Filter(nodes, LAMBDA n : n.id \notin ids)
    /\ edges' = Filter(edges, LAMBDA e : e \notin chosen)
    /\ UNCHANGED pending

\* The Delete key with a selection of nodes and edges.
deleteSelectedElements(ids, chosen) ==
    /\ ids # {} \/ chosen # {}
    /\ nodes' = Filter(nodes, LAMBDA n : n.id \notin ids)
    /\ edges' = Filter(edges, LAMBDA e : /\ e \notin chosen
                                            /\ e.src \notin ids /\ e.dst \notin ids)
    /\ UNCHANGED pending

\* The cross of a node.
removeNode(n) == deleteSelectedElements({n.id}, {})

\* The fields of a node: the numbers of a retry block, the server of an action.
updateData(n, f) ==
    /\ f # n
    /\ nodes' = [i \in DOMAIN nodes |-> IF nodes[i].id = n.id THEN f ELSE nodes[i]]
    /\ UNCHANGED <<edges, pending>>

setRetry(n, retry, backoff) ==
    "retry" \in NodeFields /\ n.type = "retry"
    /\ updateData(n, [n EXCEPT !.retry = retry, !.backoff = backoff])

setServer(n, given) ==
    "server" \in NodeFields /\ n.type = "action" /\ updateData(n, [n EXCEPT !.server = given])

(***************************************************************************)
(* Save and open again                                                     *)
(***************************************************************************)
validateGraph(ns, es) ==
    LET actions == {n \in Elements(ns) : n.type = "action"}
    IN {"start" : e \in {1} \ {1 : f \in {g \in Elements(es) : g.src = Start}}}
       \cup {"no action" : e \in {1} \ {1 : n \in actions}}
       \cup {"server" : n \in {m \in actions : ~m.server}}
       \cup {"no edge" : n \in {m \in actions : \A e \in Elements(es) : e.src # m.id}}

Compiled == convertGraphToSteps(nodes, edges)

\* Two retry blocks wired one after the other: the second is no step, and the
\* compiler only looks through the first, so that it stores the second's id.
Blocks == {n.id : n \in {m \in Elements(nodes) : m.type = "retry"}}
Chained == LET blocks == Blocks IN \E e \in Elements(edges) : {e.src, e.dst} \subseteq blocks

\* A missing server blocks the save; for the other errors the user is asked.
\* The stored template has a new version, so the canvas is loaded from it again.
handleSave ==
    /\ "server" \notin validateGraph(nodes, edges)
    /\ \E made \in {Compiled} :
         \E g \in {convertActionGraphToGraph(made.steps, made.entry)} :
             nodes' = g.nodes /\ edges' = g.edges
    /\ chainSaved' = (chainSaved \/ Chained)
    /\ UNCHANGED pending

Draw ==
    \/ \E kind \in Palette : onDrop(kind)
    \/ \E m, n \in Elements(nodes) : \E sh \in SourceHandles(m) : onConnect(m, n, sh)
    \/ \E e \in Elements(edges) : deleteEdge(e) \/ deleteSelectedElements({}, {e})
    \/ \E n \in Elements(nodes) : removeNode(n)
    \/ \E n \in Elements(nodes), r, b \in {0, 3} : setRetry(n, r, b)
    \/ \E n \in Elements(nodes), given \in BOOLEAN : setServer(n, given)

GraphNext ==
    \/ ops < MaxOps /\ ops' = ops + 1 /\ ((Draw /\ UNCHANGED chainSaved) \/ handleSave)
    \/ \E e \in Elements(edges) : onEdgesChange(e) /\ UNCHANGED <<chainSaved, ops>>

(***************************************************************************)
(* Properties                                                              *)
(***************************************************************************)
GraphTypeOK ==
    /\ \A n \in Elements(nodes) :
         /\ n.id \in NodeIds /\ n.type \in {"action", "event", "retry"}
         /\ n.sub \in Terminals \cup {"Start", "Retry", None}
         /\ n.server \in BOOLEAN /\ n.retry \in Nat /\ n.backoff \in Nat
    /\ \A i, j \in DOMAIN nodes : nodes[i].id = nodes[j].id => i = j
    /\ \A e \in Elements(edges) : e.src \in NodeIds /\ e.dst \in NodeIds \ {Start}
    /\ \A e \in pending : e.src \in NodeIds /\ e.dst \in NodeIds
    /\ chainSaved \in BOOLEAN

\* Every edge joins two nodes that are there, whichever way a node went.
NoDanglingEdge ==
    LET there == {n.id : n \in Elements(nodes)}
    IN \A e \in Elements(edges) : {e.src, e.dst} \subseteq there

\* What a save would store refers to steps it stores: deletions, replaced Start
\* nodes and retry blocks leave no edge without its nodes, and no transition or
\* entry point without its step; except where retry blocks are chained.
SavedTransitionsResolve ==
    ~chainSaved =>
    /\ NoDanglingEdge
    /\ ~Chained =>
       \A made \in {Compiled} :
         LET known == StepIds(made.steps) \cup {None}
         IN /\ made.entry \in known
            /\ \A s \in Elements(made.steps) : s.type = "action" =>
                 /\ s.on_success \in known /\ s.on_failure.next \in known
                 /\ \A t \in Elements(s.on_outcomes) : t.next \in known

\* "Retry node ports are single-connection ports" (index.tsx:2466).  The edge of
\* the Start node is drawn without a look at the port; it never becomes a transition.
RetryPortsSingle ==
    LET blocks == Blocks
    IN \A i, j \in DOMAIN edges :
         i # j /\ Start \notin {edges[i].src, edges[j].src} =>
         /\ edges[i].src \in blocks =>
               <<edges[i].src, edges[i].sh>> # <<edges[j].src, edges[j].sh>>
         /\ edges[i].dst \in blocks => edges[i].dst # edges[j].dst

\* Unless chained retry blocks are saved, the ports of retry blocks have one edge
\* each, so that the compiler, which takes the first edge it finds, never drops one
\* without a word.
PortsStaySingle == ~chainSaved => RetryPortsSingle

\* End states that a stored transition tells apart: it names an outcome and a state,
\* and an empty state stands for any.
ToldApart(ends) ==
    \A i, j \in DOMAIN ends :
        ends[i].outcome = ends[j].outcome /\ ends[i].state \in {None, ends[j].state} => i = j

\* Drawings that the stored form can express: transitions tell the end states of an
\* action apart, every retry block has a number, the failures of a step that uses one
\* all run into it, and when the retries are used up it does not lead to that step again.
Expressible ==
    LET blocks == Blocks
        Used(n) == {e.dst : e \in {f \in Elements(edges) : f.src = n.id /\ f.dst \in blocks}}
    IN /\ ~Chained
       /\ \A n \in Elements(nodes) : /\ ToldApart(n.ends)
                                     /\ n.type = "retry" => n.retry > 0 \/ n.backoff > 0
       /\ \A n \in {m \in Elements(nodes) : Used(m) # {}} :
            /\ \A e \in Elements(edges) :
                  e.src = n.id /\ Outcome(n, e.sh) \notin {None, "success"} => {e.dst} = Used(n)
            /\ \A b \in Used(n) : resolveRetryEdge(edges, b, n.id) # n.id

\* What is saved is what is loaded: storing a drawing, drawing it again and
\* storing that changes no step, no transition and no entry point; unless chained retry
\* blocks were saved, whose ids may come to be those of other blocks.
RoundTrip ==
    ~chainSaved /\ Expressible =>
        \A made \in {Compiled} :
            \A g \in {convertActionGraphToGraph(made.steps, made.entry)} :
                convertGraphToSteps(g.nodes, g.edges) = made
=============================================================================
