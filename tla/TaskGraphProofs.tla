---------------------------- MODULE TaskGraphProofs ----------------------------
(***************************************************************************)
(* Proofs about the canvas of the task editor: what the operators on       *)
(* sequences return, that a drawing is compiled into steps that refer to   *)
(* each other, that steps are loaded as a drawing, and that every gesture, *)
(* every save and every reload keeps what the first two need.              *)
(***************************************************************************)
EXTENDS TaskGraph, SublistsProofs

\* FirstAt is one of the elements at the positions it is given.
LEMMA FirstAtIn ==
    ASSUME NEW s, NEW I \in SUBSET Nat, I # {}
    PROVE  \E i \in I : FirstAt(s, I) = s[i]
  <1>1. Min(I) \in I
    BY LeastOf
  <1> QED BY <1>1 DEF FirstAt

(***************************************************************************)
(* Outcomes and end states                                                 *)
(***************************************************************************)
LEMMA OutcomesKnown ==
    /\ \A o \in Outcomes : normalizeOutcome(o) = o
    /\ \A v : Known(v) \in Outcomes /\ (v \in Outcomes => Known(v) = v)
  <1>1. \A o \in Outcomes : o \in Spellings[o] /\ \A q \in Outcomes : o \in Spellings[q] => q = o
    BY DEF Outcomes, Spellings
  <1>2. \A o \in Outcomes : o \in DOMAIN Spelled
    BY <1>1 DEF Spelled
  <1>3. \A v \in DOMAIN Spelled : Spelled[v] \in Outcomes /\ v \in Spellings[Spelled[v]]
    BY DEF Spelled
  <1>4. \A o \in Outcomes : normalizeOutcome(o) = o
    BY <1>1, <1>2, <1>3 DEF normalizeOutcome
  <1>5. \A v : normalizeOutcome(v) # None => normalizeOutcome(v) \in Outcomes
    BY <1>3 DEF normalizeOutcome
  <1>6. None \notin Outcomes /\ "failed" \in Outcomes
    BY NullAssumption DEF Outcomes
  <1> QED BY <1>4, <1>5, <1>6 DEF Known

\* An end state that names one of the six outcomes has it, wherever it stands.
LEMMA EndOutcome ==
    ASSUME NEW es \in EndStates, NEW i
    PROVE  inferOutcome(es, i) = es.outcome /\ es.outcome \in Outcomes
  <1>1. es.outcome \in Outcomes
    BY DEF EndStates
  <1>2. normalizeOutcome(es.outcome) = es.outcome /\ es.outcome # None
    BY <1>1, OutcomesKnown, NullAssumption
  <1> QED BY <1>1, <1>2 DEF inferOutcome

\* The end states that this module writes are end states.
LEMMA EndStateType ==
    ASSUME NEW w \in {"success", "failed", "aborted", "cancelled", "end-success", "end-failure",
                      "end-outcome", "end-outcome-step"},
           NEW i \in Nat, NEW st \in Texts, NEW o \in Outcomes
    PROVE  EndState(Port(w, i), st, o) \in EndStates
  BY DEF EndState, Port, EndStates, Handles, Texts

\* The end states of an action that is dropped have handles of their own.
LEMMA DefaultEnds == DefaultEndStates \in Seq(EndStates) /\ HandlesApart(DefaultEndStates)
  <1> DEFINE a == EndState(Port("success", 0), "idle", "success")
             b == EndState(Port("failed", 0), "error", "failed")
             c == EndState(Port("aborted", 0), "error", "aborted")
             d == EndState(Port("cancelled", 0), "error", "cancelled")
  <1>1. "idle" \in Texts /\ "error" \in Texts /\ {"success", "failed", "aborted", "cancelled"} \subseteq Outcomes
    BY DEF Texts, Outcomes
  <1>2. a \in EndStates /\ b \in EndStates /\ c \in EndStates /\ d \in EndStates
    BY <1>1, EndStateType
  <1>3. a.id # b.id /\ a.id # c.id /\ a.id # d.id /\ b.id # c.id /\ b.id # d.id /\ c.id # d.id
    BY DEF EndState, Port
  <1> HIDE DEF a, b, c, d
  <1>4. <<a, b, c, d>> \in Seq(EndStates) /\ HandlesApart(<<a, b, c, d>>)
    BY <1>2, <1>3 DEF HandlesApart
  <1> QED BY <1>4 DEF DefaultEndStates, a, b, c, d

\* The elements of a concatenation.
LEMMA CatElements ==
    ASSUME NEW S, NEW u \in Seq(S), NEW v \in Seq(S)
    PROVE  /\ u \o v \in Seq(S) /\ Len(u \o v) = Len(u) + Len(v) /\ Len(u) \in Nat /\ Len(v) \in Nat
           /\ \A k \in DOMAIN (u \o v) :
                 \/ k \in DOMAIN u /\ (u \o v)[k] = u[k]
                 \/ k - Len(u) \in DOMAIN v /\ k > Len(u) /\ (u \o v)[k] = v[k - Len(u)]
           /\ Elements(u \o v) = Elements(u) \cup Elements(v)
  <1> DEFINE t == u \o v
  <1>1. /\ t \in Seq(S) /\ Len(t) = Len(u) + Len(v) /\ Len(u) \in Nat /\ Len(v) \in Nat
        /\ DOMAIN t = 1 .. Len(t) /\ DOMAIN u = 1 .. Len(u) /\ DOMAIN v = 1 .. Len(v)
    OBVIOUS
  <1>2. \A k \in 1 .. Len(u) + Len(v) : t[k] = IF k <= Len(u) THEN u[k] ELSE v[k - Len(u)]
    OBVIOUS
  <1> HIDE DEF t
  <1>3. \A k \in DOMAIN t : \/ k \in DOMAIN u /\ t[k] = u[k]
                            \/ k - Len(u) \in DOMAIN v /\ k > Len(u) /\ t[k] = v[k - Len(u)]
    BY <1>1, <1>2
  <1>4. \A k \in DOMAIN u : k \in DOMAIN t /\ t[k] = u[k]
    BY <1>1, <1>2
  <1>5. ASSUME NEW k \in DOMAIN v PROVE Len(u) + k \in DOMAIN t /\ t[Len(u) + k] = v[k]
    <2>1. Len(u) + k \in 1 .. Len(u) + Len(v) /\ ~(Len(u) + k <= Len(u)) /\ (Len(u) + k) - Len(u) = k
      BY <1>1
    <2> QED BY <1>1, <1>2, <2>1
  <1>6. Elements(t) = Elements(u) \cup Elements(v)
    BY <1>3, <1>4, <1>5 DEF Elements
  <1> QED BY <1>1, <1>3, <1>6 DEF t

\* End states whose handles are numbered.
LEMMA NumberedEnds ==
    ASSUME NEW w \in {"success", "failed", "aborted", "cancelled", "end-success", "end-failure",
                      "end-outcome", "end-outcome-step"},
           NEW n \in Nat, NEW st \in [1 .. n -> Texts], NEW o \in [1 .. n -> Outcomes]
    PROVE  [i \in 1 .. n |-> EndState(Port(w, i), st[i], o[i])] \in Seq(EndStates)
  BY EndStateType

\* The end states a stored action is drawn with.
LEMMA EndStatesOfType ==
    ASSUME NEW step \in ActionSteps
    PROVE  EndStatesOf(step) \in Seq(EndStates)
  <1> DEFINE ts == step.on_outcomes
             n == Len(ts)
             ok == IF step.success = <<>> THEN <<"idle">> ELSE step.success
             bad == IF step.failure = <<>> THEN <<"error">> ELSE step.failure
             base == IF step.ends # None THEN step.ends
                     ELSE IF ts # <<>> THEN buildEndStatesFromOutcomes(ts)
                     ELSE buildEndStates(step.success, step.failure)
             made == [i \in DOMAIN ts |-> EndState(Port("end-outcome-step", i), StateOf(ts[i]),
                                                   Known(ts[i].outcome))]
             lacking == {i \in DOMAIN ts : \A k \in DOMAIN base : ~Matches(base[k], i, ts[i])}
  <1>1. /\ ts \in Seq(Transitions) /\ step.success \in Seq(Texts) /\ step.failure \in Seq(Texts)
        /\ step.ends \in Seq(EndStates) \cup {None} /\ n \in Nat /\ DOMAIN ts = 1 .. n
    BY DEF ActionSteps
  <1>2. "idle" \in Texts /\ "error" \in Texts /\ "success" \in Outcomes /\ "failed" \in Outcomes
    BY DEF Texts, Outcomes
  <1>3. \A i \in DOMAIN ts : StateOf(ts[i]) \in Texts /\ Known(ts[i].outcome) \in Outcomes
    <2>1. \A i \in DOMAIN ts : ts[i] \in Transitions
      BY <1>1
    <2> QED BY <1>2, <2>1, OutcomesKnown DEF StateOf, DefaultState, Transitions
  <1>4. buildEndStatesFromOutcomes(ts) \in Seq(EndStates) /\ made \in Seq(EndStates)
    <2> DEFINE st == [i \in 1 .. n |-> StateOf(ts[i])]
               o == [i \in 1 .. n |-> Known(ts[i].outcome)]
    <2>1. st \in [1 .. n -> Texts] /\ o \in [1 .. n -> Outcomes]
      BY <1>1, <1>3
    <2>2. made = [i \in 1 .. n |-> EndState(Port("end-outcome-step", i), st[i], o[i])]
          /\ buildEndStatesFromOutcomes(ts) = [i \in 1 .. n |-> EndState(Port("end-outcome", i), st[i], o[i])]
      BY <1>1 DEF buildEndStatesFromOutcomes
    <2> HIDE DEF st, o, made, n
    <2>3. n \in Nat
      BY <1>1
    <2>4. [i \in 1 .. n |-> EndState(Port("end-outcome-step", i), st[i], o[i])] \in Seq(EndStates)
      BY <2>1, <2>3, NumberedEnds
    <2>5. [i \in 1 .. n |-> EndState(Port("end-outcome", i), st[i], o[i])] \in Seq(EndStates)
      BY <2>1, <2>3, NumberedEnds
    <2> QED BY <2>2, <2>4, <2>5
  <1>5. buildEndStates(step.success, step.failure) \in Seq(EndStates)
    <2>1. ok \in Seq(Texts) /\ bad \in Seq(Texts)
      BY <1>1, <1>2
    <2> DEFINE u == [i \in DOMAIN ok |-> EndState(Port("end-success", i), ok[i], "success")]
               v == [i \in DOMAIN bad |-> EndState(Port("end-failure", i), bad[i], "failed")]
    <2>2. buildEndStates(step.success, step.failure) = u \o v
      BY DEF buildEndStates
    <2> HIDE DEF ok, bad
    <2>3. u \in Seq(EndStates)
      <3> DEFINE m == Len(ok)
                 o == [i \in 1 .. m |-> "success"]
      <3>1. m \in Nat /\ DOMAIN ok = 1 .. m /\ ok \in [1 .. m -> Texts] /\ o \in [1 .. m -> Outcomes]
        BY <2>1, <1>2
      <3>2. u = [i \in 1 .. m |-> EndState(Port("end-success", i), ok[i], o[i])]
        BY <3>1
      <3> HIDE DEF m, o, u
      <3> QED BY <3>1, <3>2, NumberedEnds
    <2>4. v \in Seq(EndStates)
      <3> DEFINE m == Len(bad)
                 o == [i \in 1 .. m |-> "failed"]
      <3>1. m \in Nat /\ DOMAIN bad = 1 .. m /\ bad \in [1 .. m -> Texts] /\ o \in [1 .. m -> Outcomes]
        BY <2>1, <1>2
      <3>2. v = [i \in 1 .. m |-> EndState(Port("end-failure", i), bad[i], o[i])]
        BY <3>1
      <3> HIDE DEF m, o, v
      <3> QED BY <3>1, <3>2, NumberedEnds
    <2> HIDE DEF u, v
    <2> QED BY <2>2, <2>3, <2>4, CatElements
  <1>6. base \in Seq(EndStates)
    BY <1>1, <1>4, <1>5
  <1>7. lacking \in SUBSET DOMAIN made
    OBVIOUS
  <1>8. EndStatesOf(step) = base \o At(made, lacking)
    BY DEF EndStatesOf
  <1> HIDE DEF base, made, lacking
  <1>9. At(made, lacking) \in Seq(EndStates)
    BY <1>4, <1>7, AtPositions
  <1> QED BY <1>6, <1>8, <1>9, CatElements

\* End states that fit their transitions are drawn as they are stored.
LEMMA FittingEnds ==
    ASSUME NEW step \in ActionSteps, step.ends # None,
           \A i \in DOMAIN step.on_outcomes :
              \E k \in DOMAIN step.ends : Matches(step.ends[k], i, step.on_outcomes[i])
    PROVE  EndStatesOf(step) = step.ends
  <1> DEFINE ts == step.on_outcomes
             made == [i \in DOMAIN ts |-> EndState(Port("end-outcome-step", i), StateOf(ts[i]),
                                                   Known(ts[i].outcome))]
             lacking == {i \in DOMAIN ts : \A k \in DOMAIN step.ends : ~Matches(step.ends[k], i, ts[i])}
  <1>1. ts \in Seq(Transitions) /\ step.ends \in Seq(EndStates)
    BY DEF ActionSteps
  <1>2. lacking = {}
    OBVIOUS
  <1>3. made \in Seq({made[i] : i \in DOMAIN ts})
    BY <1>1
  <1>4. EndStatesOf(step) = step.ends \o At(made, lacking)
    BY DEF EndStatesOf
  <1> HIDE DEF made, lacking
  <1>5. At(made, {}) = <<>>
    BY <1>3, AtNone
  <1>6. step.ends \o <<>> = step.ends
    BY <1>1
  <1> QED BY <1>2, <1>4, <1>5, <1>6

\* Distinct keeps the type of its sequence.
LEMMA DistinctType ==
    ASSUME NEW S, NEW s \in Seq(S) PROVE Distinct(s) \in Seq(S)
  BY AtPositions DEF Distinct

\* categorizeEndStates returns two lists of states.
LEMMA CategorizedType ==
    ASSUME NEW ends \in Seq(EndStates)
    PROVE  /\ categorizeEndStates(ends).success \in Seq(Texts)
           /\ categorizeEndStates(ends).failure \in Seq(Texts)
  <1> DEFINE states == [i \in DOMAIN ends |-> ends[i].state]
  <1>1. states \in Seq(Texts) /\ DOMAIN states = DOMAIN ends
    <2>1. \A i \in DOMAIN ends : ends[i] \in EndStates
      OBVIOUS
    <2>2. \A i \in DOMAIN ends : ends[i].state \in Texts
      BY <2>1 DEF EndStates
    <2> QED BY <2>2
  <1>2. Failing(ends) \in SUBSET DOMAIN ends
    BY DEF Failing
  <1>3. /\ categorizeEndStates(ends).success = Distinct(At(states, DOMAIN ends \ Failing(ends)))
        /\ categorizeEndStates(ends).failure = Distinct(At(states, Failing(ends)))
    BY DEF categorizeEndStates
  <1> HIDE DEF states
  <1>4. \A I \in SUBSET DOMAIN states : At(states, I) \in Seq(Texts)
    BY <1>1, AtPositions
  <1>5. \A I \in SUBSET DOMAIN states : Distinct(At(states, I)) \in Seq(Texts)
    BY <1>4, DistinctType
  <1> QED BY <1>1, <1>2, <1>3, <1>5

(***************************************************************************)
(* The invariant.  Drawing is kept whatever is drawn; Sound as long as no  *)
(* chained retry blocks were saved: no edge without its nodes, one edge at *)
(* each port of a retry block, and, what the first two need at a save, no  *)
(* edge into a retry block that leaves from the end state of a success.    *)
(***************************************************************************)
Nodes ==
    [id : NodeIds, type : {"action", "event", "retry"}, sub : Terminals \cup {"Start", "Retry", None},
     ends : Seq(EndStates), success : Seq(Texts), failure : Seq(Texts),
     server : BOOLEAN, retry : Nat, backoff : Nat]
Edges == [src : NodeIds, sh : Handles \cup {None}, dst : NodeIds \ {Start},
          th : {"in", "retry-in", "state-in"}, by : {"load", "user"}]
Shaped(n) ==
    /\ n.type = "action" => n.id \in Ids
    /\ n.type = "event" => n.id = Start \/ (n.id \in Ids /\ n.sub \in Terminals)
    /\ n.type = "event" /\ n.id = Start => n.sub = "Start"
    /\ n.type = "retry" => n.id # Start
    /\ n.type # "action" => n.ends = <<>>
    /\ HandlesApart(n.ends)
Apart(ns) == \A i, j \in DOMAIN ns : ns[i].id = ns[j].id => i = j
Drawing(ns, es) ==
    /\ ns \in Seq(Nodes) /\ es \in Seq(Edges) /\ Apart(ns)
    /\ \A i \in DOMAIN ns : Shaped(ns[i])

IsBlock(ns, id) == \E i \in DOMAIN ns : ns[i].type = "retry" /\ ns[i].id = id
BothThere(ns, e) == (\E i \in DOMAIN ns : ns[i].id = e.src) /\ (\E i \in DOMAIN ns : ns[i].id = e.dst)
OnePort(ns, e, f) ==
    Start \notin {e.src, f.src} =>
    /\ IsBlock(ns, e.src) => <<e.src, e.sh>> # <<f.src, f.sh>>
    /\ IsBlock(ns, e.dst) => e.dst # f.dst
IntoBlock(ns, e) ==
    IsBlock(ns, e.dst) =>
       /\ e.src # Start => e.th = "retry-in"
       /\ \A i \in DOMAIN ns : ns[i].id = e.src =>
             \A k \in DOMAIN ns[i].ends : ns[i].ends[k].id = e.sh => IsFailure(ns[i].ends[k].outcome)
Sound(ns, es) ==
    /\ \A k \in DOMAIN es : BothThere(ns, es[k]) /\ IntoBlock(ns, es[k])
    /\ \A k, l \in DOMAIN es : k # l => OnePort(ns, es[k], es[l])

GraphInv ==
    /\ Drawing(nodes, edges) /\ pending \subseteq Edges /\ chainSaved \in BOOLEAN
    /\ ~chainSaved => Sound(nodes, edges)

(***************************************************************************)
(* Compilation                                                             *)
(***************************************************************************)
LEMMA SeqElement ==
    ASSUME NEW S, NEW s \in Seq(S) PROVE DOMAIN s \in SUBSET Nat /\ \A i \in DOMAIN s : s[i] \in S
  OBVIOUS

\* An edge into a retry block stands for where the block leads, any other for itself.
LEMMA RetryTarget ==
    ASSUME NEW ns \in Seq(Nodes), NEW es \in Seq(Edges), NEW e \in Edges
    PROVE  LET r == resolveRetryTarget(ns, es, e)
           IN /\ r.target \in Targets /\ r.config \in Configs \cup {None}
              /\ ~IsBlock(ns, e.dst) => r.config = None /\ r.target = e.dst
              /\ IsBlock(ns, e.dst) =>
                    /\ r.config # None
                    /\ \/ r.target = None
                       \/ \E j \in DOMAIN es : es[j].src = e.dst /\ r.target = es[j].dst
  <1> DEFINE found == {i \in DOMAIN ns : ns[i].type = "retry" /\ ns[i].id = e.dst}
             r == resolveRetryTarget(ns, es, e)
             t == resolveRetryEdge(es, e.dst, e.src)
             block == FirstAt(ns, found)
  <1>0. /\ found \in SUBSET Nat /\ \A i \in DOMAIN ns : ns[i] \in Nodes
        /\ \A j \in DOMAIN es : j \in Nat /\ es[j] \in Edges
    BY SeqElement
  <1>1. found = {} <=> ~IsBlock(ns, e.dst)
    BY DEF IsBlock
  <1>2. t = None \/ \E j \in DOMAIN es : es[j].src = e.dst /\ t = es[j].dst
    <2> DEFINE Out(ports) == {i \in DOMAIN es : es[i].src = e.dst /\ es[i].sh \in ports}
               legacy == {i \in Out({None, StateOut}) : es[i].dst # e.src}
               I == IF Out({RetryFailed}) # {} THEN Out({RetryFailed})
                    ELSE IF Out({RetryWarning}) # {} THEN Out({RetryWarning}) ELSE legacy
    <2>1. t = IF I = {} THEN None ELSE FirstAt(es, I).dst
      BY DEF resolveRetryEdge
    <2>2. I \in SUBSET DOMAIN es /\ \A i \in I : es[i].src = e.dst
      OBVIOUS
    <2> HIDE DEF I, t
    <2>3. I \in SUBSET Nat
      BY <1>0, <2>2
    <2>4. I # {} => \E i \in I : FirstAt(es, I) = es[i]
      BY <2>3, FirstAtIn
    <2> QED BY <2>1, <2>2, <2>4
  <1>3. t \in Targets
    <2> HIDE DEF t
    <2>1. \A j \in DOMAIN es : es[j].dst \in NodeIds \ {Start}
      BY <1>0 DEF Edges
    <2> QED BY <1>2, <2>1 DEF Targets
  <1>4. CASE found = {}
    <2>1. r = [target |-> e.dst, config |-> None]
      BY <1>4 DEF resolveRetryTarget
    <2>2. e.dst \in Targets
      BY DEF Edges, Targets
    <2> QED BY <1>1, <1>4, <2>1, <2>2
  <1>5. CASE found # {}
    <2>1. r = [target |-> t, config |-> [retry |-> block.retry, backoff |-> block.backoff]]
      BY <1>5 DEF resolveRetryTarget
    <2>2. block \in Nodes
      <3> HIDE DEF found
      <3>1. \E i \in found : block = ns[i]
        BY <1>0, <1>5, FirstAtIn
      <3> QED BY <1>0, <3>1 DEF found
    <2>3. [retry |-> block.retry, backoff |-> block.backoff] \in Configs
      BY <2>2 DEF Nodes, Configs
    <2> HIDE DEF t, block, found
    <2> QED BY <1>1, <1>2, <1>3, <1>5, <2>1, <2>3, NullAssumption
  <1> QED BY <1>4, <1>5

\* What is drawn from an end state: along the first edge of its handle.
FollowsEdge(ns, es, n, i, j, d) ==
    LET r == resolveRetryTarget(ns, es, es[j])
    IN /\ es[j].src = n.id /\ es[j].sh = n.ends[i].id
       /\ d = [outcome |-> n.ends[i].outcome, state |-> n.ends[i].state,
               next |-> IF r.target = None THEN es[j].dst ELSE r.target, target |-> r.target,
               config |-> IF IsFailure(n.ends[i].outcome) THEN r.config ELSE None]
DrawnOf(ns, es, n) ==
    [outcome : Outcomes, state : Texts, next : NodeIds \ {Start}, target : Targets,
     config : Configs \cup {None}]

\* What Drawn finds at an end state follows an edge of its handle.
LEMMA DrawnFrom ==
    ASSUME NEW ns \in Seq(Nodes), NEW es \in Seq(Edges), NEW n \in Nodes
    PROVE  /\ Drawn(ns, es, n) \in Seq(DrawnOf(ns, es, n))
           /\ \A p \in DOMAIN Drawn(ns, es, n) :
                 \E i \in DOMAIN n.ends, j \in DOMAIN es : FollowsEdge(ns, es, n, i, j, Drawn(ns, es, n)[p])
  <1> DEFINE D == DrawnOf(ns, es, n)
             From(i) == {k \in DOMAIN es : es[k].src = n.id /\ es[k].sh = n.ends[i].id}
             Made(i) ==
                LET e == FirstAt(es, From(i))
                    r == resolveRetryTarget(ns, es, e)
                    outcome == inferOutcome(n.ends[i], i)
                IN [outcome |-> outcome, state |-> n.ends[i].state,
                    next |-> IF r.target = None THEN e.dst ELSE r.target,
                    target |-> r.target,
                    config |-> IF IsFailure(outcome) THEN r.config ELSE None]
             s == [i \in DOMAIN n.ends |-> IF From(i) = {} THEN <<>> ELSE <<Made(i)>>]
  <1>1. Drawn(ns, es, n) = Flatten(s)
    BY DEF Drawn
  <1>2. n.ends \in Seq(EndStates)
    BY DEF Nodes
  <1>3. ASSUME NEW i \in DOMAIN n.ends, From(i) # {}
        PROVE  Made(i) \in D /\ \E j \in DOMAIN es : FollowsEdge(ns, es, n, i, j, Made(i))
    <2>1. From(i) \in SUBSET Nat /\ From(i) \in SUBSET DOMAIN es
      BY SeqElement
    <2>2. PICK j \in From(i) : FirstAt(es, From(i)) = es[j]
      <3> HIDE DEF From
      <3> QED BY <1>3, <2>1, FirstAtIn
    <2>3. j \in DOMAIN es /\ es[j] \in Edges /\ es[j].src = n.id /\ es[j].sh = n.ends[i].id
      BY <2>2, SeqElement
    <2>4. n.ends[i] \in EndStates
      BY <1>2, SeqElement
    <2>5. inferOutcome(n.ends[i], i) = n.ends[i].outcome /\ n.ends[i].outcome \in Outcomes
          /\ n.ends[i].state \in Texts
      BY <2>4, EndOutcome DEF EndStates
    <2> DEFINE r == resolveRetryTarget(ns, es, es[j])
    <2>6. r.target \in Targets /\ r.config \in Configs \cup {None}
      BY <2>3, RetryTarget
    <2>7. Made(i) = [outcome |-> n.ends[i].outcome, state |-> n.ends[i].state,
                     next |-> IF r.target = None THEN es[j].dst ELSE r.target,
                     target |-> r.target,
                     config |-> IF IsFailure(n.ends[i].outcome) THEN r.config ELSE None]
      BY <2>2, <2>5
    <2>8. es[j].dst \in NodeIds \ {Start}
      BY <2>3 DEF Edges
    <2> HIDE DEF r, Made
    <2>9. Made(i) \in D
      BY <2>5, <2>6, <2>7, <2>8 DEF DrawnOf, Targets
    <2>10. FollowsEdge(ns, es, n, i, j, Made(i))
      BY <2>3, <2>7 DEF FollowsEdge, r
    <2> QED BY <2>3, <2>9, <2>10
  <1> HIDE DEF Made, From, D
  <1>4. s \in Seq(Seq(D)) /\ DOMAIN s = DOMAIN n.ends
    <2>1. \A i \in DOMAIN n.ends : (IF From(i) = {} THEN <<>> ELSE <<Made(i)>>) \in Seq(D)
      BY <1>3
    <2>2. Len(n.ends) \in Nat /\ DOMAIN n.ends = 1 .. Len(n.ends)
      BY <1>2
    <2> QED BY <2>1, <2>2
  <1>5. Flatten(s) \in Seq(D) /\ \E m : Joins(Flatten(s), s, Len(s), m)
    <2> HIDE DEF s
    <2> QED BY <1>4, FlattenPositions
  <1>6. ASSUME NEW p \in DOMAIN Flatten(s)
        PROVE  \E i \in DOMAIN n.ends, j \in DOMAIN es : FollowsEdge(ns, es, n, i, j, Flatten(s)[p])
    <2>1. PICK m : Joins(Flatten(s), s, Len(s), m)
      BY <1>5
    <2>2. p \in 1 .. Len(Flatten(s)) /\ DOMAIN s = 1 .. Len(s)
      <3> HIDE DEF s
      <3> QED BY <1>4, <1>5, <1>6
    <2> DEFINE i == m[p][1]
               k == m[p][2]
    <2>3. i \in DOMAIN s /\ k \in DOMAIN s[i] /\ Flatten(s)[p] = s[i][k]
      <3> HIDE DEF s
      <3> QED BY <2>1, <2>2 DEF Joins
    <2> HIDE DEF i, k
    <2>4. i \in DOMAIN n.ends /\ From(i) # {} /\ s[i] = <<Made(i)>>
      BY <1>4, <2>3
    <2>5. Flatten(s)[p] = Made(i)
      BY <2>3, <2>4
    <2> QED BY <1>3, <2>4, <2>5
  <1> QED BY <1>1, <1>5, <1>6 DEF D

\* FirstNext is where one of the transitions it is given leads.
LEMMA FirstNextIn ==
    ASSUME NEW drawn, NEW I \in SUBSET Nat
    PROVE  FirstNext(drawn, I) = None \/ \E i \in I : FirstNext(drawn, I) = drawn[i].next
  BY FirstAtIn DEF FirstNext

\* Where a step goes on failure: along its first failure, or where its retries lead.
LEMMA OnFailureIn ==
    ASSUME NEW D, NEW drawn \in Seq(D)
    PROVE  LET found == OnFailure(drawn)
           IN /\ \/ found.next = None
                 \/ \E i \in DOMAIN drawn : drawn[i].config = None /\ found.next = drawn[i].next
                 \/ \E i \in DOMAIN drawn : drawn[i].config # None /\ found.next = drawn[i].target
              /\ \/ found.config = None
                 \/ \E i \in DOMAIN drawn : found.config = drawn[i].config
  <1> DEFINE retried == {i \in DOMAIN drawn : drawn[i].config # None}
             others == {i \in DOMAIN drawn \ retried : IsFailure(drawn[i].outcome)}
             block == FirstAt(drawn, retried)
             other == FirstNext(drawn, others)
  <1>1. retried \in SUBSET Nat /\ others \in SUBSET Nat
    BY SeqElement
  <1>2. OnFailure(drawn) =
          IF retried = {} THEN [next |-> other, config |-> None]
          ELSE [next |-> IF block.target = None THEN other ELSE block.target,
                config |-> block.config]
    BY DEF OnFailure
  <1>3. other = None \/ \E i \in DOMAIN drawn : drawn[i].config = None /\ other = drawn[i].next
    <2> HIDE DEF others
    <2>1. other = None \/ \E i \in others : other = drawn[i].next
      BY <1>1, FirstNextIn
    <2> QED BY <2>1 DEF others
  <1>4. retried # {} => \E i \in DOMAIN drawn : drawn[i].config # None /\ block = drawn[i]
    <2> HIDE DEF retried
    <2>1. retried # {} => \E i \in retried : block = drawn[i]
      BY <1>1, FirstAtIn
    <2> QED BY <2>1 DEF retried
  <1> HIDE DEF retried, others, block, other
  <1> QED BY <1>2, <1>3, <1>4

\* A stored outcome transition is one that runs into no retry block.
LEMMA DirectTransitions ==
    ASSUME NEW D, NEW drawn \in Seq(D)
    PROVE  LET ts == OutcomeTransitions(drawn)
           IN /\ ts \in Seq({ts[i] : i \in DOMAIN ts})
              /\ \A i \in DOMAIN ts : \E p \in DOMAIN drawn :
                    /\ drawn[p].config = None
                    /\ ts[i] = [outcome |-> drawn[p].outcome, next |-> drawn[p].next,
                                state |-> drawn[p].state]
  <1> DEFINE I == {p \in DOMAIN drawn : drawn[p].config = None}
             direct == At(drawn, I)
             ts == [i \in DOMAIN direct |-> [outcome |-> direct[i].outcome, next |-> direct[i].next,
                                             state |-> direct[i].state]]
  <1>1. OutcomeTransitions(drawn) = ts
    BY DEF OutcomeTransitions, Filter
  <1>2. direct \in Seq(D) /\ Elements(direct) = {drawn[p] : p \in I}
    <2>1. I \in SUBSET DOMAIN drawn
      OBVIOUS
    <2> HIDE DEF I
    <2> QED BY <2>1, AtPositions, AtElements
  <1> HIDE DEF direct
  <1>3. ts \in Seq({ts[i] : i \in DOMAIN ts})
    BY <1>2
  <1>4. ASSUME NEW i \in DOMAIN direct
        PROVE  \E p \in DOMAIN drawn : drawn[p].config = None /\ direct[i] = drawn[p]
    <2>1. direct[i] \in Elements(direct)
      BY DEF Elements
    <2> QED BY <1>2, <2>1
  <1>5. \A i \in DOMAIN ts : \E p \in DOMAIN drawn :
           /\ drawn[p].config = None
           /\ ts[i] = [outcome |-> drawn[p].outcome, next |-> drawn[p].next, state |-> drawn[p].state]
    BY <1>4
  <1> HIDE DEF ts
  <1> QED BY <1>1, <1>3, <1>5

\* An action is compiled into a step with its end states, which have handles of their own.
LEMMA StepOfTyped ==
    ASSUME NEW ns \in Seq(Nodes), NEW es \in Seq(Edges), NEW n \in Nodes, n.id \in Ids,
           HandlesApart(n.ends)
    PROVE  /\ StepOf(ns, es, n) \in ActionSteps /\ EndStatesOf(StepOf(ns, es, n)) = n.ends
           /\ HandlesApart(EndStatesOf(StepOf(ns, es, n)))
  <1> DEFINE drawn == Drawn(ns, es, n)
             D == DrawnOf(ns, es, n)
             c == categorizeEndStates(n.ends)
             ok == IF c.success = <<>> THEN n.success ELSE c.success
             bad == IF c.failure = <<>> THEN n.failure ELSE c.failure
             won == FirstNext(drawn, {i \in DOMAIN drawn : drawn[i].outcome = "success"})
             lost == OnFailure(drawn)
             ts == OutcomeTransitions(drawn)
             step == StepOf(ns, es, n)
  <1>1. step = [id |-> n.id, type |-> "action", ends |-> n.ends, success |-> ok, failure |-> bad,
                on_success |-> won, on_failure |-> lost, on_outcomes |-> ts]
    BY DEF StepOf
  <1>2. n.ends \in Seq(EndStates) /\ n.success \in Seq(Texts) /\ n.failure \in Seq(Texts)
    BY DEF Nodes
  <1>3. ok \in Seq(Texts) /\ bad \in Seq(Texts)
    BY <1>2, CategorizedType
  <1>4. drawn \in Seq(D) /\ \A p \in DOMAIN drawn : drawn[p] \in D
    BY DrawnFrom, SeqElement
  <1>5. \A d \in D : d.next \in Targets /\ d.target \in Targets /\ d.config \in Configs \cup {None}
                     /\ d.outcome \in Outcomes /\ d.state \in Texts
    BY DEF DrawnOf, Targets
  <1>6. None \in Targets
    BY DEF Targets
  <1> HIDE DEF drawn, D
  <1>7. won \in Targets
    <2> DEFINE I == {i \in DOMAIN drawn : drawn[i].outcome = "success"}
    <2>1. I \in SUBSET Nat /\ I \in SUBSET DOMAIN drawn
      BY <1>4
    <2>2. won = FirstNext(drawn, I)
      OBVIOUS
    <2> HIDE DEF I, won
    <2>3. won = None \/ \E i \in I : won = drawn[i].next
      BY <2>1, <2>2, FirstNextIn
    <2> QED BY <1>4, <1>5, <1>6, <2>1, <2>3
  <1>8. lost \in [next : Targets, config : Configs \cup {None}]
    <2>1. lost.next \in Targets /\ lost.config \in Configs \cup {None}
      BY <1>4, <1>5, <1>6, OnFailureIn
    <2>2. lost = [next |-> lost.next, config |-> lost.config]
      BY DEF OnFailure
    <2> HIDE DEF lost
    <2> QED BY <2>1, <2>2
  <1>9. /\ ts \in Seq({ts[i] : i \in DOMAIN ts})
        /\ \A i \in DOMAIN ts : \E p \in DOMAIN drawn :
              ts[i] = [outcome |-> drawn[p].outcome, next |-> drawn[p].next, state |-> drawn[p].state]
    BY <1>4, DirectTransitions
  <1> HIDE DEF ts, won, lost, ok, bad, c, step
  <1>10. ts \in Seq(Transitions)
    <2>1. ASSUME NEW i \in DOMAIN ts PROVE ts[i] \in Transitions
      <3>1. PICK p \in DOMAIN drawn :
              ts[i] = [outcome |-> drawn[p].outcome, next |-> drawn[p].next, state |-> drawn[p].state]
        BY <1>9
      <3> QED BY <1>4, <1>5, <3>1 DEF Transitions
    <2> QED BY <1>9, <2>1
  <1>11. step \in ActionSteps
    BY <1>1, <1>2, <1>3, <1>7, <1>8, <1>10 DEF ActionSteps
  <1>12. ASSUME NEW i \in DOMAIN ts PROVE \E k \in DOMAIN n.ends : Matches(n.ends[k], i, ts[i])
    <2>1. PICK p \in DOMAIN drawn :
            ts[i] = [outcome |-> drawn[p].outcome, next |-> drawn[p].next, state |-> drawn[p].state]
      BY <1>9
    <2>2. PICK k \in DOMAIN n.ends, j \in DOMAIN es : FollowsEdge(ns, es, n, k, j, drawn[p])
      BY DrawnFrom DEF drawn
    <2>3. drawn[p].outcome = n.ends[k].outcome /\ drawn[p].state = n.ends[k].state
      BY <2>2 DEF FollowsEdge
    <2>4. n.ends[k] \in EndStates
      BY <1>2, SeqElement
    <2>5. inferOutcome(n.ends[k], i) = n.ends[k].outcome /\ Known(n.ends[k].outcome) = n.ends[k].outcome
      BY <2>4, EndOutcome, OutcomesKnown
    <2> QED BY <2>1, <2>3, <2>5 DEF Matches
  <1>13. EndStatesOf(step) = n.ends
    <2>1. step.ends = n.ends /\ step.on_outcomes = ts
      BY <1>1
    <2>2. step.ends # None
      BY <1>2, <2>1, NullAssumption
    <2> QED BY <1>11, <1>12, <2>1, <2>2, FittingEnds
  <1> QED BY <1>11, <1>13 DEF step

ChainedIn(ns, es) == \E j \in DOMAIN es : IsBlock(ns, es[j].src) /\ IsBlock(ns, es[j].dst)
SteppedIds(ns) == {ns[i].id : i \in {j \in DOMAIN ns : Stepped(ns[j])}}

\* A node that an edge leads to is a retry block or becomes a step.
LEMMA LedTo ==
    ASSUME NEW ns, NEW es, Drawing(ns, es), Sound(ns, es), NEW j \in DOMAIN es, ~IsBlock(ns, es[j].dst)
    PROVE  es[j].dst \in SteppedIds(ns)
  <1>1. PICK i \in DOMAIN ns : ns[i].id = es[j].dst
    BY DEF Sound, BothThere
  <1>2. ns[i] \in Nodes /\ Shaped(ns[i]) /\ es[j] \in Edges
    BY DEF Drawing
  <1>3. ns[i].id # Start /\ ns[i].type # "retry" /\ ns[i].type \in {"action", "event", "retry"}
    BY <1>1, <1>2 DEF Edges, Nodes, IsBlock
  <1>4. Stepped(ns[i])
    BY <1>2, <1>3 DEF Shaped, Stepped
  <1> QED BY <1>1, <1>4 DEF SteppedIds

\* Unless retry blocks are chained, what is drawn leads to steps; a success never
\* leads into a retry block.
LEMMA DrawnSound ==
    ASSUME NEW ns, NEW es, Drawing(ns, es), Sound(ns, es), ~ChainedIn(ns, es),
           NEW q \in DOMAIN ns, NEW p \in DOMAIN Drawn(ns, es, ns[q])
    PROVE  LET d == Drawn(ns, es, ns[q])[p]
           IN /\ d.target \in SteppedIds(ns) \cup {None}
              /\ d.config = None => d.next \in SteppedIds(ns)
              /\ d.outcome = "success" => d.config = None
  <1>1. ns \in Seq(Nodes) /\ es \in Seq(Edges) /\ ns[q] \in Nodes
    BY DEF Drawing
  <1> DEFINE n == ns[q]
             d == Drawn(ns, es, n)[p]
  <1>2. PICK i \in DOMAIN n.ends, j \in DOMAIN es : FollowsEdge(ns, es, n, i, j, d)
    <2> HIDE DEF n
    <2> QED BY <1>1, DrawnFrom DEF n
  <1> DEFINE r == resolveRetryTarget(ns, es, es[j])
  <1>3. /\ es[j].src = n.id /\ es[j].sh = n.ends[i].id
        /\ d = [outcome |-> n.ends[i].outcome, state |-> n.ends[i].state,
               next |-> IF r.target = None THEN es[j].dst ELSE r.target, target |-> r.target,
               config |-> IF IsFailure(n.ends[i].outcome) THEN r.config ELSE None]
    BY <1>2 DEF FollowsEdge
  <1>4. es[j] \in Edges
    BY <1>1
  <1>5. CASE ~IsBlock(ns, es[j].dst)
    <2>1. r.config = None /\ r.target = es[j].dst
      BY <1>1, <1>4, <1>5, RetryTarget
    <2>2. es[j].dst \in SteppedIds(ns)
      BY <1>5, LedTo
    <2> HIDE DEF d, r, n
    <2>3. d.target = es[j].dst /\ d.next = es[j].dst /\ d.config = None
      BY <1>3, <2>1
    <2> QED BY <2>2, <2>3 DEF d, n
  <1>6. CASE IsBlock(ns, es[j].dst)
    <2>1. /\ r.config # None
          /\ \/ r.target = None
             \/ \E k \in DOMAIN es : es[k].src = es[j].dst /\ r.target = es[k].dst
      BY <1>1, <1>4, <1>6, RetryTarget
    <2>2. IsFailure(n.ends[i].outcome)
      BY <1>3, <1>6 DEF Sound, IntoBlock
    <2>3. r.target = None \/ r.target \in SteppedIds(ns)
      <3>1. ASSUME NEW k \in DOMAIN es, es[k].src = es[j].dst PROVE es[k].dst \in SteppedIds(ns)
        <4>1. ~IsBlock(ns, es[k].dst)
          BY <1>6, <3>1 DEF ChainedIn
        <4> QED BY <4>1, LedTo
      <3> HIDE DEF r
      <3> QED BY <2>1, <3>1
    <2> HIDE DEF d, r, n
    <2>4. d.target = r.target /\ d.config # None /\ d.outcome # "success"
      BY <1>3, <2>1, <2>2 DEF IsFailure
    <2> QED BY <2>3, <2>4 DEF d, n
  <1> QED BY <1>5, <1>6

\* The step of an action of a sound drawing refers to steps of that drawing.
LEMMA StepOfSound ==
    ASSUME NEW ns, NEW es, Drawing(ns, es), Sound(ns, es), ~ChainedIn(ns, es), NEW q \in DOMAIN ns
    PROVE  Refers(StepOf(ns, es, ns[q]), SteppedIds(ns) \cup {None})
  <1> DEFINE drawn == Drawn(ns, es, ns[q])
             known == SteppedIds(ns) \cup {None}
             I == {i \in DOMAIN drawn : drawn[i].outcome = "success"}
             won == FirstNext(drawn, I)
             lost == OnFailure(drawn)
             ts == OutcomeTransitions(drawn)
             step == StepOf(ns, es, ns[q])
  <1>1. step.on_success = won /\ step.on_failure = lost /\ step.on_outcomes = ts
    BY DEF StepOf
  <1>2. \A p \in DOMAIN drawn : /\ drawn[p].target \in known
                                /\ drawn[p].config = None => drawn[p].next \in known
                                /\ drawn[p].outcome = "success" => drawn[p].config = None
    BY DrawnSound
  <1>3. drawn \in Seq(DrawnOf(ns, es, ns[q]))
    BY DrawnFrom DEF Drawing
  <1> HIDE DEF drawn
  <1>4. won \in known
    <2>1. I \in SUBSET Nat /\ I \in SUBSET DOMAIN drawn
      BY <1>3
    <2> HIDE DEF I
    <2>2. won = None \/ \E i \in I : won = drawn[i].next
      BY <2>1, FirstNextIn
    <2> QED BY <1>2, <2>1, <2>2 DEF I
  <1>5. lost.next \in known
    BY <1>2, <1>3, OnFailureIn
  <1>6. \A i \in DOMAIN ts : ts[i].next \in known
    <2>1. ASSUME NEW i \in DOMAIN ts PROVE ts[i].next \in known
      <3>1. PICK p \in DOMAIN drawn :
              /\ drawn[p].config = None
              /\ ts[i] = [outcome |-> drawn[p].outcome, next |-> drawn[p].next,
                          state |-> drawn[p].state]
        BY <1>3, <2>1, DirectTransitions
      <3> QED BY <1>2, <3>1
    <2> QED BY <2>1
  <1> HIDE DEF won, lost, ts, step, known
  <1>7. Refers(step, known)
    BY <1>1, <1>4, <1>5, <1>6 DEF Refers
  <1> QED BY <1>7 DEF step, known

\* The steps of a drawing: one for each node that becomes one, with its id.
StepFor(ns, es, n) == IF n.type = "event" THEN TerminalStep(n) ELSE StepOf(ns, es, n)

\* convertGraphToSteps makes one step of each node that stands for one.
LEMMA CompiledSteps ==
    ASSUME NEW ns, NEW es, Drawing(ns, es)
    PROVE  LET list == convertGraphToSteps(ns, es).steps
           IN /\ StepsTyped(list) /\ StepIds(list) = SteppedIds(ns)
              /\ \A i \in DOMAIN list : \E q \in DOMAIN ns :
                    Stepped(ns[q]) /\ list[i] = StepFor(ns, es, ns[q])
  <1> DEFINE I == {q \in DOMAIN ns : Stepped(ns[q])}
             made == At(ns, I)
             list == [i \in DOMAIN made |-> IF made[i].type = "event" THEN TerminalStep(made[i])
                                            ELSE StepOf(ns, es, made[i])]
  <1>1. convertGraphToSteps(ns, es).steps = list
    BY DEF convertGraphToSteps, Filter
  <1>2. ns \in Seq(Nodes) /\ es \in Seq(Edges) /\ I \in SUBSET DOMAIN ns
    BY DEF Drawing
  <1>3. PICK g : Picks(made, ns, I, g)
    <2> HIDE DEF I
    <2> QED BY <1>2, AtPositions
  <1>4. made \in Seq(Nodes)
    <2> HIDE DEF I
    <2> QED BY <1>2, AtPositions
  <1> HIDE DEF made
  <1>5. /\ DOMAIN made = 1 .. Len(made) /\ DOMAIN list = DOMAIN made /\ Len(made) \in Nat
        /\ \A i \in DOMAIN made : g[i] \in I /\ made[i] = ns[g[i]]
        /\ \A i, j \in DOMAIN made : g[i] = g[j] => i = j
        /\ \A q \in I : \E i \in DOMAIN made : g[i] = q
    <2>1. DOMAIN made = 1 .. Len(made) /\ DOMAIN list = DOMAIN made /\ Len(made) \in Nat
      BY <1>4
    <2>2. \A q \in I : q \in Nat
      BY <1>2
    <2>3. \A i, j \in 1 .. Len(made) : i < j \/ j < i \/ i = j
      BY <2>1
    <2>4. \A i \in DOMAIN made : g[i] \in I /\ made[i] = ns[g[i]]
      BY <1>3, <2>1 DEF Picks
    <2>5. \A q \in I : \E i \in DOMAIN made : g[i] = q
      BY <1>3, <2>1 DEF Picks
    <2>6. ASSUME NEW i \in DOMAIN made, NEW j \in DOMAIN made, g[i] = g[j] PROVE i = j
      <3>1. g[i] \in Nat /\ ~(g[i] < g[j]) /\ ~(g[j] < g[i])
        BY <2>2, <2>4, <2>6
      <3> QED BY <1>3, <2>1, <2>3, <3>1 DEF Picks
    <2> HIDE DEF I
    <2> QED BY <2>1, <2>4, <2>5, <2>6
  <1>6. ASSUME NEW q \in I
        PROVE  /\ StepFor(ns, es, ns[q]) \in ActionSteps \cup TerminalSteps
               /\ StepFor(ns, es, ns[q]).id = ns[q].id
               /\ StepFor(ns, es, ns[q]).type = "action" =>
                     HandlesApart(EndStatesOf(StepFor(ns, es, ns[q])))
    <2> DEFINE n == ns[q]
    <2>1. n \in Nodes /\ Shaped(n) /\ Stepped(n)
      BY <1>2 DEF Drawing
    <2>2. CASE n.type = "event"
      <3>1. n.id \in Ids
        BY <2>1, <2>2 DEF Shaped, Stepped, Terminals
      <3>2. StepFor(ns, es, n) = TerminalStep(n)
        BY <2>2 DEF StepFor
      <3>3. TerminalStep(n) \in TerminalSteps /\ TerminalStep(n).id = n.id
            /\ TerminalStep(n).type # "action"
        BY <3>1 DEF TerminalStep, TerminalSteps, eventSubtypeToTerminalPayload
      <3> QED BY <3>2, <3>3
    <2>3. CASE n.type = "action"
      <3>1. n.id \in Ids /\ HandlesApart(n.ends)
        BY <2>1, <2>3 DEF Shaped
      <3>2. StepFor(ns, es, n) = StepOf(ns, es, n)
        BY <2>3 DEF StepFor
      <3>3. StepOf(ns, es, n).id = n.id
        BY DEF StepOf
      <3> HIDE DEF n
      <3> QED BY <1>2, <2>1, <3>1, <3>2, <3>3, StepOfTyped DEF n
    <2> QED BY <2>1, <2>2, <2>3 DEF Stepped
  <1>7. \A i \in DOMAIN list : g[i] \in I /\ list[i] = StepFor(ns, es, ns[g[i]])
    BY <1>5 DEF StepFor
  <1> HIDE DEF I
  <1>8. list \in Seq(ActionSteps \cup TerminalSteps)
    <2>1. \A i \in DOMAIN list : list[i] \in ActionSteps \cup TerminalSteps
      BY <1>6, <1>7
    <2> QED BY <1>5, <2>1
  <1> HIDE DEF list
  <1>9. ASSUME NEW i \in DOMAIN list, NEW j \in DOMAIN list, list[i].id = list[j].id PROVE i = j
    <2>1. g[i] \in I /\ g[j] \in I /\ ns[g[i]].id = ns[g[j]].id
      BY <1>6, <1>7, <1>9
    <2>2. g[i] = g[j]
      BY <1>2, <2>1 DEF Drawing, Apart
    <2> QED BY <1>5, <2>2
  <1>10. StepsTyped(list)
    <2>1. \A i \in DOMAIN list : list[i].type = "action" => HandlesApart(EndStatesOf(list[i]))
      BY <1>6, <1>7
    <2> QED BY <1>8, <1>9, <2>1 DEF StepsTyped
  <1>11. StepIds(list) = SteppedIds(ns)
    <2>1. \A i \in DOMAIN list : list[i].id = ns[g[i]].id /\ g[i] \in I
      BY <1>6, <1>7
    <2>2. \A q \in I : \E i \in DOMAIN list : g[i] = q
      BY <1>5
    <2>3. SteppedIds(ns) = {ns[q].id : q \in I}
      BY DEF SteppedIds, I
    <2> QED BY <2>1, <2>2, <2>3 DEF StepIds
  <1>12. \A i \in DOMAIN list : \E q \in DOMAIN ns : Stepped(ns[q]) /\ list[i] = StepFor(ns, es, ns[q])
    BY <1>7 DEF I
  <1> QED BY <1>1, <1>10, <1>11, <1>12

\* The compiled steps of a sound drawing, and its entry, refer to compiled steps.
LEMMA CompiledResolve ==
    ASSUME NEW ns, NEW es, Drawing(ns, es), Sound(ns, es), ~ChainedIn(ns, es)
    PROVE  LET made == convertGraphToSteps(ns, es)
           IN StepsResolve(made.steps) /\ made.entry \in StepIds(made.steps) \cup {None}
  <1> DEFINE made == convertGraphToSteps(ns, es)
             list == made.steps
  <1>1. /\ StepIds(list) = SteppedIds(ns)
        /\ \A i \in DOMAIN list : \E q \in DOMAIN ns :
              Stepped(ns[q]) /\ list[i] = StepFor(ns, es, ns[q])
        /\ list \in Seq(ActionSteps \cup TerminalSteps)
    BY CompiledSteps DEF StepsTyped
  <1>2. StepsResolve(list)
    <2>1. ASSUME NEW i \in DOMAIN list PROVE Refers(list[i], StepIds(list) \cup {None})
      <3>1. PICK q \in DOMAIN ns : Stepped(ns[q]) /\ list[i] = StepFor(ns, es, ns[q])
        BY <1>1
      <3>2. CASE ns[q].type = "event"
        BY <3>1, <3>2 DEF StepFor, TerminalStep, Refers
      <3>3. CASE ns[q].type # "event"
        <4>1. list[i] = StepOf(ns, es, ns[q])
          BY <3>1, <3>3 DEF StepFor
        <4> QED BY <1>1, <4>1, StepOfSound
      <3> QED BY <3>2, <3>3
    <2> QED BY <2>1 DEF StepsResolve
  <1>3. made.entry \in StepIds(list) \cup {None}
    <2> DEFINE entries == {i \in DOMAIN es : es[i].src = Start}
               first == FirstAt(es, entries)
    <2>1. made.entry = IF entries # {} /\ \E i \in DOMAIN list : list[i].id = first.dst
                       THEN first.dst ELSE IF list = <<>> THEN None ELSE list[1].id
      BY DEF convertGraphToSteps
    <2>2. list # <<>> => 1 \in DOMAIN list
      <3> HIDE DEF list
      <3> QED BY <1>1
    <2> HIDE DEF list, made, first
    <2> QED BY <2>1, <2>2 DEF StepIds
  <1> QED BY <1>2, <1>3

(***************************************************************************)
(* Loading                                                                 *)
(***************************************************************************)
Retried(step) == step.type = "action" /\ HasRetry(step)

\* The ids of retry blocks, of steps and of Start are apart.
LEMMA RetryIds ==
    /\ \A i \in Ids : RetryId(i) \in NodeIds /\ RetryId(i) # Start /\ RetryId(i) \notin Ids /\ i \in NodeIds
    /\ \A i, j \in Ids : RetryId(i) = RetryId(j) => i = j
    /\ Start \in NodeIds /\ Start \notin Ids
  <1>1. \A i, j \in Ids : RetryId(i) = RetryId(j) => i = j
    BY DEF RetryId
  <1>2. \A i \in Ids : RetryId(i) \in {RetryId(j) : j \in Ids}
    OBVIOUS
  <1> QED BY <1>1, <1>2, NullAssumption, GraphAssumption DEF NodeIds

\* Nodes as they are made: events,
LEMMA NodeMade ==
    ASSUME NEW id \in NodeIds, NEW type \in {"action", "event", "retry"},
           NEW sub \in Terminals \cup {"Start", "Retry", None}
    PROVE  LET n == Node(id, type, sub)
           IN n \in Nodes /\ n.id = id /\ n.type = type /\ n.sub = sub /\ n.ends = <<>> /\ HandlesApart(n.ends)
  <1> DEFINE n == Node(id, type, sub)
  <1>1. /\ n.id = id /\ n.type = type /\ n.sub = sub /\ n.ends = <<>> /\ n.success = <<>>
        /\ n.failure = <<>> /\ n.server = FALSE /\ n.retry = 0 /\ n.backoff = 0
    BY DEF Node
  <1>2. <<>> \in Seq(EndStates) /\ <<>> \in Seq(Texts) /\ HandlesApart(<<>>)
    BY DEF HandlesApart
  <1>3. n \in Nodes
    BY <1>2 DEF Node, Nodes
  <1> QED BY <1>1, <1>2, <1>3

\* actions,
LEMMA ActionMade ==
    ASSUME NEW id \in NodeIds, NEW ends \in Seq(EndStates), NEW ok \in Seq(Texts), NEW bad \in Seq(Texts)
    PROVE  LET n == ActionNode(id, ends, ok, bad)
           IN n \in Nodes /\ n.id = id /\ n.type = "action" /\ n.ends = ends
              /\ n.success = ok /\ n.failure = bad
  <1> DEFINE o == Node(id, "action", None)
             a == [o EXCEPT !.ends = ends]
             b == [a EXCEPT !.success = ok]
             c == [b EXCEPT !.failure = bad]
             n == [c EXCEPT !.server = TRUE]
  <1>1. o \in Nodes /\ o.id = id /\ o.type = "action"
    BY NodeMade
  <1> HIDE DEF o
  <1>2. a \in Nodes /\ a.id = id /\ a.type = "action" /\ a.ends = ends
    BY <1>1 DEF Nodes
  <1> HIDE DEF a
  <1>3. b \in Nodes /\ b.id = id /\ b.type = "action" /\ b.ends = ends /\ b.success = ok
    BY <1>2 DEF Nodes
  <1> HIDE DEF b
  <1>4. c \in Nodes /\ c.id = id /\ c.type = "action" /\ c.ends = ends
        /\ c.success = ok /\ c.failure = bad
    BY <1>3 DEF Nodes
  <1> HIDE DEF c
  <1>5. n \in Nodes /\ n.id = id /\ n.type = "action" /\ n.ends = ends
        /\ n.success = ok /\ n.failure = bad
    BY <1>4 DEF Nodes
  <1>6. ActionNode(id, ends, ok, bad) = n
    BY DEF ActionNode, o, a, b, c
  <1> QED BY <1>5, <1>6

\* and retry blocks.
LEMMA RetryMade ==
    ASSUME NEW id \in NodeIds, NEW retry \in Nat, NEW backoff \in Nat
    PROVE  LET n == RetryNode(id, retry, backoff)
           IN n \in Nodes /\ n.id = id /\ n.type = "retry" /\ n.ends = <<>>
              /\ n.retry = retry /\ n.backoff = backoff
  <1> DEFINE o == Node(id, "retry", "Retry")
             a == [o EXCEPT !.retry = retry]
             n == [a EXCEPT !.backoff = backoff]
  <1>1. o \in Nodes /\ o.id = id /\ o.type = "retry" /\ o.ends = <<>>
    BY NodeMade
  <1> HIDE DEF o
  <1>2. a \in Nodes /\ a.id = id /\ a.type = "retry" /\ a.ends = <<>> /\ a.retry = retry
    BY <1>1 DEF Nodes
  <1> HIDE DEF a
  <1>3. n \in Nodes /\ n.id = id /\ n.type = "retry" /\ n.ends = <<>>
        /\ n.retry = retry /\ n.backoff = backoff
    BY <1>2 DEF Nodes
  <1>4. RetryNode(id, retry, backoff) = n
    BY DEF RetryNode, o, a
  <1> QED BY <1>3, <1>4

\* Two elements make a sequence of two.
LEMMA TwoJoined ==
    ASSUME NEW S, NEW a \in S, NEW b \in S
    PROVE  LET t == << a >> \o << b >>
           IN t \in Seq(S) /\ DOMAIN t = 1 .. 2 /\ t[1] = a /\ t[2] = b
  <1> DEFINE u == << a >>
             v == << b >>
  <1>1. u \in Seq(S) /\ v \in Seq(S) /\ Len(u) = 1 /\ Len(v) = 1 /\ u[1] = a /\ v[1] = b
    OBVIOUS
  <1> HIDE DEF u, v
  <1> DEFINE t == u \o v
  <1>2. /\ t \in Seq(S) /\ Len(t) = Len(u) + Len(v)
        /\ \A k \in DOMAIN t :
              \/ k \in DOMAIN u /\ t[k] = u[k]
              \/ k - Len(u) \in DOMAIN v /\ k > Len(u) /\ t[k] = v[k - Len(u)]
    BY <1>1, CatElements
  <1>3. DOMAIN t = 1 .. 2 /\ DOMAIN u = 1 .. 1 /\ DOMAIN v = 1 .. 1
    BY <1>1, <1>2
  <1> HIDE DEF t
  <1>4. t[1] = a /\ t[2] = b
    BY <1>1, <1>2, <1>3
  <1> QED BY <1>2, <1>3, <1>4 DEF u, v, t

\* A stored step is drawn as one node, and as a retry block after it when it has one.
LEMMA StepNodesOf ==
    ASSUME NEW step \in ActionSteps \cup TerminalSteps,
           step.type = "action" => HandlesApart(EndStatesOf(step))
    PROVE  LET ns == StepNodes(step)
           IN /\ ns \in Seq(Nodes) /\ \A k \in DOMAIN ns : Shaped(ns[k])
              /\ 1 \in DOMAIN ns /\ ns[1].id = step.id /\ ns[1].type # "retry"
              /\ step.type = "action" => ns[1].ends = EndStatesOf(step)
              /\ Retried(step) => 2 \in DOMAIN ns
              /\ \A k \in DOMAIN ns : k # 1 => /\ k = 2 /\ Retried(step)
                                               /\ ns[k].id = RetryId(step.id) /\ ns[k].type = "retry"
  <1>0. step.id \in Ids
    BY DEF ActionSteps, TerminalSteps
  <1>1. CASE step.type = "terminal"
    <2> DEFINE n == Node(step.id, "event", terminalStepToEventSubtype(step))
    <2>1. StepNodes(step) = << n >>
      BY <1>1 DEF StepNodes
    <2>2. terminalStepToEventSubtype(step) \in Terminals
      BY DEF terminalStepToEventSubtype, Terminals
    <2>3. n \in Nodes /\ n.id = step.id /\ n.type = "event" /\ n.sub \in Terminals /\ n.ends = <<>>
      BY <1>0, <2>2, NodeMade, RetryIds
    <2> HIDE DEF n
    <2>4. Shaped(n)
      BY <1>0, <2>3, RetryIds DEF Shaped, HandlesApart
    <2>5. step.type # "action" /\ ~Retried(step)
      BY <1>1 DEF Retried
    <2> QED BY <2>1, <2>3, <2>4, <2>5
  <1>2. CASE step.type # "terminal"
    <2>0. step \in ActionSteps
      BY <1>2 DEF TerminalSteps
    <2>1. step.type = "action" /\ step.success \in Seq(Texts) /\ step.failure \in Seq(Texts)
          /\ step.on_failure.config \in Configs \cup {None}
      BY <2>0 DEF ActionSteps
    <2> DEFINE ends == EndStatesOf(step)
               n == ActionNode(step.id, ends, step.success, step.failure)
               c == step.on_failure.config
               b == RetryNode(RetryId(step.id), c.retry, c.backoff)
    <2>2. StepNodes(step) = << n >> \o IF HasRetry(step) THEN << b >> ELSE <<>>
      BY <1>2 DEF StepNodes
    <2>3. ends \in Seq(EndStates) /\ HandlesApart(ends)
      BY <2>0, <2>1, EndStatesOfType
    <2> HIDE DEF ends
    <2>4. n \in Nodes /\ n.id = step.id /\ n.type = "action" /\ n.ends = ends
      <3>1. step.id \in NodeIds
        BY <1>0, RetryIds
      <3>2. step.success \in Seq(Texts) /\ step.failure \in Seq(Texts) /\ ends \in Seq(EndStates)
        BY <2>1, <2>3
      <3> QED BY <3>1, <3>2, ActionMade
    <2>5. HasRetry(step) => b \in Nodes /\ b.id = RetryId(step.id) /\ b.type = "retry" /\ b.ends = <<>>
      <3>1. HasRetry(step) => c \in Configs
        BY <2>1 DEF HasRetry
      <3>2. HasRetry(step) => c.retry \in Nat /\ c.backoff \in Nat
        BY <3>1 DEF Configs
      <3>3. RetryId(step.id) \in NodeIds
        BY <1>0, RetryIds
      <3> HIDE DEF c
      <3> QED BY <3>2, <3>3, RetryMade
    <2> HIDE DEF n, b, c
    <2>6. Shaped(n)
      BY <1>0, <2>3, <2>4, RetryIds DEF Shaped
    <2>7. HasRetry(step) => Shaped(b)
      BY <1>0, <2>5, RetryIds DEF Shaped, HandlesApart
    <2>8. CASE HasRetry(step)
      <3>1. StepNodes(step) = << n >> \o << b >>
        BY <2>2, <2>8
      <3>2. Retried(step)
        BY <2>1, <2>8 DEF Retried
      <3> DEFINE t == << n >> \o << b >>
      <3>3. t \in Seq(Nodes) /\ DOMAIN t = 1 .. 2 /\ t[1] = n /\ t[2] = b
        BY <2>4, <2>5, <2>8, TwoJoined
      <3> HIDE DEF t
      <3> QED BY <2>4, <2>5, <2>6, <2>7, <2>8, <3>1, <3>2, <3>3 DEF ends, t
    <2>9. CASE ~HasRetry(step)
      <3>1. StepNodes(step) = << n >>
        <4>1. StepNodes(step) = << n >> \o <<>>
          BY <2>2, <2>9
        <4> QED BY <4>1
      <3>2. ~Retried(step)
        BY <2>9 DEF Retried
      <3> QED BY <2>1, <2>4, <2>6, <3>1, <3>2 DEF ends
    <2> QED BY <2>8, <2>9
  <1> QED BY <1>1, <1>2

\* The nodes that stored steps are drawn as.
LEMMA LoadedNodes ==
    ASSUME NEW list, StepsTyped(list)
    PROVE  LET parts == [i \in DOMAIN list |-> StepNodes(list[i])]
               ns == << StartNode >> \o Flatten(parts)
           IN /\ ns \in Seq(Nodes) /\ Apart(ns) /\ \A q \in DOMAIN ns : Shaped(ns[q])
              /\ \A q \in DOMAIN ns : \/ ns[q] = StartNode
                                      \/ \E i \in DOMAIN list : \E k \in DOMAIN parts[i] : ns[q] = parts[i][k]
              /\ StartNode \in Elements(ns)
              /\ \A i \in DOMAIN list : \A k \in DOMAIN parts[i] : parts[i][k] \in Elements(ns)
  <1> DEFINE parts == [i \in DOMAIN list |-> StepNodes(list[i])]
             part == Flatten(parts)
             ns == << StartNode >> \o part
             n == Len(list)
             Id(i, k) == IF k = 1 THEN list[i].id ELSE RetryId(list[i].id)
  <1>1. /\ n \in Nat /\ DOMAIN list = 1 .. n
        /\ \A i \in 1 .. n : /\ list[i] \in ActionSteps \cup TerminalSteps /\ list[i].id \in Ids
                             /\ list[i].type = "action" => HandlesApart(EndStatesOf(list[i]))
        /\ \A i, j \in 1 .. n : list[i].id = list[j].id => i = j
    BY DEF StepsTyped, ActionSteps, TerminalSteps
  <1>2. \A i \in 1 .. n :
           /\ StepNodes(list[i]) \in Seq(Nodes)
           /\ \A k \in DOMAIN StepNodes(list[i]) :
                 k \in 1 .. 2 /\ Shaped(StepNodes(list[i])[k]) /\ StepNodes(list[i])[k].id = Id(i, k)
    <2>1. ASSUME NEW i \in 1 .. n
          PROVE  /\ StepNodes(list[i]) \in Seq(Nodes)
                 /\ \A k \in DOMAIN StepNodes(list[i]) :
                       k \in 1 .. 2 /\ Shaped(StepNodes(list[i])[k]) /\ StepNodes(list[i])[k].id = Id(i, k)
      <3> DEFINE t == StepNodes(list[i])
      <3>1. /\ t \in Seq(Nodes) /\ \A k \in DOMAIN t : Shaped(t[k])
            /\ t[1].id = list[i].id /\ \A k \in DOMAIN t : k # 1 => k = 2 /\ t[k].id = RetryId(list[i].id)
        BY <1>1, StepNodesOf
      <3> HIDE DEF t
      <3>2. \A k \in DOMAIN t : k \in 1 .. 2 /\ Shaped(t[k]) /\ t[k].id = Id(i, k)
        BY <3>1
      <3> QED BY <3>1, <3>2 DEF t
    <2> QED BY <2>1
  <1>3. DOMAIN parts = 1 .. n /\ \A i \in 1 .. n : parts[i] = StepNodes(list[i])
    BY <1>1
  <1>4. parts \in Seq(Seq(Nodes)) /\ Len(parts) = n
    BY <1>1, <1>2
  <1> HIDE DEF parts, n, Id
  <1>5. part \in Seq(Nodes) /\ \E m : Joins(part, parts, n, m)
    BY <1>4, FlattenPositions
  <1>6. PICK m : Joins(part, parts, n, m)
    BY <1>5
  <1> HIDE DEF part
  <1>7. Len(part) \in Nat /\ DOMAIN part = 1 .. Len(part)
    BY <1>5
  <1>8. \A p \in DOMAIN part :
           /\ m[p] \in Nat \X Nat /\ m[p][1] \in 1 .. n /\ m[p][2] \in DOMAIN parts[m[p][1]]
           /\ part[p] = parts[m[p][1]][m[p][2]]
    BY <1>6, <1>7 DEF Joins
  <1>9. \A p \in DOMAIN part : Shaped(part[p]) /\ part[p].id = Id(m[p][1], m[p][2]) /\ part[p].id # Start
    <2>1. \A i \in 1 .. n, k \in 1 .. 2 : Id(i, k) # Start
      BY <1>1, RetryIds DEF Id
    <2>2. \A p \in DOMAIN part : /\ m[p][2] \in 1 .. 2 /\ Shaped(part[p]) /\ part[p].id = Id(m[p][1], m[p][2])
      BY <1>2, <1>3, <1>8
    <2> QED BY <1>8, <2>1, <2>2
  <1>10. ASSUME NEW p \in DOMAIN part, NEW q \in DOMAIN part, part[p].id = part[q].id PROVE p = q
    <2>1. /\ m[p][2] \in 1 .. 2 /\ m[q][2] \in 1 .. 2 /\ m[p][1] \in 1 .. n /\ m[q][1] \in 1 .. n
          /\ Id(m[p][1], m[p][2]) = Id(m[q][1], m[q][2])
      BY <1>2, <1>3, <1>8, <1>9, <1>10
    <2>2. m[p][1] = m[q][1] /\ m[p][2] = m[q][2]
      BY <2>1, <1>1, RetryIds DEF Id
    <2>3. m[p] = m[q]
      BY <1>8, <2>2
    <2> QED BY <1>6, <1>7, <2>3 DEF Joins
  <1>11. StartNode \in Nodes /\ StartNode.id = Start /\ Shaped(StartNode)
    <2>1. StartNode \in Nodes /\ StartNode.id = Start /\ StartNode.type = "event" /\ StartNode.sub = "Start"
          /\ StartNode.ends = <<>>
      BY NodeMade, RetryIds DEF StartNode
    <2> QED BY <2>1, RetryIds DEF Shaped, HandlesApart
  <1> HIDE DEF ns
  <1>12. /\ ns \in Seq(Nodes)
         /\ \A k \in DOMAIN ns : \/ k = 1 /\ ns[k] = StartNode
                                 \/ k - 1 \in DOMAIN part /\ k > 1 /\ ns[k] = part[k - 1]
         /\ Elements(ns) = {StartNode} \cup Elements(part)
    <2> DEFINE u == << StartNode >>
    <2>1. u \in Seq(Nodes) /\ Len(u) = 1 /\ DOMAIN u = {1} /\ u[1] = StartNode /\ Elements(u) = {StartNode}
      BY <1>11 DEF Elements
    <2>2. ns = u \o part
      BY DEF ns
    <2> HIDE DEF u
    <2>3. /\ u \o part \in Seq(Nodes)
          /\ \A k \in DOMAIN (u \o part) :
                \/ k \in DOMAIN u /\ (u \o part)[k] = u[k]
                \/ k - Len(u) \in DOMAIN part /\ k > Len(u) /\ (u \o part)[k] = part[k - Len(u)]
          /\ Elements(u \o part) = Elements(u) \cup Elements(part)
      BY <1>5, <2>1, CatElements
    <2> QED BY <2>1, <2>2, <2>3
  <1>13. Apart(ns)
    BY <1>9, <1>10, <1>11, <1>12, <1>7, SeqElement DEF Apart
  <1>14. \A q \in DOMAIN ns : Shaped(ns[q])
    BY <1>9, <1>11, <1>12
  <1>15. \A p \in DOMAIN part : \E i \in DOMAIN list : \E k \in DOMAIN parts[i] : part[p] = parts[i][k]
    BY <1>1, <1>8
  <1>16. ASSUME NEW i \in 1 .. n, NEW k \in DOMAIN parts[i] PROVE parts[i][k] \in Elements(part)
    <2>1. PICK p \in 1 .. Len(part) : m[p] = <<i, k>>
      BY <1>6, <1>16 DEF Joins
    <2> QED BY <1>7, <1>8, <2>1 DEF Elements
  <1>17. StartNode \in Elements(ns) /\ \A i \in DOMAIN list : \A k \in DOMAIN parts[i] : parts[i][k] \in Elements(ns)
    BY <1>1, <1>12, <1>16
  <1>18. \A q \in DOMAIN ns : \/ ns[q] = StartNode
                            \/ \E i \in DOMAIN list : \E k \in DOMAIN parts[i] : ns[q] = parts[i][k]
    BY <1>12, <1>15
  <1> QED BY <1>12, <1>13, <1>14, <1>17, <1>18 DEF ns, part, parts

(***************************************************************************)
(* The edges of a stored step: back from its retry block, straight to      *)
(* other steps, into the block, and from the block to the fallback.        *)
(***************************************************************************)
Loop(step, e) ==
    Retried(step) /\ e.src = RetryId(step.id) /\ e.sh = RetryOut /\ e.dst = step.id
Fallback(step, e) ==
    /\ Retried(step) /\ e.src = RetryId(step.id) /\ e.sh = RetryFailed
    /\ e.dst = step.on_failure.next /\ e.dst # None
Hang(step, e) ==
    /\ Retried(step) /\ e.src = step.id /\ e.dst = RetryId(step.id)
    /\ e.sh = RetryHandle(step, EndStatesOf(step)) /\ e.th = "retry-in"
Direct(step, e) ==
    /\ e.src = step.id /\ e.dst # None
    /\ e.dst = step.on_success \/ e.dst = step.on_failure.next
       \/ \E i \in DOMAIN step.on_outcomes : e.dst = step.on_outcomes[i].next

LoopPart(step) ==
    IF HasRetry(step) THEN << Edge(RetryId(step.id), RetryOut, step.id, "in", "load") >> ELSE <<>>
DirectPart(step) ==
    LET ends == EndStatesOf(step)
        fail == step.on_failure.next
    IN IF step.on_outcomes # <<>>
       THEN Flatten([i \in DOMAIN step.on_outcomes |-> OutcomeEdge(step, ends, i)])
       ELSE (IF step.on_success = None THEN <<>>
             ELSE << LoadedEdge(step.id, HandleOf(ends, DOMAIN ends \ Failing(ends)), step.on_success) >>)
            \o (IF HasRetry(step) \/ fail = None THEN <<>>
                ELSE << LoadedEdge(step.id, HandleOf(ends, Failing(ends)), fail) >>)
HangPart(step) ==
    << Edge(step.id, RetryHandle(step, EndStatesOf(step)), RetryId(step.id), "retry-in", "load") >>
BackPart(step, ids) ==
    IF step.on_failure.next \in ids \ {None, step.id}
    THEN << Edge(RetryId(step.id), RetryFailed, step.on_failure.next, "state-in", "load") >> ELSE <<>>
RetryPart(step, ids) == IF HasRetry(step) THEN HangPart(step) \o BackPart(step, ids) ELSE <<>>

\* StepEdges, part by part.
LEMMA StepEdgesParts ==
    ASSUME NEW step, NEW ids, step.type # "terminal"
    PROVE  StepEdges(step, ids) = LoopPart(step) \o DirectPart(step) \o RetryPart(step, ids)
  BY DEF StepEdges, LoopPart, DirectPart, RetryPart, HangPart, BackPart, RetryEdges

\* HandleOf is the handle of one of the end states it is given, or none.
LEMMA HandleOfIn ==
    ASSUME NEW ends \in Seq(EndStates), NEW I \in SUBSET DOMAIN ends
    PROVE  /\ HandleOf(ends, I) \in Handles \cup {None}
           /\ HandleOf(ends, I) = None \/ \E i \in I : HandleOf(ends, I) = ends[i].id
  <1>1. I \in SUBSET Nat /\ \A i \in I : ends[i] \in EndStates
    BY SeqElement
  <1>2. I # {} => \E i \in I : FirstAt(ends, I) = ends[i]
    BY <1>1, FirstAtIn
  <1>3. \A i \in I : ends[i].id \in Handles
    BY <1>1 DEF EndStates
  <1> QED BY <1>2, <1>3 DEF HandleOf

\* A retry block is hung on an end state that is a failure.
LEMMA RetryHandleFails ==
    ASSUME NEW step \in ActionSteps, NEW ends \in Seq(EndStates), HandlesApart(ends)
    PROVE  /\ RetryHandle(step, ends) \in Handles \cup {None}
           /\ \A k \in DOMAIN ends : ends[k].id = RetryHandle(step, ends) => IsFailure(ends[k].outcome)
  <1> DEFINE failing == {i \in DOMAIN step.on_outcomes :
                           /\ step.on_outcomes[i].next # None
                           /\ IsFailure(Known(step.on_outcomes[i].outcome))}
             fits == {k \in DOMAIN ends :
                        /\ IsFailure(inferOutcome(ends[k], Min(failing)))
                        /\ FirstAt(step.on_outcomes, failing).state \in {None, ends[k].state}}
             I == IF failing = {} THEN Failing(ends) ELSE fits
             h == HandleOf(ends, I)
  <1>1. RetryHandle(step, ends) = h
    BY DEF RetryHandle
  <1>2. \A k \in DOMAIN ends : ends[k] \in EndStates /\ ends[k].id # None
    <2>1. \A k \in DOMAIN ends : ends[k] \in EndStates
      BY SeqElement
    <2>2. \A k \in DOMAIN ends : ends[k].id \in Handles
      BY <2>1 DEF EndStates
    <2> QED BY <2>1, <2>2, NullAssumption
  <1>3. I \in SUBSET DOMAIN ends /\ \A k \in I : IsFailure(ends[k].outcome)
    BY <1>2, EndOutcome DEF Failing
  <1> HIDE DEF I, h
  <1>4. h \in Handles \cup {None} /\ (h = None \/ \E i \in I : h = ends[i].id)
    BY <1>3, HandleOfIn DEF h
  <1> QED BY <1>1, <1>2, <1>3, <1>4 DEF HandlesApart

\* Edges as they are made, by the user
LEMMA EdgeMade ==
    ASSUME NEW src \in NodeIds, NEW sh \in Handles \cup {None}, NEW dst \in NodeIds \ {Start},
           NEW th \in {"in", "retry-in", "state-in"}, NEW by \in {"load", "user"}
    PROVE  LET e == Edge(src, sh, dst, th, by)
           IN e \in Edges /\ e.src = src /\ e.sh = sh /\ e.dst = dst /\ e.th = th
  BY DEF Edge, Edges

\* and by the loader.
LEMMA LoadedMade ==
    ASSUME NEW src \in NodeIds, NEW sh \in Handles \cup {None}, NEW dst \in NodeIds \ {Start}
    PROVE  LET e == LoadedEdge(src, sh, dst)
           IN e \in Edges /\ e.src = src /\ e.sh = sh /\ e.dst = dst
  BY EdgeMade DEF LoadedEdge

\* The handles that the loader uses.
LEMMA PortsKnown ==
    /\ StateOut \in Handles /\ RetryOut \in Handles /\ RetryFailed \in Handles
    /\ RetryOut # RetryFailed /\ \A i \in Nat : Port("end-outcome-step", i) \in Handles
  BY DEF StateOut, RetryOut, RetryFailed, Port, Handles, Texts

\* The edges that lead straight from a step to others.
LEMMA DirectPartOf ==
    ASSUME NEW step \in ActionSteps
    PROVE  DirectPart(step) \in Seq({e \in Edges : Direct(step, e)})
  <1> DEFINE S == {e \in Edges : Direct(step, e)}
             ts == step.on_outcomes
             ends == EndStatesOf(step)
             fail == step.on_failure.next
  <1>1. /\ step.id \in NodeIds /\ ts \in Seq(Transitions) /\ step.on_success \in Targets /\ fail \in Targets
        /\ ends \in Seq(EndStates)
    BY EndStatesOfType, RetryIds DEF ActionSteps
  <1>2. \A x \in Targets : x # None => x \in NodeIds \ {Start}
    BY DEF Targets
  <1> HIDE DEF ends
  <1>3. ASSUME NEW sh \in Handles \cup {None}, NEW dst \in Targets, dst # None,
               dst = step.on_success \/ dst = fail \/ \E i \in DOMAIN ts : dst = ts[i].next
        PROVE  LoadedEdge(step.id, sh, dst) \in S
    <2> DEFINE e == LoadedEdge(step.id, sh, dst)
    <2>1. e \in Edges /\ e.src = step.id /\ e.dst = dst
      <3>1. dst \in NodeIds \ {Start}
        BY <1>2, <1>3
      <3>2. step.id \in NodeIds
        BY <1>1
      <3> QED BY <3>1, <3>2, LoadedMade
    <2> HIDE DEF e
    <2>2. Direct(step, e)
      BY <1>3, <2>1 DEF Direct
    <2> QED BY <2>1, <2>2 DEF e
  <1>4. CASE ts # <<>>
    <2> DEFINE parts == [i \in DOMAIN ts |-> OutcomeEdge(step, ends, i)]
    <2>1. \A i \in DOMAIN ts : i \in Nat /\ ts[i].next \in Targets
      <3>1. \A i \in DOMAIN ts : i \in Nat /\ ts[i] \in Transitions
        BY <1>1, SeqElement
      <3> QED BY <3>1 DEF Transitions
    <2>2. ASSUME NEW i \in DOMAIN ts PROVE OutcomeEdge(step, ends, i) \in Seq(S)
      <3> DEFINE fits == {k \in DOMAIN ends : Matches(ends[k], i, ts[i])}
                 handle == IF fits = {} THEN Port("end-outcome-step", i) ELSE HandleOf(ends, fits)
                 e == LoadedEdge(step.id, handle, ts[i].next)
      <3>1. handle \in Handles \cup {None}
        BY <1>1, <2>1, HandleOfIn, PortsKnown
      <3>2. OutcomeEdge(step, ends, i) = IF ts[i].next = None \/ (HasRetry(step) /\ IsFailure(Known(ts[i].outcome)))
                                         THEN <<>> ELSE << e >>
        BY DEF OutcomeEdge
      <3> HIDE DEF handle
      <3>3. ts[i].next # None => e \in S
        BY <1>3, <2>1, <3>1
      <3> HIDE DEF e, S
      <3> QED BY <3>2, <3>3
    <2>3. DirectPart(step) = Flatten(parts)
      BY <1>4 DEF DirectPart, ends
    <2> HIDE DEF S
    <2>4. parts \in Seq(Seq(S))
      BY <1>1, <2>2
    <2> HIDE DEF parts
    <2> QED BY <2>3, <2>4, FlattenPositions DEF S
  <1>5. CASE ts = <<>>
    <2> DEFINE good == DOMAIN ends \ Failing(ends)
               a == LoadedEdge(step.id, HandleOf(ends, good), step.on_success)
               b == LoadedEdge(step.id, HandleOf(ends, Failing(ends)), fail)
               u == IF step.on_success = None THEN <<>> ELSE << a >>
               v == IF HasRetry(step) \/ fail = None THEN <<>> ELSE << b >>
    <2>1. DirectPart(step) = u \o v
      BY <1>5 DEF DirectPart, ends
    <2>2. good \in SUBSET DOMAIN ends /\ Failing(ends) \in SUBSET DOMAIN ends
      BY DEF Failing
    <2>3. HandleOf(ends, good) \in Handles \cup {None} /\ HandleOf(ends, Failing(ends)) \in Handles \cup {None}
      BY <1>1, <2>2, HandleOfIn
    <2> HIDE DEF good
    <2>4. step.on_success # None => a \in S
      BY <1>1, <1>3, <2>3
    <2>5. fail # None => b \in S
      BY <1>1, <1>3, <2>3
    <2> HIDE DEF a, b, S
    <2>6. u \in Seq(S) /\ v \in Seq(S)
      BY <2>4, <2>5
    <2> HIDE DEF u, v
    <2> QED BY <2>1, <2>6, CatElements DEF S
  <1> QED BY <1>4, <1>5

\* X has at most one place in t.
Once(t, X) == \A k, l \in DOMAIN t : t[k] \in X /\ t[l] \in X => k = l

\* In a concatenation of which only one part has a place for X.
LEMMA CatOnce ==
    ASSUME NEW S, NEW u \in Seq(S), NEW v \in Seq(S), NEW X, Once(u, X), Once(v, X),
           Elements(u) \cap X = {} \/ Elements(v) \cap X = {}
    PROVE  Once(u \o v, X)
  <1> DEFINE t == u \o v
  <1>1. /\ Len(u) \in Nat
        /\ \A k \in DOMAIN t :
              \/ k \in DOMAIN u /\ t[k] = u[k]
              \/ k - Len(u) \in DOMAIN v /\ k > Len(u) /\ t[k] = v[k - Len(u)]
        /\ DOMAIN t \in SUBSET Nat
    BY CatElements
  <1> HIDE DEF t
  <1>2. SUFFICES ASSUME NEW k \in DOMAIN t, NEW l \in DOMAIN t, t[k] \in X, t[l] \in X PROVE k = l
    BY DEF Once, t
  <1>3. CASE k \in DOMAIN u /\ l \in DOMAIN u /\ t[k] = u[k] /\ t[l] = u[l]
    BY <1>2, <1>3 DEF Once
  <1>4. CASE k - Len(u) \in DOMAIN v /\ l - Len(u) \in DOMAIN v /\ t[k] = v[k - Len(u)] /\ t[l] = v[l - Len(u)]
    <2>1. k - Len(u) = l - Len(u)
      BY <1>2, <1>4 DEF Once
    <2> QED BY <1>1, <2>1
  <1>5. CASE \E i \in DOMAIN u, j \in DOMAIN v : u[i] \in X /\ v[j] \in X
    BY <1>5 DEF Elements
  <1> QED BY <1>1, <1>2, <1>3, <1>4, <1>5

\* At most one element has at most one place.
LEMMA OneOnce == ASSUME NEW a, NEW X, NEW p \in BOOLEAN PROVE Once(IF p THEN << a >> ELSE <<>>, X)
  BY DEF Once

\* The kinds of edge of a stored step, and that the ones at a port of its retry
\* block are one of each kind.
LEMMA StepEdgesOf ==
    ASSUME NEW step \in ActionSteps \cup TerminalSteps, NEW ids,
           step.type = "action" => HandlesApart(EndStatesOf(step))
    PROVE  LET t == StepEdges(step, ids)
           IN /\ t \in Seq(Edges)
              /\ \A e \in Elements(t) : /\ step.type = "action"
                                        /\ \/ Loop(step, e) \/ Hang(step, e) \/ Direct(step, e)
                                           \/ Fallback(step, e) /\ e.dst \in ids
  <1>1. CASE step.type = "terminal"
    BY <1>1 DEF StepEdges, Elements
  <1>2. CASE step.type # "terminal"
    <2> DEFINE E == {e \in Edges : \/ Loop(step, e) \/ Hang(step, e) \/ Direct(step, e)
                                   \/ Fallback(step, e) /\ e.dst \in ids}
               block == RetryId(step.id)
               back == step.on_failure.next
    <2>1. step \in ActionSteps /\ step.type = "action"
      BY <1>2 DEF TerminalSteps, ActionSteps
    <2>2. /\ step.id \in NodeIds \ {Start} /\ block \in NodeIds \ {Start} /\ back \in Targets
          /\ EndStatesOf(step) \in Seq(EndStates)
      <3>1. step.id \in Ids /\ back \in Targets
        BY <2>1 DEF ActionSteps
      <3> QED BY <2>1, <3>1, EndStatesOfType, RetryIds
    <2>3. HasRetry(step) => Retried(step)
      BY <2>1 DEF Retried
    <2>4. LoopPart(step) \in Seq(E)
      <3> DEFINE e == Edge(block, RetryOut, step.id, "in", "load")
      <3>1. e \in Edges /\ e.src = block /\ e.sh = RetryOut /\ e.dst = step.id
        BY <2>2, EdgeMade, PortsKnown
      <3>2. LoopPart(step) = IF HasRetry(step) THEN << e >> ELSE <<>>
        BY DEF LoopPart
      <3> HIDE DEF e
      <3>3. HasRetry(step) => e \in E
        BY <2>3, <3>1 DEF Loop
      <3> HIDE DEF E
      <3> QED BY <3>2, <3>3
    <2>5. DirectPart(step) \in Seq(E)
      <3>1. DirectPart(step) \in Seq({e \in Edges : Direct(step, e)})
        BY <2>1, DirectPartOf
      <3>2. {e \in Edges : Direct(step, e)} \in SUBSET E
        OBVIOUS
      <3> HIDE DEF E
      <3> QED BY <3>1, <3>2
    <2>6. HasRetry(step) => HangPart(step) \in Seq(E)
      <3> DEFINE h == RetryHandle(step, EndStatesOf(step))
                 e == Edge(step.id, h, block, "retry-in", "load")
      <3>1. h \in Handles \cup {None}
        BY <2>1, <2>2, RetryHandleFails
      <3>2. HangPart(step) = << e >>
        BY DEF HangPart
      <3>3. e \in Edges /\ e.src = step.id /\ e.sh = h /\ e.dst = block /\ e.th = "retry-in"
        <4>1. step.id \in NodeIds /\ block \in NodeIds \ {Start}
          BY <2>2
        <4> HIDE DEF h, block
        <4> QED BY <4>1, <3>1, EdgeMade
      <3> HIDE DEF e
      <3>4. HasRetry(step) => e \in E
        BY <2>3, <3>3 DEF Hang
      <3> HIDE DEF E
      <3> QED BY <3>2, <3>4
    <2>7. HasRetry(step) => BackPart(step, ids) \in Seq(E)
      <3> DEFINE e == Edge(block, RetryFailed, back, "state-in", "load")
      <3>1. BackPart(step, ids) = IF back \in ids \ {None, step.id} THEN << e >> ELSE <<>>
        BY DEF BackPart
      <3>2. back # None => e \in Edges /\ e.src = block /\ e.sh = RetryFailed /\ e.dst = back
        <4>1. back # None => back \in NodeIds \ {Start}
          BY <2>2 DEF Targets
        <4>2. block \in NodeIds BY <2>2
        <4>3. RetryFailed \in Handles \cup {None} BY PortsKnown
        <4> HIDE DEF block, back
        <4> QED BY <4>1, <4>2, <4>3, EdgeMade
      <3> HIDE DEF e
      <3>3. HasRetry(step) /\ back \in ids \ {None, step.id} => e \in E
        BY <2>3, <3>2 DEF Fallback
      <3> HIDE DEF E
      <3> QED BY <3>1, <3>3
    <2> HIDE DEF E
    <2>8. RetryPart(step, ids) \in Seq(E)
      BY <2>6, <2>7, CatElements DEF RetryPart
    <2>9. StepEdges(step, ids) \in Seq(E)
      <3>1. LoopPart(step) \o DirectPart(step) \in Seq(E)
        BY <2>4, <2>5, CatElements
      <3>2. (LoopPart(step) \o DirectPart(step)) \o RetryPart(step, ids) \in Seq(E)
        BY <2>8, <3>1, CatElements
      <3> QED BY <1>2, <3>2, StepEdgesParts
    <2>10. \A i \in DOMAIN StepEdges(step, ids) : StepEdges(step, ids)[i] \in E
      BY <2>9, SeqElement
    <2>11. StepEdges(step, ids) \in Seq(Edges)
      BY <2>9, <2>10 DEF E
    <2> QED BY <2>1, <2>10, <2>11 DEF E, Elements
  <1> QED BY <1>1, <1>2

\* The same for the four parts of the edges of a step.
LEMMA FourOnce ==
    ASSUME NEW S, NEW a \in Seq(S), NEW b \in Seq(S), NEW c \in Seq(S), NEW d \in Seq(S), NEW X,
           Elements(b) \cap X = {}, Once(a, X), Once(c, X), Once(d, X),
           \/ Elements(a) \cap X = {} /\ Elements(c) \cap X = {}
           \/ Elements(a) \cap X = {} /\ Elements(d) \cap X = {}
           \/ Elements(c) \cap X = {} /\ Elements(d) \cap X = {}
    PROVE  Once((a \o b) \o (c \o d), X)
  <1>1. /\ a \o b \in Seq(S) /\ c \o d \in Seq(S) /\ Elements(a \o b) = Elements(a) \cup Elements(b)
        /\ Elements(c \o d) = Elements(c) \cup Elements(d)
    BY CatElements
  <1>2. Once(b, X)
    BY DEF Once, Elements
  <1>3. Once(a \o b, X) /\ Once(c \o d, X)
    BY <1>2, CatOnce
  <1>4. Elements(a \o b) \cap X = {} \/ Elements(c \o d) \cap X = {}
    BY <1>1
  <1> QED BY <1>1, <1>3, <1>4, CatOnce

\* At most one element makes a sequence.
LEMMA OneSeq ==
    ASSUME NEW a, NEW p \in BOOLEAN, NEW t, t = IF p THEN << a >> ELSE <<>> PROVE t \in Seq(Elements(t))
  <1>1. CASE p
    <2>1. t \in Seq({a}) /\ DOMAIN t = {1} /\ t[1] = a
      BY <1>1
    <2>2. Elements(t) = {a}
      BY <2>1 DEF Elements
    <2> QED BY <2>1, <2>2
  <1>2. CASE ~p
    BY <1>2
  <1> QED BY <1>1, <1>2

\* A step that is loaded has at most one edge at each port of its retry block.
LEMMA StepEdgesOnce ==
    ASSUME NEW step \in ActionSteps, NEW ids \in SUBSET Ids, Refers(step, ids \cup {None}), Retried(step)
    PROVE  LET t == StepEdges(step, ids)
               block == RetryId(step.id)
           IN /\ Once(t, {e \in Edges : e.src = block /\ e.sh = RetryOut})
              /\ Once(t, {e \in Edges : e.src = block /\ e.sh = RetryFailed})
              /\ Once(t, {e \in Edges : e.dst = block})
  <1> DEFINE block == RetryId(step.id)
             back == step.on_failure.next
             XL == {e \in Edges : e.src = block /\ e.sh = RetryOut}
             XF == {e \in Edges : e.src = block /\ e.sh = RetryFailed}
             XH == {e \in Edges : e.dst = block}
             a == LoopPart(step)
             b == DirectPart(step)
             c == HangPart(step)
             d == BackPart(step, ids)
             S == Elements(a) \cup Elements(b) \cup Elements(c) \cup Elements(d)
  <1>1. /\ step.type = "action" /\ HasRetry(step) /\ step.id \in Ids /\ block \notin Ids
        /\ step.on_success \in ids \cup {None} /\ back \in ids \cup {None}
        /\ \A i \in DOMAIN step.on_outcomes : step.on_outcomes[i].next \in ids \cup {None}
    BY RetryIds DEF Refers, ActionSteps, Retried
  <1>2. StepEdges(step, ids) = (a \o b) \o (c \o d)
    BY <1>1, StepEdgesParts DEF RetryPart
  <1>3. b \in Seq(Edges) /\ \A e \in Elements(b) : e.src = step.id /\ e.dst \in Ids
    <2>1. b \in Seq({e \in Edges : Direct(step, e)})
      BY DirectPartOf
    <2> HIDE DEF b
    <2>2. \A i \in DOMAIN b : b[i] \in Edges /\ Direct(step, b[i])
      BY <2>1
    <2>3. \A i \in DOMAIN b : b[i].src = step.id /\ b[i].dst \in Ids
      BY <1>1, <2>2 DEF Direct
    <2> QED BY <2>1, <2>2, <2>3 DEF Elements
  <1>4. /\ a = << Edge(block, RetryOut, step.id, "in", "load") >>
        /\ c = << Edge(step.id, RetryHandle(step, EndStatesOf(step)), block, "retry-in", "load") >>
        /\ d = IF back \in ids \ {None, step.id} THEN << Edge(block, RetryFailed, back, "state-in", "load") >>
               ELSE <<>>
    BY <1>1 DEF LoopPart, HangPart, BackPart
  <1>5. \A e \in Elements(a) : e.src = block /\ e.sh = RetryOut /\ e.dst = step.id
    BY <1>4 DEF Elements, Edge
  <1>6. \A e \in Elements(c) : e.src = step.id /\ e.dst = block
    BY <1>4 DEF Elements, Edge
  <1>7. \A e \in Elements(d) : e.src = block /\ e.sh = RetryFailed /\ e.dst \in Ids
    BY <1>4 DEF Elements, Edge
  <1>8. \A X : Once(a, X) /\ Once(c, X) /\ Once(d, X)
    BY <1>4 DEF Once
  <1>9. a \in Seq(S) /\ b \in Seq(S) /\ c \in Seq(S) /\ d \in Seq(S)
    <2>1. a \in Seq(Elements(a)) /\ c \in Seq(Elements(c)) /\ d \in Seq(Elements(d))
      BY <1>4, OneSeq
    <2>2. b \in Seq(Elements(b))
      BY <1>3 DEF Elements
    <2> HIDE DEF a, b, c, d
    <2> QED BY <2>1, <2>2
  <1> HIDE DEF a, b, c, d, S, block, back
  <1>10. /\ Elements(b) \cap XL = {} /\ Elements(c) \cap XL = {} /\ Elements(d) \cap XL = {}
         /\ Elements(b) \cap XF = {} /\ Elements(a) \cap XF = {} /\ Elements(c) \cap XF = {}
         /\ Elements(b) \cap XH = {} /\ Elements(a) \cap XH = {} /\ Elements(d) \cap XH = {}
    BY <1>1, <1>3, <1>5, <1>6, <1>7, PortsKnown
  <1> HIDE DEF XL, XF, XH
  <1>11. Once((a \o b) \o (c \o d), XL)
    BY <1>8, <1>9, <1>10, FourOnce
  <1>12. Once((a \o b) \o (c \o d), XF)
    BY <1>8, <1>9, <1>10, FourOnce
  <1>13. Once((a \o b) \o (c \o d), XH)
    BY <1>8, <1>9, <1>10, FourOnce
  <1> QED BY <1>2, <1>11, <1>12, <1>13 DEF XL, XF, XH, block

\* The three ports of the retry block of a step.
BlockPorts(id) ==
    {{e \in Edges : e.src = RetryId(id) /\ e.sh = RetryOut},
     {e \in Edges : e.src = RetryId(id) /\ e.sh = RetryFailed},
     {e \in Edges : e.dst = RetryId(id)}}
EdgeOf(step, ids, e) ==
    /\ step.type = "action"
    /\ \/ Loop(step, e) \/ Hang(step, e) \/ Direct(step, e)
       \/ Fallback(step, e) /\ e.dst \in ids

\* Only a step itself has edges at its retry block.
LEMMA BlockOfStep ==
    ASSUME NEW s \in ActionSteps, NEW id \in Ids, NEW ids \in SUBSET Ids,
           Refers(s, ids \cup {None}), NEW e \in Edges, EdgeOf(s, ids, e), NEW X \in BlockPorts(id), e \in X
    PROVE  s.id = id /\ Retried(s)
  <1>1. s.id \in Ids /\ s.type = "action"
    BY DEF ActionSteps
  <1>2. e.src = RetryId(id) \/ e.dst = RetryId(id)
    BY DEF BlockPorts
  <1>3. Direct(s, e) => e.src \in Ids /\ e.dst \in Ids
    BY <1>1 DEF Direct, Refers
  <1>4. Loop(s, e) => e.src = RetryId(s.id) /\ e.dst \in Ids /\ Retried(s)
    BY <1>1 DEF Loop
  <1>5. Fallback(s, e) /\ e.dst \in ids => e.src = RetryId(s.id) /\ e.dst \in Ids /\ Retried(s)
    BY DEF Fallback
  <1>6. Hang(s, e) => e.src \in Ids /\ e.dst = RetryId(s.id) /\ Retried(s)
    BY <1>1 DEF Hang
  <1> QED BY <1>1, <1>2, <1>3, <1>4, <1>5, <1>6, RetryIds DEF EdgeOf

\* The edges that stored steps are drawn with, and that their retry blocks stay single.
LEMMA LoadedEdges ==
    ASSUME NEW list, NEW from, StepsTyped(list)
    PROVE  LET es == convertActionGraphToGraph(list, from).edges
               ids == StepIds(list)
           IN /\ es \in Seq(Edges)
              /\ \A k \in DOMAIN es : \/ es[k].src = Start /\ es[k].dst \in ids
                                      \/ \E i \in DOMAIN list : EdgeOf(list[i], ids, es[k])
              /\ StepsResolve(list) => \A i \in DOMAIN list : \A X \in BlockPorts(list[i].id) :
                                          Retried(list[i]) => Once(es, X)
  <1> DEFINE ids == StepIds(list)
             first == IF from \in ids THEN from ELSE IF list = <<>> THEN None ELSE list[1].id
             parts == [i \in DOMAIN list |-> StepEdges(list[i], ids)]
             part == Flatten(parts)
             entry == IF first = None THEN <<>> ELSE << LoadedEdge(Start, StateOut, first) >>
             es == part \o entry
             n == Len(list)
  <1>0. convertActionGraphToGraph(list, from).edges = es
    BY DEF convertActionGraphToGraph, StepIds
  <1>1. /\ n \in Nat /\ DOMAIN list = 1 .. n
        /\ \A i \in 1 .. n : /\ list[i] \in ActionSteps \cup TerminalSteps /\ list[i].id \in Ids
                             /\ list[i].type = "action" => HandlesApart(EndStatesOf(list[i]))
        /\ \A i, j \in 1 .. n : list[i].id = list[j].id => i = j
        /\ ids \in SUBSET Ids
    BY DEF StepsTyped, ActionSteps, TerminalSteps, StepIds
  <1>2. \A i \in 1 .. n : /\ StepEdges(list[i], ids) \in Seq(Edges)
                          /\ \A e \in Elements(StepEdges(list[i], ids)) : EdgeOf(list[i], ids, e)
    <2> HIDE DEF ids, n
    <2> QED BY <1>1, StepEdgesOf DEF EdgeOf
  <1>3. DOMAIN parts = 1 .. n /\ \A i \in 1 .. n : parts[i] = StepEdges(list[i], ids)
    BY <1>1
  <1>4. parts \in Seq(Seq(Edges)) /\ Len(parts) = n
    BY <1>1, <1>2
  <1>5. first = None \/ first \in ids
    <2>1. list # <<>> => 1 \in DOMAIN list
      BY <1>1, list \in Seq(ActionSteps \cup TerminalSteps) DEF StepsTyped
    <2> QED BY <2>1 DEF StepIds
  <1> HIDE DEF parts, n, ids, first
  <1>6. part \in Seq(Edges) /\ \E m : Joins(part, parts, n, m)
    BY <1>4, FlattenPositions
  <1>7. PICK m : Joins(part, parts, n, m)
    BY <1>6
  <1> HIDE DEF part
  <1>8. Len(part) \in Nat /\ DOMAIN part = 1 .. Len(part)
    BY <1>6
  <1>9. \A p \in DOMAIN part :
           /\ m[p] \in Nat \X Nat /\ m[p][1] \in 1 .. n /\ m[p][2] \in DOMAIN parts[m[p][1]]
           /\ part[p] = parts[m[p][1]][m[p][2]] /\ part[p] \in Edges
    BY <1>6, <1>7, <1>8, SeqElement DEF Joins
  <1>10. \A p \in DOMAIN part : EdgeOf(list[m[p][1]], ids, part[p])
    BY <1>2, <1>3, <1>9 DEF Elements
  <1>11. /\ entry \in Seq(Edges)
         /\ \A e \in Elements(entry) : e.src = Start /\ e.dst \in ids
         /\ \A X : Once(entry, X)
    <2> DEFINE e == LoadedEdge(Start, StateOut, first)
    <2>1. first # None => e \in Edges /\ e.src = Start /\ e.dst = first
      BY <1>1, <1>5, LoadedMade, PortsKnown, RetryIds
    <2>2. entry = IF first = None THEN <<>> ELSE << e >>
      OBVIOUS
    <2> HIDE DEF e, entry
    <2> QED BY <1>5, <2>1, <2>2 DEF Elements, Once
  <1> HIDE DEF entry, es
  <1>12. /\ es \in Seq(Edges) /\ Elements(es) = Elements(part) \cup Elements(entry)
    BY <1>6, <1>11, CatElements DEF es
  <1>13. \A k \in DOMAIN es : \/ es[k].src = Start /\ es[k].dst \in ids
                              \/ \E i \in DOMAIN list : EdgeOf(list[i], ids, es[k])
    <2>1. \A e \in Elements(part) : \E i \in DOMAIN list : EdgeOf(list[i], ids, e)
      BY <1>1, <1>9, <1>10 DEF Elements
    <2>2. \A k \in DOMAIN es : es[k] \in Elements(es)
      BY DEF Elements
    <2> QED BY <1>11, <1>12, <2>1, <2>2
  <1>14. ASSUME StepsResolve(list), NEW i \in DOMAIN list, NEW X \in BlockPorts(list[i].id), Retried(list[i])
         PROVE  Once(es, X)
    <2>1. \A j \in 1 .. n : Refers(list[j], ids \cup {None})
      BY <1>1, <1>14 DEF StepsResolve, ids
    <2>2. ASSUME NEW p \in DOMAIN part, part[p] \in X PROVE m[p][1] = i
      <3>1. list[m[p][1]] \in ActionSteps
        BY <1>1, <1>9, <1>10 DEF EdgeOf, TerminalSteps
      <3>2. list[m[p][1]].id = list[i].id
        BY <1>1, <1>9, <1>10, <2>1, <2>2, <3>1, BlockOfStep
      <3> QED BY <1>1, <1>9, <3>2
    <2>3. Once(StepEdges(list[i], ids), X)
      <3>1. list[i] \in ActionSteps
        BY <1>1, <1>14 DEF Retried, TerminalSteps
      <3> QED BY <1>1, <1>14, <2>1, <3>1, StepEdgesOnce DEF BlockPorts
    <2>4. Once(part, X)
      <3>1. SUFFICES ASSUME NEW p \in DOMAIN part, NEW q \in DOMAIN part, part[p] \in X, part[q] \in X
                     PROVE  p = q
        BY DEF Once
      <3>2. m[p][1] = i /\ m[q][1] = i
        BY <2>2, <3>1
      <3>3. m[p][2] = m[q][2]
        BY <1>1, <1>3, <1>9, <2>3, <3>1, <3>2 DEF Once
      <3>4. m[p] = m[q]
        BY <1>9, <3>2, <3>3
      <3> QED BY <1>7, <1>8, <3>4 DEF Joins
    <2>5. Elements(entry) \cap X = {}
      <3>1. RetryId(list[i].id) # Start /\ RetryId(list[i].id) \notin ids
        BY <1>1, RetryIds
      <3> QED BY <1>11, <3>1 DEF BlockPorts
    <2> QED BY <1>6, <1>11, <2>4, <2>5, CatOnce DEF es
  <1> QED BY <1>0, <1>12, <1>13, <1>14 DEF ids

\* A drawing that is loaded has the types, and it is sound when the stored steps
\* refer to each other.
LEMMA LoadedDrawing ==
    ASSUME NEW list, NEW from, StepsTyped(list)
    PROVE  LET g == convertActionGraphToGraph(list, from)
           IN Drawing(g.nodes, g.edges) /\ (StepsResolve(list) => Sound(g.nodes, g.edges))
  <1> DEFINE g == convertActionGraphToGraph(list, from)
             ns == g.nodes
             es == g.edges
             ids == StepIds(list)
             parts == [i \in DOMAIN list |-> StepNodes(list[i])]
  <1>1. /\ \A i \in DOMAIN list : /\ list[i] \in ActionSteps \cup TerminalSteps /\ list[i].id \in Ids
                                  /\ list[i].type = "action" => HandlesApart(EndStatesOf(list[i]))
                                  /\ list[i].type = "action" => list[i] \in ActionSteps
        /\ \A i, j \in DOMAIN list : list[i].id = list[j].id => i = j
        /\ ids \in SUBSET Ids
    BY DEF StepsTyped, ActionSteps, TerminalSteps, StepIds
  <1>2. ns = << StartNode >> \o Flatten(parts)
    BY DEF convertActionGraphToGraph
  <1>3. /\ ns \in Seq(Nodes) /\ Apart(ns) /\ \A q \in DOMAIN ns : Shaped(ns[q])
        /\ \A q \in DOMAIN ns : \/ ns[q] = StartNode
                                \/ \E i \in DOMAIN list : \E k \in DOMAIN parts[i] : ns[q] = parts[i][k]
        /\ StartNode \in Elements(ns)
        /\ \A i \in DOMAIN list : \A k \in DOMAIN parts[i] : parts[i][k] \in Elements(ns)
    <2> DEFINE made == << StartNode >> \o Flatten(parts)
    <2>1. /\ made \in Seq(Nodes) /\ Apart(made) /\ \A q \in DOMAIN made : Shaped(made[q])
          /\ \A q \in DOMAIN made : \/ made[q] = StartNode
                                    \/ \E i \in DOMAIN list : \E k \in DOMAIN parts[i] : made[q] = parts[i][k]
          /\ StartNode \in Elements(made)
          /\ \A i \in DOMAIN list : \A k \in DOMAIN parts[i] : parts[i][k] \in Elements(made)
      BY LoadedNodes
    <2>2. ns = made
      BY <1>2
    <2> HIDE DEF made, ns, parts
    <2> QED BY <2>1, <2>2
  <1>4. /\ es \in Seq(Edges)
        /\ \A k \in DOMAIN es : \/ es[k].src = Start /\ es[k].dst \in ids
                                \/ \E i \in DOMAIN list : EdgeOf(list[i], ids, es[k])
        /\ StepsResolve(list) => \A i \in DOMAIN list : \A X \in BlockPorts(list[i].id) :
                                    Retried(list[i]) => Once(es, X)
    BY LoadedEdges
  <1>5. \A i \in DOMAIN list : parts[i] = StepNodes(list[i])
    OBVIOUS
  <1>6. StartNode.type # "retry" /\ StartNode.id = Start
    BY DEF StartNode, Node
  <1> HIDE DEF g, parts
  <1>7. \A i \in DOMAIN list : /\ 1 \in DOMAIN parts[i] /\ parts[i][1].id = list[i].id /\ parts[i][1].type # "retry"
                               /\ list[i].type = "action" => parts[i][1].ends = EndStatesOf(list[i])
                               /\ Retried(list[i]) => 2 \in DOMAIN parts[i]
                               /\ \A k \in DOMAIN parts[i] : k # 1 =>
                                     /\ k = 2 /\ Retried(list[i])
                                     /\ parts[i][k].id = RetryId(list[i].id) /\ parts[i][k].type = "retry"
    BY <1>1, <1>5, StepNodesOf
  <1>8. ASSUME StepsResolve(list) PROVE Sound(ns, es)
    <2>1. \A j \in DOMAIN list : Refers(list[j], ids \cup {None})
      BY <1>8 DEF StepsResolve
    <2>2. \A x : IsBlock(ns, x) => \E i \in DOMAIN list : Retried(list[i]) /\ x = RetryId(list[i].id)
      BY <1>3, <1>6, <1>7 DEF IsBlock
    <2>3. \A i \in DOMAIN list : \E q \in DOMAIN ns : /\ ns[q].id = list[i].id
                                                      /\ list[i].type = "action" => ns[q].ends = EndStatesOf(list[i])
      BY <1>3, <1>7 DEF Elements
    <2>4. \A i \in DOMAIN list : Retried(list[i]) => \E q \in DOMAIN ns : ns[q].id = RetryId(list[i].id)
      BY <1>3, <1>7 DEF Elements
    <2>5. \E q \in DOMAIN ns : ns[q].id = Start
      BY <1>3, <1>6 DEF Elements
    <2>6. \A x \in ids : x \in Ids /\ \E q \in DOMAIN ns : ns[q].id = x
      BY <1>1, <2>3 DEF StepIds
    <2>7. ASSUME NEW k \in DOMAIN es PROVE BothThere(ns, es[k]) /\ IntoBlock(ns, es[k])
      <3> DEFINE e == es[k]
      <3>1. CASE e.src = Start /\ e.dst \in ids
        <4>1. ~IsBlock(ns, e.dst)
          BY <1>1, <2>2, <2>6, <3>1, RetryIds
        <4> QED BY <2>5, <2>6, <3>1, <4>1 DEF BothThere, IntoBlock
      <3>2. ASSUME NEW i \in DOMAIN list, EdgeOf(list[i], ids, e) PROVE BothThere(ns, e) /\ IntoBlock(ns, e)
        <4> DEFINE s == list[i]
        <4>0. s.type = "action" /\ s \in ActionSteps /\ s.id \in ids /\ s.id \in Ids /\ Refers(s, ids \cup {None})
          BY <1>1, <2>1, <3>2 DEF EdgeOf, StepIds
        <4>1. CASE Hang(s, e)
          <5>1. BothThere(ns, e)
            BY <2>4, <2>6, <4>0, <4>1 DEF BothThere, Hang
          <5>2. ASSUME NEW q \in DOMAIN ns, ns[q].id = e.src, NEW l \in DOMAIN ns[q].ends, ns[q].ends[l].id = e.sh
                PROVE  IsFailure(ns[q].ends[l].outcome)
            <6>1. ns[q].ends = EndStatesOf(s)
              BY <1>3, <2>3, <4>0, <4>1, <5>2 DEF Apart, Hang
            <6>2. EndStatesOf(s) \in Seq(EndStates) /\ HandlesApart(EndStatesOf(s))
              BY <1>1, <4>0, EndStatesOfType
            <6>3. e.sh = RetryHandle(s, EndStatesOf(s))
              BY <4>1 DEF Hang
            <6> HIDE DEF s, e
            <6> QED BY <4>0, <5>2, <6>1, <6>2, <6>3, RetryHandleFails
          <5> QED BY <4>1, <5>1, <5>2 DEF IntoBlock, Hang
        <4>2. CASE ~Hang(s, e)
          <5>1. e.dst \in ids
            BY <3>2, <4>0, <4>2 DEF EdgeOf, Loop, Direct, Refers
          <5>2. ~IsBlock(ns, e.dst)
            BY <1>1, <2>2, <2>6, <5>1, RetryIds
          <5>3. \E q \in DOMAIN ns : ns[q].id = e.src
            BY <2>4, <2>6, <3>2, <4>0, <4>2 DEF EdgeOf, Loop, Direct, Fallback
          <5> QED BY <2>6, <5>1, <5>2, <5>3 DEF BothThere, IntoBlock
        <4> QED BY <4>1, <4>2
      <3> QED BY <1>4, <3>1, <3>2
    <2>8. ASSUME NEW k \in DOMAIN es, NEW l \in DOMAIN es, k # l PROVE OnePort(ns, es[k], es[l])
      <3>1. SUFFICES ASSUME Start \notin {es[k].src, es[l].src}
                     PROVE  /\ IsBlock(ns, es[k].src) => <<es[k].src, es[k].sh>> # <<es[l].src, es[l].sh>>
                            /\ IsBlock(ns, es[k].dst) => es[k].dst # es[l].dst
        BY DEF OnePort
      <3>2. es[k] \in Edges /\ es[l] \in Edges
        BY <1>4, SeqElement
      <3>3. ASSUME IsBlock(ns, es[k].src), <<es[k].src, es[k].sh>> = <<es[l].src, es[l].sh>> PROVE FALSE
        <4>1. PICK i \in DOMAIN list : Retried(list[i]) /\ es[k].src = RetryId(list[i].id)
          BY <2>2, <3>3
        <4>2. es[k].sh \in {RetryOut, RetryFailed}
          <5>1. PICK j \in DOMAIN list : EdgeOf(list[j], ids, es[k])
            BY <1>4, <3>1
          <5>2. list[j].id \in Ids /\ list[i].id \in Ids
            BY <1>1
          <5>3. es[k].src \notin Ids
            BY <4>1, <5>2, RetryIds
          <5> QED BY <5>1, <5>2, <5>3 DEF EdgeOf, Loop, Fallback, Hang, Direct
        <4> DEFINE X == {e \in Edges : e.src = RetryId(list[i].id) /\ e.sh = es[k].sh}
        <4>3. X \in BlockPorts(list[i].id)
          BY <4>2 DEF BlockPorts
        <4>4. es[k] \in X /\ es[l] \in X
          BY <3>2, <3>3, <4>1
        <4> HIDE DEF X
        <4> QED BY <1>4, <1>8, <2>8, <4>1, <4>3, <4>4 DEF Once
      <3>4. ASSUME IsBlock(ns, es[k].dst), es[k].dst = es[l].dst PROVE FALSE
        <4>1. PICK i \in DOMAIN list : Retried(list[i]) /\ es[k].dst = RetryId(list[i].id)
          BY <2>2, <3>4
        <4> DEFINE X == {e \in Edges : e.dst = RetryId(list[i].id)}
        <4>2. X \in BlockPorts(list[i].id) /\ es[k] \in X /\ es[l] \in X
          BY <3>2, <3>4, <4>1 DEF BlockPorts
        <4> HIDE DEF X
        <4> QED BY <1>4, <1>8, <2>8, <4>1, <4>2 DEF Once
      <3> QED BY <3>3, <3>4
    <2> QED BY <2>7, <2>8 DEF Sound
  <1>9. Drawing(ns, es)
    BY <1>3, <1>4 DEF Drawing
  <1> QED BY <1>8, <1>9 DEF g

(***************************************************************************)
(* Editing                                                                 *)
(***************************************************************************)
There(ns, id) == \E i \in DOMAIN ns : ns[i].id = id

\* The edges of fs are edges of es, each at a place of its own.
Within(fs, es, g) ==
    /\ g \in [DOMAIN fs -> DOMAIN es]
    /\ \A k \in DOMAIN fs : fs[k] = es[g[k]]
    /\ \A k, l \in DOMAIN fs : k # l => g[k] # g[l]

\* A part of a drawing whose edges keep their nodes.
LEMMA PartOfDrawing ==
    ASSUME NEW ns, NEW es, NEW ms, NEW fs, NEW g, Drawing(ns, es),
           ms \in Seq(Nodes), Apart(ms), Elements(ms) \subseteq Elements(ns),
           fs \in Seq(Edges), Within(fs, es, g),
           Sound(ns, es) => \A k \in DOMAIN fs : There(ms, fs[k].src) /\ There(ms, fs[k].dst)
    PROVE  Drawing(ms, fs) /\ (Sound(ns, es) => Sound(ms, fs))
  <1>1. \A q \in DOMAIN ms : \E i \in DOMAIN ns : ms[q] = ns[i]
    BY DEF Elements
  <1>2. Drawing(ms, fs)
    BY <1>1 DEF Drawing
  <1>3. ASSUME Sound(ns, es) PROVE Sound(ms, fs)
    <2>1. \A x : IsBlock(ms, x) => IsBlock(ns, x)
      BY <1>1 DEF IsBlock
    <2>2. ASSUME NEW k \in DOMAIN fs PROVE BothThere(ms, fs[k]) /\ IntoBlock(ms, fs[k])
      <3>1. g[k] \in DOMAIN es /\ fs[k] = es[g[k]] /\ IntoBlock(ns, fs[k])
        BY <1>3, <2>2 DEF Within, Sound
      <3>2. IntoBlock(ms, fs[k])
        BY <1>1, <2>1, <3>1 DEF IntoBlock
      <3> QED BY <1>3, <2>2, <3>2 DEF BothThere, There
    <2>3. ASSUME NEW k \in DOMAIN fs, NEW l \in DOMAIN fs, k # l PROVE OnePort(ms, fs[k], fs[l])
      <3>1. OnePort(ns, fs[k], fs[l])
        BY <1>3, <2>3 DEF Within, Sound
      <3> QED BY <2>1, <3>1 DEF OnePort
    <2> QED BY <2>2, <2>3 DEF Sound
  <1> QED BY <1>2, <1>3

\* What is left of a drawing when nodes and edges are taken away.
LEMMA Fewer ==
    ASSUME NEW ns, NEW es, Drawing(ns, es), NEW J \in SUBSET DOMAIN ns, NEW I \in SUBSET DOMAIN es,
           \A i \in I : \A q \in DOMAIN ns : ns[q].id \in {es[i].src, es[i].dst} => q \in J
    PROVE  LET ms == At(ns, J)
               fs == At(es, I)
           IN /\ Drawing(ms, fs) /\ (Sound(ns, es) => Sound(ms, fs))
              /\ Elements(ms) = {ns[q] : q \in J} /\ Elements(fs) = {es[i] : i \in I}
  <1> DEFINE ms == At(ns, J)
             fs == At(es, I)
  <1>1. ns \in Seq(Nodes) /\ es \in Seq(Edges)
    BY DEF Drawing
  <1>2. ms \in Seq(Nodes) /\ fs \in Seq(Edges) /\ Elements(ms) = {ns[q] : q \in J} /\ Elements(fs) = {es[i] : i \in I}
    BY <1>1, AtPositions, AtElements
  <1>3. (\E h : Picks(ms, ns, J, h)) /\ (\E g : Picks(fs, es, I, g))
    BY <1>1, AtPositions
  <1> HIDE DEF ms, fs
  <1>4. PICK h : Picks(ms, ns, J, h)
    BY <1>3
  <1>5. PICK g : Picks(fs, es, I, g)
    BY <1>3
  <1>6. /\ Len(ms) \in Nat /\ DOMAIN ms = 1 .. Len(ms) /\ Len(fs) \in Nat /\ DOMAIN fs = 1 .. Len(fs)
        /\ J \in SUBSET Nat /\ I \in SUBSET Nat
    BY <1>1, <1>2
  <1>7. Within(fs, es, g)
    <2>1. /\ \A k \in DOMAIN fs : g[k] \in I /\ g[k] \in Nat
          /\ \A k, l \in DOMAIN fs : k < l => g[k] < g[l]
      BY <1>5, <1>6 DEF Picks
    <2>2. \A k, l \in DOMAIN fs : k # l => g[k] # g[l]
      <3>1. \A k, l \in DOMAIN fs : k # l => k < l \/ l < k
        BY <1>6
      <3> QED BY <2>1, <3>1
    <2> QED BY <1>5, <1>6, <2>1, <2>2 DEF Picks, Within
  <1>8. Apart(ms)
    <2>1. /\ \A k \in DOMAIN ms : h[k] \in J /\ h[k] \in Nat /\ ms[k] = ns[h[k]]
          /\ \A k, l \in DOMAIN ms : k < l => h[k] < h[l]
      BY <1>4, <1>6 DEF Picks
    <2>2. \A k, l \in DOMAIN ms : h[k] = h[l] => k = l
      <3>1. \A k, l \in DOMAIN ms : k # l => k < l \/ l < k
        BY <1>6
      <3> QED BY <2>1, <3>1
    <2> QED BY <2>1, <2>2 DEF Apart, Drawing
  <1>9. ASSUME Sound(ns, es), NEW k \in DOMAIN fs PROVE There(ms, fs[k].src) /\ There(ms, fs[k].dst)
    <2>1. g[k] \in I /\ fs[k] = es[g[k]]
      BY <1>5, <1>6, <1>9 DEF Picks
    <2>2. BothThere(ns, fs[k])
      BY <1>9, <2>1 DEF Sound
    <2>3. \A q \in J : \E p \in DOMAIN ms : ms[p] = ns[q]
      BY <1>2 DEF Elements
    <2> QED BY <2>1, <2>2, <2>3 DEF BothThere, There
  <1>10. Elements(ms) \subseteq Elements(ns)
    BY <1>2 DEF Elements
  <1>11. Drawing(ms, fs) /\ (Sound(ns, es) => Sound(ms, fs))
    BY <1>2, <1>7, <1>8, <1>9, <1>10, PartOfDrawing
  <1> QED BY <1>2, <1>11 DEF ms, fs

\* What is left of a drawing when edges are taken away.
LEMMA FewerEdges ==
    ASSUME NEW ns, NEW es, Drawing(ns, es), NEW I \in SUBSET DOMAIN es
    PROVE  LET fs == At(es, I)
           IN Drawing(ns, fs) /\ (Sound(ns, es) => Sound(ns, fs)) /\ Elements(fs) = {es[i] : i \in I}
  <1> DEFINE fs == At(es, I)
  <1>1. ns \in Seq(Nodes) /\ es \in Seq(Edges) /\ Apart(ns)
    BY DEF Drawing
  <1>2. fs \in Seq(Edges) /\ Elements(fs) = {es[i] : i \in I} /\ \E g : Picks(fs, es, I, g)
    BY <1>1, AtPositions, AtElements
  <1> HIDE DEF fs
  <1>3. PICK g : Picks(fs, es, I, g)
    BY <1>2
  <1>4. Len(fs) \in Nat /\ DOMAIN fs = 1 .. Len(fs) /\ I \in SUBSET Nat
    BY <1>1, <1>2
  <1>5. Within(fs, es, g)
    <2>1. /\ \A k \in DOMAIN fs : g[k] \in I /\ g[k] \in Nat
          /\ \A k, l \in DOMAIN fs : k < l => g[k] < g[l]
      BY <1>3, <1>4 DEF Picks
    <2>2. \A k, l \in DOMAIN fs : k # l => g[k] # g[l]
      <3>1. \A k, l \in DOMAIN fs : k # l => k < l \/ l < k
        BY <1>4
      <3> QED BY <2>1, <3>1
    <2> QED BY <1>3, <1>4, <2>1, <2>2 DEF Picks, Within
  <1>6. ASSUME Sound(ns, es), NEW k \in DOMAIN fs PROVE There(ns, fs[k].src) /\ There(ns, fs[k].dst)
    BY <1>5, <1>6 DEF Within, Sound, BothThere, There
  <1>7. Drawing(ns, fs) /\ (Sound(ns, es) => Sound(ns, fs))
    BY <1>1, <1>2, <1>5, <1>6, PartOfDrawing
  <1> QED BY <1>2, <1>7 DEF fs

\* The elements of Append.
LEMMA Appended ==
    ASSUME NEW S, NEW s \in Seq(S), NEW x \in S
    PROVE  LET t == Append(s, x)
           IN /\ t \in Seq(S) /\ Len(s) + 1 \in DOMAIN t /\ t[Len(s) + 1] = x
              /\ \A k \in DOMAIN t : (k \in DOMAIN s /\ t[k] = s[k]) \/ (k = Len(s) + 1 /\ t[k] = x)
              /\ \A k \in DOMAIN s : k \in DOMAIN t /\ t[k] = s[k] /\ k # Len(s) + 1
  <1> DEFINE t == Append(s, x)
  <1>1. /\ t \in Seq(S) /\ Len(s) \in Nat /\ Len(t) = Len(s) + 1
        /\ DOMAIN t = 1 .. Len(t) /\ DOMAIN s = 1 .. Len(s)
    OBVIOUS
  <1>2. t[Len(s) + 1] = x /\ \A k \in 1 .. Len(s) : t[k] = s[k]
    OBVIOUS
  <1> HIDE DEF t
  <1> QED BY <1>1, <1>2 DEF t

\* One more edge, at ports that are free.
LEMMA EdgeAdded ==
    ASSUME NEW ns, NEW es, Drawing(ns, es), NEW e \in Edges,
           Sound(ns, es) => /\ BothThere(ns, e) /\ IntoBlock(ns, e)
                            /\ \A k \in DOMAIN es : OnePort(ns, e, es[k])
    PROVE  Drawing(ns, Append(es, e)) /\ (Sound(ns, es) => Sound(ns, Append(es, e)))
  <1> DEFINE fs == Append(es, e)
  <1>1. /\ fs \in Seq(Edges)
        /\ \A k \in DOMAIN fs : (k \in DOMAIN es /\ fs[k] = es[k]) \/ (k = Len(es) + 1 /\ fs[k] = e)
    BY Appended DEF Drawing
  <1> HIDE DEF fs
  <1>2. ASSUME NEW f, OnePort(ns, e, f) PROVE OnePort(ns, f, e)
    BY <1>2 DEF OnePort
  <1> QED BY <1>1, <1>2 DEF Drawing, Sound, fs

\* One more node, with an id of its own.
LEMMA NodeAdded ==
    ASSUME NEW ns, NEW es, Drawing(ns, es), NEW n \in Nodes, Shaped(n), ~There(ns, n.id)
    PROVE  LET ms == Append(ns, n)
           IN Drawing(ms, es) /\ (Sound(ns, es) => Sound(ms, es)) /\ Elements(ms) = Elements(ns) \cup {n}
  <1> DEFINE ms == Append(ns, n)
  <1>1. /\ ms \in Seq(Nodes)
        /\ \A k \in DOMAIN ms : (k \in DOMAIN ns /\ ms[k] = ns[k]) \/ (k = Len(ns) + 1 /\ ms[k] = n)
        /\ \A k \in DOMAIN ns : k \in DOMAIN ms /\ ms[k] = ns[k]
        /\ Len(ns) + 1 \in DOMAIN ms /\ ms[Len(ns) + 1] = n
    BY Appended DEF Drawing
  <1> HIDE DEF ms
  <1>2. Drawing(ms, es)
    BY <1>1 DEF Drawing, Apart, There
  <1>3. ASSUME Sound(ns, es) PROVE Sound(ms, es)
    <2>1. \A x : There(ns, x) /\ IsBlock(ms, x) => IsBlock(ns, x)
      BY <1>1 DEF IsBlock, There
    <2>2. \A k \in DOMAIN es : BothThere(ns, es[k]) /\ IntoBlock(ns, es[k]) /\ There(ns, es[k].src) /\ There(ns, es[k].dst)
      BY <1>3 DEF Sound, BothThere, There
    <2>3. \A k \in DOMAIN es : BothThere(ms, es[k])
      BY <1>1, <2>2 DEF BothThere
    <2>4. \A k \in DOMAIN es : IntoBlock(ms, es[k])
      <3>1. \A k \in DOMAIN es : \A i \in DOMAIN ms : ms[i].id = es[k].src => i \in DOMAIN ns /\ ms[i] = ns[i]
        BY <1>1, <2>2 DEF There
      <3> QED BY <2>1, <2>2, <3>1 DEF IntoBlock
    <2>5. \A k, l \in DOMAIN es : k # l => OnePort(ms, es[k], es[l])
      BY <1>3, <2>1, <2>2 DEF Sound, OnePort
    <2> QED BY <2>3, <2>4, <2>5 DEF Sound
  <1>4. Elements(ms) = Elements(ns) \cup {n}
    BY <1>1 DEF Elements
  <1> QED BY <1>2, <1>3, <1>4 DEF ms

\* Other fields of the nodes.
LEMMA NodesChanged ==
    ASSUME NEW ns, NEW es, Drawing(ns, es), NEW ms \in Seq(Nodes), DOMAIN ms = DOMAIN ns,
           \A i \in DOMAIN ns : /\ ms[i].id = ns[i].id /\ ms[i].type = ns[i].type
                                /\ ms[i].sub = ns[i].sub /\ ms[i].ends = ns[i].ends
    PROVE  Drawing(ms, es) /\ (Sound(ns, es) => Sound(ms, es))
  <1>1. Drawing(ms, es)
    BY DEF Drawing, Shaped, Apart
  <1>2. \A x : IsBlock(ms, x) <=> IsBlock(ns, x)
    BY DEF IsBlock
  <1>3. ASSUME Sound(ns, es) PROVE Sound(ms, es)
    <2>1. \A k \in DOMAIN es : BothThere(ms, es[k])
      BY <1>3 DEF Sound, BothThere
    <2>2. \A k \in DOMAIN es : IntoBlock(ms, es[k])
      BY <1>2, <1>3 DEF Sound, IntoBlock
    <2>3. \A k, l \in DOMAIN es : k # l => OnePort(ms, es[k], es[l])
      BY <1>2, <1>3 DEF Sound, OnePort
    <2> QED BY <2>1, <2>2, <2>3 DEF Sound
  <1> QED BY <1>1, <1>3

\* NodeOf finds a node by its id.
LEMMA NodeOfIn ==
    ASSUME NEW ns \in Seq(Nodes), Apart(ns), NEW q \in DOMAIN ns PROVE NodeOf(ns, ns[q].id) = ns[q]
  <1> DEFINE I == {i \in DOMAIN ns : ns[i].id = ns[q].id}
  <1>1. I = {q} /\ I \in SUBSET Nat
    BY SeqElement DEF Apart
  <1> HIDE DEF I
  <1>2. \E i \in I : FirstAt(ns, I) = ns[i]
    BY <1>1, FirstAtIn
  <1> QED BY <1>1, <1>2 DEF NodeOf, I

\* A handle of the node that has an outcome which is no success is that of a failure.
LEMMA OutcomeOf ==
    ASSUME NEW n \in Nodes, Shaped(n), NEW sh, Outcome(n, sh) # "success",
           NEW k \in DOMAIN n.ends, n.ends[k].id = sh
    PROVE  IsFailure(n.ends[k].outcome)
  <1> DEFINE hits == {i \in DOMAIN n.ends : n.ends[i].id = sh}
  <1>1. n.ends \in Seq(EndStates) /\ HandlesApart(n.ends)
    BY DEF Nodes, Shaped
  <1>2. hits = {k} /\ hits \in SUBSET Nat /\ n.ends[k] \in EndStates
    BY <1>1, SeqElement DEF HandlesApart
  <1>3. Outcome(n, sh) = IF hits = {} THEN None ELSE inferOutcome(FirstAt(n.ends, hits), 1)
    BY DEF Outcome
  <1> HIDE DEF hits
  <1>4. \E i \in hits : FirstAt(n.ends, hits) = n.ends[i]
    BY <1>2, FirstAtIn
  <1>5. Outcome(n, sh) = inferOutcome(n.ends[k], 1)
    BY <1>2, <1>3, <1>4
  <1> QED BY <1>2, <1>5, EndOutcome DEF IsFailure

\* The handles on screen are handles.
LEMMA HandlesKnown ==
    ASSUME NEW n, NEW sh \in SourceHandles(n) PROVE sh \in Handles /\ sh # None
  BY NullAssumption, PortsKnown
  DEF SourceHandles, ActionHandles, RetryHandles, EventHandles, Port, Handles, Texts, Outcomes

\* Connecting keeps the types and the soundness of a drawing.
LEMMA ConnectedKeeps ==
    ASSUME NEW ns, NEW es, Drawing(ns, es), NEW p \in DOMAIN ns, NEW q \in DOMAIN ns,
           NEW sh \in Handles, sh # None
    PROVE  LET fs == Connected(ns, es, ns[p].id, sh, ns[q].id)
           IN Drawing(ns, fs) /\ (Sound(ns, es) => Sound(ns, fs))
  <1> DEFINE src == ns[p].id
             dst == ns[q].id
             fs == Connected(ns, es, src, sh, dst)
             new == Edge(src, sh, dst, TargetHandle(ns[q].type), "user")
             fromBlock == ns[p].type = "retry"
             toBlock == ns[q].type = "retry"
             blocked == toBlock /\ Outcome(ns[p], sh) = "success"
             others == {i \in DOMAIN es : es[i].src # Start}
             unlike == {i \in DOMAIN es : ~Same(es[i], new)}
             free == {i \in DOMAIN es : /\ ~(fromBlock /\ es[i].src = src /\ es[i].sh = sh)
                                        /\ ~(toBlock /\ es[i].dst = dst /\ es[i].th = new.th)}
             again == \E e \in Elements(es) : Same(e, new)
  <1>1. /\ ns \in Seq(Nodes) /\ es \in Seq(Edges) /\ Apart(ns)
        /\ ns[p] \in Nodes /\ Shaped(ns[p]) /\ ns[q] \in Nodes /\ Shaped(ns[q])
    BY SeqElement DEF Drawing
  <1>2. NodeOf(ns, src) = ns[p] /\ NodeOf(ns, dst) = ns[q]
    BY <1>1, NodeOfIn
  <1>3. fs = IF dst = Start THEN es
             ELSE IF src = Start THEN addEdge(new, At(es, others))
             ELSE IF blocked THEN es
             ELSE IF again THEN At(es, unlike) ELSE addEdge(new, At(es, free))
    BY <1>2 DEF Connected, Filter
  <1>4. dst # Start => new \in Edges /\ new.src = src /\ new.sh = sh /\ new.dst = dst
                       /\ (toBlock => new.th = "retry-in")
    <2>1. TargetHandle(ns[q].type) \in {"in", "retry-in", "state-in"} /\ (toBlock => TargetHandle(ns[q].type) = "retry-in")
      BY DEF TargetHandle
    <2>2. src \in NodeIds /\ dst \in NodeIds
      BY <1>1 DEF Nodes
    <2> HIDE DEF src, dst, toBlock
    <2> QED BY <2>1, <2>2, EdgeMade
  <1>5. \A i \in DOMAIN ns : /\ ns[i].id = src => i = p
                             /\ ns[i].id = dst => i = q
    BY <1>1 DEF Apart
  <1>6. IsBlock(ns, src) => fromBlock
    BY <1>5 DEF IsBlock
  <1>7. IsBlock(ns, dst) => toBlock
    BY <1>5 DEF IsBlock
  <1>8. src = Start => ns[p].ends = <<>>
    BY <1>1, GraphAssumption DEF Shaped
  <1>9. \A I \in SUBSET DOMAIN es : /\ Drawing(ns, At(es, I)) /\ (Sound(ns, es) => Sound(ns, At(es, I)))
                                    /\ Elements(At(es, I)) = {es[i] : i \in I}
    BY FewerEdges
  <1> SUFFICES Drawing(ns, fs) /\ (Sound(ns, es) => Sound(ns, fs))
    OBVIOUS
  <1> HIDE DEF new, fs, src, dst
  <1>10. ASSUME dst # Start, src = Start \/ ~blocked
         PROVE  BothThere(ns, new) /\ IntoBlock(ns, new)
    <2>1. BothThere(ns, new)
      BY <1>4, <1>10 DEF BothThere, src, dst
    <2>2. ASSUME IsBlock(ns, new.dst), NEW i \in DOMAIN ns, ns[i].id = new.src,
                 NEW k \in DOMAIN ns[i].ends, ns[i].ends[k].id = new.sh
          PROVE  IsFailure(ns[i].ends[k].outcome)
      <3>1. i = p /\ toBlock /\ ns[p].ends[k].id = sh /\ k \in DOMAIN ns[p].ends
        BY <1>4, <1>5, <1>7, <1>10, <2>2
      <3>2. src # Start
        BY <1>8, <3>1
      <3>3. Outcome(ns[p], sh) # "success"
        BY <1>10, <3>1, <3>2
      <3> QED BY <1>1, <3>1, <3>3, OutcomeOf
    <2>3. IsBlock(ns, new.dst) => new.th = "retry-in"
      BY <1>4, <1>7, <1>10
    <2> QED BY <2>1, <2>2, <2>3 DEF IntoBlock
  <1>11. ASSUME NEW I \in SUBSET DOMAIN es, dst # Start, src = Start \/ ~blocked,
                Sound(ns, es) => \A i \in I : OnePort(ns, new, es[i])
         PROVE  Drawing(ns, addEdge(new, At(es, I))) /\ (Sound(ns, es) => Sound(ns, addEdge(new, At(es, I))))
    <2> DEFINE rest == At(es, I)
    <2>1. Drawing(ns, rest) /\ (Sound(ns, es) => Sound(ns, rest)) /\ Elements(rest) = {es[i] : i \in I}
      BY <1>9
    <2>2. addEdge(new, rest) = IF \E f \in Elements(rest) : Same(new, f) THEN rest ELSE Append(rest, new)
      BY DEF addEdge
    <2> HIDE DEF rest
    <2>3. Sound(ns, es) => \A k \in DOMAIN rest : OnePort(ns, new, rest[k])
      BY <1>11, <2>1 DEF Elements
    <2>4. Drawing(ns, Append(rest, new)) /\ (Sound(ns, es) => Sound(ns, Append(rest, new)))
      <3>1. CASE Sound(ns, es)
        BY <1>4, <1>10, <1>11, <2>1, <2>3, <3>1, EdgeAdded
      <3>2. CASE ~Sound(ns, es)
        <4>1. rest \in Seq(Edges) /\ new \in Edges
          BY <1>4, <1>11, <2>1 DEF Drawing
        <4> QED BY <2>1, <3>2, <4>1, Appended DEF Drawing
      <3> QED BY <3>1, <3>2
    <2>5. CASE \E f \in Elements(rest) : Same(new, f)
      BY <2>1, <2>2, <2>5 DEF rest
    <2>6. CASE ~\E f \in Elements(rest) : Same(new, f)
      BY <2>2, <2>4, <2>6 DEF rest
    <2> QED BY <2>5, <2>6
  <1>12. CASE dst = Start \/ (src # Start /\ blocked)
    BY <1>3, <1>12
  <1>13. CASE dst # Start /\ src = Start
    <2>1. \A i \in others : OnePort(ns, new, es[i])
      BY <1>4, <1>13 DEF OnePort
    <2>2. fs = addEdge(new, At(es, others)) /\ others \in SUBSET DOMAIN es
      BY <1>3, <1>13
    <2> HIDE DEF others
    <2> QED BY <1>11, <1>13, <2>1, <2>2
  <1>14. CASE dst # Start /\ src # Start /\ ~blocked /\ again
    <2>1. fs = At(es, unlike) /\ unlike \in SUBSET DOMAIN es
      BY <1>3, <1>14
    <2> HIDE DEF unlike
    <2> QED BY <1>9, <2>1
  <1>15. CASE dst # Start /\ src # Start /\ ~blocked /\ ~again
    <2>1. ASSUME Sound(ns, es), NEW i \in free PROVE OnePort(ns, new, es[i])
      <3>1. IntoBlock(ns, es[i]) /\ i \in DOMAIN es
        BY <2>1 DEF Sound
      <3>2. SUFFICES ASSUME Start # es[i].src
                     PROVE  /\ IsBlock(ns, new.src) => <<new.src, new.sh>> # <<es[i].src, es[i].sh>>
                            /\ IsBlock(ns, new.dst) => new.dst # es[i].dst
        BY DEF OnePort
      <3>3. IsBlock(ns, new.src) => <<new.src, new.sh>> # <<es[i].src, es[i].sh>>
        BY <1>4, <1>6, <1>15, <2>1
      <3>4. ASSUME IsBlock(ns, new.dst), new.dst = es[i].dst PROVE FALSE
        <4>1. es[i].th = "retry-in" /\ new.th = "retry-in" /\ toBlock /\ es[i].dst = dst
          BY <1>4, <1>7, <1>15, <3>1, <3>2, <3>4 DEF IntoBlock
        <4> QED BY <2>1, <4>1
      <3> QED BY <3>3, <3>4
    <2>2. fs = addEdge(new, At(es, free)) /\ free \in SUBSET DOMAIN es
      BY <1>3, <1>15
    <2> HIDE DEF free
    <2> QED BY <1>11, <1>15, <2>1, <2>2
  <1> QED BY <1>12, <1>13, <1>14, <1>15

(***************************************************************************)
(* The steps of the canvas                                                 *)
(***************************************************************************)
Kept == Drawing(nodes', edges') /\ (Sound(nodes, edges) => Sound(nodes', edges'))

\* The node that is dropped is well formed and its id is new.
LEMMA DroppedNode ==
    ASSUME NEW kind \in Palette \ {"Start"}, Unused # {}
    PROVE  Dropped(kind) \in Nodes /\ Shaped(Dropped(kind)) /\ ~There(nodes, Dropped(kind).id)
  <1> DEFINE id == CHOOSE i \in Unused : TRUE
             n == Dropped(kind)
  <1>1. id \in Unused
    OBVIOUS
  <1> HIDE DEF id
  <1>2. id \in Ids /\ id \in NodeIds /\ id # Start /\ ~There(nodes, id)
    BY <1>1, RetryIds DEF Unused, There, Elements
  <1>3. n = CASE kind = "Start" -> StartNode
             [] kind = "action" -> ActionNode(id, DefaultEndStates, <<"idle">>, <<"error">>)
             [] kind = "retry" -> RetryNode(id, 3, 0)
             [] OTHER -> Node(id, "event", kind)
    BY DEF Dropped, id
  <1>4. CASE kind = "action"
    <2> DEFINE ok == <<"idle">>
               bad == <<"error">>
    <2>1. ok \in Seq(Texts) /\ bad \in Seq(Texts) /\ DefaultEndStates \in Seq(EndStates)
      BY DefaultEnds DEF Texts
    <2>2. n = ActionNode(id, DefaultEndStates, ok, bad)
      BY <1>3, <1>4
    <2> HIDE DEF n, ok, bad
    <2>3. n \in Nodes /\ n.id = id /\ n.type = "action" /\ n.ends = DefaultEndStates
      BY <1>2, <2>1, <2>2, ActionMade
    <2>4. Shaped(n)
      BY <1>2, <2>3, DefaultEnds DEF Shaped
    <2> QED BY <1>2, <2>3, <2>4 DEF n
  <1>5. CASE kind = "retry"
    <2>1. n = RetryNode(id, 3, 0)
      BY <1>3, <1>5
    <2> HIDE DEF n
    <2>2. n \in Nodes /\ n.id = id /\ n.type = "retry" /\ n.ends = <<>>
      BY <1>2, <2>1, RetryMade
    <2>3. Shaped(n)
      BY <1>2, <2>2 DEF Shaped, HandlesApart
    <2> QED BY <1>2, <2>2, <2>3 DEF n
  <1>6. CASE kind \notin {"action", "retry"}
    <2>1. n = Node(id, "event", kind)
      BY <1>3, <1>6
    <2>2. kind \in Terminals
      BY <1>6, GraphAssumption
    <2> HIDE DEF n
    <2>3. n \in Nodes /\ n.id = id /\ n.type = "event" /\ n.sub = kind /\ n.ends = <<>>
      BY <1>2, <2>1, <2>2, NodeMade
    <2>4. Shaped(n)
      BY <1>2, <2>2, <2>3 DEF Shaped, HandlesApart
    <2> QED BY <1>2, <2>3, <2>4 DEF n
  <1> QED BY <1>4, <1>5, <1>6

\* The Start node is well formed.
LEMMA StartShaped ==
    StartNode \in Nodes /\ StartNode.id = Start /\ StartNode.type = "event" /\ StartNode.ends = <<>> /\ Shaped(StartNode)
  <1>1. StartNode \in Nodes /\ StartNode.id = Start /\ StartNode.type = "event" /\ StartNode.sub = "Start"
        /\ StartNode.ends = <<>>
    BY NodeMade, RetryIds DEF StartNode
  <1> QED BY <1>1, RetryIds DEF Shaped, HandlesApart

\* Dropping a node, a second Start node included.
LEMMA DropKeeps == ASSUME Drawing(nodes, edges), NEW kind \in Palette, onDrop(kind) PROVE Kept
  <1>0. nodes \in Seq(Nodes) /\ edges \in Seq(Edges)
    BY DEF Drawing
  <1>1. CASE kind # "Start"
    <2>1. Unused # {} /\ nodes' = Append(nodes, Dropped(kind)) /\ edges' = edges
      BY <1>1 DEF onDrop
    <2> QED BY <1>1, <2>1, DroppedNode, NodeAdded DEF Kept
  <1>2. CASE kind = "Start"
    <2> DEFINE J == {q \in DOMAIN nodes : nodes[q].id # Start}
               I == {i \in DOMAIN edges : Start \notin {edges[i].src, edges[i].dst}}
               old == {i \in DOMAIN edges : edges[i].src = Start}
               ns == At(nodes, J)
               es == At(edges, I)
               ms == ns \o << StartNode >>
               entry == LoadedEdge(Start, StateOut, FirstAt(edges, old).dst)
    <2>1. nodes' = ms /\ edges' = es \o IF old = {} THEN <<>> ELSE << entry >>
      BY <1>2 DEF onDrop, Dropped, Filter
    <2>2. Drawing(ns, es) /\ (Sound(nodes, edges) => Sound(ns, es)) /\ Elements(ns) = {nodes[q] : q \in J}
      BY Fewer
    <2>3. ns \in Seq(Nodes) /\ es \in Seq(Edges) /\ ~There(ns, Start)
      BY <2>2 DEF Drawing, There, Elements
    <2> HIDE DEF ns, es, ms
    <2>4. Append(ns, StartNode) = ms
      BY <2>3 DEF ms
    <2>5. Drawing(ms, es) /\ (Sound(ns, es) => Sound(ms, es)) /\ Elements(ms) = Elements(ns) \cup {StartNode}
      BY <2>2, <2>3, <2>4, StartShaped, NodeAdded
    <2>6. CASE old = {}
      <3>1. edges' = es
        BY <2>1, <2>3, <2>6
      <3> QED BY <2>1, <2>2, <2>5, <3>1 DEF Kept
    <2>7. CASE old # {}
      <3> HIDE DEF old
      <3>1. PICK i \in old : FirstAt(edges, old) = edges[i]
        BY <1>0, <2>7, FirstAtIn, SeqElement DEF old
      <3>2. i \in DOMAIN edges /\ edges[i] \in Edges /\ edges[i].src = Start
        BY <1>0, <3>1, SeqElement DEF old
      <3>3. edges[i].dst \in NodeIds \ {Start}
        BY <3>2 DEF Edges
      <3>4. entry \in Edges /\ entry.src = Start /\ entry.dst = edges[i].dst
        BY <3>1, <3>3, LoadedMade, PortsKnown, RetryIds
      <3> HIDE DEF entry
      <3>5. ASSUME Sound(ms, es), Sound(nodes, edges) PROVE Sound(ms, Append(es, entry))
        <4>1. PICK q \in DOMAIN nodes : nodes[q].id = edges[i].dst
          BY <3>2, <3>5 DEF Sound, BothThere
        <4>2. nodes[q] \in Elements(ms) /\ StartNode \in Elements(ms)
          BY <2>2, <2>5, <3>3, <4>1
        <4>3. BothThere(ms, entry)
          BY <3>4, <4>1, <4>2, StartShaped DEF BothThere, Elements
        <4>4. \A k \in DOMAIN ms : ms[k].id = Start => ms[k].ends = <<>>
          <5>1. \A k \in DOMAIN ms : ms[k] \in Elements(ms)
            BY DEF Elements
          <5>2. \A k \in DOMAIN ns : ns[k].id # Start
            BY <2>3 DEF There
          <5> QED BY <2>5, <5>1, <5>2, StartShaped DEF Elements
        <4>5. IntoBlock(ms, entry)
          BY <3>4, <4>4 DEF IntoBlock
        <4>6. \A k \in DOMAIN es : OnePort(ms, entry, es[k])
          BY <3>4 DEF OnePort
        <4> QED BY <2>5, <3>4, <3>5, <4>3, <4>5, <4>6, EdgeAdded
      <3>6. Drawing(ms, Append(es, entry))
        BY <2>3, <2>5, <3>4, Appended DEF Drawing
      <3>7. edges' = Append(es, entry)
        BY <2>1, <2>3, <2>7, <3>4
      <3> QED BY <2>1, <2>2, <2>5, <3>5, <3>6, <3>7 DEF Kept
    <2> QED BY <2>6, <2>7
  <1> QED BY <1>1, <1>2

\* A connection that the user draws.
LEMMA ConnectKeeps ==
    ASSUME Drawing(nodes, edges), NEW m \in Elements(nodes), NEW n \in Elements(nodes),
           NEW sh \in SourceHandles(m), onConnect(m, n, sh)
    PROVE  Kept
  <1>1. PICK p \in DOMAIN nodes : m = nodes[p]
    BY DEF Elements
  <1>2. PICK q \in DOMAIN nodes : n = nodes[q]
    BY DEF Elements
  <1>3. sh \in Handles /\ sh # None
    BY HandlesKnown
  <1>4. nodes' = nodes /\ edges' = Connected(nodes, edges, nodes[p].id, sh, nodes[q].id)
    BY <1>1, <1>2 DEF onConnect
  <1> QED BY <1>3, <1>4, ConnectedKeeps DEF Kept

\* The removal of an edge.
LEMMA RemovalKeeps ==
    ASSUME Drawing(nodes, edges), NEW e, nodes' = nodes,
           edges' = At(edges, {i \in DOMAIN edges : edges[i] # e})
    PROVE  Kept
  BY FewerEdges DEF Kept

\* The removal of a selection of nodes and edges, with the edges of those nodes.
LEMMA DeletionKeeps ==
    ASSUME Drawing(nodes, edges), NEW ids, NEW chosen, deleteSelectedElements(ids, chosen) PROVE Kept
  <1> DEFINE J == {q \in DOMAIN nodes : nodes[q].id \notin ids}
             I == {i \in DOMAIN edges : edges[i] \notin chosen /\ edges[i].src \notin ids /\ edges[i].dst \notin ids}
  <1>1. nodes' = At(nodes, J) /\ edges' = At(edges, I)
    BY DEF deleteSelectedElements, Filter
  <1>2. \A i \in I : \A q \in DOMAIN nodes : nodes[q].id \in {edges[i].src, edges[i].dst} => q \in J
    OBVIOUS
  <1>3. J \in SUBSET DOMAIN nodes /\ I \in SUBSET DOMAIN edges
    OBVIOUS
  <1> HIDE DEF I, J
  <1> QED BY <1>1, <1>2, <1>3, Fewer DEF Kept

\* Other numbers or another server for a node.
LEMMA UpdateKeeps ==
    ASSUME Drawing(nodes, edges), NEW n \in Elements(nodes), NEW f \in Nodes, updateData(n, f),
           f.id = n.id, f.type = n.type, f.sub = n.sub, f.ends = n.ends
    PROVE  Kept
  <1>1. nodes \in Seq(Nodes) /\ Apart(nodes)
    BY DEF Drawing
  <1>2. PICK q \in DOMAIN nodes : n = nodes[q]
    BY DEF Elements
  <1> DEFINE ms == [i \in DOMAIN nodes |-> IF nodes[i].id = n.id THEN f ELSE nodes[i]]
  <1>3. nodes' = ms /\ edges' = edges
    BY DEF updateData
  <1>4. ms \in Seq(Nodes) /\ DOMAIN ms = DOMAIN nodes
    BY <1>1
  <1>5. \A i \in DOMAIN nodes : /\ ms[i].id = nodes[i].id /\ ms[i].type = nodes[i].type
                                /\ ms[i].sub = nodes[i].sub /\ ms[i].ends = nodes[i].ends
    BY <1>1, <1>2 DEF Apart
  <1> HIDE DEF ms
  <1> QED BY <1>3, <1>4, <1>5, NodesChanged DEF Kept

\* The fields that the user edits.
LEMMA FieldsKeep ==
    ASSUME Drawing(nodes, edges), NEW n \in Elements(nodes), NEW r \in {0, 3}, NEW b \in {0, 3}, NEW given \in BOOLEAN,
           setRetry(n, r, b) \/ setServer(n, given)
    PROVE  Kept
  <1>1. n \in Nodes
    BY SeqElement DEF Drawing, Elements
  <1>2. CASE setRetry(n, r, b)
    <2>0. r \in Nat /\ b \in Nat
      OBVIOUS
    <2> DEFINE g == [n EXCEPT !.retry = r]
               f == [g EXCEPT !.backoff = b]
    <2>1. g \in Nodes /\ g.id = n.id /\ g.type = n.type /\ g.sub = n.sub /\ g.ends = n.ends
      BY <1>1, <2>0 DEF Nodes
    <2> HIDE DEF g
    <2>2. f \in Nodes /\ f.id = n.id /\ f.type = n.type /\ f.sub = n.sub /\ f.ends = n.ends
      BY <2>0, <2>1 DEF Nodes
    <2>3. updateData(n, f)
      BY <1>2 DEF setRetry, g
    <2> HIDE DEF f
    <2> QED BY <2>2, <2>3, UpdateKeeps
  <1>3. CASE setServer(n, given)
    <2> DEFINE f == [n EXCEPT !.server = given]
    <2>1. f \in Nodes /\ f.id = n.id /\ f.type = n.type /\ f.sub = n.sub /\ f.ends = n.ends
      BY <1>1 DEF Nodes
    <2>2. updateData(n, f)
      BY <1>3 DEF setServer
    <2> HIDE DEF f
    <2> QED BY <2>1, <2>2, UpdateKeeps
  <1> QED BY <1>2, <1>3

\* A drawing that is saved is drawn again from what was stored.
LEMMA SaveKeeps == ASSUME GraphInv, handleSave PROVE Drawing(nodes', edges') /\ (~chainSaved' => Sound(nodes', edges'))
  <1> DEFINE made == convertGraphToSteps(nodes, edges)
             g == convertActionGraphToGraph(made.steps, made.entry)
  <1>1. nodes' = g.nodes /\ edges' = g.edges
    BY DEF handleSave, Compiled
  <1>2. Drawing(nodes, edges) /\ (~chainSaved => Sound(nodes, edges))
    BY DEF GraphInv
  <1>3. StepsTyped(made.steps)
    BY <1>2, CompiledSteps
  <1>4. ASSUME ~chainSaved' PROVE StepsResolve(made.steps)
    <2>1. ~chainSaved /\ ~Chained
      BY <1>4 DEF handleSave
    <2>2. ~ChainedIn(nodes, edges)
      BY <2>1 DEF Chained, Blocks, ChainedIn, IsBlock, Elements
    <2> QED BY <1>2, <2>1, <2>2, CompiledResolve
  <1> HIDE DEF made
  <1>5. Drawing(g.nodes, g.edges) /\ (StepsResolve(made.steps) => Sound(g.nodes, g.edges))
    BY <1>3, LoadedDrawing
  <1> QED BY <1>1, <1>4, <1>5

\* What is stored is loaded as a sound drawing.
LEMMA GraphInitInv == ASSUME GraphInit PROVE GraphInv
  <1>1. PICK file \in Stored :
           LET g == convertActionGraphToGraph(file.steps, file.entry)
           IN nodes = g.nodes /\ edges = g.edges /\ pending = {} /\ chainSaved = FALSE
    BY DEF GraphInit
  <1>2. StepsTyped(file.steps) /\ StepsResolve(file.steps)
    BY StoredAssumption
  <1> QED BY <1>1, <1>2, LoadedDrawing DEF GraphInv

\* Every gesture of the user.
LEMMA DrawKeeps ==
    ASSUME GraphInv, Draw PROVE Kept /\ pending' \subseteq Edges
  <1>0. Drawing(nodes, edges) /\ pending \subseteq Edges
    BY DEF GraphInv
  <1>1. ASSUME NEW kind \in Palette, onDrop(kind) PROVE Kept /\ pending' \subseteq Edges
    BY <1>0, <1>1, DropKeeps DEF onDrop
  <1>2. ASSUME NEW m \in Elements(nodes), NEW n \in Elements(nodes), NEW sh \in SourceHandles(m), onConnect(m, n, sh)
        PROVE  Kept /\ pending' \subseteq Edges
    BY <1>0, <1>2, ConnectKeeps DEF onConnect
  <1>3. ASSUME NEW e \in Elements(edges), deleteEdge(e) PROVE Kept /\ pending' \subseteq Edges
    <2>1. nodes' = nodes /\ edges' = At(edges, {i \in DOMAIN edges : edges[i] # e}) /\ pending' = pending \cup {e}
      BY <1>3 DEF deleteEdge, Filter
    <2>2. e \in Edges
      BY <1>0, SeqElement DEF Drawing, Elements
    <2> QED BY <1>0, <2>1, <2>2, RemovalKeeps
  <1>4. ASSUME NEW ids, NEW chosen, deleteSelectedElements(ids, chosen) PROVE Kept /\ pending' \subseteq Edges
    <2>1. Kept
      BY <1>0, <1>4, DeletionKeeps
    <2>2. pending' = pending
      BY <1>4 DEF deleteSelectedElements
    <2> QED BY <1>0, <2>1, <2>2
  <1>5. ASSUME NEW n \in Elements(nodes), removeNode(n) PROVE Kept /\ pending' \subseteq Edges
    BY <1>4, <1>5 DEF removeNode
  <1>6. ASSUME NEW n \in Elements(nodes), NEW r \in {0, 3}, NEW b \in {0, 3}, setRetry(n, r, b)
        PROVE  Kept /\ pending' \subseteq Edges
    BY <1>0, <1>6, FieldsKeep DEF setRetry, updateData
  <1>7. ASSUME NEW n \in Elements(nodes), NEW given \in BOOLEAN, setServer(n, given)
        PROVE  Kept /\ pending' \subseteq Edges
    BY <1>0, <1>7, FieldsKeep DEF setServer, updateData
  <1> QED BY <1>1, <1>2, <1>3, <1>4, <1>5, <1>6, <1>7 DEF Draw

\* Every step of the canvas keeps the invariant.
LEMMA GraphStep == ASSUME GraphInv, [GraphNext]_graphVars PROVE GraphInv'
  <1>1. CASE Draw /\ UNCHANGED chainSaved
    BY <1>1, DrawKeeps DEF Kept, GraphInv
  <1>2. CASE handleSave
    <2>1. chainSaved' \in BOOLEAN /\ pending' = pending
      BY <1>2 DEF handleSave, GraphInv, Chained
    <2> QED BY <1>2, <2>1, SaveKeeps DEF GraphInv
  <1>3. ASSUME NEW e \in Elements(edges), onEdgesChange(e), UNCHANGED chainSaved PROVE GraphInv'
    <2>1. /\ Drawing(nodes, edges) /\ nodes' = nodes /\ pending' = pending \ {e}
          /\ edges' = At(edges, {i \in DOMAIN edges : edges[i] # e})
      BY <1>3 DEF onEdgesChange, GraphInv, Filter
    <2>2. Kept
      BY <2>1, RemovalKeeps
    <2> QED BY <1>3, <2>1, <2>2 DEF Kept, GraphInv
  <1>4. CASE UNCHANGED graphVars
    BY <1>4 DEF graphVars, GraphInv
  <1> QED BY <1>1, <1>2, <1>3, <1>4 DEF GraphNext

(***************************************************************************)
(* What follows                                                            *)
(***************************************************************************)

\* The invariant and the types.
LEMMA GraphTypes == ASSUME GraphInv PROVE GraphTypeOK
  <1>1. /\ nodes \in Seq(Nodes) /\ edges \in Seq(Edges) /\ Apart(nodes)
        /\ pending \subseteq Edges /\ chainSaved \in BOOLEAN
    BY DEF GraphInv, Drawing
  <1>2. \A n \in Elements(nodes) : n \in Nodes
    BY <1>1, SeqElement DEF Elements
  <1>3. \A e \in Elements(edges) : e \in Edges
    BY <1>1, SeqElement DEF Elements
  <1>4. \A n \in Elements(nodes) :
         /\ n.id \in NodeIds /\ n.type \in {"action", "event", "retry"}
         /\ n.sub \in Terminals \cup {"Start", "Retry", None}
         /\ n.server \in BOOLEAN /\ n.retry \in Nat /\ n.backoff \in Nat
    BY <1>2 DEF Nodes
  <1>5. /\ \A e \in Elements(edges) : e.src \in NodeIds /\ e.dst \in NodeIds \ {Start}
        /\ \A e \in pending : e.src \in NodeIds /\ e.dst \in NodeIds
    BY <1>1, <1>3 DEF Edges
  <1> QED BY <1>1, <1>4, <1>5 DEF GraphTypeOK, Apart

\* The invariant and the ports of retry blocks.
LEMMA GraphPorts == ASSUME GraphInv PROVE PortsStaySingle
  <1>1. SUFFICES ASSUME Sound(nodes, edges) PROVE RetryPortsSingle
    BY DEF GraphInv, PortsStaySingle
  <1>2. \A x : x \in Blocks <=> IsBlock(nodes, x)
    BY DEF Blocks, IsBlock, Elements
  <1>3. \A i, j \in DOMAIN edges : i # j => OnePort(nodes, edges[i], edges[j])
    BY <1>1 DEF Sound
  <1> HIDE DEF Blocks
  <1> QED BY <1>2, <1>3 DEF RetryPortsSingle, OnePort

\* The invariant and what a save would store.
LEMMA GraphResolves == ASSUME GraphInv PROVE SavedTransitionsResolve
  <1>1. SUFFICES ASSUME ~chainSaved
                 PROVE  /\ NoDanglingEdge
                        /\ ~Chained =>
                           LET made == convertGraphToSteps(nodes, edges)
                               known == StepIds(made.steps) \cup {None}
                           IN /\ made.entry \in known
                              /\ \A s \in Elements(made.steps) : s.type = "action" =>
                                   /\ s.on_success \in known /\ s.on_failure.next \in known
                                   /\ \A t \in Elements(s.on_outcomes) : t.next \in known
    BY DEF SavedTransitionsResolve, Compiled
  <1>2. Drawing(nodes, edges) /\ Sound(nodes, edges)
    BY <1>1 DEF GraphInv
  <1>3. NoDanglingEdge
    BY <1>2 DEF NoDanglingEdge, Sound, BothThere, Elements
  <1>4. ASSUME ~Chained
        PROVE  LET made == convertGraphToSteps(nodes, edges)
               IN StepsResolve(made.steps) /\ made.entry \in StepIds(made.steps) \cup {None}
    <2>1. ~ChainedIn(nodes, edges)
      BY <1>4 DEF Chained, Blocks, ChainedIn, IsBlock, Elements
    <2> QED BY <1>2, <2>1, CompiledResolve
  <1> QED BY <1>3, <1>4 DEF StepsResolve, Refers, Elements

(***************************************************************************)
(* What a step says, end state by end state                                *)
(***************************************************************************)
From(es, n, i) == {k \in DOMAIN es : es[k].src = n.id /\ es[k].sh = n.ends[i].id}
Wired(es, n) == {i \in DOMAIN n.ends : From(es, n, i) # {}}
Lead(ns, es, n, i) ==
    LET e == FirstAt(es, From(es, n, i))
        r == resolveRetryTarget(ns, es, e)
    IN [outcome |-> n.ends[i].outcome, state |-> n.ends[i].state,
        next |-> IF r.target = None THEN e.dst ELSE r.target, target |-> r.target,
        config |-> IF IsFailure(n.ends[i].outcome) THEN r.config ELSE None]
EndLeads(ns, es, n) == [i \in Wired(es, n) |-> Lead(ns, es, n, i)]

\* The end states that lead straight to a step, and those that lead into a retry block.
DirectEnds(L) == {i \in DOMAIN L : L[i].config = None}
RetriedEnds(L) == {i \in DOMAIN L : L[i].config # None}
GoodEnds(L) == {i \in DOMAIN L : L[i].outcome = "success"}
BadEnds(L) == {i \in DirectEnds(L) : IsFailure(L[i].outcome)}
NextFrom(L, I) == IF I = {} THEN None ELSE L[Min(I)].next
OnFailureOf(L) ==
    LET other == NextFrom(L, BadEnds(L))
        block == L[Min(RetriedEnds(L))]
    IN IF RetriedEnds(L) = {} THEN [next |-> other, config |-> None]
       ELSE [next |-> IF block.target = None THEN other ELSE block.target, config |-> block.config]
Transition(l) == [outcome |-> l.outcome, next |-> l.next, state |-> l.state]

\* Where a wired end state leads: along the first edge of its handle.
LEMMA LeadMade ==
    ASSUME NEW ns \in Seq(Nodes), NEW es \in Seq(Edges), NEW n \in Nodes, NEW i \in Wired(es, n)
    PROVE  /\ Lead(ns, es, n, i) \in DrawnOf(ns, es, n)
           /\ \E j \in From(es, n, i) : FirstAt(es, From(es, n, i)) = es[j]
  <1>1. From(es, n, i) \in SUBSET Nat /\ From(es, n, i) \in SUBSET DOMAIN es /\ From(es, n, i) # {}
    BY SeqElement DEF From, Wired
  <1>2. PICK j \in From(es, n, i) : FirstAt(es, From(es, n, i)) = es[j]
    BY <1>1, FirstAtIn
  <1>3. es[j] \in Edges
    BY <1>1, <1>2, SeqElement
  <1>4. n.ends[i] \in EndStates
    BY SeqElement DEF Nodes, Wired
  <1>5. n.ends[i].outcome \in Outcomes /\ n.ends[i].state \in Texts
    BY <1>4 DEF EndStates
  <1> DEFINE r == resolveRetryTarget(ns, es, es[j])
  <1>6. r.target \in Targets /\ r.config \in Configs \cup {None}
    BY <1>3, RetryTarget
  <1>7. es[j].dst \in NodeIds \ {Start}
    BY <1>3 DEF Edges
  <1>8. Lead(ns, es, n, i) = [outcome |-> n.ends[i].outcome, state |-> n.ends[i].state,
                              next |-> IF r.target = None THEN es[j].dst ELSE r.target, target |-> r.target,
                              config |-> IF IsFailure(n.ends[i].outcome) THEN r.config ELSE None]
    BY <1>2 DEF Lead
  <1> HIDE DEF r
  <1>9. Lead(ns, es, n, i) \in DrawnOf(ns, es, n)
    BY <1>5, <1>6, <1>7, <1>8 DEF DrawnOf, Targets
  <1> QED BY <1>2, <1>9

\* Drawn lists the wired end states and where they lead.
LEMMA DrawnListed ==
    ASSUME NEW ns \in Seq(Nodes), NEW es \in Seq(Edges), NEW n \in Nodes
    PROVE  LET d == Drawn(ns, es, n)
               L == EndLeads(ns, es, n)
           IN d \in Seq(DrawnOf(ns, es, n))
              /\ \E g : Enlists(g, Len(d), DOMAIN L) /\ Reads(d, L, g, Len(d))
  <1> DEFINE D == DrawnOf(ns, es, n)
             W == Wired(es, n)
             L == EndLeads(ns, es, n)
             m == Len(n.ends)
             s == [i \in 1 .. m |-> IF i \in W THEN << L[i] >> ELSE <<>>]
  <1>1. n.ends \in Seq(EndStates) /\ m \in Nat /\ DOMAIN n.ends = 1 .. m
    BY DEF Nodes
  <1>2. W \in SUBSET (1 .. m) /\ DOMAIN L = W
    BY <1>1 DEF Wired, EndLeads
  <1>3. \A i \in W : L[i] = Lead(ns, es, n, i) /\ L[i] \in D
    BY LeadMade DEF EndLeads
  <1>4. \A i \in DOMAIN n.ends : inferOutcome(n.ends[i], i) = n.ends[i].outcome
    BY <1>1, SeqElement, EndOutcome
  <1>5. Drawn(ns, es, n) = Flatten(s)
    <2> DEFINE Made(i) ==
                LET e == FirstAt(es, From(es, n, i))
                    r == resolveRetryTarget(ns, es, e)
                    outcome == inferOutcome(n.ends[i], i)
                IN [outcome |-> outcome, state |-> n.ends[i].state,
                    next |-> IF r.target = None THEN e.dst ELSE r.target,
                    target |-> r.target,
                    config |-> IF IsFailure(outcome) THEN r.config ELSE None]
               u == [i \in DOMAIN n.ends |-> IF From(es, n, i) = {} THEN <<>> ELSE <<Made(i)>>]
    <2>1. Drawn(ns, es, n) = Flatten(u)
      BY DEF Drawn, From
    <2>2. \A i \in DOMAIN n.ends : Made(i) = Lead(ns, es, n, i)
      BY <1>4 DEF Lead
    <2>3. \A i \in DOMAIN n.ends : i \in W <=> From(es, n, i) # {}
      BY DEF Wired
    <2> HIDE DEF Made, L, W
    <2>4. u = s
      BY <1>1, <1>3, <2>2, <2>3
    <2> QED BY <2>1, <2>4
  <1> HIDE DEF W, L, D, m
  <1>6. PICK u : u = s /\ u \in Seq(Seq(D)) /\ Optional(u, m, L, W)
    <2>1. s \in Seq(Seq(D))
      BY <1>1, <1>2, <1>3
    <2>2. Optional(s, m, L, W)
      BY DEF Optional
    <2> QED BY <2>1, <2>2
  <1>7. Flatten(u) \in Seq(D) /\ \E g : Enlists(g, Len(Flatten(u)), W) /\ Reads(Flatten(u), L, g, Len(Flatten(u)))
    <2>1. \A i \in W : L[i] \in D
      BY <1>3
    <2>2. m \in Nat
      BY <1>1
    <2>3. W \in SUBSET (1 .. m)
      BY <1>2
    <2>4. u \in Seq(Seq(D)) /\ Optional(u, m, L, W)
      BY <1>6
    <2> HIDE DEF s
    <2> QED BY <2>1, <2>2, <2>3, <2>4, OptionalJoined
  <1> QED BY <1>2, <1>5, <1>6, <1>7 DEF D, L

\* FirstNext of a part of a listing.
LEMMA FirstListed ==
    ASSUME NEW d, NEW L, NEW n \in Nat, NEW I \in SUBSET Nat, NEW g, Enlists(g, n, I),
           Reads(d, L, g, n), NEW J \in SUBSET I,
           NEW K, PlacedAt(K, g, n, J)
    PROVE  FirstNext(d, K) = NextFrom(L, J) /\ (K = {} <=> J = {}) /\ (K # {} => FirstAt(d, K) = L[Min(J)])
  <1>1. (K = {} <=> J = {}) /\ (K # {} => Min(K) \in K /\ g[Min(K)] = Min(J))
    BY ListedLeast
  <1>2. \A p \in K : d[p] = L[g[p]]
    BY DEF Reads, PlacedAt
  <1>4. K # {} => FirstAt(d, K) = L[Min(J)]
    BY <1>1, <1>2 DEF FirstAt
  <1>5. FirstNext(d, K) = NextFrom(L, J)
    BY <1>1, <1>4 DEF FirstNext, NextFrom
  <1> QED BY <1>1, <1>4, <1>5

\* The parts of a step that follow from where the wired end states lead.
LEMMA StepParts ==
    ASSUME NEW ns \in Seq(Nodes), NEW es \in Seq(Edges), NEW n \in Nodes
    PROVE  LET step == StepOf(ns, es, n)
               L == EndLeads(ns, es, n)
               ts == step.on_outcomes
           IN /\ step.on_success = NextFrom(L, GoodEnds(L))
              /\ step.on_failure = OnFailureOf(L)
              /\ Len(ts) \in Nat /\ ts = [q \in 1 .. Len(ts) |-> ts[q]]
              /\ \E h : Enlists(h, Len(ts), DirectEnds(L)) /\ \A q \in 1 .. Len(ts) : ts[q] = Transition(L[h[q]])
  <1> DEFINE L == EndLeads(ns, es, n)
             d == Drawn(ns, es, n)
             D == DrawnOf(ns, es, n)
             step == StepOf(ns, es, n)
  <1>1. PICK g : Enlists(g, Len(d), DOMAIN L) /\ Reads(d, L, g, Len(d))
    BY DrawnListed
  <1>0. d \in Seq(D)
    BY DrawnListed
  <1>2. d \in Seq(D) /\ Len(d) \in Nat /\ DOMAIN d = 1 .. Len(d)
    BY <1>0
  <1>3. DOMAIN L \in SUBSET Nat
    BY DEF EndLeads, Wired, Nodes
  <1>4. /\ step.on_success = FirstNext(d, {p \in DOMAIN d : d[p].outcome = "success"})
        /\ step.on_failure = OnFailure(d) /\ step.on_outcomes = OutcomeTransitions(d)
    BY DEF StepOf
  <1> HIDE DEF L, d, D, step
  <1>5. \A p \in DOMAIN d : g[p] \in DOMAIN L /\ d[p] = L[g[p]]
    BY <1>1, <1>2 DEF Enlists, Reads
  <1> DEFINE N == Len(d)
             I == DOMAIN L
  <1>10. N \in Nat /\ I \in SUBSET Nat /\ Enlists(g, N, I) /\ Reads(d, L, g, N)
    BY <1>1, <1>2, <1>3
  <1>11. DOMAIN d = 1 .. N /\ DOMAIN L = I
    BY <1>2
  <1> HIDE DEF N, I
  <1>6. step.on_success = NextFrom(L, GoodEnds(L))
    <2>1. \A p \in DOMAIN d : d[p].outcome = "success" <=> g[p] \in GoodEnds(L)
      BY <1>5 DEF GoodEnds
    <2>2. GoodEnds(L) \in SUBSET I
      BY <1>11 DEF GoodEnds
    <2>3. PICK K : K = {p \in DOMAIN d : d[p].outcome = "success"}
      OBVIOUS
    <2>4. PlacedAt(K, g, N, GoodEnds(L))
      BY <1>11, <2>1, <2>3 DEF PlacedAt
    <2>5. FirstNext(d, K) = NextFrom(L, GoodEnds(L))
      BY <1>10, <2>2, <2>4, FirstListed
    <2> QED BY <1>4, <2>3, <2>5
  <1>7. step.on_failure = OnFailureOf(L)
    <2> DEFINE R == {p \in DOMAIN d : d[p].config # None}
               B == {p \in DOMAIN d \ R : IsFailure(d[p].outcome)}
    <2>1. PlacedAt(R, g, N, RetriedEnds(L))
      BY <1>11, <1>5 DEF RetriedEnds, PlacedAt
    <2>2. PlacedAt(B, g, N, BadEnds(L))
      BY <1>11, <1>5 DEF BadEnds, DirectEnds, PlacedAt
    <2>3. RetriedEnds(L) \in SUBSET I /\ BadEnds(L) \in SUBSET I
      BY <1>11 DEF RetriedEnds, BadEnds, DirectEnds
    <2>4. OnFailure(d) = IF R = {} THEN [next |-> FirstNext(d, B), config |-> None]
                         ELSE [next |-> IF FirstAt(d, R).target = None THEN FirstNext(d, B) ELSE FirstAt(d, R).target,
                               config |-> FirstAt(d, R).config]
      BY DEF OnFailure
    <2> HIDE DEF R, B
    <2>5. (R = {} <=> RetriedEnds(L) = {}) /\ (R # {} => FirstAt(d, R) = L[Min(RetriedEnds(L))])
      <3>1. PICK J \in SUBSET I : J = RetriedEnds(L) /\ PlacedAt(R, g, N, J)
        BY <2>1, <2>3
      <3>2. R = {} <=> J = {}
        <4>1. R = {} => J = {}
          BY <1>10, <3>1 DEF Enlists, PlacedAt
        <4>2. J = {} => R = {}
          BY <3>1 DEF PlacedAt
        <4> QED BY <4>1, <4>2
      <3>3. R # {} => FirstAt(d, R) = L[Min(J)]
        BY <1>10, <3>1, FirstListed
      <3> QED BY <3>1, <3>2, <3>3
    <2>6. FirstNext(d, B) = NextFrom(L, BadEnds(L))
      BY <1>10, <2>2, <2>3, FirstListed
    <2> QED BY <1>4, <2>4, <2>5, <2>6 DEF OnFailureOf
  <1>8. LET ts == step.on_outcomes
        IN /\ Len(ts) \in Nat /\ ts = [q \in 1 .. Len(ts) |-> ts[q]]
           /\ \E h : Enlists(h, Len(ts), DirectEnds(L)) /\ \A q \in 1 .. Len(ts) : ts[q] = Transition(L[h[q]])
    <2> DEFINE C == {p \in DOMAIN d : d[p].config = None}
               t == At(d, C)
               ts == [q \in DOMAIN t |-> [outcome |-> t[q].outcome, next |-> t[q].next, state |-> t[q].state]]
    <2>1. step.on_outcomes = ts
      BY <1>4 DEF OutcomeTransitions, Filter
    <2>2. t \in Seq(D) /\ \E h : Picks(t, d, C, h)
      <3>1. C \in SUBSET DOMAIN d
        OBVIOUS
      <3> HIDE DEF C
      <3> QED BY <1>2, <3>1, AtPositions
    <2>3. C = {p \in 1 .. Len(d) : g[p] \in DirectEnds(L)}
      BY <1>2, <1>5 DEF DirectEnds
    <2> HIDE DEF C, t
    <2>4. PICK h : Picks(t, d, C, h)
      BY <2>2
    <2>5. Len(t) \in Nat /\ DOMAIN t = 1 .. Len(t)
      BY <2>2
    <2>6. Enlists(h, Len(t), C) /\ \A q \in 1 .. Len(t) : h[q] \in C /\ t[q] = d[h[q]]
      BY <2>4 DEF Picks, Enlists
    <2> DEFINE f == [k \in 1 .. Len(t) |-> g[h[k]]]
    <2>7. Enlists(f, Len(t), DirectEnds(L))
      <3>1. DirectEnds(L) \in SUBSET DOMAIN L
        BY DEF DirectEnds
      <3>2. Enlists(h, Len(t), {k \in 1 .. Len(d) : g[k] \in DirectEnds(L)})
        BY <2>3, <2>6
      <3> QED BY <1>1, <1>2, <1>3, <2>5, <3>1, <3>2, ListedPart
    <2>8. Len(ts) = Len(t)
      BY <2>5
    <2>9. \A q \in 1 .. Len(t) : ts[q] = Transition(L[f[q]])
      <3>1. ASSUME NEW q \in 1 .. Len(t) PROVE ts[q] = Transition(L[f[q]])
        <4>1. t[q] = L[g[h[q]]]
          BY <1>5, <2>3, <2>6, <1>2
        <4> QED BY <2>5, <4>1 DEF Transition
      <3> QED BY <3>1
    <2>10. ts = [q \in 1 .. Len(t) |-> ts[q]]
      BY <2>5
    <2> HIDE DEF ts, f
    <2> QED BY <2>1, <2>5, <2>7, <2>8, <2>9, <2>10
  <1> QED BY <1>6, <1>7, <1>8 DEF step, L

(***************************************************************************)
(* Two nodes whose end states lead alike make the same step                *)
(***************************************************************************)
Alike(L, M) ==
    /\ DirectEnds(M) = DirectEnds(L) /\ OnFailureOf(M) = OnFailureOf(L)
    /\ \A i \in DirectEnds(L) : Transition(M[i]) = Transition(L[i])

\* A success leads straight to a step.
LEMMA GoodDirect ==
    ASSUME NEW ns, NEW es, NEW n PROVE GoodEnds(EndLeads(ns, es, n)) \in SUBSET DirectEnds(EndLeads(ns, es, n))
  <1> DEFINE L == EndLeads(ns, es, n)
  <1>1. \A i \in DOMAIN L : L[i].outcome = "success" => L[i].config = None
    BY DEF EndLeads, Lead, IsFailure
  <1> HIDE DEF L
  <1> QED BY <1>1 DEF GoodEnds, DirectEnds, L

\* Nodes with the same id and end states, whose end states lead alike.
LEMMA StepAgrees ==
    ASSUME NEW ns \in Seq(Nodes), NEW es \in Seq(Edges), NEW n \in Nodes,
           NEW ms \in Seq(Nodes), NEW fs \in Seq(Edges), NEW m \in Nodes,
           m.id = n.id, m.ends = n.ends, m.success = StepOf(ns, es, n).success,
           m.failure = StepOf(ns, es, n).failure, Alike(EndLeads(ns, es, n), EndLeads(ms, fs, m))
    PROVE  StepOf(ms, fs, m) = StepOf(ns, es, n)
  <1> DEFINE L == EndLeads(ns, es, n)
             M == EndLeads(ms, fs, m)
             s == StepOf(ns, es, n)
             t == StepOf(ms, fs, m)
             I == DirectEnds(L)
             u == s.on_outcomes
             v == t.on_outcomes
  <1>1. /\ s.on_success = NextFrom(L, GoodEnds(L)) /\ s.on_failure = OnFailureOf(L)
        /\ Len(u) \in Nat /\ u = [q \in 1 .. Len(u) |-> u[q]]
        /\ \E h : Enlists(h, Len(u), DirectEnds(L)) /\ \A q \in 1 .. Len(u) : u[q] = Transition(L[h[q]])
    BY StepParts
  <1>2. /\ t.on_success = NextFrom(M, GoodEnds(M)) /\ t.on_failure = OnFailureOf(M)
        /\ Len(v) \in Nat /\ v = [q \in 1 .. Len(v) |-> v[q]]
        /\ \E h : Enlists(h, Len(v), DirectEnds(M)) /\ \A q \in 1 .. Len(v) : v[q] = Transition(M[h[q]])
    BY StepParts
  <1>3. GoodEnds(L) \in SUBSET DirectEnds(L) /\ GoodEnds(M) \in SUBSET DirectEnds(M)
    BY GoodDirect
  <1>4. DirectEnds(L) \in SUBSET Nat
    BY DEF DirectEnds, EndLeads, Wired, Nodes
  <1>5. DirectEnds(M) = DirectEnds(L) /\ OnFailureOf(M) = OnFailureOf(L)
        /\ \A i \in DirectEnds(L) : Transition(M[i]) = Transition(L[i])
    BY DEF Alike
  <1>6. LET states == categorizeEndStates(n.ends)
        IN /\ s = [id |-> n.id, type |-> "action", ends |-> n.ends,
                   success |-> IF states.success = <<>> THEN n.success ELSE states.success,
                   failure |-> IF states.failure = <<>> THEN n.failure ELSE states.failure,
                   on_success |-> s.on_success, on_failure |-> s.on_failure, on_outcomes |-> u]
           /\ t = [id |-> n.id, type |-> "action", ends |-> n.ends,
                   success |-> IF states.success = <<>> THEN s.success ELSE states.success,
                   failure |-> IF states.failure = <<>> THEN s.failure ELSE states.failure,
                   on_success |-> t.on_success, on_failure |-> t.on_failure, on_outcomes |-> v]
    BY DEF StepOf
  <1> HIDE DEF L, M, s, t, u, v
  <1>7. \A i \in DirectEnds(L) : M[i].outcome = L[i].outcome /\ M[i].next = L[i].next
    <2>1. ASSUME NEW i \in DirectEnds(L) PROVE M[i].outcome = L[i].outcome /\ M[i].next = L[i].next
      <3>1. Transition(M[i]) = Transition(L[i])
        BY <1>5
      <3>2. \A l : Transition(l).outcome = l.outcome /\ Transition(l).next = l.next
        BY DEF Transition
      <3> QED BY <3>1, <3>2
    <2> QED BY <2>1
  <1>8. GoodEnds(M) = GoodEnds(L)
    <2>1. \A i : i \in GoodEnds(L) <=> i \in DirectEnds(L) /\ L[i].outcome = "success"
      BY <1>3 DEF GoodEnds, DirectEnds
    <2>2. \A i : i \in GoodEnds(M) <=> i \in DirectEnds(M) /\ M[i].outcome = "success"
      BY <1>3 DEF GoodEnds, DirectEnds
    <2> QED BY <1>5, <1>7, <2>1, <2>2
  <1>9. t.on_success = s.on_success
    <2>1. GoodEnds(L) # {} => Min(GoodEnds(L)) \in GoodEnds(L)
      <3>1. GoodEnds(L) \in SUBSET Nat
        BY <1>3, <1>4
      <3> QED BY <3>1, LeastOf
    <2>2. GoodEnds(L) # {} => M[Min(GoodEnds(L))].next = L[Min(GoodEnds(L))].next
      BY <1>3, <1>7, <2>1
    <2> QED BY <1>1, <1>2, <1>8, <2>2 DEF NextFrom
  <1>10. t.on_failure = s.on_failure
    BY <1>1, <1>2, <1>5
  <1>11. v = u
    <2>1. PICK h : Enlists(h, Len(u), I) /\ \A q \in 1 .. Len(u) : u[q] = Transition(L[h[q]])
      BY <1>1
    <2>2. PICK k : Enlists(k, Len(v), I) /\ \A q \in 1 .. Len(v) : v[q] = Transition(M[k[q]])
      BY <1>2, <1>5
    <2> DEFINE a == Len(u)
               b == Len(v)
    <2>3. a \in Nat /\ b \in Nat /\ I \in SUBSET Nat
      BY <1>1, <1>2, <1>4
    <2> HIDE DEF a, b, I
    <2>4. a = b /\ \A q \in 1 .. a : h[q] = k[q]
      <3>1. Enlists(h, a, I) /\ Enlists(k, b, I)
        BY <2>1, <2>2 DEF a, b
      <3>2. a = b
        BY <2>3, <3>1, ListedOnce
      <3>3. \A q \in 1 .. a : h[q] = k[q]
        BY <2>3, <3>1, ListedOnce
      <3> QED BY <3>2, <3>3
    <2>5. \A q \in 1 .. a : h[q] \in I
      BY <2>1 DEF Enlists, a
    <2>6. \A q \in 1 .. a : v[q] = u[q]
      <3>1. ASSUME NEW q \in 1 .. a PROVE v[q] = u[q]
        <4>1. u[q] = Transition(L[h[q]])
          BY <2>1 DEF a
        <4>2. v[q] = Transition(M[k[q]])
          BY <2>2, <2>4 DEF b
        <4>3. h[q] = k[q] /\ h[q] \in I
          BY <2>4, <2>5
        <4>4. Transition(M[h[q]]) = Transition(L[h[q]])
          BY <1>5, <4>3 DEF I
        <4> QED BY <4>1, <4>2, <4>3, <4>4
      <3> QED BY <3>1
    <2> QED BY <1>1, <1>2, <2>4, <2>6 DEF a, b
  <1>12. t.success = s.success /\ t.failure = s.failure
    BY <1>6
  <1>13. t = s
    BY <1>6, <1>9, <1>10, <1>11, <1>12
  <1> QED BY <1>13 DEF s, t

(***************************************************************************)
(* Drawings that the stored form can express                               *)
(***************************************************************************)
ExpressibleIn(ns, es) ==
    /\ ~ChainedIn(ns, es)
    /\ \A q \in DOMAIN ns : /\ ToldApart(ns[q].ends)
                            /\ ns[q].type = "retry" => ns[q].retry > 0 \/ ns[q].backoff > 0
    /\ \A q \in DOMAIN ns, k \in DOMAIN es : es[k].src = ns[q].id /\ IsBlock(ns, es[k].dst) =>
         /\ \A j \in DOMAIN es : es[j].src = ns[q].id /\ Outcome(ns[q], es[j].sh) \notin {None, "success"} =>
               es[j].dst = es[k].dst
         /\ resolveRetryEdge(es, es[k].dst, ns[q].id) # ns[q].id

\* An edge into a retry block stands for the numbers of the block.
LEMMA BlockTarget ==
    ASSUME NEW ns \in Seq(Nodes), NEW es, NEW e, IsBlock(ns, e.dst)
    PROVE  \E i \in DOMAIN ns :
              /\ ns[i].type = "retry" /\ ns[i].id = e.dst
              /\ resolveRetryTarget(ns, es, e) =
                    [target |-> resolveRetryEdge(es, e.dst, e.src),
                     config |-> [retry |-> ns[i].retry, backoff |-> ns[i].backoff]]
  <1> DEFINE found == {i \in DOMAIN ns : ns[i].type = "retry" /\ ns[i].id = e.dst}
             block == FirstAt(ns, found)
  <1>1. found # {} /\ found \in SUBSET Nat
    BY SeqElement DEF IsBlock
  <1>2. resolveRetryTarget(ns, es, e) =
           [target |-> resolveRetryEdge(es, e.dst, e.src),
            config |-> [retry |-> block.retry, backoff |-> block.backoff]]
    BY <1>1 DEF resolveRetryTarget
  <1> HIDE DEF found
  <1>3. PICK i \in found : block = ns[i]
    BY <1>1, FirstAtIn
  <1>4. i \in DOMAIN ns /\ ns[i].type = "retry" /\ ns[i].id = e.dst
    BY DEF found
  <1> QED BY <1>2, <1>3, <1>4

\* The outcome of the handle of an end state is that of the end state.
LEMMA OutcomeAt ==
    ASSUME NEW n \in Nodes, HandlesApart(n.ends), NEW i \in DOMAIN n.ends
    PROVE  Outcome(n, n.ends[i].id) = n.ends[i].outcome
  <1> DEFINE hits == {k \in DOMAIN n.ends : n.ends[k].id = n.ends[i].id}
  <1>1. n.ends \in Seq(EndStates)
    BY DEF Nodes
  <1>2. hits = {i} /\ i \in Nat /\ n.ends[i] \in EndStates
    BY <1>1, SeqElement DEF HandlesApart
  <1>3. Outcome(n, n.ends[i].id) = inferOutcome(FirstAt(n.ends, hits), 1)
    BY <1>2 DEF Outcome
  <1> HIDE DEF hits
  <1>4. FirstAt(n.ends, hits) = n.ends[i]
    <2>1. hits \in SUBSET Nat /\ hits # {}
      BY <1>2
    <2> QED BY <1>2, <2>1, FirstAtIn
  <1> QED BY <1>2, <1>3, <1>4, EndOutcome

\* Where the end states of a node lead.
LEMMA LeadsSound ==
    ASSUME NEW ns, NEW es, Drawing(ns, es), Sound(ns, es), ExpressibleIn(ns, es),
           NEW q \in DOMAIN ns, ns[q].id \in Ids
    PROVE  LET L == EndLeads(ns, es, ns[q])
           IN \A i \in DOMAIN L :
                /\ L[i].config = None => L[i].next \in SteppedIds(ns)
                /\ L[i].config # None =>
                     /\ IsFailure(L[i].outcome) /\ L[i].config \in Configs
                     /\ L[i].config.retry > 0 \/ L[i].config.backoff > 0
                     /\ L[i].target \in (SteppedIds(ns) \cup {None}) \ {ns[q].id}
                     /\ \A j \in DOMAIN L : IsFailure(L[j].outcome) => j = i
  <1> DEFINE n == ns[q]
             L == EndLeads(ns, es, n)
  <1>1. ns \in Seq(Nodes) /\ es \in Seq(Edges) /\ n \in Nodes /\ HandlesApart(n.ends)
    BY DEF Drawing, Shaped
  <1>2. n.ends \in Seq(EndStates)
    BY <1>1 DEF Nodes
  <1>3. DOMAIN L = Wired(es, n) /\ \A i \in DOMAIN L : L[i] = Lead(ns, es, n, i)
    BY DEF EndLeads
  <1>4. n.id # Start
    BY RetryIds
  <1> HIDE DEF n, L
  <1> SUFFICES ASSUME NEW i \in DOMAIN L
               PROVE  /\ L[i].config = None => L[i].next \in SteppedIds(ns)
                      /\ L[i].config # None =>
                           /\ IsFailure(L[i].outcome) /\ L[i].config \in Configs
                           /\ L[i].config.retry > 0 \/ L[i].config.backoff > 0
                           /\ L[i].target \in (SteppedIds(ns) \cup {None}) \ {n.id}
                           /\ \A j \in DOMAIN L : IsFailure(L[j].outcome) => j = i
    BY DEF n, L
  <1>5. \A k \in DOMAIN L : \E j \in From(es, n, k) : FirstAt(es, From(es, n, k)) = es[j]
    BY <1>1, <1>3, LeadMade
  <1>6. PICK j \in From(es, n, i) : FirstAt(es, From(es, n, i)) = es[j]
    BY <1>5
  <1>7. j \in DOMAIN es /\ es[j] \in Edges /\ es[j].src = n.id /\ es[j].sh = n.ends[i].id /\ i \in DOMAIN n.ends
    BY <1>1, <1>3, SeqElement DEF From, Wired
  <1> DEFINE r == resolveRetryTarget(ns, es, es[j])
  <1>8. L[i] = [outcome |-> n.ends[i].outcome, state |-> n.ends[i].state,
                next |-> IF r.target = None THEN es[j].dst ELSE r.target, target |-> r.target,
                config |-> IF IsFailure(n.ends[i].outcome) THEN r.config ELSE None]
    BY <1>3, <1>6 DEF Lead
  <1>9. CASE ~IsBlock(ns, es[j].dst)
    <2>1. r.config = None /\ r.target = es[j].dst
      BY <1>1, <1>7, <1>9, RetryTarget
    <2>2. es[j].dst \in SteppedIds(ns)
      BY <1>7, <1>9, LedTo
    <2> HIDE DEF r
    <2> QED BY <1>8, <2>1, <2>2
  <1>10. CASE IsBlock(ns, es[j].dst)
    <2>1. PICK b \in DOMAIN ns : /\ ns[b].type = "retry" /\ ns[b].id = es[j].dst
                                 /\ r = [target |-> resolveRetryEdge(es, es[j].dst, es[j].src),
                                         config |-> [retry |-> ns[b].retry, backoff |-> ns[b].backoff]]
      <3>1. PICK e : e = es[j]
        OBVIOUS
      <3>2. IsBlock(ns, e.dst)
        BY <1>10, <3>1
      <3>3. \E b \in DOMAIN ns :
              /\ ns[b].type = "retry" /\ ns[b].id = e.dst
              /\ resolveRetryTarget(ns, es, e) =
                    [target |-> resolveRetryEdge(es, e.dst, e.src),
                     config |-> [retry |-> ns[b].retry, backoff |-> ns[b].backoff]]
        BY <1>1, <3>2, BlockTarget
      <3> QED BY <3>1, <3>3
    <2>2. ns[b] \in Nodes /\ (ns[b].retry > 0 \/ ns[b].backoff > 0)
      BY <1>1, <2>1, SeqElement DEF ExpressibleIn
    <2>3. r.config \in Configs /\ r.config.retry = ns[b].retry /\ r.config.backoff = ns[b].backoff /\ r.config # None
      <3>1. ns[b].retry \in Nat /\ ns[b].backoff \in Nat
        BY <2>2 DEF Nodes
      <3>2. r.config = [retry |-> ns[b].retry, backoff |-> ns[b].backoff]
        BY <2>1
      <3> HIDE DEF r
      <3>3. r.config \in Configs
        BY <3>1, <3>2 DEF Configs
      <3> QED BY <3>2, <3>3, NullAssumption
    <2>4. IsFailure(n.ends[i].outcome)
      BY <1>7, <1>10 DEF Sound, IntoBlock, n
    <2>5. r.target = None \/ r.target \in SteppedIds(ns)
      <3>1. \/ r.target = None
            \/ \E k \in DOMAIN es : es[k].src = es[j].dst /\ r.target = es[k].dst
        BY <1>1, <1>7, <1>10, RetryTarget
      <3>2. ASSUME NEW k \in DOMAIN es, es[k].src = es[j].dst PROVE es[k].dst \in SteppedIds(ns)
        <4>1. ~IsBlock(ns, es[k].dst)
          BY <1>10, <3>2 DEF ExpressibleIn, ChainedIn
        <4> QED BY <4>1, LedTo
      <3> HIDE DEF r
      <3> QED BY <3>1, <3>2
    <2>6. r.target # n.id
      <3>1. resolveRetryEdge(es, es[j].dst, n.id) # n.id
        BY <1>7, <1>10 DEF ExpressibleIn, n
      <3> QED BY <1>7, <2>1, <3>1
    <2>7. ASSUME NEW k \in DOMAIN L, IsFailure(L[k].outcome) PROVE k = i
      <3>1. PICK l \in From(es, n, k) : TRUE
        BY <1>5
      <3>2. l \in DOMAIN es /\ es[l].src = n.id /\ es[l].sh = n.ends[k].id /\ k \in DOMAIN n.ends
        BY <1>3 DEF From, Wired
      <3>3. L[k].outcome = n.ends[k].outcome
        BY <1>3 DEF Lead
      <3>4. Outcome(n, es[l].sh) = n.ends[k].outcome
        BY <1>1, <3>2, OutcomeAt
      <3>5. n.ends[k].outcome \in Outcomes
        <4>1. n.ends[k] \in EndStates
          BY <1>2, <3>2, SeqElement
        <4> QED BY <4>1 DEF EndStates
      <3>6. Outcome(n, es[l].sh) \notin {None, "success"}
        BY <2>7, <3>3, <3>4, <3>5, NullAssumption DEF IsFailure
      <3>7. es[l].dst = es[j].dst
        BY <1>7, <1>10, <3>2, <3>6 DEF ExpressibleIn, n
      <3>8. l = j
        <4>1. l # j => OnePort(ns, es[l], es[j])
          BY <1>7, <3>2 DEF Sound
        <4>2. Start \notin {es[l].src, es[j].src}
          BY <1>4, <1>7, <3>2
        <4> QED BY <1>10, <3>7, <4>1, <4>2 DEF OnePort
      <3> QED BY <1>1, <1>7, <3>2, <3>8 DEF HandlesApart
    <2> HIDE DEF r
    <2>8. L[i].config = r.config /\ L[i].target = r.target /\ L[i].outcome = n.ends[i].outcome
      BY <1>8, <2>4
    <2>9. /\ L[i].config # None /\ IsFailure(L[i].outcome) /\ L[i].config \in Configs
          /\ L[i].config.retry > 0 \/ L[i].config.backoff > 0
      BY <2>2, <2>3, <2>4, <2>8
    <2>10. L[i].target \in (SteppedIds(ns) \cup {None}) \ {n.id}
      BY <2>5, <2>6, <2>8
    <2> QED BY <2>7, <2>9, <2>10
  <1> QED BY <1>9, <1>10

\* A step of such a drawing has no retry block, or all its failures run into it.
LEMMA StepShape ==
    ASSUME NEW ns, NEW es, Drawing(ns, es), Sound(ns, es), ExpressibleIn(ns, es),
           NEW q \in DOMAIN ns, ns[q].id \in Ids
    PROVE  LET n == ns[q]
               L == EndLeads(ns, es, n)
               f == StepOf(ns, es, n).on_failure
           IN \/ /\ ~HasRetry(StepOf(ns, es, n)) /\ RetriedEnds(L) = {}
                 /\ f = [next |-> NextFrom(L, BadEnds(L)), config |-> None]
              \/ /\ HasRetry(StepOf(ns, es, n)) /\ BadEnds(L) = {} /\ Failing(n.ends) # {}
                 /\ f = [next |-> f.next, config |-> f.config]
                 /\ f.config \in Configs /\ f.next \in (SteppedIds(ns) \cup {None}) \ {n.id}
  <1> DEFINE n == ns[q]
             L == EndLeads(ns, es, n)
             s == StepOf(ns, es, n)
             f == s.on_failure
             R == RetriedEnds(L)
  <1>1. ns \in Seq(Nodes) /\ es \in Seq(Edges) /\ n \in Nodes
    BY DEF Drawing
  <1>2. f = OnFailureOf(L)
    BY <1>1, StepParts
  <1>3. \A i \in DOMAIN L :
          L[i].config # None =>
               /\ IsFailure(L[i].outcome) /\ L[i].config \in Configs
               /\ L[i].config.retry > 0 \/ L[i].config.backoff > 0
               /\ L[i].target \in (SteppedIds(ns) \cup {None}) \ {n.id}
               /\ \A j \in DOMAIN L : IsFailure(L[j].outcome) => j = i
    BY LeadsSound
  <1>4. n.ends \in Seq(EndStates)
    BY <1>1 DEF Nodes
  <1>5. DOMAIN L \in SUBSET DOMAIN n.ends /\ \A i \in DOMAIN L : L[i].outcome = n.ends[i].outcome
    BY DEF EndLeads, Wired, Lead
  <1>6. HasRetry(s) <=> f.config # None /\ (f.config.retry > 0 \/ f.config.backoff > 0)
    BY DEF HasRetry
  <1> HIDE DEF n, L, s, f, R
  <1>7. CASE R = {}
    <2>1. f = [next |-> NextFrom(L, BadEnds(L)), config |-> None]
      BY <1>2, <1>7 DEF OnFailureOf, R
    <2>2. ~HasRetry(s)
      BY <1>6, <2>1
    <2> QED BY <1>7, <2>1, <2>2 DEF n, L, s, f, R
  <1>8. CASE R # {}
    <2>1. R \in SUBSET DOMAIN L /\ R \in SUBSET Nat
      BY <1>4, <1>5, SeqElement DEF RetriedEnds, R
    <2> DEFINE i == Min(R)
    <2>2. i \in R
      BY <1>8, <2>1, LeastOf
    <2>3. i \in DOMAIN L /\ L[i].config # None
      BY <2>2 DEF RetriedEnds, R
    <2>4. f = [next |-> IF L[i].target = None THEN NextFrom(L, BadEnds(L)) ELSE L[i].target, config |-> L[i].config]
      BY <1>2, <1>8 DEF OnFailureOf, R
    <2> HIDE DEF i
    <2>5. BadEnds(L) = {}
      <3>1. ASSUME NEW j \in BadEnds(L) PROVE FALSE
        <4>1. j \in DOMAIN L /\ L[j].config = None /\ IsFailure(L[j].outcome)
          BY DEF BadEnds, DirectEnds
        <4>2. j = i
          BY <1>3, <2>3, <4>1
        <4> QED BY <2>3, <4>1, <4>2
      <3> QED BY <3>1
    <2>6. f.next = L[i].target /\ f.config = L[i].config
      <3>1. NextFrom(L, BadEnds(L)) = None
        BY <2>5 DEF NextFrom
      <3> QED BY <2>4, <3>1
    <2>7. f = [next |-> f.next, config |-> f.config]
      BY <2>4
    <2>8. /\ f.config \in Configs /\ f.next \in (SteppedIds(ns) \cup {None}) \ {n.id}
          /\ f.config # None /\ (f.config.retry > 0 \/ f.config.backoff > 0)
      BY <1>3, <2>3, <2>6
    <2>9. i \in Failing(n.ends)
      <3>1. i \in DOMAIN n.ends /\ IsFailure(n.ends[i].outcome)
        BY <1>3, <1>5, <2>3
      <3>2. n.ends[i] \in EndStates
        BY <1>4, <3>1, SeqElement
      <3> QED BY <3>1, <3>2, EndOutcome DEF Failing
    <2>10. HasRetry(s) /\ Failing(n.ends) # {}
      BY <1>6, <2>8, <2>9
    <2> QED BY <2>5, <2>7, <2>8, <2>10 DEF n, L, s, f, R
  <1> QED BY <1>7, <1>8

\* The loader finds the end state of a transition that tells it apart.
LEMMA OutcomeAgain ==
    ASSUME NEW step, NEW ends \in Seq(EndStates), ToldApart(ends), NEW i \in DOMAIN ends, NEW q,
           step.on_outcomes[q].outcome = ends[i].outcome, step.on_outcomes[q].state = ends[i].state,
           step.on_outcomes[q].next # None, HasRetry(step) => ~IsFailure(ends[i].outcome)
    PROVE  OutcomeEdge(step, ends, q) = << LoadedEdge(step.id, ends[i].id, step.on_outcomes[q].next) >>
  <1> DEFINE t == step.on_outcomes[q]
             fits == {k \in DOMAIN ends : Matches(ends[k], q, t)}
  <1>1. \A k \in DOMAIN ends : ends[k] \in EndStates /\ k \in Nat
    BY SeqElement
  <1>2. \A k \in DOMAIN ends : inferOutcome(ends[k], q) = ends[k].outcome /\ ends[k].outcome \in Outcomes
    BY <1>1, EndOutcome
  <1>3. Known(t.outcome) = ends[i].outcome
    BY <1>2, OutcomesKnown
  <1>4. fits = {i}
    <2>1. i \in fits
      BY <1>2, <1>3 DEF Matches
    <2>2. ASSUME NEW k \in fits PROVE k = i
      <3>1. ends[k].outcome = ends[i].outcome /\ ends[i].state \in {None, ends[k].state} /\ k \in DOMAIN ends
        BY <1>2, <1>3 DEF Matches
      <3> QED BY <3>1 DEF ToldApart
    <2> QED BY <2>1, <2>2
  <1>5. OutcomeEdge(step, ends, q) =
           << LoadedEdge(step.id, HandleOf(ends, fits), t.next) >>
    BY <1>3, <1>4 DEF OutcomeEdge
  <1> HIDE DEF fits
  <1>6. HandleOf(ends, fits) = ends[i].id
    <2>1. fits \in SUBSET Nat /\ fits # {}
      BY <1>1, <1>4
    <2>2. FirstAt(ends, fits) = ends[i]
      BY <1>4, <2>1, FirstAtIn
    <2> QED BY <1>4, <2>2 DEF HandleOf
  <1> QED BY <1>5, <1>6

\* The retry block of a step whose transitions are all successes hangs on its first failure.
LEMMA HandleAgain ==
    ASSUME NEW step, NEW ends, Failing(ends) # {},
           \A q \in DOMAIN step.on_outcomes : ~IsFailure(Known(step.on_outcomes[q].outcome))
    PROVE  RetryHandle(step, ends) = ends[Min(Failing(ends))].id
  BY DEF RetryHandle, HandleOf, FirstAt

\* The ids of steps are none of those of Start and of retry blocks.
LEMMA SteppedIn ==
    ASSUME NEW ns, NEW es, Drawing(ns, es)
    PROVE  SteppedIds(ns) \in SUBSET Ids /\ \A x \in Ids : x # None /\ x # Start /\ x \in NodeIds /\ x \in NodeIds \ {Start}
  <1>1. \A q \in DOMAIN ns : Stepped(ns[q]) => ns[q].id \in Ids
    BY DEF Drawing, Shaped, Stepped, Terminals
  <1> QED BY <1>1, GraphAssumption, RetryIds DEF SteppedIds

\* The edges that the loader draws straight to steps are those of the end states that
\* led there.
AgainDirect(n, L) == {LoadedEdge(n.id, n.ends[i].id, L[i].next) : i \in DirectEnds(L)}

\* The loader draws these for a compiled step, and hangs its block on the first failure.
LEMMA DirectAgain ==
    ASSUME NEW ns, NEW es, Drawing(ns, es), Sound(ns, es), ExpressibleIn(ns, es),
           NEW q \in DOMAIN ns, ns[q].id \in Ids
    PROVE  LET n == ns[q]
               s == StepOf(ns, es, n)
           IN /\ Elements(DirectPart(s)) = AgainDirect(n, EndLeads(ns, es, n))
              /\ HasRetry(s) => RetryHandle(s, n.ends) = n.ends[Min(Failing(n.ends))].id
  <1> DEFINE n == ns[q]
             L == EndLeads(ns, es, n)
             s == StepOf(ns, es, n)
             ts == s.on_outcomes
             I == DirectEnds(L)
             Again(i) == LoadedEdge(n.id, n.ends[i].id, L[i].next)
  <1>1. /\ ns \in Seq(Nodes) /\ es \in Seq(Edges) /\ n \in Nodes /\ n.id \in Ids
        /\ HandlesApart(n.ends) /\ ToldApart(n.ends)
    BY DEF Drawing, Shaped, ExpressibleIn
  <1>2. n.ends \in Seq(EndStates)
    BY <1>1 DEF Nodes
  <1>3. s \in ActionSteps /\ EndStatesOf(s) = n.ends /\ s.id = n.id
    <2> HIDE DEF n
    <2> QED BY <1>1, StepOfTyped DEF StepOf
  <1>4. /\ s.on_success = NextFrom(L, GoodEnds(L)) /\ s.on_failure = OnFailureOf(L)
        /\ Len(ts) \in Nat
        /\ \E h : Enlists(h, Len(ts), I) /\ \A p \in 1 .. Len(ts) : ts[p] = Transition(L[h[p]])
    <2> HIDE DEF n
    <2> QED BY <1>1, StepParts
  <1>5. /\ \/ /\ ~HasRetry(s) /\ RetriedEnds(L) = {}
              /\ s.on_failure = [next |-> NextFrom(L, BadEnds(L)), config |-> None]
           \/ HasRetry(s) /\ BadEnds(L) = {} /\ Failing(n.ends) # {}
        /\ \A i \in I : L[i].next \in SteppedIds(ns)
    <2>1. \A i \in DOMAIN L : L[i].config = None => L[i].next \in SteppedIds(ns)
      BY LeadsSound
    <2>2. \/ /\ ~HasRetry(s) /\ RetriedEnds(L) = {}
             /\ s.on_failure = [next |-> NextFrom(L, BadEnds(L)), config |-> None]
          \/ HasRetry(s) /\ BadEnds(L) = {} /\ Failing(n.ends) # {}
      BY StepShape
    <2> HIDE DEF L, s, n
    <2> QED BY <2>1, <2>2 DEF DirectEnds
  <1>6. \A i \in I : /\ i \in DOMAIN n.ends /\ L[i].outcome = n.ends[i].outcome /\ L[i].state = n.ends[i].state
    <2>1. \A i \in DOMAIN L : /\ i \in DOMAIN n.ends /\ L[i].outcome = n.ends[i].outcome
                              /\ L[i].state = n.ends[i].state
      BY DEF EndLeads, Wired, Lead
    <2> HIDE DEF L, n
    <2> QED BY <2>1 DEF DirectEnds
  <1>7. GoodEnds(L) \in SUBSET I
    BY GoodDirect
  <1>8. ts \in Seq(Transitions)
    BY <1>3 DEF ActionSteps
  <1>9. \A i \in I : HasRetry(s) => ~IsFailure(n.ends[i].outcome)
    <2> HIDE DEF L, n, s
    <2> QED BY <1>5, <1>6 DEF BadEnds
  <1>10. \A i \in I : n.ends[i] \in EndStates /\ n.ends[i].outcome \in Outcomes /\ n.ends[i].id \in Handles
    <2>1. \A i \in I : n.ends[i] \in EndStates
      BY <1>2, <1>6, SeqElement
    <2> HIDE DEF I, n
    <2> QED BY <2>1 DEF EndStates
  <1>11. \A i \in I : L[i].next # None /\ Again(i) \in Edges
    <2>1. ASSUME NEW i \in I PROVE L[i].next # None /\ Again(i) \in Edges
      <3>1. L[i].next \in NodeIds \ {Start} /\ L[i].next # None
        BY <1>5, SteppedIn
      <3>2. n.id \in NodeIds /\ n.ends[i].id \in Handles \cup {None}
        BY <1>1, <1>10, SteppedIn
      <3> HIDE DEF n, L
      <3> QED BY <3>1, <3>2, LoadedMade
    <2> QED BY <2>1
  <1> HIDE DEF n, L, s, I, ts
  <1>12. PICK h : Enlists(h, Len(ts), I) /\ \A p \in 1 .. Len(ts) : ts[p] = Transition(L[h[p]])
    BY <1>4
  <1>13. DOMAIN ts = 1 .. Len(ts)
    BY <1>8
  <1>14. \A p \in DOMAIN ts : /\ h[p] \in I /\ ts[p].outcome = n.ends[h[p]].outcome
                              /\ ts[p].state = n.ends[h[p]].state /\ ts[p].next = L[h[p]].next
    BY <1>6, <1>12, <1>13 DEF Enlists, Transition
  <1>15. \A i \in I : \E p \in DOMAIN ts : h[p] = i
    BY <1>12, <1>13 DEF Enlists
  <1>16. Elements(DirectPart(s)) = {Again(i) : i \in I}
    <2>1. CASE ts # <<>>
      <3> DEFINE parts == [p \in DOMAIN ts |-> OutcomeEdge(s, n.ends, p)]
      <3>1. DirectPart(s) = Flatten(parts)
        BY <1>3, <2>1 DEF DirectPart, ts
      <3>2. ASSUME NEW p \in DOMAIN ts PROVE parts[p] = << Again(h[p]) >> /\ Again(h[p]) \in Edges
        <4>1. h[p] \in I /\ h[p] \in DOMAIN n.ends /\ ts[p].next # None
          BY <1>6, <1>11, <1>14
        <4>2. HasRetry(s) => ~IsFailure(n.ends[h[p]].outcome)
          BY <1>9, <4>1
        <4>3. OutcomeEdge(s, n.ends, p) = << LoadedEdge(s.id, n.ends[h[p]].id, s.on_outcomes[p].next) >>
          BY <1>1, <1>2, <1>14, <4>1, <4>2, OutcomeAgain DEF ts
        <4>4. s.on_outcomes[p].next = L[h[p]].next
          BY <1>14 DEF ts
        <4> QED BY <1>3, <1>11, <4>1, <4>3, <4>4
      <3>3. DOMAIN parts = DOMAIN ts
        OBVIOUS
      <3> HIDE DEF parts, Again
      <3>4. parts \in Seq(Seq(Edges))
        <4>1. \A p \in DOMAIN parts : parts[p] \in Seq(Edges)
          <5>1. \A e \in Edges : << e >> \in Seq(Edges)
            OBVIOUS
          <5> QED BY <3>2, <3>3, <5>1
        <4>2. parts = [p \in 1 .. Len(ts) |-> parts[p]]
          BY <1>13 DEF parts
        <4> QED BY <1>4, <1>13, <3>3, <4>1, <4>2
      <3>5. \A x : x \in Elements(Flatten(parts)) <=> \E p \in DOMAIN parts : x \in Elements(parts[p])
        BY <3>4, FlattenElements
      <3>6. \A p \in DOMAIN parts : Elements(parts[p]) = {Again(h[p])}
        BY <3>2, <3>3 DEF Elements
      <3>7. \A x : (\E p \in DOMAIN parts : x \in Elements(parts[p])) <=> \E i \in I : x = Again(i)
        BY <1>14, <1>15, <3>3, <3>6
      <3>8. \A x : x \in Elements(DirectPart(s)) <=> \E i \in I : x = Again(i)
        BY <3>1, <3>5, <3>7
      <3> QED BY <3>8
    <2>2. CASE ts = <<>>
      <3>1. I = {}
        BY <1>15, <2>2
      <3>2. s.on_success = None
        BY <1>4, <1>7, <3>1 DEF NextFrom
      <3>3. HasRetry(s) \/ s.on_failure.next = None
        <4>1. BadEnds(L) = {}
          BY <3>1 DEF BadEnds, I
        <4> QED BY <1>5, <4>1 DEF NextFrom
      <3>4. DirectPart(s) = <<>> \o <<>>
        BY <2>2, <3>2, <3>3 DEF DirectPart, ts
      <3>5. Elements(DirectPart(s)) = {}
        BY <3>4 DEF Elements
      <3> QED BY <3>1, <3>5
    <2> QED BY <2>1, <2>2
  <1>17. HasRetry(s) => RetryHandle(s, n.ends) = n.ends[Min(Failing(n.ends))].id
    <2>1. ASSUME HasRetry(s), NEW p \in DOMAIN ts PROVE ~IsFailure(Known(ts[p].outcome))
      <3>1. h[p] \in I /\ ts[p].outcome = n.ends[h[p]].outcome
        BY <1>14
      <3> QED BY <1>9, <1>10, <2>1, <3>1, OutcomesKnown
    <2>2. HasRetry(s) => Failing(n.ends) # {}
      BY <1>5
    <2> QED BY <2>1, <2>2, HandleAgain DEF ts
  <1> QED BY <1>16, <1>17 DEF n, L, s, I, AgainDirect

(***************************************************************************)
(* What the loader draws for a step                                        *)
(***************************************************************************)
\* The nodes of a step show what the step says.
LEMMA StepNodesMade ==
    ASSUME NEW step \in ActionSteps \cup TerminalSteps,
           step.type = "action" => HandlesApart(EndStatesOf(step))
    PROVE  LET t == StepNodes(step)
           IN /\ step.type = "terminal" => t[1].type = "event" /\ t[1].sub = terminalStepToEventSubtype(step)
              /\ step.type = "action" => /\ t[1].type = "action" /\ t[1].success = step.success
                                         /\ t[1].failure = step.failure
              /\ Retried(step) => /\ t[2].retry = step.on_failure.config.retry
                                  /\ t[2].backoff = step.on_failure.config.backoff
  <1>0. step.id \in NodeIds
    BY RetryIds DEF ActionSteps, TerminalSteps
  <1>1. CASE step.type = "terminal"
    <2>1. StepNodes(step) = << Node(step.id, "event", terminalStepToEventSubtype(step)) >>
      BY <1>1 DEF StepNodes
    <2>2. terminalStepToEventSubtype(step) \in Terminals
      BY DEF terminalStepToEventSubtype, Terminals
    <2> DEFINE n == Node(step.id, "event", terminalStepToEventSubtype(step))
    <2>3. n.type = "event" /\ n.sub = terminalStepToEventSubtype(step)
      BY <1>0, <2>2, NodeMade
    <2> HIDE DEF n
    <2> QED BY <1>1, <2>1, <2>3 DEF Retried, n
  <1>2. CASE step.type # "terminal"
    <2>1. step \in ActionSteps
      BY <1>2 DEF TerminalSteps
    <2>2. step.type = "action" /\ step.success \in Seq(Texts) /\ step.failure \in Seq(Texts) /\ step.id \in Ids
          /\ step.on_failure.config \in Configs \cup {None}
      BY <2>1 DEF ActionSteps
    <2> DEFINE c == step.on_failure.config
               a == ActionNode(step.id, EndStatesOf(step), step.success, step.failure)
               b == RetryNode(RetryId(step.id), c.retry, c.backoff)
    <2>3. a.type = "action" /\ a.success = step.success /\ a.failure = step.failure
      <3>1. EndStatesOf(step) \in Seq(EndStates)
        BY <2>1, EndStatesOfType
      <3> QED BY <1>0, <2>2, <3>1, ActionMade
    <2>4. HasRetry(step) => b.retry = c.retry /\ b.backoff = c.backoff
      <3>1. HasRetry(step) => c.retry \in Nat /\ c.backoff \in Nat
        BY <2>2 DEF HasRetry, Configs
      <3>2. RetryId(step.id) \in NodeIds
        BY <2>2, RetryIds
      <3> HIDE DEF c
      <3> QED BY <3>1, <3>2, RetryMade
    <2>5. StepNodes(step) = << a >> \o IF HasRetry(step) THEN << b >> ELSE <<>>
      BY <1>2 DEF StepNodes
    <2>6. Retried(step) <=> HasRetry(step)
      BY <2>2 DEF Retried
    <2> HIDE DEF a, b
    <2>7. CASE HasRetry(step)
      <3>1. StepNodes(step) = << a >> \o << b >>
        BY <2>5, <2>7
      <3> DEFINE t == << a >> \o << b >>
      <3>2. t[1] = a /\ t[2] = b
        BY a \in {a, b}, b \in {a, b}, TwoJoined
      <3> HIDE DEF t
      <3> QED BY <1>2, <2>3, <2>4, <2>7, <3>1, <3>2 DEF t
    <2>8. CASE ~HasRetry(step)
      <3>1. StepNodes(step) = << a >>
        <4>1. StepNodes(step) = << a >> \o <<>>
          BY <2>5, <2>8
        <4> QED BY <4>1
      <3> QED BY <1>2, <2>3, <2>6, <2>8, <3>1
    <2> QED BY <2>7, <2>8
  <1> QED BY <1>1, <1>2

LoopEdge(step) == Edge(RetryId(step.id), RetryOut, step.id, "in", "load")
HangEdge(step) == Edge(step.id, RetryHandle(step, EndStatesOf(step)), RetryId(step.id), "retry-in", "load")
BackEdge(step) == Edge(RetryId(step.id), RetryFailed, step.on_failure.next, "state-in", "load")
FromStep(step) == Elements(DirectPart(step)) \cup (IF HasRetry(step) THEN {HangEdge(step)} ELSE {})
FromBlock(step, ids) ==
    IF ~HasRetry(step) THEN {}
    ELSE {LoopEdge(step)} \cup IF step.on_failure.next \in ids \ {None, step.id} THEN {BackEdge(step)} ELSE {}

\* The edges of a step: those that leave its node and those that leave its retry block.
LEMMA StepEdgeSet ==
    ASSUME NEW step \in ActionSteps, NEW ids
    PROVE  Elements(StepEdges(step, ids)) = FromStep(step) \cup FromBlock(step, ids)
  <1> DEFINE D == DirectPart(step)
             S == Edges \cup {LoopEdge(step), HangEdge(step), BackEdge(step)}
             U == LoopPart(step)
             H == HangPart(step)
             B == BackPart(step, ids)
             R == RetryPart(step, ids)
  <1>1. D \in Seq(S)
    BY DirectPartOf, D \in Seq({e \in Edges : Direct(step, e)})
  <1>2. U = (IF HasRetry(step) THEN << LoopEdge(step) >> ELSE <<>>) /\ H = << HangEdge(step) >>
        /\ B = (IF step.on_failure.next \in ids \ {None, step.id} THEN << BackEdge(step) >> ELSE <<>>)
        /\ R = (IF HasRetry(step) THEN H \o B ELSE <<>>)
    BY DEF LoopPart, HangPart, BackPart, RetryPart, LoopEdge, HangEdge, BackEdge
  <1>3. LoopEdge(step) \in S /\ HangEdge(step) \in S /\ BackEdge(step) \in S
    OBVIOUS
  <1> HIDE DEF D, S, U, H, B, R
  <1>4. /\ U \in Seq(S) /\ Elements(U) = IF HasRetry(step) THEN {LoopEdge(step)} ELSE {}
        /\ H \in Seq(S) /\ Elements(H) = {HangEdge(step)}
        /\ B \in Seq(S)
        /\ Elements(B) = IF step.on_failure.next \in ids \ {None, step.id} THEN {BackEdge(step)} ELSE {}
    BY <1>2, <1>3 DEF Elements
  <1>5. R \in Seq(S) /\ Elements(R) = IF HasRetry(step) THEN Elements(H) \cup Elements(B) ELSE {}
    <2>1. H \o B \in Seq(S) /\ Elements(H \o B) = Elements(H) \cup Elements(B)
      BY <1>4, CatElements
    <2>2. <<>> \in Seq(S) /\ Elements(<<>>) = {}
      BY DEF Elements
    <2> QED BY <1>2, <2>1, <2>2
  <1>6. U \o D \in Seq(S) /\ Elements(U \o D) = Elements(U) \cup Elements(D)
    BY <1>1, <1>4, CatElements
  <1>7. Elements((U \o D) \o R) = Elements(U \o D) \cup Elements(R)
    <2> DEFINE W == U \o D
    <2>1. W \in Seq(S) /\ R \in Seq(S)
      BY <1>5, <1>6
    <2> HIDE DEF W
    <2>2. Elements(W \o R) = Elements(W) \cup Elements(R)
      BY <2>1, CatElements
    <2> QED BY <2>2 DEF W
  <1>8. step.type # "terminal"
    BY DEF ActionSteps
  <1>9. StepEdges(step, ids) = (U \o D) \o R
    BY <1>8, StepEdgesParts DEF U, D, R
  <1>10. Elements(StepEdges(step, ids)) = Elements(U) \cup Elements(D) \cup Elements(R)
    BY <1>6, <1>7, <1>9
  <1> QED BY <1>4, <1>5, <1>10 DEF FromStep, FromBlock, D

\* The edge of the Start node.
EntryEdges(first) == IF first = None THEN {} ELSE {LoadedEdge(Start, StateOut, first)}
EntryOf(list, from) == IF from \in StepIds(list) THEN from ELSE IF list = <<>> THEN None ELSE list[1].id

\* The edges of a loaded drawing: those of its steps and that of the Start node.
LEMMA LoadedEdgeSet ==
    ASSUME NEW list, NEW from, StepsTyped(list)
    PROVE  \A e : e \in Elements(convertActionGraphToGraph(list, from).edges) <=>
                    \/ e \in EntryEdges(EntryOf(list, from))
                    \/ \E i \in DOMAIN list : e \in Elements(StepEdges(list[i], StepIds(list)))
  <1> DEFINE ids == StepIds(list)
             first == EntryOf(list, from)
             parts == [i \in DOMAIN list |-> StepEdges(list[i], ids)]
             entry == IF first = None THEN <<>> ELSE << LoadedEdge(Start, StateOut, first) >>
             S == Edges \cup {LoadedEdge(Start, StateOut, first)}
  <1>1. convertActionGraphToGraph(list, from).edges = Flatten(parts) \o entry
    BY DEF convertActionGraphToGraph, StepIds, EntryOf
  <1>2. \A i \in DOMAIN list : StepEdges(list[i], ids) \in Seq(Edges)
    <2>1. \A i \in DOMAIN list : /\ list[i] \in ActionSteps \cup TerminalSteps
                                 /\ list[i].type = "action" => HandlesApart(EndStatesOf(list[i]))
      BY DEF StepsTyped
    <2> HIDE DEF ids
    <2> QED BY <2>1, StepEdgesOf
  <1>3. DOMAIN list = 1 .. Len(list) /\ Len(list) \in Nat
    BY list \in Seq(ActionSteps \cup TerminalSteps) DEF StepsTyped
  <1>4. parts \in Seq(Seq(Edges)) /\ DOMAIN parts = DOMAIN list
        /\ \A i \in DOMAIN list : parts[i] = StepEdges(list[i], ids)
    BY <1>2, <1>3
  <1>5. entry \in Seq(S) /\ Elements(entry) = EntryEdges(first)
    <2> DEFINE e == LoadedEdge(Start, StateOut, first)
    <2>1. EntryEdges(first) = IF first = None THEN {} ELSE {e}
      BY DEF EntryEdges
    <2>2. entry = IF first = None THEN <<>> ELSE << e >>
      OBVIOUS
    <2>3. e \in S
      OBVIOUS
    <2> HIDE DEF e, S, entry
    <2> QED BY <2>1, <2>2, <2>3 DEF Elements
  <1>6. Edges \in SUBSET S
    OBVIOUS
  <1> HIDE DEF parts, entry, S, ids, first
  <1> DEFINE part == Flatten(parts)
  <1>7. part \in Seq(Edges)
    BY <1>4, FlattenPositions
  <1>8. \A e : e \in Elements(part) <=> \E i \in DOMAIN list : e \in Elements(StepEdges(list[i], ids))
    <2>1. \A e : e \in Elements(part) <=> \E i \in DOMAIN parts : e \in Elements(parts[i])
      BY <1>4, FlattenElements
    <2> QED BY <1>4, <2>1
  <1> HIDE DEF part
  <1>10. part \in Seq(S)
    BY <1>6, <1>7
  <1>11. Elements(part \o entry) = Elements(part) \cup Elements(entry)
    <2>1. PICK u, v, T : u = part /\ v = entry /\ T = S /\ u \in Seq(T) /\ v \in Seq(T)
      BY <1>5, <1>10
    <2>2. Elements(u \o v) = Elements(u) \cup Elements(v)
      BY <2>1, CatElements
    <2> QED BY <2>1, <2>2
  <1>12. \A e : e \in Elements(part \o entry) <=>
                 \/ e \in EntryEdges(first)
                 \/ \E i \in DOMAIN list : e \in Elements(StepEdges(list[i], ids))
    BY <1>5, <1>8, <1>11
  <1> QED BY <1>1, <1>12 DEF part, ids, first

\* The sources of the edges of a step.
LEMMA StepSources ==
    ASSUME NEW step \in ActionSteps, NEW ids
    PROVE  /\ \A e \in FromStep(step) : e.src = step.id
           /\ \A e \in FromBlock(step, ids) : e.src = RetryId(step.id)
  <1>1. \A e \in Elements(DirectPart(step)) : e.src = step.id
    <2>1. DirectPart(step) \in Seq({e \in Edges : Direct(step, e)})
      BY DirectPartOf
    <2>2. \A k \in DOMAIN DirectPart(step) : DirectPart(step)[k] \in {e \in Edges : Direct(step, e)}
      BY <2>1, SeqElement
    <2> QED BY <2>2 DEF Elements, Direct
  <1>2. HangEdge(step).src = step.id /\ LoopEdge(step).src = RetryId(step.id) /\ BackEdge(step).src = RetryId(step.id)
    BY DEF HangEdge, LoopEdge, BackEdge, Edge
  <1> QED BY <1>1, <1>2 DEF FromStep, FromBlock

\* The edges of a loaded drawing, by where they start.
LEMMA LoadedFrom ==
    ASSUME NEW list, NEW from, StepsTyped(list), StepsResolve(list)
    PROVE  LET E == Elements(convertActionGraphToGraph(list, from).edges)
               ids == StepIds(list)
           IN /\ {e \in E : e.src = Start} = EntryEdges(EntryOf(list, from))
              /\ \A i \in DOMAIN list : list[i].type = "action" =>
                    /\ {e \in E : e.src = list[i].id} = FromStep(list[i])
                    /\ {e \in E : e.src = RetryId(list[i].id)} = FromBlock(list[i], ids)
  <1> DEFINE E == Elements(convertActionGraphToGraph(list, from).edges)
             ids == StepIds(list)
             A == {i \in DOMAIN list : list[i].type = "action"}
             F == EntryEdges(EntryOf(list, from))
  <1>1. /\ \A i \in DOMAIN list : /\ list[i] \in ActionSteps \cup TerminalSteps /\ list[i].id \in Ids
                                  /\ list[i].type = "action" => list[i] \in ActionSteps
                                  /\ list[i].type # "action" => list[i].type = "terminal"
        /\ \A i, j \in DOMAIN list : list[i].id = list[j].id => i = j
    BY DEF StepsTyped, ActionSteps, TerminalSteps
  <1>2. \A e : e \in E <=> e \in F \/ \E i \in DOMAIN list : e \in Elements(StepEdges(list[i], ids))
    BY LoadedEdgeSet
  <1>3. \A i \in DOMAIN list : i \notin A => Elements(StepEdges(list[i], ids)) = {}
    <2>1. \A i \in DOMAIN list : i \notin A => StepEdges(list[i], ids) = <<>>
      BY <1>1 DEF StepEdges
    <2>2. Elements(<<>>) = {}
      BY DEF Elements
    <2> HIDE DEF A, ids
    <2> QED BY <2>1, <2>2
  <1>4. \A i \in A : Elements(StepEdges(list[i], ids)) = FromStep(list[i]) \cup FromBlock(list[i], ids)
    BY <1>1, StepEdgeSet
  <1>5. \A i \in A : /\ \A e \in FromStep(list[i]) : e.src = list[i].id
                     /\ \A e \in FromBlock(list[i], ids) : e.src = RetryId(list[i].id)
    BY <1>1, StepSources
  <1>6. \A e \in F : e.src = Start
    BY DEF EntryEdges, LoadedEdge, Edge
  <1> HIDE DEF E, F, ids
  <1>7. \A e : e \in E <=> e \in F \/ \E i \in A : e \in FromStep(list[i]) \/ e \in FromBlock(list[i], ids)
    <2>2. \A i \in DOMAIN list : \A e : e \in Elements(StepEdges(list[i], ids)) =>
             i \in A /\ (e \in FromStep(list[i]) \/ e \in FromBlock(list[i], ids))
      BY <1>3, <1>4
    <2>3. \A i \in A : i \in DOMAIN list /\ \A e : e \in FromStep(list[i]) \/ e \in FromBlock(list[i], ids) =>
             e \in Elements(StepEdges(list[i], ids))
      BY <1>4
    <2> HIDE DEF A
    <2> QED BY <1>2, <2>2, <2>3
  <1>8. \A i \in A : list[i].id \in Ids /\ list[i].id # Start /\ RetryId(list[i].id) # Start
    BY <1>1, RetryIds
  <1>9. \A i, j \in A : list[i].id # RetryId(list[j].id) /\ (list[i].id = list[j].id => i = j)
                        /\ (RetryId(list[i].id) = RetryId(list[j].id) => i = j)
    BY <1>1, RetryIds
  <1>10. {e \in E : e.src = Start} = F
    BY <1>5, <1>6, <1>7, <1>8
  <1>11. ASSUME NEW i \in A PROVE {e \in E : e.src = list[i].id} = FromStep(list[i])
    BY <1>5, <1>6, <1>7, <1>8, <1>9
  <1>12. ASSUME NEW i \in A PROVE {e \in E : e.src = RetryId(list[i].id)} = FromBlock(list[i], ids)
    BY <1>5, <1>6, <1>7, <1>8, <1>9
  <1> QED BY <1>10, <1>11, <1>12 DEF E, F, ids

\* A stored step is drawn as a node that stands for a step and, with retries, a block.
LEMMA HeadStepped ==
    ASSUME NEW step \in ActionSteps \cup TerminalSteps,
           step.type = "action" => HandlesApart(EndStatesOf(step))
    PROVE  LET t == StepNodes(step)
           IN /\ t \in Seq(Nodes) /\ 1 \in DOMAIN t /\ t[1].id = step.id
              /\ \A k \in DOMAIN t : (Stepped(t[k]) <=> k = 1) /\ (t[k].type = "retry" => k = 2)
              /\ 2 \in DOMAIN t => Retried(step)
  <1> DEFINE t == StepNodes(step)
  <1>1. /\ t \in Seq(Nodes) /\ 1 \in DOMAIN t /\ t[1].id = step.id /\ t[1].type # "retry"
        /\ \A k \in DOMAIN t : k # 1 => k = 2 /\ Retried(step) /\ t[k].type = "retry"
    BY StepNodesOf
  <1>2. /\ step.type = "terminal" => t[1].type = "event" /\ t[1].sub = terminalStepToEventSubtype(step)
        /\ step.type = "action" => t[1].type = "action"
    BY StepNodesMade
  <1>3. step.type \in {"action", "terminal"}
    BY DEF ActionSteps, TerminalSteps
  <1>4. terminalStepToEventSubtype(step) \in Terminals
    BY DEF terminalStepToEventSubtype, Terminals
  <1> HIDE DEF t
  <1>5. Stepped(t[1])
    BY <1>2, <1>3, <1>4 DEF Stepped
  <1>6. \A k \in DOMAIN t : t[k].type = "retry" => ~Stepped(t[k])
    BY DEF Stepped
  <1> QED BY <1>1, <1>5, <1>6 DEF t

\* The nodes of a loaded drawing that stand for steps: one for each, in order.
LEMMA LoadedStepped ==
    ASSUME NEW list, NEW from, StepsTyped(list)
    PROVE  LET ns == convertActionGraphToGraph(list, from).nodes
               made == At(ns, {q \in DOMAIN ns : Stepped(ns[q])})
           IN /\ made \in Seq(Nodes) /\ Len(made) = Len(list)
              /\ \A i \in 1 .. Len(list) : /\ made[i] = StepNodes(list[i])[1]
                                           /\ \E q \in DOMAIN ns : ns[q] = made[i]
  <1> DEFINE parts == [i \in DOMAIN list |-> StepNodes(list[i])]
             part == Flatten(parts)
             ns == << StartNode >> \o part
             I == {q \in DOMAIN ns : Stepped(ns[q])}
             made == At(ns, I)
             n == Len(list)
  <1>1. /\ n \in Nat /\ DOMAIN list = 1 .. n
        /\ \A i \in 1 .. n : /\ list[i] \in ActionSteps \cup TerminalSteps
                             /\ list[i].type = "action" => HandlesApart(EndStatesOf(list[i]))
    BY DEF StepsTyped
  <1>2. DOMAIN parts = 1 .. n /\ \A i \in 1 .. n : parts[i] = StepNodes(list[i])
    BY <1>1
  <1>3. \A i \in 1 .. n : /\ parts[i] \in Seq(Nodes) /\ 1 \in DOMAIN parts[i]
                          /\ \A k \in DOMAIN parts[i] : Stepped(parts[i][k]) <=> k = 1
    BY <1>1, <1>2, HeadStepped
  <1>4. parts \in Seq(Seq(Nodes)) /\ Len(parts) = n
    BY <1>1, <1>3
  <1>5. convertActionGraphToGraph(list, from).nodes = ns
    BY DEF convertActionGraphToGraph
  <1>6. StartNode \in Nodes /\ ~Stepped(StartNode)
    BY StartShaped DEF Stepped, StartNode, Node, Terminals
  <1> HIDE DEF parts, n
  <1>7. part \in Seq(Nodes) /\ \E m : Joins(part, parts, n, m)
    BY <1>4, FlattenPositions
  <1> HIDE DEF part
  <1>8. PICK m : Joins(part, parts, n, m)
    BY <1>7
  <1>9. DOMAIN part = 1 .. Len(part) /\ Len(part) \in Nat
    BY <1>7
  <1>10. /\ \A p \in DOMAIN part : /\ m[p] \in Nat \X Nat /\ m[p][1] \in 1 .. n /\ m[p][2] \in DOMAIN parts[m[p][1]]
                                   /\ part[p] = parts[m[p][1]][m[p][2]]
         /\ \A p, q \in DOMAIN part : p # q => m[p] # m[q]
         /\ \A p, q \in DOMAIN part : p < q => m[p][1] <= m[q][1]
         /\ \A i \in 1 .. n : \A k \in DOMAIN parts[i] : \E p \in DOMAIN part : m[p] = <<i, k>>
    BY <1>8, <1>9 DEF Joins
  <1>11. /\ ns \in Seq(Nodes) /\ DOMAIN ns = 1 .. Len(part) + 1 /\ ns[1] = StartNode
         /\ \A p \in DOMAIN part : ns[p + 1] = part[p]
    <2>1. PICK u : u = << StartNode >>
      OBVIOUS
    <2>2. u \in Seq(Nodes) /\ Len(u) = 1 /\ DOMAIN u = {1} /\ u[1] = StartNode
      BY <1>6, <2>1
    <2>3. ns = u \o part
      BY <2>1
    <2> HIDE DEF ns
    <2>4. /\ ns \in Seq(Nodes) /\ Len(ns) = Len(u) + Len(part)
          /\ \A k \in DOMAIN ns :
                \/ k \in DOMAIN u /\ ns[k] = u[k]
                \/ k - Len(u) \in DOMAIN part /\ k > Len(u) /\ ns[k] = part[k - Len(u)]
      <3>1. /\ u \o part \in Seq(Nodes) /\ Len(u \o part) = Len(u) + Len(part)
            /\ \A k \in DOMAIN (u \o part) :
                  \/ k \in DOMAIN u /\ (u \o part)[k] = u[k]
                  \/ k - Len(u) \in DOMAIN part /\ k > Len(u) /\ (u \o part)[k] = part[k - Len(u)]
        <4>1. u \in Seq(Nodes) /\ part \in Seq(Nodes)
          BY <1>7, <2>2
        <4>2. u \o part \in Seq(Nodes) /\ Len(u \o part) = Len(u) + Len(part)
          BY <4>1, CatElements
        <4>3. \A k \in DOMAIN (u \o part) :
                 \/ k \in DOMAIN u /\ (u \o part)[k] = u[k]
                 \/ k - Len(u) \in DOMAIN part /\ k > Len(u) /\ (u \o part)[k] = part[k - Len(u)]
          BY <4>1, CatElements
        <4> QED BY <4>2, <4>3
      <3> QED BY <2>3, <3>1
    <2>5. DOMAIN ns = 1 .. Len(part) + 1
      BY <1>9, <2>2, <2>4
    <2>6. ns[1] = StartNode
      BY <1>9, <2>2, <2>4, <2>5
    <2>7. ASSUME NEW p \in DOMAIN part PROVE ns[p + 1] = part[p]
      <3>1. p + 1 \in DOMAIN ns /\ p + 1 # 1 /\ (p + 1) - 1 = p
        BY <1>9, <2>5
      <3> QED BY <2>2, <2>4, <3>1
    <2> QED BY <2>4, <2>5, <2>6, <2>7
  <1> HIDE DEF ns
  <1>12. /\ I \in SUBSET DOMAIN ns
         /\ \A q \in I : q - 1 \in DOMAIN part /\ m[q - 1][2] = 1 /\ q \in Nat /\ ns[q] = part[q - 1]
         /\ \A i \in 1 .. n : \E q \in I : m[q - 1][1] = i
    <2>1. ASSUME NEW q \in I PROVE q - 1 \in DOMAIN part /\ m[q - 1][2] = 1 /\ q \in Nat /\ ns[q] = part[q - 1]
      <3>1. q \in DOMAIN ns /\ Stepped(ns[q]) /\ q # 1
        BY <1>6, <1>11
      <3>2. q - 1 \in DOMAIN part /\ (q - 1) + 1 = q /\ q \in Nat
        BY <1>9, <1>11, <3>1
      <3>3. ns[q] = part[q - 1]
        BY <1>11, <3>2
      <3>4. Stepped(parts[m[q - 1][1]][m[q - 1][2]]) /\ m[q - 1][1] \in 1 .. n /\ m[q - 1][2] \in DOMAIN parts[m[q - 1][1]]
        BY <1>10, <3>1, <3>2, <3>3
      <3> QED BY <1>3, <3>2, <3>3, <3>4
    <2>2. ASSUME NEW i \in 1 .. n PROVE \E q \in I : m[q - 1][1] = i
      <3>1. 1 \in DOMAIN parts[i] /\ Stepped(parts[i][1])
        BY <1>3
      <3>2. PICK p \in DOMAIN part : m[p] = <<i, 1>>
        BY <1>10, <3>1
      <3>3. m[p][1] = i /\ m[p][2] = 1
        BY <3>2
      <3>4. part[p] = parts[i][1]
        BY <1>10, <3>3
      <3>5. p + 1 \in DOMAIN ns /\ ns[p + 1] = part[p] /\ (p + 1) - 1 = p
        BY <1>9, <1>11
      <3>6. p + 1 \in I
        BY <3>1, <3>4, <3>5
      <3> QED BY <3>3, <3>5, <3>6
    <2> QED BY <2>1, <2>2
  <1> HIDE DEF I
  <1>13. made \in Seq(Nodes) /\ \E g : Picks(made, ns, I, g)
    BY <1>11, <1>12, AtPositions
  <1> HIDE DEF made
  <1>14. PICK g : Picks(made, ns, I, g)
    BY <1>13
  <1> DEFINE c == Len(made)
             f == [k \in 1 .. c |-> m[g[k] - 1][1]]
  <1>15. c \in Nat /\ DOMAIN made = 1 .. c
    BY <1>13
  <1> HIDE DEF c
  <1>16. /\ \A k \in 1 .. c : g[k] \in I /\ made[k] = ns[g[k]]
         /\ \A k, l \in 1 .. c : k < l => g[k] < g[l]
         /\ \A q \in I : \E k \in 1 .. c : g[k] = q
    BY <1>14 DEF Picks, c
  <1>17. Enlists(f, c, 1 .. n)
    <2>1. \A k \in 1 .. c : f[k] \in 1 .. n
      BY <1>10, <1>12, <1>16
    <2>2. ASSUME NEW k \in 1 .. c, NEW l \in 1 .. c, k < l PROVE f[k] < f[l]
      <3> DEFINE p == g[k] - 1
                 q == g[l] - 1
      <3>1. p \in DOMAIN part /\ q \in DOMAIN part /\ m[p][2] = 1 /\ m[q][2] = 1
        BY <1>12, <1>16
      <3>2. g[k] < g[l] /\ g[k] \in Nat /\ g[l] \in Nat
        BY <1>12, <1>16, <2>2
      <3>3. p < q /\ p # q
        BY <3>2
      <3>4. f[k] = m[p][1] /\ f[l] = m[q][1]
        OBVIOUS
      <3> HIDE DEF p, q, f
      <3>5. m[p] # m[q] /\ m[p][1] <= m[q][1] /\ m[p] \in Nat \X Nat /\ m[q] \in Nat \X Nat
        BY <1>10, <3>1, <3>3
      <3>6. m[p] = <<m[p][1], m[p][2]>> /\ m[q] = <<m[q][1], m[q][2]>> /\ m[p][1] \in Nat /\ m[q][1] \in Nat
        BY <3>5
      <3>7. m[p][1] # m[q][1]
        BY <3>1, <3>5, <3>6
      <3> QED BY <3>4, <3>5, <3>6, <3>7
    <2>3. ASSUME NEW i \in 1 .. n PROVE \E k \in 1 .. c : f[k] = i
      <3>1. PICK q \in I : m[q - 1][1] = i
        BY <1>12
      <3>2. PICK k \in 1 .. c : g[k] = q
        BY <1>16
      <3> QED BY <3>1, <3>2
    <2>4. f \in [1 .. c -> 1 .. n]
      BY <2>1
    <2> HIDE DEF f
    <2> QED BY <2>2, <2>3, <2>4 DEF Enlists
  <1>18. PICK h : h = [k \in 1 .. n |-> k] /\ Enlists(h, n, 1 .. n)
    <2>1. Enlists([k \in 1 .. n |-> k], n, 1 .. n)
      BY DEF Enlists
    <2> QED BY <2>1
  <1>19. c = n /\ \A k \in 1 .. n : f[k] = k
    <2>0. PICK a : a = f
      OBVIOUS
    <2>b. PICK b : b = 1 .. n
      OBVIOUS
    <2> HIDE DEF f
    <2>1. a = f /\ b \in SUBSET Nat /\ Enlists(a, c, b) /\ Enlists(h, n, b)
      BY <1>17, <1>18, <2>0, <2>b
    <2>2. n \in Nat /\ c \in Nat
      BY <1>1, <1>15 DEF n
    <2>3. c = n
      BY <2>1, <2>2, ListedOnce
    <2>4. \A k \in 1 .. c : a[k] = h[k]
      BY <2>1, <2>2, ListedOnce
    <2> QED BY <1>18, <2>1, <2>3, <2>4
  <1>20. ASSUME NEW i \in 1 .. n PROVE made[i] = StepNodes(list[i])[1] /\ \E q \in DOMAIN ns : ns[q] = made[i]
    <2>1. g[i] \in I /\ made[i] = ns[g[i]] /\ m[g[i] - 1][1] = i /\ m[g[i] - 1][2] = 1
      BY <1>12, <1>16, <1>19
    <2>2. made[i] = parts[i][1]
      BY <1>10, <1>12, <2>1
    <2> QED BY <1>2, <1>12, <2>1, <2>2
  <1> QED BY <1>5, <1>13, <1>19, <1>20 DEF made, I, n, c

\* Edges that start at a step, as they are told apart by the handles of its end states.
LeavesBy(fs, n, k, e) == \A j \in From(fs, n, k) : fs[j] = e

\* A node whose edges are the ones the loader draws for a step makes that step again.
LEMMA ActionAgain ==
    ASSUME NEW ns, NEW es, Drawing(ns, es), Sound(ns, es), ExpressibleIn(ns, es),
           NEW q \in DOMAIN ns, ns[q].id \in Ids,
           NEW ms \in Seq(Nodes), NEW fs \in Seq(Edges), NEW m \in Nodes,
           m.id = ns[q].id, m.ends = ns[q].ends,
           \A e : e \in Elements(fs) /\ e.src = m.id <=> e \in FromStep(StepOf(ns, es, ns[q])),
           \A x \in SteppedIds(ns) : ~IsBlock(ms, x),
           HasRetry(StepOf(ns, es, ns[q])) =>
              resolveRetryTarget(ms, fs, HangEdge(StepOf(ns, es, ns[q]))) =
                 [target |-> StepOf(ns, es, ns[q]).on_failure.next,
                  config |-> StepOf(ns, es, ns[q]).on_failure.config]
    PROVE  Alike(EndLeads(ns, es, ns[q]), EndLeads(ms, fs, m))
  <1> DEFINE n == ns[q]
             L == EndLeads(ns, es, n)
             M == EndLeads(ms, fs, m)
             s == StepOf(ns, es, n)
             I == DirectEnds(L)
             j0 == Min(Failing(n.ends))
             Again(i) == LoadedEdge(n.id, n.ends[i].id, L[i].next)
             hang == HangEdge(s)
             b == s.on_failure
  <1>1. /\ ns \in Seq(Nodes) /\ es \in Seq(Edges) /\ n \in Nodes /\ n.id \in Ids
        /\ HandlesApart(n.ends)
    BY DEF Drawing, Shaped
  <1>2. n.ends \in Seq(EndStates)
    BY <1>1 DEF Nodes
  <1>3. EndStatesOf(s) = n.ends /\ s.id = n.id
    <2> HIDE DEF n
    <2> QED BY <1>1, StepOfTyped DEF StepOf
  <1>4. s.on_failure = OnFailureOf(L)
    <2> HIDE DEF n
    <2> QED BY <1>1, StepParts
  <1>5. \/ ~HasRetry(s) /\ RetriedEnds(L) = {} /\ b = [next |-> NextFrom(L, BadEnds(L)), config |-> None]
        \/ /\ HasRetry(s) /\ BadEnds(L) = {} /\ Failing(n.ends) # {}
           /\ b = [next |-> b.next, config |-> b.config] /\ b.config \in Configs
    BY StepShape
  <1>6. \A i \in DOMAIN L : L[i].config = None => L[i].next \in SteppedIds(ns)
    BY LeadsSound
  <1>7. \A i \in I : /\ i \in DOMAIN n.ends /\ L[i].outcome = n.ends[i].outcome /\ L[i].state = n.ends[i].state
                     /\ L[i].next \in SteppedIds(ns) /\ L[i].config = None
    <2>1. \A i \in DOMAIN L : /\ i \in DOMAIN n.ends /\ L[i].outcome = n.ends[i].outcome
                              /\ L[i].state = n.ends[i].state
      BY DEF EndLeads, Wired, Lead
    <2> HIDE DEF L, n
    <2> QED BY <1>6, <2>1 DEF DirectEnds
  <1>8. /\ Elements(DirectPart(s)) = {Again(i) : i \in I}
        /\ HasRetry(s) => RetryHandle(s, n.ends) = n.ends[j0].id
    BY DirectAgain DEF AgainDirect
  <1>9. DOMAIN M = Wired(fs, m) /\ \A k \in DOMAIN M : M[k] = Lead(ms, fs, m, k)
    BY DEF EndLeads
  <1>10. /\ HasRetry(s) => hang.src = n.id /\ hang.sh = n.ends[j0].id /\ hang.dst = RetryId(n.id)
         /\ \A i \in I : Again(i).src = n.id /\ Again(i).sh = n.ends[i].id /\ Again(i).dst = L[i].next
    BY <1>3, <1>8 DEF HangEdge, Edge, LoadedEdge
  <1>11. /\ m.id = n.id /\ m.ends = n.ends
         /\ \A e : e \in Elements(fs) /\ e.src = n.id <=> e \in FromStep(s)
         /\ \A x \in SteppedIds(ns) : ~IsBlock(ms, x)
         /\ HasRetry(s) => resolveRetryTarget(ms, fs, hang) = [target |-> b.next, config |-> b.config]
    OBVIOUS
  <1>12. \A e : e \in FromStep(s) <=> (\E i \in I : e = Again(i)) \/ (HasRetry(s) /\ e = hang)
    <2>1. \A e : e \in FromStep(s) <=> e \in Elements(DirectPart(s)) \/ (HasRetry(s) /\ e = HangEdge(s))
      BY DEF FromStep
    <2>2. \A e : e \in Elements(DirectPart(s)) <=> \E i \in I : e = Again(i)
      BY <1>8
    <2> HIDE DEF I, s, Again
    <2> QED BY <2>1, <2>2
  <1> HIDE DEF n, L, M, s, I, Again, hang, b
  <1>13. HasRetry(s) => /\ j0 \in DOMAIN n.ends /\ IsFailure(n.ends[j0].outcome) /\ j0 \notin I
    <2>1. SUFFICES ASSUME HasRetry(s)
                   PROVE  j0 \in DOMAIN n.ends /\ IsFailure(n.ends[j0].outcome) /\ j0 \notin I
      OBVIOUS
    <2>2. PICK J : J = Failing(n.ends) /\ J \in SUBSET Nat /\ J # {} /\ J \in SUBSET DOMAIN n.ends
      <3>1. Failing(n.ends) \in SUBSET DOMAIN n.ends
        BY DEF Failing
      <3>2. DOMAIN n.ends \in SUBSET Nat
        BY <1>2, SeqElement
      <3> QED BY <1>5, <2>1, <3>1, <3>2
    <2>3. j0 \in Failing(n.ends) /\ j0 \in DOMAIN n.ends
      BY <2>2, LeastOf
    <2>4. n.ends[j0] \in EndStates
      BY <1>2, <2>3, SeqElement
    <2>5. IsFailure(n.ends[j0].outcome)
      BY <2>3, <2>4, EndOutcome DEF Failing
    <2>6. ASSUME j0 \in I PROVE FALSE
      <3>1. j0 \in BadEnds(L)
        BY <1>7, <2>5, <2>6 DEF BadEnds, I
      <3> QED BY <1>5, <2>1, <3>1
    <2> QED BY <2>3, <2>5, <2>6
  <1> HIDE DEF j0
  <1>14. \A i, k \in DOMAIN n.ends : n.ends[i].id = n.ends[k].id => i = k
    BY <1>1 DEF HandlesApart
  <1>15. ASSUME NEW k \in DOMAIN n.ends
         PROVE  /\ From(fs, m, k) # {} <=> k \in I \/ (HasRetry(s) /\ k = j0)
                /\ k \in I => LeavesBy(fs, m, k, Again(k))
                /\ HasRetry(s) /\ k = j0 => LeavesBy(fs, m, k, hang)
    <2>1. \A j : j \in From(fs, m, k) <=> j \in DOMAIN fs /\ fs[j].src = n.id /\ fs[j].sh = n.ends[k].id
      BY <1>11 DEF From
    <2>2. \A j \in DOMAIN fs : fs[j].src = n.id => (\E i \in I : fs[j] = Again(i)) \/ (HasRetry(s) /\ fs[j] = hang)
      BY <1>11, <1>12 DEF Elements
    <2>3. \A e : (\E i \in I : e = Again(i)) \/ (HasRetry(s) /\ e = hang) => \E j \in DOMAIN fs : fs[j] = e
      BY <1>11, <1>12 DEF Elements
    <2>4. ASSUME NEW j \in From(fs, m, k)
          PROVE  (k \in I /\ fs[j] = Again(k)) \/ (HasRetry(s) /\ k = j0 /\ fs[j] = hang)
      <3>1. j \in DOMAIN fs /\ fs[j].src = n.id /\ fs[j].sh = n.ends[k].id
        BY <2>1
      <3>2. ASSUME NEW i \in I, fs[j] = Again(i) PROVE k \in I /\ fs[j] = Again(k)
        <4>1. n.ends[i].id = n.ends[k].id /\ i \in DOMAIN n.ends
          BY <1>7, <1>10, <3>1, <3>2
        <4>2. i = k
          BY <1>14, <4>1
        <4> QED BY <3>2, <4>2
      <3>3. ASSUME HasRetry(s), fs[j] = hang PROVE k = j0
        BY <1>10, <1>13, <1>14, <3>1, <3>3
      <3> QED BY <2>2, <3>1, <3>2, <3>3
    <2>5. k \in I => From(fs, m, k) # {}
      <3>1. SUFFICES ASSUME k \in I PROVE From(fs, m, k) # {}
        OBVIOUS
      <3>2. PICK j \in DOMAIN fs : fs[j] = Again(k)
        BY <2>3, <3>1
      <3>3. j \in From(fs, m, k)
        BY <1>10, <2>1, <3>1, <3>2
      <3> QED BY <3>3
    <2>6. HasRetry(s) /\ k = j0 => From(fs, m, k) # {}
      <3>1. SUFFICES ASSUME HasRetry(s), k = j0 PROVE From(fs, m, k) # {}
        OBVIOUS
      <3>2. PICK j \in DOMAIN fs : fs[j] = hang
        BY <2>3, <3>1
      <3>3. j \in From(fs, m, k)
        BY <1>10, <2>1, <3>1, <3>2
      <3> QED BY <3>3
    <2> QED BY <1>13, <2>4, <2>5, <2>6 DEF LeavesBy
  <1>16. \A k \in DOMAIN n.ends : \A e : From(fs, m, k) # {} /\ LeavesBy(fs, m, k, e) =>
            FirstAt(fs, From(fs, m, k)) = e
    <2>1. SUFFICES ASSUME NEW k \in DOMAIN n.ends, NEW e, From(fs, m, k) # {}, LeavesBy(fs, m, k, e)
                   PROVE  FirstAt(fs, From(fs, m, k)) = e
      OBVIOUS
    <2>2. From(fs, m, k) \in SUBSET Nat
      BY SeqElement DEF From
    <2>3. PICK j \in From(fs, m, k) : FirstAt(fs, From(fs, m, k)) = fs[j]
      BY <2>1, <2>2, FirstAtIn
    <2> QED BY <2>1, <2>3 DEF LeavesBy
  <1>17. \A k : k \in DOMAIN M <=> k \in I \/ (HasRetry(s) /\ k = j0)
    BY <1>7, <1>9, <1>11, <1>13, <1>15 DEF Wired
  <1>18. ASSUME NEW k \in I
         PROVE  M[k].config = None /\ M[k].outcome = L[k].outcome /\ M[k].state = L[k].state /\ M[k].next = L[k].next
    <2>1. k \in DOMAIN n.ends /\ k \in DOMAIN M
      BY <1>7, <1>17
    <2>2. FirstAt(fs, From(fs, m, k)) = Again(k)
      BY <1>15, <1>16, <2>1
    <2>3. Again(k) \in Edges /\ Again(k).dst = L[k].next /\ ~IsBlock(ms, Again(k).dst)
      <3>1. From(fs, m, k) # {} /\ LeavesBy(fs, m, k, Again(k))
        BY <1>15, <2>1
      <3>2. PICK j \in From(fs, m, k) : fs[j] = Again(k)
        BY <3>1 DEF LeavesBy
      <3>3. Again(k) \in Edges
        BY <3>2 DEF From
      <3> QED BY <1>7, <1>10, <1>11, <3>3
    <2> DEFINE e == Again(k)
               r == resolveRetryTarget(ms, fs, e)
    <2>4. r.config = None /\ r.target = e.dst
      BY <2>3, RetryTarget
    <2>5. M[k] = [outcome |-> n.ends[k].outcome, state |-> n.ends[k].state,
                  next |-> IF r.target = None THEN e.dst ELSE r.target, target |-> r.target,
                  config |-> IF IsFailure(n.ends[k].outcome) THEN r.config ELSE None]
      BY <1>9, <1>11, <2>1, <2>2 DEF Lead
    <2> HIDE DEF r
    <2> QED BY <1>7, <2>3, <2>4, <2>5
  <1>19. HasRetry(s) => /\ M[j0].config = b.config /\ M[j0].target = b.next
                        /\ M[j0].config # None /\ M[j0].config \in Configs
    <2>1. SUFFICES ASSUME HasRetry(s)
                   PROVE  M[j0].config = b.config /\ M[j0].target = b.next /\ M[j0].config # None /\ M[j0].config \in Configs
      OBVIOUS
    <2>2. j0 \in DOMAIN n.ends /\ j0 \in DOMAIN M /\ IsFailure(n.ends[j0].outcome)
      BY <1>13, <1>17, <2>1
    <2>3. FirstAt(fs, From(fs, m, j0)) = hang
      BY <1>15, <1>16, <2>1, <2>2
    <2> DEFINE r == resolveRetryTarget(ms, fs, hang)
    <2>4. r.target = b.next /\ r.config = b.config
      BY <1>11, <2>1
    <2>5. M[j0] = [outcome |-> n.ends[j0].outcome, state |-> n.ends[j0].state,
                   next |-> IF r.target = None THEN hang.dst ELSE r.target, target |-> r.target,
                   config |-> IF IsFailure(n.ends[j0].outcome) THEN r.config ELSE None]
      BY <1>9, <1>11, <2>2, <2>3 DEF Lead
    <2> HIDE DEF r
    <2>6. b.config \in Configs /\ b.config # None
      BY <1>5, <2>1, NullAssumption
    <2> QED BY <2>2, <2>4, <2>5, <2>6
  <1>20. DirectEnds(M) = I
    BY <1>13, <1>17, <1>18, <1>19 DEF DirectEnds
  <1>21. BadEnds(M) = BadEnds(L)
    <2>1. \A k : k \in BadEnds(M) <=> k \in I /\ IsFailure(M[k].outcome)
      BY <1>20 DEF BadEnds
    <2>2. \A k : k \in BadEnds(L) <=> k \in I /\ IsFailure(L[k].outcome)
      BY DEF BadEnds, I
    <2> QED BY <1>18, <2>1, <2>2
  <1>22. NextFrom(M, BadEnds(M)) = NextFrom(L, BadEnds(L))
    <2>1. BadEnds(L) \in SUBSET I
      BY DEF BadEnds, I
    <2>2. BadEnds(L) # {} => Min(BadEnds(L)) \in BadEnds(L)
      <3>1. BadEnds(L) \in SUBSET Nat
        BY <1>2, <1>7, <2>1, SeqElement
      <3> QED BY <3>1, LeastOf
    <2>3. BadEnds(L) # {} => M[Min(BadEnds(L))].next = L[Min(BadEnds(L))].next
      BY <1>18, <2>1, <2>2
    <2> QED BY <1>21, <2>3 DEF NextFrom
  <1>23. OnFailureOf(M) = b
    <2>1. CASE ~HasRetry(s)
      <3>1. RetriedEnds(M) = {}
        BY <1>17, <1>18, <2>1 DEF RetriedEnds
      <3> QED BY <1>5, <1>22, <2>1, <3>1 DEF OnFailureOf
    <2>2. CASE HasRetry(s)
      <3>1. RetriedEnds(M) = {j0}
        <4>1. \A k : k \in RetriedEnds(M) <=> k \in DOMAIN M /\ M[k].config # None
          BY DEF RetriedEnds
        <4>2. \A k : k \in RetriedEnds(M) <=> k = j0
          BY <1>13, <1>17, <1>18, <1>19, <2>2, <4>1
        <4> QED BY <4>2
      <3>2. Min(RetriedEnds(M)) = j0
        <4>1. PICK J : J = RetriedEnds(M) /\ J \in SUBSET Nat /\ J # {}
          <5>1. j0 \in Nat
            BY <1>2, <1>13, <2>2, SeqElement
          <5> QED BY <3>1, <5>1
        <4>2. Min(J) \in J
          BY <4>1, LeastOf
        <4> QED BY <3>1, <4>1, <4>2
      <3>3. NextFrom(M, BadEnds(M)) = None
        BY <1>5, <1>21, <2>2 DEF NextFrom
      <3>4. RetriedEnds(M) # {}
        BY <3>1
      <3>5. OnFailureOf(M) = [next |-> IF M[j0].target = None THEN NextFrom(M, BadEnds(M)) ELSE M[j0].target,
                              config |-> M[j0].config]
        BY <3>2, <3>4 DEF OnFailureOf
      <3>6. OnFailureOf(M) = [next |-> b.next, config |-> b.config]
        BY <1>19, <2>2, <3>3, <3>5
      <3> QED BY <1>5, <2>2, <3>6
    <2> QED BY <2>1, <2>2
  <1>24. \A i \in I : Transition(M[i]) = Transition(L[i])
    BY <1>18 DEF Transition
  <1>25. Alike(L, M)
    <2>1. OnFailureOf(M) = OnFailureOf(L)
      BY <1>4, <1>23 DEF b
    <2>2. DirectEnds(M) = DirectEnds(L) /\ \A i \in DirectEnds(L) : Transition(M[i]) = Transition(L[i])
      BY <1>20, <1>24 DEF I
    <2> QED BY <2>1, <2>2 DEF Alike
  <1> QED BY <1>25 DEF L, M, n

\* The retry blocks of a loaded drawing: those of the steps that have one.
LEMMA LoadedBlocks ==
    ASSUME NEW list, NEW from, StepsTyped(list)
    PROVE  LET ns == convertActionGraphToGraph(list, from).nodes
           IN /\ \A x \in Ids : ~IsBlock(ns, x)
              /\ \A i \in DOMAIN list : Retried(list[i]) => IsBlock(ns, RetryId(list[i].id))
              /\ \A i \in DOMAIN list : \A p \in DOMAIN ns :
                    ns[p].type = "retry" /\ ns[p].id = RetryId(list[i].id) =>
                       /\ Retried(list[i])
                       /\ ns[p].retry = list[i].on_failure.config.retry
                       /\ ns[p].backoff = list[i].on_failure.config.backoff
  <1> DEFINE ns == convertActionGraphToGraph(list, from).nodes
             parts == [i \in DOMAIN list |-> StepNodes(list[i])]
  <1>1. /\ \A q \in DOMAIN ns : \/ ns[q] = StartNode
                                \/ \E i \in DOMAIN list : \E k \in DOMAIN parts[i] : ns[q] = parts[i][k]
        /\ \A i \in DOMAIN list : \A k \in DOMAIN parts[i] : parts[i][k] \in Elements(ns)
    <2> DEFINE made == << StartNode >> \o Flatten(parts)
    <2>1. /\ \A q \in DOMAIN made : \/ made[q] = StartNode
                                    \/ \E i \in DOMAIN list : \E k \in DOMAIN parts[i] : made[q] = parts[i][k]
          /\ \A i \in DOMAIN list : \A k \in DOMAIN parts[i] : parts[i][k] \in Elements(made)
      BY LoadedNodes
    <2>2. ns = made
      BY DEF convertActionGraphToGraph
    <2> HIDE DEF made, ns, parts
    <2> QED BY <2>1, <2>2
  <1>2. /\ \A i \in DOMAIN list : /\ list[i] \in ActionSteps \cup TerminalSteps /\ list[i].id \in Ids
                                  /\ list[i].type = "action" => HandlesApart(EndStatesOf(list[i]))
        /\ \A i, j \in DOMAIN list : list[i].id = list[j].id => i = j
    BY DEF StepsTyped, ActionSteps, TerminalSteps
  <1>3. \A i \in DOMAIN list : parts[i] = StepNodes(list[i])
    OBVIOUS
  <1>4. StartNode.type # "retry"
    BY StartShaped
  <1> HIDE DEF ns, parts
  <1>5. \A i \in DOMAIN list :
           \A k \in DOMAIN parts[i] : k # 1 => /\ k = 2 /\ Retried(list[i])
                                               /\ parts[i][k].id = RetryId(list[i].id) /\ parts[i][k].type = "retry"
    BY <1>2, <1>3, StepNodesOf
  <1>6. \A i \in DOMAIN list : Retried(list[i]) => /\ parts[i][2].retry = list[i].on_failure.config.retry
                                                   /\ parts[i][2].backoff = list[i].on_failure.config.backoff
    BY <1>2, <1>3, StepNodesMade
  <1>11. \A i \in DOMAIN list : parts[i][1].type # "retry" /\ (Retried(list[i]) => 2 \in DOMAIN parts[i])
    BY <1>2, <1>3, StepNodesOf
  <1>7. ASSUME NEW p \in DOMAIN ns, ns[p].type = "retry"
        PROVE  \E i \in DOMAIN list : Retried(list[i]) /\ ns[p] = parts[i][2] /\ ns[p].id = RetryId(list[i].id)
    <2>0. PICK i \in DOMAIN list : \E k \in DOMAIN parts[i] : ns[p] = parts[i][k]
      BY <1>1, <1>4, <1>7
    <2>1. PICK k \in DOMAIN parts[i] : ns[p] = parts[i][k]
      BY <2>0
    <2>2. k # 1
      BY <1>11, <1>7, <2>1
    <2> QED BY <1>5, <2>1, <2>2
  <1>8. \A x \in Ids : ~IsBlock(ns, x)
    BY <1>2, <1>7, RetryIds DEF IsBlock
  <1>9. ASSUME NEW i \in DOMAIN list, Retried(list[i]) PROVE IsBlock(ns, RetryId(list[i].id))
    <2>1. 2 \in DOMAIN parts[i] /\ parts[i][2].type = "retry" /\ parts[i][2].id = RetryId(list[i].id)
      BY <1>5, <1>11, <1>9
    <2>2. \E p \in DOMAIN ns : ns[p] = parts[i][2]
      BY <1>1, <2>1 DEF Elements
    <2> QED BY <2>1, <2>2 DEF IsBlock
  <1>10. ASSUME NEW i \in DOMAIN list, NEW p \in DOMAIN ns, ns[p].type = "retry", ns[p].id = RetryId(list[i].id)
         PROVE  /\ Retried(list[i])
                /\ ns[p].retry = list[i].on_failure.config.retry
                /\ ns[p].backoff = list[i].on_failure.config.backoff
    <2>1. PICK j \in DOMAIN list : Retried(list[j]) /\ ns[p] = parts[j][2] /\ ns[p].id = RetryId(list[j].id)
      BY <1>7, <1>10
    <2>2. i = j
      BY <1>2, <1>10, <2>1, RetryIds
    <2> QED BY <1>6, <2>1, <2>2
  <1> QED BY <1>8, <1>9, <1>10 DEF ns

\* The retry block of a loaded step leads where it led.
LEMMA BackAgain ==
    ASSUME NEW fs \in Seq(Edges), NEW step \in ActionSteps, NEW ids \in SUBSET Ids, HasRetry(step),
           \A e : e \in Elements(fs) /\ e.src = RetryId(step.id) <=> e \in FromBlock(step, ids),
           step.on_failure.next \in (ids \cup {None}) \ {step.id}
    PROVE  resolveRetryEdge(fs, RetryId(step.id), step.id) = step.on_failure.next
  <1> DEFINE block == RetryId(step.id)
             back == step.on_failure.next
             Out(ports) == {i \in DOMAIN fs : fs[i].src = block /\ fs[i].sh \in ports}
             legacy == {i \in Out({None, StateOut}) : fs[i].dst # step.id}
             I == IF Out({RetryFailed}) # {} THEN Out({RetryFailed})
                  ELSE IF Out({RetryWarning}) # {} THEN Out({RetryWarning}) ELSE legacy
             loop == LoopEdge(step)
             last == BackEdge(step)
  <1>1. resolveRetryEdge(fs, block, step.id) = IF I = {} THEN None ELSE FirstAt(fs, I).dst
    BY DEF resolveRetryEdge
  <1>2. \A e : e \in FromBlock(step, ids) <=> e = loop \/ (back # None /\ e = last)
    <2>1. None \notin Ids /\ back \in (ids \cup {None}) \ {step.id}
      BY GraphAssumption
    <2> QED BY <2>1 DEF FromBlock
  <1>3. /\ loop.src = block /\ loop.sh = RetryOut
        /\ last.src = block /\ last.sh = RetryFailed /\ last.dst = back
    BY DEF LoopEdge, BackEdge, Edge
  <1>4. /\ RetryOut \notin {RetryFailed, RetryWarning, None, StateOut}
        /\ RetryFailed \notin {RetryWarning, None, StateOut}
    <2>1. RetryOut \in Handles /\ RetryFailed \in Handles
      BY PortsKnown
    <2>2. RetryOut # None /\ RetryFailed # None
      BY <2>1, NullAssumption
    <2> QED BY <2>2 DEF RetryOut, RetryFailed, RetryWarning, StateOut, Port
  <1>5. \A i \in DOMAIN fs : fs[i].src = block => fs[i] = loop \/ (back # None /\ fs[i] = last)
    BY <1>2 DEF Elements
  <1>6. back # None => \E i \in DOMAIN fs : fs[i] = last
    BY <1>2 DEF Elements
  <1> HIDE DEF loop, last, block, back
  <1>7. \A i : i \in Out({RetryFailed}) <=> i \in DOMAIN fs /\ back # None /\ fs[i] = last
    BY <1>3, <1>4, <1>5
  <1>8. Out({RetryWarning}) = {} /\ Out({None, StateOut}) = {}
    BY <1>3, <1>4, <1>5
  <1>9. I = Out({RetryFailed})
    BY <1>8
  <1>10. CASE back = None
    <2>1. I = {}
      BY <1>7, <1>9, <1>10
    <2> HIDE DEF I
    <2> QED BY <1>1, <1>10, <2>1 DEF block, back
  <1>11. CASE back # None
    <2>1. I # {} /\ \A i \in I : i \in DOMAIN fs /\ fs[i] = last
      BY <1>6, <1>7, <1>9, <1>11
    <2> HIDE DEF I
    <2>2. I \in SUBSET Nat
      BY <2>1, SeqElement
    <2>3. FirstAt(fs, I) = last
      BY <2>1, <2>2, FirstAtIn
    <2> QED BY <1>1, <1>3, <2>1, <2>3 DEF block, back
  <1> QED BY <1>10, <1>11

\* So an edge into that block stands for what the step says of failure.
LEMMA TargetAgain ==
    ASSUME NEW ms \in Seq(Nodes), NEW fs \in Seq(Edges), NEW step \in ActionSteps, NEW ids \in SUBSET Ids,
           HasRetry(step), step.on_failure.config \in Configs,
           \A e : e \in Elements(fs) /\ e.src = RetryId(step.id) <=> e \in FromBlock(step, ids),
           step.on_failure.next \in (ids \cup {None}) \ {step.id},
           IsBlock(ms, RetryId(step.id)),
           \A p \in DOMAIN ms : ms[p].type = "retry" /\ ms[p].id = RetryId(step.id) =>
              ms[p].retry = step.on_failure.config.retry /\ ms[p].backoff = step.on_failure.config.backoff
    PROVE  resolveRetryTarget(ms, fs, HangEdge(step)) =
              [target |-> step.on_failure.next, config |-> step.on_failure.config]
  <1> DEFINE e == HangEdge(step)
             c == step.on_failure.config
  <1>1. e.src = step.id /\ e.dst = RetryId(step.id)
    BY DEF HangEdge, Edge
  <1>2. c = [retry |-> c.retry, backoff |-> c.backoff]
    BY DEF Configs
  <1>3. resolveRetryEdge(fs, RetryId(step.id), step.id) = step.on_failure.next
    BY BackAgain
  <1> HIDE DEF e, c
  <1>4. PICK p \in DOMAIN ms :
           /\ ms[p].type = "retry" /\ ms[p].id = e.dst
           /\ resolveRetryTarget(ms, fs, e) = [target |-> resolveRetryEdge(fs, e.dst, e.src),
                                               config |-> [retry |-> ms[p].retry, backoff |-> ms[p].backoff]]
    BY <1>1, BlockTarget
  <1>5. ms[p].retry = c.retry /\ ms[p].backoff = c.backoff
    BY <1>1, <1>4 DEF c
  <1> QED BY <1>1, <1>2, <1>3, <1>4, <1>5 DEF e, c

\* A terminal step that was compiled is loaded as the node it was made of.
LEMMA TerminalAgain ==
    ASSUME NEW n, n.sub \in Terminals, NEW m, m.id = n.id, m.sub = terminalStepToEventSubtype(TerminalStep(n))
    PROVE  TerminalStep(m) = TerminalStep(n)
  <1>1. /\ TerminalStep(n).terminal_type = (IF n.sub = "Error" THEN "failure" ELSE "success")
        /\ TerminalStep(n).alert = (n.sub \in {"Error", "Warning"})
    BY DEF TerminalStep, eventSubtypeToTerminalPayload
  <1>2. m.sub = n.sub
    BY <1>1 DEF terminalStepToEventSubtype, Terminals
  <1> QED BY <1>2 DEF TerminalStep

\* A compiled step is the step of the node it is loaded as.
LEMMA StepAgain ==
    ASSUME NEW ns, NEW es, Drawing(ns, es), Sound(ns, es), ExpressibleIn(ns, es),
           NEW list, NEW from, list = convertGraphToSteps(ns, es).steps, NEW i \in DOMAIN list
    PROVE  LET g == convertActionGraphToGraph(list, from)
           IN StepFor(g.nodes, g.edges, StepNodes(list[i])[1]) = list[i]
  <1> DEFINE g == convertActionGraphToGraph(list, from)
             ms == g.nodes
             fs == g.edges
             m == StepNodes(list[i])[1]
             s == list[i]
             ids == StepIds(list)
  <1>1. ns \in Seq(Nodes) /\ es \in Seq(Edges) /\ ~ChainedIn(ns, es)
    BY DEF Drawing, ExpressibleIn
  <1>2. /\ StepsTyped(list) /\ ids = SteppedIds(ns) /\ StepsResolve(list)
        /\ \E q \in DOMAIN ns : Stepped(ns[q]) /\ s = StepFor(ns, es, ns[q])
    BY <1>1, CompiledSteps, CompiledResolve
  <1>3. PICK q \in DOMAIN ns : Stepped(ns[q]) /\ s = StepFor(ns, es, ns[q])
    BY <1>2
  <1>4. ns[q] \in Nodes /\ Shaped(ns[q])
    BY <1>1, SeqElement DEF Drawing
  <1>5. ms \in Seq(Nodes) /\ fs \in Seq(Edges)
    BY <1>2, LoadedDrawing DEF Drawing
  <1>7. s \in ActionSteps \cup TerminalSteps /\ (s.type = "action" => HandlesApart(EndStatesOf(s)))
    BY <1>2 DEF StepsTyped
  <1>8. /\ m \in Nodes /\ m.id = s.id
        /\ s.type = "terminal" => m.type = "event" /\ m.sub = terminalStepToEventSubtype(s)
        /\ s.type = "action" => m.type = "action" /\ m.success = s.success /\ m.failure = s.failure /\ m.ends = EndStatesOf(s)
    <2>1. /\ StepNodes(s) \in Seq(Nodes) /\ 1 \in DOMAIN StepNodes(s) /\ m.id = s.id
          /\ s.type = "action" => m.ends = EndStatesOf(s)
      BY <1>7, StepNodesOf
    <2>2. /\ s.type = "terminal" => m.type = "event" /\ m.sub = terminalStepToEventSubtype(s)
          /\ s.type = "action" => m.type = "action" /\ m.success = s.success /\ m.failure = s.failure
      BY <1>7, StepNodesMade
    <2>3. m \in Nodes
      BY <2>1, SeqElement
    <2> HIDE DEF m, s
    <2> QED BY <2>1, <2>2, <2>3
  <1>9. CASE ns[q].type = "event"
    <2>1. s = TerminalStep(ns[q]) /\ ns[q].sub \in Terminals
      BY <1>3, <1>9 DEF StepFor, Stepped
    <2>2. s.type = "terminal" /\ s.id = ns[q].id
      BY <2>1 DEF TerminalStep
    <2> HIDE DEF m, s
    <2>3. TerminalStep(m) = TerminalStep(ns[q])
      BY <1>8, <2>1, <2>2, TerminalAgain
    <2>4. StepFor(ms, fs, m) = TerminalStep(m)
      BY <1>8, <2>2 DEF StepFor
    <2> QED BY <2>1, <2>3, <2>4 DEF m, s
  <1>10. CASE ns[q].type # "event"
    <2>1. s = StepOf(ns, es, ns[q]) /\ ns[q].type = "action"
      BY <1>3, <1>10 DEF StepFor, Stepped
    <2>2. ns[q].id \in Ids /\ HandlesApart(ns[q].ends)
      BY <1>4, <2>1 DEF Shaped
    <2>3. s \in ActionSteps /\ EndStatesOf(s) = ns[q].ends
      BY <1>1, <1>4, <2>1, <2>2, StepOfTyped
    <2>4. s.type = "action" /\ s.id = ns[q].id
      BY <2>1 DEF StepOf
    <2>5. /\ \A e : e \in Elements(fs) /\ e.src = s.id <=> e \in FromStep(s)
          /\ \A e : e \in Elements(fs) /\ e.src = RetryId(s.id) <=> e \in FromBlock(s, ids)
      <3>1. /\ {e \in Elements(fs) : e.src = s.id} = FromStep(s)
            /\ {e \in Elements(fs) : e.src = RetryId(s.id)} = FromBlock(s, ids)
        BY <1>2, <2>4, LoadedFrom
      <3> HIDE DEF s, fs, ids
      <3> QED BY <3>1
    <2>6. /\ \A x \in Ids : ~IsBlock(ms, x)
          /\ Retried(s) => IsBlock(ms, RetryId(s.id))
          /\ \A p \in DOMAIN ms : ms[p].type = "retry" /\ ms[p].id = RetryId(s.id) =>
                ms[p].retry = s.on_failure.config.retry /\ ms[p].backoff = s.on_failure.config.backoff
      BY <1>2, LoadedBlocks
    <2>7. SteppedIds(ns) \in SUBSET Ids
      BY SteppedIn
    <2>8. HasRetry(s) => s.on_failure.config \in Configs /\ s.on_failure.next \in (ids \cup {None}) \ {s.id}
      <3>1. HasRetry(StepOf(ns, es, ns[q])) =>
               /\ StepOf(ns, es, ns[q]).on_failure.config \in Configs
               /\ StepOf(ns, es, ns[q]).on_failure.next \in (SteppedIds(ns) \cup {None}) \ {ns[q].id}
        BY <2>2, StepShape
      <3> HIDE DEF s, ids
      <3> QED BY <1>2, <2>1, <2>4, <3>1
    <2>9. HasRetry(s) => resolveRetryTarget(ms, fs, HangEdge(s)) =
                            [target |-> s.on_failure.next, config |-> s.on_failure.config]
      <3>1. SUFFICES ASSUME HasRetry(s)
                     PROVE  resolveRetryTarget(ms, fs, HangEdge(s)) =
                               [target |-> s.on_failure.next, config |-> s.on_failure.config]
        OBVIOUS
      <3>2. IsBlock(ms, RetryId(s.id))
        BY <2>4, <2>6, <3>1 DEF Retried
      <3>3. ids \in SUBSET Ids
        BY <1>2, <2>7
      <3> HIDE DEF s, ms, fs, ids
      <3> QED BY <1>5, <2>3, <2>5, <2>6, <2>8, <3>1, <3>2, <3>3, TargetAgain
    <2>10. /\ m \in Nodes /\ m.id = ns[q].id /\ m.ends = ns[q].ends /\ m.type = "action"
           /\ m.success = s.success /\ m.failure = s.failure
      <3> HIDE DEF m, s
      <3> QED BY <1>8, <2>3, <2>4
    <2> HIDE DEF m, s, ms, fs, ids
    <2>11. Alike(EndLeads(ns, es, ns[q]), EndLeads(ms, fs, m))
      BY <1>5, <2>1, <2>2, <2>4, <2>5, <2>6, <2>7, <2>9, <2>10, ActionAgain
    <2>12. StepOf(ms, fs, m) = StepOf(ns, es, ns[q])
      BY <1>1, <1>4, <1>5, <2>1, <2>10, <2>11, StepAgrees
    <2>13. StepFor(ms, fs, m) = s
      BY <2>1, <2>10, <2>12 DEF StepFor
    <2> QED BY <2>13 DEF m, s, ms, fs
  <1> QED BY <1>9, <1>10

\* What is compiled, loaded and compiled again is the same.
LEMMA CompiledAgain ==
    ASSUME NEW ns, NEW es, Drawing(ns, es), Sound(ns, es), ExpressibleIn(ns, es)
    PROVE  LET made == convertGraphToSteps(ns, es)
               g == convertActionGraphToGraph(made.steps, made.entry)
           IN convertGraphToSteps(g.nodes, g.edges) = made
  <1> DEFINE made == convertGraphToSteps(ns, es)
             list == made.steps
             from == made.entry
             ids == StepIds(list)
             g == convertActionGraphToGraph(list, from)
             ms == g.nodes
             fs == g.edges
             heads == At(ms, {q \in DOMAIN ms : Stepped(ms[q])})
             again == convertGraphToSteps(ms, fs)
             steps == [i \in DOMAIN heads |-> IF heads[i].type = "event" THEN TerminalStep(heads[i])
                                              ELSE StepOf(ms, fs, heads[i])]
             entries == {k \in DOMAIN fs : fs[k].src = Start}
             first == FirstAt(fs, entries)
             old == {k \in DOMAIN es : es[k].src = Start}
  <1>1. ~ChainedIn(ns, es)
    BY DEF ExpressibleIn
  <1>2. StepsTyped(list) /\ StepsResolve(list) /\ from \in ids \cup {None}
    BY <1>1, CompiledSteps, CompiledResolve
  <1>3. made = [steps |-> list, entry |-> from]
        /\ from = IF old # {} /\ \E i \in DOMAIN list : list[i].id = FirstAt(es, old).dst
                  THEN FirstAt(es, old).dst ELSE IF list = <<>> THEN None ELSE list[1].id
    BY DEF convertGraphToSteps
  <1>4. again = [steps |-> steps,
                 entry |-> IF entries # {} /\ \E i \in DOMAIN steps : steps[i].id = first.dst
                           THEN first.dst ELSE IF steps = <<>> THEN None ELSE steps[1].id]
    BY DEF convertGraphToSteps, Filter
  <1>5. \A i \in DOMAIN list : StepFor(ms, fs, StepNodes(list[i])[1]) = list[i]
    BY StepAgain
  <1>6. /\ heads \in Seq(Nodes) /\ Len(heads) = Len(list)
        /\ \A i \in 1 .. Len(list) : heads[i] = StepNodes(list[i])[1]
    <2> HIDE DEF list, from
    <2>1. StepsTyped(list)
      BY <1>2
    <2>2. LET ns2 == convertActionGraphToGraph(list, from).nodes
              made2 == At(ns2, {q \in DOMAIN ns2 : Stepped(ns2[q])})
          IN /\ made2 \in Seq(Nodes) /\ Len(made2) = Len(list)
             /\ \A i \in 1 .. Len(list) : made2[i] = StepNodes(list[i])[1]
      BY <2>1, LoadedStepped
    <2> QED BY <2>2
  <1>7. /\ list \in Seq(ActionSteps \cup TerminalSteps) /\ Len(list) \in Nat /\ DOMAIN list = 1 .. Len(list)
        /\ \A i \in DOMAIN list : list[i].id \in Ids
    BY <1>2 DEF StepsTyped, ActionSteps, TerminalSteps
  <1>8. fs \in Seq(Edges)
    BY <1>2, LoadedDrawing DEF Drawing
  <1>9. {e \in Elements(fs) : e.src = Start} = EntryEdges(EntryOf(list, from))
    BY <1>2, LoadedFrom
  <1> HIDE DEF made, list, from, g, heads, again, entries, old
  <1>10. steps = list
    <2>1. DOMAIN heads = DOMAIN list
      BY <1>6, <1>7
    <2>2. \A i \in DOMAIN list : steps[i] = list[i]
      BY <1>5, <1>6, <1>7, <2>1 DEF StepFor
    <2>3. list = [i \in DOMAIN list |-> list[i]] /\ steps = [i \in DOMAIN list |-> steps[i]]
      BY <1>7, <2>1
    <2> HIDE DEF steps
    <2> QED BY <2>2, <2>3
  <1> HIDE DEF steps
  <1>11. list # <<>> => from \in ids
    <2>1. list # <<>> => 1 \in DOMAIN list
      BY <1>7
    <2> QED BY <1>3, <2>1 DEF StepIds
  <1>12. list = <<>> => ids = {}
    BY DEF StepIds
  <1>13. EntryOf(list, from) = from
    BY <1>2, <1>11, <1>12 DEF EntryOf
  <1>14. \A k \in entries : from # None /\ fs[k] = LoadedEdge(Start, StateOut, from)
    BY <1>9, <1>13 DEF EntryEdges, entries, Elements
  <1>15. from # None => entries # {}
    <2>1. from # None => LoadedEdge(Start, StateOut, from) \in {e \in Elements(fs) : e.src = Start}
      BY <1>9, <1>13 DEF EntryEdges
    <2> QED BY <2>1 DEF entries, Elements
  <1>16. entries # {} => first.dst = from
    <2>1. SUFFICES ASSUME entries # {} PROVE first.dst = from
      OBVIOUS
    <2>2. entries \in SUBSET Nat
      BY <1>8, SeqElement DEF entries
    <2>3. PICK k \in entries : first = fs[k]
      BY <2>1, <2>2, FirstAtIn
    <2> QED BY <1>14, <2>3 DEF LoadedEdge, Edge
  <1>17. again.entry = from
    <2>1. CASE from = None
      <3>1. list = <<>>
        <4>1. None \notin ids
          BY <1>7, GraphAssumption DEF StepIds
        <4> QED BY <1>11, <2>1, <4>1
      <3>2. entries = {}
        BY <1>14, <2>1
      <3> HIDE DEF first
      <3> QED BY <1>4, <1>10, <2>1, <3>1, <3>2
    <2>2. CASE from # None
      <3>1. entries # {} /\ first.dst = from
        BY <1>15, <1>16, <2>2
      <3>2. \E i \in DOMAIN steps : steps[i].id = from
        BY <1>2, <1>10, <2>2 DEF StepIds
      <3> HIDE DEF first
      <3> QED BY <1>4, <3>1, <3>2
    <2> QED BY <2>1, <2>2
  <1>18. again = [steps |-> list, entry |-> from]
    <2> HIDE DEF first
    <2> QED BY <1>4, <1>10, <1>17
  <1>19. again = made
    BY <1>3, <1>18
  <1> QED BY <1>19 DEF again, made, g, list, from

\* The invariant and what is saved and loaded.
LEMMA GraphRoundTrip == ASSUME GraphInv PROVE RoundTrip
  <1>1. SUFFICES ASSUME ~chainSaved, Expressible
                 PROVE  LET made == convertGraphToSteps(nodes, edges)
                            g == convertActionGraphToGraph(made.steps, made.entry)
                        IN convertGraphToSteps(g.nodes, g.edges) = made
    BY DEF RoundTrip, Compiled
  <1>2. Drawing(nodes, edges) /\ Sound(nodes, edges)
    BY <1>1 DEF GraphInv
  <1>3. \A x : x \in Blocks <=> IsBlock(nodes, x)
    BY DEF Blocks, IsBlock, Elements
  <1>4. ~ChainedIn(nodes, edges)
    BY <1>1, <1>3 DEF Expressible, Chained, ChainedIn, Elements
  <1>5. \A q \in DOMAIN nodes : /\ ToldApart(nodes[q].ends)
                                /\ nodes[q].type = "retry" => nodes[q].retry > 0 \/ nodes[q].backoff > 0
    BY <1>1 DEF Expressible, Elements
  <1>6. ASSUME NEW q \in DOMAIN nodes, NEW k \in DOMAIN edges, edges[k].src = nodes[q].id, IsBlock(nodes, edges[k].dst)
        PROVE  /\ \A j \in DOMAIN edges : edges[j].src = nodes[q].id /\ Outcome(nodes[q], edges[j].sh) \notin {None, "success"} =>
                     edges[j].dst = edges[k].dst
               /\ resolveRetryEdge(edges, edges[k].dst, nodes[q].id) # nodes[q].id
    <2> DEFINE Used(n) == {e.dst : e \in {f \in Elements(edges) : f.src = n.id /\ f.dst \in Blocks}}
               n == nodes[q]
               b == edges[k].dst
    <2>1. \A p \in {m \in Elements(nodes) : Used(m) # {}} :
            /\ \A e \in Elements(edges) : e.src = p.id /\ Outcome(p, e.sh) \notin {None, "success"} => {e.dst} = Used(p)
            /\ \A d \in Used(p) : resolveRetryEdge(edges, d, p.id) # p.id
      BY <1>1 DEF Expressible
    <2>2. b \in Used(n)
      BY <1>3, <1>6 DEF Elements
    <2>3. n \in Elements(nodes)
      BY DEF Elements
    <2> HIDE DEF Used, n, b
    <2>4. /\ \A e \in Elements(edges) : e.src = n.id /\ Outcome(n, e.sh) \notin {None, "success"} => {e.dst} = Used(n)
          /\ \A d \in Used(n) : resolveRetryEdge(edges, d, n.id) # n.id
      BY <2>1, <2>2, <2>3
    <2>5. \A j \in DOMAIN edges : edges[j].src = n.id /\ Outcome(n, edges[j].sh) \notin {None, "success"} => edges[j].dst = b
      <3>1. ASSUME NEW j \in DOMAIN edges, edges[j].src = n.id, Outcome(n, edges[j].sh) \notin {None, "success"}
            PROVE  edges[j].dst = b
        <4>1. edges[j] \in Elements(edges)
          BY DEF Elements
        <4>2. {edges[j].dst} = Used(n)
          BY <2>4, <3>1, <4>1
        <4> QED BY <2>2, <4>2
      <3> QED BY <3>1
    <2> QED BY <2>2, <2>4, <2>5 DEF n, b
  <1>7. ExpressibleIn(nodes, edges)
    BY <1>4, <1>5, <1>6 DEF ExpressibleIn
  <1> QED BY <1>2, <1>7, CompiledAgain
=============================================================================
