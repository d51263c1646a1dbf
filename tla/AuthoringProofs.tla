---------------------------- MODULE AuthoringProofs ----------------------------
(***************************************************************************)
(* Proofs about the screens on which tasks are authored: that the ports of *)
(* a task on the canvas keep one edge each and that what is saved refers   *)
(* to what is saved, that a save of the dialog of planning tasks sends     *)
(* what was configured, that the import of a task set restores what its    *)
(* file says, that an imported profile is the exported one, that what is   *)
(* captured from the telemetry is what it is taken for, and that every     *)
(* variable of every screen keeps its type.                                *)
(***************************************************************************)
EXTENDS Authoring, TaskGraphProofs

LEMMA ScreenSteps ==
    ASSUME [Next]_vars
    PROVE  /\ [GraphNext]_graphVars /\ [ProfileNext]_libVars /\ [PlanningNext]_planVars
           /\ [SetsNext]_setVars /\ [ParametersNext]_paramVars
  BY DEF Next, vars

(***************************************************************************)
(* The canvas                                                              *)
(***************************************************************************)
\* The ports of retry blocks (onConnect, "single-connection ports") have one edge each
\* through every gesture, save and reload, until chained retry blocks are saved: the
\* compiler, which takes the first edge it finds, drops none.
THEOREM PortsStaySingleCorrect == Spec => []PortsStaySingle
  <1>1. Init => GraphInv
    BY GraphInitInv DEF Init
  <1>2. GraphInv /\ [Next]_vars => GraphInv'
    BY GraphStep, ScreenSteps
  <1>3. GraphInv => PortsStaySingle
    BY GraphPorts
  <1> QED
    BY <1>1, <1>2, <1>3, PTL DEF Spec

\* What handleSave would store refers to steps that it stores, its entry point included,
\* and no edge is left without its nodes, whatever was drawn, deleted, replaced, saved and
\* loaded before, for any stored tasks whose steps refer to each other.
THEOREM SavedTransitionsResolveCorrect == Spec => []SavedTransitionsResolve
  <1>1. Init => GraphInv
    BY GraphInitInv DEF Init
  <1>2. GraphInv /\ [Next]_vars => GraphInv'
    BY GraphStep, ScreenSteps
  <1>3. GraphInv => SavedTransitionsResolve
    BY GraphResolves
  <1> QED
    BY <1>1, <1>2, <1>3, PTL DEF Spec

\* What handleSave stores is what it loads: opening a saved task and saving it again changes
\* no step, no transition, no retry block and no entry point, whatever was drawn, saved and
\* loaded before, for every drawing that the stored form can express.
THEOREM RoundTripCorrect == Spec => []RoundTrip
  <1>1. Init => GraphInv
    BY GraphInitInv DEF Init
  <1>2. GraphInv /\ [Next]_vars => GraphInv'
    BY GraphStep, ScreenSteps
  <1>3. GraphInv => RoundTrip
    BY GraphRoundTrip
  <1> QED
    BY <1>1, <1>2, <1>3, PTL DEF Spec

(***************************************************************************)
(* The dialog of planning tasks                                            *)
(***************************************************************************)
Templates == [td : Tds \cup {NoDistributor}, spec : PlanningTaskSpec]
Modals == [open : BOOLEAN, td : Tds \cup {NoDistributor}, spec : PlanningTaskSpec,
           pending : SUBSET Tokens, isSaving : BOOLEAN]
Saves == [next : Templates, previous : Templates, promise : SUBSET Refs, content : Contents]

PlanTypes ==
    /\ modal \in Modals /\ shown \in Templates /\ saving \subseteq Saves
    /\ full \in [Tds -> Contents \cup {NoDistributor}]
    /\ kept \in [td : Tds \cup {NoDistributor}, content : [Tds -> Contents], spec : PlanningTaskSpec]

\* What is promised is in the task as the dialog has it, and its distributor, once
\* loaded, has it too: so that no filter takes it out.
PromiseHeld ==
    /\ promise \subseteq modal.spec.refs
    /\ modal.td = NoDistributor => promise = {}
    /\ Loaded(modal.td) =>
         \A ref \in promise : isPlanningStateReferenceAllowed(ref[2], full[modal.td])

PlanInv == PlanTypes /\ PromiseHeld /\ SavedAsConfigured

LEMMA FilterType ==
    ASSUME NEW spec \in PlanningTaskSpec, NEW c \in Contents
    PROVE  /\ filterPlanningTaskForDistributor(spec, c) \in PlanningTaskSpec
           /\ filterPlanningTaskForDistributor(spec, c).refs =
                {r \in spec.refs : isPlanningStateReferenceAllowed(r[2], c)}
  BY DEF filterPlanningTaskForDistributor, PlanningTaskSpec, Contents

\* The effect on a distributor leaves what is still due of what was promised.
LEMMA FilterEffectKeeps ==
    ASSUME PlanTypes, NEW m \in Modals, NEW P \in SUBSET m.spec.refs
    PROVE  LET d == StillDue(P, m.td, IF Loaded(m.td) THEN full[m.td] ELSE NoDistributor)
               n == FilterEffect(m)
           IN /\ n \in Modals /\ n.td = m.td /\ d \subseteq n.spec.refs
              /\ n.td = NoDistributor => d = {}
              /\ Loaded(n.td) =>
                   \A ref \in d : isPlanningStateReferenceAllowed(ref[2], full[n.td])
  <1>1. CASE m.td = NoDistributor
    BY <1>1, PlanningAssumption
       DEF FilterEffect, StillDue, Modals, emptyPlanningTask, PlanningTaskSpec, Loaded
  <1>2. CASE m.td # NoDistributor /\ ~ Loaded(m.td)
    BY <1>2 DEF FilterEffect, StillDue
  <1>3. CASE m.td # NoDistributor /\ Loaded(m.td)
    <2> DEFINE c == full[m.td]
               s == filterPlanningTaskForDistributor(m.spec, c)
    <2>1. c \in Contents /\ c # NoDistributor /\ m.spec \in PlanningTaskSpec
      BY <1>3 DEF PlanTypes, Loaded, Modals
    <2>2. s \in PlanningTaskSpec
          /\ s.refs = {r \in m.spec.refs : isPlanningStateReferenceAllowed(r[2], c)}
      BY <2>1, FilterType
    <2>3. FilterEffect(m) = [m EXCEPT !.spec = s]
      BY <1>3 DEF FilterEffect
    <2> HIDE DEF s
    <2>4. FilterEffect(m) \in Modals /\ FilterEffect(m).td = m.td /\ FilterEffect(m).spec = s
      BY <2>2, <2>3 DEF Modals
    <2> QED
      BY <1>3, <2>1, <2>2, <2>4 DEF StillDue
  <1> QED
    BY <1>1, <1>2, <1>3

LEMMA PlanInitOK == PlanningInit => PlanInv
  <1> SUFFICES ASSUME PlanningInit PROVE PlanInv
    OBVIOUS
  <1>1. Closed \in Modals /\ Closed.spec.refs = {}
    BY DEF Closed, Modals, emptyPlanningTask, PlanningTaskSpec
  <1>2. kept \in [td : Tds \cup {NoDistributor}, content : [Tds -> Contents], spec : PlanningTaskSpec]
    <2>1. PICK x \in Tds \X [Tds -> Contents] \X StateVars :
            kept = [td |-> x[1], content |-> x[2],
                    spec |-> [refs |-> {<<f, x[3]>> : f \in {"preconditions", "error_message_variable"}}
                                         \cup {<<"result_states", h>> : h \in Holders},
                              required_resources |-> x[2][x[1]].tokens]]
      BY DEF PlanningInit, Configured
    <2>2. x[2][x[1]].tokens \subseteq Tokens
      BY DEF Contents
    <2>3. {<<f, x[3]>> : f \in {"preconditions", "error_message_variable"}}
            \cup {<<"result_states", h>> : h \in Holders} \subseteq Refs
      BY DEF Refs, Fields, Lists, Messages
    <2> QED
      BY <2>1, <2>2, <2>3 DEF PlanningTaskSpec
  <1>3. PlanTypes
    BY <1>1, <1>2 DEF PlanningInit, PlanTypes, Templates
  <1> QED
    BY <1>1, <1>3 DEF PlanningInit, PlanInv, PromiseHeld, SavedAsConfigured

LEMMA PlanNextOK == PlanInv /\ [PlanningNext]_planVars => PlanInv'
  <1> SUFFICES ASSUME PlanInv, [PlanningNext]_planVars PROVE PlanInv'
    OBVIOUS
  <1>0. /\ PlanTypes /\ PromiseHeld /\ SavedAsConfigured
        /\ modal \in Modals /\ modal.spec \in PlanningTaskSpec /\ modal.spec.refs \subseteq Refs
    BY DEF PlanInv, PlanTypes, Modals, PlanningTaskSpec
  <1> DEFINE content == IF Loaded(modal.td) THEN full[modal.td] ELSE [states |-> {}, tokens |-> {}]
  <1>1. CASE openModal
    <2> DEFINE m == [Closed EXCEPT !.open = TRUE, !.td = shown.td, !.spec = shown.spec]
    <2>1. /\ modal' = FilterEffect(m) /\ UNCHANGED <<full, shown, kept, saving>>
          /\ promise' = StillDue(shown.spec.refs, shown.td,
                                 IF Loaded(shown.td) THEN full[shown.td] ELSE NoDistributor)
      BY <1>1 DEF openModal, Set
    <2>2. m \in Modals /\ m.td = shown.td /\ m.spec = shown.spec
      BY <1>0 DEF Closed, Modals, PlanTypes, Templates
    <2> HIDE DEF m
    <2>3. /\ modal' \in Modals /\ modal'.td = shown.td /\ promise' \subseteq modal'.spec.refs
          /\ modal'.td = NoDistributor => promise' = {}
          /\ Loaded(modal'.td) =>
               \A ref \in promise' : isPlanningStateReferenceAllowed(ref[2], full[modal'.td])
      BY <1>0, <2>1, <2>2, FilterEffectKeeps
    <2> QED
      BY <1>0, <2>1, <2>3 DEF PlanInv, PlanTypes, PromiseHeld, SavedAsConfigured, Loaded
  <1>2. CASE closeModal
    <2>1. Closed \in Modals /\ Closed.spec.refs = {}
      BY DEF Closed, Modals, emptyPlanningTask, PlanningTaskSpec
    <2> QED
      BY <1>0, <1>2, <2>1 DEF closeModal, Set, PlanInv, PlanTypes, PromiseHeld, SavedAsConfigured
  <1>3. ASSUME NEW td \in Tds \cup {NoDistributor}, setSelectedDistributorId(td) PROVE PlanInv'
    <2> DEFINE m == [modal EXCEPT !.td = td]
    <2>1. /\ modal' = FilterEffect(m) /\ UNCHANGED <<full, shown, kept, saving>>
          /\ promise' = StillDue(promise, td, IF Loaded(td) THEN full[td] ELSE NoDistributor)
      BY <1>3 DEF setSelectedDistributorId, Set
    <2>2. m \in Modals /\ m.td = td /\ m.spec = modal.spec
      BY <1>0 DEF Modals
    <2> HIDE DEF m
    <2>3. promise \subseteq m.spec.refs
      BY <1>0, <2>2 DEF PromiseHeld
    <2>4. /\ modal' \in Modals /\ modal'.td = td /\ promise' \subseteq modal'.spec.refs
          /\ modal'.td = NoDistributor => promise' = {}
          /\ Loaded(modal'.td) =>
               \A ref \in promise' : isPlanningStateReferenceAllowed(ref[2], full[modal'.td])
      BY <1>0, <2>1, <2>2, <2>3, FilterEffectKeeps
    <2> QED
      BY <1>0, <2>1, <2>4 DEF PlanInv, PlanTypes, PromiseHeld, SavedAsConfigured, Loaded
  <1>4. CASE DistributorLoaded
    <2> DEFINE c == kept.content[modal.td]
               s == filterPlanningTaskForDistributor(modal.spec, c)
    <2>1. /\ modal.td \in Tds /\ modal.td # NoDistributor
          /\ full' = [full EXCEPT ![modal.td] = c] /\ modal' = [modal EXCEPT !.spec = s]
          /\ promise' = StillDue(promise, modal.td, c) /\ UNCHANGED <<shown, kept, saving>>
      BY <1>0, <1>4 DEF DistributorLoaded, Modals
    <2>2. c \in Contents /\ c # NoDistributor
      BY <1>0, <2>1, ContentAssumption DEF PlanTypes
    <2>3. s \in PlanningTaskSpec
          /\ s.refs = {r \in modal.spec.refs : isPlanningStateReferenceAllowed(r[2], c)}
      BY <1>0, <2>2, FilterType
    <2> HIDE DEF c, s
    <2>4. modal' \in Modals /\ modal'.td = modal.td /\ modal'.spec = s
      BY <1>0, <2>1, <2>3 DEF Modals
    <2>5. full' \in [Tds -> Contents \cup {NoDistributor}] /\ full'[modal.td] = c
      BY <1>0, <2>1, <2>2 DEF PlanTypes
    <2>6. promise' = {r \in promise : isPlanningStateReferenceAllowed(r[2], c)}
      BY <2>1, <2>2 DEF StillDue
    <2>7. PromiseHeld'
      BY <1>0, <2>1, <2>3, <2>4, <2>5, <2>6 DEF PromiseHeld
    <2> QED
      BY <1>0, <2>1, <2>4, <2>5, <2>7 DEF PlanInv, PlanTypes, SavedAsConfigured
  \* Changes of the task that leave its distributor alone.
  <1>5. ASSUME NEW R \in SUBSET Refs,
               modal' \in Modals, modal'.td = modal.td, modal'.spec.refs = R,
               promise' \subseteq promise, promise' \subseteq R,
               UNCHANGED <<full, shown, kept, saving>>
        PROVE  PlanInv'
    BY <1>0, <1>5 DEF PlanInv, PlanTypes, PromiseHeld, SavedAsConfigured, Loaded
  <1>6. ASSUME NEW r \in Refs, \/ handleAddCondition(r[1], r[2]) \/ handleDeleteCondition(r[1], r[2])
                               \/ setMessageVariable(r[1], r[2])
        PROVE  PlanInv'
    <2>1. <<r[1], r[2]>> \in Refs
      BY DEF Refs
    <2>2. PICK R \in SUBSET Refs :
            /\ modal' = [modal EXCEPT !.spec.refs = R] /\ UNCHANGED <<full, shown, kept, saving>>
            /\ promise' \subseteq promise /\ promise' \subseteq R
      <3>1. CASE handleAddCondition(r[1], r[2])
        <4> DEFINE R == modal.spec.refs \cup {<<r[1], r[2]>>}
        <4>1. /\ modal' = [modal EXCEPT !.spec.refs = R]
              /\ UNCHANGED <<full, shown, kept, saving, promise>>
          BY <3>1 DEF handleAddCondition, Set
        <4>2. R \in SUBSET Refs /\ promise \subseteq R
          BY <1>0, <2>1 DEF PromiseHeld
        <4> HIDE DEF R
        <4> QED
          BY <4>1, <4>2
      <3>2. CASE handleDeleteCondition(r[1], r[2])
        BY <1>0, <2>1, <3>2 DEF handleDeleteCondition, Set, PromiseHeld
      <3>3. CASE setMessageVariable(r[1], r[2])
        <4> DEFINE R == {x \in modal.spec.refs : x[1] # r[1]} \cup {<<r[1], r[2]>>}
        <4>1. /\ modal' = [modal EXCEPT !.spec.refs = R] /\ UNCHANGED <<full, shown, kept, saving>>
              /\ promise' = {x \in promise : x[1] # r[1]}
          BY <3>3 DEF setMessageVariable, Set
        <4>2. R \in SUBSET Refs /\ promise' \subseteq R /\ promise' \subseteq promise
          BY <1>0, <2>1, <4>1 DEF PromiseHeld
        <4> HIDE DEF R
        <4> QED
          BY <4>1, <4>2
      <3> QED
        BY <1>6, <3>1, <3>2, <3>3
    <2>3. modal' \in Modals /\ modal'.td = modal.td /\ modal'.spec.refs = R
      BY <1>0, <2>2 DEF Modals, PlanningTaskSpec
    <2> QED
      BY <1>5, <2>2, <2>3
  <1>7. ASSUME \/ \E k \in Tokens : chooseResource(k) \/ handleDeleteRequiredResource(k)
               \/ handleAddRequiredResource
        PROVE  PlanInv'
    <2>1. /\ modal' \in Modals /\ modal'.td = modal.td /\ modal'.spec.refs = modal.spec.refs
          /\ UNCHANGED <<full, shown, kept, saving, promise>>
      <3>1. CASE \E k \in Tokens : chooseResource(k)
        <4>1. PICK k \in Tokens : modal' = [modal EXCEPT !.pending = {k}]
          BY <3>1 DEF chooseResource, Set
        <4> QED
          BY <1>0, <3>1, <4>1 DEF chooseResource, Set, Modals
      <3>2. CASE \E k \in Tokens : handleDeleteRequiredResource(k)
        BY <1>0, <3>2 DEF handleDeleteRequiredResource, Set, Modals, PlanningTaskSpec
      <3>3. CASE handleAddRequiredResource
        <4>1. PICK K \in SUBSET Tokens :
                modal' = [modal EXCEPT !.spec.required_resources = K, !.pending = {}]
          BY <1>0, <3>3 DEF handleAddRequiredResource, Set, Modals, PlanningTaskSpec
        <4>2. [modal.spec EXCEPT !.required_resources = K] \in PlanningTaskSpec
          BY <1>0 DEF PlanningTaskSpec
        <4>3. UNCHANGED <<full, shown, kept, saving, promise>>
          BY <3>3 DEF handleAddRequiredResource, Set
        <4> DEFINE m == [modal EXCEPT !.spec.required_resources = K]
        <4>4. m \in Modals /\ m.td = modal.td /\ m.spec.refs = modal.spec.refs
          BY <1>0, <4>2 DEF Modals, PlanningTaskSpec
        <4>5. modal' = [m EXCEPT !.pending = {}]
          BY <4>1
        <4> HIDE DEF m
        <4> QED
          BY <4>3, <4>4, <4>5 DEF Modals
      <3> QED
        BY <1>7, <3>1, <3>2, <3>3
    <2> QED
      BY <1>0, <1>5, <2>1 DEF PromiseHeld
  <1>8. CASE savePlanningTask
    <2> DEFINE n == NextPlanningTask(modal)
               r == [next |-> [td |-> modal.td, spec |-> n], previous |-> shown,
                     promise |-> promise, content |-> content]
    <2>1. /\ saving' = saving \cup {r} /\ shown' = r.next /\ modal' = [modal EXCEPT !.isSaving = TRUE]
          /\ UNCHANGED <<full, kept, promise>>
          /\ modal.td = NoDistributor \/ Loaded(modal.td)
      BY <1>8 DEF savePlanningTask, SaveButton
    <2>2. content \in Contents
      BY <1>0 DEF PlanTypes, Loaded, Contents
    <2>3. /\ n \in PlanningTaskSpec /\ promise \subseteq n.refs
          /\ \A ref \in n.refs : isPlanningStateReferenceAllowed(ref[2], content)
          /\ content.tokens # {} => n.required_resources \subseteq content.tokens
      <3>1. CASE modal.td = NoDistributor
        <4>1. n = emptyPlanningTask /\ promise = {}
          BY <1>0, <3>1 DEF NextPlanningTask, PromiseHeld
        <4> QED
          BY <4>1 DEF emptyPlanningTask, PlanningTaskSpec
      <3>2. CASE modal.td # NoDistributor
        <4>1. n = filterPlanningTaskForDistributor(modal.spec, content) /\ content = full[modal.td]
              /\ Loaded(modal.td)
          BY <2>1, <3>2 DEF NextPlanningTask
        <4>2. n \in PlanningTaskSpec
              /\ n.refs = {x \in modal.spec.refs : isPlanningStateReferenceAllowed(x[2], content)}
          BY <1>0, <2>2, <4>1, FilterType
        <4>3. content.tokens # {} => n.required_resources \subseteq content.tokens
          BY <4>1 DEF filterPlanningTaskForDistributor
        <4> QED
          BY <1>0, <4>1, <4>2, <4>3 DEF PromiseHeld
      <3> QED
        BY <3>1, <3>2
    <2> HIDE DEF content, n
    <2>4. r \in Saves /\ r.next \in Templates
      BY <1>0, <2>2, <2>3 DEF Saves, Templates, PlanTypes, PromiseHeld, Modals
    <2>5. modal' \in Modals /\ modal'.td = modal.td /\ modal'.spec = modal.spec
      BY <1>0, <2>1 DEF Modals
    <2>6. PlanTypes' /\ PromiseHeld'
      BY <1>0, <2>1, <2>4, <2>5 DEF PlanTypes, PromiseHeld, Loaded
    <2>7. SavedAsConfigured'
      BY <1>0, <2>1, <2>3 DEF SavedAsConfigured
    <2> QED
      BY <2>6, <2>7 DEF PlanInv
  <1>9. ASSUME NEW r \in saving, PlanningSaved(r) PROVE PlanInv'
    <2>1. Closed \in Modals /\ Closed.spec.refs = {}
      BY DEF Closed, Modals, emptyPlanningTask, PlanningTaskSpec
    <2>2. r \in Saves /\ r.next \in Templates
      BY <1>0 DEF PlanTypes, Saves
    <2> QED
      BY <1>0, <1>9, <2>1, <2>2
         DEF PlanningSaved, PlanInv, PlanTypes, PromiseHeld, SavedAsConfigured, Templates
  <1>10. ASSUME NEW r \in saving, PlanningSaveFails(r) PROVE PlanInv'
    <2>1. r \in Saves /\ r.previous \in Templates
      BY <1>0 DEF PlanTypes, Saves
    <2>2. modal' \in Modals /\ modal'.td = modal.td /\ modal'.spec = modal.spec
      BY <1>0, <1>10 DEF PlanningSaveFails, Modals
    <2> QED
      BY <1>0, <1>10, <2>1, <2>2
         DEF PlanningSaveFails, PlanInv, PlanTypes, PromiseHeld, SavedAsConfigured, Loaded
  <1>11. CASE TemplateRefetched
    BY <1>0, <1>11
       DEF TemplateRefetched, PlanInv, PlanTypes, PromiseHeld, SavedAsConfigured, Loaded, Templates
  <1>12. ASSUME NEW td \in Tds, MovedElsewhere(td) \/ ContentEdited(td) PROVE PlanInv'
    <2>1. kept' \in [td : Tds \cup {NoDistributor}, content : [Tds -> Contents], spec : PlanningTaskSpec]
          /\ UNCHANGED <<modal, full, shown, saving, promise>>
      <3>1. CASE MovedElsewhere(td)
        BY <1>0, <3>1 DEF MovedElsewhere, PlanTypes
      <3>2. CASE ContentEdited(td)
        <4>1. PICK v \in StateVars :
                kept' = [kept EXCEPT !.content[td].states = IF v \in @ THEN @ \ {v} ELSE @ \cup {v}]
          BY <3>2 DEF ContentEdited
        <4>2. kept.content[td] \in Contents /\ kept.content[td].states \subseteq StateVars
          BY <1>0 DEF PlanTypes, Contents
        <4>3. PICK S \in SUBSET StateVars : kept' = [kept EXCEPT !.content[td].states = S]
          BY <4>1, <4>2
        <4>4. [kept.content[td] EXCEPT !.states = S] \in Contents
          BY <4>2 DEF Contents
        <4> QED
          BY <1>0, <3>2, <4>3, <4>4 DEF ContentEdited, PlanTypes
      <3> QED
        BY <1>12, <3>1, <3>2
    <2> QED
      BY <1>0, <2>1 DEF PlanInv, PlanTypes, PromiseHeld, SavedAsConfigured, Loaded
  <1>13. CASE UNCHANGED planVars
    BY <1>0, <1>13 DEF planVars, PlanInv, PlanTypes, PromiseHeld, SavedAsConfigured, Loaded
  <1> QED
    BY <1>1, <1>2, <1>3, <1>4, <1>6, <1>7, <1>8, <1>9, <1>10, <1>11, <1>12, <1>13
       DEF PlanningNext

\* A save of the dialog of planning tasks sends every condition, result and message
\* variable the user never gave up, and nothing that the distributor it is saved
\* with lacks, however late that distributor was loaded.
THEOREM SavedAsConfiguredCorrect == Spec => []SavedAsConfigured
  <1>1. Init => PlanInv
    BY PlanInitOK DEF Init
  <1>2. PlanInv /\ [Next]_vars => PlanInv'
    BY PlanNextOK, ScreenSteps
  <1>3. PlanInv => SavedAsConfigured
    BY DEF PlanInv
  <1> QED
    BY <1>1, <1>2, <1>3, PTL DEF Spec

(***************************************************************************)
(* The import of a task set                                                *)
(***************************************************************************)
\* What an import promises of an entry, over the rows T and the assignments L.
RestoredIn(e, T) ==
    /\ T[e.id].steps = e.content.steps
    /\ e.content.planning # "none" => T[e.id].planning = e.content.planning
AssignedIn(t, L) == {r \in Rtms : <<t, r>> \in L}
DoneIn(e, op, T, L) ==
    /\ RestoredIn(e, T)
    /\ op = "set" => AssignedIn(e.id, L) = {r \in Reassignable(e) : Capable(e.content, r)}

\* What a file holds: entries that were read, one per task.
FileEntries == [id : TaskIds, content : SetRows, rtms : SUBSET (Rtms \cup {UnknownRtm})]
OneEach(l) == \A i, j \in DOMAIN l : l[i].id = l[j].id => i = j
FileList(l) == l \in Seq(FileEntries) /\ l # <<>> /\ OneEach(l)
FileOK(f) == FileList(f.list) /\ f.kind \in {"set", "one"} /\ (f.kind = "one" => Len(f.list) = 1)

Todo == (Nat \X {"template", "links"}) \cup (TaskIds \X Rtms) \cup Rtms
Works == [op : {"none", "export", "set", "one"},
          at : {"none", "list", "read", "create", "update", "links", "clear", "assign"},
          list : Seq(Entries), k : Nat, known : SUBSET TaskIds, todo : SUBSET Todo,
          applied : SUBSET (TaskIds \X Rtms), quiet : BOOLEAN, clean : BOOLEAN]
ImportsSet(w) == w.op \in {"set", "one"}

\* Where an operation is, and what its list then holds.
Shape(w) ==
    /\ w \in Works
    /\ w.op = "none" => w.at = "none"
    /\ w.op = "export" => w.at \in {"list", "read"}
    /\ w.op = "export" /\ w.at = "read" =>
         /\ w.list # <<>> /\ OneEach(w.list)
         /\ w.todo \subseteq (DOMAIN w.list) \X {"template", "links"}
         /\ \A i \in DOMAIN w.list : w.list[i].content \in SetRows \/ <<i, "template">> \in w.todo
    /\ ImportsSet(w) =>
         /\ FileList(w.list) /\ w.k \in 1 .. Len(w.list)
         /\ w.at \in {"list", "create", "update", "links", "clear", "assign"}
         /\ w.op = "one" => Len(w.list) = 1 /\ w.at \in {"list", "create", "update"}

\* Nobody else wrote: unassign requests are for assignments that are there and are
\* none of those the import made, which belong to entries it has come to.
QuietIn(w, L, S) ==
    /\ S \subseteq L /\ w.applied \subseteq L \ S
    /\ \A p \in w.applied : \E i \in 1 .. w.k :
         w.list[i].id = p[1] /\ (i = w.k => w.at = "assign")

\* Nothing failed either: the entries before this one are done, and this one is as
\* far as its phase says.
CleanIn(w, T, L, S) ==
    LET e == w.list[w.k]
    IN /\ w.quiet
       /\ \A i \in 1 .. w.k - 1 : DoneIn(w.list[i], w.op, T, L)
       /\ w.at # "clear" => S = {}
       /\ w.at = "clear" => /\ S = w.todo /\ S \subseteq {e.id} \X Rtms
                            /\ \A r \in AssignedIn(e.id, L) : <<e.id, r>> \in S
       /\ w.at \in {"links", "clear", "assign"} => RestoredIn(e, T) /\ T[e.id] # NoTask
       /\ w.at = "assign" =>
            /\ w.todo \subseteq Reassignable(e)
            /\ AssignedIn(e.id, L) = {r \in Reassignable(e) \ w.todo : Capable(e.content, r)}

ImportIn(w, T, L, S) ==
    ImportsSet(w) => (w.quiet => QuietIn(w, L, S)) /\ (w.clean => CleanIn(w, T, L, S))

\* The import that ended last.
LastIn(l, T, L, S) ==
    l # NoSet =>
        /\ l.applied \subseteq L \ S
        /\ l.clean => S = {} /\ \A e \in Range(l.list) : DoneIn(e, l.op, T, L)

SetTypes ==
    /\ tasks \in [TaskIds -> SetRows \cup {NoTask}]
    /\ links \subseteq TaskIds \X Rtms /\ stray \subseteq TaskIds \X Rtms
    /\ \A f \in files : FileOK(f)
    /\ picker \subseteq files
    /\ seen # NoPicker => seen.task \in TaskIds
    /\ setOps \in 0 .. MaxSetOps

SetInv ==
    /\ SetTypes /\ Shape(work)
    /\ ImportIn(work, tasks, links, stray)
    /\ LastIn(lastSet, tasks, links, stray)
    /\ ImportsSet(work) => lastSet = NoSet

LEMMA SetInvRestored == SetInv => TaskSetRestored
  BY DEF SetInv, LastIn, TaskSetRestored, DoneIn, RestoredIn, AssignedIn, Restored, Assigned

LEMMA SetInvTypes == SetInv => SetsTypeOK
  <1> SUFFICES ASSUME SetInv PROVE SetsTypeOK
    OBVIOUS
  <1>1. FileEntries \subseteq Entries
    BY DEF FileEntries, Entries
  <1>2. ASSUME NEW f \in files PROVE Range(f.list) \subseteq Entries
    <2>1. f.list \in Seq(FileEntries) BY DEF SetInv, SetTypes, FileOK, FileList
    <2>2. \A i \in DOMAIN f.list : f.list[i] \in FileEntries
      <3> DEFINE l == f.list
      <3> HIDE DEF l
      <3> QED BY <2>1 DEF l
    <2> QED BY <1>1, <2>2 DEF Range
  <1>3. Range(work.list) \subseteq Entries
    <2>1. work.list \in Seq(Entries) BY DEF SetInv, Shape, Works
    <2>2. \A i \in DOMAIN work.list : work.list[i] \in Entries
      <3> DEFINE l == work.list
      <3>1. l \in Seq(Entries) BY <2>1
      <3> HIDE DEF l
      <3>2. \A i \in DOMAIN l : l[i] \in Entries BY <3>1
      <3> QED BY <3>2 DEF l
    <2> QED BY <2>2 DEF Range
  <1> QED BY <1>2, <1>3 DEF SetInv, SetTypes, SetsTypeOK

LEMMA IdleShape == Idle \in Works /\ Shape(Idle) /\ ~ ImportsSet(Idle)
  BY DEF Shape, Works, Idle, ImportsSet

LEMMA SetsInitOK == SetsInit => SetInv
  <1> SUFFICES ASSUME SetsInit PROVE SetInv
    OBVIOUS
  <1>1. tasks \in [TaskIds -> SetRows \cup {NoTask}]
    BY DEF SetsInit, SetRows, Bodies, Plans
  <1>2. links \subseteq TaskIds \X Rtms
    BY DEF SetsInit
  <1>3. FileOK(OldFile)
    <2> DEFINE t == CHOOSE t \in TaskIds : TRUE
               e == [id |-> t, content |-> [steps |-> "skill", planning |-> "none"],
                     rtms |-> Able \cup {UnknownRtm}]
    <2>1. t \in TaskIds
      BY DEF SetsInit
    <2>2. e \in FileEntries
      BY <2>1, TaskSetsAssumption DEF FileEntries, SetRows, Bodies, Plans
    <2>3. OldFile = [kind |-> "set", list |-> <<e>>]
      BY DEF OldFile
    <2> HIDE DEF e
    <2>4. FileList(<<e>>)
      BY <2>2 DEF FileList, OneEach
    <2> QED
      BY <2>3, <2>4 DEF FileOK
  <1>4. SetTypes
    BY <1>1, <1>2, <1>3, TaskSetsAssumption DEF SetsInit, SetTypes
  <1> QED
    BY <1>4, IdleShape DEF SetsInit, SetInv, ImportIn, LastIn

\* A write that is not the import's own ends what an import could promise.
LEMMA ForeignKeeps ==
    ASSUME SetInv, Foreign, SetTypes' PROVE SetInv'
  <1>1. work \in Works /\ Shape(work)
    BY DEF SetInv, Shape
  <1>2. /\ work' \in Works /\ ~ work'.quiet /\ ~ work'.clean
        /\ work'.op = work.op /\ work'.at = work.at /\ work'.list = work.list
        /\ work'.k = work.k /\ work'.todo = work.todo
    BY <1>1 DEF Foreign, Works
  <1>3. Shape(work')
    BY <1>1, <1>2 DEF Shape, ImportsSet
  <1> QED
    BY <1>2, <1>3 DEF SetInv, Foreign, ImportIn, LastIn

\* A step that writes nothing an import looks at, and leaves its operation alone.
LEMMA ElsewhereKeeps ==
    ASSUME SetInv, SetTypes', UNCHANGED <<tasks, links, stray, work, lastSet>> PROVE SetInv'
  BY DEF SetInv

\* A step of another operation than an import.
LEMMA OtherWorkKeeps ==
    ASSUME SetInv, SetTypes', Shape(work'), ~ ImportsSet(work'),
           UNCHANGED <<tasks, links, stray, lastSet>>
    PROVE  SetInv'
  BY DEF SetInv, ImportIn

LEMMA SetsUserOK == ASSUME SetInv, SetsUser PROVE SetInv'
  <1>0. /\ SetTypes /\ work \in Works /\ Shape(work)
        /\ tasks \in [TaskIds -> SetRows \cup {NoTask}] /\ links \subseteq TaskIds \X Rtms
        /\ stray \subseteq TaskIds \X Rtms /\ picker \subseteq files
        /\ setOps \in 0 .. MaxSetOps /\ (SetOp => setOps' \in 0 .. MaxSetOps)
    BY TaskSetsAssumption DEF SetInv, SetTypes, Shape, SetOp
  <1>1. ASSUME NEW t \in TaskIds, createTemplate(t) \/ deleteTemplate(t) PROVE SetInv'
    <2>1. tasks' \in [TaskIds -> SetRows \cup {NoTask}] /\ links' \subseteq links
      BY <1>0, <1>1 DEF createTemplate, deleteTemplate, SetRows, Bodies, Plans
    <2> QED
      BY <1>0, <1>1, <2>1, ForeignKeeps DEF createTemplate, deleteTemplate, SetTypes
  <1>2. ASSUME NEW t \in TaskIds, NEW c \in SetRows, saveTask(t, c) PROVE SetInv'
    <2>1. tasks[t] \in SetRows
      BY <1>0, <1>2 DEF saveTask
    <2>2. UpdateTemplate(tasks[t], c) \in SetRows
      BY <2>1 DEF UpdateTemplate, SetRows
    <2>3. tasks' \in [TaskIds -> SetRows \cup {NoTask}]
      BY <1>0, <1>2, <2>2 DEF saveTask
    <2> QED
      BY <1>0, <1>2, <2>3, ForeignKeeps DEF saveTask, SetTypes
  <1>3. ASSUME NEW t \in TaskIds, NEW u \in TaskIds, renameTemplate(t, u) PROVE SetInv'
    <2>1. tasks' \in [TaskIds -> SetRows \cup {NoTask}]
      BY <1>0, <1>3 DEF renameTemplate
    <2>2. ASSUME NEW p \in links PROVE <<IF p[1] = t THEN u ELSE p[1], p[2]>> \in TaskIds \X Rtms
      BY <1>0, <2>2
    <2>3. links' \subseteq TaskIds \X Rtms
      BY <1>3, <2>2 DEF renameTemplate
    <2> QED
      BY <1>0, <1>3, <2>1, <2>3, ForeignKeeps DEF renameTemplate, SetTypes
  <1>4. ASSUME NEW t \in TaskIds, NEW online \in SUBSET Rtms, openAssignModal(t, online) PROVE SetInv'
    BY <1>0, <1>4, ElsewhereKeeps DEF openAssignModal, SetTypes
  <1>5. ASSUME NEW r \in Rtms, assignTemplate(r) \/ unassignTemplate(r) PROVE SetInv'
    <2>1. seen.task \in TaskIds
      BY <1>0, <1>5 DEF assignTemplate, unassignTemplate, SetTypes
    <2>2. links' \subseteq TaskIds \X Rtms
      BY <1>0, <1>5, <2>1 DEF assignTemplate, unassignTemplate, Relinked
    <2>3. seen' # NoPicker => seen'.task \in TaskIds
      <3> DEFINE A == {r_1 \in Rtms : <<seen.task, r_1>> \in links'}
      <3>1. seen' = [seen EXCEPT !.assigned = A]
        BY <1>5 DEF assignTemplate, unassignTemplate, Relinked
      <3> HIDE DEF A
      <3> QED
        BY <2>1, <3>1
    <2>4. Foreign /\ UNCHANGED <<tasks, files, stray, picker, setOps>>
      BY <1>5 DEF assignTemplate, unassignTemplate, Relinked
    <2> QED
      BY <1>0, <2>2, <2>3, <2>4, ForeignKeeps DEF SetTypes
  <1>6. CASE closeAssignModal
    BY <1>0, <1>6, ElsewhereKeeps DEF closeAssignModal, SetTypes
  <1>7. ASSUME NEW t \in TaskIds, NEW r \in Rtms,
               (\E drawn \in Bodies : assignFromPanel(t, drawn, r)) \/ unassignFromPanel(t, r)
        PROVE  SetInv'
    <2>1. /\ Foreign /\ UNCHANGED <<tasks, files, stray, picker, seen>> /\ SetOp
          /\ links' = links \cup {<<t, r>>} \/ links' = links \ {<<t, r>>}
      BY <1>7 DEF assignFromPanel, unassignFromPanel
    <2>2. SetTypes'
      BY <1>0, <2>1 DEF SetTypes
    <2> QED
      BY <2>1, <2>2, ForeignKeeps
  <1>8. ASSUME NEW t \in TaskIds, NEW drawn \in Bodies, handleExportSelectedTask(t, drawn) PROVE SetInv'
    <2> DEFINE e == [id |-> t, rtms |-> {},
                     content |-> [steps |-> drawn, planning |-> tasks[t].planning]]
    <2>1. /\ files' = files \cup {[kind |-> "one", list |-> <<e>>]} /\ tasks[t] \in SetRows
          /\ UNCHANGED <<tasks, links, work, stray, picker, seen, lastSet>> /\ SetOp
      BY <1>0, <1>8 DEF handleExportSelectedTask
    <2>2. e \in FileEntries
      BY <2>1 DEF FileEntries, SetRows
    <2> HIDE DEF e
    <2>3. FileOK([kind |-> "one", list |-> <<e>>])
      BY <2>2 DEF FileOK, FileList, OneEach
    <2>4. SetTypes'
      BY <1>0, <2>1, <2>3 DEF SetTypes
    <2> QED
      BY <2>1, <2>4, ElsewhereKeeps
  <1>9. CASE handleExportTaskSet
    <2> DEFINE w == [Idle EXCEPT !.op = "export", !.at = "list"]
    <2>1. w \in Works /\ w.op = "export" /\ w.at = "list"
      BY IdleShape DEF Works
    <2> HIDE DEF w
    <2>2. Shape(w) /\ ~ ImportsSet(w)
      BY <2>1 DEF Shape, ImportsSet
    <2>3. /\ work' = w /\ SetOp
          /\ UNCHANGED <<tasks, links, files, stray, picker, seen, lastSet>>
      BY <1>9 DEF handleExportTaskSet, w
    <2>4. SetTypes'
      BY <1>0, <2>3 DEF SetTypes
    <2> QED
      BY <2>2, <2>3, <2>4, OtherWorkKeeps
  <1>10. CASE handleOpenSavedTaskLoad \/ closePicker
    BY <1>0, <1>10, ElsewhereKeeps DEF handleOpenSavedTaskLoad, closePicker, SetTypes
  <1>11. ASSUME NEW f \in picker, beginImport(f) PROVE SetInv'
    <2> DEFINE w == [Idle EXCEPT !.op = f.kind, !.at = "list", !.list = f.list, !.k = 1,
                                 !.quiet = stray = {}, !.clean = stray = {}]
    <2>1. FileOK(f) /\ f.list \in Seq(FileEntries)
      BY <1>0 DEF SetTypes, FileOK, FileList
    <2>2. f.list \in Seq(Entries) /\ Len(f.list) \in Nat \ {0}
      <3>1. FileEntries \subseteq Entries
        BY DEF FileEntries, Entries
      <3> QED
        BY <2>1, <3>1 DEF FileOK, FileList
    <2>3. /\ w \in Works /\ w.op = f.kind /\ w.at = "list" /\ w.list = f.list /\ w.k = 1
          /\ w.applied = {} /\ (w.quiet <=> stray = {}) /\ (w.clean <=> stray = {})
      BY <2>1, <2>2, IdleShape DEF Idle, Works, FileOK
    <2>4. /\ work' = w /\ lastSet' = NoSet /\ picker' = {}
          /\ UNCHANGED <<tasks, links, files, stray, seen, setOps>>
      BY <1>11 DEF beginImport
    <2> HIDE DEF w
    <2>5. Shape(w)
      BY <2>1, <2>2, <2>3 DEF Shape, ImportsSet, FileOK
    <2>6. ImportIn(w, tasks, links, stray)
      <3>1. w.quiet => QuietIn(w, links, stray)
        BY <2>3 DEF QuietIn
      <3>2. w.clean => CleanIn(w, tasks, links, stray)
        <4>1. 1 .. w.k - 1 = {}
          BY <2>3
        <4> QED
          BY <2>3, <4>1 DEF CleanIn
      <3> QED
        BY <3>1, <3>2 DEF ImportIn
    <2>7. SetTypes'
      BY <1>0, <2>4 DEF SetTypes
    <2> QED
      BY <2>4, <2>5, <2>6, <2>7 DEF SetInv, LastIn
  <1>12. ASSUME NEW f \in picker, handleImportTaskSet(f) \/ handleImportSingleTask(f) PROVE SetInv'
    BY <1>11, <1>12 DEF handleImportTaskSet, handleImportSingleTask
  <1> QED
    BY <1>1, <1>2, <1>3, <1>4, <1>5, <1>6, <1>7, <1>8, <1>9, <1>10, <1>12 DEF SetsUser

\* Entries of other tasks stay done.
LEMMA DoneStays ==
    ASSUME NEW l, FileList(l), NEW k \in 1 .. Len(l), NEW i \in 1 .. Len(l), i # k,
           NEW op, NEW T, NEW L, NEW T2, NEW L2, DoneIn(l[i], op, T, L),
           \A t \in TaskIds : t # l[k].id => T2[t] = T[t] /\ AssignedIn(t, L2) = AssignedIn(t, L)
    PROVE  DoneIn(l[i], op, T2, L2)
  <1>1. l \in Seq(FileEntries) /\ i \in DOMAIN l /\ k \in DOMAIN l
    BY DEF FileList
  <1>2. l[i] \in FileEntries
    BY <1>1
  <1>3. l[i].id \in TaskIds /\ l[i].id # l[k].id
    BY <1>1, <1>2 DEF FileList, OneEach, FileEntries
  <1> QED
    BY <1>3 DEF DoneIn, RestoredIn

\* What is known of the entry an import is at.
LEMMA EntryType ==
    ASSUME NEW w, Shape(w), ImportsSet(w)
    PROVE  /\ w \in Works /\ FileList(w.list) /\ w.k \in 1 .. Len(w.list) /\ Len(w.list) \in Nat
           /\ DOMAIN w.list = 1 .. Len(w.list)
           /\ w.list[w.k] \in FileEntries /\ w.list[w.k].id \in TaskIds
           /\ w.list[w.k].content \in SetRows
           /\ Reassignable(w.list[w.k]) \subseteq Rtms
  <1>1. w \in Works /\ FileList(w.list) /\ w.k \in 1 .. Len(w.list)
    BY DEF Shape
  <1>2. w.list \in Seq(FileEntries)
    BY <1>1 DEF FileList
  <1>3. Len(w.list) \in Nat /\ DOMAIN w.list = 1 .. Len(w.list) /\ w.list[w.k] \in FileEntries
    BY <1>1, <1>2
  <1> QED
    BY <1>1, <1>3 DEF FileEntries, Reassignable

LEMMA NextEntryKeeps ==
    ASSUME SetTypes', lastSet = NoSet, NEW w, Shape(w), ImportsSet(w), NextEntry(w),
           w.quiet => /\ stray' \subseteq links' /\ w.applied \subseteq links' \ stray'
                      /\ \A p \in w.applied : \E i \in 1 .. w.k : w.list[i].id = p[1],
           w.clean => /\ w.quiet /\ stray' = {}
                      /\ \A i \in 1 .. w.k : DoneIn(w.list[i], w.op, tasks', links')
    PROVE  SetInv'
  <1>0. /\ w \in Works /\ FileList(w.list) /\ w.k \in 1 .. Len(w.list) /\ Len(w.list) \in Nat
        /\ DOMAIN w.list = 1 .. Len(w.list)
    BY EntryType
  <1>1. CASE Finished(w)
    <2>1. w.k = Len(w.list)
      <3>1. w.op = "one" => Len(w.list) = 1
        BY DEF Shape, ImportsSet
      <3>2. CASE w.op = "one"
        <4>1. Len(w.list) = 1 /\ w.k \in 1 .. 1
          BY <1>0, <3>1, <3>2
        <4> QED
          BY <4>1
      <3>3. CASE w.op # "one"
        BY <1>1, <3>3 DEF Finished
      <3> QED
        BY <3>2, <3>3
    <2>2. work' = Idle /\ lastSet' = IF w.quiet THEN Ended(w) ELSE NoSet
      BY <1>1 DEF NextEntry
    <2>3. w.quiet => LastIn(Ended(w), tasks', links', stray')
      <3>1. \A e \in Range(w.list) : \E i \in 1 .. w.k : e = w.list[i]
        BY <1>0, <2>1 DEF Range
      <3>2. /\ Ended(w).op = w.op /\ Ended(w).list = w.list
            /\ Ended(w).applied = w.applied /\ Ended(w).clean = w.clean
        BY DEF Ended
      <3> QED
        BY <3>1, <3>2 DEF LastIn
    <2>4. LastIn(lastSet', tasks', links', stray')
      BY <2>2, <2>3 DEF LastIn
    <2> QED
      BY <2>2, <2>4, IdleShape DEF SetInv, ImportIn
  <1>2. CASE ~ Finished(w)
    <2> DEFINE n == [w EXCEPT !.k = @ + 1, !.at = "create"]
    <2>1. work' = n /\ lastSet' = NoSet
      BY <1>2 DEF NextEntry
    <2>2. /\ n \in Works /\ n.op = w.op /\ n.at = "create" /\ n.list = w.list /\ n.k = w.k + 1
          /\ n.applied = w.applied /\ n.quiet = w.quiet /\ n.clean = w.clean
      <3>1. w.k + 1 \in Nat
        BY <1>0
      <3> QED
        BY <1>0, <3>1 DEF Works
    <2> HIDE DEF n
    <2>3. w.op # "one" /\ w.k + 1 \in 1 .. Len(w.list)
      BY <1>0, <1>2 DEF Finished
    <2>4. Shape(n) /\ ImportsSet(n)
      BY <1>0, <2>2, <2>3 DEF Shape, ImportsSet
    <2>5. n.quiet => QuietIn(n, links', stray')
      <3>1. \A i \in 1 .. w.k : i \in 1 .. n.k /\ i # n.k
        BY <1>0, <2>2
      <3> QED
        BY <2>2, <3>1 DEF QuietIn
    <2>6. n.clean => CleanIn(n, tasks', links', stray')
      <3>1. 1 .. n.k - 1 = 1 .. w.k
        BY <1>0, <2>2
      <3> QED
        BY <2>2, <3>1 DEF CleanIn
    <2> QED
      BY <2>1, <2>4, <2>5, <2>6 DEF SetInv, ImportIn, LastIn
  <1> QED
    BY <1>1, <1>2

\* A task that cannot be written.
LEMMA SkipKeeps ==
    ASSUME SetInv, ImportsSet(work), SetTypes', Skip, UNCHANGED <<tasks, links, stray>>
    PROVE  SetInv'
  <1> DEFINE w == [work EXCEPT !.clean = FALSE]
  <1>0. Shape(work) /\ lastSet = NoSet /\ work \in Works /\ (work.quiet => QuietIn(work, links, stray))
    BY DEF SetInv, ImportIn, Shape
  <1>1. /\ w \in Works /\ w.op = work.op /\ w.at = work.at /\ w.list = work.list /\ w.k = work.k
        /\ w.todo = work.todo /\ w.applied = work.applied /\ w.quiet = work.quiet /\ ~ w.clean
    BY <1>0 DEF Works
  <1>2. NextEntry(w)
    BY DEF Skip
  <1> HIDE DEF w
  <1>3. Shape(w) /\ ImportsSet(w)
    BY <1>0, <1>1 DEF Shape, ImportsSet
  <1>4. w.quiet => /\ stray' \subseteq links' /\ w.applied \subseteq links' \ stray'
                   /\ \A p \in w.applied : \E i \in 1 .. w.k : w.list[i].id = p[1]
    BY <1>0, <1>1 DEF QuietIn
  <1> QED
    BY <1>0, <1>1, <1>2, <1>3, <1>4, NextEntryKeeps

LEMMA ExportOK ==
    ASSUME SetInv, ExportListed \/ (\E q \in work.todo : ExportRead(q)) \/ ExportSaved
    PROVE  SetInv'
  <1>0. SetTypes /\ Shape(work) /\ work \in Works /\ tasks \in [TaskIds -> SetRows \cup {NoTask}]
    BY DEF SetInv, SetTypes, Shape
  <1>1. ASSUME NEW n, Working(n), Shape(n), ~ ImportsSet(n) PROVE SetInv'
    <2>1. SetTypes' /\ work' = n /\ UNCHANGED <<tasks, links, stray, lastSet>>
      BY <1>0, <1>1 DEF Working, SetTypes
    <2> QED
      BY <1>1, <2>1, OtherWorkKeeps
  <1>2. CASE ExportListed
    <2> DEFINE ids == SetToSeq({t \in TaskIds : tasks[t] # NoTask})
               list == [i \in DOMAIN ids |-> [id |-> ids[i], content |-> NoTask, rtms |-> {}]]
               todo == (DOMAIN ids) \X {"template", "links"}
               n == [work EXCEPT !.at = "read", !.list = list, !.todo = todo]
    <2>1. /\ ids \in Seq(TaskIds) /\ \A i, j \in DOMAIN ids : ids[i] = ids[j] => i = j
      <3> DEFINE S == {t \in TaskIds : tasks[t] # NoTask}
      <3>1. IsFiniteSet(S) /\ S \subseteq TaskIds
        BY FS_Subset, TaskSetsAssumption
      <3> HIDE DEF S
      <3>2. SetToSeq(S) \in Seq(S) /\ \A i, j \in DOMAIN SetToSeq(S) : SetToSeq(S)[i] = SetToSeq(S)[j] => i = j
        BY <3>1, SetToSeqOnce
      <3> QED
        BY <3>1, <3>2 DEF S
    <2>2. work.op = "export" /\ work.at = "list" /\ Working(IF ids = <<>> THEN Idle ELSE n)
      BY <1>2 DEF ExportListed
    <2> HIDE DEF ids
    <2>3. CASE ids = <<>>
      BY <1>1, <2>2, <2>3, IdleShape
    <2>4. CASE ids # <<>>
      <3>1. /\ Len(ids) \in Nat /\ DOMAIN ids = 1 .. Len(ids) /\ \A i \in DOMAIN ids : ids[i] \in TaskIds
        BY <2>1
      <3>2. /\ list \in Seq(Entries) /\ DOMAIN list = DOMAIN ids
            /\ \A i \in DOMAIN ids : list[i].id = ids[i]
        BY <3>1 DEF Entries
      <3>3. list # <<>> /\ OneEach(list)
        <4>1. OneEach(list)
          BY <2>1, <3>2 DEF OneEach
        <4>2. DOMAIN ids # {}
          BY <2>1, <2>4, <3>1
        <4> QED
          BY <3>2, <4>1, <4>2
      <3>4. todo \subseteq Todo
        BY <3>1 DEF Todo
      <3> HIDE DEF list, todo
      <3>5. /\ n \in Works /\ n.op = "export" /\ n.at = "read" /\ n.list = list /\ n.todo = todo
        BY <1>0, <2>2, <3>2, <3>4 DEF Works
      <3>6. \A i \in DOMAIN list : <<i, "template">> \in todo
        BY <3>2 DEF todo
      <3>7. todo \subseteq (DOMAIN list) \X {"template", "links"}
        BY <3>2 DEF todo
      <3> HIDE DEF n
      <3>8. Shape(n) /\ ~ ImportsSet(n)
        BY <3>3, <3>5, <3>6, <3>7 DEF Shape, ImportsSet
      <3> QED
        BY <1>1, <2>2, <2>4, <3>8
    <2> QED
      BY <2>3, <2>4
  <1>3. ASSUME NEW q \in work.todo, ExportRead(q) PROVE SetInv'
    <2> DEFINE e == work.list[q[1]]
               got == IF q[2] = "links" THEN [e EXCEPT !.rtms = Assigned(e.id)]
                      ELSE [e EXCEPT !.content = tasks[e.id]]
               n == [work EXCEPT !.todo = @ \ {q}, !.list[q[1]] = got]
    <2>1. /\ work.op = "export" /\ work.at = "read"
          /\ Working(IF q[2] = "template" /\ tasks[e.id] = NoTask THEN Idle ELSE n)
      BY <1>3 DEF ExportRead
    <2>2. /\ work.list # <<>> /\ OneEach(work.list) /\ work.list \in Seq(Entries)
          /\ q[1] \in DOMAIN work.list /\ q[2] \in {"template", "links"} /\ q = <<q[1], q[2]>>
          /\ work.todo \subseteq (DOMAIN work.list) \X {"template", "links"}
          /\ \A i \in DOMAIN work.list : work.list[i].content \in SetRows \/ <<i, "template">> \in work.todo
      BY <1>0, <2>1 DEF Shape, Works
    <2>3. e \in Entries /\ e.id \in TaskIds
      <3>1. e \in Entries
        BY <2>2
      <3> HIDE DEF e
      <3> QED
        BY <3>1 DEF Entries
    <2>4. CASE q[2] = "template" /\ tasks[e.id] = NoTask
      BY <1>1, <2>1, <2>4, IdleShape
    <2>5. CASE ~ (q[2] = "template" /\ tasks[e.id] = NoTask)
      <3>1. /\ got \in Entries /\ got.id = e.id
            /\ q[2] = "template" => got.content \in SetRows
            /\ q[2] = "links" => got.content = e.content
        BY <1>0, <2>2, <2>3, <2>5 DEF Entries, Assigned
      <3> HIDE DEF got, e
      <3> DEFINE list == [work.list EXCEPT ![q[1]] = got]
      <3>2. /\ list \in Seq(Entries) /\ DOMAIN list = DOMAIN work.list
            /\ \A i \in DOMAIN list : list[i] = IF i = q[1] THEN got ELSE work.list[i]
        BY <2>2, <3>1
      <3>3. list # <<>> /\ OneEach(list)
        BY <2>2, <3>1, <3>2 DEF OneEach, e
      <3>4. n = [work EXCEPT !.todo = @ \ {q}, !.list = list]
        BY <1>0 DEF Works
      <3> HIDE DEF list, n
      <3>5. /\ n \in Works /\ n.op = "export" /\ n.at = "read" /\ n.list = list
            /\ n.todo = work.todo \ {q}
        BY <1>0, <2>1, <3>2, <3>4 DEF Works
      <3>6. ASSUME NEW i \in DOMAIN list
            PROVE  list[i].content \in SetRows \/ <<i, "template">> \in n.todo
        <4>1. CASE i = q[1]
          BY <2>2, <3>1, <3>2, <3>5, <4>1 DEF e
        <4>2. CASE i # q[1]
          BY <2>2, <3>2, <3>5, <4>2
        <4> QED
          BY <4>1, <4>2
      <3>7. n.todo \subseteq (DOMAIN list) \X {"template", "links"}
        BY <2>2, <3>2, <3>5
      <3>8. Shape(n) /\ ~ ImportsSet(n)
        BY <3>3, <3>5, <3>6, <3>7 DEF Shape, ImportsSet
      <3> QED
        BY <1>1, <2>1, <2>5, <3>8
    <2> QED
      BY <2>4, <2>5
  <1>4. CASE ExportSaved
    <2>1. /\ work.op = "export" /\ work.at = "read" /\ work.todo = {}
          /\ files' = files \cup {[kind |-> "set", list |-> work.list]} /\ work' = Idle
          /\ UNCHANGED <<tasks, links, stray, picker, seen, lastSet, setOps>>
      BY <1>4 DEF ExportSaved
    <2>2. /\ work.list # <<>> /\ OneEach(work.list) /\ work.list \in Seq(Entries)
          /\ \A i \in DOMAIN work.list : work.list[i].content \in SetRows
      BY <1>0, <2>1 DEF Shape, Works
    <2>3. ASSUME NEW i \in DOMAIN work.list PROVE work.list[i] \in FileEntries
      <3>1. work.list[i] \in Entries /\ work.list[i].content \in SetRows
        BY <2>2
      <3> QED
        BY <3>1 DEF Entries, FileEntries
    <2>4. work.list \in Seq(FileEntries)
      BY <2>2, <2>3
    <2>5. FileOK([kind |-> "set", list |-> work.list])
      BY <2>2, <2>4 DEF FileOK, FileList
    <2>6. SetTypes'
      BY <1>0, <2>1, <2>5 DEF SetTypes
    <2> QED
      BY <2>1, <2>6, IdleShape, OtherWorkKeeps
  <1> QED
    BY <1>2, <1>3, <1>4

LEMMA ImportListedOK == ASSUME SetInv, ImportListed PROVE SetInv'
  <1> DEFINE K == {t \in TaskIds : tasks[t] # NoTask}
             n == [work EXCEPT !.at = "create", !.known = K]
  <1>1. /\ SetTypes /\ Shape(work) /\ work \in Works /\ ImportsSet(work) /\ work.at = "list"
        /\ ImportIn(work, tasks, links, stray) /\ lastSet = NoSet /\ work' = n
        /\ UNCHANGED <<tasks, links, files, stray, picker, seen, lastSet, setOps>>
    BY DEF SetInv, Shape, ImportListed, Restoring, ImportsSet, Working
  <1>2. /\ n \in Works /\ n.op = work.op /\ n.at = "create" /\ n.list = work.list /\ n.k = work.k
        /\ n.applied = work.applied /\ n.quiet = work.quiet /\ n.clean = work.clean
    <2>1. K \in SUBSET TaskIds
      OBVIOUS
    <2> HIDE DEF K
    <2> QED
      BY <1>1, <2>1 DEF Works
  <1> HIDE DEF n
  <1>3. Shape(n) /\ ImportsSet(n)
    BY <1>1, <1>2 DEF Shape, ImportsSet
  <1>4. n.quiet => QuietIn(n, links, stray)
    BY <1>1, <1>2 DEF ImportIn, QuietIn
  <1>5. n.clean => CleanIn(n, tasks, links, stray)
    BY <1>1, <1>2 DEF ImportIn, CleanIn
  <1>6. SetTypes'
    BY <1>1 DEF SetTypes
  <1> QED
    BY <1>1, <1>3, <1>4, <1>5, <1>6 DEF SetInv, ImportIn, LastIn

LEMMA ImportCreateOK == ASSUME SetInv, ImportCreate PROVE SetInv'
  <1> DEFINE e == work.list[work.k]
  <1>1. /\ SetTypes /\ Shape(work) /\ work \in Works /\ ImportsSet(work) /\ work.at = "create"
        /\ ImportIn(work, tasks, links, stray) /\ lastSet = NoSet
        /\ UNCHANGED <<links, files, stray, picker, seen, setOps>>
    BY DEF SetInv, Shape, ImportCreate, Restoring, ImportsSet
  <1>2. e.id \in TaskIds /\ e.content \in SetRows /\ FileList(work.list)
        /\ work.k \in 1 .. Len(work.list) /\ Len(work.list) \in Nat
    BY <1>1, EntryType
  \* On to the update, with the row there or not.
  <1>3. ASSUME NEW K \in SUBSET TaskIds, work' = [work EXCEPT !.at = "update", !.known = K],
               lastSet' = lastSet,
               tasks' = tasks \/ tasks' = [tasks EXCEPT ![e.id] = e.content]
        PROVE  SetInv'
    <2>1. /\ work' \in Works /\ work'.op = work.op /\ work'.at = "update" /\ work'.list = work.list
          /\ work'.k = work.k /\ work'.applied = work.applied /\ work'.quiet = work.quiet
          /\ work'.clean = work.clean
      BY <1>1, <1>3 DEF Works
    <2>2. Shape(work') /\ ImportsSet(work')
      BY <1>1, <2>1 DEF Shape, ImportsSet
    <2>3. work'.quiet => QuietIn(work', links, stray)
      BY <1>1, <2>1 DEF ImportIn, QuietIn
    <2>4. /\ tasks' \in [TaskIds -> SetRows \cup {NoTask}]
          /\ \A t \in TaskIds : t # e.id => tasks'[t] = tasks[t]
      BY <1>1, <1>2, <1>3 DEF SetTypes
    <2>5. ASSUME work'.clean PROVE CleanIn(work', tasks', links, stray)
      <3>1. /\ work.quiet /\ stray = {}
            /\ \A i \in 1 .. work.k - 1 : DoneIn(work.list[i], work.op, tasks, links)
        BY <1>1, <2>1, <2>5 DEF ImportIn, CleanIn
      <3>2. ASSUME NEW i \in 1 .. work.k - 1 PROVE DoneIn(work.list[i], work.op, tasks', links)
        <4>1. i \in 1 .. Len(work.list) /\ i # work.k
          BY <1>2
        <4> QED
          BY <1>2, <2>4, <3>1, <4>1, DoneStays
      <3> QED
        BY <2>1, <3>1, <3>2 DEF CleanIn
    <2>6. SetTypes'
      BY <1>1, <2>4 DEF SetTypes
    <2> QED
      BY <1>1, <1>3, <2>2, <2>3, <2>5, <2>6 DEF SetInv, ImportIn, LastIn
  <1>4. CASE e.id \in work.known
    <2>1. work' = [work EXCEPT !.at = "update"] /\ UNCHANGED <<tasks, lastSet>>
      BY <1>4 DEF ImportCreate, Entry
    <2>2. work' = [work EXCEPT !.at = "update", !.known = work.known] /\ work.known \in SUBSET TaskIds
      BY <1>1, <2>1 DEF Works
    <2> QED
      BY <1>3, <2>1, <2>2
  <1>5. CASE e.id \notin work.known /\ tasks[e.id] # NoTask
    <2>1. Skip /\ tasks' = tasks
      BY <1>5 DEF ImportCreate, Entry
    <2>2. SetTypes'
      BY <1>1, <2>1 DEF SetTypes
    <2> QED
      BY <1>1, <2>1, <2>2, SkipKeeps
  <1>6. CASE e.id \notin work.known /\ tasks[e.id] = NoTask
    <2> DEFINE K == work.known \cup {e.id}
    <2>1. /\ tasks' = [tasks EXCEPT ![e.id] = e.content] /\ lastSet' = lastSet
          /\ work' = [work EXCEPT !.at = "update", !.known = K]
      BY <1>6 DEF ImportCreate, Entry
    <2>2. K \in SUBSET TaskIds
      BY <1>1, <1>2 DEF Works
    <2> HIDE DEF K
    <2> QED
      BY <1>3, <2>1, <2>2
  <1> QED
    BY <1>4, <1>5, <1>6

LEMMA ImportUpdateOK == ASSUME SetInv, ImportUpdate PROVE SetInv'
  <1> DEFINE e == work.list[work.k]
             c == UpdateTemplate(tasks[e.id], e.content)
  <1>1. /\ SetTypes /\ Shape(work) /\ work \in Works /\ ImportsSet(work) /\ work.at = "update"
        /\ ImportIn(work, tasks, links, stray) /\ lastSet = NoSet
        /\ UNCHANGED <<links, files, stray, picker, seen, setOps>>
    BY DEF SetInv, Shape, ImportUpdate, Restoring, ImportsSet
  <1>2. e.id \in TaskIds /\ e.content \in SetRows /\ FileList(work.list)
        /\ work.k \in 1 .. Len(work.list) /\ Len(work.list) \in Nat
    BY <1>1, EntryType
  <1>3. CASE tasks[e.id] = NoTask
    <2>1. Skip /\ tasks' = tasks
      BY <1>3 DEF ImportUpdate, Entry
    <2>2. SetTypes'
      BY <1>1, <2>1 DEF SetTypes
    <2> QED
      BY <1>1, <2>1, <2>2, SkipKeeps
  <1>4. CASE tasks[e.id] # NoTask
    <2>1. /\ tasks' = [tasks EXCEPT ![e.id] = c]
          /\ work.op = "one" => NextEntry(work)
          /\ work.op # "one" => work' = [work EXCEPT !.at = "links"] /\ lastSet' = lastSet
      BY <1>4 DEF ImportUpdate, Entry
    <2>2. /\ c \in SetRows /\ c.steps = e.content.steps
          /\ e.content.planning # "none" => c.planning = e.content.planning
      <3>1. tasks[e.id] \in SetRows
        BY <1>1, <1>2, <1>4 DEF SetTypes
      <3> QED
        BY <1>2, <3>1 DEF UpdateTemplate, SetRows
    <2> HIDE DEF c
    <2>3. /\ tasks' \in [TaskIds -> SetRows \cup {NoTask}] /\ tasks'[e.id] = c
          /\ \A t \in TaskIds : t # e.id => tasks'[t] = tasks[t]
      BY <1>1, <1>2, <2>1, <2>2 DEF SetTypes
    <2>4. RestoredIn(e, tasks') /\ tasks'[e.id] # NoTask
      BY <2>2, <2>3, SetRowsAssumption DEF RestoredIn
    <2>5. SetTypes'
      BY <1>1, <2>3 DEF SetTypes
    <2>6. ASSUME work.clean
          PROVE  /\ work.quiet /\ stray = {}
                 /\ \A i \in 1 .. work.k - 1 : DoneIn(work.list[i], work.op, tasks', links)
      <3>1. /\ work.quiet /\ stray = {}
            /\ \A i \in 1 .. work.k - 1 : DoneIn(work.list[i], work.op, tasks, links)
        BY <1>1, <2>6 DEF ImportIn, CleanIn
      <3>2. ASSUME NEW i \in 1 .. work.k - 1 PROVE DoneIn(work.list[i], work.op, tasks', links)
        <4>1. i \in 1 .. Len(work.list) /\ i # work.k
          BY <1>2
        <4> QED
          BY <1>2, <2>3, <3>1, <4>1, DoneStays
      <3> QED
        BY <3>1, <3>2
    <2>7. CASE work.op = "one"
      <3>1. ASSUME work.clean, NEW i \in 1 .. work.k PROVE DoneIn(work.list[i], work.op, tasks', links)
        <4>1. CASE i = work.k
          BY <2>4, <2>7, <4>1 DEF DoneIn
        <4>2. CASE i # work.k
          <5>1. i \in 1 .. work.k - 1
            BY <1>2, <4>2
          <5> QED
            BY <2>6, <3>1, <5>1
        <4> QED
          BY <4>1, <4>2
      <3>2. work.quiet => /\ stray' \subseteq links' /\ work.applied \subseteq links' \ stray'
                          /\ \A p \in work.applied : \E i \in 1 .. work.k : work.list[i].id = p[1]
        BY <1>1 DEF ImportIn, QuietIn
      <3>3. work.clean => /\ work.quiet /\ stray' = {}
                          /\ \A i \in 1 .. work.k : DoneIn(work.list[i], work.op, tasks', links')
        BY <1>1, <2>6, <3>1
      <3> QED
        BY <1>1, <2>1, <2>5, <2>7, <3>2, <3>3, NextEntryKeeps
    <2>8. CASE work.op # "one"
      <3>1. /\ work' \in Works /\ work'.op = work.op /\ work'.at = "links" /\ work'.list = work.list
            /\ work'.k = work.k /\ work'.applied = work.applied /\ work'.quiet = work.quiet
            /\ work'.clean = work.clean
        BY <1>1, <2>1, <2>8 DEF Works
      <3>2. Shape(work') /\ ImportsSet(work')
        BY <1>1, <2>8, <3>1 DEF Shape, ImportsSet
      <3>3. work'.quiet => QuietIn(work', links, stray)
        BY <1>1, <3>1 DEF ImportIn, QuietIn
      <3>4. work'.clean => CleanIn(work', tasks', links, stray)
        BY <2>4, <2>6, <3>1 DEF CleanIn
      <3> QED
        BY <1>1, <2>1, <2>5, <2>8, <3>2, <3>3, <3>4 DEF SetInv, ImportIn, LastIn
    <2> QED
      BY <2>7, <2>8
  <1> QED
    BY <1>3, <1>4

\* The assignments that are there are read, and each is asked to be taken away.
LEMMA ImportUnassignOK == ASSUME SetInv, ImportUnassign PROVE SetInv'
  <1> DEFINE e == work.list[work.k]
             old == {e.id} \X Assigned(e.id)
             R == Reassignable(e)
  <1>1. /\ SetTypes /\ Shape(work) /\ work \in Works /\ ImportsSet(work) /\ work.at = "links"
        /\ ImportIn(work, tasks, links, stray) /\ lastSet = NoSet
        /\ UNCHANGED <<tasks, links, files, picker, seen, lastSet, setOps>>
    BY DEF SetInv, Shape, ImportUnassign, Restoring, ImportsSet
  <1>2. /\ e.id \in TaskIds /\ FileList(work.list) /\ R \subseteq Rtms
        /\ work.k \in 1 .. Len(work.list) /\ Len(work.list) \in Nat
    BY <1>1, EntryType
  <1>3. /\ stray' = stray \cup old
        /\ work' = IF old = {} THEN [work EXCEPT !.at = "assign", !.todo = R]
                   ELSE [work EXCEPT !.at = "clear", !.todo = old]
    BY DEF ImportUnassign, Entry, ToAssign
  <1>4. /\ old \subseteq links /\ old \subseteq TaskIds \X Rtms
        /\ \A r \in AssignedIn(e.id, links) : <<e.id, r>> \in old
        /\ \A p \in old : p[1] = e.id
    BY <1>2 DEF Assigned, AssignedIn
  <1>5. old \subseteq Todo /\ R \subseteq Todo
    BY <1>2, <1>4 DEF Todo
  <1> HIDE DEF R, old
  <1>6. /\ work' \in Works /\ work'.op = work.op /\ work'.list = work.list /\ work'.k = work.k
        /\ work'.applied = work.applied /\ work'.quiet = work.quiet /\ work'.clean = work.clean
        /\ old = {} => work'.at = "assign" /\ work'.todo = R
        /\ old # {} => work'.at = "clear" /\ work'.todo = old
    BY <1>1, <1>3, <1>5 DEF Works
  <1>7. Shape(work') /\ ImportsSet(work')
    BY <1>1, <1>6 DEF Shape, ImportsSet
  <1>8. ASSUME work'.quiet PROVE QuietIn(work', links, stray')
    <2>1. QuietIn(work, links, stray)
      BY <1>1, <1>6, <1>8 DEF ImportIn
    <2>2. stray' \subseteq links
      BY <1>3, <1>4, <2>1 DEF QuietIn
    <2>3. ASSUME NEW p \in work.applied
          PROVE  p \notin old /\ \E j \in 1 .. work.k : work.list[j].id = p[1] /\ j # work.k
      <3>1. PICK j \in 1 .. work.k : work.list[j].id = p[1] /\ (j = work.k => work.at = "assign")
        BY <2>1, <2>3 DEF QuietIn
      <3>2. j # work.k /\ j \in DOMAIN work.list /\ work.k \in DOMAIN work.list
        BY <1>1, <1>2, <3>1 DEF FileList
      <3>3. p[1] # e.id
        BY <1>2, <3>1, <3>2 DEF FileList, OneEach
      <3> QED
        BY <1>4, <3>1, <3>2, <3>3
    <2>4. work.applied \subseteq links \ stray'
      BY <1>3, <2>1, <2>3 DEF QuietIn
    <2> QED
      BY <1>6, <2>2, <2>3, <2>4 DEF QuietIn
  <1>9. ASSUME work'.clean PROVE CleanIn(work', tasks, links, stray')
    <2>1. CleanIn(work, tasks, links, stray)
      BY <1>1, <1>6, <1>9 DEF ImportIn
    <2>2. stray = {} /\ RestoredIn(e, tasks) /\ tasks[e.id] # NoTask
      BY <1>1, <2>1 DEF CleanIn
    <2>3. CASE old = {}
      <3>1. AssignedIn(e.id, links) = {}
        BY <1>4, <2>3
      <3> QED
        BY <1>3, <1>6, <2>1, <2>2, <2>3, <3>1 DEF CleanIn, R
    <2>4. CASE old # {}
      <3>1. old \subseteq {e.id} \X Rtms
        BY <1>4
      <3> QED
        BY <1>3, <1>4, <1>6, <2>1, <2>2, <2>4, <3>1 DEF CleanIn
    <2> QED
      BY <2>3, <2>4
  <1>10. SetTypes'
    BY <1>1, <1>3, <1>4 DEF SetTypes
  <1> QED
    BY <1>1, <1>7, <1>8, <1>9, <1>10 DEF SetInv, ImportIn, LastIn

\* The answer to one of those requests, or the lack of one, while no operation or
\* another one waits for it.
LEMMA LateAnswerKeeps ==
    ASSUME SetInv, NEW q \in stray, stray' = stray \ {q}, links' = links \/ links' = links \ {q},
           work' = work, ~ (work.at = "clear" /\ q \in work.todo),
           UNCHANGED <<tasks, files, picker, seen, lastSet, setOps>>
    PROVE  SetInv'
  <1>1. /\ SetTypes /\ Shape(work) /\ ImportIn(work, tasks, links, stray)
        /\ LastIn(lastSet, tasks, links, stray)
    BY DEF SetInv
  <1>2. ImportsSet(work) /\ work.quiet => QuietIn(work, links', stray')
    BY <1>1 DEF ImportIn, QuietIn
  <1>3. ~ (ImportsSet(work) /\ work.clean)
    BY <1>1 DEF ImportIn, CleanIn
  <1>4. LastIn(lastSet, tasks, links', stray')
    BY <1>1 DEF LastIn
  <1>5. SetTypes'
    BY <1>1 DEF SetTypes
  <1> QED
    BY <1>1, <1>2, <1>3, <1>4, <1>5 DEF SetInv, ImportIn

\* An answer the import waits for.
LEMMA AwaitedAnswerKeeps ==
    ASSUME SetInv, NEW q \in stray, stray' = stray \ {q}, work.at = "clear", q \in work.todo,
           \/ links' = links \ {q} /\ work.todo = {q} /\ work' = ToAssign(work)
           \/ links' = links \ {q} /\ work' = [work EXCEPT !.todo = @ \ {q}]
           \/ /\ links' = links \/ links' = links \ {q}
              /\ work' = ToAssign([work EXCEPT !.clean = FALSE]),
           UNCHANGED <<tasks, files, picker, seen, lastSet, setOps>>
    PROVE  SetInv'
  <1> DEFINE e == work.list[work.k]
             R == Reassignable(e)
  <1>1. /\ SetTypes /\ Shape(work) /\ work \in Works /\ ImportsSet(work)
        /\ ImportIn(work, tasks, links, stray) /\ lastSet = NoSet
    <2>1. Shape(work) /\ work \in Works
      BY DEF SetInv, Shape
    <2>2. work.op \in {"none", "export", "set", "one"}
      BY <2>1 DEF Works
    <2>3. work.op # "none" /\ work.op # "export"
      BY <2>1 DEF Shape
    <2>4. ImportsSet(work)
      BY <2>2, <2>3 DEF ImportsSet
    <2> QED
      BY <2>1, <2>4 DEF SetInv
  <1>2. /\ e.id \in TaskIds /\ FileList(work.list) /\ R \subseteq Rtms
        /\ work.k \in 1 .. Len(work.list) /\ Len(work.list) \in Nat
    BY <1>1, EntryType
  <1>3. \/ /\ links' = links \ {q} /\ work.todo = {q}
           /\ work' = [work EXCEPT !.at = "assign", !.todo = R]
        \/ links' = links \ {q} /\ work' = [work EXCEPT !.todo = @ \ {q}]
        \/ /\ links' = links \/ links' = links \ {q}
           /\ work' = [[work EXCEPT !.clean = FALSE] EXCEPT !.at = "assign", !.todo = R]
    BY DEF ToAssign, Entry
  <1>4. R \subseteq Todo
    BY <1>2 DEF Todo
  <1> HIDE DEF R
  <1>5. /\ work' \in Works /\ work'.op = work.op /\ work'.list = work.list /\ work'.k = work.k
        /\ work'.applied = work.applied /\ work'.quiet = work.quiet
        /\ \/ /\ links' = links \ {q} /\ work.todo = {q} /\ work'.clean = work.clean
              /\ work'.at = "assign" /\ work'.todo = R
           \/ /\ links' = links \ {q} /\ work'.clean = work.clean
              /\ work'.at = "clear" /\ work'.todo = work.todo \ {q}
           \/ ~ work'.clean /\ work'.at = "assign" /\ work'.todo = R
    <2>1. CASE /\ links' = links \ {q} /\ work.todo = {q}
               /\ work' = [work EXCEPT !.at = "assign", !.todo = R]
      BY <1>1, <1>4, <2>1 DEF Works
    <2>2. CASE links' = links \ {q} /\ work' = [work EXCEPT !.todo = @ \ {q}]
      BY <1>1, <2>2 DEF Works
    <2>3. CASE work' = [[work EXCEPT !.clean = FALSE] EXCEPT !.at = "assign", !.todo = R]
      <3> DEFINE w == [work EXCEPT !.clean = FALSE]
      <3>1. /\ w \in Works /\ w.op = work.op /\ w.list = work.list /\ w.k = work.k
            /\ w.applied = work.applied /\ w.quiet = work.quiet /\ ~ w.clean
        BY <1>1 DEF Works
      <3>2. work' = [w EXCEPT !.at = "assign", !.todo = R]
        BY <2>3
      <3> HIDE DEF w
      <3> QED
        BY <1>4, <3>1, <3>2 DEF Works
    <2> QED
      BY <1>3, <2>1, <2>2, <2>3
  <1>6. Shape(work') /\ ImportsSet(work')
    BY <1>1, <1>5 DEF Shape, ImportsSet
  <1>7. ASSUME work'.quiet PROVE QuietIn(work', links', stray')
    <2>1. QuietIn(work, links, stray)
      BY <1>1, <1>5, <1>7 DEF ImportIn
    <2>2. stray' \subseteq links' /\ work.applied \subseteq links' \ stray'
      BY <1>3, <2>1 DEF QuietIn
    <2>3. \A p \in work.applied : \E j \in 1 .. work.k : work.list[j].id = p[1] /\ j # work.k
      BY <2>1 DEF QuietIn
    <2> QED
      BY <1>5, <2>2, <2>3 DEF QuietIn
  <1>8. ASSUME work'.clean PROVE CleanIn(work', tasks, links', stray')
    <2>1. CleanIn(work, tasks, links, stray) /\ links' = links \ {q}
      BY <1>1, <1>5, <1>8 DEF ImportIn
    <2>2. /\ stray = work.todo /\ stray \subseteq {e.id} \X Rtms /\ work.quiet
          /\ \A r \in AssignedIn(e.id, links) : <<e.id, r>> \in stray
          /\ \A i \in 1 .. work.k - 1 : DoneIn(work.list[i], work.op, tasks, links)
          /\ RestoredIn(e, tasks) /\ tasks[e.id] # NoTask
      BY <2>1 DEF CleanIn
    <2>3. \A t \in TaskIds : t # e.id => AssignedIn(t, links') = AssignedIn(t, links)
      BY <2>1, <2>2 DEF AssignedIn
    <2>4. ASSUME NEW i \in 1 .. work.k - 1 PROVE DoneIn(work.list[i], work.op, tasks, links')
      <3>1. i \in 1 .. Len(work.list) /\ i # work.k
        BY <1>2
      <3> QED
        BY <1>2, <2>2, <2>3, <3>1, DoneStays
    <2>5. \A r \in AssignedIn(e.id, links') : <<e.id, r>> \in stray'
      BY <2>1, <2>2 DEF AssignedIn
    <2>6. CASE work'.at = "clear"
      BY <1>5, <2>2, <2>4, <2>5, <2>6 DEF CleanIn
    <2>7. CASE work'.at = "assign"
      <3>1. stray' = {} /\ work'.todo = R
        BY <1>5, <1>8, <2>2, <2>7
      <3>2. AssignedIn(e.id, links') = {}
        BY <2>5, <3>1
      <3>3. {r \in R \ work'.todo : Capable(e.content, r)} = {}
        BY <3>1
      <3> QED
        BY <1>5, <2>2, <2>4, <2>7, <3>1, <3>2, <3>3 DEF CleanIn, R
    <2> QED
      BY <1>5, <2>6, <2>7
  <1>9. SetTypes'
    BY <1>1, <1>3 DEF SetTypes
  <1> QED
    BY <1>1, <1>6, <1>7, <1>8, <1>9 DEF SetInv, ImportIn, LastIn

LEMMA AnswerOK ==
    ASSUME SetInv, NEW q \in stray, Unassigned(q) \/ UnassignFails(q) PROVE SetInv'
  <1>1. /\ stray' = stray \ {q} /\ (links' = links \/ links' = links \ {q})
        /\ UNCHANGED <<tasks, files, picker, seen, lastSet, setOps>>
    BY DEF Unassigned, UnassignFails
  <1>2. CASE work.at = "clear" /\ q \in work.todo
    <2>1. \/ links' = links \ {q} /\ work.todo = {q} /\ work' = ToAssign(work)
          \/ links' = links \ {q} /\ work' = [work EXCEPT !.todo = @ \ {q}]
          \/ work' = ToAssign([work EXCEPT !.clean = FALSE])
      BY <1>2 DEF Unassigned, UnassignFails, Answered
    <2> QED
      BY <1>1, <1>2, <2>1, AwaitedAnswerKeeps
  <1>3. CASE ~ (work.at = "clear" /\ q \in work.todo)
    <2>1. work' = work
      BY <1>3 DEF Unassigned, UnassignFails, Answered
    <2> QED
      BY <1>1, <1>3, <2>1, LateAnswerKeeps
  <1> QED
    BY <1>2, <1>3

\* One assignment of the file, made or refused.
LEMMA ImportAssignOK == ASSUME SetInv, NEW r \in Rtms, ImportAssign(r) PROVE SetInv'
  <1> DEFINE e == work.list[work.k]
             p == <<e.id, r>>
             made == AssignTemplateToAgent(e.id, r)
  <1>1. /\ SetTypes /\ Shape(work) /\ work \in Works /\ ImportsSet(work) /\ work.at = "assign"
        /\ ImportIn(work, tasks, links, stray) /\ lastSet = NoSet /\ r \in work.todo
        /\ UNCHANGED <<tasks, files, stray, picker, seen, lastSet, setOps>>
    BY DEF SetInv, Shape, ImportAssign, Restoring, ImportsSet
  <1>2. /\ e.id \in TaskIds /\ FileList(work.list) /\ Reassignable(e) \subseteq Rtms
        /\ work.k \in 1 .. Len(work.list) /\ Len(work.list) \in Nat
        /\ p \in TaskIds \X Rtms
    BY <1>1, EntryType
  <1>3. /\ made => /\ links' = links \cup {p} /\ p \notin links
                   /\ work' = [[work EXCEPT !.todo = @ \ {r}] EXCEPT !.applied = @ \cup {p}]
        /\ ~ made => links' = links /\ work' = [work EXCEPT !.todo = @ \ {r}]
    BY DEF ImportAssign, Entry, AssignTemplateToAgent
  <1>4. /\ work' \in Works /\ work'.op = work.op /\ work'.at = "assign" /\ work'.list = work.list
        /\ work'.k = work.k /\ work'.quiet = work.quiet /\ work'.clean = work.clean
        /\ work'.todo = work.todo \ {r}
        /\ work'.applied = IF made THEN work.applied \cup {p} ELSE work.applied
    <2> DEFINE w == [work EXCEPT !.todo = @ \ {r}]
    <2>1. /\ w \in Works /\ w.op = work.op /\ w.at = "assign" /\ w.list = work.list
          /\ w.k = work.k /\ w.quiet = work.quiet /\ w.clean = work.clean
          /\ w.todo = work.todo \ {r} /\ w.applied = work.applied
      BY <1>1 DEF Works
    <2>2. /\ made => work' = [w EXCEPT !.applied = @ \cup {p}]
          /\ ~ made => work' = w
      BY <1>3
    <2> HIDE DEF w, p, made
    <2>3. CASE made
      BY <1>2, <2>1, <2>2, <2>3 DEF Works
    <2>4. CASE ~ made
      BY <2>1, <2>2, <2>4
    <2> QED
      BY <2>3, <2>4
  <1>5. Shape(work') /\ ImportsSet(work')
    BY <1>1, <1>4 DEF Shape, ImportsSet
  <1>6. ASSUME work'.quiet PROVE QuietIn(work', links', stray)
    <2>1. QuietIn(work, links, stray)
      BY <1>1, <1>4, <1>6 DEF ImportIn
    <2>2. stray \subseteq links' /\ work'.applied \subseteq links' \ stray
      BY <1>3, <1>4, <2>1 DEF QuietIn
    <2>3. ASSUME NEW x \in work'.applied
          PROVE  \E j \in 1 .. work'.k : work'.list[j].id = x[1] /\ (j = work'.k => work'.at = "assign")
      <3>1. CASE x \in work.applied
        BY <1>4, <2>1, <3>1 DEF QuietIn
      <3>2. CASE x = p
        BY <1>2, <1>4, <3>2
      <3> QED
        BY <1>4, <2>3, <3>1, <3>2
    <2> QED
      BY <2>2, <2>3 DEF QuietIn
  <1>7. ASSUME work'.clean PROVE CleanIn(work', tasks, links', stray)
    <2>1. CleanIn(work, tasks, links, stray)
      BY <1>1, <1>4, <1>7 DEF ImportIn
    <2>2. /\ work.quiet /\ stray = {} /\ RestoredIn(e, tasks) /\ tasks[e.id] # NoTask
          /\ \A i \in 1 .. work.k - 1 : DoneIn(work.list[i], work.op, tasks, links)
          /\ work.todo \subseteq Reassignable(e)
          /\ AssignedIn(e.id, links) = {x \in Reassignable(e) \ work.todo : Capable(e.content, x)}
      BY <1>1, <2>1 DEF CleanIn
    <2>3. \A t \in TaskIds : t # e.id => AssignedIn(t, links') = AssignedIn(t, links)
      BY <1>3 DEF AssignedIn
    <2>4. ASSUME NEW i \in 1 .. work.k - 1 PROVE DoneIn(work.list[i], work.op, tasks, links')
      <3>1. i \in 1 .. Len(work.list) /\ i # work.k
        BY <1>2
      <3> QED
        BY <1>2, <2>2, <2>3, <3>1, DoneStays
    <2>5. made <=> Capable(e.content, r)
      <3>1. <<e.id, r>> \notin links
        BY <1>1, <2>2 DEF AssignedIn
      <3> QED
        BY <2>2, <3>1 DEF AssignTemplateToAgent, Capable, RestoredIn
    <2>6. AssignedIn(e.id, links') = {x \in Reassignable(e) \ work'.todo : Capable(e.content, x)}
      <3>1. CASE made
        <4>1. AssignedIn(e.id, links') = AssignedIn(e.id, links) \cup {r}
          BY <1>3, <3>1 DEF AssignedIn
        <4> QED
          BY <1>1, <1>4, <2>2, <2>5, <3>1, <4>1
      <3>2. CASE ~ made
        <4>1. AssignedIn(e.id, links') = AssignedIn(e.id, links)
          BY <1>3, <3>2 DEF AssignedIn
        <4> QED
          BY <1>1, <1>4, <2>2, <2>5, <3>2, <4>1
      <3> QED
        BY <3>1, <3>2
    <2>7. work'.todo \subseteq Reassignable(e)
      BY <1>4, <2>2
    <2> QED
      BY <1>4, <2>2, <2>4, <2>6, <2>7 DEF CleanIn
  <1>8. SetTypes'
    BY <1>1, <1>2, <1>3 DEF SetTypes
  <1> QED
    BY <1>1, <1>5, <1>6, <1>7, <1>8 DEF SetInv, ImportIn, LastIn

\* One that fails: the promise that all is as the file says ends.
LEMMA ImportAssignFailsOK == ASSUME SetInv, NEW r \in Rtms, ImportAssignFails(r) PROVE SetInv'
  <1>1. /\ SetTypes /\ Shape(work) /\ work \in Works /\ ImportsSet(work) /\ work.at = "assign"
        /\ ImportIn(work, tasks, links, stray) /\ lastSet = NoSet
        /\ work' = [work EXCEPT !.todo = @ \ {r}, !.clean = FALSE]
        /\ UNCHANGED <<tasks, links, files, stray, picker, seen, lastSet, setOps>>
    BY DEF SetInv, Shape, ImportAssignFails, Restoring, ImportsSet, Working
  <1>2. /\ work' \in Works /\ work'.op = work.op /\ work'.at = "assign" /\ work'.list = work.list
        /\ work'.k = work.k /\ work'.quiet = work.quiet /\ ~ work'.clean
        /\ work'.applied = work.applied
    BY <1>1 DEF Works
  <1>3. Shape(work') /\ ImportsSet(work')
    BY <1>1, <1>2 DEF Shape, ImportsSet
  <1>4. work'.quiet => QuietIn(work', links, stray)
    BY <1>1, <1>2 DEF ImportIn, QuietIn
  <1>5. SetTypes'
    BY <1>1 DEF SetTypes
  <1> QED
    BY <1>1, <1>2, <1>3, <1>4, <1>5 DEF SetInv, ImportIn, LastIn

LEMMA ImportEntryDoneOK == ASSUME SetInv, ImportEntryDone PROVE SetInv'
  <1> DEFINE e == work.list[work.k]
  <1>1. /\ SetTypes /\ Shape(work) /\ work \in Works /\ ImportsSet(work) /\ work.at = "assign"
        /\ ImportIn(work, tasks, links, stray) /\ lastSet = NoSet /\ work.todo = {} /\ NextEntry(work)
        /\ UNCHANGED <<tasks, links, files, stray, picker, seen, setOps>>
    BY DEF SetInv, Shape, ImportEntryDone, Restoring, ImportsSet
  <1>2. work.k \in 1 .. Len(work.list) /\ Len(work.list) \in Nat
    BY <1>1, EntryType
  <1>3. work.quiet => /\ stray \subseteq links /\ work.applied \subseteq links \ stray
                      /\ \A p \in work.applied : \E i \in 1 .. work.k : work.list[i].id = p[1]
    BY <1>1 DEF ImportIn, QuietIn
  <1>4. ASSUME work.clean
        PROVE  /\ work.quiet /\ stray = {}
               /\ \A i \in 1 .. work.k : DoneIn(work.list[i], work.op, tasks, links)
    <2>1. /\ work.quiet /\ stray = {} /\ RestoredIn(e, tasks)
          /\ \A i \in 1 .. work.k - 1 : DoneIn(work.list[i], work.op, tasks, links)
          /\ AssignedIn(e.id, links) = {x \in Reassignable(e) \ {} : Capable(e.content, x)}
      BY <1>1, <1>4 DEF ImportIn, CleanIn
    <2>2. DoneIn(e, work.op, tasks, links)
      BY <2>1 DEF DoneIn
    <2>3. \A i \in 1 .. work.k : i = work.k \/ i \in 1 .. work.k - 1
      BY <1>2
    <2> QED
      BY <2>1, <2>2, <2>3
  <1>5. SetTypes'
    BY <1>1 DEF SetTypes
  <1> QED
    BY <1>1, <1>3, <1>4, <1>5, NextEntryKeeps

LEMMA SetRequestFailsOK == ASSUME SetInv, SetRequestFails PROVE SetInv'
  <1> DEFINE e == work.list[work.k]
             R == Reassignable(e)
  <1>1. /\ SetTypes /\ Shape(work) /\ work \in Works /\ ImportIn(work, tasks, links, stray)
        /\ work.at \in {"list", "create", "update", "links"}
        /\ UNCHANGED <<tasks, links, files, stray, picker, seen, setOps>>
    BY DEF SetInv, Shape, SetRequestFails
  <1>2. SetTypes'
    BY <1>1 DEF SetTypes
  <1>3. CASE work.op = "export" \/ work.at = "list"
    <2>1. work' = Idle /\ lastSet' = NoSet
      BY <1>1, <1>3 DEF SetRequestFails, Shape
    <2> QED
      BY <1>2, <2>1, IdleShape DEF SetInv, ImportIn, LastIn
  <1>4. CASE ~ (work.op = "export" \/ work.at = "list")
    <2>1. ImportsSet(work)
      <3>1. work.op \in {"none", "export", "set", "one"}
        BY <1>1 DEF Works
      <3>2. work.op # "none"
        BY <1>1 DEF Shape
      <3> QED
        BY <1>4, <3>1, <3>2 DEF ImportsSet
    <2>2. lastSet = NoSet
      BY <2>1 DEF SetInv
    <2>3. CASE work.at = "links"
      <3>1. work' = [[work EXCEPT !.clean = FALSE] EXCEPT !.at = "assign", !.todo = R] /\ lastSet' = lastSet
        BY <1>4, <2>3 DEF SetRequestFails, ToAssign, Entry
      <3>2. R \subseteq Todo
        BY <1>1, <2>1, EntryType DEF Todo
      <3> HIDE DEF R
      <3>3. /\ work' \in Works /\ work'.op = work.op /\ work'.list = work.list /\ work'.k = work.k
            /\ work'.applied = work.applied /\ work'.quiet = work.quiet /\ ~ work'.clean
            /\ work'.at = "assign"
        <4> DEFINE w == [work EXCEPT !.clean = FALSE]
        <4>1. /\ w \in Works /\ w.op = work.op /\ w.list = work.list /\ w.k = work.k
              /\ w.applied = work.applied /\ w.quiet = work.quiet /\ ~ w.clean
          BY <1>1 DEF Works
        <4>2. work' = [w EXCEPT !.at = "assign", !.todo = R]
          BY <3>1
        <4> HIDE DEF w
        <4> QED
          BY <3>2, <4>1, <4>2 DEF Works
      <3>4. Shape(work') /\ ImportsSet(work')
        BY <1>1, <2>1, <2>3, <3>3 DEF Shape, ImportsSet
      <3>5. work'.quiet => QuietIn(work', links, stray)
        BY <1>1, <2>1, <2>3, <3>3 DEF ImportIn, QuietIn
      <3> QED
        BY <1>1, <1>2, <2>2, <3>1, <3>3, <3>4, <3>5 DEF SetInv, ImportIn, LastIn
    <2>4. CASE work.at # "links"
      <3>1. Skip
        BY <1>4, <2>4 DEF SetRequestFails
      <3> QED
        BY <1>1, <1>2, <2>1, <3>1, SkipKeeps
    <2> QED
      BY <2>3, <2>4
  <1> QED
    BY <1>3, <1>4

LEMMA SetsNextOK == SetInv /\ [SetsNext]_setVars => SetInv'
  <1> SUFFICES ASSUME SetInv, [SetsNext]_setVars PROVE SetInv'
    OBVIOUS
  <1>1. CASE SetsUser
    BY <1>1, SetsUserOK
  <1>2. CASE SetsSteps
    BY <1>2, ExportOK, ImportListedOK, ImportCreateOK, ImportUpdateOK, ImportUnassignOK, AnswerOK,
       ImportAssignOK, ImportAssignFailsOK, ImportEntryDoneOK, SetRequestFailsOK DEF SetsSteps
  <1>3. CASE UNCHANGED setVars
    BY <1>3 DEF setVars, SetInv, SetTypes
  <1> QED
    BY <1>1, <1>2, <1>3 DEF SetsNext

\* After an import nobody else's writes fell into, what it counted as assigned is
\* assigned, late answers to its own unassign requests notwithstanding; and when no
\* request failed, the tasks of the file and their assignments are as the file says.
THEOREM TaskSetRestoredCorrect == Spec => []TaskSetRestored
  <1>1. Init => SetInv
    BY SetsInitOK DEF Init
  <1>2. SetInv /\ [Next]_vars => SetInv'
    BY SetsNextOK, ScreenSteps
  <1>3. SetInv => TaskSetRestored
    BY SetInvRestored
  <1> QED
    BY <1>1, <1>2, <1>3, PTL DEF Spec

(***************************************************************************)
(* The library of task distributors                                        *)
(***************************************************************************)
RowIds == 1 .. MaxIds
AnyRows == [id : RowIds, td : TdIds, name : ResourceNames, kind : {"type", "instance"},
            parent : 0 .. MaxIds]
ResourceRows == {r \in AnyRows : r.kind = "type" => r.parent = 0}
StateRows == [id : RowIds, td : TdIds, name : StateNames]
Libraries == [tds : SUBSET TdIds, gone : SUBSET TdIds, tdName : [TdIds -> TdIds],
              nextId : 1 .. MaxIds + 1, res : SUBSET ResourceRows, states : SUBSET StateRows,
              policy : [TdIds -> Priorities \cup {"none"}],
              task : [owner : TdIds, tokens : SUBSET RowIds]]

\* Each row of R has a number of its own, below n.
Numbered(R, n) == (\A r, s \in R : r.id = s.id => r = s) /\ \A r \in R : r.id < n

\* Its rows are finitely many, so that they can be listed in a profile.
Library(l) ==
    /\ l \in Libraries /\ IsFiniteSet(l.res) /\ IsFiniteSet(l.states)
    /\ Numbered(l.res, l.nextId) /\ Numbered(l.states, l.nextId)

AnyEntries == [name : ResourceNames, kind : {"type", "instance"},
               parent_name : ResourceNames \cup {NoTd}]
ProfileEntries == {e \in AnyEntries : e.kind = "type" => e.parent_name = NoTd}
ProfileFiles == [id : TdIds \cup {NoTd}, name : TdIds, resources : Seq(ProfileEntries),
                 states : Seq(StateNames), policy : Priorities, withTask : BOOLEAN]

BuildJobs == [kind : {"generate", "add"}, click : Nat, td : TdIds, base : Bases,
              names : SUBSET ResourceNames, parent : 0 .. MaxIds, touched : BOOLEAN]
Requirements == [owner : TdIds, pairs : SUBSET ({"type", "instance"} \X ResourceNames)]
ImportJobs == [kind : {"import"}, profile : ProfileFiles, td : TdIds \cup {NoTd},
               stage : {"find", "clear", "states", "types", "instances", "policies", "bind"},
               at : Nat \ {0}, states : SUBSET RowIds, resources : (SUBSET RowIds) \cup (SUBSET ResourceRows),
               typeResourceByName : SUBSET ((ResourceNames \cup {NoTd}) \X RowIds),
               before : Requirements \cup {NoTd},
               known : Libraries \cup {NoTd}, touched : BOOLEAN]

\* A builder has finitely many names; an import knows its distributor once it was
\* found, and has the rows themselves before it binds the tasks.
LibJob(j) ==
    \/ j \in BuildJobs /\ IsFiniteSet(j.names)
    \/ /\ j \in ImportJobs
       /\ j.stage # "find" => j.td \in TdIds
       /\ j.stage = "bind" => j.resources \subseteq ResourceRows

LibInv ==
    /\ Library(lib) /\ Library(view) /\ file \in ProfileFiles \cup {NoTd}
    /\ \A j \in jobs : LibJob(j)
    /\ libOps \in Nat

LEMMA LibTypes == LibInv => ProfileTypeOK
  BY DEF LibInv, Library, Libraries, ProfileTypeOK, ResourceRows, AnyRows, StateRows

LEMMA SettledJob ==
    ASSUME NEW j, LibJob(j) PROVE LibJob([j EXCEPT !.touched = TRUE])
  <1> DEFINE k == [j EXCEPT !.touched = TRUE]
  <1>1. CASE j \in BuildJobs /\ IsFiniteSet(j.names)
    <2>1. k \in BuildJobs /\ k.names = j.names
      BY <1>1 DEF BuildJobs
    <2> QED BY <1>1, <2>1 DEF LibJob
  <1>2. CASE j \in ImportJobs /\ (j.stage # "find" => j.td \in TdIds)
             /\ (j.stage = "bind" => j.resources \subseteq ResourceRows)
    <2>1. k \in ImportJobs /\ k.stage = j.stage /\ k.td = j.td /\ k.resources = j.resources
      BY <1>2 DEF ImportJobs
    <2> QED BY <1>2, <2>1 DEF LibJob
  <1> QED BY <1>1, <1>2 DEF LibJob

\* A write leaves the other jobs what they are.
LEMMA WriteOK ==
    ASSUME LibInv, NEW l, Library(l), NEW js, \A j \in js : LibJob(j),
           Write(l, js), UNCHANGED <<view, file>>, libOps' \in Nat
    PROVE  LibInv'
  BY DEF LibInv, Write

LEMMA TouchedOK == ASSUME LibInv PROVE \A j \in Touched : LibJob(j)
  BY SettledJob DEF LibInv, Touched

LEMMA LibOpOK == ASSUME LibInv, LibOp PROVE libOps' \in Nat
  BY DEF LibInv, LibOp

\* Rows stay numbered when some go, and when new ones take the next numbers.
LEMMA NumberedLess ==
    ASSUME NEW R, NEW Q \in SUBSET R, NEW n \in Nat, NEW m \in Nat, n <= m, Numbered(R, n),
           \A r \in R : r.id \in Nat
    PROVE  Numbered(Q, m)
  BY DEF Numbered

LEMMA NumberedMore ==
    ASSUME NEW R, NEW Q, NEW n \in Nat, NEW m \in Nat, n <= m, Numbered(R, n), Numbered(Q, m),
           \A r \in R : r.id \in Nat, \A q \in Q : q.id \in Nat /\ q.id >= n
    PROVE  Numbered(R \cup Q, m)
  BY DEF Numbered

LEMMA RowNumbers ==
    ASSUME NEW l, Library(l)
    PROVE  /\ l.nextId \in Nat /\ l.nextId \in 1 .. MaxIds + 1
           /\ Numbered(l.res, l.nextId) /\ Numbered(l.states, l.nextId)
           /\ \A r \in l.res : r.id \in Nat
           /\ \A r \in l.states : r.id \in Nat
  BY ProfileAssumption DEF Library, Libraries, RowIds, ResourceRows, AnyRows, StateRows

\* The writes of the server keep the library one.
LEMMA ResourceCreated ==
    ASSUME NEW l, Library(l), l.nextId <= MaxIds, NEW td \in TdIds, NEW name \in ResourceNames,
           NEW kind \in {"type", "instance"}, NEW parent \in 0 .. MaxIds, kind = "type" => parent = 0
    PROVE  Library(createResource(l, td, name, kind, parent))
  <1> DEFINE r == [id |-> l.nextId, td |-> td, name |-> name, kind |-> kind, parent |-> parent]
             R == l.res \cup {r}
             m == [l EXCEPT !.nextId = l.nextId + 1, !.res = R]
  <1>1. createResource(l, td, name, kind, parent) = m
    BY DEF createResource
  <1>2. l.nextId \in RowIds /\ l.nextId + 1 \in 1 .. MaxIds + 1
    BY ProfileAssumption DEF Library, Libraries, RowIds
  <1>3. r \in ResourceRows
    BY <1>2 DEF ResourceRows, AnyRows
  <1>4. R \in SUBSET ResourceRows /\ IsFiniteSet(R)
    <2> HIDE DEF r
    <2> QED BY <1>3, FS_AddElement DEF Library, Libraries
  <1>6. Numbered(R, l.nextId + 1) /\ Numbered(l.states, l.nextId + 1)
    <2>1. r.id = l.nextId OBVIOUS
    <2> HIDE DEF r
    <2>2. Numbered({r}, l.nextId + 1) BY <2>1, RowNumbers DEF Numbered
    <2> QED BY <2>1, <2>2, RowNumbers, NumberedLess, NumberedMore
  <1> HIDE DEF r, R
  <1>5. m \in Libraries /\ m.res = R /\ m.states = l.states /\ m.nextId = l.nextId + 1
    BY <1>2, <1>4 DEF Library, Libraries
  <1>7. IsFiniteSet(l.states) BY DEF Library
  <1> HIDE DEF m
  <1> QED BY <1>1, <1>4, <1>5, <1>6, <1>7 DEF Library

LEMMA StateCreated ==
    ASSUME NEW l, Library(l), l.nextId <= MaxIds, NEW td \in TdIds, NEW name \in StateNames
    PROVE  Library(createState(l, td, name))
  <1> DEFINE s == [id |-> l.nextId, td |-> td, name |-> name]
             S == l.states \cup {s}
             m == [l EXCEPT !.nextId = l.nextId + 1, !.states = S]
  <1>1. createState(l, td, name) = m
    BY DEF createState
  <1>2. l.nextId \in RowIds /\ l.nextId + 1 \in 1 .. MaxIds + 1
    BY ProfileAssumption DEF Library, Libraries, RowIds
  <1>3. s \in StateRows
    BY <1>2 DEF StateRows
  <1>4. S \in SUBSET StateRows /\ IsFiniteSet(S)
    <2> HIDE DEF s
    <2> QED BY <1>3, FS_AddElement DEF Library, Libraries
  <1>6. Numbered(S, l.nextId + 1) /\ Numbered(l.res, l.nextId + 1)
    <2>1. s.id = l.nextId OBVIOUS
    <2> HIDE DEF s
    <2>2. Numbered({s}, l.nextId + 1) BY <2>1, RowNumbers DEF Numbered
    <2>3. l.nextId + 1 \in Nat /\ l.nextId <= l.nextId + 1 BY RowNumbers
    <2>4. \A q \in {s} : q.id \in Nat /\ q.id >= l.nextId BY <2>1, RowNumbers
    <2>5. Numbered(l.states \cup {s}, l.nextId + 1)
      BY <2>2, <2>3, <2>4, RowNumbers, NumberedMore
    <2> QED BY <2>3, <2>5, RowNumbers, NumberedLess
  <1> HIDE DEF s, S
  <1>5. m \in Libraries /\ m.states = S /\ m.res = l.res /\ m.nextId = l.nextId + 1
    BY <1>2, <1>4 DEF Library, Libraries
  <1>7. IsFiniteSet(l.res) BY DEF Library
  <1> HIDE DEF m
  <1> QED BY <1>1, <1>4, <1>5, <1>6, <1>7 DEF Library

LEMMA ResourcesDeleted ==
    ASSUME NEW l, Library(l), NEW ids PROVE Library(deleteResources(l, ids))
  <1> DEFINE R == {r \in l.res : r.id \notin ids /\ r.parent \notin ids}
             m == [l EXCEPT !.res = R]
  <1>1. deleteResources(l, ids) = m
    BY DEF deleteResources
  <1>2. R \in SUBSET l.res /\ IsFiniteSet(R)
    BY FS_Subset DEF Library
  <1> HIDE DEF R
  <1>3. m \in Libraries /\ m.states = l.states /\ m.res = R /\ m.nextId = l.nextId
    BY <1>2 DEF Library, Libraries
  <1>4. Numbered(R, l.nextId) /\ IsFiniteSet(l.states) BY <1>2, RowNumbers, NumberedLess DEF Library
  <1> HIDE DEF m
  <1> QED BY <1>1, <1>2, <1>3, <1>4, RowNumbers DEF Library

LEMMA StatesDeleted ==
    ASSUME NEW l, Library(l), NEW ids PROVE Library(deleteStates(l, ids))
  <1> DEFINE S == {s \in l.states : s.id \notin ids}
             m == [l EXCEPT !.states = S]
  <1>1. deleteStates(l, ids) = m
    BY DEF deleteStates
  <1>2. S \in SUBSET l.states /\ IsFiniteSet(S)
    BY FS_Subset DEF Library
  <1> HIDE DEF S
  <1>3. m \in Libraries /\ m.states = S /\ m.res = l.res /\ m.nextId = l.nextId
    BY <1>2 DEF Library, Libraries
  <1>4. Numbered(S, l.nextId) /\ IsFiniteSet(l.res) BY <1>2, RowNumbers, NumberedLess DEF Library
  <1> HIDE DEF m
  <1> QED BY <1>1, <1>2, <1>3, <1>4, RowNumbers DEF Library

\* What is exported of a library is a profile.
LEMMA ProfileType ==
    ASSUME NEW l, Library(l), NEW td \in TdIds
    PROVE  ProfileOf(l, td) \in ProfileFiles
  <1> DEFINE R == resourcesOf(l, td)
             T == statesOf(l, td)
             rs == SetToSeq(R)
             ss == SetToSeq(T)
             es == [i \in DOMAIN rs |-> Exported(l, td, rs[i])]
             ns == [i \in DOMAIN ss |-> ss[i].name]
  <1>1. R \in SUBSET ResourceRows /\ R \subseteq l.res /\ IsFiniteSet(R)
    BY FS_Subset DEF Library, Libraries, resourcesOf
  <1>2. T \in SUBSET StateRows /\ T \subseteq l.states /\ IsFiniteSet(T)
    BY FS_Subset DEF Library, Libraries, statesOf
  <1>3. ASSUME NEW r \in R PROVE Exported(l, td, r) \in ProfileEntries
    <2> DEFINE parents == {p \in resourcesOf(l, td) : p.id = r.parent}
               up == IF parents = {} THEN NoTd ELSE (CHOOSE p \in parents : TRUE).name
    <2>1. Exported(l, td, r) = [name |-> r.name, kind |-> r.kind, parent_name |-> up]
      BY DEF Exported
    <2>2. r.name \in ResourceNames /\ r.kind \in {"type", "instance"}
      BY <1>1 DEF ResourceRows, AnyRows
    <2>3. up \in ResourceNames \cup {NoTd}
      <3>1. parents # {} => (CHOOSE p \in parents : TRUE) \in ResourceRows
        BY <1>1
      <3> QED BY <3>1 DEF ResourceRows, AnyRows
    <2>4. r.kind = "type" => up = NoTd
      <3>1. \A p \in R : p.id # 0
        BY <1>1, ProfileAssumption DEF ResourceRows, AnyRows, RowIds
      <3>2. r.kind = "type" => r.parent = 0
        BY <1>1 DEF ResourceRows
      <3> QED BY <3>1, <3>2
    <2> HIDE DEF up
    <2> QED BY <2>1, <2>2, <2>3, <2>4 DEF ProfileEntries, AnyEntries
  <1>4. /\ rs \in Seq(R) /\ ss \in Seq(T)
        /\ DOMAIN rs = 1 .. Cardinality(R) /\ DOMAIN ss = 1 .. Cardinality(T)
        /\ Cardinality(R) \in Nat /\ Cardinality(T) \in Nat
    BY <1>1, <1>2, SetToSeqOnce
  <1>5. ProfileOf(l, td) =
          [id |-> td, name |-> l.tdName[td], resources |-> es, states |-> ns,
           policy |-> normalizeStateMergePolicies(l.policy[td]), withTask |-> l.task.owner = td]
    BY DEF ProfileOf
  <1> HIDE DEF R, T, rs, ss
  <1>6. es \in Seq(ProfileEntries)
    BY <1>3, <1>4
  <1>7. ns \in Seq(StateNames)
    <2>1. \A i \in DOMAIN ss : ss[i] \in StateRows
      BY <1>2, <1>4
    <2>2. \A i \in DOMAIN ss : ss[i].name \in StateNames
      BY <2>1 DEF StateRows
    <2> QED BY <1>4, <2>2
  <1>8. normalizeStateMergePolicies(l.policy[td]) \in Priorities
    BY DEF Library, Libraries, normalizeStateMergePolicies, Priorities
  <1>9. l.tdName[td] \in TdIds /\ (l.task.owner = td) \in BOOLEAN
    BY DEF Library, Libraries
  <1> HIDE DEF es, ns
  <1> QED BY <1>5, <1>6, <1>7, <1>8, <1>9 DEF ProfileFiles

LEMMA LibInitOK == ProfileInit => LibInv
  <1> SUFFICES ASSUME ProfileInit PROVE LibInv
    OBVIOUS
  <1>1. PICK b \in Bases :
        lib = [tds |-> {FirstTd}, gone |-> {}, tdName |-> [x \in TdIds |-> x], nextId |-> 4,
               res |-> {[id |-> 1, td |-> FirstTd, name |-> <<b, 0>>, kind |-> "type", parent |-> 0],
                        [id |-> 2, td |-> FirstTd, name |-> <<b, 1>>, kind |-> "instance", parent |-> 1]},
               states |-> {[id |-> 3, td |-> FirstTd, name |-> <<b, 1>>]},
               policy |-> [x \in TdIds |-> "none"], task |-> [owner |-> FirstTd, tokens |-> {2}]]
    BY DEF ProfileInit
  <1>2. FirstTd \in TdIds
    BY ProfileAssumption DEF FirstTd
  <1>3. <<b, 0>> \in ResourceNames /\ <<b, 1>> \in ResourceNames
    BY ProfileAssumption DEF ResourceNames
  <1>4. 1 \in RowIds /\ 2 \in RowIds /\ 3 \in RowIds /\ 4 \in 1 .. MaxIds + 1
        /\ 0 \in 0 .. MaxIds /\ 1 \in 0 .. MaxIds
    BY ProfileAssumption DEF RowIds
  <1>5. lib.res \in SUBSET ResourceRows /\ IsFiniteSet(lib.res)
    <2> DEFINE x == [id |-> 1, td |-> FirstTd, name |-> <<b, 0>>, kind |-> "type", parent |-> 0]
               y == [id |-> 2, td |-> FirstTd, name |-> <<b, 1>>, kind |-> "instance", parent |-> 1]
    <2>1. lib.res = {x, y}
      BY <1>1
    <2>2. x \in ResourceRows /\ y \in ResourceRows
      BY <1>2, <1>3, <1>4 DEF ResourceRows, AnyRows
    <2> HIDE DEF x, y
    <2>3. IsFiniteSet({x, y})
      <3>1. IsFiniteSet({x}) BY FS_Singleton
      <3> QED BY <3>1, FS_AddElement
    <2> QED BY <2>1, <2>2, <2>3
  <1>6. lib.states \in SUBSET StateRows /\ IsFiniteSet(lib.states)
    <2> DEFINE x == [id |-> 3, td |-> FirstTd, name |-> <<b, 1>>]
    <2>1. lib.states = {x}
      BY <1>1
    <2>2. x \in StateRows
      BY <1>2, <1>3, <1>4 DEF StateRows, StateNames
    <2> HIDE DEF x
    <2> QED BY <2>1, <2>2, FS_Singleton
  <1>7. Library(lib)
    <2>1. lib = [tds |-> {FirstTd}, gone |-> {}, tdName |-> [x \in TdIds |-> x], nextId |-> 4,
                 res |-> lib.res, states |-> lib.states,
                 policy |-> [x \in TdIds |-> "none"], task |-> [owner |-> FirstTd, tokens |-> {2}]]
      BY <1>1
    <2>2. /\ {FirstTd} \in SUBSET TdIds /\ {} \in SUBSET TdIds /\ {2} \in SUBSET RowIds
          /\ [x \in TdIds |-> x] \in [TdIds -> TdIds]
          /\ [x \in TdIds |-> "none"] \in [TdIds -> Priorities \cup {"none"}]
      BY <1>2, <1>4
    <2>3. [owner |-> FirstTd, tokens |-> {2}] \in [owner : TdIds, tokens : SUBSET RowIds]
      BY <1>2, <2>2
    <2>4. lib \in Libraries /\ lib.nextId = 4
      BY <1>4, <1>5, <1>6, <2>1, <2>2, <2>3 DEF Libraries
    <2>5. Numbered(lib.res, 4) /\ Numbered(lib.states, 4)
      BY <1>1 DEF Numbered
    <2> QED BY <1>5, <1>6, <2>4, <2>5 DEF Library
  <1>8. ASSUME NEW p \in OldProfiles(lib) PROVE p \in ProfileFiles
    <2>1. ProfileOf(lib, FirstTd) \in ProfileFiles
      BY <1>2, <1>7, ProfileType
    <2> DEFINE o == ProfileOf(lib, FirstTd)
    <2> HIDE DEF o
    <2>2. ASSUME NEW n \in TdIds, p = [o EXCEPT !.id = NoTd, !.name = n] PROVE p \in ProfileFiles
      BY <2>1, <2>2 DEF o, ProfileFiles
    <2>3. ASSUME p = [o EXCEPT !.id = NoTd,
                         !.resources = Filter(@, LAMBDA r : r.kind = "instance")]
          PROVE  p \in ProfileFiles
      <3>1. o.resources \in Seq(ProfileEntries) BY <2>1 DEF o, ProfileFiles
      <3> DEFINE I == {i \in DOMAIN o.resources : o.resources[i].kind = "instance"}
      <3>2. p = [o EXCEPT !.id = NoTd, !.resources = At(o.resources, I)]
        BY <2>3 DEF Filter
      <3>3. At(o.resources, I) \in Seq(ProfileEntries)
        BY <3>1, AtPositions
      <3> HIDE DEF I
      <3> QED BY <2>1, <3>2, <3>3 DEF o, ProfileFiles
    <2> QED BY <1>8, <2>2, <2>3 DEF OldProfiles, o
  <1> QED BY <1>7, <1>8 DEF ProfileInit, LibInv

LEMMA FitsOne == ASSUME LibInv, NEW n \in Nat, Fits(n) PROVE n > 0 => lib.nextId <= MaxIds
  BY ProfileAssumption DEF Fits, LibInv, Library, Libraries

\* A write of the user, or of another client.
LEMMA UserWriteOK ==
    ASSUME LibInv, LibOp, NEW l, Library(l), Write(l, Touched), UNCHANGED <<view, file>>
    PROVE  LibInv'
  BY WriteOK, TouchedOK, LibOpOK

\* The types that the builder may find, and the one it creates.
LEMMA BuilderParent ==
    ASSUME LibInv, NEW td \in TdIds, NEW b
    PROVE  \A t \in typeNamed(view, td, b) : t.id \in 0 .. MaxIds
  BY ProfileAssumption
     DEF LibInv, Library, Libraries, typeNamed, resourcesOf, ResourceRows, AnyRows, RowIds

LEMMA BuildJobOK ==
    ASSUME LibInv, NEW kind \in {"generate", "add"}, NEW td \in TdIds, NEW b \in Bases,
           NEW names \in SUBSET ResourceNames, IsFiniteSet(names), NEW parent \in 0 .. MaxIds
    PROVE  LibJob(BuildJob(kind, td, b, names, parent))
  <1> DEFINE j == BuildJob(kind, td, b, names, parent)
  <1>1. j \in BuildJobs /\ j.names = names
    BY DEF BuildJob, BuildJobs, LibInv
  <1> QED BY <1>1 DEF LibJob

\* Both buttons of the builder create the type unless it is loaded, and leave a job.
LEMMA BuilderOK ==
    ASSUME LibInv, LibOp, UNCHANGED <<view, file>>,
           NEW kind \in {"generate", "add"}, NEW td \in TdIds, NEW b \in Bases,
           NEW names \in SUBSET ResourceNames, IsFiniteSet(names), lib.nextId <= MaxIds,
           \/ /\ \E t \in typeNamed(view, td, b) :
                    jobs' = jobs \cup {BuildJob(kind, td, b, names, t.id)}
              /\ UNCHANGED <<lib, lastImport>>
           \/ Write(createResource(lib, td, <<b, 0>>, "type", 0),
                    Touched \cup {BuildJob(kind, td, b, names, lib.nextId)})
    PROVE  LibInv'
  <1>1. CASE \E t \in typeNamed(view, td, b) :
                    jobs' = jobs \cup {BuildJob(kind, td, b, names, t.id)} /\ UNCHANGED <<lib, lastImport>>
    <2>1. PICK t \in typeNamed(view, td, b) :
             jobs' = jobs \cup {BuildJob(kind, td, b, names, t.id)}
      BY <1>1
    <2>2. t.id \in 0 .. MaxIds BY BuilderParent
    <2>3. LibJob(BuildJob(kind, td, b, names, t.id)) BY <2>2, BuildJobOK
    <2> QED BY <1>1, <2>1, <2>3, LibOpOK DEF LibInv
  <1>2. CASE Write(createResource(lib, td, <<b, 0>>, "type", 0),
                    Touched \cup {BuildJob(kind, td, b, names, lib.nextId)})
    <2>1. lib.nextId \in 0 .. MaxIds /\ 0 \in 0 .. MaxIds
      BY ProfileAssumption DEF LibInv, Library, Libraries
    <2>2. LibJob(BuildJob(kind, td, b, names, lib.nextId)) BY <2>1, BuildJobOK
    <2>3. <<b, 0>> \in ResourceNames
      BY ProfileAssumption DEF ResourceNames
    <2>4. Library(createResource(lib, td, <<b, 0>>, "type", 0))
      BY <2>1, <2>3, ResourceCreated DEF LibInv
    <2> DEFINE l == createResource(lib, td, <<b, 0>>, "type", 0)
               js == Touched \cup {BuildJob(kind, td, b, names, lib.nextId)}
    <2>5. \A j \in js : LibJob(j)
      BY <2>2, TouchedOK
    <2> HIDE DEF l, js
    <2>6. Library(l) /\ Write(l, js)
      BY <1>2, <2>4 DEF l, js
    <2> QED BY <2>5, <2>6, WriteOK, LibOpOK
  <1> QED BY <1>1, <1>2

LEMMA GenerateOK ==
    ASSUME LibInv, NEW td \in TdIds, NEW b \in Bases, handleGenerateResourceType(td, b, MaxCount)
    PROVE  LibInv'
  <1> DEFINE taken == {r.name : r \in {i \in resourcesOf(view, td) : isResourceInstance(i)}}
             all == buildInstanceNames(b, MaxCount)
             names == all \ taken
  <1>1. all \in SUBSET ResourceNames /\ IsFiniteSet(all)
    <2>1. IsFiniteSet(1 .. MaxCount)
      BY ProfileAssumption, FS_Interval
    <2>2. all = {<<b, n>> : n \in 1 .. MaxCount}
      BY DEF buildInstanceNames
    <2> DEFINE f == [n \in 1 .. MaxCount |-> <<b, n>>]
    <2>3. f \in Surjection(1 .. MaxCount, all)
      BY <2>2 DEF Surjection
    <2>4. IsFiniteSet(all)
      BY <2>1, <2>3, FS_Surjection
    <2> QED BY <2>2, <2>4, ProfileAssumption DEF ResourceNames
  <1>2. names \in SUBSET ResourceNames /\ IsFiniteSet(names)
    <2> HIDE DEF all, taken
    <2> QED BY <1>1, FS_Subset
  <1>3. Cardinality(names) \in Nat BY <1>2, FS_CardinalityType
  <1>4. /\ LibOp /\ Fits(Cardinality(names) + 1) /\ UNCHANGED <<view, file>>
        /\ \/ /\ \E t \in typeNamed(view, td, b) :
                    jobs' = jobs \cup {BuildJob("generate", td, b, names, t.id)}
              /\ UNCHANGED <<lib, lastImport>>
           \/ Write(createResource(lib, td, <<b, 0>>, "type", 0),
                    Touched \cup {BuildJob("generate", td, b, names, lib.nextId)})
    BY DEF handleGenerateResourceType
  <1> HIDE DEF names
  <1>5. lib.nextId <= MaxIds
    <2>1. Cardinality(names) + 1 \in Nat /\ Cardinality(names) + 1 > 0 BY <1>3
    <2> QED BY <1>4, <2>1, FitsOne
  <1> QED BY <1>2, <1>4, <1>5, BuilderOK

LEMMA AddInstanceOK ==
    ASSUME LibInv, NEW td \in TdIds, NEW b \in Bases, handleAddInstanceToType(td, b)
    PROVE  LibInv'
  <1> DEFINE items == itemsOfGroup(view, td, b)
             name == buildNextInstanceName(b, items)
             numbers == {r.name[2] : r \in {i \in items : i.name[1] = b}} \cup {0}
             last == CHOOSE n \in numbers : \A m \in numbers : m <= n
  <1>1. numbers \in SUBSET (0 .. MaxCount) /\ 0 \in numbers
    <2>1. items \subseteq ResourceRows
      BY DEF itemsOfGroup, resourcesOf, LibInv, Library, Libraries
    <2>2. \A r \in items : r.name \in Bases \X (0 .. MaxCount)
      BY <2>1 DEF ResourceRows, AnyRows, ResourceNames
    <2> HIDE DEF items
    <2>3. \A r \in items : r.name[2] \in 0 .. MaxCount
      BY <2>2
    <2> QED BY <2>3, ProfileAssumption
  <1>2. name = <<b, 1 + last>>
    BY DEF buildNextInstanceName
  <1>3. last \in 0 .. MaxCount
    <2> HIDE DEF numbers
    <2> DEFINE T == {MaxCount - n : n \in numbers}
    <2>1. T \in SUBSET Nat /\ T # {}
      BY <1>1, ProfileAssumption
    <2>2. PICK k \in T : \A m \in T : k <= m
      <3> HIDE DEF T
      <3> QED BY <2>1, LeastNumber
    <2>3. PICK n \in numbers : k = MaxCount - n
      BY <2>2
    <2>4. ASSUME NEW m \in numbers PROVE m <= n
      <3>1. k <= MaxCount - m BY <2>2
      <3> QED BY <1>1, <2>3, <3>1, ProfileAssumption
    <2>5. \E x \in numbers : \A m \in numbers : m <= x BY <2>4
    <2> QED BY <1>1, <2>5
  <1>4. /\ LibOp /\ name[2] <= MaxCount /\ Fits(2) /\ UNCHANGED <<view, file>>
        /\ \/ /\ \E t \in typeNamed(view, td, b) :
                    jobs' = jobs \cup {BuildJob("add", td, b, {name}, t.id)}
              /\ UNCHANGED <<lib, lastImport>>
           \/ Write(createResource(lib, td, <<b, 0>>, "type", 0),
                    Touched \cup {BuildJob("add", td, b, {name}, lib.nextId)})
    BY DEF handleAddInstanceToType
  <1>5. name \in ResourceNames
    <2> HIDE DEF last
    <2>1. name[2] = 1 + last BY <1>2
    <2>2. 1 + last \in 0 .. MaxCount BY <1>3, <1>4, <2>1, ProfileAssumption
    <2> QED BY <1>2, <2>2 DEF ResourceNames
  <1> HIDE DEF name
  <1> DEFINE names == {name}
  <1>6. names \in SUBSET ResourceNames /\ IsFiniteSet(names)
    BY <1>5, FS_Singleton
  <1>7. lib.nextId <= MaxIds
    BY <1>4, FitsOne
  <1>8. \/ /\ \E t \in typeNamed(view, td, b) :
                    jobs' = jobs \cup {BuildJob("add", td, b, names, t.id)}
           /\ UNCHANGED <<lib, lastImport>>
        \/ Write(createResource(lib, td, <<b, 0>>, "type", 0),
                    Touched \cup {BuildJob("add", td, b, names, lib.nextId)})
    BY <1>4
  <1> HIDE DEF names
  <1> QED BY <1>4, <1>6, <1>7, <1>8, BuilderOK

\* Rows that are made side by side, of a list of names.
LEMMA RowsMade ==
    ASSUME LibInv, NEW S, IsFiniteSet(S), NEW T \in SUBSET S, Fits(Cardinality(S))
    PROVE  LET names == SetToSeq(T)
           IN /\ IsFiniteSet(DOMAIN names) /\ Len(names) \in Nat
              /\ lib.nextId + Len(names) \in 1 .. MaxIds + 1 /\ lib.nextId <= lib.nextId + Len(names)
              /\ \A i \in DOMAIN names :
                   /\ names[i] \in T /\ lib.nextId + i - 1 \in RowIds
                   /\ lib.nextId + i - 1 >= lib.nextId /\ lib.nextId + i - 1 < lib.nextId + Len(names)
              /\ \A i, k \in DOMAIN names : lib.nextId + i - 1 = lib.nextId + k - 1 => i = k
  <1> DEFINE names == SetToSeq(T)
  <1>1. IsFiniteSet(T) /\ Cardinality(T) <= Cardinality(S) /\ Cardinality(S) \in Nat
    BY FS_Subset, FS_CardinalityType
  <1>2. /\ names \in Seq(T) /\ Len(names) = Cardinality(T)
        /\ DOMAIN names = 1 .. Cardinality(T) /\ Cardinality(T) \in Nat
    BY <1>1, SetToSeqOnce
  <1> HIDE DEF names
  <1>3. lib.nextId \in Nat /\ lib.nextId >= 1 /\ lib.nextId + Cardinality(S) <= MaxIds + 1
    BY ProfileAssumption DEF LibInv, Library, Libraries, Fits
  <1>4. IsFiniteSet(DOMAIN names)
    BY <1>2, FS_Interval
  <1>5. \A i \in DOMAIN names : names[i] \in T
    BY <1>2
  <1>6. \A i \in 1 .. Cardinality(T) :
          /\ lib.nextId + i - 1 \in RowIds
          /\ lib.nextId + i - 1 >= lib.nextId /\ lib.nextId + i - 1 < lib.nextId + Len(names)
    BY <1>1, <1>2, <1>3, ProfileAssumption DEF RowIds
  <1>7. lib.nextId + Len(names) \in 1 .. MaxIds + 1 /\ lib.nextId <= lib.nextId + Len(names)
    BY <1>1, <1>2, <1>3, ProfileAssumption
  <1>8. \A i, k \in DOMAIN names : lib.nextId + i - 1 = lib.nextId + k - 1 => i = k
    BY <1>2, <1>3
  <1> QED BY <1>2, <1>4, <1>5, <1>6, <1>7, <1>8 DEF names

\* A library that gains rows and numbers.
LEMMA ResourcesAdded ==
    ASSUME NEW l, Library(l), NEW R \in SUBSET ResourceRows, IsFiniteSet(R), NEW n,
           n \in 1 .. MaxIds + 1, l.nextId <= n, Numbered(R, n), \A r \in R : r.id >= l.nextId
    PROVE  Library([l EXCEPT !.res = l.res \cup R, !.nextId = n])
  <1> DEFINE Q == l.res \cup R
  <1>1. Q \in SUBSET ResourceRows /\ IsFiniteSet(Q)
    BY FS_Union DEF Library, Libraries
  <1>4. n \in Nat /\ \A r \in R : r.id \in Nat
    BY ProfileAssumption DEF ResourceRows, AnyRows, RowIds
  <1>5. Numbered(Q, n) /\ Numbered(l.states, n)
    BY <1>4, RowNumbers, NumberedLess, NumberedMore
  <1> HIDE DEF Q
  <1> DEFINE m == [l EXCEPT !.res = Q, !.nextId = n]
  <1>2. m \in Libraries /\ m.res = Q /\ m.states = l.states /\ m.nextId = n
    BY <1>1 DEF Library, Libraries
  <1>6. IsFiniteSet(l.states) BY DEF Library
  <1>3. Library(m)
    <2> HIDE DEF m
    <2> QED BY <1>1, <1>2, <1>5, <1>6 DEF Library
  <1> QED BY <1>3 DEF Q

LEMMA StatesAdded ==
    ASSUME NEW l, Library(l), NEW R \in SUBSET StateRows, IsFiniteSet(R), NEW n,
           n \in 1 .. MaxIds + 1, l.nextId <= n, Numbered(R, n), \A r \in R : r.id >= l.nextId
    PROVE  Library([l EXCEPT !.nextId = n, !.states = l.states \cup R])
  <1> DEFINE Q == l.states \cup R
  <1>1. Q \in SUBSET StateRows /\ IsFiniteSet(Q)
    BY FS_Union DEF Library, Libraries
  <1>4. n \in Nat /\ \A r \in R : r.id \in Nat
    BY ProfileAssumption DEF StateRows, RowIds
  <1>5. Numbered(Q, n) /\ Numbered(l.res, n)
    BY <1>4, RowNumbers, NumberedLess, NumberedMore
  <1> HIDE DEF Q
  <1> DEFINE m == [l EXCEPT !.nextId = n, !.states = Q]
  <1>2. m \in Libraries /\ m.states = Q /\ m.res = l.res /\ m.nextId = n
    BY <1>1 DEF Library, Libraries
  <1>6. IsFiniteSet(l.res) BY DEF Library
  <1>3. Library(m)
    <2> HIDE DEF m
    <2> QED BY <1>1, <1>2, <1>5, <1>6 DEF Library
  <1> QED BY <1>3 DEF Q

LEMMA InstancesBuiltOK == ASSUME LibInv, NEW j \in jobs, InstancesBuilt(j) PROVE LibInv'
  <1>1. PICK done \in SUBSET j.names :
          LET names == SetToSeq(done)
              made == {[id |-> lib.nextId + i - 1, td |-> j.td, name |-> names[i],
                        kind |-> "instance", parent |-> j.parent] : i \in DOMAIN names}
          IN Write([lib EXCEPT !.res = @ \cup made, !.nextId = @ + Len(names)],
                   Touched \ {[j EXCEPT !.touched = TRUE]})
    BY DEF InstancesBuilt
  <1>2. j \in BuildJobs /\ IsFiniteSet(j.names) /\ Fits(Cardinality(j.names))
    <2>1. LibJob(j) BY DEF LibInv
    <2>2. j.kind # "import" BY DEF InstancesBuilt
    <2>3. j \notin ImportJobs BY <2>2 DEF ImportJobs
    <2> QED BY <2>1, <2>3 DEF LibJob, InstancesBuilt
  <1>3. j.names \in SUBSET ResourceNames /\ j.td \in TdIds /\ j.parent \in 0 .. MaxIds
    BY <1>2 DEF BuildJobs
  <1> DEFINE names == SetToSeq(done)
             row(i) == [id |-> lib.nextId + i - 1, td |-> j.td, name |-> names[i],
                        kind |-> "instance", parent |-> j.parent]
             made == {row(i) : i \in DOMAIN names}
             n == lib.nextId + Len(names)
  <1>4. /\ IsFiniteSet(DOMAIN names) /\ Len(names) \in Nat /\ n \in 1 .. MaxIds + 1 /\ lib.nextId <= n
        /\ \A i \in DOMAIN names :
             /\ names[i] \in done /\ lib.nextId + i - 1 \in RowIds
             /\ lib.nextId + i - 1 >= lib.nextId /\ lib.nextId + i - 1 < n
        /\ \A i, k \in DOMAIN names : lib.nextId + i - 1 = lib.nextId + k - 1 => i = k
    BY <1>2, RowsMade
  <1>5. \A i \in DOMAIN names : row(i) \in ResourceRows
    <2> HIDE DEF names
    <2> QED BY <1>3, <1>4 DEF ResourceRows, AnyRows
  <1>6. IsFiniteSet(made)
    <2> DEFINE f == [i \in DOMAIN names |-> row(i)]
    <2>1. f \in Surjection(DOMAIN names, made)
      <3> HIDE DEF names
      <3> QED BY DEF Surjection
    <2> QED BY <1>4, <2>1, FS_Surjection
  <1>7. made \in SUBSET ResourceRows BY <1>5
  <1>12. Numbered(made, n) /\ \A r \in made : r.id >= lib.nextId
    <2> HIDE DEF names, n
    <2> QED BY <1>4 DEF Numbered
  <1> DEFINE l == [lib EXCEPT !.res = lib.res \cup made, !.nextId = n]
  <1>8. Library(lib) BY DEF LibInv
  <1>9. Write(l, Touched \ {[j EXCEPT !.touched = TRUE]})
    BY <1>1
  <1> HIDE DEF made, n
  <1>10. Library(l)
    BY <1>4, <1>6, <1>7, <1>8, <1>12, ResourcesAdded
  <1> HIDE DEF l
  <1>11. UNCHANGED <<view, file>> /\ libOps' \in Nat
    BY DEF InstancesBuilt, LibInv
  <1> QED BY <1>9, <1>10, <1>11, WriteOK, TouchedOK

LEMMA NewStateNames ==
    ASSUME LibInv, NEW td, NEW s
    PROVE  LET names == expandStateNameByTemplate(s, td) \ {x.name : x \in statesOf(view, td)}
           IN names \in SUBSET StateNames /\ IsFiniteSet(names)
  <1> DEFINE all == expandStateNameByTemplate(s, td)
             names == all \ {x.name : x \in statesOf(view, td)}
  <1>1. all \in SUBSET StateNames /\ IsFiniteSet(all)
    <2>1. CASE s = Plain
      BY <2>1, FS_Singleton DEF expandStateNameByTemplate, StateNames
    <2>2. CASE s # Plain
      <3> DEFINE R == {i \in resourcesOf(view, td) : isResourceInstance(i)}
                 f == [r \in R |-> r.name]
      <3>1. R \subseteq view.res /\ IsFiniteSet(view.res) /\ view.res \subseteq ResourceRows
        BY DEF LibInv, Library, Libraries, resourcesOf
      <3>2. IsFiniteSet(R) /\ \A r \in R : r.name \in ResourceNames
        BY <3>1, FS_Subset DEF ResourceRows, AnyRows
      <3>3. all = {r.name : r \in R}
        BY <2>2 DEF expandStateNameByTemplate
      <3> HIDE DEF R, all
      <3>4. f \in Surjection(R, all)
        BY <3>3 DEF Surjection
      <3> QED BY <3>2, <3>3, <3>4, FS_Surjection DEF StateNames
    <2> QED BY <2>1, <2>2
  <1>2. names \in SUBSET StateNames /\ IsFiniteSet(names)
    <2> HIDE DEF all
    <2> QED BY <1>1, FS_Subset
  <1> QED BY <1>2

LEMMA AddStateOK ==
    ASSUME LibInv, NEW td \in TdIds, NEW s \in {Plain, NoTd}, handleAddState(td, s) PROVE LibInv'
  <1> DEFINE names == expandStateNameByTemplate(s, td) \ {x.name : x \in statesOf(view, td)}
  <1>2. names \in SUBSET StateNames /\ IsFiniteSet(names)
    BY NewStateNames
  <1>3. /\ LibOp /\ Fits(Cardinality(names)) /\ UNCHANGED <<view, file>>
        /\ \E done \in {SetToSeq(t) : t \in SUBSET names} :
              Write([lib EXCEPT !.nextId = @ + Len(done),
                       !.states = @ \cup {[id |-> lib.nextId + i - 1, td |-> td, name |-> done[i]]
                                            : i \in DOMAIN done}], Touched)
    BY DEF handleAddState
  <1> HIDE DEF names
  <1>4. PICK T \in SUBSET names :
              Write([lib EXCEPT !.nextId = @ + Len(SetToSeq(T)),
                       !.states = @ \cup {[id |-> lib.nextId + i - 1, td |-> td, name |-> SetToSeq(T)[i]]
                                            : i \in DOMAIN SetToSeq(T)}], Touched)
    BY <1>3
  <1> DEFINE list == SetToSeq(T)
             row(i) == [id |-> lib.nextId + i - 1, td |-> td, name |-> list[i]]
             made == {row(i) : i \in DOMAIN list}
             n == lib.nextId + Len(list)
             l == [lib EXCEPT !.nextId = n, !.states = lib.states \cup made]
  <1>5. Write(l, Touched) BY <1>4
  <1>6. /\ IsFiniteSet(DOMAIN list) /\ Len(list) \in Nat /\ n \in 1 .. MaxIds + 1 /\ lib.nextId <= n
        /\ \A i \in DOMAIN list :
             /\ list[i] \in T /\ lib.nextId + i - 1 \in RowIds
             /\ lib.nextId + i - 1 >= lib.nextId /\ lib.nextId + i - 1 < n
        /\ \A i, k \in DOMAIN list : lib.nextId + i - 1 = lib.nextId + k - 1 => i = k
    BY <1>2, <1>3, RowsMade
  <1>7. \A i \in DOMAIN list : row(i) \in StateRows
    <2> HIDE DEF list
    <2> QED BY <1>2, <1>6 DEF StateRows
  <1>8. IsFiniteSet(made)
    <2> DEFINE f == [i \in DOMAIN list |-> row(i)]
    <2>1. f \in Surjection(DOMAIN list, made)
      <3> HIDE DEF list
      <3> QED BY DEF Surjection
    <2> QED BY <1>6, <2>1, FS_Surjection
  <1>9. made \in SUBSET StateRows /\ Library(lib) BY <1>7 DEF LibInv
  <1>12. Numbered(made, n) /\ \A r \in made : r.id >= lib.nextId
    <2> HIDE DEF list, n
    <2> QED BY <1>6 DEF Numbered
  <1> HIDE DEF made, n
  <1>10. Library(l) BY <1>6, <1>8, <1>9, <1>12, StatesAdded
  <1> HIDE DEF l
  <1> QED BY <1>3, <1>5, <1>10, UserWriteOK

LEMMA PolicyKnown ==
    ASSUME NEW p \in Priorities \cup {"none"} PROVE normalizeStateMergePolicies(p) \in Priorities
  BY DEF normalizeStateMergePolicies, Priorities

LEMMA RowWritesOK ==
    ASSUME LibInv, NEW td \in TdIds
    PROVE  /\ \A b \in Bases : handleAddResource(td, <<b, 1>>) => LibInv'
           /\ handleDeleteResource(td) \/ handleDeleteState(td) => LibInv'
  <1>0. Library(lib) /\ 0 \in 0 .. MaxIds
    BY ProfileAssumption DEF LibInv
  <1>1. ASSUME NEW b \in Bases, handleAddResource(td, <<b, 1>>) PROVE LibInv'
    <2>1. <<b, 1>> \in ResourceNames
      BY ProfileAssumption DEF ResourceNames
    <2>2. lib.nextId <= MaxIds
      BY <1>1, FitsOne DEF handleAddResource
    <2>3. Library(createResource(lib, td, <<b, 1>>, "instance", 0))
      BY <1>0, <2>1, <2>2, ResourceCreated
    <2> QED BY <1>1, <2>3, UserWriteOK DEF handleAddResource
  <1>2. CASE handleDeleteResource(td)
    BY <1>0, <1>2, ResourcesDeleted, UserWriteOK DEF handleDeleteResource
  <1>3. CASE handleDeleteState(td)
    BY <1>0, <1>3, StatesDeleted, UserWriteOK DEF handleDeleteState
  <1> QED BY <1>1, <1>2, <1>3

LEMMA TdWritesOK ==
    ASSUME LibInv, NEW td \in TdIds
    PROVE  /\ \A p \in Priorities : handleSaveStateMergePolicies(td, p) => LibInv'
           /\ \A name \in TdIds : handleRenameTd(td, name) => LibInv'
           /\ TdDisappears(td) => LibInv'
  <1>0. Library(lib)
    BY DEF LibInv
  <1>1. ASSUME NEW p \in Priorities, handleSaveStateMergePolicies(td, p) PROVE LibInv'
    <2> DEFINE q == normalizeStateMergePolicies(p)
               P == [lib.policy EXCEPT ![td] = q]
               l == [lib EXCEPT !.policy = P]
    <2>1. q \in Priorities BY PolicyKnown
    <2> HIDE DEF q
    <2>2. P \in [TdIds -> Priorities \cup {"none"}]
      BY <1>0, <2>1 DEF Library, Libraries
    <2>3. Write(l, Touched)
      BY <1>1 DEF handleSaveStateMergePolicies, q
    <2> HIDE DEF P
    <2>4. l \in Libraries /\ l.res = lib.res /\ l.states = lib.states
      BY <1>0, <2>2 DEF Library, Libraries
    <2>5. Library(l) BY <1>0, <2>4 DEF Library
    <2> HIDE DEF l
    <2> QED BY <1>1, <2>3, <2>5, UserWriteOK DEF handleSaveStateMergePolicies
  <1>2. ASSUME NEW name \in TdIds, handleRenameTd(td, name) PROVE LibInv'
    <2> DEFINE P == [lib.tdName EXCEPT ![td] = name]
               l == [lib EXCEPT !.tdName = P]
    <2>2. P \in [TdIds -> TdIds]
      BY <1>0 DEF Library, Libraries
    <2>3. Write(l, Touched)
      BY <1>2 DEF handleRenameTd
    <2> HIDE DEF P
    <2>4. l \in Libraries /\ l.res = lib.res /\ l.states = lib.states
      BY <1>0, <2>2 DEF Library, Libraries
    <2>5. Library(l) BY <1>0, <2>4 DEF Library
    <2> HIDE DEF l
    <2> QED BY <1>2, <2>3, <2>5, UserWriteOK DEF handleRenameTd
  <1>3. CASE TdDisappears(td)
    <2> DEFINE T == lib.tds \ {td}
               G == lib.gone \cup {td}
               R == lib.res \ resourcesOf(lib, td)
               S == lib.states \ statesOf(lib, td)
               l == [lib EXCEPT !.tds = T, !.gone = G, !.res = R, !.states = S]
    <2>1. T \in SUBSET TdIds /\ G \in SUBSET TdIds /\ R \in SUBSET ResourceRows
          /\ S \in SUBSET StateRows
      BY <1>0 DEF Library, Libraries
    <2>2. IsFiniteSet(R) /\ IsFiniteSet(S)
      BY <1>0, FS_Subset DEF Library
    <2>3. Write(l, Touched)
      BY <1>3 DEF TdDisappears
    <2> HIDE DEF T, G, R, S
    <2>4. l \in Libraries /\ l.res = R /\ l.states = S /\ l.nextId = lib.nextId
      BY <1>0, <2>1 DEF Library, Libraries
    <2>6. Numbered(R, lib.nextId) /\ Numbered(S, lib.nextId)
      <3>1. R \in SUBSET lib.res /\ S \in SUBSET lib.states BY DEF R, S
      <3> QED BY <1>0, <3>1, RowNumbers, NumberedLess
    <2> HIDE DEF l
    <2>5. Library(l) BY <2>2, <2>4, <2>6 DEF Library
    <2> HIDE DEF l
    <2> QED BY <1>3, <2>3, <2>5, UserWriteOK DEF TdDisappears
  <1> QED BY <1>1, <1>2, <1>3

LEMMA PageOK ==
    ASSUME LibInv, loadProfileView \/ handleImportDistributorProfile
                   \/ \E td \in TdIds : handleExportDistributorProfile(td)
    PROVE  LibInv'
  <1>1. CASE loadProfileView
    BY <1>1 DEF LibInv, loadProfileView
  <1>2. ASSUME NEW td \in TdIds, handleExportDistributorProfile(td) PROVE LibInv'
    <2>1. ProfileOf(view, td) \in ProfileFiles
      BY ProfileType DEF LibInv
    <2> QED BY <1>2, <2>1, LibOpOK DEF LibInv, handleExportDistributorProfile
  <1>3. CASE handleImportDistributorProfile
    <2> DEFINE j == [kind |-> "import", profile |-> file, td |-> NoTd, stage |-> "find", at |-> 1,
                     states |-> {}, resources |-> {}, typeResourceByName |-> {}, before |-> NoTd,
                     known |-> view, touched |-> FALSE]
    <2>1. j \in ImportJobs /\ j.stage = "find"
      BY <1>3 DEF ImportJobs, LibInv, Library, handleImportDistributorProfile
    <2>2. LibJob(j) BY <2>1 DEF LibJob
    <2>3. jobs' = jobs \cup {j} BY <1>3 DEF handleImportDistributorProfile
    <2> HIDE DEF j
    <2> QED BY <1>3, <2>2, <2>3, LibOpOK DEF LibInv, handleImportDistributorProfile
  <1> QED BY <1>1, <1>2, <1>3

(***************************************************************************)
(* The steps of an import                                                  *)
(***************************************************************************)
LEMMA ProceedOK ==
    ASSUME LibInv, NEW j, NEW k, LibJob(k), NEW l, Library(l), Proceed(j, k, l),
           UNCHANGED <<view, file, libOps>>
    PROVE  LibInv'
  BY WriteOK DEF LibInv, Proceed

LEMMA ImportJob ==
    ASSUME LibInv, NEW j \in jobs, j.kind = "import"
    PROVE  /\ j \in ImportJobs /\ (j.stage # "find" => j.td \in TdIds)
           /\ j.stage = "bind" => j.resources \subseteq ResourceRows
  BY DEF LibInv, LibJob, BuildJobs

LEMMA ImportFindOK == ASSUME LibInv, NEW j \in jobs, ImportFind(j) PROVE LibInv'
  <1>1. PICK td \in IF FoundTd(j) # {} THEN FoundTd(j) \cap lib.tds ELSE TdIds \ (lib.tds \cup lib.gone) :
        LET l == [lib EXCEPT !.tds = @ \cup {td}, !.tdName[td] = j.profile.name]
        IN Proceed(j, [j EXCEPT !.td = td, !.stage = "clear", !.known = NoTd,
                                !.before = Requirement(lib),
                                !.states = {s.id : s \in statesOf(lib, td)},
                                !.resources = {r.id : r \in resourcesOf(lib, td)}], l)
    BY DEF ImportFind
  <1>2. Library(lib) /\ lib.tds \subseteq TdIds /\ td \in TdIds
    BY <1>1 DEF LibInv, Library, Libraries
  <1>3. j \in ImportJobs
    BY ImportJob DEF ImportFind, ImportStep
  <1> DEFINE T == lib.tds \cup {td}
             N == [lib.tdName EXCEPT ![td] = j.profile.name]
             l == [lib EXCEPT !.tds = T, !.tdName = N]
             S == {s.id : s \in statesOf(lib, td)}
             R == {r.id : r \in resourcesOf(lib, td)}
             B == Requirement(lib)
             k == [j EXCEPT !.td = td, !.stage = "clear", !.known = NoTd, !.before = B,
                            !.states = S, !.resources = R]
  <1>4. Proceed(j, k, l) BY <1>1
  <1>5. S \in SUBSET RowIds /\ R \in SUBSET RowIds
    BY <1>2 DEF Library, Libraries, StateRows, ResourceRows, AnyRows, statesOf, resourcesOf
  <1>10. B \in Requirements
    <2>1. KindsNamed(RequiredRows(lib, lib.task.owner)) \subseteq {"type", "instance"} \X ResourceNames
      BY <1>2 DEF Library, Libraries, ResourceRows, AnyRows, KindsNamed, RequiredRows, resourcesOf
    <2>2. lib.task.owner \in TdIds
      BY <1>2 DEF Library, Libraries
    <2> QED BY <2>1, <2>2 DEF Requirement, Requirements
  <1>6. T \in SUBSET TdIds BY <1>2
  <1>7. N \in [TdIds -> TdIds]
    BY <1>2, <1>3 DEF Library, Libraries, ImportJobs, ProfileFiles
  <1> HIDE DEF S, R, T, N, B
  <1>8. Library(l)
    <2>1. l \in Libraries /\ l.res = lib.res /\ l.states = lib.states
      BY <1>2, <1>6, <1>7 DEF Library, Libraries
    <2> QED BY <1>2, <2>1 DEF Library
  <1>9. LibJob(k)
    <2>1. k \in ImportJobs /\ k.stage = "clear" /\ k.td = td
      BY <1>2, <1>3, <1>5, <1>10 DEF ImportJobs
    <2> QED BY <1>2, <2>1 DEF LibJob
  <1> HIDE DEF k, l
  <1> QED BY <1>4, <1>8, <1>9, ProceedOK DEF ImportFind

LEMMA ImportClearOK == ASSUME LibInv, NEW j \in jobs, ImportClear(j) PROVE LibInv'
  <1>1. j \in ImportJobs /\ j.td \in TdIds /\ Library(lib)
    BY ImportJob DEF ImportClear, ImportStep, LibInv
  <1>2. \A ids : Library(deleteResources(deleteStates(lib, j.states), ids))
    BY <1>1, StatesDeleted, ResourcesDeleted
  <1>3. CASE Proceed(j, [j EXCEPT !.stage = "states", !.states = {}, !.resources = {}],
                     deleteResources(deleteStates(lib, j.states), j.resources))
    <2> DEFINE k == [j EXCEPT !.stage = "states", !.states = {}, !.resources = {}]
    <2>1. k \in ImportJobs /\ k.stage = "states" /\ k.td = j.td
      BY <1>1 DEF ImportJobs
    <2>2. LibJob(k) BY <1>1, <2>1 DEF LibJob
    <2> HIDE DEF k
    <2>3. Library(deleteResources(deleteStates(lib, j.states), j.resources)) BY <1>2
    <2>4. Proceed(j, k, deleteResources(deleteStates(lib, j.states), j.resources))
      BY <1>3 DEF k
    <2> QED BY <2>2, <2>3, <2>4, ProceedOK DEF ImportClear
  <1>4. ASSUME NEW r, Write(deleteResources(deleteStates(lib, j.states), j.resources \ {r}), jobs \ {j})
        PROVE  LibInv'
    BY <1>2, <1>4, WriteOK DEF ImportClear, LibInv
  <1> QED BY <1>3, <1>4 DEF ImportClear

LEMMA ImportStateOK == ASSUME LibInv, NEW j \in jobs, ImportState(j) PROVE LibInv'
  <1>1. j \in ImportJobs /\ j.td \in TdIds /\ Library(lib) /\ lib.nextId <= MaxIds
    BY ImportJob, FitsOne DEF ImportState, ImportStep, LibInv
  <1>2. CASE j.at <= Len(j.profile.states)
    <2> DEFINE k == [j EXCEPT !.at = j.at + 1]
               l == createState(lib, j.td, j.profile.states[j.at])
    <2>1. k \in ImportJobs /\ k.stage = "states" /\ k.td = j.td
      BY <1>1 DEF ImportJobs, ImportState, ImportStep
    <2>2. LibJob(k) BY <1>1, <2>1 DEF LibJob
    <2>3. j.profile.states \in Seq(StateNames) /\ j.at \in Nat \ {0}
      BY <1>1 DEF ImportJobs, ProfileFiles
    <2>4. j.profile.states[j.at] \in StateNames
      BY <1>2, <2>3
    <2>5. Library(l) BY <1>1, <2>4, StateCreated
    <2>6. Proceed(j, k, l) BY <1>2 DEF ImportState
    <2> HIDE DEF k, l
    <2> QED BY <2>2, <2>5, <2>6, ProceedOK DEF ImportState
  <1>3. CASE ~ (j.at <= Len(j.profile.states))
    <2> DEFINE k == [j EXCEPT !.at = 1, !.stage = "types"]
    <2>1. k \in ImportJobs /\ k.stage = "types" /\ k.td = j.td
      <3> DEFINE one == 1
      <3>1. one \in Nat \ {0} OBVIOUS
      <3> HIDE DEF one
      <3>2. k = [j EXCEPT !.at = one, !.stage = "types"] BY DEF one
      <3> HIDE DEF k
      <3> QED BY <1>1, <3>1, <3>2 DEF ImportJobs
    <2>2. LibJob(k) BY <1>1, <2>1 DEF LibJob
    <2>3. Proceed(j, k, lib) BY <1>3 DEF ImportState
    <2> HIDE DEF k
    <2> QED BY <1>1, <2>2, <2>3, ProceedOK DEF ImportState
  <1> QED BY <1>2, <1>3

LEMMA WantedType ==
    ASSUME NEW j \in ImportJobs, NEW kind
    PROVE  Wanted(j, kind) \in Seq(ProfileEntries)
  <1> DEFINE rs == j.profile.resources
             I == {i \in DOMAIN rs : rs[i].kind = kind}
  <1>1. rs \in Seq(ProfileEntries)
    BY DEF ImportJobs, ProfileFiles
  <1>2. Wanted(j, kind) = At(rs, I)
    BY DEF Wanted, Filter
  <1>3. At(rs, I) \in Seq(ProfileEntries)
    <2> HIDE DEF rs
    <2> QED BY <1>1, AtPositions
  <1> QED BY <1>2, <1>3

LEMMA ImportTypeOK == ASSUME LibInv, NEW j \in jobs, ImportType(j) PROVE LibInv'
  <1>1. j \in ImportJobs /\ j.td \in TdIds /\ Library(lib) /\ lib.nextId <= MaxIds
    BY ImportJob, FitsOne DEF ImportType, ImportStep, LibInv
  <1> DEFINE w == Wanted(j, "type")
  <1>2. CASE j.at <= Len(w)
    <2> DEFINE name == w[j.at].name
               M == {p \in j.typeResourceByName : p[1] # name} \cup {<<name, lib.nextId>>}
               k == [j EXCEPT !.at = j.at + 1, !.typeResourceByName = M]
               l == createResource(lib, j.td, name, "type", 0)
    <2>1. w[j.at] \in ProfileEntries
      <3>1. w \in Seq(ProfileEntries) /\ j.at \in Nat \ {0}
        BY <1>1, WantedType DEF ImportJobs
      <3> HIDE DEF w
      <3> QED BY <1>2, <3>1
    <2>2. name \in ResourceNames
      BY <2>1 DEF ProfileEntries, AnyEntries
    <2>3. Proceed(j, k, l) BY <1>2 DEF ImportType
    <2>4. lib.nextId \in RowIds /\ 0 \in 0 .. MaxIds
      BY <1>1, ProfileAssumption DEF Library, Libraries, RowIds
    <2> HIDE DEF name
    <2>5. M \in SUBSET ((ResourceNames \cup {NoTd}) \X RowIds)
      BY <1>1, <2>2, <2>4 DEF ImportJobs
    <2> HIDE DEF M
    <2>6. k \in ImportJobs /\ k.stage = "types" /\ k.td = j.td
      <3> DEFINE a == j.at + 1
      <3>1. a \in Nat \ {0} /\ j.stage = "types"
        BY <1>1 DEF ImportJobs, ImportType, ImportStep
      <3>2. k = [j EXCEPT !.at = a, !.typeResourceByName = M] OBVIOUS
      <3> HIDE DEF a, k
      <3> QED BY <1>1, <2>5, <3>1, <3>2 DEF ImportJobs
    <2>7. LibJob(k) BY <1>1, <2>6 DEF LibJob
    <2>8. Library(l) BY <1>1, <2>2, <2>4, ResourceCreated
    <2> HIDE DEF k, l
    <2> QED BY <2>3, <2>7, <2>8, ProceedOK DEF ImportType
  <1>3. CASE ~ (j.at <= Len(w))
    <2> DEFINE k == [j EXCEPT !.at = 1, !.stage = "instances"]
    <2>1. k \in ImportJobs /\ k.stage = "instances" /\ k.td = j.td
      <3> DEFINE one == 1
      <3>1. one \in Nat \ {0} OBVIOUS
      <3> HIDE DEF one
      <3>2. k = [j EXCEPT !.at = one, !.stage = "instances"] BY DEF one
      <3> HIDE DEF k
      <3> QED BY <1>1, <3>1, <3>2 DEF ImportJobs
    <2>2. LibJob(k) BY <1>1, <2>1 DEF LibJob
    <2>3. Proceed(j, k, lib) BY <1>3 DEF ImportType
    <2> HIDE DEF k
    <2> QED BY <1>1, <2>2, <2>3, ProceedOK DEF ImportType
  <1> QED BY <1>2, <1>3

LEMMA ImportInstanceOK == ASSUME LibInv, NEW j \in jobs, ImportInstance(j) PROVE LibInv'
  <1>1. j \in ImportJobs /\ j.td \in TdIds /\ Library(lib) /\ lib.nextId <= MaxIds
    BY ImportJob, FitsOne DEF ImportInstance, ImportStep, LibInv
  <1>2. lib.nextId \in RowIds /\ 0 \in 0 .. MaxIds
    BY <1>1, ProfileAssumption DEF Library, Libraries, RowIds
  <1> DEFINE w == Wanted(j, "instance")
  <1>3. CASE j.at <= Len(w)
    <2> DEFINE r == w[j.at]
               parents == {p[2] : p \in {q \in j.typeResourceByName : q[1] = r.parent_name}}
    <2>1. w[j.at] \in ProfileEntries
      <3>1. w \in Seq(ProfileEntries) /\ j.at \in Nat \ {0}
        BY <1>1, WantedType DEF ImportJobs
      <3> HIDE DEF w
      <3> QED BY <1>3, <3>1
    <2>2. r.name \in ResourceNames /\ r.parent_name \in ResourceNames \cup {NoTd}
      BY <2>1 DEF ProfileEntries, AnyEntries
    <2>3. parents \in SUBSET RowIds
      BY <1>1 DEF ImportJobs
    <2>4. IF r.parent_name # NoTd /\ parents = {}
          THEN Proceed(j, [j EXCEPT !.typeResourceByName = @ \cup {<<r.parent_name, lib.nextId>>}],
                       createResource(lib, j.td, r.parent_name, "type", 0))
          ELSE Proceed(j, [j EXCEPT !.at = @ + 1],
                       createResource(lib, j.td, r.name, "instance",
                                      IF parents = {} THEN 0 ELSE CHOOSE p \in parents : TRUE))
      BY <1>3 DEF ImportInstance
    <2> HIDE DEF r, parents
    <2>5. CASE r.parent_name # NoTd /\ parents = {}
      <3> DEFINE M == j.typeResourceByName \cup {<<r.parent_name, lib.nextId>>}
                 k == [j EXCEPT !.typeResourceByName = M]
                 l == createResource(lib, j.td, r.parent_name, "type", 0)
      <3>1. M \in SUBSET ((ResourceNames \cup {NoTd}) \X RowIds)
        BY <1>1, <1>2, <2>2 DEF ImportJobs
      <3>2. Proceed(j, k, l) BY <2>4, <2>5
      <3> HIDE DEF M
      <3>3. k \in ImportJobs /\ k.stage = "instances" /\ k.td = j.td
        BY <1>1, <3>1 DEF ImportJobs, ImportInstance, ImportStep
      <3>4. LibJob(k) BY <1>1, <3>3 DEF LibJob
      <3>5. Library(l) BY <1>1, <1>2, <2>2, <2>5, ResourceCreated
      <3> HIDE DEF k, l
      <3> QED BY <3>2, <3>4, <3>5, ProceedOK DEF ImportInstance
    <2>6. CASE ~ (r.parent_name # NoTd /\ parents = {})
      <3> DEFINE up == IF parents = {} THEN 0 ELSE CHOOSE p \in parents : TRUE
                 k == [j EXCEPT !.at = j.at + 1]
                 l == createResource(lib, j.td, r.name, "instance", up)
      <3>1. up \in 0 .. MaxIds
        <4>1. parents # {} => (CHOOSE p \in parents : TRUE) \in RowIds
          BY <2>3
        <4>2. RowIds \subseteq 0 .. MaxIds
          BY ProfileAssumption DEF RowIds
        <4> QED BY <1>2, <4>1, <4>2
      <3>2. Proceed(j, k, l) BY <2>4, <2>6
      <3>3. k \in ImportJobs /\ k.stage = "instances" /\ k.td = j.td
        BY <1>1 DEF ImportJobs, ImportInstance, ImportStep
      <3>4. LibJob(k) BY <1>1, <3>3 DEF LibJob
      <3> HIDE DEF up
      <3>5. Library(l) BY <1>1, <2>2, <3>1, ResourceCreated
      <3> HIDE DEF k, l
      <3> QED BY <3>2, <3>4, <3>5, ProceedOK DEF ImportInstance
    <2> QED BY <2>5, <2>6
  <1>4. CASE ~ (j.at <= Len(w))
    <2> DEFINE k == [j EXCEPT !.stage = "policies"]
    <2>1. k \in ImportJobs /\ k.stage = "policies" /\ k.td = j.td
      BY <1>1 DEF ImportJobs
    <2>2. LibJob(k) BY <1>1, <2>1 DEF LibJob
    <2>3. Proceed(j, k, lib) BY <1>4 DEF ImportInstance
    <2> HIDE DEF k
    <2> QED BY <1>1, <2>2, <2>3, ProceedOK DEF ImportInstance
  <1> QED BY <1>3, <1>4

LEMMA ImportPoliciesOK == ASSUME LibInv, NEW j \in jobs, ImportPolicies(j) PROVE LibInv'
  <1>1. j \in ImportJobs /\ j.td \in TdIds /\ Library(lib)
    BY ImportJob DEF ImportPolicies, ImportStep, LibInv
  <1> DEFINE R == resourcesOf(lib, j.td)
             k == [j EXCEPT !.stage = "bind", !.resources = R]
             q == normalizeStateMergePolicies(j.profile.policy)
             P == [lib.policy EXCEPT ![j.td] = q]
             l == [lib EXCEPT !.policy = P]
  <1>2. Proceed(j, k, l) BY DEF ImportPolicies
  <1>3. R \in SUBSET ResourceRows
    BY <1>1 DEF Library, Libraries, resourcesOf
  <1>4. q \in Priorities
    <2>1. j.profile.policy \in Priorities BY <1>1 DEF ImportJobs, ProfileFiles
    <2> QED BY <2>1, PolicyKnown
  <1> HIDE DEF R, q
  <1>5. P \in [TdIds -> Priorities \cup {"none"}]
    BY <1>1, <1>4 DEF Library, Libraries
  <1> HIDE DEF P
  <1>6. l \in Libraries /\ l.res = lib.res /\ l.states = lib.states
    BY <1>1, <1>5 DEF Library, Libraries
  <1>7. Library(l) BY <1>1, <1>6 DEF Library
  <1>8. k \in ImportJobs /\ k.stage = "bind" /\ k.td = j.td /\ k.resources = R
    <2> DEFINE RR == (SUBSET RowIds) \cup (SUBSET ResourceRows)
    <2>1. R \in RR BY <1>3
    <2>2. k = [j EXCEPT !.stage = "bind", !.resources = R] OBVIOUS
    <2>3. j \in [kind : {"import"}, profile : ProfileFiles, td : TdIds \cup {NoTd},
               stage : {"find", "clear", "states", "types", "instances", "policies", "bind"},
               at : Nat \ {0}, states : SUBSET RowIds, resources : RR,
               typeResourceByName : SUBSET ((ResourceNames \cup {NoTd}) \X RowIds),
               before : Requirements \cup {NoTd},
               known : Libraries \cup {NoTd}, touched : BOOLEAN]
      BY <1>1 DEF ImportJobs
    <2> HIDE DEF RR, k
    <2>4. k \in [kind : {"import"}, profile : ProfileFiles, td : TdIds \cup {NoTd},
               stage : {"find", "clear", "states", "types", "instances", "policies", "bind"},
               at : Nat \ {0}, states : SUBSET RowIds, resources : RR,
               typeResourceByName : SUBSET ((ResourceNames \cup {NoTd}) \X RowIds),
               before : Requirements \cup {NoTd},
               known : Libraries \cup {NoTd}, touched : BOOLEAN]
          /\ k.stage = "bind" /\ k.td = j.td /\ k.resources = R
      BY <2>1, <2>2, <2>3
    <2> QED BY <2>4 DEF ImportJobs, RR
  <1>9. LibJob(k) BY <1>1, <1>3, <1>8 DEF LibJob
  <1> HIDE DEF k, l
  <1> QED BY <1>2, <1>7, <1>9, ProceedOK DEF ImportPolicies

LEMMA ImportBindOK == ASSUME LibInv, NEW j \in jobs, ImportBind(j) PROVE LibInv'
  <1>1. /\ j \in ImportJobs /\ j.td \in TdIds /\ Library(lib) /\ j.resources \subseteq ResourceRows
        /\ jobs' = jobs \ {j} /\ UNCHANGED <<view, file, libOps>>
    BY ImportJob DEF ImportBind, ImportStep, LibInv
  <1>2. Rebound(j) \in SUBSET RowIds
    <2> DEFINE owner == lib.task.owner
               old == IF owner = j.td THEN {} ELSE resourcesOf(lib, owner)
               kept_ == {t \in lib.task.tokens : \E r \in j.resources : r.id = t}
               named == {r \in old : r.id \in lib.task.tokens \ kept_}
               pairs == KindsNamed(named) \cap KindsNamed(j.resources)
               new == {(CHOOSE r \in j.resources : <<r.kind, r.name>> = p).id : p \in pairs}
    <2>1. Rebound(j) = kept_ \cup new
      BY DEF Rebound
    <2>2. kept_ \in SUBSET RowIds
      BY <1>1 DEF Library, Libraries
    <2>3. ASSUME NEW p \in pairs
          PROVE  (CHOOSE r \in j.resources : <<r.kind, r.name>> = p).id \in RowIds
      <3>1. \E r \in j.resources : <<r.kind, r.name>> = p
        BY DEF KindsNamed
      <3>2. (CHOOSE r \in j.resources : <<r.kind, r.name>> = p) \in j.resources
        BY <3>1
      <3> QED BY <1>1, <3>2 DEF ResourceRows, AnyRows
    <2> HIDE DEF kept_, pairs
    <2> QED BY <2>1, <2>2, <2>3
  <1>3. \/ lib' = lib
        \/ lib' = [lib EXCEPT !.task = [owner |-> j.td, tokens |-> Rebound(j)]]
    BY DEF ImportBind
  <1> DEFINE t == [owner |-> j.td, tokens |-> Rebound(j)]
  <1>4. t \in [owner : TdIds, tokens : SUBSET RowIds]
    BY <1>1, <1>2
  <1> HIDE DEF t
  <1>5. [lib EXCEPT !.task = t] \in Libraries /\ [lib EXCEPT !.task = t].res = lib.res
        /\ [lib EXCEPT !.task = t].states = lib.states
    BY <1>1, <1>4 DEF Library, Libraries
  <1>6. Library([lib EXCEPT !.task = t]) BY <1>1, <1>5 DEF Library
  <1>7. Library(lib') BY <1>1, <1>3, <1>6 DEF t
  <1> QED BY <1>1, <1>7 DEF LibInv

LEMMA LibNextOK == LibInv /\ [ProfileNext]_libVars => LibInv'
  <1> SUFFICES ASSUME LibInv, [ProfileNext]_libVars PROVE LibInv'
    OBVIOUS
  <1>1. CASE UNCHANGED libVars
    BY <1>1 DEF libVars, LibInv
  <1>2. ASSUME NEW td \in view.tds, ProfileUser(td) PROVE LibInv'
    <2>1. td \in TdIds BY DEF LibInv, Library, Libraries
    <2> QED BY <1>2, <2>1, RowWritesOK, TdWritesOK, PageOK, AddInstanceOK, GenerateOK, AddStateOK
            DEF ProfileUser
  <1>3. CASE \E td \in TdIds : TdDisappears(td)
    BY <1>3, TdWritesOK
  <1>4. CASE handleImportDistributorProfile \/ loadProfileView
    BY <1>4, PageOK
  <1>5. ASSUME NEW j \in jobs, ProfileSteps(j) PROVE LibInv'
    <2>1. CASE JobFails(j)
      BY <2>1 DEF JobFails, LibInv
    <2> QED BY <1>5, <2>1, InstancesBuiltOK, ImportFindOK, ImportClearOK, ImportStateOK, ImportTypeOK,
               ImportInstanceOK, ImportPoliciesOK, ImportBindOK DEF ProfileSteps
  <1> QED BY <1>1, <1>2, <1>3, <1>4, <1>5 DEF ProfileNext

(***************************************************************************)
(* Rows stay with the distributor they were made for                       *)
(***************************************************************************)
\* The number is taken, and by no row of another distributor.
Owned(l, id, td) == id \in Nat /\ id < l.nextId /\ \A s \in l.res : s.id = id => s.td = td

\* Library m is l with rows that are gone and with new ones, below parents of their own.
Adds(l, m) ==
    /\ l.nextId \in Nat /\ m.nextId \in Nat /\ l.nextId <= m.nextId /\ m.task = l.task
    /\ \A s \in m.res : s \in l.res \/ (s.id >= l.nextId /\ Owned(l, s.parent, s.td))

\* What a handler is going to name as parents, and to bind the tasks to.
HoldsOwn(j, l) ==
    /\ j.kind # "import" => Owned(l, j.parent, j.td)
    /\ j.kind = "import" =>
        /\ j.stage = "find" => j.typeResourceByName = {}
        /\ \A p \in j.typeResourceByName : Owned(l, p[2], j.td)
        /\ j.stage = "bind" => \A r \in j.resources : Owned(l, r.id, j.td)

ParentsOwned(l) == \A r \in l.res : Owned(l, r.parent, r.td)

OwnInv ==
    /\ ParentsOwned(lib) /\ \A r \in view.res : Owned(lib, r.id, r.td)
    /\ \A t \in lib.task.tokens : Owned(lib, t, lib.task.owner)
    /\ \A j \in jobs : HoldsOwn(j, lib)

LEMMA RowOwned ==
    ASSUME NEW l, Library(l)
    PROVE  /\ \A r \in l.res : Owned(l, r.id, r.td)
           /\ \A td : Owned(l, 0, td)
  <1>1. /\ l.nextId \in Nat /\ l.nextId >= 1 /\ Numbered(l.res, l.nextId)
        /\ \A r \in l.res : r.id \in Nat /\ r.id # 0
    BY ProfileAssumption DEF Library, Libraries, ResourceRows, AnyRows, RowIds
  <1> QED BY <1>1 DEF Owned, Numbered

LEMMA OwnedStays ==
    ASSUME NEW l, NEW m, Adds(l, m), NEW id, NEW td, Owned(l, id, td) PROVE Owned(m, id, td)
  <1>1. id \in Nat /\ l.nextId \in Nat /\ m.nextId \in Nat /\ id < l.nextId /\ l.nextId <= m.nextId
    BY DEF Adds, Owned
  <1>2. ASSUME NEW s \in m.res, s.id = id PROVE s.td = td
    <2>1. ~ (id >= l.nextId) BY <1>1
    <2> QED BY <1>2, <2>1 DEF Adds, Owned
  <1> QED BY <1>1, <1>2 DEF Owned

LEMMA HoldsStays ==
    ASSUME NEW l, NEW m, Adds(l, m), NEW j, HoldsOwn(j, l) PROVE HoldsOwn(j, m)
  BY OwnedStays DEF HoldsOwn

LEMMA ParentsStay ==
    ASSUME NEW l, NEW m, Adds(l, m), ParentsOwned(l) PROVE ParentsOwned(m)
  <1>1. ASSUME NEW s \in m.res PROVE Owned(m, s.parent, s.td)
    <2>1. Owned(l, s.parent, s.td) BY DEF Adds, ParentsOwned
    <2> QED BY <2>1, OwnedStays
  <1> QED BY <1>1 DEF ParentsOwned

LEMMA HoldsTouched ==
    ASSUME NEW l, NEW j, LibJob(j), HoldsOwn(j, l) PROVE HoldsOwn([j EXCEPT !.touched = TRUE], l)
  <1> DEFINE k == [j EXCEPT !.touched = TRUE]
  <1>1. CASE j \in BuildJobs
    <2>1. k.kind = j.kind /\ k.parent = j.parent /\ k.td = j.td /\ k.kind # "import"
      BY <1>1 DEF BuildJobs
    <2> HIDE DEF k
    <2>2. HoldsOwn(k, l) BY <2>1 DEF HoldsOwn
    <2> QED BY <2>2 DEF k
  <1>2. CASE j \in ImportJobs
    <2>1. /\ k.kind = j.kind /\ k.stage = j.stage /\ k.td = j.td /\ k.kind = "import"
          /\ k.typeResourceByName = j.typeResourceByName /\ k.resources = j.resources
      BY <1>2 DEF ImportJobs
    <2> HIDE DEF k
    <2>2. HoldsOwn(k, l) BY <2>1 DEF HoldsOwn
    <2> QED BY <2>2 DEF k
  <1> QED BY <1>1, <1>2 DEF LibJob

LEMMA TouchedHolds ==
    ASSUME LibInv, OwnInv PROVE \A k \in Touched : HoldsOwn(k, lib)
  <1>1. ASSUME NEW j \in jobs PROVE HoldsOwn([j EXCEPT !.touched = TRUE], lib)
    <2>1. LibJob(j) /\ HoldsOwn(j, lib) BY DEF LibInv, OwnInv
    <2> QED BY <2>1, HoldsTouched
  <1> QED BY <1>1 DEF Touched

LEMMA OwnWrite ==
    ASSUME OwnInv, NEW l, Adds(lib, l), lib' = l, UNCHANGED view, \A j \in jobs' : HoldsOwn(j, l)
    PROVE  OwnInv'
  <1>1. ParentsOwned(l)
    BY ParentsStay DEF OwnInv
  <1>2. \A r \in view.res : Owned(l, r.id, r.td)
    <2>1. \A r \in view.res : Owned(lib, r.id, r.td) BY DEF OwnInv
    <2> QED BY <2>1, OwnedStays
  <1>3. \A t \in l.task.tokens : Owned(l, t, l.task.owner)
    <2>1. \A t \in l.task.tokens : Owned(lib, t, l.task.owner) BY DEF OwnInv, Adds
    <2> QED BY <2>1, OwnedStays
  <1> QED BY <1>1, <1>2, <1>3 DEF OwnInv

\* What the writes of the server do.
LEMMA NothingAdded ==
    ASSUME NEW l, Library(l), NEW m, m.nextId = l.nextId, m.task = l.task, m.res \subseteq l.res
    PROVE  Adds(l, m)
  <1>1. l.nextId \in Nat /\ l.nextId <= l.nextId BY RowNumbers
  <1> QED BY <1>1 DEF Adds

LEMMA RowAdded ==
    ASSUME NEW l, Library(l), NEW td, NEW name, NEW kind, NEW parent, Owned(l, parent, td)
    PROVE  /\ Adds(l, createResource(l, td, name, kind, parent))
           /\ Owned(createResource(l, td, name, kind, parent), l.nextId, td)
  <1> DEFINE r == [id |-> l.nextId, td |-> td, name |-> name, kind |-> kind, parent |-> parent]
             m == createResource(l, td, name, kind, parent)
  <1>1. r.td = td /\ r.id = l.nextId /\ r.parent = parent OBVIOUS
  <1>2. /\ m.res = l.res \cup {r} /\ m.nextId = l.nextId + 1 /\ m.task = l.task
    BY DEF createResource, Library, Libraries
  <1>3. l.nextId \in Nat BY RowNumbers
  <1> HIDE DEF r, m
  <1>4. Adds(l, m)
    BY <1>1, <1>2, <1>3 DEF Adds
  <1>5. \A s \in l.res : s.id # l.nextId
    <2>1. \A s \in l.res : s.id \in Nat /\ s.id < l.nextId BY RowNumbers DEF Numbered
    <2> QED BY <1>3, <2>1
  <1>6. Owned(m, l.nextId, td)
    BY <1>1, <1>2, <1>3, <1>5 DEF Owned
  <1> QED BY <1>4, <1>6 DEF m

LEMMA StateAdds ==
    ASSUME NEW l, Library(l), NEW td, NEW name PROVE Adds(l, createState(l, td, name))
  <1> DEFINE m == createState(l, td, name)
  <1>1. m.res = l.res /\ m.nextId = l.nextId + 1 /\ m.task = l.task
    BY DEF createState, Library, Libraries
  <1>2. l.nextId \in Nat BY RowNumbers
  <1> HIDE DEF m
  <1>3. Adds(l, m) BY <1>1, <1>2 DEF Adds
  <1> QED BY <1>3 DEF m

LEMMA DeletesAdd ==
    ASSUME NEW l, Library(l), NEW ids
    PROVE  /\ Adds(l, deleteResources(l, ids)) /\ Adds(l, deleteStates(l, ids))
           /\ \A more : Adds(l, deleteResources(deleteStates(l, ids), more))
  <1>1. l \in Libraries BY DEF Library
  <1>2. ASSUME NEW m, m \in Libraries, NEW more
        PROVE  /\ deleteResources(m, more).nextId = m.nextId /\ deleteResources(m, more).task = m.task
               /\ deleteResources(m, more).res \subseteq m.res
    BY <1>2 DEF deleteResources, Libraries
  <1>3. /\ deleteStates(l, ids).nextId = l.nextId /\ deleteStates(l, ids).task = l.task
        /\ deleteStates(l, ids).res = l.res
    BY <1>1 DEF deleteStates, Libraries
  <1>4. deleteStates(l, ids) \in Libraries
    BY StatesDeleted DEF Library
  <1>5. Adds(l, deleteResources(l, ids)) BY <1>1, <1>2, NothingAdded
  <1>6. Adds(l, deleteStates(l, ids)) BY <1>3, NothingAdded
  <1>7. ASSUME NEW more PROVE Adds(l, deleteResources(deleteStates(l, ids), more))
    <2> DEFINE d == deleteStates(l, ids)
               m == deleteResources(d, more)
    <2>1. m.nextId = l.nextId /\ m.task = l.task /\ m.res \subseteq l.res
      BY <1>2, <1>3, <1>4
    <2> HIDE DEF m
    <2>2. Adds(l, m) BY <2>1, NothingAdded
    <2> QED BY <2>2 DEF m
  <1> QED BY <1>5, <1>6, <1>7

LEMMA OwnInitOK == ProfileInit => OwnInv
  <1> SUFFICES ASSUME ProfileInit PROVE OwnInv
    OBVIOUS
  <1>1. jobs = {} /\ view = lib /\ Library(lib)
    BY LibInitOK DEF ProfileInit, LibInv
  <1>2. PICK b \in Bases :
        lib = [tds |-> {FirstTd}, gone |-> {}, tdName |-> [x \in TdIds |-> x], nextId |-> 4,
               res |-> {[id |-> 1, td |-> FirstTd, name |-> <<b, 0>>, kind |-> "type", parent |-> 0],
                        [id |-> 2, td |-> FirstTd, name |-> <<b, 1>>, kind |-> "instance", parent |-> 1]},
               states |-> {[id |-> 3, td |-> FirstTd, name |-> <<b, 1>>]},
               policy |-> [x \in TdIds |-> "none"], task |-> [owner |-> FirstTd, tokens |-> {2}]]
    BY DEF ProfileInit
  <1>3. /\ lib.nextId = 4 /\ \A r \in lib.res : r.td = FirstTd /\ r.parent \in {0, 1}
        /\ lib.task.owner = FirstTd /\ lib.task.tokens = {2}
    BY <1>2
  <1>4. \A id \in {0, 1, 2} : Owned(lib, id, FirstTd)
    BY <1>3 DEF Owned
  <1>5. \A r \in lib.res : Owned(lib, r.id, r.td)
    BY <1>1, RowOwned
  <1> QED BY <1>1, <1>3, <1>4, <1>5 DEF OwnInv, ParentsOwned

\* A write of somebody else.
LEMMA OthersOwn ==
    ASSUME LibInv, OwnInv, NEW l, Adds(lib, l), Write(l, Touched), UNCHANGED view
    PROVE  OwnInv'
  <1>1. ASSUME NEW k \in jobs' PROVE HoldsOwn(k, l)
    <2>1. HoldsOwn(k, lib) BY TouchedHolds DEF Write
    <2> QED BY <2>1, HoldsStays
  <1> QED BY <1>1, OwnWrite DEF Write

LEMMA BuildHolds ==
    ASSUME NEW l, NEW kind \in {"generate", "add"}, NEW td, NEW b, NEW names, NEW parent,
           Owned(l, parent, td)
    PROVE  HoldsOwn(BuildJob(kind, td, b, names, parent), l)
  <1> DEFINE j == BuildJob(kind, td, b, names, parent)
  <1>1. j.kind = kind /\ j.td = td /\ j.parent = parent BY DEF BuildJob
  <1> HIDE DEF j
  <1>2. HoldsOwn(j, l) BY <1>1 DEF HoldsOwn
  <1> QED BY <1>2 DEF j

LEMMA BuilderOwn ==
    ASSUME LibInv, OwnInv, UNCHANGED view, NEW kind \in {"generate", "add"}, NEW td, NEW b, NEW names,
           \/ /\ \E t \in typeNamed(view, td, b) :
                    jobs' = jobs \cup {BuildJob(kind, td, b, names, t.id)}
              /\ UNCHANGED <<lib, lastImport>>
           \/ Write(createResource(lib, td, <<b, 0>>, "type", 0),
                    Touched \cup {BuildJob(kind, td, b, names, lib.nextId)})
    PROVE  OwnInv'
  <1>0. Library(lib) BY DEF LibInv
  <1>1. ASSUME NEW t \in typeNamed(view, td, b), UNCHANGED lib,
               jobs' = jobs \cup {BuildJob(kind, td, b, names, t.id)}
        PROVE  OwnInv'
    <2>1. Owned(lib, t.id, td) BY DEF OwnInv, typeNamed, resourcesOf
    <2> DEFINE k == BuildJob(kind, td, b, names, t.id)
    <2>2. HoldsOwn(k, lib) BY <2>1, BuildHolds
    <2>3. jobs' = jobs \cup {k} BY <1>1
    <2> HIDE DEF k
    <2> QED BY <1>1, <2>2, <2>3 DEF OwnInv
  <1>2. CASE Write(createResource(lib, td, <<b, 0>>, "type", 0),
                    Touched \cup {BuildJob(kind, td, b, names, lib.nextId)})
    <2> DEFINE l == createResource(lib, td, <<b, 0>>, "type", 0)
               k == BuildJob(kind, td, b, names, lib.nextId)
    <2>1. Adds(lib, l) /\ Owned(l, lib.nextId, td)
      BY <1>0, RowOwned, RowAdded
    <2>2. HoldsOwn(k, l) BY <2>1, BuildHolds
    <2>3. lib' = l /\ jobs' = Touched \cup {k} BY <1>2 DEF Write
    <2> HIDE DEF l, k
    <2>4. ASSUME NEW i \in Touched PROVE HoldsOwn(i, l)
      BY <2>1, TouchedHolds, HoldsStays
    <2> QED BY <2>1, <2>2, <2>3, <2>4, OwnWrite
  <1> QED BY <1>1, <1>2

LEMMA UserOwns ==
    ASSUME LibInv, OwnInv, NEW td, ProfileUser(td) PROVE OwnInv'
  <1>0. Library(lib) /\ \A x : Owned(lib, 0, x)
    BY RowOwned DEF LibInv
  <1>1. CASE \E name : handleAddResource(td, name)
    <2>1. PICK name : Write(createResource(lib, td, name, "instance", 0), Touched) /\ UNCHANGED view
      BY <1>1 DEF handleAddResource
    <2> DEFINE l == createResource(lib, td, name, "instance", 0)
    <2>2. Adds(lib, l) BY <1>0, RowAdded
    <2> HIDE DEF l
    <2>3. Write(l, Touched) BY <2>1 DEF l
    <2> QED BY <2>1, <2>2, <2>3, OthersOwn
  <1>2. ASSUME NEW ids, Write(deleteResources(lib, ids), Touched) \/ Write(deleteStates(lib, ids), Touched),
               UNCHANGED view
        PROVE  OwnInv'
    <2>1. Adds(lib, deleteResources(lib, ids)) /\ Adds(lib, deleteStates(lib, ids))
      BY <1>0, DeletesAdd
    <2> QED BY <1>2, <2>1, OthersOwn
  <1>3. CASE handleDeleteResource(td) \/ handleDeleteState(td)
    BY <1>2, <1>3 DEF handleDeleteResource, handleDeleteState
  <1>4. ASSUME NEW b \in Bases, NEW n, handleGenerateResourceType(td, b, n) PROVE OwnInv'
    <2> DEFINE names == buildInstanceNames(b, n) \ {r.name : r \in {i \in resourcesOf(view, td) : isResourceInstance(i)}}
    <2>1. /\ UNCHANGED view
          /\ \/ /\ \E t \in typeNamed(view, td, b) :
                      jobs' = jobs \cup {BuildJob("generate", td, b, names, t.id)}
                /\ UNCHANGED <<lib, lastImport>>
             \/ Write(createResource(lib, td, <<b, 0>>, "type", 0),
                      Touched \cup {BuildJob("generate", td, b, names, lib.nextId)})
      BY <1>4 DEF handleGenerateResourceType
    <2> HIDE DEF names
    <2> QED BY <2>1, BuilderOwn
  <1>5. ASSUME NEW b \in Bases, handleAddInstanceToType(td, b) PROVE OwnInv'
    <2> DEFINE names == {buildNextInstanceName(b, itemsOfGroup(view, td, b))}
    <2>1. /\ UNCHANGED view
          /\ \/ /\ \E t \in typeNamed(view, td, b) :
                      jobs' = jobs \cup {BuildJob("add", td, b, names, t.id)}
                /\ UNCHANGED <<lib, lastImport>>
             \/ Write(createResource(lib, td, <<b, 0>>, "type", 0),
                      Touched \cup {BuildJob("add", td, b, names, lib.nextId)})
      BY <1>5 DEF handleAddInstanceToType
    <2> HIDE DEF names
    <2> QED BY <2>1, BuilderOwn
  <1>6. ASSUME NEW s \in {Plain, NoTd}, handleAddState(td, s) PROVE OwnInv'
    <2>1. PICK done : /\ Len(done) \in Nat
                      /\ Write([lib EXCEPT !.nextId = @ + Len(done),
                               !.states = @ \cup {[id |-> lib.nextId + i - 1, td |-> td, name |-> done[i]]
                                                    : i \in DOMAIN done}], Touched)
      <3> DEFINE names == expandStateNameByTemplate(s, td) \ {x.name : x \in statesOf(view, td)}
      <3>1. IsFiniteSet(names)
        BY NewStateNames
      <3> HIDE DEF names
      <3>5. \E done \in {SetToSeq(t) : t \in SUBSET names} :
              Write([lib EXCEPT !.nextId = @ + Len(done),
                       !.states = @ \cup {[id |-> lib.nextId + i - 1, td |-> td, name |-> done[i]]
                                            : i \in DOMAIN done}], Touched)
        BY <1>6 DEF handleAddState, names
      <3>2. PICK T \in SUBSET names :
              Write([lib EXCEPT !.nextId = @ + Len(SetToSeq(T)),
                       !.states = @ \cup {[id |-> lib.nextId + i - 1, td |-> td, name |-> SetToSeq(T)[i]]
                                            : i \in DOMAIN SetToSeq(T)}], Touched)
        BY <3>5
      <3>3. IsFiniteSet(T) BY <3>1, FS_Subset
      <3>4. Len(SetToSeq(T)) \in Nat
        BY <3>3, SetToSeqOnce
      <3> QED BY <3>2, <3>4
    <2> DEFINE n == lib.nextId + Len(done)
               S == lib.states \cup {[id |-> lib.nextId + i - 1, td |-> td, name |-> done[i]] : i \in DOMAIN done}
               l == [lib EXCEPT !.nextId = n, !.states = S]
    <2>2. Write(l, Touched) /\ UNCHANGED view BY <1>6, <2>1 DEF handleAddState
    <2>3. lib.nextId \in Nat /\ n \in Nat /\ lib.nextId <= n
      BY <1>0, <2>1, RowNumbers
    <2> HIDE DEF n, S
    <2>4. l.nextId = n /\ l.task = lib.task /\ l.res = lib.res
      BY <1>0 DEF Library, Libraries
    <2> HIDE DEF l
    <2>5. Adds(lib, l) BY <2>3, <2>4 DEF Adds
    <2> QED BY <2>2, <2>5, OthersOwn
  <1>7. ASSUME NEW p, handleSaveStateMergePolicies(td, p) PROVE OwnInv'
    <2> DEFINE P == [lib.policy EXCEPT ![td] = normalizeStateMergePolicies(p)]
               l == [lib EXCEPT !.policy = P]
    <2>1. Write(l, Touched) /\ UNCHANGED view
      BY <1>7 DEF handleSaveStateMergePolicies
    <2> HIDE DEF P
    <2>2. l.nextId = lib.nextId /\ l.task = lib.task /\ l.res = lib.res
      BY <1>0 DEF Library, Libraries
    <2> HIDE DEF l
    <2>3. Adds(lib, l) BY <1>0, <2>2, NothingAdded
    <2> QED BY <2>1, <2>3, OthersOwn
  <1>8. ASSUME NEW name, handleRenameTd(td, name) PROVE OwnInv'
    <2> DEFINE P == [lib.tdName EXCEPT ![td] = name]
               l == [lib EXCEPT !.tdName = P]
    <2>1. Write(l, Touched) /\ UNCHANGED view
      BY <1>8 DEF handleRenameTd
    <2> HIDE DEF P
    <2>2. l.nextId = lib.nextId /\ l.task = lib.task /\ l.res = lib.res
      BY <1>0 DEF Library, Libraries
    <2> HIDE DEF l
    <2>3. Adds(lib, l) BY <1>0, <2>2, NothingAdded
    <2> QED BY <2>1, <2>3, OthersOwn
  <1>9. CASE handleExportDistributorProfile(td)
    BY <1>9 DEF handleExportDistributorProfile, OwnInv
  <1> QED BY <1>1, <1>3, <1>4, <1>5, <1>6, <1>7, <1>8, <1>9 DEF ProfileUser

LEMMA DisappearOwns ==
    ASSUME LibInv, OwnInv, NEW td, TdDisappears(td) PROVE OwnInv'
  <1>0. Library(lib) BY DEF LibInv
  <1>1. PICK T, G, S : /\ Write([lib EXCEPT !.tds = T, !.gone = G, !.res = lib.res \ resourcesOf(lib, td),
                                            !.states = S], Touched)
                       /\ UNCHANGED view
    BY DEF TdDisappears
  <1> DEFINE R == lib.res \ resourcesOf(lib, td)
             l == [lib EXCEPT !.tds = T, !.gone = G, !.res = R, !.states = S]
  <1>2. Write(l, Touched) BY <1>1
  <1>3. R \subseteq lib.res OBVIOUS
  <1> HIDE DEF R
  <1>4. l.nextId = lib.nextId /\ l.task = lib.task /\ l.res = R
    BY <1>0 DEF Library, Libraries
  <1> HIDE DEF l
  <1>5. Adds(lib, l) BY <1>0, <1>3, <1>4, NothingAdded
  <1> QED BY <1>1, <1>2, <1>5, OthersOwn

LEMMA BuiltOwns ==
    ASSUME LibInv, OwnInv, NEW j \in jobs, InstancesBuilt(j) PROVE OwnInv'
  <1>1. PICK done \in SUBSET j.names :
          LET names == SetToSeq(done)
              made == {[id |-> lib.nextId + i - 1, td |-> j.td, name |-> names[i],
                        kind |-> "instance", parent |-> j.parent] : i \in DOMAIN names}
          IN Write([lib EXCEPT !.res = @ \cup made, !.nextId = @ + Len(names)],
                   Touched \ {[j EXCEPT !.touched = TRUE]})
    BY DEF InstancesBuilt
  <1>2. IsFiniteSet(j.names) /\ Fits(Cardinality(j.names)) /\ j.kind # "import"
    <2>1. LibJob(j) BY DEF LibInv
    <2>2. j.kind # "import" BY DEF InstancesBuilt
    <2>3. j \notin ImportJobs BY <2>2 DEF ImportJobs
    <2> QED BY <2>1, <2>2, <2>3 DEF LibJob, InstancesBuilt
  <1>3. Owned(lib, j.parent, j.td) /\ Library(lib)
    BY <1>2 DEF OwnInv, HoldsOwn, LibInv
  <1> DEFINE names == SetToSeq(done)
             row(i) == [id |-> lib.nextId + i - 1, td |-> j.td, name |-> names[i],
                        kind |-> "instance", parent |-> j.parent]
             made == {row(i) : i \in DOMAIN names}
             n == lib.nextId + Len(names)
             l == [lib EXCEPT !.res = lib.res \cup made, !.nextId = n]
  <1>4. /\ Len(names) \in Nat /\ lib.nextId <= n /\ n \in 1 .. MaxIds + 1
        /\ \A i \in DOMAIN names : lib.nextId + i - 1 >= lib.nextId
    BY <1>2, RowsMade
  <1>5. Write(l, Touched \ {[j EXCEPT !.touched = TRUE]}) BY <1>1
  <1>6. \A s \in made : s.id >= lib.nextId /\ s.td = j.td /\ s.parent = j.parent
    <2> HIDE DEF names
    <2> QED BY <1>4
  <1>7. lib.nextId \in Nat /\ n \in Nat
    BY <1>3, <1>4, RowNumbers, ProfileAssumption
  <1> HIDE DEF made, n
  <1>8. l.nextId = n /\ l.task = lib.task /\ l.res = lib.res \cup made
    BY <1>3 DEF Library, Libraries
  <1> HIDE DEF l
  <1>9. Adds(lib, l) BY <1>3, <1>4, <1>6, <1>7, <1>8 DEF Adds
  <1>10. ASSUME NEW k \in jobs' PROVE HoldsOwn(k, l)
    <2>1. HoldsOwn(k, lib) BY <1>5, TouchedHolds DEF Write
    <2> QED BY <1>9, <2>1, HoldsStays
  <1>11. lib' = l /\ UNCHANGED view BY <1>5 DEF Write, InstancesBuilt
  <1> QED BY <1>9, <1>10, <1>11, OwnWrite

\* A request of an import.
LEMMA ProceedOwns ==
    ASSUME OwnInv, NEW j, NEW k, NEW l, Proceed(j, k, l), Adds(lib, l), HoldsOwn(k, l), UNCHANGED view
    PROVE  OwnInv'
  <1>1. ASSUME NEW i \in jobs' PROVE HoldsOwn(i, l)
    <2>1. i = k \/ i \in jobs BY DEF Proceed, Write
    <2>2. i \in jobs => HoldsOwn(i, lib) BY DEF OwnInv
    <2> QED BY <2>1, <2>2, HoldsStays
  <1> QED BY <1>1, OwnWrite DEF Proceed, Write

LEMMA ImportStarted ==
    ASSUME LibInv, OwnInv, loadProfileView \/ handleImportDistributorProfile PROVE OwnInv'
  <1>1. CASE loadProfileView
    <2>1. \A r \in lib.res : Owned(lib, r.id, r.td)
      BY RowOwned DEF LibInv
    <2> QED BY <1>1, <2>1 DEF OwnInv, loadProfileView
  <1>2. CASE handleImportDistributorProfile
    <2> DEFINE k == [kind |-> "import", profile |-> file, td |-> NoTd, stage |-> "find", at |-> 1,
                     states |-> {}, resources |-> {}, typeResourceByName |-> {}, before |-> NoTd,
                     known |-> view, touched |-> FALSE]
    <2>1. k.kind = "import" /\ k.stage = "find" /\ k.typeResourceByName = {} OBVIOUS
    <2>2. jobs' = jobs \cup {k} /\ UNCHANGED <<lib, view>>
      BY <1>2 DEF handleImportDistributorProfile
    <2> HIDE DEF k
    <2>3. HoldsOwn(k, lib) BY <2>1 DEF HoldsOwn
    <2> QED BY <2>2, <2>3 DEF OwnInv
  <1> QED BY <1>1, <1>2

\* What an import may have in its hands when it comes to its next request.
LEMMA ImportHolds ==
    ASSUME LibInv, OwnInv, NEW j \in jobs, j.kind = "import"
    PROVE  /\ j \in ImportJobs /\ Library(lib)
           /\ j.stage = "find" => j.typeResourceByName = {}
           /\ \A p \in j.typeResourceByName : Owned(lib, p[2], j.td)
           /\ j.stage = "bind" => \A r \in j.resources : Owned(lib, r.id, j.td)
  BY ImportJob DEF OwnInv, HoldsOwn, LibInv

LEMMA ImportOwnsEarly ==
    ASSUME LibInv, OwnInv, NEW j \in jobs, ImportFind(j) \/ ImportClear(j) PROVE OwnInv'
  <1>1. CASE ImportFind(j)
    <2>1. PICK td \in IF FoundTd(j) # {} THEN FoundTd(j) \cap lib.tds ELSE TdIds \ (lib.tds \cup lib.gone) :
          LET l == [lib EXCEPT !.tds = @ \cup {td}, !.tdName[td] = j.profile.name]
          IN Proceed(j, [j EXCEPT !.td = td, !.stage = "clear", !.known = NoTd,
                                  !.before = Requirement(lib),
                                  !.states = {s.id : s \in statesOf(lib, td)},
                                  !.resources = {r.id : r \in resourcesOf(lib, td)}], l)
      BY <1>1 DEF ImportFind
    <2>2. /\ j.kind = "import" /\ j \in ImportJobs /\ Library(lib) /\ j.typeResourceByName = {}
          /\ UNCHANGED view
      BY <1>1, ImportHolds DEF ImportFind, ImportStep
    <2> DEFINE T == lib.tds \cup {td}
               N == [lib.tdName EXCEPT ![td] = j.profile.name]
               l == [lib EXCEPT !.tds = T, !.tdName = N]
               S == {s.id : s \in statesOf(lib, td)}
               R == {r.id : r \in resourcesOf(lib, td)}
               B == Requirement(lib)
               k == [j EXCEPT !.td = td, !.stage = "clear", !.known = NoTd, !.before = B,
                              !.states = S, !.resources = R]
    <2>3. Proceed(j, k, l) BY <2>1
    <2> HIDE DEF T, N, S, R, B
    <2>4. l.nextId = lib.nextId /\ l.task = lib.task /\ l.res = lib.res
      BY <2>2 DEF Library, Libraries
    <2>5. k.kind = "import" /\ k.stage = "clear" /\ k.typeResourceByName = {}
      BY <2>2 DEF ImportJobs
    <2> HIDE DEF k, l
    <2>6. Adds(lib, l) BY <2>2, <2>4, NothingAdded
    <2>7. HoldsOwn(k, l) BY <2>5 DEF HoldsOwn
    <2> QED BY <2>2, <2>3, <2>6, <2>7, ProceedOwns
  <1>2. CASE ImportClear(j)
    <2>1. /\ j.kind = "import" /\ j \in ImportJobs /\ Library(lib) /\ UNCHANGED view
          /\ \A p \in j.typeResourceByName : Owned(lib, p[2], j.td)
      BY <1>2, ImportHolds DEF ImportClear, ImportStep
    <2>2. \A ids : Adds(lib, deleteResources(deleteStates(lib, j.states), ids))
      BY <2>1, DeletesAdd
    <2>3. ASSUME NEW k, k = [j EXCEPT !.stage = "states", !.states = {}, !.resources = {}],
                 Proceed(j, k, deleteResources(deleteStates(lib, j.states), j.resources))
          PROVE  OwnInv'
      <3>1. k.kind = "import" /\ k.stage = "states" /\ k.td = j.td /\ k.typeResourceByName = j.typeResourceByName
        BY <2>1, <2>3 DEF ImportJobs
      <3>2. HoldsOwn(k, lib) BY <2>1, <3>1 DEF HoldsOwn
      <3> DEFINE l == deleteResources(deleteStates(lib, j.states), j.resources)
      <3>3. Adds(lib, l) /\ Proceed(j, k, l) BY <2>2, <2>3
      <3> HIDE DEF l
      <3>4. HoldsOwn(k, l) BY <3>2, <3>3, HoldsStays
      <3> QED BY <2>1, <3>3, <3>4, ProceedOwns
    <2>4. ASSUME NEW r, Write(deleteResources(deleteStates(lib, j.states), j.resources \ {r}), jobs \ {j})
          PROVE  OwnInv'
      <3> DEFINE l == deleteResources(deleteStates(lib, j.states), j.resources \ {r})
      <3>1. Adds(lib, l) /\ Write(l, jobs \ {j}) BY <2>2, <2>4
      <3> HIDE DEF l
      <3>2. ASSUME NEW i \in jobs' PROVE HoldsOwn(i, l)
        <4>1. HoldsOwn(i, lib) BY <3>1 DEF Write, OwnInv
        <4> QED BY <3>1, <4>1, HoldsStays
      <3> QED BY <2>1, <3>1, <3>2, OwnWrite DEF Write
    <2> QED BY <1>2, <2>3, <2>4 DEF ImportClear
  <1> QED BY <1>1, <1>2

\* A request that leaves the types by name as they are, or adds the type that it creates.
LEMMA CreatesOwn ==
    ASSUME LibInv, OwnInv, UNCHANGED view, NEW j \in jobs, j.kind = "import", NEW k, NEW l,
           Proceed(j, k, l), Adds(lib, l), k.kind = "import", k.stage \notin {"find", "bind"},
           k.td = j.td,
           \A p \in k.typeResourceByName : p \in j.typeResourceByName \/ Owned(l, p[2], k.td)
    PROVE  OwnInv'
  <1>1. \A p \in j.typeResourceByName : Owned(l, p[2], j.td)
    BY ImportHolds, OwnedStays
  <1>2. HoldsOwn(k, l)
    BY <1>1 DEF HoldsOwn
  <1> QED BY <1>2, ProceedOwns

LEMMA ImportStateOwns ==
    ASSUME LibInv, OwnInv, NEW j \in jobs, ImportState(j) PROVE OwnInv'
  <1>1. /\ j.kind = "import" /\ j \in ImportJobs /\ Library(lib) /\ UNCHANGED view
        /\ j.stage = "states"
    BY ImportHolds DEF ImportState, ImportStep
  <1>2. CASE j.at <= Len(j.profile.states)
    <2> DEFINE k == [j EXCEPT !.at = j.at + 1]
               l == createState(lib, j.td, j.profile.states[j.at])
    <2>1. Proceed(j, k, l) BY <1>2 DEF ImportState
    <2>2. k.kind = "import" /\ k.stage = "states" /\ k.td = j.td /\ k.typeResourceByName = j.typeResourceByName
      BY <1>1 DEF ImportJobs
    <2>3. Adds(lib, l) BY <1>1, StateAdds
    <2> HIDE DEF k, l
    <2> QED BY <1>1, <2>1, <2>2, <2>3, CreatesOwn
  <1>3. CASE ~ (j.at <= Len(j.profile.states))
    <2> DEFINE k == [j EXCEPT !.at = 1, !.stage = "types"]
    <2>1. Proceed(j, k, lib) BY <1>3 DEF ImportState
    <2>2. k.kind = "import" /\ k.stage = "types" /\ k.td = j.td /\ k.typeResourceByName = j.typeResourceByName
      BY <1>1 DEF ImportJobs
    <2>3. Adds(lib, lib) BY <1>1, NothingAdded
    <2> HIDE DEF k
    <2> QED BY <1>1, <2>1, <2>2, <2>3, CreatesOwn
  <1> QED BY <1>2, <1>3

LEMMA ImportTypeOwns ==
    ASSUME LibInv, OwnInv, NEW j \in jobs, ImportType(j) PROVE OwnInv'
  <1>1. /\ j.kind = "import" /\ j \in ImportJobs /\ Library(lib) /\ UNCHANGED view
        /\ j.stage = "types"
    BY ImportHolds DEF ImportType, ImportStep
  <1> DEFINE w == Wanted(j, "type")
  <1>2. CASE j.at <= Len(w)
    <2> DEFINE name == w[j.at].name
               y == <<name, lib.nextId>>
               M == {p \in j.typeResourceByName : p[1] # name} \cup {y}
               k == [j EXCEPT !.at = j.at + 1, !.typeResourceByName = M]
               l == createResource(lib, j.td, name, "type", 0)
    <2>1. Proceed(j, k, l) BY <1>2 DEF ImportType
    <2>2. Adds(lib, l) /\ Owned(l, lib.nextId, j.td) BY <1>1, RowOwned, RowAdded
    <2>3. y[2] = lib.nextId OBVIOUS
    <2> HIDE DEF l, name, y
    <2>4. \A p \in M : p \in j.typeResourceByName \/ Owned(l, p[2], j.td)
      BY <2>2, <2>3
    <2> HIDE DEF M
    <2>5. k.kind = "import" /\ k.stage = "types" /\ k.td = j.td /\ k.typeResourceByName = M
      BY <1>1 DEF ImportJobs
    <2> HIDE DEF k
    <2> QED BY <1>1, <2>1, <2>2, <2>4, <2>5, CreatesOwn
  <1>3. CASE ~ (j.at <= Len(w))
    <2> DEFINE k == [j EXCEPT !.at = 1, !.stage = "instances"]
    <2>1. Proceed(j, k, lib) BY <1>3 DEF ImportType
    <2>2. k.kind = "import" /\ k.stage = "instances" /\ k.td = j.td /\ k.typeResourceByName = j.typeResourceByName
      BY <1>1 DEF ImportJobs
    <2>3. Adds(lib, lib) BY <1>1, NothingAdded
    <2> HIDE DEF k
    <2> QED BY <1>1, <2>1, <2>2, <2>3, CreatesOwn
  <1> QED BY <1>2, <1>3

LEMMA ImportInstanceOwns ==
    ASSUME LibInv, OwnInv, NEW j \in jobs, ImportInstance(j) PROVE OwnInv'
  <1>1. /\ j.kind = "import" /\ j \in ImportJobs /\ Library(lib) /\ UNCHANGED view
        /\ j.stage = "instances" /\ \A p \in j.typeResourceByName : Owned(lib, p[2], j.td)
        /\ Owned(lib, 0, j.td)
    BY ImportHolds, RowOwned DEF ImportInstance, ImportStep
  <1> DEFINE w == Wanted(j, "instance")
             e == w[j.at]
             M == j.typeResourceByName
             parents == {p[2] : p \in {q \in M : q[1] = e.parent_name}}
  <1>2. CASE j.at <= Len(w) /\ e.parent_name # NoTd /\ parents = {}
    <2> DEFINE y == <<e.parent_name, lib.nextId>>
               N == M \cup {y}
               k == [j EXCEPT !.typeResourceByName = N]
               l == createResource(lib, j.td, e.parent_name, "type", 0)
    <2>1. Proceed(j, k, l) BY <1>2 DEF ImportInstance
    <2>2. Adds(lib, l) /\ Owned(l, lib.nextId, j.td) BY <1>1, RowAdded
    <2>3. y[2] = lib.nextId OBVIOUS
    <2> HIDE DEF l, e, y, parents
    <2>4. \A p \in N : p \in j.typeResourceByName \/ Owned(l, p[2], j.td)
      BY <2>2, <2>3
    <2> HIDE DEF N
    <2>5. k.kind = "import" /\ k.stage = "instances" /\ k.td = j.td /\ k.typeResourceByName = N
      BY <1>1 DEF ImportJobs
    <2> HIDE DEF k
    <2> QED BY <1>1, <2>1, <2>2, <2>4, <2>5, CreatesOwn
  <1>3. CASE j.at <= Len(w) /\ ~ (e.parent_name # NoTd /\ parents = {})
    <2> DEFINE up == IF parents = {} THEN 0 ELSE CHOOSE p \in parents : TRUE
               k == [j EXCEPT !.at = j.at + 1]
               l == createResource(lib, j.td, e.name, "instance", up)
    <2>1. Proceed(j, k, l) BY <1>3 DEF ImportInstance
    <2>2. Owned(lib, up, j.td)
      <3>1. \A p \in parents : Owned(lib, p, j.td) BY <1>1
      <3>2. parents # {} => (CHOOSE p \in parents : TRUE) \in parents OBVIOUS
      <3> HIDE DEF parents
      <3> QED BY <1>1, <3>1, <3>2
    <2> HIDE DEF up
    <2>3. Adds(lib, l) BY <1>1, <2>2, RowAdded
    <2>4. k.kind = "import" /\ k.stage = "instances" /\ k.td = j.td /\ k.typeResourceByName = j.typeResourceByName
      BY <1>1 DEF ImportJobs
    <2> HIDE DEF k, l
    <2> QED BY <1>1, <2>1, <2>3, <2>4, CreatesOwn
  <1>4. CASE ~ (j.at <= Len(w))
    <2> DEFINE k == [j EXCEPT !.stage = "policies"]
    <2>1. Proceed(j, k, lib) BY <1>4 DEF ImportInstance
    <2>2. k.kind = "import" /\ k.stage = "policies" /\ k.td = j.td /\ k.typeResourceByName = j.typeResourceByName
      BY <1>1 DEF ImportJobs
    <2>3. Adds(lib, lib) BY <1>1, NothingAdded
    <2> HIDE DEF k
    <2> QED BY <1>1, <2>1, <2>2, <2>3, CreatesOwn
  <1> QED BY <1>2, <1>3, <1>4

LEMMA ImportPoliciesOwns ==
    ASSUME LibInv, OwnInv, NEW j \in jobs, ImportPolicies(j) PROVE OwnInv'
  <1>1. /\ j.kind = "import" /\ j \in ImportJobs /\ Library(lib) /\ UNCHANGED view
        /\ \A p \in j.typeResourceByName : Owned(lib, p[2], j.td)
    BY ImportHolds DEF ImportPolicies, ImportStep
  <1> DEFINE R == resourcesOf(lib, j.td)
             k == [j EXCEPT !.stage = "bind", !.resources = R]
             P == [lib.policy EXCEPT ![j.td] = normalizeStateMergePolicies(j.profile.policy)]
             l == [lib EXCEPT !.policy = P]
  <1>2. Proceed(j, k, l) BY DEF ImportPolicies
  <1>3. \A r \in R : Owned(lib, r.id, j.td)
    <2>1. \A r \in lib.res : Owned(lib, r.id, r.td) BY <1>1, RowOwned
    <2> QED BY <2>1 DEF resourcesOf
  <1> HIDE DEF R, P
  <1>4. l.nextId = lib.nextId /\ l.task = lib.task /\ l.res = lib.res
    BY <1>1 DEF Library, Libraries
  <1>5. /\ k.kind = "import" /\ k.stage = "bind" /\ k.td = j.td /\ k.resources = R
        /\ k.typeResourceByName = j.typeResourceByName
    BY <1>1 DEF ImportJobs
  <1> HIDE DEF k, l
  <1>6. Adds(lib, l) BY <1>1, <1>4, NothingAdded
  <1>7. HoldsOwn(k, lib) BY <1>1, <1>3, <1>5 DEF HoldsOwn
  <1>8. HoldsOwn(k, l) BY <1>6, <1>7, HoldsStays
  <1> QED BY <1>1, <1>2, <1>6, <1>8, ProceedOwns

LEMMA ImportBindOwns ==
    ASSUME LibInv, OwnInv, NEW j \in jobs, ImportBind(j) PROVE OwnInv'
  <1>1. /\ j.kind = "import" /\ Library(lib) /\ UNCHANGED view /\ jobs' = jobs \ {j}
        /\ \A r \in j.resources : Owned(lib, r.id, j.td)
    BY ImportHolds DEF ImportBind, ImportStep
  <1>2. \A t \in Rebound(j) : \E r \in j.resources : r.id = t
    <2> DEFINE owner == lib.task.owner
               old == IF owner = j.td THEN {} ELSE resourcesOf(lib, owner)
               kept_ == {t \in lib.task.tokens : \E r \in j.resources : r.id = t}
               named == {r \in old : r.id \in lib.task.tokens \ kept_}
               pairs == KindsNamed(named) \cap KindsNamed(j.resources)
               pick(p) == CHOOSE r \in j.resources : <<r.kind, r.name>> = p
    <2>1. Rebound(j) = kept_ \cup {pick(p).id : p \in pairs}
      BY DEF Rebound
    <2>2. \A p \in pairs : pick(p) \in j.resources
      <3>1. \A p \in pairs : \E r \in j.resources : <<r.kind, r.name>> = p
        BY DEF KindsNamed
      <3> HIDE DEF pairs
      <3> QED BY <3>1
    <2> HIDE DEF pairs, pick, named
    <2> QED BY <2>1, <2>2
  <1> DEFINE t == [owner |-> j.td, tokens |-> Rebound(j)]
  <1>3. lib' = lib \/ lib' = [lib EXCEPT !.task = t]
    BY DEF ImportBind
  <1>4. t.owner = j.td /\ t.tokens = Rebound(j) OBVIOUS
  <1> HIDE DEF t
  <1>5. lib'.nextId = lib.nextId /\ lib'.res = lib.res /\ (lib' = lib \/ lib'.task = t)
    BY <1>1, <1>3 DEF Library, Libraries
  <1>6. \A id, td : Owned(lib', id, td) <=> Owned(lib, id, td)
    BY <1>5 DEF Owned
  <1>7. \A x \in lib'.task.tokens : Owned(lib', x, lib'.task.owner)
    <2>1. CASE lib' = lib BY <2>1 DEF OwnInv
    <2>2. CASE lib'.task = t BY <1>1, <1>2, <1>4, <1>6, <2>2
    <2> QED BY <1>5, <2>1, <2>2
  <1>8. \A i \in jobs' : HoldsOwn(i, lib')
    <2>1. \A i \in jobs : HoldsOwn(i, lib) BY DEF OwnInv
    <2> QED BY <1>1, <1>6, <2>1 DEF HoldsOwn
  <1>9. ParentsOwned(lib') /\ \A r \in view.res : Owned(lib', r.id, r.td)
    BY <1>5, <1>6 DEF OwnInv, ParentsOwned
  <1> QED BY <1>1, <1>7, <1>8, <1>9 DEF OwnInv

LEMMA OwnNextOK == LibInv /\ OwnInv /\ [ProfileNext]_libVars => OwnInv'
  <1> SUFFICES ASSUME LibInv, OwnInv, [ProfileNext]_libVars PROVE OwnInv'
    OBVIOUS
  <1>1. CASE UNCHANGED libVars
    BY <1>1 DEF libVars, OwnInv
  <1>2. ASSUME NEW j \in jobs, JobFails(j) PROVE OwnInv'
    BY <1>2 DEF JobFails, OwnInv
  <1>3. ASSUME NEW j \in jobs, ProfileSteps(j) PROVE OwnInv'
    BY <1>2, <1>3, BuiltOwns, ImportOwnsEarly, ImportStateOwns, ImportTypeOwns, ImportInstanceOwns,
       ImportPoliciesOwns, ImportBindOwns DEF ProfileSteps
  <1> QED BY <1>1, <1>3, UserOwns, DisappearOwns, ImportStarted DEF ProfileNext

(***************************************************************************)
(* One-to-one correspondences, and sequences that differ in their order    *)
(***************************************************************************)
OneToOne(h, S, T) ==
    /\ h \in [S -> T]
    /\ \A a, b \in S : h[a] = h[b] => a = b
    /\ \A y \in T : \E a \in S : h[a] = y

LEMMA OneToOneSize ==
    ASSUME NEW S, NEW T, NEW h, OneToOne(h, S, T), IsFiniteSet(S)
    PROVE  IsFiniteSet(T) /\ Cardinality(T) = Cardinality(S)
  <1>1. h \in Bijection(S, T)
    BY DEF OneToOne, Bijection, Injection, Surjection, IsInjective
  <1>2. ExistsBijection(S, T)
    BY <1>1 DEF ExistsBijection
  <1> QED BY <1>2, FS_Bijection

LEMMA OneToOneChain ==
    ASSUME NEW S, NEW T, NEW U, NEW g, NEW h, OneToOne(g, S, T), OneToOne(h, T, U)
    PROVE  OneToOne([a \in S |-> h[g[a]]], S, U)
  <1> DEFINE f == [a \in S |-> h[g[a]]]
  <1>1. f \in [S -> U]
    BY DEF OneToOne
  <1>2. ASSUME NEW a \in S, NEW b \in S, f[a] = f[b] PROVE a = b
    BY <1>2 DEF OneToOne
  <1>3. ASSUME NEW y \in U PROVE \E a \in S : f[a] = y
    <2>1. PICK t \in T : h[t] = y BY DEF OneToOne
    <2>2. PICK a \in S : g[a] = t BY DEF OneToOne
    <2> QED BY <2>1, <2>2
  <1> QED BY <1>1, <1>2, <1>3 DEF OneToOne

LEMMA OneToOneMore ==
    ASSUME NEW S, NEW T, NEW h, OneToOne(h, S, T), NEW a, a \notin S, NEW y, y \notin T
    PROVE  LET f == [x \in S \cup {a} |-> IF x = a THEN y ELSE h[x]]
           IN OneToOne(f, S \cup {a}, T \cup {y})
  BY DEF OneToOne

Back(h, S, T) == [y \in T |-> CHOOSE a \in S : h[a] = y]

LEMMA OneToOneBack ==
    ASSUME NEW S, NEW T, NEW h, OneToOne(h, S, T)
    PROVE  OneToOne(Back(h, S, T), T, S) /\ \A y \in T : h[Back(h, S, T)[y]] = y
  <1> DEFINE f == Back(h, S, T)
  <1>1. \A y \in T : f[y] \in S /\ h[f[y]] = y
    BY DEF OneToOne, Back
  <1>2. f \in [T -> S]
    BY <1>1 DEF Back
  <1>3. \A a \in S : h[a] \in T /\ f[h[a]] = a
    <2> TAKE a \in S
    <2>1. h[a] \in T BY DEF OneToOne
    <2>2. f[h[a]] \in S /\ h[f[h[a]]] = h[a] BY <1>1, <2>1
    <2> HIDE DEF f
    <2> QED BY <2>1, <2>2 DEF OneToOne
  <1> HIDE DEF f
  <1>4. OneToOne(f, T, S)
    BY <1>1, <1>2, <1>3 DEF OneToOne
  <1> QED BY <1>1, <1>4 DEF f

\* The list of a finite set has each element once.
LEMMA ListOneToOne ==
    ASSUME NEW S, IsFiniteSet(S)
    PROVE  /\ OneToOne(SetToSeq(S), 1 .. Cardinality(S), S) /\ SetToSeq(S) \in Seq(S)
           /\ DOMAIN SetToSeq(S) = 1 .. Cardinality(S) /\ Cardinality(S) \in Nat
           /\ Len(SetToSeq(S)) = Cardinality(S)
  <1> DEFINE n == Cardinality(S)
             h == SetToSeq(S)
  <1>1. /\ n \in Nat /\ h \in Seq(S) /\ DOMAIN h = 1 .. n /\ Len(h) = n
        /\ \A i, j \in 1 .. n : h[i] = h[j] => i = j
    BY SetToSeqOnce
  <1> HIDE DEF h
  <1>2. h \in [1 .. n -> S]
    BY <1>1
  <1>3. h \in Injection(1 .. n, S)
    BY <1>1, <1>2 DEF Injection, IsInjective
  <1>4. Cardinality(1 .. n) = n /\ IsFiniteSet(1 .. n)
    <2> HIDE DEF n
    <2> QED BY <1>1, FS_Interval
  <1>5. h \in Surjection(1 .. n, S)
    BY <1>3, <1>4, FS_Injection
  <1>6. OneToOne(h, 1 .. n, S)
    <2> HIDE DEF n
    <2> QED BY <1>1, <1>2, <1>5 DEF OneToOne, Surjection
  <1> QED BY <1>1, <1>6 DEF h

\* Sequences whose positions correspond have the same elements, each as often.
LEMMA BagOfPairs ==
    ASSUME NEW X, NEW s \in Seq(X), NEW t \in Seq(X), NEW h, OneToOne(h, DOMAIN s, DOMAIN t),
           \A i \in DOMAIN s : s[i] = t[h[i]]
    PROVE  SameBag(s, t)
  <1>1. /\ DOMAIN s = 1 .. Len(s) /\ Len(s) \in Nat
        /\ DOMAIN t = 1 .. Len(t) /\ Len(t) \in Nat
    OBVIOUS
  <1>2. /\ IsFiniteSet(DOMAIN s) /\ Cardinality(DOMAIN s) = Len(s)
        /\ IsFiniteSet(DOMAIN t) /\ Cardinality(DOMAIN t) = Len(t)
    <2>1. ASSUME NEW n \in Nat PROVE IsFiniteSet(1 .. n) /\ Cardinality(1 .. n) = n
      BY FS_Interval
    <2> QED BY <1>1, <2>1
  <1>3. Len(s) = Len(t)
    BY <1>2, OneToOneSize
  <1>4. ASSUME NEW x PROVE Occurrences(s, x) = Occurrences(t, x)
    <2> DEFINE I == {i \in DOMAIN s : s[i] = x}
               J == {i \in DOMAIN t : t[i] = x}
               g == [i \in I |-> h[i]]
    <2>1. g \in [I -> J]
      BY DEF OneToOne
    <2>2. \A a, b \in I : g[a] = g[b] => a = b
      BY DEF OneToOne
    <2>3. \A y \in J : \E a \in I : g[a] = y
      BY DEF OneToOne
    <2>4. IsFiniteSet(I)
      BY <1>2, FS_Subset
    <2> HIDE DEF I, J, g
    <2>5. OneToOne(g, I, J) BY <2>1, <2>2, <2>3 DEF OneToOne
    <2>6. Cardinality(I) = Cardinality(J) BY <2>4, <2>5, OneToOneSize
    <2> QED BY <2>6 DEF Occurrences, I, J
  <1> QED BY <1>3, <1>4 DEF SameBag

(***************************************************************************)
(* What an import has made of its profile                                  *)
(***************************************************************************)
Kinds(rs, kind) == {i \in DOMAIN rs : rs[i].kind = kind}
TypeNames(rs) == {rs[i].name : i \in Kinds(rs, "type")}
Missing(rs) == {rs[i].parent_name : i \in DOMAIN rs} \ ({NoTd} \cup TypeNames(rs))

\* Where the wanted entries of a kind stand, and where the first n of them do.
Place(rs, kind) == CHOOSE g : Picks(At(rs, Kinds(rs, kind)), rs, Kinds(rs, kind), g)
UpTo(rs, kind, n) == {Place(rs, kind)[i] : i \in 1 .. n}

\* What a row is made for: an entry, or a type that is only named as a parent.
Listed(I) == {0} \X I
Extra(N) == {1} \X N
EntryAt(rs, p) ==
    IF p[1] = 0 THEN rs[p[2]] ELSE [name |-> p[2], kind |-> "type", parent_name |-> NoTd]

\* The row r, among the rows R, is what the entry e says.
MadeFrom(r, R, e) ==
    /\ r.name = e.name /\ r.kind = e.kind
    /\ IF e.parent_name = NoTd THEN r.parent = 0
       ELSE \E p \in R : p.id = r.parent /\ p.name = e.parent_name

Made(R, rs, P) == \E g : OneToOne(g, R, P) /\ \A r \in R : MadeFrom(r, R, EntryAt(rs, g[r]))
StatesMade(S, names, n) == \E g : OneToOne(g, S, 1 .. n) /\ \A s \in S : s.name = names[g[s]]

\* The types that instances find by their names are rows.
NamesOf(M) == {p[1] : p \in M}
Findable(M, R) == \A p \in M : \E r \in R : r.id = p[2] /\ r.name = p[1]

TypesMade(rs, n, M, R) ==
    /\ n <= Len(At(rs, Kinds(rs, "type"))) /\ Findable(M, R)
    /\ NamesOf(M) = {rs[i].name : i \in UpTo(rs, "type", n)}
    /\ Made(R, rs, Listed(UpTo(rs, "type", n)))

InstancesMade(rs, n, M, R) ==
    /\ n <= Len(At(rs, Kinds(rs, "instance"))) /\ Findable(M, R)
    /\ TypeNames(rs) \subseteq NamesOf(M) /\ NamesOf(M) \subseteq TypeNames(rs) \cup Missing(rs)
    /\ \A i \in UpTo(rs, "instance", n) : rs[i].parent_name \in NamesOf(M) \cup {NoTd}
    /\ Made(R, rs, Listed(Kinds(rs, "type") \cup UpTo(rs, "instance", n))
                   \cup Extra(NamesOf(M) \ TypeNames(rs)))

AllMade(rs, R) == Made(R, rs, Listed(DOMAIN rs) \cup Extra(Missing(rs)))

LEMMA Places ==
    ASSUME NEW rs \in Seq(ProfileEntries), NEW kind
    PROVE  LET w == At(rs, Kinds(rs, kind))
           IN /\ w \in Seq(ProfileEntries) /\ Len(w) \in Nat
              /\ UpTo(rs, kind, 0) = {} /\ UpTo(rs, kind, Len(w)) = Kinds(rs, kind)
              /\ \A n \in 1 .. Len(w) :
                    /\ Place(rs, kind)[n] \in Kinds(rs, kind)
                    /\ w[n] \in ProfileEntries /\ w[n] = rs[Place(rs, kind)[n]]
                    /\ UpTo(rs, kind, n) = UpTo(rs, kind, n - 1) \cup {Place(rs, kind)[n]}
                    /\ Place(rs, kind)[n] \notin UpTo(rs, kind, n - 1)
                    /\ UpTo(rs, kind, n - 1) \subseteq Kinds(rs, kind)
  <1> DEFINE I == Kinds(rs, kind)
             w == At(rs, I)
             g == Place(rs, kind)
  <1>1. I \in SUBSET DOMAIN rs
    BY DEF Kinds
  <1>2. w \in Seq(ProfileEntries) /\ \E f : Picks(w, rs, I, f)
    <2> HIDE DEF I
    <2> QED BY <1>1, AtPositions
  <1>3. Picks(w, rs, I, g)
    BY <1>2 DEF Place
  <1>4. Len(w) \in Nat /\ \A n \in 1 .. Len(w) : w[n] \in ProfileEntries
    <2> HIDE DEF w
    <2> QED BY <1>2
  <1> DEFINE U(n) == UpTo(rs, kind, n)
  <1>5. \A n : U(n) = {g[i] : i \in 1 .. n}
    BY DEF UpTo
  <1>6. \A k \in 1 .. Len(w) : g[k] \in Nat
    BY <1>1, <1>3 DEF Picks
  <1> SUFFICES /\ w \in Seq(ProfileEntries) /\ Len(w) \in Nat /\ U(0) = {} /\ U(Len(w)) = I
               /\ \A n \in 1 .. Len(w) :
                     /\ g[n] \in I /\ w[n] \in ProfileEntries /\ w[n] = rs[g[n]]
                     /\ U(n) = U(n - 1) \cup {g[n]} /\ g[n] \notin U(n - 1) /\ U(n - 1) \subseteq I
    OBVIOUS
  <1> HIDE DEF I, w, g, U
  <1>7. U(0) = {}
    BY <1>5
  <1>8. U(Len(w)) = I
    BY <1>3, <1>5 DEF Picks
  <1>9. ASSUME NEW n \in 1 .. Len(w)
        PROVE  /\ g[n] \in I /\ w[n] = rs[g[n]]
               /\ U(n) = U(n - 1) \cup {g[n]} /\ g[n] \notin U(n - 1) /\ U(n - 1) \subseteq I
    <2>1. n \in Nat /\ 1 .. n = (1 .. n - 1) \cup {n} /\ n \notin 1 .. n - 1
          /\ 1 .. n - 1 \subseteq 1 .. Len(w)
      BY <1>4
    <2>2. \A i \in 1 .. n - 1 : g[i] < g[n] /\ g[i] \in I
      BY <1>3, <1>4, <2>1 DEF Picks
    <2>3. g[n] \in I /\ w[n] = rs[g[n]]
      BY <1>3 DEF Picks
    <2>4. U(n) = U(n - 1) \cup {g[n]} /\ U(n - 1) \subseteq I
      BY <1>5, <2>1, <2>2
    <2>5. g[n] \notin U(n - 1)
      BY <1>5, <1>6, <2>1, <2>2
    <2> QED BY <2>3, <2>4, <2>5
  <1> QED BY <1>2, <1>4, <1>7, <1>8, <1>9

\* A row more, for a place more.
LEMMA RowMade ==
    ASSUME NEW R, NEW rs, NEW P, Made(R, rs, P), NEW r, r \notin R, NEW y, y \notin P,
           MadeFrom(r, R \cup {r}, EntryAt(rs, y))
    PROVE  Made(R \cup {r}, rs, P \cup {y})
  <1>1. PICK g : OneToOne(g, R, P) /\ \A q \in R : MadeFrom(q, R, EntryAt(rs, g[q]))
    BY DEF Made
  <1> DEFINE f == [x \in R \cup {r} |-> IF x = r THEN y ELSE g[x]]
  <1>2. OneToOne(f, R \cup {r}, P \cup {y})
    BY <1>1, OneToOneMore
  <1>3. ASSUME NEW q \in R \cup {r} PROVE MadeFrom(q, R \cup {r}, EntryAt(rs, f[q]))
    <2>1. CASE q = r
      BY <2>1
    <2>2. CASE q # r
      <3>1. MadeFrom(q, R, EntryAt(rs, g[q])) /\ f[q] = g[q] BY <1>1, <2>2
      <3> HIDE DEF f
      <3> QED BY <3>1 DEF MadeFrom
    <2> QED BY <2>1, <2>2
  <1> HIDE DEF f
  <1> QED BY <1>2, <1>3 DEF Made

LEMMA StateMade ==
    ASSUME NEW S, NEW names, NEW n \in Nat, StatesMade(S, names, n), NEW s, s \notin S,
           s.name = names[n + 1]
    PROVE  StatesMade(S \cup {s}, names, n + 1)
  <1>1. PICK g : OneToOne(g, S, 1 .. n) /\ \A q \in S : q.name = names[g[q]]
    BY DEF StatesMade
  <1> DEFINE m == n + 1
             N == 1 .. n
             f == [x \in S \cup {s} |-> IF x = s THEN m ELSE g[x]]
  <1>2. N \cup {m} = 1 .. n + 1
    OBVIOUS
  <1>5. m \notin N
    OBVIOUS
  <1>4. \A q \in S \cup {s} : q.name = names[f[q]]
    BY <1>1
  <1>o. OneToOne(g, S, N)
    BY <1>1
  <1> HIDE DEF m, N
  <1>3. OneToOne(f, S \cup {s}, N \cup {m})
    BY <1>o, <1>5, OneToOneMore
  <1> HIDE DEF f
  <1> QED BY <1>2, <1>3, <1>4 DEF StatesMade

LEMMA NothingMade ==
    /\ \A rs : Made({}, rs, {})
    /\ \A names : StatesMade({}, names, 0)
  <1> DEFINE f == [x \in {} |-> x]
  <1>1. OneToOne(f, {}, {}) BY DEF OneToOne
  <1>2. 1 .. 0 = {} OBVIOUS
  <1> HIDE DEF f
  <1> QED BY <1>1, <1>2 DEF Made, StatesMade

\* The names of the profile's entries, and its kinds.
LEMMA EntryFacts ==
    ASSUME NEW rs \in Seq(ProfileEntries)
    PROVE  /\ \A i \in DOMAIN rs : /\ rs[i] \in AnyEntries
                                   /\ rs[i].kind = "type" => rs[i].parent_name = NoTd
           /\ Kinds(rs, "type") \cup Kinds(rs, "instance") = DOMAIN rs
           /\ Kinds(rs, "type") \cap Kinds(rs, "instance") = {}
           /\ NoTd \notin TypeNames(rs) \cup Missing(rs)
           /\ NoTd \notin ResourceNames
  <1>1. \A i \in DOMAIN rs : /\ rs[i] \in AnyEntries
                             /\ rs[i].kind = "type" => rs[i].parent_name = NoTd
    <2>1. \A i \in DOMAIN rs : rs[i] \in ProfileEntries
      OBVIOUS
    <2> QED BY <2>1 DEF ProfileEntries
  <1>2. NoTd \notin ResourceNames
    BY ProfileAssumption DEF ResourceNames
  <1>3. \A i \in DOMAIN rs : rs[i].kind \in {"type", "instance"} /\ rs[i].name \in ResourceNames
    BY <1>1 DEF AnyEntries
  <1>4. NoTd \notin TypeNames(rs)
    BY <1>2, <1>3 DEF TypeNames, Kinds
  <1> QED BY <1>1, <1>2, <1>3, <1>4 DEF Kinds, Missing

LEMMA NamesMore ==
    ASSUME NEW M, NEW a, NEW b
    PROVE  /\ NamesOf(M \cup {<<a, b>>}) = NamesOf(M) \cup {a}
           /\ NamesOf({p \in M : p[1] # a} \cup {<<a, b>>}) = NamesOf(M) \cup {a}
  <1> DEFINE y == <<a, b>>
  <1>1. y[1] = a OBVIOUS
  <1> HIDE DEF y
  <1>2. NamesOf(M \cup {y}) = NamesOf(M) \cup {a}
    BY <1>1 DEF NamesOf
  <1>3. NamesOf({p \in M : p[1] # a} \cup {y}) = NamesOf(M) \cup {a}
    BY <1>1 DEF NamesOf
  <1> QED BY <1>2, <1>3 DEF y

\* An import begins with an empty distributor.
LEMMA TypesBegin ==
    ASSUME NEW rs \in Seq(ProfileEntries) PROVE TypesMade(rs, 0, {}, {})
  <1>1. UpTo(rs, "type", 0) = {} /\ 0 <= Len(At(rs, Kinds(rs, "type")))
    BY Places
  <1>2. Made({}, rs, {}) /\ Listed({}) = {}
    BY NothingMade DEF Listed
  <1> QED BY <1>1, <1>2 DEF TypesMade, Findable, NamesOf

\* The next type.
LEMMA TypeMade ==
    ASSUME NEW rs \in Seq(ProfileEntries), NEW n \in Nat, NEW M, NEW R, TypesMade(rs, n, M, R),
           n + 1 <= Len(At(rs, Kinds(rs, "type"))), NEW r, r \notin R,
           r.name = At(rs, Kinds(rs, "type"))[n + 1].name, r.kind = "type", r.parent = 0
    PROVE  TypesMade(rs, n + 1, {p \in M : p[1] # r.name} \cup {<<r.name, r.id>>}, R \cup {r})
  <1> DEFINE m == n + 1
             w == At(rs, Kinds(rs, "type"))
             i == Place(rs, "type")[m]
             U == UpTo(rs, "type", n)
             V == UpTo(rs, "type", m)
             N == {p \in M : p[1] # r.name} \cup {<<r.name, r.id>>}
  <1>1. m \in 1 .. Len(w) /\ n = m - 1
    BY Places
  <1>2. /\ i \in Kinds(rs, "type") /\ w[m] = rs[i] /\ V = U \cup {i} /\ i \notin U
    BY <1>1, Places
  <1>3. rs[i].kind = "type" /\ rs[i].parent_name = NoTd /\ rs[i].name = r.name
    BY <1>2, EntryFacts DEF Kinds
  <1>4. Findable(N, R \cup {r})
    BY DEF TypesMade, Findable
  <1>5. NamesOf(N) = {rs[k].name : k \in V}
    <2>1. NamesOf(M) = {rs[k].name : k \in U}
      BY DEF TypesMade
    <2>2. NamesOf(N) = NamesOf(M) \cup {r.name}
      BY NamesMore
    <2> HIDE DEF N, U, V, i
    <2> QED BY <1>2, <1>3, <2>1, <2>2
  <1>6. Made(R \cup {r}, rs, Listed(V))
    <2> DEFINE y == <<0, i>>
    <2>1. y \notin Listed(U) /\ Listed(V) = Listed(U) \cup {y}
      BY <1>2 DEF Listed
    <2>2. EntryAt(rs, y) = rs[i]
      BY DEF EntryAt
    <2>3. MadeFrom(r, R \cup {r}, EntryAt(rs, y))
      BY <1>3, <2>2 DEF MadeFrom
    <2>4. Made(R, rs, Listed(U))
      BY DEF TypesMade
    <2> HIDE DEF y, i, U, V
    <2>5. Made(R \cup {r}, rs, Listed(U) \cup {y})
      BY <2>1, <2>3, <2>4, RowMade
    <2> QED BY <2>1, <2>5
  <1>7. m <= Len(w)
    OBVIOUS
  <1> HIDE DEF N, V, w
  <1>8. TypesMade(rs, m, N, R \cup {r})
    BY <1>4, <1>5, <1>6, <1>7 DEF TypesMade, V, w
  <1> QED BY <1>8 DEF N

\* All types, and no instance yet.
LEMMA InstancesBegin ==
    ASSUME NEW rs \in Seq(ProfileEntries), NEW M, NEW R,
           TypesMade(rs, Len(At(rs, Kinds(rs, "type"))), M, R)
    PROVE  InstancesMade(rs, 0, M, R)
  <1>1. UpTo(rs, "type", Len(At(rs, Kinds(rs, "type")))) = Kinds(rs, "type")
    BY Places
  <1>2. UpTo(rs, "instance", 0) = {} /\ 0 <= Len(At(rs, Kinds(rs, "instance")))
    BY Places
  <1>3. NamesOf(M) = TypeNames(rs) /\ Findable(M, R) /\ Made(R, rs, Listed(Kinds(rs, "type")))
    BY <1>1 DEF TypesMade, TypeNames
  <1>4. Listed(Kinds(rs, "type") \cup {}) \cup Extra({}) = Listed(Kinds(rs, "type"))
    BY DEF Extra
  <1> QED BY <1>2, <1>3, <1>4 DEF InstancesMade

\* A parent that is no listed type.
LEMMA ParentMade ==
    ASSUME NEW rs \in Seq(ProfileEntries), NEW n \in Nat, NEW M, NEW R, InstancesMade(rs, n, M, R),
           n + 1 <= Len(At(rs, Kinds(rs, "instance"))), NEW r, r \notin R,
           r.name = At(rs, Kinds(rs, "instance"))[n + 1].parent_name,
           r.name # NoTd, r.name \notin NamesOf(M), r.kind = "type", r.parent = 0
    PROVE  InstancesMade(rs, n, M \cup {<<r.name, r.id>>}, R \cup {r})
  <1> DEFINE m == n + 1
             w == At(rs, Kinds(rs, "instance"))
             i == Place(rs, "instance")[m]
             N == M \cup {<<r.name, r.id>>}
             P == Listed(Kinds(rs, "type") \cup UpTo(rs, "instance", n))
  <1>1. m \in 1 .. Len(w)
    BY Places
  <1>2. i \in DOMAIN rs /\ w[m] = rs[i]
    BY <1>1, Places DEF Kinds
  <1>3. NamesOf(N) = NamesOf(M) \cup {r.name}
    BY NamesMore
  <1>4. r.name \in Missing(rs)
    BY <1>2 DEF InstancesMade, Missing
  <1>5. Findable(N, R \cup {r})
    BY DEF InstancesMade, Findable
  <1>6. Made(R \cup {r}, rs, P \cup Extra(NamesOf(N) \ TypeNames(rs)))
    <2> DEFINE y == <<1, r.name>>
               A == NamesOf(M) \ TypeNames(rs)
               B == NamesOf(N) \ TypeNames(rs)
    <2>1. B = A \cup {r.name} /\ r.name \notin A
      BY <1>3, <1>4 DEF Missing
    <2>2. Extra(B) = Extra(A) \cup {y} /\ y \notin Extra(A) /\ y \notin P
      <3>1. y \notin P
        BY DEF Listed
      <3> HIDE DEF A, B, P
      <3>2. Extra(B) = Extra(A) \cup {y}
        BY <2>1 DEF Extra
      <3>3. y \notin Extra(A)
        BY <2>1 DEF Extra
      <3> QED BY <3>1, <3>2, <3>3
    <2>3. EntryAt(rs, y) = [name |-> r.name, kind |-> "type", parent_name |-> NoTd]
      BY DEF EntryAt
    <2>4. MadeFrom(r, R \cup {r}, EntryAt(rs, y))
      BY <2>3 DEF MadeFrom
    <2>5. Made(R, rs, P \cup Extra(A))
      BY DEF InstancesMade
    <2> HIDE DEF y, A, B, P
    <2>6. Made(R \cup {r}, rs, (P \cup Extra(A)) \cup {y})
      BY <2>2, <2>4, <2>5, RowMade
    <2>7. (P \cup Extra(A)) \cup {y} = P \cup Extra(B)
      BY <2>2
    <2> QED BY <2>6, <2>7 DEF B
  <1> HIDE DEF N
  <1>7. InstancesMade(rs, n, N, R \cup {r})
    BY <1>3, <1>4, <1>5, <1>6 DEF InstancesMade
  <1> QED BY <1>7 DEF N

\* The next instance, under a type that is there.
LEMMA InstanceMade ==
    ASSUME NEW rs \in Seq(ProfileEntries), NEW n \in Nat, NEW M, NEW R, InstancesMade(rs, n, M, R),
           n + 1 <= Len(At(rs, Kinds(rs, "instance"))), NEW r, r \notin R,
           NEW e, e = At(rs, Kinds(rs, "instance"))[n + 1], r.name = e.name, r.kind = "instance",
           \/ e.parent_name = NoTd /\ r.parent = 0
           \/ e.parent_name # NoTd /\ <<e.parent_name, r.parent>> \in M
    PROVE  InstancesMade(rs, n + 1, M, R \cup {r})
  <1> DEFINE m == n + 1
             w == At(rs, Kinds(rs, "instance"))
             i == Place(rs, "instance")[m]
             U == UpTo(rs, "instance", n)
             V == UpTo(rs, "instance", m)
             X == Extra(NamesOf(M) \ TypeNames(rs))
             T == Kinds(rs, "type")
  <1>1. m \in 1 .. Len(w) /\ n = m - 1
    BY Places
  <1>2. i \in Kinds(rs, "instance") /\ w[m] = rs[i] /\ V = U \cup {i} /\ i \notin U
    BY <1>1, Places
  <1>3. rs[i] = e /\ e.kind = "instance" /\ i \notin T
    BY <1>2, EntryFacts DEF Kinds
  <1>4. Findable(M, R \cup {r})
    BY DEF InstancesMade, Findable
  <1>5. \A k \in V : rs[k].parent_name \in NamesOf(M) \cup {NoTd}
    <2>1. rs[i].parent_name \in NamesOf(M) \cup {NoTd}
      BY <1>3 DEF NamesOf
    <2>2. \A k \in U : rs[k].parent_name \in NamesOf(M) \cup {NoTd}
      BY DEF InstancesMade
    <2> HIDE DEF U, V, i
    <2> QED BY <1>2, <2>1, <2>2
  <1>6. Made(R \cup {r}, rs, Listed(T \cup V) \cup X)
    <2> DEFINE y == <<0, i>>
               P == Listed(T \cup U) \cup X
    <2>1. Listed(T \cup V) \cup X = P \cup {y}
      <3> HIDE DEF U, V, i, T, X
      <3> QED BY <1>2 DEF Listed
    <2>2. y \notin P
      <3> HIDE DEF U, i, T
      <3> QED BY <1>2, <1>3 DEF Listed, Extra
    <2>3. EntryAt(rs, y) = e
      BY <1>3 DEF EntryAt
    <2>4. MadeFrom(r, R \cup {r}, e)
      <3>1. e.parent_name # NoTd => \E p \in R : p.id = r.parent /\ p.name = e.parent_name
        BY DEF InstancesMade, Findable
      <3> QED BY <1>3, <3>1 DEF MadeFrom
    <2>5. Made(R, rs, P)
      BY DEF InstancesMade
    <2> HIDE DEF y, P, U, V, i, T, X
    <2>6. Made(R \cup {r}, rs, P \cup {y})
      BY <2>2, <2>3, <2>4, <2>5, RowMade
    <2> QED BY <2>1, <2>6
  <1>7. m <= Len(w) /\ TypeNames(rs) \subseteq NamesOf(M) /\ NamesOf(M) \subseteq TypeNames(rs) \cup Missing(rs)
    BY DEF InstancesMade
  <1> HIDE DEF m
  <1>8. InstancesMade(rs, m, M, R \cup {r})
    BY <1>4, <1>5, <1>6, <1>7 DEF InstancesMade
  <1> QED BY <1>8 DEF m

\* All instances.
LEMMA AllMadeThen ==
    ASSUME NEW rs \in Seq(ProfileEntries), NEW M, NEW R,
           InstancesMade(rs, Len(At(rs, Kinds(rs, "instance"))), M, R)
    PROVE  AllMade(rs, R)
  <1> DEFINE I == Kinds(rs, "instance")
             T == Kinds(rs, "type")
  <1>1. UpTo(rs, "instance", Len(At(rs, I))) = I
    BY Places
  <1>2. T \cup I = DOMAIN rs /\ \A i \in T : rs[i].parent_name = NoTd
    BY EntryFacts DEF Kinds
  <1>3. \A i \in I : rs[i].parent_name \in NamesOf(M) \cup {NoTd}
    BY <1>1 DEF InstancesMade
  <1>4. NamesOf(M) \ TypeNames(rs) = Missing(rs)
    <2>1. NamesOf(M) \ TypeNames(rs) \subseteq Missing(rs)
      BY DEF InstancesMade
    <2>2. Missing(rs) \cap TypeNames(rs) = {}
      BY DEF Missing
    <2>3. Missing(rs) \subseteq NamesOf(M)
      <3> HIDE DEF I, T
      <3> QED BY <1>2, <1>3 DEF Missing
    <2> QED BY <2>1, <2>2, <2>3
  <1>5. Made(R, rs, Listed(T \cup I) \cup Extra(NamesOf(M) \ TypeNames(rs)))
    BY <1>1 DEF InstancesMade
  <1> QED BY <1>2, <1>4, <1>5 DEF AllMade

LEMMA MissingFinite == ASSUME NEW rs \in Seq(ProfileEntries) PROVE IsFiniteSet(Missing(rs))
  <1> DEFINE D == DOMAIN rs
             N == {rs[i].parent_name : i \in D}
             f == [i \in D |-> rs[i].parent_name]
  <1>1. IsFiniteSet(D)
    <2>1. ASSUME NEW n \in Nat PROVE IsFiniteSet(1 .. n)
      BY FS_Interval
    <2>2. Len(rs) \in Nat /\ D = 1 .. Len(rs)
      OBVIOUS
    <2> QED BY <2>1, <2>2
  <1>2. f \in Surjection(D, N)
    BY DEF Surjection
  <1>3. IsFiniteSet(N)
    <2> HIDE DEF D, N, f
    <2> QED BY <1>1, <1>2, FS_Surjection
  <1>4. Missing(rs) \subseteq N
    BY DEF Missing
  <1> HIDE DEF N
  <1> QED BY <1>3, <1>4, FS_Subset

\* What is exported of a row that was made from e is e.
LEMMA ExportedIs ==
    ASSUME NEW l, Library(l), NEW td, NEW r \in resourcesOf(l, td), NEW e \in AnyEntries,
           MadeFrom(r, resourcesOf(l, td), e)
    PROVE  Exported(l, td, r) = e
  <1> DEFINE R == resourcesOf(l, td)
             parents == {p \in R : p.id = r.parent}
             up == IF parents = {} THEN NoTd ELSE (CHOOSE p \in parents : TRUE).name
  <1>1. R \subseteq l.res
    BY DEF resourcesOf
  <1>2. \A p, q \in R : p.id = q.id => p = q
    BY <1>1, RowNumbers DEF Numbered
  <1>3. \A p \in R : p.id # 0
    BY <1>1, ProfileAssumption DEF Library, Libraries, ResourceRows, AnyRows, RowIds
  <1>4. up = e.parent_name
    <2>1. CASE e.parent_name = NoTd
      BY <1>3, <2>1 DEF MadeFrom
    <2>2. CASE e.parent_name # NoTd
      <3>1. PICK p \in R : p.id = r.parent /\ p.name = e.parent_name
        BY <2>2 DEF MadeFrom
      <3>2. parents = {p}
        BY <1>2, <3>1
      <3>3. (CHOOSE q \in parents : TRUE) = p
        BY <3>2
      <3> QED BY <3>1, <3>2, <3>3
    <2> QED BY <2>1, <2>2
  <1>5. Exported(l, td, r) = [name |-> r.name, kind |-> r.kind, parent_name |-> up]
    BY DEF Exported
  <1>6. r.name = e.name /\ r.kind = e.kind
    BY DEF MadeFrom
  <1> HIDE DEF up
  <1> QED BY <1>4, <1>5, <1>6 DEF AnyEntries

\* Where a row's entry stands among the completed ones.
Stand(rs, back) ==
    [p \in Listed(DOMAIN rs) \cup Extra(Missing(rs)) |->
        IF p[1] = 0 THEN p[2] ELSE Len(rs) + back[p[2]]]

LEMMA Stands ==
    ASSUME NEW rs \in Seq(ProfileEntries)
    PROVE  /\ Completed(rs) \in Seq(AnyEntries)
           /\ \E h : /\ OneToOne(h, Listed(DOMAIN rs) \cup Extra(Missing(rs)), DOMAIN Completed(rs))
                     /\ \A p \in Listed(DOMAIN rs) \cup Extra(Missing(rs)) :
                          /\ Completed(rs)[h[p]] = EntryAt(rs, p)
                          /\ EntryAt(rs, p) \in AnyEntries
  <1> DEFINE N == Missing(rs)
             ms == SetToSeq(N)
             c == Cardinality(N)
             n == Len(rs)
             es == [i \in DOMAIN ms |-> [name |-> ms[i], kind |-> "type", parent_name |-> NoTd]]
             back == Back(ms, 1 .. c, N)
             L == Listed(DOMAIN rs)
             X == Extra(N)
             h == Stand(rs, back)
  <1>1. /\ OneToOne(ms, 1 .. c, N) /\ ms \in Seq(N) /\ DOMAIN ms = 1 .. c /\ c \in Nat /\ Len(ms) = c
    BY MissingFinite, ListOneToOne
  <1>2. Completed(rs) = rs \o es
    BY DEF Completed, Missing, TypeNames, Kinds
  <1>3. rs \in Seq(AnyEntries) /\ n \in Nat /\ DOMAIN rs = 1 .. n
    BY DEF ProfileEntries
  <1>4. N \subseteq ResourceNames
    <2>1. \A i \in DOMAIN rs : rs[i].parent_name \in ResourceNames \cup {NoTd}
      BY EntryFacts DEF AnyEntries
    <2> QED BY <2>1 DEF Missing
  <1>5. \A y \in N : [name |-> y, kind |-> "type", parent_name |-> NoTd] \in AnyEntries
    BY <1>4 DEF AnyEntries
  <1>6. \A a \in 1 .. c : ms[a] \in N
    BY <1>1 DEF OneToOne
  <1> HIDE DEF ms, c, N, n
  <1>7. es \in Seq(AnyEntries) /\ Len(es) = c
    BY <1>1, <1>5, <1>6
  <1>8. /\ rs \o es \in Seq(AnyEntries) /\ DOMAIN (rs \o es) = 1 .. n + c
        /\ \A i \in 1 .. n : (rs \o es)[i] = rs[i]
        /\ \A i \in 1 .. c : (rs \o es)[n + i] = es[i]
    <2> HIDE DEF es
    <2> QED BY <1>1, <1>3, <1>7 DEF n
  <1>9. OneToOne(back, N, 1 .. c) /\ \A y \in N : ms[back[y]] = y
    BY <1>1, OneToOneBack
  <1> HIDE DEF back
  <1>10. back \in [N -> 1 .. c]
    BY <1>9 DEF OneToOne
  <1>11. ASSUME NEW i \in 1 .. n
         PROVE  <<0, i>> \in L \cup X /\ h[<<0, i>>] = i /\ EntryAt(rs, <<0, i>>) = rs[i]
    <2>1. <<0, i>> \in L BY <1>3 DEF Listed
    <2> QED BY <2>1 DEF Stand, EntryAt, N
  <1>12. ASSUME NEW y \in N
         PROVE  /\ <<1, y>> \in L \cup X /\ h[<<1, y>>] = n + back[y]
                /\ EntryAt(rs, <<1, y>>) = [name |-> y, kind |-> "type", parent_name |-> NoTd]
    <2>1. <<1, y>> \in X BY DEF Extra
    <2> QED BY <2>1 DEF Stand, EntryAt, N, n
  <1>13. \A p \in L \cup X : (\E i \in 1 .. n : p = <<0, i>>) \/ (\E y \in N : p = <<1, y>>)
    BY <1>3 DEF Listed, Extra
  <1>14. \A p \in L \cup X : /\ h[p] \in 1 .. n + c /\ (rs \o es)[h[p]] = EntryAt(rs, p)
                             /\ EntryAt(rs, p) \in AnyEntries
    <2> SUFFICES ASSUME NEW p \in L \cup X
                 PROVE  /\ h[p] \in 1 .. n + c /\ (rs \o es)[h[p]] = EntryAt(rs, p)
                        /\ EntryAt(rs, p) \in AnyEntries
      OBVIOUS
    <2>1. ASSUME NEW i \in 1 .. n, p = <<0, i>>
          PROVE  /\ h[p] \in 1 .. n + c /\ (rs \o es)[h[p]] = EntryAt(rs, p)
                 /\ EntryAt(rs, p) \in AnyEntries
      <3>1. h[p] = i /\ EntryAt(rs, p) = rs[i] BY <1>11, <2>1
      <3>2. rs[i] \in AnyEntries BY <1>3
      <3>3. i \in 1 .. n + c BY <1>1, <1>3
      <3> QED BY <1>8, <3>1, <3>2, <3>3
    <2>2. ASSUME NEW y \in N, p = <<1, y>>
          PROVE  /\ h[p] \in 1 .. n + c /\ (rs \o es)[h[p]] = EntryAt(rs, p)
                 /\ EntryAt(rs, p) \in AnyEntries
      <3> DEFINE b == back[y]
                 e == [name |-> y, kind |-> "type", parent_name |-> NoTd]
      <3>1. h[p] = n + b /\ EntryAt(rs, p) = e BY <1>12, <2>2
      <3>2. b \in 1 .. c /\ ms[b] = y BY <1>9, <1>10
      <3>3. es[b] = e BY <1>1, <3>2
      <3>4. e \in AnyEntries BY <1>5
      <3> HIDE DEF b, e
      <3>5. n + b \in 1 .. n + c BY <1>1, <1>3, <3>2
      <3>6. (rs \o es)[n + b] = e BY <1>8, <3>2, <3>3
      <3> QED BY <3>1, <3>4, <3>5, <3>6
    <2> QED BY <1>13, <2>1, <2>2
  <1>15. h \in [L \cup X -> 1 .. n + c]
    <2>1. DOMAIN h = L \cup X /\ h = [p \in L \cup X |-> h[p]] BY DEF Stand, N
    <2> HIDE DEF h, L, X
    <2> QED BY <1>14, <2>1
  <1>16. \A p, q \in L \cup X : h[p] = h[q] => p = q
    <2> SUFFICES ASSUME NEW p \in L \cup X, NEW q \in L \cup X, h[p] = h[q] PROVE p = q
      OBVIOUS
    <2> DEFINE K(y) == n + back[y]
    <2>1. \A y \in N : K(y) \notin 1 .. n
      BY <1>1, <1>3, <1>10
    <2>2. \A y, z \in N : K(y) = K(z) => y = z
      <3>1. \A y, z \in N : n + back[y] = n + back[z] => back[y] = back[z]
        BY <1>1, <1>3, <1>10
      <3> QED BY <3>1, <1>9 DEF OneToOne
    <2>7. \A y \in N : h[<<1, y>>] = K(y)
      BY <1>12
    <2>8. \A i \in 1 .. n : h[<<0, i>>] = i
      BY <1>11
    <2> HIDE DEF h, L, X, K
    <2>3. ASSUME NEW i \in 1 .. n, p = <<0, i>>, NEW y \in N, q = <<1, y>> PROVE FALSE
      BY <2>1, <2>3, <2>7, <2>8
    <2>4. ASSUME NEW i \in 1 .. n, q = <<0, i>>, NEW y \in N, p = <<1, y>> PROVE FALSE
      BY <2>1, <2>4, <2>7, <2>8
    <2>5. ASSUME NEW i \in 1 .. n, p = <<0, i>>, NEW k \in 1 .. n, q = <<0, k>> PROVE p = q
      BY <2>5, <2>8
    <2>6. ASSUME NEW y \in N, p = <<1, y>>, NEW z \in N, q = <<1, z>> PROVE p = q
      BY <2>2, <2>6, <2>7
    <2> QED BY <1>13, <2>3, <2>4, <2>5, <2>6
  <1>17. \A k \in 1 .. n + c : \E p \in L \cup X : h[p] = k
    <2> SUFFICES ASSUME NEW k \in 1 .. n + c PROVE \E p \in L \cup X : h[p] = k
      OBVIOUS
    <2> HIDE DEF h, L, X
    <2>1. CASE k \in 1 .. n
      BY <1>11, <2>1
    <2>2. CASE k \notin 1 .. n
      <3>1. k - n \in 1 .. c /\ n + (k - n) = k BY <1>1, <1>3, <2>2
      <3>2. PICK y \in N : back[y] = k - n BY <1>9, <3>1 DEF OneToOne
      <3> QED BY <1>12, <3>1, <3>2
    <2> QED BY <2>1, <2>2
  <1>18. OneToOne(h, L \cup X, 1 .. n + c)
    <2> HIDE DEF h, L, X
    <2> QED BY <1>15, <1>16, <1>17 DEF OneToOne
  <1> HIDE DEF h, es
  <1> QED BY <1>2, <1>8, <1>14, <1>18 DEF N

\* Every resource of the profile, and no other.
LEMMA SameResources ==
    ASSUME NEW l, Library(l), NEW td \in TdIds, NEW rs \in Seq(ProfileEntries),
           AllMade(rs, resourcesOf(l, td))
    PROVE  SameBag(ProfileOf(l, td).resources, Completed(rs))
  <1> DEFINE R == resourcesOf(l, td)
             P == Listed(DOMAIN rs) \cup Extra(Missing(rs))
             c == Cardinality(R)
             list == SetToSeq(R)
             es == [i \in DOMAIN list |-> Exported(l, td, list[i])]
             w == Completed(rs)
  <1>1. IsFiniteSet(R)
    BY FS_Subset DEF Library, resourcesOf
  <1>2. OneToOne(list, 1 .. c, R) /\ list \in Seq(R) /\ DOMAIN list = 1 .. c /\ c \in Nat
    BY <1>1, ListOneToOne
  <1>3. PICK g : OneToOne(g, R, P) /\ \A r \in R : MadeFrom(r, R, EntryAt(rs, g[r]))
    BY DEF AllMade, Made
  <1>4. /\ w \in Seq(AnyEntries)
        /\ \E h : /\ OneToOne(h, P, DOMAIN w)
                  /\ \A p \in P : w[h[p]] = EntryAt(rs, p) /\ EntryAt(rs, p) \in AnyEntries
    BY Stands
  <1>5. PICK h : /\ OneToOne(h, P, DOMAIN w)
                 /\ \A p \in P : w[h[p]] = EntryAt(rs, p) /\ EntryAt(rs, p) \in AnyEntries
    BY <1>4
  <1>6. \A r \in R : g[r] \in P
    BY <1>3 DEF OneToOne
  <1>7. \A r \in R : Exported(l, td, r) = EntryAt(rs, g[r])
    BY <1>3, <1>5, <1>6, ExportedIs
  <1>8. \A i \in 1 .. c : list[i] \in R
    BY <1>2 DEF OneToOne
  <1>p. ProfileOf(l, td).resources = es
    BY DEF ProfileOf
  <1> HIDE DEF R, P, list, c, w
  <1> DEFINE a == [i \in 1 .. c |-> g[list[i]]]
             b == [i \in 1 .. c |-> h[a[i]]]
  <1>9. OneToOne(a, 1 .. c, P)
    BY <1>2, <1>3, OneToOneChain
  <1>10. OneToOne(b, 1 .. c, DOMAIN w)
    <2> HIDE DEF a
    <2> QED BY <1>5, <1>9, OneToOneChain
  <1>11. \A i \in 1 .. c : es[i] = w[b[i]] /\ es[i] \in AnyEntries
    BY <1>2, <1>5, <1>6, <1>7, <1>8
  <1>12. DOMAIN es = 1 .. c
    BY <1>2
  <1>13. es \in Seq(AnyEntries)
    BY <1>2, <1>11, <1>12
  <1> HIDE DEF es, b
  <1>14. SameBag(es, w)
    BY <1>4, <1>10, <1>11, <1>12, <1>13, BagOfPairs
  <1> QED BY <1>14, <1>p DEF w

LEMMA SameStates ==
    ASSUME NEW l, Library(l), NEW td \in TdIds, NEW names \in Seq(StateNames),
           StatesMade(statesOf(l, td), names, Len(names))
    PROVE  SameBag(ProfileOf(l, td).states, names)
  <1> DEFINE S == statesOf(l, td)
             c == Cardinality(S)
             list == SetToSeq(S)
             ns == [i \in DOMAIN list |-> list[i].name]
  <1>1. IsFiniteSet(S)
    BY FS_Subset DEF Library, statesOf
  <1>2. OneToOne(list, 1 .. c, S) /\ list \in Seq(S) /\ DOMAIN list = 1 .. c /\ c \in Nat
    BY <1>1, ListOneToOne
  <1>3. DOMAIN names = 1 .. Len(names)
    OBVIOUS
  <1>4. PICK g : OneToOne(g, S, 1 .. Len(names)) /\ \A s \in S : s.name = names[g[s]]
    BY DEF StatesMade
  <1>5. \A i \in 1 .. c : list[i] \in S /\ g[list[i]] \in 1 .. Len(names)
    BY <1>2, <1>4 DEF OneToOne
  <1>p. ProfileOf(l, td).states = ns
    BY DEF ProfileOf
  <1>6. \A i \in DOMAIN names : names[i] \in StateNames
    OBVIOUS
  <1> HIDE DEF S, c, list
  <1> DEFINE a == [i \in 1 .. c |-> g[list[i]]]
  <1>7. OneToOne(a, 1 .. c, DOMAIN names)
    BY <1>2, <1>3, <1>4, OneToOneChain
  <1>8. \A i \in 1 .. c : ns[i] = names[a[i]] /\ ns[i] \in StateNames
    BY <1>2, <1>3, <1>4, <1>5, <1>6
  <1>9. DOMAIN ns = 1 .. c
    BY <1>2
  <1>10. ns \in Seq(StateNames)
    BY <1>2, <1>8, <1>9
  <1> HIDE DEF ns, a
  <1> QED BY <1>7, <1>8, <1>9, <1>10, <1>p, BagOfPairs

(***************************************************************************)
(* An import that nobody disturbs                                          *)
(***************************************************************************)
\* How far an import came in the distributor of library l, its stage says.
AsFar(j, l) ==
    LET R == resourcesOf(l, j.td)
        S == statesOf(l, j.td)
        M == j.typeResourceByName
        p == j.profile
    IN /\ j.stage # "find" => l.tdName[j.td] = p.name
       /\ j.stage \in {"find", "clear"} => j.at = 1 /\ M = {}
       /\ j.stage = "clear" => j.states = {s.id : s \in S} /\ j.resources = {r.id : r \in R}
       /\ j.stage = "states" =>
            M = {} /\ R = {} /\ j.at <= Len(p.states) + 1 /\ StatesMade(S, p.states, j.at - 1)
       /\ j.stage \in {"types", "instances", "policies", "bind"} =>
            StatesMade(S, p.states, Len(p.states))
       /\ j.stage = "types" => TypesMade(p.resources, j.at - 1, M, R)
       /\ j.stage = "instances" => InstancesMade(p.resources, j.at - 1, M, R)
       /\ j.stage \in {"policies", "bind"} => AllMade(p.resources, R)
       /\ j.stage = "bind" => j.resources = R /\ l.policy[j.td] = p.policy

\* What an import remembers of the task is what the task requires still, unless it goes
\* into the task's own distributor; and no row that it made is required.
Remembered(j, l) == j.stage # "find" =>
    /\ j.before.owner = l.task.owner
    /\ j.before.owner # j.td => j.before.pairs = KindsNamed(RequiredRows(l, j.before.owner))
    /\ j.stage # "clear" => \A r \in resourcesOf(l, j.td) : r.id \notin l.task.tokens

HistoryInv == \A j \in Importing : j.touched \/ Remembered(j, lib)

ImportsInv ==
    /\ \A i, j \in Importing : i = j
    /\ \A j \in Importing : j.touched \/ AsFar(j, lib)
    /\ ImportFaithful

LEMMA NothingImported == lastImport = NoTd => ImportFaithful
  BY DEF ImportFaithful

LEMMA TouchedImports ==
    ASSUME LibInv, \A k \in jobs' : k.kind = "import" => k \in Touched
    PROVE  \A k \in Importing' : k.touched /\ \E j \in Importing : k = [j EXCEPT !.touched = TRUE]
  <1>1. ASSUME NEW j \in jobs
        PROVE  [j EXCEPT !.touched = TRUE].kind = j.kind /\ [j EXCEPT !.touched = TRUE].touched
    <2>1. LibJob(j) BY DEF LibInv
    <2>2. CASE j \in BuildJobs BY <2>2 DEF BuildJobs
    <2>3. CASE j \in ImportJobs BY <2>3 DEF ImportJobs
    <2> QED BY <2>1, <2>2, <2>3 DEF LibJob
  <1>2. ASSUME NEW k \in Importing'
        PROVE  k.touched /\ \E j \in Importing : k = [j EXCEPT !.touched = TRUE]
    <2>1. k \in jobs' /\ k.kind = "import" BY DEF Importing
    <2>2. PICK j \in jobs : k = [j EXCEPT !.touched = TRUE] BY <2>1 DEF Touched
    <2>3. j.kind = "import" /\ k.touched BY <1>1, <2>1, <2>2
    <2> QED BY <2>2, <2>3 DEF Importing
  <1> QED BY <1>2

\* A write of somebody else, or of the builders.
LEMMA OthersWrite ==
    ASSUME LibInv, ImportsInv, NEW l, NEW js, Write(l, js),
           \A k \in js : k.kind = "import" => k \in Touched
    PROVE  ImportsInv'
  <1>1. \A k \in Importing' : k.touched /\ \E j \in Importing : k = [j EXCEPT !.touched = TRUE]
    BY TouchedImports DEF Write
  <1>2. \A i, j \in Importing' : i = j
    BY <1>1 DEF ImportsInv
  <1>3. ImportFaithful'
    BY DEF Write, ImportFaithful
  <1> QED BY <1>1, <1>2, <1>3 DEF ImportsInv

\* A step of the page, or the end of a handler.
LEMMA NoWrite ==
    ASSUME ImportsInv, UNCHANGED <<lib, lastImport>>, Importing' \subseteq Importing
    PROVE  ImportsInv'
  <1>1. ImportFaithful'
    BY DEF ImportsInv, ImportFaithful, TasksRebound
  <1> QED BY <1>1 DEF ImportsInv

LEMMA OnlyImport ==
    ASSUME ImportsInv, NEW j \in jobs, j.kind = "import", NEW k, k.kind = "import", NEW l,
           Proceed(j, k, l)
    PROVE  Importing' = {k}
  <1>1. j \in Importing BY DEF Importing
  <1>2. \A i \in jobs \ {j} : i.kind # "import" BY <1>1 DEF ImportsInv, Importing
  <1>3. jobs' = (jobs \ {j}) \cup {k} BY DEF Proceed, Write
  <1> QED BY <1>2, <1>3 DEF Importing

\* A request of the import itself.
LEMMA ProceedsWell ==
    ASSUME ImportsInv, NEW j \in jobs, j.kind = "import", NEW k, k.kind = "import", NEW l,
           Proceed(j, k, l), k.touched \/ AsFar(k, l)
    PROVE  ImportsInv'
  <1>1. Importing' = {k} BY OnlyImport
  <1>2. lib' = l /\ ImportFaithful'
    BY DEF Proceed, Write, ImportFaithful
  <1> QED BY <1>1, <1>2 DEF ImportsInv

LEMMA ImportKnown ==
    ASSUME LibInv, ImportsInv, NEW j \in jobs, j.kind = "import"
    PROVE  /\ j \in ImportJobs /\ Library(lib) /\ (j.touched \/ AsFar(j, lib))
           /\ j.stage # "find" => j.td \in TdIds
           /\ j.at \in Nat \ {0} /\ j.profile \in ProfileFiles
           /\ j.profile.resources \in Seq(ProfileEntries) /\ j.profile.states \in Seq(StateNames)
           /\ j.profile.policy \in Priorities /\ j.profile.name \in TdIds
  <1>1. j \in ImportJobs /\ (j.stage # "find" => j.td \in TdIds)
    BY ImportJob
  <1>2. j.at \in Nat \ {0} /\ j.profile \in ProfileFiles
    BY <1>1 DEF ImportJobs
  <1>3. /\ j.profile.resources \in Seq(ProfileEntries) /\ j.profile.states \in Seq(StateNames)
        /\ j.profile.policy \in Priorities /\ j.profile.name \in TdIds
    BY <1>2 DEF ProfileFiles
  <1>4. Library(lib) /\ (j.touched \/ AsFar(j, lib))
    BY DEF LibInv, ImportsInv, Importing
  <1> QED BY <1>1, <1>2, <1>3, <1>4

\* What the requests of an import do to the rows of its distributor.
LEMMA ResourceRowAdded ==
    ASSUME NEW l, Library(l), NEW td, NEW name, NEW kind, NEW parent
    PROVE  LET r == [id |-> l.nextId, td |-> td, name |-> name, kind |-> kind, parent |-> parent]
               m == createResource(l, td, name, kind, parent)
           IN /\ resourcesOf(m, td) = resourcesOf(l, td) \cup {r} /\ r \notin resourcesOf(l, td)
              /\ statesOf(m, td) = statesOf(l, td) /\ m.tdName = l.tdName /\ m.policy = l.policy
  <1> DEFINE r == [id |-> l.nextId, td |-> td, name |-> name, kind |-> kind, parent |-> parent]
             m == createResource(l, td, name, kind, parent)
  <1>1. r.td = td /\ r.id = l.nextId OBVIOUS
  <1>2. r \notin l.res
    <2>1. \A q \in l.res : q.id < l.nextId BY RowNumbers DEF Numbered
    <2>2. l.nextId \in Nat BY RowNumbers
    <2> HIDE DEF r
    <2> QED BY <1>1, <2>1, <2>2
  <1>3. /\ m.res = l.res \cup {r} /\ m.states = l.states /\ m.tdName = l.tdName /\ m.policy = l.policy
    BY DEF createResource, Library, Libraries
  <1> HIDE DEF r, m
  <1>4. resourcesOf(m, td) = resourcesOf(l, td) \cup {r} /\ r \notin resourcesOf(l, td)
        /\ statesOf(m, td) = statesOf(l, td)
    BY <1>1, <1>2, <1>3 DEF resourcesOf, statesOf
  <1> QED BY <1>3, <1>4 DEF r, m

LEMMA StateRowAdded ==
    ASSUME NEW l, Library(l), NEW td, NEW name
    PROVE  LET s == [id |-> l.nextId, td |-> td, name |-> name]
               m == createState(l, td, name)
           IN /\ statesOf(m, td) = statesOf(l, td) \cup {s} /\ s \notin statesOf(l, td)
              /\ resourcesOf(m, td) = resourcesOf(l, td) /\ m.tdName = l.tdName /\ m.policy = l.policy
  <1> DEFINE s == [id |-> l.nextId, td |-> td, name |-> name]
             m == createState(l, td, name)
  <1>1. s.td = td /\ s.id = l.nextId OBVIOUS
  <1>2. s \notin l.states
    <2>1. \A q \in l.states : q.id < l.nextId BY RowNumbers DEF Numbered
    <2>2. l.nextId \in Nat BY RowNumbers
    <2> HIDE DEF s
    <2> QED BY <1>1, <2>1, <2>2
  <1>3. /\ m.states = l.states \cup {s} /\ m.res = l.res /\ m.tdName = l.tdName /\ m.policy = l.policy
    BY DEF createState, Library, Libraries
  <1> HIDE DEF s, m
  <1>4. statesOf(m, td) = statesOf(l, td) \cup {s} /\ s \notin statesOf(l, td)
        /\ resourcesOf(m, td) = resourcesOf(l, td)
    BY <1>1, <1>2, <1>3 DEF resourcesOf, statesOf
  <1> QED BY <1>3, <1>4 DEF s, m

LEMMA ImportFindKeeps ==
    ASSUME LibInv, ImportsInv, NEW j \in jobs, ImportFind(j) PROVE ImportsInv'
  <1>1. PICK td \in IF FoundTd(j) # {} THEN FoundTd(j) \cap lib.tds ELSE TdIds \ (lib.tds \cup lib.gone) :
        LET l == [lib EXCEPT !.tds = @ \cup {td}, !.tdName[td] = j.profile.name]
        IN Proceed(j, [j EXCEPT !.td = td, !.stage = "clear", !.known = NoTd,
                                !.before = Requirement(lib),
                                !.states = {s.id : s \in statesOf(lib, td)},
                                !.resources = {r.id : r \in resourcesOf(lib, td)}], l)
    BY DEF ImportFind
  <1>2. Library(lib) /\ lib.tds \subseteq TdIds /\ td \in TdIds
    BY <1>1 DEF LibInv, Library, Libraries
  <1>3. j \in ImportJobs /\ j.kind = "import" /\ j.stage = "find" /\ (j.touched \/ AsFar(j, lib))
    BY ImportKnown DEF ImportFind, ImportStep
  <1> DEFINE T == lib.tds \cup {td}
             N == [lib.tdName EXCEPT ![td] = j.profile.name]
             l == [lib EXCEPT !.tds = T, !.tdName = N]
             S == {s.id : s \in statesOf(lib, td)}
             R == {r.id : r \in resourcesOf(lib, td)}
             B == Requirement(lib)
             k == [j EXCEPT !.td = td, !.stage = "clear", !.known = NoTd, !.before = B,
                            !.states = S, !.resources = R]
  <1>4. Proceed(j, k, l) BY <1>1
  <1>5. l.res = lib.res /\ l.states = lib.states /\ l.tdName = N
    BY <1>2 DEF Library, Libraries
  <1>6. N[td] = j.profile.name
    BY <1>2 DEF Library, Libraries
  <1>7. /\ k.kind = "import" /\ k.stage = "clear" /\ k.td = td /\ k.states = S /\ k.resources = R
        /\ k.profile = j.profile /\ k.at = j.at /\ k.typeResourceByName = j.typeResourceByName
        /\ k.touched = j.touched
    BY <1>3 DEF ImportJobs
  <1>8. resourcesOf(l, td) = resourcesOf(lib, td) /\ statesOf(l, td) = statesOf(lib, td)
    BY <1>5 DEF resourcesOf, statesOf
  <1> HIDE DEF k, l, N
  <1>9. k.touched \/ AsFar(k, l)
    <2>1. AsFar(j, lib) => j.at = 1 /\ j.typeResourceByName = {}
      BY <1>3 DEF AsFar
    <2> QED BY <1>3, <1>5, <1>6, <1>7, <1>8, <2>1 DEF AsFar
  <1> QED BY <1>3, <1>4, <1>7, <1>9, ProceedsWell

LEMMA ImportClearKeeps ==
    ASSUME LibInv, ImportsInv, NEW j \in jobs, ImportClear(j) PROVE ImportsInv'
  <1>1. j \in ImportJobs /\ j.kind = "import" /\ j.stage = "clear" /\ (j.touched \/ AsFar(j, lib))
        /\ Library(lib)
    BY ImportKnown DEF ImportClear, ImportStep
  <1>2. CASE Proceed(j, [j EXCEPT !.stage = "states", !.states = {}, !.resources = {}],
                     deleteResources(deleteStates(lib, j.states), j.resources))
    <2> DEFINE k == [j EXCEPT !.stage = "states", !.states = {}, !.resources = {}]
               l == deleteResources(deleteStates(lib, j.states), j.resources)
    <2>1. Proceed(j, k, l) BY <1>2
    <2>2. /\ k.kind = "import" /\ k.stage = "states" /\ k.td = j.td
          /\ k.profile = j.profile /\ k.at = j.at /\ k.typeResourceByName = j.typeResourceByName
          /\ k.touched = j.touched
      BY <1>1 DEF ImportJobs
    <2>3. /\ l.res = {r \in lib.res : r.id \notin j.resources /\ r.parent \notin j.resources}
          /\ l.states = {s \in lib.states : s.id \notin j.states} /\ l.tdName = lib.tdName
      BY <1>1 DEF Library, Libraries, deleteResources, deleteStates
    <2> HIDE DEF k, l
    <2>4. ASSUME AsFar(j, lib) PROVE AsFar(k, l)
      <3>1. /\ j.at = 1 /\ j.typeResourceByName = {} /\ lib.tdName[j.td] = j.profile.name
            /\ j.states = {s.id : s \in statesOf(lib, j.td)}
            /\ j.resources = {r.id : r \in resourcesOf(lib, j.td)}
        BY <1>1, <2>4 DEF AsFar
      <3>2. resourcesOf(l, j.td) = {} /\ statesOf(l, j.td) = {}
        BY <2>3, <3>1 DEF resourcesOf, statesOf
      <3>3. StatesMade({}, j.profile.states, 0) BY NothingMade
      <3>4. 1 <= Len(j.profile.states) + 1 /\ 1 - 1 = 0
        BY ImportKnown, <1>1
      <3> QED BY <2>2, <2>3, <3>1, <3>2, <3>3, <3>4 DEF AsFar
    <2> QED BY <1>1, <2>1, <2>2, <2>4, ProceedsWell
  <1>3. ASSUME NEW l, Write(l, jobs \ {j}) PROVE ImportsInv'
    <2>1. Importing' = {}
      BY <1>1, <1>3 DEF Write, Importing, ImportsInv
    <2>2. ImportFaithful'
      BY <1>3 DEF Write, ImportFaithful
    <2> QED BY <2>1, <2>2 DEF ImportsInv
  <1> QED BY <1>2, <1>3 DEF ImportClear

LEMMA ImportStateKeeps ==
    ASSUME LibInv, ImportsInv, NEW j \in jobs, ImportState(j) PROVE ImportsInv'
  <1>1. j.kind = "import" /\ j.stage = "states"
    BY DEF ImportState, ImportStep
  <1>2. /\ j \in ImportJobs /\ (j.touched \/ AsFar(j, lib)) /\ Library(lib)
        /\ j.at \in Nat \ {0} /\ j.profile.states \in Seq(StateNames)
        /\ j.profile.resources \in Seq(ProfileEntries)
    BY <1>1, ImportKnown
  <1> DEFINE names == j.profile.states
  <1>3. CASE j.at <= Len(names)
    <2> DEFINE k == [j EXCEPT !.at = j.at + 1]
               l == createState(lib, j.td, names[j.at])
               s == [id |-> lib.nextId, td |-> j.td, name |-> names[j.at]]
    <2>1. Proceed(j, k, l) BY <1>3 DEF ImportState
    <2>2. /\ k.kind = "import" /\ k.stage = "states" /\ k.td = j.td /\ k.at = j.at + 1
          /\ k.profile = j.profile /\ k.typeResourceByName = j.typeResourceByName
          /\ k.touched = j.touched
      BY <1>1, <1>2 DEF ImportJobs
    <2>3. /\ statesOf(l, j.td) = statesOf(lib, j.td) \cup {s} /\ s \notin statesOf(lib, j.td)
          /\ resourcesOf(l, j.td) = resourcesOf(lib, j.td) /\ l.tdName = lib.tdName
      BY <1>2, StateRowAdded
    <2>4. s.name = names[j.at] OBVIOUS
    <2> HIDE DEF k, l, s
    <2>5. ASSUME AsFar(j, lib) PROVE AsFar(k, l)
      <3> DEFINE n == j.at - 1
      <3>1. /\ StatesMade(statesOf(lib, j.td), names, n) /\ resourcesOf(lib, j.td) = {}
            /\ j.typeResourceByName = {} /\ lib.tdName[j.td] = j.profile.name
        BY <1>1, <2>5 DEF AsFar
      <3>2. n \in Nat /\ n + 1 = j.at /\ (j.at + 1) - 1 = n + 1 /\ j.at + 1 <= Len(names) + 1
        BY <1>2, <1>3
      <3> HIDE DEF n
      <3>3. StatesMade(statesOf(lib, j.td) \cup {s}, names, n + 1)
        BY <2>3, <2>4, <3>1, <3>2, StateMade
      <3>4. StatesMade(statesOf(l, j.td), names, k.at - 1)
        BY <2>2, <2>3, <3>2, <3>3
      <3> QED BY <2>2, <2>3, <3>1, <3>2, <3>4 DEF AsFar
    <2> QED BY <1>1, <1>2, <2>1, <2>2, <2>5, ProceedsWell
  <1>4. CASE ~ (j.at <= Len(names))
    <2> DEFINE k == [j EXCEPT !.at = 1, !.stage = "types"]
    <2>1. Proceed(j, k, lib) BY <1>4 DEF ImportState
    <2>2. /\ k.kind = "import" /\ k.stage = "types" /\ k.td = j.td /\ k.at = 1
          /\ k.profile = j.profile /\ k.typeResourceByName = j.typeResourceByName
          /\ k.touched = j.touched
      BY <1>2, <1>1 DEF ImportJobs
    <2> HIDE DEF k
    <2>3. ASSUME AsFar(j, lib) PROVE AsFar(k, lib)
      <3>1. /\ StatesMade(statesOf(lib, j.td), names, j.at - 1) /\ resourcesOf(lib, j.td) = {}
            /\ j.typeResourceByName = {} /\ lib.tdName[j.td] = j.profile.name
            /\ j.at <= Len(names) + 1
        BY <1>1, <2>3 DEF AsFar
      <3>2. j.at - 1 = Len(names)
        BY <1>2, <1>4, <3>1
      <3>3. TypesMade(j.profile.resources, 0, {}, {}) /\ 1 - 1 = 0
        BY <1>2, TypesBegin
      <3> QED BY <2>2, <3>1, <3>2, <3>3 DEF AsFar
    <2> QED BY <1>1, <1>2, <2>1, <2>2, <2>3, ProceedsWell
  <1> QED BY <1>3, <1>4

LEMMA WantedIs ==
    ASSUME NEW j, NEW kind PROVE Wanted(j, kind) = At(j.profile.resources, Kinds(j.profile.resources, kind))
  BY DEF Wanted, Filter, Kinds

LEMMA ImportTypeKeeps ==
    ASSUME LibInv, ImportsInv, NEW j \in jobs, ImportType(j) PROVE ImportsInv'
  <1>1. j.kind = "import" /\ j.stage = "types"
    BY DEF ImportType, ImportStep
  <1>2. /\ j \in ImportJobs /\ (j.touched \/ AsFar(j, lib)) /\ Library(lib)
        /\ j.at \in Nat \ {0} /\ j.profile.resources \in Seq(ProfileEntries)
    BY <1>1, ImportKnown
  <1> DEFINE rs == j.profile.resources
             w == At(rs, Kinds(rs, "type"))
             n == j.at - 1
             M == j.typeResourceByName
             R == resourcesOf(lib, j.td)
             S == statesOf(lib, j.td)
  <1>3. Wanted(j, "type") = w /\ Len(w) \in Nat
    BY <1>2, WantedIs, Places
  <1>4. n \in Nat /\ n + 1 = j.at /\ (j.at + 1) - 1 = n + 1
    BY <1>2
  <1>5. ASSUME AsFar(j, lib)
        PROVE  /\ TypesMade(rs, n, M, R) /\ lib.tdName[j.td] = j.profile.name
               /\ StatesMade(S, j.profile.states, Len(j.profile.states))
    BY <1>1, <1>5 DEF AsFar
  <1>6. CASE j.at <= Len(w)
    <2> DEFINE name == w[j.at].name
               N == {p \in M : p[1] # name} \cup {<<name, lib.nextId>>}
               k == [j EXCEPT !.at = j.at + 1, !.typeResourceByName = N]
               l == createResource(lib, j.td, name, "type", 0)
               r == [id |-> lib.nextId, td |-> j.td, name |-> name, kind |-> "type", parent |-> 0]
    <2>1. Proceed(j, k, l) BY <1>3, <1>6 DEF ImportType
    <2>2. /\ k.kind = "import" /\ k.stage = "types" /\ k.td = j.td /\ k.at = j.at + 1
          /\ k.profile = j.profile /\ k.typeResourceByName = N /\ k.touched = j.touched
      <3> HIDE DEF N
      <3> QED BY <1>1, <1>2 DEF ImportJobs
    <2>3. /\ resourcesOf(l, j.td) = R \cup {r} /\ r \notin R
          /\ statesOf(l, j.td) = S /\ l.tdName = lib.tdName
      BY <1>2, ResourceRowAdded
    <2>4. r.name = name /\ r.id = lib.nextId /\ r.kind = "type" /\ r.parent = 0
      OBVIOUS
    <2> HIDE DEF k, l, r
    <2>5. ASSUME AsFar(j, lib) PROVE AsFar(k, l)
      <3>1. TypesMade(rs, n + 1, {p \in M : p[1] # r.name} \cup {<<r.name, r.id>>}, R \cup {r})
        <4>1. TypesMade(rs, n, M, R) BY <1>5, <2>5
        <4>2. n + 1 <= Len(w) /\ r.name = w[n + 1].name BY <1>4, <1>6, <2>4
        <4> HIDE DEF n, M, R, rs
        <4> QED BY <1>2, <1>4, <2>3, <2>4, <4>1, <4>2, TypeMade DEF rs
      <3>2. TypesMade(rs, k.at - 1, N, R \cup {r})
        BY <1>4, <2>2, <2>4, <3>1
      <3> HIDE DEF N, n, M, R, S
      <3> QED BY <1>5, <2>2, <2>3, <2>5, <3>2 DEF AsFar, S
    <2> QED BY <1>1, <1>2, <2>1, <2>2, <2>5, ProceedsWell
  <1>7. CASE ~ (j.at <= Len(w))
    <2> DEFINE k == [j EXCEPT !.at = 1, !.stage = "instances"]
    <2>1. Proceed(j, k, lib) BY <1>3, <1>7 DEF ImportType
    <2>2. /\ k.kind = "import" /\ k.stage = "instances" /\ k.td = j.td /\ k.at = 1
          /\ k.profile = j.profile /\ k.typeResourceByName = M /\ k.touched = j.touched
      BY <1>2, <1>1 DEF ImportJobs
    <2> HIDE DEF k
    <2>3. ASSUME AsFar(j, lib) PROVE AsFar(k, lib)
      <3>1. n = Len(w)
        <4>1. n <= Len(w) BY <1>5, <2>3 DEF TypesMade
        <4> HIDE DEF w
        <4> QED BY <1>2, <1>3, <1>7, <4>1
      <3>2. InstancesMade(rs, 0, M, R)
        <4>1. TypesMade(rs, Len(w), M, R) BY <1>5, <2>3, <3>1
        <4> QED BY <1>2, <4>1, InstancesBegin
      <3>3. 1 - 1 = 0 OBVIOUS
      <3> HIDE DEF n, w
      <3> QED BY <1>5, <2>2, <2>3, <3>2, <3>3 DEF AsFar
    <2> QED BY <1>1, <1>2, <2>1, <2>2, <2>3, ProceedsWell
  <1> QED BY <1>6, <1>7

LEMMA ImportInstanceKeeps ==
    ASSUME LibInv, ImportsInv, NEW j \in jobs, ImportInstance(j) PROVE ImportsInv'
  <1>1. j.kind = "import" /\ j.stage = "instances"
    BY DEF ImportInstance, ImportStep
  <1>2. /\ j \in ImportJobs /\ (j.touched \/ AsFar(j, lib)) /\ Library(lib)
        /\ j.at \in Nat \ {0} /\ j.profile.resources \in Seq(ProfileEntries)
    BY <1>1, ImportKnown
  <1> DEFINE rs == j.profile.resources
             w == At(rs, Kinds(rs, "instance"))
             n == j.at - 1
             M == j.typeResourceByName
             R == resourcesOf(lib, j.td)
             S == statesOf(lib, j.td)
             e == w[j.at]
             parents == {p[2] : p \in {q \in M : q[1] = e.parent_name}}
  <1>3. Wanted(j, "instance") = w /\ Len(w) \in Nat
    BY <1>2, WantedIs, Places
  <1>4. n \in Nat /\ n + 1 = j.at /\ (j.at + 1) - 1 = n + 1
    BY <1>2
  <1>5. ASSUME AsFar(j, lib)
        PROVE  /\ InstancesMade(rs, n, M, R) /\ lib.tdName[j.td] = j.profile.name
               /\ StatesMade(S, j.profile.states, Len(j.profile.states))
    BY <1>1, <1>5 DEF AsFar
  <1>6. CASE j.at <= Len(w) /\ e.parent_name # NoTd /\ parents = {}
    <2> DEFINE N == M \cup {<<e.parent_name, lib.nextId>>}
               k == [j EXCEPT !.typeResourceByName = N]
               l == createResource(lib, j.td, e.parent_name, "type", 0)
               r == [id |-> lib.nextId, td |-> j.td, name |-> e.parent_name, kind |-> "type", parent |-> 0]
    <2>1. Proceed(j, k, l) BY <1>3, <1>6 DEF ImportInstance
    <2>2. /\ k.kind = "import" /\ k.stage = "instances" /\ k.td = j.td /\ k.at = j.at
          /\ k.profile = j.profile /\ k.typeResourceByName = N /\ k.touched = j.touched
      <3> HIDE DEF N
      <3> QED BY <1>1, <1>2 DEF ImportJobs
    <2>3. /\ resourcesOf(l, j.td) = R \cup {r} /\ r \notin R
          /\ statesOf(l, j.td) = S /\ l.tdName = lib.tdName
      BY <1>2, ResourceRowAdded
    <2>4. r.name = e.parent_name /\ r.id = lib.nextId /\ r.kind = "type" /\ r.parent = 0
      OBVIOUS
    <2>5. e.parent_name \notin NamesOf(M)
      BY <1>6 DEF NamesOf
    <2> HIDE DEF k, l, r, parents
    <2>6. ASSUME AsFar(j, lib) PROVE AsFar(k, l)
      <3>1. InstancesMade(rs, n, M \cup {<<r.name, r.id>>}, R \cup {r})
        <4>1. InstancesMade(rs, n, M, R) BY <1>5, <2>6
        <4>2. n + 1 <= Len(w) /\ r.name = w[n + 1].parent_name BY <1>4, <1>6, <2>4
        <4>3. r.name # NoTd /\ r.name \notin NamesOf(M) BY <1>6, <2>4, <2>5
        <4> HIDE DEF n, M, R, rs, e
        <4> QED BY <1>2, <1>4, <2>3, <2>4, <4>1, <4>2, <4>3, ParentMade DEF rs
      <3>2. InstancesMade(rs, k.at - 1, N, R \cup {r})
        BY <2>2, <2>4, <3>1
      <3> HIDE DEF N, n, M, R, S
      <3> QED BY <1>5, <2>2, <2>3, <2>6, <3>2 DEF AsFar, S
    <2> QED BY <1>1, <1>2, <2>1, <2>2, <2>6, ProceedsWell
  <1>7. CASE j.at <= Len(w) /\ ~ (e.parent_name # NoTd /\ parents = {})
    <2> DEFINE up == IF parents = {} THEN 0 ELSE CHOOSE p \in parents : TRUE
               k == [j EXCEPT !.at = j.at + 1]
               l == createResource(lib, j.td, e.name, "instance", up)
               r == [id |-> lib.nextId, td |-> j.td, name |-> e.name, kind |-> "instance", parent |-> up]
    <2>1. Proceed(j, k, l) BY <1>3, <1>7 DEF ImportInstance
    <2>2. /\ k.kind = "import" /\ k.stage = "instances" /\ k.td = j.td /\ k.at = j.at + 1
          /\ k.profile = j.profile /\ k.typeResourceByName = M /\ k.touched = j.touched
      BY <1>1, <1>2 DEF ImportJobs
    <2>3. /\ resourcesOf(l, j.td) = R \cup {r} /\ r \notin R
          /\ statesOf(l, j.td) = S /\ l.tdName = lib.tdName
      <3> HIDE DEF up, e
      <3> QED BY <1>2, ResourceRowAdded
    <2>4. r.name = e.name /\ r.kind = "instance" /\ r.parent = up
      OBVIOUS
    <2>5. parents # {} => <<e.parent_name, up>> \in M
      <3> SUFFICES ASSUME parents # {} PROVE <<e.parent_name, up>> \in M
        OBVIOUS
      <3>1. up \in parents OBVIOUS
      <3> HIDE DEF up
      <3>2. PICK q \in M : q[1] = e.parent_name /\ q[2] = up BY <3>1
      <3>3. q = <<q[1], q[2]>>
        <4>1. M \subseteq (ResourceNames \cup {NoTd}) \X RowIds BY <1>2 DEF ImportJobs
        <4> HIDE DEF M
        <4> QED BY <4>1
      <3> QED BY <3>2, <3>3
    <2>6. parents = {} => up = 0 OBVIOUS
    <2>7. parents # {} => e.parent_name \in NamesOf(M)
      BY DEF NamesOf
    <2> HIDE DEF k, l, r, parents, up
    <2>8. ASSUME AsFar(j, lib) PROVE AsFar(k, l)
      <3>1. InstancesMade(rs, n, M, R) BY <1>5, <2>8
      <3>2. n + 1 <= Len(w) /\ e = w[n + 1] BY <1>4, <1>7
      <3>3. NoTd \notin NamesOf(M)
        BY <1>2, <3>1, EntryFacts DEF InstancesMade
      <3>4. \/ e.parent_name = NoTd /\ r.parent = 0
            \/ e.parent_name # NoTd /\ <<e.parent_name, r.parent>> \in M
        BY <1>7, <2>4, <2>5, <2>6, <2>7, <3>3
      <3>5. InstancesMade(rs, n + 1, M, R \cup {r})
        <4> HIDE DEF n, M, R, rs, e
        <4> QED BY <1>2, <1>4, <2>3, <2>4, <3>1, <3>2, <3>4, InstanceMade DEF rs
      <3>6. InstancesMade(rs, k.at - 1, M, R \cup {r})
        BY <1>4, <2>2, <3>5
      <3> HIDE DEF n, R, S
      <3> QED BY <1>5, <2>2, <2>3, <2>8, <3>6 DEF AsFar, S
    <2> QED BY <1>1, <1>2, <2>1, <2>2, <2>8, ProceedsWell
  <1>8. CASE ~ (j.at <= Len(w))
    <2> DEFINE k == [j EXCEPT !.stage = "policies"]
    <2>1. Proceed(j, k, lib) BY <1>3, <1>8 DEF ImportInstance
    <2>2. /\ k.kind = "import" /\ k.stage = "policies" /\ k.td = j.td
          /\ k.profile = j.profile /\ k.touched = j.touched
      BY <1>2, <1>1 DEF ImportJobs
    <2> HIDE DEF k
    <2>3. ASSUME AsFar(j, lib) PROVE AsFar(k, lib)
      <3>1. n = Len(w)
        <4>1. n <= Len(w) BY <1>5, <2>3 DEF InstancesMade
        <4> HIDE DEF w
        <4> QED BY <1>2, <1>3, <1>8, <4>1
      <3>2. AllMade(rs, R)
        <4>1. InstancesMade(rs, Len(w), M, R) BY <1>5, <2>3, <3>1
        <4> QED BY <1>2, <4>1, AllMadeThen
      <3> HIDE DEF n, w
      <3> QED BY <1>5, <2>2, <2>3, <3>2 DEF AsFar
    <2> QED BY <1>1, <1>2, <2>1, <2>2, <2>3, ProceedsWell
  <1> QED BY <1>6, <1>7, <1>8

LEMMA ImportPoliciesKeeps ==
    ASSUME LibInv, ImportsInv, NEW j \in jobs, ImportPolicies(j) PROVE ImportsInv'
  <1>1. j.kind = "import" /\ j.stage = "policies"
    BY DEF ImportPolicies, ImportStep
  <1>2. /\ j \in ImportJobs /\ (j.touched \/ AsFar(j, lib)) /\ Library(lib) /\ j.td \in TdIds
        /\ j.profile.policy \in Priorities
    BY <1>1, ImportKnown
  <1> DEFINE R == resourcesOf(lib, j.td)
             k == [j EXCEPT !.stage = "bind", !.resources = R]
             q == normalizeStateMergePolicies(j.profile.policy)
             P == [lib.policy EXCEPT ![j.td] = q]
             l == [lib EXCEPT !.policy = P]
  <1>3. Proceed(j, k, l) BY DEF ImportPolicies
  <1>4. q = j.profile.policy
    BY <1>2 DEF normalizeStateMergePolicies, Priorities
  <1>5. P[j.td] = q
    BY <1>2 DEF Library, Libraries
  <1> HIDE DEF P, q
  <1>6. l.res = lib.res /\ l.states = lib.states /\ l.tdName = lib.tdName /\ l.policy = P
    BY <1>2 DEF Library, Libraries
  <1>7. resourcesOf(l, j.td) = R /\ statesOf(l, j.td) = statesOf(lib, j.td)
    BY <1>6 DEF resourcesOf, statesOf
  <1> HIDE DEF R, l
  <1>8. /\ k.kind = "import" /\ k.stage = "bind" /\ k.td = j.td /\ k.resources = R
        /\ k.profile = j.profile /\ k.touched = j.touched
    BY <1>1, <1>2 DEF ImportJobs
  <1> HIDE DEF k
  <1>9. ASSUME AsFar(j, lib) PROVE AsFar(k, l)
    <2>1. /\ AllMade(j.profile.resources, R) /\ lib.tdName[j.td] = j.profile.name
          /\ StatesMade(statesOf(lib, j.td), j.profile.states, Len(j.profile.states))
      BY <1>1, <1>9 DEF AsFar, R
    <2> QED BY <1>4, <1>5, <1>6, <1>7, <1>8, <2>1 DEF AsFar
  <1> QED BY <1>1, <1>2, <1>3, <1>8, <1>9, ProceedsWell

\* The tokens that stand for kinds and names, and what they require.
DistinctIds(R) == \A r, s \in R : r.id = s.id => r = s
PickedIds(R, X) == {(CHOOSE r \in R : <<r.kind, r.name>> = p).id : p \in X}
RowsWithIds(R, T) == {q \in R : q.id \in T}
IdsOf(Q) == {r.id : r \in Q}

LEMMA Rebinding ==
    ASSUME NEW R, DistinctIds(R), NEW X, X \subseteq KindsNamed(R)
    PROVE  /\ IdsOf(RowsWithIds(R, PickedIds(R, X))) = PickedIds(R, X)
           /\ KindsNamed(RowsWithIds(R, PickedIds(R, X))) = X
  <1> DEFINE pick(p) == CHOOSE r \in R : <<r.kind, r.name>> = p
             T == PickedIds(R, X)
             Q == RowsWithIds(R, T)
  <1>d. /\ \A r, s \in R : r.id = s.id => r = s
        /\ Q = {q \in R : q.id \in T}
        /\ IdsOf(Q) = {r.id : r \in Q}
    BY DEF DistinctIds, RowsWithIds, IdsOf
  <1>1. \A p \in X : pick(p) \in R /\ <<pick(p).kind, pick(p).name>> = p
    <2>1. \A p \in X : \E r \in R : <<r.kind, r.name>> = p
      BY DEF KindsNamed
    <2> QED BY <2>1
  <1>2. T = {pick(p).id : p \in X}
    BY DEF PickedIds
  <1> HIDE DEF pick, T, Q
  <1>3. \A p \in X : pick(p) \in Q
    BY <1>1, <1>2, <1>d
  <1>4. \A q \in Q : \E p \in X : q = pick(p)
    BY <1>1, <1>2, <1>d
  <1>5. T = IdsOf(Q)
    BY <1>2, <1>3, <1>4, <1>d
  <1>6. KindsNamed(Q) \subseteq X
    BY <1>1, <1>4 DEF KindsNamed
  <1>7. X \subseteq KindsNamed(Q)
    BY <1>1, <1>3 DEF KindsNamed
  <1> QED BY <1>5, <1>6, <1>7 DEF T, Q

\* What an import binds the task to, when nobody else wrote.
Rescued(j) == (IF j.before.owner = j.td THEN {} ELSE j.before.pairs) \cap KindsNamed(j.resources)

LEMMA ReboundIs ==
    ASSUME NEW j, j.stage = "bind", Remembered(j, lib), j.resources = resourcesOf(lib, j.td)
    PROVE  Rebound(j) = PickedIds(j.resources, Rescued(j))
  <1> DEFINE owner == lib.task.owner
             kept_ == {t \in lib.task.tokens : \E r \in j.resources : r.id = t}
             old == IF owner = j.td THEN {} ELSE resourcesOf(lib, owner)
             named == {r \in old : r.id \in lib.task.tokens \ kept_}
             pick(p) == CHOOSE r \in j.resources : <<r.kind, r.name>> = p
             pairs == KindsNamed(named) \cap KindsNamed(j.resources)
  <1>1. Rebound(j) = kept_ \cup {pick(p).id : p \in pairs}
    BY DEF Rebound
  <1>2. /\ j.before.owner = owner /\ (owner # j.td => j.before.pairs = KindsNamed(RequiredRows(lib, owner)))
        /\ \A r \in j.resources : r.id \notin lib.task.tokens
    BY DEF Remembered
  <1>3. kept_ = {}
    BY <1>2
  <1>4. owner # j.td => named = RequiredRows(lib, owner)
    BY <1>3 DEF RequiredRows
  <1>5. owner = j.td => named = {}
    OBVIOUS
  <1>6. KindsNamed({}) = {}
    BY DEF KindsNamed
  <1> HIDE DEF kept_, named, owner
  <1>7. pairs = Rescued(j)
    BY <1>2, <1>4, <1>5, <1>6 DEF Rescued
  <1> HIDE DEF pairs
  <1> QED BY <1>1, <1>3, <1>7 DEF PickedIds

\* The end: what was made is what the profile says.
LEMMA ImportBindKeeps ==
    ASSUME LibInv, HistoryInv, ImportsInv, NEW j \in jobs, ImportBind(j) PROVE ImportsInv'
  <1>1. j.kind = "import" /\ j.stage = "bind" /\ jobs' = jobs \ {j}
    BY DEF ImportBind, ImportStep
  <1>2. /\ j \in ImportJobs /\ (j.touched \/ AsFar(j, lib)) /\ Library(lib) /\ j.td \in TdIds
        /\ j.profile.policy \in Priorities /\ j.profile.resources \in Seq(ProfileEntries)
        /\ j.profile.states \in Seq(StateNames) /\ (j.touched \/ Remembered(j, lib))
    BY <1>1, ImportKnown DEF HistoryInv, Importing
  <1>3. Importing' = {}
    BY <1>1 DEF Importing, ImportsInv
  <1> DEFINE t == [owner |-> j.td, tokens |-> Rebound(j)]
             last(b) == [profile |-> j.profile, td |-> j.td, bound |-> b, before |-> j.before]
  <1>4. PICK bound \in BOOLEAN :
        /\ lib' = IF bound THEN [lib EXCEPT !.task = t] ELSE lib
        /\ lastImport' = IF j.touched THEN NoTd ELSE last(bound)
    <2>1. j.profile.withTask \in BOOLEAN BY <1>2 DEF ImportJobs, ProfileFiles
    <2> QED BY <2>1 DEF ImportBind
  <1>t. t.owner = j.td /\ t.tokens = Rebound(j) OBVIOUS
  <1> HIDE DEF t
  <1>5. /\ lib'.res = lib.res /\ lib'.states = lib.states /\ lib'.tdName = lib.tdName
        /\ lib'.policy = lib.policy /\ (bound => lib'.task = t)
    BY <1>2, <1>4 DEF Library, Libraries
  <1>6. Library(lib')
    BY ImportBindOK DEF LibInv, ProfileSteps
  <1>7. ImportFaithful'
    <2>1. CASE j.touched
      BY <1>4, <2>1 DEF ImportFaithful
    <2>2. CASE ~ j.touched
      <3> DEFINE now == ProfileOf(lib', j.td)
                 p == j.profile
                 R == resourcesOf(lib, j.td)
      <3>1. /\ lib.tdName[j.td] = p.name /\ j.resources = R /\ lib.policy[j.td] = p.policy
            /\ AllMade(p.resources, R)
            /\ StatesMade(statesOf(lib, j.td), p.states, Len(p.states))
        BY <1>1, <1>2, <2>2 DEF AsFar
      <3>2. resourcesOf(lib', j.td) = R /\ statesOf(lib', j.td) = statesOf(lib, j.td)
        BY <1>5 DEF resourcesOf, statesOf
      <3>3. SameBag(now.resources, Completed(p.resources))
        BY <1>2, <1>6, <3>1, <3>2, SameResources
      <3>4. SameBag(now.states, p.states)
        BY <1>2, <1>6, <3>1, <3>2, SameStates
      <3>5. now.policy = p.policy /\ now.name = p.name
        BY <1>2, <1>5, <3>1 DEF ProfileOf, normalizeStateMergePolicies, Priorities
      <3>6. lastImport' = last(bound)
        BY <1>4, <2>2
      <3>7. /\ last(bound).profile = p /\ last(bound).td = j.td /\ last(bound).bound = bound
            /\ last(bound).before = j.before
        OBVIOUS
      <3>8. ASSUME bound PROVE TasksRebound(lastImport)'
        <4> DEFINE T == Rebound(j)
                   X == Rescued(j)
                   required == RowsWithIds(R, T)
        <4>1. T = PickedIds(R, X)
          BY <1>1, <1>2, <2>2, <3>1, ReboundIs
        <4>2. DistinctIds(R)
          BY <1>2, RowNumbers DEF Numbered, resourcesOf, DistinctIds
        <4>3. X = IF j.before.owner = j.td THEN {} ELSE j.before.pairs \cap KindsNamed(R)
          BY <3>1 DEF Rescued
        <4>4. X \subseteq KindsNamed(R) BY <4>3
        <4>5. lib'.task.owner = j.td /\ lib'.task.tokens = T
          BY <1>5, <1>t, <3>8
        <4>7. RequiredRows(lib', j.td) = required
          BY <3>2, <4>5 DEF RequiredRows, RowsWithIds
        <4> HIDE DEF T, X, R
        <4>6. T = IdsOf(required) /\ KindsNamed(required) = X
          BY <4>1, <4>2, <4>4, Rebinding
        <4> HIDE DEF required, last
        <4>9. IdsOf(RequiredRows(lib', j.td)) = {r.id : r \in RequiredRows(lib', j.td)}
          BY DEF IdsOf
        <4>8. /\ lib'.task.owner = j.td
              /\ lib'.task.tokens = {r.id : r \in RequiredRows(lib', j.td)}
              /\ KindsNamed(RequiredRows(lib', j.td)) =
                    IF j.before.owner = j.td THEN {}
                    ELSE j.before.pairs \cap KindsNamed(resourcesOf(lib', j.td))
          BY <3>2, <4>3, <4>5, <4>6, <4>7, <4>9 DEF R
        <4> QED BY <3>6, <3>7, <4>8 DEF TasksRebound
      <3> HIDE DEF now, last
      <3> QED BY <3>3, <3>4, <3>5, <3>6, <3>7, <3>8 DEF ImportFaithful, now
    <2> QED BY <2>1, <2>2
  <1> QED BY <1>3, <1>7 DEF ImportsInv

LEMMA UserLeavesImports ==
    ASSUME NEW td, ProfileUser(td) \/ TdDisappears(td)
    PROVE  \/ UNCHANGED <<lib, lastImport>> /\ Importing' \subseteq Importing
           \/ /\ \A i \in jobs' : i.kind = "import" => i \in Touched
              /\ \E l : Write(l, jobs')
  <1> DEFINE Goal == \/ UNCHANGED <<lib, lastImport>> /\ Importing' \subseteq Importing
                     \/ /\ \A i \in jobs' : i.kind = "import" => i \in Touched
                        /\ \E l : Write(l, jobs')
  <1> SUFFICES Goal OBVIOUS
  <1>1. ASSUME NEW l, Write(l, Touched) PROVE Goal
    <2>1. jobs' = Touched BY <1>1 DEF Write
    <2> QED BY <1>1, <2>1
  <1>2. ASSUME NEW l, NEW k, k.kind # "import", Write(l, Touched \cup {k}) PROVE Goal
    <2>1. jobs' = Touched \cup {k} BY <1>2 DEF Write
    <2>2. \A i \in jobs' : i.kind = "import" => i \in Touched
      BY <1>2, <2>1
    <2> QED BY <1>2, <2>1, <2>2
  <1>3. ASSUME UNCHANGED <<lib, lastImport>>, NEW k, k.kind # "import", jobs' = jobs \cup {k}
        PROVE  Goal
    BY <1>3 DEF Importing
  <1> HIDE DEF Goal
  <1>4. \A kind \in {"generate", "add"} : \A b, names, parent :
            BuildJob(kind, td, b, names, parent).kind # "import"
    BY DEF BuildJob
  <1>5. ASSUME NEW b \in Bases, NEW n, handleGenerateResourceType(td, b, n) PROVE Goal
    <2> DEFINE old == typeNamed(view, td, b)
               names == buildInstanceNames(b, n) \ {r.name : r \in {i \in resourcesOf(view, td) : isResourceInstance(i)}}
    <2>1. \/ \E t \in old : /\ jobs' = jobs \cup {BuildJob("generate", td, b, names, t.id)}
                           /\ UNCHANGED <<lib, lastImport>>
          \/ Write(createResource(lib, td, <<b, 0>>, "type", 0),
                   Touched \cup {BuildJob("generate", td, b, names, lib.nextId)})
      BY <1>5 DEF handleGenerateResourceType
    <2> HIDE DEF old, names
    <2> QED BY <1>2, <1>3, <1>4, <2>1
  <1>6. ASSUME NEW b \in Bases, handleAddInstanceToType(td, b) PROVE Goal
    BY <1>2, <1>3, <1>4, <1>6 DEF handleAddInstanceToType
  <1>7. CASE \E name : handleAddResource(td, name)
    BY <1>1, <1>7 DEF handleAddResource
  <1>8. CASE handleDeleteResource(td) \/ handleDeleteState(td)
    BY <1>1, <1>8 DEF handleDeleteResource, handleDeleteState
  <1>9. ASSUME NEW s, handleAddState(td, s) PROVE Goal
    BY <1>1, <1>9 DEF handleAddState
  <1>10. CASE \E p : handleSaveStateMergePolicies(td, p)
    BY <1>1, <1>10 DEF handleSaveStateMergePolicies
  <1>11. CASE \E name : handleRenameTd(td, name)
    BY <1>1, <1>11 DEF handleRenameTd
  <1>12. CASE handleExportDistributorProfile(td)
    BY <1>12 DEF handleExportDistributorProfile, Importing, Goal
  <1>13. CASE TdDisappears(td)
    <2>1. \E l : Write(l, Touched) BY <1>13 DEF TdDisappears
    <2> QED BY <1>1, <2>1
  <1> QED BY <1>5, <1>6, <1>7, <1>8, <1>9, <1>10, <1>11, <1>12, <1>13 DEF ProfileUser

(***************************************************************************)
(* What an import remembers of the task                                    *)
(***************************************************************************)
LEMMA HistoryNoWrite ==
    ASSUME HistoryInv, UNCHANGED lib, Importing' \subseteq Importing PROVE HistoryInv'
  BY DEF HistoryInv

LEMMA HistoryOthers ==
    ASSUME LibInv, NEW js, jobs' = js, \A k \in js : k.kind = "import" => k \in Touched
    PROVE  HistoryInv'
  BY TouchedImports DEF HistoryInv

LEMMA HistoryProceeds ==
    ASSUME ImportsInv, NEW j \in jobs, j.kind = "import", NEW k, k.kind = "import", NEW l,
           Proceed(j, k, l), k.touched \/ Remembered(k, l)
    PROVE  HistoryInv'
  <1>1. Importing' = {k} BY OnlyImport
  <1>2. lib' = l BY DEF Proceed, Write
  <1> QED BY <1>1, <1>2 DEF HistoryInv

\* A new row of the import's distributor has a number that no token has.
LEMMA RememberedOn ==
    ASSUME NEW l, Library(l), NEW j, j.stage \notin {"find", "clear"}, Remembered(j, l),
           \A t \in l.task.tokens : Owned(l, t, l.task.owner),
           NEW k, k.td = j.td, k.before = j.before,
           NEW m, NEW N, m.task = l.task, m.res = l.res \cup N,
           \A s \in N : s.td = j.td /\ s.id = l.nextId
    PROVE  Remembered(k, m)
  <1>1. l.nextId \notin l.task.tokens
    BY RowNumbers DEF Owned
  <1>2. ASSUME NEW o, o # j.td PROVE RequiredRows(m, o) = RequiredRows(l, o)
    BY <1>2 DEF RequiredRows, resourcesOf
  <1>3. j.before.owner = l.task.owner
    BY DEF Remembered
  <1>4. j.before.owner # j.td => j.before.pairs = KindsNamed(RequiredRows(m, j.before.owner))
    BY <1>2 DEF Remembered
  <1>5. \A r \in resourcesOf(m, j.td) : r.id \notin l.task.tokens
    <2>1. \A r \in resourcesOf(m, j.td) : r \in resourcesOf(l, j.td) \/ r.id = l.nextId
      BY DEF resourcesOf
    <2>2. \A r \in resourcesOf(l, j.td) : r.id \notin l.task.tokens
      BY DEF Remembered
    <2> QED BY <1>1, <2>1, <2>2
  <1> QED BY <1>3, <1>4, <1>5 DEF Remembered

\* A request of the import once it has cleared its distributor.
LEMMA HistoryGoesOn ==
    ASSUME LibInv, OwnInv, ImportsInv, HistoryInv, NEW j \in jobs, j.kind = "import",
           j.stage \notin {"find", "clear"},
           NEW k, k.kind = "import", k.td = j.td, k.before = j.before, k.touched = j.touched,
           NEW l, NEW N, l.task = lib.task, l.res = lib.res \cup N,
           \A s \in N : s.td = j.td /\ s.id = lib.nextId, Proceed(j, k, l)
    PROVE  HistoryInv'
  <1>1. j.touched \/ Remembered(j, lib)
    BY DEF HistoryInv, Importing
  <1>2. Library(lib) /\ \A t \in lib.task.tokens : Owned(lib, t, lib.task.owner)
    BY DEF LibInv, OwnInv
  <1>3. k.touched \/ Remembered(k, l)
    BY <1>1, <1>2, RememberedOn
  <1> QED BY <1>3, HistoryProceeds

LEMMA HistoryStands ==
    ASSUME LibInv, OwnInv, ImportsInv, HistoryInv, NEW j \in jobs, j.kind = "import",
           j.stage \notin {"find", "clear"},
           NEW k, k.kind = "import", k.td = j.td, k.before = j.before, k.touched = j.touched,
           NEW l, l.task = lib.task, l.res = lib.res, Proceed(j, k, l)
    PROVE  HistoryInv'
  <1>1. PICK N : N = {} OBVIOUS
  <1>2. l.res = lib.res \cup N /\ \A s \in N : s.td = j.td /\ s.id = lib.nextId
    BY <1>1
  <1> QED BY <1>2, HistoryGoesOn

LEMMA CreatedRow ==
    ASSUME NEW l, Library(l), NEW td, NEW name, NEW kind, NEW parent
    PROVE  \E N : /\ createResource(l, td, name, kind, parent).res = l.res \cup N
                  /\ createResource(l, td, name, kind, parent).task = l.task
                  /\ \A s \in N : s.td = td /\ s.id = l.nextId
  <1> DEFINE r == [id |-> l.nextId, td |-> td, name |-> name, kind |-> kind, parent |-> parent]
  <1>1. r.td = td /\ r.id = l.nextId OBVIOUS
  <1>2. /\ createResource(l, td, name, kind, parent).res = l.res \cup {r}
        /\ createResource(l, td, name, kind, parent).task = l.task
    BY DEF createResource, Library, Libraries
  <1> HIDE DEF r
  <1>3. \A s \in {r} : s.td = td /\ s.id = l.nextId BY <1>1
  <1> QED BY <1>2, <1>3

LEMMA HistoryFind ==
    ASSUME LibInv, ImportsInv, HistoryInv, NEW j \in jobs, ImportFind(j) PROVE HistoryInv'
  <1>1. PICK td \in IF FoundTd(j) # {} THEN FoundTd(j) \cap lib.tds ELSE TdIds \ (lib.tds \cup lib.gone) :
        LET l == [lib EXCEPT !.tds = @ \cup {td}, !.tdName[td] = j.profile.name]
        IN Proceed(j, [j EXCEPT !.td = td, !.stage = "clear", !.known = NoTd,
                                !.before = Requirement(lib),
                                !.states = {s.id : s \in statesOf(lib, td)},
                                !.resources = {r.id : r \in resourcesOf(lib, td)}], l)
    BY DEF ImportFind
  <1>2. j.kind = "import" /\ j \in ImportJobs /\ Library(lib)
    BY ImportJob DEF ImportFind, ImportStep, LibInv
  <1> DEFINE T == lib.tds \cup {td}
             N == [lib.tdName EXCEPT ![td] = j.profile.name]
             l == [lib EXCEPT !.tds = T, !.tdName = N]
             S == {s.id : s \in statesOf(lib, td)}
             R == {r.id : r \in resourcesOf(lib, td)}
             B == Requirement(lib)
             k == [j EXCEPT !.td = td, !.stage = "clear", !.known = NoTd, !.before = B,
                            !.states = S, !.resources = R]
  <1>3. Proceed(j, k, l) BY <1>1
  <1> HIDE DEF T, N, S, R, B
  <1>4. l.task = lib.task /\ l.res = lib.res
    BY <1>2 DEF Library, Libraries
  <1>5. k.kind = "import" /\ k.stage = "clear" /\ k.before = B
    BY <1>2 DEF ImportJobs
  <1> HIDE DEF k, l
  <1>6. B.owner = lib.task.owner /\ B.pairs = KindsNamed(RequiredRows(lib, lib.task.owner))
    BY DEF B, Requirement
  <1>7. RequiredRows(l, lib.task.owner) = RequiredRows(lib, lib.task.owner)
    BY <1>4 DEF RequiredRows, resourcesOf
  <1>8. Remembered(k, l)
    BY <1>4, <1>5, <1>6, <1>7 DEF Remembered
  <1> QED BY <1>2, <1>3, <1>5, <1>8, HistoryProceeds

\* Deleting what the distributor had takes no row of another one.
LEMMA HistoryClear ==
    ASSUME LibInv, OwnInv, ImportsInv, HistoryInv, NEW j \in jobs, ImportClear(j) PROVE HistoryInv'
  <1>1. /\ j.kind = "import" /\ j.stage = "clear" /\ j \in ImportJobs /\ Library(lib)
        /\ (j.touched \/ AsFar(j, lib)) /\ (j.touched \/ Remembered(j, lib))
    BY ImportKnown DEF ImportClear, ImportStep, HistoryInv, Importing
  <1>2. ASSUME NEW k, k = [j EXCEPT !.stage = "states", !.states = {}, !.resources = {}],
               NEW l, l = deleteResources(deleteStates(lib, j.states), j.resources), Proceed(j, k, l)
        PROVE  HistoryInv'
    <2>1. /\ k.kind = "import" /\ k.stage = "states" /\ k.td = j.td /\ k.before = j.before
          /\ k.touched = j.touched
      BY <1>1, <1>2 DEF ImportJobs
    <2>2. /\ l.res = {r \in lib.res : r.id \notin j.resources /\ r.parent \notin j.resources}
          /\ l.task = lib.task
      BY <1>1, <1>2 DEF Library, Libraries, deleteResources, deleteStates
    <2>3. ASSUME AsFar(j, lib), Remembered(j, lib) PROVE Remembered(k, l)
      <3>1. j.resources = {r.id : r \in resourcesOf(lib, j.td)}
        BY <1>1, <2>3 DEF AsFar
      <3>2. resourcesOf(l, j.td) = {}
        BY <2>2, <3>1 DEF resourcesOf
      <3>3. ASSUME NEW o, o # j.td PROVE RequiredRows(l, o) = RequiredRows(lib, o)
        <4>1. \A q \in resourcesOf(lib, j.td) : q \in lib.res /\ q.td = j.td BY DEF resourcesOf
        <4>2. \A r \in lib.res : r.td = o => r.id \notin j.resources
          <5>1. \A r \in lib.res : Owned(lib, r.id, r.td) BY <1>1, RowOwned
          <5> QED BY <3>1, <3>3, <4>1, <5>1 DEF Owned
        <4>3. \A r \in lib.res : r.td = o => r.parent \notin j.resources
          <5>1. \A r \in lib.res : Owned(lib, r.parent, r.td) BY DEF OwnInv, ParentsOwned
          <5> QED BY <3>1, <3>3, <4>1, <5>1 DEF Owned
        <4> QED BY <2>2, <4>2, <4>3 DEF RequiredRows, resourcesOf
      <3>4. /\ j.before.owner = lib.task.owner
            /\ j.before.owner # j.td => j.before.pairs = KindsNamed(RequiredRows(lib, j.before.owner))
        BY <1>1, <2>3 DEF Remembered
      <3> QED BY <2>1, <2>2, <3>2, <3>3, <3>4 DEF Remembered
    <2> QED BY <1>1, <1>2, <2>1, <2>3, HistoryProceeds
  <1>3. ASSUME NEW l, Write(l, jobs \ {j}) PROVE HistoryInv'
    <2>1. Importing' = {}
      BY <1>1, <1>3 DEF Write, Importing, ImportsInv
    <2> QED BY <2>1 DEF HistoryInv
  <1> QED BY <1>2, <1>3 DEF ImportClear

LEMMA HistoryStates ==
    ASSUME LibInv, OwnInv, ImportsInv, HistoryInv, NEW j \in jobs, ImportState(j) PROVE HistoryInv'
  <1>1. j.kind = "import" /\ j.stage = "states" /\ j \in ImportJobs /\ Library(lib)
    BY ImportKnown DEF ImportState, ImportStep
  <1>2. PICK k, l :
          /\ Proceed(j, k, l) /\ l.task = lib.task /\ l.res = lib.res
          /\ k.kind = "import" /\ k.td = j.td /\ k.before = j.before /\ k.touched = j.touched
    <2>1. CASE j.at <= Len(j.profile.states)
      <3> DEFINE k == [j EXCEPT !.at = j.at + 1]
                 l == createState(lib, j.td, j.profile.states[j.at])
      <3>1. Proceed(j, k, l) BY <2>1 DEF ImportState
      <3>2. k.kind = "import" /\ k.td = j.td /\ k.before = j.before /\ k.touched = j.touched
        BY <1>1 DEF ImportJobs
      <3>3. l.task = lib.task /\ l.res = lib.res
        BY <1>1 DEF Library, Libraries, createState
      <3> HIDE DEF k, l
      <3> QED BY <3>1, <3>2, <3>3
    <2>2. CASE ~ (j.at <= Len(j.profile.states))
      <3> DEFINE k == [j EXCEPT !.at = 1, !.stage = "types"]
      <3>1. Proceed(j, k, lib) BY <2>2 DEF ImportState
      <3>2. k.kind = "import" /\ k.td = j.td /\ k.before = j.before /\ k.touched = j.touched
        BY <1>1 DEF ImportJobs
      <3> HIDE DEF k
      <3> QED BY <3>1, <3>2
    <2> QED BY <2>1, <2>2
  <1> QED BY <1>1, <1>2, HistoryStands

LEMMA HistoryRows ==
    ASSUME LibInv, OwnInv, ImportsInv, HistoryInv, NEW j \in jobs, ImportType(j) \/ ImportInstance(j)
    PROVE  HistoryInv'
  <1>1. /\ j.kind = "import" /\ j.stage \in {"types", "instances"} /\ j \in ImportJobs /\ Library(lib)
    BY ImportKnown DEF ImportType, ImportInstance, ImportStep
  <1>2. \/ \E k : Proceed(j, k, lib) /\ (\E s : k = [j EXCEPT !.at = 1, !.stage = s] \/ k = [j EXCEPT !.stage = s])
        \/ \E k, name, kind, parent :
              /\ Proceed(j, k, createResource(lib, j.td, name, kind, parent))
              /\ \E a, M : k = [j EXCEPT !.at = a, !.typeResourceByName = M]
                           \/ k = [j EXCEPT !.at = a] \/ k = [j EXCEPT !.typeResourceByName = M]
    <2>1. CASE ImportType(j)
      <3>1. CASE ~ (j.at <= Len(Wanted(j, "type")))
        BY <2>1, <3>1 DEF ImportType
      <3>2. CASE j.at <= Len(Wanted(j, "type"))
        <4> DEFINE name == Wanted(j, "type")[j.at].name
                   M == {p \in j.typeResourceByName : p[1] # name} \cup {<<name, lib.nextId>>}
                   k == [j EXCEPT !.at = j.at + 1, !.typeResourceByName = M]
        <4>1. Proceed(j, k, createResource(lib, j.td, name, "type", 0))
          BY <2>1, <3>2 DEF ImportType
        <4> HIDE DEF M, name
        <4>2. \E a, N : k = [j EXCEPT !.at = a, !.typeResourceByName = N] OBVIOUS
        <4> HIDE DEF k
        <4> QED BY <4>1, <4>2
      <3> QED BY <3>1, <3>2
    <2>2. CASE ImportInstance(j)
      <3>1. CASE ~ (j.at <= Len(Wanted(j, "instance")))
        BY <2>2, <3>1 DEF ImportInstance
      <3>2. CASE j.at <= Len(Wanted(j, "instance"))
        BY <2>2, <3>2 DEF ImportInstance
      <3> QED BY <3>1, <3>2
    <2> QED BY <2>1, <2>2
  <1>3. ASSUME NEW k, NEW s, Proceed(j, k, lib),
               k = [j EXCEPT !.at = 1, !.stage = s] \/ k = [j EXCEPT !.stage = s]
        PROVE  HistoryInv'
    <2>1. k.kind = "import" /\ k.td = j.td /\ k.before = j.before /\ k.touched = j.touched
      BY <1>1, <1>3 DEF ImportJobs
    <2> QED BY <1>1, <1>3, <2>1, HistoryStands
  <1>4. ASSUME NEW k, NEW name, NEW kind, NEW parent, NEW a, NEW M,
               Proceed(j, k, createResource(lib, j.td, name, kind, parent)),
               \/ k = [j EXCEPT !.at = a, !.typeResourceByName = M]
               \/ k = [j EXCEPT !.at = a] \/ k = [j EXCEPT !.typeResourceByName = M]
        PROVE  HistoryInv'
    <2>1. k.kind = "import" /\ k.td = j.td /\ k.before = j.before /\ k.touched = j.touched
      BY <1>1, <1>4 DEF ImportJobs
    <2> DEFINE l == createResource(lib, j.td, name, kind, parent)
    <2>2. PICK N : l.res = lib.res \cup N /\ l.task = lib.task /\ \A s \in N : s.td = j.td /\ s.id = lib.nextId
      BY <1>1, CreatedRow
    <2>3. Proceed(j, k, l) BY <1>4
    <2> HIDE DEF l
    <2> QED BY <1>1, <2>1, <2>2, <2>3, HistoryGoesOn
  <1> QED BY <1>2, <1>3, <1>4

LEMMA HistoryPolicies ==
    ASSUME LibInv, OwnInv, ImportsInv, HistoryInv, NEW j \in jobs, ImportPolicies(j) PROVE HistoryInv'
  <1>1. j.kind = "import" /\ j.stage = "policies" /\ j \in ImportJobs /\ Library(lib)
    BY ImportKnown DEF ImportPolicies, ImportStep
  <1> DEFINE R == resourcesOf(lib, j.td)
             k == [j EXCEPT !.stage = "bind", !.resources = R]
             P == [lib.policy EXCEPT ![j.td] = normalizeStateMergePolicies(j.profile.policy)]
             l == [lib EXCEPT !.policy = P]
  <1>2. Proceed(j, k, l) BY DEF ImportPolicies
  <1> HIDE DEF R, P
  <1>3. l.task = lib.task /\ l.res = lib.res
    BY <1>1 DEF Library, Libraries
  <1>4. k.kind = "import" /\ k.td = j.td /\ k.before = j.before /\ k.touched = j.touched
    BY <1>1 DEF ImportJobs
  <1> HIDE DEF k, l
  <1> QED BY <1>1, <1>2, <1>3, <1>4, HistoryStands

LEMMA HistoryNextOK == LibInv /\ OwnInv /\ ImportsInv /\ HistoryInv /\ [ProfileNext]_libVars => HistoryInv'
  <1> SUFFICES ASSUME LibInv, OwnInv, ImportsInv, HistoryInv, [ProfileNext]_libVars PROVE HistoryInv'
    OBVIOUS
  <1>1. CASE UNCHANGED libVars \/ loadProfileView \/ \E j \in jobs : JobFails(j)
    BY <1>1, HistoryNoWrite DEF libVars, Importing, loadProfileView, JobFails
  <1>2. ASSUME NEW td, ProfileUser(td) \/ TdDisappears(td) PROVE HistoryInv'
    <2>1. \/ UNCHANGED lib /\ Importing' \subseteq Importing
          \/ \A i \in jobs' : i.kind = "import" => i \in Touched
      BY <1>2, UserLeavesImports
    <2> QED BY <2>1, HistoryNoWrite, HistoryOthers
  <1>3. CASE handleImportDistributorProfile
    <2> DEFINE k == [kind |-> "import", profile |-> file, td |-> NoTd, stage |-> "find", at |-> 1,
                     states |-> {}, resources |-> {}, typeResourceByName |-> {}, before |-> NoTd,
                     known |-> view, touched |-> FALSE]
    <2>1. Importing = {} /\ jobs' = jobs \cup {k}
      BY <1>3 DEF handleImportDistributorProfile, ProfileButtons
    <2>2. k.stage = "find" OBVIOUS
    <2> HIDE DEF k
    <2>3. Importing' \subseteq {k} BY <2>1 DEF Importing
    <2>4. Remembered(k, lib') BY <2>2 DEF Remembered
    <2> QED BY <2>3, <2>4 DEF HistoryInv
  <1>4. ASSUME NEW j \in jobs, InstancesBuilt(j) PROVE HistoryInv'
    <2>1. \A k \in jobs' : k \in Touched BY <1>4 DEF InstancesBuilt, Write
    <2> QED BY <2>1, HistoryOthers
  <1>5. ASSUME NEW j \in jobs, ImportBind(j) PROVE HistoryInv'
    <2>1. Importing' = {}
      BY <1>5 DEF ImportBind, ImportStep, Importing, ImportsInv
    <2> QED BY <2>1 DEF HistoryInv
  <1>6. ASSUME NEW j \in jobs, ProfileSteps(j) PROVE HistoryInv'
    BY <1>1, <1>4, <1>5, <1>6, HistoryFind, HistoryClear, HistoryStates, HistoryRows, HistoryPolicies
       DEF ProfileSteps
  <1> QED BY <1>1, <1>2, <1>3, <1>6 DEF ProfileNext

LEMMA ImportStarts ==
    ASSUME LibInv, ImportsInv, handleImportDistributorProfile PROVE ImportsInv'
  <1> DEFINE k == [kind |-> "import", profile |-> file, td |-> NoTd, stage |-> "find", at |-> 1,
                   states |-> {}, resources |-> {}, typeResourceByName |-> {}, before |-> NoTd,
                   known |-> view, touched |-> FALSE]
  <1>1. Importing = {} /\ jobs' = jobs \cup {k} /\ UNCHANGED <<lib, lastImport>>
    BY DEF handleImportDistributorProfile, ProfileButtons
  <1>2. k.kind = "import" /\ k.stage = "find" /\ k.at = 1 /\ k.typeResourceByName = {}
    OBVIOUS
  <1> HIDE DEF k
  <1>3. Importing' = {k}
    BY <1>1, <1>2 DEF Importing
  <1>4. AsFar(k, lib')
    BY <1>2 DEF AsFar
  <1>5. ImportFaithful'
    BY <1>1 DEF ImportsInv, ImportFaithful, TasksRebound
  <1> QED BY <1>3, <1>4, <1>5 DEF ImportsInv

LEMMA ImportsNextOK == LibInv /\ HistoryInv /\ ImportsInv /\ [ProfileNext]_libVars => ImportsInv'
  <1> SUFFICES ASSUME LibInv, HistoryInv, ImportsInv, [ProfileNext]_libVars PROVE ImportsInv'
    OBVIOUS
  <1>1. CASE UNCHANGED libVars
    BY <1>1, NoWrite DEF libVars, Importing
  <1>2. ASSUME NEW td, ProfileUser(td) \/ TdDisappears(td) PROVE ImportsInv'
    BY <1>2, UserLeavesImports, NoWrite, OthersWrite
  <1>4. CASE handleImportDistributorProfile
    BY <1>4, ImportStarts
  <1>5. CASE loadProfileView
    BY <1>5, NoWrite DEF loadProfileView, Importing
  <1>6. ASSUME NEW j \in jobs, JobFails(j) PROVE ImportsInv'
    BY <1>6, NoWrite DEF JobFails, Importing
  <1>7. ASSUME NEW j \in jobs, InstancesBuilt(j) PROVE ImportsInv'
    <2>1. \E l : Write(l, Touched \ {[j EXCEPT !.touched = TRUE]})
      BY <1>7 DEF InstancesBuilt
    <2> QED BY <2>1, OthersWrite
  <1>8. ASSUME NEW j \in jobs, ProfileSteps(j) PROVE ImportsInv'
    BY <1>6, <1>7, <1>8, ImportFindKeeps, ImportClearKeeps, ImportStateKeeps, ImportTypeKeeps,
       ImportInstanceKeeps, ImportPoliciesKeeps, ImportBindKeeps DEF ProfileSteps
  <1> QED BY <1>1, <1>2, <1>4, <1>5, <1>8 DEF ProfileNext

\* An import (handleImportDistributorProfile) that ran to its end while nobody else wrote
\* leaves the distributor with exactly the resources, the states and the policies of its
\* file; a task that it took over from another distributor requires what it required when
\* the import began, by kind and name, as far as the distributor has it, and a task of the
\* distributor itself nothing; for any distributors, names and numbers of rows.
THEOREM ImportFaithfulCorrect == Spec => []ImportFaithful
  <1> DEFINE Inv == LibInv /\ OwnInv /\ HistoryInv /\ ImportsInv
  <1>1. Init => Inv
    <2>1. Init => LibInv /\ OwnInv
      BY LibInitOK, OwnInitOK DEF Init
    <2>2. Init => ImportsInv /\ HistoryInv
      BY NothingImported DEF Init, ProfileInit, ImportsInv, HistoryInv, Importing
    <2> QED BY <2>1, <2>2
  <1>2. Inv /\ [Next]_vars => Inv'
    BY LibNextOK, OwnNextOK, HistoryNextOK, ImportsNextOK, ScreenSteps
  <1>3. Inv => ImportFaithful
    BY DEF ImportsInv
  <1> QED BY <1>1, <1>2, <1>3, PTL DEF Spec

(***************************************************************************)
(* Captured telemetry                                                      *)
(***************************************************************************)
Leads(E, S) == S \cup {e[2] : e \in {x \in E : x[1] \in S}}

\* The rounds of the search are what their recursion says.
LEMMA RoundsOf ==
    ASSUME NEW E, NEW S
    PROVE  \E R : /\ R[0] = S /\ \A n \in Nat : R[n + 1] = Leads(E, R[n])
                  /\ Reached(E, S) = R[Cardinality(E)]
  <1> DEFINE U == S \cup {e[2] : e \in E}
             step == [n \in Nat |-> [V \in SUBSET U |-> Leads(E, V)]]
             Is(R) == R = [n \in Nat |-> IF n = 0 THEN S ELSE Leads(E, R[n - 1])]
             Round == CHOOSE R : Is(R)
  <1>1. step \in [Nat -> [SUBSET U -> SUBSET U]]
    BY DEF Leads
  <1>2. PICK R \in [Nat -> SUBSET U] : R[0] = S /\ \A n \in Nat : R[n + 1] = step[n][R[n]]
    <2> DEFINE A == SUBSET U
    <2>1. S \in A /\ step \in [Nat -> [A -> A]]
      BY <1>1
    <2> HIDE DEF step, A
    <2>2. \E R : Recurs(R, A, S, step)
      BY <2>1, NumberRecursion
    <2> QED BY <2>2 DEF A, Recurs
  <1>3. ASSUME NEW n \in Nat, n # 0 PROVE R[n] = Leads(E, R[n - 1])
    <2>1. n - 1 \in Nat /\ n = (n - 1) + 1
      BY <1>3
    <2> QED BY <1>2, <2>1
  <1>4. Is(R)
    BY <1>2, <1>3
  <1>5. Is(Round)
    <2> HIDE DEF Is
    <2> QED BY <1>4
  <1>6. Reached(E, S) = Round[Cardinality(E)]
    BY DEF Reached, Leads
  <1>7. Round[0] = S /\ \A n \in Nat : Round[n + 1] = Leads(E, Round[n])
    <2> HIDE DEF Round
    <2>1. ASSUME NEW n \in Nat PROVE Round[n + 1] = Leads(E, Round[n])
      <3>1. n + 1 \in Nat /\ n + 1 # 0 /\ (n + 1) - 1 = n
        OBVIOUS
      <3> QED BY <1>5, <3>1
    <2> QED BY <1>5, <2>1
  <1> QED
    BY <1>6, <1>7

\* Every round that is not closed takes another edge, so that as many rounds as
\* there are edges close the search.
LEMMA ReachedClosed ==
    ASSUME NEW E, IsFiniteSet(E), NEW S
    PROVE  /\ S \subseteq Reached(E, S)
           /\ \A e \in E : e[1] \in Reached(E, S) => e[2] \in Reached(E, S)
  <1>1. PICK R : /\ R[0] = S /\ \A n \in Nat : R[n + 1] = Leads(E, R[n])
                 /\ Reached(E, S) = R[Cardinality(E)]
    BY RoundsOf
  <1> DEFINE Saturated(V) == \A e \in E : e[1] \in V => e[2] \in V
             Taken(n) == {e \in E : e[1] \in R[n] /\ e[2] \in R[n]}
             T == {n \in Nat : S \subseteq R[n] /\ (Saturated(R[n]) \/ Cardinality(Taken(n)) >= n)}
  <1>2. \A n \in Nat : IsFiniteSet(Taken(n)) /\ Cardinality(Taken(n)) \in Nat
    BY FS_Subset, FS_CardinalityType
  <1>3. 0 \in T
    <2>1. S \subseteq R[0] /\ Cardinality(Taken(0)) \in Nat
      BY <1>1, <1>2
    <2>2. Cardinality(Taken(0)) >= 0
      <3> HIDE DEF Taken
      <3> QED BY <2>1
    <2> QED BY <2>1, <2>2
  <1>4. ASSUME NEW n \in T PROVE n + 1 \in T
    <2>1. R[n + 1] = Leads(E, R[n]) /\ R[n] \subseteq R[n + 1] /\ n + 1 \in Nat
      BY <1>1 DEF Leads
    <2>2. CASE Saturated(R[n])
      <3>1. R[n + 1] = R[n]
        BY <2>1, <2>2 DEF Leads
      <3> QED
        BY <2>1, <2>2, <3>1
    <2>3. CASE ~ Saturated(R[n])
      <3>1. PICK e \in E : e[1] \in R[n] /\ e[2] \notin R[n]
        BY <2>3
      <3>2. e \in Taken(n + 1) /\ e \notin Taken(n) /\ Taken(n) \subseteq Taken(n + 1)
        BY <2>1, <3>1 DEF Leads
      <3>3. Cardinality(Taken(n)) < Cardinality(Taken(n + 1))
        <4> HIDE DEF Taken
        <4>1. IsFiniteSet(Taken(n + 1)) /\ IsFiniteSet(Taken(n))
          BY <1>2, <2>1
        <4>2. Cardinality(Taken(n)) <= Cardinality(Taken(n + 1))
              /\ (Cardinality(Taken(n)) = Cardinality(Taken(n + 1)) => Taken(n) = Taken(n + 1))
          BY <3>2, <4>1, FS_Subset
        <4> QED
          BY <1>2, <2>1, <3>2, <4>2
      <3>4. Cardinality(Taken(n)) \in Nat /\ Cardinality(Taken(n + 1)) \in Nat
        BY <1>2, <2>1
      <3>5. Cardinality(Taken(n)) >= n
        BY <2>3
      <3>6. Cardinality(Taken(n + 1)) >= n + 1
        <4> HIDE DEF Taken
        <4> QED BY <3>3, <3>4, <3>5
      <3> QED
        BY <2>1, <3>6
    <2> QED BY <2>2, <2>3
  <1>5. T = Nat
    <2> HIDE DEF T
    <2>1. T \subseteq Nat BY DEF T
    <2> QED BY <1>3, <1>4, <2>1, NumberSet
  <1>6. Cardinality(E) \in Nat
    BY FS_CardinalityType
  <1>7. Saturated(R[Cardinality(E)]) /\ S \subseteq R[Cardinality(E)]
    <2>1. Cardinality(E) \in T
      BY <1>5, <1>6
    <2>2. CASE Cardinality(Taken(Cardinality(E))) >= Cardinality(E)
      <3>1. Taken(Cardinality(E)) = E
        <4>1. Taken(Cardinality(E)) \subseteq E
          OBVIOUS
        <4>2. Cardinality(Taken(Cardinality(E))) \in Nat
          BY <1>2, <1>6
        <4> HIDE DEF Taken
        <4>3. Cardinality(Taken(Cardinality(E))) <= Cardinality(E)
              /\ (Cardinality(Taken(Cardinality(E))) = Cardinality(E) => Taken(Cardinality(E)) = E)
          BY <4>1, FS_Subset
        <4> QED BY <1>6, <2>2, <4>2, <4>3
      <3> QED BY <2>1, <3>1
    <2> QED BY <2>1, <2>2
  <1> QED
    BY <1>1, <1>7

\* Nothing is reached that a set which holds S and is closed does not hold.
LEMMA ReachedLeast ==
    ASSUME NEW E, IsFiniteSet(E), NEW S, NEW V, S \subseteq V, \A e \in E : e[1] \in V => e[2] \in V
    PROVE  Reached(E, S) \subseteq V
  <1>1. PICK R : /\ R[0] = S /\ \A n \in Nat : R[n + 1] = Leads(E, R[n])
                 /\ Reached(E, S) = R[Cardinality(E)]
    BY RoundsOf
  <1> DEFINE T == {n \in Nat : R[n] \subseteq V}
  <1>2. 0 \in T
    BY <1>1
  <1>3. ASSUME NEW n \in T PROVE n + 1 \in T
    BY <1>1 DEF Leads
  <1>4. T = Nat
    <2> HIDE DEF T
    <2>1. T \subseteq Nat BY DEF T
    <2> QED BY <1>2, <1>3, <2>1, NumberSet
  <1>5. Cardinality(E) \in Nat
    BY FS_CardinalityType
  <1> QED
    BY <1>1, <1>4, <1>5

LEMMA ReversedFinite ==
    ASSUME NEW E, IsFiniteSet(E) PROVE IsFiniteSet(Reversed(E))
  <1> DEFINE turn == [e \in E |-> <<e[2], e[1]>>]
  <1>1. turn \in Surjection(E, Reversed(E))
    BY DEF Surjection, Reversed
  <1> QED
    BY <1>1, FS_Surjection

\* The frames that a search of the reversed edges finds lead back to its start.
LEMMA ReversedReach ==
    ASSUME NEW E, IsFiniteSet(E), NEW x, NEW a, a \in Reached(Reversed(E), {x})
    PROVE  x \in Reached(E, {a})
  <1> DEFINE V == {y \in {x} \cup {e[1] : e \in E} : x \in Reached(E, {y})}
  <1>1. {x} \subseteq V
    BY ReachedClosed
  <1>2. ASSUME NEW e \in E, e[2] \in V PROVE e[1] \in V
    <2>1. {e[2]} \subseteq Reached(E, {e[1]})
      BY ReachedClosed
    <2>2. Reached(E, {e[2]}) \subseteq Reached(E, {e[1]})
      <3> DEFINE W == Reached(E, {e[1]})
      <3>1. \A d \in E : d[1] \in W => d[2] \in W
        BY ReachedClosed
      <3>2. {e[2]} \subseteq W
        BY <1>2, <2>1, <3>1
      <3> HIDE DEF W
      <3>3. Reached(E, {e[2]}) \subseteq W
        BY <3>1, <3>2, ReachedLeast
      <3> QED BY <3>3 DEF W
    <2> QED BY <1>2, <2>2
  <1>3. \A e \in Reversed(E) : e[1] \in V => e[2] \in V
    <2> HIDE DEF V
    <2> QED BY <1>2 DEF Reversed
  <1>4. Reached(Reversed(E), {x}) \subseteq V
    <2> HIDE DEF V
    <2> QED BY <1>1, <1>3, ReversedFinite, ReachedLeast
  <1> QED BY <1>4

\* All tool roots are below the base when one is.
LEMMA RootsBelowBase ==
    ASSUME NEW E, NEW root \in ToolRoots(E), hasAncestorFrame(root, DEFAULT_POSE_FRAME_ID, E)
    PROVE  \A x \in ToolRoots(E) :
             hasAncestorFrame(x, DEFAULT_POSE_FRAME_ID, E) /\ x # DEFAULT_POSE_FRAME_ID
  <1>1. DEFAULT_POSE_FRAME_ID[2] # "tool0"
    BY DEF DEFAULT_POSE_FRAME_ID
  <1> QED
    BY <1>1 DEF ToolRoots

\* The offered tool frames are below the base, and each is the end of an edge.
LEMMA OfferedBelowBase ==
    ASSUME NEW E, IsFiniteSet(E), NEW root \in ToolRoots(E),
           hasAncestorFrame(root, DEFAULT_POSE_FRAME_ID, E)
    PROVE  /\ collectToolFramesFromTransforms(E) \subseteq Reached(E, {DEFAULT_POSE_FRAME_ID})
           /\ collectToolFramesFromTransforms(E) \subseteq {e[2] : e \in E}
  <1> DEFINE base == DEFAULT_POSE_FRAME_ID
             V == Reached(E, {base})
             ends == {e[2] : e \in E}
  <1>1. collectToolFramesFromTransforms(E) = Reached(E, ToolRoots(E))
    BY DEF collectToolFramesFromTransforms
  <1>2. base \in V /\ \A e \in E : e[1] \in V => e[2] \in V
    BY ReachedClosed
  <1>3. ToolRoots(E) \subseteq V
    BY RootsBelowBase, ReversedReach DEF hasAncestorFrame
  <1>4. V \subseteq {base} \cup ends
    <2> DEFINE W == {base} \cup ends
    <2>1. {base} \subseteq W /\ \A e \in E : e[1] \in W => e[2] \in W
      OBVIOUS
    <2> HIDE DEF W
    <2>2. Reached(E, {base}) \subseteq W
      BY <2>1, ReachedLeast
    <2> QED BY <2>2 DEF W
  <1>5. ToolRoots(E) \subseteq ends
    BY <1>3, <1>4, RootsBelowBase
  <1>6. Reached(E, ToolRoots(E)) \subseteq V
    <2> HIDE DEF V
    <2> QED BY <1>2, <1>3, ReachedLeast
  <1>7. Reached(E, ToolRoots(E)) \subseteq ends
    <2>1. \A e \in E : e[2] \in ends
      OBVIOUS
    <2> HIDE DEF ends
    <2> QED BY <1>5, <2>1, ReachedLeast
  <1> QED
    BY <1>1, <1>6, <1>7

\* The search in either direction finds at least what the one along the edges finds.
LEMMA EitherDirection ==
    ASSUME NEW E, IsFiniteSet(E), NEW from, NEW to, to \in Reached(E, {from})
    PROVE  resolveTransformBetweenFrames(E, from, to)
  <1> DEFINE latest == {e \in E : e[1] # e[2]}
             V == Reached(latest \cup Reversed(latest), {from})
  <1>1. IsFiniteSet(latest \cup Reversed(latest))
    <2>1. IsFiniteSet(latest)
      BY FS_Subset
    <2> HIDE DEF latest
    <2> QED BY <2>1, ReversedFinite, FS_Union
  <1>2. from \in V /\ \A e \in latest \cup Reversed(latest) : e[1] \in V => e[2] \in V
    <2> HIDE DEF latest
    <2> QED BY <1>1, ReachedClosed
  <1>3. \A e \in E : e[1] \in V => e[2] \in V
    <2> HIDE DEF V
    <2> QED BY <1>2
  <1>4. Reached(E, {from}) \subseteq V
    <2> HIDE DEF V
    <2> QED BY <1>2, <1>3, ReachedLeast
  <1> QED
    BY <1>4 DEF resolveTransformBetweenFrames

\* The selected tool of those that go by its name is that tool.
LEMMA ExactTool ==
    ASSUME NEW tool, NEW target, tool # NoFrame, NEW e \in Transforms, e[2] = tool
    PROVE  selectedToolTransform(tool, target) = {tool}
  BY DEF selectedToolTransform, FromTarget

Contexts == [robot : Robots \cup {NoRobot}, robots : BOOLEAN,
             asked : SUBSET Robots, answered : SUBSET Robots,
             live : Robots \cup {NoRobot}, panel : BOOLEAN,
             captured : {<<>>} \cup ({"joint_state", "odometry.pose"} \X Robots)]

\* Once the selected robot has answered, the context has its telemetry.
InStep(c) == c \in Contexts /\ (c.robot \in c.answered => c.live = c.robot)
CaptureInv == sends \in [Robots -> Telemetry] /\ InStep(context)

LEMMA TransformsNamed ==
    ASSUME CaptureInv
    PROVE  IsFiniteSet(Transforms) /\ \A e \in Transforms : NoFrame \notin {e[1], e[2]}
  <1> DEFINE r == Part(HasTransforms)
  <1>1. r \in Robots \cup {NoRobot}
    BY DEF CaptureInv, InStep, Contexts, Part, Shown
  <1>2. Transforms = IF r = NoRobot THEN {} ELSE sends[r].transforms
    BY DEF Transforms
  <1> HIDE DEF r
  <1>3. CASE r = NoRobot
    BY <1>2, <1>3, FS_EmptySet
  <1>4. CASE r # NoRobot
    <2>1. sends[r] \in Telemetry
      BY <1>1, <1>4 DEF CaptureInv
    <2> QED
      BY <1>2, <1>4, <2>1, TelemetryAssumption
  <1> QED
    BY <1>3, <1>4

LEMMA ToolsCapturable == ASSUME CaptureInv PROVE ToolCapturable
  <1> SUFFICES ASSUME NEW root \in ToolRoots(Transforms),
                      hasAncestorFrame(root, DEFAULT_POSE_FRAME_ID, Transforms),
                      NEW t \in collectToolFramesFromTransforms(Transforms)
               PROVE  /\ resolveTransformBetweenFrames(Transforms, DEFAULT_POSE_FRAME_ID, t)
                      /\ selectedToolTransform(t, DEFAULT_POSE_FRAME_ID) = {t}
    BY DEF ToolCapturable
  <1>1. IsFiniteSet(Transforms) /\ \A e \in Transforms : NoFrame # e[2]
    BY TransformsNamed
  <1>2. t \in Reached(Transforms, {DEFAULT_POSE_FRAME_ID}) /\ \E e \in Transforms : e[2] = t
    BY <1>1, OfferedBelowBase
  <1>3. t # NoFrame
    BY <1>1, <1>2
  <1> QED
    BY <1>1, <1>2, <1>3, EitherDirection, ExactTool

LEMMA PosesSound ==
    ASSUME NEW f, NEW p \in livePoseContext(f)
    PROVE  /\ Stamped(f) => p[3] = frameId(f) \/ p = Live(p[2], NoFrame, NoFrame)
           /\ LET tool == extractToolFrameFromParams
              IN tool # NoFrame /\ (\E e \in Transforms : e[2] = tool) => p[4] = tool
  <1> DEFINE target == frameId(f)
             tool == extractToolFrameFromParams
             chosen == selectedToolTransform(tool, target)
             auto == autoToolTransform(target)
             chained(S) == {Live(toEditorTelemetry.transforms, target, to) :
                              to \in {x \in S : resolveTransformBetweenFrames(Transforms, target, x)}}
             r == toEditorTelemetry.odometry
             odometry == IF r = NoRobot THEN {}
                         ELSE {Live(r, x, NoFrame) :
                                 x \in {y \in sends[r].odometry : Stamped(f) => y \in {NoFrame, target}}}
  <1>1. /\ chosen # {} => p \in chained(chosen)
        /\ chosen = {} => p \in chained(auto) \cup odometry
    BY DEF livePoseContext
  <1>2. ASSUME NEW S, p \in chained(S) PROVE p[3] = target /\ p[4] \in S
    BY <1>2 DEF Live
  <1>3. p \in odometry /\ Stamped(f) => p[3] = target \/ p = Live(p[2], NoFrame, NoFrame)
    BY DEF Live
  <1>4. ASSUME tool # NoFrame, NEW e \in Transforms, e[2] = tool PROVE p[4] = tool
    <2>1. chosen = {tool}
      BY <1>4, ExactTool
    <2> HIDE DEF chosen, chained
    <2> QED BY <1>1, <1>2, <2>1
  <1> HIDE DEF chosen, chained, auto, odometry, target, tool
  <1>5. Stamped(f) => p[3] = target \/ p = Live(p[2], NoFrame, NoFrame)
    BY <1>1, <1>2, <1>3
  <1> QED
    BY <1>4, <1>5 DEF target, tool

LEMMA CaptureInvSound == CaptureInv => CaptureSound
  <1> SUFFICES ASSUME CaptureInv PROVE CaptureSound
    OBVIOUS
  <1>1. ASSUME Shown # NoRobot, NEW part \in DOMAIN toEditorTelemetry
        PROVE  toEditorTelemetry[part] \in {Shown, NoRobot}
    <2>1. context.live = Shown
      BY <1>1 DEF CaptureInv, InStep, Shown
    <2> QED
      BY <1>1, <2>1 DEF toEditorTelemetry, Part
  <1> QED
    BY <1>1, PosesSound, ToolsCapturable DEF CaptureSound

\* The effects of a render bring the context in step, whatever was done to it.
LEMMA SetInStep ==
    ASSUME NEW c \in Contexts, NEW open
    PROVE  InStep(Polled(FirstSelected(Synced(c)), open))
  <1>1. ASSUME NEW d \in Contexts PROVE InStep(Synced(d))
    BY DEF Synced, InStep, Contexts
  <1>2. ASSUME NEW d, InStep(d) PROVE InStep(FirstSelected(d))
    <2>1. CASE d.robots /\ d.robot = NoRobot /\ Robots # {}
      <3>1. [d EXCEPT !.robot = CHOOSE r \in Robots : TRUE] \in Contexts
        BY <1>2, <2>1 DEF InStep, Contexts
      <3> QED BY <1>1, <2>1, <3>1 DEF FirstSelected
    <2> QED BY <1>2, <2>1 DEF FirstSelected
  <1>3. ASSUME NEW d, InStep(d) PROVE InStep(Polled(d, open))
    BY <1>3 DEF InStep, Contexts, Polled
  <1> QED
    BY <1>1, <1>2, <1>3

LEMMA PollInStep ==
    ASSUME NEW c, InStep(c), NEW open PROVE InStep(Polled(c, open))
  BY DEF InStep, Contexts, Polled

LEMMA CaptureInitOK == ParametersInit => CaptureInv
  BY ParametersAssumption DEF ParametersInit, CaptureInv, InStep, Contexts

FieldActions(f) ==
    \/ switchToConstant(f) \/ switchToBinding(f) \/ switchToRuntimeBinding(f)
    \/ chooseExpression(f)
    \/ \E s \in Steps, i \in 1 .. 2 : selectField(f, s, i)
    \/ PrimitiveEditor(f) \/ StdPrimitiveMessageEditor(f) \/ handleToolFrameChange(f)
    \/ ArrayEditorWithBinding(f) \/ JointArrayEditorWithBinding(f) \/ TwistEditor(f)
    \/ JointStateEditor(f) \/ JsonEditor(f) \/ PoseEditorWithBinding(f)

\* Whatever the user does to a field, the telemetry is left alone.
LEMMA FieldsLeaveTelemetry ==
    ASSUME NEW f, FieldActions(f) PROVE UNCHANGED <<context, sends>>
  <1>1. ASSUME NEW n, SetNode(n) PROVE UNCHANGED <<context, sends>>
    BY <1>1 DEF SetNode
  <1>2. ASSUME NEW v, updateParam(f, v) PROVE UNCHANGED <<context, sends>>
    BY <1>1, <1>2 DEF updateParam
  <1>3. ASSUME NEW v, updateFieldSource(f, v) PROVE UNCHANGED <<context, sends>>
    BY <1>1, <1>3 DEF updateFieldSource
  <1>4. ASSUME NEW v, setConstant(f, v) PROVE UNCHANGED <<context, sends>>
    BY <1>2, <1>4 DEF setConstant
  <1>5. CASE bindFirstStep(f)
    BY <1>3, <1>5 DEF bindFirstStep
  <1>6. CASE addElement(f) \/ removeElement(f) \/ updateElement(f)
    BY <1>4, <1>6 DEF addElement, removeElement, updateElement
  <1>7. CASE \/ switchToConstant(f) \/ switchToBinding(f) \/ switchToRuntimeBinding(f)
             \/ chooseExpression(f)
             \/ \E s \in Steps, i \in 1 .. 2 : selectField(f, s, i)
    BY <1>3, <1>7 DEF switchToConstant, switchToBinding, switchToRuntimeBinding,
                      chooseExpression, selectField
  <1>8. CASE PrimitiveEditor(f) \/ StdPrimitiveMessageEditor(f) \/ handleToolFrameChange(f)
    BY <1>4, <1>8 DEF PrimitiveEditor, StdPrimitiveMessageEditor, handleToolFrameChange
  <1>9. CASE ArrayEditorWithBinding(f)
    BY <1>5, <1>6, <1>9 DEF ArrayEditorWithBinding, NumericArrayEditor, StringArrayEditor
  <1>10. CASE JointArrayEditorWithBinding(f)
    BY <1>4, <1>5, <1>6, <1>10 DEF JointArrayEditorWithBinding, JointArrayEditor, CaptureJoints
  <1>11. CASE TwistEditor(f) \/ JsonEditor(f)
    BY <1>4, <1>11 DEF TwistEditor, JsonEditor
  <1>12. CASE JointStateEditor(f)
    BY <1>4, <1>5, <1>12
       DEF JointStateEditor, handleCaptureJointState, startManualInput, updateManualJointPosition
  <1>13. CASE PoseEditorWithBinding(f)
    BY <1>4, <1>5, <1>13
       DEF PoseEditorWithBinding, PoseEditor, handleCapture, updatePosition, updateOrientation,
           updateFrameId, handleJsonChange
  <1> QED
    BY <1>7, <1>8, <1>9, <1>10, <1>11, <1>12, <1>13 DEF FieldActions

LEMMA CaptureNextOK == CaptureInv /\ [ParametersNext]_paramVars => CaptureInv'
  <1> SUFFICES ASSUME CaptureInv, [ParametersNext]_paramVars PROVE CaptureInv'
    OBVIOUS
  <1>0. sends \in [Robots -> Telemetry] /\ InStep(context) /\ context \in Contexts
    BY DEF CaptureInv, InStep
  <1>1. ASSUME NEW c \in Contexts, SetContext(c) PROVE CaptureInv'
    BY <1>0, <1>1, SetInStep DEF SetContext, CaptureInv
  <1>2. CASE RobotsListed \/ togglePanel \/ clearCapturedValue
    <2>1. CASE RobotsListed
      <3>1. [context EXCEPT !.robots = TRUE] \in Contexts
        BY <1>0 DEF Contexts
      <3> QED BY <1>1, <2>1, <3>1 DEF RobotsListed
    <2>2. CASE togglePanel
      <3>1. [context EXCEPT !.panel = ~ @] \in Contexts
        BY <1>0 DEF Contexts
      <3> QED BY <1>1, <2>2, <3>1 DEF togglePanel
    <2>3. CASE clearCapturedValue
      <3>1. [context EXCEPT !.captured = <<>>] \in Contexts
        BY <1>0 DEF Contexts
      <3> QED BY <1>1, <2>3, <3>1 DEF clearCapturedValue
    <2> QED BY <1>2, <2>1, <2>2, <2>3
  <1>3. CASE handleGoalSectionToggle
    BY <1>0, <1>3, PollInStep DEF handleGoalSectionToggle, CaptureInv
  <1>4. ASSUME NEW r \in Robots, TelemetryAnswered(r) PROVE CaptureInv'
    <2>1. [context EXCEPT !.answered = @ \cup {r}] \in Contexts
      BY <1>0 DEF Contexts
    <2> QED BY <1>1, <1>4, <2>1 DEF TelemetryAnswered
  <1>5. ASSUME NEW r \in Robots \cup {NoRobot}, setSelectedRobotId(r) PROVE CaptureInv'
    <2>1. [context EXCEPT !.robot = r] \in Contexts
      BY <1>0 DEF Contexts
    <2> QED BY <1>1, <1>5, <2>1 DEF setSelectedRobotId
  <1>6. ASSUME NEW type \in {"joint_state", "odometry.pose"}, PanelCapture(type) PROVE CaptureInv'
    <2>1. Shown \in Robots
      BY <1>0, <1>6 DEF PanelCapture, Shown, Contexts
    <2>2. [context EXCEPT !.captured = <<type, Shown>>] \in Contexts
      BY <1>0, <2>1 DEF Contexts
    <2> QED BY <1>1, <1>6, <2>2 DEF PanelCapture
  <1>7. ASSUME NEW ok \in BOOLEAN, SchemaAnswered(ok) PROVE CaptureInv'
    BY <1>0, <1>7, PollInStep DEF SchemaAnswered, CaptureInv
  <1>8. CASE UNCHANGED <<context, sends>>
    BY <1>0, <1>8 DEF CaptureInv
  <1>9. ASSUME NEW s \in Steps, StepSchemaAnswered(s) \/ removeStep(s) \/ renameStep(s)
        PROVE  UNCHANGED <<context, sends>>
    BY <1>9 DEF StepSchemaAnswered, removeStep, renameStep
  <1>10. CASE UNCHANGED paramVars
    BY <1>8, <1>10 DEF paramVars
  <1>11. ParametersNext =>
           \/ RobotsListed \/ togglePanel \/ clearCapturedValue
           \/ handleGoalSectionToggle
           \/ \E r \in Robots : TelemetryAnswered(r)
           \/ \E r \in Robots \cup {NoRobot} : setSelectedRobotId(r)
           \/ \E type \in {"joint_state", "odometry.pose"} : PanelCapture(type)
           \/ \E ok \in BOOLEAN : SchemaAnswered(ok)
           \/ \E s \in Steps : StepSchemaAnswered(s) \/ removeStep(s) \/ renameStep(s)
           \/ \E f \in DOMAIN node.params : FieldActions(f)
    BY DEF ParametersNext, FieldActions
  <1> QED
    BY <1>2, <1>3, <1>4, <1>5, <1>6, <1>7, <1>8, <1>9, <1>10, <1>11, FieldsLeaveTelemetry

\* What an editor captures is of the robot that is selected, once that robot has
\* answered, and of the tool that is chosen; it is in the frame its header names, or it
\* is odometry that names no frame; and every tool frame that is offered below the base
\* can be captured in the base, whatever transforms the robots send.
THEOREM CaptureSoundCorrect == Spec => []CaptureSound
  <1>1. Init => CaptureInv
    BY CaptureInitOK DEF Init
  <1>2. CaptureInv /\ [Next]_vars => CaptureInv'
    BY CaptureNextOK, ScreenSteps
  <1>3. CaptureInv => CaptureSound
    BY CaptureInvSound
  <1> QED
    BY <1>1, <1>2, <1>3, PTL DEF Spec

(***************************************************************************)
(* The fields of a node                                                    *)
(***************************************************************************)
\* A speed, if it has a value, is a number: the editors of other fields never get it.
Speeds == {EmptyValue} \cup {<<"number", n>> : n \in Nat}
Fielded(n) ==
    /\ DOMAIN n = {"params", "fieldSources"} /\ DOMAIN n.params = DOMAIN n.fieldSources
    /\ \A f \in DOMAIN n.params : isSpeedFactorField(f) => n.params[f] \in Speeds

\* What the effects of the editors bring about.
Settled(n) ==
    \A f \in DOMAIN n.params :
        /\ isToolFrameField(f) /\ ~ f.is_array => n.fieldSources[f] = NoSource
        /\ isSpeedFactorField(f) /\ n.fieldSources[f] = NoSource => n.params[f][2] \in 1 .. 10

FieldsInv == Fielded(node) /\ (FieldsShown(section) => Settled(node))

LEMMA Clamped ==
    ASSUME NEW v \in Speeds PROVE clampSpeedFactor(v) \in 1 .. 10
  <1>1. CASE v = EmptyValue
    BY <1>1 DEF clampSpeedFactor
  <1>2. CASE v # EmptyValue
    <2>1. v[2] \in Nat
      BY <1>2 DEF Speeds
    <2> QED BY <1>2, <2>1 DEF clampSpeedFactor
  <1> QED BY <1>1, <1>2

\* A tool frame is no speed.
LEMMA ToolNoSpeed == ASSUME NEW f, isToolFrameField(f) PROVE ~ isSpeedFactorField(f)
  BY DEF isToolFrameField, isSpeedFactorField

LEMMA Rendering ==
    ASSUME NEW n, Fielded(n), NEW open
    PROVE  Fielded(Rendered(n, open)) /\ (open => Settled(Rendered(n, open)))
  <1>1. CASE ~ open
    BY <1>1 DEF Rendered
  <1>2. CASE open
    <2> DEFINE S == [f \in DOMAIN n.fieldSources |-> IF isToolFrameField(f) /\ ~ f.is_array
                                                    THEN NoSource ELSE n.fieldSources[f]]
               P == [f \in DOMAIN n.params |-> IF isSpeedFactorField(f) /\ n.fieldSources[f] = NoSource
                                           THEN <<"number", clampSpeedFactor(n.params[f])>>
                                           ELSE n.params[f]]
               m == Rendered(n, open)
    <2>1. m = [n EXCEPT !.fieldSources = S, !.params = P]
      BY <1>2 DEF Rendered
    <2>2. DOMAIN m = {"params", "fieldSources"} /\ m.params = P /\ m.fieldSources = S
      BY <2>1 DEF Fielded
    <2> HIDE DEF m
    <2>3. DOMAIN P = DOMAIN n.params /\ DOMAIN S = DOMAIN n.params
      BY DEF Fielded
    <2>4. ASSUME NEW f \in DOMAIN n.params, isSpeedFactorField(f)
          PROVE  /\ P[f] \in Speeds
                 /\ S[f] = NoSource => P[f][2] \in 1 .. 10
      <3>1. n.params[f] \in Speeds
        BY <2>4 DEF Fielded
      <3>2. clampSpeedFactor(n.params[f]) \in 1 .. 10 BY <3>1, Clamped
      <3>3. S[f] = n.fieldSources[f]
        BY <2>3, <2>4, ToolNoSpeed DEF Fielded
      <3>4. CASE n.fieldSources[f] = NoSource
        <4> DEFINE c == clampSpeedFactor(n.params[f])
        <4>1. P[f] = <<"number", c>>
          BY <2>4, <3>4
        <4>2. c \in Nat /\ c \in 1 .. 10
          BY <3>2
        <4> HIDE DEF c, P
        <4>3. P[f] \in Speeds
          BY <4>1, <4>2 DEF Speeds
        <4>4. P[f][2] = c
          BY <4>1
        <4> QED BY <4>2, <4>3, <4>4
      <3>5. CASE n.fieldSources[f] # NoSource
        BY <2>4, <3>1, <3>3, <3>5
      <3> QED BY <3>4, <3>5
    <2>5. ASSUME NEW f \in DOMAIN n.params, isToolFrameField(f), ~ f.is_array
          PROVE  S[f] = NoSource
      BY <2>5 DEF Fielded
    <2> HIDE DEF S, P
    <2>6. Fielded(m)
      BY <2>2, <2>3, <2>4 DEF Fielded
    <2>7. Settled(m)
      BY <2>2, <2>3, <2>4, <2>5 DEF Settled
    <2> QED BY <2>6, <2>7 DEF m
  <1> QED BY <1>1, <1>2

\* Only the editor of primitives shows a speed.
LEMMA SpeedEditor ==
    ASSUME NEW f, isSpeedFactorField(f) PROVE Editor(f) \in {"primitive", "binding"}
  <1>1. ~ f.is_array /\ f.type \in {"float32", "float64", "int32", "int64"} /\ f.name = "speed_factor"
    BY DEF isSpeedFactorField, Floats, Ints
  <1>2. getStdPrimitiveWrapperType(f.type) = "none"
    BY <1>1 DEF getStdPrimitiveWrapperType, StdWrappers
  <1>3. getEditorType(f.type, f.is_array) = "primitive"
    BY <1>1, <1>2 DEF getEditorType
  <1>4. ~ isToolFrameField(f)
    BY <1>1 DEF isToolFrameField
  <1> QED BY <1>3, <1>4 DEF Editor

LEMMA SetNodeOK == ASSUME NEW n, Fielded(n), SetNode(n) PROVE FieldsInv'
  <1>1. node' = Rendered(n, FieldsShown(section)) /\ section' = section
    BY DEF SetNode
  <1>2. Fielded(node') /\ (FieldsShown(section) => Settled(node'))
    BY <1>1, Rendering
  <1> QED
    BY <1>1, <1>2 DEF FieldsInv, Fielded, Settled

LEMMA ParamSet ==
    ASSUME FieldsInv, NEW f, NEW v, isSpeedFactorField(f) => v \in Speeds, updateParam(f, v)
    PROVE  FieldsInv'
  <1> DEFINE P == [node.params EXCEPT ![f] = v]
             n == [node EXCEPT !.params = P]
  <1>1. SetNode(n)
    BY DEF updateParam
  <1>2. DOMAIN node = {"params", "fieldSources"} /\ DOMAIN node.params = DOMAIN node.fieldSources
        /\ \A g \in DOMAIN node.params : isSpeedFactorField(g) => node.params[g] \in Speeds
    BY DEF FieldsInv, Fielded
  <1>3. /\ DOMAIN n = {"params", "fieldSources"} /\ n.params = P
        /\ n.fieldSources = node.fieldSources
    BY <1>2
  <1>4. DOMAIN P = DOMAIN node.params
        /\ \A g \in DOMAIN P : P[g] = IF g = f THEN v ELSE node.params[g]
    OBVIOUS
  <1> HIDE DEF P, n
  <1>5. Fielded(n)
    BY <1>2, <1>3, <1>4 DEF Fielded
  <1> QED BY <1>1, <1>5, SetNodeOK

LEMMA SourceSet ==
    ASSUME FieldsInv, NEW f, NEW v, updateFieldSource(f, v) PROVE FieldsInv'
  <1> DEFINE S == [node.fieldSources EXCEPT ![f] = v]
             n == [node EXCEPT !.fieldSources = S]
  <1>1. SetNode(n)
    BY DEF updateFieldSource
  <1>2. DOMAIN node = {"params", "fieldSources"} /\ DOMAIN node.params = DOMAIN node.fieldSources
        /\ \A g \in DOMAIN node.params : isSpeedFactorField(g) => node.params[g] \in Speeds
    BY DEF FieldsInv, Fielded
  <1>3. /\ DOMAIN n = {"params", "fieldSources"} /\ n.params = node.params
        /\ n.fieldSources = S
    BY <1>2
  <1>4. DOMAIN S = DOMAIN node.fieldSources
    OBVIOUS
  <1> HIDE DEF S, n
  <1>5. Fielded(n)
    BY <1>2, <1>3, <1>4 DEF Fielded
  <1> QED BY <1>1, <1>5, SetNodeOK

\* Whatever the user does to a field leaves the fields as the editors keep them.
LEMMA FieldActionsOK ==
    ASSUME FieldsInv, NEW f, FieldActions(f) PROVE FieldsInv'
  <1>1. ASSUME NEW v, isSpeedFactorField(f) => v \in Speeds, setConstant(f, v) PROVE FieldsInv'
    BY <1>1, ParamSet DEF setConstant
  <1>2. ASSUME NEW v, ~ isSpeedFactorField(f), setConstant(f, v) PROVE FieldsInv'
    BY <1>1, <1>2
  <1>3. isSpeedFactorField(f) => Editor(f) \in {"primitive", "binding"}
    BY SpeedEditor
  <1>5. CASE bindFirstStep(f)
    BY <1>5, SourceSet DEF bindFirstStep
  <1>6. CASE ~ isSpeedFactorField(f) /\ (addElement(f) \/ removeElement(f) \/ updateElement(f))
    BY <1>2, <1>6 DEF addElement, removeElement, updateElement
  <1>7. CASE \/ switchToConstant(f) \/ switchToBinding(f) \/ switchToRuntimeBinding(f)
             \/ chooseExpression(f)
             \/ \E s \in Steps, i \in 1 .. 2 : selectField(f, s, i)
    BY SourceSet, <1>7 DEF switchToConstant, switchToBinding, switchToRuntimeBinding,
                      chooseExpression, selectField
  <1>8. CASE PrimitiveEditor(f)
    <2>1. CASE ~ isSpeedFactorField(f)
      BY <1>2, <1>8, <2>1 DEF PrimitiveEditor
    <2>2. CASE isSpeedFactorField(f)
      <3>1. PICK n \in {0, 5, 11} : setConstant(f, <<"number", clampSpeedFactor(<<"number", n>>)>>)
        BY <1>8, <2>2 DEF PrimitiveEditor
      <3> DEFINE v == <<"number", n>>
                 c == clampSpeedFactor(v)
      <3>2. v \in Speeds BY DEF Speeds
      <3>3. c \in 1 .. 10 BY <3>2, Clamped
      <3>4. <<"number", c>> \in Speeds
        <4> HIDE DEF c
        <4> QED BY <3>3 DEF Speeds
      <3> QED BY <1>1, <3>1, <3>4
    <2> QED BY <2>1, <2>2
  <1>9. CASE StdPrimitiveMessageEditor(f) \/ handleToolFrameChange(f)
    <2>1. ~ isSpeedFactorField(f)
      BY <1>3, <1>9 DEF StdPrimitiveMessageEditor, handleToolFrameChange
    <2> QED BY <1>2, <1>9, <2>1 DEF StdPrimitiveMessageEditor, handleToolFrameChange
  <1>10. CASE ArrayEditorWithBinding(f)
    <2>1. ~ isSpeedFactorField(f)
      BY <1>3, <1>10 DEF ArrayEditorWithBinding
    <2> QED BY <1>5, <1>6, <1>10, <2>1
            DEF ArrayEditorWithBinding, NumericArrayEditor, StringArrayEditor
  <1>11. CASE JointArrayEditorWithBinding(f)
    <2>1. ~ isSpeedFactorField(f)
      BY <1>3, <1>11 DEF JointArrayEditorWithBinding
    <2>2. CASE CaptureJoints(f)
      BY <1>2, <2>1, <2>2 DEF CaptureJoints
    <2> QED BY <1>5, <1>6, <1>11, <2>1, <2>2 DEF JointArrayEditorWithBinding, JointArrayEditor
  <1>12. CASE TwistEditor(f) \/ JsonEditor(f)
    <2>1. ~ isSpeedFactorField(f)
      BY <1>3, <1>12 DEF TwistEditor, JsonEditor
    <2> QED BY <1>2, <1>12, <2>1 DEF TwistEditor, JsonEditor
  <1>13. CASE JointStateEditor(f)
    <2>1. ~ isSpeedFactorField(f)
      BY <1>3, <1>13 DEF JointStateEditor
    <2> QED BY <1>2, <1>5, <1>13, <2>1
            DEF JointStateEditor, handleCaptureJointState, startManualInput, updateManualJointPosition
  <1>14. CASE PoseEditorWithBinding(f)
    <2>1. ~ isSpeedFactorField(f)
      BY <1>3, <1>14 DEF PoseEditorWithBinding
    <2>2. CASE handleCapture(f)
      BY <1>2, <2>1, <2>2 DEF handleCapture
    <2>3. CASE updatePosition(f) \/ updateOrientation(f)
      BY <1>2, <2>1, <2>3 DEF updatePosition, updateOrientation
    <2>4. CASE updateFrameId(f)
      BY <1>2, <2>1, <2>4 DEF updateFrameId
    <2>5. CASE handleJsonChange(f)
      BY <1>2, <2>1, <2>5 DEF handleJsonChange
    <2> QED BY <1>5, <1>14, <2>2, <2>3, <2>4, <2>5 DEF PoseEditorWithBinding, PoseEditor
  <1> QED
    BY <1>7, <1>8, <1>9, <1>10, <1>11, <1>12, <1>13, <1>14 DEF FieldActions

LEMMA FieldsInitOK == ParametersInit => FieldsInv
  <1> SUFFICES ASSUME ParametersInit PROVE FieldsInv
    OBVIOUS
  <1>1. PICK schema \in Schemas : node = StoredNode(schema)
    BY DEF ParametersInit
  <1>2. ASSUME NEW f \in DOMAIN node.params, isSpeedFactorField(f) PROVE node.params[f] \in Speeds
    <2>1. node.params[f] = <<"number", 20>>
      BY <1>1, <1>2 DEF StoredNode
    <2> QED BY <2>1 DEF Speeds
  <1>3. DOMAIN node = {"params", "fieldSources"} /\ DOMAIN node.params = DOMAIN node.fieldSources
    BY <1>1 DEF StoredNode
  <1>4. ~ FieldsShown(section)
    BY DEF ParametersInit, FieldsShown
  <1> QED BY <1>2, <1>3, <1>4 DEF FieldsInv, Fielded

LEMMA FieldsNextOK == FieldsInv /\ [ParametersNext]_paramVars => FieldsInv'
  <1> SUFFICES ASSUME FieldsInv, [ParametersNext]_paramVars PROVE FieldsInv'
    OBVIOUS
  <1>1. CASE UNCHANGED <<node, section>>
    BY <1>1 DEF FieldsInv, Fielded, Settled
  <1>2. CASE \/ RobotsListed \/ togglePanel \/ clearCapturedValue
             \/ \E r \in Robots : TelemetryAnswered(r)
             \/ \E r \in Robots \cup {NoRobot} : setSelectedRobotId(r)
             \/ \E type \in {"joint_state", "odometry.pose"} : PanelCapture(type)
    <2>1. ASSUME NEW c, SetContext(c) PROVE UNCHANGED <<node, section>>
      BY <2>1 DEF SetContext
    <2> QED BY <1>1, <1>2, <2>1 DEF RobotsListed, togglePanel, clearCapturedValue,
                 TelemetryAnswered, setSelectedRobotId, PanelCapture
  <1>3. CASE handleGoalSectionToggle \/ \E ok \in BOOLEAN : SchemaAnswered(ok)
    <2>1. node' = Rendered(node, FieldsShown(section'))
      BY <1>3 DEF handleGoalSectionToggle, SchemaAnswered
    <2>2. Fielded(node') /\ (FieldsShown(section') => Settled(node'))
      BY <2>1, Rendering DEF FieldsInv
    <2> QED BY <2>2 DEF FieldsInv, Fielded, Settled
  <1>4. CASE \E s \in Steps : StepSchemaAnswered(s) \/ removeStep(s) \/ renameStep(s)
    BY <1>1, <1>4 DEF StepSchemaAnswered, removeStep, renameStep
  <1>5. CASE UNCHANGED paramVars
    BY <1>1, <1>5 DEF paramVars
  <1>6. CASE \E f \in DOMAIN node.params : FieldActions(f)
    BY <1>6, FieldActionsOK
  <1>7. ParametersNext =>
           \/ RobotsListed \/ togglePanel \/ clearCapturedValue
           \/ handleGoalSectionToggle
           \/ \E r \in Robots : TelemetryAnswered(r)
           \/ \E r \in Robots \cup {NoRobot} : setSelectedRobotId(r)
           \/ \E type \in {"joint_state", "odometry.pose"} : PanelCapture(type)
           \/ \E ok \in BOOLEAN : SchemaAnswered(ok)
           \/ \E s \in Steps : StepSchemaAnswered(s) \/ removeStep(s) \/ renameStep(s)
           \/ \E f \in DOMAIN node.params : FieldActions(f)
    BY DEF ParametersNext, FieldActions
  <1> QED
    BY <1>2, <1>3, <1>4, <1>5, <1>6, <1>7

(***************************************************************************)
(* All screens                                                             *)
(***************************************************************************)
\* Every screen keeps its state of its type: the drawing, with its unsaved and its stored
\* parts; the rows, files and running handlers of the library; the dialog and the saves of a
\* planning task; the rows, files and operations on task sets; the telemetry context and the
\* fields of a node, a tool frame without source and a speed within its range while shown.
THEOREM TypeOKCorrect == Spec => []TypeOK
  <1> DEFINE Inv == GraphInv /\ LibInv /\ PlanInv /\ SetInv /\ CaptureInv /\ FieldsInv /\ screen \in Screens
  <1>1. Init => Inv
    BY GraphInitInv, LibInitOK, PlanInitOK, SetsInitOK, CaptureInitOK, FieldsInitOK DEF Init
  <1>2. Inv /\ [Next]_vars => Inv'
    <2>1. screen \in Screens /\ [Next]_vars => screen' \in Screens
      BY DEF Next, vars
    <2> QED BY <2>1, GraphStep, LibNextOK, PlanNextOK, SetsNextOK, CaptureNextOK, FieldsNextOK, ScreenSteps
  <1>3. Inv => TypeOK
    <2> SUFFICES ASSUME Inv PROVE TypeOK
      OBVIOUS
    <2>1. GraphTypeOK BY GraphTypes
    <2>2. ProfileTypeOK BY LibTypes
    <2>3. PlanningTypeOK
      BY DEF PlanInv, PlanTypes, Modals, Templates, PlanningTypeOK
    <2>4. SetsTypeOK BY SetInvTypes
    <2>5. ParametersTypeOK
      BY DEF CaptureInv, InStep, Contexts, FieldsInv, Fielded, Settled, ParametersTypeOK
    <2> QED BY <2>1, <2>2, <2>3, <2>4, <2>5 DEF TypeOK, Screens
  <1> QED
    BY <1>1, <1>2, <1>3, PTL DEF Spec
=============================================================================
