----------------------------- MODULE PlanningTask -----------------------------
(***************************************************************************)
(* The planning settings of a task as the editor's modal changes them      *)
(* (TaskPddlConfigModal in frontend/src/pages/ActionGraph/index.tsx):      *)
(* which task distributor the task uses, the states its conditions and     *)
(* results refer to, and the resources it requires.  The distributor's     *)
(* content is loaded while the modal is already open, what the distributor *)
(* lacks is filtered out when it arrives and again when the task is saved, *)
(* and the saved task is shown before the server has answered.             *)
(*                                                                         *)
(* A condition or effect is its field and its variable; operators and      *)
(* values, and the suggestions and defaults offered for them, are left     *)
(* out.  Holders are variables with a placeholder such as                  *)
(* {{resource.name}}.  The steps are saved with the task (EditorCanvas).   *)
(***************************************************************************)
EXTENDS Naturals, FiniteSets

CONSTANTS Tds,          \* ids of task distributors
          StateVars,    \* names of planning states
          Holders,      \* variables with a placeholder
          Tokens,       \* resource tokens, kind and id
          NoDistributor,  \* undefined
          MaxModalOps   \* bound: what the user and other clients do

ASSUME PlanningAssumption == NoDistributor \notin Tds /\ MaxModalOps \in Nat

Lists == {"preconditions", "result_states", "warning_result_states", "error_result_states"}
Messages == {"warning_message_variable", "error_message_variable"}
Fields == Lists \cup Messages
Refs == Fields \X (StateVars \cup Holders)
PlanningTaskSpec == [refs : SUBSET Refs, required_resources : SUBSET Tokens]
emptyPlanningTask == [refs |-> {}, required_resources |-> {}]
Contents == [states : SUBSET StateVars, tokens : SUBSET Tokens]

\* What is loaded of a distributor is not undefined.
ASSUME ContentAssumption == NoDistributor \notin Contents

VARIABLES modal,    \* the modal: distributor, local task, chosen resource; or closed
          full,     \* task-distributor-full: what is loaded of each distributor
          shown,    \* the template in the query cache
          kept,     \* the task on the server, and the distributors there
          saving,   \* saves under way
          promise,  \* history: what the user never gave up since the modal was opened
          modalOps

planVars == <<modal, full, shown, kept, saving, promise, modalOps>>

Closed == [open |-> FALSE, td |-> NoDistributor, spec |-> emptyPlanningTask,
           pending |-> {}, isSaving |-> FALSE]
Loaded(td) == td \in Tds /\ full[td] # NoDistributor

(***************************************************************************)
(* Filtering                                                               *)
(***************************************************************************)
containsPlanningPlaceholder(v) == v \in Holders
isPlanningStateReferenceAllowed(v, c) == v \in c.states \/ containsPlanningPlaceholder(v)

\* Resources are filtered only by a distributor that has any.
filterPlanningTaskForDistributor(spec, c) ==
    [refs |-> {r \in spec.refs : isPlanningStateReferenceAllowed(r[2], c)},
     required_resources |-> IF c.tokens = {} THEN spec.required_resources
                            ELSE spec.required_resources \cap c.tokens]

\* Mutant: a distributor that is still loading counts as an empty one.
FilterEffectWhileLoading(m) ==
    IF m.td = NoDistributor THEN [m EXCEPT !.spec = emptyPlanningTask, !.pending = {}]
    ELSE [m EXCEPT !.spec = filterPlanningTaskForDistributor(@,
              IF Loaded(m.td) THEN full[m.td] ELSE [states |-> {}, tokens |-> {}])]

\* The effect on the distributor and its content; nothing happens while it loads.
FilterEffect(m) ==
    IF m.td = NoDistributor THEN [m EXCEPT !.spec = emptyPlanningTask, !.pending = {}]
    ELSE IF ~ Loaded(m.td) THEN m
    ELSE [m EXCEPT !.spec = filterPlanningTaskForDistributor(@, full[m.td])]

ModalOp == modalOps < MaxModalOps /\ modalOps' = modalOps + 1
Set(m) == modal' = m /\ UNCHANGED <<full, shown, kept, saving>>

\* What a distributor that is loaded, or none, gives the user a reason to lose.
StillDue(refs, td, c) ==
    IF td = NoDistributor THEN {}
    ELSE IF c = NoDistributor THEN refs
    ELSE {r \in refs : isPlanningStateReferenceAllowed(r[2], c)}

(***************************************************************************)
(* The modal                                                               *)
(***************************************************************************)
openModal ==
    /\ ~ modal.open /\ ModalOp
    /\ LET m == [Closed EXCEPT !.open = TRUE, !.td = shown.td, !.spec = shown.spec]
       IN Set(FilterEffect(m))
    /\ promise' = StillDue(shown.spec.refs, shown.td,
                           IF Loaded(shown.td) THEN full[shown.td] ELSE NoDistributor)

closeModal == modal.open /\ Set(Closed) /\ promise' = {} /\ UNCHANGED modalOps

setSelectedDistributorId(td) ==
    /\ modal.open /\ modal.td # td /\ ModalOp
    /\ Set(FilterEffect([modal EXCEPT !.td = td]))
    /\ promise' = StillDue(promise, td, IF Loaded(td) THEN full[td] ELSE NoDistributor)

\* getFull of the modal's distributor, the first time or again.
DistributorLoaded ==
    /\ modal.open /\ modal.td # NoDistributor
    /\ full[modal.td] # kept.content[modal.td]
    /\ full' = [full EXCEPT ![modal.td] = kept.content[modal.td]]
    /\ modal' = [modal EXCEPT !.spec = filterPlanningTaskForDistributor(@, kept.content[modal.td])]
    /\ promise' = StillDue(promise, modal.td, kept.content[modal.td])
    /\ UNCHANGED <<shown, kept, saving, modalOps>>

\* handleAddPrecondition and its three siblings replace the entry of a variable.
\* Any text may be typed as a variable.
handleAddCondition(f, v) ==
    /\ modal.open /\ modal.td # NoDistributor /\ f \in Lists /\ ModalOp
    /\ Set([modal EXCEPT !.spec.refs = @ \cup {<<f, v>>}])
    /\ UNCHANGED promise

handleDeleteCondition(f, v) ==
    /\ modal.open /\ modal.td # NoDistributor /\ f \in Lists /\ <<f, v>> \in modal.spec.refs /\ ModalOp
    /\ Set([modal EXCEPT !.spec.refs = @ \ {<<f, v>>}])
    /\ promise' = promise \ {<<f, v>>}

setMessageVariable(f, v) ==
    /\ modal.open /\ modal.td # NoDistributor /\ f \in Messages /\ ModalOp
    /\ Set([modal EXCEPT !.spec.refs = {r \in @ : r[1] # f} \cup {<<f, v>>}])
    /\ promise' = {r \in promise : r[1] # f}

\* A resource is chosen from the loaded ones; the choice outlives a change of the
\* distributor, until it is added.
chooseResource(k) ==
    /\ modal.open /\ Loaded(modal.td) /\ k \in full[modal.td].tokens /\ modal.pending # {k}
    /\ ModalOp
    /\ Set([modal EXCEPT !.pending = {k}]) /\ UNCHANGED promise

handleAddRequiredResource ==
    /\ modal.open /\ modal.td # NoDistributor /\ modal.pending # {}
    /\ Set([modal EXCEPT !.spec.required_resources = @ \cup modal.pending, !.pending = {}])
    /\ UNCHANGED <<promise, modalOps>>

handleDeleteRequiredResource(k) ==
    /\ modal.open /\ modal.td # NoDistributor /\ k \in modal.spec.required_resources /\ ModalOp
    /\ Set([modal EXCEPT !.spec.required_resources = @ \ {k}]) /\ UNCHANGED promise

(***************************************************************************)
(* Saving                                                                  *)
(***************************************************************************)
SaveButton(m) == m.open /\ ~ m.isSaving /\ (m.td = NoDistributor \/ Loaded(m.td))

NextPlanningTask(m) ==
    IF m.td = NoDistributor THEN emptyPlanningTask
    ELSE filterPlanningTaskForDistributor(
             m.spec, IF Loaded(m.td) THEN full[m.td] ELSE [states |-> {}, tokens |-> {}])

\* The template of the cache is replaced at once and put back if the save fails.
savePlanningTask ==
    /\ SaveButton(modal) /\ ModalOp
    /\ LET next == [td |-> modal.td, spec |-> NextPlanningTask(modal)]
       IN /\ saving' = saving \cup {[next |-> next, previous |-> shown, promise |-> promise,
                                     content |-> IF Loaded(modal.td) THEN full[modal.td]
                                                 ELSE [states |-> {}, tokens |-> {}]]}
          /\ shown' = next
    /\ modal' = [modal EXCEPT !.isSaving = TRUE]
    /\ UNCHANGED <<full, kept, promise>>

\* The answer closes the modal, or leaves it open with the old template shown.  A
\* request without a distributor has no such field, and the server keeps the old one.
PlanningSaved(r) ==
    /\ saving' = saving \ {r}
    /\ kept' = [kept EXCEPT !.td = IF r.next.td = NoDistributor THEN @ ELSE r.next.td,
                            !.spec = r.next.spec]
    /\ modal' = Closed /\ promise' = {}
    /\ UNCHANGED <<full, shown, modalOps>>

PlanningSaveFails(r) ==
    /\ saving' = saving \ {r}
    /\ shown' = r.previous
    /\ modal' = [modal EXCEPT !.isSaving = FALSE]
    /\ UNCHANGED <<full, kept, promise, modalOps>>

TemplateRefetched ==
    /\ shown # [td |-> kept.td, spec |-> kept.spec]
    /\ shown' = [td |-> kept.td, spec |-> kept.spec]
    /\ UNCHANGED <<modal, full, kept, saving, promise, modalOps>>

\* The planning page moves the task to another distributor and leaves its
\* planning settings as they are; distributors are edited there too.
MovedElsewhere(td) ==
    /\ td # kept.td /\ ModalOp /\ kept' = [kept EXCEPT !.td = td]
    /\ UNCHANGED <<modal, full, shown, saving, promise>>

ContentEdited(td) ==
    /\ ModalOp
    /\ \E v \in StateVars : kept' = [kept EXCEPT !.content[td].states =
                                        IF v \in @ THEN @ \ {v} ELSE @ \cup {v}]
    /\ UNCHANGED <<modal, full, shown, saving, promise>>

(***************************************************************************)
(* Specification                                                           *)
(***************************************************************************)
\* Rows of a task that was configured for its distributor.
Configured ==
    {[td |-> x[1], content |-> x[2],
      spec |-> [refs |-> {<<f, x[3]>> : f \in {"preconditions", "error_message_variable"}}
                         \cup {<<"result_states", h>> : h \in Holders},
                required_resources |-> x[2][x[1]].tokens]] :
       x \in {y \in Tds \X [Tds -> Contents] \X StateVars :
                y[3] \in y[2][y[1]].states /\ y[2][y[1]].tokens # {}}}

PlanningInit ==
    /\ modal = Closed /\ saving = {} /\ promise = {} /\ modalOps = 0
    /\ full = [td \in Tds |-> NoDistributor]
    /\ kept \in Configured
    /\ shown = [td |-> kept.td, spec |-> kept.spec]

PlanningNext ==
    \/ openModal \/ closeModal \/ DistributorLoaded \/ handleAddRequiredResource
    \/ savePlanningTask \/ TemplateRefetched
    \/ \E td \in Tds \cup {NoDistributor} : setSelectedDistributorId(td)
    \/ \E td \in Tds : MovedElsewhere(td) \/ ContentEdited(td)
    \/ \E r \in Refs : handleAddCondition(r[1], r[2]) \/ handleDeleteCondition(r[1], r[2])
                       \/ setMessageVariable(r[1], r[2])
    \/ \E k \in Tokens : chooseResource(k) \/ handleDeleteRequiredResource(k)
    \/ \E r \in saving : PlanningSaved(r) \/ PlanningSaveFails(r)

(***************************************************************************)
(* Properties                                                              *)
(***************************************************************************)
PlanningTypeOK ==
    /\ modal.td \in Tds \cup {NoDistributor} /\ modal.spec \in PlanningTaskSpec
    /\ shown.spec \in PlanningTaskSpec /\ kept.spec \in PlanningTaskSpec
    /\ full \in [Tds -> Contents \cup {NoDistributor}]

\* A save sends every condition, result and message variable the task had when the
\* modal was opened that the user did not take out and that no distributor selected
\* and loaded meanwhile lacked: a slow load of the distributor never empties the
\* task.  And it sends nothing the distributor it is saved with lacks, as that was
\* loaded, except resources when the distributor has none at all.
SavedAsConfigured ==
    \A r \in saving :
        /\ r.promise \subseteq r.next.spec.refs
        /\ \A ref \in r.next.spec.refs : isPlanningStateReferenceAllowed(ref[2], r.content)
        /\ r.content.tokens # {} => r.next.spec.required_resources \subseteq r.content.tokens

=============================================================================
