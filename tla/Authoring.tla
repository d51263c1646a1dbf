----------------------------- MODULE Authoring -----------------------------
(***************************************************************************)
(* The part of the web console that defines what robots do                 *)
(* (frontend/src/App.tsx): on the route /flows the canvas, the parameters  *)
(* of a node, the list of tasks and the dialog of planning tasks, on /pddl *)
(* the library of the task distributors.  The user works on one of them    *)
(* at a time, and each behaviour                                           *)
(* stays on the screen it begins with: a screen starts from nothing when   *)
(* it is mounted, and its Init admits what the server may hold by then.    *)
(* The rows that only other screens use are fixed.                         *)
(***************************************************************************)
EXTENDS TaskGraph, DistributorProfile, PlanningTask, TaskSets, NodeParameters

VARIABLE screen

Screens == {"canvas", "library", "planning task", "tasks", "parameters"}

vars == <<screen, graphVars, libVars, planVars, setVars, paramVars>>

Init ==
    /\ screen \in Screens
    /\ GraphInit /\ (screen # "canvas" => edges = <<>>)
    /\ ProfileInit /\ (screen # "library" => file = NoTd)
    /\ PlanningInit /\ (screen # "planning task" => kept = CHOOSE k \in Configured : TRUE)
    /\ SetsInit /\ (screen # "tasks" => tasks[CHOOSE t \in TaskIds : TRUE] # NoTask)
    /\ ParametersInit
    /\ screen # "parameters" => /\ DOMAIN node.params = CHOOSE schema \in Schemas : TRUE
                                /\ sends = [r \in Robots |-> CHOOSE t \in Telemetry : TRUE]

Next ==
    /\ UNCHANGED screen
    /\ \/ screen = "canvas" /\ GraphNext /\ UNCHANGED <<libVars, planVars, setVars, paramVars>>
       \/ screen = "library" /\ ProfileNext /\ UNCHANGED <<graphVars, planVars, setVars, paramVars>>
       \/ screen = "planning task" /\ PlanningNext
          /\ UNCHANGED <<graphVars, libVars, setVars, paramVars>>
       \/ screen = "tasks" /\ SetsNext /\ UNCHANGED <<graphVars, libVars, planVars, paramVars>>
       \/ screen = "parameters" /\ ParametersNext
          /\ UNCHANGED <<graphVars, libVars, planVars, setVars>>

Spec == Init /\ [][Next]_vars

\* The state of the screen that is open has its type.
TypeOK ==
    CASE screen = "canvas" -> GraphTypeOK
      [] screen = "library" -> ProfileTypeOK
      [] screen = "planning task" -> PlanningTypeOK
      [] screen = "tasks" -> SetsTypeOK
      [] screen = "parameters" -> ParametersTypeOK
=============================================================================
