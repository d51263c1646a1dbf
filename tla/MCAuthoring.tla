----------------------------- MODULE MCAuthoring -----------------------------
(***************************************************************************)
(* Stored tasks: none yet; a task stored by another program, without end   *)
(* states, with a success edge and a retry configuration; and two stored   *)
(* by the editor.  Goals of actions with every kind of field, and robots   *)
(* with a tool below base_link, with one in a namespace and one below      *)
(* base_link, and with a tool that no transform connects to the base; their*)
(* odometry names a frame, names none, or is not sent.                     *)
(***************************************************************************)
EXTENDS Authoring

CONSTANTS n1, n2, n3

Legacy ==
    << [id |-> n1, type |-> "action", ends |-> None, success |-> <<"idle">>,
        failure |-> <<>>, on_success |-> n2,
        on_failure |-> [next |-> n2, config |-> [retry |-> 3, backoff |-> 0]],
        on_outcomes |-> <<>>],
       [id |-> n2, type |-> "terminal", terminal_type |-> "success", alert |-> FALSE] >>

To(outcome, state, next) == [outcome |-> outcome, state |-> state, next |-> next]

Edited ==
    << [id |-> n1, type |-> "action", ends |-> DefaultEndStates, success |-> <<"idle">>,
        failure |-> <<"error">>, on_success |-> n2,
        on_failure |-> [next |-> n2, config |-> None],
        on_outcomes |-> << To("success", "idle", n2), To("failed", "error", n2),
                           To("aborted", "error", n3) >>],
       [id |-> n2, type |-> "terminal", terminal_type |-> "failure", alert |-> TRUE],
       [id |-> n3, type |-> "terminal", terminal_type |-> "success", alert |-> TRUE] >>

\* Two actions, the second of which may be retried.
Pair ==
    << [id |-> n1, type |-> "action", ends |-> DefaultEndStates, success |-> <<"idle">>,
        failure |-> <<"error">>, on_success |-> n2,
        on_failure |-> [next |-> None, config |-> None],
        on_outcomes |-> << To("success", "idle", n2) >>],
       [id |-> n2, type |-> "action", ends |-> DefaultEndStates, success |-> <<"idle">>,
        failure |-> <<"error">>, on_success |-> n1,
        on_failure |-> [next |-> n1, config |-> [retry |-> 0, backoff |-> 3]],
        on_outcomes |-> << To("success", "idle", n1) >>] >>

MCStored == {[steps |-> <<>>, entry |-> None], [steps |-> Legacy, entry |-> n1],
             [steps |-> Edited, entry |-> n1], [steps |-> Pair, entry |-> n2]}
Field(name, type, is_array) == [name |-> name, type |-> type, is_array |-> is_array]
MCSchemas ==
    {{Field("tool_frame", "string", FALSE), Field("target", "PoseStamped", FALSE)},
     {Field("toolframe", "StdString", FALSE), Field("goal", "Point", FALSE)},
     {Field("joints", "float64", TRUE), Field("state", "JointState", FALSE)},
     {Field("speed_factor", "float64", FALSE), Field("names", "string", TRUE),
      Field("label", "string", FALSE)},
     {Field("level", "StdFloat64", FALSE), Field("twist", "Twist", FALSE),
      Field("path", "Path", FALSE)}}

Global(base) == <<"", base>>
Arm(base) == <<"arm", base>>
MCTelemetry ==
    {[joints |-> {"j1", "j2"}, odometry |-> {Global("map")},
      transforms |-> {<<Global("base_link"), Global("tool0")>>, <<Global("tool0"), Global("gripper")>>}],
     [joints |-> {"j1"}, odometry |-> {NoFrame},
      transforms |-> {<<Arm("base_link"), Arm("tool0")>>, <<Arm("tool0"), Arm("gripper")>>,
                      <<Global("map"), Global("base_link")>>, <<Global("base_link"), Global("tool0")>>}],
     [joints |-> {}, odometry |-> {},
      transforms |-> {<<Global("map"), Global("base_link")>>, <<Global("tool0"), Global("gripper")>>}]}
MCSteps == {1, 2}
MCResults == << <<>>, <<"string", "float64">> >>
=============================================================================
