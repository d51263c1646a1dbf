--------------------------- MODULE NodeParameters ---------------------------
(***************************************************************************)
(* The parameters of an action node, as they are edited on the canvas      *)
(* (frontend/src/pages/ActionGraph/nodes): each field of the goal has an   *)
(* editor that fits its type, and takes a constant, the result of another  *)
(* step or a variable of the execution.  Poses and joints may be captured  *)
(* from the telemetry of a robot, which is polled while the section is     *)
(* open and shared with the telemetry panel through a context.             *)
(*                                                                         *)
(* A frame is its namespace and its base name.  A coordinate is where it   *)
(* comes from: zero, typed by the user, or live, a robot's frame "to" seen *)
(* from its frame "from"; the arithmetic of transforms is left out.        *)
(***************************************************************************)
EXTENDS Naturals, Sequences, FiniteSets, FiniteSetsExt, SequencesExt

CONSTANTS Robots, NoRobot,
          Schemas,      \* sets of goal fields: what an action may ask for
          Steps,        \* the other action nodes of the canvas, numbered in order
          Results,      \* the types of the result fields of each of them
          Telemetry,    \* what a robot may send
          Joints,       \* FIXED_JOINT_ORDER
          MaxEdits      \* bound: what the user does

ASSUME ParametersAssumption ==
    NoRobot \notin Robots /\ MaxEdits \in Nat /\ Steps \subseteq Nat
    /\ Results \in [Steps -> Seq(STRING)]

VARIABLES node,     \* params and fieldSources of the node, and its goal fields
          section,  \* what is open and loaded of the goal section
          context,  \* the telemetry context, the queries it is fed from, the panel
          canvas,   \* the other steps: on the canvas, named, and their results
          sends,    \* the telemetry of each robot
          edits

paramVars == <<node, section, context, canvas, sends, edits>>

EmptyValue == <<>>
NoSource == <<>>
Zero == <<"zero">>
Typed == <<"typed">>
Live(r, from, to) == <<"live", r, from, to>>
NoFrame == <<"", "">>

\* A robot sends finitely many transforms; one that lacks a name is passed over
\* wherever transforms are read.  Its odometry is the frame that it names, {NoFrame}
\* if it names none, and {} if none is sent.
ASSUME TelemetryAssumption ==
    \A t \in Telemetry :
        /\ IsFiniteSet(t.transforms) /\ \A e \in t.transforms : NoFrame \notin {e[1], e[2]}
        /\ \A x, y \in t.odometry : x = y

DEFAULT_POSE_FRAME_ID == <<"", "base_link">>

(***************************************************************************)
(* Fields, editors and types                                               *)
(***************************************************************************)
Floats == {"float32", "float64"}
Ints == {"int32", "int64"}
StdWrappers == [StdString |-> "string", StdBool |-> "boolean", StdFloat64 |-> "number"]
getStdPrimitiveWrapperType(t) == IF t \in DOMAIN StdWrappers THEN StdWrappers[t] ELSE "none"

\* Arrays come first: an array of strings is no primitive.
getEditorType(t, isArray) ==
    CASE isArray /\ t \in Floats \cup {"StdFloat64"} -> "joint_array"
      [] isArray /\ t \in {"string", "StdString"} -> "string_array"
      [] isArray /\ t \notin Floats \cup {"StdFloat64", "string", "StdString"} -> "numeric_array"
      [] ~ isArray /\ getStdPrimitiveWrapperType(t) # "none" -> "std_primitive_msg"
      [] ~ isArray /\ t \in {"Pose", "PoseStamped"} -> "pose"
      [] ~ isArray /\ t \in {"Point", "PointStamped"} -> "point"
      [] ~ isArray /\ t = "Twist" -> "twist"
      [] ~ isArray /\ t = "JointState" -> "joint_state"
      [] ~ isArray /\ t \in {"Quaternion", "Header", "Path"} -> "json"
      [] OTHER -> "primitive"

isToolFrameField(f) == f.name \in {"tool_frame", "toolframe"}
\* The action is one of a manipulator: of others the speed is any number.
isSpeedFactorField(f) == f.name = "speed_factor" /\ f.type \in Floats \cup Ints /\ ~ f.is_array
Stamped(f) == f.type \in {"PoseStamped", "PointStamped"}

\* Which editor the factory shows: the tool frame before all, then a binding.
Editor(f) ==
    IF isToolFrameField(f) /\ ~ f.is_array THEN "tool_frame"
    ELSE IF node.fieldSources[f] # NoSource THEN "binding"
    ELSE getEditorType(f.type, f.is_array)

getTypeCategory(t) ==
    CASE t = "bool" -> "boolean" [] t \in Ints -> "integer" [] t \in Floats -> "float"
      [] t = "string" -> "string" [] OTHER -> "object"

\* Message types are all objects, of which no fields are known: any two fit.
\* The editors give the type of the target without its brackets, so that it is never
\* an array, and the elements of a source that is one decide.
checkTypeCompatibility(source, target) ==
    LET s == getTypeCategory(source)  t == getTypeCategory(target)
    IN s = t \/ (s \in {"integer", "float"} /\ t \in {"integer", "float"})

(***************************************************************************)
(* Transforms                                                              *)
(***************************************************************************)
\* The frames of S and those the edges E lead to from them.
Reached(E, S) ==
    LET Round[n \in Nat] ==
            IF n = 0 THEN S
            ELSE LET last == Round[n - 1]
                 IN last \cup {e[2] : e \in {x \in E : x[1] \in last}}
    IN Round[Cardinality(E)]

Reversed(E) == {<<e[2], e[1]>> : e \in E}
hasAncestorFrame(frame, ancestor, E) == ancestor \in Reached(Reversed(E), {frame})

\* tool0 below base_link, or any tool0, and all below it; tool0 is assumed when
\* only the base is known.
ToolRoots(E) ==
    LET frames == {e[1] : e \in E} \cup {e[2] : e \in E}
        candidates == {x \in frames : x[2] = "tool0"}
        roots == {x \in candidates : hasAncestorFrame(x, DEFAULT_POSE_FRAME_ID, E)}
    IN IF roots # {} THEN roots ELSE candidates

collectToolFramesFromTransforms(E) ==
    LET roots == ToolRoots(E)
    IN IF roots # {} THEN Reached(E, roots)
       ELSE IF \E e \in E, i \in {1, 2} : e[i][2] \in {"base_link", "base"} THEN {<<"", "tool0">>}
       ELSE {}

\* A chain of transforms in either direction; an edge from a frame to itself is dropped.
resolveTransformBetweenFrames(E, from, to) ==
    LET latest == {e \in E : e[1] # e[2]}
    IN from = to \/ to \in Reached(latest \cup Reversed(latest), {from})

isToolLikeFrame(frame) == frame[2] \in {"tool0", "gripper"}

(***************************************************************************)
(* Telemetry                                                               *)
(***************************************************************************)
\* The data of the query of the selected robot.
Shown == IF context.robot \in context.answered THEN context.robot ELSE NoRobot

\* Each part of the telemetry comes from the context if that has it, or from the query.
Part(has(_)) ==
    IF context.live # NoRobot /\ has(context.live) THEN context.live
    ELSE IF Shown # NoRobot /\ has(Shown) THEN Shown
    ELSE NoRobot
HasJoints(r) == sends[r].joints # {}
HasOdometry(r) == sends[r].odometry # {}
HasTransforms(r) == sends[r].transforms # {}
toEditorTelemetry ==
    [joint_state |-> Part(HasJoints), odometry |-> Part(HasOdometry), transforms |-> Part(HasTransforms)]

Transforms == LET r == Part(HasTransforms) IN IF r = NoRobot THEN {} ELSE sends[r].transforms
LiveJoints == LET r == Part(HasJoints) IN IF r = NoRobot THEN {} ELSE sends[r].joints

\* Mutant: what the context has stays.
SyncedOnce(c) ==
    [c EXCEPT !.live = IF @ = NoRobot /\ c.robot \in c.answered THEN c.robot ELSE @]

\* The effects that copy the telemetry of the selected robot to the context.
Synced(c) ==
    [c EXCEPT !.live = IF c.robot \in c.answered THEN c.robot
                       ELSE IF c.robot = NoRobot /\ c.panel THEN NoRobot
                       ELSE @]

\* The first robot is selected as soon as none is.
FirstSelected(c) ==
    IF c.robots /\ c.robot = NoRobot /\ Robots # {}
    THEN Synced([c EXCEPT !.robot = CHOOSE r \in Robots : TRUE]) ELSE c

Edit == edits < MaxEdits /\ edits' = edits + 1

\* The query of the selected robot is sent while the section or the panel is open, at
\* once and every half second; its answer may come when another robot is selected.
Polled(c, open) ==
    IF (open \/ c.panel) /\ c.robot # NoRobot THEN [c EXCEPT !.asked = @ \cup {c.robot}] ELSE c
SetContext(c) ==
    /\ context' = Polled(FirstSelected(Synced(c)), section.open)
    /\ UNCHANGED <<node, section, canvas, sends>>

setSelectedRobotId(r) ==
    /\ section.open \/ context.panel
    /\ r # context.robot /\ (r \in Robots => context.robots) /\ Edit
    /\ SetContext([context EXCEPT !.robot = r])

RobotsListed ==
    /\ section.open \/ context.panel
    /\ ~ context.robots
    /\ SetContext([context EXCEPT !.robots = TRUE]) /\ UNCHANGED edits

\* A query that fails is sent again, and what was answered before stays.
TelemetryAnswered(r) ==
    /\ r \in context.asked \ context.answered
    /\ SetContext([context EXCEPT !.answered = @ \cup {r}])
    /\ UNCHANGED edits

togglePanel == SetContext([context EXCEPT !.panel = ~ @]) /\ UNCHANGED edits

\* The panel keeps what it captures in the context, where no editor takes it from.
PanelCapture(type) ==
    /\ context.panel /\ Shown # NoRobot /\ Edit
    /\ IF type = "joint_state" THEN HasJoints(Shown) ELSE HasOdometry(Shown)
    /\ SetContext([context EXCEPT !.captured = <<type, Shown>>])

clearCapturedValue ==
    /\ context.panel /\ context.captured # <<>>
    /\ SetContext([context EXCEPT !.captured = <<>>]) /\ UNCHANGED edits

(***************************************************************************)
(* The node                                                                *)
(***************************************************************************)
clampSpeedFactor(v) ==
    IF v = EmptyValue THEN 10 ELSE IF v[2] > 10 THEN 10 ELSE IF v[2] < 1 THEN 1 ELSE v[2]

\* What the effects of the editors make of the node while they are shown: a tool
\* frame has no source, and a speed is within the range of its slider.
Rendered(n, shown) ==
    IF ~ shown THEN n
    ELSE [n EXCEPT
            !.fieldSources = [f \in DOMAIN @ |-> IF isToolFrameField(f) /\ ~ f.is_array
                                                 THEN NoSource ELSE @[f]],
            !.params = [f \in DOMAIN @ |-> IF isSpeedFactorField(f) /\ n.fieldSources[f] = NoSource
                                           THEN <<"number", clampSpeedFactor(@[f])>> ELSE @[f]]]

FieldsShown(s) == s.open /\ s.fields
SetNode(n) ==
    /\ node' = Rendered(n, FieldsShown(section)) /\ UNCHANGED <<section, context, canvas, sends>>
updateParam(f, v) == SetNode([node EXCEPT !.params[f] = v])
updateFieldSource(f, source) == SetNode([node EXCEPT !.fieldSources[f] = source])

handleGoalSectionToggle ==
    /\ section' = [section EXCEPT !.open = ~ @]
    /\ node' = Rendered(node, FieldsShown(section'))
    /\ context' = Polled(context, section'.open)
    /\ UNCHANGED <<canvas, sends, edits>>

\* The schema of the action arrives, or an error in its place; a node without
\* fields opens its section when it is selected.
SchemaAnswered(ok) ==
    /\ section.loading
    /\ \E selected \in BOOLEAN :
         section' = [open |-> section.open \/ (selected /\ ~ ok), fields |-> ok, loading |-> FALSE]
    /\ node' = Rendered(node, FieldsShown(section'))
    /\ context' = Polled(context, section'.open)
    /\ UNCHANGED <<canvas, sends, edits>>

\* The same for another step; after an error it has no results, as before the answer.
StepSchemaAnswered(s) ==
    /\ canvas[s].here /\ canvas[s].results = <<>> /\ Results[s] # <<>>
    /\ canvas' = [canvas EXCEPT ![s].results = Results[s]]
    /\ UNCHANGED <<node, section, context, sends, edits>>

\* Bindings to the step stay.
removeStep(s) ==
    /\ canvas[s].here /\ Edit /\ canvas' = [canvas EXCEPT ![s].here = FALSE]
    /\ UNCHANGED <<node, section, context, sends>>

\* A step whose job has no name is not offered.
renameStep(s) ==
    /\ canvas[s].here /\ Edit /\ canvas' = [canvas EXCEPT ![s].named = ~ @]
    /\ UNCHANGED <<node, section, context, sends>>

availableSteps == {s \in Steps : canvas[s].here /\ canvas[s].named}
hasBindableSteps == \E s \in availableSteps : canvas[s].results # <<>>
FirstField(s) == IF canvas[s].results = <<>> THEN 0 ELSE 1

(***************************************************************************)
(* Sources                                                                 *)
(***************************************************************************)
RuntimeBindings == {"${agent_name}", "${resource_name}"}

Selector(f) ==
    /\ FieldsShown(section)
    /\ Editor(f) \in {"primitive", "std_primitive_msg", "binding"} /\ Edit
BoundTo(f, source) == node.fieldSources[f] # NoSource /\ node.fieldSources[f][1] = source

switchToConstant(f) == Selector(f) /\ updateFieldSource(f, NoSource)

\* The first step is taken, even if it is another one that has results.
switchToBinding(f) ==
    /\ Selector(f) /\ hasBindableSteps /\ ~ BoundTo(f, "step_result")
    /\ updateFieldSource(f, <<"step_result", Min(availableSteps), FirstField(Min(availableSteps))>>)

\* A field whose type does not fit cannot be clicked.
selectField(f, s, i) ==
    /\ Selector(f) /\ BoundTo(f, "step_result")
    /\ s \in availableSteps /\ i \in 1 .. Len(canvas[s].results)
    /\ checkTypeCompatibility(canvas[s].results[i], f.type)
    /\ updateFieldSource(f, <<"step_result", s, i>>)

switchToRuntimeBinding(f) ==
    /\ Selector(f) /\ ~ BoundTo(f, "expression")
    /\ updateFieldSource(f, <<"expression", "${agent_name}">>)

\* One of the list, or any text.
chooseExpression(f) ==
    /\ Selector(f) /\ BoundTo(f, "expression")
    /\ \E e \in RuntimeBindings \cup {"typed"} : updateFieldSource(f, <<"expression", e>>)

\* The button below the editors of arrays, poses and joints.
bindFirstStep(f) ==
    /\ FieldsShown(section) /\ hasBindableSteps /\ Edit
    /\ LET s == Min({x \in availableSteps : canvas[x].results # <<>>})
       IN updateFieldSource(f, <<"step_result", s, 1>>)

(***************************************************************************)
(* Editors of constants                                                    *)
(***************************************************************************)
setConstant(f, v) == FieldsShown(section) /\ Edit /\ updateParam(f, v)

PrimitiveEditor(f) ==
    /\ Editor(f) = "primitive"
    /\ \/ ~ isSpeedFactorField(f) /\ setConstant(f, <<"plain", "typed">>)
       \/ isSpeedFactorField(f)
          /\ \E n \in {0, 5, 11} : setConstant(f, <<"number", clampSpeedFactor(<<"number", n>>)>>)

\* Always wrapped as {data: ...}.
StdPrimitiveMessageEditor(f) == Editor(f) = "std_primitive_msg" /\ setConstant(f, <<"data", "typed">>)

\* A string, or a wrapped one.
extractWrappedString(v) == IF v = EmptyValue THEN NoFrame ELSE v[2]
toolFrameOptions(f) ==
    collectToolFramesFromTransforms(Transforms)
    \cup ({extractWrappedString(node.params[f])} \ {NoFrame})

handleToolFrameChange(f) ==
    /\ Editor(f) = "tool_frame"
    /\ \E t \in toolFrameOptions(f) \cup {NoFrame} :
         LET wrapped == \/ getStdPrimitiveWrapperType(f.type) = "string"
                        \/ node.params[f] # EmptyValue /\ node.params[f][1] = "data"
         IN setConstant(f, <<IF wrapped THEN "data" ELSE "plain", t>>)

\* The tool frame the other editors go by; a field spelled toolframe is not looked at.
extractToolFrameFromParams ==
    LET chosen == {f \in DOMAIN node.params :
                     f.name = "tool_frame" /\ node.params[f] # EmptyValue
                     /\ extractWrappedString(node.params[f]) # NoFrame}
    IN IF chosen = {} THEN NoFrame ELSE extractWrappedString(node.params[CHOOSE f \in chosen : TRUE])

ArrayOf(f) == IF node.params[f] = EmptyValue THEN <<>> ELSE node.params[f][2]
addElement(f) == setConstant(f, <<"array", Append(ArrayOf(f), Zero)>>)
removeElement(f) == \E i \in 1 .. Len(ArrayOf(f)) : setConstant(f, <<"array", RemoveAt(ArrayOf(f), i)>>)
updateElement(f) ==
    \E i \in 1 .. Len(ArrayOf(f)) : setConstant(f, <<"array", [ArrayOf(f) EXCEPT ![i] = Typed]>>)

NumericArrayEditor(f) == addElement(f) \/ removeElement(f) \/ updateElement(f)
StringArrayEditor(f) == addElement(f) \/ removeElement(f) \/ updateElement(f)

ArrayEditorWithBinding(f) ==
    \/ Editor(f) = "numeric_array" /\ (NumericArrayEditor(f) \/ bindFirstStep(f))
    \/ Editor(f) = "string_array" /\ (StringArrayEditor(f) \/ bindFirstStep(f))

\* All joints the robot reports, in its order.
CaptureJoints(f) ==
    /\ LiveJoints # {}
    /\ setConstant(f, <<"array", [i \in 1 .. Cardinality(LiveJoints) |->
                              Live(toEditorTelemetry.joint_state, NoFrame, NoFrame)]>>)

JointArrayEditor(f) == addElement(f) \/ removeElement(f) \/ updateElement(f) \/ CaptureJoints(f)
JointArrayEditorWithBinding(f) ==
    Editor(f) = "joint_array" /\ (JointArrayEditor(f) \/ bindFirstStep(f))

TwistEditor(f) ==
    /\ Editor(f) = "twist"
    /\ \/ /\ toEditorTelemetry.odometry # NoRobot
          /\ setConstant(f, <<"twist", Live(toEditorTelemetry.odometry, NoFrame, NoFrame)>>)
       \/ setConstant(f, <<"twist", Typed>>)

\* Always the six joints of FIXED_JOINT_ORDER; one that is not received is zero.
handleCaptureJointState(f) ==
    /\ LiveJoints \cap Joints # {}
    /\ setConstant(f, <<"joints", [j \in Joints |->
                 IF j \in LiveJoints THEN Live(toEditorTelemetry.joint_state, NoFrame, NoFrame)
                 ELSE Zero]>>)
startManualInput(f) ==
    node.params[f] = EmptyValue /\ setConstant(f, <<"joints", [j \in Joints |-> Zero]>>)
updateManualJointPosition(f) ==
    /\ node.params[f] # EmptyValue
    /\ \E j \in Joints : setConstant(f, <<"joints", [node.params[f][2] EXCEPT ![j] = Typed]>>)

JointStateEditor(f) ==
    /\ Editor(f) = "joint_state"
    /\ \/ handleCaptureJointState(f) \/ startManualInput(f) \/ updateManualJointPosition(f)
       \/ node.params[f] # EmptyValue /\ setConstant(f, EmptyValue)
       \/ bindFirstStep(f)

\* Text that is no JSON is kept as it is.
JsonEditor(f) == Editor(f) = "json" /\ \E v \in {"parsed", "raw"} : setConstant(f, <<"plain", v>>)

(***************************************************************************)
(* Poses and points                                                        *)
(***************************************************************************)
HeaderOf(f) == IF node.params[f] = EmptyValue THEN NoFrame ELSE node.params[f][2]
frameId(f) == IF Stamped(f) /\ HeaderOf(f) # NoFrame THEN HeaderOf(f) ELSE DEFAULT_POSE_FRAME_ID

\* Of the transforms that could be taken, those from the target frame go first.
FromTarget(E, target) ==
    IF \E e \in E : e[1] = target THEN {e[2] : e \in {x \in E : x[1] = target}} ELSE {e[2] : e \in E}

\* The frame of the tool that is chosen, or one of the same base name.
selectedToolTransform(tool, target) ==
    LET exact == {e \in Transforms : e[2] = tool}
        base == {e \in Transforms : e[2][2] = tool[2]}
    IN IF tool = NoFrame THEN {} ELSE FromTarget(IF exact # {} THEN exact ELSE base, target)

\* Any frame like a tool (the code takes the one with the longest name).
autoToolTransform(target) == FromTarget({e \in Transforms : isToolLikeFrame(e[2])}, target)

\* The pose a capture would store, for any order the transforms may come in: that of
\* the chosen tool or nothing, else that of a tool, else the odometry unless it names
\* another frame than the header.
livePoseContext(f) ==
    LET target == frameId(f)
        chosen == selectedToolTransform(extractToolFrameFromParams, target)
        auto == autoToolTransform(target)
        chained(S) == {Live(toEditorTelemetry.transforms, target, to) :
                         to \in {x \in S : resolveTransformBetweenFrames(Transforms, target, x)}}
        odometry ==
            LET r == toEditorTelemetry.odometry
            IN IF r = NoRobot THEN {}
               ELSE {Live(r, x, NoFrame) :
                       x \in {y \in sends[r].odometry : Stamped(f) => y \in {NoFrame, target}}}
    IN IF chosen # {} THEN chained(chosen)
       ELSE IF auto # {} /\ \A x \in auto : resolveTransformBetweenFrames(Transforms, target, x)
            THEN chained(auto) ELSE chained(auto) \cup odometry

Pose(f, header, position, orientation) ==
    <<"pose", IF Stamped(f) THEN header ELSE NoFrame, position,
      IF getEditorType(f.type, f.is_array) = "point" THEN Zero ELSE orientation>>
PoseOf(f) == IF node.params[f] = EmptyValue THEN Pose(f, frameId(f), Zero, Zero) ELSE node.params[f]

handleCapture(f) == \E p \in livePoseContext(f) : setConstant(f, Pose(f, frameId(f), p, p))
updatePosition(f) == setConstant(f, [PoseOf(f) EXCEPT ![3] = Typed])
updateOrientation(f) ==
    getEditorType(f.type, f.is_array) = "pose" /\ setConstant(f, [PoseOf(f) EXCEPT ![4] = Typed])
updateFrameId(f) ==
    /\ Stamped(f)
    /\ \E h \in {NoFrame, <<"", "map">>} : setConstant(f, [PoseOf(f) EXCEPT ![2] = h])
handleJsonChange(f) == setConstant(f, Pose(f, <<"", "map">>, Typed, Typed))

\* Its three tabs: telemetry, manual input and JSON.
PoseEditor(f) ==
    \/ handleCapture(f)
    \/ updatePosition(f) \/ updateOrientation(f) \/ updateFrameId(f)
    \/ handleJsonChange(f)
PoseEditorWithBinding(f) == Editor(f) \in {"pose", "point"} /\ (PoseEditor(f) \/ bindFirstStep(f))

(***************************************************************************)
(* Specification                                                           *)
(***************************************************************************)
\* A node as another program may have stored it: too fast, its tool bound to a variable.
StoredNode(schema) ==
    [params |-> [f \in schema |-> IF isSpeedFactorField(f) THEN <<"number", 20>> ELSE EmptyValue],
     fieldSources |-> [f \in schema |-> IF isToolFrameField(f)
                                         THEN <<"expression", "${agent_name}">> ELSE NoSource]]

ParametersInit ==
    /\ \E schema \in Schemas : node = StoredNode(schema)
    /\ section = [open |-> FALSE, fields |-> FALSE, loading |-> TRUE]
    /\ context = [robot |-> NoRobot, robots |-> FALSE, asked |-> {}, answered |-> {},
                  live |-> NoRobot, panel |-> FALSE, captured |-> <<>>]
    /\ canvas = [s \in Steps |-> [here |-> TRUE, named |-> TRUE, results |-> <<>>]]
    /\ sends \in [Robots -> Telemetry]
    /\ edits = 0

ParametersNext ==
    \/ RobotsListed \/ togglePanel \/ clearCapturedValue
    \/ handleGoalSectionToggle
    \/ \E r \in Robots : TelemetryAnswered(r)
    \/ \E r \in Robots \cup {NoRobot} : setSelectedRobotId(r)
    \/ \E type \in {"joint_state", "odometry.pose"} : PanelCapture(type)
    \/ \E ok \in BOOLEAN : SchemaAnswered(ok)
    \/ \E s \in Steps : StepSchemaAnswered(s) \/ removeStep(s) \/ renameStep(s)
    \/ \E f \in DOMAIN node.params :
         \/ switchToConstant(f) \/ switchToBinding(f) \/ switchToRuntimeBinding(f)
         \/ chooseExpression(f)
         \/ \E s \in Steps, i \in 1 .. 2 : selectField(f, s, i)
         \/ PrimitiveEditor(f) \/ StdPrimitiveMessageEditor(f) \/ handleToolFrameChange(f)
         \/ ArrayEditorWithBinding(f) \/ JointArrayEditorWithBinding(f) \/ TwistEditor(f)
         \/ JointStateEditor(f) \/ JsonEditor(f) \/ PoseEditorWithBinding(f)

(***************************************************************************)
(* Properties                                                              *)
(***************************************************************************)
ParametersTypeOK ==
    /\ context.robot \in Robots \cup {NoRobot} /\ context.live \in Robots \cup {NoRobot}
    /\ context.asked \subseteq Robots /\ context.answered \subseteq Robots
    /\ DOMAIN node.params = DOMAIN node.fieldSources
    /\ FieldsShown(section) => \A f \in DOMAIN node.params :
         /\ isToolFrameField(f) /\ ~ f.is_array => node.fieldSources[f] = NoSource
         /\ isSpeedFactorField(f) /\ node.fieldSources[f] = NoSource => node.params[f][2] \in 1 .. 10

\* A tool frame that the list offers because the robot reports it below base_link
\* can be captured in base_link: the two searches of the transforms agree.
ToolCapturable ==
    \A E \in {Transforms} :
        (\E root \in ToolRoots(E) : hasAncestorFrame(root, DEFAULT_POSE_FRAME_ID, E))
        => \A t \in collectToolFramesFromTransforms(E) :
             /\ resolveTransformBetweenFrames(E, DEFAULT_POSE_FRAME_ID, t)
             /\ selectedToolTransform(t, DEFAULT_POSE_FRAME_ID) = {t}

\* What a capture would store is what it says.  Once the selected robot has answered,
\* all of it is of that robot, however late the answers of others come (until then
\* it may be of the robot that was selected before); a stamped pose is in the frame
\* its header names, or it is odometry that names no frame, which goes under any
\* header; when the chosen tool frame is among the robot's frames, it is the pose of
\* that frame and of no other; and the tool frames that are offered can be captured.
CaptureSound ==
    /\ Shown # NoRobot => \A part \in DOMAIN toEditorTelemetry :
                            toEditorTelemetry[part] \in {Shown, NoRobot}
    /\ \A f \in DOMAIN node.params : Editor(f) \in {"pose", "point"} =>
         \A p \in livePoseContext(f) :
           /\ Stamped(f) => p[3] = frameId(f) \/ p = Live(p[2], NoFrame, NoFrame)
           /\ LET tool == extractToolFrameFromParams
              IN tool # NoFrame /\ (\E e \in Transforms : e[2] = tool) => p[4] = tool
    /\ ToolCapturable
=============================================================================
