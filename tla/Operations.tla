----------------------------- MODULE Operations -----------------------------
(***************************************************************************)
(* The part of the web console that runs robots (frontend/src/App.tsx):    *)
(* the agent page on the route /agents, and on /pddl the planning work and *)
(* the rows of the realtime monitor, which share nothing but the session's *)
(* id.  As in Authoring, each behaviour stays on one screen, and the rows  *)
(* that only other screens use are fixed.                                  *)
(***************************************************************************)
EXTENDS AgentPage, PddlPage, TaskTimeline

VARIABLE screen

Screens == {"agents", "planning", "timeline"}

vars == <<screen, dashVars, pddlVars, lineVars>>

Init ==
    /\ screen \in Screens
    /\ AgentInit /\ PddlInit /\ TimelineInit
    /\ screen # "planning" => srv.tds = {}

Next ==
    /\ UNCHANGED screen
    /\ \/ screen = "agents" /\ AgentNext /\ UNCHANGED <<pddlVars, lineVars>>
       \/ screen = "planning" /\ PddlNext /\ UNCHANGED <<dashVars, lineVars>>
       \/ screen = "timeline" /\ TimelineNext /\ UNCHANGED <<dashVars, pddlVars>>

Spec == Init /\ [][Next]_vars

\* The state of the screen that is open has its type.
TypeOK ==
    CASE screen = "agents" -> AgentTypeOK
      [] screen = "planning" -> PddlTypeOK
      [] screen = "timeline" -> TimelineTypeOK
=============================================================================
