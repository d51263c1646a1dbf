------------------------------ MODULE TaskSets ------------------------------
(***************************************************************************)
(* The task list of the task editor (frontend/src/pages/ActionGraph/       *)
(* index.tsx): saving the tasks with their assignments into a file,        *)
(* loading such a file, creating, renaming and deleting a task, and        *)
(* assigning one to a robot task manager (RTM).                            *)
(*                                                                         *)
(* A task is the part of its row that a file carries: its steps and its    *)
(* planning task, which a file may lack.  Every await of the two imports   *)
(* and of the export is a step; users and other tabs write in between.     *)
(* The server's handlers (central_server_go/internal/api/templates.go) are *)
(* atomic here: they only compare ids and capabilities.                    *)
(***************************************************************************)
EXTENDS Naturals, Sequences, FiniteSets, SequencesExt

CONSTANTS TaskIds,      \* ids of tasks
          Rtms,         \* registered RTMs
          Able,         \* the RTMs that have the capability "skill" steps need
          UnknownRtm,   \* an RTM of another site, named in an old file
          NoTask,       \* no row
          MaxSetOps     \* bound: operations users begin

ASSUME TaskSetsAssumption ==
    /\ Able \subseteq Rtms /\ UnknownRtm \notin Rtms
    /\ NoTask \notin TaskIds /\ IsFiniteSet(TaskIds) /\ MaxSetOps \in Nat

Bodies == {"plain", "skill"}
Plans == {"none", "plan"}                    \* planning_task, "none" when absent
SetRows == [steps : Bodies, planning : Plans]

\* No row is not a row.
ASSUME SetRowsAssumption == NoTask \notin SetRows

\* Entries of a file, in the order of the list it was made from.
Entries == [id : TaskIds, content : SetRows \cup {NoTask},
            rtms : SUBSET (Rtms \cup {UnknownRtm})]

VARIABLES tasks,     \* rows of the templates
          links,     \* rows of the assignments, as pairs
          files,     \* saved files: [kind |-> "set" or "one", list |-> entries]
          work,      \* the operation behind isTaskSetProcessing
          stray,     \* unassign requests in flight
          picker,    \* the files the load dialog shows, {} when it is closed
          seen,      \* what the assign dialog has fetched
          lastSet,   \* the import that ended last, while nobody else has written
          setOps     \* operations begun

setVars == <<tasks, links, files, work, stray, picker, seen, lastSet, setOps>>

Idle == [op |-> "none", at |-> "none", list |-> <<>>, k |-> 0, known |-> {},
         todo |-> {}, applied |-> {}, quiet |-> FALSE, clean |-> FALSE]
NoSet == [op |-> "none", list |-> <<>>, applied |-> {}, clean |-> FALSE]
NoPicker == [task |-> NoTask, assigned |-> {}, compat |-> {}]

Capable(c, r) == c.steps = "skill" => r \in Able
Assigned(t) == {r \in Rtms : <<t, r>> \in links}

(***************************************************************************)
(* The server                                                              *)
(***************************************************************************)
\* Fields the request leaves out keep their value.
UpdateTemplate(old, c) ==
    [steps |-> c.steps, planning |-> IF c.planning = "none" THEN old.planning ELSE c.planning]

\* Unknown tasks, missing capabilities and assignments that exist are refused.
AssignTemplateToAgent(t, r) ==
    tasks[t] # NoTask /\ Capable(tasks[t], r) /\ <<t, r>> \notin links

\* Offline RTMs and those already assigned are left out.
GetTemplateCompatibleAgents(t, online) ==
    {r \in online \ Assigned(t) : Capable(tasks[t], r)}

(***************************************************************************)
(* Operations of users                                                     *)
(***************************************************************************)
SetOp == setOps < MaxSetOps /\ setOps' = setOps + 1

\* A write that is not the import's own.
Foreign ==
    /\ lastSet' = NoSet
    /\ work' = [work EXCEPT !.quiet = FALSE, !.clean = FALSE]

createTemplate(t) ==
    /\ SetOp /\ tasks[t] = NoTask
    /\ tasks' = [tasks EXCEPT ![t] = [steps |-> "plain", planning |-> "none"]]
    /\ Foreign /\ UNCHANGED <<links, files, stray, picker, seen>>

\* The save of the editor, of this tab or another.
saveTask(t, c) ==
    /\ SetOp /\ tasks[t] # NoTask /\ UpdateTemplate(tasks[t], c) # tasks[t]
    /\ tasks' = [tasks EXCEPT ![t] = UpdateTemplate(tasks[t], c)]
    /\ Foreign /\ UNCHANGED <<links, files, stray, picker, seen>>

\* The assignments follow the id; an id in use is refused.
renameTemplate(t, u) ==
    /\ SetOp /\ tasks[t] # NoTask /\ tasks[u] = NoTask
    /\ tasks' = [tasks EXCEPT ![t] = NoTask, ![u] = tasks[t]]
    /\ links' = {<<IF p[1] = t THEN u ELSE p[1], p[2]>> : p \in links}
    /\ Foreign /\ UNCHANGED <<files, stray, picker, seen>>

deleteTemplate(t) ==
    /\ SetOp /\ tasks[t] # NoTask
    /\ tasks' = [tasks EXCEPT ![t] = NoTask]
    /\ links' = {p \in links : p[1] # t}
    /\ Foreign /\ UNCHANGED <<files, stray, picker, seen>>

\* The assign dialog shows what its two queries answered when it was opened.
openAssignModal(t, online) ==
    /\ SetOp /\ tasks[t] # NoTask /\ seen = NoPicker /\ picker = {}
    /\ seen' = [task |-> t, assigned |-> Assigned(t),
                compat |-> GetTemplateCompatibleAgents(t, online)]
    /\ UNCHANGED <<tasks, links, files, work, stray, picker, lastSet>>

\* mergedAgents: an RTM the compatibility list leaves out counts as compatible
\* only when it is assigned.
AssignButton(r) == r \in seen.compat \ seen.assigned
UnassignButton(r) == r \in seen.assigned

\* The dialog stays open: the assignments are fetched again, the compatibility
\* list is not.
Relinked(new) ==
    /\ links' = new
    /\ seen' = [seen EXCEPT !.assigned = {r \in Rtms : <<seen.task, r>> \in new}]
    /\ Foreign

assignTemplate(r) ==
    /\ seen # NoPicker /\ AssignButton(r)
    /\ AssignTemplateToAgent(seen.task, r)
    /\ Relinked(links \cup {<<seen.task, r>>})
    /\ UNCHANGED <<tasks, files, stray, picker, setOps>>

unassignTemplate(r) ==
    /\ seen # NoPicker /\ UnassignButton(r) /\ <<seen.task, r>> \in links
    /\ Relinked(links \ {<<seen.task, r>>})
    /\ UNCHANGED <<tasks, files, stray, picker, setOps>>

closeAssignModal ==
    /\ seen # NoPicker /\ seen' = NoPicker
    /\ UNCHANGED <<tasks, links, files, work, stray, picker, lastSet, setOps>>

\* The panel under the canvas offers RTMs whose capabilities fit what is drawn,
\* which need not be what is stored.
assignFromPanel(t, drawn, r) ==
    /\ SetOp /\ seen = NoPicker /\ picker = {}
    /\ Capable([steps |-> drawn], r) /\ r \notin Assigned(t)
    /\ AssignTemplateToAgent(t, r)
    /\ links' = links \cup {<<t, r>>}
    /\ Foreign /\ UNCHANGED <<tasks, files, stray, picker, seen>>

unassignFromPanel(t, r) ==
    /\ SetOp /\ seen = NoPicker /\ picker = {} /\ r \in Assigned(t)
    /\ links' = links \ {<<t, r>>}
    /\ Foreign /\ UNCHANGED <<tasks, files, stray, picker, seen>>

(***************************************************************************)
(* Saving                                                                  *)
(***************************************************************************)
Buttons == work = Idle /\ picker = {} /\ seen = NoPicker

Working(w) ==
    work' = w /\ UNCHANGED <<tasks, links, files, stray, picker, seen, lastSet, setOps>>

handleExportTaskSet ==
    /\ Buttons /\ SetOp
    /\ work' = [Idle EXCEPT !.op = "export", !.at = "list"]
    /\ UNCHANGED <<tasks, links, files, stray, picker, seen, lastSet>>

\* No tasks, nothing to save.
ExportListed ==
    /\ work.op = "export" /\ work.at = "list"
    /\ LET ids == SetToSeq({t \in TaskIds : tasks[t] # NoTask})
           list == [i \in DOMAIN ids |-> [id |-> ids[i], content |-> NoTask, rtms |-> {}]]
       IN Working(IF ids = <<>> THEN Idle
                  ELSE [work EXCEPT !.at = "read", !.list = list,
                                    !.todo = (DOMAIN ids) \X {"template", "links"}])

\* buildTaskSetTemplateSnapshot and getAssignments, all entries side by side.  A
\* task that is gone by now ends the export.
ExportRead(q) ==
    /\ work.op = "export" /\ work.at = "read" /\ q \in work.todo
    /\ LET e == work.list[q[1]]
           got == IF q[2] = "links" THEN [e EXCEPT !.rtms = Assigned(e.id)]
                  ELSE [e EXCEPT !.content = tasks[e.id]]
       IN Working(IF q[2] = "template" /\ tasks[e.id] = NoTask THEN Idle
                  ELSE [work EXCEPT !.todo = @ \ {q}, !.list[q[1]] = got])

ExportSaved ==
    /\ work.op = "export" /\ work.at = "read" /\ work.todo = {}
    /\ files' = files \cup {[kind |-> "set", list |-> work.list]}
    /\ work' = Idle
    /\ UNCHANGED <<tasks, links, stray, picker, seen, lastSet, setOps>>

\* The open task as it is drawn: steps that may not be saved yet, the planning
\* task of the row, no assignments.
handleExportSelectedTask(t, drawn) ==
    /\ Buttons /\ SetOp /\ tasks[t] # NoTask
    /\ files' = files \cup
         {[kind |-> "one", list |-> << [id |-> t, rtms |-> {},
             content |-> [steps |-> drawn, planning |-> tasks[t].planning]] >>]}
    /\ UNCHANGED <<tasks, links, work, stray, picker, seen, lastSet>>

(***************************************************************************)
(* Loading                                                                 *)
(***************************************************************************)
handleOpenSavedTaskLoad ==
    /\ Buttons /\ SetOp /\ files # {}
    /\ picker' = files
    /\ UNCHANGED <<tasks, links, files, work, stray, seen, lastSet>>

closePicker ==
    /\ picker # {} /\ picker' = {}
    /\ UNCHANGED <<tasks, links, files, work, stray, seen, lastSet, setOps>>

\* Either import, once the file is read and the user has agreed.
beginImport(f) ==
    /\ f \in picker /\ work = Idle
    /\ picker' = {} /\ lastSet' = NoSet
    /\ work' = [Idle EXCEPT !.op = f.kind, !.at = "list", !.list = f.list, !.k = 1,
                            !.quiet = stray = {}, !.clean = stray = {}]
    /\ UNCHANGED <<tasks, links, files, stray, seen, setOps>>

handleImportTaskSet(f) == f.kind = "set" /\ beginImport(f)
handleImportSingleTask(f) == f.kind = "one" /\ beginImport(f)

Entry == work.list[work.k]
Restoring(phase) == work.op \in {"set", "one"} /\ work.at = phase

\* A task that cannot be written is skipped by the import of a set and ends the
\* import of one; after the last entry the summary is shown.
Finished(w) == w.op = "one" \/ w.k = Len(w.list)
Ended(w) == [op |-> w.op, list |-> w.list, applied |-> w.applied, clean |-> w.clean]

NextEntry(w) ==
    IF Finished(w)
    THEN work' = Idle /\ lastSet' = IF w.quiet THEN Ended(w) ELSE NoSet
    ELSE work' = [w EXCEPT !.k = @ + 1, !.at = "create"] /\ UNCHANGED lastSet

Skip == NextEntry([work EXCEPT !.clean = FALSE])

ImportListed ==
    /\ Restoring("list")
    /\ Working([work EXCEPT !.at = "create", !.known = {t \in TaskIds : tasks[t] # NoTask}])

\* Created when the list did not have it; an id someone took since is refused.
ImportCreate ==
    /\ Restoring("create")
    /\ IF Entry.id \in work.known
       THEN work' = [work EXCEPT !.at = "update"] /\ UNCHANGED <<tasks, lastSet>>
       ELSE IF tasks[Entry.id] # NoTask THEN Skip /\ UNCHANGED tasks
       ELSE /\ tasks' = [tasks EXCEPT ![Entry.id] = Entry.content]
            /\ work' = [work EXCEPT !.at = "update", !.known = @ \cup {Entry.id}]
            /\ UNCHANGED lastSet
    /\ UNCHANGED <<links, files, stray, picker, seen, setOps>>

ImportUpdate ==
    /\ Restoring("update")
    /\ IF tasks[Entry.id] = NoTask THEN Skip /\ UNCHANGED tasks
       ELSE /\ tasks' = [tasks EXCEPT ![Entry.id] = UpdateTemplate(@, Entry.content)]
            /\ IF work.op = "one" THEN NextEntry(work)
               ELSE work' = [work EXCEPT !.at = "links"] /\ UNCHANGED lastSet
    /\ UNCHANGED <<links, files, stray, picker, seen, setOps>>

\* The assignments the file names, found by id or by name.
Reassignable(e) == e.rtms \cap Rtms

ToAssign(w) == [w EXCEPT !.at = "assign", !.todo = Reassignable(Entry)]

\* Mutant: the assignments there are stay.
ImportUnassignNothing ==
    /\ Restoring("links")
    /\ work' = ToAssign(work)
    /\ UNCHANGED <<tasks, links, files, stray, picker, seen, lastSet, setOps>>

\* getAssignments, then every unassign at once.
ImportUnassign ==
    /\ Restoring("links")
    /\ LET old == {Entry.id} \X Assigned(Entry.id)
       IN /\ stray' = stray \cup old
          /\ work' = IF old = {} THEN ToAssign(work)
                     ELSE [work EXCEPT !.at = "clear", !.todo = old]
    /\ UNCHANGED <<tasks, links, files, picker, seen, lastSet, setOps>>

\* An answer to one of them: the import waits for all, or for the first error.
Answered(q, ok) ==
    work' = IF ~(work.at = "clear" /\ q \in work.todo) THEN work
            ELSE IF ~ok THEN ToAssign([work EXCEPT !.clean = FALSE])
            ELSE IF work.todo = {q} THEN ToAssign(work)
            ELSE [work EXCEPT !.todo = @ \ {q}]

Unassigned(q) ==
    /\ q \in stray
    /\ stray' = stray \ {q} /\ links' = links \ {q}
    /\ Answered(q, q \in links)
    /\ UNCHANGED <<tasks, files, picker, seen, lastSet, setOps>>

\* A request that does not reach the server, or whose handler fails.
UnassignFails(q) ==
    /\ q \in stray
    /\ stray' = stray \ {q}
    /\ Answered(q, FALSE)
    /\ UNCHANGED <<tasks, links, files, picker, seen, lastSet, setOps>>

\* One assignment after the other; a refusal is only logged.
ImportAssign(r) ==
    /\ Restoring("assign") /\ r \in work.todo
    /\ LET p == <<Entry.id, r>>
           w == [work EXCEPT !.todo = @ \ {r}]
       IN IF AssignTemplateToAgent(Entry.id, r)
          THEN links' = links \cup {p} /\ work' = [w EXCEPT !.applied = @ \cup {p}]
          ELSE UNCHANGED links /\ work' = w
    /\ UNCHANGED <<tasks, files, stray, picker, seen, lastSet, setOps>>

\* One that does not reach the server, or whose handler fails, is only logged, too.
ImportAssignFails(r) ==
    /\ Restoring("assign") /\ r \in work.todo
    /\ Working([work EXCEPT !.todo = @ \ {r}, !.clean = FALSE])

ImportEntryDone ==
    /\ Restoring("assign") /\ work.todo = {}
    /\ NextEntry(work)
    /\ UNCHANGED <<tasks, links, files, stray, picker, seen, setOps>>

\* Any other request of the operation fails: the export and the import of one
\* task end, the import of a set goes on with its next task, or, when the
\* assignments could not be read, without clearing them.
SetRequestFails ==
    /\ work.at \in {"list", "create", "update", "links"}
    /\ CASE work.op = "export" \/ work.at = "list" -> work' = Idle /\ lastSet' = NoSet
         [] work.at = "links" -> /\ work' = ToAssign([work EXCEPT !.clean = FALSE])
                                 /\ UNCHANGED lastSet
         [] OTHER -> Skip
    /\ UNCHANGED <<tasks, links, files, stray, picker, seen, setOps>>

(***************************************************************************)
\* A file another site has saved, with an RTM unknown here and no planning task.
OldFile ==
    LET t == CHOOSE t \in TaskIds : TRUE
    IN [kind |-> "set",
        list |-> << [id |-> t, content |-> [steps |-> "skill", planning |-> "none"],
                     rtms |-> Able \cup {UnknownRtm}] >>]

SetsInit ==
    /\ \E t \in TaskIds : tasks = [u \in TaskIds |->
           IF u = t THEN [steps |-> "plain", planning |-> "plan"] ELSE NoTask]
    /\ links = {t \in TaskIds : tasks[t] # NoTask} \X Rtms
    /\ files = {OldFile}
    /\ work = Idle /\ stray = {} /\ picker = {} /\ seen = NoPicker
    /\ lastSet = NoSet /\ setOps = 0

SetsUser ==
    \/ \E t \in TaskIds : createTemplate(t) \/ deleteTemplate(t)
    \/ \E t \in TaskIds, c \in SetRows : saveTask(t, c)
    \/ \E t, u \in TaskIds : renameTemplate(t, u)
    \/ \E t \in TaskIds, online \in SUBSET Rtms : openAssignModal(t, online)
    \/ (\E r \in Rtms : assignTemplate(r) \/ unassignTemplate(r)) \/ closeAssignModal
    \/ \E t \in TaskIds, drawn \in Bodies, r \in Rtms : assignFromPanel(t, drawn, r)
    \/ \E t \in TaskIds, r \in Rtms : unassignFromPanel(t, r)
    \/ \E t \in TaskIds, drawn \in Bodies : handleExportSelectedTask(t, drawn)
    \/ handleExportTaskSet \/ handleOpenSavedTaskLoad \/ closePicker
    \/ \E f \in picker : handleImportTaskSet(f) \/ handleImportSingleTask(f)

SetsSteps ==
    \/ ExportListed \/ (\E q \in work.todo : ExportRead(q)) \/ ExportSaved
    \/ ImportListed \/ ImportCreate \/ ImportUpdate \/ ImportUnassign
    \/ (\E q \in stray : Unassigned(q) \/ UnassignFails(q))
    \/ (\E r \in Rtms : ImportAssign(r) \/ ImportAssignFails(r)) \/ ImportEntryDone \/ SetRequestFails

SetsNext == SetsUser \/ SetsSteps

(***************************************************************************)
(* Properties                                                              *)
(***************************************************************************)
SetsTypeOK ==
    /\ tasks \in [TaskIds -> SetRows \cup {NoTask}]
    /\ links \subseteq TaskIds \X Rtms /\ stray \subseteq TaskIds \X Rtms
    /\ \A f \in files : Range(f.list) \subseteq Entries
    /\ picker \subseteq files /\ Range(work.list) \subseteq Entries
    /\ setOps \in 0 .. MaxSetOps

Restored(e) ==
    /\ tasks[e.id].steps = e.content.steps
    /\ e.content.planning # "none" => tasks[e.id].planning = e.content.planning

\* After an import that nobody else's writes fell into: every assignment it
\* counted as applied is there, unassign requests of its own that are still
\* under way notwithstanding; and when no request failed, each task of the file
\* has the file's content and exactly the file's RTMs that can execute it.
TaskSetRestored ==
    lastSet # NoSet =>
        /\ lastSet.applied \subseteq links
        /\ lastSet.clean => \A e \in Range(lastSet.list) :
             /\ Restored(e)
             /\ lastSet.op = "set" =>
                  Assigned(e.id) = {r \in Reassignable(e) : Capable(e.content, r)}
=============================================================================
