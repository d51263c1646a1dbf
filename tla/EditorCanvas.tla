---------------------------- MODULE EditorCanvas ----------------------------
(***************************************************************************)
(* The canvas of the task editor (frontend/src/pages/ActionGraph/index.tsx)*)
(* in one browser tab: which behaviour tree is open, what react-query has  *)
(* cached of it, when the canvas is loaded from the cache, and the three   *)
(* ways its content is written back (Save, Finish editing, PDDL Config).   *)
(* Other users and the tab's own lock calls (EditLock) change the rows on  *)
(* the server at any time.                                                 *)
(*                                                                         *)
(* The content of a canvas is a Body: which tree it was made for and which *)
(* edit made it.  Its JSON form is compared as a whole, with the isEditing *)
(* flag that an effect writes into every node.                             *)
(***************************************************************************)
EXTENDS Naturals, FiniteSets

CONSTANTS Trees,      \* ids of behaviour trees
          Initial,    \* trees that exist at first
          None,       \* null
          MaxEdits,   \* bound: edits by the tab's user
          MaxWrites,  \* bound: writes of rows by anybody
          MaxOpens,   \* bound: changes of the selection by the user
          Others      \* bound: what other users do, a subset of {"save", "delete"}

ASSUME CanvasAssumption ==
    /\ Initial \subseteq Trees /\ None \notin Trees
    /\ MaxEdits \in Nat /\ MaxWrites \in Nat /\ MaxOpens \in Nat
    /\ Others \subseteq {"save", "delete"}

\* Edit 0 is the content a tree starts with, edit MaxEdits + 1 another user's.
Bodies == [tree : Trees, edit : 0 .. MaxEdits + 1]
Empty == [tree |-> None, edit |-> 0]           \* nodes and edges are []
Start(t) == [tree |-> t, edit |-> 0]
Canvases == [body : Bodies \cup {Empty}, flag : BOOLEAN]
Blank == [body |-> Empty, flag |-> FALSE]

\* A row as the server returns it; stamp stands for version and updated_at.
Rows == [body : Bodies \cup {Empty}, stamp : 0 .. MaxWrites]
\* loadedTemplateRef.
Loads == [id : Trees, sig : (0 .. MaxWrites) \X (0 .. MaxEdits + 1)]
Statuses == {"idle", "saving", "saved", "error"}

VARIABLES row,      \* rows of the server, None when there is none
          cache,    \* react-query's ['template', id], None before the first answer
          fetch,    \* the answer under way for it, None when there is none
          list,     \* react-query's ['templates-all'], as a set of ids
          sel,      \* selectedTemplateId
          created,  \* pendingCreatedTemplateIdRef
          editing,  \* isEditing
          canvas,   \* nodes and edges
          loaded,   \* loadedTemplateRef
          last,     \* lastSavedStateRef
          unsaved,  \* hasUnsavedChanges, memoised on nodes and edges
          status,   \* saveStatus
          job,      \* the write under way: None or [by, tree, shot, prev]
          edits, writes, opens   \* counters of the bounds

server == <<row, writes>>
query == <<cache, fetch, list>>
shown == <<canvas, loaded, last, unsaved, status>>
vars == <<row, writes, cache, fetch, list, sel, created, editing, canvas, loaded,
          last, unsaved, status, job, edits, opens>>

\* saveTemplate, releaseLock and the PDDL modal's handleSave each wait for one
\* PUT /templates/{id}; prev is what the modal restores when it fails.
Jobs == [by : {"save", "release", "pddl"}, tree : Trees, shot : Canvases,
         prev : Rows \cup {None}]

ASSUME NullAssumption == None \notin Rows \cup Loads \cup Jobs

TypeOK ==
    /\ row \in [Trees -> Rows \cup {None}]
    /\ cache \in [Trees -> Rows \cup {None}] /\ fetch \in [Trees -> Rows \cup {None}]
    /\ list \subseteq Trees
    /\ sel \in Trees \cup {None} /\ created \in Trees \cup {None}
    /\ editing \in BOOLEAN /\ canvas \in Canvases
    /\ loaded \in Loads \cup {None}
    /\ last \in Canvases \cup {None}
    /\ unsaved \in BOOLEAN /\ status \in Statuses
    /\ job \in Jobs \cup {None}
    /\ edits \in 0 .. MaxEdits /\ writes \in 0 .. MaxWrites /\ opens \in 0 .. MaxOpens

(***************************************************************************)
(* Loading                                                                 *)
(***************************************************************************)
\* Of the content only the entry point and the number of steps are part of the
\* signature: here, edit 1 changes neither (a parameter) and later ones do.
Shape(b) == IF b.edit = 1 THEN 0 ELSE b.edit
buildTemplateLoadSignature(r) == <<r.stamp, Shape(r.body)>>

\* What the page shows, as the effects see and change it.
View == [canvas |-> canvas, loaded |-> loaded, last |-> last,
         unsaved |-> unsaved, status |-> status]

\* Mutant: null instead of false before the first load.
hasUnsavedChangesOrNull(c, saved) == IF saved = None THEN None ELSE c.body # Empty /\ c # saved

hasUnsavedChanges(c, saved) == saved # None /\ c.body # Empty /\ c # saved

\* Mutant: the old drawing stays until the new one is loaded.
ClearCanvasNever(v, t) == v

\* The effect on templateId: another tree than the one loaded clears the canvas,
\* and does not forget which one was loaded.
ClearCanvas(v, t) ==
    IF v.loaded # None /\ v.loaded.id # t
    THEN [v EXCEPT !.canvas = Blank, !.last = None, !.unsaved = FALSE, !.status = "idle"]
    ELSE v

\* Mutant: every answer of the query loads the canvas.
LoadTemplateAlways(v, t, r) ==
    IF t = None \/ r = None THEN v
    ELSE LET c == [body |-> r.body, flag |-> FALSE]
         IN [canvas |-> c, loaded |-> [id |-> t, sig |-> buildTemplateLoadSignature(r)],
             last |-> c, unsaved |-> FALSE, status |-> "idle"]

\* The effect on the template's data: skipped for the same id and signature.
LoadTemplate(v, t, r) ==
    IF t = None \/ r = None
       \/ v.loaded = [id |-> t, sig |-> buildTemplateLoadSignature(r)]
    THEN v
    ELSE LET c == [body |-> r.body, flag |-> FALSE]
         IN [canvas |-> c, loaded |-> [id |-> t, sig |-> buildTemplateLoadSignature(r)],
             last |-> c, unsaved |-> FALSE, status |-> "idle"]

Show(v) ==
    /\ canvas' = v.canvas /\ loaded' = v.loaded /\ last' = v.last
    /\ unsaved' = v.unsaved /\ status' = v.status

\* Mutant: a selection is never given up for another.
AutoSelectOnce(ids, pending, s) ==
    IF ids = {} THEN {<<None, None>>}
    ELSE IF pending # None THEN IF pending \in ids THEN {<<pending, None>>} ELSE {<<s, pending>>}
    ELSE IF s # None THEN {<<s, None>>}
    ELSE {<<t, None>> : t \in ids}

\* The selection effect: ids is the list of templates, pending the one just
\* created, s the selection.  The list is sorted by time: any may come first.
AutoSelect(ids, pending, s) ==
    IF ids = {} THEN {<<None, None>>}
    ELSE IF pending # None THEN IF pending \in ids THEN {<<pending, None>>} ELSE {<<s, pending>>}
    ELSE IF s \in ids THEN {<<s, None>>}
    ELSE {<<t, None>> : t \in ids}

Data(c, t) == IF t = None THEN None ELSE c[t]

\* Effects of a render in which the selection, the list or the cache changed.
\* A selection without data is fetched; one with data may be stale.
Fetched(f, t, rows) ==
    IF t = None \/ rows[t] = None THEN f ELSE [f EXCEPT ![t] = rows[t]]

Effects(v, c, f, ids, pending, s) ==
    \E p \in AutoSelect(ids, pending, s) :
        /\ sel' = p[1] /\ created' = p[2] /\ list' = ids /\ cache' = c
        /\ Show(LoadTemplate(ClearCanvas(v, p[1]), p[1], Data(c, p[1])))
        /\ fetch' = IF p[1] # sel THEN Fetched(f, p[1], row') ELSE f

(***************************************************************************)
(* Queries                                                                 *)
(***************************************************************************)
\* A refetch of the open tree: invalidated, or stale when the window gets the
\* focus.
RefetchTemplate ==
    /\ sel # None /\ row[sel] # None
    /\ fetch' = Fetched(fetch, sel, row)
    /\ UNCHANGED <<server, cache, list, sel, created, editing, shown, job, edits, opens>>

TemplateFetched(t) ==
    /\ fetch[t] # None
    /\ UNCHANGED <<server, editing, job, edits, opens>>
    /\ Effects(View, [cache EXCEPT ![t] = fetch[t]], [fetch EXCEPT ![t] = None],
               list, created, sel)

\* A tree that could not be read keeps what was cached of it.
ListFetched ==
    /\ list # {t \in Trees : row[t] # None} \/ created # None
    /\ UNCHANGED <<server, editing, job, edits, opens>>
    /\ Effects(View, cache, fetch, {t \in Trees : row[t] # None}, created, sel)

(***************************************************************************)
(* The user                                                                *)
(***************************************************************************)
handleOpenTask(t) ==
    /\ opens < MaxOpens /\ t \in list /\ t # sel
    /\ opens' = opens + 1
    /\ UNCHANGED <<server, editing, job, edits>>
    /\ Effects(View, cache, fetch, list, created, t)

\* EditLock grants or ends edit mode; an effect writes the flag into the nodes.
setIsEditing(b) ==
    /\ sel # None /\ editing # b
    /\ editing' = b
    /\ LET c == [canvas EXCEPT !.flag = b /\ canvas.body # Empty]
       IN canvas' = c /\ unsaved' = hasUnsavedChanges(c, last)
    /\ UNCHANGED <<server, query, sel, created, loaded, last, status, job, edits, opens>>

\* The nodes are on screen only when the template's data is there.
Edit ==
    /\ editing /\ sel # None /\ cache[sel] # None /\ edits < MaxEdits
    /\ ~ (job # None /\ job.by = "pddl")      \* the modal covers the canvas
    /\ edits' = edits + 1
    /\ LET c == [body |-> [tree |-> IF canvas.body = Empty THEN sel ELSE canvas.body.tree,
                           edit |-> edits + 1],
                 flag |-> canvas.flag \/ canvas.body = Empty]
       IN canvas' = c /\ unsaved' = hasUnsavedChanges(c, last)
    /\ UNCHANGED <<server, query, sel, created, editing, loaded, last, status, job, opens>>

SaveButton == sel # None /\ editing /\ status # "saving"
DeleteButton(t) == t \in list

\* Save: an incomplete graph is saved after a confirmation.
handleSave ==
    /\ SaveButton /\ job = None
    /\ status' = "saving"
    /\ job' = [by |-> "save", tree |-> sel, shot |-> canvas, prev |-> None]
    /\ UNCHANGED <<server, query, sel, created, editing, canvas, loaded, last, unsaved,
                   edits, opens>>

\* Finish editing: saved first when the canvas looks changed.
releaseLock ==
    /\ sel # None /\ editing /\ unsaved /\ job = None
    /\ job' = [by |-> "release", tree |-> sel, shot |-> canvas, prev |-> None]
    /\ UNCHANGED <<server, query, sel, created, editing, shown, edits, opens>>

\* PDDL Config, open to everybody: writes the canvas along with the planning
\* task, and the cache before the answer is there.
pddlSave ==
    /\ sel # None /\ cache[sel] # None /\ job = None
    /\ job' = [by |-> "pddl", tree |-> sel, shot |-> canvas, prev |-> cache[sel]]
    /\ UNCHANGED <<server, editing, edits, opens>>
    /\ Effects(View, [cache EXCEPT ![sel].body = canvas.body], fetch, list, created, sel)

(***************************************************************************)
(* The answers                                                             *)
(***************************************************************************)
\* PUT /templates/{id} writes the steps and moves version and updated_at.
Updated(t, b) == [row EXCEPT ![t] = [body |-> b, stamp |-> writes + 1]]

CanWrite(t) == writes < MaxWrites /\ row[t] # None

\* onSuccess of saveTemplate invalidates the tree that is open by now, and
\* lastSavedStateRef gets the state that was saved.
SaveDone ==
    /\ job # None /\ job.by = "save" /\ CanWrite(job.tree)
    /\ row' = Updated(job.tree, job.shot.body) /\ writes' = writes + 1
    /\ status' = "saved" /\ last' = job.shot /\ job' = None
    /\ fetch' = Fetched(fetch, sel, row')
    /\ UNCHANGED <<cache, list, sel, created, editing, canvas, loaded, unsaved, edits, opens>>

ReleaseDone ==
    /\ job # None /\ job.by = "release" /\ CanWrite(job.tree)
    /\ row' = Updated(job.tree, job.shot.body) /\ writes' = writes + 1
    /\ job' = None /\ editing' = FALSE
    /\ last' = job.shot /\ canvas' = [canvas EXCEPT !.flag = FALSE]
    /\ unsaved' = hasUnsavedChanges(canvas', job.shot)
    /\ fetch' = IF job.tree = sel THEN Fetched(fetch, sel, row') ELSE fetch
    /\ UNCHANGED <<cache, list, sel, created, loaded, status, edits, opens>>

PddlDone ==
    /\ job # None /\ job.by = "pddl" /\ CanWrite(job.tree)
    /\ row' = Updated(job.tree, job.shot.body) /\ writes' = writes + 1
    /\ job' = None
    /\ fetch' = IF job.tree = sel THEN Fetched(fetch, sel, row') ELSE fetch
    /\ UNCHANGED <<cache, list, sel, created, editing, shown, edits, opens>>

\* A save that fails: saveStatus shows the error; Finish editing asks whether to
\* go on without saving; PDDL Config puts the cached template back.
SaveFails ==
    /\ job # None /\ job' = None
    /\ UNCHANGED <<server, edits, opens>>
    /\ \/ /\ job.by = "save" /\ status' = "error"
          /\ UNCHANGED <<query, sel, created, editing, canvas, loaded, last, unsaved>>
       \/ /\ job.by = "release"
          /\ \E go \in BOOLEAN :
               /\ editing' = (editing /\ ~go)
               /\ canvas' = [canvas EXCEPT !.flag = @ /\ ~go]
               /\ unsaved' = IF go THEN hasUnsavedChanges(canvas', last) ELSE unsaved
          /\ UNCHANGED <<query, sel, created, loaded, last, status>>
       \/ /\ job.by = "pddl"
          /\ Effects(View, [cache EXCEPT ![job.tree] = job.prev], fetch, list, created, sel)
          /\ UNCHANGED editing

ErrorShown ==
    /\ status = "error" /\ status' = "idle"
    /\ UNCHANGED <<server, query, sel, created, editing, canvas, loaded, last, unsaved,
                   job, edits, opens>>

\* onCreated of the modal: select the new tree before the list has it.
createTemplate(t) ==
    /\ row[t] = None /\ job = None /\ writes < MaxWrites /\ opens < MaxOpens
    /\ opens' = opens + 1 /\ writes' = writes + 1
    /\ row' = [row EXCEPT ![t] = [body |-> Start(t), stamp |-> writes + 1]]
    /\ Effects(View, cache, fetch, list, t, t)
    /\ UNCHANGED <<editing, job, edits>>

\* onSuccess clears the selection; the list it is chosen from again is the old one.
\* Without a selection an effect ends edit mode.
deleteTemplate(t) ==
    /\ DeleteButton(t) /\ row[t] # None /\ job = None /\ opens < MaxOpens
    /\ opens' = opens + 1
    /\ row' = [row EXCEPT ![t] = None]
    /\ editing' = FALSE
    /\ Effects([View EXCEPT !.canvas = Blank, !.last = None, !.unsaved = FALSE,
                            !.status = "idle"],
               cache, [fetch EXCEPT ![t] = None], list, created, None)
    /\ UNCHANGED <<writes, job, edits>>

(***************************************************************************)
(* Other users, and the lock calls that write the row.                     *)
(***************************************************************************)
\* Acquiring a lock, and every heartbeat, writes the row with a new updated_at.
LockWrites(t) ==
    /\ CanWrite(t)
    /\ row' = [row EXCEPT ![t].stamp = writes + 1] /\ writes' = writes + 1
    /\ UNCHANGED <<query, sel, created, editing, shown, job, edits, opens>>

OtherSaves(t) ==
    /\ "save" \in Others /\ CanWrite(t)
    /\ row' = Updated(t, [tree |-> t, edit |-> MaxEdits + 1]) /\ writes' = writes + 1
    /\ UNCHANGED <<query, sel, created, editing, shown, job, edits, opens>>

OtherDeletes(t) ==
    /\ "delete" \in Others /\ row[t] # None
    /\ row' = [row EXCEPT ![t] = None]
    /\ UNCHANGED <<writes, query, sel, created, editing, shown, job, edits, opens>>

Init ==
    /\ row = [t \in Trees |-> IF t \in Initial THEN [body |-> Start(t), stamp |-> 0] ELSE None]
    /\ cache = [t \in Trees |-> None] /\ fetch = [t \in Trees |-> None]
    /\ list = {} /\ sel = None /\ created = None /\ editing = FALSE
    /\ canvas = Blank /\ loaded = None /\ last = None /\ unsaved = FALSE
    /\ status = "idle" /\ job = None /\ edits = 0 /\ writes = 0 /\ opens = 0

Next ==
    \/ RefetchTemplate \/ ListFetched \/ Edit
    \/ handleSave \/ releaseLock \/ pddlSave
    \/ SaveDone \/ ReleaseDone \/ PddlDone \/ SaveFails \/ ErrorShown
    \/ \E b \in BOOLEAN : setIsEditing(b)
    \/ \E t \in Trees : \/ TemplateFetched(t) \/ handleOpenTask(t)
                        \/ createTemplate(t) \/ deleteTemplate(t)
                        \/ LockWrites(t) \/ OtherSaves(t) \/ OtherDeletes(t)

Spec == Init /\ [][Next]_vars

(***************************************************************************)
(* Properties                                                              *)
(***************************************************************************)
\* Whatever was opened, loaded, created or deleted before: what a save sends to
\* a tree was made for that tree, so no tree is overwritten with another's steps.
NoCrossTreeSave ==
    job # None => job.shot.body \in {Empty, Start(job.tree)} \cup
                                    [tree : {job.tree}, edit : 0 .. MaxEdits + 1]

\* Outside the creation of a tree the selection is one of the listed trees, so
\* a stale id of localStorage or a deleted tree is never left open.
SelectionValid == created = None /\ list # {} => sel \in list

\* A background refetch leaves edits of the open tree alone while nobody has written
\* its row: what takes them from the canvas is another choice of the user (opens counts these),
\* a write under way, or a row whose version or updated_at moved since the load.
ReloadNeedsWrite ==
    [][ (/\ sel' = sel /\ loaded # None /\ loaded.id = sel /\ canvas.body.edit \in 1 .. MaxEdits
         /\ canvas'.body # canvas.body /\ edits' = edits /\ opens' = opens)
        => row[sel] = None \/ row[sel].stamp # loaded.sig[1] \/ job # None ]_vars
=============================================================================
