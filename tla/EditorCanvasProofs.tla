------------------------- MODULE EditorCanvasProofs -------------------------
(***************************************************************************)
(* A save never sends the canvas of one tree to another, and a background  *)
(* refetch takes no edits from the canvas of a tree nobody has written,    *)
(* for any trees and any number of edits, writes and changes of the        *)
(* selection.                                                              *)
(*                                                                         *)
(* What is sent is what is on the canvas, so the canvas must belong to the *)
(* selection.  Three facts carry that from step to step: whatever is       *)
(* stored, cached or under way for a tree is that tree's; a canvas that is *)
(* not empty is the one of loadedTemplateRef, which is the selection; and  *)
(* a selection whose template is cached has been loaded, so that the first *)
(* edit of an empty canvas belongs to it too.                              *)
(*                                                                         *)
(* A refetch reloads the canvas when the signature differs.  With the      *)
(* row's stamp where it was at the load it cannot: answers are never newer *)
(* than the row nor older than the cache, and one stamp means one body,    *)
(* but for the draft that PDDL Config puts into the cache (StampInv).      *)
(***************************************************************************)
EXTENDS EditorCanvas, TLAPS

Own(b, t) == b = Empty \/ b \in [tree : {t}, edit : 0 .. MaxEdits + 1]

\* A table of rows, on the server, in the cache or under way.
Table(q) ==
    /\ q \in [Trees -> Rows \cup {None}]
    /\ \A t \in Trees : q[t] # None => Own(q[t].body, t)

\* A view whose canvas is that of the tree it was loaded for.
ViewOK(v) ==
    /\ v \in [canvas : Canvases, loaded : Loads \cup {None}, last : Canvases \cup {None},
              unsaved : BOOLEAN, status : Statuses]
    /\ v.canvas.body # Empty => v.loaded # None /\ Own(v.canvas.body, v.loaded.id)

\* The canvas, the row loaded for it, and the selection.
CanvasFits ==
    canvas.body # Empty => loaded # None /\ loaded.id = sel /\ Own(canvas.body, sel)
CachedIsLoaded ==
    sel # None /\ cache[sel] # None => loaded # None /\ loaded.id = sel
JobFits ==
    job # None => /\ Own(job.shot.body, job.tree)
                  /\ job.by = "pddl" => job.prev \in Rows /\ Own(job.prev.body, job.tree)

SaveInv ==
    /\ TypeOK
    /\ Table(row) /\ Table(cache) /\ Table(fetch)
    /\ CanvasFits /\ CachedIsLoaded /\ JobFits
    /\ SelectionValid

\* The part of the invariant that the effects establish.
PageInv ==
    /\ list \subseteq Trees /\ sel \in Trees \cup {None} /\ created \in Trees \cup {None}
    /\ canvas \in Canvases /\ loaded \in Loads \cup {None} /\ last \in Canvases \cup {None}
    /\ unsaved \in BOOLEAN /\ status \in Statuses
    /\ Table(cache) /\ Table(fetch)
    /\ CanvasFits /\ CachedIsLoaded /\ SelectionValid

-----------------------------------------------------------------------------
LEMMA OwnTyped ==
    ASSUME NEW t \in Trees, NEW b, Own(b, t)
    PROVE  b \in Bodies \cup {Empty}
  BY DEF Own, Bodies

LEMMA EmptyOwn == \A t : Own(Empty, t)
  BY DEF Own

LEMMA BlankCanvas == Blank \in Canvases /\ Blank.body = Empty
  BY DEF Blank, Canvases

\* A changed entry that fits keeps a table a table.
LEMMA TableSet ==
    ASSUME NEW q, Table(q), NEW t \in Trees, NEW r,
           r = None \/ (r \in Rows /\ Own(r.body, t))
    PROVE  Table([q EXCEPT ![t] = r])
  BY DEF Table

LEMMA FetchedTable ==
    ASSUME NEW f, Table(f), NEW q, Table(q), NEW t \in Trees \cup {None}
    PROVE  Table(Fetched(f, t, q))
<1>1. CASE t = None \/ q[t] = None
  BY <1>1 DEF Fetched
<1>2. CASE ~ (t = None \/ q[t] = None)
  <2>1. t \in Trees /\ q[t] \in Rows /\ Own(q[t].body, t)
    BY <1>2 DEF Table
  <2>2. Table([f EXCEPT ![t] = q[t]])
    BY <2>1, TableSet
  <2> QED BY <1>2, <2>2 DEF Fetched
<1> QED BY <1>1, <1>2

LEMMA ClearKeeps ==
    ASSUME NEW v, ViewOK(v), NEW t
    PROVE  /\ ViewOK(ClearCanvas(v, t))
           /\ ClearCanvas(v, t).loaded = v.loaded
           /\ ClearCanvas(v, t).canvas.body # Empty => v.loaded # None /\ v.loaded.id = t
  BY BlankCanvas DEF ViewOK, ClearCanvas, Statuses

LEMMA LoadKeeps ==
    ASSUME NEW v, ViewOK(v), NEW t \in Trees \cup {None}, NEW r,
           r = None \/ (r \in Rows /\ Own(r.body, t)),
           v.canvas.body # Empty => v.loaded # None /\ v.loaded.id = t
    PROVE  LET w == LoadTemplate(v, t, r)
           IN /\ ViewOK(w)
              /\ w.canvas.body # Empty => w.loaded # None /\ w.loaded.id = t
              /\ t # None /\ r # None => w.loaded # None /\ w.loaded.id = t
<1> DEFINE sig == buildTemplateLoadSignature(r)
           id == [id |-> t, sig |-> sig]
           c == [body |-> r.body, flag |-> FALSE]
<1>1. CASE t = None \/ r = None
  BY <1>1 DEF LoadTemplate
<1>2. CASE t # None /\ r # None
  <2>1. r \in Rows /\ Own(r.body, t) /\ t \in Trees
    BY <1>2
  <2>2. id \in Loads /\ id # None /\ id.id = t
    <3>1. r.stamp \in 0 .. MaxWrites /\ r.body.edit \in 0 .. MaxEdits + 1
      BY <2>1, CanvasAssumption DEF Rows, Bodies, Empty
    <3>2. Shape(r.body) \in 0 .. MaxEdits + 1
      BY <3>1, CanvasAssumption DEF Shape
    <3> QED BY <2>1, <3>1, <3>2, NullAssumption DEF Loads, buildTemplateLoadSignature
  <2>3. c \in Canvases /\ Own(c.body, t)
    BY <2>1 DEF Canvases, Rows
  <2>4. CASE v.loaded = id
    <3>1. LoadTemplate(v, t, r) = v
      BY <2>4 DEF LoadTemplate
    <3> QED BY <2>2, <2>4, <3>1
  <2>5. CASE v.loaded # id
    <3>1. LoadTemplate(v, t, r) =
            [canvas |-> c, loaded |-> id, last |-> c, unsaved |-> FALSE, status |-> "idle"]
      BY <1>2, <2>5 DEF LoadTemplate
    <3> QED BY <2>2, <2>3, <3>1 DEF ViewOK, Statuses
  <2> QED BY <2>4, <2>5
<1> QED BY <1>1, <1>2

LEMMA SelectKeeps ==
    ASSUME NEW ids \in SUBSET Trees, NEW pending \in Trees \cup {None},
           NEW s \in Trees \cup {None}, NEW p \in AutoSelect(ids, pending, s)
    PROVE  /\ p[1] \in Trees \cup {None} /\ p[2] \in Trees \cup {None}
           /\ p[2] = None /\ ids # {} => p[1] \in ids
  BY DEF AutoSelect

\* Whatever a handler hands to the effects, they leave a coherent page.
LEMMA EffectsKeep ==
    ASSUME NEW v, ViewOK(v), NEW c, Table(c), NEW f, Table(f), Table(row'),
           NEW ids \in SUBSET Trees, NEW pending \in Trees \cup {None},
           NEW s \in Trees \cup {None}, Effects(v, c, f, ids, pending, s)
    PROVE  PageInv'
<1>1. PICK p \in AutoSelect(ids, pending, s) :
        /\ sel' = p[1] /\ created' = p[2] /\ list' = ids /\ cache' = c
        /\ Show(LoadTemplate(ClearCanvas(v, p[1]), p[1], Data(c, p[1])))
        /\ fetch' = IF p[1] # sel THEN Fetched(f, p[1], row') ELSE f
  BY DEF Effects
<1>2. /\ sel' \in Trees \cup {None} /\ created' \in Trees \cup {None}
      /\ created' = None /\ list' # {} => sel' \in list'
  BY <1>1, SelectKeeps
<1>3. Table(fetch') /\ Table(cache')
  BY <1>1, <1>2, FetchedTable
<1> DEFINE u == ClearCanvas(v, sel')
           r == Data(c, sel')
           w == LoadTemplate(u, sel', r)
<1>4. ViewOK(u) /\ (u.canvas.body # Empty => u.loaded # None /\ u.loaded.id = sel')
  BY ClearKeeps
<1>5. r = None \/ (r \in Rows /\ Own(r.body, sel'))
  BY <1>2 DEF Data, Table
<1>6. /\ ViewOK(w)
      /\ w.canvas.body # Empty => w.loaded # None /\ w.loaded.id = sel'
      /\ sel' # None /\ r # None => w.loaded # None /\ w.loaded.id = sel'
  <2> HIDE DEF u, r
  <2> QED BY <1>2, <1>4, <1>5, LoadKeeps
<1>7. /\ canvas' = w.canvas /\ loaded' = w.loaded /\ last' = w.last
      /\ unsaved' = w.unsaved /\ status' = w.status
  BY <1>1 DEF Show
<1> HIDE DEF w
<1>8. CanvasFits' /\ SelectionValid'
  BY <1>2, <1>6, <1>7 DEF CanvasFits, SelectionValid, ViewOK
<1>9. CachedIsLoaded'
  BY <1>1, <1>6, <1>7 DEF CachedIsLoaded, Data
<1>10. /\ canvas' \in Canvases /\ loaded' \in Loads \cup {None} /\ last' \in Canvases \cup {None}
       /\ unsaved' \in BOOLEAN /\ status' \in Statuses
  BY <1>6, <1>7 DEF ViewOK
<1> QED BY <1>1, <1>2, <1>3, <1>8, <1>9, <1>10 DEF PageInv, Table

\* The rest of the invariant.
JobInv ==
    /\ Table(row) /\ JobFits
    /\ editing \in BOOLEAN /\ job \in Jobs \cup {None}
    /\ edits \in 0 .. MaxEdits /\ writes \in 0 .. MaxWrites /\ opens \in 0 .. MaxOpens

LEMMA SaveInvParts == SaveInv <=> PageInv /\ JobInv
  BY DEF SaveInv, PageInv, JobInv, TypeOK, Table

LEMMA SaveInvPartsPrimed == SaveInv' <=> PageInv' /\ JobInv'
  BY SaveInvParts, PTL

\* What the page shows fits, as the effects find it.
LEMMA ViewFits ==
    ASSUME PageInv
    PROVE  ViewOK(View)
  BY DEF PageInv, CanvasFits, ViewOK, View

\* A row as a save, a lock call or another user leaves it.
LEMMA WrittenRow ==
    ASSUME JobInv, NEW t \in Trees, NEW b, Own(b, t), writes < MaxWrites
    PROVE  /\ writes + 1 \in 0 .. MaxWrites
           /\ Table([row EXCEPT ![t] = [body |-> b, stamp |-> writes + 1]])
<1>1. writes + 1 \in 0 .. MaxWrites
  BY CanvasAssumption DEF JobInv
<1>2. [body |-> b, stamp |-> writes + 1] \in Rows
  BY <1>1, OwnTyped DEF Rows
<1> QED BY <1>1, <1>2, TableSet DEF JobInv

LEMMA PageStays ==
    ASSUME PageInv, UNCHANGED <<query, sel, created, shown>>
    PROVE  PageInv'
  BY DEF PageInv, query, shown, CanvasFits, CachedIsLoaded, SelectionValid, Table

\* A step that changes the page as the effects do and leaves the writes alone.
LEMMA RowStays ==
    ASSUME JobInv, UNCHANGED <<row, writes, job>>, editing' \in BOOLEAN,
           edits' \in 0 .. MaxEdits, opens' \in 0 .. MaxOpens
    PROVE  JobInv'
  BY DEF JobInv, JobFits, Table

-----------------------------------------------------------------------------
LEMMA SaveInit == Init => SaveInv
<1> SUFFICES ASSUME Init PROVE SaveInv
  OBVIOUS
<1>1. \A t \in Initial : [body |-> Start(t), stamp |-> 0] \in Rows /\ Own(Start(t), t)
  BY CanvasAssumption DEF Start, Rows, Bodies, Own
<1>2. Table(row)
  BY <1>1, CanvasAssumption DEF Init, Table
<1>3. Table(cache) /\ Table(fetch)
  BY DEF Init, Table
<1>4. PageInv
  BY <1>3, BlankCanvas DEF Init, PageInv, CanvasFits, CachedIsLoaded, SelectionValid, Statuses
<1>5. /\ editing = FALSE /\ job = None /\ edits = 0 /\ writes = 0 /\ opens = 0
      /\ 0 \in 0 .. MaxEdits /\ 0 \in 0 .. MaxWrites /\ 0 \in 0 .. MaxOpens
  BY CanvasAssumption DEF Init
<1>6. JobInv
  BY <1>2, <1>5 DEF JobInv, JobFits
<1> QED BY <1>4, <1>6, SaveInvParts

\* Queries: what is fetched is a row, what was fetched is cached.
LEMMA QueriesKeep ==
    ASSUME PageInv, JobInv,
           RefetchTemplate \/ ListFetched \/ \E t \in Trees : TemplateFetched(t)
    PROVE  PageInv' /\ JobInv'
<1>1. CASE RefetchTemplate
  <2>1. Table(fetch')
    BY <1>1, FetchedTable DEF RefetchTemplate, PageInv, JobInv
  <2>2. PageInv'
    BY <1>1, <2>1 DEF RefetchTemplate, PageInv, shown, CanvasFits, CachedIsLoaded,
                      SelectionValid, Table
  <2>3. JobInv'
    BY <1>1, RowStays DEF RefetchTemplate, server, JobInv
  <2> QED BY <2>2, <2>3
<1>2. ASSUME NEW t \in Trees, TemplateFetched(t) PROVE PageInv' /\ JobInv'
  <2>1. fetch[t] \in Rows /\ Own(fetch[t].body, t)
    BY <1>2 DEF TemplateFetched, PageInv, Table
  <2>2. Table([cache EXCEPT ![t] = fetch[t]]) /\ Table([fetch EXCEPT ![t] = None])
    BY <2>1, TableSet DEF PageInv
  <2>3. JobInv' /\ Table(row')
    BY <1>2, RowStays DEF TemplateFetched, server, JobInv
  <2>4. PageInv'
    BY <1>2, <2>2, <2>3, ViewFits, EffectsKeep DEF TemplateFetched, PageInv
  <2> QED BY <2>3, <2>4
<1>3. CASE ListFetched
  <2>1. JobInv' /\ Table(row')
    BY <1>3, RowStays DEF ListFetched, server, JobInv
  <2>2. PageInv'
    BY <1>3, <2>1, ViewFits, EffectsKeep DEF ListFetched, PageInv
  <2> QED BY <2>1, <2>2
<1> QED BY <1>1, <1>2, <1>3

\* What the user does: a save sends the canvas to the selection.
LEMMA UserKeeps ==
    ASSUME PageInv, JobInv,
           \/ \E t \in Trees : handleOpenTask(t)
           \/ \E b \in BOOLEAN : setIsEditing(b)
           \/ Edit \/ handleSave \/ releaseLock \/ pddlSave \/ ErrorShown
    PROVE  PageInv' /\ JobInv'
<1>1. ASSUME NEW t \in Trees, handleOpenTask(t) PROVE PageInv' /\ JobInv'
  <2>1. opens' \in 0 .. MaxOpens
    BY <1>1, CanvasAssumption DEF handleOpenTask, JobInv
  <2>2. JobInv' /\ Table(row')
    BY <1>1, <2>1, RowStays DEF handleOpenTask, server, JobInv
  <2>3. PageInv'
    BY <1>1, <2>2, ViewFits, EffectsKeep DEF handleOpenTask, PageInv
  <2> QED BY <2>2, <2>3
<1>2. ASSUME NEW b \in BOOLEAN, setIsEditing(b) PROVE PageInv' /\ JobInv'
  <2>1. canvas' \in Canvases /\ canvas'.body = canvas.body /\ unsaved' \in BOOLEAN
    BY <1>2 DEF setIsEditing, PageInv, Canvases, hasUnsavedChanges
  <2>2. PageInv'
    BY <1>2, <2>1 DEF setIsEditing, PageInv, query, CanvasFits, CachedIsLoaded,
                      SelectionValid, Table
  <2>3. JobInv'
    BY <1>2, RowStays DEF setIsEditing, server, JobInv
  <2> QED BY <2>2, <2>3
<1>3. CASE Edit
  <2>1. sel \in Trees /\ cache[sel] # None /\ loaded # None /\ loaded.id = sel
    BY <1>3 DEF Edit, PageInv, CachedIsLoaded
  <2>2. edits + 1 \in 0 .. MaxEdits /\ edits + 1 \in 0 .. MaxEdits + 1
    BY <1>3, CanvasAssumption DEF Edit, JobInv
  <2> DEFINE owner == IF canvas.body = Empty THEN sel ELSE canvas.body.tree
  <2>3. owner = sel
    BY DEF PageInv, CanvasFits, Own
  <2>4. canvas'.body = [tree |-> sel, edit |-> edits + 1] /\ canvas'.flag \in BOOLEAN
        /\ canvas' = [body |-> canvas'.body, flag |-> canvas'.flag]
    BY <1>3, <2>3 DEF Edit, PageInv, Canvases
  <2>5. Own(canvas'.body, sel) /\ canvas'.body \in Bodies
    BY <2>1, <2>2, <2>4 DEF Own, Bodies
  <2>6. canvas' \in Canvases /\ unsaved' \in BOOLEAN
    BY <1>3, <2>4, <2>5 DEF Edit, Canvases, hasUnsavedChanges
  <2>7. PageInv'
    BY <1>3, <2>1, <2>5, <2>6 DEF Edit, PageInv, query, CanvasFits, CachedIsLoaded,
                                  SelectionValid, Table
  <2>8. JobInv'
    BY <1>3, <2>2, RowStays DEF Edit, server, JobInv
  <2> QED BY <2>7, <2>8
<1>4. CASE handleSave \/ releaseLock
  <2>1. sel \in Trees /\ Own(canvas.body, sel) /\ canvas \in Canvases
    BY <1>4, EmptyOwn DEF handleSave, releaseLock, SaveButton, PageInv, CanvasFits
  <2>2. PICK by \in {"save", "release"} :
            job' = [by |-> by, tree |-> sel, shot |-> canvas, prev |-> None]
    BY <1>4 DEF handleSave, releaseLock
  <2>3. job' \in Jobs /\ Own(job'.shot.body, job'.tree) /\ job'.by # "pddl"
    BY <2>1, <2>2 DEF Jobs
  <2>4. JobInv'
    BY <1>4, <2>3 DEF handleSave, releaseLock, server, JobInv, JobFits, Table
  <2>5. PageInv'
    BY <1>4 DEF handleSave, releaseLock, PageInv, query, shown, CanvasFits, CachedIsLoaded,
                SelectionValid, Table, Statuses
  <2> QED BY <2>4, <2>5
<1>5. CASE pddlSave
  <2>1. sel \in Trees /\ Own(canvas.body, sel) /\ canvas \in Canvases
        /\ cache[sel] \in Rows /\ Own(cache[sel].body, sel)
    BY <1>5, EmptyOwn DEF pddlSave, PageInv, CanvasFits, Table
  <2>2. job' = [by |-> "pddl", tree |-> sel, shot |-> canvas, prev |-> cache[sel]]
    BY <1>5 DEF pddlSave
  <2>3. job' \in Jobs /\ Own(job'.shot.body, job'.tree)
        /\ job'.prev \in Rows /\ Own(job'.prev.body, job'.tree)
    BY <2>1, <2>2 DEF Jobs
  <2>4. JobInv' /\ Table(row')
    BY <1>5, <2>3 DEF pddlSave, server, JobInv, JobFits, Table
  <2> DEFINE r == [cache[sel] EXCEPT !.body = canvas.body]
             c == [cache EXCEPT ![sel].body = canvas.body]
  <2>5. r \in Rows /\ Own(r.body, sel)
    BY <2>1 DEF Rows, Canvases
  <2>6. c = [cache EXCEPT ![sel] = r]
    OBVIOUS
  <2>7. Table(c)
    <3> HIDE DEF r
    <3>1. Table([cache EXCEPT ![sel] = r])
      BY <2>1, <2>5, TableSet DEF PageInv
    <3> QED BY <2>6, <3>1
  <2>8. Effects(View, c, fetch, list, created, sel)
    BY <1>5 DEF pddlSave
  <2>9. PageInv'
    <3> HIDE DEF c
    <3> QED BY <2>4, <2>7, <2>8, ViewFits, EffectsKeep DEF PageInv
  <2> QED BY <2>4, <2>9
<1>6. CASE ErrorShown
  <2>1. JobInv'
    BY <1>6, RowStays DEF ErrorShown, server, JobInv
  <2>2. PageInv'
    BY <1>6 DEF ErrorShown, PageInv, query, CanvasFits, CachedIsLoaded, SelectionValid,
                Table, Statuses
  <2> QED BY <2>1, <2>2
<1> QED BY <1>1, <1>2, <1>3, <1>4, <1>5, <1>6

\* A save that is answered writes what it sent, which is the tree's own.
LEMMA JobWrites ==
    ASSUME JobInv, job # None, writes < MaxWrites,
           row' = Updated(job.tree, job.shot.body), writes' = writes + 1, job' = None,
           editing' \in BOOLEAN, UNCHANGED <<edits, opens>>
    PROVE  JobInv'
<1>1. job.tree \in Trees /\ Own(job.shot.body, job.tree)
  BY DEF JobInv, JobFits, Jobs
<1>2. Table(row') /\ writes' \in 0 .. MaxWrites
  BY <1>1, WrittenRow DEF Updated
<1> QED BY <1>2 DEF JobInv, JobFits, Table

LEMMA AnswersKeep ==
    ASSUME PageInv, JobInv, SaveDone \/ ReleaseDone \/ PddlDone \/ SaveFails
    PROVE  PageInv' /\ JobInv'
<1>1. job \in Jobs /\ job.shot \in Canvases
  BY DEF JobInv, SaveDone, ReleaseDone, PddlDone, SaveFails, Jobs
<1>2. CASE SaveDone
  <2>1. JobInv'
    BY <1>2, JobWrites DEF SaveDone, CanWrite, JobInv
  <2>2. Table(fetch')
    BY <1>2, <2>1, FetchedTable DEF SaveDone, PageInv, JobInv
  <2>3. PageInv'
    BY <1>1, <1>2, <2>2 DEF SaveDone, PageInv, CanvasFits, CachedIsLoaded,
                            SelectionValid, Table, Statuses
  <2> QED BY <2>1, <2>3
<1>3. CASE ReleaseDone
  <2>1. JobInv'
    BY <1>3, JobWrites DEF ReleaseDone, CanWrite
  <2>2. Table(fetch')
    BY <1>3, <2>1, FetchedTable DEF ReleaseDone, PageInv, JobInv
  <2>3. canvas' \in Canvases /\ canvas'.body = canvas.body /\ unsaved' \in BOOLEAN
    BY <1>3 DEF ReleaseDone, PageInv, Canvases, hasUnsavedChanges
  <2>4. PageInv'
    BY <1>1, <1>3, <2>2, <2>3 DEF ReleaseDone, PageInv, CanvasFits, CachedIsLoaded,
                                  SelectionValid, Table
  <2> QED BY <2>1, <2>4
<1>4. CASE PddlDone
  <2>1. JobInv'
    BY <1>4, JobWrites DEF PddlDone, CanWrite, JobInv
  <2>2. Table(fetch')
    BY <1>4, <2>1, FetchedTable DEF PddlDone, PageInv, JobInv
  <2>3. PageInv'
    BY <1>4, <2>2 DEF PddlDone, PageInv, shown, CanvasFits, CachedIsLoaded,
                      SelectionValid, Table
  <2> QED BY <2>1, <2>3
<1>5. CASE SaveFails /\ job.by = "save"
  <2>1. JobInv'
    BY <1>5 DEF SaveFails, server, JobInv, JobFits, Table
  <2>2. PageInv'
    BY <1>5 DEF SaveFails, PageInv, query, CanvasFits, CachedIsLoaded, SelectionValid,
                Table, Statuses
  <2> QED BY <2>1, <2>2
<1>6. CASE SaveFails /\ job.by = "release"
  <2>1. PICK go \in BOOLEAN :
            /\ editing' = (editing /\ ~go)
            /\ canvas' = [canvas EXCEPT !.flag = @ /\ ~go]
            /\ unsaved' = IF go THEN hasUnsavedChanges(canvas', last) ELSE unsaved
    BY <1>6 DEF SaveFails
  <2>2. canvas' \in Canvases /\ canvas'.body = canvas.body /\ unsaved' \in BOOLEAN
    BY <2>1 DEF PageInv, Canvases, hasUnsavedChanges
  <2>3. editing' \in BOOLEAN
    BY <2>1 DEF JobInv
  <2>4. JobInv'
    BY <1>6, <2>3 DEF SaveFails, server, JobInv, JobFits, Table
  <2>5. PageInv'
    BY <1>6, <2>2 DEF SaveFails, PageInv, query, CanvasFits, CachedIsLoaded,
                      SelectionValid, Table
  <2> QED BY <2>4, <2>5
<1>7. CASE SaveFails /\ job.by = "pddl"
  <2>1. job.tree \in Trees /\ job.prev \in Rows /\ Own(job.prev.body, job.tree)
    BY <1>1, <1>7 DEF SaveFails, JobInv, JobFits, Jobs
  <2>2. Table([cache EXCEPT ![job.tree] = job.prev])
    BY <2>1, TableSet DEF PageInv
  <2>3. JobInv' /\ Table(row')
    BY <1>7 DEF SaveFails, server, JobInv, JobFits, Table
  <2>4. Effects(View, [cache EXCEPT ![job.tree] = job.prev], fetch, list, created, sel)
    BY <1>7 DEF SaveFails
  <2>5. PageInv'
    BY <2>2, <2>3, <2>4, ViewFits, EffectsKeep DEF PageInv
  <2> QED BY <2>3, <2>5
<1> QED BY <1>2, <1>3, <1>4, <1>5, <1>6, <1>7 DEF SaveFails

\* Trees come and go, and others write their rows.
LEMMA TreesKeep ==
    ASSUME PageInv, JobInv, NEW t \in Trees,
           createTemplate(t) \/ deleteTemplate(t) \/ OtherDeletes(t)
    PROVE  PageInv' /\ JobInv'
<1>1. CASE createTemplate(t)
  <2>1. Own(Start(t), t)
    BY CanvasAssumption DEF Own, Start
  <2>2. Table(row') /\ writes' \in 0 .. MaxWrites
    BY <1>1, <2>1, WrittenRow DEF createTemplate
  <2>3. opens' \in 0 .. MaxOpens
    BY <1>1, CanvasAssumption DEF createTemplate, JobInv
  <2>4. JobInv'
    BY <1>1, <2>2, <2>3 DEF createTemplate, JobInv, JobFits, Table
  <2>5. PageInv'
    BY <1>1, <2>2, ViewFits, EffectsKeep DEF createTemplate, PageInv
  <2> QED BY <2>4, <2>5
<1>2. CASE deleteTemplate(t)
  <2>1. Table(row')
    BY <1>2, TableSet DEF deleteTemplate, JobInv
  <2>2. opens' \in 0 .. MaxOpens
    BY <1>2, CanvasAssumption DEF deleteTemplate, JobInv
  <2>3. JobInv'
    BY <1>2, <2>1, <2>2 DEF deleteTemplate, JobInv, JobFits, Table
  <2> DEFINE v == [View EXCEPT !.canvas = Blank, !.last = None, !.unsaved = FALSE,
                               !.status = "idle"]
  <2>4. ViewOK(v)
    BY ViewFits, BlankCanvas DEF ViewOK, Statuses
  <2>5. Table([fetch EXCEPT ![t] = None])
    BY TableSet DEF PageInv
  <2>6. Effects(v, cache, [fetch EXCEPT ![t] = None], list, created, None)
    BY <1>2 DEF deleteTemplate
  <2>7. PageInv'
    <3> HIDE DEF v
    <3> QED BY <2>1, <2>4, <2>5, <2>6, EffectsKeep DEF PageInv
  <2> QED BY <2>3, <2>7
<1>3. CASE OtherDeletes(t)
  <2>1. Table(row')
    BY <1>3, TableSet DEF OtherDeletes, JobInv
  <2>2. JobInv'
    BY <1>3, <2>1 DEF OtherDeletes, JobInv, JobFits, Table
  <2>3. PageInv'
    BY <1>3, PageStays DEF OtherDeletes
  <2> QED BY <2>2, <2>3
<1> QED BY <1>1, <1>2, <1>3

LEMMA WritersKeep ==
    ASSUME PageInv, JobInv, NEW t \in Trees, LockWrites(t) \/ OtherSaves(t)
    PROVE  PageInv' /\ JobInv'
<1>1. row[t] \in Rows /\ Own(row[t].body, t)
  BY DEF LockWrites, OtherSaves, CanWrite, JobInv, Table
<1>2. CASE LockWrites(t)
  <2> DEFINE r == [row[t] EXCEPT !.stamp = writes + 1]
  <2>0. r = [body |-> row[t].body, stamp |-> writes + 1]
    BY <1>1 DEF Rows
  <2>1. row' = [row EXCEPT ![t] = [body |-> row[t].body, stamp |-> writes + 1]]
    <3>1. row' = [row EXCEPT ![t] = r]
      BY <1>2 DEF LockWrites
    <3> HIDE DEF r
    <3> QED BY <2>0, <3>1
  <2>2. Table(row') /\ writes' \in 0 .. MaxWrites
    BY <1>1, <1>2, <2>1, WrittenRow DEF LockWrites, CanWrite
  <2>3. JobInv'
    BY <1>2, <2>2 DEF LockWrites, JobInv, JobFits, Table
  <2> QED BY <1>2, <2>3, PageStays DEF LockWrites
<1>3. CASE OtherSaves(t)
  <2>1. Own([tree |-> t, edit |-> MaxEdits + 1], t)
    BY CanvasAssumption DEF Own
  <2>2. Table(row') /\ writes' \in 0 .. MaxWrites
    BY <1>3, <2>1, WrittenRow DEF OtherSaves, CanWrite, Updated
  <2>3. JobInv'
    BY <1>3, <2>2 DEF OtherSaves, JobInv, JobFits, Table
  <2> QED BY <1>3, <2>3, PageStays DEF OtherSaves
<1> QED BY <1>2, <1>3

LEMMA SaveNext == SaveInv /\ [Next]_vars => SaveInv'
<1> SUFFICES ASSUME SaveInv, [Next]_vars PROVE SaveInv'
  OBVIOUS
<1>0. PageInv /\ JobInv
  BY SaveInvParts
<1>1. CASE UNCHANGED vars
  <2>1. PageInv'
    BY <1>0, <1>1, PageStays DEF vars, query, shown
  <2>2. JobInv'
    BY <1>0, <1>1, RowStays DEF vars, JobInv
  <2> QED BY <2>1, <2>2, SaveInvPartsPrimed
<1> QED BY <1>0, <1>1, QueriesKeep, UserKeeps, AnswersKeep, TreesKeep, WritersKeep,
           SaveInvPartsPrimed DEF Next

-----------------------------------------------------------------------------
LEMMA SaveInvariance == Spec => []SaveInv
  BY SaveInit, SaveNext, PTL DEF Spec

\* TypeOK: rows, caches and views have the shapes the page relies on.
THEOREM EditorTypeCorrect == Spec => []TypeOK
<1>1. SaveInv => TypeOK
  BY DEF SaveInv
<1> QED BY <1>1, SaveInvariance, PTL

\* NoCrossTreeSave: saveTemplate, releaseLock and the PDDL dialog never send a tree
\* the drawing of another, however queries, saves, deletions and other users interleave.
THEOREM SavesStayInTree == Spec => []NoCrossTreeSave
<1>1. SaveInv => NoCrossTreeSave
  BY DEF SaveInv, JobFits, NoCrossTreeSave, Own
<1> QED BY <1>1, SaveInvariance, PTL

\* SelectionValid: outside the creation of a tree the selection is a listed one.
THEOREM SelectionStaysListed == Spec => []SelectionValid
<1>1. SaveInv => SelectionValid
  BY DEF SaveInv
<1> QED BY <1>1, SaveInvariance, PTL
-----------------------------------------------------------------------------
(***************************************************************************)
(* Versions.  q is the row of a tree, w the number of writes so far.       *)
(***************************************************************************)
\* r is not newer than the row; nor, with the row's stamp, different from it.
Ages(r, q, w) == r.stamp <= w /\ (q # None => r.stamp <= q.stamp)
Old(r, q, w) ==
    Ages(r, q, w) /\ (q # None /\ r.stamp = q.stamp => r.body = q.body)

\* The row q of a tree, the answer f under way, the cached c, and v, what PDDL
\* Config would restore while its draft is cached.
Stamped(q, w, f, c, v) ==
    /\ q # None => q.stamp <= w
    /\ f # None => Old(f, q, w)
    /\ c # None => Ages(c, q, w) /\ (v # None \/ Old(c, q, w))
    /\ c # None /\ f # None => c.stamp <= f.stamp
    /\ v # None => Old(v, q, w) /\ (f # None => v.stamp <= f.stamp)

Drafted(t) == job # None /\ job.by = "pddl" /\ job.tree = t
Prev(t) == IF Drafted(t) THEN job.prev ELSE None

\* The canvas was loaded from what is cached, draft included.
LoadedIsCached ==
    /\ sel # None /\ cache[sel] # None =>
           loaded = [id |-> sel, sig |-> buildTemplateLoadSignature(cache[sel])]
    /\ loaded # None => cache[loaded.id] # None

StampInv ==
    /\ SaveInv
    /\ \A t \in Trees : Stamped(row[t], writes, fetch[t], cache[t], Prev(t))
    /\ LoadedIsCached

\* A row stays, is deleted, or is written with the next number.
Moves(q, p, w, x) ==
    \/ p \in {q, None} /\ x >= w
    \/ p # None /\ p.stamp = w + 1 /\ x = w + 1

\* What was old stays old, and any version is once the row is written.
LEMMA Aging ==
    ASSUME NEW w \in Nat, NEW x \in Nat, NEW q \in Rows \cup {None}, NEW p \in Rows \cup {None},
           q # None => q.stamp <= w, Moves(q, p, w, x)
    PROVE  /\ p # None => p.stamp <= x
           /\ \A r \in Rows : /\ Ages(r, q, w) => Ages(r, p, x)
                              /\ Old(r, q, w) => Old(r, p, x)
                              /\ Ages(r, q, w) /\ p # None /\ p.stamp = w + 1 => Old(r, p, x)
<1>1. \A r \in Rows : r.stamp \in Nat
  BY CanvasAssumption DEF Rows
<1>2. (q # None => q.stamp \in Nat) /\ (p # None => p.stamp \in Nat)
  BY <1>1
<1> QED BY <1>1, <1>2 DEF Moves, Ages, Old

\* How a step moves what is known of one tree, from the row q, the writes w, the
\* answer f, the cached c and the restorable v to p, x, g, d and u: the cache stays,
\* takes the answer, gets a draft, loses it again, or keeps it because it was written.
EntryMoves(q, w, f, c, v, p, x, g, d, u) ==
    /\ Moves(q, p, w, x)
    /\ g \in {f, None, p}
    /\ \/ d = c /\ u = v
       \/ d = f /\ g \in {None, p} /\ u = v
       \/ c # None /\ v = None /\ d # None /\ d.stamp = c.stamp /\ u = c /\ p = q /\ x = w
       \/ v # None /\ d = v /\ u = None
       \/ d = c /\ u = None /\ p # None /\ p.stamp = w + 1

\* What is known of a tree has its types.
Known(q, w, f, c, v) == w \in Nat /\ {q, f, c, v} \subseteq Rows \cup {None}

LEMMA StampMoves ==
    ASSUME NEW w, NEW x, NEW q, NEW f, NEW c, NEW v, NEW p, NEW g, NEW d, NEW u,
           Known(q, w, f, c, v), Known(p, x, g, d, u),
           Stamped(q, w, f, c, v), EntryMoves(q, w, f, c, v, p, x, g, d, u)
    PROVE  Stamped(p, x, g, d, u)
<1> /\ w \in Nat /\ x \in Nat
    /\ q \in Rows \cup {None} /\ f \in Rows \cup {None} /\ c \in Rows \cup {None}
    /\ v \in Rows \cup {None} /\ p \in Rows \cup {None} /\ g \in Rows \cup {None}
    /\ d \in Rows \cup {None} /\ u \in Rows \cup {None}
  BY DEF Known
<1>0. /\ Moves(q, p, w, x)
      /\ g \in {f, None, p}
      /\ \/ d = c /\ u = v
         \/ d = f /\ g \in {None, p} /\ u = v
         \/ c # None /\ v = None /\ d # None /\ d.stamp = c.stamp /\ u = c /\ p = q /\ x = w
         \/ v # None /\ d = v /\ u = None
         \/ d = c /\ u = None /\ p # None /\ p.stamp = w + 1
  BY DEF EntryMoves
<1>1. None \notin Rows
  BY NullAssumption
<1>2. \A r \in Rows : r.stamp \in Nat
  BY CanvasAssumption DEF Rows
<1>3. q # None => q.stamp <= w
  BY DEF Stamped
<1>4. p # None => p.stamp <= x
  BY <1>0, <1>3, Aging
<1>5. \A r \in Rows : /\ Ages(r, q, w) => Ages(r, p, x)
                      /\ Old(r, q, w) => Old(r, p, x)
                      /\ Ages(r, q, w) /\ p # None /\ p.stamp = w + 1 => Old(r, p, x)
  BY <1>0, <1>3, Aging
<1>6. p # None => Old(p, p, x)
  BY <1>2, <1>4 DEF Old, Ages
<1>7. \A r \in Rows : Old(r, q, w) => Ages(r, q, w)
  BY DEF Old
<1>8. \A r \in Rows : Ages(r, p, x) /\ p # None => r.stamp <= p.stamp
  BY DEF Ages
<1>9. g # None => Old(g, p, x)
  BY <1>0, <1>5, <1>6 DEF Stamped
<1>10. CASE d = c /\ u = v
  <2>1. d # None => Ages(d, p, x) /\ (u # None \/ Old(d, p, x))
    BY <1>5, <1>10 DEF Stamped
  <2>2. u # None => Old(u, p, x)
    BY <1>5, <1>10 DEF Stamped
  <2>3. /\ d # None /\ g # None => d.stamp <= g.stamp
        /\ u # None /\ g # None => u.stamp <= g.stamp
    BY <1>0, <1>7, <1>8, <1>10, <2>1, <2>2 DEF Stamped, Old
  <2> QED BY <1>4, <1>9, <2>1, <2>2, <2>3 DEF Stamped
<1>11. CASE d = f /\ g \in {None, p} /\ u = v
  <2>1. d # None => Old(d, p, x) /\ Ages(d, p, x)
    BY <1>5, <1>7, <1>11 DEF Stamped
  <2>2. u # None => Old(u, p, x) /\ Ages(u, p, x)
    BY <1>5, <1>7, <1>11 DEF Stamped
  <2>3. /\ d # None /\ g # None => d.stamp <= g.stamp
        /\ u # None /\ g # None => u.stamp <= g.stamp
    BY <1>8, <1>11, <2>1, <2>2
  <2> QED BY <1>4, <1>9, <2>1, <2>2, <2>3 DEF Stamped
<1>12. CASE c # None /\ v = None /\ d # None /\ d.stamp = c.stamp /\ u = c /\ p = q /\ x = w
  <2>1. Old(c, q, w) /\ Ages(c, q, w)
    BY <1>7, <1>12 DEF Stamped
  <2>2. Ages(d, p, x)
    BY <1>12, <2>1 DEF Ages
  <2>3. g # None => d.stamp <= g.stamp
    BY <1>0, <1>8, <1>12, <2>1, <2>2 DEF Stamped
  <2> QED BY <1>4, <1>9, <1>12, <2>1, <2>2, <2>3 DEF Stamped
<1>13. CASE v # None /\ d = v /\ u = None
  <2>1. Old(v, p, x) /\ Ages(v, p, x)
    BY <1>5, <1>7, <1>13 DEF Stamped
  <2>2. g # None => d.stamp <= g.stamp
    BY <1>0, <1>8, <1>13, <2>1 DEF Stamped
  <2> QED BY <1>4, <1>9, <1>13, <2>1, <2>2 DEF Stamped
<1>14. CASE d = c /\ u = None /\ p # None /\ p.stamp = w + 1
  <2>1. d # None => Old(d, p, x) /\ Ages(d, p, x)
    BY <1>5, <1>14 DEF Stamped
  <2>2. d # None /\ g # None => d.stamp <= g.stamp
    BY <1>0, <1>8, <1>14, <2>1 DEF Stamped
  <2> QED BY <1>4, <1>9, <1>14, <2>1, <2>2 DEF Stamped
<1> QED BY <1>0, <1>10, <1>11, <1>12, <1>13, <1>14

TreeMoves(t) ==
    EntryMoves(row[t], writes, fetch[t], cache[t], Prev(t),
               row'[t], writes', fetch'[t], cache'[t], Prev(t)')

LEMMA PrevTyped ==
    ASSUME SaveInv, NEW t \in Trees
    PROVE  Prev(t) \in Rows \cup {None} /\ (job = None => Prev(t) = None)
  BY DEF SaveInv, JobFits, Prev, Drafted

\* A step that moves what is known of each tree in one of these ways.
LEMMA StampStep ==
    ASSUME StampInv, SaveInv', \A t \in Trees : TreeMoves(t), NEW t \in Trees
    PROVE  Stamped(row[t], writes, fetch[t], cache[t], Prev(t))'
<1>1. Prev(t) \in Rows \cup {None}
  BY PrevTyped DEF StampInv
<1>2. Prev(t)' \in Rows \cup {None}
  BY DEF SaveInv, JobFits, Prev, Drafted
<1>3. Known(row[t], writes, fetch[t], cache[t], Prev(t))
  BY <1>1, CanvasAssumption DEF StampInv, SaveInv, TypeOK, Known
<1>4. Known(row'[t], writes', fetch'[t], cache'[t], Prev(t)')
  BY <1>2, CanvasAssumption DEF SaveInv, TypeOK, Known
<1>5. Stamped(row[t], writes, fetch[t], cache[t], Prev(t))
  BY DEF StampInv
<1>6. TreeMoves(t)
  OBVIOUS
<1>7. Stamped(row'[t], writes', fetch'[t], cache'[t], Prev(t)')
  BY <1>3, <1>4, <1>5, <1>6, StampMoves DEF TreeMoves
<1> QED BY <1>7

\* What the effects do to the tables.
LEMMA EffectsTables ==
    ASSUME NEW v, NEW c, NEW f, Table(f), NEW ids \in SUBSET Trees,
           NEW pending \in Trees \cup {None},
           NEW s \in Trees \cup {None}, Effects(v, c, f, ids, pending, s)
    PROVE  cache' = c /\ \A t \in Trees : fetch'[t] \in {f[t], row'[t]}
<1>1. PICK p \in AutoSelect(ids, pending, s) :
        cache' = c /\ fetch' = IF p[1] # sel THEN Fetched(f, p[1], row') ELSE f
  BY DEF Effects
<1>2. f \in [Trees -> Rows \cup {None}] /\ p[1] \in Trees \cup {None}
  BY SelectKeeps DEF Table
<1> QED BY <1>1, <1>2 DEF Fetched

\* A write of one row, whoever makes it.
LEMMA OneRowMoves ==
    ASSUME SaveInv, NEW t \in Trees, NEW r, r # None => r.stamp = writes + 1,
           row' = [row EXCEPT ![t] = r],
           (r = None /\ writes' = writes) \/ (r # None /\ writes' = writes + 1), NEW k \in Trees
    PROVE  /\ Moves(row[k], row'[k], writes, writes')
           /\ k = t => row'[k] = r
           /\ k # t => row'[k] = row[k]
<1>1. writes \in Nat /\ row \in [Trees -> Rows \cup {None}]
  BY CanvasAssumption DEF SaveInv, TypeOK
<1>2. row'[k] = IF k = t THEN r ELSE row[k]
  BY <1>1
<1> QED BY <1>1, <1>2 DEF Moves

\* The queries and the user's steps move the tables so.
LEMMA PageMoves ==
    ASSUME SaveInv, NEW t \in Trees,
           \/ RefetchTemplate \/ ListFetched \/ (\E k \in Trees : TemplateFetched(k))
           \/ (\E k \in Trees : handleOpenTask(k)) \/ (\E b \in BOOLEAN : setIsEditing(b))
           \/ Edit \/ handleSave \/ releaseLock \/ pddlSave \/ ErrorShown
    PROVE  TreeMoves(t)
<1>1. /\ Table(row) /\ Table(cache) /\ Table(fetch) /\ sel \in Trees \cup {None}
      /\ created \in Trees \cup {None} /\ list \in SUBSET Trees
      /\ cache \in [Trees -> Rows \cup {None}] /\ fetch \in [Trees -> Rows \cup {None}]
      /\ writes \in Nat
  BY CanvasAssumption DEF SaveInv, TypeOK
<1>2. ASSUME UNCHANGED <<row, writes>> PROVE Moves(row[t], row'[t], writes, writes')
  BY <1>1, <1>2 DEF Moves
<1>3. CASE RefetchTemplate
  <2>1. fetch'[t] \in {fetch[t], row'[t]}
    BY <1>1, <1>3 DEF RefetchTemplate, Fetched, server
  <2> QED BY <1>2, <1>3, <2>1 DEF RefetchTemplate, server, TreeMoves, EntryMoves, Prev, Drafted
<1>4. CASE ListFetched
  <2>1. Effects(View, cache, fetch, {k \in Trees : row[k] # None}, created, sel)
    BY <1>4 DEF ListFetched
  <2>2. cache' = cache /\ fetch'[t] \in {fetch[t], row'[t]}
    BY <1>1, <2>1, EffectsTables
  <2> QED BY <1>2, <1>4, <2>2 DEF ListFetched, server, TreeMoves, EntryMoves, Prev, Drafted
<1>5. ASSUME NEW k \in Trees, TemplateFetched(k) PROVE TreeMoves(t)
  <2> DEFINE c == [cache EXCEPT ![k] = fetch[k]]
             f == [fetch EXCEPT ![k] = None]
  <2>1. Effects(View, c, f, list, created, sel)
    BY <1>5 DEF TemplateFetched
  <2>2. Table(f)
    BY <1>1, TableSet
  <2>3. c[t] = (IF t = k THEN fetch[t] ELSE cache[t]) /\ f[t] = (IF t = k THEN None ELSE fetch[t])
    BY <1>1
  <2> HIDE DEF c, f
  <2>4. cache' = c /\ fetch'[t] \in {f[t], row'[t]}
    BY <1>1, <2>1, <2>2, EffectsTables
  <2> QED BY <1>2, <1>5, <2>3, <2>4 DEF TemplateFetched, server, TreeMoves, EntryMoves, Prev, Drafted
<1>6. ASSUME NEW k \in Trees, handleOpenTask(k) PROVE TreeMoves(t)
  <2>1. cache' = cache /\ fetch'[t] \in {fetch[t], row'[t]}
    BY <1>1, <1>6, EffectsTables DEF handleOpenTask
  <2> QED BY <1>2, <1>6, <2>1 DEF handleOpenTask, server, TreeMoves, EntryMoves, Prev, Drafted
<1>7. ASSUME NEW b \in BOOLEAN, setIsEditing(b) PROVE TreeMoves(t)
  BY <1>2, <1>7 DEF setIsEditing, server, query, TreeMoves, EntryMoves, Prev, Drafted
<1>8. CASE Edit \/ ErrorShown
  BY <1>2, <1>8 DEF Edit, ErrorShown, server, query, TreeMoves, EntryMoves, Prev, Drafted
<1>9. CASE handleSave \/ releaseLock
  <2>1. job = None /\ job'.by # "pddl" /\ UNCHANGED <<row, writes, cache, fetch>>
    BY <1>9 DEF handleSave, releaseLock, server, query
  <2> QED BY <1>2, <2>1 DEF TreeMoves, EntryMoves, Prev, Drafted
<1>10. CASE pddlSave
  <2> DEFINE c == [cache EXCEPT ![sel].body = canvas.body]
  <2>1. /\ Effects(View, c, fetch, list, created, sel) /\ UNCHANGED <<row, writes>>
        /\ job = None /\ sel \in Trees /\ cache[sel] \in Rows
        /\ job' = [by |-> "pddl", tree |-> sel, shot |-> canvas, prev |-> cache[sel]]
    BY <1>1, <1>10 DEF pddlSave, server
  <2>2. /\ c[t] = IF t = sel THEN [cache[t] EXCEPT !.body = canvas.body] ELSE cache[t]
        /\ c[sel] # None /\ c[sel].stamp = cache[sel].stamp
    <3>1. c = [cache EXCEPT ![sel] = [cache[sel] EXCEPT !.body = canvas.body]]
      OBVIOUS
    <3>2. canvas.body \in Bodies \cup {Empty}
      BY DEF SaveInv, TypeOK, Canvases
    <3>3. [cache[sel] EXCEPT !.body = canvas.body] \in Rows
      BY <2>1, <3>2 DEF Rows
    <3>4. [cache[sel] EXCEPT !.body = canvas.body].stamp = cache[sel].stamp
      BY <2>1 DEF Rows
    <3> QED BY <1>1, <2>1, <3>1, <3>3, <3>4, NullAssumption
  <2> HIDE DEF c
  <2>3. cache' = c /\ fetch'[t] \in {fetch[t], row'[t]}
    BY <1>1, <2>1, EffectsTables
  <2>4. job' # None
    <3>1. job' \in Jobs
      BY <2>1 DEF SaveInv, TypeOK, Jobs
    <3> QED BY <3>1, NullAssumption
  <2> QED BY <1>2, <2>1, <2>2, <2>3, <2>4, NullAssumption DEF TreeMoves, EntryMoves, Prev, Drafted
<1> QED BY <1>3, <1>4, <1>5, <1>6, <1>7, <1>8, <1>9, <1>10

\* So do the answers: a write is newer than whatever is known of its tree, so that
\* the draft, which keeps the version it was made from, may stay cached.
LEMMA AnswerMoves ==
    ASSUME SaveInv, NEW t \in Trees, SaveDone \/ ReleaseDone \/ PddlDone \/ SaveFails
    PROVE  TreeMoves(t)
<1>1. /\ Table(row) /\ Table(cache) /\ Table(fetch) /\ sel \in Trees \cup {None}
      /\ created \in Trees \cup {None} /\ list \in SUBSET Trees
      /\ row \in [Trees -> Rows \cup {None}] /\ cache \in [Trees -> Rows \cup {None}]
      /\ fetch \in [Trees -> Rows \cup {None}] /\ writes \in Nat
  BY CanvasAssumption DEF SaveInv, TypeOK
<1>2. /\ job # None /\ job' = None /\ job.tree \in Trees
      /\ job.by = "pddl" => job.prev \in Rows
  BY DEF SaveInv, TypeOK, JobFits, Jobs, SaveDone, ReleaseDone, PddlDone, SaveFails
<1>3. Prev(t)' = None /\ (job.by # "pddl" \/ job.tree # t => Prev(t) = None)
      /\ (job.by = "pddl" /\ job.tree = t => Prev(t) = job.prev /\ Prev(t) # None)
  BY <1>2, NullAssumption DEF Prev, Drafted
<1>4. CASE SaveDone \/ ReleaseDone \/ PddlDone
  <2>1. row' = Updated(job.tree, job.shot.body) /\ writes' = writes + 1 /\ cache' = cache
    BY <1>4 DEF SaveDone, ReleaseDone, PddlDone
  <2> DEFINE r == [body |-> job.shot.body, stamp |-> writes + 1]
  <2>2. r # None
    <3>2. r.stamp \in 0 .. MaxWrites
      BY <1>1, <1>4, CanvasAssumption DEF SaveDone, ReleaseDone, PddlDone, CanWrite, SaveInv, TypeOK
    <3>3. r.body \in Bodies \cup {Empty}
      BY <1>2 DEF SaveInv, JobFits, Own, Bodies
    <3> QED BY <3>2, <3>3, NullAssumption DEF Rows
  <2>3. row' = [row EXCEPT ![job.tree] = r] /\ r.stamp = writes + 1
    BY <2>1 DEF Updated
  <2> HIDE DEF r
  <2>4. /\ Moves(row[t], row'[t], writes, writes')
        /\ t = job.tree => row'[t] = r
    <3>1. PICK j \in Trees : j = job.tree
      BY <1>2
    <3>2. row' = [row EXCEPT ![j] = r] /\ writes' = writes + 1
      BY <2>1, <2>3, <3>1
    <3>3. r # None /\ r.stamp = writes + 1
      BY <2>2, <2>3
    <3>4. Moves(row[t], row'[t], writes, writes') /\ (t = j => row'[t] = r)
      BY <3>2, <3>3, OneRowMoves
    <3> QED BY <3>1, <3>4
  <2>5. fetch'[t] \in {fetch[t], row'[t]}
    BY <1>1, <1>4 DEF SaveDone, ReleaseDone, PddlDone, Fetched
  <2> QED BY <1>3, <2>1, <2>2, <2>3, <2>4, <2>5 DEF TreeMoves, EntryMoves
<1>5. CASE SaveFails /\ job.by # "pddl"
  <2>1. UNCHANGED <<row, writes, cache, fetch>>
    BY <1>5 DEF SaveFails, server, query
  <2> QED BY <1>1, <1>3, <1>5, <2>1 DEF TreeMoves, EntryMoves, Moves
<1>6. CASE SaveFails /\ job.by = "pddl"
  <2> DEFINE c == [cache EXCEPT ![job.tree] = job.prev]
  <2>1. Effects(View, c, fetch, list, created, sel) /\ UNCHANGED <<row, writes>>
    BY <1>6 DEF SaveFails, server
  <2>2. c[t] = IF t = job.tree THEN job.prev ELSE cache[t]
    BY <1>1
  <2> HIDE DEF c
  <2>3. cache' = c /\ fetch'[t] \in {fetch[t], row'[t]}
    BY <1>1, <2>1, EffectsTables
  <2> QED BY <1>1, <1>2, <1>3, <1>6, <2>1, <2>2, <2>3, NullAssumption
          DEF TreeMoves, EntryMoves, Moves
<1> QED BY <1>4, <1>5, <1>6

\* And the steps that create, delete or write a tree.
LEMMA RowMovesToo ==
    ASSUME SaveInv, NEW k \in Trees, NEW t \in Trees,
           \/ createTemplate(k) \/ deleteTemplate(k)
           \/ LockWrites(k) \/ OtherSaves(k) \/ OtherDeletes(k)
    PROVE  TreeMoves(t)
<1>1. /\ Table(row) /\ Table(cache) /\ Table(fetch) /\ sel \in Trees \cup {None}
      /\ created \in Trees \cup {None} /\ list \in SUBSET Trees
      /\ row \in [Trees -> Rows \cup {None}] /\ cache \in [Trees -> Rows \cup {None}]
      /\ fetch \in [Trees -> Rows \cup {None}] /\ writes \in Nat
  BY CanvasAssumption DEF SaveInv, TypeOK
<1>2. job' = job /\ Prev(t)' = Prev(t)
  BY DEF createTemplate, deleteTemplate, LockWrites, OtherSaves, OtherDeletes, Prev, Drafted
<1>3. \A b \in Bodies \cup {Empty} :
         writes < MaxWrites => [body |-> b, stamp |-> writes + 1] # None
  <2> SUFFICES ASSUME NEW b \in Bodies \cup {Empty}, writes < MaxWrites
               PROVE  [body |-> b, stamp |-> writes + 1] # None
    OBVIOUS
  <2>1. writes + 1 \in 0 .. MaxWrites
    BY <1>1, CanvasAssumption
  <2> QED BY <2>1, NullAssumption DEF Rows
<1>4. Moves(row[t], row'[t], writes, writes')
  <2>1. CASE createTemplate(k)
    <3> DEFINE r == [body |-> Start(k), stamp |-> writes + 1]
    <3>1. Start(k) \in Bodies
      BY CanvasAssumption DEF Start, Bodies
    <3>2. r # None /\ r.stamp = writes + 1
      BY <1>3, <2>1, <3>1 DEF createTemplate
    <3>3. row' = [row EXCEPT ![k] = r] /\ writes' = writes + 1
      BY <2>1 DEF createTemplate
    <3> HIDE DEF r
    <3> QED BY <3>2, <3>3, OneRowMoves
  <2>2. CASE LockWrites(k)
    <3> DEFINE r == [row[k] EXCEPT !.stamp = writes + 1]
    <3>1. row[k] \in Rows /\ writes < MaxWrites
      BY <1>1, <2>2 DEF LockWrites, CanWrite
    <3>2. r = [body |-> row[k].body, stamp |-> writes + 1] /\ row[k].body \in Bodies \cup {Empty}
      BY <3>1 DEF Rows
    <3>3. r # None /\ r.stamp = writes + 1
      BY <1>3, <3>1, <3>2
    <3>4. row' = [row EXCEPT ![k] = r] /\ writes' = writes + 1
      BY <2>2 DEF LockWrites
    <3> HIDE DEF r
    <3> QED BY <3>3, <3>4, OneRowMoves
  <2>3. CASE OtherSaves(k)
    <3> DEFINE b == [tree |-> k, edit |-> MaxEdits + 1]
               r == [body |-> b, stamp |-> writes + 1]
    <3>1. b \in Bodies
      BY CanvasAssumption DEF Bodies
    <3>2. r # None /\ r.stamp = writes + 1
      <4> HIDE DEF b
      <4> QED BY <1>3, <2>3, <3>1 DEF OtherSaves, CanWrite
    <3>3. row' = [row EXCEPT ![k] = r] /\ writes' = writes + 1
      BY <2>3 DEF OtherSaves, Updated
    <3> HIDE DEF r
    <3> QED BY <3>2, <3>3, OneRowMoves
  <2>4. CASE deleteTemplate(k) \/ OtherDeletes(k)
    BY <1>1, <2>4 DEF deleteTemplate, OtherDeletes, Moves
  <2> QED BY <2>1, <2>2, <2>3, <2>4
<1>5. cache'[t] = cache[t] /\ fetch'[t] \in {fetch[t], None, row'[t]}
  <2>1. CASE createTemplate(k)
    <3>1. Effects(View, cache, fetch, list, k, k)
      BY <2>1 DEF createTemplate
    <3> QED BY <1>1, <3>1, EffectsTables
  <2>2. CASE deleteTemplate(k)
    <3> DEFINE f == [fetch EXCEPT ![k] = None]
               v == [View EXCEPT !.canvas = Blank, !.last = None, !.unsaved = FALSE,
                                 !.status = "idle"]
    <3>1. Effects(v, cache, f, list, created, None)
      BY <2>2 DEF deleteTemplate
    <3>2. Table(f) /\ f[t] \in {fetch[t], None}
      BY <1>1, TableSet
    <3> HIDE DEF f, v
    <3>3. cache' = cache /\ fetch'[t] \in {f[t], row'[t]}
      BY <1>1, <3>1, <3>2, EffectsTables
    <3> QED BY <3>2, <3>3
  <2>3. CASE LockWrites(k) \/ OtherSaves(k) \/ OtherDeletes(k)
    BY <2>3 DEF LockWrites, OtherSaves, OtherDeletes, query
  <2> QED BY <2>1, <2>2, <2>3
<1> QED BY <1>2, <1>4, <1>5 DEF TreeMoves, EntryMoves
-----------------------------------------------------------------------------
LEMMA LoadedBy ==
    ASSUME NEW v, NEW t, NEW r
    PROVE  IF t # None /\ r # None
           THEN LoadTemplate(v, t, r).loaded = [id |-> t, sig |-> buildTemplateLoadSignature(r)]
           ELSE LoadTemplate(v, t, r) = v
<1>1. CASE t = None \/ r = None
  BY <1>1 DEF LoadTemplate
<1>2. CASE t # None /\ r # None /\ v.loaded = [id |-> t, sig |-> buildTemplateLoadSignature(r)]
  <2>1. LoadTemplate(v, t, r) = v
    BY <1>2 DEF LoadTemplate
  <2> QED BY <1>2, <2>1
<1>3. CASE t # None /\ r # None /\ v.loaded # [id |-> t, sig |-> buildTemplateLoadSignature(r)]
  <2> DEFINE n == [body |-> r.body, flag |-> FALSE]
  <2>1. LoadTemplate(v, t, r) =
            [canvas |-> n, loaded |-> [id |-> t, sig |-> buildTemplateLoadSignature(r)],
             last |-> n, unsaved |-> FALSE, status |-> "idle"]
    BY <1>3 DEF LoadTemplate
  <2> QED BY <1>3, <2>1
<1> QED BY <1>1, <1>2, <1>3

\* The row a view was loaded from, after the effects: the cached one of the
\* selection, or, when there is none to load, the one of before.
LEMMA EffectsLoad ==
    ASSUME NEW v, NEW c, NEW f, NEW ids \in SUBSET Trees, NEW pending \in Trees \cup {None},
           NEW s \in Trees \cup {None}, Effects(v, c, f, ids, pending, s)
    PROVE  /\ cache' = c
           /\ sel' \in Trees \cup {None}
           /\ IF sel' # None /\ c[sel'] # None
              THEN loaded' = [id |-> sel', sig |-> buildTemplateLoadSignature(c[sel'])]
              ELSE loaded' = v.loaded
<1>1. PICK p \in AutoSelect(ids, pending, s) :
        /\ sel' = p[1] /\ cache' = c
        /\ Show(LoadTemplate(ClearCanvas(v, p[1]), p[1], Data(c, p[1])))
  BY DEF Effects
<1>2. sel' \in Trees \cup {None}
  BY <1>1, SelectKeeps
<1>3. ClearCanvas(v, sel').loaded = v.loaded
  BY DEF ClearCanvas
<1>4. loaded' = LoadTemplate(ClearCanvas(v, sel'), sel', Data(c, sel')).loaded
  BY <1>1 DEF Show
<1>5. Data(c, sel') = IF sel' = None THEN None ELSE c[sel']
  BY DEF Data
<1>6. \A u, t, r : IF t # None /\ r # None
                   THEN LoadTemplate(u, t, r).loaded =
                            [id |-> t, sig |-> buildTemplateLoadSignature(r)]
                   ELSE LoadTemplate(u, t, r) = u
  BY LoadedBy
<1>7. CASE sel' # None /\ c[sel'] # None
  <2>1. LoadTemplate(ClearCanvas(v, sel'), sel', c[sel']).loaded =
            [id |-> sel', sig |-> buildTemplateLoadSignature(c[sel'])]
    BY <1>6, <1>7
  <2> QED BY <1>1, <1>2, <1>4, <1>5, <1>7, <2>1
<1>8. CASE ~ (sel' # None /\ c[sel'] # None)
  <2>1. LoadTemplate(ClearCanvas(v, sel'), sel', Data(c, sel')) = ClearCanvas(v, sel')
    BY <1>5, <1>6, <1>8
  <2> QED BY <1>1, <1>2, <1>3, <1>4, <1>8, <2>1
<1> QED BY <1>7, <1>8

LEMMA EffectsLoaded ==
    ASSUME LoadedIsCached, SaveInv, NEW v, v.loaded = loaded, NEW c,
           \A t \in Trees : cache[t] # None => c[t] # None,
           NEW f, NEW ids \in SUBSET Trees, NEW pending \in Trees \cup {None},
           NEW s \in Trees \cup {None}, Effects(v, c, f, ids, pending, s)
    PROVE  LoadedIsCached'
<1>1. /\ cache' = c /\ sel' \in Trees \cup {None}
      /\ IF sel' # None /\ c[sel'] # None
         THEN loaded' = [id |-> sel', sig |-> buildTemplateLoadSignature(c[sel'])]
         ELSE loaded' = loaded
  BY EffectsLoad
<1>2. loaded # None => loaded.id \in Trees /\ cache[loaded.id] # None
  BY DEF SaveInv, TypeOK, Loads, LoadedIsCached
<1>3. loaded' # None => cache'[loaded'.id] # None
  BY <1>1, <1>2
<1>4. sel' # None /\ cache'[sel'] # None =>
          loaded' = [id |-> sel', sig |-> buildTemplateLoadSignature(cache'[sel'])]
  BY <1>1
<1>5. buildTemplateLoadSignature(cache[sel])' = buildTemplateLoadSignature(cache'[sel'])
  BY DEF buildTemplateLoadSignature, Shape
<1> QED BY <1>3, <1>4, <1>5 DEF LoadedIsCached

\* A step that leaves the cache, the selection and what was loaded alone.
LEMMA LoadedStays ==
    ASSUME LoadedIsCached, UNCHANGED <<cache, sel, loaded>>
    PROVE  LoadedIsCached'
  BY DEF LoadedIsCached, buildTemplateLoadSignature, Shape

LEMMA LoadedStep ==
    ASSUME StampInv, Next
    PROVE  LoadedIsCached'
<1>1. /\ SaveInv /\ LoadedIsCached /\ View.loaded = loaded
      /\ cache \in [Trees -> Rows \cup {None}] /\ sel \in Trees \cup {None}
      /\ created \in Trees \cup {None} /\ list \in SUBSET Trees
  BY DEF StampInv, SaveInv, TypeOK, View
<1>2. ASSUME NEW k \in Trees, TemplateFetched(k) PROVE LoadedIsCached'
  <2> DEFINE c == [cache EXCEPT ![k] = fetch[k]]
             f == [fetch EXCEPT ![k] = None]
  <2>1. Effects(View, c, f, list, created, sel)
    BY <1>2 DEF TemplateFetched
  <2>2. \A t \in Trees : cache[t] # None => c[t] # None
    BY <1>1, <1>2 DEF TemplateFetched
  <2> HIDE DEF c, f
  <2> QED BY <1>1, <2>1, <2>2, EffectsLoaded
<1>3. CASE ListFetched
  <2> DEFINE ids == {t \in Trees : row[t] # None}
  <2>1. Effects(View, cache, fetch, ids, created, sel)
    BY <1>3 DEF ListFetched
  <2>2. ids \in SUBSET Trees
    OBVIOUS
  <2> HIDE DEF ids
  <2> QED BY <1>1, <2>1, <2>2, EffectsLoaded
<1>4. ASSUME NEW k \in Trees, handleOpenTask(k) PROVE LoadedIsCached'
  <2>1. Effects(View, cache, fetch, list, created, k)
    BY <1>4 DEF handleOpenTask
  <2> QED BY <1>1, <2>1, EffectsLoaded
<1>5. CASE pddlSave
  <2> DEFINE r == [cache[sel] EXCEPT !.body = canvas.body]
             c == [cache EXCEPT ![sel].body = canvas.body]
  <2>1. Effects(View, c, fetch, list, created, sel)
    BY <1>5 DEF pddlSave
  <2>2. sel \in Trees /\ cache[sel] \in Rows
    BY <1>1, <1>5 DEF pddlSave
  <2>3. canvas.body \in Bodies \cup {Empty}
    BY <1>1 DEF SaveInv, TypeOK, Canvases
  <2>4. r \in Rows /\ c = [cache EXCEPT ![sel] = r]
    BY <2>2, <2>3 DEF Rows
  <2> HIDE DEF r, c
  <2>5. \A t \in Trees : cache[t] # None => c[t] # None
    BY <1>1, <2>2, <2>4, NullAssumption
  <2> QED BY <1>1, <2>1, <2>5, EffectsLoaded
<1>6. CASE SaveFails
  <2>1. CASE job.by # "pddl"
    BY <1>1, <1>6, <2>1, LoadedStays DEF SaveFails, query
  <2>2. CASE job.by = "pddl"
    <3> DEFINE c == [cache EXCEPT ![job.tree] = job.prev]
    <3>1. Effects(View, c, fetch, list, created, sel)
      BY <1>6, <2>2 DEF SaveFails
    <3>2. job.prev \in Rows
      BY <1>1, <1>6, <2>2 DEF SaveFails, SaveInv, JobFits
    <3>3. \A t \in Trees : cache[t] # None => c[t] # None
      BY <1>1, <3>2, NullAssumption
    <3> HIDE DEF c
    <3> QED BY <1>1, <3>1, <3>3, EffectsLoaded
  <2> QED BY <2>1, <2>2
<1>7. ASSUME NEW k \in Trees, createTemplate(k) PROVE LoadedIsCached'
  <2>1. Effects(View, cache, fetch, list, k, k)
    BY <1>7 DEF createTemplate
  <2> QED BY <1>1, <2>1, EffectsLoaded
<1>8. ASSUME NEW k \in Trees, deleteTemplate(k) PROVE LoadedIsCached'
  <2> DEFINE v == [View EXCEPT !.canvas = Blank, !.last = None, !.unsaved = FALSE,
                               !.status = "idle"]
             f == [fetch EXCEPT ![k] = None]
  <2>1. Effects(v, cache, f, list, created, None)
    BY <1>8 DEF deleteTemplate
  <2>2. v.loaded = loaded
    BY DEF View
  <2> HIDE DEF v, f
  <2> QED BY <1>1, <2>1, <2>2, EffectsLoaded
<1>9. ASSUME UNCHANGED <<cache, sel, loaded>> PROVE LoadedIsCached'
  BY <1>1, <1>9, LoadedStays
<1>10. CASE \/ RefetchTemplate \/ Edit \/ handleSave \/ releaseLock
            \/ SaveDone \/ ReleaseDone \/ PddlDone \/ ErrorShown
  BY <1>9, <1>10 DEF RefetchTemplate, Edit, handleSave, releaseLock, SaveDone, ReleaseDone,
                     PddlDone, ErrorShown, query, shown
<1>11. ASSUME NEW k \in Trees, LockWrites(k) \/ OtherSaves(k) \/ OtherDeletes(k)
       PROVE  LoadedIsCached'
  BY <1>9, <1>11 DEF LockWrites, OtherSaves, OtherDeletes, query, shown
<1>12. ASSUME NEW b \in BOOLEAN, setIsEditing(b) PROVE LoadedIsCached'
  BY <1>9, <1>12 DEF setIsEditing, query
<1> QED BY <1>2, <1>3, <1>4, <1>5, <1>6, <1>7, <1>8, <1>10, <1>11, <1>12 DEF Next

LEMMA StampInit == Init => StampInv
<1> SUFFICES ASSUME Init PROVE StampInv
  OBVIOUS
<1>1. \A t \in Trees : /\ cache[t] = None /\ fetch[t] = None
                       /\ row[t] # None => row[t].stamp = 0
  BY DEF Init
<1>2. writes = 0 /\ job = None /\ sel = None /\ loaded = None
  BY DEF Init
<1>3. \A t \in Trees : Prev(t) = None
  BY <1>2 DEF Prev, Drafted
<1>4. \A t \in Trees : Stamped(row[t], writes, fetch[t], cache[t], Prev(t))
  BY <1>1, <1>2, <1>3 DEF Stamped
<1>5. LoadedIsCached
  BY <1>2 DEF LoadedIsCached
<1> QED BY <1>4, <1>5, SaveInit DEF StampInv

LEMMA StampNext == StampInv /\ [Next]_vars => StampInv'
<1> SUFFICES ASSUME StampInv, [Next]_vars PROVE StampInv'
  OBVIOUS
<1>1. SaveInv'
  BY SaveNext DEF StampInv
<1>2. CASE UNCHANGED vars
  <2>1. \A t \in Trees : Stamped(row[t], writes, fetch[t], cache[t], Prev(t))'
    BY <1>2 DEF vars, StampInv, Stamped, Ages, Old, Prev, Drafted
  <2>2. LoadedIsCached'
    BY <1>2, LoadedStays DEF vars, StampInv
  <2> QED BY <1>1, <2>1, <2>2 DEF StampInv
<1>3. CASE Next
  <2>1. \A t \in Trees : TreeMoves(t)
    BY <1>3, PageMoves, AnswerMoves, RowMovesToo DEF Next, StampInv
  <2>2. \A t \in Trees : Stamped(row[t], writes, fetch[t], cache[t], Prev(t))'
    BY <1>1, <2>1, StampStep
  <2> QED BY <1>1, <1>3, <2>2, LoadedStep DEF StampInv
<1> QED BY <1>2, <1>3

\* The effects reload the canvas of the open tree only from a row with another
\* signature than the one it was loaded from.
LEMMA ReloadSkipped ==
    ASSUME NEW c, NEW f, NEW ids, NEW pending, NEW s, Effects(View, c, f, ids, pending, s),
           sel' = sel, sel # None, loaded # None, loaded.id = sel,
           \/ c[sel] = None
           \/ loaded = [id |-> sel, sig |-> buildTemplateLoadSignature(c[sel])]
           \/ c[sel].body = canvas.body
    PROVE  canvas'.body = canvas.body
<1>1. Show(LoadTemplate(ClearCanvas(View, sel), sel, Data(c, sel)))
  BY DEF Effects
<1>2. ClearCanvas(View, sel) = View
  BY DEF ClearCanvas, View
<1>3. Data(c, sel) = c[sel]
  BY DEF Data
<1>4. canvas' = LoadTemplate(View, sel, c[sel]).canvas
  BY <1>1, <1>2, <1>3 DEF Show
<1>5. LoadTemplate(View, sel, c[sel]) = View
      \/ (~ (c[sel] = None) /\ loaded # [id |-> sel, sig |-> buildTemplateLoadSignature(c[sel])]
          /\ LoadTemplate(View, sel, c[sel]).canvas = [body |-> c[sel].body, flag |-> FALSE])
  BY DEF LoadTemplate, View
<1>6. View.canvas = canvas
  BY DEF View
<1> QED BY <1>4, <1>5, <1>6

\* With no write of the page under way and the row as it was at the load, an answer
\* for the open tree has the signature of the load.
LEMMA AnswerIsLoaded ==
    ASSUME StampInv, job = None, sel \in Trees, fetch[sel] # None, row[sel] # None,
           loaded # None, loaded.id = sel, row[sel].stamp = loaded.sig[1]
    PROVE  loaded = [id |-> sel, sig |-> buildTemplateLoadSignature(fetch[sel])]
<1>1. cache[sel] # None /\ loaded = [id |-> sel, sig |-> buildTemplateLoadSignature(cache[sel])]
  BY CanvasAssumption DEF StampInv, LoadedIsCached
<1>2. cache[sel] \in Rows /\ fetch[sel] \in Rows /\ row[sel] \in Rows
  BY <1>1 DEF StampInv, SaveInv, TypeOK
<1>3. cache[sel].stamp \in Nat /\ fetch[sel].stamp \in Nat /\ row[sel].stamp \in Nat
  BY <1>2, CanvasAssumption DEF Rows
<1>4. row[sel].stamp = cache[sel].stamp
  BY <1>1 DEF buildTemplateLoadSignature
<1>5. Prev(sel) = None
  BY DEF Prev, Drafted
<1>6. Stamped(row[sel], writes, fetch[sel], cache[sel], None)
  BY <1>5 DEF StampInv
<1>7. Old(fetch[sel], row[sel], writes) /\ Old(cache[sel], row[sel], writes)
      /\ cache[sel].stamp <= fetch[sel].stamp
  BY <1>1, <1>6 DEF Stamped
<1>8. fetch[sel].stamp = cache[sel].stamp
  BY <1>3, <1>4, <1>7 DEF Old, Ages
<1>9. fetch[sel].body = cache[sel].body
  BY <1>4, <1>7, <1>8 DEF Old
<1>10. buildTemplateLoadSignature(fetch[sel]) = buildTemplateLoadSignature(cache[sel])
  BY <1>8, <1>9 DEF buildTemplateLoadSignature
<1> QED BY <1>1, <1>10

\* No step takes edits from the canvas of the open tree while nobody has written it.
LEMMA ReloadStep ==
    ASSUME StampInv, Next, sel' = sel, loaded # None, loaded.id = sel, edits' = edits,
           opens' = opens, row[sel] # None, row[sel].stamp = loaded.sig[1], job = None
    PROVE  canvas'.body = canvas.body
<1>1. /\ sel \in Trees /\ sel # None /\ canvas \in Canvases /\ opens \in Nat /\ edits \in Nat
      /\ cache \in [Trees -> Rows \cup {None}] /\ fetch \in [Trees -> Rows \cup {None}]
  BY CanvasAssumption DEF StampInv, SaveInv, TypeOK, Loads
<1>2. cache[sel] = None \/ loaded = [id |-> sel, sig |-> buildTemplateLoadSignature(cache[sel])]
  BY <1>1 DEF StampInv, LoadedIsCached
<1>3. ASSUME NEW k \in Trees, TemplateFetched(k) PROVE canvas'.body = canvas.body
  <2> DEFINE c == [cache EXCEPT ![k] = fetch[k]]
             f == [fetch EXCEPT ![k] = None]
  <2>1. Effects(View, c, f, list, created, sel)
    BY <1>3 DEF TemplateFetched
  <2>2. c[sel] = None \/ loaded = [id |-> sel, sig |-> buildTemplateLoadSignature(c[sel])]
    <3>1. CASE k = sel
      <4>1. c[sel] = fetch[sel] /\ fetch[sel] # None
        BY <1>1, <1>3, <3>1 DEF TemplateFetched
      <4> HIDE DEF c
      <4> QED BY <1>1, <4>1, AnswerIsLoaded
    <3>2. CASE k # sel
      <4>1. c[sel] = cache[sel]
        BY <1>1, <3>2
      <4> HIDE DEF c
      <4> QED BY <1>2, <4>1
    <3> QED BY <3>1, <3>2
  <2> HIDE DEF c, f
  <2> QED BY <1>1, <2>1, <2>2, ReloadSkipped
<1>4. CASE ListFetched
  <2> DEFINE ids == {t \in Trees : row[t] # None}
  <2>1. Effects(View, cache, fetch, ids, created, sel)
    BY <1>4 DEF ListFetched
  <2> HIDE DEF ids
  <2> QED BY <1>1, <1>2, <2>1, ReloadSkipped
<1>5. CASE pddlSave
  <2> DEFINE c == [cache EXCEPT ![sel].body = canvas.body]
  <2>1. Effects(View, c, fetch, list, created, sel)
    BY <1>5 DEF pddlSave
  <2>2. cache[sel] \in Rows
    BY <1>1, <1>5 DEF pddlSave
  <2>3. c[sel].body = canvas.body
    BY <1>1, <2>2 DEF Rows
  <2> HIDE DEF c
  <2> QED BY <1>1, <2>1, <2>3, ReloadSkipped
<1>6. ASSUME NEW b \in BOOLEAN, setIsEditing(b) PROVE canvas'.body = canvas.body
  BY <1>1, <1>6 DEF setIsEditing, Canvases
<1>7. CASE RefetchTemplate \/ handleSave \/ releaseLock \/ ErrorShown
  BY <1>7 DEF RefetchTemplate, handleSave, releaseLock, ErrorShown, shown
<1>8. ~ (Edit \/ SaveDone \/ ReleaseDone \/ PddlDone \/ SaveFails)
  BY <1>1 DEF Edit, SaveDone, ReleaseDone, PddlDone, SaveFails
<1>9. ASSUME NEW k \in Trees, LockWrites(k) \/ OtherSaves(k) \/ OtherDeletes(k)
      PROVE  canvas'.body = canvas.body
  BY <1>9 DEF LockWrites, OtherSaves, OtherDeletes, shown
<1>10. ASSUME NEW k \in Trees, handleOpenTask(k) \/ createTemplate(k) \/ deleteTemplate(k)
       PROVE  FALSE
  BY <1>1, <1>10 DEF handleOpenTask, createTemplate, deleteTemplate
<1> QED BY <1>3, <1>4, <1>5, <1>6, <1>7, <1>8, <1>9, <1>10 DEF Next

\* ReloadNeedsWrite: the effects on the template's data (loadedTemplateRef and
\* buildTemplateLoadSignature) take no edits from the canvas when a query answers,
\* however late, unless a write moved the row's version or one of the page is under way.
THEOREM ReloadNeedsWriteCorrect == Spec => ReloadNeedsWrite
<1> DEFINE Reload ==
      (/\ sel' = sel /\ loaded # None /\ loaded.id = sel /\ canvas.body.edit \in 1 .. MaxEdits
       /\ canvas'.body # canvas.body /\ edits' = edits /\ opens' = opens)
      => row[sel] = None \/ row[sel].stamp # loaded.sig[1] \/ job # None
<1>1. StampInv /\ [Next]_vars => [Reload]_vars
  BY ReloadStep
<1>2. ReloadNeedsWrite <=> [][Reload]_vars
  BY DEF ReloadNeedsWrite
<1> HIDE DEF Reload
<1>3. Spec => [][Reload]_vars
  BY <1>1, StampInit, StampNext, PTL DEF Spec
<1> QED BY <1>2, <1>3
=============================================================================
