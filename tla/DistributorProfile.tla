--------------------------- MODULE DistributorProfile ---------------------------
(***************************************************************************)
(* Task distributors as the planning page edits them                       *)
(* (frontend/src/pages/PDDL/index.tsx): resource types and instances,      *)
(* states, merge policies, and the export and import of all of it as a     *)
(* profile file.  Every handler works on the list the page last loaded and *)
(* sends its requests one after the other; nothing keeps the user or       *)
(* another client from writing between two of them, and a request that     *)
(* fails leaves behind what the earlier ones did.                          *)
(*                                                                         *)
(* A name is a base and a number, 0 for none: type b has the instances b1, *)
(* b2, ...  A state is named after a resource instance (its template was   *)
(* expanded) or is Plain.  There is one merge policy preset and one task,  *)
(* whose required resources are ids.  Descriptions, state types, initial   *)
(* values and what the import sets on the page (module PddlPage) are left  *)
(* out.                                                                    *)
(***************************************************************************)
EXTENDS Naturals, Sequences, FiniteSets, SequencesExt, Sublists

CONSTANTS TdIds,        \* ids of task distributors; their names are taken from them too
          Bases,        \* base names of resources
          Plain,        \* a state without placeholder
          NoTd,         \* null
          MaxCount,     \* bound: instances of a type
          MaxIds,       \* bound: rows created
          MaxLibOps     \* bound: what the user and other clients do

\* The library begins with one instance of a type and with three rows.
ASSUME ProfileAssumption ==
    /\ NoTd \notin TdIds \cup (Bases \X (0 .. MaxCount)) /\ TdIds # {} /\ MaxLibOps \in Nat
    /\ MaxCount \in Nat \ {0} /\ MaxIds \in Nat /\ MaxIds >= 3

ResourceNames == Bases \X (0 .. MaxCount)
StateNames == ResourceNames \cup {Plain}
Priorities == {"live", "planner"}

VARIABLES lib,     \* the server's tables
          view,    \* distributors as the page last loaded them
          file,    \* the saved profile
          jobs,    \* handlers between two requests
          lastImport, \* history: the import that ended, until the next write
          libOps

libVars == <<lib, view, file, jobs, lastImport, libOps>>

(***************************************************************************)
(* Requests                                                                *)
(***************************************************************************)
resourcesOf(l, td) == {r \in l.res : r.td = td}
statesOf(l, td) == {s \in l.states : s.td = td}
isResourceType(r) == r.kind = "type"
isResourceInstance(r) == r.kind = "instance"

\* Names need not be unique, and the parent is not looked up.
createResource(l, td, name, kind, parent) ==
    [l EXCEPT !.nextId = @ + 1,
              !.res = @ \cup {[id |-> l.nextId, td |-> td, name |-> name, kind |-> kind, parent |-> parent]}]

\* Deleting a type deletes its instances; a row that is gone is no error.
deleteResources(l, ids) == [l EXCEPT !.res = {r \in @ : r.id \notin ids /\ r.parent \notin ids}]

createState(l, td, name) ==
    [l EXCEPT !.nextId = @ + 1, !.states = @ \cup {[id |-> l.nextId, td |-> td, name |-> name]}]
deleteStates(l, ids) == [l EXCEPT !.states = {s \in @ : s.id \notin ids}]

\* The missing presets are filled in.
normalizeStateMergePolicies(p) == IF p = "none" THEN "live" ELSE p

Fits(n) == lib.nextId + n <= MaxIds + 1
LibOp == libOps < MaxLibOps /\ libOps' = libOps + 1

\* A write that is not the import's own.
Touched == {[j EXCEPT !.touched = TRUE] : j \in jobs}
Write(l, js) == lib' = l /\ jobs' = js /\ lastImport' = NoTd

(***************************************************************************)
(* Resources                                                               *)
(***************************************************************************)
buildInstanceNames(b, count) == {<<b, n>> : n \in 1 .. count}
inferResourceType(name) == name[1]
typeNamed(l, td, b) == {r \in resourcesOf(l, td) : isResourceType(r) /\ r.name = <<b, 0>>}

\* resourceTypeGroups: the instances of a type by parent, the others by their base.
itemsOfGroup(l, td, b) ==
    {r \in resourcesOf(l, td) :
        /\ isResourceInstance(r)
        /\ IF \E t \in resourcesOf(l, td) : isResourceType(t) /\ t.id = r.parent
           THEN \E t \in typeNamed(l, td, b) : t.id = r.parent
           ELSE inferResourceType(r.name) = b}

buildNextInstanceName(b, items) ==
    LET numbers == {r.name[2] : r \in {i \in items : i.name[1] = b}} \cup {0}
    IN <<b, 1 + CHOOSE n \in numbers : \A m \in numbers : m <= n>>

handleAddResource(td, name) ==
    /\ LibOp /\ Fits(1)
    /\ Write(createResource(lib, td, name, "instance", 0), Touched)
    /\ UNCHANGED <<view, file>>

handleDeleteResource(td) ==
    /\ LibOp
    /\ \E r \in resourcesOf(view, td) : Write(deleteResources(lib, {r.id}), Touched)
    /\ UNCHANGED <<view, file>>

\* The groups that the resource section lists, each with a field for an instance.
ResourceGroups(td) ==
    {b \in Bases : itemsOfGroup(view, td, b) # {} \/ typeNamed(view, td, b) # {}}

\* A job of the builder: the instances of a type, created after the type.
BuildJob(kind, td, b, names, parent) ==
    [kind |-> kind, click |-> libOps, td |-> td, base |-> b, names |-> names, parent |-> parent,
     touched |-> FALSE]
isGeneratingResourceType == \E j \in jobs : j.kind = "generate"

handleGenerateResourceType(td, b, count) ==
    /\ ~ isGeneratingResourceType /\ LibOp
    /\ LET taken == {r.name : r \in {i \in resourcesOf(view, td) : isResourceInstance(i)}}
           names == buildInstanceNames(b, count) \ taken
           old == typeNamed(view, td, b)
       IN /\ Fits(Cardinality(names) + 1)
          /\ \/ /\ old # {}
                /\ \E t \in old : jobs' = jobs \cup {BuildJob("generate", td, b, names, t.id)}
                /\ UNCHANGED <<lib, lastImport>>
             \/ /\ old = {}
                /\ Write(createResource(lib, td, <<b, 0>>, "type", 0),
                         Touched \cup {BuildJob("generate", td, b, names, lib.nextId)})
    /\ UNCHANGED <<view, file>>

\* A name that is taken in the loaded list is refused; nothing keeps the user
\* from clicking again before the list is loaded.
handleAddInstanceToType(td, b) ==
    /\ b \in ResourceGroups(td) /\ LibOp
    /\ LET name == buildNextInstanceName(b, itemsOfGroup(view, td, b))
           old == typeNamed(view, td, b)
       IN /\ name[2] <= MaxCount /\ Fits(2)
          /\ ~ \E r \in resourcesOf(view, td) : r.name = name
          /\ \/ /\ old # {}
                /\ \E t \in old : jobs' = jobs \cup {BuildJob("add", td, b, {name}, t.id)}
                /\ UNCHANGED <<lib, lastImport>>
             \/ /\ old = {}
                /\ Write(createResource(lib, td, <<b, 0>>, "type", 0),
                         Touched \cup {BuildJob("add", td, b, {name}, lib.nextId)})
    /\ UNCHANGED <<view, file>>

\* The instances are created side by side; those after a failure are lost.
InstancesBuilt(j) ==
    /\ j.kind \in {"generate", "add"} /\ Fits(Cardinality(j.names))
    /\ \E done \in SUBSET j.names :
        LET names == SetToSeq(done)
            made == {[id |-> lib.nextId + i - 1, td |-> j.td, name |-> names[i],
                      kind |-> "instance", parent |-> j.parent] : i \in DOMAIN names}
        IN Write([lib EXCEPT !.res = @ \cup made, !.nextId = @ + Len(names)],
                 Touched \ {[j EXCEPT !.touched = TRUE]})
    /\ UNCHANGED <<view, file, libOps>>

(***************************************************************************)
(* States and merge policies                                               *)
(***************************************************************************)
expandStateNameByTemplate(template, td) ==
    IF template = Plain THEN {Plain}
    ELSE {r.name : r \in {i \in resourcesOf(view, td) : isResourceInstance(i)}}

handleAddState(td, template) ==
    /\ LibOp
    /\ LET names == expandStateNameByTemplate(template, td) \ {s.name : s \in statesOf(view, td)}
       IN /\ names # {} /\ Fits(Cardinality(names))
          /\ \E done \in {SetToSeq(s) : s \in SUBSET names} :   \* side by side; some may fail
                Write([lib EXCEPT !.nextId = @ + Len(done),
                                  !.states = @ \cup {[id |-> lib.nextId + i - 1, td |-> td, name |-> done[i]]
                                                       : i \in DOMAIN done}], Touched)
    /\ UNCHANGED <<view, file>>

handleDeleteState(td) ==
    /\ LibOp
    /\ \E s \in statesOf(view, td) : Write(deleteStates(lib, {s.id}), Touched)
    /\ UNCHANGED <<view, file>>

\* The modal starts from the loaded policies; its draft is saved normalised.
handleSaveStateMergePolicies(td, p) ==
    /\ LibOp /\ td \in lib.tds
    /\ Write([lib EXCEPT !.policy[td] = normalizeStateMergePolicies(p)], Touched)
    /\ UNCHANGED <<view, file>>

handleRenameTd(td, name) ==
    /\ LibOp /\ td \in lib.tds /\ lib.tdName[td] # name
    /\ Write([lib EXCEPT !.tdName[td] = name], Touched)
    /\ UNCHANGED <<view, file>>

\* Another client deletes a distributor with its rows.
TdDisappears(td) ==
    /\ LibOp /\ td \in lib.tds
    /\ Write([lib EXCEPT !.tds = @ \ {td}, !.gone = @ \cup {td},
                         !.res = @ \ resourcesOf(lib, td), !.states = @ \ statesOf(lib, td)], Touched)
    /\ UNCHANGED <<view, file>>

loadProfileView ==
    /\ view # lib /\ view' = lib
    /\ UNCHANGED <<lib, file, jobs, lastImport, libOps>>

(***************************************************************************)
(* Export                                                                  *)
(***************************************************************************)
\* A resource in a profile: no id, and its parent by name when it is loaded.
Exported(l, td, r) ==
    LET parents == {p \in resourcesOf(l, td) : p.id = r.parent}
    IN [name |-> r.name, kind |-> r.kind,
        parent_name |-> IF parents = {} THEN NoTd ELSE (CHOOSE p \in parents : TRUE).name]

ProfileOf(l, td) ==
    LET rs == SetToSeq(resourcesOf(l, td))
        ss == SetToSeq(statesOf(l, td))
    IN [id |-> td, name |-> l.tdName[td],
        resources |-> [i \in DOMAIN rs |-> Exported(l, td, rs[i])],
        states |-> [i \in DOMAIN ss |-> ss[i].name],
        policy |-> normalizeStateMergePolicies(l.policy[td]),
        withTask |-> l.task.owner = td]

\* Both buttons are disabled while an import is applied.
Importing == {j \in jobs : j.kind = "import"}
ProfileButtons == Importing = {}

handleExportDistributorProfile(td) ==
    /\ ProfileButtons /\ LibOp
    /\ file' = ProfileOf(view, td)
    /\ UNCHANGED <<lib, view, jobs, lastImport>>

(***************************************************************************)
(* Import: the job's stage is the request that comes next                  *)
(***************************************************************************)
handleImportDistributorProfile ==
    /\ file # NoTd /\ ProfileButtons /\ LibOp
    /\ jobs' = jobs \cup {[kind |-> "import", profile |-> file, td |-> NoTd, stage |-> "find", at |-> 1,
                           states |-> {}, resources |-> {}, typeResourceByName |-> {}, before |-> NoTd,
                           known |-> view, touched |-> FALSE]}
    /\ UNCHANGED <<lib, view, file, lastImport>>

Proceed(j, k, l) == Write(l, (jobs \ {j}) \cup {k})
ImportStep(j, stage) == j.kind = "import" /\ j.stage = stage

\* By id, then by name, in the list of the click; else a new one is created.
FoundTd(j) ==
    LET byName == {td \in j.known.tds : j.known.tdName[td] = j.profile.name}
    IN IF j.profile.id \in j.known.tds THEN {j.profile.id} ELSE byName

\* What the task requires in library l, by kind and name.
KindsNamed(rs) == {<<r.kind, r.name>> : r \in rs}
RequiredRows(l, td) == {r \in resourcesOf(l, td) : r.id \in l.task.tokens}
Requirement(l) == [owner |-> l.task.owner, pairs |-> KindsNamed(RequiredRows(l, l.task.owner))]

\* History: what the task required before the first row is deleted.
ImportFind(j) ==
    /\ ImportStep(j, "find")
    /\ \E td \in IF FoundTd(j) # {} THEN FoundTd(j) \cap lib.tds ELSE TdIds \ (lib.tds \cup lib.gone) :
        LET l == [lib EXCEPT !.tds = @ \cup {td}, !.tdName[td] = j.profile.name]
        IN Proceed(j, [j EXCEPT !.td = td, !.stage = "clear", !.known = NoTd,
                                !.before = Requirement(lib),
                                !.states = {s.id : s \in statesOf(lib, td)},
                                !.resources = {r.id : r \in resourcesOf(lib, td)}], l)
    /\ UNCHANGED <<view, file, libOps>>

\* Mutant: only the states are deleted.
ImportClearStates(j) ==
    /\ ImportStep(j, "clear")
    /\ Proceed(j, [j EXCEPT !.stage = "states", !.states = {}, !.resources = {}],
               deleteStates(lib, j.states))
    /\ UNCHANGED <<view, file, libOps>>

\* Everything the distributor had when it was read is deleted, the states first;
\* one delete that fails ends the import with the others done.
ImportClear(j) ==
    /\ ImportStep(j, "clear")
    /\ \/ Proceed(j, [j EXCEPT !.stage = "states", !.states = {}, !.resources = {}],
                  deleteResources(deleteStates(lib, j.states), j.resources))
       \/ \E r \in j.resources :
            Write(deleteResources(deleteStates(lib, j.states), j.resources \ {r}), jobs \ {j})
    /\ UNCHANGED <<view, file, libOps>>

ImportState(j) ==
    /\ ImportStep(j, "states") /\ Fits(1)
    /\ IF j.at <= Len(j.profile.states)
       THEN Proceed(j, [j EXCEPT !.at = @ + 1], createState(lib, j.td, j.profile.states[j.at]))
       ELSE Proceed(j, [j EXCEPT !.at = 1, !.stage = "types"], lib)
    /\ UNCHANGED <<view, file, libOps>>

Wanted(j, kind) == Filter(j.profile.resources, LAMBDA r : r.kind = kind)

ImportType(j) ==
    /\ ImportStep(j, "types") /\ Fits(1)
    /\ IF j.at <= Len(Wanted(j, "type"))
       THEN LET name == Wanted(j, "type")[j.at].name
            IN Proceed(j, [j EXCEPT !.at = @ + 1, !.typeResourceByName =
                               {p \in @ : p[1] # name} \cup {<<name, lib.nextId>>}],
                       createResource(lib, j.td, name, "type", 0))
       ELSE Proceed(j, [j EXCEPT !.at = 1, !.stage = "instances"], lib)
    /\ UNCHANGED <<view, file, libOps>>

\* A parent that the profile does not list as a type is created first.
ImportInstance(j) ==
    /\ ImportStep(j, "instances") /\ Fits(1)
    /\ IF j.at <= Len(Wanted(j, "instance"))
       THEN LET r == Wanted(j, "instance")[j.at]
                parents == {p[2] : p \in {q \in j.typeResourceByName : q[1] = r.parent_name}}
            IN IF r.parent_name # NoTd /\ parents = {}
               THEN Proceed(j, [j EXCEPT !.typeResourceByName = @ \cup {<<r.parent_name, lib.nextId>>}],
                            createResource(lib, j.td, r.parent_name, "type", 0))
               ELSE Proceed(j, [j EXCEPT !.at = @ + 1],
                            createResource(lib, j.td, r.name, "instance",
                                           IF parents = {} THEN 0 ELSE CHOOSE p \in parents : TRUE))
       ELSE Proceed(j, [j EXCEPT !.stage = "policies"], lib)
    /\ UNCHANGED <<view, file, libOps>>

\* The policies, and the resources as they are then.
ImportPolicies(j) ==
    /\ ImportStep(j, "policies")
    /\ Proceed(j, [j EXCEPT !.stage = "bind", !.resources = resourcesOf(lib, j.td)],
               [lib EXCEPT !.policy[j.td] = normalizeStateMergePolicies(j.profile.policy)])
    /\ UNCHANGED <<view, file, libOps>>

\* A required resource is kept when it exists, else found by kind and name if the
\* task comes from another distributor, else dropped.
Rebound(j) ==
    LET owner == lib.task.owner
        kept == {t \in lib.task.tokens : \E r \in j.resources : r.id = t}
        old == IF owner = j.td THEN {} ELSE resourcesOf(lib, owner)
        named == {r \in old : r.id \in lib.task.tokens \ kept}
    IN kept \cup {(CHOOSE r \in j.resources : <<r.kind, r.name>> = p).id :
                     p \in KindsNamed(named) \cap KindsNamed(j.resources)}

\* Another distributor that the task belongs to is read, and must exist.
OwnerReadable(j) == lib.task.owner \in {j.td} \cup lib.tds

\* Binding the tasks may fail without the import failing.
ImportBind(j) ==
    /\ ImportStep(j, "bind")
    /\ jobs' = jobs \ {j}
    /\ \E bound \in {FALSE, j.profile.withTask /\ OwnerReadable(j)} :
        /\ lib' = IF bound THEN [lib EXCEPT !.task = [owner |-> j.td, tokens |-> Rebound(j)]] ELSE lib
        /\ lastImport' = IF j.touched THEN NoTd
                         ELSE [profile |-> j.profile, td |-> j.td, bound |-> bound, before |-> j.before]
    /\ UNCHANGED <<view, file, libOps>>

\* The first request that fails ends a handler; nothing is undone.
JobFails(j) == jobs' = jobs \ {j} /\ UNCHANGED <<lib, view, file, lastImport, libOps>>

(***************************************************************************)
(* Specification                                                           *)
(***************************************************************************)
\* One distributor with a type, an instance of it that the task requires and a state;
\* perhaps a profile like it, of a distributor that is gone, with or without the type.
FirstTd == CHOOSE td \in TdIds : TRUE
OldProfiles(l) ==
    {[ProfileOf(l, FirstTd) EXCEPT !.id = NoTd, !.name = n] : n \in TdIds}
    \cup {[ProfileOf(l, FirstTd) EXCEPT !.id = NoTd,
                !.resources = Filter(@, LAMBDA r : r.kind = "instance")]}

ProfileInit ==
    /\ libOps = 0 /\ jobs = {} /\ lastImport = NoTd
    /\ \E b \in Bases :
        lib = [tds |-> {FirstTd}, gone |-> {}, tdName |-> [x \in TdIds |-> x], nextId |-> 4,
               res |-> {[id |-> 1, td |-> FirstTd, name |-> <<b, 0>>, kind |-> "type", parent |-> 0],
                        [id |-> 2, td |-> FirstTd, name |-> <<b, 1>>, kind |-> "instance", parent |-> 1]},
               states |-> {[id |-> 3, td |-> FirstTd, name |-> <<b, 1>>]},
               policy |-> [x \in TdIds |-> "none"], task |-> [owner |-> FirstTd, tokens |-> {2}]]
    /\ view = lib /\ file \in {NoTd} \cup OldProfiles(lib)

ProfileUser(td) ==
    \/ \E b \in Bases : handleAddResource(td, <<b, 1>>) \/ handleAddInstanceToType(td, b)
                        \/ handleGenerateResourceType(td, b, MaxCount)
    \/ handleDeleteResource(td) \/ handleDeleteState(td)
    \/ \E s \in {Plain, NoTd} : handleAddState(td, s)
    \/ \E p \in Priorities : handleSaveStateMergePolicies(td, p)
    \/ \E name \in TdIds : handleRenameTd(td, name)
    \/ handleExportDistributorProfile(td)

ProfileSteps(j) ==
    \/ InstancesBuilt(j) \/ ImportFind(j) \/ ImportClear(j) \/ ImportState(j) \/ ImportType(j)
    \/ ImportInstance(j) \/ ImportPolicies(j) \/ ImportBind(j) \/ JobFails(j)

ProfileNext ==
    \/ \E td \in view.tds : ProfileUser(td)
    \/ \E td \in TdIds : TdDisappears(td)
    \/ handleImportDistributorProfile \/ loadProfileView
    \/ \E j \in jobs : ProfileSteps(j)

(***************************************************************************)
(* Properties                                                              *)
(***************************************************************************)
ProfileTypeOK ==
    /\ lib.tds \subseteq TdIds /\ lib.nextId \in 1 .. MaxIds + 1
    /\ \A r \in lib.res : r.td \in TdIds /\ r.name \in ResourceNames /\ r.parent \in 0 .. MaxIds
    /\ \A s \in lib.states : s.td \in TdIds /\ s.name \in StateNames
    /\ lib.policy \in [TdIds -> Priorities \cup {"none"}]

\* How often each element occurs.
Occurrences(seq, x) == Cardinality({i \in DOMAIN seq : seq[i] = x})
SameBag(s, t) == Len(s) = Len(t) /\ \A i \in DOMAIN s : Occurrences(s, s[i]) = Occurrences(t, s[i])

\* The resources of a profile and the types that it names only as parents.
Completed(rs) ==
    LET missing == SetToSeq({rs[i].parent_name : i \in DOMAIN rs}
                            \ ({NoTd} \cup {rs[i].name : i \in {k \in DOMAIN rs : rs[k].kind = "type"}}))
    IN rs \o [i \in DOMAIN missing |-> [name |-> missing[i], kind |-> "type", parent_name |-> NoTd]]

\* The task requires nothing but resources of its distributor: of those it required
\* in another one, by kind and name, all that the new one has; and nothing when it was
\* bound to this distributor already, whose rows got new ids.
TasksRebound(i) ==
    LET mine == resourcesOf(lib, i.td)
        required == RequiredRows(lib, i.td)
    IN /\ lib.task.owner = i.td
       /\ lib.task.tokens = {r.id : r \in required}
       /\ KindsNamed(required) = IF i.before.owner = i.td THEN {}
                                 ELSE i.before.pairs \cap KindsNamed(mine)

\* An import (handleImportDistributorProfile) that ran to its end while nobody else
\* wrote leaves the distributor with exactly the resources (each under a type of the
\* parent's name), the states and the policies of the profile, whatever it had before
\* and whether it was found by its id, by its name or created.  The task it bound
\* requires by kind and name what it required when the import began, as far as the
\* distributor has it, if it comes from another distributor; a task of the very
\* distributor that the file goes into requires nothing any more.
ImportFaithful == lastImport # NoTd =>
    LET now == ProfileOf(lib, lastImport.td)
        was == lastImport.profile
    IN /\ SameBag(now.resources, Completed(was.resources)) /\ SameBag(now.states, was.states)
       /\ now.policy = was.policy /\ now.name = was.name
       /\ lastImport.bound => TasksRebound(lastImport)

=============================================================================
