---------------------------- MODULE ImportExport ----------------------------
(***************************************************************************)
(* A tenant's configuration written to a file, edited on either side, and  *)
(* read back into the same tenant or another one: groups and their closure *)
(* table, monitors, settings, channels with their bindings, teams with     *)
(* their permissions, remediation actions and their bindings.              *)
(*                                                                         *)
(* An import is one transaction, hence one step.  Records are told apart   *)
(* by a name that the file keeps, their contents are a version number, and *)
(* the sections are imported in the code's order, except that settings and *)
(* remediation bindings come last: they refer to groups, monitors and      *)
(* actions only, and nothing refers to them.                               *)
(***************************************************************************)
EXTENDS Integers, Sequences, SequencesExt

CONSTANTS
  SectionSets,   \* the sets of sections that imports ask for
  MaxEdits,      \* bound: edits of the tenant or of the file
  MaxImports,    \* bound: imports
  NoFile         \* nothing exported yet

ASSUME ImportExportAssumption ==
  /\ MaxEdits \in Nat /\ MaxImports \in Nat

VARIABLES
  db,        \* the tables
  file,      \* what was exported last, or NoFile
  edits,     \* edits so far
  imports,   \* imports so far
  last,      \* history: what the last import was asked, and whether it failed
  regrouped  \* history: an update may have given a group another parent

vars == <<db, file, edits, imports, last, regrouped>>

Tenants == {"home", "other"}
Kinds   == {"group", "monitor", "channel", "team", "action"}
Sections == Kinds \union {"setting", "remedy"}
Strategies == {"update", "generateNew", "ignore"}

\* One record for the rows of five tables.  up: the parent of a group, the group
\* of a monitor.  extra: the agent settings of a group, the push token of a monitor.
\* An agent's monitor is in the monitors table, and is not exported.
Row(kind, id, tenant, up, extra) ==
  [kind |-> kind, id |-> id, uuid |-> id, tenant |-> tenant, up |-> up,
   name |-> id, data |-> 0, extra |-> extra]

\* Settings belong to a tenant, the other scoped rows to a channel, team or action.
Scoped(scope, ref, value) == [scope |-> scope, ref |-> ref, value |-> value]
Owned(owner, scope, ref, value) ==
  [owner |-> owner, scope |-> scope, ref |-> ref, value |-> value]

\* The files that an export may write.
Places == {"global", "group", "monitor"}
SomeScoped == [scope : Places, ref : Nat, value : Nat]
SomeItem == [uuid : Nat, up : Nat, name : Nat, data : Nat, extra : Nat,
             scoped : SUBSET SomeScoped]
Files == [items : [Kinds -> Seq(SomeItem)], settings : SUBSET SomeScoped,
          remedies : SUBSET [action : Nat, scope : Places, ref : Nat, value : Nat]]

ASSUME NoFileAssumption == NoFile \notin Files

Of(rows, kind) == {r \in rows : r.kind = kind \/ (kind = "monitor" /\ r.kind = "agent")}
With(rows, id) == CHOOSE r \in rows : r.id = id

\* A tenant with two groups, a monitor, a channel, a team and an action, whose scoped
\* rows point at one place; and another tenant with nothing, or with one of its teams.
Init ==
  /\ \E up \in {0, 1}, in \in {1, 2}, at \in {<<"global", 0>>, <<"group", 2>>,
                                               <<"monitor", 3>>, <<"monitor", 4>>} :
     \E rest \in IF up = 1 /\ in = 2 THEN {{}, {[Row("team", 8, "other", 0, 0) EXCEPT !.name = 6]}}
                                     ELSE {{}} :
       db = [rows |-> {Row("group", 1, "home", 0, 0), Row("group", 2, "home", up, 0),
                       Row("monitor", 3, "home", in, 3), Row("agent", 4, "home", 1, 0),
                       Row("channel", 5, "home", 0, 0), Row("action", 7, "home", 0, 0)}
                     \union (IF rest = {} THEN {Row("team", 6, "home", 0, 0)} ELSE rest),
             closure  |-> {<<1, 1>>, <<2, 2>>} \union (IF up = 1 THEN {<<1, 2>>} ELSE {}),
             settings |-> {Owned("home", at[1], at[2], 0)},
             owned    |-> {Owned(o, at[1], at[2], 0) :
                            o \in {5, 7} \union (IF rest = {} /\ at[1] # "global" THEN {6} ELSE {})},
             serial   |-> 8]
  /\ file = NoFile /\ edits = 0 /\ imports = 0 /\ regrouped = FALSE
  /\ last = [tenant |-> "home", strategy |-> "update", sections |-> {}, failed |-> FALSE]

-----------------------------------------------------------------------------
(***************************************************************************)
(* exportData.                                                             *)
(***************************************************************************)
\* The uuid of what a scoped row points at, 0 when the tenant has no such row.
UuidAt(rows, scope, id) ==
  IF \E r \in Of(rows, scope) : r.id = id
    THEN (CHOOSE r \in Of(rows, scope) : r.id = id).uuid ELSE 0

\* Rows that point at nothing of the tenant are left out.
Exported(rows, scoped) ==
  {x \in {Scoped(s.scope, IF s.scope = "global" THEN 0 ELSE UuidAt(rows, s.scope, s.ref),
                 s.value) : s \in scoped} :
     x.scope = "global" \/ x.ref # 0}

Item(rows, r) ==
  [uuid |-> r.uuid, up |-> UuidAt(rows, "group", r.up), name |-> r.name,
   data |-> r.data, extra |-> r.extra,
   scoped |-> IF r.kind = "action" THEN {}
              ELSE Exported(rows, {o \in db.owned : o.owner = r.id})]

Remedies(rows) ==
  UNION {{[action |-> a.uuid, scope |-> s.scope, ref |-> s.ref, value |-> s.value] :
            s \in Exported(rows, {o \in db.owned : o.owner = a.id})}
         : a \in {r \in rows : r.kind = "action"}}

\* Groups come by sort order and name, which an administrator chooses: children may come
\* before their parents.  Of the other kinds there is one record at most.
Export ==
  LET rows == {r \in db.rows : r.tenant = "home"}
      Orders(kind) == SetToSeqs({Item(rows, r) : r \in {q \in rows : q.kind = kind}})
  IN
  /\ file = NoFile
  /\ \E items \in [Kinds -> UNION {Orders(k) : k \in Kinds}] :
       /\ \A k \in Kinds : items[k] \in Orders(k)
       /\ file' = [items |-> items, settings |-> Exported(rows, db.settings),
                   remedies |-> Remedies(rows)]
  /\ UNCHANGED <<db, edits, imports, last, regrouped>>

-----------------------------------------------------------------------------
(***************************************************************************)
(* importData.                                                             *)
(***************************************************************************)
Anonymous == 0

\* Mutant of TopoSort: groups are imported in the file's order.
TopoSortNot(items) == items

\* Where a uuid stands in a file: one that is not given nowhere.
PlacesOf(items, uuid) == {i \in DOMAIN items : uuid # Anonymous /\ items[i].uuid = uuid}

\* A group after those of its ancestors that are in the file.
Line(items, i) ==
  FoldLeft(LAMBDA line, n :
             LET above == PlacesOf(items, items[line[1]].up) IN
             IF above = {} THEN line ELSE <<CHOOSE j \in above : TRUE>> \o line,
           <<i>>, [n \in 1 .. Len(items) - 1 |-> n])

\* Visited groups are remembered by uuid: all those without one count as the same group.
Visited(items, done, i) == \E j \in Range(done) : items[j].uuid = items[i].uuid
Visit(items, done, i) == IF Visited(items, done, i) THEN done ELSE Append(done, i)
VisitLine(items, done, i) ==
  IF Visited(items, done, i) THEN done
  ELSE FoldLeft(LAMBDA d, j : Visit(items, d, j), done, Line(items, i))

\* Parents before children.
TopoSort(items) ==
  LET order == FoldLeft(LAMBDA done, i : VisitLine(items, done, i), <<>>,
                        [i \in DOMAIN items |-> i])
  IN [n \in DOMAIN order |-> items[order[n]]]

\* The uuids known to the tenant before the import, and the ids they stand for;
\* copies take the place of their originals as the import goes on.
Known(rows, tenant) ==
  [k \in Kinds |-> {<<r.uuid, r.id>> : r \in {q \in Of(rows, k) : q.tenant = tenant}}]

Resolve(known, kind, uuid) ==
  IF \E p \in known[kind] : p[1] = uuid
    THEN (CHOOSE p \in known[kind] : p[1] = uuid)[2] ELSE 0

\* Mutant of ResolveConflict: the strategy also applies to 'ignore' as to 'update'.
ResolveConflictOverwrites(job, known, kind, uuid) ==
  IF uuid = Anonymous \/ uuid \in job.foreign[kind] THEN "fresh"
  ELSE IF Resolve(known, kind, uuid) = 0 THEN "create"
  ELSE IF job.strategy = "generateNew" THEN "fresh" ELSE "update"

ResolveConflict(job, known, kind, uuid) ==
  IF uuid = Anonymous \/ uuid \in job.foreign[kind] THEN "fresh"
  ELSE IF Resolve(known, kind, uuid) = 0 THEN "create"
  ELSE CASE job.strategy = "update"      -> "update"
         [] job.strategy = "generateNew" -> "fresh"
         [] job.strategy = "ignore"      -> "skip"

\* What a scoped row of the file points at; those that point at nothing are skipped.
Resolved(known, scoped) ==
  {x \in {Scoped(s.scope, IF s.scope = "global" THEN 0 ELSE Resolve(known, s.scope, s.ref),
                 s.value) : s \in scoped} :
     x.scope = "global" \/ x.ref # 0}

\* Mutant of Token: the copy keeps the token of its original.
TokenKept(rows, item, uuid) == item.extra

\* A push token that another monitor owns, in any tenant, is dropped.
Token(rows, item, uuid) ==
  IF \E r \in Of(rows, "monitor") : r.extra = item.extra /\ r.uuid # uuid
    THEN 0 ELSE item.extra

\* The bindings of a channel and the permissions of a team are rebuilt.
Rebuilt(owned, kind, id, scoped) ==
  IF kind \in {"channel", "team"}
    THEN {o \in owned : o.owner # id}
         \union {Owned(id, s.scope, s.ref, s.value) : s \in scoped}
    ELSE owned

\* An existing record takes the file's contents; a group keeps its agent settings,
\* and its lines in the closure table.
UpdateItem(acc, job, kind, item) ==
  LET id == Resolve(acc.known, kind, item.uuid)
      old == With(acc.db.rows, id)
      new == [old EXCEPT
                !.name = item.name, !.data = item.data,
                !.up = IF kind \in {"group", "monitor"}
                         THEN Resolve(acc.known, "group", item.up) ELSE @,
                !.extra = IF kind = "monitor" THEN Token(acc.db.rows, item, item.uuid) ELSE @]
  IN [acc EXCEPT
        !.db.rows = (@ \ {old}) \union {new},
        !.db.owned = Rebuilt(@, kind, id, Resolved(acc.known, item.scoped))]

\* A new record; the team's name must not be taken in any tenant, and one that
\* is taken in this tenant is skipped.
CreateItem(acc, job, kind, item, fresh) ==
  LET id == acc.db.serial + 1
      uuid == IF fresh THEN id ELSE item.uuid
      up == Resolve(acc.known, "group", item.up)
      named == {r \in acc.db.rows : kind = "team" /\ r.kind = "team" /\ r.name = item.name}
      row == [kind |-> kind, id |-> id, uuid |-> uuid, tenant |-> job.tenant,
              up |-> up, name |-> item.name, data |-> item.data,
              extra |-> IF kind = "monitor" THEN Token(acc.db.rows, item, uuid)
                        ELSE item.extra]
      above == {p[1] : p \in {q \in acc.db.closure : q[2] = up}}
  IN
  IF \E r \in named : r.tenant = job.tenant THEN acc
  ELSE IF named # {} THEN [acc EXCEPT !.failed = TRUE]
  ELSE [acc EXCEPT
          !.db.rows = @ \union {row},
          !.db.serial = id,
          !.db.closure = IF kind = "group"
                           THEN @ \union {<<id, id>>} \union {<<a, id>> : a \in above} ELSE @,
          !.db.owned = Rebuilt(@, kind, id, Resolved(acc.known, item.scoped)),
          !.known[kind] = {p \in @ : p[1] # item.uuid} \union
                            {<<u, id>> : u \in {item.uuid, uuid} \ {Anonymous}}]

ImportItem(acc, job, kind, item) ==
  LET decision == ResolveConflict(job, acc.known, kind, item.uuid) IN
  CASE decision = "skip"   -> acc
    [] decision = "update" -> UpdateItem(acc, job, kind, item)
    [] decision \in {"create", "fresh"} -> CreateItem(acc, job, kind, item, decision = "fresh")

ImportItems(acc, job, kind, items) ==
  FoldLeft(LAMBDA a, item : ImportItem(a, job, kind, item), acc, items)

ImportSection(acc, job, kind) ==
  IF kind \notin job.sections THEN acc
  ELSE ImportItems(acc, job, kind, IF kind = "group" THEN TopoSort(file.items[kind])
                                   ELSE file.items[kind])

\* Deleted, then inserted, whatever the strategy.
ImportSettings(acc, job) ==
  LET new == Resolved(acc.known, file.settings) IN
  IF "setting" \notin job.sections THEN acc
  ELSE [acc EXCEPT !.db.settings =
          {s \in @ : ~(s.owner = job.tenant /\ \E x \in new : x.scope = s.scope /\ x.ref = s.ref)}
          \union {Owned(job.tenant, x.scope, x.ref, x.value) : x \in new}]

ImportRemedies(acc, job) ==
  LET new == UNION {{Owned(Resolve(acc.known, "action", r.action), x.scope, x.ref, x.value) :
                       x \in Resolved(acc.known, {Scoped(r.scope, r.ref, r.value)})}
                    : r \in {q \in file.remedies : Resolve(acc.known, "action", q.action) # 0}}
  IN
  IF "remedy" \notin job.sections THEN acc
  ELSE [acc EXCEPT !.db.owned =
          {o \in @ : ~\E x \in new : x.owner = o.owner /\ x.scope = o.scope /\ x.ref = o.ref}
          \union new]

Start(job) == [db |-> db, known |-> Known(db.rows, job.tenant), failed |-> FALSE]

\* Mutant of Imported: the channels come first.
ImportedChannelsFirst(job) ==
  LET channels == ImportSection(Start(job), job, "channel")
      groups   == ImportSection(channels, job, "group")
      monitors == ImportSection(groups, job, "monitor")
      teams    == ImportSection(monitors, job, "team")
      actions  == ImportSection(teams, job, "action")
  IN ImportRemedies(ImportSettings(actions, job), job)

Imported(job) ==
  LET groups   == ImportSection(Start(job), job, "group")
      monitors == ImportSection(groups, job, "monitor")
      channels == ImportSection(monitors, job, "channel")
      teams    == ImportSection(channels, job, "team")
      actions  == ImportSection(teams, job, "action")
  IN ImportRemedies(ImportSettings(actions, job), job)

\* A failed statement rolls the import back.
Import == \E tenant \in Tenants, strategy \in Strategies, sections \in SectionSets :
  LET job == [tenant |-> tenant, strategy |-> strategy, sections |-> sections,
              foreign |-> [k \in Kinds |->
                {r.uuid : r \in {q \in Of(db.rows, k) : q.tenant # tenant}}]]
      result == Imported(job)
      parents == {<<r.uuid, UuidAt(db.rows, "group", r.up)>> :
                    r \in {q \in db.rows : q.kind = "group" /\ q.tenant = tenant}}
      given == {<<i.uuid, i.up>> : i \in Range(file.items["group"])}
  IN
  /\ file # NoFile /\ imports < MaxImports
  /\ imports' = imports + 1
  /\ db' = IF result.failed THEN db ELSE result.db
  /\ last' = [tenant |-> tenant, strategy |-> strategy, sections |-> sections,
              failed |-> result.failed]
  /\ regrouped' = (regrouped \/ (strategy = "update" /\ "group" \in sections
       /\ \E g \in given, p \in parents : g[1] = p[1] /\ g[2] # p[2]))
  /\ UNCHANGED <<file, edits>>

-----------------------------------------------------------------------------
(***************************************************************************)
(* What happens to the tenant, and to the file, between export and import. *)
(***************************************************************************)
Edited == edits < MaxEdits /\ edits' = edits + 1

Change == \E r \in db.rows :
  /\ Edited /\ r.tenant = "home" /\ r.data = 0
  /\ db' = [db EXCEPT !.rows = (@ \ {r}) \union
              {[r EXCEPT !.data = 1, !.extra = IF r.kind = "group" THEN 1 ELSE @]}]
  /\ UNCHANGED <<file, imports, last, regrouped>>

\* The second group moves to the root, or below the first.
Move == \E r \in db.rows :
  /\ Edited /\ r.kind = "group" /\ r.id = 2
  /\ db' = [db EXCEPT !.rows = (@ \ {r}) \union {[r EXCEPT !.up = 1 - @]},
                      !.closure = IF r.up = 1 THEN @ \ {<<1, 2>>} ELSE @ \union {<<1, 2>>}]
  /\ UNCHANGED <<file, imports, last, regrouped>>

\* Scoped rows that point at a deleted record stay; what it owns goes.
Delete == \E r \in db.rows :
  /\ Edited /\ r.kind \in {"monitor", "channel", "action"} /\ r.tenant = "home"
  /\ db' = [db EXCEPT !.rows = @ \ {r}, !.owned = {o \in @ : o.owner # r.id}]
  /\ UNCHANGED <<file, imports, last, regrouped>>

\* The administrator leaves the uuids of the groups out of the file.
OmitUuids ==
  /\ Edited /\ file # NoFile
  /\ file' = [file EXCEPT !.items["group"] =
                [i \in DOMAIN @ |-> [@[i] EXCEPT !.uuid = Anonymous]]]
  /\ UNCHANGED <<db, imports, last, regrouped>>

Next == Export \/ Import \/ Change \/ Move \/ Delete \/ OmitUuids

Spec == Init /\ [][Next]_vars

-----------------------------------------------------------------------------
Groups(rows) == {r \in rows : r.kind = "group"}

\* The ancestors of a group by the parents, itself included: what every set of groups has
\* that has the group and, with a group, its parent.
Above(rows, id) ==
  LET ids == {g.id : g \in Groups(rows)}
      Upward == {S \in SUBSET ids :
                   id \in S /\ \A g \in Groups(rows) : g.id \in S /\ g.up # 0 => g.up \in S}
  IN {h \in ids : \A S \in Upward : h \in S}

\* After every import the closure table holds the ancestors by the parents, unless an
\* update has moved a group; no two monitors share a push token, and no row points
\* into another tenant (insertGroupClosure, the token check, the maps by tenant).
Consistent ==
  /\ regrouped \/ \A g \in Groups(db.rows) :
       {p[1] : p \in {q \in db.closure : q[2] = g.id}} = Above(db.rows, g.id)
  /\ \A r, q \in Of(db.rows, "monitor") : (r.extra # 0 /\ r.extra = q.extra) => r = q
  /\ \A r \in db.rows : r.up # 0 => With(db.rows, r.up).tenant = r.tenant
  /\ \A o \in db.owned, r \in db.rows :
       (o.scope = r.kind /\ o.ref = r.id) => With(db.rows, o.owner).tenant = r.tenant

Records(d, tenant) == {r \in d.rows : r.tenant = tenant}
Named == \A i \in Range(file.items["group"]) : i.uuid # Anonymous

\* Imports elsewhere may have claimed the uuid of a deleted record.
Claimed == \E k \in Kinds : \E i \in Range(file.items[k]), r \in Of(db.rows, k) :
             r.uuid = i.uuid /\ r.tenant # "home"

\* Imports that ignore or duplicate leave the records that exist as they are, with what
\* they own, whatever was changed since the export (resolveConflict).
LeavesExisting ==
  [][(imports' # imports /\ last'.strategy # "update") =>
       /\ db.rows \subseteq db'.rows
       /\ \A r \in db.rows : r.kind \in {"channel", "team"} =>
            {o \in db.owned : o.owner = r.id} = {o \in db'.owned : o.owner = r.id}]_vars

\* A full import with 'update' brings back, in the tenant of the export, every record
\* of the file and everything it points at, but for the agent settings of groups that
\* exist, unless another tenant has claimed its uuid; records that are not in the file
\* stay, and no others appear (importData: a deleted monitor is back before the
\* bindings that point at it; after changes and moves, and when repeated).
Restores ==
  [][(imports' # imports /\ last'.tenant = "home" /\ last'.strategy = "update"
      /\ last'.sections = Sections /\ ~last'.failed /\ Named /\ ~Claimed) =>
       LET rows == Records(db', "home")
           uuids(k) == {i.uuid : i \in Range(file.items[k])}
       IN
       /\ \A k \in Kinds : \A i \in Range(file.items[k]) :
            \E r \in rows :
              /\ r.kind = k /\ r.uuid = i.uuid /\ r.name = i.name /\ r.data = i.data
              /\ UuidAt(rows, "group", r.up) = i.up
              /\ k \in {"channel", "team"} =>
                   Exported(rows, {o \in db'.owned : o.owner = r.id}) =
                     {s \in i.scoped : s.scope = "global" \/ \E q \in rows : q.uuid = s.ref}
       /\ {r \in db.rows : r.kind \notin Kinds \/ r.uuid \notin uuids(r.kind)}
            = {r \in db'.rows : r.kind \notin Kinds \/ r.uuid \notin uuids(r.kind)}]_vars

\* The new records of an import, as a file sees them: by name.
NameAt(new, scope, id) ==
  IF \E r \in new : r.kind = scope /\ r.id = id
    THEN (CHOOSE r \in new : r.kind = scope /\ r.id = id).name ELSE 0

\* A full import that creates a copy of every group and monitor, because it duplicates
\* or because the uuids belong to another tenant, makes the copies point at the copies
\* as the originals point at each other (batchGroupByOrigUuid, monitorIdByUuid).
CopyMirrorsFile ==
  [][(imports' # imports /\ ~last'.failed /\ Named /\ imports = 0 /\ edits = 0
      /\ {"group", "monitor", "channel", "setting"} \subseteq last'.sections
      /\ (last'.strategy = "generateNew" \/ last'.tenant = "other")) =>
       LET new == db'.rows \ db.rows
           nameOf(k, u) == IF u = 0 THEN 0
             ELSE (CHOOSE i \in Range(file.items[k]) : i.uuid = u).name
       IN
       /\ \A k \in {"group", "monitor", "channel"} :
            {<<r.name, r.data, NameAt(new, "group", r.up)>> : r \in {q \in new : q.kind = k}}
              = {<<i.name, i.data, nameOf("group", i.up)>> : i \in Range(file.items[k])}
       /\ \A s \in file.settings :
            (s.scope # "global" /\ \E i \in Range(file.items[s.scope]) : i.uuid = s.ref) =>
              \E x \in db'.settings : x.scope = s.scope
                 /\ NameAt(new, s.scope, x.ref) = nameOf(s.scope, s.ref)]_vars

\* What the strategies promise: what exists stays as it is, or what the file says is back.
StrategiesHold == LeavesExisting /\ Restores
=============================================================================
