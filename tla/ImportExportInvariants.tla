------------------------ MODULE ImportExportInvariants ------------------------
(***************************************************************************)
(* What stays true of the tables, the file and an import that is under     *)
(* way: the inductive invariants of ImportExport and the predicates that   *)
(* they are made of.  Administration_proofs proves them.                   *)
(***************************************************************************)
EXTENDS ImportExport
-----------------------------------------------------------------------------
(***************************************************************************)
(* The tables.                                                             *)
(***************************************************************************)
\* Agents' monitors are in the monitors table.
Class(r) == IF r.kind = "agent" THEN "monitor" ELSE r.kind
SomeRow == [kind : Kinds \union {"agent"}, id : Nat \ {0}, uuid : Nat \ {0}, tenant : Tenants,
            up : Nat, name : Nat, data : Nat, extra : Nat]
SomeSetting == [owner : Tenants, scope : Places, ref : Nat, value : Nat]
SomeOwned == [owner : Nat, scope : Places, ref : Nat, value : Nat]
SomeDb == [rows : SUBSET SomeRow, closure : SUBSET (Nat \X Nat),
           settings : SUBSET SomeSetting, owned : SUBSET SomeOwned, serial : Nat]

\* Ids are given out in order; neither they nor the uuids of a table are given twice.
IdsOK(rows, serial) ==
  /\ \A r \in rows : r.id <= serial /\ r.uuid <= serial
  /\ \A r, q \in rows : r.id = q.id => r = q
  /\ \A r, q \in rows : Class(r) = Class(q) /\ r.uuid = q.uuid => r = q
TokensOK(rows) ==
  \A r, q \in rows : (/\ Class(r) = "monitor" /\ Class(q) = "monitor"
                      /\ r.extra # 0 /\ r.extra = q.extra) => r = q

\* A group of the tenant, or none.
UpOK(rows, tenant, up) ==
  up # 0 => \E g \in rows : g.kind = "group" /\ g.id = up /\ g.tenant = tenant
UpsOK(rows) == \A r \in rows : UpOK(rows, r.tenant, r.up)

\* What a scoped row points at is of the tenant, or gone.
PointsInto(rows, tenant, place, ref) ==
  \A r \in rows : place = r.kind /\ ref = r.id => r.tenant = tenant
OwnedOK(owned, rows, serial) ==
  \A o \in owned : /\ o.ref <= serial
                   /\ \E w \in rows : w.id = o.owner /\ PointsInto(rows, w.tenant, o.scope, o.ref)

\* The two groups of the tenant stay, and none is ever below the second one; the closure
\* table is about groups.
BuiltOK(rows, closure, serial) ==
  /\ serial >= 8
  /\ \E g \in rows : g.kind = "group" /\ g.id = 1 /\ g.uuid = 1 /\ g.tenant = "home" /\ g.up = 0
  /\ \E g \in rows : g.kind = "group" /\ g.id = 2 /\ g.uuid = 2 /\ g.tenant = "home"
                     /\ g.up \in {0, 1}
  /\ \A g \in rows : g.kind = "group" => g.up # 2
  /\ \A p \in closure : /\ \E g \in rows : g.kind = "group" /\ g.id = p[1]
                        /\ \E g \in rows : g.kind = "group" /\ g.id = p[2]

\* Parents are older than their children, and the closure table gives a group itself and
\* the ancestors of its parent.
Ancestors(closure, id) == {p[1] : p \in {q \in closure : q[2] = id}}
TreeOf(rows, closure) ==
  \A g \in rows : g.kind = "group" =>
    g.up < g.id /\ Ancestors(closure, g.id) = {g.id} \union Ancestors(closure, g.up)
GoodDb(d) ==
  /\ d \in SomeDb
  /\ IdsOK(d.rows, d.serial) /\ TokensOK(d.rows) /\ UpsOK(d.rows)
  /\ OwnedOK(d.owned, d.rows, d.serial) /\ BuiltOK(d.rows, d.closure, d.serial)
-----------------------------------------------------------------------------
(***************************************************************************)
(* A file, and the inductive invariant.                                    *)
(***************************************************************************)
\* The items of a file: its groups are the two of the tenant, or have lost their uuid; ups
\* are the parents that the file may give to the second one.
Items(kind, serial, ups) ==
  {i \in SomeItem : /\ i.uuid <= serial
                    /\ kind = "group" => /\ i.uuid \in {0, 1, 2} /\ i.up \in {0, 1}
                                         /\ i.uuid = 1 => i.up = 0
                                         /\ i.uuid = 2 => i.up \in ups}
FileOK(f, d) ==
  \/ f = NoFile /\ \A r \in d.rows : r.kind = "group" => r.id \in {1, 2}
  \/ f \in Files /\ \A k \in Kinds : f.items[k] \in Seq(Items(k, d.serial, {0, 1}))

\* The inductive invariant.
FilesOK == GoodDb(db) /\ (regrouped \/ TreeOf(db.rows, db.closure)) /\ FileOK(file, db)
-----------------------------------------------------------------------------
(***************************************************************************)
(* Folds, and the sort of the groups.                                      *)
(***************************************************************************)
\* The equation of a fold over k positions, for one step given as a function.
FoldEquation(h, k, V, base, step) ==
  /\ h \in [SUBSET (1..k) -> V]
  /\ \A S \in SUBSET (1..k) :
       h[S] = IF S = {} THEN base ELSE step[<<h[S \ {Max(S)}], Max(S)>>]

\* What a fold's equation says of results that are in V.
FoldHolds(c, n, V, base, step) ==
  /\ c[{}] = base
  /\ \A S \in SUBSET (1..n) :
       S # {} /\ c[S \ {Max(S)}] \in V => c[S] = step[<<c[S \ {Max(S)}], Max(S)>>]

\* What is to hold after the first k positions: W[k].
FoldClimbs(W, n, V, base, step) ==
  /\ base \in W[0] /\ \A k \in 0..n : W[k] \in SUBSET V
  /\ \A k \in 1..n : \A v \in W[k - 1] : step[<<v, k>>] \in W[k]

\* Every import of an item of X, from an accumulator of V, gives one of V.
ImportsStay(V, job, kind, X) ==
  \A a \in V, x \in X : ImportItem(a, job, kind, x) \in V

\* Every import of an item takes one further.
ImportsClimb(W, V, acc, job, kind, items) ==
  /\ acc \in W[0] /\ \A k \in 0..Len(items) : W[k] \in SUBSET V
  /\ \A k \in 1..Len(items) : \A v \in W[k - 1] : ImportItem(v, job, kind, items[k]) \in W[k]

\* The step of Line: the parent comes before its child, when it is in the file.
LineStep(items, line) ==
  LET above == PlacesOf(items, items[line[1]].up) IN
  IF above = {} THEN line ELSE <<CHOOSE j \in above : TRUE>> \o line

\* Lines that lead to a position.
LinesTo(items, i) == {line \in Seq(DOMAIN items) : line # <<>> /\ line[Len(line)] = i}

\* The positions in the order of the sort.
Order(items) ==
  FoldLeft(LAMBDA done, i : VisitLine(items, done, i), <<>>, [i \in DOMAIN items |-> i])
-----------------------------------------------------------------------------
(***************************************************************************)
(* An import, and what every item leaves.                                  *)
(***************************************************************************)
\* Two rows are the same record, before and after a change of its contents.
Alike(r, q) == r.id = q.id /\ r.uuid = q.uuid /\ r.kind = q.kind /\ r.tenant = q.tenant
SameRows(rows, rows2) ==
  /\ \A r \in rows : \E q \in rows2 : Alike(r, q)
  /\ \A q \in rows2 : \E r \in rows : Alike(r, q)

\* The closure table with a new row, when it is a group.
NewClosure(closure, row) ==
  IF row.kind = "group" THEN closure \union {<<row.id, row.id>>}
                             \union {<<a, row.id>> : a \in Ancestors(closure, row.up)}
  ELSE closure

\* A row of the tenant stands for a uuid: for its own, or it is a copy that the import made
\* of a record with that uuid.
Stands(r, kind, uuid, job, serial) ==
  /\ Class(r) = kind /\ r.tenant = job.tenant /\ uuid # Anonymous
  /\ \/ r.uuid = uuid
     \/ r.id > serial /\ (uuid \in job.foreign[kind] \/ job.strategy = "generateNew")
KnownNames(known, rows, job, serial) ==
  \A k \in Kinds : \A p \in known[k] :
    \E r \in rows : r.id = p[2] /\ Stands(r, k, p[1], job, serial)

\* All uuids are known, those of the tenant and those of the others.
KnownCovers(known, rows, job) ==
  \A r \in rows : IF r.tenant = job.tenant THEN \E p \in known[Class(r)] : p[1] = r.uuid
                  ELSE r.uuid \in job.foreign[Class(r)]

\* A job that asks for nothing a request cannot ask for; an update of the tenant of the
\* export keeps the parents only if the file and the table agree on that of the second group.
GoodJob(job, serial, ups, tree) ==
  /\ job.tenant \in Tenants /\ job.strategy \in Strategies
  /\ serial \in Nat /\ serial >= 8 /\ ups \in SUBSET {0, 1}
  /\ job.tenant = "home" => 1 \notin job.foreign["group"]
  /\ tree /\ job.strategy = "update" /\ job.tenant = "home" => \E u \in ups : ups = {u}

\* The second group has one of the parents that the file may give it.
SecondGroup(rows, ups) == \A g \in rows : g.kind = "group" /\ g.id = 2 => g.up \in ups

\* The invariant of an import.
GoodAcc(acc, job, serial, ups, tree) ==
  /\ acc \in [db : SomeDb, known : [Kinds -> SUBSET (Nat \X Nat)], failed : BOOLEAN]
  /\ GoodDb(acc.db) /\ serial <= acc.db.serial
  /\ KnownNames(acc.known, acc.db.rows, job, serial)
  /\ KnownCovers(acc.known, acc.db.rows, job)
  /\ SecondGroup(acc.db.rows, ups)
  /\ tree => TreeOf(acc.db.rows, acc.db.closure)

\* Scoped rows that point into the tenant.
ScopedOK(scoped, rows, tenant, serial) ==
  \A x \in scoped : x \in SomeScoped /\ x.ref <= serial /\ PointsInto(rows, tenant, x.scope, x.ref)

\* A change of one row: the token of a monitor is no other one's, and of the two groups the
\* first stays at the root.
MayChange(rows, old, new, ups) ==
  /\ \A q \in rows : (/\ Class(new) = "monitor" /\ Class(q) = "monitor"
                      /\ new.extra # 0 /\ q.extra = new.extra) => q = old
  /\ new.kind = "group" => /\ new.id \in {1, 2}
                           /\ new.id = 1 => old.up = 0 /\ new.up = 0
                           /\ new.id = 2 => old.up \in ups /\ new.up \in ups
Changed(acc, old, new, owned) ==
  [acc EXCEPT !.db.rows = (@ \ {old}) \union {new}, !.db.owned = owned]

\* What an item that becomes a new record is like: it keeps its uuid when neither the tenant
\* nor another one has it.
MayCreate(job, known, kind, uuid, fresh) ==
  IF fresh THEN uuid = Anonymous \/ uuid \in job.foreign[kind] \/ job.strategy = "generateNew"
  ELSE uuid # Anonymous /\ uuid \notin job.foreign[kind] /\ Resolve(known, kind, uuid) = 0

\* The record that is created, and the tables and maps with it.
NewRow(acc, job, kind, item, fresh) ==
  LET id == acc.db.serial + 1
      uuid == IF fresh THEN id ELSE item.uuid
  IN [kind |-> kind, id |-> id, uuid |-> uuid, tenant |-> job.tenant,
      up |-> Resolve(acc.known, "group", item.up), name |-> item.name, data |-> item.data,
      extra |-> IF kind = "monitor" THEN Token(acc.db.rows, item, uuid) ELSE item.extra]
NewPairs(pairs, item, row) ==
  {p \in pairs : p[1] # item.uuid} \union {<<u, row.id>> : u \in {item.uuid, row.uuid} \ {Anonymous}}
NewKnown(known, kind, item, row) == [known EXCEPT ![kind] = NewPairs(@, item, row)]
Created(acc, item, row) ==
  [acc EXCEPT
     !.db.rows = @ \union {row},
     !.db.serial = row.id,
     !.db.closure = NewClosure(@, row),
     !.db.owned = Rebuilt(@, row.kind, row.id, Resolved(acc.known, item.scoped)),
     !.known[row.kind] = NewPairs(@, item, row)]

\* Several fields change.
Overwritten(a, rows2, closure2, owned2, serial2, known2) ==
  [a EXCEPT !.db.rows = rows2, !.db.serial = serial2, !.db.closure = closure2,
            !.db.owned = owned2, !.known = known2]

\* A record that stands for the uuid of an item has it, or is a copy.
MayStand(job, kind, uuid, own) ==
  own = uuid \/ uuid = Anonymous \/ uuid \in job.foreign[kind] \/ job.strategy = "generateNew"
-----------------------------------------------------------------------------
(***************************************************************************)
(* What an import is asked to do, and what an export writes.               *)
(***************************************************************************)
\* What the file must be like for an import.
GivenOK(f, job, serial, ups) ==
  /\ \A k \in Kinds : k \in job.sections => f.items[k] \in Seq(Items(k, serial, ups))
  /\ f.settings \in SUBSET SomeScoped
  /\ f.remedies \in SUBSET [action : Nat, scope : Places, ref : Nat, value : Nat]

\* What an import is asked to do.
JobOf(tenant, strategy, sections) ==
  [tenant |-> tenant, strategy |-> strategy, sections |-> sections,
   foreign |-> [k \in Kinds |-> {r.uuid : r \in {q \in Of(db.rows, k) : q.tenant # tenant}}]]

\* What an export writes of a kind: the items of the home tenant's rows.
HomeRows == {r \in db.rows : r.tenant = "home"}
ItemsOf(kind) == {Item(HomeRows, r) : r \in {q \in HomeRows : q.kind = kind}}

\* The sets of groups that have a group and, with every group, its parent.
Closed(rows, id, S) ==
  /\ S \subseteq {g.id : g \in Groups(rows)}
  /\ id \in S /\ \A g \in Groups(rows) : g.id \in S /\ g.up # 0 => g.up \in S

\* The tables that a tenant starts with.
FirstRows(up, in) ==
  {Row("group", 1, "home", 0, 0), Row("group", 2, "home", up, 0),
   Row("monitor", 3, "home", in, 3), Row("agent", 4, "home", 1, 0),
   Row("channel", 5, "home", 0, 0), Row("action", 7, "home", 0, 0)}

\* The records that there were are as they were, with what channels and teams own.
Left(rows, owned, d) ==
  /\ rows \subseteq d.rows
  /\ \A r \in rows : r.kind \in {"channel", "team"} =>
       \A o : o.owner = r.id => (o \in owned <=> o \in d.owned)

\* The ids that there were are those up to the given one.
Numbered(rows, serial) == \A r \in rows : r.id \in Nat /\ r.id <= serial

\* A step that imports, for a job.
ImportOf(job) ==
  /\ file # NoFile /\ db' = IF Imported(job).failed THEN db ELSE Imported(job).db
  /\ last' = [tenant |-> job.tenant, strategy |-> job.strategy, sections |-> job.sections,
              failed |-> Imported(job).failed]
  /\ GoodJob(job, db.serial, {0, 1}, FALSE)
  /\ GoodAcc(Start(job), job, db.serial, {0, 1}, FALSE)
  /\ GivenOK(file, job, db.serial, {0, 1})

\* A step of LeavesExisting.
LeftAsItWas ==
  (imports' # imports /\ last'.strategy # "update") =>
    /\ db.rows \subseteq db'.rows
    /\ \A r \in db.rows : r.kind \in {"channel", "team"} =>
         {o \in db.owned : o.owner = r.id} = {o \in db'.owned : o.owner = r.id}

\* A row takes the contents of an item.
Overwrites(acc, acc2, kind, item, old, new) ==
  /\ old \in acc.db.rows /\ new \in SomeRow /\ Alike(old, new) /\ Class(old) = kind
  /\ old.uuid = item.uuid /\ new.name = item.name /\ new.data = item.data
  /\ new.up = IF kind \in {"group", "monitor"} THEN Resolve(acc.known, "group", item.up)
              ELSE old.up
  /\ acc2.db.rows = (acc.db.rows \ {old}) \union {new}
  /\ acc2.db.owned = Rebuilt(acc.db.owned, kind, new.id, Resolved(acc.known, item.scoped))
  /\ acc2.known = acc.known

\* A row is new.
Inserts(acc, acc2, job, kind, item, fresh, row) ==
  /\ row \in SomeRow /\ row.kind = kind /\ row.tenant = job.tenant
  /\ row.id = acc.db.serial + 1 /\ row.uuid = IF fresh THEN row.id ELSE item.uuid
  /\ row.name = item.name /\ row.data = item.data
  /\ row.up = Resolve(acc.known, "group", item.up)
  /\ acc2.db.rows = acc.db.rows \union {row}
  /\ acc2.db.owned = Rebuilt(acc.db.owned, kind, row.id, Resolved(acc.known, item.scoped))
  /\ acc2.known = NewKnown(acc.known, kind, item, row)
-----------------------------------------------------------------------------
(***************************************************************************)
(* Names: the uuids that the records start with.                           *)
(***************************************************************************)
Natives == [group |-> {1, 2}, monitor |-> {3}, agent |-> {4}, channel |-> {5},
            team |-> {6, 8}, action |-> {7}]
NamesOK(rows) ==
  \A r \in rows : /\ r.uuid <= 8 => r.uuid \in Natives[r.kind]
                  /\ r.kind \in {"channel", "team", "action"} => r.up = 0

\* The items of a file, and what they point at.
RefOK(s) ==
  \/ s.scope = "global" /\ s.ref = 0
  \/ s.scope = "group" /\ s.ref \in {1, 2}
  \/ s.scope = "monitor" /\ s.ref \in {3, 4}
ItemOK(kind, i) ==
  /\ i.uuid \in Natives[kind] \/ (kind = "group" /\ i.uuid = Anonymous)
  /\ i.up \in {0, 1, 2} /\ (kind \notin {"group", "monitor"} => i.up = 0)
  /\ \A s \in i.scoped : RefOK(s)

\* A uuid is given once, and the teams of the file are still there.
GivenNames(f, rows) ==
  \A k \in Kinds : \A i \in Range(f.items[k]) :
    /\ ItemOK(k, i)
    /\ \A j \in Range(f.items[k]) : j.uuid = i.uuid /\ i.uuid # Anonymous => j = i
    /\ k = "team" => \E r \in rows : r.kind = "team" /\ r.uuid = i.uuid /\ r.tenant = "home"
FileNamed(f, d) == IF f = NoFile THEN d.serial = 8 ELSE GivenNames(f, d.rows)
NamesInv == FilesOK /\ NamesOK(db.rows) /\ FileNamed(file, db)

\* The records that there were are there.
Kept(rows, rows2) == \A r \in rows : \E q \in rows2 : Alike(r, q)
-----------------------------------------------------------------------------
(***************************************************************************)
(* An update that brings the tenant back.                                  *)
(***************************************************************************)
\* The file has a uuid for every item, and none that the other tenant has.
Asked(job, serial, base) ==
  /\ GoodJob(job, serial, {0, 1}, FALSE)
  /\ job.tenant = "home" /\ job.strategy = "update" /\ job.sections = Sections
  /\ GivenNames(file, base)
  /\ \A k \in Kinds : file.items[k] \in Seq(Items(k, serial, {0, 1}))
  /\ \A k \in Kinds : \A i \in Range(file.items[k]) :
       i.uuid # Anonymous /\ i.uuid \notin job.foreign[k]

\* The uuids known are those of the tenant's records.
KnownHome(known, rows) ==
  \A k \in Kinds : \A p :
    p \in known[k] <=> \E r \in rows : /\ Class(r) = k /\ r.tenant = "home"
                                       /\ p = <<r.uuid, r.id>>

\* A record that no item of the file stands for, and those there are.
Beside(r) == r.kind \notin Kinds \/ \A i \in Range(file.items[r.kind]) : i.uuid # r.uuid
Untouched(base, rows) == \A r : Beside(r) => (r \in base <=> r \in rows)

\* What every import of an item keeps.
Restoring(acc, job, serial, base) ==
  /\ GoodAcc(acc, job, serial, {0, 1}, FALSE) /\ NamesOK(acc.db.rows)
  /\ KnownHome(acc.known, acc.db.rows)
  /\ Kept(base, acc.db.rows) /\ Untouched(base, acc.db.rows)

\* A record as an item of the file says, and how an item comes to be shown.
Shows(r, kind, i) ==
  /\ r.kind = kind /\ r.tenant = "home" /\ r.uuid = i.uuid
  /\ r.name = i.name /\ r.data = i.data /\ r.up = i.up
Placed(acc, acc2, kind, item, row) ==
  /\ row \in acc2.db.rows /\ Shows(row, kind, item)
  /\ \A r \in acc.db.rows : \/ r \in acc2.db.rows
                            \/ r.kind = kind /\ r.uuid = item.uuid /\ r.tenant = "home"
  /\ \A r \in acc2.db.rows : r = row \/ r \in acc.db.rows
  /\ acc2.db.owned = Rebuilt(acc.db.owned, kind, row.id, Resolved(acc.known, item.scoped))
  /\ \A k \in Kinds : k # kind => acc2.known[k] = acc.known[k]

\* What a channel or a team owns is what its item points at.
Owns(a, r, i) ==
  \A o : o.owner = r.id =>
    (o \in a.db.owned <=>
       \E x \in Resolved(a.known, i.scoped) : o = Owned(r.id, x.scope, x.ref, x.value))
Shown(a, kind, i) ==
  \E r \in a.db.rows : Shows(r, kind, i) /\ (kind \in {"channel", "team"} => Owns(a, r, i))

\* Channels and teams come after the groups and the monitors.
After(kind, later) == kind \in {"channel", "team"} => later \notin {"group", "monitor"}

\* The kinds whose items are all shown.
AllShown(a, kinds) == \A k \in kinds : \A i \in Range(file.items[k]) : Shown(a, k, i)

\* What Restores says of a step that restores.
BroughtBack ==
  LET rows == Records(db', "home")
      uuids(k) == {i.uuid : i \in Range(file.items[k])}
  IN
  /\ \A k \in Kinds : \A i \in Range(file.items[k]) :
       \E r \in rows :
         /\ r.kind = k /\ r.uuid = i.uuid /\ r.name = i.name /\ r.data = i.data
         /\ UuidAt(rows, "group", r.up) = i.up
         /\ k \in {"channel", "team"} =>
              Exported(rows, {o \in db'.owned : o.owner = r.id}) =
                {s \in i.scoped : s.scope = "global" \/ \E q \in rows : q.uuid = s.ref}
  /\ {r \in db.rows : r.kind \notin Kinds \/ r.uuid \notin uuids(r.kind)}
       = {r \in db'.rows : r.kind \notin Kinds \/ r.uuid \notin uuids(r.kind)}

\* A step of Restores.
AsTheFileSays ==
  (imports' # imports /\ last'.tenant = "home" /\ last'.strategy = "update"
   /\ last'.sections = Sections /\ ~last'.failed /\ Named /\ ~Claimed) => BroughtBack
-----------------------------------------------------------------------------
(***************************************************************************)
(* An import that copies.                                                  *)
(***************************************************************************)
\* No item of the file has a grandparent in it.
Shallow(items) ==
  \A i \in DOMAIN items : \A j \in PlacesOf(items, items[i].up) : PlacesOf(items, items[j].up) = {}

\* In an order of positions an item comes after its parent, if that is in the file.
ParentsFirst(items, done) ==
  \A n \in DOMAIN done :
    PlacesOf(items, items[done[n]].up) # {} =>
      \E m \in 1..(n - 1) : items[done[m]].uuid = items[done[n]].up
Mirrored == {"group", "monitor", "channel"}

\* The items of the file have uuids, each that of a record of the tenant of the export, and
\* parents in the file.
Mirrorable(f, rows) ==
  \A k \in Kinds : \A i \in Range(f.items[k]) :
    /\ \E r \in rows : Class(r) = k /\ r.uuid = i.uuid /\ r.tenant = "home"
    /\ i.up # 0 => \E j \in Range(f.items["group"]) : j.uuid = i.up
CopyAsked(job, serial, base) ==
  /\ GoodJob(job, serial, {0, 1}, FALSE)
  /\ job.strategy = "generateNew" \/ job.tenant = "other"
  /\ Numbered(base, serial)
  /\ GivenNames(file, base) /\ Mirrorable(file, base)
  /\ \A k \in Kinds : file.items[k] \in Seq(Items(k, serial, {0, 1}))
  /\ \A k \in Kinds : \A i \in Range(file.items[k]) : i.uuid # Anonymous

\* A record says what an item says, below a new group if the item has a parent: one that
\* has the name of the parent.
Below(rows, serial, r, i) ==
  IF i.up = 0 THEN r.up = 0
  ELSE \E g \in rows : /\ g.kind = "group" /\ g.id = r.up /\ g.id > serial
                       /\ \E j \in Range(file.items["group"]) : j.uuid = i.up /\ j.name = g.name
Mirrors(rows, serial, r, i) ==
  r.name = i.name /\ r.data = i.data /\ Below(rows, serial, r, i)

\* The item has a copy, which its uuid stands for from now on.
StandsFor(known, kind, uuid, id) ==
  <<uuid, id>> \in known[kind] /\ \A p \in known[kind] : p[1] = uuid => p[2] = id
Copied(a, serial, kind, i) ==
  \E r \in a.db.rows : /\ r.id > serial /\ r.kind = kind /\ Mirrors(a.db.rows, serial, r, i)
                       /\ StandsFor(a.known, kind, i.uuid, r.id)
AllCopied(a, serial, kinds) ==
  \A k \in kinds : \A i \in Range(file.items[k]) : Copied(a, serial, k, i)
ParentCopied(a, serial, i) ==
  i.up # 0 => \E j \in Range(file.items["group"]) : j.uuid = i.up /\ Copied(a, serial, "group", j)

\* What every import of an item keeps: the records are the old ones, and copies of items.
NewOrOld(rows, serial, base) ==
  \A r \in rows :
    \/ r \in base
    \/ /\ r.id > serial
       /\ r.kind \in Mirrored =>
            \E i \in Range(file.items[r.kind]) : Mirrors(rows, serial, r, i)
Copying(acc, job, serial, base) ==
  /\ GoodAcc(acc, job, serial, {0, 1}, FALSE)
  /\ base \subseteq acc.db.rows /\ NewOrOld(acc.db.rows, serial, base)

\* The items of a section in the order of their import: all of them, the groups after their
\* parents.
Ordered(kind) ==
  IF kind = "group" THEN TopoSort(file.items[kind]) ELSE file.items[kind]

\* Items other than groups and monitors have no parent; groups are imported after their
\* parents, and monitors after all groups.
MayFollow(kind, kinds) == kind = "monitor" => "group" \in kinds

\* All the sections are imported, and the settings with them: those of the file that point
\* at an item point at its copy.
Pointed(a, serial, tenant) ==
  \A s \in file.settings : \A i \in Range(file.items[s.scope]) :
    s.scope # "global" /\ i.uuid = s.ref =>
      \E r \in a.db.rows : /\ r.id > serial /\ r.kind = s.scope /\ r.name = i.name
                           /\ Owned(tenant, s.scope, r.id, s.value) \in a.db.settings

\* What CopyMirrorsFile says of an import that copies.
FileMirrored ==
  LET new == db'.rows \ db.rows
      nameOf(k, u) == IF u = 0 THEN 0
        ELSE (CHOOSE i \in Range(file.items[k]) : i.uuid = u).name
  IN
  /\ \A k \in {"group", "monitor", "channel"} :
       {<<r.name, r.data, NameAt(new, "group", r.up)>> : r \in {q \in new : q.kind = k}}
         = {<<i.name, i.data, nameOf("group", i.up)>> : i \in Range(file.items[k])}
  /\ \A s \in file.settings :
       (s.scope # "global" /\ \E i \in Range(file.items[s.scope]) : i.uuid = s.ref) =>
         \E x \in db'.settings : x.scope = s.scope
            /\ NameAt(new, s.scope, x.ref) = nameOf(s.scope, s.ref)

\* Names of items.
NameOf(items, u) == IF u = 0 THEN 0 ELSE (CHOOSE i \in items : i.uuid = u).name

\* As long as nothing has been edited and imported, the file is an image of the tenant.
FreshFile ==
  /\ edits \in Nat /\ imports \in Nat
  /\ (edits = 0 /\ imports = 0 /\ file # NoFile) => Mirrorable(file, db.rows)

\* A step of CopyMirrorsFile.
CopyAsTheFile ==
  (imports' # imports /\ ~last'.failed /\ Named /\ imports = 0 /\ edits = 0
   /\ {"group", "monitor", "channel", "setting"} \subseteq last'.sections
   /\ (last'.strategy = "generateNew" \/ last'.tenant = "other")) => FileMirrored
=============================================================================
