------------------------------ MODULE GroupTree ------------------------------
(***************************************************************************)
(* The tree of monitor groups and its closure table                        *)
(* (server/src/services/group.service.ts).  monitor_groups.parent_id holds *)
(* the tree; group_closure holds one row <<ancestor, descendant, depth>>   *)
(* for every path, and everything that is inherited (settings, channels,   *)
(* maintenance, remediations, permissions) is resolved from those rows.    *)
(*                                                                         *)
(* A create writes three statements and a move four, none of them in a     *)
(* transaction: every statement is a step of its own here, requests        *)
(* interleave between statements, a statement may be refused by a key of   *)
(* the table, and a restart of the server drops every request half way.    *)
(***************************************************************************)
EXTENDS Naturals, FiniteSets

CONSTANTS Groups,      \* the ids the sequence will ever hand out
          Requests,    \* HTTP requests that may be in flight together
          Root,        \* parent_id NULL
          Unborn,      \* no row yet
          Gone,        \* the row was deleted; an id is never used again
          MaxCrashes   \* bound on the restarts of the server

ASSUME TreeAssumption ==
  /\ Root \notin Groups /\ Unborn \notin Groups /\ Gone \notin Groups
  /\ Root # Unborn /\ Root # Gone /\ Unborn # Gone
  /\ MaxCrashes \in Nat

\* As many groups as an administrator can create, but finitely many.
ASSUME GroupsAssumption == IsFiniteSet(Groups)

VARIABLES parent,      \* monitor_groups: id -> parent_id
          closure,     \* group_closure: a set of <<ancestor, descendant, depth>>
          req,         \* what each request still has to do
          crashes,     \* restarts so far
          muddled      \* history: a move was overlapped, cut short or refused half way,
                       \* or a create was cut short or ran under an unfinished one

treeVars == <<parent, closure, req, crashes, muddled>>

Exists == {g \in Groups : parent[g] \in Groups \cup {Root}}

\* The primary key of group_closure is (ancestor, descendant).
Linked(c, a, d) == \E x \in c : x[1] = a /\ x[2] = d
DescendantsIn(c, g) == {d \in Groups : Linked(c, g, d)}
AncestorsIn(c, g) == {a \in Groups : Linked(c, a, g)}

Steps == {"idle", "insert", "self", "copy", "check", "collect", "cut", "link", "set"}
Idle == [step |-> "idle", group |-> Root, to |-> Root, subtree |-> {}]
Busy(r) == req[r].step # "idle"
Creating(r) == req[r].step \in {"insert", "self", "copy"}
Moving(r) == req[r].step \in {"check", "collect", "cut", "link", "set"}
MoveInFlight == \E r \in Requests : Moving(r)

\* Groups whose row is inserted and whose closure rows are not all there yet.
Fresh == {req[r].group : r \in {q \in Requests : req[q].step \in {"self", "copy"}}}

Advance(r, step) == req' = [req EXCEPT ![r].step = step]
Finish(r) == req' = [req EXCEPT ![r] = Idle]

-----------------------------------------------------------------------------
(* create *)

\* The controller answers 400 unless the parent exists.
StartCreate(r, p) ==
  /\ ~Busy(r)
  /\ p \in Exists \cup {Root}
  /\ req' = [req EXCEPT ![r] = [Idle EXCEPT !.step = "insert", !.to = p]]
  /\ muddled' = (muddled \/ MoveInFlight)
  /\ UNCHANGED <<parent, closure, crashes>>

\* parent_id is a foreign key: the insert fails when the parent is gone meanwhile.
InsertRow(r) ==
  /\ req[r].step = "insert"
  /\ \/ /\ req[r].to \in Exists \cup {Root}
        /\ \E g \in Groups :
             /\ parent[g] = Unborn
             /\ parent' = [parent EXCEPT ![g] = req[r].to]
             /\ req' = [req EXCEPT ![r].step = "self", ![r].group = g]
     \/ /\ req[r].to \notin Exists \cup {Root}
        /\ Finish(r)
        /\ UNCHANGED parent
  /\ UNCHANGED <<closure, crashes, muddled>>

\* The row <<g, g, 0>>; refused by its foreign key when g was deleted meanwhile.
InsertSelf(r) ==
  LET g == req[r].group IN
  /\ req[r].step = "self"
  /\ IF g \in Exists
     THEN /\ closure' = closure \cup {<<g, g, 0>>}
          /\ IF req[r].to = Root THEN Finish(r) ELSE Advance(r, "copy")
     ELSE Finish(r) /\ UNCHANGED closure
  /\ UNCHANGED <<parent, crashes, muddled>>

\* INSERT ... SELECT refuses the whole statement when one row meets the primary
\* key or a foreign key.
Accepted(c, rows) ==
  IF \E x \in rows : Linked(c, x[1], x[2]) \/ x[1] \notin Exists \/ x[2] \notin Exists
  THEN c ELSE c \cup rows

\* Mutant: the depth is copied as it is.
PathsBeside(c, p, g) == {<<x[1], g, x[3]>> : x \in {y \in c : y[2] = p}}

PathsUnder(c, p, g) == {<<x[1], g, x[3] + 1>> : x \in {y \in c : y[2] = p}}

CopyAncestors(r) ==
  LET g == req[r].group
      p == req[r].to
  IN /\ req[r].step = "copy"
     /\ closure' = Accepted(closure, PathsUnder(closure, p, g))
     /\ Finish(r)
     /\ muddled' = (muddled \/ p \in Fresh)
     /\ UNCHANGED <<parent, crashes>>

-----------------------------------------------------------------------------
(* move *)

\* The group is read; an administrator may name a parent that was deleted.
StartMove(r, g, p) ==
  /\ ~Busy(r)
  /\ g \in Exists
  /\ p = Root \/ (p \in Groups /\ parent[p] # Unborn)
  /\ req' = [req EXCEPT ![r] = [Idle EXCEPT !.group = g, !.to = p,
                                 !.step = IF p = Root THEN "collect" ELSE "check"]]
  /\ muddled' = (muddled \/ \E q \in Requests : Busy(q))
  /\ UNCHANGED <<parent, closure, crashes>>

\* "Cannot move group into its own descendant".
CheckMove(r) ==
  /\ req[r].step = "check"
  /\ IF Linked(closure, req[r].group, req[r].to) THEN Finish(r) ELSE Advance(r, "collect")
  /\ UNCHANGED <<parent, closure, crashes, muddled>>

CollectSubtree(r) ==
  /\ req[r].step = "collect"
  /\ req' = [req EXCEPT ![r].step = "cut",
                        ![r].subtree = DescendantsIn(closure, req[r].group)]
  /\ UNCHANGED <<parent, closure, crashes, muddled>>

CutRows(c, D) == {x \in c : ~(x[2] \in D /\ x[1] \notin D)}

CutSubtree(r) ==
  /\ req[r].step = "cut"
  /\ closure' = CutRows(closure, req[r].subtree)
  /\ Advance(r, IF req[r].to = Root THEN "set" ELSE "link")
  /\ UNCHANGED <<parent, crashes, muddled>>

\* Every ancestor of the new parent crossed with every node of the subtree.
CrossRows(c, p, g) ==
  {<<x[1], y[2], x[3] + y[3] + 1>> : x \in {z \in c : z[2] = p}, y \in {z \in c : z[1] = g}}

LinkSubtree(r) ==
  LET rows == CrossRows(closure, req[r].to, req[r].group)
      linked == Accepted(closure, rows)
  IN /\ req[r].step = "link"
     /\ closure' = linked
     /\ IF linked = closure /\ rows # {} THEN Finish(r) ELSE Advance(r, "set")
     /\ muddled' = (muddled \/ (linked = closure /\ rows # {}))
     /\ UNCHANGED <<parent, crashes>>

\* The last statement: nothing to update when the group is gone, refused by the
\* foreign key when the new parent is.
SetParent(r) ==
  LET g == req[r].group
      p == req[r].to
  IN /\ req[r].step = "set"
     /\ Finish(r)
     /\ parent' = IF g \in Exists /\ p \in Exists \cup {Root}
                  THEN [parent EXCEPT ![g] = p] ELSE parent
     /\ muddled' = (muddled \/ p \notin Exists \cup {Root})
     /\ UNCHANGED <<closure, crashes>>

-----------------------------------------------------------------------------
(* delete, and the end of the process *)

\* ON DELETE CASCADE along parent_id: the least set with g that holds the children
\* of its members.
Cascade(g) ==
  {x \in Exists : \A S \in SUBSET Exists :
     (g \in S /\ \A y \in Exists : parent[y] \in S => y \in S) => x \in S}

DeleteGroup(g) ==
  LET X == Cascade(g) IN
  /\ g \in Exists
  /\ parent' = [x \in Groups |-> IF x \in X THEN Gone ELSE parent[x]]
  /\ closure' = {x \in closure : x[1] \notin X /\ x[2] \notin X}
  /\ muddled' = (muddled \/ MoveInFlight)
  /\ UNCHANGED <<req, crashes>>

\* A restart drops every request; what the statements wrote stays.
CrashTree ==
  /\ crashes < MaxCrashes
  /\ \E r \in Requests : Busy(r)
  /\ crashes' = crashes + 1
  /\ req' = [r \in Requests |-> Idle]
  /\ muddled' = (muddled \/ \E r \in Requests : req[r].step \in {"self", "copy", "link", "set"})
  /\ UNCHANGED <<parent, closure>>

-----------------------------------------------------------------------------
TreeInit ==
  /\ parent = [g \in Groups |-> Unborn]
  /\ closure = {}
  /\ req = [r \in Requests |-> Idle]
  /\ crashes = 0
  /\ muddled = FALSE

TreeStep(r) ==
  \/ \E p \in Groups \cup {Root} : StartCreate(r, p)
  \/ InsertRow(r) \/ InsertSelf(r) \/ CopyAncestors(r)
  \/ \E g \in Groups, p \in Groups \cup {Root} : StartMove(r, g, p)
  \/ CheckMove(r) \/ CollectSubtree(r) \/ CutSubtree(r) \/ LinkSubtree(r) \/ SetParent(r)

TreeNext ==
  \/ \E r \in Requests : TreeStep(r)
  \/ \E g \in Groups : DeleteGroup(g)
  \/ CrashTree

TreeSpec == TreeInit /\ [][TreeNext]_treeVars

-----------------------------------------------------------------------------
TreeTypeOK ==
  /\ parent \in [Groups -> Groups \cup {Root, Unborn, Gone}]
  /\ closure \subseteq Groups \X Groups \X Nat
  /\ req \in [Requests -> [step : Steps, group : Groups \cup {Root},
                           to : Groups \cup {Root}, subtree : SUBSET Groups]]
  /\ crashes \in Nat
  /\ muddled \in BOOLEAN

\* The rows of one group are its own and its parent's, one deeper.
RowsFollow(c, par, g) ==
  {x \in c : x[2] = g} =
    {<<g, g, 0>>} \cup IF par[g] \in Groups THEN PathsUnder(c, par[g], g) ELSE {}

OneWay(c) == \A a, b \in Groups : Linked(c, a, b) /\ Linked(c, b, a) => a = b

\* No request stands between the statements of a move.
NoMoveUnderWay == \A r \in Requests : req[r].step \notin {"link", "set"}

\* As long as no move was overlapped or cut short,
\* the closure rows of a group (group.service.ts create and move) are exactly its
\* own and those of its parent one level deeper, and no two groups are ancestors
\* of each other, so the tree has no cycle.  A group still being created is exempt.
ClosureFollowsParents ==
  ~muddled /\ NoMoveUnderWay =>
    /\ \A g \in Exists \ Fresh : RowsFollow(closure, parent, g)
    /\ OneWay(closure)

\* The reference: the n-th group above g along parent_id.
Ids == Groups \cup {Root, Unborn, Gone}
Up(a) == IF a \in Groups THEN parent[a] ELSE Root
AllAbove[n \in 0..Cardinality(Groups)] ==
  IF n = 0 THEN [g \in Ids |-> g] ELSE [g \in Ids |-> Up(AllAbove[n - 1][g])]
Above(g, n) == AllAbove[n][g]

ReferenceClosure ==
  {<<Above(g, n), g, n>> : g \in Exists, n \in 0..Cardinality(Groups)} \cap
    (Exists \X Groups \X Nat)

\* The whole table against the tree it is meant to flatten: every path of the
\* parent pointers is there with its length and nothing else, but for the groups
\* still being created, of which at most the row of the group itself is there.
ClosureMatchesTree ==
  ~muddled /\ NoMoveUnderWay =>
    LET done == {x \in ReferenceClosure : x[2] \notin Fresh} IN
    /\ done \subseteq closure
    /\ closure \subseteq done \cup {<<g, g, 0>> : g \in Fresh}

\* What every resolver relies on: the closure table is the tree, each group knows its
\* place from its parent's, and no group is its own ancestor.
TreeIsSound == ClosureMatchesTree /\ ClosureFollowsParents

-----------------------------------------------------------------------------
(***************************************************************************)
(* Why the table follows the parents: the inductive invariant.             *)
(***************************************************************************)
\* The foreign keys.
KeysHold ==
  /\ \A g \in Exists : parent[g] \in Exists \cup {Root}
  /\ closure \subseteq Exists \X Exists \X Nat

\* A table that follows some pointers for the groups that are done.
Flattens(c, par, done) ==
  /\ \A g \in done : RowsFollow(c, par, g) /\ par[g] \in done \cup {Root}
  /\ OneWay(c)
  /\ \A x, y \in c : x[1] = y[1] /\ x[2] = y[2] => x = y
  /\ \A x, y \in c : x[2] = y[1] => Linked(c, x[1], y[2])

\* A group still being created has its own row at most, and no one else creates it.
CreateInv(r) ==
  LET g == req[r].group IN
  req[r].step \in {"self", "copy"} =>
    /\ g \in Groups /\ req[r].to # g /\ parent[g] # Unborn
    /\ req[r].step = "copy" => req[r].to # Root
    /\ g \in Exists => parent[g] = req[r].to
    /\ {x \in closure : x[1] = g \/ x[2] = g} =
         IF req[r].step = "copy" /\ g \in Exists THEN {<<g, g, 0>>} ELSE {}
    /\ \A q \in Requests \ {r} : req[q].step \in {"self", "copy"} => req[q].group # g

\* A move has the tables for itself.  Its cut leaves them as if the group were a root,
\* and its link as if the pointer were set already.
MoveInv(r) ==
  LET g == req[r].group
      p == req[r].to
      Follows(to) == Flattens(closure, [parent EXCEPT ![g] = to], Exists)
  IN
  Moving(r) =>
    /\ \A q \in Requests \ {r} : ~Busy(q)
    /\ g \in Exists
    /\ req[r].step \in {"check", "collect", "cut"} => Follows(parent[g])
    /\ req[r].step \in {"collect", "cut", "link"} => p = Root \/ ~Linked(closure, g, p)
    /\ req[r].step = "cut" => req[r].subtree = DescendantsIn(closure, g)
    /\ req[r].step = "link" => Follows(Root)
    /\ req[r].step = "set" /\ p \in Exists \cup {Root} => Follows(p)

TreeInv ==
  ~muddled =>
    /\ \A r \in Requests : CreateInv(r) /\ MoveInv(r)
    /\ ~MoveInFlight => Flattens(closure, parent, Exists \ Fresh)
=============================================================================
