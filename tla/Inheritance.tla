----------------------------- MODULE Inheritance -----------------------------
(***************************************************************************)
(* Everything that is inherited along the tree of groups, resolved from    *)
(* the closure table the way the services do it: monitor settings,         *)
(* notification channels, remediation actions, maintenance windows, agent  *)
(* notification types, the group that groups notifications, and the rights *)
(* of a team.  The tables are edited while the tree changes under them.    *)
(*                                                                         *)
(* A behaviour edits the tables of one aspect only, chosen at the start:   *)
(* the aspects share nothing but the tree.  EditBound and TreeBound bound  *)
(* the edits and the tree operations of a behaviour, per aspect.           *)
(***************************************************************************)
EXTENDS GroupTree, Sequences, SequencesExt

CONSTANTS Monitors, Devices,   \* what sits in groups
          DeviceOf,            \* agent-backed monitors: monitor -> device (partial)
          Channels,            \* notification channels, and remediation actions
          Windows,             \* maintenance windows that are open now
          Teams,
          Aspects,             \* the aspects a run looks at
          Concerned,           \* aspect -> the monitors and devices it is about
          EditBound, TreeBound

VARIABLES aspect, edits, treeEdits,
          groupOf,       \* monitors.group_id and agent_devices.group_id
          overrides,     \* settings: scope -> the values of its rows for one key
          bindings,      \* notification_bindings / remediation_bindings: scope -> {<<id, mode>>}
          windowAt,      \* maintenance_windows: window -> scope, or Unborn
          disables,      \* maintenance_window_disables: {<<window, scope>>}
          grants,        \* team_permissions: team -> scope -> level
          members,       \* the teams of the user
          general,       \* groups with is_general
          flagged,       \* groups with group_notifications
          agentTypes     \* one notification type: device, group and app config

tables == <<groupOf, overrides, bindings, windowAt, disables, grants, members,
            general, flagged, agentTypes>>
vars == <<treeVars, aspect, edits, treeEdits, tables>>

Global == "global"
Entities == Monitors \cup Devices
Scopes == {Global} \cup Groups \cup Entities
Modes == {"merge", "replace", "exclude"}
Levels == {"none", "ro", "rw"}
Answers == {"null", "on", "off"}

\* A run looks at monitors and devices; a scope is known by its type and its id.
ASSUME ScopesAssumption ==
  /\ \A a \in Aspects : Concerned[a] \subseteq Entities
  /\ Global \notin Groups \cup Entities /\ Groups \cap Entities = {}
  /\ {Root, Unborn, Gone, "none", "default"} \cap Scopes = {}
  /\ DOMAIN DeviceOf \subseteq Monitors /\ \A m \in DOMAIN DeviceOf : DeviceOf[m] \in Devices

-----------------------------------------------------------------------------
(* Reading the tree and the closure table *)

\* The groups of g along parent_id, from the root down to g: the nodes getTree nests.
PathTo(g) ==
  IF g = Root THEN <<>>
  ELSE LET n == CHOOSE k \in 1..Cardinality(Groups) :
                  Above(g, k) = Root /\ \A j \in 0..(k - 1) : Above(g, j) # Root
       IN [i \in 1..n |-> Above(g, n - i)]

\* ORDER BY depth DESC: the ancestors of the rows, the deepest row first.
Downward(rows) ==
  LET sorted == CHOOSE s \in SetToSeqs(rows) : \A i, j \in DOMAIN s : i < j => s[i][3] >= s[j][3]
  IN [i \in DOMAIN sorted |-> sorted[i][1]]

\* Mutant: ORDER BY depth ASC.
GroupChainUp(g) == Reverse(Downward({x \in closure : x[2] = g}))

\* From the root down to the group itself, and down to its parent (depth > 0).
GroupChain(g) == Downward({x \in closure : x[2] = g})
AncestorChain(g) == Downward({x \in closure : x[2] = g /\ x[3] > 0})

ChainOf(e) == IF groupOf[e] = Root THEN <<>> ELSE GroupChain(groupOf[e])
AncestorSet(e) == IF groupOf[e] = Root THEN {} ELSE AncestorsIn(closure, groupOf[e])

-----------------------------------------------------------------------------
(* settings.service.ts *)

\* Hardcoded default, global, ancestors from the root, monitor: the last override wins.
ResolveForMonitor(m) ==
  FoldLeft(LAMBDA found, s : IF overrides[s] = {} THEN found ELSE s,
           "default", <<Global>> \o ChainOf(m) \o <<m>>)

\* What the settings page of a group shows as inherited: its own rows are left out.
ResolveForGroup(g) ==
  FoldLeft(LAMBDA found, s : IF overrides[s] = {} THEN found ELSE s,
           "default", <<Global>> \o AncestorChain(g))

\* ON CONFLICT never meets a row whose scope_id is NULL: a second global row appears.
SetSetting(s, v) ==
  overrides' = [overrides EXCEPT ![s] = IF s = Global THEN @ \cup {v} ELSE {v}]

RemoveSetting(s) == overrides' = [overrides EXCEPT ![s] = {}]

\* Mutant: only the monitors directly in the group.
RestartedInGroup(s) ==
  IF s \in Monitors THEN {s}
  ELSE IF s \in Groups THEN {m \in Monitors : groupOf[m] = s} ELSE Monitors

\* MonitorWorkerManager.restartAffectedBySettings: the monitors whose worker is
\* restarted after an edit at a scope.
RestartedBy(s) ==
  IF s \in Monitors THEN {s}
  ELSE IF s \in Groups THEN {m \in Monitors : groupOf[m] \in DescendantsIn(closure, s)}
  ELSE Monitors

-----------------------------------------------------------------------------
(* notification.service.ts and remediation.service.ts: merge, replace, exclude *)

With(rows, mode) == {b[1] : b \in {x \in rows : x[2] = mode}}
Added(rows) == With(rows, "merge") \cup With(rows, "replace")

\* Mutant: a replace also drops what the rest of its scope adds.
ApplyReplaceOnly(set, rows) ==
  (IF With(rows, "replace") # {} THEN With(rows, "replace") ELSE set \cup With(rows, "merge"))
    \ With(rows, "exclude")

ApplyBindings(set, rows) ==
  ((IF With(rows, "replace") # {} THEN {} ELSE set) \cup Added(rows)) \ With(rows, "exclude")

ResolveChannels(scopes) ==
  FoldLeft(LAMBDA set, s : ApplyBindings(set, bindings[s]), {}, scopes)

\* A monitor backed by an agent adds the bindings of its device.
ResolveChannelsForMonitor(m) ==
  ResolveChannels(<<Global>> \o ChainOf(m) \o <<m>>
                    \o (IF m \in DOMAIN DeviceOf THEN <<DeviceOf[m]>> ELSE <<>>))
ResolveChannelsForGroup(g) == ResolveChannels(<<Global>> \o GroupChain(g))
ResolveChannelsForAgent(d) == ResolveChannels(<<Global>> \o ChainOf(d) \o <<d>>)

\* The page keeps an excluded channel in view, as <<channel, TRUE>>.
ApplyWithSources(shown, rows) ==
  LET kept == IF With(rows, "replace") # {} THEN {} ELSE shown
      set == {x \in kept : x[1] \notin Added(rows)} \cup {<<c, FALSE>> : c \in Added(rows)}
  IN {<<x[1], x[2] \/ x[1] \in With(rows, "exclude")>> : x \in set}

ShownBindings(scopes) ==
  FoldLeft(LAMBDA shown, s : ApplyWithSources(shown, bindings[s]), {}, scopes)
ShownForMonitor(m) == ShownBindings(<<Global>> \o ChainOf(m) \o <<m>>)
ShownForGroup(g) ==
  ShownBindings(<<Global>> \o AncestorChain(g) \o <<g>>)
ShownForAgent(d) == ShownBindings(<<Global>> \o ChainOf(d) \o <<d>>)

\* Remediations keep, per action, the binding that won: the trigger and the cooldown
\* are its own.
ApplyRemedies(found, s) ==
  LET rows == bindings[s]
      kept == IF With(rows, "replace") # {} THEN {} ELSE found
      set == {x \in kept : x[1] \notin Added(rows)} \cup {<<a, s>> : a \in Added(rows)}
  IN {x \in set : x[1] \notin With(rows, "exclude")}
ResolveRemedies(m) ==
  FoldLeft(ApplyRemedies, {}, <<Global>> \o ChainOf(m) \o <<m>>)

\* The unique key lets a channel bind once per scope, but for the global one.
AddBinding(c, s, mode) ==
  bindings' = [bindings EXCEPT ![s] =
                 (IF s = Global THEN @ ELSE {b \in @ : b[1] # c}) \cup {<<c, mode>>}]

\* remediation.service.ts inserts without ON CONFLICT: a second binding of the action
\* at the scope is refused.
AddRemedy(a, s, mode) ==
  /\ s = Global \/ \A b \in bindings[s] : b[1] # a
  /\ bindings' = [bindings EXCEPT ![s] = @ \cup {<<a, mode>>}]

RemoveBinding(c, s) == bindings' = [bindings EXCEPT ![s] = {b \in @ : b[1] # c}]

-----------------------------------------------------------------------------
(* maintenance.service.ts *)

\* Mutant: a disable counts where it is written only.
DirectlyDisabled(e) == {w \in Windows : <<w, e>> \in disables}

\* Disabled on the entity itself or on any of its ancestor groups.
DisabledWindows(e) ==
  {w \in Windows : <<w, e>> \in disables \/ \E a \in AncestorSet(e) : <<w, a>> \in disables}

InMaintenance(e) ==
  \/ \E w \in Windows : windowAt[w] = e
  \/ \E w \in Windows \ DisabledWindows(e) : windowAt[w] \in AncestorSet(e)
  \/ \E w \in Windows \ DisabledWindows(e) : windowAt[w] = Global

\* The list pages ask once for all: closure rows and disables are grouped first.
BatchInMaintenance(kind) ==
  LET ancestors == [g \in {groupOf[e] : e \in kind} \ {Root} |-> AncestorsIn(closure, g)]
      own == [e \in kind |-> {x[1] : x \in {y \in disables : y[2] = e}}]
      ofGroup == [a \in UNION {ancestors[g] : g \in DOMAIN ancestors} |->
                    {x[1] : x \in {y \in disables : y[2] = a}}]
      above(e) == IF groupOf[e] = Root THEN {} ELSE ancestors[groupOf[e]]
      off(e) == own[e] \cup UNION {ofGroup[a] : a \in above(e)}
  IN {e \in kind : \E w \in Windows : \/ windowAt[w] = e
                                      \/ windowAt[w] \in above(e) /\ w \notin off(e)
                                      \/ windowAt[w] = Global /\ w \notin off(e)}

\* The page of an entity: every window that reaches it, with "disabled here".
EffectiveWindows(e) ==
  {<<w, FALSE>> : w \in {x \in Windows : windowAt[x] = e}} \cup
  {<<w, w \in DisabledWindows(e)>> :
     w \in {x \in Windows : windowAt[x] \in AncestorSet(e) \cup {Global}}}

DisableWindow(w, s) == disables' = disables \cup {<<w, s>>}
EnableWindow(w, s) == disables' = disables \ {<<w, s>>}

-----------------------------------------------------------------------------
(* permission.service.ts, for one user who is not an administrator *)

Highest(levels) == IF "rw" \in levels THEN "rw" ELSE IF "ro" \in levels THEN "ro" ELSE "none"
DirectLevel(s) == Highest({grants[t][s] : t \in members})
LevelViaClosure(g) == Highest({grants[t][a] : t \in members, a \in AncestorsIn(closure, g)})

GroupPermission(g) ==
  LET level == LevelViaClosure(g) IN IF g \in general /\ level = "none" THEN "ro" ELSE level

MonitorPermission(m) ==
  LET g == groupOf[m]
      inherited == IF g = Root THEN "none" ELSE LevelViaClosure(g)
      level == Highest({DirectLevel(m), inherited})
  IN IF g \in general /\ level # "rw" THEN "ro" ELSE level

Granted(kind) == {s \in kind : DirectLevel(s) # "none"}

VisibleMonitors ==
  {m \in Monitors : groupOf[m] # Root /\ AncestorsIn(closure, groupOf[m]) \cap Granted(Groups) # {}}
    \cup Granted(Monitors)
    \cup {m \in Monitors : groupOf[m] \in general}

\* Granted groups and what lies below; the groups of granted monitors; the ancestors
\* of both, to find the way down the tree; the general groups.
VisibleGroups ==
  LET holding == {groupOf[m] : m \in Granted(Monitors)} \ {Root}
      granted == Granted(Groups)
  IN (UNION {DescendantsIn(closure, g) : g \in granted})
       \cup holding
       \cup (UNION {AncestorsIn(closure, g) : g \in holding \cup granted})
       \cup general

\* GET /groups/tree: a node that is not visible hides everything nested in it.
ShownTree == {g \in Exists : Range(PathTo(g)) \subseteq VisibleGroups}

\* Mutant: general groups are forgotten.
UserReachesByTeam(m) ==
  \/ \E t \in members : grants[t][m] # "none"
  \/ /\ groupOf[m] # Root
     /\ \E t \in members, a \in AncestorsIn(closure, groupOf[m]) : grants[t][a] # "none"

\* Who is told over the socket: asked from the monitor's side.
UserReaches(m) ==
  \/ \E t \in members : grants[t][m] # "none"
  \/ /\ groupOf[m] # Root
     /\ \/ \E t \in members, a \in AncestorsIn(closure, groupOf[m]) : grants[t][a] # "none"
        \/ groupOf[m] \in general

-----------------------------------------------------------------------------
(* Agent notification types, and the group that groups notifications *)

\* The first answer that is not null: device, its groups from the leaf up, the
\* global agent configuration, the built-in default.
ResolveType(d) ==
  LET asked == <<d>> \o Reverse(ChainOf(d)) \o <<Global>>
  IN FoldLeft(LAMBDA found, s : IF found = "null" THEN agentTypes[s] ELSE found, "null", asked)

\* ORDER BY depth ASC, first row.
NearestFlagged(g) ==
  LET rows == {x \in closure : x[2] = g /\ x[1] \in flagged}
  IN IF rows = {} THEN Root
     ELSE (CHOOSE x \in rows : \A y \in rows : x[3] <= y[3])[1]

-----------------------------------------------------------------------------
(* The edits *)

Edited ==
  edits < EditBound[aspect] /\ edits' = edits + 1 /\ UNCHANGED <<treeVars, aspect, treeEdits>>
TreeEdited ==
  treeEdits < TreeBound[aspect] /\ treeEdits' = treeEdits + 1 /\ UNCHANGED <<aspect, edits>>

\* A monitor or a device is put in a group, or in none.
Assign(e, g) ==
  /\ g \in Exists \cup {Root}
  /\ groupOf' = [groupOf EXCEPT ![e] = g]
  /\ UNCHANGED <<overrides, bindings, windowAt, disables, grants, members, general,
                 flagged, agentTypes>>

EditSettings ==
  /\ aspect = "settings"
  /\ \E s \in {Global} \cup Exists \cup Concerned[aspect] :
       (\E v \in {1, 2} : SetSetting(s, v)) \/ RemoveSetting(s)
  /\ UNCHANGED <<groupOf, bindings, windowAt, disables, grants, members, general,
                 flagged, agentTypes>>

EditBindings ==
  /\ aspect = "channels"
  /\ \E s \in {Global} \cup Exists \cup Concerned[aspect], c \in Channels :
       (\E mode \in Modes : AddBinding(c, s, mode)) \/ RemoveBinding(c, s)
  /\ UNCHANGED <<groupOf, overrides, windowAt, disables, grants, members, general,
                 flagged, agentTypes>>

EditRemedies ==
  /\ aspect = "remedies"
  /\ \E s \in {Global} \cup Exists \cup Concerned[aspect], c \in Channels :
       (\E mode \in Modes : AddRemedy(c, s, mode)) \/ RemoveBinding(c, s)
  /\ UNCHANGED <<groupOf, overrides, windowAt, disables, grants, members, general,
                 flagged, agentTypes>>

EditWindows ==
  /\ aspect = "windows"
  /\ \E w \in Windows :
       \/ /\ \E s \in {Global} \cup Exists \cup Concerned[aspect] :
               windowAt' = [windowAt EXCEPT ![w] = s]
          /\ UNCHANGED disables
       \/ /\ windowAt[w] # Unborn
          /\ \E s \in Exists \cup Concerned[aspect] : DisableWindow(w, s) \/ EnableWindow(w, s)
          /\ UNCHANGED windowAt
  /\ UNCHANGED <<groupOf, overrides, bindings, grants, members, general, flagged, agentTypes>>

\* team.service.ts: setMembers, setPermissions / addPermission / removePermission, and
\* the is_general flag of a group.
EditRights ==
  /\ aspect = "rights"
  /\ \/ /\ \E t \in Teams : members' = IF t \in members THEN members \ {t} ELSE members \cup {t}
        /\ UNCHANGED <<grants, general>>
     \/ /\ \E t \in Teams, s \in Exists \cup Concerned[aspect], l \in Levels :
             grants' = [grants EXCEPT ![t][s] = l]
        /\ UNCHANGED <<members, general>>
     \/ /\ \E g \in Exists : general' = IF g \in general THEN general \ {g} ELSE general \cup {g}
        /\ UNCHANGED <<members, grants>>
  /\ UNCHANGED <<groupOf, overrides, bindings, windowAt, disables, flagged, agentTypes>>

EditTypes ==
  /\ aspect = "types"
  /\ \/ /\ \E s \in {Global} \cup Exists \cup Concerned[aspect], a \in Answers :
             agentTypes' = [agentTypes EXCEPT ![s] = IF s = Global /\ a = "null" THEN "on" ELSE a]
        /\ UNCHANGED flagged
     \/ /\ \E g \in Exists : flagged' = IF g \in flagged THEN flagged \ {g} ELSE flagged \cup {g}
        /\ UNCHANGED agentTypes
  /\ UNCHANGED <<groupOf, overrides, bindings, windowAt, disables, grants, members, general>>

\* A request on the tree: its first step counts, the others follow.
TreeRequest(r) ==
  /\ TreeStep(r)
  /\ IF Busy(r) THEN UNCHANGED <<aspect, edits, treeEdits>> ELSE TreeEdited
  /\ UNCHANGED tables

\* Monitors and devices of deleted groups fall out of any group (ON DELETE SET NULL);
\* rows kept per scope stay behind, their id is never used again.
RemoveGroup(g) ==
  /\ DeleteGroup(g)
  /\ TreeEdited
  /\ groupOf' = [e \in Entities |-> IF groupOf[e] \in Cascade(g) THEN Root ELSE groupOf[e]]
  /\ general' = general \ Cascade(g)
  /\ flagged' = flagged \ Cascade(g)
  /\ UNCHANGED <<overrides, bindings, windowAt, disables, grants, members, agentTypes>>

Edit ==
  /\ Edited
  /\ \/ EditSettings \/ EditBindings \/ EditRemedies \/ EditWindows \/ EditRights \/ EditTypes
     \/ \E e \in Concerned[aspect], g \in Groups \cup {Root} : Assign(e, g)

Restart == CrashTree /\ UNCHANGED <<aspect, edits, treeEdits, tables>>

Next ==
  \/ \E r \in Requests : TreeRequest(r)
  \/ \E g \in Groups : RemoveGroup(g)
  \/ Edit
  \/ Restart

\* Parent pointers without a cycle, each to a group that exists.
Forests ==
  {p \in [Groups -> Groups \cup {Root, Unborn}] :
     /\ \A S \in SUBSET Groups : S # {} => \E g \in S : p[g] \notin S
     /\ \A g \in Groups : p[g] \in Groups => p[p[g]] # Unborn}

\* A behaviour starts from any tree already built, with nothing configured.
Init ==
  /\ parent \in Forests
  /\ closure = ReferenceClosure
  /\ req = [r \in Requests |-> Idle] /\ crashes = 0 /\ muddled = FALSE
  /\ aspect \in Aspects /\ edits = 0 /\ treeEdits = 0
  /\ groupOf \in [Entities -> Exists \cup {Root}]
  /\ \A e \in Entities \ Concerned[aspect] : groupOf[e] = Root
  /\ overrides = [s \in Scopes |-> {}]
  /\ bindings = [s \in Scopes |-> {}]
  /\ windowAt = [w \in Windows |-> Unborn] /\ disables = {}
  /\ grants = [t \in Teams |-> [s \in Groups \cup Monitors |-> "none"]]
  /\ members = {} /\ general = {} /\ flagged = {}
  /\ agentTypes = [s \in Scopes |-> IF s = Global THEN "on" ELSE "null"]

Spec == Init /\ [][Next]_vars

-----------------------------------------------------------------------------
(* Properties: what the closure table answers against the tree itself.  They  *)
(* speak of the states in which no move is half way and none was overlapped.  *)

Settled == ~muddled /\ NoMoveUnderWay
Placed(kind) == {e \in kind : groupOf[e] \notin Fresh}

Path(e) == <<Global>> \o PathTo(groupOf[e]) \o <<e>>

\* The last scope of a path that satisfies a condition, or none.
LastOf(path, Test(_), none) ==
  IF \E i \in DOMAIN path : Test(path[i])
  THEN path[CHOOSE i \in DOMAIN path :
              Test(path[i]) /\ \A j \in DOMAIN path : Test(path[j]) => j <= i]
  ELSE none

TablesTypeOK ==
  /\ aspect \in Aspects
  /\ groupOf \in [Entities -> Exists \cup {Root}]
  /\ overrides \in [Scopes -> SUBSET {1, 2}]
  /\ bindings \in [Scopes -> SUBSET (Channels \X Modes)]
  /\ windowAt \in [Windows -> Scopes \cup {Unborn}]
  /\ disables \subseteq Windows \X Scopes
  /\ grants \in [Teams -> [Groups \cup Monitors -> Levels]]
  /\ members \subseteq Teams /\ general \subseteq Exists /\ flagged \subseteq Exists
  /\ agentTypes \in [Scopes -> Answers] /\ agentTypes[Global] # "null"
TypeOK == TreeTypeOK /\ TablesTypeOK

\* The nearest scope that answers decides: settings.service.ts resolveForMonitor for
\* the value a worker runs with, resolveForGroup for what a group would inherit without
\* rows of its own, resolveNotificationTypesForDevice for what an agent announces,
\* getGroupNotificationGroupId for the group that speaks for a monitor.
NearestSettingWins ==
  Settled =>
    /\ \A m \in Placed(Monitors) :
         ResolveForMonitor(m) = LastOf(Path(m), LAMBDA s : overrides[s] # {}, "default")
    /\ \A d \in Placed(Devices) :
         ResolveType(d) = agentTypes[LastOf(Path(d), LAMBDA s : agentTypes[s] # "null", Global)]
    /\ \A g \in Exists \ Fresh :
         /\ ResolveForGroup(g) =
              LastOf(<<Global>> \o PathTo(g), LAMBDA s : s # g /\ overrides[s] # {}, "default")
         /\ NearestFlagged(g) = LastOf(PathTo(g), LAMBDA s : s \in flagged, Root)

\* An edit of the settings restarts the worker of every monitor whose value it changes
\* (settings.controller.ts set and remove, restartAffectedBySettings).
SettingsEditReachesWorkers ==
  [][\A s \in Scopes : overrides'[s] # overrides[s] /\ Settled =>
       \A m \in Placed(Monitors) :
         LET before == ResolveForMonitor(m)
             after == ResolveForMonitor(m)'
         IN after # before \/ after = s => m \in RestartedBy(s)]_vars

\* The scope of a path that decides on a channel or an action: the nearest that names
\* it or replaces what it inherits.
Decides(path, c) ==
  LastOf(path, LAMBDA t : With(bindings[t], "replace") # {} \/
                          \E b \in bindings[t] : b[1] = c, "none")
Decided(path, c) ==
  LET s == Decides(path, c)
  IN s # "none" /\ c \in Added(bindings[s]) \ With(bindings[s], "exclude")

\* notification.service.ts and remediation.service.ts: a channel is used, and an action
\* runs, exactly when the scope that decides adds it and does not exclude it, and no
\* action runs twice.  The bindings pages (resolveBindingsWithSources) show as active
\* what the senders use, but for a monitor whose device has bindings of its own.
NearestBindingDecides ==
  LET ByDevice(m) == IF m \in DOMAIN DeviceOf THEN <<DeviceOf[m]>> ELSE <<>>
      Active(shown) == {x[1] : x \in {y \in shown : ~y[2]}}
      Plain(m) == m \notin DOMAIN DeviceOf \/ bindings[DeviceOf[m]] = {}
  IN Settled =>
       /\ \A m \in Placed(Monitors) :
            /\ ResolveChannelsForMonitor(m) = {c \in Channels : Decided(Path(m) \o ByDevice(m), c)}
            /\ Plain(m) => Active(ShownForMonitor(m)) = ResolveChannelsForMonitor(m)
            /\ ResolveRemedies(m) =
                 {<<c, Decides(Path(m), c)>> : c \in {x \in Channels : Decided(Path(m), x)}}
       /\ \A d \in Placed(Devices) :
            /\ ResolveChannelsForAgent(d) = {c \in Channels : Decided(Path(d), c)}
            /\ Active(ShownForAgent(d)) = ResolveChannelsForAgent(d)
       /\ \A g \in Exists \ Fresh : Active(ShownForGroup(g)) = ResolveChannelsForGroup(g)

\* maintenance.service.ts: the worker's question, the list pages' batch and the page of
\* the entity give one answer, that of the tree: a window on the entity always counts,
\* one above it unless it was disabled on the entity or anywhere on its way.
MaintenanceAgrees ==
  Settled =>
    \A kind \in {Monitors, Devices} : \A e \in Placed(kind) :
      LET above == Range(PathTo(groupOf[e]))
          due == \E w \in Windows :
                   \/ windowAt[w] = e
                   \/ /\ windowAt[w] \in above \cup {Global}
                      /\ \A s \in above \cup {e} : <<w, s>> \notin disables
      IN /\ InMaintenance(e) <=> due
         /\ e \in BatchInMaintenance(kind) <=> due
         /\ (\E x \in EffectiveWindows(e) : ~x[2]) <=> due

\* permission.service.ts: what a user may open, what the lists show and what the socket
\* tells are the same monitors, the tree shows the group of a granted one, and a grant
\* on a group is worth as much on everything below it.
RightsAgree ==
  Settled =>
    /\ \A m \in Placed(Monitors) :
         LET visible == m \in VisibleMonitors IN
         /\ visible <=> MonitorPermission(m) # "none"
         /\ visible <=> UserReaches(m)
         /\ visible /\ groupOf[m] \in Groups \ general => groupOf[m] \in ShownTree
         /\ \A s \in Range(PathTo(groupOf[m])) \cup {m} :
              (\E t \in members : grants[t][s] = "rw") => MonitorPermission(m) = "rw"
    /\ \A g \in Exists \ Fresh : GroupPermission(g) # "none" => g \in VisibleGroups

\* Whatever is inherited, the nearest scope that says anything decides: settings and
\* notification types, and channels and remedies.
NearestScopeDecides == NearestSettingWins /\ NearestBindingDecides

\* Every page, job and socket that asks about maintenance or about rights gets the
\* answer the tree gives.
ReadersAgree == MaintenanceAgrees /\ RightsAgree
=============================================================================
