------------------------------ MODULE Accounts ------------------------------
(***************************************************************************)
(* The accounts: those an administrator makes, and those that signing in   *)
(* through Obligate, the external identity provider, makes and refreshes.  *)
(* Every statement of a sign-in, of a checked edit and of a removal        *)
(* is a step, because the server awaits it; the provider's records, what   *)
(* is reported to it and what it posts are external.                       *)
(***************************************************************************)
EXTENDS Integers, FiniteSets

CONSTANTS
  Identities,    \* users of Obligate
  Names,         \* the names they may have there
  Teams,         \* the teams, by name
  Requests,      \* sign-ins under way at a time
  Forms,         \* checked edits of accounts under way at a time
  Local,         \* not an identity: an account with a password
  MaxAccounts,   \* bound: accounts ever made
  Budgets        \* bounds, one of which a behaviour keeps to: sign-ins, changes at
                 \* Obligate and its posts, edits by administrators, crashes and failing statements

ASSUME AccountsAssumption ==
  /\ Local \notin Identities \cup Requests
  /\ MaxAccounts \in Nat \ {0}
  /\ Budgets \subseteq [signIns : Nat, gate : Nat, admin : Nat, crashes : Nat]

VARIABLES
  accounts,      \* the users table
  linked,        \* sso_foreign_users: the account of an identity, or 0
  tenantsOf,     \* user_tenants
  teamsOf,       \* team_memberships
  scope,         \* the tenants of a team, its own and those it is pushed to; {}: no such team
  gate,          \* what Obligate knows of an identity, and asserts when it signs in
  reports,       \* reportProvision calls under way
  signIns,       \* the callbacks under way
  forms,         \* the checked edits under way
  removal,       \* the account whose link a 'delete' post has removed, or 0
  running,       \* the server is up
  stranded,      \* history: identities that a crash or a failing statement left with an
                 \* account and no link, whose new link a sign-in deleted as stale, or that
                 \* got a second account, under a new name
  made,          \* accounts made so far: ids are never used again
  left           \* of the budget

accountVars == <<accounts, linked, tenantsOf, teamsOf, scope, gate, reports, signIns,
                 forms, removal, running, stranded, made, left>>

Roles   == {"admin", "user"}
SomeTenants == {1, 2}
AccountIds  == 1 .. MaxAccounts
DefaultName == "admin"
LocalNames  == {DefaultName, "eve"}

Account(id, name, role, of) ==
  [id |-> id, name |-> name, role |-> role, active |-> TRUE, of |-> of]
Has(id)    == \E a \in accounts : a.id = id
GetById(id) == CHOOSE a \in accounts : a.id = id
\* The accounts that signing in makes are called og_<name>.
Taken(name) == \E a \in accounts : a.name = name
ActiveAdmins == {a.id : a \in {b \in accounts : b.role = "admin" /\ b.active}}

AtRest == [pc |-> "idle"]
Made == made < MaxAccounts /\ made' = made + 1
Spend(what) == left[what] > 0 /\ left' = [left EXCEPT ![what] = @ - 1]

SomeAccount == [id : AccountIds, name : LocalNames \cup Names, role : Roles, active : BOOLEAN,
                of : Identities \cup {Local}]
Asserts     == [linked : 0 .. MaxAccounts, name : Names, role : Roles,
                tenants : SUBSET SomeTenants, teams : SUBSET Teams]
SomeSignIn  == [pc : {"find", "verify", "unlink", "refresh", "create", "link", "tenants",
                      "resolve", "leave", "join", "session"},
                of : Identities, told : Asserts, account : 0 .. MaxAccounts,
                teams : SUBSET Teams, stale : SUBSET Teams, alone : BOOLEAN,
                had : SUBSET (AccountIds \X Teams)]
SomeForm    == [pc : {"write"}, id : AccountIds,
                what : {"demote", "promote", "deactivate", "activate", "delete"},
                saw : SUBSET AccountIds]

\* Ids and names are unique, and ids are never used again.
RowsOK ==
  /\ accounts \subseteq SomeAccount
  /\ \A a, b \in accounts : a.id = b.id \/ a.name = b.name => a = b
  /\ made \in 1 .. MaxAccounts
  /\ \A a \in accounts : a.id <= made

\* A foreign key points at a row that exists.
KeysOK ==
  /\ linked \in [Identities -> 0 .. MaxAccounts]
  /\ \A i \in Identities : linked[i] # 0 => Has(linked[i])
  /\ scope \in [Teams -> SUBSET SomeTenants]
  /\ tenantsOf \subseteq {a.id : a \in accounts} \X SomeTenants
  /\ teamsOf \subseteq {a.id : a \in accounts} \X {t \in Teams : scope[t] # {}}

RequestsOK ==
  /\ gate \in [Identities -> Asserts]
  /\ reports \subseteq Identities \X (0 .. MaxAccounts)
  /\ signIns \in [Requests -> SomeSignIn \cup {AtRest}]
  /\ forms \in [Forms -> SomeForm \cup {AtRest}]
  /\ removal \in 0 .. MaxAccounts
  /\ running \in BOOLEAN
  /\ stranded \subseteq Identities \cup {Local}
  /\ left \in [signIns : Nat, gate : Nat, admin : Nat, crashes : Nat]

AccountsTypeOK == RowsOK /\ KeysOK /\ RequestsOK

\* A server that was set up, and identities that have not signed in yet.
AccountsInit ==
  /\ accounts = {Account(1, DefaultName, "admin", Local)}
  /\ linked = [i \in Identities |-> 0]
  /\ tenantsOf = {} /\ teamsOf = {}
  /\ scope \in [Teams -> {{1}, {1, 2}}]
  /\ gate \in [Identities -> {[linked |-> 0, name |-> n, role |-> "user",
                                tenants |-> {1}, teams |-> T] : n \in Names, T \in {{}, Teams}}]
  /\ reports = {}
  /\ signIns = [r \in Requests |-> AtRest]
  /\ forms = [f \in Forms |-> AtRest]
  /\ removal = 0 /\ running = TRUE /\ stranded = {}
  /\ made = 1 /\ left \in Budgets

-----------------------------------------------------------------------------
(***************************************************************************)
(* GET /auth/callback.                                                     *)
(***************************************************************************)
\* A row of users goes with everything that refers to it.
Gone(id) ==
  /\ accounts' = {a \in accounts : a.id # id}
  /\ linked' = [i \in Identities |-> IF linked[i] = id THEN 0 ELSE linked[i]]
  /\ tenantsOf' = {m \in tenantsOf : m[1] # id}
  /\ teamsOf' = {m \in teamsOf : m[1] # id}

\* r goes on, or ends; the others no longer have the tables to themselves.
Becomes(r, s) ==
  signIns' = [q \in Requests |->
    IF q = r THEN s
    ELSE IF signIns[q].pc = "idle" THEN AtRest ELSE [signIns[q] EXCEPT !.alone = FALSE]]
Interrupted == Becomes(Local, AtRest)

At(r, pc) == running /\ signIns[r].pc = pc
To(r, pc) == [signIns[r] EXCEPT !.pc = pc]

\* exchangeCode: what Obligate asserts now.
Exchange(r, i) ==
  /\ At(r, "idle") /\ Spend("signIns")
  /\ signIns' = [signIns EXCEPT ![r] = [pc |-> "find", of |-> i, told |-> gate[i],
                                        account |-> 0, teams |-> {}, stale |-> {},
                                        alone |-> TRUE, had |-> teamsOf]]
  /\ UNCHANGED <<accounts, linked, tenantsOf, teamsOf, scope, gate, reports, forms, removal,
                 running, stranded, made>>

\* The account Obligate names, which is told when it is gone; else the linked one.
FindAccount(r) ==
  LET s == signIns[r]
      named == s.told.linked
      Goes(pc, id) == signIns' = [signIns EXCEPT ![r].pc = pc, ![r].account = id]
  IN
  /\ At(r, "find")
  /\ \/ named # 0 /\ Has(named) /\ Goes("refresh", named) /\ UNCHANGED reports
     \/ named # 0 /\ ~Has(named) /\ Goes("create", s.account) /\ reports' = reports \cup {<<s.of, 0>>}
     \/ named = 0 /\ linked[s.of] # 0 /\ Goes("verify", linked[s.of]) /\ UNCHANGED reports
     \/ named = 0 /\ linked[s.of] = 0 /\ Goes("create", s.account) /\ UNCHANGED reports
  /\ UNCHANGED <<accounts, linked, tenantsOf, teamsOf, scope, gate, forms, removal, running,
                 stranded, made, left>>

\* The linked account is read after its link, and may have gone in between.
VerifyAccount(r) ==
  LET s == signIns[r] IN
  /\ At(r, "verify")
  /\ signIns' = [signIns EXCEPT ![r].pc = IF Has(s.account) THEN "refresh" ELSE "unlink"]
  /\ UNCHANGED <<accounts, linked, tenantsOf, teamsOf, scope, gate, reports, forms, removal,
                 running, stranded, made, left>>

\* Then the identity's link is deleted: the one another sign-in has made since, too.
UnlinkAccount(r) ==
  LET s == signIns[r] IN
  /\ At(r, "unlink")
  /\ linked' = [linked EXCEPT ![s.of] = 0]
  /\ stranded' = stranded \cup (IF linked[s.of] = 0 THEN {} ELSE {s.of})
  /\ Becomes(r, To(r, "create"))
  /\ UNCHANGED <<accounts, tenantsOf, teamsOf, scope, gate, reports, forms, removal, running,
                 made, left>>

\* The update of an account that has gone meanwhile changes no row.
RefreshAccount(r) ==
  LET s == signIns[r] IN
  /\ At(r, "refresh")
  /\ accounts' = {IF a.id = s.account THEN [a EXCEPT !.role = s.told.role] ELSE a : a \in accounts}
  /\ Becomes(r, To(r, "tenants"))
  /\ UNCHANGED <<linked, tenantsOf, teamsOf, scope, gate, reports, forms, removal, running,
                 stranded, made, left>>

\* users.username is unique.
CreateAccount(r) ==
  LET s == signIns[r]
      id == made + 1
  IN
  /\ At(r, "create")
  /\ IF Taken(s.told.name)
       THEN Becomes(r, AtRest) /\ UNCHANGED <<accounts, made, stranded>>
       ELSE /\ Made
            /\ stranded' = stranded \cup {a.of : a \in {b \in accounts : b.of = s.of}}
            /\ accounts' = accounts \cup {Account(id, s.told.name, s.told.role, s.of)}
            /\ Becomes(r, [To(r, "link") EXCEPT !.account = id])
  /\ UNCHANGED <<linked, tenantsOf, teamsOf, scope, gate, reports, forms, removal, running,
                 left>>

\* Mutant of LinkAccount: the link is left to Obligate.
LinkAccountReports(r) ==
  LET s == signIns[r] IN
  /\ At(r, "link")
  /\ IF Has(s.account)
       THEN /\ reports' = reports \cup {<<s.of, s.account>>}
            /\ Becomes(r, To(r, "tenants"))
       ELSE Becomes(r, AtRest) /\ UNCHANGED reports
  /\ UNCHANGED <<accounts, linked, tenantsOf, teamsOf, scope, gate, forms, removal, running,
                 stranded, made, left>>

\* A row for an account that is gone violates its foreign key, here and below.
LinkAccount(r) ==
  LET s == signIns[r] IN
  /\ At(r, "link")
  /\ IF Has(s.account)
       THEN /\ linked' = [linked EXCEPT ![s.of] = s.account]
            /\ reports' = reports \cup {<<s.of, s.account>>}
            /\ Becomes(r, To(r, "tenants"))
       ELSE Becomes(r, AtRest) /\ UNCHANGED <<linked, reports>>
  /\ UNCHANGED <<accounts, tenantsOf, teamsOf, scope, gate, forms, removal, running, stranded,
                 made, left>>

\* Tenants are added and never taken away; without one, teams are left alone.
EnterTenants(r) ==
  LET s == signIns[r] IN
  /\ At(r, "tenants")
  /\ IF s.told.tenants = {}
       THEN signIns' = [signIns EXCEPT ![r].pc = "session"] /\ UNCHANGED tenantsOf
       ELSE IF Has(s.account)
              THEN /\ tenantsOf' = tenantsOf \cup ({s.account} \X s.told.tenants)
                   /\ Becomes(r, To(r, "resolve"))
              ELSE Becomes(r, AtRest) /\ UNCHANGED tenantsOf
  /\ UNCHANGED <<accounts, linked, teamsOf, scope, gate, reports, forms, removal, running,
                 stranded, made, left>>

InScope(s) == {t \in Teams : scope[t] \cap s.told.tenants # {}}
\* Mutant of Asserted: a name is resolved whatever the tenant.
AssertedAnywhere(s) == {t \in s.told.teams : scope[t] # {}}
Asserted(s) == InScope(s) \cap s.told.teams

\* The names are resolved to ids, and the other teams in scope are stale.
ResolveTeams(r) ==
  LET s == signIns[r] IN
  /\ At(r, "resolve")
  /\ signIns' = [signIns EXCEPT ![r].pc = "leave", ![r].teams = Asserted(s),
                               ![r].stale = InScope(s) \ Asserted(s)]
  /\ UNCHANGED <<accounts, linked, tenantsOf, teamsOf, scope, gate, reports, forms, removal,
                 running, stranded, made, left>>

LeaveTeams(r) ==
  LET s == signIns[r] IN
  /\ At(r, "leave")
  /\ teamsOf' = teamsOf \ ({s.account} \X s.stale)
  /\ Becomes(r, To(r, "join"))
  /\ UNCHANGED <<accounts, linked, tenantsOf, scope, gate, reports, forms, removal, running,
                 stranded, made, left>>

JoinTeams(r) ==
  LET s == signIns[r] IN
  /\ At(r, "join")
  /\ IF s.teams = {} \/ (Has(s.account) /\ \A t \in s.teams : scope[t] # {})
       THEN /\ teamsOf' = teamsOf \cup ({s.account} \X s.teams)
            /\ Becomes(r, To(r, "session"))
       ELSE Becomes(r, AtRest) /\ UNCHANGED teamsOf
  /\ UNCHANGED <<accounts, linked, tenantsOf, scope, gate, reports, forms, removal, running,
                 stranded, made, left>>

\* The session is saved, the browser redirected.
OpenSession(r) ==
  /\ At(r, "session")
  /\ signIns' = [signIns EXCEPT ![r] = AtRest]
  /\ UNCHANGED <<accounts, linked, tenantsOf, teamsOf, scope, gate, reports, forms, removal,
                 running, stranded, made, left>>

-----------------------------------------------------------------------------
(***************************************************************************)
(* Obligate: its records change, it hears reports in any order or never,   *)
(* and posts to /api/auth/sso-user-sync about the account it has recorded. *)
(***************************************************************************)
GateEdits == Spend("gate")

GateChanges(i) ==
  /\ GateEdits
  /\ \/ \E n \in Names : gate' = [gate EXCEPT ![i].name = n]
     \/ \E x \in Roles : gate' = [gate EXCEPT ![i].role = x]
     \/ \E T \in {{}, {2}, SomeTenants} : gate' = [gate EXCEPT ![i].tenants = T]
     \/ \E T \in SUBSET Teams : gate' = [gate EXCEPT ![i].teams = T]
  /\ UNCHANGED <<accounts, linked, tenantsOf, teamsOf, scope, reports, signIns, forms, removal,
                 running, stranded, made>>

ReportArrives(p) ==
  /\ p \in reports
  /\ reports' = reports \ {p}
  /\ gate' = [gate EXCEPT ![p[1]].linked = p[2]]
  /\ UNCHANGED <<accounts, linked, tenantsOf, teamsOf, scope, signIns, forms, removal, running,
                 stranded, made, left>>

ReportLost(p) ==
  /\ p \in reports
  /\ reports' = reports \ {p}
  /\ UNCHANGED <<accounts, linked, tenantsOf, teamsOf, scope, gate, signIns, forms, removal,
                 running, stranded, made, left>>

\* 'deactivate', 'reactivate' and 'update-role'.
PostChange(i) ==
  LET id == gate[i].linked IN
  /\ running /\ GateEdits /\ Has(id)
  /\ \E x \in {"role", "active"} :
       accounts' = {IF a.id # id THEN a
                    ELSE IF x = "role" THEN [a EXCEPT !.role = gate[i].role]
                    ELSE [a EXCEPT !.active = ~@] : a \in accounts}
  /\ Interrupted
  /\ UNCHANGED <<linked, tenantsOf, teamsOf, scope, gate, reports, forms, removal, running,
                 stranded, made>>

\* 'delete': the link goes first.
PostDelete(i) ==
  LET id == gate[i].linked IN
  /\ running /\ GateEdits /\ Has(id) /\ removal = 0
  /\ linked' = [j \in Identities |-> IF linked[j] = id THEN 0 ELSE linked[j]]
  /\ removal' = id
  /\ Interrupted
  /\ UNCHANGED <<accounts, tenantsOf, teamsOf, scope, gate, reports, forms, running, stranded, made>>

FinishDelete ==
  /\ running /\ removal # 0
  /\ Gone(removal)
  /\ removal' = 0
  /\ Interrupted
  /\ UNCHANGED <<scope, gate, reports, forms, running, stranded, made, left>>

-----------------------------------------------------------------------------
(***************************************************************************)
(* Administrators.  What the form asks is checked first and written next.  *)
(***************************************************************************)
AdminEdits == running /\ Spend("admin")

Weakens(what) == what \in {"demote", "deactivate", "delete"}

\* Mutant of OthersThan: inactive administrators count.
AdminsOtherThan(id) == {a.id : a \in {b \in accounts : b.role = "admin" /\ b.id # id}}

\* "Prevent demoting the last admin": another active one must remain.
OthersThan(id) == ActiveAdmins \ {id}

\* usersController.update and delete, up to the write.  The accounts of Obligate are
\* managed there.
CheckForm(f, id, what) ==
  /\ AdminEdits /\ forms[f].pc = "idle" /\ Has(id)
  /\ GetById(id).of = Local
  /\ Weakens(what) /\ GetById(id).role = "admin" => OthersThan(id) # {}
  /\ forms' = [forms EXCEPT ![f] = [pc |-> "write", id |-> id, what |-> what,
                                    saw |-> ActiveAdmins]]
  /\ UNCHANGED <<accounts, linked, tenantsOf, teamsOf, scope, gate, reports, signIns, removal,
                 running, stranded, made>>

Updated(a, what) ==
  CASE what = "demote"     -> [a EXCEPT !.role = "user"]
    [] what = "promote"    -> [a EXCEPT !.role = "admin"]
    [] what = "deactivate" -> [a EXCEPT !.active = FALSE]
    [] what = "activate"   -> [a EXCEPT !.active = TRUE]

WriteForm(f) ==
  LET w == forms[f] IN
  /\ running /\ w.pc = "write"
  /\ IF w.what = "delete" THEN Gone(w.id)
     ELSE /\ accounts' = {IF a.id = w.id THEN Updated(a, w.what) ELSE a : a \in accounts}
          /\ UNCHANGED <<linked, tenantsOf, teamsOf>>
  /\ forms' = [forms EXCEPT ![f] = AtRest]
  /\ Interrupted
  /\ UNCHANGED <<scope, gate, reports, removal, running, stranded, made, left>>

\* usersController.create: a name that is taken is refused.
CreateUser(name, role) ==
  /\ AdminEdits /\ Made /\ ~Taken(name)
  /\ accounts' = accounts \cup {Account(made + 1, name, role, Local)}
  /\ UNCHANGED <<linked, tenantsOf, teamsOf, scope, gate, reports, signIns, forms, removal,
                 running, stranded>>

\* PUT /users/:id/tenants replaces the tenants of a local account.
SetTenants(id, T) ==
  /\ AdminEdits /\ Has(id) /\ GetById(id).of = Local
  /\ tenantsOf' = {m \in tenantsOf : m[1] # id} \cup ({id} \X T)
  /\ Interrupted
  /\ UNCHANGED <<accounts, linked, teamsOf, scope, gate, reports, forms, removal, running,
                 stranded, made>>

\* POST and DELETE /tenants/:id/members take any account.
AddMember(id, tenant) ==
  /\ AdminEdits /\ Has(id)
  /\ tenantsOf' = tenantsOf \cup {<<id, tenant>>}
  /\ Interrupted
  /\ UNCHANGED <<accounts, linked, teamsOf, scope, gate, reports, forms, removal, running,
                 stranded, made>>

RemoveMember(id, tenant) ==
  /\ AdminEdits
  /\ tenantsOf' = tenantsOf \ {<<id, tenant>>}
  /\ Interrupted
  /\ UNCHANGED <<accounts, linked, teamsOf, scope, gate, reports, forms, removal, running,
                 stranded, made>>

\* teamService.setMembers.
SetMembers(t, ids) ==
  /\ AdminEdits /\ scope[t] # {} /\ \A id \in ids : Has(id)
  /\ teamsOf' = {m \in teamsOf : m[2] # t} \cup (ids \X {t})
  /\ Interrupted
  /\ UNCHANGED <<accounts, linked, tenantsOf, scope, gate, reports, forms, removal, running,
                 stranded, made>>

\* The teams are global: they belong to the default tenant, and are pushed to others.
SetTargetTenants(t, T) ==
  /\ AdminEdits /\ scope[t] # {}
  /\ scope' = [scope EXCEPT ![t] = {1} \cup T]
  /\ Interrupted
  /\ UNCHANGED <<accounts, linked, tenantsOf, teamsOf, gate, reports, forms, removal, running,
                 stranded, made>>

DeleteTeam(t) ==
  /\ AdminEdits /\ scope[t] # {}
  /\ scope' = [scope EXCEPT ![t] = {}]
  /\ teamsOf' = {m \in teamsOf : m[2] # t}
  /\ Interrupted
  /\ UNCHANGED <<accounts, linked, tenantsOf, gate, reports, forms, removal, running, stranded, made>>

-----------------------------------------------------------------------------
\* The identity whose account a sign-in has made, and not linked yet.
Unlinked(r) == IF signIns[r].pc = "link" THEN {signIns[r].of} ELSE {}
\* The identities whose account a 'delete' post has unlinked, and not removed yet.
Removing == {a.of : a \in {b \in accounts : b.id = removal}}

\* A statement of a sign-in fails: what was written before stays.
SignInFails(r) ==
  /\ running /\ signIns[r].pc # "idle" /\ Spend("crashes")
  /\ signIns' = [signIns EXCEPT ![r] = AtRest]
  /\ stranded' = stranded \cup Unlinked(r)
  /\ UNCHANGED <<accounts, linked, tenantsOf, teamsOf, scope, gate, reports, forms, removal,
                 running, made>>

\* The second statement of a 'delete' post fails.
DeleteFails ==
  /\ running /\ removal # 0 /\ Spend("crashes")
  /\ removal' = 0
  /\ stranded' = stranded \cup Removing
  /\ UNCHANGED <<accounts, linked, tenantsOf, teamsOf, scope, gate, reports, signIns, forms,
                 running, made>>

\* Every request dies with the process, the reports it was sending too.
Crash ==
  /\ running /\ Spend("crashes")
  /\ running' = FALSE
  /\ signIns' = [r \in Requests |-> AtRest]
  /\ forms' = [f \in Forms |-> AtRest]
  /\ removal' = 0 /\ reports' = {}
  /\ stranded' = stranded \cup Removing \cup UNION {Unlinked(r) : r \in Requests}
  /\ UNCHANGED <<accounts, linked, tenantsOf, teamsOf, scope, gate, made>>

\* ensureDefaultAdmin: an administrator, active or not, or a new account with the
\* default name; when that is taken the server does not start.
Boot ==
  /\ ~running
  /\ IF \E a \in accounts : a.role = "admin"
       THEN UNCHANGED <<accounts, made>>
       ELSE /\ ~Taken(DefaultName) /\ Made
            /\ accounts' = accounts \cup {Account(made + 1, DefaultName, "admin", Local)}
  /\ running' = TRUE
  /\ UNCHANGED <<linked, tenantsOf, teamsOf, scope, gate, reports, signIns, forms, removal,
                 stranded, left>>

SignInStep(r) ==
  \/ \E i \in Identities : Exchange(r, i)
  \/ FindAccount(r) \/ VerifyAccount(r) \/ UnlinkAccount(r)
  \/ RefreshAccount(r) \/ CreateAccount(r) \/ LinkAccount(r)
  \/ EnterTenants(r) \/ ResolveTeams(r) \/ LeaveTeams(r) \/ JoinTeams(r) \/ OpenSession(r)
  \/ SignInFails(r)

GateStep ==
  \/ \E i \in Identities : GateChanges(i) \/ PostChange(i) \/ PostDelete(i)
  \/ \E p \in reports : ReportArrives(p) \/ ReportLost(p)
  \/ FinishDelete \/ DeleteFails

AdminStep ==
  \/ \E f \in Forms, id \in AccountIds,
        what \in {"demote", "promote", "deactivate", "activate", "delete"} : CheckForm(f, id, what)
  \/ \E f \in Forms : WriteForm(f)
  \/ \E name \in LocalNames, role \in Roles : CreateUser(name, role)
  \/ \E id \in AccountIds, T \in SUBSET SomeTenants : SetTenants(id, T)
  \/ \E id \in AccountIds, t \in SomeTenants : AddMember(id, t) \/ RemoveMember(id, t)
  \/ \E t \in Teams, ids \in SUBSET AccountIds : SetMembers(t, ids)
  \/ \E t \in Teams, T \in SUBSET SomeTenants : SetTargetTenants(t, T)
  \/ \E t \in Teams : DeleteTeam(t)

AccountsNext ==
  (\E r \in Requests : SignInStep(r)) \/ GateStep \/ AdminStep \/ Crash \/ Boot

-----------------------------------------------------------------------------
(***************************************************************************)
(* Why the properties hold.                                                *)
(***************************************************************************)
\* id is, was or will never be an account of i: what is remembered of an identity's
\* account never comes to mean another's.
Belongs(id, i) == id <= made /\ \A a \in accounts : a.id = id => a.of = i

\* Whatever names an account for an identity names one of it.
NamesBelong ==
  /\ \A i \in Identities : Belongs(linked[i], i) /\ Belongs(gate[i].linked, i)
  /\ \A p \in reports : Belongs(p[2], p[1])
  /\ \A r \in Requests : signIns[r].pc # "idle" =>
       Belongs(signIns[r].account, signIns[r].of) /\ Belongs(signIns[r].told.linked, signIns[r].of)
  /\ removal # 0 => \E i \in Identities : Belongs(removal, i)

\* How far a sign-in that nothing has disturbed has come.
Synced(s) ==
  /\ s.pc \notin {"find", "unlink", "create"} =>
       \E a \in accounts : a.id = s.account /\ (s.pc \notin {"verify", "refresh"} => a.role = s.told.role)
  /\ s.pc \in {"resolve", "leave", "join"} => s.told.tenants # {}
  /\ s.pc \in {"resolve", "leave", "join", "session"} => {s.account} \X s.told.tenants \subseteq tenantsOf
  /\ s.pc \in {"leave", "join"} => s.teams = Asserted(s) /\ s.stale = InScope(s) \ Asserted(s)
  /\ s.pc \notin {"join", "session"} => teamsOf = s.had
  /\ s.pc = "join" => teamsOf = s.had \ ({s.account} \X s.stale)
  /\ s.pc = "session" =>
       teamsOf = IF s.told.tenants = {} THEN s.had
                 ELSE (s.had \ ({s.account} \X (InScope(s) \ Asserted(s))))
                        \cup ({s.account} \X Asserted(s))

SyncInv ==
  /\ NamesBelong
  /\ \A r \in Requests : signIns[r].pc # "idle" /\ signIns[r].alone => Synced(signIns[r])

\* The account of an identity is linked, about to be linked or about to be removed.
LinkInv ==
  /\ NamesBelong
  /\ \A a \in accounts : a.of \in Identities \ stranded =>
       /\ \A b \in accounts : b.of = a.of => b = a
       /\ \/ linked[a.of] = a.id
          \/ removal = a.id
          \/ \E r \in Requests : signIns[r].pc = "link" /\ signIns[r].account = a.id

\* A form that was checked leaves one of the administrators it saw.
FormsInv ==
  /\ NamesBelong
  /\ \A f \in Forms : forms[f].pc = "write" =>
       /\ Belongs(forms[f].id, Local)
       /\ Weakens(forms[f].what) /\ forms[f].saw # {} => forms[f].saw \ {forms[f].id} # {}

-----------------------------------------------------------------------------
\* A sign-in that nothing disturbed leaves the account it opens a session for with the
\* role and every tenant asserted, with exactly the asserted teams among those of these
\* tenants, and with its memberships elsewhere as they were ("Memberships in teams
\* belonging to tenants the user has no longer access to are left alone").
SignInSyncs ==
  \A r \in Requests : signIns[r].pc = "session" /\ signIns[r].alone =>
    LET s == signIns[r]
        id == s.account
        scoped == IF s.told.tenants = {} THEN {} ELSE InScope(s)
    IN /\ Has(id) /\ GetById(id).of = s.of /\ GetById(id).role = s.told.role
       /\ {id} \X s.told.tenants \subseteq tenantsOf
       /\ \A t \in Teams : <<id, t>> \in teamsOf <=>
            IF t \in scoped THEN t \in s.told.teams ELSE <<id, t>> \in s.had

\* Whatever reports were lost or late and whoever was removed meanwhile, an identity can
\* sign in again, at the second attempt at the latest: unless another account has its
\* name, a crash or a failing statement has left an account that nothing is linked to (the
\* callback's create and link are two statements, and the 'delete' post's two), a sign-in
\* that found its account gone deleted the link another had just made, or it was renamed
\* between two sign-ins that both made an account.
SignInPossible ==
  running /\ reports = {} /\ removal = 0 /\ (\A r \in Requests : signIns[r].pc = "idle") =>
    \A i \in Identities \ stranded :
      \/ Has(gate[i].linked) \/ linked[i] # 0
      \/ \A a \in accounts : a.name = gate[i].name => a.of # i

\* The last active administrator goes only when Obligate says so, or by an edit that
\* other requests overtook between its check and its write.
AdminRemains ==
  [][ActiveAdmins # {} /\ ActiveAdmins' = {} =>
       \/ \A id \in ActiveAdmins : GetById(id).of # Local
       \/ \E f \in Forms : /\ forms[f].pc = "write" /\ forms'[f].pc = "idle"
                           /\ forms[f].saw # ActiveAdmins]_accountVars
=============================================================================
