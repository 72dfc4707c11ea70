------------------------ MODULE Administration_proofs ------------------------
(***************************************************************************)
(* Proofs about Administration: about the accounts, for any identities,    *)
(* names, teams, requests and budgets, and about the files, for any        *)
(* sections, edits and imports.                                            *)
(***************************************************************************)
EXTENDS Administration, ImportExportInvariants, FiniteSetTheorems, WellFoundedInduction, TLAPS

\* Whatever happens to files, accounts take the steps of Accounts or none.
LEMMA AccountsMove ==
  AdministrationSpec => AccountsInit /\ [][AccountsNext]_accountVars
<1>1. AdministrationInit => AccountsInit
  BY DEF AdministrationInit
<1>2. [AdministrationNext]_administrationVars => [AccountsNext]_accountVars
  BY DEF AdministrationNext, administrationVars
<1> QED
  BY <1>1, <1>2, PTL DEF AdministrationSpec
-----------------------------------------------------------------------------
(***************************************************************************)
(* Types.                                                                  *)
(***************************************************************************)
\* A request that is not at rest is a sign-in with its fields, and a form likewise.
LEMMA RequestShapes ==
  ASSUME RequestsOK
  PROVE  /\ \A r \in Requests : signIns[r].pc # "idle" => signIns[r] \in SomeSignIn
         /\ \A f \in Forms : forms[f].pc # "idle" => forms[f] \in SomeForm
<1>1. AtRest.pc = "idle"
  BY DEF AtRest
<1> QED
  BY <1>1 DEF RequestsOK

\* What one request becomes leaves them all well formed.
LEMMA BecomesType ==
  ASSUME RequestsOK, NEW r, NEW s \in SomeSignIn \cup {AtRest}, Becomes(r, s)
  PROVE  signIns' \in [Requests -> SomeSignIn \cup {AtRest}]
<1>1. ASSUME NEW q \in Requests, signIns[q].pc # "idle"
      PROVE  [signIns[q] EXCEPT !.alone = FALSE] \in SomeSignIn
  <2>1. signIns[q] \in SomeSignIn
    BY <1>1, RequestShapes
  <2> QED
    BY <2>1 DEF SomeSignIn
<1> QED
  BY <1>1 DEF Becomes

\* A sign-in that goes on stays one.
LEMMA ToType ==
  ASSUME RequestsOK, NEW r \in Requests, signIns[r].pc # "idle",
         NEW pc \in {"find", "verify", "unlink", "refresh", "create", "link", "tenants", "resolve", "leave",
                     "join", "session"}
  PROVE  To(r, pc) \in SomeSignIn
<1>1. signIns[r] \in SomeSignIn
  BY RequestShapes
<1> QED
  BY <1>1 DEF To, SomeSignIn

\* A budget that is spent from stays one.
LEMMA SpendType ==
  ASSUME RequestsOK, NEW what \in {"signIns", "gate", "admin", "crashes"}, Spend(what)
  PROVE  left' \in [signIns : Nat, gate : Nat, admin : Nat, crashes : Nat]
<1>1. left \in [signIns : Nat, gate : Nat, admin : Nat, crashes : Nat]
  BY DEF RequestsOK
<1>2. left[what] \in Nat /\ left[what] > 0
  BY <1>1 DEF Spend
<1>3. left[what] - 1 \in Nat
  BY <1>2
<1>4. left' = [left EXCEPT ![what] = left[what] - 1]
  BY DEF Spend
<1> QED
  BY <1>1, <1>3, <1>4

\* An account found by its id.
LEMMA Found ==
  ASSUME RowsOK, NEW id, Has(id)
  PROVE  GetById(id) \in accounts /\ GetById(id).id = id
BY DEF Has, GetById

\* There is one of each id.
LEMMA TheOne ==
  ASSUME RowsOK, NEW a \in accounts
  PROVE  Has(a.id) /\ GetById(a.id) = a
<1>1. Has(a.id)
  BY DEF Has
<1>2. GetById(a.id) \in accounts /\ GetById(a.id).id = a.id
  BY <1>1, Found
<1> QED
  BY <1>1, <1>2 DEF RowsOK
-----------------------------------------------------------------------------
(***************************************************************************)
(* What can happen to the users table: rows are rewritten under their ids  *)
(* and names, one is added under a new id and a free name, or one goes.    *)
(***************************************************************************)
Rewrites(g) ==
  /\ g \in [accounts -> SomeAccount]
  /\ \A a \in accounts : g[a].id = a.id /\ g[a].name = a.name /\ g[a].of = a.of
  /\ accounts' = {g[a] : a \in accounts}
  /\ UNCHANGED <<linked, tenantsOf, teamsOf, made>>

Adds(name, role, of) ==
  /\ made < MaxAccounts /\ made' = made + 1
  /\ ~Taken(name)
  /\ accounts' = accounts \cup {Account(made + 1, name, role, of)}
  /\ UNCHANGED <<linked, tenantsOf, teamsOf>>

Loses(id) == Gone(id) /\ UNCHANGED made

RowsChange ==
  \/ UNCHANGED <<accounts, made>>
  \/ \E g \in [accounts -> SomeAccount] : Rewrites(g)
  \/ \E name \in LocalNames \cup Names, role \in Roles, of \in Identities \cup {Local} :
       Adds(name, role, of)
  \/ \E id \in AccountIds : Loses(id)

\* A role or a state of activity written to the row of one id rewrites the table.
LEMMA WritesRewrite ==
  ASSUME RowsOK, NEW id, NEW x \in Roles, NEW v \in BOOLEAN,
         \/ accounts' = {IF a.id = id THEN [a EXCEPT !.role = x] ELSE a : a \in accounts}
         \/ accounts' = {IF a.id = id THEN [a EXCEPT !.active = v] ELSE a : a \in accounts}
         \/ accounts' = {IF a.id = id THEN [a EXCEPT !.active = ~@] ELSE a : a \in accounts},
         UNCHANGED <<linked, tenantsOf, teamsOf, made>>
  PROVE  \E g \in [accounts -> SomeAccount] : Rewrites(g)
<1>1. ASSUME NEW a \in accounts, NEW b,
             \/ b = [a EXCEPT !.role = x]
             \/ b = [a EXCEPT !.active = v]
             \/ b = [a EXCEPT !.active = ~@]
      PROVE  b \in SomeAccount /\ b.id = a.id /\ b.name = a.name /\ b.of = a.of
  <2>1. a \in SomeAccount
    BY DEF RowsOK
  <2>2. a.active \in BOOLEAN /\ (~a.active) \in BOOLEAN
    BY <2>1 DEF SomeAccount
  <2> QED
    BY <1>1, <2>1, <2>2 DEF SomeAccount
<1>2. \A a \in accounts : a \in SomeAccount
  BY DEF RowsOK
<1>3. CASE accounts' = {IF a.id = id THEN [a EXCEPT !.role = x] ELSE a : a \in accounts}
  <2> DEFINE g == [a \in accounts |-> IF a.id = id THEN [a EXCEPT !.role = x] ELSE a]
  <2>1. g \in [accounts -> SomeAccount]
    BY <1>1, <1>2
  <2>2. \A a \in accounts : g[a].id = a.id /\ g[a].name = a.name /\ g[a].of = a.of
    BY <1>1
  <2>3. accounts' = {g[a] : a \in accounts}
    BY <1>3
  <2> HIDE DEF g
  <2> QED
    BY <2>1, <2>2, <2>3 DEF Rewrites
<1>4. CASE accounts' = {IF a.id = id THEN [a EXCEPT !.active = v] ELSE a : a \in accounts}
  <2> DEFINE g == [a \in accounts |-> IF a.id = id THEN [a EXCEPT !.active = v] ELSE a]
  <2>1. g \in [accounts -> SomeAccount]
    BY <1>1, <1>2
  <2>2. \A a \in accounts : g[a].id = a.id /\ g[a].name = a.name /\ g[a].of = a.of
    BY <1>1
  <2>3. accounts' = {g[a] : a \in accounts}
    BY <1>4
  <2> HIDE DEF g
  <2> QED
    BY <2>1, <2>2, <2>3 DEF Rewrites
<1>5. CASE accounts' = {IF a.id = id THEN [a EXCEPT !.active = ~@] ELSE a : a \in accounts}
  <2> DEFINE g == [a \in accounts |-> IF a.id = id THEN [a EXCEPT !.active = ~@] ELSE a]
  <2>1. g \in [accounts -> SomeAccount]
    BY <1>1, <1>2
  <2>2. \A a \in accounts : g[a].id = a.id /\ g[a].name = a.name /\ g[a].of = a.of
    BY <1>1
  <2>3. accounts' = {g[a] : a \in accounts}
    BY <1>5
  <2> HIDE DEF g
  <2> QED
    BY <2>1, <2>2, <2>3 DEF Rewrites
<1> QED
  BY <1>3, <1>4, <1>5

\* Every step changes the table in one of these ways, or leaves it alone.
LEMMA RowsMove ==
  ASSUME RowsOK, RequestsOK, [AccountsNext]_accountVars
  PROVE  RowsChange
<1>1. ASSUME NEW r \in Requests, SignInStep(r)
      PROVE  RowsChange
  <2>1. CASE RefreshAccount(r)
    <3> DEFINE s == signIns[r]
    <3>1. s \in SomeSignIn
      BY <2>1, RequestShapes DEF RefreshAccount, At
    <3>2. s.told.role \in Roles
      BY <3>1 DEF SomeSignIn, Asserts
    <3>3. accounts' = {IF a.id = s.account THEN [a EXCEPT !.role = s.told.role] ELSE a : a \in accounts}
      BY <2>1 DEF RefreshAccount
    <3>4. UNCHANGED <<linked, tenantsOf, teamsOf, made>>
      BY <2>1 DEF RefreshAccount
    <3> HIDE DEF s
    <3>5. \E g \in [accounts -> SomeAccount] : Rewrites(g)
      BY <3>2, <3>3, <3>4, WritesRewrite
    <3> QED
      BY <3>5 DEF RowsChange
  <2>2. CASE CreateAccount(r)
    <3> DEFINE s == signIns[r]
    <3>1. s \in SomeSignIn
      BY <2>2, RequestShapes DEF CreateAccount, At
    <3>2. s.told.role \in Roles /\ s.told.name \in LocalNames \cup Names /\ s.of \in Identities \cup {Local}
      BY <3>1 DEF SomeSignIn, Asserts
    <3>3. \/ UNCHANGED <<accounts, made>>
          \/ Adds(s.told.name, s.told.role, s.of)
      BY <2>2 DEF CreateAccount, Made, Adds
    <3> HIDE DEF s
    <3> QED
      BY <3>2, <3>3 DEF RowsChange
  <2>3. CASE \/ \E i \in Identities : Exchange(r, i)
             \/ FindAccount(r) \/ VerifyAccount(r) \/ UnlinkAccount(r) \/ LinkAccount(r)
             \/ EnterTenants(r) \/ ResolveTeams(r) \/ LeaveTeams(r) \/ JoinTeams(r)
             \/ OpenSession(r) \/ SignInFails(r)
    BY <2>3 DEF Exchange, FindAccount, VerifyAccount, UnlinkAccount, SignInFails, LinkAccount, EnterTenants, ResolveTeams, LeaveTeams,
                JoinTeams, OpenSession, RowsChange
  <2> QED
    BY <1>1, <2>1, <2>2, <2>3 DEF SignInStep
<1>2. ASSUME GateStep
      PROVE  RowsChange
  <2>1. ASSUME NEW i \in Identities, PostChange(i)
        PROVE  RowsChange
    <3> DEFINE id == gate[i].linked
    <3>1. gate[i].role \in Roles
      BY DEF RequestsOK, Asserts
    <3>2. \/ accounts' = {IF a.id = id THEN [a EXCEPT !.role = gate[i].role] ELSE a : a \in accounts}
          \/ accounts' = {IF a.id = id THEN [a EXCEPT !.active = ~@] ELSE a : a \in accounts}
      BY <2>1, Zenon DEF PostChange
    <3>3. UNCHANGED <<linked, tenantsOf, teamsOf, made>>
      BY <2>1 DEF PostChange
    <3> HIDE DEF id
    <3>4. \E g \in [accounts -> SomeAccount] : Rewrites(g)
      BY <3>1, <3>2, <3>3, WritesRewrite
    <3> QED
      BY <3>4 DEF RowsChange
  <2>2. CASE FinishDelete
    <3>1. removal \in AccountIds
      BY <2>2 DEF FinishDelete, RequestsOK, AccountIds
    <3> QED
      BY <2>2, <3>1 DEF FinishDelete, Loses, RowsChange
  <2>3. CASE \/ \E i \in Identities : GateChanges(i) \/ PostDelete(i)
             \/ \E p \in reports : ReportArrives(p) \/ ReportLost(p)
             \/ DeleteFails
    BY <2>3 DEF GateChanges, PostDelete, ReportArrives, ReportLost, DeleteFails, RowsChange
  <2> QED
    BY <1>2, <2>1, <2>2, <2>3 DEF GateStep
<1>3. ASSUME AdminStep
      PROVE  RowsChange
  <2>1. ASSUME NEW f \in Forms, WriteForm(f)
        PROVE  RowsChange
    <3> DEFINE w == forms[f]
    <3>1. w \in SomeForm
      BY <2>1, RequestShapes DEF WriteForm
    <3>2. CASE w.what = "delete"
      <4>1. w.id \in AccountIds
        BY <3>1 DEF SomeForm
      <4>2. Loses(w.id)
        BY <2>1, <3>2 DEF WriteForm, Loses
      <4> QED
        BY <4>1, <4>2 DEF RowsChange
    <3>3. CASE w.what # "delete"
      <4>1. w.what \in {"demote", "promote", "deactivate", "activate"}
        BY <3>1, <3>3 DEF SomeForm
      <4>2. accounts' = {IF a.id = w.id THEN Updated(a, w.what) ELSE a : a \in accounts}
        BY <2>1, <3>3 DEF WriteForm
      <4>3. UNCHANGED <<linked, tenantsOf, teamsOf, made>>
        BY <2>1, <3>3 DEF WriteForm
      <4> HIDE DEF w
      <4>4. \E x \in Roles, v \in BOOLEAN :
              \/ accounts' = {IF a.id = w.id THEN [a EXCEPT !.role = x] ELSE a : a \in accounts}
              \/ accounts' = {IF a.id = w.id THEN [a EXCEPT !.active = v] ELSE a : a \in accounts}
        <5>1. CASE w.what = "demote"
          BY <4>2, <5>1 DEF Updated, Roles
        <5>2. CASE w.what = "promote"
          <6>1. \A a : Updated(a, w.what) = [a EXCEPT !.role = "admin"]
            BY <5>2 DEF Updated
          <6>2. accounts' = {IF a.id = w.id THEN [a EXCEPT !.role = "admin"] ELSE a : a \in accounts}
            BY <4>2, <6>1
          <6> QED
            BY <6>2 DEF Roles
        <5>3. CASE w.what = "deactivate"
          <6>1. \A a : Updated(a, w.what) = [a EXCEPT !.active = FALSE]
            BY <5>3 DEF Updated
          <6>2. accounts' = {IF a.id = w.id THEN [a EXCEPT !.active = FALSE] ELSE a : a \in accounts}
            BY <4>2, <6>1
          <6> QED
            BY <6>2 DEF Roles
        <5>4. CASE w.what = "activate"
          <6>1. \A a : Updated(a, w.what) = [a EXCEPT !.active = TRUE]
            BY <5>4 DEF Updated
          <6>2. accounts' = {IF a.id = w.id THEN [a EXCEPT !.active = TRUE] ELSE a : a \in accounts}
            BY <4>2, <6>1
          <6> QED
            BY <6>2 DEF Roles
        <5> QED
          BY <4>1, <5>1, <5>2, <5>3, <5>4
      <4>5. \E g \in [accounts -> SomeAccount] : Rewrites(g)
        BY <4>3, <4>4, WritesRewrite
      <4> QED
        BY <4>5 DEF RowsChange
    <3> QED
      BY <3>2, <3>3
  <2>2. ASSUME NEW name \in LocalNames, NEW role \in Roles, CreateUser(name, role)
        PROVE  RowsChange
    <3>1. Adds(name, role, Local)
      BY <2>2 DEF CreateUser, Made, Adds
    <3> QED
      BY <3>1 DEF RowsChange
  <2>3. CASE \/ \E f \in Forms, id \in AccountIds,
                  what \in {"demote", "promote", "deactivate", "activate", "delete"} :
                  CheckForm(f, id, what)
             \/ \E id \in AccountIds, T \in SUBSET SomeTenants : SetTenants(id, T)
             \/ \E id \in AccountIds, t \in SomeTenants : AddMember(id, t) \/ RemoveMember(id, t)
             \/ \E t \in Teams, ids \in SUBSET AccountIds : SetMembers(t, ids)
             \/ \E t \in Teams, T \in SUBSET SomeTenants : SetTargetTenants(t, T)
             \/ \E t \in Teams : DeleteTeam(t)
    BY <2>3 DEF CheckForm, SetTenants, AddMember, RemoveMember, SetMembers, SetTargetTenants,
                DeleteTeam, RowsChange
  <2> QED
    BY <1>3, <2>1, <2>2, <2>3 DEF AdminStep
<1>4. CASE Boot
  <2>1. \/ UNCHANGED <<accounts, made>>
        \/ Adds(DefaultName, "admin", Local)
    BY <1>4 DEF Boot, Made, Adds
  <2> QED
    BY <2>1 DEF RowsChange, LocalNames, Roles
<1>5. CASE Crash \/ UNCHANGED accountVars
  BY <1>5 DEF Crash, accountVars, RowsChange
<1> QED
  BY <1>1, <1>2, <1>3, <1>4, <1>5 DEF AccountsNext

\* So ids and names stay unique and no id is given twice.
LEMMA RowsStep ==
  ASSUME RowsOK, RowsChange
  PROVE  RowsOK'
<1>1. CASE UNCHANGED <<accounts, made>>
  BY <1>1 DEF RowsOK
<1>2. ASSUME NEW g \in [accounts -> SomeAccount], Rewrites(g)
      PROVE  RowsOK'
  <2>1. accounts' = {g[a] : a \in accounts} /\ made' = made
    BY <1>2 DEF Rewrites
  <2>2. \A a \in accounts : g[a] \in SomeAccount /\ g[a].id = a.id /\ g[a].name = a.name
    BY <1>2 DEF Rewrites
  <2> QED
    BY <2>1, <2>2 DEF RowsOK
<1>3. ASSUME NEW name \in LocalNames \cup Names, NEW role \in Roles,
             NEW of \in Identities \cup {Local}, Adds(name, role, of)
      PROVE  RowsOK'
  <2> DEFINE b == Account(made + 1, name, role, of)
  <2>1. made \in Nat /\ made + 1 \in AccountIds
    BY <1>3, AccountsAssumption DEF RowsOK, Adds, AccountIds
  <2>2. b \in SomeAccount /\ b.id = made + 1 /\ b.name = name
    BY <2>1 DEF Account, SomeAccount
  <2>3. accounts' = accounts \cup {b} /\ made' = made + 1
    BY <1>3 DEF Adds
  <2>4. \A a \in accounts : a.id # b.id /\ a.name # b.name
    <3>1. \A a \in accounts : a.id \in Nat /\ a.id <= made
      BY DEF RowsOK, SomeAccount, AccountIds
    <3>2. \A a \in accounts : a.name # name
      BY <1>3 DEF Adds, Taken
    <3> QED
      BY <2>1, <2>2, <3>1, <3>2
  <2>5. \A a \in accounts' : a.id <= made'
    <3>1. \A a \in accounts : a.id \in Nat /\ a.id <= made
      BY DEF RowsOK, SomeAccount, AccountIds
    <3> QED
      BY <2>1, <2>2, <2>3, <3>1
  <2>6. made' \in 1 .. MaxAccounts
    BY <2>1, <2>3 DEF AccountIds
  <2> HIDE DEF b
  <2>7. accounts' \subseteq SomeAccount
    BY <2>2, <2>3 DEF RowsOK
  <2>8. \A a, c \in accounts' : a.id = c.id \/ a.name = c.name => a = c
    BY <2>3, <2>4 DEF RowsOK
  <2> QED
    BY <2>5, <2>6, <2>7, <2>8 DEF RowsOK
<1>4. ASSUME NEW id \in AccountIds, Loses(id)
      PROVE  RowsOK'
  BY <1>4 DEF Loses, Gone, RowsOK
<1> QED
  BY <1>1, <1>2, <1>3, <1>4 DEF RowsChange

\* No account loses its id, unless it goes.
LEMMA AccountsStay ==
  ASSUME RowsOK, RowsChange
  PROVE  \/ \E id \in AccountIds : Loses(id)
         \/ \A id : Has(id) => Has(id)'
<1>1. ASSUME NEW g \in [accounts -> SomeAccount], Rewrites(g), NEW id, Has(id)
      PROVE  Has(id)'
  <2>1. PICK a \in accounts : a.id = id
    BY <1>1 DEF Has
  <2>2. g[a] \in accounts' /\ g[a].id = id
    BY <1>1, <2>1 DEF Rewrites
  <2> QED
    BY <2>2 DEF Has
<1>2. ASSUME NEW name, NEW role, NEW of, Adds(name, role, of), NEW id, Has(id)
      PROVE  Has(id)'
  BY <1>2 DEF Adds, Has
<1>3. ASSUME UNCHANGED accounts, NEW id, Has(id)
      PROVE  Has(id)'
  BY <1>3 DEF Has
<1> QED
  BY <1>1, <1>2, <1>3 DEF RowsChange

\* The steps that write what refers to accounts.
KeysWritten ==
  \/ \E r \in Requests : UnlinkAccount(r) \/ LinkAccount(r) \/ EnterTenants(r) \/ LeaveTeams(r) \/ JoinTeams(r)
  \/ \E i \in Identities : PostDelete(i)
  \/ \E id \in AccountIds, T \in SUBSET SomeTenants : SetTenants(id, T)
  \/ \E id \in AccountIds, t \in SomeTenants : AddMember(id, t) \/ RemoveMember(id, t)
  \/ \E t \in Teams, ids \in SUBSET AccountIds : SetMembers(t, ids)
  \/ \E t \in Teams, T \in SUBSET SomeTenants : SetTargetTenants(t, T)
  \/ \E t \in Teams : DeleteTeam(t)

\* A step that does not write what refers to accounts leaves it alone, but for what goes
\* with an account.
LEMMA KeysMove ==
  ASSUME RowsOK, RequestsOK, [AccountsNext]_accountVars
  PROVE  \/ UNCHANGED <<linked, tenantsOf, teamsOf, scope>> /\ \A id : Has(id) => Has(id)'
         \/ \E id \in AccountIds : Loses(id) /\ UNCHANGED scope
         \/ KeysWritten /\ UNCHANGED <<accounts, made>>
<1>1. RowsChange
  BY RowsMove
<1>2. \/ \E id \in AccountIds : Loses(id)
      \/ \A id : Has(id) => Has(id)'
  BY <1>1, AccountsStay
<1>3. CASE KeysWritten
  BY <1>3 DEF KeysWritten, UnlinkAccount, LinkAccount, EnterTenants, LeaveTeams, JoinTeams, PostDelete,
              SetTenants, AddMember, RemoveMember, SetMembers, SetTargetTenants, DeleteTeam
<1>4. CASE ~KeysWritten
  <2>1. \/ UNCHANGED <<linked, tenantsOf, teamsOf, scope>>
        \/ (\E id \in AccountIds : Loses(id)) /\ UNCHANGED scope
    <3>1. ASSUME NEW r \in Requests, SignInStep(r)
          PROVE  UNCHANGED <<linked, tenantsOf, teamsOf, scope>>
      BY <1>4, <3>1 DEF KeysWritten, SignInStep, Exchange, FindAccount, VerifyAccount, RefreshAccount,
                        SignInFails, CreateAccount, ResolveTeams, OpenSession
    <3>2. ASSUME GateStep
          PROVE  \/ UNCHANGED <<linked, tenantsOf, teamsOf, scope>>
                 \/ (\E id \in AccountIds : Loses(id)) /\ UNCHANGED scope
      <4>1. CASE FinishDelete
        <5>1. removal \in AccountIds
          BY <4>1 DEF FinishDelete, RequestsOK, AccountIds
        <5> QED
          BY <4>1, <5>1 DEF FinishDelete, Loses
      <4>2. CASE \/ \E i \in Identities : GateChanges(i) \/ PostChange(i)
                 \/ \E p \in reports : ReportArrives(p) \/ ReportLost(p)
                 \/ DeleteFails
        BY <4>2 DEF GateChanges, PostChange, ReportArrives, ReportLost, DeleteFails
      <4> QED
        BY <1>4, <3>2, <4>1, <4>2 DEF GateStep, KeysWritten
    <3>3. ASSUME AdminStep
          PROVE  \/ UNCHANGED <<linked, tenantsOf, teamsOf, scope>>
                 \/ (\E id \in AccountIds : Loses(id)) /\ UNCHANGED scope
      <4>1. ASSUME NEW f \in Forms, WriteForm(f)
            PROVE  \/ UNCHANGED <<linked, tenantsOf, teamsOf, scope>>
                   \/ (\E id \in AccountIds : Loses(id)) /\ UNCHANGED scope
        <5>1. forms[f].id \in AccountIds
          BY <4>1, RequestShapes DEF WriteForm, SomeForm
        <5> QED
          BY <4>1, <5>1 DEF WriteForm, Loses
      <4>2. CASE \/ \E f \in Forms, id \in AccountIds,
                      what \in {"demote", "promote", "deactivate", "activate", "delete"} :
                      CheckForm(f, id, what)
                 \/ \E name \in LocalNames, role \in Roles : CreateUser(name, role)
        BY <4>2 DEF CheckForm, CreateUser
      <4> QED
        BY <1>4, <3>3, <4>1, <4>2 DEF AdminStep, KeysWritten
    <3>4. ASSUME Boot \/ Crash \/ UNCHANGED accountVars
          PROVE  UNCHANGED <<linked, tenantsOf, teamsOf, scope>>
      BY <3>4 DEF Boot, Crash, accountVars
    <3> QED
      BY <3>1, <3>2, <3>3, <3>4 DEF AccountsNext
  <2> QED
    BY <1>2, <2>1
<1> QED
  BY <1>3, <1>4

\* A membership of an account that exists is one.
LEMMA KeysStep ==
  ASSUME RowsOK, KeysOK, RequestsOK, [AccountsNext]_accountVars
  PROVE  KeysOK'
<1> DEFINE Ids == {a.id : a \in accounts}
<1>1. \A id : id \in Ids <=> Has(id)
  BY DEF Has
<1>2. CASE UNCHANGED <<linked, tenantsOf, teamsOf, scope>> /\ \A id : Has(id) => Has(id)'
  <2>1. Ids \subseteq Ids'
    BY <1>2 DEF Has
  <2> QED
    BY <1>2, <2>1 DEF KeysOK
<1>3. ASSUME NEW id \in AccountIds, Loses(id), UNCHANGED scope
      PROVE  KeysOK'
  <2>1. \A k : Has(k) /\ k # id => Has(k)'
    BY <1>3 DEF Loses, Gone, Has
  <2>2. \A k : k \in Ids /\ k # id => k \in Ids'
    BY <1>3 DEF Loses, Gone
  <2>3. linked' \in [Identities -> 0 .. MaxAccounts] /\ \A i \in Identities : linked'[i] # 0 => Has(linked[i])' /\ linked'[i] = linked[i]
    <3>1. linked' = [i \in Identities |-> IF linked[i] = id THEN 0 ELSE linked[i]]
      BY <1>3 DEF Loses, Gone
    <3>2. 0 \in 0 .. MaxAccounts
      BY AccountsAssumption
    <3> QED
      BY <2>1, <3>1, <3>2 DEF KeysOK
  <2>4. tenantsOf' \subseteq Ids' \X SomeTenants
    <3>1. tenantsOf' = {m \in tenantsOf : m[1] # id}
      BY <1>3 DEF Loses, Gone
    <3> QED
      BY <2>2, <3>1 DEF KeysOK
  <2>5. teamsOf' \subseteq Ids' \X {t \in Teams : scope[t] # {}}
    <3>1. teamsOf' = {m \in teamsOf : m[1] # id}
      BY <1>3 DEF Loses, Gone
    <3> QED
      BY <2>2, <3>1 DEF KeysOK
  <2> QED
    BY <1>3, <2>3, <2>4, <2>5 DEF KeysOK
<1>4. CASE KeysWritten /\ UNCHANGED <<accounts, made>>
  <2>1. Ids' = Ids /\ \A id : Has(id)' = Has(id)
    BY <1>4 DEF Has
  <2>2. ASSUME NEW r \in Requests, LinkAccount(r)
        PROVE  KeysOK'
    <3>1. signIns[r] \in SomeSignIn
      BY <2>2, RequestShapes DEF LinkAccount, At
    <3>2. signIns[r].of \in Identities /\ signIns[r].account \in 0 .. MaxAccounts
      BY <3>1 DEF SomeSignIn
    <3>3. \/ UNCHANGED linked
          \/ Has(signIns[r].account) /\ linked' = [linked EXCEPT ![signIns[r].of] = signIns[r].account]
      BY <2>2 DEF LinkAccount
    <3>4. UNCHANGED <<tenantsOf, teamsOf, scope>>
      BY <2>2 DEF LinkAccount
    <3>5. linked' \in [Identities -> 0 .. MaxAccounts] /\ \A i \in Identities : linked'[i] # 0 => Has(linked'[i])
      BY <3>2, <3>3 DEF KeysOK
    <3>6. \A i \in Identities : linked'[i] # 0 => Has(linked[i])'
      BY <1>4, <3>5 DEF Has
    <3> QED
      BY <1>4, <3>4, <3>5, <3>6 DEF KeysOK
  <2>3. ASSUME NEW r \in Requests, EnterTenants(r) \/ LeaveTeams(r) \/ JoinTeams(r)
        PROVE  KeysOK'
    <3> DEFINE s == signIns[r]
    <3>1. s \in SomeSignIn
      BY <2>3, RequestShapes DEF EnterTenants, LeaveTeams, JoinTeams, At
    <3>2. s.told.tenants \subseteq SomeTenants /\ s.teams \subseteq Teams
      BY <3>1 DEF SomeSignIn, Asserts
    <3>3. UNCHANGED <<linked, scope>>
      BY <2>3 DEF EnterTenants, LeaveTeams, JoinTeams
    <3>4. \/ UNCHANGED tenantsOf
          \/ s.account \in Ids /\ tenantsOf' = tenantsOf \cup ({s.account} \X s.told.tenants)
      BY <1>1, <2>3 DEF EnterTenants, LeaveTeams, JoinTeams
    <3>5. \/ teamsOf' \subseteq teamsOf
          \/ /\ s.teams = {} \/ (s.account \in Ids /\ \A t \in s.teams : scope[t] # {})
             /\ teamsOf' = teamsOf \cup ({s.account} \X s.teams)
      BY <1>1, <2>3 DEF EnterTenants, LeaveTeams, JoinTeams
    <3> HIDE DEF s
    <3>6. tenantsOf' \subseteq Ids \X SomeTenants
      BY <3>2, <3>4 DEF KeysOK
    <3>7. teamsOf' \subseteq Ids \X {t \in Teams : scope[t] # {}}
      BY <3>2, <3>5 DEF KeysOK
    <3> QED
      BY <2>1, <3>3, <3>6, <3>7 DEF KeysOK
  <2>4. ASSUME NEW i \in Identities, PostDelete(i)
        PROVE  KeysOK'
    <3>1. 0 \in 0 .. MaxAccounts
      BY AccountsAssumption
    <3>2. linked' = [j \in Identities |-> IF linked[j] = gate[i].linked THEN 0 ELSE linked[j]]
      BY <2>4 DEF PostDelete
    <3>3. UNCHANGED <<tenantsOf, teamsOf, scope>>
      BY <2>4 DEF PostDelete
    <3>4. linked' \in [Identities -> 0 .. MaxAccounts] /\ \A j \in Identities : linked'[j] # 0 => Has(linked'[j])
      BY <3>1, <3>2 DEF KeysOK
    <3>5. \A j \in Identities : linked'[j] # 0 => Has(linked[j])'
      BY <1>4, <3>4 DEF Has
    <3> QED
      BY <1>4, <3>3, <3>4, <3>5 DEF KeysOK
  <2>5. ASSUME NEW id \in AccountIds, NEW T \in SUBSET SomeTenants, SetTenants(id, T)
        PROVE  KeysOK'
    <3>1. id \in Ids
      BY <1>1, <2>5 DEF SetTenants
    <3>2. tenantsOf' = {m \in tenantsOf : m[1] # id} \cup ({id} \X T)
      BY <2>5 DEF SetTenants
    <3>3. tenantsOf' \subseteq Ids \X SomeTenants
      BY <3>1, <3>2 DEF KeysOK
    <3> QED
      BY <2>1, <2>5, <3>3 DEF SetTenants, KeysOK
  <2>6. ASSUME NEW id \in AccountIds, NEW t \in SomeTenants, AddMember(id, t) \/ RemoveMember(id, t)
        PROVE  KeysOK'
    <3>1. \/ tenantsOf' \subseteq tenantsOf
          \/ id \in Ids /\ tenantsOf' = tenantsOf \cup {<<id, t>>}
      BY <1>1, <2>6 DEF AddMember, RemoveMember
    <3>2. tenantsOf' \subseteq Ids \X SomeTenants
      BY <3>1 DEF KeysOK
    <3> QED
      BY <2>1, <2>6, <3>2 DEF AddMember, RemoveMember, KeysOK
  <2>7. ASSUME NEW t \in Teams, NEW ids \in SUBSET AccountIds, SetMembers(t, ids)
        PROVE  KeysOK'
    <3>1. ids \subseteq Ids /\ scope[t] # {}
      BY <1>1, <2>7 DEF SetMembers
    <3>2. teamsOf' = {m \in teamsOf : m[2] # t} \cup (ids \X {t})
      BY <2>7 DEF SetMembers
    <3>3. teamsOf' \subseteq Ids \X {u \in Teams : scope[u] # {}}
      BY <3>1, <3>2 DEF KeysOK
    <3> QED
      BY <2>1, <2>7, <3>3 DEF SetMembers, KeysOK
  <2>8. ASSUME NEW t \in Teams, NEW T \in SUBSET SomeTenants, SetTargetTenants(t, T)
        PROVE  KeysOK'
    <3>1. scope' = [scope EXCEPT ![t] = {1} \cup T] /\ {1} \cup T \in SUBSET SomeTenants
      BY <2>8 DEF SetTargetTenants, SomeTenants
    <3>2. scope' \in [Teams -> SUBSET SomeTenants] /\ \A u \in Teams : scope[u] # {} => scope'[u] # {}
      BY <3>1 DEF KeysOK
    <3>3. teamsOf \subseteq Ids \X {u \in Teams : scope'[u] # {}}
      BY <3>2 DEF KeysOK
    <3> QED
      BY <2>1, <2>8, <3>2, <3>3 DEF SetTargetTenants, KeysOK
  <2>9. ASSUME NEW t \in Teams, DeleteTeam(t)
        PROVE  KeysOK'
    <3>1. scope' = [scope EXCEPT ![t] = {}] /\ teamsOf' = {m \in teamsOf : m[2] # t}
      BY <2>9 DEF DeleteTeam
    <3>2. scope' \in [Teams -> SUBSET SomeTenants] /\ \A u \in Teams : u # t => scope'[u] = scope[u]
      BY <3>1 DEF KeysOK
    <3>3. teamsOf' \subseteq Ids \X {u \in Teams : scope'[u] # {}}
      BY <3>1, <3>2 DEF KeysOK
    <3> QED
      BY <2>1, <2>9, <3>2, <3>3 DEF DeleteTeam, KeysOK
  <2>10. ASSUME NEW r \in Requests, UnlinkAccount(r)
         PROVE  KeysOK'
    <3>1. UNCHANGED <<tenantsOf, teamsOf, scope>>
      BY <2>10 DEF UnlinkAccount
    <3>2. linked' = [linked EXCEPT ![signIns[r].of] = 0]
      BY <2>10 DEF UnlinkAccount
    <3>3. linked' \in [Identities -> 0 .. MaxAccounts]
      <4>1. 0 \in 0 .. MaxAccounts
        BY AccountsAssumption
      <4> QED
        BY <3>2, <4>1 DEF KeysOK
    <3>4. \A i \in Identities : linked'[i] # 0 => Has(linked'[i])
      BY <3>2 DEF KeysOK
    <3>5. \A i \in Identities : linked'[i] # 0 => Has(linked[i])'
      BY <1>4, <3>4 DEF Has
    <3> QED
      BY <1>4, <3>1, <3>3, <3>5 DEF KeysOK
  <2> QED
    BY <1>4, <2>2, <2>3, <2>4, <2>5, <2>6, <2>7, <2>8, <2>9, <2>10 DEF KeysWritten
<1> QED
  BY <1>2, <1>3, <1>4, KeysMove

\* The step of a sign-in leaves what is under way well formed.
LEMMA SignInType ==
  ASSUME RowsOK, KeysOK, RequestsOK, NEW r \in Requests, SignInStep(r)
  PROVE  RequestsOK'
<1> DEFINE s == signIns[r]
<1>1. /\ \A pc \in {"find", "verify", "unlink", "refresh", "create", "link", "tenants", "resolve", "leave",
                    "join", "session"} : signIns[r].pc # "idle" => To(r, pc) \in SomeSignIn
      /\ \A q \in SomeSignIn \cup {AtRest} :
           Becomes(r, q) => signIns' \in [Requests -> SomeSignIn \cup {AtRest}]
  BY ToType, BecomesType
<1>2. AtRest \in SomeSignIn \cup {AtRest} /\ 0 \in 0 .. MaxAccounts
  BY AccountsAssumption
<1>3. ASSUME NEW i \in Identities, Exchange(r, i)
      PROVE  RequestsOK'
  <2>1. left' \in [signIns : Nat, gate : Nat, admin : Nat, crashes : Nat]
    BY <1>3, SpendType DEF Exchange
  <2>2. teamsOf \in SUBSET (AccountIds \X Teams)
    BY DEF KeysOK, RowsOK, SomeAccount
  <2>3. gate[i] \in Asserts
    BY DEF RequestsOK
  <2>4. [pc |-> "find", of |-> i, told |-> gate[i], account |-> 0, teams |-> {}, stale |-> {},
         alone |-> TRUE, had |-> teamsOf] \in SomeSignIn
    BY <1>2, <2>2, <2>3 DEF SomeSignIn
  <2>5. signIns' \in [Requests -> SomeSignIn \cup {AtRest}]
    BY <1>3, <2>4 DEF Exchange, RequestsOK
  <2> QED
    BY <1>3, <2>1, <2>5 DEF Exchange, RequestsOK
<1>4. CASE FindAccount(r)
  <2>1. s \in SomeSignIn
    BY <1>4, RequestShapes DEF FindAccount, At
  <2>2. /\ s.of \in Identities /\ s.told.linked \in 0 .. MaxAccounts
        /\ linked[s.of] \in 0 .. MaxAccounts
    BY <2>1 DEF SomeSignIn, Asserts, KeysOK
  <2>3. \A pc \in {"refresh", "create", "verify"}, id \in 0 .. MaxAccounts :
          [s EXCEPT !.pc = pc, !.account = id] \in SomeSignIn
    BY <2>1 DEF SomeSignIn
  <2>4. \E pc \in {"refresh", "create", "verify"}, id \in 0 .. MaxAccounts :
          signIns' = [signIns EXCEPT ![r] = [s EXCEPT !.pc = pc, !.account = id]]
    <3>1. ASSUME NEW pc, NEW id, signIns' = [signIns EXCEPT ![r].pc = pc, ![r].account = id]
          PROVE  signIns' = [signIns EXCEPT ![r] = [s EXCEPT !.pc = pc, !.account = id]]
      BY <3>1 DEF RequestsOK
    <3>2. s.account \in 0 .. MaxAccounts
      BY <2>1 DEF SomeSignIn
    <3>3. \/ signIns' = [signIns EXCEPT ![r].pc = "refresh", ![r].account = s.told.linked]
          \/ signIns' = [signIns EXCEPT ![r].pc = "create", ![r].account = s.account]
          \/ signIns' = [signIns EXCEPT ![r].pc = "verify", ![r].account = linked[s.of]]
      BY <1>4 DEF FindAccount
    <3>4. \/ signIns' = [signIns EXCEPT ![r] = [s EXCEPT !.pc = "refresh", !.account = s.told.linked]]
          \/ signIns' = [signIns EXCEPT ![r] = [s EXCEPT !.pc = "create", !.account = s.account]]
          \/ signIns' = [signIns EXCEPT ![r] = [s EXCEPT !.pc = "verify", !.account = linked[s.of]]]
      BY <3>1, <3>3
    <3> HIDE DEF s
    <3> QED
      BY <2>2, <3>2, <3>4
  <2>5. signIns' \in [Requests -> SomeSignIn \cup {AtRest}]
    <3>1. PICK pc \in {"refresh", "create", "verify"}, id \in 0 .. MaxAccounts :
            signIns' = [signIns EXCEPT ![r] = [s EXCEPT !.pc = pc, !.account = id]]
      BY <2>4
    <3>2. [s EXCEPT !.pc = pc, !.account = id] \in SomeSignIn
      BY <2>3
    <3> HIDE DEF s
    <3> QED
      BY <3>1, <3>2 DEF RequestsOK
  <2>6. reports' \subseteq Identities \X (0 .. MaxAccounts)
    BY <1>2, <1>4, <2>2 DEF FindAccount, RequestsOK
  <2> QED
    BY <1>4, <2>5, <2>6 DEF FindAccount, RequestsOK
<1>5. CASE RefreshAccount(r)
  <2>1. signIns' \in [Requests -> SomeSignIn \cup {AtRest}]
    BY <1>1, <1>5 DEF RefreshAccount, At
  <2> QED
    BY <1>5, <2>1 DEF RefreshAccount, RequestsOK
<1>6. CASE CreateAccount(r)
  <2>1. To(r, "link") \in SomeSignIn
    BY <1>1, <1>6 DEF CreateAccount, At
  <2>2. made < MaxAccounts => made + 1 \in 0 .. MaxAccounts
    BY AccountsAssumption DEF RowsOK
  <2>3. made < MaxAccounts => [To(r, "link") EXCEPT !.account = made + 1] \in SomeSignIn
    BY <2>1, <2>2 DEF SomeSignIn
  <2>4. signIns' \in [Requests -> SomeSignIn \cup {AtRest}]
    BY <1>1, <1>2, <1>6, <2>3 DEF CreateAccount, Made
  <2>5. {a.of : a \in accounts} \subseteq Identities \cup {Local}
    BY DEF RowsOK, SomeAccount
  <2>6. stranded' \subseteq Identities \cup {Local}
    BY <1>6, <2>5 DEF CreateAccount, RequestsOK
  <2> QED
    BY <1>6, <2>4, <2>6 DEF CreateAccount, RequestsOK
<1>7. CASE LinkAccount(r)
  <2>1. s \in SomeSignIn
    BY <1>7, RequestShapes DEF LinkAccount, At
  <2>2. s.of \in Identities /\ s.account \in 0 .. MaxAccounts
    BY <2>1 DEF SomeSignIn
  <2>3. signIns' \in [Requests -> SomeSignIn \cup {AtRest}]
    BY <1>1, <1>2, <1>7 DEF LinkAccount, At
  <2>4. reports' \subseteq Identities \X (0 .. MaxAccounts)
    BY <1>7, <2>2 DEF LinkAccount, RequestsOK
  <2> QED
    BY <1>7, <2>3, <2>4 DEF LinkAccount, RequestsOK
<1>8. CASE EnterTenants(r)
  <2>1. s \in SomeSignIn
    BY <1>8, RequestShapes DEF EnterTenants, At
  <2>2. [s EXCEPT !.pc = "session"] \in SomeSignIn
    BY <2>1 DEF SomeSignIn
  <2>3. signIns' = [signIns EXCEPT ![r].pc = "session"] =>
          signIns' = [signIns EXCEPT ![r] = [s EXCEPT !.pc = "session"]]
    BY DEF RequestsOK
  <2>4. signIns' \in [Requests -> SomeSignIn \cup {AtRest}]
    BY <1>1, <1>2, <1>8, <2>2, <2>3 DEF EnterTenants, At, RequestsOK
  <2> QED
    BY <1>8, <2>4 DEF EnterTenants, RequestsOK
<1>9. CASE ResolveTeams(r)
  <2>1. s \in SomeSignIn
    BY <1>9, RequestShapes DEF ResolveTeams, At
  <2>2. Asserted(s) \subseteq Teams /\ InScope(s) \ Asserted(s) \subseteq Teams
    BY DEF Asserted, InScope
  <2>3. [s EXCEPT !.pc = "leave", !.teams = Asserted(s), !.stale = InScope(s) \ Asserted(s)]
          \in SomeSignIn
    BY <2>1, <2>2 DEF SomeSignIn
  <2>4. signIns' = [signIns EXCEPT ![r] =
          [s EXCEPT !.pc = "leave", !.teams = Asserted(s), !.stale = InScope(s) \ Asserted(s)]]
    BY <1>9 DEF ResolveTeams, RequestsOK
  <2>5. signIns' \in [Requests -> SomeSignIn \cup {AtRest}]
    BY <2>3, <2>4 DEF RequestsOK
  <2> QED
    BY <1>9, <2>5 DEF ResolveTeams, RequestsOK
<1>10. CASE LeaveTeams(r) \/ JoinTeams(r)
  <2>1. signIns' \in [Requests -> SomeSignIn \cup {AtRest}]
    BY <1>1, <1>2, <1>10 DEF LeaveTeams, JoinTeams, At
  <2> QED
    BY <1>10, <2>1 DEF LeaveTeams, JoinTeams, RequestsOK
<1>11. CASE OpenSession(r)
  <2>1. signIns' \in [Requests -> SomeSignIn \cup {AtRest}]
    BY <1>2, <1>11 DEF OpenSession, RequestsOK
  <2> QED
    BY <1>11, <2>1 DEF OpenSession, RequestsOK
<1>12. CASE VerifyAccount(r)
  <2>1. s \in SomeSignIn
    BY <1>12, RequestShapes DEF VerifyAccount, At
  <2>2. \A pc \in {"refresh", "unlink"} : [s EXCEPT !.pc = pc] \in SomeSignIn
    BY <2>1 DEF SomeSignIn
  <2>3. \E pc \in {"refresh", "unlink"} : signIns' = [signIns EXCEPT ![r] = [s EXCEPT !.pc = pc]]
    BY <1>12 DEF VerifyAccount, RequestsOK
  <2>4. signIns' \in [Requests -> SomeSignIn \cup {AtRest}]
    BY <2>2, <2>3 DEF RequestsOK
  <2> QED
    BY <1>12, <2>4 DEF VerifyAccount, RequestsOK
<1>13. CASE UnlinkAccount(r)
  <2>1. s \in SomeSignIn
    BY <1>13, RequestShapes DEF UnlinkAccount, At
  <2>2. s.of \in Identities
    BY <2>1 DEF SomeSignIn
  <2>3. signIns' \in [Requests -> SomeSignIn \cup {AtRest}]
    BY <1>1, <1>13 DEF UnlinkAccount, At
  <2> QED
    BY <1>13, <2>2, <2>3 DEF UnlinkAccount, RequestsOK
<1>14. CASE SignInFails(r)
  <2>1. left' \in [signIns : Nat, gate : Nat, admin : Nat, crashes : Nat]
    BY <1>14, SpendType DEF SignInFails
  <2>2. s \in SomeSignIn
    BY <1>14, RequestShapes DEF SignInFails
  <2>3. stranded' \subseteq Identities \cup {Local}
    BY <1>14, <2>2 DEF SignInFails, Unlinked, RequestsOK, SomeSignIn
  <2>4. signIns' \in [Requests -> SomeSignIn \cup {AtRest}]
    BY <1>2, <1>14 DEF SignInFails, RequestsOK
  <2> QED
    BY <1>14, <2>1, <2>3, <2>4 DEF SignInFails, RequestsOK
<1> QED
  BY <1>3, <1>4, <1>5, <1>6, <1>7, <1>8, <1>9, <1>10, <1>11, <1>12, <1>13, <1>14 DEF SignInStep

\* So does every step of anyone.
LEMMA RequestsStep ==
  ASSUME RowsOK, KeysOK, RequestsOK, [AccountsNext]_accountVars
  PROVE  RequestsOK'
<1>1. /\ 0 \in 0 .. MaxAccounts /\ AtRest \in SomeSignIn \cup {AtRest}
      /\ AtRest \in SomeForm \cup {AtRest}
  BY AccountsAssumption
<1>2. Interrupted => signIns' \in [Requests -> SomeSignIn \cup {AtRest}]
  BY <1>1, BecomesType DEF Interrupted
<1>3. \A what \in {"signIns", "gate", "admin", "crashes"} :
        Spend(what) => left' \in [signIns : Nat, gate : Nat, admin : Nat, crashes : Nat]
  BY SpendType
<1>4. ASSUME NEW r \in Requests, SignInStep(r)
      PROVE  RequestsOK'
  BY <1>4, SignInType
<1>5. ASSUME NEW i \in Identities, GateChanges(i)
      PROVE  RequestsOK'
  <2>1. left' \in [signIns : Nat, gate : Nat, admin : Nat, crashes : Nat]
    BY <1>3, <1>5 DEF GateChanges, GateEdits
  <2>2. {} \in SUBSET SomeTenants /\ {2} \in SUBSET SomeTenants /\ SomeTenants \in SUBSET SomeTenants
    BY DEF SomeTenants
  <2> DEFINE g == gate[i]
  <2>3. g \in Asserts
    BY DEF RequestsOK
  <2>4. \/ \E n \in Names : gate' = [gate EXCEPT ![i] = [g EXCEPT !.name = n]]
        \/ \E x \in Roles : gate' = [gate EXCEPT ![i] = [g EXCEPT !.role = x]]
        \/ \E T \in SUBSET SomeTenants : gate' = [gate EXCEPT ![i] = [g EXCEPT !.tenants = T]]
        \/ \E T \in SUBSET Teams : gate' = [gate EXCEPT ![i] = [g EXCEPT !.teams = T]]
    BY <1>5, <2>2 DEF GateChanges, RequestsOK
  <2> HIDE DEF g
  <2>5. \E h \in Asserts : gate' = [gate EXCEPT ![i] = h]
    <3>1. /\ \A n \in Names : [g EXCEPT !.name = n] \in Asserts
          /\ \A x \in Roles : [g EXCEPT !.role = x] \in Asserts
          /\ \A T \in SUBSET SomeTenants : [g EXCEPT !.tenants = T] \in Asserts
          /\ \A T \in SUBSET Teams : [g EXCEPT !.teams = T] \in Asserts
      BY <2>3 DEF Asserts
    <3> QED
      BY <2>4, <3>1
  <2>6. gate' \in [Identities -> Asserts]
    BY <2>5 DEF RequestsOK
  <2> QED
    BY <1>5, <2>1, <2>6 DEF GateChanges, RequestsOK
<1>6. ASSUME NEW i \in Identities, PostChange(i) \/ PostDelete(i)
      PROVE  RequestsOK'
  <2>1. left' \in [signIns : Nat, gate : Nat, admin : Nat, crashes : Nat]
    BY <1>3, <1>6 DEF PostChange, PostDelete, GateEdits
  <2>2. signIns' \in [Requests -> SomeSignIn \cup {AtRest}]
    BY <1>2, <1>6 DEF PostChange, PostDelete
  <2>3. gate[i].linked \in 0 .. MaxAccounts
    BY DEF RequestsOK, Asserts
  <2> QED
    BY <1>6, <2>1, <2>2, <2>3 DEF PostChange, PostDelete, RequestsOK
<1>7. ASSUME NEW p \in reports, ReportArrives(p) \/ ReportLost(p)
      PROVE  RequestsOK'
  <2>1. p \in Identities \X (0 .. MaxAccounts)
    BY DEF RequestsOK
  <2>2. p[1] \in Identities /\ p[2] \in 0 .. MaxAccounts
    BY <2>1
  <2> DEFINE g == gate[p[1]]
  <2>3. g \in Asserts
    BY <2>2 DEF RequestsOK
  <2>4. [g EXCEPT !.linked = p[2]] \in Asserts
    BY <2>2, <2>3 DEF Asserts
  <2>5. gate' = gate \/ gate' = [gate EXCEPT ![p[1]] = [g EXCEPT !.linked = p[2]]]
    BY <1>7, <2>2 DEF ReportArrives, ReportLost, RequestsOK
  <2> HIDE DEF g
  <2>6. gate' \in [Identities -> Asserts]
    BY <2>2, <2>4, <2>5 DEF RequestsOK
  <2> QED
    BY <1>7, <2>6 DEF ReportArrives, ReportLost, RequestsOK
<1>8. CASE FinishDelete
  BY <1>1, <1>2, <1>8 DEF FinishDelete, RequestsOK
<1>9. ASSUME NEW f \in Forms, NEW id \in AccountIds,
             NEW what \in {"demote", "promote", "deactivate", "activate", "delete"},
             CheckForm(f, id, what)
      PROVE  RequestsOK'
  <2>1. left' \in [signIns : Nat, gate : Nat, admin : Nat, crashes : Nat]
    BY <1>3, <1>9 DEF CheckForm, AdminEdits
  <2>2. ActiveAdmins \subseteq AccountIds
    BY DEF ActiveAdmins, RowsOK, SomeAccount
  <2>3. [pc |-> "write", id |-> id, what |-> what, saw |-> ActiveAdmins] \in SomeForm
    BY <2>2 DEF SomeForm
  <2>4. forms' \in [Forms -> SomeForm \cup {AtRest}]
    BY <1>9, <2>3 DEF CheckForm, RequestsOK
  <2> QED
    BY <1>9, <2>1, <2>4 DEF CheckForm, RequestsOK
<1>10. ASSUME NEW f \in Forms, WriteForm(f)
       PROVE  RequestsOK'
  <2>1. signIns' \in [Requests -> SomeSignIn \cup {AtRest}]
    BY <1>2, <1>10 DEF WriteForm
  <2>2. forms' \in [Forms -> SomeForm \cup {AtRest}]
    BY <1>1, <1>10 DEF WriteForm, RequestsOK
  <2> QED
    BY <1>10, <2>1, <2>2 DEF WriteForm, RequestsOK
<1>11. ASSUME NEW name, NEW role, CreateUser(name, role)
       PROVE  RequestsOK'
  <2>1. left' \in [signIns : Nat, gate : Nat, admin : Nat, crashes : Nat]
    BY <1>3, <1>11 DEF CreateUser, AdminEdits
  <2> QED
    BY <1>11, <2>1 DEF CreateUser, RequestsOK
<1>12. CASE \/ \E id \in AccountIds, T \in SUBSET SomeTenants : SetTenants(id, T)
            \/ \E id \in AccountIds, t \in SomeTenants : AddMember(id, t) \/ RemoveMember(id, t)
            \/ \E t \in Teams, ids \in SUBSET AccountIds : SetMembers(t, ids)
            \/ \E t \in Teams, T \in SUBSET SomeTenants : SetTargetTenants(t, T)
            \/ \E t \in Teams : DeleteTeam(t)
  <2>1. Spend("admin") /\ Interrupted
    BY <1>12 DEF SetTenants, AddMember, RemoveMember, SetMembers, SetTargetTenants, DeleteTeam,
                 AdminEdits
  <2>2. left' \in [signIns : Nat, gate : Nat, admin : Nat, crashes : Nat]
    BY <1>3, <2>1
  <2>3. signIns' \in [Requests -> SomeSignIn \cup {AtRest}]
    BY <1>2, <2>1
  <2>4. UNCHANGED <<gate, reports, forms, removal, running, stranded>>
    BY <1>12 DEF SetTenants, AddMember, RemoveMember, SetMembers, SetTargetTenants, DeleteTeam
  <2> QED
    BY <2>2, <2>3, <2>4 DEF RequestsOK
<1>13. CASE Crash
  <2>1. left' \in [signIns : Nat, gate : Nat, admin : Nat, crashes : Nat]
    BY <1>3, <1>13 DEF Crash
  <2>2. \A r \in Requests : signIns[r].pc = "link" => signIns[r].of \in Identities
    BY RequestShapes DEF SomeSignIn
  <2>3. \A a \in accounts : a.of \in Identities \cup {Local}
    BY DEF RowsOK, SomeAccount
  <2>4. stranded' \subseteq Identities \cup {Local}
    <3>1. \A r \in Requests : Unlinked(r) \subseteq Identities
      BY <2>2 DEF Unlinked
    <3>2. Removing \subseteq Identities \cup {Local}
      BY <2>3 DEF Removing
    <3>3. stranded' = stranded \cup Removing \cup UNION {Unlinked(r) : r \in Requests}
      BY <1>13 DEF Crash
    <3>4. stranded \subseteq Identities \cup {Local}
      BY DEF RequestsOK
    <3> QED
      BY <3>1, <3>2, <3>3, <3>4
  <2>5. signIns' \in [Requests -> SomeSignIn \cup {AtRest}] /\ forms' \in [Forms -> SomeForm \cup {AtRest}]
    BY <1>1, <1>13 DEF Crash
  <2> QED
    BY <1>1, <1>13, <2>1, <2>4, <2>5 DEF Crash, RequestsOK
<1>14. CASE Boot \/ UNCHANGED accountVars
  BY <1>14 DEF Boot, accountVars, RequestsOK
<1>17. CASE DeleteFails
  <2>1. left' \in [signIns : Nat, gate : Nat, admin : Nat, crashes : Nat]
    BY <1>3, <1>17 DEF DeleteFails
  <2>2. \A a \in accounts : a.of \in Identities \cup {Local}
    BY DEF RowsOK, SomeAccount
  <2>3. stranded' \subseteq Identities \cup {Local}
    BY <1>17, <2>2 DEF DeleteFails, Removing, RequestsOK
  <2>4. 0 \in 0 .. MaxAccounts
    BY AccountsAssumption
  <2> QED
    BY <1>17, <2>1, <2>3, <2>4 DEF DeleteFails, RequestsOK
<1>15. ASSUME GateStep
       PROVE  RequestsOK'
  BY <1>5, <1>6, <1>7, <1>8, <1>15, <1>17 DEF GateStep
<1>16. ASSUME AdminStep
       PROVE  RequestsOK'
  BY <1>9, <1>10, <1>11, <1>12, <1>16 DEF AdminStep
<1> QED
  BY <1>4, <1>13, <1>14, <1>15, <1>16 DEF AccountsNext

\* A server with its first administrator is well formed.
LEMMA AccountsInitType ==
  ASSUME AccountsInit
  PROVE  AccountsTypeOK
<1>1. 0 \in 0 .. MaxAccounts /\ 1 \in AccountIds /\ 1 \in 1 .. MaxAccounts
  BY AccountsAssumption DEF AccountIds
<1>2. Account(1, DefaultName, "admin", Local) \in SomeAccount
  BY <1>1 DEF Account, SomeAccount, LocalNames, Roles
<1>3. RowsOK
  <2>1. Account(1, DefaultName, "admin", Local).id <= 1
    BY DEF Account
  <2> QED
    BY <1>1, <1>2, <2>1 DEF AccountsInit, RowsOK
<1>4. KeysOK
  BY <1>1 DEF AccountsInit, KeysOK, SomeTenants
<1>5. gate \in [Identities -> Asserts]
  <2>1. \A n \in Names, T \in SUBSET Teams :
          [linked |-> 0, name |-> n, role |-> "user", tenants |-> {1}, teams |-> T] \in Asserts
    BY <1>1 DEF Asserts, Roles, SomeTenants
  <2>2. {[linked |-> 0, name |-> n, role |-> "user", tenants |-> {1}, teams |-> T] :
           n \in Names, T \in {{}, Teams}} \subseteq Asserts
    <3>1. {} \in SUBSET Teams /\ Teams \in SUBSET Teams
      OBVIOUS
    <3> QED
      BY <2>1, <3>1
  <2> QED
    BY <2>2 DEF AccountsInit
<1>6. left \in [signIns : Nat, gate : Nat, admin : Nat, crashes : Nat]
  BY AccountsAssumption DEF AccountsInit
<1>7. RequestsOK
  BY <1>1, <1>5, <1>6 DEF AccountsInit, RequestsOK
<1> QED
  BY <1>3, <1>4, <1>7 DEF AccountsTypeOK

\* The users, what refers to them and what is under way have their types, ids and names
\* are unique, no id is given twice, and no foreign key points nowhere.
THEOREM TypeCorrect == AdministrationSpec => []AccountsTypeOK
<1>1. AccountsTypeOK /\ [AccountsNext]_accountVars => AccountsTypeOK'
  BY RowsMove, RowsStep, KeysStep, RequestsStep DEF AccountsTypeOK
<1> QED
  BY <1>1, AccountsInitType, AccountsMove, PTL
-----------------------------------------------------------------------------
(***************************************************************************)
(* What a step leaves of the sign-ins under way.                           *)
(***************************************************************************)
\* A row that is the only one with its id is the one found by it.
LEMMA ById ==
  ASSUME NEW A, \A a, b \in A : a.id = b.id => a = b, NEW a \in A
  PROVE  (CHOOSE b \in A : b.id = a.id) = a
<1>1. \E b \in A : b.id = a.id
  OBVIOUS
<1>2. (CHOOSE b \in A : b.id = a.id) \in A /\ (CHOOSE b \in A : b.id = a.id).id = a.id
  BY <1>1
<1> QED
  BY <1>2

\* A request that goes on takes the tables away from the others, and nothing else.
LEMMA OthersBecome ==
  ASSUME RequestsOK, NEW r, NEW s, Becomes(r, s), NEW q \in Requests \ {r},
         signIns[q].pc # "idle" \/ signIns'[q].pc # "idle"
  PROVE  /\ signIns'[q].pc = signIns[q].pc /\ signIns[q].pc # "idle"
         /\ signIns'[q].of = signIns[q].of /\ signIns'[q].told = signIns[q].told
         /\ signIns'[q].account = signIns[q].account
         /\ signIns'[q].alone = FALSE
<1>1. AtRest.pc = "idle"
  BY DEF AtRest
<1>2. signIns'[q] = IF signIns[q].pc = "idle" THEN AtRest ELSE [signIns[q] EXCEPT !.alone = FALSE]
  BY DEF Becomes
<1>3. signIns[q].pc # "idle"
  BY <1>1, <1>2
<1>4. signIns[q] \in SomeSignIn
  BY <1>3, RequestShapes
<1>5. signIns'[q] = [signIns[q] EXCEPT !.alone = FALSE]
  BY <1>2, <1>3
<1> QED
  BY <1>3, <1>4, <1>5 DEF SomeSignIn

\* Where the step of another request leaves a sign-in.
Same(q) ==
  signIns'[q].pc # "idle" =>
    /\ signIns[q].pc # "idle"
    /\ signIns'[q].of = signIns[q].of /\ signIns'[q].told = signIns[q].told
    /\ signIns'[q].account = signIns[q].account

Quiet(q) ==
  signIns'[q].pc # "idle" /\ signIns'[q].alone =>
    /\ signIns'[q] = signIns[q]
    /\ UNCHANGED <<tenantsOf, teamsOf, scope>>
    /\ \/ UNCHANGED accounts
       \/ \E name \in LocalNames \cup Names, role \in Roles, of \in Identities \cup {Local} :
            Adds(name, role, of)

\* One that waits to link its new account still does, unless it ends.
Waits(q) ==
  signIns[q].pc = "link" => signIns'[q].pc = "link" /\ signIns'[q].account = signIns[q].account

\* Only its own step takes a sign-in on: any other leaves it as it was, and with the
\* tables to itself only if it does not touch them; a crash ends it.
LEMMA SignInsMove ==
  ASSUME RowsOK, RequestsOK, [AccountsNext]_accountVars, NEW q \in Requests
  PROVE  \/ SignInStep(q)
         \/ Same(q) /\ Quiet(q) /\ Waits(q)
         \/ Crash
<1>1. ASSUME NEW r \in Requests, r # q, NEW s, Becomes(r, s)
      PROVE  Same(q) /\ Quiet(q) /\ Waits(q)
  <2>1. signIns[q].pc # "idle" \/ signIns'[q].pc # "idle" =>
          /\ signIns'[q].pc = signIns[q].pc /\ signIns[q].pc # "idle"
          /\ signIns'[q].of = signIns[q].of /\ signIns'[q].told = signIns[q].told
          /\ signIns'[q].account = signIns[q].account
          /\ signIns'[q].alone = FALSE
    BY <1>1, OthersBecome
  <2> QED
    BY <2>1 DEF Same, Quiet, Waits
<1>2. ASSUME Interrupted
      PROVE  Same(q) /\ Quiet(q) /\ Waits(q)
  <2>1. Local # q /\ Becomes(Local, AtRest)
    BY <1>2, AccountsAssumption DEF Interrupted
  <2>2. signIns[q].pc # "idle" \/ signIns'[q].pc # "idle" =>
          /\ signIns'[q].pc = signIns[q].pc /\ signIns[q].pc # "idle"
          /\ signIns'[q].of = signIns[q].of /\ signIns'[q].told = signIns[q].told
          /\ signIns'[q].account = signIns[q].account
          /\ signIns'[q].alone = FALSE
    BY <2>1, OthersBecome
  <2> QED
    BY <2>2 DEF Same, Quiet, Waits
<1>3. ASSUME signIns'[q] = signIns[q], UNCHANGED <<tenantsOf, teamsOf, scope>>,
             \/ UNCHANGED accounts
             \/ \E name \in LocalNames \cup Names, role \in Roles, of \in Identities \cup {Local} :
                  Adds(name, role, of)
      PROVE  Same(q) /\ Quiet(q) /\ Waits(q)
  BY <1>3 DEF Same, Quiet, Waits
<1>4. ASSUME NEW r \in Requests, r # q, SignInStep(r)
      PROVE  Same(q) /\ Quiet(q) /\ Waits(q)
  <2>1. CASE \/ UnlinkAccount(r) \/ RefreshAccount(r) \/ CreateAccount(r) \/ LinkAccount(r)
             \/ LeaveTeams(r) \/ JoinTeams(r)
    <3>1. PICK s : Becomes(r, s)
      BY <2>1 DEF UnlinkAccount, RefreshAccount, CreateAccount, LinkAccount, LeaveTeams, JoinTeams
    <3>2. r # q
      BY <1>4
    <3> QED
      BY <1>1, <3>1, <3>2
  <2>0. r # q
    BY <1>4
  <2>2. ASSUME EnterTenants(r), signIns[r].told.tenants # {}
        PROVE  Same(q) /\ Quiet(q) /\ Waits(q)
    <3>1. PICK s : Becomes(r, s)
      BY <2>2 DEF EnterTenants
    <3> QED
      BY <1>1, <2>0, <3>1
  <2>3. ASSUME \/ EnterTenants(r) /\ signIns[r].told.tenants = {}
               \/ \E i \in Identities : Exchange(r, i)
               \/ FindAccount(r) \/ VerifyAccount(r) \/ ResolveTeams(r) \/ OpenSession(r)
               \/ SignInFails(r)
        PROVE  Same(q) /\ Quiet(q) /\ Waits(q)
    <3>1. UNCHANGED <<tenantsOf, teamsOf, scope, accounts>>
      BY <2>3 DEF EnterTenants, Exchange, FindAccount, VerifyAccount, ResolveTeams, OpenSession,
                  SignInFails
    <3>2. PICK s : signIns' = [signIns EXCEPT ![r] = s]
      <4>1. CASE EnterTenants(r) /\ signIns[r].told.tenants = {}
        BY <4>1 DEF EnterTenants, RequestsOK
      <4>2. CASE \E i \in Identities : Exchange(r, i)
        BY <4>2 DEF Exchange
      <4>3. CASE FindAccount(r)
        BY <4>3 DEF FindAccount, RequestsOK
      <4>4. CASE ResolveTeams(r)
        BY <4>4 DEF ResolveTeams, RequestsOK
      <4>5. CASE OpenSession(r) \/ SignInFails(r)
        BY <4>5 DEF OpenSession, SignInFails
      <4>6. CASE VerifyAccount(r)
        BY <4>6 DEF VerifyAccount, RequestsOK
      <4> QED
        BY <2>3, <4>1, <4>2, <4>3, <4>4, <4>5, <4>6
    <3>3. signIns'[q] = signIns[q]
      BY <2>0, <3>2 DEF RequestsOK
    <3> QED
      BY <1>3, <3>1, <3>3
  <2> QED
    BY <1>4, <2>1, <2>2, <2>3 DEF SignInStep
<1>5. ASSUME GateStep
      PROVE  Same(q) /\ Quiet(q) /\ Waits(q)
  <2>1. CASE \/ \E i \in Identities : GateChanges(i)
             \/ \E p \in reports : ReportArrives(p) \/ ReportLost(p)
             \/ DeleteFails
    <3>1. UNCHANGED <<signIns, tenantsOf, teamsOf, scope, accounts>>
      BY <2>1 DEF GateChanges, ReportArrives, ReportLost, DeleteFails
    <3> QED
      BY <1>3, <3>1
  <2>2. CASE (\E i \in Identities : PostChange(i) \/ PostDelete(i)) \/ FinishDelete
    <3>1. Interrupted
      BY <2>2 DEF PostChange, PostDelete, FinishDelete
    <3> QED
      BY <1>2, <3>1
  <2> QED
    BY <1>5, <2>1, <2>2 DEF GateStep
<1>6. ASSUME AdminStep
      PROVE  Same(q) /\ Quiet(q) /\ Waits(q)
  <2>1. ASSUME NEW f, NEW id, NEW what, CheckForm(f, id, what)
        PROVE  Same(q) /\ Quiet(q) /\ Waits(q)
    <3>1. UNCHANGED <<signIns, tenantsOf, teamsOf, scope, accounts>>
      BY <2>1 DEF CheckForm
    <3> QED
      BY <1>3, <3>1
  <2>2. ASSUME NEW name \in LocalNames, NEW role \in Roles, CreateUser(name, role)
        PROVE  Same(q) /\ Quiet(q) /\ Waits(q)
    <3>1. Adds(name, role, Local) /\ UNCHANGED <<signIns, tenantsOf, teamsOf, scope>>
      BY <2>2 DEF CreateUser, Made, Adds
    <3> QED
      BY <1>3, <3>1
  <2>3. CASE \/ \E f \in Forms : WriteForm(f)
             \/ \E id \in AccountIds, T \in SUBSET SomeTenants : SetTenants(id, T)
             \/ \E id \in AccountIds, t \in SomeTenants : AddMember(id, t) \/ RemoveMember(id, t)
             \/ \E t \in Teams, ids \in SUBSET AccountIds : SetMembers(t, ids)
             \/ \E t \in Teams, T \in SUBSET SomeTenants : SetTargetTenants(t, T)
             \/ \E t \in Teams : DeleteTeam(t)
    <3>1. Interrupted
      BY <2>3 DEF WriteForm, SetTenants, AddMember, RemoveMember, SetMembers, SetTargetTenants,
                  DeleteTeam
    <3> QED
      BY <1>2, <3>1
  <2> QED
    BY <1>6, <2>1, <2>2, <2>3 DEF AdminStep
<1>7. ASSUME Boot
      PROVE  Same(q) /\ Quiet(q) /\ Waits(q)
  <2>1. UNCHANGED <<signIns, tenantsOf, teamsOf, scope>>
    BY <1>7 DEF Boot
  <2>2. UNCHANGED accounts \/ Adds(DefaultName, "admin", Local)
    BY <1>7 DEF Boot, Made, Adds
  <2>3. DefaultName \in LocalNames /\ "admin" \in Roles
    BY DEF LocalNames, Roles
  <2> QED
    BY <1>3, <2>1, <2>2, <2>3
<1>8. ASSUME UNCHANGED accountVars
      PROVE  Same(q) /\ Quiet(q) /\ Waits(q)
  <2>1. UNCHANGED <<signIns, tenantsOf, teamsOf, scope, accounts>>
    BY <1>8 DEF accountVars
  <2> QED
    BY <1>3, <2>1
<1> QED
  BY <1>4, <1>5, <1>6, <1>7, <1>8 DEF AccountsNext
-----------------------------------------------------------------------------
(***************************************************************************)
(* Names of accounts: what means an account of an identity always does.    *)
(***************************************************************************)
\* Belongs, after the step.
StillBelongs(id, i) == id <= made' /\ \A a \in accounts' : a.id = id => a.of = i

\* A row of after the step was there before, under its id and of the same identity, or is
\* the new one.
LEMMA OldOrNew ==
  ASSUME RowsChange, NEW a \in accounts'
  PROVE  \/ \E b \in accounts : b.id = a.id /\ b.of = a.of
         \/ \E name \in LocalNames \cup Names, role \in Roles, of \in Identities \cup {Local} :
              Adds(name, role, of) /\ a = Account(made + 1, name, role, of)
<1>1. CASE UNCHANGED <<accounts, made>>
  BY <1>1
<1>2. ASSUME NEW g \in [accounts -> SomeAccount], Rewrites(g)
      PROVE  \E b \in accounts : b.id = a.id /\ b.of = a.of
  BY <1>2 DEF Rewrites
<1>3. ASSUME NEW name \in LocalNames \cup Names, NEW role \in Roles,
             NEW of \in Identities \cup {Local}, Adds(name, role, of)
      PROVE  \/ \E b \in accounts : b.id = a.id /\ b.of = a.of
             \/ Adds(name, role, of) /\ a = Account(made + 1, name, role, of)
  BY <1>3 DEF Adds
<1>4. ASSUME NEW id \in AccountIds, Loses(id)
      PROVE  \E b \in accounts : b.id = a.id /\ b.of = a.of
  BY <1>4 DEF Loses, Gone
<1> QED
  BY <1>1, <1>2, <1>3, <1>4 DEF RowsChange

\* An id that was given never comes to mean another identity's account.
LEMMA BelongStays ==
  ASSUME RowsOK, RowsChange, NEW id \in 0 .. MaxAccounts, NEW i, Belongs(id, i)
  PROVE  StillBelongs(id, i)
<1>1. made \in Nat /\ id \in Nat /\ made + 1 \in Nat /\ id <= made
  BY DEF RowsOK, Belongs
<1>2. made' = made \/ made' = made + 1
  BY DEF RowsChange, Rewrites, Adds, Loses
<1>3. ASSUME NEW a \in accounts', a.id = id
      PROVE  a.of = i
  <2>1. CASE \E b \in accounts : b.id = a.id /\ b.of = a.of
    BY <1>3, <2>1 DEF Belongs
  <2>2. ASSUME NEW name, NEW role, NEW of, a = Account(made + 1, name, role, of)
        PROVE  FALSE
    <3>1. a.id = made + 1
      BY <2>2 DEF Account
    <3> QED
      BY <1>1, <1>3, <3>1
  <2> QED
    BY <2>1, <2>2, OldOrNew
<1>4. id <= made'
  BY <1>1, <1>2
<1> QED
  BY <1>3, <1>4 DEF StillBelongs

\* Where a link, a record of Obligate, a report and a removal have their account from.
LEMMA NamesMove ==
  ASSUME RowsOK, KeysOK, RequestsOK, [AccountsNext]_accountVars
  PROVE  /\ \A i \in Identities :
              \/ linked'[i] = linked[i] \/ linked'[i] = 0
              \/ \E r \in Requests : /\ signIns[r].pc # "idle" /\ signIns[r].of = i
                                     /\ linked'[i] = signIns[r].account
         /\ \A i \in Identities :
              \/ gate'[i].linked = gate[i].linked
              \/ \E p \in reports : p[1] = i /\ gate'[i].linked = p[2]
         /\ \A p \in reports' :
              \/ p \in reports \/ p[2] = 0
              \/ \E r \in Requests : /\ signIns[r].pc # "idle"
                                     /\ p[1] = signIns[r].of /\ p[2] = signIns[r].account
         /\ \/ removal' = 0 \/ removal' = removal
            \/ \E i \in Identities : removal' = gate[i].linked
<1> DEFINE L == \A i \in Identities :
                  \/ linked'[i] = linked[i] \/ linked'[i] = 0
                  \/ \E r \in Requests : /\ signIns[r].pc # "idle" /\ signIns[r].of = i
                                         /\ linked'[i] = signIns[r].account
           G == \A i \in Identities :
                  \/ gate'[i].linked = gate[i].linked
                  \/ \E p \in reports : p[1] = i /\ gate'[i].linked = p[2]
           P == \A p \in reports' :
                  \/ p \in reports \/ p[2] = 0
                  \/ \E r \in Requests : /\ signIns[r].pc # "idle"
                                         /\ p[1] = signIns[r].of /\ p[2] = signIns[r].account
           V == \/ removal' = 0 \/ removal' = removal
                \/ \E i \in Identities : removal' = gate[i].linked
<1>1. CASE UNCHANGED <<linked, gate, reports, removal>>
  BY <1>1
<1>2. ASSUME NEW r \in Requests, FindAccount(r)
      PROVE  L /\ G /\ P /\ V
  BY <1>2 DEF FindAccount
<1>14. ASSUME NEW r \in Requests, UnlinkAccount(r)
       PROVE  L /\ G /\ P /\ V
  <2>1. L
    BY <1>14 DEF UnlinkAccount, KeysOK
  <2> QED
    BY <1>14, <2>1 DEF UnlinkAccount
<1>3. ASSUME NEW r \in Requests, LinkAccount(r)
      PROVE  L /\ G /\ P /\ V
  <2>1. signIns[r].pc # "idle"
    BY <1>3 DEF LinkAccount, At
  <2>2. UNCHANGED <<gate, removal>>
    BY <1>3 DEF LinkAccount
  <2>3. linked' = linked \/ linked' = [linked EXCEPT ![signIns[r].of] = signIns[r].account]
    BY <1>3 DEF LinkAccount
  <2>4. reports' \subseteq reports \cup {<<signIns[r].of, signIns[r].account>>}
    BY <1>3 DEF LinkAccount
  <2>5. L
    BY <2>1, <2>3 DEF KeysOK
  <2>6. P
    BY <2>1, <2>4
  <2> QED
    BY <2>2, <2>5, <2>6
<1>4. ASSUME NEW i \in Identities, GateChanges(i)
      PROVE  L /\ G /\ P /\ V
  <2>1. G
    BY <1>4 DEF GateChanges, RequestsOK, Asserts
  <2>2. UNCHANGED <<linked, reports, removal>>
    BY <1>4 DEF GateChanges
  <2> QED
    BY <2>1, <2>2
<1>5. ASSUME NEW p \in reports, ReportArrives(p) \/ ReportLost(p)
      PROVE  L /\ G /\ P /\ V
  <2>1. p[1] \in Identities
    BY DEF RequestsOK
  <2>2. G
    BY <1>5, <2>1 DEF ReportArrives, ReportLost, RequestsOK, Asserts
  <2>3. UNCHANGED <<linked, removal>> /\ reports' \subseteq reports
    BY <1>5 DEF ReportArrives, ReportLost
  <2> QED
    BY <2>2, <2>3
<1>6. ASSUME NEW i \in Identities, PostDelete(i)
      PROVE  L /\ G /\ P /\ V
  BY <1>6 DEF PostDelete
<1>7. CASE FinishDelete \/ DeleteFails \/ (\E f \in Forms : WriteForm(f)) \/ Crash
  <2>1. linked' = linked \/ \E id : linked' = [i \in Identities |-> IF linked[i] = id THEN 0 ELSE linked[i]]
    BY <1>7 DEF FinishDelete, DeleteFails, WriteForm, Crash, Gone
  <2>2. UNCHANGED gate /\ reports' \subseteq reports /\ (removal' = 0 \/ removal' = removal)
    BY <1>7 DEF FinishDelete, DeleteFails, WriteForm, Crash
  <2>3. L
    BY <2>1
  <2> QED
    BY <2>2, <2>3
<1>8. ASSUME NEW r \in Requests, SignInStep(r)
      PROVE  L /\ G /\ P /\ V
  <2>1. CASE \/ \E i \in Identities : Exchange(r, i)
             \/ RefreshAccount(r) \/ CreateAccount(r) \/ EnterTenants(r) \/ ResolveTeams(r)
             \/ LeaveTeams(r) \/ JoinTeams(r) \/ OpenSession(r) \/ VerifyAccount(r)
             \/ SignInFails(r)
    <3>1. UNCHANGED <<linked, gate, reports, removal>>
      BY <2>1 DEF Exchange, RefreshAccount, CreateAccount, EnterTenants, ResolveTeams, LeaveTeams,
                  JoinTeams, OpenSession, VerifyAccount, SignInFails
    <3> QED
      BY <1>1, <3>1
  <2> QED
    BY <1>2, <1>3, <1>8, <1>14, <2>1 DEF SignInStep
<1>9. ASSUME NEW i \in Identities, PostChange(i)
      PROVE  L /\ G /\ P /\ V
  <2>1. UNCHANGED <<linked, gate, reports, removal>>
    BY <1>9 DEF PostChange
  <2> QED
    BY <1>1, <2>1
<1>10. CASE GateStep
  BY <1>4, <1>5, <1>6, <1>7, <1>9, <1>10 DEF GateStep
<1>11. CASE AdminStep
  <2>1. CASE ~\E f \in Forms : WriteForm(f)
    <3>1. UNCHANGED <<linked, gate, reports, removal>>
      BY <1>11, <2>1 DEF AdminStep, CheckForm, CreateUser, SetTenants, AddMember, RemoveMember,
                         SetMembers, SetTargetTenants, DeleteTeam
    <3> QED
      BY <1>1, <3>1
  <2> QED
    BY <1>7, <2>1
<1>12. CASE Boot \/ UNCHANGED accountVars
  <2>1. UNCHANGED <<linked, gate, reports, removal>>
    BY <1>12 DEF Boot, accountVars
  <2> QED
    BY <1>1, <2>1
<1>13. L /\ G /\ P /\ V
  BY <1>7, <1>8, <1>10, <1>11, <1>12 DEF AccountsNext
<1> QED
  BY <1>13

\* A sign-in begins.
Starts(r, i) ==
  /\ Exchange(r, i)
  /\ signIns'[r] = [pc |-> "find", of |-> i, told |-> gate[i], account |-> 0, teams |-> {},
                    stale |-> {}, alone |-> TRUE, had |-> teamsOf]

\* It goes one stage further.
Advances(r) ==
  LET s == signIns[r]
      t == signIns'[r]
  IN /\ s.pc # "idle" /\ t.of = s.of /\ t.told = s.told /\ t.had = s.had
     /\ t.alone = s.alone
     /\ \/ /\ FindAccount(r) /\ t.pc = "create" /\ t.account = s.account
        \/ /\ FindAccount(r) /\ s.pc = "find" /\ t.pc = "refresh"
           /\ t.account = s.told.linked /\ Has(t.account)
        \/ /\ FindAccount(r) /\ s.pc = "find" /\ t.pc = "verify"
           /\ t.account = linked[s.of] /\ Has(t.account)
        \/ /\ VerifyAccount(r) /\ s.pc = "verify" /\ t.pc = "refresh"
           /\ t.account = s.account /\ Has(t.account)
        \/ /\ VerifyAccount(r) /\ s.pc = "verify" /\ t.pc = "unlink"
           /\ t.account = s.account
        \/ /\ UnlinkAccount(r) /\ s.pc = "unlink" /\ t.pc = "create"
           /\ t.account = s.account
        \/ /\ RefreshAccount(r) /\ s.pc = "refresh" /\ t.pc = "tenants"
           /\ t.account = s.account
        \/ /\ CreateAccount(r) /\ s.pc = "create" /\ t.pc = "link"
           /\ t.account = made + 1 /\ Adds(s.told.name, s.told.role, s.of)
        \/ /\ LinkAccount(r) /\ s.pc = "link" /\ t.pc = "tenants"
           /\ t.account = s.account
        \/ /\ EnterTenants(r) /\ s.pc = "tenants" /\ t.pc = "session"
           /\ t.account = s.account
           /\ s.told.tenants = {} /\ UNCHANGED tenantsOf
        \/ /\ EnterTenants(r) /\ s.pc = "tenants" /\ t.pc = "resolve"
           /\ t.account = s.account /\ s.told.tenants # {}
           /\ tenantsOf' = tenantsOf \cup ({s.account} \X s.told.tenants)
        \/ /\ ResolveTeams(r) /\ s.pc = "resolve" /\ t.pc = "leave"
           /\ t.account = s.account
           /\ t.teams = Asserted(s) /\ t.stale = InScope(s) \ Asserted(s)
        \/ /\ LeaveTeams(r) /\ s.pc = "leave" /\ t.pc = "join"
           /\ t.account = s.account /\ t.teams = s.teams /\ t.stale = s.stale
           /\ teamsOf' = teamsOf \ ({s.account} \X s.stale)
        \/ /\ JoinTeams(r) /\ s.pc = "join" /\ t.pc = "session"
           /\ t.account = s.account
           /\ teamsOf' = teamsOf \cup ({s.account} \X s.teams)

\* What the step of a sign-in makes of it: a new one, or the same one further on.
LEMMA OwnMove ==
  ASSUME RowsOK, KeysOK, RequestsOK, NEW r \in Requests, SignInStep(r), signIns'[r].pc # "idle"
  PROVE  (\E i \in Identities : Starts(r, i)) \/ Advances(r)
<1> DEFINE s == signIns[r]
           t == signIns'[r]
<1>1. AtRest.pc = "idle"
  BY DEF AtRest
<1>2. \A u : Becomes(r, u) => signIns'[r] = u
  BY DEF Becomes
<1>3. CASE \E i \in Identities : Exchange(r, i)
  BY <1>3 DEF Exchange, Starts, RequestsOK
<1>4. ASSUME ~\E i \in Identities : Exchange(r, i)
      PROVE  s.pc # "idle"
  BY <1>4 DEF SignInStep, At, FindAccount, VerifyAccount, UnlinkAccount, SignInFails, RefreshAccount, CreateAccount, LinkAccount,
              EnterTenants, ResolveTeams, LeaveTeams, JoinTeams, OpenSession
<1>5. ASSUME s.pc # "idle"
      PROVE  s \in SomeSignIn
  BY <1>5, RequestShapes
<1>6. ASSUME NEW pc, s \in SomeSignIn, t = To(r, pc)
      PROVE  /\ t.pc = pc /\ t.of = s.of /\ t.told = s.told /\ t.had = s.had /\ t.alone = s.alone
             /\ t.account = s.account /\ t.teams = s.teams /\ t.stale = s.stale
  BY <1>6 DEF To, SomeSignIn
<1>7. ASSUME FindAccount(r)
      PROVE  /\ s.pc = "find" /\ t.of = s.of /\ t.told = s.told /\ t.had = s.had /\ t.alone = s.alone
             /\ \/ t.pc = "create" /\ t.account = s.account
                \/ t.pc = "refresh" /\ t.account = s.told.linked /\ Has(t.account)
                \/ t.pc = "verify" /\ t.account = linked[s.of] /\ Has(t.account)
  <2>1. s.pc = "find" /\ s \in SomeSignIn
    BY <1>5, <1>7 DEF FindAccount, At
  <2>2. /\ s.of \in Identities
        /\ linked[s.of] # 0 => Has(linked[s.of])
    BY <2>1 DEF SomeSignIn, KeysOK
  <2>3. \/ signIns' = [signIns EXCEPT ![r].pc = "create", ![r].account = s.account]
        \/ Has(s.told.linked) /\ signIns' = [signIns EXCEPT ![r].pc = "refresh", ![r].account = s.told.linked]
        \/ Has(linked[s.of]) /\ signIns' = [signIns EXCEPT ![r].pc = "verify", ![r].account = linked[s.of]]
    BY <1>7, <2>2 DEF FindAccount
  <2>4. \/ t = [s EXCEPT !.pc = "create", !.account = s.account]
        \/ Has(s.told.linked) /\ t = [s EXCEPT !.pc = "refresh", !.account = s.told.linked]
        \/ Has(linked[s.of]) /\ t = [s EXCEPT !.pc = "verify", !.account = linked[s.of]]
    BY <2>3 DEF RequestsOK
  <2> QED
    BY <2>1, <2>4 DEF SomeSignIn
<1>24. ASSUME VerifyAccount(r)
       PROVE  /\ s.pc = "verify"
              /\ \/ t = To(r, "refresh") /\ Has(s.account)
                 \/ t = To(r, "unlink")
  BY <1>24 DEF VerifyAccount, At, To, RequestsOK
<1>25. ASSUME UnlinkAccount(r)
       PROVE  s.pc = "unlink" /\ t = To(r, "create")
  BY <1>2, <1>25 DEF UnlinkAccount, At
<1>8. ASSUME RefreshAccount(r)
      PROVE  s.pc = "refresh" /\ t = To(r, "tenants")
  BY <1>2, <1>8 DEF RefreshAccount, At
<1>9. ASSUME CreateAccount(r)
      PROVE  /\ s.pc = "create" /\ t.of = s.of /\ t.told = s.told /\ t.had = s.had /\ t.alone = s.alone
             /\ t.pc = "link" /\ t.account = made + 1 /\ Adds(s.told.name, s.told.role, s.of)
  <2>1. s.pc = "create" /\ s \in SomeSignIn
    BY <1>5, <1>9 DEF CreateAccount, At
  <2>2. ~Taken(s.told.name)
    BY <1>1, <1>2, <1>9 DEF CreateAccount
  <2>3. t = [To(r, "link") EXCEPT !.account = made + 1] /\ Adds(s.told.name, s.told.role, s.of)
    BY <1>2, <1>9, <2>2 DEF CreateAccount, Made, Adds
  <2> QED
    BY <2>1, <2>3 DEF To, SomeSignIn
<1>10. ASSUME LinkAccount(r)
       PROVE  s.pc = "link" /\ t = To(r, "tenants")
  BY <1>1, <1>2, <1>10 DEF LinkAccount, At
<1>11. ASSUME EnterTenants(r)
       PROVE  /\ s.pc = "tenants"
              /\ \/ s.told.tenants = {} /\ UNCHANGED tenantsOf /\ t = To(r, "session")
                 \/ /\ s.told.tenants # {} /\ t = To(r, "resolve")
                    /\ tenantsOf' = tenantsOf \cup ({s.account} \X s.told.tenants)
  <2>1. s.pc = "tenants"
    BY <1>11 DEF EnterTenants, At
  <2>2. CASE s.told.tenants = {}
    <3>1. signIns' = [signIns EXCEPT ![r].pc = "session"] /\ UNCHANGED tenantsOf
      BY <1>11, <2>2 DEF EnterTenants
    <3>2. t = To(r, "session")
      BY <3>1 DEF RequestsOK, To
    <3> QED
      BY <2>1, <2>2, <3>1, <3>2
  <2>3. CASE s.told.tenants # {}
    BY <1>1, <1>2, <1>11, <2>1, <2>3 DEF EnterTenants
  <2> QED
    BY <2>2, <2>3
<1>12. ASSUME ResolveTeams(r)
       PROVE  /\ s.pc = "resolve" /\ t.of = s.of /\ t.told = s.told /\ t.had = s.had /\ t.alone = s.alone
              /\ t.pc = "leave" /\ t.account = s.account
              /\ t.teams = Asserted(s) /\ t.stale = InScope(s) \ Asserted(s)
  <2>1. s.pc = "resolve" /\ s \in SomeSignIn
    BY <1>5, <1>12 DEF ResolveTeams, At
  <2>2. t = [s EXCEPT !.pc = "leave", !.teams = Asserted(s), !.stale = InScope(s) \ Asserted(s)]
    BY <1>12 DEF ResolveTeams, RequestsOK
  <2> QED
    BY <2>1, <2>2 DEF SomeSignIn
<1>13. ASSUME LeaveTeams(r)
       PROVE  /\ s.pc = "leave" /\ t = To(r, "join")
              /\ teamsOf' = teamsOf \ ({s.account} \X s.stale)
  BY <1>2, <1>13 DEF LeaveTeams, At
<1>14. ASSUME JoinTeams(r)
       PROVE  /\ s.pc = "join" /\ t = To(r, "session")
              /\ teamsOf' = teamsOf \cup ({s.account} \X s.teams)
  BY <1>1, <1>2, <1>14 DEF JoinTeams, At
<1>15. ~OpenSession(r) /\ ~SignInFails(r)
  BY <1>1 DEF OpenSession, SignInFails, RequestsOK
<1> HIDE DEF s, t, Advances
<1>16. CASE FindAccount(r)
  BY <1>7, <1>16 DEF s, t, Advances
<1>17. CASE RefreshAccount(r)
  <2>1. s.pc = "refresh" /\ s \in SomeSignIn /\ t = To(r, "tenants")
    BY <1>5, <1>8, <1>17
  <2> QED
    BY <1>6, <1>17, <2>1 DEF s, t, Advances
<1>18. CASE CreateAccount(r)
  BY <1>9, <1>18 DEF s, t, Advances
<1>19. CASE LinkAccount(r)
  <2>1. s.pc = "link" /\ s \in SomeSignIn /\ t = To(r, "tenants")
    BY <1>5, <1>10, <1>19
  <2> QED
    BY <1>6, <1>19, <2>1 DEF s, t, Advances
<1>20. CASE EnterTenants(r)
  <2>1. /\ s.pc = "tenants" /\ s \in SomeSignIn
        /\ \/ s.told.tenants = {} /\ UNCHANGED tenantsOf /\ t = To(r, "session")
           \/ /\ s.told.tenants # {} /\ t = To(r, "resolve")
              /\ tenantsOf' = tenantsOf \cup ({s.account} \X s.told.tenants)
    BY <1>5, <1>11, <1>20
  <2> QED
    BY <1>6, <1>20, <2>1 DEF s, t, Advances
<1>21. CASE ResolveTeams(r)
  BY <1>12, <1>21 DEF s, t, Advances
<1>22. CASE LeaveTeams(r)
  <2>1. s.pc = "leave" /\ s \in SomeSignIn /\ t = To(r, "join")
    BY <1>5, <1>13, <1>22
  <2> QED
    BY <1>6, <1>13, <1>22, <2>1 DEF s, t, Advances
<1>23. CASE JoinTeams(r)
  <2>1. s.pc = "join" /\ s \in SomeSignIn /\ t = To(r, "session")
    BY <1>5, <1>14, <1>23
  <2> QED
    BY <1>6, <1>14, <1>23, <2>1 DEF s, t, Advances
<1>26. CASE VerifyAccount(r)
  <2>1. /\ s.pc = "verify" /\ s \in SomeSignIn
        /\ \/ t = To(r, "refresh") /\ Has(s.account)
           \/ t = To(r, "unlink")
    BY <1>5, <1>24, <1>26
  <2> QED
    BY <1>6, <1>26, <2>1 DEF s, t, Advances
<1>27. CASE UnlinkAccount(r)
  <2>1. s.pc = "unlink" /\ s \in SomeSignIn /\ t = To(r, "create")
    BY <1>5, <1>25, <1>27
  <2> QED
    BY <1>6, <1>27, <2>1 DEF s, t, Advances
<1> QED
  BY <1>3, <1>15, <1>16, <1>17, <1>18, <1>19, <1>20, <1>21, <1>22, <1>23, <1>26, <1>27 DEF SignInStep

\* No step makes anything name another identity's account.
LEMMA NamesStep ==
  ASSUME RowsOK, KeysOK, RequestsOK, NamesBelong, [AccountsNext]_accountVars
  PROVE  NamesBelong'
<1>1. RowsChange
  BY RowsMove
<1>2. \A id \in 0 .. MaxAccounts : \A i : Belongs(id, i) => StillBelongs(id, i)
  BY <1>1, BelongStays
<1>3. made \in Nat /\ made' \in Nat /\ 0 \in 0 .. MaxAccounts
  BY <1>1, RowsStep, AccountsAssumption DEF RowsOK
<1>4. \A i : StillBelongs(0, i)
  <2>1. \A i : Belongs(0, i)
    BY <1>3 DEF Belongs, RowsOK, SomeAccount, AccountIds
  <2> QED
    BY <1>2, <1>3, <2>1
<1>5. \A i \in Identities : /\ StillBelongs(linked[i], i) /\ linked[i] \in 0 .. MaxAccounts
                            /\ StillBelongs(gate[i].linked, i) /\ gate[i].linked \in 0 .. MaxAccounts
  <2>1. \A i \in Identities : linked[i] \in 0 .. MaxAccounts /\ gate[i].linked \in 0 .. MaxAccounts
    BY DEF KeysOK, RequestsOK, Asserts
  <2> QED
    BY <1>2, <2>1 DEF NamesBelong
<1>6. \A p \in reports : StillBelongs(p[2], p[1])
  <2>1. \A p \in reports : p[2] \in 0 .. MaxAccounts
    BY DEF RequestsOK
  <2> QED
    BY <1>2, <2>1 DEF NamesBelong
<1>7. \A r \in Requests : signIns[r].pc # "idle" =>
        /\ StillBelongs(signIns[r].account, signIns[r].of)
        /\ StillBelongs(signIns[r].told.linked, signIns[r].of)
        /\ signIns[r].of \in Identities
  <2>1. \A r \in Requests : signIns[r].pc # "idle" =>
          /\ signIns[r].account \in 0 .. MaxAccounts
          /\ signIns[r].told.linked \in 0 .. MaxAccounts
          /\ signIns[r].of \in Identities
    BY RequestShapes DEF SomeSignIn, Asserts
  <2> QED
    BY <1>2, <2>1 DEF NamesBelong
<1>8. \A i \in Identities : StillBelongs(linked'[i], i)
  BY <1>4, <1>5, <1>7, NamesMove
<1>9. \A i \in Identities : StillBelongs(gate'[i].linked, i)
  BY <1>5, <1>6, NamesMove
<1>10. \A p \in reports' : StillBelongs(p[2], p[1])
  BY <1>4, <1>6, <1>7, NamesMove
<1>11. removal' # 0 => \E i \in Identities : StillBelongs(removal', i)
  <2>1. removal # 0 => \E i \in Identities : StillBelongs(removal, i)
    BY <1>2 DEF NamesBelong, RequestsOK
  <2> QED
    BY <1>5, <2>1, NamesMove
<1>12. ASSUME NEW r \in Requests, signIns'[r].pc # "idle"
       PROVE  /\ StillBelongs(signIns'[r].account, signIns'[r].of)
              /\ StillBelongs(signIns'[r].told.linked, signIns'[r].of)
  <2>1. CASE Same(r)
    BY <1>7, <1>12, <2>1 DEF Same
  <2>2. CASE Crash
    BY <1>12, <2>2 DEF Crash, AtRest
  <2>3. CASE SignInStep(r)
    <3>1. ASSUME NEW i \in Identities, Starts(r, i)
          PROVE  /\ StillBelongs(signIns'[r].account, signIns'[r].of)
                 /\ StillBelongs(signIns'[r].told.linked, signIns'[r].of)
      BY <1>4, <1>5, <3>1 DEF Starts
    <3>2. ASSUME signIns[r].pc # "idle", signIns'[r].of = signIns[r].of,
                 signIns'[r].told = signIns[r].told,
                 signIns'[r].account \in {signIns[r].account, signIns[r].told.linked,
                                          linked[signIns[r].of]}
          PROVE  /\ StillBelongs(signIns'[r].account, signIns'[r].of)
                 /\ StillBelongs(signIns'[r].told.linked, signIns'[r].of)
      BY <1>5, <1>7, <3>2
    <3>3. ASSUME signIns[r].pc # "idle", signIns'[r].of = signIns[r].of,
                 signIns'[r].told = signIns[r].told, signIns'[r].account = made + 1,
                 Adds(signIns[r].told.name, signIns[r].told.role, signIns[r].of)
          PROVE  /\ StillBelongs(signIns'[r].account, signIns'[r].of)
                 /\ StillBelongs(signIns'[r].told.linked, signIns'[r].of)
      <4>1. \A a \in accounts : a.id \in Nat /\ a.id <= made
        BY DEF RowsOK, SomeAccount, AccountIds
      <4>2. \A a \in accounts : a.id # made + 1
        BY <1>3, <4>1
      <4>3. \A a \in accounts' : a.id = made + 1 => a.of = signIns[r].of
        BY <3>3, <4>2 DEF Adds, Account
      <4>4. made + 1 <= made'
        BY <1>3, <3>3 DEF Adds
      <4>5. StillBelongs(made + 1, signIns[r].of)
        BY <4>3, <4>4 DEF StillBelongs
      <4> QED
        BY <1>7, <3>3, <4>5
    <3>4. \/ \E i \in Identities : Starts(r, i)
          \/ /\ signIns[r].pc # "idle" /\ signIns'[r].of = signIns[r].of
             /\ signIns'[r].told = signIns[r].told
             /\ \/ signIns'[r].account \in {signIns[r].account, signIns[r].told.linked,
                                            linked[signIns[r].of]}
                \/ /\ signIns'[r].account = made + 1
                   /\ Adds(signIns[r].told.name, signIns[r].told.role, signIns[r].of)
      BY <1>12, <2>3, OwnMove DEF Advances
    <3> QED
      BY <3>1, <3>2, <3>3, <3>4
  <2> QED
    BY <2>1, <2>2, <2>3, SignInsMove
<1> QED
  BY <1>8, <1>9, <1>10, <1>11, <1>12 DEF NamesBelong, Belongs, StillBelongs
-----------------------------------------------------------------------------
(***************************************************************************)
(* The sign-ins that nothing disturbs.                                     *)
(***************************************************************************)
\* Its own step takes a sign-in that has the tables to itself one stage further.
LEMMA OwnSync ==
  ASSUME RowsOK, KeysOK, RequestsOK, NEW r \in Requests, SignInStep(r),
         signIns'[r].pc # "idle", signIns'[r].alone,
         signIns[r].pc # "idle" /\ signIns[r].alone => Synced(signIns[r])
  PROVE  Synced(signIns[r])'
<1> DEFINE s == signIns[r]
           t == signIns'[r]
<1>1. CASE \E i \in Identities : Starts(r, i)
  <2>1. t.pc = "find" /\ t.had = teamsOf /\ UNCHANGED teamsOf
    BY <1>1 DEF Exchange, Starts
  <2> QED
    BY <2>1 DEF Synced
<1>2. ASSUME Advances(r)
      PROVE  Synced(signIns[r])'
  <2> s.pc # "idle" /\ t.of = s.of /\ t.told = s.told /\ t.had = s.had /\ t.alone = s.alone
    BY <1>2 DEF Advances
  <2>1. CASE /\ FindAccount(r) /\ t.pc = "create" /\ t.account = s.account
    <3>1. s.pc = "find" /\ UNCHANGED teamsOf
      BY <2>1 DEF FindAccount, At
    <3>2. s.had = teamsOf
      BY <2>1, <3>1 DEF Synced
    <3> QED
      BY <2>1, <3>1, <3>2 DEF Synced
  <2>2. CASE /\ FindAccount(r) /\ s.pc = "find" /\ t.pc \in {"refresh", "verify"} /\ Has(t.account)
    <3>1. UNCHANGED <<accounts, teamsOf>>
      BY <2>2 DEF FindAccount
    <3>2. s.had = teamsOf
      BY <2>2 DEF Synced
    <3>3. \E a \in accounts' : a.id = t.account
      BY <2>2, <3>1 DEF Has
    <3> QED
      BY <2>2, <3>1, <3>2, <3>3 DEF Synced
  <2>11. CASE /\ VerifyAccount(r) /\ s.pc = "verify" /\ t.account = s.account
              /\ \/ t.pc = "refresh" /\ Has(t.account)
                 \/ t.pc = "unlink"
    <3>1. UNCHANGED <<accounts, teamsOf>>
      BY <2>11 DEF VerifyAccount
    <3>2. s.had = teamsOf
      BY <2>11 DEF Synced
    <3>3. t.pc = "refresh" => \E a \in accounts' : a.id = t.account
      BY <2>11, <3>1 DEF Has
    <3> QED
      BY <2>11, <3>1, <3>2, <3>3 DEF Synced
  <2>12. CASE /\ UnlinkAccount(r) /\ s.pc = "unlink" /\ t.pc = "create" /\ t.account = s.account
    <3>1. UNCHANGED teamsOf /\ s.had = teamsOf
      BY <2>12 DEF UnlinkAccount, Synced
    <3> QED
      BY <2>12, <3>1 DEF Synced
  <2>3. CASE /\ RefreshAccount(r) /\ s.pc = "refresh" /\ t.pc = "tenants" /\ t.account = s.account
    <3>1. UNCHANGED teamsOf /\ s.had = teamsOf
      BY <2>3 DEF RefreshAccount, Synced
    <3>2. PICK a \in accounts : a.id = s.account
      BY <2>3 DEF Synced
    <3>3. a \in SomeAccount
      BY DEF RowsOK
    <3>4. [a EXCEPT !.role = s.told.role] \in accounts'
      BY <2>3, <3>2 DEF RefreshAccount
    <3>5. \E b \in accounts' : b.id = t.account /\ b.role = t.told.role
      BY <2>3, <3>2, <3>3, <3>4 DEF SomeAccount
    <3> QED
      BY <2>3, <3>1, <3>5 DEF Synced
  <2>4. CASE /\ CreateAccount(r) /\ s.pc = "create" /\ t.pc = "link"
             /\ t.account = made + 1 /\ Adds(s.told.name, s.told.role, s.of)
    <3>1. UNCHANGED teamsOf /\ s.had = teamsOf
      BY <2>4 DEF CreateAccount, Synced
    <3>2. Account(made + 1, s.told.name, s.told.role, s.of) \in accounts'
      BY <2>4 DEF Adds
    <3>3. \E b \in accounts' : b.id = t.account /\ b.role = t.told.role
      BY <2>4, <3>2 DEF Account
    <3> QED
      BY <2>4, <3>1, <3>3 DEF Synced
  <2>5. CASE /\ LinkAccount(r) /\ s.pc = "link" /\ t.pc = "tenants" /\ t.account = s.account
    <3>1. UNCHANGED <<accounts, teamsOf>> /\ s.had = teamsOf
      BY <2>5 DEF LinkAccount, Synced
    <3>2. \E b \in accounts' : b.id = t.account /\ b.role = t.told.role
      BY <2>5, <3>1 DEF Synced
    <3> QED
      BY <2>5, <3>1, <3>2 DEF Synced
  <2>6. CASE /\ EnterTenants(r) /\ s.pc = "tenants" /\ t.pc = "session" /\ t.account = s.account
             /\ s.told.tenants = {} /\ UNCHANGED tenantsOf
    <3>1. UNCHANGED <<accounts, teamsOf>> /\ s.had = teamsOf
      BY <2>6 DEF EnterTenants, Synced
    <3>2. \E b \in accounts' : b.id = t.account /\ b.role = t.told.role
      BY <2>6, <3>1 DEF Synced
    <3>3. {t.account} \X t.told.tenants \subseteq tenantsOf'
      BY <2>6
    <3> QED
      BY <2>6, <3>1, <3>2, <3>3 DEF Synced
  <2>7. CASE /\ EnterTenants(r) /\ s.pc = "tenants" /\ t.pc = "resolve" /\ t.account = s.account
             /\ s.told.tenants # {} /\ tenantsOf' = tenantsOf \cup ({s.account} \X s.told.tenants)
    <3>1. UNCHANGED <<accounts, teamsOf>> /\ s.had = teamsOf
      BY <2>7 DEF EnterTenants, Synced
    <3>2. \E b \in accounts' : b.id = t.account /\ b.role = t.told.role
      BY <2>7, <3>1 DEF Synced
    <3>3. {t.account} \X t.told.tenants \subseteq tenantsOf'
      BY <2>7
    <3> QED
      BY <2>7, <3>1, <3>2, <3>3 DEF Synced
  <2>8. CASE /\ ResolveTeams(r) /\ s.pc = "resolve" /\ t.pc = "leave" /\ t.account = s.account
             /\ t.teams = Asserted(s) /\ t.stale = InScope(s) \ Asserted(s)
    <3>1. UNCHANGED <<accounts, tenantsOf, teamsOf, scope>> /\ s.had = teamsOf
      BY <2>8 DEF ResolveTeams, Synced
    <3>2. /\ s.told.tenants # {}
          /\ \E b \in accounts' : b.id = t.account /\ b.role = t.told.role
          /\ {t.account} \X t.told.tenants \subseteq tenantsOf'
      BY <2>8, <3>1 DEF Synced
    <3>3. t.teams = Asserted(s)' /\ t.stale = (InScope(s) \ Asserted(s))'
      BY <2>8, <3>1 DEF Asserted, InScope
    <3> QED
      BY <2>8, <3>1, <3>2, <3>3 DEF Synced
  <2>9. CASE /\ LeaveTeams(r) /\ s.pc = "leave" /\ t.pc = "join" /\ t.account = s.account
             /\ t.teams = s.teams /\ t.stale = s.stale
             /\ teamsOf' = teamsOf \ ({s.account} \X s.stale)
    <3>1. UNCHANGED <<accounts, tenantsOf, scope>> /\ s.had = teamsOf
      BY <2>9 DEF LeaveTeams, Synced
    <3>2. /\ s.told.tenants # {}
          /\ \E b \in accounts' : b.id = t.account /\ b.role = t.told.role
          /\ {t.account} \X t.told.tenants \subseteq tenantsOf'
          /\ s.teams = Asserted(s) /\ s.stale = InScope(s) \ Asserted(s)
      BY <2>9, <3>1 DEF Synced
    <3>3. t.teams = Asserted(s)' /\ t.stale = (InScope(s) \ Asserted(s))'
      BY <2>9, <3>1, <3>2 DEF Asserted, InScope
    <3> QED
      BY <2>9, <3>1, <3>2, <3>3 DEF Synced
  <2>10. CASE /\ JoinTeams(r) /\ s.pc = "join" /\ t.pc = "session" /\ t.account = s.account
              /\ teamsOf' = teamsOf \cup ({s.account} \X s.teams)
    <3>1. UNCHANGED <<accounts, tenantsOf, scope>>
      BY <2>10 DEF JoinTeams
    <3>2. /\ s.told.tenants # {}
          /\ \E b \in accounts' : b.id = t.account /\ b.role = t.told.role
          /\ {t.account} \X t.told.tenants \subseteq tenantsOf'
          /\ s.teams = Asserted(s) /\ s.stale = InScope(s) \ Asserted(s)
          /\ teamsOf = s.had \ ({s.account} \X s.stale)
      BY <2>10, <3>1 DEF Synced
    <3>3. Asserted(s)' = Asserted(s) /\ InScope(s)' = InScope(s)
      BY <2>10, <3>1 DEF Asserted, InScope
    <3>4. teamsOf' = (t.had \ ({t.account} \X (InScope(s)' \ Asserted(s)')))
                       \cup ({t.account} \X Asserted(s)')
      BY <2>10, <3>2, <3>3
    <3> QED
      BY <2>10, <3>1, <3>2, <3>4 DEF Synced
  <2> QED
    BY <1>2, <2>1, <2>2, <2>3, <2>4, <2>5, <2>6, <2>7, <2>8, <2>9, <2>10, <2>11, <2>12
       DEF Advances
<1> QED
  BY <1>1, <1>2, OwnMove

\* The step of anyone else leaves it at its stage, or takes the tables from it.
LEMMA SyncStep ==
  ASSUME RowsOK, KeysOK, RequestsOK, SyncInv, [AccountsNext]_accountVars
  PROVE  SyncInv'
<1>1. NamesBelong'
  BY NamesStep DEF SyncInv
<1>2. ASSUME NEW r \in Requests, signIns'[r].pc # "idle", signIns'[r].alone
      PROVE  Synced(signIns[r])'
  <2>1. signIns[r].pc # "idle" /\ signIns[r].alone => Synced(signIns[r])
    BY DEF SyncInv
  <2>2. CASE SignInStep(r)
    BY <1>2, <2>1, <2>2, OwnSync
  <2>3. CASE Crash
    BY <1>2, <2>3 DEF Crash, AtRest
  <2>4. CASE Same(r) /\ Quiet(r)
    <3> DEFINE s == signIns[r]
    <3>1. /\ signIns'[r] = s
          /\ UNCHANGED <<tenantsOf, teamsOf, scope>>
          /\ s.pc # "idle" /\ s.alone
      BY <1>2, <2>4 DEF Same, Quiet
    <3>2. accounts \subseteq accounts'
      BY <1>2, <2>4 DEF Quiet, Adds
    <3>3. Asserted(s)' = Asserted(s) /\ InScope(s)' = InScope(s)
      BY <3>1 DEF Asserted, InScope
    <3>4. Synced(s)
      BY <2>1, <3>1
    <3>5. s.pc \notin {"find", "unlink", "create"} =>
            \E a \in accounts' : /\ a.id = s.account
                                 /\ s.pc \notin {"verify", "refresh"} => a.role = s.told.role
      BY <3>2, <3>4 DEF Synced
    <3> QED
      BY <3>1, <3>3, <3>4, <3>5 DEF Synced
  <2> QED
    BY <2>2, <2>3, <2>4, SignInsMove
<1> QED
  BY <1>1, <1>2 DEF SyncInv

\* Nothing is linked and nobody signs in when the server is set up.
LEMMA NamesInit ==
  ASSUME AccountsInit
  PROVE  NamesBelong
<1>1. \A i : Belongs(0, i)
  BY DEF AccountsInit, Belongs, Account
<1>2. \A i \in Identities : gate[i].linked = 0
  <2>1. \A g \in {[linked |-> 0, name |-> n, role |-> "user", tenants |-> {1}, teams |-> T] :
                    n \in Names, T \in {{}, Teams}} : g.linked = 0
    OBVIOUS
  <2> QED
    BY <2>1 DEF AccountsInit
<1> QED
  BY <1>1, <1>2 DEF AccountsInit, NamesBelong, AtRest

\* Every name of an account names one of the identity it is for, and every sign-in that
\* nothing has disturbed has done what its stage says.
THEOREM SyncInvariant == AdministrationSpec => [](AccountsTypeOK /\ SyncInv)
<1>1. AccountsInit => SyncInv
  BY NamesInit DEF AccountsInit, SyncInv, AtRest
<1>2. AccountsTypeOK /\ SyncInv /\ [AccountsNext]_accountVars => SyncInv'
  BY SyncStep DEF AccountsTypeOK
<1> QED
  BY <1>1, <1>2, AccountsMove, TypeCorrect, PTL

\* A sign-in that nothing disturbed leaves its account as Obligate asserts it, and its
\* memberships elsewhere alone.
THEOREM SignInsSync == AdministrationSpec => []SignInSyncs
<1>1. ASSUME AccountsTypeOK, SyncInv
      PROVE  SignInSyncs
  <2> SUFFICES ASSUME NEW r \in Requests, signIns[r].pc = "session", signIns[r].alone
               PROVE  LET s == signIns[r]
                          id == s.account
                          scoped == IF s.told.tenants = {} THEN {} ELSE InScope(s)
                      IN /\ Has(id) /\ GetById(id).of = s.of /\ GetById(id).role = s.told.role
                         /\ {id} \X s.told.tenants \subseteq tenantsOf
                         /\ \A t \in Teams : <<id, t>> \in teamsOf <=>
                              IF t \in scoped THEN t \in s.told.teams ELSE <<id, t>> \in s.had
    BY DEF SignInSyncs
  <2> DEFINE s == signIns[r]
  <2>1. Synced(s)
    BY <1>1 DEF SyncInv
  <2>2. PICK a \in accounts : a.id = s.account /\ a.role = s.told.role
    BY <2>1 DEF Synced
  <2>3. Has(s.account) /\ GetById(s.account) = a
    BY <1>1, <2>2, TheOne DEF AccountsTypeOK
  <2>4. a.of = s.of
    BY <1>1, <2>2 DEF SyncInv, NamesBelong, Belongs
  <2>5. {s.account} \X s.told.tenants \subseteq tenantsOf
    BY <2>1 DEF Synced
  <2>6. teamsOf = IF s.told.tenants = {} THEN s.had
                  ELSE (s.had \ ({s.account} \X (InScope(s) \ Asserted(s))))
                         \cup ({s.account} \X Asserted(s))
    BY <2>1 DEF Synced
  <2>7. Asserted(s) = InScope(s) \cap s.told.teams
    BY DEF Asserted
  <2> HIDE DEF s
  <2>8. ASSUME NEW t \in Teams
        PROVE  <<s.account, t>> \in teamsOf <=>
                 IF t \in (IF s.told.tenants = {} THEN {} ELSE InScope(s))
                 THEN t \in s.told.teams ELSE <<s.account, t>> \in s.had
    <3>1. CASE s.told.tenants = {}
      BY <2>6, <3>1
    <3>2. CASE s.told.tenants # {}
      <4>1. <<s.account, t>> \in {s.account} \X (InScope(s) \ Asserted(s)) <=> t \in InScope(s) \ Asserted(s)
        OBVIOUS
      <4>2. <<s.account, t>> \in {s.account} \X Asserted(s) <=> t \in Asserted(s)
        OBVIOUS
      <4> QED
        BY <2>6, <2>7, <3>2, <4>1, <4>2
    <3> QED
      BY <3>1, <3>2
  <2> QED
    BY <2>2, <2>3, <2>4, <2>5, <2>8 DEF s
<1> QED
  BY <1>1, SyncInvariant, PTL
-----------------------------------------------------------------------------
(***************************************************************************)
(* No account without a way to sign in to it.                              *)
(***************************************************************************)
\* New rows: only a sign-in that creates one makes one of an identity.
LEMMA Newcomers ==
  ASSUME RowsOK, RequestsOK, [AccountsNext]_accountVars, NEW a \in accounts'
  PROVE  \/ \E b \in accounts : b.id = a.id /\ b.of = a.of
         \/ a.id = made + 1 /\ a.of = Local
         \/ \E r \in Requests : /\ CreateAccount(r) /\ ~Taken(signIns[r].told.name)
                                /\ a.id = made + 1 /\ a.of = signIns[r].of
<1>1. CASE UNCHANGED made
  <2>1. \A name, role, of : ~Adds(name, role, of)
    BY <1>1 DEF Adds, RowsOK
  <2> QED
    BY <2>1, RowsMove, OldOrNew
<1>2. CASE ~UNCHANGED made
  <2>1. ASSUME NEW r \in Requests, CreateAccount(r)
        PROVE  \/ a \in accounts
               \/ ~Taken(signIns[r].told.name) /\ a.id = made + 1 /\ a.of = signIns[r].of
    BY <2>1 DEF CreateAccount, Account
  <2>2. ASSUME NEW name, NEW role, CreateUser(name, role)
        PROVE  a \in accounts \/ (a.id = made + 1 /\ a.of = Local)
    BY <2>2 DEF CreateUser, Account
  <2>3. ASSUME Boot
        PROVE  a \in accounts \/ (a.id = made + 1 /\ a.of = Local)
    BY <2>3 DEF Boot, Account
  <2>4. ASSUME NEW r \in Requests, SignInStep(r)
        PROVE  CreateAccount(r)
    BY <1>2, <2>4 DEF SignInStep, Exchange, FindAccount, VerifyAccount, UnlinkAccount, SignInFails,
                      RefreshAccount, LinkAccount, EnterTenants, ResolveTeams, LeaveTeams, JoinTeams, OpenSession
  <2>5. ~GateStep /\ ~Crash /\ ~UNCHANGED accountVars
    BY <1>2 DEF GateStep, GateChanges, PostChange, PostDelete, ReportArrives, ReportLost, FinishDelete, DeleteFails,
                Crash, accountVars
  <2>6. ASSUME AdminStep
        PROVE  \E name \in LocalNames, role \in Roles : CreateUser(name, role)
    BY <1>2, <2>6 DEF AdminStep, CheckForm, WriteForm, SetTenants, AddMember, RemoveMember, SetMembers,
                      SetTargetTenants, DeleteTeam
  <2> QED
    BY <2>1, <2>2, <2>3, <2>4, <2>5, <2>6 DEF AccountsNext
<1> QED
  BY <1>1, <1>2

\* An identity that has been left aside stays so.
LEMMA StrandedStays ==
  ASSUME [AccountsNext]_accountVars
  PROVE  stranded \subseteq stranded'
<1>1. ASSUME NEW r \in Requests, SignInStep(r)
      PROVE  stranded \subseteq stranded'
  BY <1>1 DEF SignInStep, Exchange, FindAccount, VerifyAccount, UnlinkAccount, SignInFails, RefreshAccount, CreateAccount, LinkAccount,
              EnterTenants, ResolveTeams, LeaveTeams, JoinTeams, OpenSession
<1>2. ASSUME GateStep
      PROVE  stranded \subseteq stranded'
  BY <1>2 DEF GateStep, GateChanges, PostChange, PostDelete, ReportArrives, ReportLost, FinishDelete, DeleteFails
<1>3. ASSUME AdminStep
      PROVE  stranded \subseteq stranded'
  BY <1>3 DEF AdminStep, CheckForm, WriteForm, CreateUser, SetTenants, AddMember, RemoveMember,
              SetMembers, SetTargetTenants, DeleteTeam
<1> QED
  BY <1>1, <1>2, <1>3 DEF AccountsNext, Crash, Boot, accountVars

\* How the link of an account that stays can change: another account of the identity is
\* linked, its removal begins, or a sign-in deletes it as stale.
LEMMA LinksMove ==
  ASSUME RowsOK, KeysOK, RequestsOK, [AccountsNext]_accountVars, NEW i \in Identities
  PROVE  \/ linked'[i] = linked[i]
         \/ \E r \in Requests : /\ signIns[r].pc = "link" /\ signIns[r].of = i
                                /\ linked'[i] = signIns[r].account
                                /\ Has(signIns[r].account) /\ UNCHANGED accounts
         \/ i \in stranded'
         \/ removal' = linked[i]
         \/ \A a \in accounts' : a.id # linked[i]
<1>1. CASE UNCHANGED linked
  BY <1>1
<1>2. ASSUME NEW r \in Requests, LinkAccount(r)
      PROVE  \/ linked'[i] = linked[i]
             \/ /\ signIns[r].pc = "link" /\ signIns[r].of = i
                /\ linked'[i] = signIns[r].account
                /\ Has(signIns[r].account) /\ UNCHANGED accounts
  BY <1>2 DEF LinkAccount, At, KeysOK
<1>3. ASSUME NEW j \in Identities, PostDelete(j)
      PROVE  linked'[i] = linked[i] \/ removal' = linked[i]
  BY <1>3 DEF PostDelete
<1>4. ASSUME NEW id, Gone(id)
      PROVE  linked'[i] = linked[i] \/ \A a \in accounts' : a.id # linked[i]
  BY <1>4 DEF Gone
<1>5. ASSUME NEW r \in Requests, SignInStep(r)
      PROVE  UNCHANGED linked \/ LinkAccount(r) \/ UnlinkAccount(r)
  BY <1>5 DEF SignInStep, Exchange, FindAccount, VerifyAccount, SignInFails, RefreshAccount,
              CreateAccount, EnterTenants, ResolveTeams, LeaveTeams, JoinTeams, OpenSession
<1>8. ASSUME NEW r \in Requests, UnlinkAccount(r)
      PROVE  linked'[i] = linked[i] \/ i \in stranded'
  BY <1>8 DEF UnlinkAccount, KeysOK
<1>6. ASSUME GateStep
      PROVE  UNCHANGED linked \/ (\E j \in Identities : PostDelete(j)) \/ (\E id : Gone(id))
  BY <1>6 DEF GateStep, GateChanges, PostChange, ReportArrives, ReportLost, FinishDelete,
              DeleteFails
<1>7. ASSUME AdminStep
      PROVE  UNCHANGED linked \/ (\E id : Gone(id))
  BY <1>7 DEF AdminStep, CheckForm, WriteForm, CreateUser, SetTenants, AddMember, RemoveMember,
              SetMembers, SetTargetTenants, DeleteTeam
<1> QED
  BY <1>1, <1>2, <1>3, <1>4, <1>5, <1>6, <1>7, <1>8 DEF AccountsNext, Crash, Boot, accountVars

\* A removal that has begun ends with the account gone, with the crash, or by failing.
LEMMA RemovalMoves ==
  ASSUME [AccountsNext]_accountVars, removal # 0
  PROVE  \/ removal' = removal
         \/ \A a \in accounts' : a.id # removal
         \/ Crash \/ DeleteFails
<1>1. ASSUME NEW r \in Requests, SignInStep(r)
      PROVE  removal' = removal
  BY <1>1 DEF SignInStep, Exchange, FindAccount, VerifyAccount, UnlinkAccount, SignInFails, RefreshAccount, CreateAccount, LinkAccount,
              EnterTenants, ResolveTeams, LeaveTeams, JoinTeams, OpenSession
<1>2. ASSUME GateStep
      PROVE  removal' = removal \/ DeleteFails \/ \A a \in accounts' : a.id # removal
  BY <1>2 DEF GateStep, GateChanges, PostChange, PostDelete, ReportArrives, ReportLost, FinishDelete, Gone
<1>3. ASSUME AdminStep
      PROVE  removal' = removal
  BY <1>3 DEF AdminStep, CheckForm, WriteForm, CreateUser, SetTenants, AddMember, RemoveMember,
              SetMembers, SetTargetTenants, DeleteTeam
<1> QED
  BY <1>1, <1>2, <1>3 DEF AccountsNext, Boot, accountVars

\* A sign-in that waits to link an account still does, has linked it, or ended without.
LEMMA WaitMoves ==
  ASSUME RowsOK, KeysOK, RequestsOK, [AccountsNext]_accountVars, NEW r \in Requests,
         signIns[r].pc = "link"
  PROVE  \/ signIns'[r].pc = "link" /\ signIns'[r].account = signIns[r].account
         \/ /\ Has(signIns[r].account) => linked'[signIns[r].of] = signIns[r].account
            /\ UNCHANGED accounts
         \/ Crash \/ SignInFails(r)
<1>1. CASE Waits(r)
  BY <1>1 DEF Waits
<1>2. CASE SignInStep(r)
  <2>1. LinkAccount(r) \/ SignInFails(r)
    BY <1>2 DEF SignInStep, At, Exchange, FindAccount, VerifyAccount, UnlinkAccount, RefreshAccount,
                CreateAccount, LinkAccount, EnterTenants, ResolveTeams, LeaveTeams, JoinTeams, OpenSession
  <2>2. signIns[r].of \in Identities
    BY RequestShapes DEF SomeSignIn
  <2> QED
    BY <2>1, <2>2 DEF LinkAccount, KeysOK
<1> QED
  BY <1>1, <1>2, SignInsMove

\* An account of an identity stays linked, about to be linked or about to be removed, and
\* alone of its identity, unless the step strands the identity.
LEMMA LinkStep ==
  ASSUME RowsOK, KeysOK, RequestsOK, LinkInv, [AccountsNext]_accountVars
  PROVE  LinkInv'
<1>1. NamesBelong /\ NamesBelong'
  BY NamesStep DEF LinkInv
<1>2. RowsOK' /\ stranded \subseteq stranded'
  BY RowsMove, RowsStep, StrandedStays
<1>3. \A a \in accounts, b \in accounts : a.of \in Identities \ stranded /\ b.of = a.of => b = a
  BY DEF LinkInv
<1>4. \A a \in accounts : a.id # made + 1 /\ a.id # 0
  <2>1. made \in Nat /\ \A a \in accounts : a.id \in 1 .. MaxAccounts /\ a.id <= made
    BY DEF RowsOK, SomeAccount, AccountIds
  <2> QED
    BY <2>1
<1>5. ASSUME NEW r \in Requests, CreateAccount(r), ~Taken(signIns[r].told.name)
      PROVE  /\ \A b \in accounts : b.of = signIns[r].of => b.of \in stranded'
             /\ signIns'[r].pc = "link" /\ signIns'[r].account = made + 1
  <2>1. signIns[r].pc = "create" /\ signIns[r] \in SomeSignIn
    BY <1>5, RequestShapes DEF CreateAccount, At
  <2>2. signIns'[r] = [To(r, "link") EXCEPT !.account = made + 1]
    BY <1>5 DEF CreateAccount, Becomes
  <2>3. signIns'[r].pc = "link" /\ signIns'[r].account = made + 1
    BY <2>1, <2>2 DEF To, SomeSignIn
  <2> QED
    BY <1>5, <2>3 DEF CreateAccount
<1>6. ASSUME NEW a \in accounts', a.of \in Identities \ stranded'
      PROVE  \A b \in accounts' : b.of = a.of => b = a
  <2> SUFFICES ASSUME NEW b \in accounts', b.of = a.of
               PROVE  b.id = a.id
    BY <1>2 DEF RowsOK
  <2>1. ASSUME NEW x \in accounts', x.of = a.of
        PROVE  \/ \E y \in accounts : y.id = x.id /\ y.of = a.of
               \/ x.id = made + 1 /\ \A y \in accounts : y.of # a.of
    <3>1. x.of # Local
      BY <1>6, <2>1, AccountsAssumption
    <3>2. CASE \E y \in accounts : y.id = x.id /\ y.of = x.of
      BY <2>1, <3>2
    <3>3. ASSUME NEW r \in Requests, CreateAccount(r), ~Taken(signIns[r].told.name),
                 x.id = made + 1, x.of = signIns[r].of
          PROVE  \A y \in accounts : y.of # a.of
      BY <1>5, <1>6, <2>1, <3>3
    <3> QED
      BY <3>1, <3>2, <3>3, Newcomers
  <2>2. \/ \E y \in accounts : y.id = a.id /\ y.of = a.of
        \/ a.id = made + 1 /\ \A y \in accounts : y.of # a.of
    BY <2>1
  <2>3. \/ \E y \in accounts : y.id = b.id /\ y.of = a.of
        \/ b.id = made + 1 /\ \A y \in accounts : y.of # a.of
    BY <2>1
  <2>4. \A y, z \in accounts : y.of = a.of /\ z.of = a.of => y = z
    BY <1>2, <1>3, <1>6
  <2> QED
    BY <2>2, <2>3, <2>4
<1>7. ASSUME NEW a \in accounts', a.of \in Identities \ stranded'
      PROVE  \/ linked'[a.of] = a.id
             \/ removal' = a.id
             \/ \E r \in Requests : signIns'[r].pc = "link" /\ signIns'[r].account = a.id
  <2>1. ASSUME NEW r \in Requests, CreateAccount(r), ~Taken(signIns[r].told.name), a.id = made + 1
        PROVE  signIns'[r].pc = "link" /\ signIns'[r].account = a.id
    BY <1>5, <2>1
  <2>2. ASSUME NEW b \in accounts, b.id = a.id, b.of = a.of
        PROVE  \/ linked'[a.of] = a.id
               \/ removal' = a.id
               \/ \E r \in Requests : signIns'[r].pc = "link" /\ signIns'[r].account = a.id
    <3>1. b.of \in Identities \ stranded /\ \A c \in accounts : c.of = b.of => c = b
      BY <1>2, <1>3, <1>7, <2>2
    <3>2. \/ linked[b.of] = b.id
          \/ removal = b.id
          \/ \E r \in Requests : signIns[r].pc = "link" /\ signIns[r].account = b.id
      BY <3>1 DEF LinkInv
    <3>3. ASSUME NEW r \in Requests, signIns[r].pc = "link", Has(signIns[r].account)
          PROVE  \E c \in accounts : c.id = signIns[r].account /\ c.of = signIns[r].of
      BY <1>1, <3>3 DEF Has, NamesBelong, Belongs
    <3>4. CASE linked[b.of] = b.id
      <4>1. ASSUME NEW r \in Requests, signIns[r].pc = "link", signIns[r].of = b.of,
                   Has(signIns[r].account)
            PROVE  signIns[r].account = b.id
        BY <3>1, <3>3, <4>1
      <4>2. \/ linked'[b.of] = linked[b.of]
            \/ \E r \in Requests : /\ signIns[r].pc = "link" /\ signIns[r].of = b.of
                                   /\ linked'[b.of] = signIns[r].account
                                   /\ Has(signIns[r].account) /\ UNCHANGED accounts
            \/ b.of \in stranded'
            \/ removal' = linked[b.of]
            \/ \A c \in accounts' : c.id # linked[b.of]
        BY <3>1, LinksMove
      <4>3. ASSUME NEW r \in Requests, signIns[r].pc = "link", signIns[r].of = b.of,
                   linked'[b.of] = signIns[r].account, Has(signIns[r].account)
            PROVE  linked'[a.of] = a.id
        BY <2>2, <4>1, <4>3
      <4>4. b.of \notin stranded' /\ \E c \in accounts' : c.id = linked[b.of]
        BY <1>7, <2>2, <3>4
      <4>5. CASE \E r \in Requests : /\ signIns[r].pc = "link" /\ signIns[r].of = b.of
                                     /\ linked'[b.of] = signIns[r].account
                                     /\ Has(signIns[r].account) /\ UNCHANGED accounts
        BY <4>3, <4>5
      <4>6. CASE linked'[b.of] = linked[b.of] \/ removal' = linked[b.of]
        BY <2>2, <3>4, <4>6
      <4> QED
        BY <4>2, <4>4, <4>5, <4>6
    <3>5. CASE removal = b.id
      <4>1. removal # 0
        BY <1>4, <3>5
      <4>2. ~Crash /\ ~DeleteFails
        <5>1. b.of \in Removing /\ b.of \notin stranded'
          BY <1>7, <2>2, <3>5 DEF Removing
        <5> QED
          BY <5>1 DEF Crash, DeleteFails
      <4> QED
        BY <2>2, <3>5, <4>1, <4>2, RemovalMoves
    <3>6. ASSUME NEW r \in Requests, signIns[r].pc = "link", signIns[r].account = b.id
          PROVE  \/ linked'[a.of] = a.id
                 \/ signIns'[r].pc = "link" /\ signIns'[r].account = a.id
      <4>1. Has(signIns[r].account)
        BY <3>6 DEF Has
      <4>2. signIns[r].of = b.of
        BY <1>1, <3>6 DEF NamesBelong, Belongs
      <4>3. ~Crash /\ ~SignInFails(r)
        BY <1>7, <2>2, <3>6, <4>2 DEF Crash, SignInFails, Unlinked
      <4> QED
        BY <2>2, <3>6, <4>1, <4>2, <4>3, WaitMoves
    <3> QED
      BY <3>2, <3>4, <3>5, <3>6
  <2>3. a.of # Local
    BY <1>7, AccountsAssumption
  <2> QED
    BY <2>1, <2>2, <2>3, Newcomers
<1> QED
  BY <1>1, <1>6, <1>7 DEF LinkInv

\* Unless a crash, a failing statement, a link deleted as stale or a second account under a
\* new name has left it aside, the one account of an identity is linked, about to be linked
\* or about to be removed.
THEOREM LinkInvariant == AdministrationSpec => [](AccountsTypeOK /\ LinkInv)
<1>1. AccountsInit => LinkInv
  <2>1. AccountsInit => \A a \in accounts : a.of = Local
    BY DEF AccountsInit, Account
  <2> QED
    BY <2>1, NamesInit, AccountsAssumption DEF LinkInv
<1>2. AccountsTypeOK /\ LinkInv /\ [AccountsNext]_accountVars => LinkInv'
  BY LinkStep DEF AccountsTypeOK
<1> QED
  BY <1>1, <1>2, AccountsMove, TypeCorrect, PTL

\* Whatever was lost, late or removed, an identity can sign in again.
THEOREM SignInsPossible == AdministrationSpec => []SignInPossible
<1>1. ASSUME AccountsTypeOK, LinkInv
      PROVE  SignInPossible
  <2> SUFFICES ASSUME removal = 0, \A r \in Requests : signIns[r].pc = "idle",
                      NEW i \in Identities \ stranded, linked[i] = 0,
                      NEW a \in accounts, a.of = i
               PROVE  FALSE
    BY DEF SignInPossible
  <2>1. \/ linked[i] = a.id
        \/ removal = a.id
        \/ \E r \in Requests : signIns[r].pc = "link" /\ signIns[r].account = a.id
    BY <1>1 DEF LinkInv
  <2>2. a.id # 0
    BY <1>1 DEF AccountsTypeOK, RowsOK, SomeAccount, AccountIds
  <2> QED
    BY <2>1, <2>2
<1> QED
  BY <1>1, LinkInvariant, PTL
-----------------------------------------------------------------------------
(***************************************************************************)
(* The last administrator.                                                 *)
(***************************************************************************)
\* A form that waits to be written was waiting already, or is checked in this step.
LEMMA FormsMove ==
  ASSUME RequestsOK, [AccountsNext]_accountVars, NEW f \in Forms, forms'[f].pc = "write"
  PROVE  \/ forms'[f] = forms[f]
         \/ \E id \in AccountIds, what \in {"demote", "promote", "deactivate", "activate", "delete"} :
              CheckForm(f, id, what)
<1>1. ASSUME NEW r \in Requests, SignInStep(r)
      PROVE  forms' = forms
  BY <1>1 DEF SignInStep, Exchange, FindAccount, VerifyAccount, UnlinkAccount, SignInFails, RefreshAccount, CreateAccount, LinkAccount,
              EnterTenants, ResolveTeams, LeaveTeams, JoinTeams, OpenSession
<1>2. ASSUME GateStep
      PROVE  forms' = forms
  BY <1>2 DEF GateStep, GateChanges, PostChange, PostDelete, ReportArrives, ReportLost, FinishDelete, DeleteFails
<1>3. ASSUME NEW g \in Forms, NEW id, NEW what, CheckForm(g, id, what), g # f
      PROVE  forms'[f] = forms[f]
  BY <1>3 DEF CheckForm, RequestsOK
<1>4. ASSUME NEW g \in Forms, WriteForm(g)
      PROVE  forms'[f] = forms[f]
  BY <1>4 DEF WriteForm, RequestsOK, AtRest
<1>5. ASSUME AdminStep, ~\E g \in Forms, id \in AccountIds,
                    what \in {"demote", "promote", "deactivate", "activate", "delete"} : CheckForm(g, id, what),
             ~\E g \in Forms : WriteForm(g)
      PROVE  forms' = forms
  BY <1>5 DEF AdminStep, CreateUser, SetTenants, AddMember, RemoveMember, SetMembers,
              SetTargetTenants, DeleteTeam
<1>6. CASE AdminStep
  BY <1>3, <1>4, <1>5, <1>6
<1>7. ~Crash
  BY DEF Crash, AtRest
<1> QED
  BY <1>1, <1>2, <1>6, <1>7 DEF AccountsNext, Boot, accountVars

\* A form is about a local account, and one that takes an administrator away was checked
\* to leave another.
LEMMA FormsStep ==
  ASSUME RowsOK, KeysOK, RequestsOK, FormsInv, [AccountsNext]_accountVars
  PROVE  FormsInv'
<1>1. NamesBelong'
  BY NamesStep DEF FormsInv
<1>2. \A id \in 0 .. MaxAccounts : Belongs(id, Local) => StillBelongs(id, Local)
  BY RowsMove, BelongStays
<1>3. \A id \in AccountIds : id \in 0 .. MaxAccounts
  BY AccountsAssumption DEF AccountIds
<1>4. ASSUME NEW f \in Forms, forms'[f].pc = "write"
      PROVE  /\ StillBelongs(forms'[f].id, Local)
             /\ Weakens(forms'[f].what) /\ forms'[f].saw # {} => forms'[f].saw \ {forms'[f].id} # {}
  <2>1. CASE forms'[f] = forms[f]
    <3>1. forms[f].pc = "write" /\ forms[f] \in SomeForm
      BY <1>4, <2>1, RequestShapes
    <3>2. forms[f].id \in 0 .. MaxAccounts
      BY <1>3, <3>1 DEF SomeForm
    <3> QED
      BY <1>2, <2>1, <3>1, <3>2 DEF FormsInv
  <2>2. ASSUME NEW id \in AccountIds,
               NEW what \in {"demote", "promote", "deactivate", "activate", "delete"},
               CheckForm(f, id, what)
        PROVE  /\ StillBelongs(forms'[f].id, Local)
               /\ Weakens(forms'[f].what) /\ forms'[f].saw # {} => forms'[f].saw \ {forms'[f].id} # {}
    <3>1. forms'[f] = [pc |-> "write", id |-> id, what |-> what, saw |-> ActiveAdmins]
      BY <2>2 DEF CheckForm, RequestsOK
    <3>2. forms'[f].id = id /\ forms'[f].what = what /\ forms'[f].saw = ActiveAdmins
      BY <3>1
    <3>3. PICK a \in accounts : a.id = id
      BY <2>2 DEF CheckForm, Has
    <3>4. GetById(id) = a
      BY <3>3, TheOne
    <3>5. Belongs(id, Local)
      BY <2>2, <3>3, <3>4 DEF CheckForm, Belongs, RowsOK
    <3>6. Weakens(what) /\ ActiveAdmins # {} => ActiveAdmins \ {id} # {}
      <4>1. CASE a.role = "admin"
        BY <2>2, <3>4, <4>1 DEF CheckForm, OthersThan
      <4>2. CASE a.role # "admin"
        <5>1. id \notin ActiveAdmins
          BY <3>3, <4>2 DEF ActiveAdmins, RowsOK
        <5> QED
          BY <5>1
      <4> QED
        BY <4>1, <4>2
    <3> QED
      BY <1>2, <1>3, <3>2, <3>5, <3>6
  <2> QED
    BY <1>4, <2>1, <2>2, FormsMove
<1> QED
  BY <1>1, <1>4 DEF FormsInv, Belongs, StillBelongs, Weakens

\* The edits that were checked are of local accounts, and each leaves one of the
\* administrators that its check saw.
THEOREM FormsInvariant == AdministrationSpec => [](AccountsTypeOK /\ FormsInv)
<1>1. AccountsInit => FormsInv
  BY NamesInit DEF AccountsInit, FormsInv, AtRest
<1>2. AccountsTypeOK /\ FormsInv /\ [AccountsNext]_accountVars => FormsInv'
  BY FormsStep DEF AccountsTypeOK
<1> QED
  BY <1>1, <1>2, AccountsMove, TypeCorrect, PTL

\* The row of a local account that is not the one a step writes stays as it is: signing in
\* and Obligate write rows of identities only, and a form the row it was checked for.
LEMMA LocalRowsStay ==
  ASSUME RowsOK, RequestsOK, NamesBelong, [AccountsNext]_accountVars,
         NEW a \in accounts, a.of = Local
  PROVE  \/ a \in accounts'
         \/ \E f \in Forms : WriteForm(f) /\ forms[f].id = a.id
<1>1. ASSUME NEW i \in Identities, NEW id, Belongs(id, i)
      PROVE  a.id # id
  BY <1>1, AccountsAssumption DEF Belongs
<1>2. ASSUME NEW r \in Requests, RefreshAccount(r)
      PROVE  a \in accounts'
  <2>1. signIns[r].pc # "idle" /\ signIns[r].of \in Identities
    BY <1>2, RequestShapes DEF RefreshAccount, At, SomeSignIn
  <2>2. a.id # signIns[r].account
    BY <1>1, <2>1 DEF NamesBelong
  <2> QED
    BY <1>2, <2>2 DEF RefreshAccount
<1>3. ASSUME NEW i \in Identities, PostChange(i)
      PROVE  a \in accounts'
  <2>1. a.id # gate[i].linked
    BY <1>1 DEF NamesBelong
  <2>2. \/ accounts' = {IF b.id # gate[i].linked THEN b ELSE [b EXCEPT !.role = gate[i].role] : b \in accounts}
        \/ accounts' = {IF b.id # gate[i].linked THEN b ELSE [b EXCEPT !.active = ~@] : b \in accounts}
    BY <1>3, Zenon DEF PostChange
  <2> QED
    BY <2>1, <2>2
<1>4. ASSUME FinishDelete
      PROVE  a \in accounts'
  <2>1. a.id # removal
    BY <1>1, <1>4 DEF FinishDelete, NamesBelong
  <2> QED
    BY <1>4, <2>1 DEF FinishDelete, Gone
<1>5. ASSUME NEW f \in Forms, WriteForm(f), forms[f].id # a.id
      PROVE  a \in accounts'
  BY <1>5 DEF WriteForm, Gone
<1>6. ASSUME NEW r \in Requests, SignInStep(r), ~RefreshAccount(r)
      PROVE  a \in accounts'
  BY <1>6 DEF SignInStep, Exchange, FindAccount, VerifyAccount, UnlinkAccount, SignInFails,
              CreateAccount, LinkAccount, EnterTenants, ResolveTeams, LeaveTeams, JoinTeams, OpenSession
<1>7. ASSUME GateStep
      PROVE  a \in accounts'
  <2>1. CASE \/ \E i \in Identities : GateChanges(i) \/ PostDelete(i)
             \/ \E p \in reports : ReportArrives(p) \/ ReportLost(p)
             \/ DeleteFails
    BY <2>1 DEF GateChanges, PostDelete, ReportArrives, ReportLost, DeleteFails
  <2> QED
    BY <1>3, <1>4, <1>7, <2>1 DEF GateStep
<1>8. ASSUME AdminStep, ~\E f \in Forms : WriteForm(f)
      PROVE  a \in accounts'
  BY <1>8 DEF AdminStep, CheckForm, CreateUser, SetTenants, AddMember, RemoveMember, SetMembers,
              SetTargetTenants, DeleteTeam
<1> QED
  BY <1>2, <1>5, <1>6, <1>7, <1>8 DEF AccountsNext, Boot, Crash, accountVars

\* Only Obligate, or an edit that others overtook, takes the last active administrator.
THEOREM AdministratorsRemain == AdministrationSpec => AdminRemains
<1> DEFINE Step == ActiveAdmins # {} /\ ActiveAdmins' = {} =>
              \/ \A id \in ActiveAdmins : GetById(id).of # Local
              \/ \E f \in Forms : /\ forms[f].pc = "write" /\ forms'[f].pc = "idle"
                                  /\ forms[f].saw # ActiveAdmins
<1>1. ASSUME AccountsTypeOK, FormsInv, [AccountsNext]_accountVars
      PROVE  Step
  <2>1. RowsOK /\ RequestsOK /\ NamesBelong
    BY <1>1 DEF AccountsTypeOK, FormsInv
  <2> SUFFICES ASSUME ActiveAdmins' = {}, NEW id \in ActiveAdmins, GetById(id).of = Local
               PROVE  \E f \in Forms : /\ forms[f].pc = "write" /\ forms'[f].pc = "idle"
                                       /\ forms[f].saw # ActiveAdmins
    OBVIOUS
  <2>2. PICK a \in accounts : a.id = id /\ a.role = "admin" /\ a.active
    BY DEF ActiveAdmins
  <2>3. a.of = Local
    BY <2>1, <2>2, TheOne
  <2>4. \A b \in accounts' : ~(b.role = "admin" /\ b.active)
    BY DEF ActiveAdmins
  <2>5. PICK f \in Forms : WriteForm(f) /\ forms[f].id = a.id
    BY <1>1, <2>1, <2>2, <2>3, <2>4, LocalRowsStay
  <2> DEFINE w == forms[f]
  <2>6. w.pc = "write" /\ forms'[f].pc = "idle" /\ w \in SomeForm
    BY <2>1, <2>5, RequestShapes DEF WriteForm, RequestsOK, AtRest
  <2>7. ASSUME w.saw = ActiveAdmins
        PROVE  FALSE
    <3>1. CASE Weakens(w.what)
      <4>1. PICK k \in ActiveAdmins : k # w.id
        BY <1>1, <2>6, <2>7, <3>1 DEF FormsInv
      <4>2. PICK b \in accounts : b.id = k /\ b.role = "admin" /\ b.active
        BY DEF ActiveAdmins
      <4>3. b \in accounts'
        BY <2>5, <4>1, <4>2 DEF WriteForm, Gone
      <4> QED
        BY <2>4, <4>2, <4>3
    <3>2. CASE ~Weakens(w.what)
      <4>1. w.what \in {"promote", "activate"}
        BY <2>6, <3>2 DEF SomeForm, Weakens
      <4>2. accounts' = {IF b.id = w.id THEN Updated(b, w.what) ELSE b : b \in accounts}
        BY <2>5, <4>1 DEF WriteForm
      <4>3. Updated(a, w.what) \in accounts'
        BY <2>2, <2>5, <4>2
      <4>4. a \in SomeAccount
        BY <2>1 DEF RowsOK
      <4>5. Updated(a, w.what).role = "admin" /\ Updated(a, w.what).active
        <5>1. CASE w.what = "promote"
          <6>1. Updated(a, w.what) = [a EXCEPT !.role = "admin"]
            BY <5>1 DEF Updated
          <6> QED
            BY <2>2, <4>4, <6>1 DEF SomeAccount
        <5>2. CASE w.what = "activate"
          <6>1. Updated(a, w.what) = [a EXCEPT !.active = TRUE]
            BY <5>2 DEF Updated
          <6> QED
            BY <2>2, <4>4, <6>1 DEF SomeAccount
        <5> QED
          BY <4>1, <5>1, <5>2
      <4> QED
        BY <2>4, <4>3, <4>5
    <3> QED
      BY <3>1, <3>2
  <2> QED
    BY <2>6, <2>7
<1>2. AccountsTypeOK /\ FormsInv /\ [AccountsNext]_accountVars => [Step]_accountVars
  BY <1>1
<1> QED
  BY <1>2, FormsInvariant, AccountsMove, PTL DEF AdminRemains
-----------------------------------------------------------------------------
(***************************************************************************)
(* Files.  The tables stay consistent: Consistent says what matters of     *)
(* them, FilesOK what has to hold for every import to keep it so (it is in *)
(* ImportExportInvariants, like what the other theorems need).  First      *)
(* induction on numbers, in the forms that need no operator as a           *)
(* parameter: a set of numbers has a least one, and one that holds 0 and,  *)
(* with every number, the next one, holds them all.                        *)
(***************************************************************************)
\* A set of numbers has a least one.
LEMMA Least ==
  ASSUME NEW T \in SUBSET Nat, T # {}
  PROVE  \E n \in T : \A m \in T : n <= m
<1> DEFINE R == OpToRel(<, Nat)
<1>1. IsWellFoundedOn(R, Nat)
  BY NatLessThanWellFounded
<1>2. ASSUME NEW m \in Nat, NEW n \in Nat, m < n
      PROVE  <<m, n>> \in R
  BY <1>2 DEF OpToRel
<1> HIDE DEF R
<1>3. PICK n \in T : \A m \in T : ~(<<m, n>> \in R)
  BY <1>1, WFMin
<1>4. ASSUME NEW m \in T
      PROVE  n <= m
  <2>1. m \in Nat /\ n \in Nat /\ ~(m < n)
    BY <1>2, <1>3
  <2> QED
    BY <2>1
<1> QED
  BY <1>4

\* Induction over a set.
LEMMA SetInduction ==
  ASSUME NEW T, 0 \in T, \A n \in Nat : n \in T => n + 1 \in T
  PROVE  Nat \subseteq T
<1> SUFFICES ASSUME NEW k \in Nat, k \notin T
             PROVE  FALSE
  OBVIOUS
<1> DEFINE U == {n \in Nat : n \notin T}
<1>1. U \in SUBSET Nat /\ U # {}
  OBVIOUS
<1> HIDE DEF U
<1>2. PICK n \in U : \A m \in U : n <= m
  BY <1>1, Least
<1>3. n \in Nat /\ n # 0 /\ n \notin T
  BY DEF U
<1>4. n - 1 \in Nat /\ ~(n <= n - 1) /\ (n - 1) + 1 = n
  BY <1>3
<1>5. n - 1 \in T
  BY <1>2, <1>4 DEF U
<1> QED
  BY <1>3, <1>4, <1>5

-----------------------------------------------------------------------------
(***************************************************************************)
(* Folds.  FoldLeft goes over the sets of positions of a sequence, the     *)
(* largest position last; what a proof needs of it is the results of the   *)
(* first k positions, for every k.                                         *)
(***************************************************************************)
\* A set of positions that is not empty has a largest one.
LEMMA LargestPosition ==
  ASSUME NEW n \in Nat, NEW S \in SUBSET (1..n), S # {}
  PROVE  /\ Max(S) \in S /\ \A x \in S : x <= Max(S)
         /\ \A m \in S : (\A x \in S : x <= m) => m = Max(S)
<1> DEFINE T == {n - x : x \in S}
<1>1. T \in SUBSET Nat /\ T # {}
  <2>1. \A x \in S : n - x \in Nat
    OBVIOUS
  <2> QED
    BY <2>1
<1>2. PICK t \in T : \A m \in T : t <= m
  <2> HIDE DEF T
  <2> QED
    BY <1>1, Least
<1>3. PICK x \in S : t = n - x
  BY <1>2
<1>4. ASSUME NEW y \in S
      PROVE  x >= y
  <2>1. n - x <= n - y
    BY <1>2, <1>3
  <2>2. x \in Int /\ y \in Int
    OBVIOUS
  <2> QED
    BY <2>1, <2>2
<1>5. Max(S) \in S /\ \A y \in S : Max(S) >= y
  <2>1. \E z \in S : \A y \in S : z >= y
    BY <1>4
  <2> QED
    BY <2>1 DEF Max
<1>6. \A y \in S : y \in Int
  OBVIOUS
<1> HIDE DEF T
<1>7. ASSUME NEW y \in S
      PROVE  y <= Max(S)
  <2>1. Max(S) >= y /\ Max(S) \in Int /\ y \in Int
    BY <1>5, <1>6
  <2> QED
    BY <2>1
<1>8. ASSUME NEW m \in S, \A y \in S : y <= m
      PROVE  m = Max(S)
  <2>1. Max(S) <= m /\ m <= Max(S) /\ Max(S) \in Int /\ m \in Int
    BY <1>5, <1>6, <1>7, <1>8
  <2> QED
    BY <2>1
<1> QED
  BY <1>5, <1>7, <1>8

\* The sets of the first positions.
LEMMA FirstPositions ==
  ASSUME NEW n \in Nat, NEW k \in 0..n
  PROVE  /\ (1..k) \in SUBSET (1..n)
         /\ k = 0 => 1..k = {}
         /\ k # 0 => 1..k # {} /\ Max(1..k) = k /\ (1..k) \ {Max(1..k)} = 1..(k - 1)
<1>1. (1..k) \in SUBSET (1..n) /\ (k = 0 => 1..k = {})
  OBVIOUS
<1>2. CASE k # 0
  <2>1. k \in 1..k /\ \A x \in 1..k : x <= k
    BY <1>2
  <2>2. Max(1..k) = k
    BY <1>1, <2>1, LargestPosition
  <2>3. (1..k) \ {k} = 1..(k - 1)
    BY <1>2
  <2> QED
    BY <1>1, <1>2, <2>1, <2>2, <2>3
<1> QED
  BY <1>1, <1>2

\* A fold is well defined: its equation has a solution.
LEMMA FoldDefined ==
  ASSUME NEW n \in Nat, NEW V, NEW base \in V, NEW step \in [V \X (1..n) -> V]
  PROVE  \E h : FoldEquation(h, n, V, base, step)
<1> USE DEF FoldEquation
<1> DEFINE Solves(h, k) == FoldEquation(h, k, V, base, step)
           T == {k \in Nat : k <= n => \E h : Solves(h, k)}
<1>1. 0 \in T
  <2> DEFINE h == [S \in SUBSET (1..0) |-> base]
  <2>1. \A S \in SUBSET (1..0) : S = {}
    OBVIOUS
  <2>2. h \in [SUBSET (1..0) -> V] /\ \A S \in SUBSET (1..0) : h[S] = base
    OBVIOUS
  <2> HIDE DEF h
  <2>3. Solves(h, 0)
    BY <2>1, <2>2
  <2> QED
    BY <2>3
<1>2. ASSUME NEW k \in Nat, k \in T
      PROVE  k + 1 \in T
  <2>1. k + 1 \in Nat
    OBVIOUS
  <2> SUFFICES ASSUME k + 1 <= n
               PROVE  \E h : Solves(h, k + 1)
    BY <2>1
  <2>2. PICK h : Solves(h, k)
    <3>1. k <= n
      OBVIOUS
    <3> QED
      BY <1>2, <3>1
  <2> DEFINE rest(S) == S \ {k + 1}
             new == [S \in SUBSET (1..(k + 1)) |->
                       IF k + 1 \in S THEN step[<<h[rest(S)], k + 1>>] ELSE h[S]]
  <2>3. ASSUME NEW S \in SUBSET (1..(k + 1))
        PROVE  rest(S) \in SUBSET (1..k)
    OBVIOUS
  <2>4. ASSUME NEW S \in SUBSET (1..(k + 1))
        PROVE  /\ new[S] \in V
               /\ new[S] = IF S = {} THEN base ELSE step[<<new[S \ {Max(S)}], Max(S)>>]
    <3>1. CASE k + 1 \in S
      <4>1. Max(S) = k + 1
        <5>1. S # {} /\ \A x \in S : x <= k + 1
          BY <3>1
        <5>2. \A m \in S : (\A x \in S : x <= m) => m = Max(S)
          BY <2>1, <5>1, LargestPosition
        <5> QED
          BY <3>1, <5>1, <5>2
      <4>2. rest(S) \in SUBSET (1..(k + 1)) /\ k + 1 \notin rest(S) /\ rest(S) \in SUBSET (1..k)
        BY <2>3
      <4>3. new[rest(S)] = h[rest(S)] /\ h[rest(S)] \in V
        BY <2>2, <4>2
      <4>4. new[S] = step[<<h[rest(S)], k + 1>>]
        BY <3>1
      <4>5. <<h[rest(S)], k + 1>> \in V \X (1..n)
        BY <4>3
      <4>6. step[<<h[rest(S)], k + 1>>] \in V
        BY <4>5
      <4>7. S # {} /\ S \ {Max(S)} = rest(S)
        BY <3>1, <4>1
      <4> HIDE DEF new, rest
      <4>8. new[S] = step[<<new[S \ {Max(S)}], Max(S)>>]
        BY <4>1, <4>3, <4>4, <4>7
      <4> QED
        BY <4>4, <4>6, <4>7, <4>8
    <3>2. CASE k + 1 \notin S
      <4>1. S \in SUBSET (1..k) /\ S \ {Max(S)} \in SUBSET (1..k)
        <5>1. \A x \in S : x \in 1..(k + 1) /\ x # k + 1
          BY <3>2
        <5>2. \A x \in S : x \in 1..k
          BY <5>1
        <5> QED
          BY <5>2
      <4>2. /\ S \ {Max(S)} \in SUBSET (1..(k + 1)) /\ k + 1 \notin S \ {Max(S)}
        BY <3>2
      <4>3. new[S] = h[S] /\ new[S \ {Max(S)}] = h[S \ {Max(S)}]
        BY <3>2, <4>2
      <4> HIDE DEF new
      <4> QED
        BY <2>2, <4>1, <4>3
    <3> QED
      BY <3>1, <3>2
  <2>5. new \in [SUBSET (1..(k + 1)) -> V]
    <3> HIDE DEF new
    <3>1. new = [S \in SUBSET (1..(k + 1)) |-> new[S]]
      BY DEF new
    <3> QED
      BY <2>4, <3>1
  <2>6. Solves(new, k + 1)
    <3> HIDE DEF new
    <3> QED
      BY <2>4, <2>5
  <2> HIDE DEF new, Solves
  <2> QED
    BY <2>6
<1> HIDE DEF T
<1>3. Nat \subseteq T
  BY <1>1, <1>2, SetInduction
<1>4. n <= n
  OBVIOUS
<1> QED
  BY <1>3, <1>4 DEF T

\* The result of a fold is in W[n] when the base is in W[0], and every step takes one
\* further.
LEMMA FoldArrives ==
  ASSUME NEW n \in Nat, NEW V, NEW base, NEW step \in [V \X (1..n) -> V],
         NEW c, FoldHolds(c, n, V, base, step), NEW W, FoldClimbs(W, n, V, base, step)
  PROVE  c[1..n] \in W[n]
<1> DEFINE T == {k \in Nat : k <= n => c[1..k] \in W[k]}
<1>1. 0 \in T
  <2>1. 1..0 = {}
    OBVIOUS
  <2> QED
    BY <2>1 DEF FoldHolds, FoldClimbs
<1>2. ASSUME NEW k \in Nat, k \in T
      PROVE  k + 1 \in T
  <2> SUFFICES ASSUME k + 1 <= n
               PROVE  c[1..(k + 1)] \in W[k + 1]
    OBVIOUS
  <2>1. k + 1 \in 0..n /\ k + 1 # 0 /\ k <= n /\ (k + 1) - 1 = k /\ k + 1 \in 1..n /\ k \in 0..n
    OBVIOUS
  <2>2. /\ (1..(k + 1)) \in SUBSET (1..n) /\ 1..(k + 1) # {}
        /\ Max(1..(k + 1)) = k + 1 /\ (1..(k + 1)) \ {Max(1..(k + 1))} = 1..k
    <3>1. (1..(k + 1)) \in SUBSET (1..n)
      BY <2>1, FirstPositions
    <3>2. /\ 1..(k + 1) # {} /\ Max(1..(k + 1)) = k + 1
          /\ (1..(k + 1)) \ {Max(1..(k + 1))} = 1..((k + 1) - 1)
      BY <2>1, FirstPositions
    <3> QED
      BY <2>1, <3>1, <3>2
  <2>3. c[1..k] \in W[k] /\ c[1..k] \in V
    BY <1>2, <2>1 DEF FoldClimbs
  <2>4. c[1..(k + 1)] = step[<<c[1..k], k + 1>>]
    BY <2>2, <2>3 DEF FoldHolds
  <2>5. step[<<c[1..k], k + 1>>] \in W[k + 1]
    BY <2>1, <2>3 DEF FoldClimbs
  <2> QED
    BY <2>4, <2>5
<1> HIDE DEF T
<1>3. Nat \subseteq T
  BY <1>1, <1>2, SetInduction
<1>4. n <= n
  OBVIOUS
<1> QED
  BY <1>3, <1>4 DEF T

\* The result of a fold is in V when the base is, and every step stays there.
LEMMA FoldStays ==
  ASSUME NEW n \in Nat, NEW V, NEW base \in V, NEW step \in [V \X (1..n) -> V],
         NEW c, FoldHolds(c, n, V, base, step)
  PROVE  c[1..n] \in V
<1> DEFINE W == [k \in 0..n |-> V]
<1>1. \A k \in 0..n : W[k] = V
  OBVIOUS
<1>2. \A k \in 1..n : k - 1 \in 0..n /\ k \in 0..n
  OBVIOUS
<1>3. 0 \in 0..n /\ n \in 0..n
  OBVIOUS
<1> HIDE DEF W
<1>4. FoldClimbs(W, n, V, base, step)
  <2>1. ASSUME NEW k \in 1..n, NEW v \in W[k - 1]
        PROVE  step[<<v, k>>] \in W[k]
    <3>1. <<v, k>> \in V \X (1..n)
      BY <1>1, <1>2
    <3> QED
      BY <1>1, <1>2, <3>1
  <2> QED
    BY <1>1, <1>3, <2>1 DEF FoldClimbs
<1>5. c[1..n] \in W[n]
  BY <1>4, FoldArrives
<1> QED
  BY <1>1, <1>3, <1>5

\* Importing items one after the other goes as far as importing each one does.
LEMMA ItemsClimb ==
  ASSUME NEW V, NEW X, NEW acc, NEW job, NEW kind, NEW items \in Seq(X),
         ImportsStay(V, job, kind, X), NEW W, ImportsClimb(W, V, acc, job, kind, items)
  PROVE  ImportItems(acc, job, kind, items) \in W[Len(items)]
<1> DEFINE n == Len(items)
           step == [x \in V \X (1..n) |-> ImportItem(x[1], job, kind, items[x[2]])]
           Folds(h) == h = [S \in SUBSET (DOMAIN items) |->
                              IF S = {} THEN acc ELSE ImportItem(h[S \ {Max(S)}], job, kind, items[Max(S)])]
           fold == CHOOSE h : Folds(h)
<1>1. ImportItems(acc, job, kind, items) = fold[DOMAIN items]
  BY DEF ImportItems, FoldLeft, MapThenFoldSet
<1>2. DOMAIN items = 1..n /\ n \in Nat
  OBVIOUS
<1>3. acc \in V
  <2>1. 0 \in 0..n
    BY <1>2
  <2> QED
    BY <2>1 DEF ImportsClimb
<1>4. ASSUME NEW v \in V, NEW k \in 1..n
      PROVE  ImportItem(v, job, kind, items[k]) \in V
  BY DEF ImportsStay
<1>9. /\ acc \in W[0] /\ \A k \in 0..n : W[k] \in SUBSET V
      /\ \A k \in 1..n : \A v \in W[k - 1] : ImportItem(v, job, kind, items[k]) \in W[k]
      /\ \A k \in 1..n : k - 1 \in 0..n
  BY <1>2 DEF ImportsClimb
<1> HIDE DEF n
<1>5. step \in [V \X (1..n) -> V]
  <2>1. ASSUME NEW x \in V \X (1..n)
        PROVE  step[x] \in V
    BY <1>4
  <2> HIDE DEF step
  <2>2. step = [x \in V \X (1..n) |-> step[x]]
    BY DEF step
  <2> QED
    BY <2>1, <2>2
<1>6. \E h : Folds(h)
  <2> HIDE DEF step
  <2>1. PICK h \in [SUBSET (1..n) -> V] : \A S \in SUBSET (1..n) :
          h[S] = IF S = {} THEN acc ELSE step[<<h[S \ {Max(S)}], Max(S)>>]
    <3>1. \E h : FoldEquation(h, n, V, acc, step)
      BY <1>2, <1>3, <1>5, FoldDefined
    <3> QED
      BY <3>1 DEF FoldEquation
  <2>2. ASSUME NEW S \in SUBSET (1..n), S # {}
        PROVE  step[<<h[S \ {Max(S)}], Max(S)>>] =
                 ImportItem(h[S \ {Max(S)}], job, kind, items[Max(S)])
    <3>1. Max(S) \in 1..n /\ S \ {Max(S)} \in SUBSET (1..n)
      BY <1>2, <2>2, LargestPosition
    <3>2. <<h[S \ {Max(S)}], Max(S)>> \in V \X (1..n)
      BY <3>1
    <3> QED
      BY <3>1, <3>2 DEF step
  <2>3. ASSUME NEW S \in SUBSET (1..n)
        PROVE  h[S] = IF S = {} THEN acc ELSE ImportItem(h[S \ {Max(S)}], job, kind, items[Max(S)])
    BY <2>1, <2>2
  <2>4. Folds(h)
    BY <1>2, <2>3
  <2> HIDE DEF Folds
  <2> QED
    BY <2>4
<1>7. Folds(fold)
  <2> HIDE DEF Folds
  <2> QED
    BY <1>6
<1> HIDE DEF fold
<1>8. fold[1..n] \in W[n]
  <2>1. fold[{}] = acc
    <3>1. {} \in SUBSET (DOMAIN items)
      OBVIOUS
    <3> QED
      BY <1>7, <3>1
  <2>2. ASSUME NEW S \in SUBSET (1..n), S # {}, fold[S \ {Max(S)}] \in V
        PROVE  fold[S] = step[<<fold[S \ {Max(S)}], Max(S)>>]
    <3>1. Max(S) \in 1..n
      BY <1>2, <2>2, LargestPosition
    <3>2. <<fold[S \ {Max(S)}], Max(S)>> \in V \X (1..n)
      BY <2>2, <3>1
    <3>3. fold[S] = ImportItem(fold[S \ {Max(S)}], job, kind, items[Max(S)])
      BY <1>2, <1>7, <2>2
    <3> QED
      BY <3>1, <3>2, <3>3
  <2>3. ASSUME NEW k \in 1..n, NEW v \in W[k - 1]
        PROVE  step[<<v, k>>] = ImportItem(v, job, kind, items[k])
    <3>1. <<v, k>> \in V \X (1..n)
      BY <1>9
    <3> QED
      BY <3>1
  <2> HIDE DEF step, Folds
  <2>4. FoldHolds(fold, n, V, acc, step)
    BY <2>1, <2>2 DEF FoldHolds
  <2>5. FoldClimbs(W, n, V, acc, step)
    BY <1>9, <2>3 DEF FoldClimbs
  <2> QED
    BY <1>2, <1>5, <2>4, <2>5, FoldArrives
<1> QED
  BY <1>1, <1>2, <1>8 DEF n

\* It stays where importing one stays.
LEMMA ItemsStay ==
  ASSUME NEW V, NEW X, NEW acc \in V, NEW job, NEW kind, NEW items \in Seq(X),
         ImportsStay(V, job, kind, X)
  PROVE  ImportItems(acc, job, kind, items) \in V
<1> DEFINE n == Len(items)
           W == [k \in 0..n |-> V]
<1>1. n \in Nat /\ 0 \in 0..n /\ n \in 0..n
  OBVIOUS
<1>2. \A k \in 1..n : k - 1 \in 0..n /\ k \in 0..n /\ items[k] \in X
  OBVIOUS
<1>3. \A k \in 0..n : W[k] = V
  OBVIOUS
<1> HIDE DEF W
<1>4. ImportsClimb(W, V, acc, job, kind, items)
  BY <1>1, <1>2, <1>3 DEF ImportsClimb, ImportsStay
<1>5. ImportItems(acc, job, kind, items) \in W[n]
  BY <1>4, ItemsClimb
<1> QED
  BY <1>1, <1>3, <1>5

\* A step upward leads to the same position.
LEMMA LineStays ==
  ASSUME NEW X, NEW items \in Seq(X), NEW i \in DOMAIN items, NEW v \in LinesTo(items, i)
  PROVE  LineStep(items, v) \in LinesTo(items, i)
<1>1. v[1] \in DOMAIN items /\ v \in Seq(DOMAIN items)
  BY DEF LinesTo
<1> DEFINE above == PlacesOf(items, items[v[1]].up)
<1>2. CASE above = {}
  BY <1>2 DEF LineStep
<1>3. CASE above # {}
  <2> DEFINE j == CHOOSE j \in above : TRUE
  <2>1. j \in above
    BY <1>3
  <2>2. j \in DOMAIN items
    BY <2>1 DEF PlacesOf
  <2>3. LineStep(items, v) = <<j>> \o v
    BY <1>3 DEF LineStep
  <2> HIDE DEF j
  <2>4. <<j>> \in Seq(DOMAIN items)
    BY <2>2
  <2>5. <<j>> \o v \in Seq(DOMAIN items) /\ Len(<<j>> \o v) = 1 + Len(v)
    BY <1>1, <2>4
  <2>6. <<j>> \o v # <<>>
    BY <1>1, <2>5
  <2>7. Len(v) \in Nat /\ Len(v) # 0 /\ v[Len(v)] = i
    BY DEF LinesTo
  <2>8. (<<j>> \o v)[Len(<<j>> \o v)] = i
    <3> DEFINE w == <<j>> \o v
    <3>1. \A m \in 1..Len(v) : w[1 + m] = v[m]
      BY <1>1
    <3> HIDE DEF w
    <3> QED
      BY <2>5, <2>7, <3>1 DEF w
  <2> QED
    BY <2>3, <2>5, <2>6, <2>8 DEF LinesTo
<1> QED
  BY <1>2, <1>3

\* What holds of a line after k steps upward holds of the whole line.
LEMMA LineArrives ==
  ASSUME NEW X, NEW items \in Seq(X), NEW i \in DOMAIN items, NEW W, <<i>> \in W[0],
         \A k \in 0 .. Len(items) - 1 : W[k] \in SUBSET LinesTo(items, i),
         \A k \in 1 .. Len(items) - 1 : \A v \in W[k - 1] : LineStep(items, v) \in W[k]
  PROVE  Line(items, i) \in W[Len(items) - 1]
<1> DEFINE n == Len(items) - 1
           V == LinesTo(items, i)
           step == [x \in V \X (1..n) |-> LineStep(items, x[1])]
           Folds(h) == h = [S \in SUBSET (DOMAIN [m \in 1 .. Len(items) - 1 |-> m]) |->
                              IF S = {} THEN <<i>> ELSE LineStep(items, h[S \ {Max(S)}])]
           fold == CHOOSE h : Folds(h)
<1>1. Line(items, i) = fold[DOMAIN [m \in 1 .. Len(items) - 1 |-> m]]
  BY DEF Line, LineStep, FoldLeft, MapThenFoldSet
<1>2. DOMAIN [m \in 1 .. Len(items) - 1 |-> m] = 1..n /\ n \in Nat
  OBVIOUS
<1>3. <<i>> \in V
  BY DEF LinesTo
<1>4. ASSUME NEW v \in V, NEW k \in 1..n
      PROVE  LineStep(items, v) \in V
  BY LineStays
<1>9. /\ \A k \in 0..n : W[k] \in SUBSET V
      /\ \A k \in 1..n : k - 1 \in 0..n
      /\ \A k \in 1..n : \A v \in W[k - 1] : LineStep(items, v) \in W[k]
  BY <1>2
<1> HIDE DEF n, V
<1>5. step \in [V \X (1..n) -> V]
  <2>1. ASSUME NEW x \in V \X (1..n)
        PROVE  step[x] \in V
    BY <1>4
  <2> HIDE DEF step
  <2>2. step = [x \in V \X (1..n) |-> step[x]]
    BY DEF step
  <2> QED
    BY <2>1, <2>2
<1>6. \E h : Folds(h)
  <2> HIDE DEF step
  <2>1. PICK h \in [SUBSET (1..n) -> V] : \A S \in SUBSET (1..n) :
          h[S] = IF S = {} THEN <<i>> ELSE step[<<h[S \ {Max(S)}], Max(S)>>]
    <3>1. \E h : FoldEquation(h, n, V, <<i>>, step)
      BY <1>2, <1>3, <1>5, FoldDefined
    <3> QED
      BY <3>1 DEF FoldEquation
  <2>2. ASSUME NEW S \in SUBSET (1..n), S # {}
        PROVE  step[<<h[S \ {Max(S)}], Max(S)>>] =
                 LineStep(items, h[S \ {Max(S)}])
    <3>1. Max(S) \in 1..n /\ S \ {Max(S)} \in SUBSET (1..n)
      BY <1>2, <2>2, LargestPosition
    <3>2. <<h[S \ {Max(S)}], Max(S)>> \in V \X (1..n)
      BY <3>1
    <3> QED
      BY <3>1, <3>2 DEF step
  <2>3. ASSUME NEW S \in SUBSET (1..n)
        PROVE  h[S] = IF S = {} THEN <<i>> ELSE LineStep(items, h[S \ {Max(S)}])
    BY <2>1, <2>2
  <2>4. Folds(h)
    BY <1>2, <2>3
  <2> HIDE DEF Folds
  <2> QED
    BY <2>4
<1>7. Folds(fold)
  <2> HIDE DEF Folds
  <2> QED
    BY <1>6
<1> HIDE DEF fold
<1>8. fold[1..n] \in W[n]
  <2>1. fold[{}] = <<i>>
    <3>1. {} \in SUBSET (DOMAIN [m \in 1 .. Len(items) - 1 |-> m])
      OBVIOUS
    <3> QED
      BY <1>7, <3>1
  <2>2. ASSUME NEW S \in SUBSET (1..n), S # {}, fold[S \ {Max(S)}] \in V
        PROVE  fold[S] = step[<<fold[S \ {Max(S)}], Max(S)>>]
    <3>1. Max(S) \in 1..n
      BY <1>2, <2>2, LargestPosition
    <3>2. <<fold[S \ {Max(S)}], Max(S)>> \in V \X (1..n)
      BY <2>2, <3>1
    <3>3. fold[S] = LineStep(items, fold[S \ {Max(S)}])
      BY <1>2, <1>7, <2>2
    <3> QED
      BY <3>1, <3>2, <3>3
  <2>3. ASSUME NEW k \in 1..n, NEW v \in W[k - 1]
        PROVE  step[<<v, k>>] = LineStep(items, v)
    <3>1. <<v, k>> \in V \X (1..n)
      BY <1>9
    <3> QED
      BY <3>1
  <2> HIDE DEF step, Folds
  <2>4. FoldHolds(fold, n, V, <<i>>, step)
    BY <2>1, <2>2 DEF FoldHolds
  <2>5. FoldClimbs(W, n, V, <<i>>, step)
    BY <1>9, <2>3 DEF FoldClimbs
  <2> QED
    BY <1>2, <1>5, <2>4, <2>5, FoldArrives
<1> QED
  BY <1>1, <1>2, <1>8 DEF n

\* The line of a position is made of positions of the file, and ends with it.
LEMMA LinesStay ==
  ASSUME NEW X, NEW items \in Seq(X), NEW i \in DOMAIN items
  PROVE  /\ Line(items, i) \in Seq(DOMAIN items)
         /\ \E m \in DOMAIN Line(items, i) : Line(items, i)[m] = i
<1> DEFINE n == Len(items) - 1
           V == LinesTo(items, i)
           W == [k \in 0..n |-> V]
<1>1. n \in Nat
  OBVIOUS
<1>2. <<i>> \in V
  BY DEF LinesTo
<1>3. ASSUME NEW v \in V
      PROVE  LineStep(items, v) \in V
  BY LineStays
<1>4. /\ <<i>> \in W[0] /\ \A k \in 0..n : W[k] \in SUBSET V
      /\ \A k \in 1..n : \A v \in W[k - 1] : LineStep(items, v) \in W[k]
  <2>1. \A k \in 0..n : W[k] = V
    OBVIOUS
  <2>2. 0 \in 0..n /\ \A k \in 1..n : k \in 0..n /\ k - 1 \in 0..n
    BY <1>1
  <2> QED
    BY <1>2, <1>3, <2>1, <2>2
<1>5. W[n] = V
  BY <1>1
<1> HIDE DEF W
<1>6. Line(items, i) \in V
  BY <1>4, <1>5, LineArrives
<1>7. Len(Line(items, i)) \in DOMAIN Line(items, i)
  BY <1>6 DEF LinesTo
<1> QED
  BY <1>6, <1>7 DEF LinesTo

\* Visiting a position adds it, or nothing.
LEMMA VisitStays ==
  ASSUME NEW X, NEW items \in Seq(X), NEW done \in Seq(DOMAIN items), NEW i \in DOMAIN items
  PROVE  /\ Visit(items, done, i) \in Seq(DOMAIN items)
         /\ Visited(items, Visit(items, done, i), i)
         /\ \A j : Visited(items, done, j) => Visited(items, Visit(items, done, i), j)
<1> DEFINE more == Append(done, i)
<1>1. more \in Seq(DOMAIN items) /\ Len(done) \in Nat /\ Len(more) = Len(done) + 1
      /\ more[Len(done) + 1] = i /\ \A m \in 1..Len(done) : more[m] = done[m]
  OBVIOUS
<1> HIDE DEF more
<1>2. DOMAIN done = 1..Len(done) /\ DOMAIN more = 1..(Len(done) + 1)
  BY <1>1
<1>3. i \in Range(more) /\ \A j \in Range(done) : j \in Range(more)
  <2>1. Len(done) + 1 \in DOMAIN more /\ \A m \in DOMAIN done : m \in DOMAIN more /\ more[m] = done[m]
    BY <1>1, <1>2
  <2>2. \A m \in DOMAIN more : more[m] \in Range(more)
    BY DEF Range
  <2>3. \A j \in Range(done) : \E m \in DOMAIN done : j = done[m]
    BY DEF Range
  <2> QED
    BY <1>1, <2>1, <2>2, <2>3
<1>4. Visited(items, more, i) /\ \A j : Visited(items, done, j) => Visited(items, more, j)
  BY <1>3 DEF Visited
<1>5. Visit(items, done, i) = IF Visited(items, done, i) THEN done ELSE more
  BY DEF Visit, more
<1> QED
  BY <1>1, <1>4, <1>5

\* What holds of the first k positions of a line visited holds of all of them.
LEMMA VisitLineArrives ==
  ASSUME NEW X, NEW items \in Seq(X), NEW done \in Seq(DOMAIN items), NEW i \in DOMAIN items,
         ~Visited(items, done, i), NEW W, done \in W[0],
         \A k \in 0..Len(Line(items, i)) : W[k] \in SUBSET Seq(DOMAIN items),
         \A k \in 1..Len(Line(items, i)) : \A v \in W[k - 1] :
           Visit(items, v, Line(items, i)[k]) \in W[k]
  PROVE  VisitLine(items, done, i) \in W[Len(Line(items, i))]
<1> DEFINE n == Len(Line(items, i))
           V == Seq(DOMAIN items)
           step == [x \in V \X (1..n) |-> Visit(items, x[1], Line(items, i)[x[2]])]
           Folds(h) == h = [S \in SUBSET (DOMAIN Line(items, i)) |->
                              IF S = {} THEN done ELSE Visit(items, h[S \ {Max(S)}], Line(items, i)[Max(S)])]
           fold == CHOOSE h : Folds(h)
<1>1. VisitLine(items, done, i) = fold[DOMAIN Line(items, i)]
  BY DEF VisitLine, FoldLeft, MapThenFoldSet
<1>2. DOMAIN Line(items, i) = 1..n /\ n \in Nat
  BY LinesStay
<1>3. done \in V
  OBVIOUS
<1>4. ASSUME NEW v \in V, NEW k \in 1..n
      PROVE  Visit(items, v, Line(items, i)[k]) \in V
  <2>1. Line(items, i) \in Seq(DOMAIN items)
    BY LinesStay
  <2>2. Line(items, i)[k] \in DOMAIN items
    BY <2>1
  <2> QED
    BY <2>2, VisitStays
<1>9. /\ \A k \in 0..n : W[k] \in SUBSET V
      /\ \A k \in 1..n : k - 1 \in 0..n
      /\ \A k \in 1..n : \A v \in W[k - 1] : Visit(items, v, Line(items, i)[k]) \in W[k]
  BY <1>2
<1> HIDE DEF n, V
<1>5. step \in [V \X (1..n) -> V]
  <2>1. ASSUME NEW x \in V \X (1..n)
        PROVE  step[x] \in V
    BY <1>4
  <2> HIDE DEF step
  <2>2. step = [x \in V \X (1..n) |-> step[x]]
    BY DEF step
  <2> QED
    BY <2>1, <2>2
<1>6. \E h : Folds(h)
  <2> HIDE DEF step
  <2>1. PICK h \in [SUBSET (1..n) -> V] : \A S \in SUBSET (1..n) :
          h[S] = IF S = {} THEN done ELSE step[<<h[S \ {Max(S)}], Max(S)>>]
    <3>1. \E h : FoldEquation(h, n, V, done, step)
      BY <1>2, <1>3, <1>5, FoldDefined
    <3> QED
      BY <3>1 DEF FoldEquation
  <2>2. ASSUME NEW S \in SUBSET (1..n), S # {}
        PROVE  step[<<h[S \ {Max(S)}], Max(S)>>] =
                 Visit(items, h[S \ {Max(S)}], Line(items, i)[Max(S)])
    <3>1. Max(S) \in 1..n /\ S \ {Max(S)} \in SUBSET (1..n)
      BY <1>2, <2>2, LargestPosition
    <3>2. <<h[S \ {Max(S)}], Max(S)>> \in V \X (1..n)
      BY <3>1
    <3> QED
      BY <3>1, <3>2 DEF step
  <2>3. ASSUME NEW S \in SUBSET (1..n)
        PROVE  h[S] = IF S = {} THEN done ELSE Visit(items, h[S \ {Max(S)}], Line(items, i)[Max(S)])
    BY <2>1, <2>2
  <2>4. Folds(h)
    BY <1>2, <2>3
  <2> HIDE DEF Folds
  <2> QED
    BY <2>4
<1>7. Folds(fold)
  <2> HIDE DEF Folds
  <2> QED
    BY <1>6
<1> HIDE DEF fold
<1>8. fold[1..n] \in W[n]
  <2>1. fold[{}] = done
    <3>1. {} \in SUBSET (DOMAIN Line(items, i))
      OBVIOUS
    <3> QED
      BY <1>7, <3>1
  <2>2. ASSUME NEW S \in SUBSET (1..n), S # {}, fold[S \ {Max(S)}] \in V
        PROVE  fold[S] = step[<<fold[S \ {Max(S)}], Max(S)>>]
    <3>1. Max(S) \in 1..n
      BY <1>2, <2>2, LargestPosition
    <3>2. <<fold[S \ {Max(S)}], Max(S)>> \in V \X (1..n)
      BY <2>2, <3>1
    <3>3. fold[S] = Visit(items, fold[S \ {Max(S)}], Line(items, i)[Max(S)])
      BY <1>2, <1>7, <2>2
    <3> QED
      BY <3>1, <3>2, <3>3
  <2>3. ASSUME NEW k \in 1..n, NEW v \in W[k - 1]
        PROVE  step[<<v, k>>] = Visit(items, v, Line(items, i)[k])
    <3>1. <<v, k>> \in V \X (1..n)
      BY <1>9
    <3> QED
      BY <3>1
  <2> HIDE DEF step, Folds
  <2>4. FoldHolds(fold, n, V, done, step)
    BY <2>1, <2>2 DEF FoldHolds
  <2>5. FoldClimbs(W, n, V, done, step)
    BY <1>9, <2>3 DEF FoldClimbs
  <2> QED
    BY <1>2, <1>5, <2>4, <2>5, FoldArrives
<1> QED
  BY <1>1, <1>2, <1>8 DEF n

\* Visiting it with its line visits it, and forgets nothing.
LEMMA VisitLineStays ==
  ASSUME NEW X, NEW items \in Seq(X), NEW done \in Seq(DOMAIN items), NEW i \in DOMAIN items,
         ~Visited(items, done, i)
  PROVE  /\ VisitLine(items, done, i) \in Seq(DOMAIN items)
         /\ Visited(items, VisitLine(items, done, i), i)
         /\ \A j : Visited(items, done, j) => Visited(items, VisitLine(items, done, i), j)
<1> DEFINE n == Len(Line(items, i))
           V == Seq(DOMAIN items)
           W == [k \in 0..n |->
                   {d \in V : /\ \A m \in 1..k : Visited(items, d, Line(items, i)[m])
                              /\ \A j : Visited(items, done, j) => Visited(items, d, j)}]
<1>1. /\ Line(items, i) \in Seq(DOMAIN items) /\ n \in Nat
      /\ \E m \in 1..n : Line(items, i)[m] = i
  <2>1. /\ Line(items, i) \in Seq(DOMAIN items)
        /\ \E m \in DOMAIN Line(items, i) : Line(items, i)[m] = i
    BY LinesStay
  <2> QED
    BY <2>1
<1>2. done \in W[0]
  <2>1. 0 \in 0..n /\ 1..0 = {}
    BY <1>1
  <2> QED
    BY <2>1
<1>3. ASSUME NEW k \in 1..n, NEW v \in W[k - 1]
      PROVE  Visit(items, v, Line(items, i)[k]) \in W[k]
  <2>1. k - 1 \in 0..n /\ k \in 0..n /\ Line(items, i)[k] \in DOMAIN items
    BY <1>1
  <2>2. /\ v \in V /\ \A m \in 1..(k - 1) : Visited(items, v, Line(items, i)[m])
        /\ \A j : Visited(items, done, j) => Visited(items, v, j)
    BY <2>1
  <2> DEFINE d == Visit(items, v, Line(items, i)[k])
  <2>3. /\ d \in V /\ Visited(items, d, Line(items, i)[k])
        /\ \A j : Visited(items, v, j) => Visited(items, d, j)
    BY <2>1, <2>2, VisitStays
  <2> HIDE DEF d
  <2>4. ASSUME NEW m \in 1..k
        PROVE  Visited(items, d, Line(items, i)[m])
    <3>1. m = k \/ m \in 1..(k - 1)
      OBVIOUS
    <3> QED
      BY <2>2, <2>3, <3>1
  <2>5. d \in W[k]
    BY <2>1, <2>2, <2>3, <2>4
  <2> QED
    BY <2>5 DEF d
<1>4. \A k \in 0..n : W[k] \in SUBSET V
  BY <1>1
<1>5. \A d \in W[n] : /\ d \in V /\ \A m \in 1..n : Visited(items, d, Line(items, i)[m])
                      /\ \A j : Visited(items, done, j) => Visited(items, d, j)
  <2>1. n \in 0..n
    BY <1>1
  <2> QED
    BY <2>1
<1> HIDE DEF W
<1>6. VisitLine(items, done, i) \in W[n]
  BY <1>2, <1>3, <1>4, VisitLineArrives
<1> QED
  BY <1>1, <1>5, <1>6

\* What holds of the first k positions visited holds of all of them.
LEMMA OrderArrives ==
  ASSUME NEW X, NEW items \in Seq(X), NEW W, <<>> \in W[0],
         \A k \in 0..Len(items) : W[k] \in SUBSET Seq(DOMAIN items),
         \A k \in 1..Len(items) : \A v \in W[k - 1] : VisitLine(items, v, k) \in W[k]
  PROVE  Order(items) \in W[Len(items)]
<1> DEFINE n == Len(items)
           V == Seq(DOMAIN items)
           step == [x \in V \X (1..n) |-> VisitLine(items, x[1], [i \in DOMAIN items |-> i][x[2]])]
           Folds(h) == h = [S \in SUBSET (DOMAIN [i \in DOMAIN items |-> i]) |->
                              IF S = {} THEN <<>> ELSE VisitLine(items, h[S \ {Max(S)}], [i \in DOMAIN items |-> i][Max(S)])]
           fold == CHOOSE h : Folds(h)
<1>1. Order(items) = fold[DOMAIN [i \in DOMAIN items |-> i]]
  BY DEF Order, FoldLeft, MapThenFoldSet
<1>2. DOMAIN [i \in DOMAIN items |-> i] = 1..n /\ n \in Nat
  OBVIOUS
<1>3. <<>> \in V
  OBVIOUS
<1>4. ASSUME NEW v \in V, NEW k \in 1..n
      PROVE  VisitLine(items, v, [i \in DOMAIN items |-> i][k]) \in V
  <2>1. k \in DOMAIN items /\ [i \in DOMAIN items |-> i][k] = k
    BY <1>2
  <2>2. VisitLine(items, v, k) \in Seq(DOMAIN items)
    <3>1. CASE Visited(items, v, k)
      BY <3>1 DEF VisitLine
    <3>2. CASE ~Visited(items, v, k)
      BY <2>1, <3>2, VisitLineStays
    <3> QED
      BY <3>1, <3>2
  <2> QED
    BY <2>1, <2>2
<1>9. /\ \A k \in 0..n : W[k] \in SUBSET V
      /\ \A k \in 1..n : k - 1 \in 0..n
      /\ \A k \in 1..n : \A v \in W[k - 1] :
           VisitLine(items, v, [i \in DOMAIN items |-> i][k]) \in W[k]
  <2>1. \A k \in 1..n : [i \in DOMAIN items |-> i][k] = k
    BY <1>2
  <2> QED
    BY <1>2, <2>1
<1> HIDE DEF n, V
<1>5. step \in [V \X (1..n) -> V]
  <2>1. ASSUME NEW x \in V \X (1..n)
        PROVE  step[x] \in V
    BY <1>4
  <2> HIDE DEF step
  <2>2. step = [x \in V \X (1..n) |-> step[x]]
    BY DEF step
  <2> QED
    BY <2>1, <2>2
<1>6. \E h : Folds(h)
  <2> HIDE DEF step
  <2>1. PICK h \in [SUBSET (1..n) -> V] : \A S \in SUBSET (1..n) :
          h[S] = IF S = {} THEN <<>> ELSE step[<<h[S \ {Max(S)}], Max(S)>>]
    <3>1. \E h : FoldEquation(h, n, V, <<>>, step)
      BY <1>2, <1>3, <1>5, FoldDefined
    <3> QED
      BY <3>1 DEF FoldEquation
  <2>2. ASSUME NEW S \in SUBSET (1..n), S # {}
        PROVE  step[<<h[S \ {Max(S)}], Max(S)>>] =
                 VisitLine(items, h[S \ {Max(S)}], [i \in DOMAIN items |-> i][Max(S)])
    <3>1. Max(S) \in 1..n /\ S \ {Max(S)} \in SUBSET (1..n)
      BY <1>2, <2>2, LargestPosition
    <3>2. <<h[S \ {Max(S)}], Max(S)>> \in V \X (1..n)
      BY <3>1
    <3> QED
      BY <3>1, <3>2 DEF step
  <2>3. ASSUME NEW S \in SUBSET (1..n)
        PROVE  h[S] = IF S = {} THEN <<>> ELSE VisitLine(items, h[S \ {Max(S)}], [i \in DOMAIN items |-> i][Max(S)])
    BY <2>1, <2>2
  <2>4. Folds(h)
    BY <1>2, <2>3
  <2> HIDE DEF Folds
  <2> QED
    BY <2>4
<1>7. Folds(fold)
  <2> HIDE DEF Folds
  <2> QED
    BY <1>6
<1> HIDE DEF fold
<1>8. fold[1..n] \in W[n]
  <2>1. fold[{}] = <<>>
    <3>1. {} \in SUBSET (DOMAIN [i \in DOMAIN items |-> i])
      OBVIOUS
    <3> QED
      BY <1>7, <3>1
  <2>2. ASSUME NEW S \in SUBSET (1..n), S # {}, fold[S \ {Max(S)}] \in V
        PROVE  fold[S] = step[<<fold[S \ {Max(S)}], Max(S)>>]
    <3>1. Max(S) \in 1..n
      BY <1>2, <2>2, LargestPosition
    <3>2. <<fold[S \ {Max(S)}], Max(S)>> \in V \X (1..n)
      BY <2>2, <3>1
    <3>3. fold[S] = VisitLine(items, fold[S \ {Max(S)}], [i \in DOMAIN items |-> i][Max(S)])
      BY <1>2, <1>7, <2>2
    <3> QED
      BY <3>1, <3>2, <3>3
  <2>3. ASSUME NEW k \in 1..n, NEW v \in W[k - 1]
        PROVE  step[<<v, k>>] = VisitLine(items, v, [i \in DOMAIN items |-> i][k])
    <3>1. <<v, k>> \in V \X (1..n)
      BY <1>9
    <3> QED
      BY <3>1
  <2> HIDE DEF step, Folds
  <2>4. FoldHolds(fold, n, V, <<>>, step)
    BY <2>1, <2>2 DEF FoldHolds
  <2>5. FoldClimbs(W, n, V, <<>>, step)
    BY <1>9, <2>3 DEF FoldClimbs
  <2> QED
    BY <1>2, <1>5, <2>4, <2>5, FoldArrives
<1> QED
  BY <1>1, <1>2, <1>8 DEF n

\* They are positions of the file, and every position is visited.
LEMMA OrderStays ==
  ASSUME NEW X, NEW items \in Seq(X)
  PROVE  /\ Order(items) \in Seq(DOMAIN items)
         /\ \A i \in DOMAIN items : Visited(items, Order(items), i)
<1> DEFINE n == Len(items)
           V == Seq(DOMAIN items)
           W == [k \in 0..n |-> {d \in V : \A m \in 1..k : Visited(items, d, m)}]
<1>1. n \in Nat /\ DOMAIN items = 1..n
  OBVIOUS
<1>2. <<>> \in W[0]
  <2>1. 0 \in 0..n /\ 1..0 = {} /\ <<>> \in V
    BY <1>1
  <2> QED
    BY <2>1
<1>3. ASSUME NEW k \in 1..n, NEW v \in W[k - 1]
      PROVE  VisitLine(items, v, k) \in W[k]
  <2>1. k - 1 \in 0..n /\ k \in 0..n /\ k \in DOMAIN items
    BY <1>1
  <2>2. v \in V /\ \A m \in 1..(k - 1) : Visited(items, v, m)
    BY <2>1
  <2> DEFINE d == VisitLine(items, v, k)
  <2>3. d \in V /\ Visited(items, d, k) /\ \A j : Visited(items, v, j) => Visited(items, d, j)
    <3>1. CASE Visited(items, v, k)
      BY <2>2, <3>1 DEF VisitLine
    <3>2. CASE ~Visited(items, v, k)
      BY <2>1, <2>2, <3>2, VisitLineStays
    <3> QED
      BY <3>1, <3>2
  <2> HIDE DEF d
  <2>4. ASSUME NEW m \in 1..k
        PROVE  Visited(items, d, m)
    <3>1. m = k \/ m \in 1..(k - 1)
      OBVIOUS
    <3> QED
      BY <2>2, <2>3, <3>1
  <2>5. d \in W[k]
    BY <2>1, <2>3, <2>4
  <2> QED
    BY <2>5 DEF d
<1>4. \A k \in 0..n : W[k] \in SUBSET V
  BY <1>1
<1>5. \A d \in W[n] : d \in V /\ \A m \in 1..n : Visited(items, d, m)
  <2>1. n \in 0..n
    BY <1>1
  <2> QED
    BY <2>1
<1> HIDE DEF W
<1>6. Order(items) \in W[n]
  BY <1>2, <1>3, <1>4, OrderArrives
<1> QED
  BY <1>1, <1>5, <1>6

\* Sorting keeps the items among themselves, and at least one of each uuid.
LEMMA SortStays ==
  ASSUME NEW X, NEW items \in Seq(X)
  PROVE  /\ TopoSort(items) \in Seq(X)
         /\ \A n \in DOMAIN TopoSort(items) : TopoSort(items)[n] \in Range(items)
         /\ \A x \in Range(items) : \E n \in DOMAIN TopoSort(items) :
              TopoSort(items)[n].uuid = x.uuid
<1>1. TopoSort(items) = [n \in DOMAIN Order(items) |-> items[Order(items)[n]]]
  BY DEF TopoSort, Order
<1>2. Order(items) \in Seq(DOMAIN items)
  BY OrderStays
<1>3. /\ DOMAIN Order(items) = 1..Len(Order(items)) /\ Len(Order(items)) \in Nat
      /\ \A n \in DOMAIN Order(items) : items[Order(items)[n]] \in X
  BY <1>2
<1>4. \A n \in DOMAIN Order(items) : Order(items)[n] \in DOMAIN items
  BY <1>2
<1>5. TopoSort(items) \in Seq(X) /\ DOMAIN TopoSort(items) = DOMAIN Order(items)
  BY <1>1, <1>3
<1>6. ASSUME NEW x \in Range(items)
      PROVE  \E n \in DOMAIN TopoSort(items) : TopoSort(items)[n].uuid = x.uuid
  <2>1. PICK i \in DOMAIN items : x = items[i]
    BY DEF Range
  <2>2. PICK j \in Range(Order(items)) : items[j].uuid = x.uuid
    BY <2>1, OrderStays DEF Visited
  <2>3. PICK n \in DOMAIN Order(items) : j = Order(items)[n]
    BY DEF Range
  <2> QED
    BY <1>1, <2>2, <2>3
<1> QED
  BY <1>1, <1>4, <1>5, <1>6 DEF Range

-----------------------------------------------------------------------------
(***************************************************************************)
(* Rows are replaced and added.                                            *)
(***************************************************************************)

\* The same records have the same class.
LEMMA SameClass ==
  ASSUME NEW r, NEW q, Alike(r, q)
  PROVE  Class(r) = Class(q)
BY DEF Alike, Class

\* A record's contents change: the records are the same, and so are their ids.
LEMMA ReplacedIds ==
  ASSUME NEW rows, NEW serial, IdsOK(rows, serial), NEW old \in rows, NEW new, Alike(old, new)
  PROVE  /\ SameRows(rows, (rows \ {old}) \union {new})
         /\ IdsOK((rows \ {old}) \union {new}, serial)
<1> DEFINE rows2 == (rows \ {old}) \union {new}
<1>1. SameRows(rows, rows2)
  <2>1. \A r \in rows : Alike(r, r)
    BY DEF Alike
  <2> QED
    BY <2>1 DEF SameRows
<1>2. \A r \in rows2 : r.id <= serial /\ r.uuid <= serial
  BY DEF IdsOK, Alike
<1>3. ASSUME NEW q \in rows2, q # new
      PROVE  q.id # new.id /\ ~(Class(q) = Class(new) /\ q.uuid = new.uuid)
  <2>1. q \in rows /\ q # old
    BY <1>3
  <2>2. Class(old) = Class(new) /\ old.id = new.id /\ old.uuid = new.uuid
    BY SameClass DEF Alike
  <2> QED
    BY <2>1, <2>2 DEF IdsOK
<1>4. ASSUME NEW r \in rows2, NEW q \in rows2, r # new, q # new
      PROVE  (r.id = q.id \/ (Class(r) = Class(q) /\ r.uuid = q.uuid)) => r = q
  <2>1. r \in rows /\ q \in rows
    BY <1>4
  <2> QED
    BY <2>1 DEF IdsOK
<1> HIDE DEF rows2
<1>5. \A r, q \in rows2 : (r.id = q.id \/ (Class(r) = Class(q) /\ r.uuid = q.uuid)) => r = q
  BY <1>3, <1>4
<1>6. IdsOK(rows2, serial)
  BY <1>2, <1>5 DEF IdsOK
<1> QED
  BY <1>1, <1>6 DEF rows2

\* A monitor may be given a push token that no other one has.
LEMMA ReplacedTokens ==
  ASSUME NEW rows, TokensOK(rows), NEW old \in rows, NEW new,
         \A q \in rows : (/\ Class(new) = "monitor" /\ Class(q) = "monitor"
                          /\ new.extra # 0 /\ q.extra = new.extra) => q = old
  PROVE  TokensOK((rows \ {old}) \union {new})
BY DEF TokensOK

\* The parents of the same records are the parents there were.
LEMMA SameUps ==
  ASSUME NEW rows, NEW rows2, SameRows(rows, rows2), NEW tenant, NEW up, UpOK(rows, tenant, up)
  PROVE  UpOK(rows2, tenant, up)
BY DEF SameRows, Alike, UpOK

\* And what points at them points as it did.
LEMMA SamePoints ==
  ASSUME NEW rows, NEW rows2, SameRows(rows, rows2), NEW tenant, NEW place, NEW ref,
         PointsInto(rows, tenant, place, ref)
  PROVE  PointsInto(rows2, tenant, place, ref)
BY DEF SameRows, Alike, PointsInto

\* So the scoped rows of the same owners are consistent.
LEMMA SameOwned ==
  ASSUME NEW rows, NEW rows2, SameRows(rows, rows2), NEW owned, NEW serial,
         OwnedOK(owned, rows, serial)
  PROVE  OwnedOK(owned, rows2, serial)
<1>1. ASSUME NEW o \in owned
      PROVE  \E w \in rows2 : w.id = o.owner /\ PointsInto(rows2, w.tenant, o.scope, o.ref)
  <2>1. PICK w \in rows : w.id = o.owner /\ PointsInto(rows, w.tenant, o.scope, o.ref)
    BY DEF OwnedOK
  <2>2. PICK v \in rows2 : Alike(w, v)
    BY DEF SameRows
  <2>3. PointsInto(rows2, w.tenant, o.scope, o.ref)
    BY <2>1, SamePoints
  <2> QED
    BY <2>1, <2>2, <2>3 DEF Alike
<1> QED
  BY <1>1 DEF OwnedOK

\* The two groups stay where they may be.
LEMMA ReplacedBuilt ==
  ASSUME NEW rows, NEW closure, NEW serial, BuiltOK(rows, closure, serial),
         NEW old \in rows, NEW new, Alike(old, new),
         new.kind = "group" => /\ new.up # 2
                               /\ new.id = 1 => new.up = 0
                               /\ new.id = 2 => new.up \in {0, 1}
  PROVE  BuiltOK((rows \ {old}) \union {new}, closure, serial)
<1> DEFINE rows2 == (rows \ {old}) \union {new}
<1>1. \A g \in rows : \E h \in rows2 : Alike(g, h) /\ (h = g \/ h = new)
  BY DEF Alike
<1>2. ASSUME NEW x, \E g \in rows : g.kind = "group" /\ g.id = x
      PROVE  \E g \in rows2 : g.kind = "group" /\ g.id = x
  BY <1>1, <1>2 DEF Alike
<1>3. \E g \in rows2 : g.kind = "group" /\ g.id = 1 /\ g.uuid = 1 /\ g.tenant = "home" /\ g.up = 0
  BY <1>1 DEF BuiltOK, Alike
<1>4. \E g \in rows2 : g.kind = "group" /\ g.id = 2 /\ g.uuid = 2 /\ g.tenant = "home"
                      /\ g.up \in {0, 1}
  BY <1>1 DEF BuiltOK, Alike
<1>5. \A g \in rows2 : g.kind = "group" => g.up # 2
  BY DEF BuiltOK
<1> HIDE DEF rows2
<1>6. \A p \in closure : /\ \E g \in rows2 : g.kind = "group" /\ g.id = p[1]
                         /\ \E g \in rows2 : g.kind = "group" /\ g.id = p[2]
  BY <1>2 DEF BuiltOK
<1>7. BuiltOK(rows2, closure, serial)
  BY <1>3, <1>4, <1>5, <1>6 DEF BuiltOK
<1> QED
  BY <1>7 DEF rows2

\* Groups that keep their parents keep their place in the tree.
LEMMA SameTree ==
  ASSUME NEW rows, NEW rows2, NEW closure, TreeOf(rows, closure),
         \A g \in rows2 : g.kind = "group" =>
           \E h \in rows : h.kind = "group" /\ h.id = g.id /\ h.up = g.up
  PROVE  TreeOf(rows2, closure)
BY DEF TreeOf

\* A new row has the next id.
LEMMA AddedIds ==
  ASSUME NEW rows \in SUBSET SomeRow, NEW serial \in Nat, IdsOK(rows, serial),
         NEW new \in SomeRow, new.id = serial + 1, new.uuid <= serial + 1,
         \A q \in rows : Class(q) = Class(new) => q.uuid # new.uuid
  PROVE  IdsOK(rows \union {new}, serial + 1)
<1>1. \A r \in rows : r.id \in Nat /\ r.uuid \in Nat /\ r.id <= serial /\ r.uuid <= serial
  BY DEF IdsOK, SomeRow
<1>2. \A r \in rows \union {new} : r.id <= serial + 1 /\ r.uuid <= serial + 1
  BY <1>1
<1>3. \A q \in rows : q.id # new.id
  BY <1>1
<1> QED
  BY <1>2, <1>3 DEF IdsOK

\* Scoped rows do not point at it.
LEMMA AddedPoints ==
  ASSUME NEW rows, NEW new, NEW tenant, NEW place, NEW ref, ref # new.id,
         PointsInto(rows, tenant, place, ref)
  PROVE  PointsInto(rows \union {new}, tenant, place, ref)
BY DEF PointsInto

\* And stay consistent.
LEMMA AddedOwned ==
  ASSUME NEW rows, NEW owned \in SUBSET SomeOwned, NEW serial \in Nat,
         OwnedOK(owned, rows, serial), NEW new, new.id = serial + 1
  PROVE  OwnedOK(owned, rows \union {new}, serial + 1)
<1>1. ASSUME NEW o \in owned
      PROVE  /\ o.ref <= serial + 1
             /\ \E w \in rows \union {new} :
                  w.id = o.owner /\ PointsInto(rows \union {new}, w.tenant, o.scope, o.ref)
  <2>1. o.ref \in Nat /\ o.ref <= serial
    BY DEF OwnedOK, SomeOwned
  <2>2. o.ref <= serial + 1 /\ o.ref # new.id
    BY <2>1
  <2>3. PICK w \in rows : w.id = o.owner /\ PointsInto(rows, w.tenant, o.scope, o.ref)
    BY DEF OwnedOK
  <2> QED
    BY <2>2, <2>3, AddedPoints
<1> QED
  BY <1>1 DEF OwnedOK

\* A new monitor may have a push token that no other one has.
LEMMA AddedTokens ==
  ASSUME NEW rows, TokensOK(rows), NEW new,
         \A q \in rows : (/\ Class(new) = "monitor" /\ Class(q) = "monitor"
                          /\ new.extra # 0) => q.extra # new.extra
  PROVE  TokensOK(rows \union {new})
BY DEF TokensOK

\* Parents stay.
LEMMA AddedUps ==
  ASSUME NEW rows, NEW new, NEW tenant, NEW up, UpOK(rows, tenant, up)
  PROVE  UpOK(rows \union {new}, tenant, up)
BY DEF UpOK

\* The closure table is about groups when its new lines are.
LEMMA AddedBuilt ==
  ASSUME NEW rows, NEW closure, NEW serial \in Nat, BuiltOK(rows, closure, serial),
         NEW new, new.kind = "group" => new.up # 2, NEW closure2,
         \A p \in closure2 :
           \/ p \in closure
           \/ new.kind = "group" /\ p[2] = new.id
              /\ (p[1] = new.id \/ \E q \in closure : q[1] = p[1])
  PROVE  BuiltOK(rows \union {new}, closure2, serial + 1)
<1> DEFINE Is(x) == \E g \in rows \union {new} : g.kind = "group" /\ g.id = x
<1>1. \A p \in closure : Is(p[1]) /\ Is(p[2])
  BY DEF BuiltOK
<1>2. new.kind = "group" => Is(new.id)
  OBVIOUS
<1> HIDE DEF Is
<1>3. \A p \in closure2 : Is(p[1]) /\ Is(p[2])
  BY <1>1, <1>2
<1>4. serial + 1 >= 8
  BY DEF BuiltOK
<1>5. /\ \E g \in rows \union {new} : g.kind = "group" /\ g.id = 1 /\ g.uuid = 1
                                     /\ g.tenant = "home" /\ g.up = 0
      /\ \E g \in rows \union {new} : g.kind = "group" /\ g.id = 2 /\ g.uuid = 2
                                     /\ g.tenant = "home" /\ g.up \in {0, 1}
  BY DEF BuiltOK
<1>6. \A g \in rows \union {new} : g.kind = "group" => g.up # 2
  BY DEF BuiltOK
<1> QED
  BY <1>3, <1>4, <1>5, <1>6 DEF BuiltOK, Is

\* The closure table names no group that is yet to come.
LEMMA ClosureBound ==
  ASSUME NEW rows \in SUBSET SomeRow, NEW closure, NEW serial \in Nat, IdsOK(rows, serial),
         BuiltOK(rows, closure, serial), NEW p \in closure
  PROVE  p[1] \in 1..serial /\ p[2] \in 1..serial
<1>1. \A r \in rows : r.id \in 1..serial
  BY DEF IdsOK, SomeRow
<1>2. /\ \E g \in rows : g.kind = "group" /\ g.id = p[1]
      /\ \E g \in rows : g.kind = "group" /\ g.id = p[2]
  BY DEF BuiltOK
<1> QED
  BY <1>1, <1>2

\* A new group is added to the tree with a line for itself, and one for every ancestor
\* of its parent.
LEMMA AddedTree ==
  ASSUME NEW rows \in SUBSET SomeRow, NEW closure, NEW serial \in Nat,
         IdsOK(rows, serial), BuiltOK(rows, closure, serial), TreeOf(rows, closure),
         NEW new, new.id = serial + 1, new.up \in 0..serial, new.kind = "group"
  PROVE  TreeOf(rows \union {new}, NewClosure(closure, new))
<1> DEFINE lines == {<<a, new.id>> : a \in Ancestors(closure, new.up)}
           closure2 == closure \union {<<new.id, new.id>>} \union lines
<1>1. ASSUME NEW x, x # new.id
      PROVE  Ancestors(closure2, x) = Ancestors(closure, x)
  <2>1. \A p \in closure2 : p[2] = x <=> (p \in closure /\ p[2] = x)
    BY <1>1
  <2>2. {q \in closure2 : q[2] = x} = {q \in closure : q[2] = x}
    BY <2>1
  <2> QED
    BY <2>2 DEF Ancestors
<1>2. \A p \in closure : p[2] # new.id
  BY ClosureBound
<1>3. Ancestors(closure2, new.id) = {new.id} \union Ancestors(closure, new.up)
  <2> DEFINE A == Ancestors(closure, new.up)
  <2>1. ASSUME NEW a \in Ancestors(closure2, new.id)
        PROVE  a \in {new.id} \union A
    <3>1. PICK p \in closure2 : p[2] = new.id /\ a = p[1]
      BY DEF Ancestors
    <3>2. p \notin closure
      BY <1>2, <3>1
    <3> HIDE DEF A
    <3>3. p = <<new.id, new.id>> \/ \E b \in A : p = <<b, new.id>>
      BY <3>2 DEF A
    <3> QED
      BY <3>1, <3>3
  <2>2. ASSUME NEW a \in {new.id} \union A
        PROVE  a \in Ancestors(closure2, new.id)
    <3>1. <<a, new.id>> \in closure2
      BY <2>2
    <3> HIDE DEF closure2
    <3>2. <<a, new.id>>[2] = new.id /\ <<a, new.id>>[1] = a
      OBVIOUS
    <3> QED
      BY <3>1, <3>2 DEF Ancestors
  <2> HIDE DEF closure2, A
  <2>3. Ancestors(closure2, new.id) = {new.id} \union A
    BY <2>1, <2>2
  <2> QED
    BY <2>3 DEF A
<1>4. new.up # new.id /\ new.up < new.id
  OBVIOUS
<1> HIDE DEF closure2
<1>5. ASSUME NEW g \in rows, g.kind = "group"
      PROVE  g.up < g.id
             /\ Ancestors(closure2, g.id) = {g.id} \union Ancestors(closure2, g.up)
  <2>1. g.up \in Nat /\ g.id \in Nat /\ g.id <= serial
    BY DEF IdsOK, SomeRow
  <2>2. g.up < g.id /\ Ancestors(closure, g.id) = {g.id} \union Ancestors(closure, g.up)
    BY <1>5 DEF TreeOf
  <2>3. g.id # new.id /\ g.up # new.id
    BY <2>1, <2>2
  <2> QED
    BY <1>1, <2>2, <2>3
<1>6. Ancestors(closure2, new.id) = {new.id} \union Ancestors(closure2, new.up)
  BY <1>1, <1>3, <1>4
<1>7. TreeOf(rows \union {new}, closure2)
  BY <1>4, <1>5, <1>6 DEF TreeOf
<1> QED
  BY <1>7 DEF closure2, NewClosure

-----------------------------------------------------------------------------
(***************************************************************************)
(* What an import has done after some of its items.  The parameters of     *)
(* these proofs: serial is the last id given out before the import, ups    *)
(* are the parents that the file may give to the second group, and tree    *)
(* says that the closure table still follows the parents.                  *)
(***************************************************************************)

\* What a uuid resolves to stands for it.
LEMMA ResolveStands ==
  ASSUME NEW known, NEW rows \in SUBSET SomeRow, NEW job, NEW serial,
         KnownNames(known, rows, job, serial), NEW kind \in Kinds, NEW uuid
  PROVE  /\ Resolve(known, kind, uuid) = 0 => \A p \in known[kind] : p[1] # uuid
         /\ Resolve(known, kind, uuid) # 0 =>
              \E r \in rows : /\ r.id = Resolve(known, kind, uuid)
                              /\ Stands(r, kind, uuid, job, serial)
<1>1. CASE \E p \in known[kind] : p[1] = uuid
  <2> DEFINE p == CHOOSE p \in known[kind] : p[1] = uuid
  <2>1. p \in known[kind] /\ p[1] = uuid
    BY <1>1
  <2>2. Resolve(known, kind, uuid) = p[2]
    BY <1>1 DEF Resolve
  <2> HIDE DEF p
  <2>3. PICK r \in rows : r.id = p[2] /\ Stands(r, kind, uuid, job, serial)
    BY <2>1 DEF KnownNames
  <2>4. r.id # 0
    BY DEF SomeRow
  <2> QED
    BY <2>2, <2>3, <2>4
<1>2. CASE ~\E p \in known[kind] : p[1] = uuid
  BY <1>2 DEF Resolve
<1> QED
  BY <1>1, <1>2

\* Ids are natural numbers.
LEMMA ResolveType ==
  ASSUME NEW known \in [Kinds -> SUBSET (Nat \X Nat)], NEW kind \in Kinds, NEW uuid
  PROVE  Resolve(known, kind, uuid) \in Nat
<1>1. CASE \E p \in known[kind] : p[1] = uuid
  <2>1. (CHOOSE p \in known[kind] : p[1] = uuid) \in known[kind]
    BY <1>1
  <2>2. (CHOOSE p \in known[kind] : p[1] = uuid) \in Nat \X Nat
    BY <2>1
  <2> QED
    BY <1>1, <2>2 DEF Resolve
<1>2. CASE ~\E p \in known[kind] : p[1] = uuid
  BY <1>2 DEF Resolve
<1> QED
  BY <1>1, <1>2

\* A parent resolves to a group of the tenant, or to none.
LEMMA ResolveUp ==
  ASSUME NEW known, NEW rows \in SUBSET SomeRow, NEW job, NEW serial,
         KnownNames(known, rows, job, serial), NEW uuid
  PROVE  UpOK(rows, job.tenant, Resolve(known, "group", uuid))
<1> DEFINE id == Resolve(known, "group", uuid)
<1> SUFFICES ASSUME id # 0
             PROVE  \E g \in rows : g.kind = "group" /\ g.id = id /\ g.tenant = job.tenant
  BY DEF UpOK
<1>1. "group" \in Kinds
  BY DEF Kinds
<1>2. PICK r \in rows : r.id = id /\ Stands(r, "group", uuid, job, serial)
  BY <1>1, ResolveStands
<1>3. r.kind = "group" /\ r.tenant = job.tenant
  BY <1>2 DEF Stands, Class
<1> QED
  BY <1>2, <1>3

\* Those of a file do, once they are resolved.
LEMMA ResolvedOK ==
  ASSUME NEW known \in [Kinds -> SUBSET (Nat \X Nat)], NEW rows \in SUBSET SomeRow,
         NEW job, NEW serial, KnownNames(known, rows, job, serial),
         NEW n \in Nat, IdsOK(rows, n), NEW scoped \in SUBSET SomeScoped
  PROVE  ScopedOK(Resolved(known, scoped), rows, job.tenant, n)
<1> SUFFICES ASSUME NEW x \in Resolved(known, scoped)
             PROVE  x \in SomeScoped /\ x.ref <= n /\ PointsInto(rows, job.tenant, x.scope, x.ref)
  BY DEF ScopedOK
<1>1. PICK s \in scoped :
        /\ x = Scoped(s.scope, IF s.scope = "global" THEN 0 ELSE Resolve(known, s.scope, s.ref),
                      s.value)
        /\ x.scope = "global" \/ x.ref # 0
  BY DEF Resolved
<1>2. s.scope \in Places /\ s.value \in Nat
  BY DEF SomeScoped
<1>3. \A r \in rows : r.kind # "global"
  BY DEF SomeRow, Kinds
<1>4. CASE s.scope = "global"
  <2>1. x = Scoped("global", 0, s.value)
    BY <1>1, <1>4
  <2>2. x \in SomeScoped /\ x.scope = "global" /\ x.ref = 0
    BY <1>2, <2>1 DEF Scoped, SomeScoped, Places
  <2> QED
    BY <1>3, <2>2 DEF PointsInto
<1>5. CASE s.scope # "global"
  <2> DEFINE id == Resolve(known, s.scope, s.ref)
  <2>1. s.scope \in Kinds
    BY <1>2, <1>5 DEF Places, Kinds
  <2>2. id \in Nat
    BY <2>1, ResolveType
  <2>3. x = Scoped(s.scope, id, s.value)
    BY <1>1, <1>5
  <2> HIDE DEF id
  <2>4. x \in SomeScoped /\ x.scope = s.scope /\ x.ref = id
    BY <1>2, <2>2, <2>3 DEF Scoped, SomeScoped
  <2>5. id # 0
    BY <1>1, <1>5, <2>4
  <2>6. PICK r \in rows : r.id = id /\ Stands(r, s.scope, s.ref, job, serial)
    BY <2>1, <2>5, ResolveStands DEF id
  <2>7. r.id <= n /\ \A q \in rows : q.id = id => q = r
    BY <2>6 DEF IdsOK
  <2>8. r.tenant = job.tenant
    BY <2>6 DEF Stands
  <2> QED
    BY <2>4, <2>6, <2>7, <2>8 DEF PointsInto
<1> QED
  BY <1>4, <1>5

\* What a record owns may be rebuilt from such rows.
LEMMA RebuiltOK ==
  ASSUME NEW rows, NEW n, NEW owned \in SUBSET SomeOwned, OwnedOK(owned, rows, n),
         NEW w \in rows, w.id \in Nat, NEW scoped, ScopedOK(scoped, rows, w.tenant, n), NEW kind
  PROVE  /\ Rebuilt(owned, kind, w.id, scoped) \in SUBSET SomeOwned
         /\ OwnedOK(Rebuilt(owned, kind, w.id, scoped), rows, n)
<1> DEFINE mine == {Owned(w.id, s.scope, s.ref, s.value) : s \in scoped}
<1>1. ASSUME NEW o \in mine
      PROVE  o \in SomeOwned /\ o.ref <= n /\ o.owner = w.id
             /\ PointsInto(rows, w.tenant, o.scope, o.ref)
  <2>1. PICK s \in scoped : o = Owned(w.id, s.scope, s.ref, s.value)
    OBVIOUS
  <2>2. s \in SomeScoped /\ s.ref <= n /\ PointsInto(rows, w.tenant, s.scope, s.ref)
    BY DEF ScopedOK
  <2>3. o \in SomeOwned /\ o.owner = w.id /\ o.scope = s.scope /\ o.ref = s.ref
    BY <2>1, <2>2 DEF Owned, SomeOwned, SomeScoped
  <2> QED
    BY <2>2, <2>3
<1>2. \A o \in Rebuilt(owned, kind, w.id, scoped) : o \in owned \/ o \in mine
  BY DEF Rebuilt
<1> HIDE DEF mine
<1> QED
  BY <1>1, <1>2 DEF OwnedOK

-----------------------------------------------------------------------------
(***************************************************************************)
(* One item is imported.                                                   *)
(***************************************************************************)
\* The row that an update finds has the uuid of the item.
LEMMA UpdateFinds ==
  ASSUME NEW job, NEW serial, NEW ups, NEW tree, GoodJob(job, serial, ups, tree),
         NEW acc, GoodAcc(acc, job, serial, ups, tree),
         NEW kind \in Kinds, NEW uuid, ResolveConflict(job, acc.known, kind, uuid) = "update"
  PROVE  /\ job.strategy = "update" /\ uuid # Anonymous
         /\ With(acc.db.rows, Resolve(acc.known, kind, uuid)) \in acc.db.rows
         /\ LET old == With(acc.db.rows, Resolve(acc.known, kind, uuid)) IN
              /\ old.id = Resolve(acc.known, kind, uuid) /\ old.uuid = uuid
              /\ Class(old) = kind /\ old.tenant = job.tenant
<1> DEFINE rows == acc.db.rows
           id == Resolve(acc.known, kind, uuid)
<1>1. /\ uuid # Anonymous /\ uuid \notin job.foreign[kind] /\ id # 0
      /\ job.strategy = "update"
  BY DEF ResolveConflict, GoodJob, Strategies
<1>2. rows \in SUBSET SomeRow /\ KnownNames(acc.known, rows, job, serial)
      /\ IdsOK(rows, acc.db.serial)
  BY DEF GoodAcc, GoodDb, SomeDb
<1> HIDE DEF rows
<1>3. PICK r \in rows : r.id = id /\ Stands(r, kind, uuid, job, serial)
  BY <1>1, <1>2, ResolveStands
<1>4. r.uuid = uuid /\ Class(r) = kind /\ r.tenant = job.tenant
  BY <1>1, <1>3 DEF Stands
<1>5. \A q \in rows : q.id = id => q = r
  BY <1>2, <1>3 DEF IdsOK
<1>6. With(rows, id) = r
  BY <1>3, <1>5 DEF With
<1> QED
  BY <1>1, <1>3, <1>4, <1>6 DEF rows

\* An update of the second group puts it below the first, or at the root; the first group
\* stays at the root.
LEMMA UpdateUp ==
  ASSUME NEW job, NEW serial, NEW ups, NEW tree, GoodJob(job, serial, ups, tree),
         NEW acc, GoodAcc(acc, job, serial, ups, tree), NEW item \in Items("group", serial, ups),
         ResolveConflict(job, acc.known, "group", item.uuid) = "update"
  PROVE  LET old == With(acc.db.rows, Resolve(acc.known, "group", item.uuid)) IN
         /\ old.kind = "group" /\ old.id \in {1, 2}
         /\ old.id = 1 => old.up = 0 /\ Resolve(acc.known, "group", item.up) = 0
         /\ old.id = 2 => old.up \in ups /\ Resolve(acc.known, "group", item.up) \in ups
<1> DEFINE rows == acc.db.rows
           old == With(rows, Resolve(acc.known, "group", item.uuid))
           up == Resolve(acc.known, "group", item.up)
<1>1. "group" \in Kinds
  BY DEF Kinds
<1>2. /\ job.strategy = "update" /\ item.uuid # Anonymous /\ old \in rows
      /\ old.uuid = item.uuid /\ Class(old) = "group" /\ old.tenant = job.tenant
  BY <1>1, UpdateFinds
<1>3. old.kind = "group"
  BY <1>2 DEF Class
<1>4. /\ rows \in SUBSET SomeRow /\ KnownNames(acc.known, rows, job, serial)
      /\ IdsOK(rows, acc.db.serial) /\ KnownCovers(acc.known, rows, job)
      /\ BuiltOK(rows, acc.db.closure, acc.db.serial) /\ SecondGroup(rows, ups)
  BY DEF GoodAcc, GoodDb, SomeDb
<1>5. /\ item.uuid \in {0, 1, 2} /\ item.up \in {0, 1} /\ (item.uuid = 1 => item.up = 0)
      /\ (item.uuid = 2 => item.up \in ups)
  BY DEF Items
<1> HIDE DEF rows, old, up
<1>6. PICK g1 \in rows : g1.kind = "group" /\ g1.id = 1 /\ g1.uuid = 1 /\ g1.tenant = "home"
                         /\ g1.up = 0
  BY <1>4 DEF BuiltOK
<1>7. PICK g2 \in rows : g2.kind = "group" /\ g2.id = 2 /\ g2.uuid = 2 /\ g2.tenant = "home"
  BY <1>4 DEF BuiltOK
<1>8. (old = g1 /\ item.uuid = 1) \/ (old = g2 /\ item.uuid = 2)
  <2>1. Class(g1) = "group" /\ Class(g2) = "group"
    BY <1>6, <1>7 DEF Class
  <2>2. item.uuid = 1 \/ item.uuid = 2
    BY <1>2, <1>5 DEF Anonymous
  <2> QED
    BY <1>2, <1>4, <1>6, <1>7, <2>1, <2>2 DEF IdsOK
<1>9. job.tenant = "home"
  BY <1>2, <1>6, <1>7, <1>8
<1>10. item.up = 0 => up = 0
  <2>1. SUFFICES ASSUME item.up = 0, up # 0
                 PROVE  FALSE
    OBVIOUS
  <2>2. \E r \in rows : Stands(r, "group", item.up, job, serial)
    BY <1>1, <1>4, <2>1, ResolveStands DEF up
  <2> QED
    BY <2>1, <2>2 DEF Stands, Anonymous
<1>11. item.up = 1 => up = 1
  <2> SUFFICES ASSUME item.up = 1
               PROVE  up = 1
    OBVIOUS
  <2>1. Class(g1) = "group"
    BY <1>6 DEF Class
  <2>2. \E p \in acc.known["group"] : p[1] = 1
    BY <1>4, <1>6, <1>9, <2>1 DEF KnownCovers
  <2>3. up = Resolve(acc.known, "group", 1)
    BY DEF up
  <2>4. up # 0
    <3>1. rows \in SUBSET SomeRow /\ KnownNames(acc.known, rows, job, serial)
      BY <1>4
    <3>2. Resolve(acc.known, "group", 1) = 0 => \A p \in acc.known["group"] : p[1] # 1
      BY ONLY <1>1, <3>1, ResolveStands, SMTT(30)
    <3> QED
      BY <2>2, <2>3, <3>2
  <2>5. PICK r \in rows : r.id = up /\ Stands(r, "group", 1, job, serial)
    BY <1>1, <1>4, <2>3, <2>4, ResolveStands
  <2>6. 1 \notin job.foreign["group"]
    BY <1>9 DEF GoodJob
  <2>7. r.uuid = 1 /\ Class(r) = "group"
    BY <1>2, <2>5, <2>6 DEF Stands
  <2>8. r = g1
    BY <1>4, <1>6, <2>1, <2>7 DEF IdsOK
  <2> QED
    BY <1>6, <2>5, <2>8
<1>12. CASE old = g1 /\ item.uuid = 1
  <2>1. old.id = 1 /\ old.up = 0 /\ up = 0
    BY <1>5, <1>6, <1>10, <1>12
  <2> QED
    BY <1>3, <2>1 DEF old, up, rows
<1>13. CASE old = g2 /\ item.uuid = 2
  <2>1. old.id = 2 /\ old.up \in ups
    BY <1>3, <1>4, <1>2, <1>7, <1>13 DEF SecondGroup
  <2>2. up \in ups
    BY <1>5, <1>10, <1>11, <1>13
  <2> QED
    BY <1>3, <2>1, <2>2 DEF old, up, rows
<1> QED
  BY <1>8, <1>12, <1>13

\* The tables after a change of one row and of what a record owns.
LEMMA AccChanged ==
  ASSUME NEW job, NEW serial, NEW ups, NEW tree, GoodJob(job, serial, ups, tree),
         NEW acc, GoodAcc(acc, job, serial, ups, tree),
         NEW old \in acc.db.rows, NEW new \in SomeRow, Alike(old, new),
         UpOK(acc.db.rows, new.tenant, new.up),
         MayChange(acc.db.rows, old, new, ups),
         job.strategy = "update", old.tenant = job.tenant,
         NEW owned \in SUBSET SomeOwned,
         OwnedOK(owned, (acc.db.rows \ {old}) \union {new}, acc.db.serial)
  PROVE  GoodAcc(Changed(acc, old, new, owned), job, serial, ups, tree)
<1> DEFINE acc2 == Changed(acc, old, new, owned)
           rows == acc.db.rows
           rows2 == (rows \ {old}) \union {new}
<1>1. /\ acc \in [db : SomeDb, known : [Kinds -> SUBSET (Nat \X Nat)], failed : BOOLEAN]
      /\ GoodDb(acc.db) /\ serial <= acc.db.serial
  BY DEF GoodAcc
<1>2. /\ rows \in SUBSET SomeRow /\ IdsOK(rows, acc.db.serial) /\ TokensOK(rows) /\ UpsOK(rows)
      /\ BuiltOK(rows, acc.db.closure, acc.db.serial)
  BY <1>1 DEF GoodDb, SomeDb
<1>3. /\ acc2.db \in SomeDb /\ acc2.db.rows = rows2 /\ acc2.db.closure = acc.db.closure
      /\ acc2.db.serial = acc.db.serial /\ acc2.db.owned = owned
      /\ acc2.known = acc.known
      /\ acc2 \in [db : SomeDb, known : [Kinds -> SUBSET (Nat \X Nat)], failed : BOOLEAN]
  <2>1. rows2 \in SUBSET SomeRow
    BY <1>2
  <2> HIDE DEF rows2
  <2>2. acc2 = [acc EXCEPT !.db = [@ EXCEPT !.rows = rows2, !.owned = owned]]
    BY <1>1 DEF rows2, SomeDb, Changed
  <2> HIDE DEF acc2
  <2>3. [acc.db EXCEPT !.rows = rows2, !.owned = owned] \in SomeDb
    BY <1>1, <2>1 DEF SomeDb
  <2>4. acc2.db = [acc.db EXCEPT !.rows = rows2, !.owned = owned]
    BY <1>1, <2>2
  <2>5. /\ acc2.db.rows = rows2 /\ acc2.db.closure = acc.db.closure
        /\ acc2.db.serial = acc.db.serial /\ acc2.db.owned = owned
    BY <1>1, <2>4 DEF SomeDb
  <2> QED
    BY <1>1, <2>2, <2>3, <2>4, <2>5
<1>4. SameRows(rows, rows2) /\ IdsOK(rows2, acc.db.serial)
  BY <1>2, ReplacedIds
<1> HIDE DEF acc2
<1>5. TokensOK(rows2)
  BY <1>2, ReplacedTokens DEF MayChange
<1>6. UpsOK(rows2)
  <2>1. ASSUME NEW r \in rows2
        PROVE  UpOK(rows, r.tenant, r.up)
    <3>1. r = new \/ r \in rows
      OBVIOUS
    <3> QED
      BY <1>2, <3>1 DEF UpsOK
  <2> HIDE DEF rows, rows2
  <2> QED
    BY <1>4, <2>1, SameUps DEF UpsOK
<1>7. BuiltOK(rows2, acc.db.closure, acc.db.serial)
  <2>1. new.kind = "group" => /\ new.up # 2
                              /\ new.id = 1 => new.up = 0
                              /\ new.id = 2 => new.up \in {0, 1}
    <3>1. ups \subseteq {0, 1}
      BY DEF GoodJob
    <3>2. ASSUME new.kind = "group"
          PROVE  new.id \in {1, 2} /\ (new.id = 1 => new.up = 0) /\ (new.id = 2 => new.up \in ups)
      BY <3>2 DEF MayChange
    <3>3. new.kind = "group" => new.up \in {0, 1}
      BY <3>1, <3>2
    <3>4. new.up \in {0, 1} => new.up # 2
      OBVIOUS
    <3> QED
      BY <3>2, <3>3, <3>4
  <2> QED
    BY <1>2, <2>1, ReplacedBuilt
<1>8. GoodDb(acc2.db)
  <2> HIDE DEF rows2
  <2>1. OwnedOK(owned, rows2, acc.db.serial)
    BY DEF rows2
  <2> QED
    BY <1>3, <1>4, <1>5, <1>6, <1>7, <2>1 DEF GoodDb
<1>9. KnownNames(acc2.known, rows2, job, serial)
  <2>1. ASSUME NEW k \in Kinds, NEW p \in acc.known[k]
        PROVE  \E r \in rows2 : r.id = p[2] /\ Stands(r, k, p[1], job, serial)
    <3>1. PICK q \in rows : q.id = p[2] /\ Stands(q, k, p[1], job, serial)
      BY DEF GoodAcc, KnownNames
    <3>2. PICK r \in rows2 : Alike(q, r)
      BY <1>4 DEF SameRows
    <3>3. Class(r) = Class(q)
      BY <3>2, SameClass
    <3> QED
      BY <3>1, <3>2, <3>3 DEF Stands, Alike
  <2> QED
    BY <1>3, <2>1 DEF KnownNames
<1>10. KnownCovers(acc2.known, rows2, job)
  <2>1. ASSUME NEW r \in rows2
        PROVE  IF r.tenant = job.tenant THEN \E p \in acc.known[Class(r)] : p[1] = r.uuid
               ELSE r.uuid \in job.foreign[Class(r)]
    <3>1. PICK q \in rows : Alike(q, r)
      BY <1>4 DEF SameRows
    <3>2. Class(r) = Class(q)
      BY <3>1, SameClass
    <3>3. KnownCovers(acc.known, rows, job)
      BY DEF GoodAcc
    <3> QED
      BY <3>1, <3>2, <3>3 DEF KnownCovers, Alike
  <2> QED
    BY <1>3, <2>1 DEF KnownCovers
<1>11. SecondGroup(rows2, ups)
  BY DEF SecondGroup, GoodAcc, MayChange
<1>12. ASSUME tree
       PROVE  TreeOf(rows2, acc.db.closure)
  <2>1. TreeOf(rows, acc.db.closure)
    BY <1>12 DEF GoodAcc
  <2>2. ASSUME new.kind = "group"
        PROVE  old.up = new.up
    <3>1. /\ new.id \in {1, 2} /\ (new.id = 1 => old.up = 0 /\ new.up = 0)
          /\ (new.id = 2 => old.up \in ups /\ new.up \in ups)
      BY <2>2 DEF MayChange
    <3>2. old.tenant = "home"
      <4>1. /\ \E g \in rows : g.id = 1 /\ g.tenant = "home"
            /\ \E g \in rows : g.id = 2 /\ g.tenant = "home"
        BY <1>2 DEF BuiltOK
      <4> QED
        BY <1>2, <3>1, <4>1 DEF IdsOK, Alike
    <3>3. PICK u \in ups : ups = {u}
      BY <1>12, <3>2 DEF GoodJob
    <3> QED
      BY <3>1, <3>3
  <2>3. new.kind = "group" => old.up = new.up /\ old.id = new.id /\ old.kind = "group"
    BY <2>2 DEF Alike
  <2>4. \A g \in rows2 : g.kind = "group" =>
          \E h \in rows : h.kind = "group" /\ h.id = g.id /\ h.up = g.up
    BY <2>3
  <2> HIDE DEF rows, rows2
  <2> QED
    BY <2>1, <2>4, SameTree
<1> QED
  <2>1. GoodAcc(acc2, job, serial, ups, tree)
    BY <1>1, <1>3, <1>8, <1>9, <1>10, <1>11, <1>12 DEF GoodAcc
  <2> QED
    BY <2>1 DEF acc2

\* A token that an update keeps belongs to no other monitor.
LEMMA TokenFree ==
  ASSUME NEW rows \in SUBSET SomeRow, NEW item, NEW uuid, NEW q \in rows, Class(q) = "monitor",
         Token(rows, item, uuid) # 0, q.extra = Token(rows, item, uuid)
  PROVE  q.uuid = uuid
<1>1. q \in Of(rows, "monitor")
  BY DEF Of, Class, SomeRow
<1> QED
  BY <1>1 DEF Token

\* An update keeps the tables consistent.
LEMMA UpdateStays ==
  ASSUME NEW job, NEW serial, NEW ups, NEW tree, GoodJob(job, serial, ups, tree),
         NEW acc, GoodAcc(acc, job, serial, ups, tree),
         NEW kind \in Kinds, NEW item \in Items(kind, serial, ups),
         ResolveConflict(job, acc.known, kind, item.uuid) = "update"
  PROVE  GoodAcc(UpdateItem(acc, job, kind, item), job, serial, ups, tree)
<1> DEFINE rows == acc.db.rows
           id == Resolve(acc.known, kind, item.uuid)
           old == With(rows, id)
           up == IF kind \in {"group", "monitor"} THEN Resolve(acc.known, "group", item.up)
                 ELSE old.up
           extra == IF kind = "monitor" THEN Token(rows, item, item.uuid) ELSE old.extra
           new == [old EXCEPT !.name = item.name, !.data = item.data, !.up = up, !.extra = extra]
           scoped == Resolved(acc.known, item.scoped)
           owned == Rebuilt(acc.db.owned, kind, id, scoped)
<1>1. /\ job.strategy = "update" /\ item.uuid # Anonymous /\ old \in rows /\ old.id = id
      /\ old.uuid = item.uuid /\ Class(old) = kind /\ old.tenant = job.tenant
  BY UpdateFinds
<1>2. /\ acc \in [db : SomeDb, known : [Kinds -> SUBSET (Nat \X Nat)], failed : BOOLEAN]
      /\ rows \in SUBSET SomeRow /\ IdsOK(rows, acc.db.serial) /\ UpsOK(rows)
      /\ OwnedOK(acc.db.owned, rows, acc.db.serial) /\ KnownNames(acc.known, rows, job, serial)
      /\ acc.db.owned \in SUBSET SomeOwned /\ acc.db.serial \in Nat
  BY DEF GoodAcc, GoodDb, SomeDb
<1>3. item \in SomeItem
  BY DEF Items
<1>4. UpdateItem(acc, job, kind, item) =
        [acc EXCEPT !.db.rows = (@ \ {old}) \union {new}, !.db.owned = owned]
  BY DEF UpdateItem
<1>5. up \in Nat /\ UpOK(rows, job.tenant, up)
  <2>1. "group" \in Kinds
    BY DEF Kinds
  <2>2. /\ Resolve(acc.known, "group", item.up) \in Nat
        /\ UpOK(rows, job.tenant, Resolve(acc.known, "group", item.up))
    <3> HIDE DEF rows
    <3> QED
      BY <1>2, <2>1, ResolveType, ResolveUp
  <2>3. old.up \in Nat /\ UpOK(rows, job.tenant, old.up)
    BY <1>1, <1>2 DEF SomeRow, UpsOK
  <2> QED
    BY <2>2, <2>3
<1>6. extra \in Nat
  <2>1. Token(rows, item, item.uuid) \in Nat
    BY <1>3 DEF Token, SomeItem
  <2>2. old.extra \in Nat
    BY <1>1, <1>2 DEF SomeRow
  <2> QED
    BY <2>1, <2>2
<1> HIDE DEF up, extra, old
<1>7. /\ new \in SomeRow /\ Alike(old, new) /\ new.up = up /\ new.extra = extra
      /\ new.tenant = job.tenant
  <2>1. /\ old \in SomeRow /\ old.tenant = job.tenant /\ up \in Nat /\ extra \in Nat
        /\ item.name \in Nat /\ item.data \in Nat
    BY <1>1, <1>2, <1>3, <1>5, <1>6 DEF SomeItem
  <2>2. new \in SomeRow
    BY ONLY <2>1 DEF SomeRow
  <2>3. /\ new.kind = old.kind /\ new.id = old.id /\ new.uuid = old.uuid
        /\ new.tenant = old.tenant /\ new.up = up /\ new.extra = extra
    BY ONLY <2>1 DEF SomeRow
  <2> HIDE DEF new
  <2> QED
    BY <2>1, <2>2, <2>3 DEF Alike
<1> HIDE DEF new
<1>8. Class(new) = kind /\ new.uuid = item.uuid
  BY <1>1, <1>7, SameClass DEF Alike
<1>9. \A q \in rows : (/\ Class(new) = "monitor" /\ Class(q) = "monitor"
                       /\ new.extra # 0 /\ q.extra = new.extra) => q = old
  <2> SUFFICES ASSUME NEW q \in rows, Class(new) = "monitor", Class(q) = "monitor",
                      new.extra # 0, q.extra = new.extra
               PROVE  q = old
    OBVIOUS
  <2>1. extra = Token(rows, item, item.uuid)
    BY <1>8 DEF extra
  <2>2. q.uuid = item.uuid
    <3> HIDE DEF rows
    <3> QED
      BY <1>2, <1>7, <2>1, TokenFree
  <2> QED
    BY <1>1, <1>2, <1>8, <2>2 DEF IdsOK
<1>10. new.kind = "group" => /\ new.id \in {1, 2}
                             /\ new.id = 1 => old.up = 0 /\ new.up = 0
                             /\ new.id = 2 => old.up \in ups /\ new.up \in ups
  <2> SUFFICES ASSUME new.kind = "group"
               PROVE  /\ new.id \in {1, 2}
                      /\ new.id = 1 => old.up = 0 /\ new.up = 0
                      /\ new.id = 2 => old.up \in ups /\ new.up \in ups
    OBVIOUS
  <2>1. kind = "group"
    BY <1>8 DEF Class
  <2>2. /\ old.kind = "group" /\ old.id \in {1, 2}
        /\ old.id = 1 => old.up = 0 /\ Resolve(acc.known, "group", item.up) = 0
        /\ old.id = 2 => old.up \in ups /\ Resolve(acc.known, "group", item.up) \in ups
    BY <2>1, UpdateUp DEF old
  <2>3. up = Resolve(acc.known, "group", item.up)
    BY <2>1 DEF up
  <2> QED
    BY <1>7, <2>2, <2>3 DEF Alike
<1>11. /\ owned \in SUBSET SomeOwned
       /\ OwnedOK(owned, (rows \ {old}) \union {new}, acc.db.serial)
  <2>1. ScopedOK(scoped, rows, old.tenant, acc.db.serial)
    <3>1. item.scoped \in SUBSET SomeScoped
      BY <1>3 DEF SomeItem
    <3> HIDE DEF rows
    <3> QED
      BY <1>1, <1>2, <3>1, ResolvedOK
  <2>2. old.id \in Nat
    BY <1>1, <1>2 DEF SomeRow
  <2> HIDE DEF scoped, rows, id
  <2>3. owned \in SUBSET SomeOwned /\ OwnedOK(owned, rows, acc.db.serial)
    BY <1>1, <1>2, <2>1, <2>2, RebuiltOK
  <2>4. SameRows(rows, (rows \ {old}) \union {new})
    BY <1>1, <1>2, <1>7, ReplacedIds
  <2> HIDE DEF owned
  <2> QED
    BY <2>3, <2>4, SameOwned
<1> HIDE DEF owned, id
<1>12. MayChange(rows, old, new, ups)
  BY <1>9, <1>10 DEF MayChange
<1>13. GoodAcc(Changed(acc, old, new, owned), job, serial, ups, tree)
  BY <1>1, <1>5, <1>7, <1>11, <1>12, AccChanged
<1> QED
  BY <1>4, <1>13 DEF Changed

\* No new group is below the second one.
LEMMA CreateUp ==
  ASSUME NEW job, NEW serial, NEW ups, NEW tree, GoodJob(job, serial, ups, tree),
         NEW acc, GoodAcc(acc, job, serial, ups, tree), NEW uuid
  PROVE  /\ Resolve(acc.known, "group", uuid) \in 0 .. acc.db.serial
         /\ uuid \in {0, 1} => Resolve(acc.known, "group", uuid) # 2
<1> DEFINE rows == acc.db.rows
           up == Resolve(acc.known, "group", uuid)
<1>1. /\ rows \in SUBSET SomeRow /\ KnownNames(acc.known, rows, job, serial)
      /\ IdsOK(rows, acc.db.serial) /\ BuiltOK(rows, acc.db.closure, acc.db.serial)
      /\ acc.db.serial \in Nat
  BY DEF GoodAcc, GoodDb, SomeDb
<1>2. "group" \in Kinds
  BY DEF Kinds
<1> HIDE DEF rows
<1>3. CASE up = 0
  BY <1>1, <1>3
<1>4. CASE up # 0
  <2>1. PICK r \in rows : r.id = up /\ Stands(r, "group", uuid, job, serial)
    BY <1>1, <1>2, <1>4, ResolveStands
  <2> HIDE DEF up
  <2>2. up \in 0 .. acc.db.serial
    BY <1>1, <2>1 DEF IdsOK, SomeRow
  <2>3. ASSUME uuid \in {0, 1}
        PROVE  up # 2
    <3>1. uuid = 1 /\ Class(r) = "group"
      BY <2>1, <2>3 DEF Stands, Anonymous
    <3>2. CASE r.uuid = 1
      <4>1. PICK g \in rows : g.kind = "group" /\ g.id = 1 /\ g.uuid = 1
        BY <1>1 DEF BuiltOK
      <4>2. r = g
        BY <1>1, <3>1, <3>2, <4>1 DEF IdsOK, Class
      <4> QED
        BY <2>1, <4>1, <4>2
    <3>3. CASE r.id > serial
      BY <2>1, <2>2, <3>3 DEF GoodJob
    <3> QED
      BY <2>1, <3>1, <3>2, <3>3 DEF Stands
  <2> QED
    BY <2>2, <2>3 DEF up
<1> QED
  BY <1>3, <1>4

\* They are, field by field.
LEMMA CreatedFields ==
  ASSUME NEW acc \in [db : SomeDb, known : [Kinds -> SUBSET (Nat \X Nat)], failed : BOOLEAN],
         NEW item, NEW row
  PROVE  Created(acc, item, row) =
           [db |-> [rows |-> acc.db.rows \union {row},
                    closure |-> NewClosure(acc.db.closure, row),
                    settings |-> acc.db.settings,
                    owned |-> Rebuilt(acc.db.owned, row.kind, row.id,
                                      Resolved(acc.known, item.scoped)),
                    serial |-> row.id],
            known |-> [acc.known EXCEPT ![row.kind] = NewPairs(@, item, row)],
            failed |-> acc.failed]
<1> DEFINE rows2 == acc.db.rows \union {row}
           closure2 == NewClosure(acc.db.closure, row)
           owned2 == Rebuilt(acc.db.owned, row.kind, row.id, Resolved(acc.known, item.scoped))
           known2 == [acc.known EXCEPT ![row.kind] = NewPairs(@, item, row)]
<1>1. acc.db = [rows |-> acc.db.rows, closure |-> acc.db.closure, settings |-> acc.db.settings,
                owned |-> acc.db.owned, serial |-> acc.db.serial]
  <2>1. acc.db \in SomeDb
    OBVIOUS
  <2> QED
    BY <2>1 DEF SomeDb
<1>2. acc = [db |-> acc.db, known |-> acc.known, failed |-> acc.failed]
  OBVIOUS
<1>3. ASSUME NEW a, NEW d, NEW r, NEW c, NEW s, NEW o, NEW n, NEW k, NEW f,
             NEW r2, NEW c2, NEW o2, NEW n2, NEW k2,
             d = [rows |-> r, closure |-> c, settings |-> s, owned |-> o, serial |-> n],
             a = [db |-> d, known |-> k, failed |-> f]
      PROVE  Overwritten(a, r2, c2, o2, n2, k2)
               = [db |-> [rows |-> r2, closure |-> c2, settings |-> s, owned |-> o2, serial |-> n2],
                  known |-> k2, failed |-> f]
  <2> DEFINE a1 == [a EXCEPT !.db.rows = r2]
             a2 == [a1 EXCEPT !.db.serial = n2]
             a3 == [a2 EXCEPT !.db.closure = c2]
             a4 == [a3 EXCEPT !.db.owned = o2]
             a5 == [a4 EXCEPT !.known = k2]
  <2>1. a1 = [db |-> [rows |-> r2, closure |-> c, settings |-> s, owned |-> o, serial |-> n],
              known |-> k, failed |-> f]
    BY ONLY <1>3
  <2> HIDE DEF a1
  <2>2. a2 = [db |-> [rows |-> r2, closure |-> c, settings |-> s, owned |-> o, serial |-> n2],
              known |-> k, failed |-> f]
    BY ONLY <2>1
  <2> HIDE DEF a2
  <2>3. a3 = [db |-> [rows |-> r2, closure |-> c2, settings |-> s, owned |-> o, serial |-> n2],
              known |-> k, failed |-> f]
    BY ONLY <2>2
  <2> HIDE DEF a3
  <2>4. a4 = [db |-> [rows |-> r2, closure |-> c2, settings |-> s, owned |-> o2, serial |-> n2],
              known |-> k, failed |-> f]
    BY ONLY <2>3
  <2> HIDE DEF a4
  <2>5. a5 = [db |-> [rows |-> r2, closure |-> c2, settings |-> s, owned |-> o2, serial |-> n2],
              known |-> k2, failed |-> f]
    BY ONLY <2>4
  <2> QED
    BY ONLY <2>5 DEF a1, a2, a3, a4, Overwritten
<1>4. Created(acc, item, row) = Overwritten(acc, rows2, closure2, owned2, row.id, known2)
  BY <1>2 DEF Created, Overwritten
<1> HIDE DEF rows2, closure2, owned2, known2
<1>5. Created(acc, item, row) =
        [db |-> [rows |-> rows2, closure |-> closure2, settings |-> acc.db.settings,
                 owned |-> owned2, serial |-> row.id],
         known |-> known2, failed |-> acc.failed]
  <2>1. Overwritten(acc, rows2, closure2, owned2, row.id, known2)
          = [db |-> [rows |-> rows2, closure |-> closure2, settings |-> acc.db.settings,
                     owned |-> owned2, serial |-> row.id],
             known |-> known2, failed |-> acc.failed]
    BY ONLY <1>1, <1>2, <1>3
  <2> QED
    BY ONLY <1>4, <2>1
<1> QED
  BY <1>5 DEF rows2, closure2, owned2, known2

\* The new record is one of its tenant, with an id, a uuid and a token of its own.
LEMMA CreateRow ==
  ASSUME NEW job, NEW serial, NEW ups, NEW tree, GoodJob(job, serial, ups, tree),
         NEW acc, GoodAcc(acc, job, serial, ups, tree),
         NEW kind \in Kinds, NEW item \in Items(kind, serial, ups), NEW fresh \in BOOLEAN,
         MayCreate(job, acc.known, kind, item.uuid, fresh),
         NEW row, row = NewRow(acc, job, kind, item, fresh)
  PROVE  /\ row \in SomeRow /\ row.id = acc.db.serial + 1 /\ row.uuid <= acc.db.serial + 1
         /\ row.kind = kind /\ Class(row) = kind /\ row.tenant = job.tenant
         /\ row.uuid = IF fresh THEN row.id ELSE item.uuid
         /\ row.up \in 0 .. acc.db.serial /\ UpOK(acc.db.rows, job.tenant, row.up)
         /\ kind = "group" => row.up # 2
         /\ \A q \in acc.db.rows : Class(q) = kind => q.uuid # row.uuid
         /\ \A q \in acc.db.rows : (/\ kind = "monitor" /\ Class(q) = "monitor"
                                    /\ row.extra # 0) => q.extra # row.extra
<1> DEFINE rows == acc.db.rows
           n == acc.db.serial
           up == Resolve(acc.known, "group", item.up)
           uuid == IF fresh THEN n + 1 ELSE item.uuid
           extra == IF kind = "monitor" THEN Token(rows, item, uuid) ELSE item.extra
<1>1. /\ rows \in SUBSET SomeRow /\ IdsOK(rows, n) /\ n \in Nat /\ serial <= n
      /\ serial \in Nat /\ KnownNames(acc.known, rows, job, serial)
      /\ KnownCovers(acc.known, rows, job) /\ job.tenant \in Tenants
  BY DEF GoodAcc, GoodDb, SomeDb, GoodJob
<1>2. /\ item \in SomeItem /\ item.uuid <= serial /\ item.uuid \in Nat
      /\ kind = "group" => item.up \in {0, 1}
  BY DEF Items, SomeItem
<1>3. up \in 0..n /\ (kind = "group" => up # 2)
  BY <1>2, CreateUp
<1>4. UpOK(rows, job.tenant, up)
  <2> HIDE DEF rows
  <2> QED
    BY <1>1, ResolveUp
<1>5. uuid \in Nat \ {0} /\ uuid <= n + 1
  <2>1. CASE fresh
    BY <1>1, <2>1
  <2>2. CASE ~fresh
    BY <1>1, <1>2, <2>2 DEF MayCreate, Anonymous
  <2> QED
    BY <2>1, <2>2
<1>6. extra \in Nat
  BY <1>2 DEF Token, SomeItem
<1>7. /\ row = [kind |-> kind, id |-> n + 1, uuid |-> uuid, tenant |-> job.tenant, up |-> up,
                name |-> item.name, data |-> item.data, extra |-> extra]
  BY DEF NewRow
<1>8. kind \in Kinds /\ kind # "agent"
  BY DEF Kinds
<1>9. \A q \in rows : Class(q) = kind => q.uuid # uuid
  <2> SUFFICES ASSUME NEW q \in rows, Class(q) = kind, q.uuid = uuid
               PROVE  FALSE
    OBVIOUS
  <2>1. CASE fresh
    <3>1. q.uuid <= n /\ q.uuid \in Nat
      BY <1>1 DEF IdsOK, SomeRow
    <3> QED
      BY <1>1, <2>1, <3>1
  <2>2. CASE ~fresh
    <3>1. uuid \notin job.foreign[kind] /\ Resolve(acc.known, kind, uuid) = 0
      BY <2>2 DEF MayCreate
    <3> HIDE DEF uuid, rows
    <3>2. \A p \in acc.known[kind] : p[1] # uuid
      BY <1>1, <3>1, ResolveStands
    <3> QED
      BY <1>1, <3>1, <3>2 DEF KnownCovers
  <2> QED
    BY <2>1, <2>2
<1>10. \A q \in rows : (/\ kind = "monitor" /\ Class(q) = "monitor"
                        /\ extra # 0) => q.extra # extra
  <2> SUFFICES ASSUME NEW q \in rows, kind = "monitor", Class(q) = "monitor", extra # 0,
                      q.extra = extra
               PROVE  FALSE
    OBVIOUS
  <2>1. extra = Token(rows, item, uuid)
    OBVIOUS
  <2> HIDE DEF uuid, extra, rows
  <2>2. q.uuid = uuid
    BY <1>1, <2>1, TokenFree
  <2> QED
    BY <1>9, <2>2
<1> HIDE DEF n, up, uuid, extra
<1>11. /\ row \in SomeRow /\ row.id = n + 1 /\ row.uuid = uuid /\ row.kind = kind
       /\ row.tenant = job.tenant /\ row.up = up /\ row.extra = extra
  <2>1. n + 1 \in Nat \ {0} /\ up \in Nat
    BY <1>1, <1>3
  <2>2. item.name \in Nat /\ item.data \in Nat
    BY <1>2 DEF SomeItem
  <2> QED
    BY <1>1, <1>5, <1>6, <1>7, <1>8, <2>1, <2>2 DEF SomeRow
<1>12. Class(row) = kind
  BY <1>8, <1>11 DEF Class
<1>13. row.uuid = IF fresh THEN row.id ELSE item.uuid
  BY <1>11 DEF uuid
<1> QED
  BY <1>3, <1>4, <1>5, <1>9, <1>10, <1>11, <1>12, <1>13 DEF n

\* The maps know the new record by its uuid and by that of the item.
LEMMA CreateKnown ==
  ASSUME NEW job, NEW serial \in Nat, NEW rows \in SUBSET SomeRow,
         NEW known \in [Kinds -> SUBSET (Nat \X Nat)],
         KnownNames(known, rows, job, serial), KnownCovers(known, rows, job),
         NEW kind \in Kinds, NEW item \in SomeItem,
         NEW row \in SomeRow, row.id > serial, Class(row) = kind, row.tenant = job.tenant,
         MayStand(job, kind, item.uuid, row.uuid)
  PROVE  /\ NewKnown(known, kind, item, row) \in [Kinds -> SUBSET (Nat \X Nat)]
         /\ KnownNames(NewKnown(known, kind, item, row), rows \union {row}, job, serial)
         /\ KnownCovers(NewKnown(known, kind, item, row), rows \union {row}, job)
<1> DEFINE known2 == NewKnown(known, kind, item, row)
           rows2 == rows \union {row}
<1>1. item.uuid \in Nat /\ row.uuid \in Nat \ {0} /\ row.id \in Nat
  BY DEF SomeItem, SomeRow
<1>2. /\ known2[kind] = NewPairs(known[kind], item, row)
      /\ \A k \in Kinds : k # kind => known2[k] = known[k]
  BY DEF NewKnown
<1>3. NewPairs(known[kind], item, row) \in SUBSET (Nat \X Nat)
  BY <1>1 DEF NewPairs
<1>4. known2 \in [Kinds -> SUBSET (Nat \X Nat)]
  BY <1>3 DEF NewKnown
<1> HIDE DEF known2
<1>5. ASSUME NEW k \in Kinds, NEW p \in known[k]
      PROVE  \E r \in rows2 : r.id = p[2] /\ Stands(r, k, p[1], job, serial)
  BY DEF KnownNames
<1>6. ASSUME NEW u \in {item.uuid, row.uuid}, u # Anonymous
      PROVE  Stands(row, kind, u, job, serial)
  <2>1. CASE u = row.uuid
    BY <1>6, <2>1 DEF Stands
  <2>2. CASE u # row.uuid
    <3>1. u = item.uuid /\ u # row.uuid
      BY <1>6, <2>2
    <3>2. u \in job.foreign[kind] \/ job.strategy = "generateNew"
      BY <1>6, <3>1 DEF MayStand
    <3> QED
      BY <1>6, <3>2 DEF Stands
  <2> QED
    BY <2>1, <2>2
<1>7. KnownNames(known2, rows2, job, serial)
  <2>1. ASSUME NEW k \in Kinds, NEW p \in known2[k]
        PROVE  \E r \in rows2 : r.id = p[2] /\ Stands(r, k, p[1], job, serial)
    <3>1. CASE p \in known[k]
      BY <1>5, <3>1
    <3>2. CASE p \notin known[k]
      <4>1. k = kind /\ p \in NewPairs(known[kind], item, row)
        BY <1>2, <3>2
      <4>2. PICK u \in {item.uuid, row.uuid} \ {Anonymous} : p = <<u, row.id>>
        BY <3>2, <4>1 DEF NewPairs
      <4>3. p[1] = u /\ p[2] = row.id /\ Stands(row, kind, u, job, serial)
        BY <1>6, <4>2
      <4> QED
        BY <4>1, <4>3
    <3> QED
      BY <3>1, <3>2
  <2> QED
    BY <2>1 DEF KnownNames
<1>8. KnownCovers(known2, rows2, job)
  <2>1. ASSUME NEW r \in rows2, r.tenant = job.tenant
        PROVE  \E p \in known2[Class(r)] : p[1] = r.uuid
    <3>1. Class(r) \in Kinds /\ r.uuid # Anonymous
      BY DEF SomeRow, Class, Kinds, Anonymous
    <3>2. CASE r = row \/ (Class(r) = kind /\ r.uuid = item.uuid)
      <4>1. Class(r) = kind /\ r.uuid \in {item.uuid, row.uuid} \ {Anonymous}
        BY <3>1, <3>2
      <4>2. <<r.uuid, row.id>> \in NewPairs(known[kind], item, row)
        BY <4>1 DEF NewPairs
      <4> QED
        BY <1>2, <4>1, <4>2
    <3>3. CASE r # row /\ ~(Class(r) = kind /\ r.uuid = item.uuid)
      <4>1. PICK p \in known[Class(r)] : p[1] = r.uuid
        BY <2>1, <3>3 DEF KnownCovers
      <4>2. p \in known2[Class(r)]
        BY <1>2, <3>1, <3>3, <4>1 DEF NewPairs
      <4> QED
        BY <4>1, <4>2
    <3> QED
      BY <3>2, <3>3
  <2>2. ASSUME NEW r \in rows2, r.tenant # job.tenant
        PROVE  r.uuid \in job.foreign[Class(r)]
    BY <2>2 DEF KnownCovers
  <2> QED
    BY <2>1, <2>2 DEF KnownCovers
<1> QED
  BY <1>4, <1>7, <1>8 DEF known2, rows2

\* With the new record the tables stay consistent.
LEMMA CreatedStays ==
  ASSUME NEW job, NEW serial, NEW ups, NEW tree, GoodJob(job, serial, ups, tree),
         NEW acc, GoodAcc(acc, job, serial, ups, tree),
         NEW kind \in Kinds, NEW item \in Items(kind, serial, ups), NEW fresh \in BOOLEAN,
         MayCreate(job, acc.known, kind, item.uuid, fresh)
  PROVE  GoodAcc(Created(acc, item, NewRow(acc, job, kind, item, fresh)),
                 job, serial, ups, tree)
<1> DEFINE rows == acc.db.rows
           n == acc.db.serial
           row == NewRow(acc, job, kind, item, fresh)
           rows2 == rows \union {row}
           closure2 == NewClosure(acc.db.closure, row)
           scoped == Resolved(acc.known, item.scoped)
           owned2 == Rebuilt(acc.db.owned, row.kind, row.id, scoped)
           known2 == NewKnown(acc.known, kind, item, row)
           acc2 == Created(acc, item, row)
<1>1. /\ acc \in [db : SomeDb, known : [Kinds -> SUBSET (Nat \X Nat)], failed : BOOLEAN]
      /\ serial <= n /\ KnownNames(acc.known, rows, job, serial)
      /\ KnownCovers(acc.known, rows, job) /\ SecondGroup(rows, ups)
      /\ tree => TreeOf(rows, acc.db.closure)
  BY DEF GoodAcc
<1>2. /\ rows \in SUBSET SomeRow /\ n \in Nat /\ IdsOK(rows, n) /\ TokensOK(rows) /\ UpsOK(rows)
      /\ OwnedOK(acc.db.owned, rows, n) /\ BuiltOK(rows, acc.db.closure, n)
      /\ acc.db.owned \in SUBSET SomeOwned /\ acc.db.closure \in SUBSET (Nat \X Nat)
      /\ acc.known \in [Kinds -> SUBSET (Nat \X Nat)] /\ acc.db \in SomeDb
  BY DEF GoodAcc, GoodDb, SomeDb
<1>3. item \in SomeItem /\ serial \in Nat /\ serial >= 8
  BY DEF Items, GoodJob
<1>4. /\ row \in SomeRow /\ row.id = n + 1 /\ row.uuid <= n + 1
      /\ row.kind = kind /\ Class(row) = kind /\ row.tenant = job.tenant
      /\ row.uuid = IF fresh THEN row.id ELSE item.uuid
      /\ row.up \in 0..n /\ UpOK(rows, job.tenant, row.up)
      /\ kind = "group" => row.up # 2
      /\ \A q \in rows : Class(q) = kind => q.uuid # row.uuid
      /\ \A q \in rows : (/\ kind = "monitor" /\ Class(q) = "monitor"
                          /\ row.extra # 0) => q.extra # row.extra
  BY CreateRow
<1> HIDE DEF row, rows, n
<1>5. rows2 \in SUBSET SomeRow /\ IdsOK(rows2, n + 1)
  BY <1>2, <1>4, AddedIds
<1>6. TokensOK(rows2)
  BY <1>2, <1>4, AddedTokens
<1>7. UpsOK(rows2)
  <2>1. ASSUME NEW r \in rows2
        PROVE  UpOK(rows2, r.tenant, r.up)
    <3>1. UpOK(rows, r.tenant, r.up)
      BY <1>2, <1>4 DEF UpsOK
    <3> QED
      BY <3>1, AddedUps
  <2> QED
    BY <2>1 DEF UpsOK
<1>8. \A p \in closure2 :
        \/ p \in acc.db.closure
        \/ row.kind = "group" /\ p[2] = row.id
           /\ (p[1] = row.id \/ \E q \in acc.db.closure : q[1] = p[1])
  <2>1. ASSUME NEW a \in Ancestors(acc.db.closure, row.up)
        PROVE  \E q \in acc.db.closure : q[1] = a
    BY DEF Ancestors
  <2>2. ASSUME NEW p \in closure2, p \notin acc.db.closure
        PROVE  row.kind = "group" /\ p[2] = row.id
               /\ (p[1] = row.id \/ p[1] \in Ancestors(acc.db.closure, row.up))
    <3>1. row.kind = "group"
      BY <2>2 DEF NewClosure
    <3>2. p = <<row.id, row.id>> \/ \E a \in Ancestors(acc.db.closure, row.up) : p = <<a, row.id>>
      BY <2>2, <3>1 DEF NewClosure
    <3> QED
      BY <3>1, <3>2
  <2> HIDE DEF closure2
  <2> QED
    BY <2>1, <2>2
<1>9. closure2 \in SUBSET (Nat \X Nat)
  <2>1. row.id \in Nat
    BY <1>4 DEF SomeRow
  <2>2. ASSUME NEW a \in Ancestors(acc.db.closure, row.up)
        PROVE  a \in Nat
    BY <1>2 DEF Ancestors
  <2> QED
    BY <1>2, <2>1, <2>2 DEF NewClosure
<1> HIDE DEF closure2
<1>10. BuiltOK(rows2, closure2, n + 1)
  BY <1>2, <1>4, <1>8, AddedBuilt
<1>11. owned2 \in SUBSET SomeOwned /\ OwnedOK(owned2, rows2, n + 1)
  <2>1. ScopedOK(scoped, rows, job.tenant, n)
    <3>1. item.scoped \in SUBSET SomeScoped
      BY <1>3 DEF SomeItem
    <3> QED
      BY <1>1, <1>2, <3>1, ResolvedOK
  <2> HIDE DEF scoped
  <2>2. ScopedOK(scoped, rows2, row.tenant, n + 1)
    <3>1. ASSUME NEW x \in scoped
          PROVE  x \in SomeScoped /\ x.ref <= n + 1
                 /\ PointsInto(rows2, row.tenant, x.scope, x.ref)
      <4>1. /\ x \in SomeScoped /\ x.ref \in Nat /\ x.ref <= n
            /\ PointsInto(rows, row.tenant, x.scope, x.ref)
        BY <1>4, <2>1 DEF ScopedOK, SomeScoped
      <4>2. x.ref <= n + 1 /\ x.ref # row.id
        BY <1>2, <1>4, <4>1
      <4> QED
        BY <4>1, <4>2, AddedPoints
    <3> QED
      BY <3>1 DEF ScopedOK
  <2>3. OwnedOK(acc.db.owned, rows2, n + 1)
    BY <1>2, <1>4, AddedOwned
  <2>4. row \in rows2 /\ row.id \in Nat
    BY <1>4 DEF SomeRow
  <2> HIDE DEF rows2
  <2> QED
    BY <1>2, <2>2, <2>3, <2>4, RebuiltOK
<1>12. /\ known2 \in [Kinds -> SUBSET (Nat \X Nat)]
       /\ KnownNames(known2, rows2, job, serial)
       /\ KnownCovers(known2, rows2, job)
  <2>1. row.id > serial
    BY <1>1, <1>2, <1>3, <1>4
  <2>2. /\ rows \in SUBSET SomeRow /\ acc.known \in [Kinds -> SUBSET (Nat \X Nat)]
        /\ KnownNames(acc.known, rows, job, serial) /\ KnownCovers(acc.known, rows, job)
    BY <1>1, <1>2
  <2>3. row \in SomeRow /\ Class(row) = kind /\ row.tenant = job.tenant
        /\ MayStand(job, kind, item.uuid, row.uuid)
    BY <1>4 DEF MayCreate, MayStand
  <2> QED
    BY ONLY <1>3, <2>1, <2>2, <2>3, CreateKnown
<1>13. SecondGroup(rows2, ups)
  <2>1. row.id # 2
    BY <1>1, <1>2, <1>3, <1>4
  <2> QED
    BY <1>1, <2>1 DEF SecondGroup
<1>14. ASSUME tree
       PROVE  TreeOf(rows2, closure2)
  <2>1. TreeOf(rows, acc.db.closure)
    BY <1>1, <1>14
  <2>2. CASE kind = "group"
    <3>1. TreeOf(rows2, NewClosure(acc.db.closure, row))
      BY <1>2, <1>4, <2>1, <2>2, AddedTree
    <3> QED
      BY <3>1 DEF closure2
  <2>3. CASE kind # "group"
    <3>1. closure2 = acc.db.closure
      BY <1>4, <2>3 DEF closure2, NewClosure
    <3>2. \A g \in rows2 : g.kind = "group" =>
            \E h \in rows : h.kind = "group" /\ h.id = g.id /\ h.up = g.up
      BY <1>4, <2>3
    <3> HIDE DEF rows2
    <3> QED
      BY <2>1, <3>1, <3>2, SameTree
  <2> QED
    BY <2>2, <2>3
<1>15. /\ acc2.db \in SomeDb /\ acc2.db.rows = rows2 /\ acc2.db.closure = closure2
       /\ acc2.db.serial = n + 1 /\ acc2.db.owned = owned2
       /\ acc2.known = known2
       /\ acc2 \in [db : SomeDb, known : [Kinds -> SUBSET (Nat \X Nat)], failed : BOOLEAN]
  <2>1. acc2 = [db |-> [rows |-> rows2, closure |-> closure2, settings |-> acc.db.settings,
                        owned |-> owned2, serial |-> row.id],
                known |-> known2, failed |-> acc.failed]
    BY <1>1, <1>4, CreatedFields DEF closure2, rows, NewKnown
  <2>2. acc.db.settings \in SUBSET SomeSetting /\ acc.failed \in BOOLEAN /\ row.id \in Nat
    BY <1>1, <1>2, <1>4 DEF SomeDb
  <2> HIDE DEF acc2, known2, owned2, rows2
  <2> QED
    BY <1>4, <1>5, <1>9, <1>11, <1>12, <2>1, <2>2 DEF SomeDb
<1> HIDE DEF acc2, known2, owned2, rows2
<1>16. GoodDb(acc2.db)
  BY <1>5, <1>6, <1>7, <1>10, <1>11, <1>15 DEF GoodDb
<1>17. serial <= acc2.db.serial
  BY <1>1, <1>2, <1>3, <1>15
<1>18. GoodAcc(acc2, job, serial, ups, tree)
  BY <1>12, <1>13, <1>14, <1>15, <1>16, <1>17 DEF GoodAcc
<1> QED
  BY <1>18 DEF acc2, row

\* Failing changes no table.
LEMMA FailedStays ==
  ASSUME NEW job, NEW serial, NEW ups, NEW tree, NEW acc, GoodAcc(acc, job, serial, ups, tree)
  PROVE  GoodAcc([acc EXCEPT !.failed = TRUE], job, serial, ups, tree)
<1> DEFINE acc2 == [acc EXCEPT !.failed = TRUE]
<1>1. acc \in [db : SomeDb, known : [Kinds -> SUBSET (Nat \X Nat)], failed : BOOLEAN]
  BY DEF GoodAcc
<1>2. /\ acc2 \in [db : SomeDb, known : [Kinds -> SUBSET (Nat \X Nat)], failed : BOOLEAN]
      /\ acc2.db = acc.db /\ acc2.known = acc.known
  BY <1>1
<1> HIDE DEF acc2
<1>3. GoodAcc(acc2, job, serial, ups, tree)
  BY <1>2 DEF GoodAcc
<1> QED
  BY <1>3 DEF acc2

\* An import of an item keeps the tables consistent, whatever the strategy decides.
LEMMA ItemStays ==
  ASSUME NEW job, NEW serial, NEW ups, NEW tree, GoodJob(job, serial, ups, tree),
         NEW acc, GoodAcc(acc, job, serial, ups, tree),
         NEW kind \in Kinds, NEW item \in Items(kind, serial, ups)
  PROVE  GoodAcc(ImportItem(acc, job, kind, item), job, serial, ups, tree)
<1> DEFINE decision == ResolveConflict(job, acc.known, kind, item.uuid)
<1>1. decision \in {"fresh", "create", "update", "skip"}
  BY DEF ResolveConflict, GoodJob, Strategies
<1>2. CASE decision = "skip"
  BY <1>2 DEF ImportItem
<1>3. CASE decision = "update"
  <2>1. ImportItem(acc, job, kind, item) = UpdateItem(acc, job, kind, item)
    BY <1>3 DEF ImportItem
  <2> QED
    BY <1>3, <2>1, UpdateStays
<1>4. CASE decision \in {"create", "fresh"}
  <2> DEFINE fresh == decision = "fresh"
             row == NewRow(acc, job, kind, item, fresh)
  <2>1. ImportItem(acc, job, kind, item) = CreateItem(acc, job, kind, item, fresh)
    BY <1>4 DEF ImportItem
  <2>2. MayCreate(job, acc.known, kind, item.uuid, fresh)
    BY <1>4 DEF ResolveConflict, MayCreate, GoodJob, Strategies
  <2>3. GoodAcc(Created(acc, item, row), job, serial, ups, tree)
    <3> HIDE DEF decision
    <3>1. fresh \in BOOLEAN
      OBVIOUS
    <3> HIDE DEF fresh
    <3> QED
      BY <2>2, <3>1, CreatedStays
  <2>4. row.kind = kind /\ row.id = acc.db.serial + 1 /\ row.up = Resolve(acc.known, "group", item.up)
    BY DEF NewRow
  <2>5. \/ CreateItem(acc, job, kind, item, fresh) = acc
        \/ CreateItem(acc, job, kind, item, fresh) = [acc EXCEPT !.failed = TRUE]
        \/ CreateItem(acc, job, kind, item, fresh) = Created(acc, item, row)
    <3> HIDE DEF decision, fresh
    <3> QED
      BY <2>4 DEF CreateItem, Created, NewRow, NewClosure, NewPairs, Ancestors
  <2> HIDE DEF decision, fresh, row
  <2> QED
    BY <2>1, <2>3, <2>5, FailedStays
<1> QED
  BY <1>1, <1>2, <1>3, <1>4

-----------------------------------------------------------------------------
(***************************************************************************)
(* An import.                                                              *)
(***************************************************************************)
\* A section is imported item by item, the groups in the order of the sort.
LEMMA SectionStays ==
  ASSUME NEW job, NEW serial, NEW ups, NEW tree, GoodJob(job, serial, ups, tree),
         NEW acc, GoodAcc(acc, job, serial, ups, tree), NEW kind \in Kinds,
         kind \in job.sections => file.items[kind] \in Seq(Items(kind, serial, ups))
  PROVE  GoodAcc(ImportSection(acc, job, kind), job, serial, ups, tree)
<1>1. CASE kind \notin job.sections
  BY <1>1 DEF ImportSection
<1>2. CASE kind \in job.sections
  <2> DEFINE SomeAcc == [db : SomeDb, known : [Kinds -> SUBSET (Nat \X Nat)], failed : BOOLEAN]
             V == {a \in SomeAcc : GoodAcc(a, job, serial, ups, tree)}
             X == Items(kind, serial, ups)
             items == IF kind = "group" THEN TopoSort(file.items[kind]) ELSE file.items[kind]
  <2>1. \A a : a \in V <=> GoodAcc(a, job, serial, ups, tree)
    BY DEF GoodAcc
  <2>2. items \in Seq(X)
    BY <1>2, SortStays
  <2> HIDE DEF V, X, items
  <2>3. ImportsStay(V, job, kind, X)
    <3>1. ASSUME NEW a \in V, NEW x \in X
          PROVE  ImportItem(a, job, kind, x) \in V
      BY <2>1, ItemStays DEF X
    <3> QED
      BY <3>1 DEF ImportsStay
  <2>4. ImportItems(acc, job, kind, items) \in V
    BY <2>1, <2>2, <2>3, ItemsStay
  <2>5. ImportSection(acc, job, kind) = ImportItems(acc, job, kind, items)
    BY <1>2 DEF ImportSection, items
  <2> QED
    BY <2>1, <2>4, <2>5
<1> QED
  BY <1>1, <1>2

\* Settings and what records own are replaced.
LEMMA TablesStay ==
  ASSUME NEW job, NEW serial, NEW ups, NEW tree, NEW acc, GoodAcc(acc, job, serial, ups, tree),
         NEW settings \in SUBSET SomeSetting, NEW owned \in SUBSET SomeOwned,
         OwnedOK(owned, acc.db.rows, acc.db.serial),
         NEW acc2, acc2 = [acc EXCEPT !.db.settings = settings]
                   \/ acc2 = [acc EXCEPT !.db.owned = owned]
  PROVE  GoodAcc(acc2, job, serial, ups, tree)
<1>1. /\ acc \in [db : SomeDb, known : [Kinds -> SUBSET (Nat \X Nat)], failed : BOOLEAN]
      /\ acc.db \in SomeDb /\ GoodDb(acc.db)
  BY DEF GoodAcc
<1> DEFINE d2 == acc2.db
<1>2. /\ acc2 \in [db : SomeDb, known : [Kinds -> SUBSET (Nat \X Nat)], failed : BOOLEAN]
      /\ acc2.known = acc.known /\ d2.rows = acc.db.rows /\ d2.closure = acc.db.closure
      /\ d2.serial = acc.db.serial /\ (d2.owned = acc.db.owned \/ d2.owned = owned)
  <2>1. CASE acc2 = [acc EXCEPT !.db.settings = settings]
    <3> DEFINE d == [acc.db EXCEPT !.settings = settings]
    <3>1. /\ d \in SomeDb /\ d.rows = acc.db.rows /\ d.closure = acc.db.closure
          /\ d.serial = acc.db.serial /\ d.owned = acc.db.owned
      BY <1>1 DEF SomeDb
    <3>2. acc2 = [acc EXCEPT !.db = d]
      BY <1>1, <2>1
    <3> HIDE DEF d
    <3> QED
      BY <1>1, <3>1, <3>2
  <2>2. CASE acc2 = [acc EXCEPT !.db.owned = owned]
    <3> DEFINE d == [acc.db EXCEPT !.owned = owned]
    <3>1. /\ d \in SomeDb /\ d.rows = acc.db.rows /\ d.closure = acc.db.closure
          /\ d.serial = acc.db.serial /\ d.owned = owned
      BY <1>1 DEF SomeDb
    <3>2. acc2 = [acc EXCEPT !.db = d]
      BY <1>1, <2>2
    <3> HIDE DEF d
    <3> QED
      BY <1>1, <3>1, <3>2
  <2> QED
    BY <2>1, <2>2
<1> HIDE DEF d2
<1>3. GoodDb(acc2.db)
  BY <1>1, <1>2 DEF GoodDb, d2
<1> QED
  BY <1>2, <1>3 DEF GoodAcc, d2

\* Settings are written for the tenant.
LEMMA SettingsStay ==
  ASSUME NEW job, NEW serial, NEW ups, NEW tree, GoodJob(job, serial, ups, tree),
         NEW acc, GoodAcc(acc, job, serial, ups, tree),
         "setting" \in job.sections => file.settings \in SUBSET SomeScoped
  PROVE  GoodAcc(ImportSettings(acc, job), job, serial, ups, tree)
<1>1. CASE "setting" \notin job.sections
  BY <1>1 DEF ImportSettings
<1>2. CASE "setting" \in job.sections
  <2> DEFINE new == Resolved(acc.known, file.settings)
             kept == {s \in acc.db.settings : ~(s.owner = job.tenant
                        /\ \E x \in new : x.scope = s.scope /\ x.ref = s.ref)}
             settings == kept \union {Owned(job.tenant, x.scope, x.ref, x.value) : x \in new}
  <2>1. /\ acc.db.rows \in SUBSET SomeRow /\ acc.known \in [Kinds -> SUBSET (Nat \X Nat)]
        /\ KnownNames(acc.known, acc.db.rows, job, serial)
        /\ IdsOK(acc.db.rows, acc.db.serial) /\ acc.db.serial \in Nat
        /\ acc.db.settings \in SUBSET SomeSetting
        /\ acc.db.owned \in SUBSET SomeOwned
        /\ OwnedOK(acc.db.owned, acc.db.rows, acc.db.serial)
    BY DEF GoodAcc, GoodDb, SomeDb
  <2>2. ScopedOK(new, acc.db.rows, job.tenant, acc.db.serial)
    BY <1>2, <2>1, ResolvedOK
  <2>3. ImportSettings(acc, job) = [acc EXCEPT !.db.settings = settings]
    BY <1>2 DEF ImportSettings
  <2> HIDE DEF new
  <2>4. settings \in SUBSET SomeSetting
    <3>1. ASSUME NEW x \in new
          PROVE  Owned(job.tenant, x.scope, x.ref, x.value) \in SomeSetting
      BY <2>2 DEF ScopedOK, SomeScoped, Owned, SomeSetting, GoodJob
    <3> QED
      BY <2>1, <3>1
  <2> HIDE DEF settings
  <2> QED
    BY <2>1, <2>3, <2>4, TablesStay
<1> QED
  BY <1>1, <1>2

\* Remediation bindings are written for actions of the tenant.
LEMMA RemediesStay ==
  ASSUME NEW job, NEW serial, NEW ups, NEW tree, GoodJob(job, serial, ups, tree),
         NEW acc, GoodAcc(acc, job, serial, ups, tree),
         "remedy" \in job.sections =>
           file.remedies \in SUBSET [action : Nat, scope : Places, ref : Nat, value : Nat]
  PROVE  GoodAcc(ImportRemedies(acc, job), job, serial, ups, tree)
<1>1. CASE "remedy" \notin job.sections
  BY <1>1 DEF ImportRemedies
<1>2. CASE "remedy" \in job.sections
  <2> DEFINE Of1(r) == {Owned(Resolve(acc.known, "action", r.action), x.scope, x.ref, x.value) :
                          x \in Resolved(acc.known, {Scoped(r.scope, r.ref, r.value)})}
             new == UNION {Of1(r) : r \in {q \in file.remedies :
                                             Resolve(acc.known, "action", q.action) # 0}}
             owned == {o \in acc.db.owned :
                         ~\E x \in new : x.owner = o.owner /\ x.scope = o.scope /\ x.ref = o.ref}
                      \union new
             rows == acc.db.rows
             n == acc.db.serial
  <2>1. /\ rows \in SUBSET SomeRow /\ acc.known \in [Kinds -> SUBSET (Nat \X Nat)]
        /\ KnownNames(acc.known, rows, job, serial)
        /\ IdsOK(rows, n) /\ n \in Nat
        /\ acc.db.settings \in SUBSET SomeSetting
        /\ acc.db.owned \in SUBSET SomeOwned /\ OwnedOK(acc.db.owned, rows, n)
    BY DEF GoodAcc, GoodDb, SomeDb
  <2>2. ImportRemedies(acc, job) = [acc EXCEPT !.db.owned = owned]
    BY <1>2 DEF ImportRemedies
  <2>3. "action" \in Kinds
    BY DEF Kinds
  <2> HIDE DEF rows, n
  <2>4. ASSUME NEW o \in new
        PROVE  /\ o \in SomeOwned /\ o.ref <= n
               /\ \E w \in rows : w.id = o.owner /\ PointsInto(rows, w.tenant, o.scope, o.ref)
    <3>1. PICK r \in file.remedies : Resolve(acc.known, "action", r.action) # 0 /\ o \in Of1(r)
      OBVIOUS
    <3> DEFINE scoped == Resolved(acc.known, {Scoped(r.scope, r.ref, r.value)})
               id == Resolve(acc.known, "action", r.action)
    <3>2. PICK x \in scoped : o = Owned(id, x.scope, x.ref, x.value)
      BY <3>1
    <3>3. r \in [action : Nat, scope : Places, ref : Nat, value : Nat]
      BY <1>2
    <3>4. {Scoped(r.scope, r.ref, r.value)} \in SUBSET SomeScoped
      BY <3>3 DEF Scoped, SomeScoped
    <3>5. ScopedOK(scoped, rows, job.tenant, n)
      BY <2>1, <3>4, ResolvedOK
    <3>6. id \in Nat
      BY <2>1, <2>3, ResolveType
    <3>7. PICK w \in rows : w.id = id /\ Stands(w, "action", r.action, job, serial)
      BY <2>1, <2>3, <3>1, ResolveStands
    <3> HIDE DEF scoped, id
    <3>8. x \in SomeScoped /\ x.ref <= n /\ PointsInto(rows, job.tenant, x.scope, x.ref)
      BY <3>5 DEF ScopedOK
    <3>9. o \in SomeOwned /\ o.owner = id /\ o.scope = x.scope /\ o.ref = x.ref
      BY <3>2, <3>6, <3>8 DEF Owned, SomeOwned, SomeScoped
    <3>10. w.tenant = job.tenant
      BY <3>7 DEF Stands
    <3> QED
      BY <3>7, <3>8, <3>9, <3>10
  <2> HIDE DEF new
  <2>5. owned \in SUBSET SomeOwned /\ OwnedOK(owned, rows, n)
    BY <2>1, <2>4 DEF OwnedOK
  <2> HIDE DEF owned
  <2> QED
    BY <2>1, <2>2, <2>5, TablesStay DEF rows, n
<1> QED
  BY <1>1, <1>2

\* The sections one after the other.
LEMMA ImportedStays ==
  ASSUME NEW job, NEW serial, NEW ups, NEW tree, GoodJob(job, serial, ups, tree),
         GoodAcc(Start(job), job, serial, ups, tree), GivenOK(file, job, serial, ups)
  PROVE  GoodAcc(Imported(job), job, serial, ups, tree)
<1> DEFINE groups   == ImportSection(Start(job), job, "group")
           monitors == ImportSection(groups, job, "monitor")
           channels == ImportSection(monitors, job, "channel")
           teams    == ImportSection(channels, job, "team")
           actions  == ImportSection(teams, job, "action")
           settings == ImportSettings(actions, job)
<1>1. Imported(job) = ImportRemedies(settings, job)
  BY DEF Imported
<1>2. \A k \in {"group", "monitor", "channel", "team", "action"} :
        k \in Kinds /\ (k \in job.sections => file.items[k] \in Seq(Items(k, serial, ups)))
  BY DEF GivenOK, Kinds
<1>3. GoodAcc(groups, job, serial, ups, tree)
  BY <1>2, SectionStays
<1> HIDE DEF groups
<1>4. GoodAcc(monitors, job, serial, ups, tree)
  BY <1>2, <1>3, SectionStays
<1> HIDE DEF monitors
<1>5. GoodAcc(channels, job, serial, ups, tree)
  BY <1>2, <1>4, SectionStays
<1> HIDE DEF channels
<1>6. GoodAcc(teams, job, serial, ups, tree)
  BY <1>2, <1>5, SectionStays
<1> HIDE DEF teams
<1>7. GoodAcc(actions, job, serial, ups, tree)
  BY <1>2, <1>6, SectionStays
<1> HIDE DEF actions
<1>8. GoodAcc(settings, job, serial, ups, tree)
  BY <1>7, SettingsStay DEF GivenOK
<1> HIDE DEF settings
<1>9. GoodAcc(ImportRemedies(settings, job), job, serial, ups, tree)
  BY <1>8, RemediesStay DEF GivenOK
<1> QED
  BY <1>1, <1>9

\* The tables of monitors hold agents' monitors.
LEMMA OfClass ==
  ASSUME NEW rows \in SUBSET SomeRow, NEW r \in rows
  PROVE  Class(r) \in Kinds /\ \A k \in Kinds : r \in Of(rows, k) <=> Class(r) = k
BY DEF Of, Class, SomeRow, Kinds

\* An import starts with the uuids that the tenant has.
LEMMA StartGood ==
  ASSUME NEW tenant \in Tenants, NEW strategy \in Strategies, NEW sections, GoodDb(db),
         NEW ups, NEW tree, SecondGroup(db.rows, ups),
         tree => TreeOf(db.rows, db.closure)
  PROVE  GoodAcc(Start(JobOf(tenant, strategy, sections)), JobOf(tenant, strategy, sections),
                 db.serial, ups, tree)
<1> DEFINE job == JobOf(tenant, strategy, sections)
           rows == db.rows
           known == Known(rows, tenant)
<1>1. rows \in SUBSET SomeRow /\ db \in SomeDb /\ db.serial \in Nat
  BY DEF GoodDb, SomeDb
<1>2. /\ job.tenant = tenant /\ job.strategy = strategy
      /\ \A k \in Kinds : job.foreign[k] = {r.uuid : r \in {q \in Of(rows, k) : q.tenant # tenant}}
  BY DEF JobOf
<1>3. /\ Start(job).db = db /\ Start(job).known = known
      /\ Start(job) = [db |-> db, known |-> known, failed |-> FALSE]
  BY <1>2 DEF Start
<1> HIDE DEF job
<1>4. \A k \in Kinds : known[k] = {<<r.uuid, r.id>> : r \in {q \in Of(rows, k) : q.tenant = tenant}}
  BY DEF Known
<1>5. known \in [Kinds -> SUBSET (Nat \X Nat)]
  <2>1. ASSUME NEW k \in Kinds, NEW r \in Of(rows, k)
        PROVE  <<r.uuid, r.id>> \in Nat \X Nat
    BY <1>1 DEF Of, SomeRow
  <2> QED
    BY <2>1 DEF Known
<1>6. KnownNames(known, rows, job, db.serial)
  <2>1. ASSUME NEW k \in Kinds, NEW p \in known[k]
        PROVE  \E r \in rows : r.id = p[2] /\ Stands(r, k, p[1], job, db.serial)
    <3>1. PICK r \in Of(rows, k) : r.tenant = tenant /\ p = <<r.uuid, r.id>>
      BY <1>4
    <3>2. r \in rows /\ r.uuid # Anonymous
      BY <1>1, <3>1 DEF Of, SomeRow, Anonymous
    <3>3. Class(r) = k
      BY <1>1, <3>1, <3>2, OfClass
    <3> QED
      BY <1>2, <3>1, <3>2, <3>3 DEF Stands
  <2> QED
    BY <2>1 DEF KnownNames
<1>7. KnownCovers(known, rows, job)
  <2>1. ASSUME NEW r \in rows
        PROVE  IF r.tenant = job.tenant THEN \E p \in known[Class(r)] : p[1] = r.uuid
               ELSE r.uuid \in job.foreign[Class(r)]
    <3>1. Class(r) \in Kinds /\ r \in Of(rows, Class(r))
      BY <1>1, OfClass
    <3>2. CASE r.tenant = tenant
      <4>1. <<r.uuid, r.id>> \in known[Class(r)]
        BY <1>4, <3>1, <3>2
      <4> QED
        BY <1>2, <3>2, <4>1
    <3>3. CASE r.tenant # tenant
      BY <1>2, <3>1, <3>3
    <3> QED
      BY <3>2, <3>3
  <2> QED
    BY <2>1 DEF KnownCovers
<1>8. Start(job) \in [db : SomeDb, known : [Kinds -> SUBSET (Nat \X Nat)], failed : BOOLEAN]
  BY <1>1, <1>3, <1>5
<1>9. db.serial <= db.serial
  BY <1>1
<1> HIDE DEF known, rows
<1>10. GoodAcc(Start(job), job, db.serial, ups, tree)
  BY <1>3, <1>6, <1>7, <1>8, <1>9 DEF GoodAcc, rows
<1> QED
  BY <1>10 DEF job

\* The two groups of the tenant.
LEMMA TwoGroups ==
  ASSUME GoodDb(db)
  PROVE  \E g1, g2 \in db.rows :
           /\ g1.kind = "group" /\ g1.id = 1 /\ g1.uuid = 1 /\ g1.tenant = "home" /\ g1.up = 0
           /\ g2.kind = "group" /\ g2.id = 2 /\ g2.uuid = 2 /\ g2.tenant = "home"
           /\ g2.up \in {0, 1}
           /\ \A r \in db.rows : /\ r.id = 1 => r = g1
                                 /\ r.id = 2 => r = g2
                                 /\ Class(r) = "group" /\ r.uuid = 1 => r = g1
                                 /\ Class(r) = "group" /\ r.uuid = 2 => r = g2
           /\ UuidAt(db.rows, "group", 0) = 0
           /\ UuidAt(db.rows, "group", 1) = 1
<1>1. IdsOK(db.rows, db.serial) /\ db.rows \in SUBSET SomeRow
  BY DEF GoodDb, SomeDb
<1>2. PICK g1 \in db.rows : g1.kind = "group" /\ g1.id = 1 /\ g1.uuid = 1 /\ g1.tenant = "home"
                            /\ g1.up = 0
  BY DEF GoodDb, BuiltOK
<1>3. PICK g2 \in db.rows : g2.kind = "group" /\ g2.id = 2 /\ g2.uuid = 2 /\ g2.tenant = "home"
                            /\ g2.up \in {0, 1}
  BY DEF GoodDb, BuiltOK
<1>4. Class(g1) = "group" /\ Class(g2) = "group"
  BY <1>2, <1>3 DEF Class
<1>5. \A r \in db.rows : /\ r.id = 1 => r = g1
                         /\ r.id = 2 => r = g2
                         /\ Class(r) = "group" /\ r.uuid = 1 => r = g1
                         /\ Class(r) = "group" /\ r.uuid = 2 => r = g2
  BY <1>1, <1>2, <1>3, <1>4 DEF IdsOK
<1>6. UuidAt(db.rows, "group", 0) = 0
  <2>1. \A r \in Of(db.rows, "group") : r.id # 0
    BY <1>1 DEF Of, SomeRow
  <2> QED
    BY <2>1 DEF UuidAt
<1>7. UuidAt(db.rows, "group", 1) = 1
  <2>1. g1 \in Of(db.rows, "group") /\ \A r \in Of(db.rows, "group") : r.id = 1 => r = g1
    BY <1>2, <1>5 DEF Of
  <2>2. (CHOOSE r \in Of(db.rows, "group") : r.id = 1) = g1
    BY <1>2, <2>1
  <2> QED
    BY <1>2, <2>1, <2>2 DEF UuidAt
<1> QED
  BY <1>2, <1>3, <1>5, <1>6, <1>7

\* With more ids given out, the items of a file are what they were.
LEMMA ItemsGrow ==
  ASSUME NEW kind, NEW m \in Nat, NEW n \in Nat, m <= n, NEW ups
  PROVE  Items(kind, m, ups) \subseteq Items(kind, n, ups)
BY DEF Items, SomeItem

\* An import keeps the tables consistent; unless an update gave a group another parent, the
\* closure table still follows the parents.
LEMMA ImportKeeps ==
  ASSUME FilesOK, Import
  PROVE  FilesOK'
<1>1. PICK tenant \in Tenants, strategy \in Strategies, sections \in SectionSets :
        LET job == JobOf(tenant, strategy, sections)
            result == Imported(job)
            parents == {<<r.uuid, UuidAt(db.rows, "group", r.up)>> :
                          r \in {q \in db.rows : q.kind = "group" /\ q.tenant = tenant}}
            given == {<<i.uuid, i.up>> : i \in Range(file.items["group"])}
        IN
        /\ file # NoFile /\ file' = file
        /\ db' = IF result.failed THEN db ELSE result.db
        /\ regrouped' = (regrouped \/ (strategy = "update" /\ "group" \in sections
             /\ \E g \in given, p \in parents : g[1] = p[1] /\ g[2] # p[2]))
  BY DEF Import, JobOf
<1> DEFINE job == JobOf(tenant, strategy, sections)
           result == Imported(job)
           parents == {<<r.uuid, UuidAt(db.rows, "group", r.up)>> :
                         r \in {q \in db.rows : q.kind = "group" /\ q.tenant = tenant}}
           given == {<<i.uuid, i.up>> : i \in Range(file.items["group"])}
           moved == strategy = "update" /\ "group" \in sections
                    /\ \E g \in given, p \in parents : g[1] = p[1] /\ g[2] # p[2]
           tree == ~regrouped /\ ~moved
<1>2. /\ file # NoFile /\ file' = file /\ (db' = db \/ db' = result.db)
      /\ ~regrouped' <=> tree
  BY <1>1
<1>3. /\ GoodDb(db) /\ (regrouped \/ TreeOf(db.rows, db.closure))
      /\ file \in Files /\ \A k \in Kinds : file.items[k] \in Seq(Items(k, db.serial, {0, 1}))
  BY <1>2 DEF FilesOK, FileOK
<1>4. db.serial \in Nat /\ db.serial >= 8 /\ db.rows \in SUBSET SomeRow
  BY <1>3 DEF GoodDb, SomeDb, BuiltOK
<1>5. PICK g1, g2 \in db.rows :
        /\ g1.kind = "group" /\ g1.id = 1 /\ g1.uuid = 1 /\ g1.tenant = "home" /\ g1.up = 0
        /\ g2.kind = "group" /\ g2.id = 2 /\ g2.uuid = 2 /\ g2.tenant = "home"
        /\ g2.up \in {0, 1}
        /\ \A r \in db.rows : /\ r.id = 1 => r = g1
                              /\ r.id = 2 => r = g2
                              /\ Class(r) = "group" /\ r.uuid = 1 => r = g1
                              /\ Class(r) = "group" /\ r.uuid = 2 => r = g2
        /\ UuidAt(db.rows, "group", 0) = 0
        /\ UuidAt(db.rows, "group", 1) = 1
  BY <1>3, TwoGroups
<1> DEFINE ups == IF tree /\ strategy = "update" /\ tenant = "home" THEN {g2.up} ELSE {0, 1}
<1>6. /\ job.tenant = tenant /\ job.strategy = strategy /\ job.sections = sections
      /\ \A k \in Kinds :
           job.foreign[k] = {r.uuid : r \in {q \in Of(db.rows, k) : q.tenant # tenant}}
  BY DEF JobOf
<1> HIDE DEF job
<1>7. GoodJob(job, db.serial, ups, tree)
  <2>1. tenant = "home" => 1 \notin job.foreign["group"]
    <3>1. SUFFICES ASSUME tenant = "home", 1 \in job.foreign["group"]
                   PROVE  FALSE
      OBVIOUS
    <3>2. "group" \in Kinds
      BY DEF Kinds
    <3>3. PICK r \in Of(db.rows, "group") : r.tenant # "home" /\ r.uuid = 1
      BY <1>6, <3>1, <3>2
    <3>4. r \in db.rows /\ Class(r) = "group"
      BY <3>3 DEF Of, Class
    <3> QED
      BY <1>5, <3>3, <3>4
  <2>2. ups \in SUBSET {0, 1}
    BY <1>5
  <2>3. tree /\ job.strategy = "update" /\ job.tenant = "home" => \E u \in ups : ups = {u}
    BY <1>6
  <2> HIDE DEF ups, tree
  <2> QED
    BY <1>4, <1>6, <2>1, <2>2, <2>3 DEF GoodJob
<1>8. GoodAcc(Start(job), job, db.serial, ups, tree)
  <2>1. SecondGroup(db.rows, ups)
    BY <1>5 DEF SecondGroup
  <2>2. tree => TreeOf(db.rows, db.closure)
    BY <1>3
  <2> HIDE DEF ups, tree
  <2> QED
    BY <1>3, <2>1, <2>2, StartGood DEF job
<1>9. GivenOK(file, job, db.serial, ups)
  <2>1. ASSUME NEW k \in Kinds, k \in sections
        PROVE  file.items[k] \in Seq(Items(k, db.serial, ups))
    <3> DEFINE items == file.items[k]
    <3>1. items \in Seq(Items(k, db.serial, {0, 1}))
      BY <1>3
    <3>2. ASSUME NEW n \in DOMAIN items
          PROVE  items[n] \in Items(k, db.serial, ups)
      <4>1. items[n] \in Items(k, db.serial, {0, 1})
        BY <3>1
      <4>2. CASE k = "group" /\ tree /\ strategy = "update" /\ tenant = "home"
        <5>1. <<2, UuidAt(db.rows, "group", g2.up)>> \in parents
          BY <1>5, <4>2
        <5>2. UuidAt(db.rows, "group", g2.up) = g2.up
          BY <1>5
        <5>3. <<items[n].uuid, items[n].up>> \in given
          <6>1. items[n] \in Range(file.items["group"])
            BY <4>2 DEF Range
          <6> QED
            BY <6>1
        <5> HIDE DEF parents, given, items
        <5>4. \A g \in given, p \in parents : g[1] = p[1] => g[2] = p[2]
          BY <2>1, <4>2
        <5>5. items[n].uuid = 2 => items[n].up = g2.up
          <6>1. <<items[n].uuid, items[n].up>>[1] = <<2, g2.up>>[1]
                  => <<items[n].uuid, items[n].up>>[2] = <<2, g2.up>>[2]
            BY <5>1, <5>2, <5>3, <5>4
          <6> QED
            BY <6>1
        <5>6. ups = {g2.up}
          BY <4>2
        <5> HIDE DEF ups, tree
        <5> QED
          BY <4>1, <5>5, <5>6 DEF Items
      <4>3. CASE ~(k = "group" /\ tree /\ strategy = "update" /\ tenant = "home")
        <5>1. k # "group" \/ ups = {0, 1}
          BY <4>3
        <5> HIDE DEF ups, tree, items
        <5> QED
          BY <4>1, <5>1 DEF Items
      <4> HIDE DEF tree
      <4> QED
        BY <4>2, <4>3
    <3> HIDE DEF items, ups
    <3>3. items \in Seq(Items(k, db.serial, ups))
      BY <3>1, <3>2
    <3> QED
      BY <3>3 DEF items
  <2> HIDE DEF ups
  <2>2. /\ file.settings \in SUBSET SomeScoped
        /\ file.remedies \in SUBSET [action : Nat, scope : Places, ref : Nat, value : Nat]
    BY <1>3 DEF Files
  <2> QED
    BY <1>6, <2>1, <2>2 DEF GivenOK
<1> HIDE DEF ups, tree, result
<1>10. GoodAcc(result, job, db.serial, ups, tree)
  BY <1>7, <1>8, <1>9, ImportedStays DEF result
<1>11. /\ GoodDb(result.db) /\ db.serial <= result.db.serial
       /\ (tree => TreeOf(result.db.rows, result.db.closure))
  BY <1>10 DEF GoodAcc
<1>12. result.db.serial \in Nat
  BY <1>11 DEF GoodDb, SomeDb
<1>13. GoodDb(db') /\ db'.serial \in Nat /\ db.serial <= db'.serial
  BY <1>2, <1>3, <1>4, <1>11, <1>12
<1>14. regrouped' \/ TreeOf(db'.rows, db'.closure)
  BY <1>2, <1>3, <1>11 DEF tree
<1>15. FileOK(file, db')
  <2>1. ASSUME NEW k \in Kinds
        PROVE  file.items[k] \in Seq(Items(k, db'.serial, {0, 1}))
    <3>1. Items(k, db.serial, {0, 1}) \subseteq Items(k, db'.serial, {0, 1})
      BY <1>4, <1>13, ItemsGrow
    <3>2. file.items[k] \in Seq(Items(k, db.serial, {0, 1}))
      BY <1>3
    <3> QED
      BY <3>1, <3>2
  <2> QED
    BY <1>3, <2>1 DEF FileOK
<1> QED
  BY <1>2, <1>13, <1>14, <1>15 DEF FilesOK

-----------------------------------------------------------------------------
(***************************************************************************)
(* What happens besides imports.                                           *)
(***************************************************************************)
\* The records are finitely many: ids are given out in order.
LEMMA FewRows ==
  ASSUME NEW rows \in SUBSET SomeRow, NEW serial \in Nat, IdsOK(rows, serial)
  PROVE  IsFiniteSet(rows)
<1> DEFINE f == [r \in rows |-> r.id]
<1>1. \A r \in rows : r.id \in 1..serial
  BY DEF IdsOK, SomeRow
<1>2. f \in [rows -> 1..serial]
  BY <1>1
<1>3. \A r, q \in rows : f[r] = f[q] => r = q
  BY DEF IdsOK
<1> HIDE DEF f
<1>4. f \in Injection(rows, 1..serial)
  BY <1>2, <1>3 DEF Injection, IsInjective
<1>5. IsFiniteSet(1..serial)
  BY FS_Interval
<1> QED
  BY <1>4, <1>5, FS_Injection

\* So are the items made of them.
LEMMA FewItems ==
  ASSUME NEW rows, IsFiniteSet(rows), NEW kind
  PROVE  IsFiniteSet({Item(rows, r) : r \in {q \in rows : q.kind = kind}})
<1> DEFINE Q == {q \in rows : q.kind = kind}
           items == {Item(rows, r) : r \in Q}
           f == [r \in Q |-> Item(rows, r)]
<1>1. IsFiniteSet(Q)
  BY FS_Subset
<1>2. f \in [Q -> items] /\ \A i \in items : \E r \in Q : f[r] = i
  OBVIOUS
<1> HIDE DEF f, items
<1>3. f \in Surjection(Q, items)
  BY <1>2 DEF Surjection
<1>4. IsFiniteSet(items)
  BY <1>1, <1>3, FS_Surjection
<1> QED
  BY <1>4 DEF items

\* An order of finitely many things is a sequence of them, and holds them all.
LEMMA OrdersHoldAll ==
  ASSUME NEW S, IsFiniteSet(S), NEW s \in SetToSeqs(S)
  PROVE  s \in Seq(S) /\ Range(s) = S
<1> DEFINE D == 1..Cardinality(S)
<1>1. Cardinality(S) \in Nat
  BY FS_CardinalityType
<1>2. s \in [D -> S] /\ \A i, j \in D : i # j => s[i] # s[j]
  BY DEF SetToSeqs
<1>3. s \in Injection(D, S)
  BY <1>2 DEF Injection, IsInjective
<1>4. IsFiniteSet(D) /\ Cardinality(D) = Cardinality(S)
  <2>1. 1 \in Int /\ Cardinality(S) \in Int
    BY <1>1
  <2>2. IsFiniteSet(D) /\ Cardinality(D) = IF 1 > Cardinality(S) THEN 0 ELSE Cardinality(S) - 1 + 1
    BY <2>1, FS_Interval
  <2> HIDE DEF D
  <2> QED
    BY <1>1, <2>2
<1>7. s \in Seq(S)
  BY <1>1, <1>2
<1> HIDE DEF D
<1>5. s \in Surjection(D, S)
  BY <1>3, <1>4, FS_Injection
<1>6. \A x \in S : \E d \in D : s[d] = x
  BY <1>5 DEF Surjection
<1> QED
  BY <1>2, <1>6, <1>7 DEF Range

\* An export writes the items of each kind in some order.
LEMMA ExportItems ==
  ASSUME GoodDb(db), Export
  PROVE  \E items :
           /\ file' = [items |-> items, settings |-> Exported(HomeRows, db.settings),
                       remedies |-> Remedies(HomeRows)]
           /\ items = [k \in Kinds |-> items[k]]
           /\ \A k \in Kinds : items[k] \in Seq(ItemsOf(k)) /\ Range(items[k]) = ItemsOf(k)
<1>1. PICK items \in [Kinds -> UNION {SetToSeqs(ItemsOf(k)) : k \in Kinds}] :
        /\ \A k \in Kinds : items[k] \in SetToSeqs(ItemsOf(k))
        /\ file' = [items |-> items, settings |-> Exported(HomeRows, db.settings),
                    remedies |-> Remedies(HomeRows)]
  BY DEF Export, HomeRows, ItemsOf
<1>2. IsFiniteSet(HomeRows)
  BY FewRows, FS_Subset DEF HomeRows, GoodDb, SomeDb
<1>3. \A k \in Kinds : IsFiniteSet(ItemsOf(k))
  BY <1>2, FewItems DEF ItemsOf
<1>4. \A k \in Kinds : items[k] \in Seq(ItemsOf(k)) /\ Range(items[k]) = ItemsOf(k)
  BY <1>1, <1>3, OrdersHoldAll
<1>5. items = [k \in Kinds |-> items[k]]
  BY <1>1
<1> QED
  BY <1>1, <1>4, <1>5

\* What a row points at has a uuid, or none.
LEMMA UuidType ==
  ASSUME NEW rows \in SUBSET SomeRow, NEW place, NEW id
  PROVE  UuidAt(rows, place, id) \in Nat
<1>1. CASE \E r \in Of(rows, place) : r.id = id
  <2>1. (CHOOSE r \in Of(rows, place) : r.id = id) \in Of(rows, place)
    BY <1>1
  <2>2. (CHOOSE r \in Of(rows, place) : r.id = id) \in SomeRow
    BY <2>1 DEF Of
  <2> QED
    BY <1>1, <2>2 DEF UuidAt, SomeRow
<1>2. CASE ~\E r \in Of(rows, place) : r.id = id
  BY <1>2 DEF UuidAt
<1> QED
  BY <1>1, <1>2

\* Scoped rows are written with uuids.
LEMMA ExportedType ==
  ASSUME NEW rows \in SUBSET SomeRow, NEW scoped,
         \A s \in scoped : s.scope \in Places /\ s.value \in Nat
  PROVE  Exported(rows, scoped) \in SUBSET SomeScoped
<1> SUFFICES ASSUME NEW x \in Exported(rows, scoped)
             PROVE  x \in SomeScoped
  OBVIOUS
<1>1. PICK s \in scoped : x = Scoped(s.scope, IF s.scope = "global" THEN 0
                                             ELSE UuidAt(rows, s.scope, s.ref), s.value)
  BY DEF Exported
<1> DEFINE ref == IF s.scope = "global" THEN 0 ELSE UuidAt(rows, s.scope, s.ref)
<1>2. ref \in Nat
  BY UuidType
<1> HIDE DEF ref
<1>3. x = Scoped(s.scope, ref, s.value)
  BY <1>1 DEF ref
<1> QED
  BY <1>2, <1>3 DEF Scoped, SomeScoped

\* An item is what its row says, and of the groups there are the two.
LEMMA ItemType ==
  ASSUME GoodDb(db), \A r \in db.rows : r.kind = "group" => r.id \in {1, 2},
         NEW rows \in SUBSET db.rows, \A r \in db.rows : r \in rows <=> r.tenant = "home",
         NEW r \in rows
  PROVE  Item(rows, r) \in Items(r.kind, db.serial, {0, 1})
<1> DEFINE up == UuidAt(rows, "group", r.up)
           scoped == IF r.kind = "action" THEN {}
                     ELSE Exported(rows, {o \in db.owned : o.owner = r.id})
<1>1. /\ db.rows \in SUBSET SomeRow /\ IdsOK(db.rows, db.serial)
      /\ db.owned \in SUBSET SomeOwned
  BY DEF GoodDb, SomeDb
<1>2. up \in Nat
  BY <1>1, UuidType
<1>3. scoped \in SUBSET SomeScoped
  <2>1. \A s \in {o \in db.owned : o.owner = r.id} : s.scope \in Places /\ s.value \in Nat
    BY <1>1 DEF SomeOwned
  <2>2. Exported(rows, {o \in db.owned : o.owner = r.id}) \in SUBSET SomeScoped
    <3> DEFINE mine == {o \in db.owned : o.owner = r.id}
    <3> HIDE DEF mine
    <3>1. \A s \in mine : s.scope \in Places /\ s.value \in Nat
      BY <2>1 DEF mine
    <3>2. Exported(rows, mine) \in SUBSET SomeScoped
      BY <1>1, <3>1, ExportedType
    <3> QED
      BY <3>2 DEF mine
  <2> QED
    BY <2>2
<1>4. r \in SomeRow /\ r.uuid <= db.serial
  BY <1>1 DEF IdsOK
<1>5. ASSUME r.kind = "group"
      PROVE  r.uuid \in {1, 2} /\ up \in {0, 1} /\ (r.uuid = 1 => up = 0)
  <2>1. PICK g1, g2 \in db.rows :
          /\ g1.kind = "group" /\ g1.id = 1 /\ g1.uuid = 1 /\ g1.tenant = "home" /\ g1.up = 0
          /\ g2.kind = "group" /\ g2.id = 2 /\ g2.uuid = 2 /\ g2.tenant = "home"
          /\ g2.up \in {0, 1}
          /\ \A q \in db.rows : (q.id = 1 => q = g1) /\ (q.id = 2 => q = g2)
    BY TwoGroups
  <2>2. r = g1 \/ r = g2
    BY <1>5, <2>1
  <2>3. UuidAt(rows, "group", 0) = 0
    <3>1. \A q \in Of(rows, "group") : q.id # 0
      BY <1>1 DEF Of, SomeRow
    <3> QED
      BY <3>1 DEF UuidAt
  <2>4. UuidAt(rows, "group", 1) = 1
    <3>1. g1 \in Of(rows, "group") /\ \A q \in Of(rows, "group") : q.id = 1 => q = g1
      BY <2>1 DEF Of
    <3>2. (CHOOSE q \in Of(rows, "group") : q.id = 1) = g1
      BY <2>1, <3>1
    <3> QED
      BY <2>1, <3>1, <3>2 DEF UuidAt
  <2>5. r.up \in {0, 1} /\ (r.uuid = 1 => r.up = 0) /\ r.uuid \in {1, 2}
    BY <2>1, <2>2
  <2> QED
    BY <2>3, <2>4, <2>5
<1>6. Item(rows, r) = [uuid |-> r.uuid, up |-> up, name |-> r.name, data |-> r.data,
                       extra |-> r.extra, scoped |-> scoped]
  BY DEF Item
<1> HIDE DEF up, scoped
<1>7. Item(rows, r) \in SomeItem /\ Item(rows, r).uuid = r.uuid /\ Item(rows, r).up = up
  BY <1>2, <1>3, <1>4, <1>6 DEF SomeItem, SomeRow
<1>8. r.kind = "group" => /\ r.uuid \in {0, 1, 2} /\ up \in {0, 1}
                          /\ (r.uuid = 1 => up = 0) /\ (r.uuid = 2 => up \in {0, 1})
  BY <1>5
<1> QED
  BY <1>4, <1>7, <1>8 DEF Items

\* An export writes the tenant's records.
LEMMA ExportKeeps ==
  ASSUME FilesOK, Export
  PROVE  FilesOK'
<1> DEFINE rows == HomeRows
<1>2. file = NoFile /\ UNCHANGED <<db, regrouped>>
  BY DEF Export
<1>3. /\ GoodDb(db) /\ \A r \in db.rows : r.kind = "group" => r.id \in {1, 2}
  BY <1>2, NoFileAssumption DEF FilesOK, FileOK
<1>1. PICK items :
        /\ file' = [items |-> items, settings |-> Exported(rows, db.settings),
                    remedies |-> Remedies(rows)]
        /\ items = [k \in Kinds |-> items[k]]
        /\ \A k \in Kinds : items[k] \in Seq(ItemsOf(k))
  BY <1>3, ExportItems
<1>4. /\ db.rows \in SUBSET SomeRow /\ IdsOK(db.rows, db.serial) /\ db.serial \in Nat
      /\ db.settings \in SUBSET SomeSetting /\ db.owned \in SUBSET SomeOwned
  BY <1>3 DEF GoodDb, SomeDb
<1>5. rows \in SUBSET db.rows /\ rows \in SUBSET SomeRow
      /\ \A r \in db.rows : r \in rows <=> r.tenant = "home"
  BY <1>4 DEF HomeRows
<1> HIDE DEF rows
<1>6. ASSUME NEW k \in Kinds
      PROVE  items[k] \in Seq(Items(k, db.serial, {0, 1}))
  <2>1. ASSUME NEW i \in ItemsOf(k)
        PROVE  i \in Items(k, db.serial, {0, 1})
    <3>1. PICK r \in rows : r.kind = k /\ i = Item(rows, r)
      BY DEF rows, ItemsOf
    <3>2. Item(rows, r) \in Items(r.kind, db.serial, {0, 1})
      BY <1>3, <1>5, ItemType
    <3> QED
      BY <3>1, <3>2
  <2> QED
    BY <1>1, <2>1
<1>7. Exported(rows, db.settings) \in SUBSET SomeScoped
  <2>1. \A s \in db.settings : s.scope \in Places /\ s.value \in Nat
    BY <1>4 DEF SomeSetting
  <2> QED
    BY <1>5, <2>1, ExportedType
<1>8. Remedies(rows) \in SUBSET [action : Nat, scope : Places, ref : Nat, value : Nat]
  <2> SUFFICES ASSUME NEW x \in Remedies(rows)
               PROVE  x \in [action : Nat, scope : Places, ref : Nat, value : Nat]
    OBVIOUS
  <2>1. PICK a \in rows : \E s \in Exported(rows, {o \in db.owned : o.owner = a.id}) :
          x = [action |-> a.uuid, scope |-> s.scope, ref |-> s.ref, value |-> s.value]
    BY DEF Remedies
  <2> DEFINE mine == {o \in db.owned : o.owner = a.id}
  <2>2. PICK s \in Exported(rows, mine) :
          x = [action |-> a.uuid, scope |-> s.scope, ref |-> s.ref, value |-> s.value]
    BY <2>1
  <2>3. \A o \in mine : o.scope \in Places /\ o.value \in Nat
    BY <1>4 DEF SomeOwned
  <2> HIDE DEF mine
  <2>4. Exported(rows, mine) \in SUBSET SomeScoped
    BY <1>5, <2>3, ExportedType
  <2>5. a.uuid \in Nat
    BY <1>5 DEF SomeRow
  <2> QED
    BY <2>2, <2>4, <2>5 DEF SomeScoped
<1>9. file' \in Files /\ file'.items = items
  <2>1. \A k \in Kinds : items[k] \in Seq(SomeItem)
    <3>1. \A k \in Kinds : Items(k, db.serial, {0, 1}) \subseteq SomeItem
      BY DEF Items
    <3> QED
      BY <1>6, <3>1
  <2>2. items \in [Kinds -> Seq(SomeItem)]
    BY <1>1, <2>1
  <2> QED
    BY <1>1, <1>7, <1>8, <2>2 DEF Files
<1>10. FileOK(file', db)
  BY <1>6, <1>9 DEF FileOK
<1>11. GoodDb(db) /\ (regrouped \/ TreeOf(db.rows, db.closure))
  BY DEF FilesOK
<1> QED
  BY <1>2, <1>10, <1>11 DEF FilesOK

\* The file is as good as it was when no id is lost and no group is new.
LEMMA FileStays ==
  ASSUME NEW f, NEW d, NEW d2, FileOK(f, d), d2.serial = d.serial,
         \A g \in d2.rows : g.kind = "group" => \E h \in d.rows : h.kind = "group" /\ h.id = g.id
  PROVE  FileOK(f, d2)
<1>1. CASE f = NoFile /\ \A r \in d.rows : r.kind = "group" => r.id \in {1, 2}
  BY <1>1 DEF FileOK
<1>2. CASE f \in Files /\ \A k \in Kinds : f.items[k] \in Seq(Items(k, d.serial, {0, 1}))
  BY <1>2 DEF FileOK
<1> QED
  BY <1>1, <1>2 DEF FileOK

\* A record's contents are edited; of a group, its agent settings too.
LEMMA ChangeKeeps ==
  ASSUME FilesOK, Change
  PROVE  FilesOK'
<1>1. PICK r \in db.rows :
        /\ db' = [db EXCEPT !.rows = (@ \ {r}) \union
                    {[r EXCEPT !.data = 1, !.extra = IF r.kind = "group" THEN 1 ELSE @]}]
        /\ UNCHANGED <<file, regrouped>>
  BY DEF Change
<1> DEFINE new == [r EXCEPT !.data = 1, !.extra = IF r.kind = "group" THEN 1 ELSE @]
           rows2 == (db.rows \ {r}) \union {new}
<1>2. /\ db \in SomeDb /\ db.rows \in SUBSET SomeRow /\ IdsOK(db.rows, db.serial)
      /\ TokensOK(db.rows) /\ UpsOK(db.rows) /\ OwnedOK(db.owned, db.rows, db.serial)
      /\ BuiltOK(db.rows, db.closure, db.serial)
      /\ (regrouped \/ TreeOf(db.rows, db.closure)) /\ FileOK(file, db)
  BY DEF FilesOK, GoodDb, SomeDb
<1>3. /\ new \in SomeRow /\ Alike(r, new) /\ new.up = r.up
      /\ (r.kind # "group" => new.extra = r.extra)
  BY <1>2 DEF SomeRow, Alike
<1>4. db' = [db EXCEPT !.rows = rows2]
  BY <1>1
<1> HIDE DEF new
<1>5. rows2 \in SUBSET SomeRow
  BY <1>2, <1>3
<1>6. SameRows(db.rows, rows2) /\ IdsOK(rows2, db.serial)
  BY <1>2, <1>3, ReplacedIds
<1>7. TokensOK(rows2)
  <2>1. Class(new) = Class(r)
    BY <1>3, SameClass
  <2>2. Class(new) = "monitor" => new.extra = r.extra
    BY <1>3, <2>1 DEF Class
  <2>3. \A q \in db.rows : (/\ Class(new) = "monitor" /\ Class(q) = "monitor"
                            /\ new.extra # 0 /\ q.extra = new.extra) => q = r
    BY <1>2, <2>1, <2>2 DEF TokensOK
  <2> QED
    BY <1>2, <2>3, ReplacedTokens
<1>8. UpsOK(rows2)
  <2>1. ASSUME NEW q \in rows2
        PROVE  UpOK(db.rows, q.tenant, q.up)
    BY <1>2, <1>3 DEF UpsOK, Alike
  <2> HIDE DEF rows2
  <2> QED
    BY <1>6, <2>1, SameUps DEF UpsOK
<1>9. OwnedOK(db.owned, rows2, db.serial)
  <2> HIDE DEF rows2
  <2> QED
    BY <1>2, <1>6, SameOwned
<1>10. BuiltOK(rows2, db.closure, db.serial)
  <2>1. new.kind = "group" => /\ new.up # 2
                              /\ new.id = 1 => new.up = 0
                              /\ new.id = 2 => new.up \in {0, 1}
    <3>1. \A g \in db.rows : g.kind = "group" =>
            g.up # 2 /\ (g.id = 1 => g.up = 0) /\ (g.id = 2 => g.up \in {0, 1})
      BY <1>2 DEF BuiltOK, IdsOK
    <3> QED
      BY <1>3, <3>1 DEF Alike
  <2> QED
    BY <1>2, <1>3, <2>1, ReplacedBuilt
<1>11. regrouped \/ TreeOf(rows2, db.closure)
  <2>1. \A g \in rows2 : g.kind = "group" =>
          \E h \in db.rows : h.kind = "group" /\ h.id = g.id /\ h.up = g.up
    BY <1>3 DEF Alike
  <2> HIDE DEF rows2
  <2> QED
    BY <1>2, <2>1, SameTree
<1>12. /\ db' \in SomeDb /\ db'.rows = rows2 /\ db'.closure = db.closure
       /\ db'.serial = db.serial /\ db'.owned = db.owned
  <2> HIDE DEF rows2
  <2> QED
    BY <1>2, <1>4, <1>5 DEF SomeDb
<1>13. FileOK(file, db')
  <2>1. \A g \in db'.rows : g.kind = "group" => \E h \in db.rows : h.kind = "group" /\ h.id = g.id
    BY <1>6, <1>12 DEF SameRows, Alike
  <2> QED
    BY <1>2, <1>12, <2>1, FileStays
<1> HIDE DEF rows2
<1>14. GoodDb(db')
  BY <1>6, <1>7, <1>8, <1>9, <1>10, <1>12 DEF GoodDb
<1> QED
  BY <1>1, <1>11, <1>12, <1>13, <1>14 DEF FilesOK

\* The second group moves: the closure table follows, as nothing is below it.
LEMMA MoveKeeps ==
  ASSUME FilesOK, Move
  PROVE  FilesOK'
<1>1. PICK r \in db.rows :
        /\ r.kind = "group" /\ r.id = 2
        /\ db' = [db EXCEPT !.rows = (@ \ {r}) \union {[r EXCEPT !.up = 1 - @]},
                            !.closure = IF r.up = 1 THEN @ \ {<<1, 2>>} ELSE @ \union {<<1, 2>>}]
        /\ UNCHANGED <<file, regrouped>>
  BY DEF Move
<1> DEFINE new == [r EXCEPT !.up = 1 - @]
           rows2 == (db.rows \ {r}) \union {new}
           closure2 == IF r.up = 1 THEN db.closure \ {<<1, 2>>} ELSE db.closure \union {<<1, 2>>}
<1>2. /\ db \in SomeDb /\ db.rows \in SUBSET SomeRow /\ IdsOK(db.rows, db.serial)
      /\ TokensOK(db.rows) /\ UpsOK(db.rows) /\ OwnedOK(db.owned, db.rows, db.serial)
      /\ BuiltOK(db.rows, db.closure, db.serial) /\ db.closure \in SUBSET (Nat \X Nat)
      /\ (regrouped \/ TreeOf(db.rows, db.closure)) /\ FileOK(file, db) /\ GoodDb(db)
      /\ db.serial \in Nat
  BY DEF FilesOK, GoodDb, SomeDb
<1>3. PICK g1, g2 \in db.rows :
        /\ g1.kind = "group" /\ g1.id = 1 /\ g1.uuid = 1 /\ g1.tenant = "home" /\ g1.up = 0
        /\ g2.kind = "group" /\ g2.id = 2 /\ g2.uuid = 2 /\ g2.tenant = "home"
        /\ g2.up \in {0, 1}
        /\ \A q \in db.rows : (q.id = 1 => q = g1) /\ (q.id = 2 => q = g2)
  BY <1>2, TwoGroups
<1>4. r = g2 /\ r.up \in {0, 1} /\ r.tenant = "home"
  BY <1>1, <1>3
<1>5. /\ new \in SomeRow /\ Alike(r, new) /\ new.up = 1 - r.up /\ new.up \in {0, 1}
      /\ new.extra = r.extra
  BY <1>2, <1>4 DEF SomeRow, Alike
<1> HIDE DEF new
<1>6. rows2 \in SUBSET SomeRow
  BY <1>2, <1>5
<1>7. SameRows(db.rows, rows2) /\ IdsOK(rows2, db.serial)
  BY <1>2, <1>5, ReplacedIds
<1>8. TokensOK(rows2)
  <2>1. Class(new) # "monitor"
    BY <1>1, <1>5 DEF Class, Alike
  <2>2. \A q \in db.rows : (/\ Class(new) = "monitor" /\ Class(q) = "monitor"
                            /\ new.extra # 0 /\ q.extra = new.extra) => q = r
    BY <2>1
  <2> QED
    BY <1>2, <2>2, ReplacedTokens
<1>9. UpsOK(rows2)
  <2>1. ASSUME NEW q \in rows2
        PROVE  UpOK(db.rows, q.tenant, q.up)
    <3>1. CASE q = new
      BY <1>3, <1>4, <1>5, <3>1 DEF UpOK, Alike
    <3>2. CASE q # new
      BY <1>2, <3>2 DEF UpsOK
    <3> QED
      BY <3>1, <3>2
  <2> HIDE DEF rows2
  <2> QED
    BY <1>7, <2>1, SameUps DEF UpsOK
<1>10. OwnedOK(db.owned, rows2, db.serial)
  <2> HIDE DEF rows2
  <2> QED
    BY <1>2, <1>7, SameOwned
<1>11. BuiltOK(rows2, closure2, db.serial)
  <2>1. new.kind = "group" => /\ new.up # 2
                              /\ new.id = 1 => new.up = 0
                              /\ new.id = 2 => new.up \in {0, 1}
    BY <1>1, <1>5 DEF Alike
  <2>2. BuiltOK(rows2, db.closure, db.serial)
    BY <1>2, <1>5, <2>1, ReplacedBuilt
  <2>3. \A p \in closure2 : p \in db.closure \/ (p[1] = 1 /\ p[2] = 2)
    OBVIOUS
  <2> HIDE DEF rows2, closure2
  <2> QED
    BY <2>2, <2>3 DEF BuiltOK
<1>12. ASSUME TreeOf(db.rows, db.closure)
       PROVE  TreeOf(rows2, closure2)
  <2> DEFINE A(x) == Ancestors(db.closure, x)
             B(x) == Ancestors(closure2, x)
  <2>1. ASSUME NEW x, x # 2
        PROVE  B(x) = A(x)
    <3>1. \A p \in closure2 \union db.closure : p[2] = x => (p \in closure2 <=> p \in db.closure)
      BY <2>1
    <3>2. {q \in closure2 : q[2] = x} = {q \in db.closure : q[2] = x}
      BY <3>1
    <3> QED
      BY <3>2 DEF Ancestors
  <2>2. A(0) = {}
    <3>1. \A p \in db.closure : p[2] # 0
      BY <1>2, ClosureBound
    <3> QED
      BY <3>1 DEF Ancestors
  <2>3. A(1) = {1}
    BY <1>3, <1>12, <2>2 DEF TreeOf
  <2>4. A(2) = {2} \union A(r.up)
    BY <1>1, <1>12 DEF TreeOf
  <2>5. B(2) = {2} \union A(new.up)
    <3>1. CASE r.up = 1
      <4>1. A(2) = {1, 2} /\ new.up = 0
        BY <1>5, <2>3, <2>4, <3>1
      <4>2. B(2) = A(2) \ {1}
        <5>1. ASSUME NEW a \in B(2)
              PROVE  a \in A(2) \ {1}
          <6>1. PICK p \in closure2 : p[2] = 2 /\ a = p[1]
            BY DEF Ancestors
          <6>2. p \in db.closure /\ p # <<1, 2>>
            BY <3>1, <6>1
          <6>3. p = <<p[1], p[2]>>
            BY <1>2, <6>2
          <6>4. a # 1
            BY <6>1, <6>2, <6>3
          <6> QED
            BY <6>1, <6>2, <6>4 DEF Ancestors
        <5>2. ASSUME NEW a \in A(2), a # 1
              PROVE  a \in B(2)
          <6>1. PICK p \in db.closure : p[2] = 2 /\ a = p[1]
            BY DEF Ancestors
          <6>2. p \in closure2
            BY <3>1, <5>2, <6>1
          <6> QED
            BY <6>1, <6>2 DEF Ancestors
        <5> HIDE DEF A, B
        <5> QED
          BY <5>1, <5>2
      <4> HIDE DEF A, B
      <4> QED
        BY <2>2, <4>1, <4>2
    <3>2. CASE r.up = 0
      <4>1. A(2) = {2} /\ new.up = 1
        BY <1>5, <2>2, <2>4, <3>2
      <4>2. B(2) = A(2) \union {1}
        <5>1. ASSUME NEW a \in B(2)
              PROVE  a \in A(2) \union {1}
          <6>1. PICK p \in closure2 : p[2] = 2 /\ a = p[1]
            BY DEF Ancestors
          <6>2. p \in db.closure \/ p = <<1, 2>>
            BY <3>2
          <6> QED
            BY <6>1, <6>2 DEF Ancestors
        <5>2. ASSUME NEW a \in A(2) \union {1}
              PROVE  a \in B(2)
          <6>1. PICK p \in db.closure \union {<<1, 2>>} : p[2] = 2 /\ a = p[1]
            <7>1. <<1, 2>>[1] = 1 /\ <<1, 2>>[2] = 2
              OBVIOUS
            <7> QED
              BY <7>1 DEF Ancestors
          <6>2. p \in closure2
            BY <3>2, <6>1
          <6> QED
            BY <6>1, <6>2 DEF Ancestors
        <5> HIDE DEF A, B
        <5> QED
          BY <5>1, <5>2
      <4> HIDE DEF A, B
      <4> QED
        BY <2>3, <4>1, <4>2
    <3> QED
      BY <1>4, <3>1, <3>2
  <2>6. ASSUME NEW g \in rows2, g.kind = "group"
        PROVE  g.up < g.id /\ B(g.id) = {g.id} \union B(g.up)
    <3>1. CASE g = new
      <4>1. g.id = 2 /\ g.up = new.up /\ g.up # 2 /\ g.up < 2
        BY <1>1, <1>5, <3>1 DEF Alike
      <4> HIDE DEF A, B
      <4> QED
        BY <2>1, <2>5, <4>1
    <3>2. CASE g # new
      <4>1. g \in db.rows /\ g # r
        BY <3>2
      <4>2. g.up < g.id /\ A(g.id) = {g.id} \union A(g.up)
        BY <1>12, <2>6, <4>1 DEF TreeOf
      <4>3. g.id # 2 /\ g.up # 2
        BY <1>2, <1>3, <1>4, <2>6, <4>1 DEF BuiltOK
      <4> HIDE DEF A, B
      <4> QED
        BY <2>1, <4>2, <4>3
    <3> QED
      BY <3>1, <3>2
  <2> HIDE DEF rows2, closure2
  <2> QED
    BY <2>6 DEF TreeOf
<1>13. closure2 \in SUBSET (Nat \X Nat)
  BY <1>2
<1>14. /\ db' \in SomeDb /\ db'.rows = rows2 /\ db'.closure = closure2
       /\ db'.serial = db.serial /\ db'.owned = db.owned
  <2>1. db' = [db EXCEPT !.rows = rows2, !.closure = closure2]
    BY <1>1, <1>2 DEF new, SomeDb
  <2> HIDE DEF rows2, closure2
  <2> QED
    BY <1>2, <1>6, <1>13, <2>1 DEF SomeDb
<1>15. FileOK(file, db')
  <2>1. \A g \in db'.rows : g.kind = "group" => \E h \in db.rows : h.kind = "group" /\ h.id = g.id
    BY <1>7, <1>14 DEF SameRows, Alike
  <2> QED
    BY <1>2, <1>14, <2>1, FileStays
<1> HIDE DEF rows2, closure2
<1>16. GoodDb(db')
  BY <1>7, <1>8, <1>9, <1>10, <1>11, <1>14 DEF GoodDb
<1> QED
  BY <1>1, <1>2, <1>12, <1>14, <1>15, <1>16 DEF FilesOK

\* A record goes with what it owns; no group does.
LEMMA DeleteKeeps ==
  ASSUME FilesOK, Delete
  PROVE  FilesOK'
<1>1. PICK r \in db.rows :
        /\ r.kind \in {"monitor", "channel", "action"}
        /\ db' = [db EXCEPT !.rows = @ \ {r}, !.owned = {o \in @ : o.owner # r.id}]
        /\ UNCHANGED <<file, regrouped>>
  BY DEF Delete
<1> DEFINE rows2 == db.rows \ {r}
           owned2 == {o \in db.owned : o.owner # r.id}
<1>2. /\ db \in SomeDb /\ db.rows \in SUBSET SomeRow /\ IdsOK(db.rows, db.serial)
      /\ TokensOK(db.rows) /\ UpsOK(db.rows) /\ OwnedOK(db.owned, db.rows, db.serial)
      /\ BuiltOK(db.rows, db.closure, db.serial) /\ db.owned \in SUBSET SomeOwned
      /\ (regrouped \/ TreeOf(db.rows, db.closure)) /\ FileOK(file, db)
  BY DEF FilesOK, GoodDb, SomeDb
<1>3. r.kind # "group"
  BY <1>1
<1>4. IdsOK(rows2, db.serial) /\ TokensOK(rows2)
  BY <1>2 DEF IdsOK, TokensOK
<1>5. UpsOK(rows2)
  BY <1>2, <1>3 DEF UpsOK, UpOK
<1>6. OwnedOK(owned2, rows2, db.serial)
  <2>1. ASSUME NEW o \in owned2
        PROVE  \E w \in rows2 : w.id = o.owner /\ PointsInto(rows2, w.tenant, o.scope, o.ref)
    <3>1. PICK w \in db.rows : w.id = o.owner /\ PointsInto(db.rows, w.tenant, o.scope, o.ref)
      BY <1>2 DEF OwnedOK
    <3>2. w \in rows2
      BY <3>1
    <3> QED
      BY <3>1, <3>2 DEF PointsInto
  <2> QED
    BY <1>2, <2>1 DEF OwnedOK
<1>7. BuiltOK(rows2, db.closure, db.serial)
  <2>1. \A g \in db.rows : g.kind = "group" => g \in rows2
    BY <1>3
  <2> HIDE DEF rows2
  <2>2. rows2 \subseteq db.rows
    BY DEF rows2
  <2> QED
    BY <1>2, <2>1, <2>2 DEF BuiltOK
<1>8. regrouped \/ TreeOf(rows2, db.closure)
  BY <1>2 DEF TreeOf
<1>9. /\ db' \in SomeDb /\ db'.rows = rows2 /\ db'.closure = db.closure
      /\ db'.serial = db.serial /\ db'.owned = owned2
  <2>1. db' = [db EXCEPT !.rows = rows2, !.owned = owned2]
    BY <1>1, <1>2 DEF SomeDb
  <2>2. rows2 \in SUBSET SomeRow /\ owned2 \in SUBSET SomeOwned
    BY <1>2
  <2> HIDE DEF rows2, owned2
  <2> QED
    BY <1>2, <2>1, <2>2 DEF SomeDb
<1>10. FileOK(file, db')
  <2>1. \A g \in db'.rows : g.kind = "group" => \E h \in db.rows : h.kind = "group" /\ h.id = g.id
    BY <1>9
  <2> QED
    BY <1>2, <1>9, <2>1, FileStays
<1> HIDE DEF rows2, owned2
<1>11. GoodDb(db')
  BY <1>4, <1>5, <1>6, <1>7, <1>9 DEF GoodDb
<1> QED
  BY <1>1, <1>8, <1>9, <1>10, <1>11 DEF FilesOK

\* Groups lose their uuids in the file.
LEMMA OmitKeeps ==
  ASSUME FilesOK, OmitUuids
  PROVE  FilesOK' /\ file' \in Files
<1> DEFINE old == file.items["group"]
           new == [i \in DOMAIN old |-> [old[i] EXCEPT !.uuid = Anonymous]]
<1>1. /\ file # NoFile /\ file' = [file EXCEPT !.items["group"] = new]
      /\ UNCHANGED <<db, regrouped>>
  BY DEF OmitUuids
<1>2. /\ file \in Files /\ \A k \in Kinds : file.items[k] \in Seq(Items(k, db.serial, {0, 1}))
      /\ GoodDb(db) /\ (regrouped \/ TreeOf(db.rows, db.closure))
  BY <1>1 DEF FilesOK, FileOK
<1>3. "group" \in Kinds /\ db.serial \in Nat
  BY <1>2 DEF Kinds, GoodDb, SomeDb
<1>4. new \in Seq(Items("group", db.serial, {0, 1}))
  <2>1. ASSUME NEW i \in DOMAIN old
        PROVE  [old[i] EXCEPT !.uuid = Anonymous] \in Items("group", db.serial, {0, 1})
    <3>1. old[i] \in Items("group", db.serial, {0, 1})
      BY <1>2, <1>3
    <3> DEFINE item == old[i]
    <3> HIDE DEF item
    <3>2. item \in SomeItem /\ item.up \in {0, 1}
      BY <3>1 DEF Items, item
    <3> DEFINE nameless == [item EXCEPT !.uuid = 0]
    <3>3. nameless \in SomeItem /\ nameless.uuid = 0 /\ nameless.up = item.up
      BY <3>2 DEF SomeItem
    <3> HIDE DEF nameless
    <3>4. nameless.uuid <= db.serial /\ nameless.uuid \in {0, 1, 2} /\ nameless.up \in {0, 1}
          /\ (nameless.uuid = 1 => nameless.up = 0)
      BY <1>3, <3>2, <3>3
    <3>5. nameless \in Items("group", db.serial, {0, 1})
      BY <3>3, <3>4 DEF Items
    <3> QED
      BY <3>5 DEF item, nameless, Anonymous
  <2>2. old \in Seq(Items("group", db.serial, {0, 1}))
    BY <1>2, <1>3
  <2> HIDE DEF old
  <2> QED
    BY <2>1, <2>2
<1>5. /\ file' \in Files /\ file'.items["group"] = new
      /\ \A k \in Kinds : k # "group" => file'.items[k] = file.items[k]
  <2>1. new \in Seq(SomeItem)
    <3> HIDE DEF new
    <3>1. Items("group", db.serial, {0, 1}) \subseteq SomeItem
      BY ONLY DEF Items
    <3> QED
      BY <1>4, <3>1
  <2> HIDE DEF new
  <2> DEFINE items2 == [file.items EXCEPT !["group"] = new]
  <2>2. file' = [file EXCEPT !.items = items2]
    BY <1>1, <1>2
  <2>3. /\ items2 \in [Kinds -> Seq(SomeItem)] /\ items2["group"] = new
        /\ \A k \in Kinds : k # "group" => items2[k] = file.items[k]
    BY <1>2, <1>3, <2>1 DEF Files
  <2> HIDE DEF items2
  <2> QED
    BY <1>2, <2>2, <2>3 DEF Files
<1> HIDE DEF new
<1>6. FileOK(file', db)
  BY <1>2, <1>4, <1>5 DEF FileOK
<1> QED
  BY <1>1, <1>2, <1>5, <1>6 DEF FilesOK

-----------------------------------------------------------------------------
(***************************************************************************)
(* The closure table is the tree: the ancestors that it gives a group are  *)
(* those that the parents give.                                            *)
(***************************************************************************)

\* A group that is an ancestor by the table is in every such set: otherwise take the least
\* member that has an ancestor outside; it is none itself, so that its parent has one too.
LEMMA ClosedHoldsAncestors ==
  ASSUME NEW rows \in SUBSET SomeRow, NEW closure, TreeOf(rows, closure), NEW id, NEW S,
         Ancestors(closure, 0) = {}, Closed(rows, id, S)
  PROVE  Ancestors(closure, id) \subseteq S
<1> SUFFICES ASSUME ~(Ancestors(closure, id) \subseteq S)
             PROVE  FALSE
  OBVIOUS
<1> DEFINE Bad == {x \in S : ~(Ancestors(closure, x) \subseteq S)}
<1>1. Bad \in SUBSET Nat
  BY DEF Closed, Groups, SomeRow
<1>2. id \in Bad
  BY DEF Closed
<1> HIDE DEF Bad
<1>3. PICK x \in Bad : \A y \in Bad : x <= y
  BY <1>1, <1>2, Least
<1>4. x \in S /\ ~(Ancestors(closure, x) \subseteq S)
  BY <1>3 DEF Bad
<1>5. PICK g \in rows : g.kind = "group" /\ g.id = x
  BY <1>4 DEF Closed, Groups
<1>6. g.up < x /\ Ancestors(closure, x) = {x} \union Ancestors(closure, g.up)
  BY <1>5 DEF TreeOf
<1>7. ~(Ancestors(closure, g.up) \subseteq S)
  BY <1>4, <1>6
<1>8. g.up # 0
  BY <1>7
<1>9. g.up \in S
  BY <1>4, <1>5, <1>8 DEF Closed, Groups
<1>10. g.up \in Bad
  BY <1>7, <1>9 DEF Bad
<1>11. x <= g.up /\ x \in Nat /\ g.up \in Nat
  BY <1>1, <1>3, <1>10
<1> QED
  BY <1>6, <1>11

\* The ancestors of an ancestor by the table are ancestors.
LEMMA AncestorsInherit ==
  ASSUME NEW rows \in SUBSET SomeRow, NEW closure, TreeOf(rows, closure),
         UpsOK(rows), Ancestors(closure, 0) = {},
         NEW g \in rows, g.kind = "group", NEW a \in Ancestors(closure, g.id)
  PROVE  Ancestors(closure, a) \subseteq Ancestors(closure, g.id)
<1> DEFINE A(x) == Ancestors(closure, x)
           Wrong(x) == \E b \in A(x) : ~(A(b) \subseteq A(x))
           Bad == {x \in Nat : (\E h \in rows : h.kind = "group" /\ h.id = x) /\ Wrong(x)}
<1> HIDE DEF A
<1> SUFFICES ASSUME ~(A(a) \subseteq A(g.id))
             PROVE  FALSE
  BY DEF A
<1>1. g.id \in Bad
  <2>1. a \in A(g.id)
    BY DEF A
  <2>2. g.id \in Nat
    BY DEF SomeRow
  <2> QED
    BY <2>1, <2>2
<1>2. Bad \in SUBSET Nat
  OBVIOUS
<1> HIDE DEF Bad
<1>3. PICK x \in Bad : \A y \in Bad : x <= y
  BY <1>1, <1>2, Least
<1>4. PICK h \in rows : h.kind = "group" /\ h.id = x
  BY <1>3 DEF Bad
<1>5. PICK b \in A(x) : ~(A(b) \subseteq A(x))
  BY <1>3 DEF Bad
<1>6. h.up < x /\ A(x) = {x} \union A(h.up)
  BY <1>4 DEF TreeOf, A
<1>7. b \in A(h.up) /\ ~(A(b) \subseteq A(h.up))
  BY <1>5, <1>6
<1>8. h.up # 0
  BY <1>7 DEF A
<1>9. h.up \in Nat /\ x \in Nat
  BY <1>2, <1>3 DEF SomeRow
<1>10. \E q \in rows : q.kind = "group" /\ q.id = h.up
  BY <1>8 DEF UpsOK, UpOK
<1>11. h.up \in Bad
  BY <1>7, <1>9, <1>10 DEF Bad
<1>12. x <= h.up
  BY <1>3, <1>11
<1> QED
  BY <1>6, <1>9, <1>12

\* The ancestors of a group are such a set.
LEMMA AncestorsClosed ==
  ASSUME NEW rows \in SUBSET SomeRow, NEW closure, NEW serial, TreeOf(rows, closure),
         UpsOK(rows), BuiltOK(rows, closure, serial), Ancestors(closure, 0) = {},
         NEW g \in rows, g.kind = "group"
  PROVE  Closed(rows, g.id, Ancestors(closure, g.id))
<1> DEFINE S == Ancestors(closure, g.id)
<1>1. ASSUME NEW a \in S
      PROVE  a \in {h.id : h \in Groups(rows)}
  <2>1. PICK p \in closure : p[1] = a
    BY DEF Ancestors
  <2>2. \E h \in rows : h.kind = "group" /\ h.id = p[1]
    BY DEF BuiltOK
  <2> QED
    BY <2>1, <2>2 DEF Groups
<1>2. g.id \in S
  BY DEF TreeOf
<1>3. ASSUME NEW h \in Groups(rows), h.id \in S, h.up # 0
      PROVE  h.up \in S
  <2>1. h \in rows /\ h.kind = "group"
    BY DEF Groups
  <2>2. PICK u \in rows : u.kind = "group" /\ u.id = h.up
    BY <1>3, <2>1 DEF UpsOK, UpOK
  <2>3. h.up \in Ancestors(closure, h.up)
    BY <2>2 DEF TreeOf
  <2>4. h.up \in Ancestors(closure, h.id)
    BY <2>1, <2>3 DEF TreeOf
  <2>5. Ancestors(closure, h.id) \subseteq Ancestors(closure, g.id)
    BY <1>3, AncestorsInherit
  <2> QED
    BY <2>4, <2>5
<1> HIDE DEF S
<1> QED
  BY <1>1, <1>2, <1>3 DEF Closed, S

\* So the table and the parents give every group the same ancestors.
LEMMA TableIsTree ==
  ASSUME NEW rows \in SUBSET SomeRow, NEW closure, NEW serial, TreeOf(rows, closure),
         UpsOK(rows), BuiltOK(rows, closure, serial), Ancestors(closure, 0) = {},
         NEW g \in Groups(rows)
  PROVE  Ancestors(closure, g.id) = Above(rows, g.id)
<1>1. g \in rows /\ g.kind = "group"
  BY DEF Groups
<1>2. Closed(rows, g.id, Ancestors(closure, g.id))
  BY <1>1, AncestorsClosed
<1>3. \A S : Closed(rows, g.id, S) => Ancestors(closure, g.id) \subseteq S
  BY ClosedHoldsAncestors
<1>4. \A h : h \in Above(rows, g.id) <=>
        /\ h \in {q.id : q \in Groups(rows)}
        /\ \A S : Closed(rows, g.id, S) => h \in S
  BY DEF Above, Closed
<1>5. Ancestors(closure, g.id) \subseteq {q.id : q \in Groups(rows)}
  BY <1>2 DEF Closed
<1>6. \A h : h \in Above(rows, g.id) <=> h \in Ancestors(closure, g.id)
  BY <1>2, <1>3, <1>4, <1>5
<1> QED
  BY <1>6

-----------------------------------------------------------------------------
(***************************************************************************)
(* Consistency, from the inductive invariant.                              *)
(***************************************************************************)
\* A row is the one that is found by its id.
LEMMA WithId ==
  ASSUME NEW rows, NEW serial, IdsOK(rows, serial), NEW r \in rows
  PROVE  With(rows, r.id) = r
<1>1. \A q \in rows : q.id = r.id => q = r
  BY DEF IdsOK
<1> QED
  BY <1>1 DEF With

\* The inductive invariant says that the tables are consistent.
LEMMA FilesConsistent ==
  ASSUME FilesOK
  PROVE  Consistent
<1> DEFINE rows == db.rows
<1>1. /\ rows \in SUBSET SomeRow /\ db.serial \in Nat /\ IdsOK(rows, db.serial)
      /\ TokensOK(rows) /\ UpsOK(rows) /\ OwnedOK(db.owned, rows, db.serial)
      /\ BuiltOK(rows, db.closure, db.serial)
      /\ (regrouped \/ TreeOf(rows, db.closure))
  BY DEF FilesOK, GoodDb, SomeDb
<1>2. ASSUME TreeOf(rows, db.closure), NEW g \in Groups(rows)
      PROVE  {p[1] : p \in {q \in db.closure : q[2] = g.id}} = Above(rows, g.id)
  <2> HIDE DEF rows
  <2>1. Ancestors(db.closure, 0) = {}
    <3>1. \A p \in db.closure : p[2] # 0
      BY <1>1, ClosureBound
    <3> QED
      BY <3>1 DEF Ancestors
  <2>2. Ancestors(db.closure, g.id) = Above(rows, g.id)
    BY <1>1, <1>2, <2>1, TableIsTree
  <2> QED
    BY <2>2 DEF Ancestors
<1>3. ASSUME NEW r \in Of(rows, "monitor"), NEW q \in Of(rows, "monitor"), r.extra # 0,
             r.extra = q.extra
      PROVE  r = q
  <2>1. r \in rows /\ q \in rows /\ Class(r) = "monitor" /\ Class(q) = "monitor"
    BY DEF Of, Class
  <2> QED
    BY <1>1, <1>3, <2>1 DEF TokensOK
<1>4. ASSUME NEW r \in rows, r.up # 0
      PROVE  With(rows, r.up).tenant = r.tenant
  <2>1. PICK g \in rows : g.id = r.up /\ g.tenant = r.tenant
    BY <1>1, <1>4 DEF UpsOK, UpOK
  <2> HIDE DEF rows
  <2>2. With(rows, g.id) = g
    BY <1>1, WithId
  <2> QED
    BY <2>1, <2>2
<1>5. ASSUME NEW o \in db.owned, NEW r \in rows, o.scope = r.kind, o.ref = r.id
      PROVE  With(rows, o.owner).tenant = r.tenant
  <2>1. PICK w \in rows : w.id = o.owner /\ PointsInto(rows, w.tenant, o.scope, o.ref)
    BY <1>1 DEF OwnedOK
  <2>2. r.tenant = w.tenant
    BY <1>5, <2>1 DEF PointsInto
  <2> HIDE DEF rows
  <2>3. With(rows, w.id) = w
    BY <1>1, WithId
  <2> QED
    BY <2>1, <2>2, <2>3
<1> QED
  BY <1>1, <1>2, <1>3, <1>4, <1>5 DEF Consistent

-----------------------------------------------------------------------------
(***************************************************************************)
(* The initial tables, and every step.                                     *)
(***************************************************************************)

\* Their ids, uuids, parents and tokens are in order, with any team that is number 6 of the
\* tenant or number 8 of the other one.
LEMMA FirstRowsOK ==
  ASSUME NEW up \in {0, 1}, NEW in \in {1, 2}, NEW team \in SomeRow, team.kind = "team",
         team.id \in {6, 8}, team.uuid = team.id, team.up = 0, team.extra = 0,
         NEW rows \in {FirstRows(up, in), FirstRows(up, in) \union {team}}
  PROVE  /\ rows \in SUBSET SomeRow /\ IdsOK(rows, 8) /\ TokensOK(rows) /\ UpsOK(rows)
         /\ \A r \in rows : r.kind = "group" =>
              r.id \in {1, 2} /\ r.up = (IF r.id = 1 THEN 0 ELSE up)
         /\ \E g \in rows : g.kind = "group" /\ g.id = 1 /\ g.uuid = 1 /\ g.tenant = "home"
                            /\ g.up = 0
         /\ \E g \in rows : g.kind = "group" /\ g.id = 2 /\ g.uuid = 2 /\ g.tenant = "home"
                            /\ g.up = up
<1> DEFINE r1 == Row("group", 1, "home", 0, 0)
           r2 == Row("group", 2, "home", up, 0)
           r3 == Row("monitor", 3, "home", in, 3)
           r4 == Row("agent", 4, "home", 1, 0)
           r5 == Row("channel", 5, "home", 0, 0)
           r7 == Row("action", 7, "home", 0, 0)
<1>2. r1 \in SomeRow /\ r1.kind = "group" /\ r1.id = 1 /\ r1.uuid = 1 /\ r1.up = 0
      /\ r1.extra = 0 /\ r1.tenant = "home"
  BY DEF Row, SomeRow, Kinds, Tenants
<1>3. r2 \in SomeRow /\ r2.kind = "group" /\ r2.id = 2 /\ r2.uuid = 2 /\ r2.up = up
      /\ r2.extra = 0 /\ r2.tenant = "home"
  BY DEF Row, SomeRow, Kinds, Tenants
<1>4. r3 \in SomeRow /\ r3.kind = "monitor" /\ r3.id = 3 /\ r3.uuid = 3 /\ r3.up = in
      /\ r3.extra = 3 /\ r3.tenant = "home"
  BY DEF Row, SomeRow, Kinds, Tenants
<1>5. r4 \in SomeRow /\ r4.kind = "agent" /\ r4.id = 4 /\ r4.uuid = 4 /\ r4.up = 1
      /\ r4.extra = 0 /\ r4.tenant = "home"
  BY DEF Row, SomeRow, Kinds, Tenants
<1>6. r5 \in SomeRow /\ r5.kind = "channel" /\ r5.id = 5 /\ r5.uuid = 5 /\ r5.up = 0
      /\ r5.extra = 0
  BY DEF Row, SomeRow, Kinds, Tenants
<1>7. r7 \in SomeRow /\ r7.kind = "action" /\ r7.id = 7 /\ r7.uuid = 7 /\ r7.up = 0
      /\ r7.extra = 0
  BY DEF Row, SomeRow, Kinds, Tenants
<1>8. /\ \A r \in rows : r \in {r1, r2, r3, r4, r5, r7, team}
      /\ r1 \in rows /\ r2 \in rows
  BY DEF FirstRows
<1> HIDE DEF r1, r2, r3, r4, r5, r7
<1>9. rows \in SUBSET SomeRow
  BY <1>2, <1>3, <1>4, <1>5, <1>6, <1>7, <1>8
<1>10. \A r \in rows : r.id \in 1..8 /\ r.uuid = r.id
  BY <1>2, <1>3, <1>4, <1>5, <1>6, <1>7, <1>8
<1>11. \A r, q \in rows : r.id = q.id => r = q
  BY <1>2, <1>3, <1>4, <1>5, <1>6, <1>7, <1>8
<1>12. IdsOK(rows, 8)
  BY <1>10, <1>11 DEF IdsOK
<1>13. \A r \in rows : r.extra # 0 => r = r3
  BY <1>2, <1>3, <1>4, <1>5, <1>6, <1>7, <1>8
<1>14. TokensOK(rows)
  BY <1>13 DEF TokensOK
<1>15. \A r \in rows : r.up # 0 => r.up \in {1, 2} /\ r.tenant = "home"
  BY <1>2, <1>3, <1>4, <1>5, <1>6, <1>7, <1>8
<1>16. UpsOK(rows)
  BY <1>2, <1>3, <1>8, <1>15 DEF UpsOK, UpOK
<1>17. \A r \in rows : r.kind = "group" =>
         r.id \in {1, 2} /\ r.up = (IF r.id = 1 THEN 0 ELSE up)
  BY <1>2, <1>3, <1>4, <1>5, <1>6, <1>7, <1>8
<1> QED
  BY <1>2, <1>3, <1>8, <1>9, <1>12, <1>14, <1>16, <1>17

\* The tables start consistent.
LEMMA FilesInit ==
  ASSUME Init
  PROVE  FilesOK
<1>1. PICK up \in {0, 1}, in \in {1, 2},
           at \in {<<"global", 0>>, <<"group", 2>>, <<"monitor", 3>>, <<"monitor", 4>>} :
        \E rest \in IF up = 1 /\ in = 2 THEN {{}, {[Row("team", 8, "other", 0, 0) EXCEPT !.name = 6]}}
                   ELSE {{}} :
          db = [rows |-> FirstRows(up, in)
                           \union (IF rest = {} THEN {Row("team", 6, "home", 0, 0)} ELSE rest),
                closure  |-> {<<1, 1>>, <<2, 2>>} \union (IF up = 1 THEN {<<1, 2>>} ELSE {}),
                settings |-> {Owned("home", at[1], at[2], 0)},
                owned    |-> {Owned(o, at[1], at[2], 0) :
                               o \in {5, 7} \union (IF rest = {} /\ at[1] # "global"
                                                      THEN {6} ELSE {})},
                serial   |-> 8]
  BY DEF Init, FirstRows
<1>2. PICK rest \in IF up = 1 /\ in = 2 THEN {{}, {[Row("team", 8, "other", 0, 0) EXCEPT !.name = 6]}}
                   ELSE {{}} :
        db = [rows |-> FirstRows(up, in)
                         \union (IF rest = {} THEN {Row("team", 6, "home", 0, 0)} ELSE rest),
              closure  |-> {<<1, 1>>, <<2, 2>>} \union (IF up = 1 THEN {<<1, 2>>} ELSE {}),
              settings |-> {Owned("home", at[1], at[2], 0)},
              owned    |-> {Owned(o, at[1], at[2], 0) :
                             o \in {5, 7} \union (IF rest = {} /\ at[1] # "global"
                                                    THEN {6} ELSE {})},
              serial   |-> 8]
  BY <1>1
<1> DEFINE team == IF rest = {} THEN Row("team", 6, "home", 0, 0)
                   ELSE [Row("team", 8, "other", 0, 0) EXCEPT !.name = 6]
           rows == FirstRows(up, in) \union {team}
<1>3. /\ team \in SomeRow /\ team.kind = "team" /\ team.id \in {6, 8} /\ team.uuid = team.id
      /\ team.up = 0 /\ team.extra = 0
      /\ rest = {} => team.tenant = "home" /\ team.id = 6
  BY DEF Row, SomeRow, Kinds, Tenants
<1>4. /\ db.rows = rows /\ db.serial = 8
      /\ db.closure = {<<1, 1>>, <<2, 2>>} \union (IF up = 1 THEN {<<1, 2>>} ELSE {})
      /\ db.settings = {Owned("home", at[1], at[2], 0)}
      /\ \A x \in db.owned : \E o \in {5, 6, 7} :
           x = Owned(o, at[1], at[2], 0) /\ (o = 6 => rest = {})
      /\ db = [rows |-> db.rows, closure |-> db.closure, settings |-> db.settings,
               owned |-> db.owned, serial |-> db.serial]
  BY <1>2
<1>5. /\ Row("channel", 5, "home", 0, 0) \in rows /\ Row("action", 7, "home", 0, 0) \in rows
      /\ team \in rows
      /\ \A r \in rows : r.tenant = "home" \/ r = team
  BY DEF FirstRows, Row
<1>6. /\ Row("channel", 5, "home", 0, 0).id = 5 /\ Row("action", 7, "home", 0, 0).id = 7
      /\ Row("channel", 5, "home", 0, 0).tenant = "home"
      /\ Row("action", 7, "home", 0, 0).tenant = "home"
  BY DEF Row
<1> HIDE DEF team
<1>7. /\ rows \in SUBSET SomeRow /\ IdsOK(rows, 8) /\ TokensOK(rows) /\ UpsOK(rows)
      /\ \A r \in rows : r.kind = "group" =>
           r.id \in {1, 2} /\ r.up = (IF r.id = 1 THEN 0 ELSE up)
      /\ \E g \in rows : g.kind = "group" /\ g.id = 1 /\ g.uuid = 1 /\ g.tenant = "home"
                         /\ g.up = 0
      /\ \E g \in rows : g.kind = "group" /\ g.id = 2 /\ g.uuid = 2 /\ g.tenant = "home"
                         /\ g.up = up
  BY <1>3, FirstRowsOK
<1> HIDE DEF rows
<1>8. /\ at[1] \in Places /\ at[2] \in 0..4 /\ at[1] # "team"
  BY DEF Places
<1>9. ASSUME NEW x \in db.owned
      PROVE  /\ x \in SomeOwned /\ x.ref <= 8
             /\ \E w \in rows : w.id = x.owner /\ PointsInto(rows, w.tenant, x.scope, x.ref)
  <2>1. PICK o \in {5, 6, 7} : x = Owned(o, at[1], at[2], 0) /\ (o = 6 => rest = {})
    BY <1>4
  <2>2. x.owner = o /\ x.scope = at[1] /\ x.ref = at[2] /\ x \in SomeOwned
    BY <1>8, <2>1 DEF Owned, SomeOwned
  <2>3. PICK w \in rows : w.id = o /\ w.tenant = "home"
    BY <1>3, <1>5, <1>6, <2>1
  <2>4. ASSUME NEW r \in rows, x.scope = r.kind
        PROVE  r.tenant = "home"
    BY <1>3, <1>5, <1>8, <2>2, <2>4
  <2> QED
    BY <1>8, <2>2, <2>3, <2>4 DEF PointsInto
<1>10. OwnedOK(db.owned, rows, 8)
  BY <1>9 DEF OwnedOK
<1>11. BuiltOK(rows, db.closure, 8)
  <2>1. \A p \in db.closure : p[1] \in {1, 2} /\ p[2] \in {1, 2}
    BY <1>4
  <2>2. \A r \in rows : r.kind = "group" => r.up # 2
    BY <1>7
  <2> QED
    BY <1>7, <2>1, <2>2 DEF BuiltOK
<1>12. TreeOf(rows, db.closure)
  <2>1. /\ Ancestors(db.closure, 0) = {} /\ Ancestors(db.closure, 1) = {1}
        /\ Ancestors(db.closure, 2) = IF up = 1 THEN {1, 2} ELSE {2}
    <3> DEFINE second == {q \in db.closure : q[2] = 2}
    <3>1. {q \in db.closure : q[2] = 0} = {} /\ {q \in db.closure : q[2] = 1} = {<<1, 1>>}
          /\ second = IF up = 1 THEN {<<2, 2>>, <<1, 2>>} ELSE {<<2, 2>>}
      BY <1>4
    <3> HIDE DEF second
    <3>2. {p[1] : p \in {}} = {} /\ {p[1] : p \in {<<1, 1>>}} = {1}
      OBVIOUS
    <3>3. \A a : a \in {p[1] : p \in second} <=> \E p \in second : a = p[1]
      OBVIOUS
    <3>4. <<2, 2>>[1] = 2 /\ <<1, 2>>[1] = 1
      OBVIOUS
    <3>5. {p[1] : p \in second} = IF up = 1 THEN {1, 2} ELSE {2}
      <4>1. CASE up = 1
        <5>1. second = {<<2, 2>>, <<1, 2>>}
          BY <3>1, <4>1
        <5>2. \A a : a \in {p[1] : p \in second} <=> a \in {1, 2}
          BY <3>3, <3>4, <5>1
        <5> QED
          BY <4>1, <5>2
      <4>2. CASE up # 1
        <5>1. second = {<<2, 2>>}
          BY <3>1, <4>2
        <5>2. \A a : a \in {p[1] : p \in second} <=> a = 2
          BY <3>3, <3>4, <5>1
        <5> QED
          BY <4>2, <5>2
      <4> QED
        BY <4>1, <4>2
    <3> QED
      BY <3>1, <3>2, <3>5 DEF Ancestors, second
  <2>2. ASSUME NEW g \in rows, g.kind = "group"
        PROVE  g.up < g.id
               /\ Ancestors(db.closure, g.id) = {g.id} \union Ancestors(db.closure, g.up)
    <3>1. CASE g.id = 1
      BY <1>7, <2>1, <2>2, <3>1
    <3>2. CASE g.id = 2
      BY <1>7, <2>1, <2>2, <3>2
    <3> QED
      BY <1>7, <2>2, <3>1, <3>2
  <2> QED
    BY <2>2 DEF TreeOf
<1>13. db \in SomeDb
  <2>1. Owned("home", at[1], at[2], 0) \in SomeSetting
    BY <1>8 DEF Owned, SomeSetting, Tenants
  <2>2. db.closure \in SUBSET (Nat \X Nat) /\ db.owned \in SUBSET SomeOwned
    BY <1>4, <1>9
  <2> QED
    BY <1>4, <1>7, <2>1, <2>2 DEF SomeDb
<1>14. FileOK(file, db)
  BY <1>4, <1>7 DEF FileOK, Init
<1>15. GoodDb(db)
  BY <1>4, <1>7, <1>10, <1>11, <1>13 DEF GoodDb
<1> QED
  BY <1>4, <1>12, <1>14, <1>15 DEF FilesOK

\* Every step keeps the tables consistent.
LEMMA FilesStep ==
  ASSUME FilesOK, [Next]_vars
  PROVE  FilesOK'
<1>1. CASE Export
  BY <1>1, ExportKeeps
<1>2. CASE Import
  BY <1>2, ImportKeeps
<1>3. CASE Change
  BY <1>3, ChangeKeeps
<1>4. CASE Move
  BY <1>4, MoveKeeps
<1>5. CASE Delete
  BY <1>5, DeleteKeeps
<1>6. CASE OmitUuids
  BY <1>6, OmitKeeps
<1>7. CASE UNCHANGED vars
  BY <1>7 DEF vars, FilesOK
<1> QED
  BY <1>1, <1>2, <1>3, <1>4, <1>5, <1>6, <1>7 DEF Next

\* The inductive invariant of the tables and the file.
LEMMA FilesStayOK ==
  AdministrationSpec => []FilesOK
<1>1. AdministrationInit => Init
  BY DEF AdministrationInit
<1>2. [AdministrationNext]_administrationVars => [Next]_vars
  BY DEF AdministrationNext, administrationVars
<1> QED
  BY <1>1, <1>2, FilesInit, FilesStep, PTL DEF AdministrationSpec

\* No import, whatever it is asked to do, leaves an inconsistent database.
THEOREM FilesStayConsistent == AdministrationSpec => []Consistent
<1>1. FilesOK => Consistent
  BY FilesConsistent
<1> QED
  BY <1>1, FilesStayOK, PTL

-----------------------------------------------------------------------------
(***************************************************************************)
(* Imports that ignore or duplicate.                                       *)
(***************************************************************************)

\* A new record takes nothing from them.
LEMMA RebuiltElsewhere ==
  ASSUME NEW owned, NEW kind, NEW id, NEW scoped, NEW o, o.owner # id
  PROVE  o \in owned <=> o \in Rebuilt(owned, kind, id, scoped)
<1>1. \A s \in scoped : Owned(id, s.scope, s.ref, s.value).owner = id
  BY DEF Owned
<1> QED
  BY <1>1 DEF Rebuilt

\* Importing an item without updating leaves what there was.
LEMMA ItemLeaves ==
  ASSUME NEW job, NEW serial, NEW ups, NEW tree, GoodJob(job, serial, ups, tree),
         job.strategy # "update",
         NEW acc, GoodAcc(acc, job, serial, ups, tree),
         NEW rows, NEW owned, Numbered(rows, serial), Left(rows, owned, acc.db),
         NEW kind \in Kinds, NEW item
  PROVE  Left(rows, owned, ImportItem(acc, job, kind, item).db)
<1> DEFINE decision == ResolveConflict(job, acc.known, kind, item.uuid)
<1>1. decision \in {"fresh", "create", "skip"}
  BY DEF ResolveConflict, GoodJob, Strategies
<1>2. CASE decision = "skip"
  BY <1>2 DEF ImportItem
<1>3. CASE decision \in {"create", "fresh"}
  <2> DEFINE fresh == decision = "fresh"
             row == NewRow(acc, job, kind, item, fresh)
  <2>1. ImportItem(acc, job, kind, item) = CreateItem(acc, job, kind, item, fresh)
    BY <1>3 DEF ImportItem
  <2>2. row.kind = kind /\ row.id = acc.db.serial + 1
        /\ row.up = Resolve(acc.known, "group", item.up)
    BY DEF NewRow
  <2>3. \/ CreateItem(acc, job, kind, item, fresh) = acc
        \/ CreateItem(acc, job, kind, item, fresh) = [acc EXCEPT !.failed = TRUE]
        \/ CreateItem(acc, job, kind, item, fresh) = Created(acc, item, row)
    <3> HIDE DEF decision, fresh
    <3> QED
      BY <2>2 DEF CreateItem, Created, NewRow, NewClosure, NewPairs, Ancestors
  <2> HIDE DEF decision, fresh, row
  <2>4. /\ acc \in [db : SomeDb, known : [Kinds -> SUBSET (Nat \X Nat)], failed : BOOLEAN]
        /\ acc.db.serial \in Nat /\ serial <= acc.db.serial /\ serial \in Nat
    BY DEF GoodAcc, SomeDb, GoodJob
  <2>5. [acc EXCEPT !.failed = TRUE].db = acc.db
    BY <2>4
  <2>6. Left(rows, owned, Created(acc, item, row).db)
    <3> DEFINE d == Created(acc, item, row).db
               new == Resolved(acc.known, item.scoped)
    <3>1. d.rows = acc.db.rows \union {row} /\ d.owned = Rebuilt(acc.db.owned, row.kind, row.id, new)
      BY <2>4, CreatedFields
    <3> HIDE DEF d, new
    <3>2. ASSUME NEW r \in rows, NEW o, o.owner = r.id
          PROVE  o \in acc.db.owned <=> o \in d.owned
      <4>1. r.id # row.id
        BY <2>2, <2>4 DEF Numbered
      <4> QED
        BY <3>1, <3>2, <4>1, RebuiltElsewhere
    <3>3. Left(rows, owned, d)
      BY <3>1, <3>2 DEF Left
    <3> QED
      BY <3>3 DEF d
  <2> QED
    BY <2>1, <2>3, <2>5, <2>6
<1> QED
  BY <1>1, <1>2, <1>3

\* A section at a time.
LEMMA SectionLeaves ==
  ASSUME NEW job, NEW serial, NEW ups, NEW tree, GoodJob(job, serial, ups, tree),
         job.strategy # "update",
         NEW acc, GoodAcc(acc, job, serial, ups, tree),
         NEW rows, NEW owned, Numbered(rows, serial), Left(rows, owned, acc.db),
         NEW kind \in Kinds,
         kind \in job.sections => file.items[kind] \in Seq(Items(kind, serial, ups))
  PROVE  Left(rows, owned, ImportSection(acc, job, kind).db)
<1>1. CASE kind \notin job.sections
  BY <1>1 DEF ImportSection
<1>2. CASE kind \in job.sections
  <2> DEFINE SomeAcc == [db : SomeDb, known : [Kinds -> SUBSET (Nat \X Nat)], failed : BOOLEAN]
             V == {a \in SomeAcc : GoodAcc(a, job, serial, ups, tree) /\ Left(rows, owned, a.db)}
             X == Items(kind, serial, ups)
             items == IF kind = "group" THEN TopoSort(file.items[kind]) ELSE file.items[kind]
  <2>1. \A a : a \in V <=> GoodAcc(a, job, serial, ups, tree) /\ Left(rows, owned, a.db)
    BY DEF GoodAcc
  <2>2. items \in Seq(X)
    BY <1>2, SortStays
  <2> HIDE DEF V, X, items
  <2>3. ImportsStay(V, job, kind, X)
    <3>1. ASSUME NEW a \in V, NEW x \in X
          PROVE  ImportItem(a, job, kind, x) \in V
      BY <2>1, ItemStays, ItemLeaves DEF X
    <3> QED
      BY <3>1 DEF ImportsStay
  <2>4. ImportItems(acc, job, kind, items) \in V
    BY <2>1, <2>2, <2>3, ItemsStay
  <2>5. ImportSection(acc, job, kind) = ImportItems(acc, job, kind, items)
    BY <1>2 DEF ImportSection, items
  <2> QED
    BY <2>1, <2>4, <2>5
<1> QED
  BY <1>1, <1>2

\* Settings are no records, and remediation bindings are owned by actions.
LEMMA BindingsLeave ==
  ASSUME NEW job, NEW serial, NEW ups, NEW tree, GoodJob(job, serial, ups, tree),
         NEW acc, GoodAcc(acc, job, serial, ups, tree),
         NEW rows \in SUBSET acc.db.rows, NEW owned, Left(rows, owned, acc.db)
  PROVE  /\ Left(rows, owned, ImportSettings(acc, job).db)
         /\ Left(rows, owned, ImportRemedies(acc, job).db)
<1>1. /\ acc \in [db : SomeDb, known : [Kinds -> SUBSET (Nat \X Nat)], failed : BOOLEAN]
      /\ acc.db \in SomeDb /\ acc.db.rows \in SUBSET SomeRow
      /\ IdsOK(acc.db.rows, acc.db.serial) /\ KnownNames(acc.known, acc.db.rows, job, serial)
  BY DEF GoodAcc, GoodDb, SomeDb
<1>2. ASSUME NEW settings
      PROVE  [acc EXCEPT !.db.settings = settings].db.rows = acc.db.rows
             /\ [acc EXCEPT !.db.settings = settings].db.owned = acc.db.owned
  BY <1>1 DEF SomeDb
<1>3. Left(rows, owned, ImportSettings(acc, job).db)
  <2>1. \/ ImportSettings(acc, job) = acc
        \/ \E settings : ImportSettings(acc, job) = [acc EXCEPT !.db.settings = settings]
    BY DEF ImportSettings
  <2> QED
    BY <1>2, <2>1 DEF Left
<1>4. Left(rows, owned, ImportRemedies(acc, job).db)
  <2>1. CASE "remedy" \notin job.sections
    BY <2>1 DEF ImportRemedies
  <2>2. CASE "remedy" \in job.sections
    <3> DEFINE given == {q \in file.remedies : Resolve(acc.known, "action", q.action) # 0}
               Of1(r) == {Owned(Resolve(acc.known, "action", r.action), x.scope, x.ref, x.value) :
                            x \in Resolved(acc.known, {Scoped(r.scope, r.ref, r.value)})}
               new == UNION {Of1(r) : r \in given}
               after == {o \in acc.db.owned :
                          ~\E x \in new : x.owner = o.owner /\ x.scope = o.scope /\ x.ref = o.ref}
                        \union new
    <3>1. ImportRemedies(acc, job) = [acc EXCEPT !.db.owned = after]
      BY <2>2 DEF ImportRemedies
    <3>2. ASSUME NEW r \in rows, r.kind \in {"channel", "team"}, NEW o \in new
          PROVE  o.owner # r.id
      <4>1. PICK g \in given : o \in Of1(g)
        OBVIOUS
      <4>2. o.owner = Resolve(acc.known, "action", g.action)
        BY <4>1 DEF Owned
      <4>3. "action" \in Kinds /\ Resolve(acc.known, "action", g.action) # 0
        BY <4>1 DEF Kinds
      <4> HIDE DEF given, new
      <4>4. PICK w \in acc.db.rows : w.id = o.owner /\ Stands(w, "action", g.action, job, serial)
        BY <1>1, <4>2, <4>3, ResolveStands
      <4>5. w.kind = "action"
        BY <1>1, <4>4 DEF Stands, Class
      <4> QED
        BY <1>1, <3>2, <4>4, <4>5 DEF IdsOK
    <3> HIDE DEF new
    <3>3. [acc EXCEPT !.db.owned = after].db.rows = acc.db.rows
          /\ [acc EXCEPT !.db.owned = after].db.owned = after
      <4> HIDE DEF after
      <4> QED
        BY <1>1 DEF SomeDb
    <3>4. ASSUME NEW r \in rows, r.kind \in {"channel", "team"}, NEW o, o.owner = r.id
          PROVE  o \in acc.db.owned <=> o \in after
      BY <3>2, <3>4
    <3> HIDE DEF after
    <3> QED
      BY <3>1, <3>3, <3>4 DEF Left
  <2> QED
    BY <2>1, <2>2
<1> QED
  BY <1>3, <1>4

\* The sections one after the other.
LEMMA ImportedLeaves ==
  ASSUME NEW job, NEW serial, NEW ups, NEW tree, GoodJob(job, serial, ups, tree),
         job.strategy # "update",
         GoodAcc(Start(job), job, serial, ups, tree), GivenOK(file, job, serial, ups),
         Numbered(db.rows, serial)
  PROVE  Left(db.rows, db.owned, Imported(job).db)
<1> DEFINE groups   == ImportSection(Start(job), job, "group")
           monitors == ImportSection(groups, job, "monitor")
           channels == ImportSection(monitors, job, "channel")
           teams    == ImportSection(channels, job, "team")
           actions  == ImportSection(teams, job, "action")
           settings == ImportSettings(actions, job)
           Fine(a) == GoodAcc(a, job, serial, ups, tree) /\ Left(db.rows, db.owned, a.db)
<1>1. Imported(job) = ImportRemedies(settings, job)
  BY DEF Imported
<1>2. ASSUME NEW a, Fine(a), NEW k \in {"group", "monitor", "channel", "team", "action"}
      PROVE  Fine(ImportSection(a, job, k))
  <2>1. k \in Kinds /\ (k \in job.sections => file.items[k] \in Seq(Items(k, serial, ups)))
    BY <1>2 DEF GivenOK, Kinds
  <2>2. GoodAcc(ImportSection(a, job, k), job, serial, ups, tree)
    BY <1>2, <2>1, SectionStays
  <2>3. Left(db.rows, db.owned, ImportSection(a, job, k).db)
    BY <1>2, <2>1, SectionLeaves
  <2> QED
    BY <2>2, <2>3
<1>3. Fine(Start(job))
  BY DEF Start, Left
<1> HIDE DEF Fine
<1>4. Fine(actions)
  BY <1>2, <1>3
<1> HIDE DEF actions
<1>5. GoodAcc(actions, job, serial, ups, tree) /\ Left(db.rows, db.owned, actions.db)
  BY <1>4 DEF Fine
<1>6. GoodAcc(settings, job, serial, ups, tree)
  BY <1>5, SettingsStay DEF GivenOK
<1>7. Left(db.rows, db.owned, settings.db)
  <2>1. db.rows \in SUBSET actions.db.rows
    BY <1>5 DEF Left
  <2> QED
    BY <1>5, <2>1, BindingsLeave
<1> HIDE DEF settings
<1>8. Left(db.rows, db.owned, ImportRemedies(settings, job).db)
  <2>1. db.rows \in SUBSET settings.db.rows
    BY <1>7 DEF Left
  <2> QED
    BY <1>6, <1>7, <2>1, BindingsLeave
<1> QED
  BY <1>1, <1>8

\* What an import is asked to do, and what it works from.
LEMMA ImportAsked ==
  ASSUME FilesOK, file # NoFile, NEW tenant \in Tenants, NEW strategy \in Strategies,
         NEW sections
  PROVE  LET job == JobOf(tenant, strategy, sections) IN
         /\ GoodJob(job, db.serial, {0, 1}, FALSE)
         /\ GoodAcc(Start(job), job, db.serial, {0, 1}, FALSE)
         /\ GivenOK(file, job, db.serial, {0, 1})
<1> DEFINE job == JobOf(tenant, strategy, sections)
<1>1. /\ GoodDb(db) /\ file \in Files
      /\ \A k \in Kinds : file.items[k] \in Seq(Items(k, db.serial, {0, 1}))
  BY DEF FilesOK, FileOK
<1>2. db.serial \in Nat /\ db.serial >= 8 /\ db.rows \in SUBSET SomeRow
  BY <1>1 DEF GoodDb, SomeDb, BuiltOK
<1>3. /\ job.tenant = tenant /\ job.strategy = strategy /\ job.sections = sections
      /\ \A k \in Kinds :
           job.foreign[k] = {r.uuid : r \in {q \in Of(db.rows, k) : q.tenant # tenant}}
  BY DEF JobOf
<1> HIDE DEF job
<1>4. GoodJob(job, db.serial, {0, 1}, FALSE)
  <2>1. tenant = "home" => 1 \notin job.foreign["group"]
    <3>1. SUFFICES ASSUME tenant = "home", 1 \in job.foreign["group"]
                   PROVE  FALSE
      OBVIOUS
    <3>2. PICK r \in Of(db.rows, "group") : r.tenant # "home" /\ r.uuid = 1
      BY <1>3, <3>1 DEF Kinds
    <3>3. PICK g \in db.rows : g.kind = "group" /\ g.uuid = 1 /\ g.tenant = "home"
      BY <1>1, TwoGroups
    <3>4. r \in db.rows /\ Class(r) = "group" /\ Class(g) = "group"
      BY <3>2, <3>3 DEF Of, Class
    <3> QED
      BY <1>1, <3>2, <3>3, <3>4 DEF GoodDb, IdsOK
  <2> QED
    BY <1>2, <1>3, <2>1 DEF GoodJob
<1>5. GoodAcc(Start(job), job, db.serial, {0, 1}, FALSE)
  <2>1. SecondGroup(db.rows, {0, 1})
    <3>1. \A g \in db.rows : g.kind = "group" /\ g.id = 2 => g.up \in {0, 1}
      BY <1>1, TwoGroups
    <3> QED
      BY <3>1 DEF SecondGroup
  <2> QED
    BY <1>1, <2>1, StartGood DEF job
<1>6. GivenOK(file, job, db.serial, {0, 1})
  BY <1>1 DEF GivenOK, Files
<1> QED
  BY <1>4, <1>5, <1>6 DEF job

\* Only imports import.
LEMMA ImportSays ==
  ASSUME FilesOK, [Next]_vars, imports' # imports
  PROVE  \E tenant \in Tenants, strategy \in Strategies, sections \in SectionSets :
           ImportOf(JobOf(tenant, strategy, sections))
<1>1. Import
  BY DEF Next, vars, Export, Change, Move, Delete, OmitUuids
<1>2. PICK tenant \in Tenants, strategy \in Strategies, sections \in SectionSets :
        LET job == JobOf(tenant, strategy, sections)
            result == Imported(job)
        IN
        /\ file # NoFile
        /\ db' = IF result.failed THEN db ELSE result.db
        /\ last' = [tenant |-> tenant, strategy |-> strategy, sections |-> sections,
                    failed |-> result.failed]
  BY <1>1 DEF Import, JobOf
<1> DEFINE job == JobOf(tenant, strategy, sections)
<1>3. job.tenant = tenant /\ job.strategy = strategy /\ job.sections = sections
  BY DEF JobOf
<1>4. /\ GoodJob(job, db.serial, {0, 1}, FALSE)
      /\ GoodAcc(Start(job), job, db.serial, {0, 1}, FALSE)
      /\ GivenOK(file, job, db.serial, {0, 1})
  BY <1>2, ImportAsked
<1> QED
  BY <1>2, <1>3, <1>4 DEF ImportOf

\* An import that fails changes nothing.
LEMMA StepsLeave ==
  ASSUME FilesOK, [Next]_vars
  PROVE  LeftAsItWas
<1> SUFFICES ASSUME imports' # imports, last'.strategy # "update"
             PROVE  /\ db.rows \subseteq db'.rows
                    /\ \A r \in db.rows : r.kind \in {"channel", "team"} =>
                         {o \in db.owned : o.owner = r.id} = {o \in db'.owned : o.owner = r.id}
  BY DEF LeftAsItWas
<1>1. PICK tenant \in Tenants, strategy \in Strategies, sections \in SectionSets :
        ImportOf(JobOf(tenant, strategy, sections))
  BY ImportSays
<1> DEFINE job == JobOf(tenant, strategy, sections)
           result == Imported(job)
<1> HIDE DEF job
<1>2. /\ job.strategy # "update" /\ (db' = db \/ db' = result.db)
      /\ GoodJob(job, db.serial, {0, 1}, FALSE)
      /\ GoodAcc(Start(job), job, db.serial, {0, 1}, FALSE)
      /\ GivenOK(file, job, db.serial, {0, 1})
  BY <1>1 DEF ImportOf, job
<1>3. Numbered(db.rows, db.serial)
  BY DEF FilesOK, GoodDb, IdsOK, SomeDb, SomeRow, Numbered
<1>4. Left(db.rows, db.owned, result.db)
  BY <1>2, <1>3, ImportedLeaves
<1> HIDE DEF result
<1> QED
  BY <1>2, <1>4 DEF Left

\* Imports that ignore or duplicate leave every record as it is, whatever is imported and
\* in whichever state of the tables (LeavesExisting, the first half of StrategiesHold).
THEOREM ImportsLeaveExisting == AdministrationSpec => LeavesExisting
<1>1. AdministrationSpec => []FilesOK
  BY FilesStayOK
<1>2. [AdministrationNext]_administrationVars => [Next]_vars
  BY DEF AdministrationNext, administrationVars
<1>3. FilesOK /\ [Next]_vars => [LeftAsItWas]_vars
  BY StepsLeave
<1>4. LeavesExisting <=> [][LeftAsItWas]_vars
  BY DEF LeavesExisting, LeftAsItWas
<1> QED
  BY <1>1, <1>2, <1>3, <1>4, PTL DEF AdministrationSpec

-----------------------------------------------------------------------------
(***************************************************************************)
(* What importing an item does, exactly.                                   *)
(***************************************************************************)

\* An update overwrites the row with the uuid.
LEMMA UpdateShape ==
  ASSUME NEW job, NEW serial, NEW ups, NEW tree, GoodJob(job, serial, ups, tree),
         NEW acc, GoodAcc(acc, job, serial, ups, tree),
         NEW kind \in Kinds, NEW item \in Items(kind, serial, ups),
         ResolveConflict(job, acc.known, kind, item.uuid) = "update"
  PROVE  \E old, new : /\ old.tenant = job.tenant
                       /\ Overwrites(acc, ImportItem(acc, job, kind, item), kind, item, old, new)
<1> DEFINE rows == acc.db.rows
           id == Resolve(acc.known, kind, item.uuid)
           old == With(rows, id)
           up == IF kind \in {"group", "monitor"} THEN Resolve(acc.known, "group", item.up)
                 ELSE old.up
           extra == IF kind = "monitor" THEN Token(rows, item, item.uuid) ELSE old.extra
           new == [old EXCEPT !.name = item.name, !.data = item.data, !.up = up, !.extra = extra]
           owned == Rebuilt(acc.db.owned, kind, id, Resolved(acc.known, item.scoped))
<1>1. /\ item.uuid # Anonymous /\ old \in rows /\ old.id = id
      /\ old.uuid = item.uuid /\ Class(old) = kind /\ old.tenant = job.tenant
  BY UpdateFinds
<1>2. /\ acc \in [db : SomeDb, known : [Kinds -> SUBSET (Nat \X Nat)], failed : BOOLEAN]
      /\ acc.db \in SomeDb /\ rows \in SUBSET SomeRow
  BY DEF GoodAcc, SomeDb
<1>3. item.name \in Nat /\ item.data \in Nat /\ item.extra \in Nat
  BY DEF Items, SomeItem
<1>4. ImportItem(acc, job, kind, item) =
        [acc EXCEPT !.db.rows = (@ \ {old}) \union {new}, !.db.owned = owned]
  BY DEF ImportItem, UpdateItem
<1>5. up \in Nat /\ extra \in Nat
  <2>1. "group" \in Kinds /\ old \in SomeRow
    BY <1>1, <1>2 DEF Kinds
  <2>2. Resolve(acc.known, "group", item.up) \in Nat
    BY <1>2, <2>1, ResolveType
  <2>3. Token(rows, item, item.uuid) \in Nat
    BY <1>3 DEF Token
  <2> QED
    BY <2>1, <2>2, <2>3 DEF SomeRow
<1> HIDE DEF old, extra
<1>6. /\ new \in SomeRow /\ Alike(old, new) /\ new.up = up
      /\ new.name = item.name /\ new.data = item.data
  <2>1. old \in SomeRow
    BY <1>1, <1>2
  <2> HIDE DEF up
  <2> QED
    BY <1>3, <1>5, <2>1 DEF SomeRow, Alike
<1> HIDE DEF new
<1>7. new.id = id
  BY <1>1, <1>6 DEF Alike
<1> DEFINE acc2 == [acc EXCEPT !.db.rows = (@ \ {old}) \union {new}, !.db.owned = owned]
<1>8. /\ acc2.db.rows = (rows \ {old}) \union {new} /\ acc2.db.owned = owned
      /\ acc2.known = acc.known
  <2> HIDE DEF owned
  <2>1. /\ acc = [db |-> acc.db, known |-> acc.known, failed |-> acc.failed]
        /\ acc.db = [rows |-> acc.db.rows, closure |-> acc.db.closure,
                     settings |-> acc.db.settings, owned |-> acc.db.owned,
                     serial |-> acc.db.serial]
    BY <1>2 DEF SomeDb
  <2> QED
    BY <2>1
<1> HIDE DEF acc2
<1>9. Overwrites(acc, acc2, kind, item, old, new)
  BY <1>1, <1>6, <1>7, <1>8 DEF Overwrites
<1> QED
  BY <1>1, <1>4, <1>9 DEF acc2

\* What becomes a new record is one, but for teams, whose name may be taken.
LEMMA CreateShape ==
  ASSUME NEW job, NEW serial, NEW ups, NEW tree, GoodJob(job, serial, ups, tree),
         NEW acc, GoodAcc(acc, job, serial, ups, tree),
         NEW kind \in Kinds, NEW item \in Items(kind, serial, ups),
         NEW fresh \in BOOLEAN,
         ResolveConflict(job, acc.known, kind, item.uuid) = IF fresh THEN "fresh" ELSE "create"
  PROVE  \/ /\ kind = "team" /\ ImportItem(acc, job, kind, item).db = acc.db
            /\ ImportItem(acc, job, kind, item).known = acc.known
         \/ \E row : Inserts(acc, ImportItem(acc, job, kind, item), job, kind, item, fresh, row)
<1> DEFINE row == NewRow(acc, job, kind, item, fresh)
           acc2 == ImportItem(acc, job, kind, item)
<1>1. ImportItem(acc, job, kind, item) = CreateItem(acc, job, kind, item, fresh)
  BY DEF ImportItem
<1>2. MayCreate(job, acc.known, kind, item.uuid, fresh)
  BY DEF ResolveConflict, MayCreate, GoodJob, Strategies
<1>3. /\ row \in SomeRow /\ row.kind = kind /\ row.tenant = job.tenant
      /\ row.id = acc.db.serial + 1 /\ row.uuid = IF fresh THEN row.id ELSE item.uuid
  BY <1>2, CreateRow
<1>4. /\ row.name = item.name /\ row.data = item.data
      /\ row.up = Resolve(acc.known, "group", item.up)
  BY DEF NewRow
<1>5. \/ kind = "team" /\ acc2 \in {acc, [acc EXCEPT !.failed = TRUE]}
      \/ acc2 = Created(acc, item, row)
  BY <1>1, <1>3, <1>4 DEF CreateItem, Created, NewRow, NewClosure, NewPairs, Ancestors
<1> HIDE DEF row, acc2
<1>6. acc \in [db : SomeDb, known : [Kinds -> SUBSET (Nat \X Nat)], failed : BOOLEAN]
  BY DEF GoodAcc
<1>7. CASE kind = "team" /\ acc2 \in {acc, [acc EXCEPT !.failed = TRUE]}
  <2>1. /\ [acc EXCEPT !.failed = TRUE].db = acc.db
        /\ [acc EXCEPT !.failed = TRUE].known = acc.known
    BY <1>6
  <2> QED
    BY <1>7, <2>1 DEF acc2
<1>8. CASE acc2 = Created(acc, item, row)
  <2>1. /\ acc2.db.rows = acc.db.rows \union {row}
        /\ acc2.db.owned = Rebuilt(acc.db.owned, kind, row.id, Resolved(acc.known, item.scoped))
        /\ acc2.known = NewKnown(acc.known, kind, item, row)
    BY <1>3, <1>6, <1>8, CreatedFields DEF NewKnown
  <2>2. Inserts(acc, acc2, job, kind, item, fresh, row)
    BY <1>3, <1>4, <2>1 DEF Inserts
  <2> QED
    BY <2>2 DEF acc2
<1> QED
  BY <1>5, <1>7, <1>8

-----------------------------------------------------------------------------
(***************************************************************************)
(* Names.  A file is written before anything is imported, so that its      *)
(* uuids are those of the first records: a uuid up to 8 tells the kind.    *)
(***************************************************************************)

\* A uuid that names nothing resolves to nothing.
LEMMA AnonymousIsNone ==
  ASSUME NEW job, NEW serial, NEW ups, NEW tree, GoodJob(job, serial, ups, tree),
         NEW acc, GoodAcc(acc, job, serial, ups, tree), NEW kind \in Kinds
  PROVE  Resolve(acc.known, kind, 0) = 0
<1>1. acc.db.rows \in SUBSET SomeRow /\ KnownNames(acc.known, acc.db.rows, job, serial)
  BY DEF GoodAcc, SomeDb
<1>2. ~\E r \in acc.db.rows : Stands(r, kind, 0, job, serial)
  BY DEF Stands, Anonymous
<1> QED
  BY <1>1, <1>2, ResolveStands

\* The kinds of uuids are kept by every import of an item, and so are the records.
LEMMA ItemNames ==
  ASSUME NEW job, NEW serial, NEW ups, NEW tree, GoodJob(job, serial, ups, tree),
         NEW acc, GoodAcc(acc, job, serial, ups, tree), NamesOK(acc.db.rows),
         NEW rows, Kept(rows, acc.db.rows),
         NEW kind \in Kinds, NEW item \in Items(kind, serial, ups), ItemOK(kind, item)
  PROVE  LET acc2 == ImportItem(acc, job, kind, item) IN
         NamesOK(acc2.db.rows) /\ Kept(rows, acc2.db.rows)
<1> DEFINE acc2 == ImportItem(acc, job, kind, item)
           decision == ResolveConflict(job, acc.known, kind, item.uuid)
<1> SUFFICES NamesOK(acc2.db.rows) /\ Kept(rows, acc2.db.rows)
  OBVIOUS
<1>1. decision \in {"fresh", "create", "update", "skip"}
  BY DEF ResolveConflict, GoodJob, Strategies
<1>2. CASE decision = "skip"
  <2>1. acc2 = acc
    BY <1>2 DEF ImportItem
  <2> QED
    BY <2>1
<1>3. CASE decision = "update"
  <2>1. PICK old, new : Overwrites(acc, acc2, kind, item, old, new)
    BY <1>3, UpdateShape
  <2> HIDE DEF acc2
  <2>2. /\ old \in acc.db.rows /\ Alike(old, new) /\ Class(old) = kind
        /\ new.up = IF kind \in {"group", "monitor"} THEN Resolve(acc.known, "group", item.up)
                    ELSE old.up
        /\ acc2.db.rows = (acc.db.rows \ {old}) \union {new}
    BY <2>1 DEF Overwrites
  <2>3. new.kind \in {"channel", "team", "action"} => new.up = 0
    <3>1. new.kind \in {"channel", "team", "action"} => kind = old.kind /\ old.kind = new.kind
      BY <2>2 DEF Alike, Class
    <3>2. old.kind \in {"channel", "team", "action"} => old.up = 0
      BY <2>2 DEF NamesOK
    <3> QED
      BY <2>2, <3>1, <3>2
  <2>4. new.uuid <= 8 => new.uuid \in Natives[new.kind]
    BY <2>2 DEF NamesOK, Alike
  <2>5. NamesOK(acc2.db.rows)
    BY <2>2, <2>3, <2>4 DEF NamesOK
  <2>6. Kept(rows, acc2.db.rows)
    BY <2>2 DEF Kept, Alike
  <2> QED
    BY <2>5, <2>6
<1>4. CASE decision \in {"create", "fresh"}
  <2> DEFINE fresh == decision = "fresh"
  <2>1. \/ acc2.db = acc.db
        \/ \E row : Inserts(acc, acc2, job, kind, item, fresh, row)
    <3>1. fresh \in BOOLEAN /\ decision = IF fresh THEN "fresh" ELSE "create"
      BY <1>4
    <3> HIDE DEF fresh
    <3> QED
      BY <3>1, CreateShape
  <2> HIDE DEF acc2
  <2>2. CASE acc2.db = acc.db
    BY <2>2
  <2>3. ASSUME NEW row, Inserts(acc, acc2, job, kind, item, fresh, row)
        PROVE  NamesOK(acc2.db.rows) /\ Kept(rows, acc2.db.rows)
    <3>1. /\ row.kind = kind /\ row.id = acc.db.serial + 1 /\ row \in SomeRow
          /\ row.uuid = IF fresh THEN row.id ELSE item.uuid
          /\ row.up = Resolve(acc.known, "group", item.up)
          /\ acc2.db.rows = acc.db.rows \union {row}
      BY <2>3 DEF Inserts
    <3>2. serial >= 8 /\ serial <= acc.db.serial /\ serial \in Nat /\ acc.db.serial \in Nat
      BY DEF GoodAcc, GoodJob, SomeDb
    <3>3. row.uuid <= 8 => row.uuid \in Natives[row.kind]
      <4>1. row.uuid <= 8 => row.uuid = item.uuid
        BY <3>1, <3>2
      <4>2. row.uuid # 0
        BY <3>1 DEF SomeRow
      <4> QED
        BY <3>1, <4>1, <4>2 DEF ItemOK, Anonymous
    <3>4. row.kind \in {"channel", "team", "action"} => row.up = 0
      <4>1. "group" \in Kinds
        BY DEF Kinds
      <4>2. Resolve(acc.known, "group", 0) = 0
        BY <4>1, AnonymousIsNone
      <4> QED
        BY <3>1, <4>2 DEF ItemOK
    <3> QED
      BY <3>1, <3>3, <3>4 DEF NamesOK, Kept
  <2> QED
    BY <2>1, <2>2, <2>3
<1> QED
  BY <1>1, <1>2, <1>3, <1>4

\* A section at a time.
LEMMA SectionNames ==
  ASSUME NEW job, NEW serial, NEW ups, NEW tree, GoodJob(job, serial, ups, tree),
         NEW acc, GoodAcc(acc, job, serial, ups, tree), NamesOK(acc.db.rows),
         NEW rows, Kept(rows, acc.db.rows), NEW kind \in Kinds,
         kind \in job.sections => file.items[kind] \in Seq(Items(kind, serial, ups)),
         \A i \in Range(file.items[kind]) : ItemOK(kind, i)
  PROVE  LET acc2 == ImportSection(acc, job, kind) IN
         NamesOK(acc2.db.rows) /\ Kept(rows, acc2.db.rows)
<1>1. CASE kind \notin job.sections
  BY <1>1 DEF ImportSection
<1>2. CASE kind \in job.sections
  <2> DEFINE SomeAcc == [db : SomeDb, known : [Kinds -> SUBSET (Nat \X Nat)], failed : BOOLEAN]
             Fine(a) == /\ GoodAcc(a, job, serial, ups, tree)
                        /\ NamesOK(a.db.rows) /\ Kept(rows, a.db.rows)
             V == {a \in SomeAcc : Fine(a)}
             given == file.items[kind]
             X == Range(given)
             items == IF kind = "group" THEN TopoSort(given) ELSE given
  <2>1. \A a : a \in V <=> Fine(a)
    BY DEF GoodAcc
  <2>2. given \in Seq(X) /\ \A x \in X : x \in Items(kind, serial, ups)
    BY <1>2 DEF Range
  <2> HIDE DEF V, X, given
  <2>3. items \in Seq(X)
    BY <2>2, SortStays
  <2> HIDE DEF items
  <2>4. ImportsStay(V, job, kind, X)
    <3>1. ASSUME NEW a \in V, NEW x \in X
          PROVE  ImportItem(a, job, kind, x) \in V
      <4>1. x \in Items(kind, serial, ups) /\ ItemOK(kind, x)
        BY <2>2 DEF X, given
      <4>2. Fine(a)
        BY <2>1
      <4>3. Fine(ImportItem(a, job, kind, x))
        BY <4>1, <4>2, ItemStays, ItemNames
      <4> QED
        BY <2>1, <4>3
    <3> QED
      BY <3>1 DEF ImportsStay
  <2>5. ImportItems(acc, job, kind, items) \in V
    BY <2>1, <2>3, <2>4, ItemsStay
  <2>6. ImportSection(acc, job, kind) = ImportItems(acc, job, kind, items)
    BY <1>2 DEF ImportSection, items, given
  <2> QED
    BY <2>1, <2>5, <2>6
<1> QED
  BY <1>1, <1>2

\* Settings and remediation bindings are no records, and the latter no settings.
LEMMA BindingsKeepRows ==
  ASSUME NEW job, NEW serial, NEW ups, NEW tree, NEW acc, GoodAcc(acc, job, serial, ups, tree)
  PROVE  /\ ImportSettings(acc, job).db.rows = acc.db.rows
         /\ ImportRemedies(acc, job).db.rows = acc.db.rows
         /\ ImportRemedies(acc, job).db.settings = acc.db.settings
         /\ ImportSettings(acc, job).known = acc.known
         /\ ImportRemedies(acc, job).known = acc.known
<1>1. /\ acc = [db |-> acc.db, known |-> acc.known, failed |-> acc.failed]
      /\ acc.db = [rows |-> acc.db.rows, closure |-> acc.db.closure,
                   settings |-> acc.db.settings, owned |-> acc.db.owned,
                   serial |-> acc.db.serial]
  BY DEF GoodAcc, SomeDb
<1> DEFINE Set(t) == [acc EXCEPT !.db.settings = t]
           Own(t) == [acc EXCEPT !.db.owned = t]
<1>2. ASSUME NEW t
      PROVE  /\ Set(t).db.rows = acc.db.rows /\ Set(t).known = acc.known
             /\ Own(t).db.rows = acc.db.rows /\ Own(t).known = acc.known
             /\ Own(t).db.settings = acc.db.settings
  BY <1>1
<1>3. ImportSettings(acc, job) = acc \/ \E t : ImportSettings(acc, job) = Set(t)
  BY DEF ImportSettings
<1>4. ImportRemedies(acc, job) = acc \/ \E t : ImportRemedies(acc, job) = Own(t)
  BY DEF ImportRemedies
<1> HIDE DEF Set, Own
<1> QED
  BY <1>2, <1>3, <1>4

\* So does an import.
LEMMA ImportedNames ==
  ASSUME NEW job, NEW serial, NEW ups, NEW tree, GoodJob(job, serial, ups, tree),
         GoodAcc(Start(job), job, serial, ups, tree), GivenOK(file, job, serial, ups),
         NamesOK(db.rows), GivenNames(file, db.rows)
  PROVE  NamesOK(Imported(job).db.rows) /\ Kept(db.rows, Imported(job).db.rows)
<1> DEFINE groups   == ImportSection(Start(job), job, "group")
           monitors == ImportSection(groups, job, "monitor")
           channels == ImportSection(monitors, job, "channel")
           teams    == ImportSection(channels, job, "team")
           actions  == ImportSection(teams, job, "action")
           settings == ImportSettings(actions, job)
           Fine(a) == /\ GoodAcc(a, job, serial, ups, tree)
                      /\ NamesOK(a.db.rows) /\ Kept(db.rows, a.db.rows)
<1>1. Imported(job) = ImportRemedies(settings, job)
  BY DEF Imported
<1>2. ASSUME NEW a, Fine(a), NEW k \in {"group", "monitor", "channel", "team", "action"}
      PROVE  Fine(ImportSection(a, job, k))
  <2>1. k \in Kinds /\ (k \in job.sections => file.items[k] \in Seq(Items(k, serial, ups)))
    BY <1>2 DEF GivenOK, Kinds
  <2>2. \A i \in Range(file.items[k]) : ItemOK(k, i)
    BY <2>1 DEF GivenNames
  <2>3. GoodAcc(ImportSection(a, job, k), job, serial, ups, tree)
    BY <1>2, <2>1, SectionStays
  <2>4. /\ NamesOK(ImportSection(a, job, k).db.rows)
        /\ Kept(db.rows, ImportSection(a, job, k).db.rows)
    BY <1>2, <2>1, <2>2, SectionNames
  <2> QED
    BY <2>3, <2>4
<1>3. Fine(Start(job))
  BY DEF Start, Kept, Alike
<1> HIDE DEF Fine
<1>4. Fine(actions)
  BY <1>2, <1>3
<1> HIDE DEF actions
<1>5. /\ GoodAcc(actions, job, serial, ups, tree)
      /\ NamesOK(actions.db.rows) /\ Kept(db.rows, actions.db.rows)
  BY <1>4 DEF Fine
<1>6. GoodAcc(settings, job, serial, ups, tree) /\ settings.db.rows = actions.db.rows
  BY <1>5, SettingsStay, BindingsKeepRows DEF GivenOK
<1> HIDE DEF settings
<1>7. ImportRemedies(settings, job).db.rows = settings.db.rows
  BY <1>6, BindingsKeepRows
<1> QED
  BY <1>1, <1>5, <1>6, <1>7

\* The names of a file are good as long as its teams are there.
LEMMA GivenStays ==
  ASSUME NEW f, NEW rows, NEW rows2, GivenNames(f, rows),
         \A r \in rows : r.kind = "team" => \E q \in rows2 : Alike(r, q)
  PROVE  GivenNames(f, rows2)
<1>1. ASSUME NEW i, \E r \in rows : r.kind = "team" /\ r.uuid = i.uuid /\ r.tenant = "home"
      PROVE  \E r \in rows2 : r.kind = "team" /\ r.uuid = i.uuid /\ r.tenant = "home"
  BY <1>1 DEF Alike
<1> QED
  BY <1>1 DEF GivenNames

\* What a row points at has the uuid of a row of that table.
LEMMA UuidOfRow ==
  ASSUME NEW rows \in SUBSET SomeRow, NEW place \in Kinds, NEW id
  PROVE  \/ UuidAt(rows, place, id) = 0 /\ ~\E r \in rows : Class(r) = place /\ r.id = id
         \/ \E r \in rows : Class(r) = place /\ r.id = id /\ r.uuid = UuidAt(rows, place, id)
<1>1. \A r \in rows : r \in Of(rows, place) <=> Class(r) = place
  BY OfClass
<1>2. CASE \E r \in Of(rows, place) : r.id = id
  <2> DEFINE r == CHOOSE r \in Of(rows, place) : r.id = id
  <2>1. r \in Of(rows, place) /\ r.id = id /\ UuidAt(rows, place, id) = r.uuid
    BY <1>2 DEF UuidAt
  <2>2. r \in rows
    BY <2>1 DEF Of
  <2> HIDE DEF r
  <2> QED
    BY <1>1, <2>1, <2>2
<1>3. CASE ~\E r \in Of(rows, place) : r.id = id
  <2>1. UuidAt(rows, place, id) = 0
    BY <1>3 DEF UuidAt
  <2> QED
    BY <1>1, <1>3, <2>1
<1> QED
  BY <1>2, <1>3

\* Before anything is imported, what is exported points at the first records.
LEMMA ExportedNames ==
  ASSUME NEW rows \in SUBSET SomeRow, NamesOK(rows), \A r \in rows : r.uuid <= 8,
         NEW scoped, \A s \in scoped : s.scope \in Places,
         NEW x \in Exported(rows, scoped)
  PROVE  RefOK(x)
<1>1. PICK s \in scoped :
        /\ x = Scoped(s.scope, IF s.scope = "global" THEN 0 ELSE UuidAt(rows, s.scope, s.ref),
                      s.value)
        /\ x.scope = "global" \/ x.ref # 0
  BY DEF Exported
<1>2. x.scope = s.scope /\ x.ref = IF s.scope = "global" THEN 0 ELSE UuidAt(rows, s.scope, s.ref)
  BY <1>1 DEF Scoped
<1>3. CASE s.scope = "global"
  BY <1>2, <1>3 DEF RefOK
<1>4. CASE s.scope \in {"group", "monitor"}
  <2>1. s.scope \in Kinds
    BY <1>4 DEF Kinds
  <2>2. PICK r \in rows : Class(r) = s.scope /\ r.uuid = x.ref
    BY <1>1, <1>2, <1>4, <2>1, UuidOfRow
  <2>3. r.uuid \in Natives[r.kind]
    BY DEF NamesOK
  <2>4. CASE s.scope = "group"
    <3>1. r.kind = "group"
      BY <2>2, <2>4 DEF Class
    <3> QED
      BY <1>2, <2>2, <2>3, <2>4, <3>1 DEF RefOK, Natives
  <2>5. CASE s.scope = "monitor"
    <3>1. r.kind \in {"monitor", "agent"}
      BY <2>2, <2>5 DEF Class
    <3> QED
      BY <1>2, <2>2, <2>3, <2>5, <3>1 DEF RefOK, Natives
  <2> QED
    BY <1>4, <2>4, <2>5
<1> QED
  BY <1>3, <1>4 DEF Places

\* So an item has the name and the parent of a first record.
LEMMA ItemNamed ==
  ASSUME GoodDb(db), db.serial = 8, NamesOK(db.rows),
         NEW rows \in SUBSET db.rows, NEW r \in rows, r.kind \in Kinds
  PROVE  ItemOK(r.kind, Item(rows, r)) /\ Item(rows, r).uuid = r.uuid
<1>1. /\ rows \in SUBSET SomeRow /\ NamesOK(rows) /\ \A q \in rows : q.uuid <= 8
      /\ db.owned \in SUBSET SomeOwned
  BY DEF GoodDb, SomeDb, IdsOK, NamesOK
<1> DEFINE up == UuidAt(rows, "group", r.up)
           mine == {o \in db.owned : o.owner = r.id}
           scoped == IF r.kind = "action" THEN {} ELSE Exported(rows, mine)
<1>2. Item(rows, r) = [uuid |-> r.uuid, up |-> up, name |-> r.name, data |-> r.data,
                       extra |-> r.extra, scoped |-> scoped]
  BY DEF Item
<1>3. "group" \in Kinds
  BY DEF Kinds
<1>4. up \in {0, 1, 2}
  <2>1. CASE up # 0
    <3>1. PICK g \in rows : Class(g) = "group" /\ g.uuid = up
      BY <1>1, <1>3, <2>1, UuidOfRow
    <3>2. g.kind = "group" /\ g.uuid \in Natives[g.kind]
      BY <1>1, <3>1 DEF Class, NamesOK
    <3> QED
      BY <3>1, <3>2 DEF Natives
  <2> QED
    BY <2>1
<1>5. r.kind \notin {"group", "monitor"} => up = 0
  <2> SUFFICES ASSUME r.kind \notin {"group", "monitor"}
               PROVE  up = 0
    OBVIOUS
  <2>1. r.up = 0
    BY <1>1 DEF Kinds, NamesOK
  <2>2. \A q \in rows : q.id # 0
    BY <1>1 DEF SomeRow
  <2> QED
    BY <1>1, <1>3, <2>1, <2>2, UuidOfRow
<1>6. \A s \in scoped : RefOK(s)
  <2>1. \A s \in mine : s.scope \in Places
    BY <1>1 DEF SomeOwned
  <2> HIDE DEF mine
  <2>2. \A s \in Exported(rows, mine) : RefOK(s)
    BY <1>1, <2>1, ExportedNames
  <2> QED
    BY <2>2
<1>7. r.uuid \in Natives[r.kind]
  BY <1>1 DEF NamesOK
<1> HIDE DEF up, scoped
<1> QED
  BY <1>2, <1>4, <1>5, <1>6, <1>7 DEF ItemOK

\* An export names its items well.
LEMMA ExportNames ==
  ASSUME NamesInv, Export
  PROVE  NamesInv'
<1> DEFINE rows == HomeRows
<1>1. UNCHANGED db /\ file = NoFile
  BY DEF Export
<1>2. GoodDb(db) /\ NamesOK(db.rows) /\ db.serial = 8 /\ rows \in SUBSET db.rows
  BY <1>1 DEF NamesInv, FilesOK, FileNamed, HomeRows
<1>3. ASSUME NEW k \in Kinds, NEW i \in Range(file'.items[k])
      PROVE  \E r \in rows : r.kind = k /\ i = Item(rows, r)
  <2>1. Range(file'.items[k]) = ItemsOf(k)
    BY <1>2, ExportItems
  <2> QED
    BY <2>1 DEF ItemsOf
<1>4. ASSUME NEW k \in Kinds, NEW i \in Range(file'.items[k])
      PROVE  /\ ItemOK(k, i)
             /\ \A j \in Range(file'.items[k]) : j.uuid = i.uuid => j = i
             /\ k = "team" => \E r \in db.rows : r.kind = "team" /\ r.uuid = i.uuid
                                                /\ r.tenant = "home"
  <2>1. PICK r \in rows : r.kind = k /\ i = Item(rows, r)
    BY <1>3
  <2>2. ItemOK(k, i) /\ i.uuid = r.uuid
    BY <1>2, <2>1, ItemNamed
  <2>3. ASSUME NEW j \in Range(file'.items[k]), j.uuid = i.uuid
        PROVE  j = i
    <3>1. PICK q \in rows : q.kind = k /\ j = Item(rows, q)
      BY <1>3
    <3>2. j.uuid = q.uuid
      BY <1>2, <3>1, ItemNamed
    <3>3. r = q
      <4>1. Class(r) = Class(q) /\ r \in db.rows /\ q \in db.rows /\ r.uuid = q.uuid
        BY <1>2, <2>1, <2>2, <2>3, <3>1, <3>2 DEF Class
      <4> QED
        BY <1>2, <4>1 DEF GoodDb, IdsOK
    <3> QED
      BY <2>1, <3>1, <3>3
  <2>4. r \in db.rows /\ r.tenant = "home"
    BY DEF HomeRows
  <2> QED
    BY <2>1, <2>2, <2>3, <2>4
<1>5. GivenNames(file', db.rows)
  BY <1>4 DEF GivenNames
<1>6. FilesOK'
  BY ExportKeeps DEF NamesInv
<1>7. FileNamed(file', db)
  BY <1>2, <1>5 DEF FileNamed
<1> QED
  BY <1>1, <1>2, <1>6, <1>7 DEF NamesInv

\* The first records are named well.
LEMMA NamesStart ==
  ASSUME Init
  PROVE  NamesInv
<1>1. PICK up \in {0, 1}, in \in {1, 2},
           at \in {<<"global", 0>>, <<"group", 2>>, <<"monitor", 3>>, <<"monitor", 4>>} :
        \E rest \in IF up = 1 /\ in = 2 THEN {{}, {[Row("team", 8, "other", 0, 0) EXCEPT !.name = 6]}}
                   ELSE {{}} :
          /\ db.rows = FirstRows(up, in)
                         \union (IF rest = {} THEN {Row("team", 6, "home", 0, 0)} ELSE rest)
          /\ db.serial = 8
  BY DEF Init, FirstRows
<1> DEFINE other == [Row("team", 8, "other", 0, 0) EXCEPT !.name = 6]
           rows == FirstRows(up, in) \union {Row("team", 6, "home", 0, 0), other}
<1>2. db.rows \subseteq rows /\ db.serial = 8
  BY <1>1
<1>3. /\ other.kind = "team" /\ other.uuid = 8 /\ other.up = 0
      /\ \A kind, tenant, u, extra : \A id \in 1..7 :
           LET r == Row(kind, id, tenant, u, extra) IN
           r.kind = kind /\ r.uuid = id /\ r.up = u
  BY DEF Row
<1> HIDE DEF other
<1>4. NamesOK(rows)
  BY <1>3 DEF NamesOK, FirstRows, Natives
<1> HIDE DEF rows
<1>5. NamesOK(db.rows)
  BY <1>2, <1>4 DEF NamesOK
<1> QED
  BY <1>2, <1>5, FilesInit DEF NamesInv, FileNamed, Init

\* An import keeps the names.
LEMMA ImportNames ==
  ASSUME NamesInv, Import
  PROVE  NamesInv'
<1>1. PICK tenant \in Tenants, strategy \in Strategies, sections \in SectionSets :
        LET result == Imported(JobOf(tenant, strategy, sections)) IN
        /\ file # NoFile /\ file' = file
        /\ db' = IF result.failed THEN db ELSE result.db
  BY DEF Import, JobOf
<1> DEFINE job == JobOf(tenant, strategy, sections)
           result == Imported(job)
<1>2. /\ FilesOK /\ NamesOK(db.rows) /\ GivenNames(file, db.rows)
  BY <1>1 DEF NamesInv, FileNamed
<1>3. /\ GoodJob(job, db.serial, {0, 1}, FALSE)
      /\ GoodAcc(Start(job), job, db.serial, {0, 1}, FALSE)
      /\ GivenOK(file, job, db.serial, {0, 1})
  BY <1>1, <1>2, ImportAsked
<1>4. db' = db \/ db' = result.db
  BY <1>1
<1> HIDE DEF job
<1>5. NamesOK(result.db.rows) /\ Kept(db.rows, result.db.rows)
  BY <1>2, <1>3, ImportedNames
<1> HIDE DEF result
<1>6. NamesOK(db'.rows) /\ Kept(db.rows, db'.rows)
  BY <1>2, <1>4, <1>5 DEF Kept, Alike
<1>7. GivenNames(file', db'.rows)
  BY <1>1, <1>2, <1>6, GivenStays DEF Kept
<1> QED
  BY <1>1, <1>2, <1>6, <1>7, ImportKeeps DEF NamesInv, FileNamed

\* One record takes another one's place, and the tables keep their names.
LEMMA ReplacedNames ==
  ASSUME NamesInv, FilesOK', NEW r \in db.rows, NEW q, Alike(r, q),
         q.kind \in {"channel", "team", "action"} => q.up = r.up,
         db'.rows = (db.rows \ {r}) \union {q}, db'.serial = db.serial, UNCHANGED file
  PROVE  NamesInv'
<1>1. NamesOK(db.rows) /\ FileNamed(file, db)
  BY DEF NamesInv
<1>2. NamesOK({q})
  BY <1>1 DEF NamesOK, Alike
<1>3. NamesOK(db'.rows)
  BY <1>1, <1>2 DEF NamesOK
<1>4. \A p \in db.rows : \E x \in db'.rows : Alike(p, x)
  BY DEF Alike
<1>5. FileNamed(file', db')
  BY <1>1, <1>4, GivenStays DEF FileNamed
<1> QED
  BY <1>3, <1>5 DEF NamesInv

\* Edits of the tenant do.
LEMMA EditNames ==
  ASSUME NamesInv, Change \/ Move \/ Delete
  PROVE  NamesInv'
<1>1. db \in SomeDb /\ db.rows \in SUBSET SomeRow
  BY DEF NamesInv, FilesOK, GoodDb, SomeDb
<1>2. db = [rows |-> db.rows, closure |-> db.closure, settings |-> db.settings,
            owned |-> db.owned, serial |-> db.serial]
  BY <1>1 DEF SomeDb
<1>3. CASE Change
  <2>1. PICK r \in db.rows :
          /\ db' = [db EXCEPT !.rows = (@ \ {r}) \union
                      {[r EXCEPT !.data = 1, !.extra = IF r.kind = "group" THEN 1 ELSE @]}]
          /\ UNCHANGED file
    BY <1>3 DEF Change
  <2> DEFINE q == [r EXCEPT !.data = 1, !.extra = IF r.kind = "group" THEN 1 ELSE @]
  <2>2. Alike(r, q) /\ q.up = r.up
    BY <1>1 DEF SomeRow, Alike
  <2> HIDE DEF q
  <2>3. db'.rows = (db.rows \ {r}) \union {q} /\ db'.serial = db.serial
    BY <1>2, <2>1 DEF q
  <2>4. FilesOK'
    BY <1>3, ChangeKeeps DEF NamesInv
  <2> QED
    BY <2>1, <2>2, <2>3, <2>4, ReplacedNames
<1>4. CASE Move
  <2>1. PICK r \in db.rows :
          /\ r.kind = "group"
          /\ db' = [db EXCEPT !.rows = (@ \ {r}) \union {[r EXCEPT !.up = 1 - @]},
                      !.closure = IF r.up = 1 THEN @ \ {<<1, 2>>} ELSE @ \union {<<1, 2>>}]
          /\ UNCHANGED file
    BY <1>4 DEF Move
  <2> DEFINE q == [r EXCEPT !.up = 1 - @]
             closure == IF r.up = 1 THEN db.closure \ {<<1, 2>>} ELSE db.closure \union {<<1, 2>>}
  <2>2. Alike(r, q) /\ q.kind = "group"
    BY <1>1, <2>1 DEF SomeRow, Alike
  <2> HIDE DEF q, closure
  <2>3. db'.rows = (db.rows \ {r}) \union {q} /\ db'.serial = db.serial
    BY <1>2, <2>1 DEF q, closure
  <2>4. FilesOK'
    BY <1>4, MoveKeeps DEF NamesInv
  <2> QED
    BY <2>1, <2>2, <2>3, <2>4, ReplacedNames
<1>5. CASE Delete
  <2>1. PICK r \in db.rows :
          /\ r.kind \in {"monitor", "channel", "action"}
          /\ db' = [db EXCEPT !.rows = @ \ {r}, !.owned = {o \in @ : o.owner # r.id}]
          /\ UNCHANGED file
    BY <1>5 DEF Delete
  <2>2. db'.rows = db.rows \ {r} /\ db'.serial = db.serial
    BY <1>2, <2>1
  <2>3. FilesOK'
    BY <1>5, DeleteKeeps DEF NamesInv
  <2>4. NamesOK(db'.rows)
    BY <2>2 DEF NamesInv, NamesOK
  <2>5. \A p \in db.rows : p.kind = "team" => \E q \in db'.rows : Alike(p, q)
    BY <2>1, <2>2 DEF Alike
  <2>6. FileNamed(file', db')
    BY <2>1, <2>2, <2>5, GivenStays DEF NamesInv, FileNamed
  <2> QED
    BY <2>3, <2>4, <2>6 DEF NamesInv
<1> QED
  BY <1>3, <1>4, <1>5

\* Groups without a uuid have no name to keep.
LEMMA OmitNames ==
  ASSUME NamesInv, OmitUuids
  PROVE  NamesInv'
<1> DEFINE old == file.items["group"]
           new == [i \in DOMAIN old |-> [old[i] EXCEPT !.uuid = Anonymous]]
<1>1. /\ file # NoFile /\ UNCHANGED db /\ file' = [file EXCEPT !.items["group"] = new]
  BY DEF OmitUuids
<1>2. /\ file \in Files /\ GivenNames(file, db.rows) /\ NamesOK(db.rows)
      /\ old \in Seq(SomeItem) /\ "group" \in Kinds
  BY <1>1 DEF NamesInv, FilesOK, FileOK, FileNamed, Files, Kinds
<1> HIDE DEF new
<1>3. /\ file'.items["group"] = new
      /\ \A k \in Kinds : k # "group" => file'.items[k] = file.items[k]
  BY <1>1, <1>2 DEF Files
<1>4. ASSUME NEW i \in Range(new)
      PROVE  ItemOK("group", i) /\ i.uuid = Anonymous
  <2>1. PICK n \in DOMAIN old : i = [old[n] EXCEPT !.uuid = Anonymous]
    BY DEF Range, new
  <2>2. old[n] \in SomeItem /\ old[n] \in Range(old)
    BY <1>2 DEF Range
  <2>3. /\ i.uuid = Anonymous /\ i.up = old[n].up /\ i.scoped = old[n].scoped
    BY <2>1, <2>2 DEF SomeItem
  <2>4. ItemOK("group", old[n])
    BY <1>2, <2>2 DEF GivenNames
  <2> QED
    BY <2>3, <2>4 DEF ItemOK
<1>5. ASSUME NEW k \in Kinds, NEW i \in Range(file'.items[k])
      PROVE  /\ ItemOK(k, i)
             /\ \A j \in Range(file'.items[k]) : j.uuid = i.uuid /\ i.uuid # Anonymous => j = i
             /\ k = "team" => \E r \in db.rows : r.kind = "team" /\ r.uuid = i.uuid
                                                /\ r.tenant = "home"
  BY <1>2, <1>3, <1>4 DEF GivenNames
<1>6. GivenNames(file', db.rows)
  BY <1>5 DEF GivenNames
<1>7. FilesOK'
  BY OmitKeeps DEF NamesInv
<1>8. file' # NoFile
  BY OmitKeeps, NoFileAssumption DEF NamesInv
<1> QED
  BY <1>1, <1>2, <1>6, <1>7, <1>8 DEF NamesInv, FileNamed

\* In every state.
LEMMA NamesHold ==
  AdministrationSpec => []NamesInv
<1>1. AdministrationInit => Init
  BY DEF AdministrationInit
<1>2. [AdministrationNext]_administrationVars => [Next]_vars
  BY DEF AdministrationNext, administrationVars
<1>3. ASSUME NamesInv, [Next]_vars
      PROVE  NamesInv'
  <2>1. CASE UNCHANGED vars
    BY <1>3, <2>1 DEF vars, NamesInv, FilesOK
  <2> QED
    BY <1>3, <2>1, ExportNames, ImportNames, EditNames, OmitNames DEF Next
<1> QED
  BY <1>1, <1>2, <1>3, NamesStart, PTL DEF AdministrationSpec

-----------------------------------------------------------------------------
(***************************************************************************)
(* A full import with 'update' into the tenant of the export.              *)
(***************************************************************************)

\* The first two groups keep their ids.
LEMMA ResolveFirst ==
  ASSUME NEW job, NEW serial, NEW base, Asked(job, serial, base),
         NEW acc, Restoring(acc, job, serial, base), NEW up \in {0, 1, 2}
  PROVE  Resolve(acc.known, "group", up) = up
<1>1. /\ GoodAcc(acc, job, serial, {0, 1}, FALSE) /\ GoodJob(job, serial, {0, 1}, FALSE)
      /\ KnownHome(acc.known, acc.db.rows) /\ "group" \in Kinds
  BY DEF Restoring, Asked, Kinds
<1>2. /\ acc.db.rows \in SUBSET SomeRow /\ KnownNames(acc.known, acc.db.rows, job, serial)
      /\ IdsOK(acc.db.rows, acc.db.serial) /\ BuiltOK(acc.db.rows, acc.db.closure, acc.db.serial)
  BY <1>1 DEF GoodAcc, SomeDb, GoodDb
<1>3. CASE up = 0
  BY <1>1, <1>3, AnonymousIsNone
<1>4. CASE up # 0
  <2>1. PICK g \in acc.db.rows : /\ g.kind = "group" /\ g.id = up /\ g.uuid = up
                                 /\ g.tenant = "home"
    BY <1>2, <1>4 DEF BuiltOK
  <2>2. <<up, up>> \in acc.known["group"]
    BY <1>1, <2>1 DEF KnownHome, Class
  <2>3. \A p \in acc.known["group"] : p[1] = up => p[2] = up
    <3>1. SUFFICES ASSUME NEW p \in acc.known["group"], p[1] = up
                   PROVE  p[2] = up
      OBVIOUS
    <3>2. PICK r \in acc.db.rows : Class(r) = "group" /\ p = <<r.uuid, r.id>>
      BY <1>1 DEF KnownHome
    <3>3. r = g
      BY <1>2, <2>1, <3>1, <3>2 DEF IdsOK, Class
    <3> QED
      BY <2>1, <3>2, <3>3
  <2> QED
    BY <2>2, <2>3 DEF Resolve
<1> QED
  BY <1>3, <1>4

\* A team of the file is known.
LEMMA TeamKnown ==
  ASSUME NEW job, NEW serial, NEW base, Asked(job, serial, base),
         NEW acc, Restoring(acc, job, serial, base), NEW item \in Range(file.items["team"])
  PROVE  Resolve(acc.known, "team", item.uuid) # 0
<1>1. "team" \in Kinds
  BY DEF Kinds
<1>2. PICK r \in base : r.kind = "team" /\ r.uuid = item.uuid /\ r.tenant = "home"
  BY <1>1 DEF Asked, GivenNames
<1>3. PICK q \in acc.db.rows : Alike(r, q)
  BY DEF Restoring, Kept
<1>4. <<item.uuid, q.id>> \in acc.known["team"]
  <2>1. Class(q) = "team" /\ q.tenant = "home" /\ q.uuid = item.uuid
    BY <1>2, <1>3 DEF Class, Alike
  <2> QED
    BY <1>1, <2>1 DEF Restoring, KnownHome
<1>5. acc.db.rows \in SUBSET SomeRow /\ KnownNames(acc.known, acc.db.rows, job, serial)
  BY DEF Restoring, GoodAcc, SomeDb
<1>6. ASSUME NEW kind \in Kinds, NEW uuid, Resolve(acc.known, kind, uuid) = 0
      PROVE  \A p \in acc.known[kind] : p[1] # uuid
  <2>1. /\ Resolve(acc.known, kind, uuid) = 0 => \A p \in acc.known[kind] : p[1] # uuid
        /\ Resolve(acc.known, kind, uuid) # 0 =>
              \E w \in acc.db.rows : /\ w.id = Resolve(acc.known, kind, uuid)
                                      /\ Stands(w, kind, uuid, job, serial)
    BY <1>5, ResolveStands
  <2> QED
    BY <1>6, <2>1
<1> QED
  BY <1>1, <1>4, <1>6

\* Importing an item updates the record it stands for, or creates it.
LEMMA ItemPlaced ==
  ASSUME NEW job, NEW serial, NEW base, Asked(job, serial, base),
         NEW acc, Restoring(acc, job, serial, base),
         NEW kind \in Kinds, NEW item \in Range(file.items[kind])
  PROVE  LET acc2 == ImportItem(acc, job, kind, item) IN
         /\ \E row : Placed(acc, acc2, kind, item, row)
         /\ KnownHome(acc2.known, acc2.db.rows)
<1> DEFINE acc2 == ImportItem(acc, job, kind, item)
           decision == ResolveConflict(job, acc.known, kind, item.uuid)
<1> SUFFICES /\ \E row : Placed(acc, acc2, kind, item, row)
             /\ KnownHome(acc2.known, acc2.db.rows)
  OBVIOUS
<1>1. /\ GoodAcc(acc, job, serial, {0, 1}, FALSE) /\ GoodJob(job, serial, {0, 1}, FALSE)
      /\ KnownHome(acc.known, acc.db.rows) /\ NamesOK(acc.db.rows)
      /\ job.tenant = "home" /\ ItemOK(kind, item)
  BY DEF Restoring, Asked, GivenNames
<1>2. item \in Items(kind, serial, {0, 1})
  BY DEF Asked, Range
<1>3. item.uuid # Anonymous /\ item.uuid \notin job.foreign[kind]
  BY DEF Asked
<1>4. decision = "update" \/ (decision = "create" /\ Resolve(acc.known, kind, item.uuid) = 0)
  BY <1>3 DEF ResolveConflict, Asked
<1>5. /\ item.up \in {0, 1, 2} /\ (kind \notin {"group", "monitor"} => item.up = 0)
      /\ item.uuid \in Natives[kind]
  BY <1>1, <1>3 DEF ItemOK
<1>6. Resolve(acc.known, "group", item.up) = item.up
  BY <1>5, ResolveFirst
<1>7. CASE decision = "update"
  <2>1. PICK old, new : old.tenant = "home" /\ Overwrites(acc, acc2, kind, item, old, new)
    BY <1>1, <1>2, <1>7, UpdateShape
  <2> HIDE DEF acc2
  <2>2. /\ old \in acc.db.rows /\ new \in SomeRow /\ Alike(old, new) /\ Class(old) = kind
        /\ old.uuid = item.uuid /\ new.name = item.name /\ new.data = item.data
        /\ new.up = IF kind \in {"group", "monitor"} THEN Resolve(acc.known, "group", item.up)
                    ELSE old.up
        /\ acc2.db.rows = (acc.db.rows \ {old}) \union {new}
        /\ acc2.db.owned = Rebuilt(acc.db.owned, kind, new.id, Resolved(acc.known, item.scoped))
        /\ acc2.known = acc.known
    BY <2>1 DEF Overwrites
  <2>3. old.kind = kind
    <3>1. old.uuid <= 8
      BY <1>5, <2>2 DEF Natives, Kinds
    <3>2. old.uuid \in Natives[old.kind]
      BY <1>1, <2>2, <3>1 DEF NamesOK
    <3>3. CASE old.kind = "agent"
      BY <1>5, <2>2, <3>2, <3>3 DEF Natives, Class
    <3> QED
      BY <2>2, <3>3 DEF Class
  <2>4. new.up = item.up
    <3>1. kind \notin {"group", "monitor"} => old.up = 0
      BY <1>1, <2>2, <2>3 DEF NamesOK, Kinds
    <3> QED
      BY <1>5, <1>6, <2>2, <3>1
  <2>5. Placed(acc, acc2, kind, item, new)
    <3>1. Shows(new, kind, item)
      BY <2>1, <2>2, <2>3, <2>4 DEF Shows, Alike
    <3> QED
      BY <2>1, <2>2, <2>3, <3>1 DEF Placed
  <2>6. KnownHome(acc2.known, acc2.db.rows)
    <3>1. Class(new) = Class(old) /\ new.tenant = old.tenant
          /\ <<new.uuid, new.id>> = <<old.uuid, old.id>>
      BY <2>2 DEF Alike, Class
    <3> QED
      BY <1>1, <2>2, <3>1 DEF KnownHome
  <2> QED
    BY <2>5, <2>6
<1>8. CASE decision = "create" /\ Resolve(acc.known, kind, item.uuid) = 0
  <2>1. kind # "team"
    BY <1>8, TeamKnown
  <2>2. \E row : Inserts(acc, acc2, job, kind, item, FALSE, row)
    BY <1>1, <1>2, <1>8, <2>1, CreateShape
  <2> HIDE DEF acc2
  <2>3. PICK row : Inserts(acc, acc2, job, kind, item, FALSE, row)
    BY <2>2
  <2>4. /\ row \in SomeRow /\ row.kind = kind /\ row.tenant = "home" /\ row.uuid = item.uuid
        /\ row.name = item.name /\ row.data = item.data /\ row.up = item.up
        /\ acc2.db.rows = acc.db.rows \union {row}
        /\ acc2.db.owned = Rebuilt(acc.db.owned, kind, row.id, Resolved(acc.known, item.scoped))
        /\ acc2.known = [acc.known EXCEPT ![kind] = NewPairs(@, item, row)]
    BY <1>1, <1>6, <2>3 DEF Inserts, NewKnown
  <2>5. acc.known \in [Kinds -> SUBSET (Nat \X Nat)]
    BY <1>1 DEF GoodAcc
  <2>6. /\ acc2.known[kind] = NewPairs(acc.known[kind], item, row)
        /\ \A k \in Kinds : k # kind => acc2.known[k] = acc.known[k]
    BY <2>4, <2>5
  <2>7. Placed(acc, acc2, kind, item, row)
    BY <2>4, <2>6 DEF Placed, Shows
  <2>8. \A p : p \in acc2.known[kind] <=> p \in acc.known[kind] \/ p = <<row.uuid, row.id>>
    <3>1. acc.db.rows \in SUBSET SomeRow /\ KnownNames(acc.known, acc.db.rows, job, serial)
      BY <1>1 DEF GoodAcc, SomeDb
    <3>2. \A p \in acc.known[kind] : p[1] # item.uuid
      BY <1>8, <3>1, ResolveStands
    <3> QED
      BY <1>3, <2>4, <2>6, <3>2 DEF NewPairs
  <2>9. KnownHome(acc2.known, acc2.db.rows)
    <3>1. Class(row) = kind
      BY <2>4 DEF Class, Kinds
    <3>2. ASSUME NEW k \in Kinds, NEW p
          PROVE  p \in acc2.known[k] <=> \E r \in acc2.db.rows : /\ Class(r) = k
                                            /\ r.tenant = "home" /\ p = <<r.uuid, r.id>>
      BY <1>1, <2>4, <2>6, <2>8, <3>1 DEF KnownHome
    <3> QED
      BY <3>2 DEF KnownHome
  <2> QED
    BY <2>7, <2>9
<1> QED
  BY <1>4, <1>7, <1>8

\* Which keeps what imports keep.
LEMMA ItemRestores ==
  ASSUME NEW job, NEW serial, NEW base, Asked(job, serial, base),
         NEW acc, Restoring(acc, job, serial, base),
         NEW kind \in Kinds, NEW item \in Range(file.items[kind])
  PROVE  Restoring(ImportItem(acc, job, kind, item), job, serial, base)
<1> DEFINE acc2 == ImportItem(acc, job, kind, item)
<1>1. /\ GoodAcc(acc, job, serial, {0, 1}, FALSE) /\ GoodJob(job, serial, {0, 1}, FALSE)
      /\ NamesOK(acc.db.rows) /\ Kept(base, acc.db.rows) /\ Untouched(base, acc.db.rows)
      /\ ItemOK(kind, item)
  BY DEF Restoring, Asked, GivenNames
<1>2. item \in Items(kind, serial, {0, 1})
  BY DEF Asked, Range
<1>3. GoodAcc(acc2, job, serial, {0, 1}, FALSE)
  BY <1>1, <1>2, ItemStays
<1>4. NamesOK(acc2.db.rows) /\ Kept(base, acc2.db.rows)
  BY <1>1, <1>2, ItemNames
<1>5. KnownHome(acc2.known, acc2.db.rows) /\ \E row : Placed(acc, acc2, kind, item, row)
  BY ItemPlaced
<1> HIDE DEF acc2
<1>6. PICK row : Placed(acc, acc2, kind, item, row)
  BY <1>5
<1>7. Untouched(base, acc2.db.rows)
  <2>1. SUFFICES ASSUME NEW r, Beside(r)
                 PROVE  r \in base <=> r \in acc2.db.rows
    BY DEF Untouched
  <2>2. r \in base <=> r \in acc.db.rows
    BY <1>1, <2>1 DEF Untouched
  <2>3. ~(r.kind = kind /\ r.uuid = item.uuid)
    BY <2>1 DEF Beside
  <2>4. r # row
    BY <1>6, <2>3 DEF Placed, Shows
  <2> QED
    BY <1>6, <2>2, <2>3, <2>4 DEF Placed
<1> QED
  BY <1>3, <1>4, <1>5, <1>7 DEF Restoring, acc2

-----------------------------------------------------------------------------
(***************************************************************************)
(* An item that is shown stays shown.                                      *)
(***************************************************************************)

\* What is pointed at depends on the groups and the monitors only.
LEMMA ResolvedSame ==
  ASSUME NEW known, NEW known2, known["group"] = known2["group"],
         known["monitor"] = known2["monitor"], NEW scoped, \A s \in scoped : RefOK(s)
  PROVE  Resolved(known, scoped) = Resolved(known2, scoped)
<1> DEFINE Target(k, s) == Scoped(s.scope, IF s.scope = "global" THEN 0
                                       ELSE Resolve(k, s.scope, s.ref), s.value)
<1>1. ASSUME NEW s \in scoped
      PROVE  Target(known, s) = Target(known2, s)
  <2>1. CASE s.scope = "global"
    BY <2>1
  <2>2. CASE s.scope # "global"
    <3>1. s.scope \in {"group", "monitor"}
      BY <2>2 DEF RefOK
    <3>2. known[s.scope] = known2[s.scope]
      BY <3>1
    <3>3. Resolve(known, s.scope, s.ref) = Resolve(known2, s.scope, s.ref)
      BY <3>2 DEF Resolve
    <3> QED
      BY <3>3
  <2> QED
    BY <2>1, <2>2
<1>2. /\ Resolved(known, scoped) = {x \in {Target(known, s) : s \in scoped} :
                                      x.scope = "global" \/ x.ref # 0}
      /\ Resolved(known2, scoped) = {x \in {Target(known2, s) : s \in scoped} :
                                       x.scope = "global" \/ x.ref # 0}
  BY DEF Resolved
<1> HIDE DEF At
<1>3. {Target(known, s) : s \in scoped} = {Target(known2, s) : s \in scoped}
  BY <1>1
<1> QED
  BY <1>2, <1>3

\* An item is shown once it is placed.
LEMMA ShownNow ==
  ASSUME NEW acc, NEW acc2, NEW kind \in Kinds, NEW item, \A s \in item.scoped : RefOK(s),
         NEW row, Placed(acc, acc2, kind, item, row)
  PROVE  Shown(acc2, kind, item)
<1>1. row \in acc2.db.rows /\ Shows(row, kind, item)
  BY DEF Placed
<1>2. ASSUME kind \in {"channel", "team"}
      PROVE  Owns(acc2, row, item)
  <2> DEFINE new == Resolved(acc.known, item.scoped)
  <2>1. Resolved(acc2.known, item.scoped) = new
    <3>1. acc.known["group"] = acc2.known["group"] /\ acc.known["monitor"] = acc2.known["monitor"]
      BY <1>2 DEF Placed, Kinds
    <3> QED
      BY <3>1, ResolvedSame
  <2> HIDE DEF new
  <2>2. acc2.db.owned = {o \in acc.db.owned : o.owner # row.id}
                          \union {Owned(row.id, s.scope, s.ref, s.value) : s \in new}
    BY <1>2 DEF Placed, Rebuilt, new
  <2>3. ASSUME NEW o, o.owner = row.id
        PROVE  o \in acc2.db.owned <=>
                 \E x \in new : o = Owned(row.id, x.scope, x.ref, x.value)
    BY <2>2, <2>3
  <2> QED
    BY <2>1, <2>3 DEF Owns
<1> QED
  BY <1>1, <1>2 DEF Shown

\* An item that was shown is shown when another one has been placed.
LEMMA ShownStays ==
  ASSUME NEW job, NEW serial, NEW base, Asked(job, serial, base),
         NEW acc, Restoring(acc, job, serial, base), NEW acc2, Restoring(acc2, job, serial, base),
         NEW kind \in Kinds, NEW item \in Range(file.items[kind]),
         NEW row, Placed(acc, acc2, kind, item, row),
         NEW k \in Kinds, NEW i \in Range(file.items[k]), After(k, kind), Shown(acc, k, i)
  PROVE  Shown(acc2, k, i)
<1>1. /\ \A s \in item.scoped : RefOK(s)
      /\ \A s \in i.scoped : RefOK(s)
      /\ k = kind /\ i.uuid = item.uuid => i = item
  BY DEF Asked, GivenNames, ItemOK
<1>2. CASE k = kind /\ i.uuid = item.uuid
  BY <1>1, <1>2, ShownNow
<1>3. CASE ~(k = kind /\ i.uuid = item.uuid)
  <2>1. PICK r \in acc.db.rows : Shows(r, k, i) /\ (k \in {"channel", "team"} => Owns(acc, r, i))
    BY DEF Shown
  <2>2. ~(r.kind = kind /\ r.uuid = item.uuid)
    BY <1>3, <2>1 DEF Shows
  <2>3. r \in acc2.db.rows /\ r # row /\ row \in acc2.db.rows
    BY <2>2 DEF Placed, Shows
  <2>4. r.id # row.id
    BY <2>3 DEF Restoring, GoodAcc, GoodDb, IdsOK
  <2>5. ASSUME k \in {"channel", "team"}
        PROVE  Owns(acc2, r, i)
    <3>1. Resolved(acc2.known, i.scoped) = Resolved(acc.known, i.scoped)
      <4>1. /\ acc.known["group"] = acc2.known["group"]
            /\ acc.known["monitor"] = acc2.known["monitor"]
        BY <2>5 DEF Placed, After, Kinds
      <4> QED
        BY <1>1, <4>1, ResolvedSame
    <3>2. ASSUME NEW o, o.owner = r.id
          PROVE  o \in acc2.db.owned <=> o \in acc.db.owned
      <4>1. acc2.db.owned = Rebuilt(acc.db.owned, kind, row.id, Resolved(acc.known, item.scoped))
        BY DEF Placed
      <4> QED
        BY <2>4, <3>2, <4>1, RebuiltElsewhere
    <3> QED
      BY <2>1, <2>5, <3>1, <3>2 DEF Owns
  <2> QED
    BY <2>1, <2>3, <2>5 DEF Shown
<1> QED
  BY <1>2, <1>3

\* A section shows its items, and hides none of the sections before.
LEMMA SectionRestores ==
  ASSUME NEW job, NEW serial, NEW base, Asked(job, serial, base),
         NEW acc, Restoring(acc, job, serial, base),
         NEW kinds \in SUBSET Kinds, AllShown(acc, kinds),
         NEW kind \in Kinds, \A k \in kinds : After(k, kind)
  PROVE  /\ Restoring(ImportSection(acc, job, kind), job, serial, base)
         /\ AllShown(ImportSection(acc, job, kind), kinds \union {kind})
<1> DEFINE SomeAcc == [db : SomeDb, known : [Kinds -> SUBSET (Nat \X Nat)], failed : BOOLEAN]
           given == file.items[kind]
           X == Range(given)
           items == IF kind = "group" THEN TopoSort(given) ELSE given
           V == {a \in SomeAcc : Restoring(a, job, serial, base)}
           Until(a, m) == AllShown(a, kinds) /\ \A n \in 1..m : Shown(a, kind, items[n])
           W == [m \in 0..Len(items) |-> {a \in V : Until(a, m)}]
<1>1. given \in Seq(X)
  <2>1. given \in Seq(Items(kind, serial, {0, 1}))
    BY DEF Asked
  <2> QED
    BY <2>1 DEF Range
<1>2. \A a : a \in V <=> Restoring(a, job, serial, base)
  BY DEF Restoring, GoodAcc
<1>3. \A x, y \in X : x.uuid = y.uuid => x = y
  BY DEF Asked, GivenNames
<1>4. /\ items \in Seq(X)
      /\ \A x \in X : \E n \in DOMAIN items : items[n] = x
  <2>1. CASE kind = "group"
    <3>1. /\ TopoSort(given) \in Seq(X)
          /\ \A n \in DOMAIN TopoSort(given) : TopoSort(given)[n] \in X
          /\ \A x \in X : \E n \in DOMAIN TopoSort(given) : TopoSort(given)[n].uuid = x.uuid
      BY <1>1, SortStays
    <3>2. items = TopoSort(given)
      BY <2>1
    <3> HIDE DEF items, X
    <3> QED
      BY <1>3, <3>1, <3>2
  <2>2. CASE kind # "group"
    BY <1>1, <2>2 DEF Range
  <2> QED
    BY <2>1, <2>2
<1>5. ImportSection(acc, job, kind) = ImportItems(acc, job, kind, items)
  <2>1. kind \in job.sections
    BY DEF Asked, Sections
  <2> QED
    BY <2>1 DEF ImportSection
<1>6. \A x \in X : x \in Range(file.items[kind])
  OBVIOUS
<1> HIDE DEF V, X, items, given
<1>7. ImportsStay(V, job, kind, X)
  BY <1>2, <1>6, ItemRestores DEF ImportsStay
<1>8. Len(items) \in Nat /\ DOMAIN items = 1..Len(items)
  BY <1>4
<1>9. ASSUME NEW m \in 1..Len(items), NEW a \in V, Until(a, m - 1)
      PROVE  Until(ImportItem(a, job, kind, items[m]), m)
  <2> DEFINE item == items[m]
             a2 == ImportItem(a, job, kind, item)
  <2>1. item \in Range(file.items[kind])
    BY <1>4, <1>6, <1>8
  <2>2. Restoring(a, job, serial, base)
    BY <1>2
  <2> HIDE DEF item
  <2>3. Restoring(a2, job, serial, base) /\ \E row : Placed(a, a2, kind, item, row)
    BY <2>1, <2>2, ItemRestores, ItemPlaced
  <2> HIDE DEF a2
  <2>4. PICK row : Placed(a, a2, kind, item, row)
    BY <2>3
  <2>5. ASSUME NEW k \in Kinds, NEW i \in Range(file.items[k]), After(k, kind), Shown(a, k, i)
        PROVE  Shown(a2, k, i)
    BY <2>1, <2>2, <2>3, <2>4, <2>5, ShownStays
  <2>6. Shown(a2, kind, item)
    <3>1. \A s \in item.scoped : RefOK(s)
      BY <2>1 DEF Asked, GivenNames, ItemOK
    <3> QED
      BY <2>4, <3>1, ShownNow
  <2>7. AllShown(a2, kinds)
    BY <1>9, <2>5 DEF AllShown
  <2>8. ASSUME NEW n \in 1..m
        PROVE  Shown(a2, kind, items[n])
    <3>1. CASE n = m
      BY <2>6, <3>1 DEF item
    <3>2. CASE n # m
      <4>1. n \in 1..(m - 1) /\ n \in DOMAIN items
        BY <1>8, <3>2
      <4>2. Shown(a, kind, items[n])
        BY <1>9, <4>1
      <4>3. items[n] \in Range(file.items[kind])
        BY <1>4, <1>6, <4>1
      <4>4. After(kind, kind)
        BY DEF After
      <4> QED
        BY <2>5, <4>2, <4>3, <4>4
    <3> QED
      BY <3>1, <3>2
  <2> QED
    BY <2>7, <2>8 DEF a2, item
<1>10. ImportsClimb(W, V, acc, job, kind, items)
  <2>1. acc \in W[0]
    <3>1. Until(acc, 0) /\ acc \in V
      BY <1>2
    <3> HIDE DEF Until
    <3> QED
      BY <1>8, <3>1
  <2>2. \A m \in 0..Len(items) : W[m] \in SUBSET V
    OBVIOUS
  <2>3. ASSUME NEW m \in 1..Len(items), NEW a \in W[m - 1]
        PROVE  ImportItem(a, job, kind, items[m]) \in W[m]
    <3>1. m - 1 \in 0..Len(items) /\ m \in 0..Len(items)
      BY <1>8
    <3> HIDE DEF Until
    <3>2. a \in V /\ Until(a, m - 1)
      BY <2>3, <3>1
    <3>3. Until(ImportItem(a, job, kind, items[m]), m)
      BY <1>9, <3>2
    <3>4. ImportItem(a, job, kind, items[m]) \in V
      <4>1. items[m] \in X
        BY <1>4, <1>8
      <4> QED
        BY <1>7, <3>2, <4>1 DEF ImportsStay
    <3> QED
      BY <3>1, <3>3, <3>4
  <2> HIDE DEF W
  <2> QED
    BY <2>1, <2>2, <2>3 DEF ImportsClimb
<1> DEFINE end == ImportItems(acc, job, kind, items)
<1>11. end \in W[Len(items)]
  <2> HIDE DEF W
  <2> QED
    BY <1>4, <1>7, <1>10, ItemsClimb
<1>12. end \in V /\ Until(end, Len(items))
  <2> HIDE DEF Until, end
  <2> QED
    BY <1>8, <1>11
<1> HIDE DEF end
<1>13. AllShown(end, kinds \union {kind})
  <2>1. ASSUME NEW i \in Range(file.items[kind])
        PROVE  Shown(end, kind, i)
    <3>1. i \in X
      BY DEF X, given
    <3>2. PICK n \in DOMAIN items : items[n] = i
      BY <1>4, <3>1
    <3> QED
      BY <1>8, <1>12, <3>2
  <2> QED
    BY <1>12, <2>1 DEF AllShown
<1> QED
  BY <1>2, <1>5, <1>12, <1>13 DEF end

\* The sections one after the other, and the bindings last.
LEMMA ImportedRestores ==
  ASSUME NEW job, NEW serial, Asked(job, serial, db.rows), GivenOK(file, job, serial, {0, 1}),
         Restoring(Start(job), job, serial, db.rows)
  PROVE  /\ Restoring(Imported(job), job, serial, db.rows)
         /\ AllShown(Imported(job), Kinds)
<1> DEFINE groups   == ImportSection(Start(job), job, "group")
           monitors == ImportSection(groups, job, "monitor")
           channels == ImportSection(monitors, job, "channel")
           teams    == ImportSection(channels, job, "team")
           actions  == ImportSection(teams, job, "action")
           settings == ImportSettings(actions, job)
           end == ImportRemedies(settings, job)
           Fine(a) == Restoring(a, job, serial, db.rows)
<1>1. Imported(job) = end
  BY DEF Imported
<1>2. ASSUME NEW a, Fine(a), NEW kinds \in SUBSET Kinds, AllShown(a, kinds),
             NEW kind \in Kinds, \A k \in kinds : After(k, kind)
      PROVE  Fine(ImportSection(a, job, kind)) /\ AllShown(ImportSection(a, job, kind), kinds \union {kind})
  BY <1>2, SectionRestores
<1>3. Fine(Start(job)) /\ AllShown(Start(job), {})
  BY DEF AllShown
<1> HIDE DEF Fine
<1>4. Fine(groups) /\ AllShown(groups, {"group"})
  <2>1. {} \in SUBSET Kinds /\ "group" \in Kinds /\ {} \union {"group"} = {"group"}
        /\ \A k \in {} : After(k, "group")
    BY DEF Kinds
  <2> QED
    BY <1>2, <1>3, <2>1
<1> HIDE DEF groups
<1>5. Fine(monitors) /\ AllShown(monitors, {"group", "monitor"})
  <2>1. /\ {"group"} \in SUBSET Kinds /\ "monitor" \in Kinds
        /\ {"group"} \union {"monitor"} = {"group", "monitor"}
        /\ \A k \in {"group"} : After(k, "monitor")
    BY DEF Kinds, After
  <2> QED
    BY <1>2, <1>4, <2>1
<1> HIDE DEF monitors
<1>6. Fine(channels) /\ AllShown(channels, {"group", "monitor", "channel"})
  <2>1. /\ {"group", "monitor"} \in SUBSET Kinds /\ "channel" \in Kinds
        /\ {"group", "monitor"} \union {"channel"} = {"group", "monitor", "channel"}
        /\ \A k \in {"group", "monitor"} : After(k, "channel")
    BY DEF Kinds, After
  <2> QED
    BY <1>2, <1>5, <2>1
<1> HIDE DEF channels
<1>7. Fine(teams) /\ AllShown(teams, {"group", "monitor", "channel", "team"})
  <2>1. /\ {"group", "monitor", "channel"} \in SUBSET Kinds /\ "team" \in Kinds
        /\ {"group", "monitor", "channel"} \union {"team"} = {"group", "monitor", "channel", "team"}
        /\ \A k \in {"group", "monitor", "channel"} : After(k, "team")
    BY DEF Kinds, After
  <2> QED
    BY <1>2, <1>6, <2>1
<1> HIDE DEF teams
<1>8. Fine(actions) /\ AllShown(actions, Kinds)
  <2>1. /\ {"group", "monitor", "channel", "team"} \in SUBSET Kinds /\ "action" \in Kinds
        /\ {"group", "monitor", "channel", "team"} \union {"action"} = Kinds
        /\ \A k \in {"group", "monitor", "channel", "team"} : After(k, "action")
    BY DEF Kinds, After
  <2> QED
    BY <1>2, <1>7, <2>1
<1> HIDE DEF actions
<1>9. /\ GoodJob(job, serial, {0, 1}, FALSE)
      /\ GoodAcc(actions, job, serial, {0, 1}, FALSE) /\ Restoring(actions, job, serial, db.rows)
  BY <1>8 DEF Fine, Restoring, Asked
<1>10. /\ GoodAcc(settings, job, serial, {0, 1}, FALSE)
       /\ settings.db.rows = actions.db.rows /\ settings.known = actions.known
  <2>1. GoodAcc(settings, job, serial, {0, 1}, FALSE)
    BY <1>9, SettingsStay DEF GivenOK
  <2>2. settings.db.rows = actions.db.rows /\ settings.known = actions.known
    <3>1. ASSUME NEW a, NEW ups, NEW tree, GoodAcc(a, job, serial, ups, tree)
          PROVE  ImportSettings(a, job).db.rows = a.db.rows
                 /\ ImportSettings(a, job).known = a.known
      BY <3>1, BindingsKeepRows
    <3> QED
      BY <1>9, <3>1
  <2> QED
    BY <2>1, <2>2
<1>11. Left(actions.db.rows, actions.db.owned, settings.db)
  <2>1. actions.db.rows \in SUBSET actions.db.rows
        /\ Left(actions.db.rows, actions.db.owned, actions.db)
    BY DEF Left
  <2> QED
    BY <1>9, <2>1, BindingsLeave
<1> HIDE DEF settings
<1>12. /\ GoodAcc(end, job, serial, {0, 1}, FALSE)
       /\ end.db.rows = actions.db.rows /\ end.known = actions.known
  <2>1. GoodAcc(end, job, serial, {0, 1}, FALSE)
    BY <1>9, <1>10, RemediesStay DEF GivenOK
  <2>2. end.db.rows = settings.db.rows /\ end.known = settings.known
    <3>1. ASSUME NEW a, NEW ups, NEW tree, GoodAcc(a, job, serial, ups, tree)
          PROVE  ImportRemedies(a, job).db.rows = a.db.rows
                 /\ ImportRemedies(a, job).known = a.known
      BY <3>1, BindingsKeepRows
    <3> QED
      BY <1>10, <3>1
  <2> QED
    BY <1>10, <2>1, <2>2
<1>13. Left(actions.db.rows, actions.db.owned, end.db)
  BY <1>9, <1>10, <1>11, BindingsLeave
<1> HIDE DEF end
<1>14. Restoring(end, job, serial, db.rows)
  BY <1>9, <1>12 DEF Restoring
<1>15. AllShown(end, Kinds)
  <2>1. SUFFICES ASSUME NEW k \in Kinds, NEW i \in Range(file.items[k])
                 PROVE  Shown(end, k, i)
    BY DEF AllShown
  <2>2. PICK r \in actions.db.rows : Shows(r, k, i) /\ (k \in {"channel", "team"} => Owns(actions, r, i))
    BY <1>8 DEF AllShown, Shown
  <2>3. k \in {"channel", "team"} => Owns(end, r, i)
    BY <1>12, <1>13, <2>2 DEF Owns, Left, Shows
  <2> QED
    BY <1>12, <2>2, <2>3 DEF Shown
<1> QED
  BY <1>1, <1>14, <1>15

\* An id and a uuid name the same record.
LEMMA UuidOfHome ==
  ASSUME NEW d, GoodDb(d), NEW rows, rows = Records(d, "home"),
         NEW place \in Kinds, NEW r \in rows, Class(r) = place
  PROVE  UuidAt(rows, place, r.id) = r.uuid
<1>1. rows \in SUBSET SomeRow /\ IdsOK(d.rows, d.serial) /\ rows \subseteq d.rows
  BY DEF GoodDb, SomeDb, Records
<1>2. PICK q \in rows : q.id = r.id /\ q.uuid = UuidAt(rows, place, r.id)
  BY <1>1, UuidOfRow
<1>3. q = r
  BY <1>1, <1>2 DEF IdsOK
<1> QED
  BY <1>2, <1>3

\* A parent has the uuid that the file gives.
LEMMA ParentBack ==
  ASSUME NEW d, GoodDb(d), NEW up \in {0, 1, 2}
  PROVE  UuidAt(Records(d, "home"), "group", up) = up
<1> DEFINE rows == Records(d, "home")
<1>1. rows \in SUBSET SomeRow /\ "group" \in Kinds /\ rows \subseteq d.rows
  BY DEF GoodDb, SomeDb, Records, Kinds
<1>2. CASE up = 0
  <2>1. \A r \in rows : r.id # 0
    BY <1>1 DEF SomeRow
  <2> QED
    BY <1>1, <1>2, <2>1, UuidOfRow
<1>3. CASE up # 0
  <2>1. PICK g \in d.rows : g.kind = "group" /\ g.id = up /\ g.uuid = up /\ g.tenant = "home"
    BY <1>3 DEF GoodDb, BuiltOK
  <2>2. g \in rows /\ Class(g) = "group"
    BY <2>1 DEF Records, Class
  <2> QED
    BY <1>1, <2>1, <2>2, UuidOfHome
<1> QED
  BY <1>2, <1>3

\* What a reference of the file resolves to, and that an export of it gives it back.
LEMMA ReferenceBack ==
  ASSUME NEW d, GoodDb(d), NamesOK(d.rows), NEW known, KnownHome(known, d.rows),
         NEW s \in SomeScoped, RefOK(s), s.scope # "global"
  PROVE  LET rows == Records(d, "home")
             id == Resolve(known, s.scope, s.ref)
         IN IF \E q \in rows : q.uuid = s.ref
            THEN \E q \in rows : q.id = id /\ id # 0 /\ UuidAt(rows, s.scope, id) = s.ref
            ELSE id = 0
<1> DEFINE rows == Records(d, "home")
           id == Resolve(known, s.scope, s.ref)
<1> SUFFICES IF \E q \in rows : q.uuid = s.ref
             THEN \E q \in rows : q.id = id /\ id # 0 /\ UuidAt(rows, s.scope, id) = s.ref
             ELSE id = 0
  OBVIOUS
<1>1. /\ s.scope \in Kinds /\ s.scope \in {"group", "monitor"}
      /\ s.scope = "group" => s.ref \in {1, 2}
      /\ s.scope = "monitor" => s.ref \in {3, 4}
  BY DEF RefOK, Kinds
<1>2. d.rows \in SUBSET SomeRow /\ IdsOK(d.rows, d.serial)
  BY DEF GoodDb, SomeDb
<1>3. \A q \in rows : q \in d.rows /\ q.tenant = "home"
  BY DEF Records
<1>4. ASSUME NEW q \in rows, q.uuid = s.ref
      PROVE  Class(q) = s.scope
  <2>1. q.uuid \in Natives[q.kind] /\ q.kind \in Kinds \union {"agent"}
    BY <1>1, <1>2, <1>3, <1>4 DEF NamesOK, SomeRow
  <2> QED
    BY <1>1, <1>4, <2>1 DEF Natives, Class, Kinds
<1>5. \A p \in known[s.scope] : p[1] = s.ref =>
        \E q \in rows : Class(q) = s.scope /\ q.uuid = s.ref /\ q.id = p[2]
  <2>1. SUFFICES ASSUME NEW p \in known[s.scope], p[1] = s.ref
                 PROVE  \E q \in rows : Class(q) = s.scope /\ q.uuid = s.ref /\ q.id = p[2]
    OBVIOUS
  <2>2. PICK q \in d.rows : Class(q) = s.scope /\ q.tenant = "home" /\ p = <<q.uuid, q.id>>
    BY <1>1, <2>1 DEF KnownHome
  <2>3. q \in rows
    BY <2>2 DEF Records
  <2> QED
    BY <2>1, <2>2, <2>3
<1>6. CASE \E q \in rows : q.uuid = s.ref
  <2>1. PICK q \in rows : q.uuid = s.ref
    BY <1>6
  <2>2. <<s.ref, q.id>> \in known[s.scope]
    BY <1>1, <1>3, <1>4, <2>1 DEF KnownHome
  <2>3. PICK p \in known[s.scope] : p[1] = s.ref /\ p[2] = id
    BY <2>2 DEF Resolve
  <2>4. PICK w \in rows : Class(w) = s.scope /\ w.uuid = s.ref /\ w.id = id
    BY <1>5, <2>3
  <2>5. id # 0
    BY <1>2, <1>3, <2>4 DEF SomeRow
  <2>6. UuidAt(rows, s.scope, id) = s.ref
    BY <1>1, <2>4, UuidOfHome
  <2> QED
    BY <1>6, <2>4, <2>5, <2>6
<1>7. CASE ~\E q \in rows : q.uuid = s.ref
  <2>1. id = 0
    BY <1>5, <1>7 DEF Resolve
  <2> QED
    BY <1>7, <2>1
<1> QED
  BY <1>6, <1>7

\* What a channel or a team owns is exported as the file has it.
LEMMA OwnedBack ==
  ASSUME NEW a, GoodDb(a.db), NamesOK(a.db.rows), KnownHome(a.known, a.db.rows),
         NEW r, NEW i, i.scoped \in SUBSET SomeScoped, \A s \in i.scoped : RefOK(s),
         Owns(a, r, i)
  PROVE  LET rows == Records(a.db, "home") IN
         Exported(rows, {o \in a.db.owned : o.owner = r.id}) =
           {s \in i.scoped : s.scope = "global" \/ \E q \in rows : q.uuid = s.ref}
<1> DEFINE rows == Records(a.db, "home")
           mine == {o \in a.db.owned : o.owner = r.id}
           Sent(o) == Scoped(o.scope, IF o.scope = "global" THEN 0
                                      ELSE UuidAt(rows, o.scope, o.ref), o.value)
           Targeted(s) == Scoped(s.scope, IF s.scope = "global" THEN 0
                                       ELSE Resolve(a.known, s.scope, s.ref), s.value)
           Bound(x) == Owned(r.id, x.scope, x.ref, x.value)
           There(s) == s.scope = "global" \/ \E q \in rows : q.uuid = s.ref
           Points(x) == x.scope = "global" \/ x.ref # 0
<1>1. ASSUME NEW s \in i.scoped
      PROVE  /\ Points(Targeted(s)) <=> There(s)
             /\ There(s) => Sent(Bound(Targeted(s))) = s /\ Points(s)
  <2>1. s \in SomeScoped /\ RefOK(s)
    OBVIOUS
  <2>2. /\ Targeted(s).scope = s.scope /\ Targeted(s).value = s.value
        /\ Targeted(s).ref = IF s.scope = "global" THEN 0 ELSE Resolve(a.known, s.scope, s.ref)
        /\ Bound(Targeted(s)).scope = Targeted(s).scope /\ Bound(Targeted(s)).ref = Targeted(s).ref
        /\ Bound(Targeted(s)).value = Targeted(s).value
    BY DEF Scoped, Owned
  <2>3. s = Scoped(s.scope, s.ref, s.value)
    BY <2>1 DEF SomeScoped, Scoped
  <2>4. CASE s.scope = "global"
    BY <2>1, <2>2, <2>3, <2>4 DEF RefOK
  <2>5. CASE s.scope # "global"
    <3> DEFINE id == Resolve(a.known, s.scope, s.ref)
    <3>1. IF \E q \in rows : q.uuid = s.ref
          THEN \E q \in rows : q.id = id /\ id # 0 /\ UuidAt(rows, s.scope, id) = s.ref
          ELSE id = 0
      BY <2>1, <2>5, ReferenceBack
    <3>2. s.ref # 0
      BY <2>1, <2>5 DEF RefOK
    <3> HIDE DEF rows
    <3> QED
      BY <2>2, <2>3, <2>5, <3>1, <3>2
  <2> QED
    BY <2>4, <2>5
<1>2. \A x : x \in Resolved(a.known, i.scoped) <=>
        \E s \in i.scoped : x = Targeted(s) /\ Points(x)
  <2>1. Resolved(a.known, i.scoped) = {x \in {Targeted(s) : s \in i.scoped} : Points(x)}
    BY DEF Resolved
  <2> HIDE DEF Targeted, Points
  <2> QED
    BY <2>1
<1>3. \A o : o \in mine <=> \E x \in Resolved(a.known, i.scoped) : o = Bound(x)
  <2>1. \A x : Bound(x).owner = r.id
    BY DEF Owned
  <2>2. \A o : o.owner = r.id =>
          (o \in a.db.owned <=> \E x \in Resolved(a.known, i.scoped) : o = Bound(x))
    BY DEF Owns
  <2> HIDE DEF Bound
  <2> QED
    BY <2>1, <2>2
<1>4. Exported(rows, mine) = {x \in {Sent(o) : o \in mine} : Points(x)}
  BY DEF Exported
<1> HIDE DEF Sent, Targeted, Bound, There, Points, mine
<1>5. \A x : x \in Exported(rows, mine) <=> x \in i.scoped /\ There(x)
  BY <1>1, <1>2, <1>3, <1>4
<1>6. {s \in i.scoped : s.scope = "global" \/ \E q \in rows : q.uuid = s.ref}
        = {s \in i.scoped : There(s)}
  BY DEF There
<1> HIDE DEF rows
<1>7. Exported(rows, mine) = {s \in i.scoped : There(s)}
  BY <1>5
<1> QED
  BY <1>6, <1>7 DEF rows, mine

\* What is shown is brought back.
LEMMA ShownIsBack ==
  ASSUME NEW job, NEW serial, Asked(job, serial, db.rows),
         NEW a, Restoring(a, job, serial, db.rows), AllShown(a, Kinds), db' = a.db
  PROVE  BroughtBack
<1> DEFINE rows == Records(db', "home")
           uuids(k) == {i.uuid : i \in Range(file.items[k])}
<1>1. /\ GoodDb(a.db) /\ NamesOK(a.db.rows) /\ KnownHome(a.known, a.db.rows)
      /\ Untouched(db.rows, a.db.rows)
  BY DEF Restoring, GoodAcc
<1>2. ASSUME NEW k \in Kinds, NEW i \in Range(file.items[k])
      PROVE  \E r \in rows :
               /\ r.kind = k /\ r.uuid = i.uuid /\ r.name = i.name /\ r.data = i.data
               /\ UuidAt(rows, "group", r.up) = i.up
               /\ k \in {"channel", "team"} =>
                    Exported(rows, {o \in db'.owned : o.owner = r.id}) =
                      {s \in i.scoped : s.scope = "global" \/ \E q \in rows : q.uuid = s.ref}
  <2>1. PICK r \in a.db.rows : Shows(r, k, i) /\ (k \in {"channel", "team"} => Owns(a, r, i))
    BY DEF AllShown, Shown
  <2>2. ItemOK(k, i) /\ i \in SomeItem
    <3>1. file.items[k] \in Seq(Items(k, serial, {0, 1}))
      BY DEF Asked
    <3>2. i \in Items(k, serial, {0, 1})
      BY <3>1 DEF Range
    <3>3. ItemOK(k, i)
      BY DEF Asked, GivenNames
    <3> QED
      BY <3>2, <3>3 DEF Items
  <2>3. /\ \A s \in i.scoped : RefOK(s)
        /\ i.scoped \in SUBSET SomeScoped /\ i.up \in {0, 1, 2}
    BY <2>2 DEF ItemOK, SomeItem
  <2>4. r \in rows /\ r.up = i.up /\ r.kind = k /\ r.uuid = i.uuid /\ r.name = i.name
        /\ r.data = i.data
    BY <2>1 DEF Records, Shows
  <2>5. UuidAt(Records(a.db, "home"), "group", i.up) = i.up
    BY <1>1, <2>3, ParentBack
  <2>6. ASSUME k \in {"channel", "team"}
        PROVE  Exported(Records(a.db, "home"), {o \in a.db.owned : o.owner = r.id}) =
                 {s \in i.scoped : s.scope = "global"
                                   \/ \E q \in Records(a.db, "home") : q.uuid = s.ref}
    BY <1>1, <2>1, <2>3, <2>6, OwnedBack
  <2> QED
    BY <2>4, <2>5, <2>6
<1>3. {r \in db.rows : r.kind \notin Kinds \/ r.uuid \notin uuids(r.kind)}
        = {r \in db'.rows : r.kind \notin Kinds \/ r.uuid \notin uuids(r.kind)}
  <2>1. \A r : Beside(r) <=> r.kind \notin Kinds \/ r.uuid \notin uuids(r.kind)
    BY DEF Beside
  <2> HIDE DEF uuids
  <2>2. \A r : Beside(r) => (r \in db.rows <=> r \in db'.rows)
    BY <1>1 DEF Untouched
  <2> QED
    BY <2>1, <2>2
<1> QED
  BY <1>2, <1>3 DEF BroughtBack

\* Only groups can be without a uuid.
LEMMA AllNamed ==
  ASSUME Named, NEW rows, GivenNames(file, rows)
  PROVE  \A k \in Kinds : \A i \in Range(file.items[k]) : i.uuid # Anonymous
<1> SUFFICES ASSUME NEW k \in Kinds, NEW i \in Range(file.items[k])
             PROVE  i.uuid # Anonymous
  OBVIOUS
<1>1. CASE k = "group"
  BY <1>1 DEF Named
<1>2. CASE k # "group"
  <2>1. i.uuid \in Natives[k]
    BY <1>2 DEF GivenNames, ItemOK
  <2> QED
    BY <1>2, <2>1 DEF Natives, Kinds, Anonymous
<1> QED
  BY <1>1, <1>2

\* Nothing has been imported yet.
LEMMA StartRestores ==
  ASSUME FilesOK, NamesOK(db.rows), NEW strategy, NEW sections,
         LET job == JobOf("home", strategy, sections) IN
         GoodAcc(Start(job), job, db.serial, {0, 1}, FALSE)
  PROVE  LET job == JobOf("home", strategy, sections) IN
         Restoring(Start(job), job, db.serial, db.rows)
<1> DEFINE job == JobOf("home", strategy, sections)
<1>1. job.tenant = "home" /\ Start(job).db = db /\ Start(job).known = Known(db.rows, "home")
  BY DEF JobOf, Start
<1>2. db.rows \in SUBSET SomeRow
  BY DEF FilesOK, GoodDb, SomeDb
<1>3. ASSUME NEW k \in Kinds, NEW p
      PROVE  p \in Known(db.rows, "home")[k] <=>
               \E r \in db.rows : Class(r) = k /\ r.tenant = "home" /\ p = <<r.uuid, r.id>>
  <2>1. Known(db.rows, "home")[k] = {<<r.uuid, r.id>> : r \in {q \in Of(db.rows, k) : q.tenant = "home"}}
    BY DEF Known
  <2>2. \A r : r \in Of(db.rows, k) <=> r \in db.rows /\ Class(r) = k
    BY <1>2, OfClass DEF Of
  <2> QED
    BY <2>1, <2>2
<1>4. KnownHome(Start(job).known, Start(job).db.rows)
  BY <1>1, <1>3 DEF KnownHome
<1>5. Kept(db.rows, db.rows) /\ Untouched(db.rows, db.rows)
  BY DEF Kept, Alike, Untouched
<1> QED
  BY <1>1, <1>4, <1>5 DEF Restoring

\* So a step is one.
LEMMA StepsRestore ==
  ASSUME NamesInv, [Next]_vars
  PROVE  AsTheFileSays
<1> SUFFICES ASSUME imports' # imports, last'.tenant = "home", last'.strategy = "update",
                    last'.sections = Sections, ~last'.failed, Named, ~Claimed
             PROVE  BroughtBack
  BY DEF AsTheFileSays
<1>1. FilesOK /\ NamesOK(db.rows)
  BY DEF NamesInv
<1>2. PICK tenant \in Tenants, strategy \in Strategies, sections \in SectionSets :
        ImportOf(JobOf(tenant, strategy, sections))
  BY <1>1, ImportSays
<1>3. tenant = "home" /\ strategy = "update" /\ sections = Sections
  BY <1>2 DEF ImportOf, JobOf
<1> DEFINE job == JobOf("home", "update", Sections)
           result == Imported(job)
<1>4. db' = result.db /\ file # NoFile
  BY <1>2, <1>3 DEF ImportOf
<1>5. GivenNames(file, db.rows)
  BY <1>4 DEF NamesInv, FileNamed
<1>6. /\ GoodJob(job, db.serial, {0, 1}, FALSE)
      /\ GoodAcc(Start(job), job, db.serial, {0, 1}, FALSE)
      /\ GivenOK(file, job, db.serial, {0, 1})
  BY <1>2, <1>3 DEF ImportOf
<1>7. /\ job.tenant = "home" /\ job.strategy = "update" /\ job.sections = Sections
      /\ \A k \in Kinds :
           job.foreign[k] = {r.uuid : r \in {q \in Of(db.rows, k) : q.tenant # "home"}}
  BY DEF JobOf
<1>8. Restoring(Start(job), job, db.serial, db.rows)
  BY <1>1, <1>6, StartRestores
<1> HIDE DEF job
<1>9. Asked(job, db.serial, db.rows)
  <2>1. \A k \in Kinds : file.items[k] \in Seq(Items(k, db.serial, {0, 1}))
    BY <1>6, <1>7 DEF GivenOK, Sections
  <2>2. ASSUME NEW k \in Kinds, NEW i \in Range(file.items[k])
        PROVE  i.uuid \notin job.foreign[k]
    BY <1>7 DEF Claimed
  <2> QED
    BY <1>5, <1>6, <1>7, <2>1, <2>2, AllNamed DEF Asked
<1>10. Restoring(result, job, db.serial, db.rows) /\ AllShown(result, Kinds)
  BY <1>6, <1>8, <1>9, ImportedRestores
<1> HIDE DEF result
<1> QED
  BY <1>4, <1>9, <1>10, ShownIsBack

\* A full import with 'update' brings back what the file says and touches nothing else,
\* whatever happened since the export and in whichever state of the tables; and imports
\* that ignore or duplicate leave every record as it is (StrategiesHold).
THEOREM StrategiesKept == AdministrationSpec => StrategiesHold
<1>1. AdministrationSpec => []NamesInv
  BY NamesHold
<1>2. [AdministrationNext]_administrationVars => [Next]_vars
  BY DEF AdministrationNext, administrationVars
<1>3. NamesInv /\ [Next]_vars => [AsTheFileSays]_vars
  BY StepsRestore
<1>4. Restores <=> [][AsTheFileSays]_vars
  BY DEF Restores, AsTheFileSays, BroughtBack
<1>5. AdministrationSpec => LeavesExisting
  BY ImportsLeaveExisting
<1>6. StrategiesHold <=> LeavesExisting /\ Restores
  BY DEF StrategiesHold
<1> QED
  BY <1>1, <1>2, <1>3, <1>4, <1>5, <1>6, PTL DEF AdministrationSpec

-----------------------------------------------------------------------------
(***************************************************************************)
(* Parents come before their children.                                     *)
(***************************************************************************)

\* A line begins with the parent.
LEMMA LinesGoDown ==
  ASSUME NEW X, NEW items \in Seq(X), Shallow(items), NEW i \in DOMAIN items
  PROVE  ParentsFirst(items, Line(items, i))
<1> DEFINE n == Len(items) - 1
           above == PlacesOf(items, items[i].up)
           j == CHOOSE k \in above : TRUE
           line == IF above = {} THEN <<i>> ELSE <<j>> \o <<i>>
           W == [k \in 0..n |-> IF k = 0 THEN {<<i>>} ELSE {line}]
<1>1. n \in Nat /\ DOMAIN items = 1..Len(items) /\ Len(items) \in Nat /\ i \in 1..Len(items)
  OBVIOUS
<1>2. above # {} => /\ j \in above /\ j \in DOMAIN items /\ items[j].uuid = items[i].up
                    /\ PlacesOf(items, items[j].up) = {}
  BY DEF PlacesOf, Shallow
<1> HIDE DEF j
<1>3. above # {} => n # 0
  <2>1. above # {} => j # i
    BY <1>2
  <2> QED
    BY <1>1, <1>2, <2>1
<1>4. /\ line \in LinesTo(items, i) /\ <<i>> \in LinesTo(items, i)
      /\ above # {} => line \in Seq(DOMAIN items) /\ Len(line) = 2 /\ line[1] = j /\ line[2] = i
      /\ above = {} => line = <<i>>
  <2>1. <<i>> \in LinesTo(items, i)
    <3> DEFINE one == <<i>>
    <3>1. one \in Seq(DOMAIN items) /\ Len(one) = 1 /\ one[1] = i /\ one # <<>>
      OBVIOUS
    <3> HIDE DEF one
    <3>2. one \in LinesTo(items, i)
      BY <3>1 DEF LinesTo
    <3> QED
      BY <3>2 DEF one
  <2>2. ASSUME above # {}
        PROVE  line \in LinesTo(items, i) /\ line \in Seq(DOMAIN items) /\ Len(line) = 2
               /\ line[1] = j /\ line[2] = i
    <3> DEFINE two == <<j>> \o <<i>>
    <3>1. line = two /\ j \in DOMAIN items
      BY <1>2, <2>2
    <3>2. two \in Seq(DOMAIN items) /\ Len(two) = 2 /\ two # <<>>
      BY <3>1
    <3>3. two[1] = j /\ two[2] = i
      OBVIOUS
    <3> HIDE DEF two, line
    <3> QED
      BY <3>1, <3>2, <3>3 DEF LinesTo
  <2>3. above = {} => line = <<i>>
    OBVIOUS
  <2> QED
    BY <2>1, <2>2, <2>3
<1>5. LineStep(items, <<i>>) = line
  BY DEF LineStep, j
<1>6. LineStep(items, line) = line
  <2>1. above = {} => PlacesOf(items, items[line[1]].up) = {}
    BY <1>4
  <2>2. above # {} => PlacesOf(items, items[line[1]].up) = {}
    BY <1>2, <1>4
  <2> HIDE DEF line, above
  <2> QED
    BY <2>1, <2>2 DEF LineStep
<1> HIDE DEF line
<1>7. Line(items, i) \in W[n]
  <2>1. <<i>> \in W[0] /\ \A k \in 0..n : W[k] \in SUBSET LinesTo(items, i)
    BY <1>1, <1>4
  <2>2. ASSUME NEW k \in 1..n, NEW v \in W[k - 1]
        PROVE  LineStep(items, v) \in W[k]
    <3>1. k - 1 \in 0..n /\ k \in 0..n /\ k # 0
      BY <1>1
    <3>2. v \in {<<i>>, line} /\ W[k] = {line}
      BY <3>1
    <3> QED
      BY <1>5, <1>6, <3>2
  <2> HIDE DEF W
  <2> QED
    BY <2>1, <2>2, LineArrives
<1>8. Line(items, i) = line
  <2>1. CASE n = 0
    BY <1>1, <1>3, <1>4, <1>7, <2>1
  <2>2. CASE n # 0
    BY <1>1, <1>7, <2>2
  <2> QED
    BY <2>1, <2>2
<1>9. ASSUME NEW m \in DOMAIN line, PlacesOf(items, items[line[m]].up) # {}
      PROVE  \E k \in 1..(m - 1) : items[line[k]].uuid = items[line[m]].up
  <2>1. CASE above = {}
    BY <1>4, <1>9, <2>1
  <2>2. CASE above # {}
    <3>1. m \in {1, 2}
      BY <1>4, <2>2 DEF LinesTo
    <3>2. m = 2
      BY <1>2, <1>4, <1>9, <2>2, <3>1
    <3> QED
      BY <1>2, <1>4, <2>2, <3>2
  <2> QED
    BY <2>1, <2>2
<1> QED
  BY <1>8, <1>9 DEF ParentsFirst

\* A position may be visited once its parent has been.
LEMMA VisitGoesDown ==
  ASSUME NEW X, NEW items \in Seq(X), NEW done \in Seq(DOMAIN items), ParentsFirst(items, done),
         NEW i \in DOMAIN items,
         PlacesOf(items, items[i].up) # {} => \E j \in Range(done) : items[j].uuid = items[i].up
  PROVE  ParentsFirst(items, Visit(items, done, i))
<1> DEFINE more == Append(done, i)
<1>1. Len(done) \in Nat /\ DOMAIN done = 1..Len(done) /\ DOMAIN more = 1..(Len(done) + 1)
      /\ more[Len(done) + 1] = i /\ \A m \in 1..Len(done) : more[m] = done[m]
  OBVIOUS
<1> HIDE DEF more
<1>2. ParentsFirst(items, more)
  <2>1. SUFFICES ASSUME NEW n \in DOMAIN more, PlacesOf(items, items[more[n]].up) # {}
                 PROVE  \E m \in 1..(n - 1) : items[more[m]].uuid = items[more[n]].up
    BY DEF ParentsFirst
  <2>2. CASE n \in DOMAIN done
    <3>1. PICK m \in 1..(n - 1) : items[done[m]].uuid = items[done[n]].up
      BY <1>1, <2>1, <2>2 DEF ParentsFirst
    <3> QED
      BY <1>1, <2>2, <3>1
  <2>3. CASE n = Len(done) + 1
    <3>1. PICK j \in Range(done) : items[j].uuid = items[i].up
      BY <1>1, <2>1, <2>3
    <3>2. PICK m \in DOMAIN done : j = done[m]
      BY DEF Range
    <3> QED
      BY <1>1, <2>3, <3>1, <3>2
  <2> QED
    BY <1>1, <2>2, <2>3
<1> QED
  BY <1>2 DEF Visit, more

\* So may a line that goes down.
LEMMA VisitLineGoesDown ==
  ASSUME NEW X, NEW items \in Seq(X), Shallow(items), NEW done \in Seq(DOMAIN items),
         ParentsFirst(items, done), NEW i \in DOMAIN items
  PROVE  /\ VisitLine(items, done, i) \in Seq(DOMAIN items)
         /\ ParentsFirst(items, VisitLine(items, done, i))
<1>1. CASE Visited(items, done, i)
  BY <1>1 DEF VisitLine
<1>2. CASE ~Visited(items, done, i)
  <2> DEFINE line == Line(items, i)
             n == Len(line)
             V == Seq(DOMAIN items)
             W == [k \in 0..n |-> {d \in V : /\ ParentsFirst(items, d)
                                             /\ \A m \in 1..k : Visited(items, d, line[m])}]
  <2>1. ParentsFirst(items, line)
    BY LinesGoDown
  <2>2. line \in V
    BY LinesStay
  <2> HIDE DEF line
  <2>3. n \in Nat /\ DOMAIN line = 1..n /\ \A k \in 1..n : line[k] \in DOMAIN items
    BY <2>2
  <2>4. done \in W[0]
    <3>1. 0 \in 0..n /\ 1..0 = {}
      BY <2>3
    <3> QED
      BY <3>1
  <2>5. ASSUME NEW k \in 1..n, NEW v \in W[k - 1]
        PROVE  Visit(items, v, line[k]) \in W[k]
    <3>1. k - 1 \in 0..n /\ k \in 0..n /\ line[k] \in DOMAIN items
      BY <2>3
    <3>2. /\ v \in V /\ ParentsFirst(items, v)
          /\ \A m \in 1..(k - 1) : Visited(items, v, line[m])
      BY <3>1
    <3> DEFINE d == Visit(items, v, line[k])
    <3>3. /\ d \in V /\ Visited(items, d, line[k])
          /\ \A j : Visited(items, v, j) => Visited(items, d, j)
      BY <3>1, <3>2, VisitStays
    <3>4. ParentsFirst(items, d)
      <4>1. ASSUME PlacesOf(items, items[line[k]].up) # {}
            PROVE  \E j \in Range(v) : items[j].uuid = items[line[k]].up
        <5>1. PICK m \in 1..(k - 1) : items[line[m]].uuid = items[line[k]].up
          BY <2>1, <2>3, <4>1 DEF ParentsFirst
        <5>2. Visited(items, v, line[m])
          BY <3>2
        <5> QED
          BY <5>1, <5>2 DEF Visited
      <4> QED
        BY <3>1, <3>2, <4>1, VisitGoesDown
    <3> HIDE DEF d
    <3>5. ASSUME NEW m \in 1..k
          PROVE  Visited(items, d, line[m])
      <4>1. m = k \/ m \in 1..(k - 1)
        OBVIOUS
      <4> QED
        BY <3>2, <3>3, <4>1
    <3>6. d \in W[k]
      BY <3>1, <3>3, <3>4, <3>5
    <3> QED
      BY <3>6 DEF d
  <2>6. \A k \in 0..n : W[k] \in SUBSET V
    BY <2>3
  <2>7. \A d \in W[n] : d \in V /\ ParentsFirst(items, d)
    <3>1. n \in 0..n
      BY <2>3
    <3> QED
      BY <3>1
  <2> HIDE DEF W
  <2>8. VisitLine(items, done, i) \in W[n]
    BY <1>2, <2>4, <2>5, <2>6, VisitLineArrives DEF line
  <2> QED
    BY <2>7, <2>8
<1> QED
  BY <1>1, <1>2

\* Sorted, an item comes after its parent.
LEMMA SortGoesDown ==
  ASSUME NEW X, NEW items \in Seq(X), Shallow(items), NEW n \in DOMAIN TopoSort(items),
         TopoSort(items)[n].up # Anonymous,
         \E x \in Range(items) : x.uuid = TopoSort(items)[n].up
  PROVE  \E m \in 1..(n - 1) : TopoSort(items)[m].uuid = TopoSort(items)[n].up
<1> DEFINE V == Seq(DOMAIN items)
           W == [k \in 0..Len(items) |-> {d \in V : ParentsFirst(items, d)}]
<1>1. Len(items) \in Nat /\ DOMAIN items = 1..Len(items)
  OBVIOUS
<1>2. <<>> \in W[0]
  BY <1>1 DEF ParentsFirst
<1>3. ASSUME NEW k \in 1..Len(items), NEW v \in W[k - 1]
      PROVE  VisitLine(items, v, k) \in W[k]
  <2>1. k - 1 \in 0..Len(items) /\ k \in 0..Len(items) /\ k \in DOMAIN items
    BY <1>1
  <2>2. v \in V /\ ParentsFirst(items, v)
    BY <2>1
  <2>3. VisitLine(items, v, k) \in V /\ ParentsFirst(items, VisitLine(items, v, k))
    BY <2>1, <2>2, VisitLineGoesDown
  <2> QED
    BY <2>1, <2>3
<1>4. \A k \in 0..Len(items) : W[k] \in SUBSET V
  OBVIOUS
<1>5. \A d \in W[Len(items)] : d \in V /\ ParentsFirst(items, d)
  BY <1>1
<1> HIDE DEF W
<1>6. Order(items) \in W[Len(items)]
  BY <1>2, <1>3, <1>4, OrderArrives
<1>7. /\ Order(items) \in V /\ ParentsFirst(items, Order(items))
      /\ TopoSort(items) = [m \in DOMAIN Order(items) |-> items[Order(items)[m]]]
  BY <1>5, <1>6 DEF TopoSort, Order
<1>8. DOMAIN Order(items) = 1..Len(Order(items)) /\ Len(Order(items)) \in Nat
      /\ n \in DOMAIN Order(items) /\ TopoSort(items)[n] = items[Order(items)[n]]
  BY <1>7
<1>9. PlacesOf(items, items[Order(items)[n]].up) # {}
  BY <1>8 DEF PlacesOf, Range
<1>10. PICK m \in 1..(n - 1) : items[Order(items)[m]].uuid = items[Order(items)[n]].up
  BY <1>7, <1>8, <1>9 DEF ParentsFirst
<1>11. m \in DOMAIN Order(items)
  BY <1>8
<1> QED
  BY <1>7, <1>8, <1>10, <1>11

-----------------------------------------------------------------------------
(***************************************************************************)
(* A first import that copies: every item becomes a new record.            *)
(***************************************************************************)

\* What a uuid stands for is what it resolves to.
LEMMA StandsResolve ==
  ASSUME NEW known, NEW kind, NEW uuid, NEW id, StandsFor(known, kind, uuid, id)
  PROVE  Resolve(known, kind, uuid) = id
<1> DEFINE p == CHOOSE p \in known[kind] : p[1] = uuid
<1>1. \E q \in known[kind] : q[1] = uuid
  <2>1. <<uuid, id>> \in known[kind] /\ <<uuid, id>>[1] = uuid
    BY DEF StandsFor
  <2> QED
    BY <2>1
<1>2. p \in known[kind] /\ p[1] = uuid
  BY <1>1
<1>3. Resolve(known, kind, uuid) = p[2]
  BY <1>1 DEF Resolve
<1> HIDE DEF p
<1> QED
  BY <1>2, <1>3 DEF StandsFor

\* Records that mirror an item mirror it among more records.
LEMMA MirrorsMore ==
  ASSUME NEW rows, NEW more, rows \subseteq more, NEW serial, NEW r, NEW i,
         Mirrors(rows, serial, r, i)
  PROVE  Mirrors(more, serial, r, i)
BY DEF Mirrors, Below

\* No item keeps its uuid.
LEMMA CopiesAreFresh ==
  ASSUME NEW job, NEW serial, NEW base, CopyAsked(job, serial, base),
         NEW acc, Copying(acc, job, serial, base),
         NEW kind \in Kinds, NEW item \in Range(file.items[kind])
  PROVE  ResolveConflict(job, acc.known, kind, item.uuid) = "fresh"
<1>1. PICK r \in base : Class(r) = kind /\ r.uuid = item.uuid /\ r.tenant = "home"
  BY DEF CopyAsked, Mirrorable
<1>2. r \in acc.db.rows
  BY DEF Copying
<1>3. /\ acc.db.rows \in SUBSET SomeRow /\ KnownNames(acc.known, acc.db.rows, job, serial)
      /\ KnownCovers(acc.known, acc.db.rows, job)
  BY DEF Copying, GoodAcc, SomeDb
<1>4. CASE job.tenant = "home"
  <2>1. \E p \in acc.known[kind] : p[1] = item.uuid
    BY <1>1, <1>2, <1>3, <1>4 DEF KnownCovers
  <2>2. Resolve(acc.known, kind, item.uuid) # 0
    BY <1>3, <2>1, ResolveStands
  <2>3. job.strategy = "generateNew"
    BY <1>4 DEF CopyAsked
  <2> QED
    BY <2>2, <2>3 DEF ResolveConflict
<1>5. CASE job.tenant # "home"
  <2>1. item.uuid \in job.foreign[kind]
    BY <1>1, <1>2, <1>3, <1>5 DEF KnownCovers
  <2> QED
    BY <2>1 DEF ResolveConflict
<1> QED
  BY <1>4, <1>5

\* A copy of an item is below the copy of its parent.
LEMMA CopyIsBelow ==
  ASSUME NEW job, NEW serial, NEW base, CopyAsked(job, serial, base),
         NEW acc, Copying(acc, job, serial, base),
         NEW item, ParentCopied(acc, serial, item),
         NEW row, row.up = Resolve(acc.known, "group", item.up)
  PROVE  Below(acc.db.rows, serial, row, item)
<1>1. CASE item.up = 0
  <2>1. "group" \in Kinds
    BY DEF Kinds
  <2>2. Resolve(acc.known, "group", 0) = 0
    BY <2>1, AnonymousIsNone DEF Copying, CopyAsked
  <2> QED
    BY <1>1, <2>2 DEF Below
<1>2. CASE item.up # 0
  <2>1. PICK j \in Range(file.items["group"]) : j.uuid = item.up /\ Copied(acc, serial, "group", j)
    BY <1>2 DEF ParentCopied
  <2>2. PICK g \in acc.db.rows : /\ g.id > serial /\ g.kind = "group"
                                 /\ Mirrors(acc.db.rows, serial, g, j)
                                 /\ StandsFor(acc.known, "group", j.uuid, g.id)
    BY <2>1 DEF Copied
  <2>3. g.id = row.up
    BY <2>1, <2>2, StandsResolve
  <2> QED
    BY <1>2, <2>1, <2>2, <2>3 DEF Below, Mirrors
<1> QED
  BY <1>1, <1>2

\* One more item is copied, and those that were remain so.
LEMMA ItemCopies ==
  ASSUME NEW job, NEW serial, NEW base, CopyAsked(job, serial, base),
         NEW acc, Copying(acc, job, serial, base),
         NEW kind \in Kinds, NEW item \in Range(file.items[kind]),
         ParentCopied(acc, serial, item)
  PROVE  LET acc2 == ImportItem(acc, job, kind, item) IN
         /\ Copying(acc2, job, serial, base)
         /\ kind # "team" => Copied(acc2, serial, kind, item)
         /\ \A k \in Kinds : \A i \in Range(file.items[k]) :
              Copied(acc, serial, k, i) => Copied(acc2, serial, k, i)
<1> DEFINE acc2 == ImportItem(acc, job, kind, item)
           fresh == TRUE
<1>1. /\ GoodAcc(acc, job, serial, {0, 1}, FALSE) /\ GoodJob(job, serial, {0, 1}, FALSE)
      /\ base \subseteq acc.db.rows /\ NewOrOld(acc.db.rows, serial, base)
      /\ item \in Items(kind, serial, {0, 1}) /\ item.uuid # Anonymous
  <2>1. item \in Items(kind, serial, {0, 1})
    BY DEF CopyAsked, Range
  <2> QED
    BY <2>1 DEF Copying, CopyAsked
<1>2. GoodAcc(acc2, job, serial, {0, 1}, FALSE)
  BY <1>1, ItemStays
<1>3. \/ kind = "team" /\ acc2.db = acc.db /\ acc2.known = acc.known
      \/ \E row : Inserts(acc, acc2, job, kind, item, fresh, row)
  <2>1. ResolveConflict(job, acc.known, kind, item.uuid) = "fresh"
    BY CopiesAreFresh
  <2>2. fresh \in BOOLEAN
        /\ ResolveConflict(job, acc.known, kind, item.uuid) = IF fresh THEN "fresh" ELSE "create"
    BY <2>1
  <2> HIDE DEF fresh
  <2> QED
    BY <1>1, <2>2, CreateShape
<1> HIDE DEF acc2
<1>4. CASE kind = "team" /\ acc2.db = acc.db /\ acc2.known = acc.known
  <2>1. Copying(acc2, job, serial, base)
    BY <1>1, <1>2, <1>4 DEF Copying
  <2>2. \A k, i : Copied(acc, serial, k, i) => Copied(acc2, serial, k, i)
    BY <1>4 DEF Copied
  <2> QED
    BY <1>4, <2>1, <2>2 DEF acc2
<1>5. ASSUME NEW row, Inserts(acc, acc2, job, kind, item, fresh, row)
      PROVE  /\ Copying(acc2, job, serial, base)
             /\ Copied(acc2, serial, kind, item)
             /\ \A k \in Kinds : \A i \in Range(file.items[k]) :
                  Copied(acc, serial, k, i) => Copied(acc2, serial, k, i)
  <2>1. /\ row \in SomeRow /\ row.kind = kind /\ row.id = acc.db.serial + 1
        /\ row.uuid = row.id /\ row.name = item.name /\ row.data = item.data
        /\ row.up = Resolve(acc.known, "group", item.up)
        /\ acc2.db.rows = acc.db.rows \union {row}
        /\ acc2.known = [acc.known EXCEPT ![kind] = NewPairs(@, item, row)]
    BY <1>5 DEF Inserts, NewKnown
  <2>2. acc.known \in [Kinds -> SUBSET (Nat \X Nat)] /\ acc.db.serial \in Nat
        /\ serial \in Nat /\ serial <= acc.db.serial
    BY <1>1 DEF GoodAcc, GoodJob, SomeDb
  <2>3. row.id > serial
    BY <2>1, <2>2
  <2>4. /\ acc2.known[kind] = NewPairs(acc.known[kind], item, row)
        /\ \A k \in Kinds : k # kind => acc2.known[k] = acc.known[k]
    BY <2>1, <2>2
  <2>5. acc.db.rows \subseteq acc2.db.rows /\ row \in acc2.db.rows
    BY <2>1
  <2>6. Mirrors(acc2.db.rows, serial, row, item)
    <3>1. Below(acc.db.rows, serial, row, item)
      BY <2>1, CopyIsBelow
    <3>2. Mirrors(acc.db.rows, serial, row, item)
      BY <2>1, <3>1 DEF Mirrors
    <3> QED
      BY <2>5, <3>2, MirrorsMore
  <2>7. StandsFor(acc2.known, kind, item.uuid, row.id)
    <3>1. <<item.uuid, row.id>> \in acc2.known[kind]
      BY <1>1, <2>4 DEF NewPairs
    <3>2. ASSUME NEW p \in acc2.known[kind], p[1] = item.uuid
          PROVE  p[2] = row.id
      BY <2>4, <3>2 DEF NewPairs
    <3> QED
      BY <3>1, <3>2 DEF StandsFor
  <2>8. Copied(acc2, serial, kind, item)
    BY <2>1, <2>3, <2>5, <2>6, <2>7 DEF Copied
  <2>9. ASSUME NEW k \in Kinds, NEW i \in Range(file.items[k]), Copied(acc, serial, k, i)
        PROVE  Copied(acc2, serial, k, i)
    <3>1. PICK r \in acc.db.rows : /\ r.id > serial /\ r.kind = k
                                   /\ Mirrors(acc.db.rows, serial, r, i)
                                   /\ StandsFor(acc.known, k, i.uuid, r.id)
      BY <2>9 DEF Copied
    <3>2. r \in acc2.db.rows /\ Mirrors(acc2.db.rows, serial, r, i)
      BY <2>5, <3>1, MirrorsMore
    <3>3. CASE k = kind /\ i.uuid = item.uuid
      <4>1. i = item
        BY <1>1, <3>3 DEF CopyAsked, GivenNames
      <4> QED
        BY <2>8, <3>3, <4>1
    <3>4. CASE k # kind
      <4>1. StandsFor(acc2.known, k, i.uuid, r.id)
        BY <2>4, <3>1, <3>4 DEF StandsFor
      <4> QED
        BY <3>1, <3>2, <4>1 DEF Copied
    <3>5. CASE k = kind /\ i.uuid # item.uuid
      <4>1. i.uuid # row.uuid
        <5>1. i \in Items(k, serial, {0, 1})
          BY DEF CopyAsked, Range
        <5>2. i.uuid \in Nat /\ i.uuid <= serial
          BY <5>1 DEF Items, SomeItem
        <5> QED
          BY <2>1, <2>2, <5>2
      <4>2. \A p : p[1] = i.uuid => (p \in acc2.known[k] <=> p \in acc.known[k])
        BY <2>4, <3>5, <4>1 DEF NewPairs
      <4>3. <<i.uuid, r.id>>[1] = i.uuid
        OBVIOUS
      <4>4. StandsFor(acc2.known, k, i.uuid, r.id)
        BY <3>1, <4>2, <4>3 DEF StandsFor
      <4> QED
        BY <3>1, <3>2, <4>4 DEF Copied
    <3> QED
      BY <3>3, <3>4, <3>5
  <2>10. NewOrOld(acc2.db.rows, serial, base)
    <3>1. SUFFICES ASSUME NEW r \in acc2.db.rows
                   PROVE  \/ r \in base
                          \/ /\ r.id > serial
                             /\ r.kind \in Mirrored => \E i \in Range(file.items[r.kind]) :
                                  Mirrors(acc2.db.rows, serial, r, i)
      BY DEF NewOrOld
    <3>2. CASE r = row
      BY <2>1, <2>3, <2>6, <3>2
    <3>3. CASE r \in acc.db.rows /\ r \notin base
      <4>1. r.id > serial
        BY <1>1, <3>3 DEF NewOrOld
      <4>2. ASSUME r.kind \in Mirrored
            PROVE  \E i \in Range(file.items[r.kind]) : Mirrors(acc2.db.rows, serial, r, i)
        <5>1. PICK i \in Range(file.items[r.kind]) : Mirrors(acc.db.rows, serial, r, i)
          BY <1>1, <3>3, <4>2 DEF NewOrOld
        <5>2. Mirrors(acc2.db.rows, serial, r, i)
          BY <2>5, <5>1, MirrorsMore
        <5> QED
          BY <5>2
      <4> QED
        BY <4>1, <4>2
    <3> QED
      BY <2>1, <3>2, <3>3
  <2>11. Copying(acc2, job, serial, base)
    BY <1>1, <1>2, <2>5, <2>10 DEF Copying
  <2> QED
    BY <2>8, <2>9, <2>11
<1> QED
  BY <1>3, <1>4, <1>5 DEF acc2

\* The groups of a file are two at most, the second below the first or none.
LEMMA GroupsAreShallow ==
  ASSUME NEW serial, NEW ups, NEW items \in Seq(Items("group", serial, ups))
  PROVE  Shallow(items)
<1>1. SUFFICES ASSUME NEW i \in DOMAIN items, NEW j \in PlacesOf(items, items[i].up)
               PROVE  PlacesOf(items, items[j].up) = {}
  BY DEF Shallow
<1>2. j \in DOMAIN items /\ items[i].up # Anonymous /\ items[j].uuid = items[i].up
  BY DEF PlacesOf
<1>3. items[i] \in Items("group", serial, ups) /\ items[j] \in Items("group", serial, ups)
  BY <1>2
<1>4. items[i].up \in {0, 1} /\ (items[j].uuid = 1 => items[j].up = 0)
  BY <1>3 DEF Items
<1>5. items[j].up = Anonymous
  BY <1>2, <1>4 DEF Anonymous
<1> QED
  BY <1>5 DEF PlacesOf

\* That order has all the items of the section, the groups after their parents.
LEMMA SectionOrder ==
  ASSUME NEW job, NEW serial, NEW base, CopyAsked(job, serial, base), NEW kind \in Kinds
  PROVE  LET items == Ordered(kind) IN
         /\ items \in Seq(Range(file.items[kind]))
         /\ \A x \in Range(file.items[kind]) : \E n \in DOMAIN items : items[n] = x
         /\ kind = "group" =>
              \A n \in DOMAIN items : items[n].up # 0 =>
                \E m \in 1..(n - 1) : items[m].uuid = items[n].up
<1> DEFINE given == file.items[kind]
           X == Range(given)
           items == Ordered(kind)
<1>1. given \in Seq(X) /\ given \in Seq(Items(kind, serial, {0, 1}))
  <2>1. given \in Seq(Items(kind, serial, {0, 1}))
    BY DEF CopyAsked
  <2> QED
    BY <2>1 DEF Range
<1>2. \A x, y \in X : x.uuid = y.uuid => x = y
  BY DEF CopyAsked, GivenNames
<1>3. CASE kind = "group"
  <2>1. /\ TopoSort(given) \in Seq(X)
        /\ \A n \in DOMAIN TopoSort(given) : TopoSort(given)[n] \in X
        /\ \A x \in X : \E n \in DOMAIN TopoSort(given) : TopoSort(given)[n].uuid = x.uuid
    BY <1>1, SortStays
  <2>2. items = TopoSort(given)
    BY <1>3 DEF Ordered
  <2>3. Shallow(given)
    BY <1>1, <1>3, GroupsAreShallow
  <2> HIDE DEF items, X
  <2>4. ASSUME NEW n \in DOMAIN items, items[n].up # 0
        PROVE  \E m \in 1..(n - 1) : items[m].uuid = items[n].up
    <3>1. items[n] \in X
      BY <2>1, <2>2
    <3>2. items[n] \in Range(file.items["group"])
      BY <1>3, <3>1 DEF X
    <3>3. PICK j \in Range(file.items["group"]) : j.uuid = items[n].up
      BY <2>4, <3>2 DEF CopyAsked, Mirrorable, Kinds
    <3>4. \E x \in Range(given) : x.uuid = TopoSort(given)[n].up
      BY <1>3, <2>2, <3>3
    <3>5. TopoSort(given)[n].up # Anonymous /\ n \in DOMAIN TopoSort(given)
      BY <2>2, <2>4 DEF Anonymous
    <3> HIDE DEF given
    <3>6. \E m \in 1..(n - 1) : TopoSort(given)[m].uuid = TopoSort(given)[n].up
      BY <1>1, <2>3, <3>4, <3>5, SortGoesDown
    <3> QED
      BY <2>2, <3>6
  <2>5. items \in Seq(X)
    BY <2>1, <2>2
  <2>6. \A x \in X : \E n \in DOMAIN items : items[n] = x
    BY <1>2, <2>1, <2>2
  <2> QED
    BY <2>4, <2>5, <2>6 DEF X, items
<1>4. CASE kind # "group"
  <2>1. items = given
    BY <1>4 DEF Ordered
  <2> QED
    BY <1>1, <1>4, <2>1 DEF Range
<1> QED
  BY <1>3, <1>4

\* When an item's turn comes, its parent has its copy.
LEMMA ParentsAreCopied ==
  ASSUME NEW job, NEW serial, NEW base, CopyAsked(job, serial, base),
         NEW acc, NEW kinds, AllCopied(acc, serial, kinds), NEW kind \in Kinds,
         MayFollow(kind, kinds), NEW m \in DOMAIN Ordered(kind),
         \A n \in 1..(m - 1) : kind = "group" => Copied(acc, serial, kind, Ordered(kind)[n])
  PROVE  ParentCopied(acc, serial, Ordered(kind)[m])
<1> DEFINE item == Ordered(kind)[m]
<1>1. /\ Ordered(kind) \in Seq(Range(file.items[kind]))
      /\ kind = "group" =>
           \A n \in DOMAIN Ordered(kind) : Ordered(kind)[n].up # 0 =>
             \E k \in 1..(n - 1) : Ordered(kind)[k].uuid = Ordered(kind)[n].up
  BY SectionOrder
<1>2. item \in Range(file.items[kind])
  BY <1>1
<1> SUFFICES ASSUME item.up # 0
             PROVE  \E j \in Range(file.items["group"]) :
                      j.uuid = item.up /\ Copied(acc, serial, "group", j)
  BY DEF ParentCopied
<1>3. ItemOK(kind, item)
  BY <1>2 DEF CopyAsked, GivenNames
<1>4. kind \in {"group", "monitor"}
  BY <1>3 DEF ItemOK
<1>5. CASE kind = "group"
  <2>1. PICK k \in 1..(m - 1) : Ordered(kind)[k].uuid = item.up
    BY <1>1, <1>5
  <2>2. Copied(acc, serial, kind, Ordered(kind)[k])
    BY <1>5, <2>1
  <2>3. Ordered(kind)[k] \in Range(file.items[kind])
    <3>1. k \in DOMAIN Ordered(kind)
      BY <1>1
    <3> QED
      BY <1>1, <3>1
  <2> QED
    BY <1>5, <2>1, <2>2, <2>3
<1>6. CASE kind = "monitor"
  <2>1. PICK j \in Range(file.items["group"]) : j.uuid = item.up
    BY <1>2 DEF CopyAsked, Mirrorable
  <2>2. Copied(acc, serial, "group", j)
    BY <1>6 DEF AllCopied, MayFollow
  <2> QED
    BY <2>1, <2>2
<1> QED
  BY <1>4, <1>5, <1>6

\* A section copies its items, and keeps the copies of the sections before.
LEMMA SectionCopies ==
  ASSUME NEW job, NEW serial, NEW base, CopyAsked(job, serial, base),
         NEW acc, Copying(acc, job, serial, base),
         NEW kinds \in SUBSET Kinds, AllCopied(acc, serial, kinds),
         NEW kind \in Kinds, MayFollow(kind, kinds)
  PROVE  /\ Copying(ImportSection(acc, job, kind), job, serial, base)
         /\ AllCopied(ImportSection(acc, job, kind), serial, kinds)
         /\ kind \in job.sections /\ kind # "team" =>
              AllCopied(ImportSection(acc, job, kind), serial, {kind})
<1>1. CASE kind \notin job.sections
  BY <1>1 DEF ImportSection
<1>2. CASE kind \in job.sections
  <2> DEFINE SomeAcc == [db : SomeDb, known : [Kinds -> SUBSET (Nat \X Nat)], failed : BOOLEAN]
             X == Range(file.items[kind])
             items == Ordered(kind)
             V == {a \in SomeAcc : GoodAcc(a, job, serial, {0, 1}, FALSE)}
             Until(a, m) ==
               /\ Copying(a, job, serial, base) /\ AllCopied(a, serial, kinds)
               /\ kind # "team" => \A n \in 1..m : Copied(a, serial, kind, items[n])
             W == [m \in 0..Len(items) |-> {a \in V : Until(a, m)}]
  <2>1. /\ items \in Seq(X)
        /\ \A x \in X : \E n \in DOMAIN items : items[n] = x
    BY SectionOrder
  <2>2. \A a : a \in V <=> GoodAcc(a, job, serial, {0, 1}, FALSE)
    BY DEF GoodAcc
  <2>3. ImportSection(acc, job, kind) = ImportItems(acc, job, kind, items)
    BY <1>2 DEF ImportSection, Ordered
  <2>4. \A x \in X : x \in Range(file.items[kind]) /\ x \in Items(kind, serial, {0, 1})
    BY DEF CopyAsked, Range
  <2>5. Len(items) \in Nat /\ DOMAIN items = 1..Len(items)
    BY <2>1
  <2> HIDE DEF V, X, items
  <2>6. ImportsStay(V, job, kind, X)
    BY <2>2, <2>4, ItemStays DEF ImportsStay, CopyAsked
  <2>7. ASSUME NEW m \in 1..Len(items), NEW a \in V, Until(a, m - 1)
        PROVE  Until(ImportItem(a, job, kind, items[m]), m)
    <3> DEFINE a2 == ImportItem(a, job, kind, items[m])
    <3>1. m \in DOMAIN items /\ items[m] \in X /\ items[m] \in Range(file.items[kind])
      BY <2>1, <2>4, <2>5
    <3>2. ParentCopied(a, serial, items[m])
      <4>1. \A n \in 1..(m - 1) : kind = "group" => Copied(a, serial, kind, Ordered(kind)[n])
        BY <2>7 DEF items
      <4>2. m \in DOMAIN Ordered(kind)
        BY <3>1 DEF items
      <4>3. AllCopied(a, serial, kinds)
        BY <2>7
      <4>4. ParentCopied(a, serial, Ordered(kind)[m])
        BY <4>1, <4>2, <4>3, ParentsAreCopied
      <4> QED
        BY <4>4 DEF items
    <3>3. /\ Copying(a2, job, serial, base)
          /\ kind # "team" => Copied(a2, serial, kind, items[m])
          /\ \A k \in Kinds : \A i \in Range(file.items[k]) :
               Copied(a, serial, k, i) => Copied(a2, serial, k, i)
      <4>1. Copying(a, job, serial, base)
        BY <2>7
      <4> QED
        BY <3>1, <3>2, <4>1, ItemCopies
    <3> HIDE DEF a2
    <3>4. AllCopied(a2, serial, kinds)
      BY <2>7, <3>3 DEF AllCopied
    <3>5. ASSUME kind # "team", NEW n \in 1..m
          PROVE  Copied(a2, serial, kind, items[n])
      <4>1. CASE n = m
        BY <3>3, <3>5, <4>1
      <4>2. CASE n # m
        <5>1. n \in 1..(m - 1) /\ n \in DOMAIN items
          BY <2>5, <4>2
        <5>2. Copied(a, serial, kind, items[n])
          BY <2>7, <3>5, <5>1
        <5>3. items[n] \in Range(file.items[kind])
          BY <2>1, <2>4, <5>1
        <5> QED
          BY <3>3, <5>2, <5>3
      <4> QED
        BY <4>1, <4>2
    <3> QED
      BY <3>3, <3>4, <3>5 DEF a2
  <2>8. ImportsClimb(W, V, acc, job, kind, items)
    <3>1. acc \in W[0]
      <4>1. Until(acc, 0)
        OBVIOUS
      <4>2. acc \in V
        BY <2>2 DEF Copying
      <4> HIDE DEF Until
      <4> QED
        BY <2>5, <4>1, <4>2
    <3>2. \A m \in 0..Len(items) : W[m] \in SUBSET V
      OBVIOUS
    <3>3. ASSUME NEW m \in 1..Len(items), NEW a \in W[m - 1]
          PROVE  ImportItem(a, job, kind, items[m]) \in W[m]
      <4>1. m - 1 \in 0..Len(items) /\ m \in 0..Len(items)
        BY <2>5
      <4> HIDE DEF Until
      <4>2. a \in V /\ Until(a, m - 1)
        BY <3>3, <4>1
      <4>3. Until(ImportItem(a, job, kind, items[m]), m)
        BY <2>7, <4>2
      <4>4. ImportItem(a, job, kind, items[m]) \in V
        <5>1. items[m] \in X
          BY <2>1, <2>5
        <5> QED
          BY <2>6, <4>2, <5>1 DEF ImportsStay
      <4> QED
        BY <4>1, <4>3, <4>4
    <3> HIDE DEF W
    <3> QED
      BY <3>1, <3>2, <3>3 DEF ImportsClimb
  <2> DEFINE end == ImportItems(acc, job, kind, items)
  <2>9. end \in W[Len(items)]
    <3> HIDE DEF W
    <3> QED
      BY <2>1, <2>6, <2>8, ItemsClimb
  <2>10. Until(end, Len(items))
    <3> HIDE DEF Until, end
    <3> QED
      BY <2>5, <2>9
  <2> HIDE DEF end
  <2>11. ASSUME kind # "team"
         PROVE  AllCopied(end, serial, {kind})
    <3>1. ASSUME NEW i \in Range(file.items[kind])
          PROVE  Copied(end, serial, kind, i)
      <4>1. PICK n \in DOMAIN items : items[n] = i
        BY <2>1 DEF X
      <4> QED
        BY <2>5, <2>10, <2>11, <4>1
    <3> QED
      BY <3>1 DEF AllCopied
  <2> QED
    BY <2>3, <2>10, <2>11 DEF end
<1> QED
  BY <1>1, <1>2

\* The settings of the file point at the copies, once all the sections are imported.
LEMMA SettingsPoint ==
  ASSUME NEW job, NEW serial, NEW base, CopyAsked(job, serial, base), "setting" \in job.sections,
         NEW acc, Copying(acc, job, serial, base), AllCopied(acc, serial, Mirrored),
         file.settings \in SUBSET SomeScoped
  PROVE  Pointed(ImportSettings(acc, job), serial, job.tenant)
<1> DEFINE acc2 == ImportSettings(acc, job)
           new == Resolved(acc.known, file.settings)
           settings == {s \in acc.db.settings :
                          ~(s.owner = job.tenant /\ \E x \in new : x.scope = s.scope /\ x.ref = s.ref)}
                       \union {Owned(job.tenant, x.scope, x.ref, x.value) : x \in new}
<1>1. GoodAcc(acc, job, serial, {0, 1}, FALSE)
  BY DEF Copying
<1>2. acc2 = [acc EXCEPT !.db.settings = settings]
  BY DEF ImportSettings
<1>3. /\ acc = [db |-> acc.db, known |-> acc.known, failed |-> acc.failed]
      /\ acc.db = [rows |-> acc.db.rows, closure |-> acc.db.closure,
                   settings |-> acc.db.settings, owned |-> acc.db.owned,
                   serial |-> acc.db.serial]
      /\ acc.db.rows \in SUBSET SomeRow
  BY <1>1 DEF GoodAcc, SomeDb
<1>4. acc2.db.settings = settings /\ acc2.db.rows = acc.db.rows
  <2> HIDE DEF settings, acc2
  <2> QED
    BY <1>2, <1>3
<1> HIDE DEF acc2
<1>5. ASSUME NEW s \in file.settings, NEW i \in Range(file.items[s.scope]),
             s.scope # "global", i.uuid = s.ref
      PROVE  \E r \in acc2.db.rows : /\ r.id > serial /\ r.kind = s.scope /\ r.name = i.name
                               /\ Owned(job.tenant, s.scope, r.id, s.value) \in acc2.db.settings
  <2>1. s.scope \in Mirrored
    BY <1>5 DEF SomeScoped, Places, Mirrored
  <2>2. PICK r \in acc.db.rows : /\ r.id > serial /\ r.kind = s.scope
                                 /\ Mirrors(acc.db.rows, serial, r, i)
                                 /\ StandsFor(acc.known, s.scope, i.uuid, r.id)
    BY <2>1 DEF AllCopied, Copied
  <2>3. Resolve(acc.known, s.scope, s.ref) = r.id
    BY <1>5, <2>2, StandsResolve
  <2>4. r.id # 0
    BY <1>3 DEF SomeRow
  <2> DEFINE x == Scoped(s.scope, r.id, s.value)
  <2>5. x.scope = s.scope /\ x.ref = r.id /\ x.value = s.value
    BY DEF Scoped
  <2>6. x \in new
    BY <1>5, <2>3, <2>4, <2>5 DEF Resolved
  <2> HIDE DEF x, new
  <2>7. Owned(job.tenant, x.scope, x.ref, x.value) \in settings
    BY <2>6
  <2> HIDE DEF settings
  <2> QED
    BY <1>4, <2>2, <2>5, <2>7 DEF Mirrors
<1>6. Pointed(acc2, serial, job.tenant)
  BY <1>5 DEF Pointed
<1> QED
  BY <1>6 DEF acc2

\* An import copies the groups, the monitors and the channels, whatever else it imports.
LEMMA ImportedCopies ==
  ASSUME NEW job, NEW serial, CopyAsked(job, serial, db.rows), GivenOK(file, job, serial, {0, 1}),
         {"group", "monitor", "channel", "setting"} \subseteq job.sections,
         Copying(Start(job), job, serial, db.rows)
  PROVE  /\ Copying(Imported(job), job, serial, db.rows)
         /\ AllCopied(Imported(job), serial, Mirrored)
         /\ Pointed(Imported(job), serial, job.tenant)
<1> DEFINE groups   == ImportSection(Start(job), job, "group")
           monitors == ImportSection(groups, job, "monitor")
           channels == ImportSection(monitors, job, "channel")
           teams    == ImportSection(channels, job, "team")
           actions  == ImportSection(teams, job, "action")
           settings == ImportSettings(actions, job)
           end == ImportRemedies(settings, job)
           Fine(a, kinds) == Copying(a, job, serial, db.rows) /\ AllCopied(a, serial, kinds)
<1>1. Imported(job) = end
  BY DEF Imported
<1>2. ASSUME NEW a, NEW kinds \in SUBSET Kinds, Fine(a, kinds),
             NEW kind \in Kinds, MayFollow(kind, kinds)
      PROVE  /\ Fine(ImportSection(a, job, kind), kinds)
             /\ kind \in job.sections /\ kind # "team" =>
                  Fine(ImportSection(a, job, kind), kinds \union {kind})
  <2>1. /\ Copying(ImportSection(a, job, kind), job, serial, db.rows)
        /\ AllCopied(ImportSection(a, job, kind), serial, kinds)
        /\ kind \in job.sections /\ kind # "team" =>
             AllCopied(ImportSection(a, job, kind), serial, {kind})
    BY <1>2, SectionCopies
  <2> QED
    BY <2>1 DEF AllCopied
<1>3. Fine(Start(job), {})
  BY DEF AllCopied
<1> HIDE DEF Fine
<1>4. Fine(groups, {"group"})
  <2>1. {} \in SUBSET Kinds /\ "group" \in Kinds /\ {} \union {"group"} = {"group"}
        /\ MayFollow("group", {})
    BY DEF Kinds, MayFollow
  <2> QED
    BY <1>2, <1>3, <2>1
<1> HIDE DEF groups
<1>5. Fine(monitors, {"group", "monitor"})
  <2>1. /\ {"group"} \in SUBSET Kinds /\ "monitor" \in Kinds
        /\ {"group"} \union {"monitor"} = {"group", "monitor"}
        /\ MayFollow("monitor", {"group"})
    BY DEF Kinds, MayFollow
  <2> QED
    BY <1>2, <1>4, <2>1
<1> HIDE DEF monitors
<1>6. Fine(channels, Mirrored)
  <2>1. /\ {"group", "monitor"} \in SUBSET Kinds /\ "channel" \in Kinds
        /\ {"group", "monitor"} \union {"channel"} = Mirrored
        /\ MayFollow("channel", {"group", "monitor"})
    BY DEF Kinds, MayFollow, Mirrored
  <2> QED
    BY <1>2, <1>5, <2>1
<1> HIDE DEF channels
<1>7. Mirrored \in SUBSET Kinds /\ "team" \in Kinds /\ "action" \in Kinds
      /\ MayFollow("team", Mirrored) /\ MayFollow("action", Mirrored)
  BY DEF Kinds, MayFollow, Mirrored
<1>8. Fine(teams, Mirrored)
  BY <1>2, <1>6, <1>7
<1> HIDE DEF teams
<1>9. Fine(actions, Mirrored)
  BY <1>2, <1>7, <1>8
<1> HIDE DEF actions
<1>10. /\ GoodAcc(actions, job, serial, {0, 1}, FALSE) /\ GoodJob(job, serial, {0, 1}, FALSE)
       /\ Copying(actions, job, serial, db.rows) /\ AllCopied(actions, serial, Mirrored)
  BY <1>9 DEF Fine, Copying, CopyAsked
<1>11. Pointed(settings, serial, job.tenant)
  BY <1>10, SettingsPoint DEF GivenOK
<1>12. ASSUME NEW a, NEW ups, NEW tree, GoodAcc(a, job, serial, ups, tree)
       PROVE  /\ ImportSettings(a, job).db.rows = a.db.rows
              /\ ImportRemedies(a, job).db.rows = a.db.rows
              /\ ImportRemedies(a, job).db.settings = a.db.settings
              /\ ImportSettings(a, job).known = a.known
              /\ ImportRemedies(a, job).known = a.known
  BY <1>12, BindingsKeepRows
<1>13. /\ GoodAcc(settings, job, serial, {0, 1}, FALSE)
       /\ settings.db.rows = actions.db.rows /\ settings.known = actions.known
  BY <1>10, <1>12, SettingsStay DEF GivenOK
<1> HIDE DEF settings
<1>14. /\ GoodAcc(end, job, serial, {0, 1}, FALSE)
       /\ end.db.rows = actions.db.rows /\ end.known = actions.known
       /\ end.db.settings = settings.db.settings
  BY <1>10, <1>12, <1>13, RemediesStay DEF GivenOK
<1> HIDE DEF end
<1>15. Copying(end, job, serial, db.rows)
  BY <1>10, <1>14 DEF Copying
<1>16. AllCopied(end, serial, Mirrored)
  BY <1>10, <1>14 DEF AllCopied, Copied
<1>17. Pointed(end, serial, job.tenant)
  BY <1>11, <1>13, <1>14 DEF Pointed
<1> QED
  BY <1>1, <1>15, <1>16, <1>17

\* A name for the id of a new record, and for the uuid of an item.
LEMMA NameOfNew ==
  ASSUME NEW new, NEW place, \A r, q \in new : r.id = q.id => r = q,
         NEW r \in new, r.kind = place
  PROVE  NameAt(new, place, r.id) = r.name
<1> DEFINE q == CHOOSE q \in new : q.kind = place /\ q.id = r.id
<1>1. q \in new /\ q.kind = place /\ q.id = r.id
  OBVIOUS
<1>2. NameAt(new, place, r.id) = q.name
  BY DEF NameAt
<1> HIDE DEF q
<1> QED
  BY <1>1, <1>2

\* The item that has a uuid gives its name.
LEMMA NameOfItem ==
  ASSUME NEW items, NEW i \in items, \A j \in items : j.uuid = i.uuid => j = i, i.uuid # 0
  PROVE  NameOf(items, i.uuid) = i.name
<1>1. (CHOOSE j \in items : j.uuid = i.uuid) = i
  OBVIOUS
<1> QED
  BY <1>1 DEF NameOf

\* Copies are the file's image.
LEMMA CopiesMirror ==
  ASSUME NEW job, NEW serial, CopyAsked(job, serial, db.rows),
         NEW a, Copying(a, job, serial, db.rows), AllCopied(a, serial, Mirrored),
         Pointed(a, serial, job.tenant), file.settings \in SUBSET SomeScoped, db' = a.db
  PROVE  FileMirrored
<1> DEFINE rows == a.db.rows
           new == rows \ db.rows
           given(k) == Range(file.items[k])
<1>1. /\ rows \in SUBSET SomeRow /\ \A r, q \in rows : r.id = q.id => r = q
      /\ NewOrOld(rows, serial, db.rows) /\ Numbered(db.rows, serial) /\ serial \in Nat
  BY DEF Copying, GoodAcc, GoodDb, SomeDb, IdsOK, CopyAsked, GoodJob
<1>2. \A r \in rows : r.id > serial => r \in new
  BY <1>1 DEF Numbered
<1>3. ASSUME NEW k \in Kinds, NEW i \in given(k)
      PROVE  NameOf(given(k), i.uuid) = i.name
  <2>1. i.uuid # 0 /\ \A j \in given(k) : j.uuid = i.uuid => j = i
    BY DEF CopyAsked, GivenNames, Anonymous
  <2> HIDE DEF given
  <2> QED
    BY <2>1, NameOfItem
<1> HIDE DEF rows
<1>4. ASSUME NEW r, NEW i, Mirrors(rows, serial, r, i)
      PROVE  /\ r.name = i.name /\ r.data = i.data
             /\ NameAt(new, "group", r.up) = NameOf(given("group"), i.up)
  <2>1. r.name = i.name /\ r.data = i.data /\ Below(rows, serial, r, i)
    BY <1>4 DEF Mirrors
  <2>2. CASE i.up = 0
    <3>1. r.up = 0
      BY <2>1, <2>2 DEF Below
    <3>2. \A q \in new : q.id # 0
      BY <1>1 DEF SomeRow
    <3> QED
      BY <2>1, <2>2, <3>1, <3>2 DEF NameAt, NameOf
  <2>3. CASE i.up # 0
    <3>1. PICK g \in rows : /\ g.kind = "group" /\ g.id = r.up /\ g.id > serial
                            /\ \E j \in Range(file.items["group"]) : j.uuid = i.up /\ j.name = g.name
      BY <2>1, <2>3 DEF Below
    <3>2. PICK j \in given("group") : j.uuid = i.up /\ j.name = g.name
      BY <3>1
    <3>3. g \in new
      BY <1>2, <3>1
    <3>4. \A p, q \in new : p.id = q.id => p = q
      BY <1>1
    <3> HIDE DEF new
    <3>5. NameAt(new, "group", g.id) = g.name
      BY <3>1, <3>3, <3>4, NameOfNew
    <3>6. NameOf(given("group"), j.uuid) = j.name
      BY <1>3 DEF Kinds
    <3> QED
      BY <2>1, <3>1, <3>2, <3>5, <3>6
  <2> QED
    BY <2>2, <2>3
<1>5. ASSUME NEW k \in Mirrored
      PROVE  {<<r.name, r.data, NameAt(new, "group", r.up)>> : r \in {q \in new : q.kind = k}}
               = {<<i.name, i.data, NameOf(given("group"), i.up)>> : i \in given(k)}
  <2>1. ASSUME NEW r \in new, r.kind = k
        PROVE  \E i \in given(k) : Mirrors(rows, serial, r, i)
    BY <1>1, <2>1 DEF NewOrOld
  <2>2. ASSUME NEW i \in given(k)
        PROVE  \E r \in new : r.kind = k /\ Mirrors(rows, serial, r, i)
    <3>1. PICK r \in rows : /\ r.id > serial /\ r.kind = k
                            /\ Mirrors(rows, serial, r, i)
      BY DEF AllCopied, Copied, rows
    <3> QED
      BY <1>2, <3>1
  <2> HIDE DEF new, given
  <2>3. ASSUME NEW r \in new, r.kind = k
        PROVE  \E i \in given(k) : <<r.name, r.data, NameAt(new, "group", r.up)>> =
                                   <<i.name, i.data, NameOf(given("group"), i.up)>>
    BY <1>4, <2>1, <2>3
  <2>4. ASSUME NEW i \in given(k)
        PROVE  \E r \in new : /\ r.kind = k
                              /\ <<r.name, r.data, NameAt(new, "group", r.up)>> =
                                   <<i.name, i.data, NameOf(given("group"), i.up)>>
    BY <1>4, <2>2
  <2> QED
    BY <2>3, <2>4
<1>6. ASSUME NEW s \in file.settings, s.scope # "global", NEW i \in given(s.scope), i.uuid = s.ref
      PROVE  \E x \in a.db.settings : x.scope = s.scope
               /\ NameAt(new, s.scope, x.ref) = NameOf(given(s.scope), s.ref)
  <2>1. PICK r \in rows : /\ r.id > serial /\ r.kind = s.scope /\ r.name = i.name
                          /\ Owned(job.tenant, s.scope, r.id, s.value) \in a.db.settings
    BY <1>6 DEF Pointed, rows
  <2>2. r \in new /\ \A p, q \in new : p.id = q.id => p = q
    BY <1>1, <1>2, <2>1
  <2> HIDE DEF new
  <2>3. NameAt(new, s.scope, r.id) = r.name
    BY <2>1, <2>2, NameOfNew
  <2>4. s.scope \in Kinds
    BY <1>6 DEF SomeScoped, Places, Kinds
  <2>5. NameOf(given(s.scope), s.ref) = i.name
    BY <1>3, <1>6, <2>4
  <2> DEFINE x == Owned(job.tenant, s.scope, r.id, s.value)
  <2>6. x.scope = s.scope /\ x.ref = r.id
    BY DEF Owned
  <2> HIDE DEF x
  <2> QED
    BY <2>1, <2>3, <2>5, <2>6 DEF x
<1>7. db'.rows = rows /\ db'.settings = a.db.settings
  BY DEF rows
<1> DEFINE born == db'.rows \ db.rows
           nameOf(k, u) == IF u = 0 THEN 0
             ELSE (CHOOSE i \in Range(file.items[k]) : i.uuid = u).name
<1>8. born = new /\ \A k, u : nameOf(k, u) = NameOf(given(k), u)
  BY <1>7 DEF NameOf
<1> HIDE DEF new, born, nameOf
<1>9. ASSUME NEW k \in {"group", "monitor", "channel"}
      PROVE  {<<r.name, r.data, NameAt(born, "group", r.up)>> : r \in {q \in born : q.kind = k}}
               = {<<i.name, i.data, nameOf("group", i.up)>> : i \in Range(file.items[k])}
  BY <1>5, <1>8 DEF Mirrored
<1>10. ASSUME NEW s \in file.settings, s.scope # "global",
              \E i \in Range(file.items[s.scope]) : i.uuid = s.ref
       PROVE  \E x \in db'.settings : x.scope = s.scope
                /\ NameAt(born, s.scope, x.ref) = nameOf(s.scope, s.ref)
  BY <1>6, <1>7, <1>8, <1>10
<1> QED
  BY <1>9, <1>10 DEF FileMirrored, born, nameOf

\* An export is an image of the tenant.
LEMMA ExportIsImage ==
  ASSUME NamesInv, Export
  PROVE  Mirrorable(file', db.rows)
<1> DEFINE rows == HomeRows
<1>2. GoodDb(db) /\ NamesOK(db.rows) /\ db.serial = 8 /\ db.rows \in SUBSET SomeRow
  BY DEF GoodDb, SomeDb, Export, NamesInv, FilesOK, FileNamed
<1>3. /\ rows \in SUBSET SomeRow
      /\ rows \in SUBSET db.rows /\ \A r \in rows : r \in db.rows /\ r.tenant = "home"
  BY <1>2 DEF HomeRows
<1>4. \A k \in Kinds : Range(file'.items[k]) = {Item(rows, r) : r \in {q \in rows : q.kind = k}}
  <2>1. \A k \in Kinds : Range(file'.items[k]) = ItemsOf(k)
    BY <1>2, ExportItems
  <2> QED
    BY <2>1 DEF ItemsOf
<1> HIDE DEF rows
<1>5. ASSUME NEW k \in Kinds, NEW i \in Range(file'.items[k])
      PROVE  /\ \E r \in db.rows : Class(r) = k /\ r.uuid = i.uuid /\ r.tenant = "home"
             /\ i.up # 0 => \E j \in Range(file'.items["group"]) : j.uuid = i.up
  <2>1. PICK r \in rows : r.kind = k /\ i = Item(rows, r)
    BY <1>4
  <2>2. Item(rows, r).uuid = r.uuid
    BY <1>2, <1>3, <2>1, ItemNamed
  <2>3. r \in db.rows /\ Class(r) = k /\ r.tenant = "home"
    BY <1>3, <2>1 DEF Class, Kinds
  <2>4. ASSUME i.up # 0
        PROVE  \E j \in Range(file'.items["group"]) : j.uuid = i.up
    <3>1. i.up = UuidAt(rows, "group", r.up) /\ "group" \in Kinds
      BY <2>1 DEF Item, Kinds
    <3>2. PICK g \in rows : Class(g) = "group" /\ g.uuid = i.up
      BY <1>2, <1>3, <2>4, <3>1, UuidOfRow
    <3>3. g.kind = "group" /\ g.kind \in Kinds
      BY <3>1, <3>2 DEF Class
    <3>4. Item(rows, g).uuid = g.uuid
      BY <1>2, <1>3, <3>3, ItemNamed
    <3>5. Item(rows, g) \in Range(file'.items["group"])
      BY <1>4, <3>1, <3>3
    <3> QED
      BY <3>2, <3>4, <3>5
  <2> QED
    BY <2>1, <2>2, <2>3, <2>4
<1> QED
  BY <1>5 DEF Mirrorable

\* Edits and imports are counted.
LEMMA FreshStays ==
  ASSUME NamesInv, FreshFile, [Next]_vars
  PROVE  FreshFile'
<1>1. CASE UNCHANGED vars
  BY <1>1 DEF vars, FreshFile, Mirrorable
<1>2. CASE Export
  <2>1. UNCHANGED <<db, edits, imports>>
    BY <1>2 DEF Export
  <2>2. Mirrorable(file', db.rows)
    BY <1>2, ExportIsImage
  <2> QED
    BY <2>1, <2>2 DEF FreshFile, Mirrorable
<1>3. CASE Import
  <2>1. imports' = imports + 1 /\ edits' = edits
    BY <1>3 DEF Import
  <2> QED
    BY <2>1 DEF FreshFile
<1>4. CASE Change \/ Move \/ Delete \/ OmitUuids
  <2>1. edits' = edits + 1 /\ imports' = imports
    BY <1>4 DEF Change, Move, Delete, OmitUuids, Edited
  <2> QED
    BY <2>1 DEF FreshFile
<1> QED
  BY <1>1, <1>2, <1>3, <1>4 DEF Next

\* So a step is one.
LEMMA StepsMirror ==
  ASSUME NamesInv, FreshFile, [Next]_vars
  PROVE  CopyAsTheFile
<1> SUFFICES ASSUME imports' # imports, ~last'.failed, Named, imports = 0, edits = 0,
                    {"group", "monitor", "channel", "setting"} \subseteq last'.sections,
                    last'.strategy = "generateNew" \/ last'.tenant = "other"
             PROVE  FileMirrored
  BY DEF CopyAsTheFile
<1>1. FilesOK
  BY DEF NamesInv
<1>2. PICK tenant \in Tenants, strategy \in Strategies, sections \in SectionSets :
        ImportOf(JobOf(tenant, strategy, sections))
  BY <1>1, ImportSays
<1> DEFINE job == JobOf(tenant, strategy, sections)
           result == Imported(job)
<1>3. /\ db' = result.db /\ file # NoFile
      /\ {"group", "monitor", "channel", "setting"} \subseteq job.sections
      /\ job.strategy = "generateNew" \/ job.tenant = "other"
  <2> HIDE DEF job
  <2> QED
    BY <1>2 DEF ImportOf, job
<1>4. /\ GivenNames(file, db.rows) /\ Mirrorable(file, db.rows)
      /\ \A k \in Kinds : file.items[k] \in Seq(Items(k, db.serial, {0, 1}))
  BY <1>3 DEF NamesInv, FilesOK, FileOK, FileNamed, FreshFile
<1>5. /\ GoodJob(job, db.serial, {0, 1}, FALSE)
      /\ GoodAcc(Start(job), job, db.serial, {0, 1}, FALSE)
      /\ GivenOK(file, job, db.serial, {0, 1})
  BY <1>2 DEF ImportOf
<1>6. Start(job).db = db
  BY DEF Start
<1> HIDE DEF job
<1>7. Numbered(db.rows, db.serial)
  BY <1>1 DEF FilesOK, GoodDb, IdsOK, SomeDb, SomeRow, Numbered
<1>8. \A k \in Kinds : \A i \in Range(file.items[k]) : i.uuid # Anonymous
  BY <1>4, AllNamed
<1>9. CopyAsked(job, db.serial, db.rows)
  BY <1>3, <1>4, <1>5, <1>7, <1>8 DEF CopyAsked
<1>10. Copying(Start(job), job, db.serial, db.rows)
  BY <1>5, <1>6 DEF Copying, NewOrOld
<1>11. /\ Copying(result, job, db.serial, db.rows) /\ AllCopied(result, db.serial, Mirrored)
       /\ Pointed(result, db.serial, job.tenant)
  BY <1>3, <1>5, <1>9, <1>10, ImportedCopies
<1> HIDE DEF result
<1>12. file.settings \in SUBSET SomeScoped
  BY <1>5 DEF GivenOK
<1> QED
  BY <1>3, <1>9, <1>11, <1>12, CopiesMirror

\* A first import that copies gives an image of the file, whatever else it imports and
\* whichever order the file has its groups in (CopyMirrorsFile).
THEOREM CopiesMirrorFile == AdministrationSpec => CopyMirrorsFile
<1>1. AdministrationSpec => []NamesInv
  BY NamesHold
<1>2. [AdministrationNext]_administrationVars => [Next]_vars
  BY DEF AdministrationNext, administrationVars
<1>3. AdministrationInit => FreshFile
  BY DEF AdministrationInit, Init, FreshFile
<1>4. NamesInv /\ FreshFile /\ [Next]_vars => FreshFile'
  BY FreshStays
<1>5. NamesInv /\ FreshFile /\ [Next]_vars => [CopyAsTheFile]_vars
  BY StepsMirror
<1>6. CopyMirrorsFile <=> [][CopyAsTheFile]_vars
  BY DEF CopyMirrorsFile, CopyAsTheFile, FileMirrored
<1> QED
  BY <1>1, <1>2, <1>3, <1>4, <1>5, <1>6, PTL DEF AdministrationSpec
==============================================================================
