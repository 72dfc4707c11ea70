\* Files: every strategy, all sections or some, one edit and two imports.  Accounts: one
\* identity with two names, one team, and up to three accounts.
CONSTANTS
  SectionSets = {{"group", "monitor", "channel", "team", "action", "setting", "remedy"}, {"monitor", "setting"}}
  MaxEdits = 1
  MaxImports = 2
  NoFile = NoFile
  Identities = {i1}
  Names = {n1, n2}
  Teams = {t1}
  Requests = {r1, r2}
  Forms = {f1, f2}
  Local = Local
  MaxAccounts = 3
  Budgets <- MCBudgets
SYMMETRY Interchangeable
SPECIFICATION AdministrationSpec
INVARIANTS Consistent SignInSyncs SignInPossible
PROPERTIES StrategiesHold CopyMirrorsFile AdminRemains
CHECK_DEADLOCK FALSE
