--------------------------- MODULE Administration ---------------------------
(***************************************************************************)
(* What administrators do to a tenant's database, in one run of two        *)
(* topics: files exported and imported, and accounts.  They share no table *)
(* but teams, of which imports write the names and sign-ins the members.   *)
(***************************************************************************)
EXTENDS ImportExport, Accounts

VARIABLE topic

administrationVars == <<topic, vars, accountVars>>

\* The budgets that bring the ways to sign in, to lose an account and to lose the last
\* administrator together.
Budget(signs, changes, edited, crashed) ==
  [signIns |-> signs, gate |-> changes, admin |-> edited, crashes |-> crashed]
MCBudgets == {Budget(2, 2, 0, 0), Budget(3, 1, 0, 0), Budget(1, 1, 0, 1), Budget(1, 1, 1, 0),
              Budget(2, 0, 1, 0), Budget(0, 1, 2, 0), Budget(0, 0, 3, 1)}

\* Which request of two is which makes no difference.
Interchangeable == Permutations(Requests) \cup Permutations(Forms)

\* The tables of the other topic are at rest.
FilesAtRest ==
  /\ Cardinality(db.closure) = 2
  /\ db.settings = {Owned("home", "global", 0, 0)}
  /\ Row("monitor", 3, "home", 1, 3) \in db.rows /\ Row("team", 6, "home", 0, 0) \in db.rows
AccountsAtRest ==
  /\ left = CHOOSE b \in Budgets : TRUE
  /\ \A t \in Teams : scope[t] = {1}
  /\ \A i \in Identities : gate[i].teams = {}

\* Which of the interchangeable names an identity starts with makes no difference.
AdministrationInit ==
  /\ topic \in {"files", "accounts"}
  /\ Init /\ AccountsInit
  /\ \A i \in Identities : gate[i].name = CHOOSE n \in Names : TRUE
  /\ topic = "accounts" => FilesAtRest
  /\ topic = "files" => AccountsAtRest

AdministrationNext ==
  /\ UNCHANGED topic
  /\ \/ topic = "files" /\ Next /\ UNCHANGED accountVars
     \/ topic = "accounts" /\ AccountsNext /\ UNCHANGED vars

AdministrationSpec == AdministrationInit /\ [][AdministrationNext]_administrationVars
=============================================================================
