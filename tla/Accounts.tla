------------------------------- MODULE Accounts -------------------------------
(***************************************************************************)
(* The account of the app: registration, its recovery code and password.   *)
(* A request reads in its session and commits later; what it writes are    *)
(* the columns it has set.  Passwords and codes are hashed in the table;   *)
(* here they stand for themselves.                                         *)
(***************************************************************************)
EXTENDS Naturals, FiniteSets

CONSTANTS
  Rows,       \* bound: rows of app_users, in the order of their ids
  Usernames,
  Passwords,
  Requests,   \* requests that may overlap
  MaxCodes,   \* bound: the recovery codes that are generated
  NoAccount

AppUser == [name : Usernames, password : Passwords, code : Nat]

ASSUME AccountsAssumption ==
  Rows \subseteq Nat /\ MaxCodes \in Nat /\ NoAccount \notin AppUser

VARIABLES
  account,  \* account[i]: row i of app_users
  request,  \* request[q]: what request q has read
  codes,    \* generate_recovery_code: how many codes there are
  shown,    \* history: the code last shown for each row
  used,     \* history: the codes that have reset a password
  overlaps  \* history: the kinds of requests that another commit has raced

accounts == <<account, request, codes, shown, used, overlaps>>

Free == [kind |-> "none"]

Registered == {i \in Rows : account[i] # NoAccount}

AccountsInit ==
  /\ account = [i \in Rows |-> NoAccount]
  /\ request = [q \in Requests |-> Free]
  /\ codes = 0
  /\ shown = [i \in Rows |-> 0]
  /\ used = {}
  /\ overlaps = {}

-----------------------------------------------------------------------------
(* The reads, with their refusals.  Plausible bugs, which no specification  *)
(* uses, stand before the definitions they spoil.                           *)

\* Bug: only the name is looked up.
SetupRequiredByName(name) == \A i \in Registered : account[i].name # name

\* is_setup_required, and the name is not taken.
SetupRequired(name) == Registered = {}

Begins(q, what) ==
  /\ request[q] = Free
  /\ request' = [request EXCEPT ![q] = what]
  /\ UNCHANGED <<account, codes, shown, used, overlaps>>

BeginsRegister(q, name, password) ==
  /\ SetupRequired(name)
  /\ Begins(q, [kind |-> "register", name |-> name, password |-> password, raced |-> FALSE])

\* reset_password_with_code finds the row by the code.
BeginsReset(q, i, password) ==
  /\ i \in Registered
  /\ Begins(q, [kind |-> "reset", row |-> i, code |-> account[i].code, password |-> password,
                raced |-> FALSE])

\* reset_password_cli takes the first row and no code.
BeginsCli(q, i, password) ==
  /\ i \in Registered /\ \A j \in Registered : i <= j
  /\ Begins(q, [kind |-> "cli", row |-> i, password |-> password, raced |-> FALSE])

\* GET /recovery-code makes a new one.
BeginsRegenerate(q, i) ==
  /\ i \in Registered
  /\ Begins(q, [kind |-> "regenerate", row |-> i, raced |-> FALSE])

\* change_password verifies the current one.
BeginsChange(q, i, current, password) ==
  /\ i \in Registered /\ account[i].password = current
  /\ Begins(q, [kind |-> "change", row |-> i, password |-> password, raced |-> FALSE])

\* update_user_profile: nobody else has the name.
BeginsRename(q, i, name) ==
  /\ i \in Registered /\ \A j \in Registered \ {i} : account[j].name # name
  /\ Begins(q, [kind |-> "rename", row |-> i, name |-> name, raced |-> FALSE])

-----------------------------------------------------------------------------
(* The commits.                                                             *)

NewCode == codes + 1

\* Bug: the old code stays in force.
WrittenKeepingCode(old, what) ==
  CASE what.kind = "change" -> [old EXCEPT !.password = what.password]
    [] what.kind = "rename" -> [old EXCEPT !.name = what.name]
    [] what.kind = "regenerate" -> [old EXCEPT !.code = NewCode]
    [] what.kind \in {"reset", "cli"} -> [old EXCEPT !.password = what.password]

Written(old, what) ==
  CASE what.kind = "change" -> [old EXCEPT !.password = what.password]
    [] what.kind = "rename" -> [old EXCEPT !.name = what.name]
    [] what.kind = "regenerate" -> [old EXCEPT !.code = NewCode]
    [] what.kind \in {"reset", "cli"} ->
         [old EXCEPT !.password = what.password, !.code = NewCode]

ShowsCode(what) == what.kind \in {"register", "reset", "cli", "regenerate"}

\* The request ends; those that have read are raced if it has written.
Ends(q, writes) ==
  request' = [p \in Requests |->
    IF p = q THEN Free
    ELSE IF writes /\ request[p] # Free THEN [request[p] EXCEPT !.raced = TRUE] ELSE request[p]]

NameTaken(q) ==
  /\ request[q].kind \in {"register", "rename"}
  /\ \E i \in Registered : /\ account[i].name = request[q].name
                           /\ request[q].kind = "rename" => i # request[q].row

\* The row that a request writes: its own, or a new one.
RowOf(q, i) ==
  IF request[q].kind = "register" THEN i \notin Registered /\ \A j \in Rows \ Registered : i <= j
  ELSE i = request[q].row

Commits(q, i) ==
  LET what == request[q] IN
  /\ what # Free /\ RowOf(q, i) /\ ~NameTaken(q)
  /\ ShowsCode(what) => codes < MaxCodes
  /\ account' = [account EXCEPT ![i] =
       IF what.kind = "register"
       THEN [name |-> what.name, password |-> what.password, code |-> NewCode]
       ELSE Written(@, what)]
  /\ codes' = IF ShowsCode(what) THEN NewCode ELSE codes
  /\ shown' = IF ShowsCode(what) THEN [shown EXCEPT ![i] = NewCode] ELSE shown
  /\ used' = IF what.kind = "reset" THEN used \cup {what.code} ELSE used
  /\ overlaps' = IF what.raced THEN overlaps \cup {what.kind} ELSE overlaps
  /\ Ends(q, TRUE)

\* The unique index on username refuses.
Refused(q) ==
  /\ request[q] # Free /\ NameTaken(q)
  /\ Ends(q, FALSE)
  /\ UNCHANGED <<account, codes, shown, used, overlaps>>

AccountsNext ==
  \E q \in Requests :
    \/ \E name \in Usernames, password \in Passwords : BeginsRegister(q, name, password)
    \/ \E i \in Rows :
         \/ \E password \in Passwords :
              \/ BeginsReset(q, i, password) \/ BeginsCli(q, i, password)
              \/ \E current \in Passwords : BeginsChange(q, i, current, password)
         \/ \E name \in Usernames : BeginsRename(q, i, name)
         \/ BeginsRegenerate(q, i)
         \/ Commits(q, i)
    \/ Refused(q)

AccountsSpec == AccountsInit /\ [][AccountsNext]_accounts

-----------------------------------------------------------------------------
\* There is one account: a second needs two first registrations at once, each
\* counting before the other commits (auth_service.py:31).
OneAccount == "register" \in overlaps \/ Cardinality(Registered) <= 1

\* A code that has reset a password is not in force any more, whatever overlaps;
\* and the code that is in force is the one last made to be shown, by registration,
\* reset, command line or request (auth_service.py:149).
OneCodeInForce ==
  \A i \in Registered : account[i].code \notin used /\ account[i].code = shown[i]
=============================================================================
