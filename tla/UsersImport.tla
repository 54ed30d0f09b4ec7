----------------------------- MODULE UsersImport -----------------------------
(***************************************************************************)
(* import_jellyfin_users: each user of the list is looked up by its        *)
(* Jellyfin id, added or renamed, and flushed, one after the other; names  *)
(* are unique in the table, and one commit ends the import.                *)
(***************************************************************************)
EXTENDS Naturals, Sequences, SequencesExt

CONSTANTS
  JellyfinIds,     \* Jellyfin user ids
  JellyfinNames,
  NoName,  \* there is no such user
  MaxUsers \* bound: the length of Jellyfin's list

ASSUME UsersImportAssumption == MaxUsers \in Nat

VARIABLES
  names,     \* names[i]: the username of user i, committed
  importing  \* the names as flushed, the list, what is left of it

usersImport == <<names, importing>>

NotImporting == [at |-> "idle"]

\* Jellyfin's names are distinct, too.
UserLists ==
  {list \in UNION {[1..n -> JellyfinIds \X JellyfinNames] : n \in 1..MaxUsers} :
     \A m, n \in DOMAIN list : m # n => list[m][1] # list[n][1] /\ list[m][2] # list[n][2]}

UsersInit ==
  /\ names = [i \in JellyfinIds |-> NoName]
  /\ importing = NotImporting

StartsUsers(list) ==
  /\ importing = NotImporting
  /\ importing' = [at |-> "users", flushed |-> names, list |-> list, left |-> list]
  /\ UNCHANGED names

\* Bug: a user that is there keeps its name.
FlushedNewOnly(flushed, user) ==
  [flushed EXCEPT ![user[1]] = IF @ = NoName THEN user[2] ELSE @]

Flushed(flushed, user) == [flushed EXCEPT ![user[1]] = user[2]]

Collides(user) ==
  \E i \in JellyfinIds \ {user[1]} : importing.flushed[i] = user[2]

ImportsUser ==
  /\ importing.at = "users" /\ importing.left # <<>>
  /\ ~Collides(Head(importing.left))
  /\ importing' = [importing EXCEPT !.flushed = Flushed(@, Head(importing.left)), !.left = Tail(@)]
  /\ UNCHANGED names

\* The flush raises, and the import is rolled back and raised.
UsersFail ==
  /\ importing.at = "users" /\ importing.left # <<>>
  /\ Collides(Head(importing.left))
  /\ importing' = NotImporting
  /\ UNCHANGED names

UsersCommit ==
  /\ importing.at = "users" /\ importing.left = <<>>
  /\ names' = importing.flushed
  /\ importing' = NotImporting

UsersNext ==
  (\E list \in UserLists : StartsUsers(list)) \/ ImportsUser \/ UsersFail \/ UsersCommit

UsersSpec == UsersInit /\ [][UsersNext]_usersImport

\* An import leaves every listed user with its name and the others alone, or
\* nothing; and it is lost only if a listed name belongs to another user in the
\* table: a name that was handed on, or two that were exchanged
\* (jellyfin_users_service.py:58).
UsersMirrorJellyfin ==
  [][importing # NotImporting /\ importing' = NotImporting =>
       \/ \A i \in JellyfinIds : names'[i] =
            IF \E user \in Range(importing.list) : user[1] = i
            THEN (CHOOSE user \in Range(importing.list) : user[1] = i)[2] ELSE names[i]
       \/ /\ names' = names
          /\ \E user \in Range(importing.list) : \E i \in JellyfinIds \ {user[1]} : names[i] = user[2]
    ]_usersImport
=============================================================================
