--------------------------- MODULE ServiceSettings ---------------------------
(***************************************************************************)
(* The configuration of one service: PUT with an optional url and api_key, *)
(* and DELETE.  A PUT reads the row twice, once to fill in what the body   *)
(* omits and once to decide between INSERT and UPDATE; the second read     *)
(* finds the object of the first in the session, with the values of the    *)
(* first.  An UPDATE writes the columns that differ from what was read,    *)
(* and a key encrypted anew always differs.                                *)
(***************************************************************************)
EXTENDS Naturals

CONSTANTS
  Urls, Keys,
  Omitted,   \* a field that the body leaves out
  NoConfig,
  Puts,      \* PUTs that may overlap
  MaxIds     \* bound: the rows that are ever inserted

ASSUME ServiceSettingsAssumption ==
  /\ MaxIds \in Nat
  /\ Omitted \notin Urls \cup Keys
  /\ NoConfig \notin [id : Nat, url : Urls, key : Keys]

VARIABLES
  config,  \* the row of the service, or NoConfig
  put,     \* put[q]: a PUT under way
  ids      \* how many rows there have been

settings == <<config, put, ids>>

Ended == [at |-> "ended"]

SettingsInit ==
  /\ config = NoConfig
  /\ put = [q \in Puts |-> Ended]
  /\ ids = 0

\* Bug: an empty key is stored for one that is left out.
MergedUrlOnly(body, old) == [url |-> IF body.url = Omitted THEN old.url ELSE body.url, key |-> body.key]

Merged(body, old) ==
  [url |-> IF body.url = Omitted THEN old.url ELSE body.url,
   key |-> IF body.key = Omitted THEN old.key ELSE body.key]

\* upsert_service up to the merge.  A first PUT needs both fields, else 422.
ReadsConfig(q, body) ==
  /\ put[q] = Ended
  /\ config = NoConfig => body.url # Omitted /\ body.key # Omitted
  /\ put' = [put EXCEPT ![q] =
       [at |-> "merged", body |-> body, read |-> config, raced |-> FALSE,
        to |-> IF config = NoConfig THEN body ELSE Merged(body, config)]]
  /\ UNCHANGED <<config, ids>>

\* The row that was read is still there.
StillThere(q) == put[q].read # NoConfig /\ config # NoConfig /\ config.id = put[q].read.id

\* The session has an object for it, and keeps what was read.
Loaded(q) == IF StillThere(q) THEN put[q].read ELSE config

\* upsert_config reads.
FindsConfig(q) ==
  /\ put[q].at = "merged"
  /\ put' = [put EXCEPT ![q].at = "found", ![q].read = Loaded(q)]
  /\ UNCHANGED <<config, ids>>

\* A commit that raced the other PUTs.
Raced(q) ==
  [p \in Puts |-> IF p = q THEN Ended
                  ELSE IF put[p] # Ended THEN [put[p] EXCEPT !.raced = TRUE] ELSE put[p]]

Inserts(q) ==
  /\ put[q].at = "found" /\ put[q].read = NoConfig /\ config = NoConfig
  /\ ids < MaxIds
  /\ config' = [id |-> ids + 1, url |-> put[q].to.url, key |-> put[q].to.key]
  /\ ids' = ids + 1
  /\ put' = Raced(q)

Updates(q) ==
  LET read == put[q].read IN
  /\ put[q].at = "found" /\ StillThere(q)
  /\ config' = [config EXCEPT !.url = IF put[q].to.url = read.url THEN @ ELSE put[q].to.url,
                              !.key = put[q].to.key]
  /\ put' = Raced(q)
  /\ UNCHANGED ids

\* The unique index refuses a second row; an UPDATE of a row that is gone raises.
PutFails(q) ==
  /\ put[q].at = "found"
  /\ ~StillThere(q) /\ {config, put[q].read} # {NoConfig}
  /\ put' = [put EXCEPT ![q] = Ended]
  /\ UNCHANGED <<config, ids>>

Deletes ==
  /\ config # NoConfig
  /\ config' = NoConfig
  /\ put' = [q \in Puts |-> IF put[q] # Ended THEN [put[q] EXCEPT !.raced = TRUE] ELSE Ended]
  /\ UNCHANGED ids

SettingsNext ==
  \/ Deletes
  \/ \E q \in Puts :
       \/ FindsConfig(q) \/ Inserts(q) \/ Updates(q) \/ PutFails(q)
       \/ \E url \in Urls \cup {Omitted}, key \in Keys \cup {Omitted} :
            ReadsConfig(q, [url |-> url, key |-> key])

SettingsSpec == SettingsInit /\ [][SettingsNext]_settings

\* "Partial update is supported: omit a field to keep the existing value"
\* (settings.py:67).  It is kept unless another PUT or a DELETE commits in between;
\* a url is kept even then, as long as the row is the one that was read first: an
\* overlapping PUT can only have its key undone.
OmittedIsKept ==
  [][\A q \in Puts :
       put[q].at = "found" /\ config # NoConfig /\ config' \notin {config, NoConfig} /\ put'[q] = Ended =>
         /\ put[q].body.url = Omitted /\ put[q].read.id = config.id /\ put[q].to.url = put[q].read.url
              => config'.url = config.url
         /\ put[q].body.key = Omitted /\ ~put[q].raced => config'.key = config.key]_settings
=============================================================================
