------------------------------- MODULE Sessions -------------------------------
(***************************************************************************)
(* The sessions of one account: the refresh tokens of the server, the      *)
(* cookies that the tabs of a browser share, and the calls of the tabs     *)
(* with the hook that answers a 401 by a refresh.                          *)
(*                                                                         *)
(* A request carries the cookies of the moment it is sent; its answer sets *)
(* cookies when it arrives.  The server reads and commits in one           *)
(* transaction, between which other requests commit.                       *)
(***************************************************************************)
EXTENDS Naturals, FiniteSets

CONSTANTS
  Tabs,
  Calls,       \* calls that may be under way
  TabOf,       \* TabOf[c]: the tab of call c
  KindsOf,     \* KindsOf[c]: what call c may be
  Tokens,      \* bound: the refresh tokens that may be issued, in their order
  NoToken,
  MaxExpiries  \* bound: how often an access token expires

Kinds == {"get", "logout", "password"}

ASSUME SessionsAssumption ==
  /\ TabOf \in [Calls -> Tabs] /\ KindsOf \in [Calls -> SUBSET Kinds]
  /\ NoToken \notin Tokens /\ IsFiniteSet(Tokens) /\ Tokens \subseteq Nat
  /\ MaxExpiries \in Nat
  /\ Tabs \cap (Kinds \cup {"nobody", "time"}) = {}  \* what can be in history.spender

VARIABLES
  token,     \* token[k]: refresh_tokens, "unused" before the row is there
  jar,       \* the cookies: is there an access token, and which refresh token
  call,      \* call[c]: where call c is
  place,     \* place[t]: the page of tab t, "app" or "auth"
  expiries,
  history    \* who spent a token; tokens whose new cookies were lost; the login
             \* each token goes back to; refreshes that overlapped another commit

sessions == <<token, jar, call, place, expiries, history>>

Idle == [at |-> "idle"]

NoCookies == [access |-> FALSE, refresh |-> NoToken]

Under(t, at) == {c \in Calls : TabOf[c] = t /\ call[c].at = at}

RefreshPlaces == {"refreshing", "reading", "renewed", "denied"}

\* isRefreshing && refreshPromise
Refreshing(t) == \E c \in Calls : TabOf[c] = t /\ call[c].at \in RefreshPlaces

SessionsInit ==
  /\ token = [k \in Tokens |-> "unused"]
  /\ jar = NoCookies
  /\ call = [c \in Calls |-> Idle]
  /\ place = [t \in Tabs |-> "auth"]
  /\ expiries = 0
  /\ history = [spender |-> [k \in Tokens |-> "nobody"], lost |-> {},
                root |-> [k \in Tokens |-> k], forked |-> {}, survivors |-> {},
                outlived |-> {}]

Unused == {k \in Tokens : token[k] = "unused"}

\* A fresh random token.
IsFresh(k) == k \in Unused /\ \A l \in Unused : k <= l

\* The bound Tokens leaves one for every call under way.
HasRoom == Cardinality(Unused) > Cardinality({c \in Calls : call[c] # Idle})

-----------------------------------------------------------------------------
(* The pages.                                                               *)

\* POST login on a tab's sign-in page, from the request to its cookies.
Login(t) ==
  \E k \in Tokens :
    /\ place[t] = "auth" /\ IsFresh(k) /\ HasRoom
    /\ \A c \in Calls : TabOf[c] = t => call[c] = Idle
    /\ token' = [token EXCEPT ![k] = "valid"]
    /\ jar' = [access |-> TRUE, refresh |-> k]
    /\ place' = [place EXCEPT ![t] = "app"]
    /\ UNCHANGED <<call, expiries, history>>

\* A tab is taken to the app; the first call of its AuthGuard is like any other.
OpensApp(t) ==
  /\ place[t] = "auth"
  /\ \A c \in Calls : TabOf[c] = t => call[c] = Idle
  /\ place' = [place EXCEPT ![t] = "app"]
  /\ UNCHANGED <<token, jar, call, expiries, history>>

Sent(kind, retried) ==
  [at |-> "sent", kind |-> kind, retried |-> retried, access |-> jar.access,
   refresh |-> jar.refresh]

Sends(c, kind) ==
  /\ call[c] = Idle /\ place[TabOf[c]] = "app" /\ HasRoom
  /\ call' = [call EXCEPT ![c] = Sent(kind, FALSE)]
  /\ UNCHANGED <<token, jar, place, expiries, history>>

\* The access token, and with it its cookie, lasts 15 minutes.
AccessExpires ==
  /\ jar.access /\ expiries < MaxExpiries
  /\ jar' = [jar EXCEPT !.access = FALSE]
  /\ expiries' = expiries + 1
  /\ UNCHANGED <<token, call, place, history>>

\* The refresh token lasts 30 days.
RefreshExpires(k) ==
  /\ token[k] = "valid" /\ expiries < MaxExpiries
  /\ token' = [token EXCEPT ![k] = "revoked"]
  /\ expiries' = expiries + 1
  /\ history' = [history EXCEPT !.spender[k] = "time"]
  /\ UNCHANGED <<jar, call, place>>

-----------------------------------------------------------------------------
(* The server.  Plausible bugs, which no specification uses, stand before   *)
(* the definitions they spoil.                                              *)

\* Bug: only the session that changes the password ends.
RevokedOnlyOwn(c) ==
  [k \in Tokens |-> IF token[k] = "valid" /\ k = call[c].refresh THEN "revoked" ELSE token[k]]

\* change_password: UPDATE refresh_tokens SET revoked WHERE NOT revoked.
RevokedAll(c) == [k \in Tokens |-> IF token[k] = "valid" THEN "revoked" ELSE token[k]]

\* revoke_refresh_token
RevokedOne(c) ==
  [k \in Tokens |-> IF k = call[c].refresh /\ token[k] = "valid" THEN "revoked" ELSE token[k]]

Revoked(c) == CASE call[c].kind = "logout" -> RevokedOne(c)
                [] call[c].kind = "password" -> RevokedAll(c)
                [] OTHER -> token

\* get_current_user lets the call through, and its handler commits.
Serves(c) ==
  /\ call[c].at = "sent" /\ call[c].access
  /\ token' = Revoked(c)
  /\ history' = [history EXCEPT
       !.spender = [k \in Tokens |-> IF token'[k] # token[k] THEN call[c].kind ELSE @[k]],
       !.outlived = IF call[c].kind = "password"
                    THEN @ \cup {k \in Tokens : token[k] # "unused"} ELSE @,
       !.survivors = IF call[c].kind = "password"
                     THEN @ \cup {d \in Calls : call[d].at = "reading"} ELSE @]
  /\ call' = [call EXCEPT ![c] = [at |-> "served", kind |-> @.kind]]
  /\ UNCHANGED <<jar, place, expiries>>

\* The answer arrives; logout's clears the cookies.
Arrives(c) ==
  /\ call[c].at = "served"
  /\ call' = [call EXCEPT ![c] = Idle]
  /\ jar' = IF call[c].kind = "logout" THEN NoCookies ELSE jar
  /\ place' = IF call[c].kind = "logout" THEN [place EXCEPT ![TabOf[c]] = "auth"] ELSE place
  /\ UNCHANGED <<token, expiries, history>>

-----------------------------------------------------------------------------
(* The refresh.                                                             *)

\* Bug: nobody waits for a refresh that is under way.
AfterDenialAlone(c) == "refreshing"

\* The hook on a 401: wait for the tab's refresh, or start it.
AfterDenial(c) == IF Refreshing(TabOf[c]) THEN "waiting" ELSE "refreshing"

\* The 401 arrives; the refresh is sent at once, with the cookies of now.  A
\* call that was sent again has no hook: its 401 is its answer.
Denied(c) ==
  /\ call[c].at = "sent" /\ ~call[c].access
  /\ call' = [call EXCEPT ![c] =
       IF @.retried THEN Idle
       ELSE [at |-> AfterDenial(c), kind |-> @.kind, refresh |-> jar.refresh]]
  /\ UNCHANGED <<token, jar, place, expiries, history>>

\* refresh_access_token reads the token.
ReadsToken(c) ==
  /\ call[c].at = "refreshing"
  /\ LET valid == call[c].refresh # NoToken /\ token[call[c].refresh] = "valid" IN
     call' = [call EXCEPT ![c].at = IF valid THEN "reading" ELSE "denied"]
  /\ UNCHANGED <<token, jar, place, expiries, history>>

\* Bug: the old token stays valid.
RotatedTokenAdded(old, new) == [token EXCEPT ![new] = "valid"]

\* The old token is revoked and a new one made, whatever has happened since.
RotatedToken(old, new) == [token EXCEPT ![old] = "revoked", ![new] = "valid"]

CommitsRefresh(c) ==
  \E new \in Tokens : LET old == call[c].refresh IN
    /\ call[c].at = "reading" /\ IsFresh(new)
    /\ token' = RotatedToken(old, new)
    /\ call' = [call EXCEPT ![c] = [at |-> "renewed", kind |-> @.kind, refresh |-> new, sent |-> old]]
    /\ history' = [history EXCEPT
         !.spender[old] = TabOf[c],
         !.root[new] = history.root[old],
         !.forked = IF token[old] = "valid" THEN @ ELSE @ \cup {history.root[old]},
         !.survivors = @ \ {c},
         !.outlived = IF c \notin history.survivors /\ old \in @ THEN @ \cup {new} ELSE @]
    /\ UNCHANGED <<jar, place, expiries>>

\* Bug: only the call that started the refresh is sent again.
WokenAlone(c, cookies) ==
  [call EXCEPT ![c] = [at |-> "sent", kind |-> @.kind, retried |-> TRUE,
                       access |-> cookies.access, refresh |-> cookies.refresh]]

\* Every call of the tab that waits is sent again.
Woken(c, cookies) ==
  [d \in Calls |->
     IF d = c \/ d \in Under(TabOf[c], "waiting")
     THEN [at |-> "sent", kind |-> call[d].kind, retried |-> TRUE, access |-> cookies.access,
           refresh |-> cookies.refresh]
     ELSE call[d]]

RefreshArrives(c) ==
  /\ call[c].at = "renewed"
  /\ jar' = [access |-> TRUE, refresh |-> call[c].refresh]
  /\ call' = Woken(c, jar')
  /\ UNCHANGED <<token, place, expiries, history>>

\* The refresh throws: the page goes to /auth, and the calls that wait end.
SignsOut(c) ==
  /\ call' = [d \in Calls |-> IF d = c \/ d \in Under(TabOf[c], "waiting") THEN Idle ELSE call[d]]
  /\ place' = [place EXCEPT ![TabOf[c]] = "auth"]

RefreshDenied(c) ==
  /\ call[c].at = "denied"
  /\ SignsOut(c)
  /\ UNCHANGED <<token, jar, expiries, history>>

\* The answer is lost, and with it the cookies.
RefreshLost(c) ==
  /\ call[c].at = "renewed"
  /\ SignsOut(c)
  /\ history' = [history EXCEPT !.lost = @ \cup {call[c].sent}]
  /\ UNCHANGED <<token, jar, expiries>>

-----------------------------------------------------------------------------
Progress(c) ==
  \/ Serves(c) \/ Arrives(c) \/ Denied(c)
  \/ ReadsToken(c) \/ CommitsRefresh(c) \/ RefreshArrives(c) \/ RefreshDenied(c)

SessionsNext ==
  \/ \E t \in Tabs : Login(t) \/ OpensApp(t)
  \/ \E c \in Calls : Progress(c) \/ RefreshLost(c) \/ \E kind \in KindsOf[c] : Sends(c, kind)
  \/ \E k \in Tokens : RefreshExpires(k)
  \/ AccessExpires

SessionsSpec == SessionsInit /\ [][SessionsNext]_sessions

\* Servers and networks answer; they need not do so in order.
SessionsFairness == \A c \in Calls : WF_sessions(Progress(c))

-----------------------------------------------------------------------------
\* A tab is refused a refresh only for what it did not do itself by refreshing:
\* the token was spent by another tab, by a logout or a password change, by time,
\* or its own new cookies were lost.  Two calls of one tab that fail together
\* share one refresh, and one that fails late sends the new cookie (client.ts:26).
OwnRefreshNeverSignsOut ==
  \A c \in Calls : call[c].at = "denied" /\ call[c].refresh # NoToken =>
    \/ history.spender[call[c].refresh] # TabOf[c]
    \/ call[c].refresh \in history.lost

\* Rotation: the tokens that go back to one login are one valid token at most,
\* unless two refreshes have read the same one as valid (auth_service.py:110).
OneTokenPerLogin ==
  \A k, l \in Tokens :
    /\ token[k] = "valid" /\ token[l] = "valid"
    /\ history.root[k] = history.root[l] /\ history.root[k] \notin history.forked
    => k = l

\* A password change ends the sessions that were there, and what they refresh to:
\* only a refresh that had read its token before survives (auth_service.py:176).
PasswordChangeEndsSessions ==
  \A k \in history.outlived : token[k] # "valid"

\* Every call is answered, or its tab signs out: no call waits for a refresh that
\* has ended.
CallsEnd == \A c \in Calls : call[c].at # "idle" ~> call[c].at = "idle"
=============================================================================
