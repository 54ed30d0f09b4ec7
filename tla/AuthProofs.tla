----------------------------- MODULE AuthProofs -----------------------------
(***************************************************************************)
(* Proofs about authentication. Sessions, for any number of tabs, calls    *)
(* and tokens: what the rotation of refresh tokens, the revocation by a    *)
(* password change and the hook of the client promise. Accounts, for any   *)
(* number of rows, requests and codes: one account, and one recovery code  *)
(* in force.                                                               *)
(***************************************************************************)
EXTENDS Sessions, Accounts, FiniteSetTheorems, TLAPS

-----------------------------------------------------------------------------
(* Sessions.                                                                *)

Cookie == Tokens \cup {NoToken}

CallStates ==
  {Idle} \cup [at : {"sent"}, kind : Kinds, retried : BOOLEAN, access : BOOLEAN, refresh : Cookie]
  \cup [at : {"served"}, kind : Kinds]
  \cup [at : {"refreshing", "waiting", "denied"}, kind : Kinds, refresh : Cookie]
  \cup [at : {"reading"}, kind : Kinds, refresh : Tokens]
  \cup [at : {"renewed"}, kind : Kinds, refresh : Tokens, sent : Tokens]

Histories ==
  [spender : [Tokens -> Tabs \cup Kinds \cup {"nobody", "time"}], lost : SUBSET Tokens,
   root : [Tokens -> Tokens], forked : SUBSET Tokens, survivors : SUBSET Calls,
   outlived : SUBSET Tokens]

SessionsTyped ==
  /\ token \in [Tokens -> {"unused", "valid", "revoked"}]
  /\ jar \in [access : BOOLEAN, refresh : Cookie]
  /\ call \in [Calls -> CallStates]
  /\ history \in Histories

\* Call c refreshes with token k, or brings it.
Holds(c, k) == call[c].at \in RefreshPlaces /\ call[c].refresh = k

\* A token that was not issued yet is nowhere.
UnusedAreUnknown ==
  \A k \in Tokens : token[k] = "unused" =>
    /\ history.root[k] = k /\ history.spender[k] = "nobody" /\ k \notin history.outlived
    /\ jar.refresh # k /\ \A c \in Calls : ~Holds(c, k)

SInv == SessionsTyped /\ UnusedAreUnknown

-----------------------------------------------------------------------------
(* What the steps do, field by field.                                       *)

LEMMA LoginFacts ==
  ASSUME SInv, NEW t \in Tabs, Login(t)
  PROVE  \E k \in Tokens :
           /\ token[k] = "unused" /\ token' = [token EXCEPT ![k] = "valid"]
           /\ jar' = [access |-> TRUE, refresh |-> k] /\ jar'.refresh = k
           /\ UNCHANGED <<call, history>>
<1>1. PICK k \in Tokens :
        /\ IsFresh(k) /\ token' = [token EXCEPT ![k] = "valid"]
        /\ jar' = [access |-> TRUE, refresh |-> k] /\ UNCHANGED <<call, history>>
  BY DEF Login
<1> QED
  BY <1>1 DEF IsFresh, Unused

\* A call that refreshes knows which token with; one that has read it, knows one
\* that was issued.
LEMMA CallFacts ==
  ASSUME SessionsTyped, NEW c \in Calls
  PROVE  /\ call[c].at \in {"idle", "sent", "served", "refreshing", "waiting", "denied",
                            "reading", "renewed"}
         /\ call[c].at = "idle" => call[c] = Idle
         /\ call[c].at # "idle" => call[c].kind \in Kinds
         /\ call[c].at \notin {"idle", "served"} => call[c].refresh \in Cookie
         /\ call[c].at = "reading" =>
              call[c] \in [at : {"reading"}, kind : Kinds, refresh : Tokens]
         /\ call[c].at = "renewed" =>
              call[c] \in [at : {"renewed"}, kind : Kinds, refresh : Tokens, sent : Tokens]
         /\ call[c].at = "refreshing" =>
              call[c] \in [at : {"refreshing"}, kind : Kinds, refresh : Cookie]
<1>1. call[c] \in CallStates
  BY DEF SessionsTyped
<1>2. CASE call[c] = Idle
  BY <1>2 DEF Idle
<1>3. CASE call[c] \in [at : {"sent"}, kind : Kinds, retried : BOOLEAN, access : BOOLEAN,
                        refresh : Cookie]
  BY <1>3
<1>4. CASE call[c] \in [at : {"served"}, kind : Kinds]
  BY <1>4
<1>5. CASE call[c] \in [at : {"refreshing", "waiting", "denied"}, kind : Kinds, refresh : Cookie]
  BY <1>5
<1>6. CASE call[c] \in [at : {"reading"}, kind : Kinds, refresh : Tokens]
  BY <1>6 DEF Cookie
<1>7. CASE call[c] \in [at : {"renewed"}, kind : Kinds, refresh : Tokens, sent : Tokens]
  BY <1>7 DEF Cookie
<1> QED
  BY <1>1, <1>2, <1>3, <1>4, <1>5, <1>6, <1>7 DEF CallStates

LEMMA SendsFacts ==
  ASSUME SInv, NEW c \in Calls, NEW kind \in KindsOf[c], Sends(c, kind)
  PROVE  /\ call'[c].at = "sent" /\ \A d \in Calls \ {c} : call'[d] = call[d]
         /\ call' \in [Calls -> CallStates] /\ UNCHANGED <<token, jar, history>>
<1>1. kind \in Kinds
  BY SessionsAssumption
<1>2. Sent(kind, FALSE) \in CallStates /\ Sent(kind, FALSE).at = "sent"
  BY <1>1 DEF SInv, SessionsTyped, Sent, CallStates
<1> QED
  BY <1>2 DEF Sends, SInv, SessionsTyped

LEMMA ServesFacts ==
  ASSUME SInv, NEW c \in Calls, Serves(c)
  PROVE  /\ call[c].at = "sent" /\ call'[c].at = "served"
         /\ \A d \in Calls \ {c} : call'[d] = call[d]
         /\ call' \in [Calls -> CallStates] /\ jar' = jar
         /\ token' \in [Tokens -> {"unused", "valid", "revoked"}]
         /\ \A k \in Tokens : token'[k] = token[k] \/ (token[k] = "valid" /\ token'[k] = "revoked")
         /\ call[c].kind = "password" => \A k \in Tokens : token'[k] # "valid"
         /\ history' \in Histories
         /\ \A k \in Tokens :
              \/ history'.spender[k] = history.spender[k]
              \/ token'[k] # token[k] /\ history'.spender[k] \in Kinds
         /\ history'.root = history.root /\ history'.forked = history.forked
         /\ history'.lost = history.lost
         /\ history'.outlived = IF call[c].kind = "password"
              THEN history.outlived \cup {k \in Tokens : token[k] # "unused"}
              ELSE history.outlived
         /\ history'.survivors = IF call[c].kind = "password"
              THEN history.survivors \cup {d \in Calls : call[d].at = "reading"}
              ELSE history.survivors
<1>1. call[c].at = "sent" /\ call[c].kind \in Kinds
  BY CallFacts DEF SInv, Serves
<1>2. call' = [call EXCEPT ![c] = [at |-> "served", kind |-> call[c].kind]]
  BY DEF Serves
<1>3. [at |-> "served", kind |-> call[c].kind] \in CallStates
  BY <1>1 DEF CallStates
<1>4. call' \in [Calls -> CallStates] /\ call'[c].at = "served"
      /\ \A d \in Calls \ {c} : call'[d] = call[d]
  BY <1>2, <1>3 DEF SInv, SessionsTyped
<1>5. /\ token' \in [Tokens -> {"unused", "valid", "revoked"}]
      /\ \A k \in Tokens : token'[k] = token[k] \/ (token[k] = "valid" /\ token'[k] = "revoked")
      /\ call[c].kind = "password" => \A k \in Tokens : token'[k] # "valid"
  <2>1. CASE call[c].kind = "logout"
    <3>1. token' = RevokedOne(c)
      BY <2>1, Zenon DEF Serves, Revoked
    <3> QED
      BY <2>1, <3>1 DEF RevokedOne, SInv, SessionsTyped
  <2>2. CASE call[c].kind = "password"
    <3>1. token' = RevokedAll(c)
      <4>1. Revoked(c) = RevokedAll(c)
        BY <2>2 DEF Revoked
      <4> QED
        BY <4>1 DEF Serves
    <3> QED
      BY <2>2, <3>1 DEF RevokedAll, SInv, SessionsTyped
  <2>3. CASE call[c].kind \notin {"logout", "password"}
    <3>1. token' = token
      <4>1. Revoked(c) = token
        BY <2>3 DEF Revoked
      <4> QED
        BY <4>1 DEF Serves
    <3> QED
      BY <2>3, <3>1 DEF SInv, SessionsTyped
  <2> QED
    BY <2>1, <2>2, <2>3
<1>6. history' = [history EXCEPT
        !.spender = [k \in Tokens |-> IF token'[k] # token[k] THEN call[c].kind ELSE @[k]],
        !.outlived = IF call[c].kind = "password"
                     THEN @ \cup {k \in Tokens : token[k] # "unused"} ELSE @,
        !.survivors = IF call[c].kind = "password"
                      THEN @ \cup {d \in Calls : call[d].at = "reading"} ELSE @]
  BY DEF Serves
<1>7. /\ history'.spender =
           [k \in Tokens |-> IF token'[k] # token[k] THEN call[c].kind ELSE history.spender[k]]
      /\ history'.root = history.root /\ history'.forked = history.forked
      /\ history'.lost = history.lost
      /\ history'.outlived = IF call[c].kind = "password"
           THEN history.outlived \cup {k \in Tokens : token[k] # "unused"}
           ELSE history.outlived
      /\ history'.survivors = IF call[c].kind = "password"
           THEN history.survivors \cup {d \in Calls : call[d].at = "reading"}
           ELSE history.survivors
  BY <1>6 DEF SInv, SessionsTyped, Histories
<1>8. history' \in Histories
  <2>1. history'.spender \in [Tokens -> Tabs \cup Kinds \cup {"nobody", "time"}]
    BY <1>1, <1>7 DEF SInv, SessionsTyped, Histories
  <2> QED
    BY <1>6, <1>7, <2>1 DEF SInv, SessionsTyped, Histories
<1> QED
  BY <1>1, <1>4, <1>5, <1>7, <1>8 DEF Serves

LEMMA ArrivesFacts ==
  ASSUME SInv, NEW c \in Calls, Arrives(c)
  PROVE  /\ call[c].at = "served" /\ call'[c].at = "idle"
         /\ \A d \in Calls \ {c} : call'[d] = call[d]
         /\ call' \in [Calls -> CallStates] /\ jar' \in {jar, NoCookies}
         /\ UNCHANGED <<token, history>>
BY DEF Arrives, SInv, SessionsTyped, CallStates, Idle

LEMMA DeniedFacts ==
  ASSUME SInv, NEW c \in Calls, Denied(c)
  PROVE  /\ call[c].at = "sent" /\ call'[c].at \in {"idle", "waiting", "refreshing"}
         /\ call'[c].at = "refreshing" => ~Refreshing(TabOf[c]) /\ call'[c].refresh = jar.refresh
         /\ \A d \in Calls \ {c} : call'[d] = call[d]
         /\ call' \in [Calls -> CallStates] /\ UNCHANGED <<token, jar, history>>
<1> DEFINE asks == [at |-> AfterDenial(c), kind |-> call[c].kind, refresh |-> jar.refresh]
<1>1. call[c].at = "sent" /\ call[c].kind \in Kinds /\ jar.refresh \in Cookie
  BY CallFacts DEF SInv, SessionsTyped, Denied
<1>2. AfterDenial(c) \in {"waiting", "refreshing"}
      /\ (AfterDenial(c) = "refreshing" => ~Refreshing(TabOf[c]))
  BY DEF AfterDenial
<1>3. asks \in CallStates /\ Idle \in CallStates /\ Idle.at = "idle"
      /\ asks.at = AfterDenial(c) /\ asks.refresh = jar.refresh
  BY <1>1, <1>2 DEF CallStates, Idle
<1>4. call' = [call EXCEPT ![c] = IF call[c].retried THEN Idle ELSE asks]
  BY DEF Denied
<1>5. call'[c] \in {Idle, asks} /\ \A d \in Calls \ {c} : call'[d] = call[d]
  BY <1>4 DEF SInv, SessionsTyped
<1> QED
  BY <1>1, <1>2, <1>3, <1>4, <1>5 DEF Denied, SInv, SessionsTyped

LEMMA ReadsTokenFacts ==
  ASSUME SInv, NEW c \in Calls, ReadsToken(c)
  PROVE  /\ call[c].at = "refreshing" /\ call'[c].at \in {"reading", "denied"}
         /\ call'[c].refresh = call[c].refresh
         /\ call'[c].at = "reading" =>
              call[c].refresh \in Tokens /\ token[call[c].refresh] = "valid"
         /\ \A d \in Calls \ {c} : call'[d] = call[d]
         /\ call' \in [Calls -> CallStates] /\ UNCHANGED <<token, jar, history>>
<1> DEFINE valid == call[c].refresh # NoToken /\ token[call[c].refresh] = "valid"
<1>1. call[c] \in [at : {"refreshing"}, kind : Kinds, refresh : Cookie]
  BY CallFacts DEF SInv, ReadsToken
<1>2. CASE valid
  <2>1. call' = [call EXCEPT ![c] = [call[c] EXCEPT !.at = "reading"]]
    BY <1>2 DEF ReadsToken, SInv, SessionsTyped
  <2>2. [call[c] EXCEPT !.at = "reading"] \in [at : {"reading"}, kind : Kinds, refresh : Tokens]
        /\ [call[c] EXCEPT !.at = "reading"].refresh = call[c].refresh
    BY <1>1, <1>2 DEF Cookie
  <2> QED
    BY <1>1, <1>2, <2>1, <2>2 DEF ReadsToken, SInv, SessionsTyped, CallStates, Cookie
<1>3. CASE ~valid
  <2>1. call' = [call EXCEPT ![c] = [call[c] EXCEPT !.at = "denied"]]
    BY <1>3 DEF ReadsToken, SInv, SessionsTyped
  <2>2. [call[c] EXCEPT !.at = "denied"]
             \in [at : {"refreshing", "waiting", "denied"}, kind : Kinds, refresh : Cookie]
        /\ [call[c] EXCEPT !.at = "denied"].at = "denied"
        /\ [call[c] EXCEPT !.at = "denied"].refresh = call[c].refresh
    BY <1>1
  <2> QED
    BY <1>1, <2>1, <2>2 DEF ReadsToken, SInv, SessionsTyped, CallStates
<1> QED
  BY <1>2, <1>3

\* Call c renews old by new.
Renews(c, old, new) ==
  /\ call[c].at = "reading" /\ call[c].refresh = old
  /\ token[old] # "unused" /\ token[new] = "unused"
  /\ token' = [token EXCEPT ![old] = "revoked", ![new] = "valid"]
  /\ call'[c].at = "renewed" /\ call'[c].refresh = new /\ call'[c].sent = old
  /\ \A d \in Calls \ {c} : call'[d] = call[d]
  /\ call' \in [Calls -> CallStates] /\ jar' = jar /\ history' \in Histories
  /\ history'.spender = [history.spender EXCEPT ![old] = TabOf[c]]
  /\ history'.lost = history.lost
  /\ history'.root = [history.root EXCEPT ![new] = history.root[old]]
  /\ history'.forked = IF token[old] = "valid" THEN history.forked
                       ELSE history.forked \cup {history.root[old]}
  /\ history'.survivors = history.survivors \ {c}
  /\ history'.outlived = IF c \notin history.survivors /\ old \in history.outlived
       THEN history.outlived \cup {new} ELSE history.outlived

LEMMA CommitsRefreshFacts ==
  ASSUME SInv, NEW c \in Calls, CommitsRefresh(c)
  PROVE  \E old, new \in Tokens : Renews(c, old, new)
<1> DEFINE old == call[c].refresh
<1>1. PICK new \in Tokens :
        /\ call[c].at = "reading" /\ IsFresh(new)
        /\ token' = RotatedToken(old, new)
        /\ call' = [call EXCEPT ![c] =
             [at |-> "renewed", kind |-> @.kind, refresh |-> new, sent |-> old]]
        /\ history' = [history EXCEPT
             !.spender[old] = TabOf[c],
             !.root[new] = history.root[old],
             !.forked = IF token[old] = "valid" THEN @ ELSE @ \cup {history.root[old]},
             !.survivors = @ \ {c},
             !.outlived = IF c \notin history.survivors /\ old \in @ THEN @ \cup {new} ELSE @]
        /\ jar' = jar
  BY DEF CommitsRefresh
<1>2. call[c].kind \in Kinds /\ old \in Tokens /\ token[old] # "unused"
  BY <1>1, CallFacts DEF SInv, UnusedAreUnknown, Holds, RefreshPlaces
<1>3. token[new] = "unused" /\ token' = [token EXCEPT ![old] = "revoked", ![new] = "valid"]
  BY <1>1 DEF IsFresh, Unused, RotatedToken
<1>4. /\ call'[c].at = "renewed" /\ call'[c].refresh = new /\ call'[c].sent = old
      /\ \A d \in Calls \ {c} : call'[d] = call[d]
      /\ call' \in [Calls -> CallStates]
  <2>1. [at |-> "renewed", kind |-> call[c].kind, refresh |-> new, sent |-> old] \in CallStates
    BY <1>2 DEF CallStates
  <2> QED
    BY <1>1, <2>1 DEF SInv, SessionsTyped
<1>5. /\ history'.spender = [history.spender EXCEPT ![old] = TabOf[c]]
      /\ history'.lost = history.lost
      /\ history'.root = [history.root EXCEPT ![new] = history.root[old]]
      /\ history'.forked = IF token[old] = "valid" THEN history.forked
                           ELSE history.forked \cup {history.root[old]}
      /\ history'.survivors = history.survivors \ {c}
      /\ history'.outlived = IF c \notin history.survivors /\ old \in history.outlived
           THEN history.outlived \cup {new} ELSE history.outlived
  BY <1>1 DEF SInv, SessionsTyped, Histories
<1>6. history' \in Histories
  <2>1. history'.spender \in [Tokens -> Tabs \cup Kinds \cup {"nobody", "time"}]
    <3>1. TabOf[c] \in Tabs
      BY SessionsAssumption
    <3>2. history.spender \in [Tokens -> Tabs \cup Kinds \cup {"nobody", "time"}]
      BY DEF SInv, SessionsTyped, Histories
    <3> QED
      BY <1>5, <3>1, <3>2
  <2>2. history'.root \in [Tokens -> Tokens]
    BY <1>2, <1>5 DEF SInv, SessionsTyped, Histories
  <2>3. history'.forked \subseteq Tokens
    BY <1>2, <1>5 DEF SInv, SessionsTyped, Histories
  <2>4. history' = [spender |-> history'.spender, lost |-> history'.lost,
                    root |-> history'.root, forked |-> history'.forked,
                    survivors |-> history'.survivors, outlived |-> history'.outlived]
    BY <1>1 DEF SInv, SessionsTyped, Histories
  <2> QED
    BY <1>5, <2>1, <2>2, <2>3, <2>4 DEF SInv, SessionsTyped, Histories
<1>7. Renews(c, old, new)
  BY <1>1, <1>2, <1>3, <1>4, <1>5, <1>6 DEF Renews
<1> QED
  BY <1>2, <1>7

LEMMA RefreshArrivesFacts ==
  ASSUME SInv, NEW c \in Calls, RefreshArrives(c)
  PROVE  /\ call[c].at = "renewed" /\ call[c].refresh \in Tokens /\ call[c].sent \in Tokens
         /\ jar' \in [access : BOOLEAN, refresh : Cookie] /\ jar'.refresh = call[c].refresh
         /\ call'[c].at = "sent"
         /\ \A d \in Calls : call'[d] = call[d] \/ call'[d].at = "sent"
         /\ call' \in [Calls -> CallStates] /\ UNCHANGED <<token, history>>
<1>1. call[c].at = "renewed" /\ call[c].refresh \in Tokens /\ call[c].sent \in Tokens
  BY CallFacts DEF SInv, RefreshArrives
<1>2. jar' = [access |-> TRUE, refresh |-> call[c].refresh]
      /\ jar' \in [access : BOOLEAN, refresh : Cookie] /\ jar'.refresh = call[c].refresh
      /\ jar'.access \in BOOLEAN
  BY <1>1 DEF RefreshArrives, Cookie
<1> DEFINE again(d) == [at |-> "sent", kind |-> call[d].kind, retried |-> TRUE,
                        access |-> jar'.access, refresh |-> jar'.refresh]
           woken == {d \in Calls : d = c \/ d \in Under(TabOf[c], "waiting")}
<1>3. call' = [d \in Calls |-> IF d \in woken THEN again(d) ELSE call[d]]
  BY DEF RefreshArrives, Woken
<1>4. ASSUME NEW d \in woken
      PROVE  again(d) \in CallStates /\ again(d).at = "sent"
  <2>1. call[d].kind \in Kinds
    BY <1>1, <1>4, CallFacts DEF SInv, Under
  <2> QED
    BY <1>2, <2>1 DEF CallStates
<1>5. \A d \in Calls : IF d \in woken THEN call'[d] = again(d) ELSE call'[d] = call[d]
  BY <1>3
<1>6. call' \in [Calls -> CallStates]
  BY <1>3, <1>4 DEF SInv, SessionsTyped
<1>7. call'[c].at = "sent" /\ \A d \in Calls : call'[d] = call[d] \/ call'[d].at = "sent"
  BY <1>4, <1>5
<1> QED
  BY <1>1, <1>2, <1>6, <1>7 DEF RefreshArrives

LEMMA SignsOutFacts ==
  ASSUME SInv, NEW c \in Calls, SignsOut(c)
  PROVE  /\ call'[c].at = "idle" /\ call' \in [Calls -> CallStates]
         /\ \A d \in Calls : call'[d] = call[d] \/ call'[d].at = "idle"
         /\ \A d \in Calls : call[d].at \in RefreshPlaces /\ d # c => call'[d] = call[d]
<1>1. Idle \in CallStates /\ Idle.at = "idle"
  BY DEF CallStates, Idle
<1> QED
  BY <1>1 DEF SignsOut, Under, RefreshPlaces, SInv, SessionsTyped

LEMMA RefreshLostFacts ==
  ASSUME SInv, NEW c \in Calls, RefreshLost(c)
  PROVE  /\ call[c].at = "renewed" /\ call[c].sent \in Tokens /\ SignsOut(c)
         /\ history' \in Histories /\ history'.lost = history.lost \cup {call[c].sent}
         /\ history'.spender = history.spender /\ history'.root = history.root
         /\ history'.forked = history.forked /\ history'.survivors = history.survivors
         /\ history'.outlived = history.outlived
         /\ UNCHANGED <<token, jar>>
<1>1. call[c].sent \in Tokens
  BY CallFacts DEF SInv, RefreshLost
<1> QED
  BY <1>1 DEF RefreshLost, SInv, SessionsTyped, Histories

LEMMA RefreshExpiresFacts ==
  ASSUME SInv, NEW k \in Tokens, RefreshExpires(k)
  PROVE  /\ token[k] = "valid" /\ token' = [token EXCEPT ![k] = "revoked"]
         /\ history' \in Histories /\ history'.spender = [history.spender EXCEPT ![k] = "time"]
         /\ history'.lost = history.lost /\ history'.root = history.root
         /\ history'.forked = history.forked /\ history'.survivors = history.survivors
         /\ history'.outlived = history.outlived
         /\ UNCHANGED <<jar, call>>
BY DEF RefreshExpires, SInv, SessionsTyped, Histories

-----------------------------------------------------------------------------
(* The steps, by what they change.                                          *)

LEMMA OtherFacts ==
  ASSUME SInv, (\E t \in Tabs : OpensApp(t)) \/ AccessExpires \/ UNCHANGED sessions
  PROVE  /\ UNCHANGED <<token, call, history>>
         /\ jar' \in [access : BOOLEAN, refresh : Cookie] /\ jar'.refresh = jar.refresh
BY DEF OpensApp, AccessExpires, sessions, SInv, SessionsTyped

LEMMA StepKeepsSInv ==
  ASSUME SInv, [SessionsNext]_sessions
  PROVE  SInv'
<1> USE DEF RefreshPlaces
<1>1. ASSUME NEW t \in Tabs, Login(t) PROVE SInv'
  <2>1. PICK k \in Tokens :
          /\ token[k] = "unused" /\ token' = [token EXCEPT ![k] = "valid"]
          /\ jar' = [access |-> TRUE, refresh |-> k] /\ jar'.refresh = k
          /\ UNCHANGED <<call, history>>
    BY <1>1, LoginFacts
  <2>2. SessionsTyped'
    BY <2>1 DEF SInv, SessionsTyped, Cookie
  <2> QED
    BY <2>1, <2>2 DEF SInv, SessionsTyped, UnusedAreUnknown, Holds
<1>2. ASSUME NEW c \in Calls, NEW kind \in KindsOf[c], Sends(c, kind) PROVE SInv'
  <2>1. SessionsTyped'
    BY <1>2, SendsFacts DEF SInv, SessionsTyped
  <2>2. UnusedAreUnknown'
    BY <1>2, SendsFacts DEF SInv, UnusedAreUnknown, Holds
  <2> QED
    BY <2>1, <2>2 DEF SInv
<1>3. ASSUME NEW c \in Calls, Serves(c) PROVE SInv'
  <2>1. SessionsTyped'
    BY <1>3, ServesFacts DEF SInv, SessionsTyped
  <2>2. ASSUME NEW k \in Tokens, token'[k] = "unused"
        PROVE  /\ history'.root[k] = k /\ history'.spender[k] = "nobody"
               /\ k \notin history'.outlived /\ jar'.refresh # k
               /\ \A d \in Calls : ~Holds(d, k)'
    <3>1. token[k] = "unused" /\ token'[k] = token[k]
      BY <1>3, <2>2, ServesFacts
    <3>2. call'[c].at = "served" /\ \A d \in Calls \ {c} : call'[d] = call[d]
      BY <1>3, ServesFacts
    <3>3. \A d \in Calls : ~Holds(d, k)'
      BY <3>1, <3>2 DEF SInv, UnusedAreUnknown, Holds
    <3>4. k \notin history'.outlived
      <4>1. k \notin history.outlived
        BY <3>1 DEF SInv, UnusedAreUnknown
      <4>2. history'.outlived \in {history.outlived,
              history.outlived \cup {l \in Tokens : token[l] # "unused"}}
        BY <1>3, ServesFacts
      <4> QED
        BY <3>1, <4>1, <4>2
    <3>5. history'.root = history.root /\ jar' = jar
          /\ (history'.spender[k] = history.spender[k] \/ token'[k] # token[k])
      BY <1>3, ServesFacts
    <3> QED
      BY <3>1, <3>3, <3>4, <3>5 DEF SInv, UnusedAreUnknown
  <2> QED
    BY <2>1, <2>2 DEF SInv, UnusedAreUnknown
<1>4. ASSUME NEW c \in Calls, Arrives(c) PROVE SInv'
  <2>1. jar' \in [access : BOOLEAN, refresh : Cookie]
        /\ jar'.refresh \in {jar.refresh, NoToken}
    <3>1. jar' \in {jar, NoCookies}
      BY <1>4, ArrivesFacts
    <3>2. NoCookies \in [access : BOOLEAN, refresh : Cookie] /\ NoCookies.refresh = NoToken
      BY DEF NoCookies, Cookie
    <3> QED
      BY <3>1, <3>2 DEF SInv, SessionsTyped
  <2>2. SessionsTyped'
    BY <1>4, <2>1, ArrivesFacts DEF SInv, SessionsTyped
  <2>3. UnusedAreUnknown'
    BY <1>4, <2>1, ArrivesFacts, SessionsAssumption DEF SInv, UnusedAreUnknown, Holds
  <2> QED
    BY <2>2, <2>3 DEF SInv
<1>5. ASSUME NEW c \in Calls, Denied(c) PROVE SInv'
  <2>1. SessionsTyped'
    BY <1>5, DeniedFacts DEF SInv, SessionsTyped
  <2>2. UnusedAreUnknown'
    BY <1>5, DeniedFacts DEF SInv, UnusedAreUnknown, Holds
  <2> QED
    BY <2>1, <2>2 DEF SInv
<1>6. ASSUME NEW c \in Calls, ReadsToken(c) PROVE SInv'
  <2>1. SessionsTyped'
    BY <1>6, ReadsTokenFacts DEF SInv, SessionsTyped
  <2>2. UnusedAreUnknown'
    BY <1>6, ReadsTokenFacts DEF SInv, UnusedAreUnknown, Holds
  <2> QED
    BY <2>1, <2>2 DEF SInv
<1>7. ASSUME NEW c \in Calls, CommitsRefresh(c) PROVE SInv'
  <2>1. PICK old \in Tokens, new \in Tokens : Renews(c, old, new)
    BY <1>7, CommitsRefreshFacts
  <2>2. SessionsTyped'
    BY <2>1 DEF SInv, SessionsTyped, Renews
  <2>3. ASSUME NEW k \in Tokens, token'[k] = "unused"
        PROVE  /\ history'.root[k] = k /\ history'.spender[k] = "nobody"
               /\ k \notin history'.outlived /\ jar'.refresh # k
               /\ \A d \in Calls : ~Holds(d, k)'
    <3>1. token[k] = "unused" /\ k # old /\ k # new
      BY <2>1, <2>3 DEF SInv, SessionsTyped, Renews
    <3>2. history'.root[k] = history.root[k] /\ history'.spender[k] = history.spender[k]
      BY <2>1, <3>1 DEF SInv, SessionsTyped, Histories, Renews
    <3>3. \A d \in Calls : ~Holds(d, k)'
      BY <2>1, <3>1 DEF SInv, UnusedAreUnknown, Holds, Renews
    <3> QED
      BY <2>1, <3>1, <3>2, <3>3 DEF SInv, UnusedAreUnknown, Renews
  <2> QED
    BY <2>2, <2>3 DEF SInv, UnusedAreUnknown
<1>8. ASSUME NEW c \in Calls, RefreshArrives(c) PROVE SInv'
  <2>1. SessionsTyped'
    BY <1>8, RefreshArrivesFacts DEF SInv, SessionsTyped
  <2>2. UnusedAreUnknown'
    BY <1>8, RefreshArrivesFacts DEF SInv, UnusedAreUnknown, Holds
  <2> QED
    BY <2>1, <2>2 DEF SInv
<1>9. ASSUME NEW c \in Calls, RefreshDenied(c) PROVE SInv'
  <2>1. SignsOut(c) /\ UNCHANGED <<token, jar, history>>
    BY <1>9 DEF RefreshDenied
  <2>2. SessionsTyped'
    BY <2>1, SignsOutFacts DEF SInv, SessionsTyped
  <2>3. UnusedAreUnknown'
    BY <2>1, SignsOutFacts DEF SInv, UnusedAreUnknown, Holds
  <2> QED
    BY <2>2, <2>3 DEF SInv
<1>10. ASSUME NEW c \in Calls, RefreshLost(c) PROVE SInv'
  <2>1. SessionsTyped'
    BY <1>10, RefreshLostFacts, SignsOutFacts DEF SInv, SessionsTyped
  <2>2. UnusedAreUnknown'
    BY <1>10, RefreshLostFacts, SignsOutFacts DEF SInv, UnusedAreUnknown, Holds
  <2> QED
    BY <2>1, <2>2 DEF SInv
<1>11. ASSUME NEW k \in Tokens, RefreshExpires(k) PROVE SInv'
  <2>1. SessionsTyped'
    BY <1>11, RefreshExpiresFacts DEF SInv, SessionsTyped
  <2>2. \A l \in Tokens : token'[l] = "unused" =>
          token[l] = "unused" /\ history'.spender[l] = history.spender[l]
    <3>1. /\ token[k] = "valid" /\ token' = [token EXCEPT ![k] = "revoked"]
          /\ history'.spender = [history.spender EXCEPT ![k] = "time"]
      BY <1>11, RefreshExpiresFacts
    <3>2. \A l \in Tokens : token'[l] = "unused" => l # k /\ token[l] = "unused"
      BY <3>1 DEF SInv, SessionsTyped
    <3>3. \A l \in Tokens \ {k} : history'.spender[l] = history.spender[l]
      BY <3>1 DEF SInv, SessionsTyped, Histories
    <3> QED
      BY <3>2, <3>3
  <2>3. UnusedAreUnknown'
    <3>1. history'.root = history.root /\ history'.outlived = history.outlived
          /\ UNCHANGED <<jar, call>>
      BY <1>11, RefreshExpiresFacts
    <3> QED
      BY <2>2, <3>1 DEF SInv, UnusedAreUnknown, Holds
  <2> QED
    BY <2>1, <2>3 DEF SInv
<1>12. ASSUME (\E t \in Tabs : OpensApp(t)) \/ AccessExpires \/ UNCHANGED sessions PROVE SInv'
  BY <1>12, OtherFacts DEF SInv, SessionsTyped, UnusedAreUnknown, Holds
<1> QED
  BY <1>1, <1>2, <1>3, <1>4, <1>5, <1>6, <1>7, <1>8, <1>9, <1>10, <1>11, <1>12
     DEF SessionsNext, Progress

LEMMA SessionsInvariant == SessionsSpec => []SInv
<1>1. SessionsInit => SInv
  <2> SUFFICES ASSUME SessionsInit PROVE SInv
    OBVIOUS
  <2>1. history \in Histories /\ history.root = [k \in Tokens |-> k]
        /\ history.spender = [k \in Tokens |-> "nobody"] /\ history.outlived = {}
    BY DEF SessionsInit, Histories
  <2>2. jar \in [access : BOOLEAN, refresh : Cookie] /\ jar.refresh = NoToken
    BY DEF SessionsInit, NoCookies, Cookie
  <2>3. \A c \in Calls : call[c] \in CallStates /\ call[c].at = "idle"
    BY DEF SessionsInit, CallStates, Idle
  <2>4. SessionsTyped
    BY <2>1, <2>2, <2>3 DEF SessionsInit, SessionsTyped
  <2> QED
    BY <2>1, <2>2, <2>3, <2>4, SessionsAssumption
       DEF SInv, UnusedAreUnknown, Holds, RefreshPlaces
<1> QED
  BY <1>1, StepKeepsSInv, PTL DEF SessionsSpec

-----------------------------------------------------------------------------
(* The tokens that go back to one login, and the password change.           *)

\* What a used token goes back to was used: a fresh one starts a login of its own.
RootsAreUsed ==
  \A k \in Tokens : token[k] # "unused" => token[history.root[k]] # "unused"

\* A refresh that has read its token since the last password change has read one
\* that was made since.
ReadersAreNew ==
  \A c \in Calls : call[c].at = "reading" /\ c \notin history.survivors =>
    call[c].refresh \notin history.outlived

TInv == RootsAreUsed /\ OneTokenPerLogin /\ ReadersAreNew /\ PasswordChangeEndsSessions

\* The steps that issue and revoke nothing.
LEMMA TokensFrame ==
  ASSUME TInv, token' = token, history'.root = history.root,
         history'.forked = history.forked, history'.survivors = history.survivors,
         history'.outlived = history.outlived,
         \A c \in Calls : call'[c].at = "reading" =>
           call'[c] = call[c] \/ token[call'[c].refresh] = "valid"
  PROVE  TInv'
BY DEF TInv, RootsAreUsed, OneTokenPerLogin, ReadersAreNew, PasswordChangeEndsSessions

\* The steps that only revoke.
LEMMA RevokedFrame ==
  ASSUME SInv, TInv, history'.root = history.root, history'.forked = history.forked,
         \A k \in Tokens : token'[k] = token[k] \/ (token[k] = "valid" /\ token'[k] = "revoked")
  PROVE  RootsAreUsed' /\ OneTokenPerLogin'
<1>1. \A k \in Tokens : history.root[k] \in Tokens
  BY DEF SInv, SessionsTyped, Histories
<1> QED
  BY <1>1 DEF TInv, RootsAreUsed, OneTokenPerLogin

LEMMA StepKeepsTInv ==
  ASSUME SInv, TInv, [SessionsNext]_sessions
  PROVE  TInv'
<1>1. ASSUME NEW t \in Tabs, Login(t) PROVE TInv'
  <2>1. PICK k \in Tokens :
          /\ token[k] = "unused" /\ token' = [token EXCEPT ![k] = "valid"]
          /\ UNCHANGED <<call, history>>
    BY <1>1, LoginFacts
  <2>2. history.root[k] = k /\ k \notin history.outlived
    BY <2>1 DEF SInv, UnusedAreUnknown
  <2>3. token'[k] = "valid" /\ \A l \in Tokens \ {k} : token'[l] = token[l]
    BY <2>1 DEF SInv, SessionsTyped
  <2>4. \A l \in Tokens : history.root[l] \in Tokens
    BY DEF SInv, SessionsTyped, Histories
  <2>5. \A l \in Tokens \ {k} : token[l] = "valid" => history.root[l] # k
    BY <2>1, <2>4 DEF TInv, RootsAreUsed
  <2>6. RootsAreUsed'
    BY <2>1, <2>2, <2>3, <2>4 DEF TInv, RootsAreUsed
  <2>7. OneTokenPerLogin'
    BY <2>1, <2>2, <2>3, <2>5 DEF TInv, OneTokenPerLogin
  <2>8. PasswordChangeEndsSessions'
    <3>1. history.outlived \subseteq Tokens
      BY DEF SInv, SessionsTyped, Histories
    <3> QED
      BY <2>1, <2>2, <2>3, <3>1 DEF TInv, PasswordChangeEndsSessions
  <2> QED
    BY <2>1, <2>6, <2>7, <2>8 DEF TInv, ReadersAreNew
<1>2. ASSUME NEW c \in Calls, NEW kind \in KindsOf[c], Sends(c, kind) PROVE TInv'
  <2>1. /\ call'[c].at = "sent" /\ \A d \in Calls \ {c} : call'[d] = call[d]
        /\ UNCHANGED <<token, history>>
    BY <1>2, SendsFacts
  <2> QED
    BY <2>1, TokensFrame
<1>3. ASSUME NEW c \in Calls, Serves(c) PROVE TInv'
  <2>1. RootsAreUsed' /\ OneTokenPerLogin'
    BY <1>3, ServesFacts, RevokedFrame
  <2>2. /\ call'[c].at = "served" /\ \A d \in Calls \ {c} : call'[d] = call[d]
        /\ \A k \in Tokens : token'[k] = "valid" => token[k] = "valid"
    BY <1>3, ServesFacts
  <2>3. history'.outlived \subseteq Tokens
    <3>1. history' \in Histories
      BY <1>3, ServesFacts
    <3> QED
      BY <3>1 DEF Histories
  <2>4. CASE call[c].kind = "password"
    <3>1. /\ \A k \in Tokens : token'[k] # "valid"
          /\ history'.survivors =
               history.survivors \cup {d \in Calls : call[d].at = "reading"}
      BY <1>3, <2>4, ServesFacts
    <3>2. PasswordChangeEndsSessions'
      BY <2>3, <3>1 DEF PasswordChangeEndsSessions
    <3>3. ReadersAreNew'
      BY <2>2, <3>1 DEF ReadersAreNew
    <3> QED
      BY <2>1, <3>2, <3>3 DEF TInv
  <2>5. CASE call[c].kind # "password"
    <3>1. history'.survivors = history.survivors /\ history'.outlived = history.outlived
      BY <1>3, <2>5, ServesFacts
    <3>2. PasswordChangeEndsSessions'
      BY <2>2, <2>3, <3>1 DEF TInv, PasswordChangeEndsSessions
    <3>3. ReadersAreNew'
      BY <2>2, <3>1 DEF TInv, ReadersAreNew
    <3> QED
      BY <2>1, <3>2, <3>3 DEF TInv
  <2> QED
    BY <2>4, <2>5
<1>4. ASSUME NEW c \in Calls, Arrives(c) PROVE TInv'
  <2>1. /\ call'[c].at = "idle" /\ \A d \in Calls \ {c} : call'[d] = call[d]
        /\ UNCHANGED <<token, history>>
    BY <1>4, ArrivesFacts
  <2> QED
    BY <2>1, TokensFrame
<1>5. ASSUME NEW c \in Calls, Denied(c) PROVE TInv'
  <2>1. /\ call'[c].at # "reading" /\ \A d \in Calls \ {c} : call'[d] = call[d]
        /\ UNCHANGED <<token, history>>
    BY <1>5, DeniedFacts
  <2> QED
    BY <2>1, TokensFrame
<1>6. ASSUME NEW c \in Calls, ReadsToken(c) PROVE TInv'
  <2>1. /\ call'[c].at = "reading" => token[call'[c].refresh] = "valid"
        /\ \A d \in Calls \ {c} : call'[d] = call[d]
        /\ UNCHANGED <<token, history>>
    BY <1>6, ReadsTokenFacts
  <2> QED
    BY <2>1, TokensFrame
<1>7. ASSUME NEW c \in Calls, CommitsRefresh(c) PROVE TInv'
  <2>1. PICK old \in Tokens, new \in Tokens : Renews(c, old, new)
    BY <1>7, CommitsRefreshFacts
  <2>2. /\ token'[old] = "revoked" /\ token'[new] = "valid" /\ old # new
        /\ \A k \in Tokens \ {old, new} : token'[k] = token[k]
    BY <2>1 DEF Renews, SInv, SessionsTyped
  <2>3. /\ history'.root[new] = history.root[old]
        /\ \A k \in Tokens \ {new} : history'.root[k] = history.root[k]
        /\ \A k \in Tokens : history.root[k] \in Tokens
    BY <2>1 DEF Renews, SInv, SessionsTyped, Histories
  <2>4. RootsAreUsed'
    <3>1. \A k \in Tokens : token[k] # "unused" => token'[k] # "unused"
      BY <2>1, <2>2 DEF Renews
    <3>2. token'[history'.root[new]] # "unused"
      BY <2>1, <2>3, <3>1 DEF Renews, TInv, RootsAreUsed
    <3>3. \A k \in Tokens \ {new} : token'[k] # "unused" => token[k] # "unused"
      BY <2>1, <2>2 DEF Renews
    <3> QED
      BY <2>3, <3>1, <3>2, <3>3 DEF TInv, RootsAreUsed
  <2>5. OneTokenPerLogin'
    <3> SUFFICES ASSUME NEW k \in Tokens, NEW l \in Tokens,
                        token'[k] = "valid", token'[l] = "valid",
                        history'.root[k] = history'.root[l],
                        history'.root[k] \notin history'.forked
                 PROVE  k = l
      BY DEF OneTokenPerLogin
    <3>1. \A m \in Tokens : history.root[m] \notin history'.forked =>
            history.root[m] \notin history.forked
      BY <2>1 DEF Renews
    <3>2. ASSUME NEW m \in Tokens \ {new}, token'[m] = "valid",
                 history'.root[m] = history.root[old], history.root[old] \notin history'.forked
          PROVE  FALSE
      <4>1. token[m] = "valid" /\ m # old /\ history.root[m] = history.root[old]
        BY <2>2, <2>3, <3>2
      <4>2. token[old] = "valid"
        BY <2>1, <3>2 DEF Renews
      <4> QED
        BY <3>1, <3>2, <4>1, <4>2 DEF TInv, OneTokenPerLogin
    <3>3. CASE k = new \/ l = new
      BY <2>3, <3>2, <3>3
    <3>4. CASE k # new /\ l # new
      <4>1. token[k] = "valid" /\ token[l] = "valid" /\ history.root[k] = history.root[l]
            /\ history.root[k] \notin history.forked
        BY <2>2, <2>3, <3>1, <3>4
      <4> QED
        BY <4>1 DEF TInv, OneTokenPerLogin
    <3> QED
      BY <3>3, <3>4
  <2>6. history'.outlived = history.outlived
    <3>1. c \notin history.survivors => old \notin history.outlived
      BY <2>1 DEF Renews, TInv, ReadersAreNew
    <3> QED
      BY <2>1, <3>1 DEF Renews
  <2>7. PasswordChangeEndsSessions'
    <3>1. history.outlived \subseteq Tokens /\ new \notin history.outlived
      BY <2>1 DEF Renews, SInv, SessionsTyped, Histories, UnusedAreUnknown
    <3> QED
      BY <2>2, <2>6, <3>1 DEF TInv, PasswordChangeEndsSessions
  <2>8. ReadersAreNew'
    BY <2>1, <2>6 DEF Renews, TInv, ReadersAreNew
  <2> QED
    BY <2>4, <2>5, <2>7, <2>8 DEF TInv
<1>8. ASSUME NEW c \in Calls, RefreshArrives(c) PROVE TInv'
  <2>1. /\ \A d \in Calls : call'[d] = call[d] \/ call'[d].at = "sent"
        /\ UNCHANGED <<token, history>>
    BY <1>8, RefreshArrivesFacts
  <2> QED
    BY <2>1, TokensFrame
<1>9. ASSUME NEW c \in Calls, RefreshDenied(c) PROVE TInv'
  <2>1. SignsOut(c) /\ UNCHANGED <<token, history>>
    BY <1>9 DEF RefreshDenied
  <2>2. \A d \in Calls : call'[d] = call[d] \/ call'[d].at = "idle"
    BY <2>1, SignsOutFacts
  <2> QED
    BY <2>1, <2>2, TokensFrame
<1>10. ASSUME NEW c \in Calls, RefreshLost(c) PROVE TInv'
  <2>1. /\ SignsOut(c) /\ token' = token /\ history'.root = history.root
        /\ history'.forked = history.forked /\ history'.survivors = history.survivors
        /\ history'.outlived = history.outlived
    BY <1>10, RefreshLostFacts
  <2>2. \A d \in Calls : call'[d] = call[d] \/ call'[d].at = "idle"
    BY <2>1, SignsOutFacts
  <2> QED
    BY <2>1, <2>2, TokensFrame
<1>11. ASSUME NEW k \in Tokens, RefreshExpires(k) PROVE TInv'
  <2>1. /\ history'.root = history.root /\ history'.forked = history.forked
        /\ history'.survivors = history.survivors /\ history'.outlived = history.outlived
        /\ call' = call /\ token[k] = "valid" /\ token' = [token EXCEPT ![k] = "revoked"]
    BY <1>11, RefreshExpiresFacts
  <2>2. \A l \in Tokens : token'[l] = token[l] \/ (token[l] = "valid" /\ token'[l] = "revoked")
    BY <2>1 DEF SInv, SessionsTyped
  <2>3. history.outlived \subseteq Tokens
    BY DEF SInv, SessionsTyped, Histories
  <2> QED
    BY <2>1, <2>2, <2>3, RevokedFrame DEF TInv, ReadersAreNew, PasswordChangeEndsSessions
<1>12. ASSUME (\E t \in Tabs : OpensApp(t)) \/ AccessExpires \/ UNCHANGED sessions PROVE TInv'
  <2>1. UNCHANGED <<token, call, history>>
    BY <1>12, OtherFacts
  <2> QED
    BY <2>1, TokensFrame
<1> QED
  BY <1>1, <1>2, <1>3, <1>4, <1>5, <1>6, <1>7, <1>8, <1>9, <1>10, <1>11, <1>12
     DEF SessionsNext, Progress

LEMMA TokensInvariant == SessionsSpec => []TInv
<1>1. SessionsInit => TInv
  BY DEF SessionsInit, TInv, RootsAreUsed, OneTokenPerLogin, ReadersAreNew,
         PasswordChangeEndsSessions, Idle
<1> QED
  BY <1>1, StepKeepsTInv, SessionsInvariant, PTL DEF SessionsSpec

(* However many refreshes, sign-outs and expiries interleave, a login is     *)
(* worth one token: refresh_access_token revokes what it replaces, and only  *)
(* a token that two refreshes had both read as valid splits                  *)
(* (auth_service.py 97-123).                                                *)
THEOREM LoginsHaveOneToken == SessionsSpec => []OneTokenPerLogin
<1>1. TInv => OneTokenPerLogin
  BY DEF TInv
<1> QED
  BY <1>1, TokensInvariant, PTL

(* No token that was there when the password was changed is ever valid       *)
(* again, nor one it is exchanged for by a refresh that read it afterwards   *)
(* (auth_service.py 164-182).                                                *)
THEOREM PasswordChangesEndSessions == SessionsSpec => []PasswordChangeEndsSessions
<1>1. TInv => PasswordChangeEndsSessions
  BY DEF TInv
<1> QED
  BY <1>1, TokensInvariant, PTL

-----------------------------------------------------------------------------
(* The hook of the client: a tab refreshes once at a time, and once its     *)
(* refresh has ended the token it spent is not in the cookies any more.     *)

OneRefresh ==
  \A c, d \in Calls :
    TabOf[c] = TabOf[d] /\ call[c].at \in RefreshPlaces /\ call[d].at \in RefreshPlaces => c = d

\* A token on its way to the cookies is known to nobody else.
NewAreUnknown ==
  \A c \in Calls : call[c].at = "renewed" =>
    /\ history.spender[call[c].refresh] \notin Tabs /\ jar.refresh # call[c].refresh
    /\ \A d \in Calls \ {c} : ~Holds(d, call[c].refresh)

\* The call by which a tab has spent k is not answered yet.
Spending(k) ==
  \E c \in Calls : call[c].at = "renewed" /\ call[c].sent = k /\ TabOf[c] = history.spender[k]

SpentAreGone ==
  \A k \in Tokens \ history.lost :
    history.spender[k] \in Tabs => jar.refresh # k \/ Spending(k)

OwnAreUnspent ==
  \A c \in Calls :
    /\ call[c].at \in {"refreshing", "reading", "denied"}
    /\ call[c].refresh \in Tokens \ history.lost
    => history.spender[call[c].refresh] # TabOf[c]

RInv == OneRefresh /\ NewAreUnknown /\ SpentAreGone /\ OwnAreUnspent

\* The steps that neither begin nor advance a refresh and bring no cookie.
LEMMA RefreshFrame ==
  ASSUME SInv, RInv, history'.lost = history.lost,
         \A k \in Tokens :
           history'.spender[k] = history.spender[k] \/ history'.spender[k] \notin Tabs,
         jar'.refresh \in {jar.refresh, NoToken},
         \A c \in Calls : call'[c].at \in RefreshPlaces => call'[c] = call[c],
         \A c \in Calls : call[c].at = "renewed" => call'[c] = call[c]
  PROVE  RInv'
<1>1. OneRefresh'
  BY DEF RInv, OneRefresh
<1>2. \A c \in Calls : call[c].at = "renewed" => call[c].refresh \in Tokens /\ TabOf[c] \in Tabs
  BY CallFacts, SessionsAssumption DEF SInv
<1>3. NewAreUnknown'
  <2> SUFFICES ASSUME NEW c \in Calls, call'[c].at = "renewed"
               PROVE  /\ history'.spender[call'[c].refresh] \notin Tabs
                      /\ jar'.refresh # call'[c].refresh
                      /\ \A d \in Calls \ {c} :
                           call'[d].at \in RefreshPlaces => call'[d].refresh # call'[c].refresh
    BY DEF NewAreUnknown, Holds
  <2>1. call'[c] = call[c] /\ call[c].refresh \in Tokens
    BY <1>2 DEF RefreshPlaces
  <2>2. \A d \in Calls \ {c} :
          call'[d].at \in RefreshPlaces => call'[d].refresh # call'[c].refresh
    BY <2>1 DEF RInv, NewAreUnknown, Holds
  <2> QED
    BY <2>1, <2>2, SessionsAssumption DEF RInv, NewAreUnknown
<1>4. SpentAreGone'
  <2> SUFFICES ASSUME NEW k \in Tokens \ history.lost, history'.spender[k] \in Tabs,
                      jar'.refresh = k
               PROVE  Spending(k)'
    BY DEF SpentAreGone
  <2>1. history'.spender[k] = history.spender[k] /\ jar.refresh = k
    BY SessionsAssumption
  <2> QED
    BY <2>1 DEF RInv, SpentAreGone, Spending
<1>5. OwnAreUnspent'
  <2> SUFFICES ASSUME NEW c \in Calls, call'[c].at \in {"refreshing", "reading", "denied"},
                      call'[c].refresh \in Tokens \ history.lost
               PROVE  history'.spender[call'[c].refresh] # TabOf[c]
    BY DEF OwnAreUnspent
  <2>1. call'[c] = call[c]
    BY DEF RefreshPlaces
  <2> QED
    BY <2>1, SessionsAssumption DEF RInv, OwnAreUnspent
<1> QED
  BY <1>1, <1>3, <1>4, <1>5 DEF RInv

LEMMA StepKeepsRInv ==
  ASSUME SInv, RInv, [SessionsNext]_sessions
  PROVE  RInv'
<1>1. ASSUME NEW t \in Tabs, Login(t) PROVE RInv'
  <2>1. PICK k \in Tokens : token[k] = "unused" /\ jar'.refresh = k /\ UNCHANGED <<call, history>>
    BY <1>1, LoginFacts
  <2>2. history.spender[k] \notin Tabs /\ \A c \in Calls : ~Holds(c, k)
    BY <2>1, SessionsAssumption DEF SInv, UnusedAreUnknown
  <2> QED
    BY <2>1, <2>2 DEF RInv, OneRefresh, NewAreUnknown, SpentAreGone, OwnAreUnspent, Spending,
                      Holds, RefreshPlaces
<1>2. ASSUME NEW c \in Calls, NEW kind \in KindsOf[c], Sends(c, kind) PROVE RInv'
  <2>1. /\ call'[c].at = "sent" /\ \A d \in Calls \ {c} : call'[d] = call[d]
        /\ UNCHANGED <<token, jar, history>>
    BY <1>2, SendsFacts
  <2>2. call[c].at = "idle"
    BY <1>2 DEF Sends, Idle
  <2> QED
    BY <2>1, <2>2, RefreshFrame DEF RefreshPlaces
<1>3. ASSUME NEW c \in Calls, Serves(c) PROVE RInv'
  <2>1. /\ call[c].at = "sent" /\ call'[c].at = "served"
        /\ \A d \in Calls \ {c} : call'[d] = call[d]
        /\ jar' = jar /\ history'.lost = history.lost
        /\ \A k \in Tokens : history'.spender[k] = history.spender[k]
                               \/ history'.spender[k] \in Kinds
    BY <1>3, ServesFacts
  <2> QED
    BY <2>1, RefreshFrame, SessionsAssumption DEF RefreshPlaces
<1>4. ASSUME NEW c \in Calls, Arrives(c) PROVE RInv'
  <2>1. /\ call[c].at = "served" /\ call'[c].at = "idle"
        /\ \A d \in Calls \ {c} : call'[d] = call[d]
        /\ jar' \in {jar, NoCookies} /\ history' = history
    BY <1>4, ArrivesFacts
  <2>2. jar'.refresh \in {jar.refresh, NoToken}
    BY <2>1 DEF NoCookies
  <2> QED
    BY <2>1, <2>2, RefreshFrame DEF RefreshPlaces
<1>5. ASSUME NEW c \in Calls, Denied(c) PROVE RInv'
  <2>1. /\ call[c].at = "sent" /\ call'[c].at \in {"idle", "waiting", "refreshing"}
        /\ \A d \in Calls \ {c} : call'[d] = call[d]
        /\ UNCHANGED <<token, jar, history>>
    BY <1>5, DeniedFacts
  <2>2. CASE call'[c].at # "refreshing"
    BY <2>1, <2>2, RefreshFrame DEF RefreshPlaces
  <2>3. CASE call'[c].at = "refreshing"
    <3>1. ~Refreshing(TabOf[c]) /\ call'[c].refresh = jar.refresh
      BY <1>5, <2>3, DeniedFacts
    <3>2. \A d \in Calls : TabOf[d] = TabOf[c] => call[d].at \notin RefreshPlaces
      BY <3>1 DEF Refreshing
    <3>3. OneRefresh'
      BY <2>1, <2>3, <3>2 DEF RInv, OneRefresh
    <3>4. NewAreUnknown'
      BY <2>1, <2>3, <3>1 DEF RInv, NewAreUnknown, Holds
    <3>5. SpentAreGone'
      BY <2>1, <2>3 DEF RInv, SpentAreGone, Spending
    <3>6. OwnAreUnspent'
      <4> SUFFICES ASSUME NEW d \in Calls, call'[d].at \in {"refreshing", "reading", "denied"},
                          call'[d].refresh \in Tokens \ history.lost
                   PROVE  history.spender[call'[d].refresh] # TabOf[d]
        BY <2>1 DEF OwnAreUnspent
      <4>1. CASE d # c
        BY <2>1, <4>1 DEF RInv, OwnAreUnspent
      <4>2. CASE d = c
        <5>1. TabOf[c] \in Tabs
          BY SessionsAssumption
        <5>2. ~(history.spender[jar.refresh] = TabOf[c] /\ Spending(jar.refresh))
          BY <3>2 DEF Spending, RefreshPlaces
        <5> QED
          BY <3>1, <4>2, <5>1, <5>2 DEF RInv, SpentAreGone
      <4> QED
        BY <4>1, <4>2
    <3> QED
      BY <3>3, <3>4, <3>5, <3>6 DEF RInv
  <2> QED
    BY <2>2, <2>3
<1>6. ASSUME NEW c \in Calls, ReadsToken(c) PROVE RInv'
  <2>1. /\ call[c].at = "refreshing" /\ call'[c].at \in {"reading", "denied"}
        /\ call'[c].refresh = call[c].refresh
        /\ \A d \in Calls \ {c} : call'[d] = call[d]
        /\ UNCHANGED <<token, jar, history>>
    BY <1>6, ReadsTokenFacts
  <2>2. OneRefresh'
    BY <2>1 DEF RInv, OneRefresh, RefreshPlaces
  <2>3. NewAreUnknown'
    BY <2>1 DEF RInv, NewAreUnknown, Holds, RefreshPlaces
  <2>4. SpentAreGone'
    BY <2>1 DEF RInv, SpentAreGone, Spending
  <2>5. OwnAreUnspent'
    BY <2>1 DEF RInv, OwnAreUnspent
  <2> QED
    BY <2>2, <2>3, <2>4, <2>5 DEF RInv
<1>7. ASSUME NEW c \in Calls, CommitsRefresh(c) PROVE RInv'
  <2>1. PICK old \in Tokens, new \in Tokens : Renews(c, old, new)
    BY <1>7, CommitsRefreshFacts
  <2>2. /\ call[c].at = "reading" /\ call[c].refresh = old /\ old # new
        /\ call'[c].at = "renewed" /\ call'[c].refresh = new /\ call'[c].sent = old
        /\ \A d \in Calls \ {c} : call'[d] = call[d]
        /\ jar' = jar /\ history'.lost = history.lost
    BY <2>1 DEF Renews
  <2>3. history'.spender[old] = TabOf[c]
        /\ \A k \in Tokens \ {old} : history'.spender[k] = history.spender[k]
    BY <2>1 DEF Renews, SInv, SessionsTyped, Histories
  <2>4. history.spender[new] \notin Tabs /\ jar.refresh # new /\ \A d \in Calls : ~Holds(d, new)
    BY <2>1, SessionsAssumption DEF Renews, SInv, UnusedAreUnknown
  <2>5. \A d \in Calls : call[d].at = "renewed" => call[d].refresh \in Tokens
    BY CallFacts DEF SInv
  <2>6. OneRefresh'
    BY <2>2 DEF RInv, OneRefresh, RefreshPlaces
  <2>7. NewAreUnknown'
    <3> SUFFICES ASSUME NEW d \in Calls, call'[d].at = "renewed"
                 PROVE  /\ history'.spender[call'[d].refresh] \notin Tabs
                        /\ jar'.refresh # call'[d].refresh
                        /\ \A e \in Calls \ {d} :
                             call'[e].at \in RefreshPlaces => call'[e].refresh # call'[d].refresh
      BY DEF NewAreUnknown, Holds
    <3>1. CASE d = c
      BY <2>2, <2>3, <2>4, <3>1 DEF Holds
    <3>2. CASE d # c
      <4>1. call'[d] = call[d] /\ call[d].at = "renewed" /\ call[d].refresh \in Tokens
        BY <2>2, <2>5, <3>2
      <4>2. call[d].refresh # old /\ call[d].refresh # new
        BY <2>2, <2>4, <3>2, <4>1 DEF RInv, NewAreUnknown, Holds, RefreshPlaces
      <4>3. \A e \in Calls \ {d} :
              call'[e].at \in RefreshPlaces => call'[e].refresh # call'[d].refresh
        BY <2>2, <4>1, <4>2 DEF RInv, NewAreUnknown, Holds
      <4> QED
        BY <2>2, <2>3, <4>1, <4>2, <4>3 DEF RInv, NewAreUnknown
    <3> QED
      BY <3>1, <3>2
  <2>8. SpentAreGone'
    <3> SUFFICES ASSUME NEW k \in Tokens \ history.lost, history'.spender[k] \in Tabs,
                        jar.refresh = k
                 PROVE  Spending(k)'
      BY <2>2 DEF SpentAreGone
    <3>1. CASE k = old
      BY <2>2, <2>3, <3>1 DEF Spending
    <3>2. CASE k # old
      <4>1. PICK d \in Calls : call[d].at = "renewed" /\ call[d].sent = k
                                 /\ TabOf[d] = history.spender[k]
        BY <2>3, <3>2 DEF RInv, SpentAreGone, Spending
      <4> QED
        BY <2>2, <2>3, <3>2, <4>1 DEF Spending
    <3> QED
      BY <3>1, <3>2
  <2>9. OwnAreUnspent'
    <3> SUFFICES ASSUME NEW d \in Calls, call'[d].at \in {"refreshing", "reading", "denied"},
                        call'[d].refresh \in Tokens \ history.lost
                 PROVE  history'.spender[call'[d].refresh] # TabOf[d]
      BY <2>2 DEF OwnAreUnspent
    <3>1. d # c /\ call'[d] = call[d]
      BY <2>2
    <3>2. TabOf[d] # TabOf[c]
      BY <2>2, <3>1 DEF RInv, OneRefresh, RefreshPlaces
    <3> QED
      BY <2>3, <3>1, <3>2 DEF RInv, OwnAreUnspent
  <2> QED
    BY <2>6, <2>7, <2>8, <2>9 DEF RInv
<1>8. ASSUME NEW c \in Calls, RefreshArrives(c) PROVE RInv'
  <2>1. /\ call[c].at = "renewed" /\ call[c].refresh \in Tokens /\ call[c].sent \in Tokens
        /\ jar'.refresh = call[c].refresh /\ call'[c].at = "sent"
        /\ \A d \in Calls : call'[d] = call[d] \/ call'[d].at = "sent"
        /\ history' = history
    BY <1>8, RefreshArrivesFacts
  <2>2. \A d \in Calls : call'[d].at \in RefreshPlaces => call'[d] = call[d] /\ d # c
    BY <2>1 DEF RefreshPlaces
  <2>3. OneRefresh'
    BY <2>2 DEF RInv, OneRefresh
  <2>4. NewAreUnknown'
    BY <2>1, <2>2 DEF RInv, NewAreUnknown, Holds, RefreshPlaces
  <2>5. SpentAreGone'
    BY <2>1 DEF RInv, SpentAreGone, NewAreUnknown
  <2>6. OwnAreUnspent'
    BY <2>1, <2>2 DEF RInv, OwnAreUnspent, RefreshPlaces
  <2> QED
    BY <2>3, <2>4, <2>5, <2>6 DEF RInv
<1>9. ASSUME NEW c \in Calls, RefreshDenied(c) PROVE RInv'
  <2>1. call[c].at = "denied" /\ SignsOut(c) /\ UNCHANGED <<token, jar, history>>
    BY <1>9 DEF RefreshDenied
  <2>2. /\ \A d \in Calls : call'[d] = call[d] \/ call'[d].at = "idle"
        /\ \A d \in Calls : call[d].at \in RefreshPlaces /\ d # c => call'[d] = call[d]
    BY <2>1, SignsOutFacts
  <2> QED
    BY <2>1, <2>2, RefreshFrame DEF RefreshPlaces
<1>10. ASSUME NEW c \in Calls, RefreshLost(c) PROVE RInv'
  <2>1. /\ call[c].at = "renewed" /\ SignsOut(c)
        /\ history'.lost = history.lost \cup {call[c].sent}
        /\ history'.spender = history.spender /\ jar' = jar
    BY <1>10, RefreshLostFacts
  <2>2. /\ call'[c].at = "idle"
        /\ \A d \in Calls : call'[d] = call[d] \/ call'[d].at = "idle"
        /\ \A d \in Calls : call[d].at \in RefreshPlaces /\ d # c => call'[d] = call[d]
    BY <2>1, SignsOutFacts
  <2>3. \A d \in Calls : call'[d].at \in RefreshPlaces => call'[d] = call[d]
    BY <2>2 DEF RefreshPlaces
  <2>4. OneRefresh'
    BY <2>3 DEF RInv, OneRefresh
  <2>5. NewAreUnknown'
    BY <2>1, <2>3 DEF RInv, NewAreUnknown, Holds, RefreshPlaces
  <2>6. SpentAreGone'
    BY <2>1, <2>2 DEF RInv, SpentAreGone, Spending, RefreshPlaces
  <2>7. OwnAreUnspent'
    BY <2>1, <2>3 DEF RInv, OwnAreUnspent, RefreshPlaces
  <2> QED
    BY <2>4, <2>5, <2>6, <2>7 DEF RInv
<1>11. ASSUME NEW k \in Tokens, RefreshExpires(k) PROVE RInv'
  <2>1. /\ history'.spender = [history.spender EXCEPT ![k] = "time"]
        /\ history'.lost = history.lost /\ UNCHANGED <<jar, call>>
    BY <1>11, RefreshExpiresFacts
  <2>2. \A l \in Tokens : history'.spender[l] \in {history.spender[l], "time"}
    BY <2>1 DEF SInv, SessionsTyped, Histories
  <2> QED
    BY <2>1, <2>2, RefreshFrame, SessionsAssumption
<1>12. ASSUME (\E t \in Tabs : OpensApp(t)) \/ AccessExpires \/ UNCHANGED sessions PROVE RInv'
  <2>1. UNCHANGED <<token, call, history>> /\ jar'.refresh = jar.refresh
    BY <1>12, OtherFacts
  <2> QED
    BY <2>1, RefreshFrame
<1> QED
  BY <1>1, <1>2, <1>3, <1>4, <1>5, <1>6, <1>7, <1>8, <1>9, <1>10, <1>11, <1>12
     DEF SessionsNext, Progress

(* A tab that is refused a refresh has not done it to itself, for any number *)
(* of its calls that fail together or late, any number of other tabs, and    *)
(* whatever expires: the promise the calls share (client.ts 26-44) is over   *)
(* only when the new cookies are there, or lost.                             *)
THEOREM OwnRefreshesNeverSignOut == SessionsSpec => []OwnRefreshNeverSignsOut
<1>1. SessionsInit => RInv
  <2> SUFFICES ASSUME SessionsInit PROVE RInv
    OBVIOUS
  <2>1. \A c \in Calls : call[c].at = "idle"
    BY DEF SessionsInit, Idle
  <2>2. jar.refresh = NoToken /\ NoToken \notin Tokens
    BY SessionsAssumption DEF SessionsInit, NoCookies
  <2> QED
    BY <2>1, <2>2 DEF RInv, OneRefresh, NewAreUnknown, SpentAreGone, OwnAreUnspent, RefreshPlaces
<1>2. SInv /\ RInv => OwnRefreshNeverSignsOut
  <2> SUFFICES ASSUME SInv, RInv, NEW c \in Calls, call[c].at = "denied",
                      call[c].refresh # NoToken, call[c].refresh \notin history.lost
               PROVE  history.spender[call[c].refresh] # TabOf[c]
    BY DEF OwnRefreshNeverSignsOut
  <2>1. call[c].refresh \in Tokens
    BY CallFacts DEF SInv, Cookie
  <2> QED
    BY <2>1 DEF RInv, OwnAreUnspent
<1> QED
  BY <1>1, <1>2, StepKeepsRInv, SessionsInvariant, PTL DEF SessionsSpec

-----------------------------------------------------------------------------
(* Accounts.                                                                *)

WritingRequests ==
  [kind : {"register"}, name : Usernames, password : Passwords, raced : BOOLEAN]
  \cup [kind : {"reset"}, row : Rows, code : Nat, password : Passwords, raced : BOOLEAN]
  \cup [kind : {"cli", "change"}, row : Rows, password : Passwords, raced : BOOLEAN]
  \cup [kind : {"rename"}, row : Rows, name : Usernames, raced : BOOLEAN]
  \cup [kind : {"regenerate"}, row : Rows, raced : BOOLEAN]

AccountsTyped ==
  /\ account \in [Rows -> AppUser \cup {NoAccount}]
  /\ request \in [Requests -> WritingRequests \cup {Free}]
  /\ codes \in Nat /\ shown \in [Rows -> Nat] /\ used \subseteq Nat

\* Rows are never deleted: a request that has read one finds it again.
RowsStay ==
  \A q \in Requests :
    request[q].kind \notin {"none", "register"} => request[q].row \in Registered

\* A registration that nothing has raced is still the first.
FirstRegisters ==
  \A q \in Requests : request[q].kind = "register" /\ ~request[q].raced => Registered = {}

AtMostOne == "register" \in overlaps \/ \A i, j \in Registered : i = j

\* A code is made once and for one row; a reset has read one that was made.
CodesAreNew ==
  /\ \A i \in Registered : account[i].code <= codes
  /\ \A i, j \in Registered : account[i].code = account[j].code => i = j
  /\ \A k \in used : k <= codes
  /\ \A q \in Requests : request[q].kind = "reset" =>
       /\ request[q].code <= codes
       /\ \A i \in Registered \ {request[q].row} : account[i].code # request[q].code

AccInv ==
  AccountsTyped /\ RowsStay /\ FirstRegisters /\ AtMostOne /\ CodesAreNew /\ OneCodeInForce

USE AccountsAssumption

-----------------------------------------------------------------------------
LEMMA RequestFacts ==
  ASSUME AccountsTyped, NEW q \in Requests
  PROVE  /\ request[q].kind \in {"none", "register", "reset", "cli", "change", "rename", "regenerate"}
         /\ request[q] # Free => request[q] \in WritingRequests
         /\ request[q] = Free <=> request[q].kind = "none"
         /\ request[q].kind \notin {"none", "register"} => request[q].row \in Rows
         /\ request[q].kind = "reset" => request[q].code \in Nat
         /\ request[q] # Free =>
              /\ [request[q] EXCEPT !.raced = TRUE] \in WritingRequests
              /\ [request[q] EXCEPT !.raced = TRUE].raced
              /\ [request[q] EXCEPT !.raced = TRUE].kind = request[q].kind
         /\ request[q].kind \notin {"none", "register"} =>
              [request[q] EXCEPT !.raced = TRUE].row = request[q].row
         /\ request[q].kind = "reset" =>
              [request[q] EXCEPT !.raced = TRUE].code = request[q].code
<1> DEFINE r == request[q]
           now == [r EXCEPT !.raced = TRUE]
<1>1. r \in WritingRequests \cup {Free}
  BY DEF AccountsTyped
<1>2. CASE r = Free
  BY <1>2 DEF Free
<1>3. CASE r \in [kind : {"register"}, name : Usernames, password : Passwords, raced : BOOLEAN]
  <2>1. now \in [kind : {"register"}, name : Usernames, password : Passwords, raced : BOOLEAN]
        /\ now.raced /\ r.kind = "register"
    BY <1>3
  <2> QED
    BY <1>3, <2>1 DEF Free, WritingRequests
<1>4. CASE r \in [kind : {"reset"}, row : Rows, code : Nat, password : Passwords, raced : BOOLEAN]
  <2>1. /\ now \in [kind : {"reset"}, row : Rows, code : Nat, password : Passwords, raced : BOOLEAN]
        /\ now.raced /\ now.row = r.row /\ now.code = r.code
        /\ r.kind = "reset" /\ r.row \in Rows /\ r.code \in Nat
    BY <1>4
  <2> QED
    BY <1>4, <2>1 DEF Free, WritingRequests
<1>5. CASE r \in [kind : {"cli", "change"}, row : Rows, password : Passwords, raced : BOOLEAN]
  <2>1. /\ now \in [kind : {"cli", "change"}, row : Rows, password : Passwords, raced : BOOLEAN]
        /\ now.raced /\ now.row = r.row /\ now.kind = r.kind
        /\ r.kind \in {"cli", "change"} /\ r.row \in Rows
    BY <1>5
  <2> QED
    BY <1>5, <2>1 DEF Free, WritingRequests
<1>6. CASE r \in [kind : {"rename"}, row : Rows, name : Usernames, raced : BOOLEAN]
  <2>1. /\ now \in [kind : {"rename"}, row : Rows, name : Usernames, raced : BOOLEAN]
        /\ now.raced /\ now.row = r.row /\ r.kind = "rename" /\ r.row \in Rows
    BY <1>6
  <2> QED
    BY <1>6, <2>1 DEF Free, WritingRequests
<1>7. CASE r \in [kind : {"regenerate"}, row : Rows, raced : BOOLEAN]
  <2>1. /\ now \in [kind : {"regenerate"}, row : Rows, raced : BOOLEAN]
        /\ now.raced /\ now.row = r.row /\ r.kind = "regenerate" /\ r.row \in Rows
    BY <1>7
  <2> QED
    BY <1>7, <2>1 DEF Free, WritingRequests
<1> QED
  BY <1>1, <1>2, <1>3, <1>4, <1>5, <1>6, <1>7 DEF WritingRequests

\* What a commit makes of its row, and of the codes.
LEMMA WrittenFacts ==
  ASSUME AccountsTyped, NEW q \in Requests,
         request[q].kind \in {"reset", "cli", "change", "rename", "regenerate"},
         NEW old \in AppUser
  PROVE  /\ Written(old, request[q]) \in AppUser
         /\ Written(old, request[q]).code = IF ShowsCode(request[q]) THEN NewCode ELSE old.code
<1> DEFINE what == request[q]
<1>1. NewCode \in Nat
  BY DEF NewCode, AccountsTyped
<1>2. CASE what.kind = "change"
  <2>1. what.password \in Passwords
    BY <1>2, RequestFacts DEF WritingRequests, Free
  <2>2. Written(old, what) = [old EXCEPT !.password = what.password]
    BY <1>2 DEF Written
  <2> QED
    BY <1>2, <2>1, <2>2 DEF AppUser, ShowsCode
<1>3. CASE what.kind = "rename"
  <2>1. what.name \in Usernames
    BY <1>3, RequestFacts DEF WritingRequests, Free
  <2>2. Written(old, what) = [old EXCEPT !.name = what.name]
    BY <1>3 DEF Written
  <2> QED
    BY <1>3, <2>1, <2>2 DEF AppUser, ShowsCode
<1>4. CASE what.kind = "regenerate"
  <2>1. Written(old, what) = [old EXCEPT !.code = NewCode]
    BY <1>4 DEF Written
  <2> QED
    BY <1>1, <1>4, <2>1 DEF AppUser, ShowsCode
<1>5. CASE what.kind \in {"reset", "cli"}
  <2>1. what.password \in Passwords
    BY <1>5, RequestFacts DEF WritingRequests, Free
  <2>2. Written(old, what) = [old EXCEPT !.password = what.password, !.code = NewCode]
    BY <1>5 DEF Written
  <2> QED
    BY <1>1, <1>5, <2>1, <2>2 DEF AppUser, ShowsCode
<1> QED
  BY <1>2, <1>3, <1>4, <1>5

-----------------------------------------------------------------------------
(* The steps.                                                               *)

LEMMA BeginsKeepsAccInv ==
  ASSUME AccInv, NEW q \in Requests, NEW what \in WritingRequests, Begins(q, what),
         what.kind = "register" => Registered = {},
         what.kind # "register" => what.row \in Registered,
         what.kind = "reset" => what.code = account[what.row].code
  PROVE  AccInv'
<1>1. /\ request' = [request EXCEPT ![q] = what]
      /\ UNCHANGED <<account, codes, shown, used, overlaps>>
  BY DEF Begins
<1>2. request'[q] = what /\ \A p \in Requests \ {q} : request'[p] = request[p]
  BY <1>1 DEF AccInv, AccountsTyped
<1>3. Registered' = Registered
  BY <1>1 DEF Registered
<1>4. AccountsTyped'
  BY <1>1 DEF AccInv, AccountsTyped
<1>5. RowsStay'
  BY <1>2, <1>3 DEF AccInv, RowsStay
<1>6. FirstRegisters'
  BY <1>2, <1>3 DEF AccInv, FirstRegisters
<1>7. CodesAreNew'
  <2>1. what.kind = "reset" =>
          /\ what.code <= codes
          /\ \A i \in Registered \ {what.row} : account[i].code # what.code
    BY DEF AccInv, CodesAreNew
  <2> QED
    BY <1>1, <1>2, <1>3, <2>1 DEF AccInv, CodesAreNew
<1> QED
  BY <1>1, <1>3, <1>4, <1>5, <1>6, <1>7 DEF AccInv, AtMostOne, OneCodeInForce

\* A request ends: the others keep what they have read, and know if they were raced.
LEMMA EndsFacts ==
  ASSUME AccountsTyped, NEW q \in Requests, NEW writes \in BOOLEAN, Ends(q, writes)
  PROVE  /\ request' \in [Requests -> WritingRequests \cup {Free}] /\ request'[q] = Free
         /\ \A p \in Requests \ {q} :
              /\ request'[p].kind = request[p].kind
              /\ request[p].kind \notin {"none", "register"} => request'[p].row = request[p].row
              /\ request[p].kind = "reset" => request'[p].code = request[p].code
              /\ request[p].kind # "none" => request'[p].raced \/ request'[p] = request[p]
              /\ writes /\ request[p].kind # "none" => request'[p].raced
<1> DEFINE now(p) == [request[p] EXCEPT !.raced = TRUE]
<1>1. request'[q] = Free
  BY DEF Ends
<1>2. ASSUME NEW p \in Requests \ {q}
      PROVE  /\ request'[p] \in WritingRequests \cup {Free}
             /\ request'[p].kind = request[p].kind
             /\ request[p].kind \notin {"none", "register"} => request'[p].row = request[p].row
             /\ request[p].kind = "reset" => request'[p].code = request[p].code
             /\ request[p].kind # "none" => request'[p].raced \/ request'[p] = request[p]
             /\ writes /\ request[p].kind # "none" => request'[p].raced
  <2>1. CASE writes /\ request[p] # Free
    <3>1. request'[p] = now(p)
      BY <2>1 DEF Ends
    <3> QED
      BY <2>1, <3>1, RequestFacts
  <2>2. CASE ~(writes /\ request[p] # Free)
    <3>1. request'[p] = request[p]
      BY <2>2 DEF Ends
    <3> QED
      BY <2>2, <3>1, RequestFacts DEF AccountsTyped
  <2> QED
    BY <2>1, <2>2
<1>3. request' = [p \in Requests |-> request'[p]]
  BY DEF Ends
<1> QED
  BY <1>1, <1>2, <1>3

LEMMA CommitsKeepsAccInv ==
  ASSUME AccInv, NEW q \in Requests, NEW i \in Rows, Commits(q, i)
  PROVE  AccInv'
<1> DEFINE what == request[q]
           first == what.kind = "register"
           shows == ShowsCode(what)
           made == IF first
                   THEN [name |-> what.name, password |-> what.password, code |-> NewCode]
                   ELSE Written(account[i], what)
<1> USE DEF AccInv
<1>1. /\ what # Free /\ RowOf(q, i)
      /\ account' = [account EXCEPT ![i] = made]
      /\ codes' = IF shows THEN NewCode ELSE codes
      /\ shown' = IF shows THEN [shown EXCEPT ![i] = NewCode] ELSE shown
      /\ used' = IF what.kind = "reset" THEN used \cup {what.code} ELSE used
      /\ overlaps' = IF what.raced THEN overlaps \cup {what.kind} ELSE overlaps
      /\ Ends(q, TRUE)
  BY DEF Commits
<1>2. what.kind \in {"register", "reset", "cli", "change", "rename", "regenerate"}
      /\ what \in WritingRequests
  BY <1>1, RequestFacts
<1>3. first => i \notin Registered
  BY <1>1 DEF RowOf
<1>4. ~first => i \in Registered /\ i = what.row
  BY <1>1, <1>2 DEF RowOf, RowsStay
<1>5. NewCode \in Nat /\ NewCode > codes
  BY DEF AccountsTyped, NewCode
<1>6. made \in AppUser /\ made.code = IF shows THEN NewCode ELSE account[i].code
  <2>1. CASE first
    <3>1. what.name \in Usernames /\ what.password \in Passwords
      BY <1>2, <2>1 DEF WritingRequests
    <3> QED
      BY <1>5, <2>1, <3>1 DEF AppUser, ShowsCode
  <2>2. CASE ~first
    <3>1. account[i] \in AppUser
      BY <1>4, <2>2 DEF AccountsTyped, Registered
    <3> QED
      BY <1>2, <2>2, <3>1, WrittenFacts
  <2> QED
    BY <2>1, <2>2
<1>7. made # NoAccount
  BY <1>6
<1>8. account'[i] = made /\ \A j \in Rows \ {i} : account'[j] = account[j]
  BY <1>1 DEF AccountsTyped
<1>9. Registered' = Registered \cup {i}
  BY <1>7, <1>8 DEF Registered
<1>10. AccountsTyped'
  <2>1. request' \in [Requests -> WritingRequests \cup {Free}]
    BY <1>1, EndsFacts
  <2>2. used' \subseteq Nat
    BY <1>1, RequestFacts DEF AccountsTyped
  <2> QED
    BY <1>1, <1>5, <1>6, <2>1, <2>2 DEF AccountsTyped
<1>11. /\ request'[q].kind = "none"
       /\ \A p \in Requests \ {q} :
            /\ request'[p].kind = request[p].kind
            /\ request[p].kind \notin {"none", "register"} => request'[p].row = request[p].row
            /\ request[p].kind = "reset" => request'[p].code = request[p].code
            /\ request[p].kind # "none" => request'[p].raced
  <2>1. TRUE \in BOOLEAN /\ Ends(q, TRUE) /\ AccountsTyped
    BY <1>1
  <2>2. request'[q] = Free /\ Free.kind = "none"
    BY <2>1, EndsFacts DEF Free
  <2>3. \A p \in Requests \ {q} :
          /\ request'[p].kind = request[p].kind
          /\ request[p].kind \notin {"none", "register"} => request'[p].row = request[p].row
          /\ request[p].kind = "reset" => request'[p].code = request[p].code
          /\ request[p].kind # "none" => request'[p].raced
    BY <2>1, EndsFacts
  <2> QED
    BY <2>2, <2>3
<1>12. RowsStay'
  BY <1>9, <1>11 DEF RowsStay
<1>13. FirstRegisters'
  BY <1>11 DEF FirstRegisters
<1>14. AtMostOne'
  <2>1. CASE first /\ what.raced
    BY <1>1, <2>1 DEF AtMostOne
  <2>2. CASE first /\ ~what.raced
    <3>1. Registered = {}
      BY <2>2 DEF FirstRegisters
    <3> QED
      BY <1>9, <3>1 DEF AtMostOne
  <2>3. CASE ~first
    <3>1. Registered' = Registered /\ overlaps \subseteq overlaps'
      BY <1>1, <1>4, <1>9, <2>3
    <3> QED
      BY <3>1 DEF AtMostOne
  <2> QED
    BY <2>1, <2>2, <2>3
<1>15. \A j \in Registered : account[j].code \in Nat
  BY DEF AccountsTyped, Registered, AppUser
<1>16. \A j \in Registered \ {i} : account'[j].code = account[j].code
  BY <1>8 DEF Registered
<1>17. account'[i].code = IF shows THEN NewCode ELSE account[i].code
  BY <1>6, <1>8
<1>18. ~shows => i \in Registered
  BY <1>4 DEF ShowsCode
<1>19. codes' \in Nat /\ codes <= codes'
  BY <1>1, <1>5 DEF AccountsTyped
<1>20. /\ what.kind = "reset" => what.code \in Nat /\ what.code <= codes
       /\ \A k \in used : k \in Nat /\ k <= codes
       /\ \A p \in Requests : request[p].kind = "reset" =>
            request[p].code \in Nat /\ request[p].code <= codes
  BY RequestFacts DEF CodesAreNew, AccountsTyped
<1>21. CodesAreNew'
  <2>1. \A j \in Registered' : account'[j].code <= codes'
    <3>1. \A j \in Registered : account[j].code <= codes
      BY DEF CodesAreNew
    <3>2. \A j \in Registered \ {i} : account'[j].code <= codes'
      BY <1>15, <1>16, <1>19, <3>1 DEF AccountsTyped
    <3>3. account'[i].code <= codes'
      BY <1>1, <1>5, <1>15, <1>17, <1>18, <3>1
    <3> QED
      BY <1>9, <3>2, <3>3
  <2>2. \A j, k \in Registered' : account'[j].code = account'[k].code => j = k
    <3>1. \A j \in Registered \ {i} : account[j].code <= codes /\ account[j].code # NewCode
      BY <1>5, <1>15 DEF CodesAreNew, AccountsTyped
    <3>2. \A j \in Registered \ {i} : account'[j].code # account'[i].code
      BY <1>16, <1>17, <1>18, <3>1 DEF CodesAreNew
    <3>3. \A j, k \in Registered \ {i} : account'[j].code = account'[k].code => j = k
      BY <1>16 DEF CodesAreNew
    <3> QED
      BY <1>9, <3>2, <3>3
  <2>3. \A k \in used' : k <= codes'
    BY <1>1, <1>19, <1>20 DEF AccountsTyped
  <2>4. ASSUME NEW p \in Requests, request'[p].kind = "reset"
        PROVE  /\ request'[p].code <= codes'
               /\ \A j \in Registered' \ {request'[p].row} : account'[j].code # request'[p].code
    <3>1. /\ p # q /\ request[p].kind = "reset" /\ request'[p].row = request[p].row
          /\ request'[p].code = request[p].code
      BY <1>11, <2>4
    <3>2. request[p].code \in Nat /\ request[p].code <= codes /\ request[p].code # NewCode
      BY <1>5, <1>20, <3>1 DEF AccountsTyped
    <3>3. \A j \in Registered \ {request[p].row} : account[j].code # request[p].code
      BY <3>1 DEF CodesAreNew
    <3>4. request'[p].code <= codes'
      BY <1>19, <3>1, <3>2 DEF AccountsTyped
    <3>5. \A j \in Registered' \ {request[p].row} : account'[j].code # request[p].code
      BY <1>9, <1>16, <1>17, <1>18, <3>2, <3>3
    <3> QED
      BY <3>1, <3>4, <3>5
  <2> QED
    BY <2>1, <2>2, <2>3, <2>4 DEF CodesAreNew
<1>22. OneCodeInForce'
  <2>1. ASSUME NEW j \in Registered \ {i}
        PROVE  account'[j].code \notin used' /\ account'[j].code = shown'[j]
    <3>1. what.kind = "reset" => account[j].code # what.code
      BY <1>4, <2>1 DEF CodesAreNew
    <3>2. shown'[j] = shown[j]
      BY <1>1 DEF AccountsTyped, Registered
    <3> QED
      BY <1>1, <1>16, <3>1, <3>2 DEF OneCodeInForce
  <2>2. account'[i].code \notin used'
    <3>1. CASE shows
      BY <1>1, <1>5, <1>17, <1>20, <3>1 DEF AccountsTyped
    <3>2. CASE ~shows
      <4>1. what.kind # "reset"
        BY <3>2 DEF ShowsCode
      <4> QED
        BY <1>1, <1>17, <1>18, <3>2, <4>1 DEF OneCodeInForce
    <3> QED
      BY <3>1, <3>2
  <2>3. account'[i].code = shown'[i]
    BY <1>1, <1>17, <1>18 DEF OneCodeInForce, AccountsTyped
  <2> QED
    BY <1>9, <2>1, <2>2, <2>3 DEF OneCodeInForce
<1> QED
  BY <1>10, <1>12, <1>13, <1>14, <1>21, <1>22

LEMMA RefusedKeepsAccInv ==
  ASSUME AccInv, NEW q \in Requests, Refused(q)
  PROVE  AccInv'
<1>1. Ends(q, FALSE) /\ UNCHANGED <<account, codes, shown, used, overlaps>>
  BY DEF Refused
<1>2. Registered' = Registered
  BY <1>1 DEF Registered
<1>3. /\ request' \in [Requests -> WritingRequests \cup {Free}]
      /\ request'[q].kind = "none"
      /\ \A p \in Requests \ {q} :
           /\ request'[p].kind = request[p].kind
           /\ request[p].kind \notin {"none", "register"} => request'[p].row = request[p].row
           /\ request[p].kind = "reset" => request'[p].code = request[p].code
           /\ request[p].kind # "none" => request'[p].raced \/ request'[p] = request[p]
  <2>1. FALSE \in BOOLEAN /\ Ends(q, FALSE) /\ AccountsTyped
    BY <1>1 DEF AccInv
  <2>2. request' \in [Requests -> WritingRequests \cup {Free}]
        /\ request'[q] = Free /\ Free.kind = "none"
    BY <2>1, EndsFacts DEF Free
  <2>3. \A p \in Requests \ {q} :
          /\ request'[p].kind = request[p].kind
          /\ request[p].kind \notin {"none", "register"} => request'[p].row = request[p].row
          /\ request[p].kind = "reset" => request'[p].code = request[p].code
          /\ request[p].kind # "none" => request'[p].raced \/ request'[p] = request[p]
    BY <2>1, EndsFacts
  <2> QED
    BY <2>2, <2>3
<1>4. AccountsTyped'
  BY <1>1, <1>3 DEF AccInv, AccountsTyped
<1>5. RowsStay'
  BY <1>2, <1>3 DEF AccInv, RowsStay
<1>6. FirstRegisters'
  BY <1>2, <1>3 DEF AccInv, FirstRegisters
<1>7. CodesAreNew'
  BY <1>1, <1>2, <1>3 DEF AccInv, CodesAreNew
<1> QED
  BY <1>1, <1>2, <1>4, <1>5, <1>6, <1>7 DEF AccInv, AtMostOne, OneCodeInForce

\* The inductive invariant: what was read stays there, and a code is made once.
LEMMA AccountsInvariant == AccountsSpec => []AccInv
<1>1. AccountsInit => AccInv
  <2> SUFFICES ASSUME AccountsInit PROVE AccInv
    OBVIOUS
  <2>1. Registered = {} /\ \A q \in Requests : request[q].kind = "none"
    BY DEF AccountsInit, Registered, Free
  <2> QED
    BY <2>1 DEF AccountsInit, AccInv, AccountsTyped, RowsStay, FirstRegisters, AtMostOne,
                CodesAreNew, OneCodeInForce
<1>2. AccInv /\ [AccountsNext]_accounts => AccInv'
  <2> SUFFICES ASSUME AccInv, [AccountsNext]_accounts PROVE AccInv'
    OBVIOUS
  <2>1. \A i \in Registered : i \in Rows /\ account[i].code \in Nat
    BY DEF AccInv, AccountsTyped, Registered, AppUser
  <2>2. ASSUME NEW q \in Requests, NEW name \in Usernames, NEW password \in Passwords,
               BeginsRegister(q, name, password)
        PROVE  AccInv'
    <3> DEFINE what == [kind |-> "register", name |-> name, password |-> password,
                        raced |-> FALSE]
    <3>1. what \in WritingRequests /\ what.kind = "register"
      BY DEF WritingRequests
    <3>2. Begins(q, what) /\ Registered = {}
      BY <2>2 DEF BeginsRegister, SetupRequired
    <3> QED
      BY <3>1, <3>2, BeginsKeepsAccInv
  <2>3. ASSUME NEW q \in Requests, NEW i \in Rows, NEW password \in Passwords,
               BeginsReset(q, i, password)
        PROVE  AccInv'
    <3> DEFINE what == [kind |-> "reset", row |-> i, code |-> account[i].code,
                        password |-> password, raced |-> FALSE]
    <3>1. Begins(q, what) /\ i \in Registered
      BY <2>3 DEF BeginsReset
    <3>2. what \in WritingRequests /\ what.kind = "reset" /\ what.row = i
          /\ what.code = account[i].code
      BY <2>1, <3>1 DEF WritingRequests
    <3> QED
      BY <3>1, <3>2, BeginsKeepsAccInv
  <2>4. ASSUME NEW q \in Requests, NEW i \in Rows, NEW password \in Passwords,
               BeginsCli(q, i, password)
        PROVE  AccInv'
    <3> DEFINE what == [kind |-> "cli", row |-> i, password |-> password, raced |-> FALSE]
    <3>1. Begins(q, what) /\ i \in Registered
      BY <2>4 DEF BeginsCli
    <3>2. what \in WritingRequests /\ what.kind = "cli" /\ what.row = i
      BY DEF WritingRequests
    <3> QED
      BY <3>1, <3>2, BeginsKeepsAccInv
  <2>5. ASSUME NEW q \in Requests, NEW i \in Rows, NEW current \in Passwords,
               NEW password \in Passwords, BeginsChange(q, i, current, password)
        PROVE  AccInv'
    <3> DEFINE what == [kind |-> "change", row |-> i, password |-> password, raced |-> FALSE]
    <3>1. Begins(q, what) /\ i \in Registered
      BY <2>5 DEF BeginsChange
    <3>2. what \in WritingRequests /\ what.kind = "change" /\ what.row = i
      BY DEF WritingRequests
    <3> QED
      BY <3>1, <3>2, BeginsKeepsAccInv
  <2>6. ASSUME NEW q \in Requests, NEW i \in Rows, NEW name \in Usernames,
               BeginsRename(q, i, name)
        PROVE  AccInv'
    <3> DEFINE what == [kind |-> "rename", row |-> i, name |-> name, raced |-> FALSE]
    <3>1. Begins(q, what) /\ i \in Registered
      BY <2>6 DEF BeginsRename
    <3>2. what \in WritingRequests /\ what.kind = "rename" /\ what.row = i
      BY DEF WritingRequests
    <3> QED
      BY <3>1, <3>2, BeginsKeepsAccInv
  <2>7. ASSUME NEW q \in Requests, NEW i \in Rows, BeginsRegenerate(q, i)
        PROVE  AccInv'
    <3> DEFINE what == [kind |-> "regenerate", row |-> i, raced |-> FALSE]
    <3>1. Begins(q, what) /\ i \in Registered
      BY <2>7 DEF BeginsRegenerate
    <3>2. what \in WritingRequests /\ what.kind = "regenerate" /\ what.row = i
      BY DEF WritingRequests
    <3> QED
      BY <3>1, <3>2, BeginsKeepsAccInv
  <2>8. CASE UNCHANGED accounts
    BY <2>8 DEF accounts, AccInv, AccountsTyped, RowsStay, FirstRegisters, AtMostOne,
                CodesAreNew, OneCodeInForce, Registered
  <2> QED
    BY <2>2, <2>3, <2>4, <2>5, <2>6, <2>7, <2>8, CommitsKeepsAccInv, RefusedKeepsAccInv
       DEF AccountsNext
<1> QED
  BY <1>1, <1>2, PTL DEF AccountsSpec

(* However many registrations, resets and renames overlap, there is one      *)
(* account, unless a first registration had counted before another request   *)
(* committed and wrote after it (auth_service.py 25-55).                     *)
THEOREM ThereIsOneAccount == AccountsSpec => []OneAccount
<1>1. AccInv => OneAccount
  <2> SUFFICES ASSUME AccInv, "register" \notin overlaps
               PROVE  Cardinality(Registered) <= 1
    BY DEF OneAccount
  <2>1. \A i, j \in Registered : i = j
    BY DEF AccInv, AtMostOne
  <2>2. CASE Registered = {}
    BY <2>2, FS_EmptySet
  <2>3. CASE Registered # {}
    <3>1. PICK i \in Registered : TRUE
      BY <2>3
    <3>2. Registered = {i}
      BY <2>1, <3>1
    <3>3. Cardinality(Registered) = 1
      BY <3>2, FS_Singleton
    <3> QED
      BY <3>3
  <2> QED
    BY <2>2, <2>3
<1> QED
  BY <1>1, AccountsInvariant, PTL

(* A recovery code that has reset a password is not in force any more, and   *)
(* the code that was shown last for an account is, although resets, command  *)
(* lines and requests for a new code overlap: each makes its own and stores  *)
(* what it shows (auth_service.py 135-161).                                  *)
THEOREM UsedCodesAreSpent == AccountsSpec => []OneCodeInForce
<1>1. AccInv => OneCodeInForce
  BY DEF AccInv
<1> QED
  BY <1>1, AccountsInvariant, PTL
=============================================================================
