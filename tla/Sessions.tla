------------------------------ MODULE Sessions ------------------------------
(***************************************************************************)
(* The sign-in sessions of one person: the doors they come in through, the *)
(* token pairs their browsers hold, and everything that ends a session,    *)
(* from a click on "sign out" to a change of roles at the other end of     *)
(* the company.                                                            *)
(*                                                                         *)
(* A session is a row of user_sessions, known by its place in `rows`. Each *)
(* time tokens are minted for it its `turn` goes up, so <<session, turn>>  *)
(* stands for the jti of an access and of a refresh token. A handler is    *)
(* one step, but its answer reaches the browser later, after the answers   *)
(* to other tabs or not at all. Passwords and codes are taken to be right: *)
(* a wrong one opens nothing. Deny-list entries expire with their token.   *)
(***************************************************************************)
EXTENDS Integers, Sequences, FiniteSets

CONSTANTS
  Browsers,
  Doors,         \* the privileged portals, each named for the role it takes
  AccessLife,    \* ACCESS_TOKEN_EXPIRE_MINUTES
  RefreshLife,   \* REFRESH_TOKEN_EXPIRE_DAYS
  IdleLimit,     \* PRIVILEGED_IDLE
  MaxAge,        \* PRIVILEGED_MAX
  SlideEvery,    \* SLIDE_EVERY
  NoToken,       \* an empty cookie, and the answer that empties it
  MaxTime,       \* bound on the clock
  MaxSessions,   \* bound on sessions
  MaxTurns,      \* bound on the tokens of a session
  MaxAnswers,    \* bound on the answers on their way to browsers
  MaxUpheavals   \* bound on changes to the account and outages of Redis

Portals == Doors \cup {"employee"}

ASSUME SessionAssumption ==
  /\ IsFiniteSet(Browsers) /\ IsFiniteSet(Doors) /\ "employee" \notin Doors
  /\ NoToken \notin Nat \cup [sid : Nat, turn : Nat, at : Nat]
  /\ {AccessLife, RefreshLife, IdleLimit, MaxAge, SlideEvery} \subseteq Nat \ {0}
  /\ {MaxTime, MaxSessions, MaxTurns, MaxAnswers, MaxUpheavals} \subseteq Nat
  /\ AccessLife <= RefreshLife

VARIABLES
  now,
  account,    \* what the users row says
  rows,       \* user_sessions
  cookies,    \* the token pair of each browser
  answers,    \* Set-Cookie headers on their way to it
  redis,      \* whether Redis answers
  denied,     \* the deny-list
  touched,    \* history: when a person last used the session
  ended,      \* history: when the session was ended
  spared,     \* history: sessions with a token from the very instant of the last cutoff
  upheavals

sessionVars == <<now, account, rows, cookies, answers, redis, denied,
                 touched, ended, spared, upheavals>>

Instants == 0 .. MaxTime
Pair == [sid : 1 .. MaxSessions, turn : 0 .. MaxTurns, at : Instants]
Row == [portal : Portals, login : Instants, last : Instants, turn : 0 .. MaxTurns, at : Instants, open : BOOLEAN]

SessionTypeOK ==
  /\ now \in Instants
  /\ account \in [active : BOOLEAN, roles : SUBSET Doors, validFrom : Instants]
  /\ rows \in Seq(Row) /\ Len(rows) <= MaxSessions
  /\ cookies \in [Browsers -> Pair \cup {NoToken}]
  /\ answers \subseteq [to : Browsers, token : Pair \cup {NoToken}]
  /\ redis \in BOOLEAN
  /\ denied \subseteq [kind : {"access", "refresh"}, token : Pair]
  /\ touched \in Seq(Instants) /\ ended \in Seq(Instants \cup {NoToken})
  /\ Len(touched) = Len(rows) /\ Len(ended) = Len(rows)
  /\ spared \subseteq 1 .. MaxSessions /\ upheavals \in 0 .. MaxUpheavals

SessionInit ==
  /\ now = 0
  /\ account = [active |-> TRUE, roles |-> Doors, validFrom |-> 0]
  /\ rows = <<>> /\ touched = <<>> /\ ended = <<>>
  /\ cookies = [b \in Browsers |-> NoToken]
  /\ answers = {}
  /\ redis = TRUE /\ denied = {} /\ spared = {} /\ upheavals = 0

-----------------------------------------------------------------------------
(* What the server makes of a pair of tokens.                              *)
Denied(kind, p) == redis /\ [kind |-> kind, token |-> p] \in denied
Revoke(entries) == denied' = IF redis THEN denied \cup entries ELSE denied

Lifetime(kind) == IF kind = "access" THEN AccessLife ELSE RefreshLife

(* Why a privileged session grants its portal no longer.                   *)
Lapsed(s) ==
  LET row == rows[s] IN
  \/ ~row.open
  \/ now >= row.login + MaxAge
  \/ now >= row.last + IdleLimit
  \/ row.portal \notin account.roles

Privileged(p) == rows[p.sid].portal \in Doors

Authentic(p) ==
  /\ now < p.at + Lifetime("access")
  /\ ~Denied("access", p)
  /\ account.active
  /\ p.at >= account.validFrom

(* The request is answered, in the portal of its session.                  *)
Served(p) == Authentic(p) /\ (Privileged(p) => ~Lapsed(p.sid))

(* A slip: the row of a session is not looked at when it is renewed.       *)
RenewableWithoutRow(p) ==
  /\ now < p.at + RefreshLife /\ ~Denied("refresh", p)
  /\ account.active /\ p.at >= account.validFrom

Renewable(p) ==
  /\ now < p.at + RefreshLife
  /\ ~Denied("refresh", p)
  /\ account.active
  /\ p.at >= account.validFrom
  /\ rows[p.sid].open

Renewed(p) == Renewable(p) /\ (Privileged(p) => ~Lapsed(p.sid))

-----------------------------------------------------------------------------
(* What a handler does to the sessions.                                    *)
HasRow(s) == s \in DOMAIN rows
Closing(S) == {s \in S : HasRow(s) /\ rows[s].open}
Without(S) == [s \in DOMAIN rows |-> IF s \in S THEN [rows[s] EXCEPT !.open = FALSE] ELSE rows[s]]
EndedNow(S) == [s \in DOMAIN rows |-> IF s \in Closing(S) THEN now ELSE ended[s]]
LastToken(s) == [sid |-> s, turn |-> rows[s].turn, at |-> rows[s].at]
LastTokens(S) == {[kind |-> "access", token |-> LastToken(s)] : s \in Closing(S)}

End(S) == rows' = Without(S) /\ ended' = EndedNow(S) /\ UNCHANGED touched

Begin(S, portal) ==
  /\ Len(rows) < MaxSessions
  /\ rows' = Append(Without(S), [portal |-> portal, login |-> now, last |-> now, turn |-> 0, at |-> now, open |-> TRUE])
  /\ ended' = Append(EndedNow(S), NoToken)
  /\ touched' = Append(touched, now)

FirstPair == [sid |-> Len(rows) + 1, turn |-> 0, at |-> now]

Answer(b, x) ==
  /\ Cardinality(answers) < MaxAnswers
  /\ answers' = answers \cup {[to |-> b, token |-> x]}

Same(b) == cookies[b] # NoToken
KeepAccount == UNCHANGED <<now, account, redis, spared, upheavals>>

(* The session a browser brings along when it signs in again.              *)
Presented(b) ==
  IF cookies[b] # NoToken /\ now < cookies[b].at + RefreshLife THEN {cookies[b]} ELSE {}
Tokens(P) == [kind : {"access", "refresh"}, token : P]
SidsOf(P) == {p.sid : p \in P}

Start(b, portal) ==
  LET gone == Presented(b) IN
  /\ Begin(SidsOf(gone), portal)
  /\ Revoke(Tokens(gone) \cup LastTokens(SidsOf(gone)))
  /\ Answer(b, FirstPair)

-----------------------------------------------------------------------------
(* The handlers.                                                           *)
SignIn(b, door) ==
  /\ account.active
  /\ door \in Doors => door \in account.roles
  /\ Start(b, door)
  /\ UNCHANGED <<cookies>> /\ KeepAccount

(* A request: `polling` is one the client makes while nobody uses it.      *)
Slid(s) ==
  IF rows[s].portal \in Doors /\ now - rows[s].last >= SlideEvery
  THEN [rows EXCEPT ![s].last = now] ELSE rows

Use(b, polling) ==
  /\ Same(b) /\ Served(cookies[b])
  /\ LET s == cookies[b].sid IN
     /\ rows' = IF polling THEN rows ELSE Slid(s)
     /\ touched' = IF polling THEN touched ELSE [touched EXCEPT ![s] = now]
  /\ UNCHANGED <<cookies, answers, denied, ended>> /\ KeepAccount

FindLapsed(b) ==
  /\ Same(b) /\ Authentic(cookies[b]) /\ Privileged(cookies[b])
  /\ Lapsed(cookies[b].sid) /\ rows[cookies[b].sid].open
  /\ End({cookies[b].sid}) /\ Revoke(LastTokens({cookies[b].sid}))
  /\ UNCHANGED <<cookies, answers>> /\ KeepAccount

Refresh(b) ==
  LET p == cookies[b] IN
  /\ Same(b) /\ Renewed(p)
  /\ rows[p.sid].turn < MaxTurns
  /\ rows' = [rows EXCEPT ![p.sid].turn = @ + 1, ![p.sid].at = now]
  /\ Revoke({[kind |-> "refresh", token |-> p]})
  /\ Answer(b, [sid |-> p.sid, turn |-> rows[p.sid].turn + 1, at |-> now])
  /\ UNCHANGED <<cookies, touched, ended>> /\ KeepAccount

RefuseRefresh(b) ==
  LET p == cookies[b]
      gone == IF Renewable(p) THEN {p.sid} ELSE {} IN
  /\ Same(b) /\ ~Renewed(p)
  /\ End(gone) /\ Revoke(LastTokens(gone))
  /\ Answer(b, NoToken)
  /\ UNCHANGED <<cookies>> /\ KeepAccount

SignOut(b) ==
  LET gone == Presented(b) IN
  /\ Same(b)
  /\ End(SidsOf(gone))
  /\ Revoke(Tokens(gone) \cup LastTokens(SidsOf(gone) \cap {s \in DOMAIN rows : rows[s].portal \in Doors}))
  /\ Answer(b, NoToken)
  /\ UNCHANGED <<cookies>> /\ KeepAccount

ExitPrivileged(b) ==
  LET p == cookies[b] IN
  /\ Same(b) /\ Served(p) /\ Privileged(p)
  /\ Begin({p.sid}, "employee")
  /\ Revoke(LastTokens({p.sid}) \cup {[kind |-> "refresh", token |-> p]})
  /\ Answer(b, FirstPair)
  /\ UNCHANGED <<cookies>> /\ KeepAccount

RevokeSession(b, s) ==
  /\ Same(b) /\ Served(cookies[b]) /\ HasRow(s) /\ rows[s].open
  /\ End({s}) /\ Revoke(LastTokens({s}))
  /\ UNCHANGED <<cookies, answers>> /\ KeepAccount

-----------------------------------------------------------------------------
(* Upheavals: the account changes, and with it what its tokens are worth.  *)
Held == ({cookies[b] : b \in Browsers} \cup {a.token : a \in answers}) \ {NoToken}

Upheaval == upheavals < MaxUpheavals /\ upheavals' = upheavals + 1

(* From now on only tokens minted now or later are good.                   *)
Cutoff(changed) ==
  /\ account' = [changed EXCEPT !.validFrom = now]
  /\ spared' = {p.sid : p \in {q \in Held : q.at = now}}

ChangePassword(b) ==
  /\ Upheaval
  /\ Same(b) /\ Served(cookies[b])
  /\ Cutoff(account)
  /\ Begin(DOMAIN rows, "employee") /\ Revoke(LastTokens(DOMAIN rows))
  /\ Answer(b, FirstPair)
  /\ UNCHANGED <<now, cookies, redis>>

CompleteReset ==
  /\ Upheaval /\ account.active
  /\ Cutoff(account)
  /\ UNCHANGED <<now, rows, cookies, answers, redis, denied, touched, ended>>

SetRoles(roles) ==
  /\ Upheaval /\ roles # account.roles
  /\ Cutoff([account EXCEPT !.roles = roles])
  /\ UNCHANGED <<now, rows, cookies, answers, redis, denied, touched, ended>>

SignOutSeparated ==
  /\ Upheaval /\ account.active
  /\ Cutoff([account EXCEPT !.active = FALSE])
  /\ End(DOMAIN rows) /\ Revoke(LastTokens(DOMAIN rows))
  /\ UNCHANGED <<now, cookies, answers, redis>>

ReinstateAccount ==
  /\ Upheaval /\ ~account.active
  /\ Cutoff([account EXCEPT !.active = TRUE])
  /\ UNCHANGED <<now, rows, cookies, answers, redis, denied, touched, ended>>

RedisFails ==
  /\ Upheaval /\ redis /\ redis' = FALSE
  /\ UNCHANGED <<now, account, rows, cookies, answers, denied, touched, ended, spared>>

RedisReturns ==
  /\ ~redis /\ redis' = TRUE
  /\ UNCHANGED <<now, account, rows, cookies, answers, denied, touched, ended, spared, upheavals>>

-----------------------------------------------------------------------------
(* The browser's side, and the clock.                                      *)
Receive(a) ==
  /\ answers' = answers \ {a}
  /\ cookies' = [cookies EXCEPT ![a.to] = a.token]
  /\ UNCHANGED <<rows, denied, touched, ended>> /\ KeepAccount

Lose(a) ==
  /\ answers' = answers \ {a}
  /\ UNCHANGED <<rows, cookies, denied, touched, ended>> /\ KeepAccount

SessionTick ==
  /\ now < MaxTime /\ now' = now + 1
  /\ denied' = {e \in denied : now' < e.token.at + Lifetime(e.kind)}
  /\ UNCHANGED <<account, rows, cookies, answers, redis, touched, ended, spared, upheavals>>

Handlers(b) ==
  \/ \E door \in Portals : SignIn(b, door)
  \/ \E polling \in BOOLEAN : Use(b, polling)
  \/ FindLapsed(b) \/ Refresh(b) \/ RefuseRefresh(b) \/ SignOut(b) \/ ExitPrivileged(b)
  \/ \E s \in DOMAIN rows : RevokeSession(b, s)
  \/ ChangePassword(b)

SessionNext ==
  \/ \E b \in Browsers : Handlers(b)
  \/ \E a \in answers : Receive(a) \/ Lose(a)
  \/ CompleteReset \/ \E roles \in SUBSET Doors : SetRoles(roles)
  \/ SignOutSeparated \/ ReinstateAccount \/ RedisFails \/ RedisReturns \/ SessionTick

SessionSpec == SessionInit /\ [][SessionNext]_sessionVars

-----------------------------------------------------------------------------
(* A privileged session lapses once nobody has used it for IdleLimit, and  *)
(* after MaxAge whatever happens: neither renewing its tokens nor what the *)
(* client does by itself keeps it. And it does not lapse earlier than that *)
(* (but for SlideEvery) on somebody who is using it.                       *)
LapsesWhenUnattended ==
  \A p \in Held :
    Privileged(p) =>
      LET s == p.sid IN
      /\ Served(p) \/ Renewed(p) => now < touched[s] + IdleLimit /\ now < rows[s].login + MaxAge
      /\ /\ now < touched[s] + IdleLimit - SlideEvery /\ now < rows[s].login + MaxAge
         /\ rows[s].open /\ rows[s].portal \in account.roles
         => ~Lapsed(s)

(* A session that was ended renews nothing, and serves nothing once the    *)
(* access tokens it had given out have expired: signing out, revoking it   *)
(* from another device, leaving its portal, changing the password and a    *)
(* separation all stand, with Redis or without, whatever answers are still *)
(* on their way. A privileged session serves nothing from that instant.    *)
EndedIsOver ==
  \A p \in Held :
    ended[p.sid] # NoToken =>
      /\ ~Renewed(p)
      /\ Served(p) => ~Privileged(p) /\ now < ended[p.sid] + AccessLife

(* A cutoff signs the person out everywhere: a session from before the     *)
(* last password change or reset, change of roles, separation or           *)
(* reinstatement is never served or renewed again, however often it was    *)
(* renewed before. Only a token of the very same instant is spared.        *)
CutoffsSignOut ==
  \A p \in Held :
    Served(p) \/ Renewed(p) =>
      rows[p.sid].login >= account.validFrom \/ p.sid \in spared

(* A session is over when it should be, whichever way it ends: by neglect, *)
(* by being ended, or by a cutoff.                                         *)
SessionsEnd ==
    SessionTypeOK /\ LapsesWhenUnattended /\ EndedIsOver /\ CutoffsSignOut
=============================================================================
