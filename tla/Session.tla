------------------------------- MODULE Session -------------------------------
(***************************************************************************)
(* Who is signed in: the tabs of one browser with the hint they keep in the *)
(* browser's storage, its one session cookie, the server's sessions, and    *)
(* the first-login change of a password.  Calls answer in any order, so a   *)
(* refusal may come long after the tab has signed in again.                 *)
(***************************************************************************)
EXTENDS Integers, FiniteSets

CONSTANTS
    Tabs,           \* tabs of the browser
    Users,          \* accounts
    MaxSessions,    \* sessions the server creates
    MaxResets,      \* passwords another admin sets
    MaxCalls        \* what the tabs ask

VARIABLES
    passwordReset,  \* server: accounts whose password has to be changed
    authToken,      \* server: the token of each account; a new password makes a new one,
                    \* and with it the token that lets the first password be set
    sessions,       \* server: credentials of each session, with the token they had
    cookie,         \* browser: the session its requests carry, or 0
    stored,         \* browser: the user in its storage, or Nobody
    user,           \* tab: the user it shows, or Nobody
    view,           \* tab: login, setpw or a page of the console
    calls,          \* tab: requests in flight
    served,         \* requests served: with the account's flag, and whether the session had outlived
    outlived,       \* sessions that were there when another admin set their account's password
    asks            \* calls and resets so far

serverVars == <<passwordReset, authToken, sessions, cookie, outlived>>
tabVars == <<stored, user, view, calls>>

SessionIds == 1..MaxSessions
Dead == [live |-> FALSE, login |-> "nobody", token |-> 0]
Nobody == [login |-> "nobody", passwordReset |-> FALSE, token |-> 0]
UserView(u) == [login |-> u, passwordReset |-> u \in passwordReset, token |-> authToken[u]]
Call(t, kind, u) == [tab |-> t, kind |-> kind, as |-> u, with |-> cookie, token |-> user[t].token]
Ask(c) == asks.calls < MaxCalls /\ asks' = [asks EXCEPT !.calls = @ + 1] /\ calls' = calls \cup {c}

SessionInit ==
    /\ passwordReset \in SUBSET Users /\ authToken = [u \in Users |-> 1]
    /\ sessions = [s \in SessionIds |-> Dead] /\ cookie = 0
    /\ stored = Nobody /\ user = [t \in Tabs |-> Nobody] /\ view = [t \in Tabs |-> "login"]
    /\ calls = {} /\ served = {} /\ outlived = {} /\ asks = [calls |-> 0, resets |-> 0]

-----------------------------------------------------------------------------
(* Signing in. *)

isAuthenticated(t) == user[t] # Nobody
Busy(t, kind) == \E c \in calls : c.tab = t /\ c.kind = kind

LoginPage(t, u) ==
    /\ view[t] = "login" /\ ~Busy(t, "login") /\ Ask(Call(t, "login", u))
    /\ UNCHANGED <<serverVars, stored, user, view, served>>

\* getSession: the session of the cookie if it lives, else a new one.
SessionFor(c) ==
    IF c.with # 0 /\ sessions[c.with].live THEN {c.with}
    ELSE {s \in SessionIds : ~sessions[s].live /\ s # c.with}
Credentials(u) == [live |-> TRUE, login |-> u, token |-> authToken[u]]
Begin(s, u) == sessions' = [sessions EXCEPT ![s] = Credentials(u)] /\ outlived' = outlived \ {s}

\* The first login goes to the change of the password, any other one where the tab came from.
login(c) ==
    /\ c \in calls /\ c.kind = "login"
    /\ \E s \in SessionFor(c) : Begin(s, c.as) /\ cookie' = s
    /\ user' = [user EXCEPT ![c.tab] = UserView(c.as)] /\ stored' = UserView(c.as)
    /\ view' = [view EXCEPT ![c.tab] = IF c.as \in passwordReset THEN "setpw" ELSE "console"]
    /\ calls' = calls \ {c} /\ UNCHANGED <<passwordReset, authToken, served, asks>>

\* Wrong password, or the answer is lost: with it a new session, but not the switch of one.
loginFails(c) ==
    /\ c \in calls /\ c.kind = "login" /\ calls' = calls \ {c}
    /\ \/ UNCHANGED <<sessions, outlived>>
       \/ \E s \in SessionFor(c) : Begin(s, c.as)
    /\ UNCHANGED <<passwordReset, authToken, cookie, stored, user, view, served, asks>>

\* A tab that is loaded takes the stored user; the address it is on is any.
loadStoredUser(t) ==
    /\ user[t] # stored /\ user' = [user EXCEPT ![t] = stored]
    /\ view' = [view EXCEPT ![t] = IF stored = Nobody THEN "login" ELSE "console"]
    /\ calls' = {c \in calls : c.tab # t}
    /\ UNCHANGED <<serverVars, stored, served, asks>>

\* ProtectedRoute: an address of the console without a user leads to the login page.
ProtectedRoute(t) == IF isAuthenticated(t) THEN "console" ELSE "login"
Navigate(t) ==
    /\ view[t] # ProtectedRoute(t) /\ view' = [view EXCEPT ![t] = ProtectedRoute(t)]
    /\ UNCHANGED <<serverVars, stored, user, calls, served, asks>>

-----------------------------------------------------------------------------
(* The requests of the console. *)

request(t) ==
    /\ view[t] = "console" /\ isAuthenticated(t) /\ Ask(Call(t, "private", user[t].login))
    /\ UNCHANGED <<serverVars, stored, user, view, served>>

SessionOf(c) == IF c.with = 0 THEN Dead ELSE sessions[c.with]

\* AuthFilter: the account as it is stored now, not as it was when the session began.
AsSignedIn(s) == s.live
AuthFilter(s) == s.live /\ s.login \notin passwordReset /\ s.token = authToken[s.login]

Served(c) ==
    /\ c \in calls /\ c.kind = "private" /\ AuthFilter(SessionOf(c))
    /\ calls' = calls \ {c}
    /\ served' = served \cup {[flagged |-> SessionOf(c).login \in passwordReset,
                               outlived |-> c.with \in outlived]}
    /\ UNCHANGED <<serverVars, stored, user, view, asks>>

\* The tab that hears of it has no user from then on, nor has the storage, whoever has signed
\* in meanwhile. The cookie is HttpOnly: no script can clear it.
SignedOut(t) ==
    /\ user' = [user EXCEPT ![t] = Nobody] /\ stored' = Nobody
    /\ view' = [view EXCEPT ![t] = IF @ = "setpw" THEN "setpw" ELSE "login"]

handleUnauthorized(c) ==
    /\ c \in calls /\ c.kind = "private" /\ ~AuthFilter(SessionOf(c))
    /\ calls' = calls \ {c} /\ SignedOut(c.tab)
    /\ UNCHANGED <<serverVars, served, asks>>

-----------------------------------------------------------------------------
(* Signing out, and the first password. *)

signOut(t) ==
    /\ view[t] = "console" /\ Ask(Call(t, "logout", user[t].login))
    /\ UNCHANGED <<serverVars, stored, user, view, served>>

\* Best effort: a logout that fails signs the tab out all the same.
logout(c) ==
    /\ c \in calls /\ c.kind = "logout" /\ calls' = calls \ {c} /\ SignedOut(c.tab)
    /\ \/ c.with # 0 /\ sessions' = [sessions EXCEPT ![c.with] = Dead]
       \/ UNCHANGED sessions
    /\ UNCHANGED <<passwordReset, authToken, cookie, outlived, served, asks>>

\* The page is for a flagged user with its reset token; else it leads to the login page.
SetPasswordPage(t) ==
    /\ view[t] = "setpw"
    /\ IF user[t].passwordReset
       THEN ~Busy(t, "reset") /\ Ask(Call(t, "reset", user[t].login)) /\ UNCHANGED view
       ELSE view' = [view EXCEPT ![t] = "login"] /\ UNCHANGED <<calls, asks>>
    /\ UNCHANGED <<serverVars, stored, user, served>>

\* The token is spent by the first use; then the page signs out. Else it only says so.
submitForcedPasswordReset(c) ==
    /\ c \in calls /\ c.kind = "reset"
    /\ \/ /\ c.as \in passwordReset /\ c.token = authToken[c.as]
          /\ passwordReset' = passwordReset \ {c.as}
          /\ calls' = (calls \ {c}) \cup {[c EXCEPT !.kind = "logout", !.with = cookie]}
       \/ calls' = calls \ {c} /\ UNCHANGED passwordReset
    /\ UNCHANGED <<authToken, sessions, cookie, outlived, stored, user, view, served, asks>>

\* Another admin sets the password of an account, to be changed at the next login or not.
updatePasswordWithReset(u) ==
    /\ asks.resets < MaxResets /\ asks' = [asks EXCEPT !.resets = @ + 1]
    /\ authToken' = [authToken EXCEPT ![u] = @ + 1]
    /\ passwordReset' \in {passwordReset \ {u}, passwordReset \cup {u}}
    /\ outlived' = outlived \cup {s \in SessionIds : sessions[s].live /\ sessions[s].login = u}
    /\ UNCHANGED <<sessions, cookie, tabVars, served>>

SessionNext ==
    \/ \E t \in Tabs : loadStoredUser(t) \/ Navigate(t) \/ request(t) \/ signOut(t) \/ SetPasswordPage(t)
    \/ \E t \in Tabs, u \in Users : LoginPage(t, u)
    \/ \E c \in calls : login(c) \/ loginFails(c) \/ Served(c) \/ handleUnauthorized(c) \/ logout(c)
                        \/ submitForcedPasswordReset(c)
    \/ \E u \in Users : updatePasswordWithReset(u)

-----------------------------------------------------------------------------
SessionTypeOK ==
    /\ passwordReset \subseteq Users /\ cookie \in {0} \cup SessionIds /\ outlived \subseteq SessionIds
    /\ \A t \in Tabs : view[t] \in {"login", "setpw", "console"}
    /\ \A c \in calls : c.kind \in {"login", "private", "logout", "reset"} /\ c.tab \in Tabs
    /\ stored.login \in Users \cup {"nobody"}

\* Nothing is served to an account whose password has to be changed first, nor ever again
\* through a session that was there when another admin set the password, however often it
\* is set and whatever signs in or out in between (AuthFilter 60-118).
SessionCurrent == \A r \in served : ~r.flagged /\ ~r.outlived
=============================================================================
