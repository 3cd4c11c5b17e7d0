---------------------------- MODULE ConsoleProofs ----------------------------
(***************************************************************************)
(* The console, for any constants. The theorems of the configuration editor *)
(* carry over to the console it is part of. Each of the other pages has an  *)
(* invariant of its own, which says what its state is while answers are     *)
(* still to come; together they give what the console promises, with the    *)
(* exceptions Console states: what goes out is what the screen stands for,  *)
(* late answers leave alone what they should, and a session ends with the   *)
(* password it was opened with.                                             *)
(***************************************************************************)
EXTENDS Console, FiniteSetTheorems, TLAPS

\* The pages count as everybody does.
LEMMA OneCount ==
  ASSUME NEW S
  PROVE  Control!Cardinality(S) = Cardinality(S) /\ Fleet!Cardinality(S) = Cardinality(S)
  BY DEF Cardinality, Control!Cardinality, Fleet!Cardinality

\* The tab stays on its page.
LEMMA PageStays ==
  ASSUME [Next]_vars
  PROVE  page' = page
  BY DEF Next, vars

\* On the editor's page every step is one of the editor.
LEMMA EditorSteps ==
  ASSUME page = "configs", [Next]_vars
  PROVE  [Editor!EditorNext]_(Editor!editorPageVars)
  BY DEF Next, vars, varsEditor, Editor!editorPageVars, Editor!pageVars, Editor!editorVars, Editor!history

\* A behaviour on that page is one of the editor; a tab on another never comes there.
LEMMA IsEditor == Spec /\ page = "configs" => Editor!EditorSpec /\ [](page = "configs")
  <1>1. Init /\ page = "configs" => Editor!EditorInit
    BY DEF Init
  <1>2. page = "configs" /\ [Next]_vars => (page = "configs")' /\ [Editor!EditorNext]_(Editor!editorPageVars)
    BY PageStays, EditorSteps
  <1> QED BY <1>1, <1>2, PTL DEF Spec, Editor!EditorSpec

LEMMA IsElsewhere == Spec /\ ~(page = "configs") => [](~(page = "configs"))
  <1>1. ~(page = "configs") /\ [Next]_vars => (~(page = "configs"))'
    BY PageStays
  <1> QED BY <1>1, PTL DEF Spec

\* For any apps, configurations and bounds, no save of the console drops an app
\* behind everybody's back (ConfigurationsPage 399-424).
THEOREM AppsSurvive == Spec => []NoWipe
  <1>1. ~(page = "configs") => NoWipe
    BY DEF NoWipe
  <1>2. Editor!NoWipe => NoWipe
    BY DEF NoWipe
  <1> QED BY <1>1, <1>2, IsEditor, IsElsewhere, Editor!AppsSurvive, PTL

\* Likewise, no save changes what the kiosk of the devices depends on without the dialog,
\* unless the page knew that no device would re-apply it, or the row had changed on the
\* server since the editor was filled, or the editor takes the save for one of a new
\* configuration (ConfigurationsPage 503-505).
THEOREM KioskAskedFor == Spec => NoSilentKiosk
  <1>1. ~(page = "configs") => [page = "configs" => Editor!SilentKioskAvoided]_vars
    OBVIOUS
  <1>2. [Editor!SilentKioskAvoided]_(Editor!editorPageVars) => [page = "configs" => Editor!SilentKioskAvoided]_vars
    BY DEF vars, varsEditor, Editor!editorPageVars, Editor!pageVars, Editor!editorVars, Editor!history, Editor!SilentKioskAvoided
  <1> QED BY <1>1, <1>2, IsEditor, IsElsewhere, Editor!KioskAskedFor, PTL
          DEF NoSilentKiosk, Editor!NoSilentKiosk

-----------------------------------------------------------------------------
(* Who is signed in. *)

Account == Users \cup {"nobody"}
ShownUser == [login : Account, passwordReset : BOOLEAN, token : Nat]
ServerSession == [live : BOOLEAN, login : Account, token : Nat]
SentCall == [tab : Tabs, kind : {"login", "private", "logout", "reset"}, as : Account,
             with : {0} \cup Sign!SessionIds, token : Nat]

SignTypes ==
    /\ passwordReset \subseteq Users /\ authToken \in [Users -> Nat]
    /\ sessions \in [Sign!SessionIds -> ServerSession]
    /\ cookie \in {0} \cup Sign!SessionIds /\ outlived \subseteq Sign!SessionIds
    /\ stored \in ShownUser /\ user \in [Tabs -> ShownUser]
    /\ view \in [Tabs -> {"login", "setpw", "console"}]
    /\ calls \subseteq SentCall /\ \A c \in calls : c.kind = "login" => c.as \in Users

\* The token of a session is one its account had; a session that outlived a password has
\* the token of a password before.
Entitled(s) ==
    sessions[s].live =>
        /\ sessions[s].login \in Users
        /\ sessions[s].token <= authToken[sessions[s].login]
        /\ s \in outlived => sessions[s].token < authToken[sessions[s].login]

SignInv == SignTypes /\ (\A s \in Sign!SessionIds : Entitled(s)) /\ Sign!SessionCurrent

LEMMA SignSteps ==
  ASSUME page = "session", [Next]_vars
  PROVE  Sign!SessionNext \/ UNCHANGED varsSign
  BY DEF Next, vars, varsSign

LEMMA SignStart == Sign!SessionInit => SignInv
  BY DEF Sign!SessionInit, SignInv, SignTypes, Entitled, Sign!SessionCurrent, Sign!Dead, Sign!Nobody,
         ShownUser, ServerSession, SentCall, Account

\* A request is a call the tab's user makes.
LEMMA AskTypes ==
  ASSUME SignTypes, NEW t \in Tabs, NEW kind \in {"login", "private", "logout", "reset"},
         NEW u \in Account, kind = "login" => u \in Users, Sign!Ask(Sign!Call(t, kind, u))
  PROVE  calls' \subseteq SentCall /\ \A c \in calls' : c.kind = "login" => c.as \in Users
  BY DEF SignTypes, Sign!Ask, Sign!Call, SentCall, ShownUser

\* A session that begins has the token its account has now.
LEMMA BeginEntitles ==
  ASSUME SignInv, NEW c \in calls, c.kind = "login", NEW s \in Sign!SessionFor(c), Sign!Begin(s, c.as),
         UNCHANGED authToken
  PROVE  /\ s \in Sign!SessionIds /\ sessions' \in [Sign!SessionIds -> ServerSession]
         /\ outlived' \subseteq Sign!SessionIds /\ \A k \in Sign!SessionIds : Entitled(k)'
  <1>1. s \in Sign!SessionIds
    BY DEF SignInv, SignTypes, Sign!SessionFor, SentCall
  <1>2. c.as \in Users
    BY DEF SignInv, SignTypes
  <1>3. Sign!Credentials(c.as) \in ServerSession
    BY <1>2 DEF Sign!Credentials, ServerSession, Account, SignInv, SignTypes
  <1>4. ASSUME NEW k \in Sign!SessionIds PROVE Entitled(k)'
    <2>1. CASE k = s
      BY <1>1, <1>2, <2>1 DEF Entitled, Sign!Begin, Sign!Credentials, SignInv, SignTypes
    <2>2. CASE k # s
      BY <2>2 DEF Entitled, Sign!Begin, SignInv, SignTypes
    <2> QED BY <2>1, <2>2
  <1> QED BY <1>1, <1>3, <1>4 DEF Sign!Begin, SignInv, SignTypes

LEMMA SignStep ==
  ASSUME SignInv, Sign!SessionNext
  PROVE  SignInv'
  <1> USE DEF SignInv
  <1>1. ASSUME NEW t \in Tabs, Sign!loadStoredUser(t) PROVE SignInv'
    BY <1>1 DEF Sign!loadStoredUser, Sign!serverVars, SignTypes, Entitled, Sign!SessionCurrent
  <1>2. ASSUME NEW t \in Tabs, Sign!Navigate(t) PROVE SignInv'
    BY <1>2 DEF Sign!Navigate, Sign!ProtectedRoute, Sign!serverVars, SignTypes, Entitled, Sign!SessionCurrent
  <1>3. ASSUME NEW t \in Tabs, Sign!request(t) PROVE SignInv'
    <2>1. user[t].login \in Account
      BY DEF SignTypes, ShownUser
    <2>2. calls' \subseteq SentCall /\ \A c \in calls' : c.kind = "login" => c.as \in Users
      BY <1>3, <2>1, AskTypes DEF Sign!request
    <2> QED BY <1>3, <2>2 DEF Sign!request, Sign!serverVars, SignTypes, Entitled, Sign!SessionCurrent
  <1>4. ASSUME NEW t \in Tabs, Sign!signOut(t) PROVE SignInv'
    <2>1. user[t].login \in Account
      BY DEF SignTypes, ShownUser
    <2>2. calls' \subseteq SentCall /\ \A c \in calls' : c.kind = "login" => c.as \in Users
      BY <1>4, <2>1, AskTypes DEF Sign!signOut
    <2> QED BY <1>4, <2>2 DEF Sign!signOut, Sign!serverVars, SignTypes, Entitled, Sign!SessionCurrent
  <1>5. ASSUME NEW t \in Tabs, Sign!SetPasswordPage(t) PROVE SignInv'
    <2>1. user[t].login \in Account
      BY DEF SignTypes, ShownUser
    <2>2. calls' \subseteq SentCall /\ \A c \in calls' : c.kind = "login" => c.as \in Users
      BY <1>5, <2>1, AskTypes DEF Sign!SetPasswordPage, SignTypes
    <2> QED BY <1>5, <2>2 DEF Sign!SetPasswordPage, Sign!serverVars, SignTypes, Entitled, Sign!SessionCurrent
  <1>6. ASSUME NEW t \in Tabs, NEW u \in Users, Sign!LoginPage(t, u) PROVE SignInv'
    <2>1. calls' \subseteq SentCall /\ \A c \in calls' : c.kind = "login" => c.as \in Users
      BY <1>6, AskTypes DEF Sign!LoginPage, Account
    <2> QED BY <1>6, <2>1 DEF Sign!LoginPage, Sign!serverVars, SignTypes, Entitled, Sign!SessionCurrent
  <1>7. ASSUME NEW c \in calls, Sign!login(c) PROVE SignInv'
    <2>1. PICK s \in Sign!SessionFor(c) : Sign!Begin(s, c.as) /\ cookie' = s
      BY <1>7 DEF Sign!login
    <2>2. /\ s \in Sign!SessionIds /\ sessions' \in [Sign!SessionIds -> ServerSession]
          /\ outlived' \subseteq Sign!SessionIds /\ \A k \in Sign!SessionIds : Entitled(k)'
      BY <1>7, <2>1, BeginEntitles DEF Sign!login
    <2>3. c.as \in Users /\ Sign!UserView(c.as) \in ShownUser
      BY <1>7 DEF Sign!login, SignTypes, Sign!UserView, ShownUser, Account
    <2> QED BY <1>7, <2>1, <2>2, <2>3 DEF Sign!login, SignTypes, Sign!SessionCurrent, SentCall
  <1>8. ASSUME NEW c \in calls, Sign!loginFails(c) PROVE SignInv'
    <2>1. CASE UNCHANGED <<sessions, outlived>>
      BY <1>8, <2>1 DEF Sign!loginFails, SignTypes, Entitled, Sign!SessionCurrent
    <2>2. CASE \E s \in Sign!SessionFor(c) : Sign!Begin(s, c.as)
      <3>1. /\ sessions' \in [Sign!SessionIds -> ServerSession]
            /\ outlived' \subseteq Sign!SessionIds /\ \A k \in Sign!SessionIds : Entitled(k)'
        BY <1>8, <2>2, BeginEntitles DEF Sign!loginFails
      <3> QED BY <1>8, <3>1 DEF Sign!loginFails, SignTypes, Sign!SessionCurrent
    <2> QED BY <1>8, <2>1, <2>2 DEF Sign!loginFails
  <1>9. ASSUME NEW c \in calls, Sign!Served(c) PROVE SignInv'
    <2>1. c.with \in Sign!SessionIds /\ Sign!SessionOf(c) = sessions[c.with]
      BY <1>9 DEF Sign!Served, Sign!AuthFilter, Sign!SessionOf, Sign!Dead, SignTypes, SentCall
    <2>2. sessions[c.with].login \notin passwordReset /\ c.with \notin outlived
      BY <1>9, <2>1 DEF Sign!Served, Sign!AuthFilter, Entitled, SignTypes, ServerSession
    <2>3. (sessions[c.with].login \in passwordReset) = FALSE /\ (c.with \in outlived) = FALSE
      BY <2>2
    <2>4. served' = served \cup {[flagged |-> FALSE, outlived |-> FALSE]}
      BY <1>9, <2>1, <2>3, Zenon DEF Sign!Served
    <2>5. Sign!SessionCurrent'
      BY <2>4 DEF Sign!SessionCurrent
    <2> QED BY <1>9, <2>5 DEF Sign!Served, Sign!serverVars, SignTypes, Entitled, Sign!SessionCurrent
  <1>10. ASSUME NEW c \in calls, Sign!handleUnauthorized(c) PROVE SignInv'
    BY <1>10 DEF Sign!handleUnauthorized, Sign!SignedOut, Sign!serverVars, SignTypes, Entitled,
                 Sign!SessionCurrent, Sign!Nobody, SentCall, ShownUser, Account
  <1>11. ASSUME NEW c \in calls, Sign!logout(c) PROVE SignInv'
    <2>1. Sign!Dead \in ServerSession /\ Sign!Nobody \in ShownUser /\ ~Sign!Dead.live
      BY DEF Sign!Dead, Sign!Nobody, ServerSession, ShownUser, Account
    <2>2. c.tab \in Tabs /\ c.with \in {0} \cup Sign!SessionIds
      BY DEF SignTypes, SentCall
    <2>3. sessions' \in [Sign!SessionIds -> ServerSession] /\ \A k \in Sign!SessionIds : Entitled(k)'
      <3>1. CASE c.with # 0 /\ sessions' = [sessions EXCEPT ![c.with] = Sign!Dead]
        BY <1>11, <2>1, <2>2, <3>1 DEF Sign!logout, SignTypes, Entitled
      <3>2. CASE UNCHANGED sessions
        BY <1>11, <3>2 DEF Sign!logout, SignTypes, Entitled
      <3> QED BY <1>11, <3>1, <3>2 DEF Sign!logout
    <2> QED BY <1>11, <2>1, <2>2, <2>3 DEF Sign!logout, Sign!SignedOut, SignTypes, Sign!SessionCurrent
  <1>12. ASSUME NEW c \in calls, Sign!submitForcedPasswordReset(c) PROVE SignInv'
    <2>1. [c EXCEPT !.kind = "logout", !.with = cookie] \in SentCall
          /\ [c EXCEPT !.kind = "logout", !.with = cookie].kind = "logout"
      BY DEF SignTypes, SentCall
    <2> QED BY <1>12, <2>1 DEF Sign!submitForcedPasswordReset, SignTypes, Entitled, Sign!SessionCurrent
  <1>13. ASSUME NEW u \in Users, Sign!updatePasswordWithReset(u) PROVE SignInv'
    <2>1. authToken' \in [Users -> Nat] /\ outlived' \subseteq Sign!SessionIds /\ passwordReset' \subseteq Users
      BY <1>13 DEF Sign!updatePasswordWithReset, SignTypes
    <2>2. ASSUME NEW s \in Sign!SessionIds PROVE Entitled(s)'
      <3>1. CASE sessions[s].live /\ sessions[s].login = u
        BY <1>13, <3>1 DEF Sign!updatePasswordWithReset, SignTypes, Entitled, ServerSession
      <3>2. CASE ~(sessions[s].live /\ sessions[s].login = u)
        BY <1>13, <3>2 DEF Sign!updatePasswordWithReset, SignTypes, Entitled
      <3> QED BY <3>1, <3>2
    <2> QED BY <1>13, <2>1, <2>2 DEF Sign!updatePasswordWithReset, Sign!tabVars, SignTypes, Sign!SessionCurrent
  <1> QED BY <1>1, <1>2, <1>3, <1>4, <1>5, <1>6, <1>7, <1>8, <1>9, <1>10, <1>11, <1>12, <1>13
          DEF Sign!SessionNext

LEMMA SignHolds == Spec => [](page = "session" => SignInv)
  <1>1. Init => (page = "session" => SignInv)
    BY SignStart DEF Init
  <1>2. (page = "session" => SignInv) /\ [Next]_vars => (page = "session" => SignInv)'
    <2> SUFFICES ASSUME page = "session", SignInv, [Next]_vars
                 PROVE  SignInv'
      BY PageStays
    <2>1. CASE Sign!SessionNext
      BY <2>1, SignStep
    <2>2. CASE UNCHANGED varsSign
      BY <2>2 DEF varsSign, SignInv, SignTypes, Entitled, Sign!SessionCurrent
    <2> QED BY <2>1, <2>2, SignSteps
  <1> QED BY <1>1, <1>2, PTL DEF Spec

\* For any tabs, accounts and bounds, no session that was there when another admin set the
\* password of its account is ever served again, and no session of an account that has to
\* change its password is served (AuthFilter 60-118).
THEOREM SessionsEnd == Spec => []SessionCurrent
  <1>1. (page = "session" => SignInv) => SessionCurrent
    BY DEF SessionCurrent, SignInv
  <1> QED BY <1>1, SignHolds, PTL

-----------------------------------------------------------------------------
(* Fetching apps from the devices. *)

GoesOn(x) == x.st \in {"scan", "list", "add"}

\* A run that goes on untold is the one a running modal shows, unless an older one hid it.
Reaches ==
    \A r \in Fetch!Runs \ hiddenRuns :
        GoesOn(runs[r]) /\ ~runs[r].aborted => status = "running" /\ current = r

FetchInv == Fetch!FetchTypeOK /\ Reaches

LEMMA FetchSteps ==
  ASSUME page = "fetch", [Next]_vars
  PROVE  Fetch!FetchNext \/ UNCHANGED varsFetch
  BY DEF Next, vars, varsFetch

LEMMA NoRunIsRun ==
  /\ Fetch!NoRun \in Fetch!Run /\ ~Fetch!NoRun.aborted /\ Fetch!NoRun.saving = Fetch!NoPkg /\ ~GoesOn(Fetch!NoRun)
  BY DEF Fetch!NoRun, Fetch!Run, GoesOn

LEMMA FetchStart == Fetch!FetchInit => FetchInv
  BY NoRunIsRun, ConsoleAssumption DEF Fetch!FetchInit, FetchInv, Fetch!FetchTypeOK, Reaches, GoesOn

LEMMA ScanFaultTypes ==
  ASSUME scanFaults \in 0..MaxScanFaults, Fetch!ScanFault \/ UNCHANGED scanFaults
  PROVE  scanFaults' \in 0..MaxScanFaults
  BY ConsoleAssumption DEF Fetch!ScanFault

LEMMA AbortTypes ==
  ASSUME FetchInv
  PROVE  /\ Fetch!AbortCurrent(runs) \in [Fetch!Runs -> Fetch!Run]
         /\ \A r \in Fetch!Runs : /\ Fetch!AbortCurrent(runs)[r].cmd = runs[r].cmd
                                  /\ Fetch!AbortCurrent(runs)[r].saving = runs[r].saving
                                  /\ Fetch!AbortCurrent(runs)[r].st = runs[r].st
                                  /\ Fetch!AbortCurrent(runs)[r].aborted = (runs[r].aborted \/ r = current)
  <1>0. 0 \notin Fetch!Runs /\ \A r \in Fetch!Runs : runs[r] \in Fetch!Run
    BY ConsoleAssumption DEF Fetch!Runs, FetchInv, Fetch!FetchTypeOK
  <1>1. CASE current = 0
    BY <1>0, <1>1 DEF Fetch!AbortCurrent, FetchInv, Fetch!FetchTypeOK, Fetch!Run
  <1>2. CASE current # 0
    <2>1. current \in Fetch!Runs
      BY <1>2, ConsoleAssumption DEF FetchInv, Fetch!FetchTypeOK, Fetch!Runs
    <2>2. PICK x : x = [runs[current] EXCEPT !.aborted = TRUE]
      OBVIOUS
    <2>3. /\ x \in Fetch!Run /\ x.cmd = runs[current].cmd /\ x.saving = runs[current].saving
          /\ x.st = runs[current].st /\ x.aborted = TRUE
      BY <1>0, <2>1, <2>2 DEF Fetch!Run
    <2>4. Fetch!AbortCurrent(runs) = [runs EXCEPT ![current] = x]
      BY <1>2, <2>2 DEF Fetch!AbortCurrent
    <2>5. \A r \in Fetch!Runs : runs[r].aborted \in BOOLEAN
      BY <1>0 DEF Fetch!Run
    <2> QED BY <2>1, <2>3, <2>4, <2>5 DEF FetchInv, Fetch!FetchTypeOK
  <1> QED BY <1>1, <1>2

\* What becomes of one run while the modal shows what it did.
LEMMA RunMoves ==
  ASSUME FetchInv, NEW r \in Fetch!Runs, NEW x \in Fetch!Run, runs' = [runs EXCEPT ![r] = x],
         x.aborted = runs[r].aborted, UNCHANGED <<status, current, hiddenRuns>>,
         GoesOn(x) => GoesOn(runs[r]),
         runs[r].aborted => /\ x.cmd = "queued" => runs[r].cmd = "queued"
                            /\ x.saving \in {Fetch!NoPkg, runs[r].saving}
  PROVE  runs' \in [Fetch!Runs -> Fetch!Run] /\ Fetch!FetchStaysStopped /\ Reaches'
  <1>1. /\ runs' \in [Fetch!Runs -> Fetch!Run] /\ runs'[r] = x
        /\ \A s \in Fetch!Runs \ {r} : runs'[s] = runs[s]
    BY DEF FetchInv, Fetch!FetchTypeOK
  <1>2. Fetch!FetchStaysStopped
    BY <1>1 DEF Fetch!FetchStaysStopped
  <1>3. ASSUME NEW s \in Fetch!Runs PROVE GoesOn(runs'[s]) /\ ~runs'[s].aborted => GoesOn(runs[s]) /\ ~runs[s].aborted
    BY <1>1
  <1>4. Reaches'
    BY <1>3 DEF FetchInv, Reaches, GoesOn
  <1> QED BY <1>1, <1>2, <1>4

\* A run that ends says so to the modal, and may hide the latest.
LEMMA RunEnds ==
  ASSUME FetchInv, NEW r \in Fetch!Runs, NEW x \in Fetch!Run, runs' = [runs EXCEPT ![r] = x],
         x.st = "ended", x.cmd # "queued" \/ x.cmd = runs[r].cmd, x.saving \in {Fetch!NoPkg, runs[r].saving},
         NEW to \in {"idle", "done"}, Fetch!SetStatus(r, to), UNCHANGED current
  PROVE  /\ runs' \in [Fetch!Runs -> Fetch!Run] /\ Fetch!FetchStaysStopped /\ Reaches'
         /\ status' \in {"closed", "idle", "running", "done"} /\ hiddenRuns' \subseteq 0..MaxRuns
  <1>1. /\ runs' \in [Fetch!Runs -> Fetch!Run] /\ runs'[r] = x
        /\ \A s \in Fetch!Runs \ {r} : runs'[s] = runs[s]
    BY DEF FetchInv, Fetch!FetchTypeOK
  <1>2. Fetch!FetchStaysStopped
    BY <1>1 DEF Fetch!FetchStaysStopped
  <1>3. status' \in {"closed", "idle", "running", "done"} /\ hiddenRuns' \subseteq 0..MaxRuns
    BY DEF Fetch!SetStatus, FetchInv, Fetch!FetchTypeOK
  <1>4. ASSUME NEW s \in Fetch!Runs \ hiddenRuns', GoesOn(runs'[s]), ~runs'[s].aborted
        PROVE  status' = "running" /\ current' = s
    <2>1. s # r /\ runs'[s] = runs[s]
      BY <1>1, <1>4 DEF GoesOn
    <2>2. s \notin hiddenRuns
      BY <1>4 DEF Fetch!SetStatus
    <2>3. status = "running" /\ current = s
      BY <1>4, <2>1, <2>2 DEF FetchInv, Reaches
    <2>4. ~runs[r].mounted
      BY <1>4, <2>1, <2>3 DEF Fetch!SetStatus
    <2> QED BY <2>3, <2>4 DEF Fetch!SetStatus
  <1>5. Reaches'
    BY <1>4 DEF Reaches, GoesOn
  <1> QED BY <1>1, <1>2, <1>3, <1>5

LEMMA FetchStep ==
  ASSUME FetchInv, Fetch!FetchNext
  PROVE  FetchInv' /\ Fetch!FetchStaysStopped
  <1> USE DEF FetchInv
  <1>0. \A r \in Fetch!Runs : runs[r] \in Fetch!Run /\ runs[r].aborted \in BOOLEAN
    BY DEF Fetch!FetchTypeOK, Fetch!Run
  <1>1. CASE Fetch!Open \/ Fetch!DevicesLoaded \/ Fetch!toggleSelectAll \/ Fetch!setTargetMode
    <2>1. UNCHANGED <<library, runs, hiddenRuns>> /\ (UNCHANGED <<status, current>> \/ status = "closed")
      BY <1>1 DEF Fetch!Open, Fetch!DevicesLoaded, Fetch!toggleSelectAll, Fetch!setTargetMode
    <2>2. Reaches'
      BY <2>1 DEF Reaches, GoesOn
    <2>3. scanFaults' \in 0..MaxScanFaults
      BY <1>1, ScanFaultTypes DEF Fetch!FetchTypeOK, Fetch!Open, Fetch!DevicesLoaded, Fetch!toggleSelectAll,
                                  Fetch!setTargetMode
    <2>4. Fetch!FetchTypeOK'
      BY <1>1, <2>1, <2>3, ConsoleAssumption
         DEF Fetch!FetchTypeOK, Fetch!Open, Fetch!DevicesLoaded, Fetch!toggleSelectAll, Fetch!setTargetMode
    <2> QED BY <2>1, <2>2, <2>4 DEF Fetch!FetchStaysStopped
  <1>2. ASSUME NEW d \in ScanDevices, Fetch!toggleDevice(d) PROVE FetchInv' /\ Fetch!FetchStaysStopped
    BY <1>2 DEF Fetch!toggleDevice, Fetch!FetchTypeOK, Reaches, GoesOn, Fetch!FetchStaysStopped
  <1>3. CASE Fetch!CancelFetch
    <2>1. PICK rs : rs = Fetch!AbortCurrent(runs)
      OBVIOUS
    <2>2. runs' = rs /\ UNCHANGED <<library, Fetch!modalVars, current, hiddenRuns, scanFaults>> /\ status' = "idle"
      BY <1>3, <2>1 DEF Fetch!CancelFetch
    <2>3. /\ rs \in [Fetch!Runs -> Fetch!Run]
          /\ \A r \in Fetch!Runs : /\ rs[r].cmd = runs[r].cmd /\ rs[r].saving = runs[r].saving /\ rs[r].st = runs[r].st
                                   /\ rs[r].aborted = (runs[r].aborted \/ r = current)
      BY <2>1, AbortTypes
    <2>4. Reaches'
      BY <2>2, <2>3 DEF Reaches, GoesOn
    <2>5. Fetch!FetchStaysStopped
      BY <2>2, <2>3 DEF Fetch!FetchStaysStopped
    <2> QED BY <2>2, <2>3, <2>4, <2>5 DEF Fetch!modalVars, Fetch!FetchTypeOK
  <1>4. CASE Fetch!handleClose
    <2>1. PICK rs : rs = Fetch!AbortCurrent(runs)
      OBVIOUS
    <2>2. runs' = [r \in Fetch!Runs |-> [rs[r] EXCEPT !.mounted = FALSE]] /\ UNCHANGED hiddenRuns
      BY <1>4, <2>1 DEF Fetch!handleClose
    <2>3. /\ rs \in [Fetch!Runs -> Fetch!Run]
          /\ \A r \in Fetch!Runs : /\ rs[r].cmd = runs[r].cmd /\ rs[r].saving = runs[r].saving /\ rs[r].st = runs[r].st
                                   /\ rs[r].aborted = (runs[r].aborted \/ r = current)
      BY <2>1, AbortTypes
    <2>4. \A r \in Fetch!Runs : /\ runs'[r] \in Fetch!Run /\ runs'[r].cmd = runs[r].cmd
                                /\ runs'[r].saving = runs[r].saving /\ runs'[r].st = runs[r].st
                                /\ runs'[r].aborted = (runs[r].aborted \/ r = current)
      <3> TAKE r \in Fetch!Runs
      <3>1. PICK y \in Fetch!Run : y = rs[r]
        BY <2>3
      <3>2. runs'[r] = [y EXCEPT !.mounted = FALSE]
        BY <2>2, <3>1
      <3>3. /\ runs'[r] \in Fetch!Run /\ runs'[r].cmd = y.cmd /\ runs'[r].saving = y.saving /\ runs'[r].st = y.st
            /\ runs'[r].aborted = y.aborted
        BY <3>2 DEF Fetch!Run
      <3> QED BY <2>3, <3>1, <3>3
    <2>5. runs' \in [Fetch!Runs -> Fetch!Run] /\ Fetch!FetchStaysStopped
      BY <2>2, <2>4 DEF Fetch!FetchStaysStopped
    <2>6. Reaches'
      BY <2>2, <2>4 DEF Reaches, GoesOn
    <2> QED BY <1>4, <2>5, <2>6, ConsoleAssumption DEF Fetch!handleClose, Fetch!FetchTypeOK
  <1>5. ASSUME NEW r \in Fetch!Runs, Fetch!startFetch(r) PROVE FetchInv' /\ Fetch!FetchStaysStopped
    <2>1. PICK x : x = [Fetch!NoRun EXCEPT !.st = "scan", !.todo = Fetch!targetDevices, !.mounted = TRUE]
      OBVIOUS
    <2>2. x \in Fetch!Run /\ ~x.aborted /\ x.mounted /\ x.st = "scan" /\ x.cmd = "none" /\ x.saving = Fetch!NoPkg
      BY <2>1 DEF Fetch!NoRun, Fetch!Run, Fetch!targetDevices, Fetch!FetchTypeOK
    <2>3. runs' = [runs EXCEPT ![r] = x] /\ status = "idle" /\ status' = "running" /\ current' = r
          /\ UNCHANGED hiddenRuns
      BY <1>5, <2>1 DEF Fetch!startFetch, Fetch!Form
    <2>4. r \in 0..MaxRuns
      BY ConsoleAssumption DEF Fetch!Runs
    <2>5. /\ runs' \in [Fetch!Runs -> Fetch!Run] /\ runs'[r] = x
          /\ \A s \in Fetch!Runs \ {r} : runs'[s] = runs[s]
      BY <2>2, <2>3 DEF Fetch!FetchTypeOK
    <2>6. Fetch!FetchStaysStopped
      BY <2>2, <2>5 DEF Fetch!FetchStaysStopped
    <2>7. Reaches'
      BY <2>3, <2>5 DEF Reaches, GoesOn
    <2> QED BY <1>5, <2>3, <2>4, <2>5, <2>6, <2>7 DEF Fetch!startFetch, Fetch!modalVars, Fetch!FetchTypeOK
  <1>6. ASSUME NEW r \in Fetch!Runs, Fetch!QueueScan(r) PROVE FetchInv' /\ Fetch!FetchStaysStopped
    <2>1. PICK d \in runs[r].todo : \/ runs' = [runs EXCEPT ![r].cmd = "queued", ![r].at = d]
                                    \/ runs' = [runs EXCEPT ![r].todo = @ \ {d}]
      BY <1>6 DEF Fetch!QueueScan
    <2>2. PICK x : /\ x \in {[runs[r] EXCEPT !.cmd = "queued", !.at = d], [runs[r] EXCEPT !.todo = @ \ {d}]}
                   /\ runs' = [runs EXCEPT ![r] = x]
      BY <1>0, <2>1 DEF Fetch!FetchTypeOK, Fetch!Run
    <2>3. x \in Fetch!Run /\ x.aborted = runs[r].aborted /\ x.st = runs[r].st /\ x.saving = runs[r].saving
      <3>1. PICK y \in Fetch!Run : y = runs[r] /\ d \in y.todo
        BY <1>0, <2>1
      <3>2. x = [y EXCEPT !.cmd = "queued", !.at = d] \/ x = [y EXCEPT !.todo = y.todo \ {d}]
        BY <2>2, <3>1
      <3>3. x \in Fetch!Run /\ x.aborted = y.aborted /\ x.st = y.st /\ x.saving = y.saving
        BY <3>1, <3>2 DEF Fetch!Run
      <3> QED BY <3>1, <3>3
    <2>4. runs' \in [Fetch!Runs -> Fetch!Run] /\ Fetch!FetchStaysStopped /\ Reaches'
      BY <1>6, <2>2, <2>3, RunMoves DEF Fetch!QueueScan, GoesOn
    <2>5. scanFaults' \in 0..MaxScanFaults
      BY <1>6, ScanFaultTypes DEF Fetch!QueueScan, Fetch!FetchTypeOK
    <2> QED BY <1>6, <2>4, <2>5 DEF Fetch!QueueScan, Fetch!modalVars, Fetch!FetchTypeOK
  <1>7. ASSUME NEW r \in Fetch!Runs, Fetch!DeviceAnswers(r) PROVE FetchInv' /\ Fetch!FetchStaysStopped
    <2>1. PICK c \in {"done", "failed"} : runs' = [runs EXCEPT ![r].cmd = c]
      BY <1>7 DEF Fetch!DeviceAnswers
    <2>2. PICK x : x = [runs[r] EXCEPT !.cmd = c]
      OBVIOUS
    <2>3. /\ x \in Fetch!Run /\ x.aborted = runs[r].aborted /\ x.st = runs[r].st /\ x.saving = runs[r].saving
          /\ x.cmd # "queued"
      BY <1>0, <2>2 DEF Fetch!Run
    <2>4. runs' = [runs EXCEPT ![r] = x]
      BY <1>0, <2>1, <2>2 DEF Fetch!FetchTypeOK, Fetch!Run
    <2>5. runs' \in [Fetch!Runs -> Fetch!Run] /\ Fetch!FetchStaysStopped /\ Reaches'
      BY <1>7, <2>3, <2>4, RunMoves DEF Fetch!DeviceAnswers, GoesOn
    <2>6. scanFaults' \in 0..MaxScanFaults
      BY <1>7, ScanFaultTypes DEF Fetch!DeviceAnswers, Fetch!FetchTypeOK
    <2> QED BY <1>7, <2>5, <2>6 DEF Fetch!DeviceAnswers, Fetch!modalVars, Fetch!FetchTypeOK
  <1>8. ASSUME NEW r \in Fetch!Runs, Fetch!runForResult(r) PROVE FetchInv' /\ Fetch!FetchStaysStopped
    <2>1. PICK found \in SUBSET Packages :
            runs' = [runs EXCEPT ![r].cmd = "none", ![r].at = Fetch!NoPkg, ![r].scanned = @ \cup found,
                                 ![r].todo = @ \ {runs[r].at}]
      BY <1>8 DEF Fetch!runForResult
    <2>2. PICK x : x = [runs[r] EXCEPT !.cmd = "none", !.at = Fetch!NoPkg, !.scanned = @ \cup found,
                                       !.todo = @ \ {runs[r].at}]
      OBVIOUS
    <2>3. /\ x \in Fetch!Run /\ x.cmd = "none" /\ x.saving = runs[r].saving /\ x.st = runs[r].st
          /\ x.aborted = runs[r].aborted
      BY <1>0, <2>2 DEF Fetch!Run
    <2>4. runs' = [runs EXCEPT ![r] = x]
      BY <2>1, <2>2 DEF Fetch!FetchTypeOK, Fetch!Run
    <2>5. runs' \in [Fetch!Runs -> Fetch!Run] /\ Fetch!FetchStaysStopped /\ Reaches'
      BY <1>8, <2>3, <2>4, RunMoves DEF Fetch!runForResult, GoesOn
    <2>6. scanFaults' \in 0..MaxScanFaults
      BY <1>8, ScanFaultTypes DEF Fetch!runForResult, Fetch!FetchTypeOK
    <2> QED BY <1>8, <2>5, <2>6 DEF Fetch!runForResult, Fetch!modalVars, Fetch!FetchTypeOK
  <1>9. ASSUME NEW r \in Fetch!Runs, Fetch!Cancelled(r) PROVE FetchInv' /\ Fetch!FetchStaysStopped
    <2>1. PICK x : x = [runs[r] EXCEPT !.st = "ended", !.cmd = "none", !.at = Fetch!NoPkg]
      OBVIOUS
    <2>2. x \in Fetch!Run /\ x.cmd = "none" /\ x.saving = runs[r].saving /\ x.st = "ended"
      BY <1>0, <2>1 DEF Fetch!Run
    <2>3. runs' = [runs EXCEPT ![r] = x]
      BY <1>9, <2>1 DEF Fetch!Cancelled, Fetch!FetchTypeOK, Fetch!Run
    <2>4. /\ runs' \in [Fetch!Runs -> Fetch!Run] /\ Fetch!FetchStaysStopped /\ Reaches'
          /\ status' \in {"closed", "idle", "running", "done"} /\ hiddenRuns' \subseteq 0..MaxRuns
      BY <1>9, <2>2, <2>3, RunEnds DEF Fetch!Cancelled
    <2> QED BY <1>9, <2>4 DEF Fetch!Cancelled, Fetch!modalVars, Fetch!FetchTypeOK
  <1>10. ASSUME NEW r \in Fetch!Runs, Fetch!Compare(r) PROVE FetchInv' /\ Fetch!FetchStaysStopped
    <2>1. PICK x : x = [runs[r] EXCEPT !.st = "list"]
      OBVIOUS
    <2>2. /\ x \in Fetch!Run /\ x.aborted = runs[r].aborted /\ x.cmd = runs[r].cmd /\ x.saving = runs[r].saving
          /\ GoesOn(runs[r])
      BY <1>0, <1>10, <2>1 DEF Fetch!Run, Fetch!Compare, GoesOn
    <2>3. runs' = [runs EXCEPT ![r] = x]
      BY <1>10, <2>1 DEF Fetch!Compare
    <2>4. runs' \in [Fetch!Runs -> Fetch!Run] /\ Fetch!FetchStaysStopped /\ Reaches'
      BY <1>10, <2>2, <2>3, RunMoves DEF Fetch!Compare
    <2> QED BY <1>10, <2>4 DEF Fetch!Compare, Fetch!modalVars, Fetch!FetchTypeOK
  <1>11. ASSUME NEW r \in Fetch!Runs, Fetch!listApplications(r) PROVE FetchInv' /\ Fetch!FetchStaysStopped
    <2>1. CASE runs' = [runs EXCEPT ![r].st = "add", ![r].missing = runs[r].scanned \ library]
               /\ UNCHANGED <<status, hiddenRuns, scanFaults>>
      <3>1. PICK x : x = [runs[r] EXCEPT !.st = "add", !.missing = runs[r].scanned \ library]
        OBVIOUS
      <3>2. /\ x \in Fetch!Run /\ x.cmd = runs[r].cmd /\ x.saving = runs[r].saving
            /\ x.aborted = runs[r].aborted /\ GoesOn(runs[r])
        BY <1>0, <1>11, <3>1 DEF Fetch!Run, Fetch!listApplications, GoesOn
      <3>3. runs' = [runs EXCEPT ![r] = x]
        BY <2>1, <3>1 DEF Fetch!FetchTypeOK, Fetch!Run
      <3>4. runs' \in [Fetch!Runs -> Fetch!Run] /\ Fetch!FetchStaysStopped /\ Reaches'
        BY <1>11, <2>1, <3>2, <3>3, RunMoves DEF Fetch!listApplications
      <3> QED BY <1>11, <2>1, <3>4 DEF Fetch!listApplications, Fetch!modalVars, Fetch!FetchTypeOK
    <2>2. CASE runs' = [runs EXCEPT ![r].st = "ended"] /\ Fetch!SetStatus(r, "done") /\ Fetch!ScanFault
      <3>1. PICK x : x = [runs[r] EXCEPT !.st = "ended"]
        OBVIOUS
      <3>2. x \in Fetch!Run /\ x.cmd = runs[r].cmd /\ x.saving = runs[r].saving /\ x.st = "ended"
        BY <1>0, <3>1 DEF Fetch!Run
      <3>3. runs' = [runs EXCEPT ![r] = x]
        BY <2>2, <3>1
      <3>4. /\ runs' \in [Fetch!Runs -> Fetch!Run] /\ Fetch!FetchStaysStopped /\ Reaches'
            /\ status' \in {"closed", "idle", "running", "done"} /\ hiddenRuns' \subseteq 0..MaxRuns
        BY <1>11, <2>2, <3>2, <3>3, RunEnds DEF Fetch!listApplications
      <3>5. scanFaults' \in 0..MaxScanFaults
        BY <2>2, ScanFaultTypes DEF Fetch!FetchTypeOK
      <3> QED BY <1>11, <3>4, <3>5 DEF Fetch!listApplications, Fetch!modalVars, Fetch!FetchTypeOK
    <2> QED BY <1>11, <2>1, <2>2 DEF Fetch!listApplications
  <1>12. ASSUME NEW r \in Fetch!Runs, Fetch!AddMissing(r) PROVE FetchInv' /\ Fetch!FetchStaysStopped
    <2>1. PICK p \in runs[r].missing : runs' = [runs EXCEPT ![r].saving = p, ![r].missing = @ \ {p}]
      BY <1>12 DEF Fetch!AddMissing
    <2>2. PICK x : x = [runs[r] EXCEPT !.saving = p, !.missing = @ \ {p}]
      OBVIOUS
    <2>3. x \in Fetch!Run /\ x.aborted = runs[r].aborted /\ x.cmd = runs[r].cmd /\ x.st = runs[r].st
      BY <1>0, <2>2 DEF Fetch!Run
    <2>4. runs' = [runs EXCEPT ![r] = x] /\ ~runs[r].aborted
      BY <1>12, <2>1, <2>2 DEF Fetch!FetchTypeOK, Fetch!Run, Fetch!AddMissing, Fetch!MayAdd
    <2>5. runs' \in [Fetch!Runs -> Fetch!Run] /\ Fetch!FetchStaysStopped /\ Reaches'
      BY <1>12, <2>3, <2>4, RunMoves DEF Fetch!AddMissing, GoesOn
    <2> QED BY <1>12, <2>5 DEF Fetch!AddMissing, Fetch!modalVars, Fetch!FetchTypeOK
  <1>13. ASSUME NEW r \in Fetch!Runs, Fetch!saveAndroidApplication(r) PROVE FetchInv' /\ Fetch!FetchStaysStopped
    <2>1. PICK x : x = [runs[r] EXCEPT !.saving = Fetch!NoPkg]
      OBVIOUS
    <2>2. /\ x \in Fetch!Run /\ x.cmd = runs[r].cmd /\ x.saving = Fetch!NoPkg /\ x.st = runs[r].st
          /\ x.aborted = runs[r].aborted
      BY <1>0, <2>1 DEF Fetch!Run
    <2>3. runs' = [runs EXCEPT ![r] = x]
      BY <1>13, <2>1 DEF Fetch!saveAndroidApplication, Fetch!FetchTypeOK
    <2>4. runs' \in [Fetch!Runs -> Fetch!Run] /\ Fetch!FetchStaysStopped /\ Reaches'
      BY <1>13, <2>2, <2>3, RunMoves DEF Fetch!saveAndroidApplication, GoesOn
    <2>5. library' \subseteq Packages
      BY <1>0, <1>13 DEF Fetch!saveAndroidApplication, Fetch!FetchTypeOK, Fetch!Run
    <2>6. scanFaults' \in 0..MaxScanFaults
      BY <1>13, ScanFaultTypes DEF Fetch!saveAndroidApplication, Fetch!FetchTypeOK
    <2> QED BY <1>13, <2>4, <2>5, <2>6 DEF Fetch!saveAndroidApplication, Fetch!modalVars, Fetch!FetchTypeOK
  <1>14. ASSUME NEW r \in Fetch!Runs, Fetch!Finish(r) PROVE FetchInv' /\ Fetch!FetchStaysStopped
    <2>1. PICK x : x = [runs[r] EXCEPT !.st = "ended"]
      OBVIOUS
    <2>2. x \in Fetch!Run /\ x.cmd = runs[r].cmd /\ x.saving = runs[r].saving /\ x.st = "ended"
      BY <1>0, <2>1 DEF Fetch!Run
    <2>3. runs' = [runs EXCEPT ![r] = x]
      BY <1>14, <2>1 DEF Fetch!Finish
    <2>4. /\ runs' \in [Fetch!Runs -> Fetch!Run] /\ Fetch!FetchStaysStopped /\ Reaches'
          /\ status' \in {"closed", "idle", "running", "done"} /\ hiddenRuns' \subseteq 0..MaxRuns
      BY <1>14, <2>2, <2>3, RunEnds DEF Fetch!Finish
    <2> QED BY <1>14, <2>4 DEF Fetch!Finish, Fetch!modalVars, Fetch!FetchTypeOK
  <1> QED BY <1>1, <1>2, <1>3, <1>4, <1>5, <1>6, <1>7, <1>8, <1>9, <1>10, <1>11, <1>12, <1>13, <1>14
          DEF Fetch!FetchNext

LEMMA FetchHolds ==
  Spec => [](page = "fetch" => FetchInv) /\ [][page = "fetch" => Fetch!FetchStaysStopped]_vars
  <1>1. Init => (page = "fetch" => FetchInv)
    BY FetchStart DEF Init
  <1>2. (page = "fetch" => FetchInv) /\ [Next]_vars
        => (page = "fetch" => FetchInv)' /\ [page = "fetch" => Fetch!FetchStaysStopped]_vars
    <2> SUFFICES ASSUME page = "fetch", FetchInv, [Next]_vars
                 PROVE  FetchInv' /\ (Fetch!FetchStaysStopped \/ UNCHANGED vars)
      BY PageStays
    <2>1. CASE Fetch!FetchNext
      BY <2>1, FetchStep
    <2>2. CASE UNCHANGED varsFetch
      BY <2>2 DEF varsFetch, FetchInv, Fetch!FetchTypeOK, Reaches, GoesOn, Fetch!FetchStaysStopped
    <2> QED BY <2>1, <2>2, FetchSteps
  <1> QED BY <1>1, <1>2, PTL DEF Spec

-----------------------------------------------------------------------------
(* The update banner. *)

Status == [phase : {"none", "running", "done", "failed", "unknown"}, offer : BOOLEAN, verified : BOOLEAN,
           auto : BOOLEAN]
Loop == [st : {"none", "sent", "served"}, on : BOOLEAN, x : Status]
Question == [what : {"status", "check", "apply", "on", "off"}, here : BOOLEAN]
LiveLoop(l) == loops[l].st # "none" /\ loops[l].on

UpdatesTypes ==
    /\ supervisor \in Status /\ supervisor.phase # "unknown"
    /\ loops \in [Updates!Slots -> Loop] /\ armed \in Nat
    /\ starting \subseteq {"here", "gone"}
    /\ settingsAsked \subseteq Question
    /\ timer \in BOOLEAN /\ settings \in BOOLEAN

\* The timer that can be cleared is the only one there is.
OneTimer == (armed = 0 /\ timer = FALSE) \/ (armed = 1 /\ timer = TRUE)

UpdatesInv == UpdatesTypes /\ OneTimer /\ (armed = 1 \/ \E l \in Updates!Slots : LiveLoop(l))

LEMMA UpdatesSteps ==
  ASSUME page = "updates", [Next]_vars
  PROVE  Updates!UpdateConsoleNext \/ UNCHANGED varsUpdates
  BY DEF Next, vars, varsUpdates

LEMMA UpdatesMeans == UpdatesInv => Updates!UpdateConsoleTypeOK /\ Updates!OneChain
  BY ConsoleAssumption DEF UpdatesInv, UpdatesTypes, OneTimer, LiveLoop, Updates!UpdateConsoleTypeOK,
                           Updates!OneChain, Status, Loop, Question

LEMMA NoStatusIsStatus == Updates!NoStatus \in Status /\ Updates!NoLoop \in Loop
  BY DEF Updates!NoStatus, Updates!NoLoop, Status, Loop

LEMMA UpdatesStart == Updates!UpdateConsoleInit => UpdatesInv
  <1> SUFFICES ASSUME Updates!UpdateConsoleInit PROVE UpdatesInv
    OBVIOUS
  <1>1. PICK first : first = [Updates!NoLoop EXCEPT !.st = "sent", !.on = TRUE]
    OBVIOUS
  <1>2. first \in Loop /\ first.st = "sent" /\ first.on
    BY <1>1, NoStatusIsStatus DEF Loop
  <1>3. 1 \in Updates!Slots
    BY ConsoleAssumption DEF Updates!Slots
  <1>4. loops = [l \in Updates!Slots |-> IF l = 1 THEN first ELSE Updates!NoLoop]
    BY <1>1 DEF Updates!UpdateConsoleInit
  <1>5. loops \in [Updates!Slots -> Loop] /\ LiveLoop(1)
    BY <1>2, <1>3, <1>4, NoStatusIsStatus DEF LiveLoop
  <1>6. supervisor \in Status /\ supervisor.phase # "unknown"
    BY DEF Updates!UpdateConsoleInit, Status
  <1>7. UpdatesTypes
    BY <1>5, <1>6 DEF Updates!UpdateConsoleInit, UpdatesTypes
  <1>8. OneTimer
    BY DEF Updates!UpdateConsoleInit, OneTimer
  <1> QED BY <1>3, <1>5, <1>7, <1>8 DEF UpdatesInv

\* A banner asks, whichever slot it takes.
LEMMA StartedLives ==
  ASSUME NEW ls \in [Updates!Slots -> Loop], NEW l \in Updates!Slots, loops' = Updates!Started(ls, l)
  PROVE  loops' \in [Updates!Slots -> Loop] /\ LiveLoop(l)'
  <1>1. PICK x : x = [st |-> "sent", on |-> TRUE, x |-> Updates!NoStatus]
    OBVIOUS
  <1>2. x \in Loop /\ x.st = "sent" /\ x.on
    BY <1>1, NoStatusIsStatus DEF Loop
  <1>3. loops' = [ls EXCEPT ![l] = x]
    BY <1>1 DEF Updates!Started
  <1> QED BY <1>2, <1>3 DEF LiveLoop

LEMMA RunningTypes ==
  ASSUME supervisor \in Status, supervisor.phase # "unknown",
         \/ supervisor' = supervisor
         \/ supervisor' = [supervisor EXCEPT !.phase = "running"]
         \/ supervisor' = [supervisor EXCEPT !.phase = "failed"]
         \/ supervisor' = [supervisor EXCEPT !.phase = "done", !.offer = FALSE]
         \/ supervisor' = [supervisor EXCEPT !.offer = TRUE, !.verified = TRUE]
         \/ \E on \in BOOLEAN : supervisor' = [supervisor EXCEPT !.auto = on]
  PROVE  supervisor' \in Status /\ supervisor'.phase # "unknown"
  BY DEF Status

LEMMA TimerCleared ==
  ASSUME UpdatesInv, armed' = (IF timer THEN armed - 1 ELSE armed), timer' = FALSE
  PROVE  armed' = 0 /\ timer' = FALSE
  <1>1. CASE timer = TRUE
    BY <1>1 DEF UpdatesInv, OneTimer
  <1>2. CASE timer = FALSE
    BY <1>2 DEF UpdatesInv, OneTimer
  <1> QED BY <1>1, <1>2 DEF UpdatesInv, UpdatesTypes

LEMMA UpdatesStep ==
  ASSUME UpdatesInv, Updates!UpdateConsoleNext
  PROVE  UpdatesInv'
  <1> USE DEF UpdatesInv
  <1>1. CASE Updates!SupervisorTurns
    <2>1. supervisor' \in Status /\ supervisor'.phase # "unknown"
      BY <1>1, RunningTypes DEF Updates!SupervisorTurns, UpdatesTypes
    <2> QED BY <1>1, <2>1 DEF Updates!SupervisorTurns, Updates!bannerVars, Updates!settingsVars, UpdatesTypes,
                              OneTimer, LiveLoop
  <1>2. CASE Updates!Fire
    <2>1. PICK l \in Updates!Slots : loops' = Updates!Started(loops, l)
      BY <1>2 DEF Updates!Fire, Updates!Idle
    <2>2. loops' \in [Updates!Slots -> Loop] /\ LiveLoop(l)'
      BY <2>1, StartedLives DEF UpdatesTypes
    <2>3. armed = 1 /\ armed' = 0
      BY <1>2 DEF Updates!Fire, OneTimer
    <2>4. (timer /\ armed > 1) = FALSE
      BY <2>3
    <2>5. timer' = FALSE
      BY <1>2, <2>4, Zenon DEF Updates!Fire
    <2> QED BY <1>2, <2>2, <2>3, <2>5 DEF Updates!Fire, Updates!settingsVars, UpdatesTypes, OneTimer
  <1>3. CASE Updates!onClick
    BY <1>3 DEF Updates!onClick, Updates!settingsVars, UpdatesTypes, OneTimer, LiveLoop
  <1>4. CASE Updates!Navigate
    <2>1. PICK ls : ls = [k \in Updates!Slots |-> [loops[k] EXCEPT !.on = FALSE]]
      OBVIOUS
    <2>2. ls \in [Updates!Slots -> Loop]
      BY <2>1 DEF UpdatesTypes, Loop
    <2>3. PICK l \in Updates!Slots : loops' = Updates!Started(ls, l)
      BY <1>4, <2>1 DEF Updates!Navigate, Updates!Idle
    <2>4. loops' \in [Updates!Slots -> Loop] /\ LiveLoop(l)'
      BY <2>2, <2>3, StartedLives
    <2>5. armed' = 0 /\ timer' = FALSE
      BY <1>4, TimerCleared DEF Updates!Navigate
    <2>6. \A a \in Question : [a EXCEPT !.here = FALSE] \in Question
      BY DEF Question
    <2>7. settingsAsked' \subseteq {[a EXCEPT !.here = FALSE] : a \in {b \in settingsAsked : b.what # "status"}}
                                \cup {[what |-> "status", here |-> TRUE]}
      BY <1>4 DEF Updates!Navigate
    <2>8. [what |-> "status", here |-> TRUE] \in Question
      BY DEF Question
    <2>9. settingsAsked' \subseteq Question
      BY <2>6, <2>7, <2>8 DEF UpdatesTypes
    <2>10. settings' = ~settings /\ supervisor' = supervisor /\ starting' \subseteq {"here", "gone"}
      BY <1>4 DEF Updates!Navigate
    <2>11. settings' \in BOOLEAN
      BY <2>10
    <2>12. UpdatesTypes'
      BY <2>4, <2>5, <2>9, <2>10, <2>11 DEF UpdatesTypes
    <2> QED BY <2>4, <2>5, <2>12 DEF OneTimer
  <1>5. ASSUME NEW l \in Updates!Slots, Updates!getUpdateStatus(l) PROVE UpdatesInv'
    <2>1. PICK x \in {supervisor, Updates!NoStatus} : loops' = [loops EXCEPT ![l] = [@ EXCEPT !.st = "served", !.x = x]]
      BY <1>5 DEF Updates!getUpdateStatus
    <2>2. PICK y : y = [loops[l] EXCEPT !.st = "served", !.x = x]
      OBVIOUS
    <2>3. x \in Status
      BY <2>1, NoStatusIsStatus DEF UpdatesTypes
    <2>4. y \in Loop /\ y.st = "served" /\ y.on = loops[l].on
      BY <2>2, <2>3 DEF UpdatesTypes, Loop
    <2>5. loops' = [loops EXCEPT ![l] = y]
      BY <2>1, <2>2 DEF UpdatesTypes
    <2>6. loops' \in [Updates!Slots -> Loop] /\ \A k \in Updates!Slots : LiveLoop(k) => LiveLoop(k)'
      BY <2>4, <2>5 DEF UpdatesTypes, LiveLoop
    <2> QED BY <1>5, <2>6 DEF Updates!getUpdateStatus, Updates!settingsVars, UpdatesTypes, OneTimer
  <1>6. ASSUME NEW l \in Updates!Slots, Updates!loop(l) PROVE UpdatesInv'
    <2>1. loops' \in [Updates!Slots -> Loop] /\ \A k \in Updates!Slots \ {l} : LiveLoop(k) => LiveLoop(k)'
      BY <1>6, NoStatusIsStatus DEF Updates!loop, UpdatesTypes, LiveLoop
    <2>2. CASE ~loops[l].on
      BY <1>6, <2>1, <2>2 DEF Updates!loop, Updates!settingsVars, UpdatesTypes, OneTimer, LiveLoop
    <2>3. CASE loops[l].on
      <3>1. armed' = 1 /\ timer' = TRUE
        BY <1>6, <2>3 DEF Updates!loop, Updates!Rearm, UpdatesTypes, OneTimer
      <3> QED BY <1>6, <2>1, <2>3, <3>1 DEF Updates!loop, Updates!settingsVars, UpdatesTypes, OneTimer
    <2> QED BY <2>2, <2>3 DEF UpdatesTypes, Loop
  <1>7. ASSUME NEW who \in starting, Updates!applyUpdate(who) PROVE UpdatesInv'
    <2>1. supervisor' \in Status /\ supervisor'.phase # "unknown"
      BY <1>7, RunningTypes DEF Updates!applyUpdate, UpdatesTypes
    <2>2. CASE Updates!Accepts /\ who = "here"
      <3>1. PICK l \in Updates!Slots : loops' = Updates!Started(loops, l)
        BY <1>7, <2>2 DEF Updates!applyUpdate, Updates!Idle
      <3>2. loops' \in [Updates!Slots -> Loop] /\ LiveLoop(l)'
        BY <3>1, StartedLives DEF UpdatesTypes
      <3>3. armed' = 0 /\ timer' = FALSE
        BY <1>7, <2>2, TimerCleared DEF Updates!applyUpdate
      <3> QED BY <1>7, <2>1, <3>2, <3>3 DEF Updates!applyUpdate, Updates!settingsVars, UpdatesTypes, OneTimer
    <2>3. CASE ~(Updates!Accepts /\ who = "here")
      BY <1>7, <2>1, <2>3 DEF Updates!applyUpdate, Updates!settingsVars, UpdatesTypes, OneTimer, LiveLoop
    <2> QED BY <2>2, <2>3
  <1>8. ASSUME NEW what \in {"check", "apply", "on", "off"}, Updates!Pressed(what) PROVE UpdatesInv'
    <2>1. [what |-> what, here |-> TRUE] \in Question
      BY DEF Question
    <2>2. settingsAsked' \subseteq Question
      BY <1>8, <2>1 DEF Updates!Pressed, UpdatesTypes
    <2> QED BY <1>8, <2>2 DEF Updates!Pressed, Updates!bannerVars, UpdatesTypes, OneTimer, LiveLoop
  <1>9. ASSUME NEW a \in settingsAsked, Updates!StatusAnswers(a) PROVE UpdatesInv'
    BY <1>9 DEF Updates!StatusAnswers, Updates!Answers, Updates!bannerVars, UpdatesTypes, OneTimer, LiveLoop
  <1>10. ASSUME NEW a \in settingsAsked, Updates!checkForUpdates(a) PROVE UpdatesInv'
    <2>1. supervisor' \in Status /\ supervisor'.phase # "unknown"
      BY <1>10, RunningTypes DEF Updates!checkForUpdates, UpdatesTypes
    <2> QED BY <1>10, <2>1 DEF Updates!checkForUpdates, Updates!Answers, Updates!bannerVars, UpdatesTypes, OneTimer,
                               LiveLoop
  <1>11. ASSUME NEW a \in settingsAsked, Updates!applyNow(a) PROVE UpdatesInv'
    <2>1. supervisor' \in Status /\ supervisor'.phase # "unknown"
      BY <1>11, RunningTypes DEF Updates!applyNow, UpdatesTypes
    <2> QED BY <1>11, <2>1 DEF Updates!applyNow, Updates!Answers, Updates!bannerVars, UpdatesTypes, OneTimer, LiveLoop
  <1>12. ASSUME NEW a \in settingsAsked, Updates!toggleAuto(a) PROVE UpdatesInv'
    <2>1. PICK what \in {"on", "off"} :
            /\ Updates!Answers(a, what)
            /\ supervisor' = supervisor \/ supervisor' = [supervisor EXCEPT !.auto = (what = "on")]
      BY <1>12 DEF Updates!toggleAuto
    <2>2. PICK on \in BOOLEAN : on = (what = "on")
      OBVIOUS
    <2>3. supervisor' = supervisor \/ supervisor' = [supervisor EXCEPT !.auto = on]
      BY <2>1, <2>2
    <2>4. supervisor' \in Status /\ supervisor'.phase # "unknown"
      BY <2>3, RunningTypes DEF UpdatesTypes
    <2> QED BY <1>12, <2>1, <2>4 DEF Updates!toggleAuto, Updates!Answers, Updates!bannerVars, UpdatesTypes, OneTimer,
                                     LiveLoop
  <1> QED BY <1>1, <1>2, <1>3, <1>4, <1>5, <1>6, <1>7, <1>8, <1>9, <1>10, <1>11, <1>12
          DEF Updates!UpdateConsoleNext

LEMMA UpdatesHold == Spec => [](page = "updates" => UpdatesInv)
  <1>1. Init => (page = "updates" => UpdatesInv)
    BY UpdatesStart DEF Init
  <1>2. (page = "updates" => UpdatesInv) /\ [Next]_vars => (page = "updates" => UpdatesInv)'
    <2> SUFFICES ASSUME page = "updates", UpdatesInv, [Next]_vars
                 PROVE  UpdatesInv'
      BY PageStays
    <2>1. CASE Updates!UpdateConsoleNext
      BY <2>1, UpdatesStep
    <2>2. CASE UNCHANGED varsUpdates
      BY <2>2 DEF varsUpdates, UpdatesInv, UpdatesTypes, OneTimer, LiveLoop
    <2> QED BY <2>1, <2>2, UpdatesSteps
  <1> QED BY <1>1, <1>2, PTL DEF Spec

-----------------------------------------------------------------------------
(* The device page. *)

Addressed == [dev : Devices \cup {Control!Absent}, packages : SUBSET Pickable,
              kind : {"none", "lock", "apps", "kiosk.enter"} \cup Control!ACTION_TEMPLATES]
Picker == [open : BOOLEAN, mode : {"launcher", "single"}, selected : SUBSET Pickable, sent : Addressed,
           apps : SUBSET Pickable, known : BOOLEAN]
Query == [st : {"none", "next", "asked"}, dev : Devices \cup {Control!Absent}, left : SUBSET Pickable,
          aborted : BOOLEAN]

PageTypes ==
    /\ route \in Devices /\ loads \subseteq Devices /\ reads \subseteq Devices
    /\ device \in Devices \cup {Control!Absent} /\ panel \in Devices \cup {Control!Absent}
    /\ deviceLoading \in BOOLEAN /\ railBusy \in BOOLEAN
    /\ active \in {"none"} \cup Control!ACTION_TEMPLATES

Dialog == [filled : BOOLEAN, confirmText : BOOLEAN, typed : Devices \cup {Control!Absent}, swapped : BOOLEAN]

\* A dialog for a wipe holds WIPE only if it was typed there, for the device the page shows
\* unless a load put that one there.
TypedHere ==
    /\ dialog \in Dialog /\ (active # "none" => device # Control!Absent)
    /\ active = "wipe" /\ dialog.confirmText = TRUE =>
            dialog.typed # Control!Absent /\ (dialog.typed = device \/ dialog.swapped = TRUE)
    /\ \A w \in wipes : w.typed # Control!Absent /\ (w.typed = w.dev \/ w.swapped = TRUE)

\* Whichever mode was switched to and from, a single app is selected in single mode.
PickerInv ==
    /\ picker \in Picker /\ IsFiniteSet(picker.selected)
    /\ picker.mode = "single" => Cardinality(picker.selected) <= 1

QueriesOK == queries \in [Control!Queries -> Query]

ControlInv == PageTypes /\ TypedHere /\ PickerInv /\ QueriesOK

LEMMA ControlSteps ==
  ASSUME page = "device", [Next]_vars
  PROVE  Control!ControlNext \/ UNCHANGED varsControl
  BY DEF Next, vars, varsControl

LEMMA ControlMeans ==
  ControlInv => Control!ControlTypeOK /\ Control!WipeTyped /\ Control!PinsOne
  <1> SUFFICES ASSUME ControlInv
               PROVE  Control!ControlTypeOK /\ Control!WipeTyped /\ Control!PinsOne
    OBVIOUS
  <1>1. \A w \in wipes : w.typed # Control!Absent /\ (w.typed = w.dev \/ w.swapped = TRUE)
    BY DEF ControlInv, TypedHere
  <1>2. Control!WipeTyped
    BY <1>1, Zenon DEF Control!WipeTyped
  <1>3. \A k \in Control!Queries : queries[k].st \in {"none", "next", "asked"}
    BY DEF ControlInv, QueriesOK, Query
  <1>4. picker.selected \subseteq Pickable /\ picker.apps \subseteq Pickable
    BY DEF ControlInv, PickerInv, Picker
  <1>5. Control!PinsOne
    <2>1. picker.mode = "single" => Cardinality(picker.selected) <= 1
      BY DEF ControlInv, PickerInv
    <2> QED BY <2>1, OneCount, Zenon DEF Control!PinsOne
  <1>6. Control!ControlTypeOK
    BY <1>3, <1>4 DEF ControlInv, PageTypes, Control!ControlTypeOK
  <1> QED BY <1>2, <1>5, <1>6

LEMMA NoQueryIsQuery == Control!NoQuery \in Query /\ ~Control!NoQuery.aborted /\ Control!NoQuery.st = "none"
  BY DEF Control!NoQuery, Query

LEMMA CommandTypes ==
  ASSUME NEW d \in Devices \cup {Control!Absent},
         NEW kind \in {"none", "lock", "apps", "kiosk.enter"} \cup Control!ACTION_TEMPLATES,
         NEW packages \in SUBSET Pickable
  PROVE  Control!Command(d, kind, packages) \in Addressed
  BY DEF Control!Command, Addressed

LEMMA NoPickerIsPicker ==
  /\ Control!NoPicker \in Picker /\ IsFiniteSet(Control!NoPicker.selected)
  /\ Control!NoPicker.mode = "launcher"
  <1>1. Control!NoCommand \in Addressed
    BY CommandTypes DEF Control!NoCommand
  <1> QED BY <1>1, FS_EmptySet DEF Control!NoPicker, Picker

LEMMA ControlStart == Control!ControlInit => ControlInv
  <1> SUFFICES ASSUME Control!ControlInit PROVE ControlInv
    OBVIOUS
  <1>1. PageTypes
    BY DEF Control!ControlInit, PageTypes
  <1>2. TypedHere
    BY DEF Control!ControlInit, Control!NoDialog, TypedHere, Dialog
  <1>3. PickerInv /\ QueriesOK
    BY NoQueryIsQuery, NoPickerIsPicker DEF Control!ControlInit, PickerInv, QueriesOK
  <1> QED BY <1>1, <1>2, <1>3 DEF ControlInv

\* Telling the queries of the picker to stop starts none.
LEMMA Stopping ==
  ASSUME QueriesOK, queries' = [k \in Control!Queries |-> [queries[k] EXCEPT !.aborted = TRUE]]
  PROVE  QueriesOK' /\ Control!PickerStaysStopped
  <1> SUFFICES ASSUME NEW k \in Control!Queries
               PROVE  queries'[k] \in Query /\ queries'[k].st = queries[k].st
    BY DEF QueriesOK, Control!PickerStaysStopped
  <1>1. PICK q \in Query : q = queries[k]
    BY DEF QueriesOK
  <1>2. queries'[k] = [q EXCEPT !.aborted = TRUE]
    BY <1>1
  <1> QED BY <1>1, <1>2 DEF Query

\* One query moves on.
LEMMA QueryMoves ==
  ASSUME QueriesOK, NEW k \in Control!Queries, NEW q \in Query, queries' = [queries EXCEPT ![k] = q],
         queries[k].aborted /\ q.aborted /\ q.st = "asked" => queries[k].st = "asked"
  PROVE  QueriesOK' /\ Control!PickerStaysStopped
  BY DEF QueriesOK, Control!PickerStaysStopped

\* A picker that changes keeps what it must.
LEMMA PickerMoves ==
  ASSUME PickerInv, NEW p, picker' = p, p.selected = picker.selected, p.mode = picker.mode, p \in Picker
  PROVE  PickerInv'
  BY DEF PickerInv

LEMMA PickerGone ==
  ASSUME picker' = Control!NoPicker
  PROVE  PickerInv'
  BY NoPickerIsPicker DEF PickerInv

\* What the dialog holds stays good for the device it was typed for.
LEMMA SameTyped ==
  ASSUME TypedHere, UNCHANGED <<dialog, device, wipes>>, active' \in {active, "none"}
  PROVE  TypedHere'
  BY DEF TypedHere

LEMMA ControlStep ==
  ASSUME ControlInv, Control!ControlNext
  PROVE  ControlInv' /\ Control!PickerStaysStopped
  <1> USE DEF ControlInv
  <1>0. UNCHANGED queries => QueriesOK' /\ Control!PickerStaysStopped
    BY DEF QueriesOK, Control!PickerStaysStopped
  <1>t. UNCHANGED <<dialog, device, wipes>> /\ active' \in {active, "none"} => TypedHere'
    BY SameTyped
  <1>1. CASE Control!poll \/ Control!syncNow
    BY <1>0, <1>t, <1>1 DEF Control!poll, Control!syncNow, Control!Shown, Control!consoleVars, Control!sentVars,
                            PageTypes, PickerInv
  <1>2. CASE Control!FillIn
    <2>1. dialog' = IF active = "wipe" THEN [dialog EXCEPT !.confirmText = TRUE, !.typed = device]
                                       ELSE [dialog EXCEPT !.filled = TRUE]
      BY <1>2 DEF Control!FillIn
    <2>2. active # "none" /\ UNCHANGED <<active, device, wipes>>
      BY <1>2 DEF Control!FillIn, Control!railVars, Control!sentVars
    <2>3. TypedHere'
      BY <2>1, <2>2 DEF TypedHere, Dialog, PageTypes
    <2> QED BY <1>0, <1>2, <2>3 DEF Control!FillIn, Control!railVars, PageTypes, PickerInv
  <1>3. CASE Control!CancelDialog
    BY <1>0, <1>t, <1>3 DEF Control!CancelDialog, Control!railVars, Control!sentVars, PageTypes, PickerInv
  <1>4. CASE Control!confirmAndSend
    <2>1. active = "wipe" => dialog.confirmText = TRUE
      BY <1>4 DEF Control!confirmAndSend, Control!canSend, TypedHere, Dialog
    <2>2. PICK w : w = [dev |-> device, typed |-> dialog.typed, swapped |-> dialog.swapped]
      OBVIOUS
    <2>3. w.dev = device /\ w.typed = dialog.typed /\ w.swapped = dialog.swapped
      BY <2>2
    <2>4. wipes' = IF active = "wipe" THEN wipes \cup {w} ELSE wipes
      BY <1>4, <2>2, Zenon DEF Control!confirmAndSend
    <2>5. active' = "none" /\ UNCHANGED <<dialog, device>>
      BY <1>4 DEF Control!confirmAndSend, Control!railVars
    <2>6. TypedHere'
      BY <2>1, <2>3, <2>4, <2>5 DEF TypedHere
    <2> QED BY <1>0, <1>4, <2>6 DEF Control!confirmAndSend, Control!railVars, PageTypes, PickerInv
  <1>5. CASE Control!OpenPicker
    <2>1. PICK p : p = [Control!NoPicker EXCEPT !.open = TRUE]
      OBVIOUS
    <2>2. p \in Picker /\ IsFiniteSet(p.selected) /\ p.mode = "launcher"
      BY <2>1, NoPickerIsPicker DEF Picker
    <2>3. PickerInv'
      BY <1>5, <2>1, <2>2 DEF Control!OpenPicker, PickerInv
    <2> QED BY <1>0, <1>t, <1>5, <2>3 DEF Control!OpenPicker, Control!railVars, Control!sentVars, PageTypes
  <1>6. CASE Control!ClosePicker
    <2>1. QueriesOK' /\ Control!PickerStaysStopped
      BY <1>6, Stopping DEF Control!ClosePicker
    <2>2. PickerInv'
      BY <1>6, PickerGone DEF Control!ClosePicker
    <2> QED BY <1>t, <1>6, <2>1, <2>2 DEF Control!ClosePicker, Control!railVars, Control!sentVars, PageTypes
  <1>7. CASE Control!switchMode
    <2>1. PICK m \in {"launcher", "single"} : picker' = Control!ModeSwitched(m)
      BY <1>7 DEF Control!switchMode
    <2>2. Control!KeptIn(m) \in SUBSET Pickable
      BY DEF Control!KeptIn, PickerInv, Picker
    <2>3. picker' \in Picker /\ picker'.mode = m /\ picker'.selected = Control!KeptIn(m)
      BY <2>1, <2>2 DEF Control!ModeSwitched, PickerInv, Picker
    <2>4. Cardinality(picker.selected) \in Nat
      BY FS_CardinalityType DEF PickerInv
    <2>5. PickerInv'
      <3>1. IsFiniteSet(Control!KeptIn(m)) /\ (m = "single" => Cardinality(Control!KeptIn(m)) <= 1)
        BY <2>4, FS_EmptySet, OneCount DEF Control!KeptIn, PickerInv
      <3>2. IsFiniteSet(picker'.selected) /\ (picker'.mode = "single" => Cardinality(picker'.selected) <= 1)
        BY <2>3, <3>1
      <3> QED BY <2>3, <3>2 DEF PickerInv
    <2> QED BY <1>0, <1>t, <1>7, <2>5 DEF Control!switchMode, Control!railVars, Control!sentVars, PageTypes
  <1>8. CASE Control!apply
    <2>1. Control!Command(device, "kiosk.enter", picker.selected) \in Addressed
      BY CommandTypes DEF PageTypes, PickerInv, Picker
    <2>2. PickerInv'
      BY <1>8, <2>1 DEF Control!apply, PickerInv, Picker
    <2> QED BY <1>0, <1>t, <1>8, <2>2 DEF Control!apply, Control!railVars, PageTypes
  <1>9. CASE Control!getLatestScan
    <2>1. PickerInv'
      BY <1>9 DEF Control!getLatestScan, PickerInv, Picker
    <2> QED BY <1>0, <1>t, <1>9, <2>1 DEF Control!getLatestScan, Control!railVars, Control!sentVars, PageTypes
  <1>10. ASSUME NEW d \in Devices, Control!Jump(d) PROVE ControlInv' /\ Control!PickerStaysStopped
    <2>1. QueriesOK' /\ Control!PickerStaysStopped
      BY <1>10, Stopping DEF Control!Jump, Control!Unmounted
    <2>2. PickerInv'
      BY <1>10, PickerGone DEF Control!Jump, Control!Unmounted
    <2>3. TypedHere'
      BY <1>10 DEF Control!Jump, Control!Unmounted, Control!NoDialog, Control!sentVars, TypedHere, Dialog
    <2> QED BY <1>10, <2>1, <2>2, <2>3 DEF Control!Jump, Control!Unmounted, PageTypes
  <1>11. ASSUME NEW d \in Devices, Control!load(d) \/ Control!StateRead(d)
         PROVE  ControlInv' /\ Control!PickerStaysStopped
    <2>1. CASE Control!load(d)
      <3>1. PICK b \in BOOLEAN : b = (dialog.swapped \/ (active # "none" /\ device' # device))
        OBVIOUS
      <3>2. dialog' = [dialog EXCEPT !.swapped = b]
        BY <2>1, <3>1, Zenon DEF Control!load
      <3>3. (dialog.swapped = TRUE => b = TRUE) /\ (active # "none" /\ device' # device => b = TRUE)
        BY <3>1
      <3>4. device' \in {d, device} /\ UNCHANGED <<active, wipes>> /\ d # Control!Absent
        BY <2>1, ConsoleAssumption DEF Control!load, Control!sentVars, Control!Absent
      <3>5. TypedHere'
        BY <3>2, <3>3, <3>4 DEF TypedHere, Dialog
      <3> QED BY <1>0, <2>1, <3>5 DEF Control!load, PageTypes, PickerInv
    <2>2. CASE Control!StateRead(d)
      BY <1>0, <1>t, <2>2 DEF Control!StateRead, Control!consoleVars, Control!sentVars, PageTypes, PickerInv
    <2> QED BY <1>11, <2>1, <2>2
  <1>12. ASSUME NEW kind \in {"lock", "apps"}, Control!RailSends(kind) PROVE ControlInv' /\ Control!PickerStaysStopped
    BY <1>0, <1>t, <1>12 DEF Control!RailSends, Control!consoleVars, PageTypes, PickerInv
  <1>13. ASSUME NEW c \in inflight, Control!queueCommand(c) PROVE ControlInv' /\ Control!PickerStaysStopped
    <2>1. CASE picker.sent = c /\ steps' # steps
      <3>1. Control!NoCommand \in Addressed
        BY CommandTypes DEF Control!NoCommand
      <3>2. picker' = [picker EXCEPT !.sent = Control!NoCommand] /\ UNCHANGED queries
        BY <1>13, <2>1 DEF Control!queueCommand
      <3>3. PickerInv'
        BY <3>1, <3>2 DEF PickerInv, Picker
      <3> QED BY <1>0, <1>t, <1>13, <3>2, <3>3 DEF Control!queueCommand, PageTypes
    <2>2. CASE picker.sent = c /\ steps' = steps
      <3>1. PickerInv' /\ QueriesOK' /\ Control!PickerStaysStopped
        BY <1>13, <2>2, Stopping, PickerGone DEF Control!queueCommand
      <3> QED BY <1>t, <1>13, <3>1 DEF Control!queueCommand, PageTypes
    <2>3. CASE picker.sent # c
      <3>1. UNCHANGED <<picker, queries>>
        BY <1>13, <2>3 DEF Control!queueCommand
      <3> QED BY <1>0, <1>t, <1>13, <3>1 DEF Control!queueCommand, PageTypes, PickerInv
    <2> QED BY <2>1, <2>2, <2>3
  <1>14. ASSUME NEW t \in Control!ACTION_TEMPLATES, Control!start(t) PROVE ControlInv' /\ Control!PickerStaysStopped
    <2>1. TypedHere'
      BY <1>14 DEF Control!start, Control!Shown, Control!DialogFresh, Control!NoDialog, Control!railVars,
                   Control!sentVars, TypedHere, Dialog
    <2> QED BY <1>0, <1>14, <2>1 DEF Control!start, Control!railVars, PageTypes, PickerInv
  <1>15. ASSUME NEW t \in Control!ACTION_TEMPLATES, Control!onClick(t) PROVE ControlInv' /\ Control!PickerStaysStopped
    BY <1>0, <1>t, <1>15 DEF Control!onClick, Control!railVars, PageTypes, PickerInv
  <1>16. ASSUME NEW p \in Pickable, Control!toggle(p) PROVE ControlInv' /\ Control!PickerStaysStopped
    <2>1. PICK chosen : chosen = IF picker.mode = "single" THEN IF p \in picker.selected THEN {} ELSE {p}
                                 ELSE IF p \in picker.selected THEN picker.selected \ {p} ELSE picker.selected \cup {p}
      OBVIOUS
    <2>2. chosen \subseteq Pickable
      BY <2>1 DEF PickerInv, Picker
    <2>3. IsFiniteSet(chosen)
      BY <2>1, FS_EmptySet, FS_Singleton, FS_AddElement, FS_RemoveElement DEF PickerInv
    <2>4. picker.mode = "single" => Cardinality(chosen) <= 1
      BY <2>1, FS_EmptySet, FS_Singleton
    <2>5. picker' = [picker EXCEPT !.selected = chosen]
      BY <1>16, <2>1 DEF Control!toggle
    <2>6. PickerInv'
      BY <2>2, <2>3, <2>4, <2>5 DEF PickerInv, Picker
    <2> QED BY <1>0, <1>t, <1>16, <2>6 DEF Control!toggle, Control!railVars, Control!sentVars, PageTypes
  <1>17. ASSUME NEW k \in Control!Queries, Control!StartQuery(k) PROVE ControlInv' /\ Control!PickerStaysStopped
    <2>1. PICK q : q = [st |-> "next", dev |-> device, aborted |-> FALSE,
                        left |-> IF k = "icons" THEN picker.apps ELSE {}]
      OBVIOUS
    <2>2. q \in Query /\ ~q.aborted
      BY <2>1 DEF Query, PageTypes, PickerInv, Picker
    <2>3. queries' = [queries EXCEPT ![k] = q]
      BY <1>17, <2>1 DEF Control!StartQuery
    <2>4. QueriesOK' /\ Control!PickerStaysStopped
      BY <2>2, <2>3, QueryMoves
    <2> QED BY <1>t, <1>17, <2>4 DEF Control!StartQuery, Control!railVars, Control!sentVars, PageTypes, PickerInv
  <1>18. ASSUME NEW k \in Control!Queries, Control!AskDevice(k) PROVE ControlInv' /\ Control!PickerStaysStopped
    <2>1. PICK q : q = [queries[k] EXCEPT !.st = "asked"]
      OBVIOUS
    <2>2. q \in Query
      BY <2>1 DEF QueriesOK, Query
    <2>3. queries' = [queries EXCEPT ![k] = q] /\ ~queries[k].aborted
      BY <1>18, <2>1 DEF Control!AskDevice, Control!GoesOn
    <2>4. QueriesOK' /\ Control!PickerStaysStopped
      BY <2>2, <2>3, QueryMoves
    <2> QED BY <1>t, <1>18, <2>4 DEF Control!AskDevice, Control!railVars, Control!sentVars, PageTypes, PickerInv
  <1>19. ASSUME NEW k \in Control!Queries, Control!DeviceResult(k) PROVE ControlInv' /\ Control!PickerStaysStopped
    <2>1. \A batch : Control!Without(queries[k], batch) \in Query
      BY NoQueryIsQuery DEF Control!Without, QueriesOK, Query
    <2>2. PICK q \in Query : queries' = [queries EXCEPT ![k] = q]
      BY <1>19, <2>1, NoQueryIsQuery DEF Control!DeviceResult
    <2>3. QueriesOK' /\ Control!PickerStaysStopped
      BY <1>19, <2>2, QueryMoves DEF Control!DeviceResult
    <2>4. PickerInv'
      <3>1. CASE UNCHANGED picker
        BY <3>1 DEF PickerInv
      <3>2. CASE picker' = [picker EXCEPT !.apps = Pickable, !.known = TRUE]
        BY <3>2 DEF PickerInv, Picker
      <3> QED BY <1>19, <3>1, <3>2 DEF Control!DeviceResult
    <2> QED BY <1>t, <1>19, <2>3, <2>4 DEF Control!DeviceResult, Control!railVars, Control!sentVars, PageTypes
  <1>20. ASSUME NEW k \in Control!Queries, Control!QueryStops(k) PROVE ControlInv' /\ Control!PickerStaysStopped
    <2>1. QueriesOK' /\ Control!PickerStaysStopped
      BY <1>20, NoQueryIsQuery, QueryMoves DEF Control!QueryStops
    <2> QED BY <1>t, <1>20, <2>1 DEF Control!QueryStops, Control!railVars, Control!sentVars, PageTypes, PickerInv
  <1> QED BY <1>1, <1>2, <1>3, <1>4, <1>5, <1>6, <1>7, <1>8, <1>9, <1>10, <1>11, <1>12, <1>13, <1>14, <1>15, <1>16,
             <1>17, <1>18, <1>19, <1>20
          DEF Control!ControlNext

LEMMA ControlHolds ==
  Spec => [](page = "device" => ControlInv) /\ [][page = "device" => Control!PickerStaysStopped]_vars
  <1>1. Init => (page = "device" => ControlInv)
    BY ControlStart DEF Init
  <1>2. (page = "device" => ControlInv) /\ [Next]_vars
        => (page = "device" => ControlInv)' /\ [page = "device" => Control!PickerStaysStopped]_vars
    <2> SUFFICES ASSUME page = "device", ControlInv, [Next]_vars
                 PROVE  ControlInv' /\ (Control!PickerStaysStopped \/ UNCHANGED vars)
      BY PageStays
    <2>1. CASE Control!ControlNext
      BY <2>1, ControlStep
    <2>2. CASE UNCHANGED varsControl
      BY <2>2 DEF varsControl, ControlInv, PageTypes, TypedHere, PickerInv, QueriesOK,
                  Control!PickerStaysStopped
    <2> QED BY <2>1, <2>2, ControlSteps
  <1> QED BY <1>1, <1>2, PTL DEF Spec

-----------------------------------------------------------------------------
(* The device list and its bulk actions. *)

Search == [st : {"none", "sent", "served"}, text : BOOLEAN, found : SUBSET FleetDevices, ends : BOOLEAN]
Modal == [screen : {"catalog", "form", "apps", "kiosk"}, busy : BOOLEAN, filled : BOOLEAN, apps : BOOLEAN,
          single : BOOLEAN, picked : SUBSET LibraryApps, picking : BOOLEAN]
Bulk == [kind : {"safe", "form", "install", "kiosk"}, ids : SUBSET FleetDevices, packages : SUBSET LibraryApps,
         mine : BOOLEAN, at : Nat]

ListTypes ==
    /\ fleet \subseteq FleetDevices /\ rows \subseteq FleetDevices /\ hidden \subseteq FleetDevices
    /\ selected \subseteq FleetDevices
    /\ listing \in BOOLEAN /\ needle \in BOOLEAN /\ debounce \in BOOLEAN
    /\ searches \in [Fleet!Searches -> Search]

BarTypes ==
    /\ opened \in {"none", "actions", "move", "delete"} /\ target \in BOOLEAN /\ busy \in BOOLEAN
    /\ \A c \in changes : c.kind \in {"move", "delete"} /\ c.ids \subseteq FleetDevices
    /\ used \in [steps : Nat, faults : Nat]

\* The reload that a change waits for.
Awaited(s) == searches[s].st # "none" /\ searches[s].ends

\* A change keeps the page busy until it has failed or its reload has been answered, so
\* there is one of them, or the reload of one.
OneAtATime ==
    /\ \A c, d \in changes : c = d
    /\ \A s, t \in Fleet!Searches : Awaited(s) /\ Awaited(t) => s = t
    /\ changes # {} => busy = TRUE /\ \A s \in Fleet!Searches : ~Awaited(s)
    /\ \A s \in Fleet!Searches : Awaited(s) => busy = TRUE

ModalInv ==
    /\ modal \in Modal /\ bulks \subseteq Bulk
    /\ modal.single => \A a, b \in modal.picked : a = b

FleetInv == ListTypes /\ BarTypes /\ OneAtATime /\ ModalInv

LEMMA FleetSteps ==
  ASSUME page = "fleet", [Next]_vars
  PROVE  Fleet!FleetNext \/ UNCHANGED varsFleet
  BY DEF Next, vars, varsFleet

\* A set without two elements counts one at most.
LEMMA AtMostOne ==
  ASSUME NEW S, \A x, y \in S : x = y
  PROVE  Cardinality(S) <= 1
  <1>1. CASE S = {}
    BY <1>1, FS_EmptySet
  <1>2. CASE S # {}
    <2>1. PICK x : S = {x}
      BY <1>2
    <2> QED BY <2>1, FS_Singleton
  <1> QED BY <1>1, <1>2

LEMMA FleetMeans == FleetInv => Fleet!FleetTypeOK /\ Fleet!OneChange /\ Fleet!BulkIsSafe
  <1> SUFFICES ASSUME FleetInv PROVE Fleet!FleetTypeOK /\ Fleet!OneChange /\ Fleet!BulkIsSafe
    OBVIOUS
  <1>1. Fleet!FleetTypeOK
    BY DEF FleetInv, ListTypes, BarTypes, ModalInv, Search, Modal, Fleet!FleetTypeOK
  <1>2. Cardinality(changes) <= 1 /\ (changes # {} => busy = TRUE)
    BY AtMostOne DEF FleetInv, OneAtATime
  <1>3. Fleet!OneChange
    BY <1>2, OneCount, Zenon DEF Fleet!OneChange
  <1>4. modal.single => Cardinality(modal.picked) <= 1
    BY AtMostOne DEF FleetInv, ModalInv
  <1>5. \A b \in bulks : b.kind # "destructive"
    BY DEF FleetInv, ModalInv, Bulk
  <1>6. Fleet!BulkIsSafe
    BY <1>4, <1>5, OneCount, Zenon DEF Fleet!BulkIsSafe
  <1> QED BY <1>1, <1>3, <1>6

LEMMA NoModalIsModal == Fleet!NoModal \in Modal /\ ~Fleet!NoModal.single
  BY DEF Fleet!NoModal, Modal

LEMMA NoSearchIsSearch == Fleet!NoSearch \in Search /\ Fleet!NoSearch.st = "none"
  BY DEF Fleet!NoSearch, Search

LEMMA FleetStart == Fleet!FleetInit => FleetInv
  <1> SUFFICES ASSUME Fleet!FleetInit PROVE FleetInv
    OBVIOUS
  <1>1. PICK first : first = [Fleet!NoSearch EXCEPT !.st = "sent"]
    OBVIOUS
  <1>2. first \in Search /\ ~first.ends
    BY <1>1 DEF Fleet!NoSearch, Search
  <1>3. searches = [s \in Fleet!Searches |-> IF s = 1 THEN first ELSE Fleet!NoSearch]
    BY <1>1 DEF Fleet!FleetInit
  <1>4. searches \in [Fleet!Searches -> Search] /\ \A s \in Fleet!Searches : ~Awaited(s)
    BY <1>2, <1>3, NoSearchIsSearch DEF Awaited
  <1>5. ListTypes
    BY <1>4 DEF Fleet!FleetInit, ListTypes
  <1>6. BarTypes /\ OneAtATime
    BY <1>4 DEF Fleet!FleetInit, BarTypes, OneAtATime
  <1>7. ModalInv
    BY NoModalIsModal DEF Fleet!FleetInit, ModalInv
  <1> QED BY <1>5, <1>6, <1>7 DEF FleetInv

LEMMA UsedTypes ==
  ASSUME BarTypes, Fleet!FleetStep \/ Fleet!FleetFault \/ UNCHANGED used
  PROVE  used' \in [steps : Nat, faults : Nat] /\ used.steps \in Nat
  BY DEF BarTypes, Fleet!FleetStep, Fleet!FleetFault

\* A request that nobody waits for, and one that a change waits for.
LEMMA Asking ==
  ASSUME ListTypes, NEW text \in BOOLEAN, NEW ends \in BOOLEAN, Fleet!Ask(text, ends)
  PROVE  /\ searches' \in [Fleet!Searches -> Search] /\ listing' = TRUE
         /\ ~ends => \A s \in Fleet!Searches : Awaited(s)' => Awaited(s)
         /\ (\A s \in Fleet!Searches : ~Awaited(s))
            => \A s, t \in Fleet!Searches : Awaited(s)' /\ Awaited(t)' => s = t
  <1>1. PICK s \in Fleet!Free : searches' = [searches EXCEPT ![s] =
               [st |-> "sent", text |-> text, found |-> {}, ends |-> ends]]
    BY DEF Fleet!Ask
  <1>2. PICK x : x = [st |-> "sent", text |-> text, found |-> {}, ends |-> ends]
    OBVIOUS
  <1>3. x \in Search /\ x.ends = ends
    BY <1>2 DEF Search
  <1>4. s \in Fleet!Searches /\ searches' = [searches EXCEPT ![s] = x]
    BY <1>1, <1>2 DEF Fleet!Free
  <1>5. searches' \in [Fleet!Searches -> Search] /\ \A t \in Fleet!Searches \ {s} : Awaited(t)' = Awaited(t)
    BY <1>3, <1>4 DEF ListTypes, Awaited
  <1>6. ~ends => ~Awaited(s)'
    BY <1>3, <1>4 DEF ListTypes, Awaited
  <1>7. listing' = TRUE
    BY DEF Fleet!Ask
  <1> QED BY <1>4, <1>5, <1>6, <1>7

LEMMA SameList ==
  ASSUME ListTypes, UNCHANGED <<Fleet!listVars, selected>>
  PROVE  ListTypes'
  BY DEF ListTypes, Fleet!listVars

LEMMA SameChanges ==
  ASSUME OneAtATime, UNCHANGED <<searches, busy, changes>>
  PROVE  OneAtATime'
  BY DEF OneAtATime, Awaited

LEMMA SameBar ==
  ASSUME BarTypes, UNCHANGED <<opened, target, busy, changes>>, used' \in [steps : Nat, faults : Nat]
  PROVE  BarTypes'
  BY DEF BarTypes

LEMMA SameModal ==
  ASSUME ModalInv, UNCHANGED <<modal, bulks>>
  PROVE  ModalInv'
  BY DEF ModalInv

\* A request of the modal goes out.
LEMMA BulkSending ==
  ASSUME FleetInv, NEW kind \in {"safe", "form", "install", "kiosk"}, NEW packages \in SUBSET LibraryApps,
         Fleet!BulkSend(kind, packages),
         modal' = [modal EXCEPT !.busy = TRUE] \/ modal' = [modal EXCEPT !.picking = TRUE]
  PROVE  ModalInv'
  <1>1. PICK b : b = [kind |-> kind, ids |-> selected, packages |-> packages, mine |-> TRUE, at |-> used.steps]
    OBVIOUS
  <1>2. b \in Bulk
    BY <1>1 DEF FleetInv, ListTypes, BarTypes, Bulk
  <1>3. bulks' = bulks \cup {b}
    BY <1>1 DEF Fleet!BulkSend
  <1>4. modal' \in Modal /\ modal'.single = modal.single /\ modal'.picked = modal.picked
    BY DEF FleetInv, ModalInv, Modal
  <1> QED BY <1>2, <1>3, <1>4 DEF FleetInv, ModalInv

\* Requests whose modal has gone are the same requests.
LEMMA Orphaned ==
  ASSUME NEW bs \in SUBSET Bulk
  PROVE  {[b EXCEPT !.mine = FALSE] : b \in bs} \subseteq Bulk
  BY DEF Bulk

\* What the buttons of the selection and of the filters do.
LEMMA SelectionStep ==
  ASSUME FleetInv,
         \/ Fleet!TypeSearch \/ Fleet!selectAllFiltered \/ Fleet!toggleAll \/ Fleet!clearSel
         \/ \E h \in SUBSET FleetDevices : Fleet!SetFilter(h)
         \/ \E d \in FleetDevices : Fleet!Elsewhere(d) \/ Fleet!toggle(d)
  PROVE  FleetInv' /\ Fleet!SelectedIsShown
  <1> USE DEF FleetInv
  <1>1. UNCHANGED <<opened, target, busy, changes, modal, bulks, searches>>
        /\ used' \in [steps : Nat, faults : Nat]
    BY UsedTypes DEF Fleet!TypeSearch, Fleet!selectAllFiltered, Fleet!toggleAll, Fleet!clearSel, Fleet!SetFilter,
                     Fleet!Elsewhere, Fleet!toggle, Fleet!Chosen, Fleet!bulkVars, Fleet!listVars
  <1>2. BarTypes' /\ OneAtATime' /\ ModalInv'
    BY <1>1, SameBar, SameChanges, SameModal
  <1>3. Fleet!filtered \subseteq FleetDevices
    BY DEF Fleet!filtered, ListTypes
  <1>4. CASE Fleet!TypeSearch
    BY <1>2, <1>4 DEF Fleet!TypeSearch, ListTypes, Fleet!SelectedIsShown
  <1>5. ASSUME Fleet!selectAllFiltered \/ Fleet!toggleAll \/ Fleet!clearSel \/ \E d \in FleetDevices : Fleet!toggle(d)
        PROVE  FleetInv' /\ Fleet!SelectedIsShown
    <2>1. UNCHANGED Fleet!listVars
      BY <1>5 DEF Fleet!selectAllFiltered, Fleet!toggleAll, Fleet!clearSel, Fleet!toggle, Fleet!Chosen
    <2>2. selected' \subseteq FleetDevices /\ Fleet!SelectedIsShown
      BY <1>3, <1>5 DEF Fleet!selectAllFiltered, Fleet!toggleAll, Fleet!clearSel, Fleet!toggle, Fleet!Chosen,
                        Fleet!AllFiltered, Fleet!SelectedIsShown, ListTypes
    <2> QED BY <1>2, <2>1, <2>2 DEF Fleet!listVars, ListTypes
  <1>6. ASSUME NEW h \in SUBSET FleetDevices, Fleet!SetFilter(h) PROVE FleetInv' /\ Fleet!SelectedIsShown
    BY <1>2, <1>6 DEF Fleet!SetFilter, ListTypes, Fleet!SelectedIsShown
  <1>7. ASSUME NEW d \in FleetDevices, Fleet!Elsewhere(d) PROVE FleetInv' /\ Fleet!SelectedIsShown
    BY <1>2, <1>7 DEF Fleet!Elsewhere, ListTypes, Fleet!SelectedIsShown
  <1> QED BY <1>4, <1>5, <1>6, <1>7

\* What asks for the list and takes its answers.
LEMMA ListStep ==
  ASSUME FleetInv, Fleet!Debounced \/ \E s \in Fleet!Searches : Fleet!searchDevices(s) \/ Fleet!Listed(s)
  PROVE  FleetInv' /\ Fleet!SelectedIsShown
  <1> USE DEF FleetInv
  <1>1. CASE Fleet!Debounced
    <2>1. /\ searches' \in [Fleet!Searches -> Search] /\ listing' = TRUE
          /\ \A s \in Fleet!Searches : Awaited(s)' => Awaited(s)
      BY <1>1, Asking DEF Fleet!Debounced, ListTypes
    <2>2. ListTypes' /\ OneAtATime'
      BY <1>1, <2>1 DEF Fleet!Debounced, Fleet!bulkVars, ListTypes, OneAtATime
    <2> QED BY <1>1, <2>2, SameBar, SameModal DEF Fleet!Debounced, Fleet!bulkVars, BarTypes, Fleet!SelectedIsShown
  <1>2. ASSUME NEW s \in Fleet!Searches, Fleet!searchDevices(s) PROVE FleetInv' /\ Fleet!SelectedIsShown
    <2>1. PICK found : found = IF searches[s].text THEN fleet \cap Matching ELSE fleet
      OBVIOUS
    <2>2. PICK x : x = [searches[s] EXCEPT !.st = "served", !.found = found]
      OBVIOUS
    <2>3. found \subseteq FleetDevices
      BY <2>1 DEF ListTypes
    <2>4. x \in Search /\ x.ends = searches[s].ends /\ x.st = "served"
      BY <2>2, <2>3 DEF ListTypes, Search
    <2>5. searches' = [searches EXCEPT ![s] = x]
      BY <1>2, <2>1, <2>2 DEF Fleet!searchDevices, ListTypes, Search
    <2>6. /\ searches' \in [Fleet!Searches -> Search]
          /\ \A t \in Fleet!Searches : Awaited(t)' => Awaited(t)
      BY <1>2, <2>4, <2>5 DEF Fleet!searchDevices, ListTypes, Awaited
    <2>7. ListTypes' /\ OneAtATime'
      BY <1>2, <2>6 DEF Fleet!searchDevices, Fleet!bulkVars, ListTypes, OneAtATime
    <2> QED BY <1>2, <2>7, SameBar, SameModal DEF Fleet!searchDevices, Fleet!bulkVars, BarTypes, Fleet!SelectedIsShown
  <1>3. ASSUME NEW s \in Fleet!Searches, Fleet!Listed(s) PROVE FleetInv' /\ Fleet!SelectedIsShown
    <2>1. searches' \in [Fleet!Searches -> Search] /\ ~Awaited(s)' /\ \A t \in Fleet!Searches \ {s} : Awaited(t)' = Awaited(t)
      BY <1>3, NoSearchIsSearch DEF Fleet!Listed, ListTypes, Awaited
    <2>2. ListTypes'
      BY <1>3, <2>1 DEF Fleet!Listed, ListTypes, Search
    <2>3. PICK ends \in BOOLEAN : ends = searches[s].ends
      BY DEF ListTypes, Search
    <2>4. busy' = (busy /\ ~ends)
      BY <1>3, <2>3 DEF Fleet!Listed
    <2>5. ASSUME ends = TRUE PROVE OneAtATime'
      <3>1. Awaited(s)
        BY <1>3, <2>3, <2>5 DEF Fleet!Listed, Awaited
      <3>2. changes = {} /\ \A t \in Fleet!Searches \ {s} : ~Awaited(t)
        BY <3>1 DEF OneAtATime
      <3>3. changes' = {} /\ \A t \in Fleet!Searches : ~Awaited(t)'
        BY <1>3, <2>1, <3>2 DEF Fleet!Listed
      <3> QED BY <3>3 DEF OneAtATime
    <2>6. ASSUME ends = FALSE PROVE OneAtATime'
      <3>1. (busy /\ ~ends) = busy
        BY <2>6 DEF BarTypes
      <3>2. busy' = busy
        BY <2>4, <3>1, Zenon
      <3>3. changes' = changes /\ \A t \in Fleet!Searches : Awaited(t)' => Awaited(t)
        BY <1>3, <2>1 DEF Fleet!Listed
      <3> QED BY <3>2, <3>3 DEF OneAtATime
    <2>7. OneAtATime'
      BY <2>5, <2>6
    <2>8. busy' \in BOOLEAN
      BY <2>4
    <2>9. used' \in [steps : Nat, faults : Nat]
      BY <1>3, UsedTypes DEF Fleet!Listed
    <2> QED BY <1>3, <2>2, <2>7, <2>8, <2>9, SameModal DEF Fleet!Listed, BarTypes, Fleet!SelectedIsShown
  <1> QED BY <1>1, <1>2, <1>3

\* Moves and deletions.
LEMMA ChangeStep ==
  ASSUME FleetInv,
         \/ Fleet!setTarget \/ Fleet!CloseDialog \/ Fleet!Apply
         \/ \E x \in {"actions", "move", "delete"} : Fleet!OpenDialog(x)
         \/ \E c \in changes : Fleet!Applied(c) \/ Fleet!ApplyFails(c)
  PROVE  FleetInv' /\ Fleet!SelectedIsShown
  <1> USE DEF FleetInv
  <1>1. CASE Fleet!setTarget \/ Fleet!CloseDialog \/ \E x \in {"actions", "move", "delete"} : Fleet!OpenDialog(x)
    <2>1. UNCHANGED <<Fleet!listVars, selected, busy, changes, modal, bulks>> /\ used' \in [steps : Nat, faults : Nat]
      BY <1>1, UsedTypes DEF Fleet!setTarget, Fleet!CloseDialog, Fleet!OpenDialog
    <2>2. BarTypes'
      BY <1>1, <2>1 DEF Fleet!setTarget, Fleet!CloseDialog, Fleet!OpenDialog, BarTypes
    <2> QED BY <2>1, <2>2, SameList, SameChanges, SameModal DEF Fleet!listVars, Fleet!SelectedIsShown
  <1>2. CASE Fleet!Apply
    <2>0. PICK c : c = [kind |-> opened, ids |-> selected, at |-> used.steps]
      OBVIOUS
    <2>1. changes' = changes \cup {c} /\ c.kind = opened /\ c.ids = selected
      BY <1>2, <2>0 DEF Fleet!Apply
    <2>2. opened \in {"move", "delete"} /\ busy = FALSE /\ busy' = TRUE
      BY <1>2 DEF Fleet!Apply, Fleet!MayChange, BarTypes
    <2>3. changes = {} /\ \A s \in Fleet!Searches : ~Awaited(s)
      BY <2>2 DEF OneAtATime
    <2>4. UNCHANGED <<Fleet!listVars, selected, opened, target, modal, bulks>> /\ used' \in [steps : Nat, faults : Nat]
      BY <1>2, UsedTypes DEF Fleet!Apply
    <2>5. OneAtATime'
      BY <2>1, <2>2, <2>3, <2>4 DEF OneAtATime, Awaited, Fleet!listVars
    <2>6. BarTypes'
      BY <2>1, <2>2, <2>3, <2>4 DEF BarTypes, ListTypes
    <2> QED BY <2>4, <2>5, <2>6, SameList, SameModal DEF Fleet!SelectedIsShown
  <1>3. ASSUME NEW c \in changes, Fleet!Applied(c) PROVE FleetInv' /\ Fleet!SelectedIsShown
    <2>1. Fleet!Ask(FALSE, TRUE)
      BY <1>3 DEF Fleet!Applied
    <2>2. changes # {} /\ busy = TRUE /\ \A s \in Fleet!Searches : ~Awaited(s)
      BY DEF OneAtATime
    <2>3. /\ searches' \in [Fleet!Searches -> Search] /\ listing' = TRUE
          /\ \A s, t \in Fleet!Searches : Awaited(s)' /\ Awaited(t)' => s = t
      BY <2>1, <2>2, Asking
    <2>4. changes' = {} /\ busy' = TRUE
      BY <1>3, <2>2 DEF Fleet!Applied, OneAtATime
    <2>5. OneAtATime'
      BY <2>3, <2>4 DEF OneAtATime
    <2>6. ListTypes'
      BY <1>3, <2>3 DEF Fleet!Applied, ListTypes
    <2>7. PICK still \in BOOLEAN : still = (target /\ c.kind # "move")
      OBVIOUS
    <2>8. target' = still
      BY <1>3, <2>7 DEF Fleet!Applied
    <2>9. BarTypes'
      BY <1>3, <2>4, <2>8 DEF Fleet!Applied, BarTypes
    <2> QED BY <1>3, <2>5, <2>6, <2>9, SameModal DEF Fleet!Applied, Fleet!SelectedIsShown
  <1>4. ASSUME NEW c \in changes, Fleet!ApplyFails(c) PROVE FleetInv' /\ Fleet!SelectedIsShown
    <2>1. changes' = {} /\ busy' = FALSE /\ UNCHANGED <<searches, selected, modal, bulks>>
      BY <1>4 DEF Fleet!ApplyFails, OneAtATime
    <2>2. \A s \in Fleet!Searches : ~Awaited(s)
      BY DEF OneAtATime
    <2>3. OneAtATime'
      BY <2>1, <2>2 DEF OneAtATime, Awaited
    <2>4. ListTypes'
      BY <1>4 DEF Fleet!ApplyFails, ListTypes
    <2>5. used' \in [steps : Nat, faults : Nat]
      BY <1>4, UsedTypes DEF Fleet!ApplyFails
    <2>6. BarTypes'
      BY <1>4, <2>1, <2>5 DEF Fleet!ApplyFails, BarTypes
    <2> QED BY <2>1, <2>3, <2>4, <2>6, SameModal DEF Fleet!SelectedIsShown
  <1> QED BY <1>1, <1>2, <1>3, <1>4

\* The modal of bulk actions and its requests.
LEMMA BulkStep ==
  ASSUME FleetInv,
         \/ Fleet!FillForm \/ Fleet!Back \/ Fleet!AppsListed \/ Fleet!runForm \/ Fleet!switchMode \/ Fleet!applyKiosk
         \/ Fleet!CloseActions
         \/ \E t \in Fleet!BulkTemplates : Fleet!onPick(t)
         \/ \E x \in {"apps", "kiosk"} : Fleet!GoTo(x)
         \/ \E a \in LibraryApps : Fleet!runInstall(a) \/ Fleet!togglePkg(a)
         \/ \E b \in bulks : Fleet!queueCommandBulk(b) \/ Fleet!BulkFails(b)
  PROVE  FleetInv' /\ Fleet!SelectedIsShown
  <1> USE DEF FleetInv
  <1>1. /\ UNCHANGED <<Fleet!listVars, target, busy, changes>> /\ selected' \subseteq selected
        /\ opened' \in {opened, "none"}
    BY DEF Fleet!FillForm, Fleet!Back, Fleet!AppsListed, Fleet!runForm, Fleet!switchMode, Fleet!applyKiosk,
           Fleet!CloseActions, Fleet!onPick, Fleet!GoTo, Fleet!runInstall, Fleet!togglePkg, Fleet!queueCommandBulk,
           Fleet!BulkFails, Fleet!InModal, Fleet!BulkSend
  <1>2. used' \in [steps : Nat, faults : Nat]
    BY UsedTypes
       DEF Fleet!FillForm, Fleet!Back, Fleet!AppsListed, Fleet!runForm, Fleet!switchMode, Fleet!applyKiosk,
           Fleet!CloseActions, Fleet!onPick, Fleet!GoTo, Fleet!runInstall, Fleet!togglePkg, Fleet!queueCommandBulk,
           Fleet!BulkFails
  <1>3. ListTypes' /\ OneAtATime' /\ BarTypes' /\ Fleet!SelectedIsShown
    <2>1. ListTypes'
      BY <1>1 DEF ListTypes, Fleet!listVars
    <2>2. OneAtATime'
      BY <1>1, SameChanges DEF Fleet!listVars
    <2>3. BarTypes'
      BY <1>1, <1>2 DEF BarTypes
    <2> QED BY <1>1, <2>1, <2>2, <2>3 DEF Fleet!SelectedIsShown
  <1> SUFFICES ModalInv'
    BY <1>3
  <1>4. CASE Fleet!FillForm
    BY <1>4 DEF Fleet!FillForm, Fleet!InModal, ModalInv, Modal
  <1>5. CASE Fleet!Back
    <2>1. modal' \in Modal /\ modal'.single = modal.single /\ modal'.picked = modal.picked
      BY <1>5 DEF Fleet!Back, ModalInv, Modal
    <2>2. ASSUME NEW x \in bulks' PROVE x \in Bulk
      <3>1. PICK b \in bulks : x = [b EXCEPT !.mine = @ /\ (modal.screen = "kiosk" => b.kind # "kiosk")]
        BY <1>5, <2>2 DEF Fleet!Back
      <3>2. PICK mine \in BOOLEAN : mine = (b.mine /\ (modal.screen = "kiosk" => b.kind # "kiosk"))
        OBVIOUS
      <3>3. x = [b EXCEPT !.mine = mine]
        BY <3>1, <3>2, Zenon
      <3> QED BY <3>3 DEF ModalInv, Bulk
    <2> QED BY <2>1, <2>2 DEF ModalInv
  <1>6. CASE Fleet!AppsListed
    BY <1>6 DEF Fleet!AppsListed, Fleet!InModal, ModalInv, Modal
  <1>7. CASE Fleet!runForm
    BY <1>7, BulkSending DEF Fleet!runForm
  <1>8. CASE Fleet!switchMode
    <2>1. CASE modal.single \/ modal.picked = {}
      <3>1. PICK single \in BOOLEAN : single = ~modal.single
        OBVIOUS
      <3>2. modal' = [modal EXCEPT !.single = single] /\ UNCHANGED bulks
        BY <1>8, <2>1, <3>1 DEF Fleet!switchMode, Fleet!InModal
      <3>3. modal' \in Modal /\ modal'.single = single /\ modal'.picked = modal.picked
        BY <3>2 DEF ModalInv, Modal
      <3>4. single = TRUE => modal.picked = {}
        BY <2>1, <3>1
      <3> QED BY <3>2, <3>3, <3>4 DEF ModalInv
    <2>2. CASE ~(modal.single \/ modal.picked = {})
      <3>1. PICK first \in modal.picked : modal' = [modal EXCEPT !.single = TRUE, !.picked = {first}] /\ UNCHANGED bulks
        BY <1>8, <2>2 DEF Fleet!switchMode, Fleet!InModal
      <3> QED BY <3>1 DEF ModalInv, Modal
    <2> QED BY <2>1, <2>2
  <1>9. CASE Fleet!applyKiosk
    <2>1. modal.picked \in SUBSET LibraryApps
      BY DEF ModalInv, Modal
    <2> QED BY <1>9, <2>1, BulkSending DEF Fleet!applyKiosk
  <1>10. CASE Fleet!CloseActions
    BY <1>10, NoModalIsModal, Orphaned DEF Fleet!CloseActions, ModalInv
  <1>11. ASSUME NEW t \in Fleet!BulkTemplates, Fleet!onPick(t) PROVE ModalInv'
    <2>1. t \in {"safe", "form"}
      BY <1>11 DEF Fleet!onPick, Fleet!bulkable, Fleet!BulkTemplates
    <2>2. CASE t = "form"
      BY <1>11, <2>2 DEF Fleet!onPick, Fleet!InModal, ModalInv, Modal
    <2>3. CASE t # "form"
      BY <1>11, <2>1, <2>3, BulkSending DEF Fleet!onPick
    <2> QED BY <2>2, <2>3
  <1>12. ASSUME NEW x \in {"apps", "kiosk"}, Fleet!GoTo(x) PROVE ModalInv'
    <2>1. PICK still \in BOOLEAN : still = (modal.apps /\ x = "apps")
      OBVIOUS
    <2>2. modal' = [modal EXCEPT !.screen = x, !.single = FALSE, !.picked = {}, !.picking = FALSE, !.apps = still]
          /\ UNCHANGED bulks
      BY <1>12, <2>1 DEF Fleet!GoTo, Fleet!InModal
    <2> QED BY <2>2 DEF ModalInv, Modal
  <1>13. ASSUME NEW a \in LibraryApps, Fleet!runInstall(a) PROVE ModalInv'
    BY <1>13, BulkSending DEF Fleet!runInstall
  <1>14. ASSUME NEW a \in LibraryApps, Fleet!togglePkg(a) PROVE ModalInv'
    <2>1. PICK chosen : chosen = IF modal.single THEN IF a \in modal.picked THEN {} ELSE {a}
                                 ELSE IF a \in modal.picked THEN modal.picked \ {a} ELSE modal.picked \cup {a}
      OBVIOUS
    <2>2. chosen \subseteq LibraryApps /\ (modal.single => \A x, y \in chosen : x = y)
      BY <2>1 DEF ModalInv, Modal
    <2>3. modal' = [modal EXCEPT !.picked = chosen] /\ UNCHANGED bulks
      BY <1>14, <2>1 DEF Fleet!togglePkg, Fleet!InModal
    <2>4. modal' \in Modal /\ modal'.single = modal.single /\ modal'.picked = chosen
      BY <2>2, <2>3 DEF ModalInv, Modal
    <2> QED BY <2>2, <2>3, <2>4 DEF ModalInv
  <1>15. ASSUME NEW b \in bulks, Fleet!queueCommandBulk(b) PROVE ModalInv'
    <2>1. {[x EXCEPT !.mine = FALSE] : x \in bulks \ {b}} \subseteq Bulk
      BY Orphaned DEF ModalInv
    <2> QED BY <1>15, <2>1, NoModalIsModal DEF Fleet!queueCommandBulk, ModalInv
  <1>16. ASSUME NEW b \in bulks, Fleet!BulkFails(b) PROVE ModalInv'
    <2>1. modal' \in {modal, [modal EXCEPT !.picking = FALSE], [modal EXCEPT !.busy = FALSE]} /\ bulks' \subseteq bulks
      BY <1>16 DEF Fleet!BulkFails
    <2>2. modal' \in Modal /\ modal'.single = modal.single /\ modal'.picked = modal.picked
      BY <2>1 DEF ModalInv, Modal
    <2> QED BY <2>1, <2>2 DEF ModalInv
  <1> QED BY <1>4, <1>5, <1>6, <1>7, <1>8, <1>9, <1>10, <1>11, <1>12, <1>13, <1>14, <1>15, <1>16

LEMMA FleetHolds ==
  Spec => [](page = "fleet" => FleetInv) /\ [][page = "fleet" => Fleet!SelectedIsShown]_vars
  <1>1. Init => (page = "fleet" => FleetInv)
    BY FleetStart DEF Init
  <1>2. (page = "fleet" => FleetInv) /\ [Next]_vars
        => (page = "fleet" => FleetInv)' /\ [page = "fleet" => Fleet!SelectedIsShown]_vars
    <2> SUFFICES ASSUME page = "fleet", FleetInv, [Next]_vars
                 PROVE  FleetInv' /\ (Fleet!SelectedIsShown \/ UNCHANGED vars)
      BY PageStays
    <2>1. CASE Fleet!FleetNext
      BY <2>1, SelectionStep, ListStep, ChangeStep, BulkStep DEF Fleet!FleetNext
    <2>2. CASE UNCHANGED varsFleet
      BY <2>2, SameModal, SameChanges
         DEF varsFleet, FleetInv, ListTypes, BarTypes, Fleet!SelectedIsShown
    <2> QED BY <2>1, <2>2, FleetSteps
  <1> QED BY <1>1, <1>2, PTL DEF Spec

-----------------------------------------------------------------------------
(* The library and the deploy dialog. *)

Nowhere == Deploy!Nothing
Form == [pkg : Deploy!AllApps \cup {Nowhere, "typed"}, url : Deploy!AllApps \cup {Nowhere, "typed"},
         bundle : Bundles \cup {Nowhere}, saved : Deploy!AllApps \cup {Nowhere}]
Upload == [file : Deploy!Files, step : {"upload", "commit", "save"}]
Push == [st : {"idle", "going", "ended"}, subject : Deploy!Subject \cup {Deploy!NoSubject},
         left : SUBSET Targets, mounted : BOOLEAN]
Assignment == [st : {"idle", "read", "post"}, app : Deploy!AllApps \cup {Nowhere}, config : Templates \cup {Nowhere},
               read : [Templates -> Deploy!LinkActions], renewed : SUBSET Templates,
               overtaken : SUBSET Templates, mounted : BOOLEAN]

LibraryTypes ==
    /\ inLibrary \subseteq Deploy!AllApps /\ apps \subseteq Deploy!AllApps /\ resolving \subseteq Deploy!AllApps
    /\ source \in Deploy!Sources

\* Links that were read are those of the server, but for rows written since.
LinksInv ==
    /\ links \in [Deploy!AllApps -> [Templates -> Deploy!LinkActions]] /\ assign \in Assignment
    /\ assign.st # "idle" => assign.app \in Deploy!AllApps /\ assign.config \in Templates
    /\ assign.st = "post" =>
            \A c \in Templates \ (assign.renewed \cup assign.overtaken) : assign.read[c] = links[assign.app][c]

FormTypes == form \in Form /\ uploads \subseteq Upload /\ adding \in Deploy!AllApps \cup {Nowhere}

DialogInv ==
    /\ deploy \in Deploy!Subject \cup {Deploy!NoSubject} /\ picked \subseteq Targets
    /\ tab \in {"device", "config"} /\ config \in Templates \cup {Nowhere}

PushInv == pushes \in [Deploy!Press -> Push]

\* Every query was typed.
QueryInv ==
    /\ spent \in [clicks : 0..MaxClicks, faults : Nat, replacements : Nat]
    /\ query \in 0..spent.clicks /\ asked \subseteq 0..MaxClicks /\ results \in -1..MaxClicks

DeployInv == LibraryTypes /\ LinksInv /\ FormTypes /\ DialogInv /\ PushInv /\ QueryInv
DeploySteps == Deploy!ResultsOfQuery /\ Deploy!AssignLeavesActive

LEMMA DeployMoves ==
  ASSUME page = "apps", [Next]_vars
  PROVE  Deploy!DeployNext \/ UNCHANGED varsDeploy
  BY DEF Next, vars, varsDeploy

LEMMA EmptyFormIsForm == Deploy!EmptyForm \in Form
  BY DEF Deploy!EmptyForm, Form, Nowhere

LEMMA NoPushIsPush == Deploy!NoPush \in Push
  BY DEF Deploy!NoPush, Push

LEMMA NoAssignIsAssignment == Deploy!NoAssign \in Assignment /\ Deploy!NoAssign.st = "idle"
  BY DEF Deploy!NoAssign, Assignment, Deploy!LinkActions, Nowhere

LEMMA DeployMeans == DeployInv => Deploy!DeployTypeOK
  <1> SUFFICES ASSUME DeployInv PROVE Deploy!DeployTypeOK
    OBVIOUS
  <1>1. query \in 0..MaxClicks
    BY ConsoleAssumption DEF DeployInv, QueryInv
  <1> QED BY <1>1 DEF DeployInv, LibraryTypes, LinksInv, FormTypes, DialogInv, QueryInv, Upload, Nowhere,
                      Deploy!DeployTypeOK

LEMMA DeployStart == Deploy!DeployInit => DeployInv
  <1> SUFFICES ASSUME Deploy!DeployInit PROVE DeployInv
    OBVIOUS
  <1>1. LibraryTypes /\ QueryInv
    BY ConsoleAssumption DEF Deploy!DeployInit, LibraryTypes, QueryInv, Deploy!AllApps, Deploy!Sources
  <1>2. LinksInv
    BY NoAssignIsAssignment DEF Deploy!DeployInit, LinksInv
  <1>3. FormTypes
    BY EmptyFormIsForm DEF Deploy!DeployInit, FormTypes, Nowhere
  <1>4. DialogInv
    BY DEF Deploy!DeployInit, DialogInv, Nowhere
  <1>5. PushInv
    BY NoPushIsPush DEF Deploy!DeployInit, PushInv
  <1> QED BY <1>1, <1>2, <1>3, <1>4, <1>5 DEF DeployInv

LEMMA SameLibrary ==
  ASSUME LibraryTypes, UNCHANGED <<inLibrary, apps, resolving, source>>
  PROVE  LibraryTypes'
  BY DEF LibraryTypes

LEMMA SameLinks ==
  ASSUME LinksInv, UNCHANGED <<links, assign>>
  PROVE  LinksInv' /\ Deploy!AssignLeavesActive
  BY DEF LinksInv, Deploy!AssignLeavesActive, Deploy!AssignLeaves

\* A dialog that goes takes the assignment off the screen, not off its way.
LEMMA SameButGone ==
  ASSUME LinksInv, UNCHANGED links, Deploy!AssignGone
  PROVE  LinksInv' /\ Deploy!AssignLeavesActive
  <1>1. PICK x \in Assignment : x = assign
    BY DEF LinksInv
  <1>2. assign' = [x EXCEPT !.mounted = FALSE]
    BY <1>1 DEF Deploy!AssignGone
  <1>3. /\ assign' \in Assignment /\ assign'.st = assign.st /\ assign'.app = assign.app
        /\ assign'.config = assign.config /\ assign'.read = assign.read
        /\ assign'.renewed = assign.renewed /\ assign'.overtaken = assign.overtaken
    BY <1>1, <1>2 DEF Assignment
  <1> QED BY <1>3 DEF LinksInv, Deploy!AssignLeavesActive, Deploy!AssignLeaves

LEMMA SameForm ==
  ASSUME FormTypes, UNCHANGED Deploy!formVars
  PROVE  FormTypes'
  BY DEF FormTypes, Deploy!formVars

LEMMA SameDialog ==
  ASSUME DialogInv, UNCHANGED <<deploy, picked, tab, config>>
  PROVE  DialogInv'
  BY DEF DialogInv

LEMMA SamePush ==
  ASSUME PushInv, UNCHANGED pushes
  PROVE  PushInv'
  BY DEF PushInv

LEMMA Spending ==
  ASSUME QueryInv, Deploy!Click \/ Deploy!AppFault \/ UNCHANGED spent
  PROVE  spent' \in [clicks : 0..MaxClicks, faults : Nat, replacements : Nat] /\ spent'.clicks >= spent.clicks
  BY ConsoleAssumption DEF QueryInv, Deploy!Click, Deploy!AppFault

LEMMA SameQuery ==
  ASSUME QueryInv, Deploy!Click \/ Deploy!AppFault \/ UNCHANGED spent, UNCHANGED Deploy!fdroidVars
  PROVE  QueryInv' /\ Deploy!ResultsOfQuery
  <1>1. spent' \in [clicks : 0..MaxClicks, faults : Nat, replacements : Nat] /\ spent'.clicks >= spent.clicks
    BY Spending
  <1> QED BY <1>1, ConsoleAssumption DEF QueryInv, Deploy!fdroidVars, Deploy!ResultsOfQuery

LEMMA Closing ==
  ASSUME Deploy!Close
  PROVE  DialogInv'
  BY DEF Deploy!Close, DialogInv, Nowhere

LEMMA Showing ==
  ASSUME DialogInv, PushInv, NEW s \in Deploy!Subject, Deploy!Show(s)
  PROVE  DialogInv' /\ PushInv' /\ UNCHANGED assign
  BY SamePush DEF DialogInv, Deploy!Show, Nowhere

\* A dialog that goes takes its pushes off the screen, not off their way.
LEMMA PushesLeft ==
  ASSUME NEW ps \in [Deploy!Press -> Push], pushes' = Deploy!Gone(ps)
  PROVE  PushInv'
  <1>1. ASSUME NEW n \in Deploy!Press PROVE pushes'[n] \in Push
    <2>1. PICK p \in Push : p = ps[n]
      OBVIOUS
    <2>2. pushes'[n] = [p EXCEPT !.mounted = FALSE]
      BY <2>1 DEF Deploy!Gone
    <2> QED BY <2>1, <2>2 DEF Push
  <1>2. pushes' = [n \in Deploy!Press |-> pushes'[n]]
    BY DEF Deploy!Gone
  <1> QED BY <1>1, <1>2 DEF PushInv

\* The tabs of the page, its library and its F-Droid search.
LEMMA TabStep ==
  ASSUME DeployInv,
         \/ Deploy!LibraryLoad \/ Deploy!setQ \/ Deploy!Debounced
         \/ \E s \in Deploy!Sources : Deploy!setSource(s)
         \/ \E a \in Deploy!AllApps : Deploy!doDelete(a) \/ Deploy!onDeploy(a)
         \/ \E a \in Named : Deploy!PackageNameSource(a)
         \/ \E k \in asked : Deploy!searchFdroid(k)
  PROVE  DeployInv' /\ DeploySteps
  <1> USE DEF DeployInv, DeploySteps
  <1>1. UNCHANGED <<links, deploy, picked, tab, config, pushes, assign, installs>>
    BY DEF Deploy!LibraryLoad, Deploy!setQ, Deploy!Debounced, Deploy!setSource, Deploy!doDelete, Deploy!onDeploy,
           Deploy!PackageNameSource, Deploy!searchFdroid, Deploy!dialogVars
  <1>2. LinksInv' /\ DialogInv' /\ PushInv' /\ Deploy!AssignLeavesActive
    BY <1>1, SameLinks, SameDialog, SamePush
  <1>3. Deploy!Click \/ UNCHANGED spent
    BY DEF Deploy!LibraryLoad, Deploy!setQ, Deploy!Debounced, Deploy!setSource, Deploy!doDelete, Deploy!onDeploy,
           Deploy!PackageNameSource, Deploy!searchFdroid
  <1>4. spent' \in [clicks : 0..MaxClicks, faults : Nat, replacements : Nat] /\ spent'.clicks >= spent.clicks
    BY <1>3, Spending
  <1>5. Named \subseteq Deploy!AllApps
    BY DEF Deploy!AllApps
  <1>6. CASE Deploy!LibraryLoad
    <2>1. LibraryTypes'
      BY <1>6 DEF Deploy!LibraryLoad, LibraryTypes
    <2> QED BY <1>2, <1>3, <1>6, <2>1, SameForm, SameQuery DEF Deploy!LibraryLoad
  <1>7. CASE Deploy!setQ
    <2>1. query' \in 0..spent'.clicks
      BY <1>7, ConsoleAssumption DEF Deploy!setQ, Deploy!Click, QueryInv
    <2>2. QueryInv' /\ Deploy!ResultsOfQuery
      BY <1>4, <1>7, <2>1 DEF Deploy!setQ, QueryInv, Deploy!ResultsOfQuery
    <2> QED BY <1>2, <1>7, <2>2, SameForm, SameLibrary DEF Deploy!setQ
  <1>8. CASE Deploy!Debounced
    <2>1. QueryInv' /\ Deploy!ResultsOfQuery
      BY <1>8, ConsoleAssumption DEF Deploy!Debounced, QueryInv, Deploy!ResultsOfQuery
    <2> QED BY <1>2, <1>8, <2>1, SameForm, SameLibrary DEF Deploy!Debounced
  <1>9. ASSUME NEW s \in Deploy!Sources, Deploy!setSource(s) PROVE DeployInv' /\ DeploySteps
    <2>1. FormTypes'
      BY <1>9, EmptyFormIsForm DEF Deploy!setSource, FormTypes, Nowhere
    <2>2. QueryInv' /\ Deploy!ResultsOfQuery
      BY <1>4, <1>9, ConsoleAssumption DEF Deploy!setSource, QueryInv, Deploy!ResultsOfQuery
    <2> QED BY <1>2, <1>9, <2>1, <2>2 DEF Deploy!setSource, LibraryTypes
  <1>10. ASSUME NEW a \in Deploy!AllApps, Deploy!doDelete(a) \/ Deploy!onDeploy(a) PROVE DeployInv' /\ DeploySteps
    <2>1. LibraryTypes'
      BY <1>10 DEF Deploy!doDelete, Deploy!onDeploy, LibraryTypes
    <2>2. UNCHANGED <<Deploy!formVars, Deploy!fdroidVars>>
      BY <1>10 DEF Deploy!doDelete, Deploy!onDeploy
    <2> QED BY <1>2, <1>3, <2>1, <2>2, SameForm, SameQuery
  <1>11. ASSUME NEW a \in Named, Deploy!PackageNameSource(a) PROVE DeployInv' /\ DeploySteps
    <2>1. LibraryTypes'
      BY <1>5, <1>11 DEF Deploy!PackageNameSource, LibraryTypes
    <2> QED BY <1>2, <1>3, <1>11, <2>1, SameForm, SameQuery DEF Deploy!PackageNameSource
  <1>12. ASSUME NEW k \in asked, Deploy!searchFdroid(k) PROVE DeployInv' /\ DeploySteps
    <2>1. QueryInv' /\ Deploy!ResultsOfQuery
      BY <1>12 DEF Deploy!searchFdroid, Deploy!ShowsCurrent, QueryInv, Deploy!ResultsOfQuery
    <2> QED BY <1>2, <1>12, <2>1, SameForm, SameLibrary DEF Deploy!searchFdroid
  <1> QED BY <1>6, <1>7, <1>8, <1>9, <1>10, <1>11, <1>12

\* A file is handled step by step, or the fields are filled and added by hand.
LEMMA FormTypesStep ==
  ASSUME DeployInv,
         \/ Deploy!TypeField \/ Deploy!saveToLibrary \/ Deploy!Added
         \/ \E f \in Deploy!Files : Deploy!onFile(f)
         \/ \E u \in uploads : Deploy!uploadApk(u) \/ Deploy!commitUpload(u) \/ Deploy!onBundle(u) \/ Deploy!AutoAdd(u)
  PROVE  FormTypes' /\ inLibrary' \subseteq Deploy!AllApps
  <1> USE DEF DeployInv
  <1>1. form \in Form /\ uploads \subseteq Upload /\ adding \in Deploy!AllApps \cup {Nowhere}
        /\ inLibrary \subseteq Deploy!AllApps
    BY DEF FormTypes, LibraryTypes
  <1>2. Apks \subseteq Deploy!AllApps /\ Bundles \subseteq Deploy!AllApps /\ Deploy!Files \subseteq Deploy!AllApps
        /\ Deploy!Files = Apks \cup Bundles
    BY DEF Deploy!AllApps, Deploy!Files
  <1>3. CASE Deploy!TypeField
    BY <1>1, <1>3 DEF Deploy!TypeField, FormTypes, Form
  <1>4. CASE Deploy!saveToLibrary
    BY <1>1, <1>4 DEF Deploy!saveToLibrary, FormTypes, Form, Nowhere
  <1>5. CASE Deploy!Added
    BY <1>1, <1>5 DEF Deploy!Added, FormTypes, Form, Nowhere
  <1>6. ASSUME NEW f \in Deploy!Files, Deploy!onFile(f) PROVE FormTypes' /\ inLibrary' \subseteq Deploy!AllApps
    <2>1. [file |-> f, step |-> "upload"] \in Upload
      BY DEF Upload
    <2>2. PICK kept : kept = IF f \in Bundles THEN form.bundle ELSE Deploy!Nothing
      OBVIOUS
    <2>3. form' = [form EXCEPT !.saved = Deploy!Nothing, !.bundle = kept]
      BY <1>1, <1>6, <2>2 DEF Deploy!onFile, Deploy!ForgetsFile, Form
    <2>4. form' \in Form
      BY <1>1, <2>2, <2>3 DEF Form, Nowhere
    <2> QED BY <1>1, <1>6, <2>1, <2>4 DEF Deploy!onFile, FormTypes
  <1>7. ASSUME NEW u \in uploads
        PROVE  u.file \in Deploy!Files /\ \A step \in {"commit", "save"} : [u EXCEPT !.step = step] \in Upload
    BY <1>1 DEF Upload
  <1>8. ASSUME NEW u \in uploads, Deploy!uploadApk(u) PROVE FormTypes' /\ inLibrary' \subseteq Deploy!AllApps
    BY <1>1, <1>2, <1>7, <1>8 DEF Deploy!uploadApk, Deploy!Advance, Deploy!UploadEnds, FormTypes, Form
  <1>9. ASSUME NEW u \in uploads, Deploy!commitUpload(u) PROVE FormTypes' /\ inLibrary' \subseteq Deploy!AllApps
    BY <1>1, <1>2, <1>7, <1>9 DEF Deploy!commitUpload, Deploy!Advance, Deploy!UploadEnds, FormTypes, Form
  <1>10. ASSUME NEW u \in uploads, Deploy!onBundle(u) PROVE FormTypes' /\ inLibrary' \subseteq Deploy!AllApps
    BY <1>1, <1>2, <1>7, <1>10
       DEF Deploy!onBundle, Deploy!BundleFields, Deploy!Advance, Deploy!UploadEnds, FormTypes, Form, Nowhere
  <1>11. ASSUME NEW u \in uploads, Deploy!AutoAdd(u) PROVE FormTypes' /\ inLibrary' \subseteq Deploy!AllApps
    BY <1>1, <1>2, <1>7, <1>11 DEF Deploy!AutoAdd, Deploy!UploadEnds, FormTypes, Form
  <1> QED BY <1>3, <1>4, <1>5, <1>6, <1>8, <1>9, <1>10, <1>11

LEMMA FormStep ==
  ASSUME DeployInv,
         \/ Deploy!TypeField \/ Deploy!saveToLibrary \/ Deploy!Added
         \/ \E f \in Deploy!Files : Deploy!onFile(f)
         \/ \E u \in uploads : Deploy!uploadApk(u) \/ Deploy!commitUpload(u) \/ Deploy!onBundle(u) \/ Deploy!AutoAdd(u)
  PROVE  DeployInv' /\ DeploySteps
  <1>1. FormTypes' /\ inLibrary' \subseteq Deploy!AllApps
    BY FormTypesStep
  <1>2. /\ UNCHANGED <<links, apps, source, resolving, deploy, picked, tab, config, pushes, assign, installs>>
        /\ UNCHANGED Deploy!fdroidVars /\ (Deploy!Click \/ Deploy!AppFault \/ UNCHANGED spent)
    BY DEF Deploy!TypeField, Deploy!saveToLibrary, Deploy!Added, Deploy!onFile, Deploy!uploadApk, Deploy!commitUpload,
           Deploy!onBundle, Deploy!AutoAdd, Deploy!dialogVars
  <1>3. LibraryTypes'
    BY <1>1, <1>2 DEF DeployInv, LibraryTypes
  <1> QED BY <1>1, <1>2, <1>3, SameLinks, SameDialog, SamePush, SameQuery DEF DeployInv, DeploySteps

\* What a tab opens the dialog with.
LEMMA OpenStep ==
  ASSUME DeployInv,
         Deploy!submit \/ Deploy!deployFdroid \/ \E a \in Deploy!AllApps : Deploy!resolveApp(a)
  PROVE  DeployInv' /\ DeploySteps
  <1> USE DEF DeployInv
  <1>1. /\ UNCHANGED <<inLibrary, links, apps, source>> /\ UNCHANGED Deploy!formVars /\ UNCHANGED Deploy!fdroidVars
        /\ (Deploy!Click \/ Deploy!AppFault \/ UNCHANGED spent)
    BY DEF Deploy!submit, Deploy!deployFdroid, Deploy!resolveApp
  <1>2. FormTypes' /\ QueryInv' /\ Deploy!ResultsOfQuery
    BY <1>1, SameForm, SameQuery
  <1>3. LibraryTypes'
    BY <1>1 DEF LibraryTypes, Deploy!submit, Deploy!deployFdroid, Deploy!resolveApp
  <1>4. DialogInv' /\ PushInv' /\ UNCHANGED assign
    <2>1. CASE Deploy!submit
      <3>1. PICK s : /\ Deploy!Show(s)
                     /\ \/ /\ form.bundle # Nowhere
                           /\ s = [pkg |-> form.pkg, url |-> Nowhere, parts |-> form.bundle, app |-> Nowhere]
                        \/ /\ form.bundle = Nowhere /\ form.url # Nowhere
                           /\ s = [pkg |-> form.pkg, url |-> form.url, parts |-> Nowhere, app |-> form.saved]
        BY <2>1, Zenon DEF Deploy!submit, Nowhere
      <3>2. form \in Form /\ form.pkg # Nowhere
        BY <2>1 DEF FormTypes, Deploy!submit, Nowhere
      <3>3. s \in Deploy!Subject
        BY <3>1, <3>2 DEF Form, Deploy!Subject, Nowhere
      <3> QED BY <3>1, <3>3, Showing
    <2>2. CASE Deploy!deployFdroid
      <3>1. PICK s : s = [pkg |-> "fdroid", url |-> "fdroid", parts |-> Nowhere, app |-> Nowhere]
        OBVIOUS
      <3>2. s \in Deploy!Subject
        BY <3>1 DEF Deploy!Subject, Nowhere
      <3>3. Deploy!Show(s)
        BY <2>2, <3>1, Zenon DEF Deploy!deployFdroid, Nowhere
      <3> QED BY <3>2, <3>3, Showing
    <2>3. ASSUME NEW a \in Deploy!AllApps, Deploy!resolveApp(a) PROVE DialogInv' /\ PushInv' /\ UNCHANGED assign
      <3>1. PICK s : s = [pkg |-> a, url |-> IF a \in Bundles THEN Deploy!Nothing ELSE a,
                          parts |-> IF a \in Bundles THEN a ELSE Deploy!Nothing, app |-> a]
        OBVIOUS
      <3>2. Deploy!Show(s) \/ UNCHANGED Deploy!dialogVars
        BY <2>3, <3>1, Zenon DEF Deploy!resolveApp
      <3>3. s \in Deploy!Subject
        BY <3>1 DEF Deploy!Subject
      <3> QED BY <3>2, <3>3, Showing, SameDialog, SamePush DEF Deploy!dialogVars
    <2> QED BY <2>1, <2>2, <2>3
  <1> QED BY <1>1, <1>2, <1>3, <1>4, SameLinks DEF DeploySteps

\* What is chosen in the dialog, and its end.
LEMMA DialogStep ==
  ASSUME DeployInv,
         \/ Deploy!onClose
         \/ \E d \in Targets : Deploy!toggle(d)
         \/ \E c \in Templates : Deploy!chooseConfig(c)
  PROVE  DeployInv' /\ DeploySteps
  <1> USE DEF DeployInv
  <1>1. /\ UNCHANGED <<inLibrary, links, apps, source, resolving, installs>>
        /\ UNCHANGED Deploy!formVars /\ UNCHANGED Deploy!fdroidVars /\ Deploy!Click
    BY DEF Deploy!onClose, Deploy!toggle, Deploy!chooseConfig
  <1>2. FormTypes' /\ QueryInv' /\ Deploy!ResultsOfQuery /\ LibraryTypes' /\ LinksInv' /\ Deploy!AssignLeavesActive
    <2>1. UNCHANGED assign \/ Deploy!AssignGone
      BY DEF Deploy!onClose, Deploy!toggle, Deploy!chooseConfig
    <2> QED BY <1>1, <2>1, SameForm, SameQuery, SameLibrary, SameLinks, SameButGone
  <1>3. DialogInv' /\ PushInv'
    <2>1. CASE Deploy!onClose
      <3>1. PushInv'
        BY <1>1, <2>1, PushesLeft DEF PushInv, Deploy!onClose
      <3> QED BY <2>1, <3>1, Closing DEF Deploy!onClose
    <2>2. ASSUME NEW d \in Targets, Deploy!toggle(d) PROVE DialogInv' /\ PushInv'
      BY <1>1, <2>2, SamePush DEF Deploy!toggle, DialogInv
    <2>3. ASSUME NEW c \in Templates, Deploy!chooseConfig(c) PROVE DialogInv' /\ PushInv'
      BY <1>1, <2>3, SamePush DEF Deploy!chooseConfig, DialogInv
    <2> QED BY <2>1, <2>2, <2>3
  <1> QED BY <1>2, <1>3 DEF DeploySteps

\* A push is carried out one device after the other.
LEMMA PushStep ==
  ASSUME DeployInv, NEW n \in Deploy!Press,
         Deploy!pushNow(n) \/ Deploy!installApp(n) \/ Deploy!PushEnds(n)
  PROVE  DeployInv' /\ DeploySteps
  <1> USE DEF DeployInv
  <1>1. /\ UNCHANGED <<inLibrary, links, apps, source, resolving>>
        /\ UNCHANGED Deploy!formVars /\ UNCHANGED Deploy!fdroidVars
        /\ (Deploy!Click \/ Deploy!AppFault \/ UNCHANGED spent)
    BY DEF Deploy!pushNow, Deploy!installApp, Deploy!PushEnds
  <1>2. FormTypes' /\ QueryInv' /\ Deploy!ResultsOfQuery /\ LibraryTypes' /\ LinksInv' /\ Deploy!AssignLeavesActive
    <2>1. UNCHANGED assign \/ Deploy!AssignGone
      BY DEF Deploy!pushNow, Deploy!installApp, Deploy!PushEnds
    <2> QED BY <1>1, <2>1, SameForm, SameQuery, SameLibrary, SameLinks, SameButGone
  <1>3. PICK p \in Push : p = pushes[n]
    BY DEF PushInv
  <1>4. DialogInv' /\ PushInv'
    <2>1. CASE Deploy!pushNow(n)
      <3>1. PICK q : q = [st |-> "going", subject |-> deploy, left |-> picked, mounted |-> TRUE]
        OBVIOUS
      <3>2. q \in Push
        BY <3>1 DEF DialogInv, Push
      <3>3. pushes' = [pushes EXCEPT ![n] = q] /\ UNCHANGED <<deploy, picked, tab, config>>
        BY <2>1, <3>1 DEF Deploy!pushNow
      <3> QED BY <3>2, <3>3, SameDialog DEF PushInv
    <2>2. CASE Deploy!installApp(n)
      <3>1. PICK d \in p.left : pushes' = [pushes EXCEPT ![n].left = @ \ {d}]
        BY <1>3, <2>2 DEF Deploy!installApp
      <3>2. PICK q : q = [p EXCEPT !.left = p.left \ {d}]
        OBVIOUS
      <3>3. q \in Push
        BY <3>2 DEF Push
      <3>4. pushes' = [pushes EXCEPT ![n] = q]
        BY <1>3, <3>1, <3>2
      <3>5. UNCHANGED <<deploy, picked, tab, config>>
        BY <2>2 DEF Deploy!installApp
      <3> QED BY <3>3, <3>4, <3>5, SameDialog DEF PushInv
    <2>3. CASE Deploy!PushEnds(n)
      <3>1. PICK q : q = [p EXCEPT !.st = "ended"]
        OBVIOUS
      <3>2. q \in Push
        BY <3>1 DEF Push
      <3>3. PICK ps : ps = [pushes EXCEPT ![n] = q]
        OBVIOUS
      <3>4. pushes' = Deploy!Gone(ps)
        BY <1>3, <2>3, <3>1, <3>3 DEF Deploy!PushEnds
      <3>5. ps \in [Deploy!Press -> Push]
        BY <3>2, <3>3 DEF PushInv
      <3>6. PushInv'
        BY <3>4, <3>5, PushesLeft
      <3> QED BY <2>3, <3>6, Closing DEF Deploy!PushEnds
    <2> QED BY <2>1, <2>2, <2>3
  <1> QED BY <1>2, <1>4 DEF DeploySteps

\* An assignment under way posts the links it read, which the server matches row by row.
LEMMA AssignStep ==
  ASSUME DeployInv, Deploy!assignConfig \/ Deploy!getAppConfigLinks \/ Deploy!updateAppConfigLinks
  PROVE  DeployInv' /\ DeploySteps
  <1> USE DEF DeployInv
  <1>1. /\ UNCHANGED <<inLibrary, apps, source, resolving, installs>>
        /\ UNCHANGED Deploy!formVars /\ UNCHANGED Deploy!fdroidVars
        /\ (Deploy!Click \/ Deploy!AppFault \/ UNCHANGED spent)
    BY DEF Deploy!assignConfig, Deploy!getAppConfigLinks, Deploy!updateAppConfigLinks
  <1>2. FormTypes' /\ QueryInv' /\ Deploy!ResultsOfQuery /\ LibraryTypes'
    BY <1>1, SameForm, SameQuery, SameLibrary
  <1>3. DialogInv' /\ PushInv'
    <2>1. \/ UNCHANGED <<deploy, picked, tab, config, pushes>>
          \/ Deploy!Close /\ pushes' = Deploy!Gone(pushes)
      BY DEF Deploy!assignConfig, Deploy!getAppConfigLinks, Deploy!updateAppConfigLinks
    <2>2. CASE UNCHANGED <<deploy, picked, tab, config, pushes>>
      BY <1>1, <2>2, SameDialog, SamePush
    <2>3. CASE Deploy!Close /\ pushes' = Deploy!Gone(pushes)
      <3>1. PushInv'
        BY <1>1, <2>3, PushesLeft DEF PushInv
      <3> QED BY <2>3, <3>1, Closing
    <2> QED BY <2>1, <2>2, <2>3
  <1>4. links \in [Deploy!AllApps -> [Templates -> Deploy!LinkActions]] /\ assign \in Assignment
    BY DEF LinksInv
  <1>5. LinksInv' /\ Deploy!AssignLeavesActive
    <2>1. CASE Deploy!assignConfig
      <3>1. deploy.app \in Deploy!AllApps /\ config \in Templates /\ UNCHANGED links
        <4>1. deploy \in Deploy!Subject \/ deploy.app = Deploy!Nothing
          BY DEF DialogInv, Deploy!NoSubject
        <4> QED BY <2>1, <4>1 DEF Deploy!assignConfig, DialogInv, Deploy!Subject, Nowhere
      <3>2. assign'.st = "read" /\ assign'.app = deploy.app /\ assign'.config = config /\ assign' \in Assignment
        BY <2>1, <3>1, NoAssignIsAssignment DEF Deploy!assignConfig, Assignment
      <3> QED BY <1>4, <3>1, <3>2 DEF LinksInv, Deploy!AssignLeavesActive, Deploy!AssignLeaves
    <2>2. CASE Deploy!getAppConfigLinks
      <3>1. assign.st = "read" /\ assign.app \in Deploy!AllApps /\ UNCHANGED links
        BY <2>2 DEF Deploy!getAppConfigLinks, LinksInv
      <3>2. CASE assign' = Deploy!NoAssign
        BY <1>4, <3>1, <3>2, NoAssignIsAssignment DEF LinksInv, Deploy!AssignLeavesActive, Deploy!AssignLeaves
      <3>3. CASE assign' = [assign EXCEPT !.st = "post", !.read = links[assign.app]]
        <4>1. /\ assign' \in Assignment /\ assign'.st = "post" /\ assign'.app = assign.app
              /\ assign'.config = assign.config /\ assign'.read = links[assign.app]
          BY <1>4, <3>1, <3>3 DEF Assignment
        <4> QED BY <1>4, <3>1, <4>1 DEF LinksInv, Deploy!AssignLeavesActive, Deploy!AssignLeaves
      <3> QED BY <2>2, <3>2, <3>3 DEF Deploy!getAppConfigLinks
    <2>3. CASE Deploy!updateAppConfigLinks
      <3>1. /\ assign.st = "post" /\ assign' = Deploy!NoAssign /\ assign.app \in Deploy!AllApps
            /\ \A c \in Templates \ (assign.renewed \cup assign.overtaken) : assign.read[c] = links[assign.app][c]
        BY <2>3 DEF Deploy!updateAppConfigLinks, LinksInv
      <3>2. assign.read \in [Templates -> Deploy!LinkActions]
        BY <1>4 DEF Assignment
      <3>3. ASSUME NEW c \in Templates
            PROVE  /\ Deploy!Linked(assign.app, c) \in Deploy!LinkActions
                   /\ c # assign.config /\ c \notin assign.overtaken /\ links[assign.app][c] # "hide"
                        => Deploy!Linked(assign.app, c) = links[assign.app][c]
        <4>1. PICK sent \in Deploy!LinkActions :
                sent = Deploy!updated(assign.read, assign.config)[c] /\ (c # assign.config => sent = assign.read[c])
          BY <3>2 DEF Deploy!updated, Deploy!LinkActions
        <4>2. Deploy!Linked(assign.app, c) = IF assign.read[c] = "none" THEN IF sent = "none" THEN links[assign.app][c] ELSE sent
                                             ELSE IF c \in assign.renewed THEN links[assign.app][c]
                                             ELSE IF sent = "hide" THEN "none" ELSE sent
          BY <4>1, Zenon DEF Deploy!Linked
        <4>3. links[assign.app][c] \in Deploy!LinkActions
          BY <1>4, <3>1
        <4> QED BY <3>1, <4>1, <4>2, <4>3 DEF Deploy!LinkActions
      <3>4. CASE UNCHANGED links
        BY <1>4, <3>1, <3>4, NoAssignIsAssignment DEF LinksInv, Deploy!AssignLeavesActive, Deploy!AssignLeaves
      <3>5. CASE links' = [links EXCEPT ![assign.app] = [c \in Templates |-> Deploy!Linked(assign.app, c)]]
        <4>1. links' \in [Deploy!AllApps -> [Templates -> Deploy!LinkActions]]
          BY <1>4, <3>1, <3>3, <3>5
        <4>2. \A c \in Templates : links'[assign.app][c] = Deploy!Linked(assign.app, c)
          BY <1>4, <3>1, <3>5
        <4>3. LinksInv'
          BY <3>1, <4>1, NoAssignIsAssignment DEF LinksInv
        <4> QED BY <3>3, <4>2, <4>3 DEF Deploy!AssignLeavesActive, Deploy!AssignLeaves
      <3> QED BY <2>3, <3>4, <3>5 DEF Deploy!updateAppConfigLinks
    <2> QED BY <2>1, <2>2, <2>3
  <1> QED BY <1>2, <1>3, <1>5 DEF DeploySteps

\* Another admin saves a configuration: its rows are new ones, and the assignment knows it not.
LEMMA ReplacedStep ==
  ASSUME DeployInv, NEW c \in Templates, Deploy!ConfigReplaced(c)
  PROVE  DeployInv' /\ DeploySteps
  <1> USE DEF DeployInv
  <1>1. UNCHANGED <<inLibrary, apps, source, resolving, installs, deploy, picked, tab, config, pushes>>
        /\ UNCHANGED Deploy!formVars /\ UNCHANGED Deploy!fdroidVars
    BY DEF Deploy!ConfigReplaced
  <1>2. FormTypes' /\ LibraryTypes' /\ DialogInv' /\ PushInv'
    BY <1>1, SameForm, SameLibrary, SameDialog, SamePush
  <1>3. spent' \in [clicks : 0..MaxClicks, faults : Nat, replacements : Nat] /\ spent'.clicks = spent.clicks
    BY DEF Deploy!ConfigReplaced, QueryInv
  <1>4. QueryInv' /\ Deploy!ResultsOfQuery
    BY <1>1, <1>3 DEF QueryInv, Deploy!ResultsOfQuery, Deploy!fdroidVars
  <1>5. links \in [Deploy!AllApps -> [Templates -> Deploy!LinkActions]] /\ assign \in Assignment /\ assign.st # "idle"
    BY DEF LinksInv, Deploy!ConfigReplaced
  <1>6. PICK a \in Deploy!AllApps, to \in Deploy!LinkActions : links' = [links EXCEPT ![a][c] = to]
    BY DEF Deploy!ConfigReplaced, LibraryTypes
  <1>7. links' \in [Deploy!AllApps -> [Templates -> Deploy!LinkActions]]
        /\ \A b \in Deploy!AllApps, d \in Templates \ {c} : links'[b][d] = links[b][d]
    BY <1>5, <1>6
  <1>8. /\ assign' \in Assignment /\ assign'.st = assign.st /\ assign'.app = assign.app
        /\ assign'.config = assign.config /\ assign'.read = assign.read
        /\ assign.st = "post" => assign'.renewed = assign.renewed \cup {c} /\ assign'.overtaken = assign.overtaken \ {c}
    BY <1>5 DEF Deploy!ConfigReplaced, Assignment
  <1>9. LinksInv' /\ Deploy!AssignLeavesActive
    BY <1>5, <1>7, <1>8 DEF LinksInv, Deploy!AssignLeavesActive, Deploy!AssignLeaves
  <1> QED BY <1>2, <1>4, <1>9 DEF DeploySteps

\* Another admin assigns an app: the row is updated in place, and hidden ones are deleted.
LEMMA PostedStep ==
  ASSUME DeployInv, NEW a \in Deploy!AllApps, NEW c \in Templates, Deploy!LinksPosted(a, c)
  PROVE  DeployInv' /\ DeploySteps
  <1> USE DEF DeployInv
  <1>1. UNCHANGED <<inLibrary, apps, source, resolving, installs, deploy, picked, tab, config, pushes>>
        /\ UNCHANGED Deploy!formVars /\ UNCHANGED Deploy!fdroidVars
    BY DEF Deploy!LinksPosted
  <1>2. FormTypes' /\ LibraryTypes' /\ DialogInv' /\ PushInv'
    BY <1>1, SameForm, SameLibrary, SameDialog, SamePush
  <1>3. spent' \in [clicks : 0..MaxClicks, faults : Nat, replacements : Nat] /\ spent'.clicks = spent.clicks
    BY DEF Deploy!LinksPosted, QueryInv
  <1>4. QueryInv' /\ Deploy!ResultsOfQuery
    BY <1>1, <1>3 DEF QueryInv, Deploy!ResultsOfQuery, Deploy!fdroidVars
  <1>5. links \in [Deploy!AllApps -> [Templates -> Deploy!LinkActions]] /\ assign \in Assignment /\ assign.st # "idle"
    BY DEF LinksInv, Deploy!LinksPosted
  <1>6. PICK row \in [Templates -> Deploy!LinkActions] :
          /\ links' = [links EXCEPT ![a] = row]
          /\ \A t \in Templates : row[t] = links[a][t] \/ t = c \/ links[a][t] = "hide"
    <2>1. PICK row : row = [t \in Templates |->
                              IF t = c THEN "install" ELSE IF links[a][t] = "hide" THEN "none" ELSE links[a][t]]
      OBVIOUS
    <2>2. links' = [links EXCEPT ![a] = row]
      BY <2>1, Zenon DEF Deploy!LinksPosted
    <2>3. row \in [Templates -> Deploy!LinkActions]
          /\ \A t \in Templates : row[t] = links[a][t] \/ t = c \/ links[a][t] = "hide"
      BY <1>5, <2>1 DEF Deploy!LinkActions
    <2> QED BY <2>2, <2>3
  <1>7. /\ links' \in [Deploy!AllApps -> [Templates -> Deploy!LinkActions]] /\ links'[a] = row
        /\ \A b \in Deploy!AllApps \ {a} : links'[b] = links[b]
    BY <1>5, <1>6
  <1>8. CASE assign.st = "post" /\ a = assign.app
    <2>1. assign' = Deploy!Overtaken(c)
      BY <1>8 DEF Deploy!LinksPosted
    <2>2. PICK hit \in SUBSET Templates :
            /\ hit = Deploy!NewRows(c)
            /\ \A t \in Templates \ hit : links[a][t] # (IF t = c THEN "none" ELSE "hide")
      BY <1>8 DEF Deploy!NewRows
    <2>3. /\ assign' \in Assignment /\ assign'.st = assign.st /\ assign'.app = assign.app
          /\ assign'.config = assign.config /\ assign'.read = assign.read
          /\ assign'.renewed = assign.renewed \cup hit
          /\ assign'.overtaken = (assign.overtaken \cup {c}) \ (assign.renewed \cup hit)
      BY <1>5, <2>1, <2>2 DEF Deploy!Overtaken, Assignment
    <2>4. ASSUME NEW t \in Templates \ (assign'.renewed \cup assign'.overtaken)
          PROVE  assign'.read[t] = links'[assign'.app][t]
      <3>1. t # c /\ t \notin hit /\ t \notin assign.renewed \cup assign.overtaken
        BY <2>3
      <3>2. links'[a][t] = links[a][t]
        BY <1>6, <1>7, <2>2, <3>1
      <3> QED BY <1>8, <2>3, <3>1, <3>2 DEF LinksInv
    <2> QED BY <1>2, <1>4, <1>7, <1>8, <2>3, <2>4 DEF LinksInv, DeploySteps, Deploy!AssignLeavesActive, Deploy!AssignLeaves
  <1>9. CASE ~(assign.st = "post" /\ a = assign.app)
    <2>1. UNCHANGED assign
      BY <1>9 DEF Deploy!LinksPosted
    <2>2. LinksInv' /\ Deploy!AssignLeavesActive
      BY <1>5, <1>7, <1>9, <2>1 DEF LinksInv, Deploy!AssignLeavesActive, Deploy!AssignLeaves
    <2> QED BY <1>2, <1>4, <2>2 DEF DeploySteps
  <1> QED BY <1>8, <1>9

LEMMA DeployHolds ==
  Spec => [](page = "apps" => DeployInv) /\ [][page = "apps" => DeploySteps]_vars
  <1>1. Init => (page = "apps" => DeployInv)
    BY DeployStart DEF Init
  <1>2. (page = "apps" => DeployInv) /\ [Next]_vars
        => (page = "apps" => DeployInv)' /\ [page = "apps" => DeploySteps]_vars
    <2> SUFFICES ASSUME page = "apps", DeployInv, [Next]_vars
                 PROVE  DeployInv' /\ (DeploySteps \/ UNCHANGED vars)
      BY PageStays
    <2>1. CASE Deploy!DeployNext
      <3>1. inLibrary \subseteq Deploy!AllApps
        BY DEF DeployInv, LibraryTypes
      <3> QED BY <2>1, <3>1, TabStep, FormStep, OpenStep, DialogStep, PushStep, AssignStep, ReplacedStep, PostedStep
              DEF Deploy!DeployNext
    <2>2. CASE UNCHANGED varsDeploy
      BY <2>2, SameLibrary, SameLinks, SameForm, SameDialog, SamePush, SameQuery
         DEF varsDeploy, DeployInv, DeploySteps, Deploy!formVars, Deploy!fdroidVars
    <2> QED BY <2>1, <2>2, DeployMoves
  <1> QED BY <1>1, <1>2, PTL DEF Spec

-----------------------------------------------------------------------------
(* The console: what holds of its pages. *)

ConsoleInv ==
    /\ page = "configs" => Editor!EditorTypeOK
    /\ page = "fetch" => FetchInv
    /\ page = "apps" => DeployInv
    /\ page = "device" => ControlInv
    /\ page = "fleet" => FleetInv
    /\ page = "updates" => UpdatesInv
    /\ page = "session" => SignInv

LEMMA EditorHolds == Spec => [](page = "configs" => Editor!EditorTypeOK)
  <1>1. ~(page = "configs") => (page = "configs" => Editor!EditorTypeOK)
    OBVIOUS
  <1>2. Editor!EditorTypeOK => (page = "configs" => Editor!EditorTypeOK)
    OBVIOUS
  <1> QED BY <1>1, <1>2, IsEditor, IsElsewhere, Editor!EditorTypesHold, PTL

LEMMA ConsoleHolds == Spec => []ConsoleInv
  <1>1. /\ (page = "configs" => Editor!EditorTypeOK) /\ (page = "fetch" => FetchInv)
        /\ (page = "apps" => DeployInv) /\ (page = "device" => ControlInv) /\ (page = "fleet" => FleetInv)
        /\ (page = "updates" => UpdatesInv) /\ (page = "session" => SignInv)
        => ConsoleInv
    BY DEF ConsoleInv
  <1> QED BY <1>1, EditorHolds, FetchHolds, DeployHolds, ControlHolds, FleetHolds, UpdatesHold, SignHolds, PTL

\* The state of every page has its types, for any constants.
THEOREM TypesHold == Spec => []ConsoleTypeOK
  <1>1. SignInv => Sign!SessionTypeOK
    BY DEF SignInv, SignTypes, SentCall, ShownUser, Account, Sign!SessionTypeOK
  <1>2. FetchInv => Fetch!FetchTypeOK
    BY DEF FetchInv
  <1>3. ConsoleInv => ConsoleTypeOK
    BY <1>1, <1>2, DeployMeans, ControlMeans, FleetMeans, UpdatesMeans DEF ConsoleInv, ConsoleTypeOK
  <1> QED BY <1>3, ConsoleHolds, PTL

\* For any apps, devices and bounds, whatever is pressed while earlier answers are still to
\* come: the Cancel of a fetch reaches every run that goes on, but for one hidden by the
\* late end of an older run; WIPE was typed for the device it wipes, unless a late load
\* swapped that; a single-app kiosk gets one app; a deletion never runs against a move, and
\* the banner's polls are one chain (FetchFromDevicesModal 93-183, DeviceDetailPage 117-402,
\* ActionConsole 49-91, DevicesPage 60-407, UpdateBanner 18-94).
THEOREM ScreenTells == Spec => []ScreenIsTrue
  <1>1. FetchInv => Fetch!CancelReaches
    BY DEF FetchInv, Reaches, GoesOn, Fetch!CancelReaches
  <1>2. ConsoleInv => ScreenIsTrue
    BY <1>1, DeployMeans, ControlMeans, FleetMeans, UpdatesMeans DEF ConsoleInv, ScreenIsTrue
  <1> QED BY <1>2, ConsoleHolds, PTL

\* For any constants, a run that was told to stop stays stopped however late its answers
\* come, results that appear are those of the query in the field, an assignment leaves alone
\* what the other configurations install or remove, but for rows another admin's assignment
\* updated in place meanwhile, and what is selected is shown.
THEOREM LateAnswersHarmless == Spec => LateAnswers
  <1>1. /\ [page = "fetch" => Fetch!FetchStaysStopped]_vars /\ [page = "apps" => DeploySteps]_vars
        /\ [page = "device" => Control!PickerStaysStopped]_vars /\ [page = "fleet" => Fleet!SelectedIsShown]_vars
        => [/\ page = "fetch" => Fetch!FetchStaysStopped
            /\ page = "apps" => Deploy!ResultsOfQuery /\ Deploy!AssignLeavesActive
            /\ page = "device" => Control!PickerStaysStopped
            /\ page = "fleet" => Fleet!SelectedIsShown]_vars
    BY DEF DeploySteps
  <1> QED BY <1>1, FetchHolds, DeployHolds, ControlHolds, FleetHolds, PTL DEF LateAnswers
=============================================================================
