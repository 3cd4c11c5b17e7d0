---------------------------- MODULE UpdateConsole ----------------------------
(***************************************************************************)
(* What the web console shows of the supervisor and asks of it: the update  *)
(* banner that every page mounts anew and that polls on a timer of its own, *)
(* and the Updates panel of the settings page. The supervisor here is what  *)
(* its answers show; Updater has it in full.                                *)
(***************************************************************************)
EXTENDS Integers, FiniteSets

CONSTANTS
    MaxLoops,       \* status requests of the banner in flight
    MaxPresses,     \* buttons pressed and pages changed
    MaxTurns        \* steps of the supervisor by itself

VARIABLES
    supervisor,     \* the status it would answer
    loops,          \* banner: calls of loop that wait for their answer
    armed,          \* timers that will fire
    timer,          \* banner: the one timer.current holds is among them
    shown,          \* banner: the last status, or NoStatus
    starting,       \* POST /update/apply of a banner in flight: "here" its busy, "gone" of a former page
    settings,       \* whether the page is the settings page
    upd,            \* settings: its status, or NoStatus
    asked,          \* settings: its requests in flight, and those of a former settings page
    spentHere       \* presses and turns so far

bannerVars == <<loops, armed, timer, shown, starting>>
settingsVars == <<upd, asked>>

NoStatus == [phase |-> "unknown", offer |-> FALSE, verified |-> FALSE, auto |-> FALSE]
Slots == 1..MaxLoops
NoLoop == [st |-> "none", on |-> FALSE, x |-> NoStatus]
Press == spentHere.presses < MaxPresses /\ spentHere' = [spentHere EXCEPT !.presses = @ + 1]
Turn == spentHere.turns < MaxTurns /\ spentHere' = [spentHere EXCEPT !.turns = @ + 1]

UpdateConsoleInit ==
    /\ supervisor \in [phase : {"none"}, offer : BOOLEAN, verified : BOOLEAN, auto : {FALSE}]
    /\ loops = [l \in Slots |-> IF l = 1 THEN [NoLoop EXCEPT !.st = "sent", !.on = TRUE] ELSE NoLoop]
    /\ armed = 0 /\ timer = FALSE /\ shown = NoStatus /\ starting = {}
    /\ settings = FALSE /\ upd = NoStatus /\ asked = {}
    /\ spentHere = [presses |-> 0, turns |-> 0]

-----------------------------------------------------------------------------
(* The supervisor. *)

Running(x) == x.phase = "running"

SupervisorTurns ==
    /\ Turn
    /\ \/ supervisor' = [supervisor EXCEPT !.offer = TRUE, !.verified = TRUE]
       \/ Running(supervisor) /\ supervisor' \in {[supervisor EXCEPT !.phase = "done", !.offer = FALSE],
                                                  [supervisor EXCEPT !.phase = "failed"]}
       \/ supervisor.auto /\ supervisor.offer /\ ~Running(supervisor)
          /\ supervisor' = [supervisor EXCEPT !.phase = "running"]
    /\ UNCHANGED <<bannerVars, settings, settingsVars>>

\* Its answer to POST /update/apply: 202, or a refusal.
Accepts == supervisor.offer /\ supervisor.verified /\ ~Running(supervisor)

-----------------------------------------------------------------------------
(* The banner. *)

Idle == {l \in Slots : loops[l].st = "none"}
Started(ls, l) == [ls EXCEPT ![l] = [st |-> "sent", on |-> TRUE, x |-> NoStatus]]

getUpdateStatus(l) ==
    /\ loops[l].st = "sent"
    /\ \E x \in {supervisor, NoStatus} : loops' = [loops EXCEPT ![l] = [@ EXCEPT !.st = "served", !.x = x]]
    /\ UNCHANGED <<supervisor, armed, timer, shown, starting, settings, settingsVars, spentHere>>

Rearm == armed' = (IF timer THEN armed - 1 ELSE armed) + 1

\* loop goes on: an answer of a banner that is gone is dropped; else it is shown, even when
\* it is the older one, and the timer is set again.
loop(l) ==
    /\ loops[l].st = "served" /\ loops' = [loops EXCEPT ![l] = NoLoop]
    /\ IF ~loops[l].on THEN UNCHANGED <<shown, armed, timer>>
       ELSE shown' = loops[l].x /\ timer' = TRUE /\ Rearm
    /\ UNCHANGED <<supervisor, starting, settings, settingsVars, spentHere>>

Fire ==
    /\ armed > 0 /\ armed' = armed - 1
    /\ timer' = (timer /\ armed > 1)
    /\ \E l \in Idle : loops' = Started(loops, l)
    /\ UNCHANGED <<supervisor, shown, starting, settings, settingsVars, spentHere>>

\* The button is there when no update runs or has failed, and an offer can be applied.
OfferShown == shown.offer /\ shown.phase \notin {"running", "failed"}

\* window.confirm, then POST /update/apply.
onClick ==
    /\ OfferShown /\ shown.verified /\ "here" \notin starting /\ Press
    /\ starting' = starting \cup {"here"}
    /\ UNCHANGED <<supervisor, loops, armed, timer, shown, settings, settingsVars>>

\* Started: the pending timer is cleared and loop is called at once, by a banner that is
\* gone to no effect. Refused: only a message.
applyUpdate(who) ==
    /\ who \in starting /\ starting' = starting \ {who}
    /\ supervisor' = IF Accepts THEN [supervisor EXCEPT !.phase = "running"] ELSE supervisor
    /\ IF Accepts /\ who = "here"
       THEN /\ timer' = FALSE /\ armed' = (IF timer THEN armed - 1 ELSE armed)
            /\ \E l \in Idle : loops' = Started(loops, l)
       ELSE UNCHANGED <<loops, armed, timer>>
    /\ UNCHANGED <<shown, settings, settingsVars, spentHere>>

\* Every page brings a banner of its own; the settings page asks for the status, too. What
\* the page before has asked for goes on without it.
Navigate ==
    /\ Press
    /\ armed' = (IF timer THEN armed - 1 ELSE armed) /\ timer' = FALSE
    /\ shown' = NoStatus /\ starting' = IF starting = {} THEN {} ELSE {"gone"}
    /\ \E l \in Idle : loops' = Started([k \in Slots |-> [loops[k] EXCEPT !.on = FALSE]], l)
    /\ settings' = ~settings /\ upd' = NoStatus
    /\ asked' = {[a EXCEPT !.here = FALSE] : a \in {b \in asked : b.what # "status"}}
                 \cup IF settings THEN {} ELSE {[what |-> "status", here |-> TRUE]}
    /\ UNCHANGED supervisor

-----------------------------------------------------------------------------
(* The Updates panel. *)

Panel == settings /\ upd # NoStatus
Waits(what) == [what |-> what, here |-> TRUE] \in asked
\* The answer to a changes the supervisor and, on the page that asked, the panel.
Answers(a, what) == a \in asked /\ a.what = what /\ asked' = asked \ {a}
Shows(a, x) == upd' = IF a.here THEN x ELSE upd

\* The request of the mounted page; the panel stays away when it fails.
StatusAnswers(a) ==
    /\ Answers(a, "status") /\ upd' \in {supervisor, NoStatus}
    /\ UNCHANGED <<supervisor, bannerVars, settings, spentHere>>

\* Check now, Update and the switch: each waits for itself only.
Pressed(what) ==
    /\ Panel /\ Press /\ asked' = asked \cup {[what |-> what, here |-> TRUE]}
    /\ ~Waits(what) /\ (what \in {"on", "off"} => ~Waits("on") /\ ~Waits("off"))
    /\ what = "apply" => upd.offer /\ upd.verified
    /\ UNCHANGED <<supervisor, bannerVars, settings, upd>>

\* The supervisor polls at once, or within its limit answers what it has.
checkForUpdates(a) ==
    /\ Answers(a, "check")
    /\ \E s \in {supervisor, [supervisor EXCEPT !.offer = TRUE, !.verified = TRUE]} :
         supervisor' = s /\ \E x \in {s, upd} : Shows(a, x)
    /\ UNCHANGED <<bannerVars, settings, spentHere>>

\* applyNow leaves it to the banner to show the progress, and does not poke it.
applyNow(a) ==
    /\ Answers(a, "apply")
    /\ supervisor' = IF Accepts THEN [supervisor EXCEPT !.phase = "running"] ELSE supervisor
    /\ UNCHANGED <<bannerVars, settings, upd, spentHere>>

toggleAuto(a) ==
    /\ \E what \in {"on", "off"} :
        /\ Answers(a, what)
        /\ \/ supervisor' = [supervisor EXCEPT !.auto = (what = "on")]
              /\ Shows(a, IF upd = NoStatus THEN upd ELSE [upd EXCEPT !.auto = (what = "on")])
           \/ UNCHANGED <<supervisor, upd>>
    /\ UNCHANGED <<bannerVars, settings, spentHere>>

UpdateConsoleNext ==
    \/ SupervisorTurns \/ Fire \/ onClick \/ Navigate
    \/ \E l \in Slots : getUpdateStatus(l) \/ loop(l)
    \/ \E who \in starting : applyUpdate(who)
    \/ \E what \in {"check", "apply", "on", "off"} : Pressed(what)
    \/ \E a \in asked : StatusAnswers(a) \/ checkForUpdates(a) \/ applyNow(a) \/ toggleAuto(a)

-----------------------------------------------------------------------------
UpdateConsoleTypeOK ==
    /\ supervisor.phase \in {"none", "running", "done", "failed"}
    /\ \A l \in Slots : loops[l].st \in {"none", "sent", "served"}
    /\ armed \in 0..MaxLoops + MaxPresses /\ starting \subseteq {"here", "gone"}
    /\ asked \subseteq [what : {"status", "check", "apply", "on", "off"}, here : BOOLEAN]
    /\ {timer, settings} \subseteq BOOLEAN

\* Whatever answers overtake each other and whatever pages came and went, the banner has one
\* chain of polls: never two timers, and never none while it waits for no answer, which
\* would freeze the progress of an update (UpdateBanner 25-38, 73).
OneChain ==
    /\ armed <= 1
    /\ armed = 1 \/ \E l \in Slots : loops[l].st # "none" /\ loops[l].on
=============================================================================
