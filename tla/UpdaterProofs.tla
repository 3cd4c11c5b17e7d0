---------------------------- MODULE UpdaterProofs ----------------------------
(***************************************************************************)
(* The supervisor for any releases, polls, scripts and failures: its types,*)
(* one script at a time, its status as an implementation of                *)
(* UpdateLifecycle, and the deployment at the end of a script. They rest   *)
(* on how far the phase the supervisor has read may lag behind the script, *)
(* with requests and polls served at any time, also between the last line  *)
(* of a script and its close event.                                        *)
(***************************************************************************)
EXTENDS Updater, SequenceTheorems, TLAPS

Present(s) == script[s] # NoScript
Terminal(line) == line \in APPLY_TERMINAL

\* A step of a script's own.
Works(s) ==
    \/ ApplyBegin(s) \/ Backup(s) \/ Pull(s) \/ Recreate(s) \/ Healthcheck(s) \/ RollbackBegin(s)
    \/ RollbackRefused(s) \/ RestoreVersion(s) \/ RestoreDatabase(s) \/ Recheck(s)
    \/ BackupFails(s) \/ RecreateFails(s)

\* A version is given to whatever will write it to the deployment.
SoundAt(s) ==
    /\ script[s].kind = "apply" => script[s].to # 0
    /\ script[s].pc \in {"backup", "pull", "recreate", "healthcheck", "rollback"} => script[s].old # 0
    /\ script[s].pc \in {"pull", "recreate", "healthcheck", "rollback", "restore"} => script[s].oldDb # 0
Sound ==
    /\ \A s \in Slots : SoundAt(s)
    /\ latest # NoBackup => latest.ver # 0 /\ latest.db # 0

\* What a script's last line says of it.
LastWord(s, line) ==
    /\ Terminal(line)
    /\ script[s].kind = "apply" => (script[s].code = 0 <=> line = "done")
    /\ line = "done" => script[s].kind = "apply" /\ running = script[s].to

\* The lines of a script still to be read: of a live one, no last word; of one that exited,
\* the last word at the end, if it has not been read.
Told(s) ==
    LET pipe == script[s].pipe IN
    IF script[s].pc # "exited" THEN \A k \in 1..Len(pipe) : pipe[k] \in ActivePhases
    ELSE IF pipe = <<>> THEN LastWord(s, apply.phase)
    ELSE /\ \A k \in 1..(Len(pipe) - 1) : pipe[k] \in ActivePhases
         /\ LastWord(s, pipe[Len(pipe)])

\* Its last line has been read; its close event is still due.
Over(s) == script[s].pc = "exited" /\ script[s].pipe = <<>>
Current(s) == Present(s) /\ ~Over(s)
\* The supervisor's task is the one of this script: the current one, or the only one left.
Leading(s) == Present(s) /\ (Over(s) => \A t \in Slots : Present(t) => t = s)

\* The task is that of the script, and in progress until the last word has been read.
Tracked(s) ==
    /\ apply.to = script[s].to /\ (apply.trigger = "rollback" <=> script[s].kind = "rollback")
    /\ apply.phase # "none" /\ script[s].kind # "none" /\ script[s].pc # "off"
    /\ Busy \/ Over(s)

\* What the update has put in place when it is about to be reported.
Placed(s) ==
    /\ script[s].pc = "recreate" => env = script[s].to
    /\ script[s].pc = "healthcheck" => running = script[s].to

Followed ==
    /\ \A s, t \in Slots : Current(s) /\ Current(t) => s = t
    /\ \A s \in Slots : Leading(s) => Told(s) /\ Tracked(s) /\ Placed(s)

IInv == TypeOK /\ Sound /\ (crossed = 0 => Followed)

Pcs == {"off", "start", "backup", "pull", "recreate", "healthcheck", "rollback", "nobackup", "restore", "recheck", "exited"}

-----------------------------------------------------------------------------
(* One step of one script. *)

LEMMA Sizes == /\ MaxVersion \in Nat /\ 1..MaxVersion = Versions \ {0} /\ 0 \in Versions
               /\ Installed \in 1..MaxVersion
  BY VersionAssumption DEF Versions

LEMMA NoScriptFields ==
  /\ NoScript \in Process /\ NoScript.kind = "none" /\ NoScript.pc = "off" /\ NoScript.pipe = <<>>
  BY Sizes DEF NoScript, Process

\* What a step of a script leaves alone.
Same(s) == /\ script'[s].kind = script[s].kind /\ script'[s].to = script[s].to
           /\ script' \in [Slots -> Process] /\ \A t \in Slots : t # s => script'[t] = script[t]

LEMMA EmitStep ==
  ASSUME TypeOK, NEW s \in Slots, NEW line \in Lines, NEW next \in Pcs, Emit(s, line, next)
  PROVE  /\ Same(s) /\ script'[s].pc = next /\ script'[s].pipe = Append(script[s].pipe, line)
         /\ script'[s].old = script[s].old /\ script'[s].oldDb = script[s].oldDb
  <1>1. script \in [Slots -> Process] /\ script[s].pipe \in Seq(Lines)
    BY DEF TypeOK, Process
  <1>2. PICK pipe \in Seq(Lines) : pipe = Append(script[s].pipe, line)
    BY <1>1, AppendProperties
  <1>3. PICK c \in Process : c = [script[s] EXCEPT !.pipe = pipe, !.pc = next]
    BY <1>1 DEF Process, Pcs
  <1>4. /\ c.pipe = pipe /\ c.pc = next /\ c.kind = script[s].kind /\ c.to = script[s].to
        /\ c.old = script[s].old /\ c.oldDb = script[s].oldDb
    BY <1>1, <1>3 DEF Process
  <1>5. script' = [script EXCEPT ![s] = c]
    BY <1>2, <1>3 DEF Emit, Becomes
  <1> QED BY <1>1, <1>2, <1>4, <1>5 DEF Same

LEMMA ExitStep ==
  ASSUME TypeOK, NEW s \in Slots, NEW line \in Lines, NEW code \in 0..1, ExitWith(s, line, code)
  PROVE  /\ Same(s) /\ script'[s].pc = "exited" /\ script'[s].pipe = Append(script[s].pipe, line)
         /\ script'[s].code = code
  <1>1. script \in [Slots -> Process] /\ script[s].pipe \in Seq(Lines)
    BY DEF TypeOK, Process
  <1>2. PICK pipe \in Seq(Lines) : pipe = Append(script[s].pipe, line)
    BY <1>1, AppendProperties
  <1>3. PICK c \in Process : c = [script[s] EXCEPT !.pipe = pipe, !.pc = "exited", !.old = 0, !.oldDb = 0, !.code = code]
    BY <1>1, Sizes DEF Process
  <1>4. /\ c.pipe = pipe /\ c.pc = "exited" /\ c.kind = script[s].kind /\ c.to = script[s].to
        /\ c.code = code
    BY <1>1, <1>3 DEF Process
  <1>5. script' = [script EXCEPT ![s] = c]
    BY <1>2, <1>3 DEF ExitWith, Becomes
  <1> QED BY <1>1, <1>2, <1>4, <1>5 DEF Same

\* A step that only moves on, writing nothing.
LEMMA MoveStep ==
  ASSUME TypeOK, NEW s \in Slots, NEW next \in Pcs, Becomes(s, [script[s] EXCEPT !.pc = next])
  PROVE  /\ Same(s) /\ script'[s].pc = next /\ script'[s].pipe = script[s].pipe
         /\ script'[s].old = script[s].old /\ script'[s].oldDb = script[s].oldDb
  <1>1. script \in [Slots -> Process]
    BY DEF TypeOK
  <1>2. PICK c \in Process : c = [script[s] EXCEPT !.pc = next]
    BY <1>1 DEF Process, Pcs
  <1>3. /\ c.pipe = script[s].pipe /\ c.pc = next /\ c.kind = script[s].kind /\ c.to = script[s].to
        /\ c.old = script[s].old /\ c.oldDb = script[s].oldDb
    BY <1>1, <1>2 DEF Process
  <1>4. script' = [script EXCEPT ![s] = c]
    BY <1>2 DEF Becomes
  <1> QED BY <1>1, <1>3, <1>4 DEF Same

\* A step that notes what to go back to.
Jot(s, line, next, old, oldDb) ==
    Becomes(s, [script[s] EXCEPT !.pipe = Append(script[s].pipe, line), !.pc = next, !.old = old, !.oldDb = oldDb])

LEMMA JotStep ==
  ASSUME TypeOK, NEW s \in Slots, NEW line \in Lines, NEW next \in Pcs, NEW old \in Versions, NEW oldDb \in Versions,
         Jot(s, line, next, old, oldDb)
  PROVE  /\ Same(s) /\ script'[s].pc = next /\ script'[s].pipe = Append(script[s].pipe, line)
         /\ script'[s].old = old /\ script'[s].oldDb = oldDb
  <1>1. script \in [Slots -> Process] /\ script[s].pipe \in Seq(Lines)
    BY DEF TypeOK, Process
  <1>2. PICK pipe \in Seq(Lines) : pipe = Append(script[s].pipe, line)
    BY <1>1, AppendProperties
  <1>3. PICK c \in Process : c = [script[s] EXCEPT !.pipe = pipe, !.pc = next, !.old = old, !.oldDb = oldDb]
    BY <1>1 DEF Process, Pcs
  <1>4. /\ c.pipe = pipe /\ c.pc = next /\ c.kind = script[s].kind /\ c.to = script[s].to
        /\ c.old = old /\ c.oldDb = oldDb
    BY <1>1, <1>3 DEF Process
  <1>5. script' = [script EXCEPT ![s] = c]
    BY <1>2, <1>3 DEF Jot, Becomes
  <1> QED BY <1>1, <1>2, <1>4, <1>5 DEF Same

\* A line is read: the process loses the head of its pipe.
LEMMA ReadStep ==
  ASSUME TypeOK, NEW s \in Slots, script[s].pipe # <<>>,
         Becomes(s, [script[s] EXCEPT !.pipe = Tail(script[s].pipe)])
  PROVE  /\ Same(s) /\ script'[s].pc = script[s].pc /\ script'[s].pipe = Tail(script[s].pipe)
         /\ script'[s].old = script[s].old /\ script'[s].oldDb = script[s].oldDb
         /\ script'[s].code = script[s].code
  <1>1. script \in [Slots -> Process] /\ script[s].pipe \in Seq(Lines)
    BY DEF TypeOK, Process
  <1>2. PICK pipe \in Seq(Lines) : pipe = Tail(script[s].pipe)
    BY <1>1, HeadTailProperties
  <1>3. PICK c \in Process : c = [script[s] EXCEPT !.pipe = pipe]
    BY <1>1 DEF Process
  <1>4. /\ c.pipe = pipe /\ c.pc = script[s].pc /\ c.kind = script[s].kind /\ c.to = script[s].to
        /\ c.old = script[s].old /\ c.oldDb = script[s].oldDb /\ c.code = script[s].code
    BY <1>1, <1>3 DEF Process
  <1>5. script' = [script EXCEPT ![s] = c]
    BY <1>2, <1>3 DEF Becomes
  <1> QED BY <1>1, <1>2, <1>4, <1>5 DEF Same

\* A new script takes a free slot.
LEMMA SpawnStep ==
  ASSUME TypeOK, NEW kind \in {"apply", "rollback"}, NEW to \in Versions, spawnPhases(kind, to)
  PROVE  \E s \in Slots :
           /\ script[s] = NoScript /\ script' \in [Slots -> Process]
           /\ \A t \in Slots : t # s => script'[t] = script[t]
           /\ script'[s].kind = kind /\ script'[s].pc = "start" /\ script'[s].to = to
           /\ script'[s].pipe = <<>>
  <1>1. script \in [Slots -> Process]
    BY DEF TypeOK
  <1>2. PICK s \in Slots : /\ script[s] = NoScript
          /\ script' = [script EXCEPT ![s] = [NoScript EXCEPT !.kind = kind, !.pc = "start", !.to = to]]
    <2> DEFINE free == {s \in Slots : script[s] = NoScript}
    <2>1. (CHOOSE s \in free : TRUE) \in free
      BY DEF spawnPhases
    <2> QED BY <2>1 DEF spawnPhases
  <1>3. PICK c \in Process : c = [NoScript EXCEPT !.kind = kind, !.pc = "start", !.to = to]
    BY NoScriptFields DEF Process
  <1>4. c.kind = kind /\ c.pc = "start" /\ c.to = to /\ c.pipe = <<>>
    BY <1>3 DEF NoScript
  <1>5. script' = [script EXCEPT ![s] = c]
    BY <1>2, <1>3
  <1>6. script' \in [Slots -> Process] /\ script'[s] = c /\ \A t \in Slots : t # s => script'[t] = script[t]
    BY <1>1, <1>5
  <1> QED BY <1>2, <1>4, <1>6

-----------------------------------------------------------------------------
(* Types, and the versions given to the deployment. *)

\* The counters and the history.
Kinds == {"late", "rollback", "undo", "killed", "behind"}
Counts == used \in Nat /\ crossed \in Nat /\ seen \subseteq Kinds

LEMMA CountsStep == TypeOK /\ [Next]_vars => Counts' /\ seen \subseteq seen'
  <1> SUFFICES ASSUME TypeOK, [Next]_vars PROVE Counts' /\ seen \subseteq seen'
    OBVIOUS
  <1>1. used \in Nat /\ crossed \in Nat /\ seen \subseteq Kinds
    BY DEF TypeOK, Kinds
  <1>2. Spend => used' \in Nat
    BY <1>1 DEF Spend
  <1>3. \A what \in Kinds : Note(what, TRUE) => seen' \subseteq Kinds /\ seen \subseteq seen'
    BY <1>1 DEF Note
  <1>4. ASSUME NEW p \in Polls, PollStep(p) \/ PollRefused(p) PROVE Counts' /\ seen \subseteq seen'
    BY <1>1, <1>2, <1>4 DEF PollStep, PollList, PollVerified, PollRefused, Fault, history, Counts
  <1>5. CASE ManualApply \/ ManualRollback \/ (\E on \in BOOLEAN : SetAuto(on)) \/ Publish
    BY <1>1, <1>2, <1>3, <1>5 DEF ManualApply, ManualRollback, SetAuto, Publish, history, Counts, Kinds
  <1>6. ASSUME NEW s \in Slots, Works(s) PROVE Counts' /\ seen \subseteq seen'
    <2>1. crossed' = crossed /\ used' \in Nat
      BY <1>1, <1>2, <1>6 DEF Works, ApplyBegin, Backup, Pull, Recreate, Healthcheck, RollbackBegin, RollbackRefused,
         RestoreVersion, RestoreDatabase, Recheck, BackupFails, RecreateFails, Quietly, ScriptOnly, Fault
    <2>2. seen' \subseteq Kinds /\ seen \subseteq seen'
      <3>1. UNCHANGED seen \/ Note("undo", TRUE) \/ Note("behind", script[s].to < db)
        BY <1>6 DEF Works, ApplyBegin, Backup, Pull, Recreate, Healthcheck, RollbackBegin, RollbackRefused,
           RestoreVersion, RestoreDatabase, Recheck, BackupFails, RecreateFails, Quietly
      <3> QED BY <1>1, <3>1 DEF Note, Kinds
    <2> QED BY <1>1, <2>1, <2>2 DEF Counts
  <1>7. ASSUME NEW s \in Slots, PhaseLine(s) PROVE Counts' /\ seen \subseteq seen'
    BY <1>1, <1>7 DEF PhaseLine, history, Counts
  <1>8. ASSUME NEW s \in Slots, CloseApply(s) \/ CloseRollback(s) PROVE Counts' /\ seen \subseteq seen'
    <2>1. Closed(s) /\ used' = used
      BY <1>8 DEF CloseApply, CloseRollback
    <2>2. crossed' \in Nat
      BY <1>1, <2>1 DEF Closed
    <2>3. seen' \subseteq Kinds /\ seen \subseteq seen'
      BY <1>1, <2>1 DEF Closed, Note, Kinds
    <2> QED BY <1>1, <2>1, <2>2, <2>3 DEF Counts
  <1>9. CASE Restart
    BY <1>1, <1>2, <1>9 DEF Restart, Note, Kinds, Counts
  <1>10. CASE UNCHANGED vars
    BY <1>1, <1>10 DEF vars, history, Counts
  <1> QED BY <1>4, <1>5, <1>6, <1>7, <1>8, <1>9, <1>10 DEF Next, ScriptStep, Works

LEMMA OneMoves ==
  ASSUME TypeOK, Sound, NEW s \in Slots, Same(s), SoundAt(s)'
  PROVE  \A t \in Slots : SoundAt(t)'
  <1> SUFFICES ASSUME NEW t \in Slots, t # s PROVE SoundAt(t)'
    OBVIOUS
  <1> QED BY DEF Sound, SoundAt, Same

\* The two scripts: nothing of the supervisor moves, and what is written is a version.
LEMMA ScriptTypes ==
  ASSUME TypeOK, Sound, NEW s \in Slots, Works(s), Counts'
  PROVE  TypeOK' /\ Sound' /\ Same(s) /\ ScriptOnly
  <1> DEFINE Written == /\ env' \in 1..MaxVersion /\ running' \in 1..MaxVersion /\ db' \in 1..MaxVersion
                        /\ latest' \in [ver : Versions, db : Versions]
                        /\ latest' # NoBackup => latest'.ver # 0 /\ latest'.db # 0
  <1>1. SUFFICES Same(s) /\ SoundAt(s)' /\ ScriptOnly /\ Written
    <2>1. TypeOK'
      BY <1>1 DEF TypeOK, ScriptOnly, supVars, Same, Counts, Kinds
    <2>2. Sound'
      BY <1>1, OneMoves DEF Sound
    <2> QED BY <1>1, <2>1, <2>2
  <1> USE Sizes
  <1>2. /\ script[s] \in Process /\ SoundAt(s)
        /\ env \in 1..MaxVersion /\ running \in 1..MaxVersion /\ db \in 1..MaxVersion
        /\ latest \in [ver : Versions, db : Versions]
        /\ latest # NoBackup => latest.ver # 0 /\ latest.db # 0
    BY DEF TypeOK, Sound
  <1>3. /\ script[s].old \in Versions /\ script[s].oldDb \in Versions /\ script[s].to \in Versions
        /\ script[s].kind \in {"none", "apply", "rollback"} /\ latest.ver \in Versions /\ latest.db \in Versions
    BY <1>2 DEF Process
  <1>4. CASE ApplyBegin(s)
    <2>1. [script[s] EXCEPT !.pipe = Append(script[s].pipe, "backup"), !.pc = "backup", !.old = env]
           = [script[s] EXCEPT !.pipe = Append(script[s].pipe, "backup"), !.pc = "backup", !.old = env,
                               !.oldDb = script[s].oldDb]
      BY <1>2 DEF Process
    <2>a. /\ "backup" \in Lines /\ "backup" \in Pcs /\ env \in Versions
          /\ Jot(s, "backup", "backup", env, script[s].oldDb)
      BY <1>2, <1>4, <2>1 DEF Jot, ApplyBegin, Lines, ActivePhases, Pcs
    <2>2. /\ Same(s) /\ script'[s].pc = "backup" /\ script'[s].old = env
      BY <1>3, <2>a, JotStep
    <2>3. SoundAt(s)'
      BY <1>2, <2>2 DEF SoundAt, Same
    <2> QED BY <1>2, <1>4, <2>2, <2>3 DEF ApplyBegin, hostVars
  <1>5. CASE Backup(s)
    <2>1. [script[s] EXCEPT !.pipe = Append(script[s].pipe, "pull"), !.pc = "pull", !.oldDb = db]
           = [script[s] EXCEPT !.pipe = Append(script[s].pipe, "pull"), !.pc = "pull", !.old = script[s].old,
                               !.oldDb = db]
      BY <1>2 DEF Process
    <2>a. /\ "pull" \in Lines /\ "pull" \in Pcs /\ db \in Versions
          /\ Jot(s, "pull", "pull", script[s].old, db)
      BY <1>2, <1>5, <2>1 DEF Jot, Backup, Lines, ActivePhases, Pcs
    <2>2. Same(s) /\ script'[s].pc = "pull" /\ script'[s].old = script[s].old /\ script'[s].oldDb = db
      BY <1>3, <2>a, JotStep
    <2>3. script[s].kind = "apply" /\ script[s].pc = "backup"
      BY <1>5 DEF Backup, At
    <2>4. SoundAt(s)'
      BY <1>2, <2>2, <2>3 DEF SoundAt, Same
    <2>5. Written
      BY <1>2, <1>3, <1>5, <2>3 DEF Backup, SoundAt
    <2> QED BY <1>5, <2>2, <2>4, <2>5 DEF Backup, Quietly
  <1>6. CASE BackupFails(s)
    <2>1. Same(s) /\ script'[s].pc = "exited"
      BY <1>6, ExitStep DEF BackupFails, Lines, APPLY_TERMINAL
    <2>2. SoundAt(s)'
      BY <1>2, <1>6, <2>1 DEF SoundAt, Same, BackupFails, At
    <2> QED BY <1>2, <1>6, <2>1, <2>2 DEF BackupFails, Quietly, hostVars
  <1>7. CASE Pull(s)
    <2>1. PICK next \in {"recreate", "rollback"} : Emit(s, next, next)
      BY <1>7 DEF Pull
    <2>2. /\ Same(s) /\ script'[s].pc = next /\ script'[s].old = script[s].old
          /\ script'[s].oldDb = script[s].oldDb
      BY <2>1, EmitStep DEF Lines, ActivePhases, Pcs
    <2>3. SoundAt(s)'
      BY <1>2, <1>7, <2>2 DEF SoundAt, Same, Pull, At
    <2> QED BY <1>2, <1>3, <1>7, <2>2, <2>3 DEF Pull, At, SoundAt, Quietly
  <1>8. CASE Recreate(s)
    <2>1. /\ Same(s) /\ script'[s].pc = "healthcheck" /\ script'[s].old = script[s].old
          /\ script'[s].oldDb = script[s].oldDb
      BY <1>8, EmitStep DEF Recreate, Lines, ActivePhases, Pcs
    <2>2. SoundAt(s)'
      BY <1>2, <1>8, <2>1 DEF SoundAt, Same, Recreate, At
    <2> QED BY <1>2, <1>8, <2>1, <2>2 DEF Recreate, Newer, Quietly
  <1>9. CASE RecreateFails(s)
    <2>1. /\ Same(s) /\ script'[s].pc = "rollback" /\ script'[s].old = script[s].old
          /\ script'[s].oldDb = script[s].oldDb
      BY <1>9, EmitStep DEF RecreateFails, Lines, ActivePhases, Pcs
    <2>2. SoundAt(s)'
      BY <1>2, <1>9, <2>1 DEF SoundAt, Same, RecreateFails, At
    <2> QED BY <1>2, <1>9, <2>1, <2>2 DEF RecreateFails, Newer, Quietly
  <1>10. CASE Healthcheck(s)
    <2>1. /\ Same(s) /\ SoundAt(s)'
      <3>1. script[s].kind = "apply" /\ script[s].pc = "healthcheck"
        BY <1>10 DEF Healthcheck, At
      <3>2. CASE ExitWith(s, "done", 0)
        <4>1. Same(s) /\ script'[s].pc = "exited"
          BY <3>2, ExitStep DEF Lines, APPLY_TERMINAL
        <4> QED BY <1>2, <3>1, <4>1 DEF SoundAt, Same
      <3>3. CASE Emit(s, "rollback", "rollback")
        <4>1. /\ Same(s) /\ script'[s].pc = "rollback" /\ script'[s].old = script[s].old
              /\ script'[s].oldDb = script[s].oldDb
          BY <3>3, EmitStep DEF Lines, ActivePhases, Pcs
        <4> QED BY <1>2, <3>1, <4>1 DEF SoundAt, Same
      <3> QED BY <1>10, <3>2, <3>3 DEF Healthcheck
    <2> QED BY <1>2, <1>10, <2>1 DEF Healthcheck, Quietly, hostVars
  <1>11. CASE RollbackBegin(s)
    <2>1. script[s].kind = "rollback" /\ script[s].pc = "start" /\ ScriptOnly /\ UNCHANGED hostVars
      BY <1>11 DEF RollbackBegin, At, Quietly
    <2>2. CASE latest = NoBackup
      <3>1. Same(s) /\ script'[s].pc = "nobackup"
        BY <1>11, <2>2, EmitStep DEF RollbackBegin, Lines, ActivePhases, Pcs
      <3>2. SoundAt(s)'
        BY <2>1, <3>1 DEF SoundAt, Same
      <3> QED BY <1>2, <2>1, <3>1, <3>2 DEF hostVars
    <2>3. CASE latest # NoBackup
      <3>1. /\ Same(s) /\ script'[s].pc = "rollback" /\ script'[s].old = latest.ver
            /\ script'[s].oldDb = latest.db
        <4>1. /\ "rollback" \in Lines /\ "rollback" \in Pcs
              /\ Jot(s, "rollback", "rollback", latest.ver, latest.db)
          BY <1>11, <2>3 DEF Jot, RollbackBegin, Lines, ActivePhases, Pcs
        <4> QED BY <1>3, <4>1, JotStep
      <3>2. SoundAt(s)'
        BY <1>2, <2>1, <2>3, <3>1 DEF SoundAt, Same
      <3> QED BY <1>2, <2>1, <3>1, <3>2 DEF hostVars
    <2> QED BY <2>2, <2>3
  <1>12. CASE RestoreVersion(s)
    <2>1. /\ Same(s) /\ script'[s].pc = "restore" /\ script'[s].old = script[s].old
          /\ script'[s].oldDb = script[s].oldDb
      BY <1>12, MoveStep DEF RestoreVersion, Pcs
    <2>2. SoundAt(s)'
      BY <1>2, <1>12, <2>1 DEF SoundAt, Same, RestoreVersion
    <2> QED BY <1>2, <1>3, <1>12, <2>1, <2>2 DEF RestoreVersion, SoundAt
  <1>13. CASE RestoreDatabase(s)
    <2>1. /\ Same(s) /\ script'[s].pc = "recheck" /\ script'[s].old = script[s].old
          /\ script'[s].oldDb = script[s].oldDb
      BY <1>13, MoveStep DEF RestoreDatabase, Pcs
    <2>2. SoundAt(s)'
      BY <1>2, <1>13, <2>1 DEF SoundAt, Same, RestoreDatabase
    <2> QED BY <1>2, <1>3, <1>13, <2>1, <2>2 DEF RestoreDatabase, SoundAt
  <1>14. CASE Recheck(s)
    <2>1. PICK line \in APPLY_TERMINAL, code \in 0..1 : ExitWith(s, line, code)
      BY <1>14 DEF Recheck, APPLY_TERMINAL
    <2>2. Same(s) /\ script'[s].pc = "exited"
      BY <2>1, ExitStep DEF Lines
    <2>3. SoundAt(s)'
      BY <1>2, <1>14, <2>2 DEF SoundAt, Same, Recheck
    <2> QED BY <1>2, <1>14, <2>2, <2>3 DEF Recheck, Quietly, hostVars
  <1>15. CASE RollbackRefused(s)
    <2>1. Same(s) /\ script'[s].pc = "exited"
      BY <1>15, ExitStep DEF RollbackRefused, Lines, APPLY_TERMINAL
    <2>2. SoundAt(s)'
      BY <1>2, <1>15, <2>1 DEF SoundAt, Same, RollbackRefused, At
    <2> QED BY <1>2, <1>15, <2>1, <2>2 DEF RollbackRefused, Quietly, hostVars
  <1> QED BY <1>4, <1>5, <1>6, <1>7, <1>8, <1>9, <1>10, <1>11, <1>12, <1>13, <1>14, <1>15 DEF Works

Tasks == [phase : {"none"} \cup ActivePhases \cup APPLY_TERMINAL, to : Versions,
          trigger : {"none", "manual", "auto", "rollback"}]
TasksSound == apply' \in Tasks /\ script' \in [Slots -> Process] /\ \A s \in Slots : SoundAt(s)'

LEMMA SpawnSound ==
  ASSUME TypeOK, Sound, NEW kind \in {"apply", "rollback"}, NEW to \in Versions, spawnPhases(kind, to),
         kind = "apply" => to # 0
  PROVE  script' \in [Slots -> Process] /\ \A s \in Slots : SoundAt(s)'
  <1>1. PICK s \in Slots :
           /\ script[s] = NoScript /\ script' \in [Slots -> Process]
           /\ \A t \in Slots : t # s => script'[t] = script[t]
           /\ script'[s].kind = kind /\ script'[s].pc = "start" /\ script'[s].to = to
    BY SpawnStep
  <1>2. SoundAt(s)'
    BY <1>1 DEF SoundAt
  <1>3. \A t \in Slots : t # s => SoundAt(t)'
    BY <1>1 DEF Sound, SoundAt
  <1> QED BY <1>1, <1>2, <1>3

LEMMA StartSound ==
  ASSUME TypeOK, Sound, NEW trigger \in {"manual", "auto"}, NEW to \in Versions, to # 0, startApply(trigger, to)
  PROVE  TasksSound
  <1>1. apply' \in Tasks
    BY DEF startApply, Tasks, ActivePhases
  <1> QED BY <1>1, SpawnSound DEF startApply, TasksSound

LEMMA AutoSound ==
  ASSUME TypeOK, Sound, NEW auto, NEW avail, NEW manifest \in Versions, maybeAutoApply(auto, avail, manifest)
  PROVE  TasksSound
  <1>1. CASE UNCHANGED <<apply, script>>
    BY <1>1 DEF TasksSound, TypeOK, Sound, SoundAt, Tasks
  <1>2. CASE AutoApplies(auto, avail, manifest) /\ startApply("auto", manifest)
    BY <1>2, StartSound DEF AutoApplies
  <1> QED BY <1>1, <1>2 DEF maybeAutoApply

LEMMA RollbackSound ==
  ASSUME TypeOK, Sound, ManualRollback
  PROVE  TasksSound
  <1>1. apply' \in Tasks
    BY Sizes DEF ManualRollback, Tasks, ActivePhases
  <1>2. spawnPhases("rollback", 0)
    BY DEF ManualRollback
  <1> QED BY <1>1, <1>2, Sizes, SpawnSound DEF TasksSound

\* The supervisor: tasks, polls, requests, what it reads of a script, restarts.
LEMMA SupervisorTypes ==
  ASSUME TypeOK, Sound, Counts',
         \/ \E p \in Polls : PollStep(p) \/ PollRefused(p)
         \/ \E s \in Slots : PhaseLine(s) \/ CloseApply(s) \/ CloseRollback(s)
         \/ ManualApply \/ ManualRollback \/ (\E on \in BOOLEAN : SetAuto(on))
         \/ Publish \/ Restart
  PROVE  TypeOK' /\ Sound'
  <1> DEFINE Kept == /\ published' \in 1..MaxVersion /\ currentVersion' \in 1..MaxVersion
                     /\ lastManifest' \in Versions /\ updateAvailable' \in BOOLEAN /\ autoUpdate' \in BOOLEAN
                     /\ lastAutoFailed' \in Versions
                     /\ poll' \in [Polls -> Versions]
  <1>1. SUFFICES Kept /\ UNCHANGED hostVars /\ TasksSound
    BY <1>1 DEF TypeOK, Sound, hostVars, TasksSound, Tasks, Counts, Kinds
  <1> USE Sizes
  <1>2. /\ published \in 1..MaxVersion /\ currentVersion \in 1..MaxVersion
        /\ lastManifest \in Versions /\ updateAvailable \in BOOLEAN /\ autoUpdate \in BOOLEAN
        /\ lastAutoFailed \in Versions /\ apply \in Tasks
        /\ poll \in [Polls -> Versions]
    BY DEF TypeOK, Tasks
  <1>3. ASSUME UNCHANGED <<apply, script>> PROVE TasksSound
    BY <1>3 DEF TypeOK, Sound, SoundAt, TasksSound, Tasks
  <1>5. ASSUME NEW p \in Polls, PollList(p)
        PROVE  Kept /\ UNCHANGED hostVars /\ TasksSound
    BY <1>2, <1>3, <1>5 DEF PollList, supVars
  <1>6. ASSUME NEW p \in Polls, PollVerified(p)
        PROVE  Kept /\ UNCHANGED hostVars /\ TasksSound
    <2>1. poll[p] \in Versions /\ maybeAutoApply(autoUpdate, poll[p] # 0 /\ poll[p] > currentVersion, poll[p])
      BY <1>2, <1>6 DEF PollVerified, setStatus
    <2>2. TasksSound
      BY <2>1, AutoSound
    <2> QED BY <1>2, <1>6, <2>1, <2>2 DEF PollVerified, setStatus
  <1>7. ASSUME NEW p \in Polls, PollRefused(p)
        PROVE  Kept /\ UNCHANGED hostVars /\ TasksSound
    <2>1. maybeAutoApply(autoUpdate, 0 # 0 /\ 0 > currentVersion, 0)
      BY <1>7 DEF PollRefused, setStatus
    <2>2. TasksSound
      BY <2>1, AutoSound
    <2> QED BY <1>2, <1>7, <2>2 DEF PollRefused, setStatus
  <1>8. ASSUME NEW s \in Slots, PhaseLine(s)
        PROVE  Kept /\ UNCHANGED hostVars /\ TasksSound
    <2>1. script[s].pipe \in Seq(Lines) /\ Head(script[s].pipe) \in Lines
      BY <1>8, HeadTailProperties DEF PhaseLine, TypeOK, Process
    <2>2. apply' \in Tasks
      BY <1>2, <1>8, <2>1 DEF PhaseLine, Tasks, Lines
    <2>3. /\ Same(s) /\ script'[s].pc = script[s].pc /\ script'[s].old = script[s].old
          /\ script'[s].oldDb = script[s].oldDb
      BY <1>8, ReadStep DEF PhaseLine
    <2>4. SoundAt(s)'
      BY <2>3 DEF Sound, SoundAt, Same
    <2>5. TasksSound
      BY <2>2, <2>3, <2>4, OneMoves DEF TasksSound, Same
    <2> QED BY <1>2, <1>8, <2>5 DEF PhaseLine
  <1>10. ASSUME NEW s \in Slots, Becomes(s, NoScript)
         PROVE  script' \in [Slots -> Process] /\ \A t \in Slots : SoundAt(t)'
    BY <1>10, NoScriptFields DEF Becomes, TypeOK, Sound, SoundAt
  <1>11. ASSUME NEW s \in Slots, CloseApply(s)
         PROVE  Kept /\ UNCHANGED hostVars /\ TasksSound
    <2>1. script[s].to \in Versions /\ script[s].kind = "apply" /\ script[s].to # 0
      BY <1>11 DEF CloseApply, At, TypeOK, Process, Sound, SoundAt
    <2>2. apply' \in Tasks
      BY <1>2, <1>11 DEF CloseApply, Tasks, APPLY_TERMINAL
    <2>3. currentVersion' \in 1..MaxVersion /\ lastAutoFailed' \in Versions
      BY <1>2, <1>11, <2>1 DEF CloseApply
    <2> QED BY <1>2, <1>10, <1>11, <2>2, <2>3 DEF CloseApply, Closed, TasksSound
  <1>12. ASSUME NEW s \in Slots, CloseRollback(s)
         PROVE  Kept /\ UNCHANGED hostVars /\ TasksSound
    <2>1. apply' \in Tasks
      BY <1>2, <1>12 DEF CloseRollback, Tasks, APPLY_TERMINAL
    <2> QED BY <1>2, <1>10, <1>12, <2>1 DEF CloseRollback, Closed, TasksSound
  <1>13. CASE ManualApply
    BY <1>2, <1>13, StartSound DEF ManualApply
  <1>14. CASE ManualRollback
    BY <1>2, <1>14, RollbackSound DEF ManualRollback
  <1>15. ASSUME NEW on \in BOOLEAN, SetAuto(on)
         PROVE  Kept /\ UNCHANGED hostVars /\ TasksSound
    BY <1>2, <1>15, AutoSound DEF SetAuto
  <1>16. CASE Publish
    BY <1>2, <1>3, <1>16 DEF Publish, supVars
  <1>17. CASE Restart
    <2>1. apply' \in Tasks
      BY <1>17 DEF Restart, NoApply, Tasks
    <2>2. script' \in [Slots -> Process] /\ \A s \in Slots : SoundAt(s)'
      <3>1. script' = [s \in Slots |-> NoScript]
        BY <1>17 DEF Restart
      <3>2. \A s \in Slots : script'[s] = NoScript
        BY <3>1
      <3> QED BY <3>1, <3>2, NoScriptFields DEF SoundAt
    <2> QED BY <1>2, <1>17, <2>1, <2>2 DEF Restart, TasksSound
  <1> QED BY <1>5, <1>6, <1>7, <1>8, <1>11, <1>12, <1>13, <1>14, <1>15, <1>16, <1>17 DEF PollStep

LEMMA TypesStep == TypeOK /\ Sound /\ [Next]_vars => TypeOK' /\ Sound'
  <1> SUFFICES ASSUME TypeOK, Sound, [Next]_vars PROVE TypeOK' /\ Sound'
    OBVIOUS
  <1>1. CASE UNCHANGED vars
    BY <1>1 DEF vars, supVars, hostVars, history, TypeOK, Sound, SoundAt
  <1>2. CASE Next
    BY <1>2, CountsStep, ScriptTypes, SupervisorTypes DEF Next, ScriptStep, Works
  <1> QED BY <1>1, <1>2

LEMMA TypesInit == Init => TypeOK /\ Sound
  <1> SUFFICES ASSUME Init PROVE TypeOK /\ Sound
    OBVIOUS
  <1>1. script \in [Slots -> Process] /\ \A s \in Slots : SoundAt(s)
    BY NoScriptFields DEF Init, SoundAt
  <1> QED BY <1>1, Sizes DEF Init, TypeOK, Sound, NoApply, NoBackup

\* Whatever polls, scripts, failures and restarts do, every state is of its type: in particular
\* .env, the container and the database are never told to go to "no version" by a script.
THEOREM TypeCorrect == Spec => []TypeOK
  BY TypesInit, TypesStep, PTL DEF Spec

-----------------------------------------------------------------------------
(* The supervisor follows its one script. *)

\* What a step of a script adds to what the supervisor will read of it.
Writes(s) ==
    /\ Same(s) /\ script[s].pc \notin {"off", "exited"} /\ script'[s].pc # "off"
    /\ \/ /\ script'[s].pc # "exited"
          /\ \/ script'[s].pipe = script[s].pipe
             \/ \E line \in ActivePhases : script'[s].pipe = Append(script[s].pipe, line)
       \/ /\ script'[s].pc = "exited"
          /\ \E line \in APPLY_TERMINAL : /\ script'[s].pipe = Append(script[s].pipe, line)
                                          /\ LastWord(s, line)'
    /\ Placed(s)'

LEMMA EmitWrites ==
  ASSUME TypeOK, NEW s \in Slots, NEW line \in ActivePhases, NEW next \in Pcs \ {"off", "exited"},
         Emit(s, line, next), script[s].pc \notin {"off", "exited"}
  PROVE  /\ script'[s].pc = next /\ script'[s].to = script[s].to
         /\ Placed(s)' => Writes(s)
  <1>1. line \in Lines /\ next \in Pcs
    BY DEF Lines
  <1>2. Same(s) /\ script'[s].pc = next /\ script'[s].pipe = Append(script[s].pipe, line)
    BY <1>1, EmitStep
  <1> QED BY <1>2 DEF Writes, Same

LEMMA ExitWrites ==
  ASSUME TypeOK, NEW s \in Slots, NEW line \in APPLY_TERMINAL, NEW code \in 0..1,
         ExitWith(s, line, code), script[s].pc \notin {"off", "exited"}, running' = running,
         script[s].kind = "apply" => (code = 0 <=> line = "done"),
         line = "done" => script[s].kind = "apply" /\ running = script[s].to
  PROVE  Writes(s)
  <1>1. line \in Lines
    BY DEF Lines
  <1>2. /\ Same(s) /\ script'[s].pc = "exited" /\ script'[s].pipe = Append(script[s].pipe, line)
        /\ script'[s].code = code
    BY <1>1, ExitStep
  <1>3. LastWord(s, line)'
    BY <1>2 DEF LastWord, Terminal, Same
  <1>4. Placed(s)'
    BY <1>2 DEF Placed
  <1> QED BY <1>2, <1>3, <1>4 DEF Writes

LEMMA ScriptWrites ==
  ASSUME TypeOK, Sound, NEW s \in Slots, Placed(s),
         Works(s)
  PROVE  Writes(s)
  <1>1. /\ script[s] \in Process /\ env \in Versions /\ db \in Versions
        /\ latest.ver \in Versions /\ latest.db \in Versions
        /\ script[s].old \in Versions /\ script[s].oldDb \in Versions
    BY Sizes DEF TypeOK, Process
  <1>2. ASSUME NEW line \in ActivePhases, NEW next \in {"backup", "pull", "rollback"},
               NEW old \in Versions, NEW oldDb \in Versions,
               Jot(s, line, next, old, oldDb), script[s].pc \notin {"off", "exited"}
        PROVE  Writes(s)
    <2>1. line \in Lines /\ next \in Pcs
      BY DEF Lines, Pcs
    <2>2. Same(s) /\ script'[s].pc = next /\ script'[s].pipe = Append(script[s].pipe, line)
      BY <1>2, <2>1, JotStep
    <2>3. Placed(s)'
      BY <2>2 DEF Placed
    <2> QED BY <1>2, <2>2, <2>3 DEF Writes
  <1>3. CASE ApplyBegin(s)
    <2>1. [script[s] EXCEPT !.pipe = Append(script[s].pipe, "backup"), !.pc = "backup", !.old = env]
           = [script[s] EXCEPT !.pipe = Append(script[s].pipe, "backup"), !.pc = "backup", !.old = env,
                               !.oldDb = script[s].oldDb]
      BY <1>1 DEF Process
    <2>2. "backup" \in ActivePhases /\ Jot(s, "backup", "backup", env, script[s].oldDb)
      BY <1>3, <2>1 DEF ApplyBegin, Jot, ActivePhases
    <2> QED BY <1>1, <1>2, <1>3, <2>2 DEF ApplyBegin, At
  <1>4. CASE Backup(s)
    <2>1. [script[s] EXCEPT !.pipe = Append(script[s].pipe, "pull"), !.pc = "pull", !.oldDb = db]
           = [script[s] EXCEPT !.pipe = Append(script[s].pipe, "pull"), !.pc = "pull", !.old = script[s].old,
                               !.oldDb = db]
      BY <1>1 DEF Process
    <2>2. "pull" \in ActivePhases /\ Jot(s, "pull", "pull", script[s].old, db)
      BY <1>4, <2>1 DEF Backup, Jot, ActivePhases
    <2> QED BY <1>1, <1>2, <1>4, <2>2 DEF Backup, At
  <1>5. CASE BackupFails(s)
    BY <1>5, ExitWrites DEF BackupFails, At, hostVars, APPLY_TERMINAL
  <1>6. CASE Pull(s)
    <2>1. PICK next \in {"recreate", "rollback"} : Emit(s, next, next)
      BY <1>6 DEF Pull
    <2>2. next \in ActivePhases /\ next \in Pcs \ {"off", "exited"}
      BY DEF ActivePhases, Pcs
    <2>3. script'[s].pc = next /\ script'[s].to = script[s].to /\ (Placed(s)' => Writes(s))
      BY <1>6, <2>1, <2>2, EmitWrites DEF Pull, At
    <2>4. Placed(s)'
      BY <1>6, <2>3 DEF Placed, Pull
    <2> QED BY <2>3, <2>4
  <1>7. CASE Recreate(s)
    <2>1. "healthcheck" \in ActivePhases /\ "healthcheck" \in Pcs \ {"off", "exited"}
      BY DEF ActivePhases, Pcs
    <2>2. script'[s].pc = "healthcheck" /\ script'[s].to = script[s].to /\ (Placed(s)' => Writes(s))
      BY <1>7, <2>1, EmitWrites DEF Recreate, At
    <2>3. Placed(s)'
      BY <1>7, <2>2 DEF Placed, Recreate, At
    <2> QED BY <2>2, <2>3
  <1>8. ASSUME Emit(s, "rollback", "rollback"), script[s].pc \notin {"off", "exited"}
        PROVE  Writes(s)
    <2>1. "rollback" \in ActivePhases /\ "rollback" \in Pcs \ {"off", "exited"}
      BY DEF ActivePhases, Pcs
    <2>2. script'[s].pc = "rollback" /\ (Placed(s)' => Writes(s))
      BY <1>8, <2>1, EmitWrites
    <2> QED BY <2>2 DEF Placed
  <1>9. CASE RecreateFails(s)
    BY <1>8, <1>9 DEF RecreateFails, At
  <1>10. CASE Healthcheck(s)
    <2>1. CASE ExitWith(s, "done", 0)
      BY <1>10, <2>1, ExitWrites DEF Healthcheck, At, hostVars, APPLY_TERMINAL, Placed
    <2> QED BY <1>8, <1>10, <2>1 DEF Healthcheck, At
  <1>11. CASE RollbackBegin(s)
    <2>1. CASE latest = NoBackup
      <3>1. "rollback" \in ActivePhases /\ "nobackup" \in Pcs \ {"off", "exited"}
        BY DEF ActivePhases, Pcs
      <3>2. script'[s].pc = "nobackup" /\ (Placed(s)' => Writes(s))
        BY <1>11, <2>1, <3>1, EmitWrites DEF RollbackBegin, At
      <3> QED BY <3>2 DEF Placed
    <2>2. CASE latest # NoBackup
      <3>1. "rollback" \in ActivePhases /\ Jot(s, "rollback", "rollback", latest.ver, latest.db)
        BY <1>11, <2>2 DEF RollbackBegin, Jot, ActivePhases
      <3> QED BY <1>1, <1>2, <1>11, <3>1 DEF RollbackBegin, At
    <2> QED BY <2>1, <2>2
  <1>12. ASSUME NEW next \in {"restore", "recheck"}, Becomes(s, [script[s] EXCEPT !.pc = next]),
                script[s].pc \notin {"off", "exited"}
         PROVE  Writes(s)
    <2>1. Same(s) /\ script'[s].pc = next /\ script'[s].pipe = script[s].pipe
      BY <1>12, MoveStep DEF Pcs
    <2>2. Placed(s)'
      BY <2>1 DEF Placed
    <2> QED BY <1>12, <2>1, <2>2 DEF Writes
  <1>13. CASE RestoreVersion(s)
    BY <1>12, <1>13 DEF RestoreVersion
  <1>14. CASE RestoreDatabase(s)
    BY <1>12, <1>14 DEF RestoreDatabase
  <1>15. CASE Recheck(s)
    <2>1. PICK line \in {"rolled_back", "failed"}, code \in 0..1 :
             ExitWith(s, line, code) /\ (script[s].kind = "apply" => code = 1)
      BY <1>15 DEF Recheck
    <2> QED BY <1>15, <2>1, ExitWrites DEF Recheck, hostVars, APPLY_TERMINAL
  <1>16. CASE RollbackRefused(s)
    BY <1>16, ExitWrites DEF RollbackRefused, At, hostVars, APPLY_TERMINAL
  <1> QED BY <1>3, <1>4, <1>5, <1>6, <1>7, <1>9, <1>10, <1>11, <1>13, <1>14, <1>15, <1>16 DEF Works

LEMMA Pipes ==
  ASSUME TypeOK, NEW s \in Slots
  PROVE  /\ script[s].pipe \in Seq(Lines) /\ Len(script[s].pipe) \in Nat
         /\ script[s].pipe = <<>> <=> Len(script[s].pipe) = 0
  BY EmptySeq, LenProperties DEF TypeOK, Process

LEMMA Absent == ASSUME NEW s \in Slots, ~Present(s)
                PROVE  script[s].kind = "none" /\ script[s].pc = "off" /\ script[s].pipe = <<>>
  BY DEF Present, NoScript

LEMMA Leads == ASSUME NEW s \in Slots, Current(s) PROVE Leading(s)
  BY DEF Leading, Current

LEMMA LiveCurrent == ASSUME NEW s \in Slots, script[s].pc \notin {"off", "exited"} PROVE Current(s)
  BY Absent DEF Current, Over

LEMMA WorksLive == ASSUME NEW s \in Slots, Works(s) PROVE script[s].pc \notin {"off", "exited"}
  BY DEF Works, ApplyBegin, Backup, Pull, Recreate, Healthcheck, RollbackBegin, RollbackRefused, RestoreVersion,
         RestoreDatabase, Recheck, BackupFails, RecreateFails, At

\* Nothing the following is about has changed.
LEMMA FollowedStays ==
  ASSUME Followed, UNCHANGED <<apply, script, env, running>>
  PROVE  Followed'
  <1>1. \A s \in Slots : /\ Present(s)' <=> Present(s)
                         /\ Current(s)' <=> Current(s)
                         /\ Leading(s)' <=> Leading(s)
    BY DEF Present, Current, Leading, Over
  <1>2. ASSUME NEW s \in Slots, Leading(s)' PROVE Told(s)' /\ Tracked(s)' /\ Placed(s)'
    <2>1. Told(s) /\ Tracked(s) /\ Placed(s)
      BY <1>1, <1>2 DEF Followed
    <2> QED BY <2>1 DEF Told, LastWord, Terminal, Tracked, Busy, Over, Placed
  <1> QED BY <1>1, <1>2 DEF Followed

\* One script is current at most, and it is there: the others are not what the task is about.
LEMMA OthersFollow ==
  ASSUME NEW s \in Slots, Present(s)', \A t \in Slots : t # s => ~Current(t)',
         Leading(s)' => Told(s)' /\ Tracked(s)' /\ Placed(s)'
  PROVE  Followed'
  <1>1. \A t \in Slots : t # s => ~Leading(t)'
    BY DEF Leading, Current
  <1> QED BY <1>1 DEF Followed

\* The current script goes on: the supervisor will read of it in the order it wrote.
LEMMA ScriptFollowed ==
  ASSUME TypeOK, TypeOK', Followed, NEW s \in Slots, Writes(s), ScriptOnly
  PROVE  Followed' /\ Busy
  <1>1. Current(s) /\ Told(s) /\ Tracked(s) /\ ~Over(s)
    BY LiveCurrent, Leads DEF Followed, Writes, Over
  <1>2. Busy /\ Busy' /\ apply' = apply
    BY <1>1 DEF Tracked, ScriptOnly, supVars, Busy
  <1>3. \A t \in Slots : t # s => ~Current(t)'
    BY <1>1 DEF Followed, Writes, Same, Current, Present, Over
  <1>4. Present(s)' /\ Tracked(s)' /\ Placed(s)'
    BY <1>1, <1>2 DEF Tracked, Writes, Same, Present, NoScript
  <1>5. \A k \in 1..Len(script[s].pipe) : script[s].pipe[k] \in ActivePhases
    BY <1>1 DEF Told, Writes
  <1>6. script[s].pipe \in Seq(Lines) /\ Len(script[s].pipe) \in Nat
    BY Pipes
  <1>7. ASSUME NEW line \in Lines, script'[s].pipe = Append(script[s].pipe, line)
        PROVE  /\ script'[s].pipe # <<>> /\ Len(script'[s].pipe) = Len(script[s].pipe) + 1
               /\ script'[s].pipe[Len(script'[s].pipe)] = line
               /\ \A k \in 1..(Len(script'[s].pipe) - 1) : script'[s].pipe[k] \in ActivePhases
    BY <1>5, <1>6, <1>7, AppendProperties
  <1>8. Told(s)'
    <2>1. CASE script'[s].pc # "exited" /\ script'[s].pipe = script[s].pipe
      BY <1>5, <2>1 DEF Told
    <2>2. ASSUME script'[s].pc # "exited", NEW line \in ActivePhases, script'[s].pipe = Append(script[s].pipe, line)
          PROVE  Told(s)'
      <3>1. line \in Lines
        BY DEF Lines
      <3> QED BY <1>6, <1>7, <2>2, <3>1 DEF Told
    <2>3. ASSUME script'[s].pc = "exited", NEW line \in APPLY_TERMINAL, LastWord(s, line)',
                 script'[s].pipe = Append(script[s].pipe, line)
          PROVE  Told(s)'
      <3>1. line \in Lines
        BY DEF Lines
      <3> QED BY <1>7, <2>3, <3>1 DEF Told
    <2> QED BY <2>1, <2>2, <2>3 DEF Writes
  <1> QED BY <1>2, <1>3, <1>4, <1>8, OthersFollow

\* No task in progress: whatever scripts are left have had their last word read.
LEMMA NoneCurrent == ASSUME Followed, ~Busy PROVE \A s \in Slots : ~Current(s)
  BY Leads DEF Followed, Tracked, Current

\* A task is accepted: its script is the current one.
LEMMA StartFollowed ==
  ASSUME TypeOK, Followed, ~Busy,
         NEW kind \in {"apply", "rollback"}, NEW to \in Versions, spawnPhases(kind, to),
         apply'.to = to, apply'.trigger = "rollback" <=> kind = "rollback",
         apply'.phase \in {"authorizing", "rollback"}
  PROVE  Followed'
  <1>1. PICK s \in Slots :
           /\ \A t \in Slots : t # s => script'[t] = script[t]
           /\ script'[s].kind = kind /\ script'[s].pc = "start" /\ script'[s].to = to
           /\ script'[s].pipe = <<>>
    BY SpawnStep
  <1>2. \A t \in Slots : t # s => ~Current(t)'
    BY <1>1, NoneCurrent DEF Current, Present, Over
  <1>3. Present(s)' /\ Told(s)' /\ Placed(s)'
    BY <1>1 DEF Told, Placed, Present, NoScript
  <1>4. Tracked(s)'
    BY <1>1 DEF Tracked, Busy, NoApply, isTerminal, APPLY_TERMINAL
  <1> QED BY <1>2, <1>3, <1>4, OthersFollow

\* What is started, when something is: a task where there was none.
Started == /\ ~Busy
           /\ \E kind \in {"apply", "rollback"}, to \in Versions :
                /\ spawnPhases(kind, to) /\ apply'.to = to
                /\ apply'.trigger = "rollback" <=> kind = "rollback"
                /\ apply'.phase \in {"authorizing", "rollback"}
                /\ apply' # NoApply

LEMMA StartApplyStarts ==
  ASSUME ~Busy, NEW trigger \in {"manual", "auto"}, NEW to \in Versions, startApply(trigger, to)
  PROVE  Started
  BY DEF Started, startApply, NoApply

LEMMA AutoStarts ==
  ASSUME NEW auto, NEW avail, NEW manifest \in Versions, maybeAutoApply(auto, avail, manifest)
  PROVE  Started \/ UNCHANGED <<apply, script>>
  BY StartApplyStarts DEF maybeAutoApply, AutoApplies

\* What the supervisor and the world do: a task starts, or task and scripts stay.
LEMMA SupervisorStarts ==
  ASSUME TypeOK,
         \/ \E p \in Polls : PollStep(p) \/ PollRefused(p)
         \/ ManualApply \/ ManualRollback \/ (\E on \in BOOLEAN : SetAuto(on)) \/ Publish
  PROVE  UNCHANGED hostVars /\ (Started \/ UNCHANGED <<apply, script>>)
  <1>1. lastManifest \in Versions /\ 0 \in Versions /\ poll \in [Polls -> Versions]
    BY Sizes DEF TypeOK
  <1>2. CASE \E p \in Polls : PollList(p)
    BY <1>2 DEF PollList, supVars
  <1>3. ASSUME NEW p \in Polls, PollVerified(p)
        PROVE  UNCHANGED hostVars /\ (Started \/ UNCHANGED <<apply, script>>)
    <2>1. poll[p] \in Versions /\ maybeAutoApply(autoUpdate, poll[p] # 0 /\ poll[p] > currentVersion, poll[p])
      BY <1>1, <1>3 DEF PollVerified, setStatus
    <2> QED BY <1>3, <2>1, AutoStarts DEF PollVerified
  <1>4. ASSUME NEW p \in Polls, PollRefused(p)
        PROVE  UNCHANGED hostVars /\ (Started \/ UNCHANGED <<apply, script>>)
    BY <1>1, <1>4, AutoStarts DEF PollRefused, setStatus
  <1>5. CASE ManualApply
    BY <1>1, <1>5, StartApplyStarts DEF ManualApply
  <1>6. CASE ManualRollback
    BY <1>1, <1>6 DEF ManualRollback, Started, NoApply
  <1>7. CASE \E on \in BOOLEAN : SetAuto(on)
    BY <1>1, <1>7, AutoStarts DEF SetAuto
  <1>8. CASE Publish
    BY <1>8 DEF Publish, supVars
  <1> QED BY <1>2, <1>3, <1>4, <1>5, <1>6, <1>7, <1>8 DEF PollStep

\* A line is read: it is the script's task that it is about.
LEMMA LineFollowed ==
  ASSUME TypeOK, TypeOK', Followed, NEW s \in Slots, PhaseLine(s)
  PROVE  /\ Followed' /\ Busy /\ Tracked(s)
         /\ apply' = [apply EXCEPT !.phase = Head(script[s].pipe)]
         /\ Head(script[s].pipe) \in ActivePhases \/ LastWord(s, Head(script[s].pipe))
  <1>1. script[s].pipe # <<>> /\ Current(s) /\ Told(s) /\ Tracked(s) /\ Placed(s) /\ Busy
    <2>1. script[s].pipe # <<>> /\ Current(s) /\ ~Over(s)
      BY Absent DEF PhaseLine, Current, Over
    <2> QED BY <2>1, Leads DEF Followed, Tracked
  <1>2. apply' = [apply EXCEPT !.phase = Head(script[s].pipe)] /\ UNCHANGED hostVars
    BY DEF PhaseLine
  <1>3. /\ Same(s) /\ script'[s].pc = script[s].pc /\ script'[s].pipe = Tail(script[s].pipe)
        /\ script'[s].code = script[s].code
    BY ReadStep DEF PhaseLine
  <1>4. /\ script[s].pipe \in Seq(Lines) /\ Head(script[s].pipe) = script[s].pipe[1]
        /\ Len(script'[s].pipe) = Len(script[s].pipe) - 1 /\ Len(script[s].pipe) \in Nat \ {0}
        /\ \A k \in 1..(Len(script[s].pipe) - 1) : script'[s].pipe[k] = script[s].pipe[k + 1]
    BY <1>1, <1>3, Pipes, HeadTailProperties
  <1>5. script'[s].pipe = <<>> <=> Len(script'[s].pipe) = 0
    <2>1. script'[s].pipe \in Seq(Lines)
      BY <1>3 DEF Same, Process
    <2> QED BY <2>1, EmptySeq, LenProperties
  <1>6. /\ apply'.phase = Head(script[s].pipe) /\ apply'.to = apply.to /\ apply'.trigger = apply.trigger
    BY <1>2 DEF TypeOK
  <1>0. ASSUME NEW n \in Nat \ {0}, n # 1 PROVE n > 1 /\ 1 \in 1..(n - 1)
    BY <1>0
  <1>7. ASSUME script[s].pc # "exited" \/ Len(script[s].pipe) # 1
        PROVE  Head(script[s].pipe) \in ActivePhases /\ Told(s)' /\ Busy'
    <2>1. Head(script[s].pipe) \in ActivePhases
      <3>1. CASE script[s].pc # "exited"
        <4>1. 1 \in 1..Len(script[s].pipe) /\ \A k \in 1..Len(script[s].pipe) : script[s].pipe[k] \in ActivePhases
          BY <1>1, <1>4, <3>1 DEF Told
        <4> QED BY <1>4, <4>1
      <3>2. CASE script[s].pc = "exited"
        <4>1. \A k \in 1..(Len(script[s].pipe) - 1) : script[s].pipe[k] \in ActivePhases
          BY <1>1, <3>2 DEF Told
        <4>2. 1 \in 1..(Len(script[s].pipe) - 1)
          BY <1>0, <1>4, <1>7, <3>2
        <4> QED BY <1>4, <4>1, <4>2
      <3> QED BY <3>1, <3>2
    <2>2. Busy'
      BY <1>6, <2>1 DEF Busy, NoApply, isTerminal, ActivePhases, APPLY_TERMINAL
    <2>3. CASE script[s].pc # "exited"
      BY <1>1, <1>3, <1>4, <2>1, <2>2, <2>3 DEF Told
    <2>4. CASE script[s].pc = "exited"
      <3>1. /\ \A k \in 1..(Len(script[s].pipe) - 1) : script[s].pipe[k] \in ActivePhases
            /\ LastWord(s, script[s].pipe[Len(script[s].pipe)])
        BY <1>1, <2>4 DEF Told
      <3>2. script'[s].pipe[Len(script'[s].pipe)] = script[s].pipe[Len(script[s].pipe)]
        <4>1. PICK n \in Nat : n = Len(script[s].pipe) /\ n > 1
          BY <1>0, <1>4, <1>7, <2>4
        <4>2. script'[s].pipe[n - 1] = script[s].pipe[(n - 1) + 1]
          BY <1>4, <4>1
        <4> QED BY <1>4, <4>1, <4>2
      <3>3. LastWord(s, script[s].pipe[Len(script[s].pipe)])'
        BY <1>2, <1>3, <3>1, <3>2 DEF LastWord, Same, hostVars
      <3>4. \A k \in 1..(Len(script'[s].pipe) - 1) : script'[s].pipe[k] \in ActivePhases
        <4>1. PICK n \in Nat : n = Len(script[s].pipe) /\ n > 1
          BY <1>0, <1>4, <1>7, <2>4
        <4> SUFFICES ASSUME NEW k \in 1..(n - 2) PROVE script'[s].pipe[k] \in ActivePhases
          BY <1>4, <4>1
        <4>2. k \in 1..(n - 1) /\ k + 1 \in 1..(n - 1)
          BY <4>1
        <4> QED BY <1>4, <3>1, <4>1, <4>2
      <3>5. script'[s].pipe # <<>>
        <4>1. Len(script'[s].pipe) # 0
          BY <1>0, <1>4, <1>7, <2>4
        <4> QED BY <1>5, <4>1
      <3> QED BY <1>3, <2>1, <2>2, <2>4, <3>3, <3>4, <3>5 DEF Told
    <2> QED BY <2>3, <2>4
  <1>8. ASSUME script[s].pc = "exited", Len(script[s].pipe) = 1
        PROVE  LastWord(s, Head(script[s].pipe)) /\ Told(s)' /\ script'[s].pipe = <<>>
    <2>1. LastWord(s, Head(script[s].pipe))
      BY <1>1, <1>4, <1>8 DEF Told
    <2>2. script'[s].pipe = <<>>
      BY <1>4, <1>5, <1>8
    <2>3. LastWord(s, apply.phase)'
      BY <1>2, <1>3, <1>6, <2>1 DEF LastWord, Same, hostVars
    <2> QED BY <1>3, <1>8, <2>1, <2>2, <2>3 DEF Told
  <1>9. Tracked(s)' /\ Placed(s)'
    <2>1. apply'.phase # "none"
      BY <1>6, <1>7, <1>8 DEF LastWord, Terminal, ActivePhases, APPLY_TERMINAL
    <2>2. Busy' \/ Over(s)'
      BY <1>3, <1>7, <1>8 DEF Over
    <2> QED BY <1>1, <1>2, <1>3, <1>6, <2>1, <2>2 DEF Tracked, Placed, Same, hostVars
  <1>10. \A t \in Slots : t # s => ~Current(t)'
    BY <1>1, <1>3 DEF Followed, Same, Current, Present, Over
  <1>11. Present(s)'
    BY <1>1, <1>3 DEF Tracked, Present, NoScript
  <1> QED BY <1>1, <1>2, <1>7, <1>8, <1>9, <1>10, <1>11, OthersFollow

\* What a close event leaves: it is that of the only script, or another one is there and it is late.
LEMMA CloseLeaves ==
  ASSUME TypeOK, NEW s \in Slots, CloseApply(s) \/ CloseRollback(s)
  PROVE  /\ Over(s) /\ Present(s) /\ UNCHANGED hostVars /\ Closed(s) /\ apply'.phase \in APPLY_TERMINAL
         /\ ~Present(s)' /\ \A t \in Slots : t # s => script'[t] = script[t]
         /\ crossed' = 0 => Leading(s) /\ \A t \in Slots : ~Present(t)'
  <1>1. Over(s) /\ Present(s) /\ UNCHANGED hostVars /\ Closed(s)
    BY DEF CloseApply, CloseRollback, At, Present, NoScript, Over
  <1>2. apply'.phase \in APPLY_TERMINAL
    <2>1. \A phase : [apply EXCEPT !.phase = phase].phase = phase
      BY DEF TypeOK
    <2> QED BY <2>1 DEF CloseApply, CloseRollback, isTerminal, APPLY_TERMINAL
  <1>3. ~Present(s)' /\ \A t \in Slots : t # s => script'[t] = script[t]
    BY <1>1 DEF Closed, Becomes, Present, TypeOK
  <1>4. ASSUME crossed' = 0 PROVE \A t \in Slots : t # s => ~Present(t)
    BY <1>1, <1>4 DEF Closed, Present, TypeOK
  <1> QED BY <1>1, <1>2, <1>3, <1>4 DEF Leading, Present

\* The close event of the only script has nothing to add to its last line.
LEMMA CloseFollowed ==
  ASSUME TypeOK, Followed, NEW s \in Slots, CloseApply(s) \/ CloseRollback(s), crossed' = 0
  PROVE  apply' = apply
  <1>1. script[s].pc = "exited" /\ script[s].pipe = <<>> /\ Leading(s)
    BY CloseLeaves DEF Over
  <1>2. LastWord(s, apply.phase)
    BY <1>1 DEF Followed, Told
  <1>3. CASE CloseApply(s)
    <2>1. CASE script[s].code = 0
      <3>1. apply.phase = "done" /\ apply' = [apply EXCEPT !.phase = "done"]
        BY <1>2, <1>3, <2>1 DEF LastWord, CloseApply, At
      <3> QED BY <3>1 DEF TypeOK
    <2>2. CASE script[s].code # 0
      BY <1>2, <1>3, <2>2 DEF LastWord, CloseApply, Terminal, isTerminal
    <2> QED BY <2>1, <2>2
  <1>4. CASE CloseRollback(s)
    BY <1>2, <1>4 DEF LastWord, CloseRollback, Terminal, isTerminal
  <1> QED BY <1>3, <1>4

\* Only close events and restarts count.
LEMMA CrossedStep ==
  [Next]_vars => UNCHANGED crossed \/ Restart \/ \E s \in Slots : CloseApply(s) \/ CloseRollback(s)
  <1> SUFFICES ASSUME [Next]_vars PROVE UNCHANGED crossed \/ Restart \/ \E s \in Slots : CloseApply(s) \/ CloseRollback(s)
    OBVIOUS
  <1>1. CASE UNCHANGED vars
    BY <1>1 DEF vars, history
  <1>2. CASE \E p \in Polls : PollStep(p) \/ PollRefused(p)
    BY <1>2 DEF PollStep, PollList, PollVerified, PollRefused, history
  <1>3. ASSUME NEW s \in Slots, Works(s) PROVE UNCHANGED crossed
    BY <1>3 DEF Works, ApplyBegin, Backup, Pull, Recreate, Healthcheck, RollbackBegin, RollbackRefused, RestoreVersion,
       RestoreDatabase, Recheck, BackupFails, RecreateFails, Quietly, ScriptOnly
  <1>4. CASE \/ \E s \in Slots : PhaseLine(s)
             \/ ManualApply \/ ManualRollback \/ (\E on \in BOOLEAN : SetAuto(on)) \/ Publish
    BY <1>4 DEF PhaseLine, ManualApply, ManualRollback, SetAuto, Publish, history
  <1> QED BY <1>1, <1>2, <1>3, <1>4 DEF Next, ScriptStep, Works

LEMMA FollowedStep == IInv /\ [Next]_vars => IInv'
  <1> SUFFICES ASSUME TypeOK, Sound, crossed = 0 => Followed, [Next]_vars PROVE IInv'
    BY DEF IInv
  <1>1. TypeOK' /\ Sound'
    BY TypesStep
  <1>2. SUFFICES ASSUME crossed' = 0 PROVE Followed'
    BY <1>1 DEF IInv
  <1>3. ASSUME \A s \in Slots : ~Present(s)' PROVE Followed'
    BY <1>3 DEF Followed, Current, Leading
  <1>4. CASE Restart
    <2>1. \A s \in Slots : ~Present(s)'
      BY <1>4 DEF Restart, Present
    <2> QED BY <1>3, <2>1
  <1>5. CASE \E s \in Slots : CloseApply(s) \/ CloseRollback(s)
    BY <1>2, <1>3, <1>5, CloseLeaves
  <1>6. SUFFICES ASSUME Followed PROVE Followed'
    BY <1>2, <1>4, <1>5, CrossedStep
  <1>7. ASSUME Started PROVE Followed'
    BY <1>6, <1>7, StartFollowed DEF Started
  <1>8. ASSUME UNCHANGED vars PROVE Followed'
    BY <1>6, <1>8, FollowedStays DEF vars, supVars, hostVars
  <1>9. ASSUME NEW s \in Slots, Works(s) PROVE Followed'
    <2>1. Placed(s)
      BY <1>6, <1>9, WorksLive, LiveCurrent, Leads DEF Followed
    <2> QED BY <1>1, <1>6, <1>9, <2>1, ScriptTypes, ScriptWrites, ScriptFollowed, CountsStep
  <1>10. ASSUME \/ \E p \in Polls : PollStep(p) \/ PollRefused(p)
                \/ ManualApply \/ ManualRollback \/ (\E on \in BOOLEAN : SetAuto(on)) \/ Publish
         PROVE  Followed'
    BY <1>6, <1>7, <1>10, SupervisorStarts, FollowedStays DEF hostVars
  <1>11. ASSUME NEW s \in Slots, PhaseLine(s) PROVE Followed'
    BY <1>1, <1>6, <1>11, LineFollowed
  <1> QED BY <1>4, <1>5, <1>8, <1>9, <1>10, <1>11 DEF Next, ScriptStep, Works

LEMMA FollowedInit == Init => IInv
  BY TypesInit DEF Init, IInv, Followed, Current, Leading, Present

-----------------------------------------------------------------------------
(* What follows from it. *)

\* Whatever happens, no two scripts work on the deployment at once: the phase that was last read
\* is enough to refuse a second task (startApply, startRollback), also between a script's last line
\* and its close event, until one of those close events comes after the next task has started.
THEOREM OneAtATime == Spec => []OneScript
  <1>1. IInv /\ [Next]_vars => IInv'
    BY FollowedStep
  <1>2. IInv => OneScript
    BY LiveCurrent DEF IInv, Followed, OneScript, Live
  <1> QED BY FollowedInit, <1>1, <1>2, PTL DEF Spec

\* What the status shows: the task in progress, and how the last one ended.
Shown == IF Busy THEN [kind |-> IF apply.trigger = "rollback" THEN "rollback" ELSE "apply", to |-> apply.to]
         ELSE [kind |-> "none", to |-> 0]
Ended == IF apply.phase \in APPLY_TERMINAL THEN apply.phase ELSE "none"

LEMMA ShownEnded ==
  /\ ~Busy => Shown = [kind |-> "none", to |-> 0]
  /\ Busy => /\ Shown.kind = (IF apply.trigger = "rollback" THEN "rollback" ELSE "apply") /\ Shown.to = apply.to
             /\ Shown # [kind |-> "none", to |-> 0] /\ Ended = "none"
  BY DEF Shown, Ended, Busy, isTerminal

\* A step of the supervisor or of a script, as a reader of the status sees it, no close being late.
LEMMA TruthfulStep ==
  ASSUME IInv, IInv', [Next]_vars, crossed = 0, crossed' = 0
  PROVE  [Lifecycle!LifeNext]_(Lifecycle!lifeVars)
  <1> DEFINE Stutter == Shown' = Shown /\ Ended' = Ended /\ running' = running
             Begin == /\ ~Busy /\ Shown' \in [kind : {"apply", "rollback"}, to : Nat]
                      /\ Ended' = "none" /\ running' = running
             Replace == Busy /\ Shown' = Shown /\ Ended' = Ended /\ running' \in Nat
             Settle == /\ Busy /\ ~Busy' /\ Ended' = apply'.phase /\ running' = running
                       /\ apply'.phase \in APPLY_TERMINAL
                       /\ apply'.phase = "done" => Shown.kind = "apply" /\ running = Shown.to
             Forget == ~Busy' /\ Ended' = "none" /\ running' = running
  <1>1. SUFFICES Stutter \/ Begin \/ Replace \/ Settle \/ Forget
    <2>1. CASE Stutter
      BY <2>1 DEF Lifecycle!lifeVars, Shown, Ended
    <2>2. CASE Begin
      BY <2>2 DEF Lifecycle!LifeNext, Lifecycle!Truthful, Lifecycle!Begin, Lifecycle!NoTask, Lifecycle!Tasks, Shown, Ended
    <2>3. CASE Replace
      BY <2>3, ShownEnded DEF Lifecycle!LifeNext, Lifecycle!Truthful, Lifecycle!Replace, Lifecycle!NoTask, Shown, Ended
    <2>4. CASE Settle
      BY <2>4, ShownEnded DEF Lifecycle!LifeNext, Lifecycle!Truthful, Lifecycle!SettleDone, Lifecycle!SettleOther,
                              Lifecycle!NoTask, Shown, Ended, APPLY_TERMINAL
    <2>5. CASE Forget
      BY <2>5 DEF Lifecycle!LifeNext, Lifecycle!Truthful, Lifecycle!Forget, Lifecycle!NoTask, Shown, Ended
    <2> QED BY <1>1, <2>1, <2>2, <2>3, <2>4, <2>5
  <1>2. ASSUME UNCHANGED <<apply, running>> PROVE Stutter
    BY <1>2 DEF Shown, Ended, Busy
  <1>3. TypeOK /\ TypeOK' /\ Sound /\ Followed
    BY DEF IInv
  <1>4. ASSUME Started, running' = running PROVE Begin
    <2>1. PICK to \in Versions : apply'.to = to /\ apply'.phase \in {"authorizing", "rollback"} /\ apply' # NoApply
      BY <1>4 DEF Started
    <2>2. Busy' /\ to \in Nat
      BY <2>1, Sizes DEF Busy, isTerminal, APPLY_TERMINAL, Versions
    <2> QED BY <1>4, <2>1, <2>2 DEF Started, Shown, Ended, APPLY_TERMINAL
  <1>5. CASE UNCHANGED vars
    BY <1>2, <1>5 DEF vars, supVars, hostVars
  <1>6. ASSUME NEW s \in Slots, Works(s) PROVE Replace
    <2>1. Placed(s)
      BY <1>3, <1>6, WorksLive, LiveCurrent, Leads DEF Followed
    <2>2. Busy /\ ScriptOnly
      BY <1>3, <1>6, <2>1, ScriptTypes, ScriptWrites, ScriptFollowed, CountsStep
    <2>3. running' \in Nat
      BY <1>3, Sizes DEF TypeOK, Versions
    <2> QED BY <2>2, <2>3 DEF ScriptOnly, supVars, Shown, Ended, Busy
  <1>7. CASE \/ \E p \in Polls : PollStep(p) \/ PollRefused(p)
             \/ ManualApply \/ ManualRollback \/ (\E on \in BOOLEAN : SetAuto(on)) \/ Publish
    BY <1>2, <1>3, <1>4, <1>7, SupervisorStarts DEF hostVars
  <1>8. ASSUME NEW s \in Slots, PhaseLine(s) PROVE Stutter \/ Settle
    <2>1. /\ Busy /\ Tracked(s) /\ running' = running
          /\ apply' = [apply EXCEPT !.phase = Head(script[s].pipe)]
          /\ Head(script[s].pipe) \in ActivePhases \/ LastWord(s, Head(script[s].pipe))
      BY <1>3, <1>8, LineFollowed DEF PhaseLine, hostVars
    <2>2. apply'.phase = Head(script[s].pipe) /\ apply'.to = apply.to /\ apply'.trigger = apply.trigger
      BY <1>3, <2>1 DEF TypeOK
    <2>3. CASE Head(script[s].pipe) \in ActivePhases
      <3>1. Busy' /\ apply'.phase \notin APPLY_TERMINAL
        BY <2>2, <2>3 DEF Busy, NoApply, isTerminal, ActivePhases, APPLY_TERMINAL
      <3> QED BY <2>1, <2>2, <3>1 DEF Shown, Ended, Busy, isTerminal
    <2>4. CASE LastWord(s, Head(script[s].pipe))
      <3>1. apply'.phase \in APPLY_TERMINAL /\ ~Busy' /\ Ended' = apply'.phase
        BY <2>2, <2>4 DEF LastWord, Terminal, Busy, isTerminal, Ended
      <3>2. apply'.phase = "done" => Shown.kind = "apply" /\ running = Shown.to
        BY <2>1, <2>2, <2>4, ShownEnded DEF LastWord, Tracked
      <3> QED BY <2>1, <3>1, <3>2
    <2> QED BY <2>1, <2>3, <2>4
  <1>9. ASSUME NEW s \in Slots, CloseApply(s) \/ CloseRollback(s) PROVE Stutter
    BY <1>2, <1>3, <1>9, CloseLeaves, CloseFollowed DEF hostVars
  <1>10. CASE Restart
    BY <1>10 DEF Restart, hostVars, NoApply, Busy, Ended, APPLY_TERMINAL
  <1> QED BY <1>5, <1>6, <1>7, <1>8, <1>9, <1>10 DEF Next, ScriptStep, Works

\* And when one is.
LEMMA MuddledStep ==
  ASSUME IInv, IInv', [Next]_vars, crossed # 0 \/ crossed' # 0
  PROVE  Lifecycle!LifeNext
  <1>1. TypeOK /\ TypeOK'
    BY DEF IInv
  <1>2. /\ Shown' \in [kind : {"apply", "rollback"}, to : Nat] \cup {[kind |-> "none", to |-> 0]}
        /\ Ended' \in {"none", "done", "rolled_back", "failed"} /\ running' \in Nat
    <2>1. apply'.to \in Nat /\ running' \in Nat
      BY <1>1, Sizes DEF TypeOK, Versions
    <2> QED BY <2>1 DEF Shown, Ended, APPLY_TERMINAL
  <1>3. ASSUME NEW s \in Slots, CloseApply(s) \/ CloseRollback(s)
        PROVE  ~Busy' /\ Ended' # "none" /\ running' = running
    <2>1. apply'.phase \in APPLY_TERMINAL /\ running' = running
      BY <1>1, <1>3, CloseLeaves DEF hostVars
    <2> QED BY <2>1 DEF Busy, isTerminal, Ended, APPLY_TERMINAL
  <1>4. ASSUME Restart PROVE ~Busy' /\ running' = running /\ crossed' = 0
    BY <1>4 DEF Restart, Busy, hostVars
  <1>5. CASE crossed = 0
    <2>1. ~Busy' /\ Ended' # "none" /\ running' = running
      BY <1>3, <1>4, <1>5, CrossedStep
    <2>2. Lifecycle!Muddle
      BY <1>2, <1>5, <2>1 DEF Lifecycle!Muddle, Lifecycle!NoTask, Lifecycle!Ends, Ended
    <2> QED BY <2>2 DEF Lifecycle!LifeNext
  <1>6. CASE crossed # 0 /\ crossed' # 0
    <2>1. Lifecycle!Muddling
      BY <1>2, <1>6 DEF Lifecycle!Muddling, Lifecycle!NoTask, Lifecycle!Tasks, Lifecycle!Ends, Shown, Ended
    <2> QED BY <2>1 DEF Lifecycle!LifeNext
  <1>7. CASE crossed # 0 /\ crossed' = 0
    <2>1. ~Busy' /\ running' = running
      BY <1>3, <1>4, <1>7, CrossedStep
    <2>2. Lifecycle!Clear
      BY <1>2, <1>7, <2>1 DEF Lifecycle!Clear, Lifecycle!NoTask, Lifecycle!Ends, Ended
    <2> QED BY <2>2 DEF Lifecycle!LifeNext
  <1> QED BY <1>5, <1>6, <1>7

\* The status tells the truth about the deployment (UpdateLifecycle): one task at a time, the
\* container replaced during a task only, and a task reported as done leaves its target running;
\* but for the time from a late close event until the last script has closed.
THEOREM TruthfulStatus == Spec => ImplementsLifecycle
  <1>1. IInv /\ [Next]_vars => IInv'
    BY FollowedStep
  <1>2. Init => Lifecycle!LifeInit
    BY Sizes DEF Init, Lifecycle!LifeInit, Lifecycle!NoTask, NoApply, Busy, APPLY_TERMINAL, Versions
  <1>3. IInv /\ IInv' /\ [Next]_vars => [Lifecycle!LifeNext]_(Lifecycle!lifeVars)
    BY TruthfulStep, MuddledStep
  <1> QED BY FollowedInit, <1>1, <1>2, <1>3, PTL DEF Spec, ImplementsLifecycle, Lifecycle!LifeSpec

-----------------------------------------------------------------------------
(* The deployment at each line of a script, whatever fails outside, as long as no step of the undoing  *)
(* fails, no restart ends a script, no close event is late and no update is begun for an older version.*)

Pure == seen \subseteq {"rollback"}

AtRest == env = running /\ db = running

Course(s) ==
    LET c == script[s] IN
    /\ c.pc \in {"start", "nobackup", "backup", "pull", "recheck", "exited"} => AtRest
    /\ c.pc \in {"backup", "pull"} => c.old = env /\ db <= c.to
    /\ c.pc = "pull" => c.oldDb = db
    /\ c.pc \in {"recreate", "healthcheck", "rollback", "restore"} => c.old = c.oldDb
    /\ c.pc = "recreate" => env = c.to /\ running = c.old /\ db = c.old /\ db <= c.to
    /\ c.pc = "healthcheck" => env = c.to /\ running = c.to /\ db = c.to
    /\ c.pc = "restore" => env = c.old /\ running = c.old

\* What a rollback would go back to is a version with its own database.
Matching == latest # NoBackup => latest.ver = latest.db

Orderly ==
    /\ Matching
    /\ \A s \in Slots : Live(s) => Course(s)
    /\ (\A s \in Slots : ~Live(s)) => AtRest

CleanInv == (crossed # 0 => "late" \in seen) /\ (Pure => Orderly)

LEMMA Ranks ==
  ASSUME TypeOK
  PROVE  /\ env \in Nat /\ running \in Nat /\ db \in Nat /\ latest \in [ver : Versions, db : Versions]
         /\ env \in Versions /\ db \in Versions /\ latest.ver \in Versions /\ latest.db \in Versions
         /\ \A s \in Slots : /\ script[s] \in Process /\ script[s].to \in Nat
                             /\ script[s].old \in Versions /\ script[s].oldDb \in Versions
  BY Sizes DEF TypeOK, Versions, Process

\* A close event that is late is noted, and so is all that is left of its trace.
LEMMA LateNoted ==
  ASSUME TypeOK, crossed # 0 => "late" \in seen, [Next]_vars
  PROVE  crossed' # 0 => "late" \in seen'
  <1>1. seen \subseteq seen'
    BY CountsStep
  <1>2. CASE Restart
    BY <1>2 DEF Restart
  <1>3. ASSUME NEW s \in Slots, CloseApply(s) \/ CloseRollback(s) PROVE crossed' # 0 => "late" \in seen'
    <2>1. Closed(s)
      BY <1>3, CloseLeaves
    <2> QED BY <2>1 DEF Closed, Note
  <1> QED BY <1>1, <1>2, <1>3, CrossedStep

\* One step of a script that nothing disturbs.
LEMMA CourseRuns ==
  ASSUME TypeOK, Pure', Matching, NEW s \in Slots, Course(s), Works(s)
  PROVE  Same(s) /\ Course(s)' /\ Matching'
  <1>1. /\ env \in Nat /\ running \in Nat /\ db \in Nat
        /\ env \in Versions /\ db \in Versions /\ latest.ver \in Versions /\ latest.db \in Versions
        /\ script[s] \in Process /\ script[s].to \in Nat
        /\ script[s].old \in Versions /\ script[s].oldDb \in Versions
    BY Ranks
  <1>2. ~Note("undo", TRUE)
    BY DEF Note, Pure
  <1>3. ASSUME UNCHANGED latest PROVE Matching'
    BY <1>3 DEF Matching
  <1>4. \A line \in {"backup", "pull", "recreate", "healthcheck", "rollback"} : line \in Lines /\ line \in Pcs
    BY DEF Lines, ActivePhases, Pcs
  <1>5. \A line \in APPLY_TERMINAL : line \in Lines
    BY DEF Lines
  <1>6. CASE ApplyBegin(s)
    <2>1. [script[s] EXCEPT !.pipe = Append(script[s].pipe, "backup"), !.pc = "backup", !.old = env]
           = [script[s] EXCEPT !.pipe = Append(script[s].pipe, "backup"), !.pc = "backup", !.old = env,
                               !.oldDb = script[s].oldDb]
      BY <1>1 DEF Process
    <2>2. Jot(s, "backup", "backup", env, script[s].oldDb) /\ UNCHANGED hostVars
      BY <1>6, <2>1 DEF ApplyBegin, Jot
    <2>3. Same(s) /\ script'[s].pc = "backup" /\ script'[s].old = env
      <3>1. "backup" \in Lines /\ "backup" \in Pcs
        BY <1>4
      <3>2. PICK old \in Versions, oldDb \in Versions : old = env /\ oldDb = script[s].oldDb
        BY <1>1
      <3> QED BY <2>2, <3>1, <3>2, JotStep
    <2>4. ~(script[s].to < db) /\ AtRest
      BY <1>6 DEF ApplyBegin, At, Note, Pure, Course
    <2>5. db <= script[s].to
      BY <1>1, <2>4
    <2> QED BY <1>3, <2>2, <2>3, <2>4, <2>5 DEF Course, AtRest, Same, hostVars
  <1>7. CASE Backup(s)
    <2>1. [script[s] EXCEPT !.pipe = Append(script[s].pipe, "pull"), !.pc = "pull", !.oldDb = db]
           = [script[s] EXCEPT !.pipe = Append(script[s].pipe, "pull"), !.pc = "pull", !.old = script[s].old,
                               !.oldDb = db]
      BY <1>1 DEF Process
    <2>2. Jot(s, "pull", "pull", script[s].old, db)
      BY <1>7, <2>1 DEF Backup, Jot
    <2>3. Same(s) /\ script'[s].pc = "pull" /\ script'[s].old = script[s].old /\ script'[s].oldDb = db
      BY <1>1, <1>4, <2>2, JotStep
    <2>4. AtRest /\ script[s].old = env /\ db <= script[s].to
      BY <1>7 DEF Backup, At, Course
    <2>5. Course(s)'
      BY <1>7, <2>3, <2>4 DEF Backup, Course, AtRest, Same
    <2>6. Matching'
      BY <1>7, <2>4 DEF Backup, Matching, AtRest
    <2> QED BY <2>3, <2>5, <2>6
  <1>8. CASE BackupFails(s)
    <2>1. Same(s) /\ script'[s].pc = "exited"
      BY <1>5, <1>8, ExitStep DEF BackupFails, APPLY_TERMINAL
    <2> QED BY <1>3, <1>8, <2>1 DEF BackupFails, At, Course, AtRest, hostVars
  <1>9. ASSUME Emit(s, "rollback", "rollback"), script[s].old = script[s].oldDb, UNCHANGED latest
        PROVE  Same(s) /\ Course(s)' /\ Matching'
    <2>1. /\ Same(s) /\ script'[s].pc = "rollback" /\ script'[s].old = script[s].old
          /\ script'[s].oldDb = script[s].oldDb
      BY <1>4, <1>9, EmitStep
    <2> QED BY <1>3, <1>9, <2>1 DEF Course
  <1>10. CASE Pull(s)
    <2>1. AtRest /\ script[s].old = env /\ db <= script[s].to /\ script[s].oldDb = db
      BY <1>10 DEF Pull, At, Course
    <2>2. env' = script[s].to /\ UNCHANGED <<running, db, latest>>
      BY <1>10 DEF Pull
    <2>3. CASE Emit(s, "recreate", "recreate")
      <3>1. /\ Same(s) /\ script'[s].pc = "recreate" /\ script'[s].old = script[s].old
            /\ script'[s].oldDb = script[s].oldDb
        BY <1>4, <2>3, EmitStep
      <3> QED BY <1>3, <2>1, <2>2, <3>1 DEF Course, AtRest, Same
    <2> QED BY <1>9, <1>10, <2>1, <2>2, <2>3 DEF Pull, AtRest
  <1>11. CASE Recreate(s)
    <2>1. Emit(s, "healthcheck", "healthcheck") /\ running' = env /\ db' = Newer(db, env) /\ UNCHANGED <<env, latest>>
      BY <1>11 DEF Recreate
    <2>2. /\ Same(s) /\ script'[s].pc = "healthcheck" /\ script'[s].old = script[s].old
          /\ script'[s].oldDb = script[s].oldDb
      BY <1>4, <2>1, EmitStep
    <2>3. env = script[s].to /\ db <= script[s].to /\ script[s].old = script[s].oldDb
      BY <1>11 DEF Recreate, At, Course
    <2>4. db' = script[s].to
      BY <1>1, <2>1, <2>3 DEF Newer
    <2> QED BY <1>3, <2>1, <2>2, <2>3, <2>4 DEF Course, Same
  <1>12. CASE RecreateFails(s)
    BY <1>9, <1>12 DEF RecreateFails, At, Course
  <1>13. CASE Healthcheck(s)
    <2>1. CASE ExitWith(s, "done", 0)
      <3>1. Same(s) /\ script'[s].pc = "exited"
        BY <1>5, <2>1, ExitStep DEF APPLY_TERMINAL
      <3> QED BY <1>3, <1>13, <3>1 DEF Healthcheck, At, Course, AtRest, hostVars
    <2> QED BY <1>9, <1>13, <2>1 DEF Healthcheck, At, Course, hostVars
  <1>14. CASE RollbackBegin(s)
    <2>1. AtRest /\ UNCHANGED hostVars
      BY <1>14 DEF RollbackBegin, At, Course
    <2>2. CASE latest = NoBackup
      <3>1. "rollback" \in Lines /\ "nobackup" \in Pcs /\ Emit(s, "rollback", "nobackup")
        BY <1>14, <2>2 DEF RollbackBegin, Lines, ActivePhases, Pcs
      <3>2. Same(s) /\ script'[s].pc = "nobackup"
        BY <3>1, EmitStep
      <3> QED BY <1>3, <2>1, <3>2 DEF Course, AtRest, hostVars
    <2>3. CASE latest # NoBackup
      <3>1. Jot(s, "rollback", "rollback", latest.ver, latest.db)
        BY <1>14, <2>3 DEF RollbackBegin, Jot
      <3>2. PICK ver \in Versions, data \in Versions : ver = latest.ver /\ data = latest.db
        BY <1>1
      <3>3. "rollback" \in Lines /\ "rollback" \in Pcs
        BY <1>4
      <3>4. /\ Same(s) /\ script'[s].pc = "rollback" /\ script'[s].old = latest.ver
            /\ script'[s].oldDb = latest.db
        BY <3>1, <3>2, <3>3, JotStep
      <3> QED BY <1>3, <2>1, <2>3, <3>4 DEF Course, Matching, hostVars
    <2> QED BY <2>2, <2>3
  <1>15. CASE RollbackRefused(s)
    <2>1. Same(s) /\ script'[s].pc = "exited"
      BY <1>5, <1>15, ExitStep DEF RollbackRefused, APPLY_TERMINAL
    <2> QED BY <1>3, <1>15, <2>1 DEF RollbackRefused, At, Course, AtRest, hostVars
  <1>16. CASE RestoreVersion(s)
    <2>1. /\ Same(s) /\ script'[s].pc = "restore" /\ script'[s].old = script[s].old
          /\ script'[s].oldDb = script[s].oldDb
      BY <1>16, MoveStep DEF RestoreVersion, Pcs
    <2>2. script[s].old = script[s].oldDb /\ env' = script[s].old /\ running' = script[s].old /\ UNCHANGED latest
      BY <1>2, <1>16 DEF RestoreVersion, Course
    <2> QED BY <1>3, <2>1, <2>2 DEF Course
  <1>17. CASE RestoreDatabase(s)
    <2>1. Same(s) /\ script'[s].pc = "recheck"
      BY <1>17, MoveStep DEF RestoreDatabase, Pcs
    <2>2. /\ script[s].old = script[s].oldDb /\ env = script[s].old /\ running = script[s].old
          /\ db' = script[s].oldDb /\ UNCHANGED <<env, running, latest>>
      BY <1>2, <1>17 DEF RestoreDatabase, Course
    <2> QED BY <1>3, <2>1, <2>2 DEF Course, AtRest
  <1>18. CASE Recheck(s)
    <2>1. PICK line \in APPLY_TERMINAL, code \in 0..1 : ExitWith(s, line, code)
      BY <1>18 DEF Recheck, APPLY_TERMINAL
    <2>2. Same(s) /\ script'[s].pc = "exited"
      BY <1>5, <2>1, ExitStep
    <2> QED BY <1>3, <1>18, <2>2 DEF Recheck, Course, AtRest, hostVars
  <1> QED BY <1>6, <1>7, <1>8, <1>10, <1>11, <1>12, <1>13, <1>14, <1>15, <1>16, <1>17, <1>18 DEF Works

\* The deployment, its backup and the scripts stay as they are, but for scripts that have exited.
LEMMA OrderlyStays ==
  ASSUME Orderly, UNCHANGED hostVars,
         \A s \in Slots : /\ Live(s) <=> Live(s)'
                          /\ Live(s) => /\ script'[s].pc = script[s].pc /\ script'[s].to = script[s].to
                                        /\ script'[s].old = script[s].old /\ script'[s].oldDb = script[s].oldDb
  PROVE  Orderly'
  <1>1. Matching' /\ (AtRest <=> AtRest')
    BY DEF Orderly, Matching, AtRest, hostVars
  <1>2. ASSUME NEW s \in Slots, Live(s)' PROVE Course(s)'
    BY <1>1, <1>2 DEF Orderly, Course, hostVars
  <1> QED BY <1>1, <1>2 DEF Orderly

LEMMA CleanStep == IInv /\ CleanInv /\ [Next]_vars => IInv' /\ CleanInv'
  <1> SUFFICES ASSUME IInv, CleanInv, [Next]_vars PROVE IInv' /\ CleanInv'
    OBVIOUS
  <1>1. IInv' /\ TypeOK /\ Sound /\ (crossed' # 0 => "late" \in seen')
    BY FollowedStep, LateNoted DEF IInv, CleanInv
  <1>2. SUFFICES ASSUME Pure' PROVE Orderly'
    BY <1>1 DEF CleanInv
  <1>3. Orderly /\ Followed
    <2>1. Pure
      BY <1>1, <1>2, CountsStep DEF Pure
    <2> QED BY <2>1 DEF CleanInv, IInv, Pure
  <1>4. ASSUME NEW s \in Slots, Works(s) PROVE Orderly'
    <2>1. script[s].pc \notin {"off", "exited"} /\ Current(s)
      BY <1>4, WorksLive, LiveCurrent
    <2>2. Same(s) /\ Course(s)' /\ Matching'
      BY <1>1, <1>2, <1>3, <1>4, <2>1, CourseRuns DEF Orderly, Live
    <2>3. \A t \in Slots : t # s => ~Live(t)'
      <3>1. \A t \in Slots : t # s => ~Current(t)
        BY <1>3, <2>1 DEF Followed
      <3> QED BY <2>2, <3>1, LiveCurrent DEF Same, Live
    <2>4. ~Live(s)' => AtRest'
      <3>1. script'[s].pc # "off"
        BY <1>1, <1>3, <1>4, <2>1, ScriptWrites, Leads DEF Followed, Writes
      <3> QED BY <2>2, <3>1 DEF Live, Course
    <2> QED BY <2>2, <2>3, <2>4 DEF Orderly
  <1>5. ASSUME Started, UNCHANGED hostVars PROVE Orderly'
    <2>1. \A s \in Slots : ~Live(s)
      BY <1>3, <1>5, NoneCurrent, LiveCurrent DEF Started, Live
    <2>2. PICK kind \in {"apply", "rollback"}, to \in Versions : spawnPhases(kind, to)
      BY <1>5 DEF Started
    <2>3. PICK s \in Slots :
             /\ \A t \in Slots : t # s => script'[t] = script[t]
             /\ script'[s].pc = "start"
      BY <1>1, <2>2, SpawnStep
    <2>4. Live(s)' /\ \A t \in Slots : t # s => ~Live(t)'
      BY <2>1, <2>3 DEF Live
    <2>5. AtRest' /\ Matching'
      BY <1>3, <1>5, <2>1 DEF Orderly, AtRest, Matching, hostVars
    <2>6. Course(s)'
      BY <2>3, <2>5 DEF Course
    <2> QED BY <2>4, <2>5, <2>6 DEF Orderly
  <1>6. ASSUME UNCHANGED <<script, hostVars>> PROVE Orderly'
    BY <1>3, <1>6, OrderlyStays DEF Live
  <1>7. CASE \/ \E p \in Polls : PollStep(p) \/ PollRefused(p)
             \/ ManualApply \/ ManualRollback \/ (\E on \in BOOLEAN : SetAuto(on)) \/ Publish
    BY <1>1, <1>5, <1>6, <1>7, SupervisorStarts
  <1>8. ASSUME NEW s \in Slots, PhaseLine(s) PROVE Orderly'
    <2>1. /\ Same(s) /\ script'[s].pc = script[s].pc /\ script'[s].old = script[s].old
          /\ script'[s].oldDb = script[s].oldDb /\ UNCHANGED hostVars
      BY <1>1, <1>8, ReadStep DEF PhaseLine
    <2> QED BY <1>3, <2>1, OrderlyStays DEF Live, Same
  <1>9. ASSUME NEW s \in Slots, CloseApply(s) \/ CloseRollback(s) PROVE Orderly'
    <2>1. /\ script[s].pc = "exited" /\ script'[s].pc = "off" /\ UNCHANGED hostVars
          /\ \A t \in Slots : t # s => script'[t] = script[t]
      BY <1>1, <1>9, CloseLeaves DEF Over, Present, NoScript
    <2> QED BY <1>3, <2>1, OrderlyStays DEF Live
  <1>10. CASE Restart
    <2>1. UNCHANGED hostVars /\ \A s \in Slots : ~Live(s)
      BY <1>2, <1>10 DEF Restart, Note, Pure
    <2>2. \A s \in Slots : script'[s].pc = "off"
      BY <1>10, NoScriptFields DEF Restart
    <2> QED BY <1>3, <2>1, <2>2, OrderlyStays DEF Live
  <1>11. CASE UNCHANGED vars
    BY <1>6, <1>11 DEF vars
  <1> QED BY <1>4, <1>7, <1>8, <1>9, <1>10, <1>11 DEF Next, ScriptStep, Works

LEMMA CleanInit == Init => CleanInv
  <1> SUFFICES ASSUME Init PROVE CleanInv
    OBVIOUS
  <1>1. \A s \in Slots : ~Live(s)
    BY NoScriptFields DEF Init, Live
  <1> QED BY <1>1 DEF Init, CleanInv, Orderly, AtRest, Matching

\* A deployment no script works on is of one version, .env, container and database, whichever step of
\* an update failed and however polls and requests came (apply.sh, rollback.sh); unless a step of the
\* undoing failed as well, a restart ended a script, a close event was late, or an update was begun
\* for a version older than the database.
THEOREM EndsClean == Spec => []CleanEnd
  <1>1. IInv /\ CleanInv /\ [Next]_vars => IInv' /\ CleanInv'
    BY CleanStep
  <1>2. CleanInv => CleanEnd
    BY DEF CleanInv, CleanEnd, Pure, Orderly, AtRest
  <1> QED BY FollowedInit, CleanInit, <1>1, <1>2, PTL DEF Spec

=============================================================================
