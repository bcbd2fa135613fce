---------------------------- MODULE DesktopProofs ----------------------------
(* The desktop client: the proxy settings are the user's whenever no session  *)
(* runs, a running session captures traffic, sessions do not overlap, and the *)
(* list of nodes stays consistent, for any number of starts, processes,       *)
(* nodes and subscriptions.                                                   *)
EXTENDS Desktop, TLAPS

UiType ==
    [running : BOOLEAN, starting : BOOLEAN, rx : BOOLEAN, exit : BOOLEAN, flag : BOOLEAN,
     token : BOOLEAN, tun : BOOLEAN, quit : BOOLEAN]
ThreadType ==
    [phase : Phases, withTun : BOOLEAN, stop : BOOLEAN, cancelled : BOOLEAN,
     tun : {"off", "trying", "up", "failed"}, watch : {"off", "on"}, exited : BOOLEAN]
NoteType ==
    [off : BOOLEAN, twice : BOOLEAN, early : BOOLEAN, switched : BOOLEAN, lost : BOOLEAN]

ControlTyped ==
    /\ os \in Platforms /\ sys \in SysType
    /\ ui \in UiType /\ th \in ThreadType /\ note \in NoteType
    /\ mail \in Seq(Signals) /\ turn \in Turns /\ disk \in BOOLEAN

(* The thread of a session that the UI listens to was not told to stop; it is *)
(* held by the exit channel until it is gone, and then nothing of it is left. *)
ThreadHeld ==
    /\ ui.rx => ~th.stop /\ ~th.cancelled /\ th.phase \notin {"none", "stopping"}
    /\ th.phase \notin {"none", "gone"} => ui.exit
    /\ th.phase \in {"none", "boot", "gone"} => th.tun \notin {"trying", "up"}
    /\ th.exited => th.phase = "gone"
    /\ turn = "down" => ~ui.running /\ ~ui.rx /\ th.phase = "none"

(* The failure of a start is read before any ready signal.                    *)
NoReady(msgs)  == \A i \in 1..Len(msgs) : msgs[i] # "ready"
ErrFirst(msgs) == \E i \in 1..Len(msgs) : msgs[i] = "err" /\ \A j \in 1..(i - 1) : msgs[j] # "ready"

MailTells ==
    ui.rx =>
        /\ th.phase \in {"boot", "serve"} => NoReady(mail)
        /\ th.phase = "closing" => ErrFirst(mail)
        /\ th.phase = "gone" => NoReady(mail) \/ ErrFirst(mail)

(* A session that runs has a thread whose listener is bound.                  *)
RunningIsBound == ui.running => ui.rx /\ th.phase = "bound"

(* The settings are the user's, or ours with the user's in the slot, unless   *)
(* enable() has found its own settings; KDE keys that are set go along.       *)
KdeFollows(o, s) ==
    /\ s.slot = "none" <=> s.kdeSlot = "none"
    /\ o = "kde" => s.kde = s.settings /\ s.kdeSlot = s.slot
UsersOwn == IF note.lost THEN "direct" ELSE "user"
SettingsKept ==
    /\ os = "none" => sys.settings # "own"
    /\ note.twice => sys.settings = "own" /\ sys.slot \in {"own", "none"}
    /\ turn = "down" => sys.slot = "none" /\ IF sys.settings = "own" THEN note.lost
                                             ELSE sys.settings = UsersOwn
    /\ turn # "down" /\ ~note.twice =>
          \/ sys.settings = UsersOwn /\ sys.slot = "none"
          \/ sys.settings = "own" /\ sys.slot = UsersOwn /\ ui.running
    /\ KdeFollows(os, sys)

(* What has become of the TUN of a session that was started with it.          *)
TunTold ==
    ui.rx /\ th.withTun /\ th.phase \in {"serve", "bound"} /\ th.tun \notin {"trying", "up"} =>
        \/ \E i \in DOMAIN mail : mail[i] = "tunerr"
        \/ note.early
        \/ ui.running

ControlInv ==
    /\ ControlTyped /\ ThreadHeld /\ MailTells /\ RunningIsBound /\ SettingsKept /\ TunTold
    /\ Captured

(* A signal more in the channel.                                              *)
LEMMA MailGrows ==
    ASSUME NEW m \in Seq(Signals), NEW x \in Signals
    PROVE  /\ Append(m, x) \in Seq(Signals)
           /\ NoReady(m) /\ x # "ready" => NoReady(Append(m, x))
           /\ ErrFirst(m) => ErrFirst(Append(m, x))
           /\ NoReady(m) /\ x = "err" => ErrFirst(Append(m, x))
           /\ (\E i \in DOMAIN m : m[i] = "tunerr") => \E i \in DOMAIN Append(m, x) : Append(m, x)[i] = "tunerr"
           /\ x = "tunerr" => \E i \in DOMAIN Append(m, x) : Append(m, x)[i] = "tunerr"
  <1> DEFINE n == Append(m, x)
  <1>1. /\ n \in Seq(Signals) /\ Len(n) = Len(m) + 1 /\ n[Len(m) + 1] = x /\ Len(m) \in Nat
        /\ \A i \in 1..Len(m) : n[i] = m[i]
        /\ DOMAIN m = 1..Len(m) /\ DOMAIN n = 1..(Len(m) + 1)
    OBVIOUS
  <1> HIDE DEF n
  <1>2. NoReady(m) /\ x # "ready" => NoReady(n)
    BY <1>1 DEF NoReady
  <1>3. ErrFirst(m) => ErrFirst(n)
    <2> SUFFICES ASSUME NEW i \in 1..Len(m), m[i] = "err", \A j \in 1..(i - 1) : m[j] # "ready"
                 PROVE  ErrFirst(n)
      BY DEF ErrFirst
    <2>1. i \in 1..Len(n) /\ n[i] = "err" /\ \A j \in 1..(i - 1) : j \in 1..Len(m) /\ n[j] # "ready"
      BY <1>1
    <2>2. QED
      BY <2>1 DEF ErrFirst
  <1>4. NoReady(m) /\ x = "err" => ErrFirst(n)
    <2> SUFFICES ASSUME NoReady(m), x = "err" PROVE ErrFirst(n)
      OBVIOUS
    <2>1. /\ Len(m) + 1 \in 1..Len(n) /\ n[Len(m) + 1] = "err"
          /\ \A j \in 1..((Len(m) + 1) - 1) : n[j] # "ready"
      BY <1>1 DEF NoReady
    <2>2. QED
      BY <2>1 DEF ErrFirst
  <1>5. /\ (\E i \in DOMAIN m : m[i] = "tunerr") => \E i \in DOMAIN n : n[i] = "tunerr"
        /\ x = "tunerr" => \E i \in DOMAIN n : n[i] = "tunerr"
    BY <1>1
  <1>6. QED
    BY <1>1, <1>2, <1>3, <1>4, <1>5 DEF n

(* The steps of the thread that leave the channel of signals alone.           *)
LEMMA QuietThreadInv ==
    ASSUME ControlInv,
           \/ RuntimeFails \/ Binds \/ TunUp \/ TunEnds \/ SeesStop \/ StopWaited \/ DropsRuntime
           \/ SignalsExit
    PROVE  ControlInv'
  <1> USE DEF ControlInv
  <1>1. UNCHANGED <<os, sys, ui, turn, disk, note, mail>>
    BY DEF RuntimeFails, Binds, TunUp, TunEnds, SeesStop, StopWaited, DropsRuntime, SignalsExit,
           ThreadOnly
  <1>2. th \in ThreadType
    BY DEF ControlTyped
  <1>3. th' \in ThreadType
    BY <1>2 DEF RuntimeFails, Binds, TunUp, TunEnds, SeesStop, StopWaited, DropsRuntime, SignalsExit,
           ThreadType, Phases
  <1>4. ControlTyped'
    BY <1>1, <1>3 DEF ControlTyped
  <1>5. ThreadHeld'
    BY <1>1, <1>2 DEF ThreadHeld, RuntimeFails, Binds, TunUp, TunEnds, SeesStop, StopWaited, DropsRuntime,
           SignalsExit, ThreadType
  <1>6. MailTells'
    BY <1>1, <1>2 DEF MailTells, ThreadHeld, RuntimeFails, Binds, TunUp, TunEnds, SeesStop, StopWaited,
           DropsRuntime, SignalsExit, ThreadType
  <1>7. RunningIsBound'
    BY <1>1, <1>2 DEF RunningIsBound, ThreadHeld, RuntimeFails, Binds, TunUp, TunEnds, SeesStop, StopWaited,
           DropsRuntime, SignalsExit, ThreadType
  <1>8. SettingsKept'
    BY <1>1 DEF SettingsKept, UsersOwn
  <1>9. TunTold'
    BY <1>1, <1>2 DEF TunTold, ThreadHeld, RuntimeFails, Binds, TunUp, TunEnds, SeesStop, StopWaited,
           DropsRuntime, SignalsExit, ThreadType
  <1>10. Captured'
    BY <1>1, <1>2 DEF Captured, ThreadHeld, RunningIsBound, RuntimeFails, Binds, TunUp, TunEnds, SeesStop,
           StopWaited, DropsRuntime, SignalsExit, ThreadType
  <1>11. QED
    BY <1>4, <1>5, <1>6, <1>7, <1>8, <1>9, <1>10

(* The steps of the thread that send a signal.                                *)
LEMMA LoudThreadInv ==
    ASSUME ControlInv, Boots \/ StartFails \/ WatcherReports \/ TunFails
    PROVE  ControlInv'
  <1> USE DEF ControlInv
  <1>1. UNCHANGED <<os, sys, ui, turn, disk, note>>
    BY DEF Boots, StartFails, WatcherReports, TunFails, ThreadOnly
  <1>2. th \in ThreadType /\ mail \in Seq(Signals)
    BY DEF ControlTyped
  <1>3. th' \in ThreadType
    BY <1>2 DEF Boots, StartFails, WatcherReports, TunFails, ThreadType, Phases
  <1>4. /\ mail' = mail \/ \E x \in Signals : mail' = Append(mail, x)
        /\ mail' \in Seq(Signals)
        /\ (\E i \in DOMAIN mail : mail[i] = "tunerr") => \E i \in DOMAIN mail' : mail'[i] = "tunerr"
        /\ ErrFirst(mail) => ErrFirst(mail')
    <2>1. mail' = mail \/ \E x \in Signals : mail' = Append(mail, x)
      BY DEF Boots, StartFails, WatcherReports, TunFails, Signals
    <2>2. QED
      BY <1>2, <2>1, MailGrows
  <1>5. ControlTyped'
    BY <1>1, <1>3, <1>4 DEF ControlTyped
  <1>6. ThreadHeld'
    BY <1>1, <1>2 DEF ThreadHeld, Boots, StartFails, WatcherReports, TunFails, ThreadType
  <1>7. RunningIsBound'
    BY <1>1, <1>2 DEF RunningIsBound, ThreadHeld, Boots, StartFails, WatcherReports, TunFails, ThreadType
  <1>8. SettingsKept'
    BY <1>1 DEF SettingsKept, UsersOwn
  <1>9. CASE Boots
    <2>1. /\ mail' = mail \/ mail' = Append(mail, "tunerr")
          /\ th'.withTun /\ th'.tun = "failed" => mail' = Append(mail, "tunerr")
          /\ th'.withTun => th'.tun \in {"trying", "failed"}
          /\ th'.phase = "serve" /\ th.phase = "boot"
      BY <1>2, <1>9 DEF Boots, ThreadType
    <2>2. "tunerr" \in Signals
      BY DEF Signals
    <2>3. MailTells'
      BY <1>1, <1>2, <2>1, <2>2, MailGrows DEF MailTells
    <2>4. TunTold'
      BY <1>1, <1>2, <2>1, <2>2, MailGrows DEF TunTold
    <2>5. Captured'
      BY <1>1, <2>1 DEF Captured
    <2>6. QED
      BY <1>5, <1>6, <1>7, <1>8, <2>3, <2>4, <2>5
  <1>10. CASE StartFails
    <2>1. mail' = Append(mail, "err") /\ th.phase = "serve" /\ th'.phase = "closing"
      BY <1>2, <1>10 DEF StartFails, ThreadType
    <2>2. "err" \in Signals
      BY DEF Signals
    <2>3. MailTells'
      BY <1>1, <1>2, <2>1, <2>2, MailGrows DEF MailTells
    <2>4. TunTold' /\ Captured'
      BY <2>1 DEF TunTold, Captured
    <2>5. QED
      BY <1>5, <1>6, <1>7, <1>8, <2>3, <2>4
  <1>11. CASE WatcherReports
    <2>1. /\ th'.phase = th.phase /\ th'.withTun = th.withTun /\ th'.tun = th.tun
          /\ th.phase \in {"serve", "bound", "stopping", "closing"}
          /\ mail' = Append(mail, IF th.phase = "serve" THEN "err" ELSE "ready")
      BY <1>2, <1>11 DEF WatcherReports, ThreadType
    <2>2. "err" \in Signals /\ "ready" \in Signals
      BY DEF Signals
    <2>3. MailTells'
      BY <1>1, <1>2, <1>4, <2>1, <2>2, MailGrows DEF MailTells
    <2>4. TunTold'
      BY <1>1, <1>4, <2>1 DEF TunTold
    <2>5. Captured'
      BY <1>1, <1>4, <2>1 DEF Captured
    <2>6. QED
      BY <1>5, <1>6, <1>7, <1>8, <2>3, <2>4, <2>5
  <1>12. CASE TunFails
    <2>1. th'.phase = th.phase /\ mail' = Append(mail, "tunerr") /\ th.phase \in {"serve", "bound"}
      BY <1>2, <1>12 DEF TunFails, ThreadType
    <2>2. "tunerr" \in Signals
      BY DEF Signals
    <2>3. MailTells'
      BY <1>1, <1>2, <1>4, <2>1, <2>2, MailGrows DEF MailTells
    <2>4. \E i \in DOMAIN mail' : mail'[i] = "tunerr"
      BY <1>2, <2>1, <2>2, MailGrows
    <2>5. TunTold' /\ Captured'
      BY <2>4 DEF TunTold, Captured
    <2>6. QED
      BY <1>5, <1>6, <1>7, <1>8, <2>3, <2>5
  <1>13. QED
    BY <1>9, <1>10, <1>11, <1>12

(* A batch of signals: an error that stops the start is not in a batch with a *)
(* ready signal that counts, and a batch without an error counts as a whole.  *)
LEMMA Batch ==
    ASSUME NEW m \in Seq(Signals)
    PROVE  /\ FailureAt(m, TRUE) = {}
           /\ ErrFirst(m) <=> FailureAt(m, FALSE) # {}
           /\ \A r \in BOOLEAN : FailureAt(m, r) = {} => Considered(m, r) = 1..Len(m)
           /\ (\E i \in Considered(m, FALSE) : m[i] = "ready") => FailureAt(m, FALSE) = {} /\ ~NoReady(m)
  <1>1. FailureAt(m, TRUE) = {}
    BY DEF FailureAt
  <1>2. ErrFirst(m) <=> FailureAt(m, FALSE) # {}
    BY DEF ErrFirst, FailureAt
  <1>3. \A r \in BOOLEAN : FailureAt(m, r) = {} => Considered(m, r) = 1..Len(m)
    BY DEF Considered
  <1>4. ASSUME NEW i \in Considered(m, FALSE), m[i] = "ready"
        PROVE  FailureAt(m, FALSE) = {} /\ ~NoReady(m)
    <2>1. i \in 1..Len(m) /\ \A f \in FailureAt(m, FALSE) : i < f
      BY DEF Considered
    <2>2. ~NoReady(m)
      BY <1>4, <2>1 DEF NoReady
    <2>3. ASSUME NEW f \in FailureAt(m, FALSE) PROVE FALSE
      <3>1. f \in 1..Len(m) /\ i < f /\ \A j \in 1..(f - 1) : m[j] # "ready"
        BY <2>1 DEF FailureAt
      <3>2. i \in 1..(f - 1)
        BY <2>1, <3>1
      <3>3. QED
        BY <1>4, <3>1, <3>2
    <2>4. QED
      BY <2>2, <2>3
  <1>5. QED
    BY <1>1, <1>2, <1>3, <1>4

(* What disable() and enable() make of settings that are as SettingsKept says.*)
LEMMA GivenBack ==
    ASSUME ControlInv, turn # "down"
    PROVE  /\ Disabled(sys) \in SysType /\ Disabled(sys).slot = "none"
           /\ os = "none" => Disabled(sys).settings # "own"
           /\ note.twice => Disabled(sys).settings = "own"
           /\ ~note.twice => Disabled(sys).settings = UsersOwn
           /\ KdeFollows(os, Disabled(sys))
  <1>1. sys \in SysType /\ SettingsKept
    BY DEF ControlInv, ControlTyped
  <1>2. UsersOwn \in {"user", "direct"}
    BY DEF UsersOwn
  <1> HIDE DEF UsersOwn
  <1>3. CASE sys.slot = "none"
    <2>1. Disabled(sys) = sys
      BY <1>3 DEF Disabled
    <2>2. note.twice => sys.settings = "own"
      BY <1>1 DEF SettingsKept
    <2>3. ~note.twice => sys.settings = UsersOwn
      BY <1>1, <1>2, <1>3 DEF SettingsKept
    <2>4. QED
      BY <1>1, <1>3, <2>1, <2>2, <2>3 DEF SettingsKept
  <1>4. CASE sys.slot # "none"
    <2>1. Disabled(sys) = PutBack(sys)
      BY <1>4 DEF Disabled
    <2>2. /\ PutBack(sys) \in SysType /\ PutBack(sys).settings = sys.slot /\ PutBack(sys).slot = "none"
          /\ KdeFollows(os, PutBack(sys))
      <3>1. sys.slot \in Settings /\ sys.kde \in KdeKeys
        BY <1>1, <1>4 DEF SysType
      <3>2. sys.kdeSlot \in KdeKeys
        BY <1>1, <1>4 DEF SysType, SettingsKept, KdeFollows
      <3>3. os = "kde" => sys.kdeSlot = sys.slot
        BY <1>1 DEF SettingsKept, KdeFollows
      <3>4. QED
        BY <3>1, <3>2, <3>3 DEF PutBack, SysType, Settings, KdeKeys, KdeFollows
    <2>3. note.twice => sys.slot = "own" /\ os # "none"
      BY <1>1, <1>4 DEF SettingsKept
    <2>4. ~note.twice => sys.slot = UsersOwn
      BY <1>1, <1>4 DEF SettingsKept
    <2>5. QED
      BY <1>2, <2>1, <2>2, <2>3, <2>4
  <1>5. QED
    BY <1>3, <1>4

LEMMA TakenAgain ==
    ASSUME ControlInv, th.phase = "bound", NEW s \in SysType
    PROVE  /\ Enabled(os, s, Live) \in SysType
           /\ os = "none" => Enabled(os, s, Live) = s
           /\ os # "none" => /\ Enabled(os, s, Live).settings = "own"
                             /\ Enabled(os, s, Live).slot = s.settings
           /\ KdeFollows(os, s) => KdeFollows(os, Enabled(os, s, Live))
  BY DEF Enabled, Live, Written, Snapshot, IsDead, SysType, Settings, KdeKeys, KdeFollows

(* The session is over for the UI: stop, dead thread, leaving.                *)
LEMMA SessionDropped ==
    ASSUME ControlInv, turn # "down", turn' \in Turns \ {"down"}, os' = os, disk' \in BOOLEAN,
           ui' \in UiType, ~ui'.running, ~ui'.rx, ui'.exit = ui.exit,
           th' \in ThreadType, th'.phase = th.phase, th'.tun = th.tun, th'.exited = th.exited,
           sys' = Disabled(sys), note' \in NoteType, note'.twice = note.twice, note'.lost = note.lost,
           mail' \in Seq(Signals)
    PROVE  ControlInv'
  <1>1. ControlTyped'
    BY GivenBack DEF ControlInv, ControlTyped
  <1>2. ThreadHeld' /\ MailTells' /\ RunningIsBound' /\ TunTold' /\ Captured'
    BY DEF ControlInv, ThreadHeld, MailTells, RunningIsBound, TunTold, Captured
  <1>3. UsersOwn' = UsersOwn
    BY DEF UsersOwn
  <1>4. SettingsKept'
    BY <1>3, GivenBack DEF SettingsKept
  <1>5. QED
    BY <1>1, <1>2, <1>4 DEF ControlInv

(* The steps of the frame that change neither settings nor thread.            *)
LEMMA QuietFrameInv ==
    ASSUME ControlInv, Reap \/ TrayDone \/ FrameEnds \/ ToggleTun
    PROVE  ControlInv'
  <1>1. /\ UNCHANGED <<os, sys, th, mail, note>> /\ turn \in UpTurns /\ turn' \in UpTurns
        /\ disk' \in {disk, ui.tun}
    BY DEF Reap, TrayDone, FrameEnds, ToggleTun, UpTurns, Turns
  <1>2. ui \in UiType /\ th \in ThreadType
    BY DEF ControlInv, ControlTyped
  <1>3. /\ ui' \in UiType /\ ui'.running = ui.running /\ ui'.rx = ui.rx /\ ui'.quit = ui.quit
        /\ ui'.exit = ui.exit \/ th.exited
    BY <1>2 DEF Reap, TrayDone, FrameEnds, ToggleTun, UiType
  <1>4. ControlTyped'
    BY <1>1, <1>2, <1>3 DEF ControlInv, ControlTyped, UpTurns, UiType
  <1>5. ThreadHeld'
    BY <1>1, <1>3 DEF ControlInv, ThreadHeld, UpTurns
  <1>6. MailTells' /\ RunningIsBound' /\ TunTold'
    BY <1>1, <1>3 DEF ControlInv, MailTells, RunningIsBound, TunTold
  <1>7. SettingsKept'
    BY <1>1, <1>3 DEF ControlInv, SettingsKept, UsersOwn, UpTurns
  <1>8. Captured'
    BY <1>1, <1>3 DEF ControlInv, Captured
  <1>9. QED
    BY <1>4, <1>5, <1>6, <1>7, <1>8 DEF ControlInv

(* A start finds no thread that still holds anything.                         *)
LEMMA StartInv ==
    ASSUME ControlInv, NEW t \in {"tray", "ui"}, turn = t, StartProxy(t)
    PROVE  ControlInv' /\ th.phase \in {"none", "gone"} /\ th.tun \notin {"trying", "up"}
  <1>1. ui \in UiType /\ th \in ThreadType /\ note \in NoteType
    BY DEF ControlInv, ControlTyped
  <1>2. ~ui.running /\ ~ui.exit /\ th.phase \in {"none", "gone"} /\ th.tun \notin {"trying", "up"}
    BY <1>1 DEF StartProxy, MayStart, ControlInv, ThreadHeld, ThreadType, Phases
  <1>3. /\ ui' \in UiType /\ ui'.running = ui.running /\ ui'.rx /\ ui'.exit
    BY <1>1 DEF StartProxy, StartedUi, UiType
  <1>4. NoThread \in ThreadType
    BY DEF NoThread, ThreadType, Phases
  <1>5. /\ th' \in ThreadType /\ th'.phase = "boot" /\ th'.tun = "off" /\ ~th'.stop /\ ~th'.cancelled
        /\ ~th'.exited
    BY <1>1, <1>4 DEF StartProxy, StartedThread, NoThread, ThreadType, Phases, UiType
  <1>6. note' \in NoteType /\ note'.twice = note.twice /\ note'.lost = note.lost
    BY <1>1 DEF StartProxy, NoteType
  <1>7. UNCHANGED <<os, sys, disk>> /\ mail' = <<>> /\ turn' = turn
    BY DEF StartProxy
  <1>8. ControlTyped'
    BY <1>3, <1>5, <1>6, <1>7 DEF ControlInv, ControlTyped
  <1>9. ThreadHeld' /\ MailTells' /\ RunningIsBound' /\ TunTold' /\ Captured'
    BY <1>2, <1>3, <1>5, <1>7 DEF ControlInv, ThreadHeld, MailTells, NoReady, RunningIsBound, TunTold, Captured
  <1>10. SettingsKept'
    BY <1>3, <1>6, <1>7 DEF ControlInv, SettingsKept, UsersOwn
  <1>11. QED
    BY <1>2, <1>8, <1>9, <1>10 DEF ControlInv

LEMMA StopInv ==
    ASSUME ControlInv, NEW t \in {"check", "ui"}, turn # "down", StopProxy(t)
    PROVE  ControlInv'
  <1>1. ui \in UiType /\ th \in ThreadType /\ note \in NoteType /\ mail \in Seq(Signals)
    BY DEF ControlInv, ControlTyped
  <1>2. ui' \in UiType /\ ~ui'.running /\ ~ui'.rx /\ ui'.exit = ui.exit /\ disk' \in BOOLEAN
    BY <1>1 DEF StopProxy, Stopped, UiType
  <1>3. th' \in ThreadType /\ th'.phase = th.phase /\ th'.tun = th.tun /\ th'.exited = th.exited
    BY <1>1 DEF StopProxy, ThreadType, UiType
  <1>4. UNCHANGED <<os, mail, note>> /\ sys' = Disabled(sys) /\ turn' \in Turns \ {"down"}
    BY DEF StopProxy, Turns
  <1>5. QED
    BY <1>1, <1>2, <1>3, <1>4, SessionDropped

(* A session that runs has a thread, so update() finds none that has ended.   *)
LEMMA CheckInv == ControlInv /\ Check => ControlInv'
  <1> SUFFICES ASSUME ControlInv, Check PROVE ControlInv'
    OBVIOUS
  <1>1. ~(ui.running /\ ui.exit /\ th.exited)
    BY DEF ControlInv, RunningIsBound, ThreadHeld
  <1>2. UNCHANGED <<os, sys, ui, th, mail, disk, note>> /\ turn = "check" /\ turn' = "ui"
    BY <1>1 DEF Check
  <1>3. ControlTyped' /\ ThreadHeld' /\ MailTells' /\ RunningIsBound' /\ TunTold' /\ Captured' /\ SettingsKept'
    BY <1>2 DEF ControlInv, ControlTyped, ThreadHeld, MailTells, RunningIsBound, TunTold, Captured,
                SettingsKept, UsersOwn, Turns, UpTurns
  <1>4. QED
    BY <1>3 DEF ControlInv

(* The system proxy button: the session runs, so its port has a listener.     *)
LEMMA ToggleProxyInv == ControlInv /\ ToggleSystemProxy => ControlInv'
  <1> SUFFICES ASSUME ControlInv, ToggleSystemProxy PROVE ControlInv'
    OBVIOUS
  <1>1. ui \in UiType /\ note \in NoteType /\ sys \in SysType /\ SettingsKept
    BY DEF ControlInv, ControlTyped
  <1>2. /\ UNCHANGED <<os, ui, th, mail, turn, disk>> /\ turn = "ui" /\ ui.running /\ th.phase = "bound"
    BY DEF ToggleSystemProxy, ControlInv, RunningIsBound
  <1>3. PICK on \in BOOLEAN :
           /\ sys' = IF on THEN Disabled(sys) ELSE Enabled(os, sys, Live)
           /\ note' = [note EXCEPT !.off = on, !.twice = @ \/ (~on /\ sys.settings = "own")]
    BY <1>1 DEF ToggleSystemProxy, SystemProxyOnCached, UiType
  <1>4. /\ note' \in NoteType /\ note'.lost = note.lost /\ note'.off = on
        /\ note'.switched = note.switched /\ note'.early = note.early
        /\ note'.twice <=> (note.twice \/ (~on /\ sys.settings = "own"))
    BY <1>1, <1>3 DEF NoteType
  <1>5. UsersOwn' = UsersOwn
    BY <1>4 DEF UsersOwn
  <1>6. sys' \in SysType /\ (os # "none" /\ ~on => sys'.settings = "own")
    BY <1>1, <1>2, <1>3, GivenBack, TakenAgain
  <1>7. ControlTyped'
    BY <1>2, <1>4, <1>6 DEF ControlInv, ControlTyped
  <1>8. ThreadHeld' /\ MailTells' /\ RunningIsBound' /\ TunTold'
    BY <1>2, <1>4 DEF ControlInv, ThreadHeld, MailTells, RunningIsBound, TunTold
  <1>9. Captured'
    BY <1>2, <1>4, <1>6 DEF Captured
  <1>10. SettingsKept'
    <2>1. CASE on
      BY <1>2, <1>3, <1>4, <1>5, <2>1, GivenBack DEF SettingsKept
    <2>2. CASE ~on /\ os = "none"
      <3>1. sys' = sys /\ sys.settings # "own" /\ (note'.twice <=> note.twice)
        BY <1>1, <1>2, <1>3, <1>4, <2>2, TakenAgain DEF SettingsKept
      <3>2. QED
        BY <1>1, <1>2, <1>5, <3>1 DEF SettingsKept
    <2>3. CASE ~on /\ os # "none"
      <3>1. sys'.settings = "own" /\ sys'.slot = sys.settings /\ KdeFollows(os, sys')
        BY <1>1, <1>2, <1>3, <2>3, TakenAgain DEF SettingsKept
      <3>2. note'.twice <=> sys.settings = "own"
        BY <1>1, <1>4, <2>3 DEF SettingsKept
      <3>3. sys.settings # "own" => sys.settings = UsersOwn
        BY <1>1, <1>2 DEF SettingsKept
      <3>4. QED
        BY <1>2, <1>5, <2>3, <3>1, <3>2, <3>3 DEF SettingsKept
    <2>4. QED
      BY <2>1, <2>2, <2>3
  <1>11. QED
    BY <1>7, <1>8, <1>9, <1>10 DEF ControlInv

(* The process ends.  What it leaves in the settings is either the user's or  *)
(* its own address, which the next start takes for a stale one.               *)
LEMMA DownInv ==
    ASSUME ControlInv, turn # "down", NEW s \in {sys, Disabled(sys)}, Down(s), UNCHANGED disk
    PROVE  ControlInv'
  <1>1. /\ ui \in UiType /\ note \in NoteType /\ sys \in SysType /\ disk \in BOOLEAN /\ os \in Platforms
        /\ SettingsKept
    BY DEF ControlInv, ControlTyped
  <1>2. UsersOwn \in {"user", "direct"}
    BY DEF UsersOwn
  <1>3. /\ s \in SysType /\ s.settings \in Settings
        /\ os = "none" => s.settings # "own"
        /\ s.settings = "own" \/ (s.settings = UsersOwn /\ ~note.twice)
        /\ os = "kde" => s.kde = s.settings
    <2>1. CASE s = sys
      BY <1>1, <2>1 DEF SettingsKept, SysType, KdeFollows
    <2>2. CASE s = Disabled(sys)
      BY <2>2, GivenBack DEF SysType, KdeFollows
    <2>3. QED
      BY <2>1, <2>2
  <1> HIDE DEF UsersOwn
  <1>4. sys' \in SysType /\ sys'.settings = s.settings /\ sys'.slot = "none" /\ sys'.kdeSlot = "none"
        /\ sys'.kde = s.kde
    BY <1>3 DEF Down, Forgotten, SysType
  <1>5. ui' \in UiType /\ ~ui'.running /\ ~ui'.rx
    BY <1>1 DEF Down, FreshUi, UiType
  <1>6. th' \in ThreadType /\ th'.phase = "none" /\ th'.tun = "off" /\ ~th'.exited
    BY DEF Down, NoThread, ThreadType, Phases
  <1>7. /\ note' \in NoteType /\ (note'.twice <=> (note.twice /\ s.settings = "own"))
        /\ note'.lost <=> (note.lost \/ s.settings = "own")
    BY <1>1 DEF Down, NoNotes, NoteType
  <1>8. UNCHANGED <<os, disk>> /\ mail' = <<>> /\ turn' = "down"
    BY DEF Down
  <1>9. ControlTyped'
    BY <1>1, <1>4, <1>5, <1>6, <1>7, <1>8 DEF ControlTyped, Turns
  <1>10. ThreadHeld' /\ MailTells' /\ RunningIsBound' /\ TunTold' /\ Captured'
    BY <1>5, <1>6, <1>8 DEF ThreadHeld, MailTells, RunningIsBound, TunTold, Captured
  <1>11. SettingsKept'
    <2>1. s.settings # "own" => UsersOwn' = UsersOwn
      BY <1>7 DEF UsersOwn
    <2>2. QED
      BY <1>3, <1>4, <1>7, <1>8, <2>1 DEF SettingsKept, KdeFollows
  <1>12. QED
    BY <1>9, <1>10, <1>11 DEF ControlInv

LEMMA LaunchInv == ControlInv /\ Launches => ControlInv'
  <1> SUFFICES ASSUME ControlInv, Launches PROVE ControlInv'
    OBVIOUS
  <1>1. /\ note \in NoteType /\ sys \in SysType /\ SettingsKept /\ turn = "down" /\ turn' = "poll"
    BY DEF Launches, ControlInv, ControlTyped
  <1>2. note' \in NoteType /\ ~note'.twice /\ note'.lost = note.lost /\ UsersOwn' = UsersOwn
    BY <1>1 DEF Launches, NoteType, UsersOwn
  <1>3. UNCHANGED <<os, ui, th, mail, disk>>
    BY DEF Launches
  <1>4. UsersOwn \in {"user", "direct"} /\ (note.lost => UsersOwn = "direct")
    BY DEF UsersOwn
  <1> HIDE DEF UsersOwn
  <1>5. /\ sys' \in SysType /\ sys'.settings = UsersOwn /\ sys'.slot = "none"
        /\ KdeFollows(os, sys')
    <2>1. /\ sys.slot = "none" /\ (os = "none" => sys.settings # "own")
          /\ sys.settings = "own" => note.lost
          /\ sys.settings # "own" => sys.settings = UsersOwn
          /\ sys.kdeSlot = "none" /\ (os = "kde" => sys.kde = sys.settings)
      BY <1>1 DEF SettingsKept, KdeFollows
    <2>2. CASE sys.settings = "own"
      <3>1. sys' = [sys EXCEPT !.settings = "direct", !.kde = IF @ \in Settings THEN "direct" ELSE @]
        BY <2>1, <2>2 DEF Launches, CleanedUp, IsDead
      <3>2. UsersOwn = "direct" /\ (os = "kde" => sys.kde = "own")
        BY <1>4, <2>1, <2>2
      <3>3. QED
        BY <1>1, <2>1, <3>1, <3>2 DEF SysType, Settings, KdeKeys, KdeFollows
    <2>3. CASE sys.settings # "own"
      <3>1. sys' = sys
        BY <2>3 DEF Launches, CleanedUp, IsDead
      <3>2. QED
        BY <1>1, <2>1, <2>3, <3>1 DEF KdeFollows
    <2>4. QED
      BY <2>2, <2>3
  <1>6. ControlTyped'
    BY <1>1, <1>2, <1>3, <1>5 DEF ControlInv, ControlTyped, Turns
  <1>7. ThreadHeld' /\ MailTells' /\ RunningIsBound' /\ TunTold' /\ Captured'
    BY <1>1, <1>3 DEF ControlInv, ThreadHeld, MailTells, RunningIsBound, TunTold, Captured
  <1>8. SettingsKept'
    BY <1>1, <1>2, <1>3, <1>4, <1>5 DEF SettingsKept
  <1>9. QED
    BY <1>6, <1>7, <1>8 DEF ControlInv

LEMMA EndsInv == ControlInv /\ Ends => ControlInv'
  <1> SUFFICES ASSUME ControlInv, Ends PROVE ControlInv'
    OBVIOUS
  <1>0. ui \in UiType /\ th \in ThreadType /\ note \in NoteType /\ mail \in Seq(Signals)
    BY DEF ControlInv, ControlTyped
  <1>1. CASE TrayQuit
    <2>1. /\ UNCHANGED <<os, th, mail, turn, disk, note>> /\ sys' = Disabled(sys) /\ turn # "down"
          /\ ui' \in UiType /\ ui'.running = ui.running /\ ui'.rx = ui.rx /\ ui'.exit = ui.exit /\ ui'.quit
      BY <1>0, <1>1 DEF TrayQuit, UiType, UpTurns
    <2>2. ControlTyped' /\ ThreadHeld' /\ MailTells' /\ RunningIsBound' /\ TunTold' /\ Captured'
      BY <2>1, GivenBack DEF ControlInv, ControlTyped, ThreadHeld, MailTells, RunningIsBound, TunTold, Captured
    <2>3. UsersOwn' = UsersOwn
      BY <2>1 DEF UsersOwn
    <2>4. SettingsKept'
      BY <2>1, <2>3, GivenBack DEF SettingsKept
    <2>5. QED
      BY <2>2, <2>4 DEF ControlInv
  <1>2. CASE Exits \/ ExitButton
    <2>1. ui' \in UiType /\ ~ui'.running /\ ~ui'.rx /\ ui'.exit = ui.exit /\ disk' \in BOOLEAN
      BY <1>0, <1>2 DEF Exits, ExitButton, Leaves, Stopped, UiType
    <2>2. th' \in ThreadType /\ th'.phase = th.phase /\ th'.tun = th.tun /\ th'.exited = th.exited
      BY <1>0, <1>2 DEF Exits, ExitButton, Leaves, ThreadType, UiType
    <2>3. /\ UNCHANGED <<os, mail, note>> /\ sys' = Disabled(sys) /\ turn # "down"
          /\ turn' \in Turns \ {"down"}
      BY <1>2 DEF Exits, ExitButton, Leaves, Turns
    <2>4. QED
      BY <1>0, <2>1, <2>2, <2>3, SessionDropped
  <1>3. CASE ExitWaited \/ HardExit \/ Killed
    BY <1>3, DownInv DEF ExitWaited, HardExit, Killed, UpTurns
  <1>4. CASE DiesWithHook \/ SessionEnds
    BY <1>4, DownInv DEF DiesWithHook, SessionEnds, UpTurns
  <1>5. QED
    BY <1>1, <1>2, <1>3, <1>4, LaunchInv DEF Ends

(* A batch that ends the session before it runs, or that only shows that the  *)
(* thread is gone.                                                            *)
LEMMA PollDead ==
    ASSUME ControlInv, turn = "poll", os' = os, disk' = disk, turn' = "reap",
           ui' = [Converged(ui) EXCEPT !.rx = FALSE], th' = ConvergedThread(ui), sys' = Disabled(sys),
           mail' \in Seq(Signals), note' \in NoteType, note'.twice = note.twice, note'.lost = note.lost
    PROVE  ControlInv'
  <1>1. ui \in UiType /\ th \in ThreadType /\ disk \in BOOLEAN
    BY DEF ControlInv, ControlTyped
  <1>2. ui' \in UiType /\ ~ui'.running /\ ~ui'.rx /\ ui'.exit = ui.exit
    BY <1>1 DEF Converged, UiType
  <1>3. th' \in ThreadType /\ th'.phase = th.phase /\ th'.tun = th.tun /\ th'.exited = th.exited
    BY <1>1 DEF ConvergedThread, ThreadType, UiType
  <1>4. turn' \in Turns \ {"down"} /\ turn # "down"
    BY DEF Turns
  <1>5. QED
    BY <1>1, <1>2, <1>3, <1>4, SessionDropped

(* The frame looks at the channel, and the session was running before.        *)
LEMMA PollRunning == ControlInv /\ Poll /\ ui.running => ControlInv'
  <1> SUFFICES ASSUME ControlInv, Poll, ui.running PROVE ControlInv'
    OBVIOUS
  <1>1. /\ ui \in UiType /\ note \in NoteType /\ sys \in SysType /\ mail \in Seq(Signals) /\ SettingsKept
        /\ ui.rx /\ th.phase = "bound" /\ ui.running = TRUE
    BY DEF ControlInv, ControlTyped, RunningIsBound, UiType
  <1> DEFINE back == Degraded(mail, TRUE, FALSE) # {}
  <1>2. FailureAt(mail, TRUE) = {} /\ Considered(mail, TRUE) = 1..Len(mail)
    BY <1>1, Batch
  <1>3. ~Disconnected
    BY <1>1 DEF Disconnected
  <1>4. (\E i \in DOMAIN mail : mail[i] = "tunerr") => back
    <2>0. DOMAIN mail = 1..Len(mail)
      BY <1>1
    <2>1. DOMAIN mail = Considered(mail, TRUE)
      BY <1>2, <2>0, Zenon
    <2>2. ASSUME NEW i \in DOMAIN mail, mail[i] = "tunerr"
          PROVE  i \in Degraded(mail, TRUE, FALSE)
      BY <2>1, <2>2, Zenon DEF Degraded
    <2>3. QED
      BY <2>2
  <1> HIDE DEF back
  <1>5. /\ UNCHANGED <<os, ui, th, disk>> /\ mail' = <<>> /\ turn = "poll" /\ turn' = "reap"
        /\ sys' = IF back THEN Enabled(os, sys, Live) ELSE sys
    BY <1>1, <1>2, <1>3 DEF Poll, back
  <1>6. /\ note' \in NoteType /\ note'.lost = note.lost /\ note'.off = note.off
        /\ note'.switched = note.switched /\ note'.early = note.early
        /\ note'.twice <=> (note.twice \/ (back /\ sys.settings = "own"))
    BY <1>1, <1>2, <1>3 DEF Poll, back, NoteType
  <1>7. UsersOwn' = UsersOwn
    BY <1>6 DEF UsersOwn
  <1>8. sys' \in SysType /\ (os # "none" /\ back => sys'.settings = "own")
    BY <1>1, <1>5, TakenAgain
  <1>9. ControlTyped'
    BY <1>5, <1>6, <1>8 DEF ControlInv, ControlTyped, Turns
  <1>10. ThreadHeld' /\ MailTells' /\ RunningIsBound' /\ TunTold'
    BY <1>1, <1>5 DEF ControlInv, ThreadHeld, MailTells, RunningIsBound, TunTold
  <1>11. Captured'
    <2>1. SUFFICES ASSUME os # "none", ~ui.quit, sys'.settings # "own"
                   PROVE  th.tun \in {"trying", "up"} \/ note.off \/ note.switched \/ note.early
      BY <1>5, <1>6 DEF Captured
    <2>2. ~back /\ sys' = sys
      BY <1>5, <1>8, <2>1
    <2>3. turn \in UpTurns
      BY <1>5 DEF UpTurns, Turns
    <2>4. QED
      BY <1>1, <1>4, <2>1, <2>2, <2>3 DEF ControlInv, Captured
  <1>12. SettingsKept'
    <2>1. CASE ~back
      BY <1>1, <1>5, <1>6, <1>7, <2>1 DEF SettingsKept
    <2>2. CASE back /\ os = "none"
      <3>1. sys' = sys /\ sys.settings # "own" /\ (note'.twice <=> note.twice)
        BY <1>1, <1>5, <1>6, <2>2, TakenAgain DEF SettingsKept
      <3>2. QED
        BY <1>1, <1>5, <1>7, <3>1 DEF SettingsKept
    <2>3. CASE back /\ os # "none"
      <3>1. sys'.settings = "own" /\ sys'.slot = sys.settings /\ KdeFollows(os, sys')
        BY <1>1, <1>5, <2>3, TakenAgain DEF SettingsKept
      <3>2. (note'.twice <=> sys.settings = "own") /\ (sys.settings # "own" => sys.settings = UsersOwn)
        BY <1>1, <1>5, <1>6, <2>3 DEF SettingsKept
      <3>3. QED
        BY <1>1, <1>5, <1>7, <2>3, <3>1, <3>2 DEF SettingsKept
    <2>4. QED
      BY <2>1, <2>2, <2>3
  <1>13. QED
    BY <1>9, <1>10, <1>11, <1>12 DEF ControlInv

(* ... and it was not: without a ready signal that counts.                    *)
LEMMA PollWaiting ==
    ASSUME ControlInv, Poll, ~ui.running, ~ui.rx \/ ~\E i \in Considered(mail, FALSE) : mail[i] = "ready"
    PROVE  ControlInv'
  <1>1. /\ ui \in UiType /\ note \in NoteType /\ sys \in SysType /\ mail \in Seq(Signals) /\ SettingsKept
        /\ ui.running = FALSE /\ turn = "poll" /\ turn' = "reap" /\ os' = os
    BY DEF ControlInv, ControlTyped, UiType, Poll
  <1>2. CASE ~ui.rx
    <2>1. /\ <<>> \in Seq(Signals) /\ FailureAt(<<>>, FALSE) = {} /\ Considered(<<>>, FALSE) = {}
      BY DEF FailureAt, Considered
    <2>2. UNCHANGED <<ui, th, sys, mail, disk>>
      BY <1>1, <1>2, <2>1 DEF Poll
    <2>3. /\ note' \in NoteType /\ note'.lost = note.lost /\ note'.twice = note.twice
      BY <1>1, <1>2, <2>1 DEF Poll, NoteType
    <2>4. ControlTyped' /\ ThreadHeld' /\ MailTells' /\ RunningIsBound' /\ TunTold' /\ Captured' /\ SettingsKept'
      BY <1>1, <1>2, <2>2, <2>3 DEF ControlInv, ControlTyped, ThreadHeld, MailTells, RunningIsBound, TunTold,
         Captured, SettingsKept, UsersOwn, Turns
    <2>5. QED
      BY <2>4 DEF ControlInv
  <1>3. CASE ui.rx
    <2> DEFINE gone  == Disconnected
               fails == FailureAt(mail, FALSE) # {}
               dead  == fails \/ (mail = <<>> /\ gone)
               told  == \E i \in DOMAIN mail : mail[i] = "tunerr"
    <2>1. ~\E i \in Considered(mail, FALSE) : mail[i] = "ready"
      BY <1>3
    <2>2. /\ ui' = IF dead THEN [Converged(ui) EXCEPT !.rx = FALSE] ELSE ui
          /\ th' = IF dead THEN ConvergedThread(ui) ELSE th
          /\ sys' = IF dead THEN Disabled(sys) ELSE sys
          /\ mail' = <<>> /\ disk' = disk
      BY <1>1, <1>3, <2>1 DEF Poll
    <2>3. /\ note' \in NoteType /\ note'.lost = note.lost /\ note'.twice = note.twice
          /\ told => note'.early
          /\ note.early => note'.early
      BY <1>1, <1>3, <2>1 DEF Poll, NoteType
    <2>4. CASE dead
      <3>1. <<>> \in Seq(Signals)
        OBVIOUS
      <3> HIDE DEF dead
      <3>2. ui' = [Converged(ui) EXCEPT !.rx = FALSE]
        BY <2>2, <2>4, Zenon
      <3>3. th' = ConvergedThread(ui)
        BY <2>2, <2>4, Zenon
      <3>4. sys' = Disabled(sys)
        BY <2>2, <2>4, Zenon
      <3>5. mail' \in Seq(Signals) /\ disk' = disk
        BY <2>2, <3>1, Zenon
      <3>6. QED
        BY <1>1, <2>3, <3>2, <3>3, <3>4, <3>5, PollDead
    <2>5. CASE ~dead
      <3>1. ~ErrFirst(mail)
        BY <1>1, <2>5, Batch
      <3>2. UNCHANGED <<ui, th, sys, disk>>
        BY <2>2, <2>5
      <3>3. ControlTyped' /\ ThreadHeld' /\ RunningIsBound' /\ Captured' /\ SettingsKept'
        BY <1>1, <2>2, <2>3, <2>5 DEF ControlInv, ControlTyped, ThreadHeld, RunningIsBound, Captured, SettingsKept,
           UsersOwn, Turns
      <3>4. MailTells'
        BY <2>2, <2>5, <3>1 DEF ControlInv, MailTells, NoReady
      <3>5. TunTold'
        BY <1>1, <2>2, <2>3, <2>5 DEF ControlInv, TunTold
      <3>6. QED
        BY <3>3, <3>4, <3>5 DEF ControlInv
    <2>6. QED
      BY <2>4, <2>5
  <1>4. QED
    BY <1>2, <1>3

(* The ready signal: the listener is bound, and the settings are taken unless *)
(* the TUN setting is on now, or a TUN failure came along.                    *)
LEMMA PollReady ==
    ASSUME ControlInv, Poll, ~ui.running, ui.rx, \E i \in Considered(mail, FALSE) : mail[i] = "ready"
    PROVE  ControlInv'
  <1>1. /\ ui \in UiType /\ note \in NoteType /\ sys \in SysType /\ mail \in Seq(Signals) /\ SettingsKept
        /\ ui.running = FALSE /\ ui.rx = TRUE /\ turn = "poll" /\ turn' = "reap" /\ os' = os
        /\ th \in ThreadType
    BY DEF ControlInv, ControlTyped, UiType, Poll
  <1>2. FailureAt(mail, FALSE) = {} /\ ~NoReady(mail) /\ ~ErrFirst(mail) /\ Considered(mail, FALSE) = 1..Len(mail)
    BY <1>1, Batch
  <1>3. th.phase = "bound"
    BY <1>1, <1>2 DEF ControlInv, ThreadHeld, MailTells, ThreadType, Phases
  <1>4. ~Disconnected /\ mail # <<>>
    BY <1>2, <1>3 DEF Disconnected, NoReady
  <1> DEFINE u1   == AfterReady(ui)
             s1   == IF ~ui.tun THEN Enabled(os, sys, Live) ELSE sys
             back == Degraded(mail, FALSE, FALSE) # {}
             told == \E i \in DOMAIN mail : mail[i] = "tunerr"
  <1>5. u1 \in UiType /\ u1.running = TRUE /\ u1.rx = TRUE /\ u1.exit = ui.exit /\ u1.quit = ui.quit
    BY <1>1 DEF AfterReady, UiType
  <1>6. told => back
    <2>0. DOMAIN mail = 1..Len(mail)
      BY <1>1
    <2>1. DOMAIN mail = Considered(mail, FALSE)
      BY <1>2, <2>0, Zenon
    <2>2. ASSUME NEW i \in DOMAIN mail, mail[i] = "tunerr"
          PROVE  i \in Degraded(mail, FALSE, FALSE)
      BY <2>1, <2>2, Zenon DEF Degraded
    <2>3. QED
      BY <2>2
  <1>7. (mail = <<>> /\ ui.rx /\ Disconnected) = FALSE /\ (ui.rx /\ Disconnected) = FALSE
    BY <1>4
  <1>8. /\ ui' = u1 /\ th' = th /\ mail' = <<>> /\ disk' = ui.tun
        /\ sys' = IF back THEN Enabled(os, s1, Live) ELSE s1
    BY <1>1, <1>2, <1>4, <1>5, <1>7 DEF Poll
  <1>9. /\ note' \in NoteType /\ note'.lost = note.lost /\ note'.early = note.early /\ note'.off = note.off
        /\ note'.switched <=> (note.switched \/ ui.tun # th.withTun)
        /\ note'.twice <=> \/ note.twice
                           \/ ~ui.tun /\ sys.settings = "own"
                           \/ back /\ s1.settings = "own"
    BY <1>1, <1>2, <1>4, <1>5, <1>7 DEF Poll, NoteType
  <1> HIDE DEF u1, back, told
  <1>10. UsersOwn' = UsersOwn
    BY <1>9 DEF UsersOwn
  <1>11. s1 \in SysType /\ sys' \in SysType
    BY <1>1, <1>3, <1>8, TakenAgain
  <1>12. ControlTyped'
    BY <1>1, <1>5, <1>8, <1>9, <1>11 DEF ControlInv, ControlTyped, UiType, Turns
  <1>13. ThreadHeld' /\ MailTells' /\ RunningIsBound' /\ TunTold'
    BY <1>1, <1>3, <1>5, <1>8 DEF ControlInv, ThreadHeld, MailTells, RunningIsBound, TunTold
  <1>14. Captured'
    <2> SUFFICES ASSUME os # "none", ~note'.switched, sys'.settings # "own"
                 PROVE  th.tun \in {"trying", "up"} \/ note.early
      BY <1>1, <1>8, <1>9 DEF Captured
    <2>1. ~back /\ ui.tun
      BY <1>1, <1>3, <1>8, <1>11, TakenAgain
    <2>2. th.withTun
      BY <1>1, <1>9, <2>1 DEF UiType, ThreadType
    <2>3. QED
      BY <1>1, <1>3, <1>6, <2>1, <2>2 DEF ControlInv, TunTold, told
  <1>15. SettingsKept'
    <2>0. /\ note.twice => sys.settings = "own" /\ sys.slot \in {"own", "none"}
          /\ os = "none" => sys.settings # "own"
          /\ ~note.twice => sys.settings = UsersOwn /\ sys.slot = "none"
          /\ KdeFollows(os, sys)
          /\ UsersOwn # "own" /\ UsersOwn # "none"
      BY <1>1 DEF SettingsKept, UsersOwn
    <2>1. CASE os = "none"
      <3>1. s1 = sys /\ sys' = sys /\ (note'.twice <=> note.twice)
        BY <1>1, <1>3, <1>8, <1>9, <1>11, <2>0, <2>1, TakenAgain
      <3>2. QED
        BY <1>1, <1>10, <2>0, <2>1, <3>1 DEF SettingsKept
    <2>2. CASE os # "none"
      <3>1. ~ui.tun => s1.settings = "own" /\ s1.slot = sys.settings /\ KdeFollows(os, s1)
        BY <1>1, <1>3, <2>0, <2>2, TakenAgain
      <3>2. ui.tun => s1 = sys
        OBVIOUS
      <3>9. KdeFollows(os, s1)
        BY <2>0, <3>1, <3>2
      <3>3. back => sys'.settings = "own" /\ sys'.slot = s1.settings /\ KdeFollows(os, sys')
        BY <1>3, <1>8, <1>11, <2>2, <3>9, TakenAgain
      <3>4. ~back => sys' = s1
        BY <1>8
      <3>5. ui'.running /\ turn' # "down"
        BY <1>1, <1>5, <1>8
      <3> HIDE DEF s1
      <3>6. CASE note.twice
        BY <1>1, <1>9, <1>10, <2>0, <2>2, <3>1, <3>2, <3>3, <3>4, <3>5, <3>6, <3>9 DEF SettingsKept
      <3>7. CASE ~note.twice
        BY <1>1, <1>9, <1>10, <2>0, <2>2, <3>1, <3>2, <3>3, <3>4, <3>5, <3>7, <3>9 DEF SettingsKept
      <3>8. QED
        BY <3>6, <3>7
    <2>3. QED
      BY <2>1, <2>2
  <1>16. QED
    BY <1>12, <1>13, <1>14, <1>15 DEF ControlInv

LEMMA ControlNextInv ==
    ControlInv /\ [ControlNext]_controlVars => ControlInv'
  <1> SUFFICES ASSUME ControlInv, [ControlNext]_controlVars PROVE ControlInv'
    OBVIOUS
  <1>1. CASE Thread
    BY <1>1, QuietThreadInv, LoudThreadInv DEF Thread
  <1>2. CASE Poll
    BY <1>2, PollRunning, PollWaiting, PollReady
  <1>3. CASE Reap \/ TrayDone \/ FrameEnds \/ ToggleTun
    BY <1>3, QuietFrameInv
  <1>4. CASE Check \/ ToggleSystemProxy
    BY <1>4, CheckInv, ToggleProxyInv
  <1>5. CASE TrayStart \/ ButtonStart
    BY <1>5, StartInv DEF TrayStart, ButtonStart
  <1>6. CASE TrayStop \/ ButtonStop
    <2>1. PICK t \in {"check", "ui"} : turn # "down" /\ StopProxy(t)
      BY <1>6 DEF TrayStop, ButtonStop
    <2>2. QED
      BY <2>1, StopInv
  <1>7. CASE Ends
    BY <1>7, EndsInv
  <1>8. CASE UNCHANGED controlVars
    BY <1>8 DEF controlVars, ControlInv, ControlTyped, ThreadHeld, MailTells, NoReady, ErrFirst, RunningIsBound,
       SettingsKept, UsersOwn, TunTold, Captured
  <1>9. QED
    BY <1>1, <1>2, <1>3, <1>4, <1>5, <1>6, <1>7, <1>8 DEF ControlNext, Frame, User

LEMMA ControlStarts == ControlInit => ControlInv
  <1> SUFFICES ASSUME ControlInit PROVE ControlInv
    OBVIOUS
  <1>1. /\ sys.settings = "user" /\ sys.slot = "none" /\ disk \in BOOLEAN /\ os \in Platforms
        /\ sys.kdeSlot = "none" /\ (os = "kde" => sys.kde = "user")
        /\ mail = <<>> /\ turn = "poll"
    BY DEF ControlInit, Untouched
  <1>2. ui \in UiType /\ ~ui.running /\ ~ui.rx
    BY DEF ControlInit, FreshUi, UiType
  <1>3. th \in ThreadType /\ th.phase = "none" /\ th.tun = "off" /\ ~th.exited
    BY DEF ControlInit, NoThread, ThreadType, Phases
  <1>4. note \in NoteType /\ ~note.twice /\ ~note.lost
    BY DEF ControlInit, NoNotes, NoteType
  <1>5. sys \in SysType /\ mail \in Seq(Signals) /\ turn \in Turns
    BY <1>1 DEF ControlInit, Untouched, SysType, Settings, KdeKeys, Turns
  <1>6. ControlTyped
    BY <1>1, <1>2, <1>3, <1>4, <1>5 DEF ControlTyped
  <1>7. ThreadHeld /\ MailTells /\ RunningIsBound /\ TunTold /\ Captured
    BY <1>1, <1>2, <1>3 DEF ThreadHeld, MailTells, RunningIsBound, TunTold, Captured
  <1>8. SettingsKept
    BY <1>1, <1>4 DEF SettingsKept, KdeFollows, UsersOwn
  <1>9. QED
    BY <1>6, <1>7, <1>8 DEF ControlInv

(* A step of the desktop client is a step of the session or leaves it alone.  *)
LEMMA SessionStep == [Next]_vars => [ControlNext]_controlVars
  BY DEF Next, Session, Books, NodesChange, Tests, vars

(* For any number of starts and processes: what the UI thread, the proxy      *)
(* thread and the system's settings know of each other (update, run_proxy).   *)
THEOREM ControlHolds == Spec => []ControlInv
  <1>1. Init => ControlInv
    BY ControlStarts DEF Init
  <1>2. ControlInv /\ [Next]_vars => ControlInv'
    BY ControlNextInv, SessionStep
  <1>3. QED
    BY <1>1, <1>2, PTL DEF Spec

(* stop_proxy, converge_dead_session, the panic hook and the clean-up at the  *)
(* start: without a session the user's own settings are in force again.       *)
THEOREM SettingsAreRestored == Spec => []Restored
  <1>1. ControlInv => Restored
    <2> SUFFICES ASSUME ControlInv, turn # "down", ~ui.running, ~note.twice
                 PROVE  /\ sys.settings = UsersOwn /\ sys.slot = "none"
                        /\ os = "kde" => sys.kde = UsersOwn
      BY DEF Restored, UsersOwn
    <2>1. QED
      BY DEF ControlInv, SettingsKept, KdeFollows
  <1>2. QED
    BY <1>1, ControlHolds, PTL

(* poll_start_receiver: a running session captures traffic.                   *)
THEOREM RunningCaptures == Spec => []Captured
  <1>1. ControlInv => Captured
    BY DEF ControlInv
  <1>2. QED
    BY <1>1, ControlHolds, PTL

(* start_proxy: a thread starts only when the one before it has let go of its *)
(* port and its routes.                                                       *)
THEOREM SessionsNeverOverlap == Spec => SessionsApart
  <1> DEFINE Apart == starts' # starts => th.phase \in {"none", "gone"} /\ th.tun \notin {"trying", "up"}
  <1>1. ControlInv /\ [Next]_vars => [Apart]_controlVars
    <2> SUFFICES ASSUME ControlInv, ControlNext, starts' # starts
                 PROVE  th.phase \in {"none", "gone"} /\ th.tun \notin {"trying", "up"}
      BY SessionStep DEF controlVars
    <2>1. CASE TrayStart \/ ButtonStart
      BY <2>1, StartInv DEF TrayStart, ButtonStart
    <2>2. CASE ~(TrayStart \/ ButtonStart)
      <3>1. ~Thread
        BY DEF Thread, RuntimeFails, Boots, Binds, StartFails, WatcherReports, TunUp, TunFails, TunEnds, SeesStop,
           StopWaited, DropsRuntime, SignalsExit, ThreadOnly
      <3>2. ~Poll
        BY Zenon DEF Poll
      <3>3. ~Reap /\ ~TrayDone /\ ~Check /\ ~FrameEnds
        BY DEF Reap, TrayDone, Check, FrameEnds
      <3>4. ~TrayStop /\ ~ButtonStop /\ ~ToggleTun /\ ~ToggleSystemProxy
        BY DEF TrayStop, ButtonStop, StopProxy, ToggleTun, ToggleSystemProxy
      <3>5. ~Ends
        BY DEF Ends, TrayQuit, Exits, ExitButton, Leaves, ExitWaited, HardExit, DiesWithHook, SessionEnds, Killed,
           Down, Launches
      <3>6. QED
        BY <2>2, <3>1, <3>2, <3>3, <3>4, <3>5 DEF ControlNext, Frame, User
    <2>3. QED
      BY <2>1, <2>2
  <1>2. QED
    BY <1>1, ControlHolds, PTL DEF Spec, SessionsApart

-----------------------------------------------------------------------------
(* The list of nodes. *)

SubType  == [name : Names, nodes : SUBSET Addrs]
BookType == [addrs : SUBSET Addrs, subs : Seq(SubType), entries : SUBSET Addrs]

(* BookSound of a book b with what the histories excuse.                      *)
ClaimsApart(subs, g) ==
    \A i, j \in DOMAIN subs : i # j => /\ subs[i].name # subs[j].name
                                      /\ subs[i].nodes \cap subs[j].nodes \subseteq g
SoundWith(b, h, g, l) ==
    /\ ClaimsApart(b.subs, g)
    /\ h \subseteq b.addrs \ Owned(b.subs)
    /\ Owned(b.subs) \ b.addrs \subseteq g
    /\ b.entries \ b.addrs \subseteq l

BookInv ==
    /\ book \in BookType
    /\ dialog \in [node : Addrs \cup {None}, sub : Nat]
    /\ BookSound

(* Claims of a list of subscriptions, one by one.                             *)
LEMMA OwnedBy ==
    ASSUME NEW s, NEW x
    PROVE  x \in Owned(s) <=> \E i \in DOMAIN s : x \in s[i].nodes
  BY DEF Owned

(* A subscription more, one less, the last one less.                          *)
LEMMA SubsListed ==
    ASSUME NEW s \in Seq(SubType)
    PROVE  /\ DOMAIN s = 1..Len(s) /\ Len(s) \in Nat
           /\ \A i \in DOMAIN s : s[i] \in SubType
  OBVIOUS

LEMMA SubsTabled ==
    ASSUME NEW n \in Nat, NEW s \in [1..n -> SubType]
    PROVE  s \in Seq(SubType) /\ Len(s) = n
  OBVIOUS

LEMMA SubAppended ==
    ASSUME NEW s \in Seq(SubType), NEW n \in Names
    PROVE  /\ Append(s, NewSub(n)) \in Seq(SubType)
           /\ Len(Append(s, NewSub(n))) = Len(s) + 1
           /\ \A i \in 1..Len(s) : Append(s, NewSub(n))[i] = s[i]
           /\ Append(s, NewSub(n))[Len(s) + 1] = [name |-> n, nodes |-> {}]
  <1>1. NewSub(n) \in SubType /\ NewSub(n) = [name |-> n, nodes |-> {}]
    BY DEF NewSub, SubType
  <1> HIDE DEF NewSub
  <1>2. QED
    BY <1>1

LEMMA SubsFront ==
    ASSUME NEW s \in Seq(SubType), Len(s) > 0
    PROVE  /\ Front(s) \in Seq(SubType) /\ Len(Front(s)) = Len(s) - 1
           /\ \A i \in 1..(Len(s) - 1) : Front(s)[i] = s[i]
  <1>0. Len(s) \in Nat
    OBVIOUS
  <1>1. PICK n \in Nat : n = Len(s) - 1 /\ n <= Len(s)
    <2>1. Len(s) - 1 \in Nat /\ Len(s) - 1 <= Len(s)
      BY <1>0
    <2>2. QED
      BY <2>1
  <1>2. SubSeq(s, 1, n) \in Seq(SubType)
    BY <1>1
  <1>3. Len(SubSeq(s, 1, n)) = n
    BY <1>1
  <1>4. \A i \in 1..n : SubSeq(s, 1, n)[i] = s[i]
    BY <1>1
  <1>5. QED
    BY <1>1, <1>2, <1>3, <1>4 DEF Front

LEMMA SubRemoved ==
    ASSUME NEW s \in Seq(SubType), NEW i \in 1..Len(s)
    PROVE  /\ RemoveAt(s, i) \in Seq(SubType) /\ Len(RemoveAt(s, i)) = Len(s) - 1
           /\ \A j \in 1..(i - 1) : RemoveAt(s, i)[j] = s[j]
           /\ \A j \in i..(Len(s) - 1) : RemoveAt(s, i)[j] = s[j + 1]
  <1> DEFINE u == SubSeq(s, 1, i - 1)
             v == SubSeq(s, i + 1, Len(s))
  <1>1. u \in Seq(SubType) /\ Len(u) = i - 1 /\ \A j \in 1..(i - 1) : u[j] = s[j]
    OBVIOUS
  <1>2. v \in Seq(SubType) /\ Len(v) = Len(s) - i /\ \A j \in 1..(Len(s) - i) : v[j] = s[i + j]
    OBVIOUS
  <1>3. RemoveAt(s, i) = u \o v
    BY DEF RemoveAt
  <1> HIDE DEF u, v
  <1>4. /\ u \o v \in Seq(SubType) /\ Len(u \o v) = Len(s) - 1
        /\ \A j \in 1..(i - 1) : (u \o v)[j] = s[j]
    <2>1. u \o v \in Seq(SubType)
      BY <1>1, <1>2
    <2>2. Len(u \o v) = Len(u) + Len(v)
      <3> SUFFICES \A p, q \in Seq(SubType) : Len(p \o q) = Len(p) + Len(q)
        BY <1>1, <1>2
      <3>1. QED
        OBVIOUS
    <2>3. Len(u) + Len(v) = Len(s) - 1
      BY <1>1, <1>2
    <2>4. \A j \in 1..(i - 1) : (u \o v)[j] = u[j]
      BY <1>1, <1>2
    <2>5. QED
      BY <1>1, <2>1, <2>2, <2>3, <2>4
  <1>5. ASSUME NEW j \in i..(Len(s) - 1) PROVE (u \o v)[j] = s[j + 1]
    <2>1. (u \o v)[j] = v[j - (i - 1)] /\ j - (i - 1) \in 1..(Len(s) - i)
      BY <1>1, <1>2
    <2>2. v[j - (i - 1)] = s[i + (j - (i - 1))] /\ i + (j - (i - 1)) = j + 1
      BY <1>2, <2>1
    <2>3. QED
      BY <2>1, <2>2
  <1>6. QED
    BY <1>3, <1>4, <1>5

(* The list of a subscription is taken over: what others or the user hold is  *)
(* neither taken nor dropped.                                                 *)
LEMMA MergedSound ==
    ASSUME NEW b \in BookType, NEW h, NEW g, NEW l, SoundWith(b, h, g, l),
           NEW i \in DOMAIN b.subs, NEW new \in SUBSET Addrs
    PROVE  LET m == Merged(b, i, new) IN
           /\ m \in BookType /\ SoundWith(m, h, g, l)
           /\ Len(m.subs) = Len(b.subs) /\ DOMAIN m.subs = DOMAIN b.subs
           /\ \A j \in DOMAIN b.subs : m.subs[j].name = b.subs[j].name
           /\ \A j \in DOMAIN b.subs \ {i} : m.subs[j] = b.subs[j]
           /\ m.subs[i].nodes \subseteq new \cap m.addrs
  <1> DEFINE m == Merged(b, i, new)
             manual == b.addrs \ Owned(b.subs)
             others == OwnedByOthers(b.subs, i)
             gone == b.subs[i].nodes \ (new \cup manual \cup others)
             list == (b.addrs \ gone) \cup (new \ others)
             claimed == (new \cap list) \ (manual \cup others)
             s == [b.subs EXCEPT ![i].nodes = claimed]
  <1>1. /\ b.addrs \in SUBSET Addrs /\ b.subs \in Seq(SubType) /\ b.entries \in SUBSET Addrs
        /\ DOMAIN b.subs = 1..Len(b.subs) /\ Len(b.subs) \in Nat
        /\ \A j \in DOMAIN b.subs : b.subs[j] \in SubType
    BY SubsListed DEF BookType
  <1>2. /\ m.addrs = list /\ m.subs = s /\ m.entries = b.entries \ gone
        /\ m = [addrs |-> list, subs |-> s, entries |-> b.entries \ gone]
    BY DEF Merged
  <1>3. \A x : x \in others <=> \E j \in DOMAIN b.subs \ {i} : x \in b.subs[j].nodes
    BY DEF OwnedByOthers
  <1>4. \A x : x \in Owned(b.subs) <=> x \in b.subs[i].nodes \/ x \in others
    BY <1>3, OwnedBy
  <1>5. others \subseteq Addrs
    BY <1>1, <1>3 DEF SubType
  <1> HIDE DEF others
  <1>6. list \in SUBSET Addrs /\ claimed \in SUBSET Addrs
    BY <1>1, <1>5
  <1>7. claimed \subseteq new \cap list /\ claimed \cap others = {} /\ claimed \cap manual = {}
    OBVIOUS
  <1>8. list \cap others = b.addrs \cap others
    BY <1>4
  <1>9. manual \subseteq list
    BY <1>4
  <1>10. b.addrs \ list \subseteq gone /\ gone \cap manual = {} /\ gone \cap others = {}
    OBVIOUS
  <1> HIDE DEF list, claimed, gone
  <1>11. /\ DOMAIN s = DOMAIN b.subs /\ s[i] = [name |-> b.subs[i].name, nodes |-> claimed]
         /\ \A j \in DOMAIN b.subs \ {i} : s[j] = b.subs[j]
    BY <1>1 DEF SubType
  <1>12. s[i] \in SubType
    BY <1>1, <1>6, <1>11 DEF SubType
  <1>13. s \in Seq(SubType) /\ Len(s) = Len(b.subs)
    BY <1>1, <1>11, <1>12
  <1> HIDE DEF s
  <1>14. \A x : x \in Owned(s) <=> x \in claimed \/ x \in others
    <2>1. s[i].nodes = claimed
      BY <1>11
    <2>2. QED
      BY <1>3, <1>11, <2>1, OwnedBy
  <1>15. ClaimsApart(s, g)
    <2> SUFFICES ASSUME NEW j \in DOMAIN s, NEW k \in DOMAIN s, j # k
                 PROVE  s[j].name # s[k].name /\ s[j].nodes \cap s[k].nodes \subseteq g
      BY DEF ClaimsApart
    <2>1. /\ s[j].name = b.subs[j].name /\ s[k].name = b.subs[k].name
          /\ b.subs[j].name # b.subs[k].name /\ b.subs[j].nodes \cap b.subs[k].nodes \subseteq g
      BY <1>11 DEF SoundWith, ClaimsApart
    <2>2. CASE j = i
      <3>1. s[j].nodes \cap s[k].nodes = {}
        BY <1>3, <1>7, <1>11, <2>2
      <3>2. QED
        BY <2>1, <3>1
    <2>3. CASE k = i
      <3>1. s[j].nodes \cap s[k].nodes = {}
        BY <1>3, <1>7, <1>11, <2>3
      <3>2. QED
        BY <2>1, <3>1
    <2>4. CASE j # i /\ k # i
      BY <1>11, <2>1, <2>4
    <2>5. QED
      BY <2>2, <2>3, <2>4
  <1>16. h \subseteq list \ Owned(s)
    BY <1>4, <1>7, <1>9, <1>14 DEF SoundWith
  <1>17. Owned(s) \ list \subseteq g
    BY <1>4, <1>7, <1>8, <1>14 DEF SoundWith
  <1>18. (b.entries \ gone) \ list \subseteq l
    BY <1>10 DEF SoundWith
  <1>19. SoundWith(m, h, g, l)
    BY <1>2, <1>15, <1>16, <1>17, <1>18 DEF SoundWith
  <1>20. m \in BookType
    BY <1>1, <1>2, <1>6, <1>13 DEF BookType
  <1>21. /\ \A j \in DOMAIN b.subs : m.subs[j].name = b.subs[j].name
         /\ m.subs[i].nodes \subseteq new \cap m.addrs
    BY <1>2, <1>7, <1>11
  <1> HIDE DEF m
  <1>22. QED
    BY <1>2, <1>11, <1>13, <1>19, <1>20, <1>21 DEF m

(* A new subscription lists nothing yet.                                      *)
LEMMA SubAdded ==
    ASSUME NEW b \in BookType, NEW h, NEW g, NEW l, SoundWith(b, h, g, l),
           NEW n \in Names \ SubNames(b.subs)
    PROVE  LET c == [b EXCEPT !.subs = Append(b.subs, NewSub(n))] IN
           /\ c \in BookType /\ SoundWith(c, h, g, l)
           /\ Len(c.subs) = Len(b.subs) + 1 /\ c.subs[Len(c.subs)].name = n
           /\ \A j \in 1..Len(b.subs) : c.subs[j] = b.subs[j]
  <1> DEFINE s == Append(b.subs, NewSub(n))
             c == [b EXCEPT !.subs = Append(b.subs, NewSub(n))]
  <1>1. /\ b.addrs \in SUBSET Addrs /\ b.subs \in Seq(SubType) /\ b.entries \in SUBSET Addrs
        /\ b = [addrs |-> b.addrs, subs |-> b.subs, entries |-> b.entries]
        /\ DOMAIN b.subs = 1..Len(b.subs) /\ Len(b.subs) \in Nat
    BY SubsListed DEF BookType
  <1>2. c = [addrs |-> b.addrs, subs |-> s, entries |-> b.entries]
    BY <1>1
  <1>3. /\ s \in Seq(SubType) /\ Len(s) = Len(b.subs) + 1 /\ DOMAIN s = 1..(Len(b.subs) + 1)
        /\ \A j \in 1..Len(b.subs) : s[j] = b.subs[j]
        /\ s[Len(b.subs) + 1] = [name |-> n, nodes |-> {}]
    BY <1>1, SubAppended, SubsListed
  <1> HIDE DEF s, c
  <1>4. \A j \in DOMAIN s : j \in DOMAIN b.subs \/ j = Len(b.subs) + 1
    BY <1>1, <1>3
  <1>5. \A j \in DOMAIN b.subs : b.subs[j].name # n /\ j \in DOMAIN s /\ s[j] = b.subs[j]
    BY <1>1, <1>3 DEF SubNames
  <1>6. Owned(s) = Owned(b.subs)
    <2>1. s[Len(b.subs) + 1].nodes = {}
      BY <1>3
    <2>2. \A x : x \in Owned(s) <=> x \in Owned(b.subs)
      BY <1>4, <1>5, <2>1, OwnedBy
    <2>3. QED
      BY <2>2
  <1>7. ClaimsApart(s, g)
    <2> SUFFICES ASSUME NEW j \in DOMAIN s, NEW k \in DOMAIN s, j # k
                 PROVE  s[j].name # s[k].name /\ s[j].nodes \cap s[k].nodes \subseteq g
      BY DEF ClaimsApart
    <2>1. s[Len(b.subs) + 1].name = n /\ s[Len(b.subs) + 1].nodes = {}
      BY <1>3
    <2>2. CASE j \in DOMAIN b.subs /\ k \in DOMAIN b.subs
      BY <1>5, <2>2 DEF SoundWith, ClaimsApart
    <2>3. CASE ~(j \in DOMAIN b.subs /\ k \in DOMAIN b.subs)
      BY <1>4, <1>5, <2>1, <2>3
    <2>4. QED
      BY <2>2, <2>3
  <1>8. c \in BookType
    BY <1>1, <1>2, <1>3 DEF BookType
  <1>9. c.addrs = b.addrs /\ c.subs = s /\ c.entries = b.entries
    BY <1>2
  <1>10. SoundWith(c, h, g, l)
    BY <1>6, <1>7, <1>9 DEF SoundWith
  <1>11. s[Len(s)].name = n
    BY <1>1, <1>3
  <1>12. QED
    BY <1>3, <1>8, <1>9, <1>10, <1>11 DEF c

(* The last subscription, which lists nothing, is taken back.                 *)
LEMMA SubTakenBack ==
    ASSUME NEW b \in BookType, NEW h, NEW g, NEW l, SoundWith(b, h, g, l),
           Len(b.subs) > 0, b.subs[Len(b.subs)].nodes = {}
    PROVE  LET c == [b EXCEPT !.subs = Front(@)] IN
           /\ c \in BookType /\ SoundWith(c, h, g, l)
           /\ Len(c.subs) = Len(b.subs) - 1
           /\ \A j \in 1..(Len(b.subs) - 1) : c.subs[j] = b.subs[j]
  <1> DEFINE s == Front(b.subs)
             c == [b EXCEPT !.subs = Front(@)]
  <1>1. /\ b.addrs \in SUBSET Addrs /\ b.subs \in Seq(SubType) /\ b.entries \in SUBSET Addrs
        /\ b = [addrs |-> b.addrs, subs |-> b.subs, entries |-> b.entries]
        /\ DOMAIN b.subs = 1..Len(b.subs) /\ Len(b.subs) \in Nat
    BY SubsListed DEF BookType
  <1>2. c = [addrs |-> b.addrs, subs |-> s, entries |-> b.entries]
    BY <1>1
  <1>3. /\ s \in Seq(SubType) /\ Len(s) = Len(b.subs) - 1 /\ DOMAIN s = 1..(Len(b.subs) - 1)
        /\ \A j \in 1..(Len(b.subs) - 1) : s[j] = b.subs[j]
    BY <1>1, SubsFront, SubsListed
  <1> HIDE DEF s, c
  <1>4. \A j \in DOMAIN s : j \in DOMAIN b.subs /\ s[j] = b.subs[j]
    BY <1>1, <1>3
  <1>5. \A j \in DOMAIN b.subs : j \in DOMAIN s \/ b.subs[j].nodes = {}
    <2> TAKE j \in DOMAIN b.subs
    <2>1. j \in 1..(Len(b.subs) - 1) \/ j = Len(b.subs)
      BY <1>1
    <2>2. QED
      BY <1>3, <2>1
  <1>6. Owned(s) = Owned(b.subs)
    <2>1. \A x : x \in Owned(s) <=> x \in Owned(b.subs)
      BY <1>4, <1>5, OwnedBy
    <2>2. QED
      BY <2>1
  <1>7. ClaimsApart(s, g)
    BY <1>4 DEF ClaimsApart, SoundWith
  <1>8. c \in BookType
    BY <1>1, <1>2, <1>3 DEF BookType
  <1>9. c.addrs = b.addrs /\ c.subs = s /\ c.entries = b.entries
    BY <1>2
  <1>10. SoundWith(c, h, g, l)
    BY <1>6, <1>7, <1>9 DEF SoundWith
  <1>11. QED
    BY <1>3, <1>8, <1>9, <1>10 DEF c

(* A group: when it is there afterwards, what it claims is listed.            *)
LEMMA GroupedSound ==
    ASSUME NEW b \in BookType, NEW h, NEW g, NEW l, SoundWith(b, h, g, l),
           NEW n \in Names \ SubNames(b.subs), NEW new \in SUBSET Addrs
    PROVE  LET r == Grouped(b, n, new) IN
           /\ r \in BookType /\ SoundWith(r, h, g, l)
           /\ Len(r.subs) \in {Len(b.subs), Len(b.subs) + 1}
           /\ n \in SubNames(r.subs) => new \cap r.addrs # {}
  <1> DEFINE s == Append(b.subs, NewSub(n))
             c == [b EXCEPT !.subs = Append(b.subs, NewSub(n))]
             m == Merged(c, Len(s), new)
             r == Grouped(b, n, new)
  <1>0. b.subs \in Seq(SubType) /\ DOMAIN b.subs = 1..Len(b.subs) /\ Len(b.subs) \in Nat
    BY SubsListed DEF BookType
  <1>1. /\ c \in BookType /\ SoundWith(c, h, g, l)
        /\ Len(c.subs) = Len(b.subs) + 1 /\ c.subs[Len(c.subs)].name = n
        /\ \A j \in 1..Len(b.subs) : c.subs[j] = b.subs[j]
    BY SubAdded
  <1>2. c.subs = s
    BY DEF BookType
  <1>3. r = IF m.subs[Len(s)].nodes = {} THEN [m EXCEPT !.subs = Front(@)] ELSE m
    BY DEF Grouped
  <1> HIDE DEF s, c, r
  <1>4. c.subs \in Seq(SubType) /\ DOMAIN c.subs = 1..Len(c.subs) /\ Len(s) \in DOMAIN c.subs
    BY <1>0, <1>1, <1>2, SubsListed DEF BookType
  <1>5. /\ m \in BookType /\ SoundWith(m, h, g, l)
        /\ Len(m.subs) = Len(c.subs) /\ DOMAIN m.subs = DOMAIN c.subs
        /\ \A j \in DOMAIN c.subs : m.subs[j].name = c.subs[j].name
        /\ m.subs[Len(s)].nodes \subseteq new \cap m.addrs
    BY <1>1, <1>4, MergedSound
  <1> HIDE DEF m
  <1>6. CASE m.subs[Len(s)].nodes = {}
    <2> DEFINE f == [m EXCEPT !.subs = Front(@)]
    <2>1. /\ f \in BookType /\ SoundWith(f, h, g, l) /\ Len(f.subs) = Len(m.subs) - 1
          /\ \A j \in 1..(Len(m.subs) - 1) : f.subs[j] = m.subs[j]
      <3>1. Len(m.subs) > 0 /\ m.subs[Len(m.subs)].nodes = {}
        BY <1>0, <1>1, <1>2, <1>5, <1>6
      <3>2. QED
        BY <1>5, <3>1, SubTakenBack
    <2> HIDE DEF f
    <2>2. r = f
      BY <1>3, <1>6 DEF f
    <2>3. f.subs \in Seq(SubType) /\ DOMAIN f.subs = 1..Len(b.subs) /\ Len(f.subs) = Len(b.subs)
      BY <1>0, <1>1, <1>5, <2>1, SubsListed DEF BookType
    <2>4. n \notin SubNames(f.subs)
      <3> SUFFICES ASSUME NEW j \in 1..Len(b.subs) PROVE f.subs[j].name # n
        BY <2>3 DEF SubNames
      <3>1. f.subs[j] = m.subs[j] /\ j \in DOMAIN c.subs
        BY <1>0, <1>1, <1>4, <1>5, <2>1
      <3>2. m.subs[j].name = b.subs[j].name
        BY <1>1, <1>5, <3>1
      <3>3. QED
        BY <1>0, <3>1, <3>2 DEF SubNames
    <2>5. QED
      BY <2>1, <2>2, <2>3, <2>4 DEF r
  <1>7. CASE m.subs[Len(s)].nodes # {}
    <2>1. r = m
      BY <1>3, <1>7
    <2>2. QED
      BY <1>1, <1>5, <1>7, <2>1 DEF r
  <1>8. QED
    BY <1>6, <1>7

(* A subscription is deleted with the nodes that it alone claims.             *)
LEMMA DroppedSound ==
    ASSUME NEW b \in BookType, NEW h, NEW g, NEW l, SoundWith(b, h, g, l), NEW i \in DOMAIN b.subs
    PROVE  LET d == Dropped(b, i) IN
           d \in BookType /\ SoundWith(d, h, g, l) /\ Len(d.subs) = Len(b.subs) - 1
  <1> DEFINE s == RemoveAt(b.subs, i)
             gone == b.subs[i].nodes \ Owned(s)
             d == Dropped(b, i)
  <1>1. /\ b.addrs \in SUBSET Addrs /\ b.subs \in Seq(SubType) /\ b.entries \in SUBSET Addrs
        /\ DOMAIN b.subs = 1..Len(b.subs) /\ Len(b.subs) \in Nat /\ i \in 1..Len(b.subs)
    BY SubsListed DEF BookType
  <1>2. d = [addrs |-> b.addrs \ gone, subs |-> s, entries |-> b.entries \ gone]
    BY DEF Dropped
  <1>3. /\ s \in Seq(SubType) /\ Len(s) = Len(b.subs) - 1 /\ DOMAIN s = 1..(Len(b.subs) - 1)
        /\ \A j \in 1..(i - 1) : s[j] = b.subs[j]
        /\ \A j \in i..(Len(b.subs) - 1) : s[j] = b.subs[j + 1]
    <2>1. b.subs \in Seq(SubType) /\ i \in 1..Len(b.subs)
      BY <1>1
    <2>2. /\ s \in Seq(SubType) /\ Len(s) = Len(b.subs) - 1
          /\ \A j \in 1..(i - 1) : s[j] = b.subs[j]
          /\ \A j \in i..(Len(b.subs) - 1) : s[j] = b.subs[j + 1]
      BY <2>1, SubRemoved
    <2> HIDE DEF s
    <2>3. DOMAIN s = 1..Len(s)
      BY <2>2, SubsListed
    <2>4. QED
      BY <2>2, <2>3
  <1> HIDE DEF s, d
  <1> DEFINE f(j) == IF j < i THEN j ELSE j + 1
  <1>4. \A j \in DOMAIN s : f(j) \in DOMAIN b.subs \ {i} /\ s[j] = b.subs[f(j)]
    <2> TAKE j \in DOMAIN s
    <2>1. CASE j < i
      BY <1>1, <1>3, <2>1
    <2>2. CASE ~(j < i)
      <3>1. j \in i..(Len(b.subs) - 1) /\ f(j) = j + 1
        BY <1>1, <1>3, <2>2
      <3>2. QED
        BY <1>1, <1>3, <3>1
    <2>3. QED
      BY <2>1, <2>2
  <1>5. \A j, k \in DOMAIN s : j # k => f(j) # f(k)
    BY <1>1, <1>3
  <1>6. \A k \in DOMAIN b.subs \ {i} : \E j \in DOMAIN s : s[j] = b.subs[k]
    <2> TAKE k \in DOMAIN b.subs \ {i}
    <2>1. CASE k < i
      BY <1>1, <1>3, <2>1
    <2>2. CASE ~(k < i)
      <3>1. k - 1 \in DOMAIN s /\ k - 1 \in i..(Len(b.subs) - 1) /\ (k - 1) + 1 = k
        BY <1>1, <1>3, <2>2
      <3>2. s[k - 1] = b.subs[k]
        BY <1>3, <3>1
      <3>3. QED
        BY <3>1, <3>2
    <2>3. QED
      BY <2>1, <2>2
  <1> HIDE DEF f
  <1>7. \A x : x \in Owned(b.subs) <=> x \in b.subs[i].nodes \/ x \in Owned(s)
    BY <1>4, <1>6, OwnedBy
  <1>8. ClaimsApart(s, g)
    <2> SUFFICES ASSUME NEW j \in DOMAIN s, NEW k \in DOMAIN s, j # k
                 PROVE  s[j].name # s[k].name /\ s[j].nodes \cap s[k].nodes \subseteq g
      BY DEF ClaimsApart
    <2>1. /\ f(j) \in DOMAIN b.subs /\ f(k) \in DOMAIN b.subs /\ f(j) # f(k)
          /\ s[j] = b.subs[f(j)] /\ s[k] = b.subs[f(k)]
      BY <1>4, <1>5
    <2>2. QED
      BY <2>1 DEF SoundWith, ClaimsApart
  <1>9. /\ h \subseteq (b.addrs \ gone) \ Owned(s)
        /\ Owned(s) \ (b.addrs \ gone) \subseteq g
        /\ (b.entries \ gone) \ (b.addrs \ gone) \subseteq l
    BY <1>7 DEF SoundWith
  <1> HIDE DEF gone
  <1>10. d.addrs = b.addrs \ gone /\ d.subs = s /\ d.entries = b.entries \ gone
    BY <1>2
  <1>11. SoundWith(d, h, g, l)
    BY <1>8, <1>9, <1>10 DEF SoundWith
  <1>12. d \in BookType
    BY <1>1, <1>2, <1>3 DEF BookType
  <1>13. QED
    BY <1>3, <1>10, <1>11, <1>12 DEF d

(* A node is deleted, the claims are left as they are.                        *)
LEMMA DeletedSound ==
    ASSUME NEW b \in BookType, NEW h, NEW g, NEW l, SoundWith(b, h, g, l), NEW a \in b.addrs
    PROVE  /\ Deleted(b, a) \in BookType /\ Deleted(b, a).subs = b.subs
           /\ SoundWith(Deleted(b, a), h \ {a}, g \cup ({a} \cap Owned(b.subs)), l)
  <1>1. /\ b.addrs \in SUBSET Addrs /\ b.subs \in Seq(SubType) /\ b.entries \in SUBSET Addrs
        /\ b = [addrs |-> b.addrs, subs |-> b.subs, entries |-> b.entries]
    BY DEF BookType
  <1>2. Deleted(b, a) \in BookType
    BY <1>1 DEF Deleted, BookType
  <1>3. /\ Deleted(b, a).addrs = b.addrs \ {a} /\ Deleted(b, a).subs = b.subs
        /\ Deleted(b, a).entries = b.entries \ {a}
    BY <1>1 DEF Deleted
  <1> HIDE DEF Deleted
  <1>5. ClaimsApart(b.subs, g \cup ({a} \cap Owned(b.subs)))
    BY DEF SoundWith, ClaimsApart
  <1>6. QED
    BY <1>2, <1>3, <1>5 DEF SoundWith

(* A node gets another address everywhere.  Where two claims meet now, or a   *)
(* claim lacks its node, a ghost was moved.                                   *)
LEMMA RenamedSound ==
    ASSUME NEW b \in BookType, NEW h, NEW g, NEW l, SoundWith(b, h, g, l),
           NEW a \in Addrs, NEW c \in Addrs \ b.addrs, a # c
    PROVE  LET r == Renamed(b, a, c) IN
           /\ r \in BookType /\ Len(r.subs) = Len(b.subs)
           /\ a \in b.addrs => c \in r.addrs
           /\ SoundWith(r, IF a \notin h THEN h ELSE (h \ {a}) \cup ({c} \ Owned(r.subs)), Moved(g, a, c),
                        IF a \in b.addrs THEN Moved(l, a, c) ELSE Moved(l, a, c) \cup {c})
  <1> DEFINE s == [i \in DOMAIN b.subs |-> [b.subs[i] EXCEPT !.nodes = Moved(@, a, c)]]
             r == Renamed(b, a, c)
             h1 == IF a \notin h THEN h ELSE (h \ {a}) \cup ({c} \ Owned(r.subs))
             l1 == IF a \in b.addrs THEN Moved(l, a, c) ELSE Moved(l, a, c) \cup {c}
  <1>1. /\ b.addrs \in SUBSET Addrs /\ b.subs \in Seq(SubType) /\ b.entries \in SUBSET Addrs
        /\ DOMAIN b.subs = 1..Len(b.subs) /\ Len(b.subs) \in Nat
        /\ \A i \in DOMAIN b.subs : b.subs[i] \in SubType
    BY SubsListed DEF BookType
  <1>2. \A S, x : x \in Moved(S, a, c) <=> (x \in S /\ x # a) \/ (x = c /\ a \in S)
    BY DEF Moved
  <1>3. /\ r.addrs = Moved(b.addrs, a, c) /\ r.subs = s /\ r.entries = Moved(b.entries, a, c)
        /\ r = [addrs |-> Moved(b.addrs, a, c), subs |-> s, entries |-> Moved(b.entries, a, c)]
    BY DEF Renamed
  <1>4. \A i \in DOMAIN b.subs : /\ s[i].name = b.subs[i].name /\ s[i].nodes = Moved(b.subs[i].nodes, a, c)
                                 /\ s[i] \in SubType
    BY <1>1, <1>2 DEF SubType
  <1>5. DOMAIN s = DOMAIN b.subs
    OBVIOUS
  <1> HIDE DEF s, r, Moved
  <1>6. s \in Seq(SubType) /\ Len(s) = Len(b.subs)
    <2>1. DOMAIN s = 1..Len(b.subs) /\ \A i \in 1..Len(b.subs) : s[i] \in SubType
      BY <1>1, <1>4, <1>5
    <2>2. s \in [1..Len(b.subs) -> SubType]
      BY <1>1, <2>1 DEF s
    <2>3. QED
      BY <1>1, <2>2, SubsTabled
  <1>7. \A x : x \in Owned(s) <=> (x \in Owned(b.subs) /\ x # a) \/ (x = c /\ a \in Owned(b.subs))
    BY <1>2, <1>4, <1>5, OwnedBy
  <1>8. \A x : x \in Owned(b.subs) /\ x \notin b.addrs => x \in g
    BY DEF SoundWith
  <1>9. ClaimsApart(s, Moved(g, a, c))
    <2> SUFFICES ASSUME NEW j \in DOMAIN s, NEW k \in DOMAIN s, j # k,
                        NEW x \in s[j].nodes \cap s[k].nodes
                 PROVE  x \in Moved(g, a, c)
      BY <1>4, <1>5 DEF ClaimsApart, SoundWith
    <2>1. b.subs[j].nodes \cap b.subs[k].nodes \subseteq g
      BY <1>5 DEF ClaimsApart, SoundWith
    <2>2. /\ (x \in b.subs[j].nodes /\ x # a) \/ (x = c /\ a \in b.subs[j].nodes)
          /\ (x \in b.subs[k].nodes /\ x # a) \/ (x = c /\ a \in b.subs[k].nodes)
      BY <1>2, <1>4, <1>5
    <2>3. CASE x # c
      BY <1>2, <2>1, <2>2, <2>3
    <2>4. CASE x = c
      <3>1. a \in g \/ c \in g
        <4>1. CASE c \in b.subs[j].nodes \/ c \in b.subs[k].nodes
          BY <1>5, <1>8, <4>1, OwnedBy
        <4>2. CASE c \notin b.subs[j].nodes /\ c \notin b.subs[k].nodes
          BY <2>1, <2>2, <2>4, <4>2
        <4>3. QED
          BY <4>1, <4>2
      <3>2. QED
        BY <1>2, <2>4, <3>1
    <2>5. QED
      BY <2>3, <2>4
  <1>10. h1 \subseteq r.addrs \ Owned(s)
    <2>1. h \subseteq b.addrs \ Owned(b.subs)
      BY DEF SoundWith
    <2>2. \A x \in h : x # a => x \in r.addrs /\ x \notin Owned(s)
      BY <1>2, <1>3, <1>7, <2>1
    <2>3. a \in h => c \in r.addrs
      BY <1>2, <1>3, <2>1
    <2>4. QED
      BY <1>3, <2>2, <2>3
  <1>11. Owned(s) \ r.addrs \subseteq Moved(g, a, c)
    BY <1>2, <1>3, <1>7, <1>8
  <1>12. r.entries \ r.addrs \subseteq l1
    <2>1. b.entries \ b.addrs \subseteq l
      BY DEF SoundWith
    <2>2. ASSUME NEW x \in r.entries, x \notin r.addrs PROVE x \in l1
      <3>1. CASE x = c
        <4>1. a \notin b.addrs
          BY <1>2, <1>3, <2>2, <3>1
        <4>2. QED
          BY <3>1, <4>1
      <3>2. CASE x # c
        BY <1>2, <1>3, <2>1, <2>2, <3>2
      <3>3. QED
        BY <3>1, <3>2
    <2>3. QED
      BY <2>2
  <1> HIDE DEF h1, l1
  <1>13. SoundWith(r, h1, Moved(g, a, c), l1)
    BY <1>3, <1>9, <1>10, <1>11, <1>12 DEF SoundWith
  <1>14. r \in BookType
    <2>1. Moved(b.addrs, a, c) \in SUBSET Addrs /\ Moved(b.entries, a, c) \in SUBSET Addrs
      BY <1>1, <1>2
    <2>2. QED
      BY <1>3, <1>6, <2>1 DEF BookType
  <1>15. a \in b.addrs => c \in r.addrs
    BY <1>2, <1>3
  <1>16. QED
    BY <1>3, <1>6, <1>13, <1>14, <1>15 DEF r, h1, l1

(* A subscription gives up a node, which then is the user's.                  *)
LEMMA ReleasedSound ==
    ASSUME NEW b \in BookType, NEW h, NEW g, NEW l, SoundWith(b, h, g, l), NEW a
    PROVE  LET r == Released(b, a) IN
           /\ r \in BookType /\ Len(r.subs) = Len(b.subs)
           /\ SoundWith(r, h \cup (({a} \cap b.addrs) \ Owned(r.subs)), g, l)
  <1> DEFINE i == CHOOSE j \in DOMAIN b.subs :
                    a \in b.subs[j].nodes /\ \A k \in 1..(j - 1) : a \notin b.subs[k].nodes
             s == [b.subs EXCEPT ![i].nodes = @ \ {a}]
             r == Released(b, a)
  <1>1. /\ b.addrs \in SUBSET Addrs /\ b.subs \in Seq(SubType) /\ b.entries \in SUBSET Addrs
        /\ b = [addrs |-> b.addrs, subs |-> b.subs, entries |-> b.entries]
        /\ DOMAIN b.subs = 1..Len(b.subs) /\ Len(b.subs) \in Nat
        /\ \A j \in DOMAIN b.subs : b.subs[j] \in SubType
    BY SubsListed DEF BookType
  <1>2. Released(b, a) = [b EXCEPT !.subs[i].nodes = @ \ {a}]
    BY DEF Released
  <1> HIDE DEF i, Released
  <1>3. r.addrs = b.addrs /\ r.subs = s /\ r.entries = b.entries
    BY <1>1, <1>2
  <1>4. r = [addrs |-> b.addrs, subs |-> s, entries |-> b.entries]
    BY <1>1, <1>2
  <1>5. /\ DOMAIN s = DOMAIN b.subs
        /\ \A j \in DOMAIN b.subs : /\ s[j] \in SubType /\ s[j].name = b.subs[j].name
                                    /\ s[j].nodes \subseteq b.subs[j].nodes
    BY <1>1 DEF SubType
  <1>6. s \in [1..Len(b.subs) -> SubType]
    BY <1>1, <1>5
  <1>7. s \in Seq(SubType) /\ Len(s) = Len(b.subs)
    BY <1>1, <1>6, SubsTabled
  <1> HIDE DEF s, r
  <1>8. Owned(s) \subseteq Owned(b.subs)
    BY <1>5, OwnedBy
  <1>9. ClaimsApart(s, g)
    BY <1>5 DEF ClaimsApart, SoundWith
  <1>10. r \in BookType
    BY <1>1, <1>4, <1>7 DEF BookType
  <1>11. SoundWith(r, h \cup (({a} \cap b.addrs) \ Owned(r.subs)), g, l)
    BY <1>3, <1>8, <1>9 DEF SoundWith
  <1>12. QED
    BY <1>3, <1>7, <1>10, <1>11 DEF r

(* A name or a certificate is entered for a listed node or for a late one.    *)
LEMMA EntrySound ==
    ASSUME NEW b \in BookType, NEW h, NEW g, NEW l, SoundWith(b, h, g, l),
           NEW a \in Addrs, a \in b.addrs \/ a \in l, NEW filled \in BOOLEAN
    PROVE  /\ WithEntry(b, a, filled) \in BookType /\ WithEntry(b, a, filled).subs = b.subs
           /\ SoundWith(WithEntry(b, a, filled), h, g, l)
  <1>1. /\ b.addrs \in SUBSET Addrs /\ b.subs \in Seq(SubType) /\ b.entries \in SUBSET Addrs
    BY DEF BookType
  <1> DEFINE e == IF filled THEN b.entries \cup {a} ELSE b.entries \ {a}
             w == WithEntry(b, a, filled)
  <1>2. w.addrs = b.addrs /\ w.subs = b.subs /\ w.entries = e
    BY DEF WithEntry, BookType
  <1>3. e \in SUBSET Addrs /\ e \subseteq b.entries \cup {a}
    BY <1>1
  <1>4. w \in BookType
    <2>1. w = [b EXCEPT !.entries = e]
      BY DEF WithEntry
    <2> HIDE DEF w, e
    <2>2. QED
      BY <1>3, <2>1 DEF BookType
  <1> HIDE DEF e, w
  <1>5. SoundWith(w, h, g, l)
    BY <1>2, <1>3 DEF SoundWith
  <1>6. QED
    BY <1>2, <1>4, <1>5 DEF w

(* A subscription gets a name no other one has.                               *)
LEMMA SubNamedSound ==
    ASSUME NEW b \in BookType, NEW h, NEW g, NEW l, SoundWith(b, h, g, l),
           NEW i \in DOMAIN b.subs, NEW n \in Names, \A j \in DOMAIN b.subs \ {i} : b.subs[j].name # n
    PROVE  LET c == [b EXCEPT !.subs[i].name = n] IN
           c \in BookType /\ SoundWith(c, h, g, l) /\ Len(c.subs) = Len(b.subs)
  <1> DEFINE s == [b.subs EXCEPT ![i].name = n]
             c == [b EXCEPT !.subs[i].name = n]
  <1>1. /\ b.addrs \in SUBSET Addrs /\ b.subs \in Seq(SubType) /\ b.entries \in SUBSET Addrs
        /\ b = [addrs |-> b.addrs, subs |-> b.subs, entries |-> b.entries]
        /\ DOMAIN b.subs = 1..Len(b.subs) /\ Len(b.subs) \in Nat
        /\ \A j \in DOMAIN b.subs : b.subs[j] \in SubType
    BY SubsListed DEF BookType
  <1>2. c.addrs = b.addrs /\ c.subs = s /\ c.entries = b.entries
    BY <1>1
  <1>3. c = [b EXCEPT !.subs = s]
    BY <1>1
  <1>4. /\ DOMAIN s = DOMAIN b.subs /\ s[i].name = n /\ \A j \in DOMAIN b.subs \ {i} : s[j] = b.subs[j]
        /\ \A j \in DOMAIN b.subs : s[j] \in SubType /\ s[j].nodes = b.subs[j].nodes
    BY <1>1 DEF SubType
  <1>5. s \in [1..Len(b.subs) -> SubType]
    BY <1>1, <1>4
  <1>6. s \in Seq(SubType) /\ Len(s) = Len(b.subs)
    BY <1>1, <1>5, SubsTabled
  <1> HIDE DEF s, c
  <1>7. Owned(s) = Owned(b.subs)
    <2>1. \A x : x \in Owned(s) <=> x \in Owned(b.subs)
      BY <1>4, OwnedBy
    <2>2. QED
      BY <2>1
  <1>8. ClaimsApart(s, g)
    BY <1>4 DEF ClaimsApart, SoundWith
  <1>9. c \in BookType
    BY <1>1, <1>3, <1>6 DEF BookType
  <1>10. SoundWith(c, h, g, l)
    BY <1>2, <1>7, <1>8 DEF SoundWith
  <1>11. QED
    BY <1>2, <1>6, <1>9, <1>10 DEF c

(* Links listed by hand.                                                      *)
LEMMA ListedSound ==
    ASSUME NEW b \in BookType, NEW h, NEW g, NEW l, SoundWith(b, h, g, l), NEW new \in SUBSET Addrs
    PROVE  LET c == [b EXCEPT !.addrs = @ \cup new] IN
           /\ c \in BookType /\ c.subs = b.subs
           /\ SoundWith(c, h \cup (new \ (b.addrs \cup Owned(b.subs))), g, l)
  <1> DEFINE c == [b EXCEPT !.addrs = @ \cup new]
  <1>1. /\ b.addrs \in SUBSET Addrs /\ b.subs \in Seq(SubType) /\ b.entries \in SUBSET Addrs
    BY DEF BookType
  <1>2. c.addrs = b.addrs \cup new /\ c.subs = b.subs /\ c.entries = b.entries
    BY DEF BookType
  <1>3. c \in BookType
    BY <1>1 DEF BookType
  <1> HIDE DEF c
  <1>4. SoundWith(c, h \cup (new \ (b.addrs \cup Owned(b.subs))), g, l)
    BY <1>2 DEF SoundWith
  <1>5. QED
    BY <1>2, <1>3, <1>4 DEF c

(* The histories keep what still excuses something.                           *)
LEMMA TracksSound ==
    ASSUME NEW b \in BookType, NEW h, NEW g, NEW l, SoundWith(b, h, g, l), Tracks(b, h, g, l),
           dialog' \in [node : Addrs \cup {None}, sub : Nat]
    PROVE  BookInv'
  <1>1. book' = b /\ hand' = h /\ ghosts' = g \cap Owned(b.subs) /\ late' = l \cap b.entries
    BY DEF Tracks
  <1>2. \A i \in DOMAIN b.subs : b.subs[i].nodes \subseteq Owned(b.subs)
    BY OwnedBy
  <1>3. BookSound'
    BY <1>1, <1>2 DEF BookSound, SoundWith, ClaimsApart
  <1>4. QED
    BY <1>1, <1>3 DEF BookInv

LEMMA BookFacts ==
    ASSUME BookInv
    PROVE  /\ book \in BookType /\ SoundWith(book, hand, ghosts, late)
           /\ book.subs \in Seq(SubType) /\ DOMAIN book.subs = 1..Len(book.subs) /\ Len(book.subs) \in Nat
           /\ book.addrs \in SUBSET Addrs
           /\ dialog.node \in Addrs \cup {None} /\ dialog.sub \in Nat
           /\ dialog \in [node : Addrs \cup {None}, sub : Nat]
  <1>1. book \in BookType /\ SoundWith(book, hand, ghosts, late)
    BY DEF BookInv, BookSound, SoundWith, ClaimsApart
  <1>2. book.subs \in Seq(SubType) /\ book.addrs \in SUBSET Addrs
    BY <1>1 DEF BookType
  <1>3. DOMAIN book.subs = 1..Len(book.subs) /\ Len(book.subs) \in Nat
    BY <1>2, SubsListed
  <1>4. QED
    BY <1>1, <1>2, <1>3 DEF BookInv

(* Most operations leave the dialogs as they are.                             *)
LEMMA DialogKept ==
    ASSUME BookInv, OtherVars
    PROVE  dialog' \in [node : Addrs \cup {None}, sub : Nat]
  BY BookFacts DEF OtherVars

LEMMA AddingInv == BookInv /\ (AddSub \/ ImportGroup \/ ManualAdd) => BookInv'
  <1>1. ASSUME BookInv, AddSub PROVE BookInv'
    <2>1. PICK n \in Names \ SubNames(book.subs) :
             Tracks([book EXCEPT !.subs = Append(@, NewSub(n))], hand, ghosts, late)
      BY <1>1 DEF AddSub
    <2> DEFINE b == [book EXCEPT !.subs = Append(book.subs, NewSub(n))]
    <2>2. b \in BookType /\ SoundWith(b, hand, ghosts, late) /\ Len(b.subs) = Len(book.subs) + 1
      BY <1>1, BookFacts, SubAdded
    <2>3. Tracks(b, hand, ghosts, late)
      BY <2>1
    <2> HIDE DEF b
    <2>4. dialog' \in [node : Addrs \cup {None}, sub : Nat]
      BY <1>1, <2>2, DialogKept DEF AddSub
    <2>5. QED
      BY <2>2, <2>3, <2>4, TracksSound
  <1>2. ASSUME BookInv, ImportGroup PROVE BookInv'
    <2>1. PICK n \in Names \ SubNames(book.subs), new \in SUBSET Addrs \ {{}} :
             Tracks(Grouped(book, n, new), hand, ghosts, late)
      BY <1>2 DEF ImportGroup
    <2> DEFINE b == Grouped(book, n, new)
    <2>2. /\ b \in BookType /\ SoundWith(b, hand, ghosts, late)
          /\ Len(b.subs) \in {Len(book.subs), Len(book.subs) + 1}
      BY <1>2, BookFacts, GroupedSound
    <2> HIDE DEF b
    <2>3. dialog' \in [node : Addrs \cup {None}, sub : Nat]
      BY <1>2, <2>2, DialogKept DEF ImportGroup
    <2>4. QED
      BY <2>1, <2>2, <2>3, TracksSound DEF b
  <1>3. ASSUME BookInv, ManualAdd PROVE BookInv'
    <2>1. PICK n \in Names \ SubNames(book.subs), a \in Addrs, cert, asLinked \in BOOLEAN :
             LET b == Grouped(book, n, {a}) IN
             Tracks(IF asLinked /\ n \in SubNames(b.subs) THEN WithEntry(b, a, cert) ELSE b, hand, ghosts, late)
      BY <1>3 DEF ManualAdd
    <2> DEFINE b == Grouped(book, n, {a})
               w == WithEntry(b, a, cert)
    <2>2. /\ b \in BookType /\ SoundWith(b, hand, ghosts, late)
          /\ Len(b.subs) \in {Len(book.subs), Len(book.subs) + 1}
          /\ n \in SubNames(b.subs) => a \in b.addrs
      <3>1. {a} \in SUBSET Addrs
        OBVIOUS
      <3>2. QED
        BY <1>3, <3>1, BookFacts, GroupedSound
    <2>3. Tracks(IF asLinked /\ n \in SubNames(b.subs) THEN w ELSE b, hand, ghosts, late)
      BY <2>1
    <2> HIDE DEF b
    <2>4. dialog' \in [node : Addrs \cup {None}, sub : Nat]
      BY <1>3, DialogKept DEF ManualAdd
    <2>5. CASE asLinked /\ n \in SubNames(b.subs)
      <3>1. w \in BookType /\ SoundWith(w, hand, ghosts, late)
        BY <2>2, <2>5, EntrySound
      <3> HIDE DEF w
      <3>2. QED
        BY <2>3, <2>4, <2>5, <3>1, TracksSound
    <2>6. CASE ~(asLinked /\ n \in SubNames(b.subs))
      <3> HIDE DEF w
      <3>1. Tracks(b, hand, ghosts, late)
        BY <2>3, <2>6
      <3>2. QED
        BY <2>2, <2>4, <3>1, TracksSound
    <2>7. QED
      BY <2>5, <2>6
  <1>4. QED
    BY <1>1, <1>2, <1>3

LEMMA ListingInv == BookInv /\ (ImportByHand \/ ImportQr) => BookInv'
  <1> SUFFICES ASSUME BookInv, OtherVars, NEW new \in SUBSET Addrs, ListedByHand(new) PROVE BookInv'
    <2>1. \A a \in Addrs : {a} \in SUBSET Addrs
      OBVIOUS
    <2>2. QED
      BY <2>1 DEF ImportByHand, ImportQr
  <1> DEFINE b == [book EXCEPT !.addrs = @ \cup new]
             h == hand \cup (new \ (book.addrs \cup Owned(book.subs)))
  <1>1. b \in BookType /\ b.subs = book.subs /\ SoundWith(b, h, ghosts, late)
    BY BookFacts, ListedSound
  <1>2. Tracks(b, h, ghosts, late)
    BY DEF ListedByHand
  <1> HIDE DEF b, h
  <1>3. dialog' \in [node : Addrs \cup {None}, sub : Nat]
    BY <1>1, DialogKept
  <1>4. QED
    BY <1>1, <1>2, <1>3, TracksSound

LEMMA RemovingInv == BookInv /\ (DeleteSub \/ DeleteNode \/ SaveAsManual) => BookInv'
  <1>1. ASSUME BookInv, DeleteSub PROVE BookInv'
    <2>1. PICK i \in DOMAIN book.subs : Tracks(Dropped(book, i), hand, ghosts, late)
      BY <1>1 DEF DeleteSub
    <2> DEFINE b == Dropped(book, i)
    <2>2. /\ b \in BookType /\ SoundWith(b, hand, ghosts, late)
      BY <1>1, BookFacts, DroppedSound
    <2>3. Tracks(b, hand, ghosts, late)
      BY <2>1
    <2> HIDE DEF b
    <2>4. dialog' \in [node : Addrs \cup {None}, sub : Nat]
      BY <1>1, DialogKept DEF DeleteSub
    <2>5. QED
      BY <2>2, <2>3, <2>4, TracksSound
  <1>2. ASSUME BookInv, DeleteNode PROVE BookInv'
    <2>1. PICK a \in book.addrs :
             Tracks(Deleted(book, a), hand \ {a}, ghosts \cup ({a} \cap Owned(book.subs)), late)
      BY <1>2 DEF DeleteNode
    <2> DEFINE b == Deleted(book, a)
               h == hand \ {a}
               g == ghosts \cup ({a} \cap Owned(book.subs))
    <2>2. b \in BookType /\ b.subs = book.subs /\ SoundWith(b, h, g, late)
      BY <1>2, BookFacts, DeletedSound
    <2>3. Tracks(b, h, g, late)
      BY <2>1
    <2> HIDE DEF b, h, g
    <2>4. dialog' \in [node : Addrs \cup {None}, sub : Nat]
      BY <1>2, <2>2, DialogKept DEF DeleteNode
    <2>5. QED
      BY <2>2, <2>3, <2>4, TracksSound
  <1>3. ASSUME BookInv, SaveAsManual PROVE BookInv'
    <2>1. PICK a \in Owned(book.subs) :
             LET b == Released(book, a) IN
             Tracks(b, hand \cup (({a} \cap book.addrs) \ Owned(b.subs)), ghosts, late)
      BY <1>3 DEF SaveAsManual
    <2> DEFINE b == Released(book, a)
               h == hand \cup (({a} \cap book.addrs) \ Owned(b.subs))
    <2>2. b \in BookType /\ Len(b.subs) = Len(book.subs) /\ SoundWith(b, h, ghosts, late)
      BY <1>3, BookFacts, ReleasedSound
    <2>3. Tracks(b, h, ghosts, late)
      BY <2>1
    <2> HIDE DEF b, h
    <2>4. dialog' \in [node : Addrs \cup {None}, sub : Nat]
      BY <1>3, <2>2, DialogKept DEF SaveAsManual
    <2>5. QED
      BY <2>2, <2>3, <2>4, TracksSound
  <1>4. QED
    BY <1>1, <1>2, <1>3

LEMMA EditingInv == BookInv /\ (SaveEdit \/ SaveSubEdit) => BookInv'
  <1>1. ASSUME BookInv, SaveEdit PROVE BookInv'
    <2> DEFINE a == dialog.node
    <2>1. PICK c \in Addrs, filled \in BOOLEAN :
             LET b == WithEntry(IF c = a THEN book ELSE Renamed(book, a, c), c, filled) IN
             /\ c = a \/ c \notin book.addrs
             /\ Tracks(b,
                       IF c = a \/ a \notin hand THEN hand ELSE (hand \ {a}) \cup ({c} \ Owned(b.subs)),
                       IF c = a THEN ghosts ELSE Moved(ghosts, a, c),
                       IF a \in book.addrs THEN Moved(late, a, c) ELSE Moved(late, a, c) \cup {c})
      BY <1>1 DEF SaveEdit
    <2>2. a \in Addrs
      BY <1>1, BookFacts DEF SaveEdit
    <2>3. dialog' \in [node : Addrs \cup {None}, sub : Nat]
      <3>1. dialog' = [dialog EXCEPT !.node = None]
        BY <1>1 DEF SaveEdit
      <3>2. QED
        BY <1>1, <3>1, BookFacts
    <2> HIDE DEF a
    <2>4. CASE c = a
      <3> DEFINE b == WithEntry(book, c, filled)
                 l == IF a \in book.addrs THEN Moved(late, a, c) ELSE Moved(late, a, c) \cup {c}
      <3>1. Tracks(b, hand, ghosts, l)
        BY <2>1, <2>4
      <3>2. Moved(late, a, c) = late
        BY <2>4 DEF Moved
      <3>3. SoundWith(book, hand, ghosts, l) /\ (c \in book.addrs \/ c \in l)
        BY <1>1, <2>4, <3>2, BookFacts DEF SoundWith
      <3> HIDE DEF l
      <3>4. b \in BookType /\ b.subs = book.subs /\ SoundWith(b, hand, ghosts, l)
        BY <1>1, <3>3, BookFacts, EntrySound
      <3> HIDE DEF b
      <3>5. dialog' \in [node : Addrs \cup {None}, sub : Nat]
        BY <1>1, <2>3, <3>4, BookFacts
      <3>6. QED
        BY <3>1, <3>4, <3>5, TracksSound
    <2>5. CASE c # a
      <3> DEFINE r == Renamed(book, a, c)
                 b == WithEntry(r, c, filled)
                 h == IF a \notin hand THEN hand ELSE (hand \ {a}) \cup ({c} \ Owned(r.subs))
                 g == Moved(ghosts, a, c)
                 l == IF a \in book.addrs THEN Moved(late, a, c) ELSE Moved(late, a, c) \cup {c}
      <3>1. c \in Addrs \ book.addrs
        BY <2>1, <2>5
      <3>2. /\ r \in BookType /\ Len(r.subs) = Len(book.subs) /\ (a \in book.addrs => c \in r.addrs)
            /\ SoundWith(r, h, g, l)
        BY <1>1, <2>2, <2>5, <3>1, BookFacts, RenamedSound
      <3>3. c \in r.addrs \/ c \in l
        BY <3>2
      <3>4. /\ Tracks(b, IF a \notin hand THEN hand ELSE (hand \ {a}) \cup ({c} \ Owned(b.subs)), g, l)
        BY <2>1, <2>5
      <3> HIDE DEF r, g, l
      <3>5. b \in BookType /\ b.subs = r.subs /\ SoundWith(b, h, g, l)
        <4> HIDE DEF h
        <4>1. QED
          BY <3>2, <3>3, EntrySound
      <3> HIDE DEF b
      <3>6. Tracks(b, h, g, l)
        BY <3>4, <3>5
      <3> HIDE DEF h
      <3>7. dialog' \in [node : Addrs \cup {None}, sub : Nat]
        BY <1>1, <2>3, <3>2, <3>5, BookFacts
      <3>8. QED
        BY <3>5, <3>6, <3>7, TracksSound
    <2>6. QED
      BY <2>4, <2>5
  <1>2. ASSUME BookInv, SaveSubEdit PROVE BookInv'
    <2> DEFINE i == dialog.sub
    <2>1. PICK n \in Names :
             /\ \A j \in DOMAIN book.subs \ {i} : book.subs[j].name # n
             /\ Tracks([book EXCEPT !.subs[i].name = n], hand, ghosts, late)
      BY <1>2 DEF SaveSubEdit
    <2>2. i \in DOMAIN book.subs
      BY <1>2, BookFacts DEF SaveSubEdit
    <2>3. dialog' \in [node : Addrs \cup {None}, sub : Nat]
      <3>1. dialog' = [dialog EXCEPT !.sub = 0]
        BY <1>2 DEF SaveSubEdit
      <3>2. QED
        BY <1>2, <3>1, BookFacts
    <2> HIDE DEF i
    <2> DEFINE b == [book EXCEPT !.subs[i].name = n]
    <2>4. b \in BookType /\ SoundWith(b, hand, ghosts, late) /\ Len(b.subs) = Len(book.subs)
      BY <1>2, <2>1, <2>2, BookFacts, SubNamedSound
    <2>5. Tracks(b, hand, ghosts, late)
      BY <2>1
    <2> HIDE DEF b
    <2>6. QED
      BY <2>3, <2>4, <2>5, TracksSound
  <1>3. QED
    BY <1>1, <1>2

(* A result is taken over under the name it was asked for, or dropped.        *)
LEMMA UpdatesInv == BookInv /\ PollUpdates => BookInv'
  <1> SUFFICES ASSUME BookInv, PollUpdates PROVE BookInv'
    OBVIOUS
  <1>1. dialog' = dialog
    BY DEF PollUpdates
  <1>2. CASE \E new \in SUBSET Addrs :
               Tracks(IF fetch \in SubNames(book.subs)
                      THEN Merged(book, Named(book.subs, fetch), new) ELSE book, hand, ghosts, late)
    <2>1. PICK new \in SUBSET Addrs :
             Tracks(IF fetch \in SubNames(book.subs)
                    THEN Merged(book, Named(book.subs, fetch), new) ELSE book, hand, ghosts, late)
      BY <1>2
    <2>2. CASE fetch \in SubNames(book.subs)
      <3> DEFINE i == Named(book.subs, fetch)
                 b == Merged(book, i, new)
      <3>1. i \in DOMAIN book.subs
        BY <2>2 DEF SubNames, Named
      <3> HIDE DEF i
      <3>2. b \in BookType /\ SoundWith(b, hand, ghosts, late) /\ Len(b.subs) = Len(book.subs)
        BY <3>1, BookFacts, MergedSound
      <3> HIDE DEF b
      <3>3. Tracks(b, hand, ghosts, late)
        BY <2>1, <2>2 DEF b, i
      <3>4. dialog' \in [node : Addrs \cup {None}, sub : Nat]
        BY <1>1, <3>2, BookFacts
      <3>5. QED
        BY <3>2, <3>3, <3>4, TracksSound
    <2>3. CASE fetch \notin SubNames(book.subs)
      <3>1. Tracks(book, hand, ghosts, late)
        BY <2>1, <2>3
      <3>2. QED
        BY <1>1, <3>1, BookFacts, TracksSound
    <2>4. QED
      BY <2>2, <2>3
  <1>3. CASE UNCHANGED <<book, hand, ghosts, late>>
    BY <1>1, <1>3 DEF BookInv, BookSound
  <1>4. QED
    BY <1>2, <1>3 DEF PollUpdates

LEMMA BookNextInv == BookInv /\ [BookNext]_<<book, dialog, hand, ghosts, late>> => BookInv'
  <1> SUFFICES ASSUME BookInv, [BookNext]_<<book, dialog, hand, ghosts, late>> PROVE BookInv'
    OBVIOUS
  <1>1. CASE OpenEdit
    <2>1. PICK a \in book.addrs : dialog' = [dialog EXCEPT !.node = a]
      BY <1>1 DEF OpenEdit
    <2>2. dialog' \in [node : Addrs \cup {None}, sub : Nat]
      BY <2>1, BookFacts
    <2>3. UNCHANGED <<book, hand, ghosts, late>>
      BY <1>1 DEF OpenEdit
    <2>4. QED
      BY <2>2, <2>3 DEF BookInv, BookSound
  <1>2. CASE OpenSubEdit
    <2>1. PICK i \in DOMAIN book.subs : dialog' = [dialog EXCEPT !.sub = i]
      BY <1>2 DEF OpenSubEdit
    <2>2. i \in Nat
      BY BookFacts
    <2>3. dialog' \in [node : Addrs \cup {None}, sub : Nat]
      BY <2>1, <2>2, BookFacts
    <2>4. UNCHANGED <<book, hand, ghosts, late>>
      BY <1>2 DEF OpenSubEdit
    <2>5. QED
      BY <2>3, <2>4 DEF BookInv, BookSound
  <1>3. CASE AskUpdate \/ UNCHANGED <<book, dialog, hand, ghosts, late>>
    <2>1. UNCHANGED <<book, dialog, hand, ghosts, late>>
      BY <1>3 DEF AskUpdate
    <2>2. QED
      BY <2>1 DEF BookInv, BookSound
  <1>4. CASE StaleEditCloses
    <2>1. dialog' \in [node : Addrs \cup {None}, sub : Nat]
      BY <1>4, BookFacts DEF StaleEditCloses
    <2>2. UNCHANGED <<book, hand, ghosts, late>>
      BY <1>4 DEF StaleEditCloses
    <2>3. QED
      BY <2>1, <2>2 DEF BookInv, BookSound
  <1>5. QED
    BY <1>1, <1>2, <1>3, <1>4, AddingInv, ListingInv, RemovingInv, EditingInv, UpdatesInv DEF BookNext

(* For any number of nodes, subscriptions, dialogs and updates: the list of   *)
(* nodes stays consistent (apply_subscription_node_update, rename_node,       *)
(* execute_delete_node, delete_subscription).                                 *)
THEOREM BookStaysSound == Spec => []BookSound
  <1>1. Init => BookInv
    <2> SUFFICES ASSUME BookInit PROVE BookInv
      BY DEF Init
    <2>1. book = [addrs |-> {}, subs |-> <<>>, entries |-> {}] /\ <<>> \in Seq(SubType)
      BY DEF BookInit
    <2>2. /\ book \in BookType /\ book.subs = <<>> /\ book.addrs = {} /\ book.entries = {} /\ hand = {}
          /\ dialog = [node |-> None, sub |-> 0]
      BY <2>1 DEF BookInit, BookType
    <2>3. Owned(book.subs) = {}
      BY <2>2, OwnedBy
    <2>4. BookSound
      BY <2>2, <2>3 DEF BookSound
    <2>5. dialog \in [node : Addrs \cup {None}, sub : Nat]
      BY <2>2
    <2>6. QED
      BY <2>2, <2>4, <2>5 DEF BookInv
  <1>2. BookInv /\ [Next]_vars => BookInv'
    <2>1. [Next]_vars => [BookNext]_<<book, dialog, hand, ghosts, late>>
      BY DEF Next, Session, Books, NodesChange, Tests, vars, bookVars, BookNext
    <2>2. QED
      BY <2>1, BookNextInv
  <1>3. BookInv => BookSound
    BY DEF BookInv
  <1>4. QED
    BY <1>1, <1>2, <1>3, PTL DEF Spec
==============================================================================
