---------------------------- MODULE ProxyControl ----------------------------
(***************************************************************************)
(* The desktop client's session control: the UI thread's frame (update), the *)
(* proxy thread it starts, the TUN task inside it, the tray thread and the  *)
(* system's proxy settings.  The UI thread never waits for the proxy        *)
(* thread; they share a stop flag, a channel of start signals, a channel    *)
(* that reports the thread's end and the TUN stack's shutdown token.        *)
(***************************************************************************)
EXTENDS Naturals, Sequences, FiniteSets, SystemProxy

CONSTANTS MaxStarts,    \* bound: proxy threads started over all processes
          MaxDeaths     \* bound: processes that ended

ASSUME ControlAssumption == MaxStarts \in Nat /\ MaxDeaths \in Nat

VARIABLES
    os,         \* the platform's settings backend, fixed
    sys,        \* the system's proxy settings and the slot
    ui,         \* HydraApp: the fields that control a session
    th,         \* the proxy thread, its watcher and its TUN task
    mail,       \* the channel of start signals (proxy_start_receiver)
    turn,       \* where the UI thread is in its frame
    disk,       \* config.tun_enabled as the configuration file has it
    note,       \* history: what excuses a later state
    starts, deaths

controlVars == <<os, sys, ui, th, mail, turn, disk, note, starts, deaths>>

Signals == {"ready", "tunerr", "err"}
Phases == {"none", "boot", "serve", "bound", "stopping", "closing", "gone"}
Turns == {"poll", "reap", "tray", "check", "ui", "exiting", "down"}
UpTurns == Turns \ {"exiting", "down"}

\* HydraApp::new: no session.  tun is config.tun_enabled.
FreshUi(tun) == [running |-> FALSE, starting |-> FALSE, rx |-> FALSE, exit |-> FALSE,
                 flag |-> FALSE, token |-> FALSE, tun |-> tun, quit |-> FALSE]

\* exited: the exit channel is readable or disconnected.
NoThread == [phase |-> "none", withTun |-> FALSE, stop |-> FALSE, cancelled |-> FALSE,
             tun |-> "off", watch |-> "off", exited |-> FALSE]

NoNotes == [off |-> FALSE, twice |-> FALSE, early |-> FALSE, switched |-> FALSE,
            lost |-> FALSE]

ControlInit ==
    /\ os \in Platforms
    /\ sys = Untouched(os)
    /\ disk \in BOOLEAN
    /\ ui = FreshUi(disk)
    /\ th = NoThread
    /\ mail = <<>>
    /\ turn = "poll"
    /\ note = NoNotes
    /\ starts = 0 /\ deaths = 0

\* Our listener answers: port_has_listener is asked about this port.
Live == th.phase \in {"bound", "stopping", "closing"}

\* Mutant: a channel without senders is taken for an empty one.
DisconnectedIgnored == FALSE

\* The start channel has no sender left: the runtime and all its tasks are gone.
Disconnected == th.phase \in {"none", "gone"}

-----------------------------------------------------------------------------
(* The proxy thread. *)

ThreadOnly == UNCHANGED <<os, sys, ui, turn, disk, note, starts, deaths>>

\* Runtime::new fails: the thread panics, both channels are dropped.
RuntimeFails ==
    /\ th.phase = "boot"
    /\ th' = [th EXCEPT !.phase = "gone", !.exited = TRUE]
    /\ UNCHANGED mail /\ ThreadOnly

\* register_nodes and tun_channel_opener, then run_proxy_until_stopped spawns the watcher.
\* The stop flag is not looked at before.
Boots ==
    /\ th.phase = "boot"
    /\ \E opened \in BOOLEAN :
         /\ opened \/ th.withTun
         /\ th' = [th EXCEPT !.phase = "serve", !.watch = "on",
                             !.tun = IF ~th.withTun THEN "off"
                                     ELSE IF opened THEN "trying" ELSE "failed"]
         /\ mail' = IF opened THEN mail ELSE Append(mail, "tunerr")
    /\ ThreadOnly

\* ProxyServer::start binds its listener; the accept loop never returns.
Binds ==
    /\ th.phase = "serve"
    /\ th' = [th EXCEPT !.phase = "bound"]
    /\ UNCHANGED mail /\ ThreadOnly

\* start() fails (credentials, address in use): the error goes to the UI.
StartFails ==
    /\ th.phase = "serve"
    /\ th' = [th EXCEPT !.phase = "closing"]
    /\ mail' = Append(mail, "err")
    /\ ThreadOnly

\* The watcher sees bound_addr, or gives up after 60 s.
WatcherReports ==
    /\ th.watch = "on" /\ th.phase \in {"serve", "bound", "stopping", "closing"}
    /\ th' = [th EXCEPT !.watch = "off"]
    /\ mail' = Append(mail, IF th.phase = "serve" THEN "err" ELSE "ready")
    /\ ThreadOnly

\* run_tun: the device and the routes are up.
TunUp ==
    /\ th.tun = "trying" /\ ~th.cancelled /\ th.phase \in {"serve", "bound"}
    /\ th' = [th EXCEPT !.tun = "up"]
    /\ UNCHANGED mail /\ ThreadOnly

\* run_tun returns an error, at once (privilege, driver) or later; its guard takes the routes away.
TunFails ==
    /\ th.tun \in {"trying", "up"} /\ th.phase \in {"serve", "bound"}
    /\ th' = [th EXCEPT !.tun = "failed"]
    /\ mail' = Append(mail, "tunerr")
    /\ ThreadOnly

\* The token ends the TUN task.
TunEnds ==
    /\ th.tun \in {"trying", "up"} /\ th.cancelled /\ th.phase # "gone"
    /\ th' = [th EXCEPT !.tun = "off"]
    /\ UNCHANGED mail /\ ThreadOnly

\* The select's second branch polls the stop flag; it cancels the token and waits for the TUN task.
SeesStop ==
    /\ th.phase \in {"serve", "bound"} /\ th.stop
    /\ th' = [th EXCEPT !.phase = "stopping", !.cancelled = TRUE]
    /\ UNCHANGED mail /\ ThreadOnly

\* The TUN task ended, or 5 s have passed.
StopWaited ==
    /\ th.phase = "stopping"
    /\ th' = [th EXCEPT !.phase = "closing"]
    /\ UNCHANGED mail /\ ThreadOnly

\* drop(rt): every task goes, the TUN task's route guard with it.
DropsRuntime ==
    /\ th.phase = "closing"
    /\ th' = [th EXCEPT !.phase = "gone", !.tun = "off", !.watch = "off"]
    /\ UNCHANGED mail /\ ThreadOnly

\* Mutant: the exit signal is sent before the runtime is dropped.
SignalsExitEarly ==
    /\ th.phase \in {"closing", "gone"} /\ ~th.exited
    /\ th' = [th EXCEPT !.exited = TRUE]
    /\ UNCHANGED mail /\ ThreadOnly

\* exit_tx.send, the thread's last step.
SignalsExit ==
    /\ th.phase = "gone" /\ ~th.exited
    /\ th' = [th EXCEPT !.exited = TRUE]
    /\ UNCHANGED mail /\ ThreadOnly

Thread == RuntimeFails \/ Boots \/ Binds \/ StartFails \/ WatcherReports
          \/ TunUp \/ TunFails \/ TunEnds \/ SeesStop \/ StopWaited
          \/ DropsRuntime \/ SignalsExit

-----------------------------------------------------------------------------
(* What the UI thread does to a session. *)

\* stop_proxy: raise the flag, forget the start channel, give the settings back.
Stopped(u) == [u EXCEPT !.running = FALSE, !.starting = FALSE, !.rx = FALSE, !.flag = FALSE]

StopProxy(t) ==
    /\ ui' = Stopped(ui)
    /\ th' = [th EXCEPT !.stop = @ \/ ui.flag]
    /\ sys' = Disabled(sys)
    /\ disk' = ui.tun
    /\ turn' = t
    /\ UNCHANGED <<os, mail, note, starts, deaths>>

\* Mutant: the guard on the previous instance is missing.
MayStartAnyway == ~ui.running /\ ~ui.starting

\* start_proxy's early returns.
MayStart == ~ui.running /\ ~ui.starting /\ ~ui.exit

\* start_proxy's last lines: channels, flag and token of the new session.
StartedUi(u) == [u EXCEPT !.starting = TRUE, !.rx = TRUE, !.exit = TRUE, !.flag = TRUE,
                          !.token = u.tun]

\* The new thread; whether it runs a TUN task is fixed by the configuration read now.
StartedThread(u) == [NoThread EXCEPT !.phase = "boot", !.withTun = u.tun]

\* start_proxy: the configuration is read once, the thread started and not waited for.  A start that
\* is refused (address, key, nodes, trust, TUN settings) changes nothing.
StartProxy(t) ==
    /\ MayStart
    /\ starts < MaxStarts
    /\ ui' = StartedUi(ui)
    /\ th' = StartedThread(ui)
    /\ mail' = <<>>
    /\ note' = [note EXCEPT !.off = FALSE, !.early = FALSE, !.switched = FALSE]
    /\ starts' = starts + 1
    /\ turn' = t
    /\ UNCHANGED <<os, sys, disk, deaths>>

\* converge_dead_session: everything but the exit channel.
Converged(u) == [u EXCEPT !.running = FALSE, !.starting = FALSE, !.flag = FALSE, !.token = FALSE]
ConvergedThread(u) == [th EXCEPT !.stop = @ \/ u.flag, !.cancelled = @ \/ u.token]

-----------------------------------------------------------------------------
(* poll_start_receiver: one batch of signals. *)

\* classify_signals: an error before any ready signal ends the batch, unless it is the TUN's.
FailureAt(msgs, running) ==
    {i \in 1..Len(msgs) : /\ msgs[i] = "err"
                          /\ ~running
                          /\ \A j \in 1..(i - 1) : msgs[j] # "ready"}
Considered(msgs, running) ==
    {i \in 1..Len(msgs) : \A f \in FailureAt(msgs, running) : i < f}

\* Mutant: a TUN failure is a degradation only when it comes alone.
DegradedAlone(msgs, running, disconnected) ==
    {i \in Considered(msgs, running) : msgs[i] = "tunerr" /\ Len(msgs) = 1}

\* Signals that fall back to the system proxy: TUN failures, and errors of a running proxy that lives.
Degraded(msgs, running, disconnected) ==
    {i \in Considered(msgs, running) :
        msgs[i] = "tunerr" \/ (msgs[i] = "err" /\ ~disconnected)}

\* The ready branch: running, and the system proxy unless the TUN setting is on NOW.
AfterReady(u) == [u EXCEPT !.running = TRUE, !.starting = FALSE]

Poll ==
    LET has == ui.rx
        msgs == IF has THEN mail ELSE <<>>
        gone == has /\ Disconnected
        first == ~ui.running /\ \E i \in Considered(msgs, ui.running) : msgs[i] = "ready"
        u1 == IF first THEN AfterReady(ui) ELSE ui
        s1 == IF first /\ ~ui.tun THEN Enabled(os, sys, Live) ELSE sys
        fails == FailureAt(msgs, ui.running) # {}
        back == Degraded(msgs, ui.running, gone) # {} /\ u1.running /\ ~gone
        dead == fails \/ (msgs = <<>> /\ gone)
    IN
    /\ turn = "poll"
    /\ ui' = IF dead THEN [Converged(u1) EXCEPT !.rx = FALSE] ELSE u1
    /\ th' = IF dead THEN ConvergedThread(u1) ELSE th
    /\ sys' = IF dead THEN Disabled(s1) ELSE IF back THEN Enabled(os, s1, Live) ELSE s1
    /\ mail' = IF has THEN <<>> ELSE mail
    /\ disk' = IF first THEN ui.tun ELSE disk
    /\ note' = [note EXCEPT
                  !.twice = @ \/ (first /\ ~ui.tun /\ sys.settings = "own")
                              \/ (~dead /\ back /\ s1.settings = "own"),
                  !.early = @ \/ (~u1.running /\ \E i \in DOMAIN msgs : msgs[i] = "tunerr"),
                  !.switched = @ \/ (first /\ ui.tun # th.withTun)]
    /\ turn' = "reap"
    /\ UNCHANGED <<os, starts, deaths>>

\* update: the thread's end is noticed while no session is held.
Reap ==
    /\ turn = "reap"
    /\ ui' = IF ~ui.running /\ ~ui.flag /\ th.exited THEN [ui EXCEPT !.exit = FALSE] ELSE ui
    /\ turn' = "tray"
    /\ UNCHANGED <<os, sys, th, mail, disk, note, starts, deaths>>

\* poll_tray_commands and handle_close_request: nothing (left) to do.
TrayDone ==
    /\ turn = "tray" /\ ~ui.quit
    /\ turn' = "check"
    /\ UNCHANGED <<os, sys, ui, th, mail, disk, note, starts, deaths>>

TrayStart == turn = "tray" /\ os = "windows" /\ StartProxy("tray")
TrayStop == turn = "tray" /\ os = "windows" /\ StopProxy("check")

\* update: a session whose thread has ended.
Check ==
    LET dead == ui.running /\ ui.exit /\ th.exited IN
    /\ turn = "check"
    /\ ui' = IF dead THEN Converged(ui) ELSE ui
    /\ th' = IF dead THEN ConvergedThread(ui) ELSE th
    /\ sys' = IF dead THEN Disabled(sys) ELSE sys
    /\ turn' = "ui"
    /\ UNCHANGED <<os, mail, disk, note, starts, deaths>>

\* The big button, enabled as start_button_state says.
ButtonStart == turn = "ui" /\ ~ui.running /\ ~ui.starting /\ StartProxy("ui")
ButtonStop == turn = "ui" /\ ui.running /\ StopProxy("ui")

\* The TUN check box only writes the configuration.
ToggleTun ==
    /\ turn = "ui"
    /\ ui' = [ui EXCEPT !.tun = ~@]
    /\ UNCHANGED <<os, sys, th, mail, turn, disk, note, starts, deaths>>

\* system_proxy_on_cached: Windows has a cache up to 10 s old, elsewhere it is proxy_running.
SystemProxyOnCached == IF os = "windows" THEN BOOLEAN ELSE {ui.running}

\* The system proxy button.
ToggleSystemProxy ==
    /\ turn = "ui" /\ ui.running /\ ~ui.tun
    /\ \E on \in SystemProxyOnCached :
         /\ sys' = IF on THEN Disabled(sys) ELSE Enabled(os, sys, Live)
         /\ note' = [note EXCEPT !.off = on,
                                 !.twice = @ \/ (~on /\ sys.settings = "own")]
    /\ UNCHANGED <<os, ui, th, mail, turn, disk, starts, deaths>>

\* The frame's end: maybe_save_config(false) writes a change unless it wrote one within the last second.
\* save_to_file replaces the file by a rename, so a crash leaves the old or the new configuration.
FrameEnds ==
    /\ turn = "ui"
    /\ disk' \in {disk, ui.tun}
    /\ turn' = "poll"
    /\ UNCHANGED <<os, sys, ui, th, mail, note, starts, deaths>>

-----------------------------------------------------------------------------
(* Ends of the process. *)

\* Whatever the process held is gone; the settings stay as they are.
Down(s) ==
    /\ turn' = "down"
    /\ sys' = Forgotten(s)
    /\ ui' = FreshUi(disk)
    /\ th' = NoThread
    /\ mail' = <<>>
    /\ note' = [NoNotes EXCEPT !.twice = note.twice /\ s.settings = "own",
                               !.lost = note.lost \/ s.settings = "own"]
    /\ deaths' = deaths + 1
    /\ UNCHANGED <<os, starts>>

\* The tray thread's part of Quit: it gives the settings back itself and arms exit(0).
TrayQuit ==
    /\ turn \in UpTurns /\ os = "windows" /\ ~ui.quit /\ deaths < MaxDeaths
    /\ ui' = [ui EXCEPT !.quit = TRUE]
    /\ sys' = Disabled(sys)
    /\ UNCHANGED <<os, th, mail, turn, disk, note, starts, deaths>>

\* stop_proxy and the token's cancellation; then the UI thread waits.
Leaves ==
    /\ deaths < MaxDeaths
    /\ ui' = [Stopped(ui) EXCEPT !.token = FALSE]
    /\ th' = [th EXCEPT !.stop = @ \/ ui.flag, !.cancelled = @ \/ ui.token]
    /\ sys' = Disabled(sys)
    /\ disk' = ui.tun
    /\ turn' = "exiting"
    /\ UNCHANGED <<os, mail, note, starts, deaths>>

\* on_exit, reached by a close request that is let through or by the Quit command.
Exits == turn = "tray" /\ Leaves

\* The exit button of the settings page.
ExitButton == turn = "ui" /\ Leaves

\* shutdown_and_wait_for_exit: the thread has ended, or 5 s have passed.
ExitWaited == turn = "exiting" /\ Down(sys) /\ UNCHANGED disk

\* exit(0) of the tray thread, 300 ms after Quit, wherever the UI thread is.
HardExit == turn # "down" /\ ui.quit /\ Down(sys) /\ UNCHANGED disk

\* The panic hook of the main thread gives the settings back first.
DiesWithHook ==
    /\ turn \in UpTurns /\ ~ui.quit /\ deaths < MaxDeaths
    /\ Down(Disabled(sys)) /\ UNCHANGED disk

\* Shutdown or logoff: WM_ENDSESSION reaches the subclassed window.
SessionEnds ==
    /\ turn \in UpTurns /\ os = "windows" /\ ~ui.quit /\ deaths < MaxDeaths
    /\ Down(Disabled(sys)) /\ UNCHANGED disk

\* Killed, or power lost.
Killed == turn \in UpTurns /\ ~ui.quit /\ deaths < MaxDeaths /\ Down(sys) /\ UNCHANGED disk

\* main: the clean-up of a stale proxy, then the window.
Launches ==
    /\ turn = "down"
    /\ sys' = CleanedUp(os, sys, FALSE)
    /\ note' = [note EXCEPT !.twice = FALSE]
    /\ turn' = "poll"
    /\ UNCHANGED <<os, ui, th, mail, disk, starts, deaths>>

-----------------------------------------------------------------------------
Frame == Poll \/ Reap \/ TrayDone \/ Check \/ FrameEnds
User == TrayStart \/ TrayStop \/ ButtonStart \/ ButtonStop \/ ToggleTun \/ ToggleSystemProxy
Ends == TrayQuit \/ Exits \/ ExitButton \/ ExitWaited \/ HardExit \/ DiesWithHook
        \/ SessionEnds \/ Killed \/ Launches

ControlNext == Thread \/ Frame \/ User \/ Ends

-----------------------------------------------------------------------------
(* Properties. *)

\* While no session runs, and while the process leaves, the user's own proxy settings are in force
\* again (stop_proxy, converge_dead_session, the panic hook); "no proxy" once a process has ended
\* with the settings on us, killed or by the tray's exit(0) that follows an enable() of the UI
\* thread within its 300 ms (the clean-up at the start).  Excused: enable() was called when the
\* settings were already ours; KDE keys that were never set (KdeGivenBack says what becomes of them).
Restored ==
    turn # "down" /\ ~ui.running /\ ~note.twice =>
        LET own == IF note.lost THEN "direct" ELSE "user"
        IN  /\ sys.settings = own /\ sys.slot = "none"
            /\ os = "kde" => sys.kde = own

\* linux_proxy.rs (1-5, 97): disable() writes back what enable() found, and KDE keys that could not
\* be read are neither written nor restored.  So no stop leaves KDE other than the user had it.
KdeGivenBack ==
    turn # "down" /\ ~ui.running /\ ~note.twice /\ ~note.lost => sys.kde = Untouched(os).kde

\* A running session captures traffic: the settings point to us or the TUN holds the routes
\* (poll_start_receiver).  Excused: the user switched the proxy off or quits, the TUN box was
\* switched between start and ready, and a TUN failure taken before the ready signal.
Captured ==
    (turn \in UpTurns /\ ui.running /\ os # "none" /\ th.phase = "bound" /\ ~ui.quit) =>
        \/ sys.settings = "own"
        \/ th.tun \in {"trying", "up"}
        \/ \E i \in DOMAIN mail : mail[i] = "tunerr"
        \/ note.off \/ note.switched \/ note.early

\* A new proxy thread starts only when the one before has let go of its port and its routes
\* (start_proxy's guard on proxy_exit_receiver; the exit signal follows drop(rt)).
SessionsApart ==
    [][starts' # starts => th.phase \in {"none", "gone"} /\ th.tun \notin {"trying", "up"}]_controlVars

\* A start is answered, and after a stop the next start becomes possible: the start button does not
\* stay in "starting" and the exit channel is always emptied in the end.
SettlesDown ==
    /\ ui.starting ~> ~ui.starting
    /\ (ui.exit /\ ~ui.flag) ~> (~ui.exit)
=============================================================================
