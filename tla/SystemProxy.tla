---------------------------- MODULE SystemProxy ----------------------------
(***************************************************************************)
(* The desktop's proxy settings as windows_proxy.rs (registry) and         *)
(* linux_proxy.rs (gsettings, KDE) handle them.  A setting is one of       *)
(*   "user"    what the user had configured,                               *)
(*   "direct"  no proxy,                                                   *)
(*   "own"     the local listener of this program.                         *)
(* A KDE desktop has keys of its own beside those of gsettings, and a user *)
(* who never configured a proxy there has none of them.  The slot keeps    *)
(* what enable() found; it is process memory and is lost when the process  *)
(* ends.                                                                   *)
(***************************************************************************)

Settings == {"user", "direct", "own"}
KdeKeys == Settings \cup {"unset", "absent"}     \* not set; not a KDE desktop

\* "kde", "newkde": gsettings and KDE, whose keys are set or not; "none": no gsettings schema, no
\* registry key.
Platforms == {"windows", "linux", "kde", "newkde", "none"}

SysType == [settings : Settings, slot : Settings \cup {"none"},
            kde : KdeKeys, kdeSlot : KdeKeys \cup {"none"}]

\* What a process finds that was never run before.
Untouched(os) == [settings |-> "user", slot |-> "none", kdeSlot |-> "none",
                  kde |-> CASE os = "kde" -> "user" [] os = "newkde" -> "unset" [] OTHER -> "absent"]

\* snapshot_is_dead: an enabled loopback proxy on whose port nobody listens; KDE is not asked.
IsDead(sys, live) == sys.settings = "own" /\ ~live

\* snapshot(), with the repair of a dead value: that one is kept as "no proxy".
Snapshot(sys, live) == IF IsDead(sys, live) THEN "direct" ELSE sys.settings

\* write_manual and write_kde: the desktop points to our listener, whether its keys were set or not.
Written(sys, slot) == [settings |-> "own", slot |-> slot, kdeSlot |-> sys.kde,
                       kde |-> IF sys.kde = "absent" THEN "absent" ELSE "own"]

\* set_system_proxy: enable() overwrites the slot each time it is called.
Enabled(os, sys, live) == IF os = "none" THEN sys ELSE Written(sys, Snapshot(sys, live))

\* restore and restore_kde: every key as it was, except that a KDE key without a value in the
\* snapshot is left as it is now.  The slot is taken.
PutBack(sys) == [settings |-> sys.slot, slot |-> "none", kdeSlot |-> "none",
                 kde |-> IF sys.kdeSlot = "unset" THEN sys.kde ELSE sys.kdeSlot]

\* Mutant: disable() without a slot switches the proxy off.
DisabledAlways(sys) ==
    IF sys.slot = "none" THEN [sys EXCEPT !.settings = "direct"] ELSE PutBack(sys)

\* remove_system_proxy_static: disable() puts the slot back, once.
Disabled(sys) ==
    IF sys.slot = "none" THEN sys ELSE PutBack(sys)

\* cleanup_stale_system_proxy, before the window is created: no proxy, in KDE where its key is set.
CleanedUp(os, sys, live) ==
    IF os # "none" /\ IsDead(sys, live)
    THEN [sys EXCEPT !.settings = "direct", !.kde = IF @ \in Settings THEN "direct" ELSE @]
    ELSE sys

\* The slot does not survive its process.
Forgotten(sys) == [sys EXCEPT !.slot = "none", !.kdeSlot = "none"]
=============================================================================
