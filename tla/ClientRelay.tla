------------------------------ MODULE ClientRelay ------------------------------
(* relay_bidirectional of hydra-core/src/proxy.rs for a connection through a  *)
(* node: a task per direction, and the function itself, which waits for the   *)
(* first to end and then drains or aborts the other.                          *)
EXTENDS RelayLinks

VARIABLES
    upTask,     \* application to node
    downTask,   \* node to application
    relay       \* "both" running, draining one, or "ended"

clientRelay == <<upTask, downTask, relay>>

ClientInit == upTask = "read" /\ downTask = "read" /\ relay = "both"

UpReads ==
    /\ upTask = "read"
    /\ Readable("local", "up")
    /\ pipe' = Took("local", "up")
    /\ upTask' = "write"
    /\ UNCHANGED <<owed, cut, downTask, relay>>

UpWrites ==
    /\ upTask = "write"
    /\ Room("tls", "up")
    /\ pipe' = Gave("tls", "up")
    /\ upTask' = "read"
    /\ UNCHANGED <<owed, cut, downTask, relay>>

(* The application has finished sending: shut the stream down, then end.      *)
UpEof ==
    /\ upTask = "read"
    /\ AtEof("local", "up")
    /\ upTask' = "shut"
    /\ UNCHANGED <<links, downTask, relay>>

UpShuts ==
    /\ upTask = "shut"
    /\ Room("tls", "up") \/ WriteFails("tls", "up")
    /\ pipe' = Shut(pipe, "tls", "up")
    /\ upTask' = "ok"
    /\ UNCHANGED <<owed, cut, downTask, relay>>

UpFails ==
    /\ \/ upTask = "read" /\ AtError("local", "up")
       \/ upTask = "write" /\ WriteFails("tls", "up")
    /\ upTask' = "err"
    /\ UNCHANGED <<links, downTask, relay>>

DownReads ==
    /\ downTask = "read"
    /\ Readable("tls", "down")
    /\ pipe' = Took("tls", "down")
    /\ downTask' = "write"
    /\ UNCHANGED <<owed, cut, upTask, relay>>

DownWrites ==
    /\ downTask = "write"
    /\ Room("local", "down")
    /\ pipe' = Gave("local", "down")
    /\ downTask' = "read"
    /\ UNCHANGED <<owed, cut, upTask, relay>>

(* The task that returns drops client_write, which sends a FIN.               *)
DownEnds ==
    /\ \/ downTask = "read" /\ AtEof("tls", "down") /\ downTask' = "ok"
       \/ downTask = "read" /\ AtError("tls", "down") /\ downTask' = "err"
       \/ downTask = "write" /\ WriteFails("local", "down") /\ downTask' = "err"
    /\ pipe' = Shut(pipe, "local", "down")
    /\ UNCHANGED <<owed, cut, upTask, relay>>

(* relay_bidirectional returns: both sockets are dropped.                     *)
Returns ==
    /\ relay' = "ended"
    /\ pipe' = Dropped(Dropped(pipe, "local", "down"), "tls", "up")

Aborted(task) == IF task \in {"ok", "err"} THEN task ELSE "aborted"

(* One direction has ended cleanly: the other gets a window to drain.         *)
StartDrain ==
    /\ relay = "both"
    /\ \/ upTask = "ok" /\ relay' = "drainDown"
       \/ downTask = "ok" /\ relay' = "drainUp"
    /\ UNCHANGED <<links, upTask, downTask>>

(* One direction has failed: the other is aborted.                            *)
AbortOther ==
    /\ relay = "both"
    /\ \/ upTask = "err" /\ downTask' = Aborted(downTask) /\ UNCHANGED upTask
       \/ downTask = "err" /\ upTask' = Aborted(upTask) /\ UNCHANGED downTask
    /\ Returns
    /\ UNCHANGED <<owed, cut>>

(* Mutant of Drained: a response that is complete ends the relay at once      *)
(* (before R-27).                                                             *)
DrainedAtOnce ==
    /\ \/ relay = "drainDown" /\ downTask \in {"ok", "err"}
       \/ relay = "drainUp"
    /\ Returns
    /\ UNCHANGED <<owed, cut, upTask, downTask>>

Drained ==
    /\ \/ relay = "drainDown" /\ downTask \in {"ok", "err"}
       \/ relay = "drainUp" /\ upTask \in {"ok", "err"}
    /\ Returns
    /\ UNCHANGED <<owed, cut, upTask, downTask>>

(* RELAY_DRAIN_TIMEOUT or RELAY_DOWN_FIN_DRAIN has passed.                    *)
DrainTimesOut ==
    /\ \/ relay = "drainDown" /\ downTask \notin {"ok", "err"}
       \/ relay = "drainUp" /\ upTask \notin {"ok", "err"}
    /\ upTask' = Aborted(upTask) /\ downTask' = Aborted(downTask)
    /\ Returns
    /\ Cuts

UpStep   == UpReads \/ UpWrites \/ UpEof \/ UpShuts \/ UpFails
DownStep == DownReads \/ DownWrites \/ DownEnds
MainStep == StartDrain \/ AbortOther \/ Drained \/ DrainTimesOut

ClientNext == UpStep \/ DownStep \/ MainStep
=============================================================================
