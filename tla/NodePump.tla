------------------------------- MODULE NodePump -------------------------------
(* The two pumps of a relayed connection on the node (pump and step 7 of      *)
(* handle_tls_stream, hydra-node/src/tcp_server.rs).  Both run in one task    *)
(* under join!, so between two awaits a pump is alone.  A pump looks at       *)
(* peer_done, the age and the idle time at the top of its loop, and a read    *)
(* that waits returns there every second or when the other pump notifies it.  *)
EXTENDS RelayLinks

VARIABLES
    pump,       \* where each pump is, by the direction it pumps
    peerDone,   \* peer_done
    quiet       \* last_active lies idle or more in the past, or age_deadline
                \* has passed

nodeRelay == <<pump, peerDone, quiet>>

InLink(d)  == IF d = "up" THEN "tls" ELSE "far"
OutLink(d) == IF d = "up" THEN "far" ELSE "tls"

Ended(d)  == pump[d] \in {"ok", "err"}
NodeEnded == \A d \in Dirs : Ended(d)

NodeInit ==
    /\ pump = [d \in Dirs |-> "read"]
    /\ peerDone = FALSE /\ quiet = FALSE

PumpReads(d) ==
    /\ pump[d] = "read" /\ ~peerDone
    /\ Readable(InLink(d), d)
    /\ pipe' = Took(InLink(d), d)
    /\ pump' = [pump EXCEPT ![d] = "write"]
    /\ quiet' = FALSE
    /\ UNCHANGED <<owed, cut, peerDone>>

PumpWrites(d) ==
    /\ pump[d] = "write"
    /\ Room(OutLink(d), d)
    /\ pipe' = Gave(OutLink(d), d)
    /\ pump' = [pump EXCEPT ![d] = "read"]
    /\ UNCHANGED <<owed, cut, peerDone, quiet>>

(* The loop is left with Ok: EOF; the other pump has failed; no data in       *)
(* either direction for the idle time; the connection is too old.             *)
PumpEof(d) ==
    /\ pump[d] = "read" /\ ~peerDone
    /\ AtEof(InLink(d), d)
    /\ pump' = [pump EXCEPT ![d] = "shutOk"]
    /\ UNCHANGED <<links, peerDone, quiet>>

PumpFollows(d) ==
    /\ pump[d] = "read"
    /\ peerDone
    /\ pump' = [pump EXCEPT ![d] = "shutOk"]
    /\ UNCHANGED <<links, peerDone, quiet>>

(* Mutant of PumpExpires: the idle time counts only while both directions run.*)
PumpExpiresBoth(d) ==
    /\ pump[d] = "read" /\ ~peerDone
    /\ quiet
    /\ ~Ended(Other(d))
    /\ pump' = [pump EXCEPT ![d] = "shutOk"]
    /\ Cuts
    /\ UNCHANGED <<pipe, peerDone, quiet>>

PumpExpires(d) ==
    /\ pump[d] = "read" /\ ~peerDone
    /\ quiet
    /\ pump' = [pump EXCEPT ![d] = "shutOk"]
    /\ Cuts
    /\ UNCHANGED <<pipe, peerDone, quiet>>

(* The loop is left with an error.                                            *)
PumpReadFails(d) ==
    /\ pump[d] = "read" /\ ~peerDone
    /\ AtError(InLink(d), d)
    /\ pump' = [pump EXCEPT ![d] = "shutErr"]
    /\ UNCHANGED <<links, peerDone, quiet>>

PumpWriteFails(d) ==
    /\ pump[d] = "write"
    /\ WriteFails(OutLink(d), d)
    /\ pump' = [pump EXCEPT ![d] = "shutErr"]
    /\ UNCHANGED <<links, peerDone, quiet>>

(* Mutant of PumpWriteTimesOut: write_all without the timeout.                *)
PumpWriteWaits(d) ==
    /\ pump[d] = "write"
    /\ FALSE
    /\ UNCHANGED <<links, nodeRelay>>

(* A write that is blocked for sixty seconds is given up, with its chunk.     *)
PumpWriteTimesOut(d) ==
    /\ pump[d] = "write"
    /\ Blocked(OutLink(d), d)
    /\ pump' = [pump EXCEPT ![d] = "shutErr"]
    /\ Cuts
    /\ UNCHANGED <<pipe, peerDone, quiet>>

(* w.shutdown() can return: that of a plain socket at once, that of the TLS   *)
(* stream when its close_notify fits behind the data in flight, or on error.  *)
CanShut(d) ==
    OutLink(d) = "tls" => Room("tls", d) \/ WriteFails("tls", d) \/ pipe["tls"][d].end = "fin"

(* What is left of the connections when pump d is done: its direction ended   *)
(* and, when it was the last, both sockets dropped.                           *)
AfterPump(d) ==
    LET shut == Shut(pipe, OutLink(d), d)
    IN  IF Ended(Other(d)) THEN Dropped(Dropped(shut, "far", "up"), "tls", "down") ELSE shut

(* Mutant of PumpShuts: the end of a pump, whatever its cause, ends the other *)
(* (what the comment at the call of the pumps says).                          *)
PumpShutsBoth(d) ==
    /\ pump[d] \in {"shutOk", "shutErr"}
    /\ CanShut(d)
    /\ pipe' = AfterPump(d)
    /\ pump' = [pump EXCEPT ![d] = IF @ = "shutErr" THEN "err" ELSE "ok"]
    /\ peerDone' = TRUE
    /\ UNCHANGED <<owed, cut, quiet>>

(* Every exit shuts the writer down; an error is then told to the other pump. *)
PumpShuts(d) ==
    /\ pump[d] \in {"shutOk", "shutErr"}
    /\ CanShut(d)
    /\ pipe' = AfterPump(d)
    /\ pump' = [pump EXCEPT ![d] = IF @ = "shutErr" THEN "err" ELSE "ok"]
    /\ peerDone' = (peerDone \/ pump[d] = "shutErr")
    /\ UNCHANGED <<owed, cut, quiet>>

(* The idle time has passed since the last chunk was read, or the (optional)  *)
(* maximum age has been reached: time is not modelled, so either may come at  *)
(* any point.                                                                 *)
GoesQuiet ==
    /\ ~quiet /\ ~NodeEnded
    /\ quiet' = TRUE
    /\ UNCHANGED <<links, pump, peerDone>>

PumpStep(d) ==
    \/ PumpReads(d) \/ PumpWrites(d) \/ PumpEof(d) \/ PumpFollows(d) \/ PumpExpires(d)
    \/ PumpReadFails(d) \/ PumpWriteFails(d) \/ PumpWriteTimesOut(d) \/ PumpShuts(d)

NodeNext == (\E d \in Dirs : PumpStep(d)) \/ GoesQuiet

(* No pump has anything to read: if it stays so the idle time will pass.      *)
Silent == \A d \in Dirs : pump[d] = "read" => ~Readable(InLink(d), d)
=============================================================================
