------------------------------- MODULE TcpRelay -------------------------------
(* A TCP stream relayed end to end: application, client, node, target.        *)
EXTENDS ClientRelay, NodePump

vars == <<links, clientRelay, nodeRelay>>

Init == LinksInit /\ ClientInit /\ NodeInit

Next ==
    \/ LinksNext /\ UNCHANGED <<clientRelay, nodeRelay>>
    \/ ClientNext /\ UNCHANGED nodeRelay
    \/ NodeNext /\ UNCHANGED clientRelay

(* The tasks run and their timeouts fire; nothing is assumed of application   *)
(* and target, which may stop to send or to read for ever.                    *)
Fairness ==
    /\ WF_vars(UpStep /\ UNCHANGED nodeRelay)
    /\ WF_vars(DownStep /\ UNCHANGED nodeRelay)
    /\ WF_vars(MainStep /\ UNCHANGED nodeRelay)
    /\ \A d \in Dirs : WF_vars(PumpStep(d) /\ UNCHANGED clientRelay)
    /\ WF_vars(Silent /\ GoesQuiet /\ UNCHANGED clientRelay)

Spec == Init /\ [][Next]_vars /\ Fairness
-----------------------------------------------------------------------------
(* Types, and a bound: what is under way is never negative (nothing arrives   *)
(* that was not sent, or twice) and fits the connections and the buffers of   *)
(* the two tasks between them.                                                *)
TypeOK ==
    /\ pipe \in [Links -> [Dirs -> Pipes]]
    /\ owed \in [Dirs -> 0..3 * Cap + 2]
    /\ cut \in BOOLEAN
    /\ upTask \in {"read", "write", "shut", "ok", "err", "aborted"}
    /\ downTask \in {"read", "write", "ok", "err", "aborted"}
    /\ relay \in {"both", "drainDown", "drainUp", "ended"}
    /\ pump \in [Dirs -> {"read", "write", "shutOk", "shutErr", "ok", "err"}]
    /\ peerDone \in BOOLEAN /\ quiet \in BOOLEAN

(* Half-close (R-27, the exit of pump): an end of stream that one end sees    *)
(* comes after everything the other end has sent, and the other end can send  *)
(* no more, unless a connection was lost or given up.  In particular the end  *)
(* of one direction never truncates the other.                                *)
CompleteUnlessCut ==
    \A d \in Dirs :
        AtEof(SinkLink(d), d) /\ ~cut =>
            owed[d] = 0 /\ pipe[SourceLink(d)][d].end # "open"

(* An application that has closed its socket takes the relay with it, on the  *)
(* client and on the node, whatever the target does.                          *)
AppGoneEnds == pipe["local"]["down"] = Gone ~> relay = "ended" /\ NodeEnded

(* The end of the application's data reaches the target, or the target's      *)
(* connection is ended for another cause: no queue and no slow target holds   *)
(* it back for ever.                                                          *)
HalfCloseReaches ==
    pipe["local"]["up"].end # "open" ~> pipe["far"]["up"].end # "open"

=============================================================================
