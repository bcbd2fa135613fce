------------------------------- MODULE TunFlows -------------------------------
(* TCP through the TUN stack (hydra-client/src/tun.rs): run_stack's loop, one *)
(* step() of it, and the three tasks of a flow.  A socket that listens on the *)
(* port turns into the connection of the first SYN; the loop makes it a flow, *)
(* opens the channel to the node once the handshake is done, and carries      *)
(* bytes between the socket and the tasks.                                    *)
(*                                                                            *)
(* step() awaits nothing, but the tasks run on other threads: what they send  *)
(* between its two passes over the flows matters, so it is two actions, Pump  *)
(* (accept, open, node to stack) and Poll (the stack, stack to node, removal).*)
(* Bytes are counted.  Sockets, slots and handshakes are smoltcp's.           *)
EXTENDS Integers, Sequences, FiniteSetsExt

CONSTANTS
    Conns,      \* connections of applications, each with a target of its own
    Slots,      \* handles of the SocketSet, 1..n
    MaxFlows,   \* max_flows
    UpCap,      \* FLOW_UP_CHAN
    DownCap,    \* FLOW_CHAN
    TxCap,      \* TCP_BUF, to the application
    RxCap,      \* TCP_BUF, from the application
    UpBytes, DownBytes,     \* what each side of a connection sends at most
    None, NoFlow

(* What the loop holds of a flow (struct Flow), with the state of its tasks   *)
(* and of the two channels it has with them.                                  *)
Messages    == {"link", "linkerr", "data", "uperr"}
FlowRecords ==
    [target : Conns \cup {None}, opened : BOOLEAN, up : {"none", "opening", "done"},
     chan : Seq(Messages), reader : {"none", "on", "eof"}, pending : Int, linked : BOOLEAN,
     upch : Int, writer : {"none", "on", "dead"}, held : Int, wrote : Int,
     aged : BOOLEAN, again : BOOLEAN]
(* What the device hands over: a SYN, a segment, a RST of a connection.       *)
Segments == [conn : Conns, kind : {"syn", "seg", "rst"}, bytes : 0..1, fin : BOOLEAN]

ASSUME FlowsAssumption ==
    /\ IsFiniteSet(Slots) /\ Slots = 1..Cardinality(Slots) /\ Cardinality(Slots) > MaxFlows
    /\ {MaxFlows, UpCap, DownCap, TxCap, RxCap} \subseteq Nat \ {0}
    /\ NoFlow \notin FlowRecords /\ None \notin Conns \cup Segments

VARIABLES
    pc,         \* the loop: select, pump or poll
    inbound,    \* what the device handed to the stack
    app,        \* each application: idle, waiting, open, half, gone
    sent, got,  \* bytes it sent, and was given
    end,        \* the end it saw: none, fin, rst
    sock,       \* the SocketSet
    listener,   \* listeners, for one port
    flow,       \* flows
    doomed,     \* to_remove
    read,       \* history: bytes of the answer that came from the node
    cut         \* history: those of them in the channel when close() was called

appVars  == <<app, sent, got, end>>
counts   == <<sent, got, read, cut>>
flowVars == <<pc, inbound, appVars, sock, listener, flow, doomed, read, cut>>

Free        == [st |-> "free",   conn |-> None, rx |-> 0, tx |-> 0]
AddListener == [st |-> "listen", conn |-> None, rx |-> 0, tx |-> 0]
NewFlow(c) ==
    [target |-> c, opened |-> FALSE, up |-> "none", chan |-> <<>>, reader |-> "none",
     pending |-> 0, linked |-> FALSE, upch |-> 0, writer |-> "none", held |-> 0,
     wrote |-> 0, aged |-> FALSE, again |-> FALSE]

FlowsInit ==
    /\ pc = "select" /\ inbound = None
    /\ app = [c \in Conns |-> "idle"] /\ end = [c \in Conns |-> "none"]
    /\ sent = [c \in Conns |-> 0] /\ got = [c \in Conns |-> 0]
    /\ sock = [h \in Slots |-> IF h = 1 THEN AddListener ELSE Free] /\ listener = 1
    /\ flow = [h \in Slots |-> NoFlow] /\ doomed = {}
    /\ read = [c \in Conns |-> 0] /\ cut = [c \in Conns |-> 0]

Flows(f)      == {h \in Slots : f[h] # NoFlow}
FreeSlot(s)   == Min({h \in Slots : s[h].st = "free"})
MaySend(s)    == s.st \in {"estab", "closewait"}
MayRecv(s)    == s.st \in {"estab", "finwait"} \/ s.rx > 0
Connected(s)  == s.st \notin {"free", "listen", "closed"}
SocketsOf(c)  == {h \in Slots : sock[h].conn = c /\ Connected(sock[h])}
Lesser(a, b)  == IF a < b THEN a ELSE b
Aborted(s)    == [s EXCEPT !.st = "closed", !.rx = 0, !.tx = 0]
Closed(s)     == CASE s.st \in {"synrcvd", "estab"} -> [s EXCEPT !.st = "finwait"]
                   [] s.st = "closewait" -> [s EXCEPT !.st = "lastack"]
                   [] s.st = "listen" -> [s EXCEPT !.st = "closed"]
                   [] OTHER -> s

-----------------------------------------------------------------------------
(* The device.  An application connects, sends, ends its stream, resets.      *)
Packet(c, kind, bytes, fin) == [conn |-> c, kind |-> kind, bytes |-> bytes, fin |-> fin]

Arrives(p) ==
    /\ pc = "select" /\ pc' = "pump" /\ inbound' = p
    /\ UNCHANGED <<end, sock, listener, flow, doomed>>

Connects(c) ==
    /\ app[c] = "idle" /\ app' = [app EXCEPT ![c] = "waiting"]
    /\ Arrives(Packet(c, "syn", 0, FALSE)) /\ UNCHANGED counts

(* A segment carries the last ACK of the handshake, data and FIN, or part of  *)
(* it.                                                                        *)
Sends(c) ==
    \E bytes \in 0..1, fin \in BOOLEAN :
        /\ app[c] \in {"waiting", "open"}
        /\ app[c] = "waiting" \/ bytes = 1 \/ fin
        /\ sent[c] + bytes <= UpBytes[c]
        /\ \A h \in SocketsOf(c) : sock[h].rx + bytes <= RxCap
        /\ app' = [app EXCEPT ![c] = IF fin THEN "half" ELSE "open"]
        /\ sent' = [sent EXCEPT ![c] = @ + bytes]
        /\ Arrives(Packet(c, "seg", bytes, fin)) /\ UNCHANGED <<got, read, cut>>

(* The counts of a connection that was reset are of no interest any more.     *)
ForgetCounts(C) ==
    /\ sent' = [c \in Conns |-> IF c \in C THEN 0 ELSE sent[c]]
    /\ got'  = [c \in Conns |-> IF c \in C THEN 0 ELSE got[c]]
    /\ read' = [c \in Conns |-> IF c \in C THEN 0 ELSE read[c]]

Resets(c) ==
    /\ app[c] \in {"waiting", "open", "half"} /\ app' = [app EXCEPT ![c] = "gone"]
    /\ Arrives(Packet(c, "rst", 0, FALSE))
    /\ ForgetCounts({c}) /\ cut' = [cut EXCEPT ![c] = 0]

(* The 10 ms tick of select!, and a read error of the device.                 *)
Tick ==
    /\ pc = "select" /\ pc' = "pump"
    /\ UNCHANGED <<inbound, appVars, sock, listener, flow, doomed, read, cut>>

(* The stack sends what is queued and the application's side acknowledges it. *)
Takes(c) ==
    /\ pc = "select" /\ app[c] \in {"open", "half"}
    /\ \E h \in SocketsOf(c) :
        \/ /\ sock[h].tx > 0
           /\ sock' = [sock EXCEPT ![h].tx = @ - 1]
           /\ got' = [got EXCEPT ![c] = @ + 1] /\ UNCHANGED end
        \/ /\ sock[h].tx = 0 /\ sock[h].st \in {"finwait", "lastack"} /\ end[c] = "none"
           /\ end' = [end EXCEPT ![c] = "fin"]
           /\ sock' = [sock EXCEPT ![h].st = IF @ = "lastack" THEN "closed" ELSE @]
           /\ UNCHANGED got
    /\ UNCHANGED <<pc, inbound, app, sent, listener, flow, doomed, read, cut>>

-----------------------------------------------------------------------------
(* step(), first part.                                                        *)

(* 1. The listener has become a connection: make it a flow and put a new      *)
(* listener in its place, or abort it when there are too many flows.          *)
Accept ==
    LET h    == listener
        full == Cardinality(Flows(flow)) >= MaxFlows
        s    == IF full THEN [sock EXCEPT ![h] = Free] ELSE sock
        n    == FreeSlot(s)
    IN  IF sock[h].st = "listen"
        THEN [sock |-> sock, flow |-> flow, listener |-> h]
        ELSE [sock |-> [s EXCEPT ![n] = AddListener], listener |-> n,
              flow |-> IF full THEN flow ELSE [flow EXCEPT ![h] = NewFlow(sock[h].conn)]]

(* 1.5 A flow that is connected opens its channel; one that is not in time    *)
(* (FLOW_ESTABLISH_TIMEOUT) or has ended before is given up.                  *)
Ready(f, s)   == f # NoFlow /\ ~f.opened /\ s.st \in {"estab", "closewait"}
Stillborn(f, s) ==
    f # NoFlow /\ ~f.opened /\ ~Ready(f, s) /\ (s.st \in {"closed", "timewait"} \/ f.aged)
Opened(f)     == [f EXCEPT !.opened = TRUE, !.up = "opening", !.aged = FALSE]

(* 2. The messages of the tasks up to the first error, then as many pending   *)
(* bytes into the socket as it takes.                                         *)
Errors        == {"linkerr", "uperr"}
Failing(f)    == \E i \in DOMAIN f.chan : f.chan[i] \in Errors
Heard(f)      == IF Failing(f) THEN Min({i \in DOMAIN f.chan : f.chan[i] \in Errors})
                 ELSE Len(f.chan)
Msgs(f, m)    == Cardinality({i \in 1..Heard(f) : f.chan[i] = m})
Queued(f)     == Cardinality({i \in DOMAIN f.chan : f.chan[i] = "data"})
Linked(f)     == [f EXCEPT !.linked = TRUE, !.reader = "on", !.writer = "on"]
Drained(f) ==
    LET g == IF Msgs(f, "link") > 0 THEN Linked(f) ELSE f
    IN  [g EXCEPT !.chan = SubSeq(@, Heard(f) + 1, Len(@)), !.pending = @ + Msgs(f, "data"),
                  !.aged = @ /\ Msgs(f, "data") = 0]
Room(f, s)    == IF MaySend(s) THEN Lesser(f.pending, TxCap - s.tx) ELSE 0

Pump ==
    /\ pc = "pump" /\ pc' = "poll"
    /\ LET a     == Accept
           dead  == {h \in Slots : Stillborn(a.flow[h], a.sock[h])}
           open  == [h \in Slots |-> IF Ready(a.flow[h], a.sock[h])
                                     THEN Opened(a.flow[h]) ELSE a.flow[h]]
           sick  == {h \in Flows(open) : Failing(open[h])}
           heard == [h \in Slots |-> IF open[h] = NoFlow THEN NoFlow ELSE Drained(open[h])]
           s     == [h \in Slots |-> IF h \in dead \cup sick THEN Aborted(a.sock[h])
                                     ELSE a.sock[h]]
           n     == [h \in Slots |-> IF heard[h] = NoFlow THEN 0 ELSE Room(heard[h], s[h])]
       IN  /\ listener' = a.listener
           /\ doomed' = dead \cup sick
           /\ flow' = [h \in Slots |-> IF heard[h] = NoFlow THEN NoFlow
                                       ELSE [heard[h] EXCEPT !.pending = @ - n[h]]]
           /\ sock' = [h \in Slots |-> [s[h] EXCEPT !.tx = @ + n[h]]]
    /\ UNCHANGED <<inbound, appVars, read, cut>>

-----------------------------------------------------------------------------
(* step(), second part.                                                       *)

(* 3. The stack takes the packet.  A SYN goes to the first socket in the set  *)
(* that listens; a RST in the handshake puts a socket back to listening; a    *)
(* segment for no socket is answered with RST.                                *)
Segment(s, p) ==
    LET e == [s EXCEPT !.st = IF @ = "synrcvd" THEN "estab" ELSE @, !.rx = @ + p.bytes]
    IN  CASE ~p.fin -> e
          [] e.st = "estab" -> [e EXCEPT !.st = "closewait"]
          [] e.st = "finwait" -> [e EXCEPT !.st = IF end[p.conn] = "fin" THEN "timewait" ELSE "lastack"]
          [] OTHER -> e
Reset(s) == IF s.st = "synrcvd" THEN AddListener ELSE Aborted(s)
Listening == {h \in Slots : sock[h].st = "listen"}

Unclaimed ==
    /\ inbound # None /\ inbound.kind # "rst"
    /\ IF inbound.kind = "syn" THEN Listening = {} ELSE SocketsOf(inbound.conn) = {}
Taken ==
    CASE inbound = None \/ Unclaimed -> sock
      [] inbound # None /\ inbound.kind = "syn" /\ Listening # {} ->
            [sock EXCEPT ![Min(Listening)].st = "synrcvd", ![Min(Listening)].conn = inbound.conn]
      [] OTHER -> [h \in Slots |-> IF h \notin SocketsOf(inbound.conn) THEN sock[h]
                                   ELSE IF inbound.kind = "seg" THEN Segment(sock[h], inbound)
                                   ELSE Reset(sock[h])]
(* Who is sent a RST by this poll: sockets aborted before it, and the sender  *)
(* of a packet that nobody wants.                                             *)
ToldReset ==
    {sock[h].conn : h \in {x \in Slots : sock[x].st = "closed" /\ x \in doomed}}
    \cup (IF Unclaimed THEN {inbound.conn} ELSE {})

(* 4. One flow: read the socket while the channel to the writer has room,     *)
(* close it once the reader task has ended and nothing is pending, and abort  *)
(* it after IDLE_TIMEOUT.                                                     *)
TakeUpEarly(f, s) == IF MayRecv(s) THEN Lesser(s.rx, UpCap - f.upch) ELSE 0
TakeUp(f, s)  == IF f.linked /\ MayRecv(s) THEN Lesser(s.rx, UpCap - f.upch) ELSE 0
Carried(f, s) == IF f.linked THEN TakeUp(f, s) ELSE 0
Refused(f, s) == f.writer = "dead" /\ TakeUp(f, s) > 0
Finished(f)   == f.reader = "eof" /\ f.pending = 0
After4Reuse(f, s) == IF Finished(f) THEN AddListener ELSE [s EXCEPT !.rx = @ - TakeUp(f, s)]
After4(f, s) ==
    LET k == TakeUp(f, s)
        r == [s EXCEPT !.rx = @ - k]
        q == IF Refused(f, s) THEN Aborted(s) ELSE r
    IN  IF Finished(f) THEN Closed(q) ELSE q
ExpiredNever(f, s) == FALSE
Expired(f, s) == f.aged /\ TakeUp(f, s) = 0
Removable(f, s) == Refused(f, s) \/ After4(f, s).st \in {"closed", "timewait"} \/ Expired(f, s)

(* 5. Flow and socket leave together.                                         *)
Poll ==
    /\ pc = "poll" /\ pc' = "select" /\ inbound' = None
    /\ LET live  == Flows(flow)
           gone  == doomed \cup {h \in live : Removable(flow[h], Taken[h])}
           again == {h \in live : inbound # None /\ inbound.kind = "rst"
                                  /\ sock[h].conn = inbound.conn /\ sock[h].st = "synrcvd"}
           shut  == {h \in live : Finished(flow[h]) /\ MaySend(Taken[h])}
           next  == [h \in Slots |->
                        IF flow[h] = NoFlow THEN NoFlow
                        ELSE [flow[h] EXCEPT
                                !.upch = @ + Carried(flow[h], Taken[h]),
                                !.aged = @ /\ TakeUp(flow[h], Taken[h]) = 0,
                                !.again = @ \/ h \in again]]
       IN  /\ sock' = [h \in Slots |-> IF h \in gone THEN Free
                                       ELSE IF h \in live THEN After4(flow[h], Taken[h])
                                       ELSE Taken[h]]
           /\ flow' = [h \in Slots |-> IF h \in gone THEN NoFlow ELSE next[h]]
           /\ cut' = [c \in Conns |->
                        IF c \in ToldReset THEN 0
                        ELSE IF \E h \in shut : sock[h].conn = c
                        THEN Queued(flow[CHOOSE h \in shut : sock[h].conn = c])
                        ELSE cut[c]]
           /\ end' = [c \in Conns |-> IF c \in ToldReset /\ app[c] # "gone" THEN "rst" ELSE end[c]]
           /\ app' = [c \in Conns |-> IF c \in ToldReset THEN "gone" ELSE app[c]]
    /\ ForgetCounts(ToldReset) /\ doomed' = {} /\ UNCHANGED listener

-----------------------------------------------------------------------------
(* The tasks of a flow.  (What one does after select! has returned and before *)
(* the pump it might as well have done before.)                               *)
Becomes(h, f) ==
    /\ flow' = [flow EXCEPT ![h] = f]
    /\ UNCHANGED <<pc, inbound, appVars, sock, listener, doomed, cut>>
Task(h, f) == pc # "pump" /\ Becomes(h, f)
Say(f, m) == [f EXCEPT !.chan = Append(@, m)]
Hears(f)  == Len(f.chan) < DownCap

(* spawn_up_task: the channel, or an error, or OPEN_TIMEOUT.                  *)
UpTask(h) ==
    /\ flow[h].up = "opening" /\ Hears(flow[h])
    /\ \E m \in {"link", "linkerr"} : Task(h, Say([flow[h] EXCEPT !.up = "done"], m))
    /\ UNCHANGED read

ReaderReads(h) ==
    /\ flow[h].reader = "on" /\ Hears(flow[h])
    /\ \E c \in {sock[h].conn} \cap Conns :
        app[c] # "gone" /\ read[c] < DownBytes[c] /\ read' = [read EXCEPT ![c] = @ + 1]
    /\ Task(h, Say(flow[h], "data"))
ReaderEnds(h) ==
    flow[h].reader = "on" /\ Task(h, [flow[h] EXCEPT !.reader = "eof"]) /\ UNCHANGED read

WriterTakes(h) ==
    /\ flow[h].writer = "on" /\ flow[h].held = 0 /\ flow[h].upch > 0
    /\ Task(h, [flow[h] EXCEPT !.upch = @ - 1, !.held = 1]) /\ UNCHANGED read
WriterWrites(h) ==
    /\ flow[h].writer = "on" /\ flow[h].held = 1
    /\ Task(h, [flow[h] EXCEPT !.held = 0, !.wrote = @ + 1]) /\ UNCHANGED read
(* A write fails, or takes more than UP_WRITE_TIMEOUT.                        *)
WriterFails(h) ==
    /\ flow[h].writer = "on" /\ flow[h].held = 1 /\ Hears(flow[h])
    /\ Task(h, Say([flow[h] EXCEPT !.writer = "dead"], "uperr")) /\ UNCHANGED read

(* The time of a flow runs out: 30 s to connect, 300 s without a byte.        *)
Ages(h) ==
    ~flow[h].aged /\ Becomes(h, [flow[h] EXCEPT !.aged = TRUE]) /\ UNCHANGED read

(* The end of run_stack: tasks are aborted, sockets dropped, counters reset.  *)
FlowsEnd ==
    /\ sock' = [h \in Slots |-> Free] /\ flow' = [h \in Slots |-> NoFlow]
    /\ app' = [c \in Conns |-> "gone"] /\ doomed' = {} /\ inbound' = None
    /\ ForgetCounts(Conns) /\ cut' = [c \in Conns |-> 0] /\ end' = [c \in Conns |-> "none"]
    /\ pc' = "select" /\ listener' = 1

AppSteps == \E c \in Conns : Connects(c) \/ Sends(c) \/ Resets(c) \/ Takes(c)
TaskSteps(h) ==
    \/ UpTask(h) \/ ReaderReads(h) \/ ReaderEnds(h)
    \/ WriterTakes(h) \/ WriterWrites(h) \/ WriterFails(h)
Loop == Tick \/ Pump \/ Poll
FlowsNext == AppSteps \/ Loop \/ (\E h \in Slots : flow[h] # NoFlow /\ (TaskSteps(h) \/ Ages(h)))
-----------------------------------------------------------------------------
(* No byte is lost on the way up: what an application sent is in the socket,  *)
(* in the channel, with the writer or written, whenever its flow goes on (the *)
(* comment at l. 3445: bytes read before the channel is there are gone for    *)
(* good, because the stack has acknowledged them).                            *)
UpKept ==
    \A h \in Flows(flow) : \A c \in {sock[h].conn} \cap Conns :
        (app[c] # "gone" /\ flow[h].writer # "dead" /\ sock[h].st # "closed") =>
            sent[c] - (IF inbound # None /\ inbound.conn = c THEN inbound.bytes ELSE 0)
                = sock[h].rx + flow[h].upch + flow[h].held + flow[h].wrote

(* And none on the way down, save one way: an application that is told the    *)
(* end of the stream has all of the answer, except for what was still in the  *)
(* flow's channel when the socket was closed, because the reader task sent it *)
(* and ended between the two passes of one step.                              *)
DownKept == \A c \in Conns : end[c] = "fin" => got[c] + cut[c] = read[c]

BytesKept == UpKept /\ DownKept

(* A channel leads to the target its application asked for, save one way: a   *)
(* RST in the handshake puts the flow's socket back to listening, and the     *)
(* next connection to the port may be taken by it.                            *)
TargetKept ==
    \A h \in Flows(flow) : flow[h].opened /\ sock[h].conn \in Conns =>
        flow[h].target = sock[h].conn \/ flow[h].again

(* Every flow gives its slot back: after a reset, a failed channel, an end on *)
(* both sides, or 300 s without a byte (l. 3511), or 30 s without a handshake.*)
SlotsReturned == \A h \in Slots : (flow[h] # NoFlow) ~> (flow[h] = NoFlow)
=============================================================================
