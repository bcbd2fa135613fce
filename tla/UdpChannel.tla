------------------------------ MODULE UdpChannel ------------------------------
(* The client's end of the UDP relay: the session map of UdpChannel           *)
(* (hydra-core/src/udp_relay.rs), and the flow table and select loop of       *)
(* udp_relay_task (hydra-client/src/tun.rs).  One task owns all of it, so an  *)
(* arm of its select! is one action.  What the arms interrupt is modelled:    *)
(* read_udp_frame takes the header and the payload of a frame in two reads    *)
(* without a buffer, and select! drops it between the two when another arm    *)
(* becomes ready first.                                                       *)
EXTENDS UdpWire, FiniteSets

CONSTANTS
    MaxLocalSessions,   \* UDP_MAX_LOCAL_SESSIONS
    NoFlow              \* marks a session id without a flow

ASSUME MaxLocalAssumption == MaxLocalSessions \in Nat \ {0}
ASSUME NoFlowAssumption   == NoFlow \notin Flows

VARIABLES
    phase,      \* "down": no channel (connecting, backing off), "up": pumping
    sessions,   \* UdpChannel.sessions: session id of each flow, 0 if unmapped
    nextSid,    \* UdpChannel.next_sid
    lru,        \* <<g, f>>: g was used before f (order of last_used)
    bySid,      \* UdpFlowTable.by_sid: flow that replies on this id go to
    rd,         \* read_udp_frame: "idle" at a frame boundary, "half" with the
                \* header read, "desync" dropped after the header
    recycled    \* history: ids that may have been handed out before (by an
                \* eviction, or the last id, which is handed out repeatedly)

channel == <<phase, sessions, nextSid, lru, bySid, rd, recycled>>

Mapped == {f \in Flows : sessions[f] # 0}

(* The mapping that holds session id s (sessions.iter().find(..)).            *)
HoldersOf(s) == {f \in Flows : sessions[f] = s}

Forget(order, f)   == {p \in order : f \notin {p[1], p[2]}}
MarkUsed(order, f) == Forget(order, f) \cup ((Mapped \ {f}) \X {f})

Oldest(f) == f \in Mapped /\ \A g \in Mapped : <<g, f>> \notin lru

Unmapped == [f \in Flows |-> 0]
NoFlows  == [s \in Sids |-> NoFlow]

ChannelInit ==
    /\ phase = "down"
    /\ sessions = Unmapped /\ nextSid = 1 /\ lru = {}
    /\ bySid = NoFlows
    /\ rd = "idle"
    /\ recycled = {}

(* udp_relay_task's factory opened a channel.                                 *)
Connect ==
    /\ phase = "down"
    /\ phase' = "up"
    /\ UNCHANGED <<wire, sessions, nextSid, lru, bySid, rd, recycled>>

(* The channel breaks, because of a write or read error or garbage on the     *)
(* stream, or because it has reached its maximum age: map, flow table and     *)
(* reader go with it, and the next channel counts its ids from 1 again.       *)
Disconnect ==
    /\ phase = "up"
    /\ phase' = "down"
    /\ StreamBreaks
    /\ sessions' = Unmapped /\ nextSid' = 1 /\ lru' = {}
    /\ bySid' = NoFlows
    /\ rd' = "idle"
    /\ recycled' = {}

(* Another arm of select! completed: the pending read is dropped, and with it *)
(* a header it has already taken off the stream.                              *)
CancelRead == rd' = IF rd = "half" THEN "desync" ELSE rd

(* Mutant of Written: touch keeps the flow an id already has.                 *)
WrittenKeepsFlow(f, s, closes) ==
    /\ Len(up) + Len(closes) + 1 <= UpCap
    /\ up' = up \o closes \o <<DataFrame(s, DstOf[f], f)>>
    /\ asked' = asked \cup {DataFrame(s, DstOf[f], f)}
    /\ bySid' = [bySid EXCEPT ![s] = IF @ = NoFlow THEN f ELSE @]
    /\ CancelRead
    /\ UNCHANGED <<phase, down>>

(* send_to_ext wrote the frames for flow f on id s, and udp_relay_task        *)
(* records the flow of the id (UdpFlowTable::touch).                          *)
Written(f, s, closes) ==
    /\ Len(up) + Len(closes) + 1 <= UpCap
    /\ up' = up \o closes \o <<DataFrame(s, DstOf[f], f)>>
    /\ asked' = asked \cup {DataFrame(s, DstOf[f], f)}
    /\ bySid' = [bySid EXCEPT ![s] = f]
    /\ CancelRead
    /\ UNCHANGED <<phase, down>>

(* Mutant of MayAllocate: the last id is handed out without looking whether   *)
(* it is in use.                                                              *)
MayAllocateLast == Cardinality(Mapped) < MaxLocalSessions

(* The monotone allocator may hand out next_sid.                              *)
MayAllocate ==
    /\ Cardinality(Mapped) < MaxLocalSessions
    /\ nextSid # MaxSid \/ Mapped = {}

(* A datagram of a mapped flow.                                               *)
SendMapped(f) ==
    /\ phase = "up"
    /\ sessions[f] # 0
    /\ lru' = MarkUsed(lru, f)
    /\ Written(f, sessions[f], <<>>)
    /\ UNCHANGED <<sessions, nextSid, recycled>>

(* A datagram of a new flow, on a new id.                                     *)
SendAllocate(f) ==
    /\ phase = "up"
    /\ sessions[f] = 0
    /\ MayAllocate
    /\ sessions' = [sessions EXCEPT ![f] = nextSid]
    /\ nextSid' = IF nextSid # MaxSid THEN nextSid + 1 ELSE nextSid
    /\ lru' = MarkUsed(lru, f)
    /\ recycled' = IF nextSid # MaxSid THEN recycled ELSE recycled \cup {MaxSid}
    /\ Written(f, nextSid, <<>>)

(* A datagram of a new flow when the map is full or the ids have run out: the *)
(* least recently used mapping v gives up its id, and a close frame for it    *)
(* goes out before the data frame (pending_closes).                           *)
SendEvict(f, v) ==
    /\ phase = "up"
    /\ sessions[f] = 0
    /\ ~MayAllocate
    /\ Oldest(v)
    /\ sessions' = [sessions EXCEPT ![v] = 0, ![f] = sessions[v]]
    /\ lru' = Forget(MarkUsed(lru, f), v)
    /\ recycled' = recycled \cup {sessions[v]}
    /\ Written(f, sessions[v], <<CloseFrame(sessions[v])>>)
    /\ UNCHANGED nextSid

(* read_udp_frame takes the four header bytes of the next frame.              *)
ReadHeader ==
    /\ phase = "up"
    /\ rd = "idle"
    /\ down # <<>>
    /\ rd' = "half"
    /\ UNCHANGED <<wire, phase, sessions, nextSid, lru, bySid, recycled>>

(* Mutant of Accepted: the target of the frame is not compared.               *)
AcceptedBySidOnly(frame) == HoldersOf(frame.sid) # {}

(* recv_from_ext passes on a data frame when the id is mapped and the frame   *)
(* names the target the mapping is bound to.                                  *)
Accepted(frame) ==
    \E f \in HoldersOf(frame.sid) : DstOf[f] = frame.target

(* The flow a data frame is injected into the TUN for, NoFlow if dropped.     *)
InjectedInto(frame) ==
    IF Accepted(frame) THEN bySid[frame.sid] ELSE NoFlow

(* What recv_from_ext and udp_relay_task do with a data frame: an accepted    *)
(* one refreshes its mapping.                                                 *)
TakeDatagram(frame) ==
    /\ frame.kind = "data"
    /\ lru' = IF Accepted(frame)
              THEN MarkUsed(lru, CHOOSE f \in HoldersOf(frame.sid) : TRUE)
              ELSE lru
    /\ UNCHANGED <<sessions, bySid>>

(* ... and with a close frame: the mapping of the id and the flow of the id   *)
(* are dropped.                                                               *)
TakeClosed(frame) ==
    /\ frame.kind = "close"
    /\ sessions' = [f \in Flows |-> IF sessions[f] = frame.sid THEN 0 ELSE sessions[f]]
    /\ lru' = {p \in lru : frame.sid \notin {sessions[p[1]], sessions[p[2]]}}
    /\ bySid' = [bySid EXCEPT ![frame.sid] = NoFlow]

(* The payload of the frame arrives.                                          *)
ReadPayload ==
    /\ phase = "up"
    /\ rd = "half" /\ down # <<>>
    /\ TakeDatagram(Head(down)) \/ TakeClosed(Head(down))
    /\ down' = Tail(down)
    /\ rd' = "idle"
    /\ UNCHANGED <<up, asked, phase, nextSid, recycled>>

(* A reader that lost its place takes payload bytes for a header, and bytes   *)
(* of any number of frames for a frame: where they do not parse the channel   *)
(* breaks (Disconnect), where they do they pass for any frame at all.         *)
ReadGarbage(frame) ==
    /\ phase = "up"
    /\ rd = "desync" /\ down # <<>>
    /\ TakeDatagram(frame) \/ TakeClosed(frame)
    /\ down' \in {down, Tail(down)}
    /\ UNCHANGED <<up, asked, phase, nextSid, rd, recycled>>

(* The janitor arm: sweep_idle drops the flow of every id without a datagram  *)
(* sent for IDLE_SECS.  Which ids these are is left open (time is not         *)
(* modelled); the mapping of the channel stays.                               *)
Sweep(idle) ==
    /\ phase = "up"
    /\ bySid' = [s \in Sids |-> IF s \in idle THEN NoFlow ELSE bySid[s]]
    /\ CancelRead
    /\ UNCHANGED <<wire, phase, sessions, nextSid, lru, recycled>>

ChannelStep ==
    \/ \E f \in Flows : SendMapped(f) \/ SendAllocate(f)
    \/ \E f, v \in Flows : SendEvict(f, v)
    \/ ReadHeader \/ ReadPayload
    \/ \E frame \in Frames : ReadGarbage(frame)
    \/ \E idle \in SUBSET {s \in Sids : bySid[s] # NoFlow} : Sweep(idle)

(* The node as the client may rely on it: it answers only what it was asked,  *)
(* with the id and the target it was asked with, any number of times and      *)
(* however late, and it may close any session at any time.                    *)
NodeTakes ==
    /\ up # <<>>
    /\ up' = Tail(up)
    /\ UNCHANGED <<down, asked, channel>>

NodeReplies(frame) ==
    /\ DownRoom
    /\ down' = Append(down, frame)
    /\ UNCHANGED <<up, asked, channel>>

NodeCloses(s) ==
    /\ phase = "up"
    /\ DownRoom
    /\ down' = Append(down, CloseFrame(s))
    /\ UNCHANGED <<up, asked, channel>>

(* A node step may take a frame and write one (an answer without a session).  *)
NodeAnswers ==
    /\ up # <<>> /\ DownRoom
    /\ Head(up) \in asked
    /\ up' = Tail(up)
    /\ down' = Append(down, Head(up))
    /\ UNCHANGED <<asked, channel>>

AnyNode ==
    \/ NodeTakes
    \/ \E frame \in asked : NodeReplies(frame)
    \/ \E s \in Sids : NodeCloses(s)
    \/ NodeAnswers

channelVars == <<wire, channel>>

ChannelNext == Connect \/ Disconnect \/ ChannelStep \/ AnyNode

ClientAndWireInit == WireInit /\ ChannelInit

ChannelSpec == ClientAndWireInit /\ [][ChannelNext]_channelVars
-----------------------------------------------------------------------------
ChannelTypeOK ==
    /\ phase \in {"down", "up"}
    /\ sessions \in [Flows -> 0..MaxSid]
    /\ nextSid \in Sids
    /\ lru \subseteq Flows \X Flows
    /\ bySid \in [Sids -> Flows \cup {NoFlow}]
    /\ rd \in {"idle", "half", "desync"}
    /\ recycled \subseteq Sids

(* Two flows never hold the same session id, whichever way the ids run out:   *)
(* the id next_sid that session_for hands out next is held by no flow.        *)
SidsDistinct ==
    /\ \A f, g \in Mapped : sessions[f] = sessions[g] => f = g
    /\ MayAllocate => \A f \in Mapped : sessions[f] # nextSid

(* The two tables of the client agree: where udp_relay_task has a flow for an *)
(* id that UdpChannel has mapped, it is the flow it is mapped to.             *)
TablesAgree ==
    \A f \in Mapped : bySid[sessions[f]] \in {f, NoFlow}

(* While the reader is in step with the stream, a datagram injected into the  *)
(* TUN for a flow comes from that flow's target, and it answers that very     *)
(* flow unless the id was recycled between two flows with the same target     *)
(* (then the check of the target cannot tell them apart).  Nothing is said of *)
(* a reader that is out of step; that it can get there is what ReaderInSync   *)
(* is violated by.                                                            *)
MisdeliveryConfined ==
    rd = "half" /\ down # <<>> /\ Head(down).kind = "data" =>
        LET frame == Head(down)
            f     == InjectedInto(frame)
        IN  f # NoFlow =>
              /\ DstOf[frame.flow] = DstOf[f]
              /\ frame.flow # f => frame.sid \in recycled
=============================================================================
