-------------------------------- MODULE TunNat --------------------------------
(* Datagrams of the TUN stack that the rules send out directly (UdpDirectNat, *)
(* hydra-client/src/tun.rs): one session per source address of an             *)
(* application, with a socket of its own, a task that carries replies back    *)
(* (the pump) and the list of destinations whose replies it accepts.          *)
(* The loop forwards, a janitor sweeps, the pumps run on their own; abort()   *)
(* stops a pump where it awaits, which may be in the middle of a reply.       *)
EXTENDS Naturals, Sequences, SequencesExt, FiniteSets, Sublists

CONSTANTS
    Srcs,           \* source addresses of applications
    Dsts,           \* destinations
    Direct,         \* those that decide() or dns_direct send out directly
    Ids,            \* sessions ever made, 1..n
    MaxSessions,    \* MAX_SESSIONS
    AllowCap,       \* DST_ALLOW_CAP
    CmdCap,         \* the queue of udp_relay_task
    MaxRelayed      \* bound: datagrams that go to the relay

ASSUME NatAssumption ==
    /\ IsFiniteSet(Ids) /\ Ids = 1..Cardinality(Ids) /\ Direct \subseteq Dsts
    /\ {MaxSessions, AllowCap, CmdCap} \subseteq Nat \ {0}

VARIABLES
    form,       \* what a session can be made with: bind, protect or nothing
    nat,        \* the table: id of the session of a source, 0 for none
    seen,       \* sources in the table, by last_seen, the oldest first
    made,       \* sessions made so far
    allow,      \* dst_allow of each session
    pump,       \* task of each session: none, recv, send, late, ended
    reply,      \* the remote whose reply a pump is about to inject
    out,        \* the datagram the loop is about to send, <<>> for none
    cmds,       \* commands queued for the relay
    relayed,    \* history: how many there were
    asked,      \* history: destinations each session has noted
    latest      \* history: and the one it has sent to last, <<>> for none

natVars == <<form, nat, seen, made, allow, pump, reply, out, cmds, relayed, asked, latest>>

NatInit ==
    /\ form \in {"bind", "protect", "nothing"}
    /\ nat = [s \in Srcs |-> 0] /\ seen = <<>> /\ made = 0
    /\ allow = [i \in Ids |-> <<>>] /\ asked = [i \in Ids |-> {}]
    /\ pump = [i \in Ids |-> "none"] /\ reply = [i \in Ids |-> <<>>]
    /\ latest = [i \in Ids |-> <<>>]
    /\ out = <<>> /\ cmds = 0 /\ relayed = 0

(* dst_allowed and record_dst: the list is ordered by use, the latest last.   *)
ToBack(l, d)   == Append(Only(l, ToSet(l) \ {d}), d)
AllowedAny(l, d) == l # <<>>
Allowed(l, d)  == Contains(l, d)
Record(l, d)   == IF Contains(l, d) THEN ToBack(l, d)
                  ELSE Append(IF Len(l) >= AllowCap THEN Tail(l) ELSE l, d)

(* A session is removed: abort() takes a pump out of recv_from at once, one   *)
(* that is injecting a reply may still finish that.                           *)
KeepPumps(ids)  == pump
AbortPumps(ids) == [i \in Ids |-> IF i \notin ids THEN pump[i]
                                  ELSE IF pump[i] = "send" THEN "late" ELSE "ended"]

(* try_send to the relay task: a full queue loses the datagram.               *)
Relay ==
    /\ relayed < MaxRelayed /\ relayed' = relayed + 1
    /\ cmds' = IF cmds < CmdCap THEN cmds + 1 ELSE cmds

(* forward() up to send_to: find or make the session, note the destination.   *)
(* A session that cannot be made leaves the datagram to the relay.            *)
Session(s) == IF nat[s] # 0 THEN nat[s] ELSE made + 1
Oldest     == IF Len(seen) >= MaxSessions THEN {Head(seen)} ELSE {}
ForwardDirect(s, d) ==
    /\ out = <<>> /\ d \in Direct
    /\ nat[s] # 0 \/ (form # "nothing" /\ made + 1 \in Ids)
    /\ out' = <<s, d>>
    /\ allow' = [allow EXCEPT ![Session(s)] = Record(@, d)]
    /\ asked' = [asked EXCEPT ![Session(s)] = @ \cup {d}]
    /\ IF nat[s] # 0
       THEN seen' = ToBack(seen, s) /\ UNCHANGED <<nat, made, pump>>
       ELSE LET kept == IF Oldest = {} THEN seen ELSE Tail(seen)
                gone == {nat[x] : x \in Oldest}
            IN  /\ seen' = Append(kept, s) /\ made' = made + 1
                /\ nat' = [x \in Srcs |-> IF x = s THEN made + 1
                                          ELSE IF x \in Oldest THEN 0 ELSE nat[x]]
                /\ pump' = [AbortPumps(gone) EXCEPT ![made + 1] = "recv"]
    /\ UNCHANGED <<form, reply, cmds, relayed, latest>>

(* A socket cannot be bound or protected, or there is no way to make one.     *)
ForwardFails(s, d) ==
    /\ out = <<>> /\ d \in Direct /\ nat[s] = 0
    /\ Relay /\ UNCHANGED <<form, nat, seen, made, allow, pump, reply, out, asked, latest>>
ForwardRelay(s, d) ==
    /\ out = <<>> /\ d \in Dsts \ Direct
    /\ Relay /\ UNCHANGED <<form, nat, seen, made, allow, pump, reply, out, asked, latest>>

(* send_to, with the session as it was found.  A failure goes to the relay.   *)
SendTo ==
    /\ out # <<>> /\ out' = <<>>
    /\ LET i == nat[out[1]]
       IN  \/ latest' = [latest EXCEPT ![i] = <<out[2]>>] /\ UNCHANGED <<cmds, relayed>>
           \/ Relay /\ latest' = [latest EXCEPT ![i] = <<>>]
    /\ UNCHANGED <<form, nat, seen, made, allow, pump, reply, asked>>

RelayTakes ==
    cmds > 0 /\ cmds' = cmds - 1
    /\ UNCHANGED <<form, nat, seen, made, allow, pump, reply, out, relayed, asked, latest>>

(* A datagram from anywhere reaches the socket of a session.                  *)
PumpRecv(i, r) ==
    /\ pump[i] = "recv" /\ Allowed(allow[i], r)
    /\ allow' = [allow EXCEPT ![i] = ToBack(@, r)]
    /\ pump' = [pump EXCEPT ![i] = "send"] /\ reply' = [reply EXCEPT ![i] = <<r>>]
    /\ UNCHANGED <<form, nat, seen, made, out, cmds, relayed, asked, latest>>
PumpSend(i) ==
    /\ pump[i] \in {"send", "late"}
    /\ pump' = [pump EXCEPT ![i] = IF @ = "send" THEN "recv" ELSE "ended"]
    /\ reply' = [reply EXCEPT ![i] = <<>>]
    /\ UNCHANGED <<form, nat, seen, made, allow, out, cmds, relayed, asked, latest>>

(* The device refuses a reply: the pump ends, the session stays in the table. *)
PumpFails(i) ==
    /\ pump[i] = "send"
    /\ pump' = [pump EXCEPT ![i] = "ended"] /\ reply' = [reply EXCEPT ![i] = <<>>]
    /\ UNCHANGED <<form, nat, seen, made, allow, out, cmds, relayed, asked, latest>>

(* sweep_idle: sessions nobody has sent through for 150 s, the longest unused.*)
Sweep ==
    \E n \in 1..Len(seen) :
        LET old == ToSet(SubSeq(seen, 1, n))
            ids == {nat[s] : s \in old}
            now == IF out = <<>> THEN {} ELSE {out[1]}
        IN  /\ now \cap old = {}
            /\ seen' = SubSeq(seen, n + 1, Len(seen))
            /\ nat' = [s \in Srcs |-> IF s \in old THEN 0 ELSE nat[s]]
            /\ pump' = AbortPumps(ids)
    /\ UNCHANGED <<form, made, allow, reply, out, cmds, relayed, asked, latest>>

(* The end of run_stack: the table is dropped, which stops no pump.           *)
NatEnd ==
    /\ nat' = [s \in Srcs |-> 0] /\ seen' = <<>> /\ out' = <<>> /\ cmds' = 0
    /\ relayed' = 0 /\ latest' = [i \in Ids |-> <<>>]
    /\ UNCHANGED <<form, made, allow, pump, reply, asked>>

Pumping == {i \in Ids : pump[i] \in {"recv", "send", "late"}}
PumpSteps == \E i \in Pumping : PumpSend(i) \/ PumpFails(i) \/ \E r \in Dsts : PumpRecv(i, r)
NatNext ==
    \/ \E s \in Srcs, d \in Dsts : ForwardDirect(s, d) \/ ForwardFails(s, d) \/ ForwardRelay(s, d)
    \/ SendTo \/ RelayTakes \/ Sweep
    \/ PumpSteps

-----------------------------------------------------------------------------
(* Sockets, tasks and table go together (l. 2069-2096: without abort() a pump *)
(* would hold its socket for ever): a pump that can take another reply        *)
(* belongs to the session of some source, and the limit bounds them.          *)
PumpsOwned ==
    LET on == {i \in Ids : pump[i] \in {"recv", "send"}}
    IN  on \subseteq {nat[s] : s \in Srcs} /\ Cardinality(on) <= MaxSessions

(* A reply is injected only from a remote the session has noted (l. 2005),    *)
(* and the reply to the latest datagram is never refused for coming early     *)
(* (l. 1908: the destination is noted before it is sent to).                  *)
RepliesSolicited ==
    \A i \in Ids :
        /\ reply[i] # <<>> => reply[i][1] \in asked[i]
        /\ latest[i] # <<>> /\ out = <<>> => Contains(allow[i], latest[i][1])
NatSound == PumpsOwned /\ RepliesSolicited
=============================================================================
