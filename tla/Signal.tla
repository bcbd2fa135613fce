-------------------------------- MODULE Signal --------------------------------
(* P2P signalling on the node (hydra-node/src/signal.rs): a registry from     *)
(* peer id to the queue of the connection that registered last, one task per  *)
(* signalling connection that reads lines and forwards invitations into the   *)
(* queues of other connections, and one writer task per connection that       *)
(* empties its queue.  The registry lock is held for one method call only: a  *)
(* queue looked up for a forward may belong to a connection that has been     *)
(* replaced or has ended when the message is sent.                            *)
(*                                                                            *)
(* A connection stands for its queue too: a connection is used once, so that  *)
(* equality of connections is same_channel.  A queue is the number of the     *)
(* messages in it; the line length and rate limits are left out: their excess *)
(* ends the session like any other protocol error.                            *)
EXTENDS Naturals, FiniteSets

CONSTANTS
    Conns,          \* connections, each of which may become a session
    PeerIds,        \* peer ids of the target frames
    MaxPeers,       \* MAX_PEERS
    DownlinkCap,    \* DOWNLINK_CAP
    NoConn,         \* no entry in the registry
    NoPeer          \* not a peer id

ASSUME SignalAssumption ==
    /\ MaxPeers \in Nat \ {0} /\ DownlinkCap \in Nat \ {0}
    /\ NoConn \notin Conns /\ NoPeer \notin PeerIds

VARIABLES
    sig,        \* where the task of a session is
    me,         \* my_peer_id
    sending,    \* the message its forward waits to send: to whom, into which queue
    peers,      \* SignalRegistry.peers: the connection whose queue is registered
    active,     \* entries whose last_active is younger than SIGNAL_READ_TIMEOUT
    downlink,   \* the messages in each queue
    writing     \* sessions whose downlink_writer runs

signalVars == <<sig, me, sending, peers, active, downlink, writing>>

Nothing  == [to |-> NoPeer, into |-> NoConn]
Forwards == [to : PeerIds \cup {NoPeer}, into : Conns \cup {NoConn}]

Registered == {p \in PeerIds : peers[p] # NoConn}

SignalInit ==
    /\ sig = [c \in Conns |-> "none"]
    /\ me = [c \in Conns |-> NoPeer]
    /\ sending = [c \in Conns |-> Nothing]
    /\ peers = [p \in PeerIds |-> NoConn]
    /\ active = {}
    /\ downlink = [c \in Conns |-> 0]
    /\ writing = {}

(* serve_signal_stream begins: an empty queue and its writer.                 *)
StartSession(c, p) ==
    /\ sig' = [sig EXCEPT ![c] = "read"]
    /\ me' = [me EXCEPT ![c] = p]
    /\ writing' = writing \cup {c}
    /\ UNCHANGED <<sending, peers, active, downlink>>

(* sweep, which precedes the handling of every line.                          *)
Swept == [p \in PeerIds |-> IF p \in active THEN peers[p] ELSE NoConn]

(* Mutant of Removed: the entry goes whosever queue it holds by now.          *)
RemovedById(reg, p, d) == [reg EXCEPT ![p] = NoConn]

(* A registry in which the entry of p is removed if its queue is that of d.   *)
Removed(reg, p, d) == [reg EXCEPT ![p] = IF @ = d THEN NoConn ELSE @]

SwapRegistry(reg, fresh) ==
    /\ peers' = reg
    /\ active' = {p \in fresh : reg[p] # NoConn}

(* A register line of the connection's own id with a valid proof: the entry   *)
(* now holds this connection's queue, whoever held it before.                 *)
Register(c) ==
    /\ sig[c] = "read"
    /\ Swept[me[c]] # NoConn \/ Cardinality({p \in PeerIds : Swept[p] # NoConn}) < MaxPeers
    /\ SwapRegistry([Swept EXCEPT ![me[c]] = c], active \cup {me[c]})
    /\ UNCHANGED <<sig, me, sending, downlink, writing>>

(* A register line that is refused (another id, a bad proof, a full table):   *)
(* the error is sent, then the session ends.                                  *)
RegisterRefused(c) ==
    /\ sig[c] = "read"
    /\ SwapRegistry(Swept, active)
    /\ sig' = [sig EXCEPT ![c] = "lastError"]
    /\ UNCHANGED <<me, sending, downlink, writing>>

(* An invite or accept line: the own entry is refreshed, then the queue of    *)
(* the other peer looked up.                                                  *)
Address(c, p) ==
    /\ sig[c] = "read"
    /\ SwapRegistry(Swept, active \cup {me[c]})
    /\ IF Swept[p] = NoConn
       THEN /\ sig' = [sig EXCEPT ![c] = "error"]
            /\ UNCHANGED sending
       ELSE /\ sig' = [sig EXCEPT ![c] = "forward"]
            /\ sending' = [sending EXCEPT ![c] = [to |-> p, into |-> Swept[p]]]
    /\ UNCHANGED <<me, downlink, writing>>

(* An empty line: the sweep only.                                             *)
BlankLine(c) ==
    /\ sig[c] = "read"
    /\ active # Registered
    /\ SwapRegistry(Swept, active)
    /\ UNCHANGED <<sig, me, sending, downlink, writing>>

ForwardOk(c) ==
    LET d == sending[c].into
    IN  /\ sig[c] = "forward"
        /\ d \in writing
        /\ downlink[d] < DownlinkCap
        /\ downlink' = [downlink EXCEPT ![d] = @ + 1]
        /\ sig' = [sig EXCEPT ![c] = "read"]
        /\ sending' = [sending EXCEPT ![c] = Nothing]
        /\ UNCHANGED <<me, peers, active, writing>>

(* Mutant of ForwardFails: send without the timeout.                          *)
ForwardWaits(c) ==
    LET d == sending[c].into
    IN  /\ sig[c] = "forward"
        /\ d \notin writing
        /\ SwapRegistry(Removed(peers, sending[c].to, d), active)
        /\ sig' = [sig EXCEPT ![c] = "error"]
        /\ sending' = [sending EXCEPT ![c] = Nothing]
        /\ UNCHANGED <<me, downlink, writing>>

(* The queue is closed, or stays full for FORWARD_TIMEOUT: the peer counts as *)
(* offline and its entry goes, if it is still the one that failed.            *)
ForwardFails(c) ==
    LET d == sending[c].into
    IN  /\ sig[c] = "forward"
        /\ d \notin writing \/ downlink[d] = DownlinkCap
        /\ SwapRegistry(Removed(peers, sending[c].to, d), active)
        /\ sig' = [sig EXCEPT ![c] = "error"]
        /\ sending' = [sending EXCEPT ![c] = Nothing]
        /\ UNCHANGED <<me, downlink, writing>>

(* send_error into the own queue, given up like any forward.                  *)
SendError(c) ==
    /\ sig[c] \in {"error", "lastError"}
    /\ downlink' = [downlink EXCEPT ![c] =
            IF c \in writing /\ @ < DownlinkCap THEN @ + 1 ELSE @]
    /\ sig' = [sig EXCEPT ![c] = IF @ = "error" THEN "read" ELSE "leave"]
    /\ UNCHANGED <<me, sending, peers, active, writing>>

(* EOF, a read error, no complete line for SIGNAL_READ_TIMEOUT, too many or   *)
(* too long lines.                                                            *)
ReadEnds(c) ==
    /\ sig[c] = "read"
    /\ sig' = [sig EXCEPT ![c] = "leave"]
    /\ UNCHANGED <<me, sending, peers, active, downlink, writing>>

(* A line that is no message, or a register line without a usable address.    *)
BadLine(c) ==
    /\ sig[c] = "read"
    /\ SwapRegistry(Swept, active)
    /\ sig' = [sig EXCEPT ![c] = "leave"]
    /\ UNCHANGED <<me, sending, downlink, writing>>

(* Mutant of Leave: the entry is left to the sweep.                           *)
LeaveEntry(c) ==
    /\ sig[c] = "leave"
    /\ sig' = [sig EXCEPT ![c] = "drain"]
    /\ UNCHANGED <<me, sending, peers, active, downlink, writing>>

(* The loop has ended: the entry goes, if it is still this connection's.      *)
Leave(c) ==
    /\ sig[c] = "leave"
    /\ SwapRegistry(Removed(peers, me[c], c), active)
    /\ sig' = [sig EXCEPT ![c] = "drain"]
    /\ UNCHANGED <<me, sending, downlink, writing>>

(* The writer has emptied the queue and no sender is left, or two seconds     *)
(* have passed and it is aborted; the connection ends.                        *)
EndSession(c) ==
    /\ sig[c] = "drain"
    /\ sig' = [sig EXCEPT ![c] = "ended"]
    /\ me' = [me EXCEPT ![c] = NoPeer]
    /\ writing' = writing \ {c}
    /\ downlink' = [downlink EXCEPT ![c] = 0]
    /\ UNCHANGED <<sending, peers, active>>

WriteLine(c) ==
    /\ c \in writing
    /\ downlink[c] > 0
    /\ downlink' = [downlink EXCEPT ![c] = @ - 1]
    /\ UNCHANGED <<sig, me, sending, peers, active, writing>>

(* A write fails: the writer returns and its end of the queue closes.  The    *)
(* loop that reads goes on.                                                   *)
WriterFails(c) ==
    /\ c \in writing
    /\ downlink[c] > 0
    /\ writing' = writing \ {c}
    /\ downlink' = [downlink EXCEPT ![c] = 0]
    /\ UNCHANGED <<sig, me, sending, peers, active>>

(* SIGNAL_READ_TIMEOUT passes since the entry was last refreshed.             *)
EntryAges(p) ==
    /\ p \in active
    /\ active' = active \ {p}
    /\ UNCHANGED <<sig, me, sending, peers, downlink, writing>>

SessionStep(c) ==
    \/ Register(c) \/ RegisterRefused(c) \/ BlankLine(c) \/ BadLine(c) \/ ReadEnds(c)
    \/ \E p \in PeerIds : Address(c, p)
    \/ ForwardOk(c) \/ ForwardFails(c) \/ SendError(c) \/ Leave(c)

SignalStep ==
    \/ \E c \in Conns : SessionStep(c) \/ WriteLine(c) \/ WriterFails(c)
    \/ \E p \in PeerIds : EntryAges(p)
-----------------------------------------------------------------------------
SignalTypeOK ==
    /\ sig \in [Conns -> {"none", "read", "forward", "error", "lastError",
                          "leave", "drain", "ended"}]
    /\ me \in [Conns -> PeerIds \cup {NoPeer}]
    /\ sending \in [Conns -> Forwards]
    /\ peers \in [PeerIds -> Conns \cup {NoConn}]
    /\ active \subseteq Registered
    /\ downlink \in [Conns -> 0..DownlinkCap]
    /\ writing \subseteq Conns

(* Every entry of the registry is of the connection's own peer id and of a    *)
(* session whose task has not yet left, so that a look-up never yields the    *)
(* queue of a session that is over (one looked up before may have ended by    *)
(* the time of the send), and the table never exceeds its bound (register,    *)
(* remove_if_downlink).                                                       *)
RegistryOwned ==
    /\ \A p \in Registered :
          /\ me[peers[p]] = p
          /\ sig[peers[p]] \in {"read", "forward", "error", "lastError", "leave"}
    /\ Cardinality(Registered) <= MaxPeers

(* A registration that is not too old goes only by its own doing: when its    *)
(* session leaves, or when a forward into its very queue has failed.  Neither *)
(* the late clean-up of the session it replaced nor a forward that failed on  *)
(* that session's queue takes the new registration with it (same_channel in   *)
(* remove_if_downlink).                                                       *)
EntryKept ==
    [][\A p \in active : peers'[p] = NoConn =>
          \/ sig[peers[p]] = "leave" /\ sig'[peers[p]] = "drain"
          \/ \E c \in Conns : /\ sending[c] = [to |-> p, into |-> peers[p]]
                             /\ sig[c] = "forward" /\ sig'[c] = "error"]_signalVars

=============================================================================
