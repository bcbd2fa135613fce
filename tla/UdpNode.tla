-------------------------------- MODULE UdpNode --------------------------------
(* The node's end of the UDP relay, one serve() call of                       *)
(* hydra-node/src/udp_relay.rs: the main loop that takes frames off the       *)
(* stream, one session task per live binding, and the reaper of idle          *)
(* sessions.  They run concurrently and share the session table and the       *)
(* writer, each behind a lock that is released at every await; an action is   *)
(* what one of them does between two awaits (or between two acquisitions of   *)
(* the table lock).                                                           *)
EXTENDS UdpWire, FiniteSets

CONSTANTS
    MaxNodeSessions,    \* UDP_MAX_SESSIONS
    DnsTargets,         \* targets with port 53, whose AAAA queries the node
                        \* answers itself (aaaa_filter on)
    Gens,               \* names for session tasks (bound on the tasks that
                        \* are alive or referred to at once)
    NoSession           \* marks a free session id

ASSUME MaxNodeAssumption    == MaxNodeSessions \in Nat \ {0}
ASSUME DnsTargetsAssumption == DnsTargets \subseteq Targets
ASSUME GensAssumption       == Gens \subseteq Nat /\ IsFiniteSet(Gens)

VARIABLES
    table,      \* UdpSessionTable.sessions: the handle held for each id
    live,       \* session tasks that are running
    deadQ,      \* dead_rx: ids reported by session tasks that failed
    reaped,     \* ids the reaper has removed and not yet sent a close for
    job         \* what the main loop is doing with the frame it took: "select",
                \* "resolve", "bind", "deliver" or "close"

node == <<table, live, deadQ, reaped, job>>

(* "flow" is the flow whose datagram created the session (never read by the   *)
(* code); "gen" tells apart the tasks, hence the queues, of one id.           *)
Sessions == [gen : Gens, target : Targets, flow : Flows]

ASSUME NoSessionAssumption == NoSession \notin Sessions

Waiting == [pc |-> "select"]

Occupied(tbl) == {s \in Sids : tbl[s] # NoSession}

(* Mutant of IsFull: off by one.                                              *)
IsOverFull(tbl) == Cardinality(Occupied(tbl)) > MaxNodeSessions

(* UdpSessionTable::is_full                                                   *)
IsFull(tbl) == Cardinality(Occupied(tbl)) >= MaxNodeSessions

(* UdpSessionTable::remove                                                    *)
Removed(tbl, s) == [tbl EXCEPT ![s] = NoSession]

(* The receiver of a session's queue exists while its task runs.              *)
Alive(session) == \E t \in live : t.gen = session.gen

GensInUse == {table[s].gen : s \in Occupied(table)} \cup {t.gen : t \in live}
                 \cup {deadQ[i].gen : i \in DOMAIN deadQ}

FreeTable == [s \in Sids |-> NoSession]

NodeInit ==
    /\ table = FreeTable
    /\ live = {} /\ deadQ = <<>> /\ reaped = {}
    /\ job = Waiting

(* serve() returns: the table goes, so every session task ends, and the       *)
(* reaper is aborted.                                                         *)
ServeEnds ==
    /\ table' = FreeTable
    /\ live' = {} /\ deadQ' = <<>> /\ reaped' = {}
    /\ job' = Waiting

(* A close frame from the client.                                             *)
TakeClose ==
    /\ job = Waiting
    /\ up # <<>>
    /\ Head(up).kind = "close"
    /\ up' = Tail(up)
    /\ table' = Removed(table, Head(up).sid)
    /\ UNCHANGED <<down, asked, live, deadQ, reaped, job>>

(* An AAAA query is answered with NODATA, without a session.                  *)
AnswerLocally ==
    /\ job = Waiting
    /\ up # <<>>
    /\ Head(up).kind = "data"
    /\ Head(up).target \in DnsTargets
    /\ DownRoom
    /\ down' = Append(down, Head(up))
    /\ up' = Tail(up)
    /\ UNCHANGED <<asked, node>>

(* Any other data frame: the datagram is for the session of its id when that  *)
(* session is bound to the frame's target, else the id is bound anew.         *)
TakeData ==
    /\ job = Waiting
    /\ up # <<>>
    /\ Head(up).kind = "data"
    /\ LET frame == Head(up)
           bound == table[frame.sid] # NoSession /\ table[frame.sid].target = frame.target
       IN  job' = [pc |-> IF bound THEN "deliver" ELSE "resolve", frame |-> frame]
    /\ up' = Tail(up)
    /\ UNCHANGED <<down, asked, table, live, deadQ, reaped>>

(* The target is not cached and the resolve budget is used up: drop.          *)
OverBudget ==
    /\ job.pc = "resolve"
    /\ job' = Waiting
    /\ UNCHANGED <<wire, table, live, deadQ, reaped>>

(* The target does not resolve or is refused: the session of the id, bound to *)
(* another target, is dropped with the datagram.                              *)
ResolveFails ==
    /\ job.pc = "resolve"
    /\ table' = Removed(table, job.frame.sid)
    /\ job' = Waiting
    /\ UNCHANGED <<wire, live, deadQ, reaped>>

(* The target resolves: the old binding goes, and unless the table is full a  *)
(* socket is bound with the lock released.                                    *)
Resolved ==
    /\ job.pc = "resolve"
    /\ table' = Removed(table, job.frame.sid)
    /\ job' = [job EXCEPT !.pc = IF IsFull(table') THEN "close" ELSE "bind"]
    /\ UNCHANGED <<wire, live, deadQ, reaped>>

BindFails ==
    /\ job.pc = "bind"
    /\ job' = Waiting
    /\ UNCHANGED <<wire, table, live, deadQ, reaped>>

(* The socket is bound: look again whether the table is full, enter the       *)
(* session and start its task.                                                *)
Bound ==
    /\ job.pc = "bind"
    /\ IF IsFull(table)
       THEN job' = Waiting /\ UNCHANGED <<table, live>>
       ELSE \E g \in Gens \ GensInUse :
              /\ \A h \in Gens \ GensInUse : g <= h
              /\ table' = [table EXCEPT ![job.frame.sid] =
                     [gen |-> g, target |-> job.frame.target, flow |-> job.frame.flow]]
              /\ live' = live \cup {[gen |-> g, sid |-> job.frame.sid,
                     target |-> job.frame.target, flow |-> job.frame.flow]}
              /\ job' = [job EXCEPT !.pc = "deliver"]
    /\ UNCHANGED <<wire, deadQ, reaped>>

(* Hand the datagram to the session's queue.  A queue whose task is gone is a *)
(* dead session: it is removed and the client told.                           *)
Deliver ==
    /\ job.pc = "deliver"
    /\ LET s == job.frame.sid
       IN  IF table[s] # NoSession /\ ~Alive(table[s])
           THEN table' = Removed(table, s) /\ job' = [job EXCEPT !.pc = "close"]
           ELSE table' = table /\ job' = Waiting
    /\ UNCHANGED <<wire, live, deadQ, reaped>>

(* The main loop has the writer: close frame for the id it removed.           *)
WriteClose ==
    /\ job.pc = "close"
    /\ DownRoom
    /\ down' = Append(down, CloseFrame(job.frame.sid))
    /\ job' = Waiting
    /\ UNCHANGED <<up, asked, table, live, deadQ, reaped>>

(* Mutant of DeadSession: the report is logged and nothing else.              *)
DeadSessionIgnored ==
    /\ job = Waiting
    /\ deadQ # <<>>
    /\ deadQ' = Tail(deadQ)
    /\ UNCHANGED <<wire, table, job, live, reaped>>

(* A failed session task reported its id: drop whatever is entered under it.  *)
DeadSession ==
    /\ job = Waiting
    /\ deadQ # <<>>
    /\ LET s == Head(deadQ).sid
       IN  IF table[s] # NoSession
           THEN table' = Removed(table, s) /\ job' = [pc |-> "close", frame |-> CloseFrame(s)]
           ELSE UNCHANGED <<table, job>>
    /\ deadQ' = Tail(deadQ)
    /\ UNCHANGED <<wire, live, reaped>>

(* The reaper removes every session that is idle for 60 s; which ones are is  *)
(* left open (time is not modelled here).                                     *)
Reap(expired) ==
    /\ reaped = {}
    /\ expired # {}
    /\ table' = [s \in Sids |-> IF s \in expired THEN NoSession ELSE table[s]]
    /\ reaped' = expired
    /\ UNCHANGED <<wire, live, deadQ, job>>

ReaperClose(s) ==
    /\ s \in reaped
    /\ DownRoom
    /\ down' = Append(down, CloseFrame(s))
    /\ reaped' = reaped \ {s}
    /\ UNCHANGED <<up, asked, table, live, deadQ, job>>

(* Mutant of TaskReply: the frame names the target that is bound now.         *)
TaskReplyRebound(t) ==
    /\ t \in live
    /\ DownRoom
    /\ down' = Append(down, DataFrame(t.sid,
                   IF table[t.sid] = NoSession THEN t.target ELSE table[t.sid].target, t.flow))
    /\ UNCHANGED <<up, asked, node>>

(* A session task gets a datagram from its target and writes it downstream.   *)
TaskReply(t) ==
    /\ t \in live
    /\ DownRoom
    /\ down' = Append(down, DataFrame(t.sid, t.target, t.flow))
    /\ UNCHANGED <<up, asked, node>>

(* The socket fails: the task reports its id and ends.                        *)
TaskFails(t) ==
    /\ t \in live
    /\ live' = live \ {t}
    /\ deadQ' = Append(deadQ, [sid |-> t.sid, gen |-> t.gen])
    /\ UNCHANGED <<wire, table, reaped, job>>

(* The handle is gone from the table, so the queue is closed: the task ends.  *)
TaskEnds(t) ==
    /\ t \in live
    /\ \A s \in Occupied(table) : table[s].gen # t.gen
    /\ live' = live \ {t}
    /\ UNCHANGED <<wire, table, deadQ, reaped, job>>

MainLoop ==
    TakeClose \/ AnswerLocally \/ TakeData \/ OverBudget \/ ResolveFails \/ Resolved
        \/ BindFails \/ Bound \/ Deliver \/ WriteClose \/ DeadSession

Reaper == (\E e \in SUBSET Occupied(table) : Reap(e)) \/ (\E s \in Sids : ReaperClose(s))

SessionTasks == \E t \in live : TaskReply(t) \/ TaskFails(t) \/ TaskEnds(t)

NodeStep == MainLoop \/ Reaper \/ SessionTasks

(* The stream is up.  Whatever client is at the other end, it sends frames    *)
(* and reads frames.                                                          *)
ClientSends(frame) ==
    /\ Len(up) < UpCap
    /\ up' = Append(up, frame)
    /\ UNCHANGED <<down, asked, node>>

ClientReads ==
    /\ down # <<>>
    /\ down' = Tail(down)
    /\ UNCHANGED <<up, asked, node>>

nodeVars == <<wire, node>>

NodeNext == NodeStep \/ (\E frame \in Frames : ClientSends(frame)) \/ ClientReads

(* tokio runs every task that can run, and its select! picks at random among  *)
(* the branches that are ready: a branch that is ready again and again is     *)
(* taken.  Its Mutex serves the tasks that wait for the writer in turn.       *)
NodeFairness ==
    /\ WF_nodeVars(MainLoop)
    /\ SF_nodeVars(DeadSession)
    /\ SF_nodeVars(WriteClose)
    /\ WF_nodeVars(ClientReads)

NodeAndWireInit == WireInit /\ NodeInit

NodeSpec == NodeAndWireInit /\ [][NodeNext]_nodeVars /\ NodeFairness
-----------------------------------------------------------------------------
(* The session table stays within UDP_MAX_SESSIONS: every way into it asks    *)
(* is_full.  Only the main loop inserts, so what the second look at is_full   *)
(* in Bound defends against (another insertion while the lock was released)   *)
(* does not happen; the first look alone keeps the bound.                     *)
NodeTableBounded == Cardinality(Occupied(table)) <= MaxNodeSessions

(* A session whose task has failed does not stay in the table (the zombie     *)
(* sessions of 09-P2-2): its id becomes free, or that of a live session,      *)
(* however busy the main loop is, and although the reaper may take the id     *)
(* first and the client use it again before the notice is read.               *)
Zombie(s) == table[s] # NoSession /\ ~Alive(table[s])
ZombiesLeave == \A s \in Sids : Zombie(s) ~> ~Zombie(s)
=============================================================================
