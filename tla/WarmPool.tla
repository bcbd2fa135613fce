------------------------------- MODULE WarmPool -------------------------------
(* The pool of warm connections of the client (ChannelPool,                   *)
(* hydra-core/src/pool.rs) with its users in proxy.rs: the background         *)
(* replenishment after each successful request and the periodic reaper.       *)
(* A warm connection is a TCP/TLS/Noise connection to a node that has not yet *)
(* been given a target.  What is kept of one is whether its time (IDLE_TTL)   *)
(* is up; whether the node still holds its side shows when it is used.        *)
EXTENDS Naturals, Sequences, SequencesExt, FiniteSets

CONSTANTS
    Nodes,          \* addresses of nodes
    CapBase,        \* IDLE_CAP_BASE
    CapMax,         \* IDLE_CAP_MAX
    MaxPeak,        \* bound on the demand estimate
    MaxTasks        \* bound on the replenishments under way for one node

ASSUME PoolAssumption == CapBase \in Nat \ {0} /\ CapMax \in Nat /\ CapBase <= CapMax
                         /\ MaxPeak \in Nat /\ MaxTasks \in Nat

VARIABLES
    idle,       \* per node its idle connections, the oldest first
    peak,       \* per node the demand estimate, in halves
    asked,      \* per node the replenishment tasks that have not yet looked
    building,   \* per node the replenishment tasks that are connecting
    reaper      \* the periodic sweep is running

poolVars == <<idle, peak, asked, building, reaper>>

Young == "young"
Old   == "old"       \* its time is up

PoolInit ==
    /\ idle = [n \in Nodes |-> <<>>]
    /\ peak = [n \in Nodes |-> 0]
    /\ asked = [n \in Nodes |-> 0]
    /\ building = [n \in Nodes |-> 0]
    /\ reaper = FALSE

(* clamp(BASE, ceil(peak), MAX); the estimate is kept in halves.              *)
CapFor(n) ==
    LET want == (peak[n] + 1) \div 2
    IN  IF want <= CapBase THEN CapBase ELSE IF want >= CapMax THEN CapMax ELSE want

(* Each miss adds a half: cur * 0.5 + (cur + 1) * 0.5.                        *)
NoteMiss(n) == peak' = [peak EXCEPT ![n] = IF @ < MaxPeak THEN @ + 1 ELSE @]

(* What exceeds the base decays by a twentieth, and an estimate near the base *)
(* is forgotten: in halves it stays, or falls, or is gone.                    *)
NoteHit(n) ==
    \E p \in (2 * CapBase + 1)..peak[n] \cup (IF peak[n] <= 2 * CapBase + 1 THEN {0} ELSE {}) :
        peak' = [peak EXCEPT ![n] = p]

Unexpired(s) == SelectSeq(s, LAMBDA e : e = Young)

(* The oldest entries are the expired ones; those that follow are young.      *)
CheckoutMiss(n) ==
    /\ Unexpired(idle[n]) = <<>>
    /\ idle' = [idle EXCEPT ![n] = <<>>]
    /\ IF idle[n] = <<>> THEN NoteMiss(n) ELSE NoteHit(n)

CheckoutHit(n) ==
    /\ Unexpired(idle[n]) # <<>>
    /\ idle' = [idle EXCEPT ![n] = Tail(Unexpired(@))]
    /\ NoteHit(n)

(* TcpCreds::replenish: a task is started unless the base is already there.   *)
Replenish(n) ==
    asked' = IF Len(idle[n]) < CapBase /\ asked[n] + building[n] < MaxTasks
             THEN [asked EXCEPT ![n] = @ + 1] ELSE asked

LookAgain(n) ==
    /\ asked[n] > 0
    /\ asked' = [asked EXCEPT ![n] = @ - 1]
    /\ building' = [building EXCEPT ![n] = IF Len(idle[n]) < CapBase THEN @ + 1 ELSE @]
    /\ UNCHANGED <<idle, peak, reaper>>

Checkin(n) ==
    idle' = IF Len(idle[n]) >= CapFor(n) THEN idle
            ELSE [idle EXCEPT ![n] = Append(@, Young)]

ChannelBuilt(n) ==
    /\ building[n] > 0
    /\ building' = [building EXCEPT ![n] = @ - 1]
    /\ Checkin(n)
    /\ UNCHANGED <<peak, asked, reaper>>

ChannelNotBuilt(n) ==
    /\ building[n] > 0
    /\ building' = [building EXCEPT ![n] = @ - 1]
    /\ UNCHANGED <<idle, peak, asked, reaper>>

Evict ==
    /\ reaper
    /\ idle' = [n \in Nodes |-> Unexpired(idle[n])]
    /\ idle' # idle
    /\ UNCHANGED <<peak, asked, building, reaper>>

(* Time passes: the oldest of the young entries reaches IDLE_TTL.             *)
EntryExpires(n) ==
    \E i \in 1..Len(idle[n]) :
        /\ idle[n][i] = Young /\ \A j \in 1..i - 1 : idle[n][j] = Old
        /\ idle' = [idle EXCEPT ![n][i] = Old]
        /\ UNCHANGED <<peak, asked, building, reaper>>

PoolStep ==
    \/ Evict
    \/ \E n \in Nodes : \/ LookAgain(n) \/ ChannelBuilt(n) \/ ChannelNotBuilt(n)
                        \/ EntryExpires(n)

(* The number of idle connections of a node stays within the elastic limit,   *)
(* however many replenishments run at once; expired ones come first in the    *)
(* queue, which is what checkout relies on (pool.rs, checkout and checkin).   *)
PoolTypeOK ==
    /\ idle \in [Nodes -> Seq({Young, Old})]
    /\ \A n \in Nodes :
        /\ Len(idle[n]) <= CapMax
        /\ \A i, j \in 1..Len(idle[n]) : i < j /\ idle[n][j] = Old => idle[n][i] = Old
    /\ peak \in [Nodes -> 0..MaxPeak]
    /\ asked \in [Nodes -> 0..MaxTasks] /\ building \in [Nodes -> 0..MaxTasks]
    /\ reaper \in BOOLEAN
=============================================================================
