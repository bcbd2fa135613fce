------------------------------- MODULE LogRing -------------------------------
(***************************************************************************)
(* The Android binding's log ring (push_log_entry, reset_vpn_logs,         *)
(* vpn_logs_since): a repeated message is folded into the last entry, the  *)
(* oldest entry makes room, a new session clears the ring but not the      *)
(* numbering, and the service pulls what is newer than its cursor.         *)
(***************************************************************************)
EXTENDS Naturals, Sequences

CONSTANTS Messages,     \* level and text of an entry
          NoMessage,    \* last_message is None
          RingCap,      \* LOG_RING_CAPACITY
          MaxPushes     \* bound: entries logged

ASSUME RingAssumption == NoMessage \notin Messages /\ RingCap \in Nat \ {0} /\ MaxPushes \in Nat

VARIABLES
    ring,       \* entries, oldest first: [seq, msg, n]; n is the fold count
    nextSeq,    \* next_seq
    last,       \* last_message, last_count, last_seq
    cursor,     \* the service's lastLogSeq
    pulled,     \* history: the numbers it has seen since the last reset
    pushed,     \* history: messages logged since the last reset
    dropped     \* history: of those, the ones evicted

logVars == <<ring, nextSeq, last, cursor, pulled, pushed, dropped>>

NoLast == [msg |-> NoMessage, n |-> 0, seq |-> 0]

LogInit ==
    /\ ring = <<>> /\ nextSeq = 1 /\ last = NoLast
    /\ cursor = 0 /\ pulled = {} /\ pushed = 0 /\ dropped = 0

\* The entry the last message went into, 0 when it is not in the ring.
LastAt == IF \E i \in DOMAIN ring : ring[i].seq = last.seq
          THEN CHOOSE i \in DOMAIN ring : ring[i].seq = last.seq ELSE 0

\* The same message again: counted in its entry, whose number stays.
Fold(msg) ==
    /\ last.n > 0 /\ last.msg = msg /\ LastAt # 0
    /\ ring' = [ring EXCEPT ![LastAt].n = last.n + 1]
    /\ last' = [last EXCEPT !.n = @ + 1]
    /\ UNCHANGED <<nextSeq, dropped>>

\* A new entry, the oldest evicted when the ring is full.
Enter(msg) ==
    LET full == Len(ring) >= RingCap
        kept == IF full THEN Tail(ring) ELSE ring
    IN
    /\ ~(last.n > 0 /\ last.msg = msg /\ LastAt # 0)
    /\ ring' = Append(kept, [seq |-> nextSeq, msg |-> msg, n |-> 1])
    /\ nextSeq' = nextSeq + 1
    /\ last' = [msg |-> msg, n |-> 1, seq |-> nextSeq]
    /\ dropped' = dropped + IF full THEN Head(ring).n ELSE 0

\* push_log_entry.
PushLogEntry ==
    /\ pushed < MaxPushes /\ nextSeq <= MaxPushes
    /\ \E msg \in Messages : Fold(msg) \/ Enter(msg)
    /\ pushed' = pushed + 1
    /\ UNCHANGED <<cursor, pulled>>

\* Mutant: a new session counts from the start.
ResetVpnLogsAnew ==
    /\ ring # <<>>
    /\ ring' = <<>> /\ last' = NoLast /\ nextSeq' = 1
    /\ pulled' = {} /\ pushed' = 0 /\ dropped' = 0
    /\ UNCHANGED cursor

\* reset_vpn_logs.
ResetVpnLogs ==
    /\ ring # <<>>
    /\ ring' = <<>> /\ last' = NoLast
    /\ pulled' = {} /\ pushed' = 0 /\ dropped' = 0
    /\ UNCHANGED <<nextSeq, cursor>>

\* vpn_logs_since(cursor), asked every second.
VpnLogsSince ==
    LET new == {ring[i].seq : i \in {j \in DOMAIN ring : ring[j].seq > cursor}} IN
    /\ new # {}
    /\ pulled' = pulled \cup new
    /\ cursor' = ring[Len(ring)].seq
    /\ UNCHANGED <<ring, nextSeq, last, pushed, dropped>>

\* A new session's polling starts from 0.
PollAnew ==
    /\ cursor # 0 /\ cursor' = 0
    /\ UNCHANGED <<ring, nextSeq, last, pulled, pushed, dropped>>

LogNext == PushLogEntry \/ ResetVpnLogs \/ VpnLogsSince \/ PollAnew
=============================================================================
