---------------------------- MODULE AndroidProofs ----------------------------
(***************************************************************************)
(* The TUN descriptors the Android binding takes over always have an       *)
(* owner, the log ring's reader skips nothing, and the counts of the ring  *)
(* and of what it dropped add up to what was logged: for any number of     *)
(* calls of start_vpn and stop_vpn, any length of the packet channel and   *)
(* of the ring.                                                            *)
(***************************************************************************)
EXTENDS Android, Integers, SequenceTheorems, FiniteSetTheorems, WellFoundedInduction, TLAPS

Planes == [stack : {"new", "run", "dropping", "ended", "gone"},
           reader : {"poll", "full", "gone"},
           writer : {"run", "gone"},
           inq : Nat,
           copy : BOOLEAN, failed : BOOLEAN,
           stopped : BOOLEAN, token : BOOLEAN, told : BOOLEAN, quiet : BOOLEAN,
           keyed : BOOLEAN]

Calls == [op : {"none", "start", "stop"}, s : Nat, valid : BOOLEAN, builtin : BOOLEAN]

PlaneTyped ==
    /\ plane \in Seq(Planes)
    /\ call \in Calls
    /\ handle \in 0..Len(plane) /\ call.s \in 0..Len(plane)
    /\ degraded \in BOOLEAN /\ noRuntime \in BOOLEAN

\* A transport that is gone has joined its threads, and one that is being dropped has closed its
\* copy of the descriptor; every other one has an owner.  The flag outlives a start that found no
\* runtime, and otherwise only the stop that will clear it.
PlaneInv ==
    /\ PlaneTyped
    /\ \A s \in Sessions :
         /\ plane[s].failed => plane[s].stack = "gone"
         /\ ~plane[s].failed =>
              /\ plane[s].stack \in {"ended", "gone"} => ~Threads(s)
              /\ plane[s].copy => plane[s].stack \in {"new", "run"}
              /\ Threads(s) => handle = s \/ call.s = s \/ Jammed(s)
              /\ plane[s].stack \in {"new", "run"} => handle = s \/ call.s = s
    /\ degraded => handle # 0 \/ call.op = "stop" \/ noRuntime

EngineInv ==
    /\ engine \in [state : {"none", "off", "starting", "on"}, listener : BOOLEAN]
    /\ engine.listener => engine.state \in {"starting", "on"}

-----------------------------------------------------------------------------
(* The data plane. *)

\* One record of the planes is replaced.
LEMMA Replaced ==
    ASSUME plane \in Seq(Planes), NEW s \in Sessions, NEW p \in Planes,
           plane' = [plane EXCEPT ![s] = p]
    PROVE  /\ Sessions' = Sessions /\ Len(plane') = Len(plane) /\ plane' \in Seq(Planes)
           /\ plane'[s] = p /\ \A t \in Sessions \ {s} : plane'[t] = plane[t]
BY DEF Sessions

\* What plane s may become without a change of its owner.
Fits(s, p) ==
    /\ p \in Planes /\ p.failed = plane[s].failed
    /\ p.failed => p.stack = "gone"
    /\ ~p.failed => /\ p.stack \in {"ended", "gone"} => p.reader = "gone" /\ p.writer = "gone"
                    /\ p.copy => p.stack \in {"new", "run"}
    /\ p.stack \in {"new", "run"} => plane[s].stack \in {"new", "run"}
    /\ p.reader # "gone" \/ p.writer # "gone" => Threads(s)
    /\ Jammed(s) => p.stack = "dropping" /\ p.reader = "full" /\ p.inq = ChanCap

\* One plane changes, in a way that keeps its owner.
LEMMA OnePlane ==
    ASSUME PlaneInv, NEW s \in Sessions, NEW p, Fits(s, p),
           plane' = [plane EXCEPT ![s] = p],
           UNCHANGED <<call, handle>>,
           degraded' \in BOOLEAN, noRuntime' \in BOOLEAN,
           degraded' => handle # 0 \/ call.op = "stop" \/ noRuntime'
    PROVE  PlaneInv'
  <1>0. p \in Planes
    BY DEF Fits
  <1>1. /\ Sessions' = Sessions /\ Len(plane') = Len(plane) /\ plane' \in Seq(Planes)
        /\ plane'[s] = p /\ \A t \in Sessions \ {s} : plane'[t] = plane[t]
    BY <1>0, Replaced DEF PlaneInv, PlaneTyped
  <1>2. PlaneTyped'
    BY <1>1 DEF PlaneInv, PlaneTyped
  <1>3. \A t \in Sessions \ {s} : (Threads(t)' <=> Threads(t)) /\ (Jammed(t)' <=> Jammed(t))
    BY <1>1 DEF Threads, Jammed
  <1>4. (Threads(s)' <=> p.reader # "gone" \/ p.writer # "gone") /\ (Jammed(s) => Jammed(s)')
    BY <1>1 DEF Threads, Jammed, Fits
  <1>5. ASSUME NEW t \in Sessions PROVE
            /\ plane'[t].failed => plane'[t].stack = "gone"
            /\ ~plane'[t].failed =>
                 /\ plane'[t].stack \in {"ended", "gone"} => ~Threads(t)'
                 /\ plane'[t].copy => plane'[t].stack \in {"new", "run"}
                 /\ Threads(t)' => handle = t \/ call.s = t \/ Jammed(t)'
                 /\ plane'[t].stack \in {"new", "run"} => handle = t \/ call.s = t
    <2>1. CASE t = s
      BY <1>1, <1>4, <2>1 DEF PlaneInv, Fits
    <2>2. CASE t # s
      BY <1>1, <1>3, <2>2 DEF PlaneInv
    <2>3. QED
      BY <2>1, <2>2
  <1>6. QED
    BY <1>1, <1>2, <1>5 DEF PlaneInv

\* The same, for a step of the plane's task or threads.
LEMMA PlaneBecomes ==
    ASSUME PlaneInv, NEW s \in Sessions, NEW p, Becomes(s, p), Fits(s, p) PROVE PlaneInv'
  <1>1. /\ plane' = [plane EXCEPT ![s] = p] /\ UNCHANGED <<call, handle>>
        /\ degraded' \in BOOLEAN /\ noRuntime' \in BOOLEAN
        /\ degraded' => handle # 0 \/ call.op = "stop" \/ noRuntime'
    BY DEF Becomes, PlaneInv, PlaneTyped
  <1>2. QED
    BY <1>1, OnePlane

\* The invariant, at one plane.
LEMMA AtPlane ==
    ASSUME PlaneInv, NEW s \in Sessions
    PROVE  /\ plane[s] \in Planes
           /\ plane[s].stack # "gone" => ~plane[s].failed
           /\ plane[s].failed => plane[s].stack = "gone"
           /\ ~plane[s].failed =>
                /\ plane[s].stack \in {"ended", "gone"} => ~Threads(s)
                /\ plane[s].copy => plane[s].stack \in {"new", "run"}
BY DEF PlaneInv, PlaneTyped, Sessions

LEMMA TaskKeeps ==
    ASSUME PlaneInv, NEW s \in Sessions, Task(s) PROVE PlaneInv'
  <1>0. /\ plane[s] \in Planes
        /\ plane[s].stack # "gone" => ~plane[s].failed
        /\ ~plane[s].failed =>
             /\ plane[s].stack \in {"ended", "gone"} => ~Threads(s)
             /\ plane[s].copy => plane[s].stack \in {"new", "run"}
    BY AtPlane
  <1> USE DEF Planes, Threads, Jammed, Triggered, Gone, Fits
  <1>1. CASE OpenerFails(s)
    <2>1. Fits(s, [Triggered(plane[s]) EXCEPT !.told = TRUE])
      BY <1>0, <1>1 DEF OpenerFails
    <2>2. QED
      BY <1>1, <2>1, PlaneBecomes DEF OpenerFails
  <1>2. CASE StackTakes(s)
    <2>1. plane[s].inq - 1 \in Nat
      BY <1>0, <1>2 DEF StackTakes
    <2>2. Fits(s, [plane[s] EXCEPT !.inq = @ - 1])
      BY <1>0, <1>2, <2>1 DEF StackTakes
    <2>3. QED
      BY <1>2, <2>2, PlaneBecomes DEF StackTakes
  <1>3. CASE StackEnds(s) \/ StackFails(s)
    <2>1. Fits(s, Triggered(plane[s]))
      BY <1>0, <1>3 DEF StackEnds, StackFails
    <2>2. QED
      BY <1>3, <2>1, PlaneBecomes DEF StackEnds, StackFails
  <1>4. CASE Joined(s)
    <2>1. Fits(s, Gone(plane[s]))
      BY <1>0, <1>4 DEF Joined
    <2>2. Fits(s, [plane[s] EXCEPT !.stack = "ended"])
      BY <1>0, <1>4 DEF Joined
    <2>3. QED
      BY <1>4, <2>1, <2>2, PlaneBecomes DEF Joined
  <1>5. CASE Reports(s)
    <2>1. Fits(s, [Gone(plane[s]) EXCEPT !.told = TRUE])
      BY <1>0, <1>5 DEF Reports
    <2>2. QED
      BY <1>5, <2>1, PlaneBecomes DEF Reports
  <1>6. QED
    BY <1>1, <1>2, <1>3, <1>4, <1>5 DEF Task

LEMMA ThreadsKeep ==
    ASSUME PlaneInv, NEW s \in Sessions, ReadThread(s) \/ WriteThread(s) PROVE PlaneInv'
  <1>0. /\ plane[s] \in Planes
        /\ plane[s].failed => plane[s].stack = "gone"
        /\ ~plane[s].failed =>
             /\ plane[s].stack \in {"ended", "gone"} => ~Threads(s)
             /\ plane[s].copy => plane[s].stack \in {"new", "run"}
    BY AtPlane
  <1> USE PlaneAssumption DEF Planes, Threads, Jammed, Fits
  <1>1. CASE ReaderReads(s)
    <2>1. Fits(s, [plane[s] EXCEPT !.reader = "full"])
      BY <1>0, <1>1 DEF ReaderReads
    <2>2. QED
      BY <1>1, <2>1, PlaneBecomes DEF ReaderReads
  <1>2. CASE ReaderSends(s)
    <2>1. plane[s].inq + 1 \in Nat
      BY <1>0
    <2> DEFINE p == [plane[s] EXCEPT !.reader = "poll", !.inq = @ + 1]
    <2>2. p \in Planes
      BY <1>0, <2>1, Zenon
    <2>3. /\ p.failed = plane[s].failed /\ p.stack = plane[s].stack /\ p.copy = plane[s].copy
          /\ p.reader = "poll" /\ p.writer = plane[s].writer
      BY <1>0
    <2>4. plane[s].reader = "full" /\ ~Jammed(s) /\ plane[s].stack # "gone"
      BY <1>0, <1>2 DEF ReaderSends
    <2>5. Becomes(s, p)
      BY <1>2 DEF ReaderSends
    <2> HIDE DEF p
    <2>6. Fits(s, p)
      BY <1>0, <2>2, <2>3, <2>4
    <2>7. QED
      BY <2>5, <2>6, PlaneBecomes
  <1>3. CASE ReaderStops(s) \/ ReaderFails(s) \/ ReaderRefused(s)
    <2>1. Fits(s, [plane[s] EXCEPT !.reader = "gone"])
      BY <1>0, <1>3 DEF ReaderStops, ReaderFails, ReaderRefused
    <2>2. QED
      BY <1>3, <2>1, PlaneBecomes DEF ReaderStops, ReaderFails, ReaderRefused
  <1>4. CASE WriterStops(s) \/ WriterFails(s)
    <2>1. Fits(s, [plane[s] EXCEPT !.writer = "gone"])
      BY <1>0, <1>4 DEF WriterStops, WriterFails
    <2>2. QED
      BY <1>4, <2>1, PlaneBecomes DEF WriterStops, WriterFails
  <1>5. QED
    BY <1>1, <1>2, <1>3, <1>4 DEF ReadThread, WriteThread

\* A call takes a descriptor over, gives it to the handle, or gives up what it held.
LEMMA StartKeeps == PlaneInv /\ StartVpn => PlaneInv'
  <1> SUFFICES ASSUME PlaneInv, StartVpn PROVE PlaneInv'
    OBVIOUS
  <1>1. PICK c \in VpnConfigs :
           /\ plane' = Append(plane, NewPlane(c))
           /\ call' = Call("start", Len(plane) + 1, ValidConfig(c), BuiltInRules(c))
    BY DEF StartVpn
  <1>2. NewPlane(c) \in Planes /\ NewPlane(c).stack = "new" /\ ~NewPlane(c).failed
    BY DEF NewPlane, Planes, AuthKeysReady
  <1>3. /\ plane' \in Seq(Planes) /\ Len(plane') = Len(plane) + 1
        /\ plane'[Len(plane) + 1] = NewPlane(c)
        /\ \A t \in Sessions : plane'[t] = plane[t]
        /\ Sessions' = Sessions \cup {Len(plane) + 1}
    BY <1>1, <1>2 DEF PlaneInv, PlaneTyped, Sessions
  <1>4. ValidConfig(c) \in BOOLEAN /\ BuiltInRules(c) \in BOOLEAN
    BY DEF ValidConfig, BuiltInRules
  <1>5. Len(plane) \in Nat /\ call = Idle /\ UNCHANGED <<handle, degraded, noRuntime>>
    BY DEF StartVpn, PlaneInv, PlaneTyped
  <1>6. call' \in Calls /\ call'.s = Len(plane) + 1 /\ call.op = "none" /\ call.s = 0
    BY <1>1, <1>4, <1>5 DEF Call, Calls, Idle
  <1>7. PlaneTyped'
    BY <1>3, <1>5, <1>6 DEF PlaneInv, PlaneTyped
  <1>8. \A t \in Sessions : t # 0 /\ (Threads(t)' <=> Threads(t)) /\ (Jammed(t)' <=> Jammed(t))
    BY <1>3 DEF Threads, Jammed, Sessions, PlaneInv, PlaneTyped
  <1>9. plane'[Len(plane) + 1].failed = FALSE /\ plane'[Len(plane) + 1].stack = "new"
    BY <1>2, <1>3
  <1>10. ASSUME NEW t \in Sessions, ~plane[t].failed PROVE
            /\ Threads(t)' => handle' = t \/ call'.s = t \/ Jammed(t)'
            /\ plane[t].stack \in {"new", "run"} => handle' = t \/ call'.s = t
    BY <1>5, <1>6, <1>8, <1>10 DEF PlaneInv
  <1>11. ASSUME NEW t \in Sessions' PROVE
            /\ plane'[t].failed => plane'[t].stack = "gone"
            /\ ~plane'[t].failed =>
                 /\ plane'[t].stack \in {"ended", "gone"} => ~Threads(t)'
                 /\ plane'[t].copy => plane'[t].stack \in {"new", "run"}
                 /\ Threads(t)' => handle' = t \/ call'.s = t \/ Jammed(t)'
                 /\ plane'[t].stack \in {"new", "run"} => handle' = t \/ call'.s = t
    <2>1. CASE t \in Sessions
      BY <1>3, <1>8, <1>10, <2>1 DEF PlaneInv
    <2>2. CASE t = Len(plane) + 1
      BY <1>6, <1>9, <2>2
    <2>3. QED
      BY <1>3, <2>1, <2>2
  <1>12. degraded' => handle' # 0 \/ call'.op = "stop" \/ noRuntime'
    BY <1>5, <1>6 DEF PlaneInv
  <1>13. QED
    BY <1>7, <1>11, <1>12 DEF PlaneInv

\* The calls that move the ownership and leave the planes' threads alone.
LEMMA HandsOver ==
    ASSUME PlaneInv, plane' \in Seq(Planes), Len(plane') = Len(plane),
           \A t \in Sessions : /\ plane'[t].reader = plane[t].reader /\ plane'[t].writer = plane[t].writer
                               /\ plane'[t].inq = plane[t].inq /\ plane'[t].copy = plane[t].copy
                               /\ plane'[t].failed = plane[t].failed
                               /\ \/ plane'[t].stack = plane[t].stack
                                  \/ plane[t].stack = "new" /\ plane'[t].stack = "run",
           call' \in Calls, call'.s \in 0..Len(plane), handle' \in 0..Len(plane),
           degraded' \in BOOLEAN, noRuntime' \in BOOLEAN,
           degraded' => handle' # 0 \/ call'.op = "stop" \/ noRuntime',
           \A t \in Sessions :
               ~plane[t].failed /\ (Threads(t) \/ plane[t].stack \in {"new", "run"})
                   /\ (handle = t \/ call.s = t) => handle' = t \/ call'.s = t \/ Jammed(t)
    PROVE  PlaneInv'
  <1>1. Sessions' = Sessions
    BY DEF Sessions, PlaneInv, PlaneTyped
  <1>2. \A t \in Sessions : (Threads(t)' <=> Threads(t)) /\ (Jammed(t)' <=> Jammed(t))
    BY <1>1 DEF Threads, Jammed
  <1>3. PlaneTyped'
    BY DEF PlaneInv, PlaneTyped
  <1>4. ASSUME NEW t \in Sessions PROVE
            /\ plane'[t].failed => plane'[t].stack = "gone"
            /\ ~plane'[t].failed =>
                 /\ plane'[t].stack \in {"ended", "gone"} => ~Threads(t)'
                 /\ plane'[t].copy => plane'[t].stack \in {"new", "run"}
                 /\ Threads(t)' => handle' = t \/ call'.s = t \/ Jammed(t)'
                 /\ plane'[t].stack \in {"new", "run"} => handle' = t \/ call'.s = t
    <2>1. /\ plane[t].failed => plane[t].stack = "gone"
          /\ ~plane[t].failed =>
               /\ plane[t].stack \in {"ended", "gone"} => ~Threads(t)
               /\ plane[t].copy => plane[t].stack \in {"new", "run"}
               /\ Threads(t) => handle = t \/ call.s = t \/ Jammed(t)
               /\ plane[t].stack \in {"new", "run"} => handle = t \/ call.s = t
      BY DEF PlaneInv
    <2>2. Jammed(t) => plane[t].stack = "dropping"
      BY DEF Jammed
    <2>3. QED
      BY <1>2, <2>1, <2>2
  <1>5. QED
    BY <1>1, <1>3, <1>4 DEF PlaneInv

LEMMA CallsKeep ==
    ASSUME PlaneInv, NEW s \in Sessions,
           \/ StartRefused(s) \/ StartAccepted(s) \/ StartReturns(s)
           \/ RuntimeDrops(s) \/ StopReturns(s)
    PROVE  PlaneInv'
  <1>0. /\ plane[s] \in Planes /\ s \in 1..Len(plane) /\ call \in Calls
        /\ Idle \in Calls /\ Idle.s = 0 /\ Idle.op = "none"
        /\ \A t \in Sessions : t # 0
    BY DEF PlaneInv, PlaneTyped, Sessions, Idle, Call, Calls
  <1>1. CASE StartRefused(s)
    <2> DEFINE p == [Triggered(plane[s]) EXCEPT !.quiet = TRUE]
    <2>1. /\ plane' = [plane EXCEPT ![s] = p]
          /\ UNCHANGED <<call, handle>> /\ plane[s].stack = "new"
      BY <1>1 DEF StartRefused
    <2>2. Fits(s, p)
      BY <1>0, <2>1, AtPlane DEF Triggered, Planes, Fits, Threads, Jammed
    <2>3. /\ degraded' \in BOOLEAN /\ noRuntime' \in BOOLEAN
          /\ degraded' => handle # 0 \/ call.op = "stop" \/ noRuntime'
      <3>1. call.builtin \in BOOLEAN
        BY <1>0 DEF Calls
      <3>2. CASE UNCHANGED <<degraded, noRuntime>>
        BY <3>2 DEF PlaneInv, PlaneTyped
      <3>3. CASE degraded' = call.builtin /\ noRuntime' = TRUE
        BY <3>1, <3>3
      <3>4. QED
        BY <1>1, <3>2, <3>3 DEF StartRefused
    <2>4. QED
      BY <2>1, <2>2, <2>3, OnePlane
  <1>2. CASE StartAccepted(s)
    <2>1. /\ plane' = [plane EXCEPT ![s].stack = "run"] /\ plane[s].stack = "new"
          /\ handle = 0 /\ call.s = s /\ handle' = s /\ call' = Idle
          /\ degraded' \in BOOLEAN /\ noRuntime' = noRuntime
      BY <1>0, <1>2 DEF StartAccepted, Held, Calls
    <2> DEFINE p == [plane[s] EXCEPT !.stack = "run"]
    <2>2. /\ plane' \in Seq(Planes) /\ Len(plane') = Len(plane)
          /\ \A t \in Sessions : /\ plane'[t].reader = plane[t].reader /\ plane'[t].writer = plane[t].writer
                                 /\ plane'[t].inq = plane[t].inq /\ plane'[t].copy = plane[t].copy
                                 /\ plane'[t].failed = plane[t].failed
                                 /\ \/ plane'[t].stack = plane[t].stack
                                    \/ plane[t].stack = "new" /\ plane'[t].stack = "run"
      <3>1. /\ p \in Planes /\ p.stack = "run" /\ p.reader = plane[s].reader
            /\ p.writer = plane[s].writer /\ p.inq = plane[s].inq
            /\ p.copy = plane[s].copy /\ p.failed = plane[s].failed
        BY <1>0 DEF Planes
      <3>2. plane' = [plane EXCEPT ![s] = p]
        BY <2>1
      <3> HIDE DEF p
      <3>3. /\ plane' \in Seq(Planes) /\ Len(plane') = Len(plane)
            /\ plane'[s] = p /\ \A t \in Sessions \ {s} : plane'[t] = plane[t]
        BY <3>1, <3>2, Replaced DEF PlaneInv, PlaneTyped
      <3>4. QED
        BY <2>1, <3>1, <3>3
    <2>3. QED
      BY <1>0, <2>1, <2>2, HandsOver DEF PlaneInv, PlaneTyped
  <1>3. CASE StartReturns(s)
    <2>1. /\ ~Threads(s) \/ plane[s].failed
          /\ plane[s].stack = "gone" /\ call.s = s /\ call' = Idle /\ call.op = "start"
          /\ UNCHANGED <<handle, plane, degraded, noRuntime>>
      BY <1>0, <1>3 DEF StartReturns, Held, PlaneInv
    <2>2. QED
      BY <1>0, <2>1, HandsOver DEF PlaneInv, PlaneTyped
  <1>4. CASE RuntimeDrops(s)
    <2> DEFINE p == [Triggered(plane[s]) EXCEPT !.quiet = TRUE]
    <2>1. Becomes(s, p) /\ plane[s].stack = "run"
      BY <1>4 DEF RuntimeDrops
    <2>2. Fits(s, p)
      BY <1>0, <2>1, AtPlane DEF Triggered, Planes, Fits, Threads, Jammed
    <2>3. QED
      BY <2>1, <2>2, PlaneBecomes
  <1>5. CASE StopReturns(s)
    <2>1. /\ (~Threads(s) /\ plane[s].stack = "gone") \/ plane[s].failed \/ Jammed(s)
          /\ call.s = s /\ call' = Idle /\ degraded' = FALSE
          /\ UNCHANGED <<handle, plane, noRuntime>>
      BY <1>0, <1>5 DEF StopReturns, Held, PlaneInv
    <2>2. /\ degraded' \in BOOLEAN /\ ~degraded' /\ noRuntime' \in BOOLEAN
          /\ plane' \in Seq(Planes) /\ Len(plane') = Len(plane) /\ handle' \in 0..Len(plane)
          /\ call'.s \in 0..Len(plane)
      <3>1. degraded' \in BOOLEAN /\ ~degraded' /\ noRuntime' \in BOOLEAN
        BY <2>1 DEF PlaneInv, PlaneTyped
      <3>2. Len(plane) \in Nat /\ plane \in Seq(Planes) /\ handle \in 0..Len(plane)
        BY DEF PlaneInv, PlaneTyped
      <3>3. call'.s = 0
        BY <1>0, <2>1
      <3>4. QED
        BY <2>1, <3>1, <3>2, <3>3
    <2>3. \A t \in Sessions :
               ~plane[t].failed /\ (Threads(t) \/ plane[t].stack \in {"new", "run"})
                   /\ (handle = t \/ call.s = t) => handle' = t \/ call'.s = t \/ Jammed(t)
      BY <2>1
    <2>4. QED
      BY <1>0, <2>1, <2>2, <2>3, HandsOver
  <1>6. QED
    BY <1>1, <1>2, <1>3, <1>4, <1>5

LEMMA StopKeeps == PlaneInv /\ StopVpn => PlaneInv'
  <1> SUFFICES ASSUME PlaneInv, StopVpn PROVE PlaneInv'
    OBVIOUS
  <1>1. /\ call = Idle /\ handle \in Sessions /\ plane[handle] \in Planes
        /\ call' = Call("stop", handle, FALSE, FALSE) /\ handle' = 0
        /\ plane' = [plane EXCEPT ![handle].token = TRUE]
        /\ UNCHANGED <<degraded, noRuntime>>
    BY DEF StopVpn, PlaneInv, PlaneTyped, Sessions
  <1> DEFINE p == [plane[handle] EXCEPT !.token = TRUE]
  <1>2. /\ plane' \in Seq(Planes) /\ Len(plane') = Len(plane)
        /\ \A t \in Sessions : /\ plane'[t].reader = plane[t].reader /\ plane'[t].writer = plane[t].writer
                               /\ plane'[t].inq = plane[t].inq /\ plane'[t].copy = plane[t].copy
                               /\ plane'[t].failed = plane[t].failed /\ plane'[t].stack = plane[t].stack
    <2>1. /\ p \in Planes /\ p.stack = plane[handle].stack /\ p.reader = plane[handle].reader
          /\ p.writer = plane[handle].writer /\ p.inq = plane[handle].inq
          /\ p.copy = plane[handle].copy /\ p.failed = plane[handle].failed
      BY <1>1 DEF Planes
    <2>2. plane' = [plane EXCEPT ![handle] = p]
      BY <1>1
    <2> HIDE DEF p
    <2>3. /\ plane' \in Seq(Planes) /\ Len(plane') = Len(plane)
          /\ plane'[handle] = p /\ \A t \in Sessions \ {handle} : plane'[t] = plane[t]
      BY <1>1, <2>1, <2>2, Replaced DEF PlaneInv, PlaneTyped
    <2>4. QED
      BY <2>1, <2>3
  <1>3. /\ call' \in Calls /\ call'.s = handle /\ call'.op = "stop" /\ call.s = 0
        /\ \A t \in Sessions : t # 0
    BY <1>1 DEF Call, Calls, Idle, Sessions, PlaneInv, PlaneTyped
  <1>4. QED
    BY <1>1, <1>2, <1>3, HandsOver DEF PlaneInv, PlaneTyped

\* A take-over that fails leaves the owners of the other descriptors alone.
LEMMA FailureKeeps == PlaneInv /\ TakeoverFails => PlaneInv'
  <1> SUFFICES ASSUME PlaneInv, TakeoverFails PROVE PlaneInv'
    OBVIOUS
  <1>1. PICK left \in Leftovers : plane' = Append(plane, left)
    BY DEF TakeoverFails
  <1>2. left \in Planes /\ left.failed /\ left.stack = "gone"
    <2>1. left = Leftover("gone", FALSE) \/ left = Leftover("gone", TRUE) \/ left = Leftover("poll", TRUE)
      BY DEF Leftovers
    <2>2. ASSUME NEW reader \in {"poll", "gone"}, NEW copy \in BOOLEAN
          PROVE  /\ Leftover(reader, copy) \in Planes
                 /\ Leftover(reader, copy).failed /\ Leftover(reader, copy).stack = "gone"
      BY DEF Leftover, Planes
    <2>3. QED
      BY <2>1, <2>2
  <1>3. UNCHANGED <<call, handle, degraded, noRuntime>>
    BY DEF TakeoverFails
  <1>4. /\ plane' \in Seq(Planes) /\ Len(plane') = Len(plane) + 1
        /\ plane'[Len(plane) + 1] = left
        /\ \A t \in Sessions : plane'[t] = plane[t]
        /\ Sessions' = Sessions \cup {Len(plane) + 1}
    BY <1>1, <1>2 DEF PlaneInv, PlaneTyped, Sessions
  <1>5. PlaneTyped'
    BY <1>3, <1>4 DEF PlaneInv, PlaneTyped
  <1>6. \A t \in Sessions : (Threads(t)' <=> Threads(t)) /\ (Jammed(t)' <=> Jammed(t))
    BY <1>4 DEF Threads, Jammed
  <1>7. QED
    BY <1>2, <1>3, <1>4, <1>5, <1>6 DEF PlaneInv

LEMMA PlaneNextKeeps == PlaneInv /\ PlaneNext => PlaneInv'
BY FailureKeeps, StartKeeps, StopKeeps, CallsKeep, TaskKeeps, ThreadsKeep DEF PlaneNext

\* Whichever order starts, stops, failures and the threads' steps come in, no TUN descriptor is left
\* without an owner, and a refused start leaves the running plane alone.
THEOREM DescriptorsHaveOwners == AndroidSpec => []DescriptorsOwned
  <1>1. AndroidInit => PlaneInv /\ EngineInv
    <2> SUFFICES ASSUME AndroidInit PROVE PlaneInv /\ EngineInv
      OBVIOUS
    <2> USE DEF AndroidInit, PlaneInit
    <2>1. plane \in Seq(Planes) /\ Len(plane) = 0 /\ Sessions = {}
      BY DEF Sessions
    <2>2. Idle \in Calls /\ Idle.s = 0
      BY DEF Idle, Call, Calls
    <2>3. PlaneInv
      <3>1. PlaneTyped
        <4>1. degraded \in BOOLEAN /\ noRuntime \in BOOLEAN
          OBVIOUS
        <4>2. call \in Calls /\ call.s \in 0..Len(plane) /\ handle \in 0..Len(plane)
          BY <2>1, <2>2
        <4>3. QED
          BY <2>1, <4>1, <4>2 DEF PlaneTyped
      <3>2. QED
        BY <2>1, <3>1 DEF PlaneInv
    <2>4. EngineInv
      BY DEF EngineInv
    <2>5. QED
      BY <2>3, <2>4
  <1>2. PlaneInv /\ [AndroidNext]_androidVars => PlaneInv'
    <2>1. PlaneInv /\ UNCHANGED planeVars => PlaneInv'
      BY DEF PlaneInv, PlaneTyped, Sessions, Threads, Jammed, planeVars
    <2>2. Engine => UNCHANGED planeVars
      BY DEF Engine, EngineBecomes, NewEngine, EngineStart, EngineBinds, EngineStarted,
             EngineFails, EngineDies, EngineStop
    <2>3. QED
      BY <2>1, <2>2, PlaneNextKeeps DEF AndroidNext, Vpn, Logs, androidVars
  <1>3. EngineInv /\ [AndroidNext]_androidVars => EngineInv'
    <2>1. ASSUME EngineInv, Engine PROVE EngineInv'
      BY <2>1 DEF EngineInv, Engine, EngineBecomes, NewEngine, EngineValid, EngineStart, EngineBinds,
             EngineStarted, EngineFails, EngineDies, EngineStop
    <2>2. QED
      BY <2>1 DEF EngineInv, AndroidNext, Vpn, Logs, androidVars
  <1>4. PlaneInv /\ EngineInv => DescriptorsOwned
    BY DEF PlaneInv, EngineInv, DescriptorsOwned, Open
  <1>5. QED
    BY <1>1, <1>2, <1>3, <1>4, PTL DEF AndroidSpec

-----------------------------------------------------------------------------
(* The log ring. *)

Entries == [seq : Nat, msg : Messages, n : Nat]

\* The cursor stays below the next number, which is why an entry logged after a reset, with the
\* cursor where it was, is still ahead of it.
RingInv ==
    /\ ring \in Seq(Entries)
    /\ nextSeq \in Nat /\ cursor \in Nat /\ cursor < nextSeq
    /\ last.n \in Nat
    /\ \A i \in DOMAIN ring : /\ ring[i].seq < nextSeq
                              /\ ring[i].seq <= cursor => ring[i].seq \in pulled
    /\ \A i, j \in DOMAIN ring : i < j => ring[i].seq < ring[j].seq

\* A message folded into its entry leaves the entry's number.
LEMMA FoldKeeps ==
    ASSUME RingInv, NEW msg \in Messages, Fold(msg), UNCHANGED <<cursor, pulled>> PROVE RingInv'
  <1>1. LastAt \in DOMAIN ring /\ UNCHANGED nextSeq
    BY DEF Fold, LastAt
  <1> DEFINE e == [ring[LastAt] EXCEPT !.n = last.n + 1]
  <1>2. ring' = [ring EXCEPT ![LastAt] = e] /\ last'.n \in Nat
    BY DEF Fold, RingInv
  <1>3. ring[LastAt] \in Entries /\ last.n + 1 \in Nat
    BY <1>1 DEF RingInv
  <1>4. e \in Entries /\ e.seq = ring[LastAt].seq
    BY <1>3 DEF Entries
  <1> HIDE DEF e
  <1>5. /\ ring' \in Seq(Entries) /\ DOMAIN ring' = DOMAIN ring
        /\ \A i \in DOMAIN ring : ring'[i].seq = ring[i].seq
    BY <1>1, <1>2, <1>4 DEF RingInv
  <1>6. QED
    BY <1>1, <1>2, <1>5 DEF RingInv

\* A new entry takes the next number, with or without an eviction.
LEMMA EnterKeeps ==
    ASSUME RingInv, NEW msg \in Messages, Enter(msg), UNCHANGED <<cursor, pulled>> PROVE RingInv'
  <1> DEFINE kept == IF Len(ring) >= RingCap THEN Tail(ring) ELSE ring
             e == [seq |-> nextSeq, msg |-> msg, n |-> 1]
             k == IF Len(ring) >= RingCap THEN 1 ELSE 0
  <1>1. /\ ring' = Append(kept, e) /\ nextSeq' = nextSeq + 1
        /\ last'.n \in Nat
    BY DEF Enter
  <1>2. e \in Entries /\ e.seq = nextSeq
    BY DEF RingInv, Entries
  <1>3. /\ kept \in Seq(Entries) /\ Len(kept) \in Nat /\ k \in Nat
        /\ \A i \in 1..Len(kept) : i + k \in DOMAIN ring /\ kept[i] = ring[i + k]
    <2>1. ring \in Seq(Entries) /\ Len(ring) \in Nat /\ DOMAIN ring = 1..Len(ring)
      BY DEF RingInv
    <2>2. CASE Len(ring) >= RingCap
      <3>1. ring # <<>> /\ Len(ring) > 0
        BY <2>1, <2>2, RingAssumption
      <3>2. /\ Tail(ring) \in Seq(Entries) /\ Len(Tail(ring)) = Len(ring) - 1
            /\ \A i \in 1..Len(Tail(ring)) : Tail(ring)[i] = ring[i + 1]
        BY <2>1, <3>1, HeadTailProperties
      <3>3. QED
        BY <2>1, <2>2, <3>1, <3>2
    <2>3. CASE ~(Len(ring) >= RingCap)
      BY <2>1, <2>3
    <2>4. QED
      BY <2>2, <2>3
  <1> HIDE DEF kept, e, k
  <1>4. /\ ring' \in Seq(Entries) /\ DOMAIN ring' = 1..(Len(kept) + 1)
        /\ ring'[Len(kept) + 1] = e
        /\ \A i \in 1..Len(kept) : ring'[i] = kept[i]
    BY <1>1, <1>2, <1>3, AppendProperties
  <1>5. \A i \in DOMAIN ring' :
           \/ i = Len(kept) + 1 /\ ring'[i].seq = nextSeq
           \/ i \in 1..Len(kept) /\ i + k \in DOMAIN ring /\ ring'[i].seq = ring[i + k].seq
    BY <1>2, <1>3, <1>4
  <1>6. \A i \in DOMAIN ring' : /\ ring'[i].seq < nextSeq'
                                /\ ring'[i].seq <= cursor => ring'[i].seq \in pulled
    <2> SUFFICES ASSUME NEW i \in DOMAIN ring'
                 PROVE  ring'[i].seq < nextSeq' /\ (ring'[i].seq <= cursor => ring'[i].seq \in pulled)
      OBVIOUS
    <2>1. CASE ring'[i].seq = nextSeq
      BY <1>1, <2>1 DEF RingInv
    <2>2. CASE i + k \in DOMAIN ring /\ ring'[i].seq = ring[i + k].seq
      <3>1. ring[i + k] \in Entries
        BY <2>2 DEF RingInv
      <3>2. QED
        BY <1>1, <2>2, <3>1 DEF RingInv, Entries
    <2>3. QED
      BY <1>5, <2>1, <2>2
  <1>7. ASSUME NEW i \in DOMAIN ring', NEW j \in DOMAIN ring', i < j
        PROVE  ring'[i].seq < ring'[j].seq
    <2>1. i \in 1..Len(kept) /\ i + k \in DOMAIN ring /\ ring'[i].seq = ring[i + k].seq
      BY <1>3, <1>4, <1>5, <1>7
    <2>2. CASE j = Len(kept) + 1 /\ ring'[j].seq = nextSeq
      BY <2>1, <2>2 DEF RingInv
    <2>3. CASE j \in 1..Len(kept) /\ j + k \in DOMAIN ring /\ ring'[j].seq = ring[j + k].seq
      <3>1. i + k < j + k
        BY <1>3, <1>7, <2>1, <2>3
      <3>2. QED
        BY <2>1, <2>3, <3>1 DEF RingInv
    <2>4. QED
      BY <1>5, <2>2, <2>3
  <1>8. QED
    BY <1>1, <1>4, <1>6, <1>7 DEF RingInv

\* A pull takes everything up to the last entry, whose number is the greatest.
LEMMA PullKeeps == RingInv /\ VpnLogsSince => RingInv'
  <1> SUFFICES ASSUME RingInv, VpnLogsSince PROVE RingInv'
    OBVIOUS
  <1>1. /\ UNCHANGED <<ring, nextSeq, last>> /\ cursor' = ring[Len(ring)].seq
        /\ pulled' = pulled \cup {ring[i].seq : i \in {j \in DOMAIN ring : ring[j].seq > cursor}}
        /\ DOMAIN ring # {}
    BY DEF VpnLogsSince
  <1>2. Len(ring) \in DOMAIN ring /\ ring[Len(ring)] \in Entries
    BY <1>1 DEF RingInv
  <1>3. cursor' \in Nat /\ cursor' < nextSeq
    BY <1>1, <1>2 DEF RingInv, Entries
  <1>4. \A i \in DOMAIN ring : ring[i].seq \in pulled'
    <2> SUFFICES ASSUME NEW i \in DOMAIN ring PROVE ring[i].seq \in pulled'
      OBVIOUS
    <2>1. ring[i].seq \in Nat
      <3>1. ring[i] \in Entries
        BY DEF RingInv
      <3>2. QED
        BY <3>1 DEF Entries
    <2>2. ring[i].seq <= cursor \/ ring[i].seq > cursor
      BY <2>1 DEF RingInv
    <2>3. QED
      BY <1>1, <2>2 DEF RingInv
  <1>5. QED
    BY <1>1, <1>3, <1>4 DEF RingInv

\* Every step of the ring, of its reader and of the rest keeps the numbers in order.
LEMMA RingKept == AndroidSpec => []RingInv
  <1>1. AndroidInit => RingInv
    BY DEF AndroidInit, LogInit, RingInv, NoLast
  <1>2. RingInv /\ [AndroidNext]_androidVars => RingInv'
    <2> SUFFICES ASSUME RingInv, [AndroidNext]_androidVars PROVE RingInv'
      OBVIOUS
    <2>1. CASE PushLogEntry
      BY <2>1, FoldKeeps, EnterKeeps DEF PushLogEntry
    <2>2. CASE ResetVpnLogs
      <3>1. ring' = <<>> /\ last'.n = 0 /\ UNCHANGED <<nextSeq, cursor>>
        BY <2>2 DEF ResetVpnLogs, NoLast
      <3>2. ring' \in Seq(Entries) /\ DOMAIN ring' = {}
        BY <3>1
      <3>3. QED
        BY <3>1, <3>2 DEF RingInv
    <2>3. CASE VpnLogsSince
      BY <2>3, PullKeeps
    <2>4. CASE PollAnew
      <3>1. cursor' = 0 /\ UNCHANGED <<ring, nextSeq, last, pulled>>
        BY <2>4 DEF PollAnew
      <3>2. cursor \in Nat /\ nextSeq \in Nat /\ cursor < nextSeq
        BY DEF RingInv
      <3>3. \A i \in DOMAIN ring : ring[i].seq <= 0 => ring[i].seq <= cursor
        <4> SUFFICES ASSUME NEW i \in DOMAIN ring PROVE ring[i].seq <= 0 => ring[i].seq <= cursor
          OBVIOUS
        <4>1. ring[i] \in Entries
          BY DEF RingInv
        <4>2. QED
          BY <3>2, <4>1 DEF Entries
      <3>4. QED
        BY <3>1, <3>2, <3>3 DEF RingInv
    <2>5. CASE UNCHANGED logVars
      BY <2>5 DEF logVars, RingInv
    <2>6. Engine => UNCHANGED logVars
      BY DEF Engine, EngineBecomes, NewEngine, EngineStart, EngineBinds, EngineStarted,
             EngineFails, EngineDies, EngineStop
    <2>7. QED
      BY <2>1, <2>2, <2>3, <2>4, <2>5, <2>6 DEF AndroidNext, Vpn, Logs, LogNext, androidVars
  <1>3. QED
    BY <1>1, <1>2, PTL DEF AndroidSpec

\* However often the service pulls, resets and starts anew, and whatever is folded or evicted in
\* between, an entry at or below its cursor is one it has read, and the numbers rise.
THEOREM CursorSkipsNothing == AndroidSpec => []CursorSound
  <1>1. RingInv => CursorSound
    BY DEF RingInv, CursorSound
  <1>2. QED
    BY <1>1, RingKept, PTL

-----------------------------------------------------------------------------
(* What the entries of the ring count. *)

\* A set of numbers that is not empty has a least element: of the sets of its elements up to one
\* of them a minimal one.
LEMMA LeastNat ==
    ASSUME NEW S \in SUBSET Nat, S # {} PROVE \E n \in S : \A m \in S : n <= m
  <1> DEFINE upto(n) == {m \in S : m <= n}
             C == {upto(n) : n \in S}
  <1>1. C \subseteq FiniteSubsetsOf(S) /\ C # {}
    BY FS_BoundedSetOfNaturals DEF FiniteSubsetsOf
  <1>2. PICK U \in C : \A V \in C : ~ (<<V, U>> \in StrictSubsetOrdering(S))
    <2> HIDE DEF C
    <2>1. QED
      BY <1>1, WFMin, FS_StrictSubsetOrderingWellFounded
  <1>3. PICK n \in S : U = upto(n)
    OBVIOUS
  <1>4. ASSUME NEW m \in S, m < n PROVE FALSE
    <2>1. m \in Nat /\ n \in Nat /\ upto(m) \in C
      OBVIOUS
    <2>2. upto(m) \subseteq upto(n) /\ n \in upto(n) /\ n \notin upto(m)
      <3>1. \A k \in S : k <= m => k <= n
        BY <1>4, <2>1
      <3>2. n <= n /\ ~(n <= m)
        BY <1>4, <2>1
      <3>3. QED
        BY <3>1, <3>2
    <2>3. <<upto(m), U>> \in StrictSubsetOrdering(S)
      BY <2>2, <1>3 DEF StrictSubsetOrdering
    <2>4. QED
      BY <2>1, <2>3, <1>2
  <1>5. QED
    BY <1>4

\* Induction up to a bound, for a set of numbers.
LEMMA Reaches ==
    ASSUME NEW N \in Nat, NEW S \in SUBSET Nat, 0 \in S, \A n \in S : n < N => n + 1 \in S
    PROVE  0..N \subseteq S
  <1>1. SUFFICES ASSUME (0..N) \ S # {} PROVE FALSE
    OBVIOUS
  <1> DEFINE out == (0..N) \ S
  <1>2. PICK n \in out : \A m \in out : n <= m
    <2>1. out \in SUBSET Nat /\ out # {}
      BY <1>1
    <2> HIDE DEF out
    <2>2. QED
      BY <2>1, LeastNat
  <1>3. n # 0 /\ n - 1 \in S /\ n - 1 < N
    BY <1>2
  <1>4. n - 1 + 1 \in S
    BY <1>3
  <1>5. QED
    BY <1>2, <1>4

\* F adds the counts of p up, from the front.
Sums(F, p) == F[0] = 0 /\ \A i \in 1..Len(p) : F[i] = F[i - 1] + p[i].n

\* The recursion of Total has a solution, and no other.
LEMMA TotalFacts ==
    ASSUME NEW p \in Seq(Entries)
    PROVE  /\ \E F \in [0..Len(p) -> Int] : Sums(F, p)
           /\ \A F \in [0..Len(p) -> Int] : Sums(F, p) => Total(p) = F[Len(p)]
  <1> DEFINE N == Len(p)
             c(i) == p[i].n
             Good(F, n) == F[0] = 0 /\ \A i \in 1..n : F[i] = F[i - 1] + c(i)
             R == {n \in Nat : n <= N => \E F \in [0..n -> Int] : Good(F, n)}
             Eq(F) == F = [i \in 0..N |-> IF i = 0 THEN 0 ELSE F[i - 1] + c(i)]
             K == CHOOSE H : Eq(H)
  <1>1. N \in Nat /\ \A i \in 1..N : c(i) \in Int
    <2>1. \A i \in 1..N : p[i] \in Entries
      OBVIOUS
    <2>2. QED
      BY <2>1 DEF Entries
  <1> HIDE DEF N, c
  <1>2. 0 \in R
    <2>1. [i \in 0..0 |-> 0] \in [0..0 -> Int] /\ Good([i \in 0..0 |-> 0], 0)
      OBVIOUS
    <2>2. QED
      BY <2>1
  <1>3. ASSUME NEW n \in R, n < N PROVE n + 1 \in R
    <2>1. PICK F \in [0..n -> Int] : Good(F, n)
      <3>1. n \in Nat /\ n <= N
        BY <1>1, <1>3
      <3> HIDE DEF Good
      <3>2. QED
        BY <3>1
    <2> DEFINE G == [i \in 0..(n + 1) |-> IF i = n + 1 THEN F[n] + c(n + 1) ELSE F[i]]
    <2>2. n \in Nat /\ F[n] + c(n + 1) \in Int
      BY <1>1, <1>3
    <2>3. G \in [0..(n + 1) -> Int]
      BY <2>2
    <2>4. G[0] = 0
      BY <2>1, <2>2
    <2>5. ASSUME NEW i \in 1..(n + 1) PROVE G[i] = G[i - 1] + c(i)
      <3>1. CASE i = n + 1
        <4>1. G[i] = F[n] + c(n + 1) /\ G[i - 1] = F[n]
          BY <2>2, <3>1
        <4>2. QED
          BY <4>1, <3>1
      <3>2. CASE i # n + 1
        <4>1. G[i] = F[i] /\ G[i - 1] = F[i - 1] /\ i \in 1..n
          BY <2>2, <3>2
        <4>2. QED
          BY <4>1, <2>1
      <3>3. QED
        BY <3>1, <3>2
    <2> HIDE DEF G
    <2>6. Good(G, n + 1)
      BY <2>4, <2>5
    <2> HIDE DEF Good
    <2>7. \E H \in [0..(n + 1) -> Int] : Good(H, n + 1)
      BY <2>3, <2>6
    <2>8. QED
      BY <2>2, <2>7
  <1>4. N \in R
    <2> HIDE DEF R
    <2>1. R \in SUBSET Nat /\ N \in 0..N
      BY <1>1 DEF R
    <2>2. 0..N \subseteq R
      BY <1>1, <1>2, <1>3, <2>1, Reaches
    <2>3. QED
      BY <2>1, <2>2
  <1>5. PICK F \in [0..N -> Int] : Good(F, N)
    <2>1. N <= N
      BY <1>1
    <2> HIDE DEF Good
    <2>2. QED
      BY <1>4, <2>1
  <1>6. Eq(F)
    <2>1. F = [i \in 0..N |-> F[i]]
      OBVIOUS
    <2>2. ASSUME NEW i \in 0..N PROVE F[i] = IF i = 0 THEN 0 ELSE F[i - 1] + c(i)
      <3>1. i = 0 \/ i \in 1..N
        BY <1>1
      <3>2. QED
        BY <3>1, <1>5
    <2>3. QED
      BY <2>1, <2>2
  <1>7. Eq(K)
    <2> HIDE DEF Eq
    <2>1. QED
      BY <1>6
  <1>8. Total(p) = K[N]
    BY DEF Total, N, c
  <1> HIDE DEF K
  <1>9. K[0] = 0 /\ \A i \in 1..N : K[i] = K[i - 1] + c(i)
    <2>1. K = [i \in 0..N |-> IF i = 0 THEN 0 ELSE K[i - 1] + c(i)]
      BY <1>7
    <2>2. QED
      BY <1>1, <2>1
  <1>10. ASSUME NEW G \in [0..N -> Int], Good(G, N) PROVE K[N] = G[N]
    <2> DEFINE Q == {n \in Nat : n <= N => K[n] = G[n]}
    <2>1. 0 \in Q
      BY <1>9, <1>10
    <2>2. ASSUME NEW n \in Q, n < N PROVE n + 1 \in Q
      <3>1. n \in Nat /\ n + 1 \in 1..N /\ n + 1 - 1 = n /\ K[n] = G[n]
        BY <1>1, <2>2
      <3>2. K[n + 1] = K[n] + c(n + 1) /\ G[n + 1] = G[n] + c(n + 1)
        <4>1. K[n + 1] = K[n + 1 - 1] + c(n + 1) /\ G[n + 1] = G[n + 1 - 1] + c(n + 1)
          BY <1>9, <1>10, <3>1
        <4>2. QED
          BY <3>1, <4>1
      <3>3. QED
        BY <3>1, <3>2
    <2> HIDE DEF Q
    <2>3. Q \in SUBSET Nat /\ N \in 0..N /\ N <= N
      BY <1>1 DEF Q
    <2>4. 0..N \subseteq Q
      BY <1>1, <2>1, <2>2, <2>3, Reaches
    <2>5. QED
      BY <2>3, <2>4 DEF Q
  <1>11. \A G : Sums(G, p) <=> Good(G, N)
    BY DEF Sums, N, c
  <1> HIDE DEF Good
  <1>12. QED
    BY <1>5, <1>8, <1>10, <1>11 DEF N

\* The count of no entries.
LEMMA TotalEmpty == Total(<<>>) = 0
  <1>1. <<>> \in Seq(Entries) /\ Len(<<>>) = 0
    OBVIOUS
  <1>2. PICK F \in [0..Len(<<>>) -> Int] : Sums(F, <<>>)
    BY <1>1, TotalFacts
  <1>3. QED
    BY <1>1, <1>2, TotalFacts DEF Sums

\* A count of entries is a number.
LEMMA TotalIsInt == ASSUME NEW p \in Seq(Entries) PROVE Total(p) \in Int
  <1>1. PICK F \in [0..Len(p) -> Int] : Sums(F, p)
    BY TotalFacts
  <1>2. QED
    BY <1>1, TotalFacts

\* An entry more.
LEMMA TotalAppended ==
    ASSUME NEW p \in Seq(Entries), NEW e \in Entries
    PROVE  Total(p) \in Int /\ Total(Append(p, e)) = Total(p) + e.n
  <1> DEFINE q == Append(p, e)
             N == Len(p)
  <1>1. /\ N \in Nat /\ e.n \in Int /\ q \in Seq(Entries) /\ Len(q) = N + 1
        /\ \A i \in 1..N : q[i] = p[i]
        /\ q[N + 1] = e
    BY DEF Entries
  <1>2. PICK F \in [0..N -> Int] : Sums(F, p)
    BY TotalFacts
  <1>3. Total(p) = F[N] /\ F[N] \in Int
    BY <1>1, <1>2, TotalFacts
  <1> DEFINE G == [i \in 0..(N + 1) |-> IF i = N + 1 THEN F[N] + e.n ELSE F[i]]
  <1>4. G \in [0..Len(q) -> Int]
    BY <1>1, <1>3
  <1>5. Sums(G, q)
    <2>1. G[0] = 0
      BY <1>1, <1>2 DEF Sums
    <2>2. ASSUME NEW i \in 1..(N + 1) PROVE G[i] = G[i - 1] + q[i].n
      <3> HIDE DEF q
      <3>1. CASE i = N + 1
        <4>1. G[i] = F[N] + e.n /\ G[i - 1] = F[N]
          BY <1>1, <3>1
        <4>2. QED
          BY <4>1, <3>1, <1>1
      <3>2. CASE i # N + 1
        <4>1. G[i] = F[i] /\ G[i - 1] = F[i - 1] /\ i \in 1..N
          BY <1>1, <3>2
        <4>2. QED
          BY <4>1, <1>1, <1>2 DEF Sums
      <3>3. QED
        BY <3>1, <3>2
    <2> HIDE DEF G, q
    <2>3. QED
      BY <1>1, <2>1, <2>2 DEF Sums
  <1>6. G[Len(q)] = F[N] + e.n
    BY <1>1
  <1> HIDE DEF G, q
  <1>7. Total(q) = G[Len(q)]
    BY <1>1, <1>4, <1>5, TotalFacts
  <1>8. QED
    BY <1>3, <1>6, <1>7 DEF q

\* The oldest entry less.
LEMMA TotalTail ==
    ASSUME NEW p \in Seq(Entries), p # <<>>
    PROVE  Total(p) = Head(p).n + Total(Tail(p))
  <1> DEFINE q == Tail(p)
             N == Len(p)
             v == p[1].n
  <1>1. /\ N \in Nat \ {0} /\ q \in Seq(Entries) /\ Len(q) = N - 1 /\ Head(p) = p[1]
        /\ \A i \in 1..(N - 1) : q[i] = p[i + 1]
    BY HeadTailProperties
  <1>2. v \in Int
    <2>1. p[1] \in Entries
      BY <1>1
    <2>2. QED
      BY <2>1 DEF Entries
  <1>3. PICK F \in [0..N -> Int] : Sums(F, p)
    BY TotalFacts
  <1>4. /\ Total(p) = F[N] /\ F[N] \in Int /\ F[1] = v
        /\ \A i \in 1..N : F[i] = F[i - 1] + p[i].n
    <2>1. Total(p) = F[N]
      BY <1>3, TotalFacts
    <2>2. F[0] = 0 /\ \A i \in 1..N : F[i] = F[i - 1] + p[i].n
      BY <1>3 DEF Sums
    <2>3. 1 \in 1..N /\ F[1] = F[0] + v /\ N \in 0..N
      BY <1>1, <2>2
    <2> HIDE DEF v
    <2>4. QED
      BY <1>2, <2>1, <2>2, <2>3
  <1> HIDE DEF v, q, N
  <1> DEFINE G == [i \in 0..(N - 1) |-> F[i + 1] - v]
  <1>5. G \in [0..Len(q) -> Int]
    BY <1>1, <1>2
  <1>6. Sums(G, q)
    <2>1. G[0] = 0
      BY <1>1, <1>2, <1>4
    <2>2. ASSUME NEW i \in 1..(N - 1) PROVE G[i] = G[i - 1] + q[i].n
      <3>1. /\ i + 1 \in 1..N /\ i + 1 - 1 = i /\ i - 1 + 1 = i /\ i \in 0..N
            /\ i \in 0..(N - 1) /\ i - 1 \in 0..(N - 1)
        BY <1>1
      <3>2. F[i + 1] = F[i] + p[i + 1].n
        BY <1>4, <3>1
      <3>3. G[i] = F[i + 1] - v /\ G[i - 1] = F[i] - v /\ q[i] = p[i + 1]
        BY <1>1, <3>1
      <3>4. F[i] \in Int /\ p[i + 1].n \in Int
        <4>1. p[i + 1] \in Entries
          BY <3>1 DEF N
        <4>2. QED
          BY <4>1, <3>1, SMTT(30) DEF Entries
      <3> HIDE DEF G
      <3>5. QED
        BY <1>2, <3>2, <3>3, <3>4
    <2> HIDE DEF G
    <2>3. QED
      BY <1>1, <2>1, <2>2 DEF Sums
  <1>7. G[Len(q)] = F[N] - v
    <2>1. N - 1 \in 0..(N - 1) /\ N - 1 + 1 = N
      BY <1>1
    <2>2. QED
      BY <1>1, <2>1
  <1> HIDE DEF G
  <1>8. Total(q) = G[Len(q)]
    BY <1>1, <1>5, <1>6, TotalFacts
  <1>9. QED
    BY <1>1, <1>2, <1>4, <1>7, <1>8 DEF q, v

\* One of the entries counts one more.
LEMMA TotalRaised ==
    ASSUME NEW p \in Seq(Entries), NEW k \in DOMAIN p, NEW q \in Seq(Entries), Len(q) = Len(p),
           \A i \in DOMAIN p : q[i].n = IF i = k THEN p[i].n + 1 ELSE p[i].n
    PROVE  Total(q) = Total(p) + 1
  <1> DEFINE N == Len(p)
  <1>1. N \in Nat /\ DOMAIN p = 1..N /\ k \in 1..N
    OBVIOUS
  <1>2. \A i \in 1..N : p[i].n \in Int
    <2>1. \A i \in 1..N : p[i] \in Entries
      OBVIOUS
    <2>2. QED
      BY <2>1 DEF Entries
  <1>3. PICK F \in [0..N -> Int] : Sums(F, p)
    BY TotalFacts
  <1>4. /\ Total(p) = F[N] /\ F[N] \in Int /\ F[0] = 0
        /\ \A i \in 1..N : F[i] = F[i - 1] + p[i].n
    <2>1. Total(p) = F[N]
      BY <1>3, TotalFacts
    <2>2. F[0] = 0 /\ \A i \in 1..N : F[i] = F[i - 1] + p[i].n
      BY <1>3 DEF Sums
    <2>3. QED
      BY <1>1, <2>1, <2>2
  <1> HIDE DEF N
  <1> DEFINE G == [i \in 0..N |-> IF i < k THEN F[i] ELSE F[i] + 1]
  <1>5. G \in [0..Len(q) -> Int]
    BY <1>1 DEF N
  <1>6. Sums(G, q)
    <2>1. G[0] = 0
      BY <1>1, <1>4
    <2>2. ASSUME NEW i \in 1..N PROVE G[i] = G[i - 1] + q[i].n
      <3>1. F[i] = F[i - 1] + p[i].n /\ i \in 0..N /\ i - 1 \in 0..N /\ F[i] \in Int /\ F[i - 1] \in Int
        BY <1>1, <1>4
      <3>2. G[i] = (IF i < k THEN F[i] ELSE F[i] + 1) /\ G[i - 1] = IF i - 1 < k THEN F[i - 1] ELSE F[i - 1] + 1
        BY <3>1
      <3>3. q[i].n = IF i = k THEN p[i].n + 1 ELSE p[i].n
        BY <1>1
      <3>4. p[i].n \in Int
        BY <1>2
      <3> HIDE DEF G
      <3>5. CASE i < k
        BY <1>1, <3>1, <3>2, <3>3, <3>5
      <3>6. CASE i = k
        BY <1>1, <3>1, <3>2, <3>3, <3>4, <3>6
      <3>7. CASE i > k
        <4>1. ~(i - 1 < k) /\ ~(i < k) /\ i # k
          BY <1>1, <3>7
        <4>2. QED
          BY <4>1, <3>1, <3>2, <3>3, <3>4
      <3>8. QED
        BY <1>1, <3>5, <3>6, <3>7
    <2> HIDE DEF G
    <2>3. QED
      BY <2>1, <2>2 DEF Sums, N
  <1>7. G[Len(q)] = F[N] + 1
    BY <1>1 DEF N
  <1> HIDE DEF G
  <1>8. Total(q) = G[Len(q)]
    BY <1>5, <1>6, TotalFacts
  <1>9. QED
    BY <1>4, <1>7, <1>8


\* The last message's entry, while the ring holds it, counts what the binding remembers of it: a
\* fold writes the remembered count back, so it would lose messages otherwise.
CountInv ==
    /\ last.seq \in Nat /\ last.n \in Nat
    /\ last.n > 0 => \A i \in DOMAIN ring : ring[i].seq = last.seq => ring[i].n = last.n
    /\ pushed \in Nat /\ dropped \in Nat
    /\ FoldsCounted

\* A fold finds the entry it counts in, and adds one to what the entry counted.
LEMMA FoldCounts ==
    ASSUME RingInv, CountInv, NEW msg \in Messages, Fold(msg), pushed' = pushed + 1
    PROVE  CountInv'
  <1>1. /\ LastAt \in DOMAIN ring /\ ring[LastAt].seq = last.seq
        /\ last.n > 0 /\ UNCHANGED dropped
    BY DEF Fold, LastAt
  <1> DEFINE e == [ring[LastAt] EXCEPT !.n = last.n + 1]
             k == LastAt
  <1>2. ring[k] \in Entries /\ ring[k].n = last.n /\ last.n + 1 \in Nat
    BY <1>1 DEF RingInv, CountInv
  <1>3. ring' = [ring EXCEPT ![k] = e]
    BY DEF Fold
  <1>4. e \in Entries /\ e.seq = ring[k].seq /\ e.n = last.n + 1
    BY <1>2 DEF Entries
  <1>5. last'.n = last.n + 1 /\ last'.seq = last.seq
    <2>1. last' = [last EXCEPT !.n = @ + 1]
      BY DEF Fold
    <2>2. QED
      BY <2>1
  <1> HIDE DEF e, k
  <1>6. /\ ring' \in Seq(Entries) /\ Len(ring') = Len(ring) /\ DOMAIN ring' = DOMAIN ring
        /\ ring'[k] = e /\ \A i \in DOMAIN ring \ {k} : ring'[i] = ring[i]
    BY <1>1, <1>3, <1>4 DEF RingInv, k
  <1>7. Total(ring') = Total(ring) + 1
    <2>1. \A i \in DOMAIN ring : ring'[i].n = IF i = k THEN ring[i].n + 1 ELSE ring[i].n
      BY <1>2, <1>4, <1>6
    <2>2. k \in DOMAIN ring /\ ring \in Seq(Entries)
      BY <1>1 DEF k, RingInv
    <2>3. QED
      BY <1>6, <2>1, <2>2, TotalRaised
  <1>8. \A i \in DOMAIN ring' : ring'[i].seq = last'.seq => ring'[i].n = last'.n
    <2> SUFFICES ASSUME NEW i \in DOMAIN ring, ring'[i].seq = last.seq PROVE ring'[i].n = last.n + 1
      BY <1>5, <1>6
    <2>1. i = k
      <3>1. CASE i # k
        <4>1. ring[i].seq = ring[k].seq /\ k \in DOMAIN ring
          BY <1>1, <1>6, <3>1 DEF k
        <4>2. i \in Nat /\ k \in Nat /\ ring[k].seq \in Nat
          BY <1>2, <4>1, SMTT(30) DEF RingInv, Entries
        <4>3. i < k \/ k < i
          BY <3>1, <4>2
        <4>4. QED
          BY <4>1, <4>2, <4>3 DEF RingInv
      <3>2. QED
        BY <3>1
    <2>2. QED
      BY <1>4, <1>6, <2>1
  <1>9. Total(ring) \in Int
    BY TotalIsInt DEF RingInv
  <1>10. QED
    BY <1>1, <1>5, <1>7, <1>8, <1>9 DEF CountInv, FoldsCounted

\* A new entry counts one, and the one that makes room is counted as dropped.
LEMMA EnterCounts ==
    ASSUME RingInv, CountInv, NEW msg \in Messages, Enter(msg), pushed' = pushed + 1
    PROVE  CountInv'
  <1> DEFINE full == Len(ring) >= RingCap
             kept == IF full THEN Tail(ring) ELSE ring
             out == IF full THEN Head(ring).n ELSE 0
             e == [seq |-> nextSeq, msg |-> msg, n |-> 1]
  <1>1. /\ ring' = Append(kept, e)
        /\ last'.n = 1 /\ last'.seq = nextSeq
        /\ dropped' = dropped + out
    BY DEF Enter
  <1>2. e \in Entries /\ e.seq = nextSeq /\ e.n = 1 /\ nextSeq \in Nat
    BY DEF RingInv, Entries
  <1>3. ring \in Seq(Entries) /\ Len(ring) \in Nat /\ DOMAIN ring = 1..Len(ring)
    BY DEF RingInv
  <1>4. /\ kept \in Seq(Entries) /\ out \in Nat /\ Total(ring) = out + Total(kept)
        /\ \A i \in 1..Len(kept) : \E j \in DOMAIN ring : kept[i] = ring[j]
    <2>1. CASE full
      <3>1. ring # <<>> /\ Len(ring) > 0
        BY <1>3, <2>1, RingAssumption
      <3>2. /\ Tail(ring) \in Seq(Entries) /\ Len(Tail(ring)) = Len(ring) - 1
            /\ \A i \in 1..Len(Tail(ring)) : Tail(ring)[i] = ring[i + 1]
        BY <1>3, <3>1, HeadTailProperties
      <3>3. Head(ring).n \in Nat
        <4>1. Head(ring) \in Entries
          BY <1>3, <3>1, HeadTailProperties
        <4>2. QED
          BY <4>1 DEF Entries
      <3>4. Total(ring) = Head(ring).n + Total(Tail(ring))
        BY <1>3, <3>1, TotalTail
      <3>5. \A i \in 1..Len(Tail(ring)) : i + 1 \in DOMAIN ring
        BY <1>3, <3>2
      <3>6. QED
        BY <2>1, <3>2, <3>3, <3>4, <3>5
    <2>2. CASE ~full
      <3>1. kept = ring /\ out = 0
        BY <2>2
      <3>2. Total(ring) \in Int
        BY <1>3, TotalIsInt
      <3> HIDE DEF kept, out
      <3>3. \A i \in 1..Len(kept) : i \in DOMAIN ring /\ kept[i] = ring[i]
        BY <1>3, <3>1
      <3>4. QED
        BY <1>3, <3>1, <3>2, <3>3
    <2>3. QED
      BY <2>1, <2>2
  <1> HIDE DEF full, kept, out, e
  <1>5. Total(kept) \in Int /\ Total(ring') = Total(kept) + 1
    BY <1>1, <1>2, <1>4, TotalAppended
  <1>6. /\ DOMAIN ring' = 1..(Len(kept) + 1) /\ ring'[Len(kept) + 1] = e /\ Len(kept) \in Nat
        /\ \A i \in 1..Len(kept) : ring'[i] = kept[i]
    BY <1>1, <1>2, <1>4, AppendProperties
  <1>7. \A i \in DOMAIN ring' : ring'[i].seq = last'.seq => ring'[i].n = last'.n
    <2> SUFFICES ASSUME NEW i \in DOMAIN ring', ring'[i].seq = nextSeq PROVE ring'[i].n = 1
      BY <1>1
    <2>1. CASE i \in 1..Len(kept)
      <3>1. PICK j \in DOMAIN ring : ring'[i] = ring[j]
        BY <1>4, <1>6, <2>1
      <3>2. ring[j].seq < nextSeq
        BY DEF RingInv
      <3>3. QED
        BY <1>2, <2>1, <3>1, <3>2
    <2>2. CASE i = Len(kept) + 1
      BY <1>2, <1>6, <2>2
    <2>3. QED
      BY <1>6, <2>1, <2>2
  <1>8. pushed' = dropped' + Total(ring') /\ pushed' \in Nat /\ dropped' \in Nat
    BY <1>1, <1>4, <1>5 DEF CountInv, FoldsCounted
  <1>9. QED
    BY <1>1, <1>2, <1>7, <1>8 DEF CountInv, FoldsCounted

\* However messages repeat and the ring fills up, what was logged since the reset is counted by an
\* entry of the ring or by one that made room: no message is lost to a fold.
THEOREM FoldsLoseNothing == AndroidSpec => []LogsSound
  <1>1. AndroidInit => CountInv
    BY TotalEmpty DEF AndroidInit, LogInit, CountInv, FoldsCounted, NoLast
  <1>2. RingInv /\ CountInv /\ [AndroidNext]_androidVars => CountInv'
    <2> SUFFICES ASSUME RingInv, CountInv, [AndroidNext]_androidVars PROVE CountInv'
      OBVIOUS
    <2>1. CASE PushLogEntry
      BY <2>1, FoldCounts, EnterCounts DEF PushLogEntry
    <2>2. CASE ResetVpnLogs
      <3>1. ring' = <<>> /\ last'.n = 0 /\ last'.seq = 0 /\ pushed' = 0 /\ dropped' = 0
        BY <2>2 DEF ResetVpnLogs, NoLast
      <3>2. QED
        BY <3>1, TotalEmpty DEF CountInv, FoldsCounted
    <2>3. CASE UNCHANGED <<ring, last, pushed, dropped>>
      BY <2>3 DEF CountInv, FoldsCounted
    <2>4. VpnLogsSince \/ PollAnew \/ UNCHANGED logVars => UNCHANGED <<ring, last, pushed, dropped>>
      BY DEF VpnLogsSince, PollAnew, logVars
    <2>5. Engine => UNCHANGED logVars
      BY DEF Engine, EngineBecomes, NewEngine, EngineStart, EngineBinds, EngineStarted,
             EngineFails, EngineDies, EngineStop
    <2>6. QED
      BY <2>1, <2>2, <2>3, <2>4, <2>5 DEF AndroidNext, Vpn, Logs, LogNext, androidVars
  <1>3. RingInv /\ CountInv => LogsSound
    BY DEF CountInv, RingInv, CursorSound, LogsSound
  <1>4. QED
    BY <1>1, <1>2, <1>3, RingKept, PTL DEF AndroidSpec

=============================================================================
