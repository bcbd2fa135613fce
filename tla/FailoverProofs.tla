---------------------------- MODULE FailoverProofs ----------------------------
(* What the client believes of its nodes, for any number of nodes, concurrent *)
(* requests and any thresholds.                                               *)
EXTENDS Failover, FiniteSetTheorems, TLAPS

(* Nothing that is under way could put a steady node out of service.          *)
SteadyUnharmed ==
    \A n \in Steady :
        /\ answers[n]
        /\ status[n] = "online"
        /\ onFails[n] = 0
        /\ probe[n] # NoProbe => probe[n].seen = "online" /\ probe[n].res # "failed"
        /\ \A r \in Openings : opening[r].pc = "mark" => Node(r) # n

(* A node that was out of service when the round began stays out until its    *)
(* result is applied: only the prober brings a node back.                     *)
OutUntilApplied ==
    \A n \in Registered :
        /\ probe[n] # NoProbe /\ probe[n].seen # "online" => status[n] # "online"
        /\ status[n] = "online" => offFails[n] = 0

Inv == TypeOK /\ SteadyUnharmed /\ OutUntilApplied /\ ResetAtThreshold

USE NodesAssumption, AttemptsAssumption, FailuresAssumption, ThresholdAssumption

(* A request has between one and all of the nodes to try.                     *)
LEMMA FirstAttemptsType ==
    ASSUME NEW order \in ByPriority
    PROVE  FirstAttempts(order) \in Seq(Registered) /\ FirstAttempts(order) # <<>>
  <1>1. Cardinality(Registered) \in Nat \ {0}
    BY FS_CardinalityType, FS_EmptySet
  <1> DEFINE k == IF Len(order) < MaxNodeAttempts THEN Len(order) ELSE MaxNodeAttempts
  <1>2. order \in Seq(Registered) /\ Len(order) = Cardinality(Registered)
    BY <1>1 DEF ByPriority
  <1>3. k \in 1..Len(order)
    BY <1>1, <1>2
  <1>4. SubSeq(order, 1, k) \in Seq(Registered) /\ Len(SubSeq(order, 1, k)) = k
    BY <1>2, <1>3
  <1>5. QED
    BY <1>3, <1>4 DEF FirstAttempts

LEMMA NonEmpty ==
    ASSUME NEW S, NEW q \in Seq(S), q # <<>>
    PROVE  Tail(q) \in Seq(S) /\ (Len(q) # 1 => Tail(q) # <<>>)
  <1>1. Len(q) \in Nat \ {0} /\ Tail(q) \in Seq(S) /\ Len(Tail(q)) = Len(q) - 1
    OBVIOUS
  <1>2. Len(<<>>) = 0
    OBVIOUS
  <1>3. Len(q) # 1 => Len(Tail(q)) # 0
    BY <1>1
  <1>4. QED
    BY <1>1, <1>2, <1>3

(* Where a request goes when it leaves a node.                                *)
LEMMA NextNodeType ==
    ASSUME TypeOK, NEW r \in Openings, opening[r].pc # "idle", NextNode(r)
    PROVE  /\ opening' \in [Openings -> [pc : {"idle", "try", "clear", "mark"}, left : Seq(Registered)]]
           /\ \A q \in Openings : q # r => opening'[q] = opening[q]
           /\ opening'[r].pc \in {"idle", "try"}
           /\ opening'[r].pc # "idle" => opening'[r].left # <<>>
  <1>1. opening[r].left \in Seq(Registered) /\ opening[r].left # <<>>
    BY DEF TypeOK
  <1> DEFINE x == IF Len(opening[r].left) = 1 THEN Idle ELSE [pc |-> "try", left |-> Tail(opening[r].left)]
  <1>2. opening' = [opening EXCEPT ![r] = x]
    BY DEF NextNode
  <1>3. /\ x \in [pc : {"idle", "try", "clear", "mark"}, left : Seq(Registered)]
        /\ x.pc \in {"idle", "try"} /\ (x.pc # "idle" => x.left # <<>>)
    <2>1. CASE Len(opening[r].left) = 1
      BY <2>1 DEF Idle
    <2>2. CASE Len(opening[r].left) # 1
      <3> DEFINE q == opening[r].left
      <3>1. Tail(q) \in Seq(Registered) /\ Tail(q) # <<>>
        BY <1>1, <2>2, NonEmpty
      <3>2. QED
        BY <2>2, <3>1
    <2>3. QED
      BY <2>1, <2>2
  <1>4. QED
    BY <1>2, <1>3 DEF TypeOK

LEMMA InitInv == Init => Inv
  BY DEF Init, Inv, TypeOK, SteadyUnharmed, OutUntilApplied, ResetAtThreshold, Idle, NoProbe,
         Probes, Statuses

(* The prober: a round starts, a probe ends, its result is applied.           *)
LEMMA ProbingInv == Inv /\ Probing => Inv'
  <1> SUFFICES ASSUME Inv, Probing PROVE Inv'
    OBVIOUS
  <1> USE DEF Inv
  <1>0. opening' = opening /\ unreach' = unreach /\ answers' = answers
    BY DEF Probing, StartRound, ProbeEnds, ApplyOnline, ApplyOffline
  <1>1. ResetAtThreshold'
    BY <1>0 DEF ResetAtThreshold
  <1>2. CASE StartRound
    <2>1. status' = status /\ onFails' = onFails /\ offFails' = offFails
          /\ probe' = [n \in Registered |-> [res |-> "running", seen |-> status[n]]]
      BY <1>2 DEF StartRound
    <2>2. TypeOK'
      BY <1>0, <2>1 DEF TypeOK, Probes
    <2>3. SteadyUnharmed' /\ OutUntilApplied'
      BY <1>0, <2>1 DEF SteadyUnharmed, OutUntilApplied, NoProbe, Node
    <2>4. QED
      BY <1>1, <2>2, <2>3
  <1>3. ASSUME NEW n \in Registered, ProbeEnds(n) PROVE Inv'
    <2>1. status' = status /\ onFails' = onFails /\ offFails' = offFails
          /\ probe' = [probe EXCEPT ![n].res = IF answers[n] THEN "reachable" ELSE "failed"]
      BY <1>3 DEF ProbeEnds
    <2>2. probe[n] \in [res : {"running", "reachable", "failed"}, seen : Statuses]
          /\ probe[n] # NoProbe
      BY <1>3 DEF ProbeEnds, TypeOK, Probes, NoProbe
    <2>3. /\ probe'[n].seen = probe[n].seen
          /\ probe'[n].res = IF answers[n] THEN "reachable" ELSE "failed"
          /\ probe'[n] \in Probes
          /\ \A m \in Registered : m # n => probe'[m] = probe[m]
          /\ probe' \in [Registered -> Probes]
      BY <2>1, <2>2 DEF TypeOK, Probes
    <2>4. TypeOK'
      BY <1>0, <2>1, <2>3 DEF TypeOK
    <2>5. SteadyUnharmed' /\ OutUntilApplied'
      BY <1>0, <2>1, <2>2, <2>3 DEF SteadyUnharmed, OutUntilApplied, Node
    <2>6. QED
      BY <1>1, <2>4, <2>5
  <1>4. ASSUME NEW n \in Registered, ApplyOnline(n) PROVE Inv'
    <2> DEFINE fails == IF probe[n].res = "reachable" THEN 0 ELSE onFails[n] + 1
    <2>1. /\ offFails' = offFails /\ probe' = [probe EXCEPT ![n] = NoProbe]
          /\ onFails' = [onFails EXCEPT ![n] = IF fails >= MaxFailures THEN 0 ELSE fails]
          /\ status' = IF fails >= MaxFailures THEN [status EXCEPT ![n] = "degraded"] ELSE status
          /\ probe[n].res \in {"reachable", "failed"}
      BY <1>4 DEF ApplyOnline
    <2>2. fails \in Nat /\ (fails < MaxFailures => fails \in 0..MaxFailures - 1)
      BY DEF TypeOK
    <2>3. TypeOK'
      BY <1>0, <2>1, <2>2 DEF TypeOK, Probes, Statuses
    <2>4. n \in Steady => fails = 0
      BY <2>1 DEF SteadyUnharmed, NoProbe
    <2>5. SteadyUnharmed'
      BY <1>0, <2>1, <2>2, <2>4 DEF SteadyUnharmed, TypeOK, Node
    <2>6. OutUntilApplied'
      BY <2>1, <2>2 DEF OutUntilApplied, TypeOK
    <2>7. QED
      BY <1>1, <2>3, <2>5, <2>6
  <1>5. ASSUME NEW n \in Registered, ApplyOffline(n) PROVE Inv'
    <2> DEFINE fails == IF offFails[n] < MaxFailures THEN offFails[n] + 1 ELSE offFails[n]
    <2>1. /\ onFails' = onFails /\ probe' = [probe EXCEPT ![n] = NoProbe]
          /\ probe[n].res \in {"reachable", "failed"} /\ probe[n].seen # "online"
      BY <1>5 DEF ApplyOffline
    <2>2. \/ /\ offFails' = [offFails EXCEPT ![n] = 0]
             /\ status' = [status EXCEPT ![n] = "online"]
          \/ /\ offFails' = [offFails EXCEPT ![n] = fails]
             /\ status' = status \/ status' = [status EXCEPT ![n] = "offline"]
      BY <1>5 DEF ApplyOffline
    <2>3. fails \in 0..MaxFailures
      BY DEF TypeOK
    <2>4. probe[n] # NoProbe /\ n \notin Steady
      BY <2>1 DEF SteadyUnharmed, NoProbe
    <2>5. status[n] # "online"
      BY <2>1, <2>4 DEF OutUntilApplied
    <2>6. TypeOK'
      <3>1. offFails' \in [Registered -> 0..MaxFailures]
        BY <2>2, <2>3 DEF TypeOK
      <3>2. status' \in [Registered -> Statuses]
        BY <2>2 DEF TypeOK, Statuses
      <3>3. probe' \in [Registered -> Probes]
        BY <2>1 DEF TypeOK, Probes
      <3>4. QED
        BY <1>0, <2>1, <3>1, <3>2, <3>3 DEF TypeOK
    <2>7. SteadyUnharmed'
      BY <1>0, <2>1, <2>2, <2>4 DEF SteadyUnharmed, TypeOK, Node
    <2>8. OutUntilApplied'
      BY <2>1, <2>2, <2>5 DEF OutUntilApplied, TypeOK
    <2>9. QED
      BY <1>1, <2>6, <2>7, <2>8
  <1>6. QED
    BY <1>2, <1>3, <1>4, <1>5 DEF Probing

(* The steps of a request.                                                    *)
LEMMA RequestingInv == Inv /\ Requesting => Inv'
  <1> SUFFICES ASSUME Inv, NEW r \in Openings,
                      \/ Open(r) \/ ProtocolFails(r) \/ Connected(r) \/ Unreachable(r)
                      \/ ClearUnreachable(r) \/ ConnectFails(r) \/ MarkOffline(r)
               PROVE  Inv'
    BY DEF Requesting
  <1> USE DEF Inv
  <1>0. answers' = answers /\ probe' = probe /\ onFails' = onFails /\ offFails' = offFails
    BY DEF Open, ProtocolFails, Connected, Unreachable, ClearUnreachable, ConnectFails,
           MarkOffline, prober
  <1> DEFINE ReqType ==
        /\ opening' \in [Openings -> [pc : {"idle", "try", "clear", "mark"}, left : Seq(Registered)]]
        /\ \A q \in Openings : q # r => opening'[q] = opening[q]
        /\ opening'[r].pc # "idle" => opening'[r].left # <<>>
  (* A step that leaves the status table alone needs only this.               *)
  <1>1. ASSUME status' = status, unreach' \in Nat, ReqType,
               opening'[r].pc = "mark" => Node(r)' \notin Steady,
               ResetAtThreshold'
        PROVE  Inv'
    <2>1. TypeOK'
      BY <1>0, <1>1 DEF TypeOK
    <2>2. SteadyUnharmed'
      BY <1>0, <1>1 DEF SteadyUnharmed, Node
    <2>3. OutUntilApplied'
      BY <1>0, <1>1 DEF OutUntilApplied
    <2>4. QED
      BY <1>1, <2>1, <2>2, <2>3
  (* So does one that leaves the count alone and enters or leaves no "clear". *)
  <1>2. ASSUME unreach' = unreach, ReqType, opening[r].pc # "clear"
        PROVE  ResetAtThreshold' /\ unreach' \in Nat
    BY <1>2 DEF ResetAtThreshold, TypeOK
  <1>3. CASE Open(r)
    <2>1. PICK order \in ByPriority :
             opening' = [opening EXCEPT ![r] = [pc |-> "try", left |-> FirstAttempts(order)]]
      BY <1>3 DEF Open
    <2>2. FirstAttempts(order) \in Seq(Registered) /\ FirstAttempts(order) # <<>>
      BY FirstAttemptsType
    <2>3. ReqType /\ opening'[r].pc = "try" /\ opening[r].pc # "clear"
      BY <1>3, <2>1, <2>2 DEF TypeOK, Open, Idle
    <2>4. QED
      BY <1>1, <1>2, <1>3, <2>3 DEF Open
  <1>4. CASE ProtocolFails(r)
    <2>1. ReqType /\ opening'[r].pc = "idle" /\ opening[r].pc # "clear"
      BY <1>4 DEF ProtocolFails, Trying, TypeOK, Idle
    <2>2. QED
      BY <1>1, <1>2, <1>4, <2>1 DEF ProtocolFails
  <1>5. CASE Connected(r)
    <2>1. ReqType /\ opening'[r].pc = "idle"
      BY <1>5 DEF Connected, TypeOK, Idle
    <2>2. unreach' = 0 /\ ResetAtThreshold'
      BY <1>5 DEF Connected, ResetAtThreshold
    <2>3. QED
      BY <1>1, <1>5, <2>1, <2>2 DEF Connected
  <1>6. CASE Unreachable(r)
    <2> DEFINE x == IF unreach' >= UnreachThreshold THEN [opening[r] EXCEPT !.pc = "clear"] ELSE Idle
    <2>1. unreach' = unreach + 1 /\ unreach' \in Nat /\ opening' = [opening EXCEPT ![r] = x]
          /\ opening[r].pc = "try" /\ status' = status
      BY <1>6 DEF Unreachable, Trying, TypeOK
    <2>2. /\ x \in [pc : {"idle", "try", "clear", "mark"}, left : Seq(Registered)]
          /\ x.pc = (IF unreach' >= UnreachThreshold THEN "clear" ELSE "idle")
          /\ x.pc # "idle" => x.left # <<>>
      <3>1. opening[r] \in [pc : {"idle", "try", "clear", "mark"}, left : Seq(Registered)]
            /\ opening[r].left # <<>>
        BY <2>1 DEF TypeOK
      <3>2. CASE unreach' >= UnreachThreshold
        <4>1. x = [opening[r] EXCEPT !.pc = "clear"]
          BY <3>2
        <4>2. x \in [pc : {"idle", "try", "clear", "mark"}, left : Seq(Registered)]
              /\ x.pc = "clear" /\ x.left = opening[r].left
          BY <3>1, <4>1
        <4>3. QED
          BY <3>1, <3>2, <4>2
      <3>3. CASE ~(unreach' >= UnreachThreshold)
        BY <3>3 DEF Idle
      <3>4. QED
        BY <3>2, <3>3
    <2>3. ReqType /\ opening'[r].pc = x.pc
      BY <2>1, <2>2 DEF TypeOK
    <2>4. ResetAtThreshold'
      BY <2>1, <2>2, <2>3 DEF ResetAtThreshold
    <2>5. QED
      BY <1>1, <2>1, <2>2, <2>3, <2>4
  <1>7. CASE ClearUnreachable(r)
    <2>1. ReqType /\ opening'[r].pc # "mark"
      BY <1>7, NextNodeType DEF ClearUnreachable
    <2>2. unreach' = 0 /\ ResetAtThreshold'
      BY <1>7 DEF ClearUnreachable, ResetAtThreshold
    <2>3. QED
      BY <1>1, <1>7, <2>1, <2>2 DEF ClearUnreachable
  <1>8. CASE ConnectFails(r)
    <2>1. opening' = [opening EXCEPT ![r].pc = "mark"] /\ opening[r].pc = "try" /\ ~answers[Node(r)]
      BY <1>8 DEF ConnectFails, Trying
    <2>2. ReqType /\ opening'[r].left = opening[r].left
      BY <2>1 DEF TypeOK
    <2>3. Node(r)' \notin Steady
      BY <2>1, <2>2 DEF SteadyUnharmed, Node
    <2>4. QED
      BY <1>1, <1>2, <1>8, <2>1, <2>2, <2>3 DEF ConnectFails
  <1>9. CASE MarkOffline(r)
    <2>1. /\ status' = [status EXCEPT ![Node(r)] = "offline"] /\ unreach' = unreach
          /\ opening[r].pc = "mark"
      BY <1>9 DEF MarkOffline
    <2>2. ReqType /\ opening'[r].pc # "mark"
      BY <1>9, NextNodeType DEF MarkOffline
    <2>3. Node(r) \notin Steady
      BY <2>1 DEF SteadyUnharmed
    <2>4. TypeOK'
      BY <1>0, <2>1, <2>2 DEF TypeOK, Statuses
    <2>5. SteadyUnharmed'
      <3>1. \A n \in Steady : status'[n] = status[n]
        BY <2>1, <2>3 DEF TypeOK
      <3>2. \A q \in Openings : opening'[q].pc = "mark" => opening'[q] = opening[q]
        BY <2>2
      <3>3. QED
        BY <1>0, <3>1, <3>2 DEF SteadyUnharmed, Node
    <2>6. OutUntilApplied'
      BY <1>0, <2>1 DEF OutUntilApplied, TypeOK
    <2>7. QED
      BY <1>2, <2>1, <2>2, <2>4, <2>5, <2>6
  <1>10. QED
    BY <1>3, <1>4, <1>5, <1>6, <1>7, <1>8, <1>9

LEMMA NextInv == Inv /\ [Next]_vars => Inv'
  <1> SUFFICES ASSUME Inv, [Next]_vars PROVE Inv'
    OBVIOUS
  <1> USE DEF Inv
  <1>1. CASE UnreachExpires
    BY <1>1 DEF UnreachExpires, prober, TypeOK, SteadyUnharmed, OutUntilApplied,
                ResetAtThreshold, Node
  <1>2. ASSUME NEW n \in Registered, Flips(n) PROVE Inv'
    BY <1>2 DEF Flips, prober, TypeOK, SteadyUnharmed, OutUntilApplied, ResetAtThreshold, Node
  <1>3. CASE UNCHANGED vars
    BY <1>3 DEF vars, prober, TypeOK, SteadyUnharmed, OutUntilApplied, ResetAtThreshold, Node
  <1>4. QED
    BY <1>1, <1>2, <1>3, ProbingInv, RequestingInv DEF Next

(* Inv holds in every reachable state.                                        *)
THEOREM Invariant == Spec => []Inv
  BY InitInv, NextInv, PTL DEF Spec

(* Type correctness: in particular online_failures stays below the limit and  *)
(* a request in flight always has a node to try.                              *)
THEOREM TypeCorrect == Spec => []TypeOK
  <1>1. Inv => TypeOK
    BY DEF Inv
  <1>2. QED
    BY <1>1, Invariant, PTL

(* Neither requests nor probes ever take a node out of service that has       *)
(* always answered.                                                           *)
THEOREM SteadyNodesStayOnline == Spec => []SteadyStaysOnline
  <1>1. Inv => SteadyStaysOnline
    BY DEF Inv, SteadyUnharmed, SteadyStaysOnline
  <1>2. QED
    BY <1>1, Invariant, PTL

(* The count of failed recovery probes never survives a recovery.             *)
THEOREM FailuresBelongToOutage == Spec => []FailuresOfThisOutage
  <1>1. Inv => FailuresOfThisOutage
    BY DEF Inv, OutUntilApplied, FailuresOfThisOutage
  <1>2. QED
    BY <1>1, Invariant, PTL

(* However many requests fail at once, the count of an unreachable target is  *)
(* below the threshold whenever no request is about to reset it.              *)
THEOREM CountResetAtThreshold == Spec => []ResetAtThreshold
  <1>1. Inv => ResetAtThreshold
    BY DEF Inv
  <1>2. QED
    BY <1>1, Invariant, PTL
=============================================================================
