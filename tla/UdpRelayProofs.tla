---------------------------- MODULE UdpRelayProofs ----------------------------
(* The UDP relay, with any number of flows, ids and targets.  The client      *)
(* keeps its session ids apart whatever node it talks to; the node keeps its  *)
(* table bounded whatever client it serves; and the node is a node as the     *)
(* client's specification has it, so what is proved of the client with any    *)
(* such node holds of the two together.                                       *)
EXTENDS UdpRelay, FiniteSetTheorems, TLAPS

WireAndChannelTypeOK == WireTypeOK /\ ChannelTypeOK

(* While ids are left, every id that was handed out lies below next_sid.      *)
IdsBelowNext ==
    nextSid # MaxSid =>
        /\ \A f \in Flows : sessions[f] < nextSid
        /\ \A frame \in asked : frame.sid < nextSid

(* Two flows hold different ids.                                              *)
IdsDistinct ==
    \A f, g \in Flows : sessions[f] # 0 /\ sessions[f] = sessions[g] => f = g

(* Every answer in flight was asked for, with the target of its flow.         *)
AnswersWereAsked ==
    /\ \A i \in 1..Len(down) : down[i].kind = "data" => down[i] \in asked
    /\ \A frame \in asked : frame.target = DstOf[frame.flow]

(* An id that was handed out once is used by one flow only.                   *)
OneFlowPerFreshId ==
    /\ \A a, b \in asked : a.sid = b.sid /\ a.sid \notin recycled => a.flow = b.flow
    /\ \A f \in Flows, a \in asked :
          sessions[f] = a.sid /\ a.sid \notin recycled => a.flow = f

ChannelInv ==
    /\ WireAndChannelTypeOK
    /\ IdsBelowNext
    /\ IdsDistinct
    /\ TablesAgree
    /\ AnswersWereAsked
    /\ OneFlowPerFreshId

USE MaxSidAssumption, DstOfAssumption, NoFlowAssumption

(* Facts about the first element, the rest and the extension of a sequence    *)
(* of frames that the read and write actions rest on.                         *)
LEMMA HeadTail ==
    ASSUME NEW S, NEW q \in Seq(S), q # <<>>
    PROVE  /\ Head(q) \in S /\ Head(q) = q[1] /\ Len(q) >= 1
           /\ Tail(q) \in Seq(S)
           /\ Len(Tail(q)) = Len(q) - 1
           /\ \A i \in 1..Len(Tail(q)) : Tail(q)[i] = q[i + 1]
  OBVIOUS

LEMMA Appended ==
    ASSUME NEW S, NEW q \in Seq(S), NEW x \in S
    PROVE  /\ Append(q, x) \in Seq(S)
           /\ Len(Append(q, x)) = Len(q) + 1
           /\ \A i \in 1..Len(q) : Append(q, x)[i] = q[i]
           /\ Append(q, x)[Len(q) + 1] = x
  OBVIOUS

LEMMA FrameTypes ==
    /\ \A s \in Sids, t \in Targets, f \in Flows : DataFrame(s, t, f) \in DataFrames
    /\ \A s \in Sids : CloseFrame(s) \in Frames
    /\ DataFrames \subseteq Frames
    /\ \A frame \in Frames : frame.kind = "data" => frame \in DataFrames
    /\ \A frame \in Frames : frame.sid \in Sids
  BY DEF DataFrame, CloseFrame, DataFrames, Frames

LEMMA InitChannelInv == ClientAndWireInit => ChannelInv
  BY DEF ClientAndWireInit, WireInit, ChannelInit, ChannelInv, WireAndChannelTypeOK, WireTypeOK, ChannelTypeOK,
         IdsBelowNext, IdsDistinct, TablesAgree, Mapped, AnswersWereAsked, OneFlowPerFreshId,
         Unmapped, NoFlows, Sids

(* What a send leaves on the wire and in the flow table.                      *)
LEMMA WrittenFrames ==
    ASSUME ChannelInv, NEW f \in Flows, NEW s \in Sids, NEW closes \in Seq(Frames),
           Written(f, s, closes)
    PROVE  /\ up' \in Seq(Frames)
           /\ asked' = asked \cup {DataFrame(s, DstOf[f], f)}
           /\ asked' \subseteq DataFrames
           /\ bySid' = [bySid EXCEPT ![s] = f]
           /\ bySid' \in [Sids -> Flows \cup {NoFlow}]
           /\ rd' \in {"idle", "half", "desync"}
           /\ phase' = phase /\ down' = down
           /\ DstOf[f] \in Targets
  <1>1. DataFrame(s, DstOf[f], f) \in DataFrames /\ DstOf[f] \in Targets
    BY FrameTypes
  <1>2. up \in Seq(Frames) /\ asked \subseteq DataFrames /\ rd \in {"idle", "half", "desync"}
        /\ bySid \in [Sids -> Flows \cup {NoFlow}]
    BY DEF ChannelInv, WireAndChannelTypeOK, WireTypeOK, ChannelTypeOK
  <1>3. <<DataFrame(s, DstOf[f], f)>> \in Seq(Frames)
    BY <1>1, FrameTypes
  <1>4. up' \in Seq(Frames)
    <2>1. up' = up \o closes \o <<DataFrame(s, DstOf[f], f)>>
      BY DEF Written
    <2>2. up \o closes \in Seq(Frames)
      BY <1>2
    <2>3. QED
      BY <2>1, <2>2, <1>3
  <1>5. QED
    BY <1>1, <1>2, <1>4 DEF Written, CancelRead

(* SendMapped: a mapped flow keeps its id.                                    *)
LEMMA SendMappedInv ==
    ASSUME ChannelInv, NEW f \in Flows, SendMapped(f)
    PROVE  ChannelInv'
  <1> USE DEF ChannelInv
  <1>t. WireTypeOK /\ ChannelTypeOK
    BY DEF WireAndChannelTypeOK
  <1> DEFINE s == sessions[f]
             x == DataFrame(s, DstOf[f], f)
  <1>1. s \in Sids
    BY <1>t DEF SendMapped, ChannelTypeOK, Sids
  <1>2. <<>> \in Seq(Frames)
    OBVIOUS
  <1>3. Written(f, s, <<>>)
    BY DEF SendMapped
  <1>4. /\ up' \in Seq(Frames) /\ asked' = asked \cup {x} /\ asked' \subseteq DataFrames
        /\ bySid' = [bySid EXCEPT ![s] = f] /\ bySid' \in [Sids -> Flows \cup {NoFlow}]
        /\ rd' \in {"idle", "half", "desync"} /\ phase' = phase /\ down' = down
        /\ DstOf[f] \in Targets
    BY <1>1, <1>2, <1>3, WrittenFrames
  <1>5. sessions' = sessions /\ nextSid' = nextSid /\ recycled' = recycled
        /\ lru' \subseteq Flows \X Flows
    BY <1>t DEF SendMapped, MarkUsed, Forget, Mapped, ChannelTypeOK
  <1>6. x.sid = s /\ x.flow = f /\ x.target = DstOf[f]
    BY DEF DataFrame
  <1>7. WireAndChannelTypeOK'
    BY <1>t, <1>4, <1>5 DEF WireAndChannelTypeOK, WireTypeOK, ChannelTypeOK
  <1>8. IdsBelowNext' /\ IdsDistinct'
    BY <1>t, <1>4, <1>5, <1>6 DEF IdsBelowNext, IdsDistinct, ChannelTypeOK
  <1>9. TablesAgree'
    BY <1>t, <1>1, <1>4, <1>5 DEF TablesAgree, Mapped, ChannelTypeOK, IdsDistinct
  <1>10. AnswersWereAsked'
    BY <1>4, <1>6 DEF AnswersWereAsked
  <1>11. OneFlowPerFreshId'
    <2>1. s # 0
      BY DEF SendMapped
    <2>2. \A g \in Flows : sessions[g] = s => g = f
      BY <2>1 DEF IdsDistinct
    <2>3. \A a \in asked : a.sid = s /\ s \notin recycled => a.flow = f
      BY DEF OneFlowPerFreshId
    <2>4. QED
      BY <1>4, <1>5, <1>6, <2>2, <2>3 DEF OneFlowPerFreshId
  <1>12. QED
    BY <1>7, <1>8, <1>9, <1>10, <1>11

(* SendAllocate: next_sid is held by no flow, and while ids are left it was   *)
(* never used before.                                                         *)
LEMMA SendAllocateInv ==
    ASSUME ChannelInv, NEW f \in Flows, SendAllocate(f)
    PROVE  ChannelInv'
  <1> USE DEF ChannelInv
  <1>t. WireTypeOK /\ ChannelTypeOK
    BY DEF WireAndChannelTypeOK
  <1> DEFINE s == nextSid
             x == DataFrame(s, DstOf[f], f)
  <1>1. s \in Sids /\ s # 0 /\ s \in Nat
    BY <1>t DEF ChannelTypeOK, Sids
  <1>2. <<>> \in Seq(Frames)
    OBVIOUS
  <1>3. Written(f, s, <<>>)
    BY DEF SendAllocate
  <1>4. /\ up' \in Seq(Frames) /\ asked' = asked \cup {x} /\ asked' \subseteq DataFrames
        /\ bySid' = [bySid EXCEPT ![s] = f] /\ bySid' \in [Sids -> Flows \cup {NoFlow}]
        /\ rd' \in {"idle", "half", "desync"} /\ phase' = phase /\ down' = down
        /\ DstOf[f] \in Targets
    BY <1>1, <1>2, <1>3, WrittenFrames
  <1>5. /\ sessions' = [sessions EXCEPT ![f] = s]
        /\ nextSid' = IF s # MaxSid THEN s + 1 ELSE s
        /\ recycled' = IF s # MaxSid THEN recycled ELSE recycled \cup {MaxSid}
        /\ lru' \subseteq Flows \X Flows
        /\ s # MaxSid \/ Mapped = {}
    BY <1>t DEF SendAllocate, MayAllocate, MarkUsed, Forget, Mapped, ChannelTypeOK
  <1>6. x.sid = s /\ x.flow = f /\ x.target = DstOf[f]
    BY DEF DataFrame
  <1>7. sessions' \in [Flows -> 0..MaxSid] /\ nextSid' \in Sids /\ recycled' \subseteq Sids
    BY <1>t, <1>1, <1>5 DEF ChannelTypeOK, Sids
  <1>8. \A g \in Flows : sessions[g] # s
    BY <1>t, <1>1, <1>5 DEF IdsBelowNext, Mapped, ChannelTypeOK
  <1>9. WireAndChannelTypeOK'
    BY <1>t, <1>4, <1>5, <1>7 DEF WireAndChannelTypeOK, WireTypeOK, ChannelTypeOK
  <1>10. IdsBelowNext'
    <2>1. s # MaxSid => /\ \A g \in Flows : sessions'[g] < nextSid'
                        /\ \A a \in asked : a.sid < nextSid'
      BY <1>t, <1>1, <1>4, <1>5, <1>6, FrameTypes DEF IdsBelowNext, ChannelTypeOK, WireTypeOK, Sids
    <2>2. QED
      BY <1>1, <1>4, <1>5, <1>6, <2>1 DEF IdsBelowNext
  <1>11. IdsDistinct'
    BY <1>t, <1>1, <1>5, <1>8 DEF IdsDistinct, ChannelTypeOK
  <1>12. TablesAgree'
    BY <1>t, <1>1, <1>4, <1>5, <1>8 DEF TablesAgree, Mapped, ChannelTypeOK, Sids
  <1>13. AnswersWereAsked'
    BY <1>4, <1>6 DEF AnswersWereAsked
  <1>14. OneFlowPerFreshId'
    <2>1. s \notin recycled' => \A a \in asked : a.sid # s
      BY <1>1, <1>5, <1>t, FrameTypes DEF IdsBelowNext, WireTypeOK, Sids
    <2>2. recycled \subseteq recycled'
      BY <1>5
    <2>3. \A a, b \in asked' : a.sid = b.sid /\ a.sid \notin recycled' => a.flow = b.flow
      BY <1>4, <1>6, <2>1, <2>2 DEF OneFlowPerFreshId
    <2>4. \A g \in Flows, a \in asked' :
             sessions'[g] = a.sid /\ a.sid \notin recycled' => a.flow = g
      BY <1>t, <1>4, <1>5, <1>6, <1>8, <2>1, <2>2 DEF OneFlowPerFreshId, ChannelTypeOK
    <2>5. QED
      BY <2>3, <2>4 DEF OneFlowPerFreshId
  <1>15. QED
    BY <1>9, <1>10, <1>11, <1>12, <1>13, <1>14

(* SendEvict: the id moves from one flow to another and counts as recycled.   *)
LEMMA SendEvictInv ==
    ASSUME ChannelInv, NEW f \in Flows, NEW v \in Flows, SendEvict(f, v)
    PROVE  ChannelInv'
  <1> USE DEF ChannelInv
  <1>t. WireTypeOK /\ ChannelTypeOK
    BY DEF WireAndChannelTypeOK
  <1> DEFINE s == sessions[v]
             x == DataFrame(s, DstOf[f], f)
  <1>1. s \in Sids /\ s # 0 /\ f # v /\ sessions[f] = 0
    BY <1>t DEF SendEvict, Oldest, Mapped, ChannelTypeOK, Sids
  <1>2. <<CloseFrame(s)>> \in Seq(Frames)
    BY <1>1, FrameTypes
  <1>3. Written(f, s, <<CloseFrame(s)>>)
    BY DEF SendEvict
  <1>4. /\ up' \in Seq(Frames) /\ asked' = asked \cup {x} /\ asked' \subseteq DataFrames
        /\ bySid' = [bySid EXCEPT ![s] = f] /\ bySid' \in [Sids -> Flows \cup {NoFlow}]
        /\ rd' \in {"idle", "half", "desync"} /\ phase' = phase /\ down' = down
        /\ DstOf[f] \in Targets
    BY <1>1, <1>2, <1>3, WrittenFrames
  <1>5. /\ sessions' = [sessions EXCEPT ![v] = 0, ![f] = s]
        /\ nextSid' = nextSid /\ recycled' = recycled \cup {s}
        /\ lru' \subseteq Flows \X Flows
    BY <1>t DEF SendEvict, MarkUsed, Forget, Mapped, ChannelTypeOK
  <1>6. x.sid = s /\ x.flow = f /\ x.target = DstOf[f]
    BY DEF DataFrame
  <1>7. /\ sessions' \in [Flows -> 0..MaxSid] /\ recycled' \subseteq Sids
        /\ sessions'[f] = s /\ sessions'[v] = 0
        /\ \A g \in Flows \ {f, v} : sessions'[g] = sessions[g]
    BY <1>t, <1>1, <1>5 DEF ChannelTypeOK, Sids
  <1>8. \A g \in Flows : sessions[g] = s => g = v
    BY <1>1 DEF IdsDistinct
  <1>9. WireAndChannelTypeOK'
    BY <1>t, <1>4, <1>5, <1>7 DEF WireAndChannelTypeOK, WireTypeOK, ChannelTypeOK
  <1>10. IdsBelowNext'
    BY <1>1, <1>4, <1>5, <1>6, <1>7 DEF IdsBelowNext, Sids
  <1>11. IdsDistinct'
    BY <1>1, <1>7, <1>8 DEF IdsDistinct
  <1>12. TablesAgree'
    <2> SUFFICES ASSUME NEW g \in Flows, sessions'[g] # 0
                 PROVE  bySid'[sessions'[g]] \in {g, NoFlow}
      BY DEF TablesAgree, Mapped
    <2>1. CASE g = f
      BY <2>1, <1>t, <1>1, <1>4, <1>7 DEF ChannelTypeOK
    <2>2. CASE g # f
      <3>1. g # v /\ sessions'[g] = sessions[g]
        BY <2>2, <1>7
      <3>2. sessions[g] # s /\ sessions[g] \in Sids
        BY <3>1, <1>8, <1>t DEF ChannelTypeOK, Sids
      <3>3. bySid'[sessions[g]] = bySid[sessions[g]]
        BY <3>2, <1>t, <1>4 DEF ChannelTypeOK
      <3>4. bySid[sessions[g]] \in {g, NoFlow}
        BY <3>1 DEF TablesAgree, Mapped
      <3>5. QED
        BY <3>1, <3>3, <3>4
    <2>3. QED
      BY <2>1, <2>2
  <1>13. AnswersWereAsked'
    BY <1>4, <1>6 DEF AnswersWereAsked
  <1>14. OneFlowPerFreshId'
    <2>1. \A a, b \in asked' : a.sid = b.sid /\ a.sid \notin recycled' => a.flow = b.flow
      BY <1>4, <1>5, <1>6 DEF OneFlowPerFreshId
    <2>2. \A g \in Flows, a \in asked' :
             sessions'[g] = a.sid /\ a.sid \notin recycled' => a.flow = g
      <3>1. \A a \in asked' : a.sid # 0
        BY <1>4, FrameTypes DEF Sids
      <3>2. QED
        BY <1>1, <1>4, <1>5, <1>6, <1>7, <3>1 DEF OneFlowPerFreshId
    <2>3. QED
      BY <2>1, <2>2 DEF OneFlowPerFreshId
  <1>15. QED
    BY <1>9, <1>10, <1>11, <1>12, <1>13, <1>14

(* What the client does with a frame, whatever the frame: the ids it holds    *)
(* are kept or given up.                                                      *)
LEMMA TakenFrame ==
    ASSUME ChannelInv, NEW frame \in Frames, TakeDatagram(frame) \/ TakeClosed(frame)
    PROVE  /\ lru' \subseteq Flows \X Flows
           /\ sessions' \in [Flows -> 0..MaxSid] /\ bySid' \in [Sids -> Flows \cup {NoFlow}]
           /\ \A f \in Flows : sessions'[f] \in {sessions[f], 0}
           /\ \A f \in Flows : sessions'[f] # 0 => bySid'[sessions'[f]] \in {f, NoFlow}
  <1> USE DEF ChannelInv
  <1>t. WireTypeOK /\ ChannelTypeOK
    BY DEF WireAndChannelTypeOK
  <1>0. \A f \in Flows : sessions[f] # 0 => bySid[sessions[f]] \in {f, NoFlow}
    BY DEF TablesAgree, Mapped
  <1>1. CASE TakeDatagram(frame)
    <2>1. sessions' = sessions /\ bySid' = bySid
      BY <1>1 DEF TakeDatagram
    <2>2. lru' \subseteq Flows \X Flows
      <3>1. \A f \in Flows : MarkUsed(lru, f) \subseteq Flows \X Flows
        BY <1>t DEF MarkUsed, Forget, Mapped, ChannelTypeOK
      <3>2. CASE Accepted(frame)
        <4> DEFINE f == CHOOSE f \in HoldersOf(frame.sid) : TRUE
        <4>1. lru' = MarkUsed(lru, f)
          BY <3>2, <1>1 DEF TakeDatagram
        <4>2. f \in Flows
          BY <3>2 DEF Accepted, HoldersOf
        <4>3. QED
          BY <3>1, <4>1, <4>2
      <3>3. CASE ~Accepted(frame)
        BY <3>3, <1>1, <1>t DEF TakeDatagram, ChannelTypeOK
      <3>4. QED
        BY <3>2, <3>3
    <2>3. QED
      BY <1>t, <1>0, <2>1, <2>2 DEF ChannelTypeOK
  <1>2. CASE TakeClosed(frame)
    <2> DEFINE s == frame.sid
    <2>1. s \in Sids
      BY FrameTypes
    <2>2. /\ sessions' = [f \in Flows |-> IF sessions[f] = s THEN 0 ELSE sessions[f]]
          /\ bySid' = [bySid EXCEPT ![s] = NoFlow]
          /\ lru' \subseteq Flows \X Flows
      BY <1>2, <1>t DEF TakeClosed, ChannelTypeOK
    <2>3. sessions' \in [Flows -> 0..MaxSid] /\ bySid' \in [Sids -> Flows \cup {NoFlow}]
      BY <1>t, <2>1, <2>2 DEF ChannelTypeOK
    <2>4. \A f \in Flows : sessions'[f] # 0 => bySid'[sessions'[f]] \in {f, NoFlow}
      BY <1>t, <1>0, <2>1, <2>2 DEF ChannelTypeOK, Sids
    <2>5. QED
      BY <2>2, <2>3, <2>4
  <1>3. QED
    BY <1>1, <1>2

(* The steps that take a frame, or what passes for one, off the downstream    *)
(* wire.                                                                      *)
LEMMA ReadInv ==
    ASSUME ChannelInv, ReadPayload \/ \E frame \in Frames : ReadGarbage(frame)
    PROVE  ChannelInv'
  <1> USE DEF ChannelInv
  <1>t. WireTypeOK /\ ChannelTypeOK
    BY DEF WireAndChannelTypeOK
  <1>1. /\ Head(down) \in Frames
        /\ Tail(down) \in Seq(Frames) /\ Len(down) \in Nat
        /\ Len(Tail(down)) = Len(down) - 1
        /\ \A i \in 1..Len(Tail(down)) : Tail(down)[i] = down[i + 1]
    <2>1. down # <<>> /\ down \in Seq(Frames)
      BY <1>t DEF ReadPayload, ReadGarbage, WireTypeOK
    <2>2. QED
      BY <2>1, HeadTail
  <1>2. PICK frame \in Frames : TakeDatagram(frame) \/ TakeClosed(frame)
    BY <1>1 DEF ReadPayload, ReadGarbage
  <1>3. /\ down' \in {down, Tail(down)} /\ up' = up /\ asked' = asked /\ phase' = phase
        /\ nextSid' = nextSid /\ recycled' = recycled /\ rd' \in {rd, "idle"}
    BY DEF ReadPayload, ReadGarbage
  <1>4. AnswersWereAsked'
    BY <1>1, <1>3 DEF AnswersWereAsked
  <1>5. /\ lru' \subseteq Flows \X Flows
        /\ sessions' \in [Flows -> 0..MaxSid] /\ bySid' \in [Sids -> Flows \cup {NoFlow}]
        /\ \A f \in Flows : sessions'[f] \in {sessions[f], 0}
        /\ \A f \in Flows : sessions'[f] # 0 => bySid'[sessions'[f]] \in {f, NoFlow}
    BY <1>2, TakenFrame
  <1>6. WireAndChannelTypeOK'
    BY <1>t, <1>1, <1>3, <1>5 DEF WireAndChannelTypeOK, WireTypeOK, ChannelTypeOK
  <1>7. IdsBelowNext'
    <2>1. nextSid \in Sids /\ 0 < nextSid
      BY <1>t DEF ChannelTypeOK, Sids
    <2>2. QED
      BY <1>3, <1>5, <2>1 DEF IdsBelowNext
  <1>8. IdsDistinct'
    BY <1>5 DEF IdsDistinct
  <1>9. TablesAgree'
    BY <1>5 DEF TablesAgree, Mapped
  <1>10. OneFlowPerFreshId'
    <2>1. \A a \in asked : a.sid # 0
      BY <1>t, FrameTypes DEF WireTypeOK, Sids
    <2>2. QED
      BY <1>3, <1>5, <2>1 DEF OneFlowPerFreshId
  <1>11. QED
    BY <1>4, <1>6, <1>7, <1>8, <1>9, <1>10

(* The steps of the node: they only move frames.                              *)
LEMMA NodeInv ==
    ASSUME ChannelInv, AnyNode
    PROVE  ChannelInv'
  <1> USE DEF ChannelInv
  <1>t. WireTypeOK /\ ChannelTypeOK
    BY DEF WireAndChannelTypeOK
  <1>1. /\ asked' = asked /\ channel' = channel
        /\ up' = up \/ (up # <<>> /\ up' = Tail(up))
        /\ \/ down' = down
           \/ \E frame \in asked : down' = Append(down, frame)
           \/ \E s \in Sids : down' = Append(down, CloseFrame(s))
    BY DEF AnyNode, NodeTakes, NodeReplies, NodeCloses, NodeAnswers
  <1>2. up' \in Seq(Frames)
    <2>1. up \in Seq(Frames)
      BY <1>t DEF WireTypeOK
    <2>2. ASSUME up # <<>> PROVE Tail(up) \in Seq(Frames)
      BY <2>1, <2>2, HeadTail
    <2>3. QED
      BY <1>1, <2>1, <2>2
  <1>3. down' \in Seq(Frames) /\ (\A i \in 1..Len(down') : down'[i].kind = "data" => down'[i] \in asked)
    <2>1. CASE down' = down
      BY <2>1, <1>t DEF WireTypeOK, AnswersWereAsked
    <2>2. ASSUME NEW frame \in Frames, down' = Append(down, frame),
                 frame.kind = "data" => frame \in asked
          PROVE  <1>3!1 /\ <1>3!2
      <3>1. down \in Seq(Frames) /\ Len(down) \in Nat
        BY <1>t DEF WireTypeOK
      <3>2. QED
        BY <2>2, <3>1, Appended DEF AnswersWereAsked
    <2>3. \A frame \in asked : frame \in Frames
      BY <1>t, FrameTypes DEF WireTypeOK
    <2>4. \A s \in Sids : CloseFrame(s) \in Frames /\ CloseFrame(s).kind # "data"
      BY FrameTypes DEF CloseFrame
    <2>5. QED
      BY <1>1, <2>1, <2>2, <2>3, <2>4
  <1>4. QED
    BY <1>t, <1>1, <1>2, <1>3
       DEF channel, WireAndChannelTypeOK, WireTypeOK, ChannelTypeOK, IdsBelowNext, IdsDistinct,
           TablesAgree, Mapped, AnswersWereAsked, OneFlowPerFreshId

(* The steps that leave ids and frames alone, and those that drop everything. *)
LEMMA QuietInv ==
    ASSUME ChannelInv,
           \/ Connect \/ ReadHeader \/ UNCHANGED channelVars
           \/ \E idle \in SUBSET {s \in Sids : bySid[s] # NoFlow} : Sweep(idle)
    PROVE  ChannelInv'
  <1> USE DEF ChannelInv
  <1>t. WireTypeOK /\ ChannelTypeOK
    BY DEF WireAndChannelTypeOK
  <1>1. /\ up' = up /\ down' = down /\ asked' = asked
        /\ sessions' = sessions /\ nextSid' = nextSid /\ lru' = lru /\ recycled' = recycled
    BY DEF Connect, ReadHeader, Sweep, channelVars, channel, wire
  <1>2. phase' \in {"down", "up"} /\ rd' \in {"idle", "half", "desync"}
    BY <1>t DEF Connect, ReadHeader, Sweep, CancelRead, channelVars, channel, ChannelTypeOK
  <1>3. /\ bySid' \in [Sids -> Flows \cup {NoFlow}]
        /\ \A s \in Sids : bySid'[s] \in {bySid[s], NoFlow}
    <2>1. CASE bySid' = bySid
      BY <2>1, <1>t DEF ChannelTypeOK
    <2>2. CASE \E idle \in SUBSET {s \in Sids : bySid[s] # NoFlow} : Sweep(idle)
      BY <2>2, <1>t DEF Sweep, ChannelTypeOK
    <2>3. QED
      BY <2>1, <2>2 DEF Connect, ReadHeader, channelVars, channel
  <1>4. TablesAgree'
    BY <1>t, <1>1, <1>3 DEF TablesAgree, Mapped, ChannelTypeOK, Sids
  <1>5. QED
    BY <1>t, <1>1, <1>2, <1>3, <1>4
       DEF WireAndChannelTypeOK, WireTypeOK, ChannelTypeOK, IdsBelowNext, IdsDistinct,
           AnswersWereAsked, OneFlowPerFreshId

LEMMA DisconnectInv == Disconnect => ChannelInv'
  BY DEF Disconnect, StreamBreaks, ChannelInv, WireAndChannelTypeOK, WireTypeOK, ChannelTypeOK,
         IdsBelowNext, IdsDistinct, TablesAgree, Mapped, AnswersWereAsked, OneFlowPerFreshId,
         Unmapped, NoFlows, Sids

LEMMA ChannelNextInv == ChannelInv /\ [ChannelNext]_channelVars => ChannelInv'
  BY SendMappedInv, SendAllocateInv, SendEvictInv, ReadInv, NodeInv, QuietInv, DisconnectInv
     DEF ChannelNext, ChannelStep

(* ChannelInv holds in every reachable state of the client.                   *)
THEOREM ChannelInvariant == ChannelSpec => []ChannelInv
  BY InitChannelInv, ChannelNextInv, PTL DEF ChannelSpec

(* Type correctness of the client's tables, for any number of flows and ids:  *)
(* in particular next_sid never leaves the range of a session id.             *)
THEOREM ChannelTypeCorrect == ChannelSpec => []ChannelTypeOK
  <1>1. ChannelInv => ChannelTypeOK
    BY DEF ChannelInv, WireAndChannelTypeOK
  <1>2. QED
    BY <1>1, ChannelInvariant, PTL

(* session_for never gives two flows the same id, however often the map fills *)
(* up and the ids run out.                                                    *)
THEOREM SessionIdsDistinct == ChannelSpec => []SidsDistinct
  <1>1. ASSUME ChannelInv PROVE SidsDistinct
    <2>1. \A f, g \in Mapped : sessions[f] = sessions[g] => f = g
      BY <1>1 DEF ChannelInv, IdsDistinct, Mapped
    <2>2. MayAllocate => \A f \in Mapped : sessions[f] # nextSid
      <3> SUFFICES ASSUME MayAllocate, NEW f \in Flows, sessions[f] # 0
                   PROVE  sessions[f] # nextSid
        BY DEF Mapped
      <3>1. nextSid # MaxSid
        BY DEF MayAllocate, Mapped
      <3>2. sessions[f] < nextSid
        BY <1>1, <3>1 DEF ChannelInv, IdsBelowNext
      <3>3. nextSid \in Nat /\ sessions[f] \in Nat
        BY <1>1 DEF ChannelInv, WireAndChannelTypeOK, ChannelTypeOK, Sids
      <3>4. QED
        BY <3>2, <3>3
    <2>3. QED
      BY <2>1, <2>2 DEF SidsDistinct
  <1>2. QED
    BY <1>1, ChannelInvariant, PTL

(* The flow table of udp_relay_task never routes the replies of a mapped id   *)
(* to another flow than the one the id is mapped to.                          *)
THEOREM FlowTablesAgree == ChannelSpec => []TablesAgree
  <1>1. ChannelInv => TablesAgree
    BY DEF ChannelInv
  <1>2. QED
    BY <1>1, ChannelInvariant, PTL

(* A late datagram can reach a foreign flow only over a recycled id and only  *)
(* when both flows have the same target, whatever node the client talks to.   *)
THEOREM MisdeliveryIsConfined == ChannelSpec => []MisdeliveryConfined
  <1>1. ASSUME ChannelInv PROVE MisdeliveryConfined
    <2> SUFFICES ASSUME rd = "half", down # <<>>, Head(down).kind = "data",
                        InjectedInto(Head(down)) # NoFlow
                 PROVE  /\ DstOf[Head(down).flow] = DstOf[InjectedInto(Head(down))]
                        /\ Head(down).flow # InjectedInto(Head(down))
                              => Head(down).sid \in recycled
      BY DEF MisdeliveryConfined
    <2> DEFINE frame == Head(down)
    <2>1. down \in Seq(Frames) /\ asked \subseteq DataFrames
      BY <1>1 DEF ChannelInv, WireAndChannelTypeOK, WireTypeOK
    <2>2. frame = down[1] /\ 1 \in 1..Len(down) /\ frame \in Frames
      BY <2>1, HeadTail
    <2>3. frame \in asked /\ frame.target = DstOf[frame.flow] /\ frame.sid \in Sids
      BY <1>1, <2>1, <2>2, FrameTypes DEF ChannelInv, AnswersWereAsked
    <2>4. PICK f \in Flows : sessions[f] = frame.sid /\ DstOf[f] = frame.target
      BY DEF InjectedInto, Accepted, HoldersOf
    <2>5. InjectedInto(frame) = bySid[frame.sid]
      BY DEF InjectedInto
    <2>6. f \in Mapped
      BY <2>3, <2>4 DEF Mapped, Sids
    <2>7. InjectedInto(frame) = f
      BY <1>1, <2>4, <2>5, <2>6 DEF ChannelInv, TablesAgree
    <2>8. frame.sid \notin recycled => frame.flow = f
      BY <1>1, <2>3, <2>4 DEF ChannelInv, OneFlowPerFreshId
    <2>9. QED
      BY <2>3, <2>4, <2>7, <2>8
  <1>2. QED
    BY <1>1, ChannelInvariant, PTL
-----------------------------------------------------------------------------
(* The node.  What its main loop holds is a frame it took off the stream, and *)
(* the frame it resolves, binds or delivers is a data frame.                  *)
Jobs == {Waiting}
            \cup [pc : {"resolve", "bind", "deliver"}, frame : DataFrames]
            \cup [pc : {"close"}, frame : Frames]

Tasks == [gen : Gens, sid : Sids, target : Targets, flow : Flows]

NodeTyped ==
    /\ up \in Seq(Frames)
    /\ table \in [Sids -> Sessions \cup {NoSession}]
    /\ live \subseteq Tasks
    /\ deadQ \in Seq([sid : Sids, gen : Gens])
    /\ reaped \subseteq Sids
    /\ job \in Jobs

NodeTableInv == NodeTyped /\ NodeTableBounded

LEMMA JobForms ==
    ASSUME job \in Jobs
    PROVE  /\ job.pc \in {"resolve", "bind", "deliver"} =>
                 job.frame \in DataFrames /\ job = [pc |-> job.pc, frame |-> job.frame]
           /\ job.pc = "close" => job.frame \in Frames
           /\ job.pc \notin {"resolve", "bind", "deliver", "close"} => job = Waiting
  BY DEF Jobs, Waiting

(* A table with fewer sessions occupies fewer ids, one more session one more. *)
LEMMA OccupiedLess ==
    ASSUME NEW a, NEW b, Occupied(b) \subseteq Occupied(a)
    PROVE  /\ IsFiniteSet(Occupied(a)) /\ IsFiniteSet(Occupied(b))
           /\ Cardinality(Occupied(a)) \in Nat /\ Cardinality(Occupied(b)) \in Nat
           /\ Cardinality(Occupied(b)) <= Cardinality(Occupied(a))
  <1>1. MaxSid \in Int /\ 1 \in Int
    OBVIOUS
  <1>2. IsFiniteSet(Sids)
    BY <1>1, FS_Interval DEF Sids
  <1>3. Occupied(a) \in SUBSET Sids /\ Occupied(b) \in SUBSET Occupied(a)
    BY DEF Occupied
  <1>4. IsFiniteSet(Occupied(a))
    BY <1>2, <1>3, FS_Subset
  <1>5. QED
    BY <1>3, <1>4, FS_Subset, FS_CardinalityType

LEMMA OccupiedMore ==
    ASSUME NEW a, NEW b, NEW s \in Sids, Occupied(b) \subseteq Occupied(a) \cup {s}, ~IsFull(a)
    PROVE  Cardinality(Occupied(b)) <= MaxNodeSessions
  <1>1. /\ IsFiniteSet(Occupied(a)) /\ Cardinality(Occupied(a)) \in Nat
        /\ Cardinality(Occupied(a)) < MaxNodeSessions
    BY OccupiedLess, MaxNodeAssumption DEF IsFull
  <1>2. /\ IsFiniteSet(Occupied(a) \cup {s})
        /\ Cardinality(Occupied(a) \cup {s}) <= Cardinality(Occupied(a)) + 1
    BY <1>1, FS_AddElement
  <1>3. Cardinality(Occupied(b)) <= Cardinality(Occupied(a) \cup {s}) /\ Cardinality(Occupied(b)) \in Nat
        /\ Cardinality(Occupied(a) \cup {s}) \in Nat
    BY <1>2, FS_Subset, FS_CardinalityType, OccupiedLess
  <1>4. QED
    BY <1>1, <1>2, <1>3, MaxNodeAssumption

(* The actions that neither touch the table nor add to it.                    *)
LEMMA TableShrinks ==
    ASSUME NodeTableInv, Occupied(table') \subseteq Occupied(table), NodeTyped'
    PROVE  NodeTableInv'
  <1>1. Cardinality(Occupied(table')) <= Cardinality(Occupied(table))
        /\ Cardinality(Occupied(table)) \in Nat /\ Cardinality(Occupied(table')) \in Nat
    BY OccupiedLess
  <1>2. NodeTableBounded'
    BY <1>1, MaxNodeAssumption DEF NodeTableInv, NodeTableBounded, Occupied
  <1>3. QED
    BY <1>2 DEF NodeTableInv

LEMMA RemovedLess ==
    ASSUME NEW tbl \in [Sids -> Sessions \cup {NoSession}], NEW s \in Sids
    PROVE  /\ Removed(tbl, s) \in [Sids -> Sessions \cup {NoSession}]
           /\ Occupied(Removed(tbl, s)) \subseteq Occupied(tbl)
  BY DEF Removed, Occupied

LEMMA TakenOff ==
    ASSUME NodeTyped, up # <<>>
    PROVE  /\ Head(up) \in Frames /\ Head(up).sid \in Sids /\ Tail(up) \in Seq(Frames)
           /\ Head(up).kind = "data" => Head(up) \in DataFrames
  <1>1. up \in Seq(Frames)
    BY DEF NodeTyped
  <1>2. QED
    BY <1>1, HeadTail, FrameTypes

LEMMA MainLoopInv ==
    ASSUME NodeTableInv, MainLoop
    PROVE  NodeTableInv'
  <1>t. NodeTyped
    BY DEF NodeTableInv
  <1>0. /\ up \in Seq(Frames) /\ table \in [Sids -> Sessions \cup {NoSession}] /\ live \subseteq Tasks
        /\ deadQ \in Seq([sid : Sids, gen : Gens]) /\ reaped \subseteq Sids /\ job \in Jobs
    BY <1>t DEF NodeTyped
  <1>j. \A f \in DataFrames : f \in Frames /\ f.sid \in Sids /\ f.target \in Targets /\ f.flow \in Flows
    BY DEF DataFrames, Frames
  <1>w. Waiting \in Jobs
    BY DEF Jobs
  <1>1. CASE TakeClose
    <2>1. /\ Tail(up) \in Seq(Frames) /\ Head(up).sid \in Sids /\ up' = Tail(up)
          /\ table' = Removed(table, Head(up).sid)
          /\ UNCHANGED <<live, deadQ, reaped, job>>
      BY <1>1, <1>t, TakenOff DEF TakeClose
    <2>2. table' \in [Sids -> Sessions \cup {NoSession}] /\ Occupied(table') \subseteq Occupied(table)
      BY <1>0, <2>1, RemovedLess
    <2>3. NodeTyped'
      BY <1>0, <2>1, <2>2 DEF NodeTyped
    <2>4. QED
      BY <2>2, <2>3, TableShrinks
  <1>2. CASE AnswerLocally
    <2>1. NodeTyped' /\ table' = table
      BY <1>2, <1>t, <1>0, TakenOff DEF AnswerLocally, node, NodeTyped
    <2>2. QED
      BY <2>1, TableShrinks
  <1>3. CASE TakeData
    <2>1. up # <<>> /\ Head(up).kind = "data" /\ up' = Tail(up)
          /\ UNCHANGED <<table, live, deadQ, reaped>>
      BY <1>3 DEF TakeData
    <2>2. Head(up) \in DataFrames /\ Tail(up) \in Seq(Frames)
      BY <1>t, <2>1, TakenOff
    <2>3. job' \in {[pc |-> "deliver", frame |-> Head(up)], [pc |-> "resolve", frame |-> Head(up)]}
      BY <1>3 DEF TakeData
    <2>4. job' \in Jobs
      BY <2>2, <2>3 DEF Jobs
    <2>5. NodeTyped'
      BY <1>0, <2>1, <2>2, <2>4 DEF NodeTyped
    <2>6. QED
      BY <2>1, <2>5, TableShrinks
  <1>4. CASE OverBudget \/ BindFails
    <2>1. NodeTyped' /\ table' = table
      BY <1>4, <1>0, <1>w DEF OverBudget, BindFails, wire, NodeTyped
    <2>2. QED
      BY <2>1, TableShrinks
  <1>5. CASE ResolveFails \/ Resolved
    <2>1. job.frame \in DataFrames /\ job.frame.sid \in Sids
      BY <1>5, <1>0, <1>j, JobForms DEF ResolveFails, Resolved
    <2>2. table' = Removed(table, job.frame.sid) /\ UNCHANGED <<up, live, deadQ, reaped>>
      BY <1>5 DEF ResolveFails, Resolved, wire
    <2>3. job' \in Jobs
      <3>1. CASE ResolveFails
        BY <3>1, <1>w DEF ResolveFails
      <3>2. CASE Resolved
        <4>1. job = [pc |-> job.pc, frame |-> job.frame]
          BY <3>2, <1>0, JobForms DEF Resolved
        <4>2. job' \in {[pc |-> "close", frame |-> job.frame], [pc |-> "bind", frame |-> job.frame]}
          BY <3>2, <4>1 DEF Resolved
        <4>3. QED
          BY <2>1, <4>2, <1>j DEF Jobs
      <3>3. QED
        BY <1>5, <3>1, <3>2
    <2>4. table' \in [Sids -> Sessions \cup {NoSession}] /\ Occupied(table') \subseteq Occupied(table)
      BY <1>0, <2>1, <2>2, RemovedLess
    <2>5. NodeTyped'
      BY <1>0, <2>2, <2>3, <2>4 DEF NodeTyped
    <2>6. QED
      BY <2>4, <2>5, TableShrinks
  <1>6. CASE Bound
    <2>1. job.frame \in DataFrames /\ job = [pc |-> job.pc, frame |-> job.frame]
      BY <1>6, <1>0, JobForms DEF Bound
    <2>2. UNCHANGED <<up, deadQ, reaped>>
      BY <1>6 DEF Bound, wire
    <2>3. CASE IsFull(table)
      <3>1. NodeTyped' /\ table' = table
        BY <1>6, <1>0, <1>w, <2>2, <2>3 DEF Bound, NodeTyped
      <3>2. QED
        BY <3>1, TableShrinks
    <2>4. CASE ~IsFull(table)
      <3> DEFINE s == job.frame.sid
      <3>1. PICK g \in Gens :
               /\ table' = [table EXCEPT ![s] =
                      [gen |-> g, target |-> job.frame.target, flow |-> job.frame.flow]]
               /\ live' = live \cup {[gen |-> g, sid |-> s,
                      target |-> job.frame.target, flow |-> job.frame.flow]}
               /\ job' = [job EXCEPT !.pc = "deliver"]
        BY <1>6, <2>4 DEF Bound
      <3>2. s \in Sids /\ job.frame.target \in Targets /\ job.frame.flow \in Flows
        BY <2>1, <1>j
      <3>3. table' \in [Sids -> Sessions \cup {NoSession}]
        BY <1>0, <3>1, <3>2 DEF Sessions
      <3>4. live' \subseteq Tasks
        BY <1>0, <3>1, <3>2 DEF Tasks
      <3>5. job' \in Jobs
        <4>1. job' = [pc |-> "deliver", frame |-> job.frame]
          BY <2>1, <3>1
        <4>2. QED
          BY <2>1, <4>1 DEF Jobs
      <3>6. Occupied(table') \subseteq Occupied(table) \cup {s}
        BY <1>0, <3>1 DEF Occupied
      <3>7. NodeTableBounded'
        <4>1. Cardinality(Occupied(table')) <= MaxNodeSessions
          BY <2>4, <3>2, <3>6, OccupiedMore
        <4>2. QED
          BY <4>1 DEF NodeTableBounded, Occupied
      <3>8. QED
        BY <1>0, <2>2, <3>3, <3>4, <3>5, <3>7 DEF NodeTableInv, NodeTyped
    <2>5. QED
      BY <2>3, <2>4
  <1>7. CASE Deliver
    <2>1. job.frame \in DataFrames /\ job = [pc |-> job.pc, frame |-> job.frame]
      BY <1>7, <1>0, JobForms DEF Deliver
    <2>2. job.frame.sid \in Sids /\ job.frame \in Frames
      BY <2>1, <1>j
    <2>3. \/ table' = table /\ job' = Waiting
          \/ table' = Removed(table, job.frame.sid) /\ job' = [pc |-> "close", frame |-> job.frame]
      <3>1. [job EXCEPT !.pc = "close"] = [pc |-> "close", frame |-> job.frame]
        BY <2>1
      <3>2. QED
        BY <1>7, <3>1 DEF Deliver
    <2>4. job' \in Jobs
      BY <2>2, <2>3 DEF Jobs
    <2>5. table' \in [Sids -> Sessions \cup {NoSession}] /\ Occupied(table') \subseteq Occupied(table)
      BY <1>0, <2>2, <2>3, RemovedLess
    <2>6. NodeTyped'
      BY <1>7, <1>0, <2>4, <2>5 DEF Deliver, wire, NodeTyped
    <2>7. QED
      BY <2>5, <2>6, TableShrinks
  <1>8. CASE WriteClose
    <2>1. NodeTyped' /\ table' = table
      BY <1>8, <1>0, <1>w DEF WriteClose, NodeTyped
    <2>2. QED
      BY <2>1, TableShrinks
  <1>9. CASE DeadSession
    <2> DEFINE s == Head(deadQ).sid
    <2>1. deadQ # <<>> /\ deadQ' = Tail(deadQ) /\ UNCHANGED <<up, live, reaped>>
      BY <1>9 DEF DeadSession, wire
    <2>2. Head(deadQ) \in [sid : Sids, gen : Gens] /\ Tail(deadQ) \in Seq([sid : Sids, gen : Gens])
      BY <1>0, <2>1, HeadTail
    <2>3. s \in Sids
      BY <2>2
    <2>4. \/ table' = table /\ job' = job
          \/ table' = Removed(table, s) /\ job' = [pc |-> "close", frame |-> CloseFrame(s)]
      BY <1>9 DEF DeadSession
    <2>5. job' \in Jobs
      BY <1>0, <2>3, <2>4, FrameTypes DEF Jobs
    <2>6. table' \in [Sids -> Sessions \cup {NoSession}] /\ Occupied(table') \subseteq Occupied(table)
      BY <1>0, <2>3, <2>4, RemovedLess
    <2>7. NodeTyped'
      BY <1>0, <2>1, <2>2, <2>5, <2>6 DEF NodeTyped
    <2>8. QED
      BY <2>6, <2>7, TableShrinks
  <1>10. QED
    BY <1>1, <1>2, <1>3, <1>4, <1>5, <1>6, <1>7, <1>8, <1>9 DEF MainLoop

(* The reaper and the session tasks only take sessions out of the table.      *)
LEMMA ReaperAndTasksInv ==
    ASSUME NodeTableInv, Reaper \/ SessionTasks
    PROVE  NodeTableInv'
  <1>t. NodeTyped
    BY DEF NodeTableInv
  <1>0. /\ up \in Seq(Frames) /\ table \in [Sids -> Sessions \cup {NoSession}] /\ live \subseteq Tasks
        /\ deadQ \in Seq([sid : Sids, gen : Gens]) /\ reaped \subseteq Sids /\ job \in Jobs
    BY <1>t DEF NodeTyped
  <1>1. ASSUME NEW e \in SUBSET Occupied(table), Reap(e)
        PROVE  NodeTableInv'
    <2>1. table' = [s \in Sids |-> IF s \in e THEN NoSession ELSE table[s]] /\ reaped' = e
          /\ UNCHANGED <<up, live, deadQ, job>>
      BY <1>1 DEF Reap, wire
    <2>2. table' \in [Sids -> Sessions \cup {NoSession}] /\ Occupied(table') \subseteq Occupied(table)
          /\ reaped' \subseteq Sids
      BY <1>0, <2>1 DEF Occupied
    <2>3. NodeTyped'
      BY <1>0, <2>1, <2>2 DEF NodeTyped
    <2>4. QED
      BY <2>2, <2>3, TableShrinks
  <1>2. ASSUME NEW s \in Sids, ReaperClose(s)
        PROVE  NodeTableInv'
    <2>1. NodeTyped' /\ table' = table
      BY <1>2, <1>0 DEF ReaperClose, NodeTyped
    <2>2. QED
      BY <2>1, TableShrinks
  <1>3. ASSUME NEW t \in live, TaskReply(t) \/ TaskFails(t) \/ TaskEnds(t)
        PROVE  NodeTableInv'
    <2>1. t.sid \in Sids /\ t.gen \in Gens
      BY <1>0 DEF Tasks
    <2>2. [sid |-> t.sid, gen |-> t.gen] \in [sid : Sids, gen : Gens]
      BY <2>1
    <2>3. Append(deadQ, [sid |-> t.sid, gen |-> t.gen]) \in Seq([sid : Sids, gen : Gens])
      BY <1>0, <2>2, Appended
    <2>4. /\ table' = table /\ up' = up /\ reaped' = reaped /\ job' = job
          /\ live' \subseteq live
          /\ deadQ' \in {deadQ, Append(deadQ, [sid |-> t.sid, gen |-> t.gen])}
      BY <1>3 DEF TaskReply, TaskFails, TaskEnds, node, wire
    <2>5. NodeTyped'
      BY <1>0, <2>3, <2>4 DEF NodeTyped
    <2>6. QED
      BY <2>4, <2>5, TableShrinks
  <1>4. QED
    BY <1>1, <1>2, <1>3 DEF Reaper, SessionTasks

LEMMA NodeTableNext == NodeTableInv /\ [NodeNext]_nodeVars => NodeTableInv'
  <1> SUFFICES ASSUME NodeTableInv, [NodeNext]_nodeVars PROVE NodeTableInv'
    OBVIOUS
  <1>1. CASE NodeStep
    BY <1>1, MainLoopInv, ReaperAndTasksInv DEF NodeStep
  <1>2. ASSUME NEW frame \in Frames, ClientSends(frame)
        PROVE  NodeTableInv'
    <2>1. Append(up, frame) \in Seq(Frames)
      BY Appended DEF NodeTableInv, NodeTyped
    <2>2. NodeTyped' /\ table' = table
      BY <1>2, <2>1 DEF ClientSends, node, NodeTableInv, NodeTyped
    <2>3. QED
      BY <2>2, TableShrinks
  <1>3. CASE ClientReads \/ UNCHANGED nodeVars
    <2>1. NodeTyped' /\ table' = table
      BY <1>3 DEF ClientReads, nodeVars, node, wire, NodeTableInv, NodeTyped
    <2>2. QED
      BY <2>1, TableShrinks
  <1>4. QED
    BY <1>1, <1>2, <1>3 DEF NodeNext

LEMMA NodeTableInit == NodeInit /\ up = <<>> => NodeTableInv
  <1> SUFFICES ASSUME NodeInit, up = <<>> PROVE NodeTableInv
    OBVIOUS
  <1>1. NodeTyped
    BY DEF NodeInit, FreeTable, NodeTyped, Jobs
  <1>2. Occupied(table) = {}
    BY DEF NodeInit, FreeTable, Occupied
  <1>3. QED
    BY <1>1, <1>2, FS_EmptySet, MaxNodeAssumption DEF NodeTableInv, NodeTableBounded

(* The node never holds more than UDP_MAX_SESSIONS sessions, whatever client  *)
(* it serves and however its main loop, reaper and session tasks interleave.  *)
THEOREM NodeTableStaysBounded == NodeSpec => []NodeTableBounded
  <1>1. NodeAndWireInit => NodeTableInv
    BY NodeTableInit DEF NodeAndWireInit, WireInit
  <1>2. NodeTableInv => NodeTableBounded
    BY DEF NodeTableInv
  <1>3. QED
    BY <1>1, <1>2, NodeTableNext, PTL DEF NodeSpec
-----------------------------------------------------------------------------
(* The two together.  Whatever the node holds, on the stream, in its main     *)
(* loop or in a session task, was asked for on this stream; without this an   *)
(* answer of the node could be one the client's specification does not allow. *)
HeldWasAsked ==
    /\ \A i \in 1..Len(up) : up[i].kind = "data" => up[i] \in asked
    /\ job.pc \in {"resolve", "bind", "deliver"} => job.frame \in asked
    /\ \A t \in live : DataFrame(t.sid, t.target, t.flow) \in asked

RelayInv == ChannelInv /\ NodeTableInv /\ HeldWasAsked

LEMMA FirstWasAsked ==
    ASSUME RelayInv, up # <<>>
    PROVE  /\ Head(up).kind = "data" => Head(up) \in asked
           /\ \A i \in 1..Len(Tail(up)) : Tail(up)[i].kind = "data" => Tail(up)[i] \in asked
  <1>1. up \in Seq(Frames) /\ Len(up) \in Nat
    BY DEF RelayInv, NodeTableInv, NodeTyped
  <1>2. /\ Head(up) = up[1] /\ Len(up) >= 1
        /\ Len(Tail(up)) = Len(up) - 1
        /\ \A i \in 1..Len(Tail(up)) : Tail(up)[i] = up[i + 1]
    BY <1>1, HeadTail
  <1>3. \A i \in 1..Len(up) : up[i].kind = "data" => up[i] \in asked
    BY DEF RelayInv, HeldWasAsked
  <1>4. 1 \in 1..Len(up) /\ \A i \in 1..Len(Tail(up)) : i + 1 \in 1..Len(up)
    BY <1>1, <1>2
  <1>5. QED
    BY <1>2, <1>3, <1>4

(* A step of the node is a step of a node the client can rely on, or none     *)
(* the client could see.                                                      *)
LEMMA NodeStepIsAnyNode ==
    ASSUME RelayInv, phase = "up", NodeStep, UNCHANGED channel
    PROVE  AnyNode \/ UNCHANGED channelVars
  <1>0. job \in Jobs /\ live \subseteq Tasks /\ reaped \subseteq Sids
    BY DEF RelayInv, NodeTableInv, NodeTyped
  <1>1. CASE TakeClose \/ TakeData
    <2>1. NodeTakes
      BY <1>1 DEF TakeClose, TakeData, NodeTakes
    <2>2. QED
      BY <2>1 DEF AnyNode
  <1>2. CASE AnswerLocally
    <2>1. NodeAnswers
      BY <1>2, FirstWasAsked DEF AnswerLocally, NodeAnswers
    <2>2. QED
      BY <2>1 DEF AnyNode
  <1>3. CASE WriteClose
    <2>1. job.frame.sid \in Sids
      BY <1>0, <1>3, JobForms, FrameTypes DEF WriteClose
    <2>2. NodeCloses(job.frame.sid)
      BY <1>3 DEF WriteClose, NodeCloses
    <2>3. QED
      BY <2>1, <2>2 DEF AnyNode
  <1>4. ASSUME NEW s \in Sids, ReaperClose(s)
        PROVE  AnyNode
    <2>1. NodeCloses(s)
      BY <1>4 DEF ReaperClose, NodeCloses
    <2>2. QED
      BY <2>1 DEF AnyNode
  <1>5. ASSUME NEW t \in live, TaskReply(t)
        PROVE  AnyNode
    <2>1. DataFrame(t.sid, t.target, t.flow) \in asked
      BY DEF RelayInv, HeldWasAsked
    <2>2. NodeReplies(DataFrame(t.sid, t.target, t.flow))
      BY <1>5 DEF TaskReply, NodeReplies
    <2>3. QED
      BY <2>1, <2>2 DEF AnyNode
  <1>6. CASE OverBudget \/ ResolveFails \/ Resolved \/ BindFails \/ Bound \/ Deliver \/ DeadSession
    BY <1>6 DEF OverBudget, ResolveFails, Resolved, BindFails, Bound, Deliver, DeadSession, channelVars
  <1>7. CASE \E e \in SUBSET Occupied(table) : Reap(e)
    BY <1>7 DEF Reap, channelVars
  <1>8. CASE \E t \in live : TaskFails(t) \/ TaskEnds(t)
    BY <1>8 DEF TaskFails, TaskEnds, channelVars
  <1>9. QED
    BY <1>1, <1>2, <1>3, <1>4, <1>5, <1>6, <1>7, <1>8 DEF NodeStep, MainLoop, Reaper, SessionTasks

(* What the node holds after one of its steps it held or took off the stream. *)
LEMMA NodeStepHolds ==
    ASSUME RelayInv, NodeStep
    PROVE  HeldWasAsked'
  <1>0. /\ job \in Jobs /\ live \subseteq Tasks /\ up \in Seq(Frames)
        /\ table \in [Sids -> Sessions \cup {NoSession}]
    BY DEF RelayInv, NodeTableInv, NodeTyped
  <1>1. /\ \A i \in 1..Len(up) : up[i].kind = "data" => up[i] \in asked
        /\ job.pc \in {"resolve", "bind", "deliver"} => job.frame \in asked
        /\ \A t \in live : DataFrame(t.sid, t.target, t.flow) \in asked
    BY DEF RelayInv, HeldWasAsked
  <1>2. asked' = asked /\ (up' = up \/ (up # <<>> /\ up' = Tail(up)))
    BY DEF NodeStep, MainLoop, Reaper, SessionTasks, TakeClose, AnswerLocally, TakeData, OverBudget,
           ResolveFails, Resolved, BindFails, Bound, Deliver, WriteClose, DeadSession, Reap, ReaperClose,
           TaskReply, TaskFails, TaskEnds, wire
  <1>3. \A i \in 1..Len(up') : up'[i].kind = "data" => up'[i] \in asked'
    BY <1>1, <1>2, FirstWasAsked
  <1>4. /\ job'.pc \in {"resolve", "bind", "deliver"} => job'.frame \in asked
        /\ \/ live' \subseteq live
           \/ \E t : /\ live' = live \cup {t}
                     /\ DataFrame(t.sid, t.target, t.flow) = job.frame
                     /\ job.pc = "bind"
    <2>1. CASE TakeData
      BY <2>1, FirstWasAsked DEF TakeData
    <2>2. CASE TakeClose \/ AnswerLocally
      BY <2>2, <1>1 DEF TakeClose, AnswerLocally, node
    <2>3. CASE OverBudget \/ ResolveFails \/ BindFails \/ WriteClose
      BY <2>3 DEF OverBudget, ResolveFails, BindFails, WriteClose, Waiting
    <2>4. CASE Resolved
      <3>1. job = [pc |-> job.pc, frame |-> job.frame] /\ job.frame \in asked
        BY <2>4, <1>0, <1>1, JobForms DEF Resolved
      <3>2. job'.frame = job.frame
        BY <2>4, <3>1 DEF Resolved
      <3>3. QED
        BY <2>4, <3>1, <3>2 DEF Resolved
    <2>5. CASE Bound
      <3>1. job = [pc |-> job.pc, frame |-> job.frame] /\ job.frame \in asked /\ job.frame \in DataFrames
        BY <2>5, <1>0, <1>1, JobForms DEF Bound
      <3>2. CASE IsFull(table)
        BY <2>5, <3>2 DEF Bound, Waiting
      <3>3. CASE ~IsFull(table)
        <4>1. PICK g \in Gens :
                 /\ live' = live \cup {[gen |-> g, sid |-> job.frame.sid,
                        target |-> job.frame.target, flow |-> job.frame.flow]}
                 /\ job' = [job EXCEPT !.pc = "deliver"]
          BY <2>5, <3>3 DEF Bound
        <4>2. DataFrame(job.frame.sid, job.frame.target, job.frame.flow) = job.frame
          BY <3>1 DEF DataFrame, DataFrames
        <4>3. job'.frame = job.frame
          BY <3>1, <4>1
        <4>4. QED
          BY <2>5, <3>1, <4>1, <4>2, <4>3 DEF Bound
      <3>4. QED
        BY <3>2, <3>3
    <2>6. CASE Deliver
      <3>1. job = [pc |-> job.pc, frame |-> job.frame]
        BY <2>6, <1>0, JobForms DEF Deliver
      <3>2. QED
        BY <2>6, <3>1 DEF Deliver, Waiting
    <2>7. CASE DeadSession
      BY <2>7, <1>1 DEF DeadSession
    <2>8. CASE Reaper \/ SessionTasks
      BY <2>8, <1>1 DEF Reaper, SessionTasks, Reap, ReaperClose, TaskReply, TaskFails, TaskEnds, node
    <2>9. QED
      BY <2>1, <2>2, <2>3, <2>4, <2>5, <2>6, <2>7, <2>8 DEF NodeStep, MainLoop
  <1>5. \A t \in live' : DataFrame(t.sid, t.target, t.flow) \in asked
    <2>1. CASE live' \subseteq live
      BY <2>1, <1>1
    <2>2. ASSUME NEW t, live' = live \cup {t}, DataFrame(t.sid, t.target, t.flow) = job.frame,
                 job.pc = "bind"
          PROVE  <1>5
      BY <2>2, <1>1
    <2>3. QED
      BY <1>4, <2>1, <2>2
  <1>6. QED
    BY <1>2, <1>3, <1>4, <1>5 DEF HeldWasAsked

(* What the client writes was asked for.                                      *)
LEMMA WrittenWasAsked ==
    ASSUME RelayInv, NEW f \in Flows, NEW s \in Sids, NEW closes \in {<<>>, <<CloseFrame(s)>>},
           Written(f, s, closes), UNCHANGED node
    PROVE  HeldWasAsked'
  <1> DEFINE x == DataFrame(s, DstOf[f], f)
             c == CloseFrame(s)
  <1>1. /\ up \in Seq(Frames) /\ Len(up) \in Nat
        /\ \A i \in 1..Len(up) : up[i].kind = "data" => up[i] \in asked
        /\ job.pc \in {"resolve", "bind", "deliver"} => job.frame \in asked
        /\ \A t \in live : DataFrame(t.sid, t.target, t.flow) \in asked
    BY DEF RelayInv, NodeTableInv, NodeTyped, HeldWasAsked
  <1>2. asked' = asked \cup {x} /\ up' = up \o closes \o <<x>> /\ job' = job /\ live' = live
    BY DEF Written, node
  <1>3. c.kind = "close"
    BY DEF CloseFrame
  <1>4. \A i \in 1..Len(up') : up'[i] = x \/ up'[i] = c \/ (i \in 1..Len(up) /\ up'[i] = up[i])
    <2>1. x \in Frames /\ c \in Frames
      BY FrameTypes, DstOfAssumption
    <2> HIDE DEF x, c
    <2>2. CASE closes = <<>>
      <3>1. up' = up \o <<x>>
        BY <1>1, <1>2, <2>2
      <3>2. QED
        BY <1>1, <2>1, <3>1
    <2>3. CASE closes = <<c>>
      <3>1. up' = up \o <<c>> \o <<x>>
        BY <1>2, <2>3
      <3>2. up \o <<c>> \in Seq(Frames) /\ Len(up \o <<c>>) = Len(up) + 1
            /\ \A i \in 1..Len(up) + 1 :
                  (up \o <<c>>)[i] = c \/ (i \in 1..Len(up) /\ (up \o <<c>>)[i] = up[i])
        BY <1>1, <2>1
      <3>3. QED
        BY <1>1, <2>1, <3>1, <3>2
    <2>4. QED
      BY <2>2, <2>3 DEF c
  <1>5. \A i \in 1..Len(up') : up'[i].kind = "data" => up'[i] \in asked'
    BY <1>1, <1>2, <1>3, <1>4
  <1>6. QED
    BY <1>1, <1>2, <1>5 DEF HeldWasAsked

LEMMA ChannelStepHolds ==
    ASSUME RelayInv, ChannelStep, UNCHANGED node
    PROVE  HeldWasAsked'
  <1>1. ASSUME NEW f \in Flows, SendMapped(f) \/ SendAllocate(f)
        PROVE  HeldWasAsked'
    <2>1. sessions[f] \in 0..MaxSid /\ nextSid \in Sids
      BY DEF RelayInv, ChannelInv, WireAndChannelTypeOK, ChannelTypeOK
    <2>2. PICK s \in Sids : Written(f, s, <<>>)
      BY <1>1, <2>1 DEF SendMapped, SendAllocate, Sids
    <2>3. QED
      BY <2>2, WrittenWasAsked
  <1>2. ASSUME NEW f \in Flows, NEW v \in Flows, SendEvict(f, v)
        PROVE  HeldWasAsked'
    <2>1. sessions[v] \in Sids
      BY <1>2 DEF SendEvict, Oldest, Mapped, RelayInv, ChannelInv, WireAndChannelTypeOK, ChannelTypeOK, Sids
    <2>2. Written(f, sessions[v], <<CloseFrame(sessions[v])>>)
      BY <1>2 DEF SendEvict
    <2>3. QED
      BY <2>1, <2>2, WrittenWasAsked
  <1>3. CASE \/ ReadHeader \/ ReadPayload
             \/ \E frame \in Frames : ReadGarbage(frame)
             \/ \E idle \in SUBSET {s \in Sids : bySid[s] # NoFlow} : Sweep(idle)
    BY <1>3 DEF ReadHeader, ReadPayload, ReadGarbage, Sweep, wire, node, RelayInv, HeldWasAsked
  <1>4. QED
    BY <1>1, <1>2, <1>3 DEF ChannelStep

(* A step of the two is a step of the client with a node it can rely on.      *)
LEMMA StepImplements ==
    ASSUME RelayInv, [Next]_vars
    PROVE  [ChannelNext]_channelVars
  <1>1. CASE (Connect /\ UNCHANGED node) \/ (Disconnect /\ ServeEnds) \/ (ChannelStep /\ UNCHANGED node)
    BY <1>1 DEF ChannelNext
  <1>2. CASE phase = "up" /\ NodeStep /\ UNCHANGED channel
    BY <1>2, NodeStepIsAnyNode DEF ChannelNext
  <1>3. CASE UNCHANGED vars
    BY <1>3 DEF vars, channelVars
  <1>4. QED
    BY <1>1, <1>2, <1>3 DEF Next

LEMMA RelayNextInv == RelayInv /\ [Next]_vars => RelayInv'
  <1> SUFFICES ASSUME RelayInv, [Next]_vars PROVE RelayInv'
    OBVIOUS
  <1>1. ChannelInv'
    BY StepImplements, ChannelNextInv DEF RelayInv
  <1>2. up' \in Seq(Frames)
    BY <1>1 DEF ChannelInv, WireAndChannelTypeOK, WireTypeOK
  <1>3. ASSUME UNCHANGED node
        PROVE  NodeTableInv'
    <2>1. NodeTyped' /\ table' = table
      BY <1>2, <1>3 DEF node, RelayInv, NodeTableInv, NodeTyped
    <2>2. QED
      BY <2>1, TableShrinks DEF RelayInv
  <1>4. CASE Connect /\ UNCHANGED node
    BY <1>1, <1>3, <1>4 DEF Connect, wire, node, RelayInv, HeldWasAsked
  <1>5. CASE Disconnect /\ ServeEnds
    <2>1. /\ up' = <<>> /\ asked' = {} /\ table' = FreeTable /\ live' = {} /\ deadQ' = <<>>
          /\ reaped' = {} /\ job' = Waiting
      BY <1>5 DEF Disconnect, StreamBreaks, ServeEnds
    <2>2. NodeTyped' /\ Occupied(table') = {}
      BY <2>1 DEF NodeTyped, Jobs, FreeTable, Occupied
    <2>3. NodeTableInv'
      BY <2>2, TableShrinks DEF RelayInv
    <2>4. QED
      BY <1>1, <2>1, <2>3 DEF RelayInv, HeldWasAsked, Waiting
  <1>6. CASE ChannelStep /\ UNCHANGED node
    BY <1>1, <1>3, <1>6, ChannelStepHolds DEF RelayInv
  <1>7. CASE phase = "up" /\ NodeStep /\ UNCHANGED channel
    BY <1>1, <1>7, MainLoopInv, ReaperAndTasksInv, NodeStepHolds DEF RelayInv, NodeStep
  <1>8. CASE UNCHANGED vars
    BY <1>1, <1>3, <1>8 DEF vars, wire, node, RelayInv, HeldWasAsked
  <1>9. QED
    BY <1>4, <1>5, <1>6, <1>7, <1>8 DEF Next

LEMMA RelayInit == Init => RelayInv
  BY InitChannelInv, NodeTableInit
     DEF Init, ClientAndWireInit, WireInit, NodeInit, RelayInv, HeldWasAsked, Waiting

THEOREM RelayInvariant == Spec => []RelayInv
  BY RelayInit, RelayNextInv, PTL DEF Spec

(* The client and the node of this repository on one stream implement the     *)
(* client with a node it may rely on: serve() answers only what the client    *)
(* asked, with the id and the target it was asked with, across every resolve, *)
(* bind, eviction, reaping and reconnect.                                     *)
THEOREM RelayImplementsChannel == Spec => ChannelSpec
  <1>1. Init => ClientAndWireInit
    BY DEF Init, ClientAndWireInit
  <1>2. RelayInv /\ [Next]_vars => [ChannelNext]_channelVars
    BY StepImplements
  <1>3. QED
    BY <1>1, <1>2, RelayInvariant, PTL DEF Spec, ChannelSpec

(* So the promises to the client hold end to end, and the node's table stays  *)
(* within its bound over every reconnect of that client.                      *)
THEOREM RelayIsSafe ==
    Spec => [](SidsDistinct /\ TablesAgree /\ MisdeliveryConfined /\ NodeTableBounded)
  <1>1. RelayInv => NodeTableBounded
    BY DEF RelayInv, NodeTableInv
  <1>2. QED
    BY <1>1, RelayInvariant, RelayImplementsChannel, SessionIdsDistinct, FlowTablesAgree,
       MisdeliveryIsConfined, PTL
=============================================================================
