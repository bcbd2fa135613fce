------------------------------- MODULE TcpProofs -------------------------------
(* Half-close over the whole chain: as long as nothing is cut, what one end   *)
(* has sent is either received or on its way, and an end of stream travels    *)
(* behind it.  The proof needs where in the chain each end of stream is: the  *)
(* three connections and the two tasks of a direction end one after another.  *)
(* Then the front end, which makes the connection: its invariant is that of   *)
(* one connection, stage by stage.                                            *)
EXTENDS TcpRelay, FrontEnd, SequenceTheorems, TLAPS

PipeTable == [Links -> [Dirs -> Pipes]]

Held(task) == IF task = "write" THEN 1 ELSE 0

UpChain ==
    /\ owed["up"] = pipe["local"]["up"].n + Held(upTask) + pipe["tls"]["up"].n
                        + Held(pump["up"]) + pipe["far"]["up"].n
    /\ upTask \in {"shut", "ok"} => pipe["local"]["up"].n = 0 /\ pipe["local"]["up"].end # "open"
    /\ pipe["tls"]["up"].end # "open" <=> upTask = "ok"
    /\ pump["up"] \in {"shutOk", "ok"} => pipe["tls"]["up"].n = 0 /\ upTask = "ok"
    /\ pipe["far"]["up"].end = IF pump["up"] = "ok" THEN "fin" ELSE "open"

DownChain ==
    /\ owed["down"] = pipe["far"]["down"].n + Held(pump["down"]) + pipe["tls"]["down"].n
                          + Held(downTask) + pipe["local"]["down"].n
    /\ pump["down"] \in {"shutOk", "ok"} => pipe["far"]["down"].n = 0 /\ pipe["far"]["down"].end # "open"
    /\ pipe["tls"]["down"].end # "open" <=> pump["down"] = "ok"
    /\ downTask = "ok" => pipe["tls"]["down"].n = 0 /\ pump["down"] = "ok"
    /\ pipe["local"]["down"].end = IF downTask = "ok" THEN "fin" ELSE "open"

(* Nothing has failed, and a socket is dropped only when both directions are  *)
(* done with it.                                                              *)
NothingFailed ==
    /\ upTask \in {"read", "write", "shut", "ok"}
    /\ downTask \in {"read", "write", "ok"}
    /\ pump["up"] \in {"read", "write", "shutOk", "ok"}
    /\ pump["down"] \in {"read", "write", "shutOk", "ok"}
    /\ ~peerDone
    /\ \A conn \in Links, d \in Dirs : pipe[conn][d].end # "cut"
    /\ pipe["local"]["up"].end = "gone" \/ pipe["tls"]["down"].end = "gone" => relay = "ended"
    /\ relay \in {"drainDown", "ended"} => upTask = "ok"
    /\ relay \in {"drainUp", "ended"} => downTask = "ok"
    /\ pipe["tls"]["up"].end = "gone" \/ pipe["far"]["down"].end = "gone" =>
           pump["up"] = "ok" /\ pump["down"] = "ok"

Chains == UpChain /\ DownChain /\ NothingFailed

IInv ==
    /\ TypeOK
    /\ cut => owed = Settled
    /\ ~cut => Chains
-----------------------------------------------------------------------------
(* What the operations on the connections change, and what they leave alone.  *)
Same(pp, conn, d) ==
    \A l \in Links, e \in Dirs : <<l, e>> # <<conn, d>> => pp[l][e] = pipe[l][e]

(* A chunk is read off one direction of one connection.                       *)
LEMMA TookPipe ==
    ASSUME pipe \in PipeTable, NEW conn \in Links, NEW d \in Dirs, Readable(conn, d)
    PROVE  /\ Took(conn, d) \in PipeTable
           /\ Took(conn, d)[conn][d] = [n |-> pipe[conn][d].n - 1, end |-> pipe[conn][d].end]
           /\ Same(Took(conn, d), conn, d)
BY CapAssumption DEF PipeTable, Pipes, Readable, Took, Same

(* A chunk is written to one direction of one connection.                     *)
LEMMA GavePipe ==
    ASSUME pipe \in PipeTable, NEW conn \in Links, NEW d \in Dirs, Room(conn, d)
    PROVE  /\ Gave(conn, d) \in PipeTable
           /\ Gave(conn, d)[conn][d] = [n |-> pipe[conn][d].n + 1, end |-> "open"]
           /\ Same(Gave(conn, d), conn, d)
BY CapAssumption DEF PipeTable, Pipes, Room, Gave, Same

(* A direction is shut down in good order.                                    *)
LEMMA ShutPipe ==
    ASSUME pipe \in PipeTable, NEW conn \in Links, NEW d \in Dirs
    PROVE  /\ Shut(pipe, conn, d) \in PipeTable
           /\ Shut(pipe, conn, d)[conn][d] =
                  [n |-> pipe[conn][d].n,
                   end |-> IF pipe[conn][d].end = "open" THEN "fin" ELSE pipe[conn][d].end]
           /\ Same(Shut(pipe, conn, d), conn, d)
BY DEF PipeTable, Pipes, Shut, Same

(* A socket is dropped; pp may be the result of an earlier operation.         *)
LEMMA DroppedPipe ==
    ASSUME NEW STATE pp, pp \in PipeTable, NEW conn \in Links, NEW d \in Dirs
    PROVE  /\ Dropped(pp, conn, d) \in PipeTable
           /\ \A e \in Dirs : e # d => Dropped(pp, conn, d)[conn][e] = Gone
           /\ Dropped(pp, conn, d)[conn][d].n = pp[conn][d].n
           /\ pp[conn][d].end # "open" => Dropped(pp, conn, d)[conn][d] = pp[conn][d]
           /\ \A l \in Links, e \in Dirs : l # conn => Dropped(pp, conn, d)[l][e] = pp[l][e]
<1>1. Other(d) \in Dirs /\ Other(d) # d
  BY DEF Dirs, Other
<1>2. Gone \in Pipes
  BY CapAssumption DEF Gone, Pipes
<1> DEFINE row == Dropped(pp, conn, d)[conn]
<1>3. Dropped(pp, conn, d) = [pp EXCEPT ![conn] = row]
  BY DEF PipeTable, Dropped
<1>4. row[Other(d)] = Gone
  BY <1>1 DEF PipeTable, Dropped
<1>5. /\ row[d] \in Pipes
      /\ row[d].n = pp[conn][d].n
      /\ pp[conn][d].end # "open" => row[d] = pp[conn][d]
  BY DEF PipeTable, Pipes, Dropped
<1>6. row \in [Dirs -> Pipes]
  BY <1>1, <1>2, <1>4, <1>5 DEF PipeTable, Dropped, Dirs
<1>7. \A e \in Dirs : e # d => row[e] = Gone
  BY <1>1, <1>4 DEF Dirs
<1> HIDE DEF row
<1>8. Dropped(pp, conn, d)[conn] = row
  BY DEF row
<1> QED
  BY <1>3, <1>5, <1>6, <1>7, <1>8 DEF PipeTable

Shapes ==
    /\ pipe \in PipeTable
    /\ cut \in BOOLEAN
    /\ upTask \in {"read", "write", "shut", "ok", "err", "aborted"}
    /\ downTask \in {"read", "write", "ok", "err", "aborted"}
    /\ relay \in {"both", "drainDown", "drainUp", "ended"}
    /\ pump \in [Dirs -> {"read", "write", "shutOk", "shutErr", "ok", "err"}]
    /\ peerDone \in BOOLEAN /\ quiet \in BOOLEAN

(* Where directions and connections lie.                                      *)
LEMMA Names ==
    /\ "up" \in Dirs /\ "down" \in Dirs /\ \A d \in Dirs : d = "up" \/ d = "down"
    /\ \A d \in Dirs : /\ Other(d) \in Dirs /\ SourceLink(d) \in Links
                       /\ SinkLink(d) \in Links /\ InLink(d) \in Links /\ OutLink(d) \in Links
    /\ "local" \in Links /\ "tls" \in Links /\ "far" \in Links
BY DEF Dirs, Links, Other, SourceLink, SinkLink, InLink, OutLink

(* Every operation keeps the types of all but the counts that are owed.       *)
LEMMA ShapesStep == Shapes /\ [Next]_vars => Shapes'
<1> SUFFICES ASSUME Shapes, [Next]_vars PROVE Shapes'
  OBVIOUS
<1> USE Names
<1>1. ASSUME NEW d \in Dirs, EndSends(d) \/ EndShuts(d) \/ EndReads(d) \/ EndCloses(d),
             UNCHANGED <<clientRelay, nodeRelay>>
      PROVE  Shapes'
  <2>1. ASSUME EndSends(d) PROVE pipe' \in PipeTable
    BY <2>1, GavePipe DEF Shapes, EndSends
  <2>2. ASSUME EndShuts(d) PROVE pipe' \in PipeTable
    BY <2>2, ShutPipe DEF Shapes, EndShuts
  <2>3. ASSUME EndReads(d) PROVE pipe' \in PipeTable
    BY <2>3, TookPipe DEF Shapes, EndReads
  <2>4. ASSUME EndCloses(d) PROVE pipe' \in PipeTable
    BY <2>4, DroppedPipe DEF Shapes, EndCloses
  <2>5. pipe' \in PipeTable
    BY <1>1, <2>1, <2>2, <2>3, <2>4
  <2>6. cut' \in BOOLEAN
    BY <1>1 DEF Shapes, EndSends, EndShuts, EndReads, EndCloses, Cuts
  <2> QED
    BY <1>1, <2>5, <2>6 DEF Shapes, clientRelay, nodeRelay
<1>2. ASSUME NEW conn \in Links, LinkBreaks(conn), UNCHANGED <<clientRelay, nodeRelay>>
      PROVE  Shapes'
  <2>1. pipe' \in PipeTable
    BY <1>2, CapAssumption DEF Shapes, LinkBreaks, PipeTable, Pipes, Gone
  <2> QED
    BY <1>2, <2>1 DEF Shapes, clientRelay, nodeRelay, LinkBreaks, Cuts
<1>3. ASSUME UpStep \/ DownStep, UNCHANGED nodeRelay
      PROVE  Shapes'
  <2>1. ASSUME UpReads PROVE pipe' \in PipeTable
    BY <2>1, TookPipe DEF Shapes, UpReads
  <2>2. ASSUME DownReads PROVE pipe' \in PipeTable
    BY <2>2, TookPipe DEF Shapes, DownReads
  <2>3. ASSUME UpWrites PROVE pipe' \in PipeTable
    BY <2>3, GavePipe DEF Shapes, UpWrites
  <2>4. ASSUME DownWrites PROVE pipe' \in PipeTable
    BY <2>4, GavePipe DEF Shapes, DownWrites
  <2>5. ASSUME UpShuts PROVE pipe' \in PipeTable
    BY <2>5, ShutPipe DEF Shapes, UpShuts
  <2>6. ASSUME DownEnds PROVE pipe' \in PipeTable
    BY <2>6, ShutPipe DEF Shapes, DownEnds
  <2>7. ASSUME UpEof PROVE pipe' \in PipeTable
    BY <2>7 DEF Shapes, UpEof, links
  <2>8. ASSUME UpFails PROVE pipe' \in PipeTable
    BY <2>8 DEF Shapes, UpFails, links
  <2>9. pipe' \in PipeTable
    BY <1>3, <2>1, <2>2, <2>3, <2>4, <2>5, <2>6, <2>7, <2>8 DEF UpStep, DownStep
  <2> QED
    BY <1>3, <2>9
       DEF Shapes, UpStep, DownStep, UpReads, UpWrites, UpEof, UpShuts, UpFails, DownReads,
           DownWrites, DownEnds, links, nodeRelay
<1>4. ASSUME MainStep, UNCHANGED nodeRelay
      PROVE  Shapes'
  <2>1. ASSUME Returns PROVE pipe' \in PipeTable
    <3>1. Dropped(pipe, "local", "down") \in PipeTable
      BY DroppedPipe DEF Shapes
    <3> QED
      BY <2>1, <3>1, DroppedPipe DEF Returns
  <2>2. pipe' \in PipeTable
    BY <1>4, <2>1 DEF Shapes, MainStep, StartDrain, AbortOther, Drained, DrainTimesOut, links
  <2> QED
    BY <1>4, <2>2
       DEF Shapes, MainStep, StartDrain, AbortOther, Drained, DrainTimesOut, Returns, Aborted,
           Cuts, links, nodeRelay
<1>5. ASSUME NEW d \in Dirs, PumpStep(d), UNCHANGED clientRelay
      PROVE  Shapes'
  <2>1. ASSUME PumpShuts(d) PROVE pipe' \in PipeTable
    <3>1. Shut(pipe, OutLink(d), d) \in PipeTable
      BY ShutPipe DEF Shapes
    <3>2. Dropped(Shut(pipe, OutLink(d), d), "far", "up") \in PipeTable
      BY <3>1, DroppedPipe
    <3>3. Dropped(Dropped(Shut(pipe, OutLink(d), d), "far", "up"), "tls", "down") \in PipeTable
      BY <3>2, DroppedPipe
    <3> QED
      BY <2>1, <3>1, <3>3 DEF PumpShuts, AfterPump
  <2>2. ASSUME PumpReads(d) PROVE pipe' \in PipeTable
    BY <2>2, TookPipe DEF Shapes, PumpReads
  <2>3. ASSUME PumpWrites(d) PROVE pipe' \in PipeTable
    BY <2>3, GavePipe DEF Shapes, PumpWrites
  <2>4. PumpEof(d) \/ PumpFollows(d) \/ PumpExpires(d) \/ PumpReadFails(d) \/ PumpWriteFails(d)
            \/ PumpWriteTimesOut(d) => pipe' \in PipeTable
    BY DEF Shapes, PumpEof, PumpFollows, PumpExpires, PumpReadFails, PumpWriteFails,
           PumpWriteTimesOut, links
  <2>5. pipe' \in PipeTable
    BY <1>5, <2>1, <2>2, <2>3, <2>4 DEF PumpStep
  <2> QED
    BY <1>5, <2>5, ZenonT(30)
       DEF Shapes, PumpStep, PumpReads, PumpWrites, PumpEof, PumpFollows, PumpExpires,
           PumpReadFails, PumpWriteFails, PumpWriteTimesOut, PumpShuts, Cuts, links, clientRelay
<1>6. ASSUME GoesQuiet, UNCHANGED clientRelay
      PROVE  Shapes'
  BY <1>6 DEF Shapes, GoesQuiet, links, clientRelay
<1>7. CASE UNCHANGED vars
  BY <1>7 DEF Shapes, vars, links, clientRelay, nodeRelay
<1> QED
  BY <1>1, <1>2, <1>3, <1>4, <1>5, <1>6, <1>7 DEF Next, LinksNext, ClientNext, NodeNext

(* A step that cuts nothing keeps the chains: one case per operation, with    *)
(* the one direction of the one connection it changes; the operations that    *)
(* follow a failure cannot happen.                                            *)
LEMMA ChainsStep ==
    ASSUME Shapes, owed \in [Dirs -> Nat], ~cut, Chains, [Next]_vars, ~cut'
    PROVE  Chains' /\ owed' \in [Dirs -> Nat]
<1> USE Names
<1>0. pipe \in PipeTable /\ pump \in [Dirs -> {"read", "write", "shutOk", "shutErr", "ok", "err"}]
  BY DEF Shapes
<1>1. ASSUME EndSends("up"), UNCHANGED <<clientRelay, nodeRelay>>
      PROVE  Chains' /\ owed' \in [Dirs -> Nat]
  <2>1. /\ pipe'["local"]["up"] = [n |-> pipe["local"]["up"].n + 1, end |-> "open"]
        /\ Same(pipe', "local", "up")
    BY <1>1, <1>0, GavePipe DEF EndSends, SourceLink
  <2> QED
    BY <1>1, <1>0, <2>1 DEF EndSends, SourceLink, Same, Links, Dirs, Chains, UpChain, DownChain, NothingFailed, Held,
       clientRelay, nodeRelay, PipeTable, Pipes, Readable, AtEof, Room
<1>2. ASSUME EndSends("down"), UNCHANGED <<clientRelay, nodeRelay>>
      PROVE  Chains' /\ owed' \in [Dirs -> Nat]
  <2>1. /\ pipe'["far"]["down"] = [n |-> pipe["far"]["down"].n + 1, end |-> "open"]
        /\ Same(pipe', "far", "down")
    BY <1>2, <1>0, GavePipe DEF EndSends, SourceLink
  <2> QED
    BY <1>2, <1>0, <2>1 DEF EndSends, SourceLink, Same, Links, Dirs, Chains, UpChain, DownChain, NothingFailed, Held,
       clientRelay, nodeRelay, PipeTable, Pipes, Readable, AtEof, Room
<1>3. ASSUME EndShuts("up"), UNCHANGED <<clientRelay, nodeRelay>>
      PROVE  Chains' /\ owed' \in [Dirs -> Nat]
  <2>1. /\ pipe'["local"]["up"] = [n |-> pipe["local"]["up"].n, end |-> IF pipe["local"]["up"].end = "open" THEN "fin" ELSE pipe["local"]["up"].end]
        /\ Same(pipe', "local", "up")
    BY <1>3, <1>0, ShutPipe DEF EndShuts, SourceLink
  <2> QED
    BY <1>3, <1>0, <2>1 DEF EndShuts, SourceLink, Same, Links, Dirs, Chains, UpChain, DownChain, NothingFailed, Held,
       clientRelay, nodeRelay, PipeTable, Pipes, Readable, AtEof, Room
<1>4. ASSUME EndShuts("down"), UNCHANGED <<clientRelay, nodeRelay>>
      PROVE  Chains' /\ owed' \in [Dirs -> Nat]
  <2>1. /\ pipe'["far"]["down"] = [n |-> pipe["far"]["down"].n, end |-> IF pipe["far"]["down"].end = "open" THEN "fin" ELSE pipe["far"]["down"].end]
        /\ Same(pipe', "far", "down")
    BY <1>4, <1>0, ShutPipe DEF EndShuts, SourceLink
  <2> QED
    BY <1>4, <1>0, <2>1 DEF EndShuts, SourceLink, Same, Links, Dirs, Chains, UpChain, DownChain, NothingFailed, Held,
       clientRelay, nodeRelay, PipeTable, Pipes, Readable, AtEof, Room
<1>5. ASSUME EndReads("up"), UNCHANGED <<clientRelay, nodeRelay>>
      PROVE  Chains' /\ owed' \in [Dirs -> Nat]
  <2>1. /\ pipe'["far"]["up"] = [n |-> pipe["far"]["up"].n - 1, end |-> pipe["far"]["up"].end]
        /\ Same(pipe', "far", "up")
    BY <1>5, <1>0, TookPipe DEF EndReads, SinkLink
  <2> QED
    BY <1>5, <1>0, <2>1 DEF EndReads, SinkLink, Same, Links, Dirs, Chains, UpChain, DownChain, NothingFailed, Held,
       clientRelay, nodeRelay, PipeTable, Pipes, Readable, AtEof, Room
<1>6. ASSUME EndReads("down"), UNCHANGED <<clientRelay, nodeRelay>>
      PROVE  Chains' /\ owed' \in [Dirs -> Nat]
  <2>1. /\ pipe'["local"]["down"] = [n |-> pipe["local"]["down"].n - 1, end |-> pipe["local"]["down"].end]
        /\ Same(pipe', "local", "down")
    BY <1>6, <1>0, TookPipe DEF EndReads, SinkLink
  <2> QED
    BY <1>6, <1>0, <2>1 DEF EndReads, SinkLink, Same, Links, Dirs, Chains, UpChain, DownChain, NothingFailed, Held,
       clientRelay, nodeRelay, PipeTable, Pipes, Readable, AtEof, Room
<1>7. ASSUME UpReads, UNCHANGED nodeRelay
      PROVE  Chains' /\ owed' \in [Dirs -> Nat]
  <2>1. /\ pipe'["local"]["up"] = [n |-> pipe["local"]["up"].n - 1, end |-> pipe["local"]["up"].end]
        /\ Same(pipe', "local", "up")
    BY <1>7, <1>0, TookPipe DEF UpReads
  <2> QED
    BY <1>7, <1>0, <2>1 DEF UpReads, Same, Links, Dirs, Chains, UpChain, DownChain, NothingFailed, Held,
       clientRelay, nodeRelay, PipeTable, Pipes, Readable, AtEof, Room
<1>8. ASSUME UpWrites, UNCHANGED nodeRelay
      PROVE  Chains' /\ owed' \in [Dirs -> Nat]
  <2>1. /\ pipe'["tls"]["up"] = [n |-> pipe["tls"]["up"].n + 1, end |-> "open"]
        /\ Same(pipe', "tls", "up")
    BY <1>8, <1>0, GavePipe DEF UpWrites
  <2> QED
    BY <1>8, <1>0, <2>1 DEF UpWrites, Same, Links, Dirs, Chains, UpChain, DownChain, NothingFailed, Held,
       clientRelay, nodeRelay, PipeTable, Pipes, Readable, AtEof, Room
<1>9. ASSUME UpShuts, UNCHANGED nodeRelay
      PROVE  Chains' /\ owed' \in [Dirs -> Nat]
  <2>1. /\ pipe'["tls"]["up"] = [n |-> pipe["tls"]["up"].n, end |-> IF pipe["tls"]["up"].end = "open" THEN "fin" ELSE pipe["tls"]["up"].end]
        /\ Same(pipe', "tls", "up")
    BY <1>9, <1>0, ShutPipe DEF UpShuts
  <2> QED
    BY <1>9, <1>0, <2>1 DEF UpShuts, Same, Links, Dirs, Chains, UpChain, DownChain, NothingFailed, Held,
       clientRelay, nodeRelay, PipeTable, Pipes, Readable, AtEof, Room
<1>10. ASSUME DownReads, UNCHANGED nodeRelay
      PROVE  Chains' /\ owed' \in [Dirs -> Nat]
  <2>1. /\ pipe'["tls"]["down"] = [n |-> pipe["tls"]["down"].n - 1, end |-> pipe["tls"]["down"].end]
        /\ Same(pipe', "tls", "down")
    BY <1>10, <1>0, TookPipe DEF DownReads
  <2> QED
    BY <1>10, <1>0, <2>1 DEF DownReads, Same, Links, Dirs, Chains, UpChain, DownChain, NothingFailed, Held,
       clientRelay, nodeRelay, PipeTable, Pipes, Readable, AtEof, Room
<1>11. ASSUME DownWrites, UNCHANGED nodeRelay
      PROVE  Chains' /\ owed' \in [Dirs -> Nat]
  <2>1. /\ pipe'["local"]["down"] = [n |-> pipe["local"]["down"].n + 1, end |-> "open"]
        /\ Same(pipe', "local", "down")
    BY <1>11, <1>0, GavePipe DEF DownWrites
  <2> QED
    BY <1>11, <1>0, <2>1 DEF DownWrites, Same, Links, Dirs, Chains, UpChain, DownChain, NothingFailed, Held,
       clientRelay, nodeRelay, PipeTable, Pipes, Readable, AtEof, Room
<1>12. ASSUME PumpReads("up"), UNCHANGED clientRelay
      PROVE  Chains' /\ owed' \in [Dirs -> Nat]
  <2>1. /\ pipe'["tls"]["up"] = [n |-> pipe["tls"]["up"].n - 1, end |-> pipe["tls"]["up"].end]
        /\ Same(pipe', "tls", "up")
    BY <1>12, <1>0, TookPipe DEF PumpReads, InLink
  <2> QED
    BY <1>12, <1>0, <2>1 DEF PumpReads, InLink, Same, Links, Dirs, Chains, UpChain, DownChain, NothingFailed, Held,
       clientRelay, nodeRelay, PipeTable, Pipes, Readable, AtEof, Room
<1>13. ASSUME PumpReads("down"), UNCHANGED clientRelay
      PROVE  Chains' /\ owed' \in [Dirs -> Nat]
  <2>1. /\ pipe'["far"]["down"] = [n |-> pipe["far"]["down"].n - 1, end |-> pipe["far"]["down"].end]
        /\ Same(pipe', "far", "down")
    BY <1>13, <1>0, TookPipe DEF PumpReads, InLink
  <2> QED
    BY <1>13, <1>0, <2>1 DEF PumpReads, InLink, Same, Links, Dirs, Chains, UpChain, DownChain, NothingFailed, Held,
       clientRelay, nodeRelay, PipeTable, Pipes, Readable, AtEof, Room
<1>14. ASSUME PumpWrites("up"), UNCHANGED clientRelay
      PROVE  Chains' /\ owed' \in [Dirs -> Nat]
  <2>1. /\ pipe'["far"]["up"] = [n |-> pipe["far"]["up"].n + 1, end |-> "open"]
        /\ Same(pipe', "far", "up")
    BY <1>14, <1>0, GavePipe DEF PumpWrites, OutLink
  <2> QED
    BY <1>14, <1>0, <2>1 DEF PumpWrites, OutLink, Same, Links, Dirs, Chains, UpChain, DownChain, NothingFailed, Held,
       clientRelay, nodeRelay, PipeTable, Pipes, Readable, AtEof, Room
<1>15. ASSUME PumpWrites("down"), UNCHANGED clientRelay
      PROVE  Chains' /\ owed' \in [Dirs -> Nat]
  <2>1. /\ pipe'["tls"]["down"] = [n |-> pipe["tls"]["down"].n + 1, end |-> "open"]
        /\ Same(pipe', "tls", "down")
    BY <1>15, <1>0, GavePipe DEF PumpWrites, OutLink
  <2> QED
    BY <1>15, <1>0, <2>1 DEF PumpWrites, OutLink, Same, Links, Dirs, Chains, UpChain, DownChain, NothingFailed, Held,
       clientRelay, nodeRelay, PipeTable, Pipes, Readable, AtEof, Room
<1>16. ASSUME UpEof, UNCHANGED nodeRelay
      PROVE  Chains' /\ owed' \in [Dirs -> Nat]
  BY <1>16, <1>0 DEF UpEof, Chains, UpChain, DownChain, NothingFailed, Held, clientRelay, nodeRelay, links,
     PipeTable, Pipes, Links, Dirs, AtEof
<1>17. ASSUME UpFails, UNCHANGED nodeRelay
      PROVE  Chains' /\ owed' \in [Dirs -> Nat]
  BY <1>17, <1>0 DEF UpFails, Chains, UpChain, DownChain, NothingFailed, Held, clientRelay, nodeRelay, links,
     PipeTable, Pipes, Links, Dirs, AtError, WriteFails
<1>18. ASSUME StartDrain, UNCHANGED nodeRelay
      PROVE  Chains' /\ owed' \in [Dirs -> Nat]
  BY <1>18, <1>0 DEF StartDrain, Chains, UpChain, DownChain, NothingFailed, Held, clientRelay, nodeRelay, links,
     PipeTable, Pipes, Links, Dirs
<1>19. ASSUME PumpEof("up"), UNCHANGED clientRelay
      PROVE  Chains' /\ owed' \in [Dirs -> Nat]
  BY <1>19, <1>0 DEF PumpEof, Chains, UpChain, DownChain, NothingFailed, Held, clientRelay, nodeRelay, links,
     PipeTable, Pipes, Links, Dirs, AtEof, InLink
<1>20. ASSUME PumpEof("down"), UNCHANGED clientRelay
      PROVE  Chains' /\ owed' \in [Dirs -> Nat]
  BY <1>20, <1>0 DEF PumpEof, Chains, UpChain, DownChain, NothingFailed, Held, clientRelay, nodeRelay, links,
     PipeTable, Pipes, Links, Dirs, AtEof, InLink
<1>21. ASSUME GoesQuiet, UNCHANGED clientRelay
      PROVE  Chains' /\ owed' \in [Dirs -> Nat]
  BY <1>21, <1>0 DEF GoesQuiet, Chains, UpChain, DownChain, NothingFailed, Held, clientRelay, nodeRelay, links,
     PipeTable, Pipes, Links, Dirs
<1>22. ASSUME NEW d \in Dirs, PumpFollows(d) \/ PumpReadFails(d) \/ PumpWriteFails(d)
      PROVE  FALSE
  BY <1>22, <1>0 DEF PumpFollows, PumpReadFails, PumpWriteFails, AtError, WriteFails, InLink, OutLink,
     Chains, UpChain, DownChain, NothingFailed, Dirs, Links
<1>23. ASSUME DownEnds, UNCHANGED nodeRelay
      PROVE  Chains' /\ owed' \in [Dirs -> Nat]
  <2>1. /\ pipe'["local"]["down"] =
               [n |-> pipe["local"]["down"].n,
                end |-> IF pipe["local"]["down"].end = "open" THEN "fin" ELSE pipe["local"]["down"].end]
        /\ Same(pipe', "local", "down")
    BY <1>23, <1>0, ShutPipe DEF DownEnds
  <2>2. downTask = "read" /\ AtEof("tls", "down") /\ downTask' = "ok"
    BY <1>23 DEF DownEnds, AtError, WriteFails, Chains, DownChain, NothingFailed, Links, Dirs
  <2> QED
    BY <1>23, <1>0, <2>1, <2>2
       DEF DownEnds, Same, Links, Dirs, Chains, UpChain, DownChain, NothingFailed, Held,
           nodeRelay, PipeTable, Pipes, AtEof
<1>24. ASSUME AbortOther
      PROVE  FALSE
  BY <1>24 DEF AbortOther, Chains, NothingFailed
<1>25. ASSUME Drained, UNCHANGED nodeRelay
      PROVE  Chains' /\ owed' \in [Dirs -> Nat]
  <2>1. upTask = "ok" /\ downTask = "ok"
    BY <1>25 DEF Drained, Chains, NothingFailed
  <2> DEFINE pp == Dropped(pipe, "local", "down")
  <2>2. /\ pp \in PipeTable
        /\ pp["local"]["up"] = Gone /\ pp["local"]["down"] = pipe["local"]["down"]
        /\ \A l \in {"tls", "far"}, e \in Dirs : pp[l][e] = pipe[l][e]
    <3>1. /\ Dropped(pipe, "local", "down") \in PipeTable
          /\ \A e \in Dirs : e # "down" => Dropped(pipe, "local", "down")["local"][e] = Gone
          /\ pipe["local"]["down"].end # "open" => Dropped(pipe, "local", "down")["local"]["down"] = pipe["local"]["down"]
          /\ \A l \in Links, e \in Dirs : l # "local" => Dropped(pipe, "local", "down")[l][e] = pipe[l][e]
      BY <1>0, DroppedPipe, SMTT(30)
    <3>2. pipe["local"]["down"].end # "open"
      BY <2>1 DEF Chains, DownChain
    <3> QED
      BY <3>1, <3>2 DEF Links, Dirs
  <2>3. /\ pipe'["tls"]["down"] = Gone /\ pipe'["tls"]["up"] = pp["tls"]["up"]
        /\ \A l \in {"local", "far"}, e \in Dirs : pipe'[l][e] = pp[l][e]
    <3> HIDE DEF pp
    <3>1. pp["tls"]["up"].end # "open"
      BY <2>1, <2>2 DEF Chains, UpChain
    <3>2. pipe' = Dropped(pp, "tls", "up")
      BY <1>25 DEF Drained, Returns, pp
    <3>3. /\ Dropped(pp, "tls", "up") \in PipeTable
          /\ \A e \in Dirs : e # "up" => Dropped(pp, "tls", "up")["tls"][e] = Gone
          /\ pp["tls"]["up"].end # "open" => Dropped(pp, "tls", "up")["tls"]["up"] = pp["tls"]["up"]
          /\ \A l \in Links, e \in Dirs : l # "tls" => Dropped(pp, "tls", "up")[l][e] = pp[l][e]
      BY <2>2, DroppedPipe, SMTT(30)
    <3> QED
      BY <3>1, <3>2, <3>3 DEF Links, Dirs
  <2> HIDE DEF pp
  <2> QED
    BY <1>25, <1>0, <2>1, <2>2, <2>3
       DEF Drained, Returns, Gone, Links, Dirs, Chains, UpChain, DownChain, NothingFailed, Held,
           nodeRelay, PipeTable, Pipes
<1>26. ASSUME PumpShuts("up"), UNCHANGED clientRelay
      PROVE  Chains' /\ owed' \in [Dirs -> Nat]
  <2> DEFINE shut == Shut(pipe, "far", "up")
  <2>1. /\ shut \in PipeTable
        /\ shut["far"]["up"].n = pipe["far"]["up"].n
        /\ shut["far"]["up"].end = "fin"
        /\ Same(shut, "far", "up")
    <3>1. /\ shut \in PipeTable
          /\ shut["far"]["up"] =
                 [n |-> pipe["far"]["up"].n,
                  end |-> IF pipe["far"]["up"].end = "open" THEN "fin" ELSE pipe["far"]["up"].end]
          /\ Same(shut, "far", "up")
      BY <1>0, ShutPipe
    <3>2. pipe["far"]["up"].end = "open"
      BY <1>26 DEF PumpShuts, Chains, UpChain, DownChain
    <3> QED
      BY <3>1, <3>2
  <2>2. pump["up"] = "shutOk" /\ pump' = [pump EXCEPT !["up"] = "ok"] /\ ~peerDone'
    BY <1>26, <1>0 DEF PumpShuts, Chains, NothingFailed
  <2>3. CASE pump["down"] # "ok"
    <3>1. pipe' = shut
      BY <1>26, <2>3 DEF PumpShuts, AfterPump, Ended, OutLink, Other, Chains, NothingFailed
    <3> HIDE DEF shut
    <3> QED
      BY <1>26, <1>0, <2>1, <2>2, <2>3, <3>1
         DEF PumpShuts, Same, Links, Dirs, Chains, UpChain, DownChain, NothingFailed, Held,
             clientRelay, PipeTable, Pipes
  <2>4. CASE pump["down"] = "ok"
    <3> DEFINE pp == Dropped(shut, "far", "up")
    <3>1. pipe' = Dropped(pp, "tls", "down")
      BY <1>26, <2>4 DEF PumpShuts, AfterPump, Ended, OutLink, Other
    <3>2. shut["far"]["up"].end = "fin" /\ shut["tls"]["down"].end # "open"
      BY <2>1, <2>4 DEF Same, Links, Dirs, Chains, UpChain, DownChain
    <3> HIDE DEF shut
    <3>3. /\ pp \in PipeTable
          /\ pp["far"]["down"] = Gone /\ pp["far"]["up"] = shut["far"]["up"]
          /\ \A l \in {"local", "tls"}, e \in Dirs : pp[l][e] = shut[l][e]
      <4>1. /\ Dropped(shut, "far", "up") \in PipeTable
            /\ \A e \in Dirs : e # "up" => Dropped(shut, "far", "up")["far"][e] = Gone
            /\ shut["far"]["up"].end # "open" => Dropped(shut, "far", "up")["far"]["up"] = shut["far"]["up"]
            /\ \A l \in Links, e \in Dirs : l # "far" => Dropped(shut, "far", "up")[l][e] = shut[l][e]
        BY <2>1, DroppedPipe, SMTT(30)
      <4> QED
        BY <3>2, <4>1 DEF Links, Dirs
    <3> HIDE DEF pp
    <3>4. /\ pipe'["tls"]["up"] = Gone /\ pipe'["tls"]["down"] = pp["tls"]["down"]
          /\ \A l \in {"local", "far"}, e \in Dirs : pipe'[l][e] = pp[l][e]
      <4>1. /\ Dropped(pp, "tls", "down") \in PipeTable
            /\ \A e \in Dirs : e # "down" => Dropped(pp, "tls", "down")["tls"][e] = Gone
            /\ pp["tls"]["down"].end # "open" => Dropped(pp, "tls", "down")["tls"]["down"] = pp["tls"]["down"]
            /\ \A l \in Links, e \in Dirs : l # "tls" => Dropped(pp, "tls", "down")[l][e] = pp[l][e]
        BY <3>3, DroppedPipe, SMTT(30)
      <4> QED
        BY <3>1, <3>2, <3>3, <4>1 DEF Links, Dirs
    <3> QED
      BY <1>26, <1>0, <2>1, <2>2, <2>4, <3>3, <3>4
         DEF PumpShuts, Same, Gone, Links, Dirs, Chains, UpChain, DownChain, NothingFailed, Held,
             clientRelay, PipeTable, Pipes
  <2> QED
    BY <2>3, <2>4
<1>27. ASSUME PumpShuts("down"), UNCHANGED clientRelay
      PROVE  Chains' /\ owed' \in [Dirs -> Nat]
  <2> DEFINE shut == Shut(pipe, "tls", "down")
  <2>1. /\ shut \in PipeTable
        /\ shut["tls"]["down"].n = pipe["tls"]["down"].n
        /\ shut["tls"]["down"].end = "fin"
        /\ Same(shut, "tls", "down")
    <3>1. /\ shut \in PipeTable
          /\ shut["tls"]["down"] =
                 [n |-> pipe["tls"]["down"].n,
                  end |-> IF pipe["tls"]["down"].end = "open" THEN "fin" ELSE pipe["tls"]["down"].end]
          /\ Same(shut, "tls", "down")
      BY <1>0, ShutPipe
    <3>2. pipe["tls"]["down"].end = "open"
      BY <1>27 DEF PumpShuts, Chains, UpChain, DownChain
    <3> QED
      BY <3>1, <3>2
  <2>2. pump["down"] = "shutOk" /\ pump' = [pump EXCEPT !["down"] = "ok"] /\ ~peerDone'
    BY <1>27, <1>0 DEF PumpShuts, Chains, NothingFailed
  <2>3. CASE pump["up"] # "ok"
    <3>1. pipe' = shut
      BY <1>27, <2>3 DEF PumpShuts, AfterPump, Ended, OutLink, Other, Chains, NothingFailed
    <3> HIDE DEF shut
    <3> QED
      BY <1>27, <1>0, <2>1, <2>2, <2>3, <3>1
         DEF PumpShuts, Same, Links, Dirs, Chains, UpChain, DownChain, NothingFailed, Held,
             clientRelay, PipeTable, Pipes
  <2>4. CASE pump["up"] = "ok"
    <3> DEFINE pp == Dropped(shut, "far", "up")
    <3>1. pipe' = Dropped(pp, "tls", "down")
      BY <1>27, <2>4 DEF PumpShuts, AfterPump, Ended, OutLink, Other
    <3>2. shut["far"]["up"].end = "fin" /\ shut["tls"]["down"].end # "open"
      BY <2>1, <2>4 DEF Same, Links, Dirs, Chains, UpChain, DownChain
    <3> HIDE DEF shut
    <3>3. /\ pp \in PipeTable
          /\ pp["far"]["down"] = Gone /\ pp["far"]["up"] = shut["far"]["up"]
          /\ \A l \in {"local", "tls"}, e \in Dirs : pp[l][e] = shut[l][e]
      <4>1. /\ Dropped(shut, "far", "up") \in PipeTable
            /\ \A e \in Dirs : e # "up" => Dropped(shut, "far", "up")["far"][e] = Gone
            /\ shut["far"]["up"].end # "open" => Dropped(shut, "far", "up")["far"]["up"] = shut["far"]["up"]
            /\ \A l \in Links, e \in Dirs : l # "far" => Dropped(shut, "far", "up")[l][e] = shut[l][e]
        BY <2>1, DroppedPipe, SMTT(30)
      <4> QED
        BY <3>2, <4>1 DEF Links, Dirs
    <3> HIDE DEF pp
    <3>4. /\ pipe'["tls"]["up"] = Gone /\ pipe'["tls"]["down"] = pp["tls"]["down"]
          /\ \A l \in {"local", "far"}, e \in Dirs : pipe'[l][e] = pp[l][e]
      <4>1. /\ Dropped(pp, "tls", "down") \in PipeTable
            /\ \A e \in Dirs : e # "down" => Dropped(pp, "tls", "down")["tls"][e] = Gone
            /\ pp["tls"]["down"].end # "open" => Dropped(pp, "tls", "down")["tls"]["down"] = pp["tls"]["down"]
            /\ \A l \in Links, e \in Dirs : l # "tls" => Dropped(pp, "tls", "down")[l][e] = pp[l][e]
        BY <3>3, DroppedPipe, SMTT(30)
      <4> QED
        BY <3>1, <3>2, <3>3, <4>1 DEF Links, Dirs
    <3> QED
      BY <1>27, <1>0, <2>1, <2>2, <2>4, <3>3, <3>4
         DEF PumpShuts, Same, Gone, Links, Dirs, Chains, UpChain, DownChain, NothingFailed, Held,
             clientRelay, PipeTable, Pipes
  <2> QED
    BY <2>3, <2>4
<1>28. ASSUME NEW d \in Dirs, NEW conn \in Links,
              EndCloses(d) \/ LinkBreaks(conn) \/ DrainTimesOut \/ PumpExpires(d) \/ PumpWriteTimesOut(d)
      PROVE  FALSE
  BY <1>28 DEF EndCloses, LinkBreaks, DrainTimesOut, PumpExpires, PumpWriteTimesOut, Cuts
<1>29. ASSUME UNCHANGED vars
      PROVE  Chains' /\ owed' \in [Dirs -> Nat]
  BY <1>29 DEF vars, links, clientRelay, nodeRelay, Chains, UpChain, DownChain, NothingFailed
<1>30. CASE LinksNext /\ UNCHANGED <<clientRelay, nodeRelay>>
  BY <1>1, <1>2, <1>3, <1>4, <1>5, <1>6, <1>28, <1>30 DEF LinksNext, Dirs
<1>31. CASE ClientNext /\ UNCHANGED nodeRelay
  BY <1>7, <1>8, <1>9, <1>10, <1>11, <1>16, <1>17, <1>18, <1>23, <1>24, <1>25, <1>28, <1>31
     DEF ClientNext, UpStep, DownStep, MainStep
<1>32. CASE NodeNext /\ UNCHANGED clientRelay
  BY <1>12, <1>13, <1>14, <1>15, <1>19, <1>20, <1>21, <1>22, <1>26, <1>27, <1>28, <1>32
     DEF NodeNext, PumpStep, Dirs
<1> QED
  BY <1>29, <1>30, <1>31, <1>32 DEF Next

(* What the connections and the two buffers of a direction hold is bounded.   *)
LEMMA OwedBound ==
    ASSUME Shapes, Chains, owed \in [Dirs -> Nat]
    PROVE  owed \in [Dirs -> 0..3 * Cap + 2]
<1>1. /\ \A conn \in Links, d \in Dirs : pipe[conn][d].n \in 0..Cap
      /\ \A task : Held(task) \in 0..1
  BY DEF Shapes, PipeTable, Pipes, Held
<1>2. owed["up"] <= 3 * Cap + 2
  BY <1>1, CapAssumption, Names DEF Chains, UpChain
<1>3. owed["down"] <= 3 * Cap + 2
  BY <1>1, CapAssumption, Names DEF Chains, DownChain
<1> QED
  BY <1>2, <1>3, CapAssumption, Names DEF Dirs

(* TypeOK in the two parts that are proved separately.                        *)
LEMMA Typing == TypeOK <=> Shapes /\ owed \in [Dirs -> 0..3 * Cap + 2]
BY DEF TypeOK, Shapes, PipeTable

(* Initially nothing is under way.                                            *)
LEMMA InitInvariant == Init => IInv
<1> SUFFICES ASSUME Init PROVE IInv
  OBVIOUS
<1>1. Fresh \in Pipes /\ \A conn \in Links, d \in Dirs : pipe[conn][d] = Fresh
  BY CapAssumption DEF Fresh, Pipes, Init, LinksInit
<1>2. Shapes
  BY <1>1 DEF Init, LinksInit, ClientInit, NodeInit, Shapes, PipeTable
<1>3. Chains
  BY <1>1, Names DEF Init, LinksInit, ClientInit, NodeInit, Fresh, Settled, Chains, UpChain, DownChain,
     NothingFailed, Held
<1>4. owed \in [Dirs -> Nat]
  BY DEF Init, LinksInit, Settled
<1> QED
  BY <1>2, <1>3, <1>4, OwedBound, Typing DEF Init, LinksInit, IInv

(* Once cut, nothing is owed for good.                                        *)
LEMMA CutStep == (cut => owed = Settled) /\ [Next]_vars => (cut' => owed' = Settled) /\ (cut => cut')
<1> SUFFICES ASSUME cut => owed = Settled, [Next]_vars
             PROVE  (cut' => owed' = Settled) /\ (cut => cut')
  OBVIOUS
<1>1. CASE LinksNext
  BY <1>1 DEF LinksNext, EndSends, EndShuts, EndReads, EndCloses, LinkBreaks, Cuts
<1>2. CASE ClientNext
  BY <1>2 DEF ClientNext, UpStep, DownStep, MainStep, UpReads, UpWrites, UpEof, UpShuts, UpFails,
     DownReads, DownWrites, DownEnds, StartDrain, AbortOther, Drained, DrainTimesOut, Cuts, links
<1>3. CASE NodeNext
  BY <1>3 DEF NodeNext, PumpStep, PumpReads, PumpWrites, PumpEof, PumpFollows, PumpExpires,
     PumpReadFails, PumpWriteFails, PumpWriteTimesOut, PumpShuts, GoesQuiet, Cuts, links
<1>4. CASE UNCHANGED vars
  BY <1>4 DEF vars, links
<1> QED
  BY <1>1, <1>2, <1>3, <1>4 DEF Next

(* Every step keeps the invariant.                                            *)
LEMMA StepInvariant == IInv /\ [Next]_vars => IInv'
<1> SUFFICES ASSUME IInv, [Next]_vars PROVE IInv'
  OBVIOUS
<1>1. Shapes /\ owed \in [Dirs -> Nat] /\ (cut => owed = Settled) /\ (~cut => Chains)
  BY Typing DEF IInv
<1>2. Shapes'
  BY <1>1, ShapesStep
<1>3. (cut' => owed' = Settled) /\ (cut => cut')
  BY <1>1, CutStep
<1>4. CASE cut'
  <2>1. owed' \in [Dirs -> 0..3 * Cap + 2]
    BY <1>3, <1>4, CapAssumption DEF Settled
  <2> QED
    BY <1>2, <1>3, <1>4, <2>1 DEF IInv, TypeOK, Shapes, PipeTable
<1>5. CASE ~cut'
  <2>1. Chains' /\ owed' \in [Dirs -> Nat]
    BY <1>1, <1>3, <1>5, ChainsStep
  <2>2. (Shapes /\ Chains /\ owed \in [Dirs -> Nat] => owed \in [Dirs -> 0..3 * Cap + 2])'
    BY OwedBound, PTL
  <2>3. owed' \in [Dirs -> 0..3 * Cap + 2]
    BY <1>2, <2>1, <2>2
  <2> QED
    BY <1>2, <1>3, <1>5, <2>1, <2>3 DEF IInv, TypeOK, Shapes, PipeTable
<1> QED
  BY <1>2, <1>4, <1>5 DEF Shapes

(* The chains of both directions hold in every state that is not cut.         *)
THEOREM Invariant == Spec => []IInv
BY InitInvariant, StepInvariant, PTL DEF Spec

(* Types, and no more chunks under way than connections and buffers hold:     *)
(* nothing arrives twice and nothing that was not sent.                       *)
THEOREM TypeCorrect == Spec => []TypeOK
<1>1. IInv => TypeOK
  BY DEF IInv
<1> QED
  BY <1>1, Invariant, PTL

(* The half-close property for connections of any capacity: what the tasks of *)
(* relay_bidirectional and the two pumps pass on is complete before its end.  *)
THEOREM HalfCloseIsComplete == Spec => []CompleteUnlessCut
<1>1. IInv => CompleteUnlessCut
  <2> SUFFICES ASSUME IInv, NEW d \in Dirs, AtEof(SinkLink(d), d), ~cut
               PROVE  owed[d] = 0 /\ pipe[SourceLink(d)][d].end # "open"
    BY DEF CompleteUnlessCut
  <2>1. Chains
    BY DEF IInv
  <2>2. CASE d = "up"
    BY <2>1, <2>2 DEF Chains, UpChain, Held, AtEof, SinkLink, SourceLink
  <2>3. CASE d = "down"
    BY <2>1, <2>3 DEF Chains, DownChain, Held, AtEof, SinkLink, SourceLink
  <2> QED
    BY <2>2, <2>3 DEF Dirs
<1> QED
  BY <1>1, Invariant, PTL

-----------------------------------------------------------------------------
(* The local front end: one connection from its first byte to its relay.      *)
Tokens  == {"g", "m", "q", "a", "1", "2", "h", "e", "x"}
Replies == Final \cup {"00"}

ConnTyped ==
    /\ req \in [Conns -> Requests]
    /\ st \in [Conns -> Stages]
    /\ inp \in [Conns -> Seq(Tokens)]
    /\ buf \in [Conns -> Seq(Tokens)]
    /\ fwd \in [Conns -> Seq(Tokens)]
    /\ told \in [Conns -> Seq(Replies)]
    /\ link \in [Conns -> Nodes \cup {"direct", Nowhere}]
    /\ tried \in [Conns -> SUBSET Nodes]

Untouched == {"new", "detect"}
Open      == Stages \ {"relay", "done"}
Asking    == Untouched \cup Reading \cup {"route", "direct"}

(* The tokens of the request that have been used up at each stage.            *)
Used(c) == CASE st[c] \in Untouched \cup {"greet", "http"} -> 0
             [] st[c] = "methods" -> 1
             [] st[c] = "head" -> 2
             [] st[c] = "addr" -> 3
             [] OTHER -> IF req[c].proto = "socks" THEN 5 ELSE 0

Rest(s, k) == SubSeq(s, k + 1, Len(s))

(* Which protocols come to which stage.                                       *)
RightStage(c) ==
    /\ st[c] = "detect" => req[c].proto # "tun"
    /\ st[c] \in DOMAIN Units => req[c].proto = "socks"
    /\ st[c] = "http" => req[c].proto \in {"connect", "http"}
    /\ st[c] \notin Untouched \cup {"done"} => req[c].proto # "junk"

(* Until the relay nothing has gone out, and what was read and not used, with *)
(* what was not read, is what remains of the request; a CONNECT goes on only  *)
(* with its head complete, or nothing more to come.                           *)
Stream(c) ==
    /\ st[c] \in Open => /\ fwd[c] = <<>>
                         /\ buf[c] \o inp[c] = Rest(Bytes(req[c]), Used(c))
    /\ st[c] \in Untouched \cup {"done"} => buf[c] = <<>>
    /\ st[c] \in Open \ (Untouched \cup Reading) /\ req[c].proto = "connect" =>
           HeadEnd \in ToSet(buf[c]) \/ inp[c] = <<>>
    /\ st[c] = "relay" =>
           IF req[c].proto = "connect"
           THEN \E k \in 0..Len(Body(req[c])) : fwd[c] \o buf[c] \o inp[c] = Rest(Body(req[c]), k)
           ELSE fwd[c] \o buf[c] \o inp[c] = Body(req[c])

(* There is no final answer before the relay, and a link once it is claimed.  *)
Told(c) ==
    /\ st[c] \in Open => Answers(c) = {}
    /\ st[c] \in Asking => tried[c] = {}
    /\ st[c] \in {"warm", "cold", "linked", "relay"} => link[c] # Nowhere
    /\ \A i, j \in Answers(c) : i = j
    /\ \A i \in Answers(c) : told[c][i] \in {"ok", "200"} => link[c] # Nowhere
    /\ st[c] = "done" /\ link[c] = Nowhere /\ tried[c] # {} => Answers(c) # {} /\ fwd[c] = <<>>

ConnInv(c) == RightStage(c) /\ Stream(c) /\ Told(c)
FrontInv   == ConnTyped /\ \A c \in Conns : ConnInv(c)

(* What remains of a sequence after its first k elements.                     *)
LEMMA RestIs ==
    ASSUME NEW T, NEW s \in Seq(T), NEW k \in 0..Len(s)
    PROVE  /\ Rest(s, k) \in Seq(T) /\ Len(Rest(s, k)) = Len(s) - k
           /\ \A i \in 1..(Len(s) - k) : Rest(s, k)[i] = s[k + i]
  <1>1. k \in Int /\ k + 1 \in Int /\ Len(s) \in Int /\ \A i \in (k + 1)..Len(s) : s[i] \in T
    OBVIOUS
  <1>2. /\ Rest(s, k) \in Seq(T)
        /\ Len(Rest(s, k)) = IF k + 1 <= Len(s) THEN Len(s) - (k + 1) + 1 ELSE 0
        /\ \A i \in 1..(Len(s) - (k + 1) + 1) : Rest(s, k)[i] = s[k + 1 + i - 1]
    BY <1>1, SubSeqProperties DEF Rest
  <1>3. Len(Rest(s, k)) = Len(s) - k
    BY <1>1, <1>2
  <1>4. ASSUME NEW i \in 1..(Len(s) - k) PROVE Rest(s, k)[i] = s[k + i]
    <2>1. i \in 1..(Len(s) - (k + 1) + 1) /\ k + 1 + i - 1 = k + i
      BY <1>1
    <2>2. QED
      BY <1>2, <2>1
  <1>5. QED
    BY <1>2, <1>3, <1>4

(* Taken in two steps.                                                        *)
LEMMA RestOfRest ==
    ASSUME NEW T, NEW s \in Seq(T), NEW k \in 0..Len(s), NEW n \in 0..(Len(s) - k)
    PROVE  Rest(Rest(s, k), n) = Rest(s, k + n)
  <1> DEFINE p == Rest(s, k)
             q == Rest(p, n)
             r == Rest(s, k + n)
  <1>1. p \in Seq(T) /\ Len(p) = Len(s) - k /\ \A i \in 1..(Len(s) - k) : p[i] = s[k + i]
    BY RestIs
  <1>2. n \in 0..Len(p) /\ k + n \in 0..Len(s) /\ Len(s) \in Nat
    BY <1>1
  <1>3. q \in Seq(T) /\ Len(q) = Len(p) - n /\ \A i \in 1..(Len(p) - n) : q[i] = p[n + i]
    <2> HIDE DEF p
    <2>1. QED
      BY <1>1, <1>2, RestIs
  <1>4. r \in Seq(T) /\ Len(r) = Len(s) - (k + n) /\ \A i \in 1..(Len(s) - (k + n)) : r[i] = s[k + n + i]
    BY <1>2, RestIs
  <1> HIDE DEF p, q, r
  <1>5. \A i \in 1..Len(q) : q[i] = r[i]
    <2> SUFFICES ASSUME NEW i \in 1..Len(q) PROVE q[i] = r[i]
      OBVIOUS
    <2>1. n + i \in 1..(Len(s) - k) /\ i \in 1..(Len(s) - (k + n)) /\ k + (n + i) = k + n + i
      BY <1>1, <1>2, <1>3
    <2>2. QED
      BY <1>1, <1>3, <1>4, <2>1
  <1>6. q = r
    BY <1>1, <1>2, <1>3, <1>4, <1>5, SeqEqual
  <1>7. QED
    BY <1>6 DEF p, q, r

(* Nothing taken, and everything.                                             *)
LEMMA RestEnds ==
    ASSUME NEW T, NEW s \in Seq(T) PROVE Rest(s, 0) = s /\ Rest(s, Len(s)) = <<>>
  <1>1. Rest(s, 0) = s
    BY SubSeqFull DEF Rest
  <1>2. Rest(s, Len(s)) = <<>>
    BY SubSeqEmpty DEF Rest
  <1>3. QED
    BY <1>1, <1>2

(* A read moves tokens from the socket to the buffer.                         *)
LEMMA ReadMoves ==
    ASSUME NEW T, NEW b \in Seq(T), NEW s \in Seq(T), NEW k \in 1..Len(s)
    PROVE  /\ b \o SubSeq(s, 1, k) \in Seq(T) /\ Rest(s, k) \in Seq(T)
           /\ (b \o SubSeq(s, 1, k)) \o Rest(s, k) = b \o s
  <1>1. SubSeq(s, 1, k) \in Seq(T) /\ Rest(s, k) \in Seq(T)
    BY SubSeqProperties, RestIs
  <1>2. SubSeq(s, 1, k) \o Rest(s, k) = s
    <2>1. SubSeq(s, 1, k) \o SubSeq(s, k + 1, Len(s)) = SubSeq(s, 1, Len(s))
      BY ConcatAdjacentSubSeq
    <2>2. QED
      BY <2>1, SubSeqFull DEF Rest
  <1>3. (b \o SubSeq(s, 1, k)) \o Rest(s, k) = b \o (SubSeq(s, 1, k) \o Rest(s, k))
    BY <1>1, ConcatAssociative
  <1>4. b \o SubSeq(s, 1, k) \in Seq(T)
    BY <1>1, ConcatProperties
  <1>5. QED
    BY <1>1, <1>2, <1>3, <1>4

(* What is used up is in the buffer, or all of the buffer and some of the     *)
(* socket.                                                                    *)
LEMMA UsedFromBuffer ==
    ASSUME NEW T, NEW b \in Seq(T), NEW s \in Seq(T), NEW k \in 0..Len(b)
    PROVE  Rest(b, k) \in Seq(T) /\ Rest(b, k) \o s = Rest(b \o s, k)
  <1> DEFINE p == Rest(b, k)
             u == b \o s
             r == Rest(u, k)
             x == Len(b)
             y == Len(s)
  <1>1. k \in Nat /\ x \in Nat /\ y \in Nat /\ k <= x
    OBVIOUS
  <1>2. /\ u \in Seq(T) /\ Len(u) = x + y
        /\ \A i \in 1..(x + y) : u[i] = IF i <= x THEN b[i] ELSE s[i - x]
    BY ConcatProperties
  <1>3. p \in Seq(T) /\ Len(p) = x - k /\ \A i \in 1..(x - k) : p[i] = b[k + i]
    BY RestIs
  <1> HIDE DEF u
  <1>4. r \in Seq(T) /\ Len(r) = x + y - k /\ \A i \in 1..(x + y - k) : r[i] = u[k + i]
    <2>1. u \in Seq(T) /\ Len(u) = x + y
      BY <1>2
    <2>2. k \in 0..Len(u)
      BY <1>1, <2>1
    <2>3. r \in Seq(T) /\ Len(r) = Len(u) - k /\ \A i \in 1..(Len(u) - k) : r[i] = u[k + i]
      BY <2>1, <2>2, RestIs
    <2>4. QED
      BY <2>1, <2>3
  <1> HIDE DEF p, r
  <1>5. /\ p \o s \in Seq(T) /\ Len(p \o s) = x - k + y
        /\ \A i \in 1..(x - k + y) : (p \o s)[i] = IF i <= x - k THEN p[i] ELSE s[i - (x - k)]
    <2>1. p \in Seq(T) /\ Len(p) = x - k
      BY <1>3
    <2>2. /\ p \o s \in Seq(T) /\ Len(p \o s) = Len(p) + y
          /\ \A i \in 1..(Len(p) + y) : (p \o s)[i] = IF i <= Len(p) THEN p[i] ELSE s[i - Len(p)]
      BY <2>1, ConcatProperties
    <2>3. QED
      BY <2>1, <2>2
  <1> HIDE DEF x, y
  <1>6. \A i \in 1..(x + y - k) : (p \o s)[i] = r[i]
    <2> SUFFICES ASSUME NEW i \in 1..(x + y - k) PROVE (p \o s)[i] = r[i]
      OBVIOUS
    <2>1. i \in 1..(x - k + y) /\ k + i \in 1..(x + y) /\ i \in Nat
      BY <1>1
    <2>2. CASE i <= x - k
      <3>1. i \in 1..(x - k) /\ k + i <= x
        BY <1>1, <2>1, <2>2
      <3>2. QED
        BY <1>2, <1>3, <1>4, <1>5, <2>1, <2>2, <3>1
    <2>3. CASE ~(i <= x - k)
      <3>1. ~(k + i <= x) /\ i - (x - k) = k + i - x
        BY <1>1, <2>1, <2>3
      <3>2. r[i] = u[k + i] /\ u[k + i] = s[k + i - x]
        <4>1. r[i] = u[k + i]
          BY <1>4
        <4>2. u[k + i] = IF k + i <= x THEN b[k + i] ELSE s[k + i - x]
          BY <1>1, <1>2, <2>1
        <4>3. QED
          BY <4>1, <4>2, <2>1, <3>1
      <3>3. (p \o s)[i] = s[i - (x - k)]
        BY <1>5, <2>1, <2>3
      <3>4. QED
        BY <3>1, <3>2, <3>3
    <2>4. QED
      BY <2>2, <2>3
  <1>7. x - k + y = x + y - k
    BY <1>1
  <1>8. p \o s = r
    BY <1>4, <1>5, <1>6, <1>7, SeqEqual
  <1>9. QED
    BY <1>3, <1>8 DEF p, r, u

(* What is used up is more than the buffer holds: the rest comes from the socket. *)
LEMMA UsedFromBoth ==
    ASSUME NEW T, NEW b \in Seq(T), NEW s \in Seq(T), NEW k \in Len(b)..(Len(b) + Len(s))
    PROVE  Rest(s, k - Len(b)) \in Seq(T) /\ Rest(s, k - Len(b)) = Rest(b \o s, k)
  <1> DEFINE u == b \o s
             r == Rest(u, k)
             x == Len(b)
             y == Len(s)
             q == Rest(s, k - x)
  <1>1. k \in Nat /\ x \in Nat /\ y \in Nat /\ k >= x /\ k <= x + y
    OBVIOUS
  <1>2. /\ u \in Seq(T) /\ Len(u) = x + y
        /\ \A i \in 1..(x + y) : u[i] = IF i <= x THEN b[i] ELSE s[i - x]
    BY ConcatProperties
  <1>3. q \in Seq(T) /\ Len(q) = y - (k - x) /\ \A i \in 1..(y - (k - x)) : q[i] = s[k - x + i]
    <2>1. k - x \in 0..y
      BY <1>1
    <2>2. QED
      BY <2>1, RestIs
  <1> HIDE DEF u
  <1>4. r \in Seq(T) /\ Len(r) = x + y - k /\ \A i \in 1..(x + y - k) : r[i] = u[k + i]
    <2>1. u \in Seq(T) /\ Len(u) = x + y
      BY <1>2
    <2>2. k \in 0..Len(u)
      BY <1>1, <2>1
    <2>3. r \in Seq(T) /\ Len(r) = Len(u) - k /\ \A i \in 1..(Len(u) - k) : r[i] = u[k + i]
      BY <2>1, <2>2, RestIs
    <2>4. QED
      BY <2>1, <2>3
  <1> HIDE DEF q, r, x, y
  <1>5. \A i \in 1..(x + y - k) : q[i] = r[i]
    <2> SUFFICES ASSUME NEW i \in 1..(x + y - k) PROVE q[i] = r[i]
      OBVIOUS
    <2>1. /\ i \in 1..(y - (k - x)) /\ k + i \in 1..(x + y) /\ ~(k + i <= x)
          /\ k - x + i = k + i - x
      BY <1>1
    <2>2. q[i] = s[k - x + i]
      BY <1>3, <2>1
    <2>3. r[i] = u[k + i] /\ u[k + i] = s[k + i - x]
      <3>1. r[i] = u[k + i]
        BY <1>4
      <3>2. u[k + i] = IF k + i <= x THEN b[k + i] ELSE s[k + i - x]
        BY <1>1, <1>2, <2>1
      <3>3. QED
        BY <3>1, <3>2, <2>1
    <2>4. QED
      BY <2>1, <2>2, <2>3
  <1>6. y - (k - x) = x + y - k
    BY <1>1
  <1>7. q = r
    BY <1>3, <1>4, <1>5, <1>6, SeqEqual
  <1>8. QED
    BY <1>3, <1>7 DEF q, r, u, x

(* What has come together with the head is lost to a CONNECT.                 *)
LEMMA WithoutBuffer ==
    ASSUME NEW T, NEW b \in Seq(T), NEW s \in Seq(T)
    PROVE  s = Rest(b \o s, Len(b))
  <1>1. Len(b) \in 0..Len(b)
    OBVIOUS
  <1>2. Rest(b, Len(b)) \o s = Rest(b \o s, Len(b))
    BY <1>1, UsedFromBuffer
  <1>3. Rest(b, Len(b)) = <<>>
    BY RestEnds
  <1>4. QED
    BY <1>2, <1>3, ConcatEmptySeq

(* What an application may send.                                              *)
LEMMA BytesOf ==
    ASSUME NEW r \in Requests
    PROVE  /\ Bytes(r) \in Seq(Tokens) /\ Body(r) \in Seq(Tokens)
           /\ r.proto = "socks" => Len(Bytes(r)) = 7
  <1>1. r.proto \in {"socks", "connect", "http", "tun", "junk"}
    BY DEF Requests
  <1>2. /\ <<"g", "m", "q", "a", "a", "1", "2">> \in Seq(Tokens) /\ <<"h", "e", "1", "2">> \in Seq(Tokens)
        /\ <<"x">> \in Seq(Tokens) /\ <<"1", "2">> \in Seq(Tokens) /\ <<"h", "1", "2">> \in Seq(Tokens)
        /\ Len(<<"g", "m", "q", "a", "a", "1", "2">>) = 7
    BY DEF Tokens
  <1>3. Bytes(r) \in Seq(Tokens)
    <2>1. CASE r.proto = "socks"
      BY <1>2, <2>1 DEF Bytes, SocksBytes
    <2>2. CASE r.proto = "junk"
      BY <1>2, <2>2 DEF Bytes
    <2>3. CASE r.proto = "tun"
      BY <1>2, <2>3 DEF Bytes
    <2>4. CASE r.proto \in {"connect", "http"}
      <3>1. Bytes(r) = <<"h", "1", "2">> \/ Bytes(r) = <<"h", "e", "1", "2">>
        BY <2>4 DEF Bytes, HttpBytes
      <3>2. QED
        BY <1>2, <3>1
    <2>5. QED
      BY <1>1, <2>1, <2>2, <2>3, <2>4
  <1>4. Body(r) \in Seq(Tokens)
    BY <1>2, <1>3 DEF Body
  <1>5. r.proto = "socks" => Len(Bytes(r)) = 7
    <2>1. ASSUME r.proto = "socks" PROVE Bytes(r) = <<"g", "m", "q", "a", "a", "1", "2">>
      BY <2>1 DEF Bytes, SocksBytes
    <2>2. QED
      BY <1>2, <2>1
  <1>6. QED
    BY <1>3, <1>4, <1>5

(* An action of one connection leaves the others where they are.              *)
Stays(d) ==
    /\ st'[d] = st[d] /\ inp'[d] = inp[d] /\ buf'[d] = buf[d] /\ fwd'[d] = fwd[d]
    /\ told'[d] = told[d] /\ link'[d] = link[d] /\ tried'[d] = tried[d]

Elsewhere(c) == \A d \in Conns \ {c} : Stays(d)

(* A connection that stays where it is stays sound.                           *)
LEMMA StaysSound ==
    ASSUME FrontInv, NEW d \in Conns, Stays(d), UNCHANGED <<host, req>>
    PROVE  ConnInv(d)'
  <1>1. /\ st'[d] = st[d] /\ inp'[d] = inp[d] /\ buf'[d] = buf[d] /\ fwd'[d] = fwd[d]
        /\ told'[d] = told[d] /\ link'[d] = link[d] /\ tried'[d] = tried[d]
        /\ req' = req /\ host' = host
    BY DEF Stays
  <1>2. ConnInv(d)
    BY DEF FrontInv
  <1>3. RightStage(d)'
    BY <1>1, <1>2 DEF ConnInv, RightStage
  <1>4. Stream(d)'
    <2>1. Used(d)' = Used(d)
      BY <1>1 DEF Used
    <2>2. QED
      BY <1>1, <1>2, <2>1 DEF ConnInv, Stream
  <1>5. Told(d)'
    <2>1. Answers(d)' = Answers(d)
      BY <1>1 DEF Answers
    <2>2. QED
      BY <1>1, <1>2, <2>1 DEF ConnInv, Told
  <1>6. QED
    BY <1>3, <1>4, <1>5 DEF ConnInv

(* So only the connection that acts is looked at.                             *)
LEMMA OneConnection ==
    ASSUME FrontInv, NEW c \in Conns, ConnTyped', UNCHANGED <<host, req>>, Elsewhere(c), ConnInv(c)'
    PROVE  FrontInv'
BY StaysSound DEF FrontInv, Elsewhere

(* The next stage, with nothing else changed.                                 *)
LEMMA MovesOn ==
    ASSUME FrontInv, NEW c \in Conns, NEW s \in Open, st[c] \in Open, Goes(c, s),
           UNCHANGED <<host, req, inp, buf, fwd, told, link, tried>>,
           s \in Asking => st[c] \in Asking,
           s \in {"warm", "cold", "linked"} => st[c] \in {"warm", "cold", "linked"},
           s \in Untouched => st[c] \in Untouched,
           Used(c)' = Used(c),
           RightStage(c)',
           s \notin Untouched \cup Reading /\ req[c].proto = "connect" =>
               HeadEnd \in ToSet(buf[c]) \/ inp[c] = <<>>
    PROVE  FrontInv'
  <1>1. /\ ConnTyped' /\ Elsewhere(c) /\ st'[c] = s
    BY DEF FrontInv, ConnTyped, Goes, Elsewhere, Stays, Open
  <1>2. ConnInv(c)
    BY DEF FrontInv
  <1>3. Stream(c)'
    BY <1>1, <1>2 DEF ConnInv, Stream, Open
  <1>4. Told(c)'
    <2>1. Answers(c)' = Answers(c)
      BY DEF Answers
    <2>2. QED
      BY <1>1, <1>2, <2>1 DEF ConnInv, Told, Open
  <1>5. ConnInv(c)'
    BY <1>3, <1>4 DEF ConnInv
  <1>6. QED
    BY <1>1, <1>5, OneConnection

(* An answer more.                                                            *)
LEMMA OneAnswer ==
    ASSUME ConnTyped, NEW c \in Conns, NEW a \in Replies, Answer(c, a)
    PROVE  /\ told' \in [Conns -> Seq(Replies)]
           /\ \A d \in Conns \ {c} : told'[d] = told[d]
           /\ Answers(c)' = Answers(c) \cup {i \in {Len(told[c]) + 1} : a \in Final}
           /\ \A i \in Answers(c) : told'[c][i] = told[c][i]
           /\ told'[c][Len(told[c]) + 1] = a
  <1> DEFINE t == told[c]
             u == Append(t, a)
  <1>1. t \in Seq(Replies)
    BY DEF ConnTyped
  <1>2. told' = [told EXCEPT ![c] = u]
    BY DEF Answer
  <1> HIDE DEF t
  <1>3. /\ u \in Seq(Replies) /\ DOMAIN u = 1..(Len(t) + 1) /\ Len(t) \in Nat /\ DOMAIN t = 1..Len(t)
        /\ \A i \in 1..Len(t) : u[i] = t[i]
        /\ u[Len(t) + 1] = a
    BY <1>1, AppendProperties
  <1> HIDE DEF u
  <1>4. told' \in [Conns -> Seq(Replies)] /\ told'[c] = u /\ \A d \in Conns \ {c} : told'[d] = told[d]
    BY <1>2, <1>3 DEF ConnTyped
  <1>5. Answers(c)' = {i \in DOMAIN u : u[i] \in Final} /\ Answers(c) = {i \in DOMAIN t : t[i] \in Final}
    BY <1>4 DEF Answers, t
  <1>6. DOMAIN u = DOMAIN t \cup {Len(t) + 1}
    BY <1>3
  <1>7. Answers(c)' = Answers(c) \cup {i \in {Len(t) + 1} : a \in Final}
    <2>1. ASSUME NEW i PROVE i \in Answers(c)' <=> i \in Answers(c) \/ (i = Len(t) + 1 /\ a \in Final)
      <3>1. CASE i \in DOMAIN t
        <4>1. i # Len(t) + 1 /\ u[i] = t[i]
          BY <1>3, <3>1
        <4>2. QED
          BY <1>5, <1>6, <3>1, <4>1
      <3>2. CASE i \notin DOMAIN t
        BY <1>3, <1>5, <1>6, <3>2
      <3>3. QED
        BY <3>1, <3>2
    <2>2. QED
      BY <2>1
  <1>8. QED
    BY <1>3, <1>4, <1>5, <1>7 DEF t

(* The end of a connection that has not come to its relay: answered or not,   *)
(* and with a final answer where a node has been tried in vain.               *)
LEMMA ClosesEarly ==
    ASSUME FrontInv, NEW c \in Conns, st[c] \in Open, Closes(c),
           \/ told' = told
           \/ \E a \in Replies \ {"ok", "200"} : Answer(c, a),
           link' = link \/ link' = [link EXCEPT ![c] = Nowhere],
           tried[c] = {} \/ link'[c] # Nowhere \/ \E a \in Final : Answer(c, a),
           UNCHANGED <<host, req, fwd, tried>>
    PROVE  FrontInv'
  <1>1. ConnInv(c) /\ ConnTyped
    BY DEF FrontInv
  <1>2. /\ st' \in [Conns -> Stages] /\ st'[c] = "done" /\ \A d \in Conns \ {c} : st'[d] = st[d]
        /\ inp' \in [Conns -> Seq(Tokens)] /\ inp'[c] = <<>> /\ \A d \in Conns \ {c} : inp'[d] = inp[d]
        /\ buf' \in [Conns -> Seq(Tokens)] /\ buf'[c] = <<>> /\ \A d \in Conns \ {c} : buf'[d] = buf[d]
    BY <1>1 DEF Closes, Goes, ConnTyped, Stages
  <1>3. link' \in [Conns -> Nodes \cup {"direct", Nowhere}] /\ \A d \in Conns \ {c} : link'[d] = link[d]
    BY <1>1 DEF ConnTyped
  <1>4. Answers(c) = {} /\ fwd[c] = <<>>
    BY <1>1 DEF ConnInv, Told, Stream
  <1>5. /\ told' \in [Conns -> Seq(Replies)] /\ \A d \in Conns \ {c} : told'[d] = told[d]
        /\ \A i, j \in Answers(c)' : i = j
        /\ \A i \in Answers(c)' : told'[c][i] \notin {"ok", "200"}
    <2>1. CASE told' = told
      <3>1. Answers(c)' = Answers(c)
        BY <2>1 DEF Answers
      <3>2. QED
        BY <1>1, <1>4, <2>1, <3>1 DEF ConnTyped
    <2>2. CASE \E a \in Replies \ {"ok", "200"} : Answer(c, a)
      <3>1. PICK a \in Replies \ {"ok", "200"} : Answer(c, a)
        BY <2>2
      <3>2. QED
        BY <1>1, <1>4, <3>1, OneAnswer, SMTT(30)
    <2>3. QED
      BY <2>1, <2>2
  <1>6. tried[c] # {} /\ link'[c] = Nowhere => Answers(c)' # {}
    <2> SUFFICES ASSUME tried[c] # {}, link'[c] = Nowhere PROVE Answers(c)' # {}
      OBVIOUS
    <2>1. PICK a \in Final : Answer(c, a)
      OBVIOUS
    <2>2. a \in Replies
      BY DEF Replies
    <2>3. Answers(c)' = Answers(c) \cup {i \in {Len(told[c]) + 1} : a \in Final}
      BY <1>1, <2>1, <2>2, OneAnswer
    <2>4. QED
      BY <2>3
  <1>7. ConnTyped' /\ Elsewhere(c)
    BY <1>1, <1>2, <1>3, <1>5 DEF ConnTyped, Elsewhere, Stays
  <1>8. RightStage(c)' /\ Stream(c)'
    BY <1>2 DEF RightStage, Stream, Open, Untouched, Reading, Units
  <1>9. Told(c)'
    BY <1>2, <1>4, <1>5, <1>6 DEF Told, Open, Asking, Untouched, Reading
  <1>10. QED
    BY <1>7, <1>8, <1>9, OneConnection DEF ConnInv

(* A read, which leaves what is still to be used.                             *)
LEMMA ReadsOn ==
    ASSUME FrontInv, NEW c \in Conns, st[c] \in Open, ReadSome(c)
    PROVE  /\ buf' \in [Conns -> Seq(Tokens)] /\ inp' \in [Conns -> Seq(Tokens)]
           /\ \A d \in Conns \ {c} : buf'[d] = buf[d] /\ inp'[d] = inp[d]
           /\ buf'[c] \o inp'[c] = buf[c] \o inp[c]
  <1>1. PICK k \in 1..Len(inp[c]) :
           /\ buf' = [buf EXCEPT ![c] = buf[c] \o SubSeq(inp[c], 1, k)]
           /\ inp' = [inp EXCEPT ![c] = Rest(inp[c], k)]
    BY DEF ReadSome, Rest
  <1>2. buf[c] \in Seq(Tokens) /\ inp[c] \in Seq(Tokens)
    BY DEF FrontInv, ConnTyped
  <1> DEFINE b == buf[c] \o SubSeq(inp[c], 1, k)
             s == Rest(inp[c], k)
  <1>3. b \in Seq(Tokens) /\ s \in Seq(Tokens) /\ b \o s = buf[c] \o inp[c]
    <2> DEFINE x == buf[c]
               y == inp[c]
    <2>1. x \in Seq(Tokens) /\ y \in Seq(Tokens) /\ k \in 1..Len(y)
      BY <1>1, <1>2
    <2> HIDE DEF x, y
    <2>2. /\ x \o SubSeq(y, 1, k) \in Seq(Tokens) /\ Rest(y, k) \in Seq(Tokens)
          /\ (x \o SubSeq(y, 1, k)) \o Rest(y, k) = x \o y
      BY <2>1, ReadMoves, SMTT(30)
    <2>3. QED
      BY <2>2 DEF x, y
  <1>4. buf' = [buf EXCEPT ![c] = b] /\ inp' = [inp EXCEPT ![c] = s]
    BY <1>1
  <1> HIDE DEF b, s
  <1>5. QED
    BY <1>3, <1>4 DEF FrontInv, ConnTyped

(* The reads of the detection and of the HTTP head.                           *)
LEMMA ReadsKeep ==
    ASSUME FrontInv, NEW c \in Conns, NEW s \in {"greet", "http"}, st[c] \in {"detect", "http"},
           ReadSome(c), Goes(c, s), UNCHANGED <<host, req, fwd, told, link, tried>>,
           IF s = "greet" THEN req[c].proto = "socks" ELSE req[c].proto \in {"connect", "http"}
    PROVE  FrontInv'
  <1>1. ConnInv(c) /\ ConnTyped /\ st[c] \in Open
    BY DEF FrontInv, Open, Stages, Reading
  <1>2. /\ buf' \in [Conns -> Seq(Tokens)] /\ inp' \in [Conns -> Seq(Tokens)]
        /\ \A d \in Conns \ {c} : buf'[d] = buf[d] /\ inp'[d] = inp[d]
        /\ buf'[c] \o inp'[c] = buf[c] \o inp[c]
    BY <1>1, ReadsOn
  <1>3. st' \in [Conns -> Stages] /\ st'[c] = s /\ \A d \in Conns \ {c} : st'[d] = st[d]
    BY <1>1 DEF ConnTyped, Goes, Stages, Reading
  <1>4. ConnTyped' /\ Elsewhere(c)
    BY <1>1, <1>2, <1>3 DEF ConnTyped, Elsewhere, Stays
  <1>5. RightStage(c)'
    BY <1>3 DEF RightStage, Units
  <1>6. Stream(c)'
    <2>1. Used(c)' = 0 /\ Used(c) = 0
      BY <1>3 DEF Used, Untouched
    <2>2. QED
      BY <1>1, <1>2, <1>3, <2>1 DEF ConnInv, Stream, Open, Untouched, Reading
  <1>7. Told(c)'
    <2>1. Answers(c)' = Answers(c)
      BY DEF Answers
    <2>2. QED
      BY <1>1, <1>3, <2>1 DEF ConnInv, Told, Open, Asking, Reading, Untouched
  <1>8. QED
    BY <1>4, <1>5, <1>6, <1>7, OneConnection DEF ConnInv

(* A read of so many tokens takes them off the front of what is to be used.   *)
LEMMA ReadExactKeeps ==
    ASSUME FrontInv, NEW c \in Conns, NEW k \in 1..2, st[c] \in Open, ReadExact(c, k)
    PROVE  /\ buf' \in [Conns -> Seq(Tokens)] /\ inp' \in [Conns -> Seq(Tokens)]
           /\ \A d \in Conns \ {c} : buf'[d] = buf[d] /\ inp'[d] = inp[d]
           /\ k <= Len(buf[c] \o inp[c])
           /\ buf'[c] \o inp'[c] = Rest(buf[c] \o inp[c], k)
  <1> DEFINE x == buf[c]
             y == inp[c]
             old == IF Len(x) < k THEN Len(x) ELSE k
             b == Rest(x, old)
             s == Rest(y, k - old)
  <1>1. x \in Seq(Tokens) /\ y \in Seq(Tokens) /\ Len(x) \in Nat /\ Len(y) \in Nat
    BY DEF FrontInv, ConnTyped
  <1>2. Len(x) + Len(y) >= k
    BY DEF ReadExact
  <1>3. buf' = [buf EXCEPT ![c] = b] /\ inp' = [inp EXCEPT ![c] = s]
    BY DEF ReadExact, Rest
  <1> HIDE DEF x, y
  <1>4. b \in Seq(Tokens) /\ s \in Seq(Tokens) /\ b \o s = Rest(x \o y, k)
    <2>1. CASE Len(x) < k
      <3>1. old = Len(x) /\ k \in Len(x)..(Len(x) + Len(y))
        BY <1>1, <1>2, <2>1
      <3>2. Rest(y, k - Len(x)) \in Seq(Tokens) /\ Rest(y, k - Len(x)) = Rest(x \o y, k)
        BY <1>1, <3>1, UsedFromBoth
      <3>3. b = <<>> /\ s = Rest(y, k - Len(x))
        BY <1>1, <3>1, RestEnds
      <3> HIDE DEF b, s
      <3>4. QED
        BY <3>2, <3>3, ConcatEmptySeq
    <2>2. CASE ~(Len(x) < k)
      <3>1. old = k /\ k \in 0..Len(x) /\ k - old = 0
        BY <1>1, <2>2
      <3> HIDE DEF old
      <3>2. Rest(x, k) \in Seq(Tokens) /\ Rest(x, k) \o y = Rest(x \o y, k)
        BY <1>1, <3>1, UsedFromBuffer, SMTT(30)
      <3>3. b = Rest(x, k) /\ s = y
        BY <1>1, <3>1, RestEnds
      <3> HIDE DEF b, s
      <3>4. QED
        BY <1>1, <3>2, <3>3
    <2>3. QED
      BY <2>1, <2>2
  <1>5. k <= Len(x \o y)
    BY <1>1, <1>2, ConcatProperties
  <1> HIDE DEF b, s
  <1>6. QED
    BY <1>3, <1>4, <1>5 DEF FrontInv, ConnTyped, x, y

(* A stage of the SOCKS negotiation.                                          *)
LEMMA SocksKeeps ==
    ASSUME FrontInv, NEW c \in Conns, Socks(c) PROVE FrontInv'
  <1>1. ConnInv(c) /\ ConnTyped /\ st[c] \in DOMAIN Units /\ st[c] \in Open /\ req[c] \in Requests
    BY DEF FrontInv, Socks, ConnTyped, Units, Open, Stages, Reading
  <1>2. UNCHANGED <<host, req, fwd, link, tried>>
    BY DEF Socks, Quiet
  <1>3. st[c] \in {"greet", "methods", "head", "addr"} /\ req[c].proto = "socks"
    BY <1>1 DEF Units, ConnInv, RightStage
  <1>4. CASE req[c].flaw \in Flaws[st[c]]
    <2>1. Closes(c) /\ Answer(c, Refusal[req[c].flaw])
      BY <1>4 DEF Socks
    <2>2. req[c].flaw \in {"noMethods", "auth", "version", "command", "atyp", "emptyName"}
      BY <1>3, <1>4 DEF Flaws
    <2>3. Refusal[req[c].flaw] \in Replies \ {"ok", "200"}
      BY <2>2 DEF Refusal, Replies, Final
    <2>4. tried[c] = {}
      BY <1>1, <1>3 DEF ConnInv, Told, Asking, Reading
    <2>5. QED
      BY <1>1, <1>2, <2>1, <2>3, <2>4, ClosesEarly
  <1>5. CASE req[c].flaw \notin Flaws[st[c]]
    <2> DEFINE k == Units[st[c]]
               s == After[st[c]]
    <2>1. ReadExact(c, k) /\ Goes(c, s) /\ IF st[c] = "methods" THEN Answer(c, "00") ELSE told' = told
      BY <1>5 DEF Socks
    <2>2. /\ k \in 1..2 /\ s \in {"methods", "head", "addr", "route"}
          /\ Used(c) = CASE st[c] = "greet" -> 0 [] st[c] = "methods" -> 1
                         [] st[c] = "head" -> 2 [] st[c] = "addr" -> 3
      BY <1>3 DEF Units, After, Used, Untouched
    <2>3. st' \in [Conns -> Stages] /\ st'[c] = s /\ \A d \in Conns \ {c} : st'[d] = st[d]
      BY <1>1, <2>1, <2>2 DEF ConnTyped, Goes, Stages, Reading
    <2>4. Used(c)' = Used(c) + k /\ Used(c) \in 0..3 /\ Used(c) + k <= 5
      BY <1>2, <1>3, <2>3 DEF Used, Untouched, Units, After
    <2> HIDE DEF k, s
    <2>5. /\ buf' \in [Conns -> Seq(Tokens)] /\ inp' \in [Conns -> Seq(Tokens)]
          /\ \A d \in Conns \ {c} : buf'[d] = buf[d] /\ inp'[d] = inp[d]
          /\ k <= Len(buf[c] \o inp[c])
          /\ buf'[c] \o inp'[c] = Rest(buf[c] \o inp[c], k)
      BY <1>1, <2>1, <2>2, ReadExactKeeps
    <2>6. /\ told' \in [Conns -> Seq(Replies)] /\ \A d \in Conns \ {c} : told'[d] = told[d]
          /\ Answers(c)' = {}
      <3>1. Answers(c) = {}
        BY <1>1 DEF ConnInv, Told
      <3>2. CASE told' = told
        BY <1>1, <3>1, <3>2 DEF ConnTyped, Answers
      <3>3. CASE Answer(c, "00")
        <4>1. "00" \in Replies /\ "00" \notin Final
          BY DEF Replies, Final
        <4>2. QED
          BY <1>1, <3>1, <3>3, <4>1, OneAnswer
      <3>4. QED
        BY <2>1, <3>2, <3>3
    <2>7. ConnTyped' /\ Elsewhere(c)
      BY <1>1, <1>2, <2>3, <2>5, <2>6 DEF ConnTyped, Elsewhere, Stays
    <2>8. RightStage(c)'
      BY <1>2, <1>3, <2>2, <2>3 DEF RightStage
    <2>9. Stream(c)'
      <3> DEFINE B == Bytes(req[c])
                 u == Used(c)
      <3>1. B \in Seq(Tokens) /\ Len(B) = 7
        BY <1>1, <1>3, BytesOf
      <3>2. buf[c] \o inp[c] = Rest(B, u) /\ fwd[c] = <<>>
        BY <1>1 DEF ConnInv, Stream
      <3> HIDE DEF B, u
      <3>3. Rest(Rest(B, u), k) = Rest(B, u + k)
        <4>1. u \in 0..Len(B) /\ k \in 0..(Len(B) - u)
          <5>1. u \in 0..3 /\ u + k <= 5 /\ k \in 1..2
            BY <2>2, <2>4 DEF u
          <5>2. QED
            BY <3>1, <5>1
        <4>2. QED
          BY <3>1, <4>1, RestOfRest
      <3>4. buf'[c] \o inp'[c] = Rest(B, Used(c)') /\ B' = B
        BY <1>2, <2>4, <2>5, <3>2, <3>3 DEF u, B
      <3>5. QED
        BY <1>2, <1>3, <2>2, <2>3, <3>2, <3>4 DEF Stream, Open, Untouched, B
    <2>10. Told(c)'
      BY <1>1, <1>2, <1>3, <2>2, <2>3, <2>6 DEF ConnInv, Told, Asking, Reading, Untouched
    <2>11. QED
      BY <1>2, <2>7, <2>8, <2>9, <2>10, OneConnection DEF ConnInv
  <1>6. QED
    BY <1>4, <1>5

(* The negotiation as a whole: a failed read, a flawed request, or on.        *)
LEMMA ParseKeeps ==
    ASSUME FrontInv, NEW c \in Conns, Parse(c) PROVE FrontInv'
  <1>1. ConnInv(c) /\ ConnTyped /\ req[c] \in Requests
    BY DEF FrontInv, ConnTyped
  <1>2. st[c] \in Reading => st[c] \in Open /\ tried[c] = {}
    BY <1>1 DEF Reading, Open, Stages, ConnInv, Told, Asking
  <1>3. /\ {"ff", "01", "400"} \subseteq Replies \ {"ok", "200"}
        /\ req[c].proto \in {"socks", "connect", "http", "tun", "junk"}
    BY <1>1 DEF Replies, Final, Requests
  <1>4. CASE Detect(c)
    <2>1. st[c] = "detect" /\ UNCHANGED <<host, req, fwd, link, tried>> /\ req[c].proto # "tun"
      BY <1>1, <1>4 DEF Detect, Quiet, ConnInv, RightStage
    <2>2. CASE req[c].proto = "socks"
      <3>1. ReadSome(c) /\ Goes(c, "greet") /\ told' = told
        BY <1>4, <2>2 DEF Detect
      <3>2. QED
        BY <2>1, <2>2, <3>1, ReadsKeep
    <2>3. CASE req[c].proto = "junk"
      <3>1. Closes(c) /\ Answer(c, "400")
        BY <1>4, <2>3 DEF Detect
      <3>2. QED
        BY <1>2, <1>3, <2>1, <3>1, ClosesEarly DEF Reading
    <2>4. CASE req[c].proto \in {"connect", "http"}
      <3>1. ReadSome(c) /\ Goes(c, "http") /\ told' = told
        BY <1>4, <2>4 DEF Detect
      <3>2. QED
        BY <2>1, <2>4, <3>1, ReadsKeep
    <2>5. QED
      BY <1>3, <2>1, <2>2, <2>3, <2>4
  <1>5. CASE ReadFails(c)
    <2>1. /\ st[c] \in Reading /\ Closes(c) /\ UNCHANGED <<host, req, fwd, link, tried>>
          /\ Answer(c, "ff") \/ Answer(c, "01") \/ told' = told
      BY <1>5 DEF ReadFails, Quiet
    <2>2. QED
      BY <1>2, <1>3, <2>1, ClosesEarly
  <1>6. CASE Socks(c)
    BY <1>6, SocksKeeps
  <1>7. CASE HttpMore(c)
    <2>1. /\ st[c] = "http" /\ ReadSome(c) /\ UNCHANGED <<host, req, st, fwd, told, link, tried>>
          /\ req[c].proto \in {"connect", "http"}
      BY <1>1, <1>7 DEF HttpMore, Quiet, ConnInv, RightStage
    <2>2. Goes(c, "http")
      BY <1>1, <2>1 DEF Goes, ConnTyped
    <2>3. QED
      BY <2>1, <2>2, ReadsKeep
  <1>8. CASE HttpHead(c)
    <2>1. /\ st[c] = "http" /\ UNCHANGED <<host, req, fwd, link, tried>>
          /\ HeadEnd \in ToSet(buf[c]) \/ inp[c] = <<>>
          /\ req[c].proto \in {"connect", "http"}
      BY <1>1, <1>8 DEF HttpHead, Quiet, ConnInv, RightStage
    <2>2. CASE Goes(c, "route") /\ UNCHANGED <<told, inp, buf>>
      <3>1. st'[c] = "route"
        BY <1>1, <2>2 DEF Goes, ConnTyped
      <3>2. Used(c)' = Used(c)
        BY <2>1, <3>1 DEF Used, Untouched
      <3>3. RightStage(c)'
        BY <2>1, <3>1 DEF RightStage, Units
      <3>4. "route" \in Open /\ "route" \notin Untouched /\ "http" \in Open /\ "http" \in Asking
        BY DEF Open, Stages, Untouched, Asking, Reading
      <3>5. QED
        BY <2>1, <2>2, <3>2, <3>3, <3>4, MovesOn
    <2>3. CASE Closes(c) /\ Answer(c, "400")
      BY <1>2, <1>3, <2>1, <2>3, ClosesEarly DEF Reading
    <2>4. QED
      BY <1>8, <2>2, <2>3 DEF HttpHead
  <1>9. QED
    BY <1>4, <1>5, <1>6, <1>7, <1>8 DEF Parse

(* A connection is accepted, or a flow asks for its channel.                  *)
LEMMA AcceptsKeep ==
    ASSUME FrontInv, NEW c \in Conns, Accept(c) \/ TunOpens(c) PROVE FrontInv'
  <1>1. ConnInv(c) /\ ConnTyped /\ st[c] = "new"
    BY DEF FrontInv, Accept, TunOpens
  <1>2. CASE Accept(c)
    <2>1. Goes(c, "detect") /\ UNCHANGED <<host, req, inp, buf, fwd, told, link, tried>> /\ req[c].proto # "tun"
      BY <1>2 DEF Accept, Quiet
    <2>2. st'[c] = "detect"
      BY <1>1, <2>1 DEF Goes, ConnTyped
    <2>3. Used(c)' = Used(c) /\ RightStage(c)'
      BY <1>1, <2>1, <2>2 DEF Used, Untouched, RightStage, Units
    <2>4. "detect" \in Open /\ "new" \in Open /\ "new" \in Asking /\ "new" \in Untouched /\ "detect" \in Untouched
      BY DEF Open, Stages, Untouched, Asking, Reading
    <2>5. QED
      BY <1>1, <2>1, <2>3, <2>4, MovesOn
  <1>3. CASE TunOpens(c)
    <2>1. Goes(c, "route") /\ UNCHANGED <<host, req, inp, buf, fwd, told, link, tried>> /\ req[c].proto = "tun"
      BY <1>3 DEF TunOpens
    <2>2. st'[c] = "route"
      BY <1>1, <2>1 DEF Goes, ConnTyped
    <2>3. Used(c)' = Used(c) /\ RightStage(c)'
      BY <1>1, <2>1, <2>2 DEF Used, Untouched, RightStage, Units
    <2>4. "route" \in Open /\ "new" \in Open /\ "new" \in Asking /\ "route" \notin Untouched
      BY DEF Open, Stages, Untouched, Asking, Reading
    <2>5. QED
      BY <1>1, <2>1, <2>3, <2>4, MovesOn
  <1>4. QED
    BY <1>2, <1>3

Linking == {"route", "direct", "pick", "warm", "cold", "linked"}

(* From the request to the link: stages that follow one another with nothing  *)
(* else changed.                                                              *)
LEMMA LinksOn ==
    ASSUME FrontInv, NEW c \in Conns, NEW s \in Linking, st[c] \in Linking, Goes(c, s),
           UNCHANGED <<host, req, inp, buf, fwd, told, link, tried>>,
           s \in {"route", "direct"} => st[c] = "route",
           s \in {"warm", "cold", "linked"} => st[c] \in {"warm", "cold"}
    PROVE  FrontInv'
  <1>1. ConnInv(c) /\ ConnTyped
    BY DEF FrontInv
  <1>2. st[c] \in Open /\ s \in Open /\ st'[c] = s /\ s \notin Untouched /\ st[c] \notin Untouched \cup Reading
    BY <1>1 DEF ConnTyped, Goes, Linking, Open, Stages, Reading, Untouched
  <1>3. Used(c)' = Used(c) /\ RightStage(c)'
    <2>1. Used(c)' = Used(c)
      BY <1>2 DEF Used, Linking, Untouched
    <2>2. RightStage(c)'
      BY <1>1, <1>2 DEF ConnInv, RightStage, Units, Linking, Untouched
    <2>3. QED
      BY <2>1, <2>2
  <1>4. s \in Asking => st[c] \in Asking
    BY DEF Asking, Linking, Reading, Untouched
  <1>5. req[c].proto = "connect" => HeadEnd \in ToSet(buf[c]) \/ inp[c] = <<>>
    BY <1>1, <1>2 DEF ConnInv, Stream
  <1>6. QED
    BY <1>2, <1>3, <1>4, <1>5, MovesOn

(* A request is given up, and answered.                                       *)
LEMMA FailureKeeps ==
    ASSUME FrontInv, NEW c \in Conns, st[c] \in Linking, Failure(c), UNCHANGED <<host, req, fwd, tried>>
    PROVE  FrontInv'
  <1>1. st[c] \in Open /\ Closes(c) /\ link' = [link EXCEPT ![c] = Nowhere]
    BY DEF Failure, Linking, Open, Stages, Reading
  <1>2. Answer(c, "01") \/ Answer(c, "error") \/ Answer(c, "502")
    BY DEF Failure
  <1>3. {"01", "error", "502"} \subseteq Final /\ {"01", "error", "502"} \subseteq Replies \ {"ok", "200"}
    BY DEF Final, Replies
  <1>4. (\E a \in Final : Answer(c, a)) /\ \E a \in Replies \ {"ok", "200"} : Answer(c, a)
    BY <1>2, <1>3
  <1>5. QED
    BY <1>1, <1>4, ClosesEarly

(* A link is made: the stage and the link change, and the nodes tried.        *)
LEMMA LinkMade ==
    ASSUME FrontInv, NEW c \in Conns, NEW s \in {"warm", "cold", "linked"}, NEW l \in Nodes \cup {"direct"},
           st[c] \in {"direct", "pick"}, Goes(c, s), link' = [link EXCEPT ![c] = l],
           tried' \in [Conns -> SUBSET Nodes], \A d \in Conns \ {c} : tried'[d] = tried[d],
           UNCHANGED <<host, req, inp, buf, fwd, told>>
    PROVE  FrontInv'
  <1>1. ConnInv(c) /\ ConnTyped /\ l # Nowhere
    BY FrontAssumption DEF FrontInv
  <1>2. /\ st' \in [Conns -> Stages] /\ st'[c] = s /\ \A d \in Conns \ {c} : st'[d] = st[d]
        /\ link' \in [Conns -> Nodes \cup {"direct", Nowhere}] /\ link'[c] = l
        /\ \A d \in Conns \ {c} : link'[d] = link[d]
    BY <1>1 DEF ConnTyped, Goes, Stages
  <1>3. ConnTyped' /\ Elsewhere(c)
    BY <1>1, <1>2 DEF ConnTyped, Elsewhere, Stays
  <1>4. RightStage(c)'
    BY <1>1, <1>2 DEF ConnInv, RightStage, Units, Untouched
  <1>5. Stream(c)'
    <2>1. Used(c)' = Used(c)
      BY <1>2 DEF Used, Untouched
    <2>2. QED
      BY <1>1, <1>2, <2>1 DEF ConnInv, Stream, Open, Stages, Untouched, Reading
  <1>6. Told(c)'
    <2>1. Answers(c)' = Answers(c)
      BY DEF Answers
    <2>2. Answers(c) = {}
      BY <1>1 DEF ConnInv, Told, Open, Stages, Reading
    <2>3. QED
      BY <1>1, <1>2, <2>1, <2>2 DEF Told, Asking, Reading, Untouched
  <1>7. QED
    BY <1>3, <1>4, <1>5, <1>6, OneConnection DEF ConnInv

(* What a CONNECT sends on: what has not been read, which is a final part of  *)
(* what was meant for the remote side, since the head was read to its end.    *)
LEMMA HeadLeftOut ==
    ASSUME NEW r \in Requests, r.proto = "connect", NEW b \in Seq(Tokens), NEW s \in Seq(Tokens),
           b \o s = Bytes(r), HeadEnd \in ToSet(b) \/ s = <<>>
    PROVE  \E k \in 0..Len(Body(r)) : s = Rest(Body(r), k)
  <1> DEFINE B == <<"1", "2">>
  <1>1. Body(r) = B /\ B \in Seq(Tokens) /\ Len(B) = 2
    BY DEF Body, Tokens
  <1>2. CASE s = <<>>
    <2>1. s = Rest(B, 2)
      BY <1>1, <1>2, RestEnds
    <2> HIDE DEF B
    <2>2. QED
      BY <1>1, <2>1
  <1>3. CASE HeadEnd \in ToSet(b)
    <2>1. PICK i \in 1..Len(b) : b[i] = "e"
      BY <1>3 DEF HeadEnd, ToSet
    <2> DEFINE u == <<"h", "e", "1", "2">>
    <2>2. Len(b) \in Nat /\ Len(b \o s) = Len(b) + Len(s) /\ (b \o s)[i] = "e" /\ Len(s) \in Nat
      BY <2>1, ConcatProperties
    <2>3. b \o s = <<"h", "1", "2">> \/ b \o s = u
      BY DEF Bytes, HttpBytes
    <2>4. b \o s = u /\ i = 2
      <3>1. i \in 1..Len(b \o s)
        BY <2>1, <2>2
      <3>2. \A j \in 1..3 : <<"h", "1", "2">>[j] # "e"
        OBVIOUS
      <3>3. \A j \in 1..4 : u[j] = "e" => j = 2
        OBVIOUS
      <3>4. Len(<<"h", "1", "2">>) = 3 /\ Len(u) = 4
        OBVIOUS
      <3> DEFINE q == <<"h", "1", "2">>
      <3> HIDE DEF q, u
      <3>5. CASE b \o s = q
        BY <2>2, <3>1, <3>2, <3>4, <3>5 DEF q
      <3>6. CASE b \o s = u
        BY <2>2, <3>1, <3>3, <3>4, <3>6
      <3>7. QED
        BY <2>3, <3>5, <3>6 DEF q, u
    <2>5. u \in Seq(Tokens) /\ Len(u) = 4 /\ u[3] = "1" /\ u[4] = "2" /\ B[1] = "1" /\ B[2] = "2"
      BY DEF Tokens
    <2> HIDE DEF u, B
    <2>6. Len(b) \in 2..4 /\ Len(s) = 4 - Len(b)
      <3> DEFINE x == Len(b)
                 y == Len(s)
      <3>1. x + y = 4
        BY <2>2, <2>4, <2>5
      <3>2. x \in Nat /\ y \in Nat /\ x >= 2
        BY <2>1, <2>2, <2>4
      <3> HIDE DEF x, y
      <3>3. x \in 2..4 /\ y = 4 - x
        BY <3>1, <3>2
      <3>4. QED
        BY <3>3 DEF x, y
    <2>7. \A j \in 1..Len(s) : s[j] = u[Len(b) + j]
      <3> SUFFICES ASSUME NEW j \in 1..Len(s) PROVE s[j] = u[Len(b) + j]
        OBVIOUS
      <3>1. Len(b) + j \in 1..(Len(b) + Len(s)) /\ ~(Len(b) + j <= Len(b)) /\ Len(b) + j - Len(b) = j
        BY <2>2
      <3>2. (b \o s)[Len(b) + j] = s[Len(b) + j - Len(b)]
        BY <2>2, <3>1, ConcatProperties
      <3>3. QED
        BY <2>4, <3>1, <3>2
    <2> DEFINE k == Len(b) - 2
               t == Rest(B, k)
    <2>8. k \in 0..2 /\ Len(s) = 2 - k
      BY <2>6
    <2>9. t \in Seq(Tokens) /\ Len(t) = 2 - k /\ \A j \in 1..(2 - k) : t[j] = B[k + j]
      <3>1. k \in 0..Len(B) /\ B \in Seq(Tokens)
        BY <1>1, <2>8
      <3>2. t \in Seq(Tokens) /\ Len(t) = Len(B) - k /\ \A j \in 1..(Len(B) - k) : t[j] = B[k + j]
        BY <3>1, RestIs
      <3>3. QED
        BY <1>1, <3>2
    <2>10. \A j \in 1..Len(s) : s[j] = t[j]
      <3> SUFFICES ASSUME NEW j \in 1..(2 - k) PROVE s[j] = t[j]
        BY <2>8
      <3> HIDE DEF t
      <3>1. s[j] = u[k + 2 + j] /\ t[j] = B[k + j] /\ k + j \in 1..2
        BY <2>2, <2>7, <2>8, <2>9, SMTT(30)
      <3>2. \A m \in 1..2 : u[2 + m] = B[m]
        BY <2>5
      <3>3. k + 2 + j = 2 + (k + j)
        BY <2>8
      <3>4. QED
        BY <3>1, <3>2, <3>3
    <2>11. s = t
      BY <2>8, <2>9, <2>10, SeqEqual
    <2>12. QED
      BY <1>1, <2>8, <2>11
  <1>4. QED
    BY <1>2, <1>3

(* The relay starts with everything that is meant for the remote side.        *)
LEMMA RelayStarts ==
    ASSUME FrontInv, NEW c \in Conns, StartRelay(c) PROVE FrontInv'
  <1>1. /\ ConnInv(c) /\ ConnTyped /\ st[c] = "linked" /\ st[c] \in Open
        /\ req[c] \in Requests /\ Goes(c, "relay") /\ UNCHANGED <<host, req, inp, link, tried>>
    BY DEF FrontInv, StartRelay, ConnTyped, Open, Stages
  <1>2. req[c].proto \in {"socks", "connect", "http", "tun"}
    BY <1>1 DEF ConnInv, RightStage, Requests, Untouched
  <1>3. Answers(c) = {} /\ fwd[c] = <<>> /\ link[c] # Nowhere /\ tried[c] \in SUBSET Nodes
    BY <1>1 DEF ConnInv, Stream, Told, ConnTyped
  <1>4. st' \in [Conns -> Stages] /\ st'[c] = "relay" /\ \A d \in Conns \ {c} : st'[d] = st[d]
    BY <1>1 DEF ConnTyped, Goes, Stages
  <1>5. buf[c] \in Seq(Tokens) /\ inp[c] \in Seq(Tokens) /\ Bytes(req[c]) \in Seq(Tokens)
    BY <1>1, BytesOf DEF ConnTyped
  <1>6. /\ buf' \in [Conns -> Seq(Tokens)] /\ fwd' \in [Conns -> Seq(Tokens)]
        /\ \A d \in Conns \ {c} : buf'[d] = buf[d] /\ fwd'[d] = fwd[d]
        /\ req[c].proto = "socks" => buf'[c] = buf[c] /\ fwd'[c] = <<>>
        /\ req[c].proto = "connect" => buf'[c] = <<>> /\ fwd'[c] = <<>>
        /\ req[c].proto \in {"http", "tun"} => buf'[c] = <<>> /\ fwd'[c] = buf[c]
    <2>1. CASE req[c].proto = "socks"
      BY <1>1, <1>3, <2>1 DEF StartRelay, ConnTyped
    <2>2. CASE req[c].proto = "connect"
      BY <1>1, <1>3, <2>2 DEF StartRelay, ConnTyped
    <2>3. CASE req[c].proto \in {"http", "tun"}
      <3>1. fwd' = [fwd EXCEPT ![c] = buf[c]] /\ buf' = [buf EXCEPT ![c] = <<>>]
        BY <2>3 DEF StartRelay
      <3>2. QED
        BY <1>1, <1>5, <2>3, <3>1 DEF ConnTyped
    <2>4. QED
      BY <1>2, <2>1, <2>2, <2>3
  <1>7. /\ told' \in [Conns -> Seq(Replies)] /\ \A d \in Conns \ {c} : told'[d] = told[d]
        /\ \A i, j \in Answers(c)' : i = j
    <2>1. CASE told' = told
      <3>1. Answers(c)' = Answers(c)
        BY <2>1 DEF Answers
      <3>2. QED
        BY <1>1, <1>3, <2>1, <3>1 DEF ConnTyped
    <2>2. CASE Answer(c, "ok") \/ Answer(c, "200")
      <3>1. {"ok", "200"} \subseteq Replies
        BY DEF Replies, Final
      <3>2. QED
        BY <1>1, <1>3, <2>2, <3>1, OneAnswer
    <2>3. told' = told \/ Answer(c, "ok") \/ Answer(c, "200")
      BY <1>2 DEF StartRelay
    <2>4. QED
      BY <2>1, <2>2, <2>3
  <1>8. ConnTyped' /\ Elsewhere(c)
    BY <1>1, <1>4, <1>6, <1>7 DEF ConnTyped, Elsewhere, Stays
  <1>9. RightStage(c)'
    BY <1>1, <1>2, <1>4 DEF RightStage, Units
  <1>10. Stream(c)'
    <2>1. buf[c] \o inp[c] = Rest(Bytes(req[c]), Used(c))
      BY <1>1 DEF ConnInv, Stream
    <2>2. CASE req[c].proto = "socks"
      <3> DEFINE B == <<"g", "m", "q", "a", "a", "1", "2">>
                 w == <<"1", "2">>
      <3>1. Used(c) = 5 /\ Body(req[c]) = w /\ Bytes(req[c]) = B
        BY <1>1, <2>2 DEF Used, Untouched, Body, Bytes, SocksBytes
      <3>2. B \in Seq(Tokens) /\ Len(B) = 7 /\ w \in Seq(Tokens) /\ Len(w) = 2 /\ B[6] = w[1] /\ B[7] = w[2]
        BY DEF Tokens
      <3> HIDE DEF B, w
      <3>3. Rest(B, 5) = w
        <4>1. Rest(B, 5) \in Seq(Tokens) /\ Len(Rest(B, 5)) = 2 /\ \A i \in 1..2 : Rest(B, 5)[i] = B[5 + i]
          <5>1. 5 \in 0..Len(B) /\ Len(B) - 5 = 2
            BY <3>2
          <5>2. /\ Rest(B, 5) \in Seq(Tokens) /\ Len(Rest(B, 5)) = Len(B) - 5
                /\ \A i \in 1..(Len(B) - 5) : Rest(B, 5)[i] = B[5 + i]
            BY <3>2, <5>1, RestIs
          <5>3. QED
            BY <5>1, <5>2
        <4>2. \A i \in 1..2 : B[5 + i] = w[i]
          BY <3>2
        <4>3. QED
          BY <3>2, <4>1, <4>2, SeqEqual
      <3>4. fwd'[c] \o buf'[c] \o inp'[c] = Body(req[c])
        <4>1. <<>> \o buf[c] = buf[c]
          BY <1>5, ConcatEmptySeq
        <4>2. QED
          BY <1>1, <1>6, <2>1, <2>2, <3>1, <3>3, <4>1
      <3>5. QED
        BY <1>1, <1>4, <2>2, <3>4 DEF Stream, Open, Untouched
    <2>3. CASE req[c].proto # "socks"
      <3>1. buf[c] \o inp[c] = Bytes(req[c])
        <4>1. Used(c) = 0
          BY <1>1, <2>3 DEF Used, Untouched
        <4>2. QED
          BY <1>5, <2>1, <4>1, RestEnds
      <3>2. CASE req[c].proto = "connect"
        <4>1. HeadEnd \in ToSet(buf[c]) \/ inp[c] = <<>>
          BY <1>1, <3>2 DEF ConnInv, Stream, Untouched, Reading
        <4>2. \E k \in 0..Len(Body(req[c])) : inp[c] = Rest(Body(req[c]), k)
          BY <1>1, <1>5, <3>1, <3>2, <4>1, HeadLeftOut
        <4>3. fwd'[c] \o buf'[c] \o inp'[c] = inp[c]
          <5>1. <<>> \o <<>> = <<>> /\ <<>> \o inp[c] = inp[c]
            BY <1>5, ConcatEmptySeq
          <5>2. QED
            BY <1>1, <1>6, <3>2, <5>1
        <4>4. QED
          BY <1>1, <1>4, <3>2, <4>2, <4>3 DEF Stream, Open, Untouched
      <3>3. CASE req[c].proto \in {"http", "tun"}
        <4>1. Body(req[c]) = Bytes(req[c])
          BY <3>3 DEF Body, Bytes
        <4>2. fwd'[c] \o buf'[c] \o inp'[c] = Bytes(req[c])
          <5>1. buf[c] \o <<>> = buf[c]
            BY <1>5, ConcatEmptySeq
          <5>2. QED
            BY <1>1, <1>6, <3>1, <3>3, <5>1
        <4>3. QED
          BY <1>1, <1>4, <3>3, <4>1, <4>2 DEF Stream, Open, Untouched
      <3>4. QED
        BY <1>2, <2>3, <3>2, <3>3
    <2>4. QED
      BY <2>2, <2>3
  <1>11. Told(c)'
    BY <1>1, <1>3, <1>4, <1>7 DEF Told, Open, Asking, Reading, Untouched
  <1>12. QED
    BY <1>1, <1>8, <1>9, <1>10, <1>11, OneConnection DEF ConnInv

(* The way to the relay, or to a refusal.                                     *)
LEMMA ConnectKeeps ==
    ASSUME FrontInv, NEW c \in Conns, Connect(c) PROVE FrontInv'
  <1>1. ConnInv(c) /\ ConnTyped
    BY DEF FrontInv
  <1>2. CASE Route(c)
    BY <1>2, LinksOn DEF Route, Quiet, Linking
  <1>3. CASE DirectOk(c)
    <2>1. /\ st[c] = "direct" /\ Goes(c, "linked") /\ link' = [link EXCEPT ![c] = "direct"]
          /\ UNCHANGED <<host, req, inp, buf, fwd, told, tried>>
      BY <1>3 DEF DirectOk, Quiet
    <2>2. tried' \in [Conns -> SUBSET Nodes] /\ \A d \in Conns \ {c} : tried'[d] = tried[d]
      BY <1>1, <2>1 DEF ConnTyped
    <2>3. QED
      BY <2>1, <2>2, LinkMade
  <1>4. CASE DirectFails(c) \/ WarmFails(c) \/ ColdFails(c) \/ Opened(c)
    BY <1>4, LinksOn DEF DirectFails, WarmFails, ColdFails, Opened, Quiet, Linking
  <1>5. CASE Pick(c)
    <2>1. PICK n \in Nodes :
             /\ st[c] = "pick" /\ tried' = [tried EXCEPT ![c] = @ \cup {n}]
             /\ link' = [link EXCEPT ![c] = n]
             /\ Goes(c, "cold") \/ Goes(c, "warm")
             /\ UNCHANGED <<host, req, inp, buf, fwd, told>>
      BY <1>5 DEF Pick
    <2>2. tried' \in [Conns -> SUBSET Nodes] /\ \A d \in Conns \ {c} : tried'[d] = tried[d]
      BY <1>1, <2>1 DEF ConnTyped
    <2>3. QED
      BY <2>1, <2>2, LinkMade
  <1>6. CASE GiveUp(c) \/ ColdRefuses(c)
    BY <1>6, FailureKeeps DEF GiveUp, ColdRefuses, Quiet, Linking
  <1>7. CASE StartRelay(c)
    BY <1>7, RelayStarts
  <1>8. CASE StartFails(c)
    <2>1. st[c] = "linked" /\ Closes(c) /\ UNCHANGED <<host, req, fwd, link, tried>>
      BY <1>8 DEF StartFails, Quiet
    <2>2. told' = told \/ Answer(c, "502")
      BY <1>8 DEF StartFails
    <2>3. link'[c] # Nowhere /\ st[c] \in Open /\ "502" \in Replies \ {"ok", "200"}
      BY <1>1, <2>1 DEF ConnInv, Told, Open, Stages, Replies, Final
    <2>4. QED
      BY <2>1, <2>2, <2>3, ClosesEarly
  <1>9. QED
    BY <1>2, <1>3, <1>4, <1>5, <1>6, <1>7, <1>8 DEF Connect

(* The relay forwards what was pending, then what is read.                    *)
LEMMA UploadKeeps ==
    ASSUME FrontInv, NEW c \in Conns, Upload(c) PROVE FrontInv'
  <1>1. /\ ConnInv(c) /\ ConnTyped /\ st[c] = "relay"
        /\ UNCHANGED <<host, req, st, told, link, tried>>
    BY DEF FrontInv, Upload, Quiet
  <1> DEFINE f == fwd[c]
             b == buf[c]
             i == inp[c]
  <1>2. f \in Seq(Tokens) /\ b \in Seq(Tokens) /\ i \in Seq(Tokens)
    BY <1>1 DEF ConnTyped
  <1>3. /\ fwd' \in [Conns -> Seq(Tokens)] /\ buf' \in [Conns -> Seq(Tokens)]
        /\ inp' \in [Conns -> Seq(Tokens)]
        /\ \A d \in Conns \ {c} : fwd'[d] = fwd[d] /\ buf'[d] = buf[d] /\ inp'[d] = inp[d]
        /\ fwd'[c] \o buf'[c] \o inp'[c] = f \o b \o i
    <2>1. CASE b # <<>> /\ fwd' = [fwd EXCEPT ![c] = f \o b] /\ buf' = [buf EXCEPT ![c] = <<>>] /\ inp' = inp
      <3> DEFINE g == f \o b
      <3>1. g \in Seq(Tokens) /\ g \o <<>> = g /\ fwd' = [fwd EXCEPT ![c] = g]
        BY <1>2, <2>1, ConcatProperties, ConcatEmptySeq
      <3> HIDE DEF g
      <3>2. /\ fwd' \in [Conns -> Seq(Tokens)] /\ buf' \in [Conns -> Seq(Tokens)]
            /\ inp' \in [Conns -> Seq(Tokens)] /\ fwd'[c] = g /\ buf'[c] = <<>> /\ inp'[c] = i
            /\ \A d \in Conns \ {c} : fwd'[d] = fwd[d] /\ buf'[d] = buf[d] /\ inp'[d] = inp[d]
        BY <1>1, <2>1, <3>1 DEF ConnTyped
      <3> HIDE DEF i
      <3>3. QED
        BY <3>1, <3>2 DEF g
    <2>2. CASE /\ b = <<>> /\ i # <<>> /\ buf' = buf
               /\ fwd' = [fwd EXCEPT ![c] = Append(f, Head(i))] /\ inp' = [inp EXCEPT ![c] = Tail(i)]
      <3> DEFINE g == Append(f, Head(i))
                 t == Tail(i)
      <3> HIDE DEF f, i
      <3>1. Head(i) \in Tokens /\ t \in Seq(Tokens) /\ <<Head(i)>> \in Seq(Tokens)
        BY <1>2, <2>2, HeadTailProperties
      <3>2. g \in Seq(Tokens) /\ g = f \o <<Head(i)>>
        BY <1>2, <3>1, AppendProperties, AppendIsConcat
      <3>3. i = <<Head(i)>> \o t
        <4>1. Len(i) \in Nat \ {0} /\ 1 \in 1..Len(i) /\ Len(i) \in 1..Len(i)
          BY <1>2, <2>2, EmptySeq
        <4>2. SubSeq(i, 1, Len(i)) = <<i[1]>> \o SubSeq(i, 1 + 1, Len(i))
          BY <1>2, <4>1, SubSeqRecursiveFirst
        <4>3. SubSeq(i, 1, Len(i)) = i /\ t = SubSeq(i, 2, Len(i)) /\ Head(i) = i[1]
          BY <1>2, <2>2, SubSeqFull, TailIsSubSeq
        <4>4. QED
          BY <4>2, <4>3
      <3>4. g \o <<>> \o t = f \o <<>> \o i
        <4>1. g \o <<>> = g /\ f \o <<>> = f
          BY <1>2, <3>2, ConcatEmptySeq
        <4>2. (f \o <<Head(i)>>) \o t = f \o (<<Head(i)>> \o t)
          BY <1>2, <3>1, ConcatAssociative
        <4>3. QED
          BY <3>2, <3>3, <4>1, <4>2
      <3>5. fwd' = [fwd EXCEPT ![c] = g] /\ inp' = [inp EXCEPT ![c] = t]
        BY <2>2
      <3> HIDE DEF g, t
      <3>6. /\ fwd' \in [Conns -> Seq(Tokens)] /\ buf' \in [Conns -> Seq(Tokens)]
            /\ inp' \in [Conns -> Seq(Tokens)] /\ fwd'[c] = g /\ buf'[c] = <<>> /\ inp'[c] = t
            /\ \A d \in Conns \ {c} : fwd'[d] = fwd[d] /\ buf'[d] = buf[d] /\ inp'[d] = inp[d]
        BY <1>1, <2>2, <3>1, <3>2, <3>5, ZenonT(30) DEF ConnTyped
      <3>7. QED
        BY <2>2, <3>4, <3>6
    <2>3. QED
      BY <2>1, <2>2 DEF Upload
  <1> HIDE DEF f, b, i
  <1>4. ConnTyped' /\ Elsewhere(c)
    BY <1>1, <1>3 DEF ConnTyped, Elsewhere, Stays
  <1>5. RightStage(c)'
    BY <1>1 DEF ConnInv, RightStage
  <1>6. Stream(c)'
    BY <1>1, <1>3 DEF ConnInv, Stream, Open, Untouched, f, b, i
  <1>7. Told(c)'
    <2>1. Answers(c)' = Answers(c)
      BY <1>1 DEF Answers
    <2>2. QED
      BY <1>1, <2>1 DEF ConnInv, Told
  <1>8. QED
    BY <1>1, <1>4, <1>5, <1>6, <1>7, OneConnection DEF ConnInv

(* The relay ends.                                                            *)
LEMMA EndKeeps ==
    ASSUME FrontInv, NEW c \in Conns, RelayEnds(c) PROVE FrontInv'
  <1>1. /\ ConnInv(c) /\ ConnTyped /\ st[c] = "relay" /\ Closes(c)
        /\ UNCHANGED <<host, req, fwd, told, link, tried>>
    BY DEF FrontInv, RelayEnds
  <1>2. /\ st' \in [Conns -> Stages] /\ st'[c] = "done" /\ \A d \in Conns \ {c} : st'[d] = st[d]
        /\ inp' \in [Conns -> Seq(Tokens)] /\ \A d \in Conns \ {c} : inp'[d] = inp[d]
        /\ buf' \in [Conns -> Seq(Tokens)] /\ buf'[c] = <<>> /\ \A d \in Conns \ {c} : buf'[d] = buf[d]
    BY <1>1 DEF Closes, Goes, ConnTyped, Stages
  <1>3. ConnTyped' /\ Elsewhere(c)
    BY <1>1, <1>2 DEF ConnTyped, Elsewhere, Stays
  <1>4. RightStage(c)' /\ Stream(c)'
    BY <1>2 DEF RightStage, Stream, Open, Untouched, Reading, Units
  <1>5. Told(c)'
    <2>1. Answers(c)' = Answers(c) /\ link[c] # Nowhere
      BY <1>1 DEF Answers, ConnInv, Told
    <2>2. QED
      BY <1>1, <1>2, <2>1 DEF ConnInv, Told, Open, Asking, Untouched, Reading
  <1>6. QED
    BY <1>1, <1>3, <1>4, <1>5, OneConnection DEF ConnInv

(* The next connection of the same kind.                                      *)
LEMMA AgainKeeps ==
    ASSUME FrontInv, NEW c \in Conns, Again(c) PROVE FrontInv'
  <1>1. /\ ConnInv(c) /\ ConnTyped /\ st[c] = "done" /\ buf[c] = <<>>
        /\ Goes(c, "new") /\ UNCHANGED <<host, req, buf>>
        /\ inp' = [inp EXCEPT ![c] = Bytes(req[c])]
        /\ fwd' = [fwd EXCEPT ![c] = <<>>] /\ told' = [told EXCEPT ![c] = <<>>]
        /\ link' = [link EXCEPT ![c] = Nowhere] /\ tried' = [tried EXCEPT ![c] = {}]
    BY DEF FrontInv, Again, ConnInv, Stream
  <1> DEFINE B == Bytes(req[c])
  <1>2. B \in Seq(Tokens) /\ B' = B
    BY <1>1, BytesOf DEF ConnTyped
  <1> HIDE DEF B
  <1>3. /\ st' \in [Conns -> Stages] /\ st'[c] = "new"
        /\ inp' \in [Conns -> Seq(Tokens)] /\ inp'[c] = B
        /\ fwd' \in [Conns -> Seq(Tokens)] /\ fwd'[c] = <<>>
        /\ told' \in [Conns -> Seq(Replies)] /\ told'[c] = <<>>
        /\ link' \in [Conns -> Nodes \cup {"direct", Nowhere}] /\ link'[c] = Nowhere
        /\ tried' \in [Conns -> SUBSET Nodes] /\ tried'[c] = {}
        /\ Elsewhere(c)
    <2>1. inp' = [inp EXCEPT ![c] = B]
      BY <1>1 DEF B
    <2>2. QED
      BY <1>1, <1>2, <2>1 DEF ConnTyped, Goes, Stages, Elsewhere, Stays
  <1>4. ConnTyped'
    BY <1>1, <1>3 DEF ConnTyped
  <1>5. RightStage(c)'
    BY <1>3 DEF RightStage, Units, Untouched
  <1>6. Stream(c)'
    <2>1. Used(c)' = 0
      BY <1>3 DEF Used, Untouched
    <2>2. <<>> \o B = Rest(B, 0)
      BY <1>2, RestEnds, ConcatEmptySeq
    <2>3. buf'[c] \o inp'[c] = Rest(B, 0)
      BY <1>1, <1>3, <2>2
    <2>4. QED
      BY <1>1, <1>2, <1>3, <2>1, <2>3 DEF Stream, Open, Untouched, Reading, B
  <1>7. Told(c)'
    <2>1. Answers(c)' = {}
      BY <1>3 DEF Answers
    <2>2. QED
      BY <1>3, <2>1 DEF Told
  <1>8. QED
    BY <1>1, <1>3, <1>4, <1>5, <1>6, <1>7, OneConnection DEF ConnInv

(* FrontInv is inductive.                                                     *)
LEMMA FrontKept == FrontSpec => []FrontInv
  <1>1. FrontInit => FrontInv
    <2> SUFFICES ASSUME FrontInit PROVE FrontInv
      OBVIOUS
    <2>1. req \in [Conns -> Requests]
      BY FrontAssumption DEF FrontInit
    <2>2. \A c \in Conns : Bytes(req[c]) \in Seq(Tokens)
      BY <2>1, BytesOf
    <2>3. /\ st = [c \in Conns |-> "new"] /\ inp = [c \in Conns |-> Bytes(req[c])]
          /\ buf = [c \in Conns |-> <<>>] /\ fwd = [c \in Conns |-> <<>>]
          /\ told = [c \in Conns |-> <<>>] /\ link = [c \in Conns |-> Nowhere]
          /\ tried = [c \in Conns |-> {}]
      BY DEF FrontInit
    <2>4. ConnTyped
      BY <2>1, <2>2, <2>3 DEF ConnTyped, Stages
    <2>5. ASSUME NEW c \in Conns PROVE ConnInv(c)
      <3>1. Used(c) = 0 /\ Answers(c) = {}
        BY <2>3 DEF Used, Untouched, Answers
      <3>2. <<>> \o Bytes(req[c]) = Rest(Bytes(req[c]), 0)
        BY <2>2, RestEnds, ConcatEmptySeq
      <3>3. RightStage(c)
        BY <2>3 DEF RightStage, Units, Untouched
      <3>4. Stream(c)
        BY <2>3, <3>1, <3>2 DEF Stream, Untouched, Reading
      <3>5. Told(c)
        BY <2>3, <3>1 DEF Told
      <3>6. QED
        BY <3>3, <3>4, <3>5 DEF ConnInv
    <2>6. QED
      BY <2>4, <2>5 DEF FrontInv
  <1>2. FrontInv /\ [FrontNext]_frontVars => FrontInv'
    <2> SUFFICES ASSUME FrontInv, [FrontNext]_frontVars PROVE FrontInv'
      OBVIOUS
    <2>1. CASE UNCHANGED <<host, req, connVars>>
      <3>1. ConnTyped' /\ \A c \in Conns : Stays(c)
        BY <2>1 DEF connVars, FrontInv, ConnTyped, Stays
      <3>2. QED
        BY <2>1, <3>1, StaysSound DEF FrontInv
    <2>2. CASE \E c \in Conns : \/ Accept(c) \/ TunOpens(c) \/ Parse(c) \/ Connect(c)
                                \/ Upload(c) \/ RelayEnds(c) \/ Again(c)
      BY <2>2, AcceptsKeep, ParseKeeps, ConnectKeeps, UploadKeeps, EndKeeps, AgainKeeps
    <2>3. Start \/ Snapshot \/ UNCHANGED frontVars => UNCHANGED <<host, req, connVars>>
      BY DEF Start, Snapshot, frontVars
    <2>4. QED
      BY <2>1, <2>2, <2>3 DEF FrontNext
  <1>3. QED
    BY <1>1, <1>2, PTL DEF FrontSpec

(* Wherever reads cut the stream while the request was parsed, the relay      *)
(* forwards what was meant for the remote side, in order and without a gap.   *)
THEOREM StreamsStayWhole == FrontSpec => []StreamKept
  <1>1. FrontInv => StreamKept
    BY DEF FrontInv, ConnInv, Stream, StreamKept, Relaying, Rest
  <1>2. QED
    BY <1>1, FrontKept, PTL

(* A request is answered once, with success only where there is a link, and   *)
(* not left without an answer where nodes were tried in vain.                 *)
THEOREM RequestsAreAnswered == FrontSpec => []Answered
  <1>1. FrontInv => Answered
    BY DEF FrontInv, ConnInv, Told, Answered
  <1>2. QED
    BY <1>1, FrontKept, PTL
=============================================================================
