----------------------------- MODULE FetchProofs -----------------------------
(***************************************************************************)
(* Resuming a download never damages the file: for any number of workers,  *)
(* runs, crashes, attempts, rounds and changes of the content, and any     *)
(* assignment of validators and lengths to the contents.                   *)
(***************************************************************************)
EXTENDS Fetch, TLAPS

CurTag == Tag[server.ver]
Busy(w) == wk[w].pc \in {"ask", "body"}
InRun == phase \in {"round", "single", "tail", "placed"}
Parallel == pr.ranges /\ phase \in {"round", "tail"}
Single == phase = "single" \/ (phase = "tail" /\ ~pr.ranges)

\* A length goes with a validator that some version served so far has.
Served(tag, len) == \E u \in server.seen : Tag[u] = tag /\ Size[u] = len

\* What holds whatever was lost: each chunk of a round is done, in the queue, or with one worker.
WorkersInv ==
    /\ phase = "round" => \A c \in round.jobs : c \in 1..pr.len /\ c \notin st.done
    /\ \A w \in Workers :
         /\ phase # "round" => wk[w].pc = "gone"
         /\ Busy(w) => /\ wk[w].job \in 1..pr.len
                       /\ wk[w].job \notin st.done /\ wk[w].job \notin round.jobs
                       /\ \A u \in Workers \ {w} : Busy(u) => wk[u].job # wk[w].job
         /\ wk[w].pc = "body" => wk[w].ver \in Versions
         /\ wk[w].pc = "save" => /\ wk[w].snap \in States
                                 /\ wk[w].snap.tag = pr.tag /\ wk[w].snap.len = pr.len
                                 /\ wk[w].snap.done \subseteq st.done

RunInv ==
    /\ server.ver \in server.seen
    /\ phase = "round" => pr.ranges
    /\ phase = "single" => ~pr.ranges
    /\ phase = "placed" => out \in Outputs
    /\ InRun => Served(pr.tag, pr.len)
    /\ Parallel => /\ pr.len > 0 /\ server.ranges # "no"
                   /\ st.tag = pr.tag /\ st.len = pr.len /\ st.done \subseteq 1..pr.len
    /\ phase = "tail" /\ pr.ranges => 1..pr.len \subseteq st.done
    /\ saved # NoFile => /\ Served(saved.tag, saved.len) /\ saved.len > 0
                         /\ saved.done \subseteq 1..saved.len /\ server.ranges # "no"
    /\ phase \notin {"round", "tail", "placed"} => pending = {}
    /\ \A p \in pending : p.at = IF phase = "placed" THEN "out" ELSE "part"

\* The file under way, or already placed: every chunk is written or a write of it is under way, and
\* one validator covers them all.
Whole(data, len, tag, at) ==
    \E t \in Tags :
        /\ \A c \in 1..len :
             \/ data[c] \in Versions /\ (tag # NoTag => Tag[data[c]] = t)
             \/ \E p \in pending : p.at = at /\ p.chunk = c
        /\ \A p \in pending : p.at = at /\ tag # NoTag => Tag[p.ver] = t

Fits(v) == pr.tag # NoTag => Tag[v] = pr.tag

\* One validator names one length.
Lengths == \A u, v \in server.seen : Tag[u] = Tag[v] /\ Tag[v] # NoTag => Size[u] = Size[v]

\* The state file is of this run, or its validator is no longer the server's.
Overtaken ==
    /\ Parallel /\ saved # NoFile /\ saved.tag # NoTag =>
         IF saved.tag = pr.tag THEN saved.done \subseteq st.done ELSE saved.tag # CurTag
    /\ Single /\ saved # NoFile => saved.tag = NoTag \/ saved.tag # CurTag

DoneWritten ==
    Parallel => /\ \A c \in st.done : \/ part[c] \in Versions /\ Fits(part[c])
                                      \/ \E p \in pending : p.chunk = c
                /\ \A p \in pending : Fits(p.ver)

BodiesFit == \A w \in Workers : wk[w].pc = "body" => Fits(wk[w].ver)

TailWhole == phase = "tail" /\ ~pr.ranges => Whole(part, pr.len, pr.tag, "part")
OutWhole == out \in Outputs => Whole(out.data, out.len, out.tag, "out")

\* What holds as long as nothing excused has happened.
RecordInv == Lengths /\ Overtaken /\ DoneWritten /\ TailWhole /\ OutWhole /\ RecordedIsWritten

FetchInv == TypeOK /\ WorkersInv /\ RunInv /\ BodiesFit /\ (excused = {} => RecordInv)

Recs == [pc : {"gone", "start", "next", "ask", "body", "marked", "save"},
         job : Chunks \cup {0}, tries : 0..MAX_ATTEMPTS, ver : Versions \cup {Torn},
         snap : States \cup {NoFile}, err : BOOLEAN]

Writes == [by : Workers \cup {"dropped"}, at : {"part", "out"}, chunk : Chunks, ver : Versions]

-----------------------------------------------------------------------------
(* Steps of a worker *)

\* The files and what is on record do not change, and no body begins.
LEMMA FilesStay ==
    ASSUME UNCHANGED <<server, phase, pr, st, part, out, saved, pending, excused>>
    PROVE  /\ RunInv => RunInv'
           /\ RecordInv => RecordInv'
  <1>1. (InRun' <=> InRun) /\ (Parallel' <=> Parallel) /\ (Single' <=> Single) /\ CurTag' = CurTag
    BY DEF InRun, Parallel, Single, CurTag
  <1>2. RunInv => RunInv'
    BY <1>1 DEF RunInv, Served
  <1>3. (Lengths => Lengths') /\ (Overtaken => Overtaken') /\ (DoneWritten => DoneWritten')
    BY <1>1 DEF Lengths, Overtaken, DoneWritten, Fits
  <1>4. (TailWhole => TailWhole') /\ (OutWhole => OutWhole')
    BY DEF TailWhole, OutWhole, Whole
  <1>5. RecordedIsWritten => RecordedIsWritten'
    BY DEF RecordedIsWritten
  <1>6. QED
    BY <1>2, <1>3, <1>4, <1>5 DEF RecordInv

\* A worker that gives up its chunk, keeps it, or copies the state.
LEMMA WorkerMoves ==
    ASSUME FetchInv, NEW w \in Workers, phase = "round",
           flags' \subseteq {"content_changed", "range_ignored", "fatal"},
           wk' \in [Workers -> Recs], \A u \in Workers \ {w} : wk'[u] = wk[u],
           Busy(w)' => Busy(w) /\ wk'[w].job = wk[w].job,
           wk'[w].pc # "body",
           wk'[w].pc = "save" => wk'[w].snap = st,
           UNCHANGED <<rest, st, round, part, saved, pending>>
    PROVE  FetchInv'
  <1>1. TypeOK'
    BY DEF FetchInv, TypeOK, Recs, rest
  <1>2. UNCHANGED <<server, phase, pr, st, part, out, saved, pending, excused>>
    BY DEF rest
  <1>3. st \in States /\ st.tag = pr.tag /\ st.len = pr.len
    BY DEF FetchInv, TypeOK, RunInv, Parallel
  <1>4. WorkersInv'
    BY <1>2, <1>3 DEF FetchInv, WorkersInv, Busy
  <1>5. BodiesFit'
    BY <1>2 DEF FetchInv, BodiesFit, Fits
  <1>6. QED
    BY <1>1, <1>2, <1>4, <1>5, FilesStay DEF FetchInv

\* The workers' own state, typed; only workers of a round have left "gone".
LEMMA WorkerTyped ==
    ASSUME FetchInv, NEW w \in Workers
    PROVE  /\ wk \in [Workers -> Recs] /\ wk[w] \in Recs
           /\ wk[w].pc # "gone" => phase = "round"
           /\ st \in States /\ part \in Files
           /\ flags \subseteq {"content_changed", "range_ignored", "fatal"}
  <1>1. wk \in [Workers -> Recs]
    BY DEF FetchInv, TypeOK, Recs
  <1>2. QED
    BY <1>1 DEF FetchInv, TypeOK, WorkersInv

\* A failed attempt leaves the worker with its chunk or with none.
LEMMA RetryMoves ==
    ASSUME FetchInv, NEW w \in Workers, Busy(w), NEW err \in BOOLEAN, Retry(w, err)
    PROVE  /\ wk' \in [Workers -> Recs] /\ \A u \in Workers \ {w} : wk'[u] = wk[u]
           /\ wk'[w].pc \in {"ask", "next"}
           /\ Busy(w)' => wk'[w].job = wk[w].job
  <1> DEFINE over == wk[w].tries >= MAX_ATTEMPTS
             r == [wk[w] EXCEPT !.pc = IF over THEN "next" ELSE "ask",
                                !.tries = IF over THEN 0 ELSE @ + 1,
                                !.job = IF over THEN 0 ELSE @,
                                !.ver = Torn, !.err = err]
  <1>1. wk \in [Workers -> Recs] /\ wk[w] \in Recs
    BY WorkerTyped
  <1>2. wk' = [wk EXCEPT ![w] = r]
    BY <1>1 DEF Retry
  <1>3. /\ r.pc = (IF over THEN "next" ELSE "ask")
        /\ r.tries = (IF over THEN 0 ELSE wk[w].tries + 1)
        /\ r.job = (IF over THEN 0 ELSE wk[w].job)
        /\ r.ver = Torn /\ r.err = err /\ r.snap = wk[w].snap
    BY <1>1 DEF Recs
  <1>4. r \in Recs
    <2>1. (IF over THEN 0 ELSE wk[w].tries + 1) \in 0..MAX_ATTEMPTS
      BY <1>1, FetchAssumption DEF Recs
    <2>2. (IF over THEN 0 ELSE wk[w].job) \in Chunks \cup {0}
      BY <1>1 DEF Recs
    <2> HIDE DEF over
    <2>3. QED
      BY <1>1, <2>1, <2>2 DEF Recs
  <1> HIDE DEF r
  <1>5. wk'[w] = r /\ wk' \in [Workers -> Recs] /\ \A u \in Workers \ {w} : wk'[u] = wk[u]
    BY <1>1, <1>2, <1>4
  <1>6. QED
    BY <1>3, <1>5 DEF Busy

LEMMA WorkerLeaves ==
    ASSUME FetchInv, NEW w \in Workers,
           \/ OpenFileFails(w) \/ WorkerEnds(w) \/ RangeIgnored(w) \/ ContentChanged(w)
           \/ FatalStatus(w)
    PROVE  FetchInv'
  <1>1. /\ wk \in [Workers -> Recs] /\ wk[w] \in Recs
        /\ flags \subseteq {"content_changed", "range_ignored", "fatal"}
    BY WorkerTyped
  <1>2. wk[w].pc \in {"start", "next", "ask"} /\ phase = "round"
    BY WorkerTyped DEF OpenFileFails, WorkerEnds, RangeIgnored, ContentChanged, FatalStatus
  <1>3. UNCHANGED <<rest, st, round, part, saved, pending>>
    BY DEF OpenFileFails, WorkerEnds, RangeIgnored, ContentChanged, FatalStatus
  <1>4. flags' \subseteq {"content_changed", "range_ignored", "fatal"}
    BY <1>1 DEF OpenFileFails, WorkerEnds, RangeIgnored, ContentChanged, FatalStatus
  <1>5. /\ wk' \in [Workers -> Recs] /\ \A u \in Workers \ {w} : wk'[u] = wk[u]
        /\ wk'[w].pc = "gone"
    <2>1. CASE OpenFileFails(w)
      BY <1>1, <2>1 DEF OpenFileFails, Goto, Recs
    <2>2. CASE ~OpenFileFails(w)
      <3> DEFINE r == [Idle EXCEPT !.err = wk[w].err]
      <3>1. wk' = [wk EXCEPT ![w] = r]
        BY <2>2 DEF WorkerEnds, RangeIgnored, ContentChanged, FatalStatus
      <3>2. r \in Recs /\ r.pc = "gone"
        BY <1>1, FetchAssumption DEF Idle, Recs
      <3> HIDE DEF r
      <3>3. QED
        BY <1>1, <3>1, <3>2
    <2>3. QED
      BY <2>1, <2>2
  <1>6. ~Busy(w)'
    BY <1>5 DEF Busy
  <1>7. QED
    BY <1>2, <1>3, <1>4, <1>5, <1>6, WorkerMoves

LEMMA WorkerRetries ==
    ASSUME FetchInv, NEW w \in Workers, AttemptFails(w) \/ ReceiveAfterError(w)
    PROVE  FetchInv'
  <1>1. /\ Busy(w) /\ phase = "round" /\ wk[w].err \in BOOLEAN
        /\ flags \subseteq {"content_changed", "range_ignored", "fatal"}
    BY WorkerTyped DEF AttemptFails, ReceiveAfterError, Busy, Recs
  <1>2. UNCHANGED <<rest, st, round, flags, part, saved, pending>>
    BY DEF AttemptFails, ReceiveAfterError
  <1>3. \E err \in BOOLEAN : Retry(w, err)
    BY <1>1 DEF AttemptFails, ReceiveAfterError
  <1>4. QED
    BY <1>1, <1>2, <1>3, RetryMoves, WorkerMoves

LEMMA WorkerCopies ==
    ASSUME FetchInv, NEW w \in Workers, Snapshot(w) \/ SaveFails(w)
    PROVE  FetchInv'
  <1>1. /\ wk \in [Workers -> Recs] /\ wk[w] \in Recs /\ phase = "round"
        /\ flags \subseteq {"content_changed", "range_ignored", "fatal"}
        /\ st \in States
    BY WorkerTyped DEF Snapshot, SaveFails
  <1>2. UNCHANGED <<rest, st, round, flags, part, saved, pending>>
    BY DEF Snapshot, SaveFails
  <1>3. /\ wk' \in [Workers -> Recs] /\ \A u \in Workers \ {w} : wk'[u] = wk[u]
        /\ wk'[w].pc \in {"save", "next"} /\ (wk'[w].pc = "save" => wk'[w].snap = st)
    <2>1. CASE Snapshot(w)
      <3> DEFINE r == [wk[w] EXCEPT !.pc = "save", !.snap = st]
      <3>1. wk' = [wk EXCEPT ![w] = r]
        BY <1>1, <2>1 DEF Snapshot
      <3>2. r \in Recs /\ r.pc = "save" /\ r.snap = st
        BY <1>1 DEF Recs
      <3> HIDE DEF r
      <3>3. QED
        BY <1>1, <3>1, <3>2
    <2>2. CASE SaveFails(w)
      <3> DEFINE r == [Idle EXCEPT !.pc = "next", !.err = wk[w].err]
      <3>1. wk' = [wk EXCEPT ![w] = r]
        BY <2>2 DEF SaveFails
      <3>2. r \in Recs /\ r.pc = "next"
        <4>1. Idle \in Recs
          BY FetchAssumption DEF Idle, Recs
        <4>2. QED
          BY <1>1, <4>1 DEF Recs
      <3> HIDE DEF r
      <3>3. QED
        BY <1>1, <3>1, <3>2
    <2>3. QED
      BY <2>1, <2>2
  <1>4. ~Busy(w)'
    BY <1>3 DEF Busy
  <1>5. QED
    BY <1>1, <1>2, <1>3, <1>4, WorkerMoves
\* While chunks are fetched and until the file is placed, what is on record is what is done.
LEMMA RunRecords ==
    TypeOK /\ RunInv /\ Overtaken /\ DoneWritten /\ InRun => RecordedIsWritten
  <1> SUFFICES ASSUME TypeOK, RunInv, Overtaken, DoneWritten, InRun,
                      saved # NoFile, saved.tag # NoTag, saved.tag = Tag[server.ver],
                      phase # "placed", NEW c \in saved.done
               PROVE  \E v \in Versions :
                        /\ Tag[v] = saved.tag
                        /\ \/ part[c] = v
                           \/ \E p \in pending : p.at = "part" /\ p.chunk = c /\ p.ver = v
    BY DEF RecordedIsWritten
  <1>1. Parallel
    BY DEF Overtaken, CurTag, Single, Parallel, InRun, RunInv
  <1>2. saved.tag = pr.tag /\ c \in st.done
    BY <1>1 DEF Overtaken, CurTag
  <1>3. CASE part[c] \in Versions /\ Fits(part[c])
    BY <1>2, <1>3 DEF Fits
  <1>4. CASE \E p \in pending : p.chunk = c
    <2>1. PICK p \in pending : p.chunk = c
      BY <1>4
    <2>2. p.ver \in Versions /\ p.at = "part" /\ Fits(p.ver)
      BY <1>1 DEF TypeOK, RunInv, DoneWritten
    <2>3. QED
      BY <1>2, <2>1, <2>2 DEF Fits
  <1>5. QED
    BY <1>1, <1>2, <1>3, <1>4 DEF DoneWritten

LEMMA TakeJobKeeps ==
    ASSUME FetchInv, NEW w \in Workers, TakeJob(w) PROVE FetchInv'
  <1>1. /\ wk \in [Workers -> Recs] /\ wk[w] \in Recs /\ phase = "round"
    BY WorkerTyped DEF TakeJob
  <1>2. PICK c \in Chunks :
          /\ c \in round.jobs
          /\ wk' = [wk EXCEPT ![w].pc = "ask", ![w].job = c, ![w].tries = 1]
          /\ round' = [round EXCEPT !.jobs = @ \ {c}]
    BY DEF TakeJob, NextJob
  <1>3. UNCHANGED <<rest, st, flags, part, saved, pending>>
    BY DEF TakeJob
  <1> DEFINE r == [wk[w] EXCEPT !.pc = "ask", !.job = c, !.tries = 1]
  <1>4. wk' = [wk EXCEPT ![w] = r]
    BY <1>1, <1>2
  <1>5. r \in Recs /\ r.pc = "ask" /\ r.job = c
    <2>1. 1 \in 0..MAX_ATTEMPTS
      BY FetchAssumption
    <2>2. QED
      BY <1>1, <2>1 DEF Recs
  <1> HIDE DEF r
  <1>6. /\ wk' \in [Workers -> Recs] /\ \A u \in Workers \ {w} : wk'[u] = wk[u]
        /\ wk'[w] = r
    BY <1>1, <1>4, <1>5
  <1>7. /\ round' \in [no : 0..MAX_ROUNDS, jobs : SUBSET Chunks]
        /\ round'.jobs = round.jobs \ {c}
    BY <1>2 DEF FetchInv, TypeOK
  <1>8. TypeOK'
    BY <1>3, <1>6, <1>7 DEF FetchInv, TypeOK, Recs, rest
  <1>9. UNCHANGED <<server, phase, pr, st, part, out, saved, pending, excused>>
    BY <1>3 DEF rest
  <1>10. WorkersInv'
    BY <1>1, <1>2, <1>5, <1>6, <1>7, <1>9 DEF FetchInv, WorkersInv, Busy
  <1>11. BodiesFit'
    BY <1>5, <1>6, <1>9 DEF FetchInv, BodiesFit, Fits
  <1>12. QED
    BY <1>8, <1>9, <1>10, <1>11, FilesStay DEF FetchInv

LEMMA ReceiveKeeps ==
    ASSUME FetchInv, NEW w \in Workers, Receive(w) PROVE FetchInv'
  <1>1. /\ wk \in [Workers -> Recs] /\ wk[w] \in Recs /\ phase = "round" /\ part \in Files
        /\ server.ver \in Versions /\ Busy(w)
    BY WorkerTyped DEF Receive, FetchInv, TypeOK, Busy
  <1>2. /\ UNCHANGED <<server, phase, pr, out, runs, excused, st, round, flags, saved, pending>>
        /\ part' = [part EXCEPT ![wk[w].job] = IF @ = server.ver THEN @ ELSE Torn]
    BY DEF Receive, rest
  <1> DEFINE r == [wk[w] EXCEPT !.pc = "body", !.ver = server.ver]
  <1>3. wk' = [wk EXCEPT ![w] = r]
    BY <1>1 DEF Receive
  <1>4. r \in Recs /\ r.pc = "body" /\ r.job = wk[w].job /\ r.ver = server.ver
    BY <1>1 DEF Recs
  <1> HIDE DEF r
  <1>5. /\ wk' \in [Workers -> Recs] /\ \A u \in Workers \ {w} : wk'[u] = wk[u]
        /\ wk'[w] = r
    BY <1>1, <1>3, <1>4
  <1>6. /\ part' \in Files
        /\ \A c \in Chunks : c # wk[w].job => part'[c] = part[c]
    BY <1>1, <1>2 DEF Files, Contents
  <1>7. wk[w].job \notin st.done /\ st.done \subseteq Chunks
    BY <1>1 DEF FetchInv, TypeOK, WorkersInv, States
  <1>8. TypeOK'
    BY <1>2, <1>5, <1>6 DEF FetchInv, TypeOK, Recs
  <1>9. WorkersInv'
    BY <1>1, <1>2, <1>4, <1>5 DEF FetchInv, WorkersInv, Busy
  <1>10. Fits(server.ver)
    BY DEF Receive, ServesRange, Fits
  <1>11. BodiesFit'
    BY <1>2, <1>4, <1>5, <1>10 DEF FetchInv, BodiesFit, Fits
  <1>12. RunInv'
    BY <1>2 DEF FetchInv, RunInv, InRun, Parallel, Served
  <1>13. ASSUME RecordInv PROVE RecordInv'
    <2>1. Lengths' /\ Overtaken' /\ OutWhole' /\ TailWhole'
      BY <1>1, <1>2, <1>13
      DEF RecordInv, Lengths, Overtaken, Parallel, Single, CurTag, OutWhole, TailWhole, Whole
    <2>2. DoneWritten'
      BY <1>2, <1>6, <1>7, <1>13 DEF RecordInv, DoneWritten, Parallel, Fits
    <2>3. RecordedIsWritten'
      <3>1. InRun'
        BY <1>1, <1>2 DEF InRun
      <3>2. QED
        BY <1>8, <1>12, <2>1, <2>2, <3>1, RunRecords, PTL
    <2>4. QED
      BY <2>1, <2>2, <2>3 DEF RecordInv
  <1>14. QED
    BY <1>2, <1>8, <1>9, <1>11, <1>12, <1>13 DEF FetchInv
LEMMA ChunkOkKeeps ==
    ASSUME FetchInv, NEW w \in Workers, ChunkOk(w) PROVE FetchInv'
  <1>1. /\ wk \in [Workers -> Recs] /\ wk[w] \in Recs /\ phase = "round" /\ st \in States
        /\ Busy(w) /\ wk[w].ver \in Versions /\ Parallel
    BY WorkerTyped DEF ChunkOk, Busy, FetchInv, WorkersInv, RunInv, Parallel
  <1> DEFINE p == [by |-> w, at |-> "part", chunk |-> wk[w].job, ver |-> wk[w].ver]
             r == [Idle EXCEPT !.pc = "marked"]
  <1>2. /\ UNCHANGED <<server, phase, pr, out, runs, excused, round, flags, part, saved>>
        /\ pending' = pending \cup {p}
        /\ st' = [st EXCEPT !.done = @ \cup {wk[w].job}]
        /\ wk' = [wk EXCEPT ![w] = r]
    BY DEF ChunkOk, rest
  <1>3. /\ wk[w].job \in Chunks /\ wk[w].job \in 1..pr.len
        /\ wk[w].job \notin round.jobs
    <2>1. wk[w].job \in 1..pr.len /\ wk[w].job \notin round.jobs
      BY <1>1 DEF FetchInv, WorkersInv
    <2>2. pr.len \in ChunkCounts
      BY <1>1, <2>1 DEF FetchInv, TypeOK, RunInv, Served, ChunkCounts
    <2>3. QED
      BY <2>1, <2>2 DEF Chunks
  <1>4. /\ p \in [by : Workers \cup {"dropped"}, at : {"part", "out"}, chunk : Chunks, ver : Versions]
        /\ p.at = "part" /\ p.chunk = wk[w].job /\ p.ver = wk[w].ver
    BY <1>1, <1>3
  <1>5. r \in Recs /\ r.pc = "marked"
    <2>1. Idle \in Recs
      BY FetchAssumption DEF Idle, Recs
    <2>2. QED
      BY <2>1 DEF Recs
  <1>6. /\ st' \in States /\ st'.done = st.done \cup {wk[w].job}
        /\ st'.tag = st.tag /\ st'.len = st.len
    BY <1>1, <1>2, <1>3 DEF States
  <1> HIDE DEF r, p
  <1>7. /\ wk' \in [Workers -> Recs] /\ \A u \in Workers \ {w} : wk'[u] = wk[u]
        /\ wk'[w] = r
    BY <1>1, <1>2, <1>5
  <1>8. TypeOK'
    BY <1>2, <1>4, <1>6, <1>7 DEF FetchInv, TypeOK, Recs
  <1>9. WorkersInv'
    BY <1>1, <1>2, <1>3, <1>5, <1>6, <1>7 DEF FetchInv, WorkersInv, Busy
  <1>10. BodiesFit'
    BY <1>2, <1>5, <1>7 DEF FetchInv, BodiesFit, Fits
  <1>11. RunInv'
    BY <1>1, <1>2, <1>3, <1>4, <1>6 DEF FetchInv, RunInv, InRun, Parallel, Served
  <1>12. ASSUME RecordInv PROVE RecordInv'
    <2>1. Lengths' /\ Overtaken' /\ TailWhole'
      BY <1>1, <1>2, <1>6, <1>12
      DEF RecordInv, Lengths, Overtaken, Parallel, Single, CurTag, TailWhole
    <2>2. OutWhole'
      BY <1>2, <1>4, <1>12 DEF RecordInv, OutWhole, Whole
    <2>3. DoneWritten'
      <3>1. pr.tag # NoTag => Tag[p.ver] = pr.tag
        BY <1>1, <1>2, <1>4 DEF FetchInv, BodiesFit, ChunkOk, Fits
      <3>2. \A q \in pending' : Fits(q.ver)'
        BY <1>1, <1>2, <1>12, <3>1 DEF RecordInv, DoneWritten, Fits
      <3>3. \A c \in st'.done : \/ part'[c] \in Versions /\ Fits(part[c])'
                                \/ \E q \in pending' : q.chunk = c
        BY <1>1, <1>2, <1>4, <1>6, <1>12 DEF RecordInv, DoneWritten, Fits
      <3>4. QED
        BY <3>2, <3>3 DEF DoneWritten
    <2>4. RecordedIsWritten'
      <3>1. InRun'
        BY <1>1, <1>2 DEF InRun
      <3>2. QED
        BY <1>8, <1>11, <2>1, <2>3, <3>1, RunRecords, PTL
    <2>5. QED
      BY <2>1, <2>2, <2>3, <2>4 DEF RecordInv
  <1>13. QED
    BY <1>2, <1>8, <1>9, <1>10, <1>11, <1>12 DEF FetchInv

LEMMA SaveKeeps ==
    ASSUME FetchInv, NEW w \in Workers, Save(w) PROVE FetchInv'
  <1>1. /\ wk \in [Workers -> Recs] /\ wk[w] \in Recs /\ phase = "round" /\ Parallel
    BY WorkerTyped DEF Save, FetchInv, RunInv, Parallel
  <1> DEFINE r == [Idle EXCEPT !.pc = "next", !.err = wk[w].err]
  <1>2. /\ UNCHANGED <<server, phase, pr, out, runs, excused, st, round, flags, part, pending>>
        /\ saved' = wk[w].snap
        /\ wk' = [wk EXCEPT ![w] = r]
    BY DEF Save, rest
  <1>3. /\ saved' \in States /\ saved'.tag = pr.tag /\ saved'.len = pr.len
        /\ saved'.done \subseteq st.done
    BY <1>2 DEF Save, FetchInv, WorkersInv
  <1>4. r \in Recs /\ r.pc = "next"
    <2>1. Idle \in Recs
      BY FetchAssumption DEF Idle, Recs
    <2>2. QED
      BY <1>1, <2>1 DEF Recs
  <1> HIDE DEF r
  <1>5. /\ wk' \in [Workers -> Recs] /\ \A u \in Workers \ {w} : wk'[u] = wk[u]
        /\ wk'[w] = r
    BY <1>1, <1>2, <1>4
  <1>6. TypeOK'
    BY <1>2, <1>3, <1>5 DEF FetchInv, TypeOK, Recs
  <1>7. WorkersInv'
    BY <1>1, <1>2, <1>4, <1>5 DEF FetchInv, WorkersInv, Busy
  <1>8. BodiesFit'
    BY <1>2, <1>4, <1>5 DEF FetchInv, BodiesFit, Fits
  <1>9. RunInv'
    <2>1. /\ \E u \in server.seen : Tag[u] = saved'.tag /\ Size[u] = saved'.len
          /\ saved'.len > 0 /\ saved'.done \subseteq 1..saved'.len /\ server.ranges # "no"
      BY <1>1, <1>2, <1>3 DEF FetchInv, RunInv, InRun, Served
    <2>2. QED
      BY <1>2, <2>1 DEF FetchInv, RunInv, InRun, Parallel, Served
  <1>10. ASSUME RecordInv PROVE RecordInv'
    <2>1. Lengths' /\ Overtaken' /\ TailWhole' /\ DoneWritten' /\ OutWhole'
      BY <1>1, <1>2, <1>3, <1>10
      DEF RecordInv, Lengths, Overtaken, Parallel, Single, CurTag, TailWhole, DoneWritten, Fits,
          OutWhole, Whole
    <2>2. RecordedIsWritten'
      <3>1. InRun'
        BY <1>1, <1>2 DEF InRun
      <3>2. QED
        BY <1>6, <1>9, <2>1, <3>1, RunRecords, PTL
    <2>3. QED
      BY <2>1, <2>2 DEF RecordInv
  <1>11. QED
    BY <1>2, <1>6, <1>7, <1>8, <1>9, <1>10 DEF FetchInv

LEMMA WorkerKeeps ==
    ASSUME FetchInv, NEW w \in Workers, Worker(w) PROVE FetchInv'
BY WorkerLeaves, WorkerRetries, WorkerCopies, TakeJobKeeps, ReceiveKeeps, ChunkOkKeeps, SaveKeeps
DEF Worker
-----------------------------------------------------------------------------
(* A run begins and ends *)

\* The process ends, by an error, by a kill, or after the state file was removed.
LEMMA EndKeeps ==
    ASSUME FetchInv, Running, NEW how \in {"crashed", "failed", "done"}, ProcessEnds(how),
           UNCHANGED <<server, runs, out>>,
           saved' \in {NoFile, saved}, part' \in Files, part' = part \/ phase = "single"
    PROVE  FetchInv'
  <1>1. /\ phase' = how /\ pr' = NoProbe /\ st' = NoState /\ round' = NoRound /\ flags' = {}
        /\ wk' = [w \in Workers |-> Idle] /\ pending' = {}
        /\ excused' \subseteq {"lost", "reverted", "orphan", "resized"}
        /\ excused' = {} => /\ excused = {} /\ pending = {}
                            /\ phase = "placed" => saved' = NoFile
    BY DEF ProcessEnds, FetchInv, TypeOK
  <1>2. /\ NoProbe \in [len : ChunkCounts \cup {0}, ranges : BOOLEAN, tag : Tags]
        /\ NoState \in States /\ NoRound \in [no : 0..MAX_ROUNDS, jobs : SUBSET Chunks]
        /\ Idle \in Recs /\ Idle.pc = "gone" /\ ~NoProbe.ranges
    BY FetchAssumption DEF NoProbe, NoState, NoRound, Idle, Recs, Tags, States
  <1>3. TypeOK'
    BY <1>1, <1>2 DEF FetchInv, TypeOK, Recs
  <1>4. ~InRun' /\ ~Parallel' /\ ~Single'
    BY <1>1 DEF InRun, Parallel, Single
  <1>5. WorkersInv' /\ BodiesFit'
    BY <1>1, <1>2 DEF WorkersInv, BodiesFit, Busy
  <1>6. RunInv'
    BY <1>1, <1>4 DEF FetchInv, RunInv, Served
  <1>7. ASSUME RecordInv, excused' = {} PROVE RecordInv'
    <2>1. Lengths' /\ Overtaken' /\ DoneWritten' /\ TailWhole'
      BY <1>1, <1>4, <1>7 DEF RecordInv, Lengths, Overtaken, DoneWritten, TailWhole
    <2>2. OutWhole'
      BY <1>1, <1>7 DEF RecordInv, OutWhole, Whole
    <2>3. RecordedIsWritten'
      <3>1. CASE saved' = saved /\ part' = part /\ phase # "placed"
        BY <1>1, <1>7, <3>1 DEF RecordInv, RecordedIsWritten
      <3>2. CASE saved' = saved /\ phase = "single"
        BY <1>7, <3>2 DEF RecordInv, RecordedIsWritten, Overtaken, Single, CurTag
      <3>3. CASE saved' = NoFile
        BY <3>3 DEF RecordedIsWritten
      <3>4. QED
        BY <1>1, <1>7, <3>1, <3>2, <3>3
    <2>4. QED
      BY <2>1, <2>2, <2>3 DEF RecordInv
  <1>8. QED
    BY <1>1, <1>3, <1>5, <1>6, <1>7 DEF FetchInv

LEMMA EndsKeep ==
    ASSUME FetchInv,
           \/ ProbeFails \/ SingleFails \/ RangeIgnoredEnds \/ FatalEnds \/ ContentChangedEnds
           \/ RoundsExhausted \/ TailFails \/ Clean \/ Crash
    PROVE  FetchInv'
  <1>1. part \in Files /\ [c \in Chunks |-> Torn] \in Files
    BY DEF FetchInv, TypeOK, Files, Contents
  <1>2. Running /\ UNCHANGED <<server, runs, out>> /\ saved' \in {NoFile, saved}
    BY DEF ProbeFails, SingleFails, RangeIgnoredEnds, FatalEnds, ContentChangedEnds,
           RoundsExhausted, TailFails, Clean, Crash, Running, RoundOver, RemoveState
  <1>3. \E how \in {"crashed", "failed", "done"} : ProcessEnds(how)
    BY DEF ProbeFails, SingleFails, RangeIgnoredEnds, FatalEnds, ContentChangedEnds,
           RoundsExhausted, TailFails, Clean, Crash, Fail
  <1>4. part' \in Files /\ (part' = part \/ phase = "single")
    BY <1>1 DEF ProbeFails, SingleFails, RangeIgnoredEnds, FatalEnds, ContentChangedEnds,
           RoundsExhausted, TailFails, Clean, Crash
  <1>5. QED
    BY <1>2, <1>3, <1>4, EndKeeps

LEMMA StartKeeps ==
    ASSUME FetchInv, Start PROVE FetchInv'
  <1>1. /\ phase \in {"crashed", "failed", "done"} /\ phase' = "probe" /\ runs' \in 0..MaxRuns
        /\ UNCHANGED <<server, pr, st, round, flags, wk, part, out, saved, pending, excused>>
    BY FetchAssumption DEF Start, Running, FetchInv, TypeOK
  <1>2. ~InRun' /\ ~Parallel' /\ ~Single'
    BY <1>1 DEF InRun, Parallel, Single
  <1>3. TypeOK'
    BY <1>1 DEF FetchInv, TypeOK
  <1>4. WorkersInv' /\ BodiesFit'
    BY <1>1 DEF FetchInv, WorkersInv, BodiesFit, Busy, Fits
  <1>5. RunInv'
    BY <1>1, <1>2 DEF FetchInv, RunInv, Served
  <1>6. RecordInv => RecordInv'
    BY <1>1, <1>2
    DEF RecordInv, Lengths, Overtaken, DoneWritten, TailWhole, OutWhole, Whole, RecordedIsWritten
  <1>7. QED
    BY <1>1, <1>3, <1>4, <1>5, <1>6 DEF FetchInv
\* A worker as a round begins.
LEMMA BeginnersTyped ==
    [Idle EXCEPT !.pc = "start"] \in Recs /\ [Idle EXCEPT !.pc = "start"].pc = "start"
  <1>1. Idle \in Recs
    BY FetchAssumption DEF Idle, Recs
  <1>2. QED
    BY <1>1 DEF Recs

\* A run that resumes starts from what the state file records and the .part file holds.
LEMMA ProbeParallelKeeps ==
    ASSUME FetchInv, ProbeParallel PROVE FetchInv'
  <1>1. /\ phase = "probe" /\ server.ranges # "no" /\ server.ver \in Versions
        /\ server.ver \in server.seen
        /\ pending = {} /\ \A w \in Workers : wk[w].pc = "gone"
        /\ UNCHANGED <<server, flags, out, saved, pending, runs, excused>>
    BY DEF ProbeParallel, FetchInv, TypeOK, RunInv, WorkersInv
  <1>2. /\ pr' = [len |-> Size[server.ver], ranges |-> TRUE, tag |-> Tag[server.ver]]
        /\ pr'.len > 0
        /\ st' = IF Resumable(pr') THEN saved ELSE [tag |-> pr'.tag, len |-> pr'.len, done |-> {}]
        /\ part' = Preallocated(pr'.len) /\ BeginRound(1, st')
    BY DEF ProbeParallel
  <1>3. /\ pr'.len = Size[server.ver] /\ pr'.ranges /\ pr'.tag = CurTag
        /\ pr'.len \in ChunkCounts /\ pr'.len \in Nat /\ pr'.tag \in Tags
        /\ pr' \in [len : ChunkCounts \cup {0}, ranges : BOOLEAN, tag : Tags]
        /\ 1..pr'.len \subseteq Chunks
    BY <1>1, <1>2, FetchAssumption DEF ChunkCounts, Chunks, Tags, CurTag
  <1>4. /\ st' \in States /\ st'.tag = pr'.tag /\ st'.len = pr'.len
        /\ st'.done \subseteq 1..pr'.len
    <2>1. CASE Resumable(pr')
      BY <1>2, <2>1 DEF Resumable, FetchInv, TypeOK, RunInv
    <2>2. CASE ~Resumable(pr')
      BY <1>2, <1>3, <2>2 DEF States
    <2>3. QED
      BY <2>1, <2>2
  <1>5. part' \in Files /\ \A c \in 1..pr'.len : part'[c] = part[c]
    BY <1>2, <1>3 DEF Preallocated, FetchInv, TypeOK, Files, Contents
  <1>6. /\ Remaining(st') \subseteq Chunks
        /\ Remaining(st') = {c \in 1..pr'.len : c \notin st'.done}
    BY <1>3, <1>4 DEF Remaining
  <1>7. \/ /\ phase' = "tail" /\ Remaining(st') = {} /\ UNCHANGED <<round, wk>>
        \/ /\ phase' = "round" /\ round' = [no |-> 1, jobs |-> Remaining(st')]
           /\ wk' = [w \in Workers |-> [Idle EXCEPT !.pc = "start"]]
    BY <1>2 DEF BeginRound
  <1>8. [Idle EXCEPT !.pc = "start"] \in Recs /\ [Idle EXCEPT !.pc = "start"].pc = "start"
    BY BeginnersTyped
  <1>9. /\ wk' \in [Workers -> Recs] /\ round' \in [no : 0..MAX_ROUNDS, jobs : SUBSET Chunks]
        /\ \A w \in Workers : wk'[w].pc \in {"gone", "start"} /\ (phase' = "tail" => wk'[w].pc = "gone")
        /\ phase' = "round" => round'.jobs = Remaining(st')
        /\ phase' = "tail" => 1..pr'.len \subseteq st'.done
        /\ phase' \in {"round", "tail"}
    <2>1. CASE phase' = "tail"
      <3>1. UNCHANGED <<round, wk>> /\ Remaining(st') = {}
        BY <1>7, <2>1
      <3>2. wk \in [Workers -> Recs] /\ round \in [no : 0..MAX_ROUNDS, jobs : SUBSET Chunks]
        BY DEF FetchInv, TypeOK, Recs
      <3>3. 1..pr'.len \subseteq st'.done
        BY <1>6, <3>1
      <3>4. QED
        BY <1>1, <2>1, <3>1, <3>2, <3>3
    <2>2. CASE phase' = "round"
      <3>1. /\ round' = [no |-> 1, jobs |-> Remaining(st')]
            /\ wk' = [w \in Workers |-> [Idle EXCEPT !.pc = "start"]]
        BY <1>7, <2>2
      <3>2. 1 \in 0..MAX_ROUNDS
        BY FetchAssumption
      <3>3. QED
        BY <1>6, <1>8, <2>2, <3>1, <3>2
    <2>3. QED
      BY <1>7, <2>1, <2>2
  <1>10. TypeOK'
    BY <1>1, <1>3, <1>4, <1>5, <1>9 DEF FetchInv, TypeOK, Recs
  <1>11. WorkersInv' /\ BodiesFit'
    <2>1. \A w \in Workers : ~Busy(w)' /\ wk'[w].pc \notin {"body", "save"}
      BY <1>9 DEF Busy
    <2>2. QED
      BY <1>6, <1>9, <2>1 DEF WorkersInv, BodiesFit
  <1>12. InRun' /\ Parallel' /\ ~Single'
    BY <1>3, <1>9 DEF InRun, Parallel, Single
  <1>13. RunInv'
    <2>1. \E u \in server.seen : Tag[u] = pr'.tag /\ Size[u] = pr'.len
      BY <1>1, <1>3 DEF CurTag
    <2>2. QED
      BY <1>1, <1>2, <1>3, <1>4, <1>9, <1>12, <2>1 DEF FetchInv, RunInv, Served
  <1>14. ASSUME RecordInv, excused = {} PROVE RecordInv'
    <2>1. ASSUME saved # NoFile, saved.tag # NoTag, saved.tag = pr'.tag
          PROVE  Resumable(pr')
      <3>1. PICK u \in server.seen : Tag[u] = saved.tag /\ Size[u] = saved.len
        BY <2>1 DEF FetchInv, RunInv, Served
      <3>2. saved.len = pr'.len
        BY <1>1, <1>3, <1>14, <2>1, <3>1 DEF RecordInv, Lengths, CurTag
      <3>3. QED
        BY <2>1, <3>2 DEF Resumable
    <2>2. Overtaken'
      BY <1>1, <1>2, <1>3, <1>12, <2>1 DEF Overtaken, CurTag
    <2>3. DoneWritten'
      <3>1. ASSUME NEW c \in st'.done PROVE part'[c] \in Versions /\ Tag[part'[c]] = pr'.tag
        <4>1. Resumable(pr') /\ st' = saved
          BY <1>2, <3>1
        <4>2. PICK v \in Versions : Tag[v] = saved.tag /\ part[c] = v
          BY <1>1, <1>3, <1>14, <3>1, <4>1 DEF RecordInv, RecordedIsWritten, Resumable, CurTag
        <4>3. QED
          BY <1>4, <1>5, <4>1, <4>2
      <3>2. QED
        BY <1>1, <3>1 DEF DoneWritten, Fits
    <2>4. Lengths' /\ TailWhole' /\ OutWhole'
      BY <1>1, <1>3, <1>14 DEF RecordInv, Lengths, TailWhole, OutWhole, Whole
    <2>5. RecordedIsWritten'
      BY <1>10, <1>12, <1>13, <2>2, <2>3, RunRecords, PTL
    <2>6. QED
      BY <2>2, <2>3, <2>4, <2>5 DEF RecordInv
  <1>15. QED
    BY <1>1, <1>10, <1>11, <1>13, <1>14 DEF FetchInv

LEMMA ProbeSingleKeeps ==
    ASSUME FetchInv, ProbeSingle PROVE FetchInv'
  <1>1. /\ phase = "probe" /\ phase' = "single" /\ server.ver \in Versions
        /\ server.ver \in server.seen
        /\ server.ranges = "no" \/ Size[server.ver] = 0
        /\ pending = {} /\ \A w \in Workers : wk[w].pc = "gone"
        /\ saved' \in {NoFile, saved}
        /\ UNCHANGED <<server, st, round, flags, wk, part, out, pending, runs, excused>>
    BY DEF ProbeSingle, RemoveState, FetchInv, TypeOK, RunInv, WorkersInv
  <1>2. /\ pr' = [len |-> Size[server.ver], ranges |-> FALSE, tag |-> Tag[server.ver]]
        /\ pr'.len = Size[server.ver] /\ ~pr'.ranges /\ pr'.tag = CurTag
        /\ pr' \in [len : ChunkCounts \cup {0}, ranges : BOOLEAN, tag : Tags]
    BY <1>1, FetchAssumption DEF ProbeSingle, ChunkCounts, Tags, CurTag
  <1>3. InRun' /\ ~Parallel' /\ Single'
    BY <1>1 DEF InRun, Parallel, Single
  <1>4. TypeOK'
    BY <1>1, <1>2 DEF FetchInv, TypeOK
  <1>5. WorkersInv' /\ BodiesFit'
    BY <1>1 DEF FetchInv, WorkersInv, BodiesFit, Busy
  <1>6. RunInv'
    <2>1. \E u \in server.seen : Tag[u] = pr'.tag /\ Size[u] = pr'.len
      BY <1>1, <1>2 DEF CurTag
    <2>2. QED
      BY <1>1, <1>2, <1>3, <2>1 DEF FetchInv, RunInv, Served
  <1>7. ASSUME RecordInv PROVE RecordInv'
    <2>1. Overtaken'
      <3>1. ASSUME saved' # NoFile, saved'.tag # NoTag, saved'.tag = Tag[server.ver] PROVE FALSE
        <4>1. /\ saved' = saved /\ Size[server.ver] = 0 /\ saved.len > 0
              /\ Served(saved.tag, saved.len)
          BY <1>1, <3>1 DEF FetchInv, RunInv
        <4>2. PICK u \in server.seen : Tag[u] = saved.tag /\ Size[u] = saved.len
          BY <4>1 DEF Served
        <4>3. Size[u] = Size[server.ver]
          BY <1>1, <1>7, <3>1, <4>1, <4>2 DEF RecordInv, Lengths
        <4>4. QED
          BY <4>1, <4>2, <4>3
      <3>2. QED
        BY <1>1, <1>3, <3>1 DEF Overtaken, CurTag
    <2>2. Lengths' /\ DoneWritten' /\ TailWhole' /\ OutWhole'
      BY <1>1, <1>3, <1>7 DEF RecordInv, Lengths, DoneWritten, TailWhole, OutWhole, Whole
    <2>3. RecordedIsWritten'
      BY <1>3, <1>4, <1>6, <2>1, <2>2, RunRecords, PTL
    <2>4. QED
      BY <2>1, <2>2, <2>3 DEF RecordInv
  <1>8. QED
    BY <1>1, <1>4, <1>5, <1>6, <1>7 DEF FetchInv
LEMMA SingleOkKeeps ==
    ASSUME FetchInv, SingleOk PROVE FetchInv'
  <1> DEFINE v == server.ver
             late == {[by |-> "dropped", at |-> "part", chunk |-> c, ver |-> v] :
                         c \in {d \in Chunks : d = Size[v]}}
  <1>1. /\ phase = "single" /\ phase' = "tail" /\ ~pr.ranges /\ pending = {}
        /\ v \in Versions /\ Size[v] = pr.len
        /\ pending' = late
        /\ part' = [c \in Chunks |-> IF c < Size[v] THEN v ELSE IF c = Size[v] THEN Torn ELSE Hole]
        /\ UNCHANGED <<server, pr, st, round, flags, wk, out, saved, runs, excused>>
    BY DEF SingleOk, FetchInv, TypeOK, RunInv
  <1>2. InRun' /\ ~Parallel' /\ Single' /\ InRun /\ Single
    BY <1>1 DEF InRun, Parallel, Single
  <1>3. /\ late \subseteq Writes
        /\ \A p \in late : p.at = "part" /\ p.chunk = Size[v] /\ p.ver = v
        /\ Size[v] \in Chunks => \E p \in late : p.at = "part" /\ p.chunk = Size[v]
    <2> DEFINE W(c) == [by |-> "dropped", at |-> "part", chunk |-> c, ver |-> v]
    <2>1. \A c \in Chunks : /\ W(c) \in Writes
                            /\ W(c).at = "part" /\ W(c).chunk = c /\ W(c).ver = v
      BY <1>1 DEF Writes
    <2>2. late = {W(c) : c \in {d \in Chunks : d = Size[v]}}
      OBVIOUS
    <2> HIDE DEF W, late
    <2>3. QED
      BY <2>1, <2>2
  <1>4. part' \in Files
    BY <1>1 DEF Files, Contents
  <1> HIDE DEF late
  <1>5. TypeOK'
    BY <1>1, <1>3, <1>4 DEF FetchInv, TypeOK, Writes, Outputs
  <1>6. WorkersInv' /\ BodiesFit'
    BY <1>1 DEF FetchInv, WorkersInv, BodiesFit, Busy
  <1>7. RunInv'
    BY <1>1, <1>2, <1>3 DEF FetchInv, RunInv, Served
  <1>8. ASSUME RecordInv PROVE RecordInv'
    <2>1. Lengths' /\ Overtaken' /\ DoneWritten'
      BY <1>1, <1>2, <1>8 DEF RecordInv, Lengths, Overtaken, DoneWritten, CurTag
    <2>2. TailWhole'
      <3>1. Tag[v] \in Tags /\ Size[v] \in Nat /\ 1..Size[v] \subseteq Chunks
        BY <1>1, FetchAssumption DEF Tags, Chunks, ChunkCounts
      <3>2. ASSUME NEW c \in 1..Size[v]
            PROVE  \/ part'[c] = v
                   \/ \E p \in pending' : p.at = "part" /\ p.chunk = c
        BY <1>1, <1>3, <3>1
      <3>3. Whole(part, pr.len, pr.tag, "part")'
        BY <1>1, <1>3, <3>1, <3>2 DEF Whole
      <3>4. QED
        BY <3>3 DEF TailWhole
    <2>3. OutWhole'
      BY <1>1, <1>3, <1>8 DEF RecordInv, OutWhole, Whole
    <2>4. RecordedIsWritten'
      BY <1>2, <1>5, <1>7, <2>1, RunRecords, PTL
    <2>5. QED
      BY <2>1, <2>2, <2>3, <2>4 DEF RecordInv
  <1>9. QED
    BY <1>1, <1>5, <1>6, <1>7, <1>8 DEF FetchInv

-----------------------------------------------------------------------------
(* The coordinator between the rounds and after them *)

LEMMA NextRoundKeeps ==
    ASSUME FetchInv, NextRound PROVE FetchInv'
  <1>1. /\ phase = "round" /\ pr.ranges /\ \A w \in Workers : wk[w].pc = "gone"
        /\ BeginRound(round.no + 1, st)
        /\ Remaining(st) = {} \/ round.no < MAX_ROUNDS
        /\ pending' = {[p EXCEPT !.by = "dropped"] : p \in pending}
        /\ UNCHANGED <<server, pr, st, flags, part, out, saved, runs, excused>>
    BY DEF NextRound, RoundOver, FetchInv, RunInv
  <1>2. /\ Parallel /\ InRun /\ ~Single /\ st.len = pr.len /\ pr.len \in Nat
        /\ st \in States /\ st.done \subseteq 1..pr.len /\ round.no \in 0..MAX_ROUNDS
        /\ 1..pr.len \subseteq Chunks
    <2>1. /\ Parallel /\ InRun /\ ~Single
      BY <1>1 DEF Parallel, InRun, Single
    <2>2. /\ st \in States /\ round.no \in 0..MAX_ROUNDS /\ pr.len > 0
          /\ pr.len \in ChunkCounts \cup {0} /\ st.len = pr.len /\ st.done \subseteq 1..pr.len
      BY <2>1 DEF FetchInv, TypeOK, RunInv
    <2>3. QED
      BY <2>1, <2>2, FetchAssumption DEF ChunkCounts, Chunks
  <1>3. Remaining(st) = {c \in 1..pr.len : c \notin st.done}
    BY <1>2 DEF Remaining
  <1>4. /\ phase' \in {"round", "tail"}
        /\ wk' \in [Workers -> Recs] /\ round' \in [no : 0..MAX_ROUNDS, jobs : SUBSET Chunks]
        /\ \A w \in Workers : wk'[w].pc \in {"gone", "start"} /\ (phase' = "tail" => wk'[w].pc = "gone")
        /\ phase' = "round" => round'.jobs = Remaining(st)
        /\ phase' = "tail" => 1..pr.len \subseteq st.done
    <2>1. CASE Remaining(st) = {}
      <3>1. phase' = "tail" /\ UNCHANGED <<round, wk>>
        BY <1>1, <2>1 DEF BeginRound
      <3>2. wk \in [Workers -> Recs] /\ round \in [no : 0..MAX_ROUNDS, jobs : SUBSET Chunks]
        BY DEF FetchInv, TypeOK, Recs
      <3>3. QED
        BY <1>1, <1>3, <2>1, <3>1, <3>2
    <2>2. CASE Remaining(st) # {}
      <3>1. /\ phase' = "round" /\ round' = [no |-> round.no + 1, jobs |-> Remaining(st)]
            /\ wk' = [w \in Workers |-> [Idle EXCEPT !.pc = "start"]]
        BY <1>1, <2>2 DEF BeginRound
      <3>2. round.no + 1 \in 0..MAX_ROUNDS
        BY <1>1, <1>2, <2>2, FetchAssumption
      <3>3. QED
        BY <1>2, <1>3, <3>1, <3>2, BeginnersTyped
    <2>3. QED
      BY <2>1, <2>2
  <1>5. /\ pending' \subseteq Writes
        /\ \A p \in pending : \E q \in pending' : q.at = p.at /\ q.chunk = p.chunk /\ q.ver = p.ver
        /\ \A q \in pending' : \E p \in pending : q.at = p.at /\ q.chunk = p.chunk /\ q.ver = p.ver
    <2>1. pending \subseteq Writes
      BY DEF FetchInv, TypeOK, Writes, Outputs
    <2>2. ASSUME NEW p \in pending
          PROVE  LET q == [p EXCEPT !.by = "dropped"] IN
                 q \in Writes /\ q.at = p.at /\ q.ver = p.ver /\ q.chunk = p.chunk
      BY <2>1 DEF Writes
    <2>3. QED
      BY <1>1, <2>2
  <1>6. TypeOK'
    BY <1>1, <1>4, <1>5 DEF FetchInv, TypeOK, Recs, Writes
  <1>7. WorkersInv' /\ BodiesFit'
    <2>1. \A w \in Workers : ~Busy(w)' /\ wk'[w].pc \notin {"body", "save"}
      BY <1>4 DEF Busy
    <2>2. QED
      BY <1>1, <1>3, <1>4, <2>1 DEF WorkersInv, BodiesFit
  <1>8. InRun' /\ Parallel' /\ ~Single'
    BY <1>1, <1>4 DEF InRun, Parallel, Single
  <1>9. RunInv'
    BY <1>1, <1>2, <1>4, <1>5, <1>8 DEF FetchInv, RunInv, Served
  <1>10. ASSUME RecordInv PROVE RecordInv'
    <2>1. Lengths' /\ Overtaken' /\ TailWhole'
      BY <1>1, <1>2, <1>8, <1>10 DEF RecordInv, Lengths, Overtaken, TailWhole, CurTag
    <2>2. DoneWritten'
      <3>1. \A q \in pending' : Fits(q.ver)'
        BY <1>1, <1>2, <1>5, <1>10 DEF RecordInv, DoneWritten, Fits
      <3>2. ASSUME NEW c \in st.done
            PROVE  \/ part[c] \in Versions /\ Fits(part[c])'
                   \/ \E q \in pending' : q.chunk = c
        <4>1. CASE part[c] \in Versions /\ Fits(part[c])
          BY <1>1, <4>1 DEF Fits
        <4>2. CASE \E p \in pending : p.chunk = c
          BY <1>5, <4>2
        <4>3. QED
          BY <1>2, <1>10, <4>1, <4>2 DEF RecordInv, DoneWritten
      <3>3. QED
        BY <1>1, <3>1, <3>2 DEF DoneWritten
    <2>3. OutWhole'
      <3>1. ASSUME out \in Outputs PROVE Whole(out.data, out.len, out.tag, "out")'
        <4>1. PICK t \in Tags :
                /\ \A c \in 1..out.len :
                     \/ out.data[c] \in Versions /\ (out.tag # NoTag => Tag[out.data[c]] = t)
                     \/ \E p \in pending : p.at = "out" /\ p.chunk = c
                /\ \A p \in pending : p.at = "out" /\ out.tag # NoTag => Tag[p.ver] = t
          BY <1>10, <3>1 DEF RecordInv, OutWhole, Whole
        <4>2. \A q \in pending' : q.at = "out" /\ out.tag # NoTag => Tag[q.ver] = t
          BY <1>5, <4>1
        <4>3. \A c \in 1..out.len :
                \/ out.data[c] \in Versions /\ (out.tag # NoTag => Tag[out.data[c]] = t)
                \/ \E q \in pending' : q.at = "out" /\ q.chunk = c
          BY <1>5, <4>1
        <4>4. QED
          BY <1>1, <4>2, <4>3 DEF Whole
      <3>2. QED
        BY <1>1, <3>1 DEF OutWhole
    <2>4. RecordedIsWritten'
      BY <1>6, <1>8, <1>9, <2>1, <2>2, RunRecords, PTL
    <2>5. QED
      BY <2>1, <2>2, <2>3, <2>4 DEF RecordInv
  <1>11. QED
    BY <1>1, <1>6, <1>7, <1>9, <1>10 DEF FetchInv
\* A finished download is whole: every chunk is done, and one validator covers them.
LEMMA TailIsWhole ==
    ASSUME TypeOK, RunInv, RecordInv, phase = "tail"
    PROVE  Whole(part, pr.len, pr.tag, "part")
  <1>1. CASE ~pr.ranges
    BY <1>1 DEF RecordInv, TailWhole
  <1>2. CASE pr.ranges
    <2>1. /\ Parallel /\ pr.tag \in Tags /\ 1..pr.len \subseteq st.done
          /\ \A p \in pending : p.at = "part"
      BY <1>2 DEF Parallel, TypeOK, RunInv
    <2>2. \A c \in 1..pr.len :
             \/ part[c] \in Versions /\ (pr.tag # NoTag => Tag[part[c]] = pr.tag)
             \/ \E p \in pending : p.at = "part" /\ p.chunk = c
      BY <2>1 DEF RecordInv, DoneWritten, Fits
    <2>3. \A p \in pending : p.at = "part" /\ pr.tag # NoTag => Tag[p.ver] = pr.tag
      BY <2>1 DEF RecordInv, DoneWritten, Fits
    <2>4. QED
      BY <2>1, <2>2, <2>3 DEF Whole
  <1>3. QED
    BY <1>1, <1>2 DEF TypeOK

LEMMA PlaceKeeps ==
    ASSUME FetchInv, Place PROVE FetchInv'
  <1>1. /\ phase = "tail" /\ phase' = "placed"
        /\ out' = [data |-> part, len |-> pr.len, tag |-> pr.tag]
        /\ part' = Empty
        /\ pending' = {[p EXCEPT !.at = "out", !.by = "dropped"] : p \in pending}
        /\ UNCHANGED <<server, pr, st, round, flags, wk, saved, runs, excused>>
    BY DEF Place
  <1>2. InRun /\ InRun' /\ ~Parallel' /\ ~Single'
    BY <1>1 DEF InRun, Parallel, Single
  <1>3. /\ pending' \subseteq Writes
        /\ \A p \in pending : \E q \in pending' : q.at = "out" /\ q.chunk = p.chunk
        /\ \A q \in pending' : q.at = "out" /\ \E p \in pending : q.ver = p.ver
    <2>1. pending \subseteq Writes
      BY DEF FetchInv, TypeOK, Writes, Outputs
    <2>2. ASSUME NEW p \in pending
          PROVE  LET q == [p EXCEPT !.at = "out", !.by = "dropped"] IN
                 q \in Writes /\ q.at = "out" /\ q.ver = p.ver /\ q.chunk = p.chunk
      BY <2>1 DEF Writes
    <2>3. QED
      BY <1>1, <2>2
  <1>4. /\ out'.data = part /\ out'.len = pr.len /\ out'.tag = pr.tag
        /\ out' \in [data : Files, len : ChunkCounts, tag : Tags] /\ part' \in Files
    <2>1. part \in Files /\ pr.tag \in Tags /\ pr.len \in ChunkCounts
      BY <1>2, FetchAssumption DEF FetchInv, TypeOK, RunInv, Served, ChunkCounts
    <2>2. Empty \in Files
      BY DEF Empty, Files, Contents
    <2>3. QED
      BY <1>1, <2>1, <2>2
  <1>5. TypeOK'
    BY <1>1, <1>3, <1>4 DEF FetchInv, TypeOK, Writes, Outputs
  <1>6. WorkersInv' /\ BodiesFit'
    BY <1>1 DEF FetchInv, WorkersInv, BodiesFit, Busy
  <1>7. RunInv'
    BY <1>1, <1>2, <1>3, <1>4 DEF FetchInv, RunInv, Served, Outputs
  <1>8. ASSUME RecordInv PROVE RecordInv'
    <2>1. Lengths' /\ Overtaken' /\ DoneWritten' /\ TailWhole'
      BY <1>1, <1>2, <1>8 DEF RecordInv, Lengths, Overtaken, DoneWritten, TailWhole
    <2>2. PICK t \in Tags :
            /\ \A c \in 1..pr.len :
                 \/ part[c] \in Versions /\ (pr.tag # NoTag => Tag[part[c]] = t)
                 \/ \E p \in pending : p.at = "part" /\ p.chunk = c
            /\ \A p \in pending : p.at = "part" /\ pr.tag # NoTag => Tag[p.ver] = t
      BY <1>1, <1>8, TailIsWhole DEF FetchInv, Whole
    <2>3. \A p \in pending : p.at = "part"
      BY <1>1 DEF FetchInv, RunInv
    <2>4. \A c \in 1..pr.len :
            \/ part[c] \in Versions /\ (pr.tag # NoTag => Tag[part[c]] = t)
            \/ \E q \in pending' : q.at = "out" /\ q.chunk = c
      BY <1>3, <2>2
    <2>5. \A q \in pending' : q.at = "out" /\ pr.tag # NoTag => Tag[q.ver] = t
      BY <1>3, <2>2, <2>3
    <2>6. OutWhole'
      BY <1>4, <2>4, <2>5 DEF OutWhole, Whole
    <2>7. RecordedIsWritten'
      BY <1>1 DEF RecordedIsWritten
    <2>8. QED
      BY <2>1, <2>6, <2>7 DEF RecordInv
  <1>9. QED
    BY <1>1, <1>5, <1>6, <1>7, <1>8 DEF FetchInv

-----------------------------------------------------------------------------
(* The disk and the server *)

LEMMA WriteFailsKeeps ==
    ASSUME FetchInv, NEW p \in pending, WriteFails(p) PROVE FetchInv'
  <1>1. /\ pending' = pending \ {p} /\ excused' = excused \cup {"lost"}
        /\ wk' = [w \in Workers |-> [wk[w] EXCEPT !.err = @ \/ p.by = w]]
        /\ UNCHANGED <<server, phase, pr, st, round, flags, part, out, saved, runs>>
    BY DEF WriteFails
  <1>2. /\ wk' \in [Workers -> Recs]
        /\ \A w \in Workers : /\ wk'[w].pc = wk[w].pc /\ wk'[w].job = wk[w].job
                              /\ wk'[w].ver = wk[w].ver /\ wk'[w].snap = wk[w].snap
    <2>1. \A w \in Workers : wk[w] \in Recs
      BY WorkerTyped
    <2>2. ASSUME NEW w \in Workers
          PROVE  LET r == [wk[w] EXCEPT !.err = @ \/ p.by = w] IN
                 /\ r \in Recs /\ r.pc = wk[w].pc /\ r.job = wk[w].job
                 /\ r.ver = wk[w].ver /\ r.snap = wk[w].snap
      <3>1. (wk[w].err \/ p.by = w) \in BOOLEAN
        OBVIOUS
      <3>2. QED
        BY <2>1, <3>1 DEF Recs
    <2>3. QED
      BY <1>1, <2>2
  <1>3. TypeOK'
    BY <1>1, <1>2 DEF FetchInv, TypeOK, Recs
  <1>4. WorkersInv' /\ BodiesFit'
    <2>1. UNCHANGED <<phase, pr, st, round>>
      BY <1>1
    <2>2. \A w \in Workers : Busy(w)' <=> Busy(w)
      BY <1>2 DEF Busy
    <2>3. QED
      BY <1>2, <2>1, <2>2 DEF FetchInv, WorkersInv, BodiesFit, Fits
  <1>5. RunInv'
    BY <1>1 DEF FetchInv, RunInv, InRun, Parallel, Served
  <1>6. QED
    BY <1>1, <1>3, <1>4, <1>5 DEF FetchInv
\* What a write under way is for is still there when the disk has taken it.
LEMMA WrittenKeeps ==
    ASSUME FetchInv, NEW p \in pending, Written(p) PROVE FetchInv'
  <1>1. /\ pending' = pending \ {p} /\ p.chunk \in Chunks /\ p.ver \in Versions
        /\ phase \in {"round", "tail", "placed"}
        /\ p.at = IF phase = "placed" THEN "out" ELSE "part"
        /\ UNCHANGED <<server, phase, pr, st, round, flags, wk, saved, runs, excused>>
    BY DEF Written, FetchInv, TypeOK, RunInv
  <1>2. InRun /\ InRun' /\ (Parallel' <=> Parallel) /\ (Single' <=> Single) /\ CurTag' = CurTag
    BY <1>1 DEF InRun, Parallel, Single, CurTag
  <1>3. WorkersInv' /\ BodiesFit'
    BY <1>1 DEF FetchInv, WorkersInv, BodiesFit, Busy, Fits
  <1>4. (Lengths => Lengths') /\ (Overtaken => Overtaken')
    BY <1>1, <1>2 DEF Lengths, Overtaken
  <1>5. CASE p.at = "part"
    <2>1. part' = [part EXCEPT ![p.chunk] = p.ver] /\ out' = out /\ phase # "placed"
      BY <1>1, <1>5 DEF Written
    <2>2. /\ part' \in Files /\ part'[p.chunk] = p.ver
          /\ \A c \in Chunks : c # p.chunk => part'[c] = part[c]
      BY <1>1, <2>1 DEF FetchInv, TypeOK, Files, Contents
    <2>3. TypeOK'
      BY <1>1, <2>1, <2>2 DEF FetchInv, TypeOK
    <2>4. RunInv'
      BY <1>1, <1>2, <2>1 DEF FetchInv, RunInv, Served
    <2>5. ASSUME RecordInv PROVE RecordInv'
      <3>1. DoneWritten'
        <4>1. ASSUME Parallel, NEW c \in st.done
              PROVE  \/ part'[c] \in Versions /\ Fits(part'[c])
                     \/ \E q \in pending' : q.chunk = c
          <5>1. c \in Chunks
            BY DEF FetchInv, TypeOK, States
          <5>2. CASE c = p.chunk
            BY <1>1, <2>2, <2>5, <4>1, <5>2 DEF RecordInv, DoneWritten
          <5>3. CASE c # p.chunk
            BY <1>1, <2>2, <2>5, <4>1, <5>1, <5>3 DEF RecordInv, DoneWritten
          <5>4. QED
            BY <5>2, <5>3
        <4>2. \A v : Fits(v)' <=> Fits(v)
          BY <1>1 DEF Fits
        <4>3. Parallel => \A q \in pending' : Fits(q.ver)
          BY <1>1, <2>5 DEF RecordInv, DoneWritten
        <4>4. QED
          BY <1>1, <1>2, <4>1, <4>3 DEF DoneWritten, Fits
      <3>2. TailWhole'
        <4>1. ASSUME phase = "tail", ~pr.ranges PROVE Whole(part, pr.len, pr.tag, "part")'
          <5>1. PICK t \in Tags :
                  /\ \A c \in 1..pr.len :
                       \/ part[c] \in Versions /\ (pr.tag # NoTag => Tag[part[c]] = t)
                       \/ \E q \in pending : q.at = "part" /\ q.chunk = c
                  /\ \A q \in pending : q.at = "part" /\ pr.tag # NoTag => Tag[q.ver] = t
            BY <2>5, <4>1 DEF RecordInv, TailWhole, Whole
          <5>2. 1..pr.len \subseteq Chunks
            BY <1>2 DEF FetchInv, TypeOK, RunInv, Served, Chunks, ChunkCounts
          <5>3. ASSUME NEW c \in 1..pr.len
                PROVE  \/ part'[c] \in Versions /\ (pr.tag # NoTag => Tag[part'[c]] = t)
                       \/ \E q \in pending' : q.at = "part" /\ q.chunk = c
            <6>1. CASE c = p.chunk
              BY <1>1, <1>5, <2>2, <5>1, <6>1
            <6>2. CASE c # p.chunk
              BY <1>1, <2>2, <5>1, <5>2, <6>2
            <6>3. QED
              BY <6>1, <6>2
          <5>4. QED
            BY <1>1, <5>1, <5>3 DEF Whole
        <4>2. QED
          BY <1>1, <4>1 DEF TailWhole
      <3>3. OutWhole'
        BY <1>1, <1>5, <2>1, <2>5 DEF RecordInv, OutWhole, Whole
      <3>4. RecordedIsWritten'
        BY <1>2, <1>4, <2>3, <2>4, <2>5, <3>1, RunRecords, PTL DEF RecordInv
      <3>5. QED
        BY <1>4, <2>5, <3>1, <3>2, <3>3, <3>4 DEF RecordInv
    <2>6. QED
      BY <1>1, <1>3, <2>3, <2>4, <2>5 DEF FetchInv
  <1>6. CASE p.at = "out"
    <2>1. out' = [out EXCEPT !.data[p.chunk] = p.ver] /\ part' = part /\ phase = "placed"
      BY <1>1, <1>6 DEF Written
    <2>2. out \in Outputs
      BY <2>1 DEF FetchInv, RunInv
    <2> DEFINE d == [out.data EXCEPT ![p.chunk] = p.ver]
    <2>3. out' = [out EXCEPT !.data = d]
      BY <2>1, <2>2 DEF Outputs
    <2>4. /\ d \in Files /\ d[p.chunk] = p.ver
          /\ \A c \in Chunks : c # p.chunk => d[c] = out.data[c]
      BY <1>1, <2>2 DEF Outputs, Files, Contents
    <2> HIDE DEF d
    <2>5. out' \in Outputs /\ out'.data = d /\ out'.len = out.len /\ out'.tag = out.tag
      BY <2>2, <2>3, <2>4 DEF Outputs
    <2>6. TypeOK'
      BY <1>1, <2>1, <2>5 DEF FetchInv, TypeOK, Outputs
    <2>7. RunInv'
      BY <1>1, <1>2, <2>1, <2>5 DEF FetchInv, RunInv, Served
    <2>8. ASSUME RecordInv PROVE RecordInv'
      <3>1. DoneWritten' /\ TailWhole' /\ RecordedIsWritten'
        BY <1>1, <2>1 DEF DoneWritten, Parallel, TailWhole, RecordedIsWritten
      <3>2. PICK t \in Tags :
              /\ \A c \in 1..out.len :
                   \/ out.data[c] \in Versions /\ (out.tag # NoTag => Tag[out.data[c]] = t)
                   \/ \E q \in pending : q.at = "out" /\ q.chunk = c
              /\ \A q \in pending : q.at = "out" /\ out.tag # NoTag => Tag[q.ver] = t
        BY <2>2, <2>8 DEF RecordInv, OutWhole, Whole
      <3>3. 1..out.len \subseteq Chunks
        BY <2>2 DEF Outputs, Chunks
      <3>4. ASSUME NEW c \in 1..out.len
            PROVE  \/ d[c] \in Versions /\ (out.tag # NoTag => Tag[d[c]] = t)
                   \/ \E q \in pending' : q.at = "out" /\ q.chunk = c
        <4>1. CASE c = p.chunk
          BY <1>1, <1>6, <2>4, <3>2, <4>1
        <4>2. CASE c # p.chunk
          BY <1>1, <2>4, <3>2, <3>3, <4>2
        <4>3. QED
          BY <4>1, <4>2
      <3>5. OutWhole'
        BY <1>1, <2>5, <3>2, <3>4 DEF OutWhole, Whole
      <3>6. QED
        BY <1>4, <2>8, <3>1, <3>5 DEF RecordInv
    <2>9. QED
      BY <1>1, <1>3, <2>6, <2>7, <2>8 DEF FetchInv
  <1>7. QED
    BY <1>1, <1>5, <1>6

\* The server's content changes: what was on record for it is as true as before, or is not believed.
LEMMA PublishKeeps ==
    ASSUME FetchInv, NEW v \in Versions, Publish(v) PROVE FetchInv'
  <1>1. /\ server.changes < MaxChanges
        /\ server' = [server EXCEPT !.ver = v, !.seen = @ \cup {v}, !.changes = @ + 1]
        /\ UNCHANGED <<phase, pr, st, round, flags, wk, part, out, saved, pending, runs>>
    BY DEF Publish
  <1>2. /\ excused' \subseteq {"lost", "reverted", "orphan", "resized"} /\ excused \subseteq excused'
        /\ \A u \in server.seen : /\ Tag[u] = Tag[v] /\ Tag[v] # CurTag => "reverted" \in excused'
                                  /\ Tag[u] = Tag[v] /\ Tag[v] # NoTag /\ Size[u] # Size[v]
                                       => "resized" \in excused'
    BY DEF Publish, CurTag, FetchInv, TypeOK
  <1>3. /\ server'.ver = v /\ server'.seen = server.seen \cup {v} /\ server'.ranges = server.ranges
        /\ server' \in [ver : Versions, ranges : {"yes", "ignored", "no"}, seen : SUBSET Versions,
                        changes : 0..MaxChanges]
    <2>1. server \in [ver : Versions, ranges : {"yes", "ignored", "no"}, seen : SUBSET Versions,
                      changes : 0..MaxChanges]
      BY DEF FetchInv, TypeOK
    <2>2. server.changes + 1 \in 0..MaxChanges
      BY <1>1, <2>1, FetchAssumption
    <2>3. QED
      BY <1>1, <2>1, <2>2
  <1>4. TypeOK'
    BY <1>1, <1>2, <1>3 DEF FetchInv, TypeOK
  <1>5. (InRun' <=> InRun) /\ (Parallel' <=> Parallel) /\ (Single' <=> Single) /\ CurTag' = Tag[v]
    BY <1>1, <1>3 DEF InRun, Parallel, Single, CurTag
  <1>6. WorkersInv' /\ BodiesFit'
    BY <1>1 DEF FetchInv, WorkersInv, BodiesFit, Busy, Fits
  <1>7. RunInv'
    <2>1. Served(pr.tag, pr.len) => Served(pr.tag, pr.len)'
      BY <1>1, <1>3 DEF Served
    <2>2. Served(saved.tag, saved.len) => Served(saved.tag, saved.len)'
      BY <1>1, <1>3 DEF Served
    <2>3. QED
      BY <1>1, <1>3, <1>5, <2>1, <2>2 DEF FetchInv, RunInv
  <1>8. ASSUME RecordInv, excused' = {} PROVE RecordInv'
    <2>1. \A u \in server.seen : /\ Tag[u] = Tag[v] => Tag[v] = CurTag
                                 /\ Tag[u] = Tag[v] /\ Tag[v] # NoTag => Size[u] = Size[v]
      BY <1>2, <1>8
    <2>2. Lengths'
      BY <1>3, <1>8, <2>1 DEF RecordInv, Lengths
    <2>3. saved # NoFile /\ saved.tag = Tag[v] => saved.tag = CurTag
      BY <2>1 DEF FetchInv, RunInv, Served
    <2>4. Overtaken'
      BY <1>1, <1>5, <1>8, <2>3 DEF RecordInv, Overtaken
    <2>5. DoneWritten' /\ TailWhole' /\ OutWhole'
      BY <1>1, <1>5, <1>8 DEF RecordInv, DoneWritten, Fits, TailWhole, OutWhole, Whole
    <2>6. RecordedIsWritten'
      <3>1. saved # NoFile /\ saved.tag = Tag[server'.ver] => saved.tag = Tag[server.ver]
        BY <1>3, <2>3 DEF CurTag
      <3>2. excused = {}
        BY <1>2, <1>8
      <3>3. QED
        BY <1>1, <1>8, <3>1, <3>2 DEF RecordInv, RecordedIsWritten
    <2>7. QED
      BY <2>2, <2>4, <2>5, <2>6 DEF RecordInv
  <1>9. excused' = {} => excused = {}
    BY <1>2
  <1>10. QED
    BY <1>4, <1>6, <1>7, <1>8, <1>9 DEF FetchInv
-----------------------------------------------------------------------------
(* The invariant, and what follows from it *)

LEMMA InitHolds == Init => FetchInv
  <1> SUFFICES ASSUME Init PROVE FetchInv
    OBVIOUS
  <1>1. PICK v \in Versions, r \in {"yes", "ignored", "no"} :
          server = [ver |-> v, ranges |-> r, seen |-> {v}, changes |-> 0]
    BY DEF Init
  <1>2. /\ phase = "failed" /\ pr = NoProbe /\ st = NoState /\ round = NoRound /\ flags = {}
        /\ wk = [w \in Workers |-> Idle] /\ part = Empty /\ out = NoFile /\ saved = NoFile
        /\ pending = {} /\ runs = 0 /\ excused = {}
    BY DEF Init
  <1>3. /\ NoProbe \in [len : ChunkCounts \cup {0}, ranges : BOOLEAN, tag : Tags]
        /\ NoState \in States /\ NoRound \in [no : 0..MAX_ROUNDS, jobs : SUBSET Chunks]
        /\ Idle \in Recs /\ Idle.pc = "gone" /\ ~NoProbe.ranges /\ Empty \in Files
    BY FetchAssumption
    DEF NoProbe, NoState, NoRound, Idle, Recs, Tags, States, Empty, Files, Contents
  <1>4. ~InRun /\ ~Parallel /\ ~Single
    BY <1>2 DEF InRun, Parallel, Single
  <1>5. TypeOK
    BY <1>1, <1>2, <1>3, FetchAssumption DEF TypeOK, Recs
  <1>6. WorkersInv /\ BodiesFit
    BY <1>2, <1>3 DEF WorkersInv, BodiesFit, Busy
  <1>7. RunInv
    BY <1>1, <1>2, <1>4 DEF RunInv
  <1>8. RecordInv
    BY <1>1, <1>2, <1>4, OutputAssumption
    DEF RecordInv, Lengths, Overtaken, DoneWritten, TailWhole, OutWhole, RecordedIsWritten
  <1>9. QED
    BY <1>5, <1>6, <1>7, <1>8 DEF FetchInv

LEMMA NextKeeps == FetchInv /\ [Next]_vars => FetchInv'
  <1> SUFFICES ASSUME FetchInv, [Next]_vars PROVE FetchInv'
    OBVIOUS
  <1>1. CASE UNCHANGED vars
    <2>1. UNCHANGED <<server, phase, pr, st, part, out, saved, pending, excused>>
      BY <1>1 DEF vars
    <2>2. TypeOK'
      BY <1>1 DEF vars, FetchInv, TypeOK
    <2>3. WorkersInv' /\ BodiesFit'
      BY <1>1 DEF vars, FetchInv, WorkersInv, BodiesFit, Busy, Fits
    <2>4. QED
      BY <2>1, <2>2, <2>3, FilesStay DEF FetchInv
  <1>2. CASE Coordinator
    BY <1>2, ProbeParallelKeeps, ProbeSingleKeeps, SingleOkKeeps, EndsKeep, NextRoundKeeps, PlaceKeeps
    DEF Coordinator
  <1>3. CASE \E w \in Workers : Worker(w)
    BY <1>3, WorkerKeeps
  <1>4. CASE Disk
    BY <1>4, WrittenKeeps, WriteFailsKeeps DEF Disk
  <1>5. CASE \E v \in Versions : Publish(v)
    BY <1>5, PublishKeeps
  <1>6. QED
    BY <1>1, <1>2, <1>3, <1>4, <1>5, StartKeeps, EndsKeep DEF Next, Step

\* The inductive invariant of the downloader (WorkersInv, RunInv, BodiesFit; RecordInv as long as
\* nothing excused has happened) holds in every state.
THEOREM FetchInvariant == Spec => []FetchInv
BY InitHolds, NextKeeps, PTL DEF Spec

\* The variables of the downloader keep their types: no chunk beyond the file, no attempt or round
\* beyond the limits.
THEOREM TypeCorrect == Spec => []TypeOK
  <1>1. FetchInv => TypeOK
    BY DEF FetchInv
  <1>2. QED
    BY <1>1, FetchInvariant, PTL

\* Resuming, with however many workers, crashes and restarts, places no file that mixes contents of
\* two validators or lacks a chunk, unless one of the excused events has happened.
THEOREM ResumingDamagesNothing == Spec => []DamageConfined
  <1>1. FetchInv => DamageConfined
    <2> SUFFICES ASSUME FetchInv, excused = {}, Settled PROVE OutputIntact
      BY DEF DamageConfined, OutputIntact
    <2>1. out \in Outputs /\ out # NoFile /\ Whole(out.data, out.len, out.tag, "out")
      BY DEF FetchInv, TypeOK, Settled, RecordInv, OutWhole, Outputs
    <2>2. PICK t \in Tags :
            \A c \in 1..out.len : /\ out.data[c] \in Versions
                                  /\ out.tag # NoTag => Tag[out.data[c]] = t
      BY <2>1 DEF Whole, Settled
    <2>3. QED
      BY <2>2 DEF OutputIntact
  <1>2. QED
    BY <1>1, FetchInvariant, PTL

\* The state file never claims a chunk that is not in the .part file or on its way there, as long as
\* a run would believe it; and no two workers write one chunk, nor one a chunk that is recorded.
THEOREM RecordsAreTrue == Spec => []PartSound
  <1>1. FetchInv => RecordedIsWritten
    BY DEF FetchInv, RecordInv, RecordedIsWritten
  <1>2. FetchInv => WritersApart
    BY DEF FetchInv, WorkersInv, WritersApart, Busy
  <1>3. QED
    BY <1>1, <1>2, FetchInvariant, PTL DEF PartSound

=============================================================================
