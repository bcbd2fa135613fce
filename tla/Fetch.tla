------------------------------- MODULE Fetch -------------------------------
(***************************************************************************)
(* hydra-fetch: a file is downloaded in chunks by several workers, each    *)
(* through a tunnel of its own, into a .part file; a state file beside it  *)
(* records the chunks that are done, so that a later run of the same       *)
(* command resumes.  The module models one command line and its successive *)
(* runs (some of which crash), the files they leave, and a server whose    *)
(* content may change under them.                                          *)
(*                                                                         *)
(* Abstractions.  The content of a chunk is the version of the file it was *)
(* cut from.  The validator of a version (its ETag or, without one, its    *)
(* Last-Modified) is Tag[v]; two versions may have the same weak validator.*)
(* Whether a tunnel can be opened is left to choice: the choice of a node  *)
(* is modelled in Failover.                                                *)
(***************************************************************************)
EXTENDS Naturals

CONSTANTS
    Workers,        \* worker tasks of a round
    Versions,       \* contents the server may serve
    Tag,            \* Tag[v]: validator of version v, or NoTag
    Size,           \* Size[v]: number of chunks of version v
    NoTag,
    NoFile,
    MAX_ATTEMPTS,   \* attempts per chunk and round (engine.rs)
    MAX_ROUNDS,     \* rounds of the worker pool (3)
    MaxRuns,        \* bound: runs of the command
    MaxChanges,     \* bound: changes of the served content
    Expected,       \* what a run may be told to expect: the SHA-256 of a version, or NoTag
    WritesMayFail   \* whether a write to the .part file may fail

ASSUME FetchAssumption ==
    /\ Workers # {} /\ Versions # {}
    /\ Size \in [Versions -> Nat]
    /\ DOMAIN Tag = Versions
    /\ Expected \subseteq Versions \cup {NoTag}
    /\ {MAX_ATTEMPTS, MAX_ROUNDS, MaxRuns, MaxChanges} \subseteq Nat
    /\ MAX_ATTEMPTS > 0 /\ MAX_ROUNDS > 0
    /\ WritesMayFail \in BOOLEAN

VARIABLES
    server,   \* [ver, ranges]: what is served and how; seen: versions served so far
    phase,    \* where run() is
    pr,       \* ProbeResult of this run: [len, ranges, tag]
    st,       \* FetchState in memory: [tag, len, done]
    round,    \* [no, jobs]: the current round of the worker pool and the jobs behind its cursor
    flags,    \* subset of {"content_changed", "range_ignored", "fatal"}
    wk,       \* the workers' local state
    part,     \* content of the .part file
    out,      \* content of the output file, NoFile before the first
    saved,    \* the state file, NoFile if there is none
    pending,  \* last writes of finished bodies that the disk has not taken yet
    runs,     \* runs started so far
    excused   \* history: the events after which an output may be damaged

vars == <<server, phase, pr, st, round, flags, wk, part, out, saved, pending, runs, excused>>

Hole == "hole"       \* preallocated, never written
Torn == "torn"       \* bytes of more than one origin

ChunkCounts == {Size[v] : v \in Versions}
Chunks == UNION {1..n : n \in ChunkCounts}
Contents == Versions \cup {Hole, Torn}
Files == [Chunks -> Contents]
Tags == {Tag[v] : v \in Versions} \cup {NoTag}
States == [tag : Tags, len : ChunkCounts \cup {0}, done : SUBSET Chunks]
Outputs == [data : Files, len : ChunkCounts, tag : Tags]
Empty == [c \in Chunks |-> Hole]

ASSUME OutputAssumption == NoFile \notin Outputs

Idle == [pc |-> "gone", job |-> 0, tries |-> 0, ver |-> Torn, snap |-> NoFile, err |-> FALSE]
NoProbe == [len |-> 0, ranges |-> FALSE, tag |-> NoTag]
NoState == [tag |-> NoTag, len |-> 0, done |-> {}]
NoRound == [no |-> 0, jobs |-> {}]
Running == phase \notin {"crashed", "failed", "done"}

TypeOK ==
    /\ server \in [ver : Versions, ranges : {"yes", "ignored", "no"}, seen : SUBSET Versions,
                   changes : 0..MaxChanges]
    /\ phase \in {"crashed", "failed", "probe", "round", "single", "tail", "placed", "done"}
    /\ pr \in [len : ChunkCounts \cup {0}, ranges : BOOLEAN, tag : Tags]
    /\ st \in States
    /\ round \in [no : 0..MAX_ROUNDS, jobs : SUBSET Chunks]
    /\ flags \subseteq {"content_changed", "range_ignored", "fatal"}
    /\ wk \in [Workers -> [pc : {"gone", "start", "next", "ask", "body", "marked", "save"},
                           job : Chunks \cup {0}, tries : 0..MAX_ATTEMPTS, ver : Versions \cup {Torn},
                           snap : States \cup {NoFile}, err : BOOLEAN]]
    /\ part \in Files
    /\ out \in Outputs \cup {NoFile}
    /\ saved \in States \cup {NoFile}
    /\ pending \subseteq [by : Workers \cup {"dropped"}, at : {"part", "out"},
                          chunk : Chunks, ver : Versions]
    /\ runs \in 0..MaxRuns
    /\ excused \subseteq {"lost", "reverted", "orphan", "resized"}

Init ==
    /\ \E v \in Versions, r \in {"yes", "ignored", "no"} :
           server = [ver |-> v, ranges |-> r, seen |-> {v}, changes |-> 0]
    /\ phase = "failed"
    /\ pr = NoProbe
    /\ st = NoState
    /\ round = NoRound
    /\ flags = {}
    /\ wk = [w \in Workers |-> Idle]
    /\ part = Empty
    /\ out = NoFile
    /\ saved = NoFile
    /\ pending = {}
    /\ runs = 0
    /\ excused = {}
-----------------------------------------------------------------------------
(* The process ends: what it kept in memory is gone.  main() leaves through   *)
(* process::exit, which waits for no write that is still under way.           *)
ProcessEnds(how) ==
    /\ phase' = how
    /\ pr' = NoProbe
    /\ st' = NoState
    /\ round' = NoRound
    /\ flags' = {}
    /\ wk' = [w \in Workers |-> Idle]
    /\ pending' = {}
    /\ excused' = excused \cup (IF pending # {} THEN {"lost"} ELSE {})
                          \cup (IF phase = "placed" /\ saved' # NoFile THEN {"orphan"} ELSE {})

(* remove_file on the state file; an error is ignored.                        *)
RemoveState == saved' \in {NoFile, saved}

(* run() returns an error.                                                    *)
Fail == ProcessEnds("failed")

(* The command is run, for the first time or again.                           *)
Start ==
    /\ ~Running
    /\ runs < MaxRuns
    /\ runs' = runs + 1
    /\ phase' = "probe"
    /\ UNCHANGED <<server, pr, st, round, flags, wk, part, out, saved, pending, excused>>

(* The chunks that are not done.                                              *)
Remaining(s) == {i \in 1..s.len : i \notin s.done}

(* Mutant: the validators are not compared.                                   *)
ResumableAnyTag(probed) ==
    /\ saved # NoFile
    /\ saved.len = probed.len
    /\ saved.tag # NoTag

(* FetchState::resumable and the comparison of validators: the state file is  *)
(* used only for the same length and the same validator.                      *)
Resumable(probed) ==
    /\ saved # NoFile
    /\ saved.len = probed.len
    /\ saved.tag # NoTag
    /\ saved.tag = probed.tag

(* set_len: the .part file gets its full length and keeps what it had.        *)
Preallocated(len) == [c \in Chunks |-> IF c <= len THEN part[c] ELSE Hole]

(* A round of the worker pool over the chunks that remain; with none there is *)
(* nothing to do but the tail of run().                                       *)
BeginRound(no, s) ==
    IF Remaining(s) = {}
    THEN phase' = "tail" /\ UNCHANGED <<round, wk>>
    ELSE /\ phase' = "round"
         /\ round' = [no |-> no, jobs |-> Remaining(s)]
         /\ wk' = [w \in Workers |-> [Idle EXCEPT !.pc = "start"]]

(* probe() and the beginning of parallel_download(), up to the first round.   *)
ProbeParallel ==
    /\ phase = "probe"
    /\ server.ranges # "no"
    /\ pr' = [len |-> Size[server.ver], ranges |-> TRUE, tag |-> Tag[server.ver]]
    /\ pr'.len > 0
    /\ st' = IF Resumable(pr') THEN saved ELSE [tag |-> pr'.tag, len |-> pr'.len, done |-> {}]
    /\ part' = Preallocated(pr'.len)
    /\ BeginRound(1, st')
    /\ UNCHANGED <<server, flags, out, saved, pending, runs, excused>>

(* The server does not offer ranges (or the file is empty): the state file is *)
(* removed and the file is fetched as one stream.                             *)
ProbeSingle ==
    /\ phase = "probe"
    /\ server.ranges = "no" \/ Size[server.ver] = 0
    /\ pr' = [len |-> Size[server.ver], ranges |-> FALSE, tag |-> Tag[server.ver]]
    /\ RemoveState
    /\ phase' = "single"
    /\ UNCHANGED <<server, st, round, flags, wk, part, out, pending, runs, excused>>

(* No tunnel, no answer, a status that is no success, no length.              *)
ProbeFails ==
    /\ phase = "probe"
    /\ Fail
    /\ UNCHANGED <<server, part, out, saved, runs>>

-----------------------------------------------------------------------------
(* single_stream(): the .part file is truncated and one response is written   *)
(* into it, whatever version that response carries.  The write of its last    *)
(* bytes is under way when the function returns.                              *)
SingleOk ==
    /\ phase = "single"
    /\ LET v == server.ver IN
       /\ Size[v] = pr.len
       /\ part' = [c \in Chunks |-> IF c < Size[v] THEN v ELSE IF c = Size[v] THEN Torn ELSE Hole]
       /\ pending' = pending \cup {[by |-> "dropped", at |-> "part", chunk |-> c, ver |-> v] :
                                       c \in {d \in Chunks : d = Size[v]}}
    /\ phase' = "tail"
    /\ UNCHANGED <<server, pr, st, round, flags, wk, out, saved, runs, excused>>

(* No response (the file is untouched), a body that ends early or has another *)
(* length than the probe said (it is overwritten).                            *)
SingleFails ==
    /\ phase = "single"
    /\ part' \in {part, [c \in Chunks |-> Torn]}
    /\ Fail
    /\ UNCHANGED <<server, out, saved, runs>>
-----------------------------------------------------------------------------
(* What no step of a worker changes.                                          *)
rest == <<server, phase, pr, out, runs, excused>>

Goto(w, pc) == wk' = [wk EXCEPT ![w].pc = pc]

(* worker() begins by opening the output file; if it cannot, all workers stop *)
(* through content_changed.                                                   *)
OpenFileFails(w) ==
    /\ wk[w].pc = "start"
    /\ Goto(w, "gone")
    /\ flags' = flags \cup {"content_changed"}
    /\ UNCHANGED <<rest, st, round, part, saved, pending>>

(* The queue is in order and read through one cursor.                         *)
NextJob(c) == c \in round.jobs /\ \A d \in round.jobs : c <= d

(* Mutant: the cursor is read, not advanced in the same step.                 *)
TakeJobRaces(w) ==
    /\ wk[w].pc \in {"start", "next"}
    /\ flags = {}
    /\ \E c \in Chunks :
         /\ NextJob(c)
         /\ wk' = [wk EXCEPT ![w].pc = "ask", ![w].job = c, ![w].tries = 1]
         /\ round' \in {round, [round EXCEPT !.jobs = @ \ {c}]}
    /\ UNCHANGED <<rest, st, flags, part, saved, pending>>

(* The next job of the round's queue, none after a flag was raised.           *)
TakeJob(w) ==
    /\ wk[w].pc \in {"start", "next"}
    /\ flags = {}
    /\ \E c \in Chunks :
         /\ NextJob(c)
         /\ wk' = [wk EXCEPT ![w].pc = "ask", ![w].job = c, ![w].tries = 1]
         /\ round' = [round EXCEPT !.jobs = @ \ {c}]
    /\ UNCHANGED <<rest, st, flags, part, saved, pending>>

WorkerEnds(w) ==
    /\ wk[w].pc \in {"start", "next"}
    /\ flags # {} \/ round.jobs = {}
    /\ wk' = [wk EXCEPT ![w] = [Idle EXCEPT !.err = wk[w].err]]
    /\ UNCHANGED <<rest, st, round, flags, part, saved, pending>>

(* Mutant: attempts are not counted.                                          *)
RetryForever(w, err) ==
    wk' = [wk EXCEPT ![w].pc = "ask", ![w].ver = Torn, ![w].err = err]

(* ChunkError::Retryable: another attempt, or the chunk is left to the next   *)
(* round.  The tunnel is dropped.                                             *)
Retry(w, err) ==
    wk' = [wk EXCEPT ![w].pc = IF wk[w].tries >= MAX_ATTEMPTS THEN "next" ELSE "ask",
                     ![w].tries = IF wk[w].tries >= MAX_ATTEMPTS THEN 0 ELSE @ + 1,
                     ![w].job = IF wk[w].tries >= MAX_ATTEMPTS THEN 0 ELSE @,
                     ![w].ver = Torn,
                     ![w].err = err]

(* No tunnel, no TLS, no response head, 408, 429, 5xx, a body without length, *)
(* a body that ends early.                                                    *)
AttemptFails(w) ==
    /\ wk[w].pc \in {"ask", "body"}
    /\ Retry(w, wk[w].err)
    /\ UNCHANGED <<rest, st, round, flags, part, saved, pending>>

(* How the server sees the request: If-Range carries the probed validator; a  *)
(* version with another one is sent whole (200).                              *)
ServesRange ==
    /\ server.ranges = "yes"
    /\ pr.tag = NoTag \/ pr.tag = Tag[server.ver]

(* 206 with the chunk of the version served now.  The seek waits until the    *)
(* worker's earlier write is through, and from the first write on the chunk   *)
(* has bytes of two origins.                                                  *)
Receive(w) ==
    /\ wk[w].pc = "ask"
    /\ ServesRange
    /\ wk[w].job <= Size[server.ver]
    /\ \A p \in pending : p.by # w
    /\ ~wk[w].err
    /\ wk' = [wk EXCEPT ![w].pc = "body", ![w].ver = server.ver]
    /\ part' = [part EXCEPT ![wk[w].job] = IF @ = server.ver THEN @ ELSE Torn]
    /\ UNCHANGED <<rest, st, round, flags, saved, pending>>

(* An error of the handle's earlier write is reported by the first write of   *)
(* this body.                                                                 *)
ReceiveAfterError(w) ==
    /\ wk[w].pc = "ask"
    /\ ServesRange
    /\ wk[w].job <= Size[server.ver]
    /\ wk[w].err
    /\ Retry(w, FALSE)
    /\ UNCHANGED <<rest, st, round, flags, part, saved, pending>>

(* 200: the server took no notice of Range, or If-Range did not match.        *)
RangeIgnored(w) ==
    /\ wk[w].pc = "ask"
    /\ ~ServesRange
    /\ flags' = flags \cup {"range_ignored", "content_changed"}
    /\ wk' = [wk EXCEPT ![w] = [Idle EXCEPT !.err = wk[w].err]]
    /\ UNCHANGED <<rest, st, round, part, saved, pending>>

(* 416, or a 206 of another length.                                           *)
ContentChanged(w) ==
    /\ wk[w].pc = "ask"
    /\ ServesRange
    /\ flags' = flags \cup {"content_changed"}
    /\ wk' = [wk EXCEPT ![w] = [Idle EXCEPT !.err = wk[w].err]]
    /\ UNCHANGED <<rest, st, round, part, saved, pending>>

(* Any other status, such as 403.                                             *)
FatalStatus(w) ==
    /\ wk[w].pc = "ask"
    /\ flags' = flags \cup {"fatal", "content_changed"}
    /\ wk' = [wk EXCEPT ![w] = [Idle EXCEPT !.err = wk[w].err]]
    /\ UNCHANGED <<rest, st, round, part, saved, pending>>

(* Mutant: a body that ends early counts as complete.                         *)
ChunkOkEarlyEnd(w) ==
    /\ wk[w].pc = "body"
    /\ st' = [st EXCEPT !.done = @ \cup {wk[w].job}]
    /\ wk' = [wk EXCEPT ![w] = [Idle EXCEPT !.pc = "marked"]]
    /\ UNCHANGED <<rest, round, flags, part, saved, pending>>

(* The body is complete: write_all has handed its last bytes to the blocking  *)
(* pool and returned, and complete() sets the bit.                            *)
ChunkOk(w) ==
    /\ wk[w].pc = "body"
    /\ pending' = pending \cup {[by |-> w, at |-> "part", chunk |-> wk[w].job, ver |-> wk[w].ver]}
    /\ st' = [st EXCEPT !.done = @ \cup {wk[w].job}]
    /\ wk' = [wk EXCEPT ![w] = [Idle EXCEPT !.pc = "marked"]]
    /\ UNCHANGED <<rest, round, flags, part, saved>>

(* The state is copied under the lock ...                                     *)
Snapshot(w) ==
    /\ wk[w].pc = "marked"
    /\ wk' = [wk EXCEPT ![w].pc = "save", ![w].snap = st]
    /\ UNCHANGED <<rest, st, round, flags, part, saved, pending>>

(* ... and the copy replaces the state file when its rename comes through,    *)
(* which may be after that of a younger copy.                                 *)
Save(w) ==
    /\ wk[w].pc = "save"
    /\ saved' = wk[w].snap
    /\ wk' = [wk EXCEPT ![w] = [Idle EXCEPT !.pc = "next", !.err = wk[w].err]]
    /\ UNCHANGED <<rest, st, round, flags, part, pending>>

(* A state file that cannot be written is only warned about.                  *)
SaveFails(w) ==
    /\ wk[w].pc = "save"
    /\ wk' = [wk EXCEPT ![w] = [Idle EXCEPT !.pc = "next", !.err = wk[w].err]]
    /\ UNCHANGED <<rest, st, round, flags, part, saved, pending>>

Worker(w) ==
    \/ OpenFileFails(w) \/ TakeJob(w) \/ WorkerEnds(w)
    \/ AttemptFails(w) \/ Receive(w) \/ ReceiveAfterError(w)
    \/ RangeIgnored(w) \/ ContentChanged(w) \/ FatalStatus(w)
    \/ ChunkOk(w) \/ Snapshot(w) \/ Save(w) \/ SaveFails(w)
-----------------------------------------------------------------------------
RoundOver == phase = "round" /\ \A w \in Workers : wk[w].pc = "gone"

(* The end of a round, in the order of the checks.  The loop is left when a   *)
(* server took no notice of Range; the jobs of the round are still on the     *)
(* list, so what follows is the error of the chunks that failed.              *)
RangeIgnoredEnds ==
    /\ RoundOver
    /\ "range_ignored" \in flags
    /\ Fail
    /\ UNCHANGED <<server, part, out, saved, runs>>

FatalEnds ==
    /\ RoundOver
    /\ "range_ignored" \notin flags /\ "fatal" \in flags
    /\ Fail
    /\ UNCHANGED <<server, part, out, saved, runs>>

ContentChangedEnds ==
    /\ RoundOver
    /\ flags = {"content_changed"}
    /\ RemoveState
    /\ Fail
    /\ UNCHANGED <<server, part, out, runs>>

RoundsExhausted ==
    /\ RoundOver
    /\ flags = {}
    /\ Remaining(st) # {} /\ round.no >= MAX_ROUNDS
    /\ Fail
    /\ UNCHANGED <<server, part, out, saved, runs>>

(* Another round for the chunks that are not done; with none the tail of      *)
(* run() follows.  Files dropped by the workers still complete their writes.  *)
NextRound ==
    /\ RoundOver
    /\ flags = {}
    /\ Remaining(st) = {} \/ round.no < MAX_ROUNDS
    /\ BeginRound(round.no + 1, st)
    /\ pending' = {[p EXCEPT !.by = "dropped"] : p \in pending}
    /\ UNCHANGED <<server, pr, st, flags, part, out, saved, runs, excused>>

(* The SHA-256 of the file, if one was given with this run, read while the    *)
(* last writes may be under way.                                              *)
ChecksumOk(expect) ==
    expect # NoTag => pr.len = Size[expect] /\ \A c \in 1..pr.len : part[c] = expect

(* The checksum does not match, or the file cannot be renamed.  The .part and *)
(* the state file are kept.                                                   *)
TailFails ==
    /\ phase = "tail"
    /\ Fail
    /\ UNCHANGED <<server, part, out, saved, runs>>

(* The .part file becomes the output; writes under way go with it.            *)
Place ==
    /\ phase = "tail"
    /\ \E expect \in Expected : ChecksumOk(expect)
    /\ out' = [data |-> part, len |-> pr.len, tag |-> pr.tag]
    /\ part' = Empty
    /\ pending' = {[p EXCEPT !.at = "out", !.by = "dropped"] : p \in pending}
    /\ phase' = "placed"
    /\ UNCHANGED <<server, pr, st, round, flags, wk, saved, runs, excused>>

(* The state file is removed last.                                            *)
Clean ==
    /\ phase = "placed"
    /\ RemoveState
    /\ ProcessEnds("done")
    /\ UNCHANGED <<server, part, out, runs>>

Coordinator ==
    \/ ProbeParallel \/ ProbeSingle \/ ProbeFails \/ SingleOk \/ SingleFails
    \/ RangeIgnoredEnds \/ FatalEnds \/ ContentChangedEnds \/ RoundsExhausted \/ NextRound
    \/ TailFails \/ Place \/ Clean
-----------------------------------------------------------------------------
(* The disk takes a write.                                                    *)
Written(p) ==
    /\ p \in pending
    /\ pending' = pending \ {p}
    /\ IF p.at = "part"
       THEN part' = [part EXCEPT ![p.chunk] = p.ver] /\ UNCHANGED out
       ELSE out' = [out EXCEPT !.data[p.chunk] = p.ver] /\ UNCHANGED part
    /\ UNCHANGED <<server, phase, pr, st, round, flags, wk, saved, runs, excused>>

(* A write fails.  Its handle learns of it at its next write, if there is one.*)
WriteFails(p) ==
    /\ WritesMayFail
    /\ p \in pending
    /\ pending' = pending \ {p}
    /\ wk' = [w \in Workers |-> [wk[w] EXCEPT !.err = @ \/ p.by = w]]
    /\ excused' = excused \cup {"lost"}
    /\ UNCHANGED <<server, phase, pr, st, round, flags, part, out, saved, runs>>

(* The process is killed; the files stay as they are.                         *)
Crash ==
    /\ Running
    /\ UNCHANGED <<server, part, out, saved, runs>>
    /\ ProcessEnds("crashed")

(* The server gets another content, perhaps one it had before.                *)
Publish(v) ==
    /\ v # server.ver
    /\ server.changes < MaxChanges
    /\ server' = [server EXCEPT !.ver = v, !.seen = @ \cup {v}, !.changes = @ + 1]
    /\ excused' = excused
         \cup {x \in {"reverted"} : \E u \in server.seen : Tag[u] = Tag[v] /\ Tag[v] # Tag[server.ver]}
         \cup {x \in {"resized"} : \E u \in server.seen :
                   Tag[u] = Tag[v] /\ Tag[v] # NoTag /\ Size[u] # Size[v]}
    /\ UNCHANGED <<phase, pr, st, round, flags, wk, part, out, saved, pending, runs>>

Step == Coordinator \/ \E w \in Workers : Worker(w)
Disk == \E p \in pending : Written(p) \/ WriteFails(p)

Next == Start \/ Step \/ Disk \/ Crash \/ \E v \in Versions : Publish(v)

(* The tasks of a run that can run do run, and the disk answers.  A read has  *)
(* no timeout of its own: that it comes to an answer or an error is assumed   *)
(* of the tunnel (the node ends an idle relay, see NodePump).                 *)
Spec == Init /\ [][Next]_vars /\ WF_vars(Step) /\ WF_vars(Disk)
-----------------------------------------------------------------------------
(* The output is what was asked for: every chunk was written, and all of them *)
(* come from versions with one validator (if the server gives any).           *)
Settled == out # NoFile /\ \A p \in pending : p.at # "out"
OutputIntact ==
    Settled => \A c \in 1..out.len :
                   /\ out.data[c] \in Versions
                   /\ out.tag # NoTag =>
                          \A d \in 1..out.len : out.data[d] \in Versions => Tag[out.data[c]] = Tag[out.data[d]]

(* Resumption never damages an output, through any crashes, stale snapshots   *)
(* of the state file, failed saves and changes of the content, with four      *)
(* exceptions: a write under way was lost, the server went back to an earlier *)
(* validator or gave one validator to contents of two lengths (a state file   *)
(* that is refused for its length stays while its chunks are overwritten), or *)
(* the state file stayed when the file was placed (the process died in        *)
(* between, or the removal failed).                                           *)
DamageConfined == excused = {} => OutputIntact

(* What the state file records is in the .part file, or a write of it is      *)
(* under way, whenever a run that starts now would believe it: the server     *)
(* still has the validator that was recorded.                                 *)
RecordedIsWritten ==
    excused = {} /\ saved # NoFile /\ saved.tag # NoTag /\ saved.tag = Tag[server.ver]
            /\ phase # "placed" =>
        \A c \in saved.done :
            \E v \in Versions :
                /\ Tag[v] = saved.tag
                /\ \/ part[c] = v
                   \/ \E p \in pending : p.at = "part" /\ p.chunk = c /\ p.ver = v

(* Two workers never write one chunk, and a chunk that is recorded as done is *)
(* not written again in the same run.                                         *)
WritersApart ==
    \A w \in Workers : wk[w].pc \in {"ask", "body"} =>
        /\ wk[w].job \notin st.done
        /\ \A u \in Workers \ {w} : wk[u].pc \in {"ask", "body"} => wk[u].job # wk[w].job

(* The .part file and its state file through crashes and resumptions, and the *)
(* workers that write them (download_chunk, save_state).                      *)
PartSound == RecordedIsWritten /\ WritersApart

(* Every run comes to an end: rounds and attempts are bounded, and no worker  *)
(* keeps a round open.                                                        *)
RunEnds == Running ~> ~Running

=============================================================================
