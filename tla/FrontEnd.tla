------------------------------- MODULE FrontEnd -------------------------------
(* The local side of the client (ProxyServer, hydra-core/src/proxy.rs): what  *)
(* happens to one connection of an application from the first byte to the     *)
(* start of its relay.  A connection speaks SOCKS5, HTTP CONNECT or plain     *)
(* HTTP, or is a flow of the TUN stack that asks for a channel.  Its target   *)
(* is reached directly or through a node, where a warm connection of the pool *)
(* is tried before a new one.  The registry of relayed connections            *)
(* (connections.rs) is kept along.                                            *)
(*                                                                            *)
(* The bytes of a request are tokens, and a read returns as many as have come *)
(* in, so that the borders between the parts of a request may fall anywhere.  *)
(* Parsing is abstracted to the one flaw that a request has, or has not.      *)
EXTENDS WarmPool

CONSTANTS
    Conns,          \* connections of applications
    Cases,          \* what the proxy runs on, with what each connection asks for
    MaxAttempts,    \* MAX_NODE_ATTEMPTS
    MaxEntries,     \* MAX_ENTRIES of the registry
    Nowhere         \* no link

(* What a connection asks for: its protocol, the flaw of the request if it    *)
(* has one, and the target, with what the rules and the platform say of it.   *)
Targets  == [direct : BOOLEAN, class : {"loopback", "private", "public"}, family : {4, 6}]
Requests == [proto : {"socks", "connect", "http", "tun", "junk"}, flaw : STRING, target : Targets]

ASSUME FrontAssumption ==
    /\ MaxAttempts \in Nat \ {0} /\ MaxEntries \in Nat \ {0}
    /\ Nowhere \notin Nodes /\ "direct" \notin Nodes \cup {Nowhere}
    /\ \A case \in Cases : case.req \in [Conns -> Requests]

VARIABLES
    host,       \* platform, protect hook, physical addresses, credentials
    serving,    \* the listener: off, on or refused
    req,        \* what each connection asks for
    st,         \* where its handler is
    inp,        \* what the application sent and the handler has not read
    buf,        \* what the handler read and has not used (pending, raw)
    fwd,        \* what went out to the remote side
    told,       \* what the application was answered
    link,       \* direct, or the node of the link
    tried,      \* the nodes open_target has tried
    entries,    \* registry: listed connections, in order of registration
    ended       \* registry: those of them whose relay has ended

connVars == <<st, inp, buf, fwd, told, link, tried>>
regVars  == <<entries, ended>>
frontVars == <<poolVars, host, serving, req, connVars, regVars>>

(* The parts of a request, in tokens: a SOCKS greeting, its methods, the head *)
(* of the request and its address; an HTTP head.  Data may follow at once.    *)
Units == [greet |-> 1, methods |-> 1, head |-> 1, addr |-> 2]
SocksBytes == <<"g", "m", "q", "a", "a", "1", "2">>
HttpBytes  == <<"h", "e", "1", "2">>
HeadEnd == "e"
Endless == {"cut", "large"}      \* heads that do not end: the input does, or the limit
Bytes(r) == CASE r.proto = "socks" -> SocksBytes
              [] r.proto = "junk" -> <<"x">>
              [] r.proto = "tun" -> <<"1", "2">>
              [] OTHER -> IF r.flaw \in Endless THEN <<"h", "1", "2">> ELSE HttpBytes
(* What of it is meant for the remote side: a plain request goes out as it is.*)
Body(r) == IF r.proto = "http" THEN Bytes(r) ELSE <<"1", "2">>

Reading == {"detect", "greet", "methods", "head", "addr", "http"}
Stages  == Reading \cup {"new", "route", "direct", "pick", "warm", "cold", "linked", "relay", "done"}

FrontInit ==
    /\ PoolInit
    /\ \E case \in Cases : host = case.host /\ req = case.req
    /\ serving = "off"
    /\ st = [c \in Conns |-> "new"]
    /\ inp = [c \in Conns |-> Bytes(req[c])]
    /\ buf = [c \in Conns |-> <<>>]
    /\ fwd = [c \in Conns |-> <<>>]
    /\ told = [c \in Conns |-> <<>>]
    /\ link = [c \in Conns |-> Nowhere]
    /\ tried = [c \in Conns |-> {}]
    /\ entries = <<>> /\ ended = {}

(* start(): refused without keys or certificates; else the reaper is started  *)
(* once and the listener bound.                                               *)
Start ==
    /\ serving = "off"
    /\ serving' = IF host.creds THEN "on" ELSE "refused"
    /\ reaper' = (reaper \/ host.creds)
    /\ UNCHANGED <<idle, peak, asked, building, host, req, connVars, regVars>>

Goes(c, stage) == st' = [st EXCEPT ![c] = stage]
Closes(c)      == /\ Goes(c, "done")       \* socket and buffers are dropped
                  /\ inp' = [inp EXCEPT ![c] = <<>>] /\ buf' = [buf EXCEPT ![c] = <<>>]
Answer(c, a)   == told' = [told EXCEPT ![c] = Append(@, a)]
Quiet          == UNCHANGED <<poolVars, host, serving, req, regVars>>

Accept(c) ==
    /\ st[c] = "new" /\ serving = "on" /\ req[c].proto # "tun"
    /\ Goes(c, "detect")
    /\ Quiet /\ UNCHANGED <<inp, buf, fwd, told, link, tried>>

(* The stack asks the rule opener for a channel to an address.                *)
TunOpens(c) ==
    /\ st[c] = "new" /\ host.creds /\ req[c].proto = "tun"
    /\ Goes(c, "route")
    /\ reaper' = TRUE
    /\ UNCHANGED <<idle, peak, asked, building, host, serving, req, regVars>>
    /\ UNCHANGED <<inp, buf, fwd, told, link, tried>>

(* One read of the socket into the buffer: any number of tokens.              *)
ReadSome(c) ==
    \E k \in 1..Len(inp[c]) :
        /\ buf' = [buf EXCEPT ![c] = @ \o SubSeq(inp[c], 1, k)]
        /\ inp' = [inp EXCEPT ![c] = SubSeq(@, k + 1, Len(@))]

Detect(c) ==
    /\ st[c] = "detect"
    /\ CASE req[c].proto = "socks" -> ReadSome(c) /\ Goes(c, "greet") /\ told' = told
         [] req[c].proto = "junk"  -> Closes(c) /\ Answer(c, "400")
         [] OTHER                  -> ReadSome(c) /\ Goes(c, "http") /\ told' = told
    /\ Quiet /\ UNCHANGED <<fwd, link, tried>>

(* A read that fails or is not served in time; an end of input is one, too.   *)
ReadFails(c) ==
    /\ st[c] \in Reading
    /\ Closes(c)
    /\ CASE st[c] \in {"greet", "methods"} -> Answer(c, "ff")
         [] st[c] \in {"head", "addr"}     -> Answer(c, "01")
         [] OTHER                          -> told' = told
    /\ Quiet /\ UNCHANGED <<fwd, link, tried>>

(* read_exact_socks: first what was read before, then from the socket.        *)
ReadExactAnew(c, k) ==
    LET old == IF Len(buf[c]) < k THEN Len(buf[c]) ELSE k
    IN  /\ Len(buf[c]) + Len(inp[c]) >= k
        /\ buf' = [buf EXCEPT ![c] = <<>>]
        /\ inp' = [inp EXCEPT ![c] = SubSeq(@, k - old + 1, Len(@))]
ReadExact(c, k) ==
    LET old == IF Len(buf[c]) < k THEN Len(buf[c]) ELSE k
    IN  /\ Len(buf[c]) + Len(inp[c]) >= k
        /\ buf' = [buf EXCEPT ![c] = SubSeq(@, old + 1, Len(@))]
        /\ inp' = [inp EXCEPT ![c] = SubSeq(@, k - old + 1, Len(@))]

Refusal == [noMethods |-> "ff", auth |-> "ff", version |-> "01", command |-> "07",
            atyp |-> "08", emptyName |-> "01"]
Flaws   == [greet |-> {"noMethods"}, methods |-> {"auth"},
            head |-> {"version", "command", "atyp"}, addr |-> {"emptyName"}]
After   == [greet |-> "methods", methods |-> "head", head |-> "addr", addr |-> "route"]

(* One stage of handle_socks5; the method is acknowledged once it is known.   *)
Socks(c) ==
    /\ st[c] \in DOMAIN Units
    /\ LET flawed == req[c].flaw \in Flaws[st[c]]
       IN  IF flawed THEN Closes(c) /\ Answer(c, Refusal[req[c].flaw])
           ELSE /\ ReadExact(c, Units[st[c]])
                /\ Goes(c, After[st[c]])
                /\ IF st[c] = "methods" THEN Answer(c, "00") ELSE told' = told
    /\ Quiet /\ UNCHANGED <<fwd, link, tried>>

(* handle_http reads until the head is there, or the input has ended.         *)
HttpMore(c) ==
    /\ st[c] = "http" /\ HeadEnd \notin ToSet(buf[c])
    /\ ReadSome(c)
    /\ Quiet /\ UNCHANGED <<st, fwd, told, link, tried>>

HttpHead(c) ==
    /\ st[c] = "http"
    /\ HeadEnd \in ToSet(buf[c]) \/ inp[c] = <<>>
    /\ IF req[c].flaw \in {"none", "cut"} THEN Goes(c, "route") /\ UNCHANGED <<told, inp, buf>>
       ELSE Closes(c) /\ Answer(c, "400")
    /\ Quiet /\ UNCHANGED <<fwd, link, tried>>

(* rule_open keeps a direct connection from running back into the TUN: it     *)
(* needs the protect hook, or Windows, where a bound source address decides   *)
(* the interface; loopback has a route of its own.                            *)
MayGoDirect(c) ==
    LET t == req[c].target
    IN  /\ t.direct
        /\ req[c].proto = "tun" =>
            /\ host.windows \/ t.class = "loopback" \/ host.hook
            /\ t.family \in host.bind \/ t.class # "public" \/ host.hook

Route(c) ==
    /\ st[c] = "route"
    /\ Goes(c, IF MayGoDirect(c) THEN "direct" ELSE "pick")
    /\ Quiet /\ UNCHANGED <<inp, buf, fwd, told, link, tried>>

DirectOk(c) ==
    /\ st[c] = "direct"
    /\ Goes(c, "linked")
    /\ link' = [link EXCEPT ![c] = "direct"]
    /\ Quiet /\ UNCHANGED <<inp, buf, fwd, told, tried>>

(* Failed, timed out, or not protected: never an error, the nodes are tried.  *)
DirectFails(c) ==
    /\ st[c] = "direct"
    /\ Goes(c, "pick")
    /\ Quiet /\ UNCHANGED <<inp, buf, fwd, told, link, tried>>

Failure(c) ==
    /\ Closes(c)
    /\ link' = [link EXCEPT ![c] = Nowhere]
    /\ CASE req[c].proto = "socks" -> Answer(c, "01")
         [] req[c].proto = "tun"   -> Answer(c, "error")
         [] OTHER                  -> Answer(c, "502")

(* open_target: the next candidate, if there is one and attempts are left.    *)
PickAgain(c) ==
    /\ st[c] = "pick"
    /\ \E n \in Nodes :
        /\ link' = [link EXCEPT ![c] = n]
        /\ \/ CheckoutMiss(n) /\ Goes(c, "cold")
           \/ CheckoutHit(n) /\ Goes(c, "warm")
        /\ UNCHANGED <<asked, building, reaper, host, serving, req, regVars>>
        /\ UNCHANGED <<inp, buf, fwd, told, tried>>
Pick(c) ==
    /\ st[c] = "pick"
    /\ \E n \in Nodes \ tried[c] :
        /\ Cardinality(tried[c]) < MaxAttempts
        /\ tried' = [tried EXCEPT ![c] = @ \cup {n}]
        /\ link' = [link EXCEPT ![c] = n]
        /\ \/ CheckoutMiss(n) /\ Goes(c, "cold")
           \/ CheckoutHit(n) /\ Goes(c, "warm")
        /\ UNCHANGED <<asked, building, reaper, host, serving, req, regVars>>
        /\ UNCHANGED <<inp, buf, fwd, told>>

GiveUp(c) ==
    /\ st[c] = "pick"
    /\ Nodes \subseteq tried[c] \/ Cardinality(tried[c]) >= MaxAttempts
    /\ Failure(c)
    /\ Quiet /\ UNCHANGED <<fwd, tried>>

(* The node answers that the target is open: over the warm connection, or a   *)
(* new one.  Either way another warm connection is made ready.                *)
Opened(c) ==
    /\ st[c] \in {"warm", "cold"}
    /\ Goes(c, "linked")
    /\ Replenish(link[c])
    /\ UNCHANGED <<idle, peak, building, reaper, host, serving, req, regVars>>
    /\ UNCHANGED <<inp, buf, fwd, told, link, tried>>

(* A warm connection that fails, for whatever reason, is given up without     *)
(* consequences.                                                              *)
WarmFails(c) ==
    /\ st[c] = "warm"
    /\ Goes(c, "cold")
    /\ Quiet /\ UNCHANGED <<inp, buf, fwd, told, link, tried>>

(* The node fails, or an unreachable target may be tried once more elsewhere. *)
ColdFails(c) ==
    /\ st[c] = "cold"
    /\ Goes(c, "pick")
    /\ Quiet /\ UNCHANGED <<inp, buf, fwd, told, link, tried>>

(* The target is unreachable, or the request cannot be encoded.               *)
ColdRefusesQuietly(c) ==
    /\ st[c] = "cold"
    /\ Closes(c)
    /\ link' = [link EXCEPT ![c] = Nowhere]
    /\ Quiet /\ UNCHANGED <<fwd, told, tried>>
ColdRefuses(c) ==
    /\ st[c] = "cold"
    /\ Failure(c)
    /\ Quiet /\ UNCHANGED <<fwd, tried>>

(* ConnectionRegistry::prune_locked: entries that ended long enough ago go;   *)
(* over the limit the oldest ended one goes, or else the oldest.              *)
Victim(s) == IF \E i \in 1..Len(s) : s[i] \in ended
             THEN CHOOSE i \in 1..Len(s) : s[i] \in ended /\ \A j \in 1..i - 1 : s[j] \notin ended
             ELSE 1
Prune(s) ==
    \E faded \in SUBSET ended :
        LET kept == SelectSeq(s, LAMBDA c : c \notin faded)
        IN  /\ entries' = IF Len(kept) > MaxEntries THEN RemoveAt(kept, Victim(kept)) ELSE kept
            /\ ended' = ended \cap ToSet(entries')

Relaying == {c \in Conns : st[c] = "relay"}

(* The application is told, a plain request is sent on, and the relay starts  *)
(* with what was read too far.  CONNECT passes on nothing of its buffer.      *)
StartRelay(c) ==
    /\ st[c] = "linked"
    /\ Goes(c, "relay")
    /\ CASE req[c].proto = "socks"   -> Answer(c, "ok") /\ UNCHANGED <<buf, fwd>>
         [] req[c].proto = "connect" -> Answer(c, "200") /\ fwd' = fwd
                                        /\ buf' = [buf EXCEPT ![c] = <<>>]
         [] OTHER -> /\ told' = told
                     /\ fwd' = [fwd EXCEPT ![c] = buf[c]]
                     /\ buf' = [buf EXCEPT ![c] = <<>>]
    /\ Prune(Append(entries, c))
    /\ UNCHANGED <<poolVars, host, serving, req, inp, link, tried>>

(* Sending the answer or the request fails.                                   *)
StartFails(c) ==
    /\ st[c] = "linked" /\ req[c].proto # "tun"
    /\ Closes(c)
    /\ IF req[c].proto = "http" THEN Answer(c, "502") ELSE told' = told
    /\ Quiet /\ UNCHANGED <<fwd, link, tried>>

(* The up task of the relay: first what was pending, then the socket.         *)
Upload(c) ==
    /\ st[c] = "relay"
    /\ \/ /\ buf[c] # <<>>
          /\ fwd' = [fwd EXCEPT ![c] = @ \o buf[c]]
          /\ buf' = [buf EXCEPT ![c] = <<>>]
          /\ inp' = inp
       \/ /\ buf[c] = <<>> /\ inp[c] # <<>>
          /\ fwd' = [fwd EXCEPT ![c] = Append(@, Head(inp[c]))]
          /\ inp' = [inp EXCEPT ![c] = Tail(@)]
          /\ buf' = buf
    /\ Quiet /\ UNCHANGED <<st, told, link, tried>>

RelayEnds(c) ==
    /\ st[c] = "relay"
    /\ Closes(c)
    /\ ended' = IF c \in ToSet(entries) THEN ended \cup {c} ELSE ended
    /\ UNCHANGED <<poolVars, host, serving, req, entries>>
    /\ UNCHANGED <<fwd, told, link, tried>>

(* The list is shown, and pruned on the way.                                  *)
Snapshot ==
    /\ Prune(entries) /\ entries' # entries
    /\ UNCHANGED <<poolVars, host, serving, req, connVars>>

(* The next connection of the same kind, once this one is no longer listed.   *)
Again(c) ==
    /\ st[c] = "done" /\ c \notin ToSet(entries)
    /\ Goes(c, "new")
    /\ inp' = [inp EXCEPT ![c] = Bytes(req[c])]
    /\ fwd' = [fwd EXCEPT ![c] = <<>>] /\ told' = [told EXCEPT ![c] = <<>>]
    /\ link' = [link EXCEPT ![c] = Nowhere] /\ tried' = [tried EXCEPT ![c] = {}]
    /\ UNCHANGED <<poolVars, host, serving, req, buf, regVars>>

Parse(c)  == Detect(c) \/ ReadFails(c) \/ Socks(c) \/ HttpMore(c) \/ HttpHead(c)
Connect(c) == \/ Route(c) \/ DirectOk(c) \/ DirectFails(c) \/ Pick(c) \/ GiveUp(c)
              \/ Opened(c) \/ WarmFails(c) \/ ColdFails(c) \/ ColdRefuses(c)
              \/ StartRelay(c) \/ StartFails(c)

FrontNext ==
    \/ Start
    \/ PoolStep /\ UNCHANGED <<host, serving, req, connVars, regVars>>
    \/ Snapshot
    \/ \E c \in Conns : \/ Accept(c) \/ TunOpens(c) \/ Parse(c) \/ Connect(c)
                         \/ Upload(c) \/ RelayEnds(c) \/ Again(c)

(* Every read and every attempt to connect has a timeout.                     *)
FrontSpec == FrontInit /\ [][FrontNext]_frontVars /\ \A c \in Conns : WF_frontVars(Parse(c) \/ Connect(c))

-----------------------------------------------------------------------------
(* Types; the pool stays within its elastic limit and in order of age         *)
(* (pool.rs:126-160), the registry within MAX_ENTRIES (connections.rs:205).   *)
FrontTypeOK ==
    /\ PoolTypeOK
    /\ [host |-> host, req |-> req] \in Cases
    /\ serving \in {"off", "on", "refused"} /\ st \in [Conns -> Stages]
    /\ \A c \in Conns : /\ tried[c] \subseteq Nodes /\ Cardinality(tried[c]) <= MaxAttempts
                        /\ link[c] \in Nodes \cup {"direct", Nowhere}
                        /\ st[c] \in {"linked", "relay"} => link[c] # Nowhere
    /\ Len(entries) <= MaxEntries /\ IsInjective(entries)
    /\ ended \subseteq ToSet(entries)

(* What an application sends for the remote side gets there in order and      *)
(* without a gap, wherever reads have cut the stream while the request was    *)
(* parsed (handle_socks5, read_exact_socks, handle_http).  CONNECT may lose   *)
(* its beginning, as it passes on nothing that came together with the head.   *)
StreamKept ==
    \A c \in Relaying :
        LET rest == fwd[c] \o buf[c] \o inp[c]
            body == Body(req[c])
        IN  IF req[c].proto = "connect"
            THEN \E k \in 0..Len(body) : rest = SubSeq(body, k + 1, Len(body))
            ELSE rest = body

Final == {"ff", "01", "07", "08", "400", "502", "error", "ok", "200"}

(* A SOCKS or HTTP request that was read to its end is answered, once, and    *)
(* with success only when there is a link to the target; what was not         *)
(* answered with success has sent nothing out (the callers of open_target).   *)
Answers(c) == {i \in DOMAIN told[c] : told[c][i] \in Final}
Answered ==
    \A c \in Conns :
        /\ \A i, j \in Answers(c) : i = j
        /\ \A i \in Answers(c) : told[c][i] \in {"ok", "200"} => link[c] # Nowhere
        /\ st[c] = "done" /\ link[c] = Nowhere /\ tried[c] # {} => Answers(c) # {} /\ fwd[c] = <<>>

(* Every connection that was accepted comes to its relay or to its end,       *)
(* through silent applications, dead warm connections and failing nodes.      *)
Settles == \A c \in Conns : st[c] \in {"detect", "route"} ~> st[c] \in {"relay", "done"}
=============================================================================
