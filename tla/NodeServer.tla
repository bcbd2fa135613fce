------------------------------ MODULE NodeServer ------------------------------
(* The life of a connection on a node before and around the relay:            *)
(* spawn_tcp_listener and handle_tls_stream (hydra-node/src/tcp_server.rs),   *)
(* the shared resolver cache (dns_cache.rs) and the dial of the target        *)
(* (resolve_and_connect, handler.rs), composed with the signalling sessions   *)
(* of module Signal.  The accept loop is one task; every connection is one    *)
(* task that holds a permit of the semaphore and a guard of the per-address   *)
(* count until it ends, whichever way.  Tasks run on several threads, so two  *)
(* steps are atomic together only under one lock.                             *)
(*                                                                            *)
(* Timeouts may fire whenever the step they guard is waiting.  The relays     *)
(* themselves are modules NodePump and UdpNode: here they only last.          *)
EXTENDS Signal, Sequences, SequencesExt

CONSTANTS
    Ips, Source,        \* source addresses, and that of each connection
    Configs,            \* how a node may be started
    Names,              \* targets that are host names
    Addrs,              \* addresses names resolve to, and literal targets
    Blocked,            \* those classify_blocked_ip refuses
    AllowPrivate,       \* HYDRA_ALLOW_PRIVATE_TARGETS
    MaxEntries,         \* MAX_ENTRIES of the resolver cache
    MaxLookups,         \* RESOLVE_CONCURRENCY
    NoTarget, NoAddr

ASSUME NodeAssumption ==
    /\ Configs \subseteq [places : Nat, perIp : Nat, page : BOOLEAN, p2p : BOOLEAN, v3 : BOOLEAN]
    /\ MaxEntries \in Nat \ {0} /\ MaxLookups \in Nat \ {0}
    /\ Blocked \subseteq Addrs
    /\ AllowPrivate \in BOOLEAN
    /\ (Names \cup PeerIds) \cap Addrs = {}          \* only an address parses as one
    /\ Source \in [Conns -> Ips] /\ NoTarget \notin Names \cup Addrs /\ NoAddr \notin Addrs
    /\ "udp" \notin Names \cup Addrs \cup PeerIds     \* the prefixes tell target frames apart

VARIABLES
    conf,       \* the options the node was started with
    pc,         \* where the task of a connection is
    keyed,      \* connections whose peer has shown that it holds the key
    told,       \* what the peer has been sent: handshake bytes, the page, a reply
    target,     \* the target it asked for
    cand,       \* candidate addresses left to dial
    far,        \* the address it is connected to
    permits,    \* free permits of the semaphore
    perIp,      \* per_ip_map
    cache,      \* the resolver cache: names and addresses, oldest entry first
    fresh       \* cached names whose entry is younger than its TTL

dns      == <<cache, fresh>>
places   == <<permits, perIp>>
connVars == <<pc, keyed, told, target, cand, far>>
nodeVars == <<conf, connVars, places, dns>>
vars     == <<nodeVars, signalVars>>

Setup   == {"tls", "version", "noise", "target", "resolve", "queue", "lookup", "dial", "reply"}
Service == {"relay", "udp", "signal"}
Targets == Names \cup Addrs \cup PeerIds \cup {"udp"}

(* max_connections.max(1): a node serves one connection at least.             *)
Places == IF conf.places = 0 THEN 1 ELSE conf.places

NodeInit ==
    /\ conf \in Configs
    /\ pc = [c \in Conns |-> "new"]
    /\ keyed = {}
    /\ told = [c \in Conns |-> <<>>]
    /\ target = [c \in Conns |-> NoTarget]
    /\ cand = [c \in Conns |-> {}]
    /\ far = [c \in Conns |-> NoAddr]
    /\ permits = Places
    /\ perIp = [i \in Ips |-> 0]
    /\ cache = <<>> /\ fresh = {}

Init == NodeInit /\ SignalInit

Goes(c, step)       == pc' = [pc EXCEPT ![c] = step]
Tells(c, what)      == told' = [told EXCEPT ![c] = Append(@, what)]
-----------------------------------------------------------------------------
(* The accept loop.  It handles one connection after the other.               *)
Accepting == \A c \in Conns : pc[c] # "counted"

(* PerIpGuard::acquire.                                                       *)
Accept(c) ==
    /\ Accepting /\ pc[c] = "new"
    /\ conf.perIp = 0 \/ perIp[Source[c]] < conf.perIp
    /\ perIp' = [perIp EXCEPT ![Source[c]] = @ + 1]
    /\ Goes(c, "counted")
    /\ UNCHANGED <<conf, keyed, told, target, cand, far, permits, dns, signalVars>>

ShedByAddress(c) ==
    /\ Accepting /\ pc[c] = "new"
    /\ conf.perIp > 0 /\ perIp[Source[c]] >= conf.perIp
    /\ Goes(c, "closed")
    /\ UNCHANGED <<conf, keyed, told, target, cand, far, places, dns, signalVars>>

(* try_acquire_owned, and the task is spawned.                                *)
TakePermit(c) ==
    /\ pc[c] = "counted"
    /\ permits > 0
    /\ permits' = permits - 1
    /\ Goes(c, "tls")
    /\ UNCHANGED <<conf, keyed, told, target, cand, far, perIp, dns, signalVars>>

(* Mutant of ShedByCapacity: the guard is not dropped.                        *)
ShedByCapacityCounted(c) ==
    /\ pc[c] = "counted"
    /\ permits = 0
    /\ Goes(c, "closed")
    /\ UNCHANGED <<conf, keyed, told, target, cand, far, places, dns, signalVars>>

ShedByCapacity(c) ==
    /\ pc[c] = "counted"
    /\ permits = 0
    /\ perIp' = [perIp EXCEPT ![Source[c]] = @ - 1]
    /\ Goes(c, "closed")
    /\ UNCHANGED <<conf, keyed, told, target, cand, far, permits, dns, signalVars>>

(* The task is over: its locals are dropped in reverse order, the streams and *)
(* then the permit before the guard of the address.                           *)
ReleasePermit(c) ==
    /\ pc[c] = "ending"
    /\ permits' = permits + 1
    /\ told' = [told EXCEPT ![c] = <<>>] /\ target' = [target EXCEPT ![c] = NoTarget]
    /\ cand' = [cand EXCEPT ![c] = {}] /\ far' = [far EXCEPT ![c] = NoAddr]
    /\ keyed' = keyed \ {c}
    /\ Goes(c, "leaving")
    /\ UNCHANGED <<conf, perIp, dns, signalVars>>

ReleaseAddress(c) ==
    /\ pc[c] = "leaving"
    /\ perIp' = [perIp EXCEPT ![Source[c]] = @ - 1]
    /\ Goes(c, "closed")
    /\ UNCHANGED <<conf, keyed, told, target, cand, far, permits, dns, signalVars>>
-----------------------------------------------------------------------------
(* handle_tls_stream.                                                         *)
TlsDone(c) ==
    /\ pc[c] = "tls"
    /\ Goes(c, "version")
    /\ UNCHANGED <<conf, keyed, told, target, cand, far, places, dns, signalVars>>

(* The handshake fails or takes longer than TLS_HANDSHAKE_TIMEOUT; later, the *)
(* exporter fails: nothing is sent.                                           *)
TlsFails(c) ==
    /\ pc[c] \in {"tls", "version"}
    /\ Goes(c, "ending")
    /\ UNCHANGED <<conf, keyed, told, target, cand, far, places, dns, signalVars>>

VersionOk(c) ==
    /\ pc[c] = "version"
    /\ conf.v3
    /\ Goes(c, "noise")
    /\ UNCHANGED <<conf, keyed, told, target, cand, far, places, dns, signalVars>>

(* http_serve_fallback when the page is switched on, silence otherwise.       *)
Refuse(c) ==
    /\ Goes(c, "ending")
    /\ IF conf.page THEN Tells(c, "page") ELSE UNCHANGED told

(* Another first byte, none within AUTH_TIMEOUT, or v3 is switched off.       *)
VersionBad(c) ==
    /\ pc[c] = "version"
    /\ Refuse(c)
    /\ UNCHANGED <<conf, keyed, target, cand, far, places, dns, signalVars>>

(* server_side: msg2 is sent to any peer with a well-formed msg1; confirm_s   *)
(* only after confirm_c has shown that the peer holds the key.                *)
NoiseOk(c) ==
    /\ pc[c] = "noise"
    /\ keyed' = keyed \cup {c}
    /\ Tells(c, "noise")
    /\ Goes(c, "target")
    /\ UNCHANGED <<conf, target, cand, far, places, dns, signalVars>>

(* A bad msg1, a wrong confirm_c, the end of the stream or AUTH_TIMEOUT, each *)
(* before or after msg2 was sent: silence.                                    *)
NoiseFails(c) ==
    /\ pc[c] = "noise"
    /\ \E sent \in BOOLEAN : IF sent THEN Tells(c, "noise") ELSE UNCHANGED told
    /\ Goes(c, "ending")
    /\ UNCHANGED <<conf, keyed, target, cand, far, places, dns, signalVars>>

(* read_target fails or takes longer than the idle time.                      *)
TargetBad(c) ==
    /\ pc[c] = "target"
    /\ Refuse(c)
    /\ UNCHANGED <<conf, keyed, target, cand, far, places, dns, signalVars>>

(* A target frame.  The signalling prefix is one only where signalling is on, *)
(* else it is a name like any other that no resolver knows.                   *)
TargetRead(c, t) ==
    /\ pc[c] = "target"
    /\ target' = [target EXCEPT ![c] = t]
    /\ CASE t \in PeerIds /\ conf.p2p ->
              /\ Tells(c, "ok") /\ Goes(c, "signal")
              /\ StartSession(c, t)
         [] t = "udp" ->
              /\ Tells(c, "ok") /\ Goes(c, "udp")
              /\ UNCHANGED signalVars
         [] OTHER ->
              /\ Goes(c, "resolve")
              /\ UNCHANGED <<told, signalVars>>
    /\ UNCHANGED <<conf, keyed, cand, far, places, dns>>

(* A peer id that is not hexadecimal: silence.                                *)
PeerIdBad(c) ==
    /\ pc[c] = "target" /\ conf.p2p
    /\ Goes(c, "ending")
    /\ UNCHANGED <<conf, keyed, told, target, cand, far, places, dns, signalVars>>
-----------------------------------------------------------------------------
(* dns_cache.rs.                                                              *)
CachedNames  == {cache[k].name : k \in DOMAIN cache}
Cached(n)    == (CHOOSE e \in ToSet(cache) : e.name = n).addrs
Without(n)   == SelectSeq(cache, LAMBDA e : e.name # n)

(* put_cache: at the limit the oldest entry goes first.                       *)
PutCache(n, addrs) ==
    LET room == IF Len(cache) >= MaxEntries THEN Tail(cache) ELSE cache
        kept == SelectSeq(room, LAMBDA e : e.name # n)
    IN  /\ cache' = Append(kept, [name |-> n, addrs |-> addrs])
        /\ fresh' = (fresh \cap {kept[k].name : k \in DOMAIN kept}) \cup {n}

(* The addresses that may be dialled: each candidate is looked at.            *)
Allowed(addrs) == IF AllowPrivate THEN addrs ELSE addrs \ Blocked

(* The target becomes candidates, or it is refused like one that cannot be    *)
(* reached.                                                                   *)
Candidates(c, addrs) ==
    /\ cand' = [cand EXCEPT ![c] = Allowed(addrs)]
    /\ IF Allowed(addrs) = {} THEN Tells(c, "fail") /\ Goes(c, "ending")
       ELSE UNCHANGED told /\ Goes(c, "dial")

NoAnswer(c) == Tells(c, "fail") /\ Goes(c, "ending") /\ UNCHANGED cand

(* A literal address needs no resolver.                                       *)
Literal(c) ==
    /\ pc[c] = "resolve" /\ target[c] \in Addrs
    /\ Candidates(c, {target[c]})
    /\ UNCHANGED <<conf, keyed, target, far, places, dns, signalVars>>

(* Mutant of CacheHit: what the cache holds is taken to have been looked at   *)
(* when it was put there, as the header of dns_cache.rs has it.               *)
CacheHitTrusts(c) ==
    /\ pc[c] = "resolve" /\ target[c] \in fresh
    /\ IF Cached(target[c]) = {} THEN NoAnswer(c)
       ELSE /\ cand' = [cand EXCEPT ![c] = Cached(target[c])]
            /\ UNCHANGED told /\ Goes(c, "dial")
    /\ UNCHANGED <<conf, keyed, target, far, places, dns, signalVars>>

(* lookup_cached: a negative entry is an answer too.                          *)
CacheHit(c) ==
    /\ pc[c] = "resolve" /\ target[c] \in fresh
    /\ IF Cached(target[c]) = {} THEN NoAnswer(c) ELSE Candidates(c, Cached(target[c]))
    /\ UNCHANGED <<conf, keyed, target, far, places, dns, signalVars>>

(* No entry, or one too old, which is removed: queue for the resolver.        *)
CacheMiss(c) ==
    /\ pc[c] = "resolve" /\ target[c] \in Names \cup PeerIds
    /\ target[c] \notin fresh
    /\ cache' = Without(target[c])
    /\ Goes(c, "queue")
    /\ UNCHANGED <<conf, keyed, told, target, cand, far, places, fresh, signalVars>>

LookupStarts(c) ==
    /\ pc[c] = "queue"
    /\ Cardinality({d \in Conns : pc[d] = "lookup"}) < MaxLookups
    /\ Goes(c, "lookup")
    /\ UNCHANGED <<conf, keyed, told, target, cand, far, places, dns, signalVars>>

(* QUEUE_TIMEOUT: an answer, but not one for the cache.                       *)
QueueTimesOut(c) ==
    /\ pc[c] = "queue"
    /\ Cardinality({d \in Conns : pc[d] = "lookup"}) = MaxLookups
    /\ NoAnswer(c)
    /\ UNCHANGED <<conf, keyed, target, far, places, dns, signalVars>>

LookupAnswers(c, addrs) ==
    /\ pc[c] = "lookup"
    /\ PutCache(target[c], addrs)
    /\ Candidates(c, addrs)
    /\ UNCHANGED <<conf, keyed, target, far, places, signalVars>>

(* An error, an empty answer or none within five seconds.                     *)
LookupFails(c) ==
    /\ pc[c] = "lookup"
    /\ PutCache(target[c], {})
    /\ NoAnswer(c)
    /\ UNCHANGED <<conf, keyed, target, far, places, signalVars>>

EntryExpires(n) ==
    /\ n \in fresh
    /\ fresh' = fresh \ {n}
    /\ UNCHANGED <<conf, connVars, places, cache, signalVars>>
-----------------------------------------------------------------------------
(* The dial: the first two candidates race, the others follow one by one, all *)
(* within CONNECT_TOTAL.  Any of them may turn out to be the first to answer. *)
DialConnects(c) ==
    /\ pc[c] = "dial"
    /\ \E a \in cand[c] : far' = [far EXCEPT ![c] = a]
    /\ Goes(c, "reply")
    /\ UNCHANGED <<conf, keyed, told, target, cand, places, dns, signalVars>>

DialFails(c) ==
    /\ pc[c] = "dial"
    /\ Tells(c, "fail") /\ Goes(c, "ending")
    /\ UNCHANGED <<conf, keyed, target, cand, far, places, dns, signalVars>>

ReplyOk(c) ==
    /\ pc[c] = "reply"
    /\ Tells(c, "ok") /\ Goes(c, "relay")
    /\ UNCHANGED <<conf, keyed, target, cand, far, places, dns, signalVars>>

(* A relay, of TCP or of UDP, or the write of a reply, comes to its end.      *)
ServiceEnds(c) ==
    /\ pc[c] \in {"relay", "udp", "reply"}
    /\ Goes(c, "ending")
    /\ UNCHANGED <<conf, keyed, told, target, cand, far, places, dns, signalVars>>

SignalEnds(c) ==
    /\ pc[c] = "signal"
    /\ EndSession(c)
    /\ Goes(c, "ending")
    /\ UNCHANGED <<conf, keyed, told, target, cand, far, places, dns>>
-----------------------------------------------------------------------------
Resolving(c) ==
    \/ Literal(c) \/ CacheHit(c) \/ CacheMiss(c) \/ LookupStarts(c) \/ QueueTimesOut(c)
    \/ \E addrs \in SUBSET Addrs \ {{}} : LookupAnswers(c, addrs)
    \/ LookupFails(c)

Dialling(c) == DialConnects(c) \/ DialFails(c) \/ ReplyOk(c)

Greeting(c) ==
    \/ TlsDone(c) \/ TlsFails(c) \/ VersionOk(c) \/ VersionBad(c) \/ NoiseOk(c) \/ NoiseFails(c)
    \/ TargetBad(c) \/ PeerIdBad(c) \/ \E t \in Targets : TargetRead(c, t)

Ending(c) == ServiceEnds(c) \/ SignalEnds(c) \/ ReleasePermit(c) \/ ReleaseAddress(c)

Entering(c) ==
    \/ Accept(c) \/ ShedByAddress(c) \/ TakePermit(c) \/ ShedByCapacity(c)

Next ==
    \/ \E c \in Conns : Entering(c) \/ Greeting(c) \/ Resolving(c) \/ Dialling(c) \/ Ending(c)
    \/ \E n \in Names \cup PeerIds : EntryExpires(n)
    \/ SignalStep /\ UNCHANGED nodeVars

(* Every wait of the set-up has a timeout, the writes of the set-up fit the   *)
(* socket's buffer, and a forward is given up after FORWARD_TIMEOUT.          *)
OwnStep(c) ==
    \/ TakePermit(c) \/ ShedByCapacity(c)
    \/ Greeting(c) \/ Resolving(c) \/ Dialling(c)
    \/ ReleasePermit(c) \/ ReleaseAddress(c)
    \/ (ForwardOk(c) \/ ForwardFails(c)) /\ UNCHANGED nodeVars

Spec == Init /\ [][Next]_vars /\ \A c \in Conns : WF_vars(OwnStep(c))
-----------------------------------------------------------------------------
TypeOK ==
    /\ conf \in Configs
    /\ pc \in [Conns -> Setup \cup Service
                        \cup {"new", "counted", "ending", "leaving", "closed"}]
    /\ keyed \subseteq Conns
    /\ \A c \in Conns : told[c] \in Seq({"noise", "page", "ok", "fail"})
    /\ target \in [Conns -> Targets \cup {NoTarget}] /\ far \in [Conns -> Addrs \cup {NoAddr}]
    /\ cand \in [Conns -> SUBSET Addrs]
    /\ permits \in 0..Places /\ perIp \in [Ips -> Nat]
    /\ Len(cache) <= MaxEntries /\ fresh \subseteq CachedNames
    /\ SignalTypeOK

Holding == {c \in Conns : pc[c] \in Setup \cup Service \cup {"ending"}}
Pair(c) == [conn |-> c, ip |-> Source[c]]

Promise == INSTANCE Admission WITH
    Clients     <- Conns,
    limits      <- [places |-> Places, perIp |-> conf.perIp],
    served      <- {Pair(c) : c \in Holding},
    leaving     <- {Pair(c) : c \in {d \in Conns : pc[d] = "leaving"}},
    gone        <- {c \in Conns : pc[c] = "closed"}

(* The semaphore and the map of counts implement the promise of Admission: a  *)
(* place is taken and given back once per connection, on every path out of    *)
(* the task, and nobody is turned away while there is a place.                *)
AdmissionKept == Promise!AdmissionSpec

(* Nothing is ever connected for a peer that has not shown the key, a literal *)
(* target is connected to itself and nowhere else, no address the filter      *)
(* refuses is connected although the cache that all connections share holds   *)
(* the answers of the resolver as they came, put there by whoever asked       *)
(* first, and a relay has a connection to one of its candidates behind it     *)
(* (resolve_and_connect, dns_cache.rs).                                       *)
DialsAllowed ==
    \A c \in Conns :
        /\ far[c] # NoAddr =>
              /\ c \in keyed
              /\ AllowPrivate \/ far[c] \notin Blocked
              /\ target[c] \in Addrs => far[c] = target[c]
        /\ pc[c] = "relay" => far[c] \in cand[c]

(* What the header of tcp_server.rs (12-15), the comment on handle_tls_stream *)
(* (373-375) and the header of fallback.rs say: with the page switched on, a  *)
(* Noise handshake that fails is answered with the page, like every other     *)
(* failure to authenticate once TLS is up.  handle_tls_stream (450-459, 461-  *)
(* 468) closes the stream without a word, with a reason that is given there.  *)
NoiseFailureAnswered ==
    [][\A c \in Conns :
          pc[c] = "noise" /\ pc'[c] = "ending" /\ conf.page => "page" \in ToSet(told'[c])]_vars

(* No peer can hold a connection up for ever by its silence: one that was     *)
(* admitted is served or gone after a while (TLS_HANDSHAKE_TIMEOUT,           *)
(* AUTH_TIMEOUT, the idle time, QUEUE_TIMEOUT, CONNECT_TOTAL), whoever ends   *)
(* gives its places back, and a signalling session that forwards to a peer    *)
(* which does not read returns to its own lines (FORWARD_TIMEOUT).            *)
NobodyHangs ==
    \A c \in Conns :
        \/ pc[c] \in Setup \cup {"ending", "leaving"}
        \/ sig[c] = "forward"
        ~> \/ pc[c] \in Service /\ sig[c] # "forward"
           \/ pc[c] = "closed"
=============================================================================
