--------------------------- MODULE NodeServerProofs ---------------------------
(* Admission, the connections made for the peers, and the signalling          *)
(* registry, for any number of connections, addresses, places and peer ids:   *)
(* Conns, Ips and PeerIds may be infinite, as over a node's life they are.    *)
(* The first part is the accept loop's arithmetic: the semaphore and the map  *)
(* of counts agree with the tasks that run, which makes the node implement    *)
(* module Admission step by step.                                             *)
EXTENDS NodeServer, FiniteSetTheorems, TLAPS

Inside  == Setup \cup Service \cup {"ending"}
Steps   == Inside \cup {"new", "counted", "leaving", "closed"}
Leaving == {d \in Conns : pc[d] = "leaving"}
Closed  == {c \in Conns : pc[c] = "closed"}

(* The connections a per-address count stands for.                            *)
Entered     == {c \in Conns : pc[c] \notin {"new", "closed"}}
EnteredOf(i) == {c \in Entered : Source[c] = i}

PlacesTyped ==
    /\ conf \in Configs
    /\ pc \in [Conns -> Steps]
    /\ permits \in Nat
    /\ perIp \in [Ips -> Nat]

(* The guard of an address is taken before the permit, by one connection at a *)
(* time, and given back after it.                                             *)
PlacesCounted ==
    /\ IsFiniteSet(Entered)
    /\ permits + Cardinality(Holding) = Places
    /\ \A i \in Ips : perIp[i] = Cardinality(EnteredOf(i))
    /\ \A i \in Ips : conf.perIp > 0 => perIp[i] <= conf.perIp
    /\ \A c, d \in Conns : pc[c] = "counted" /\ pc[d] = "counted" => c = d

PlacesInv == PlacesTyped /\ PlacesCounted

(* What is known of the candidates and of the connection to the target, by    *)
(* where the task is.  Candidates come from a literal, the resolver or the    *)
(* cache, and nothing need be known of what the cache holds.                  *)
Known == {"target", "resolve", "queue", "lookup", "dial", "reply"} \cup Service
MayDial(c, a) ==
    /\ AllowPrivate \/ a \notin Blocked
    /\ target[c] \in Addrs => a = target[c]

DialsTyped ==
    /\ keyed \subseteq Conns
    /\ target = [c \in Conns |-> target[c]]
    /\ cand = [c \in Conns |-> cand[c]]
    /\ far = [c \in Conns |-> far[c]]
    /\ fresh \cap Addrs = {}

DialOf(c) ==
    /\ pc[c] \in Known => c \in keyed
    /\ c \in keyed => pc[c] \in Known \cup {"ending"}
    /\ pc[c] \in {"queue", "lookup"} => target[c] \notin Addrs
    /\ pc[c] \notin {"dial", "reply", "relay", "ending"} => cand[c] = {} /\ far[c] = NoAddr
    /\ pc[c] = "dial" => far[c] = NoAddr
    /\ pc[c] \in {"reply", "relay"} => far[c] \in cand[c]
    /\ cand[c] # {} => c \in keyed
    /\ far[c] # NoAddr => far[c] \in cand[c]
    /\ \A a \in cand[c] : MayDial(c, a)

DialsInv == DialsTyped /\ \A c \in Conns : DialOf(c)

(* A session runs while the task of its connection serves it.                 *)
Idle == {"none", "ended"}
SessionsServed ==
    \A c \in Conns :
        /\ pc[c] = "signal" <=> sig[c] \notin Idle
        /\ sig[c] \notin Idle => me[c] \in PeerIds

SessionsInv ==
    /\ SignalTypeOK
    /\ SessionsServed
    /\ IsFiniteSet(Registered)
    /\ RegistryOwned

-----------------------------------------------------------------------------
(* The accept loop.                                                           *)

(* The semaphore starts with at least one permit (max_connections.max(1)).    *)
LEMMA PlacesPositive == conf \in Configs => Places \in Nat \ {0}
BY NodeAssumption DEF Places

(* The set of served connections is finite whatever the number of clients.    *)
LEMMA FiniteParts ==
    ASSUME PlacesTyped, IsFiniteSet(Entered)
    PROVE  /\ IsFiniteSet(Holding) /\ Holding \subseteq Entered
           /\ \A i : IsFiniteSet(EnteredOf(i))
           /\ Leaving \subseteq Entered /\ Holding \cap Leaving = {}
  <1>1. Holding \in SUBSET Entered /\ \A i : EnteredOf(i) \in SUBSET Entered
    BY DEF Holding, Entered, EnteredOf, Setup, Service
  <1>2. IsFiniteSet(Holding) /\ \A i : IsFiniteSet(EnteredOf(i))
    BY <1>1, FS_Subset
  <1>3. Leaving \subseteq Entered /\ Holding \cap Leaving = {}
    BY DEF Holding, Entered, Leaving, Setup, Service
  <1>4. QED
    BY <1>1, <1>2, <1>3

(* A step inside the service takes no place and gives none back.              *)
LEMMA InsideKeepsPlaces ==
    ASSUME PlacesInv, UNCHANGED <<conf, places>>,
           NEW c \in Conns, pc[c] \in Inside,
           NEW step \in Inside, pc' = [pc EXCEPT ![c] = step]
    PROVE  /\ PlacesInv'
           /\ Holding' = Holding /\ Leaving' = Leaving /\ Closed' = Closed
  <1>1. PlacesTyped'
    BY DEF PlacesInv, PlacesTyped, places, Steps
  <1>2. \A d \in Conns : pc'[d] = IF d = c THEN step ELSE pc[d]
    BY DEF PlacesInv, PlacesTyped
  <1>3. /\ Entered' = Entered /\ Holding' = Holding
        /\ Leaving' = Leaving /\ Closed' = Closed
    BY <1>2 DEF Entered, Holding, Leaving, Closed, Inside, Setup, Service
  <1>4. \A i \in Ips : EnteredOf(i)' = EnteredOf(i)
    BY <1>3 DEF EnteredOf
  <1>5. \A d \in Conns : pc'[d] = "counted" => pc[d] = "counted"
    BY <1>2 DEF Inside, Setup, Service
  <1>6. PlacesCounted'
    BY <1>3, <1>4, <1>5 DEF PlacesInv, PlacesCounted, Places, places
  <1>7. QED
    BY <1>1, <1>3, <1>6 DEF PlacesInv

(* Everything a task does between taking its permit and dropping it.          *)
LEMMA ServiceStaysInside ==
    ASSUME NEW c \in Conns,
           \/ Greeting(c) \/ Resolving(c) \/ Dialling(c)
           \/ ServiceEnds(c) \/ SignalEnds(c)
    PROVE  /\ pc[c] \in Inside
           /\ \E step \in Inside : pc' = [pc EXCEPT ![c] = step]
           /\ UNCHANGED <<conf, places>>
  <1> USE DEF Inside, Setup, Service, Goes, dns
  <1>1. CASE Greeting(c)
    BY <1>1 DEF Greeting, TlsDone, TlsFails, VersionOk, VersionBad, NoiseOk, NoiseFails,
                TargetBad, PeerIdBad, TargetRead, Refuse
  <1>2. CASE Resolving(c)
    BY <1>2 DEF Resolving, Literal, CacheHit, CacheMiss, LookupStarts, QueueTimesOut,
                LookupAnswers, LookupFails, Candidates, NoAnswer
  <1>3. CASE Dialling(c)
    BY <1>3 DEF Dialling, DialConnects, DialFails, ReplyOk
  <1>4. CASE ServiceEnds(c) \/ SignalEnds(c)
    BY <1>4 DEF ServiceEnds, SignalEnds
  <1>5. QED
    BY <1>1, <1>2, <1>3, <1>4

(* A connection with its address counts as one, so that the abstract sets are *)
(* as large as the sets of tasks.                                             *)
LEMMA PairsCount ==
    ASSUME NEW S, IsFiniteSet(S)
    PROVE  IsFiniteSet({Pair(c) : c \in S}) /\ Cardinality({Pair(c) : c \in S}) = Cardinality(S)
  <1> DEFINE f == [c \in S |-> Pair(c)]
             T == {Pair(c) : c \in S}
  <1>1. f \in Bijection(S, T)
    BY DEF Bijection, Injection, Surjection, IsInjective, Pair
  <1>2. QED
    BY <1>1, FS_Bijection DEF ExistsBijection

(* Accept enters one connection into the count of its address.                *)
LEMMA AcceptCounts ==
    ASSUME PlacesInv, NEW c \in Conns, Accept(c)
    PROVE  /\ PlacesInv'
           /\ Holding' = Holding /\ Leaving' = Leaving /\ Closed' = Closed
  <1> DEFINE ip == Source[c]
  <1>0. ip \in Ips
    BY NodeAssumption
  <1>1. \A d \in Conns : pc'[d] = IF d = c THEN "counted" ELSE pc[d]
    BY DEF PlacesInv, PlacesTyped, Accept, Goes
  <1>2. /\ Entered' = Entered \cup {c} /\ c \notin Entered
        /\ Holding' = Holding /\ Leaving' = Leaving /\ Closed' = Closed
    BY <1>1 DEF Accept, Entered, Holding, Leaving, Closed, Setup, Service
  <1>3. /\ EnteredOf(ip)' = EnteredOf(ip) \cup {c} /\ c \notin EnteredOf(ip)
        /\ \A i \in Ips \ {ip} : EnteredOf(i)' = EnteredOf(i)
    BY <1>2 DEF EnteredOf
  <1>4. IsFiniteSet(EnteredOf(ip)) /\ IsFiniteSet(Entered)
    BY FiniteParts DEF PlacesInv, PlacesCounted
  <1>5. IsFiniteSet(Entered') /\ Cardinality(EnteredOf(ip)') = perIp[ip] + 1
    BY <1>0, <1>2, <1>3, <1>4, FS_AddElement DEF PlacesInv, PlacesTyped, PlacesCounted
  <1>6. PlacesTyped'
    BY <1>0 DEF PlacesInv, PlacesTyped, Accept, Goes, Steps
  <1>7. \A i \in Ips : perIp'[i] = IF i = ip THEN perIp[ip] + 1 ELSE perIp[i]
    BY <1>0 DEF PlacesInv, PlacesTyped, Accept
  <1>8. \A i \in Ips : perIp'[i] = Cardinality(EnteredOf(i)')
    BY <1>3, <1>5, <1>7 DEF PlacesInv, PlacesCounted
  <1>9. \A i \in Ips : conf'.perIp > 0 => perIp'[i] <= conf'.perIp
    BY <1>0, <1>7, NodeAssumption DEF PlacesInv, PlacesTyped, PlacesCounted, Accept
  <1>10. \A d, e \in Conns : pc'[d] = "counted" /\ pc'[e] = "counted" => d = e
    BY <1>1 DEF Accept, Accepting
  <1>11. permits' + Cardinality(Holding') = Places'
    BY <1>2 DEF PlacesInv, PlacesCounted, Accept, Places
  <1>12. QED
    BY <1>2, <1>5, <1>6, <1>8, <1>9, <1>10, <1>11 DEF PlacesInv, PlacesCounted

(* A connection that ends without service: by ShedByAddress it never counted. *)
LEMMA ShedCounts ==
    ASSUME PlacesInv, NEW c \in Conns, ShedByAddress(c)
    PROVE  /\ PlacesInv'
           /\ Holding' = Holding /\ Leaving' = Leaving /\ Closed' = Closed \cup {c}
  <1>1. \A d \in Conns : pc'[d] = IF d = c THEN "closed" ELSE pc[d]
    BY DEF PlacesInv, PlacesTyped, ShedByAddress, Goes
  <1>2. /\ Entered' = Entered
        /\ Holding' = Holding /\ Leaving' = Leaving /\ Closed' = Closed \cup {c}
    BY <1>1 DEF ShedByAddress, Entered, Holding, Leaving, Closed, Setup, Service
  <1>3. \A i \in Ips : EnteredOf(i)' = EnteredOf(i)
    BY <1>2 DEF EnteredOf
  <1>4. PlacesTyped'
    BY DEF PlacesInv, PlacesTyped, ShedByAddress, Goes, Steps, places
  <1>5. PlacesCounted'
    BY <1>1, <1>2, <1>3 DEF PlacesInv, PlacesCounted, ShedByAddress, Places, places
  <1>6. QED
    BY <1>2, <1>4, <1>5 DEF PlacesInv

(* TakePermit: the permit is the connection's while it is served.             *)
LEMMA PermitCounts ==
    ASSUME PlacesInv, NEW c \in Conns, TakePermit(c)
    PROVE  /\ PlacesInv'
           /\ Holding' = Holding \cup {c} /\ c \notin Holding
           /\ Leaving' = Leaving /\ Closed' = Closed
  <1>1. \A d \in Conns : pc'[d] = IF d = c THEN "tls" ELSE pc[d]
    BY DEF PlacesInv, PlacesTyped, TakePermit, Goes
  <1>2. /\ Entered' = Entered
        /\ Holding' = Holding \cup {c} /\ c \notin Holding
        /\ Leaving' = Leaving /\ Closed' = Closed
    BY <1>1 DEF TakePermit, Entered, Holding, Leaving, Closed, Setup, Service
  <1>3. \A i \in Ips : EnteredOf(i)' = EnteredOf(i)
    BY <1>2 DEF EnteredOf
  <1>4. PlacesTyped'
    BY DEF PlacesInv, PlacesTyped, TakePermit, Goes, Steps, Inside, Setup
  <1>5. IsFiniteSet(Holding) /\ Cardinality(Holding) \in Nat
    BY FiniteParts, FS_CardinalityType DEF PlacesInv, PlacesCounted
  <1>6. Cardinality(Holding') = Cardinality(Holding) + 1
    BY <1>2, <1>5, FS_AddElement
  <1>7. permits' + Cardinality(Holding') = Places'
    BY <1>5, <1>6, PlacesPositive DEF PlacesInv, PlacesTyped, PlacesCounted, TakePermit, Places
  <1>8. PlacesCounted'
    BY <1>1, <1>2, <1>3, <1>7 DEF PlacesInv, PlacesCounted, TakePermit
  <1>9. QED
    BY <1>2, <1>4, <1>8 DEF PlacesInv

(* The count of an address is given back: by ShedByCapacity, and by the task  *)
(* as its last act.                                                           *)
LEMMA AddressReleased ==
    ASSUME PlacesInv, NEW c \in Conns,
           pc[c] \in {"counted", "leaving"},
           pc' = [pc EXCEPT ![c] = "closed"],
           perIp' = [perIp EXCEPT ![Source[c]] = @ - 1],
           UNCHANGED <<conf, permits>>
    PROVE  /\ PlacesInv'
           /\ Holding' = Holding /\ Leaving' = Leaving \ {c} /\ Closed' = Closed \cup {c}
  <1> DEFINE ip == Source[c]
  <1>0. ip \in Ips
    BY NodeAssumption
  <1>1. \A d \in Conns : pc'[d] = IF d = c THEN "closed" ELSE pc[d]
    BY DEF PlacesInv, PlacesTyped
  <1>2. /\ Entered' = Entered \ {c} /\ c \in Entered
        /\ Holding' = Holding /\ Leaving' = Leaving \ {c} /\ Closed' = Closed \cup {c}
    BY <1>1 DEF Entered, Holding, Leaving, Closed, Setup, Service
  <1>3. /\ EnteredOf(ip)' = EnteredOf(ip) \ {c} /\ c \in EnteredOf(ip)
        /\ \A i \in Ips \ {ip} : EnteredOf(i)' = EnteredOf(i)
    BY <1>2 DEF EnteredOf
  <1>4. IsFiniteSet(EnteredOf(ip)) /\ IsFiniteSet(Entered)
    BY FiniteParts DEF PlacesInv, PlacesCounted
  <1>5. /\ IsFiniteSet(Entered')
        /\ IsFiniteSet(EnteredOf(ip)') /\ Cardinality(EnteredOf(ip)') = perIp[ip] - 1
    BY <1>0, <1>2, <1>3, <1>4, FS_RemoveElement DEF PlacesInv, PlacesTyped, PlacesCounted
  <1>6. perIp[ip] - 1 \in Nat
    BY <1>5, FS_CardinalityType
  <1>7. PlacesTyped'
    BY <1>0, <1>6 DEF PlacesInv, PlacesTyped, Steps
  <1>8. \A i \in Ips : perIp'[i] = IF i = ip THEN perIp[ip] - 1 ELSE perIp[i]
    BY <1>0 DEF PlacesInv, PlacesTyped
  <1>9. \A i \in Ips : perIp'[i] = Cardinality(EnteredOf(i)')
    BY <1>3, <1>5, <1>8 DEF PlacesInv, PlacesCounted
  <1>10. \A i \in Ips : conf'.perIp > 0 => perIp'[i] <= conf'.perIp
    BY <1>0, <1>8, NodeAssumption DEF PlacesInv, PlacesTyped, PlacesCounted
  <1>11. PlacesCounted'
    BY <1>1, <1>2, <1>5, <1>9, <1>10 DEF PlacesInv, PlacesCounted, Places
  <1>12. QED
    BY <1>2, <1>7, <1>11 DEF PlacesInv

(* ReleasePermit: the permit comes back, the address counts on.               *)
LEMMA PermitReleased ==
    ASSUME PlacesInv, NEW c \in Conns, ReleasePermit(c)
    PROVE  /\ PlacesInv'
           /\ Holding' = Holding \ {c} /\ c \in Holding
           /\ Leaving' = Leaving \cup {c} /\ Closed' = Closed
  <1>1. \A d \in Conns : pc'[d] = IF d = c THEN "leaving" ELSE pc[d]
    BY DEF PlacesInv, PlacesTyped, ReleasePermit, Goes
  <1>2. /\ Entered' = Entered
        /\ Holding' = Holding \ {c} /\ c \in Holding
        /\ Leaving' = Leaving \cup {c} /\ Closed' = Closed
    BY <1>1 DEF ReleasePermit, Entered, Holding, Leaving, Closed, Setup, Service
  <1>3. \A i \in Ips : EnteredOf(i)' = EnteredOf(i)
    BY <1>2 DEF EnteredOf
  <1>4. PlacesTyped'
    BY DEF PlacesInv, PlacesTyped, ReleasePermit, Goes, Steps
  <1>5. IsFiniteSet(Holding) /\ Cardinality(Holding) \in Nat
    BY FiniteParts, FS_CardinalityType DEF PlacesInv, PlacesCounted
  <1>6. Cardinality(Holding') = Cardinality(Holding) - 1
    BY <1>2, <1>5, FS_RemoveElement
  <1>7. permits' + Cardinality(Holding') = Places'
    BY <1>5, <1>6, PlacesPositive DEF PlacesInv, PlacesTyped, PlacesCounted, ReleasePermit, Places
  <1>8. PlacesCounted'
    BY <1>1, <1>2, <1>3, <1>7 DEF PlacesInv, PlacesCounted, ReleasePermit
  <1>9. QED
    BY <1>2, <1>4, <1>8 DEF PlacesInv

(* The abstract state that a state of the node stands for.                    *)
Limits   == [places |-> Places, perIp |-> conf.perIp]
Served   == {Pair(c) : c \in Holding}
Left     == {Pair(c) : c \in Leaving}
Promised == <<Limits, Served, Left, Closed>>
AbstractStep == Promise!AdmissionNext \/ UNCHANGED Promised

(* Admission counts with the same Cardinality, instantiated.                  *)
LEMMA CountsAgree == \A S : Promise!Cardinality(S) = Cardinality(S)
BY DEF Promise!Cardinality, Cardinality

(* The abstract count of an address is the concrete one, less the connection  *)
(* that waits for its permit.                                                 *)
LEMMA AddressCount ==
    ASSUME PlacesInv, NEW i \in Ips
    PROVE  /\ Promise!Counted(i) = {Pair(d) : d \in EnteredOf(i) \ {e \in Conns : pc[e] = "counted"}}
           /\ Accepting => Cardinality(Promise!Counted(i)) = perIp[i]
           /\ \A c \in Conns : pc[c] = "counted" /\ Source[c] = i =>
                  Cardinality(Promise!Counted(i)) = perIp[i] - 1
  <1> DEFINE waits == {e \in Conns : pc[e] = "counted"}
  <1>1. Entered = Holding \cup Leaving \cup waits
    BY DEF PlacesInv, PlacesTyped, Entered, Holding, Leaving, Steps, Inside, Setup, Service
  <1>2. Holding \cap waits = {} /\ Leaving \cap waits = {}
    BY DEF Holding, Leaving, Setup, Service
  <1>3. Promise!Counted(i) = {Pair(d) : d \in EnteredOf(i) \ waits}
    BY <1>1, <1>2 DEF Promise!Counted, EnteredOf, Pair, Leaving, Holding
  <1>4. IsFiniteSet(EnteredOf(i)) /\ Cardinality(EnteredOf(i)) = perIp[i] /\ perIp[i] \in Nat
    BY FiniteParts DEF PlacesInv, PlacesTyped, PlacesCounted
  <1>5. IsFiniteSet(EnteredOf(i) \ waits)
    BY <1>4, FS_Subset
  <1>6. Cardinality(Promise!Counted(i)) = Cardinality(EnteredOf(i) \ waits)
    BY <1>3, <1>5, PairsCount
  <1>7. Accepting => EnteredOf(i) \ waits = EnteredOf(i)
    BY DEF Accepting
  <1>8. ASSUME NEW c \in Conns, pc[c] = "counted", Source[c] = i
        PROVE  Cardinality(Promise!Counted(i)) = perIp[i] - 1
    <2>1. EnteredOf(i) \ waits = EnteredOf(i) \ {c}
      BY <1>8 DEF PlacesInv, PlacesCounted
    <2>2. c \in EnteredOf(i)
      BY <1>8 DEF EnteredOf, Entered
    <2>3. QED
      BY <1>4, <1>6, <2>1, <2>2, FS_RemoveElement
  <1>9. QED
    BY <1>3, <1>4, <1>6, <1>7, <1>8

(* As many connections are served in the abstract as permits are out.         *)
LEMMA ServedCount ==
    ASSUME PlacesInv
    PROVE  Cardinality(Served) \in Nat /\ permits + Cardinality(Served) = Places
  <1>1. IsFiniteSet(Holding)
    BY FiniteParts DEF PlacesInv, PlacesCounted
  <1>2. Cardinality(Served) = Cardinality(Holding) /\ Cardinality(Holding) \in Nat
    BY <1>1, PairsCount, FS_CardinalityType DEF Served
  <1>3. QED
    BY <1>2 DEF PlacesInv, PlacesCounted

(* A connection that is new or waits for its permit is unknown to Admission.  *)
LEMMA NotYetKnown ==
    ASSUME NEW c \in Conns, pc[c] \in {"new", "counted"}
    PROVE  c \notin Promise!Known
BY DEF Promise!Known, Pair, Holding, Setup, Service

LEMMA EnteringImplements ==
    ASSUME PlacesInv, NEW c \in Conns, Entering(c)
    PROVE  PlacesInv' /\ AbstractStep
  <1> DEFINE ip == Source[c]
  <1>0. ip \in Ips /\ conf \in Configs /\ conf.perIp \in Nat /\ perIp[ip] \in Nat
    BY NodeAssumption DEF PlacesInv, PlacesTyped
  <1>1. CASE Accept(c)
    <2>1. Limits' = Limits
      BY <1>1 DEF Accept, Limits, Places
    <2>2. QED
      BY <1>1, <2>1, AcceptCounts DEF AbstractStep, Promised, Served, Left, Pair
  <1>2. CASE ShedByAddress(c)
    <2>1. /\ PlacesInv' /\ Holding' = Holding /\ Leaving' = Leaving
          /\ Closed' = Closed \cup {c} /\ conf' = conf
      BY <1>2, ShedCounts DEF ShedByAddress
    <2>2. c \notin Promise!Known
      BY <1>2, NotYetKnown DEF ShedByAddress
    <2>3. conf.perIp > 0 /\ Cardinality(Promise!Counted(ip)) >= conf.perIp
      BY <1>0, <1>2, AddressCount DEF ShedByAddress
    <2>4. Promise!TurnAway(c, ip)
      BY <2>1, <2>2, <2>3, CountsAgree DEF Promise!TurnAway, Leaving, Closed, Pair, Places
    <2>5. QED
      BY <1>0, <2>1, <2>4 DEF AbstractStep, Promise!AdmissionNext
  <1>3. CASE TakePermit(c)
    <2>1. /\ PlacesInv' /\ Holding' = Holding \cup {c} /\ Leaving' = Leaving
          /\ Closed' = Closed /\ conf' = conf
      BY <1>3, PermitCounts DEF TakePermit
    <2>2. c \notin Promise!Known
      BY <1>3, NotYetKnown DEF TakePermit
    <2>3. Cardinality(Served) < Places
      BY <1>3, ServedCount DEF TakePermit, PlacesInv, PlacesTyped
    <2>4. conf.perIp = 0 \/ Cardinality(Promise!Counted(ip)) < conf.perIp
      BY <1>0, <1>3, AddressCount DEF TakePermit, PlacesInv, PlacesCounted
    <2>5. Promise!Admit(c, ip)
      BY <2>1, <2>2, <2>3, <2>4, CountsAgree DEF Promise!Admit, Served, Leaving, Closed, Pair, Places
    <2>6. QED
      BY <1>0, <2>1, <2>5 DEF AbstractStep, Promise!AdmissionNext
  <1>4. CASE ShedByCapacity(c)
    <2>1. /\ PlacesInv' /\ Holding' = Holding /\ Leaving' = Leaving \ {c}
          /\ Closed' = Closed \cup {c} /\ conf' = conf
      BY <1>4, AddressReleased DEF ShedByCapacity, Goes
    <2>2. c \notin Leaving
      BY <1>4 DEF ShedByCapacity, Leaving
    <2>3. c \notin Promise!Known
      BY <1>4, NotYetKnown DEF ShedByCapacity
    <2>4. Cardinality(Served) >= Places
      BY <1>4, ServedCount DEF ShedByCapacity
    <2>5. Promise!TurnAway(c, ip)
      BY <2>1, <2>2, <2>3, <2>4, CountsAgree DEF Promise!TurnAway, Served, Leaving, Closed, Pair, Places
    <2>6. QED
      BY <1>0, <2>1, <2>5 DEF AbstractStep, Promise!AdmissionNext
  <1>5. QED
    BY <1>1, <1>2, <1>3, <1>4 DEF Entering

LEMMA EndingImplements ==
    ASSUME PlacesInv, NEW c \in Conns, ReleasePermit(c) \/ ReleaseAddress(c)
    PROVE  PlacesInv' /\ AbstractStep
  <1>1. CASE ReleasePermit(c)
    <2>1. /\ PlacesInv' /\ Holding' = Holding \ {c} /\ c \in Holding
          /\ Leaving' = Leaving \cup {c} /\ Closed' = Closed /\ conf' = conf
      BY <1>1, PermitReleased DEF ReleasePermit
    <2>2. Promise!Depart(Pair(c))
      BY <2>1 DEF Promise!Depart, Holding, Leaving, Closed, Pair, Places
    <2>3. QED
      BY <2>1, <2>2 DEF AbstractStep, Promise!AdmissionNext
  <1>2. CASE ReleaseAddress(c)
    <2>1. /\ PlacesInv' /\ Holding' = Holding /\ c \in Leaving
          /\ Leaving' = Leaving \ {c} /\ Closed' = Closed \cup {c} /\ conf' = conf
      BY <1>2, AddressReleased DEF ReleaseAddress, Goes, Leaving
    <2>2. Promise!Forget(Pair(c))
      BY <2>1 DEF Promise!Forget, Holding, Leaving, Closed, Pair, Places
    <2>3. QED
      BY <2>1, <2>2 DEF AbstractStep, Promise!AdmissionNext, Leaving
  <1>3. QED
    BY <1>1, <1>2

(* A step that changes neither a task's place nor a count.                    *)
LEMMA PlacesUntouched ==
    ASSUME PlacesInv, UNCHANGED <<conf, pc, places>>
    PROVE  PlacesInv' /\ AbstractStep
  <1>1. /\ Entered' = Entered /\ Holding' = Holding /\ Leaving' = Leaving /\ Closed' = Closed
        /\ \A i \in Ips : EnteredOf(i)' = EnteredOf(i)
    BY DEF Entered, Holding, Leaving, Closed, EnteredOf
  <1>2. PlacesInv'
    BY <1>1 DEF PlacesInv, PlacesTyped, PlacesCounted, places, Places
  <1>3. UNCHANGED Promised
    BY <1>1 DEF Promised, Limits, Served, Left, Places, Pair
  <1>4. QED
    BY <1>2, <1>3 DEF AbstractStep

LEMMA PlacesNext == PlacesInv /\ [Next]_vars => PlacesInv' /\ AbstractStep
  <1> SUFFICES ASSUME PlacesInv, [Next]_vars PROVE PlacesInv' /\ AbstractStep
    OBVIOUS
  <1>1. ASSUME NEW c \in Conns, Entering(c) PROVE PlacesInv' /\ AbstractStep
    BY <1>1, EnteringImplements
  <1>2. ASSUME NEW c \in Conns,
               Greeting(c) \/ Resolving(c) \/ Dialling(c) \/ ServiceEnds(c) \/ SignalEnds(c)
        PROVE  PlacesInv' /\ AbstractStep
    <2>1. PICK step \in Inside : pc' = [pc EXCEPT ![c] = step]
      BY <1>2, ServiceStaysInside
    <2>2. pc[c] \in Inside /\ UNCHANGED <<conf, places>>
      BY <1>2, ServiceStaysInside
    <2>3. PlacesInv' /\ Holding' = Holding /\ Leaving' = Leaving /\ Closed' = Closed
      BY <2>1, <2>2, InsideKeepsPlaces
    <2>4. UNCHANGED Promised
      BY <2>2, <2>3 DEF Promised, Limits, Served, Left, Places, Pair
    <2>5. QED
      BY <2>3, <2>4 DEF AbstractStep
  <1>3. ASSUME NEW c \in Conns, ReleasePermit(c) \/ ReleaseAddress(c)
        PROVE  PlacesInv' /\ AbstractStep
    BY <1>3, EndingImplements
  <1>4. ASSUME NEW n \in Names \cup PeerIds, EntryExpires(n) PROVE PlacesInv' /\ AbstractStep
    BY <1>4, PlacesUntouched DEF EntryExpires, connVars
  <1>5. CASE SignalStep /\ UNCHANGED nodeVars
    BY <1>5, PlacesUntouched DEF nodeVars, connVars
  <1>6. CASE UNCHANGED vars
    BY <1>6, PlacesUntouched DEF vars, nodeVars, connVars
  <1>7. QED
    BY <1>1, <1>2, <1>3, <1>4, <1>5, <1>6 DEF Next, Ending

LEMMA PlacesAtStart == Init => PlacesInv /\ Promise!AdmissionInit
  <1> SUFFICES ASSUME Init PROVE PlacesInv /\ Promise!AdmissionInit
    OBVIOUS
  <1> USE DEF Init, NodeInit
  <1>1. Entered = {} /\ Holding = {} /\ Leaving = {} /\ Closed = {}
    BY DEF Entered, Holding, Leaving, Closed, Setup, Service
  <1>2. \A i \in Ips : EnteredOf(i) = {}
    BY <1>1 DEF EnteredOf
  <1>3. Places \in Nat \ {0} /\ conf.perIp \in Nat
    BY PlacesPositive, NodeAssumption
  <1>4. PlacesTyped
    BY <1>3 DEF PlacesTyped, Steps
  <1>5. PlacesCounted
    <2>1. IsFiniteSet(Entered) /\ Cardinality(Holding) = 0
      BY <1>1, FS_EmptySet
    <2>2. permits + Cardinality(Holding) = Places
      BY <1>3, <2>1
    <2>3. \A i \in Ips : perIp[i] = 0 /\ Cardinality(EnteredOf(i)) = 0
      BY <1>2, FS_EmptySet
    <2>4. QED
      BY <1>3, <2>1, <2>2, <2>3 DEF PlacesCounted
  <1>6. Promise!AdmissionInit
    BY <1>1, <1>3 DEF Promise!AdmissionInit, Holding, Leaving, Closed
  <1>7. QED
    BY <1>4, <1>5, <1>6 DEF PlacesInv

(* Permits and counts agree with the connections that run.                    *)
THEOREM PlacesAreCounted == Spec => []PlacesInv
  <1>1. QED
    BY PlacesAtStart, PlacesNext, PTL DEF Spec

(* The node implements Admission: every step of it is a step of the promise   *)
(* or leaves the set of served connections as it was.                         *)
THEOREM NodeImplementsAdmission == Spec => AdmissionKept
  <1>1. AbstractStep =>
            [Promise!AdmissionNext]_<<[places |-> Places, perIp |-> conf.perIp],
                {Pair(c) : c \in Holding}, {Pair(c) : c \in {d \in Conns : pc[d] = "leaving"}},
                {c \in Conns : pc[c] = "closed"}>>
    BY DEF AbstractStep, Promised, Limits, Served, Left, Leaving, Closed
  <1>2. QED
    BY <1>1, PlacesAtStart, PlacesNext, PTL DEF Spec, AdmissionKept, Promise!AdmissionSpec
-----------------------------------------------------------------------------
(* What is connected for the peers.                                           *)

(* The task of c moves on, and the dials of the others stay as they are.      *)
LEMMA OneDials ==
    ASSUME PlacesTyped, DialsInv, NEW c \in Conns,
           NEW step, pc' = [pc EXCEPT ![c] = step],
           NEW t, target' = [target EXCEPT ![c] = t],
           NEW ca, cand' = [cand EXCEPT ![c] = ca],
           NEW fa, far' = [far EXCEPT ![c] = fa],
           keyed' \subseteq Conns, keyed' \ {c} = keyed \ {c},
           fresh' \cap Addrs = {},
           DialOf(c)'
    PROVE  DialsInv'
  <1>1. DialsTyped'
    BY DEF DialsInv, DialsTyped
  <1>2. ASSUME NEW d \in Conns, d # c PROVE DialOf(d)'
    <2>1. /\ pc'[d] = pc[d] /\ target'[d] = target[d] /\ cand'[d] = cand[d] /\ far'[d] = far[d]
          /\ d \in keyed' <=> d \in keyed
      BY <1>2 DEF PlacesTyped, DialsInv, DialsTyped
    <2>2. DialOf(d)
      BY DEF DialsInv
    <2>3. QED
      BY <2>1, <2>2 DEF DialOf, MayDial
  <1>3. QED
    BY <1>1, <1>2 DEF DialsInv

(* The steps that neither choose nor drop an address.                         *)
LEMMA QuietDials ==
    ASSUME PlacesTyped, DialsInv, NEW c \in Conns, UNCHANGED <<cand, far>>,
           NEW step, pc' = [pc EXCEPT ![c] = step],
           NEW t, target' = [target EXCEPT ![c] = t], t = target[c] \/ cand[c] = {},
           keyed' \subseteq Conns, keyed' \ {c} = keyed \ {c},
           fresh' \cap Addrs = {},
           step \in Known => c \in keyed',
           c \in keyed' => step \in Known \cup {"ending"},
           step \in {"queue", "lookup"} => t \notin Addrs,
           cand[c] # {} => c \in keyed',
           \/ step = "ending"
           \/ step = "relay" /\ pc[c] = "reply"
           \/ /\ step \notin {"dial", "reply", "relay"}
              /\ pc[c] \notin {"dial", "reply", "relay", "ending"}
    PROVE  DialsInv'
  <1>1. /\ cand' = [cand EXCEPT ![c] = cand[c]] /\ far' = [far EXCEPT ![c] = far[c]]
        /\ pc'[c] = step /\ target'[c] = t
    BY DEF PlacesTyped, DialsInv, DialsTyped
  <1>2. DialOf(c)
    BY DEF DialsInv
  <1>3. DialOf(c)'
    BY <1>1, <1>2 DEF DialOf, MayDial
  <1>4. QED
    BY <1>1, <1>3, OneDials

(* The same, with the target as it was.                                       *)
LEMMA StillDials ==
    ASSUME PlacesTyped, DialsInv, NEW c \in Conns, UNCHANGED <<target, cand, far>>,
           fresh' \cap Addrs = {}, NEW step, pc' = [pc EXCEPT ![c] = step],
           keyed' \subseteq Conns, keyed' \ {c} = keyed \ {c}, c \in keyed => c \in keyed',
           step \in Known => c \in keyed',
           c \in keyed' => step \in Known \cup {"ending"},
           step \in {"queue", "lookup"} => target[c] \notin Addrs,
           \/ step = "ending"
           \/ step = "relay" /\ pc[c] = "reply"
           \/ /\ step \notin {"dial", "reply", "relay"}
              /\ pc[c] \notin {"dial", "reply", "relay", "ending"}
    PROVE  DialsInv'
  <1>1. target' = [target EXCEPT ![c] = target[c]]
    BY DEF DialsInv, DialsTyped
  <1>2. DialOf(c)
    BY DEF DialsInv
  <1>3. cand[c] # {} => c \in keyed'
    BY <1>2 DEF DialOf
  <1>4. QED
    BY <1>1, <1>3, QuietDials

(* Before there is a target, and after the service.                           *)
LEMMA EdgesDial ==
    ASSUME PlacesTyped, DialsInv, NEW c \in Conns, Entering(c) \/ Greeting(c) \/ Ending(c)
    PROVE  DialsInv'
  <1> USE DEF Known, Service, Goes
  <1>0. /\ DialOf(c) /\ target = [target EXCEPT ![c] = target[c]]
        /\ keyed \subseteq Conns /\ fresh \cap Addrs = {}
    BY DEF DialsInv, DialsTyped
  <1>1. CASE Entering(c)
    <2>1. /\ UNCHANGED <<keyed, target, cand, far, fresh>>
          /\ pc[c] \in {"new", "counted"}
          /\ \E step \in {"counted", "tls", "closed"} : pc' = [pc EXCEPT ![c] = step]
      BY <1>1 DEF Entering, Accept, ShedByAddress, TakePermit, ShedByCapacity, dns
    <2>2. QED
      BY <1>0, <2>1, StillDials DEF DialOf
  <1>2. CASE \/ TlsDone(c) \/ TlsFails(c) \/ VersionOk(c) \/ VersionBad(c) \/ NoiseFails(c)
             \/ TargetBad(c) \/ PeerIdBad(c)
    <2>1. /\ UNCHANGED <<keyed, target, cand, far, fresh>>
          /\ \/ pc[c] \in {"tls", "version", "noise", "target"} /\ pc' = [pc EXCEPT ![c] = "ending"]
             \/ pc[c] = "tls" /\ pc' = [pc EXCEPT ![c] = "version"]
             \/ pc[c] = "version" /\ pc' = [pc EXCEPT ![c] = "noise"]
      BY <1>2 DEF TlsDone, TlsFails, VersionOk, VersionBad, NoiseFails, TargetBad, PeerIdBad, Refuse, dns
    <2>2. QED
      BY <1>0, <2>1, StillDials DEF DialOf
  <1>3. CASE NoiseOk(c)
    <2>1. /\ keyed' = keyed \cup {c} /\ UNCHANGED <<target, cand, far, fresh>>
          /\ pc[c] = "noise" /\ pc' = [pc EXCEPT ![c] = "target"]
      BY <1>3 DEF NoiseOk, dns
    <2>2. QED
      BY <1>0, <2>1, StillDials DEF DialOf
  <1>4. ASSUME NEW t \in Targets, TargetRead(c, t) PROVE DialsInv'
    <2>1. /\ UNCHANGED <<keyed, cand, far, fresh>>
          /\ pc[c] = "target" /\ target' = [target EXCEPT ![c] = t]
          /\ \E step \in {"signal", "udp", "resolve"} : pc' = [pc EXCEPT ![c] = step]
      BY <1>4 DEF TargetRead, dns
    <2>2. cand[c] = {} /\ c \in keyed
      BY <1>0, <2>1 DEF DialOf
    <2>3. QED
      BY <1>0, <2>1, <2>2, QuietDials
  <1>5. CASE ServiceEnds(c) \/ SignalEnds(c) \/ ReleaseAddress(c)
    <2>1. /\ UNCHANGED <<keyed, target, cand, far, fresh>>
          /\ \/ pc[c] \in Service \cup {"reply"} /\ pc' = [pc EXCEPT ![c] = "ending"]
             \/ pc[c] = "leaving" /\ pc' = [pc EXCEPT ![c] = "closed"]
      BY <1>5 DEF ServiceEnds, SignalEnds, ReleaseAddress, dns
    <2>2. QED
      BY <1>0, <2>1, StillDials DEF DialOf
  <1>6. CASE ReleasePermit(c)
    <2>1. /\ pc' = [pc EXCEPT ![c] = "leaving"] /\ keyed' = keyed \ {c}
          /\ target' = [target EXCEPT ![c] = NoTarget]
          /\ cand' = [cand EXCEPT ![c] = {}] /\ far' = [far EXCEPT ![c] = NoAddr]
          /\ fresh' = fresh
      BY <1>6 DEF ReleasePermit, dns
    <2>2. pc'[c] = "leaving" /\ c \notin keyed' /\ cand'[c] = {} /\ far'[c] = NoAddr
      BY <2>1 DEF PlacesTyped, DialsInv, DialsTyped
    <2>3. DialOf(c)'
      BY <2>2 DEF DialOf
    <2>4. QED
      BY <1>0, <2>1, <2>3, OneDials
  <1>7. QED
    BY <1>1, <1>2, <1>3, <1>4, <1>5, <1>6 DEF Greeting, Ending

(* However the addresses come about, each is looked at before it is a         *)
(* candidate.                                                                 *)
LEMMA ResolvingDials ==
    ASSUME PlacesTyped, DialsInv, NEW c \in Conns, Resolving(c) \/ Dialling(c)
    PROVE  DialsInv'
  <1> USE DEF Known, Service, Goes
  <1>0. /\ DialOf(c) /\ target = [target EXCEPT ![c] = target[c]]
        /\ cand = [cand EXCEPT ![c] = cand[c]] /\ far = [far EXCEPT ![c] = far[c]]
        /\ keyed \subseteq Conns /\ fresh \cap Addrs = {}
    BY DEF DialsInv, DialsTyped
  <1>1. ASSUME UNCHANGED <<keyed, target, far>>, fresh' \cap Addrs = {},
               pc[c] \in {"resolve", "lookup"}, NEW addrs, Candidates(c, addrs),
               target[c] \notin Addrs \/ addrs = {target[c]}
        PROVE  DialsInv'
    <2>1. \A a \in Allowed(addrs) : MayDial(c, a)
      BY <1>1 DEF Allowed, MayDial
    <2>2. PICK step \in {"ending", "dial"} : pc' = [pc EXCEPT ![c] = step]
      BY <1>1 DEF Candidates
    <2>3. /\ pc'[c] = step /\ cand' = [cand EXCEPT ![c] = Allowed(addrs)]
          /\ cand'[c] = Allowed(addrs)
      BY <1>1, <2>2 DEF Candidates, PlacesTyped, DialsInv, DialsTyped
    <2>4. c \in keyed /\ far[c] = NoAddr
      BY <1>0, <1>1 DEF DialOf
    <2>5. DialOf(c)'
      BY <1>1, <2>1, <2>3, <2>4 DEF DialOf, MayDial
    <2>6. target' = [target EXCEPT ![c] = target[c]] /\ far' = [far EXCEPT ![c] = far[c]]
      BY <1>0, <1>1
    <2>7. QED
      BY <1>0, <1>1, <2>2, <2>3, <2>5, <2>6, OneDials
  <1>2. CASE Literal(c)
    BY <1>0, <1>1, <1>2 DEF Literal, dns
  <1>3. ASSUME UNCHANGED <<keyed, target, cand, far>>, fresh' \cap Addrs = {},
               pc[c] \in {"resolve", "queue", "lookup"}, pc' = [pc EXCEPT ![c] = "ending"]
        PROVE  DialsInv'
    <2>1. c \in keyed
      BY <1>0, <1>3 DEF DialOf
    <2>2. QED
      BY <1>0, <1>3, <2>1, StillDials
  <1>4. CASE CacheHit(c)
    <2>1. CASE Cached(target[c]) = {}
      BY <1>0, <1>3, <1>4, <2>1 DEF CacheHit, NoAnswer, dns
    <2>2. CASE Cached(target[c]) # {}
      BY <1>0, <1>1, <1>4, <2>2 DEF CacheHit, dns
    <2>3. QED
      BY <2>1, <2>2
  <1>5. CASE CacheMiss(c) \/ LookupStarts(c)
    <2>1. /\ UNCHANGED <<keyed, target, cand, far, fresh>>
          /\ pc[c] \in {"resolve", "queue"} /\ target[c] \notin Addrs
          /\ \E step \in {"queue", "lookup"} : pc' = [pc EXCEPT ![c] = step]
      BY <1>0, <1>5, NodeAssumption DEF CacheMiss, LookupStarts, dns, DialOf
    <2>2. PICK step \in {"queue", "lookup"} : pc' = [pc EXCEPT ![c] = step]
      BY <2>1
    <2>3. c \in keyed
      BY <1>0, <2>1 DEF DialOf
    <2>4. QED
      BY <1>0, <2>1, <2>2, <2>3, StillDials
  <1>6. CASE QueueTimesOut(c)
    BY <1>0, <1>3, <1>6 DEF QueueTimesOut, NoAnswer, dns
  <1>7. pc[c] = "lookup" /\ (\E addrs : PutCache(target[c], addrs)) => fresh' \cap Addrs = {}
    BY <1>0 DEF PutCache, DialOf
  <1>8. ASSUME NEW addrs \in SUBSET Addrs \ {{}}, LookupAnswers(c, addrs) PROVE DialsInv'
    <2>1. target[c] \notin Addrs /\ fresh' \cap Addrs = {}
      BY <1>0, <1>7, <1>8 DEF LookupAnswers, DialOf
    <2>2. QED
      BY <1>1, <1>8, <2>1 DEF LookupAnswers
  <1>9. CASE LookupFails(c)
    BY <1>3, <1>7, <1>9 DEF LookupFails, NoAnswer
  <1>10. CASE DialConnects(c)
    <2>1. PICK a \in cand[c] : far' = [far EXCEPT ![c] = a]
      BY <1>10 DEF DialConnects
    <2>2. /\ UNCHANGED <<keyed, target, cand, fresh>> /\ pc[c] = "dial"
          /\ pc' = [pc EXCEPT ![c] = "reply"] /\ pc'[c] = "reply" /\ far'[c] = a
      BY <1>10, <2>1 DEF DialConnects, PlacesTyped, DialsInv, DialsTyped, dns
    <2>3. DialOf(c)'
      BY <1>0, <2>1, <2>2 DEF DialOf, MayDial
    <2>4. target' = [target EXCEPT ![c] = target[c]] /\ cand' = [cand EXCEPT ![c] = cand[c]]
      BY <1>0, <2>2
    <2>5. QED
      BY <1>0, <2>1, <2>2, <2>3, <2>4, OneDials
  <1>11. CASE DialFails(c) \/ ReplyOk(c)
    <2>1. /\ UNCHANGED <<keyed, target, cand, far, fresh>>
          /\ \/ pc[c] = "dial" /\ pc' = [pc EXCEPT ![c] = "ending"]
             \/ pc[c] = "reply" /\ pc' = [pc EXCEPT ![c] = "relay"]
      BY <1>11 DEF DialFails, ReplyOk, dns
    <2>2. QED
      BY <1>0, <2>1, StillDials DEF DialOf
  <1>12. QED
    BY <1>2, <1>4, <1>5, <1>6, <1>8, <1>9, <1>10, <1>11 DEF Resolving, Dialling

(* Every step keeps what is known of the dials.                               *)
LEMMA DialsNext == PlacesInv /\ DialsInv /\ [Next]_vars => DialsInv'
  <1> SUFFICES ASSUME PlacesTyped, DialsInv, [Next]_vars PROVE DialsInv'
    BY DEF PlacesInv
  <1>1. ASSUME NEW c \in Conns,
               Entering(c) \/ Greeting(c) \/ Resolving(c) \/ Dialling(c) \/ Ending(c)
        PROVE  DialsInv'
    BY <1>1, EdgesDial, ResolvingDials
  <1>2. CASE UNCHANGED connVars /\ fresh' \subseteq fresh
    BY <1>2 DEF connVars, DialsInv, DialsTyped, DialOf, MayDial
  <1>3. ASSUME NEW n \in Names \cup PeerIds, EntryExpires(n) PROVE DialsInv'
    BY <1>2, <1>3 DEF EntryExpires
  <1>4. QED
    BY <1>1, <1>2, <1>3 DEF Next, vars, nodeVars, dns

(* Whatever the shared cache holds and whoever put it there: an address the   *)
(* filter refuses is never connected, nothing is connected for a peer that    *)
(* has not shown the key, and a relay has its connection.                     *)
THEOREM DialsAreAllowed == Spec => []DialsAllowed
  <1>1. Init => DialsInv
    BY DEF Init, NodeInit, DialsInv, DialsTyped, DialOf, Known, Service
  <1>2. DialsInv => DialsAllowed
    BY DEF DialsInv, DialsAllowed, DialOf, MayDial
  <1>3. QED
    BY <1>1, <1>2, DialsNext, PlacesAreCounted, PTL DEF Spec
-----------------------------------------------------------------------------
(* The signalling registry.                                                   *)
Live == {"read", "forward", "error", "lastError", "leave"}

(* Entries only go, and the owners of those that stay remain as they were.    *)
LEMMA FewerEntries ==
    ASSUME SessionsInv,
           \A p \in PeerIds : peers'[p] \in {peers[p], NoConn},
           \A p \in Registered' : me'[peers[p]] = me[peers[p]] /\ sig'[peers[p]] \in Live
    PROVE  IsFiniteSet(Registered') /\ RegistryOwned'
  <1>1. Registered' \in SUBSET Registered
    BY DEF Registered
  <1>2. IsFiniteSet(Registered) /\ IsFiniteSet(Registered') /\ Cardinality(Registered') <= Cardinality(Registered)
    BY <1>1, FS_Subset DEF SessionsInv
  <1>3. Cardinality(Registered) \in Nat /\ Cardinality(Registered') \in Nat
    BY <1>2, FS_CardinalityType
  <1>4. Cardinality(Registered') <= MaxPeers
    BY <1>2, <1>3, SignalAssumption DEF SessionsInv, RegistryOwned
  <1>5. \A p \in Registered' : me'[peers'[p]] = p /\ sig'[peers'[p]] \in Live
    BY <1>1 DEF Registered, SessionsInv, RegistryOwned
  <1>6. QED
    BY <1>2, <1>4, <1>5 DEF RegistryOwned, Live

(* What the sweep and a conditional removal leave of the registry.            *)
LEMMA SweepRemoves ==
    ASSUME peers \in [PeerIds -> Conns \cup {NoConn}]
    PROVE  /\ Swept \in [PeerIds -> Conns \cup {NoConn}]
           /\ \A p \in PeerIds : Swept[p] \in {peers[p], NoConn}
           /\ \A q, d : /\ Removed(peers, q, d) \in [PeerIds -> Conns \cup {NoConn}]
                        /\ \A p \in PeerIds : Removed(peers, q, d)[p] =
                               IF p = q /\ peers[p] = d THEN NoConn ELSE peers[p]
BY DEF Swept, Removed

(* Types, and that a session goes on while its connection is served.          *)
LEMMA SessionTypes ==
    ASSUME SignalTypeOK, SessionsServed, UNCHANGED pc, SignalStep
    PROVE  SignalTypeOK' /\ SessionsServed'
  <1> USE SignalAssumption DEF SignalTypeOK, SessionsServed, Idle
  <1>1. ASSUME NEW c \in Conns,
               \/ Register(c) \/ RegisterRefused(c) \/ BlankLine(c) \/ BadLine(c) \/ Leave(c)
               \/ ForwardFails(c) \/ \E p \in PeerIds : Address(c, p)
        PROVE  SignalTypeOK' /\ SessionsServed'
    <2>1. me[c] \in PeerIds
      BY <1>1 DEF Register, RegisterRefused, BlankLine, BadLine, Leave, ForwardFails, Address
    <2>2. /\ peers' \in [PeerIds -> Conns \cup {NoConn}]
          /\ active' \subseteq Registered'
      <3>1. \E fresh1 \in SUBSET PeerIds : \E reg \in [PeerIds -> Conns \cup {NoConn}] :
                SwapRegistry(reg, fresh1)
        BY <1>1, <2>1, SweepRemoves
           DEF Register, RegisterRefused, BlankLine, BadLine, Leave, ForwardFails, Address, Registered
      <3>2. QED
        BY <3>1 DEF SwapRegistry, Registered
    <2>3. sending' \in [Conns -> Forwards]
      BY <1>1, SweepRemoves DEF Register, RegisterRefused, BlankLine, BadLine, Leave, ForwardFails,
            Address, Forwards, Nothing
    <2>4. /\ UNCHANGED <<me, downlink, writing>>
          /\ \E s \in Live \cup {"drain"} : sig' = [sig EXCEPT ![c] = s]
          /\ sig[c] \in Live
      BY <1>1 DEF Register, RegisterRefused, BlankLine, BadLine, Leave, ForwardFails, Address, Live
    <2>5. QED
      BY <2>2, <2>3, <2>4 DEF Live
  <1>2. ASSUME NEW c \in Conns, ForwardOk(c) PROVE SignalTypeOK' /\ SessionsServed'
    BY <1>2 DEF ForwardOk, Nothing, Forwards, Registered
  <1>3. ASSUME NEW c \in Conns, SendError(c) PROVE SignalTypeOK' /\ SessionsServed'
    BY <1>3 DEF SendError, Registered
  <1>4. ASSUME NEW c \in Conns, ReadEnds(c) PROVE SignalTypeOK' /\ SessionsServed'
    BY <1>4 DEF ReadEnds, Registered
  <1>5. ASSUME NEW c \in Conns, WriteLine(c) \/ WriterFails(c) PROVE SignalTypeOK' /\ SessionsServed'
    BY <1>5 DEF WriteLine, WriterFails, Registered
  <1>6. ASSUME NEW p \in PeerIds, EntryAges(p) PROVE SignalTypeOK' /\ SessionsServed'
    BY <1>6 DEF EntryAges, Registered
  <1>7. QED
    BY <1>1, <1>2, <1>3, <1>4, <1>5, <1>6 DEF SignalStep, SessionStep

(* The owner of an entry names it, and is the only connection that can.       *)
LEMMA SessionEntries ==
    ASSUME SessionsInv, SignalStep
    PROVE  IsFiniteSet(Registered') /\ RegistryOwned'
  <1>0. /\ peers \in [PeerIds -> Conns \cup {NoConn}] /\ sig \in [Conns -> Live \cup {"none", "drain", "ended"}]
        /\ \A p \in Registered : peers[p] \in Conns /\ me[peers[p]] = p /\ sig[peers[p]] \in Live
    BY SignalAssumption DEF SessionsInv, SignalTypeOK, RegistryOwned, Registered, Live
  <1>1. ASSUME NEW c \in Conns,
               \/ RegisterRefused(c) \/ BlankLine(c) \/ BadLine(c) \/ ForwardFails(c)
               \/ \E p \in PeerIds : Address(c, p)
        PROVE  IsFiniteSet(Registered') /\ RegistryOwned'
    <2>1. \A p \in PeerIds : peers'[p] \in {peers[p], NoConn}
      BY <1>0, <1>1, SweepRemoves
         DEF RegisterRefused, BlankLine, BadLine, ForwardFails, Address, SwapRegistry
    <2>2. me' = me /\ \E s \in Live : sig' = [sig EXCEPT ![c] = s]
      <3>1. me' = me
        BY <1>1 DEF RegisterRefused, BlankLine, BadLine, ForwardFails, Address
      <3>2. CASE BlankLine(c)
        <4>1. sig' = [sig EXCEPT ![c] = sig[c]] /\ sig[c] \in Live
          BY <1>0, <3>2 DEF BlankLine, Live
        <4>2. QED
          BY <3>1, <4>1
      <3>3. CASE RegisterRefused(c) \/ BadLine(c) \/ ForwardFails(c) \/ \E p \in PeerIds : Address(c, p)
        <4>1. \E s \in Live : sig' = [sig EXCEPT ![c] = s]
          BY <3>3 DEF RegisterRefused, BadLine, ForwardFails, Address, Live
        <4>2. QED
          BY <3>1, <4>1
      <3>4. QED
        BY <1>1, <3>2, <3>3
    <2>3. \A p \in Registered' : p \in Registered
      BY <2>1 DEF Registered
    <2>4. QED
      BY <1>0, <2>1, <2>2, <2>3, FewerEntries
  <1>2. ASSUME NEW c \in Conns, ForwardOk(c) \/ SendError(c) \/ ReadEnds(c)
        PROVE  IsFiniteSet(Registered') /\ RegistryOwned'
    <2>1. /\ peers' = peers /\ me' = me
          /\ \E s \in Live : sig' = [sig EXCEPT ![c] = s]
      BY <1>0, <1>2 DEF ForwardOk, SendError, ReadEnds, Live
    <2>2. Registered' = Registered
      BY <2>1 DEF Registered
    <2>3. QED
      BY <1>0, <2>1, <2>2, FewerEntries
  <1>3. ASSUME NEW c \in Conns, Leave(c) PROVE IsFiniteSet(Registered') /\ RegistryOwned'
    <2>1. \A p \in PeerIds : peers'[p] = IF p = me[c] /\ peers[p] = c THEN NoConn ELSE peers[p]
      BY <1>0, <1>3, SweepRemoves DEF Leave, SwapRegistry
    <2>2. \A p \in Registered' : p \in Registered /\ peers[p] # c
      BY <1>0, <2>1 DEF Registered
    <2>3. me' = me /\ \A d \in Conns \ {c} : sig'[d] = sig[d]
      BY <1>0, <1>3 DEF Leave
    <2>4. QED
      BY <1>0, <2>1, <2>2, <2>3, FewerEntries
  <1>4. ASSUME NEW c \in Conns, Register(c) PROVE IsFiniteSet(Registered') /\ RegistryOwned'
    <2> DEFINE kept == {p \in PeerIds : Swept[p] # NoConn}
    <2>1. me[c] \in PeerIds /\ sig[c] = "read" /\ sig' = sig /\ me' = me
      BY <1>4 DEF Register, SessionsInv, SessionsServed, Idle
    <2>2. peers' = [Swept EXCEPT ![me[c]] = c]
      BY <1>4 DEF Register, SwapRegistry
    <2>3. \A p \in PeerIds : peers'[p] = IF p = me[c] THEN c ELSE Swept[p]
      BY <1>0, <2>1, <2>2, SweepRemoves
    <2>4. kept \in SUBSET Registered
      BY <1>0, SweepRemoves DEF Registered
    <2>5. Registered' = kept \cup {me[c]}
      BY <2>1, <2>3, SignalAssumption DEF Registered
    <2>6. /\ IsFiniteSet(Registered) /\ IsFiniteSet(kept) /\ IsFiniteSet(Registered')
          /\ Cardinality(kept) <= Cardinality(Registered)
          /\ Cardinality(Registered') = IF me[c] \in kept THEN Cardinality(kept) ELSE Cardinality(kept) + 1
      BY <2>4, <2>5, FS_Subset, FS_AddElement DEF SessionsInv
    <2>7. Cardinality(kept) \in Nat /\ Cardinality(Registered) \in Nat
      BY <2>6, FS_CardinalityType
    <2>8. Cardinality(Registered) <= MaxPeers /\ (me[c] \in kept \/ Cardinality(kept) < MaxPeers)
      BY <1>4, <2>1 DEF Register, SessionsInv, RegistryOwned
    <2>9. Cardinality(Registered') <= MaxPeers
      BY <2>6, <2>7, <2>8, SignalAssumption
    <2>10. \A p \in Registered' : me'[peers'[p]] = p /\ sig'[peers'[p]] \in Live
      BY <1>0, <2>1, <2>3, <2>4, <2>5, SweepRemoves DEF Live
    <2>11. QED
      BY <2>6, <2>9, <2>10 DEF RegistryOwned, Live
  <1>5. CASE UNCHANGED <<peers, me, sig>>
    BY <1>5 DEF SessionsInv, RegistryOwned, Registered
  <1>6. QED
    BY <1>1, <1>2, <1>3, <1>4, <1>5
       DEF SignalStep, SessionStep, WriteLine, WriterFails, EntryAges

(* A session starts on a connection that owns no entry, and ends on one that  *)
(* has given its entry back.                                                  *)
LEMMA SessionEnds ==
    ASSUME PlacesTyped, SessionsInv, NEW c \in Conns,
           \/ SignalEnds(c)
           \/ \E t \in PeerIds : StartSession(c, t) /\ pc[c] = "target" /\ pc' = [pc EXCEPT ![c] = "signal"]
    PROVE  SessionsInv'
  <1>1. /\ peers' = peers /\ active' = active
        /\ sig[c] \notin Live
        /\ \A d \in Conns \ {c} : sig'[d] = sig[d] /\ me'[d] = me[d]
    BY DEF SignalEnds, EndSession, StartSession, SessionsInv, SignalTypeOK, SessionsServed, Idle, Live
  <1>2. \A p \in Registered : peers[p] \in Conns \ {c} /\ sig[peers[p]] \in Live
    BY <1>1, SignalAssumption DEF SessionsInv, SignalTypeOK, RegistryOwned, Registered, Live
  <1>3. Registered' = Registered
    BY <1>1 DEF Registered
  <1>4. IsFiniteSet(Registered') /\ RegistryOwned'
    BY <1>1, <1>2, <1>3, FewerEntries
  <1>5. SignalTypeOK'
    BY <1>3, SignalAssumption DEF SignalEnds, EndSession, StartSession, SessionsInv, SignalTypeOK
  <1>6. SessionsServed'
    BY DEF SignalEnds, EndSession, StartSession, SessionsInv, SignalTypeOK, SessionsServed,
           PlacesTyped, Idle, Goes
  <1>7. QED
    BY <1>4, <1>5, <1>6 DEF SessionsInv

LEMMA SessionsNext == PlacesInv /\ SessionsInv /\ [Next]_vars => SessionsInv'
  <1> SUFFICES ASSUME PlacesTyped, SessionsInv, [Next]_vars PROVE SessionsInv'
    BY DEF PlacesInv
  <1>1. CASE SignalStep /\ UNCHANGED nodeVars
    BY <1>1, SessionTypes, SessionEntries DEF SessionsInv, nodeVars, connVars
  <1>2. ASSUME UNCHANGED signalVars,
               \A c \in Conns : pc'[c] = "signal" <=> pc[c] = "signal"
        PROVE  SessionsInv'
    BY <1>2 DEF signalVars, SessionsInv, SignalTypeOK, SessionsServed, RegistryOwned, Registered
  <1>3. ASSUME NEW c \in Conns, SignalEnds(c) PROVE SessionsInv'
    BY <1>3, SessionEnds
  <1>4. ASSUME NEW c \in Conns, NEW t \in Targets, TargetRead(c, t) PROVE SessionsInv'
    <2>1. CASE t \in PeerIds /\ conf.p2p
      BY <1>4, <2>1, SessionEnds, NodeAssumption DEF TargetRead, Goes
    <2>2. CASE ~(t \in PeerIds /\ conf.p2p)
      <3>1. pc[c] = "target" /\ \E step \in {"udp", "resolve"} : pc' = [pc EXCEPT ![c] = step]
        BY <1>4, <2>2 DEF TargetRead, Goes
      <3>2. UNCHANGED signalVars
        BY <1>4, <2>2 DEF TargetRead
      <3>3. QED
        BY <1>2, <3>1, <3>2 DEF PlacesTyped
    <2>3. QED
      BY <2>1, <2>2
  <1>5. ASSUME NEW c \in Conns,
               \/ Entering(c) \/ Resolving(c) \/ Dialling(c)
               \/ ServiceEnds(c) \/ ReleasePermit(c) \/ ReleaseAddress(c)
               \/ TlsDone(c) \/ TlsFails(c) \/ VersionOk(c) \/ VersionBad(c) \/ NoiseOk(c)
               \/ NoiseFails(c) \/ TargetBad(c) \/ PeerIdBad(c)
        PROVE  SessionsInv'
    <2>1. /\ UNCHANGED signalVars
          /\ pc[c] # "signal"
          /\ \E step \in Steps \ {"signal"} : pc' = [pc EXCEPT ![c] = step]
      <3> USE DEF Steps, Inside, Setup, Service, Goes
      <3>1. CASE Entering(c) \/ ServiceEnds(c) \/ ReleasePermit(c) \/ ReleaseAddress(c)
        BY <3>1 DEF Entering, Accept, ShedByAddress, TakePermit, ShedByCapacity, ServiceEnds,
                    ReleasePermit, ReleaseAddress
      <3>2. CASE Resolving(c) \/ Dialling(c)
        BY <3>2 DEF Resolving, Literal, CacheHit, CacheMiss, LookupStarts, QueueTimesOut,
                    LookupAnswers, LookupFails, Candidates, NoAnswer, Dialling, DialConnects,
                    DialFails, ReplyOk
      <3>3. CASE \/ TlsDone(c) \/ TlsFails(c) \/ VersionOk(c) \/ VersionBad(c) \/ NoiseOk(c)
                 \/ NoiseFails(c) \/ TargetBad(c) \/ PeerIdBad(c)
        BY <3>3 DEF TlsDone, TlsFails, VersionOk, VersionBad, NoiseOk, NoiseFails, TargetBad,
                    PeerIdBad, Refuse
      <3>4. QED
        BY <1>5, <3>1, <3>2, <3>3
    <2>2. QED
      BY <1>2, <2>1 DEF PlacesTyped
  <1>6. ASSUME NEW n \in Names \cup PeerIds, EntryExpires(n) PROVE SessionsInv'
    BY <1>2, <1>6 DEF EntryExpires, connVars
  <1>7. CASE UNCHANGED vars
    BY <1>2, <1>7 DEF vars, nodeVars, connVars
  <1>8. QED
    BY <1>1, <1>3, <1>4, <1>5, <1>6, <1>7 DEF Next, Ending, Greeting

(* Nobody is registered when the node starts.                                 *)
LEMMA SessionsAtStart == Init => SessionsInv
  <1> SUFFICES ASSUME Init PROVE SessionsInv
    OBVIOUS
  <1> USE SignalAssumption DEF Init, NodeInit, SignalInit
  <1>1. Registered = {}
    BY DEF Registered
  <1>2. SignalTypeOK
    BY <1>1 DEF SignalTypeOK, Nothing, Forwards
  <1>3. SessionsServed
    BY DEF SessionsServed, Idle
  <1>4. IsFiniteSet(Registered) /\ RegistryOwned
    BY <1>1, FS_EmptySet DEF RegistryOwned
  <1>5. QED
    BY <1>2, <1>3, <1>4 DEF SessionsInv

(* An entry is of a session that has not left, and the table of peers keeps   *)
(* its bound, whatever sessions replace, age and fail.                        *)
THEOREM EntriesAreOwned == Spec => []RegistryOwned
  <1>1. Init => SessionsInv
    BY SessionsAtStart
  <1>2. SessionsInv => RegistryOwned
    BY DEF SessionsInv
  <1>3. QED
    BY <1>1, <1>2, SessionsNext, PlacesAreCounted, PTL DEF Spec

(* Why an entry that is not too old may go.                                   *)
EntryGoes(p) ==
    \/ sig[peers[p]] = "leave" /\ sig'[peers[p]] = "drain"
    \/ \E c \in Conns : /\ sending[c] = [to |-> p, into |-> peers[p]]
                       /\ sig[c] = "forward" /\ sig'[c] = "error"

(* The sweep leaves a fresh entry alone, and a conditional removal takes the  *)
(* entry of the queue it was asked to remove.                                 *)
LEMMA OnlyOwnEntry ==
    ASSUME SessionsInv, SignalStep, NEW p \in active, peers'[p] = NoConn
    PROVE  EntryGoes(p)
  <1>0. /\ peers \in [PeerIds -> Conns \cup {NoConn}] /\ sig \in [Conns -> Live \cup {"none", "drain", "ended"}]
        /\ p \in PeerIds /\ peers[p] \in Conns /\ peers[p] # NoConn /\ Swept[p] = peers[p]
        /\ sending \in [Conns -> Forwards]
    BY SignalAssumption DEF SessionsInv, SignalTypeOK, Registered, Live, Swept
  <1>1. ASSUME NEW c \in Conns, ForwardFails(c) PROVE EntryGoes(p)
    <2>1. /\ sig[c] = "forward" /\ sig' = [sig EXCEPT ![c] = "error"]
          /\ peers' = Removed(peers, sending[c].to, sending[c].into)
      BY <1>1 DEF ForwardFails, SwapRegistry
    <2>2. sending[c].to = p /\ sending[c].into = peers[p]
      BY <1>0, <2>1 DEF Removed
    <2>3. sending[c] = [to |-> p, into |-> peers[p]]
      BY <1>0, <2>2 DEF Forwards
    <2>4. sig'[c] = "error"
      BY <1>0, <2>1
    <2>5. QED
      BY <2>1, <2>3, <2>4 DEF EntryGoes
  <1>2. ASSUME NEW c \in Conns, Leave(c) PROVE EntryGoes(p)
    <2>1. /\ sig[c] = "leave" /\ sig' = [sig EXCEPT ![c] = "drain"]
          /\ peers' = Removed(peers, me[c], c)
      BY <1>2 DEF Leave, SwapRegistry
    <2>2. peers[p] = c /\ sig'[c] = "drain"
      BY <1>0, <2>1 DEF Removed
    <2>3. QED
      BY <2>1, <2>2 DEF EntryGoes
  <1>3. ASSUME NEW c \in Conns,
               \/ Register(c) \/ RegisterRefused(c) \/ BlankLine(c) \/ BadLine(c)
               \/ \E q \in PeerIds : Address(c, q)
        PROVE  peers'[p] # NoConn
    <2>1. CASE Register(c)
      <3>1. peers' = [Swept EXCEPT ![me[c]] = c]
        BY <2>1 DEF Register, SwapRegistry
      <3>2. QED
        BY <1>0, <3>1, SignalAssumption DEF Swept
    <2>2. CASE ~Register(c)
      BY <1>0, <1>3, <2>2 DEF RegisterRefused, BlankLine, BadLine, Address, SwapRegistry
    <2>3. QED
      BY <2>1, <2>2
  <1>4. CASE peers' = peers
    BY <1>0, <1>4
  <1>5. QED
    BY <1>1, <1>2, <1>3, <1>4
       DEF SignalStep, SessionStep, WriteLine, WriterFails, EntryAges, ForwardOk, SendError, ReadEnds

(* A registration outlives the clean-up of the session it replaced and every  *)
(* forward that fails on another queue.                                       *)
THEOREM RegistrationsAreKept == Spec => EntryKept
  <1>1. Init => SessionsInv
    BY SessionsAtStart
  <1>2. SessionsInv /\ [Next]_vars =>
            [\A p \in active : peers'[p] = NoConn =>
                \/ sig[peers[p]] = "leave" /\ sig'[peers[p]] = "drain"
                \/ \E c \in Conns : /\ sending[c] = [to |-> p, into |-> peers[p]]
                                   /\ sig[c] = "forward" /\ sig'[c] = "error"]_signalVars
    <2> SUFFICES ASSUME SessionsInv, [Next]_vars, NEW p \in active, peers'[p] = NoConn
                 PROVE  EntryGoes(p)
      BY DEF EntryGoes
    <2>1. peers[p] # NoConn
      BY DEF SessionsInv, SignalTypeOK, Registered
    <2>2. CASE SignalStep
      BY <2>2, OnlyOwnEntry
    <2>3. CASE peers' = peers
      BY <2>1, <2>3
    <2>4. QED
      <3>1. ASSUME NEW c \in Conns,
                   Entering(c) \/ Greeting(c) \/ Resolving(c) \/ Dialling(c) \/ Ending(c)
            PROVE  peers' = peers
        BY <3>1 DEF Entering, Accept, ShedByAddress, TakePermit, ShedByCapacity, Greeting, TlsDone,
               TlsFails, VersionOk, VersionBad, NoiseOk, NoiseFails, TargetBad, PeerIdBad, TargetRead,
               StartSession, Resolving, Literal, CacheHit, CacheMiss, LookupStarts, QueueTimesOut,
               LookupAnswers, LookupFails, Dialling, DialConnects, DialFails, ReplyOk, Ending,
               ServiceEnds, SignalEnds, EndSession, ReleasePermit, ReleaseAddress, signalVars
      <3>2. QED
        BY <2>2, <2>3, <3>1 DEF Next, EntryExpires, vars, signalVars
  <1>3. QED
    BY <1>1, <1>2, SessionsNext, PlacesAreCounted, PTL DEF Spec, EntryKept
=============================================================================
