------------------------------ MODULE TunProofs ------------------------------
(* Theorems about TUN mode.  The kinds of traffic share nothing, so each has  *)
(* an invariant of its own: the routes and what is left to undo of them, the  *)
(* addresses mounted on the interface, the sessions of datagrams sent out     *)
(* directly, the connections, and the rules that were read.  The first part   *)
(* proves what Only returns, by induction: a set of numbers that is not empty *)
(* has a least element.                                                       *)
EXTENDS Tun, FiniteSetTheorems, SequenceTheorems, WellFoundedInduction, TLAPS

(* No element occurs twice.                                                   *)
Distinct(s) == \A i, j \in 1..Len(s) : s[i] = s[j] => i = j

(* A set of numbers that is not empty has a least element: among the sets of  *)
(* its elements up to one of them, a minimal one.                             *)
LEMMA LeastNat ==
  ASSUME NEW S \in SUBSET Nat, S # {} PROVE \E n \in S : \A m \in S : n <= m
<1> DEFINE upto(n) == {m \in S : m <= n}
           C == {upto(n) : n \in S}
<1>1. \A n \in S : IsFiniteSet(upto(n))
  BY FS_BoundedSetOfNaturals
<1>2. C \subseteq FiniteSubsetsOf(S) /\ C # {}
  BY <1>1 DEF FiniteSubsetsOf
<1>3. PICK U \in C : \A V \in C : ~ (<<V, U>> \in StrictSubsetOrdering(S))
  <2> HIDE DEF C
  <2> QED BY <1>2, WFMin, FS_StrictSubsetOrderingWellFounded
<1>4. PICK n \in S : U = upto(n)
  OBVIOUS
<1>5. ASSUME NEW m \in S, m < n PROVE FALSE
  <2>1. upto(m) \in C
    OBVIOUS
  <2>2. upto(m) \subseteq upto(n) /\ n \in upto(n) /\ n \notin upto(m)
    <3>1. m \in Nat /\ n \in Nat /\ m < n /\ S \subseteq Nat
      BY <1>5
    <3>2. \A k \in S : k <= m => k <= n
      BY <3>1
    <3>3. n <= n /\ ~(n <= m)
      BY <3>1
    <3> QED BY <3>2, <3>3
  <2>3. <<upto(m), U>> \in StrictSubsetOrdering(S)
    BY <2>2, <1>4 DEF StrictSubsetOrdering
  <2> QED BY <2>1, <2>3, <1>3
<1> QED BY <1>5

(* Induction, for a set of numbers.                                           *)
LEMMA Induct ==
  ASSUME NEW S \in SUBSET Nat, 0 \in S, \A n \in S : n + 1 \in S PROVE S = Nat
<1>1. SUFFICES ASSUME Nat \ S # {} PROVE FALSE
  OBVIOUS
<1>2. PICK n \in Nat \ S : \A m \in Nat \ S : n <= m
  BY <1>1, LeastNat
<1>3. n # 0 /\ n - 1 \in Nat /\ n - 1 \in S
  BY <1>2
<1>4. n - 1 + 1 \in S
  BY <1>3
<1> QED BY <1>2, <1>4

(* What Append adds to the elements of a sequence.                            *)
LEMMA AppendFacts ==
  ASSUME NEW T, NEW q \in Seq(T), NEW e \in T
  PROVE  /\ Append(q, e) \in Seq(T) /\ Len(Append(q, e)) = Len(q) + 1
         /\ \A x : (\E i \in 1..Len(Append(q, e)) : Append(q, e)[i] = x)
                    <=> (x = e \/ \E i \in 1..Len(q) : q[i] = x)
         /\ (Distinct(q) /\ (\A i \in 1..Len(q) : q[i] # e)) => Distinct(Append(q, e))
<1> DEFINE g == Append(q, e)
           n == Len(q)
<1>1. /\ n \in Nat
      /\ g \in Seq(T) /\ Len(g) = n + 1 /\ g[n + 1] = e
      /\ \A i \in 1..n : g[i] = q[i]
  OBVIOUS
<1> HIDE DEF g, n
<1>2. 1..(n + 1) = 1..n \cup {n + 1} /\ n + 1 \notin 1..n
  BY <1>1
<1>3. \A x : (\E i \in 1..(n + 1) : g[i] = x) <=> (x = e \/ \E i \in 1..n : q[i] = x)
  BY <1>1, <1>2
<1>4. ASSUME Distinct(q), \A i \in 1..n : q[i] # e PROVE Distinct(g)
  <2>1. \A i, j \in 1..n : q[i] = q[j] => i = j
    BY <1>4 DEF Distinct, n
  <2>2. ASSUME NEW i \in 1..(n + 1), NEW j \in 1..(n + 1), g[i] = g[j] PROVE i = j
    BY <2>1, <2>2, <1>1, <1>2, <1>4
  <2> QED BY <2>2, <1>1 DEF Distinct
<1> QED BY <1>1, <1>3, <1>4 DEF g, n

(* F builds Only(p, S) from the front of p.                                   *)
Builds(F, p, S) ==
    /\ F[0] = <<>> /\ Only(p, S) = F[Len(p)]
    /\ \A i \in 1..Len(p) : F[i] = IF p[i] \in S THEN Append(F[i - 1], p[i]) ELSE F[i - 1]

(* The recursion of Only has a solution, so that Only satisfies it.           *)
LEMMA OnlyStep ==
  ASSUME NEW T, NEW p \in Seq(T), NEW S
  PROVE  \E F \in [0..Len(p) -> Seq(T)] : Builds(F, p, S)
<1> DEFINE next(q, i) == IF p[i] \in S THEN Append(q, p[i]) ELSE q
           Good(F, n) == F[0] = <<>> /\ \A i \in 1..n : F[i] = next(F[i - 1], i)
           R == {n \in Nat : n <= Len(p) => \E F \in [0..n -> Seq(T)] : Good(F, n)}
           Eq(F) == F = [i \in 0..Len(p) |-> IF i = 0 THEN <<>> ELSE next(F[i - 1], i)]
<1>0. Len(p) \in Nat /\ \A i \in 1..Len(p) : p[i] \in T
  OBVIOUS
<1>1. 0 \in R
  <2>1. [i \in 0..0 |-> <<>>] \in [0..0 -> Seq(T)] /\ Good([i \in 0..0 |-> <<>>], 0)
    OBVIOUS
  <2> QED BY <2>1
<1>2. ASSUME NEW n \in R, n + 1 <= Len(p) PROVE \E G \in [0..(n+1) -> Seq(T)] : Good(G, n+1)
  <2>1. PICK F \in [0..n -> Seq(T)] : Good(F, n)
    <3>1. n \in Nat /\ n <= Len(p)
      BY <1>2, <1>0
    <3> HIDE DEF Good
    <3> QED BY <3>1
  <2> DEFINE G == [i \in 0..(n+1) |-> IF i = n+1 THEN next(F[n], n+1) ELSE F[i]]
  <2>2. F[n] \in Seq(T) /\ p[n+1] \in T
    BY <1>0, <1>2
  <2>3. next(F[n], n+1) \in Seq(T)
    BY <2>2
  <2>4. G \in [0..(n+1) -> Seq(T)]
    BY <2>3
  <2>5. Good(G, n+1)
    <3>1. n \in Nat
      OBVIOUS
    <3>2. G[0] = <<>>
      BY <3>1, <2>1
    <3>3. ASSUME NEW i \in 1..(n+1) PROVE G[i] = next(G[i - 1], i)
      <4>1. CASE i = n + 1
        <5>1. G[i] = next(F[n], n+1) /\ G[i - 1] = F[n]
          BY <3>1, <4>1
        <5> QED BY <5>1, <4>1
      <4>2. CASE i # n + 1
        <5>1. G[i] = F[i] /\ G[i - 1] = F[i - 1] /\ i \in 1..n
          BY <3>1, <4>2
        <5> QED BY <5>1, <2>1
      <4> QED BY <4>1, <4>2
    <3> HIDE DEF G
    <3> QED BY <3>2, <3>3
  <2> QED BY <2>4, <2>5
<1>3. R = Nat
  <2> HIDE DEF Good
  <2>1. \A n \in R : n + 1 \in R
    BY <1>2
  <2> HIDE DEF R
  <2> QED BY <2>1, <1>1, Induct DEF R
<1>4. PICK F \in [0..Len(p) -> Seq(T)] : Good(F, Len(p))
  <2>1. Len(p) \in R
    <3> HIDE DEF R
    <3> QED BY <1>3, <1>0
  <2>2. Len(p) <= Len(p)
    BY <1>0
  <2> HIDE DEF Good
  <2> QED BY <2>1, <2>2
<1>5. Eq(F)
  <2>1. F = [i \in 0..Len(p) |-> F[i]]
    OBVIOUS
  <2>2. ASSUME NEW i \in 0..Len(p) PROVE F[i] = IF i = 0 THEN <<>> ELSE next(F[i - 1], i)
    <3>1. i = 0 \/ i \in 1..Len(p)
      BY <1>0
    <3> HIDE DEF next
    <3> QED BY <3>1, <1>4
  <2> HIDE DEF next
  <2> QED BY <2>1, <2>2
<1>6. Eq(CHOOSE H : Eq(H))
  <2> HIDE DEF Eq
  <2> QED BY <1>5
<1> DEFINE K == CHOOSE H : Eq(H)
<1>7. Only(p, S) = K[Len(p)]
  BY DEF Only
<1>8. DOMAIN K = 0..Len(p) /\ Good(K, Len(p)) /\ K = [i \in 0..Len(p) |-> K[i]]
  <2>1. Eq(K)
    BY <1>6
  <2> HIDE DEF K, next
  <2>2. K = [i \in 0..Len(p) |-> IF i = 0 THEN <<>> ELSE next(K[i - 1], i)]
    BY <2>1
  <2>3. K[0] = <<>> /\ \A i \in 1..Len(p) : K[i] = next(K[i - 1], i)
    BY <2>2, <1>0
  <2> QED BY <2>2, <2>3
<1>9. K \in [0..Len(p) -> Seq(T)]
  <2> DEFINE Q == {n \in Nat : n <= Len(p) => K[n] \in Seq(T)}
  <2> HIDE DEF K
  <2>1. 0 \in Q
    <3>1. K[0] \in Seq(T)
      <4>1. K[0] = <<>> /\ <<>> \in Seq(T)
        BY <1>8
      <4> QED BY <4>1
    <3> QED BY <3>1
  <2>2. ASSUME NEW n \in Q PROVE n + 1 \in Q
    <3> SUFFICES ASSUME n + 1 <= Len(p) PROVE K[n+1] \in Seq(T)
      OBVIOUS
    <3>1. K[n] \in Seq(T) /\ p[n+1] \in T /\ n + 1 \in 1..Len(p)
      BY <1>0
    <3>2. K[n+1] = next(K[n], n+1)
      <4> HIDE DEF next
      <4>1. \A i \in 1..Len(p) : K[i] = next(K[i - 1], i)
        BY <1>8
      <4>2. K[n+1] = next(K[n + 1 - 1], n+1)
        BY <4>1, <3>1
      <4>3. n + 1 - 1 = n
        OBVIOUS
      <4> QED BY <4>2, <4>3
    <3> QED BY <3>1, <3>2
  <2>3. Q = Nat
    <3> HIDE DEF Q
    <3> QED BY <2>1, <2>2, Induct DEF Q
  <2>4. \A n \in 0..Len(p) : K[n] \in Seq(T)
    BY <2>3, <1>0
  <2> QED BY <2>4, <1>8
<1> QED
  <2> HIDE DEF K
  <2> QED BY <1>7, <1>8, <1>9 DEF Builds

(* Only(p, S) has the elements of p that are in S, and repeats none that p    *)
(* does not repeat.                                                           *)
LEMMA OnlyFacts ==
  ASSUME NEW T, NEW p \in Seq(T), NEW S
  PROVE  /\ Only(p, S) \in Seq(T)
         /\ ToSet(Only(p, S)) = ToSet(p) \cap S
         /\ Len(Only(p, S)) <= Len(p)
         /\ Distinct(p) => Distinct(Only(p, S))
<1>p. PICK F \in [0..Len(p) -> Seq(T)] : Builds(F, p, S)
  BY OnlyStep
<1>1. /\ F[0] = <<>> /\ Only(p, S) = F[Len(p)]
      /\ \A i \in 1..Len(p) : F[i] = IF p[i] \in S THEN Append(F[i - 1], p[i]) ELSE F[i - 1]
  BY <1>p DEF Builds
<1>0. Len(p) \in Nat
  OBVIOUS
<1> DEFINE Same(n) == \A x : (\E i \in 1..Len(F[n]) : F[n][i] = x)
                              <=> x \in S /\ \E i \in 1..n : p[i] = x
           Inv(n) == /\ F[n] \in Seq(T) /\ Same(n) /\ Len(F[n]) <= n
                     /\ Distinct(p) => Distinct(F[n])
           Q == {n \in Nat : n <= Len(p) => Inv(n)}
<1>2. 0 \in Q
  <2>1. F[0] = <<>> /\ F[0] \in Seq(T) /\ Len(F[0]) = 0
    BY <1>1
  <2>2. Same(0)
    BY <2>1
  <2>3. Distinct(F[0])
    BY <2>1 DEF Distinct
  <2> HIDE DEF Same
  <2> QED BY <2>1, <2>2, <2>3
<1>3. ASSUME NEW n \in Q, n + 1 <= Len(p) PROVE Inv(n + 1)
  <2>1. n \in Nat /\ n + 1 \in 1..Len(p) /\ n + 1 - 1 = n /\ n <= Len(p)
    BY <1>3, <1>0
  <2>2. Inv(n)
    <3> HIDE DEF Inv
    <3> QED BY <2>1
  <2>3. F[n + 1] = IF p[n + 1] \in S THEN Append(F[n], p[n + 1]) ELSE F[n]
    BY <1>1, <2>1
  <2> DEFINE e == p[n + 1]
             q == F[n]
  <2>4. e \in T /\ q \in Seq(T) /\ Len(q) \in Nat
    BY <2>1, <2>2
  <2>5. \A x : (\E i \in 1..(n + 1) : p[i] = x) <=> (x = e \/ \E i \in 1..n : p[i] = x)
    BY <2>1
  <2>6. CASE e \in S
    <3> DEFINE g == Append(q, e)
    <3>1. g \in Seq(T) /\ Len(g) = Len(q) + 1
      BY <2>4, AppendFacts
    <3>3. \A x : (\E i \in 1..Len(g) : g[i] = x) <=> (x = e \/ \E i \in 1..Len(q) : q[i] = x)
      <4>1. q \in Seq(T) /\ e \in T
        BY <2>4
      <4> HIDE DEF q, e
      <4> QED BY <4>1, AppendFacts
    <3>2. F[n + 1] = g
      BY <2>3, <2>6
    <3> HIDE DEF g
    <3>4. Same(n + 1)
      BY <3>3, <3>2, <2>5, <2>6, <2>2
    <3>5. ASSUME Distinct(p) PROVE Distinct(g)
      <4>1. \A i \in 1..Len(q) : q[i] # e
        <5>1. \A i \in 1..n : p[i] # e
          BY <3>5, <2>1 DEF Distinct
        <5> QED BY <5>1, <2>2
      <4>2. Distinct(q)
        BY <2>2, <3>5
      <4> HIDE DEF q, e
      <4> QED BY <4>1, <4>2, <2>4, AppendFacts DEF g
    <3> HIDE DEF Same
    <3> QED BY <3>1, <3>2, <3>4, <3>5, <2>2, <2>1
  <2>7. CASE e \notin S
    <3>1. F[n + 1] = q
      BY <2>3, <2>7
    <3>2. Same(n + 1)
      BY <3>1, <2>5, <2>7, <2>2
    <3> HIDE DEF Same
    <3> QED BY <3>1, <3>2, <2>2, <2>1
  <2> QED BY <2>6, <2>7
<1>4. Q = Nat
  <2> HIDE DEF Inv
  <2>1. \A n \in Q : n + 1 \in Q
    BY <1>3
  <2> HIDE DEF Q
  <2> QED BY <2>1, <1>2, Induct DEF Q
<1>5. Inv(Len(p))
  <2> HIDE DEF Inv
  <2> QED BY <1>4, <1>0
<1>6. Only(p, S) = F[Len(p)]
  BY <1>1
<1> HIDE DEF Same
<1>7. /\ Only(p, S) \in Seq(T) /\ Len(Only(p, S)) <= Len(p)
      /\ Distinct(p) => Distinct(Only(p, S))
  BY <1>5, <1>6
<1>8. \A x : (\E i \in 1..Len(Only(p, S)) : Only(p, S)[i] = x) <=> x \in S /\ \E i \in 1..Len(p) : p[i] = x
  BY <1>5, <1>6 DEF Same
<1>9. DOMAIN p = 1..Len(p) /\ DOMAIN Only(p, S) = 1..Len(Only(p, S))
  BY <1>7
<1>10. ToSet(Only(p, S)) = ToSet(p) \cap S
  BY <1>8, <1>9 DEF ToSet
<1> QED BY <1>7, <1>10

-----------------------------------------------------------------------------
(* Packets and the pool of IPv6 addresses.                                    *)

(* A sequence without repetitions has as many elements as it is long.         *)
LEMMA DistinctCounted ==
  ASSUME NEW T, NEW s \in Seq(T), Distinct(s)
  PROVE  /\ IsFiniteSet(ToSet(s)) /\ Cardinality(ToSet(s)) = Len(s)
         /\ \A x : x \in ToSet(s) <=> \E i \in 1..Len(s) : s[i] = x
<1>1. Len(s) \in Nat /\ DOMAIN s = 1..Len(s)
  OBVIOUS
<1>2. ToSet(s) = {s[i] : i \in 1..Len(s)}
  BY <1>1 DEF ToSet
<1> DEFINE f == [i \in 1..Len(s) |-> s[i]]
<1>3. f \in Bijection(1..Len(s), ToSet(s))
  BY <1>2 DEF Bijection, Injection, Surjection, IsInjective, Distinct
<1>4. IsFiniteSet(1..Len(s)) /\ Cardinality(1..Len(s)) = Len(s)
  BY <1>1, FS_Interval
<1>5. ExistsBijection(1..Len(s), ToSet(s))
  BY <1>3 DEF ExistsBijection
<1> QED BY <1>2, <1>4, <1>5, FS_Bijection

(* The last packet got what the code decides for it; pool and interface name  *)
(* the same addresses, once each, those of the connections among them.        *)
PacketsInv ==
    /\ cfg \in Configs
    /\ pkt = <<>> \/ (pkt \in Packets /\ did = Outcome(pkt))
    /\ pool \in Seq(Addrs) /\ Distinct(pool) /\ Len(pool) <= V6Slots
    /\ mounted = ToSet(pool) /\ live \subseteq mounted

(* What a set of indices has: a least one.                                    *)
LEMMA MinFacts ==
  ASSUME NEW S \in SUBSET Nat, S # {}
  PROVE  Min(S) \in S /\ \A x \in S : Min(S) <= x
<1>1. \E n \in S : \A m \in S : n <= m
  BY LeastNat
<1> QED BY <1>1 DEF Min

(* The pool after an eviction: the address at i goes, those in front of it go *)
(* to the back, the new one comes last.                                       *)
Rotated(p, i, a) == SubSeq(p, i + 1, Len(p)) \o SubSeq(p, 1, i - 1) \o <<a>>

(* No other address is lost, none is there twice.                             *)
LEMMA Evicts ==
  ASSUME NEW T, NEW p \in Seq(T), Distinct(p), NEW i \in 1..Len(p), NEW a \in T, a \notin ToSet(p)
  PROVE  /\ Rotated(p, i, a) \in Seq(T) /\ Distinct(Rotated(p, i, a))
         /\ Len(Rotated(p, i, a)) = Len(p)
         /\ ToSet(Rotated(p, i, a)) = (ToSet(p) \ {p[i]}) \cup {a}
<1> DEFINE n == Len(p)
           u == SubSeq(p, i + 1, n)
           v == SubSeq(p, 1, i - 1)
           q == u \o v \o <<a>>
<1>1. n \in Nat /\ i \in Nat /\ 1 <= i /\ i <= n /\ DOMAIN p = 1..n /\ \A j \in 1..n : p[j] \in T
  OBVIOUS
<1>2. u \in Seq(T) /\ Len(u) = n - i /\ \A j \in 1..(n - i) : u[j] = p[i + j]
  <2>1. \A j \in (i + 1)..n : p[j] \in T
    BY <1>1
  <2>2. /\ u \in Seq(T) /\ Len(u) = IF i + 1 <= n THEN n - (i + 1) + 1 ELSE 0
        /\ \A j \in 1..(n - (i + 1) + 1) : u[j] = p[i + 1 + j - 1]
    <3> HIDE DEF n
    <3> QED BY <2>1, <1>1, SubSeqProperties
  <2>3. /\ (IF i + 1 <= n THEN n - (i + 1) + 1 ELSE 0) = n - i /\ n - (i + 1) + 1 = n - i
        /\ \A j \in 1..(n - i) : i + 1 + j - 1 = i + j
    <3> HIDE DEF n
    <3> QED BY <1>1
  <2> HIDE DEF u, n
  <2> QED BY <2>2, <2>3
<1>3. v \in Seq(T) /\ Len(v) = i - 1 /\ \A j \in 1..(i - 1) : v[j] = p[j]
  <2>1. \A j \in 1..(i - 1) : p[j] \in T
    BY <1>1
  <2>2. /\ v \in Seq(T) /\ Len(v) = IF 1 <= i - 1 THEN i - 1 - 1 + 1 ELSE 0
        /\ \A j \in 1..(i - 1 - 1 + 1) : v[j] = p[1 + j - 1]
    BY <2>1, <1>1, SubSeqProperties
  <2> QED BY <2>2, <1>1
<1> HIDE DEF u, v, n
<1>4. /\ u \o v \in Seq(T) /\ Len(u \o v) = n - 1
      /\ \A j \in 1..(n - 1) : (u \o v)[j] = IF j <= n - i THEN p[i + j] ELSE p[j - (n - i)]
  <2>1. /\ u \o v \in Seq(T) /\ Len(u \o v) = Len(u) + Len(v)
        /\ \A j \in 1..(Len(u) + Len(v)) : (u \o v)[j] = IF j <= Len(u) THEN u[j] ELSE v[j - Len(u)]
    BY <1>2, <1>3, ConcatProperties
  <2> QED BY <2>1, <1>1, <1>2, <1>3
<1>5. /\ q \in Seq(T) /\ Len(q) = n /\ q[n] = a
      /\ \A j \in 1..(n - 1) : q[j] = (u \o v)[j]
  <2>1. <<a>> \in Seq(T) /\ Len(<<a>>) = 1 /\ <<a>>[1] = a
    OBVIOUS
  <2>2. /\ q \in Seq(T) /\ Len(q) = Len(u \o v) + 1
        /\ \A j \in 1..(Len(u \o v) + 1) : q[j] = IF j <= Len(u \o v) THEN (u \o v)[j] ELSE <<a>>[j - Len(u \o v)]
    BY <1>4, <2>1, ConcatProperties
  <2> HIDE DEF q
  <2>3. Len(u \o v) = n - 1 /\ n - 1 + 1 = n /\ n - (n - 1) = 1 /\ n \in 1..n /\ ~(n <= n - 1)
    BY <1>1, <1>4
  <2>4. \A j \in 1..(n - 1) : j \in 1..n /\ j <= n - 1
    BY <1>1
  <2> QED BY <2>1, <2>2, <2>3, <2>4
<1> HIDE DEF q
<1> DEFINE from(j) == IF j <= n - i THEN i + j ELSE j - (n - i)
<1>6. /\ \A j \in 1..(n - 1) : q[j] = p[from(j)] /\ from(j) \in 1..n /\ from(j) # i
      /\ \A j, k \in 1..(n - 1) : from(j) = from(k) => j = k
  <2>1. \A j \in 1..(n - 1) : from(j) \in 1..n /\ from(j) # i
    BY <1>1
  <2>2. \A j, k \in 1..(n - 1) : from(j) = from(k) => j = k
    BY <1>1
  <2>3. \A j \in 1..(n - 1) : q[j] = p[from(j)]
    BY <1>4, <1>5
  <2> QED BY <2>1, <2>2, <2>3
<1>7. \A k \in 1..n : k # i => \E j \in 1..(n - 1) : from(j) = k
  <2> SUFFICES ASSUME NEW k \in 1..n, k # i PROVE \E j \in 1..(n - 1) : from(j) = k
    OBVIOUS
  <2> DEFINE j == IF k > i THEN k - i ELSE k + (n - i)
  <2>1. j \in 1..(n - 1) /\ from(j) = k
    BY <1>1
  <2> QED BY <2>1
<1> HIDE DEF from
<1>8. ToSet(p) = {p[j] : j \in 1..n} /\ ToSet(q) = {q[j] : j \in 1..n}
  <2>1. DOMAIN q = 1..n
    BY <1>5
  <2> QED BY <2>1, <1>1 DEF ToSet
<1>9. \A j, k \in 1..n : p[j] = p[k] => j = k
  BY DEF Distinct, n
<1>10. 1..n = 1..(n - 1) \cup {n} /\ n \notin 1..(n - 1)
  BY <1>1
<1>11. Distinct(q)
  <2>1. \A j \in 1..(n - 1) : q[j] # a
    BY <1>6, <1>8
  <2> SUFFICES ASSUME NEW j \in 1..n, NEW k \in 1..n, q[j] = q[k] PROVE j = k
    BY <1>5 DEF Distinct
  <2>2. CASE j \in 1..(n - 1) /\ k \in 1..(n - 1)
    BY <2>2, <1>6, <1>9
  <2>3. CASE j = n /\ k = n
    BY <2>3
  <2> QED BY <2>1, <2>2, <2>3, <1>5, <1>10
<1>12. ToSet(q) = (ToSet(p) \ {p[i]}) \cup {a}
  <2>1. ASSUME NEW x \in ToSet(q) PROVE x \in (ToSet(p) \ {p[i]}) \cup {a}
    <3>1. PICK j \in 1..n : x = q[j]
      BY <1>8
    <3>2. CASE j = n
      BY <3>1, <3>2, <1>5
    <3>3. CASE j \in 1..(n - 1)
      <4>0. i \in 1..n
        BY <1>1
      <4>1. q[j] = p[from(j)] /\ from(j) \in 1..n /\ from(j) # i
        BY <3>3, <1>6
      <4>2. p[from(j)] # p[i]
        BY <4>0, <4>1, <1>9
      <4> QED BY <4>1, <4>2, <3>1, <1>8
    <3> QED BY <3>2, <3>3, <1>10
  <2>2. a \in ToSet(q)
    BY <1>5, <1>8, <1>10
  <2>3. ASSUME NEW x \in ToSet(p), x # p[i] PROVE x \in ToSet(q)
    <3>1. PICK k \in 1..n : x = p[k]
      BY <1>8
    <3>2. PICK j \in 1..(n - 1) : from(j) = k
      BY <3>1, <2>3, <1>7
    <3>3. q[j] = x /\ j \in 1..n
      BY <3>1, <3>2, <1>6, <1>10
    <3> QED BY <3>3, <1>8
  <2> QED BY <2>1, <2>2, <2>3
<1> QED BY <1>5, <1>11, <1>12 DEF q, u, v, n, Rotated

(* Making room leaves every address of a connection where it is, whether the  *)
(* new address finds a place or not.                                          *)
LEMMA MountedFacts ==
  ASSUME PacketsInv, NEW a \in Addrs
  PROVE  /\ Mounted(a).pool \in Seq(Addrs) /\ Distinct(Mounted(a).pool)
         /\ Len(Mounted(a).pool) <= V6Slots
         /\ Mounted(a).on = ToSet(Mounted(a).pool) /\ live \subseteq Mounted(a).on
<1>0. /\ pool \in Seq(Addrs) /\ Distinct(pool) /\ Len(pool) <= V6Slots /\ Len(pool) \in Nat
      /\ mounted = ToSet(pool) /\ live \subseteq mounted /\ V6Slots \in Nat
      /\ DOMAIN pool = 1..Len(pool) /\ mounted = {pool[i] : i \in 1..Len(pool)}
  <2>1. pool \in Seq(Addrs) /\ V6Slots \in Nat /\ mounted = ToSet(pool)
    BY PacketsAssumption DEF PacketsInv
  <2>2. DOMAIN pool = 1..Len(pool) /\ Len(pool) \in Nat
    BY <2>1
  <2> QED BY <2>1, <2>2 DEF PacketsInv, ToSet
<1>1. CASE a \in mounted
  <2>1. Mounted(a).pool = pool /\ Mounted(a).on = mounted
    BY <1>1 DEF Mounted
  <2> QED BY <1>0, <2>1
<1>2. CASE a \notin mounted /\ Len(pool) < V6Slots
  <2>1. Mounted(a).pool = Append(pool, a) /\ Mounted(a).on = mounted \cup {a}
    BY <1>2 DEF Mounted
  <2>2. \A i \in 1..Len(pool) : pool[i] # a
    BY <1>0, <1>2
  <2> DEFINE q == Append(pool, a)
  <2>3. /\ q \in Seq(Addrs) /\ Len(q) = Len(pool) + 1 /\ Distinct(q)
        /\ \A x : (\E i \in 1..Len(q) : q[i] = x) <=> (x = a \/ \E i \in 1..Len(pool) : pool[i] = x)
    BY <1>0, <2>2, AppendFacts
  <2> HIDE DEF q
  <2>4. DOMAIN q = 1..Len(q)
    BY <2>3
  <2>5. ToSet(q) = mounted \cup {a}
    BY <2>3, <2>4, <1>0 DEF ToSet
  <2>6. Len(q) <= V6Slots
    BY <2>3, <1>0, <1>2
  <2> QED BY <2>1, <2>3, <2>5, <2>6, <1>0 DEF q
<1>3. CASE a \notin mounted /\ ~(Len(pool) < V6Slots) /\ Evictable = {}
  <2>1. Mounted(a).pool = Append(Tail(pool), Head(pool)) /\ Mounted(a).on = mounted
    BY <1>3 DEF Mounted
  <2>2. pool # <<>> /\ 1 \in 1..Len(pool)
    BY <1>0, <1>3, PacketsAssumption
  <2>3. /\ Head(pool) = pool[1] /\ Head(pool) \in Addrs /\ Tail(pool) \in Seq(Addrs)
        /\ Len(Tail(pool)) = Len(pool) - 1
        /\ \A i \in 1..(Len(pool) - 1) : Tail(pool)[i] = pool[i + 1]
    BY <1>0, <2>2, HeadTailProperties
  <2> DEFINE t == Tail(pool)
             q == Append(t, Head(pool))
  <2>4. Distinct(t) /\ \A i \in 1..Len(t) : t[i] # Head(pool)
    <3>1. \A i, j \in 1..Len(pool) : pool[i] = pool[j] => i = j
      BY <1>0 DEF Distinct
    <3>2. \A i \in 1..(Len(pool) - 1) : i + 1 \in 1..Len(pool) /\ i + 1 # 1
      BY <1>0
    <3>3. \A i, j \in 1..(Len(pool) - 1) : i + 1 = j + 1 => i = j
      BY <1>0
    <3> HIDE DEF t
    <3>4. Len(t) = Len(pool) - 1 /\ \A i \in 1..(Len(pool) - 1) : t[i] = pool[i + 1]
      BY <2>3 DEF t
    <3> QED BY <3>1, <3>2, <3>3, <3>4, <2>2, <2>3 DEF Distinct
  <2>5. /\ q \in Seq(Addrs) /\ Len(q) = Len(t) + 1 /\ Distinct(q)
        /\ \A x : (\E i \in 1..Len(q) : q[i] = x) <=> (x = Head(pool) \/ \E i \in 1..Len(t) : t[i] = x)
    <3>1. t \in Seq(Addrs) /\ Head(pool) \in Addrs
      BY <2>3
    <3> HIDE DEF t
    <3> QED BY <3>1, <2>4, AppendFacts
  <2>6. \A x : (x = Head(pool) \/ \E i \in 1..Len(t) : t[i] = x) <=> \E i \in 1..Len(pool) : pool[i] = x
    <3> SUFFICES ASSUME NEW x PROVE (x = pool[1] \/ \E i \in 1..(Len(pool) - 1) : pool[i + 1] = x)
                                     <=> \E i \in 1..Len(pool) : pool[i] = x
      BY <2>3
    <3>1. \A i \in 1..Len(pool) : i = 1 \/ (i - 1 \in 1..(Len(pool) - 1) /\ i - 1 + 1 = i)
      BY <1>0
    <3>2. \A i \in 1..(Len(pool) - 1) : i + 1 \in 1..Len(pool)
      BY <1>0
    <3> QED BY <3>1, <3>2, <2>2
  <2> HIDE DEF q, t
  <2>7. DOMAIN q = 1..Len(q)
    BY <2>5
  <2>8. ToSet(q) = mounted
    BY <2>5, <2>6, <2>7, <1>0 DEF ToSet
  <2>9. Len(q) = Len(pool)
    BY <2>3, <2>5, <1>0 DEF t
  <2> QED BY <2>1, <2>5, <2>8, <2>9, <1>0 DEF q, t
<1>4. CASE a \notin mounted /\ ~(Len(pool) < V6Slots) /\ Evictable # {}
  <2> DEFINE i == Min(Evictable)
             q == Rotated(pool, i, a)
  <2>1. Mounted(a).pool = q /\ Mounted(a).on = (mounted \ {pool[i]}) \cup {a}
    BY <1>4 DEF Mounted, Rotated
  <2>2. i \in 1..Len(pool) /\ pool[i] \notin live
    <3>1. Evictable \in SUBSET Nat
      BY <1>0 DEF Evictable
    <3>2. i \in Evictable
      BY <3>1, <1>4, MinFacts
    <3> QED BY <3>2, <1>0 DEF Evictable
  <2> HIDE DEF i
  <2>3. /\ q \in Seq(Addrs) /\ Distinct(q) /\ Len(q) = Len(pool)
        /\ ToSet(q) = (mounted \ {pool[i]}) \cup {a}
    <3>1. a \notin ToSet(pool)
      BY <1>0, <1>4
    <3>2. /\ q \in Seq(Addrs) /\ Distinct(q) /\ Len(q) = Len(pool)
          /\ ToSet(q) = (ToSet(pool) \ {pool[i]}) \cup {a}
      <4>1. pool \in Seq(Addrs) /\ Distinct(pool) /\ i \in 1..Len(pool) /\ a \in Addrs
        BY <1>0, <2>2
      <4> QED BY ONLY <4>1, <3>1, Evicts
    <3> QED BY <3>2, <1>0
  <2> HIDE DEF q
  <2> QED BY <2>1, <2>2, <2>3, <1>0
<1> QED BY <1>1, <1>2, <1>3, <1>4

(* A packet is dealt with, an address comes or a connection ends.             *)
LEMMA PacketsNextPreserves ==
  ASSUME PacketsInv, PacketsNext
  PROVE  PacketsInv'
<1>1. ASSUME NEW p \in Packets, Dispatch(p) PROVE PacketsInv'
  BY <1>1 DEF PacketsInv, Dispatch, Outcome, V6Packet, V4Datagram, V4Else, ForwardOutcome, DropV6,
     V6Tcp, NoRelay, Private, Datagram, Excluded
<1>2. ASSUME NEW a \in Addrs, V6Syn(a) PROVE PacketsInv'
  <2>1. /\ Mounted(a).pool \in Seq(Addrs) /\ Distinct(Mounted(a).pool)
        /\ Len(Mounted(a).pool) <= V6Slots
        /\ Mounted(a).on = ToSet(Mounted(a).pool) /\ live \subseteq Mounted(a).on
    BY MountedFacts
  <2>2. /\ pool' = Mounted(a).pool /\ mounted' = Mounted(a).on /\ pkt = <<>> /\ pkt' = pkt
        /\ cfg' = cfg /\ live' = IF a \in mounted' THEN live \cup {a} ELSE live
    BY <1>2 DEF V6Syn
  <2> QED BY <2>1, <2>2 DEF PacketsInv
<1>3. ASSUME NEW a \in Addrs, V6Close(a) PROVE PacketsInv'
  BY <1>3 DEF PacketsInv, V6Close, Outcome, V6Packet, V4Datagram, V4Else, ForwardOutcome, DropV6,
     V6Tcp, NoRelay, Private, Datagram, Excluded
<1> QED BY <1>1, <1>2, <1>3 DEF PacketsNext

(* The end of run_stack forgets them all.                                     *)
LEMMA PacketsEndPreserves ==
  ASSUME PacketsInv, PacketsEnd
  PROVE  PacketsInv'
<1>1. pool' = <<>> /\ mounted' = {} /\ live' = {} /\ pkt' = <<>> /\ cfg' = cfg
  BY DEF PacketsEnd
<1>2. <<>> \in Seq(Addrs) /\ Len(<<>>) = 0 /\ Distinct(<<>>) /\ ToSet(<<>>) = {}
  BY DEF Distinct, ToSet
<1>3. 0 <= V6Slots
  BY PacketsAssumption
<1> QED BY <1>1, <1>2, <1>3 DEF PacketsInv

(* Some step of another kind, or none, that leaves packets alone.             *)
LEMMA PacketsStutter == PacketsInv /\ UNCHANGED packetVars => PacketsInv'
BY DEF PacketsInv, packetVars, Outcome, V6Packet, V4Datagram, V4Else, ForwardOutcome, DropV6,
   V6Tcp, NoRelay, Private, Datagram, Excluded

(* What the code decides about a packet never answers one it must not answer. *)
LEMMA PacketsInvSound == PacketsInv => PacketsSound
<1> SUFFICES ASSUME PacketsInv PROVE PacketsSound
  OBVIOUS
<1>1. ErrorsLawful
  <2> SUFFICES ASSUME did \in {"rst", "unreachable"}, pkt # <<>> PROVE
        /\ pkt.dst # "multicast" /\ ~(pkt.ver = 4 /\ pkt.dst = "broadcast")
        /\ pkt.src # "unspecified" /\ ~(pkt.ver = 6 /\ pkt.src = "multicast")
        /\ pkt.proto # "icmp" /\ pkt.split = "no"
        /\ did = "rst" => pkt.proto = "tcp" /\ pkt.syn
    BY DEF ErrorsLawful
  <2>1. pkt \in Packets /\ did = Outcome(pkt)
    BY DEF PacketsInv
  <2>2. CASE pkt.ver = 6
    <3>1. did = V6Packet(pkt)
      BY <2>1, <2>2 DEF Outcome
    <3> QED BY <2>1, <2>2, <3>1 DEF V6Packet, DropV6, V6Tcp, Datagram, ForwardOutcome, Packets
  <2>3. CASE pkt.ver = 4
    <3>1. Datagram(pkt) /\ did = V4Datagram(pkt)
      BY <2>1, <2>3 DEF Outcome, V4Else
    <3> QED BY <2>1, <2>3, <3>1 DEF V4Datagram, NoRelay, Datagram, ForwardOutcome, Packets
  <2> QED BY <2>1, <2>2, <2>3 DEF Packets
<1>2. V6Kept
  BY DistinctCounted DEF PacketsInv, V6Kept
<1> QED BY <1>1, <1>2 DEF PacketsSound

(* An answer that the standards forbid is never given, and an address in use  *)
(* is never taken off the interface: handle_v4_else, the IPv6 branch of       *)
(* run_stack and ensure_v6_dst.                                               *)
THEOREM PacketsAreHandled == Spec => []PacketsSound
<1>1. Init => PacketsInv
  <2>1. <<>> \in Seq(Addrs) /\ Len(<<>>) = 0 /\ Distinct(<<>>) /\ ToSet(<<>>) = {}
    BY DEF Distinct, ToSet
  <2>2. 0 <= V6Slots
    BY PacketsAssumption
  <2> QED BY <2>1, <2>2 DEF Init, PacketsInit, PacketsInv
<1>2. PacketsInv /\ [Next]_vars => PacketsInv'
  <2> SUFFICES ASSUME PacketsInv, [Next]_vars PROVE PacketsInv'
    OBVIOUS
  <2>1. CASE Others
    BY <2>1, PacketsNextPreserves DEF Others
  <2>2. CASE Stops \/ Crash
    BY <2>2, PacketsEndPreserves DEF Stops, Crash
  <2>3. CASE UNCHANGED packetVars
    BY <2>3, PacketsStutter
  <2>4. Begins \/ Routes \/ Tcp \/ Udp \/ Rules \/ Leftover \/ UNCHANGED vars => UNCHANGED packetVars
    BY DEF Begins, Routes, Tcp, Udp, Rules, Leftover, vars, stackVars
  <2> QED BY <2>1, <2>2, <2>3, <2>4 DEF Next
<1> QED BY <1>1, <1>2, PacketsInvSound, PTL DEF Spec

-----------------------------------------------------------------------------
(* Routes.                                                                    *)

Known == ToSet(Takeover) \cup ToSet(Exempt) \cup ToSet(Takeover6) \cup ToSet(Exempt6)
Full  == Takeover \o Exempt

(* What is left of the list from the next command on.                         *)
Rest(list) == {list[i] : i \in at..Len(list)}

(* While it is built the plan is the whole plan, and what it says is done up  *)
(* to the next command.                                                       *)
PlanDone ==
    /\ phase \in {"apply", "apply6", "run"} => plan = Full
    /\ phase = "apply" => (\A i \in 1..Len(plan) : i < at => plan[i] \in table)
    /\ phase \in {"apply6", "run"} => ToSet(plan) \subseteq table

(* The routes this process has in the table are those its list still has to   *)
(* remove, unless a removal failed.                                           *)
OwnListed ==
    /\ phase = "apply" => own \subseteq {plan[i] : i \in {j \in 1..Len(plan) : j < at}}
    /\ phase \in {"apply6", "run"} => own \subseteq ToSet(plan) \cup ToSet(plan6)
    /\ phase = "undo" => failed \/ own \subseteq Rest(plan)
    /\ phase = "clean" => failed \/ own \subseteq Rest(CleanList)
    /\ phase = "off" => failed \/ own = {}

RoutesInv ==
    /\ phase \in {"off", "apply", "undo", "apply6", "run", "clean"} /\ at \in Nat \ {0}
    /\ plan \in Seq(Known) /\ plan6 \in Seq(Known)
    /\ PlanDone /\ OwnListed

(* The elements of a concatenation.                                           *)
LEMMA Joined ==
  ASSUME NEW T, NEW s \in Seq(T), NEW t \in Seq(T)
  PROVE  s \o t \in Seq(T) /\ ToSet(s \o t) = ToSet(s) \cup ToSet(t)
<1>1. Range(s \o t) = Range(s) \cup Range(t) /\ s \o t \in Seq(T)
  BY RangeConcatenation, ConcatProperties
<1> QED BY <1>1 DEF Range, ToSet

(* A sequence of some elements is one of more.                                *)
LEMMA Wider ==
  ASSUME NEW S, NEW T, NEW s \in Seq(S), S \subseteq T
  PROVE  s \in Seq(T)
BY SeqMonotonic

(* The plans name known routes, and with a gateway or nothing to exempt the   *)
(* plan is full.                                                              *)
LEMMA PlansTyped ==
  ASSUME NEW gw \in BOOLEAN, NEW v6 \in BOOLEAN
  PROVE  /\ ComputeRoutes(gw) \in Seq(Known) /\ ComputeRoutes6(v6, gw) \in Seq(Known)
         /\ Full \in Seq(Known) /\ ToSet(Full) = ToSet(Takeover) \cup ToSet(Exempt)
<1>1. Takeover \in Seq(Known)
  <2>1. Takeover \in Seq(ToSet(Takeover))
    BY DEF Takeover, ToSet
  <2> QED BY <2>1, Wider DEF Known
<1>2. Takeover6 \in Seq(Known)
  <2>1. Takeover6 \in Seq(ToSet(Takeover6))
    BY DEF Takeover6, ToSet
  <2> QED BY <2>1, Wider DEF Known
<1>3. Exempt \in Seq(Known) /\ Exempt6 \in Seq(Known) /\ <<>> \in Seq(Known)
  BY RoutesAssumption, Wider DEF Known
<1> QED
  <2> HIDE DEF Known
  <2> QED BY <1>1, <1>2, <1>3, Joined DEF ComputeRoutes, ComputeRoutes6, Full

(* The clean-up goes through both plans, in another order.                    *)
LEMMA CleanListFacts ==
  ASSUME plan \in Seq(Known), plan6 \in Seq(Known)
  PROVE  CleanList \in Seq(Known) /\ ToSet(CleanList) = ToSet(plan) \cup ToSet(plan6)
<1>1. ASSUME NEW p \in Seq(Known)
      PROVE  TakeoverFirst(p) \in Seq(Known) /\ ToSet(TakeoverFirst(p)) = ToSet(p)
  <2>1. ASSUME NEW S PROVE Only(p, S) \in Seq(Known) /\ ToSet(Only(p, S)) = ToSet(p) \cap S
    BY OnlyFacts
  <2> DEFINE u == Only(p, Through)
             v == Only(p, ToSet(p) \ Through)
  <2>2. u \in Seq(Known) /\ v \in Seq(Known) /\ ToSet(u) \cup ToSet(v) = ToSet(p)
    BY <2>1
  <2>3. TakeoverFirst(p) = u \o v
    BY DEF TakeoverFirst
  <2> HIDE DEF u, v
  <2>4. u \o v \in Seq(Known) /\ ToSet(u \o v) = ToSet(u) \cup ToSet(v)
    BY <2>2, Joined
  <2> QED BY <2>2, <2>3, <2>4
<1> QED BY <1>1, Joined DEF CleanList

(* One removal, or its failure, leaves less to remove.                        *)
LEMMA RemoveLeaves ==
  ASSUME NEW list \in Seq(Known), at \in Nat \ {0}, RemoveNext(list),
         failed \/ own \subseteq Rest(list)
  PROVE  /\ failed' \/ own' \subseteq {list[i] : i \in at'..Len(list)}
         /\ at' \in Nat \ {0} /\ UNCHANGED <<phase, plan, plan6>>
<1>1. at' = at + 1 /\ at <= Len(list) /\ Len(list) \in Nat /\ UNCHANGED <<phase, plan, plan6>>
  BY DEF RemoveNext
<1>2. CASE Removes(list[at]) /\ UNCHANGED failed
  <2>1. ASSUME NEW x \in own', ~failed PROVE \E i \in at'..Len(list) : list[i] = x
    <3>1. x \in own /\ x # list[at] /\ own \subseteq Rest(list)
      BY <1>2, <2>1 DEF Removes
    <3>2. PICK i \in at..Len(list) : x = list[i]
      BY <3>1 DEF Rest
    <3>3. i # at /\ i \in at'..Len(list)
      BY <3>1, <3>2, <1>1
    <3> QED BY <3>2, <3>3
  <2> QED BY <2>1, <1>1, <1>2
<1>3. CASE failed' = TRUE
  BY <1>1, <1>3
<1> QED BY <1>2, <1>3 DEF RemoveNext

(* The commands of a start, of its roll-back and of the clean-up.             *)
LEMMA RoutesStepsPreserve ==
  ASSUME RoutesInv, RoutesSteps
  PROVE  RoutesInv'
<1>0. /\ at \in Nat \ {0} /\ plan \in Seq(Known) /\ plan6 \in Seq(Known)
      /\ Len(plan) \in Nat /\ ToSet(plan) = {plan[i] : i \in 1..Len(plan)}
      /\ ToSet(plan6) = {plan6[i] : i \in 1..Len(plan6)}
  <2>1. at \in Nat \ {0} /\ plan \in Seq(Known) /\ plan6 \in Seq(Known)
    BY DEF RoutesInv
  <2>2. Len(plan) \in Nat /\ DOMAIN plan = 1..Len(plan) /\ DOMAIN plan6 = 1..Len(plan6)
    BY <2>1
  <2> QED BY <2>1, <2>2 DEF ToSet
<1>1. CASE Apply
  <2>1. /\ phase = "apply" /\ at <= Len(plan) /\ plan' = plan /\ plan6' = plan6
        /\ table' = table \cup {plan[at]} /\ own' = own \cup {plan[at]}
        /\ IF at < Len(plan) THEN phase' = "apply" /\ at' = at + 1 ELSE phase' = "apply6" /\ at' = 1
    BY <1>1 DEF Apply, Adds, Jump
  <2>2. /\ plan = Full /\ \A i \in 1..Len(plan) : i < at => plan[i] \in table
        /\ own \subseteq {plan[i] : i \in {j \in 1..Len(plan) : j < at}}
    BY <2>1 DEF RoutesInv, PlanDone, OwnListed
  <2>3. CASE at < Len(plan)
    <3>1. \A i \in 1..Len(plan) : i < at + 1 => plan[i] \in table'
      <4>1. \A i \in 1..Len(plan) : i < at + 1 => i < at \/ i = at
        BY <1>0
      <4> QED BY <4>1, <2>1, <2>2
    <3>2. own' \subseteq {plan[i] : i \in {j \in 1..Len(plan) : j < at + 1}}
      <4>1. at \in {j \in 1..Len(plan) : j < at + 1}
        BY <1>0, <2>3
      <4>2. {j \in 1..Len(plan) : j < at} \subseteq {j \in 1..Len(plan) : j < at + 1}
        BY <1>0
      <4> QED BY <4>1, <4>2, <2>1, <2>2
    <3>3. PlanDone'
      BY <2>1, <2>2, <2>3, <3>1 DEF PlanDone
    <3>4. OwnListed'
      BY <2>1, <2>3, <3>2 DEF OwnListed
    <3> QED BY <1>0, <2>1, <2>3, <3>3, <3>4 DEF RoutesInv
  <2>4. CASE ~(at < Len(plan))
    <3>1. at \in 1..Len(plan) /\ \A i \in 1..Len(plan) : i < at \/ i = at
      BY <1>0, <2>1, <2>4
    <3>2. ToSet(plan) \subseteq table'
      BY <3>1, <2>1, <2>2, <1>0
    <3>3. own' \subseteq ToSet(plan)
      BY <3>1, <2>1, <2>2, <1>0
    <3>4. PlanDone'
      BY <2>1, <2>2, <2>4, <3>2 DEF PlanDone
    <3>5. OwnListed'
      BY <2>1, <2>4, <3>3 DEF OwnListed
    <3> QED BY <1>0, <2>1, <2>4, <3>4, <3>5 DEF RoutesInv
  <2> QED BY <2>3, <2>4
<1>2. CASE ApplyFails
  <2>1. /\ phase = "apply" /\ at <= Len(plan) /\ plan6' = plan6 /\ phase' = "undo" /\ at' = 1
        /\ plan' = SubSeq(plan, 1, at - 1) /\ own' = own
    BY <1>2 DEF ApplyFails, Jump
  <2>2. own \subseteq {plan[i] : i \in {j \in 1..Len(plan) : j < at}}
    BY <2>1 DEF RoutesInv, OwnListed
  <2>3. \A i \in 1..(at - 1) : plan[i] \in Known
    BY <1>0, <2>1
  <2>4. /\ plan' \in Seq(Known) /\ Len(plan') = IF 1 <= at - 1 THEN at - 1 - 1 + 1 ELSE 0
        /\ \A i \in 1..(at - 1 - 1 + 1) : plan'[i] = plan[1 + i - 1]
    BY <2>1, <2>3, <1>0, SubSeqProperties
  <2>5. own' \subseteq {plan'[i] : i \in 1..Len(plan')}
    <3>1. Len(plan') = at - 1 /\ \A i \in 1..(at - 1) : plan'[i] = plan[i]
      BY <2>4, <1>0
    <3>2. \A j \in 1..Len(plan) : j < at => j \in 1..(at - 1)
      BY <1>0
    <3> QED BY <3>1, <3>2, <2>1, <2>2
  <2>6. PlanDone'
    BY <2>1 DEF PlanDone
  <2>7. OwnListed'
    BY <2>1, <2>5 DEF OwnListed, Rest
  <2> QED BY <1>0, <2>1, <2>4, <2>6, <2>7 DEF RoutesInv
<1>3. CASE Undo
  <2>1. phase = "undo" /\ RemoveNext(plan)
    BY <1>3 DEF Undo
  <2>2. failed \/ own \subseteq Rest(plan)
    BY <2>1 DEF RoutesInv, OwnListed
  <2>3. /\ failed' \/ own' \subseteq {plan[i] : i \in at'..Len(plan)}
        /\ at' \in Nat \ {0} /\ UNCHANGED <<phase, plan, plan6>>
    BY <1>0, <2>1, <2>2, RemoveLeaves
  <2>4. PlanDone' /\ OwnListed'
    BY <2>1, <2>3 DEF PlanDone, OwnListed, Rest
  <2> QED BY <1>0, <2>1, <2>3, <2>4 DEF RoutesInv
<1>4. CASE GiveUp
  <2>1. /\ phase = "undo" /\ at > Len(plan) /\ own' \subseteq own /\ failed' = failed
        /\ phase' = "off" /\ at' = 1 /\ plan' = <<>> /\ plan6' = <<>>
    BY <1>4 DEF GiveUp, DeviceGone, Jump
  <2>2. failed \/ own = {}
    <3>1. at..Len(plan) = {}
      BY <1>0, <2>1
    <3> QED BY <2>1, <3>1 DEF RoutesInv, OwnListed, Rest
  <2>3. PlanDone' /\ OwnListed' /\ <<>> \in Seq(Known)
    BY <2>1, <2>2 DEF PlanDone, OwnListed
  <2> QED BY <2>1, <2>3 DEF RoutesInv
<1>5. CASE Apply6
  <2>1. /\ phase = "apply6" /\ at <= Len(plan6) /\ at' = at + 1 /\ table \subseteq table'
        /\ own' \subseteq own \cup {plan6[at]} /\ UNCHANGED <<phase, plan, plan6>>
    BY <1>5 DEF Apply6, Adds
  <2>2. plan6[at] \in ToSet(plan6)
    BY <1>0, <2>1
  <2>3. PlanDone' /\ OwnListed'
    BY <2>1, <2>2 DEF PlanDone, OwnListed, RoutesInv
  <2> QED BY <1>0, <2>1, <2>3 DEF RoutesInv
<1>6. CASE Runs
  <2>1. /\ phase = "apply6" /\ phase' = "run" /\ at' = 1
        /\ UNCHANGED <<plan, plan6, table, own, failed>>
    BY <1>6 DEF Runs, Jump
  <2>2. PlanDone' /\ OwnListed'
    BY <2>1 DEF PlanDone, OwnListed, RoutesInv
  <2> QED BY <1>0, <2>1, <2>2 DEF RoutesInv
<1>7. CASE Clean
  <2>1. phase = "clean" /\ RemoveNext(CleanList) /\ CleanList \in Seq(Known)
    BY <1>7, <1>0, CleanListFacts DEF Clean
  <2>2. failed \/ own \subseteq Rest(CleanList)
    BY <2>1 DEF RoutesInv, OwnListed
  <2>3. /\ failed' \/ own' \subseteq {CleanList[i] : i \in at'..Len(CleanList)}
        /\ at' \in Nat \ {0} /\ UNCHANGED <<phase, plan, plan6>>
    BY <1>0, <2>1, <2>2, RemoveLeaves
  <2>4. CleanList' = CleanList
    BY <2>3 DEF CleanList
  <2>5. PlanDone' /\ OwnListed'
    BY <2>1, <2>3, <2>4 DEF PlanDone, OwnListed, Rest
  <2> QED BY <1>0, <2>1, <2>3, <2>5 DEF RoutesInv
<1> QED BY <1>1, <1>2, <1>3, <1>4, <1>5, <1>6, <1>7 DEF RoutesSteps

(* A start, the end of the stack, of the clean-up, of the process.            *)
LEMMA RoutesEndsPreserve ==
  ASSUME RoutesInv, Start \/ Stop \/ Kill \/ Ends(Pumping # {})
  PROVE  RoutesInv'
<1>0. at \in Nat \ {0} /\ plan \in Seq(Known) /\ plan6 \in Seq(Known) /\ <<>> \in Seq(Known)
  BY DEF RoutesInv
<1>1. CASE Start
  <2>1. PICK gw, gw6, v6 \in BOOLEAN :
           /\ MayStart(gw) /\ phase' = "apply" /\ at' = 1 /\ own' = {}
           /\ plan' = ComputeRoutes(gw) /\ plan6' = ComputeRoutes6(v6, gw6)
    BY <1>1 DEF Start
  <2>2. plan' \in Seq(Known) /\ plan6' \in Seq(Known)
    BY <2>1, PlansTyped
  <2>3. plan' = Full
    BY <2>1 DEF ComputeRoutes, Full, MayStart
  <2>4. \A i \in 1..Len(plan') : ~(i < 1)
    BY <2>2
  <2>5. PlanDone' /\ OwnListed'
    BY <2>1, <2>3, <2>4 DEF PlanDone, OwnListed
  <2> QED BY <2>1, <2>2, <2>5 DEF RoutesInv
<1>2. CASE Stop
  <2>1. phase = "run" /\ phase' = "clean" /\ at' = 1 /\ UNCHANGED <<plan, plan6, own, failed>>
    BY <1>2 DEF Stop, Jump
  <2>2. CleanList \in Seq(Known) /\ ToSet(CleanList) = ToSet(plan) \cup ToSet(plan6)
    BY <1>0, CleanListFacts
  <2>3. own \subseteq {CleanList[i] : i \in 1..Len(CleanList)} /\ CleanList' = CleanList
    <3>1. DOMAIN CleanList = 1..Len(CleanList)
      BY <2>2
    <3>2. CleanList' = CleanList
      BY <2>1 DEF CleanList
    <3> QED BY <2>1, <2>2, <3>1, <3>2 DEF RoutesInv, OwnListed, ToSet
  <2>4. PlanDone' /\ OwnListed'
    BY <2>1, <2>3 DEF PlanDone, OwnListed, Rest
  <2> QED BY <1>0, <2>1, <2>4 DEF RoutesInv
<1>3. CASE Kill
  <2>1. phase' = "off" /\ at' = 1 /\ plan' = <<>> /\ plan6' = <<>> /\ own' = {}
    BY <1>3 DEF Kill, Jump
  <2>2. PlanDone' /\ OwnListed'
    BY <2>1 DEF PlanDone, OwnListed
  <2> QED BY <1>0, <2>1, <2>2 DEF RoutesInv
<1>4. CASE Ends(Pumping # {})
  <2>1. /\ phase = "clean" /\ at > Len(CleanList) /\ own' \subseteq own /\ failed' = failed
        /\ phase' = "off" /\ at' = 1 /\ plan' = <<>> /\ plan6' = <<>>
    BY <1>4 DEF Ends, DeviceGone, Jump
  <2>2. failed \/ own = {}
    <3>1. Len(CleanList) \in Nat
      BY <1>0, CleanListFacts
    <3>2. at..Len(CleanList) = {}
      BY <1>0, <2>1, <3>1
    <3> QED BY <2>1, <3>2 DEF RoutesInv, OwnListed, Rest
  <2>3. PlanDone' /\ OwnListed'
    BY <2>1, <2>2 DEF PlanDone, OwnListed
  <2> QED BY <1>0, <2>1, <2>3 DEF RoutesInv
<1> QED BY <1>1, <1>2, <1>3, <1>4

(* While traffic is captured the nodes are reached past the device, and a     *)
(* start that failed or a run that ended leaves no route of its own behind,   *)
(* unless a removal failed: apply_routes and its roll-back, RouteGuard::drop, *)
(* whatever the plan.                                                         *)
THEOREM RoutesAreUndone == Spec => []RoutesSound
<1>1. Init => RoutesInv
  <2>1. <<>> \in Seq(Known)
    OBVIOUS
  <2> QED BY <2>1 DEF Init, RoutesInit, RoutesInv, PlanDone, OwnListed
<1>2. RoutesInv /\ [Next]_vars => RoutesInv'
  <2> SUFFICES ASSUME RoutesInv, [Next]_vars PROVE RoutesInv'
    OBVIOUS
  <2>1. CASE Begins \/ Routes \/ Stops \/ Crash
    BY <2>1, RoutesStepsPreserve, RoutesEndsPreserve DEF Begins, Routes, Stops, Crash
  <2>2. CASE UNCHANGED routeVars
    BY <2>2 DEF routeVars, RoutesInv, PlanDone, OwnListed, Rest, CleanList
  <2>3. Tcp \/ Udp \/ Others \/ Rules \/ Leftover \/ UNCHANGED vars => UNCHANGED routeVars
    BY DEF Tcp, Udp, Others, Rules, Leftover, vars
  <2> QED BY <2>1, <2>2, <2>3 DEF Next
<1>3. RoutesInv => RoutesSound
  <2> SUFFICES ASSUME RoutesInv PROVE RoutesSound
    OBVIOUS
  <2>1. NothingLeft
    BY DEF RoutesInv, OwnListed, NothingLeft
  <2>2. NodesExempt
    <3>1. ToSet(Full) = ToSet(Takeover \o Exempt)
      BY DEF Full
    <3> QED BY <3>1 DEF RoutesInv, PlanDone, NodesExempt
  <2> QED BY <2>1, <2>2 DEF RoutesSound
<1> QED BY <1>1, <1>2, <1>3, PTL DEF Spec

-----------------------------------------------------------------------------
(* Datagrams that the rules send out directly.                                *)

(* What a sequence contains.                                                  *)
LEMMA ContainsElement ==
  ASSUME NEW T, NEW l \in Seq(T), NEW d
  PROVE  Contains(l, d) <=> d \in ToSet(l)
<1>1. DOMAIN l = 1..Len(l)
  OBVIOUS
<1> QED BY <1>1 DEF Contains, ToSet

(* Append, in terms of sets.                                                  *)
LEMMA Appended ==
  ASSUME NEW T, NEW q \in Seq(T), NEW e \in T
  PROVE  /\ Append(q, e) \in Seq(T) /\ Len(Append(q, e)) = Len(q) + 1
         /\ ToSet(Append(q, e)) = ToSet(q) \cup {e}
         /\ Distinct(q) /\ e \notin ToSet(q) => Distinct(Append(q, e))
<1> DEFINE g == Append(q, e)
<1>1. /\ g \in Seq(T) /\ Len(g) = Len(q) + 1
      /\ \A x : (\E i \in 1..Len(g) : g[i] = x) <=> (x = e \/ \E i \in 1..Len(q) : q[i] = x)
  BY AppendFacts
<1>2. (Distinct(q) /\ (\A i \in 1..Len(q) : q[i] # e)) => Distinct(g)
  BY AppendFacts
<1> HIDE DEF g
<1>3. DOMAIN g = 1..Len(g) /\ DOMAIN q = 1..Len(q)
  BY <1>1
<1>4. ToSet(g) = ToSet(q) \cup {e}
  BY <1>1, <1>3 DEF ToSet
<1>5. e \notin ToSet(q) => \A i \in 1..Len(q) : q[i] # e
  BY <1>3 DEF ToSet
<1> QED BY <1>1, <1>2, <1>4, <1>5 DEF g

(* What is used moves to the back and nothing else is lost.                   *)
LEMMA ToBackFacts ==
  ASSUME NEW T, NEW l \in Seq(T), NEW d \in T
  PROVE  /\ ToBack(l, d) \in Seq(T) /\ ToSet(ToBack(l, d)) = ToSet(l) \cup {d}
         /\ Distinct(l) => Distinct(ToBack(l, d))
         /\ Distinct(l) /\ d \in ToSet(l) => Len(ToBack(l, d)) = Len(l)
<1> DEFINE o == Only(l, ToSet(l) \ {d})
<1>1. /\ o \in Seq(T) /\ ToSet(o) = ToSet(l) \cap (ToSet(l) \ {d})
      /\ Distinct(l) => Distinct(o)
  BY OnlyFacts
<1> HIDE DEF o
<1>2. ToBack(l, d) = Append(o, d) /\ d \notin ToSet(o)
  BY <1>1 DEF ToBack, o
<1>3. /\ Append(o, d) \in Seq(T) /\ Len(Append(o, d)) = Len(o) + 1
      /\ ToSet(Append(o, d)) = ToSet(o) \cup {d}
  BY <1>1, Appended
<1>6. Distinct(l) => Distinct(Append(o, d))
  BY <1>1, <1>2, Appended
<1>4. ASSUME Distinct(l), d \in ToSet(l) PROVE Len(Append(o, d)) = Len(l)
  <2>1. Distinct(o)
    BY <1>1, <1>4
  <2>2. IsFiniteSet(ToSet(l)) /\ Cardinality(ToSet(l)) = Len(l) /\ Cardinality(ToSet(o)) = Len(o)
    BY <1>1, <1>4, <2>1, DistinctCounted
  <2>3. Cardinality(ToSet(l) \ {d}) = Cardinality(ToSet(l)) - 1
    BY <1>4, <2>2, FS_RemoveElement
  <2>4. ToSet(o) = ToSet(l) \ {d} /\ Len(l) \in Nat
    BY <1>1
  <2> QED BY <2>2, <2>3, <2>4, <1>3
<1>5. ToSet(o) \cup {d} = ToSet(l) \cup {d}
  BY <1>1
<1> QED BY <1>2, <1>3, <1>4, <1>5, <1>6

(* A sequence is cut in two.                                                  *)
LEMMA Cut ==
  ASSUME NEW T, NEW p \in Seq(T), NEW n \in 0..Len(p)
  PROVE  /\ SubSeq(p, 1, n) \in Seq(T) /\ SubSeq(p, n + 1, Len(p)) \in Seq(T)
         /\ Len(SubSeq(p, n + 1, Len(p))) = Len(p) - n
         /\ ToSet(SubSeq(p, 1, n)) \cup ToSet(SubSeq(p, n + 1, Len(p))) = ToSet(p)
         /\ Distinct(p) => /\ Distinct(SubSeq(p, n + 1, Len(p)))
                           /\ ToSet(SubSeq(p, 1, n)) \cap ToSet(SubSeq(p, n + 1, Len(p))) = {}
<1> DEFINE m == Len(p)
           u == SubSeq(p, 1, n)
           v == SubSeq(p, n + 1, m)
<1>1. n \in Nat /\ m \in Nat /\ n <= m /\ DOMAIN p = 1..m /\ \A j \in 1..m : p[j] \in T
  OBVIOUS
<1>2. u \in Seq(T) /\ Len(u) = n /\ \A j \in 1..n : u[j] = p[j]
  <2>1. \A j \in 1..n : p[j] \in T
    BY <1>1
  <2>2. /\ u \in Seq(T) /\ Len(u) = IF 1 <= n THEN n - 1 + 1 ELSE 0
        /\ \A j \in 1..(n - 1 + 1) : u[j] = p[1 + j - 1]
    BY <2>1, <1>1, SubSeqProperties
  <2> HIDE DEF u
  <2> QED BY <2>2, <1>1
<1>3. v \in Seq(T) /\ Len(v) = m - n /\ \A j \in 1..(m - n) : v[j] = p[n + j]
  <2>1. \A j \in (n + 1)..m : p[j] \in T
    BY <1>1
  <2>2. /\ v \in Seq(T) /\ Len(v) = IF n + 1 <= m THEN m - (n + 1) + 1 ELSE 0
        /\ \A j \in 1..(m - (n + 1) + 1) : v[j] = p[n + 1 + j - 1]
    <3> HIDE DEF m
    <3> QED BY <2>1, <1>1, SubSeqProperties
  <2>3. /\ (IF n + 1 <= m THEN m - (n + 1) + 1 ELSE 0) = m - n /\ m - (n + 1) + 1 = m - n
        /\ \A j \in 1..(m - n) : n + 1 + j - 1 = n + j
    <3> HIDE DEF m
    <3> QED BY <1>1
  <2> HIDE DEF v, m
  <2> QED BY <2>2, <2>3
<1> HIDE DEF u, v, m
<1>4. DOMAIN u = 1..n /\ DOMAIN v = 1..(m - n)
  BY <1>1, <1>2, <1>3
<1>5. /\ ToSet(p) = {p[j] : j \in 1..m} /\ ToSet(u) = {p[j] : j \in 1..n}
      /\ ToSet(v) = {p[n + j] : j \in 1..(m - n)}
  <2>1. ToSet(p) = {p[j] : j \in 1..m}
    BY <1>1 DEF ToSet
  <2>2. ToSet(u) = {p[j] : j \in 1..n}
    BY <1>2, <1>4 DEF ToSet
  <2>3. ToSet(v) = {p[n + j] : j \in 1..(m - n)}
    BY <1>3, <1>4 DEF ToSet
  <2> QED BY <2>1, <2>2, <2>3
<1>6. /\ \A j \in 1..m : j \in 1..n \/ (j - n \in 1..(m - n) /\ n + (j - n) = j)
      /\ \A j \in 1..n : j \in 1..m
      /\ \A j \in 1..(m - n) : n + j \in 1..m /\ n + j \notin 1..n
      /\ \A j, k \in 1..(m - n) : n + j = n + k => j = k
  BY <1>1
<1>7. ToSet(u) \cup ToSet(v) = ToSet(p)
  <2>1. ToSet(p) \subseteq ToSet(u) \cup ToSet(v)
    BY <1>5, <1>6
  <2>2. ToSet(u) \subseteq ToSet(p) /\ ToSet(v) \subseteq ToSet(p)
    BY <1>5, <1>6
  <2> QED BY <2>1, <2>2
<1>8. ASSUME Distinct(p) PROVE Distinct(v) /\ ToSet(u) \cap ToSet(v) = {}
  <2>1. \A j, k \in 1..m : p[j] = p[k] => j = k
    BY <1>8 DEF Distinct, m
  <2>2. Distinct(v)
    BY <2>1, <1>3, <1>6 DEF Distinct
  <2>3. ToSet(u) \cap ToSet(v) = {}
    BY <2>1, <1>5, <1>6
  <2> QED BY <2>2, <2>3
<1> QED BY <1>2, <1>3, <1>7, <1>8 DEF u, v, m

(* record_dst: the destination is in the list; the others were there.         *)
LEMMA RecordFacts ==
  ASSUME NEW T, NEW l \in Seq(T), NEW d \in T
  PROVE  /\ Record(l, d) \in Seq(T) /\ d \in ToSet(Record(l, d))
         /\ ToSet(Record(l, d)) \subseteq ToSet(l) \cup {d}
<1>1. CASE Contains(l, d)
  BY <1>1, ToBackFacts DEF Record
<1>2. CASE ~Contains(l, d) /\ Len(l) >= AllowCap
  <2>1. Record(l, d) = Append(Tail(l), d)
    BY <1>2 DEF Record
  <2>2. l # <<>> /\ 1 \in 0..Len(l)
    BY <1>2, NatAssumption
  <2>3. Tail(l) = SubSeq(l, 1 + 1, Len(l))
    BY <2>2, TailIsSubSeq
  <2> DEFINE t == Tail(l)
  <2>4. t \in Seq(T) /\ ToSet(t) \subseteq ToSet(l)
    <3>1. /\ SubSeq(l, 1 + 1, Len(l)) \in Seq(T)
          /\ ToSet(SubSeq(l, 1, 1)) \cup ToSet(SubSeq(l, 1 + 1, Len(l))) = ToSet(l)
      BY <2>2, Cut
    <3> QED BY <2>3, <3>1
  <2> HIDE DEF t
  <2>5. Append(t, d) \in Seq(T) /\ ToSet(Append(t, d)) = ToSet(t) \cup {d}
    BY <2>4, Appended
  <2> QED BY <2>1, <2>4, <2>5 DEF t
<1>3. CASE ~Contains(l, d) /\ ~(Len(l) >= AllowCap)
  BY <1>3, Appended DEF Record
<1> QED BY <1>1, <1>2, <1>3

PumpStates == {"none", "recv", "send", "late", "ended"}
Replies    == {<<>>} \cup {<<d>> : d \in Dsts}

NatTyped ==
    /\ nat \in [Srcs -> Ids \cup {0}] /\ seen \in Seq(Srcs) /\ made \in Nat
    /\ allow \in [Ids -> Seq(Dsts)] /\ asked \in [Ids -> SUBSET Dsts]
    /\ pump \in [Ids -> PumpStates]
    /\ reply \in [Ids -> Replies] /\ latest \in [Ids -> Replies]
    /\ out = <<>> \/ (out \in Srcs \X Dsts)

(* Replies are accepted from destinations that were noted, and only from      *)
(* them, also by a pump that run_stack has left behind.                       *)
ListsKept ==
    \A i \in Ids : /\ ToSet(allow[i]) \subseteq asked[i]
                   /\ reply[i] # <<>> => reply[i][1] \in asked[i]

(* The sources in the table are those in order of use, once each.             *)
TableSeen ==
    /\ Distinct(seen) /\ Len(seen) <= MaxSessions
    /\ \A s \in Srcs : nat[s] # 0 <=> s \in ToSet(seen)

(* A pump that can take another reply belongs to the session of some source.  *)
PumpsHeld == \A i \in Ids : pump[i] \in {"recv", "send"} => \E s \in Srcs : nat[s] = i

(* The destination of the datagram on its way is in the list of its session,  *)
(* and so is the latest of every other session.                               *)
OutNoted ==
    /\ out # <<>> => nat[out[1]] # 0 /\ out[2] \in ToSet(allow[nat[out[1]]])
    /\ \A i \in Ids : latest[i] # <<>> =>
          latest[i][1] \in ToSet(allow[i]) \/ (out # <<>> /\ nat[out[1]] = i)

NatTies == TableSeen /\ PumpsHeld /\ OutNoted

(* The ties hold until run_stack ends; TUN mode starts once for datagrams.    *)
Table == traffic # "udp" \/ starts = 0 \/ phase \in {"apply", "undo", "apply6", "run"}
NatInv ==
    /\ NatTyped /\ ListsKept
    /\ starts \in Nat /\ (starts = 0 => phase = "off")
    /\ traffic # "udp" => \A i \in Ids : pump[i] = "none"
    /\ Table => NatTies

(* No session has the number that means that there is none.                   *)
LEMMA ZeroIsNoId == 0 \notin Ids /\ Ids \subseteq Nat
<1>1. Cardinality(Ids) \in Nat /\ Ids = 1..Cardinality(Ids)
  BY NatAssumption, FS_CardinalityType
<1> QED BY <1>1

(* forward() up to send_to, for a source that has a session.                  *)
LEMMA ForwardOld ==
  ASSUME NatTyped, ListsKept, NatTies, NEW s \in Srcs, NEW d \in Dsts, ForwardDirect(s, d), nat[s] # 0
  PROVE  NatTyped' /\ ListsKept' /\ NatTies'
<1> DEFINE k == nat[s]
           l == Record(allow[k], d)
<1>1. /\ out = <<>> /\ out' = <<s, d>> /\ allow' = [allow EXCEPT ![k] = l]
      /\ asked' = [asked EXCEPT ![k] = @ \cup {d}] /\ seen' = ToBack(seen, s)
      /\ UNCHANGED <<nat, made, pump, reply, latest>>
  BY DEF ForwardDirect, Session
<1>2. k \in Ids /\ nat \in [Srcs -> Ids \cup {0}] /\ allow[k] \in Seq(Dsts) /\ asked[k] \subseteq Dsts
  BY DEF NatTyped
<1>3. l \in Seq(Dsts) /\ d \in ToSet(l) /\ ToSet(l) \subseteq ToSet(allow[k]) \cup {d}
  BY <1>2, RecordFacts
<1> HIDE DEF k, l
<1>4. s \in ToSet(seen) /\ Distinct(seen) /\ Len(seen) <= MaxSessions /\ seen \in Seq(Srcs)
  BY DEF NatTies, TableSeen, NatTyped
<1>5. /\ seen' \in Seq(Srcs) /\ ToSet(seen') = ToSet(seen) /\ Distinct(seen') /\ Len(seen') = Len(seen)
  <2>1. /\ ToBack(seen, s) \in Seq(Srcs) /\ ToSet(ToBack(seen, s)) = ToSet(seen) \cup {s}
        /\ Distinct(ToBack(seen, s)) /\ Len(ToBack(seen, s)) = Len(seen)
    BY <1>4, ToBackFacts
  <2> QED BY <2>1, <1>1, <1>4
<1>6. /\ allow' \in [Ids -> Seq(Dsts)] /\ asked' \in [Ids -> SUBSET Dsts]
      /\ allow'[k] = l /\ asked'[k] = asked[k] \cup {d}
      /\ \A i \in Ids : i # k => allow'[i] = allow[i] /\ asked'[i] = asked[i]
  BY <1>1, <1>2, <1>3 DEF NatTyped
<1>7. NatTyped'
  BY <1>1, <1>5, <1>6 DEF NatTyped
<1>8. ListsKept'
  <2> SUFFICES ASSUME NEW i \in Ids
               PROVE  ToSet(allow'[i]) \subseteq asked'[i] /\ (reply'[i] # <<>> => reply'[i][1] \in asked'[i])
    BY DEF ListsKept
  <2>1. ToSet(allow[i]) \subseteq asked[i] /\ (reply[i] # <<>> => reply[i][1] \in asked[i])
    BY DEF ListsKept
  <2> QED BY <2>1, <1>1, <1>3, <1>6
<1>9. TableSeen'
  BY <1>1, <1>4, <1>5 DEF NatTies, TableSeen
<1>10. PumpsHeld'
  BY <1>1 DEF NatTies, PumpsHeld
<1>11. OutNoted'
  <2>1. out'[1] = s /\ out'[2] = d /\ out' # <<>> /\ nat'[s] = k /\ k # 0
    BY <1>1, <1>2, ZeroIsNoId DEF k
  <2>2. ASSUME NEW i \in Ids, latest'[i] # <<>>
        PROVE  latest'[i][1] \in ToSet(allow'[i]) \/ nat'[out'[1]] = i
    BY <2>1, <2>2, <1>1, <1>6 DEF NatTies, OutNoted
  <2> QED BY <2>1, <2>2, <1>3, <1>6 DEF OutNoted
<1> QED BY <1>7, <1>8, <1>9, <1>10, <1>11 DEF NatTies

(* The table without its oldest source, when it is full.                      *)
LEMMA KeptFacts ==
  ASSUME NatTyped, TableSeen
  PROVE  LET kept == IF Oldest = {} THEN seen ELSE Tail(seen)
         IN  /\ kept \in Seq(Srcs) /\ Distinct(kept) /\ Len(kept) < MaxSessions
             /\ ToSet(kept) = ToSet(seen) \ Oldest
<1>1. /\ seen \in Seq(Srcs) /\ Distinct(seen) /\ Len(seen) <= MaxSessions /\ Len(seen) \in Nat
      /\ MaxSessions \in Nat \ {0}
  BY NatAssumption DEF NatTyped, TableSeen
<1>2. CASE Len(seen) >= MaxSessions
  <2>1. seen # <<>> /\ 1 \in 0..Len(seen) /\ DOMAIN seen = 1..Len(seen)
    BY <1>1, <1>2
  <2>2. Tail(seen) = SubSeq(seen, 1 + 1, Len(seen)) /\ Oldest = {Head(seen)}
    BY <1>1, <1>2, <2>1, TailIsSubSeq DEF Oldest
  <2>3. ToSet(SubSeq(seen, 1, 1)) = {Head(seen)}
    <3> DEFINE w == SubSeq(seen, 1, 1)
    <3>1. seen[1] \in Srcs /\ Head(seen) = seen[1] /\ 1 <= Len(seen)
      BY <1>1, <2>1
    <3>2. /\ w \in Seq(Srcs) /\ Len(w) = IF 1 <= 1 THEN 1 - 1 + 1 ELSE 0
          /\ \A j \in 1..(1 - 1 + 1) : w[j] = seen[1 + j - 1]
      <4>1. \A j \in 1..1 : seen[j] \in Srcs
        BY <3>1
      <4> QED BY <4>1, <1>1, SubSeqProperties
    <3> HIDE DEF w
    <3>3. w \in Seq(Srcs) /\ Len(w) = 1 /\ w[1] = seen[1]
      BY <3>2
    <3>4. DOMAIN w = 1..1
      BY <3>3
    <3>5. ToSet(w) = {w[1]}
      BY <3>4 DEF ToSet
    <3> QED BY <3>1, <3>3, <3>5 DEF w
  <2>4. /\ SubSeq(seen, 1 + 1, Len(seen)) \in Seq(Srcs) /\ Len(SubSeq(seen, 1 + 1, Len(seen))) = Len(seen) - 1
        /\ ToSet(SubSeq(seen, 1, 1)) \cup ToSet(SubSeq(seen, 1 + 1, Len(seen))) = ToSet(seen)
        /\ Distinct(SubSeq(seen, 1 + 1, Len(seen)))
        /\ ToSet(SubSeq(seen, 1, 1)) \cap ToSet(SubSeq(seen, 1 + 1, Len(seen))) = {}
    BY <1>1, <2>1, Cut
  <2> DEFINE t == SubSeq(seen, 1 + 1, Len(seen))
             u == SubSeq(seen, 1, 1)
  <2>5. /\ t \in Seq(Srcs) /\ Len(t) = Len(seen) - 1 /\ ToSet(u) \cup ToSet(t) = ToSet(seen)
        /\ Distinct(t) /\ ToSet(u) \cap ToSet(t) = {} /\ ToSet(u) = Oldest /\ Tail(seen) = t /\ Oldest # {}
    BY <2>2, <2>3, <2>4
  <2> HIDE DEF t, u
  <2>6. Len(t) < MaxSessions /\ ToSet(t) = ToSet(seen) \ Oldest
    BY <2>5, <1>1
  <2> QED BY <2>5, <2>6
<1>3. CASE ~(Len(seen) >= MaxSessions)
  BY <1>1, <1>3 DEF Oldest
<1> QED BY <1>2, <1>3

(* forward() up to send_to, for a source that has none: the oldest makes      *)
(* room, its pump is stopped, and the new session takes its place.            *)
LEMMA ForwardNew ==
  ASSUME NatTyped, ListsKept, NatTies, NEW s \in Srcs, NEW d \in Dsts, ForwardDirect(s, d), nat[s] = 0
  PROVE  NatTyped' /\ ListsKept' /\ NatTies'
<1> DEFINE k == made + 1
           l == Record(allow[k], d)
           kept == IF Oldest = {} THEN seen ELSE Tail(seen)
           gone == {nat[x] : x \in Oldest}
<1>1. /\ out = <<>> /\ out' = <<s, d>> /\ allow' = [allow EXCEPT ![k] = l] /\ k \in Ids
      /\ asked' = [asked EXCEPT ![k] = @ \cup {d}] /\ seen' = Append(kept, s) /\ made' = k
      /\ nat' = [x \in Srcs |-> IF x = s THEN k ELSE IF x \in Oldest THEN 0 ELSE nat[x]]
      /\ pump' = [AbortPumps(gone) EXCEPT ![k] = "recv"] /\ UNCHANGED <<reply, latest>>
  BY DEF ForwardDirect, Session
<1>2. allow[k] \in Seq(Dsts) /\ asked[k] \subseteq Dsts /\ nat \in [Srcs -> Ids \cup {0}]
  BY <1>1 DEF NatTyped
<1>3. l \in Seq(Dsts) /\ d \in ToSet(l) /\ ToSet(l) \subseteq ToSet(allow[k]) \cup {d}
  BY <1>2, RecordFacts
<1>4. /\ kept \in Seq(Srcs) /\ Distinct(kept) /\ Len(kept) < MaxSessions
      /\ ToSet(kept) = ToSet(seen) \ Oldest
  BY KeptFacts DEF NatTies
<1>5. k \in Nat /\ k # 0 /\ MaxSessions \in Nat
  BY <1>1, ZeroIsNoId, NatAssumption
<1> HIDE DEF k, l, kept
<1>6. s \notin ToSet(seen) /\ \A x \in Srcs : nat[x] # 0 <=> x \in ToSet(seen)
  BY DEF NatTies, TableSeen
<1>7. /\ seen' \in Seq(Srcs) /\ ToSet(seen') = (ToSet(seen) \ Oldest) \cup {s} /\ Distinct(seen')
      /\ Len(seen') <= MaxSessions
  <2>1. /\ Append(kept, s) \in Seq(Srcs) /\ Len(Append(kept, s)) = Len(kept) + 1
        /\ ToSet(Append(kept, s)) = ToSet(kept) \cup {s} /\ Distinct(Append(kept, s))
    BY <1>4, <1>6, Appended
  <2>2. Len(kept) + 1 <= MaxSessions
    <3>1. Len(kept) \in Nat
      BY <1>4
    <3> QED BY <3>1, <1>4, <1>5
  <2> QED BY <2>1, <2>2, <1>1, <1>4
<1>8. /\ allow' \in [Ids -> Seq(Dsts)] /\ asked' \in [Ids -> SUBSET Dsts]
      /\ allow'[k] = l /\ asked'[k] = asked[k] \cup {d}
      /\ \A i \in Ids : i # k => allow'[i] = allow[i] /\ asked'[i] = asked[i]
  BY <1>1, <1>2, <1>3 DEF NatTyped
<1>9. /\ nat' \in [Srcs -> Ids \cup {0}] /\ nat'[s] = k
      /\ \A x \in Srcs : x # s => nat'[x] = IF x \in Oldest THEN 0 ELSE nat[x]
  BY <1>1, <1>2
<1>10. /\ pump' \in [Ids -> PumpStates] /\ pump'[k] = "recv"
       /\ \A i \in Ids : i # k => pump'[i] = IF i \notin gone THEN pump[i]
                                            ELSE IF pump[i] = "send" THEN "late" ELSE "ended"
  <2>1. pump \in [Ids -> PumpStates] /\ AbortPumps(gone) \in [Ids -> PumpStates]
    BY DEF NatTyped, AbortPumps, PumpStates
  <2> QED BY <2>1, <1>1 DEF AbortPumps, PumpStates
<1>11. NatTyped'
  BY <1>1, <1>5, <1>7, <1>8, <1>9, <1>10 DEF NatTyped
<1>12. ListsKept'
  <2> SUFFICES ASSUME NEW i \in Ids
               PROVE  ToSet(allow'[i]) \subseteq asked'[i] /\ (reply'[i] # <<>> => reply'[i][1] \in asked'[i])
    BY DEF ListsKept
  <2>1. ToSet(allow[i]) \subseteq asked[i] /\ (reply[i] # <<>> => reply[i][1] \in asked[i])
    BY DEF ListsKept
  <2> QED BY <2>1, <1>1, <1>3, <1>8
<1>13. TableSeen'
  <2>1. ASSUME NEW x \in Srcs PROVE nat'[x] # 0 <=> x \in ToSet(seen')
    BY <1>5, <1>6, <1>7, <1>9
  <2> QED BY <2>1, <1>7 DEF TableSeen
<1>14. PumpsHeld'
  <2> SUFFICES ASSUME NEW i \in Ids, pump'[i] \in {"recv", "send"} PROVE \E x \in Srcs : nat'[x] = i
    BY DEF PumpsHeld
  <2>1. CASE i = k
    BY <2>1, <1>9
  <2>2. CASE i # k
    <3>1. i \notin gone /\ pump[i] \in {"recv", "send"}
      BY <2>2, <1>10
    <3>2. PICK x \in Srcs : nat[x] = i
      BY <3>1 DEF NatTies, PumpsHeld
    <3>3. x \notin Oldest /\ x # s
      BY <3>1, <3>2, ZeroIsNoId
    <3> QED BY <3>2, <3>3, <1>9
  <2> QED BY <2>1, <2>2
<1>15. OutNoted'
  <2>1. out'[1] = s /\ out'[2] = d /\ out' # <<>>
    BY <1>1
  <2>2. ASSUME NEW i \in Ids, latest'[i] # <<>>
        PROVE  latest'[i][1] \in ToSet(allow'[i]) \/ nat'[out'[1]] = i
    BY <2>1, <2>2, <1>1, <1>8, <1>9 DEF NatTies, OutNoted
  <2> QED BY <2>1, <2>2, <1>3, <1>5, <1>8, <1>9 DEF OutNoted
<1> QED BY <1>11, <1>12, <1>13, <1>14, <1>15 DEF NatTies

(* The rest of forward(): the destination that was sent to is in its list.    *)
LEMMA SendToPreserves ==
  ASSUME NatTyped, ListsKept, NatTies, SendTo
  PROVE  NatTyped' /\ ListsKept' /\ NatTies'
<1> DEFINE k == nat[out[1]]
<1>1. /\ out # <<>> /\ out' = <<>>
      /\ latest' = [latest EXCEPT ![k] = <<out[2]>>] \/ latest' = [latest EXCEPT ![k] = <<>>]
      /\ UNCHANGED <<nat, seen, made, allow, pump, reply, asked>>
  BY DEF SendTo
<1>2. out[1] \in Srcs /\ out[2] \in Dsts /\ k \in Ids
  <2>1. out \in Srcs \X Dsts
    BY <1>1 DEF NatTyped
  <2> QED BY <2>1, <1>1 DEF NatTyped, NatTies, OutNoted
<1>3. out[2] \in ToSet(allow[k])
  BY <1>1 DEF NatTies, OutNoted
<1> HIDE DEF k
<1>4. /\ latest' \in [Ids -> Replies] /\ latest'[k] \in {<<>>, <<out[2]>>}
      /\ \A i \in Ids : i # k => latest'[i] = latest[i]
  <2>1. latest \in [Ids -> Replies] /\ <<>> \in Replies /\ <<out[2]>> \in Replies
    BY <1>2 DEF NatTyped, Replies
  <2>2. PICK e \in {<<>>, <<out[2]>>} : latest' = [latest EXCEPT ![k] = e]
    BY <1>1
  <2>3. e \in Replies
    BY <2>1
  <2> QED BY <2>1, <2>2, <2>3, <1>2
<1>5. NatTyped'
  BY <1>1, <1>4 DEF NatTyped
<1>6. ListsKept' /\ TableSeen' /\ PumpsHeld'
  BY <1>1 DEF ListsKept, NatTies, TableSeen, PumpsHeld
<1>7. OutNoted'
  <2>1. ASSUME NEW i \in Ids, latest'[i] # <<>> PROVE latest'[i][1] \in ToSet(allow'[i])
    <3>1. CASE i = k
      BY <2>1, <3>1, <1>1, <1>3, <1>4
    <3>2. CASE i # k
      BY <2>1, <3>2, <1>1, <1>4 DEF NatTies, OutNoted, k
    <3> QED BY <3>1, <3>2
  <2> QED BY <2>1, <1>1 DEF OutNoted
<1> QED BY <1>5, <1>6, <1>7 DEF NatTies

(* The relay's queue touches nothing of the table.                            *)
LEMMA NatStutter ==
  ASSUME UNCHANGED <<nat, seen, made, allow, pump, reply, out, asked, latest>>
  PROVE  /\ NatTyped => NatTyped'
         /\ ListsKept => ListsKept'
         /\ NatTies => NatTies'
<1>1. NatTyped => NatTyped'
  BY DEF NatTyped
<1>2. ListsKept => ListsKept'
  BY DEF ListsKept
<1>3. NatTies => NatTies'
  BY DEF NatTies, TableSeen, PumpsHeld, OutNoted
<1> QED BY <1>1, <1>2, <1>3

(* The pumps, also those that run_stack has left behind.  A reply moves its   *)
(* remote to the back of the list, and no pump starts again.                  *)
LEMMA PumpsPreserve ==
  ASSUME NatTyped, ListsKept, PumpSteps
  PROVE  /\ NatTyped' /\ ListsKept' /\ (NatTies => NatTies')
         /\ \E i \in Ids : pump[i] # "none"
<1>1. PICK i \in Pumping : PumpSend(i) \/ PumpFails(i) \/ \E r \in Dsts : PumpRecv(i, r)
  BY DEF PumpSteps
<1>2. i \in Ids /\ pump[i] \in {"recv", "send", "late"}
  BY DEF Pumping
<1>3. UNCHANGED <<nat, seen, made, out, asked, latest>>
  BY <1>1 DEF PumpSend, PumpFails, PumpRecv
<1>4. /\ pump' \in [Ids -> PumpStates] /\ (pump'[i] \in {"recv", "send"} => pump[i] \in {"recv", "send"})
      /\ \A j \in Ids : j # i => pump'[j] = pump[j]
  <2>1. pump \in [Ids -> PumpStates]
    BY DEF NatTyped
  <2>2. CASE PumpSend(i)
    BY <2>1, <2>2, <1>2 DEF PumpSend, PumpStates
  <2>3. CASE PumpFails(i)
    BY <2>1, <2>3, <1>2 DEF PumpFails, PumpStates
  <2>4. CASE \E r \in Dsts : PumpRecv(i, r)
    BY <2>1, <2>4, <1>2 DEF PumpRecv, PumpStates
  <2> QED BY <1>1, <2>2, <2>3, <2>4
<1>5. /\ allow' \in [Ids -> Seq(Dsts)] /\ reply' \in [Ids -> Replies]
      /\ \A j \in Ids : ToSet(allow'[j]) = ToSet(allow[j])
      /\ \A j \in Ids : reply'[j] # <<>> => reply'[j] = reply[j] \/ reply'[j][1] \in ToSet(allow[j])
  <2>1. allow \in [Ids -> Seq(Dsts)] /\ reply \in [Ids -> Replies] /\ allow[i] \in Seq(Dsts)
    BY <1>2 DEF NatTyped
  <2>2. CASE PumpSend(i) \/ PumpFails(i)
    <3>1. allow' = allow /\ reply' = [reply EXCEPT ![i] = <<>>] /\ <<>> \in Replies
      BY <2>2 DEF PumpSend, PumpFails, Replies
    <3> QED BY <2>1, <3>1, <1>2
  <2>3. CASE \E r \in Dsts : PumpRecv(i, r)
    <3>1. PICK r \in Dsts : PumpRecv(i, r)
      BY <2>3
    <3>2. /\ allow' = [allow EXCEPT ![i] = ToBack(allow[i], r)] /\ reply' = [reply EXCEPT ![i] = <<r>>]
          /\ Contains(allow[i], r)
      BY <3>1 DEF PumpRecv, Allowed
    <3>3. r \in ToSet(allow[i]) /\ <<r>> \in Replies
      BY <2>1, <3>2, ContainsElement DEF Replies
    <3>4. ToBack(allow[i], r) \in Seq(Dsts) /\ ToSet(ToBack(allow[i], r)) = ToSet(allow[i]) \cup {r}
      BY <2>1, ToBackFacts
    <3>5. /\ allow' \in [Ids -> Seq(Dsts)] /\ ToSet(allow'[i]) = ToSet(allow[i])
          /\ \A j \in Ids : j # i => allow'[j] = allow[j]
      <4> DEFINE b == ToBack(allow[i], r)
      <4>1. b \in Seq(Dsts) /\ ToSet(b) = ToSet(allow[i]) /\ allow' = [allow EXCEPT ![i] = b]
        BY <3>2, <3>3, <3>4
      <4> HIDE DEF b
      <4> QED BY <4>1, <2>1, <1>2
    <3>6. /\ reply' \in [Ids -> Replies] /\ reply'[i] = <<r>>
          /\ \A j \in Ids : j # i => reply'[j] = reply[j]
      <4> DEFINE b == <<r>>
      <4>1. b \in Replies /\ reply' = [reply EXCEPT ![i] = b]
        BY <3>2, <3>3
      <4> HIDE DEF b
      <4>2. /\ reply' \in [Ids -> Replies] /\ reply'[i] = b
            /\ \A j \in Ids : j # i => reply'[j] = reply[j]
        BY <4>1, <2>1, <1>2
      <4> QED BY <4>2 DEF b
    <3>7. \A j \in Ids : ToSet(allow'[j]) = ToSet(allow[j])
      BY <3>5
    <3>8. \A j \in Ids : reply'[j] # <<>> => reply'[j] = reply[j] \/ reply'[j][1] \in ToSet(allow[j])
      BY <3>3, <3>6
    <3> QED BY <3>5, <3>6, <3>7, <3>8
  <2> QED BY <1>1, <2>2, <2>3
<1>6. NatTyped'
  BY <1>3, <1>4, <1>5 DEF NatTyped
<1>7. ListsKept'
  BY <1>3, <1>5 DEF ListsKept
<1>8. NatTies => NatTies'
  <2>1. TableSeen => TableSeen'
    BY <1>3 DEF TableSeen
  <2>2. PumpsHeld => PumpsHeld'
    BY <1>3, <1>4 DEF PumpsHeld
  <2>3. ASSUME OutNoted, NatTyped PROVE OutNoted'
    <3>1. out # <<>> => nat[out[1]] \in Ids
      <4>1. out # <<>> => out \in Srcs \X Dsts
        BY <2>3 DEF NatTyped
      <4> QED BY <2>3, <4>1 DEF NatTyped, OutNoted
    <3> QED BY <2>3, <3>1, <1>3, <1>5 DEF OutNoted
  <2> QED BY <2>1, <2>2, <2>3 DEF NatTies
<1> QED BY <1>2, <1>6, <1>7, <1>8

(* sweep_idle: the sessions that go are not the one that forwards, and their  *)
(* pumps stop.                                                                *)
LEMMA SweepPreserves ==
  ASSUME NatTyped, ListsKept, NatTies, Sweep
  PROVE  NatTyped' /\ ListsKept' /\ NatTies'
<1>1. PICK n \in 1..Len(seen) :
        LET old == ToSet(SubSeq(seen, 1, n))
            ids == {nat[s] : s \in old}
            now == IF out = <<>> THEN {} ELSE {out[1]}
        IN  /\ now \cap old = {}
            /\ seen' = SubSeq(seen, n + 1, Len(seen))
            /\ nat' = [s \in Srcs |-> IF s \in old THEN 0 ELSE nat[s]]
            /\ pump' = AbortPumps(ids)
  BY DEF Sweep
<1> DEFINE old == ToSet(SubSeq(seen, 1, n))
           ids == {nat[s] : s \in old}
           rest == SubSeq(seen, n + 1, Len(seen))
<1>2. /\ out # <<>> => out[1] \notin old
      /\ seen' = rest /\ nat' = [s \in Srcs |-> IF s \in old THEN 0 ELSE nat[s]]
      /\ pump' = AbortPumps(ids)
  BY <1>1
<1>3. UNCHANGED <<made, allow, reply, out, asked, latest>>
  BY DEF Sweep
<1>4. /\ rest \in Seq(Srcs) /\ Len(rest) = Len(seen) - n /\ old \cup ToSet(rest) = ToSet(seen)
      /\ Distinct(rest) /\ old \cap ToSet(rest) = {}
  <2>1. seen \in Seq(Srcs) /\ Distinct(seen) /\ n \in 0..Len(seen)
    BY DEF NatTyped, NatTies, TableSeen
  <2> QED BY <2>1, Cut
<1>5. Len(rest) <= MaxSessions
  <2>1. n \in Nat \ {0} /\ n <= Len(seen) /\ Len(seen) \in Nat /\ Len(seen) <= MaxSessions /\ MaxSessions \in Nat
    BY NatAssumption DEF NatTyped, NatTies, TableSeen
  <2> HIDE DEF rest
  <2> QED BY <2>1, <1>4
<1> HIDE DEF old, rest
<1>6. /\ nat' \in [Srcs -> Ids \cup {0}]
      /\ \A s \in Srcs : nat'[s] = IF s \in old THEN 0 ELSE nat[s]
  BY <1>2 DEF NatTyped
<1>7. /\ pump' \in [Ids -> PumpStates]
      /\ \A i \in Ids : pump'[i] \in {"recv", "send"} => pump[i] \in {"recv", "send"} /\ i \notin ids
  <2>1. pump \in [Ids -> PumpStates]
    BY DEF NatTyped
  <2> HIDE DEF ids
  <2> QED BY <2>1, <1>2 DEF AbortPumps, PumpStates
<1>8. NatTyped'
  BY <1>2, <1>3, <1>4, <1>6, <1>7 DEF NatTyped
<1>9. ListsKept'
  BY <1>3 DEF ListsKept
<1>10. TableSeen'
  <2>1. ASSUME NEW s \in Srcs PROVE nat'[s] # 0 <=> s \in ToSet(seen')
    BY <1>2, <1>4, <1>6 DEF NatTies, TableSeen
  <2> QED BY <2>1, <1>2, <1>4, <1>5 DEF TableSeen
<1>11. PumpsHeld'
  <2> SUFFICES ASSUME NEW i \in Ids, pump'[i] \in {"recv", "send"} PROVE \E s \in Srcs : nat'[s] = i
    BY DEF PumpsHeld
  <2>1. PICK s \in Srcs : nat[s] = i
    BY <1>7 DEF NatTies, PumpsHeld
  <2>2. s \notin old
    BY <2>1, <1>7
  <2> QED BY <2>1, <2>2, <1>6
<1>12. OutNoted'
  <2>1. out # <<>> => nat'[out[1]] = nat[out[1]]
    <3>1. out # <<>> => out \in Srcs \X Dsts
      BY DEF NatTyped
    <3> QED BY <3>1, <1>2, <1>6
  <2> QED BY <2>1, <1>3 DEF NatTies, OutNoted
<1> QED BY <1>8, <1>9, <1>10, <1>11, <1>12 DEF NatTies

(* The end of run_stack empties the table; its pumps go on.                   *)
LEMMA NatEndPreserves ==
  ASSUME NatTyped, ListsKept, NatEnd
  PROVE  /\ NatTyped' /\ ListsKept'
         /\ (\A i \in Ids : pump[i] = "none") => NatTies'
<1>1. /\ nat' = [s \in Srcs |-> 0] /\ seen' = <<>> /\ out' = <<>> /\ latest' = [i \in Ids |-> <<>>]
      /\ UNCHANGED <<made, allow, pump, reply, asked>>
  BY DEF NatEnd
<1>2. NatTyped'
  BY <1>1 DEF NatTyped, Replies
<1>3. ListsKept'
  BY <1>1 DEF ListsKept
<1>4. ASSUME \A i \in Ids : pump[i] = "none" PROVE NatTies'
  <2>1. Distinct(<<>>) /\ Len(<<>>) = 0 /\ ToSet(<<>>) = {} /\ 0 <= MaxSessions
    BY NatAssumption DEF Distinct, ToSet
  <2>2. TableSeen'
    BY <2>1, <1>1 DEF TableSeen
  <2>3. PumpsHeld'
    BY <1>1, <1>4 DEF PumpsHeld
  <2>4. OutNoted'
    BY <1>1 DEF OutNoted
  <2> QED BY <2>2, <2>3, <2>4 DEF NatTies
<1> QED BY <1>2, <1>3, <1>4

(* Every step of a run of the stack.                                          *)
LEMMA NatNextPreserves ==
  ASSUME NatTyped, ListsKept, NatTies, NatNext
  PROVE  NatTyped' /\ ListsKept' /\ NatTies'
<1>1. CASE \E s \in Srcs, d \in Dsts : ForwardDirect(s, d)
  BY <1>1, ForwardOld, ForwardNew
<1>2. CASE \E s \in Srcs, d \in Dsts : ForwardFails(s, d) \/ ForwardRelay(s, d)
  <2>1. UNCHANGED <<nat, seen, made, allow, pump, reply, out, asked, latest>>
    BY <1>2 DEF ForwardFails, ForwardRelay
  <2> QED BY <2>1, NatStutter
<1>3. CASE SendTo
  BY <1>3, SendToPreserves
<1>4. CASE RelayTakes
  <2>1. UNCHANGED <<nat, seen, made, allow, pump, reply, out, asked, latest>>
    BY <1>4 DEF RelayTakes
  <2> QED BY <2>1, NatStutter
<1>5. CASE Sweep
  BY <1>5, SweepPreserves
<1>6. CASE PumpSteps
  BY <1>6, PumpsPreserve
<1> QED BY <1>1, <1>2, <1>3, <1>4, <1>5, <1>6 DEF NatNext

(* A set that a sequence lists has at most as many elements as it has places. *)
LEMMA ListBounds ==
  ASSUME NEW T, NEW q \in Seq(T), NEW f, NEW S, S \subseteq {f[x] : x \in ToSet(q)}
  PROVE  IsFiniteSet(S) /\ Cardinality(S) <= Len(q)
<1> DEFINE R == {f[x] : x \in ToSet(q)}
           g == [i \in 1..Len(q) |-> f[q[i]]]
<1>1. Len(q) \in Nat /\ DOMAIN q = 1..Len(q) /\ ToSet(q) = {q[i] : i \in 1..Len(q)}
  <2>1. Len(q) \in Nat /\ DOMAIN q = 1..Len(q)
    OBVIOUS
  <2> QED BY <2>1 DEF ToSet
<1>2. g \in Surjection(1..Len(q), R)
  <2>1. R = {f[q[i]] : i \in 1..Len(q)}
    BY <1>1
  <2>2. g \in [1..Len(q) -> R] /\ \A r \in R : \E i \in 1..Len(q) : g[i] = r
    BY <2>1
  <2> HIDE DEF g, R
  <2> QED BY <2>2 DEF Surjection
<1>3. IsFiniteSet(1..Len(q)) /\ Cardinality(1..Len(q)) = Len(q)
  <2>1. 1 \in Int /\ Len(q) \in Int /\ (1 > Len(q) => Len(q) = 0) /\ Len(q) - 1 + 1 = Len(q)
    BY <1>1
  <2> QED BY <2>1, FS_Interval
<1> HIDE DEF g, R
<1>4. IsFiniteSet(R) /\ Cardinality(R) <= Len(q)
  BY <1>2, <1>3, FS_Surjection
<1>5. IsFiniteSet(S) /\ Cardinality(S) <= Cardinality(R)
  BY <1>4, FS_Subset DEF R
<1>6. Cardinality(S) \in Nat /\ Cardinality(R) \in Nat
  BY <1>4, <1>5, FS_CardinalityType
<1> QED BY <1>1, <1>4, <1>5, <1>6

(* The ties say what the loop promises.                                       *)
LEMMA TiesSound ==
  ASSUME NatTyped, ListsKept, NatTies
  PROVE  NatSound
<1> DEFINE on == {i \in Ids : pump[i] \in {"recv", "send"}}
<1>1. \A i \in on : \E s \in Srcs : nat[s] = i
  BY DEF NatTies, PumpsHeld
<1>2. on \subseteq {nat[s] : s \in ToSet(seen)}
  BY <1>1, ZeroIsNoId DEF NatTies, TableSeen
<1>3. seen \in Seq(Srcs) /\ Len(seen) \in Nat /\ Len(seen) <= MaxSessions /\ MaxSessions \in Nat
  BY NatAssumption DEF NatTyped, NatTies, TableSeen
<1>4. on \subseteq {nat[s] : s \in Srcs}
  BY <1>1
<1> HIDE DEF on
<1>5. IsFiniteSet(on) /\ Cardinality(on) <= Len(seen)
  BY <1>2, <1>3, ListBounds
<1>6. Cardinality(on) <= MaxSessions
  BY <1>3, <1>5, FS_CardinalityType
<1>7. PumpsOwned
  BY <1>4, <1>6 DEF PumpsOwned, on
<1>8. RepliesSolicited
  <2> SUFFICES ASSUME NEW i \in Ids
               PROVE  /\ reply[i] # <<>> => reply[i][1] \in asked[i]
                      /\ latest[i] # <<>> /\ out = <<>> => Contains(allow[i], latest[i][1])
    BY DEF RepliesSolicited
  <2>1. reply[i] # <<>> => reply[i][1] \in asked[i]
    BY DEF ListsKept
  <2>2. allow[i] \in Seq(Dsts)
    BY DEF NatTyped
  <2>3. ASSUME latest[i] # <<>>, out = <<>> PROVE Contains(allow[i], latest[i][1])
    <3>1. latest[i][1] \in ToSet(allow[i])
      BY <2>3 DEF NatTies, OutNoted
    <3> QED BY <2>2, <3>1, ContainsElement
  <2> QED BY <2>1, <2>3
<1> QED BY <1>7, <1>8 DEF NatSound

(* While the stack runs, sockets, tasks and table go together, the limit      *)
(* bounds them, and only a remote that a session has sent to is answered      *)
(* from: forward, the pump and sweep_idle of UdpDirectNat.                    *)
THEOREM DatagramsReturn == Spec => []NatHolds
<1>1. Init => NatInv
  <2> SUFFICES ASSUME Init PROVE NatInv
    OBVIOUS
  <2>1. /\ nat = [s \in Srcs |-> 0] /\ seen = <<>> /\ made = 0 /\ out = <<>>
        /\ allow = [i \in Ids |-> <<>>] /\ asked = [i \in Ids |-> {}]
        /\ pump = [i \in Ids |-> "none"] /\ reply = [i \in Ids |-> <<>>] /\ latest = [i \in Ids |-> <<>>]
    BY DEF Init, NatInit
  <2>2. starts = 0 /\ phase = "off"
    BY DEF Init, RoutesInit
  <2>3. Distinct(<<>>) /\ Len(<<>>) = 0 /\ ToSet(<<>>) = {} /\ 0 <= MaxSessions
    BY NatAssumption DEF Distinct, ToSet
  <2>4. NatTyped
    BY <2>1 DEF NatTyped, PumpStates, Replies
  <2>5. ListsKept
    BY <2>1, <2>3 DEF ListsKept
  <2>6. TableSeen
    BY <2>1, <2>3 DEF TableSeen
  <2>7. PumpsHeld /\ OutNoted /\ \A i \in Ids : pump[i] = "none"
    BY <2>1 DEF PumpsHeld, OutNoted
  <2> QED BY <2>2, <2>4, <2>5, <2>6, <2>7 DEF NatInv, NatTies
<1>2. NatInv /\ [Next]_vars => NatInv'
  <2> SUFFICES ASSUME NatInv, [Next]_vars PROVE NatInv'
    OBVIOUS
  <2>0. /\ NatTyped /\ ListsKept /\ starts \in Nat /\ (starts = 0 => phase = "off")
        /\ (traffic # "udp" => \A i \in Ids : pump[i] = "none") /\ (Table => NatTies)
    BY DEF NatInv
  <2>1. ASSUME UNCHANGED <<natVars, traffic>>, Table' => Table,
               starts' \in Nat, starts' = 0 => phase' = "off"
        PROVE  NatInv'
    <3>1. UNCHANGED <<nat, seen, made, allow, pump, reply, out, asked, latest>>
      BY <2>1 DEF natVars
    <3>2. NatTyped' /\ ListsKept' /\ (NatTies => NatTies')
      BY <2>0, <3>1, NatStutter
    <3> QED BY <2>0, <2>1, <3>1, <3>2 DEF NatInv
  <2>2. CASE Begins
    <3>1. UNCHANGED <<natVars, traffic>> /\ starts' = starts + 1 /\ (traffic # "none" => starts = 0)
      BY <2>2 DEF Begins, Start, stackVars, fixed
    <3> QED BY <2>0, <2>1, <3>1 DEF Table
  <2>3. CASE Routes
    <3>1. UNCHANGED <<natVars, traffic, starts>> /\ phase # "off"
      BY <2>3 DEF Routes, RoutesSteps, Ends, Apply, ApplyFails, Undo, RemoveNext, GiveUp, Apply6, Runs,
                  Clean, stackVars, fixed
    <3>2. Table' => Table
      BY <2>3, <3>1 DEF Routes, RoutesSteps, Ends, Apply, ApplyFails, Undo, RemoveNext, GiveUp, Apply6,
                        Runs, Clean, Jump, Table
    <3>3. starts # 0
      BY <3>1, <2>0
    <3> QED BY <2>0, <2>1, <3>1, <3>2, <3>3
  <2>4. CASE Udp
    <3>1. NatNext /\ phase = "run" /\ traffic = "udp" /\ UNCHANGED <<starts, phase, traffic>>
      BY <2>4 DEF Udp, Stack, routeVars, fixed
    <3>2. NatTies
      BY <2>0, <3>1 DEF Table
    <3>3. NatTyped' /\ ListsKept' /\ NatTies'
      BY <2>0, <3>1, <3>2, NatNextPreserves
    <3> QED BY <2>0, <3>1, <3>3 DEF NatInv
  <2>5. CASE Leftover
    <3>1. PumpSteps /\ UNCHANGED <<starts, phase, traffic>>
      BY <2>5 DEF Leftover, routeVars, fixed
    <3>2. NatTyped' /\ ListsKept' /\ (NatTies => NatTies') /\ \E i \in Ids : pump[i] # "none"
      BY <2>0, <3>1, PumpsPreserve
    <3>3. Table' => Table
      BY <3>1 DEF Table
    <3> QED BY <2>0, <3>1, <3>2, <3>3 DEF NatInv
  <2>6. CASE Stops \/ Crash
    <3>1. /\ NatEnd /\ phase # "off" /\ phase' \in {"clean", "off"} /\ UNCHANGED <<starts, traffic>>
      BY <2>6 DEF Stops, Crash, Stop, Kill, Jump, fixed
    <3>2. NatTyped' /\ ListsKept' /\ ((\A i \in Ids : pump[i] = "none") => NatTies')
      BY <2>0, <3>1, NatEndPreserves
    <3>3. pump' = pump /\ starts # 0
      BY <2>0, <3>1 DEF NatEnd
    <3> QED BY <2>0, <3>1, <3>2, <3>3 DEF NatInv, Table
  <2>7. CASE Tcp \/ Others \/ Rules \/ UNCHANGED vars
    <3>1. UNCHANGED <<natVars, traffic, starts, phase>>
      BY <2>7 DEF Tcp, Others, Rules, vars, stackVars, fixed, routeVars
    <3>2. Table' => Table
      BY <3>1 DEF Table
    <3> QED BY <2>0, <2>1, <3>1, <3>2
  <2> QED BY <2>2, <2>3, <2>4, <2>5, <2>6, <2>7 DEF Next
<1>3. NatInv => NatHolds
  BY TiesSound DEF NatInv, Table, NatHolds
<1> QED BY <1>1, <1>2, <1>3, PTL DEF Spec

-----------------------------------------------------------------------------
(* TCP.                                                                       *)

(* The states of a socket; in those of Closing the stack has closed its side. *)
Closing      == {"finwait", "lastack", "timewait"}
SocketStates == {"free", "listen", "synrcvd", "estab", "closewait", "closed"} \cup Closing
Sockets      == [st : SocketStates, conn : Conns \cup {None}, rx : Int, tx : Int]

(* A socket and the flow on it.  What has happened to the flow shows in both. *)
Shape(s, f) ==
    /\ s.st \in {"free", "listen"} => s.conn = None
    /\ s.st = "listen" => s.rx = 0 /\ s.tx = 0
    /\ s.tx <= TxCap
    /\ f = NoFlow => s.st \in {"free", "listen", "synrcvd"}
    /\ f # NoFlow =>
        /\ s.st # "free"
        /\ s.st = "listen" => f.again
        /\ s.conn \in Conns => f.target = s.conn \/ f.again
        /\ f.opened => s.st \notin {"listen", "synrcvd"}
        /\ f.up # "none" => f.opened
        /\ f.up # "done" => f.chan = <<>> /\ ~f.linked
        /\ ~f.linked => /\ f.chan \in {<<>>, <<"link">>, <<"linkerr">>}
                        /\ f.reader = "none" /\ f.writer = "none"
                        /\ f.pending = 0 /\ f.upch = 0 /\ f.held = 0 /\ f.wrote = 0
        /\ f.linked => "link" \notin ToSet(f.chan)
        /\ s.st \in Closing => f.reader = "eof"

(* Where the u bytes are that an application has sent, and the d that came    *)
(* for it and that it was not given yet; k of them are cut off.               *)
Counted(s, f, u, d, k) ==
    IF f = NoFlow THEN s.rx = u /\ s.tx = d /\ k = 0
    ELSE /\ f.writer # "dead" => s.rx + f.upch + f.held + f.wrote = u
         /\ IF s.st \in Closing THEN s.tx + k = d
            ELSE s.tx + f.pending + Queued(f) = d /\ k = 0

(* Bytes that have reached the stack.                                         *)
Under(c)   == IF inbound # None /\ inbound.conn = c THEN inbound.bytes ELSE 0
Arrived(c) == sent[c] - Under(c)

(* The sockets that are not free are the flows and the listener, and a        *)
(* connection has one of them.                                                *)
Placed(s, f, l) ==
    /\ l \in Slots /\ s[l].st # "free" /\ f[l] = NoFlow
    /\ \A h \in Slots : s[h].st # "free" => f[h] # NoFlow \/ h = l
    /\ \A h \in Slots : Shape(s[h], f[h])
    /\ \A h, k \in Slots : s[h].conn \in Conns /\ s[h].conn = s[k].conn => h = k

(* A SYN or RST carries nothing.                                              *)
Arrivals == {p \in Segments : p.kind # "seg" => p.bytes = 0}
Greets(c) == inbound # None /\ inbound.kind = "syn" /\ inbound.conn = c
SlotsTyped(s, f) == s \in [Slots -> Sockets] /\ f \in [Slots -> FlowRecords \cup {NoFlow}]
FlowsTyped ==
    /\ SlotsTyped(sock, flow)
    /\ pc \in {"select", "pump", "poll"} /\ inbound \in Arrivals \cup {None}
    /\ pc = "select" => inbound = None
    /\ sent \in [Conns -> Int] /\ got \in [Conns -> Int]
    /\ read \in [Conns -> Int] /\ cut \in [Conns -> Int]
    /\ app \in [Conns -> {"idle", "waiting", "open", "half", "gone"}]
    /\ end \in [Conns -> {"none", "fin", "rst"}]

(* Every byte of a connection that goes on is somewhere.                      *)
Accounts ==
    \A h \in Slots : \A c \in Conns :
        sock[h].conn = c /\ app[c] # "gone" /\ sock[h].st # "closed" =>
            Counted(sock[h], flow[h], Arrived(c), read[c] - got[c], cut[c])

(* Nothing has happened yet to a connection whose SYN no socket has taken; to *)
(* one whose application was told the end nothing more will.                  *)
Unmet(c) ==
    /\ \A h \in Slots : sock[h].conn # c
    /\ sent[c] = 0 /\ got[c] = 0 /\ read[c] = 0 /\ cut[c] = 0 /\ end[c] = "none"
Past(s, f) == s.st \in Closing \cup {"closed"} /\ (f # NoFlow => f.reader = "eof")
Histories ==
    \A c \in Conns :
        /\ app[c] = "idle" => Unmet(c)
        /\ Greets(c) => app[c] # "idle" /\ Unmet(c)
        /\ end[c] = "fin" => /\ got[c] + cut[c] = read[c]
                             /\ \A h \in Slots : sock[h].conn = c => Past(sock[h], flow[h])

FlowsInv ==
    /\ FlowsTyped /\ Placed(sock, flow, listener) /\ doomed \subseteq Flows(flow)
    /\ pc = "poll" => \A h \in Slots : flow[h] = NoFlow => sock[h].st # "synrcvd"
    /\ Accounts /\ Histories

(* A record of a flow is a flow; a packet is a packet.                        *)
LEMMA NoFlowIsNone ==
  /\ NoFlow \notin FlowRecords /\ None \notin Conns /\ IsFiniteSet(Slots) /\ Slots \subseteq Nat /\ MaxFlows \in Nat
  /\ TxCap \in Nat /\ UpCap \in Nat
  /\ \A h \in Slots : h \in Nat
BY FlowsAssumption, FS_CardinalityType

(* The bytes of the answer in a channel.                                      *)
DataIn(q) == Cardinality({i \in 1..Len(q) : q[i] = "data"})

(* A message more in a channel.                                               *)
LEMMA DataAdded ==
  ASSUME NEW T, NEW q \in Seq(T), NEW m \in T
  PROVE  /\ DataIn(q) \in Nat
         /\ DataIn(Append(q, m)) = DataIn(q) + (IF m = "data" THEN 1 ELSE 0)
<1> DEFINE n == Len(q)
           D == {i \in 1..n : q[i] = "data"}
           g == Append(q, m)
           E == {i \in 1..Len(g) : g[i] = "data"}
<1>1. n \in Nat
  OBVIOUS
<1>2. Len(g) = n + 1 /\ g[n + 1] = m /\ \A i \in 1..n : g[i] = q[i]
  OBVIOUS
<1> HIDE DEF g, n
<1>3. IsFiniteSet(D) /\ Cardinality(D) \in Nat
  <2>1. IsFiniteSet(1..n) /\ D \in SUBSET (1..n)
    BY <1>1, FS_Interval
  <2> HIDE DEF D
  <2> QED BY <2>1, FS_Subset, FS_CardinalityType
<1>4. n + 1 \notin D /\ 1..(n + 1) = (1..n) \cup {n + 1} /\ n + 1 \notin 1..n
  BY <1>1
<1>5. E = IF m = "data" THEN D \cup {n + 1} ELSE D
  BY <1>2, <1>4
<1> HIDE DEF D, E
<1>6. Cardinality(D \cup {n + 1}) = Cardinality(D) + 1
  BY <1>3, <1>4, FS_AddElement
<1>7. DataIn(q) = Cardinality(D) /\ DataIn(g) = Cardinality(E)
  BY DEF DataIn, D, E, n
<1> QED BY <1>3, <1>5, <1>6, <1>7 DEF g

(* How far the loop hears a channel.                                          *)
LEMMA HeardFacts ==
  ASSUME NEW f \in FlowRecords
  PROVE  /\ f.chan \in Seq(Messages) /\ Heard(f) \in 0..Len(f.chan) /\ Queued(f) = DataIn(f.chan)
         /\ Failing(f) <=> \E i \in 1..Len(f.chan) : f.chan[i] \in Errors
         /\ ~Failing(f) => Heard(f) = Len(f.chan)
<1>1. f.chan \in Seq(Messages)
  BY DEF FlowRecords
<1>2. DOMAIN f.chan = 1..Len(f.chan) /\ Len(f.chan) \in Nat
  BY <1>1
<1>3. Queued(f) = DataIn(f.chan)
  BY <1>2 DEF Queued, DataIn
<1>4. Failing(f) <=> \E i \in 1..Len(f.chan) : f.chan[i] \in Errors
  BY <1>2 DEF Failing
<1>5. CASE Failing(f)
  <2> DEFINE S == {i \in 1..Len(f.chan) : f.chan[i] \in Errors}
  <2>1. S \in SUBSET Nat /\ S # {} /\ Heard(f) = Min(S)
    BY <1>2, <1>4, <1>5 DEF Heard
  <2> HIDE DEF S
  <2>2. Heard(f) \in S
    BY <2>1, MinFacts
  <2> QED BY <1>1, <1>2, <1>3, <1>4, <1>5, <2>2 DEF S
<1>6. CASE ~Failing(f)
  BY <1>1, <1>2, <1>3, <1>4, <1>6 DEF Heard
<1> QED BY <1>5, <1>6

(* How many messages of a kind it hears.                                      *)
LEMMA MsgsFacts ==
  ASSUME NEW f \in FlowRecords, NEW m
  PROVE  /\ Msgs(f, m) \in Nat
         /\ (\A i \in 1..Heard(f) : f.chan[i] # m) => Msgs(f, m) = 0
         /\ (\E i \in 1..Heard(f) : f.chan[i] = m) => Msgs(f, m) > 0
<1> DEFINE S == {i \in 1..Heard(f) : f.chan[i] = m}
<1>1. Heard(f) \in Nat
  <2>1. f.chan \in Seq(Messages) /\ Heard(f) \in 0..Len(f.chan)
    BY HeardFacts
  <2> QED BY <2>1
<1>2. IsFiniteSet(1..Heard(f)) /\ S \in SUBSET (1..Heard(f)) /\ Msgs(f, m) = Cardinality(S)
  BY <1>1, FS_Interval DEF Msgs
<1>3. /\ (\A i \in 1..Heard(f) : f.chan[i] # m) => S = {}
      /\ (\E i \in 1..Heard(f) : f.chan[i] = m) => S # {}
  OBVIOUS
<1> HIDE DEF S
<1>4. IsFiniteSet(S) /\ Cardinality(S) \in Nat /\ (Cardinality(S) = 0 <=> S = {})
  BY <1>2, FS_Subset, FS_CardinalityType, FS_EmptySet
<1>5. Cardinality(S) \in Nat /\ (S = {} => Cardinality(S) = 0) /\ (S # {} => Cardinality(S) > 0)
  BY <1>4
<1>6. Msgs(f, m) = Cardinality(S)
  BY <1>2
<1> QED BY ONLY <1>3, <1>5, <1>6

(* What is left of the channel.                                               *)
LEMMA RestFacts ==
  ASSUME NEW f \in FlowRecords
  PROVE  LET r == SubSeq(f.chan, Heard(f) + 1, Len(f.chan))
         IN  /\ r \in Seq(Messages) /\ ToSet(r) \subseteq ToSet(f.chan)
             /\ Heard(f) = Len(f.chan) => r = <<>>
<1> DEFINE r == SubSeq(f.chan, Heard(f) + 1, Len(f.chan))
           u == SubSeq(f.chan, 1, Heard(f))
<1>1. f.chan \in Seq(Messages) /\ Heard(f) \in 0..Len(f.chan)
  BY HeardFacts
<1>2. r \in Seq(Messages) /\ Len(r) = Len(f.chan) - Heard(f) /\ ToSet(u) \cup ToSet(r) = ToSet(f.chan)
  BY <1>1, Cut
<1> HIDE DEF r, u
<1>3. Heard(f) = Len(f.chan) => Len(r) = 0
  BY <1>1, <1>2
<1>4. ToSet(r) \subseteq ToSet(f.chan)
  BY <1>2
<1>5. Len(r) = 0 => r = <<>>
  BY <1>2
<1> QED BY <1>2, <1>3, <1>4, <1>5 DEF r

(* What the loop makes of a flow when it hears its tasks.                     *)
LEMMA DrainedFacts ==
  ASSUME NEW s, NEW f \in FlowRecords, Shape(s, f)
  PROVE  \E g \in {f, Linked(f)}, q \in Seq(Messages), n \in Nat, b \in BOOLEAN :
            /\ Drained(f) = [g EXCEPT !.chan = q, !.pending = f.pending + n, !.aged = b]
            /\ g # f => ~f.linked /\ f.up = "done" /\ f.chan = <<"link">>
            /\ g = f /\ ~f.linked => f.chan # <<"link">>
            /\ ToSet(q) \subseteq ToSet(f.chan) /\ (~f.linked => q = <<>> /\ n = 0)
            /\ ~Failing(f) => q = <<>> /\ n = DataIn(f.chan)
<1> DEFINE q == SubSeq(f.chan, Heard(f) + 1, Len(f.chan))
           n == Msgs(f, "data")
           g == IF Msgs(f, "link") > 0 THEN Linked(f) ELSE f
           b == f.aged /\ Msgs(f, "data") = 0
<1>1. Drained(f) = [g EXCEPT !.chan = SubSeq(g.chan, Heard(f) + 1, Len(g.chan)),
                            !.pending = g.pending + n, !.aged = g.aged /\ Msgs(f, "data") = 0]
  BY DEF Drained
<1>2. g.chan = f.chan /\ g.pending = f.pending /\ g.aged = f.aged
  BY DEF Linked, FlowRecords
<1>3. Drained(f) = [g EXCEPT !.chan = q, !.pending = f.pending + n, !.aged = b]
  BY <1>1, <1>2
<1>4. /\ q \in Seq(Messages) /\ ToSet(q) \subseteq ToSet(f.chan)
      /\ Heard(f) = Len(f.chan) => q = <<>>
  BY RestFacts
<1>5. /\ f.chan \in Seq(Messages) /\ Heard(f) \in 0..Len(f.chan) /\ Queued(f) = DataIn(f.chan)
      /\ Failing(f) <=> \E i \in 1..Len(f.chan) : f.chan[i] \in Errors
      /\ ~Failing(f) => Heard(f) = Len(f.chan)
  BY HeardFacts
<1>6. n \in Nat /\ b \in BOOLEAN
  BY MsgsFacts DEF FlowRecords
<1>7. ~Failing(f) => n = DataIn(f.chan)
  BY <1>5 DEF Msgs, DataIn
<1>8. f.chan = <<>> => DataIn(f.chan) = 0 /\ ~Failing(f) /\ Heard(f) = 0
  <2>1. f.chan = <<>> => Len(f.chan) = 0
    OBVIOUS
  <2>2. f.chan = <<>> => ~Failing(f) /\ Heard(f) = 0
    BY <2>1, <1>5
  <2>3. f.chan = <<>> => {i \in 1..Len(f.chan) : f.chan[i] = "data"} = {}
    BY <2>1
  <2> QED BY <2>2, <2>3, FS_EmptySet DEF DataIn
<1>9. ASSUME f.linked PROVE g = f
  <2>1. "link" \notin ToSet(f.chan)
    BY <1>9, NoFlowIsNone DEF Shape
  <2>2. DOMAIN f.chan = 1..Len(f.chan) /\ 1..Heard(f) \subseteq 1..Len(f.chan)
    BY <1>5
  <2>3. \A i \in 1..Heard(f) : f.chan[i] # "link"
    BY <2>1, <2>2 DEF ToSet
  <2>4. Msgs(f, "link") = 0
    BY <2>3, MsgsFacts
  <2> QED BY <2>4
<1>10. ASSUME ~f.linked
       PROVE  /\ q = <<>> /\ n = 0
              /\ g # f => f.up = "done" /\ f.chan = <<"link">>
              /\ g = f => f.chan # <<"link">>
  <2>1. f.chan \in {<<>>, <<"link">>, <<"linkerr">>} /\ (f.up # "done" => f.chan = <<>>)
    BY <1>10, NoFlowIsNone DEF Shape
  <2>2. CASE f.chan = <<>>
    <3>1. n = 0 /\ q = <<>>
      BY <1>4, <1>5, <1>7, <1>8, <2>2
    <3>2. Msgs(f, "link") = 0
      BY <1>8, <2>2, MsgsFacts
    <3> QED BY <3>1, <3>2, <2>2
  <2>3. CASE f.chan \in {<<"link">>, <<"linkerr">>}
    <3>1. Len(f.chan) = 1 /\ (f.chan[1] = "link" <=> f.chan = <<"link">>) /\ f.chan[1] \in {"link", "linkerr"}
      BY <2>3
    <3>2. Heard(f) = 1
      <4>1. CASE Failing(f)
        <5>1. Heard(f) = Min({i \in DOMAIN f.chan : f.chan[i] \in Errors})
          BY <4>1 DEF Heard
        <5>2. {i \in DOMAIN f.chan : f.chan[i] \in Errors} = {1}
          <6>1. DOMAIN f.chan = {1}
            BY <3>1, <1>5
          <6> QED BY <6>1, <4>1 DEF Failing
        <5>3. Min({1}) = 1
          BY MinFacts
        <5> QED BY <5>1, <5>2, <5>3
      <4>2. CASE ~Failing(f)
        BY <4>2, <1>5, <3>1
      <4> QED BY <4>1, <4>2
    <3>3. n = 0
      <4>1. \A i \in 1..1 : f.chan[i] # "data"
        BY <3>1
      <4> QED BY <4>1, <3>2, MsgsFacts
    <3>4. q = <<>>
      BY <3>1, <3>2, <1>4
    <3>5. Msgs(f, "link") > 0 <=> f.chan = <<"link">>
      <4>1. CASE f.chan[1] = "link"
        BY <4>1, <3>1, <3>2, MsgsFacts
      <4>2. CASE f.chan[1] # "link"
        <5>1. \A i \in 1..1 : f.chan[i] # "link"
          BY <4>2
        <5>2. Msgs(f, "link") = 0
          BY <5>1, <3>2, MsgsFacts
        <5> QED BY <5>2, <4>2, <3>1
      <4> QED BY <4>1, <4>2
    <3>6. Linked(f) # f
      <4>1. Linked(f).linked
        BY DEF Linked, FlowRecords
      <4> QED BY <4>1, <1>10
    <3>7. f.up = "done"
      BY <2>1, <3>1
    <3> QED BY <3>3, <3>4, <3>5, <3>6, <3>7
  <2> QED BY <2>1, <2>2, <2>3
<1>11. ~Failing(f) => q = <<>>
  BY <1>4, <1>5
<1>12. g \in {f, Linked(f)}
  OBVIOUS
<1> HIDE DEF g, q, n, b
<1> QED BY <1>3, <1>4, <1>6, <1>7, <1>9, <1>10, <1>11, <1>12

(* step() opens the channel of a flow that is connected.                      *)
LEMMA OpenedKeeps ==
  ASSUME NEW s \in Sockets, NEW f \in FlowRecords, Shape(s, f), Ready(f, s)
  PROVE  /\ Opened(f) \in FlowRecords /\ Shape(s, Opened(f)) /\ Opened(f).reader = f.reader
         /\ \A u, d, k : Counted(s, f, u, d, k) => Counted(s, Opened(f), u, d, k)
<1> DEFINE g == Opened(f)
<1>1. g \in FlowRecords /\ f # NoFlow /\ g # NoFlow
  BY NoFlowIsNone DEF Opened, FlowRecords
<1>2. /\ g.chan = f.chan /\ g.reader = f.reader /\ g.writer = f.writer /\ g.pending = f.pending
      /\ g.upch = f.upch /\ g.held = f.held /\ g.wrote = f.wrote /\ g.linked = f.linked
      /\ g.again = f.again /\ g.target = f.target /\ g.opened /\ g.up = "opening"
  BY DEF Opened, FlowRecords
<1>3. ~f.opened /\ s.st \in {"estab", "closewait"}
  BY DEF Ready
<1> HIDE DEF g
<1>4. Queued(g) = Queued(f)
  BY <1>2 DEF Queued
<1>5. Shape(s, g)
  BY <1>1, <1>2, <1>3 DEF Shape, Closing, FlowRecords
<1>6. \A u, d, k : Counted(s, f, u, d, k) => Counted(s, g, u, d, k)
  BY <1>1, <1>2, <1>4 DEF Counted
<1> QED BY <1>1, <1>2, <1>5, <1>6 DEF g

(* An aborted socket still fits its flow.                                     *)
LEMMA AbortedKeeps ==
  ASSUME NEW s \in Sockets, NEW f, Shape(s, f), s.st # "free", f # NoFlow
  PROVE  /\ Aborted(s) \in Sockets /\ Shape(Aborted(s), f)
         /\ Aborted(s).conn = s.conn /\ Aborted(s).st = "closed"
<1>1. /\ Aborted(s) \in Sockets /\ Aborted(s).conn = s.conn /\ Aborted(s).st = "closed"
      /\ Aborted(s).tx = 0
  <2>1. "closed" \in SocketStates /\ 0 \in Int
    BY DEF SocketStates
  <2>2. Aborted(s) \in Sockets
    BY <2>1 DEF Aborted, Sockets
  <2>3. Aborted(s).conn = s.conn /\ Aborted(s).st = "closed" /\ Aborted(s).tx = 0
    BY DEF Aborted, Sockets
  <2> QED BY <2>2, <2>3
<1> QED BY <1>1, NoFlowIsNone DEF Shape, Closing

(* A flow after step() has heard its tasks.                                   *)
LEMMA DrainedKeeps ==
  ASSUME NEW s \in Sockets, NEW f \in FlowRecords, Shape(s, f)
  PROVE  /\ Drained(f) \in FlowRecords /\ Shape(s, Drained(f))
         /\ f.reader = "eof" => Drained(f).reader = "eof"
         /\ ~Failing(f) => \A u, d, k : Counted(s, f, u, d, k) => Counted(s, Drained(f), u, d, k)
<1> DEFINE e == Drained(f)
<1>1. PICK g \in {f, Linked(f)}, q \in Seq(Messages), n \in Nat, b \in BOOLEAN :
         /\ e = [g EXCEPT !.chan = q, !.pending = f.pending + n, !.aged = b]
         /\ g # f => ~f.linked /\ f.up = "done" /\ f.chan = <<"link">>
         /\ g = f /\ ~f.linked => f.chan # <<"link">>
         /\ ToSet(q) \subseteq ToSet(f.chan) /\ (~f.linked => q = <<>> /\ n = 0)
         /\ ~Failing(f) => q = <<>> /\ n = DataIn(f.chan)
  BY DrainedFacts
<1>0. /\ Linked(f) \in FlowRecords
      /\ Linked(f).linked /\ Linked(f).reader = "on" /\ Linked(f).writer = "on"
      /\ Linked(f).up = f.up /\ Linked(f).opened = f.opened /\ Linked(f).upch = f.upch
      /\ Linked(f).held = f.held /\ Linked(f).wrote = f.wrote /\ Linked(f).again = f.again
      /\ Linked(f).target = f.target
  BY DEF Linked, FlowRecords
<1>2. g \in FlowRecords /\ f # NoFlow
  BY <1>0, NoFlowIsNone
<1>3. e \in FlowRecords /\ e # NoFlow
  <2>1. f.pending + n \in Int
    BY DEF FlowRecords
  <2>2. e \in FlowRecords
    BY <1>1, <1>2, <2>1 DEF FlowRecords
  <2> QED BY <2>2, NoFlowIsNone
<1>4. /\ e.chan = q /\ e.pending = f.pending + n /\ e.up = f.up /\ e.opened = f.opened
      /\ e.upch = f.upch /\ e.held = f.held /\ e.wrote = f.wrote
      /\ e.again = f.again /\ e.target = f.target
      /\ e.reader = g.reader /\ e.writer = g.writer /\ e.linked = g.linked
  <2>1. /\ g.up = f.up /\ g.opened = f.opened /\ g.upch = f.upch /\ g.held = f.held
        /\ g.wrote = f.wrote /\ g.again = f.again /\ g.target = f.target
    BY <1>0
  <2>2. /\ e.chan = q /\ e.pending = f.pending + n /\ e.up = g.up /\ e.opened = g.opened
        /\ e.upch = g.upch /\ e.held = g.held /\ e.wrote = g.wrote
        /\ e.again = g.again /\ e.target = g.target
        /\ e.reader = g.reader /\ e.writer = g.writer /\ e.linked = g.linked
    BY <1>1, <1>2 DEF FlowRecords
  <2> QED BY <2>1, <2>2
<1>5. g = f \/ (g.reader = "on" /\ g.writer = "on" /\ g.linked)
  BY <1>0
<1> HIDE DEF e
<1>6. f.opened \in BOOLEAN /\ f.linked \in BOOLEAN /\ f.pending \in Int
  BY DEF FlowRecords
<1>7. ASSUME g = f PROVE Shape(s, e) /\ (f.reader = "eof" => e.reader = "eof")
  <2>1. e.reader = f.reader /\ e.writer = f.writer /\ e.linked = f.linked
    BY <1>4, <1>7
  <2>2. f.up # "done" => e.chan = <<>> /\ ~e.linked
    BY <1>1, <1>2, <1>4, <2>1 DEF Shape
  <2>3. ~e.linked => e.chan = <<>> /\ e.pending = 0
    BY <1>1, <1>2, <1>4, <1>6, <2>1 DEF Shape
  <2>4. e.linked => "link" \notin ToSet(e.chan)
    BY <1>1, <1>2, <1>4, <2>1 DEF Shape
  <2>5. Shape(s, e)
    BY <1>2, <1>3, <1>4, <2>1, <2>2, <2>3, <2>4 DEF Shape
  <2> QED BY <2>1, <2>5
<1>8. ASSUME g # f PROVE Shape(s, e) /\ (f.reader = "eof" => e.reader = "eof")
  <2>1. /\ ~f.linked /\ f.up = "done" /\ f.chan = <<"link">> /\ e.chan = <<>> /\ e.linked
        /\ e.reader = "on" /\ e.writer = "on"
    BY <1>1, <1>4, <1>5, <1>8
  <2>2. f.reader = "none" /\ s.st \notin Closing
    BY <2>1, <1>2, <1>6 DEF Shape
  <2>3. ToSet(e.chan) = {}
    BY <2>1 DEF ToSet
  <2>4. Shape(s, e)
    BY <1>2, <1>3, <1>4, <2>1, <2>2, <2>3 DEF Shape
  <2> QED BY <2>2, <2>4
<1>9. ASSUME ~Failing(f), NEW u, NEW d, NEW k, Counted(s, f, u, d, k) PROVE Counted(s, e, u, d, k)
  <2>1. Queued(f) = n /\ e.chan = <<>>
    BY <1>1, <1>4, <1>9, HeardFacts
  <2>2. Queued(e) = 0
    <3>1. Queued(e) = DataIn(e.chan)
      BY <1>3, HeardFacts
    <3>2. {i \in 1..Len(e.chan) : e.chan[i] = "data"} = {}
      BY <2>1
    <3> QED BY <3>1, <3>2, FS_EmptySet DEF DataIn
  <2>3. f.writer # "dead" => e.writer # "dead" /\ e.upch = f.upch
    BY <1>4, <1>5
  <2>4. e.writer # "dead" => s.rx + e.upch + e.held + e.wrote = u
    <3>1. e.writer # "dead" => f.writer # "dead"
      <4>1. g # f => f.writer = "none"
        BY <1>1, <1>2 DEF Shape
      <4> QED BY <4>1, <1>4
    <3> QED BY <3>1, <1>2, <1>4, <1>9 DEF Counted
  <2>5. IF s.st \in Closing THEN s.tx + k = d ELSE s.tx + f.pending + n = d /\ k = 0
    BY <1>2, <1>9, <2>1 DEF Counted
  <2>6. s.tx + f.pending + n = s.tx + (f.pending + n) + 0
    BY <1>6 DEF Sockets
  <2>7. IF s.st \in Closing THEN s.tx + k = d ELSE s.tx + e.pending + Queued(e) = d /\ k = 0
    BY <2>2, <2>5, <2>6, <1>4
  <2> QED BY <1>3, <2>4, <2>7 DEF Counted
<1> QED BY <1>3, <1>7, <1>8, <1>9 DEF e

(* And after the bytes it has heard have gone to the socket.                  *)
PumpedFlow(f, t)   == [Drained(f) EXCEPT !.pending = @ - Room(Drained(f), t)]
PumpedSocket(f, t) == [t EXCEPT !.tx = @ + Room(Drained(f), t)]
(* A flow and its socket after the pass that drains the channel.              *)
LEMMA PumpedKeeps ==
  ASSUME NEW s \in Sockets, NEW f \in FlowRecords, Shape(s, f),
         NEW t \in {s, Aborted(s)}, Failing(f) => t = Aborted(s)
  PROVE  /\ PumpedSocket(f, t) \in Sockets /\ PumpedFlow(f, t) \in FlowRecords
         /\ Shape(PumpedSocket(f, t), PumpedFlow(f, t))
         /\ PumpedSocket(f, t).conn = s.conn
         /\ PumpedSocket(f, t).st = s.st \/ PumpedSocket(f, t).st = "closed"
         /\ f.reader = "eof" => PumpedFlow(f, t).reader = "eof"
         /\ PumpedSocket(f, t).st # "closed" =>
               \A u, d, k : Counted(s, f, u, d, k) => Counted(PumpedSocket(f, t), PumpedFlow(f, t), u, d, k)
<1> DEFINE e == Drained(f)
           n == Room(e, t)
           v == PumpedSocket(f, t)
           g == PumpedFlow(f, t)
<1>1. s.st # "free" /\ f # NoFlow
  BY NoFlowIsNone DEF Shape
<1>2. /\ t \in Sockets /\ Shape(t, f) /\ t.conn = s.conn /\ (t.st = s.st \/ t.st = "closed")
      /\ t.st # "closed" => t = s
  BY <1>1, AbortedKeeps
<1>3. /\ e \in FlowRecords /\ Shape(t, e) /\ e # NoFlow /\ (f.reader = "eof" => e.reader = "eof")
      /\ ~Failing(f) => \A u, d, k : Counted(t, f, u, d, k) => Counted(t, e, u, d, k)
  BY <1>2, DrainedKeeps, NoFlowIsNone
<1>4. v = [t EXCEPT !.tx = t.tx + n] /\ g = [e EXCEPT !.pending = e.pending - n]
  BY DEF PumpedSocket, PumpedFlow
<1>5. t.tx \in Int /\ e.pending \in Int /\ t.tx <= TxCap /\ TxCap \in Nat
  BY <1>2, <1>3, NoFlowIsNone DEF Sockets, FlowRecords, Shape
<1>6. n \in Int /\ t.tx + n <= TxCap /\ (e.pending = 0 => n = 0) /\ (~MaySend(t) => n = 0)
  BY <1>5 DEF Room, Lesser
<1> HIDE DEF n, e
<1>7. v \in Sockets /\ g \in FlowRecords
  <2>1. t.tx + n \in Int /\ e.pending - n \in Int
    BY <1>5, <1>6
  <2>2. v \in Sockets
    BY <2>1, <1>2, <1>4 DEF Sockets
  <2>3. g \in FlowRecords
    BY <2>1, <1>3, <1>4 DEF FlowRecords
  <2> QED BY <2>2, <2>3
<1>8. /\ v.st = t.st /\ v.conn = t.conn /\ v.rx = t.rx /\ v.tx = t.tx + n
      /\ g.pending = e.pending - n /\ g.chan = e.chan /\ g.reader = e.reader /\ g.writer = e.writer
      /\ g.upch = e.upch /\ g.held = e.held /\ g.wrote = e.wrote /\ g.linked = e.linked
      /\ g.again = e.again /\ g.target = e.target /\ g.opened = e.opened /\ g.up = e.up
  BY <1>2, <1>3, <1>4 DEF Sockets, FlowRecords
<1> HIDE DEF v, g
<1>9. g # NoFlow /\ Queued(g) = Queued(e)
  BY <1>7, <1>8, NoFlowIsNone DEF Queued
<1>10. t.st = "listen" \/ t.st \in Closing => n = 0
  BY <1>6 DEF MaySend, Closing
<1>11. Shape(v, g)
  <2>1. t.st = "listen" => v.tx = 0
    BY <1>2, <1>5, <1>8, <1>10 DEF Shape
  <2>2. ~e.linked => g.pending = 0
    BY <1>3, <1>5, <1>6, <1>8 DEF Shape
  <2> QED BY <1>3, <1>6, <1>8, <1>9, <2>1, <2>2 DEF Shape
<1>12. ASSUME v.st # "closed", NEW u, NEW d, NEW k, Counted(s, f, u, d, k) PROVE Counted(v, g, u, d, k)
  <2>1. t = s /\ t # Aborted(s)
    BY <1>2, <1>8, <1>12, <1>1, AbortedKeeps
  <2>2. Counted(t, e, u, d, k)
    BY <2>1, <1>3, <1>12
  <2>3. Queued(e) \in Int /\ e.pending \in Int
    <3>1. Queued(e) = DataIn(e.chan) /\ e.chan \in Seq(Messages)
      BY <1>3, HeardFacts
    <3>2. DataIn(e.chan) = Queued(e) /\ IsFiniteSet({i \in 1..Len(e.chan) : e.chan[i] = "data"})
      <4>1. IsFiniteSet(1..Len(e.chan))
        BY <3>1, FS_Interval
      <4>2. {i \in 1..Len(e.chan) : e.chan[i] = "data"} \in SUBSET (1..Len(e.chan))
        OBVIOUS
      <4> QED BY <4>1, <4>2, <3>1, FS_Subset
    <3> QED BY <3>2, <1>5, FS_CardinalityType DEF DataIn
  <2>4. g.writer # "dead" => v.rx + g.upch + g.held + g.wrote = u
    BY <2>2, <1>3, <1>8 DEF Counted
  <2>5. CASE t.st \in Closing
    <3>1. v.tx + k = d
      BY <2>2, <2>5, <1>3, <1>5, <1>8, <1>10 DEF Counted
    <3> QED BY <3>1, <2>4, <2>5, <1>8, <1>9 DEF Counted
  <2>6. CASE t.st \notin Closing
    <3>1. t.tx + e.pending + Queued(e) = d /\ k = 0
      BY <2>2, <2>6, <1>3 DEF Counted
    <3>2. (t.tx + n) + (e.pending - n) + Queued(e) = t.tx + e.pending + Queued(e)
      BY <2>3, <1>5, <1>6
    <3> QED BY <3>1, <3>2, <2>4, <2>6, <1>8, <1>9 DEF Counted
  <2> QED BY <2>5, <2>6
<1> QED BY <1>2, <1>3, <1>7, <1>8, <1>11, <1>12 DEF v, g

(* A slot as it was, or emptied, or with a listener, or with a new flow.      *)
Kept(h, s, f) ==
    \/ s[h] = sock[h] /\ f[h] = flow[h]
    \/ s[h] \in {Free, AddListener} /\ f[h] = NoFlow
    \/ s[h] = sock[h] /\ flow[h] = NoFlow /\ f[h] = NewFlow(sock[h].conn) /\ sock[h].st = "synrcvd"

(* There is room for a listener, because the flows are fewer than the slots.  *)
LEMMA FreeSlotFacts ==
  ASSUME NEW s, \E h \in Slots : s[h].st = "free"
  PROVE  FreeSlot(s) \in Slots /\ s[FreeSlot(s)].st = "free"
<1> DEFINE F == {h \in Slots : s[h].st = "free"}
<1>1. F \in SUBSET Nat /\ F # {}
  BY NoFlowIsNone
<1> HIDE DEF F
<1>2. Min(F) \in F
  BY <1>1, MinFacts
<1> QED BY <1>2 DEF F, FreeSlot

(* When there is room for a flow more, a slot is free.                        *)
LEMMA RoomForListener ==
  ASSUME NEW s, NEW f, NEW l \in Slots, Cardinality(Flows(f)) < MaxFlows,
         \A h \in Slots : s[h].st # "free" => f[h] # NoFlow \/ h = l
  PROVE  \E h \in Slots : s[h].st = "free"
<1> SUFFICES ASSUME \A h \in Slots : s[h].st # "free" PROVE FALSE
  OBVIOUS
<1>1. Slots \subseteq Flows(f) \cup {l}
  BY DEF Flows
<1>2. IsFiniteSet(Slots) /\ Cardinality(Slots) > MaxFlows /\ MaxFlows \in Nat
  BY NoFlowIsNone, FlowsAssumption
<1>3. IsFiniteSet(Flows(f)) /\ Cardinality(Flows(f)) \in Nat
  BY <1>2, FS_Subset, FS_CardinalityType DEF Flows
<1>4. /\ IsFiniteSet(Flows(f) \cup {l}) /\ Cardinality(Flows(f) \cup {l}) \in Nat
      /\ Cardinality(Flows(f) \cup {l}) <= Cardinality(Flows(f)) + 1
  <2>1. /\ IsFiniteSet(Flows(f) \cup {l})
        /\ Cardinality(Flows(f) \cup {l}) =
              IF l \in Flows(f) THEN Cardinality(Flows(f)) ELSE Cardinality(Flows(f)) + 1
    BY <1>3, FS_AddElement
  <2>2. Cardinality(Flows(f) \cup {l}) \in Nat
    BY <2>1, FS_CardinalityType
  <2>3. CASE l \in Flows(f)
    BY <1>3, <2>1, <2>2, <2>3
  <2>4. CASE l \notin Flows(f)
    BY <1>3, <2>1, <2>2, <2>4
  <2> QED BY <2>3, <2>4
<1>5. Cardinality(Slots) <= Cardinality(Flows(f) \cup {l}) /\ Cardinality(Slots) \in Nat
  BY <1>1, <1>2, <1>4, FS_Subset, FS_CardinalityType
<1> QED BY <1>2, <1>3, <1>4, <1>5

(* A new flow fits the socket it is made of.                                  *)
LEMMA NewFlowFits ==
  ASSUME NEW s \in Sockets, Shape(s, NoFlow), s.st = "synrcvd"
  PROVE  /\ NewFlow(s.conn) \in FlowRecords /\ Shape(s, NewFlow(s.conn))
         /\ \A u, d, k : Counted(s, NoFlow, u, d, k) => Counted(s, NewFlow(s.conn), u, d, k)
<1> DEFINE g == NewFlow(s.conn)
<1>1. <<>> \in Seq(Messages) /\ s.conn \in Conns \cup {None} /\ s.rx \in Int /\ s.tx \in Int
  BY DEF Sockets
<1>2. g \in FlowRecords
  BY <1>1 DEF NewFlow, FlowRecords
<1>3. g # NoFlow
  BY <1>2, NoFlowIsNone
<1>4. /\ g.target = s.conn /\ ~g.opened /\ g.up = "none" /\ g.chan = <<>> /\ g.reader = "none"
      /\ g.pending = 0 /\ ~g.linked /\ g.upch = 0 /\ g.writer = "none" /\ g.held = 0 /\ g.wrote = 0
  BY DEF NewFlow
<1> HIDE DEF g
<1>5. Shape(s, g)
  BY <1>3, <1>4 DEF Shape, Closing
<1>6. Queued(g) = 0
  <2>1. Queued(g) = DataIn(g.chan)
    BY <1>2, HeardFacts
  <2>2. {i \in 1..Len(g.chan) : g.chan[i] = "data"} = {}
    BY <1>4
  <2> QED BY <2>1, <2>2, FS_EmptySet DEF DataIn
<1>7. ASSUME NEW u, NEW d, NEW k, Counted(s, NoFlow, u, d, k) PROVE Counted(s, g, u, d, k)
  <2>1. s.rx = u /\ s.tx = d /\ k = 0
    BY <1>7 DEF Counted
  <2>2. s.rx + 0 + 0 + 0 = u /\ s.tx + 0 + 0 = d
    BY <2>1, <1>1
  <2>3. s.st \notin Closing
    BY DEF Closing
  <2> QED BY <2>1, <2>2, <2>3, <1>3, <1>4, <1>6 DEF Counted
<1> QED BY <1>2, <1>5, <1>7 DEF g

(* step() makes a flow of a connection, or drops it.                          *)
LEMMA AcceptFacts ==
  ASSUME SlotsTyped(sock, flow), Placed(sock, flow, listener)
  PROVE  /\ SlotsTyped(Accept.sock, Accept.flow) /\ Placed(Accept.sock, Accept.flow, Accept.listener)
         /\ \A h \in Slots : /\ Kept(h, Accept.sock, Accept.flow)
                             /\ Accept.flow[h] = NoFlow => Accept.sock[h].st # "synrcvd"
<1> DEFINE l    == listener
           full == Cardinality(Flows(flow)) >= MaxFlows
           s    == IF full THEN [sock EXCEPT ![l] = Free] ELSE sock
           n    == FreeSlot(s)
           t    == [s EXCEPT ![n] = AddListener]
           f    == IF full THEN flow ELSE [flow EXCEPT ![l] = NewFlow(sock[l].conn)]
<1>1. /\ l \in Slots /\ sock \in [Slots -> Sockets] /\ flow \in [Slots -> FlowRecords \cup {NoFlow}]
      /\ sock[l].st # "free" /\ flow[l] = NoFlow
      /\ \A h \in Slots : sock[h].st # "free" => flow[h] # NoFlow \/ h = l
      /\ \A h \in Slots : Shape(sock[h], flow[h])
      /\ \A h, k \in Slots : sock[h].conn \in Conns /\ sock[h].conn = sock[k].conn => h = k
  BY DEF SlotsTyped, Placed
<1>2. sock[l].st \in {"listen", "synrcvd"}
  BY <1>1 DEF Shape
<1>3. CASE sock[l].st = "listen"
  <2>1. Accept.sock = sock /\ Accept.flow = flow /\ Accept.listener = l
    BY <1>3 DEF Accept
  <2>2. ASSUME NEW h \in Slots, flow[h] = NoFlow PROVE sock[h].st # "synrcvd"
    BY <2>2, <1>1, <1>3
  <2> QED BY <2>1, <2>2 DEF Kept
<1>4. CASE sock[l].st = "synrcvd"
  <2>1. Accept.sock = t /\ Accept.flow = f /\ Accept.listener = n
    BY <1>4 DEF Accept
  <2>2. Free \in Sockets /\ AddListener \in Sockets /\ Free.conn = None /\ AddListener.conn = None
        /\ Free.st = "free" /\ AddListener.st = "listen"
    BY DEF Free, AddListener, Sockets, SocketStates
  <2>3. Shape(Free, NoFlow) /\ Shape(AddListener, NoFlow)
    BY NoFlowIsNone DEF Shape, Free, AddListener
  <2>4. /\ NewFlow(sock[l].conn) \in FlowRecords /\ Shape(sock[l], NewFlow(sock[l].conn))
        /\ NewFlow(sock[l].conn) # NoFlow
    BY <1>1, <1>4, NewFlowFits, NoFlowIsNone
  <2>5. Cardinality(Flows(flow)) \in Nat /\ MaxFlows \in Nat
    <3>1. IsFiniteSet(Flows(flow))
      BY NoFlowIsNone, FS_Subset DEF Flows
    <3> QED BY <3>1, NoFlowIsNone, FS_CardinalityType
  <2>6. \E h \in Slots : s[h].st = "free"
    <3>1. CASE full
      BY <3>1, <1>1, <2>2
    <3>2. CASE ~full
      <4>1. Cardinality(Flows(flow)) < MaxFlows
        BY <3>2, <2>5
      <4> QED BY <4>1, <3>2, <1>1, RoomForListener
    <3> QED BY <3>1, <3>2
  <2> HIDE DEF n, s, full
  <2>7. n \in Slots /\ s[n].st = "free"
    BY <2>6, FreeSlotFacts DEF n
  <2>8. CASE full
    <3>1. /\ s = [sock EXCEPT ![l] = Free] /\ f = flow
      BY <2>8 DEF s
    <3> HIDE DEF f
    <3>2. /\ t \in [Slots -> Sockets] /\ t[n] = AddListener
          /\ \A h \in Slots : h # n => t[h] = IF h = l THEN Free ELSE sock[h]
      BY <3>1, <1>1, <2>2, <2>7
    <3> HIDE DEF t
    <3>3. flow[n] = NoFlow
      BY <3>1, <1>1, <2>7 DEF Shape
    <3>4. ASSUME NEW h \in Slots
          PROVE  /\ Kept(h, t, f) /\ Shape(t[h], f[h]) /\ (t[h].st # "free" => f[h] # NoFlow \/ h = n)
                 /\ f[h] = NoFlow => t[h].st # "synrcvd"
      <4>1. CASE h = n
        BY <4>1, <3>1, <3>2, <3>3, <2>2, <2>3 DEF Kept
      <4>2. CASE h # n /\ h = l
        BY <4>2, <3>1, <3>2, <1>1, <2>2, <2>3 DEF Kept
      <4>3. CASE h # n /\ h # l
        <5>1. t[h] = sock[h] /\ f[h] = flow[h]
          BY <4>3, <3>1, <3>2
        <5>2. sock[h].st # "free" => flow[h] # NoFlow
          BY <4>3, <1>1
        <5>3. flow[h] = NoFlow => sock[h].st = "free"
          BY <5>2
        <5> QED BY <5>1, <5>2, <5>3, <1>1 DEF Kept
      <4> QED BY <4>1, <4>2, <4>3
    <3>5. ASSUME NEW h \in Slots, NEW k \in Slots, t[h].conn \in Conns, t[h].conn = t[k].conn PROVE h = k
      <4>1. h # n /\ h # l /\ k # n /\ k # l
        BY <3>2, <3>5, <2>2, NoFlowIsNone
      <4> QED BY <4>1, <3>2, <3>5, <1>1
    <3>6. t[n].st # "free" /\ f[n] = NoFlow
      BY <3>1, <3>2, <3>3, <2>2
    <3> QED BY <2>1, <2>7, <3>1, <3>2, <3>4, <3>5, <3>6, <1>1 DEF SlotsTyped, Placed
  <2>9. CASE ~full
    <3>1. s = sock /\ f = [flow EXCEPT ![l] = NewFlow(sock[l].conn)]
      BY <2>9 DEF s
    <3> HIDE DEF f
    <3>2. /\ t \in [Slots -> Sockets] /\ t[n] = AddListener
          /\ \A h \in Slots : h # n => t[h] = sock[h]
      BY <3>1, <1>1, <2>2, <2>7
    <3> HIDE DEF t
    <3>3. flow[n] = NoFlow /\ n # l
      BY <3>1, <1>1, <2>7 DEF Shape
    <3>4. /\ f \in [Slots -> FlowRecords \cup {NoFlow}] /\ f[l] = NewFlow(sock[l].conn)
          /\ \A h \in Slots : h # l => f[h] = flow[h]
      <4> DEFINE e == NewFlow(sock[l].conn)
      <4>1. e \in FlowRecords \cup {NoFlow} /\ f = [flow EXCEPT ![l] = e]
        BY <3>1, <2>4
      <4> HIDE DEF e
      <4>2. f \in [Slots -> FlowRecords \cup {NoFlow}] /\ f[l] = e /\ \A h \in Slots : h # l => f[h] = flow[h]
        BY <4>1, <1>1
      <4> QED BY <4>2 DEF e
    <3>5. ASSUME NEW h \in Slots
          PROVE  /\ Kept(h, t, f) /\ Shape(t[h], f[h]) /\ (t[h].st # "free" => f[h] # NoFlow \/ h = n)
                 /\ f[h] = NoFlow => t[h].st # "synrcvd"
      <4>1. CASE h = n
        BY <4>1, <3>2, <3>3, <3>4, <2>2, <2>3 DEF Kept
      <4>2. CASE h = l
        BY <4>2, <3>2, <3>3, <3>4, <1>1, <1>4, <2>4 DEF Kept
      <4>3. CASE h # n /\ h # l
        <5>1. t[h] = sock[h] /\ f[h] = flow[h]
          BY <4>3, <3>2, <3>4
        <5>2. sock[h].st # "free" => flow[h] # NoFlow
          BY <4>3, <1>1
        <5>3. flow[h] = NoFlow => sock[h].st = "free"
          BY <5>2
        <5> QED BY <5>1, <5>2, <5>3, <1>1 DEF Kept
      <4> QED BY <4>1, <4>2, <4>3
    <3>6. ASSUME NEW h \in Slots, NEW k \in Slots, t[h].conn \in Conns, t[h].conn = t[k].conn PROVE h = k
      <4>1. h # n /\ k # n
        BY <3>2, <3>6, <2>2, NoFlowIsNone
      <4> QED BY <4>1, <3>2, <3>6, <1>1
    <3>7. t[n].st # "free" /\ f[n] = NoFlow
      BY <3>2, <3>3, <3>4, <2>2, <2>7
    <3> QED BY <2>1, <2>7, <3>2, <3>4, <3>5, <3>6, <3>7 DEF SlotsTyped, Placed
  <2> QED BY <2>8, <2>9
<1> QED BY <1>2, <1>3, <1>4

(* A step of the stack with a slot, of which the counts know nothing.         *)
Follows(s, f, t, g) ==
    /\ t.conn \in Conns => t.conn = s.conn
    /\ t.conn \in Conns /\ t.st # "closed" =>
          s.st # "closed" /\ \A u, d, k : Counted(s, f, u, d, k) => Counted(t, g, u, d, k)
    /\ t.conn \in Conns /\ Past(s, f) => Past(t, g)

(* So two changes make one.                                                   *)
LEMMA FollowsTwice ==
  ASSUME NEW s, NEW f, NEW t, NEW g, NEW v, NEW e, Follows(s, f, t, g), Follows(t, g, v, e)
  PROVE  Follows(s, f, v, e)
BY DEF Follows

(* After it everything is counted as before.                                  *)
LEMMA FollowsAll ==
  ASSUME Accounts, Histories, \A h \in Slots : Follows(sock[h], flow[h], sock'[h], flow'[h]),
         UNCHANGED <<app, sent, got, read, cut, end, inbound>>
  PROVE  Accounts' /\ Histories'
<1>1. Accounts'
  <2> SUFFICES ASSUME NEW h \in Slots, NEW c \in Conns,
                      sock'[h].conn = c, app[c] # "gone", sock'[h].st # "closed"
               PROVE  Counted(sock'[h], flow'[h], Arrived(c)', read[c] - got[c], cut[c])
    BY DEF Accounts
  <2>1. Arrived(c)' = Arrived(c)
    BY DEF Arrived, Under
  <2>2. /\ sock[h].conn = c /\ sock[h].st # "closed"
        /\ \A u, d, k : Counted(sock[h], flow[h], u, d, k) => Counted(sock'[h], flow'[h], u, d, k)
    BY DEF Follows
  <2>3. Counted(sock[h], flow[h], Arrived(c), read[c] - got[c], cut[c])
    BY <2>2 DEF Accounts
  <2> QED BY <2>1, <2>2, <2>3
<1>2. Histories'
  <2> SUFFICES ASSUME NEW c \in Conns
               PROVE  /\ app[c] = "idle" => Unmet(c)'
                      /\ Greets(c) => app[c] # "idle" /\ Unmet(c)'
                      /\ end[c] = "fin" => /\ got[c] + cut[c] = read[c]
                                           /\ \A h \in Slots : sock'[h].conn = c => Past(sock'[h], flow'[h])
    BY DEF Histories, Greets
  <2>3. Greets(c)' = Greets(c)
    BY DEF Greets
  <2>1. Unmet(c) => Unmet(c)'
    BY DEF Unmet, Follows
  <2>2. end[c] = "fin" => \A h \in Slots : sock'[h].conn = c => Past(sock'[h], flow'[h])
    BY DEF Histories, Follows
  <2> QED BY <2>1, <2>2, <2>3 DEF Histories
<1> QED BY <1>1, <1>2

(* Accept, of one slot.                                                       *)
LEMMA KeptFollows ==
  ASSUME SlotsTyped(sock, flow), NEW h \in Slots, Shape(sock[h], flow[h]), NEW s, NEW f, Kept(h, s, f)
  PROVE  Follows(sock[h], flow[h], s[h], f[h])
<1>1. CASE s[h] = sock[h] /\ f[h] = flow[h]
  BY <1>1 DEF Follows
<1>2. CASE s[h] \in {Free, AddListener}
  BY <1>2, NoFlowIsNone DEF Follows, Free, AddListener
<1>3. CASE s[h] = sock[h] /\ flow[h] = NoFlow /\ f[h] = NewFlow(sock[h].conn) /\ sock[h].st = "synrcvd"
  <2>1. \A u, d, k : Counted(sock[h], NoFlow, u, d, k) => Counted(sock[h], NewFlow(sock[h].conn), u, d, k)
    BY <1>3, NewFlowFits DEF SlotsTyped
  <2>2. ~Past(sock[h], flow[h])
    BY <1>3 DEF Past, Closing
  <2> QED BY <1>3, <2>1, <2>2 DEF Follows
<1> QED BY <1>1, <1>2, <1>3 DEF Kept

(* Adding nothing to what a socket has to send.                               *)
LEMMA NothingAdded ==
  ASSUME NEW s \in Sockets PROVE [s EXCEPT !.tx = @ + 0] = s
<1>1. s.tx + 0 = s.tx
  BY DEF Sockets
<1> QED BY <1>1 DEF Sockets

(* The first part of step(), of one slot: the record of the flow is as it     *)
(* was, or opened, and its socket may be aborted.                             *)
LEMMA PumpCases ==
  ASSUME SlotsTyped(Accept.sock, Accept.flow), Pump, NEW h \in Slots,
         Shape(Accept.sock[h], Accept.flow[h])
  PROVE  \/ Accept.flow[h] = NoFlow /\ flow'[h] = NoFlow /\ sock'[h] = Accept.sock[h]
         \/ /\ Accept.flow[h] # NoFlow
            /\ \E f \in {Accept.flow[h], Opened(Accept.flow[h])}, t \in {Accept.sock[h], Aborted(Accept.sock[h])} :
                  /\ f # Accept.flow[h] => Ready(Accept.flow[h], Accept.sock[h])
                  /\ Failing(f) => t = Aborted(Accept.sock[h])
                  /\ flow'[h] = PumpedFlow(f, t) /\ sock'[h] = PumpedSocket(f, t)
<1> DEFINE a     == Accept
           dead  == {x \in Slots : Stillborn(a.flow[x], a.sock[x])}
           open  == [x \in Slots |-> IF Ready(a.flow[x], a.sock[x])
                                     THEN Opened(a.flow[x]) ELSE a.flow[x]]
           sick  == {x \in Flows(open) : Failing(open[x])}
           heard == [x \in Slots |-> IF open[x] = NoFlow THEN NoFlow ELSE Drained(open[x])]
           s     == [x \in Slots |-> IF x \in dead \cup sick THEN Aborted(a.sock[x])
                                     ELSE a.sock[x]]
           n     == [x \in Slots |-> IF heard[x] = NoFlow THEN 0 ELSE Room(heard[x], s[x])]
<1>1. /\ flow' = [x \in Slots |-> IF heard[x] = NoFlow THEN NoFlow
                                  ELSE [heard[x] EXCEPT !.pending = @ - n[x]]]
      /\ sock' = [x \in Slots |-> [s[x] EXCEPT !.tx = @ + n[x]]]
  BY DEF Pump
<1>2. a.sock[h] \in Sockets /\ a.flow[h] \in FlowRecords \cup {NoFlow}
  BY DEF SlotsTyped
<1>3. CASE a.flow[h] = NoFlow
  <2>1. open[h] = NoFlow /\ h \notin dead
    BY <1>3 DEF Ready, Stillborn
  <2>2. heard[h] = NoFlow /\ h \notin sick
    BY <2>1 DEF Flows
  <2>3. n[h] = 0 /\ s[h] = a.sock[h]
    BY <2>1, <2>2
  <2>4. flow'[h] = NoFlow /\ sock'[h] = [a.sock[h] EXCEPT !.tx = @ + 0]
    BY <1>1, <2>2, <2>3
  <2> QED BY <1>2, <1>3, <2>4, NothingAdded
<1>4. CASE a.flow[h] # NoFlow
  <2>1. /\ open[h] \in {a.flow[h], Opened(a.flow[h])}
        /\ open[h] # a.flow[h] => Ready(a.flow[h], a.sock[h])
    OBVIOUS
  <2>2. open[h] \in FlowRecords /\ Shape(a.sock[h], open[h])
    BY <2>1, <1>2, <1>4, OpenedKeeps
  <2>3. s[h] \in {a.sock[h], Aborted(a.sock[h])}
    OBVIOUS
  <2>4. Failing(open[h]) => s[h] = Aborted(a.sock[h])
    BY <2>2, NoFlowIsNone DEF Flows
  <2>5. heard[h] = Drained(open[h]) /\ heard[h] # NoFlow
    <3>1. heard[h] = Drained(open[h])
      BY <2>2, NoFlowIsNone
    <3>2. Drained(open[h]) \in FlowRecords
      BY <1>2, <2>2, DrainedKeeps
    <3> QED BY <3>1, <3>2, NoFlowIsNone
  <2>6. n[h] = Room(heard[h], s[h])
    BY <2>5
  <2>7. flow'[h] = PumpedFlow(open[h], s[h]) /\ sock'[h] = PumpedSocket(open[h], s[h])
    BY <1>1, <2>5, <2>6 DEF PumpedFlow, PumpedSocket
  <2> HIDE DEF open, s, heard, n, dead, sick
  <2> QED BY <2>1, <2>3, <2>4, <2>7, <1>4
<1> QED BY <1>3, <1>4

(* The first part of step() leaves a slot sound and counted.                  *)
LEMMA PumpedSlot ==
  ASSUME SlotsTyped(Accept.sock, Accept.flow), Pump, NEW h \in Slots,
         Shape(Accept.sock[h], Accept.flow[h])
  PROVE  /\ sock'[h] \in Sockets /\ flow'[h] \in FlowRecords \cup {NoFlow}
         /\ (flow'[h] = NoFlow) <=> (Accept.flow[h] = NoFlow)
         /\ flow'[h] = NoFlow => sock'[h] = Accept.sock[h]
         /\ sock'[h].conn = Accept.sock[h].conn /\ Shape(sock'[h], flow'[h])
         /\ Follows(Accept.sock[h], Accept.flow[h], sock'[h], flow'[h])
<1> DEFINE s == Accept.sock[h]
           e == Accept.flow[h]
<1>1. s \in Sockets /\ e \in FlowRecords \cup {NoFlow}
  BY DEF SlotsTyped
<1>2. CASE e = NoFlow /\ flow'[h] = NoFlow /\ sock'[h] = s
  BY <1>1, <1>2 DEF Follows
<1>3. ASSUME e # NoFlow, NEW f \in {e, Opened(e)}, NEW t \in {s, Aborted(s)}, f # e => Ready(e, s),
             Failing(f) => t = Aborted(s), flow'[h] = PumpedFlow(f, t), sock'[h] = PumpedSocket(f, t)
      PROVE  /\ sock'[h] \in Sockets /\ flow'[h] \in FlowRecords /\ sock'[h].conn = s.conn
             /\ Shape(sock'[h], flow'[h]) /\ Follows(s, e, sock'[h], flow'[h])
  <2> DEFINE v == PumpedSocket(f, t)
             g == PumpedFlow(f, t)
  <2>1. /\ f \in FlowRecords /\ Shape(s, f) /\ f.reader = e.reader
        /\ \A u, d, k : Counted(s, e, u, d, k) => Counted(s, f, u, d, k)
    BY <1>1, <1>3, OpenedKeeps
  <2>2. /\ v \in Sockets /\ g \in FlowRecords /\ Shape(v, g) /\ v.conn = s.conn
        /\ v.st # "closed" => \A u, d, k : Counted(s, f, u, d, k) => Counted(v, g, u, d, k)
    BY <1>1, <1>3, <2>1, PumpedKeeps
  <2>3. f.reader = "eof" => g.reader = "eof"
    BY <1>1, <1>3, <2>1, PumpedKeeps
  <2>4. v.st = s.st \/ v.st = "closed"
    BY <1>1, <1>3, <2>1, PumpedKeeps
  <2> HIDE DEF v, g
  <2>5. v.st # "closed" => \A u, d, k : Counted(s, e, u, d, k) => Counted(v, g, u, d, k)
    BY <2>1, <2>2
  <2>6. Past(s, e) => Past(v, g)
    BY <1>3, <2>1, <2>3, <2>4 DEF Past
  <2>7. Follows(s, e, v, g)
    BY <2>2, <2>4, <2>5, <2>6 DEF Follows
  <2> QED BY <1>3, <2>2, <2>7 DEF v, g
<1> QED BY <1>1, <1>2, <1>3, PumpCases, NoFlowIsNone

(* The first part of step().                                                  *)
LEMMA PumpPreserves ==
  ASSUME FlowsInv, Pump
  PROVE  FlowsInv'
<1>0. /\ FlowsTyped /\ Placed(sock, flow, listener) /\ Accounts /\ Histories
      /\ SlotsTyped(sock, flow)
  BY DEF FlowsInv, FlowsTyped
<1>1. /\ SlotsTyped(Accept.sock, Accept.flow) /\ Placed(Accept.sock, Accept.flow, Accept.listener)
      /\ \A h \in Slots : /\ Kept(h, Accept.sock, Accept.flow)
                          /\ Accept.flow[h] = NoFlow => Accept.sock[h].st # "synrcvd"
  BY <1>0, AcceptFacts
<1>2. ASSUME NEW h \in Slots
      PROVE  /\ sock'[h] \in Sockets /\ flow'[h] \in FlowRecords \cup {NoFlow}
             /\ (flow'[h] = NoFlow) <=> (Accept.flow[h] = NoFlow)
             /\ flow'[h] = NoFlow => sock'[h] = Accept.sock[h]
             /\ sock'[h].conn = Accept.sock[h].conn /\ Shape(sock'[h], flow'[h])
             /\ Follows(Accept.sock[h], Accept.flow[h], sock'[h], flow'[h])
  <2>1. Shape(Accept.sock[h], Accept.flow[h])
    BY <1>1 DEF Placed
  <2> QED BY <2>1, <1>1, PumpedSlot
<1>3. \A h \in Slots : Follows(sock[h], flow[h], sock'[h], flow'[h])
  <2> SUFFICES ASSUME NEW h \in Slots PROVE Follows(sock[h], flow[h], sock'[h], flow'[h])
    OBVIOUS
  <2>1. Follows(sock[h], flow[h], Accept.sock[h], Accept.flow[h])
    BY <1>0, <1>1, KeptFollows DEF Placed
  <2> QED BY <2>1, <1>2, FollowsTwice
<1>4. /\ pc' = "poll" /\ UNCHANGED <<inbound, app, sent, got, end, read, cut>> /\ listener' = Accept.listener
      /\ flow' = [h \in Slots |-> flow'[h]] /\ sock' = [h \in Slots |-> sock'[h]]
  BY DEF Pump, appVars
<1>5. SlotsTyped(sock', flow')
  BY <1>2, <1>4 DEF SlotsTyped
<1>6. FlowsTyped'
  BY <1>0, <1>4, <1>5 DEF FlowsTyped, SlotsTyped
<1>7. Placed(sock', flow', listener')
  <2>1. /\ listener' \in Slots /\ Accept.sock[listener'].st # "free" /\ Accept.flow[listener'] = NoFlow
        /\ \A h \in Slots : Accept.sock[h].st # "free" => Accept.flow[h] # NoFlow \/ h = listener'
        /\ \A h, k \in Slots : Accept.sock[h].conn \in Conns /\ Accept.sock[h].conn = Accept.sock[k].conn => h = k
    BY <1>1, <1>4 DEF Placed
  <2>2. sock'[listener'].st # "free" /\ flow'[listener'] = NoFlow
    BY <2>1, <1>2
  <2>3. \A h \in Slots : sock'[h].st # "free" => flow'[h] # NoFlow \/ h = listener'
    BY <2>1, <1>2
  <2>4. \A h, k \in Slots : sock'[h].conn \in Conns /\ sock'[h].conn = sock'[k].conn => h = k
    BY <2>1, <1>2
  <2> QED BY <2>1, <2>2, <2>3, <2>4, <1>2 DEF Placed
<1>8. doomed' \subseteq Flows(flow')
  <2> SUFFICES ASSUME NEW h \in Slots, h \in doomed', Accept.flow[h] = NoFlow PROVE FALSE
    <3>1. doomed' \subseteq Slots
      BY DEF Pump, Flows
    <3> QED BY <3>1, <1>2 DEF Flows
  <2>1. ~Stillborn(Accept.flow[h], Accept.sock[h]) /\ ~Ready(Accept.flow[h], Accept.sock[h])
    BY DEF Stillborn, Ready
  <2> QED BY <2>1 DEF Pump, Flows
<1>9. \A h \in Slots : flow'[h] = NoFlow => sock'[h].st # "synrcvd"
  BY <1>1, <1>2
<1>10. Accounts' /\ Histories'
  BY <1>0, <1>3, <1>4, FollowsAll
<1> QED BY <1>6, <1>7, <1>8, <1>9, <1>10 DEF FlowsInv

(* What the device hands over is one of these.                                *)
LEMMA ArrivalFacts ==
  ASSUME NEW p \in Arrivals
  PROVE  /\ p # None /\ p.conn \in Conns /\ p.bytes \in Int /\ p.kind \in {"syn", "seg", "rst"}
         /\ p.kind # "seg" => p.bytes = 0
<1>1. p \in Segments /\ p # None /\ (p.kind # "seg" => p.bytes = 0)
  BY FlowsAssumption DEF Arrivals
<1>2. p.bytes \in 0..1 /\ p.conn \in Conns /\ p.kind \in {"syn", "seg", "rst"}
  BY <1>1 DEF Segments
<1> QED BY <1>1, <1>2

(* A segment moves no bytes but its own, and opens nothing that was closed.   *)
LEMMA SegmentFacts ==
  ASSUME NEW s \in Sockets, Connected(s), NEW p, p.bytes \in Int
  PROVE  /\ Segment(s, p) \in Sockets /\ Segment(s, p).conn = s.conn
         /\ Segment(s, p).rx = s.rx + p.bytes /\ Segment(s, p).tx = s.tx
         /\ Segment(s, p).st \notin {"free", "listen", "closed", "synrcvd"}
         /\ Segment(s, p).st \in Closing <=> s.st \in Closing
<1> DEFINE e == [s EXCEPT !.st = IF @ = "synrcvd" THEN "estab" ELSE @, !.rx = @ + p.bytes]
<1>1. s.rx + p.bytes \in Int /\ s.st \in SocketStates /\ s.st \notin {"free", "listen", "closed"}
  BY DEF Sockets, Connected
<1>2. \A x \in {"estab", "closewait", "timewait", "lastack"} : x \in SocketStates
  BY DEF SocketStates, Closing
<1>3. e \in Sockets /\ e.conn = s.conn /\ e.rx = s.rx + p.bytes /\ e.tx = s.tx
      /\ e.st = IF s.st = "synrcvd" THEN "estab" ELSE s.st
  BY <1>1, <1>2 DEF Sockets
<1>4. e.st \notin {"free", "listen", "closed", "synrcvd"} /\ (e.st \in Closing <=> s.st \in Closing)
  BY <1>1, <1>3 DEF Closing
<1>5. Segment(s, p) = CASE ~p.fin -> e
                        [] e.st = "estab" -> [e EXCEPT !.st = "closewait"]
                        [] e.st = "finwait" -> [e EXCEPT !.st = IF end[p.conn] = "fin" THEN "timewait" ELSE "lastack"]
                        [] OTHER -> e
  BY DEF Segment
<1> HIDE DEF e
<1>6. Segment(s, p) = e \/ (e.st = "estab" /\ Segment(s, p) = [e EXCEPT !.st = "closewait"])
      \/ (e.st = "finwait" /\ \E x \in {"timewait", "lastack"} : Segment(s, p) = [e EXCEPT !.st = x])
  <2>1. CASE e.st \notin {"estab", "finwait"}
    BY <1>5, <2>1
  <2>2. CASE e.st = "estab"
    BY <1>5, <2>2
  <2>3. CASE e.st = "finwait"
    BY <1>5, <2>3
  <2> QED BY <2>1, <2>2, <2>3
<1>7. CASE Segment(s, p) = e
  BY <1>3, <1>4, <1>7
<1>8. ASSUME NEW x \in {"closewait", "timewait", "lastack"}, Segment(s, p) = [e EXCEPT !.st = x],
             x \in Closing <=> e.st \in Closing
      PROVE  /\ Segment(s, p) \in Sockets /\ Segment(s, p).conn = s.conn
             /\ Segment(s, p).rx = s.rx + p.bytes /\ Segment(s, p).tx = s.tx /\ Segment(s, p).st = x
  <2>1. x \in SocketStates
    BY <1>2
  <2> QED BY <2>1, <1>3, <1>8 DEF Sockets
<1>9. /\ "closewait" \notin Closing /\ "timewait" \in Closing /\ "lastack" \in Closing
      /\ "estab" \notin Closing /\ "finwait" \in Closing
  BY DEF Closing
<1> QED BY <1>3, <1>4, <1>6, <1>7, <1>8, <1>9

(* What the packet does to the socket in slot h.                              *)
Passed(h) == /\ Taken[h] = sock[h]
             /\ \A c \in Conns : sock[h].conn = c /\ Connected(sock[h]) => Under(c) = 0
Called(h) == /\ inbound \in Arrivals /\ inbound.kind = "syn" /\ h = Min(Listening) /\ sock[h].st = "listen"
             /\ Taken[h] = [sock[h] EXCEPT !.st = "synrcvd", !.conn = inbound.conn]
Fed(h)    == /\ inbound \in Arrivals /\ sock[h].conn = inbound.conn /\ Connected(sock[h])
             /\ Taken[h] = Segment(sock[h], inbound)
Broken(h) == /\ inbound \in Arrivals /\ inbound.kind = "rst" /\ sock[h].conn = inbound.conn
             /\ Connected(sock[h]) /\ Taken[h] = Reset(sock[h])

(* These are all the cases.                                                   *)
LEMMA TakenCases ==
  ASSUME SlotsTyped(sock, flow), inbound \in Arrivals \cup {None}, NEW h \in Slots
  PROVE  Passed(h) \/ Called(h) \/ Fed(h) \/ Broken(h)
<1>1. CASE inbound = None
  BY <1>1 DEF Passed, Taken, Under
<1>2. CASE inbound # None
  <2>1. /\ inbound \in Arrivals /\ inbound.conn \in Conns /\ inbound.kind \in {"syn", "seg", "rst"}
        /\ inbound.kind # "seg" => inbound.bytes = 0
    BY <1>2, ArrivalFacts
  <2>2. \A c \in Conns : Under(c) # 0 => inbound.conn = c /\ inbound.kind = "seg"
    BY <2>1 DEF Under
  <2>3. CASE Unclaimed
    <3>1. Taken[h] = sock[h]
      <4>1. ~(inbound # None /\ inbound.kind = "syn" /\ Listening # {})
        BY <2>3 DEF Unclaimed
      <4> QED BY <2>3, <4>1 DEF Taken
    <3>2. inbound.kind = "seg" => SocketsOf(inbound.conn) = {}
      BY <2>3 DEF Unclaimed
    <3>3. Passed(h)
      BY <2>2, <3>1, <3>2 DEF Passed, SocketsOf
    <3> QED BY <3>3
  <2>4. CASE ~Unclaimed /\ inbound.kind = "syn"
    <3>1. Listening # {} /\ Listening \in SUBSET Nat
      BY <1>2, <2>4, NoFlowIsNone DEF Unclaimed, Listening
    <3>2. Min(Listening) \in Listening
      BY <3>1, MinFacts
    <3> DEFINE m == Min(Listening)
    <3>3. m \in Slots /\ sock[m].st = "listen"
      BY <3>2 DEF Listening
    <3>4. Taken = [sock EXCEPT ![m].st = "synrcvd", ![m].conn = inbound.conn]
      BY <1>2, <2>4, <3>1 DEF Taken
    <3> HIDE DEF m
    <3>5. CASE h = m
      <4>1. Taken[h] = [sock[h] EXCEPT !.st = "synrcvd", !.conn = inbound.conn]
        BY <3>3, <3>4, <3>5 DEF SlotsTyped
      <4>2. Called(h)
        BY <2>1, <2>4, <3>3, <3>5, <4>1 DEF Called, m
      <4> QED BY <4>2
    <3>6. CASE h # m
      <4>1. Taken[h] = sock[h]
        <5>1. DOMAIN sock = Slots
          BY DEF SlotsTyped
        <5> QED BY ONLY <5>1, <3>4, <3>6, h \in Slots
      <4> QED BY <4>1, <2>2, <2>4 DEF Passed
    <3> QED BY <3>5, <3>6
  <2>5. CASE ~Unclaimed /\ inbound.kind # "syn"
    <3>1. Taken = [x \in Slots |-> IF x \notin SocketsOf(inbound.conn) THEN sock[x]
                                   ELSE IF inbound.kind = "seg" THEN Segment(sock[x], inbound)
                                   ELSE Reset(sock[x])]
      BY <1>2, <2>5 DEF Taken
    <3>2. CASE h \notin SocketsOf(inbound.conn)
      BY <3>1, <3>2, <2>2 DEF Passed, SocketsOf
    <3>3. CASE h \in SocketsOf(inbound.conn) /\ inbound.kind = "seg"
      BY <3>1, <3>3, <2>1 DEF Fed, SocketsOf
    <3>4. CASE h \in SocketsOf(inbound.conn) /\ inbound.kind = "rst"
      BY <3>1, <3>4, <2>1 DEF Broken, SocketsOf
    <3> QED BY <3>2, <3>3, <3>4, <2>1, <2>5
  <2> QED BY <2>3, <2>4, <2>5
<1> QED BY <1>1, <1>2

(* What a socket is after the packet, whatever it was.                        *)
LEMMA TakenFacts ==
  ASSUME FlowsInv, pc = "poll", NEW h \in Slots
  PROVE  /\ Taken[h] \in Sockets
         /\ Passed(h) \/ Called(h) \/ Fed(h) \/ Broken(h)
         /\ Taken[h].st = "free" <=> sock[h].st = "free"
         /\ Taken[h].tx <= TxCap
         /\ Taken[h].st \in {"free", "listen"} => Taken[h].conn = None
         /\ Taken[h].st = "listen" => Taken[h].rx = 0 /\ Taken[h].tx = 0
         /\ Taken[h].st = "listen" => sock[h].st = "listen" \/ (Broken(h) /\ sock[h].st = "synrcvd")
         /\ Taken[h].st = "synrcvd" => sock[h].st \in {"listen", "synrcvd"}
         /\ Taken[h].conn \in Conns => Taken[h].conn = sock[h].conn \/ Called(h)
         /\ flow[h] = NoFlow => Passed(h) \/ Called(h)
         /\ flow[h] = NoFlow => Taken[h].st \in {"free", "listen", "synrcvd"}
         /\ sock[h].st \in Closing => Taken[h].st \in Closing \cup {"closed"}
         /\ sock[h].st = "closed" => Taken[h].st = "closed"
         /\ sock[h].st \notin Closing => Taken[h].st \notin Closing
<1> DEFINE s == sock[h]
           t == Taken[h]
<1>1. /\ s \in Sockets /\ Shape(s, flow[h]) /\ inbound \in Arrivals \cup {None}
      /\ flow[h] = NoFlow => s.st # "synrcvd"
      /\ SlotsTyped(sock, flow)
  BY DEF FlowsInv, FlowsTyped, SlotsTyped, Placed
<1>2. Passed(h) \/ Called(h) \/ Fed(h) \/ Broken(h)
  BY <1>1, TakenCases
<1>3. /\ s.tx <= TxCap /\ (s.st \in {"free", "listen"} => s.conn = None)
      /\ s.st = "listen" => s.rx = 0 /\ s.tx = 0
  BY <1>1 DEF Shape
<1>4. flow[h] = NoFlow => s.st \in {"free", "listen"}
  BY <1>1 DEF Shape
<1>5. {"free", "listen", "closed", "synrcvd"} \cap Closing = {} /\ TxCap \in Nat
  BY NoFlowIsNone DEF Closing
<1>6. CASE Passed(h)
  <2>1. t = s
    BY <1>6 DEF Passed
  <2> HIDE DEF t, s
  <2>2. flow[h] = NoFlow => t.st \in {"free", "listen", "synrcvd"}
    BY <1>4, <2>1
  <2> QED BY <1>1, <1>2, <1>3, <1>6, <2>1, <2>2 DEF t, s
<1>7. CASE Called(h)
  <2>1. s.st = "listen" /\ t = [s EXCEPT !.st = "synrcvd", !.conn = inbound.conn] /\ inbound.conn \in Conns
    BY <1>7, ArrivalFacts DEF Called
  <2>2. "synrcvd" \in SocketStates
    BY DEF SocketStates
  <2>3. t \in Sockets /\ t.st = "synrcvd" /\ t.tx = s.tx
    BY <1>1, <2>1, <2>2 DEF Sockets
  <2> HIDE DEF t, s
  <2> QED BY <1>2, <1>3, <1>5, <1>7, <2>1, <2>3 DEF t, s
<1>8. CASE Fed(h)
  <2>1. t = Segment(s, inbound) /\ Connected(s) /\ s.conn = inbound.conn /\ inbound.bytes \in Int
    BY <1>8, ArrivalFacts DEF Fed
  <2>2. /\ t \in Sockets /\ t.conn = s.conn /\ t.tx = s.tx
        /\ t.st \notin {"free", "listen", "closed", "synrcvd"} /\ (t.st \in Closing <=> s.st \in Closing)
    BY <1>1, <2>1, SegmentFacts
  <2>3. s.st \notin {"free", "listen", "closed"}
    BY <2>1 DEF Connected
  <2> HIDE DEF t, s
  <2> QED BY <1>2, <1>3, <1>4, <2>2, <2>3 DEF t, s
<1>9. CASE Broken(h)
  <2>1. t = Reset(s) /\ Connected(s)
    BY <1>9 DEF Broken
  <2>2. s.st \notin {"free", "listen", "closed"}
    BY <2>1 DEF Connected
  <2>3. CASE s.st = "synrcvd"
    <3>1. t = AddListener
      BY <2>1, <2>3 DEF Reset
    <3>2. t \in Sockets /\ t.st = "listen" /\ t.conn = None /\ t.rx = 0 /\ t.tx = 0
      BY <3>1 DEF AddListener, Sockets, SocketStates
    <3> HIDE DEF t, s
    <3> QED BY <1>2, <1>4, <1>5, <1>9, <2>2, <2>3, <3>2, NoFlowIsNone DEF t, s
  <2>4. CASE s.st # "synrcvd"
    <3>1. t = Aborted(s)
      BY <2>1, <2>4 DEF Reset
    <3>2. flow[h] # NoFlow
      BY <1>4, <2>2
    <3>3. t.st = "closed" /\ t.conn = s.conn /\ t.tx = 0
      <4> HIDE DEF t, s
      <4> QED BY <1>1, <3>1 DEF Aborted, Sockets
    <3>31. t \in Sockets
      <4>1. "closed" \in SocketStates /\ 0 \in Int
        BY DEF SocketStates
      <4> HIDE DEF t, s
      <4> QED BY <1>1, <3>1, <4>1 DEF Aborted, Sockets
    <3> HIDE DEF t, s
    <3> QED BY <1>2, <1>5, <2>2, <3>2, <3>3, <3>31 DEF t, s
  <2> QED BY <2>3, <2>4
<1> QED BY <1>2, <1>6, <1>7, <1>8, <1>9

(* close() of a socket.                                                       *)
LEMMA ClosedFacts ==
  ASSUME NEW s \in Sockets
  PROVE  /\ Closed(s) \in Sockets /\ Closed(s).conn = s.conn /\ Closed(s).rx = s.rx /\ Closed(s).tx = s.tx
         /\ Closed(s).st = "free" <=> s.st = "free"
         /\ Closed(s).st \notin {"listen", "synrcvd"}
         /\ Closed(s).st \in Closing <=> s.st \in Closing \cup {"synrcvd", "estab", "closewait"}
         /\ s.st = "closed" => Closed(s).st = "closed"
<1>1. \/ Closed(s) = s /\ s.st \notin {"synrcvd", "estab", "closewait", "listen"}
      \/ s.st \in {"synrcvd", "estab"} /\ Closed(s) = [s EXCEPT !.st = "finwait"]
      \/ s.st = "closewait" /\ Closed(s) = [s EXCEPT !.st = "lastack"]
      \/ s.st = "listen" /\ Closed(s) = [s EXCEPT !.st = "closed"]
  <2>1. CASE s.st \in {"synrcvd", "estab"}
    BY <2>1 DEF Closed
  <2>2. CASE s.st = "closewait"
    BY <2>2 DEF Closed
  <2>3. CASE s.st = "listen"
    BY <2>3 DEF Closed
  <2>4. CASE s.st \notin {"synrcvd", "estab", "closewait", "listen"}
    BY <2>4 DEF Closed
  <2> QED BY <2>1, <2>2, <2>3, <2>4
<1>2. {"finwait", "lastack", "closed"} \subseteq SocketStates
  BY DEF SocketStates, Closing
<1>3. s.st \in SocketStates
  BY DEF Sockets
<1>4. ASSUME NEW x \in {"finwait", "lastack", "closed"}, Closed(s) = [s EXCEPT !.st = x]
      PROVE  /\ Closed(s) \in Sockets /\ Closed(s).conn = s.conn /\ Closed(s).rx = s.rx /\ Closed(s).tx = s.tx
             /\ Closed(s).st = x
  BY <1>2, <1>4 DEF Sockets
<1> QED BY <1>1, <1>3, <1>4 DEF Closing, SocketStates

(* The second part of step(), of one socket.                                  *)
LEMMA After4Facts ==
  ASSUME NEW f \in FlowRecords, NEW t \in Sockets
  PROVE  /\ After4(f, t) \in Sockets /\ After4(f, t).conn = t.conn
         /\ t.st # "free" => After4(f, t).st # "free"
         /\ After4(f, t).st \in {"listen", "synrcvd"} => After4(f, t).st = t.st
         /\ t.st \in Closing \cup {"closed"} => After4(f, t).st \in Closing \cup {"closed"}
         /\ After4(f, t).st \in Closing => t.st \in Closing \/ Finished(f)
         /\ TakeUp(f, t) \in Int /\ (~f.linked => TakeUp(f, t) = 0)
         /\ ~Refused(f, t) =>
               /\ After4(f, t).rx = t.rx - TakeUp(f, t) /\ After4(f, t).tx = t.tx
               /\ t.st = "closed" => After4(f, t).st = "closed"
               /\ t.st \in Closing => After4(f, t).st \in Closing
               /\ ~Finished(f) => After4(f, t).st = t.st
               /\ Finished(f) /\ MaySend(t) => After4(f, t).st \in Closing
<1> DEFINE k == TakeUp(f, t)
           r == [t EXCEPT !.rx = @ - k]
           q == IF Refused(f, t) THEN Aborted(t) ELSE r
<1>1. t.rx \in Int /\ f.upch \in Int /\ f.linked \in BOOLEAN /\ UpCap \in Nat /\ t.st \in SocketStates
  BY NoFlowIsNone DEF Sockets, FlowRecords
<1>2. k \in Int /\ (~f.linked => k = 0)
  BY <1>1 DEF TakeUp, Lesser
<1> HIDE DEF k
<1>3. t.rx - k \in Int
  BY <1>1, <1>2
<1>4. r \in Sockets /\ r.conn = t.conn /\ r.st = t.st /\ r.tx = t.tx /\ r.rx = t.rx - k
  BY <1>3 DEF Sockets
<1>5. "closed" \in SocketStates /\ 0 \in Int
  BY DEF SocketStates
<1>6. Aborted(t) \in Sockets /\ Aborted(t).conn = t.conn /\ Aborted(t).st = "closed"
  <2>1. Aborted(t) \in Sockets
    BY <1>5 DEF Aborted, Sockets
  <2> QED BY <2>1 DEF Aborted, Sockets
<1> HIDE DEF r
<1>7. /\ q \in Sockets /\ q.conn = t.conn
      /\ Refused(f, t) => q.st = "closed"
      /\ ~Refused(f, t) => q.st = t.st /\ q.tx = t.tx /\ q.rx = t.rx - k
  BY <1>4, <1>6
<1>8. After4(f, t) = IF Finished(f) THEN Closed(q) ELSE q
  BY DEF After4, q, r, k
<1> HIDE DEF q
<1>9. /\ Closed(q) \in Sockets /\ Closed(q).conn = q.conn /\ Closed(q).rx = q.rx /\ Closed(q).tx = q.tx
      /\ Closed(q).st = "free" <=> q.st = "free"
      /\ Closed(q).st \notin {"listen", "synrcvd"}
      /\ Closed(q).st \in Closing <=> q.st \in Closing \cup {"synrcvd", "estab", "closewait"}
      /\ q.st = "closed" => Closed(q).st = "closed"
  BY <1>7, ClosedFacts
<1>10. "closed" \notin Closing /\ "free" \notin Closing /\ "listen" \notin Closing /\ "synrcvd" \notin Closing
  BY DEF Closing
<1>11. MaySend(t) => t.st \in {"estab", "closewait"}
  BY DEF MaySend
<1>12. CASE Finished(f)
  <2>1. After4(f, t) = Closed(q)
    BY <1>8, <1>12
  <2> QED BY <2>1, <1>2, <1>7, <1>9, <1>10, <1>11, <1>12 DEF k
<1>13. CASE ~Finished(f)
  <2>1. After4(f, t) = q
    BY <1>8, <1>13
  <2> QED BY <2>1, <1>2, <1>7, <1>10, <1>13 DEF k
<1> QED BY <1>12, <1>13

(* The second part of step(), of one slot.                                    *)
Rebound(h) == flow[h] # NoFlow /\ inbound # None /\ inbound.kind = "rst"
              /\ sock[h].conn = inbound.conn /\ sock[h].st = "synrcvd"
Shuts(h)   == flow[h] # NoFlow /\ Finished(flow[h]) /\ MaySend(Taken[h])
Polled(h)  == [flow[h] EXCEPT !.upch = @ + Carried(flow[h], Taken[h]),
                              !.aged = @ /\ TakeUp(flow[h], Taken[h]) = 0,
                              !.again = @ \/ Rebound(h)]
Leaves(h)  == flow[h] # NoFlow /\ sock'[h] = Free /\ flow'[h] = NoFlow
Waits(h)   == flow[h] = NoFlow /\ sock'[h] = Taken[h] /\ flow'[h] = NoFlow
Stays(h)   == /\ flow[h] # NoFlow /\ ~Removable(flow[h], Taken[h])
              /\ sock'[h] = After4(flow[h], Taken[h]) /\ flow'[h] = Polled(h)

(* A slot is given back, waits for its flow, or stays.                        *)
LEMMA PollCases ==
  ASSUME FlowsInv, Poll, NEW h \in Slots
  PROVE  Leaves(h) \/ Waits(h) \/ Stays(h)
<1> DEFINE flows  == Flows(flow)
           going  == doomed \cup {x \in flows : Removable(flow[x], Taken[x])}
           again == {x \in flows : inbound # None /\ inbound.kind = "rst"
                                  /\ sock[x].conn = inbound.conn /\ sock[x].st = "synrcvd"}
           next  == [x \in Slots |->
                        IF flow[x] = NoFlow THEN NoFlow
                        ELSE [flow[x] EXCEPT
                                !.upch = @ + Carried(flow[x], Taken[x]),
                                !.aged = @ /\ TakeUp(flow[x], Taken[x]) = 0,
                                !.again = @ \/ x \in again]]
<1>1. /\ sock' = [x \in Slots |-> IF x \in going THEN Free
                                  ELSE IF x \in flows THEN After4(flow[x], Taken[x]) ELSE Taken[x]]
      /\ flow' = [x \in Slots |-> IF x \in going THEN NoFlow ELSE next[x]]
  BY DEF Poll
<1>2. going \subseteq flows /\ flows = {x \in Slots : flow[x] # NoFlow}
  BY DEF FlowsInv, Flows
<1>3. h \in again <=> Rebound(h)
  BY <1>2 DEF Rebound
<1>4. flow[h] # NoFlow => next[h] = Polled(h)
  BY <1>3 DEF Polled
<1>5. flow[h] = NoFlow => next[h] = NoFlow
  OBVIOUS
<1>6. flow[h] # NoFlow /\ h \notin going => ~Removable(flow[h], Taken[h])
  BY <1>2
<1> HIDE DEF going, flows, again, next
<1>7. CASE h \in going
  BY <1>1, <1>2, <1>7 DEF Leaves
<1>8. CASE h \notin going /\ flow[h] # NoFlow
  BY <1>1, <1>2, <1>4, <1>6, <1>8 DEF Stays
<1>9. CASE flow[h] = NoFlow
  BY <1>1, <1>2, <1>5, <1>9 DEF Waits
<1> QED BY <1>7, <1>8, <1>9

(* What is cut off when a socket is closed is in the channel of its flow.     *)
LEMMA CutFacts ==
  ASSUME FlowsInv, Poll, NEW c \in Conns
  PROVE  /\ cut'[c] \in Int
         /\ c \in ToldReset => cut'[c] = 0
         /\ c \notin ToldReset /\ (\A h \in Slots : sock[h].conn = c => ~Shuts(h)) => cut'[c] = cut[c]
         /\ \A h \in Slots : c \notin ToldReset /\ Shuts(h) /\ sock[h].conn = c => cut'[c] = Queued(flow[h])
<1> DEFINE shut == {x \in Flows(flow) : Finished(flow[x]) /\ MaySend(Taken[x])}
           C == {x \in shut : sock[x].conn = c}
           k == CHOOSE x \in shut : sock[x].conn = c
<1>1. cut'[c] = IF c \in ToldReset THEN 0
                ELSE IF \E x \in shut : sock[x].conn = c THEN Queued(flow[k]) ELSE cut[c]
  BY DEF Poll
<1>2. \A x : x \in shut <=> x \in Slots /\ Shuts(x)
  BY DEF Shuts, Flows
<1>3. (\E x \in shut : sock[x].conn = c) => k \in shut /\ sock[k].conn = c
  OBVIOUS
<1>4. \A x, y \in Slots : sock[x].conn = c /\ sock[y].conn = c => x = y
  BY DEF FlowsInv, Placed
<1>5. \A x \in Slots : Shuts(x) => Queued(flow[x]) \in Int
  <2> SUFFICES ASSUME NEW x \in Slots, Shuts(x) PROVE Queued(flow[x]) \in Int
    OBVIOUS
  <2>1. flow[x] \in FlowRecords
    BY DEF FlowsInv, FlowsTyped, SlotsTyped, Shuts
  <2>2. flow[x].chan \in Seq(Messages) /\ Queued(flow[x]) = DataIn(flow[x].chan)
    BY <2>1, HeardFacts
  <2>3. "data" \in Messages
    BY DEF Messages
  <2>4. DataIn(flow[x].chan) \in Nat
    BY <2>2, <2>3, DataAdded
  <2> QED BY <2>2, <2>4
<1>6. cut[c] \in Int
  BY DEF FlowsInv, FlowsTyped
<1> HIDE DEF shut, k
<1>7. cut'[c] \in Int
  BY <1>1, <1>2, <1>3, <1>5, <1>6
<1>8. c \notin ToldReset /\ (\A h \in Slots : sock[h].conn = c => ~Shuts(h)) => cut'[c] = cut[c]
  BY <1>1, <1>2
<1>9. ASSUME NEW h \in Slots, c \notin ToldReset, Shuts(h), sock[h].conn = c
      PROVE  cut'[c] = Queued(flow[h])
  <2>1. h \in shut /\ k \in shut /\ sock[k].conn = c /\ k \in Slots
    BY <1>2, <1>3, <1>9
  <2>2. h = k
    BY <2>1, <1>4, <1>9
  <2> QED BY <1>1, <1>9, <2>1, <2>2
<1> QED BY <1>1, <1>7, <1>8, <1>9

(* A flow that stays: its record and its socket.                              *)
LEMMA StaysFacts ==
  ASSUME FlowsInv, Poll, NEW h \in Slots, Stays(h)
  PROVE  LET f == flow[h]
             t == Taken[h]
             g == flow'[h]
             k == TakeUp(flow[h], Taken[h])
         IN  /\ f \in FlowRecords /\ t \in Sockets /\ g \in FlowRecords /\ g # NoFlow
             /\ g.target = f.target /\ g.opened = f.opened /\ g.up = f.up /\ g.chan = f.chan
             /\ g.reader = f.reader /\ g.pending = f.pending /\ g.linked = f.linked
             /\ g.writer = f.writer /\ g.held = f.held /\ g.wrote = f.wrote
             /\ g.upch = f.upch + k /\ k \in Int /\ (~f.linked => k = 0)
             /\ g.again <=> f.again \/ Rebound(h)
             /\ sock'[h].st \notin {"closed", "timewait", "free"} /\ ~Refused(f, t) /\ t.st # "closed"
             /\ sock'[h] \in Sockets /\ sock'[h].conn = t.conn
             /\ sock'[h].rx = t.rx - k /\ sock'[h].tx = t.tx
<1> DEFINE f == flow[h]
           t == Taken[h]
           g == flow'[h]
           k == TakeUp(flow[h], Taken[h])
<1>1. f \in FlowRecords /\ t \in Sockets /\ (t.st = "free" <=> sock[h].st = "free")
  BY TakenFacts DEF FlowsInv, FlowsTyped, SlotsTyped, Stays, Poll
<1>2. sock[h].st # "free"
  BY DEF FlowsInv, Placed, Shape, Stays
<1>3. /\ After4(f, t) \in Sockets /\ After4(f, t).conn = t.conn
      /\ t.st # "free" => After4(f, t).st # "free"
      /\ TakeUp(f, t) \in Int /\ (~f.linked => TakeUp(f, t) = 0)
      /\ ~Refused(f, t) => /\ After4(f, t).rx = t.rx - TakeUp(f, t) /\ After4(f, t).tx = t.tx
                           /\ t.st = "closed" => After4(f, t).st = "closed"
  BY <1>1, After4Facts
<1>4. /\ ~Refused(f, t) /\ After4(f, t).st \notin {"closed", "timewait"}
      /\ sock'[h] = After4(f, t) /\ g = Polled(h)
  BY DEF Stays, Removable
<1>5. Carried(f, t) = k
  BY <1>3 DEF Carried
<1>6. g = [f EXCEPT !.upch = @ + k, !.aged = @ /\ k = 0, !.again = @ \/ Rebound(h)]
  BY <1>4, <1>5 DEF Polled
<1>7. Rebound(h) \in BOOLEAN
  BY DEF Rebound
<1> DEFINE R == Rebound(h)
<1>8. k \in Int /\ (~f.linked => k = 0)
  BY <1>3
<1> HIDE DEF k, f, t, R
<1>9. f.upch + k \in Int /\ (f.aged /\ k = 0) \in BOOLEAN /\ (f.again \/ R) \in BOOLEAN
  BY <1>1, <1>8 DEF FlowRecords
<1>10. g = [f EXCEPT !.upch = f.upch + k, !.aged = f.aged /\ k = 0, !.again = f.again \/ R]
  BY <1>6 DEF R
<1> DEFINE x1 == f.upch + k
           x2 == f.aged /\ k = 0
           x3 == f.again \/ R
<1>11. x1 \in Int /\ x2 \in BOOLEAN /\ x3 \in BOOLEAN /\ g = [f EXCEPT !.upch = x1, !.aged = x2, !.again = x3]
  BY <1>9, <1>10
<1> HIDE DEF g, x1, x2, x3
<1>12. g \in FlowRecords
  BY <1>1, <1>11 DEF FlowRecords
<1>13. /\ g.target = f.target /\ g.opened = f.opened /\ g.up = f.up /\ g.chan = f.chan
       /\ g.reader = f.reader /\ g.pending = f.pending /\ g.linked = f.linked
       /\ g.writer = f.writer /\ g.held = f.held /\ g.wrote = f.wrote
       /\ g.upch = x1 /\ g.again = x3
  BY <1>1, <1>11 DEF FlowRecords
<1>14. g.again <=> f.again \/ R
  BY <1>13 DEF x3
<1>15. g # NoFlow
  BY <1>12, NoFlowIsNone
<1>16. sock'[h] \in Sockets /\ sock'[h].conn = t.conn /\ sock'[h].tx = t.tx
       /\ sock'[h].st \notin {"closed", "timewait", "free"} /\ t.st # "closed" /\ ~Refused(f, t)
  BY <1>1, <1>2, <1>3, <1>4
<1>17. sock'[h].rx = t.rx - k
  BY <1>3, <1>4 DEF k, f, t
<1> QED BY <1>1, <1>8, <1>12, <1>13, <1>14, <1>15, <1>16, <1>17 DEF f, g, t, k, R, x1

(* A slot is as it must be after step().                                      *)
LEMMA PollShape ==
  ASSUME FlowsInv, Poll, NEW h \in Slots
  PROVE  /\ sock'[h] \in Sockets /\ flow'[h] \in FlowRecords \cup {NoFlow}
         /\ Shape(sock'[h], flow'[h])
         /\ sock'[h].st # "free" => ~Leaves(h) /\ sock[h].st # "free" /\ (flow[h] = NoFlow <=> flow'[h] = NoFlow)
         /\ sock'[h].conn \in Conns => Taken[h].conn = sock'[h].conn
<1> DEFINE f == flow[h]
           s == sock[h]
           t == Taken[h]
           g == flow'[h]
           v == sock'[h]
<1>0. /\ Shape(s, f) /\ pc = "poll" /\ s \in Sockets /\ f \in FlowRecords \cup {NoFlow}
      /\ TxCap \in Nat
  BY NoFlowIsNone DEF FlowsInv, FlowsTyped, SlotsTyped, Placed, Poll
<1>t. /\ t \in Sockets /\ (t.st = "free" <=> s.st = "free") /\ t.tx <= TxCap
      /\ t.st \in {"free", "listen"} => t.conn = None
      /\ t.st = "listen" => t.rx = 0 /\ t.tx = 0
      /\ t.st = "listen" => s.st = "listen" \/ (Broken(h) /\ s.st = "synrcvd")
      /\ t.st = "synrcvd" => s.st \in {"listen", "synrcvd"}
      /\ t.conn \in Conns => t.conn = s.conn \/ Called(h)
      /\ f = NoFlow => t.st \in {"free", "listen", "synrcvd"}
      /\ s.st \notin Closing => t.st \notin Closing
  BY <1>0, TakenFacts
<1>1. CASE Leaves(h)
  <2>1. v = Free /\ g = NoFlow
    BY <1>1 DEF Leaves
  <2>2. v \in Sockets /\ v.st = "free" /\ v.conn = None /\ v.tx = 0
    BY <2>1 DEF Free, Sockets, SocketStates
  <2> HIDE DEF v, g
  <2>3. Shape(v, g)
    BY <1>0, <2>1, <2>2, NoFlowIsNone DEF Shape
  <2> QED BY <2>1, <2>2, <2>3, NoFlowIsNone DEF v, g
<1>2. CASE Waits(h)
  <2>1. v = t /\ g = NoFlow /\ f = NoFlow
    BY <1>2 DEF Waits
  <2>2. v \in Sockets
    BY <1>t, <2>1
  <2>3. Shape(v, g)
    <3> HIDE DEF v, g, f, s, t
    <3> QED BY <1>t, <2>1 DEF Shape
  <2>4. ~Leaves(h)
    BY <2>1 DEF Leaves
  <2> HIDE DEF v, g, f, s, t
  <2>5. v.st # "free" => s.st # "free"
    BY <1>t, <2>1
  <2> QED BY <2>1, <2>2, <2>3, <2>4, <2>5 DEF v, g, f, s, t
<1>3. CASE Stays(h)
  <2> DEFINE k == TakeUp(flow[h], Taken[h])
  <2>1. /\ f \in FlowRecords /\ g \in FlowRecords /\ g # NoFlow
        /\ g.target = f.target /\ g.opened = f.opened /\ g.up = f.up /\ g.chan = f.chan
        /\ g.reader = f.reader /\ g.pending = f.pending /\ g.linked = f.linked
        /\ g.writer = f.writer /\ g.held = f.held /\ g.wrote = f.wrote
        /\ g.upch = f.upch + k /\ k \in Int /\ (~f.linked => k = 0)
        /\ g.again <=> f.again \/ Rebound(h)
        /\ v.st \notin {"closed", "timewait", "free"} /\ v \in Sockets /\ v.conn = t.conn
        /\ v.rx = t.rx - k /\ v.tx = t.tx
    BY <1>3, StaysFacts
  <2>2. /\ v.st \in {"listen", "synrcvd"} => v.st = t.st
        /\ v.st \in Closing => t.st \in Closing \/ Finished(f)
    BY <1>t, <2>1, <1>3, After4Facts DEF Stays
  <2>3. t.st = "listen" => f.again \/ Rebound(h)
    <3> SUFFICES ASSUME t.st = "listen", s.st # "listen" PROVE Rebound(h)
      <4>1. s.st = "listen" => f.again
        BY <1>0, <2>1, NoFlowIsNone DEF Shape
      <4> QED BY <4>1
    <3>1. Broken(h) /\ s.st = "synrcvd"
      BY <1>t
    <3>2. inbound \in Arrivals /\ inbound.kind = "rst" /\ s.conn = inbound.conn
      BY <3>1 DEF Broken
    <3> QED BY <1>3, <3>1, <3>2, ArrivalFacts DEF Rebound, Stays
  <2>4. t.conn \in Conns => f.target = t.conn \/ f.again
    <3>1. Called(h) => s.st = "listen"
      BY DEF Called
    <3> HIDE DEF f, s, t
    <3> QED BY <3>1, <1>0, <1>t, <2>1, NoFlowIsNone DEF Shape
  <2>5. f.opened => t.st \notin {"listen", "synrcvd"}
    <3> HIDE DEF f, s, t
    <3> QED BY <1>0, <1>t, <2>1, NoFlowIsNone DEF Shape
  <2>6. t.st \in Closing => f.reader = "eof"
    <3> HIDE DEF f, s, t
    <3> QED BY <1>0, <1>t, <2>1, NoFlowIsNone DEF Shape
  <2>7. Finished(f) => f.reader = "eof"
    BY DEF Finished
  <2>8. /\ f.up # "none" => f.opened
        /\ f.up # "done" => f.chan = <<>> /\ ~f.linked
        /\ ~f.linked => /\ f.chan \in {<<>>, <<"link">>, <<"linkerr">>}
                        /\ f.reader = "none" /\ f.writer = "none"
                        /\ f.pending = 0 /\ f.upch = 0 /\ f.held = 0 /\ f.wrote = 0
        /\ f.linked => "link" \notin ToSet(f.chan)
    BY <1>0, <2>1, NoFlowIsNone DEF Shape
  <2>9. s.st # "free"
    BY <1>0, <2>1, NoFlowIsNone DEF Shape
  <2>10. ~Leaves(h)
    BY <2>1 DEF Leaves
  <2> HIDE DEF v, g, f, s, t, k
  <2>11. t.st = "listen" => ~f.linked
    BY <2>5, <2>8
  <2>12. v.st = "listen" => v.rx = 0 /\ v.tx = 0
    BY <1>t, <2>1, <2>2, <2>11
  <2>13. ~g.linked => g.upch = 0
    BY <2>1, <2>8
  <2>14. Shape(v, g)
    BY <1>0, <1>t, <2>1, <2>2, <2>3, <2>4, <2>5, <2>6, <2>7, <2>8, <2>12, <2>13 DEF Shape
  <2> QED BY <2>1, <2>9, <2>10, <2>14, NoFlowIsNone DEF v, g, f, s, t
<1> QED BY <1>1, <1>2, <1>3, PollCases

(* With its bytes, the packet has all of them in their place.                 *)
LEMMA CountedTaken ==
  ASSUME FlowsInv, Poll, NEW h \in Slots, NEW c \in Conns, Taken[h].conn = c, Taken[h].st # "closed",
         app[c] # "gone"
  PROVE  Counted(Taken[h], flow[h], sent[c], read[c] - got[c], cut[c])
<1> DEFINE f == flow[h]
           s == sock[h]
           t == Taken[h]
           d == read[c] - got[c]
<1>0. /\ Shape(s, f) /\ s \in Sockets /\ f \in FlowRecords \cup {NoFlow} /\ SlotsTyped(sock, flow)
      /\ inbound \in Arrivals \cup {None} /\ sent[c] \in Int /\ None \notin Conns
      /\ read[c] \in Int /\ got[c] \in Int
  BY NoFlowIsNone DEF FlowsInv, FlowsTyped, SlotsTyped, Placed
<1>1. s.conn = c /\ s.st # "closed" => Counted(s, f, Arrived(c), d, cut[c])
  BY DEF FlowsInv, Accounts
<1>2. CASE Passed(h)
  <2>1. t = s
    BY <1>2 DEF Passed
  <2>2. Connected(s)
    <3> HIDE DEF f, s, t
    <3> QED BY <1>0, <2>1 DEF Connected, Shape, t
  <2>3. Under(c) = 0
    BY <1>2, <2>1, <2>2 DEF Passed
  <2>4. Arrived(c) = sent[c]
    BY <2>3, <1>0 DEF Arrived
  <2> QED BY <1>1, <2>1, <2>4
<1>3. CASE Called(h)
  <2>1. /\ t = [s EXCEPT !.st = "synrcvd", !.conn = inbound.conn] /\ s.st = "listen"
        /\ inbound.kind = "syn" /\ inbound # None
    BY <1>3, ArrivalFacts DEF Called
  <2>2. t.st = "synrcvd" /\ t.conn = inbound.conn /\ t.rx = s.rx /\ t.tx = s.tx
    <3> HIDE DEF s, t
    <3> QED BY <1>0, <2>1 DEF Sockets
  <2>3. sent[c] = 0 /\ got[c] = 0 /\ read[c] = 0 /\ cut[c] = 0
    BY <2>1, <2>2 DEF FlowsInv, Histories, Unmet, Greets
  <2>4. s.rx = 0 /\ s.tx = 0
    BY <1>0, <2>1 DEF Shape
  <2>5. f # NoFlow => f.chan = <<>> /\ f.pending = 0 /\ f.upch = 0 /\ f.held = 0 /\ f.wrote = 0
    <3> HIDE DEF f, s, t
    <3> QED BY <1>0, <2>1 DEF Shape
  <2>6. f # NoFlow => Queued(f) = 0
    <3> SUFFICES ASSUME f # NoFlow PROVE {i \in DOMAIN f.chan : f.chan[i] = "data"} = {}
      BY FS_EmptySet DEF Queued
    <3> QED BY <2>5
  <2>7. "synrcvd" \notin Closing /\ d = 0
    BY <2>3 DEF Closing
  <2> HIDE DEF f, s, t, d
  <2>8. Counted(t, f, sent[c], d, cut[c])
    BY <2>2, <2>3, <2>4, <2>5, <2>6, <2>7 DEF Counted
  <2> QED BY <2>8 DEF f, s, t, d
<1>4. CASE Fed(h)
  <2>1. /\ t = Segment(s, inbound) /\ Connected(s) /\ s.conn = inbound.conn
        /\ inbound.bytes \in Int /\ inbound # None
    BY <1>4, ArrivalFacts DEF Fed
  <2>2. /\ t.conn = s.conn /\ t.rx = s.rx + inbound.bytes /\ t.tx = s.tx
        /\ t.st \in Closing <=> s.st \in Closing
    BY <1>0, <2>1, SegmentFacts
  <2>3. s.conn = c /\ s.st # "closed" /\ Arrived(c) = sent[c] - inbound.bytes
    BY <2>1, <2>2 DEF Connected, Arrived, Under
  <2>4. Counted(s, f, Arrived(c), d, cut[c])
    BY <1>1, <2>3
  <2>5. f # NoFlow
    BY <1>0, <2>1 DEF Shape, Connected, FlowsInv, Poll
  <2>6. f.upch \in Int /\ f.held \in Int /\ f.wrote \in Int /\ s.rx \in Int
    BY <1>0, <2>5 DEF FlowRecords, Sockets
  <2> DEFINE b == inbound.bytes
             S == sent[c]
             A == Arrived(c)
             k == cut[c]
  <2>7. b \in Int /\ S \in Int /\ A = S - b /\ t.rx = s.rx + b
    BY <1>0, <2>1, <2>2, <2>3
  <2> HIDE DEF f, s, t, d, b, S, A, k
  <2>8. f.writer # "dead" => t.rx + f.upch + f.held + f.wrote = S
    <3>1. Counted(s, f, A, d, k)
      BY <2>4 DEF A, k
    <3>2. f.writer # "dead" => s.rx + f.upch + f.held + f.wrote = A
      BY <3>1, <2>5 DEF Counted
    <3> QED BY <3>2, <2>6, <2>7
  <2>9. Counted(s, f, A, d, k)
    BY <2>4 DEF A, k
  <2>10. Counted(t, f, S, d, k)
    BY <2>2, <2>5, <2>8, <2>9 DEF Counted
  <2> QED BY <2>10 DEF f, t, d, S, k
<1>5. CASE Broken(h)
  <2>1. t = Reset(s)
    BY <1>5 DEF Broken
  <2>2. CASE s.st = "synrcvd"
    <3>1. t.conn = None
      BY <2>1, <2>2 DEF Reset, AddListener
    <3> QED BY <3>1, <1>0
  <2>3. CASE s.st # "synrcvd"
    <3>1. t = Aborted(s)
      BY <2>1, <2>3 DEF Reset
    <3> HIDE DEF t, s
    <3>2. t.st = "closed"
      BY <1>0, <3>1 DEF Aborted, Sockets
    <3> QED BY <3>2 DEF t
  <2> QED BY <2>2, <2>3
<1> QED BY <1>0, <1>2, <1>3, <1>4, <1>5, TakenCases

(* And they still are when the flow has read its socket and closed it.        *)
LEMMA PollCounted ==
  ASSUME FlowsInv, Poll, NEW h \in Slots, NEW c \in Conns, sock'[h].conn = c, app'[c] # "gone",
         sock'[h].st # "closed"
  PROVE  Counted(sock'[h], flow'[h], Arrived(c)', read'[c] - got'[c], cut'[c])
<1> DEFINE f == flow[h]
           s == sock[h]
           t == Taken[h]
           g == flow'[h]
           v == sock'[h]
<1>0. /\ Shape(s, f) /\ s \in Sockets /\ f \in FlowRecords \cup {NoFlow}
      /\ sent[c] \in Int /\ None \notin Conns /\ pc = "poll"
      /\ read[c] \in Int /\ got[c] \in Int
  BY NoFlowIsNone DEF FlowsInv, FlowsTyped, SlotsTyped, Placed, Poll
<1>1. c \notin ToldReset /\ app[c] # "gone" /\ inbound' = None
  BY DEF Poll
<1>2. sent'[c] = sent[c] /\ got'[c] = got[c] /\ read'[c] = read[c]
  BY <1>1 DEF Poll, ForgetCounts
<1>3. Arrived(c)' = sent[c]
  BY <1>0, <1>1, <1>2 DEF Arrived, Under
<1>4. t.conn = c /\ t \in Sockets
  BY <1>0, PollShape, TakenFacts
<1>5. \A x \in Slots : sock[x].conn = c => x = h /\ t.conn = s.conn
  <2> SUFFICES ASSUME NEW x \in Slots, sock[x].conn = c PROVE x = h /\ t.conn = s.conn
    OBVIOUS
  <2>1. t.conn = s.conn \/ Called(h)
    BY <1>0, <1>4, TakenFacts
  <2>2. ~Called(h)
    <3> SUFFICES ASSUME Called(h) PROVE FALSE
      OBVIOUS
    <3>1. /\ t = [s EXCEPT !.st = "synrcvd", !.conn = inbound.conn]
          /\ inbound.kind = "syn" /\ inbound # None
      BY ArrivalFacts DEF Called
    <3>2. t.conn = inbound.conn
      <4> HIDE DEF s, t
      <4> QED BY <1>0, <3>1 DEF Sockets
    <3> QED BY <3>1, <3>2, <1>4 DEF FlowsInv, Histories, Unmet, Greets
  <2> QED BY <2>1, <2>2, <1>4 DEF FlowsInv, Placed
<1>6. CASE Waits(h)
  <2>1. v = t /\ f = NoFlow /\ g = NoFlow
    BY <1>6 DEF Waits
  <2>2. Counted(t, f, sent[c], read[c] - got[c], cut[c])
    BY <1>1, <1>4, <2>1, CountedTaken
  <2>3. \A x \in Slots : sock[x].conn = c => ~Shuts(x)
    BY <1>5, <2>1 DEF Shuts
  <2>4. cut'[c] = cut[c]
    BY <1>1, <2>3, CutFacts
  <2> QED BY <1>2, <1>3, <2>1, <2>2, <2>4
<1>7. CASE Stays(h)
  <2> DEFINE k == TakeUp(flow[h], Taken[h])
             d == read[c] - got[c]
             S == sent[c]
  <2>1. /\ f \in FlowRecords /\ g \in FlowRecords /\ g # NoFlow /\ f # NoFlow
        /\ g.chan = f.chan /\ g.pending = f.pending /\ g.writer = f.writer
        /\ g.held = f.held /\ g.wrote = f.wrote /\ g.upch = f.upch + k /\ k \in Int
        /\ ~Refused(f, t) /\ t.st # "closed" /\ v \in Sockets
        /\ v.rx = t.rx - k /\ v.tx = t.tx
    BY <1>7, StaysFacts DEF Stays
  <2>2. Counted(t, f, sent[c], read[c] - got[c], cut[c])
    BY <1>1, <1>4, <2>1, CountedTaken
  <2>3. v = After4(f, t)
    BY <1>7 DEF Stays
  <2>4. /\ v.st \in Closing => t.st \in Closing \/ Finished(f)
        /\ t.st \in Closing => v.st \in Closing
        /\ Finished(f) /\ MaySend(t) => v.st \in Closing
    BY <1>4, <2>1, <2>3, After4Facts
  <2>5. Finished(f) /\ t.st \notin Closing => MaySend(t)
    <3>1. /\ t.st = "listen" => s.st \in {"listen", "synrcvd"}
          /\ t.st = "synrcvd" => s.st \in {"listen", "synrcvd"}
          /\ t.st = "free" <=> s.st = "free"
      BY <1>0, TakenFacts
    <3>2. Finished(f) => s.st \notin {"listen", "synrcvd", "free"}
      <4> HIDE DEF f, s, t
      <4> QED BY <1>0, <2>1 DEF Finished, Shape
    <3>3. t.st \in SocketStates
      BY <1>4 DEF Sockets
    <3> HIDE DEF f, s, t
    <3> QED BY <2>1, <3>1, <3>2, <3>3 DEF SocketStates, MaySend
  <2>6. Shuts(h) <=> Finished(f) /\ MaySend(t)
    BY <2>1 DEF Shuts
  <2>7. Shuts(h) => t.conn = s.conn /\ cut'[c] = Queued(f)
    <3> SUFFICES ASSUME Shuts(h) PROVE t.conn = s.conn /\ cut'[c] = Queued(f)
      OBVIOUS
    <3>1. t.conn = s.conn \/ Called(h)
      BY <1>0, <1>4, TakenFacts
    <3>2. ~Called(h)
      <4>1. s.st # "listen"
        <5>1. Finished(f)
          BY <2>6
        <5> HIDE DEF f, s, t
        <5> QED BY <1>0, <2>1, <5>1 DEF Finished, Shape
      <4> QED BY <4>1 DEF Called
    <3> QED BY <3>1, <3>2, <1>1, <1>4, CutFacts
  <2>8. ~Shuts(h) => cut'[c] = cut[c]
    BY <1>1, <1>5, CutFacts
  <2>9. Queued(g) = Queued(f)
    BY <2>1 DEF Queued
  <2>10. MaySend(t) => t.st \notin Closing
    BY DEF MaySend, Closing
  <2>11. /\ f.upch \in Int /\ f.held \in Int /\ f.wrote \in Int /\ t.rx \in Int /\ t.tx \in Int
         /\ f.pending \in Int
    BY <1>4, <2>1 DEF FlowRecords, Sockets
  <2>12. Finished(f) => f.pending = 0
    BY DEF Finished
  <2>13. Queued(f) \in Int
    <3>1. f.chan \in Seq(Messages) /\ Queued(f) = DataIn(f.chan) /\ "data" \in Messages
      BY <2>1, HeardFacts DEF Messages
    <3> QED BY <3>1, DataAdded
  <2> DEFINE K == cut[c]
             L == cut'[c]
             Q == Queued(f)
  <2>14. K \in Int /\ d \in Int /\ Counted(t, f, S, d, K)
    BY <1>0, <2>2 DEF FlowsInv, FlowsTyped
  <2>15. (Shuts(h) => L = Q) /\ (~Shuts(h) => L = K)
    BY <2>7, <2>8
  <2>16. Queued(g) = Q /\ Q \in Int
    BY <2>9, <2>13
  <2>17. /\ f.writer # "dead" => t.rx + f.upch + f.held + f.wrote = S
         /\ t.st \in Closing => t.tx + K = d
         /\ t.st \notin Closing => t.tx + f.pending + Q = d /\ K = 0
    <3> HIDE DEF f, t, S, d, K
    <3> QED BY <2>1, <2>14 DEF Counted, Q
  <2> HIDE DEF f, s, t, g, v, k, d, S, K, L, Q
  <2>18. g.writer # "dead" => v.rx + g.upch + g.held + g.wrote = S
    <3>1. f.writer # "dead" => (t.rx - k) + (f.upch + k) + f.held + f.wrote = S
      BY <2>1, <2>11, <2>17
    <3> QED BY <3>1, <2>1
  <2>19. CASE v.st \in Closing
    <3>1. v.tx + L = d
      <4>1. CASE t.st \in Closing
        BY <2>1, <2>6, <2>10, <2>15, <2>17, <4>1
      <4>2. CASE t.st \notin Closing
        <5>1. Finished(f) /\ MaySend(t) /\ Shuts(h)
          BY <2>4, <2>5, <2>6, <2>19, <4>2
        <5>2. f.pending = 0 /\ L = Q /\ t.tx + f.pending + Q = d
          BY <2>12, <2>15, <2>17, <4>2, <5>1
        <5> QED BY <2>1, <2>11, <2>16, <5>2
      <4> QED BY <4>1, <4>2
    <3>2. Counted(v, g, S, d, L)
      BY <2>1, <2>18, <2>19, <3>1 DEF Counted
    <3> QED BY <3>2, <1>2, <1>3 DEF v, g, S, d, L
  <2>20. CASE v.st \notin Closing
    <3>1. t.st \notin Closing /\ ~Shuts(h)
      BY <2>4, <2>6, <2>20
    <3>2. v.tx + g.pending + Queued(g) = d /\ L = 0
      BY <2>1, <2>15, <2>16, <2>17, <3>1
    <3>3. Counted(v, g, S, d, L)
      BY <2>1, <2>18, <2>20, <3>2 DEF Counted
    <3> QED BY <3>3, <1>2, <1>3 DEF v, g, S, d, L
  <2> QED BY <2>19, <2>20
<1>8. CASE Leaves(h)
  BY <1>0, <1>8 DEF Leaves, Free
<1> QED BY <1>6, <1>7, <1>8, PollCases

(* The second part of step().                                                 *)
LEMMA PollPreserves ==
  ASSUME FlowsInv, Poll
  PROVE  FlowsInv'
<1>0. /\ FlowsTyped /\ Placed(sock, flow, listener) /\ Accounts /\ Histories /\ pc = "poll"
      /\ inbound \in Arrivals \cup {None} /\ None \notin Conns
  BY NoFlowIsNone DEF FlowsInv, FlowsTyped, Poll
<1>1. /\ pc' = "select" /\ inbound' = None /\ doomed' = {} /\ listener' = listener
      /\ \A c \in Conns : /\ end'[c] = IF c \in ToldReset /\ app[c] # "gone" THEN "rst" ELSE end[c]
                          /\ app'[c] = IF c \in ToldReset THEN "gone" ELSE app[c]
                          /\ sent'[c] = IF c \in ToldReset THEN 0 ELSE sent[c]
                          /\ got'[c] = IF c \in ToldReset THEN 0 ELSE got[c]
                          /\ read'[c] = IF c \in ToldReset THEN 0 ELSE read[c]
  BY DEF Poll, ForgetCounts
<1>2. /\ DOMAIN end' = Conns /\ DOMAIN app' = Conns /\ DOMAIN sent' = Conns /\ DOMAIN got' = Conns
      /\ DOMAIN read' = Conns /\ DOMAIN cut' = Conns /\ DOMAIN sock' = Slots /\ DOMAIN flow' = Slots
      /\ end' = [c \in Conns |-> end'[c]] /\ app' = [c \in Conns |-> app'[c]]
      /\ sent' = [c \in Conns |-> sent'[c]] /\ got' = [c \in Conns |-> got'[c]]
      /\ read' = [c \in Conns |-> read'[c]] /\ cut' = [c \in Conns |-> cut'[c]]
      /\ sock' = [h \in Slots |-> sock'[h]] /\ flow' = [h \in Slots |-> flow'[h]]
  BY DEF Poll, ForgetCounts
<1>3. \A h \in Slots :
        /\ sock'[h] \in Sockets /\ flow'[h] \in FlowRecords \cup {NoFlow}
        /\ Shape(sock'[h], flow'[h])
        /\ sock'[h].st # "free" => ~Leaves(h) /\ sock[h].st # "free" /\ (flow[h] = NoFlow <=> flow'[h] = NoFlow)
        /\ sock'[h].conn \in Conns => Taken[h].conn = sock'[h].conn
  BY <1>0, PollShape
<1>4. FlowsTyped'
  <2>1. SlotsTyped(sock', flow')
    BY <1>2, <1>3 DEF SlotsTyped
  <2>2. sent' \in [Conns -> Int] /\ got' \in [Conns -> Int] /\ read' \in [Conns -> Int]
    BY <1>0, <1>1, <1>2 DEF FlowsTyped
  <2>3. cut' \in [Conns -> Int]
    BY <1>2, CutFacts
  <2>4. app' \in [Conns -> {"idle", "waiting", "open", "half", "gone"}]
    BY <1>0, <1>1, <1>2 DEF FlowsTyped
  <2>5. end' \in [Conns -> {"none", "fin", "rst"}]
    BY <1>0, <1>1, <1>2 DEF FlowsTyped
  <2> QED BY <1>1, <2>1, <2>2, <2>3, <2>4, <2>5 DEF FlowsTyped, SlotsTyped
<1>5. ASSUME NEW h \in Slots, NEW c \in Conns, sock'[h].conn = c
      PROVE  sock[h].conn = c \/ (Called(h) /\ inbound.conn = c /\ Greets(c) /\ Unmet(c))
  <2>1. Taken[h].conn = c
    BY <1>3, <1>5
  <2>2. Taken[h].conn = sock[h].conn \/ Called(h)
    BY <1>0, <2>1, TakenFacts
  <2>3. ASSUME Called(h) PROVE inbound.conn = c /\ Greets(c) /\ Unmet(c)
    <3>1. /\ Taken[h] = [sock[h] EXCEPT !.st = "synrcvd", !.conn = inbound.conn]
          /\ inbound.kind = "syn" /\ inbound # None
      BY <2>3, ArrivalFacts DEF Called
    <3>2. sock[h] \in Sockets
      BY <1>0 DEF FlowsTyped, SlotsTyped
    <3>3. Taken[h].conn = inbound.conn
      BY <3>1, <3>2 DEF Sockets
    <3> QED BY <1>0, <2>1, <3>1, <3>3 DEF Greets, Histories
  <2> QED BY <2>1, <2>2, <2>3
<1>6. Placed(sock', flow', listener')
  <2>1. sock'[listener].st # "free" /\ flow'[listener] = NoFlow /\ listener \in Slots
    <3> DEFINE l == listener
    <3>1. l \in Slots /\ sock[l].st # "free" /\ flow[l] = NoFlow
      BY <1>0 DEF Placed
    <3>2. Waits(l)
      BY <3>1, PollCases DEF Leaves, Stays
    <3>3. Taken[l].st # "free"
      BY <1>0, <3>1, TakenFacts
    <3> QED BY <3>1, <3>2, <3>3 DEF Waits
  <2>2. \A h \in Slots : sock'[h].st # "free" => flow'[h] # NoFlow \/ h = listener
    BY <1>0, <1>3 DEF Placed
  <2>3. \A h, k \in Slots : sock'[h].conn \in Conns /\ sock'[h].conn = sock'[k].conn => h = k
    <3> SUFFICES ASSUME NEW h \in Slots, NEW k \in Slots, NEW c \in Conns,
                        sock'[h].conn = c, sock'[k].conn = c
                 PROVE  h = k
      OBVIOUS
    <3>1. /\ sock[h].conn = c \/ (Called(h) /\ Unmet(c))
          /\ sock[k].conn = c \/ (Called(k) /\ Unmet(c))
      BY <1>5
    <3>2. CASE Called(h) /\ Called(k)
      BY <3>2 DEF Called
    <3>3. CASE sock[h].conn = c \/ sock[k].conn = c
      <4>1. sock[h].conn = c /\ sock[k].conn = c
        BY <3>1, <3>3 DEF Unmet
      <4> QED BY <4>1, <1>0 DEF Placed
    <3> QED BY <3>1, <3>2, <3>3
  <2> QED BY <1>1, <1>3, <2>1, <2>2, <2>3 DEF Placed
<1>7. Accounts'
  <2> SUFFICES ASSUME NEW h \in Slots, NEW c \in Conns,
                      sock'[h].conn = c, app'[c] # "gone", sock'[h].st # "closed"
               PROVE  Counted(sock'[h], flow'[h], Arrived(c)', read'[c] - got'[c], cut'[c])
    BY DEF Accounts
  <2> QED BY PollCounted
<1>8. Histories'
  <2> SUFFICES ASSUME NEW c \in Conns
               PROVE  /\ app'[c] = "idle" => Unmet(c)'
                      /\ end'[c] = "fin" => /\ got'[c] + cut'[c] = read'[c]
                                            /\ \A h \in Slots : sock'[h].conn = c => Past(sock'[h], flow'[h])
    <3>1. \A x \in Conns : ~Greets(x)'
      BY <1>1 DEF Greets
    <3> QED BY <3>1 DEF Histories
  <2>0. /\ app[c] = "idle" => Unmet(c)
        /\ Greets(c) => app[c] # "idle" /\ Unmet(c)
        /\ end[c] = "fin" => /\ got[c] + cut[c] = read[c]
                             /\ \A h \in Slots : sock[h].conn = c => Past(sock[h], flow[h])
    BY <1>0 DEF Histories
  <2>1. ASSUME app'[c] = "idle" PROVE Unmet(c)'
    <3>1. c \notin ToldReset /\ app[c] = "idle"
      BY <1>1, <2>1
    <3>2. Unmet(c)
      BY <2>0, <3>1
    <3>3. cut'[c] = cut[c]
      BY <3>1, <3>2, CutFacts DEF Unmet
    <3>4. \A h \in Slots : sock'[h].conn # c
      BY <1>5, <2>0, <3>1, <3>2 DEF Unmet
    <3>5. sent'[c] = 0 /\ got'[c] = 0 /\ read'[c] = 0 /\ cut'[c] = 0 /\ end'[c] = "none"
      BY <1>1, <3>1, <3>2, <3>3 DEF Unmet
    <3> QED BY <3>4, <3>5 DEF Unmet
  <2>2. ASSUME end'[c] = "fin"
        PROVE  /\ got'[c] + cut'[c] = read'[c]
               /\ \A h \in Slots : sock'[h].conn = c => Past(sock'[h], flow'[h])
    <3>1. end[c] = "fin"
      BY <1>1, <2>2
    <3>2. \A h \in Slots : sock[h].conn = c => Past(sock[h], flow[h])
      BY <2>0, <3>1
    <3>3. \A h \in Slots : sock[h].conn = c => Taken[h].st \in Closing \cup {"closed"}
      <4> SUFFICES ASSUME NEW h \in Slots, sock[h].conn = c PROVE Taken[h].st \in Closing \cup {"closed"}
        OBVIOUS
      <4>1. sock[h].st \in Closing \cup {"closed"}
        BY <3>2 DEF Past
      <4> QED BY <4>1, <1>0, TakenFacts
    <3>4. \A h \in Slots : sock[h].conn = c => ~Shuts(h)
      BY <3>3 DEF Shuts, MaySend, Closing
    <3>5. got'[c] + cut'[c] = read'[c]
      <4>1. CASE c \in ToldReset
        BY <4>1, <1>1, CutFacts
      <4>2. CASE c \notin ToldReset
        BY <4>2, <1>1, <2>0, <3>1, <3>4, CutFacts
      <4> QED BY <4>1, <4>2
    <3>6. ASSUME NEW h \in Slots, sock'[h].conn = c PROVE Past(sock'[h], flow'[h])
      <4>1. sock[h].conn = c
        BY <1>5, <3>1, <3>6 DEF Unmet
      <4>2. Past(sock[h], flow[h]) /\ Taken[h].st \in Closing \cup {"closed"}
        BY <3>2, <3>3, <4>1
      <4>3. flow[h] # NoFlow
        <5>1. Shape(sock[h], flow[h])
          BY <1>0 DEF Placed
        <5> QED BY <5>1, <4>2 DEF Shape, Past, Closing
      <4>4. Stays(h)
        BY <1>0, <3>6, <4>3, PollCases DEF Leaves, Waits, Free
      <4>5. flow'[h].reader = flow[h].reader /\ flow[h] \in FlowRecords /\ Taken[h] \in Sockets
        BY <4>4, StaysFacts
      <4>6. sock'[h] = After4(flow[h], Taken[h])
        BY <4>4 DEF Stays
      <4>7. After4(flow[h], Taken[h]).st \in Closing \cup {"closed"}
        BY <4>2, <4>5, After4Facts
      <4> QED BY <4>2, <4>3, <4>5, <4>6, <4>7 DEF Past
    <3> QED BY <3>5, <3>6
  <2> QED BY <2>1, <2>2
<1> QED BY <1>1, <1>4, <1>6, <1>7, <1>8 DEF FlowsInv

(* A task changes the record of its flow, and nothing else; the reader has    *)
(* read n bytes of the answer.                                                *)
LEMMA FlowStep ==
  ASSUME FlowsInv, NEW h \in Slots, flow[h] # NoFlow, NEW g \in FlowRecords, Becomes(h, g),
         NEW n \in Int, read' \in [Conns -> Int],
         \A c \in Conns : read'[c] = IF sock[h].conn = c THEN read[c] + n ELSE read[c],
         Shape(sock[h], g), flow[h].reader = "eof" => g.reader = "eof" /\ n = 0,
         \A u, k : \A d \in Int : Counted(sock[h], flow[h], u, d, k) => Counted(sock[h], g, u, d + n, k)
  PROVE  FlowsInv'
<1>0. /\ FlowsTyped /\ Placed(sock, flow, listener) /\ doomed \subseteq Flows(flow)
      /\ pc = "poll" => \A x \in Slots : flow[x] = NoFlow => sock[x].st # "synrcvd"
      /\ Accounts /\ Histories
  BY DEF FlowsInv
<1>1. /\ flow' = [flow EXCEPT ![h] = g]
      /\ UNCHANGED <<pc, inbound, app, sent, got, end, sock, listener, doomed, cut>>
  BY DEF Becomes, appVars
<1>2. g # NoFlow /\ flow \in [Slots -> FlowRecords \cup {NoFlow}]
  BY <1>0, NoFlowIsNone DEF FlowsTyped, SlotsTyped
<1>3. /\ flow'[h] = g /\ (\A x \in Slots : x # h => flow'[x] = flow[x])
      /\ flow' \in [Slots -> FlowRecords \cup {NoFlow}]
      /\ \A x \in Slots : flow'[x] = NoFlow <=> flow[x] = NoFlow
  BY <1>1, <1>2
<1>4. FlowsTyped'
  BY <1>0, <1>1, <1>3 DEF FlowsTyped, SlotsTyped
<1>5. \A x \in Slots : Shape(sock'[x], flow'[x])
  <2> SUFFICES ASSUME NEW x \in Slots PROVE Shape(sock[x], flow'[x])
    BY <1>1
  <2>1. CASE x = h
    BY <1>3, <2>1
  <2>2. CASE x # h
    BY <1>0, <1>3, <2>2 DEF Placed
  <2> QED BY <2>1, <2>2
<1>6. Placed(sock', flow', listener')
  <2>1. /\ listener' \in Slots /\ sock'[listener'].st # "free" /\ flow'[listener'] = NoFlow
        /\ \A x \in Slots : sock'[x].st # "free" => flow'[x] # NoFlow \/ x = listener'
        /\ \A x, y \in Slots : sock'[x].conn \in Conns /\ sock'[x].conn = sock'[y].conn => x = y
    BY <1>0, <1>1, <1>3 DEF Placed
  <2> QED BY <1>5, <2>1 DEF Placed
<1>7. doomed' \subseteq Flows(flow')
  BY <1>0, <1>1, <1>3 DEF Flows
<1>8. pc' = "poll" => \A x \in Slots : flow'[x] = NoFlow => sock'[x].st # "synrcvd"
  BY <1>0, <1>1, <1>3
<1>9. Accounts'
  <2> SUFFICES ASSUME NEW x \in Slots, NEW c \in Conns,
                      sock[x].conn = c, app[c] # "gone", sock[x].st # "closed"
               PROVE  Counted(sock[x], flow'[x], Arrived(c), read'[c] - got[c], cut[c])
    <3>1. \A c \in Conns : Arrived(c)' = Arrived(c)
      BY <1>1 DEF Arrived, Under
    <3> QED BY <1>1, <3>1 DEF Accounts
  <2>1. Counted(sock[x], flow[x], Arrived(c), read[c] - got[c], cut[c])
    BY <1>0 DEF Accounts
  <2>2. read[c] \in Int /\ got[c] \in Int
    BY <1>0 DEF FlowsTyped
  <2>3. CASE x = h
    <3>1. read'[c] - got[c] = (read[c] - got[c]) + n
      BY <2>2, <2>3
    <3>2. Counted(sock[h], g, Arrived(c), (read[c] - got[c]) + n, cut[c])
      BY <2>1, <2>2, <2>3
    <3> QED BY <1>3, <2>3, <3>1, <3>2
  <2>4. CASE x # h
    <3>1. sock[h].conn # c
      BY <1>0, <2>4 DEF Placed
    <3> QED BY <1>3, <2>1, <2>4, <3>1
  <2> QED BY <2>3, <2>4
<1>10. Histories'
  <2>1. \A c \in Conns : Unmet(c) => Unmet(c)'
    BY <1>1 DEF Unmet
  <2>2. \A c \in Conns : Greets(c)' = Greets(c)
    BY <1>1 DEF Greets
  <2>3. ASSUME NEW c \in Conns, end[c] = "fin"
        PROVE  read'[c] = read[c] /\ \A x \in Slots : sock[x].conn = c => Past(sock[x], flow'[x])
    <3>1. \A x \in Slots : sock[x].conn = c => Past(sock[x], flow[x])
      BY <1>0, <2>3 DEF Histories
    <3>2. sock[h].conn = c => flow[h].reader = "eof"
      BY <3>1 DEF Past
    <3>3. read[c] \in Int
      BY <1>0 DEF FlowsTyped
    <3>4. read'[c] = read[c]
      BY <3>2, <3>3
    <3>5. ASSUME NEW x \in Slots, sock[x].conn = c PROVE Past(sock[x], flow'[x])
      BY <1>3, <3>1, <3>2, <3>5 DEF Past
    <3> QED BY <3>4, <3>5
  <2> QED BY <1>0, <1>1, <2>1, <2>2, <2>3 DEF Histories
<1> QED BY <1>4, <1>6, <1>7, <1>8, <1>9, <1>10 DEF FlowsInv

(* What a task says is one message more in the channel of its flow.           *)
LEMMA SaidFacts ==
  ASSUME NEW f \in FlowRecords, NEW m \in Messages
  PROVE  LET g == Say(f, m)
         IN  /\ g \in FlowRecords /\ g.chan = Append(f.chan, m)
             /\ ToSet(g.chan) = ToSet(f.chan) \cup {m}
             /\ Queued(f) \in Int /\ Queued(g) = Queued(f) + (IF m = "data" THEN 1 ELSE 0)
             /\ g.target = f.target /\ g.opened = f.opened /\ g.up = f.up /\ g.reader = f.reader
             /\ g.pending = f.pending /\ g.linked = f.linked /\ g.upch = f.upch
             /\ g.writer = f.writer /\ g.held = f.held /\ g.wrote = f.wrote /\ g.again = f.again
<1> DEFINE q == Append(f.chan, m)
           g == Say(f, m)
<1>1. f.chan \in Seq(Messages)
  BY DEF FlowRecords
<1>2. q \in Seq(Messages) /\ ToSet(q) = ToSet(f.chan) \cup {m}
  BY <1>1, Appended
<1>3. g = [f EXCEPT !.chan = q]
  BY DEF Say
<1>4. DataIn(f.chan) \in Nat /\ DataIn(q) = DataIn(f.chan) + (IF m = "data" THEN 1 ELSE 0)
  BY <1>1, DataAdded
<1> HIDE DEF q, g
<1>5. g \in FlowRecords
  BY <1>2, <1>3 DEF FlowRecords
<1>6. /\ g.chan = q
      /\ g.target = f.target /\ g.opened = f.opened /\ g.up = f.up /\ g.reader = f.reader
      /\ g.pending = f.pending /\ g.linked = f.linked /\ g.upch = f.upch
      /\ g.writer = f.writer /\ g.held = f.held /\ g.wrote = f.wrote /\ g.again = f.again
  BY <1>3 DEF FlowRecords
<1>7. Queued(f) = DataIn(f.chan) /\ Queued(g) = DataIn(q)
  BY <1>5, <1>6, HeardFacts
<1> QED BY <1>2, <1>4, <1>5, <1>6, <1>7 DEF q, g

(* The tasks of a flow that has its channel.                                  *)
LEMMA LinkedFits ==
  ASSUME NEW s \in Sockets, NEW f \in FlowRecords, Shape(s, f), f.linked, NEW g \in FlowRecords,
         g.target = f.target, g.opened = f.opened, g.up = f.up, g.linked, g.again = f.again,
         "link" \notin ToSet(g.chan), s.st \in Closing => g.reader = "eof"
  PROVE  Shape(s, g)
<1>1. f # NoFlow /\ g # NoFlow
  BY NoFlowIsNone
<1> QED BY <1>1 DEF Shape

(* Every step of a task.                                                      *)
LEMMA TaskPreserves ==
  ASSUME FlowsInv, NEW h \in Slots, flow[h] # NoFlow, TaskSteps(h) \/ Ages(h)
  PROVE  FlowsInv'
<1> DEFINE f == flow[h]
           s == sock[h]
<1>0. /\ f \in FlowRecords /\ s \in Sockets /\ Shape(s, f) /\ read \in [Conns -> Int] /\ f # NoFlow
  BY DEF FlowsInv, FlowsTyped, SlotsTyped, Placed
<1>1. /\ f.up # "none" => f.opened
      /\ f.up # "done" => f.chan = <<>> /\ ~f.linked
      /\ ~f.linked => /\ f.chan \in {<<>>, <<"link">>, <<"linkerr">>}
                      /\ f.reader = "none" /\ f.writer = "none"
                      /\ f.pending = 0 /\ f.upch = 0 /\ f.held = 0 /\ f.wrote = 0
      /\ f.linked => "link" \notin ToSet(f.chan)
      /\ s.st \in Closing => f.reader = "eof"
  BY <1>0 DEF Shape
<1>2. /\ f.upch \in Int /\ f.held \in Int /\ f.wrote \in Int /\ f.pending \in Int /\ s.rx \in Int /\ s.tx \in Int
      /\ f.linked \in BOOLEAN /\ f.chan \in Seq(Messages)
  BY <1>0 DEF FlowRecords, Sockets
<1>3. {"link", "linkerr", "data", "uperr"} = Messages
  BY DEF Messages
<1>4. ASSUME NEW g \in FlowRecords, Becomes(h, g), UNCHANGED read, Shape(s, g),
             f.reader = "eof" => g.reader = "eof",
             \A u, d, k : Counted(s, f, u, d, k) => Counted(s, g, u, d, k)
      PROVE  FlowsInv'
  <2>1. /\ read' \in [Conns -> Int]
        /\ \A c \in Conns : read'[c] = IF sock[h].conn = c THEN read[c] + 0 ELSE read[c]
    BY <1>0, <1>4
  <2>2. \A u, k : \A d \in Int : Counted(sock[h], flow[h], u, d, k) => Counted(sock[h], g, u, d + 0, k)
    <3> SUFFICES ASSUME NEW u, NEW k, NEW d \in Int, Counted(s, f, u, d, k) PROVE Counted(s, g, u, d + 0, k)
      OBVIOUS
    <3>1. d + 0 = d
      OBVIOUS
    <3> QED BY <3>1, <1>4
  <2> QED BY <2>1, <2>2, <1>0, <1>4, FlowStep
<1>5. CASE UpTask(h)
  <2> DEFINE e == [f EXCEPT !.up = "done"]
  <2>1. PICK m \in {"link", "linkerr"} : Becomes(h, Say(e, m))
    BY <1>5 DEF UpTask, Task
  <2> DEFINE g == Say(e, m)
  <2>2. /\ e \in FlowRecords /\ e.up = "done" /\ e.chan = f.chan /\ e.target = f.target /\ e.opened = f.opened
        /\ e.reader = f.reader /\ e.pending = f.pending /\ e.linked = f.linked /\ e.upch = f.upch
        /\ e.writer = f.writer /\ e.held = f.held /\ e.wrote = f.wrote /\ e.again = f.again
    <3> HIDE DEF f
    <3> QED BY <1>0 DEF FlowRecords
  <2> HIDE DEF e
  <2>3. /\ g \in FlowRecords /\ g.chan = Append(e.chan, m)
        /\ Queued(e) \in Int /\ Queued(g) = Queued(e)
        /\ g.target = e.target /\ g.opened = e.opened /\ g.up = e.up /\ g.reader = e.reader
        /\ g.pending = e.pending /\ g.linked = e.linked /\ g.upch = e.upch
        /\ g.writer = e.writer /\ g.held = e.held /\ g.wrote = e.wrote /\ g.again = e.again
    <3>1. m \in Messages /\ m # "data"
      BY <1>3
    <3> QED BY <2>2, <3>1, SaidFacts
  <2>4. f.up = "opening" /\ f.chan = <<>> /\ ~f.linked /\ f.opened /\ UNCHANGED read
    BY <1>1, <1>5 DEF UpTask
  <2>5. g.chan \in {<<"link">>, <<"linkerr">>}
    BY <2>2, <2>3, <2>4
  <2>6. Queued(g) = Queued(f)
    BY <2>2, <2>3 DEF Queued
  <2>7. g # NoFlow
    BY <2>3, NoFlowIsNone
  <2> HIDE DEF g, f, s
  <2>8. Shape(s, g)
    BY <1>0, <1>1, <2>2, <2>3, <2>4, <2>5, <2>7 DEF Shape
  <2>9. \A u, d, k : Counted(s, f, u, d, k) => Counted(s, g, u, d, k)
    BY <1>0, <2>2, <2>3, <2>6, <2>7 DEF Counted
  <2>10. f.reader = "eof" => g.reader = "eof"
    BY <2>2, <2>3
  <2>11. Becomes(h, g)
    BY <2>1 DEF g
  <2> QED BY <1>4, <2>3, <2>4, <2>8, <2>9, <2>10, <2>11
<1>6. CASE ReaderReads(h)
  <2> DEFINE g == Say(f, "data")
  <2>1. f.reader = "on" /\ Becomes(h, g)
    BY <1>6 DEF ReaderReads, Task
  <2>2. /\ g \in FlowRecords /\ ToSet(g.chan) = ToSet(f.chan) \cup {"data"}
        /\ Queued(f) \in Int /\ Queued(g) = Queued(f) + 1
        /\ g.target = f.target /\ g.opened = f.opened /\ g.up = f.up /\ g.reader = f.reader
        /\ g.pending = f.pending /\ g.linked = f.linked /\ g.upch = f.upch
        /\ g.writer = f.writer /\ g.held = f.held /\ g.wrote = f.wrote /\ g.again = f.again
    <3>1. "data" \in Messages
      BY <1>3
    <3> QED BY <3>1, <1>0, SaidFacts
  <2> HIDE DEF g
  <2>3. f.linked /\ s.st \notin Closing
    BY <1>1, <2>1
  <2>4. Shape(s, g)
    <3>1. "link" \notin ToSet(g.chan)
      BY <1>1, <2>2, <2>3
    <3> QED BY <3>1, <1>0, <2>2, <2>3, LinkedFits
  <2>5. g # NoFlow
    BY <2>2, NoFlowIsNone
  <2>6. \A u, k : \A d \in Int : Counted(s, f, u, d, k) => Counted(s, g, u, d + 1, k)
    <3> SUFFICES ASSUME NEW u, NEW k, NEW d \in Int, Counted(s, f, u, d, k) PROVE Counted(s, g, u, d + 1, k)
      OBVIOUS
    <3> HIDE DEF f, s
    <3>1. /\ f.writer # "dead" => s.rx + f.upch + f.held + f.wrote = u
          /\ s.tx + f.pending + Queued(f) = d /\ k = 0
      BY <1>0, <2>3 DEF Counted
    <3>2. s.tx + f.pending + (Queued(f) + 1) = d + 1
      BY <1>2, <2>2, <3>1
    <3> QED BY <2>2, <2>3, <2>5, <3>1, <3>2 DEF Counted
  <2>7. /\ read' \in [Conns -> Int]
        /\ \A c \in Conns : read'[c] = IF sock[h].conn = c THEN read[c] + 1 ELSE read[c]
    <3>1. PICK c \in {s.conn} \cap Conns : read' = [read EXCEPT ![c] = @ + 1]
      BY <1>6 DEF ReaderReads
    <3> QED BY <1>0, <3>1
  <2>8. f.reader # "eof"
    BY <2>1
  <2> QED BY <1>0, <2>1, <2>2, <2>4, <2>6, <2>7, <2>8, FlowStep
<1>7. CASE ReaderEnds(h)
  <2> DEFINE g == [f EXCEPT !.reader = "eof"]
  <2>1. f.reader = "on" /\ Becomes(h, g) /\ UNCHANGED read
    BY <1>7 DEF ReaderEnds, Task
  <2>2. /\ g \in FlowRecords /\ g.reader = "eof" /\ g.chan = f.chan
        /\ g.target = f.target /\ g.opened = f.opened /\ g.up = f.up
        /\ g.pending = f.pending /\ g.linked = f.linked /\ g.upch = f.upch
        /\ g.writer = f.writer /\ g.held = f.held /\ g.wrote = f.wrote /\ g.again = f.again
    <3> HIDE DEF f
    <3> QED BY <1>0 DEF FlowRecords
  <2> HIDE DEF g, f, s
  <2>3. f.linked
    BY <1>1, <2>1
  <2>4. Shape(s, g)
    BY <1>0, <1>1, <2>2, <2>3, LinkedFits
  <2>5. \A u, d, k : Counted(s, f, u, d, k) => Counted(s, g, u, d, k)
    <3>1. g # NoFlow /\ Queued(g) = Queued(f)
      BY <2>2, NoFlowIsNone DEF Queued
    <3> QED BY <1>0, <2>2, <3>1 DEF Counted
  <2> QED BY <1>4, <2>1, <2>2, <2>4, <2>5
<1>8. CASE WriterTakes(h)
  <2> DEFINE g == [f EXCEPT !.upch = @ - 1, !.held = 1]
  <2>1. f.writer = "on" /\ f.held = 0 /\ Becomes(h, g) /\ UNCHANGED read
    BY <1>8 DEF WriterTakes, Task
  <2>2. /\ g \in FlowRecords /\ g.reader = f.reader /\ g.chan = f.chan
        /\ g.target = f.target /\ g.opened = f.opened /\ g.up = f.up
        /\ g.pending = f.pending /\ g.linked = f.linked /\ g.upch = f.upch - 1
        /\ g.writer = f.writer /\ g.held = 1 /\ g.wrote = f.wrote /\ g.again = f.again
    <3> DEFINE x == f.upch - 1
               y == 1
    <3>1. x \in Int /\ y \in Int /\ g = [f EXCEPT !.upch = x, !.held = y]
      BY <1>2
    <3> HIDE DEF f, g, x, y
    <3>2. g \in FlowRecords
      BY <1>0, <3>1 DEF FlowRecords
    <3>3. /\ g.reader = f.reader /\ g.chan = f.chan
          /\ g.target = f.target /\ g.opened = f.opened /\ g.up = f.up
          /\ g.pending = f.pending /\ g.linked = f.linked /\ g.writer = f.writer /\ g.again = f.again
          /\ g.upch = x /\ g.held = y /\ g.wrote = f.wrote
      BY <1>0, <3>1 DEF FlowRecords
    <3> QED BY <3>2, <3>3 DEF x, y
  <2> HIDE DEF g, f, s
  <2>3. f.linked
    BY <1>1, <2>1
  <2>4. Shape(s, g)
    BY <1>0, <1>1, <2>2, <2>3, LinkedFits
  <2>5. \A u, d, k : Counted(s, f, u, d, k) => Counted(s, g, u, d, k)
    <3>1. g # NoFlow /\ Queued(g) = Queued(f)
      BY <2>2, NoFlowIsNone DEF Queued
    <3>2. s.rx + g.upch + g.held + g.wrote = s.rx + f.upch + f.held + f.wrote
      <4>1. /\ s.rx \in Int /\ f.upch \in Int /\ f.wrote \in Int
            /\ g.upch = f.upch - 1 /\ g.held = 1 /\ f.held = 0 /\ g.wrote = f.wrote
        BY <1>2, <2>1, <2>2
      <4> QED BY <4>1
    <3> QED BY <1>0, <2>2, <3>1, <3>2 DEF Counted
  <2> QED BY <1>4, <2>1, <2>2, <2>4, <2>5
<1>9. CASE WriterWrites(h)
  <2> DEFINE g == [f EXCEPT !.held = 0, !.wrote = @ + 1]
  <2>1. f.writer = "on" /\ f.held = 1 /\ Becomes(h, g) /\ UNCHANGED read
    BY <1>9 DEF WriterWrites, Task
  <2>2. /\ g \in FlowRecords /\ g.reader = f.reader /\ g.chan = f.chan
        /\ g.target = f.target /\ g.opened = f.opened /\ g.up = f.up
        /\ g.pending = f.pending /\ g.linked = f.linked /\ g.upch = f.upch
        /\ g.writer = f.writer /\ g.held = 0 /\ g.wrote = f.wrote + 1 /\ g.again = f.again
    <3> DEFINE x == f.wrote + 1
               y == 0
    <3>1. x \in Int /\ y \in Int /\ g = [f EXCEPT !.held = y, !.wrote = x]
      BY <1>2
    <3> HIDE DEF f, g, x, y
    <3>2. g \in FlowRecords
      BY <1>0, <3>1 DEF FlowRecords
    <3>3. /\ g.reader = f.reader /\ g.chan = f.chan
          /\ g.target = f.target /\ g.opened = f.opened /\ g.up = f.up
          /\ g.pending = f.pending /\ g.linked = f.linked /\ g.writer = f.writer /\ g.again = f.again
          /\ g.upch = f.upch /\ g.held = y /\ g.wrote = x
      BY <1>0, <3>1 DEF FlowRecords
    <3> QED BY <3>2, <3>3 DEF x, y
  <2> HIDE DEF g, f, s
  <2>3. f.linked
    BY <1>1, <2>1
  <2>4. Shape(s, g)
    BY <1>0, <1>1, <2>2, <2>3, LinkedFits
  <2>5. \A u, d, k : Counted(s, f, u, d, k) => Counted(s, g, u, d, k)
    <3>1. g # NoFlow /\ Queued(g) = Queued(f)
      BY <2>2, NoFlowIsNone DEF Queued
    <3>2. s.rx + g.upch + g.held + g.wrote = s.rx + f.upch + f.held + f.wrote
      BY <1>2, <2>1, <2>2
    <3> QED BY <1>0, <2>2, <3>1, <3>2 DEF Counted
  <2> QED BY <1>4, <2>1, <2>2, <2>4, <2>5
<1>10. CASE WriterFails(h)
  <2> DEFINE e == [f EXCEPT !.writer = "dead"]
             g == Say(e, "uperr")
  <2>1. f.writer = "on" /\ Becomes(h, g) /\ UNCHANGED read
    BY <1>10 DEF WriterFails, Task
  <2>2. /\ e \in FlowRecords /\ e.up = f.up /\ e.chan = f.chan /\ e.target = f.target /\ e.opened = f.opened
        /\ e.reader = f.reader /\ e.pending = f.pending /\ e.linked = f.linked
        /\ e.writer = "dead" /\ e.again = f.again
    <3> HIDE DEF f
    <3> QED BY <1>0 DEF FlowRecords
  <2> HIDE DEF e
  <2>3. /\ g \in FlowRecords /\ ToSet(g.chan) = ToSet(e.chan) \cup {"uperr"}
        /\ Queued(e) \in Int /\ Queued(g) = Queued(e)
        /\ g.target = e.target /\ g.opened = e.opened /\ g.up = e.up /\ g.reader = e.reader
        /\ g.pending = e.pending /\ g.linked = e.linked /\ g.writer = e.writer /\ g.again = e.again
    <3> DEFINE m == "uperr"
    <3>1. m \in Messages /\ m # "data" /\ g = Say(e, m)
      BY <1>3
    <3> HIDE DEF m, g
    <3>2. g \in FlowRecords /\ ToSet(g.chan) = ToSet(e.chan) \cup {m}
      BY <2>2, <3>1, SaidFacts
    <3>3. Queued(e) \in Int /\ Queued(g) = Queued(e) + 0
      BY <2>2, <3>1, SaidFacts
    <3>4. Queued(e) \in Int /\ Queued(g) = Queued(e)
      BY <3>3
    <3>5. /\ g.target = e.target /\ g.opened = e.opened /\ g.up = e.up /\ g.reader = e.reader
          /\ g.pending = e.pending /\ g.linked = e.linked /\ g.writer = e.writer /\ g.again = e.again
      BY <2>2, <3>1, SaidFacts
    <3> QED BY <3>2, <3>4, <3>5 DEF m
  <2>4. f.linked /\ g.linked /\ "link" \notin ToSet(g.chan)
    BY <1>1, <2>1, <2>2, <2>3
  <2>5. g # NoFlow /\ Queued(g) = Queued(f)
    BY <2>2, <2>3, NoFlowIsNone DEF Queued
  <2> HIDE DEF g, f, s
  <2>6. Shape(s, g)
    BY <1>0, <1>1, <2>2, <2>3, <2>4, LinkedFits
  <2>7. \A u, d, k : Counted(s, f, u, d, k) => Counted(s, g, u, d, k)
    BY <1>0, <2>2, <2>3, <2>5 DEF Counted
  <2> QED BY <1>4, <2>1, <2>2, <2>3, <2>6, <2>7
<1>11. CASE Ages(h)
  <2> DEFINE g == [f EXCEPT !.aged = TRUE]
  <2>1. Becomes(h, g) /\ UNCHANGED read
    BY <1>11 DEF Ages
  <2>2. /\ g \in FlowRecords /\ g.reader = f.reader /\ g.chan = f.chan
        /\ g.target = f.target /\ g.opened = f.opened /\ g.up = f.up
        /\ g.pending = f.pending /\ g.linked = f.linked /\ g.upch = f.upch
        /\ g.writer = f.writer /\ g.held = f.held /\ g.wrote = f.wrote /\ g.again = f.again
    <3> HIDE DEF f
    <3> QED BY <1>0 DEF FlowRecords
  <2> HIDE DEF g, f, s
  <2>3. g # NoFlow /\ Queued(g) = Queued(f)
    BY <2>2, NoFlowIsNone DEF Queued
  <2>4. Shape(s, g)
    BY <1>0, <2>2, <2>3 DEF Shape
  <2>5. \A u, d, k : Counted(s, f, u, d, k) => Counted(s, g, u, d, k)
    BY <1>0, <2>2, <2>3 DEF Counted
  <2> QED BY <1>4, <2>1, <2>2, <2>4, <2>5
<1> QED BY <1>5, <1>6, <1>7, <1>8, <1>9, <1>10, <1>11 DEF TaskSteps

(* A packet comes from the device: its bytes are sent, and have not arrived.  *)
LEMMA ArrivesKeeps ==
  ASSUME FlowsInv, NEW c \in Conns, NEW p \in Arrivals, p.conn = c, Arrives(p), app[c] # "gone",
         NEW x \in {"waiting", "open", "half", "gone"}, app' = [app EXCEPT ![c] = x],
         sent' \in [Conns -> Int], got' \in [Conns -> Int], read' \in [Conns -> Int], cut' \in [Conns -> Int],
         \A d \in Conns : d # c \/ x # "gone" => got'[d] = got[d] /\ read'[d] = read[d] /\ cut'[d] = cut[d],
         \A d \in Conns : d # c => sent'[d] = sent[d],
         x # "gone" => sent'[c] = sent[c] + p.bytes,
         x = "gone" => got'[c] + cut'[c] = read'[c],
         p.kind = "syn" => x # "gone" /\ app[c] = "idle"
  PROVE  FlowsInv'
<1>0. /\ FlowsTyped /\ Placed(sock, flow, listener) /\ doomed \subseteq Flows(flow)
      /\ Accounts /\ Histories
  BY DEF FlowsInv
<1>1. /\ pc = "select" /\ pc' = "pump" /\ inbound' = p /\ inbound = None
      /\ UNCHANGED <<end, sock, listener, flow, doomed>>
  BY <1>0 DEF Arrives, FlowsTyped
<1>2. p # None /\ p.bytes \in Int /\ (p.kind # "seg" => p.bytes = 0)
  BY ArrivalFacts
<1>3. app'[c] = x /\ \A d \in Conns : d # c => app'[d] = app[d]
  BY <1>0 DEF FlowsTyped
<1>4. FlowsTyped'
  <2>1. app' \in [Conns -> {"idle", "waiting", "open", "half", "gone"}]
    BY <1>0 DEF FlowsTyped
  <2> QED BY <1>0, <1>1, <2>1 DEF FlowsTyped, SlotsTyped
<1>5. Placed(sock', flow', listener')
  BY <1>0, <1>1
<1>6. Accounts'
  <2> SUFFICES ASSUME NEW h \in Slots, NEW d \in Conns, sock[h].conn = d, app'[d] # "gone", sock[h].st # "closed"
               PROVE  Counted(sock[h], flow[h], Arrived(d)', read'[d] - got'[d], cut'[d])
    BY <1>1 DEF Accounts
  <2>1. app[d] # "gone"
    BY <1>3
  <2>2. Arrived(d)' = Arrived(d) /\ got'[d] = got[d] /\ read'[d] = read[d] /\ cut'[d] = cut[d]
    <3>1. Arrived(d) = sent[d]
      BY <1>0, <1>1 DEF Arrived, Under, FlowsTyped
    <3>2. CASE d = c
      <4>1. Arrived(d)' = sent'[c] - p.bytes /\ sent'[c] = sent[c] + p.bytes /\ sent[c] \in Int
        BY <1>0, <1>1, <1>2, <1>3, <3>2 DEF Arrived, Under, FlowsTyped
      <4> QED BY <1>2, <1>3, <3>1, <3>2, <4>1
    <3>3. CASE d # c
      <4>1. Arrived(d)' = sent'[d] - 0 /\ sent'[d] = sent[d] /\ sent[d] \in Int
        BY <1>0, <1>1, <3>3 DEF Arrived, Under, FlowsTyped
      <4> QED BY <3>1, <3>3, <4>1
    <3> QED BY <3>2, <3>3
  <2>3. app[d] # "gone" => Counted(sock[h], flow[h], Arrived(d), read[d] - got[d], cut[d])
    BY <1>0 DEF Accounts
  <2> QED BY <2>1, <2>2, <2>3
<1>7. Histories'
  <2> SUFFICES ASSUME NEW d \in Conns
               PROVE  /\ app'[d] = "idle" => Unmet(d)'
                      /\ Greets(d)' => app'[d] # "idle" /\ Unmet(d)'
                      /\ end[d] = "fin" => /\ got'[d] + cut'[d] = read'[d]
                                           /\ \A h \in Slots : sock[h].conn = d => Past(sock[h], flow[h])
    BY <1>1 DEF Histories
  <2>0. /\ app[d] = "idle" => Unmet(d)
        /\ end[d] = "fin" => /\ got[d] + cut[d] = read[d]
                             /\ \A h \in Slots : sock[h].conn = d => Past(sock[h], flow[h])
    BY <1>0 DEF Histories
  <2>1. ASSUME app'[d] = "idle" PROVE Unmet(d)'
    <3>1. d # c /\ Unmet(d)
      BY <1>3, <2>0, <2>1
    <3> QED BY <1>1, <3>1 DEF Unmet
  <2>2. ASSUME Greets(d)' PROVE app'[d] # "idle" /\ Unmet(d)'
    <3>1. d = c /\ p.kind = "syn"
      BY <1>1, <2>2 DEF Greets
    <3>2. Unmet(c) /\ x # "gone" /\ p.bytes = 0
      BY <1>2, <2>0, <3>1
    <3>3. sent'[c] = 0
      BY <3>2 DEF Unmet
    <3> QED BY <1>1, <1>3, <3>1, <3>2, <3>3 DEF Unmet
  <2>3. end[d] = "fin" => got'[d] + cut'[d] = read'[d]
    BY <2>0
  <2> QED BY <2>0, <2>1, <2>2, <2>3
<1> QED BY <1>0, <1>1, <1>4, <1>5, <1>6, <1>7 DEF FlowsInv

(* Bytes go to the application, or the end of the stream.                     *)
LEMMA TakesKeeps ==
  ASSUME FlowsInv, NEW c \in Conns, Takes(c)
  PROVE  FlowsInv'
<1>0. /\ FlowsTyped /\ Placed(sock, flow, listener) /\ doomed \subseteq Flows(flow)
      /\ Accounts /\ Histories /\ SlotsTyped(sock, flow)
  BY DEF FlowsInv, FlowsTyped
<1>1. /\ pc = "select" /\ app[c] \in {"open", "half"}
      /\ UNCHANGED <<pc, inbound, app, sent, listener, flow, doomed, read, cut>> /\ inbound = None
  BY <1>0 DEF Takes, FlowsTyped
<1>2. PICK h \in SocketsOf(c) :
        \/ /\ sock[h].tx > 0 /\ sock' = [sock EXCEPT ![h].tx = @ - 1]
           /\ got' = [got EXCEPT ![c] = @ + 1] /\ end' = end
        \/ /\ sock[h].tx = 0 /\ sock[h].st \in {"finwait", "lastack"}
           /\ end' = [end EXCEPT ![c] = "fin"]
           /\ sock' = [sock EXCEPT ![h].st = IF @ = "lastack" THEN "closed" ELSE @]
           /\ got' = got
  BY DEF Takes
<1> DEFINE s == sock[h]
           f == flow[h]
           v == sock'[h]
<1>3. h \in Slots /\ s.conn = c /\ Connected(s) /\ s \in Sockets /\ Shape(s, f)
  BY <1>0, <1>2 DEF SocketsOf, SlotsTyped, Placed
<1>4. /\ s.st \in SocketStates /\ s.tx \in Int /\ s.tx <= TxCap /\ TxCap \in Nat
      /\ s.st \notin {"free", "closed", "listen"}
  BY <1>3, NoFlowIsNone DEF Sockets, Shape, Connected
<1>5. \/ /\ s.tx > 0 /\ v = [s EXCEPT !.tx = s.tx - 1]
         /\ got'[c] = got[c] + 1 /\ end' = end
      \/ /\ s.tx = 0 /\ s.st \in {"finwait", "lastack"} /\ got' = got
         /\ end'[c] = "fin" /\ v = [s EXCEPT !.st = IF s.st = "lastack" THEN "closed" ELSE s.st]
  BY <1>0, <1>2, <1>3 DEF SlotsTyped, FlowsTyped
<1>6. /\ \A x \in Slots : x # h => sock'[x] = sock[x]
      /\ sock' = [x \in Slots |-> sock'[x]]
      /\ \A d \in Conns : d # c => got'[d] = got[d] /\ end'[d] = end[d]
      /\ got' \in [Conns -> Int] /\ end' \in [Conns -> {"none", "fin", "rst"}]
  BY <1>0, <1>2, <1>3 DEF SlotsTyped, FlowsTyped
<1>7. Counted(s, f, Arrived(c), read[c] - got[c], cut[c])
  BY <1>0, <1>1, <1>3, <1>4 DEF Accounts
<1>8. /\ end[c] = "fin" => got[c] + cut[c] = read[c] /\ Past(s, f)
      /\ got[c] \in Int /\ cut[c] \in Int /\ read[c] \in Int
  BY <1>0, <1>3 DEF Histories, FlowsTyped
<1>9. s.st \in Closing => f # NoFlow /\ f.reader = "eof" /\ s.tx + cut[c] = read[c] - got[c]
  <2> HIDE DEF s, f
  <2> QED BY <1>3, <1>7 DEF Shape, Counted, Closing
<1>10. {"finwait", "lastack"} \subseteq Closing /\ "closed" \notin Closing /\ "closed" \in SocketStates
       /\ Closing \subseteq SocketStates
  BY DEF Closing, SocketStates
<1>11. /\ v \in Sockets /\ v.conn = s.conn /\ v.rx = s.rx
       /\ \/ v.st = s.st
          \/ s.st = "lastack" /\ v.st = "closed"
       /\ v.tx <= s.tx
       /\ \/ s.tx > 0 /\ v.st = s.st /\ v.tx = s.tx - 1 /\ got'[c] = got[c] + 1 /\ end' = end
          \/ s.tx = 0 /\ s.st \in Closing /\ v.tx = s.tx /\ got' = got /\ end'[c] = "fin"
  <2>1. CASE s.tx > 0 /\ v = [s EXCEPT !.tx = s.tx - 1] /\ got'[c] = got[c] + 1 /\ end' = end
    <3> DEFINE y == s.tx - 1
    <3>1. y \in Int /\ y <= s.tx /\ v = [s EXCEPT !.tx = y]
      BY <1>4, <2>1
    <3> HIDE DEF y, s, v
    <3>2. v \in Sockets /\ v.conn = s.conn /\ v.rx = s.rx /\ v.st = s.st /\ v.tx = y
      BY <1>3, <3>1 DEF Sockets
    <3> QED BY <2>1, <3>1, <3>2 DEF y
  <2>2. CASE /\ s.tx = 0 /\ s.st \in {"finwait", "lastack"} /\ got' = got
             /\ end'[c] = "fin" /\ v = [s EXCEPT !.st = IF s.st = "lastack" THEN "closed" ELSE s.st]
    <3> DEFINE y == IF s.st = "lastack" THEN "closed" ELSE s.st
    <3>1. y \in SocketStates /\ v = [s EXCEPT !.st = y] /\ (y = s.st \/ (s.st = "lastack" /\ y = "closed"))
      BY <1>4, <1>10, <2>2
    <3> HIDE DEF y, s, v
    <3>2. v \in Sockets /\ v.conn = s.conn /\ v.rx = s.rx /\ v.st = y /\ v.tx = s.tx
      BY <1>3, <3>1 DEF Sockets
    <3> QED BY <1>4, <1>10, <2>2, <3>1, <3>2
  <2> QED BY <1>5, <2>1, <2>2
<1> HIDE DEF s, f, v
<1>12. Shape(v, f)
  <2>1. s.st = "lastack" => f # NoFlow
    BY <1>9, <1>10
  <2>2. v.st \in {"free", "listen"} => FALSE
    BY <1>4, <1>11
  <2>3. v.tx \in Int /\ v.tx <= TxCap
    BY <1>4, <1>11 DEF Sockets
  <2> QED BY <1>3, <1>10, <1>11, <2>1, <2>2, <2>3 DEF Shape
<1>13. /\ \A x \in Slots : sock'[x].conn = sock[x].conn /\ sock'[x] \in Sockets
       /\ \A x \in Slots : sock'[x].st = "free" <=> sock[x].st = "free"
       /\ \A x \in Slots : Shape(sock'[x], flow[x])
       /\ \A x \in Slots : sock'[x].st = sock[x].st \/ (x = h /\ sock'[x].st = "closed")
  <2> SUFFICES ASSUME NEW x \in Slots
               PROVE  /\ sock'[x].conn = sock[x].conn /\ sock'[x] \in Sockets
                      /\ sock'[x].st = "free" <=> sock[x].st = "free"
                      /\ Shape(sock'[x], flow[x])
                      /\ sock'[x].st = sock[x].st \/ (x = h /\ sock'[x].st = "closed")
    OBVIOUS
  <2>1. CASE x = h
    BY <1>4, <1>11, <1>12, <2>1 DEF s, f, v
  <2>2. CASE x # h
    BY <1>0, <1>6, <2>2 DEF Placed, SlotsTyped
  <2> QED BY <2>1, <2>2
<1>14. SlotsTyped(sock', flow')
  BY <1>0, <1>1, <1>6, <1>13 DEF SlotsTyped
<1>15. FlowsTyped'
  BY <1>0, <1>1, <1>6, <1>14 DEF FlowsTyped, SlotsTyped
<1>16. Placed(sock', flow', listener')
  <2>1. /\ listener' \in Slots /\ sock'[listener'].st # "free" /\ flow'[listener'] = NoFlow
        /\ \A x \in Slots : sock'[x].st # "free" => flow'[x] # NoFlow \/ x = listener'
    BY <1>0, <1>1, <1>13 DEF Placed
  <2>2. \A x, y \in Slots : sock'[x].conn \in Conns /\ sock'[x].conn = sock'[y].conn => x = y
    BY <1>0, <1>13 DEF Placed
  <2> QED BY <1>1, <1>13, <2>1, <2>2 DEF Placed
<1>17. \A x \in Slots : sock[x].conn = c => x = h
  BY <1>0, <1>3 DEF Placed, s
<1>18. \A d \in Conns : Arrived(d)' = Arrived(d)
  BY <1>1 DEF Arrived, Under
<1>19. Accounts'
  <2> SUFFICES ASSUME NEW x \in Slots, NEW d \in Conns, sock'[x].conn = d, app[d] # "gone", sock'[x].st # "closed"
               PROVE  Counted(sock'[x], flow[x], Arrived(d), read[d] - got'[d], cut[d])
    BY <1>1, <1>18 DEF Accounts
  <2>1. CASE x = h
    <3>1. d = c /\ v.st # "closed" /\ v.st = s.st
      BY <1>3, <1>11, <1>13, <2>1 DEF s, v
    <3> DEFINE a == read[c] - got[c]
               b == read[c] - got'[c]
               K == cut[c]
               A == Arrived(c)
    <3>2. v.tx - s.tx = b - a /\ v.tx \in Int /\ a \in Int /\ b \in Int
      <4>1. v.tx \in Int
        BY <1>11 DEF Sockets
      <4> QED BY <1>4, <1>8, <1>11, <4>1
    <3>3. Counted(s, f, A, a, K)
      BY <1>7
    <3>4. f # NoFlow => f.pending \in Int /\ Queued(f) \in Int
      <4> SUFFICES ASSUME f # NoFlow PROVE f.pending \in Int /\ Queued(f) \in Int
        OBVIOUS
      <4>1. f \in FlowRecords
        BY <1>0, <1>3 DEF SlotsTyped, f
      <4>2. f.chan \in Seq(Messages) /\ Queued(f) = DataIn(f.chan) /\ "data" \in Messages
        BY <4>1, HeardFacts DEF Messages
      <4> QED BY <4>1, <4>2, DataAdded DEF FlowRecords
    <3> HIDE DEF a, b, K, A
    <3>5. Counted(v, f, A, b, K)
      <4>1. CASE f = NoFlow
        <5>1. s.rx = A /\ s.tx = a /\ K = 0
          BY <3>3, <4>1 DEF Counted
        <5>2. v.tx = b
          BY <1>4, <3>2, <5>1
        <5> QED BY <1>11, <4>1, <5>1, <5>2 DEF Counted
      <4>2. CASE f # NoFlow /\ s.st \in Closing
        <5>1. s.tx + K = a
          BY <3>3, <4>2 DEF Counted
        <5>2. K \in Int
          BY <1>8 DEF K
        <5>3. v.tx + K = b
          BY <1>4, <3>2, <5>1, <5>2
        <5> QED BY <1>11, <3>1, <3>3, <4>2, <5>3 DEF Counted
      <4>3. CASE f # NoFlow /\ s.st \notin Closing
        <5>1. s.tx + f.pending + Queued(f) = a /\ K = 0
          BY <3>3, <4>3 DEF Counted
        <5>2. v.tx + f.pending + Queued(f) = b
          BY <1>4, <3>2, <3>4, <4>3, <5>1
        <5> QED BY <1>11, <3>1, <3>3, <4>3, <5>1, <5>2 DEF Counted
      <4> QED BY <4>1, <4>2, <4>3
    <3> QED BY <2>1, <3>1, <3>5 DEF v, f, a, b, K, A
  <2>2. CASE x # h
    <3>1. d # c /\ sock'[x] = sock[x]
      BY <1>6, <1>13, <1>17, <2>2
    <3> QED BY <1>0, <1>6, <3>1 DEF Accounts
  <2> QED BY <2>1, <2>2
<1>20. Histories'
  <2> SUFFICES ASSUME NEW d \in Conns
               PROVE  /\ app[d] = "idle" => Unmet(d)'
                      /\ end'[d] = "fin" => /\ got'[d] + cut[d] = read[d]
                                            /\ \A x \in Slots : sock'[x].conn = d => Past(sock'[x], flow[x])
    <3>1. \A d \in Conns : ~Greets(d)'
      BY <1>1 DEF Greets
    <3> QED BY <1>1, <3>1 DEF Histories
  <2>0. /\ app[d] = "idle" => Unmet(d)
        /\ end[d] = "fin" => /\ got[d] + cut[d] = read[d]
                             /\ \A x \in Slots : sock[x].conn = d => Past(sock[x], flow[x])
    BY <1>0 DEF Histories
  <2>1. ASSUME app[d] = "idle" PROVE Unmet(d)'
    <3>1. d # c
      BY <1>1, <2>1
    <3> QED BY <1>1, <1>6, <1>13, <2>0, <2>1, <3>1 DEF Unmet
  <2>2. ASSUME end'[d] = "fin"
        PROVE  /\ got'[d] + cut[d] = read[d]
               /\ \A x \in Slots : sock'[x].conn = d => Past(sock'[x], flow[x])
    <3>1. CASE d = c
      <4>1. ~(s.tx > 0 /\ v.st = s.st /\ v.tx = s.tx - 1 /\ got'[c] = got[c] + 1 /\ end' = end)
        <5> SUFFICES ASSUME s.tx > 0, end' = end PROVE FALSE
          OBVIOUS
        <5>1. got[c] + cut[c] = read[c] /\ Past(s, f)
          BY <1>8, <2>2, <3>1
        <5>2. s.st \in Closing
          BY <1>4, <5>1 DEF Past
        <5> QED BY <1>4, <1>8, <1>9, <5>1, <5>2
      <4>2. s.tx = 0 /\ s.st \in Closing /\ got' = got
        BY <1>11, <4>1
      <4>3. got'[c] + cut[c] = read[c]
        BY <1>8, <1>9, <4>2
      <4>4. Past(v, f)
        BY <1>9, <1>11, <4>2 DEF Past
      <4>5. \A x \in Slots : sock'[x].conn = c => x = h
        BY <1>13, <1>17
      <4> QED BY <3>1, <4>3, <4>4, <4>5 DEF v, f
    <3>2. CASE d # c
      <4>1. \A x \in Slots : sock'[x].conn = d => sock'[x] = sock[x]
        BY <1>3, <1>6, <1>13, <3>2 DEF s
      <4> QED BY <1>6, <1>13, <2>0, <2>2, <3>2, <4>1
    <3> QED BY <3>1, <3>2
  <2> QED BY <2>1, <2>2
<1> QED BY <1>0, <1>1, <1>15, <1>16, <1>19, <1>20 DEF FlowsInv

(* Between two steps nothing happens; a tick moves the loop on.               *)
LEMMA FlowsStutter ==
  ASSUME FlowsInv, UNCHANGED flowVars \/ Tick
  PROVE  FlowsInv'
<1>0. /\ FlowsTyped /\ Placed(sock, flow, listener) /\ doomed \subseteq Flows(flow)
      /\ pc = "poll" => \A h \in Slots : flow[h] = NoFlow => sock[h].st # "synrcvd"
      /\ Accounts /\ Histories
  BY DEF FlowsInv
<1>1. UNCHANGED <<inbound, app, sent, got, end, sock, listener, flow, doomed, read, cut>>
  BY DEF flowVars, Tick, appVars
<1>2. pc' = pc \/ (pc = "select" /\ pc' = "pump")
  BY DEF flowVars, Tick
<1>3. FlowsTyped'
  BY <1>0, <1>1, <1>2 DEF FlowsTyped, SlotsTyped
<1>4. Placed(sock', flow', listener') /\ doomed' \subseteq Flows(flow')
  BY <1>0, <1>1
<1>5. pc' = "poll" => \A h \in Slots : flow'[h] = NoFlow => sock'[h].st # "synrcvd"
  BY <1>0, <1>1, <1>2
<1>6. Accounts'
  <2>1. \A c \in Conns : Arrived(c)' = Arrived(c)
    BY <1>1 DEF Arrived, Under
  <2> QED BY <1>0, <1>1, <2>1 DEF Accounts
<1>7. Histories'
  <2>1. \A c \in Conns : (Unmet(c) => Unmet(c)') /\ (Greets(c)' => Greets(c))
    BY <1>1 DEF Unmet, Greets
  <2> QED BY <1>0, <1>1, <2>1 DEF Histories
<1> QED BY <1>3, <1>4, <1>5, <1>6, <1>7 DEF FlowsInv

(* The steps of an application.                                               *)
LEMMA AppPreserves ==
  ASSUME FlowsInv, NEW c \in Conns, Connects(c) \/ Sends(c) \/ Resets(c) \/ Takes(c)
  PROVE  FlowsInv'
<1>0. /\ sent \in [Conns -> Int] /\ got \in [Conns -> Int] /\ read \in [Conns -> Int] /\ cut \in [Conns -> Int]
  BY DEF FlowsInv, FlowsTyped
<1>1. \A kind \in {"syn", "seg", "rst"}, bytes \in 0..1, fin \in BOOLEAN :
        (kind # "seg" => bytes = 0) => /\ Packet(c, kind, bytes, fin) \in Arrivals
                                       /\ Packet(c, kind, bytes, fin).conn = c
                                       /\ Packet(c, kind, bytes, fin).kind = kind
                                       /\ Packet(c, kind, bytes, fin).bytes = bytes
  BY DEF Packet, Arrivals, Segments
<1>2. CASE Connects(c)
  <2> DEFINE p == Packet(c, "syn", 0, FALSE)
  <2>1. /\ app[c] = "idle" /\ app' = [app EXCEPT ![c] = "waiting"] /\ Arrives(p)
        /\ UNCHANGED <<sent, got, read, cut>>
    BY <1>2 DEF Connects, counts
  <2>2. p \in Arrivals /\ p.conn = c /\ p.kind = "syn" /\ p.bytes = 0
    BY DEF Packet, Arrivals, Segments
  <2> HIDE DEF p
  <2>3. sent'[c] = sent[c] + p.bytes
    BY <1>0, <2>1, <2>2
  <2> QED BY <1>0, <2>1, <2>2, <2>3, ArrivesKeeps
<1>3. CASE Sends(c)
  <2>1. PICK bytes \in 0..1, fin \in BOOLEAN :
          /\ app[c] \in {"waiting", "open"} /\ app' = [app EXCEPT ![c] = IF fin THEN "half" ELSE "open"]
          /\ sent' = [sent EXCEPT ![c] = @ + bytes]
          /\ Arrives(Packet(c, "seg", bytes, fin)) /\ UNCHANGED <<got, read, cut>>
    BY <1>3 DEF Sends
  <2> DEFINE p == Packet(c, "seg", bytes, fin)
             x == IF fin THEN "half" ELSE "open"
  <2>2. p \in Arrivals /\ p.conn = c /\ p.kind = "seg" /\ p.bytes = bytes
    BY <1>1
  <2>3. x \in {"half", "open"} /\ app' = [app EXCEPT ![c] = x] /\ Arrives(p)
    BY <2>1
  <2> HIDE DEF p, x
  <2>4. /\ sent' \in [Conns -> Int] /\ sent'[c] = sent[c] + p.bytes
        /\ \A d \in Conns : d # c => sent'[d] = sent[d]
    BY <1>0, <2>1, <2>2
  <2> QED BY <1>0, <2>1, <2>2, <2>3, <2>4, ArrivesKeeps
<1>4. CASE Resets(c)
  <2> DEFINE p == Packet(c, "rst", 0, FALSE)
  <2>1. /\ app[c] \in {"waiting", "open", "half"} /\ app' = [app EXCEPT ![c] = "gone"] /\ Arrives(p)
        /\ ForgetCounts({c}) /\ cut' = [cut EXCEPT ![c] = 0]
    BY <1>4 DEF Resets
  <2>2. p \in Arrivals /\ p.conn = c /\ p.kind = "rst" /\ p.bytes = 0
    BY DEF Packet, Arrivals, Segments
  <2> HIDE DEF p
  <2>3. /\ sent' \in [Conns -> Int] /\ got' \in [Conns -> Int] /\ read' \in [Conns -> Int] /\ cut' \in [Conns -> Int]
        /\ \A d \in Conns : d # c => got'[d] = got[d] /\ read'[d] = read[d] /\ cut'[d] = cut[d] /\ sent'[d] = sent[d]
        /\ got'[c] = 0 /\ cut'[c] = 0 /\ read'[c] = 0
    BY <1>0, <2>1 DEF ForgetCounts
  <2>4. got'[c] + cut'[c] = read'[c]
    BY <2>3
  <2> QED BY <2>1, <2>2, <2>3, <2>4, ArrivesKeeps
<1> QED BY <1>2, <1>3, <1>4, TakesKeeps

(* Every step of the stack.                                                   *)
LEMMA FlowsNextPreserves ==
  ASSUME FlowsInv, FlowsNext
  PROVE  FlowsInv'
BY AppPreserves, FlowsStutter, PumpPreserves, PollPreserves, TaskPreserves
   DEF FlowsNext, AppSteps, Loop

(* The start of run_stack.                                                    *)
LEMMA FlowsInitSound ==
  ASSUME FlowsInit
  PROVE  FlowsInv
<1>0. /\ pc = "select" /\ inbound = None
      /\ app = [c \in Conns |-> "idle"] /\ end = [c \in Conns |-> "none"]
      /\ sent = [c \in Conns |-> 0] /\ got = [c \in Conns |-> 0]
      /\ sock = [h \in Slots |-> IF h = 1 THEN AddListener ELSE Free] /\ listener = 1
      /\ flow = [h \in Slots |-> NoFlow] /\ doomed = {}
      /\ read = [c \in Conns |-> 0] /\ cut = [c \in Conns |-> 0]
  BY DEF FlowsInit
<1>1. 1 \in Slots /\ None \notin Conns /\ TxCap \in Nat
  <2>1. /\ Cardinality(Slots) \in Nat /\ Cardinality(Slots) > MaxFlows
        /\ MaxFlows \in Nat \ {0} /\ Slots = 1..Cardinality(Slots)
    BY FlowsAssumption, FS_CardinalityType
  <2> QED BY <2>1, NoFlowIsNone
<1>2. /\ AddListener \in Sockets /\ AddListener.st = "listen" /\ AddListener.conn = None
      /\ AddListener.rx = 0 /\ AddListener.tx = 0
      /\ Free \in Sockets /\ Free.st = "free" /\ Free.conn = None /\ Free.tx = 0
  BY DEF AddListener, Free, Sockets, SocketStates
<1>3. \A h \in Slots : /\ sock[h] \in Sockets /\ sock[h].conn = None /\ sock[h].tx = 0
                       /\ sock[h].st = "free" \/ (sock[h].st = "listen" /\ h = 1 /\ sock[h].rx = 0)
                       /\ flow[h] = NoFlow
  BY <1>0, <1>2
<1>4. FlowsTyped
  <2>1. SlotsTyped(sock, flow)
    BY <1>0, <1>3 DEF SlotsTyped
  <2> QED BY <1>0, <2>1 DEF FlowsTyped
<1>5. Placed(sock, flow, listener)
  <2>1. \A h \in Slots : Shape(sock[h], flow[h])
    BY <1>1, <1>3 DEF Shape
  <2>2. sock[listener].st # "free"
    BY <1>0, <1>1, <1>2
  <2> QED BY <1>0, <1>1, <1>3, <2>1, <2>2 DEF Placed
<1>6. Accounts
  BY <1>1, <1>3 DEF Accounts
<1>7. Histories
  BY <1>0, <1>1, <1>3 DEF Histories, Unmet, Greets
<1> QED BY <1>0, <1>4, <1>5, <1>6, <1>7 DEF FlowsInv

(* What the invariant says of connections and of their bytes.                 *)
LEMMA FlowsSound ==
  ASSUME FlowsInv
  PROVE  TargetKept /\ BytesKept
<1>1. TargetKept
  BY DEF TargetKept, Flows, FlowsInv, Placed, Shape
<1>2. UpKept
  <2> SUFFICES ASSUME NEW h \in Slots, flow[h] # NoFlow, NEW c \in Conns, sock[h].conn = c, app[c] # "gone",
                      flow[h].writer # "dead", sock[h].st # "closed"
               PROVE  sent[c] - Under(c) = sock[h].rx + flow[h].upch + flow[h].held + flow[h].wrote
    BY DEF UpKept, Flows, Under
  <2> QED BY DEF FlowsInv, Accounts, Counted, Arrived
<1>3. DownKept
  BY DEF DownKept, FlowsInv, Histories
<1> QED BY <1>1, <1>2, <1>3 DEF BytesKept

(* While the stack may still run for connections its slots are sound; when it *)
(* does not, it has no flows.                                                 *)
FlowsLive == traffic = "tcp" /\ (starts = 0 \/ phase \in {"apply", "undo", "apply6", "run"})
NoFlows   == Flows(flow) = {} /\ \A c \in Conns : end[c] # "fin"
StackInv ==
    /\ starts \in Nat /\ (starts = 0 => phase = "off")
    /\ FlowsLive => FlowsInv
    /\ traffic # "tcp" \/ phase # "run" => NoFlows

(* Every step of TUN mode preserves it.                                       *)
LEMMA StackInductive ==
  ASSUME StackInv, [Next]_vars
  PROVE  StackInv'
<1>0. /\ starts \in Nat /\ (starts = 0 => phase = "off") /\ (FlowsLive => FlowsInv)
      /\ traffic # "tcp" \/ phase # "run" => NoFlows
  BY DEF StackInv
<1>1. ASSUME UNCHANGED <<flowVars, traffic>>, FlowsLive' => FlowsLive, phase # phase' => phase # "run",
             starts' \in Nat, starts' = 0 => phase' = "off"
      PROVE  StackInv'
  <2>1. UNCHANGED <<flow, end>>
    BY <1>1 DEF flowVars, appVars
  <2>2. NoFlows => NoFlows'
    BY <2>1 DEF NoFlows, Flows
  <2>3. FlowsInv => FlowsInv'
    BY <1>1, FlowsStutter
  <2>4. traffic' # "tcp" \/ phase' # "run" => traffic # "tcp" \/ phase # "run"
    BY <1>1
  <2> QED BY <1>0, <1>1, <2>2, <2>3, <2>4 DEF StackInv
<1>2. CASE Begins
  <2>1. UNCHANGED <<flowVars, traffic>> /\ starts' = starts + 1 /\ (traffic # "none" => starts = 0) /\ phase = "off"
    BY <1>2 DEF Begins, Start, stackVars, fixed
  <2>2. FlowsLive' => FlowsLive
    BY <2>1 DEF FlowsLive
  <2> QED BY <1>0, <1>1, <2>1, <2>2
<1>3. CASE Routes
  <2>1. UNCHANGED <<flowVars, traffic, starts>> /\ phase # "off" /\ phase # "run"
    BY <1>3 DEF Routes, RoutesSteps, Ends, Apply, ApplyFails, Undo, RemoveNext, GiveUp, Apply6, Runs,
                Clean, stackVars, fixed
  <2>2. FlowsLive' => FlowsLive
    BY <1>3, <2>1 DEF Routes, RoutesSteps, Ends, Apply, ApplyFails, Undo, RemoveNext, GiveUp, Apply6,
                      Runs, Clean, Jump, FlowsLive
  <2>3. starts # 0
    BY <1>0, <2>1
  <2> QED BY <1>0, <1>1, <2>1, <2>2, <2>3
<1>4. CASE Tcp
  <2>1. FlowsNext /\ phase = "run" /\ traffic = "tcp" /\ UNCHANGED <<starts, phase, traffic>>
    BY <1>4 DEF Tcp, Stack, routeVars, fixed
  <2>2. FlowsInv'
    BY <1>0, <2>1, FlowsNextPreserves DEF FlowsLive
  <2> QED BY <1>0, <2>1, <2>2 DEF StackInv
<1>5. CASE Udp \/ Others \/ Rules \/ Leftover \/ UNCHANGED vars
  <2>1. UNCHANGED <<flowVars, traffic, starts, phase>>
    BY <1>5 DEF Udp, Others, Rules, Leftover, vars, stackVars, fixed, routeVars
  <2>2. FlowsLive' => FlowsLive
    BY <2>1 DEF FlowsLive
  <2> QED BY <1>0, <1>1, <2>1, <2>2
<1>6. CASE Stops \/ Crash
  <2>1. FlowsEnd /\ phase # "off" /\ phase' \in {"clean", "off"} /\ UNCHANGED <<starts, traffic>>
    BY <1>6 DEF Stops, Crash, Stop, Kill, Jump, fixed
  <2>2. NoFlows'
    BY <2>1 DEF FlowsEnd, NoFlows, Flows
  <2>3. ~FlowsLive'
    BY <1>0, <2>1 DEF FlowsLive
  <2> QED BY <1>0, <2>1, <2>2, <2>3 DEF StackInv
<1> QED BY <1>2, <1>3, <1>4, <1>5, <1>6 DEF Next

(* It holds before the first start.                                           *)
LEMMA StackInitially ==
  ASSUME Init
  PROVE  StackInv
<1>1. starts = 0 /\ phase = "off" /\ FlowsInit
  BY DEF Init, RoutesInit
<1>2. NoFlows
  BY <1>1 DEF FlowsInit, NoFlows, Flows
<1> QED BY <1>1, <1>2, FlowsInitSound DEF StackInv

(* It says what the theorems say.                                             *)
LEMMA StackSound ==
  ASSUME StackInv
  PROVE  TargetKept /\ BytesKept
<1>1. CASE NoFlows
  BY <1>1 DEF NoFlows, TargetKept, BytesKept, UpKept, DownKept
<1>2. CASE ~NoFlows
  <2>1. FlowsLive
    BY <1>2 DEF StackInv, FlowsLive
  <2> QED BY <2>1, FlowsSound DEF StackInv
<1> QED BY <1>1, <1>2

(* A channel to a node leads to the target its application asked for, unless  *)
(* the handshake was reset, however the tasks, the packets and the passes of  *)
(* step() alternate and whichever way the stack ends.                         *)
THEOREM ConnectionsKeepTarget == Spec => []TargetKept
<1>1. StackInv => TargetKept
  BY StackSound
<1> QED BY <1>1, StackInitially, StackInductive, PTL DEF Spec

(* No byte of a connection that goes on is lost: what was sent is in the      *)
(* socket, in the channel, with the writer or written, and an application     *)
(* that is told the end of the stream has all of the answer but what was cut. *)
THEOREM StreamsKeepBytes == Spec => []BytesKept
<1>1. StackInv => BytesKept
  BY StackSound
<1> QED BY <1>1, StackInitially, StackInductive, PTL DEF Spec

-----------------------------------------------------------------------------
(* The routing rules: the index that is merged from the rule file.           *)

(* F is what step makes of z, n times.                                        *)
Solves(F, T, n, z, step) ==
    F \in [0..n -> T] /\ F[0] = z /\ \A i \in 1..n : F[i] = step[i][F[i - 1]]
Steps(T, n) == [1..n -> [T -> T]]

(* A recursion over 0..n has a solution, whatever its step.                   *)
LEMMA Recursion ==
  ASSUME NEW T, NEW n \in Nat, NEW z \in T, NEW step \in Steps(T, n)
  PROVE  \E F : Solves(F, T, n, z, step)
<1> DEFINE Good(F, k) == F[0] = z /\ \A i \in 1..k : F[i] = step[i][F[i - 1]]
           R == {k \in Nat : k <= n => \E F \in [0..k -> T] : Good(F, k)}
<1>0. step \in [1..n -> [T -> T]]
  BY DEF Steps
<1>1. 0 \in R
  <2>1. [i \in 0..0 |-> z] \in [0..0 -> T] /\ Good([i \in 0..0 |-> z], 0)
    OBVIOUS
  <2> QED BY <2>1
<1>2. ASSUME NEW k \in R, k + 1 <= n PROVE \E G \in [0..(k+1) -> T] : Good(G, k + 1)
  <2>1. PICK F \in [0..k -> T] : Good(F, k)
    <3>1. k \in Nat /\ k <= n
      BY <1>2
    <3> HIDE DEF Good
    <3> QED BY <3>1
  <2> DEFINE x == step[k + 1][F[k]]
             G == [i \in 0..(k+1) |-> IF i = k + 1 THEN x ELSE F[i]]
  <2>2. F[k] \in T /\ k + 1 \in 1..n
    BY <1>2
  <2>3. x \in T
    BY <2>2, <1>0
  <2>4. G \in [0..(k+1) -> T]
    BY <2>3
  <2>5. Good(G, k + 1)
    <3>1. k \in Nat
      OBVIOUS
    <3>2. G[0] = z
      BY <3>1, <2>1
    <3>3. ASSUME NEW i \in 1..(k+1) PROVE G[i] = step[i][G[i - 1]]
      <4>1. CASE i = k + 1
        <5>1. G[i] = x /\ G[i - 1] = F[k]
          BY <3>1, <4>1
        <5> QED BY <5>1, <4>1
      <4>2. CASE i # k + 1
        <5>1. G[i] = F[i] /\ G[i - 1] = F[i - 1] /\ i \in 1..k
          BY <3>1, <4>2
        <5> QED BY <5>1, <2>1
      <4> QED BY <4>1, <4>2
    <3> HIDE DEF G
    <3> QED BY <3>2, <3>3
  <2> QED BY <2>4, <2>5
<1>3. R = Nat
  <2> HIDE DEF Good
  <2>1. \A k \in R : k + 1 \in R
    BY <1>2
  <2> HIDE DEF R
  <2> QED BY <2>1, <1>1, Induct DEF R
<1>4. PICK F \in [0..n -> T] : Good(F, n)
  BY <1>3
<1> QED BY <1>4 DEF Solves

(* What such a solution passes on from each step to the next holds at its end. *)
LEMMA Carries ==
  ASSUME NEW n \in Nat, NEW Q, 0 \in Q, \A i \in 1..n : i - 1 \in Q => i \in Q
  PROVE  \A i \in 0..n : i \in Q
<1> DEFINE R == {k \in Nat : k <= n => k \in Q}
<1>1. 0 \in R
  OBVIOUS
<1>2. ASSUME NEW k \in R PROVE k + 1 \in R
  <2>1. k + 1 <= n => k + 1 \in 1..n /\ k + 1 - 1 = k /\ k <= n
    OBVIOUS
  <2> QED BY <2>1
<1>3. R = Nat
  <2> HIDE DEF R
  <2> QED BY <1>1, <1>2, Induct DEF R
<1> QED BY <1>3

(* Block is what its equation says.                                           *)
LEMMA Blocks == \A k \in 0..Bits : Block[k] \in Nat \ {0}
<1> DEFINE Eq(F) == F = [i \in 0..Bits |-> IF i = 0 THEN 1 ELSE 2 * F[i - 1]]
           K == CHOOSE F : Eq(F)
           step == [i \in 1..Bits |-> [t \in Nat \ {0} |-> 2 * t]]
<1>0. Bits \in Nat
  BY RulesAssumption
<1>1. \E F : Eq(F)
  <2>1. step \in [1..Bits -> [Nat \ {0} -> Nat \ {0}]] /\ 1 \in Nat \ {0}
    OBVIOUS
  <2>2. PICK F \in [0..Bits -> Nat \ {0}] : F[0] = 1 /\ \A i \in 1..Bits : F[i] = step[i][F[i - 1]]
    <3> DEFINE P == Nat \ {0}
               one == 1
    <3>1. step \in Steps(P, Bits) /\ one \in P
      BY <2>1 DEF Steps
    <3> HIDE DEF step, P, one
    <3>2. \E F : Solves(F, P, Bits, one, step)
      BY <3>1, <1>0, Recursion
    <3> QED BY <3>2 DEF P, one, Solves
  <2>3. ASSUME NEW i \in 0..Bits PROVE F[i] = IF i = 0 THEN 1 ELSE 2 * F[i - 1]
    <3>1. CASE i = 0
      BY <3>1, <2>2
    <3>2. CASE i # 0
      <4>1. i \in 1..Bits /\ i - 1 \in 0..Bits
        BY <3>2, <1>0
      <4>2. F[i] = step[i][F[i - 1]] /\ F[i - 1] \in Nat \ {0}
        BY <4>1, <2>2
      <4> QED BY <4>2, <3>2
    <3> QED BY <3>1, <3>2
  <2>4. Eq(F)
    BY <2>3
  <2> QED BY <2>4
<1>2. Block = K
  BY DEF Block
<1>3. Eq(K)
  <2> HIDE DEF Eq
  <2> QED BY <1>1
<1>4. Block[0] = 1 /\ \A i \in 1..Bits : Block[i] = 2 * Block[i - 1]
  <2> HIDE DEF K
  <2> QED BY <1>2, <1>3, <1>0
<1> DEFINE Q == {k \in 0..Bits : Block[k] \in Nat \ {0}}
<1>5. 0 \in Q
  BY <1>4, <1>0
<1>6. ASSUME NEW i \in 1..Bits, i - 1 \in Q PROVE i \in Q
  BY <1>4, <1>6, <1>0
<1> HIDE DEF Q
<1>7. \A i \in 0..Bits : i \in Q
  BY <1>0, <1>5, <1>6, Carries
<1> QED BY <1>7 DEF Q

(* Ranges of addresses, and lists of them built one after the other.        *)
Ranges == {r \in [s : Nat, e : Nat, a : Actions] : r.s <= r.e}

(* Gathered satisfies its recursion: the solution is looked for with Insert   *)
(* and with AddSegment as functions.                                          *)
LEMMA GathersInserted ==
  ASSUME NEW p \in Seq(Ranges),
         \A q \in Seq(Ranges), r \in Ranges : Insert(q, r) \in Seq(Ranges)
  PROVE  \E F \in [0..Len(p) -> Seq(Ranges)] :
            /\ F[0] = <<>> /\ \A i \in 1..Len(p) : F[i] = Insert(F[i - 1], p[i])
            /\ Gathered(Insert, p) = F[Len(p)]
<1> DEFINE n == Len(p)
           T == Seq(Ranges)
           Eq(F) == F = [i \in 0..n |-> IF i = 0 THEN <<>> ELSE Insert(F[i - 1], p[i])]
           K == CHOOSE F : Eq(F)
           step == [i \in 1..n |-> [t \in T |-> Insert(t, p[i])]]
<1>0. n \in Nat /\ \A i \in 1..n : p[i] \in Ranges
  OBVIOUS
<1>1. \E F : Eq(F)
  <2>1. step \in Steps(T, n)
    <3>1. \A i \in 1..n, t \in T : Insert(t, p[i]) \in T
      BY <1>0
    <3> HIDE DEF T, n
    <3> QED BY <3>1 DEF Steps
  <2>2. PICK F \in [0..n -> T] : F[0] = <<>> /\ \A i \in 1..n : F[i] = step[i][F[i - 1]]
    <3> DEFINE none == <<>>
    <3>1. none \in T
      OBVIOUS
    <3> HIDE DEF step, T, n, none
    <3>2. \E F : Solves(F, T, n, none, step)
      BY <2>1, <3>1, <1>0, Recursion
    <3> QED BY <3>2 DEF none, Solves
  <2>3. ASSUME NEW i \in 0..n PROVE F[i] = IF i = 0 THEN <<>> ELSE Insert(F[i - 1], p[i])
    <3>1. CASE i = 0
      BY <3>1, <2>2
    <3>2. CASE i # 0
      <4>1. i \in 1..n /\ i - 1 \in 0..n
        BY <3>2, <1>0
      <4>2. F[i] = step[i][F[i - 1]] /\ F[i - 1] \in T
        <5> HIDE DEF step, T, n
        <5> QED BY <4>1, <2>2
      <4>3. step[i][F[i - 1]] = Insert(F[i - 1], p[i])
        <5> HIDE DEF T, n
        <5> QED BY <4>1, <4>2
      <4> QED BY <4>2, <4>3, <3>2
    <3> QED BY <3>1, <3>2
  <2>4. Eq(F)
    <3>1. F = [i \in 0..n |-> F[i]]
      OBVIOUS
    <3> QED BY <2>3, <3>1
  <2> QED BY <2>4
<1>2. Gathered(Insert, p) = K[n]
  BY DEF Gathered
<1>3. Eq(K)
  <2> HIDE DEF Eq
  <2> QED BY <1>1
<1> HIDE DEF K
<1>4. K[0] = <<>> /\ \A i \in 1..n : K[i] = Insert(K[i - 1], p[i])
  <2>1. 0 \in 0..n /\ \A i \in 1..n : i \in 0..n /\ i # 0
    BY <1>0
  <2> HIDE DEF n
  <2> QED BY <1>3, <2>1
<1> DEFINE Q == {k \in 0..n : K[k] \in T}
<1>5. 0 \in Q
  <2>1. <<>> \in T /\ 0 \in 0..n
    BY <1>0
  <2> HIDE DEF T, n
  <2> QED BY <1>4, <2>1
<1>6. ASSUME NEW i \in 1..n, i - 1 \in Q PROVE i \in Q
  <2>1. K[i] = Insert(K[i - 1], p[i]) /\ p[i] \in Ranges /\ K[i - 1] \in T /\ i \in 0..n
    BY <1>4, <1>6, <1>0
  <2> QED BY <2>1
<1>7. \A i \in 0..n : i \in Q
  <2> HIDE DEF Q, n
  <2> QED BY <1>0, <1>5, <1>6, Carries
<1>8. K \in [0..n -> T]
  <2>1. K = [i \in 0..n |-> K[i]]
    BY <1>3
  <2> QED BY <2>1, <1>7
<1> QED BY <1>8, <1>4, <1>2

(* The same of AddSegment.                                                    *)
LEMMA GathersMerged ==
  ASSUME NEW p \in Seq(Ranges),
         \A q \in Seq(Ranges), r \in Ranges : AddSegment(q, r) \in Seq(Ranges)
  PROVE  \E F \in [0..Len(p) -> Seq(Ranges)] :
            /\ F[0] = <<>> /\ \A i \in 1..Len(p) : F[i] = AddSegment(F[i - 1], p[i])
            /\ Gathered(AddSegment, p) = F[Len(p)]
<1> DEFINE n == Len(p)
           T == Seq(Ranges)
           Eq(F) == F = [i \in 0..n |-> IF i = 0 THEN <<>> ELSE AddSegment(F[i - 1], p[i])]
           K == CHOOSE F : Eq(F)
           step == [i \in 1..n |-> [t \in T |-> AddSegment(t, p[i])]]
<1>0. n \in Nat /\ \A i \in 1..n : p[i] \in Ranges
  OBVIOUS
<1>1. \E F : Eq(F)
  <2>1. step \in Steps(T, n)
    <3>1. \A i \in 1..n, t \in T : AddSegment(t, p[i]) \in T
      BY <1>0
    <3> HIDE DEF T, n
    <3> QED BY <3>1 DEF Steps
  <2>2. PICK F \in [0..n -> T] : F[0] = <<>> /\ \A i \in 1..n : F[i] = step[i][F[i - 1]]
    <3> DEFINE none == <<>>
    <3>1. none \in T
      OBVIOUS
    <3> HIDE DEF step, T, n, none
    <3>2. \E F : Solves(F, T, n, none, step)
      BY <2>1, <3>1, <1>0, Recursion
    <3> QED BY <3>2 DEF none, Solves
  <2>3. ASSUME NEW i \in 0..n PROVE F[i] = IF i = 0 THEN <<>> ELSE AddSegment(F[i - 1], p[i])
    <3>1. CASE i = 0
      BY <3>1, <2>2
    <3>2. CASE i # 0
      <4>1. i \in 1..n /\ i - 1 \in 0..n
        BY <3>2, <1>0
      <4>2. F[i] = step[i][F[i - 1]] /\ F[i - 1] \in T
        <5> HIDE DEF step, T, n
        <5> QED BY <4>1, <2>2
      <4>3. step[i][F[i - 1]] = AddSegment(F[i - 1], p[i])
        <5> HIDE DEF T, n
        <5> QED BY <4>1, <4>2
      <4> QED BY <4>2, <4>3, <3>2
    <3> QED BY <3>1, <3>2
  <2>4. Eq(F)
    <3>1. F = [i \in 0..n |-> F[i]]
      OBVIOUS
    <3> QED BY <2>3, <3>1
  <2> QED BY <2>4
<1>2. Gathered(AddSegment, p) = K[n]
  BY DEF Gathered
<1>3. Eq(K)
  <2> HIDE DEF Eq
  <2> QED BY <1>1
<1> HIDE DEF K
<1>4. K[0] = <<>> /\ \A i \in 1..n : K[i] = AddSegment(K[i - 1], p[i])
  <2>1. 0 \in 0..n /\ \A i \in 1..n : i \in 0..n /\ i # 0
    BY <1>0
  <2> HIDE DEF n
  <2> QED BY <1>3, <2>1
<1> DEFINE Q == {k \in 0..n : K[k] \in T}
<1>5. 0 \in Q
  <2>1. <<>> \in T /\ 0 \in 0..n
    BY <1>0
  <2> HIDE DEF T, n
  <2> QED BY <1>4, <2>1
<1>6. ASSUME NEW i \in 1..n, i - 1 \in Q PROVE i \in Q
  <2>1. K[i] = AddSegment(K[i - 1], p[i]) /\ p[i] \in Ranges /\ K[i - 1] \in T /\ i \in 0..n
    BY <1>4, <1>6, <1>0
  <2> QED BY <2>1
<1>7. \A i \in 0..n : i \in Q
  <2> HIDE DEF Q, n
  <2> QED BY <1>0, <1>5, <1>6, Carries
<1>8. K \in [0..n -> T]
  <2>1. K = [i \in 0..n |-> K[i]]
    BY <1>3
  <2> QED BY <2>1, <1>7
<1> QED BY <1>8, <1>4, <1>2

(* The places of a list that a bound selects are its first ones, as many as   *)
(* are counted.                                                               *)
LEMMA FirstPlaces ==
  ASSUME NEW n \in Nat, NEW I \in SUBSET (1..n), \A i \in I, j \in 1..n : j <= i => j \in I
  PROVE  Cardinality(I) \in 0..n /\ I = 1..Cardinality(I)
<1> DEFINE Out == {m \in Nat : m >= 1 /\ m \notin I}
<1>1. n + 1 \in Out /\ Out \subseteq Nat
  OBVIOUS
<1>2. PICK m \in Out : \A k \in Out : m <= k
  <2> HIDE DEF Out
  <2> QED BY <1>1, LeastNat
<1>3. m \in Nat \ {0} /\ m <= n + 1
  BY <1>1, <1>2
<1>4. I = 1..(m - 1)
  <2>1. ASSUME NEW i \in I PROVE i \in 1..(m - 1)
    <3>1. i \in 1..n /\ m \notin I
      OBVIOUS
    <3>2. m <= i => m \in 1..n
      BY <3>1, <1>3
    <3> QED BY <3>1, <3>2, <1>3
  <2>2. ASSUME NEW i \in 1..(m - 1) PROVE i \in I
    <3>1. i \in Nat /\ i >= 1 /\ i < m
      BY <1>3
    <3> QED BY <3>1, <1>2
  <2> HIDE DEF Out
  <2> QED BY <2>1, <2>2
<1>5. m - 1 \in Nat /\ m - 1 \in Int /\ 1 \in Int
  BY <1>3
<1>6. Cardinality(1..(m - 1)) = m - 1
  <2>1. Cardinality(1..(m - 1)) = IF 1 <= m - 1 THEN m - 1 - 1 + 1 ELSE 0
    BY <1>5, FS_Interval
  <2> QED BY <2>1, <1>3
<1> QED BY <1>3, <1>4, <1>6

(* A list in the order of merge_cidr4's sort, and what inserting one more     *)
(* makes of it.                                                               *)
InOrder(q) == \A i, j \in 1..Len(q) : i < j => NotAfter(q[i], q[j])

LEMMA Inserted ==
  ASSUME NEW q \in Seq(Ranges), NEW r \in Ranges, InOrder(q)
  PROVE  \E k \in 0..Len(q) :
            /\ Insert(q, r) \in Seq(Ranges) /\ Len(Insert(q, r)) = Len(q) + 1
            /\ \A i \in 1..k : Insert(q, r)[i] = q[i] /\ NotAfter(q[i], r)
            /\ Insert(q, r)[k + 1] = r
            /\ \A i \in (k + 2)..(Len(q) + 1) : Insert(q, r)[i] = q[i - 1]
            /\ \A i \in (k + 1)..Len(q) : ~ NotAfter(q[i], r)
<1> DEFINE n == Len(q)
           I == {i \in DOMAIN q : NotAfter(q[i], r)}
           k == Cardinality(I)
<1>0. n \in Nat /\ DOMAIN q = 1..n /\ \A i \in 1..n : q[i] \in Ranges
  OBVIOUS
<1>1. k \in 0..n /\ I = 1..k
  <2>1. I \in SUBSET (1..n)
    BY <1>0
  <2>2. ASSUME NEW i \in I, NEW j \in 1..n, j <= i PROVE j \in I
    <3>1. j = i \/ NotAfter(q[j], q[i])
      BY <1>0, <2>2 DEF InOrder
    <3>2. q[i] \in Ranges /\ q[j] \in Ranges /\ NotAfter(q[i], r)
      BY <1>0
    <3> QED BY <3>1, <3>2, <1>0 DEF NotAfter, Ranges
  <2> HIDE DEF I, n
  <2> QED BY <1>0, <2>1, <2>2, FirstPlaces
<1>2. Insert(q, r) = SubSeq(q, 1, k) \o <<r>> \o SubSeq(q, k + 1, Len(q))
  <2> DEFINE p == 1 + k
  <2>1. Insert(q, r) = InsertAt(q, p, r)
    BY DEF Insert
  <2>2. p - 1 = k /\ p = k + 1
    BY <1>1
  <2> HIDE DEF k, p
  <2>3. Insert(q, r) = SubSeq(q, 1, p - 1) \o <<r>> \o SubSeq(q, p, Len(q))
    BY <2>1 DEF InsertAt
  <2> QED BY <2>2, <2>3
<1>3. /\ SubSeq(q, 1, k) \in Seq(Ranges) /\ Len(SubSeq(q, 1, k)) = k
      /\ \A i \in 1..k : SubSeq(q, 1, k)[i] = q[i]
      /\ SubSeq(q, k + 1, n) \in Seq(Ranges) /\ Len(SubSeq(q, k + 1, n)) = n - k
      /\ \A i \in 1..(n - k) : SubSeq(q, k + 1, n)[i] = q[i + k]
  <2> HIDE DEF k, n
  <2>0. q \in Seq(Ranges) /\ Len(q) = n /\ n \in Nat /\ k \in 0..n
    BY <1>0, <1>1 DEF n
  <2>1. SubSeq(q, 1, k) \in Seq(Ranges) /\ Len(SubSeq(q, 1, k)) = k
    BY <2>0
  <2>2. \A i \in 1..k : SubSeq(q, 1, k)[i] = q[i]
    BY <2>0
  <2>3. SubSeq(q, k + 1, n) \in Seq(Ranges) /\ Len(SubSeq(q, k + 1, n)) = n - k
    BY <2>0
  <2>4. \A i \in 1..(n - k) : SubSeq(q, k + 1, n)[i] = q[i + k]
    BY <2>0
  <2> QED BY <2>1, <2>2, <2>3, <2>4
<1> DEFINE a == SubSeq(q, 1, k)
           b == SubSeq(q, k + 1, n)
<1>4. /\ a \o <<r>> \o b \in Seq(Ranges) /\ Len(a \o <<r>> \o b) = n + 1
      /\ \A i \in 1..k : (a \o <<r>> \o b)[i] = a[i]
      /\ (a \o <<r>> \o b)[k + 1] = r
      /\ \A i \in (k + 2)..(n + 1) : (a \o <<r>> \o b)[i] = b[i - k - 1]
  <2>1. a \in Seq(Ranges) /\ Len(a) = k /\ b \in Seq(Ranges) /\ Len(b) = n - k /\ k \in 0..n
    BY <1>3, <1>1
  <2> HIDE DEF a, b, k, n
  <2> DEFINE c == a \o <<r>>
  <2>2. /\ c \in Seq(Ranges) /\ Len(c) = k + 1 /\ c[k + 1] = r
        /\ \A i \in 1..k : c[i] = a[i]
    BY <2>1
  <2> HIDE DEF c
  <2>3. /\ c \o b \in Seq(Ranges) /\ Len(c \o b) = n + 1
        /\ \A i \in 1..(k + 1) : (c \o b)[i] = c[i]
        /\ \A i \in (k + 2)..(n + 1) : (c \o b)[i] = b[i - (k + 1)]
    <3>1. c \o b \in Seq(Ranges) /\ Len(c \o b) = Len(c) + Len(b)
          /\ \A i \in 1..(Len(c) + Len(b)) : (c \o b)[i] = IF i <= Len(c) THEN c[i] ELSE b[i - Len(c)]
      BY <2>1, <2>2, ConcatProperties
    <3>2. Len(c) + Len(b) = n + 1
      BY <2>1, <2>2, <1>0
    <3>3. \A i \in 1..(k + 1) : i \in 1..(n + 1) /\ i <= k + 1
      BY <2>1, <1>0
    <3>4. \A i \in (k + 2)..(n + 1) : i \in 1..(n + 1) /\ ~ (i <= k + 1)
      BY <2>1, <1>0
    <3> QED BY <3>1, <3>2, <3>3, <3>4, <2>2
  <2>4. \A i \in 1..k : (c \o b)[i] = a[i]
    <3>1. \A i \in 1..k : i \in 1..(k + 1)
      BY <2>1
    <3> QED BY <2>2, <2>3, <3>1
  <2>5. (c \o b)[k + 1] = r
    <3>1. k + 1 \in 1..(k + 1)
      BY <2>1
    <3> QED BY <2>2, <2>3, <3>1
  <2>6. \A i \in (k + 2)..(n + 1) : i - (k + 1) = i - k - 1
    BY <2>1
  <2>7. \A i \in (k + 2)..(n + 1) : (c \o b)[i] = b[i - k - 1]
    BY <2>3, <2>6
  <2> QED BY <2>3, <2>4, <2>5, <2>7 DEF c
<1>5. \A i \in (k + 2)..(n + 1) : b[i - k - 1] = q[i - 1]
  <2> SUFFICES ASSUME NEW i \in (k + 2)..(n + 1) PROVE b[i - k - 1] = q[i - 1]
    OBVIOUS
  <2>1. i - k - 1 \in 1..(n - k) /\ i - k - 1 + k = i - 1
    <3> HIDE DEF k
    <3> QED BY <1>0, <1>1
  <2> HIDE DEF k, n
  <2> QED BY <2>1, <1>3
<1>6. \A i \in 1..n : i <= k <=> NotAfter(q[i], r)
  <2> HIDE DEF k
  <2> QED BY <1>0, <1>1
<1> HIDE DEF k
<1>7. \A i \in 1..k : i \in 1..n /\ i <= k
  BY <1>0, <1>1
<1>8. \A i \in (k + 1)..n : i \in 1..n /\ ~ (i <= k)
  BY <1>0, <1>1
<1> HIDE DEF a, b, n
<1>9. Insert(q, r) = a \o <<r>> \o b
  BY <1>2 DEF a, b, n
<1>10. \A i \in 1..k : a[i] = q[i]
  BY <1>3 DEF a
<1> QED BY <1>1, <1>4, <1>5, <1>6, <1>7, <1>8, <1>9, <1>10 DEF n

(* Inserted keeps the type, the order and what is in the list.                *)
LEMMA InsertTyped ==
  ASSUME NEW q \in Seq(Ranges), NEW r \in Ranges PROVE Insert(q, r) \in Seq(Ranges)
<1> DEFINE n == Len(q)
           I == {i \in DOMAIN q : NotAfter(q[i], r)}
           k == Cardinality(I)
           p == 1 + k
<1>1. n \in Nat /\ DOMAIN q = 1..n
  OBVIOUS
<1>2. k \in Nat /\ k <= n
  <2>1. IsFiniteSet(1..n) /\ Cardinality(1..n) = n
    <3>1. 1 \in Int /\ n \in Int
      BY <1>1
    <3>2. Cardinality(1..n) = IF 1 <= n THEN n - 1 + 1 ELSE 0
      BY <3>1, FS_Interval
    <3>3. IsFiniteSet(1..n)
      BY <3>1, FS_Interval
    <3> QED BY <3>2, <3>3, <1>1
  <2>2. I \subseteq 1..n
    BY <1>1
  <2> HIDE DEF I, n
  <2>3. IsFiniteSet(I) /\ Cardinality(I) <= Cardinality(1..n)
    BY <2>1, <2>2, FS_Subset
  <2> QED BY <2>1, <2>3, FS_CardinalityType
<1>3. Insert(q, r) = InsertAt(q, p, r)
  BY DEF Insert
<1>4. p \in 1..(n + 1)
  <2> HIDE DEF k
  <2> QED BY <1>1, <1>2
<1> HIDE DEF p
<1>5. SubSeq(q, 1, p - 1) \in Seq(Ranges) /\ SubSeq(q, p, n) \in Seq(Ranges) /\ <<r>> \in Seq(Ranges)
  BY <1>1, <1>4
<1> QED BY <1>3, <1>5 DEF InsertAt

LEMMA InsertKeeps ==
  ASSUME NEW q \in Seq(Ranges), NEW r \in Ranges, InOrder(q)
  PROVE  /\ InOrder(Insert(q, r))
         /\ \A x : (\E i \in 1..Len(Insert(q, r)) : Insert(q, r)[i] = x)
                    <=> (x = r \/ \E i \in 1..Len(q) : q[i] = x)
<1> DEFINE n == Len(q)
           g == Insert(q, r)
<1>0. n \in Nat /\ \A i \in 1..n : q[i] \in Ranges
  OBVIOUS
<1>1. PICK k \in 0..n :
            /\ g \in Seq(Ranges) /\ Len(g) = n + 1
            /\ \A i \in 1..k : g[i] = q[i] /\ NotAfter(q[i], r)
            /\ g[k + 1] = r
            /\ \A i \in (k + 2)..(n + 1) : g[i] = q[i - 1]
            /\ \A i \in (k + 1)..n : ~ NotAfter(q[i], r)
  BY Inserted
<1> HIDE DEF g
<1>2. ASSUME NEW i \in 1..(n + 1) PROVE \/ i \in 1..k /\ i \in 1..n
                                        \/ i = k + 1
                                        \/ i \in (k + 2)..(n + 1) /\ i - 1 \in (k + 1)..n /\ i - 1 \in 1..n
  BY <1>0, <1>1
<1>3. ASSUME NEW i \in 1..n PROVE \/ i \in 1..k /\ i \in 1..(n + 1)
                                  \/ i + 1 \in (k + 2)..(n + 1) /\ i + 1 \in 1..(n + 1) /\ i + 1 - 1 = i
  BY <1>0, <1>1
<1>4. k + 1 \in 1..(n + 1)
  BY <1>0, <1>1
<1>5. ASSUME NEW x PROVE (\E i \in 1..(n + 1) : g[i] = x) <=> (x = r \/ \E i \in 1..n : q[i] = x)
  <2>1. ASSUME NEW i \in 1..(n + 1), g[i] = x PROVE x = r \/ \E j \in 1..n : q[j] = x
    BY <1>1, <1>2, <2>1
  <2>2. ASSUME NEW i \in 1..n, q[i] = x PROVE \E j \in 1..(n + 1) : g[j] = x
    <3>1. CASE i \in 1..k /\ i \in 1..(n + 1)
      BY <3>1, <1>1, <2>2
    <3>2. CASE i + 1 \in (k + 2)..(n + 1) /\ i + 1 \in 1..(n + 1) /\ i + 1 - 1 = i
      <4>1. g[i + 1] = q[i + 1 - 1]
        BY <3>2, <1>1
      <4> QED BY <4>1, <3>2, <2>2
    <3> QED BY <3>1, <3>2, <1>3
  <2>3. x = r => \E j \in 1..(n + 1) : g[j] = x
    BY <1>1, <1>4
  <2> QED BY <2>1, <2>2, <2>3
<1>6. ASSUME NEW i \in 1..(n + 1), NEW j \in 1..(n + 1), i < j PROVE NotAfter(g[i], g[j])
  <2>0. \A a, b \in 1..n : a < b => NotAfter(q[a], q[b])
    BY DEF InOrder
  <2>1. CASE i \in 1..k /\ i \in 1..n
    <3>1. CASE j \in 1..k /\ j \in 1..n
      BY <2>1, <3>1, <2>0, <1>1, <1>6
    <3>2. CASE j = k + 1
      BY <2>1, <3>2, <1>1
    <3>3. CASE j \in (k + 2)..(n + 1) /\ j - 1 \in 1..n
      <4>1. i < j - 1
        BY <2>1, <3>3, <1>1
      <4> QED BY <4>1, <2>1, <3>3, <2>0, <1>1
    <3> QED BY <3>1, <3>2, <3>3, <1>2
  <2>2. CASE i = k + 1
    <3>1. j \in (k + 2)..(n + 1) /\ j - 1 \in (k + 1)..n /\ j - 1 \in 1..n
      BY <2>2, <1>6, <1>0, <1>1
    <3>2. g[i] = r /\ g[j] = q[j - 1] /\ ~ NotAfter(q[j - 1], r)
      BY <2>2, <3>1, <1>1
    <3>3. q[j - 1] \in Ranges
      BY <3>1, <1>0
    <3> QED BY <3>2, <3>3 DEF NotAfter, Ranges
  <2>3. CASE i \in (k + 2)..(n + 1) /\ i - 1 \in 1..n
    <3>1. j \in (k + 2)..(n + 1) /\ j - 1 \in 1..n /\ i - 1 < j - 1
      BY <2>3, <1>6, <1>0, <1>1
    <3> QED BY <3>1, <2>3, <2>0, <1>1
  <2> QED BY <2>1, <2>2, <2>3, <1>2
<1>7. InOrder(g)
  BY <1>6, <1>1 DEF InOrder
<1> QED BY <1>5, <1>7, <1>1 DEF g

(* Sorted has the rules of the file, in the order of their starts.            *)
LEMMA SortedFacts ==
  ASSUME NEW p \in Seq(Ranges)
  PROVE  /\ Sorted(p) \in Seq(Ranges) /\ InOrder(Sorted(p))
         /\ \A x : (\E i \in 1..Len(Sorted(p)) : Sorted(p)[i] = x) <=> \E i \in 1..Len(p) : p[i] = x
<1> DEFINE n == Len(p)
<1>0. n \in Nat /\ \A i \in 1..n : p[i] \in Ranges
  OBVIOUS
<1>1. PICK F \in [0..n -> Seq(Ranges)] :
            /\ F[0] = <<>> /\ \A i \in 1..n : F[i] = Insert(F[i - 1], p[i])
            /\ Gathered(Insert, p) = F[n]
  BY InsertTyped, GathersInserted
<1> DEFINE Same(k) == \A x : (\E i \in 1..Len(F[k]) : F[k][i] = x) <=> \E i \in 1..k : p[i] = x
           Q == {k \in 0..n : InOrder(F[k]) /\ Same(k)}
<1>2. 0 \in Q
  <2>1. F[0] = <<>> /\ Len(F[0]) = 0 /\ 0 \in 0..n
    BY <1>0, <1>1
  <2>2. InOrder(F[0]) /\ Same(0)
    BY <2>1 DEF InOrder
  <2> HIDE DEF Same
  <2> QED BY <2>1, <2>2
<1>3. ASSUME NEW k \in 1..n, k - 1 \in Q PROVE k \in Q
  <2> DEFINE q == F[k - 1]
             r == p[k]
  <2>1. q \in Seq(Ranges) /\ r \in Ranges /\ InOrder(q) /\ Same(k - 1) /\ F[k] = Insert(q, r)
    BY <1>0, <1>1, <1>3
  <2>2. InOrder(F[k]) /\ \A x : (\E i \in 1..Len(F[k]) : F[k][i] = x)
                                <=> (x = r \/ \E i \in 1..Len(q) : q[i] = x)
    <3> HIDE DEF q, r
    <3>1. q \in Seq(Ranges) /\ r \in Ranges /\ InOrder(q)
      BY <2>1
    <3>2. /\ InOrder(Insert(q, r))
          /\ \A x : (\E i \in 1..Len(Insert(q, r)) : Insert(q, r)[i] = x)
                     <=> (x = r \/ \E i \in 1..Len(q) : q[i] = x)
      BY <3>1, InsertKeeps
    <3> QED BY <3>2, <2>1
  <2>3. \A x : (\E i \in 1..k : p[i] = x) <=> (x = r \/ \E i \in 1..(k - 1) : p[i] = x)
    BY <1>0
  <2>4. Same(k)
    BY <2>1, <2>2, <2>3
  <2>5. k \in 0..n
    BY <1>0
  <2> HIDE DEF Same
  <2> QED BY <2>2, <2>4, <2>5
<1>4. \A k \in 0..n : k \in Q
  <2> HIDE DEF Q, n
  <2> QED BY <1>0, <1>2, <1>3, Carries
<1>5. n \in Q /\ n \in 0..n
  <2> HIDE DEF Q
  <2> QED BY <1>0, <1>4
<1> QED BY <1>5, <1>1 DEF Sorted

(* The index after the first k rules of the sorted list: its segments are     *)
(* apart; each address of one is in a rule of the same action; each address   *)
(* of a rule is in a segment; and from the start of the latest rule to the    *)
(* end of the last segment there is no gap, which is what makes it right to   *)
(* cut a rule off at that end, or to leave it out.                            *)
Within(x, r) == r.s <= x /\ x <= r.e
Hit(segs, x)  == \E i \in 1..Len(segs) : Within(x, segs[i])
Apart(segs)   == \A i, j \in 1..Len(segs) : i < j => segs[i].e < segs[j].s
MergedTo(segs, q, k) ==
    /\ segs \in Seq(Ranges) /\ Apart(segs)
    /\ k > 0 => Len(segs) > 0
    /\ \A j \in 1..k : q[j].e <= Last(segs).e
    /\ \A i \in 1..Len(segs), x \in Nat :
          Within(x, segs[i]) => \E j \in 1..k : Within(x, q[j]) /\ q[j].a = segs[i].a
    /\ \A j \in 1..k, x \in Nat : Within(x, q[j]) => Hit(segs, x)
    /\ k > 0 => \A x \in Nat : q[k].s <= x /\ x <= Last(segs).e => Hit(segs, x)

(* A rule, or what is left of it after the last segment, is a segment more.   *)
LEMMA SegmentAdded ==
  ASSUME NEW q \in Seq(Ranges), InOrder(q), NEW k \in 1..Len(q), NEW segs, MergedTo(segs, q, k - 1),
         NEW t \in Ranges, t.a = q[k].a, t.e = q[k].e, q[k].s <= t.s,
         Len(segs) > 0 => Last(segs).e < t.s,
         t.s = q[k].s \/ (Len(segs) > 0 /\ t.s = Last(segs).e + 1)
  PROVE  MergedTo(Append(segs, t), q, k)
<1> DEFINE r == q[k]
           n == Len(segs)
           new == Append(segs, t)
<1>0. /\ k \in Nat /\ k > 0 /\ r \in Ranges /\ \A j \in 1..Len(q) : q[j] \in Ranges
      /\ 1..k \subseteq 1..Len(q) /\ k - 1 \in Nat
  OBVIOUS
<1>1. /\ segs \in Seq(Ranges) /\ n \in Nat /\ \A i \in 1..n : segs[i] \in Ranges
      /\ Apart(segs) /\ (k - 1 > 0 => n > 0)
      /\ \A j \in 1..(k - 1) : q[j].e <= Last(segs).e
      /\ \A i \in 1..n, x \in Nat :
          Within(x, segs[i]) => \E j \in 1..(k - 1) : Within(x, q[j]) /\ q[j].a = segs[i].a
      /\ \A j \in 1..(k - 1), x \in Nat : Within(x, q[j]) => Hit(segs, x)
      /\ (k - 1 > 0 => \A x \in Nat : q[k - 1].s <= x /\ x <= Last(segs).e => Hit(segs, x))
  BY DEF MergedTo
<1>2. /\ new \in Seq(Ranges) /\ Len(new) = n + 1 /\ new[n + 1] = t
      /\ \A i \in 1..n : new[i] = segs[i]
  BY <1>1
<1> HIDE DEF new
<1>3. \A i \in 1..(n + 1) : i \in 1..n \/ i = n + 1
  BY <1>1
<1>4. n + 1 \in 1..(n + 1) /\ 1..n \subseteq 1..(n + 1) /\ (n > 0 => n \in 1..n)
  BY <1>1
<1>5. Last(new) = t /\ Last(segs) = segs[n]
  BY <1>2 DEF Last
<1>6. Apart(new)
  <2> SUFFICES ASSUME NEW i \in 1..(n + 1), NEW j \in 1..(n + 1), i < j PROVE new[i].e < new[j].s
    BY <1>2 DEF Apart
  <2>1. i \in 1..n
    BY <1>1
  <2>2. CASE j \in 1..n
    BY <2>1, <2>2, <1>1, <1>2 DEF Apart
  <2>3. CASE j = n + 1
    <3>1. n > 0 /\ segs[i].e <= segs[n].e
      <4>1. i = n \/ i < n
        BY <2>1, <1>1
      <4>2. i < n => segs[i].e < segs[n].s
        BY <2>1, <1>1, <1>4 DEF Apart
      <4>3. CASE i = n
        <5>1. segs[n] \in Ranges
          BY <4>3, <2>1, <1>1
        <5> QED BY <5>1, <4>3, <2>1, <1>1 DEF Ranges
      <4>4. CASE i < n
        <5>1. n > 0 /\ segs[n] \in Ranges /\ segs[i] \in Ranges
          BY <4>4, <2>1, <1>1
        <5>2. segs[i].e \in Nat /\ segs[n].e \in Nat /\ segs[n].s \in Nat /\ segs[n].s <= segs[n].e
          BY <5>1 DEF Ranges
        <5> QED BY <5>1, <5>2, <4>2, <4>4
      <4> QED BY <4>1, <4>3, <4>4
    <3>2. segs[i].e \in Nat /\ segs[n].e \in Nat /\ t.s \in Nat /\ segs[n].e < t.s
      <4>1. segs[i] \in Ranges /\ segs[n] \in Ranges
        BY <3>1, <2>1, <1>1, <1>4
      <4> QED BY <4>1, <3>1, <1>5 DEF Ranges
    <3>3. segs[i].e < t.s
      BY <3>1, <3>2
    <3> QED BY <3>3, <2>1, <2>3, <1>2
  <2> QED BY <2>2, <2>3, <1>3
<1>7. \A x \in Nat : Hit(new, x) <=> Hit(segs, x) \/ Within(x, t)
  BY <1>2, <1>3, <1>4 DEF Hit
<1>8. \A j \in 1..k : j \in 1..(k - 1) \/ j = k
  BY <1>0
<1>9. \A j \in 1..k : q[j].e <= Last(new).e
  <2>1. ASSUME NEW j \in 1..(k - 1) PROVE q[j].e <= t.e
    <3>1. k - 1 > 0 /\ j \in 1..Len(q)
      BY <1>0
    <3>2. n > 0 /\ q[j].e <= segs[n].e /\ segs[n].e < t.s
      BY <3>1, <1>1, <1>5
    <3>3. segs[n] \in Ranges /\ q[j] \in Ranges
      BY <3>1, <3>2, <1>0, <1>1, <1>4
    <3>4. segs[n].e \in Nat /\ q[j].e \in Nat /\ t.s \in Nat /\ t.e \in Nat /\ t.s <= t.e
      BY <3>3 DEF Ranges
    <3> QED BY <3>2, <3>4
  <2>2. q[k].e <= t.e
    BY <1>0 DEF Ranges
  <2> QED BY <2>1, <2>2, <1>5, <1>8
<1>10. ASSUME NEW i \in 1..(n + 1), NEW x \in Nat, Within(x, new[i])
       PROVE  \E j \in 1..k : Within(x, q[j]) /\ q[j].a = new[i].a
  <2>1. CASE i \in 1..n
    <3>1. \E j \in 1..(k - 1) : Within(x, q[j]) /\ q[j].a = segs[i].a
      BY <2>1, <1>10, <1>1, <1>2
    <3> QED BY <3>1, <2>1, <1>0, <1>2
  <2>2. CASE i = n + 1
    <3>1. Within(x, r)
      BY <2>2, <1>10, <1>2, <1>0 DEF Within, Ranges
    <3> QED BY <3>1, <2>2, <1>2, <1>0
  <2> QED BY <2>1, <2>2, <1>3
<1>11. ASSUME NEW x \in Nat, r.s <= x, x <= t.e PROVE Hit(new, x)
  <2>1. CASE t.s <= x
    BY <2>1, <1>11, <1>7 DEF Within
  <2>2. CASE ~ (t.s <= x)
    <3>1. n > 0 /\ t.s = segs[n].e + 1 /\ segs[n] \in Ranges
      BY <2>2, <1>11, <1>4, <1>5, <1>1, <1>0 DEF Ranges
    <3>2. x <= Last(segs).e
      BY <3>1, <2>2, <1>5 DEF Ranges
    <3>3. CASE k - 1 > 0
      <4>1. k - 1 \in 1..Len(q) /\ k - 1 < k /\ k \in 1..Len(q)
        BY <3>3, <1>0
      <4>2. q[k - 1].s <= r.s
        <5>1. NotAfter(q[k - 1], r)
          BY <4>1 DEF InOrder
        <5>2. q[k - 1].s \in Nat /\ r.s \in Nat
          BY <4>1, <1>0 DEF Ranges
        <5> QED BY <5>1, <5>2 DEF NotAfter
      <4>3. q[k - 1].s <= x
        BY <4>1, <4>2, <1>0, <1>11 DEF Ranges
      <4> QED BY <3>2, <3>3, <4>3, <1>1, <1>7
    <3>4. CASE k = 1
      <4>1. Within(segs[n].e, segs[n]) /\ segs[n].e \in Nat /\ n \in 1..n
        BY <3>1, <1>4 DEF Ranges, Within
      <4>2. \E j \in 1..(k - 1) : TRUE
        BY <4>1, <1>1
      <4> QED BY <4>2, <3>4
    <3> QED BY <3>3, <3>4, <1>0
  <2> QED BY <2>1, <2>2
<1>12. ASSUME NEW j \in 1..k, NEW x \in Nat, Within(x, q[j]) PROVE Hit(new, x)
  <2>1. CASE j \in 1..(k - 1)
    BY <2>1, <1>12, <1>1, <1>7
  <2>2. CASE j = k
    BY <2>2, <1>12, <1>11 DEF Within
  <2> QED BY <2>1, <2>2, <1>8
<1>13. Len(new) > 0
  BY <1>1, <1>2
<1>14. \A x \in Nat : q[k].s <= x /\ x <= Last(new).e => Hit(new, x)
  BY <1>11, <1>5
<1> QED BY <1>2, <1>6, <1>9, <1>10, <1>12, <1>13, <1>14 DEF MergedTo, new

(* The last segment reaches to the end of a rule of the same action.          *)
LEMMA SegmentWidened ==
  ASSUME NEW q \in Seq(Ranges), InOrder(q), NEW k \in 1..Len(q), NEW segs, MergedTo(segs, q, k - 1),
         Len(segs) > 0, q[k].s <= Last(segs).e, Last(segs).a = q[k].a, NEW m \in Nat,
         m = MaxOf(Last(segs).e, q[k].e)
  PROVE  MergedTo([segs EXCEPT ![Len(segs)].e = m], q, k)
<1> DEFINE r == q[k]
           n == Len(segs)
           new == [segs EXCEPT ![Len(segs)].e = m]
           w == [segs[n] EXCEPT !.e = m]
<1>0. /\ k \in Nat /\ k > 0 /\ r \in Ranges /\ \A j \in 1..Len(q) : q[j] \in Ranges
      /\ 1..k \subseteq 1..Len(q) /\ k - 1 \in Nat
  OBVIOUS
<1>1. /\ segs \in Seq(Ranges) /\ n \in Nat /\ n > 0 /\ \A i \in 1..n : segs[i] \in Ranges
      /\ Apart(segs)
      /\ \A j \in 1..(k - 1) : q[j].e <= Last(segs).e
      /\ \A i \in 1..n, x \in Nat :
          Within(x, segs[i]) => \E j \in 1..(k - 1) : Within(x, q[j]) /\ q[j].a = segs[i].a
      /\ \A j \in 1..(k - 1), x \in Nat : Within(x, q[j]) => Hit(segs, x)
      /\ (k - 1 > 0 => \A x \in Nat : q[k - 1].s <= x /\ x <= Last(segs).e => Hit(segs, x))
  BY DEF MergedTo
<1>2. n \in 1..n /\ segs[n] \in Ranges /\ Last(segs) = segs[n]
  BY <1>1 DEF Last
<1>3. /\ segs[n].e \in Nat /\ segs[n].s \in Nat /\ segs[n].s <= segs[n].e
      /\ r.s \in Nat /\ r.e \in Nat /\ r.s <= r.e
      /\ segs[n].e <= m /\ r.e <= m /\ (m = segs[n].e \/ m = r.e)
      /\ r.s <= segs[n].e /\ segs[n].a = r.a
  BY <1>0, <1>2 DEF Ranges, MaxOf
<1>4. w \in Ranges /\ w.s = segs[n].s /\ w.e = m /\ w.a = segs[n].a
  <2>1. segs[n] \in [s : Nat, e : Nat, a : Actions]
    BY <1>2 DEF Ranges
  <2>2. /\ w \in [s : Nat, e : Nat, a : Actions]
        /\ w.s = segs[n].s /\ w.e = m /\ w.a = segs[n].a
    <3> DEFINE x == segs[n]
    <3> HIDE DEF x
    <3>1. [x EXCEPT !.e = m] \in [s : Nat, e : Nat, a : Actions]
          /\ [x EXCEPT !.e = m].s = x.s /\ [x EXCEPT !.e = m].e = m /\ [x EXCEPT !.e = m].a = x.a
      BY <2>1 DEF x
    <3> QED BY <3>1 DEF x
  <2>3. w.s <= w.e
    <3> HIDE DEF w
    <3> QED BY <2>2, <1>3
  <2> HIDE DEF w
  <2> QED BY <2>2, <2>3 DEF Ranges
<1>5. /\ new \in Seq(Ranges) /\ Len(new) = n /\ new[n] = w
      /\ \A i \in 1..n : i # n => new[i] = segs[i]
  <2>1. new = [i \in 1..n |-> IF i = n THEN w ELSE segs[i]]
    BY <1>1
  <2> HIDE DEF new, w, n
  <2>2. new \in [1..n -> Ranges]
    BY <2>1, <1>1, <1>4
  <2> QED BY <2>1, <2>2, <1>1, <1>2
<1> HIDE DEF new, w
<1>6. Last(new) = w
  BY <1>5 DEF Last
<1>7. Apart(new)
  <2> SUFFICES ASSUME NEW i \in 1..n, NEW j \in 1..n, i < j PROVE new[i].e < new[j].s
    BY <1>5 DEF Apart
  <2>1. new[i] = segs[i] /\ segs[i].e < segs[j].s
    BY <1>1, <1>5 DEF Apart
  <2>2. new[j].s = segs[j].s
    BY <1>4, <1>5
  <2> QED BY <2>1, <2>2
<1>8. \A x \in Nat : Hit(segs, x) => Hit(new, x)
  <2> SUFFICES ASSUME NEW x \in Nat, NEW i \in 1..n, Within(x, segs[i]) PROVE Within(x, new[i])
    BY <1>5 DEF Hit
  <2>1. CASE i = n
    BY <2>1, <1>3, <1>4, <1>5 DEF Within
  <2> QED BY <2>1, <1>5
<1>9. \A j \in 1..k : j \in 1..(k - 1) \/ j = k
  BY <1>0
<1>10. \A j \in 1..k : q[j].e <= Last(new).e
  <2>1. ASSUME NEW j \in 1..(k - 1) PROVE q[j].e <= m
    <3>1. j \in 1..Len(q) /\ q[j].e <= segs[n].e
      BY <1>0, <1>1, <1>2
    <3>2. q[j].e \in Nat
      BY <3>1, <1>0 DEF Ranges
    <3> QED BY <3>1, <3>2, <1>3
  <2> QED BY <2>1, <1>3, <1>4, <1>6, <1>9
<1>11. ASSUME NEW i \in 1..n, NEW x \in Nat, Within(x, new[i])
       PROVE  \E j \in 1..k : Within(x, q[j]) /\ q[j].a = new[i].a
  <2>1. CASE Within(x, segs[i])
    <3>1. \E j \in 1..(k - 1) : Within(x, q[j]) /\ q[j].a = segs[i].a
      BY <2>1, <1>1
    <3>2. new[i].a = segs[i].a
      BY <1>4, <1>5
    <3> QED BY <3>1, <3>2, <1>0
  <2>2. CASE ~ Within(x, segs[i])
    <3>1. i = n
      BY <2>2, <1>11, <1>5
    <3>2. segs[n].e < x /\ x <= m
      BY <3>1, <2>2, <1>11, <1>3, <1>4, <1>5 DEF Within
    <3>3. Within(x, r)
      BY <3>2, <1>3 DEF Within
    <3> QED BY <3>1, <3>3, <1>0, <1>3, <1>4, <1>5
  <2> QED BY <2>1, <2>2
<1>12. ASSUME NEW x \in Nat, r.s <= x, x <= m PROVE Hit(new, x)
  <2>1. CASE segs[n].s <= x
    BY <2>1, <1>12, <1>2, <1>4, <1>5 DEF Within, Hit
  <2>2. CASE ~ (segs[n].s <= x)
    <3>1. x <= Last(segs).e
      BY <2>2, <1>2, <1>3
    <3>2. k - 1 > 0
      <4>1. Within(segs[n].e, segs[n])
        BY <1>3 DEF Within
      <4>2. \E j \in 1..(k - 1) : TRUE
        BY <4>1, <1>1, <1>2, <1>3
      <4> QED BY <4>2, <1>0
    <3>3. k - 1 \in 1..Len(q) /\ k - 1 < k /\ k \in 1..Len(q)
      BY <3>2, <1>0
    <3>4. NotAfter(q[k - 1], r) /\ q[k - 1].s \in Nat
      BY <3>3, <1>0 DEF InOrder, Ranges
    <3>5. q[k - 1].s <= x
      BY <3>4, <1>3, <1>12 DEF NotAfter
    <3> QED BY <3>1, <3>2, <3>5, <1>1, <1>8
  <2> QED BY <2>1, <2>2
<1>13. ASSUME NEW j \in 1..k, NEW x \in Nat, Within(x, q[j]) PROVE Hit(new, x)
  <2>1. CASE j \in 1..(k - 1)
    BY <2>1, <1>13, <1>1, <1>8
  <2>2. CASE j = k
    <3>1. r.s <= x /\ x <= m
      BY <2>2, <1>13, <1>3 DEF Within
    <3> QED BY <3>1, <1>12
  <2> QED BY <2>1, <2>2, <1>9
<1>14. \A x \in Nat : q[k].s <= x /\ x <= Last(new).e => Hit(new, x)
  BY <1>12, <1>4, <1>6
<1> QED BY <1>1, <1>5, <1>7, <1>10, <1>11, <1>13, <1>14 DEF MergedTo, new

(* A rule of the other action that reaches no further is left out.            *)
LEMMA RuleLeftOut ==
  ASSUME NEW q \in Seq(Ranges), InOrder(q), NEW k \in 1..Len(q), NEW segs, MergedTo(segs, q, k - 1),
         Len(segs) > 0, q[k].e <= Last(segs).e
  PROVE  MergedTo(segs, q, k)
<1> DEFINE r == q[k]
           n == Len(segs)
<1>0. /\ k \in Nat /\ k > 0 /\ r \in Ranges /\ \A j \in 1..Len(q) : q[j] \in Ranges
      /\ 1..k \subseteq 1..Len(q) /\ k - 1 \in Nat /\ 1..(k - 1) \subseteq 1..k
      /\ \A j \in 1..k : j \in 1..(k - 1) \/ j = k
  OBVIOUS
<1>1. /\ segs \in Seq(Ranges) /\ n \in Nat /\ n > 0 /\ \A i \in 1..n : segs[i] \in Ranges
      /\ Apart(segs)
      /\ \A j \in 1..(k - 1) : q[j].e <= Last(segs).e
      /\ \A i \in 1..n, x \in Nat :
          Within(x, segs[i]) => \E j \in 1..(k - 1) : Within(x, q[j]) /\ q[j].a = segs[i].a
      /\ \A j \in 1..(k - 1), x \in Nat : Within(x, q[j]) => Hit(segs, x)
      /\ (k - 1 > 0 => \A x \in Nat : q[k - 1].s <= x /\ x <= Last(segs).e => Hit(segs, x))
  BY DEF MergedTo
<1>2. n \in 1..n /\ segs[n] \in Ranges /\ Last(segs) = segs[n]
  BY <1>1 DEF Last
<1>3. /\ segs[n].e \in Nat /\ segs[n].s \in Nat /\ segs[n].s <= segs[n].e
      /\ r.s \in Nat /\ r.e \in Nat /\ r.s <= r.e /\ r.e <= segs[n].e
  BY <1>0, <1>2 DEF Ranges
<1>4. k - 1 > 0
  <2>1. Within(segs[n].e, segs[n])
    BY <1>3 DEF Within
  <2>2. \E j \in 1..(k - 1) : TRUE
    BY <2>1, <1>1, <1>2, <1>3
  <2> QED BY <2>2, <1>0
<1>5. q[k - 1].s \in Nat /\ q[k - 1].s <= r.s
  <2>1. k - 1 \in 1..Len(q) /\ k - 1 < k /\ k \in 1..Len(q)
    BY <1>4, <1>0
  <2>2. NotAfter(q[k - 1], r) /\ q[k - 1].s \in Nat
    BY <2>1, <1>0 DEF InOrder, Ranges
  <2> QED BY <2>2, <1>3 DEF NotAfter
<1>6. ASSUME NEW x \in Nat, r.s <= x, x <= Last(segs).e PROVE Hit(segs, x)
  <2>1. q[k - 1].s <= x
    BY <1>3, <1>5, <1>6
  <2> QED BY <2>1, <1>1, <1>4, <1>6
<1>7. ASSUME NEW j \in 1..k, NEW x \in Nat, Within(x, q[j]) PROVE Hit(segs, x)
  <2>1. CASE j \in 1..(k - 1)
    BY <2>1, <1>7, <1>1
  <2>2. CASE j = k
    <3>1. r.s <= x /\ x <= Last(segs).e
      BY <2>2, <1>7, <1>2, <1>3 DEF Within
    <3> QED BY <3>1, <1>6
  <2> QED BY <2>1, <2>2, <1>0
<1>8. \A j \in 1..k : q[j].e <= Last(segs).e
  BY <1>0, <1>1
<1>9. ASSUME NEW i \in 1..n, NEW x \in Nat, Within(x, segs[i])
      PROVE  \E j \in 1..k : Within(x, q[j]) /\ q[j].a = segs[i].a
  BY <1>9, <1>0, <1>1
<1> QED BY <1>1, <1>6, <1>7, <1>8, <1>9 DEF MergedTo

(* AddSegment does one of the three.                                          *)
LEMMA MergeStep ==
  ASSUME NEW q \in Seq(Ranges), InOrder(q), NEW k \in 1..Len(q), NEW segs, MergedTo(segs, q, k - 1)
  PROVE  MergedTo(AddSegment(segs, q[k]), q, k)
<1> DEFINE r == q[k]
           n == Len(segs)
<1>1. r \in Ranges /\ segs \in Seq(Ranges) /\ n \in Nat /\ (segs = <<>> <=> n = 0)
  BY DEF MergedTo
<1>2. r.s \in Nat /\ r.e \in Nat /\ r.s <= r.e /\ r.a \in Actions
  BY <1>1 DEF Ranges
<1>3. n > 0 => Last(segs) \in Ranges /\ Last(segs).e \in Nat
  BY <1>1 DEF Last, Ranges
<1>4. CASE n = 0
  <2>1. AddSegment(segs, r) = Append(segs, r)
    BY <1>1, <1>4 DEF AddSegment
  <2>2. MergedTo(Append(segs, r), q, k)
    <3>1. r.s <= r.s /\ ~ (Len(segs) > 0)
      BY <1>1, <1>2, <1>4
    <3> QED BY <3>1, <1>1, SegmentAdded
  <2> QED BY <2>1, <2>2
<1>5. CASE n > 0 /\ r.s > Last(segs).e
  <2>1. AddSegment(segs, r) = Append(segs, r)
    BY <1>1, <1>5 DEF AddSegment
  <2>2. Last(segs).e < r.s
    BY <1>2, <1>3, <1>5
  <2>3. MergedTo(Append(segs, r), q, k)
    BY <1>1, <1>2, <1>5, <2>2, SegmentAdded
  <2> QED BY <2>1, <2>3
<1>6. CASE n > 0 /\ ~ (r.s > Last(segs).e) /\ Last(segs).a = r.a
  <2> DEFINE m == MaxOf(Last(segs).e, r.e)
  <2>1. AddSegment(segs, r) = [segs EXCEPT ![n].e = MaxOf(@, r.e)]
    BY <1>1, <1>6 DEF AddSegment
  <2>2. [segs EXCEPT ![n].e = MaxOf(@, r.e)] = [segs EXCEPT ![n].e = m]
    BY DEF Last
  <2>3. m \in Nat /\ r.s <= Last(segs).e
    BY <1>2, <1>3, <1>6 DEF MaxOf
  <2>4. m = MaxOf(Last(segs).e, r.e)
    OBVIOUS
  <2> HIDE DEF m
  <2>5. MergedTo([segs EXCEPT ![n].e = m], q, k)
    BY <2>3, <2>4, <1>6, SegmentWidened
  <2> QED BY <2>1, <2>2, <2>5
<1>7. CASE n > 0 /\ ~ (r.s > Last(segs).e) /\ Last(segs).a # r.a /\ r.e > Last(segs).e
  <2> DEFINE t == [r EXCEPT !.s = Last(segs).e + 1]
  <2>1. AddSegment(segs, r) = Append(segs, t)
    BY <1>1, <1>7 DEF AddSegment
  <2>2. r \in [s : Nat, e : Nat, a : Actions]
    BY <1>1 DEF Ranges
  <2>3. /\ t \in [s : Nat, e : Nat, a : Actions] /\ t.s = Last(segs).e + 1 /\ t.e = r.e /\ t.a = r.a
    <3> HIDE DEF r
    <3> QED BY <2>2, <1>3, <1>7
  <2> HIDE DEF t
  <2>4. t.s <= t.e
    BY <2>3, <1>2, <1>3, <1>7
  <2>5. t \in Ranges /\ r.s <= t.s /\ Last(segs).e < t.s
    BY <2>3, <2>4, <1>2, <1>3, <1>7 DEF Ranges
  <2>6. MergedTo(Append(segs, t), q, k)
    BY <2>3, <2>5, <1>7, SegmentAdded
  <2> QED BY <2>1, <2>6
<1>8. CASE n > 0 /\ ~ (r.s > Last(segs).e) /\ Last(segs).a # r.a /\ ~ (r.e > Last(segs).e)
  <2>1. AddSegment(segs, r) = segs
    BY <1>1, <1>8 DEF AddSegment
  <2>2. r.e <= Last(segs).e
    BY <1>2, <1>3, <1>8
  <2>3. MergedTo(segs, q, k)
    BY <2>2, <1>8, RuleLeftOut
  <2> QED BY <2>1, <2>3
<1> QED BY <1>1, <1>4, <1>5, <1>6, <1>7, <1>8

LEMMA AddSegmentTyped ==
  ASSUME NEW segs \in Seq(Ranges), NEW r \in Ranges PROVE AddSegment(segs, r) \in Seq(Ranges)
<1> DEFINE n == Len(segs)
<1>1. n \in Nat /\ (segs = <<>> <=> n = 0) /\ <<r>> \in Seq(Ranges) /\ Append(segs, r) \in Seq(Ranges)
  OBVIOUS
<1>2. r \in [s : Nat, e : Nat, a : Actions] /\ r.s <= r.e
  BY DEF Ranges
<1>3. CASE n > 0
  <2> DEFINE x == segs[n]
             m == MaxOf(x.e, r.e)
             w == [x EXCEPT !.e = m]
             t == [r EXCEPT !.s = x.e + 1]
  <2>1. x \in Ranges
    BY <1>1, <1>3
  <2> HIDE DEF x
  <2>2. x \in [s : Nat, e : Nat, a : Actions] /\ x.s <= x.e
    BY <2>1 DEF Ranges
  <2>3. m \in Nat /\ x.e <= m
    BY <1>2, <2>2 DEF MaxOf
  <2> HIDE DEF m
  <2>4. w \in Ranges
    BY <2>2, <2>3 DEF Ranges
  <2>5. r.e > x.e => t \in Ranges
    BY <1>2, <2>2 DEF Ranges
  <2>6. [segs EXCEPT ![n] = w] \in Seq(Ranges)
    <3>1. [segs EXCEPT ![n] = w] = [i \in 1..n |-> IF i = n THEN w ELSE segs[i]]
      BY <1>1
    <3> HIDE DEF w, n
    <3> DEFINE g == [i \in 1..n |-> IF i = n THEN w ELSE segs[i]]
    <3>2. g \in [1..n -> Ranges]
      BY <2>4 DEF n
    <3>3. [segs EXCEPT ![n] = w] = g
      BY <3>1
    <3> HIDE DEF g
    <3>4. g \in Seq(Ranges)
      BY <3>2, <1>1
    <3> QED BY <3>3, <3>4
  <2>7. [segs EXCEPT ![n].e = MaxOf(@, r.e)] = [segs EXCEPT ![n] = w]
    BY DEF x, m
  <2>8. r.e > x.e => Append(segs, t) \in Seq(Ranges)
    <3> HIDE DEF t
    <3> QED BY <2>5
  <2> HIDE DEF t, w
  <2>9. AddSegment(segs, r) \in {Append(segs, r), [segs EXCEPT ![n].e = MaxOf(@, r.e)], segs}
        \/ (r.e > x.e /\ AddSegment(segs, r) = Append(segs, t))
    BY <1>1, <1>3 DEF AddSegment, Last, x, t
  <2> QED BY <2>6, <2>7, <2>8, <2>9, <1>1
<1>4. CASE n = 0
  BY <1>1, <1>4 DEF AddSegment
<1> QED BY <1>1, <1>3, <1>4

(* What merge_cidr4 returns: segments that are apart, in which exactly the    *)
(* addresses of the rules are, with the action of a rule they are in.         *)
LEMMA MergeFacts ==
  ASSUME NEW p \in Seq(Ranges)
  PROVE  /\ MergeCidr(p) \in Seq(Ranges) /\ Apart(MergeCidr(p))
         /\ \A i \in 1..Len(MergeCidr(p)), x \in Nat : Within(x, MergeCidr(p)[i]) =>
               \E j \in 1..Len(p) : Within(x, p[j]) /\ p[j].a = MergeCidr(p)[i].a
         /\ \A j \in 1..Len(p), x \in Nat : Within(x, p[j]) => Hit(MergeCidr(p), x)
<1> DEFINE q == Sorted(p)
           n == Len(q)
<1>0. /\ q \in Seq(Ranges) /\ n \in Nat /\ InOrder(q)
      /\ \A x : (\E i \in 1..n : q[i] = x) <=> \E i \in 1..Len(p) : p[i] = x
  <2>1. q \in Seq(Ranges) /\ InOrder(q)
        /\ \A x : (\E i \in 1..Len(q) : q[i] = x) <=> \E i \in 1..Len(p) : p[i] = x
    BY SortedFacts
  <2> HIDE DEF q
  <2> QED BY <2>1
<1> HIDE DEF q
<1>1. PICK F \in [0..n -> Seq(Ranges)] :
            /\ F[0] = <<>> /\ \A i \in 1..n : F[i] = AddSegment(F[i - 1], q[i])
            /\ Gathered(AddSegment, q) = F[n]
  BY <1>0, AddSegmentTyped, GathersMerged
<1> DEFINE Q == {k \in 0..n : MergedTo(F[k], q, k)}
<1>2. 0 \in Q
  <2>1. F[0] = <<>> /\ Len(F[0]) = 0 /\ F[0] \in Seq(Ranges) /\ 0 \in 0..n
    BY <1>0, <1>1
  <2> QED BY <2>1 DEF MergedTo, Apart
<1>3. ASSUME NEW k \in 1..n, k - 1 \in Q PROVE k \in Q
  <2>1. MergedTo(F[k - 1], q, k - 1) /\ F[k] = AddSegment(F[k - 1], q[k]) /\ k \in 0..n
    BY <1>0, <1>1, <1>3
  <2>2. MergedTo(AddSegment(F[k - 1], q[k]), q, k)
    BY <1>0, <2>1, MergeStep
  <2> QED BY <2>1, <2>2
<1>4. \A k \in 0..n : k \in Q
  <2> HIDE DEF Q, n
  <2> QED BY <1>0, <1>2, <1>3, Carries
<1>5. MergedTo(MergeCidr(p), q, n)
  <2>1. n \in 0..n
    BY <1>0
  <2> QED BY <2>1, <1>1, <1>4 DEF MergeCidr, q
<1> HIDE DEF n
<1>6. ASSUME NEW i \in 1..Len(MergeCidr(p)), NEW x \in Nat, Within(x, MergeCidr(p)[i])
      PROVE  \E j \in 1..Len(p) : Within(x, p[j]) /\ p[j].a = MergeCidr(p)[i].a
  <2>1. PICK j \in 1..n : Within(x, q[j]) /\ q[j].a = MergeCidr(p)[i].a
    BY <1>5, <1>6 DEF MergedTo
  <2>2. PICK l \in 1..Len(p) : p[l] = q[j]
    BY <1>0
  <2> QED BY <2>1, <2>2
<1>7. ASSUME NEW j \in 1..Len(p), NEW x \in Nat, Within(x, p[j]) PROVE Hit(MergeCidr(p), x)
  <2>1. PICK l \in 1..n : q[l] = p[j]
    BY <1>0
  <2> QED BY <2>1, <1>5, <1>7 DEF MergedTo
<1> QED BY <1>5, <1>6, <1>7 DEF MergedTo

(* The binary search finds the segment that an address is in.                 *)
LEMMA LookupFacts ==
  ASSUME NEW segs \in Seq(Ranges), Apart(segs), NEW x \in Nat
  PROVE  /\ LookupSorted(segs, x) = "none" <=> ~ Hit(segs, x)
         /\ Hit(segs, x) => \E i \in 1..Len(segs) : Within(x, segs[i]) /\ segs[i].a = LookupSorted(segs, x)
<1> DEFINE n == Len(segs)
           I == {i \in DOMAIN segs : segs[i].s <= x}
           k == StartedBy(segs, x)
<1>0. n \in Nat /\ DOMAIN segs = 1..n /\ \A i \in 1..n : segs[i] \in Ranges
  OBVIOUS
<1>1. \A i \in 1..n : segs[i].s \in Nat /\ segs[i].e \in Nat /\ segs[i].s <= segs[i].e /\ segs[i].a # "none"
  BY <1>0 DEF Ranges, Actions
<1>2. k \in 0..n /\ I = 1..k
  <2>1. I \in SUBSET (1..n)
    BY <1>0
  <2>2. ASSUME NEW i \in I, NEW j \in 1..n, j <= i PROVE j \in I
    <3>1. i \in 1..n /\ (j = i \/ j < i) /\ segs[i].s <= x
      BY <1>0, <2>2
    <3>2. j < i => segs[j].e < segs[i].s
      BY <3>1 DEF Apart
    <3>3. segs[j].s <= x
      BY <3>1, <3>2, <1>1
    <3> QED BY <3>3, <1>0
  <2>3. k = Cardinality(I)
    BY DEF StartedBy
  <2> HIDE DEF I, n, k
  <2> QED BY <1>0, <2>1, <2>2, <2>3, FirstPlaces
<1>3. LookupSorted(segs, x) = IF k > 0 /\ segs[k].e >= x THEN segs[k].a ELSE "none"
  BY DEF LookupSorted
<1>4. k > 0 => k \in 1..n /\ segs[k].s <= x
  <2> HIDE DEF k
  <2>1. k > 0 => k \in 1..k
    BY <1>2
  <2> QED BY <2>1, <1>0, <1>2
<1>5. ASSUME NEW i \in 1..n, Within(x, segs[i]) PROVE i = k
  <2> HIDE DEF k
  <2>1. i \in I
    BY <1>5, <1>0 DEF Within
  <2>2. k > 0 /\ (i = k \/ i < k) /\ k \in 1..n
    BY <2>1, <1>2, <1>4
  <2>3. i < k => segs[i].e < segs[k].s
    BY <2>2 DEF Apart
  <2>4. ~ (i < k)
    BY <2>2, <2>3, <1>1, <1>4, <1>5 DEF Within
  <2> QED BY <2>2, <2>4
<1> HIDE DEF k
<1>6. CASE k > 0 /\ segs[k].e >= x
  <2>1. Within(x, segs[k]) /\ k \in 1..n
    BY <1>1, <1>4, <1>6 DEF Within
  <2> QED BY <2>1, <1>1, <1>3, <1>6 DEF Hit
<1>7. CASE ~ (k > 0 /\ segs[k].e >= x)
  <2>1. ~ Hit(segs, x)
    <3> SUFFICES ASSUME NEW i \in 1..n, Within(x, segs[i]) PROVE FALSE
      BY DEF Hit
    <3>1. i = k
      BY <1>5
    <3> QED BY <3>1, <1>0, <1>1, <1>2, <1>7 DEF Within
  <2> QED BY <2>1, <1>3, <1>7
<1> QED BY <1>6, <1>7

(* The scan of a short file finds the first rule that contains the address.   *)
LEMMA FirstFacts ==
  ASSUME NEW x \in Nat, rules.cidrs \in Seq(Ranges)
  PROVE  /\ FirstCidr(x) = "none" <=> Containing(x) = {}
         /\ Containing(x) # {} => \E i \in Containing(x) : rules.cidrs[i].a = FirstCidr(x)
<1> DEFINE p == rules.cidrs
           I == {i \in 1..Len(p) : p[i].s <= x /\ x <= p[i].e}
           k == IF I # {} THEN Min(I) ELSE 0
<1>1. Len(p) \in Nat /\ DOMAIN p = 1..Len(p) /\ \A i \in 1..Len(p) : p[i].a # "none"
  <2>1. p \in Seq(Ranges)
    OBVIOUS
  <2> HIDE DEF p
  <2>2. Len(p) \in Nat /\ DOMAIN p = 1..Len(p) /\ \A i \in 1..Len(p) : p[i] \in Ranges
    BY <2>1
  <2>3. \A r \in Ranges : r.a # "none"
    BY DEF Ranges, Actions
  <2> QED BY <2>2, <2>3
<1>2. I = Containing(x)
  BY <1>1 DEF Containing
<1>3. FirstCidr(x) = IF k = 0 THEN "none" ELSE p[k].a
  BY DEF FirstCidr, SelectInSeq
<1>4. I # {} => k \in I
  <2> SUFFICES ASSUME I # {} PROVE Min(I) \in I
    OBVIOUS
  <2>1. I \in SUBSET Nat
    BY <1>1
  <2> HIDE DEF I
  <2>2. \E i \in I : \A j \in I : i <= j
    BY <2>1, LeastNat
  <2> QED BY <2>2 DEF Min
<1>5. I = {} => k = 0
  OBVIOUS
<1>6. \A i \in I : i # 0 /\ p[i].a # "none"
  BY <1>1
<1> HIDE DEF k, I
<1> QED BY <1>2, <1>3, <1>4, <1>5, <1>6

(* The table of China's addresses is searched in the same way.                *)
LEMMA GeoFacts ==
  ASSUME NEW x \in Nat
  PROVE  GeoContains(x) <=> \E i \in DOMAIN CnRanges : CnRanges[i][1] <= x /\ x <= CnRanges[i][2]
<1> DEFINE n == Len(CnRanges)
           I == {i \in DOMAIN CnRanges : CnRanges[i][1] <= x}
           k == Cardinality(I)
<1>0. n \in Nat /\ DOMAIN CnRanges = 1..n /\ \A i \in 1..n : CnRanges[i] \in Nat \X Nat
  BY RulesAssumption
<1>1. \A i \in 1..n : CnRanges[i][1] \in Nat /\ CnRanges[i][2] \in Nat /\ CnRanges[i][1] <= CnRanges[i][2]
  BY <1>0, RulesAssumption
<1>2. \A i, j \in 1..n : i < j => CnRanges[i][2] < CnRanges[j][1]
  BY <1>0, RulesAssumption
<1>3. k \in 0..n /\ I = 1..k
  <2>1. I \in SUBSET (1..n)
    BY <1>0
  <2>2. ASSUME NEW i \in I, NEW j \in 1..n, j <= i PROVE j \in I
    <3>1. i \in 1..n /\ (j = i \/ j < i) /\ CnRanges[i][1] <= x
      BY <1>0, <2>2
    <3>2. j < i => CnRanges[j][2] < CnRanges[i][1]
      BY <3>1, <1>2
    <3>3. CnRanges[j][1] <= x
      BY <3>1, <3>2, <1>1
    <3> QED BY <3>3, <1>0
  <2> HIDE DEF I, n
  <2> QED BY <1>0, <2>1, <2>2, FirstPlaces
<1>4. GeoContains(x) <=> k > 0 /\ CnRanges[k][2] >= x
  BY DEF GeoContains
<1>5. k > 0 => k \in 1..n /\ CnRanges[k][1] <= x
  <2> HIDE DEF k
  <2>1. k > 0 => k \in 1..k
    BY <1>3
  <2> QED BY <2>1, <1>0, <1>3
<1>6. ASSUME NEW i \in 1..n, CnRanges[i][1] <= x, x <= CnRanges[i][2] PROVE k > 0 /\ CnRanges[k][2] >= x
  <2> HIDE DEF k
  <2>1. i \in I
    BY <1>6, <1>0
  <2>2. k > 0 /\ (i = k \/ i < k) /\ k \in 1..n
    BY <2>1, <1>3, <1>5
  <2>3. i < k => CnRanges[i][2] < CnRanges[k][1]
    BY <2>2, <1>2
  <2> QED BY <2>2, <2>3, <1>1, <1>5, <1>6
<1> HIDE DEF k
<1>7. k > 0 /\ CnRanges[k][2] >= x => k \in 1..n /\ CnRanges[k][1] <= x /\ x <= CnRanges[k][2]
  BY <1>1, <1>5
<1> QED BY <1>0, <1>4, <1>6, <1>7

(* Whole labels from the left, or the end of the name.                        *)
LEMMA SuffixFacts ==
  ASSUME NEW h \in Hosts
  PROVE  SuffixMatch(CnSuffixes, h)
           <=> \E d \in CnSuffixes : IsSuffix(d, h) /\ \A j \in 1..(Len(h) - Len(d) + 1) : h[j] # ""
<1>0. h \in Seq(STRING) /\ Len(h) \in Nat /\ DOMAIN h = 1..Len(h)
  BY RulesAssumption
<1>1. ASSUME NEW d \in CnSuffixes
      PROVE  /\ d \in Seq(STRING) /\ Len(d) \in Nat \ {0}
             /\ IsSuffix(d, h) <=> Len(d) <= Len(h) /\ d = SubSeq(h, Len(h) - Len(d) + 1, Len(h))
  <2> DEFINE m == Len(d)
             n == Len(h)
  <2>1. d \in Seq(STRING) /\ m \in Nat /\ m # 0
    BY RulesAssumption
  <2> DEFINE rd == Reverse(d)
             rh == Reverse(h)
  <2>2. /\ rd \in Seq(STRING) /\ Len(rd) = m /\ \A i \in 1..m : rd[i] = d[m - i + 1]
        /\ rh \in Seq(STRING) /\ Len(rh) = n /\ \A i \in 1..n : rh[i] = h[n - i + 1]
    <3>1. \A i \in 1..m : m - i + 1 \in 1..m
      BY <2>1
    <3>2. \A i \in 1..n : n - i + 1 \in 1..n
      BY <1>0
    <3>3. rd = [i \in 1..m |-> d[(m - i) + 1]] /\ rh = [i \in 1..n |-> h[(n - i) + 1]]
      BY DEF Reverse
    <3>4. rd \in [1..m -> STRING] /\ rh \in [1..n -> STRING]
      BY <3>1, <3>2, <3>3, <2>1, <1>0
    <3> HIDE DEF rd, rh
    <3> QED BY <3>3, <3>4, <2>1, <1>0
  <2>3. IsSuffix(d, h) <=> m <= n /\ SubSeq(rd, 1, m) = SubSeq(rh, 1, m)
    BY <2>2 DEF IsSuffix, IsPrefix
  <2> HIDE DEF rd, rh
  <2>4. ASSUME m <= n PROVE SubSeq(rd, 1, m) = SubSeq(rh, 1, m) <=> \A i \in 1..m : rd[i] = rh[i]
    <3>1. /\ SubSeq(rd, 1, m) \in Seq(STRING) /\ Len(SubSeq(rd, 1, m)) = m
          /\ \A i \in 1..m : SubSeq(rd, 1, m)[i] = rd[i]
          /\ SubSeq(rh, 1, m) \in Seq(STRING) /\ Len(SubSeq(rh, 1, m)) = m
          /\ \A i \in 1..m : SubSeq(rh, 1, m)[i] = rh[i]
      BY <2>1, <2>2, <2>4, <1>0
    <3> DEFINE a == SubSeq(rd, 1, m)
               b == SubSeq(rh, 1, m)
    <3> HIDE DEF a, b
    <3>2. a = b <=> \A i \in 1..m : a[i] = b[i]
      <4>1. a \in Seq(STRING) /\ b \in Seq(STRING) /\ Len(a) = m /\ Len(b) = m
        BY <3>1 DEF a, b
      <4> QED BY <4>1, SeqEqual
    <3> QED BY <3>1, <3>2 DEF a, b
  <2>5. ASSUME m <= n PROVE d = SubSeq(h, n - m + 1, n) <=> \A i \in 1..m : d[i] = h[n - m + i]
    <3> DEFINE b == SubSeq(h, n - m + 1, n)
    <3>1. b \in Seq(STRING) /\ Len(b) = m /\ \A i \in 1..m : b[i] = h[n - m + i]
      BY <2>1, <2>5, <1>0
    <3> HIDE DEF b
    <3>2. d = b <=> \A i \in 1..m : d[i] = b[i]
      BY <2>1, <3>1, SeqEqual
    <3> QED BY <3>1, <3>2 DEF b
  <2>6. ASSUME m <= n PROVE (\A i \in 1..m : rd[i] = rh[i]) <=> \A i \in 1..m : d[i] = h[n - m + i]
    <3>1. \A i \in 1..m : m - i + 1 \in 1..m /\ m - (m - i + 1) + 1 = i /\ n - (m - i + 1) + 1 = n - m + i
                          /\ i \in 1..n /\ m - i + 1 \in 1..n /\ n - m + (m - i + 1) = n - i + 1
      BY <2>1, <2>6, <1>0
    <3>2. ASSUME \A i \in 1..m : rd[i] = rh[i], NEW i \in 1..m PROVE d[i] = h[n - m + i]
      <4>1. rd[m - i + 1] = rh[m - i + 1]
        BY <3>1, <3>2
      <4>2. rd[m - i + 1] = d[m - (m - i + 1) + 1] /\ rh[m - i + 1] = h[n - (m - i + 1) + 1]
        BY <3>1, <2>2
      <4> QED BY <4>1, <4>2, <3>1
    <3>3. ASSUME \A i \in 1..m : d[i] = h[n - m + i], NEW i \in 1..m PROVE rd[i] = rh[i]
      <4>1. d[m - i + 1] = h[n - m + (m - i + 1)]
        BY <3>1, <3>3
      <4>2. rd[i] = d[m - i + 1] /\ rh[i] = h[n - i + 1]
        BY <3>1, <2>2
      <4> QED BY <4>1, <4>2, <3>1
    <3> QED BY <3>2, <3>3
  <2> QED BY <2>1, <2>3, <2>4, <2>5, <2>6
<1>2. ASSUME SuffixMatch(CnSuffixes, h)
      PROVE  \E d \in CnSuffixes : IsSuffix(d, h) /\ \A j \in 1..(Len(h) - Len(d) + 1) : h[j] # ""
  <2>1. PICK i \in 1..Len(h) : SubSeq(h, i, Len(h)) \in CnSuffixes /\ \A j \in 1..i : h[j] # ""
    BY <1>2, <1>0 DEF SuffixMatch
  <2> DEFINE d == SubSeq(h, i, Len(h))
  <2>2. Len(d) = Len(h) - i + 1
    BY <1>0
  <2> HIDE DEF d
  <2>3. Len(d) <= Len(h) /\ Len(h) - Len(d) + 1 = i
    BY <2>2, <1>0
  <2>4. d = SubSeq(h, Len(h) - Len(d) + 1, Len(h)) /\ d \in CnSuffixes
    BY <2>1, <2>3 DEF d
  <2> QED BY <2>1, <2>3, <2>4, <1>1
<1>3. ASSUME NEW d \in CnSuffixes, IsSuffix(d, h), \A j \in 1..(Len(h) - Len(d) + 1) : h[j] # ""
      PROVE  SuffixMatch(CnSuffixes, h)
  <2> DEFINE i == Len(h) - Len(d) + 1
  <2>1. i \in 1..Len(h) /\ SubSeq(h, i, Len(h)) = d
    <3>1. Len(d) \in Nat \ {0} /\ Len(d) <= Len(h) /\ d = SubSeq(h, i, Len(h))
      BY <1>1, <1>3
    <3>2. i \in 1..Len(h)
      BY <3>1, <1>0
    <3> HIDE DEF i
    <3> QED BY <3>1, <3>2
  <2> HIDE DEF i
  <2> QED BY <2>1, <1>0, <1>3 DEF SuffixMatch, i
<1> QED BY <1>2, <1>3

(* The rules that were read, and the index that build_indexes made of them.   *)
RulesInv ==
    /\ rules \in [ports : Seq([p : Ports, a : Actions]), cidrs : Seq(Ranges),
                  full : Seq([d : RuleNames, a : Actions]), suffix : Seq([d : RuleNames, a : Actions]),
                  keyword : Seq([d : RuleNames, a : Actions]), skipped : Nat]
    /\ index = IF built /\ Len(rules.cidrs) >= Threshold THEN MergeCidr(rules.cidrs) ELSE <<>>

(* parse_cidr gives a range that is not empty.                                *)
LEMMA ParsedRange ==
  ASSUME NEW ip \in Ips, NEW prefix \in 0..(Bits + 1), NEW a \in Actions, prefix <= Bits
  PROVE  /\ ParseCidr(ip, prefix) # <<>>
         /\ [s |-> ParseCidr(ip, prefix)[1], e |-> ParseCidr(ip, prefix)[2], a |-> a] \in Ranges
<1> DEFINE size  == Block[Bits - prefix]
           start == (ip \div size) * size
<1>1. size \in Nat \ {0}
  <2>1. Bits \in Nat /\ Bits - prefix \in 0..Bits
    BY RulesAssumption
  <2> QED BY <2>1, Blocks
<1>2. ip \in Nat
  BY DEF Ips
<1> HIDE DEF size
<1>3. start \in Nat
  <2>1. ip \div size \in Nat
    BY <1>1, <1>2
  <2> QED BY <2>1, <1>1
<1>4. ParseCidr(ip, prefix) = <<start, start + size - 1>>
  <2>1. ~ (prefix > Bits)
    BY RulesAssumption
  <2> QED BY <2>1 DEF ParseCidr, size
<1> HIDE DEF start
<1>5. start + size - 1 \in Nat /\ start <= start + size - 1
  BY <1>1, <1>3
<1> QED BY <1>3, <1>4, <1>5 DEF Ranges

LEMMA RulesNextPreserves == RulesInv /\ RulesNext => RulesInv'
<1> SUFFICES ASSUME RulesInv, RulesNext PROVE RulesInv'
  OBVIOUS
<1> DEFINE Named == Seq([d : RuleNames, a : Actions])
<1>0. /\ rules \in [ports : Seq([p : Ports, a : Actions]), cidrs : Seq(Ranges),
                    full : Named, suffix : Named, keyword : Named, skipped : Nat]
      /\ index = IF built /\ Len(rules.cidrs) >= Threshold THEN MergeCidr(rules.cidrs) ELSE <<>>
  BY DEF RulesInv
<1>1. ASSUME NEW r, Reading, Parsed(r),
             r \in [ports : Seq([p : Ports, a : Actions]), cidrs : Seq(Ranges),
                    full : Named, suffix : Named, keyword : Named, skipped : Nat]
      PROVE  RulesInv'
  BY <1>0, <1>1 DEF Reading, Parsed, RulesInv
<1> DEFINE Skips == [rules EXCEPT !.skipped = @ + 1]
<1>2. Skips \in [ports : Seq([p : Ports, a : Actions]), cidrs : Seq(Ranges),
                 full : Named, suffix : Named, keyword : Named, skipped : Nat]
  <2>1. rules.skipped + 1 \in Nat
    BY <1>0
  <2> HIDE DEF Named
  <2> QED BY <2>1, <1>0
<1>3. CASE ParseIpCidr
  <2>1. PICK ip \in Ips, prefix \in 0..(Bits + 1), a \in Actions :
          Parsed(IF ParseCidr(ip, prefix) = <<>> THEN Skips
                 ELSE [rules EXCEPT !.cidrs = Append(@, [s |-> ParseCidr(ip, prefix)[1],
                                                         e |-> ParseCidr(ip, prefix)[2], a |-> a])])
    BY <1>3 DEF ParseIpCidr
  <2> DEFINE w == [s |-> ParseCidr(ip, prefix)[1], e |-> ParseCidr(ip, prefix)[2], a |-> a]
  <2>2. CASE prefix > Bits
    <3>1. ParseCidr(ip, prefix) = <<>>
      BY <2>2 DEF ParseCidr
    <3>2. Parsed(Skips)
      BY <2>1, <3>1
    <3> QED BY <3>2, <1>1, <1>2, <1>3 DEF ParseIpCidr
  <2>3. CASE ~ (prefix > Bits)
    <3>1. prefix <= Bits
      BY <2>3, RulesAssumption
    <3>2. ParseCidr(ip, prefix) # <<>> /\ w \in Ranges
      BY <3>1, ParsedRange
    <3>3. Parsed([rules EXCEPT !.cidrs = Append(@, w)])
      BY <2>1, <3>2
    <3> HIDE DEF w
    <3>4. Append(rules.cidrs, w) \in Seq(Ranges)
      BY <3>2, <1>0
    <3>5. [rules EXCEPT !.cidrs = Append(@, w)] \in
             [ports : Seq([p : Ports, a : Actions]), cidrs : Seq(Ranges),
              full : Named, suffix : Named, keyword : Named, skipped : Nat]
      <4> HIDE DEF Named
      <4> QED BY <3>4, <1>0
    <3> QED BY <3>3, <3>5, <1>1, <1>3 DEF ParseIpCidr
  <2> QED BY <2>2, <2>3
<1>4. CASE ParseDstPort
  <2>1. PICK p \in Ports, a \in Actions : Parsed([rules EXCEPT !.ports = Append(@, [p |-> p, a |-> a])])
    BY <1>4 DEF ParseDstPort
  <2>2. Append(rules.ports, [p |-> p, a |-> a]) \in Seq([p : Ports, a : Actions])
    BY <1>0
  <2>3. [rules EXCEPT !.ports = Append(@, [p |-> p, a |-> a])] \in
             [ports : Seq([p : Ports, a : Actions]), cidrs : Seq(Ranges),
              full : Named, suffix : Named, keyword : Named, skipped : Nat]
    <3> HIDE DEF Named
    <3> QED BY <2>2, <1>0
  <2> QED BY <2>1, <2>3, <1>1, <1>4 DEF ParseDstPort
<1>5. CASE ParseDomain
  <2>1. PICK d \in RuleNames, a \in Actions, kind \in {"full", "suffix", "keyword"} :
          Parsed([rules EXCEPT ![kind] = Append(@, [d |-> d, a |-> a])])
    BY <1>5 DEF ParseDomain
  <2>2. Append(rules[kind], [d |-> d, a |-> a]) \in Named
    <3>1. rules[kind] \in Named
      <4> HIDE DEF Named
      <4> QED BY <1>0
    <3> QED BY <3>1
  <2>3. [rules EXCEPT ![kind] = Append(@, [d |-> d, a |-> a])] \in
             [ports : Seq([p : Ports, a : Actions]), cidrs : Seq(Ranges),
              full : Named, suffix : Named, keyword : Named, skipped : Nat]
    <3> HIDE DEF Named
    <3>1. CASE kind = "full"
      BY <3>1, <2>2, <1>0
    <3>2. CASE kind = "suffix"
      BY <3>2, <2>2, <1>0
    <3>3. CASE kind = "keyword"
      BY <3>3, <2>2, <1>0
    <3> QED BY <3>1, <3>2, <3>3
  <2> QED BY <2>1, <2>3, <1>1, <1>5 DEF ParseDomain
<1>6. CASE SkipLine
  BY <1>6, <1>1, <1>2 DEF SkipLine
<1>7. CASE BuildIndexes
  BY <1>7, <1>0 DEF BuildIndexes, RulesInv
<1> QED BY <1>3, <1>4, <1>5, <1>6, <1>7 DEF RulesNext

(* Whichever way an address is looked up, by index or by scan.                *)
LEMMA CidrFacts ==
  ASSUME RulesInv, built, NEW ip \in Ips
  PROVE  /\ Cidr(ip) = "none" <=> Containing(ip) = {}
         /\ Cidr(ip) # "none" => \E i \in Containing(ip) : rules.cidrs[i].a = Cidr(ip)
         /\ ~Disagree => Cidr(ip) = FirstCidr(ip)
<1> DEFINE p == rules.cidrs
<1>1. ip \in Nat /\ p \in Seq(Ranges) /\ Len(p) \in Nat /\ DOMAIN p = 1..Len(p)
  BY DEF Ips, RulesInv
<1>2. Containing(ip) = {i \in 1..Len(p) : Within(ip, p[i])}
  BY <1>1 DEF Containing, Within
<1>3. /\ FirstCidr(ip) = "none" <=> Containing(ip) = {}
      /\ Containing(ip) # {} => \E i \in Containing(ip) : p[i].a = FirstCidr(ip)
  BY <1>1, FirstFacts
<1>4. /\ Cidr(ip) = "none" <=> Containing(ip) = {}
      /\ Cidr(ip) # "none" => \E i \in Containing(ip) : p[i].a = Cidr(ip)
  <2>1. CASE Len(p) >= Threshold
    <3> DEFINE m == MergeCidr(p)
    <3>1. Cidr(ip) = LookupSorted(m, ip)
      BY <2>1 DEF Cidr, RulesInv
    <3>2. /\ m \in Seq(Ranges) /\ Apart(m)
          /\ \A i \in 1..Len(m), x \in Nat : Within(x, m[i]) =>
               \E j \in 1..Len(p) : Within(x, p[j]) /\ p[j].a = m[i].a
          /\ \A j \in 1..Len(p), x \in Nat : Within(x, p[j]) => Hit(m, x)
      BY <1>1, MergeFacts
    <3> HIDE DEF m
    <3>3. /\ LookupSorted(m, ip) = "none" <=> ~ Hit(m, ip)
          /\ Hit(m, ip) => \E i \in 1..Len(m) : Within(ip, m[i]) /\ m[i].a = LookupSorted(m, ip)
      BY <1>1, <3>2, LookupFacts
    <3>4. Hit(m, ip) => \E j \in 1..Len(p) : Within(ip, p[j]) /\ p[j].a = LookupSorted(m, ip)
      BY <1>1, <3>2, <3>3
    <3>5. Containing(ip) # {} => Hit(m, ip)
      BY <1>1, <1>2, <3>2
    <3> QED BY <1>2, <3>1, <3>3, <3>4, <3>5
  <2>2. CASE ~ (Len(p) >= Threshold)
    BY <2>2, <1>3 DEF Cidr
  <2> QED BY <2>1, <2>2
<1>5. ASSUME ~Disagree PROVE Cidr(ip) = FirstCidr(ip)
  <2>1. ASSUME NEW i \in Containing(ip), NEW j \in Containing(ip) PROVE p[i].a = p[j].a
    <3>1. i \in 1..Len(p) /\ j \in 1..Len(p) /\ Within(ip, p[i]) /\ Within(ip, p[j])
      BY <1>2
    <3>2. p[i] \in Ranges /\ p[j] \in Ranges
      BY <1>1, <3>1
    <3>3. p[i].s \in Nat /\ p[i].e \in Nat /\ p[j].s \in Nat /\ p[j].e \in Nat
      BY <3>2 DEF Ranges
    <3>4. Overlapping(p[i], p[j])
      BY <1>1, <3>1, <3>3 DEF Overlapping, Within
    <3> QED BY <1>1, <1>5, <3>1, <3>4 DEF Disagree
  <2>2. CASE Containing(ip) = {}
    BY <2>2, <1>3, <1>4
  <2>3. CASE Containing(ip) # {}
    BY <2>1, <2>3, <1>3, <1>4
  <2> QED BY <2>2, <2>3
<1> QED BY <1>4, <1>5

(* The invariant carries the property: parse_line, build_indexes, decide and  *)
(* decide_domain.                                                             *)
LEMMA RulesAreSound == RulesInv => RulesSound
<1> SUFFICES ASSUME RulesInv, built PROVE RulesSound
  BY DEF RulesSound
<1>1. ASSUME NEW ip \in Ips, NEW p \in Ports, Containing(ip) = {}, PortRule(p) = "none"
      PROVE  (Decide(ip, p) = "direct") = (ip \in Builtin
                 \/ \E i \in DOMAIN CnRanges : CnRanges[i][1] <= ip /\ ip <= CnRanges[i][2])
  <2>1. Cidr(ip) = "none"
    BY <1>1, CidrFacts
  <2>2. ip \in Nat
    BY DEF Ips
  <2>3. Decide(ip, p) = IF ip \in Builtin THEN "direct" ELSE IF GeoContains(ip) THEN "direct" ELSE "proxy"
    BY <2>1, <1>1 DEF Decide
  <2>4. GeoContains(ip) <=> \E i \in DOMAIN CnRanges : CnRanges[i][1] <= ip /\ ip <= CnRanges[i][2]
    BY <2>2, GeoFacts
  <2> QED BY <2>3, <2>4
<1>2. ASSUME NEW h \in Hosts, "" \in Range(h), rules.full = <<>>, rules.keyword = <<>>
      PROVE  DomainRule(h) = "none"
  <2>1. \A S : FirstDomain(<<>>, S) = "none"
    BY DEF FirstDomain, SelectInSeq
  <2> QED BY <2>1, <1>2 DEF DomainRule
<1>3. ASSUME NEW h \in Hosts, NEW p \in Ports,
             DomainRule(h) = "none", PortRule(p) = "none", Last(h) # Localhost
      PROVE  (DecideDomain(h, p) = "direct") =
                  (\/ h \in Loopback \/ Last(h) = Cn
                   \/ \E d \in CnSuffixes : /\ IsSuffix(d, h)
                                             /\ \A j \in 1..(Len(h) - Len(d) + 1) : h[j] # "")
  <2>1. DecideDomain(h, p) = IF BuiltInDomain(h) THEN "direct" ELSE "proxy"
    BY <1>3 DEF DecideDomain
  <2>2. BuiltInDomain(h) <=> h \in Loopback \/ Last(h) = Cn \/ SuffixMatch(CnSuffixes, h)
    BY <1>3 DEF BuiltInDomain
  <2>3. SuffixMatch(CnSuffixes, h)
           <=> \E d \in CnSuffixes : IsSuffix(d, h) /\ \A j \in 1..(Len(h) - Len(d) + 1) : h[j] # ""
    BY SuffixFacts
  <2> QED BY <2>1, <2>2, <2>3
<1> QED BY <1>1, <1>2, <1>3, CidrFacts DEF RulesSound

(* Whatever rules are read, and whether they are indexed or scanned, an       *)
(* address gets the answer of a rule that contains it, of the first one where *)
(* overlapping rules agree, and the built-in answer if no rule names it; a    *)
(* name is matched by whole labels.                                           *)
THEOREM RulesDecideSoundly == Spec => []RulesSound
<1>1. Init => RulesInv
  <2>1. \A S : <<>> \in Seq(S)
    OBVIOUS
  <2> QED BY <2>1 DEF Init, RulesInit, RulesInv
<1>2. RulesInv /\ [Next]_vars => RulesInv'
  <2> SUFFICES ASSUME RulesInv, [Next]_vars PROVE RulesInv'
    OBVIOUS
  <2>1. CASE Rules
    BY <2>1, RulesNextPreserves DEF Rules
  <2>2. CASE UNCHANGED ruleVars
    BY <2>2 DEF ruleVars, RulesInv
  <2>3. Begins \/ Routes \/ Tcp \/ Udp \/ Others \/ Leftover \/ Stops \/ Crash \/ UNCHANGED vars
           => UNCHANGED ruleVars
    BY DEF Begins, Routes, Tcp, Udp, Others, Leftover, Stops, Crash, fixed, vars
  <2> QED BY <2>1, <2>2, <2>3 DEF Next
<1> QED BY <1>1, <1>2, RulesAreSound, PTL DEF Spec
=============================================================================
