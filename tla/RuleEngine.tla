----------------------------- MODULE RuleEngine -----------------------------
(***************************************************************************)
(* The routing rules (hydra-core/src/routing_rules.rs, routing.rs): a rule *)
(* file is read line by line, the CIDR rules are indexed when there are    *)
(* many, and decide and decide_domain answer for each connection.          *)
(* Addresses have few bits; the code is the same for 32 and 128.  A host   *)
(* name is its sequence of labels; "" is an empty label.                   *)
(***************************************************************************)
EXTENDS Naturals, Sequences, SequencesExt, FiniteSets

CONSTANTS Bits,         \* bits of an address
          Ports,        \* destination ports
          Builtin,      \* addresses is_builtin_direct names
          CnRanges,     \* segments <<start, end>> of the built-in GeoIP table, sorted, disjoint
          Hosts,        \* host names asked for, normalised
          RuleNames,    \* normalised names that domain rules give
          CnSuffixes,   \* BUILTIN_CN_SUFFIXES and the user's domain file
          Loopback,     \* the other LOOPBACK_NAMES
          Localhost,    \* the label "localhost"
          Cn,           \* the label "cn"
          MaxLines,     \* bound: lines of the file
          Threshold     \* CIDR_BINARY_SEARCH_THRESHOLD

\* Addresses that agree in all but their last k bits.
Block[k \in 0..Bits] == IF k = 0 THEN 1 ELSE 2 * Block[k - 1]
Ips == 0..(Block[Bits] - 1)

ASSUME RulesAssumption == /\ Bits \in Nat \ {0} /\ Threshold \in Nat \ {0} /\ MaxLines \in Nat
                          /\ Builtin \subseteq Ips
                          /\ CnRanges \in Seq(Nat \X Nat)
                          /\ \A i, j \in DOMAIN CnRanges : i < j => CnRanges[i][2] < CnRanges[j][1]
                          /\ \A i \in DOMAIN CnRanges : CnRanges[i][1] <= CnRanges[i][2]
                          /\ Hosts \cup CnSuffixes \subseteq Seq(STRING) \ {<<>>}

VARIABLES
    rules,      \* port_rules, cidrs, full, suffix, keyword: in file order; skipped
    index,      \* the sorted segments, or <<>> while decide scans
    built       \* build_indexes ran

ruleVars == <<rules, index, built>>

Actions == {"direct", "proxy"}
MaxOf(a, b) == IF a >= b THEN a ELSE b

\* parse_cidr: the host bits are cleared; a prefix that is too long is refused.
ParseCidr(ip, prefix) ==
    LET size  == Block[Bits - prefix]
        start == (ip \div size) * size
    IN IF prefix > Bits THEN <<>> ELSE <<start, start + size - 1>>

RulesInit ==
    /\ rules = [ports |-> <<>>, cidrs |-> <<>>, full |-> <<>>, suffix |-> <<>>, keyword |-> <<>>,
                skipped |-> 0]
    /\ index = <<>> /\ built = FALSE

Lines == Len(rules.ports) + Len(rules.cidrs) + Len(rules.full) + Len(rules.suffix)
         + Len(rules.keyword) + rules.skipped

Reading == ~built /\ Lines < MaxLines
Parsed(r) == rules' = r /\ UNCHANGED <<index, built>>

\* parse_line, one action for each kind of line.
ParseIpCidr ==
    /\ Reading
    /\ \E ip \in Ips, prefix \in 0..(Bits + 1), a \in Actions :
         LET seg == ParseCidr(ip, prefix) IN
         Parsed(IF seg = <<>> THEN [rules EXCEPT !.skipped = @ + 1]
                ELSE [rules EXCEPT !.cidrs = Append(@, [s |-> seg[1], e |-> seg[2], a |-> a])])

ParseDstPort ==
    /\ Reading
    /\ \E p \in Ports, a \in Actions : Parsed([rules EXCEPT !.ports = Append(@, [p |-> p, a |-> a])])

ParseDomain ==
    /\ Reading
    /\ \E d \in RuleNames, a \in Actions, kind \in {"full", "suffix", "keyword"} :
         Parsed([rules EXCEPT ![kind] = Append(@, [d |-> d, a |-> a])])

\* A syntax error, an unknown type or action, a line that is not UTF-8.
SkipLine == Reading /\ Parsed([rules EXCEPT !.skipped = @ + 1])

-----------------------------------------------------------------------------
(* merge_cidr4 and merge_cidr6 *)

\* The elements of p taken one after the other, from nothing.
Gathered(Op(_, _), p) ==
    LET out[i \in 0..Len(p)] == IF i = 0 THEN <<>> ELSE Op(out[i - 1], p[i])
    IN out[Len(p)]

\* Sorted by start, end and place in the file.
NotAfter(r, t) == r.s < t.s \/ (r.s = t.s /\ r.e <= t.e)
Insert(segs, r) == InsertAt(segs, 1 + Cardinality({i \in DOMAIN segs : NotAfter(segs[i], r)}), r)
Sorted(cidrs) == Gathered(Insert, cidrs)

\* Mutant: a later segment of the other action is not trimmed.
AddSegmentWhole(out, r) ==
    IF out # <<>> /\ r.s <= Last(out).e /\ Last(out).a = r.a
    THEN [out EXCEPT ![Len(out)].e = MaxOf(@, r.e)]
    ELSE Append(out, r)

\* One segment after those before it: widened, trimmed, dropped or appended.
AddSegment(out, r) ==
    IF out = <<>> THEN <<r>>
    ELSE IF r.s > Last(out).e THEN Append(out, r)
    ELSE IF Last(out).a = r.a THEN [out EXCEPT ![Len(out)].e = MaxOf(@, r.e)]
    ELSE IF r.e > Last(out).e THEN Append(out, [r EXCEPT !.s = Last(out).e + 1])
    ELSE out

MergeCidr(cidrs) == Gathered(AddSegment, Sorted(cidrs))

\* build_indexes, when the file has been read; builtin_cn has no line at all.
BuildIndexes ==
    /\ ~built /\ built' = TRUE
    /\ index' = IF Len(rules.cidrs) >= Threshold THEN MergeCidr(rules.cidrs) ELSE <<>>
    /\ UNCHANGED rules

RulesNext == ParseIpCidr \/ ParseDstPort \/ ParseDomain \/ SkipLine \/ BuildIndexes

-----------------------------------------------------------------------------
(* decide *)

\* partition_point: how many segments start at or before ip.
StartedBy(segs, ip) == Cardinality({i \in DOMAIN segs : segs[i].s <= ip})

\* lookup_sorted: the last one that starts there, if ip is in it.
LookupSorted(segs, ip) ==
    LET k == StartedBy(segs, ip) IN
    IF k > 0 /\ segs[k].e >= ip THEN segs[k].a ELSE "none"

\* The linear scan: the first rule that contains ip.
FirstCidr(ip) ==
    LET k == SelectInSeq(rules.cidrs, LAMBDA r : r.s <= ip /\ ip <= r.e) IN
    IF k = 0 THEN "none" ELSE rules.cidrs[k].a

Cidr(ip) == IF Len(rules.cidrs) >= Threshold THEN LookupSorted(index, ip) ELSE FirstCidr(ip)

\* GeoTables::contains.
GeoContains(ip) ==
    LET k == Cardinality({i \in DOMAIN CnRanges : CnRanges[i][1] <= ip}) IN
    k > 0 /\ CnRanges[k][2] >= ip

PortRule(p) ==
    LET k == SelectInSeq(rules.ports, LAMBDA r : r.p = p) IN
    IF k = 0 THEN "none" ELSE rules.ports[k].a

Decide(ip, port) ==
    IF ip \in Builtin THEN "direct"
    ELSE IF PortRule(port) # "none" THEN PortRule(port)
    ELSE IF Cidr(ip) # "none" THEN Cidr(ip)
    ELSE IF GeoContains(ip) THEN "direct" ELSE "proxy"

-----------------------------------------------------------------------------
(* decide_domain *)

\* d is a suffix of h in whole labels.
LabelSuffix(d, h) == IsSuffix(d, h)

\* routing::suffix_match: from the left, label by label; an empty label ends the search.
SuffixMatch(table, h) ==
    \E i \in DOMAIN h : SubSeq(h, i, Len(h)) \in table /\ \A j \in 1..i : h[j] # ""

\* is_direct_normalized: loopback names, the whole of .cn, the tables.
BuiltInDomain(h) ==
    h \in Loopback \/ Last(h) \in {Localhost, Cn} \/ SuffixMatch(CnSuffixes, h)

Domains(list) == {list[i].d : i \in DOMAIN list}
FirstDomain(list, matching) ==
    LET k == SelectInSeq(list, LAMBDA r : r.d \in matching) IN
    IF k = 0 THEN "none" ELSE list[k].a

\* A keyword is found inside one label or across several: any run of labels here.
HasKeyword(h, d) == \E i, j \in DOMAIN h : SubSeq(h, i, j) = d

DomainRule(h) ==
    LET full == FirstDomain(rules.full, {h})
        suffix == IF "" \in Range(h) THEN "none"
                  ELSE FirstDomain(rules.suffix, {d \in Domains(rules.suffix) : LabelSuffix(d, h)})
        keyword == FirstDomain(rules.keyword, {d \in Domains(rules.keyword) : HasKeyword(h, d)})
    IN IF full # "none" THEN full ELSE IF suffix # "none" THEN suffix ELSE keyword

DecideDomain(h, port) ==
    IF Last(h) = Localhost THEN "direct"
    ELSE IF DomainRule(h) # "none" THEN DomainRule(h)
    ELSE IF PortRule(port) # "none" THEN PortRule(port)
    ELSE IF BuiltInDomain(h) THEN "direct" ELSE "proxy"

-----------------------------------------------------------------------------
\* The rules that contain ip, and whether they ask for different things.
Containing(ip) == {i \in DOMAIN rules.cidrs : rules.cidrs[i].s <= ip /\ ip <= rules.cidrs[i].e}
Overlapping(r, t) == r.s <= t.e /\ t.s <= r.e
Disagree == \E i, j \in DOMAIN rules.cidrs :
              Overlapping(rules.cidrs[i], rules.cidrs[j]) /\ rules.cidrs[i].a # rules.cidrs[j].a

\* Wherever an index is built (more rules than CIDR_BINARY_SEARCH_THRESHOLD), it answers for exactly the
\* addresses some rule contains, with what a rule that contains it says, as the scan of a short file
\* does; as long as no overlapping rules disagree it is the scan's answer.  A rule for
\* other addresses, ports or names never changes the answer for a destination: what no line
\* names keeps the built-in answer.  And a name with an empty label meets no suffix rule.
RulesSound ==
    built =>
      /\ \A ip \in Ips :
           /\ Cidr(ip) = "none" <=> Containing(ip) = {}
           /\ Cidr(ip) # "none" => \E i \in Containing(ip) : rules.cidrs[i].a = Cidr(ip)
           /\ ~Disagree => Cidr(ip) = FirstCidr(ip)
           /\ \A p \in Ports :
                Containing(ip) = {} /\ PortRule(p) = "none" =>
                  (Decide(ip, p) = "direct") = (ip \in Builtin
                     \/ \E i \in DOMAIN CnRanges : CnRanges[i][1] <= ip /\ ip <= CnRanges[i][2])
      /\ \A h \in Hosts, p \in Ports :
           /\ "" \in Range(h) /\ rules.full = <<>> /\ rules.keyword = <<>> =>
                DomainRule(h) = "none"
           /\ DomainRule(h) = "none" /\ PortRule(p) = "none" /\ Last(h) # Localhost =>
                (DecideDomain(h, p) = "direct") =
                  (\/ h \in Loopback \/ Last(h) = Cn
                   \/ \E d \in CnSuffixes : /\ IsSuffix(d, h)
                                             /\ \A j \in 1..(Len(h) - Len(d) + 1) : h[j] # "")

\* merge_cidr4 (routing_rules.rs:634-642): sorting and merging keep the order of precedence, the rule
\* that comes first wins where rules of different actions overlap, however many there are.
FirstRuleWins == built => \A ip \in Ips : Cidr(ip) = FirstCidr(ip)
=============================================================================
