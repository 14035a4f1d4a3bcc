--------------------------- MODULE EndpointRouter ---------------------------
(***************************************************************************)
(* endpoint_router: it loads its configuration (endpoint_router_load.c),   *)
(* compiles the forwarding rules of every port into a cache keyed by       *)
(* message prefix, and then forwards messages by the cache alone           *)
(* (endpoint_router.c).  The reference for what a message should do is the *)
(* rules themselves: per rule, the first filter that matches decides.      *)
(*                                                                         *)
(* The loader is driven by YAML events; `level' is the innermost mapping   *)
(* that is open, and keys come in any order within their mapping.          *)
(***************************************************************************)
EXTENDS Integers, Sequences, FiniteSets, SequencesExt

CONSTANTS
  PortNames,       \* port names that appear in the file
  Bytes,           \* byte values
  MAX_PREFIX_LEN,
  MaxPorts, MaxRules, MaxFilters, MaxLen,  \* bounds on the file
  MaxElements,     \* bound on its ports, rules, filters and bytes together
  MaxDataLen       \* bound on message length

ASSUME RouterAssumption ==
  /\ MAX_PREFIX_LEN \in Nat \ {0}
  /\ MaxPorts \in Nat /\ MaxRules \in Nat /\ MaxFilters \in Nat
  /\ MaxLen \in Nat /\ MaxElements \in Nat /\ MaxDataLen \in Nat

ACCEPT == "accept"
REJECT == "reject"
NoEndpoint == 0    \* no endpoint; endpoints are numbered by port from 1
NoName == ""
SIZE_MAX == 1000   \* (size_t)-1: longer than any message

VARIABLES
  level,            \* "ports", "port", "rule" or "filter"
  phase,            \* "load", "endpoints", "cache", "running", "failed"
  ports,            \* router_cfg->ports_list
  port_rule_cache,  \* one entry per port compiled so far
  sent              \* the last message: [port, data, to]

routerVars == <<level, phase, ports, port_rule_cache, sent>>

Nothing == [port |-> 0, data |-> <<>>, to |-> <<>>]

RouterInit ==
  /\ level = "ports" /\ phase = "load"
  /\ ports = <<>> /\ port_rule_cache = <<>> /\ sent = Nothing

-----------------------------------------------------------------------------
(***************************************************************************)
(* The loader.  Every event applies to the last port, rule or filter.      *)
(***************************************************************************)
P == Len(ports)
R == Len(ports[P].rules)
F == Len(ports[P].rules[R].filters)

AllRules == FlattenSeq([i \in 1 .. P |-> ports[i].rules])
RuleCount == Len(AllRules)
AllFilterList == FlattenSeq([k \in 1 .. RuleCount |-> AllRules[k].filters])
FilterCount == Len(AllFilterList)
ByteCount == FoldLeft(LAMBDA n, f : n + Len(f.data), 0, AllFilterList)

\* The file may have one more element.
Room == P + RuleCount + FilterCount + ByteCount < MaxElements

process_port ==
  /\ phase = "load" /\ level = "ports" /\ P < MaxPorts /\ Room
  /\ ports' = Append(ports, [name |-> NoName, rules |-> <<>>])
  /\ level' = "port"
  /\ UNCHANGED <<phase, port_rule_cache, sent>>

process_port_name ==
  /\ phase = "load" /\ level = "port" /\ ports[P].name = NoName
  /\ \E n \in PortNames : ports' = [ports EXCEPT ![P].name = n]
  /\ UNCHANGED <<level, phase, port_rule_cache, sent>>

process_forwarding_rule_ ==
  /\ phase = "load" /\ level = "port" /\ RuleCount < MaxRules /\ Room
  /\ ports' = [ports EXCEPT ![P].rules = Append(@, [dst |-> NoName, filters |-> <<>>])]
  /\ level' = "rule"
  /\ UNCHANGED <<phase, port_rule_cache, sent>>

process_dst_port ==
  /\ phase = "load" /\ level = "rule" /\ ports[P].rules[R].dst = NoName
  /\ \E n \in PortNames : ports' = [ports EXCEPT ![P].rules[R].dst = n]
  /\ UNCHANGED <<level, phase, port_rule_cache, sent>>

\* A filter starts as REJECT with an empty prefix.
process_filter ==
  /\ phase = "load" /\ level = "rule" /\ FilterCount < MaxFilters /\ Room
  /\ ports' = [ports EXCEPT ![P].rules[R].filters =
                 Append(@, [action |-> REJECT, data |-> <<>>])]
  /\ level' = "filter"
  /\ UNCHANGED <<phase, port_rule_cache, sent>>

process_action ==
  /\ phase = "load" /\ level = "filter"
  /\ \E a \in {ACCEPT, REJECT} :
       ports' = [ports EXCEPT ![P].rules[R].filters[F].action = a]
  /\ UNCHANGED <<level, phase, port_rule_cache, sent>>

process_prefix_element ==
  /\ phase = "load" /\ level = "filter"
  /\ Len(ports[P].rules[R].filters[F].data) < MaxLen /\ Room
  /\ \E b \in Bytes :
       ports' = [ports EXCEPT ![P].rules[R].filters[F].data = Append(@, b)]
  /\ UNCHANGED <<level, phase, port_rule_cache, sent>>

\* The end of the innermost mapping.
mapping_end ==
  /\ phase = "load" /\ level # "ports"
  /\ level' = CASE level = "filter" -> "rule"
                [] level = "rule" -> "port"
                [] OTHER -> "ports"
  /\ UNCHANGED <<phase, ports, port_rule_cache, sent>>

\* dst_ports_set: the first port of that name.
DstPort(rule) ==
  LET named == {i \in 1 .. P : ports[i].name = rule.dst}
  IN IF named = {} THEN NoEndpoint ELSE CHOOSE i \in named : \A j \in named : i <= j

\* The end of the document; the file is refused when a destination is unknown.
dst_ports_set ==
  /\ phase = "load" /\ level = "ports"
  /\ phase' = IF \E i \in 1 .. P : \E k \in 1 .. Len(ports[i].rules) :
                   DstPort(ports[i].rules[k]) = NoEndpoint
              THEN "failed" ELSE "endpoints"
  /\ UNCHANGED <<level, ports, port_rule_cache, sent>>

\* A syntax error, a missing file or an unknown action.
load_error ==
  /\ phase = "load"
  /\ phase' = "failed"
  /\ UNCHANGED <<level, ports, port_rule_cache, sent>>

-----------------------------------------------------------------------------
(***************************************************************************)
(* Rules and their cache.                                                  *)
(***************************************************************************)
Matches(filter, data) ==
  \/ filter.data = <<>>
  \/ /\ Len(data) >= Len(filter.data)
     /\ SubSeq(data, 1, Len(filter.data)) = filter.data

\* process_forwarding_rule: the filter on which match_fn is called, if any.
MatchingFilter(rule, data) ==
  {i \in 1 .. Len(rule.filters) :
     /\ Matches(rule.filters[i], data)
     /\ \A j \in 1 .. (i - 1) : ~Matches(rule.filters[j], data)}

\* cache_match_process for every rule of a port, in order: a matching rule
\* adds its endpoint when the filter accepts and NoEndpoint when it rejects.
CachedEndpoints(rules, prefix) ==
  LET Entries(rule) ==
        [k \in 1 .. Cardinality(MatchingFilter(rule, prefix)) |->
           LET i == SetToSortSeq(MatchingFilter(rule, prefix), <)[k]
           IN IF rule.filters[i].action = ACCEPT THEN DstPort(rule) ELSE NoEndpoint]
  IN FoldLeft(LAMBDA list, rule : list \o Entries(rule), <<>>, rules)

\* The test for a "default accept" chain in extract_rule_prefixes.
LastFilterAccepts(rule) ==
  rule.filters # <<>> /\ Last(rule.filters).action = ACCEPT

AllFilters(rules) == UNION {ToSet(rules[k].filters) : k \in 1 .. Len(rules)}
FilterPrefixes(rules) == {f.data : f \in AllFilters(rules)} \ {<<>>}
PrefixLens(rules) == {Len(d) : d \in FilterPrefixes(rules)}

\* Mutant: prefixes of different lengths are let through.
PrefixesShort(rules) == \A n \in PrefixLens(rules) : n <= MAX_PREFIX_LEN

\* extract_rule_prefixes fails on prefixes of different or excessive length.
PrefixesValid(rules) ==
  /\ Cardinality(PrefixLens(rules)) <= 1
  /\ \A n \in PrefixLens(rules) : n <= MAX_PREFIX_LEN

\* extract_rule_prefixes and the body of the loop of router_create.
RuleCache(rules) ==
  [accept_ports |-> LET accepting == SelectSeq(rules, LastFilterAccepts)
                    IN [k \in 1 .. Len(accepting) |-> DstPort(accepting[k])],
   prefix_len |-> IF PrefixLens(rules) = {} THEN SIZE_MAX
                  ELSE CHOOSE n \in PrefixLens(rules) : TRUE,
   cached_ports |-> [d \in FilterPrefixes(rules) |-> CachedEndpoints(rules, d)]]

\* router_create_endpoints: a socket may fail to be created.
router_create_endpoints ==
  /\ phase = "endpoints"
  /\ phase' \in {"cache", "failed"}
  /\ UNCHANGED <<level, ports, port_rule_cache, sent>>

\* router_create: the next port is compiled, or the router is given up.
compile_port ==
  /\ phase = "cache" /\ Len(port_rule_cache) < P
  /\ LET rules == ports[Len(port_rule_cache) + 1].rules
     IN IF PrefixesValid(rules)
        THEN /\ port_rule_cache' = Append(port_rule_cache, RuleCache(rules))
             /\ UNCHANGED phase
        ELSE phase' = "failed" /\ UNCHANGED port_rule_cache
  /\ UNCHANGED <<level, ports, sent>>

router_attach ==
  /\ phase = "cache" /\ Len(port_rule_cache) = P
  /\ phase' = "running"
  /\ UNCHANGED <<level, ports, port_rule_cache, sent>>

\* cmph_search is exact on the prefixes it was built from; on any other key
\* it returns an arbitrary entry.
cmph_search(cache, key) ==
  IF key \in DOMAIN cache.cached_ports THEN {key} ELSE DOMAIN cache.cached_ports

\* process_buffer: where a message of port i is sent, in order.
process_buffer(i, data) ==
  LET cache == port_rule_cache[i]
      Default == cache.accept_ports
      key == SubSeq(data, 1, cache.prefix_len)
  IN IF Len(data) < cache.prefix_len THEN {Default}
     ELSE {IF found = key
           THEN SelectSeq(cache.cached_ports[found], LAMBDA e : e # NoEndpoint)
           ELSE Default : found \in cmph_search(cache, key)}

router_reader ==
  /\ phase = "running"
  /\ \E i \in 1 .. P, data \in BoundedSeq(Bytes, MaxDataLen) :
       \E to \in process_buffer(i, data) :
         sent' = [port |-> i, data |-> data, to |-> to]
  /\ UNCHANGED <<level, phase, ports, port_rule_cache>>

RouterNext ==
  \/ process_port \/ process_port_name \/ process_forwarding_rule_
  \/ process_dst_port \/ process_filter \/ process_action
  \/ process_prefix_element \/ mapping_end \/ dst_ports_set \/ load_error
  \/ router_create_endpoints \/ compile_port \/ router_attach
  \/ router_reader

RouterSpec == RouterInit /\ [][RouterNext]_routerVars

-----------------------------------------------------------------------------
(***************************************************************************)
(* Properties.                                                             *)
(***************************************************************************)

\* What the rules say: a message goes to the destination of each rule whose
\* first matching filter accepts it, in the order of the rules.
RulesSay(i, data) ==
  LET Accepting(rule) ==
        \E k \in 1 .. Len(rule.filters) :
          /\ Matches(rule.filters[k], data) /\ rule.filters[k].action = ACCEPT
          /\ \A j \in 1 .. (k - 1) : ~Matches(rule.filters[j], data)
      chosen == SelectSeq(ports[i].rules, Accepting)
  IN [k \in 1 .. Len(chosen) |-> DstPort(chosen[k])]

\* The form every configuration shipped with the product has: a rule ends in
\* its one filter without prefix.
EndsInDefault(rule) ==
  /\ rule.filters # <<>>
  /\ \A k \in 1 .. Len(rule.filters) :
       rule.filters[k].data = <<>> <=> k = Len(rule.filters)

DefaultsLast ==
  \A i \in 1 .. P : \A k \in 1 .. Len(ports[i].rules) : EndsInDefault(ports[i].rules[k])

\* The cache forwards exactly what the rules say, for a configuration whose
\* rules end in their default.
RoutesByRules ==
  (sent # Nothing /\ DefaultsLast) => sent.to = RulesSay(sent.port, sent.data)

\* The list of endpoints of a prefix, allocated for port_count entries, is
\* never overrun, provided no port has two rules for one destination.
CachedListsFit ==
  \A i \in 1 .. Len(port_rule_cache) :
    (\A k, l \in 1 .. Len(ports[i].rules) :
       ports[i].rules[k].dst = ports[i].rules[l].dst => k = l)
    => \A d \in DOMAIN port_rule_cache[i].cached_ports :
         Len(port_rule_cache[i].cached_ports[d]) <= P

\* What endpoint_router compiles from its configuration forwards by the rules
\* and stays within what it allocates.
RuleCacheIsRight == RoutesByRules /\ CachedListsFit

=============================================================================
