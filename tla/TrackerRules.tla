---------------------------- MODULE TrackerRules ----------------------------
(***************************************************************************)
(* Which site an observed tracker belongs to (internal/store/sites.go):    *)
(* the rules of the administrator first, then the IYUU catalogue by host,  *)
(* by registrable domain and by keyword.                                   *)
(*                                                                         *)
(* The text of hosts and paths is not spelled out.  An observation is one  *)
(* tracker of one torrent, reduced to a host and a path hint that carry no *)
(* credentials; a pattern is the host and path prefix of a rule.  Which    *)
(* observations a pattern covers, and what domain and keyword a host has,  *)
(* are parameters; hosts are names, not addresses.                         *)
(***************************************************************************)
EXTENDS Naturals

CONSTANTS
    Observations,   \* rows that torrent_trackers may hold
    Hosts,          \* hosts of observations and of sites
    HostOf,         \* HostOf[o]: the host of an observation
    DomainOf,       \* DomainOf[h]: eTLD+1, or NoDomain
    KeywordOf,      \* KeywordOf[x]: the letters of its first label, or NoKeyword if fewer than 3
    NoDomain,
    NoKeyword,
    Patterns,       \* host patterns with their path prefixes
    Covers,         \* Covers[p]: the observations that p matches
    Exact,          \* the patterns with neither a wildcard nor a path prefix
    Order,          \* Order[p]: the place of p by host pattern and path prefix
    NoSite

ASSUME HostAssumption ==
    /\ HostOf \in [Observations -> Hosts]
    /\ DOMAIN DomainOf = Hosts
    /\ DOMAIN KeywordOf = {DomainOf[h] : h \in Hosts} \ {NoDomain}
ASSUME PatternAssumption ==
    /\ Covers \in [Patterns -> SUBSET Observations]
    /\ Order \in [Patterns -> Nat]
    /\ \A p, q \in Patterns : Order[p] = Order[q] => p = q

Unmapped == [site |-> NoSite, match |-> ""]

\* Every rule that can be made has one priority: the display name of its site, then
\* host pattern and path prefix decide.
Before(sites, r, q) ==
    LET first == sites[r.site].display
        second == sites[q.site].display
    IN  first < second \/ (first = second /\ Order[r.pattern] <= Order[q.pattern])

FirstRule(sites, rules) == CHOOSE r \in rules : \A q \in rules : Before(sites, r, q)

\* The sites of the catalogue whose base_url has a registrable domain.
Matchable(sites) ==
    {s \in DOMAIN sites : /\ sites[s].source = "iyuu" /\ sites[s].remote # 0
                          /\ DomainOf[sites[s].base] # NoDomain}

SameHost(sites, h) == {s \in Matchable(sites) : sites[s].base = h}

SameDomain(sites, h) == {s \in Matchable(sites) : DomainOf[sites[s].base] = DomainOf[h]}

SameKeyword(sites, h) ==
    {s \in Matchable(sites) : /\ KeywordOf[DomainOf[h]] # NoKeyword
                              /\ KeywordOf[DomainOf[sites[s].base]] = KeywordOf[DomainOf[h]]}

\* A level that names several sites decides nothing, and no later level is asked.
OnlySite(S, match) ==
    IF \E s \in S : S = {s} THEN [site |-> CHOOSE s \in S : TRUE, match |-> match] ELSE Unmapped

FromCatalogue(sites, h) ==
    IF SameHost(sites, h) # {} THEN OnlySite(SameHost(sites, h), "exact")
    ELSE IF DomainOf[h] = NoDomain THEN Unmapped
    ELSE IF SameDomain(sites, h) # {} THEN OnlySite(SameDomain(sites, h), "registrable_domain")
    ELSE OnlySite(SameKeyword(sites, h), "keyword")

Classify(sites, rules, o) ==
    LET matching == {r \in rules : o \in Covers[r.pattern]}
        rule == FirstRule(sites, matching)
    IN  IF matching = {} THEN FromCatalogue(sites, HostOf[o])
        ELSE [site |-> rule.site, match |-> IF rule.pattern \in Exact THEN "exact" ELSE "custom"]

\* Every stored row is classified anew.
Reclassify(sites, rules, rows) == [o \in rows |-> Classify(sites, rules, o)]
=============================================================================
