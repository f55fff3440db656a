--------------------------- MODULE IyuuSyncProofs ---------------------------
(***************************************************************************)
(* Proofs about IyuuSync, for any rules, sites, observations, catalogues   *)
(* and callers: every stored tracker has its site, names stay with their   *)
(* sites, the two copies of the catalogue agree, and times move on.        *)
(***************************************************************************)
EXTENDS IyuuSync, FiniteSetTheorems, WellFoundedInduction, TLAPS

Matches == {"", "exact", "custom", "registrable_domain", "keyword"}

\* The types of the tables.
TablesOK ==
    /\ DOMAIN sites \subseteq SiteIds
    /\ \A s \in DOMAIN sites :
            sites[s] \in [name : Names, display : Nat, base : Hosts \cup {""},
                          source : {"custom", "iyuu"}, remote : Nat]
    /\ rules \subseteq [pattern : Patterns, site : DOMAIN sites]
    /\ catalogue \subseteq [remote : Nat \ {0}, slug : Names, seen : Nat]
    /\ DOMAIN trackers \subseteq Observations
    /\ \A o \in DOMAIN trackers :
            trackers[o] \in [site : DOMAIN sites \cup {NoSite}, match : Matches]

ServiceOK ==
    /\ up \in BOOLEAN /\ now \in Nat /\ nextAllowedAt \in Nat /\ running \in BOOLEAN
    /\ calls \in [Callers -> [step : {"idle", "called", "asking"}, at : Nat]]
    /\ attemptAt \in Nat /\ successAt \in Nat /\ edits \in Nat
    /\ running = (\E c \in Callers : calls[c].step = "asking")
    /\ \A c, e \in Callers : calls[c].step = "asking" /\ calls[e].step = "asking" => c = e

LEMMA TypesSplit == TypeOK <=> TablesOK /\ RulesUnambiguous /\ ServiceOK
  BY DEF TypeOK, TablesOK, ServiceOK, Matches

TablesInv ==
    /\ TablesOK
    /\ RulesUnambiguous
    /\ AlwaysClassified
    /\ CatalogueLinked

\* A call that is not held back came in after the last success, because success, and
\* failure too, hold back every call that came in before.
TimesInv ==
    /\ attemptAt <= now /\ successAt <= now
    /\ \A c \in Callers : calls[c].at <= now
    /\ up /\ nextAllowedAt <= now => successAt < now
    /\ \A c \in Callers :
            /\ calls[c].step # "idle" /\ nextAllowedAt <= calls[c].at =>
                    attemptAt <= calls[c].at /\ successAt < calls[c].at
            /\ calls[c].step = "asking" => nextAllowedAt <= calls[c].at
    /\ ~up => \A c \in Callers : calls[c].step = "idle"

StaleInv ==
    /\ \A row \in catalogue : row.seen <= successAt
    /\ StaleWhenMissing

Inv == TablesInv /\ ServiceOK /\ TimesInv /\ StaleInv

-----------------------------------------------------------------------------
(* Classification.                                                          *)

\* Numbers are ordered as the intervals below them are, and finite sets are well-founded.
LEMMA Least ==
    ASSUME NEW T, T \subseteq Nat, T # {}
    PROVE  \E x \in T : \A y \in T : x <= y
  <1> DEFINE U == {1..n : n \in T}
  <1>1. \A n \in Nat : IsFiniteSet(1..n)
    BY FS_Interval
  <1>2. U \subseteq FiniteSubsetsOf(Nat) /\ U # {}
    <2>1. \A n \in T : 1..n \in SUBSET Nat /\ IsFiniteSet(1..n)
      BY <1>1
    <2>2. \A n \in T : 1..n \in FiniteSubsetsOf(Nat)
      BY <2>1 DEF FiniteSubsetsOf
    <2>3. QED
      BY <2>2
  <1>3. \E A \in U : \A B \in U : ~(<<B, A>> \in StrictSubsetOrdering(Nat))
    <2> HIDE DEF U
    <2>1. QED
      BY <1>2, FS_StrictSubsetOrderingWellFounded, WFMin
  <1>4. PICK x \in T : \A B \in U : ~(<<B, 1..x>> \in StrictSubsetOrdering(Nat))
    BY <1>3
  <1>5. ASSUME NEW y \in T, y < x PROVE FALSE
    <2>1. x \in Nat /\ y \in Nat
      OBVIOUS
    <2>2. 1..y \subseteq 1..x /\ x \in 1..x /\ x \notin 1..y
      BY <2>1, <1>5
    <2>3. <<1..y, 1..x>> \in StrictSubsetOrdering(Nat)
      BY <2>1, <2>2 DEF StrictSubsetOrdering
    <2>4. QED
      BY <2>3, <1>4
  <1>6. QED
    BY <1>5

\* There is a first rule, though nothing bounds their number.
LEMMA FirstRuleExists ==
    ASSUME NEW S, NEW R, R # {},
           \A r \in R : S[r.site].display \in Nat /\ Order[r.pattern] \in Nat
    PROVE  FirstRule(S, R) \in R
  <1>1. PICK d \in {S[r.site].display : r \in R} : \A e \in {S[r.site].display : r \in R} : d <= e
    <2>1. {S[r.site].display : r \in R} \subseteq Nat /\ {S[r.site].display : r \in R} # {}
      OBVIOUS
    <2>2. QED
      BY <2>1, Least
  <1> DEFINE Q == {r \in R : S[r.site].display = d}
  <1>2. PICK n \in {Order[r.pattern] : r \in Q} : \A m \in {Order[r.pattern] : r \in Q} : n <= m
    <2>1. {Order[r.pattern] : r \in Q} \subseteq Nat /\ {Order[r.pattern] : r \in Q} # {}
      BY <1>1
    <2>2. QED
      BY <2>1, Least
  <1>3. PICK r \in Q : Order[r.pattern] = n
    BY <1>2
  <1>4. ASSUME NEW q \in R PROVE Before(S, r, q)
    <2>1. d <= S[q.site].display /\ S[r.site].display = d /\ d \in Nat /\ S[q.site].display \in Nat
      BY <1>1
    <2>2. CASE S[q.site].display = d
      <3>1. Order[r.pattern] <= Order[q.pattern]
        BY <2>2, <1>2, <1>3
      <3>2. QED
        BY <2>1, <2>2, <3>1 DEF Before
    <2>3. CASE S[q.site].display # d
      BY <2>1, <2>3 DEF Before
    <2>4. QED
      BY <2>2, <2>3
  <1>5. \E p \in R : \A q \in R : Before(S, p, q)
    BY <1>4
  <1>6. QED
    BY <1>5 DEF FirstRule

\* Whatever the tables hold, a tracker gets a site that is there, or none.
LEMMA ClassifiedType ==
    ASSUME NEW S, \A s \in DOMAIN S : S[s].display \in Nat,
           NEW R, R \subseteq [pattern : Patterns, site : DOMAIN S], NEW o
    PROVE  Classify(S, R, o) \in [site : DOMAIN S \cup {NoSite}, match : Matches]
  <1>1. ASSUME NEW T \in SUBSET DOMAIN S, NEW m \in Matches
        PROVE  OnlySite(T, m) \in [site : DOMAIN S \cup {NoSite}, match : Matches]
    BY DEF OnlySite, Unmapped, Matches
  <1>2. ASSUME NEW h PROVE FromCatalogue(S, h) \in [site : DOMAIN S \cup {NoSite}, match : Matches]
    <2>1. /\ SameHost(S, h) \in SUBSET DOMAIN S /\ SameDomain(S, h) \in SUBSET DOMAIN S
          /\ SameKeyword(S, h) \in SUBSET DOMAIN S
      BY DEF SameHost, SameDomain, SameKeyword, Matchable
    <2>2. /\ OnlySite(SameHost(S, h), "exact") \in [site : DOMAIN S \cup {NoSite}, match : Matches]
          /\ OnlySite(SameDomain(S, h), "registrable_domain")
                \in [site : DOMAIN S \cup {NoSite}, match : Matches]
          /\ OnlySite(SameKeyword(S, h), "keyword") \in [site : DOMAIN S \cup {NoSite}, match : Matches]
      BY <1>1, <2>1 DEF Matches
    <2>3. Unmapped \in [site : DOMAIN S \cup {NoSite}, match : Matches]
      BY DEF Unmapped, Matches
    <2>4. QED
      BY <2>2, <2>3 DEF FromCatalogue
  <1> DEFINE M == {r \in R : o \in Covers[r.pattern]}
             rule == FirstRule(S, M)
  <1>3. CASE M = {}
    BY <1>2, <1>3 DEF Classify
  <1>4. CASE M # {}
    <2>1. \A r \in M : S[r.site].display \in Nat /\ Order[r.pattern] \in Nat
      BY PatternAssumption
    <2>2. rule \in M
      BY <1>4, <2>1, FirstRuleExists
    <2>3. rule.site \in DOMAIN S
      BY <2>2
    <2>4. Classify(S, R, o) = [site |-> rule.site,
                               match |-> IF rule.pattern \in Exact THEN "exact" ELSE "custom"]
      BY <1>4 DEF Classify
    <2> HIDE DEF rule
    <2>5. QED
      BY <2>3, <2>4 DEF Matches
  <1>5. QED
    BY <1>3, <1>4

LEMMA ReclassifiedRows ==
    ASSUME NEW S, \A s \in DOMAIN S : S[s].display \in Nat,
           NEW R, R \subseteq [pattern : Patterns, site : DOMAIN S], NEW rows,
           NEW T, T = Reclassify(S, R, rows)
    PROVE  /\ DOMAIN T = rows
           /\ \A o \in DOMAIN T : T[o] \in [site : DOMAIN S \cup {NoSite}, match : Matches]
           /\ T = Reclassify(S, R, DOMAIN T)
  <1>1. DOMAIN T = rows /\ \A o \in rows : T[o] = Classify(S, R, o)
    BY DEF Reclassify
  <1>2. QED
    BY <1>1, ClassifiedType

-----------------------------------------------------------------------------
(* The tables.                                                              *)

LEMMA DisplaysAreNumbers ==
    ASSUME TablesOK
    PROVE  \A s \in DOMAIN sites : sites[s].display \in Nat /\ sites[s].remote \in Nat
  BY DEF TablesOK

LEMMA TablesKept ==
    ASSUME TablesInv, UNCHANGED tables, up' => up
    PROVE  TablesInv'
  <1>1. sites' = sites /\ rules' = rules /\ catalogue' = catalogue /\ trackers' = trackers
    BY DEF tables
  <1>2. TablesOK' /\ CatalogueLinked'
    BY <1>1 DEF TablesInv, TablesOK, CatalogueLinked
  <1>3. RulesUnambiguous' /\ AlwaysClassified'
    BY <1>1 DEF TablesInv, RulesUnambiguous, AlwaysClassified
  <1>4. QED
    BY <1>2, <1>3 DEF TablesInv

\* Whoever classifies every row over the new rules and sites leaves them classified.
LEMMA ClassifiedAnew ==
    ASSUME NEW rows \in SUBSET Observations,
           \A s \in DOMAIN sites' : sites'[s].display \in Nat,
           rules' \subseteq [pattern : Patterns, site : DOMAIN sites'],
           trackers' = Reclassify(sites', rules', rows)
    PROVE  /\ AlwaysClassified'
           /\ DOMAIN trackers' \subseteq Observations
           /\ \A o \in DOMAIN trackers' :
                trackers'[o] \in [site : DOMAIN sites' \cup {NoSite}, match : Matches]
  <1>1. /\ DOMAIN trackers' = rows
        /\ \A o \in DOMAIN trackers' :
                trackers'[o] \in [site : DOMAIN sites' \cup {NoSite}, match : Matches]
        /\ trackers' = Reclassify(sites', rules', DOMAIN trackers')
    BY ReclassifiedRows
  <1>2. QED
    BY <1>1 DEF AlwaysClassified

LEMMA DeleteRuleTables ==
    ASSUME TablesInv, NEW r \in rules, DeleteCustomTrackerRule(r), up' = up
    PROVE  TablesInv'
  <1>1. /\ rules' = rules \ {r} /\ sites' = sites /\ catalogue' = catalogue
        /\ trackers' = Reclassify(sites', rules', DOMAIN trackers)
    BY DEF DeleteCustomTrackerRule, Reclassified
  <1>2. /\ \A s \in DOMAIN sites' : sites'[s].display \in Nat
        /\ rules' \subseteq [pattern : Patterns, site : DOMAIN sites']
        /\ DOMAIN trackers \in SUBSET Observations
    BY <1>1, DisplaysAreNumbers DEF TablesInv, TablesOK
  <1>3. /\ AlwaysClassified' /\ DOMAIN trackers' \subseteq Observations
        /\ \A o \in DOMAIN trackers' :
                trackers'[o] \in [site : DOMAIN sites' \cup {NoSite}, match : Matches]
    BY <1>1, <1>2, ClassifiedAnew
  <1>4. TablesOK'
    BY <1>1, <1>2, <1>3 DEF TablesInv, TablesOK
  <1>5. RulesUnambiguous' /\ CatalogueLinked'
    BY <1>1 DEF TablesInv, RulesUnambiguous, CatalogueLinked
  <1>6. QED
    BY <1>3, <1>4, <1>5 DEF TablesInv

LEMMA ObserveTables ==
    ASSUME TablesInv, NEW i, NEW O \in SUBSET ObservationsOf(i), StoreTrackers(i, O), up' = up
    PROVE  TablesInv'
  <1>1. /\ rules' = rules /\ sites' = sites /\ catalogue' = catalogue
        /\ trackers' = Reclassify(sites', rules', RowsWith(i, O))
    BY DEF StoreTrackers
  <1>2. RowsWith(i, O) \in SUBSET Observations
    <2>1. O \subseteq Observations /\ DOMAIN trackers \subseteq Observations
      BY DEF ObservationsOf, TablesInv, TablesOK
    <2>2. Safe(O) \subseteq Observations
      BY <2>1, CanonAssumption DEF Safe
    <2>3. QED
      BY <2>1, <2>2 DEF RowsWith
  <1>3. /\ \A s \in DOMAIN sites' : sites'[s].display \in Nat
        /\ rules' \subseteq [pattern : Patterns, site : DOMAIN sites']
    BY <1>1, DisplaysAreNumbers DEF TablesInv, TablesOK
  <1>4. /\ AlwaysClassified' /\ DOMAIN trackers' \subseteq Observations
        /\ \A o \in DOMAIN trackers' :
                trackers'[o] \in [site : DOMAIN sites' \cup {NoSite}, match : Matches]
    BY <1>1, <1>2, <1>3, ClassifiedAnew
  <1>5. TablesOK'
    BY <1>1, <1>4 DEF TablesInv, TablesOK
  <1>6. RulesUnambiguous' /\ CatalogueLinked'
    BY <1>1 DEF TablesInv, RulesUnambiguous, CatalogueLinked
  <1>7. QED
    BY <1>4, <1>5, <1>6 DEF TablesInv

LEMMA StartTables ==
    ASSUME TablesInv, NormalizePersistedTrackerData
    PROVE  TablesInv'
  <1>1. /\ rules' = NormalRules /\ sites' = sites /\ catalogue' = catalogue
        /\ trackers' = Reclassify(sites', rules', Safe(DOMAIN trackers))
    BY DEF NormalizePersistedTrackerData
  <1>2. Safe(DOMAIN trackers) \in SUBSET Observations
    <2>1. DOMAIN trackers \subseteq Observations
      BY DEF TablesInv, TablesOK
    <2>2. QED
      BY <2>1, CanonAssumption DEF Safe
  <1>3. ASSUME NEW r \in rules'
        PROVE  \E q \in rules : /\ r = [pattern |-> Canon[q.pattern], site |-> q.site]
                                /\ Canon[q.pattern] \in Patterns /\ q.site \in DOMAIN sites
                                /\ \A u \in Bucket(r.pattern) : u.site = r.site
    <2>1. PICK q \in rules : /\ Canon[q.pattern] # Invalid
                             /\ \A u \in Bucket(Canon[q.pattern]) : u.site = q.site
                             /\ r = [pattern |-> Canon[q.pattern], site |-> q.site]
      BY <1>1, <1>3 DEF NormalRules
    <2>2. q.pattern \in Patterns /\ q.site \in DOMAIN sites
      BY DEF TablesInv, TablesOK
    <2>3. Canon[q.pattern] \in Patterns
      BY <2>1, <2>2, CanonAssumption
    <2>4. QED
      BY <2>1, <2>2, <2>3
  <1>4. rules' \subseteq [pattern : Patterns, site : DOMAIN sites']
    <2> SUFFICES ASSUME NEW r \in rules' PROVE r \in [pattern : Patterns, site : DOMAIN sites]
      BY <1>1
    <2>1. PICK q \in rules : /\ r = [pattern |-> Canon[q.pattern], site |-> q.site]
                             /\ Canon[q.pattern] \in Patterns /\ q.site \in DOMAIN sites
      BY <1>3
    <2>2. QED
      BY <2>1
  <1>5. \A s \in DOMAIN sites' : sites'[s].display \in Nat
    BY <1>1, DisplaysAreNumbers DEF TablesInv
  <1>6. /\ AlwaysClassified' /\ DOMAIN trackers' \subseteq Observations
        /\ \A o \in DOMAIN trackers' :
                trackers'[o] \in [site : DOMAIN sites' \cup {NoSite}, match : Matches]
    BY <1>1, <1>2, <1>4, <1>5, ClassifiedAnew
  <1>7. TablesOK'
    BY <1>1, <1>4, <1>6 DEF TablesInv, TablesOK
  <1>8. RulesUnambiguous'
    <2> SUFFICES ASSUME NEW r \in rules', NEW q \in rules', r.pattern = q.pattern
                 PROVE  r = q
      BY DEF RulesUnambiguous
    <2>1. PICK v \in rules : r = [pattern |-> Canon[v.pattern], site |-> v.site]
      BY <1>3
    <2>2. PICK w \in rules : /\ q = [pattern |-> Canon[w.pattern], site |-> w.site]
                             /\ \A u \in Bucket(q.pattern) : u.site = q.site
      BY <1>3
    <2>3. r.pattern = Canon[v.pattern] /\ r.site = v.site
      BY <2>1
    <2>4. v \in Bucket(q.pattern)
      BY <2>3 DEF Bucket
    <2>5. r.site = q.site
      BY <2>2, <2>3, <2>4
    <2>6. QED
      BY <2>1, <2>2, <2>5
  <1>9. CatalogueLinked'
    BY <1>1 DEF TablesInv, CatalogueLinked
  <1>10. QED
    BY <1>6, <1>7, <1>8, <1>9 DEF TablesInv

\* A rule for a site, over sites that have only grown.
LEMMA RuleAdded ==
    ASSUME TablesInv, up' = up, NEW p \in Patterns, NEW s \in DOMAIN sites', AddRule(Canon[p], s),
           DOMAIN sites \subseteq DOMAIN sites', DOMAIN sites' \subseteq SiteIds,
           \A u \in DOMAIN sites' :
                sites'[u] \in [name : Names, display : Nat, base : Hosts \cup {""},
                               source : {"custom", "iyuu"}, remote : Nat],
           catalogue' = catalogue, CatalogueLinked', Reclassified
    PROVE  TablesInv'
  <1> DEFINE new == [pattern |-> Canon[p], site |-> s]
  <1>1. /\ Canon[p] # Invalid /\ (\A r \in rules : r.pattern # Canon[p])
        /\ rules' = rules \cup {new}
        /\ trackers' = Reclassify(sites', rules', DOMAIN trackers)
    BY DEF AddRule, Reclassified
  <1>2. Canon[p] \in Patterns
    BY <1>1, CanonAssumption
  <1>3. rules' \subseteq [pattern : Patterns, site : DOMAIN sites']
    <2>1. new \in [pattern : Patterns, site : DOMAIN sites']
      BY <1>2
    <2>2. rules \subseteq [pattern : Patterns, site : DOMAIN sites']
      BY DEF TablesInv, TablesOK
    <2> HIDE DEF new
    <2>3. QED
      BY <2>1, <2>2, <1>1
  <1>4. /\ \A u \in DOMAIN sites' : sites'[u].display \in Nat
        /\ DOMAIN trackers \in SUBSET Observations
    BY DEF TablesInv, TablesOK
  <1>5. /\ AlwaysClassified' /\ DOMAIN trackers' \subseteq Observations
        /\ \A o \in DOMAIN trackers' :
                trackers'[o] \in [site : DOMAIN sites' \cup {NoSite}, match : Matches]
    BY <1>1, <1>3, <1>4, ClassifiedAnew
  <1>6. TablesOK'
    BY <1>3, <1>5 DEF TablesInv, TablesOK
  <1>7. RulesUnambiguous'
    <2> SUFFICES ASSUME up, NEW r \in rules', NEW q \in rules', r.pattern = q.pattern
                 PROVE  r = q
      BY DEF RulesUnambiguous
    <2>1. CASE r \in rules /\ q \in rules
      BY <2>1 DEF TablesInv, RulesUnambiguous
    <2>2. CASE r \notin rules \/ q \notin rules
      <3>1. new.pattern = Canon[p]
        OBVIOUS
      <3> HIDE DEF new
      <3>2. QED
        BY <2>2, <3>1, <1>1
    <2>3. QED
      BY <2>1, <2>2
  <1>8. QED
    BY <1>5, <1>6, <1>7 DEF TablesInv

LEMMA CreateRuleTables ==
    ASSUME TablesInv, up' = up, NEW p \in Patterns, NEW name \in Names, NEW display \in Displays,
           CreateCustomTrackerRule(p, name, display)
    PROVE  TablesInv'
  <1>1. catalogue' = catalogue /\ Reclassified
    BY DEF CreateCustomTrackerRule
  <1>2. TablesOK /\ CatalogueLinked
    BY DEF TablesInv
  <1>3. CASE RuleForKnownSite(p, name)
    <2>1. PICK s \in Named(name) : AddRule(Canon[p], s)
      BY <1>3 DEF RuleForKnownSite
    <2>2. sites' = sites
      BY <1>3 DEF RuleForKnownSite
    <2>3. s \in DOMAIN sites'
      BY <2>2 DEF Named
    <2>4. CatalogueLinked'
      BY <1>1, <1>2, <2>2 DEF CatalogueLinked
    <2>5. /\ DOMAIN sites \subseteq DOMAIN sites' /\ DOMAIN sites' \subseteq SiteIds
          /\ \A u \in DOMAIN sites' :
                sites'[u] \in [name : Names, display : Nat, base : Hosts \cup {""},
                               source : {"custom", "iyuu"}, remote : Nat]
      BY <1>2, <2>2 DEF TablesOK
    <2>6. QED
      BY <1>1, <2>1, <2>3, <2>4, <2>5, RuleAdded
  <1>4. CASE RuleForNewSite(p, name, display)
    <2> DEFINE new == NewSite(name, display)
    <2>1. PICK s \in SiteIds \ DOMAIN sites :
                /\ AddRule(Canon[p], s)
                /\ sites' = [u \in DOMAIN sites \cup {s} |-> IF u = s THEN new ELSE sites[u]]
      BY <1>4 DEF RuleForNewSite
    <2>2. \A u \in DOMAIN sites : sites[u].name # name
      BY <1>4 DEF RuleForNewSite, Named
    <2>3. /\ new \in [name : Names, display : Nat, base : Hosts \cup {""},
                      source : {"custom", "iyuu"}, remote : Nat]
          /\ new.name = name /\ new.remote = 0
      BY SiteAssumption DEF NewSite
    <2> HIDE DEF new
    <2>4. /\ DOMAIN sites' = DOMAIN sites \cup {s} /\ sites'[s] = new
          /\ \A u \in DOMAIN sites : sites'[u] = sites[u]
      BY <2>1
    <2>5. /\ DOMAIN sites \subseteq DOMAIN sites' /\ DOMAIN sites' \subseteq SiteIds
          /\ \A u \in DOMAIN sites' :
                sites'[u] \in [name : Names, display : Nat, base : Hosts \cup {""},
                               source : {"custom", "iyuu"}, remote : Nat]
      BY <1>2, <2>1, <2>3, <2>4 DEF TablesOK
    <2>6. CatalogueLinked'
      <3>1. \A row \in catalogue' :
                \E u \in DOMAIN sites' : sites'[u].remote = row.remote /\ sites'[u].name = row.slug
        <4> SUFFICES ASSUME NEW row \in catalogue
                     PROVE  \E u \in DOMAIN sites' :
                                sites'[u].remote = row.remote /\ sites'[u].name = row.slug
          BY <1>1
        <4>1. PICK u \in DOMAIN sites : sites[u].remote = row.remote /\ sites[u].name = row.slug
          BY <1>2 DEF CatalogueLinked
        <4>2. u \in DOMAIN sites' /\ sites'[u] = sites[u]
          BY <2>4
        <4>3. QED
          BY <4>1, <4>2
      <3>2. \A u \in DOMAIN sites' : sites'[u].remote # 0 =>
                \E row \in catalogue' : row.remote = sites'[u].remote /\ row.slug = sites'[u].name
        <4> SUFFICES ASSUME NEW u \in DOMAIN sites', sites'[u].remote # 0
                     PROVE  \E row \in catalogue :
                                row.remote = sites'[u].remote /\ row.slug = sites'[u].name
          BY <1>1
        <4>1. u \in DOMAIN sites /\ sites'[u] = sites[u]
          BY <2>3, <2>4
        <4>2. QED
          BY <4>1, <1>2 DEF CatalogueLinked
      <3>3. \A u, v \in DOMAIN sites' :
                \/ sites'[u].name = sites'[v].name
                \/ sites'[u].remote = sites'[v].remote /\ sites'[u].remote # 0
                => u = v
        <4> SUFFICES ASSUME NEW u \in DOMAIN sites', NEW v \in DOMAIN sites',
                            \/ sites'[u].name = sites'[v].name
                            \/ sites'[u].remote = sites'[v].remote /\ sites'[u].remote # 0
                     PROVE  u = v
          OBVIOUS
        <4>1. CASE u \in DOMAIN sites /\ v \in DOMAIN sites
          <5>1. sites'[u] = sites[u] /\ sites'[v] = sites[v]
            BY <4>1, <2>4
          <5>2. QED
            BY <4>1, <5>1, <1>2 DEF CatalogueLinked
        <4>2. CASE u = s \/ v = s
          BY <4>2, <2>1, <2>2, <2>3, <2>4
        <4>3. QED
          BY <4>1, <4>2, <2>4
      <3>4. QED
        BY <3>1, <3>2, <3>3 DEF CatalogueLinked
    <2>7. s \in DOMAIN sites'
      BY <2>4
    <2>8. QED
      BY <1>1, <2>1, <2>5, <2>6, <2>7, RuleAdded
  <1>5. QED
    BY <1>3, <1>4 DEF CreateCustomTrackerRule

-----------------------------------------------------------------------------
(* A catalogue is applied.                                                  *)

\* The sites that a snapshot names are those that had its slugs, those that had its
\* ids under a name it does not use, and new ones; every other site stays, and gives
\* up an id that the snapshot gives away.
LEMMA LinkedSites ==
    ASSUME TablesOK, CatalogueLinked, NEW snapshot \in Snapshots, LinkSites(snapshot)
    PROVE  \E f \in [DOMAIN snapshot -> SiteIds] :
        /\ DOMAIN sites' = DOMAIN sites \cup {f[r] : r \in DOMAIN snapshot}
        /\ \A r \in DOMAIN snapshot : sites'[f[r]] = CatalogueSite(snapshot, r)
        /\ \A s \in DOMAIN sites : (\A r \in DOMAIN snapshot : f[r] # s) =>
                /\ sites'[s] = Detached(snapshot, sites[s])
                /\ sites[s].name \notin Slugs(snapshot)
        /\ \A r \in DOMAIN snapshot, s \in DOMAIN sites :
                sites[s].name = snapshot[r].slug => f[r] = s
        /\ \A r \in DOMAIN snapshot : f[r] \in DOMAIN sites =>
                \/ sites[f[r]].name = snapshot[r].slug
                \/ (sites[f[r]].remote = r /\ sites[f[r]].name \notin Slugs(snapshot))
  <1>1. PICK f \in Assignments(snapshot) :
            sites' = [s \in DOMAIN sites \cup Range(f) |->
                        IF s \in Range(f)
                        THEN CatalogueSite(snapshot, CHOOSE r \in DOMAIN snapshot : f[r] = s)
                        ELSE Detached(snapshot, sites[s])]
    BY DEF LinkSites
  <1>2. /\ f \in [DOMAIN snapshot -> SiteIds]
        /\ \A r, q \in DOMAIN snapshot : f[r] = f[q] => r = q
        /\ \A r \in DOMAIN snapshot :
                IF KeptSite(snapshot, r) = {} THEN f[r] \notin DOMAIN sites
                ELSE f[r] \in KeptSite(snapshot, r)
    BY DEF Assignments, IsInjective
  <1>3. Range(f) = {f[r] : r \in DOMAIN snapshot}
    BY <1>2 DEF Range
  <1>4. ASSUME NEW r \in DOMAIN snapshot PROVE sites'[f[r]] = CatalogueSite(snapshot, r)
    <2>1. f[r] \in Range(f)
      BY <1>3
    <2>2. (CHOOSE q \in DOMAIN snapshot : f[q] = f[r]) = r
      BY <1>2
    <2>3. QED
      BY <1>1, <2>1, <2>2
  <1>5. ASSUME NEW r \in DOMAIN snapshot, NEW s \in DOMAIN sites, sites[s].name = snapshot[r].slug
        PROVE  f[r] = s
    <2>1. s \in Named(snapshot[r].slug) /\ Named(snapshot[r].slug) # {}
      BY <1>5 DEF Named
    <2>2. KeptSite(snapshot, r) = Named(snapshot[r].slug)
      BY <2>1 DEF KeptSite
    <2>3. f[r] \in Named(snapshot[r].slug)
      BY <2>1, <2>2, <1>2
    <2>4. f[r] \in DOMAIN sites /\ sites[f[r]].name = sites[s].name
      BY <2>3, <1>5 DEF Named
    <2>5. QED
      BY <2>4 DEF CatalogueLinked
  <1>6. ASSUME NEW s \in DOMAIN sites, \A r \in DOMAIN snapshot : f[r] # s
        PROVE  sites'[s] = Detached(snapshot, sites[s]) /\ sites[s].name \notin Slugs(snapshot)
    <2>1. s \notin Range(f)
      BY <1>3, <1>6
    <2>2. QED
      BY <2>1, <1>1, <1>5, <1>6 DEF Slugs
  <1>7. ASSUME NEW r \in DOMAIN snapshot, f[r] \in DOMAIN sites
        PROVE  \/ sites[f[r]].name = snapshot[r].slug
               \/ (sites[f[r]].remote = r /\ sites[f[r]].name \notin Slugs(snapshot))
    <2>1. f[r] \in KeptSite(snapshot, r)
      BY <1>2, <1>7
    <2>2. CASE Named(snapshot[r].slug) # {}
      <3>1. f[r] \in Named(snapshot[r].slug)
        BY <2>1, <2>2 DEF KeptSite
      <3>2. sites[f[r]].name = snapshot[r].slug
        BY <3>1 DEF Named
      <3>3. QED
        BY <3>2
    <2>3. CASE Named(snapshot[r].slug) = {}
      <3>1. f[r] \in {s \in DOMAIN sites : sites[s].remote = r /\ sites[s].name \notin Slugs(snapshot)}
        BY <2>1, <2>3 DEF KeptSite
      <3>2. QED
        BY <3>1
    <2>4. QED
      BY <2>2, <2>3
  <1>8. DOMAIN sites' = DOMAIN sites \cup {f[r] : r \in DOMAIN snapshot}
    BY <1>1, <1>3
  <1>9. QED
    BY <1>2, <1>4, <1>5, <1>6, <1>7, <1>8

LEMMA SnapshotTypes ==
    ASSUME NEW snapshot \in Snapshots, NEW r \in DOMAIN snapshot
    PROVE  /\ r \in Nat /\ r # 0
           /\ snapshot[r].slug \in Names /\ snapshot[r].display \in Nat /\ snapshot[r].base \in Hosts
           /\ CatalogueSite(snapshot, r) \in
                [name : Names, display : Nat, base : Hosts \cup {""},
                 source : {"custom", "iyuu"}, remote : Nat]
           /\ CatalogueSite(snapshot, r).name = snapshot[r].slug
           /\ CatalogueSite(snapshot, r).remote = r
  <1>1. r \in Nat \ {0} /\ snapshot[r] \in [slug : Names, display : Displays, base : Hosts]
    BY SnapshotAssumption
  <1>2. snapshot[r].slug \in Names /\ snapshot[r].display \in Nat /\ snapshot[r].base \in Hosts
    BY <1>1, SiteAssumption
  <1>3. QED
    BY <1>1, <1>2 DEF CatalogueSite

LEMMA DetachedTypes ==
    ASSUME TablesOK, NEW snapshot \in Snapshots, NEW s \in DOMAIN sites
    PROVE  /\ Detached(snapshot, sites[s]) \in
                [name : Names, display : Nat, base : Hosts \cup {""},
                 source : {"custom", "iyuu"}, remote : Nat]
           /\ Detached(snapshot, sites[s]).name = sites[s].name
           /\ Detached(snapshot, sites[s]).remote =
                IF sites[s].remote \in DOMAIN snapshot THEN 0 ELSE sites[s].remote
  <1> DEFINE remote == IF sites[s].remote \in DOMAIN snapshot THEN 0 ELSE sites[s].remote
  <1>1. sites[s] \in [name : Names, display : Nat, base : Hosts \cup {""},
                      source : {"custom", "iyuu"}, remote : Nat]
    BY DEF TablesOK
  <1>2. remote \in Nat /\ Detached(snapshot, sites[s]) = [sites[s] EXCEPT !.remote = remote]
    BY <1>1 DEF Detached
  <1> HIDE DEF remote
  <1>3. /\ Detached(snapshot, sites[s]) \in
                [name : Names, display : Nat, base : Hosts \cup {""},
                 source : {"custom", "iyuu"}, remote : Nat]
        /\ Detached(snapshot, sites[s]).name = sites[s].name
        /\ Detached(snapshot, sites[s]).remote = remote
    BY <1>1, <1>2
  <1>4. QED
    BY <1>3 DEF remote

LEMMA ApplyTables ==
    ASSUME TablesInv, up' = up, NEW snapshot \in Snapshots, NEW at \in Nat,
           ApplyIYUUCatalog(snapshot, at)
    PROVE  TablesInv'
  <1>1. /\ LinkSites(snapshot) /\ rules' = rules
        /\ catalogue' = CatalogueRows(snapshot, at)
        /\ trackers' = Reclassify(sites', rules', DOMAIN trackers)
    BY DEF ApplyIYUUCatalog, Reclassified
  <1>2. TablesOK /\ CatalogueLinked
    BY DEF TablesInv
  <1>3. PICK f \in [DOMAIN snapshot -> SiteIds] :
        /\ DOMAIN sites' = DOMAIN sites \cup {f[r] : r \in DOMAIN snapshot}
        /\ \A r \in DOMAIN snapshot : sites'[f[r]] = CatalogueSite(snapshot, r)
        /\ \A s \in DOMAIN sites : (\A r \in DOMAIN snapshot : f[r] # s) =>
                /\ sites'[s] = Detached(snapshot, sites[s])
                /\ sites[s].name \notin Slugs(snapshot)
        /\ \A r \in DOMAIN snapshot, s \in DOMAIN sites :
                sites[s].name = snapshot[r].slug => f[r] = s
        /\ \A r \in DOMAIN snapshot : f[r] \in DOMAIN sites =>
                \/ sites[f[r]].name = snapshot[r].slug
                \/ (sites[f[r]].remote = r /\ sites[f[r]].name \notin Slugs(snapshot))
    BY <1>1, <1>2, LinkedSites
  <1> DEFINE Site == [name : Names, display : Nat, base : Hosts \cup {""},
                      source : {"custom", "iyuu"}, remote : Nat]
  <1>14. ASSUME NEW r \in DOMAIN snapshot
         PROVE  /\ f[r] \in DOMAIN sites' /\ sites'[f[r]] \in Site
                /\ sites'[f[r]].name = snapshot[r].slug /\ sites'[f[r]].remote = r
                /\ r # 0 /\ [remote |-> r, slug |-> snapshot[r].slug, seen |-> at]
                                \in [remote : Nat \ {0}, slug : Names, seen : Nat]
    <2>1. f[r] \in DOMAIN sites' /\ sites'[f[r]] = CatalogueSite(snapshot, r)
      BY <1>3
    <2> HIDE DEF Site
    <2>2. /\ r \in Nat /\ r # 0 /\ snapshot[r].slug \in Names
          /\ CatalogueSite(snapshot, r) \in Site
          /\ CatalogueSite(snapshot, r).name = snapshot[r].slug
          /\ CatalogueSite(snapshot, r).remote = r
      <3>1. CatalogueSite(snapshot, r) \in
                [name : Names, display : Nat, base : Hosts \cup {""},
                 source : {"custom", "iyuu"}, remote : Nat]
        BY SnapshotTypes
      <3>2. CatalogueSite(snapshot, r) \in Site
        BY <3>1 DEF Site
      <3>3. r \in Nat /\ r # 0 /\ snapshot[r].slug \in Names
        BY SnapshotTypes
      <3>4. /\ CatalogueSite(snapshot, r).name = snapshot[r].slug
            /\ CatalogueSite(snapshot, r).remote = r
        BY DEF CatalogueSite
      <3>5. QED
        BY <3>2, <3>3, <3>4
    <2>3. [remote |-> r, slug |-> snapshot[r].slug, seen |-> at]
                \in [remote : Nat \ {0}, slug : Names, seen : Nat]
      BY <2>2
    <2>4. QED
      BY <2>1, <2>2, <2>3
  <1>15. ASSUME NEW s \in DOMAIN sites, \A r \in DOMAIN snapshot : f[r] # s
         PROVE  /\ s \in DOMAIN sites' /\ sites'[s] \in Site
                /\ sites'[s].name = sites[s].name /\ sites[s].name \notin Slugs(snapshot)
                /\ sites'[s].remote = IF sites[s].remote \in DOMAIN snapshot THEN 0 ELSE sites[s].remote
    <2>1. /\ s \in DOMAIN sites' /\ sites'[s] = Detached(snapshot, sites[s])
          /\ sites[s].name \notin Slugs(snapshot)
      BY <1>3, <1>15
    <2>2. /\ Detached(snapshot, sites[s]) \in Site
          /\ Detached(snapshot, sites[s]).name = sites[s].name
          /\ Detached(snapshot, sites[s]).remote =
                IF sites[s].remote \in DOMAIN snapshot THEN 0 ELSE sites[s].remote
      BY <1>2, DetachedTypes
    <2>3. QED
      BY <2>1, <2>2
  <1>16. \A s \in DOMAIN sites' : s \in DOMAIN sites \/ \E r \in DOMAIN snapshot : f[r] = s
    BY <1>3
  <1> HIDE DEF Site
  <1>4. ASSUME NEW s \in DOMAIN sites'
        PROVE  \/ \E r \in DOMAIN snapshot :
                    s = f[r] /\ sites'[s].name = snapshot[r].slug /\ sites'[s].remote = r
               \/ /\ s \in DOMAIN sites /\ \A r \in DOMAIN snapshot : f[r] # s
                  /\ sites'[s].name = sites[s].name /\ sites[s].name \notin Slugs(snapshot)
                  /\ sites'[s].remote = IF sites[s].remote \in DOMAIN snapshot THEN 0 ELSE sites[s].remote
    <2>1. CASE \E r \in DOMAIN snapshot : f[r] = s
      BY <2>1, <1>14
    <2>2. CASE \A r \in DOMAIN snapshot : f[r] # s
      BY <2>2, <1>4, <1>15, <1>16
    <2>3. QED
      BY <2>1, <2>2
  <1>5. /\ DOMAIN sites' \subseteq SiteIds
        /\ \A s \in DOMAIN sites' :
            sites'[s] \in [name : Names, display : Nat, base : Hosts \cup {""},
                           source : {"custom", "iyuu"}, remote : Nat]
    <2>1. DOMAIN sites' \subseteq SiteIds
      <3>1. DOMAIN sites \subseteq SiteIds /\ \A r \in DOMAIN snapshot : f[r] \in SiteIds
        BY <1>2 DEF TablesOK
      <3>2. QED
        BY <3>1, <1>16
    <2>2. ASSUME NEW s \in DOMAIN sites'
          PROVE  sites'[s] \in [name : Names, display : Nat, base : Hosts \cup {""},
                                source : {"custom", "iyuu"}, remote : Nat]
      <3>1. CASE \E r \in DOMAIN snapshot : f[r] = s
        BY <3>1, <1>14 DEF Site
      <3>2. CASE \A r \in DOMAIN snapshot : f[r] # s
        BY <2>2, <3>2, <1>15, <1>16 DEF Site
      <3>3. QED
        BY <3>1, <3>2
    <2>3. QED
      BY <2>1, <2>2
  <1>6. ASSUME NEW row \in catalogue'
        PROVE  \/ \E r \in DOMAIN snapshot : row = [remote |-> r, slug |-> snapshot[r].slug, seen |-> at]
               \/ row \in catalogue /\ row.remote \notin DOMAIN snapshot /\ row.slug \notin Slugs(snapshot)
    BY <1>1, <1>6 DEF CatalogueRows
  <1>7. catalogue' \subseteq [remote : Nat \ {0}, slug : Names, seen : Nat]
    <2> SUFFICES ASSUME NEW row \in catalogue' PROVE row \in [remote : Nat \ {0}, slug : Names, seen : Nat]
      OBVIOUS
    <2>1. CASE row \in catalogue
      BY <2>1, <1>2 DEF TablesOK
    <2>2. CASE \E r \in DOMAIN snapshot : row = [remote |-> r, slug |-> snapshot[r].slug, seen |-> at]
      BY <2>2, <1>14
    <2>3. QED
      BY <2>1, <2>2, <1>6
  <1>8. /\ \A s \in DOMAIN sites' : sites'[s].display \in Nat
        /\ rules' \subseteq [pattern : Patterns, site : DOMAIN sites']
        /\ DOMAIN trackers \in SUBSET Observations
    <2>1. DOMAIN sites \subseteq DOMAIN sites'
      BY <1>3
    <2>2. QED
      BY <2>1, <1>1, <1>2, <1>5 DEF TablesOK
  <1>9. /\ AlwaysClassified' /\ DOMAIN trackers' \subseteq Observations
        /\ \A o \in DOMAIN trackers' :
                trackers'[o] \in [site : DOMAIN sites' \cup {NoSite}, match : Matches]
    BY <1>1, <1>8, ClassifiedAnew
  <1>10. TablesOK'
    BY <1>5, <1>7, <1>8, <1>9 DEF TablesOK
  <1>11. RulesUnambiguous'
    BY <1>1 DEF TablesInv, RulesUnambiguous
  <1>12. CatalogueLinked'
    <2>1. ASSUME NEW row \in catalogue'
          PROVE  \E s \in DOMAIN sites' : sites'[s].remote = row.remote /\ sites'[s].name = row.slug
      <3>1. CASE \E r \in DOMAIN snapshot : row = [remote |-> r, slug |-> snapshot[r].slug, seen |-> at]
        <4>1. PICK r \in DOMAIN snapshot : row = [remote |-> r, slug |-> snapshot[r].slug, seen |-> at]
          BY <3>1
        <4>2. /\ f[r] \in DOMAIN sites' /\ sites'[f[r]].remote = r
              /\ sites'[f[r]].name = snapshot[r].slug
          BY <1>14
        <4>3. QED
          BY <4>1, <4>2
      <3>2. CASE /\ row \in catalogue /\ row.remote \notin DOMAIN snapshot
                 /\ row.slug \notin Slugs(snapshot)
        <4>1. PICK s \in DOMAIN sites : sites[s].remote = row.remote /\ sites[s].name = row.slug
          BY <3>2, <1>2 DEF CatalogueLinked
        <4>2. ASSUME NEW r \in DOMAIN snapshot, f[r] = s PROVE FALSE
          BY <3>2, <4>1, <4>2, <1>3 DEF Slugs
        <4>3. s \in DOMAIN sites'
          BY <4>2, <1>15
        <4>4. sites'[s].name = sites[s].name /\ sites'[s].remote = sites[s].remote
          BY <3>2, <4>1, <4>2, <1>15
        <4>5. QED
          BY <4>1, <4>3, <4>4
      <3>3. QED
        BY <3>1, <3>2, <1>6
    <2>2. ASSUME NEW s \in DOMAIN sites', sites'[s].remote # 0
          PROVE  \E row \in catalogue' : row.remote = sites'[s].remote /\ row.slug = sites'[s].name
      <3>1. CASE \E r \in DOMAIN snapshot :
                    s = f[r] /\ sites'[s].name = snapshot[r].slug /\ sites'[s].remote = r
        <4>1. PICK r \in DOMAIN snapshot : sites'[s].name = snapshot[r].slug /\ sites'[s].remote = r
          BY <3>1
        <4>2. [remote |-> r, slug |-> snapshot[r].slug, seen |-> at] \in catalogue'
          BY <1>1 DEF CatalogueRows
        <4>3. QED
          BY <4>1, <4>2
      <3>2. CASE /\ s \in DOMAIN sites /\ \A r \in DOMAIN snapshot : f[r] # s
                 /\ sites'[s].name = sites[s].name /\ sites[s].name \notin Slugs(snapshot)
                 /\ sites'[s].remote = IF sites[s].remote \in DOMAIN snapshot THEN 0 ELSE sites[s].remote
        <4>1. sites'[s].remote = sites[s].remote /\ sites[s].remote \notin DOMAIN snapshot
          BY <2>2, <3>2
        <4>2. PICK row \in catalogue : row.remote = sites[s].remote /\ row.slug = sites[s].name
          BY <2>2, <3>2, <4>1, <1>2 DEF CatalogueLinked
        <4>3. row \in catalogue'
          BY <3>2, <4>1, <4>2, <1>1 DEF CatalogueRows
        <4>4. QED
          BY <3>2, <4>1, <4>2, <4>3
      <3>3. QED
        BY <3>1, <3>2, <1>4
    <2>3. ASSUME NEW s \in DOMAIN sites', NEW u \in DOMAIN sites',
                 \/ sites'[s].name = sites'[u].name
                 \/ sites'[s].remote = sites'[u].remote /\ sites'[s].remote # 0
          PROVE  s = u
      <3> DEFINE Taken(v) == \E r \in DOMAIN snapshot :
                    v = f[r] /\ sites'[v].name = snapshot[r].slug /\ sites'[v].remote = r
                 Left(v) ==
                    /\ v \in DOMAIN sites /\ \A r \in DOMAIN snapshot : f[r] # v
                    /\ sites'[v].name = sites[v].name /\ sites[v].name \notin Slugs(snapshot)
                    /\ sites'[v].remote =
                            IF sites[v].remote \in DOMAIN snapshot THEN 0 ELSE sites[v].remote
      <3>1. CASE Taken(s) /\ Taken(u)
        BY <2>3, <3>1, SnapshotAssumption
      <3>2. CASE (Taken(s) /\ Left(u)) \/ (Left(s) /\ Taken(u))
        BY <2>3, <3>2, <1>14 DEF Slugs
      <3>3. CASE Left(s) /\ Left(u)
        BY <2>3, <3>3, <1>2 DEF CatalogueLinked
      <3>4. QED
        BY <3>1, <3>2, <3>3, <1>4
    <2>4. QED
      BY <2>1, <2>2, <2>3 DEF CatalogueLinked
  <1>13. QED
    BY <1>9, <1>10, <1>11, <1>12 DEF TablesInv

-----------------------------------------------------------------------------
(* The service.                                                             *)

Called(c) == calls[c].step # "idle"

\* A step of the service that changes no table.
LEMMA CallStep ==
    ASSUME Inv, NEW c \in Callers, Call(c)
    PROVE  Inv'
  <1>1. /\ up /\ calls[c] = Idle
        /\ calls' = [calls EXCEPT ![c] = [step |-> "called", at |-> now]]
        /\ UNCHANGED <<tables, up, now, nextAllowedAt, running, stateVars, edits>>
    BY DEF Call
  <1>2. ServiceOK /\ TimesInv /\ StaleInv /\ TablesInv
    BY DEF Inv
  <1>3. /\ calls' \in [Callers -> [step : {"idle", "called", "asking"}, at : Nat]]
        /\ calls'[c].step = "called" /\ calls'[c].at = now
        /\ \A e \in Callers : e # c => calls'[e] = calls[e]
        /\ calls[c].step = "idle"
    <2>1. /\ calls \in [Callers -> [step : {"idle", "called", "asking"}, at : Nat]]
          /\ [step |-> "called", at |-> now] \in [step : {"idle", "called", "asking"}, at : Nat]
      BY <1>2 DEF ServiceOK
    <2>2. calls[c].step = "idle"
      BY <1>1 DEF Idle
    <2>3. calls'[c] = [step |-> "called", at |-> now]
      BY <1>1, <2>1
    <2>4. QED
      BY <1>1, <2>1, <2>2, <2>3
  <1>4. ServiceOK'
    <2>1. \A e \in Callers : (calls'[e].step = "asking") = (calls[e].step = "asking")
      BY <1>3
    <2>2. running' = (\E e \in Callers : calls'[e].step = "asking")
      BY <1>1, <1>2, <2>1 DEF ServiceOK
    <2>3. \A d, e \in Callers : calls'[d].step = "asking" /\ calls'[e].step = "asking" => d = e
      BY <1>2, <2>1 DEF ServiceOK
    <2>4. /\ up' \in BOOLEAN /\ now' \in Nat /\ nextAllowedAt' \in Nat /\ running' \in BOOLEAN
          /\ attemptAt' \in Nat /\ successAt' \in Nat /\ edits' \in Nat
      BY <1>1, <1>2 DEF ServiceOK, stateVars
    <2>5. QED
      BY <1>3, <2>2, <2>3, <2>4 DEF ServiceOK
  <1>5. TimesInv'
    <2>1. /\ attemptAt' <= now' /\ successAt' <= now'
          /\ up' /\ nextAllowedAt' <= now' => successAt' < now'
          /\ up'
      BY <1>1, <1>2 DEF TimesInv, stateVars
    <2>2. ASSUME NEW e \in Callers
          PROVE  /\ calls'[e].at <= now'
                 /\ calls'[e].step # "idle" /\ nextAllowedAt' <= calls'[e].at =>
                        attemptAt' <= calls'[e].at /\ successAt' < calls'[e].at
                 /\ calls'[e].step = "asking" => nextAllowedAt' <= calls'[e].at
      <3>1. CASE e = c
        BY <3>1, <2>1, <1>1, <1>2, <1>3 DEF ServiceOK
      <3>2. CASE e # c
        BY <3>2, <1>1, <1>2, <1>3 DEF TimesInv, stateVars
      <3>3. QED
        BY <3>1, <3>2
    <2>3. QED
      BY <2>1, <2>2 DEF TimesInv
  <1>6. StaleInv'
    BY <1>1, <1>2 DEF StaleInv, StaleWhenMissing, tables, stateVars
  <1>7. TablesInv'
    BY <1>1, <1>2, TablesKept
  <1>8. QED
    BY <1>4, <1>5, <1>6, <1>7 DEF Inv

LEMMA BeginStep ==
    ASSUME Inv, NEW c \in Callers, Begin(c)
    PROVE  Inv'
  <1>1. /\ up /\ calls[c].step = "called" /\ ~running /\ calls[c].at >= nextAllowedAt
        /\ running' = TRUE
        /\ calls' = [calls EXCEPT ![c] = [step |-> "asking", at |-> calls[c].at]]
        /\ UNCHANGED <<tables, up, now, nextAllowedAt, stateVars, edits>>
    BY DEF Begin, Goes
  <1>2. ServiceOK /\ TimesInv /\ StaleInv /\ TablesInv
    BY DEF Inv
  <1>3. /\ calls[c].at \in Nat
        /\ \A e \in Callers : calls[e].step # "asking"
    BY <1>1, <1>2 DEF ServiceOK
  <1>4. /\ calls' \in [Callers -> [step : {"idle", "called", "asking"}, at : Nat]]
        /\ calls'[c].step = "asking" /\ calls'[c].at = calls[c].at
        /\ \A e \in Callers : e # c => calls'[e] = calls[e]
    BY <1>1, <1>2, <1>3 DEF ServiceOK
  <1>5. ServiceOK'
    BY <1>1, <1>2, <1>3, <1>4 DEF ServiceOK, stateVars
  <1>6. TimesInv'
    <2>1. /\ attemptAt' <= now' /\ successAt' <= now'
          /\ up' /\ nextAllowedAt' <= now' => successAt' < now'
          /\ up'
      BY <1>1, <1>2 DEF TimesInv, stateVars
    <2>2. ASSUME NEW e \in Callers
          PROVE  /\ calls'[e].at <= now'
                 /\ calls'[e].step # "idle" /\ nextAllowedAt' <= calls'[e].at =>
                        attemptAt' <= calls'[e].at /\ successAt' < calls'[e].at
                 /\ calls'[e].step = "asking" => nextAllowedAt' <= calls'[e].at
      <3>1. calls'[e].at = calls[e].at
        BY <1>4
      <3>2. calls'[e].step # "idle" => calls[e].step # "idle"
        BY <1>1, <1>4
      <3>3. calls'[e].step = "asking" => nextAllowedAt' <= calls'[e].at
        BY <1>1, <1>2, <1>3, <1>4 DEF ServiceOK
      <3>4. QED
        BY <3>1, <3>2, <3>3, <1>1, <1>2 DEF TimesInv, stateVars
    <2>3. QED
      BY <2>1, <2>2 DEF TimesInv
  <1>7. StaleInv'
    BY <1>1, <1>2 DEF StaleInv, StaleWhenMissing, tables, stateVars
  <1>8. TablesInv'
    BY <1>1, <1>2, TablesKept
  <1>9. QED
    BY <1>5, <1>6, <1>7, <1>8 DEF Inv

LEMMA Leaves ==
    ASSUME ServiceOK, NEW c \in Callers, calls' = [calls EXCEPT ![c] = Idle]
    PROVE  /\ calls' \in [Callers -> [step : {"idle", "called", "asking"}, at : Nat]]
           /\ calls'[c].step = "idle" /\ calls'[c].at = 0
           /\ \A e \in Callers : e # c => calls'[e] = calls[e]
           /\ \A e \in Callers : calls'[e].step # "idle" =>
                e # c /\ calls'[e] = calls[e] /\ calls[e].step # "idle"
  <1>1. calls \in [Callers -> [step : {"idle", "called", "asking"}, at : Nat]]
    BY DEF ServiceOK
  <1>2. /\ Idle \in [step : {"idle", "called", "asking"}, at : Nat]
        /\ Idle.step = "idle" /\ Idle.at = 0
    BY DEF Idle
  <1>3. calls'[c] = Idle /\ \A e \in Callers : e # c => calls'[e] = calls[e]
    BY <1>1
  <1>4. calls' \in [Callers -> [step : {"idle", "called", "asking"}, at : Nat]]
    BY <1>1, <1>2
  <1>5. ASSUME NEW e \in Callers, calls'[e].step # "idle"
        PROVE  e # c /\ calls'[e] = calls[e] /\ calls[e].step # "idle"
    BY <1>2, <1>3, <1>5
  <1>6. QED
    BY <1>2, <1>3, <1>4, <1>5

\* Once the call that asks has ended, nobody asks.
LEMMA EndOK ==
    ASSUME ServiceOK, NEW c \in Callers, calls[c].step = "asking", End(c),
           up' = up, now' = now, edits' = edits,
           nextAllowedAt' \in Nat, attemptAt' \in Nat, successAt' \in Nat
    PROVE  /\ ServiceOK'
           /\ \A e \in Callers : /\ calls'[e].step # "asking"
                                 /\ calls'[e].at \in {0, calls[e].at}
                                 /\ calls'[e].step # "idle" =>
                                        calls'[e] = calls[e] /\ calls[e].step # "idle"
  <1>1. running' = FALSE /\ calls' = [calls EXCEPT ![c] = Idle]
    BY DEF End
  <1>2. /\ calls' \in [Callers -> [step : {"idle", "called", "asking"}, at : Nat]]
        /\ calls'[c].step = "idle" /\ calls'[c].at = 0
        /\ \A e \in Callers : e # c => calls'[e] = calls[e]
        /\ \A e \in Callers : calls'[e].step # "idle" =>
                e # c /\ calls'[e] = calls[e] /\ calls[e].step # "idle"
    BY <1>1, Leaves
  <1>3. \A e \in Callers : calls[e].step = "asking" => e = c
    BY DEF ServiceOK
  <1>4. \A e \in Callers : calls'[e].step # "asking" /\ calls'[e].at \in {0, calls[e].at}
    BY <1>2, <1>3
  <1>5. running' = (\E e \in Callers : calls'[e].step = "asking")
    BY <1>1, <1>4
  <1>6. /\ up' \in BOOLEAN /\ now' \in Nat /\ running' \in BOOLEAN /\ edits' \in Nat
    BY <1>1 DEF ServiceOK
  <1>7. ServiceOK'
    BY <1>2, <1>4, <1>5, <1>6 DEF ServiceOK
  <1>8. QED
    BY <1>2, <1>4, <1>7

LEMMA RefuseStep ==
    ASSUME Inv, NEW c \in Callers, Refuse(c)
    PROVE  Inv'
  <1>1. /\ up /\ calls[c].step = "called"
        /\ calls' = [calls EXCEPT ![c] = Idle]
        /\ UNCHANGED <<tables, up, now, nextAllowedAt, running, stateVars, edits>>
    BY DEF Refuse
  <1>2. ServiceOK /\ TimesInv /\ StaleInv /\ TablesInv
    BY DEF Inv
  <1>3. /\ calls' \in [Callers -> [step : {"idle", "called", "asking"}, at : Nat]]
        /\ calls'[c].step = "idle" /\ calls'[c].at = 0
        /\ \A e \in Callers : e # c => calls'[e] = calls[e]
        /\ \A e \in Callers : calls'[e].step # "idle" =>
                e # c /\ calls'[e] = calls[e] /\ calls[e].step # "idle"
    BY <1>1, <1>2, Leaves
  <1>4. ServiceOK'
    <2>1. \A e \in Callers : (calls'[e].step = "asking") = (calls[e].step = "asking")
      BY <1>1, <1>3
    <2>2. running' = (\E e \in Callers : calls'[e].step = "asking")
      BY <1>1, <1>2, <2>1 DEF ServiceOK
    <2>3. \A d, e \in Callers : calls'[d].step = "asking" /\ calls'[e].step = "asking" => d = e
      BY <1>2, <2>1 DEF ServiceOK
    <2>4. /\ up' \in BOOLEAN /\ now' \in Nat /\ nextAllowedAt' \in Nat /\ running' \in BOOLEAN
          /\ attemptAt' \in Nat /\ successAt' \in Nat /\ edits' \in Nat
      BY <1>1, <1>2 DEF ServiceOK, stateVars
    <2>5. QED
      BY <1>3, <2>2, <2>3, <2>4 DEF ServiceOK
  <1>5. TimesInv'
    <2>1. /\ attemptAt' <= now' /\ successAt' <= now'
          /\ up' /\ nextAllowedAt' <= now' => successAt' < now'
          /\ up' /\ now \in Nat
      BY <1>1, <1>2 DEF TimesInv, ServiceOK, stateVars
    <2>2. ASSUME NEW e \in Callers
          PROVE  /\ calls'[e].at <= now'
                 /\ calls'[e].step # "idle" /\ nextAllowedAt' <= calls'[e].at =>
                        attemptAt' <= calls'[e].at /\ successAt' < calls'[e].at
                 /\ calls'[e].step = "asking" => nextAllowedAt' <= calls'[e].at
      <3>1. CASE e = c
        BY <3>1, <2>1, <1>1, <1>3
      <3>2. CASE e # c
        BY <3>2, <1>1, <1>2, <1>3 DEF TimesInv, stateVars
      <3>3. QED
        BY <3>1, <3>2
    <2>3. QED
      BY <2>1, <2>2 DEF TimesInv
  <1>6. StaleInv'
    BY <1>1, <1>2 DEF StaleInv, StaleWhenMissing, tables, stateVars
  <1>7. TablesInv'
    BY <1>1, <1>2, TablesKept
  <1>8. QED
    BY <1>4, <1>5, <1>6, <1>7 DEF Inv

LEMMA CancelStep ==
    ASSUME Inv, NEW c \in Callers, Cancel(c)
    PROVE  Inv'
  <1>1. /\ up /\ calls[c].step = "asking" /\ End(c)
        /\ UNCHANGED <<tables, up, now, nextAllowedAt, stateVars, edits>>
    BY DEF Cancel
  <1>2. ServiceOK /\ TimesInv /\ StaleInv /\ TablesInv
    BY DEF Inv
  <1>3. /\ ServiceOK'
        /\ \A e \in Callers : /\ calls'[e].step # "asking"
                              /\ calls'[e].at \in {0, calls[e].at}
                              /\ calls'[e].step # "idle" =>
                                    calls'[e] = calls[e] /\ calls[e].step # "idle"
    <2>1. nextAllowedAt' \in Nat /\ attemptAt' \in Nat /\ successAt' \in Nat
      BY <1>1, <1>2 DEF ServiceOK, stateVars
    <2>2. QED
      BY <2>1, <1>1, <1>2, EndOK
  <1>4. TimesInv'
    <2>1. /\ attemptAt' <= now' /\ successAt' <= now'
          /\ up' /\ nextAllowedAt' <= now' => successAt' < now'
          /\ up' /\ now \in Nat
      BY <1>1, <1>2 DEF TimesInv, ServiceOK, stateVars
    <2>2. ASSUME NEW e \in Callers
          PROVE  /\ calls'[e].at <= now'
                 /\ calls'[e].step # "idle" /\ nextAllowedAt' <= calls'[e].at =>
                        attemptAt' <= calls'[e].at /\ successAt' < calls'[e].at
                 /\ calls'[e].step # "asking"
      <3>1. calls'[e].at <= now'
        BY <2>1, <1>1, <1>2, <1>3 DEF TimesInv
      <3>2. QED
        BY <3>1, <1>1, <1>2, <1>3 DEF TimesInv, stateVars
    <2>3. QED
      BY <2>1, <2>2 DEF TimesInv
  <1>5. StaleInv'
    BY <1>1, <1>2 DEF StaleInv, StaleWhenMissing, tables, stateVars
  <1>6. TablesInv'
    BY <1>1, <1>2, TablesKept
  <1>7. QED
    BY <1>3, <1>4, <1>5, <1>6 DEF Inv

LEMMA FailStep ==
    ASSUME Inv, NEW c \in Callers, NEW delay \in FailureDelays, FailCall(c, delay)
    PROVE  Inv'
  <1> DEFINE at == calls[c].at
  <1>1. /\ up /\ calls[c].step = "asking" /\ End(c)
        /\ nextAllowedAt' = at + delay /\ attemptAt' \in {attemptAt, at}
        /\ UNCHANGED <<tables, up, now, successAt, latest, edits>>
    BY DEF FailCall
  <1>2. ServiceOK /\ TimesInv /\ StaleInv /\ TablesInv
    BY DEF Inv
  <1>3. /\ at \in Nat /\ delay \in Nat /\ 0 < delay /\ at <= now
        /\ attemptAt \in Nat /\ successAt \in Nat /\ now \in Nat
        /\ attemptAt <= at /\ successAt < at
    <2>1. at \in Nat /\ attemptAt \in Nat /\ successAt \in Nat /\ now \in Nat
      BY <1>2 DEF ServiceOK
    <2>2. delay \in Nat /\ 0 < delay
      BY DelayAssumption
    <2>3. nextAllowedAt <= at /\ at <= now
      BY <1>1, <1>2 DEF TimesInv
    <2>4. attemptAt <= at /\ successAt < at
      BY <1>1, <1>2, <2>3 DEF TimesInv
    <2>5. QED
      BY <2>1, <2>2, <2>3, <2>4
  <1> HIDE DEF at
  <1>4. nextAllowedAt' \in Nat /\ attemptAt' \in Nat /\ successAt' \in Nat /\ attemptAt' <= at
    BY <1>1, <1>3
  <1>5. /\ ServiceOK'
        /\ \A e \in Callers : /\ calls'[e].step # "asking"
                              /\ calls'[e].at \in {0, calls[e].at}
                              /\ calls'[e].step # "idle" =>
                                    calls'[e] = calls[e] /\ calls[e].step # "idle"
    BY <1>1, <1>2, <1>4, EndOK
  <1>6. TimesInv'
    <2>1. attemptAt' <= now' /\ successAt' <= now'
      BY <1>1, <1>3, <1>4
    <2>2. up' /\ successAt' < now'
      BY <1>1, <1>3
    <2>3. ASSUME NEW e \in Callers PROVE calls'[e].at <= now' /\ calls'[e].at \in Nat
      <3>1. calls[e].at <= now /\ calls[e].at \in Nat
        BY <1>2 DEF TimesInv, ServiceOK
      <3>2. QED
        BY <3>1, <1>1, <1>3, <1>5
    <2>4. ASSUME NEW e \in Callers, nextAllowedAt' <= calls'[e].at
          PROVE  attemptAt' <= calls'[e].at /\ successAt' < calls'[e].at
      BY <2>3, <2>4, <1>1, <1>3, <1>4
    <2>5. QED
      BY <2>1, <2>2, <2>3, <2>4, <1>5 DEF TimesInv
  <1>7. StaleInv'
    BY <1>1, <1>2 DEF StaleInv, StaleWhenMissing, tables
  <1>8. TablesInv'
    BY <1>1, <1>2, TablesKept
  <1>9. QED
    BY <1>5, <1>6, <1>7, <1>8 DEF Inv

LEMMA SucceedStep ==
    ASSUME Inv, NEW c \in Callers, NEW snapshot \in Snapshots, Succeed(c, snapshot)
    PROVE  Inv'
  <1> DEFINE at == calls[c].at
  <1>1. /\ up /\ calls[c].step = "asking" /\ End(c) /\ ApplyIYUUCatalog(snapshot, at)
        /\ attemptAt' = at /\ successAt' = at /\ nextAllowedAt' = at + SuccessDelay
        /\ latest' = {<<r, snapshot[r].slug>> : r \in DOMAIN snapshot}
        /\ UNCHANGED <<up, now, edits>>
    BY DEF Succeed
  <1>2. ServiceOK /\ TimesInv /\ StaleInv /\ TablesInv
    BY DEF Inv
  <1>3. /\ at \in Nat /\ SuccessDelay \in Nat /\ 0 < SuccessDelay /\ at <= now
        /\ successAt \in Nat /\ now \in Nat /\ successAt < at
    <2>1. at \in Nat /\ successAt \in Nat /\ now \in Nat
      BY <1>2 DEF ServiceOK
    <2>2. SuccessDelay \in Nat /\ 0 < SuccessDelay
      BY DelayAssumption
    <2>3. nextAllowedAt <= at /\ at <= now
      BY <1>1, <1>2 DEF TimesInv
    <2>4. successAt < at
      BY <1>1, <1>2, <2>3 DEF TimesInv
    <2>5. QED
      BY <2>1, <2>2, <2>3, <2>4
  <1> HIDE DEF at
  <1>4. nextAllowedAt' \in Nat /\ attemptAt' \in Nat /\ successAt' \in Nat
    BY <1>1, <1>3
  <1>5. /\ ServiceOK'
        /\ \A e \in Callers : /\ calls'[e].step # "asking"
                              /\ calls'[e].at \in {0, calls[e].at}
                              /\ calls'[e].step # "idle" =>
                                    calls'[e] = calls[e] /\ calls[e].step # "idle"
    BY <1>1, <1>2, <1>4, EndOK
  <1>6. TimesInv'
    <2>1. attemptAt' <= now' /\ successAt' <= now'
      BY <1>1, <1>3
    <2>2. up' /\ (nextAllowedAt' <= now' => successAt' < now')
      BY <1>1, <1>3
    <2>3. ASSUME NEW e \in Callers PROVE calls'[e].at <= now' /\ calls'[e].at \in Nat
      <3>1. calls[e].at <= now /\ calls[e].at \in Nat
        BY <1>2 DEF TimesInv, ServiceOK
      <3>2. QED
        BY <3>1, <1>1, <1>3, <1>5
    <2>4. ASSUME NEW e \in Callers, nextAllowedAt' <= calls'[e].at
          PROVE  attemptAt' <= calls'[e].at /\ successAt' < calls'[e].at
      BY <2>3, <2>4, <1>1, <1>3
    <2>5. QED
      BY <2>1, <2>2, <2>3, <2>4, <1>5 DEF TimesInv
  <1>7. StaleInv'
    <2> SUFFICES ASSUME NEW row \in catalogue'
                 PROVE  /\ row.seen <= successAt'
                        /\ (row.seen >= successAt') = (<<row.remote, row.slug>> \in latest')
      BY DEF StaleInv, StaleWhenMissing
    <2>1. row \in CatalogueRows(snapshot, at)
      BY <1>1 DEF ApplyIYUUCatalog
    <2>2. CASE \E r \in DOMAIN snapshot :
                    row = [remote |-> r, slug |-> snapshot[r].slug, seen |-> at]
      <3>1. PICK r \in DOMAIN snapshot :
                    row = [remote |-> r, slug |-> snapshot[r].slug, seen |-> at]
        BY <2>2
      <3>2. row.remote = r /\ row.slug = snapshot[r].slug /\ row.seen = at
        BY <3>1
      <3>3. <<row.remote, row.slug>> \in latest'
        BY <3>2, <1>1
      <3>4. row.seen <= successAt' /\ row.seen >= successAt'
        BY <3>2, <1>1, <1>3
      <3>5. QED
        BY <3>3, <3>4
    <2>3. CASE row \in catalogue /\ row.remote \notin DOMAIN snapshot
      <3>1. row.seen <= successAt /\ row.seen \in Nat
        BY <2>3, <1>2 DEF StaleInv, TablesInv, TablesOK
      <3>2. <<row.remote, row.slug>> \notin latest'
        BY <2>3, <1>1
      <3>3. row.seen <= successAt' /\ ~(row.seen >= successAt')
        BY <3>1, <1>1, <1>3
      <3>4. QED
        BY <3>2, <3>3
    <2>4. QED
      BY <2>1, <2>2, <2>3 DEF CatalogueRows
  <1>8. TablesInv'
    BY <1>1, <1>2, <1>3, ApplyTables
  <1>9. QED
    BY <1>5, <1>6, <1>7, <1>8 DEF Inv

-----------------------------------------------------------------------------
(* The process, the clock and the administrator.                            *)

\* What the other steps have in common: the service's times stay.
LEMMA ServiceKept ==
    ASSUME Inv, UNCHANGED <<up, now, serviceVars, stateVars>>, edits' \in Nat
    PROVE  ServiceOK' /\ TimesInv' /\ (catalogue' = catalogue => StaleInv')
  <1>1. /\ up' = up /\ now' = now /\ nextAllowedAt' = nextAllowedAt /\ running' = running
        /\ calls' = calls /\ attemptAt' = attemptAt /\ successAt' = successAt /\ latest' = latest
    BY DEF serviceVars, stateVars
  <1>2. ServiceOK /\ TimesInv /\ StaleInv
    BY DEF Inv
  <1>3. ServiceOK'
    BY <1>1, <1>2 DEF ServiceOK
  <1>4. TimesInv'
    BY <1>1, <1>2 DEF TimesInv
  <1>5. catalogue' = catalogue => StaleInv'
    BY <1>1, <1>2 DEF StaleInv, StaleWhenMissing
  <1>6. QED
    BY <1>3, <1>4, <1>5

LEMMA EditKeeps ==
    ASSUME Inv, Edit, catalogue' = catalogue, TablesInv'
    PROVE  Inv'
  <1>1. UNCHANGED <<up, now, serviceVars, stateVars>> /\ edits' = edits + 1
    BY DEF Edit
  <1>2. edits' \in Nat
    BY <1>1 DEF Inv, ServiceOK
  <1>3. ServiceOK' /\ TimesInv' /\ StaleInv'
    BY <1>1, <1>2, ServiceKept
  <1>4. QED
    BY <1>3 DEF Inv

LEMMA CreateRuleStep ==
    ASSUME Inv, NEW p \in Patterns, NEW name \in Names, NEW display \in Displays,
           CreateRule(p, name, display)
    PROVE  Inv'
  <1>1. CreateCustomTrackerRule(p, name, display) /\ Edit
    BY DEF CreateRule
  <1>2. up' = up /\ catalogue' = catalogue
    BY <1>1 DEF Edit, CreateCustomTrackerRule
  <1>3. TablesInv'
    BY <1>1, <1>2, CreateRuleTables DEF Inv
  <1>4. QED
    BY <1>1, <1>2, <1>3, EditKeeps

LEMMA DeleteRuleStep ==
    ASSUME Inv, NEW r \in rules, DeleteRule(r)
    PROVE  Inv'
  <1>1. DeleteCustomTrackerRule(r) /\ Edit
    BY DEF DeleteRule
  <1>2. up' = up /\ catalogue' = catalogue
    BY <1>1 DEF Edit, DeleteCustomTrackerRule
  <1>3. TablesInv'
    BY <1>1, <1>2, DeleteRuleTables DEF Inv
  <1>4. QED
    BY <1>1, <1>2, <1>3, EditKeeps

LEMMA ObserveStep ==
    ASSUME Inv, NEW i, NEW O \in SUBSET ObservationsOf(i), Observe(i, O)
    PROVE  Inv'
  <1>1. StoreTrackers(i, O) /\ Edit
    BY DEF Observe
  <1>2. up' = up /\ catalogue' = catalogue
    BY <1>1 DEF Edit, StoreTrackers
  <1>3. TablesInv'
    BY <1>1, <1>2, ObserveTables DEF Inv
  <1>4. QED
    BY <1>1, <1>2, <1>3, EditKeeps

\* What is lost with the process: the cooldown and every call.
LEMMA CrashStep ==
    ASSUME Inv, Crash
    PROVE  Inv'
  <1>1. /\ up' = FALSE /\ nextAllowedAt' = 0 /\ running' = FALSE
        /\ calls' = [e \in Callers |-> Idle]
        /\ UNCHANGED <<tables, now, stateVars, edits>>
    BY DEF Crash
  <1>2. ServiceOK /\ TimesInv /\ StaleInv /\ TablesInv
    BY DEF Inv
  <1>3. /\ calls' \in [Callers -> [step : {"idle", "called", "asking"}, at : Nat]]
        /\ \A e \in Callers : calls'[e].step = "idle" /\ calls'[e].at = 0
    BY <1>1 DEF Idle
  <1>4. ServiceOK'
    <2>1. /\ up' \in BOOLEAN /\ now' \in Nat /\ nextAllowedAt' \in Nat /\ running' \in BOOLEAN
          /\ attemptAt' \in Nat /\ successAt' \in Nat /\ edits' \in Nat
      BY <1>1, <1>2 DEF ServiceOK, stateVars
    <2>2. running' = (\E e \in Callers : calls'[e].step = "asking")
      BY <1>1, <1>3
    <2>3. QED
      BY <1>3, <2>1, <2>2 DEF ServiceOK
  <1>5. TimesInv'
    <2>1. attemptAt' <= now' /\ successAt' <= now' /\ 0 <= now' /\ ~up'
      BY <1>1, <1>2 DEF TimesInv, ServiceOK, stateVars
    <2>2. QED
      BY <2>1, <1>3 DEF TimesInv
  <1>6. StaleInv'
    BY <1>1, <1>2 DEF StaleInv, StaleWhenMissing, tables, stateVars
  <1>7. TablesInv'
    BY <1>1, <1>2, TablesKept
  <1>8. QED
    BY <1>4, <1>5, <1>6, <1>7 DEF Inv

LEMMA StartStep ==
    ASSUME Inv, Start
    PROVE  Inv'
  <1>1. /\ ~up /\ NormalizePersistedTrackerData /\ up' = TRUE /\ now' = now + 1
        /\ UNCHANGED <<serviceVars, stateVars, edits>>
    BY DEF Start
  <1>2. ServiceOK /\ TimesInv /\ StaleInv /\ TablesInv
    BY DEF Inv
  <1>3. /\ nextAllowedAt' = nextAllowedAt /\ running' = running /\ calls' = calls
        /\ attemptAt' = attemptAt /\ successAt' = successAt /\ latest' = latest /\ edits' = edits
    BY <1>1 DEF serviceVars, stateVars
  <1>4. ServiceOK'
    <2>1. now' \in Nat /\ up' \in BOOLEAN
      BY <1>1, <1>2 DEF ServiceOK
    <2>2. QED
      BY <2>1, <1>2, <1>3 DEF ServiceOK
  <1>5. TimesInv'
    <2>1. /\ now \in Nat /\ attemptAt \in Nat /\ successAt \in Nat
          /\ attemptAt <= now /\ successAt <= now
      BY <1>2 DEF ServiceOK, TimesInv
    <2>2. attemptAt' <= now' /\ successAt' < now'
      BY <2>1, <1>1, <1>3
    <2>3. ASSUME NEW e \in Callers PROVE calls'[e].at <= now' /\ calls'[e].step = "idle"
      <3>1. calls[e].at <= now /\ calls[e].at \in Nat /\ calls[e].step = "idle"
        BY <1>1, <1>2 DEF ServiceOK, TimesInv
      <3>2. QED
        BY <3>1, <2>1, <1>1, <1>3
    <2>4. successAt' <= now'
      BY <2>1, <1>1, <1>3
    <2>5. QED
      BY <2>2, <2>3, <2>4 DEF TimesInv
  <1>6. StaleInv'
    <2>1. catalogue' = catalogue
      BY <1>1 DEF NormalizePersistedTrackerData
    <2>2. QED
      BY <2>1, <1>2, <1>3 DEF StaleInv, StaleWhenMissing
  <1>7. TablesInv'
    BY <1>1, <1>2, StartTables
  <1>8. QED
    BY <1>4, <1>5, <1>6, <1>7 DEF Inv

LEMMA TickStep ==
    ASSUME Inv, Tick
    PROVE  Inv'
  <1>1. /\ up /\ now' = now + 1
        /\ UNCHANGED <<tables, up, serviceVars, stateVars, edits>>
    BY DEF Tick
  <1>2. ServiceOK /\ TimesInv /\ StaleInv /\ TablesInv
    BY DEF Inv
  <1>3. /\ nextAllowedAt' = nextAllowedAt /\ running' = running /\ calls' = calls /\ up' = up
        /\ attemptAt' = attemptAt /\ successAt' = successAt /\ latest' = latest /\ edits' = edits
    BY <1>1 DEF serviceVars, stateVars
  <1>4. ServiceOK'
    <2>1. now' \in Nat /\ up' \in BOOLEAN
      BY <1>1, <1>2 DEF ServiceOK
    <2>2. QED
      BY <2>1, <1>2, <1>3 DEF ServiceOK
  <1>5. TimesInv'
    <2>1. /\ now \in Nat /\ attemptAt \in Nat /\ successAt \in Nat
          /\ attemptAt <= now /\ successAt <= now
      BY <1>2 DEF ServiceOK, TimesInv
    <2>2. attemptAt' <= now' /\ successAt' < now'
      BY <2>1, <1>1, <1>3
    <2>3. ASSUME NEW e \in Callers
          PROVE  /\ calls'[e].at <= now'
                 /\ calls'[e].step # "idle" /\ nextAllowedAt' <= calls'[e].at =>
                        attemptAt' <= calls'[e].at /\ successAt' < calls'[e].at
                 /\ calls'[e].step = "asking" => nextAllowedAt' <= calls'[e].at
      <3>1. calls[e].at <= now /\ calls[e].at \in Nat
        BY <1>2 DEF ServiceOK, TimesInv
      <3>2. calls'[e].at <= now'
        BY <3>1, <2>1, <1>1, <1>3
      <3>3. QED
        BY <3>2, <1>2, <1>3 DEF TimesInv
    <2>4. successAt' <= now' /\ up'
      BY <2>1, <1>1, <1>3
    <2>5. QED
      BY <2>2, <2>3, <2>4 DEF TimesInv
  <1>6. StaleInv'
    BY <1>1, <1>2, <1>3 DEF StaleInv, StaleWhenMissing, tables
  <1>7. TablesInv'
    BY <1>1, <1>2, TablesKept
  <1>8. QED
    BY <1>4, <1>5, <1>6, <1>7 DEF Inv

-----------------------------------------------------------------------------
(* The invariant.                                                           *)

LEMMA InitInv == Init => Inv
  <1> SUFFICES ASSUME Init PROVE Inv
    OBVIOUS
  <1>1. PICK left \in LegacyRules : \E rows \in LegacyRows :
            /\ rules = left
            /\ trackers = [o \in rows |-> Unmapped]
            /\ \E name \in [LegacySites(left) -> Names] :
                    /\ IsInjective(name)
                    /\ sites = [s \in LegacySites(left) |-> NewSite(name[s], 1)]
    BY DEF Init
  <1>2. PICK rows \in LegacyRows :
            /\ rules = left
            /\ trackers = [o \in rows |-> Unmapped]
            /\ \E name \in [LegacySites(left) -> Names] :
                    /\ IsInjective(name)
                    /\ sites = [s \in LegacySites(left) |-> NewSite(name[s], 1)]
    BY <1>1
  <1>3. PICK name \in [LegacySites(left) -> Names] :
            /\ IsInjective(name)
            /\ sites = [s \in LegacySites(left) |-> NewSite(name[s], 1)]
    BY <1>2
  <1>4. /\ catalogue = {} /\ up = FALSE /\ now = 0 /\ nextAllowedAt = 0 /\ running = FALSE
        /\ calls = [c \in Callers |-> Idle]
        /\ attemptAt = 0 /\ successAt = 0 /\ latest = {} /\ edits = 0
    BY DEF Init
  <1>5. left \subseteq [pattern : Patterns, site : SiteIds] /\ rows \subseteq Observations
    BY LegacyAssumption
  <1>6. DOMAIN sites = LegacySites(left) /\ DOMAIN sites \subseteq SiteIds
    BY <1>3, <1>5 DEF LegacySites
  <1>7. ASSUME NEW s \in DOMAIN sites
        PROVE  /\ sites[s] \in [name : Names, display : Nat, base : Hosts \cup {""},
                                source : {"custom", "iyuu"}, remote : Nat]
               /\ sites[s].name = name[s] /\ sites[s].remote = 0
    <2> DEFINE new == NewSite(name[s], 1)
    <2>1. sites[s] = new
      BY <1>3, <1>6
    <2>2. name[s] \in Names
      BY <1>6
    <2>3. new \in [name : Names, display : Nat, base : Hosts \cup {""},
                   source : {"custom", "iyuu"}, remote : Nat]
      BY <2>2 DEF NewSite
    <2>4. new.name = name[s] /\ new.remote = 0
      BY DEF NewSite
    <2> HIDE DEF new
    <2>5. QED
      BY <2>1, <2>3, <2>4
  <1>8. rules \subseteq [pattern : Patterns, site : DOMAIN sites]
    <2> SUFFICES ASSUME NEW r \in left PROVE r \in [pattern : Patterns, site : DOMAIN sites]
      BY <1>2
    <2>1. r \in [pattern : Patterns, site : SiteIds]
      BY <1>5
    <2>2. r.site \in DOMAIN sites
      BY <1>6 DEF LegacySites
    <2>3. QED
      BY <2>1, <2>2
  <1>9. /\ DOMAIN trackers \subseteq Observations
        /\ \A o \in DOMAIN trackers : trackers[o] \in [site : DOMAIN sites \cup {NoSite}, match : Matches]
    BY <1>2, <1>5 DEF Unmapped, Matches
  <1>10. TablesOK
    BY <1>4, <1>6, <1>7, <1>8, <1>9 DEF TablesOK
  <1>11. CatalogueLinked
    <2>1. \A s, u \in LegacySites(left) : name[s] = name[u] => s = u
      BY <1>3 DEF IsInjective
    <2>2. ASSUME NEW s \in DOMAIN sites, NEW u \in DOMAIN sites, sites[s].name = sites[u].name
          PROVE  s = u
      <3>1. s \in LegacySites(left) /\ u \in LegacySites(left)
        BY <1>6
      <3>2. name[s] = name[u]
        BY <2>2, <1>7
      <3>3. QED
        BY <3>1, <3>2, <2>1
    <2>3. QED
      BY <2>2, <1>4, <1>7 DEF CatalogueLinked
  <1>12. RulesUnambiguous /\ AlwaysClassified
    BY <1>4 DEF RulesUnambiguous, AlwaysClassified
  <1>13. TablesInv
    BY <1>10, <1>11, <1>12 DEF TablesInv
  <1>14. ServiceOK
    BY <1>4 DEF ServiceOK, Idle
  <1>15. TimesInv
    BY <1>4 DEF TimesInv, Idle
  <1>16. StaleInv
    BY <1>4 DEF StaleInv, StaleWhenMissing
  <1>17. QED
    BY <1>13, <1>14, <1>15, <1>16 DEF Inv

LEMMA StutterInv == Inv /\ UNCHANGED vars => Inv'
  <1> SUFFICES ASSUME Inv, UNCHANGED vars PROVE Inv'
    OBVIOUS
  <1>1. UNCHANGED <<up, now, serviceVars, stateVars>> /\ edits' = edits /\ UNCHANGED tables
    BY DEF vars
  <1>2. edits' \in Nat /\ up' = up /\ catalogue' = catalogue
    BY <1>1 DEF Inv, ServiceOK, tables
  <1>3. TablesInv'
    BY <1>1, <1>2, TablesKept DEF Inv
  <1>4. ServiceOK' /\ TimesInv' /\ StaleInv'
    BY <1>1, <1>2, ServiceKept
  <1>5. QED
    BY <1>3, <1>4 DEF Inv

LEMMA StepInv == Inv /\ [Next]_vars => Inv'
  <1> SUFFICES ASSUME Inv, [Next]_vars PROVE Inv'
    OBVIOUS
  <1>1. ASSUME NEW c \in Callers, Call(c) PROVE Inv'
    BY <1>1, CallStep
  <1>2. ASSUME NEW c \in Callers, Begin(c) PROVE Inv'
    BY <1>2, BeginStep
  <1>3. ASSUME NEW c \in Callers, Refuse(c) PROVE Inv'
    BY <1>3, RefuseStep
  <1>4. ASSUME NEW c \in Callers, Cancel(c) PROVE Inv'
    BY <1>4, CancelStep
  <1>5. ASSUME NEW c \in Callers, NEW snapshot \in Snapshots, Succeed(c, snapshot) PROVE Inv'
    BY <1>5, SucceedStep
  <1>6. ASSUME NEW c \in Callers, NEW delay \in FailureDelays, FailCall(c, delay) PROVE Inv'
    BY <1>6, FailStep
  <1>7. ASSUME NEW p \in Patterns, NEW name \in Names, NEW display \in Displays,
               CreateRule(p, name, display)
        PROVE  Inv'
    BY <1>7, CreateRuleStep
  <1>8. ASSUME NEW r \in rules, DeleteRule(r) PROVE Inv'
    BY <1>8, DeleteRuleStep
  <1>9. ASSUME NEW i, NEW O \in SUBSET ObservationsOf(i), Observe(i, O) PROVE Inv'
    BY <1>9, ObserveStep
  <1>10. CASE Crash
    BY <1>10, CrashStep
  <1>11. CASE Start
    BY <1>11, StartStep
  <1>12. CASE Tick
    BY <1>12, TickStep
  <1>13. CASE UNCHANGED vars
    BY <1>13, StutterInv
  <1>14. QED
    BY <1>1, <1>2, <1>3, <1>4, <1>5, <1>6, <1>7, <1>8, <1>9, <1>10, <1>11, <1>12, <1>13 DEF Next

\* The inductive invariant holds whatever is edited, fetched, observed or interrupted.
THEOREM Invariance == Spec => []Inv
  BY InitInv, StepInv, PTL DEF Spec

\* The stored state has its types, and one call asks at a time (Service.begin).
THEOREM Types == Spec => []TypeOK
  <1>1. Inv => TypeOK
    BY TypesSplit DEF Inv, TablesInv
  <1>2. QED
    BY <1>1, Invariance, PTL

\* Every tracker has the site that rules and sites give it while requests are served
\* (reclassifyTorrentTrackers at the end of every transaction that could change it).
THEOREM Classified == Spec => []AlwaysClassified
  <1>1. Inv => AlwaysClassified
    BY DEF Inv, TablesInv
  <1>2. QED
    BY <1>1, Invariance, PTL

\* sites and iyuu_sites stay two copies of one catalogue (resolveIYUUApplicationSiteIDs).
THEOREM Linked == Spec => []CatalogueLinked
  <1>1. Inv => CatalogueLinked
    BY DEF Inv, TablesInv
  <1>2. QED
    BY <1>1, Invariance, PTL

\* A row is stale exactly when the last applied catalogue lacked it (ListIYUUSites).
THEOREM Stale == Spec => []StaleWhenMissing
  <1>1. Inv => StaleWhenMissing
    BY DEF Inv, StaleInv
  <1>2. QED
    BY <1>1, Invariance, PTL

-----------------------------------------------------------------------------
(* What a step never does.                                                  *)

LEMMA StepMovesOn ==
    ASSUME Inv, [Next]_vars
    PROVE  attemptAt <= attemptAt' /\ successAt <= successAt'
  <1>1. ServiceOK /\ TimesInv /\ attemptAt \in Nat /\ successAt \in Nat
    BY DEF Inv, ServiceOK
  <1>2. CASE UNCHANGED stateVars
    <2>1. attemptAt' = attemptAt /\ successAt' = successAt
      BY <1>2 DEF stateVars
    <2>2. QED
      BY <2>1, <1>1
  <1>3. ASSUME NEW c \in Callers, calls[c].step = "asking"
        PROVE  attemptAt <= calls[c].at /\ successAt < calls[c].at /\ calls[c].at \in Nat
    <2>1. nextAllowedAt <= calls[c].at
      BY <1>1, <1>3 DEF TimesInv
    <2>2. QED
      BY <2>1, <1>1, <1>3 DEF TimesInv, ServiceOK
  <1>4. ASSUME NEW c \in Callers, NEW snapshot \in Snapshots, Succeed(c, snapshot)
        PROVE  attemptAt <= attemptAt' /\ successAt <= successAt'
    <2>1. calls[c].step = "asking" /\ attemptAt' = calls[c].at /\ successAt' = calls[c].at
      BY <1>4 DEF Succeed
    <2>2. QED
      BY <2>1, <1>1, <1>3
  <1>5. ASSUME NEW c \in Callers, NEW delay \in FailureDelays, FailCall(c, delay)
        PROVE  attemptAt <= attemptAt' /\ successAt <= successAt'
    <2>1. calls[c].step = "asking" /\ attemptAt' \in {attemptAt, calls[c].at} /\ successAt' = successAt
      BY <1>5 DEF FailCall
    <2>2. QED
      BY <2>1, <1>1, <1>3
  <1>6. ASSUME NEW c \in Callers, Call(c) \/ Begin(c) \/ Refuse(c) \/ Cancel(c)
        PROVE  UNCHANGED stateVars
    BY <1>6 DEF Call, Begin, Refuse, Cancel
  <1>7. ASSUME NEW p \in Patterns, NEW name \in Names, NEW display \in Displays,
               CreateRule(p, name, display)
        PROVE  UNCHANGED stateVars
    BY <1>7 DEF CreateRule, Edit
  <1>8. ASSUME NEW r \in rules, DeleteRule(r) PROVE UNCHANGED stateVars
    BY <1>8 DEF DeleteRule, Edit
  <1>9. ASSUME NEW i, NEW O, Observe(i, O) PROVE UNCHANGED stateVars
    BY <1>9 DEF Observe, Edit
  <1>10. CASE Crash \/ Start \/ Tick
    BY <1>10, <1>2 DEF Crash, Start, Tick
  <1>11. CASE UNCHANGED vars
    BY <1>11, <1>2 DEF vars
  <1>12. QED
    BY <1>2, <1>4, <1>5, <1>6, <1>7, <1>8, <1>9, <1>10, <1>11 DEF Next

\* The times of attempts and successes never go back (Service.sync, begin, end).
THEOREM Monotone == Spec => TimesMoveOn
  <1>1. Inv /\ [Next]_vars => [attemptAt <= attemptAt' /\ successAt <= successAt']_vars
    BY StepMovesOn
  <1>2. QED
    BY <1>1, Invariance, PTL DEF Spec, TimesMoveOn

-----------------------------------------------------------------------------
(* Rules.                                                                   *)

LEMMA RuleStays ==
    ASSUME NEW r \in rules, r \in rules'
    PROVE  ~RuleLost(r)
  BY DEF RuleLost

\* A start keeps a rule, perhaps in another form, unless the form is invalid or contested.
LEMMA StartKeepsRule ==
    ASSUME NEW r \in rules, Start, Canon[r.pattern] # Invalid, ~Conflicting(r)
    PROVE  ~RuleLost(r)
  <1> DEFINE new == [pattern |-> Canon[r.pattern], site |-> r.site]
  <1>1. rules' = NormalRules
    BY DEF Start, NormalizePersistedTrackerData
  <1>2. \A u \in Bucket(Canon[r.pattern]) : u.site = r.site
    BY DEF Bucket, Conflicting
  <1>3. new \in rules'
    BY <1>1, <1>2 DEF NormalRules
  <1>4. new.site = r.site /\ new.pattern = Canon[r.pattern]
    OBVIOUS
  <1> HIDE DEF new
  <1>5. QED
    BY <1>3, <1>4 DEF RuleLost

LEMMA StepLosesRule ==
    ASSUME [Next]_vars, NEW r \in rules, RuleLost(r)
    PROVE  \/ DeleteRule(r)
           \/ Start /\ (Canon[r.pattern] = Invalid \/ Conflicting(r))
  <1>1. r \notin rules'
    BY RuleStays
  <1>2. ASSUME NEW c \in Callers, Call(c) \/ Begin(c) \/ Refuse(c) \/ Cancel(c)
        PROVE  rules' = rules
    BY <1>2 DEF Call, Begin, Refuse, Cancel, tables
  <1>3. ASSUME NEW c \in Callers, NEW snapshot \in Snapshots, Succeed(c, snapshot)
        PROVE  rules' = rules
    BY <1>3 DEF Succeed, ApplyIYUUCatalog
  <1>4. ASSUME NEW c \in Callers, NEW delay \in FailureDelays, FailCall(c, delay)
        PROVE  rules' = rules
    BY <1>4 DEF FailCall, tables
  <1>5. ASSUME NEW p \in Patterns, NEW name \in Names, NEW display \in Displays,
               CreateRule(p, name, display)
        PROVE  rules \subseteq rules'
    <2>1. \E s : AddRule(Canon[p], s)
      BY <1>5 DEF CreateRule, CreateCustomTrackerRule, RuleForKnownSite, RuleForNewSite
    <2>2. QED
      BY <2>1 DEF AddRule
  <1>6. ASSUME NEW q \in rules, DeleteRule(q) PROVE DeleteRule(r)
    <2>1. rules' = rules \ {q}
      BY <1>6 DEF DeleteRule, DeleteCustomTrackerRule
    <2>2. r = q
      BY <2>1, <1>1
    <2>3. QED
      BY <2>2, <1>6
  <1>7. ASSUME NEW i, NEW O, Observe(i, O) PROVE rules' = rules
    BY <1>7 DEF Observe, StoreTrackers
  <1>8. CASE Crash \/ Tick \/ UNCHANGED vars
    BY <1>8, <1>1 DEF Crash, Tick, vars, tables
  <1>9. CASE Start
    BY <1>9, StartKeepsRule
  <1>10. QED
    BY <1>1, <1>2, <1>3, <1>4, <1>5, <1>6, <1>7, <1>8, <1>9 DEF Next

\* A rule goes only when an administrator deletes it, or at a start that finds it invalid
\* or contested: no catalogue, sync, crash or repeated conversion takes it otherwise
\* (normalizePersistedTrackerRules, resolveIYUUApplicationSiteIDs).
THEOREM RulesLeave == Spec => RulesLeaveForAReason
  <1>1. [Next]_vars =>
            [\A r \in rules : RuleLost(r) =>
                \/ DeleteRule(r)
                \/ Start /\ (Canon[r.pattern] = Invalid \/ Conflicting(r))]_vars
    BY StepLosesRule
  <1>2. QED
    BY <1>1, PTL DEF Spec, RulesLeaveForAReason

-----------------------------------------------------------------------------
(* Names.                                                                   *)

LEMMA LinkKeepsNames ==
    ASSUME TablesOK, CatalogueLinked, NEW snapshot \in Snapshots, LinkSites(snapshot)
    PROVE  NamesStay
  <1> SUFFICES ASSUME NEW s \in DOMAIN sites, NEW u \in DOMAIN sites',
                      sites'[u].name = sites[s].name
               PROVE  u = s
    BY DEF NamesStay
  <1>1. PICK f \in [DOMAIN snapshot -> SiteIds] :
        /\ DOMAIN sites' = DOMAIN sites \cup {f[r] : r \in DOMAIN snapshot}
        /\ \A r \in DOMAIN snapshot : sites'[f[r]] = CatalogueSite(snapshot, r)
        /\ \A v \in DOMAIN sites : (\A r \in DOMAIN snapshot : f[r] # v) =>
                /\ sites'[v] = Detached(snapshot, sites[v])
                /\ sites[v].name \notin Slugs(snapshot)
        /\ \A r \in DOMAIN snapshot, v \in DOMAIN sites :
                sites[v].name = snapshot[r].slug => f[r] = v
    BY LinkedSites
  <1>2. CASE \E r \in DOMAIN snapshot : f[r] = u
    <2>1. PICK r \in DOMAIN snapshot : f[r] = u
      BY <1>2
    <2>2. sites'[u].name = snapshot[r].slug
      <3>1. sites'[f[r]] = CatalogueSite(snapshot, r)
        BY <1>1
      <3>2. CatalogueSite(snapshot, r).name = snapshot[r].slug
        BY DEF CatalogueSite
      <3>3. QED
        BY <2>1, <3>1, <3>2
    <2>3. QED
      BY <2>1, <2>2, <1>1
  <1>3. CASE \A r \in DOMAIN snapshot : f[r] # u
    <2>1. u \in DOMAIN sites /\ sites'[u] = Detached(snapshot, sites[u])
      BY <1>1, <1>3
    <2>2. Detached(snapshot, sites[u]).name = sites[u].name
      BY <2>1, DetachedTypes
    <2>3. sites[u].name = sites[s].name
      BY <2>1, <2>2
    <2>4. QED
      BY <2>1, <2>3 DEF CatalogueLinked
  <1>4. QED
    BY <1>2, <1>3

LEMMA SameSitesKeepNames ==
    ASSUME CatalogueLinked, sites' = sites
    PROVE  NamesStay
  BY DEF CatalogueLinked, NamesStay

LEMMA NewRuleKeepsNames ==
    ASSUME CatalogueLinked, NEW p, NEW name, NEW display, CreateCustomTrackerRule(p, name, display)
    PROVE  NamesStay
  <1>1. CASE RuleForKnownSite(p, name)
    BY <1>1, SameSitesKeepNames DEF RuleForKnownSite
  <1>2. CASE RuleForNewSite(p, name, display)
    <2>1. PICK t \in SiteIds \ DOMAIN sites :
                sites' = [v \in DOMAIN sites \cup {t} |->
                            IF v = t THEN NewSite(name, display) ELSE sites[v]]
      BY <1>2 DEF RuleForNewSite
    <2>2. \A s \in DOMAIN sites : sites[s].name # name
      BY <1>2 DEF RuleForNewSite, Named
    <2> SUFFICES ASSUME NEW s \in DOMAIN sites, NEW u \in DOMAIN sites',
                        sites'[u].name = sites[s].name
                 PROVE  u = s
      BY DEF NamesStay
    <2>3. u # t
      <3>1. NewSite(name, display).name = name
        BY DEF NewSite
      <3>2. u = t => sites'[u] = NewSite(name, display)
        BY <2>1
      <3>3. QED
        BY <3>1, <3>2, <2>2
    <2>4. u \in DOMAIN sites /\ sites'[u] = sites[u]
      BY <2>1, <2>3
    <2>5. QED
      BY <2>4 DEF CatalogueLinked
  <1>3. QED
    BY <1>1, <1>2 DEF CreateCustomTrackerRule

LEMMA StepKeepsNames ==
    ASSUME Inv, [Next]_vars
    PROVE  NamesStay
  <1>1. TablesOK /\ CatalogueLinked
    BY DEF Inv, TablesInv
  <1>2. ASSUME sites' = sites PROVE NamesStay
    BY <1>1, <1>2, SameSitesKeepNames
  <1>3. ASSUME NEW c \in Callers, NEW snapshot \in Snapshots, Succeed(c, snapshot) PROVE NamesStay
    BY <1>1, <1>3, LinkKeepsNames DEF Succeed, ApplyIYUUCatalog
  <1>4. ASSUME NEW c \in Callers, NEW delay \in FailureDelays, FailCall(c, delay) PROVE NamesStay
    BY <1>2, <1>4 DEF FailCall, tables
  <1>5. ASSUME NEW c \in Callers, Call(c) \/ Begin(c) \/ Refuse(c) \/ Cancel(c) PROVE NamesStay
    BY <1>2, <1>5 DEF Call, Begin, Refuse, Cancel, tables
  <1>6. ASSUME NEW p \in Patterns, NEW name \in Names, NEW display \in Displays,
               CreateRule(p, name, display)
        PROVE  NamesStay
    BY <1>1, <1>6, NewRuleKeepsNames DEF CreateRule
  <1>7. ASSUME NEW r \in rules, DeleteRule(r) PROVE NamesStay
    BY <1>2, <1>7 DEF DeleteRule, DeleteCustomTrackerRule
  <1>8. ASSUME NEW i, NEW O, Observe(i, O) PROVE NamesStay
    BY <1>2, <1>8 DEF Observe, StoreTrackers
  <1>9. CASE Crash \/ Start \/ Tick
    BY <1>2, <1>9 DEF Crash, Start, Tick, NormalizePersistedTrackerData, tables
  <1>10. CASE UNCHANGED vars
    BY <1>2, <1>10 DEF vars, tables
  <1>11. QED
    BY <1>3, <1>4, <1>5, <1>6, <1>7, <1>8, <1>9, <1>10 DEF Next

\* A name never passes from one site to another (resolveIYUUApplicationSiteIDs).
THEOREM NamesKept == Spec => SlugsStay
  <1>1. Inv /\ [Next]_vars => [NamesStay]_vars
    BY StepKeepsNames
  <1>2. QED
    BY <1>1, Invariance, PTL DEF Spec, SlugsStay
=============================================================================
