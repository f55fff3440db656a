--------------------------- MODULE SiteCatalogue ---------------------------
(***************************************************************************)
(* The tables that say which tracker belongs to which site, and the        *)
(* transactions that write them: rules, sites, the IYUU catalogue and the  *)
(* trackers that syncs observe (internal/store/sites.go, iyuu.go, sync.go).*)
(***************************************************************************)
EXTENDS TrackerRules, FiniteSets, Functions

CONSTANTS
    SiteIds,        \* ids of sites: more than are ever needed
    Names,          \* names of sites; IYUU calls them slugs
    Displays,       \* display names, by their place in the alphabet
    Invalid,        \* what canonicalisation makes of an unusable pattern or row
    Canon,          \* Canon[p]: what one conversion makes of p, or Invalid
    CanonRow,       \* CanonRow[o]: what one conversion makes of an observed row, or Invalid
    Instance,       \* Instance[o]: the torrent that o was observed at
    Snapshots       \* the catalogues IYUU may answer with: site by remote id

VARIABLES
    sites,          \* sites, by id
    rules,          \* tracker_rules: a site for a pattern
    catalogue,      \* iyuu_sites: remote id, slug and last_seen_at
    trackers        \* torrent_trackers: site_id and match_type, by observation

tables == <<sites, rules, catalogue, trackers>>

\* The conversions need not be idempotent.  sanitizePathHint looks for "" and "/" before
\* it cuts at ? and #: "/?x" becomes "/", and "/" becomes "".  normalizeTrackerHost
\* removes one trailing dot.
ASSUME CanonAssumption ==
    /\ Canon \in [Patterns -> Patterns \cup {Invalid}] /\ Invalid \notin Patterns
    /\ CanonRow \in [Observations -> Observations \cup {Invalid}] /\ Invalid \notin Observations
    /\ \A o \in Observations : CanonRow[o] # Invalid => Instance[CanonRow[o]] = Instance[o]
ASSUME SiteAssumption == NoSite \notin SiteIds /\ Displays \subseteq Nat
\* What the client has validated: positive ids, and no slug twice.
ASSUME SnapshotAssumption ==
    \A snapshot \in Snapshots :
        /\ IsFiniteSet(DOMAIN snapshot) /\ DOMAIN snapshot \subseteq Nat \ {0}
        /\ \A r \in DOMAIN snapshot :
                snapshot[r] \in [slug : Names, display : Displays, base : Hosts]
        /\ \A r, q \in DOMAIN snapshot : snapshot[r].slug = snapshot[q].slug => r = q

Named(name) == {s \in DOMAIN sites : sites[s].name = name}

Reclassified == trackers' = Reclassify(sites', rules', DOMAIN trackers)

-----------------------------------------------------------------------------
(* Rules.                                                                   *)

\* UNIQUE (host_pattern, path_prefix, source): a stored pattern has one rule.  What is
\* stored is the outcome of one conversion; another would perhaps change it again.
AddRule(p, s) ==
    /\ p # Invalid
    /\ \A r \in rules : r.pattern # p
    /\ rules' = rules \cup {[pattern |-> p, site |-> s]}

RuleForKnownSite(p, name) ==
    /\ \E s \in Named(name) : AddRule(Canon[p], s)
    /\ UNCHANGED sites

NewSite(name, display) ==
    [name |-> name, display |-> display, base |-> "", source |-> "custom", remote |-> 0]

RuleForNewSite(p, name, display) ==
    /\ Named(name) = {}
    /\ \E s \in SiteIds \ DOMAIN sites :
            /\ AddRule(Canon[p], s)
            /\ sites' = [u \in DOMAIN sites \cup {s} |->
                            IF u = s THEN NewSite(name, display) ELSE sites[u]]

CreateCustomTrackerRule(p, name, display) ==
    /\ RuleForKnownSite(p, name) \/ RuleForNewSite(p, name, display)
    /\ Reclassified
    /\ UNCHANGED catalogue

DeleteCustomTrackerRule(r) ==
    /\ rules' = rules \ {r}
    /\ UNCHANGED <<sites, catalogue>>
    /\ Reclassified

-----------------------------------------------------------------------------
(* The catalogue.                                                           *)

Slugs(snapshot) == {snapshot[r].slug : r \in DOMAIN snapshot}

\* Mutant: the remote id decides before the slug does.
KeptSiteByRemote(snapshot, r) ==
    IF \E s \in DOMAIN sites : sites[s].remote = r
    THEN {s \in DOMAIN sites : sites[s].remote = r}
    ELSE {s \in Named(snapshot[r].slug) : sites[s].remote \notin DOMAIN snapshot}

\* The row a site of the snapshot keeps: that of its slug, otherwise that of its remote
\* id unless another site of the snapshot has claimed it by slug.
KeptSite(snapshot, r) ==
    IF Named(snapshot[r].slug) # {} THEN Named(snapshot[r].slug)
    ELSE {s \in DOMAIN sites : sites[s].remote = r /\ sites[s].name \notin Slugs(snapshot)}

Assignments(snapshot) ==
    {f \in [DOMAIN snapshot -> SiteIds] :
        /\ IsInjective(f)
        /\ \A r \in DOMAIN snapshot :
                IF KeptSite(snapshot, r) = {} THEN f[r] \notin DOMAIN sites
                ELSE f[r] \in KeptSite(snapshot, r)}

CatalogueSite(snapshot, r) ==
    [name |-> snapshot[r].slug, display |-> snapshot[r].display, base |-> snapshot[r].base,
     source |-> "iyuu", remote |-> r]

\* A site the snapshot does not name loses a remote id that the snapshot gives away.
Detached(snapshot, site) ==
    [site EXCEPT !.remote = IF @ \in DOMAIN snapshot THEN 0 ELSE @]

LinkSites(snapshot) ==
    \E f \in Assignments(snapshot) :
        sites' = [s \in DOMAIN sites \cup Range(f) |->
            IF s \in Range(f)
            THEN CatalogueSite(snapshot, CHOOSE r \in DOMAIN snapshot : f[r] = s)
            ELSE Detached(snapshot, sites[s])]

\* Mutant: a row of the catalogue whose slug moved to another id is kept.
CatalogueRowsById(snapshot, at) ==
    {[remote |-> r, slug |-> snapshot[r].slug, seen |-> at] : r \in DOMAIN snapshot} \cup
    {row \in catalogue : row.remote \notin DOMAIN snapshot}

\* Rows that a snapshot no longer shows stay, unless it uses their id or their slug.
CatalogueRows(snapshot, at) ==
    {[remote |-> r, slug |-> snapshot[r].slug, seen |-> at] : r \in DOMAIN snapshot} \cup
    {row \in catalogue : row.remote \notin DOMAIN snapshot /\ row.slug \notin Slugs(snapshot)}

ApplyIYUUCatalog(snapshot, at) ==
    /\ LinkSites(snapshot)
    /\ catalogue' = CatalogueRows(snapshot, at)
    /\ UNCHANGED rules
    /\ Reclassified

-----------------------------------------------------------------------------
(* Observed trackers.                                                       *)

ObservationsOf(i) == {o \in Observations : Instance[o] = i}

\* Rows are stored in their privacy-safe form; one that has none is ignored.
Safe(O) == {CanonRow[o] : o \in O} \ {Invalid}

RowsWith(i, O) == (DOMAIN trackers \ ObservationsOf(i)) \cup Safe(O)

\* Mutant: the site a sync proposes, from rules it read before, is what is stored.
StoreHints(i, O) ==
    /\ \E s \in DOMAIN sites \cup {NoSite} :
            trackers' = [o \in RowsWith(i, O) |->
                            IF o \in Safe(O) THEN [site |-> s, match |-> ""] ELSE trackers[o]]
    /\ UNCHANGED <<sites, rules, catalogue>>

\* A sync that changed a torrent replaces its trackers.  The site it proposes for each
\* stems from rules read earlier; it is overwritten before the transaction commits.
StoreTrackers(i, O) ==
    /\ trackers' = Reclassify(sites, rules, RowsWith(i, O))
    /\ UNCHANGED <<sites, rules, catalogue>>

-----------------------------------------------------------------------------
(* Starting: every stored row is converted once more, whether an older       *)
(* version wrote it or this one.                                            *)

Bucket(p) == {r \in rules : Canon[r.pattern] = p}

\* Mutant: rules that collapse to one pattern are removed though they agree.
NormalRulesCollapsing ==
    {[pattern |-> Canon[r.pattern], site |-> r.site] :
        r \in {q \in rules : Canon[q.pattern] # Invalid /\ Bucket(Canon[q.pattern]) = {q}}}

\* Rules that collapse to one pattern become one rule, if they agree on the site.
NormalRules ==
    {[pattern |-> Canon[r.pattern], site |-> r.site] :
        r \in {q \in rules : /\ Canon[q.pattern] # Invalid
                             /\ \A u \in Bucket(Canon[q.pattern]) : u.site = q.site}}

\* The rules are rewritten one by one.  When one would take the stored pattern of another
\* that is still to be rewritten, UNIQUE lets the transaction fail, depending on the
\* order of the rows: the step is possible, never forced.
NormalizePersistedTrackerData ==
    /\ rules' = NormalRules
    /\ trackers' = Reclassify(sites, rules', Safe(DOMAIN trackers))
    /\ UNCHANGED <<sites, catalogue>>
=============================================================================
