----------------------------- MODULE IyuuSync -----------------------------
(***************************************************************************)
(* The catalogue and its rules while SeedGraph runs: the service that      *)
(* fetches the IYUU catalogue for the scheduler and for users, one request *)
(* at a time and with a cooldown (internal/iyuu/service.go), next to       *)
(* administrators, syncs of torrents, crashes and restarts.                *)
(***************************************************************************)
EXTENDS SiteCatalogue

CONSTANTS
    Callers,        \* calls of sync that may be under way: the schedule, users
    SuccessDelay,   \* defaultManualCooldown
    FailureDelays,  \* 5 minutes, or what the answer asks for if that is longer
    LegacyRules,    \* rules an older version may have left
    LegacyRows,     \* observed rows an older version may have left
    MaxTime,        \* bound: the clock that TLC explores
    MaxEdits        \* bound: rules made and trackers replaced that TLC explores

VARIABLES
    up,             \* whether the process runs, its startup complete
    now,            \* the clock
    nextAllowedAt,  \* Service.nextAllowedAt, 0 when unset
    running,        \* Service.running
    calls,          \* calls[c]: where a call of sync stands, and its attemptedAt
    attemptAt,      \* iyuu_sync_state.last_attempt_at
    successAt,      \* iyuu_sync_state.last_success_at
    latest,         \* history: remote ids and slugs of the last applied snapshot
    edits           \* rules made and trackers replaced so far

serviceVars == <<nextAllowedAt, running, calls>>
stateVars == <<attemptAt, successAt, latest>>
vars == <<tables, up, now, serviceVars, stateVars, edits>>

ASSUME DelayAssumption ==
    SuccessDelay \in Nat \ {0} /\ FailureDelays \subseteq Nat \ {0} /\ MaxTime \in Nat
ASSUME LegacyAssumption ==
    /\ LegacyRules \subseteq SUBSET [pattern : Patterns, site : SiteIds]
    /\ LegacyRows \subseteq SUBSET Observations

Idle == [step |-> "idle", at |-> 0]

-----------------------------------------------------------------------------
(* Service.sync.                                                            *)

\* attemptedAt is read before the lock is taken.
Call(c) ==
    /\ up /\ calls[c] = Idle
    /\ calls' = [calls EXCEPT ![c] = [step |-> "called", at |-> now]]
    /\ UNCHANGED <<tables, up, now, nextAllowedAt, running, stateVars, edits>>

Goes(c, step) == calls' = [calls EXCEPT ![c] = [step |-> step, at |-> calls[c].at]]

\* Mutant: a call that finds another one running asks as well.
BeginAnyway(c) ==
    /\ up /\ calls[c].step = "called"
    /\ calls[c].at >= nextAllowedAt
    /\ running' = TRUE
    /\ Goes(c, "asking")
    /\ UNCHANGED <<tables, up, now, nextAllowedAt, stateVars, edits>>

Begin(c) ==
    /\ up /\ calls[c].step = "called"
    /\ ~running /\ calls[c].at >= nextAllowedAt
    /\ running' = TRUE
    /\ Goes(c, "asking")
    /\ UNCHANGED <<tables, up, now, nextAllowedAt, stateVars, edits>>

Refuse(c) ==
    /\ up /\ calls[c].step = "called"
    /\ running \/ calls[c].at < nextAllowedAt
    /\ calls' = [calls EXCEPT ![c] = Idle]
    /\ UNCHANGED <<tables, up, now, nextAllowedAt, running, stateVars, edits>>

\* end: the call leaves; what it set for the next one is already in place.
End(c) ==
    /\ running' = FALSE
    /\ calls' = [calls EXCEPT ![c] = Idle]

\* Mutant: success leaves no cooldown behind.
SucceedFreely(c, snapshot) ==
    /\ up /\ calls[c].step = "asking"
    /\ ApplyIYUUCatalog(snapshot, calls[c].at)
    /\ attemptAt' = calls[c].at /\ successAt' = calls[c].at
    /\ latest' = {<<r, snapshot[r].slug>> : r \in DOMAIN snapshot}
    /\ End(c)
    /\ UNCHANGED <<up, now, nextAllowedAt, edits>>

\* The answer is applied whole, under the time at which the call came in.
Succeed(c, snapshot) ==
    /\ up /\ calls[c].step = "asking"
    /\ ApplyIYUUCatalog(snapshot, calls[c].at)
    /\ attemptAt' = calls[c].at /\ successAt' = calls[c].at
    /\ latest' = {<<r, snapshot[r].slug>> : r \in DOMAIN snapshot}
    /\ nextAllowedAt' = calls[c].at + SuccessDelay
    /\ End(c)
    /\ UNCHANGED <<up, now, edits>>

\* The request, its validation or the transaction fails.  The cooldown is set first;
\* the record of the failure may be lost.
FailCall(c, delay) ==
    /\ up /\ calls[c].step = "asking"
    /\ nextAllowedAt' = calls[c].at + delay
    /\ attemptAt' \in {attemptAt, calls[c].at}
    /\ End(c)
    /\ UNCHANGED <<tables, up, now, successAt, latest, edits>>

\* A caller that goes away leaves neither a record nor a cooldown.
Cancel(c) ==
    /\ up /\ calls[c].step = "asking"
    /\ End(c)
    /\ UNCHANGED <<tables, up, now, nextAllowedAt, stateVars, edits>>

-----------------------------------------------------------------------------
(* The rest of the program, as far as it touches the tables.                *)

Edit ==
    /\ up /\ edits < MaxEdits
    /\ edits' = edits + 1
    /\ UNCHANGED <<up, now, serviceVars, stateVars>>

CreateRule(p, name, display) == CreateCustomTrackerRule(p, name, display) /\ Edit

DeleteRule(r) == DeleteCustomTrackerRule(r) /\ Edit

Observe(i, O) == StoreTrackers(i, O) /\ Edit

Crash ==
    /\ up
    /\ up' = FALSE
    /\ nextAllowedAt' = 0 /\ running' = FALSE
    /\ calls' = [c \in Callers |-> Idle]
    /\ UNCHANGED <<tables, now, stateVars, edits>>

\* Startup serves nobody before the old rows are normal and everything is classified;
\* it may die before that as often as it likes.  The clock counts seconds, as the times
\* in the database do; a restart takes at least one.
Start ==
    /\ ~up
    /\ NormalizePersistedTrackerData
    /\ up' = TRUE
    /\ now' = now + 1 /\ now < MaxTime
    /\ UNCHANGED <<serviceVars, stateVars, edits>>

Tick ==
    /\ up /\ now < MaxTime
    /\ now' = now + 1
    /\ UNCHANGED <<tables, up, serviceVars, stateVars, edits>>

-----------------------------------------------------------------------------

\* The sites of the rules that an older version left.
LegacySites(left) == {r.site : r \in left}

Init ==
    /\ \E left \in LegacyRules, rows \in LegacyRows :
            /\ rules = left
            /\ trackers = [o \in rows |-> Unmapped]
            /\ \E name \in [LegacySites(left) -> Names] :
                    /\ IsInjective(name)
                    /\ sites = [s \in LegacySites(left) |-> NewSite(name[s], 1)]
    /\ catalogue = {}
    /\ up = FALSE /\ now = 0
    /\ nextAllowedAt = 0 /\ running = FALSE
    /\ calls = [c \in Callers |-> Idle]
    /\ attemptAt = 0 /\ successAt = 0 /\ latest = {}
    /\ edits = 0

Next ==
    \/ \E c \in Callers :
            \/ Call(c) \/ Begin(c) \/ Refuse(c) \/ Cancel(c)
            \/ \E snapshot \in Snapshots : Succeed(c, snapshot)
            \/ \E delay \in FailureDelays : FailCall(c, delay)
    \/ \E p \in Patterns, name \in Names, display \in Displays : CreateRule(p, name, display)
    \/ \E r \in rules : DeleteRule(r)
    \/ \E i \in {Instance[o] : o \in Observations} :
            \E O \in SUBSET ObservationsOf(i) : Observe(i, O)
    \/ Crash \/ Start \/ Tick

Spec == Init /\ [][Next]_vars

-----------------------------------------------------------------------------
(* Properties.                                                              *)

\* A stored pattern has one rule (UNIQUE, and what startup makes of older rows).
RulesUnambiguous == up => \A r, q \in rules : r.pattern = q.pattern => r = q

\* The shape of the state.  A stored pattern has one rule.  One call asks at a time, and
\* the service counts as running exactly while it does.
TypeOK ==
    /\ DOMAIN sites \subseteq SiteIds
    /\ \A s \in DOMAIN sites :
            sites[s] \in [name : Names, display : Nat, base : Hosts \cup {""},
                          source : {"custom", "iyuu"}, remote : Nat]
    /\ rules \subseteq [pattern : Patterns, site : DOMAIN sites]
    /\ RulesUnambiguous
    /\ catalogue \subseteq [remote : Nat \ {0}, slug : Names, seen : Nat]
    /\ DOMAIN trackers \subseteq Observations
    /\ \A o \in DOMAIN trackers :
            trackers[o] \in [site : DOMAIN sites \cup {NoSite},
                             match : {"", "exact", "custom", "registrable_domain", "keyword"}]
    /\ up \in BOOLEAN /\ now \in Nat /\ nextAllowedAt \in Nat /\ running \in BOOLEAN
    /\ calls \in [Callers -> [step : {"idle", "called", "asking"}, at : Nat]]
    /\ attemptAt \in Nat /\ successAt \in Nat /\ edits \in Nat
    /\ running = (\E c \in Callers : calls[c].step = "asking")
    /\ \A c, e \in Callers : calls[c].step = "asking" /\ calls[e].step = "asking" => c = e

\* Whatever was edited, fetched, observed or interrupted in whatever order, every
\* stored tracker has the site that the stored rules and sites give it, as soon as the
\* process serves requests (reclassifyTorrentTrackers).
AlwaysClassified == up => trackers = Reclassify(sites, rules, DOMAIN trackers)

\* A name never passes from one site to another, so that the rules and trackers of a
\* site stay with its slug though IYUU swaps or reuses numeric ids
\* (resolveIYUUApplicationSiteIDs).
NamesStay ==
    \A s \in DOMAIN sites : \A u \in DOMAIN sites' : sites'[u].name = sites[s].name => u = s
SlugsStay == [][NamesStay]_vars

\* sites and iyuu_sites are two copies of one catalogue: every row of the one, stale
\* rows included, has the site of that id and slug in the other, and no site has an id
\* that the catalogue gives to another slug.
CatalogueLinked ==
    /\ \A row \in catalogue :
            \E s \in DOMAIN sites : sites[s].remote = row.remote /\ sites[s].name = row.slug
    /\ \A s \in DOMAIN sites : sites[s].remote # 0 =>
            \E row \in catalogue : row.remote = sites[s].remote /\ row.slug = sites[s].name
    /\ \A s, u \in DOMAIN sites :
            \/ sites[s].name = sites[u].name
            \/ sites[s].remote = sites[u].remote /\ sites[s].remote # 0
            => s = u

\* A row is marked as stale (its last_seen_at before last_success_at) exactly when the
\* last applied catalogue did not contain it: no two catalogues are applied under one
\* time, whoever asked, was refused, failed or went away in between.
StaleWhenMissing ==
    \A row \in catalogue : (row.seen >= successAt) = (<<row.remote, row.slug>> \in latest)

\* The times of attempts and successes that the administrator is shown never go back,
\* although a call reads the clock before it takes the lock.
TimesMoveOn == [][attemptAt <= attemptAt' /\ successAt <= successAt']_vars

\* Rule r is neither kept nor rewritten for its site.
RuleLost(r) ==
    \A q \in rules' : q.site = r.site => q.pattern \notin {r.pattern, Canon[r.pattern]}

Conflicting(r) == \E q \in rules : q.site # r.site /\ Canon[q.pattern] = Canon[r.pattern]

\* The rules of the administrator are authoritative (README.md:152): whatever IYUU swaps,
\* drops or renames, and however often the process dies, a rule goes only when it is
\* deleted, or at a start that finds no valid form for it or another site's rule of
\* the same form (normalizePersistedTrackerRules, ON DELETE CASCADE of site_id).  Rules made
\* while serving can meet in that way: they were converted only once.
RulesLeaveForAReason ==
    [][\A r \in rules : RuleLost(r) =>
        \/ DeleteRule(r)
        \/ Start /\ (Canon[r.pattern] = Invalid \/ Conflicting(r))]_vars
=============================================================================
