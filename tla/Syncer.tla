------------------------------- MODULE Syncer -------------------------------
(***************************************************************************)
(* The synchroniser: how the rows of a downloader's tasks follow the tasks *)
(* (internal/syncer/service.go), through the requests of the two adapters  *)
(* (internal/downloader/qbittorrent.go, transmission.go) and the           *)
(* transaction that applies an answer (internal/store/sync.go).            *)
(*                                                                         *)
(* A daemon stamps every change of a task with its clock.  A row records   *)
(* which stamp it shows: the code keeps no such number, the properties do. *)
(* What a task shows, and how it is grouped, is the business of Mirror.    *)
(***************************************************************************)
EXTENDS Integers, FiniteSets, Functions

CONSTANTS
    Tasks,          \* torrents, by stable hash
    Downloaders,    \* ids of downloaders
    Home,           \* the downloader a torrent belongs to
    Enabled,        \* the downloaders the scheduler takes up
    MaxClock,       \* bound: changes of a daemon that TLC explores
    MaxFaults,      \* bound: failed syncs and restarts that TLC explores
    MaxCalls        \* bound: syncs asked for besides those of the scheduler

VARIABLES
    kind,       \* qbittorrent or transmission, by downloader
    clock,      \* clock[d]: the changes of d so far; qBittorrent's RID
    world,      \* world[t]: whether t is at its daemon, and the stamp of its last change
    past,       \* past[t]: every state t was ever in
    id,         \* id[t]: Transmission's numeric id of t, 0 without one
    nextId,     \* nextId[d]: the id of the next task
    gone,       \* gone[d]: the ids Transmission removed, with their stamps
    horizon,    \* horizon[d]: what Transmission no longer counts as recent
    renumbered, \* the daemons that were restarted and gave their tasks new ids
    row,        \* torrent_instances: whether active, the stamp shown, remote_id
    cursor,     \* downloaders.sync_cursor, 0 when empty
    due,        \* the downloaders whose last full sync is too long ago, or unknown
    running,    \* Service.running
    jobs,       \* the calls of Service.sync on their way
    faults,     \* failures so far
    calls       \* syncs asked for so far

daemonVars == <<clock, world, past, id, nextId, gone, horizon, renumbered>>
serviceVars == <<row, cursor, due, running, jobs>>
vars == <<kind, daemonVars, serviceVars, faults, calls>>

ASSUME HomeAssumption == Home \in [Tasks -> Downloaders] /\ Enabled \subseteq Downloaders
ASSUME FiniteAssumption == IsFiniteSet(Tasks)
ASSUME BoundAssumption == MaxClock \in Nat /\ MaxFaults \in Nat /\ MaxCalls \in Nat

TasksOf(d) == {t \in Tasks : Home[t] = d}

Present(d) == {t \in TasksOf(d) : world[t].present}

Numbered(d) == kind[d] = "transmission"

-----------------------------------------------------------------------------
(* The daemons, as the adapters see them.                                   *)

Becomes(t, present) ==
    LET d == Home[t]
        state == [present |-> present, at |-> clock[d] + 1]
    IN  /\ clock[d] < MaxClock
        /\ clock' = [clock EXCEPT ![d] = @ + 1]
        /\ world' = [world EXCEPT ![t] = state]
        /\ past' = [past EXCEPT ![t] = @ \cup {state}]

Add(t) ==
    /\ ~world[t].present
    /\ Becomes(t, TRUE)
    /\ IF Numbered(Home[t])
       THEN /\ id' = [id EXCEPT ![t] = nextId[Home[t]]]
            /\ nextId' = [nextId EXCEPT ![Home[t]] = @ + 1]
       ELSE UNCHANGED <<id, nextId>>
    /\ UNCHANGED <<kind, gone, horizon, renumbered, serviceVars, faults, calls>>

Change(t) ==
    /\ world[t].present
    /\ Becomes(t, TRUE)
    /\ UNCHANGED <<kind, id, nextId, gone, horizon, renumbered, serviceVars, faults, calls>>

\* A deletion does not wait for a running sync; a user of the daemon does the same.
DeleteRemote(t) ==
    /\ world[t].present
    /\ Becomes(t, FALSE)
    /\ gone' = IF Numbered(Home[t])
               THEN [gone EXCEPT ![Home[t]] = @ \cup {[id |-> id[t], at |-> clock'[Home[t]]]}]
               ELSE gone
    /\ UNCHANGED <<kind, id, nextId, horizon, renumbered, serviceVars, faults, calls>>

\* recently_active covers a window of time; whatever changed before it is left out.
Age(d) ==
    /\ Numbered(d)
    /\ horizon[d] < clock[d]
    /\ horizon' = [horizon EXCEPT ![d] = clock[d]]
    /\ UNCHANGED <<kind, clock, world, past, id, nextId, gone, renumbered,
                   serviceVars, faults, calls>>

Numberings(d) ==
    {f \in [Present(d) -> 1..Cardinality(Present(d))] : IsInjective(f)}

\* Transmission restarts: it numbers its tasks anew and forgets what it removed.
DaemonRestart(d) ==
    /\ Numbered(d) /\ d \notin renumbered
    /\ faults < MaxFaults
    /\ \E number \in Numberings(d) :
            id' = [t \in Tasks |-> IF t \in Present(d) THEN number[t] ELSE id[t]]
    /\ nextId' = [nextId EXCEPT ![d] = Cardinality(Present(d)) + 1]
    /\ gone' = [gone EXCEPT ![d] = {}]
    /\ renumbered' = renumbered \cup {d}
    /\ faults' = faults + 1
    /\ UNCHANGED <<kind, clock, world, past, horizon, serviceVars, calls>>

-----------------------------------------------------------------------------
(* Beginning a sync.  The row of the downloader is read after begin, when   *)
(* no other sync of it can commit: one step stands for both.                *)

NewJob(d, full, barrier) ==
    [d |-> d, full |-> full, barrier |-> barrier, step |-> "asking",
     since |-> clock[d], next |-> cursor[d], complete |-> FALSE,
     batch |-> {}, removed |-> {}, removedIds |-> {},
     seen |-> [t \in TasksOf(d) |-> world[t].at], ids |-> [t \in TasksOf(d) |-> 0]]

\* Mutant: nothing holds back a second sync of a downloader.
BeginAnyway(d, full, barrier) ==
    /\ Cardinality(jobs) < 2
    /\ running' = running \cup {d}
    /\ jobs' = jobs \cup {NewJob(d, full, barrier)}

Begin(d, full, barrier) ==
    /\ d \notin running
    /\ running' = running \cup {d}
    /\ jobs' = jobs \cup {NewJob(d, full, barrier)}

\* The scheduler: full on the first round and whenever a full sync is due.
Tick(d) ==
    /\ d \in Enabled
    /\ Begin(d, d \in due, FALSE)
    /\ UNCHANGED <<kind, daemonVars, row, cursor, due, faults, calls>>

\* A user asks for a sync; it runs in the background.
Trigger(d) ==
    /\ calls < MaxCalls
    /\ Begin(d, FALSE, FALSE)
    /\ calls' = calls + 1
    /\ UNCHANGED <<kind, daemonVars, row, cursor, due, faults>>

\* The deletion service waits for a sync: a delta before it accepts a plan, a full
\* one to verify.
SyncNow(d, full) ==
    /\ calls < MaxCalls
    /\ Begin(d, full, TRUE)
    /\ calls' = calls + 1
    /\ UNCHANGED <<kind, daemonVars, row, cursor, due, faults>>

-----------------------------------------------------------------------------
(* The requests of the adapters.                                            *)

Replace(j, k) == jobs' = (jobs \ {j}) \cup {k}

Stamps(S) == [t \in S |-> world[t].at]

\* Mutant: a full snapshot is applied as if it were a delta.
ReadAllPartially(j) ==
    /\ j.step = "asking" /\ j.full
    /\ Replace(j, [j EXCEPT !.step = "read", !.batch = Present(j.d),
                            !.seen = Stamps(TasksOf(j.d)), !.ids = [t \in TasksOf(j.d) |-> id[t]]])
    /\ UNCHANGED <<kind, daemonVars, row, cursor, due, running, faults, calls>>

\* FullSnapshot of both: everything that is there; it moves no cursor.
ReadAll(j) ==
    /\ j.step = "asking" /\ j.full
    /\ Replace(j, [j EXCEPT !.step = "read", !.complete = TRUE, !.batch = Present(j.d),
                            !.seen = Stamps(TasksOf(j.d)), !.ids = [t \in TasksOf(j.d) |-> id[t]]])
    /\ UNCHANGED <<kind, daemonVars, row, cursor, due, running, faults, calls>>

\* qBittorrent's maindata: what changed since the cursor, or a full update.
ReadMain(j) ==
    /\ j.step = "asking" /\ ~j.full /\ ~Numbered(j.d)
    /\ \E complete \in {c \in BOOLEAN : j.next = 0 => c} :
        LET told == {t \in TasksOf(j.d) : complete \/ world[t].at > j.next}
        IN  Replace(j, [j EXCEPT !.step = IF told \cap Present(j.d) = {} THEN "read" ELSE "listed",
                                 !.complete = complete, !.next = clock[j.d],
                                 !.batch = told \cap Present(j.d),
                                 !.removed = IF complete THEN {} ELSE told \ Present(j.d),
                                 !.seen = Stamps(TasksOf(j.d))])
    /\ UNCHANGED <<kind, daemonVars, row, cursor, due, running, faults, calls>>

\* Mutant: a listed task that is gone by the second request is forgotten.
ReadInfoForgetting(j) ==
    /\ j.step = "listed"
    /\ Replace(j, [j EXCEPT !.step = "read",
                            !.batch = @ \cap Present(j.d),
                            !.seen = [t \in TasksOf(j.d) |->
                                          IF t \in j.batch THEN world[t].at ELSE j.seen[t]]])
    /\ UNCHANGED <<kind, daemonVars, row, cursor, due, running, faults, calls>>

\* The listed tasks are asked for by a second request; those that vanished in
\* between count as removed.
ReadInfo(j) ==
    /\ j.step = "listed"
    /\ Replace(j, [j EXCEPT !.step = "read",
                            !.batch = @ \cap Present(j.d),
                            !.removed = @ \cup (j.batch \ Present(j.d)),
                            !.seen = [t \in TasksOf(j.d) |->
                                          IF t \in j.batch THEN world[t].at ELSE j.seen[t]]])
    /\ UNCHANGED <<kind, daemonVars, row, cursor, due, running, faults, calls>>

Recent(d) == {t \in Present(d) : world[t].at > horizon[d]}

\* Transmission's recently_active: the recent changes, whatever else was active, and
\* the ids that were removed recently.
ReadRecent(j) ==
    /\ j.step = "asking" /\ ~j.full /\ Numbered(j.d)
    /\ \E batch \in {S \in SUBSET Present(j.d) : Recent(j.d) \subseteq S} :
            Replace(j, [j EXCEPT !.step = "read", !.batch = batch,
                                 !.removedIds = {g.id : g \in {h \in gone[j.d] : h.at > horizon[j.d]}},
                                 !.seen = Stamps(TasksOf(j.d)), !.ids = [t \in TasksOf(j.d) |-> id[t]]])
    /\ UNCHANGED <<kind, daemonVars, row, cursor, due, running, faults, calls>>

-----------------------------------------------------------------------------
(* The end of a sync.                                                       *)

End(j) ==
    /\ running' = running \ {j.d}
    /\ jobs' = jobs \ {j}

\* Mutant: a sync that failed never leaves the running set.
FailHeld(j) ==
    /\ faults < MaxFaults
    /\ jobs' = jobs \ {j}
    /\ faults' = faults + 1
    /\ UNCHANGED <<kind, daemonVars, row, cursor, due, running, calls>>

\* A request, the normalisation or the transaction fails: no row and no cursor moves.
Fail(j) ==
    /\ faults < MaxFaults
    /\ End(j)
    /\ faults' = faults + 1
    /\ UNCHANGED <<kind, daemonVars, row, cursor, due, calls>>

\* The rows are found by hash, and then by the id that the batch has just written.
RemoteId(j, t) == IF t \in j.batch THEN j.ids[t] ELSE row[t].id

\* Mutant: whatever an answer does not show is retired, a delta included.
RetiredAlways(j, t) == t \notin j.batch

Retired(j, t) ==
    \/ j.complete /\ t \notin j.batch
    \/ t \in j.removed
    \/ row[t].active /\ RemoteId(j, t) \in j.removedIds

NewRow(j, t) ==
    [active |-> (t \in j.batch \/ row[t].active) /\ ~Retired(j, t),
     at |-> IF t \in j.batch \/ Retired(j, t) THEN j.seen[t] ELSE row[t].at,
     id |-> RemoteId(j, t)]

\* Mutant: a delta counts as the full sync that was due.
CommitAsFull(j) ==
    /\ j.step = "read"
    /\ row' = [t \in Tasks |-> IF Home[t] = j.d THEN NewRow(j, t) ELSE row[t]]
    /\ cursor' = [cursor EXCEPT ![j.d] = j.next]
    /\ due' = due \ {j.d}
    /\ End(j)
    /\ UNCHANGED <<kind, daemonVars, faults, calls>>

Commit(j) ==
    /\ j.step = "read"
    /\ row' = [t \in Tasks |-> IF Home[t] = j.d THEN NewRow(j, t) ELSE row[t]]
    /\ cursor' = [cursor EXCEPT ![j.d] = j.next]
    /\ due' = IF j.full \/ j.complete THEN due \ {j.d} ELSE due
    /\ End(j)
    /\ UNCHANGED <<kind, daemonVars, faults, calls>>

FullSyncDue(d) ==
    /\ d \notin due
    /\ due' = due \cup {d}
    /\ UNCHANGED <<kind, daemonVars, row, cursor, running, jobs, faults, calls>>

\* The process ends, by a kill or by a shutdown that cancels what still runs, and
\* starts again: what was in memory is lost.
Restart ==
    /\ faults < MaxFaults
    /\ running' = {} /\ jobs' = {} /\ due' = Downloaders
    /\ faults' = faults + 1
    /\ UNCHANGED <<kind, daemonVars, row, cursor, calls>>

-----------------------------------------------------------------------------

Unborn == [present |-> FALSE, at |-> 0]

Init ==
    /\ kind \in [Downloaders -> {"qbittorrent", "transmission"}]
    /\ clock = [d \in Downloaders |-> 0]
    /\ world = [t \in Tasks |-> Unborn]
    /\ past = [t \in Tasks |-> {Unborn}]
    /\ id = [t \in Tasks |-> 0]
    /\ nextId = [d \in Downloaders |-> 1]
    /\ gone = [d \in Downloaders |-> {}]
    /\ horizon = [d \in Downloaders |-> 0]
    /\ renumbered = {}
    /\ row = [t \in Tasks |-> [active |-> FALSE, at |-> 0, id |-> 0]]
    /\ cursor = [d \in Downloaders |-> 0]
    /\ due = Downloaders
    /\ running = {} /\ jobs = {}
    /\ faults = 0 /\ calls = 0

Advance(j) == ReadAll(j) \/ ReadMain(j) \/ ReadInfo(j) \/ ReadRecent(j) \/ Commit(j)

Next ==
    \/ \E t \in Tasks : Add(t) \/ Change(t) \/ DeleteRemote(t)
    \/ \E d \in Downloaders :
            \/ Age(d) \/ DaemonRestart(d)
            \/ Tick(d) \/ Trigger(d) \/ FullSyncDue(d)
            \/ \E full \in BOOLEAN : SyncNow(d, full)
    \/ \E j \in jobs : Advance(j) \/ Fail(j)
    \/ Restart

\* The ticker goes on and takes up what it finds free; requests are answered or time
\* out; time passes.
Fairness ==
    \A d \in Downloaders :
        /\ WF_vars(Tick(d))
        /\ WF_vars(FullSyncDue(d))
        /\ WF_vars(\E j \in jobs : j.d = d /\ Advance(j))

Spec == Init /\ [][Next]_vars /\ Fairness

-----------------------------------------------------------------------------
(* Properties.                                                              *)

JobOK(j) ==
    /\ j \in [d : Downloaders, full : BOOLEAN, barrier : BOOLEAN,
              step : {"asking", "listed", "read"}, since : Nat, next : Nat,
              complete : BOOLEAN, batch : SUBSET TasksOf(j.d),
              removed : SUBSET (TasksOf(j.d) \ j.batch), removedIds : SUBSET (Nat \ {0}),
              seen : [TasksOf(j.d) -> Nat], ids : [TasksOf(j.d) -> Nat]]
    /\ j.step = "listed" => ~j.full /\ ~Numbered(j.d)

\* The shape of the state: an answer names tasks of its downloader only, none of them
\* as shown and as removed at once, and a downloader is marked as running exactly
\* while a sync of it is under way (Service.running, begin and end).
TypeOK ==
    /\ kind \in [Downloaders -> {"qbittorrent", "transmission"}]
    /\ clock \in [Downloaders -> Nat]
    /\ world \in [Tasks -> [present : BOOLEAN, at : Nat]]
    /\ past \in [Tasks -> SUBSET [present : BOOLEAN, at : Nat]]
    /\ id \in [Tasks -> Nat] /\ nextId \in [Downloaders -> Nat \ {0}]
    /\ gone \in [Downloaders -> SUBSET [id : Nat \ {0}, at : Nat]]
    /\ horizon \in [Downloaders -> Nat]
    /\ renumbered \subseteq Downloaders
    /\ row \in [Tasks -> [active : BOOLEAN, at : Nat, id : Nat]]
    /\ cursor \in [Downloaders -> Nat]
    /\ due \subseteq Downloaders
    /\ \A j \in jobs : JobOK(j)
    /\ running = {j.d : j \in jobs}
    /\ faults \in Nat /\ calls \in Nat

\* Whatever the scheduler, users, deletions, failures and restarts do, no row goes
\* back to a state of its task that is older than the one it showed.
RowsMoveOn == \A t \in Tasks : row[t].at <= row'[t].at
NeverGoesBack == [][RowsMoveOn]_vars

Shows(t) == [present |-> row[t].active, at |-> row[t].at]

\* The stored cursor of a qBittorrent is never ahead of the rows: no change it has
\* passed is missing, although the listed tasks are read by a second request, tasks
\* vanish in between, and a full snapshot moves rows but not the cursor.
CursorNeverSkips ==
    \A t \in Tasks : ~Numbered(Home[t]) =>
        \A s \in past[t] : s.at <= cursor[Home[t]] => s.at <= row[t].at

\* A row never calls a task gone that was not gone, nor there when it was not: it
\* shows a state the task was really in.  A Transmission that gave its tasks new ids
\* is the exception, since its removals are found by the ids of earlier answers.
RetiredOnlyWhenGone ==
    \A t \in Tasks : Home[t] \notin renumbered => Shows(t) \in past[t]

Current(j) ==
    \A t \in TasksOf(j.d) :
        /\ Shows(t)' \in past[t]
        /\ \A s \in past[t] : s.at <= j.since => s.at <= row'[t].at

\* After a full sync every row of the downloader shows a real state, no older than
\* the start of the sync: a deletion is verified against what was there when the
\* verification began, whatever ids, cursors and rows it met.
FullRowsCurrent == \A j \in jobs : Commit(j) /\ j.full => Current(j)
FullSyncIsCurrent == [][FullRowsCurrent]_vars

\* "every enabled downloader that observes the same storage is included so a recent
\* conflicting reference cannot be missed" (store/deletions.go:407): when the sync that
\* a deletion waits for has committed, at a downloader whose last full sync is recent,
\* every task that was there before the sync began, and still is, has an active row.
Missed(j) == {t \in Present(j.d) : world[t].at <= j.since /\ ~row'[t].active}
BarrierComplete == \A j \in jobs : Commit(j) /\ j.barrier /\ j.d \notin due => Missed(j) = {}
BarrierMissesNothing == [][BarrierComplete]_vars

\* The part of that claim the code keeps, whoever asked for the sync: a full sync of
\* either daemon and a delta of a qBittorrent, which asks from the stored cursor on,
\* leave an active row for every task that was there before they began and still is.
Firm(j) == j.full \/ ~Numbered(j.d)
FirmComplete == \A j \in jobs : Commit(j) /\ Firm(j) => Missed(j) = {}
FirmSyncsMissNothing == [][FirmComplete]_vars

\* When the daemons and the users are quiet, the rows of every enabled downloader come
\* to show their tasks as they are, and stay so: after failed syncs, restarts, reused
\* ids and changes that left the window of recently_active.
MirrorCatchesUp ==
    <>[](\A t \in Tasks : Home[t] \in Enabled => Shows(t) = world[t])

\* The rows are a replica of the daemons' tasks.
ReplicaOf == INSTANCE Replica WITH
    copy <- [t \in Tasks |-> Shows(t)],
    stable <- {t \in Tasks : Home[t] \notin renumbered}

\* Every step of the service and of the daemons is a step of Replica or none.
ImplementsReplica == ReplicaOf!Spec
=============================================================================
