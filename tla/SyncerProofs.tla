---------------------------- MODULE SyncerProofs ----------------------------
(***************************************************************************)
(* Proofs about Syncer, for any tasks, downloaders and numbers of changes, *)
(* failures and calls: its safety properties, and that it implements       *)
(* Replica.                                                                *)
(***************************************************************************)
EXTENDS Syncer, FiniteSetTheorems, TLAPS

OneJob == \A j, k \in jobs : j.d = k.d => j = k

\* No state of a task is newer than its present one.
WorldInPast ==
    \A t \in Tasks :
        /\ world[t] \in past[t]
        /\ world[t].at <= clock[Home[t]]
        /\ \A s \in past[t] : s.at <= world[t].at

RowsBehind == \A t \in Tasks : row[t].at <= world[t].at

CursorsBehind == \A d \in Downloaders : cursor[d] <= clock[d]

\* Transmission gives no number twice between two restarts.
Numbering ==
    \A t \in Tasks : Numbered(Home[t]) =>
        /\ \A g \in gone[Home[t]] : g.id < nextId[Home[t]] /\ g.at <= clock[Home[t]]
        /\ world[t].present =>
                /\ id[t] # 0 /\ id[t] < nextId[Home[t]]
                /\ \A g \in gone[Home[t]] : g.id # id[t]
                /\ \A u \in Tasks :
                        Home[u] = Home[t] /\ world[u].present /\ id[u] = id[t] => u = t

\* i is no number of another task, and where it was given back, t was gone then.
Owns(t, i) == i # 0 =>
    /\ i < nextId[Home[t]]
    /\ \A u \in Tasks : Home[u] = Home[t] /\ u # t => id[u] # i
    /\ \A g \in gone[Home[t]] : g.id = i =>
            /\ g.at <= world[t].at
            /\ world[t].present => g.at < world[t].at

RowsOwn ==
    \A t \in Tasks : Numbered(Home[t]) /\ Home[t] \notin renumbered =>
        Owns(t, id[t]) /\ Owns(t, row[t].id)

JobOwns(j) ==
    Numbered(j.d) /\ j.d \notin renumbered =>
        \A t \in Tasks : Home[t] = j.d => Owns(t, j.ids[t])

\* What an answer tells depends on how far its sync is.
Stage(j) ==
    /\ j.since <= clock[j.d] /\ j.next <= clock[j.d]
    /\ j.step = "asking" => j.batch = {} /\ j.removed = {} /\ ~j.complete
    /\ j.step # "read" \/ j.complete => j.removedIds = {}
    /\ j.full => j.removed = {} /\ j.removedIds = {}
    /\ j.full /\ j.step = "read" => j.complete

\* What an answer shows was so when it was read, after the sync began.
Seen(j) ==
    \A t \in Tasks : Home[t] = j.d =>
        /\ row[t].at <= j.seen[t] /\ j.seen[t] <= world[t].at
        /\ \E s \in past[t] : s.at = j.seen[t]
        /\ \A s \in past[t] : s.at <= j.since => s.at <= j.seen[t]
        /\ t \in j.batch => [present |-> TRUE, at |-> j.seen[t]] \in past[t]
        /\ t \in j.removed \/ (j.complete /\ t \notin j.batch) =>
                [present |-> FALSE, at |-> j.seen[t]] \in past[t]

\* The numbers an answer calls removed are those of tasks that were gone.
Removals(j) ==
    Numbered(j.d) /\ j.d \notin renumbered =>
        \A t \in Tasks : Home[t] = j.d =>
            /\ t \in j.batch => j.ids[t] \notin j.removedIds
            /\ t \notin j.batch /\ row[t].id \in j.removedIds =>
                    [present |-> FALSE, at |-> j.seen[t]] \in past[t]

\* Once the answer is applied, its cursor is not ahead of the rows.
Covers(j) ==
    ~Numbered(j.d) =>
        /\ j.removedIds = {}
        /\ \A t \in Tasks : Home[t] = j.d =>
                \A s \in past[t] : s.at <= j.next =>
                    \/ s.at <= row[t].at
                    \/ /\ s.at <= j.seen[t]
                       /\ j.complete \/ t \in j.batch \/ t \in j.removed

JobInv(j) == Stage(j) /\ Seen(j) /\ Removals(j) /\ Covers(j)

Inv ==
    /\ TypeOK
    /\ OneJob
    /\ WorldInPast
    /\ RowsBehind
    /\ CursorsBehind
    /\ Numbering
    /\ RowsOwn
    /\ CursorNeverSkips
    /\ RetiredOnlyWhenGone
    /\ \A j \in jobs : JobInv(j) /\ JobOwns(j)


\* What a step of the daemons leaves alone, and that they only move on.
Later ==
    /\ UNCHANGED <<kind, row, cursor, jobs>>
    /\ \A d \in Downloaders : clock[d] <= clock'[d]
    /\ \A t \in Tasks :
            /\ world[t].at <= world'[t].at
            /\ past[t] \subseteq past'[t]
            /\ \A s \in past'[t] : s \in past[t] \/ s.at > clock[Home[t]]
    /\ renumbered \subseteq renumbered'

LEMMA JobTypes ==
    ASSUME TypeOK, NEW j \in jobs
    PROVE  /\ j.d \in Downloaders /\ j.since \in Nat /\ j.next \in Nat
           /\ j.full \in BOOLEAN /\ j.complete \in BOOLEAN
           /\ j.batch \subseteq TasksOf(j.d) /\ j.removed \subseteq TasksOf(j.d) \ j.batch
           /\ j.removedIds \subseteq Nat \ {0}
           /\ j.seen \in [TasksOf(j.d) -> Nat] /\ j.ids \in [TasksOf(j.d) -> Nat]
           /\ \A t \in Tasks : Home[t] = j.d => j.seen[t] \in Nat /\ j.ids[t] \in Nat
  <1>1. JobOK(j)
    BY DEF TypeOK
  <1>2. j.seen \in [TasksOf(j.d) -> Nat] /\ j.ids \in [TasksOf(j.d) -> Nat]
    BY <1>1 DEF JobOK
  <1>3. \A t \in Tasks : Home[t] = j.d => t \in TasksOf(j.d)
    BY DEF TasksOf
  <1>4. QED
    BY <1>1, <1>2, <1>3 DEF JobOK

LEMMA WorldTypes ==
    ASSUME TypeOK, NEW t \in Tasks
    PROVE  /\ Home[t] \in Downloaders
           /\ clock[Home[t]] \in Nat /\ cursor[Home[t]] \in Nat
           /\ nextId[Home[t]] \in Nat /\ id[t] \in Nat
           /\ world[t].present \in BOOLEAN /\ world[t].at \in Nat
           /\ world[t] = [present |-> world[t].present, at |-> world[t].at]
           /\ row[t].active \in BOOLEAN /\ row[t].at \in Nat /\ row[t].id \in Nat
           /\ \A s \in past[t] : s.present \in BOOLEAN /\ s.at \in Nat
           /\ \A g \in gone[Home[t]] : g.id \in Nat /\ g.id # 0 /\ g.at \in Nat
  <1>1. Home[t] \in Downloaders
    BY HomeAssumption
  <1>2. world[t] \in [present : BOOLEAN, at : Nat] /\ row[t] \in [active : BOOLEAN, at : Nat, id : Nat]
    BY DEF TypeOK
  <1>3. past[t] \subseteq [present : BOOLEAN, at : Nat]
    BY DEF TypeOK
  <1>4. gone[Home[t]] \subseteq [id : Nat \ {0}, at : Nat]
    BY <1>1 DEF TypeOK
  <1>5. clock[Home[t]] \in Nat /\ cursor[Home[t]] \in Nat /\ nextId[Home[t]] \in Nat /\ id[t] \in Nat
    BY <1>1 DEF TypeOK
  <1>6. QED
    BY <1>1, <1>2, <1>3, <1>4, <1>5

LEMMA LaterJob ==
    ASSUME Inv, Later, TypeOK', NEW j \in jobs
    PROVE  JobInv(j)'
  <1>1. JobInv(j) /\ j.d \in Downloaders /\ j.since \in Nat /\ j.next \in Nat /\ j.removedIds \subseteq Nat
    BY JobTypes DEF Inv
  <1>2. clock[j.d] \in Nat /\ clock'[j.d] \in Nat
    BY <1>1 DEF Inv, TypeOK
  <1>3. Stage(j)'
    BY <1>1, <1>2 DEF JobInv, Stage, Later
  <1>4. \A t \in Tasks : Home[t] = j.d => j.seen[t] \in Nat
    BY JobTypes DEF Inv
  <1>5. \A t \in Tasks : world[t].at \in Nat /\ \A s \in past[t] : s.at \in Nat
    BY WorldTypes DEF Inv
  <1>6. \A t \in Tasks : world'[t].at \in Nat /\ \A s \in past'[t] : s.at \in Nat
    BY DEF TypeOK
  <1>7. \A t \in Tasks : Home[t] = j.d =>
            \A s \in past'[t] : (s.at <= j.since \/ s.at <= j.next) => s \in past[t]
    BY <1>1, <1>2, <1>6 DEF Later, JobInv, Stage
  <1>8. Seen(j)'
    <2> SUFFICES ASSUME NEW t \in Tasks, Home[t] = j.d
                 PROVE  /\ row'[t].at <= j.seen[t] /\ j.seen[t] <= world'[t].at
                        /\ \E s \in past'[t] : s.at = j.seen[t]
                        /\ \A s \in past'[t] : s.at <= j.since => s.at <= j.seen[t]
                        /\ t \in j.batch => [present |-> TRUE, at |-> j.seen[t]] \in past'[t]
                        /\ t \in j.removed \/ (j.complete /\ t \notin j.batch) =>
                                [present |-> FALSE, at |-> j.seen[t]] \in past'[t]
      BY DEF Seen
    <2>1. /\ row[t].at <= j.seen[t] /\ j.seen[t] <= world[t].at
          /\ \E s \in past[t] : s.at = j.seen[t]
          /\ \A s \in past[t] : s.at <= j.since => s.at <= j.seen[t]
          /\ t \in j.batch => [present |-> TRUE, at |-> j.seen[t]] \in past[t]
          /\ t \in j.removed \/ (j.complete /\ t \notin j.batch) =>
                [present |-> FALSE, at |-> j.seen[t]] \in past[t]
      BY <1>1 DEF JobInv, Seen
    <2>2. row' = row /\ past[t] \subseteq past'[t] /\ world[t].at <= world'[t].at
      BY DEF Later
    <2>3. row'[t].at <= j.seen[t] /\ j.seen[t] <= world'[t].at
      BY <2>1, <2>2, <1>4, <1>5, <1>6
    <2>4. \A s \in past'[t] : s.at <= j.since => s.at <= j.seen[t]
      BY <2>1, <1>7
    <2>5. QED
      BY <2>1, <2>2, <2>3, <2>4
  <1>9. Removals(j)'
    BY <1>1 DEF JobInv, Removals, Later, Numbered
  <1>10. Covers(j)'
    BY <1>1, <1>7 DEF JobInv, Covers, Later, Numbered
  <1>11. QED
    BY <1>3, <1>8, <1>9, <1>10 DEF JobInv

LEMMA LaterRows ==
    ASSUME Inv, Later, TypeOK'
    PROVE  RowsBehind' /\ CursorsBehind' /\ CursorNeverSkips' /\ RetiredOnlyWhenGone' /\ OneJob'
  <1>1. \A t \in Tasks : world[t].at \in Nat /\ world'[t].at \in Nat /\ row[t].at \in Nat
    BY WorldTypes DEF Inv, TypeOK
  <1>2. RowsBehind'
    BY <1>1 DEF Inv, RowsBehind, Later
  <1>3. \A d \in Downloaders : cursor[d] \in Nat /\ clock[d] \in Nat /\ clock'[d] \in Nat
    BY DEF Inv, TypeOK
  <1>4. CursorsBehind'
    BY <1>3 DEF Inv, CursorsBehind, Later
  <1>5. \A t \in Tasks : \A s \in past'[t] : s.at \in Nat
    BY DEF TypeOK
  <1>6. \A t \in Tasks : Home[t] \in Downloaders
    BY HomeAssumption
  <1>7. CursorNeverSkips'
    BY <1>3, <1>4, <1>5, <1>6 DEF Inv, CursorsBehind, CursorNeverSkips, Later, Numbered
  <1>8. RetiredOnlyWhenGone'
    BY DEF Inv, RetiredOnlyWhenGone, Shows, Later
  <1>9. QED
    BY <1>2, <1>4, <1>7, <1>8 DEF Inv, OneJob, Later

LEMMA BecomesLater ==
    ASSUME Inv, NEW t \in Tasks, NEW present \in BOOLEAN,
           Becomes(t, present), UNCHANGED <<kind, renumbered, serviceVars>>
    PROVE  /\ Later
           /\ WorldInPast'
           /\ clock' \in [Downloaders -> Nat]
           /\ clock'[Home[t]] = clock[Home[t]] + 1
           /\ world' \in [Tasks -> [present : BOOLEAN, at : Nat]]
           /\ past' \in [Tasks -> SUBSET [present : BOOLEAN, at : Nat]]
           /\ world' = [world EXCEPT ![t] = [present |-> present, at |-> clock[Home[t]] + 1]]
  <1> DEFINE state == [present |-> present, at |-> clock[Home[t]] + 1]
  <1>1. /\ clock' = [clock EXCEPT ![Home[t]] = @ + 1]
        /\ world' = [world EXCEPT ![t] = state]
        /\ past' = [past EXCEPT ![t] = @ \cup {state}]
    BY DEF Becomes
  <1>2. /\ clock \in [Downloaders -> Nat] /\ world \in [Tasks -> [present : BOOLEAN, at : Nat]]
        /\ past \in [Tasks -> SUBSET [present : BOOLEAN, at : Nat]]
        /\ Home \in [Tasks -> Downloaders]
    BY HomeAssumption DEF Inv, TypeOK
  <1>3. Home[t] \in Downloaders /\ clock[Home[t]] \in Nat
    BY <1>2
  <1>4. state \in [present : BOOLEAN, at : Nat] /\ state.at = clock[Home[t]] + 1
    BY <1>3
  <1>5. /\ world'[t] = state /\ past'[t] = past[t] \cup {state}
        /\ \A u \in Tasks : u # t => world'[u] = world[u] /\ past'[u] = past[u]
    BY <1>1, <1>2
  <1>6. /\ clock'[Home[t]] = clock[Home[t]] + 1
        /\ \A d \in Downloaders : d # Home[t] => clock'[d] = clock[d]
        /\ \A d \in Downloaders : clock[d] \in Nat /\ clock'[d] \in Nat
    BY <1>1, <1>2, <1>3
  <1>7. /\ clock' \in [Downloaders -> Nat]
        /\ world' \in [Tasks -> [present : BOOLEAN, at : Nat]]
        /\ past' \in [Tasks -> SUBSET [present : BOOLEAN, at : Nat]]
    <2>1. past[t] \cup {state} \in SUBSET [present : BOOLEAN, at : Nat]
      BY <1>2, <1>4
    <2>2. past' \in [Tasks -> SUBSET [present : BOOLEAN, at : Nat]]
      BY <2>1, <1>1, <1>2
    <2>3. world' \in [Tasks -> [present : BOOLEAN, at : Nat]]
      BY <1>1, <1>2, <1>4
    <2>4. clock' \in [Downloaders -> Nat]
      BY <1>1, <1>2, <1>6
    <2>5. QED
      BY <2>2, <2>3, <2>4
  <1> HIDE DEF state
  <1>8. \A u \in Tasks : /\ world[u] \in past[u] /\ world[u].at \in Nat
                         /\ world[u].at <= clock[Home[u]] /\ clock[Home[u]] \in Nat
                         /\ \A s \in past[u] : s.at \in Nat /\ s.at <= world[u].at
    BY WorldTypes DEF Inv, WorldInPast
  <1>9. WorldInPast'
    <2> SUFFICES ASSUME NEW u \in Tasks
                 PROVE  /\ world'[u] \in past'[u] /\ world'[u].at <= clock'[Home[u]]
                        /\ \A s \in past'[u] : s.at <= world'[u].at
      BY DEF WorldInPast
    <2>1. Home[u] \in Downloaders
      BY <1>2
    <2>2. CASE u = t
      BY <2>2, <1>3, <1>4, <1>5, <1>6, <1>8
    <2>3. CASE u # t
      <3>1. world'[u] = world[u] /\ past'[u] = past[u]
        BY <2>3, <1>5
      <3>2. clock[Home[u]] <= clock'[Home[u]]
        BY <2>1, <1>3, <1>6
      <3>3. clock'[Home[u]] \in Nat
        BY <2>1, <1>6
      <3>4. QED
        BY <3>1, <3>2, <3>3, <1>8
    <2>4. QED
      BY <2>2, <2>3
  <1>10. Later
    <2>1. \A d \in Downloaders : clock[d] <= clock'[d]
      BY <1>3, <1>6
    <2>2. ASSUME NEW u \in Tasks
          PROVE  /\ world[u].at <= world'[u].at
                 /\ past[u] \subseteq past'[u]
                 /\ \A s \in past'[u] : s \in past[u] \/ s.at > clock[Home[u]]
      <3>1. CASE u = t
        BY <3>1, <1>3, <1>4, <1>5, <1>8
      <3>2. CASE u # t
        BY <3>2, <1>5, <1>8
      <3>3. QED
        BY <3>1, <3>2
    <2>3. QED
      BY <2>1, <2>2 DEF Later, serviceVars
  <1>11. QED
    BY <1>1, <1>6, <1>7, <1>9, <1>10 DEF state

\* No other variable matters to the jobs.
LEMMA JobsStay ==
    ASSUME TypeOK, UNCHANGED <<kind, running, jobs>>
    PROVE  (\A j \in jobs : JobOK(j))' /\ (running = {j.d : j \in jobs})'
  BY DEF TypeOK, JobOK, Numbered

\* How the numbers of tasks move, but for a restart of Transmission.
NumbersMove ==
    /\ \A d \in Downloaders : nextId[d] <= nextId'[d]
    /\ \A t \in Tasks : Numbered(Home[t]) => id'[t] = id[t] \/ id'[t] >= nextId[Home[t]]
    /\ \A t \in Tasks : \A g \in gone'[Home[t]] :
            \/ g \in gone[Home[t]]
            \/ \E u \in Tasks : /\ Home[u] = Home[t] /\ g.id = id[u]
                                /\ g.at <= world'[u].at /\ ~world'[u].present
    /\ \A t \in Tasks : world'[t] = world[t] \/ world'[t].at > clock[Home[t]]

LEMMA OwnsLater ==
    ASSUME Inv, Later, TypeOK', NumbersMove,
           NEW t \in Tasks, Numbered(Home[t]), NEW i \in Nat, Owns(t, i)
    PROVE  Owns(t, i)'
  <1> SUFFICES ASSUME i # 0
               PROVE  /\ i < nextId'[Home[t]]
                      /\ \A u \in Tasks : Home[u] = Home[t] /\ u # t => id'[u] # i
                      /\ \A g \in gone'[Home[t]] : g.id = i =>
                            /\ g.at <= world'[t].at
                            /\ world'[t].present => g.at < world'[t].at
    BY DEF Owns
  <1>1. /\ i < nextId[Home[t]]
        /\ \A u \in Tasks : Home[u] = Home[t] /\ u # t => id[u] # i
        /\ \A g \in gone[Home[t]] : g.id = i =>
                g.at <= world[t].at /\ (world[t].present => g.at < world[t].at)
    BY DEF Owns
  <1>2. Home[t] \in Downloaders /\ nextId[Home[t]] \in Nat /\ nextId'[Home[t]] \in Nat
    BY HomeAssumption DEF Inv, TypeOK
  <1>3. i < nextId'[Home[t]]
    BY <1>1, <1>2 DEF NumbersMove
  <1>4. ASSUME NEW u \in Tasks, Home[u] = Home[t], u # t PROVE id'[u] # i
    <2>1. id'[u] = id[u] \/ id'[u] >= nextId[Home[t]]
      BY <1>4 DEF NumbersMove
    <2>2. QED
      BY <2>1, <1>1, <1>2, <1>4
  <1>5. ASSUME NEW g \in gone'[Home[t]], g.id = i
        PROVE  g.at <= world'[t].at /\ (world'[t].present => g.at < world'[t].at)
    <2>1. CASE g \in gone[Home[t]]
      <3>1. g.at <= world[t].at /\ (world[t].present => g.at < world[t].at) /\ g.at \in Nat
        BY <2>1, <1>1, <1>5, WorldTypes DEF Inv
      <3>2. world[t].at <= clock[Home[t]] /\ world[t].at \in Nat /\ clock[Home[t]] \in Nat
        BY WorldTypes DEF Inv, WorldInPast
      <3>3. world'[t].at \in Nat
        BY DEF TypeOK
      <3>4. world'[t] = world[t] \/ world'[t].at > clock[Home[t]]
        BY DEF NumbersMove
      <3>5. QED
        BY <3>1, <3>2, <3>3, <3>4
    <2>2. CASE g \notin gone[Home[t]]
      <3>1. PICK u \in Tasks : /\ Home[u] = Home[t] /\ g.id = id[u]
                               /\ g.at <= world'[u].at /\ ~world'[u].present
        BY <2>2, <1>5 DEF NumbersMove
      <3>2. u = t
        BY <3>1, <1>1, <1>5
      <3>3. QED
        BY <3>1, <3>2
    <2>3. QED
      BY <2>1, <2>2
  <1>6. QED
    BY <1>3, <1>4, <1>5

LEMMA OwnersLater ==
    ASSUME Inv, Later, TypeOK', NumbersMove
    PROVE  /\ \A j \in jobs : JobOwns(j)'
           /\ \A t \in Tasks : Numbered(Home[t]) /\ Home[t] \notin renumbered =>
                    /\ Owns(t, row[t].id)'
                    /\ id'[t] = id[t] => Owns(t, id[t])'
  <1>1. ASSUME NEW j \in jobs PROVE JobOwns(j)'
    <2> SUFFICES ASSUME Numbered(j.d), j.d \notin renumbered, NEW t \in Tasks, Home[t] = j.d
                 PROVE  Owns(t, j.ids[t])'
      BY DEF JobOwns, Later, Numbered
    <2>1. Owns(t, j.ids[t]) /\ Numbered(Home[t])
      BY DEF Inv, JobOwns
    <2>2. j.ids[t] \in Nat
      BY JobTypes DEF Inv
    <2>3. QED
      BY <2>1, <2>2, OwnsLater
  <1>2. ASSUME NEW t \in Tasks, Numbered(Home[t]), Home[t] \notin renumbered
        PROVE  Owns(t, row[t].id)' /\ (id'[t] = id[t] => Owns(t, id[t])')
    <2>1. Owns(t, row[t].id) /\ Owns(t, id[t]) /\ row[t].id \in Nat /\ id[t] \in Nat
      BY <1>2, WorldTypes DEF Inv, RowsOwn
    <2> DEFINE i == row[t].id
               k == id[t]
    <2>2. row'[t].id = i
      BY DEF Later
    <2>3. Owns(t, row[t].id)'
      <3>1. /\ i # 0 =>
                /\ i < nextId'[Home[t]]
                /\ \A u \in Tasks : Home[u] = Home[t] /\ u # t => id'[u] # i
                /\ \A g \in gone'[Home[t]] : g.id = i =>
                        g.at <= world'[t].at /\ (world'[t].present => g.at < world'[t].at)
        BY <2>1, <1>2, OwnsLater DEF Owns
      <3>2. QED
        BY <3>1, <2>2 DEF Owns
    <2>4. id'[t] = id[t] => Owns(t, id[t])'
      <3>1. /\ k # 0 =>
                /\ k < nextId'[Home[t]]
                /\ \A u \in Tasks : Home[u] = Home[t] /\ u # t => id'[u] # k
                /\ \A g \in gone'[Home[t]] : g.id = k =>
                        g.at <= world'[t].at /\ (world'[t].present => g.at < world'[t].at)
        BY <2>1, <1>2, OwnsLater DEF Owns
      <3>2. QED
        BY <3>1 DEF Owns
    <2>5. QED
      BY <2>3, <2>4
  <1>3. QED
    BY <1>1, <1>2

LEMMA LaterInv ==
    ASSUME Inv, Later, TypeOK', WorldInPast', Numbering', RowsOwn', \A j \in jobs : JobOwns(j)'
    PROVE  Inv'
  <1>1. RowsBehind' /\ CursorsBehind' /\ CursorNeverSkips' /\ RetiredOnlyWhenGone' /\ OneJob'
    BY LaterRows
  <1>2. ASSUME NEW j \in jobs PROVE JobInv(j)'
    BY LaterJob
  <1>3. jobs' = jobs
    BY DEF Later
  <1>4. (\A j \in jobs : JobInv(j) /\ JobOwns(j))'
    BY <1>2, <1>3
  <1>5. QED
    BY <1>1, <1>4 DEF Inv

LEMMA AddInv == ASSUME Inv, NEW t \in Tasks, Add(t) PROVE Inv'
  <1> DEFINE d == Home[t]
  <1>1. ~world[t].present /\ Becomes(t, TRUE)
        /\ UNCHANGED <<kind, gone, horizon, renumbered, serviceVars, faults, calls>>
        /\ IF Numbered(d) THEN /\ id' = [id EXCEPT ![t] = nextId[d]]
                               /\ nextId' = [nextId EXCEPT ![d] = @ + 1]
                          ELSE UNCHANGED <<id, nextId>>
    BY DEF Add
  <1>2. /\ Later /\ WorldInPast'
        /\ clock' \in [Downloaders -> Nat] /\ clock'[d] = clock[d] + 1
        /\ world' \in [Tasks -> [present : BOOLEAN, at : Nat]]
        /\ past' \in [Tasks -> SUBSET [present : BOOLEAN, at : Nat]]
        /\ world' = [world EXCEPT ![t] = [present |-> TRUE, at |-> clock[d] + 1]]
    BY <1>1, BecomesLater
  <1>3. /\ id \in [Tasks -> Nat] /\ nextId \in [Downloaders -> Nat \ {0}]
        /\ world \in [Tasks -> [present : BOOLEAN, at : Nat]]
        /\ d \in Downloaders /\ nextId[d] \in Nat \ {0} /\ clock[d] \in Nat
    BY HomeAssumption DEF Inv, TypeOK
  <1>4. id' \in [Tasks -> Nat] /\ nextId' \in [Downloaders -> Nat \ {0}]
    <2>1. nextId[d] + 1 \in Nat \ {0}
      BY <1>3
    <2>2. QED
      BY <2>1, <1>1, <1>3
  <1>5. TypeOK'
    <2>1. (\A j \in jobs : JobOK(j))' /\ (running = {j.d : j \in jobs})'
      BY <1>1, JobsStay DEF Inv, serviceVars
    <2>2. QED
      BY <1>1, <1>2, <1>4, <2>1 DEF Inv, TypeOK, serviceVars
  <1>6. /\ \A u \in Tasks : u # t => id'[u] = id[u] /\ world'[u] = world[u]
        /\ world'[t].present /\ world'[t].at = clock[d] + 1
        /\ Numbered(d) => id'[t] = nextId[d] /\ nextId'[d] = nextId[d] + 1
        /\ \A e \in Downloaders : nextId[e] <= nextId'[e] /\ nextId'[e] \in Nat
    <2>1. \A u \in Tasks : u # t => id'[u] = id[u] /\ world'[u] = world[u]
      BY <1>1, <1>2, <1>3
    <2>2. world'[t].present /\ world'[t].at = clock[d] + 1
      BY <1>2, <1>3
    <2>3. Numbered(d) => id'[t] = nextId[d] /\ nextId'[d] = nextId[d] + 1
      BY <1>1, <1>3
    <2>4. \A e \in Downloaders : e # d => nextId'[e] = nextId[e]
      BY <1>1, <1>3
    <2>5. ~Numbered(d) => nextId' = nextId
      BY <1>1
    <2>6. \A e \in Downloaders : nextId[e] \in Nat /\ nextId'[e] \in Nat
      BY <1>3, <1>4
    <2>7. \A e \in Downloaders : nextId[e] <= nextId'[e]
      BY <2>3, <2>4, <2>5, <2>6
    <2>8. QED
      BY <2>1, <2>2, <2>3, <2>6, <2>7
  <1>7. kind' = kind /\ gone' = gone /\ row' = row /\ renumbered' = renumbered
    BY <1>1 DEF serviceVars
  <1>8. NumbersMove
    <2>1. \A u \in Tasks : Numbered(Home[u]) => id'[u] = id[u] \/ id'[u] >= nextId[Home[u]]
      BY <1>6, <1>3
    <2>2. \A u \in Tasks : world'[u] = world[u] \/ world'[u].at > clock[Home[u]]
      BY <1>6, <1>3
    <2>3. QED
      BY <2>1, <2>2, <1>6, <1>7 DEF NumbersMove
  <1>9. (\A j \in jobs : JobOwns(j)')
        /\ \A u \in Tasks : Numbered(Home[u]) /\ Home[u] \notin renumbered =>
                    Owns(u, row[u].id)' /\ (id'[u] = id[u] => Owns(u, id[u])')
    BY <1>2, <1>5, <1>8, OwnersLater
  <1>10. Numbered(d) => \A u \in Tasks : Home[u] = d /\ world[u].present => id[u] < nextId[d] /\ id[u] # 0
    BY DEF Inv, Numbering
  <1>11. Numbering'
    <2> SUFFICES ASSUME NEW u \in Tasks, Numbered(Home[u])
                 PROVE  /\ \A g \in gone[Home[u]] : g.id < nextId'[Home[u]] /\ g.at <= clock'[Home[u]]
                        /\ world'[u].present =>
                            /\ id'[u] # 0 /\ id'[u] < nextId'[Home[u]]
                            /\ \A g \in gone[Home[u]] : g.id # id'[u]
                            /\ \A v \in Tasks :
                                Home[v] = Home[u] /\ world'[v].present /\ id'[v] = id'[u] => v = u
      BY <1>7 DEF Numbering, Numbered
    <2>1. /\ \A g \in gone[Home[u]] : g.id < nextId[Home[u]] /\ g.at <= clock[Home[u]]
          /\ world[u].present =>
                /\ id[u] # 0 /\ id[u] < nextId[Home[u]]
                /\ \A g \in gone[Home[u]] : g.id # id[u]
                /\ \A v \in Tasks :
                    Home[v] = Home[u] /\ world[v].present /\ id[v] = id[u] => v = u
      BY DEF Inv, Numbering
    <2>2. /\ Home[u] \in Downloaders /\ clock[Home[u]] \in Nat /\ clock'[Home[u]] \in Nat
          /\ nextId[Home[u]] \in Nat /\ id[u] \in Nat
          /\ \A g \in gone[Home[u]] : g.id \in Nat /\ g.at \in Nat
          /\ clock[Home[u]] <= clock'[Home[u]]
          /\ nextId[Home[u]] <= nextId'[Home[u]] /\ nextId'[Home[u]] \in Nat
      BY <1>2, <1>6, WorldTypes DEF Inv, Later
    <2>3. \A g \in gone[Home[u]] : g.id < nextId'[Home[u]] /\ g.at <= clock'[Home[u]]
      BY <2>1, <2>2
    <2>4. CASE u = t
      <3>1. id'[u] = nextId[Home[u]] /\ nextId'[Home[u]] = nextId[Home[u]] + 1 /\ nextId[Home[u]] # 0
        BY <2>4, <1>3, <1>6
      <3>2. \A v \in Tasks : Home[v] = Home[u] /\ world'[v].present /\ id'[v] = id'[u] => v = u
        BY <3>1, <2>2, <2>4, <1>6, <1>10
      <3>3. QED
        BY <3>1, <3>2, <2>1, <2>2, <2>3
    <2>5. CASE u # t
      <3>1. id'[u] = id[u] /\ world'[u] = world[u]
        BY <2>5, <1>6
      <3>2. world[u].present => \A v \in Tasks :
                Home[v] = Home[u] /\ world'[v].present /\ id'[v] = id'[u] => v = u
        BY <3>1, <2>1, <2>2, <1>6
      <3>3. QED
        BY <3>1, <3>2, <2>1, <2>2, <2>3
    <2>6. QED
      BY <2>4, <2>5
  <1>12. RowsOwn'
    <2> SUFFICES ASSUME NEW u \in Tasks, Numbered(Home[u]), Home[u] \notin renumbered
                 PROVE  Owns(u, id[u])' /\ Owns(u, row[u].id)'
      BY <1>7 DEF RowsOwn, Numbered
    <2>1. CASE u # t
      BY <2>1, <1>6, <1>9
    <2>2. CASE u = t
      <3>1. /\ \A v \in Tasks : Home[v] = d => id[v] < nextId[d]
            /\ \A g \in gone[d] : g.id < nextId[d] /\ g.id \in Nat
        BY <2>2, <1>3, WorldTypes DEF Inv, RowsOwn, Owns, Numbering
      <3>2. /\ id'[t] = nextId[d] /\ nextId'[d] = nextId[d] + 1
            /\ \A v \in Tasks : Home[v] = d => id[v] \in Nat
        BY <2>2, <1>3, <1>6
      <3>3. /\ id'[t] < nextId'[d]
            /\ \A v \in Tasks : Home[v] = d /\ v # t => id'[v] # id'[t]
            /\ \A g \in gone'[d] : g.id # id'[t]
        BY <3>1, <3>2, <1>3, <1>6, <1>7
      <3>4. Owns(t, id[t])'
        BY <3>3 DEF Owns
      <3>5. QED
        BY <3>4, <2>2, <1>9
    <2>3. QED
      BY <2>1, <2>2
  <1>13. QED
    BY <1>2, <1>5, <1>9, <1>11, <1>12, LaterInv

LEMMA ChangeInv == ASSUME Inv, NEW t \in Tasks, Change(t) PROVE Inv'
  <1> DEFINE d == Home[t]
  <1>1. world[t].present /\ Becomes(t, TRUE)
        /\ UNCHANGED <<kind, id, nextId, gone, horizon, renumbered, serviceVars, faults, calls>>
    BY DEF Change
  <1>2. /\ Later /\ WorldInPast'
        /\ clock' \in [Downloaders -> Nat] /\ clock'[d] = clock[d] + 1
        /\ world' \in [Tasks -> [present : BOOLEAN, at : Nat]]
        /\ past' \in [Tasks -> SUBSET [present : BOOLEAN, at : Nat]]
        /\ world' = [world EXCEPT ![t] = [present |-> TRUE, at |-> clock[d] + 1]]
    BY <1>1, BecomesLater
  <1>3. TypeOK'
    <2>1. (\A j \in jobs : JobOK(j))' /\ (running = {j.d : j \in jobs})'
      BY <1>1, JobsStay DEF Inv, serviceVars
    <2>2. QED
      BY <1>1, <1>2, <2>1 DEF Inv, TypeOK, serviceVars
  <1>4. world \in [Tasks -> [present : BOOLEAN, at : Nat]] /\ d \in Downloaders /\ clock[d] \in Nat
    BY HomeAssumption DEF Inv, TypeOK
  <1>5. /\ \A u \in Tasks : world'[u].present = world[u].present
        /\ \A u \in Tasks : u # t => world'[u] = world[u]
        /\ world'[t].at > clock[d]
    <2>1. \A u \in Tasks : u # t => world'[u] = world[u]
      BY <1>2, <1>4
    <2>2. world'[t] = [present |-> TRUE, at |-> clock[d] + 1]
      BY <1>2, <1>4
    <2>3. world'[t].present = TRUE /\ world'[t].at = clock[d] + 1
      BY <2>2
    <2>4. world[t].present = TRUE
      BY <1>1, <1>4
    <2>5. \A u \in Tasks : world'[u].present = world[u].present
      BY <2>1, <2>3, <2>4
    <2>6. QED
      BY <2>1, <2>3, <2>5, <1>4
  <1>6. kind' = kind /\ gone' = gone /\ row' = row /\ id' = id /\ nextId' = nextId /\ renumbered' = renumbered
    BY <1>1 DEF serviceVars
  <1>7. \A e \in Downloaders : nextId[e] \in Nat
    BY DEF Inv, TypeOK
  <1>8. NumbersMove
    BY <1>5, <1>6, <1>7 DEF NumbersMove
  <1>9. (\A j \in jobs : JobOwns(j)')
        /\ \A u \in Tasks : Numbered(Home[u]) /\ Home[u] \notin renumbered =>
                    Owns(u, row[u].id)' /\ (id'[u] = id[u] => Owns(u, id[u])')
    BY <1>2, <1>3, <1>8, OwnersLater
  <1>10. RowsOwn'
    BY <1>6, <1>9 DEF RowsOwn, Numbered
  <1>11. \A u \in Tasks : \A g \in gone[Home[u]] :
            g.at <= clock[Home[u]] => g.at <= clock'[Home[u]]
    <2> SUFFICES ASSUME NEW u \in Tasks, NEW g \in gone[Home[u]]
                 PROVE  g.at <= clock[Home[u]] => g.at <= clock'[Home[u]]
      OBVIOUS
    <2>1. Home[u] \in Downloaders /\ g.at \in Nat /\ clock[Home[u]] \in Nat /\ clock'[Home[u]] \in Nat
      BY <1>2, WorldTypes DEF Inv
    <2>2. QED
      BY <2>1, <1>2 DEF Later
  <1>12. Numbering'
    BY <1>5, <1>6, <1>11 DEF Inv, Numbering, Numbered
  <1>13. QED
    BY <1>2, <1>3, <1>9, <1>10, <1>12, LaterInv

LEMMA DeleteRemoteInv == ASSUME Inv, NEW t \in Tasks, DeleteRemote(t) PROVE Inv'
  <1> DEFINE d == Home[t]
             new == [id |-> id[t], at |-> clock'[d]]
  <1>1. /\ world[t].present /\ Becomes(t, FALSE)
        /\ gone' = IF Numbered(d) THEN [gone EXCEPT ![d] = @ \cup {new}] ELSE gone
        /\ UNCHANGED <<kind, id, nextId, horizon, renumbered, serviceVars, faults, calls>>
    BY DEF DeleteRemote
  <1>2. /\ Later /\ WorldInPast'
        /\ clock' \in [Downloaders -> Nat] /\ clock'[d] = clock[d] + 1
        /\ world' \in [Tasks -> [present : BOOLEAN, at : Nat]]
        /\ past' \in [Tasks -> SUBSET [present : BOOLEAN, at : Nat]]
        /\ world' = [world EXCEPT ![t] = [present |-> FALSE, at |-> clock[d] + 1]]
    BY <1>1, BecomesLater
  <1>3. /\ world \in [Tasks -> [present : BOOLEAN, at : Nat]] /\ d \in Downloaders
        /\ clock[d] \in Nat /\ clock'[d] \in Nat /\ id[t] \in Nat
        /\ gone \in [Downloaders -> SUBSET [id : Nat \ {0}, at : Nat]]
    BY <1>2, HomeAssumption DEF Inv, TypeOK
  <1>4. Numbered(d) => id[t] # 0 /\ id[t] < nextId[d]
    BY <1>1 DEF Inv, Numbering
  <1>5. gone' \in [Downloaders -> SUBSET [id : Nat \ {0}, at : Nat]]
    <2>1. CASE ~Numbered(d)
      BY <2>1, <1>1, <1>3
    <2>2. CASE Numbered(d)
      <3>1. new \in [id : Nat \ {0}, at : Nat]
        BY <2>2, <1>3, <1>4
      <3>2. gone[d] \cup {new} \in SUBSET [id : Nat \ {0}, at : Nat]
        BY <3>1, <1>3
      <3> HIDE DEF new
      <3>3. QED
        BY <3>2, <2>2, <1>1, <1>3
    <2>3. QED
      BY <2>1, <2>2
  <1>6. TypeOK'
    <2>1. (\A j \in jobs : JobOK(j))' /\ (running = {j.d : j \in jobs})'
      BY <1>1, JobsStay DEF Inv, serviceVars
    <2>2. QED
      BY <1>1, <1>2, <1>5, <2>1 DEF Inv, TypeOK, serviceVars
  <1>7. /\ \A u \in Tasks : u # t => world'[u] = world[u]
        /\ ~world'[t].present /\ world'[t].at = clock'[d] /\ world'[t].at > clock[d]
    BY <1>2, <1>3
  <1>8. kind' = kind /\ row' = row /\ id' = id /\ nextId' = nextId /\ renumbered' = renumbered
    BY <1>1 DEF serviceVars
  <1>9. \A u \in Tasks : Home[u] \in Downloaders /\ nextId[Home[u]] \in Nat
    BY WorldTypes DEF Inv
  <1>10. \A u \in Tasks : \A g \in gone'[Home[u]] :
            \/ g \in gone[Home[u]]
            \/ Home[u] = d /\ g = new /\ Numbered(d)
    <2>1. CASE ~Numbered(d)
      BY <2>1, <1>1
    <2>2. CASE Numbered(d)
      <3> HIDE DEF new
      <3>1. gone' = [gone EXCEPT ![d] = @ \cup {new}]
        BY <2>2, <1>1
      <3>2. QED
        BY <3>1, <2>2, <1>3, <1>9
    <2>3. QED
      BY <2>1, <2>2
  <1>11. new.id = id[t] /\ new.at = clock'[d]
    OBVIOUS
  <1> HIDE DEF new
  <1>12. NumbersMove
    <2>1. \A u \in Tasks : \A g \in gone'[Home[u]] :
            \/ g \in gone[Home[u]]
            \/ \E v \in Tasks : /\ Home[v] = Home[u] /\ g.id = id[v]
                                /\ g.at <= world'[v].at /\ ~world'[v].present
      BY <1>3, <1>7, <1>10, <1>11
    <2>2. \A u \in Tasks : world'[u] = world[u] \/ world'[u].at > clock[Home[u]]
      BY <1>7
    <2>3. \A e \in Downloaders : nextId[e] <= nextId'[e]
      BY <1>8 DEF Inv, TypeOK
    <2>4. QED
      BY <2>1, <2>2, <2>3, <1>8 DEF NumbersMove
  <1>13. (\A j \in jobs : JobOwns(j)')
        /\ \A u \in Tasks : Numbered(Home[u]) /\ Home[u] \notin renumbered =>
                    Owns(u, row[u].id)' /\ (id'[u] = id[u] => Owns(u, id[u])')
    BY <1>2, <1>6, <1>12, OwnersLater
  <1>14. RowsOwn'
    BY <1>8, <1>13 DEF RowsOwn, Numbered
  <1>15. Numbering'
    <2> SUFFICES ASSUME NEW u \in Tasks, Numbered(Home[u])
                 PROVE  /\ \A g \in gone'[Home[u]] : g.id < nextId[Home[u]] /\ g.at <= clock'[Home[u]]
                        /\ world'[u].present =>
                            /\ id[u] # 0 /\ id[u] < nextId[Home[u]]
                            /\ \A g \in gone'[Home[u]] : g.id # id[u]
                            /\ \A v \in Tasks :
                                Home[v] = Home[u] /\ world'[v].present /\ id[v] = id[u] => v = u
      BY <1>8 DEF Numbering, Numbered
    <2>1. /\ \A g \in gone[Home[u]] : g.id < nextId[Home[u]] /\ g.at <= clock[Home[u]]
          /\ world[u].present =>
                /\ id[u] # 0 /\ id[u] < nextId[Home[u]]
                /\ \A g \in gone[Home[u]] : g.id # id[u]
                /\ \A v \in Tasks :
                    Home[v] = Home[u] /\ world[v].present /\ id[v] = id[u] => v = u
      BY DEF Inv, Numbering
    <2>2. /\ clock[Home[u]] \in Nat /\ clock'[Home[u]] \in Nat /\ Home[u] \in Downloaders
          /\ \A g \in gone[Home[u]] : g.id \in Nat /\ g.at \in Nat
          /\ clock[Home[u]] <= clock'[Home[u]]
      BY <1>2, WorldTypes DEF Inv, Later
    <2>3. ASSUME NEW g \in gone'[Home[u]] PROVE g.id < nextId[Home[u]] /\ g.at <= clock'[Home[u]]
      <3>1. CASE g \in gone[Home[u]]
        BY <3>1, <2>1, <2>2
      <3>2. CASE g \notin gone[Home[u]]
        BY <3>2, <1>3, <1>4, <1>10, <1>11
      <3>3. QED
        BY <3>1, <3>2
    <2>4. \A v \in Tasks : world'[v].present => v # t /\ world[v].present
      BY <1>7
    <2>5. ASSUME world'[u].present, NEW g \in gone'[Home[u]] PROVE g.id # id[u]
      <3>1. CASE g \in gone[Home[u]]
        BY <3>1, <2>1, <2>4, <2>5
      <3>2. CASE g \notin gone[Home[u]]
        <4>1. Home[t] = Home[u] /\ g.id = id[t] /\ u # t
          BY <3>2, <2>4, <2>5, <1>10, <1>11
        <4>2. QED
          BY <4>1, <2>1, <2>4, <2>5, <1>1
      <3>3. QED
        BY <3>1, <3>2
    <2>6. QED
      BY <2>1, <2>3, <2>4, <2>5
  <1>16. QED
    BY <1>2, <1>6, <1>13, <1>14, <1>15, LaterInv

LEMMA AgeInv == ASSUME Inv, NEW d \in Downloaders, Age(d) PROVE Inv'
  <1>1. /\ horizon' = [horizon EXCEPT ![d] = clock[d]]
        /\ UNCHANGED <<kind, clock, world, past, id, nextId, gone, renumbered, serviceVars, faults, calls>>
    BY DEF Age
  <1>2. horizon' \in [Downloaders -> Nat]
    BY <1>1 DEF Inv, TypeOK
  <1>3. TypeOK'
    <2>1. (\A j \in jobs : JobOK(j))' /\ (running = {j.d : j \in jobs})'
      BY <1>1, JobsStay DEF Inv, serviceVars
    <2>2. QED
      BY <1>1, <1>2, <2>1 DEF Inv, TypeOK, serviceVars
  <1>4. Later
    <2>1. \A e \in Downloaders : clock[e] <= clock'[e]
      BY <1>1 DEF Inv, TypeOK
    <2>2. \A t \in Tasks : world[t].at \in Nat
      BY WorldTypes DEF Inv
    <2>3. QED
      BY <1>1, <2>1, <2>2 DEF Later, serviceVars
  <1>5. WorldInPast' /\ Numbering' /\ RowsOwn'
    BY <1>1 DEF Inv, WorldInPast, Numbering, RowsOwn, Owns, Numbered, serviceVars
  <1>6. \A j \in jobs : JobOwns(j)'
    BY <1>1 DEF Inv, JobOwns, Owns, Numbered
  <1>7. QED
    BY <1>3, <1>4, <1>5, <1>6, LaterInv

LEMMA DaemonRestartInv == ASSUME Inv, NEW d \in Downloaders, DaemonRestart(d) PROVE Inv'
  <1>1. /\ Numbered(d)
        /\ nextId' = [nextId EXCEPT ![d] = Cardinality(Present(d)) + 1]
        /\ gone' = [gone EXCEPT ![d] = {}]
        /\ renumbered' = renumbered \cup {d}
        /\ faults' = faults + 1
        /\ UNCHANGED <<kind, clock, world, past, horizon, serviceVars, calls>>
    BY DEF DaemonRestart
  <1>2. PICK number \in Numberings(d) :
            id' = [t \in Tasks |-> IF t \in Present(d) THEN number[t] ELSE id[t]]
    BY DEF DaemonRestart
  <1> DEFINE n == Cardinality(Present(d))
  <1>3. n \in Nat
    <2>1. IsFiniteSet(Present(d))
      BY FiniteAssumption, FS_Subset DEF Present, TasksOf
    <2>2. QED
      BY <2>1, FS_CardinalityType
  <1> HIDE DEF n
  <1>4. number \in [Present(d) -> 1..n] /\ \A t, u \in Present(d) : number[t] = number[u] => t = u
    BY <1>2 DEF Numberings, IsInjective, n
  <1>5. /\ id \in [Tasks -> Nat] /\ nextId \in [Downloaders -> Nat \ {0}]
        /\ gone \in [Downloaders -> SUBSET [id : Nat \ {0}, at : Nat]]
        /\ faults \in Nat /\ renumbered \subseteq Downloaders
    BY DEF Inv, TypeOK
  <1>6. /\ \A t \in Present(d) : number[t] \in Nat /\ number[t] # 0 /\ number[t] < n + 1
    BY <1>3, <1>4
  <1>7. id' \in [Tasks -> Nat] /\ nextId' \in [Downloaders -> Nat \ {0}]
        /\ gone' \in [Downloaders -> SUBSET [id : Nat \ {0}, at : Nat]]
        /\ faults' \in Nat /\ renumbered' \subseteq Downloaders
    <2>1. id' \in [Tasks -> Nat]
      BY <1>2, <1>5, <1>6
    <2>2. n + 1 \in Nat \ {0}
      BY <1>3
    <2>3. nextId' \in [Downloaders -> Nat \ {0}]
      BY <2>2, <1>1, <1>5 DEF n
    <2>4. QED
      BY <2>1, <2>3, <1>1, <1>5
  <1>8. TypeOK'
    <2>1. (\A j \in jobs : JobOK(j))' /\ (running = {j.d : j \in jobs})'
      BY <1>1, JobsStay DEF Inv, serviceVars
    <2>2. QED
      BY <1>1, <1>7, <2>1 DEF Inv, TypeOK, serviceVars
  <1>9. Later
    <2>1. \A e \in Downloaders : clock[e] <= clock'[e]
      BY <1>1 DEF Inv, TypeOK
    <2>2. \A t \in Tasks : world[t].at \in Nat
      BY WorldTypes DEF Inv
    <2>3. QED
      BY <1>1, <2>1, <2>2 DEF Later, serviceVars
  <1>10. WorldInPast'
    BY <1>1 DEF Inv, WorldInPast
  <1>11. /\ \A t \in Tasks : Home[t] \in Downloaders
         /\ \A t \in Tasks : Home[t] = d => nextId'[Home[t]] = n + 1 /\ gone'[Home[t]] = {}
         /\ \A t \in Tasks : Home[t] # d =>
                nextId'[Home[t]] = nextId[Home[t]] /\ gone'[Home[t]] = gone[Home[t]] /\ id'[t] = id[t]
         /\ \A t \in Tasks : Home[t] = d /\ world[t].present => t \in Present(d) /\ id'[t] = number[t]
    <2>1. \A t \in Tasks : Home[t] \in Downloaders
      BY HomeAssumption
    <2>2. \A t \in Tasks : t \in Present(d) <=> Home[t] = d /\ world[t].present
      BY DEF Present, TasksOf
    <2>3. QED
      BY <2>1, <2>2, <1>1, <1>2, <1>5 DEF n
  <1>12. Numbering'
    <2> SUFFICES ASSUME NEW t \in Tasks, Numbered(Home[t])
                 PROVE  /\ \A g \in gone'[Home[t]] : g.id < nextId'[Home[t]] /\ g.at <= clock[Home[t]]
                        /\ world[t].present =>
                            /\ id'[t] # 0 /\ id'[t] < nextId'[Home[t]]
                            /\ \A g \in gone'[Home[t]] : g.id # id'[t]
                            /\ \A u \in Tasks :
                                Home[u] = Home[t] /\ world[u].present /\ id'[u] = id'[t] => u = t
      BY <1>1 DEF Numbering, Numbered
    <2>1. CASE Home[t] = d
      BY <2>1, <1>4, <1>6, <1>11
    <2>2. CASE Home[t] # d
      BY <2>2, <1>11 DEF Inv, Numbering
    <2>3. QED
      BY <2>1, <2>2
  <1>13. RowsOwn'
    <2> SUFFICES ASSUME NEW t \in Tasks, Numbered(Home[t]), Home[t] \notin renumbered, Home[t] # d
                 PROVE  Owns(t, id[t])' /\ Owns(t, row[t].id)'
      BY <1>1 DEF RowsOwn, Numbered
    <2>1. Owns(t, id[t]) /\ Owns(t, row[t].id)
      BY DEF Inv, RowsOwn
    <2>2. row' = row /\ world' = world
      BY <1>1 DEF serviceVars
    <2>3. QED
      BY <2>1, <2>2, <1>11 DEF Owns
  <1>14. ASSUME NEW j \in jobs PROVE JobOwns(j)'
    <2> SUFFICES ASSUME Numbered(j.d), j.d \notin renumbered, j.d # d, NEW t \in Tasks, Home[t] = j.d
                 PROVE  Owns(t, j.ids[t])'
      BY <1>1 DEF JobOwns, Numbered
    <2>1. Owns(t, j.ids[t])
      BY DEF Inv, JobOwns
    <2>2. world' = world
      BY <1>1
    <2>3. QED
      BY <2>1, <2>2, <1>11 DEF Owns
  <1>15. QED
    BY <1>8, <1>9, <1>10, <1>12, <1>13, <1>14, LaterInv

\* The service works on its jobs while nothing else moves.
Quiet == UNCHANGED <<kind, daemonVars, row, cursor>>

LEMMA QuietInv ==
    ASSUME Inv, Quiet, TypeOK', OneJob',
           \A k \in jobs' : k \in jobs \/ (JobInv(k) /\ JobOwns(k))
    PROVE  Inv'
  <1>1. /\ kind' = kind /\ clock' = clock /\ world' = world /\ past' = past /\ id' = id
        /\ nextId' = nextId /\ gone' = gone /\ renumbered' = renumbered
        /\ row' = row /\ cursor' = cursor
    BY DEF Quiet, daemonVars
  <1>2. ASSUME NEW k \in jobs' PROVE JobInv(k)' /\ JobOwns(k)'
    <2>1. JobInv(k) /\ JobOwns(k)
      BY <1>2 DEF Inv
    <2>2. Stage(k)' /\ Seen(k)'
      BY <2>1, <1>1 DEF JobInv, Stage, Seen
    <2>3. Removals(k)' /\ Covers(k)'
      BY <2>1, <1>1 DEF JobInv, Removals, Covers, Numbered
    <2>4. JobOwns(k)'
      BY <2>1, <1>1 DEF JobOwns, Owns, Numbered
    <2>5. QED
      BY <2>2, <2>3, <2>4 DEF JobInv
  <1>3. (\A k \in jobs : JobInv(k) /\ JobOwns(k))'
    BY <1>2
  <1>4. WorldInPast' /\ RowsBehind' /\ CursorsBehind'
    BY <1>1 DEF Inv, WorldInPast, RowsBehind, CursorsBehind
  <1>5. Numbering' /\ RowsOwn'
    BY <1>1 DEF Inv, Numbering, RowsOwn, Owns, Numbered
  <1>6. CursorNeverSkips' /\ RetiredOnlyWhenGone'
    BY <1>1 DEF Inv, CursorNeverSkips, RetiredOnlyWhenGone, Shows, Numbered
  <1>7. QED
    BY <1>3, <1>4, <1>5, <1>6 DEF Inv

\* The types of what Quiet leaves alone.
LEMMA QuietTypes ==
    ASSUME TypeOK, Quiet, due' \subseteq Downloaders, running' = {k.d : k \in jobs'},
           \A k \in jobs' : k \in jobs \/ JobOK(k), faults' \in Nat, calls' \in Nat
    PROVE  TypeOK'
  <1>1. /\ kind' = kind /\ clock' = clock /\ world' = world /\ past' = past /\ id' = id
        /\ nextId' = nextId /\ gone' = gone /\ horizon' = horizon /\ renumbered' = renumbered
        /\ row' = row /\ cursor' = cursor
    BY DEF Quiet, daemonVars
  <1>2. ASSUME NEW k \in jobs' PROVE JobOK(k)'
    <2>1. JobOK(k)
      BY <1>2 DEF TypeOK
    <2>2. QED
      BY <2>1, <1>1 DEF JobOK, Numbered
  <1>3. (\A k \in jobs : JobOK(k))'
    BY <1>2
  <1>4. QED
    BY <1>1, <1>3 DEF TypeOK

LEMMA Replaced ==
    ASSUME Inv, NEW j \in jobs, NEW k, Replace(j, k), k.d = j.d,
           JobOK(k), JobInv(k), JobOwns(k),
           UNCHANGED <<kind, daemonVars, row, cursor, due, running, faults, calls>>
    PROVE  Inv'
  <1>1. jobs' = (jobs \ {j}) \cup {k}
    BY DEF Replace
  <1>2. Quiet
    BY DEF Quiet
  <1>3. running = {i.d : i \in jobs} /\ due \subseteq Downloaders /\ faults \in Nat /\ calls \in Nat
    BY DEF Inv, TypeOK
  <1>4. running' = {i.d : i \in jobs'}
    BY <1>1, <1>3
  <1>5. TypeOK'
    BY <1>1, <1>2, <1>3, <1>4, QuietTypes DEF Inv
  <1>6. OneJob'
    BY <1>1 DEF Inv, OneJob
  <1>7. QED
    BY <1>1, <1>2, <1>5, <1>6, QuietInv

\* What an answer says of a task that is read now.
LEMMA ReadNow ==
    ASSUME Inv, NEW t \in Tasks
    PROVE  /\ row[t].at <= world[t].at /\ world[t].at <= clock[Home[t]]
           /\ \E s \in past[t] : s.at = world[t].at
           /\ \A s \in past[t] : s.at <= world[t].at
           /\ world[t].present => [present |-> TRUE, at |-> world[t].at] \in past[t]
           /\ ~world[t].present => [present |-> FALSE, at |-> world[t].at] \in past[t]
  <1>1. /\ world[t] = [present |-> world[t].present, at |-> world[t].at]
        /\ world[t].present \in BOOLEAN
    BY WorldTypes DEF Inv
  <1>2. world[t] \in past[t] /\ row[t].at <= world[t].at /\ world[t].at <= clock[Home[t]]
        /\ \A s \in past[t] : s.at <= world[t].at
    BY DEF Inv, WorldInPast, RowsBehind
  <1>3. CASE world[t].present
    BY <1>1, <1>2, <1>3
  <1>4. CASE ~world[t].present
    BY <1>1, <1>2, <1>4
  <1>5. QED
    BY <1>3, <1>4

\* The tasks of a downloader, and those of them that are there.
LEMMA WhoseTasks ==
    ASSUME NEW d, NEW t \in Tasks
    PROVE  /\ t \in TasksOf(d) <=> Home[t] = d
           /\ t \in Present(d) <=> Home[t] = d /\ world[t].present
  BY DEF TasksOf, Present

LEMMA ReadAllInv == ASSUME Inv, NEW j \in jobs, ReadAll(j) PROVE Inv'
  <1> DEFINE seen == Stamps(TasksOf(j.d))
             ids == [t \in TasksOf(j.d) |-> id[t]]
             k == [j EXCEPT !.step = "read", !.complete = TRUE, !.batch = Present(j.d),
                            !.seen = seen, !.ids = ids]
  <1>1. /\ j.step = "asking" /\ j.full /\ Replace(j, k)
        /\ UNCHANGED <<kind, daemonVars, row, cursor, due, running, faults, calls>>
    BY DEF ReadAll
  <1>2. JobOK(j) /\ JobInv(j) /\ JobOwns(j)
    BY DEF Inv, TypeOK
  <1>3. /\ k.d = j.d /\ k.full = j.full /\ k.barrier = j.barrier /\ k.step = "read"
        /\ k.since = j.since /\ k.next = j.next /\ k.complete = TRUE /\ k.batch = Present(j.d)
        /\ k.removed = j.removed /\ k.removedIds = j.removedIds /\ k.seen = seen /\ k.ids = ids
    BY <1>2 DEF JobOK
  <1>4. j.removed = {} /\ j.removedIds = {} /\ j.since <= clock[j.d] /\ j.next <= clock[j.d]
    BY <1>1, <1>2 DEF JobInv, Stage
  <1>5. \A t \in Tasks : Home[t] = j.d => seen[t] = world[t].at /\ ids[t] = id[t]
    BY WhoseTasks DEF Stamps
  <1>6. JobOK(k)
    <2>1. seen \in [TasksOf(j.d) -> Nat] /\ ids \in [TasksOf(j.d) -> Nat]
      BY DEF Inv, TypeOK, TasksOf, Stamps
    <2>2. Present(j.d) \in SUBSET TasksOf(j.d)
      BY DEF Present
    <2> HIDE DEF seen, ids
    <2>3. k \in [d : Downloaders, full : BOOLEAN, barrier : BOOLEAN,
                 step : {"asking", "listed", "read"}, since : Nat, next : Nat,
                 complete : BOOLEAN, batch : SUBSET TasksOf(j.d),
                 removed : {j.removed}, removedIds : {j.removedIds},
                 seen : [TasksOf(j.d) -> Nat], ids : [TasksOf(j.d) -> Nat]]
      BY <1>2, <2>1, <2>2 DEF JobOK
    <2> HIDE DEF k
    <2>4. QED
      BY <1>1, <1>3, <1>4, <2>3 DEF JobOK
  <1> HIDE DEF k, seen, ids
  <1>7. Stage(k)
    BY <1>3, <1>4 DEF Stage
  <1>8. Seen(k)
    BY <1>3, <1>4, <1>5, ReadNow, WhoseTasks DEF Seen
  <1>9. Removals(k)
    BY <1>3, <1>4 DEF Removals
  <1>10. Covers(k)
    BY <1>3, <1>4, <1>5, ReadNow DEF Covers
  <1>11. JobOwns(k)
    <2> SUFFICES ASSUME Numbered(j.d), j.d \notin renumbered, NEW t \in Tasks, Home[t] = j.d
                 PROVE  Owns(t, id[t])
      BY <1>3, <1>5 DEF JobOwns
    <2>1. QED
      BY DEF Inv, RowsOwn
  <1>12. QED
    BY <1>1, <1>3, <1>6, <1>7, <1>8, <1>9, <1>10, <1>11, Replaced DEF JobInv

LEMMA ReadMainInv == ASSUME Inv, NEW j \in jobs, ReadMain(j) PROVE Inv'
  <1>1. PICK complete \in {c \in BOOLEAN : j.next = 0 => c} :
            LET told == {t \in TasksOf(j.d) : complete \/ world[t].at > j.next}
            IN  Replace(j, [j EXCEPT !.step = IF told \cap Present(j.d) = {} THEN "read" ELSE "listed",
                                     !.complete = complete, !.next = clock[j.d],
                                     !.batch = told \cap Present(j.d),
                                     !.removed = IF complete THEN {} ELSE told \ Present(j.d),
                                     !.seen = Stamps(TasksOf(j.d))])
    BY DEF ReadMain
  <1> DEFINE told == {t \in TasksOf(j.d) : complete \/ world[t].at > j.next}
             step == IF told \cap Present(j.d) = {} THEN "read" ELSE "listed"
             now == clock[j.d]
             batch == told \cap Present(j.d)
             removed == IF complete THEN {} ELSE told \ Present(j.d)
             seen == Stamps(TasksOf(j.d))
             k == [j EXCEPT !.step = step, !.complete = complete, !.next = now,
                            !.batch = batch, !.removed = removed, !.seen = seen]
  <1>2. /\ j.step = "asking" /\ ~j.full /\ ~Numbered(j.d) /\ Replace(j, k)
        /\ UNCHANGED <<kind, daemonVars, row, cursor, due, running, faults, calls>>
    BY <1>1 DEF ReadMain
  <1>3. JobOK(j) /\ JobInv(j) /\ complete \in BOOLEAN
    BY <1>1 DEF Inv, TypeOK
  <1>4. /\ j.batch = {} /\ j.removed = {} /\ ~j.complete /\ j.removedIds = {}
        /\ j.since <= now /\ j.next <= now /\ j.next \in Nat
    BY <1>2, <1>3 DEF JobInv, Stage, JobOK
  <1>5. \A t \in Tasks : Home[t] = j.d =>
            /\ seen[t] = world[t].at
            /\ t \in batch <=> (complete \/ world[t].at > j.next) /\ world[t].present
            /\ t \in removed <=> ~complete /\ world[t].at > j.next /\ ~world[t].present
    BY WhoseTasks DEF Stamps
  <1>6. /\ seen \in [TasksOf(j.d) -> Nat] /\ now \in Nat /\ step \in {"listed", "read"}
        /\ batch \in SUBSET TasksOf(j.d) /\ removed \in SUBSET (TasksOf(j.d) \ batch)
    <2>1. j.d \in Downloaders
      BY JobTypes DEF Inv
    <2>2. seen \in [TasksOf(j.d) -> Nat] /\ now \in Nat
      BY <2>1 DEF Inv, TypeOK, TasksOf, Stamps
    <2>3. QED
      BY <2>2
  <1> HIDE DEF told, step, now, batch, removed, seen
  <1>7. /\ k.d = j.d /\ k.full = j.full /\ k.barrier = j.barrier /\ k.step = step
        /\ k.since = j.since /\ k.next = now /\ k.complete = complete /\ k.batch = batch
        /\ k.removed = removed /\ k.removedIds = j.removedIds /\ k.seen = seen /\ k.ids = j.ids
    BY <1>3 DEF JobOK
  <1>8. JobOK(k)
    <2>1. k \in [d : Downloaders, full : BOOLEAN, barrier : BOOLEAN,
                 step : {"asking", "listed", "read"}, since : Nat, next : Nat,
                 complete : BOOLEAN, batch : SUBSET TasksOf(j.d),
                 removed : SUBSET (TasksOf(j.d) \ batch), removedIds : SUBSET (Nat \ {0}),
                 seen : [TasksOf(j.d) -> Nat], ids : [TasksOf(j.d) -> Nat]]
      BY <1>3, <1>6 DEF JobOK
    <2> HIDE DEF k
    <2>2. QED
      BY <1>2, <1>7, <2>1 DEF JobOK
  <1> HIDE DEF k
  <1>9. Stage(k)
    <2>1. now <= now
      BY <1>6
    <2>2. QED
      BY <1>2, <1>4, <1>6, <1>7, <2>1 DEF Stage, now
  <1>10. Seen(k)
    BY <1>5, <1>7, ReadNow DEF Seen
  <1>11. Removals(k) /\ JobOwns(k)
    BY <1>2, <1>7 DEF Removals, JobOwns
  <1>12. Covers(k)
    <2> SUFFICES ASSUME NEW t \in Tasks, Home[t] = j.d, NEW s \in past[t]
                 PROVE  \/ s.at <= row[t].at
                        \/ /\ s.at <= seen[t]
                           /\ complete \/ t \in batch \/ t \in removed
      BY <1>4, <1>7 DEF Covers
    <2>1. s.at <= world[t].at
      BY ReadNow
    <2>2. CASE complete \/ world[t].at > j.next
      <3>1. world[t].present \in BOOLEAN
        BY WorldTypes DEF Inv
      <3>2. QED
        BY <2>1, <2>2, <3>1, <1>5
    <2>3. CASE ~(complete \/ world[t].at > j.next)
      <3>1. world[t].at \in Nat /\ s.at \in Nat
        BY WorldTypes DEF Inv
      <3>2. s.at <= j.next
        BY <2>1, <2>3, <3>1, <1>4
      <3>3. s.at <= row[t].at
        BY <3>2, <1>2, <1>3, <1>4 DEF JobInv, Covers
      <3>4. QED
        BY <3>3
    <2>4. QED
      BY <2>2, <2>3
  <1>13. QED
    BY <1>2, <1>7, <1>8, <1>9, <1>10, <1>11, <1>12, Replaced DEF JobInv

LEMMA ReadInfoInv == ASSUME Inv, NEW j \in jobs, ReadInfo(j) PROVE Inv'
  <1> DEFINE batch == j.batch \cap Present(j.d)
             removed == j.removed \cup (j.batch \ Present(j.d))
             seen == [t \in TasksOf(j.d) |-> IF t \in j.batch THEN world[t].at ELSE j.seen[t]]
             k == [j EXCEPT !.step = "read", !.batch = batch, !.removed = removed, !.seen = seen]
  <1>1. JobOK(j) /\ JobInv(j)
    BY DEF Inv, TypeOK
  <1>2. /\ j.step = "listed" /\ ~j.full /\ ~Numbered(j.d) /\ Replace(j, k)
        /\ UNCHANGED <<kind, daemonVars, row, cursor, due, running, faults, calls>>
    <2>1. j.step = "listed"
          /\ Replace(j, [j EXCEPT !.step = "read",
                            !.batch = @ \cap Present(j.d),
                            !.removed = @ \cup (j.batch \ Present(j.d)),
                            !.seen = [t \in TasksOf(j.d) |->
                                          IF t \in j.batch THEN world[t].at ELSE j.seen[t]]])
          /\ UNCHANGED <<kind, daemonVars, row, cursor, due, running, faults, calls>>
      BY DEF ReadInfo
    <2>2. k = [j EXCEPT !.step = "read",
                        !.batch = @ \cap Present(j.d),
                        !.removed = @ \cup (j.batch \ Present(j.d)),
                        !.seen = [t \in TasksOf(j.d) |->
                                      IF t \in j.batch THEN world[t].at ELSE j.seen[t]]]
      OBVIOUS
    <2>3. QED
      BY <1>1, <2>1, <2>2 DEF JobOK
  <1>3. /\ j.removedIds = {} /\ j.since <= clock[j.d] /\ j.next <= clock[j.d]
        /\ j.batch \subseteq TasksOf(j.d) /\ j.removed \subseteq TasksOf(j.d) \ j.batch
    BY <1>1, <1>2 DEF JobInv, Stage, JobOK
  <1>4. \A t \in Tasks : Home[t] = j.d =>
            /\ seen[t] = IF t \in j.batch THEN world[t].at ELSE j.seen[t]
            /\ t \in batch <=> t \in j.batch /\ world[t].present
            /\ t \in removed <=> t \in j.removed \/ (t \in j.batch /\ ~world[t].present)
    BY WhoseTasks
  <1>5. /\ seen \in [TasksOf(j.d) -> Nat]
        /\ batch \in SUBSET TasksOf(j.d) /\ removed \in SUBSET (TasksOf(j.d) \ batch)
    <2>1. \A t \in TasksOf(j.d) : world[t].at \in Nat /\ j.seen[t] \in Nat
      BY JobTypes, WorldTypes DEF Inv, TasksOf
    <2>2. seen \in [TasksOf(j.d) -> Nat]
      BY <2>1
    <2>3. QED
      BY <2>2, <1>3
  <1> HIDE DEF batch, removed, seen
  <1>6. /\ k.d = j.d /\ k.full = j.full /\ k.barrier = j.barrier /\ k.step = "read"
        /\ k.since = j.since /\ k.next = j.next /\ k.complete = j.complete /\ k.batch = batch
        /\ k.removed = removed /\ k.removedIds = j.removedIds /\ k.seen = seen /\ k.ids = j.ids
    BY <1>1 DEF JobOK
  <1>7. JobOK(k)
    <2>1. k \in [d : Downloaders, full : BOOLEAN, barrier : BOOLEAN,
                 step : {"asking", "listed", "read"}, since : Nat, next : Nat,
                 complete : BOOLEAN, batch : SUBSET TasksOf(j.d),
                 removed : SUBSET (TasksOf(j.d) \ batch), removedIds : SUBSET (Nat \ {0}),
                 seen : [TasksOf(j.d) -> Nat], ids : [TasksOf(j.d) -> Nat]]
      BY <1>1, <1>5 DEF JobOK
    <2> HIDE DEF k
    <2>2. QED
      BY <1>2, <1>6, <2>1 DEF JobOK
  <1> HIDE DEF k
  <1>8. Stage(k)
    BY <1>2, <1>3, <1>6 DEF Stage
  <1>9. ASSUME NEW t \in Tasks, Home[t] = j.d
        PROVE  /\ row[t].at <= seen[t] /\ seen[t] <= world[t].at /\ j.seen[t] <= seen[t]
               /\ \E s \in past[t] : s.at = seen[t]
               /\ \A s \in past[t] : s.at <= j.since => s.at <= seen[t]
               /\ t \in batch => [present |-> TRUE, at |-> seen[t]] \in past[t]
               /\ t \in removed \/ (j.complete /\ t \notin batch) =>
                        [present |-> FALSE, at |-> seen[t]] \in past[t]
    <2>1. /\ row[t].at <= j.seen[t] /\ j.seen[t] <= world[t].at
          /\ \E s \in past[t] : s.at = j.seen[t]
          /\ \A s \in past[t] : s.at <= j.since => s.at <= j.seen[t]
          /\ t \in j.removed \/ (j.complete /\ t \notin j.batch) =>
                [present |-> FALSE, at |-> j.seen[t]] \in past[t]
      BY <1>1, <1>9 DEF JobInv, Seen
    <2>2. j.seen[t] \in Nat /\ world[t].at \in Nat
      BY <1>9, JobTypes, WorldTypes DEF Inv
    <2>3. CASE t \in j.batch
      <3>1. seen[t] = world[t].at /\ t \notin j.removed
        BY <2>3, <1>3, <1>4, <1>9
      <3>2. QED
        BY <2>1, <2>2, <2>3, <3>1, <1>4, <1>9, ReadNow
    <2>4. CASE t \notin j.batch
      <3>1. seen[t] = j.seen[t] /\ t \notin batch /\ (t \in removed <=> t \in j.removed)
        BY <2>4, <1>4, <1>9
      <3>2. seen[t] <= j.seen[t] /\ j.seen[t] <= seen[t]
        BY <2>2, <3>1
      <3>3. QED
        BY <2>1, <2>4, <3>1, <3>2
    <2>5. QED
      BY <2>3, <2>4
  <1>10. Seen(k)
    BY <1>6, <1>9 DEF Seen
  <1>11. Removals(k) /\ JobOwns(k)
    BY <1>2, <1>6 DEF Removals, JobOwns
  <1>12. Covers(k)
    <2> SUFFICES ASSUME NEW t \in Tasks, Home[t] = j.d, NEW s \in past[t], s.at <= j.next
                 PROVE  \/ s.at <= row[t].at
                        \/ /\ s.at <= seen[t]
                           /\ j.complete \/ t \in batch \/ t \in removed
      BY <1>3, <1>6 DEF Covers
    <2>1. \/ s.at <= row[t].at
          \/ /\ s.at <= j.seen[t]
             /\ j.complete \/ t \in j.batch \/ t \in j.removed
      BY <1>1, <1>2 DEF JobInv, Covers
    <2>2. j.seen[t] <= seen[t] /\ s.at \in Nat /\ j.seen[t] \in Nat /\ seen[t] \in Nat
      <3>1. t \in TasksOf(j.d)
        BY DEF TasksOf
      <3>2. QED
        BY <3>1, <1>5, <1>9, JobTypes, WorldTypes DEF Inv
    <2>3. QED
      BY <2>1, <2>2, <1>4
  <1>13. QED
    BY <1>2, <1>6, <1>7, <1>8, <1>10, <1>11, <1>12, Replaced DEF JobInv

LEMMA ReadRecentInv == ASSUME Inv, NEW j \in jobs, ReadRecent(j) PROVE Inv'
  <1> DEFINE removedIds == {g.id : g \in {h \in gone[j.d] : h.at > horizon[j.d]}}
             seen == Stamps(TasksOf(j.d))
             ids == [t \in TasksOf(j.d) |-> id[t]]
  <1>1. PICK batch \in {S \in SUBSET Present(j.d) : Recent(j.d) \subseteq S} :
            Replace(j, [j EXCEPT !.step = "read", !.batch = batch, !.removedIds = removedIds,
                                 !.seen = seen, !.ids = ids])
    BY DEF ReadRecent
  <1> DEFINE k == [j EXCEPT !.step = "read", !.batch = batch, !.removedIds = removedIds,
                            !.seen = seen, !.ids = ids]
  <1>2. /\ j.step = "asking" /\ ~j.full /\ Numbered(j.d) /\ Replace(j, k)
        /\ UNCHANGED <<kind, daemonVars, row, cursor, due, running, faults, calls>>
    BY <1>1 DEF ReadRecent
  <1>3. JobOK(j) /\ JobInv(j)
    BY DEF Inv, TypeOK
  <1>4. /\ j.batch = {} /\ j.removed = {} /\ ~j.complete /\ j.d \in Downloaders
        /\ j.since <= clock[j.d] /\ j.next <= clock[j.d]
    BY <1>2, <1>3 DEF JobInv, Stage, JobOK
  <1>5. \A t \in Tasks : Home[t] = j.d => seen[t] = world[t].at /\ ids[t] = id[t]
    BY WhoseTasks DEF Stamps
  <1>6. /\ seen \in [TasksOf(j.d) -> Nat] /\ ids \in [TasksOf(j.d) -> Nat]
        /\ batch \in SUBSET TasksOf(j.d) /\ removedIds \in SUBSET (Nat \ {0})
    <2>1. seen \in [TasksOf(j.d) -> Nat] /\ ids \in [TasksOf(j.d) -> Nat]
      BY DEF Inv, TypeOK, TasksOf, Stamps
    <2>2. gone[j.d] \subseteq [id : Nat \ {0}, at : Nat]
      BY <1>4 DEF Inv, TypeOK
    <2>3. QED
      BY <2>1, <2>2 DEF Present
  <1>7. \A i \in removedIds : \E g \in gone[j.d] : g.at > horizon[j.d] /\ g.id = i
    OBVIOUS
  <1> HIDE DEF removedIds, seen, ids
  <1>8. /\ k.d = j.d /\ k.full = j.full /\ k.barrier = j.barrier /\ k.step = "read"
        /\ k.since = j.since /\ k.next = j.next /\ k.complete = j.complete /\ k.batch = batch
        /\ k.removed = j.removed /\ k.removedIds = removedIds /\ k.seen = seen /\ k.ids = ids
    BY <1>3 DEF JobOK
  <1>9. JobOK(k)
    <2>1. k \in [d : Downloaders, full : BOOLEAN, barrier : BOOLEAN,
                 step : {"asking", "listed", "read"}, since : Nat, next : Nat,
                 complete : BOOLEAN, batch : SUBSET TasksOf(j.d),
                 removed : {j.removed}, removedIds : SUBSET (Nat \ {0}),
                 seen : [TasksOf(j.d) -> Nat], ids : [TasksOf(j.d) -> Nat]]
      BY <1>3, <1>6 DEF JobOK
    <2> HIDE DEF k
    <2>2. QED
      BY <1>4, <1>8, <2>1 DEF JobOK
  <1> HIDE DEF k
  <1>10. Stage(k)
    BY <1>2, <1>4, <1>8 DEF Stage
  <1>11. \A t \in batch : t \in Tasks /\ Home[t] = j.d /\ world[t].present
    BY DEF Present, TasksOf
  <1>12. Seen(k)
    BY <1>4, <1>5, <1>8, <1>11, ReadNow DEF Seen
  <1>13. Removals(k)
    <2> SUFFICES ASSUME j.d \notin renumbered, NEW t \in Tasks, Home[t] = j.d
                 PROVE  /\ t \in batch => id[t] \notin removedIds
                        /\ t \notin batch /\ row[t].id \in removedIds =>
                                [present |-> FALSE, at |-> world[t].at] \in past[t]
      BY <1>5, <1>8 DEF Removals
    <2>1. ASSUME t \in batch, id[t] \in removedIds PROVE FALSE
      <3>1. \A g \in gone[Home[t]] : g.id # id[t]
        BY <2>1, <1>2, <1>11 DEF Inv, Numbering
      <3>2. QED
        BY <3>1, <2>1, <1>7
    <2>2. ASSUME t \notin batch, row[t].id \in removedIds PROVE ~world[t].present
      <3>1. PICK g \in gone[j.d] : g.at > horizon[j.d] /\ g.id = row[t].id
        BY <2>2, <1>7
      <3>2. g.id # 0 /\ g.at \in Nat /\ world[t].at \in Nat /\ horizon[j.d] \in Nat
        BY <1>4, WorldTypes DEF Inv, TypeOK
      <3>3. Owns(t, row[t].id)
        BY <1>2 DEF Inv, RowsOwn
      <3>4. world[t].present => g.at < world[t].at
        BY <3>1, <3>2, <3>3 DEF Owns
      <3>5. world[t].present => t \in Recent(j.d)
        BY <3>1, <3>2, <3>4, WhoseTasks DEF Recent
      <3>6. QED
        BY <3>5, <2>2
    <2>3. QED
      BY <2>1, <2>2, ReadNow
  <1>14. Covers(k)
    BY <1>2, <1>8 DEF Covers
  <1>15. JobOwns(k)
    <2> SUFFICES ASSUME j.d \notin renumbered, NEW t \in Tasks, Home[t] = j.d
                 PROVE  Owns(t, id[t])
      BY <1>5, <1>8 DEF JobOwns
    <2>1. QED
      BY <1>2 DEF Inv, RowsOwn
  <1>16. QED
    BY <1>2, <1>8, <1>9, <1>10, <1>12, <1>13, <1>14, <1>15, Replaced DEF JobInv

LEMMA BeginInv ==
    ASSUME Inv, NEW d \in Downloaders, NEW full \in BOOLEAN, NEW barrier \in BOOLEAN,
           Begin(d, full, barrier), UNCHANGED <<kind, daemonVars, row, cursor, due, faults>>,
           calls' \in Nat
    PROVE  Inv'
  <1> DEFINE seen == [t \in TasksOf(d) |-> world[t].at]
             ids == [t \in TasksOf(d) |-> 0]
             k == NewJob(d, full, barrier)
  <1>1. d \notin running /\ running' = running \cup {d} /\ jobs' = jobs \cup {k}
    BY DEF Begin
  <1>2. /\ k.d = d /\ k.full = full /\ k.barrier = barrier /\ k.step = "asking"
        /\ k.since = clock[d] /\ k.next = cursor[d] /\ k.complete = FALSE /\ k.batch = {}
        /\ k.removed = {} /\ k.removedIds = {} /\ k.seen = seen /\ k.ids = ids
    BY DEF NewJob
  <1>3. \A t \in Tasks : Home[t] = d => seen[t] = world[t].at /\ ids[t] = 0
    BY WhoseTasks
  <1>4. /\ seen \in [TasksOf(d) -> Nat] /\ ids \in [TasksOf(d) -> Nat]
        /\ clock[d] \in Nat /\ cursor[d] \in Nat /\ cursor[d] <= clock[d]
    BY DEF Inv, TypeOK, TasksOf, CursorsBehind
  <1>5. JobOK(k)
    <2> HIDE DEF seen, ids
    <2>1. k = [d |-> d, full |-> full, barrier |-> barrier, step |-> "asking",
               since |-> clock[d], next |-> cursor[d], complete |-> FALSE,
               batch |-> {}, removed |-> {}, removedIds |-> {}, seen |-> seen, ids |-> ids]
      BY DEF NewJob, seen, ids
    <2>2. k \in [d : Downloaders, full : BOOLEAN, barrier : BOOLEAN,
                 step : {"asking", "listed", "read"}, since : Nat, next : Nat,
                 complete : BOOLEAN, batch : SUBSET TasksOf(d),
                 removed : {{}}, removedIds : SUBSET (Nat \ {0}),
                 seen : [TasksOf(d) -> Nat], ids : [TasksOf(d) -> Nat]]
      BY <2>1, <1>4
    <2> HIDE DEF k
    <2>3. QED
      BY <1>2, <2>2 DEF JobOK
  <1> HIDE DEF k, seen, ids
  <1>6. Stage(k)
    BY <1>2, <1>4 DEF Stage
  <1>7. Seen(k)
    BY <1>2, <1>3, ReadNow DEF Seen
  <1>8. Removals(k)
    BY <1>2 DEF Removals
  <1>9. Covers(k)
    BY <1>2 DEF Covers, Inv, CursorNeverSkips
  <1>10. JobOwns(k)
    BY <1>2, <1>3 DEF JobOwns, Owns
  <1>11. running = {i.d : i \in jobs} /\ due \subseteq Downloaders /\ faults \in Nat
    BY DEF Inv, TypeOK
  <1>12. Quiet
    BY DEF Quiet
  <1>13. TypeOK'
    <2>1. running' = {i.d : i \in jobs'}
      BY <1>1, <1>2, <1>11
    <2>2. QED
      BY <1>1, <1>5, <1>11, <1>12, <2>1, QuietTypes DEF Inv
  <1>14. OneJob'
    BY <1>1, <1>2, <1>11 DEF Inv, OneJob
  <1>15. QED
    BY <1>1, <1>6, <1>7, <1>8, <1>9, <1>10, <1>12, <1>13, <1>14, QuietInv DEF JobInv

LEMMA TickInv == ASSUME Inv, NEW d \in Downloaders, Tick(d) PROVE Inv'
  <1>1. /\ Begin(d, d \in due, FALSE) /\ calls' \in Nat
        /\ UNCHANGED <<kind, daemonVars, row, cursor, due, faults>>
    BY DEF Tick, Inv, TypeOK
  <1>2. CASE d \in due
    <2>1. (d \in due) = TRUE
      BY <1>2
    <2>2. Begin(d, TRUE, FALSE)
      BY <1>1, <2>1
    <2>3. QED
      BY <1>1, <2>2, BeginInv
  <1>3. CASE d \notin due
    <2>1. (d \in due) = FALSE
      BY <1>3
    <2>2. Begin(d, FALSE, FALSE)
      BY <1>1, <2>1
    <2>3. QED
      BY <1>1, <2>2, BeginInv
  <1>4. QED
    BY <1>2, <1>3

LEMMA TriggerInv == ASSUME Inv, NEW d \in Downloaders, Trigger(d) PROVE Inv'
  <1>1. /\ Begin(d, FALSE, FALSE) /\ calls' = calls + 1 /\ calls \in Nat
        /\ UNCHANGED <<kind, daemonVars, row, cursor, due, faults>>
    BY DEF Trigger, Inv, TypeOK
  <1>2. calls' \in Nat
    BY <1>1
  <1>3. QED
    BY <1>1, <1>2, BeginInv

LEMMA SyncNowInv ==
    ASSUME Inv, NEW d \in Downloaders, NEW full \in BOOLEAN, SyncNow(d, full) PROVE Inv'
  <1>1. /\ Begin(d, full, TRUE) /\ calls' = calls + 1 /\ calls \in Nat
        /\ UNCHANGED <<kind, daemonVars, row, cursor, due, faults>>
    BY DEF SyncNow, Inv, TypeOK
  <1>2. calls' \in Nat
    BY <1>1
  <1>3. QED
    BY <1>1, <1>2, BeginInv

LEMMA FullSyncDueInv == ASSUME Inv, NEW d \in Downloaders, FullSyncDue(d) PROVE Inv'
  <1>1. /\ due' = due \cup {d} /\ UNCHANGED <<kind, daemonVars, row, cursor, running, jobs, faults, calls>>
    BY DEF FullSyncDue
  <1>2. Quiet
    BY <1>1 DEF Quiet
  <1>3. TypeOK'
    BY <1>1, <1>2, QuietTypes DEF Inv, TypeOK
  <1>4. OneJob'
    BY <1>1 DEF Inv, OneJob
  <1>5. QED
    BY <1>1, <1>2, <1>3, <1>4, QuietInv

LEMMA RestartInv == ASSUME Inv, Restart PROVE Inv'
  <1>1. /\ running' = {} /\ jobs' = {} /\ due' = Downloaders /\ faults' = faults + 1
        /\ UNCHANGED <<kind, daemonVars, row, cursor, calls>>
    BY DEF Restart
  <1>2. Quiet
    BY <1>1 DEF Quiet
  <1>3. faults' \in Nat /\ calls' \in Nat
    BY <1>1 DEF Inv, TypeOK
  <1>4. TypeOK'
    BY <1>1, <1>2, <1>3, QuietTypes DEF Inv
  <1>5. OneJob'
    BY <1>1 DEF OneJob
  <1>6. QED
    BY <1>1, <1>2, <1>4, <1>5, QuietInv

\* The end of a job leaves the others, which are of other downloaders.
LEMMA Ended ==
    ASSUME Inv, NEW j \in jobs, End(j)
    PROVE  /\ running' = {i.d : i \in jobs'} /\ OneJob' /\ jobs' \subseteq jobs
           /\ \A k \in jobs' : k.d # j.d
  BY DEF Inv, TypeOK, OneJob, End

LEMMA FailInv == ASSUME Inv, NEW j \in jobs, Fail(j) PROVE Inv'
  <1>1. End(j) /\ faults' = faults + 1 /\ UNCHANGED <<kind, daemonVars, row, cursor, due, calls>>
    BY DEF Fail
  <1>2. Quiet
    BY <1>1 DEF Quiet
  <1>3. running' = {i.d : i \in jobs'} /\ OneJob' /\ jobs' \subseteq jobs
    BY <1>1, Ended
  <1>4. faults' \in Nat /\ calls' \in Nat /\ due' \subseteq Downloaders
    BY <1>1 DEF Inv, TypeOK
  <1>5. TypeOK'
    BY <1>2, <1>3, <1>4, QuietTypes DEF Inv
  <1>6. QED
    BY <1>2, <1>3, <1>5, QuietInv

\* What a commit does to a row of its downloader.
LEMMA CommitRow ==
    ASSUME Inv, NEW j \in jobs, Commit(j), NEW t \in Tasks, Home[t] = j.d
    PROVE  /\ row'[t].at \in {row[t].at, j.seen[t]}
           /\ row'[t].at = j.seen[t] \/ Shows(t)' = Shows(t)
           /\ j.complete \/ t \in j.batch \/ t \in j.removed => row'[t].at = j.seen[t]
           /\ Shows(t)' \in past[t] \/ Shows(t)' = Shows(t)
                \/ (j.d \in renumbered /\ ~row'[t].active)
           /\ j.complete => Shows(t)' \in past[t]
           /\ row'[t].id = IF t \in j.batch THEN j.ids[t] ELSE row[t].id
           /\ row'[t] \in [active : BOOLEAN, at : Nat, id : Nat]
           /\ Shows(t)' = [present |-> row'[t].active, at |-> row'[t].at]
           /\ row'[t].active \in BOOLEAN
  <1>1. JobOK(j) /\ Stage(j) /\ Seen(j) /\ Removals(j) /\ Covers(j) /\ j.step = "read"
    BY DEF Inv, TypeOK, JobInv, Commit
  <1>2. row'[t] = NewRow(j, t)
    BY DEF Commit
  <1>3. /\ row'[t].active = ((t \in j.batch \/ row[t].active) /\ ~Retired(j, t))
        /\ row'[t].at = IF t \in j.batch \/ Retired(j, t) THEN j.seen[t] ELSE row[t].at
        /\ row'[t].id = IF t \in j.batch THEN j.ids[t] ELSE row[t].id
    BY <1>2 DEF NewRow, RemoteId
  <1>4. /\ row[t].active \in BOOLEAN /\ row[t].at \in Nat /\ row[t].id \in Nat
        /\ j.seen[t] \in Nat /\ j.ids[t] \in Nat
    BY JobTypes, WorldTypes DEF Inv
  <1>5. /\ Shows(t)' = [present |-> row'[t].active, at |-> row'[t].at]
        /\ Shows(t) = [present |-> row[t].active, at |-> row[t].at]
    BY DEF Shows
  <1>6. /\ t \in j.batch => t \notin j.removed
        /\ t \in j.batch => [present |-> TRUE, at |-> j.seen[t]] \in past[t]
        /\ t \in j.removed \/ (j.complete /\ t \notin j.batch) =>
                [present |-> FALSE, at |-> j.seen[t]] \in past[t]
    BY <1>1 DEF Seen, JobOK
  <1>7. j.complete \/ t \in j.batch \/ t \in j.removed => t \in j.batch \/ Retired(j, t)
    BY DEF Retired
  <1>8. /\ row'[t].at \in {row[t].at, j.seen[t]}
        /\ j.complete \/ t \in j.batch \/ t \in j.removed => row'[t].at = j.seen[t]
        /\ row'[t].active \in BOOLEAN
    BY <1>3, <1>7
  <1>9. row'[t] \in [active : BOOLEAN, at : Nat, id : Nat]
    BY <1>2, <1>3, <1>4, <1>8 DEF NewRow, RemoteId
  <1>10. CASE t \in j.batch /\ ~Retired(j, t)
    <2>1. row'[t].active = TRUE /\ row'[t].at = j.seen[t]
      BY <1>3, <1>10
    <2>2. Shows(t)' \in past[t]
      BY <2>1, <1>5, <1>6, <1>10
    <2>3. QED
      BY <2>1, <2>2, <1>3, <1>5, <1>8, <1>9
  <1>11. CASE Retired(j, t)
    <2>1. row'[t].active = FALSE /\ row'[t].at = j.seen[t]
      BY <1>3, <1>11
    <2>2. \/ [present |-> FALSE, at |-> j.seen[t]] \in past[t]
          \/ row[t].active /\ RemoteId(j, t) \in j.removedIds
      BY <1>6, <1>11 DEF Retired
    <2>3. ASSUME row[t].active, RemoteId(j, t) \in j.removedIds
          PROVE  [present |-> FALSE, at |-> j.seen[t]] \in past[t]
                    \/ (j.d \in renumbered /\ ~j.complete)
      <3>1. Numbered(j.d)
        BY <2>3, <1>1 DEF Covers
      <3>2. CASE j.d \notin renumbered
        BY <2>3, <3>1, <3>2, <1>1 DEF Removals, RemoteId
      <3>3. CASE j.d \in renumbered /\ j.complete
        BY <2>3, <3>3, <1>1 DEF Stage
      <3>4. QED
        BY <3>2, <3>3
    <2>4. QED
      BY <2>1, <2>2, <2>3, <1>3, <1>5, <1>8, <1>9
  <1>12. CASE t \notin j.batch /\ ~Retired(j, t)
    <2>1. row'[t].active = row[t].active /\ row'[t].at = row[t].at
      BY <1>3, <1>4, <1>12
    <2>2. ~j.complete
      BY <1>7, <1>12
    <2>3. QED
      BY <2>1, <2>2, <1>3, <1>5, <1>8, <1>9
  <1>13. QED
    BY <1>10, <1>11, <1>12

LEMMA CommitMoves ==
    ASSUME Inv, NEW j \in jobs, Commit(j), NEW t \in Tasks
    PROVE  /\ row[t].at <= row'[t].at /\ row'[t].at <= world[t].at
           /\ Home[t] # j.d => row'[t] = row[t]
  <1>1. /\ row[t].at \in Nat /\ world[t].at \in Nat /\ row[t].at <= world[t].at /\ world[t] \in past[t]
    BY WorldTypes DEF Inv, RowsBehind, WorldInPast
  <1>2. CASE Home[t] # j.d
    <2>1. row'[t] = row[t]
      BY <1>2 DEF Commit
    <2>2. QED
      BY <1>1, <1>2, <2>1
  <1>3. CASE Home[t] = j.d
    <2>1. row'[t].at \in {row[t].at, j.seen[t]}
      BY <1>3, CommitRow
    <2>2. j.seen[t] \in Nat
      BY <1>3, JobTypes DEF Inv
    <2>3. row[t].at <= j.seen[t] /\ j.seen[t] <= world[t].at
      BY <1>3 DEF Inv, JobInv, Seen
    <2>4. row[t].at <= row'[t].at /\ row'[t].at <= world[t].at
      BY <2>1, <2>2, <2>3, <1>1
    <2>5. QED
      BY <1>3, <2>4
  <1>4. QED
    BY <1>2, <1>3

LEMMA CommitInv == ASSUME Inv, NEW j \in jobs, Commit(j) PROVE Inv'
  <1>1. /\ End(j) /\ UNCHANGED <<kind, daemonVars, faults, calls>>
        /\ row' = [t \in Tasks |-> IF Home[t] = j.d THEN NewRow(j, t) ELSE row[t]]
        /\ cursor' = [cursor EXCEPT ![j.d] = j.next]
        /\ due' \subseteq due
    BY DEF Commit
  <1>2. /\ kind' = kind /\ clock' = clock /\ world' = world /\ past' = past /\ id' = id
        /\ nextId' = nextId /\ gone' = gone /\ horizon' = horizon /\ renumbered' = renumbered
    BY <1>1 DEF daemonVars
  <1>3. /\ running' = {i.d : i \in jobs'} /\ OneJob' /\ jobs' \subseteq jobs
        /\ \A k \in jobs' : k.d # j.d
    BY <1>1, Ended
  <1>4. JobOK(j) /\ JobInv(j) /\ JobOwns(j)
    BY DEF Inv, TypeOK
  <1>5. j.d \in Downloaders /\ j.next \in Nat /\ j.next <= clock[j.d]
    BY <1>4 DEF JobOK, JobInv, Stage
  <1>6. /\ \A t \in Tasks : row[t].at <= row'[t].at /\ row'[t].at <= world[t].at
        /\ \A t \in Tasks : Home[t] # j.d => row'[t] = row[t]
    BY CommitMoves
  <1>7. /\ cursor'[j.d] = j.next
        /\ \A d \in Downloaders : d # j.d => cursor'[d] = cursor[d]
        /\ \A t \in Tasks : Home[t] \in Downloaders
    BY <1>1, <1>5, HomeAssumption DEF Inv, TypeOK
  <1>8. TypeOK'
    <2>1. ASSUME NEW t \in Tasks PROVE row'[t] \in [active : BOOLEAN, at : Nat, id : Nat]
      <3>1. CASE Home[t] = j.d
        BY <3>1, CommitRow
      <3>2. CASE Home[t] # j.d
        BY <3>2, <1>6 DEF Inv, TypeOK
      <3>3. QED
        BY <3>1, <3>2
    <2>2. row' \in [Tasks -> [active : BOOLEAN, at : Nat, id : Nat]]
      <3>1. DOMAIN row' = Tasks /\ row' = [t \in Tasks |-> row'[t]]
        BY <1>1
      <3>2. QED
        BY <2>1, <3>1
    <2>3. cursor' \in [Downloaders -> Nat]
      BY <1>1, <1>5 DEF Inv, TypeOK
    <2>4. ASSUME NEW k \in jobs' PROVE JobOK(k)'
      <3>1. JobOK(k)
        BY <1>3 DEF Inv, TypeOK
      <3>2. QED
        BY <3>1, <1>2 DEF JobOK, Numbered
    <2>5. (\A k \in jobs : JobOK(k))'
      BY <2>4
    <2>6. due' \subseteq Downloaders /\ faults' \in Nat /\ calls' \in Nat
      BY <1>1 DEF Inv, TypeOK
    <2>7. QED
      BY <2>2, <2>3, <2>5, <2>6, <1>2, <1>3 DEF Inv, TypeOK
  <1>9. WorldInPast' /\ Numbering'
    BY <1>2 DEF Inv, WorldInPast, Numbering, Numbered
  <1>10. RowsBehind'
    BY <1>2, <1>6 DEF RowsBehind
  <1>11. CursorsBehind'
    BY <1>2, <1>5, <1>7 DEF Inv, CursorsBehind
  <1>12. RowsOwn'
    <2> SUFFICES ASSUME NEW t \in Tasks, Numbered(Home[t]), Home[t] \notin renumbered
                 PROVE  Owns(t, id[t])' /\ Owns(t, row[t].id)'
      BY <1>2 DEF RowsOwn, Numbered
    <2>1. Owns(t, id[t]) /\ Owns(t, row[t].id)
      BY DEF Inv, RowsOwn
    <2>2. Owns(t, row'[t].id)
      <3>1. CASE Home[t] # j.d
        BY <3>1, <2>1, <1>6
      <3>2. CASE Home[t] = j.d
        <4>1. row'[t].id = IF t \in j.batch THEN j.ids[t] ELSE row[t].id
          BY <3>2, CommitRow
        <4>2. Owns(t, j.ids[t])
          BY <3>2, <1>4 DEF JobOwns
        <4>3. QED
          BY <4>1, <4>2, <2>1
      <3>3. QED
        BY <3>1, <3>2
    <2>3. QED
      BY <2>1, <2>2, <1>2 DEF Owns
  <1>13. CursorNeverSkips'
    <2> SUFFICES ASSUME NEW t \in Tasks, ~Numbered(Home[t]), NEW s \in past[t],
                        s.at <= cursor'[Home[t]]
                 PROVE  s.at <= row'[t].at
      BY <1>2 DEF CursorNeverSkips, Numbered
    <2>1. s.at \in Nat /\ row[t].at \in Nat /\ row[t].at <= row'[t].at /\ row'[t].at \in Nat
      BY <1>6, <1>8, WorldTypes DEF Inv, TypeOK
    <2>2. CASE Home[t] # j.d
      <3>1. s.at <= row[t].at
        BY <2>2, <1>7 DEF Inv, CursorNeverSkips
      <3>2. QED
        BY <2>1, <3>1
    <2>3. CASE Home[t] = j.d
      <3>1. \/ s.at <= row[t].at
            \/ s.at <= j.seen[t] /\ (j.complete \/ t \in j.batch \/ t \in j.removed)
        BY <2>3, <1>4, <1>7 DEF JobInv, Covers
      <3>2. j.complete \/ t \in j.batch \/ t \in j.removed => row'[t].at = j.seen[t]
        BY <2>3, CommitRow
      <3>3. QED
        BY <2>1, <3>1, <3>2
    <2>4. QED
      BY <2>2, <2>3
  <1>14. RetiredOnlyWhenGone'
    <2> SUFFICES ASSUME NEW t \in Tasks, Home[t] \notin renumbered
                 PROVE  Shows(t)' \in past[t]
      BY <1>2 DEF RetiredOnlyWhenGone
    <2>1. Shows(t) \in past[t]
      BY DEF Inv, RetiredOnlyWhenGone
    <2>2. CASE Home[t] # j.d
      BY <2>1, <2>2, <1>6 DEF Shows
    <2>3. CASE Home[t] = j.d
      BY <2>1, <2>3, CommitRow
    <2>4. QED
      BY <2>2, <2>3
  <1>15. ASSUME NEW k \in jobs' PROVE JobInv(k)' /\ JobOwns(k)'
    <2>1. JobInv(k) /\ JobOwns(k) /\ k.d # j.d
      BY <1>3 DEF Inv
    <2>2. \A t \in Tasks : Home[t] = k.d => row'[t] = row[t]
      BY <2>1, <1>6
    <2>3. Stage(k)'
      BY <2>1, <1>2 DEF JobInv, Stage
    <2>4. Seen(k)'
      BY <2>1, <2>2, <1>2 DEF JobInv, Seen
    <2>5. Removals(k)'
      BY <2>1, <2>2, <1>2 DEF JobInv, Removals, Numbered
    <2>6. Covers(k)'
      BY <2>1, <2>2, <1>2 DEF JobInv, Covers, Numbered
    <2>7. JobOwns(k)'
      BY <2>1, <1>2 DEF JobOwns, Owns, Numbered
    <2>8. QED
      BY <2>3, <2>4, <2>5, <2>6, <2>7 DEF JobInv
  <1>16. (\A k \in jobs : JobInv(k) /\ JobOwns(k))'
    BY <1>15
  <1>17. QED
    BY <1>3, <1>8, <1>9, <1>10, <1>11, <1>12, <1>13, <1>14, <1>16 DEF Inv

LEMMA InitInv == Init => Inv
  <1> SUFFICES ASSUME Init PROVE Inv
    OBVIOUS
  <1>1. /\ kind \in [Downloaders -> {"qbittorrent", "transmission"}]
        /\ clock = [d \in Downloaders |-> 0] /\ world = [t \in Tasks |-> Unborn]
        /\ past = [t \in Tasks |-> {Unborn}] /\ id = [t \in Tasks |-> 0]
        /\ nextId = [d \in Downloaders |-> 1] /\ gone = [d \in Downloaders |-> {}]
        /\ horizon = [d \in Downloaders |-> 0] /\ renumbered = {}
        /\ row = [t \in Tasks |-> [active |-> FALSE, at |-> 0, id |-> 0]]
        /\ cursor = [d \in Downloaders |-> 0] /\ due = Downloaders
        /\ running = {} /\ jobs = {} /\ faults = 0 /\ calls = 0
    BY DEF Init
  <1>2. \A t \in Tasks : /\ world[t] = [present |-> FALSE, at |-> 0] /\ past[t] = {world[t]}
                         /\ id[t] = 0 /\ row[t] = [active |-> FALSE, at |-> 0, id |-> 0]
                         /\ Home[t] \in Downloaders
    BY <1>1, HomeAssumption DEF Unborn
  <1>3. \A d \in Downloaders : clock[d] = 0 /\ nextId[d] = 1 /\ gone[d] = {} /\ cursor[d] = 0
    BY <1>1
  <1>4. TypeOK
    <2>1. world \in [Tasks -> [present : BOOLEAN, at : Nat]]
      BY <1>1 DEF Unborn
    <2>2. past \in [Tasks -> SUBSET [present : BOOLEAN, at : Nat]]
      BY <1>1 DEF Unborn
    <2>3. row \in [Tasks -> [active : BOOLEAN, at : Nat, id : Nat]]
      BY <1>1, <1>2
    <2>4. /\ clock \in [Downloaders -> Nat] /\ id \in [Tasks -> Nat]
          /\ nextId \in [Downloaders -> Nat \ {0}] /\ horizon \in [Downloaders -> Nat]
          /\ cursor \in [Downloaders -> Nat]
          /\ gone \in [Downloaders -> SUBSET [id : Nat \ {0}, at : Nat]]
      BY <1>1
    <2>5. QED
      BY <2>1, <2>2, <2>3, <2>4, <1>1 DEF TypeOK
  <1>5. OneJob /\ \A j \in jobs : JobInv(j) /\ JobOwns(j)
    BY <1>1 DEF OneJob
  <1>6. WorldInPast /\ RowsBehind /\ CursorsBehind
    BY <1>2, <1>3 DEF WorldInPast, RowsBehind, CursorsBehind
  <1>7. Numbering /\ RowsOwn
    BY <1>2, <1>3 DEF Numbering, RowsOwn, Owns
  <1>8. CursorNeverSkips /\ RetiredOnlyWhenGone
    <2>1. \A t \in Tasks : /\ world[t].at = 0 /\ world[t].present = FALSE
                           /\ row[t].at = 0 /\ row[t].active = FALSE
      BY <1>2
    <2>2. \A t \in Tasks : Shows(t) = world[t]
      BY <2>1, <1>2 DEF Shows
    <2>3. CursorNeverSkips
      BY <2>1, <1>2 DEF CursorNeverSkips
    <2>4. RetiredOnlyWhenGone
      BY <2>2, <1>2 DEF RetiredOnlyWhenGone
    <2>5. QED
      BY <2>3, <2>4
  <1>9. QED
    BY <1>4, <1>5, <1>6, <1>7, <1>8 DEF Inv

LEMMA StutterInv == ASSUME Inv, UNCHANGED vars PROVE Inv'
  <1>1. /\ Quiet /\ due' = due /\ running' = running /\ jobs' = jobs /\ faults' = faults /\ calls' = calls
    BY DEF vars, daemonVars, serviceVars, Quiet
  <1>2. TypeOK'
    BY <1>1, QuietTypes DEF Inv, TypeOK
  <1>3. OneJob'
    BY <1>1 DEF Inv, OneJob
  <1>4. QED
    BY <1>1, <1>2, <1>3, QuietInv

\* The inductive step, by the actions of Next.
LEMMA StepInv == ASSUME Inv, [Next]_vars PROVE Inv'
  <1>1. CASE \E t \in Tasks : Add(t) \/ Change(t) \/ DeleteRemote(t)
    BY <1>1, AddInv, ChangeInv, DeleteRemoteInv
  <1>2. CASE \E d \in Downloaders :
                \/ Age(d) \/ DaemonRestart(d)
                \/ Tick(d) \/ Trigger(d) \/ FullSyncDue(d)
                \/ \E full \in BOOLEAN : SyncNow(d, full)
    BY <1>2, AgeInv, DaemonRestartInv, TickInv, TriggerInv, FullSyncDueInv, SyncNowInv
  <1>3. CASE \E j \in jobs : Advance(j) \/ Fail(j)
    <2>1. PICK j \in jobs : Advance(j) \/ Fail(j)
      BY <1>3
    <2>2. CASE Fail(j)
      BY <2>2, FailInv
    <2>3. CASE Advance(j)
      BY <2>3, ReadAllInv, ReadMainInv, ReadInfoInv, ReadRecentInv, CommitInv DEF Advance
    <2>4. QED
      BY <2>1, <2>2, <2>3
  <1>4. CASE Restart
    BY <1>4, RestartInv
  <1>5. CASE UNCHANGED vars
    BY <1>5, StutterInv
  <1>6. QED
    BY <1>1, <1>2, <1>3, <1>4, <1>5 DEF Next

\* The inductive invariant of all that follows: what rows, cursors, numbers and answers
\* under way know of the tasks.
THEOREM Invariance == Spec => []Inv
  <1>1. Init => Inv
    BY InitInv
  <1>2. Inv /\ [Next]_vars => Inv'
    BY StepInv
  <1>3. QED
    BY <1>1, <1>2, PTL DEF Spec

\* The shape of the state, and that a downloader is marked as running exactly while a
\* sync of it is under way (Service.begin and end, syncer/service.go).
THEOREM Types == Spec => []TypeOK
  <1>1. Inv => TypeOK
    BY DEF Inv
  <1>2. QED
    BY <1>1, Invariance, PTL

\* No change that the stored cursor of a qBittorrent has passed is missing in the rows
\* (Delta of qbittorrent.go, ApplySync of store/sync.go).
THEOREM NoChangeSkipped == Spec => []CursorNeverSkips
  <1>1. Inv => CursorNeverSkips
    BY DEF Inv
  <1>2. QED
    BY <1>1, Invariance, PTL

\* A row shows a state its task was in, for every downloader whose daemon never gave
\* its tasks new ids (store/sync.go, the removals by hash and by id).
THEOREM NothingInvented == Spec => []RetiredOnlyWhenGone
  <1>1. Inv => RetiredOnlyWhenGone
    BY DEF Inv
  <1>2. QED
    BY <1>1, Invariance, PTL

\* Only a commit moves rows.
LEMMA OnlyCommits ==
    ASSUME [Next]_vars, row' # row
    PROVE  \E j \in jobs : Commit(j)
  <1>1. row' # row /\ ~UNCHANGED vars
    BY DEF vars, serviceVars
  <1>2. CASE \E t \in Tasks : Add(t) \/ Change(t) \/ DeleteRemote(t)
    BY <1>1, <1>2 DEF Add, Change, DeleteRemote, serviceVars
  <1>3. CASE \E d \in Downloaders :
                \/ Age(d) \/ DaemonRestart(d)
                \/ Tick(d) \/ Trigger(d) \/ FullSyncDue(d)
                \/ \E full \in BOOLEAN : SyncNow(d, full)
    BY <1>1, <1>3 DEF Age, DaemonRestart, Tick, Trigger, FullSyncDue, SyncNow, serviceVars
  <1>4. CASE \E j \in jobs : Advance(j) \/ Fail(j)
    BY <1>1, <1>4 DEF Advance, Fail, ReadAll, ReadMain, ReadInfo, ReadRecent
  <1>5. CASE Restart
    BY <1>1, <1>5 DEF Restart
  <1>6. QED
    BY <1>1, <1>2, <1>3, <1>4, <1>5 DEF Next

\* No row goes back to an older state of its task, whatever the scheduler, users,
\* deletions, failures and restarts do (syncer/service.go begin, end and sync).
THEOREM RowsNeverGoBack == Spec => NeverGoesBack
  <1>1. ASSUME Inv, [Next]_vars PROVE RowsMoveOn
    <2>1. CASE row' = row
      <3>1. \A t \in Tasks : row[t].at \in Nat
        BY <1>1, WorldTypes DEF Inv
      <3>2. QED
        BY <2>1, <3>1 DEF RowsMoveOn
    <2>2. CASE row' # row
      BY <1>1, <2>2, OnlyCommits, CommitMoves DEF RowsMoveOn
    <2>3. QED
      BY <2>1, <2>2
  <1>2. Inv /\ [Next]_vars => [RowsMoveOn]_vars
    BY <1>1
  <1>3. QED
    BY <1>2, Invariance, PTL DEF Spec, NeverGoesBack

\* After a full sync every row of the downloader shows a real state, no older than the
\* start of the sync (syncer/service.go SyncNow, store/sync.go).
THEOREM FullSyncs == Spec => FullSyncIsCurrent
  <1>1. ASSUME Inv, NEW j \in jobs, Commit(j), j.full PROVE Current(j)
    <2> SUFFICES ASSUME NEW t \in Tasks, Home[t] = j.d
                 PROVE  Shows(t)' \in past[t] /\ \A s \in past[t] : s.at <= j.since => s.at <= row'[t].at
      BY DEF Current, TasksOf
    <2>1. Stage(j) /\ Seen(j) /\ j.step = "read"
      BY <1>1 DEF Inv, JobInv, Commit
    <2>2. j.complete
      BY <1>1, <2>1 DEF Stage
    <2>3. row'[t].at = j.seen[t]
      BY <1>1, <2>2, CommitRow
    <2>4. \A s \in past[t] : s.at <= j.since => s.at <= row'[t].at
      BY <2>1, <2>3 DEF Seen
    <2>5. Shows(t)' \in past[t]
      BY <1>1, <2>2, CommitRow
    <2>6. QED
      BY <2>4, <2>5
  <1>2. Inv /\ [Next]_vars => [FullRowsCurrent]_vars
    BY <1>1 DEF FullRowsCurrent
  <1>3. QED
    BY <1>2, Invariance, PTL DEF Spec, FullSyncIsCurrent

\* The rows are a copy of the tasks that shows states they were in and only moves on:
\* every step of the service (syncer/service.go, store/sync.go) and of the daemons is a
\* step of Replica, or none.
THEOREM Refinement == Spec => ImplementsReplica
  <1>1. Init => ReplicaOf!Init
    <2> SUFFICES ASSUME Init PROVE ReplicaOf!Init
      OBVIOUS
    <2>1. \A t \in Tasks : row[t] = [active |-> FALSE, at |-> 0, id |-> 0]
      BY DEF Init
    <2>2. \A t \in Tasks : row[t].active = FALSE /\ row[t].at = 0
      BY <2>1
    <2>3. [t \in Tasks |-> Shows(t)] = [t \in Tasks |-> [present |-> FALSE, at |-> 0]]
      BY <2>2 DEF Shows
    <2>4. {t \in Tasks : Home[t] \notin renumbered} = Tasks
      BY DEF Init
    <2>5. past = [t \in Tasks |-> {[present |-> FALSE, at |-> 0]}]
      BY DEF Init, Unborn
    <2>6. QED
      BY <2>3, <2>4, <2>5 DEF ReplicaOf!Init, ReplicaOf!Unborn
  <1>2. ASSUME Inv, Inv', [Next]_vars PROVE [ReplicaOf!Next]_(ReplicaOf!vars)
    <2> DEFINE copy == [t \in Tasks |-> Shows(t)]
               stable == {t \in Tasks : Home[t] \notin renumbered}
    <2>1. row' = row => copy' = copy
      BY DEF Shows
    <2>2. renumbered' = renumbered => stable' = stable
      OBVIOUS
    <2>3. CASE \E t \in Tasks : Add(t) \/ Change(t) \/ DeleteRemote(t)
      <3>1. PICK t \in Tasks : Add(t) \/ Change(t) \/ DeleteRemote(t)
        BY <2>3
      <3>2. PICK present \in BOOLEAN :
                Becomes(t, present) /\ UNCHANGED <<kind, renumbered, serviceVars>>
        BY <3>1 DEF Add, Change, DeleteRemote
      <3>3. Later
        BY <1>2, <3>2, BecomesLater
      <3>4. ReplicaOf!Live
        <4>1. past' \in [Tasks -> SUBSET [present : BOOLEAN, at : Nat]]
          BY <1>2 DEF Inv, TypeOK
        <4>2. \A u \in Tasks : past[u] \subseteq past'[u]
          BY <3>3 DEF Later
        <4>3. row' = row /\ renumbered' = renumbered
          BY <3>2, <3>3 DEF Later
        <4>4. QED
          BY <4>1, <4>2, <4>3, <2>1, <2>2 DEF ReplicaOf!Live
      <3>5. QED
        BY <3>4 DEF ReplicaOf!Next
    <2>4. ASSUME NEW d \in Downloaders, DaemonRestart(d) PROVE ReplicaOf!Lose
      <3>1. renumbered' = renumbered \cup {d} /\ past' = past /\ row' = row
        BY <2>4 DEF DaemonRestart, serviceVars
      <3>2. QED
        BY <3>1, <2>1 DEF ReplicaOf!Lose
    <2>5. ASSUME NEW j \in jobs, Commit(j) PROVE ReplicaOf!Follow
      <3>1. past' = past /\ renumbered' = renumbered
        BY <2>5 DEF Commit, daemonVars
      <3>2. ASSUME NEW t \in Tasks
            PROVE  /\ Shows(t)' \in [present : BOOLEAN, at : Nat]
                   /\ Shows(t)' = [present |-> row'[t].active, at |-> row'[t].at]
                   /\ Shows(t).at = row[t].at /\ Shows(t)'.at = row'[t].at
        <4>1. row'[t] \in [active : BOOLEAN, at : Nat, id : Nat]
          BY <1>2 DEF Inv, TypeOK
        <4>2. QED
          BY <4>1 DEF Shows
      <3>3. copy' \in [Tasks -> [present : BOOLEAN, at : Nat]]
        BY <3>2
      <3>4. ASSUME NEW t \in Tasks
            PROVE  /\ \/ copy'[t] \in past[t] \/ copy'[t] = copy[t]
                      \/ /\ t \notin stable
                         /\ copy'[t] = [present |-> FALSE, at |-> copy'[t].at]
                         /\ \E s \in past[t] : s.at = copy'[t].at
                   /\ copy[t].at <= copy'[t].at
        <4>1. copy[t] = Shows(t) /\ copy'[t] = Shows(t)'
          OBVIOUS
        <4>2. copy[t].at <= copy'[t].at
          BY <1>2, <2>5, <3>2, <4>1, CommitMoves
        <4>3. CASE Home[t] # j.d
          <5>1. row'[t] = row[t]
            BY <1>2, <2>5, <4>3, CommitMoves
          <5>2. Shows(t)' = Shows(t)
            BY <5>1 DEF Shows
          <5>3. QED
            BY <5>2, <4>1, <4>2
        <4>4. CASE Home[t] = j.d
          <5>1. /\ row'[t].at = j.seen[t] \/ Shows(t)' = Shows(t)
                /\ Shows(t)' \in past[t] \/ Shows(t)' = Shows(t)
                        \/ (j.d \in renumbered /\ ~row'[t].active)
                /\ row'[t].active \in BOOLEAN
            BY <1>2, <2>5, <4>4, CommitRow
          <5>2. \E s \in past[t] : s.at = j.seen[t]
            BY <1>2, <4>4 DEF Inv, JobInv, Seen
          <5>3. ~row'[t].active => Shows(t)' = [present |-> FALSE, at |-> row'[t].at]
            BY <5>1, <3>2
          <5>4. QED
            BY <5>1, <5>2, <5>3, <4>1, <4>2, <4>4, <3>2
        <4>5. QED
          BY <4>3, <4>4
      <3>5. stable' = stable
        BY <3>1
      <3> HIDE DEF copy, stable
      <3>6. QED
        BY <3>1, <3>3, <3>4, <3>5 DEF ReplicaOf!Follow, ReplicaOf!Mistaken, copy, stable
    <2>6. CASE row' = row /\ past' = past /\ renumbered' = renumbered
      BY <2>1, <2>2, <2>6 DEF ReplicaOf!vars
    <2>7. CASE \E d \in Downloaders :
                    \/ Age(d) \/ DaemonRestart(d)
                    \/ Tick(d) \/ Trigger(d) \/ FullSyncDue(d)
                    \/ \E full \in BOOLEAN : SyncNow(d, full)
      <3>1. PICK d \in Downloaders :
                    \/ Age(d) \/ DaemonRestart(d)
                    \/ Tick(d) \/ Trigger(d) \/ FullSyncDue(d)
                    \/ \E full \in BOOLEAN : SyncNow(d, full)
        BY <2>7
      <3>2. CASE DaemonRestart(d)
        BY <3>2, <2>4 DEF ReplicaOf!Next
      <3>3. CASE ~DaemonRestart(d)
        <4>1. row' = row /\ past' = past /\ renumbered' = renumbered
          BY <3>1, <3>3 DEF Age, Tick, Trigger, FullSyncDue, SyncNow, serviceVars, daemonVars
        <4>2. QED
          BY <4>1, <2>6
      <3>4. QED
        BY <3>2, <3>3
    <2>8. CASE \E j \in jobs : Advance(j) \/ Fail(j)
      <3>1. PICK j \in jobs : Advance(j) \/ Fail(j)
        BY <2>8
      <3>2. CASE Commit(j)
        BY <3>2, <2>5 DEF ReplicaOf!Next
      <3>3. CASE ~Commit(j)
        <4>1. row' = row /\ past' = past /\ renumbered' = renumbered
          BY <3>1, <3>3 DEF Advance, Fail, ReadAll, ReadMain, ReadInfo, ReadRecent, daemonVars
        <4>2. QED
          BY <4>1, <2>6
      <3>4. QED
        BY <3>2, <3>3
    <2>9. CASE Restart \/ UNCHANGED vars
      <3>1. row' = row /\ past' = past /\ renumbered' = renumbered
        BY <2>9 DEF Restart, vars, serviceVars, daemonVars
      <3>2. QED
        BY <3>1, <2>6
    <2>10. QED
      BY <1>2, <2>3, <2>7, <2>8, <2>9 DEF Next
  <1>3. QED
    BY <1>1, <1>2, Invariance, PTL DEF Spec, ImplementsReplica, ReplicaOf!Spec

-----------------------------------------------------------------------------
(* A sync that does not rely on what was recently active misses nothing.    *)

\* A stamp is given to one state of a task.
OneStatePerStamp == \A t \in Tasks : \A r, s \in past[t] : r.at = s.at => r = s

\* Only a Transmission gives its tasks new ids.
OnlyNumberedChange == \A d \in renumbered : Numbered(d)

\* The cursor that the delta of a qBittorrent brings is not older than its beginning.
CursorsReachBack ==
    \A j \in jobs : ~j.full /\ ~Numbered(j.d) /\ j.step # "asking" => j.since <= j.next

FirmInv == OneStatePerStamp /\ OnlyNumberedChange /\ CursorsReachBack

LEMMA StampsStay ==
    ASSUME Inv, [Next]_vars, OneStatePerStamp PROVE OneStatePerStamp'
  <1>1. ASSUME past' = past PROVE OneStatePerStamp'
    BY <1>1 DEF OneStatePerStamp
  <1>2. ASSUME NEW t \in Tasks, Add(t) \/ Change(t) \/ DeleteRemote(t) PROVE OneStatePerStamp'
    <2>1. PICK present \in BOOLEAN : Becomes(t, present)
      BY <1>2 DEF Add, Change, DeleteRemote
    <2> DEFINE state == [present |-> present, at |-> clock[Home[t]] + 1]
    <2>2. past' = [past EXCEPT ![t] = @ \cup {state}]
      BY <2>1 DEF Becomes
    <2>3. past \in [Tasks -> SUBSET [present : BOOLEAN, at : Nat]]
      BY DEF Inv, TypeOK
    <2>4. /\ past'[t] = past[t] \cup {state}
          /\ \A u \in Tasks : u # t => past'[u] = past[u]
      BY <2>2, <2>3
    <2>5. \A s \in past[t] : s.at < state.at
      <3>1. /\ world[t].at <= clock[Home[t]] /\ \A s \in past[t] : s.at <= world[t].at
            /\ world[t].at \in Nat /\ clock[Home[t]] \in Nat /\ \A s \in past[t] : s.at \in Nat
        BY WorldTypes DEF Inv, WorldInPast
      <3>2. QED
        BY <3>1
    <2>6. state.at \in Nat /\ \A s \in past[t] : s.at \in Nat
      <3>1. clock[Home[t]] \in Nat /\ \A s \in past[t] : s.at \in Nat
        BY WorldTypes DEF Inv
      <3>2. QED
        BY <3>1
    <2>7. ASSUME NEW r \in past'[t], NEW s \in past'[t], r.at = s.at PROVE r = s
      <3> HIDE DEF state
      <3>1. CASE r \in past[t] /\ s \in past[t]
        BY <2>7, <3>1 DEF OneStatePerStamp
      <3>2. CASE r = state /\ s = state
        BY <3>2
      <3>3. CASE (r \in past[t] /\ s = state) \/ (s \in past[t] /\ r = state)
        BY <2>5, <2>6, <2>7, <3>3
      <3>4. QED
        BY <2>4, <3>1, <3>2, <3>3
    <2>8. QED
      BY <2>4, <2>7 DEF OneStatePerStamp
  <1>3. CASE UNCHANGED vars
    BY <1>1, <1>3 DEF vars, daemonVars
  <1>4. ASSUME NEW d \in Downloaders,
               \/ Age(d) \/ DaemonRestart(d)
               \/ Tick(d) \/ Trigger(d) \/ FullSyncDue(d)
               \/ \E full \in BOOLEAN : SyncNow(d, full)
        PROVE  OneStatePerStamp'
    BY <1>1, <1>4 DEF Age, DaemonRestart, Tick, Trigger, FullSyncDue, SyncNow, daemonVars
  <1>5. ASSUME NEW j \in jobs, Advance(j) \/ Fail(j) PROVE OneStatePerStamp'
    BY <1>1, <1>5 DEF Advance, Fail, ReadAll, ReadMain, ReadInfo, ReadRecent, Commit, daemonVars
  <1>6. CASE Restart
    BY <1>1, <1>6 DEF Restart, daemonVars
  <1>7. QED
    BY <1>2, <1>3, <1>4, <1>5, <1>6 DEF Next

LEMMA KindsStay ==
    ASSUME [Next]_vars, OnlyNumberedChange PROVE kind' = kind /\ OnlyNumberedChange'
  <1>1. ASSUME kind' = kind, renumbered' = renumbered PROVE kind' = kind /\ OnlyNumberedChange'
    BY <1>1 DEF OnlyNumberedChange, Numbered
  <1>2. ASSUME NEW t \in Tasks, Add(t) \/ Change(t) \/ DeleteRemote(t)
        PROVE  kind' = kind /\ OnlyNumberedChange'
    BY <1>1, <1>2 DEF Add, Change, DeleteRemote
  <1>3. CASE UNCHANGED vars
    BY <1>1, <1>3 DEF vars, daemonVars
  <1>4. ASSUME NEW d \in Downloaders,
               \/ Age(d) \/ Tick(d) \/ Trigger(d) \/ FullSyncDue(d)
               \/ \E full \in BOOLEAN : SyncNow(d, full)
        PROVE  kind' = kind /\ OnlyNumberedChange'
    BY <1>1, <1>4 DEF Age, Tick, Trigger, FullSyncDue, SyncNow, daemonVars
  <1>5. ASSUME NEW d \in Downloaders, DaemonRestart(d) PROVE kind' = kind /\ OnlyNumberedChange'
    <2>1. kind' = kind /\ renumbered' = renumbered \cup {d} /\ Numbered(d)
      BY <1>5 DEF DaemonRestart
    <2>2. QED
      BY <2>1 DEF OnlyNumberedChange, Numbered
  <1>6. ASSUME NEW j \in jobs, Advance(j) \/ Fail(j) PROVE kind' = kind /\ OnlyNumberedChange'
    BY <1>1, <1>6 DEF Advance, Fail, ReadAll, ReadMain, ReadInfo, ReadRecent, Commit, daemonVars
  <1>7. CASE Restart
    BY <1>1, <1>7 DEF Restart, daemonVars
  <1>8. QED
    BY <1>2, <1>3, <1>4, <1>5, <1>6, <1>7 DEF Next

\* The job that a step leaves behind in place of j, where j reaches back.
ReachesBack(j) == ~j.full /\ ~Numbered(j.d) /\ j.step # "asking" => j.since <= j.next

LEMMA CursorsKeepReaching ==
    ASSUME Inv, [Next]_vars, FirmInv PROVE CursorsReachBack'
  <1>0. /\ kind' = kind /\ \A j \in jobs : ReachesBack(j)
        /\ \A j \in jobs : j.since \in Nat /\ j.next \in Nat /\ j.since <= clock[j.d]
    <2>1. kind' = kind /\ \A j \in jobs : ReachesBack(j)
      BY KindsStay DEF FirmInv, CursorsReachBack, ReachesBack
    <2>2. \A j \in jobs : j.since \in Nat /\ j.next \in Nat
      BY JobTypes DEF Inv
    <2>3. \A j \in jobs : j.since <= clock[j.d]
      BY DEF Inv, JobInv, Stage
    <2>4. QED
      BY <2>1, <2>2, <2>3
  <1>1. ASSUME \A k \in jobs' : k \in jobs \/ ReachesBack(k) PROVE CursorsReachBack'
    BY <1>0, <1>1 DEF CursorsReachBack, ReachesBack, Numbered
  <1>2. CASE \/ UNCHANGED vars \/ Restart
             \/ \E t \in Tasks : Add(t) \/ Change(t) \/ DeleteRemote(t)
             \/ \E d \in Downloaders : Age(d) \/ DaemonRestart(d) \/ FullSyncDue(d)
    <2>1. jobs' \subseteq jobs
      BY <1>2 DEF vars, serviceVars, Restart, Add, Change, DeleteRemote, Age, DaemonRestart, FullSyncDue
    <2>2. QED
      BY <1>1, <2>1
  <1>3. ASSUME NEW d \in Downloaders, NEW full, NEW barrier,
               Begin(d, full, barrier)
        PROVE  CursorsReachBack'
    <2>1. NewJob(d, full, barrier).step = "asking"
      BY DEF NewJob
    <2>2. QED
      BY <1>1, <1>3, <2>1 DEF Begin, ReachesBack
  <1>4. ASSUME NEW d \in Downloaders,
               Tick(d) \/ Trigger(d) \/ \E full \in BOOLEAN : SyncNow(d, full)
        PROVE  CursorsReachBack'
    <2>1. CASE Tick(d)
      BY <1>3, <2>1 DEF Tick
    <2>2. CASE Trigger(d)
      BY <1>3, <2>2 DEF Trigger
    <2>3. ASSUME NEW full \in BOOLEAN, SyncNow(d, full) PROVE CursorsReachBack'
      BY <1>3, <2>3 DEF SyncNow
    <2>4. QED
      BY <1>4, <2>1, <2>2, <2>3
  <1>5. ASSUME NEW j \in jobs, NEW k, Replace(j, k), ReachesBack(k) PROVE CursorsReachBack'
    BY <1>1, <1>5 DEF Replace
  <1>6. ASSUME NEW j \in jobs, ReadAll(j) PROVE CursorsReachBack'
    <2> DEFINE here == Present(j.d)
               seen == Stamps(TasksOf(j.d))
               ids == [t \in TasksOf(j.d) |-> id[t]]
               k == [j EXCEPT !.step = "read", !.complete = TRUE, !.batch = here,
                              !.seen = seen, !.ids = ids]
    <2>1. JobOK(j) /\ j.full /\ Replace(j, k)
      BY <1>6 DEF Inv, TypeOK, ReadAll
    <2> HIDE DEF here, seen, ids
    <2>2. k.full = j.full
      BY <2>1 DEF JobOK
    <2> HIDE DEF k
    <2>3. QED
      BY <1>5, <2>1, <2>2 DEF ReachesBack
  <1>7. ASSUME NEW j \in jobs, ReadMain(j) PROVE CursorsReachBack'
    <2>1. PICK complete \in {c \in BOOLEAN : j.next = 0 => c} :
            LET told == {t \in TasksOf(j.d) : complete \/ world[t].at > j.next}
            IN  Replace(j, [j EXCEPT !.step = IF told \cap Present(j.d) = {} THEN "read" ELSE "listed",
                                     !.complete = complete, !.next = clock[j.d],
                                     !.batch = told \cap Present(j.d),
                                     !.removed = IF complete THEN {} ELSE told \ Present(j.d),
                                     !.seen = Stamps(TasksOf(j.d))])
      BY <1>7 DEF ReadMain
    <2> DEFINE told == {t \in TasksOf(j.d) : complete \/ world[t].at > j.next}
               step == IF told \cap Present(j.d) = {} THEN "read" ELSE "listed"
               now == clock[j.d]
               batch == told \cap Present(j.d)
               removed == IF complete THEN {} ELSE told \ Present(j.d)
               seen == Stamps(TasksOf(j.d))
               k == [j EXCEPT !.step = step, !.complete = complete, !.next = now,
                              !.batch = batch, !.removed = removed, !.seen = seen]
    <2>2. JobOK(j) /\ Replace(j, k) /\ j.since <= now
      BY <1>0, <2>1 DEF Inv, TypeOK
    <2> HIDE DEF told, step, now, batch, removed, seen
    <2>3. k.since = j.since /\ k.next = now
      BY <2>2 DEF JobOK
    <2> HIDE DEF k
    <2>4. QED
      BY <1>5, <2>2, <2>3 DEF ReachesBack
  <1>8. ASSUME NEW j \in jobs, ReadInfo(j) PROVE CursorsReachBack'
    <2> DEFINE batch == j.batch \cap Present(j.d)
               removed == j.removed \cup (j.batch \ Present(j.d))
               seen == [t \in TasksOf(j.d) |-> IF t \in j.batch THEN world[t].at ELSE j.seen[t]]
               k == [j EXCEPT !.step = "read", !.batch = batch, !.removed = removed, !.seen = seen]
    <2>1. JobOK(j) /\ j.step = "listed"
      BY <1>8 DEF Inv, TypeOK, ReadInfo
    <2>2. Replace(j, k)
      BY <1>8, <2>1 DEF ReadInfo, JobOK
    <2> HIDE DEF batch, removed, seen
    <2>3. k.since = j.since /\ k.next = j.next /\ k.d = j.d /\ k.full = j.full
      BY <2>1 DEF JobOK
    <2> HIDE DEF k
    <2>4. QED
      BY <1>0, <1>5, <2>1, <2>2, <2>3 DEF ReachesBack
  <1>9. ASSUME NEW j \in jobs, ReadRecent(j) PROVE CursorsReachBack'
    <2>1. JobOK(j) /\ Numbered(j.d)
      BY <1>9 DEF Inv, TypeOK, ReadRecent
    <2> DEFINE removedIds == {g.id : g \in {h \in gone[j.d] : h.at > horizon[j.d]}}
               seen == Stamps(TasksOf(j.d))
               ids == [t \in TasksOf(j.d) |-> id[t]]
    <2>2. PICK batch \in SUBSET Present(j.d) :
            Replace(j, [j EXCEPT !.step = "read", !.batch = batch, !.removedIds = removedIds,
                                 !.seen = seen, !.ids = ids])
      BY <1>9 DEF ReadRecent
    <2> DEFINE k == [j EXCEPT !.step = "read", !.batch = batch, !.removedIds = removedIds,
                              !.seen = seen, !.ids = ids]
    <2> HIDE DEF removedIds, seen, ids
    <2>3. k.d = j.d
      BY <2>1 DEF JobOK
    <2>4. Replace(j, k)
      BY <2>2
    <2> HIDE DEF k
    <2>5. QED
      BY <1>5, <2>1, <2>3, <2>4 DEF ReachesBack
  <1>10. ASSUME NEW j \in jobs, Commit(j) \/ Fail(j) PROVE CursorsReachBack'
    <2>1. jobs' \subseteq jobs
      BY <1>10 DEF Commit, Fail, End
    <2>2. QED
      BY <1>1, <2>1
  <1>11. QED
    BY <1>2, <1>4, <1>6, <1>7, <1>8, <1>9, <1>10 DEF Next, Advance

\* After a full sync, and after a delta of a qBittorrent, the row of a task that was
\* there when the sync began, and has not changed since, shows it as there.
LEMMA FirmCommit ==
    ASSUME Inv, FirmInv, NEW j \in jobs, Commit(j), Firm(j), NEW t \in Missed(j) PROVE FALSE
  <1>1. /\ t \in Tasks /\ Home[t] = j.d /\ world[t].present
        /\ world[t].at <= j.since /\ ~row'[t].active
    BY DEF Missed, Present, TasksOf
  <1>2. /\ world[t] \in past[t] /\ world[t].at \in Nat /\ row[t].at \in Nat
        /\ row[t].at <= world[t].at /\ row[t].at <= row'[t].at /\ row'[t].at <= world[t].at
    <2>1. world[t].at \in Nat /\ row[t].at \in Nat
      BY <1>1, WorldTypes DEF Inv
    <2>2. world[t] \in past[t] /\ row[t].at <= world[t].at
      BY <1>1 DEF Inv, WorldInPast, RowsBehind
    <2>3. row[t].at <= row'[t].at /\ row'[t].at <= world[t].at
      BY <1>1, CommitMoves
    <2>4. QED
      BY <2>1, <2>2, <2>3
  <1>3. /\ j.step = "read" /\ Stage(j) /\ Seen(j) /\ Covers(j)
        /\ j.since \in Nat /\ j.next \in Nat /\ j.seen[t] \in Nat
    BY <1>1, JobTypes DEF Inv, JobInv, Commit
  <1>4. world[t].at <= j.seen[t]
    BY <1>1, <1>2, <1>3 DEF Seen
  <1>5. row'[t].at \in Nat
    BY <1>1, <1>2, <1>3, CommitRow
  <1>6. row'[t].at = world[t].at /\ Shows(t)' \in past[t]
    <2>1. CASE j.full
      <3>1. j.complete
        BY <1>3, <2>1 DEF Stage
      <3>2. row'[t].at = j.seen[t] /\ Shows(t)' \in past[t]
        BY <1>1, <3>1, CommitRow
      <3>3. QED
        BY <1>2, <1>4, <1>5, <3>2
    <2>2. CASE ~j.full
      <3>1. ~Numbered(j.d) /\ j.since <= j.next
        BY <1>3, <2>2 DEF Firm, FirmInv, CursorsReachBack
      <3>2. \/ world[t].at <= row[t].at
            \/ j.complete \/ t \in j.batch \/ t \in j.removed
        BY <1>1, <1>2, <1>3, <3>1 DEF Covers
      <3>4. Shows(t)' \in past[t]
        <4>1. Home[t] \notin renumbered
          BY <1>1, <3>1 DEF FirmInv, OnlyNumberedChange
        <4>2. Shows(t) \in past[t]
          BY <1>1, <4>1 DEF Inv, RetiredOnlyWhenGone
        <4>3. QED
          BY <1>1, <4>1, <4>2, CommitRow
      <3>3. CASE world[t].at <= row[t].at
        BY <1>2, <1>5, <3>3, <3>4
      <3>5. CASE j.complete \/ t \in j.batch \/ t \in j.removed
        <4>1. row'[t].at = j.seen[t]
          BY <1>1, <3>5, CommitRow
        <4>2. QED
          BY <1>2, <1>4, <1>5, <3>4, <4>1
      <3>6. QED
        BY <3>2, <3>3, <3>5
    <2>3. QED
      BY <2>1, <2>2
  <1>7. Shows(t)' = [present |-> row'[t].active, at |-> row'[t].at]
    BY DEF Shows
  <1>8. Shows(t)' = world[t]
    BY <1>1, <1>2, <1>6, <1>7 DEF FirmInv, OneStatePerStamp
  <1>9. QED
    BY <1>1, <1>7, <1>8

\* Whatever else goes on, a full sync and a delta of a qBittorrent leave an active row
\* for every task that was there before they began and still is: what a deletion may
\* miss, it misses at a Transmission (Delta of transmission.go).
THEOREM FirmSyncs == Spec => FirmSyncsMissNothing
  <1>1. Init => FirmInv
    BY DEF Init, FirmInv, OneStatePerStamp, OnlyNumberedChange, CursorsReachBack
  <1>2. Inv /\ FirmInv /\ [Next]_vars => FirmInv'
    BY StampsStay, KindsStay, CursorsKeepReaching DEF FirmInv
  <1>3. Inv /\ FirmInv => FirmComplete
    BY FirmCommit DEF FirmComplete, Missed, Present, TasksOf
  <1>4. Inv /\ FirmInv /\ [Next]_vars => [FirmComplete]_vars
    BY <1>3
  <1>5. QED
    BY <1>1, <1>2, <1>4, Invariance, PTL DEF Spec, FirmSyncsMissNothing
=============================================================================
