------------------------------- MODULE HexgRing -------------------------------
(***************************************************************************)
(* The HEXG replay ring: fixed slots overwritten in a circle, the weight    *)
(* histogram kept beside them, the game ids handed to the pool's feeder,    *)
(* and the file a save writes oldest row first and a launch reads back.     *)
(*                                                                         *)
(* The feeder pushes one drained batch row by row, translating the runner's *)
(* game ids (which restart with every launch) into ids of the ring; each    *)
(* call takes the ring's mutex for itself, so the trainer's save falls      *)
(* between any two of them.  A save holds the mutex throughout and is       *)
(* published by a rename: a death inside it leaves the older file.          *)
(*                                                                         *)
(* A row is its provenance (which game of which launch, and a number no     *)
(* other row has) with the id and the weight the ring stores for it.        *)
(***************************************************************************)
EXTENDS Integers, Sequences, FiniteSets

CONSTANTS
    Capacities,   \* the capacities a launch may be configured with
    Preloads,     \* rings a first launch may find: sequences of foreign rows
    MaxGames,     \* bound on games a launch's runner finishes
    MaxBatch,     \* bound on rows in one drained batch
    MaxRows,      \* bound on rows ever pushed
    MaxLaunches   \* bound on launches

ASSUME CapacityAssumption == Capacities \subseteq Nat \ {0}
ASSUME BoundAssumption ==
    MaxGames \in Nat /\ MaxBatch \in Nat /\ MaxRows \in Nat /\ MaxLaunches \in Nat

Untagged == -1

\* The histogram's buckets: a weight below 0.30, one below 0.75, and full.
Buckets == {"low", "mid", "full"}

Games == [launch : Nat, game : Int]
Rows == [number : Int, of : Games, gid : Nat \cup {Untagged}, weight : Buckets]

\* Each of a preload's rows has a weight some writer gave it, and rows of one
\* id are rows of one game; they are numbered in their order, before any pushed.
ASSUME PreloadAssumption ==
    \A p \in Preloads :
        /\ p \in Seq(Rows)
        /\ \A i \in DOMAIN p :
             p[i].of = [launch |-> 0, game |-> p[i].gid] /\ p[i].number < 0
        /\ \A i, j \in DOMAIN p : i < j => p[i].number < p[j].number

VARIABLES
    up,         \* is a process running
    launches,   \* launches so far
    capacity, size, head,
    slots,      \* slot -> the row in it (the record, game_ids and weights arrays)
    nextGameId, \* next_game_id
    buckets,    \* weight_buckets
    disk,       \* the rows of the ring file the next launch restores
    finished,   \* games the runner of this launch has given an id
    batch,      \* the drained rows not pushed yet, by runner game id
    allocated,  \* push_graph's dict: runner game id -> ring game id
    pushed      \* history: rows ever pushed, the number of the newest

ringVars == <<capacity, size, head, slots, nextGameId, buckets>>
feedVars == <<finished, batch, allocated>>
vars == <<up, launches, ringVars, disk, feedVars, pushed>>

NoRow == [number |-> 0, of |-> [launch |-> 0, game |-> Untagged],
          gid |-> Untagged, weight |-> "full"]

Slots == 0 .. capacity - 1

\* Where the i-th oldest row is, as the save and game_id_at count it.
SlotOf(i) == (head + capacity - size + i - 1) % capacity

Live == {SlotOf(i) : i \in 1 .. size}

\* The rows held, oldest first: what write_payload writes.
Contents == [i \in 1 .. size |-> slots[SlotOf(i)]]

Init ==
    /\ up = FALSE /\ launches = 0
    /\ capacity \in Capacities /\ size = 0 /\ head = 0
    /\ slots = [s \in Slots |-> NoRow]
    /\ nextGameId = 0 /\ buckets = [b \in Buckets |-> 0]
    /\ disk \in Preloads \cup {<<>>}
    /\ finished = 0 /\ batch = <<>> /\ allocated = <<>>
    /\ pushed = 0

-----------------------------------------------------------------------------
(* A launch and a death *)

\* Mutant: a loaded ring starts over at slot 0.
HeadAfter_Start(n, c) == 0

\* The slot after the last one read, for a file of n rows.
HeadAfter(n, c) == n % c

\* Mutant: the id after the newest row's is taken, not after the largest.
FirstFreeId_Newest(rows) ==
    IF rows = <<>> THEN 0 ELSE rows[Len(rows)].gid + 1

\* A fresh game must not collide with a loaded row's.
FirstFreeId(rows) ==
    LET free == {0} \cup {rows[i].gid + 1 : i \in DOMAIN rows}
    IN CHOOSE n \in free : \A m \in free : m <= n

\* A new ring and the file read into it, in two passes of which only the
\* second writes; a file longer than the ring refuses the launch.
Launch(c) ==
    /\ ~up /\ launches < MaxLaunches /\ Len(disk) <= c
    /\ up' = TRUE /\ launches' = launches + 1
    /\ capacity' = c /\ size' = Len(disk) /\ head' = HeadAfter(Len(disk), c)
    /\ slots' = [s \in 0 .. c - 1 |-> IF s < Len(disk) THEN disk[s + 1] ELSE NoRow]
    /\ nextGameId' = FirstFreeId(disk)
    /\ buckets' = [b \in Buckets |-> Cardinality({i \in DOMAIN disk : disk[i].weight = b})]
    /\ UNCHANGED <<disk, feedVars, pushed>>

Die ==
    /\ up /\ up' = FALSE
    /\ size' = 0 /\ head' = 0 /\ slots' = [s \in Slots |-> NoRow]
    /\ nextGameId' = 0 /\ buckets' = [b \in Buckets |-> 0]
    /\ finished' = 0 /\ batch' = <<>> /\ allocated' = <<>>
    /\ UNCHANGED <<capacity, launches, disk, pushed>>

\* save_to_path; the next launch is pointed at this file.
Save ==
    /\ up /\ disk' = Contents
    /\ UNCHANGED <<up, launches, ringVars, feedVars, pushed>>

-----------------------------------------------------------------------------
(* The feeder *)

\* drain_game_rows: the rows of games finished since, whole games only, with
\* an untagged row anywhere among them.
Drain ==
    /\ up /\ batch = <<>> /\ pushed < MaxRows
    /\ \E n \in 1 .. MaxBatch : \E b \in [1 .. n -> {Untagged} \cup finished .. MaxGames - 1] :
         LET tagged == {b[i] : i \in 1 .. n} \ {Untagged} IN
         /\ tagged = finished .. finished + Cardinality(tagged) - 1
         /\ batch' = b /\ finished' = finished + Cardinality(tagged)
    /\ allocated' = <<>>
    /\ UNCHANGED <<up, launches, ringVars, disk, pushed>>

NeedsId == batch # <<>> /\ Head(batch) # Untagged /\ Head(batch) \notin DOMAIN allocated

\* The first row of a game in this batch: a fresh id of the ring.
AllocateId ==
    /\ up /\ NeedsId
    /\ allocated' = [g \in DOMAIN allocated \cup {Head(batch)} |->
                       IF g = Head(batch) THEN nextGameId ELSE allocated[g]]
    /\ nextGameId' = nextGameId + 1
    /\ UNCHANGED <<up, launches, capacity, size, head, slots, buckets, disk, finished,
                   batch, pushed>>

\* The row of runner game g as the ring stores it, at the neutral weight.
RowOf(g) ==
    [number |-> pushed + 1, of |-> [launch |-> launches, game |-> g],
     gid |-> IF g = Untagged THEN Untagged ELSE allocated[g], weight |-> "full"]

\* Mutant: the overwritten row stays counted.
Counted_NewOnly(bs, old, new) == [bs EXCEPT ![new] = @ + 1]

\* The histogram with the outgoing row (if the ring is full) out and the new in.
Counted(bs, old, new) ==
    LET without == IF size = capacity THEN [bs EXCEPT ![old] = @ - 1] ELSE bs
    IN [without EXCEPT ![new] = @ + 1]

\* push_record_impl on the next row.
PushRow ==
    /\ up /\ batch # <<>> /\ ~NeedsId /\ pushed < MaxRows
    /\ slots' = [slots EXCEPT ![head] = RowOf(Head(batch))]
    /\ buckets' = Counted(buckets, slots[head].weight, "full")
    /\ head' = (head + 1) % capacity
    /\ size' = IF size = capacity THEN size ELSE size + 1
    /\ batch' = Tail(batch) /\ pushed' = pushed + 1
    /\ UNCHANGED <<up, launches, capacity, nextGameId, disk, finished, allocated>>

\* The row is refused before anything is written; the error ends the feeder.
RefuseRow ==
    /\ up /\ batch # <<>> /\ ~NeedsId
    /\ batch' = <<>> /\ finished' = MaxGames
    /\ UNCHANGED <<up, launches, ringVars, disk, allocated, pushed>>

Next ==
    \/ \E c \in Capacities : Launch(c)
    \/ Die \/ Save
    \/ Drain \/ AllocateId \/ PushRow \/ RefuseRow

Spec == Init /\ [][Next]_vars

-----------------------------------------------------------------------------
(* Properties *)

TypeOK ==
    /\ up \in BOOLEAN /\ launches \in Nat
    /\ capacity \in Capacities /\ size \in 0 .. capacity /\ head \in Slots
    /\ slots \in [Slots -> Rows] /\ nextGameId \in Nat
    /\ buckets \in [Buckets -> Int]
    /\ disk \in Seq(Rows)
    /\ finished \in Nat /\ batch \in Seq(Int)
    /\ DOMAIN allocated \subseteq Int /\ allocated \in [DOMAIN allocated -> Nat]
    /\ pushed \in Nat

\* The ring implements the log: through every wrap, save, relaunch into a ring
\* of another capacity and wrap after that, it holds the newest rows in order,
\* and a relaunch holds what the last save held.
Log == INSTANCE RowLog WITH log <- Contents, cap <- capacity
KeepsNewestInOrder == Log!LogSpec

\* The sampler's guard reads game_ids: rows of two games never share an id, and
\* one game's rows never have two, whatever the ring was loaded from and however
\* saves and deaths fall between an id and its row.
RowsGroupByGame ==
    \A s, t \in Live :
        slots[s].gid # Untagged /\ slots[t].gid # Untagged =>
            (slots[s].gid = slots[t].gid <=> slots[s].of = slots[t].of)

\* The histogram counts the rows the ring holds, bucket by bucket: the row an
\* overwrite drops is uncounted where it was counted, a loaded one too.
HistogramExact ==
    \A b \in Buckets : buckets[b] = Cardinality({s \in Live : slots[s].weight = b})

\* Mutant: counted back from the slot the next push will use.
AgeOf_FromHead(s) == (head + capacity - s) % capacity

\* record_batch_composition: rows back from the newest.
AgeOf(s) ==
    LET newest == (head + capacity - 1) % capacity
    IN (newest + capacity - s) % capacity

\* sample_one draws a slot number below size.
Drawable == 0 .. size - 1

\* The sampler draws slots, not positions in the order: every slot it can draw
\* holds a row of the ring and no row is out of its reach; and the age it reports
\* is how many held rows are newer, the signal that tells a ring no longer fed.
SamplerSeesTheRing ==
    /\ Drawable = Live
    /\ \A s \in Drawable :
         AgeOf(s) = Cardinality({t \in Live : slots[t].number > slots[s].number})

=============================================================================
