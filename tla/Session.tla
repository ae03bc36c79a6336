------------------------------- MODULE Session -------------------------------
(***************************************************************************)
(* A Context OS session over three stores (semanticore-context).           *)
(*                                                                         *)
(* A Session keeps, under one mutex, an index of live items (which scope   *)
(* each is in, how it got there, how it has been accessed) over one        *)
(* transactional store per scope.  A call changes several stores, one      *)
(* committed transaction at a time, so a storage error or a crash can      *)
(* strike between any two commits.  Hence a call is a first step that      *)
(* validates the arguments and does what the code does up to its first     *)
(* further transaction, and then one step per transaction, driven by       *)
(* `work'.  The mutex is held from the first step to Return or             *)
(* StorageFails, so calls do not interleave with each other.               *)
(***************************************************************************)
EXTENDS ContextScope, SequencesExt

CONSTANTS
    Topics,           \* what a triple can be about, as far as patterns tell
    Payloads,         \* the payloads items are added with: sets of topics;
                      \* {} is an event, a chunk or an empty set of triples
    Patterns,         \* the sets of topics that query patterns match
    Selections,       \* what ScopeSelection::scopes() returns
    Limits,           \* query limits; None is any number >= MaxId
    Persistent,       \* the scopes whose store outlives the process
    Bounds,           \* ScopeBounds; None is any number >= MaxId
    EvictionPolicy, DemotionTarget, Cadence,
    MinorAccesses,    \* PromotionConfig.minor_to_major_accesses
    MinorWindow,      \* PromotionConfig.minor_window
    MajorReferences,  \* PromotionConfig.major_to_enduring_references
    MaxId,            \* bound: ids are 0 .. MaxId - 1
    MaxBatch,         \* bound: items added by one call
    MaxTime,          \* bound: clock ticks in the life of one Session
    MaxCalls          \* bound: calls in the life of one Session

Ids == 0 .. MaxId - 1

ASSUME BoundsAssumption ==
    MaxId \in Nat /\ MaxBatch \in Nat /\ MaxTime \in Nat /\ MaxCalls \in Nat

\* A fact of arithmetic: the scaled weight of a touch is a number.
ASSUME PowersAssumption == \A t \in 0 .. MaxTime : 2 ^ t \in Nat

ASSUME DataAssumption ==
    /\ Payloads \subseteq SUBSET Topics
    /\ Patterns \subseteq SUBSET Topics
    /\ \A sel \in Selections : \E n \in 0 .. 3 : sel \in [1 .. n -> Scopes]
    /\ \A sel \in Selections : \A i, j \in DOMAIN sel : sel[i] = sel[j] => i = j
    /\ Limits \subseteq Nat

ASSUME ConfigAssumption ==
    /\ Persistent \subseteq Scopes
    /\ Bounds \in [Scopes -> Nat]
    /\ EvictionPolicy \in {"Lru", "Lfu", "RecencyWeighted"}
    /\ DemotionTarget \in {"Drop", "NextColder", "OneStepThenDrop"}
    /\ Cadence \in {"AfterEachQuery", "Never"}
    /\ MinorAccesses \in Nat /\ MinorWindow \in Nat /\ MajorReferences \in Nat

VARIABLES
    session,   \* "open" or "closed"
    stores,    \* per scope, the committed items by id
    items,     \* State.items: the index of live items
    next_id,   \* State.next_id
    stats,     \* State.stats
    clock,     \* Instant::now(), one unit per half-life
    calls,     \* calls made on this Session
    call,      \* the operation holding the mutex, or Idle
    work,      \* the moves and drops it still has to make, in order
    mid,       \* Head(work) is in its target store and in its source store
    tally,     \* the counter to add to once the explicit moves are done
    next,      \* the scope whose bound enforce_bounds looks at next
    fault      \* some call was cut short by a storage error or a crash

state == <<items, next_id, stats, clock, calls>>
control == <<call, work, mid, tally, next>>
vars == <<session, stores, state, control, fault>>

-----------------------------------------------------------------------------
(* Data *)

Items == [payload : Payloads, cites : SUBSET Ids]

Arrivals == {"Added", "Promoted", "Demoted"}

\* weight is scaled by 2^clock: what is left of a touch at time t is
\* 2^(t - now), and only comparisons at a common now are ever made.
Entries == [item : Items, scope : Scopes, arrival : Arrivals, accesses : Nat,
            last_touch : Nat, recent : Seq(Nat), weight : Nat]

NewEntry(item, scope, arrival, now) ==
    [item |-> item, scope |-> scope, arrival |-> arrival, accesses |-> 0,
     last_touch |-> now, recent |-> <<>>, weight |-> 2 ^ now]

NoStats == [items_added |-> 0, queries_served |-> 0, items_promoted |-> 0,
            items_demoted |-> 0, items_evicted |-> 0]

\* What the running call still has to do to one item: move it to `to', or
\* drop it.
Tasks == [id : Ids, to : Scopes \cup {NoScope}, arrival : Arrivals]

Idle == "idle"
NoTally == [stat |-> "none", n |-> 0]
Tallies == [stat : {"none", "items_promoted", "items_demoted"}, n : Nat]

IsMap(f, D, R) == DOMAIN f \subseteq D /\ f \in [DOMAIN f -> R]
Empty == [x \in {} |-> x]
Merge(f, g) == [x \in DOMAIN f \cup DOMAIN g |-> IF x \in DOMAIN f THEN f[x] ELSE g[x]]

\* S as a list without repetitions, in the given order.
SortedBy(S, Before(_, _)) ==
    {q \in SetToSeqs(S) : \A i, j \in DOMAIN q : i < j => Before(q[i], q[j])}

InScope(its, s) == {id \in DOMAIN its : its[id].scope = s}

\* Faulty variant: repeated ids are kept.
IdListsRepeated(s) == UNION {[1 .. n -> InScope(items, s)] : n \in 0 .. 2}

\* check_in_scope: what is left of a list of ids that are all live in `s'
\* once repetitions are gone, the order being the caller's.
IdLists(s) == UNION {SetToSeqs(S) : S \in SUBSET InScope(items, s)}

-----------------------------------------------------------------------------
(* Open, close, crash *)

\* with_write: what one committed transaction makes of the stores.  insert_all
\* adds to whatever a graph holds already, delete empties the item's graph.
Inserted(s, added) == [stores EXCEPT ![s] = Merge(added, @)]
Deleted(s, id) == [stores EXCEPT ![s] = Restrict(@, DOMAIN @ \ {id})]

StoredIds == UNION {DOMAIN stores[s] : s \in Scopes}

\* open visits the scopes most durable first, and the first copy stays.
HolderOf(id) == CHOOSE s \in Scopes :
    /\ id \in DOMAIN stores[s]
    /\ \A t \in Scopes : id \in DOMAIN stores[t] => Durability(t) <= Durability(s)

Load ==
    [id \in StoredIds |-> NewEntry(stores[HolderOf(id)][id], HolderOf(id), "Added", 0)]

\* Faulty variants: the last id is taken for a free one; the items are counted.
FirstFreeIdOffByOne(ids) == IF ids = {} THEN 0 ELSE Max(ids)
FirstFreeIdCounted(ids) == Cardinality(ids)

FirstFreeId(ids) == IF ids = {} THEN 0 ELSE Max(ids) + 1

\* Instants belong to a process: the clock of a Session starts at 0.
Open ==
    /\ session = "closed"
    /\ Enduring \in Persistent
    /\ session' = "open"
    /\ items' = Load
    /\ next_id' = FirstFreeId(StoredIds)
    /\ UNCHANGED <<stores, stats, clock, calls, control, fault>>

\* The Session's memory is gone, and with it the stores that live in memory.
End ==
    /\ session' = "closed"
    /\ stores' = [s \in Scopes |-> IF s \in Persistent THEN stores[s] ELSE Empty]
    /\ items' = Empty
    /\ next_id' = 0
    /\ stats' = NoStats
    /\ clock' = 0
    /\ calls' = 0
    /\ call' = Idle
    /\ work' = <<>>
    /\ mid' = FALSE
    /\ tally' = NoTally
    /\ next' = NoScope

Close ==
    /\ session = "open"
    /\ call = Idle
    /\ End
    /\ UNCHANGED fault

Crash ==
    /\ session = "open"
    /\ End
    /\ fault' = (fault \/ call # Idle)

Tick ==
    /\ session = "open"
    /\ call = Idle
    /\ clock < MaxTime
    /\ clock' = clock + 1
    /\ UNCHANGED <<session, stores, items, next_id, stats, calls, control, fault>>

-----------------------------------------------------------------------------
(* The eviction order and the promotion rules *)

\* Faulty variant: ties go to the newer item.
EvictsNewerBefore(a, b) ==
    \/ items[a].last_touch < items[b].last_touch
    \/ items[a].last_touch = items[b].last_touch /\ a > b

\* Victims leave in this order; ties go to the older item.
EvictsBefore(a, b) ==
    LET key(e) == CASE EvictionPolicy = "Lru" -> e.last_touch
                    [] EvictionPolicy = "Lfu" -> e.accesses
                    [] EvictionPolicy = "RecencyWeighted" -> e.weight
    IN  \/ key(items[a]) < key(items[b])
        \/ key(items[a]) = key(items[b]) /\ a < b

\* The sorted candidates, cut to `count' (there is one such list).
Victims(s, count) ==
    {SubSeq(q, 1, IF count < Len(q) THEN count ELSE Len(q)) :
        q \in SortedBy(InScope(items, s), EvictsBefore)}

\* Faulty variant: a demoted item is demoted again.
EvictionTargetAgain(s, id) ==
    IF items[id].arrival = "Added" THEN NoScope ELSE Colder(s)

EvictionTarget(s, id) ==
    CASE DemotionTarget = "Drop" -> NoScope
      [] DemotionTarget = "NextColder" -> Colder(s)
      [] DemotionTarget = "OneStepThenDrop" ->
            IF items[id].arrival = "Promoted" THEN Colder(s) ELSE NoScope

Moves(ids, to, arrival) ==
    [i \in DOMAIN ids |-> [id |-> ids[i], to |-> to, arrival |-> arrival]]

\* evict_victims: what becomes of each victim depends on its own entry only.
Evictions(s, victims) ==
    [i \in DOMAIN victims |-> [id |-> victims[i], to |-> EvictionTarget(s, victims[i]),
                               arrival |-> "Demoted"]]

InWindow(t) == clock - t <= MinorWindow

References(its, id) ==
    Cardinality({c \in DOMAIN its : c # id /\ id \in its[c].item.cites})

\* Faulty variant: minor items may skip a tier.
ToEnduringFromAnywhere(its) ==
    {id \in DOMAIN its : its[id].scope # Enduring /\ References(its, id) > MajorReferences}

ToEnduring(its) ==
    {id \in InScope(its, Major) : References(its, id) > MajorReferences}

ToMajor(its) ==
    {id \in InScope(its, Minor) :
        Cardinality({i \in DOMAIN its[id].recent : InWindow(its[id].recent[i])})
            > MinorAccesses}

-----------------------------------------------------------------------------
(* Calls: the first step of each operation *)

Ready == session = "open" /\ call = Idle /\ calls < MaxCalls

\* The operation has `todo' to do, counts it under `count' and then enforces
\* the bounds from `from' down.
Begin(op, todo, count, from) ==
    /\ call' = op
    /\ calls' = calls + 1
    /\ work' = todo
    /\ tally' = count
    /\ next' = from
    /\ UNCHANGED <<session, mid, clock, fault>>

\* validate: every cited item is live (before the batch, so no item of a batch
\* cites another).
ValidItems == [payload : Payloads, cites : SUBSET DOMAIN items]

AddBatch(scope, batch) ==
    LET n == Len(batch)
        ids == next_id .. next_id + n - 1
        added == [id \in ids |-> batch[id - next_id + 1]]
    IN  /\ Ready
        /\ next_id + n <= MaxId
        /\ stores' = Inserted(scope, added)
        /\ items' = Merge([id \in ids |-> NewEntry(added[id], scope, "Added", clock)], items)
        /\ next_id' = next_id + n
        /\ stats' = [stats EXCEPT !.items_added = @ + n]
        /\ Begin("add", <<>>, NoTally, scope)

\* Faulty variant: the item leaves the index and stays in its store.
RemoveFromIndex(id) ==
    /\ Ready
    /\ id \in DOMAIN items
    /\ items' = Restrict(items, DOMAIN items \ {id})
    /\ calls' = calls + 1
    /\ UNCHANGED <<session, stores, next_id, stats, clock, control, fault>>

RemoveItem(id) ==
    /\ Ready
    /\ id \in DOMAIN items
    /\ stores' = Deleted(items[id].scope, id)
    /\ items' = Restrict(items, DOMAIN items \ {id})
    /\ calls' = calls + 1
    /\ UNCHANGED <<session, next_id, stats, clock, control, fault>>

\* Faulty variant: whatever the stores answer.
HitsUnfiltered(sel, pattern) ==
    {id \in StoredIds : \E i \in DOMAIN sel :
        id \in DOMAIN stores[sel[i]] /\ stores[sel[i]][id].payload \cap pattern # {}}

\* What the stores answer, less what the index places elsewhere.
Hits(sel, pattern) ==
    {id \in DOMAIN items : \E i \in DOMAIN sel :
        /\ items[id].scope = sel[i]
        /\ id \in DOMAIN stores[sel[i]]
        /\ stores[sel[i]][id].payload \cap pattern # {}}

\* Hits come scope by scope as selected, in id order within a scope.
Precedes(sel, a, b) ==
    \E i, j \in DOMAIN sel :
        /\ items[a].scope = sel[i]
        /\ items[b].scope = sel[j]
        /\ i < j \/ (i = j /\ a < b)

Returned(sel, pattern, limit) ==
    LET hits == Hits(sel, pattern)
    IN  {b \in hits : Cardinality({a \in hits : Precedes(sel, a, b)}) < limit}

\* Old accesses are popped from the front up to the first one in the window.
Touch(e) ==
    LET recent == Append(e.recent, clock)
        first == Min({i \in DOMAIN recent : InWindow(recent[i])})
    IN  [e EXCEPT !.accesses = @ + 1,
                  !.last_touch = clock,
                  !.recent = SubSeq(recent, first, Len(recent)),
                  !.weight = IF EvictionPolicy = "RecencyWeighted" THEN @ + 2 ^ clock ELSE @]

\* Faulty variant: bounds are enforced in the scope of the last move only.
AutoPromoteLastScope(its) ==
    \E up \in SortedBy(ToEnduring(its), <), on \in SortedBy(ToMajor(its), <) :
        Begin("query",
              Moves(up, Enduring, "Promoted") \o Moves(on, Major, "Promoted"),
              [stat |-> "items_promoted", n |-> Len(up) + Len(on)],
              IF on # <<>> THEN Major ELSE IF up # <<>> THEN Enduring ELSE NoScope)

\* auto_promote picks both lists before it moves anything.
AutoPromote(its) ==
    \E up \in SortedBy(ToEnduring(its), <), on \in SortedBy(ToMajor(its), <) :
        Begin("query",
              Moves(up, Enduring, "Promoted") \o Moves(on, Major, "Promoted"),
              [stat |-> "items_promoted", n |-> Len(up) + Len(on)],
              IF up # <<>> THEN Enduring ELSE IF on # <<>> THEN Major ELSE NoScope)

Query(sel, pattern, limit) ==
    LET touched == [id \in DOMAIN items |->
                        IF id \in Returned(sel, pattern, limit)
                        THEN Touch(items[id]) ELSE items[id]]
    IN  /\ Ready
        /\ items' = touched
        /\ stats' = [stats EXCEPT !.queries_served = @ + 1]
        /\ CASE Cadence = "AfterEachQuery" -> AutoPromote(touched)
             [] Cadence = "Never" -> Begin("query", <<>>, NoTally, NoScope)
        /\ UNCHANGED <<stores, next_id>>

\* from = to returns before it changes anything.
Promote(ids, from, to) ==
    /\ Ready
    /\ Durability(from) < Durability(to)
    /\ Begin("promote", Moves(ids, to, "Promoted"),
             [stat |-> "items_promoted", n |-> Len(ids)], to)
    /\ UNCHANGED <<stores, items, next_id, stats>>

EvictItems(ids) ==
    /\ Ready
    /\ Begin("evict", Moves(ids, NoScope, "Demoted"), NoTally, NoScope)
    /\ UNCHANGED <<stores, items, next_id, stats>>

EvictDemote(ids, scope, to) ==
    /\ Ready
    /\ Durability(to) < Durability(scope)
    /\ Begin("demote", Moves(ids, to, "Demoted"),
             [stat |-> "items_demoted", n |-> Len(ids)], to)
    /\ UNCHANGED <<stores, items, next_id, stats>>

EvictPolicy(scope, count) ==
    /\ Ready
    /\ \E victims \in Victims(scope, count) :
          Begin("policy", Evictions(scope, victims), NoTally, Colder(scope))
    /\ UNCHANGED <<stores, items, next_id, stats>>

-----------------------------------------------------------------------------
(* Calls: the following steps, up to the one that releases the mutex *)

Task == Head(work)

\* Faulty variant: the source copy is deleted first.
MoveInsertDeletes ==
    /\ work # <<>> /\ ~mid
    /\ Task.to # NoScope
    /\ stores' = Deleted(items[Task.id].scope, Task.id)
    /\ mid' = TRUE
    /\ UNCHANGED <<session, state, call, work, tally, next, fault>>

\* move_item, first transaction: write the item to its target.
MoveInsert ==
    /\ work # <<>> /\ ~mid
    /\ Task.to # NoScope
    /\ stores' = Inserted(Task.to, [id \in {Task.id} |-> items[id].item])
    /\ mid' = TRUE
    /\ UNCHANGED <<session, state, call, work, tally, next, fault>>

\* Moving an item does not touch it, but a demoted one starts a new window.
Relocated(e, to, arrival) ==
    [e EXCEPT !.scope = to,
              !.arrival = arrival,
              !.recent = IF arrival = "Demoted" THEN <<>> ELSE @]

\* move_item, second transaction: delete it from its source, then re-index
\* it.  evict_victims counts each move it makes; the explicit moves and
\* auto_promote count theirs together, at the end.
MoveDelete ==
    /\ work # <<>> /\ mid
    /\ stores' = Deleted(items[Task.id].scope, Task.id)
    /\ items' = [items EXCEPT ![Task.id] = Relocated(@, Task.to, Task.arrival)]
    /\ stats' = [stats EXCEPT !.items_demoted = IF tally = NoTally THEN @ + 1 ELSE @]
    /\ work' = Tail(work)
    /\ mid' = FALSE
    /\ UNCHANGED <<session, next_id, clock, calls, call, tally, next, fault>>

DropItem ==
    /\ work # <<>> /\ ~mid
    /\ Task.to = NoScope
    /\ stores' = Deleted(items[Task.id].scope, Task.id)
    /\ items' = Restrict(items, DOMAIN items \ {Task.id})
    /\ stats' = [stats EXCEPT !.items_evicted = @ + 1]
    /\ work' = Tail(work)
    /\ UNCHANGED <<session, next_id, clock, calls, call, mid, tally, next, fault>>

CountMoves ==
    /\ work = <<>>
    /\ tally # NoTally
    /\ stats' = [stats EXCEPT ![tally.stat] = @ + tally.n]
    /\ tally' = NoTally
    /\ UNCHANGED <<session, stores, items, next_id, clock, calls, call, work, mid, next, fault>>

\* Faulty variant: a scope within its bound ends the round, not the scope.
EnforceBoundStays ==
    /\ work = <<>> /\ tally = NoTally
    /\ next # NoScope
    /\ LET count == Cardinality(InScope(items, next))
           excess == IF count > Bounds[next] THEN count - Bounds[next] ELSE 0
       IN  \E victims \in Victims(next, excess) : work' = Evictions(next, victims)
    /\ UNCHANGED <<session, stores, state, call, mid, tally, next, fault>>

\* One round of enforce_bounds.
EnforceBound ==
    /\ work = <<>> /\ tally = NoTally
    /\ next # NoScope
    /\ LET count == Cardinality(InScope(items, next))
           excess == IF count > Bounds[next] THEN count - Bounds[next] ELSE 0
       IN  \E victims \in Victims(next, excess) : work' = Evictions(next, victims)
    /\ next' = Colder(next)
    /\ UNCHANGED <<session, stores, state, call, mid, tally, fault>>

Return ==
    /\ call # Idle
    /\ work = <<>> /\ tally = NoTally /\ next = NoScope
    /\ call' = Idle
    /\ UNCHANGED <<session, stores, state, work, mid, tally, next, fault>>

\* Faulty variant: the moves are counted before they are made.
StorageFailsCounted ==
    /\ work # <<>>
    /\ stats' = [f \in DOMAIN stats |-> stats[f] + IF f = tally.stat THEN tally.n ELSE 0]
    /\ call' = Idle
    /\ work' = <<>>
    /\ mid' = FALSE
    /\ tally' = NoTally
    /\ next' = NoScope
    /\ fault' = TRUE
    /\ UNCHANGED <<session, stores, items, next_id, clock, calls>>

\* with_write rolls a failed transaction back, and `?' ends the call.
StorageFails ==
    /\ work # <<>>
    /\ call' = Idle
    /\ work' = <<>>
    /\ mid' = FALSE
    /\ tally' = NoTally
    /\ next' = NoScope
    /\ fault' = TRUE
    /\ UNCHANGED <<session, stores, state>>

-----------------------------------------------------------------------------
Init ==
    /\ session = "closed"
    /\ stores = [s \in Scopes |-> Empty]
    /\ items = Empty
    /\ next_id = 0
    /\ stats = NoStats
    /\ clock = 0
    /\ calls = 0
    /\ call = Idle
    /\ work = <<>>
    /\ mid = FALSE
    /\ tally = NoTally
    /\ next = NoScope
    /\ fault = FALSE

AddSome == \E scope \in Scopes, n \in 0 .. MaxBatch :
          \E batch \in [1 .. n -> ValidItems] : AddBatch(scope, batch)
RemoveSome == \E id \in DOMAIN items : RemoveItem(id)
QuerySome ==
    \E sel \in Selections, pattern \in Patterns, limit \in Limits :
          Query(sel, pattern, limit)
PromoteSome ==
    \E from \in Scopes : \E ids \in IdLists(from), to \in Scopes : Promote(ids, from, to)
EvictSome ==
    \E scope \in Scopes :
        \/ \E ids \in IdLists(scope) : EvictItems(ids)
        \/ \E ids \in IdLists(scope), to \in Scopes : EvictDemote(ids, scope, to)
        \/ \E count \in 0 .. MaxId : EvictPolicy(scope, count)

Step == MoveInsert \/ MoveDelete \/ DropItem \/ CountMoves \/ EnforceBound \/ Return

\* What happens as long as nothing goes wrong.
CalmNext ==
    \/ Open \/ Close \/ Tick
    \/ Ready /\ (AddSome \/ RemoveSome \/ QuerySome \/ PromoteSome \/ EvictSome)
    \/ Step

Next == CalmNext \/ StorageFails \/ Crash

Spec == Init /\ [][Next]_vars

\* A call that has begun runs on: the thread that holds the mutex takes its
\* next step.  Nothing forces a client to call, or the process to stay up.
FairSpec == Spec /\ WF_vars(Step)

-----------------------------------------------------------------------------
(* Properties *)

DataTypeOK ==
    /\ DOMAIN stores = Scopes
    /\ \A s \in Scopes : IsMap(stores[s], Ids, Items)
    /\ IsMap(items, Ids, Entries)
    /\ next_id \in 0 .. MaxId
    /\ stats \in [DOMAIN NoStats -> Nat]

Operations == {"add", "query", "promote", "demote", "evict", "policy"}

ControlTypeOK ==
    /\ session \in {"open", "closed"}
    /\ clock \in 0 .. MaxTime
    /\ calls \in 0 .. MaxCalls
    /\ call \in Operations \cup {Idle}
    /\ work \in Seq(Tasks)
    /\ mid \in BOOLEAN
    /\ tally \in Tallies
    /\ next \in Scopes \cup {NoScope}
    /\ fault \in BOOLEAN

\* The state keeps its shape: stores and index map ids below MaxId to items
\* and entries, and the running call's bookkeeping is about such ids.
TypeOK == DataTypeOK /\ ControlTypeOK

\* "A copy in both, never in neither": whatever fails and whenever, a live
\* item is in the store of the scope it is indexed in, as it was added.
IndexedIsStored ==
    \A id \in DOMAIN items :
        /\ id \in DOMAIN stores[items[id].scope]
        /\ stores[items[id].scope][id] = items[id].item

\* Copies of an item that interrupted moves left behind agree, so it does not
\* matter for its content which copy open takes.
CopiesAgree ==
    \A s, t \in Scopes : \A id \in DOMAIN stores[s] \cap DOMAIN stores[t] :
        stores[s][id] = stores[t][id]

\* add_batch numbers its items from next_id, and insert_all merges quads into
\* whatever the graph of that id already holds: no store may hold anything
\* under an id that is still to be given out.
FreshIds ==
    session = "open" => \A id \in StoredIds \cup DOMAIN items : id < next_id

\* An item only cites items that were given their id before it, in this
\* Session or in an earlier one.
CitesOlder ==
    \A s \in Scopes : \A id \in DOMAIN stores[s] : \A c \in stores[s][id].cites : c < id

AreLive(tasks, its) ==
    /\ \A i, j \in DOMAIN tasks : tasks[i].id = tasks[j].id => i = j
    /\ \A i \in DOMAIN tasks :
          tasks[i].id \in DOMAIN its /\ its[tasks[i].id].scope # tasks[i].to

\* move_item and drop_item never meet the panic of expect("caller checked the
\* id"), and never delete the copy they have just written: the ids still to
\* be handled are live and distinct, none is moved to the scope it is in, and
\* between its two transactions an item is in its target's store too.  Nothing
\* is left to do once the mutex is free.
WorkIsLive ==
    /\ session = "closed" => call = Idle
    /\ call = Idle => work = <<>> /\ tally = NoTally /\ next = NoScope
    /\ AreLive(work, items)
    /\ mid => /\ work # <<>>
              /\ Task.to # NoScope
              /\ Task.id \in DOMAIN stores[Task.to]

\* As long as no call was cut short, each item is in one store, the one of
\* its scope, except between the two transactions of its move.
OneCopy ==
    ~fault /\ ~mid =>
        /\ \A s, t \in Scopes : s # t => DOMAIN stores[s] \cap DOMAIN stores[t] = {}
        /\ session = "open" => StoredIds = DOMAIN items

\* Patterns are evaluated against the stores, yet left-over copies neither hide
\* a live item from a query nor show it in a scope that it is not indexed in.
QueriesSeeTheIndex ==
    session = "open" =>
        \A sel \in Selections, pattern \in Patterns :
            Hits(sel, pattern) =
                {id \in DOMAIN items : /\ items[id].scope \in Range(sel)
                                       /\ items[id].item.payload \cap pattern # {}}

\* An id that a stored item cites and that no store holds any more is never
\* given to another item as long as the citing item is stored, although
\* next_id starts over from the stored ids each time a Session opens.
CitationsNeverRebound ==
    [][\A s \in Scopes : \A id \in DOMAIN stores[s] :
            \A c \in stores[s][id].cites \ StoredIds :
                id \in StoredIds' => c \notin StoredIds']_vars

\* The mutex is released: every call that begins ends, by returning, failing
\* or with its process, so another caller of lock() is not blocked for ever.
EveryCallEnds == call # Idle ~> call = Idle
=============================================================================
