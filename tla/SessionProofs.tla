---------------------------- MODULE SessionProofs ----------------------------
(***************************************************************************)
(* Proofs about Session, and about the tiers and the promises that         *)
(* SessionHistory records, for every value of the constants.               *)
(***************************************************************************)
EXTENDS SessionHistory, FiniteSetTheorems, WellFoundedInduction, TLAPS

-----------------------------------------------------------------------------
(* Numbers and lists *)

\* A non-empty set of numbers has a smallest element, which is what Min
\* chooses (Touch pops up to the first access in the window).
LEMMA MinIsMember ==
    ASSUME NEW S \in SUBSET Nat, S # {}
    PROVE  Min(S) \in S /\ \A y \in S : Min(S) <= y
<1>1. PICK m \in S : \A y \in S : ~(<<y, m>> \in OpToRel(<, Nat))
    BY NatLessThanWellFounded, WFMin
<1>2. \A y \in S : ~(y < m)
    BY <1>1, Zenon DEF OpToRel
<1>3. \A y \in S : m <= y
    BY <1>2
<1> QED
    BY <1>3 DEF Min

\* A non-empty bounded set of ids has a largest element, which is what Max
\* chooses (open continues the numbering after it).
LEMMA MaxIsMember ==
    ASSUME NEW n \in Nat, NEW S \in SUBSET (0 .. n), S # {}
    PROVE  Max(S) \in S /\ \A y \in S : y <= Max(S)
<1> DEFINE T == {m \in Nat : n - m \in S}
<1>1. \A y \in S : y \in 0 .. n /\ n - y \in Nat /\ n - (n - y) = y
    OBVIOUS
<1>2. \A y \in S : n - y \in T
    BY <1>1
<1>3. T \in SUBSET Nat /\ T # {}
    BY <1>2
<1>4. Min(T) \in T /\ \A y \in T : Min(T) <= y
    BY <1>3, MinIsMember
<1> DEFINE k == n - Min(T)
<1>5. k \in S /\ Min(T) \in Nat
    BY <1>4
<1>6. \A y \in S : y <= k
  <2> SUFFICES ASSUME NEW y \in S PROVE y <= k
      OBVIOUS
  <2>1. Min(T) <= n - y
      BY <1>2, <1>4
  <2> QED
      BY <2>1, <1>1, <1>5
<1>7. \A y \in S : k >= y
    BY <1>1, <1>5, <1>6
<1> HIDE DEF k
<1>8. Max(S) \in S /\ \A y \in S : Max(S) >= y
    BY <1>5, <1>7 DEF Max
<1> QED
    BY <1>1, <1>8

LEMMA FunctionIsSeq ==
    ASSUME NEW S, NEW n \in Nat, NEW f \in [1 .. n -> S]
    PROVE  f \in Seq(S) /\ Len(f) = n
OBVIOUS

\* The ids are finitely many, so every set of them can be listed, each once.
LEMMA ListsOfIds ==
    ASSUME NEW S \in SUBSET Ids
    PROVE  /\ IsFiniteSet(S)
           /\ Cardinality(S) \in Nat
           /\ \A q \in SetToSeqs(S) :
                 /\ q \in Seq(S)
                 /\ \A i, j \in DOMAIN q : q[i] = q[j] => i = j
<1>1. IsFiniteSet(S)
  <2>1. 0 \in Int /\ MaxId - 1 \in Int
      BY BoundsAssumption
  <2>2. IsFiniteSet(0 .. MaxId - 1)
      BY <2>1, FS_Interval
  <2> QED
      BY <2>2, FS_Subset DEF Ids
<1>2. Cardinality(S) \in Nat
    BY <1>1, FS_CardinalityType
<1>3. ASSUME NEW q \in SetToSeqs(S)
      PROVE  q \in Seq(S) /\ \A i, j \in DOMAIN q : q[i] = q[j] => i = j
  <2>1. q \in [1 .. Cardinality(S) -> S]
      BY <1>3, Zenon DEF SetToSeqs
  <2>2. \A i, j \in 1 .. Cardinality(S) : i # j => q[i] # q[j]
      BY <1>3, Zenon DEF SetToSeqs
  <2> HIDE <1>1
  <2>3. q \in Seq(S)
      BY <2>1, <1>2
  <2> QED
      BY <2>1, <2>2, <2>3
<1> QED
    BY <1>1, <1>2, <1>3

-----------------------------------------------------------------------------
(* Maps *)

LEMMA EmptyMap == \A D, R : IsMap(Empty, D, R) /\ DOMAIN Empty = {}
BY DEF IsMap, Empty

LEMMA RestrictMap ==
    ASSUME NEW D, NEW R, NEW f, IsMap(f, D, R), NEW x
    PROVE  LET g == Restrict(f, DOMAIN f \ {x})
           IN  /\ IsMap(g, D, R)
               /\ DOMAIN g = DOMAIN f \ {x}
               /\ \A y \in DOMAIN g : g[y] = f[y]
BY DEF IsMap, Restrict

LEMMA MergeMaps ==
    ASSUME NEW D, NEW R, NEW f, NEW g, IsMap(f, D, R), IsMap(g, D, R)
    PROVE  LET h == Merge(f, g)
           IN  /\ IsMap(h, D, R)
               /\ DOMAIN h = DOMAIN f \cup DOMAIN g
               /\ \A y \in DOMAIN f : h[y] = f[y]
               /\ \A y \in DOMAIN g : y \notin DOMAIN f => h[y] = g[y]
BY DEF IsMap, Merge

-----------------------------------------------------------------------------
(* Types of the parts *)

LEMMA NewEntryType ==
    ASSUME NEW item \in Items, NEW scope \in Scopes, NEW arrival \in Arrivals,
           NEW now \in 0 .. MaxTime
    PROVE  NewEntry(item, scope, arrival, now) \in Entries
<1>1. 2 ^ now \in Nat /\ now \in Nat
    BY PowersAssumption, BoundsAssumption
<1> QED
    BY <1>1 DEF NewEntry, Entries

LEMMA TouchType ==
    ASSUME NEW e \in Entries, clock \in 0 .. MaxTime
    PROVE  /\ Touch(e) \in Entries
           /\ Touch(e).item = e.item
           /\ Touch(e).scope = e.scope
           /\ Touch(e).last_touch = clock
<1> DEFINE r == Append(e.recent, clock)
           K == {i \in DOMAIN r : InWindow(r[i])}
           first == Min(K)
<1>1. clock \in Nat /\ e.recent \in Seq(Nat) /\ 2 ^ clock \in Nat
    BY BoundsAssumption, PowersAssumption DEF Entries
<1>2. r \in Seq(Nat) /\ Len(r) \in DOMAIN r /\ r[Len(r)] = clock
    BY <1>1
<1>3. Len(r) \in K
    BY <1>1, <1>2, ConfigAssumption DEF InWindow
<1>4. K \in SUBSET Nat /\ K # {} /\ K \subseteq 1 .. Len(r)
    BY <1>2, <1>3
<1>5. first \in 1 .. Len(r)
  <2> HIDE DEF K, r
  <2> QED
      BY <1>4, MinIsMember
<1> DEFINE w == IF EvictionPolicy = "RecencyWeighted" THEN e.weight + 2 ^ clock ELSE e.weight
           q == SubSeq(r, first, Len(r))
<1>6. Touch(e) = [e EXCEPT !.accesses = e.accesses + 1, !.last_touch = clock,
                           !.recent = q, !.weight = w]
    BY Zenon DEF Touch
<1>7. q \in Seq(Nat)
  <2> HIDE DEF first, r
  <2> QED
      BY <1>2, <1>5
<1>8. w \in Nat
    BY <1>1 DEF Entries
<1>9. clock \in Nat /\ e.accesses + 1 \in Nat
    BY <1>1 DEF Entries
<1> HIDE DEF w, q
<1> DEFINE t == [e EXCEPT !.accesses = e.accesses + 1, !.last_touch = clock,
                          !.recent = q, !.weight = w]
<1>10. t \in Entries /\ t.item = e.item /\ t.scope = e.scope /\ t.last_touch = clock
    BY <1>7, <1>8, <1>9 DEF Entries
<1> QED
    BY <1>6, <1>10

LEMMA InScopeIds ==
    ASSUME TypeOK, NEW s
    PROVE  InScope(items, s) \in SUBSET Ids /\ InScope(items, s) \subseteq DOMAIN items
BY DEF TypeOK, DataTypeOK, IsMap, InScope

LEMMA IdListsType ==
    ASSUME TypeOK, NEW s, NEW ids \in IdLists(s)
    PROVE  /\ ids \in Seq(InScope(items, s))
           /\ \A i, j \in DOMAIN ids : ids[i] = ids[j] => i = j
<1>1. PICK S \in SUBSET InScope(items, s) : ids \in SetToSeqs(S)
    BY Zenon DEF IdLists
<1>2. S \in SUBSET Ids
    BY InScopeIds
<1> QED
    BY <1>1, <1>2, ListsOfIds

LEMMA VictimsType ==
    ASSUME TypeOK, NEW s, NEW count \in Nat, NEW v \in Victims(s, count)
    PROVE  /\ v \in Seq(InScope(items, s))
           /\ \A i, j \in DOMAIN v : v[i] = v[j] => i = j
<1>1. PICK q \in SetToSeqs(InScope(items, s)) :
         v = SubSeq(q, 1, IF count < Len(q) THEN count ELSE Len(q))
    BY Zenon DEF Victims, SortedBy
<1>2. /\ q \in Seq(InScope(items, s))
      /\ \A i, j \in DOMAIN q : q[i] = q[j] => i = j
    BY InScopeIds, ListsOfIds
<1> QED
    BY <1>1, <1>2

LEMMA MovesType ==
    ASSUME NEW S \in SUBSET Ids, NEW ids \in Seq(S), NEW to \in Scopes \cup {NoScope},
           NEW arrival \in Arrivals
    PROVE  Moves(ids, to, arrival) \in Seq(Tasks)
<1>1. Len(ids) \in Nat /\ DOMAIN ids = 1 .. Len(ids) /\ ids \in [1 .. Len(ids) -> Ids]
    OBVIOUS
<1>2. Moves(ids, to, arrival) \in [1 .. Len(ids) -> Tasks]
    BY <1>1 DEF Moves, Tasks
<1> QED
    BY <1>1, <1>2, FunctionIsSeq

LEMMA ColderType == \A s \in Scopes : Colder(s) \in Scopes \cup {NoScope}
BY DEF Colder, Scopes, NoScope, Minor, Major, Enduring

LEMMA EvictionsType ==
    ASSUME TypeOK, NEW s \in Scopes, NEW v \in Seq(InScope(items, s))
    PROVE  Evictions(s, v) \in Seq(Tasks)
<1>1. \A id : EvictionTarget(s, id) \in Scopes \cup {NoScope}
    BY ColderType, ConfigAssumption DEF EvictionTarget
<1>2. v \in Seq(Ids)
    BY InScopeIds
<1>3. Len(v) \in Nat /\ DOMAIN v = 1 .. Len(v) /\ v \in [1 .. Len(v) -> Ids]
    BY <1>2
<1>4. Evictions(s, v) \in [1 .. Len(v) -> Tasks]
    BY <1>1, <1>3 DEF Evictions, Tasks, Arrivals
<1> QED
    BY <1>3, <1>4, FunctionIsSeq

LEMMA StatsType ==
    ASSUME NEW D, NEW st \in [D -> Nat], NEW f, NEW n \in Nat
    PROVE  [st EXCEPT ![f] = @ + n] \in [D -> Nat]
<1> DEFINE new == [st EXCEPT ![f] = @ + n]
<1>1. DOMAIN new = D /\ \A x \in D : new[x] = IF x = f THEN st[x] + n ELSE st[x]
    OBVIOUS
<1>2. \A x \in D : new[x] \in Nat
    BY <1>1
<1> QED
    BY <1>1, <1>2

LEMMA NoStatsType == NoStats \in [DOMAIN NoStats -> Nat]
BY DEF NoStats

LEMMA PutType ==
    ASSUME TypeOK, NEW s \in Scopes, NEW f, IsMap(f, Ids, Items)
    PROVE  LET new == [stores EXCEPT ![s] = f]
           IN  DOMAIN new = Scopes /\ \A t \in Scopes : IsMap(new[t], Ids, Items)
BY DEF TypeOK, DataTypeOK

\* The types of the stores after an item was deleted from its scope's store.
LEMMA DeleteType ==
    ASSUME TypeOK, NEW s \in Scopes, NEW id
    PROVE  LET new == Deleted(s, id)
           IN  DOMAIN new = Scopes /\ \A t \in Scopes : IsMap(new[t], Ids, Items)
<1>1. IsMap(Restrict(stores[s], DOMAIN stores[s] \ {id}), Ids, Items)
    BY RestrictMap DEF TypeOK, DataTypeOK
<1> QED
    BY <1>1, PutType DEF Deleted, TypeOK, DataTypeOK

-----------------------------------------------------------------------------
(* Type correctness *)

LEMMA InitType == Init => TypeOK
<1>1. NoTally \in Tallies
    BY DEF NoTally, Tallies
<1>2. Init => DataTypeOK
    BY BoundsAssumption, EmptyMap, NoStatsType DEF Init, DataTypeOK
<1>3. Init => ControlTypeOK
  <2>1. 0 \in 0 .. MaxTime /\ 0 \in 0 .. MaxCalls /\ <<>> \in Seq(Tasks)
      BY BoundsAssumption
  <2> QED
      BY <1>1, <2>1, Zenon DEF Init, ControlTypeOK
<1> QED
    BY <1>2, <1>3 DEF TypeOK

\* The first step of a call: what it does to the bookkeeping.
LEMMA BeginType ==
    ASSUME TypeOK, Ready, NEW op \in Operations, NEW todo \in Seq(Tasks),
           NEW count \in Tallies, NEW from \in Scopes \cup {NoScope},
           Begin(op, todo, count, from)
    PROVE  ControlTypeOK'
BY BoundsAssumption DEF TypeOK, ControlTypeOK, Ready, Begin

LEMMA EndType == ASSUME TypeOK, End, fault' \in BOOLEAN PROVE TypeOK'
<1>1. NoTally \in Tallies
    BY DEF NoTally, Tallies
<1>2. DataTypeOK'
    BY BoundsAssumption, EmptyMap, NoStatsType DEF End, TypeOK, DataTypeOK
<1>3. ControlTypeOK'
  <2>1. 0 \in 0 .. MaxTime /\ 0 \in 0 .. MaxCalls /\ <<>> \in Seq(Tasks)
      BY BoundsAssumption
  <2> QED
      BY <1>1, <2>1, Zenon DEF End, ControlTypeOK
<1> QED
    BY <1>2, <1>3 DEF TypeOK

\* What open finds is what the stores hold.
LEMMA HolderHolds ==
    ASSUME NEW id \in StoredIds
    PROVE  HolderOf(id) \in Scopes /\ id \in DOMAIN stores[HolderOf(id)]
<1>1. PICK u \in Scopes : id \in DOMAIN stores[u]
    BY DEF StoredIds
<1>2. \E s \in Scopes :
         /\ id \in DOMAIN stores[s]
         /\ \A t \in Scopes : id \in DOMAIN stores[t] => Durability(t) <= Durability(s)
  <2>1. CASE id \in DOMAIN stores[Enduring]
      BY <2>1 DEF Scopes, Durability, Minor, Major, Enduring
  <2>2. CASE id \notin DOMAIN stores[Enduring] /\ id \in DOMAIN stores[Major]
      BY <2>2 DEF Scopes, Durability, Minor, Major, Enduring
  <2>3. CASE id \notin DOMAIN stores[Enduring] /\ id \notin DOMAIN stores[Major]
      BY <2>3, <1>1 DEF Scopes, Durability, Minor, Major, Enduring
  <2> QED
      BY <2>1, <2>2, <2>3
<1> QED
    BY <1>2, Zenon DEF HolderOf

LEMMA FirstFreeIdBounds ==
    ASSUME NEW S \in SUBSET Ids
    PROVE  FirstFreeId(S) \in 0 .. MaxId /\ \A id \in S : id < FirstFreeId(S)
<1>1. CASE S = {}
    BY <1>1, BoundsAssumption DEF FirstFreeId
<1>2. CASE S # {}
  <2>0. PICK x \in S : x \in 0 .. MaxId - 1
      BY <1>2 DEF Ids
  <2>1. MaxId - 1 \in Nat /\ S \in SUBSET (0 .. MaxId - 1)
      BY <2>0, BoundsAssumption DEF Ids
  <2>2. Max(S) \in S /\ \A y \in S : y <= Max(S)
      BY <1>2, <2>1, MaxIsMember
  <2>3. Max(S) \in 0 .. MaxId - 1 /\ FirstFreeId(S) = Max(S) + 1
      BY <1>2, <2>1, <2>2 DEF FirstFreeId
  <2> QED
      BY <2>1, <2>2, <2>3, BoundsAssumption
<1> QED
    BY <1>1, <1>2

LEMMA OpenType == ASSUME TypeOK, Open PROVE TypeOK'
<1>1. StoredIds \in SUBSET Ids
    BY DEF TypeOK, DataTypeOK, IsMap, StoredIds
<1>2. next_id' \in 0 .. MaxId
    BY <1>1, FirstFreeIdBounds DEF Open
<1>3. ASSUME NEW id \in StoredIds
      PROVE  NewEntry(stores[HolderOf(id)][id], HolderOf(id), "Added", 0) \in Entries
  <2>1. stores[HolderOf(id)][id] \in Items
      BY HolderHolds DEF TypeOK, DataTypeOK, IsMap
  <2>2. 0 \in 0 .. MaxTime /\ "Added" \in Arrivals
      BY BoundsAssumption DEF Arrivals
  <2> QED
      BY <2>1, <2>2, HolderHolds, NewEntryType
<1>4. IsMap(items', Ids, Entries)
    BY <1>1, <1>3, Zenon DEF Open, Load, IsMap
<1> QED
    BY <1>2, <1>4 DEF Open, TypeOK, DataTypeOK, ControlTypeOK, control

LEMMA AddType ==
    ASSUME TypeOK, NEW scope \in Scopes, NEW n \in 0 .. MaxBatch,
           NEW batch \in [1 .. n -> ValidItems], AddBatch(scope, batch)
    PROVE  TypeOK'
<1> DEFINE ids == next_id .. next_id + n - 1
           added == [id \in ids |-> batch[id - next_id + 1]]
           entries == [id \in ids |-> NewEntry(added[id], scope, "Added", clock)]
<1>1. n \in Nat /\ Len(batch) = n /\ next_id \in Nat /\ next_id + n <= MaxId
    BY BoundsAssumption, FunctionIsSeq DEF TypeOK, DataTypeOK, AddBatch
<1>2. ids \subseteq Ids
    BY <1>1, BoundsAssumption DEF Ids
<1>3. ValidItems \subseteq Items
    BY DEF ValidItems, Items, TypeOK, DataTypeOK, IsMap
<1>4. \A id \in ids : added[id] \in Items
    BY <1>1, <1>3
<1>5. clock \in 0 .. MaxTime /\ "Added" \in Arrivals
    BY DEF TypeOK, ControlTypeOK, Arrivals
<1>6. \A id \in ids : entries[id] \in Entries
    BY <1>4, <1>5, NewEntryType
<1>7. /\ stores' = [stores EXCEPT ![scope] = Merge(added, stores[scope])]
      /\ items' = Merge(entries, items)
      /\ next_id' = next_id + n
      /\ stats' = [stats EXCEPT !["items_added"] = @ + n]
      /\ Begin("add", <<>>, NoTally, scope)
      /\ Ready
    BY <1>1 DEF AddBatch, Inserted, TypeOK, DataTypeOK
<1>8. IsMap(added, Ids, Items) /\ IsMap(entries, Ids, Entries)
    BY <1>2, <1>4, <1>6 DEF IsMap
<1> HIDE DEF added, entries, ids
<1>9. IsMap(Merge(added, stores[scope]), Ids, Items) /\ IsMap(items', Ids, Entries)
    BY <1>7, <1>8, MergeMaps DEF TypeOK, DataTypeOK
<1>10. DOMAIN stores' = Scopes /\ \A t \in Scopes : IsMap(stores'[t], Ids, Items)
    BY <1>7, <1>9, PutType
<1>11. next_id' \in 0 .. MaxId /\ stats' \in [DOMAIN NoStats -> Nat]
  <2>1. stats \in [DOMAIN NoStats -> Nat]
      BY DEF TypeOK, DataTypeOK
  <2>2. stats' \in [DOMAIN NoStats -> Nat]
      BY <1>1, <1>7, <2>1, StatsType
  <2> QED
      BY <1>1, <1>7, <2>2, BoundsAssumption
<1>12. DataTypeOK'
    BY <1>9, <1>10, <1>11 DEF DataTypeOK
<1>13. <<>> \in Seq(Tasks) /\ NoTally \in Tallies /\ "add" \in Operations
    BY DEF NoTally, Tallies, Operations
<1> QED
    BY <1>7, <1>12, <1>13, BeginType DEF TypeOK

LEMMA RemoveType ==
    ASSUME TypeOK, NEW id \in DOMAIN items, RemoveItem(id)
    PROVE  TypeOK'
<1>1. items[id].scope \in Scopes
    BY DEF TypeOK, DataTypeOK, IsMap, Entries
<1>2. DOMAIN stores' = Scopes /\ \A t \in Scopes : IsMap(stores'[t], Ids, Items)
    BY <1>1, DeleteType DEF RemoveItem
<1>3. IsMap(items', Ids, Entries)
    BY RestrictMap DEF RemoveItem, TypeOK, DataTypeOK
<1>4. DataTypeOK'
    BY <1>2, <1>3 DEF RemoveItem, TypeOK, DataTypeOK
<1>5. ControlTypeOK'
    BY BoundsAssumption DEF RemoveItem, Ready, TypeOK, ControlTypeOK, control
<1> QED
    BY <1>4, <1>5 DEF TypeOK

\* The index after a query: the same items in the same scopes.
Touched(sel, pattern, limit) ==
    [id \in DOMAIN items |->
        IF id \in Returned(sel, pattern, limit) THEN Touch(items[id]) ELSE items[id]]

LEMMA TouchedType ==
    ASSUME TypeOK, NEW sel, NEW pattern, NEW limit
    PROVE  LET t == Touched(sel, pattern, limit)
           IN  /\ IsMap(t, Ids, Entries)
               /\ DOMAIN t = DOMAIN items
               /\ \A id \in DOMAIN items :
                     /\ t[id].item = items[id].item /\ t[id].scope = items[id].scope
                     /\ t[id].last_touch \in {items[id].last_touch, clock}
<1> DEFINE t == Touched(sel, pattern, limit)
<1>1. clock \in 0 .. MaxTime
    BY DEF TypeOK, ControlTypeOK
<1>2. DOMAIN items \subseteq Ids /\ \A id \in DOMAIN items : items[id] \in Entries
    BY DEF TypeOK, DataTypeOK, IsMap
<1>3. ASSUME NEW id \in DOMAIN items
      PROVE  /\ t[id] \in Entries
             /\ t[id].item = items[id].item /\ t[id].scope = items[id].scope
             /\ t[id].last_touch \in {items[id].last_touch, clock}
  <2>1. t[id] = IF id \in Returned(sel, pattern, limit) THEN Touch(items[id]) ELSE items[id]
      BY DEF Touched
  <2>2. items[id] \in Entries
      BY <1>2
  <2> QED
      BY <1>1, <2>1, <2>2, TouchType
<1>4. DOMAIN t = DOMAIN items /\ t = [id \in DOMAIN items |-> t[id]]
    BY DEF Touched
<1> HIDE DEF t
<1>5. IsMap(t, Ids, Entries)
    BY <1>2, <1>3, <1>4 DEF IsMap
<1> QED
    BY <1>3, <1>4, <1>5 DEF t

\* auto_promote lists distinct items of the scopes it promotes from.
LEMMA AutoPromoteBegins ==
    ASSUME NEW its, IsMap(its, Ids, Entries), AutoPromote(its)
    PROVE  \E up \in Seq(InScope(its, Major)), on \in Seq(InScope(its, Minor)) :
           \E count \in Tallies, from \in Scopes \cup {NoScope} :
              /\ \A i, j \in DOMAIN up : up[i] = up[j] => i = j
              /\ \A i, j \in DOMAIN on : on[i] = on[j] => i = j
              /\ Begin("query",
                       Moves(up, Enduring, "Promoted") \o Moves(on, Major, "Promoted"),
                       count, from)
<1> DEFINE count(up, on) == [stat |-> "items_promoted", n |-> Len(up) + Len(on)]
           from(up, on) == IF up # <<>> THEN Enduring ELSE IF on # <<>> THEN Major ELSE NoScope
<1>1. PICK up \in SetToSeqs(ToEnduring(its)), on \in SetToSeqs(ToMajor(its)) :
         Begin("query", Moves(up, Enduring, "Promoted") \o Moves(on, Major, "Promoted"),
               count(up, on), from(up, on))
    BY Zenon DEF AutoPromote, SortedBy
<1>2. /\ ToEnduring(its) \in SUBSET Ids /\ ToEnduring(its) \subseteq InScope(its, Major)
      /\ ToMajor(its) \in SUBSET Ids /\ ToMajor(its) \subseteq InScope(its, Minor)
    BY DEF ToEnduring, ToMajor, InScope, IsMap
<1>3. /\ up \in Seq(ToEnduring(its)) /\ \A i, j \in DOMAIN up : up[i] = up[j] => i = j
      /\ on \in Seq(ToMajor(its)) /\ \A i, j \in DOMAIN on : on[i] = on[j] => i = j
    BY <1>2, ListsOfIds
<1>4. up \in Seq(InScope(its, Major)) /\ on \in Seq(InScope(its, Minor))
    BY <1>2, <1>3
<1>5. count(up, on) \in Tallies
    BY <1>3 DEF Tallies
<1>6. from(up, on) \in Scopes \cup {NoScope}
    BY DEF Scopes
<1> HIDE DEF count, from
<1> QED
    BY <1>1, <1>3, <1>4, <1>5, <1>6

LEMMA QueryType ==
    ASSUME TypeOK, NEW sel, NEW pattern, NEW limit, Query(sel, pattern, limit)
    PROVE  TypeOK'
<1> DEFINE t == Touched(sel, pattern, limit)
<1>1. /\ Ready
      /\ items' = t
      /\ stats' = [stats EXCEPT !["queries_served"] = @ + 1]
      /\ AutoPromote(t) \/ Begin("query", <<>>, NoTally, NoScope)
      /\ UNCHANGED <<stores, next_id>>
    BY ConfigAssumption DEF Query, Touched
<1>2. IsMap(t, Ids, Entries)
    BY TouchedType
<1> HIDE DEF t
<1>3. stats' \in [DOMAIN NoStats -> Nat]
    BY <1>1, StatsType DEF TypeOK, DataTypeOK
<1>4. DataTypeOK'
    BY <1>1, <1>2, <1>3 DEF TypeOK, DataTypeOK
<1>5. "query" \in Operations /\ <<>> \in Seq(Tasks) /\ NoTally \in Tallies
    BY DEF Operations, NoTally, Tallies
<1>6. CASE AutoPromote(t)
  <2>1. PICK up \in Seq(InScope(t, Major)), on \in Seq(InScope(t, Minor)),
             count \in Tallies, from \in Scopes \cup {NoScope} :
           Begin("query", Moves(up, Enduring, "Promoted") \o Moves(on, Major, "Promoted"),
                 count, from)
      BY <1>2, <1>6, AutoPromoteBegins
  <2>2. InScope(t, Major) \in SUBSET Ids /\ InScope(t, Minor) \in SUBSET Ids
      BY <1>2 DEF InScope, IsMap
  <2>3. Enduring \in Scopes \cup {NoScope} /\ Major \in Scopes \cup {NoScope}
        /\ "Promoted" \in Arrivals
      BY DEF Scopes, Arrivals
  <2>4. /\ Moves(up, Enduring, "Promoted") \in Seq(Tasks)
        /\ Moves(on, Major, "Promoted") \in Seq(Tasks)
      BY <2>2, <2>3, MovesType
  <2>5. Moves(up, Enduring, "Promoted") \o Moves(on, Major, "Promoted") \in Seq(Tasks)
      BY <2>4
  <2> QED
      BY <1>1, <1>4, <1>5, <2>1, <2>5, BeginType DEF TypeOK
<1>7. CASE Begin("query", <<>>, NoTally, NoScope)
    BY <1>1, <1>4, <1>5, <1>7, BeginType DEF TypeOK
<1> QED
    BY <1>1, <1>6, <1>7

\* The calls that only plan moves or drops of listed items.
LEMMA ListedType ==
    ASSUME TypeOK, Ready, NEW s, NEW ids \in IdLists(s), NEW op \in Operations,
           NEW to \in Scopes \cup {NoScope}, NEW arrival \in Arrivals,
           NEW count \in Tallies, NEW from \in Scopes \cup {NoScope},
           Begin(op, Moves(ids, to, arrival), count, from),
           UNCHANGED <<stores, items, next_id, stats>>
    PROVE  TypeOK'
<1>1. Moves(ids, to, arrival) \in Seq(Tasks)
    BY IdListsType, InScopeIds, MovesType
<1>2. ControlTypeOK'
    BY <1>1, BeginType
<1> QED
    BY <1>2 DEF TypeOK, DataTypeOK

LEMMA CountType ==
    ASSUME TypeOK, NEW s, NEW ids \in IdLists(s), NEW f \in {"items_promoted", "items_demoted"}
    PROVE  [stat |-> f, n |-> Len(ids)] \in Tallies
<1>1. ids \in Seq(InScope(items, s))
    BY IdListsType
<1> QED
    BY <1>1 DEF Tallies

LEMMA EvictPolicyType ==
    ASSUME TypeOK, NEW scope \in Scopes, NEW count \in 0 .. MaxId, EvictPolicy(scope, count)
    PROVE  TypeOK'
<1>1. PICK v \in Victims(scope, count) :
         Begin("policy", Evictions(scope, v), NoTally, Colder(scope))
    BY DEF EvictPolicy
<1>2. count \in Nat
    BY BoundsAssumption
<1>3. Evictions(scope, v) \in Seq(Tasks)
    BY <1>2, VictimsType, EvictionsType
<1>4. "policy" \in Operations /\ NoTally \in Tallies /\ Ready
    BY DEF Operations, NoTally, Tallies, EvictPolicy
<1>5. ControlTypeOK'
    BY <1>1, <1>3, <1>4, ColderType, BeginType
<1> QED
    BY <1>5 DEF EvictPolicy, TypeOK, DataTypeOK

\* The item that the running call is about to handle.
LEMMA TaskType ==
    ASSUME TypeOK, WorkIsLive, work # <<>>
    PROVE  /\ Task \in Tasks
           /\ Task.id \in DOMAIN items
           /\ items[Task.id] \in Entries
           /\ items[Task.id].scope \in Scopes
           /\ items[Task.id].scope # Task.to
           /\ Tail(work) \in Seq(Tasks)
<1>1. work \in Seq(Tasks)
    BY DEF TypeOK, ControlTypeOK
<1>2. 1 \in DOMAIN work /\ Task = work[1] /\ Task \in Tasks /\ Tail(work) \in Seq(Tasks)
    BY <1>1 DEF Task
<1>3. Task.id \in DOMAIN items /\ items[Task.id].scope # Task.to
    BY <1>2 DEF WorkIsLive, AreLive
<1>4. items[Task.id] \in Entries
    BY <1>3 DEF TypeOK, DataTypeOK, IsMap
<1> QED
    BY <1>2, <1>3, <1>4 DEF Entries

LEMMA MoveInsertType == ASSUME TypeOK, WorkIsLive, MoveInsert PROVE TypeOK'
<1> DEFINE one == [id \in {Task.id} |-> items[id].item]
<1>1. Task.to \in Scopes /\ Task.id \in Ids /\ items[Task.id].item \in Items
    BY TaskType DEF MoveInsert, Tasks, Entries
<1>2. IsMap(one, Ids, Items)
    BY <1>1 DEF IsMap
<1>3. stores' = [stores EXCEPT ![Task.to] = Merge(one, stores[Task.to])]
    BY DEF MoveInsert, Inserted
<1> HIDE DEF one
<1>4. IsMap(Merge(one, stores[Task.to]), Ids, Items)
    BY <1>1, <1>2, MergeMaps DEF TypeOK, DataTypeOK
<1>5. DOMAIN stores' = Scopes /\ \A t \in Scopes : IsMap(stores'[t], Ids, Items)
    BY <1>1, <1>3, <1>4, PutType
<1>6. DataTypeOK'
    BY <1>5 DEF MoveInsert, state, TypeOK, DataTypeOK
<1>7. ControlTypeOK'
    BY Zenon DEF MoveInsert, state, TypeOK, ControlTypeOK
<1> QED
    BY <1>6, <1>7 DEF TypeOK

LEMMA RelocatedType ==
    ASSUME NEW e \in Entries, NEW to \in Scopes, NEW arrival \in Arrivals
    PROVE  LET r == Relocated(e, to, arrival)
           IN  /\ r \in Entries /\ r.item = e.item /\ r.scope = to
               /\ r.arrival = arrival /\ r.last_touch = e.last_touch
<1> DEFINE q == IF arrival = "Demoted" THEN <<>> ELSE e.recent
           r == [e EXCEPT !.scope = to, !.arrival = arrival, !.recent = q]
<1>1. Relocated(e, to, arrival) = r
    BY Zenon DEF Relocated
<1>2. q \in Seq(Nat)
    BY DEF Entries
<1> HIDE DEF q
<1>3. /\ r \in Entries /\ r.item = e.item /\ r.scope = to
      /\ r.arrival = arrival /\ r.last_touch = e.last_touch
    BY <1>2 DEF Entries
<1> QED
    BY <1>1, <1>3

LEMMA MoveDeleteType == ASSUME TypeOK, WorkIsLive, MoveDelete PROVE TypeOK'
<1> DEFINE e == items[Task.id]
           entry == Relocated(e, Task.to, Task.arrival)
<1>1. work # <<>> /\ Task.to # NoScope /\ Task.to \in Scopes /\ Task.arrival \in Arrivals
    BY TaskType DEF MoveDelete, WorkIsLive, Tasks
<1>2. e \in Entries /\ e.scope \in Scopes /\ Task.id \in DOMAIN items
    BY <1>1, TaskType
<1>3. entry \in Entries
    BY <1>1, <1>2, RelocatedType
<1>4. items' = [items EXCEPT ![Task.id] = entry]
    BY DEF MoveDelete
<1> HIDE DEF entry
<1>5. IsMap(items', Ids, Entries)
    BY <1>2, <1>3, <1>4 DEF TypeOK, DataTypeOK, IsMap
<1>6. DOMAIN stores' = Scopes /\ \A t \in Scopes : IsMap(stores'[t], Ids, Items)
    BY <1>2, DeleteType DEF MoveDelete
<1>7. stats' \in [DOMAIN NoStats -> Nat]
  <2>1. stats \in [DOMAIN NoStats -> Nat]
      BY DEF TypeOK, DataTypeOK
  <2>2. CASE tally = NoTally
    <3>1. stats' = [stats EXCEPT !["items_demoted"] = @ + 1]
        BY <2>2 DEF MoveDelete
    <3> QED
        BY <2>1, <3>1, StatsType
  <2>3. CASE tally # NoTally
      BY <2>1, <2>3 DEF MoveDelete
  <2> QED
      BY <2>2, <2>3
<1>8. DataTypeOK'
    BY <1>5, <1>6, <1>7 DEF MoveDelete, TypeOK, DataTypeOK
<1>9. ControlTypeOK'
    BY <1>1, TaskType, Zenon DEF MoveDelete, TypeOK, ControlTypeOK
<1> QED
    BY <1>8, <1>9 DEF TypeOK

LEMMA DropItemType == ASSUME TypeOK, WorkIsLive, DropItem PROVE TypeOK'
<1>1. items[Task.id].scope \in Scopes /\ Tail(work) \in Seq(Tasks)
    BY TaskType DEF DropItem
<1>2. DOMAIN stores' = Scopes /\ \A t \in Scopes : IsMap(stores'[t], Ids, Items)
    BY <1>1, DeleteType DEF DropItem
<1>3. IsMap(items', Ids, Entries)
    BY RestrictMap DEF DropItem, TypeOK, DataTypeOK
<1>4. stats' \in [DOMAIN NoStats -> Nat]
  <2>1. stats \in [DOMAIN NoStats -> Nat] /\ stats' = [stats EXCEPT !["items_evicted"] = @ + 1]
      BY DEF TypeOK, DataTypeOK, DropItem
  <2> QED
      BY <2>1, StatsType
<1>5. DataTypeOK'
    BY <1>2, <1>3, <1>4 DEF DropItem, TypeOK, DataTypeOK
<1>6. ControlTypeOK'
    BY <1>1, Zenon DEF DropItem, TypeOK, ControlTypeOK
<1> QED
    BY <1>5, <1>6 DEF TypeOK

LEMMA EnforceBoundType == ASSUME TypeOK, EnforceBound PROVE TypeOK'
<1> DEFINE count == Cardinality(InScope(items, next))
           excess == IF count > Bounds[next] THEN count - Bounds[next] ELSE 0
<1>1. next \in Scopes
    BY DEF EnforceBound, TypeOK, ControlTypeOK
<1>2. excess \in Nat
    BY <1>1, InScopeIds, ListsOfIds, ConfigAssumption
<1>3. PICK v \in Victims(next, excess) : work' = Evictions(next, v)
    BY DEF EnforceBound
<1> HIDE DEF excess
<1>4. work' \in Seq(Tasks)
    BY <1>1, <1>2, <1>3, VictimsType, EvictionsType
<1>5. next' \in Scopes \cup {NoScope}
    BY <1>1, ColderType DEF EnforceBound
<1>6. ControlTypeOK'
    BY <1>4, <1>5, Zenon DEF EnforceBound, state, TypeOK, ControlTypeOK
<1> QED
    BY <1>6 DEF EnforceBound, state, TypeOK, DataTypeOK

LEMMA CountMovesType == ASSUME TypeOK, CountMoves PROVE TypeOK'
<1>1. stats \in [DOMAIN NoStats -> Nat] /\ tally.n \in Nat /\ NoTally \in Tallies
    BY DEF TypeOK, DataTypeOK, ControlTypeOK, Tallies, NoTally
<1>2. stats' = [stats EXCEPT ![tally.stat] = @ + tally.n]
    BY DEF CountMoves
<1>3. stats' \in [DOMAIN NoStats -> Nat]
    BY <1>1, <1>2, StatsType
<1>4. DataTypeOK'
    BY <1>3 DEF CountMoves, TypeOK, DataTypeOK
<1>5. ControlTypeOK'
    BY <1>1, Zenon DEF CountMoves, TypeOK, ControlTypeOK
<1> QED
    BY <1>4, <1>5 DEF TypeOK

\* Every step keeps the types, given that the running call's work is live.
LEMMA TypeStep == TypeOK /\ WorkIsLive /\ [Next]_vars => TypeOK'
<1> SUFFICES ASSUME TypeOK, WorkIsLive, [Next]_vars PROVE TypeOK'
    OBVIOUS
<1>1. CASE Open
    BY <1>1, OpenType
<1>2. CASE Close
    BY <1>2, EndType DEF Close, TypeOK, ControlTypeOK
<1>3. CASE Crash
  <2>1. fault' \in BOOLEAN
      BY <1>3, Zenon DEF Crash
  <2> QED
      BY <1>3, <2>1, EndType DEF Crash
<1>4. CASE Tick
  <2>1. clock' \in 0 .. MaxTime
      BY <1>4, BoundsAssumption DEF Tick, TypeOK, ControlTypeOK
  <2> QED
      BY <1>4, <2>1, Zenon DEF Tick, control, TypeOK, DataTypeOK, ControlTypeOK
<1>5. CASE AddSome
    BY <1>5, AddType DEF AddSome
<1>6. CASE RemoveSome
    BY <1>6, RemoveType DEF RemoveSome
<1>7. CASE QuerySome
    BY <1>7, QueryType DEF QuerySome
<1>8. CASE PromoteSome
  <2>0. PICK from, to \in Scopes : \E ids \in IdLists(from) : Promote(ids, from, to)
      BY <1>8 DEF PromoteSome
  <2>1. PICK ids \in IdLists(from) : Promote(ids, from, to)
      BY <2>0
  <2>2. [stat |-> "items_promoted", n |-> Len(ids)] \in Tallies
      BY CountType
  <2> QED
      BY <2>1, <2>2, ListedType DEF Promote, Operations, Arrivals
<1>9. CASE EvictSome
  <2>1. PICK scope \in Scopes :
          \/ \E ids \in IdLists(scope) : EvictItems(ids)
          \/ \E ids \in IdLists(scope), to \in Scopes : EvictDemote(ids, scope, to)
          \/ \E count \in 0 .. MaxId : EvictPolicy(scope, count)
      BY <1>9, Zenon DEF EvictSome
  <2>2. ASSUME NEW ids \in IdLists(scope), EvictItems(ids) PROVE TypeOK'
    <3>1. NoTally \in Tallies
        BY DEF NoTally, Tallies
    <3> QED
        BY <2>2, <3>1, ListedType DEF EvictItems, Operations, Arrivals
  <2>3. ASSUME NEW ids \in IdLists(scope), NEW to \in Scopes, EvictDemote(ids, scope, to)
        PROVE  TypeOK'
    <3>1. [stat |-> "items_demoted", n |-> Len(ids)] \in Tallies
        BY CountType
    <3> QED
        BY <2>3, <3>1, ListedType DEF EvictDemote, Operations, Arrivals
  <2> QED
      BY <2>1, <2>2, <2>3, EvictPolicyType
<1>10. CASE MoveInsert
    BY <1>10, MoveInsertType
<1>11. CASE MoveDelete
    BY <1>11, MoveDeleteType
<1>12. CASE DropItem
    BY <1>12, DropItemType
<1>13. CASE CountMoves
    BY <1>13, CountMovesType
<1>14. CASE EnforceBound
    BY <1>14, EnforceBoundType
<1>15. CASE Return
    BY <1>15, Zenon DEF Return, state, TypeOK, DataTypeOK, ControlTypeOK
<1>16. CASE StorageFails
  <2>1. NoTally \in Tallies /\ <<>> \in Seq(Tasks)
      BY DEF NoTally, Tallies
  <2> QED
      BY <1>16, <2>1, Zenon DEF StorageFails, state, TypeOK, DataTypeOK, ControlTypeOK
<1>17. CASE UNCHANGED vars
    BY <1>17, Zenon DEF vars, state, control, TypeOK, DataTypeOK, ControlTypeOK
<1> QED
    BY <1>1, <1>2, <1>3, <1>4, <1>5, <1>6, <1>7, <1>8, <1>9, <1>10, <1>11, <1>12,
       <1>13, <1>14, <1>15, <1>16, <1>17, Zenon DEF Next, CalmNext, Step

-----------------------------------------------------------------------------
(* The work of the running call *)

LEMMA NoWork == \A its : AreLive(<<>>, its)
BY DEF AreLive

LEMMA MovesAreLive ==
    ASSUME NEW its, NEW s, NEW ids \in Seq(InScope(its, s)), NEW to, NEW arrival,
           \A i, j \in DOMAIN ids : ids[i] = ids[j] => i = j, s # to
    PROVE  AreLive(Moves(ids, to, arrival), its)
<1>1. \A i \in DOMAIN ids : ids[i] \in InScope(its, s)
    OBVIOUS
<1> QED
    BY <1>1 DEF AreLive, Moves, InScope

LEMMA EvictionsAreLive ==
    ASSUME NEW s \in Scopes, NEW v \in Seq(InScope(items, s)),
           \A i, j \in DOMAIN v : v[i] = v[j] => i = j
    PROVE  AreLive(Evictions(s, v), items)
<1>1. \A i \in DOMAIN v : v[i] \in InScope(items, s)
    OBVIOUS
<1>2. \A id : EvictionTarget(s, id) # s
    BY ConfigAssumption
    DEF EvictionTarget, Colder, Scopes, NoScope, Minor, Major, Enduring
<1> QED
    BY <1>1, <1>2 DEF AreLive, Evictions, InScope

LEMMA ConcatElements ==
    ASSUME NEW S, NEW a \in Seq(S), NEW b \in Seq(S)
    PROVE  \A i \in DOMAIN (a \o b) :
              \/ i \in DOMAIN a /\ (a \o b)[i] = a[i]
              \/ \E k \in DOMAIN b : i = Len(a) + k /\ (a \o b)[i] = b[k]
<1> DEFINE q == a \o b
<1>1. /\ Len(a) \in Nat /\ DOMAIN a = 1 .. Len(a)
      /\ Len(b) \in Nat /\ DOMAIN b = 1 .. Len(b)
    OBVIOUS
<1>2. DOMAIN q = 1 .. Len(a) + Len(b)
    OBVIOUS
<1>3. SUFFICES ASSUME NEW i \in DOMAIN q
               PROVE  \/ i \in DOMAIN a /\ q[i] = a[i]
                      \/ \E k \in DOMAIN b : i = Len(a) + k /\ q[i] = b[k]
    OBVIOUS
<1>4. CASE i <= Len(a)
    BY <1>1, <1>2, <1>4
<1>5. CASE ~(i <= Len(a))
  <2>1. i - Len(a) \in DOMAIN b /\ i = Len(a) + (i - Len(a))
      BY <1>1, <1>2, <1>5
  <2>2. q[i] = b[i - Len(a)]
      BY <1>1, <1>2, <1>5
  <2> QED
      BY <2>1, <2>2
<1> QED
    BY <1>4, <1>5

\* The two lists of auto_promote do not meet: they come from two scopes.
LEMMA ConcatIsLive ==
    ASSUME NEW its, NEW up \in Seq(InScope(its, Major)), NEW on \in Seq(InScope(its, Minor)),
           \A i, j \in DOMAIN up : up[i] = up[j] => i = j,
           \A i, j \in DOMAIN on : on[i] = on[j] => i = j
    PROVE  AreLive(Moves(up, Enduring, "Promoted") \o Moves(on, Major, "Promoted"), its)
<1> DEFINE a == Moves(up, Enduring, "Promoted")
           b == Moves(on, Major, "Promoted")
           q == a \o b
           S == Range(a) \cup Range(b)
<1>1. /\ Len(up) \in Nat /\ DOMAIN up = 1 .. Len(up)
      /\ Len(on) \in Nat /\ DOMAIN on = 1 .. Len(on)
    OBVIOUS
<1>2. a \in Seq(S) /\ b \in Seq(S)
  <2>1. a \in [1 .. Len(up) -> S] /\ b \in [1 .. Len(on) -> S]
      BY <1>1 DEF Moves, Range
  <2> QED
      BY <1>1, <2>1, FunctionIsSeq
<1>3. AreLive(a, its) /\ AreLive(b, its)
    BY MovesAreLive DEF Major, Minor, Enduring
<1>4. /\ \A i \in DOMAIN a : a[i].id \in InScope(its, Major)
      /\ \A i \in DOMAIN b : b[i].id \in InScope(its, Minor)
    BY DEF Moves
<1>5. InScope(its, Major) \cap InScope(its, Minor) = {}
    BY DEF InScope, Major, Minor
<1> HIDE DEF a, b, S
<1>6. \A i \in DOMAIN q : \/ i \in DOMAIN a /\ q[i] = a[i]
                          \/ \E k \in DOMAIN b : i = Len(a) + k /\ q[i] = b[k]
    BY <1>2, ConcatElements
<1> HIDE DEF q
<1>7. \A i \in DOMAIN q : q[i].id \in DOMAIN its /\ its[q[i].id].scope # q[i].to
    BY <1>3, <1>6 DEF AreLive
<1>8. ASSUME NEW i \in DOMAIN q, NEW j \in DOMAIN q, q[i].id = q[j].id
      PROVE  i = j
  <2>1. CASE i \in DOMAIN a /\ q[i] = a[i] /\ j \in DOMAIN a /\ q[j] = a[j]
      BY <1>3, <1>8, <2>1 DEF AreLive
  <2>2. CASE \E k, l \in DOMAIN b : /\ i = Len(a) + k /\ q[i] = b[k]
                                    /\ j = Len(a) + l /\ q[j] = b[l]
      BY <1>3, <1>8, <2>2 DEF AreLive
  <2>3. CASE q[i].id \in InScope(its, Major) /\ q[j].id \in InScope(its, Minor)
      BY <1>5, <1>8, <2>3
  <2>4. CASE q[i].id \in InScope(its, Minor) /\ q[j].id \in InScope(its, Major)
      BY <1>5, <1>8, <2>4
  <2> QED
      BY <1>4, <1>6, <2>1, <2>2, <2>3, <2>4, Zenon
<1> QED
    BY <1>7, <1>8 DEF AreLive, q, a, b

\* A call that begins with live work, which nobody has started on.
LEMMA BeginWork ==
    ASSUME WorkIsLive, Ready, NEW op \in Operations, NEW todo, NEW count, NEW from,
           Begin(op, todo, count, from), AreLive(todo, items')
    PROVE  WorkIsLive'
<1>1. work = <<>> /\ ~mid /\ session = "open"
    BY DEF Ready, WorkIsLive
<1>2. call' # Idle /\ session' = "open" /\ ~mid' /\ work' = todo
    BY <1>1 DEF Begin, Operations, Idle
<1> QED
    BY <1>2 DEF WorkIsLive

LEMMA ListedWork ==
    ASSUME TypeOK, WorkIsLive, Ready, NEW s, NEW ids \in IdLists(s), NEW op \in Operations,
           NEW to, s # to, NEW arrival, NEW count, NEW from,
           Begin(op, Moves(ids, to, arrival), count, from), UNCHANGED items
    PROVE  WorkIsLive'
<1>1. AreLive(Moves(ids, to, arrival), items)
    BY IdListsType, MovesAreLive
<1> QED
    BY <1>1, BeginWork

\* One task is done: the others stay live if it touched no other item.
LEMMA TailIsLive ==
    ASSUME NEW S, NEW q \in Seq(S), q # <<>>, NEW its, NEW new, AreLive(q, its),
           \A x \in DOMAIN its : x # q[1].id => x \in DOMAIN new /\ new[x].scope = its[x].scope
    PROVE  AreLive(Tail(q), new)
<1> DEFINE r == Tail(q)
<1>1. \A i \in DOMAIN r : i \in Nat /\ i + 1 \in DOMAIN q /\ r[i] = q[i + 1] /\ i + 1 # 1
    OBVIOUS
<1>2. 1 \in DOMAIN q
    OBVIOUS
<1> HIDE DEF r
<1>3. \A i, j \in DOMAIN r : r[i].id = r[j].id => i = j
  <2> SUFFICES ASSUME NEW i \in DOMAIN r, NEW j \in DOMAIN r, r[i].id = r[j].id
               PROVE  i = j
      OBVIOUS
  <2>1. i + 1 = j + 1
      BY <1>1 DEF AreLive
  <2> QED
      BY <1>1, <2>1
<1>4. \A i \in DOMAIN r : r[i].id # q[1].id
    BY <1>1, <1>2 DEF AreLive
<1>5. \A i \in DOMAIN r : r[i].id \in DOMAIN new /\ new[r[i].id].scope # r[i].to
    BY <1>1, <1>4 DEF AreLive
<1> QED
    BY <1>3, <1>5 DEF AreLive, r

\* The call runs on, not in the middle of a move.
LEMMA WorkGoesOn ==
    ASSUME WorkIsLive, call # Idle, UNCHANGED <<session, call>>, ~mid',
           AreLive(work, items)'
    PROVE  WorkIsLive'
BY DEF WorkIsLive

LEMMA QueryWork ==
    ASSUME TypeOK, WorkIsLive, NEW sel, NEW pattern, NEW limit, Query(sel, pattern, limit)
    PROVE  WorkIsLive'
<1> DEFINE t == Touched(sel, pattern, limit)
<1>1. /\ Ready
      /\ items' = t
      /\ AutoPromote(t) \/ Begin("query", <<>>, NoTally, NoScope)
    BY ConfigAssumption DEF Query, Touched
<1>2. IsMap(t, Ids, Entries)
    BY TouchedType
<1>3. "query" \in Operations
    BY DEF Operations
<1> HIDE DEF t
<1>4. CASE AutoPromote(t)
  <2>1. PICK up \in Seq(InScope(t, Major)), on \in Seq(InScope(t, Minor)),
             count \in Tallies, from \in Scopes \cup {NoScope} :
           /\ \A i, j \in DOMAIN up : up[i] = up[j] => i = j
           /\ \A i, j \in DOMAIN on : on[i] = on[j] => i = j
           /\ Begin("query", Moves(up, Enduring, "Promoted") \o Moves(on, Major, "Promoted"),
                    count, from)
      BY <1>2, <1>4, AutoPromoteBegins
  <2>2. AreLive(Moves(up, Enduring, "Promoted") \o Moves(on, Major, "Promoted"), items')
      BY <1>1, <2>1, ConcatIsLive
  <2> QED
      BY <1>1, <1>3, <2>1, <2>2, BeginWork
<1>5. CASE Begin("query", <<>>, NoTally, NoScope)
    BY <1>1, <1>3, <1>5, NoWork, BeginWork
<1> QED
    BY <1>1, <1>4, <1>5

LEMMA EvictPolicyWork ==
    ASSUME TypeOK, WorkIsLive, NEW scope \in Scopes, NEW count \in 0 .. MaxId,
           EvictPolicy(scope, count)
    PROVE  WorkIsLive'
<1>1. PICK v \in Victims(scope, count) :
         Begin("policy", Evictions(scope, v), NoTally, Colder(scope))
    BY DEF EvictPolicy
<1>2. count \in Nat
    BY BoundsAssumption
<1>3. AreLive(Evictions(scope, v), items)
    BY <1>2, VictimsType, EvictionsAreLive
<1>4. "policy" \in Operations /\ Ready /\ items' = items
    BY DEF Operations, EvictPolicy
<1> QED
    BY <1>1, <1>3, <1>4, BeginWork

LEMMA EnforceBoundWork == ASSUME TypeOK, WorkIsLive, EnforceBound PROVE WorkIsLive'
<1> DEFINE count == Cardinality(InScope(items, next))
           excess == IF count > Bounds[next] THEN count - Bounds[next] ELSE 0
<1>1. next \in Scopes
    BY DEF EnforceBound, TypeOK, ControlTypeOK
<1>2. excess \in Nat
    BY <1>1, InScopeIds, ListsOfIds, ConfigAssumption
<1>3. PICK v \in Victims(next, excess) : work' = Evictions(next, v)
    BY DEF EnforceBound
<1> HIDE DEF excess
<1>4. AreLive(work', items')
    BY <1>1, <1>2, <1>3, VictimsType, EvictionsAreLive DEF EnforceBound, state
<1>5. call # Idle /\ ~mid' /\ UNCHANGED <<session, call>>
    BY DEF EnforceBound, WorkIsLive
<1> QED
    BY <1>4, <1>5, WorkGoesOn

LEMMA MoveInsertWork == ASSUME TypeOK, WorkIsLive, MoveInsert PROVE WorkIsLive'
<1> DEFINE one == [id \in {Task.id} |-> items[id].item]
<1>1. Task.to \in Scopes
    BY TaskType DEF MoveInsert, Tasks
<1>2. stores'[Task.to] = Merge(one, stores[Task.to])
    BY <1>1 DEF MoveInsert, Inserted, TypeOK, DataTypeOK
<1>3. Task.id \in DOMAIN stores'[Task.to]
    BY <1>2 DEF Merge
<1>4. /\ UNCHANGED <<session, call, items, work, tally, next>>
      /\ work # <<>> /\ Task.to # NoScope /\ Task' = Task
    BY DEF MoveInsert, state, Task
<1> QED
    BY <1>3, <1>4 DEF WorkIsLive

LEMMA MoveDeleteWork == ASSUME TypeOK, WorkIsLive, MoveDelete PROVE WorkIsLive'
<1>1. work \in Seq(Tasks) /\ work # <<>> /\ work' = Tail(work) /\ Task = work[1]
    BY DEF MoveDelete, TypeOK, ControlTypeOK, Task
<1>2. \A x \in DOMAIN items : x # Task.id => x \in DOMAIN items' /\ items'[x] = items[x]
    BY DEF MoveDelete
<1>3. AreLive(work', items')
    BY <1>1, <1>2, TailIsLive DEF WorkIsLive
<1>4. call # Idle /\ UNCHANGED <<session, call>> /\ ~mid'
    BY <1>1 DEF MoveDelete, WorkIsLive
<1> QED
    BY <1>3, <1>4, WorkGoesOn

LEMMA DropItemWork == ASSUME TypeOK, WorkIsLive, DropItem PROVE WorkIsLive'
<1>1. work \in Seq(Tasks) /\ work # <<>> /\ work' = Tail(work) /\ Task = work[1]
    BY DEF DropItem, TypeOK, ControlTypeOK, Task
<1>2. \A x \in DOMAIN items : x # Task.id => x \in DOMAIN items' /\ items'[x] = items[x]
  <2>1. IsMap(items, Ids, Entries) /\ items' = Restrict(items, DOMAIN items \ {Task.id})
      BY DEF DropItem, TypeOK, DataTypeOK
  <2> QED
      BY <2>1 DEF Restrict
<1>3. AreLive(work', items')
    BY <1>1, <1>2, TailIsLive DEF WorkIsLive
<1>4. call # Idle /\ UNCHANGED <<session, call>> /\ ~mid'
    BY <1>1 DEF DropItem, WorkIsLive
<1> QED
    BY <1>3, <1>4, WorkGoesOn

\* Every step keeps the work of the running call live.
LEMMA WorkStep == TypeOK /\ WorkIsLive /\ [Next]_vars => WorkIsLive'
<1> SUFFICES ASSUME TypeOK, WorkIsLive, [Next]_vars PROVE WorkIsLive'
    OBVIOUS
<1>1. CASE Open
  <2>1. call = Idle /\ work = <<>> /\ ~mid
      BY <1>1 DEF Open, WorkIsLive
  <2> QED
      BY <1>1, <2>1, NoWork DEF Open, control, WorkIsLive
<1>2. CASE End
    BY <1>2, NoWork DEF End, WorkIsLive
<1>3. CASE Tick
    BY <1>3 DEF Tick, control, WorkIsLive, Task
<1>4. CASE AddSome
  <2>1. PICK scope \in Scopes, n \in 0 .. MaxBatch :
           \E batch \in [1 .. n -> ValidItems] : AddBatch(scope, batch)
      BY <1>4 DEF AddSome
  <2>2. Ready /\ Begin("add", <<>>, NoTally, scope)
      BY <2>1 DEF AddBatch
  <2>3. "add" \in Operations
      BY DEF Operations
  <2> QED
      BY <2>2, <2>3, NoWork, BeginWork
<1>5. CASE RemoveSome
  <2>1. call = Idle /\ UNCHANGED <<session, control>>
      BY <1>5 DEF RemoveSome, RemoveItem, Ready
  <2>2. work = <<>> /\ ~mid
      BY <2>1 DEF WorkIsLive
  <2> QED
      BY <2>1, <2>2, NoWork DEF control, WorkIsLive
<1>6. CASE QuerySome
    BY <1>6, QueryWork DEF QuerySome
<1>7. CASE PromoteSome
  <2>1. PICK from, to \in Scopes : \E ids \in IdLists(from) : Promote(ids, from, to)
      BY <1>7 DEF PromoteSome
  <2>2. PICK ids \in IdLists(from) : Promote(ids, from, to)
      BY <2>1
  <2>3. from # to /\ "promote" \in Operations
      BY <2>2 DEF Promote, Operations, Durability, Scopes, Minor, Major, Enduring
  <2> QED
      BY <2>2, <2>3, ListedWork DEF Promote
<1>8. CASE EvictSome
  <2>1. PICK scope \in Scopes :
          \/ \E ids \in IdLists(scope) : EvictItems(ids)
          \/ \E ids \in IdLists(scope), to \in Scopes : EvictDemote(ids, scope, to)
          \/ \E count \in 0 .. MaxId : EvictPolicy(scope, count)
      BY <1>8, Zenon DEF EvictSome
  <2>2. ASSUME NEW ids \in IdLists(scope), EvictItems(ids) PROVE WorkIsLive'
    <3>1. scope # NoScope /\ "evict" \in Operations
        BY DEF Scopes, Operations, NoScope, Minor, Major, Enduring
    <3> QED
        BY <2>2, <3>1, ListedWork DEF EvictItems
  <2>3. ASSUME NEW ids \in IdLists(scope), NEW to \in Scopes, EvictDemote(ids, scope, to)
        PROVE  WorkIsLive'
    <3>1. scope # to /\ "demote" \in Operations
        BY <2>3 DEF EvictDemote, Operations, Durability, Scopes, Minor, Major, Enduring
    <3> QED
        BY <2>3, <3>1, ListedWork DEF EvictDemote
  <2> QED
      BY <2>1, <2>2, <2>3, EvictPolicyWork
<1>9. CASE MoveInsert
    BY <1>9, MoveInsertWork
<1>10. CASE MoveDelete
    BY <1>10, MoveDeleteWork
<1>11. CASE DropItem
    BY <1>11, DropItemWork
<1>12. CASE CountMoves
  <2>1. call # Idle /\ UNCHANGED <<session, call>> /\ ~mid'
      BY <1>12 DEF CountMoves, WorkIsLive
  <2> QED
      BY <1>12, <2>1, WorkGoesOn DEF CountMoves, WorkIsLive
<1>13. CASE EnforceBound
    BY <1>13, EnforceBoundWork
<1>14. CASE Return
    BY <1>14, NoWork DEF Return, WorkIsLive
<1>15. CASE StorageFails
    BY <1>15, NoWork DEF StorageFails, WorkIsLive
<1>16. CASE UNCHANGED vars
    BY <1>16 DEF vars, state, control, WorkIsLive, Task
<1> QED
    BY <1>1, <1>2, <1>3, <1>4, <1>5, <1>6, <1>7, <1>8, <1>9, <1>10, <1>11, <1>12,
       <1>13, <1>14, <1>15, <1>16, Zenon DEF Next, CalmNext, Step, Close, Crash

-----------------------------------------------------------------------------
(* The stores and the index *)

\* What OneCopy needs to be inductive: before any fault, the only copy that
\* the index does not point at is the one a move in progress has just written.
NoStrays ==
    ~fault =>
        /\ session = "open" =>
              \A s \in Scopes : \A id \in DOMAIN stores[s] :
                  /\ id \in DOMAIN items
                  /\ items[id].scope = s \/ (mid /\ id = Task.id /\ s = Task.to)
        /\ session = "closed" =>
              \A s, t \in Scopes : s # t => DOMAIN stores[s] \cap DOMAIN stores[t] = {}

StoreInv == IndexedIsStored /\ CopiesAgree /\ FreshIds /\ CitesOlder /\ NoStrays

LEMMA ItemTypes ==
    ASSUME TypeOK
    PROVE  /\ \A id \in DOMAIN items : items[id].scope \in Scopes /\ items[id].item \in Items
           /\ \A s \in Scopes : \A id \in DOMAIN stores[s] : stores[s][id] \in Items /\ id \in Ids
           /\ DOMAIN items \subseteq Ids
           /\ next_id \in Nat
           /\ Ids \subseteq Nat
BY BoundsAssumption DEF TypeOK, DataTypeOK, IsMap, Entries, Ids

\* Steps that leave the stores alone, and of the index what was accessed when.
LEMMA SameStores ==
    ASSUME StoreInv, UNCHANGED <<session, stores, next_id>>,
           DOMAIN items' = DOMAIN items,
           \A id \in DOMAIN items :
              items'[id].item = items[id].item /\ items'[id].scope = items[id].scope,
           \/ fault'
           \/ UNCHANGED fault /\ ~mid
           \/ UNCHANGED <<fault, mid, work>>
    PROVE  StoreInv'
<1>1. IndexedIsStored' /\ CopiesAgree' /\ CitesOlder'
    BY DEF StoreInv, IndexedIsStored, CopiesAgree, CitesOlder
<1>2. FreshIds'
    BY DEF StoreInv, FreshIds, StoredIds
<1>3. NoStrays'
    BY DEF StoreInv, NoStrays, Task
<1> QED
    BY <1>1, <1>2, <1>3 DEF StoreInv

\* What one committed deletion does to the stores.
LEMMA DeleteEffect ==
    ASSUME TypeOK, NEW s \in Scopes, NEW id,
           stores' = Deleted(s, id)
    PROVE  \A t \in Scopes : \A y :
              /\ y \in DOMAIN stores'[t] <=> y \in DOMAIN stores[t] /\ ~(t = s /\ y = id)
              /\ y \in DOMAIN stores'[t] => stores'[t][y] = stores[t][y]
BY DEF TypeOK, DataTypeOK, Deleted, Restrict

\* What one committed insertion does to the stores.
LEMMA PutEffect ==
    ASSUME TypeOK, NEW s \in Scopes, NEW f,
           stores' = Inserted(s, f)
    PROVE  \A t \in Scopes : \A y :
              /\ y \in DOMAIN stores'[t] <=> y \in DOMAIN stores[t] \/ (t = s /\ y \in DOMAIN f)
              /\ y \in DOMAIN stores'[t] =>
                    stores'[t][y] = IF t = s /\ y \in DOMAIN f THEN f[y] ELSE stores[t][y]
BY DEF TypeOK, DataTypeOK, Inserted, Merge

\* An item leaves its scope's store and the index.
LEMMA ForgetStores ==
    ASSUME TypeOK, StoreInv, NEW id \in DOMAIN items, ~mid, ~mid',
           stores' = Deleted(items[id].scope, id),
           items' = Restrict(items, DOMAIN items \ {id}),
           UNCHANGED <<session, next_id, fault>>, session = "open"
    PROVE  StoreInv'
<1>1. \A t \in Scopes : \A y :
         /\ y \in DOMAIN stores'[t] <=>
               y \in DOMAIN stores[t] /\ ~(t = items[id].scope /\ y = id)
         /\ y \in DOMAIN stores'[t] => stores'[t][y] = stores[t][y]
    BY ItemTypes, DeleteEffect
<1>2. DOMAIN items' = DOMAIN items \ {id} /\ \A y \in DOMAIN items' : items'[y] = items[y]
    BY DEF Restrict
<1>3. IndexedIsStored'
  <2> SUFFICES ASSUME NEW y \in DOMAIN items'
               PROVE  /\ y \in DOMAIN stores'[items'[y].scope]
                      /\ stores'[items'[y].scope][y] = items'[y].item
      BY DEF IndexedIsStored
  <2>1. /\ y # id /\ items'[y] = items[y] /\ items[y].scope \in Scopes
        /\ y \in DOMAIN stores[items[y].scope]
        /\ stores[items[y].scope][y] = items[y].item
      BY <1>2, ItemTypes DEF StoreInv, IndexedIsStored
  <2> QED
      BY <1>1, <2>1
<1>4. CopiesAgree' /\ CitesOlder'
    BY <1>1 DEF StoreInv, CopiesAgree, CitesOlder
<1>5. FreshIds'
    BY <1>1, <1>2 DEF StoreInv, FreshIds, StoredIds
<1>6. NoStrays'
  <2> SUFFICES ASSUME ~fault, NEW s \in Scopes, NEW y \in DOMAIN stores'[s]
               PROVE  y \in DOMAIN items' /\ items'[y].scope = s
      BY DEF NoStrays
  <2>1. y \in DOMAIN stores[s] /\ ~(s = items[id].scope /\ y = id)
      BY <1>1
  <2>2. y \in DOMAIN items /\ items[y].scope = s
      BY <2>1 DEF StoreInv, NoStrays
  <2> QED
      BY <1>2, <2>1, <2>2
<1> QED
    BY <1>3, <1>4, <1>5, <1>6 DEF StoreInv

LEMMA MoveInsertStores ==
    ASSUME TypeOK, WorkIsLive, StoreInv, MoveInsert
    PROVE  StoreInv'
<1> DEFINE one == [id \in {Task.id} |-> items[id].item]
<1>1. /\ Task.to \in Scopes /\ Task.id \in DOMAIN items
      /\ items[Task.id].scope \in Scopes /\ items[Task.id].scope # Task.to
    BY TaskType DEF MoveInsert, Tasks
<1>2. \A t \in Scopes : \A y :
         /\ y \in DOMAIN stores'[t] <=> y \in DOMAIN stores[t] \/ (t = Task.to /\ y \in DOMAIN one)
         /\ y \in DOMAIN stores'[t] =>
               stores'[t][y] = IF t = Task.to /\ y \in DOMAIN one THEN one[y] ELSE stores[t][y]
  <2>1. stores' = Inserted(Task.to, one)
      BY DEF MoveInsert
  <2> HIDE DEF one
  <2> QED
      BY <1>1, <2>1, PutEffect
<1>3. \A t \in Scopes : \A y :
         /\ y \in DOMAIN stores'[t] <=> y \in DOMAIN stores[t] \/ (t = Task.to /\ y = Task.id)
         /\ y \in DOMAIN stores'[t] =>
               stores'[t][y] = IF t = Task.to /\ y = Task.id THEN items[y].item ELSE stores[t][y]
  <2>1. DOMAIN one = {Task.id} /\ one[Task.id] = items[Task.id].item
      OBVIOUS
  <2> HIDE DEF one
  <2> QED
      BY <1>2, <2>1
<1> HIDE DEF one
<1>4. UNCHANGED <<session, items, next_id, work, fault>> /\ mid' /\ ~mid /\ Task' = Task
    BY DEF MoveInsert, state, Task
<1>5. IndexedIsStored'
    BY <1>1, <1>3, <1>4, ItemTypes DEF StoreInv, IndexedIsStored
<1>6. \A t \in Scopes : Task.id \in DOMAIN stores[t] => stores[t][Task.id] = items[Task.id].item
    BY <1>1 DEF StoreInv, IndexedIsStored, CopiesAgree
<1>7. CopiesAgree'
    BY <1>3, <1>6 DEF StoreInv, CopiesAgree
<1>8. \A c \in items[Task.id].item.cites : c < Task.id
    BY <1>1 DEF StoreInv, IndexedIsStored, CitesOlder
<1>9. CitesOlder'
    BY <1>3, <1>8 DEF StoreInv, CitesOlder
<1>10. FreshIds'
    BY <1>1, <1>3, <1>4 DEF StoreInv, FreshIds, StoredIds
<1>11. NoStrays'
  <2>1. session = "open"
      BY DEF MoveInsert, WorkIsLive, TypeOK, ControlTypeOK
  <2> QED
      BY <1>1, <1>3, <1>4, <2>1 DEF StoreInv, NoStrays
<1> QED
    BY <1>5, <1>7, <1>9, <1>10, <1>11 DEF StoreInv

LEMMA MoveDeleteStores ==
    ASSUME TypeOK, WorkIsLive, StoreInv, MoveDelete
    PROVE  StoreInv'
<1> DEFINE e == items[Task.id]
<1>1. /\ work # <<>> /\ Task.to # NoScope /\ Task.to \in Scopes /\ Task.arrival \in Arrivals
      /\ Task.id \in DOMAIN items /\ e \in Entries /\ e.scope \in Scopes /\ e.scope # Task.to
      /\ Task.id \in DOMAIN stores[Task.to]
    BY TaskType DEF MoveDelete, WorkIsLive, Tasks
<1>2. \A t \in Scopes : \A y :
         /\ y \in DOMAIN stores'[t] <=>
               y \in DOMAIN stores[t] /\ ~(t = e.scope /\ y = Task.id)
         /\ y \in DOMAIN stores'[t] => stores'[t][y] = stores[t][y]
    BY <1>1, DeleteEffect DEF MoveDelete
<1>3. /\ DOMAIN items' = DOMAIN items
      /\ items'[Task.id].item = e.item /\ items'[Task.id].scope = Task.to
      /\ \A y \in DOMAIN items : y # Task.id => items'[y] = items[y]
  <2>1. LET r == Relocated(e, Task.to, Task.arrival) IN r.item = e.item /\ r.scope = Task.to
      BY <1>1, RelocatedType
  <2>2. items' = [items EXCEPT ![Task.id] = Relocated(e, Task.to, Task.arrival)]
      BY DEF MoveDelete
  <2> QED
      BY <1>1, <2>1, <2>2
<1>4. UNCHANGED <<session, next_id, fault>> /\ mid /\ ~mid'
    BY DEF MoveDelete
<1> HIDE DEF e
<1>5. stores[Task.to][Task.id] = e.item
    BY <1>1 DEF StoreInv, IndexedIsStored, CopiesAgree, e
<1>6. IndexedIsStored'
  <2> SUFFICES ASSUME NEW y \in DOMAIN items'
               PROVE  /\ y \in DOMAIN stores'[items'[y].scope]
                      /\ stores'[items'[y].scope][y] = items'[y].item
      BY DEF IndexedIsStored
  <2>1. CASE y = Task.id
      BY <1>1, <1>2, <1>3, <1>5, <2>1
  <2>2. CASE y # Task.id
    <3>1. /\ items'[y] = items[y] /\ items[y].scope \in Scopes
          /\ y \in DOMAIN stores[items[y].scope]
          /\ stores[items[y].scope][y] = items[y].item
        BY <1>3, <2>2, ItemTypes DEF StoreInv, IndexedIsStored
    <3> QED
        BY <1>2, <2>2, <3>1
  <2> QED
      BY <2>1, <2>2
<1>7. CopiesAgree' /\ CitesOlder'
    BY <1>2 DEF StoreInv, CopiesAgree, CitesOlder
<1>8. FreshIds'
    BY <1>2, <1>3, <1>4 DEF StoreInv, FreshIds, StoredIds
<1>9. NoStrays'
  <2>1. session = "open"
      BY <1>1 DEF WorkIsLive, TypeOK, ControlTypeOK
  <2> QED
      BY <1>1, <1>2, <1>3, <1>4, <2>1 DEF StoreInv, NoStrays, e
<1> QED
    BY <1>6, <1>7, <1>8, <1>9 DEF StoreInv

LEMMA AddStores ==
    ASSUME TypeOK, WorkIsLive, StoreInv, NEW scope \in Scopes, NEW n \in 0 .. MaxBatch,
           NEW batch \in [1 .. n -> ValidItems], AddBatch(scope, batch)
    PROVE  StoreInv'
<1> DEFINE ids == next_id .. next_id + n - 1
           added == [id \in ids |-> batch[id - next_id + 1]]
           entries == [id \in ids |-> NewEntry(added[id], scope, "Added", clock)]
<1>1. n \in Nat /\ Len(batch) = n /\ next_id \in Nat
    BY BoundsAssumption, FunctionIsSeq DEF TypeOK, DataTypeOK
<1>2. /\ stores' = Inserted(scope, added)
      /\ items' = Merge(entries, items)
      /\ next_id' = next_id + n
      /\ UNCHANGED <<session, fault>> /\ session = "open" /\ ~mid /\ ~mid'
    BY <1>1 DEF AddBatch, Begin, Ready, WorkIsLive
<1>3. \A y : y \in ids => y \in Nat /\ next_id <= y /\ y < next_id'
    BY <1>1, <1>2
<1>4. \A y \in ids : added[y] \in ValidItems
    BY <1>1
<1>5. /\ DOMAIN added = ids
      /\ \A y \in ids : entries[y].item = added[y] /\ entries[y].scope = scope
      /\ DOMAIN items' = ids \cup DOMAIN items
      /\ \A y \in DOMAIN items' : items'[y] = IF y \in ids THEN entries[y] ELSE items[y]
    BY <1>2 DEF NewEntry, Merge
<1> HIDE DEF ids, added, entries
<1>6. \A t \in Scopes : \A y :
         /\ y \in DOMAIN stores'[t] <=> y \in DOMAIN stores[t] \/ (t = scope /\ y \in ids)
         /\ y \in DOMAIN stores'[t] =>
               stores'[t][y] = IF t = scope /\ y \in ids THEN added[y] ELSE stores[t][y]
    BY <1>2, <1>5, PutEffect
<1>7. /\ \A t \in Scopes : \A y \in DOMAIN stores[t] : y \in Nat /\ y < next_id /\ y \notin ids
      /\ \A y \in DOMAIN items : y \in Nat /\ y < next_id /\ y \notin ids
  <2>1. \A y \in StoredIds \cup DOMAIN items : y \in Nat /\ y < next_id
      BY <1>2, ItemTypes DEF StoreInv, FreshIds, StoredIds
  <2> QED
      BY <1>1, <1>3, <2>1 DEF StoredIds
<1>8. IndexedIsStored'
  <2> SUFFICES ASSUME NEW y \in DOMAIN items'
               PROVE  /\ y \in DOMAIN stores'[items'[y].scope]
                      /\ stores'[items'[y].scope][y] = items'[y].item
      BY DEF IndexedIsStored
  <2>1. CASE y \in ids
      BY <1>5, <1>6, <2>1
  <2>2. CASE y \notin ids
    <3>1. /\ items'[y] = items[y] /\ items[y].scope \in Scopes
          /\ y \in DOMAIN stores[items[y].scope]
          /\ stores[items[y].scope][y] = items[y].item
        BY <1>5, <2>2, ItemTypes DEF StoreInv, IndexedIsStored
    <3> QED
        BY <1>6, <2>2, <3>1
  <2> QED
      BY <2>1, <2>2
<1>9. CopiesAgree'
    BY <1>6, <1>7 DEF StoreInv, CopiesAgree
<1>10. FreshIds'
    BY <1>1, <1>2, <1>3, <1>5, <1>6, <1>7 DEF FreshIds, StoredIds
<1>11. CitesOlder'
  <2> SUFFICES ASSUME NEW t \in Scopes, NEW y \in DOMAIN stores'[t],
                      NEW c \in stores'[t][y].cites
               PROVE  c < y
      BY DEF CitesOlder
  <2>1. CASE t = scope /\ y \in ids
    <3>1. c \in DOMAIN items
        BY <1>4, <1>6, <2>1 DEF ValidItems
    <3> QED
        BY <1>1, <1>3, <1>7, <2>1, <3>1
  <2>2. CASE ~(t = scope /\ y \in ids)
      BY <1>6, <2>2 DEF StoreInv, CitesOlder
  <2> QED
      BY <2>1, <2>2
<1>12. NoStrays'
  <2> SUFFICES ASSUME ~fault, NEW t \in Scopes, NEW y \in DOMAIN stores'[t]
               PROVE  y \in DOMAIN items' /\ items'[y].scope = t
      BY <1>2 DEF NoStrays
  <2>1. CASE t = scope /\ y \in ids
      BY <1>5, <2>1
  <2>2. CASE ~(t = scope /\ y \in ids)
    <3>1. y \in DOMAIN stores[t]
        BY <1>6, <2>2
    <3>2. y \in DOMAIN items /\ items[y].scope = t
        BY <1>2, <3>1 DEF StoreInv, NoStrays
    <3> QED
        BY <1>5, <1>7, <3>2
  <2> QED
      BY <2>1, <2>2
<1> QED
    BY <1>8, <1>9, <1>10, <1>11, <1>12 DEF StoreInv

LEMMA OpenStores == ASSUME TypeOK, WorkIsLive, StoreInv, Open PROVE StoreInv'
<1>1. UNCHANGED <<stores, fault>> /\ session = "closed" /\ session' = "open"
    BY DEF Open
<1>2. /\ DOMAIN items' = StoredIds
      /\ \A id \in StoredIds : /\ items'[id].item = stores[HolderOf(id)][id]
                               /\ items'[id].scope = HolderOf(id)
    BY DEF Open, Load, NewEntry
<1>3. IndexedIsStored'
    BY <1>1, <1>2, HolderHolds DEF IndexedIsStored
<1>4. CopiesAgree' /\ CitesOlder'
    BY <1>1 DEF StoreInv, CopiesAgree, CitesOlder
<1>5. FreshIds'
  <2>1. StoredIds \in SUBSET Ids
      BY DEF TypeOK, DataTypeOK, IsMap, StoredIds
  <2>2. \A id \in StoredIds : id < next_id'
      BY <2>1, FirstFreeIdBounds DEF Open
  <2> QED
      BY <1>1, <1>2, <2>2 DEF FreshIds, StoredIds
<1>6. NoStrays'
  <2> SUFFICES ASSUME ~fault, NEW s \in Scopes, NEW id \in DOMAIN stores[s]
               PROVE  id \in DOMAIN items' /\ items'[id].scope = s
      BY <1>1 DEF NoStrays
  <2>1. id \in StoredIds
      BY DEF StoredIds
  <2>2. HolderOf(id) = s
      BY <1>1, <2>1, HolderHolds DEF StoreInv, NoStrays
  <2> QED
      BY <1>2, <2>1, <2>2
<1> QED
    BY <1>3, <1>4, <1>5, <1>6 DEF StoreInv

LEMMA EndStores ==
    ASSUME TypeOK, WorkIsLive, StoreInv, End, session = "open",
           fault' \/ (call = Idle /\ UNCHANGED fault)
    PROVE  StoreInv'
<1>1. \A s \in Scopes : stores'[s] = stores[s] \/ stores'[s] = Empty
    BY DEF End
<1>2. DOMAIN items' = {} /\ DOMAIN Empty = {} /\ session' = "closed"
    BY DEF End, Empty
<1>3. \A s \in Scopes : \A y : y \in DOMAIN stores'[s] =>
         y \in DOMAIN stores[s] /\ stores'[s][y] = stores[s][y]
    BY <1>1, <1>2
<1>4. IndexedIsStored' /\ FreshIds'
    BY <1>2 DEF IndexedIsStored, FreshIds
<1>5. CopiesAgree' /\ CitesOlder'
    BY <1>3 DEF StoreInv, CopiesAgree, CitesOlder
<1>6. NoStrays'
  <2> SUFFICES ASSUME call = Idle, ~fault, NEW s \in Scopes, NEW t \in Scopes, s # t
               PROVE  DOMAIN stores'[s] \cap DOMAIN stores'[t] = {}
      BY <1>2 DEF NoStrays
  <2>1. ~mid
      BY DEF WorkIsLive
  <2> QED
      BY <1>3, <2>1 DEF StoreInv, NoStrays
<1> QED
    BY <1>4, <1>5, <1>6 DEF StoreInv

\* Every step keeps stores and index consistent with each other.
LEMMA StoreStep == TypeOK /\ WorkIsLive /\ StoreInv /\ [Next]_vars => StoreInv'
<1> SUFFICES ASSUME TypeOK, WorkIsLive, StoreInv, [Next]_vars PROVE StoreInv'
    OBVIOUS
<1>0. call = Idle => ~mid
    BY DEF WorkIsLive
<1>1. CASE Open
    BY <1>1, OpenStores
<1>2. CASE Close
    BY <1>2, EndStores DEF Close
<1>3. CASE Crash
    BY <1>3, EndStores DEF Crash, TypeOK, ControlTypeOK
<1>4. CASE AddSome
    BY <1>4, AddStores DEF AddSome
<1>5. CASE RemoveSome
    BY <1>0, <1>5, ForgetStores DEF RemoveSome, RemoveItem, Ready, control
<1>6. CASE QuerySome
  <2>1. PICK sel \in Selections, pattern \in Patterns, limit \in Limits :
           Query(sel, pattern, limit)
      BY <1>6 DEF QuerySome
  <2> DEFINE t == Touched(sel, pattern, limit)
  <2>2. /\ Ready /\ items' = t /\ UNCHANGED <<stores, next_id>>
        /\ AutoPromote(t) \/ Begin("query", <<>>, NoTally, NoScope)
      BY <2>1, ConfigAssumption DEF Query, Touched
  <2>3. UNCHANGED <<session, fault>>
      BY <2>2 DEF AutoPromote, Begin
  <2>4. /\ DOMAIN items' = DOMAIN items
        /\ \A id \in DOMAIN items :
              items'[id].item = items[id].item /\ items'[id].scope = items[id].scope
      BY <2>2, TouchedType
  <2> HIDE DEF t
  <2> QED
      BY <1>0, <2>2, <2>3, <2>4, SameStores DEF Ready
<1>7. CASE PromoteSome \/ EvictSome
  <2>1. Ready /\ UNCHANGED <<session, stores, items, next_id, fault>>
      BY <1>7 DEF PromoteSome, EvictSome, Promote, EvictItems, EvictDemote, EvictPolicy, Begin
  <2> QED
      BY <1>0, <2>1, SameStores DEF Ready
<1>8. CASE MoveInsert
    BY <1>8, MoveInsertStores
<1>9. CASE MoveDelete
    BY <1>9, MoveDeleteStores
<1>10. CASE DropItem
  <2>1. Task.id \in DOMAIN items /\ session = "open"
      BY <1>10, TaskType DEF DropItem, WorkIsLive, TypeOK, ControlTypeOK
  <2> QED
      BY <1>10, <2>1, ForgetStores DEF DropItem
<1>11. CASE Tick \/ CountMoves \/ EnforceBound \/ Return \/ StorageFails \/ UNCHANGED vars
  <2>1. /\ UNCHANGED <<session, stores, next_id, items>>
        /\ fault' \/ (UNCHANGED fault /\ ~mid) \/ UNCHANGED <<fault, mid, work>>
      BY <1>11 DEF Tick, CountMoves, EnforceBound, Return, StorageFails, WorkIsLive,
                   vars, state, control
  <2> QED
      BY <2>1, SameStores
<1> QED
    BY <1>1, <1>2, <1>3, <1>4, <1>5, <1>6, <1>7, <1>8, <1>9, <1>10, <1>11, Zenon
    DEF Next, CalmNext, Step

-----------------------------------------------------------------------------
(* Theorems *)

\* The inductive invariant.
Inv == TypeOK /\ WorkIsLive /\ StoreInv

LEMMA InitInv == Init => Inv
<1> SUFFICES ASSUME Init PROVE Inv
    OBVIOUS
<1>1. TypeOK
    BY InitType
<1>2. WorkIsLive
    BY NoWork DEF Init, WorkIsLive
<1>3. DOMAIN items = {} /\ \A s \in Scopes : DOMAIN stores[s] = {}
    BY DEF Init, Empty
<1>4. StoreInv
    BY <1>3 DEF Init, StoreInv, IndexedIsStored, CopiesAgree, FreshIds, StoredIds,
                CitesOlder, NoStrays
<1> QED
    BY <1>1, <1>2, <1>4 DEF Inv

LEMMA Invariance == Spec => []Inv
<1>1. Inv /\ [Next]_vars => Inv'
    BY TypeStep, WorkStep, StoreStep DEF Inv
<1> QED
    BY <1>1, InitInv, PTL DEF Spec

\* The index, the stores and the bookkeeping of the running call keep their
\* shape: in particular an index into the work list or the lookup of a victim
\* is never undefined.
THEOREM TypeCorrect == Spec => []TypeOK
<1>1. Inv => TypeOK
    BY DEF Inv
<1> QED
    BY <1>1, Invariance, PTL

\* The expect("caller checked the id") of move_item and drop_item never panics
\* with the mutex held, whatever promotions, demotions and evictions one call
\* strings together.
THEOREM WorkStaysLive == Spec => []WorkIsLive
<1>1. Inv => WorkIsLive
    BY DEF Inv
<1> QED
    BY <1>1, Invariance, PTL

\* No crash and no storage error, wherever it strikes between the transactions
\* of a call, loses or alters a live item.
THEOREM NothingLost == Spec => [](IndexedIsStored /\ CopiesAgree)
<1>1. Inv => IndexedIsStored /\ CopiesAgree
    BY DEF Inv, StoreInv
<1> QED
    BY <1>1, Invariance, PTL

\* add_batch never writes into the graph of an id that some store still holds.
THEOREM IdsAreFresh == Spec => []FreshIds
<1>1. Inv => FreshIds
    BY DEF Inv, StoreInv
<1> QED
    BY <1>1, Invariance, PTL

\* Without a storage error and without a crash inside a call, add, remove,
\* promote, evict and the enforcement of bounds leave no copy behind.
THEOREM CopiesAreUnique == Spec => []OneCopy
<1>1. Inv => OneCopy
  <2> SUFFICES ASSUME Inv, ~fault, ~mid
               PROVE  /\ \A s, t \in Scopes :
                            s # t => DOMAIN stores[s] \cap DOMAIN stores[t] = {}
                      /\ session = "open" => StoredIds = DOMAIN items
      BY DEF OneCopy
  <2>1. NoStrays /\ IndexedIsStored /\ session \in {"open", "closed"}
      BY DEF Inv, StoreInv, TypeOK, ControlTypeOK
  <2>2. \A s, t \in Scopes : s # t => DOMAIN stores[s] \cap DOMAIN stores[t] = {}
      BY <2>1 DEF NoStrays
  <2>3. ASSUME session = "open" PROVE StoredIds = DOMAIN items
    <3>1. \A id \in DOMAIN items : items[id].scope \in Scopes
        BY ItemTypes DEF Inv
    <3>2. DOMAIN items \subseteq StoredIds
        BY <2>1, <3>1 DEF IndexedIsStored, StoredIds
    <3>3. StoredIds \subseteq DOMAIN items
        BY <2>1, <2>3 DEF NoStrays, StoredIds
    <3> QED
        BY <3>2, <3>3
  <2> QED
      BY <2>2, <2>3
<1> QED
    BY <1>1, Invariance, PTL

\* Queries, which read the stores, answer what the index says.
THEOREM QueriesAreRight == Spec => []QueriesSeeTheIndex
<1>1. Inv => QueriesSeeTheIndex
  <2> SUFFICES ASSUME Inv, NEW sel \in Selections, NEW pattern \in Patterns
               PROVE  Hits(sel, pattern) =
                        {id \in DOMAIN items : /\ items[id].scope \in Range(sel)
                                               /\ items[id].item.payload \cap pattern # {}}
      BY DEF QueriesSeeTheIndex
  <2>1. IndexedIsStored
      BY DEF Inv, StoreInv
  <2> QED
      BY <2>1 DEF Hits, Range, IndexedIsStored
<1> QED
    BY <1>1, Invariance, PTL

\* Only a batch that is added brings new ids into the stores.
LEMMA NewIds ==
    ASSUME Inv, [Next]_vars, NEW id \in StoredIds', id \notin StoredIds
    PROVE  session = "open" /\ id \in Nat /\ next_id <= id
<1>0. TypeOK /\ WorkIsLive /\ IndexedIsStored
    BY DEF Inv, StoreInv
<1>1. CASE AddSome
  <2>1. PICK scope \in Scopes, n \in 0 .. MaxBatch :
           \E batch \in [1 .. n -> ValidItems] : AddBatch(scope, batch)
      BY <1>1 DEF AddSome
  <2>2. PICK batch \in [1 .. n -> ValidItems] : AddBatch(scope, batch)
      BY <2>1
  <2> DEFINE ids == next_id .. next_id + n - 1
             added == [i \in ids |-> batch[i - next_id + 1]]
  <2>3. n \in Nat /\ Len(batch) = n /\ next_id \in Nat
      BY <1>0, BoundsAssumption, FunctionIsSeq DEF TypeOK, DataTypeOK
  <2>4. stores' = Inserted(scope, added) /\ session = "open"
      BY <2>2, <2>3 DEF AddBatch, Ready
  <2>5. DOMAIN added = ids
      OBVIOUS
  <2> HIDE DEF added
  <2>6. id \in ids
    <3>1. PICK t \in Scopes : id \in DOMAIN stores'[t]
        BY DEF StoredIds
    <3>2. id \notin DOMAIN stores[t]
        BY DEF StoredIds
    <3> QED
        BY <1>0, <2>4, <2>5, <3>1, <3>2, PutEffect
  <2> QED
      BY <2>3, <2>4, <2>6
<1>2. CASE MoveInsert
  <2> DEFINE one == [i \in {Task.id} |-> items[i].item]
  <2>1. stores' = Inserted(Task.to, one) /\ Task.to \in Scopes /\ Task.id \in DOMAIN items
      BY <1>0, <1>2, TaskType DEF MoveInsert, Tasks
  <2>2. DOMAIN one = {Task.id}
      OBVIOUS
  <2> HIDE DEF one
  <2>3. id = Task.id
      BY <1>0, <2>1, <2>2, PutEffect DEF StoredIds
  <2>4. Task.id \in StoredIds
      BY <1>0, <2>1, ItemTypes DEF IndexedIsStored, StoredIds
  <2> QED
      BY <2>3, <2>4
<1>3. ASSUME NEW i \in DOMAIN items, stores' = Deleted(items[i].scope, i) PROVE FALSE
    BY <1>0, <1>3, ItemTypes, DeleteEffect DEF StoredIds
<1>4. CASE MoveDelete \/ DropItem
    BY <1>0, <1>3, <1>4, TaskType DEF MoveDelete, DropItem
<1>5. CASE RemoveSome
    BY <1>3, <1>5 DEF RemoveSome, RemoveItem
<1>6. CASE End
  <2>1. \A s \in Scopes : stores'[s] = stores[s] \/ stores'[s] = Empty
      BY <1>6 DEF End
  <2> QED
      BY <2>1 DEF StoredIds, Empty
<1>7. ASSUME UNCHANGED stores PROVE FALSE
    BY <1>7 DEF StoredIds
<1>8. CASE Open \/ Tick \/ CountMoves \/ EnforceBound \/ Return \/ StorageFails \/ UNCHANGED vars
    BY <1>7, <1>8 DEF Open, Tick, CountMoves, EnforceBound, Return, StorageFails, vars
<1>9. CASE QuerySome \/ PromoteSome \/ EvictSome
    BY <1>7, <1>9 DEF QuerySome, PromoteSome, EvictSome, Query, Promote, EvictItems,
                      EvictDemote, EvictPolicy
<1> QED
    BY <1>1, <1>2, <1>4, <1>5, <1>6, <1>8, <1>9, Zenon DEF Next, CalmNext, Step, Close, Crash

\* No item is ever given the id of a forgotten item that a stored one still
\* cites, through restarts too.
THEOREM CitationsKept == Spec => CitationsNeverRebound
<1>1. Inv /\ [Next]_vars =>
        [\A s \in Scopes : \A id \in DOMAIN stores[s] :
            \A c \in stores[s][id].cites \ StoredIds :
                id \in StoredIds' => c \notin StoredIds']_vars
  <2> SUFFICES ASSUME Inv, [Next]_vars, NEW s \in Scopes, NEW id \in DOMAIN stores[s],
                      NEW c \in stores[s][id].cites \ StoredIds, c \in StoredIds'
               PROVE  FALSE
      OBVIOUS
  <2>1. session = "open" /\ c \in Nat /\ next_id <= c
      BY NewIds
  <2>2. c < id /\ id < next_id /\ id \in Nat /\ next_id \in Nat
      BY <2>1, ItemTypes DEF Inv, StoreInv, CitesOlder, FreshIds, StoredIds
  <2> QED
      BY <2>1, <2>2
<1> QED
    BY <1>1, Invariance, PTL DEF Spec, CitationsNeverRebound

-----------------------------------------------------------------------------
(* Durability *)

LEMMA Tiers ==
    /\ \A s \in Scopes : Durability(s) \in 0 .. 2
    /\ \A s, t \in Scopes : Durability(s) = Durability(t) => s = t
    /\ \A s \in Scopes : Colder(s) # NoScope =>
          Colder(s) \in Scopes /\ Durability(Colder(s)) = Durability(s) - 1
    /\ \A s \in Scopes : Colder(s) = NoScope => Durability(s) = 0
    /\ Durability(Enduring) = 2 /\ Durability(Major) = 1 /\ Durability(Minor) = 0
    /\ Enduring \in Scopes /\ Major \in Scopes /\ Minor \in Scopes /\ NoScope \notin Scopes
<1>1. Durability(Enduring) = 2 /\ Durability(Major) = 1 /\ Durability(Minor) = 0
    BY DEF Durability, Minor, Major, Enduring
<1>2. Colder(Enduring) = Major /\ Colder(Major) = Minor /\ Colder(Minor) = NoScope
    BY DEF Colder, NoScope, Minor, Major, Enduring
<1>3. /\ Enduring \in Scopes /\ Major \in Scopes /\ Minor \in Scopes /\ NoScope \notin Scopes
      /\ \A s \in Scopes : s = Enduring \/ s = Major \/ s = Minor
    BY DEF Scopes, NoScope, Minor, Major, Enduring
<1> QED
    BY <1>1, <1>2, <1>3

-----------------------------------------------------------------------------
(* What the running call plans *)

\* What is true of a task until it is done: it does not reach above the scope
\* that enforce_bounds looks at next; promotions go up, all else goes down; a
\* query promotes by one tier; under OneStepThenDrop what is not asked for by
\* name goes down only if it had been promoted, and by one tier.
Fits(k, op, stat, from, its) ==
    LET e == its[k.id] IN
    /\ stat # "none" => k.to # NoScope
    /\ k.to # NoScope =>
          /\ from # NoScope /\ Durability(k.to) <= Durability(from)
          /\ stat = "items_promoted" => Durability(e.scope) < Durability(k.to)
          /\ stat # "items_promoted" => Durability(k.to) < Durability(e.scope)
          /\ op = "query" => Durability(k.to) <= Durability(e.scope) + 1
          /\ op # "demote" /\ stat # "items_promoted" /\ DemotionTarget = "OneStepThenDrop" =>
                /\ e.arrival = "Promoted" /\ k.arrival = "Demoted"
                /\ Durability(k.to) = Durability(e.scope) - 1

PlanFits ==
    /\ \A i \in DOMAIN work : Fits(work[i], call, tally.stat, next, items)
    /\ tally.stat = "none" => tally = NoTally

\* The victims of a scope are dropped or go to the next colder one.
LEMMA EvictionsFit ==
    ASSUME NEW s \in Scopes, NEW v \in Seq(InScope(items, s)), NEW op
    PROVE  \A i \in DOMAIN Evictions(s, v) :
              Fits(Evictions(s, v)[i], op, "none", Colder(s), items)
<1> SUFFICES ASSUME NEW i \in DOMAIN Evictions(s, v)
             PROVE  Fits(Evictions(s, v)[i], op, "none", Colder(s), items)
    OBVIOUS
<1> DEFINE k == Evictions(s, v)[i]
<1>1. /\ k.id = v[i] /\ k.to = EvictionTarget(s, v[i]) /\ k.arrival = "Demoted"
      /\ i \in DOMAIN v
    BY DEF Evictions
<1>2. items[k.id].scope = s
    BY <1>1 DEF InScope
<1>3. /\ k.to = NoScope \/ k.to = Colder(s)
      /\ k.to # NoScope /\ DemotionTarget = "OneStepThenDrop" =>
            items[k.id].arrival = "Promoted"
    BY <1>1, ConfigAssumption DEF EvictionTarget
<1>4. Colder(s) # NoScope =>
         Colder(s) \in Scopes /\ Durability(Colder(s)) = Durability(s) - 1
    BY Tiers
<1>5. Durability(s) \in Int
    BY Tiers
<1> HIDE DEF k
<1> QED
    BY <1>1, <1>2, <1>3, <1>4, <1>5 DEF Fits, k

\* Listed items of one scope that are moved to another, or dropped.
LEMMA MovesFit ==
    ASSUME NEW its, NEW s \in Scopes, NEW ids \in Seq(InScope(its, s)), NEW to, NEW arrival
    PROVE  \A i \in DOMAIN Moves(ids, to, arrival) :
              LET k == Moves(ids, to, arrival)[i]
              IN  k.to = to /\ k.arrival = arrival /\ its[k.id].scope = s
BY DEF Moves, InScope

\* auto_promote counts what it moves, and bounds are enforced from the topmost
\* scope that gets something.
LEMMA AutoPromotePlan ==
    ASSUME NEW its, IsMap(its, Ids, Entries), AutoPromote(its)
    PROVE  /\ call' = "query"
           /\ \A i \in DOMAIN work' : Fits(work'[i], "query", "items_promoted", next', its)
           /\ tally' = [stat |-> "items_promoted", n |-> Len(work')]
<1> DEFINE count(up, on) == [stat |-> "items_promoted", n |-> Len(up) + Len(on)]
           from(up, on) == IF up # <<>> THEN Enduring ELSE IF on # <<>> THEN Major ELSE NoScope
<1>1. PICK up \in SetToSeqs(ToEnduring(its)), on \in SetToSeqs(ToMajor(its)) :
         Begin("query", Moves(up, Enduring, "Promoted") \o Moves(on, Major, "Promoted"),
               count(up, on), from(up, on))
    BY Zenon DEF AutoPromote, SortedBy
<1>2. /\ ToEnduring(its) \in SUBSET Ids /\ ToEnduring(its) \subseteq InScope(its, Major)
      /\ ToMajor(its) \in SUBSET Ids /\ ToMajor(its) \subseteq InScope(its, Minor)
    BY DEF ToEnduring, ToMajor, InScope, IsMap
<1>3. up \in Seq(ToEnduring(its)) /\ on \in Seq(ToMajor(its))
    BY <1>2, ListsOfIds
<1>4. up \in Seq(InScope(its, Major)) /\ on \in Seq(InScope(its, Minor))
    BY <1>2, <1>3
<1> DEFINE a == Moves(up, Enduring, "Promoted")
           b == Moves(on, Major, "Promoted")
           S == Range(a) \cup Range(b)
<1>5. /\ Len(up) \in Nat /\ DOMAIN up = 1 .. Len(up)
      /\ Len(on) \in Nat /\ DOMAIN on = 1 .. Len(on)
    BY <1>4
<1>6. a \in Seq(S) /\ b \in Seq(S) /\ Len(a) = Len(up) /\ Len(b) = Len(on)
  <2>1. a \in [1 .. Len(up) -> S] /\ b \in [1 .. Len(on) -> S]
      BY <1>5 DEF Moves, Range
  <2> QED
      BY <1>5, <2>1, FunctionIsSeq
<1>7. /\ \A i \in DOMAIN a : a[i].to = Enduring /\ its[a[i].id].scope = Major
      /\ \A i \in DOMAIN b : b[i].to = Major /\ its[b[i].id].scope = Minor
    BY <1>4, MovesFit, Tiers
<1>8. (DOMAIN a # {} => up # <<>>) /\ (DOMAIN b # {} => on # <<>>)
    BY <1>5 DEF Moves
<1>9. call' = "query" /\ work' = a \o b /\ tally' = count(up, on) /\ next' = from(up, on)
    BY <1>1 DEF Begin
<1> HIDE DEF a, b, S
<1>10. Len(work') = Len(up) + Len(on)
  <2>1. Len(a \o b) = Len(a) + Len(b)
      BY <1>6
  <2> QED
      BY <1>6, <1>9, <2>1
<1>11. ASSUME NEW i \in DOMAIN work'
       PROVE  Fits(work'[i], "query", "items_promoted", next', its)
  <2>1. \/ i \in DOMAIN a /\ work'[i] = a[i]
        \/ \E k \in DOMAIN b : work'[i] = b[k]
      BY <1>6, <1>9, ConcatElements
  <2>2. CASE i \in DOMAIN a /\ work'[i] = a[i]
      BY <2>2, <1>7, <1>8, <1>9, Tiers DEF Fits
  <2>3. CASE \E k \in DOMAIN b : work'[i] = b[k]
      BY <2>3, <1>7, <1>8, <1>9, Tiers DEF Fits
  <2> QED
      BY <2>1, <2>2, <2>3
<1> QED
    BY <1>9, <1>10, <1>11

-----------------------------------------------------------------------------
(* What the steps of a call do *)

\* The first step of a call that goes on: it plans, and moves nothing yet.
Planned ==
    /\ session = "open" /\ call = Idle /\ call' \in Operations
    /\ UNCHANGED <<session, clock, fault>>
    /\ \A i \in DOMAIN work' : Fits(work'[i], call', tally'.stat, next', items')
    /\ tally'.stat = "none" => tally' = NoTally
    /\ tally'.stat # "none" => tally'.n = Len(work')
    /\ DOMAIN items \subseteq DOMAIN items'
    /\ \A id \in DOMAIN items :
          /\ items'[id].scope = items[id].scope
          /\ items'[id].last_touch \in {items[id].last_touch, clock}
    /\ call' # "add" => DOMAIN items' = DOMAIN items
    /\ call' = "add" => work' = <<>> /\ next' \in Scopes
    /\ \A id \in DOMAIN items' \ DOMAIN items :
          /\ items'[id].scope = next' /\ items'[id].last_touch = clock
          /\ id \in Nat /\ \A y \in DOMAIN items : y \in Nat /\ y < id
    /\ stats'.items_promoted = stats.items_promoted
    /\ stats'.items_demoted = stats.items_demoted
    /\ stats'.queries_served = stats.queries_served + IF call' = "query" THEN 1 ELSE 0

\* Planning without touching the index or the counters.
LEMMA PlannedOnly ==
    ASSUME TypeOK, Ready, NEW op \in Operations \ {"add", "query"}, NEW todo, NEW count, NEW from,
           Begin(op, todo, count, from), UNCHANGED <<stores, items, next_id, stats>>,
           \A i \in DOMAIN todo : Fits(todo[i], op, count.stat, from, items),
           count.stat = "none" => count = NoTally,
           count.stat # "none" => count.n = Len(todo)
    PROVE  Planned
<1>1. stats.queries_served \in Nat
    BY DEF TypeOK, DataTypeOK, NoStats
<1>2. /\ call' = op /\ work' = todo /\ tally' = count /\ next' = from
      /\ session = "open" /\ call = Idle /\ UNCHANGED <<session, clock, fault, items, stats>>
    BY DEF Begin, Ready
<1> QED
    BY <1>1, <1>2 DEF Planned

LEMMA PromotePlanned == ASSUME Inv, PromoteSome PROVE Planned
<1>0. TypeOK
    BY DEF Inv
<1>1. PICK from, to \in Scopes : \E ids \in IdLists(from) : Promote(ids, from, to)
    BY DEF PromoteSome
<1>2. PICK ids \in IdLists(from) : Promote(ids, from, to)
    BY <1>1
<1> DEFINE todo == Moves(ids, to, "Promoted")
           count == [stat |-> "items_promoted", n |-> Len(ids)]
<1>3. /\ Ready /\ Durability(from) < Durability(to) /\ Begin("promote", todo, count, to)
      /\ UNCHANGED <<stores, items, next_id, stats>>
    BY <1>2 DEF Promote
<1>4. ids \in Seq(InScope(items, from))
    BY <1>0, IdListsType
<1>5. \A i \in DOMAIN todo : todo[i].to = to /\ items[todo[i].id].scope = from
    BY <1>4, MovesFit
<1>6. Len(todo) = Len(ids)
    BY <1>4 DEF Moves
<1>7. Durability(to) \in Int /\ to # NoScope
    BY Tiers
<1> HIDE DEF todo
<1>8. \A i \in DOMAIN todo : Fits(todo[i], "promote", "items_promoted", to, items)
    BY <1>3, <1>5, <1>7 DEF Fits
<1>9. "promote" \in Operations \ {"add", "query"}
    BY DEF Operations
<1> QED
    BY <1>0, <1>3, <1>6, <1>8, <1>9, PlannedOnly

LEMMA EvictPlanned == ASSUME Inv, EvictSome PROVE Planned
<1>0. TypeOK
    BY DEF Inv
<1>1. PICK scope \in Scopes :
          \/ \E ids \in IdLists(scope) : EvictItems(ids)
          \/ \E ids \in IdLists(scope), to \in Scopes : EvictDemote(ids, scope, to)
          \/ \E count \in 0 .. MaxId : EvictPolicy(scope, count)
    BY Zenon DEF EvictSome
<1>2. {"evict", "demote", "policy"} \subseteq Operations \ {"add", "query"}
    BY DEF Operations
<1>3. ASSUME NEW ids \in IdLists(scope), EvictItems(ids) PROVE Planned
  <2> DEFINE todo == Moves(ids, NoScope, "Demoted")
  <2>1. \A i \in DOMAIN todo : todo[i].to = NoScope
      BY DEF Moves
  <2> HIDE DEF todo
  <2>2. \A i \in DOMAIN todo : Fits(todo[i], "evict", NoTally.stat, NoScope, items)
      BY <2>1 DEF Fits, NoTally
  <2>3. NoTally.stat = "none"
      BY DEF NoTally
  <2>4. /\ Ready /\ Begin("evict", todo, NoTally, NoScope)
        /\ UNCHANGED <<stores, items, next_id, stats>>
      BY <1>3 DEF EvictItems, todo
  <2> QED
      BY <1>0, <1>2, <2>2, <2>3, <2>4, PlannedOnly
<1>4. ASSUME NEW ids \in IdLists(scope), NEW to \in Scopes, EvictDemote(ids, scope, to)
      PROVE  Planned
  <2> DEFINE todo == Moves(ids, to, "Demoted")
             count == [stat |-> "items_demoted", n |-> Len(ids)]
  <2>1. ids \in Seq(InScope(items, scope))
      BY <1>0, IdListsType
  <2>2. \A i \in DOMAIN todo : todo[i].to = to /\ items[todo[i].id].scope = scope
      BY <2>1, MovesFit
  <2>3. Len(todo) = Len(ids)
      BY <2>1 DEF Moves
  <2>4. /\ Ready /\ Durability(to) < Durability(scope) /\ Begin("demote", todo, count, to)
        /\ UNCHANGED <<stores, items, next_id, stats>>
      BY <1>4 DEF EvictDemote
  <2>5. Durability(to) \in Int /\ to # NoScope
      BY Tiers
  <2> HIDE DEF todo
  <2>6. \A i \in DOMAIN todo : Fits(todo[i], "demote", "items_demoted", to, items)
      BY <2>2, <2>4, <2>5 DEF Fits
  <2> QED
      BY <1>0, <1>2, <2>3, <2>4, <2>6, PlannedOnly
<1>5. ASSUME NEW n \in 0 .. MaxId, EvictPolicy(scope, n) PROVE Planned
  <2>1. PICK v \in Victims(scope, n) :
           Begin("policy", Evictions(scope, v), NoTally, Colder(scope))
      BY <1>5 DEF EvictPolicy
  <2>2. v \in Seq(InScope(items, scope))
      BY <1>0, BoundsAssumption, VictimsType
  <2> DEFINE todo == Evictions(scope, v)
  <2>3. \A i \in DOMAIN todo : Fits(todo[i], "policy", "none", Colder(scope), items)
      BY <2>2, EvictionsFit
  <2> HIDE DEF todo
  <2>4. NoTally.stat = "none"
      BY DEF NoTally
  <2>5. /\ Ready /\ Begin("policy", todo, NoTally, Colder(scope))
        /\ UNCHANGED <<stores, items, next_id, stats>>
      BY <1>5, <2>1 DEF EvictPolicy, todo
  <2> QED
      BY <1>0, <1>2, <2>3, <2>4, <2>5, PlannedOnly
<1> QED
    BY <1>1, <1>3, <1>4, <1>5

LEMMA AddPlanned == ASSUME Inv, AddSome PROVE Planned
<1>0. TypeOK /\ FreshIds
    BY DEF Inv, StoreInv
<1>1. PICK scope \in Scopes, n \in 0 .. MaxBatch :
         \E batch \in [1 .. n -> ValidItems] : AddBatch(scope, batch)
    BY DEF AddSome
<1>2. PICK batch \in [1 .. n -> ValidItems] : AddBatch(scope, batch)
    BY <1>1
<1> DEFINE ids == next_id .. next_id + n - 1
           added == [id \in ids |-> batch[id - next_id + 1]]
           entries == [id \in ids |-> NewEntry(added[id], scope, "Added", clock)]
<1>3. n \in Nat /\ Len(batch) = n /\ next_id \in Nat
    BY <1>0, BoundsAssumption, FunctionIsSeq DEF TypeOK, DataTypeOK
<1>4. /\ items' = Merge(entries, items)
      /\ stats' = [stats EXCEPT !.items_added = @ + n]
      /\ Begin("add", <<>>, NoTally, scope)
      /\ session = "open" /\ call = Idle
    BY <1>2, <1>3 DEF AddBatch, Ready
<1>5. \A id \in ids : entries[id].scope = scope /\ entries[id].last_touch = clock
    BY DEF NewEntry
<1>6. /\ \A id \in ids : id \in Nat /\ next_id <= id
      /\ \A y \in DOMAIN items : y \in Nat /\ y < next_id
    BY <1>0, <1>3, <1>4, ItemTypes DEF FreshIds
<1>7. DOMAIN entries = ids
    OBVIOUS
<1> HIDE DEF entries, ids
<1>8. /\ DOMAIN items' = ids \cup DOMAIN items
      /\ \A id \in ids : items'[id] = entries[id]
      /\ \A id \in DOMAIN items : id \notin ids => items'[id] = items[id]
    BY <1>4, <1>7 DEF Merge
<1>9. \A id \in DOMAIN items : id \notin ids
    BY <1>3, <1>6
<1>10. /\ stats'.items_promoted = stats.items_promoted
       /\ stats'.items_demoted = stats.items_demoted
       /\ stats'.queries_served = stats.queries_served + 0
  <2>1. stats \in [DOMAIN NoStats -> Nat]
      BY <1>0 DEF TypeOK, DataTypeOK
  <2> QED
      BY <1>4, <2>1 DEF NoStats
<1>11. /\ call' = "add" /\ work' = <<>> /\ tally' = NoTally /\ next' = scope
       /\ UNCHANGED <<session, clock, fault>>
    BY <1>4 DEF Begin
<1>12. NoTally.stat = "none" /\ "add" \in Operations /\ "add" # "query"
    BY DEF NoTally, Operations
<1>13. \A id \in DOMAIN items' \ DOMAIN items :
          /\ items'[id].scope = scope /\ items'[id].last_touch = clock
          /\ id \in Nat /\ \A y \in DOMAIN items : y \in Nat /\ y < id
    BY <1>3, <1>5, <1>6, <1>8
<1>14. DOMAIN items \subseteq DOMAIN items' /\ \A id \in DOMAIN items : items'[id] = items[id]
    BY <1>8, <1>9
<1> QED
    BY <1>4, <1>10, <1>11, <1>12, <1>13, <1>14 DEF Planned

LEMMA QueryPlanned == ASSUME Inv, QuerySome PROVE Planned
<1>0. TypeOK
    BY DEF Inv
<1>1. PICK sel \in Selections, pattern \in Patterns, limit \in Limits :
         Query(sel, pattern, limit)
    BY DEF QuerySome
<1> DEFINE t == Touched(sel, pattern, limit)
<1>2. /\ session = "open" /\ call = Idle /\ items' = t
      /\ stats' = [stats EXCEPT !.queries_served = @ + 1]
      /\ AutoPromote(t) \/ Begin("query", <<>>, NoTally, NoScope)
    BY <1>1, ConfigAssumption DEF Query, Touched, Ready
<1>3. /\ IsMap(t, Ids, Entries)
      /\ DOMAIN t = DOMAIN items
      /\ \A id \in DOMAIN items :
            /\ t[id].scope = items[id].scope
            /\ t[id].last_touch \in {items[id].last_touch, clock}
    BY <1>0, TouchedType
<1> HIDE DEF t
<1>4. UNCHANGED <<session, clock, fault>>
    BY <1>2 DEF AutoPromote, Begin
<1>5. /\ stats'.items_promoted = stats.items_promoted
      /\ stats'.items_demoted = stats.items_demoted
      /\ stats'.queries_served = stats.queries_served + 1
  <2>1. stats \in [DOMAIN NoStats -> Nat]
      BY <1>0 DEF TypeOK, DataTypeOK
  <2> QED
      BY <1>2, <2>1 DEF NoStats
<1>6. "query" \in Operations /\ "query" # "add" /\ NoTally.stat = "none"
    BY DEF Operations, NoTally
<1>7. /\ call' = "query"
      /\ \A i \in DOMAIN work' : Fits(work'[i], "query", tally'.stat, next', items')
      /\ tally'.stat = "none" => tally' = NoTally
      /\ tally'.stat # "none" => tally'.n = Len(work')
  <2>1. CASE AutoPromote(t)
    <3>1. /\ call' = "query"
          /\ \A i \in DOMAIN work' : Fits(work'[i], "query", "items_promoted", next', t)
          /\ tally' = [stat |-> "items_promoted", n |-> Len(work')]
        BY <1>3, <2>1, AutoPromotePlan
    <3> QED
        BY <1>2, <3>1
  <2>2. CASE Begin("query", <<>>, NoTally, NoScope)
      BY <1>6, <2>2 DEF Begin
  <2> QED
      BY <1>2, <2>1, <2>2
<1> QED
    BY <1>2, <1>3, <1>4, <1>5, <1>6, <1>7 DEF Planned

\* The first task is done, and the others are still to do.
OneDone ==
    /\ Len(work) \in Nat \ {0} /\ Len(work') = Len(work) - 1
    /\ 1 \in DOMAIN work /\ Task = work[1]
    /\ \A i \in DOMAIN work' :
          i + 1 \in DOMAIN work /\ work'[i] = work[i + 1] /\ work[i + 1].id # Task.id
    /\ \A i \in DOMAIN work : i # 1 => \E j \in DOMAIN work' : work'[j] = work[i]
    /\ session = "open" /\ call # Idle /\ UNCHANGED <<session, call, tally, next, clock, fault>>

LEMMA OneTaskDone ==
    ASSUME Inv, work # <<>>, work' = Tail(work),
           UNCHANGED <<session, call, tally, next, clock, fault>>
    PROVE  OneDone
<1>1. work \in Seq(Tasks) /\ AreLive(work, items) /\ call # Idle /\ session = "open"
    BY DEF Inv, TypeOK, ControlTypeOK, WorkIsLive
<1>2. /\ Len(work) \in Nat \ {0} /\ Len(work') = Len(work) - 1
      /\ 1 \in DOMAIN work /\ Task = work[1]
      /\ \A i \in DOMAIN work' :
            i \in Nat /\ i + 1 \in DOMAIN work /\ work'[i] = work[i + 1] /\ i + 1 # 1
    BY <1>1 DEF Task
<1>3. \A i \in DOMAIN work' : work[i + 1].id # Task.id
    BY <1>1, <1>2 DEF AreLive
<1>4. ASSUME NEW i \in DOMAIN work, i # 1 PROVE \E j \in DOMAIN work' : work'[j] = work[i]
  <2>1. i - 1 \in DOMAIN work' /\ work'[i - 1] = work[i]
      BY <1>1, <1>4
  <2> QED
      BY <2>1
<1> QED
    BY <1>1, <1>2, <1>3, <1>4 DEF OneDone

LEMMA MoveEffect ==
    ASSUME Inv, MoveDelete
    PROVE  /\ OneDone
           /\ Task.to \in Scopes /\ Task.id \in DOMAIN items
           /\ items[Task.id].scope \in Scopes
           /\ DOMAIN items' = DOMAIN items
           /\ items'[Task.id].scope = Task.to /\ items'[Task.id].arrival = Task.arrival
           /\ items'[Task.id].last_touch = items[Task.id].last_touch
           /\ \A y \in DOMAIN items : y # Task.id => items'[y] = items[y]
<1> DEFINE e == items[Task.id]
<1>0. TypeOK /\ WorkIsLive
    BY DEF Inv
<1>1. OneDone
    BY OneTaskDone DEF MoveDelete
<1>2. /\ Task.to \in Scopes /\ Task.arrival \in Arrivals
      /\ Task.id \in DOMAIN items /\ e \in Entries /\ e.scope \in Scopes
    BY <1>0, TaskType DEF MoveDelete, WorkIsLive, Tasks
<1> DEFINE r == Relocated(e, Task.to, Task.arrival)
<1>3. r.scope = Task.to /\ r.arrival = Task.arrival /\ r.last_touch = e.last_touch
    BY <1>2, RelocatedType
<1>4. items' = [items EXCEPT ![Task.id] = r]
    BY DEF MoveDelete
<1> HIDE DEF r
<1> QED
    BY <1>1, <1>2, <1>3, <1>4

LEMMA DropEffect ==
    ASSUME Inv, DropItem
    PROVE  /\ OneDone
           /\ Task.id \in DOMAIN items /\ Task.to = NoScope
           /\ DOMAIN items' = DOMAIN items \ {Task.id}
           /\ \A y \in DOMAIN items' : items'[y] = items[y]
<1>0. TypeOK /\ WorkIsLive
    BY DEF Inv
<1>1. OneDone
    BY OneTaskDone DEF DropItem
<1>2. Task.id \in DOMAIN items /\ Task.to = NoScope
    BY <1>0, TaskType DEF DropItem
<1>3. items' = Restrict(items, DOMAIN items \ {Task.id})
    BY DEF DropItem
<1> QED
    BY <1>1, <1>2, <1>3 DEF Restrict

\* A round of enforce_bounds: the victims are the first of the sorted list.
LEMMA EnforceEffect ==
    ASSUME Inv, EnforceBound
    PROVE  LET S == InScope(items, next)
               excess == IF Cardinality(S) > Bounds[next]
                         THEN Cardinality(S) - Bounds[next] ELSE 0
           IN  /\ next \in Scopes /\ next' = Colder(next)
               /\ work = <<>> /\ tally = NoTally
               /\ session = "open" /\ call # Idle
               /\ UNCHANGED <<session, items, stats, call, tally, clock, fault>>
               /\ Cardinality(S) \in Nat /\ Bounds[next] \in Nat
               /\ excess \in Nat /\ excess <= Cardinality(S)
               /\ \E v \in Victims(next, excess) :
                     /\ v \in Seq(S) /\ \A i, j \in DOMAIN v : v[i] = v[j] => i = j
                     /\ work' = Evictions(next, v)
<1> DEFINE S == InScope(items, next)
           excess == IF Cardinality(S) > Bounds[next]
                     THEN Cardinality(S) - Bounds[next] ELSE 0
<1>0. TypeOK /\ WorkIsLive
    BY DEF Inv
<1>1. next \in Scopes
    BY <1>0 DEF EnforceBound, TypeOK, ControlTypeOK
<1>2. Cardinality(S) \in Nat /\ Bounds[next] \in Nat
    BY <1>0, <1>1, InScopeIds, ListsOfIds, ConfigAssumption
<1>3. excess \in Nat /\ excess <= Cardinality(S)
    BY <1>2
<1>4. PICK v \in Victims(next, excess) : work' = Evictions(next, v)
    BY DEF EnforceBound
<1> HIDE DEF excess
<1>5. v \in Seq(S) /\ \A i, j \in DOMAIN v : v[i] = v[j] => i = j
    BY <1>0, <1>3, VictimsType
<1>6. /\ next' = Colder(next) /\ work = <<>> /\ tally = NoTally /\ call # Idle
      /\ UNCHANGED <<session, items, stats, call, tally, clock, fault>>
    BY <1>0 DEF EnforceBound, WorkIsLive, state
<1>7. session = "open"
    BY <1>0, <1>6 DEF WorkIsLive, TypeOK, ControlTypeOK
<1> HIDE DEF S
<1> QED
    BY <1>1, <1>2, <1>3, <1>4, <1>5, <1>6, <1>7 DEF excess, S

\* Steps that leave the index and the plan alone.
Still ==
    /\ UNCHANGED <<session, items, stats, call, work, tally, next, fault>>
    /\ clock \in Nat /\ clock' \in Nat /\ clock <= clock'
    /\ call # Idle => clock' = clock
    /\ session = "open" \/ UNCHANGED stores

\* An item is removed between two calls.
Forgotten ==
    /\ session = "open" /\ call = Idle
    /\ UNCHANGED <<session, stats, clock, call, work, tally, next, fault>>
    /\ \E id \in DOMAIN items :
          /\ DOMAIN items' = DOMAIN items \ {id}
          /\ \A y \in DOMAIN items' : items'[y] = items[y]

LEMMA StepKinds ==
    ASSUME Inv, [Next]_vars
    PROVE  \/ Open \/ Close \/ Crash \/ Still \/ Forgotten \/ Planned
           \/ MoveDelete \/ DropItem \/ CountMoves \/ EnforceBound \/ Return \/ StorageFails
<1>0. TypeOK /\ WorkIsLive /\ clock \in Nat
    BY BoundsAssumption DEF Inv, TypeOK, ControlTypeOK
<1>1. CASE MoveInsert \/ Tick \/ UNCHANGED vars
  <2>1. /\ UNCHANGED <<session, items, stats, call, work, tally, next, fault>>
        /\ clock' = clock \/ (clock' = clock + 1 /\ call = Idle)
      BY <1>1 DEF MoveInsert, Tick, vars, state, control
  <2>2. session = "open" \/ UNCHANGED stores
    <3>1. CASE MoveInsert
        BY <1>0, <3>1 DEF MoveInsert, WorkIsLive, TypeOK, ControlTypeOK
    <3> QED
        BY <1>1, <3>1 DEF Tick, vars
  <2> QED
      BY <1>0, <2>1, <2>2 DEF Still
<1>2. CASE RemoveSome
  <2>1. PICK id \in DOMAIN items : RemoveItem(id)
      BY <1>2 DEF RemoveSome
  <2>2. items' = Restrict(items, DOMAIN items \ {id})
      BY <2>1 DEF RemoveItem
  <2>3. DOMAIN items' = DOMAIN items \ {id} /\ \A y \in DOMAIN items' : items'[y] = items[y]
      BY <2>2 DEF Restrict
  <2>4. /\ session = "open" /\ call = Idle
        /\ UNCHANGED <<session, stats, clock, call, work, tally, next, fault>>
      BY <2>1 DEF RemoveItem, Ready, control
  <2> QED
      BY <2>3, <2>4 DEF Forgotten
<1>3. CASE AddSome \/ QuerySome \/ PromoteSome \/ EvictSome
    BY <1>3, AddPlanned, QueryPlanned, PromotePlanned, EvictPlanned
<1> QED
    BY <1>1, <1>2, <1>3, Zenon DEF Next, CalmNext, Step

\* The plan of the running call keeps fitting while it is carried out.
LEMMA PlanStep == Inv /\ PlanFits /\ [Next]_vars => PlanFits'
<1> SUFFICES ASSUME Inv, PlanFits, [Next]_vars PROVE PlanFits'
    OBVIOUS
<1>1. /\ call = Idle => work = <<>> /\ tally = NoTally
      /\ session = "closed" => call = Idle
      /\ NoTally.stat = "none"
    BY DEF Inv, WorkIsLive, NoTally
<1>2. ASSUME work' = <<>>, tally' = NoTally PROVE PlanFits'
    BY <1>1, <1>2 DEF PlanFits
<1>3. CASE Open
    BY <1>1, <1>2, <1>3 DEF Open, control
<1>4. CASE Close \/ Crash
    BY <1>2, <1>4 DEF Close, Crash, End
<1>5. CASE Still
    BY <1>5 DEF Still, PlanFits, Fits
<1>6. CASE Forgotten
    BY <1>1, <1>2, <1>6 DEF Forgotten
<1>7. CASE Planned
    BY <1>7 DEF Planned, PlanFits
<1>8. ASSUME OneDone, \A y \in DOMAIN items : y # Task.id => items'[y] = items[y]
      PROVE  PlanFits'
  <2>1. UNCHANGED <<call, tally, next>>
      BY <1>8 DEF OneDone
  <2>2. ASSUME NEW i \in DOMAIN work'
        PROVE  Fits(work'[i], call', tally'.stat, next', items')
    <3>1. i + 1 \in DOMAIN work /\ work'[i] = work[i + 1] /\ work[i + 1].id # Task.id
        BY <1>8 DEF OneDone
    <3>2. work[i + 1].id \in DOMAIN items
        BY <3>1 DEF Inv, WorkIsLive, AreLive
    <3>3. items'[work'[i].id] = items[work[i + 1].id]
        BY <1>8, <3>1, <3>2
    <3>4. Fits(work[i + 1], call, tally.stat, next, items)
        BY <3>1 DEF PlanFits
    <3> QED
        BY <2>1, <3>1, <3>3, <3>4 DEF Fits
  <2> QED
      BY <2>1, <2>2 DEF PlanFits
<1>9. CASE MoveDelete
    BY <1>8, <1>9, MoveEffect
<1>10. CASE DropItem
    BY <1>8, <1>10, DropEffect
<1>11. CASE CountMoves
    BY <1>2, <1>11 DEF CountMoves
<1>12. CASE EnforceBound
  <2>1. /\ next \in Scopes /\ next' = Colder(next) /\ tally' = NoTally
        /\ items' = items
        /\ \E v \in Seq(InScope(items, next)) : work' = Evictions(next, v)
      BY <1>12, EnforceEffect
  <2>2. \A i \in DOMAIN work' : Fits(work'[i], call', "none", next', items)
      BY <2>1, EvictionsFit
  <2> QED
      BY <1>1, <2>1, <2>2 DEF PlanFits
<1>13. CASE Return
    BY <1>2, <1>13 DEF Return
<1>14. CASE StorageFails
    BY <1>2, <1>14 DEF StorageFails
<1> QED
    BY <1>3, <1>4, <1>5, <1>6, <1>7, <1>9, <1>10, <1>11, <1>12, <1>13, <1>14, StepKinds

LEMMA PlanAlwaysFits == Spec => []PlanFits
<1>1. Init => PlanFits
    BY DEF Init, PlanFits, NoTally
<1> QED
    BY <1>1, PlanStep, Invariance, PTL DEF Spec

-----------------------------------------------------------------------------
(* The bounds *)

\* What the running call does not plan to move or drop.
Staying(s) == InScope(items, s) \ {work[i].id : i \in DOMAIN work}

\* A scope that has had its turn, or that enforce_bounds need not visit.
Swept(s) == next = NoScope \/ Durability(next) < Durability(s)

\* As long as no call was cut short: scopes above the one whose bound is looked
\* at next are within their bounds once the plan is carried out, and a closed
\* Session left stores that are within theirs.
BoundsInv ==
    /\ session = "closed" => DOMAIN items = {}
    /\ ~fault =>
        /\ session = "open" =>
              \A s \in Scopes : Swept(s) => Cardinality(Staying(s)) <= Bounds[s]
        /\ session = "closed" =>
              \A s \in Scopes : Cardinality(DOMAIN stores[s]) <= Bounds[s]

\* The first n of a list of a scope's items in the order of eviction.
AreFirst(v, n, q, s) ==
    /\ q \in [1 .. Cardinality(InScope(items, s)) -> InScope(items, s)]
    /\ \A i, j \in DOMAIN q : q[i] = q[j] => i = j
    /\ \A i, j \in DOMAIN q : i < j => EvictsBefore(q[i], q[j])
    /\ DOMAIN v = 1 .. n /\ \A i \in 1 .. n : v[i] = q[i]

\* The list that victims are taken from, and where they are in it.
LEMMA VictimsAreFirst ==
    ASSUME TypeOK, NEW s, NEW n \in Nat, n <= Cardinality(InScope(items, s)),
           NEW v \in Victims(s, n)
    PROVE  \E q : AreFirst(v, n, q, s)
<1> DEFINE S == InScope(items, s)
<1>1. S \in SUBSET Ids /\ Cardinality(S) \in Nat
    BY InScopeIds, ListsOfIds
<1>2. PICK q \in SetToSeqs(S) :
         /\ v = SubSeq(q, 1, IF n < Len(q) THEN n ELSE Len(q))
         /\ \A i, j \in DOMAIN q : i < j => EvictsBefore(q[i], q[j])
    BY Zenon DEF Victims, SortedBy
<1>3. q \in [1 .. Cardinality(S) -> S]
    BY <1>2, Zenon DEF SetToSeqs
<1>4. \A i, j \in DOMAIN q : q[i] = q[j] => i = j
    BY <1>1, <1>2, ListsOfIds
<1> HIDE DEF S
<1>5. q \in Seq(S) /\ Len(q) = Cardinality(S)
    BY <1>1, <1>3, FunctionIsSeq
<1>6. v = SubSeq(q, 1, n)
    BY <1>2, <1>5 DEF S
<1>7. DOMAIN v = 1 .. n /\ \A i \in 1 .. n : v[i] = q[i]
    BY <1>5, <1>6 DEF S
<1>8. AreFirst(v, n, q, s)
    BY <1>2, <1>3, <1>4, <1>7 DEF S, AreFirst
<1> QED
    BY <1>8, Zenon

\* Taking n victims from a scope leaves n fewer items.
LEMMA VictimsCount ==
    ASSUME TypeOK, NEW s, NEW n \in Nat, n <= Cardinality(InScope(items, s)),
           NEW v \in Victims(s, n)
    PROVE  Cardinality(InScope(items, s) \ Range(v)) = Cardinality(InScope(items, s)) - n
<1> DEFINE S == InScope(items, s)
           V == Range(v)
<1>1. IsFiniteSet(S) /\ Cardinality(S) \in Nat
    BY InScopeIds, ListsOfIds
<1>0. PICK q : AreFirst(v, n, q, s)
    BY VictimsAreFirst
<1>2. /\ q \in [1 .. Cardinality(S) -> S]
      /\ \A i, j \in DOMAIN q : q[i] = q[j] => i = j
      /\ DOMAIN v = 1 .. n /\ \A i \in 1 .. n : v[i] = q[i]
    BY <1>0 DEF AreFirst
<1>3. V = {q[i] : i \in 1 .. n}
    BY <1>2 DEF Range
<1>4. V \subseteq S
    BY <1>1, <1>2, <1>3
<1> DEFINE f == [i \in 1 .. n |-> q[i]]
<1>5. f \in Bijection(1 .. n, V)
  <2>1. f \in [1 .. n -> V]
      BY <1>3
  <2>2. \A i, j \in 1 .. n : f[i] = f[j] => i = j
      BY <1>1, <1>2
  <2>3. \A y \in V : \E i \in 1 .. n : f[i] = y
      BY <1>3
  <2> HIDE DEF f, V
  <2> QED
      BY <2>1, <2>2, <2>3 DEF Bijection, Injection, Surjection, IsInjective
<1> HIDE DEF f, V
<1>6. Cardinality(V) = n
    BY <1>5, FS_CountingElements DEF ExistsBijection
<1>7. S \cap V = V
    BY <1>4
<1>8. Cardinality(S \ V) = Cardinality(S) - Cardinality(S \cap V)
    BY <1>1, FS_Difference
<1> QED
    BY <1>6, <1>7, <1>8 DEF V

LEMMA FewerFit ==
    ASSUME NEW S \in SUBSET Ids, NEW T \in SUBSET S, NEW s \in Scopes,
           Cardinality(S) <= Bounds[s]
    PROVE  Cardinality(T) <= Bounds[s]
<1>1. IsFiniteSet(S) /\ Cardinality(S) \in Nat /\ Cardinality(T) \in Nat /\ Bounds[s] \in Nat
    BY ListsOfIds, ConfigAssumption
<1>2. Cardinality(T) <= Cardinality(S)
    BY <1>1, FS_Subset
<1> QED
    BY <1>1, <1>2

LEMMA StayingIds ==
    ASSUME TypeOK, NEW s
    PROVE  /\ Staying(s) \in SUBSET Ids
           /\ Staying(s) \subseteq InScope(items, s)
           /\ work = <<>> => Staying(s) = InScope(items, s)
BY InScopeIds DEF Staying

\* The items that a call adds go to a scope that is still to be visited.
LEMMA PlannedStays ==
    ASSUME Inv, Planned, NEW s \in Scopes, Swept(s)'
    PROVE  Staying(s)' \subseteq Staying(s)
<1>1. TypeOK /\ work = <<>>
    BY DEF Inv, WorkIsLive, Planned
<1>2. ASSUME NEW y \in InScope(items', s) PROVE y \in InScope(items, s)
  <2>1. CASE y \in DOMAIN items
      BY <1>2, <2>1 DEF Planned, InScope
  <2>2. CASE y \notin DOMAIN items
    <3>1. items'[y].scope = next' /\ items'[y].scope = s
        BY <1>2, <2>2 DEF Planned, InScope
    <3>2. Durability(s) < Durability(s) /\ Durability(s) \in Int
        BY <3>1, Tiers DEF Swept
    <3> QED
        BY <3>2
  <2> QED
      BY <2>1, <2>2
<1> QED
    BY <1>1, <1>2, StayingIds DEF Staying

\* A task that is done takes its item out of its scope, and into one that is
\* still to be visited if into any.
LEMMA DoneStays ==
    ASSUME Inv, PlanFits, MoveDelete \/ DropItem, NEW s \in Scopes, Swept(s)
    PROVE  OneDone /\ Staying(s)' \subseteq Staying(s)
<1>1. /\ OneDone
      /\ DOMAIN items' \subseteq DOMAIN items
      /\ \A y \in DOMAIN items' : y # Task.id => items'[y] = items[y]
    BY MoveEffect, DropEffect
<1>2. \/ Task.id \notin DOMAIN items'
      \/ /\ next # NoScope /\ Task.to \in Scopes
         /\ items'[Task.id].scope = Task.to /\ Durability(Task.to) <= Durability(next)
  <2>1. CASE MoveDelete
    <3>1. 1 \in DOMAIN work /\ Task = work[1] /\ Task.to \in Scopes /\ Task.to # NoScope
        BY <2>1, MoveEffect, Tiers DEF OneDone
    <3>2. next # NoScope /\ Durability(Task.to) <= Durability(next)
        BY <3>1 DEF PlanFits, Fits
    <3> QED
        BY <2>1, <3>1, <3>2, MoveEffect
  <2>2. CASE DropItem
      BY <2>2, DropEffect
  <2> QED
      BY <2>1, <2>2
<1>3. ASSUME NEW y \in Staying(s)' PROVE y \in Staying(s)
  <2>1. y \in DOMAIN items' /\ items'[y].scope = s /\ \A i \in DOMAIN work' : work'[i].id # y
      BY <1>3 DEF Staying, InScope
  <2>2. y # Task.id
    <3> SUFFICES ASSUME y = Task.id PROVE FALSE
        OBVIOUS
    <3>1. Durability(s) <= Durability(next) /\ next # NoScope
        BY <1>2, <2>1
    <3>2. next \in Scopes
        BY <3>1 DEF Inv, TypeOK, ControlTypeOK
    <3>3. Durability(s) \in Int /\ Durability(next) \in Int
        BY <3>2, Tiers
    <3> QED
        BY <3>1, <3>3 DEF Swept
  <2>3. items'[y] = items[y] /\ y \in DOMAIN items
      BY <1>1, <2>1, <2>2
  <2>4. \A i \in DOMAIN work : work[i].id # y
      BY <1>1, <2>1, <2>2 DEF OneDone
  <2> QED
      BY <2>1, <2>3, <2>4 DEF Staying, InScope
<1> QED
    BY <1>1, <1>3

\* A round of enforce_bounds brings its scope within its bound.
LEMMA EnforceStays ==
    ASSUME Inv, EnforceBound, NEW s \in Scopes, Swept(s)'
    PROVE  \/ Cardinality(Staying(s)') <= Bounds[s]
           \/ Swept(s) /\ Staying(s)' \subseteq Staying(s)
<1> DEFINE S == InScope(items, next)
           excess == IF Cardinality(S) > Bounds[next]
                     THEN Cardinality(S) - Bounds[next] ELSE 0
<1>0. TypeOK
    BY DEF Inv
<1>1. /\ next \in Scopes /\ next' = Colder(next) /\ work = <<>>
      /\ UNCHANGED items
      /\ Cardinality(S) \in Nat /\ Bounds[next] \in Nat
      /\ excess \in Nat /\ excess <= Cardinality(S)
    BY EnforceEffect
<1>2. PICK v \in Victims(next, excess) : work' = Evictions(next, v)
    BY EnforceEffect
<1>3. {work'[i].id : i \in DOMAIN work'} = Range(v)
    BY <1>2 DEF Evictions, Range
<1> HIDE DEF excess
<1>4. Staying(s)' = InScope(items, s) \ Range(v)
  <2>1. InScope(items, s)' = InScope(items, s)
      BY <1>1 DEF InScope
  <2> QED
      BY <1>3, <2>1 DEF Staying
<1>5. CASE s = next
  <2>1. Cardinality(S \ Range(v)) = Cardinality(S) - excess
      BY <1>0, <1>1, <1>2, VictimsCount
  <2>2. Cardinality(Staying(s)') = Cardinality(S) - excess
      BY <1>4, <1>5, <2>1
  <2> HIDE DEF S
  <2>3. Cardinality(S) - excess <= Bounds[next]
      BY <1>1 DEF excess
  <2> QED
      BY <1>5, <2>2, <2>3
<1>6. CASE s # next
  <2>1. Durability(next) < Durability(s)
      BY <1>1, <1>6, Tiers DEF Swept
  <2>2. Staying(s)' \subseteq Staying(s)
      BY <1>0, <1>1, <1>4, StayingIds
  <2> QED
      BY <2>1, <2>2 DEF Swept
<1> QED
    BY <1>5, <1>6

\* Nobody joins the scopes that are already within their bounds.
LEMMA OthersStay ==
    ASSUME Inv, BoundsInv, session = "open", session' = "open", UNCHANGED fault,
           next' = next \/ next = NoScope,
           \A s \in Scopes : Swept(s)' => Staying(s)' \subseteq Staying(s)
    PROVE  BoundsInv'
<1> SUFFICES ASSUME ~fault, NEW s \in Scopes, Swept(s)'
             PROVE  Cardinality(Staying(s)') <= Bounds[s]
    BY DEF BoundsInv
<1>1. Cardinality(Staying(s)) <= Bounds[s]
    BY DEF BoundsInv, Swept
<1>2. Staying(s) \in SUBSET Ids /\ Staying(s)' \in SUBSET Staying(s)
    BY StayingIds DEF Inv
<1> QED
    BY <1>1, <1>2, FewerFit

LEMMA BoundsStep == Inv /\ PlanFits /\ BoundsInv /\ [Next]_vars => BoundsInv'
<1> SUFFICES ASSUME Inv, PlanFits, BoundsInv, [Next]_vars PROVE BoundsInv'
    OBVIOUS
<1>0. TypeOK /\ WorkIsLive /\ StoreInv
    BY DEF Inv
<1>1. /\ call = Idle => work = <<>> /\ next = NoScope /\ ~mid
      /\ session = "closed" => call = Idle
    BY <1>0 DEF WorkIsLive
<1>2. CASE Open
  <2>1. /\ session = "closed" /\ session' = "open" /\ UNCHANGED <<work, next, fault>>
        /\ items' = Load
      BY <1>2 DEF Open, control
  <2> SUFFICES ASSUME ~fault, NEW s \in Scopes PROVE Cardinality(Staying(s)') <= Bounds[s]
      BY <2>1 DEF BoundsInv
  <2>2. DOMAIN stores[s] \in SUBSET Ids /\ Cardinality(DOMAIN stores[s]) <= Bounds[s]
      BY <1>0, <2>1 DEF BoundsInv, TypeOK, DataTypeOK, IsMap
  <2>3. \A y \in InScope(items', s) : y \in StoredIds /\ HolderOf(y) = s
      BY <2>1 DEF InScope, Load, NewEntry
  <2>4. InScope(items', s) \subseteq DOMAIN stores[s]
      BY <2>3, HolderHolds
  <2>5. Staying(s)' \in SUBSET DOMAIN stores[s]
      BY <2>4 DEF Staying
  <2> QED
      BY <2>2, <2>5, FewerFit
<1>3. CASE Close \/ Crash
  <2>1. session = "open" /\ End /\ (fault' \/ (call = Idle /\ UNCHANGED fault))
      BY <1>0, <1>3 DEF Close, Crash, TypeOK, ControlTypeOK
  <2> SUFFICES ASSUME ~fault, call = Idle, NEW s \in Scopes
               PROVE  Cardinality(DOMAIN stores'[s]) <= Bounds[s]
      BY <2>1 DEF BoundsInv, End, Empty
  <2>2. Cardinality(InScope(items, s)) <= Bounds[s] /\ InScope(items, s) \in SUBSET Ids
      BY <1>0, <1>1, <2>1, StayingIds, InScopeIds DEF BoundsInv, Swept
  <2>3. DOMAIN stores[s] \subseteq InScope(items, s)
      BY <1>0, <1>1, <2>1 DEF StoreInv, NoStrays, InScope
  <2>4. DOMAIN stores'[s] \subseteq DOMAIN stores[s]
      BY <2>1 DEF End, Empty
  <2>5. DOMAIN stores'[s] \in SUBSET InScope(items, s)
      BY <2>3, <2>4
  <2> QED
      BY <2>2, <2>5, FewerFit
<1>4. CASE Still
    BY <1>0, <1>4 DEF Still, BoundsInv, Swept, Staying, InScope, TypeOK, ControlTypeOK
<1>5. CASE Forgotten
  <2>1. \A s : InScope(items, s)' \subseteq InScope(items, s)
      BY <1>5 DEF Forgotten, InScope
  <2>2. \A s : Staying(s)' \subseteq Staying(s)
      BY <1>5, <2>1 DEF Forgotten, Staying
  <2> QED
      BY <1>5, <2>2, OthersStay DEF Forgotten
<1>6. CASE Planned
  <2>1. session = "open" /\ session' = "open" /\ UNCHANGED fault /\ next = NoScope
      BY <1>1, <1>6 DEF Planned
  <2> QED
      BY <1>6, <2>1, PlannedStays, OthersStay
<1>7. CASE MoveDelete \/ DropItem
  <2>1. session = "open" /\ session' = "open" /\ UNCHANGED <<next, fault>>
      BY <1>7, MoveEffect, DropEffect DEF OneDone
  <2>2. \A s \in Scopes : Swept(s)' => Swept(s)
      BY <2>1 DEF Swept
  <2> QED
      BY <1>7, <2>1, <2>2, DoneStays, OthersStay
<1>10. CASE CountMoves \/ Return
    BY <1>10 DEF CountMoves, Return, state, BoundsInv, Swept, Staying, InScope
<1>11. CASE EnforceBound
  <2>1. session = "open" /\ UNCHANGED <<session, fault>>
      BY <1>11, EnforceEffect
  <2> SUFFICES ASSUME ~fault, NEW s \in Scopes, Swept(s)'
               PROVE  Cardinality(Staying(s)') <= Bounds[s]
      BY <2>1 DEF BoundsInv
  <2>2. CASE Swept(s) /\ Staying(s)' \subseteq Staying(s)
    <3>1. Cardinality(Staying(s)) <= Bounds[s]
        BY <2>1, <2>2 DEF BoundsInv
    <3> QED
        BY <1>0, <2>2, <3>1, StayingIds, FewerFit
  <2> QED
      BY <1>11, <2>2, EnforceStays
<1>12. CASE StorageFails
    BY <1>12 DEF StorageFails, state, BoundsInv
<1> QED
    BY <1>2, <1>3, <1>4, <1>5, <1>6, <1>7, <1>10, <1>11, <1>12, StepKinds

LEMMA BoundsInvariance == Spec => []BoundsInv
<1>1. Init => BoundsInv
  <2> SUFFICES ASSUME Init, NEW s \in Scopes PROVE Cardinality(DOMAIN stores[s]) <= Bounds[s]
      BY DEF Init, BoundsInv, Empty
  <2>1. DOMAIN stores[s] = {} /\ Bounds[s] \in Nat
      BY ConfigAssumption DEF Init, Empty
  <2> QED
      BY <2>1, FS_EmptySet
<1> QED
    BY <1>1, BoundsStep, Invariance, PlanAlwaysFits, PTL DEF Spec

-----------------------------------------------------------------------------
(* How far a call moves an item *)

\* When a call begins the scopes are noted, and forgotten when it ends.
LEMMA RecordScopes ==
    ASSUME Record
    PROVE  /\ call' = Idle => before' = Empty /\ given' = Empty
           /\ call = Idle /\ call' # Idle =>
                 /\ before' = ScopesOf(items)
                 /\ given' = Restrict(ScopesOf(items'), DOMAIN items' \ DOMAIN items)
           /\ call # Idle /\ call' # Idle => before' = before /\ given' = given
BY DEF Record, Begins

\* What OneTierPerQuery and OneStepDown need to be inductive: the items that a
\* query still has to promote are where they were when it began, and an item
\* that went down a tier has not arrived by promotion, so that it is dropped
\* rather than demoted again.
TierInv ==
    /\ \A id \in DOMAIN before : before[id] \in Scopes
    /\ call = Idle => DOMAIN before = {}
    /\ OneTierPerQuery
    /\ call = "query" /\ tally.stat = "items_promoted" =>
          \A i \in DOMAIN work :
              work[i].id \in DOMAIN before => items[work[i].id].scope = before[work[i].id]
    /\ DemotionTarget = "OneStepThenDrop" /\ call # "demote" =>
          \A id \in DOMAIN items \cap DOMAIN before :
              \/ Durability(items[id].scope) >= Durability(before[id])
              \/ /\ items[id].arrival # "Promoted"
                 /\ Durability(items[id].scope) >= Durability(before[id]) - 1

LEMMA TierStep == Inv /\ PlanFits /\ TierInv /\ [Next /\ Record]_hvars => TierInv'
<1> SUFFICES ASSUME Inv, PlanFits, TierInv, [Next /\ Record]_hvars PROVE TierInv'
    OBVIOUS
<1>0. TypeOK /\ WorkIsLive
    BY DEF Inv
<1>1. CASE UNCHANGED hvars
    BY <1>1 DEF hvars, history, vars, state, control, TierInv, OneTierPerQuery
<1> SUFFICES ASSUME Next, Record PROVE TierInv'
    BY <1>1
<1>2. /\ \A id \in DOMAIN items : items[id].scope \in Scopes
      /\ \A s \in Scopes : Durability(s) \in Int
    BY <1>0, ItemTypes, Tiers
<1>3. ASSUME call' = Idle PROVE TierInv'
  <2>1. DOMAIN before' = {}
      BY <1>3, RecordScopes DEF Empty
  <2>2. call' # "query"
      BY <1>3 DEF Idle
  <2> QED
      BY <2>1, <2>2 DEF TierInv, OneTierPerQuery
<1>4. CASE Open
    BY <1>0, <1>3, <1>4 DEF Open, control, WorkIsLive
<1>5. CASE Close \/ Crash
    BY <1>3, <1>5 DEF Close, Crash, End
<1>6. ASSUME call # Idle, UNCHANGED <<items, call>>,
             UNCHANGED <<work, tally>> \/ tally'.stat = "none"
      PROVE  TierInv'
  <2>1. before' = before
      BY <1>6, RecordScopes
  <2> QED
      BY <1>6, <2>1 DEF TierInv, OneTierPerQuery
<1>7. CASE Still
    BY <1>3, <1>6, <1>7 DEF Still
<1>8. CASE Forgotten
    BY <1>3, <1>8 DEF Forgotten
<1>9. CASE Planned
  <2>1. call = Idle /\ call' # Idle
      BY <1>9 DEF Planned, Operations, Idle
  <2>2. DOMAIN before' = DOMAIN items /\ \A id \in DOMAIN items : before'[id] = items[id].scope
      BY <2>1, RecordScopes DEF ScopesOf
  <2>3. /\ DOMAIN items \subseteq DOMAIN items'
        /\ \A id \in DOMAIN items : items'[id].scope = items[id].scope
      BY <1>9 DEF Planned
  <2> QED
      BY <1>2, <2>1, <2>2, <2>3 DEF TierInv, OneTierPerQuery
<1>10. ASSUME OneDone, DOMAIN items' \subseteq DOMAIN items,
              \A y \in DOMAIN items' : y # Task.id => items'[y] = items[y],
              Task.id \in DOMAIN items' \cap DOMAIN before =>
                 /\ Task.to \in Scopes /\ items'[Task.id].scope = Task.to
                 /\ items'[Task.id].arrival = Task.arrival
       PROVE  TierInv'
  <2>1. /\ UNCHANGED <<call, tally, next>> /\ before' = before
        /\ 1 \in DOMAIN work /\ Task = work[1]
      BY <1>10, RecordScopes DEF OneDone
  <2>2. call = "query" /\ tally.stat = "items_promoted" =>
          \A i \in DOMAIN work' :
              work'[i].id \in DOMAIN before => items'[work'[i].id].scope = before[work'[i].id]
    <3> SUFFICES ASSUME call = "query", tally.stat = "items_promoted",
                        NEW i \in DOMAIN work', work'[i].id \in DOMAIN before
                 PROVE  items'[work'[i].id].scope = before[work'[i].id]
        OBVIOUS
    <3>1. i + 1 \in DOMAIN work /\ work'[i] = work[i + 1] /\ work[i + 1].id # Task.id
        BY <1>10 DEF OneDone
    <3>2. i \in DOMAIN work' /\ AreLive(work, items)'
        BY <1>0, WorkStep DEF WorkIsLive
    <3>3. work'[i].id \in DOMAIN items'
        BY <3>2 DEF AreLive
    <3> QED
        BY <1>10, <3>1, <3>3 DEF TierInv
  <2>3. ASSUME NEW id \in DOMAIN items' \cap DOMAIN before, id = Task.id
        PROVE  /\ call = "query" =>
                     Durability(items'[id].scope) <= Durability(before[id]) + 1
               /\ DemotionTarget = "OneStepThenDrop" /\ call # "demote" =>
                     \/ Durability(items'[id].scope) >= Durability(before[id])
                     \/ /\ items'[id].arrival # "Promoted"
                        /\ Durability(items'[id].scope) >= Durability(before[id]) - 1
    <3>1. /\ Task.to \in Scopes /\ Task.to # NoScope
          /\ items'[id].scope = Task.to /\ items'[id].arrival = Task.arrival
        BY <1>10, <2>3, Tiers
    <3>2. id \in DOMAIN items /\ items[id].scope \in Scopes /\ before[id] \in Scopes
        BY <1>2, <1>10 DEF TierInv
    <3>3. /\ Durability(Task.to) \in Int /\ Durability(items[id].scope) \in Int
          /\ Durability(before[id]) \in Int
        BY <1>2, <3>1, <3>2
    <3>4. Fits(Task, call, tally.stat, next, items)
        BY <2>1 DEF PlanFits
    <3>5. CASE tally.stat = "items_promoted"
      <4>1. Durability(items[id].scope) < Durability(Task.to)
          BY <2>3, <3>1, <3>4, <3>5 DEF Fits
      <4>2. call = "query" => /\ items[id].scope = before[id]
                              /\ Durability(Task.to) <= Durability(items[id].scope) + 1
          BY <2>1, <2>3, <3>1, <3>4, <3>5 DEF Fits, TierInv
      <4>3. DemotionTarget = "OneStepThenDrop" /\ call # "demote" =>
               Durability(items[id].scope) >= Durability(before[id]) - 1
          BY <3>2, <3>3 DEF TierInv
      <4> QED
          BY <3>1, <3>3, <4>1, <4>2, <4>3
    <3>6. CASE tally.stat # "items_promoted"
      <4>1. Durability(Task.to) < Durability(items[id].scope)
          BY <2>3, <3>1, <3>4, <3>6 DEF Fits
      <4>2. call = "query" => Durability(items[id].scope) <= Durability(before[id]) + 1
          BY <3>2 DEF TierInv, OneTierPerQuery
      <4>3. DemotionTarget = "OneStepThenDrop" /\ call # "demote" =>
               /\ items[id].arrival = "Promoted" /\ Task.arrival = "Demoted"
               /\ Durability(Task.to) = Durability(items[id].scope) - 1
          BY <2>3, <3>1, <3>4, <3>6 DEF Fits
      <4>4. DemotionTarget = "OneStepThenDrop" /\ call # "demote" =>
               Durability(items[id].scope) >= Durability(before[id])
          BY <3>2, <4>3 DEF TierInv
      <4> QED
          BY <3>1, <3>3, <4>1, <4>2, <4>3, <4>4
    <3> QED
        BY <3>5, <3>6
  <2>4. ASSUME NEW id \in DOMAIN items' \cap DOMAIN before, id # Task.id
        PROVE  items'[id] = items[id] /\ id \in DOMAIN items \cap DOMAIN before
      BY <1>10, <2>4
  <2>5. OneTierPerQuery'
      BY <2>1, <2>3, <2>4 DEF TierInv, OneTierPerQuery
  <2> QED
      BY <2>1, <2>2, <2>3, <2>4, <2>5 DEF TierInv
<1>11. CASE MoveDelete
    BY <1>10, <1>11, MoveEffect
<1>12. CASE DropItem
    BY <1>10, <1>12, DropEffect
<1>13. CASE CountMoves
    BY <1>0, <1>6, <1>13 DEF CountMoves, WorkIsLive, NoTally
<1>14. CASE EnforceBound
  <2>1. call # Idle /\ UNCHANGED <<items, call>> /\ tally' = NoTally
      BY <1>14, EnforceEffect
  <2> QED
      BY <1>6, <2>1 DEF NoTally
<1>15. CASE Return \/ StorageFails
    BY <1>3, <1>15 DEF Return, StorageFails
<1> QED
    BY <1>4, <1>5, <1>7, <1>8, <1>9, <1>11, <1>12, <1>13, <1>14, <1>15, StepKinds

\* What is true of every step of a Session is true of those that are recorded.
LEMMA HistoryIsSpec == HistorySpec => Spec
<1>1. HInit => Init
    BY DEF HInit
<1>2. [Next /\ Record]_hvars => [Next]_vars
    BY DEF hvars
<1> QED
    BY <1>1, <1>2, PTL DEF HistorySpec, Spec

LEMMA TierInvariance == HistorySpec => []TierInv
<1>1. HInit => TierInv
    BY DEF HInit, Init, TierInv, OneTierPerQuery, Empty, Idle
<1> QED
    BY <1>1, TierStep, HistoryIsSpec, Invariance, PlanAlwaysFits, PTL DEF HistorySpec

\* A query's automatic promotion takes no item up two tiers, although both of
\* its rules and the eviction cascade run within one call.
THEOREM QueriesPromoteOneTier == HistorySpec => []OneTierPerQuery
<1>1. TierInv => OneTierPerQuery
    BY DEF TierInv
<1> QED
    BY <1>1, TierInvariance, PTL

\* Under OneStepThenDrop no cascade of evictions, and no policy eviction, takes
\* an item down two tiers within a call.
THEOREM EvictionsGoOneStep == HistorySpec => []OneStepDown
<1>1. Inv /\ TierInv => OneStepDown
  <2> SUFFICES ASSUME Inv, TierInv, DemotionTarget = "OneStepThenDrop", call # "demote",
                      NEW id \in DOMAIN items \cap DOMAIN before
               PROVE  Durability(items[id].scope) >= Durability(before[id]) - 1
      BY DEF OneStepDown
  <2>1. items[id].scope \in Scopes /\ before[id] \in Scopes
      BY ItemTypes DEF Inv, TierInv
  <2>2. Durability(items[id].scope) \in Int /\ Durability(before[id]) \in Int
      BY <2>1, Tiers
  <2> QED
      BY <2>2 DEF TierInv
<1> QED
    BY <1>1, TierInvariance, HistoryIsSpec, Invariance, PTL

-----------------------------------------------------------------------------
(* The bounds of the scopes that a call has put items in *)

\* What a scope held when the running call began.
Held(s) == {id \in DOMAIN before : before[id] = s}

\* What WithinBounds needs when a call may have been cut short: a scope that
\* has had its turn is within its bound once the plan is carried out, or the
\* call has put nothing in it.
SweptInv ==
    call # Idle =>
        \A s \in Scopes : Swept(s) =>
            Cardinality(Staying(s)) <= Bounds[s] \/ Staying(s) \subseteq Held(s)

\* A scope that nobody joins stays as it is.
LEMMA SweptStays ==
    ASSUME Inv, SweptInv, call # Idle, before' = before, NEW s \in Scopes,
           Swept(s), Staying(s)' \subseteq Staying(s)
    PROVE  Cardinality(Staying(s)') <= Bounds[s] \/ Staying(s)' \subseteq Held(s)'
<1>1. Held(s)' = Held(s)
    BY DEF Held
<1>2. Staying(s) \in SUBSET Ids /\ Staying(s)' \in SUBSET Staying(s)
    BY StayingIds DEF Inv
<1>3. CASE Cardinality(Staying(s)) <= Bounds[s]
    BY <1>2, <1>3, FewerFit
<1>4. CASE Staying(s) \subseteq Held(s)
    BY <1>1, <1>2, <1>4
<1> QED
    BY <1>3, <1>4 DEF SweptInv

LEMMA SweptStep == Inv /\ PlanFits /\ SweptInv /\ [Next /\ Record]_hvars => SweptInv'
<1> SUFFICES ASSUME Inv, PlanFits, SweptInv, [Next /\ Record]_hvars PROVE SweptInv'
    OBVIOUS
<1>0. TypeOK /\ WorkIsLive
    BY DEF Inv
<1>1. CASE UNCHANGED hvars
    BY <1>1 DEF hvars, history, vars, state, control, SweptInv, Swept, Held, Staying, InScope
<1> SUFFICES ASSUME Next, Record, call' # Idle, NEW s \in Scopes, Swept(s)'
             PROVE  Cardinality(Staying(s)') <= Bounds[s] \/ Staying(s)' \subseteq Held(s)'
    BY <1>1 DEF SweptInv
<1>2. call # Idle => before' = before
    BY RecordScopes
\* Steps that leave the index and the plan alone.
<1>3. ASSUME UNCHANGED <<items, call, work, next>>
      PROVE  Cardinality(Staying(s)') <= Bounds[s] \/ Staying(s)' \subseteq Held(s)'
  <2>1. Swept(s) /\ Staying(s)' = Staying(s)
      BY <1>3 DEF Swept, Staying, InScope
  <2> QED
      BY <1>2, <1>3, <2>1, SweptStays
<1>4. CASE Still
    BY <1>3, <1>4 DEF Still
<1>5. CASE CountMoves
    BY <1>3, <1>5 DEF CountMoves
<1>6. CASE Planned
  <2>1. work = <<>> /\ call = Idle
      BY <1>0, <1>6 DEF Planned, WorkIsLive
  <2>2. before' = ScopesOf(items)
      BY <2>1, RecordScopes
  <2>3. Held(s)' = InScope(items, s)
      BY <2>2 DEF Held, InScope, ScopesOf
  <2>4. Staying(s)' \subseteq Staying(s) /\ Staying(s) = InScope(items, s)
      BY <1>0, <1>6, <2>1, PlannedStays, StayingIds
  <2> QED
      BY <2>3, <2>4
<1>7. CASE MoveDelete \/ DropItem
  <2>1. call # Idle /\ next' = next
      BY <1>7, MoveEffect, DropEffect DEF OneDone
  <2>2. Swept(s)
      BY <2>1 DEF Swept
  <2> QED
      BY <1>2, <1>7, <2>1, <2>2, DoneStays, SweptStays
<1>8. CASE EnforceBound
  <2>1. call # Idle
      BY <1>8, EnforceEffect
  <2> QED
      BY <1>2, <1>8, <2>1, EnforceStays, SweptStays
<1>9. ~(Open \/ Close \/ Crash \/ Forgotten \/ Return \/ StorageFails)
    BY <1>0 DEF Open, control, WorkIsLive, Close, Crash, End, Forgotten, Return, StorageFails
<1> QED
    BY <1>4, <1>5, <1>6, <1>7, <1>8, <1>9, StepKinds

\* A call that returns leaves the scopes it put items in, and all colder ones,
\* within their bounds, whatever it promoted, demoted or added, however the
\* evictions cascade, and whatever earlier calls left behind when they were cut
\* short; and every scope, as long as none was.
THEOREM BoundsHold == HistorySpec => []WithinBounds
<1>1. HInit => SweptInv
    BY DEF HInit, Init, SweptInv
<1>2. Inv /\ BoundsInv /\ SweptInv => WithinBounds
  <2> SUFFICES ASSUME Inv, BoundsInv, SweptInv, Done, NEW s \in Scopes
               PROVE  \/ Cardinality(InScope(items, s)) <= Bounds[s]
                      \/ fault /\ InScope(items, s) \subseteq Held(s)
      BY DEF WithinBounds, Held
  <2>1. work = <<>> /\ call # Idle /\ TypeOK /\ session = "open" /\ Swept(s)
      BY DEF Done, Inv, WorkIsLive, TypeOK, ControlTypeOK, Swept
  <2>2. Staying(s) = InScope(items, s)
      BY <2>1, StayingIds
  <2>3. Cardinality(InScope(items, s)) <= Bounds[s] \/ InScope(items, s) \subseteq Held(s)
      BY <2>1, <2>2 DEF SweptInv
  <2>4. ~fault => Cardinality(InScope(items, s)) <= Bounds[s]
      BY <2>1, <2>2 DEF BoundsInv
  <2> QED
      BY <2>3, <2>4
<1> QED
    BY <1>1, <1>2, SweptStep, HistoryIsSpec, Invariance, PlanAlwaysFits, BoundsInvariance,
       PTL DEF HistorySpec

-----------------------------------------------------------------------------
(* What the counters say *)

\* Moves of the running call that its tally will count under f at the end.
Uncounted(f) == IF tally.stat = f THEN tally.n - Len(work) ELSE 0

\* A query that has been counted and has not returned yet.
Promoting == IF call = "query" THEN 1 ELSE 0

\* What CountersAreRight needs to be inductive: within a call, the counters
\* are right once what is already done and still uncounted is added, and a
\* query that is still promoting has been counted and not yet returned; after a
\* call that was cut short they err on one side.
CountInv ==
    /\ answered \in Nat /\ moved.up \in Nat /\ moved.down \in Nat
    /\ session = "closed" =>
          /\ DOMAIN items = {} /\ stats = NoStats
          /\ answered = 0 /\ moved.up = 0 /\ moved.down = 0
    /\ tally.stat # "none" => Len(work) <= tally.n
    /\ stats.queries_served >= answered + Promoting
    /\ stats.items_promoted + Uncounted("items_promoted") <= moved.up
    /\ stats.items_demoted + Uncounted("items_demoted") <= moved.down
    /\ ~fault =>
          /\ stats.queries_served = answered + Promoting
          /\ stats.items_promoted + Uncounted("items_promoted") = moved.up
          /\ stats.items_demoted + Uncounted("items_demoted") = moved.down

LEMMA NoneMoved ==
    ASSUME TypeOK, \A id \in DOMAIN items \cap DOMAIN items' : items'[id].scope = items[id].scope
    PROVE  Moved(<) = 0 /\ Moved(>) = 0
<1>1. \A id \in DOMAIN items : Durability(items[id].scope) \in Int
    BY ItemTypes, Tiers
<1>2. /\ {id \in DOMAIN items \cap DOMAIN items' :
             Durability(items[id].scope) < Durability(items'[id].scope)} = {}
      /\ {id \in DOMAIN items \cap DOMAIN items' :
             Durability(items[id].scope) > Durability(items'[id].scope)} = {}
    BY <1>1
<1> QED
    BY <1>2, FS_EmptySet DEF Moved

LEMMA OneMoved ==
    ASSUME Inv, MoveDelete
    PROVE  /\ Durability(items[Task.id].scope) < Durability(Task.to) =>
                 Moved(<) = 1 /\ Moved(>) = 0
           /\ Durability(Task.to) < Durability(items[Task.id].scope) =>
                 Moved(<) = 0 /\ Moved(>) = 1
<1> DEFINE up == {id \in DOMAIN items \cap DOMAIN items' :
                     Durability(items[id].scope) < Durability(items'[id].scope)}
           down == {id \in DOMAIN items \cap DOMAIN items' :
                     Durability(items[id].scope) > Durability(items'[id].scope)}
<1>1. Moved(<) = Cardinality(up) /\ Moved(>) = Cardinality(down)
    BY DEF Moved
<1>2. /\ \A id \in DOMAIN items : Durability(items[id].scope) \in Int
      /\ \A s \in Scopes : Durability(s) \in Int
    BY ItemTypes, Tiers DEF Inv
<1>3. /\ DOMAIN items' = DOMAIN items /\ Task.id \in DOMAIN items /\ Task.to \in Scopes
      /\ items'[Task.id].scope = Task.to
      /\ \A y \in DOMAIN items : y # Task.id => items'[y] = items[y]
    BY MoveEffect
<1>4. /\ Durability(items[Task.id].scope) < Durability(Task.to) => up = {Task.id} /\ down = {}
      /\ Durability(Task.to) < Durability(items[Task.id].scope) => up = {} /\ down = {Task.id}
    BY <1>2, <1>3
<1> HIDE DEF up, down
<1> QED
    BY <1>1, <1>4, FS_EmptySet, FS_Singleton

LEMMA RecordCounts ==
    ASSUME Inv, Record
    PROVE  /\ session' = "closed" => answered' = 0 /\ moved'.up = 0 /\ moved'.down = 0
           /\ session' # "closed" =>
                 /\ moved'.up = moved.up + Moved(<)
                 /\ moved'.down = moved.down + Moved(>)
                 /\ call = "query" /\ Return => answered' = answered + 1
                 /\ ~(call = "query" /\ Return) => answered' = answered
<1> DEFINE up == Moved(<)
           down == Moved(>)
<1>1. Return => session' # "closed"
    BY DEF Return, Inv, WorkIsLive
<1>2. session' = "closed" => answered' = 0 /\ moved' = [up |-> 0, down |-> 0]
    BY <1>1 DEF Record
<1>3. session' # "closed" => moved' = [up |-> moved.up + up, down |-> moved.down + down]
    BY DEF Record
<1>4. session' # "closed" =>
         /\ call = "query" /\ Return => answered' = answered + 1
         /\ ~(call = "query" /\ Return) => answered' = answered
    BY DEF Record
<1> HIDE DEF up, down
<1>5. session' # "closed" => moved'.up = moved.up + up /\ moved'.down = moved.down + down
    BY <1>3
<1>6. session' = "closed" => moved'.up = 0 /\ moved'.down = 0
    BY <1>2
<1> QED
    BY <1>2, <1>4, <1>5, <1>6, Zenon DEF up, down

LEMMA SameMoves ==
    ASSUME Inv, Record, session' # "closed", moved.up \in Nat, moved.down \in Nat,
           \A id \in DOMAIN items \cap DOMAIN items' : items'[id].scope = items[id].scope
    PROVE  moved'.up = moved.up /\ moved'.down = moved.down
<1>1. moved'.up = moved.up + 0 /\ moved'.down = moved.down + 0
    BY NoneMoved, RecordCounts, Zenon DEF Inv
<1> QED
    BY <1>1

LEMMA CountStep == Inv /\ PlanFits /\ CountInv /\ [Next /\ Record]_hvars => CountInv'
<1> SUFFICES ASSUME Inv, PlanFits, CountInv, [Next /\ Record]_hvars PROVE CountInv'
    OBVIOUS
<1>0. TypeOK /\ WorkIsLive /\ NoTally.stat = "none"
    BY DEF Inv, NoTally
<1>1. CASE UNCHANGED hvars
    BY <1>1 DEF hvars, history, vars, state, control, CountInv, Uncounted, Promoting
<1> SUFFICES ASSUME Next, Record PROVE CountInv'
    BY <1>1
<1>2. /\ call = Idle => work = <<>> /\ tally = NoTally
      /\ session = "closed" => call = Idle
      /\ Idle # "query"
    BY <1>0 DEF WorkIsLive, Idle
<1>3. /\ answered \in Nat /\ moved.up \in Nat /\ moved.down \in Nat
      /\ stats.queries_served \in Nat /\ stats.items_promoted \in Nat
      /\ stats.items_demoted \in Nat
    BY <1>0 DEF CountInv, TypeOK, DataTypeOK, NoStats
<1>4. tally.n \in Nat /\ Len(work) \in Nat /\ tally.stat \in {"none", "items_promoted", "items_demoted"}
    BY <1>0 DEF TypeOK, ControlTypeOK, Tallies
<1>5. TypeOK'
    BY <1>0, TypeStep DEF vars
<1>6. tally'.n \in Nat /\ Len(work') \in Nat
    BY <1>5 DEF TypeOK, ControlTypeOK, Tallies
<1>7. Return => call' = Idle /\ call # Idle
    BY DEF Return
<1>8. /\ NoStats.queries_served = 0 /\ NoStats.items_promoted = 0 /\ NoStats.items_demoted = 0
    BY DEF NoStats
\* Steps that leave the counters alone.
<1>9. ASSUME session' # "closed", call' = call, fault' = fault,
             \A id \in DOMAIN items \cap DOMAIN items' : items'[id].scope = items[id].scope,
             stats'.queries_served = stats.queries_served,
             stats'.items_promoted = stats.items_promoted,
             stats'.items_demoted = stats.items_demoted,
             UNCHANGED <<tally, work>> \/ (tally = NoTally /\ tally' = NoTally)
      PROVE  CountInv'
  <2>1. moved'.up = moved.up /\ moved'.down = moved.down /\ answered' = answered
      BY <1>3, <1>7, <1>9, SameMoves, RecordCounts
  <2>2. /\ Uncounted("items_promoted")' = Uncounted("items_promoted")
        /\ Uncounted("items_demoted")' = Uncounted("items_demoted")
      BY <1>0, <1>9 DEF Uncounted
  <2> QED
      BY <1>0, <1>3, <1>9, <2>1, <2>2 DEF CountInv, Promoting
<1>10. CASE Open
  <2>1. /\ session = "closed" /\ session' = "open" /\ UNCHANGED <<stats, call, tally, work, fault>>
        /\ DOMAIN items = {}
      BY <1>10 DEF Open, control, CountInv
  <2> QED
      BY <1>9, <2>1
<1>11. CASE Close \/ Crash
  <2>1. session' = "closed" /\ stats' = NoStats /\ call' = Idle /\ tally' = NoTally /\ DOMAIN items' = {}
      BY <1>11 DEF Close, Crash, End, Empty
  <2>2. answered' = 0 /\ moved'.up = 0 /\ moved'.down = 0
      BY <2>1, RecordCounts
  <2> QED
      BY <1>0, <1>2, <1>8, <2>1, <2>2 DEF CountInv, Uncounted, Promoting
<1>12. CASE Still
  <2>1. CASE session = "closed"
    <3>1. answered' = answered /\ moved'.up = moved.up /\ moved'.down = moved.down
        BY <1>12, <2>1, RecordCounts DEF Still, CountInv
    <3>2. UNCHANGED <<session, items, stats, call, tally, work, fault>>
        BY <1>12 DEF Still
    <3> QED
        BY <3>1, <3>2 DEF CountInv, Uncounted, Promoting
  <2>2. CASE session # "closed"
      BY <1>9, <1>12, <2>2 DEF Still
  <2> QED
      BY <2>1, <2>2
<1>13. CASE Forgotten
  <2>1. /\ session' # "closed" /\ UNCHANGED <<stats, call, tally, work, fault>>
        /\ \A id \in DOMAIN items' : items'[id] = items[id]
      BY <1>13 DEF Forgotten
  <2> QED
      BY <1>9, <2>1
<1>14. CASE Planned
  <2>1. /\ session' = "open" /\ call = Idle /\ UNCHANGED fault /\ tally = NoTally
        /\ \A id \in DOMAIN items : items'[id].scope = items[id].scope
        /\ stats'.items_promoted = stats.items_promoted
        /\ stats'.items_demoted = stats.items_demoted
        /\ stats'.queries_served = stats.queries_served + IF call' = "query" THEN 1 ELSE 0
        /\ tally'.stat # "none" => tally'.n = Len(work')
      BY <1>2, <1>14 DEF Planned
  <2>2. moved'.up = moved.up /\ moved'.down = moved.down /\ answered' = answered
      BY <1>3, <1>7, <2>1, SameMoves, RecordCounts
  <2>3. \A f \in {"items_promoted", "items_demoted"} : Uncounted(f) = 0 /\ Uncounted(f)' = 0
      BY <1>0, <1>6, <2>1 DEF Uncounted
  <2> QED
      BY <1>2, <1>3, <2>1, <2>2, <2>3 DEF CountInv, Promoting
<1>15. CASE MoveDelete
  <2>1. /\ 1 \in DOMAIN work /\ Task = work[1] /\ Task.to # NoScope
        /\ session' = "open" /\ call # Idle /\ UNCHANGED <<session, call, tally, fault>>
        /\ Len(work') = Len(work) - 1
      BY <1>15, MoveEffect, Tiers DEF OneDone
  <2>2. Fits(Task, call, tally.stat, next, items)
      BY <2>1 DEF PlanFits
  <2>3. tally.stat = "none" <=> tally = NoTally
      BY <1>0 DEF PlanFits
  <2>4. /\ stats'.queries_served = stats.queries_served
        /\ stats'.items_promoted = stats.items_promoted
        /\ stats'.items_demoted = stats.items_demoted + IF tally.stat = "none" THEN 1 ELSE 0
    <3>1. stats \in [DOMAIN NoStats -> Nat]
        BY <1>0 DEF TypeOK, DataTypeOK
    <3>2. stats' = [stats EXCEPT !.items_demoted = IF tally = NoTally THEN @ + 1 ELSE @]
        BY <1>15 DEF MoveDelete
    <3> QED
        BY <1>3, <2>3, <3>1, <3>2 DEF NoStats
  <2>5. answered' = answered
      BY <1>7, <2>1, RecordCounts
  <2>8. Promoting' = Promoting /\ Promoting \in Nat
      BY <2>1 DEF Promoting
  <2>9. tally'.stat # "none" => Len(work') <= tally'.n
      BY <1>4, <2>1 DEF CountInv
  <2>10. /\ answered' \in Nat /\ session' # "closed" /\ fault' = fault
         /\ tally'.stat # "none" => Len(work') <= tally'.n
         /\ stats'.queries_served >= answered' + Promoting'
         /\ ~fault => stats'.queries_served = answered' + Promoting'
      BY <2>1, <2>4, <2>5, <2>8, <2>9 DEF CountInv
  <2>11. /\ stats'.items_promoted = stats.items_promoted
         /\ stats'.items_demoted = stats.items_demoted + IF tally.stat = "none" THEN 1 ELSE 0
      BY <2>4
  <2>6. CASE tally.stat = "items_promoted"
    <3>1. Durability(items[Task.id].scope) < Durability(Task.to)
        BY <2>1, <2>2, <2>6 DEF Fits
    <3>2. moved'.up = moved.up + 1 /\ moved'.down = moved.down + 0
        BY <1>15, <2>1, <3>1, OneMoved, RecordCounts, Zenon
    <3>3. /\ Uncounted("items_promoted")' = Uncounted("items_promoted") + 1
          /\ Uncounted("items_demoted")' = 0 /\ Uncounted("items_demoted") = 0
          /\ Uncounted("items_promoted") \in Int
        BY <1>4, <2>1, <2>6 DEF Uncounted
    <3>4. stats'.items_demoted = stats.items_demoted
        BY <1>3, <2>4, <2>6
    <3>5. moved'.down = moved.down
        BY <1>3, <3>2
    <3>6. moved'.up \in Nat /\ moved'.down \in Nat
        BY <1>3, <3>2, <3>3, <3>4, <3>5
    <3>7. /\ stats'.items_promoted + Uncounted("items_promoted")' <= moved'.up
          /\ ~fault => stats'.items_promoted + Uncounted("items_promoted")' = moved'.up
      <4>1. /\ stats.items_promoted + Uncounted("items_promoted") <= moved.up
            /\ ~fault => stats.items_promoted + Uncounted("items_promoted") = moved.up
          BY DEF CountInv
      <4> QED
          BY <1>3, <2>11, <3>2, <3>3, <4>1
    <3>8. /\ stats'.items_demoted + Uncounted("items_demoted")' <= moved'.down
          /\ ~fault => stats'.items_demoted + Uncounted("items_demoted")' = moved'.down
        BY <1>3, <2>6, <2>11, <3>2, <3>3, <3>4, <3>5 DEF CountInv
    <3> QED
        BY <2>10, <3>6, <3>7, <3>8 DEF CountInv
  <2>7. CASE tally.stat # "items_promoted"
    <3>1. Durability(Task.to) < Durability(items[Task.id].scope)
        BY <2>1, <2>2, <2>7 DEF Fits
    <3>2. moved'.up = moved.up + 0 /\ moved'.down = moved.down + 1
        BY <1>15, <2>1, <3>1, OneMoved, RecordCounts, Zenon
    <3>3. Uncounted("items_promoted")' = 0 /\ Uncounted("items_promoted") = 0
        BY <2>1, <2>7 DEF Uncounted
    <3>4. /\ Uncounted("items_demoted")' =
                Uncounted("items_demoted") + IF tally.stat = "none" THEN 0 ELSE 1
          /\ Uncounted("items_demoted") \in Int
        BY <1>4, <2>1, <2>7 DEF Uncounted
    <3>6. moved'.up \in Nat /\ moved'.down \in Nat
        BY <1>3, <3>2, <3>3, <3>4
    <3>7. /\ stats'.items_promoted + Uncounted("items_promoted")' <= moved'.up
          /\ ~fault => stats'.items_promoted + Uncounted("items_promoted")' = moved'.up
        BY <1>3, <2>11, <3>2, <3>3, <3>4 DEF CountInv
    <3>8. /\ stats'.items_demoted + Uncounted("items_demoted")' <= moved'.down
          /\ ~fault => stats'.items_demoted + Uncounted("items_demoted")' = moved'.down
      <4>1. /\ stats.items_demoted + Uncounted("items_demoted") <= moved.down
            /\ ~fault => stats.items_demoted + Uncounted("items_demoted") = moved.down
          BY DEF CountInv
      <4> QED
          BY <1>3, <2>11, <3>2, <3>4, <4>1
    <3> QED
        BY <2>10, <3>6, <3>7, <3>8 DEF CountInv
  <2> QED
      BY <2>6, <2>7
<1>16. CASE DropItem
  <2>1. /\ 1 \in DOMAIN work /\ Task = work[1] /\ Task.to = NoScope
        /\ session' = "open" /\ call # Idle /\ UNCHANGED <<session, call, tally, fault>>
        /\ \A y \in DOMAIN items' : items'[y] = items[y]
      BY <1>16, DropEffect DEF OneDone
  <2>2. tally = NoTally
      BY <2>1 DEF PlanFits, Fits
  <2>3. /\ stats'.queries_served = stats.queries_served
        /\ stats'.items_promoted = stats.items_promoted
        /\ stats'.items_demoted = stats.items_demoted
      BY <1>0, <1>16 DEF DropItem, TypeOK, DataTypeOK, NoStats
  <2> QED
      BY <1>9, <2>1, <2>2, <2>3
<1>17. CASE CountMoves
  <2>1. /\ work = <<>> /\ work' = <<>> /\ tally # NoTally /\ tally' = NoTally
        /\ stats' = [stats EXCEPT ![tally.stat] = @ + tally.n]
        /\ UNCHANGED <<session, items, call, fault>>
      BY <1>17 DEF CountMoves
  <2>2. session' # "closed"
      BY <1>2, <2>1
  <2>3. moved'.up = moved.up /\ moved'.down = moved.down /\ answered' = answered
      BY <1>2, <1>3, <1>7, <2>1, <2>2, SameMoves, RecordCounts
  <2>4. tally.stat \in {"items_promoted", "items_demoted"}
      BY <1>4, <2>1 DEF PlanFits
  <2>5. /\ stats'.queries_served = stats.queries_served
        /\ stats'.items_promoted =
              stats.items_promoted + IF tally.stat = "items_promoted" THEN tally.n ELSE 0
        /\ stats'.items_demoted =
              stats.items_demoted + IF tally.stat = "items_demoted" THEN tally.n ELSE 0
    <3>1. stats \in [DOMAIN NoStats -> Nat]
        BY <1>0 DEF TypeOK, DataTypeOK
    <3> QED
        BY <1>3, <2>1, <2>4, <3>1 DEF NoStats
  <2>6. \A f \in {"items_promoted", "items_demoted"} :
           /\ Uncounted(f) = (IF tally.stat = f THEN tally.n ELSE 0)
           /\ Uncounted(f)' = 0
      BY <1>0, <1>4, <2>1 DEF Uncounted
  <2> QED
      BY <1>0, <1>3, <1>4, <2>1, <2>2, <2>3, <2>5, <2>6 DEF CountInv, Promoting
<1>18. CASE EnforceBound
  <2>1. /\ session = "open" /\ tally = NoTally /\ tally' = NoTally
        /\ UNCHANGED <<session, items, stats, call, fault>>
      BY <1>18, EnforceEffect
  <2> QED
      BY <1>9, <2>1
<1>19. CASE Return
  <2>1. /\ call # Idle /\ call' = Idle /\ tally = NoTally
        /\ UNCHANGED <<session, items, stats, tally, work, fault>> /\ session' # "closed"
      BY <1>2, <1>19 DEF Return, state
  <2>2. moved'.up = moved.up /\ moved'.down = moved.down
      BY <1>3, <2>1, SameMoves
  <2>3. /\ call = "query" => answered' = answered + 1
        /\ call # "query" => answered' = answered
      BY <1>19, <2>1, RecordCounts, Zenon
  <2> QED
      BY <1>2, <1>3, <2>1, <2>2, <2>3 DEF CountInv, Uncounted, Promoting
<1>20. CASE StorageFails
  <2>1. fault' /\ UNCHANGED <<session, items, stats>> /\ session' # "closed" /\ call # Idle
      BY <1>2, <1>20 DEF StorageFails, state
  <2>2. moved'.up = moved.up /\ moved'.down = moved.down
      BY <1>3, <2>1, SameMoves
  <2>3. ~Return
      BY <1>20 DEF StorageFails, Return
  <2>4. answered' = answered
      BY <2>1, <2>3, RecordCounts, Zenon
  <2>5. call' # "query" /\ tally' = NoTally
      BY <1>2, <1>20 DEF StorageFails
  <2>6. \A f \in {"items_promoted", "items_demoted"} :
           /\ Uncounted(f)' = 0
           /\ Uncounted(f) \in Nat
      BY <1>0, <1>4, <2>5 DEF CountInv, Uncounted
  <2>7. /\ stats.queries_served >= answered + Promoting
        /\ stats.items_promoted + Uncounted("items_promoted") <= moved.up
        /\ stats.items_demoted + Uncounted("items_demoted") <= moved.down
      BY DEF CountInv
  <2>8. Promoting' = 0 /\ Promoting \in Nat
      BY <2>5 DEF Promoting
  <2>9. /\ stats'.queries_served >= answered' + Promoting'
        /\ stats'.items_promoted + Uncounted("items_promoted")' <= moved'.up
        /\ stats'.items_demoted + Uncounted("items_demoted")' <= moved'.down
      BY <1>3, <2>1, <2>2, <2>4, <2>6, <2>7, <2>8
  <2> QED
      BY <1>0, <1>3, <2>1, <2>2, <2>4, <2>5, <2>9 DEF CountInv
<1> QED
    BY <1>10, <1>11, <1>12, <1>13, <1>14, <1>15, <1>16, <1>17, <1>18, <1>19, <1>20, StepKinds

\* Between calls the counters of stats() are exact as long as no call was cut
\* short: queries returned, items moved up, items moved down.  Whatever was cut
\* short, no answer is left out and no move is counted that was not made.
THEOREM CountersCount == HistorySpec => []CountersAreRight
<1>1. HInit => CountInv
    BY DEF HInit, Init, CountInv, Uncounted, Promoting, NoTally, NoStats, Empty, Idle
<1>2. Inv /\ CountInv => CountersAreRight
  <2> SUFFICES ASSUME Inv, CountInv PROVE CountersAreRight
      OBVIOUS
  <2>1. NoTally.stat = "none" /\ (call = Idle => tally = NoTally /\ call # "query")
      BY DEF Inv, WorkIsLive, NoTally, Idle
  <2>2. /\ stats.items_promoted \in Nat /\ stats.items_demoted \in Nat
        /\ stats.queries_served \in Nat
        /\ answered \in Nat /\ moved.up \in Nat /\ moved.down \in Nat
      BY DEF Inv, TypeOK, DataTypeOK, NoStats, CountInv
  <2>3. /\ Uncounted("items_promoted") \in Nat /\ Uncounted("items_demoted") \in Nat
        /\ call = Idle => Uncounted("items_promoted") = 0 /\ Uncounted("items_demoted") = 0
    <3>1. /\ tally.n \in Nat /\ Len(work) \in Nat
          /\ tally.stat # "none" => Len(work) <= tally.n
        BY DEF Inv, TypeOK, ControlTypeOK, Tallies, CountInv
    <3> QED
        BY <2>1, <3>1 DEF Uncounted
  <2>4. Promoting \in Nat /\ (call = Idle => Promoting = 0)
      BY <2>1 DEF Promoting
  <2>5. /\ stats.queries_served >= answered + Promoting
        /\ stats.items_promoted + Uncounted("items_promoted") <= moved.up
        /\ stats.items_demoted + Uncounted("items_demoted") <= moved.down
        /\ ~fault =>
              /\ stats.queries_served = answered + Promoting
              /\ stats.items_promoted + Uncounted("items_promoted") = moved.up
              /\ stats.items_demoted + Uncounted("items_demoted") = moved.down
      BY DEF CountInv
  <2> QED
      BY <2>2, <2>3, <2>4, <2>5 DEF CountersAreRight
<1> QED
    BY <1>1, <1>2, CountStep, HistoryIsSpec, Invariance, PlanAlwaysFits, PTL DEF HistorySpec

-----------------------------------------------------------------------------
(* Removed items *)

\* What RemovedForGood needs to be inductive: the stores that a closed Session
\* leaves hold no removed item, so the next one finds none.
RemovedInv ==
    /\ session = "closed" => DOMAIN items = {}
    /\ ~fault => IF session = "open" THEN removed \cap DOMAIN items = {}
                                     ELSE removed \cap StoredIds = {}

LEMMA RemovedStep == Inv /\ RemovedInv /\ [Next /\ Record]_hvars => RemovedInv'
<1> SUFFICES ASSUME Inv, RemovedInv, [Next /\ Record]_hvars PROVE RemovedInv'
    OBVIOUS
<1>0. TypeOK /\ WorkIsLive /\ StoreInv
    BY DEF Inv
<1>1. CASE UNCHANGED hvars
    BY <1>1 DEF hvars, history, vars, state, RemovedInv, StoredIds
<1> SUFFICES ASSUME Next, Record PROVE RemovedInv'
    BY <1>1
<1>2. session \in {"open", "closed"} /\ session' \in {"open", "closed"}
    BY <1>0, TypeStep DEF TypeOK, ControlTypeOK
<1>3. CASE session = "open" /\ session' = "open"
    BY <1>3 DEF Record, RemovedInv
<1>4. ASSUME session = "open", End, fault' \/ (call = Idle /\ fault' = fault) PROVE RemovedInv'
  <2>1. session' = "closed" /\ DOMAIN items' = {} /\ removed' = removed
      BY <1>4 DEF End, Empty, Record
  <2> SUFFICES ASSUME ~fault, call = Idle, NEW id \in removed, id \in StoredIds' PROVE FALSE
      BY <1>4, <2>1 DEF RemovedInv
  <2>2. id \in StoredIds
      BY <1>4 DEF End, Empty, StoredIds
  <2>3. id \in DOMAIN items
      BY <1>0, <1>4, <2>2 DEF StoreInv, NoStrays, StoredIds
  <2> QED
      BY <1>4, <2>3 DEF RemovedInv
<1>5. CASE Close \/ Crash
    BY <1>0, <1>4, <1>5 DEF Close, Crash, TypeOK, ControlTypeOK
<1>6. CASE Open
  <2>1. /\ session = "closed" /\ session' = "open" /\ removed' = removed /\ UNCHANGED fault
        /\ DOMAIN items' = StoredIds
      BY <1>6 DEF Open, Load, Record
  <2> QED
      BY <2>1 DEF RemovedInv
<1>7. CASE session = "closed" /\ session' = "closed"
  <2>1. call = Idle /\ work = <<>> /\ tally = NoTally /\ next = NoScope
      BY <1>0, <1>7 DEF WorkIsLive
  <2>2. Still
      BY <1>5, <1>7, <2>1, StepKinds
      DEF Open, Close, Crash, Forgotten, Planned, MoveDelete, DropItem, CountMoves,
          EnforceBound, Return, StorageFails
  <2>3. UNCHANGED <<session, items, fault, stores>> /\ removed' = removed
      BY <1>7, <2>2 DEF Still, Record
  <2> QED
      BY <2>3 DEF RemovedInv, StoredIds
<1>8. CASE session = "open" /\ session' = "closed"
  <2>1. Close \/ Crash
      BY <1>8, StepKinds, MoveEffect, DropEffect, EnforceEffect
      DEF Open, Still, Forgotten, Planned, OneDone, CountMoves, Return, StorageFails
  <2> QED
      BY <1>5, <2>1
<1>9. CASE session = "closed" /\ session' = "open"
  <2>1. Open
      BY <1>9, StepKinds, MoveEffect, DropEffect, EnforceEffect
      DEF Close, Crash, Still, Forgotten, Planned, OneDone, CountMoves, Return, StorageFails
  <2> QED
      BY <1>6, <2>1
<1> QED
    BY <1>2, <1>3, <1>7, <1>8, <1>9

\* An item that was removed, dropped or evicted is not found again when the
\* Session is reopened, unless a call was cut short.
THEOREM RemovedStaysAway == HistorySpec => []RemovedForGood
<1>1. HInit => RemovedInv
    BY DEF HInit, Init, RemovedInv, Empty
<1>2. Inv /\ RemovedInv => RemovedForGood
    BY DEF Inv, TypeOK, ControlTypeOK, RemovedInv, RemovedForGood, RemovedStaysRemoved
<1> QED
    BY <1>1, <1>2, RemovedStep, HistoryIsSpec, Invariance, PTL DEF HistorySpec

-----------------------------------------------------------------------------
(* The items a call has added *)

\* What LruKeepsTheBatch needs to be inductive: the items of the batch were
\* touched last and have the highest ids, and none of them is to be moved.
LruInv ==
    /\ \A id \in DOMAIN items : items[id].last_touch <= clock
    /\ /\ EvictionPolicy = "Lru" /\ call = "add"
       /\ BatchFits
       => /\ DOMAIN given \subseteq DOMAIN items
          /\ \A id \in DOMAIN given :
                /\ items[id].scope = given[id] /\ items[id].last_touch = clock
                /\ \A y \in DOMAIN items \ DOMAIN given : y < id
          /\ \A i \in DOMAIN work : work[i].id \notin DOMAIN given

\* The victims of a scope come before the batch in the eviction order, and the
\* batch is not larger than what may stay.
LEMMA BatchIsNoVictim ==
    ASSUME Inv, EvictionPolicy = "Lru", NEW G \in SUBSET DOMAIN items,
           \A id \in DOMAIN items : items[id].last_touch <= clock,
           \A g \in G : /\ items[g].last_touch = clock
                        /\ \A y \in DOMAIN items \ G : y < g,
           NEW s \in Scopes, Cardinality(G) <= Bounds[s],
           NEW n \in Nat, n <= Cardinality(InScope(items, s)),
           n = 0 \/ n + Bounds[s] <= Cardinality(InScope(items, s)),
           NEW v \in Victims(s, n), NEW p \in DOMAIN v
    PROVE  v[p] \notin G
<1> DEFINE S == InScope(items, s)
           c == Cardinality(S)
<1>0. TypeOK
    BY DEF Inv
<1>1. c \in Nat /\ Bounds[s] \in Nat /\ IsFiniteSet(G) /\ Cardinality(G) \in Nat
    BY <1>0, InScopeIds, ListsOfIds, ItemTypes, ConfigAssumption
<1>13. PICK q : AreFirst(v, n, q, s)
    BY <1>0, VictimsAreFirst
<1>2. /\ q \in [1 .. c -> S]
      /\ \A i, j \in DOMAIN q : q[i] = q[j] => i = j
      /\ \A i, j \in DOMAIN q : i < j => EvictsBefore(q[i], q[j])
      /\ DOMAIN v = 1 .. n /\ \A i \in 1 .. n : v[i] = q[i]
    BY <1>13 DEF AreFirst
<1>3. /\ clock \in Nat /\ \A id \in DOMAIN items : id \in Nat /\ items[id].last_touch \in Nat
      /\ S \subseteq DOMAIN items
  <2>1. clock \in Nat
      BY <1>0, BoundsAssumption DEF TypeOK, ControlTypeOK
  <2>2. \A id \in DOMAIN items : id \in Nat /\ items[id].last_touch \in Nat
      BY <1>0, ItemTypes DEF TypeOK, DataTypeOK, IsMap, Entries
  <2>3. S \subseteq DOMAIN items
      BY <1>0, InScopeIds
  <2> QED
      BY <2>1, <2>2, <2>3
<1>4. \A a, b : EvictsBefore(a, b) <=>
         \/ items[a].last_touch < items[b].last_touch
         \/ items[a].last_touch = items[b].last_touch /\ a < b
    BY DEF EvictsBefore
<1> HIDE DEF c, S
<1>5. p \in Nat /\ 1 <= p /\ p <= n /\ n <= c /\ n + Bounds[s] <= c
    BY <1>1, <1>2 DEF c, S
<1> SUFFICES ASSUME v[p] \in G PROVE FALSE
    OBVIOUS
<1>6. ASSUME NEW j \in p .. c PROVE q[j] \in G
  <2>1. j \in 1 .. c /\ p \in 1 .. c /\ q[p] \in G /\ q[j] \in DOMAIN items /\ q[p] \in DOMAIN items
      BY <1>1, <1>2, <1>3, <1>5
  <2>2. CASE j = p
      BY <2>1, <2>2
  <2>3. CASE j # p
    <3>1. EvictsBefore(q[p], q[j])
        BY <1>1, <1>2, <1>5, <2>1, <2>3
    <3>2. items[q[p]].last_touch = clock /\ items[q[j]].last_touch <= clock
        BY <2>1
    <3>3. q[p] < q[j]
        BY <1>3, <1>4, <2>1, <3>1, <3>2
    <3> QED
        BY <1>3, <2>1, <3>3
  <2> QED
      BY <2>2, <2>3
<1> DEFINE f == [j \in p .. c |-> q[j]]
<1>7. f \in Injection(p .. c, G)
  <2>1. f \in [p .. c -> G]
      BY <1>6
  <2>2. \A i, j \in DOMAIN f : f[i] = f[j] => i = j
      BY <1>1, <1>2, <1>5
  <2> HIDE DEF f
  <2> QED
      BY <2>1, <2>2 DEF Injection, IsInjective
<1> HIDE DEF f
<1>8. Cardinality(p .. c) <= Cardinality(G)
    BY <1>1, <1>7, FS_Injection
<1>9. Cardinality(p .. c) = c - p + 1
    BY <1>1, <1>5, FS_Interval
<1> QED
    BY <1>1, <1>5, <1>8, <1>9

LEMMA LruStep == Inv /\ LruInv /\ [Next /\ Record]_hvars => LruInv'
<1> SUFFICES ASSUME Inv, LruInv, [Next /\ Record]_hvars PROVE LruInv'
    OBVIOUS
<1>0. TypeOK /\ WorkIsLive /\ clock \in Nat
    BY BoundsAssumption DEF Inv, TypeOK, ControlTypeOK
<1>1. CASE UNCHANGED hvars
    BY <1>1 DEF hvars, history, vars, state, control, LruInv, BatchFits
<1> SUFFICES ASSUME Next, Record PROVE LruInv'
    BY <1>1
<1>2. \A id \in DOMAIN items : items[id].last_touch \in Nat /\ id \in Nat
    BY <1>0, ItemTypes DEF TypeOK, DataTypeOK, IsMap, Entries
<1>3. Idle # "add" /\ (session = "closed" => call = Idle)
    BY <1>0 DEF Idle, WorkIsLive
<1>4. ASSUME call' = Idle, \A id \in DOMAIN items' : items'[id].last_touch <= clock'
      PROVE  LruInv'
    BY <1>3, <1>4 DEF LruInv, BatchFits
<1>5. CASE Open
  <2>1. call' = Idle /\ clock' = clock /\ items' = Load
      BY <1>3, <1>5 DEF Open, control
  <2>2. \A id \in DOMAIN items' : items'[id].last_touch = 0
      BY <2>1 DEF Load, NewEntry
  <2> QED
      BY <1>0, <1>4, <2>1, <2>2
<1>6. CASE Close \/ Crash
    BY <1>4, <1>6 DEF Close, Crash, End, Empty
\* Steps that leave the batch and the plan alone.
<1>7. ASSUME call # Idle, UNCHANGED <<items, call, clock>>,
             \A i \in DOMAIN work' : \A id \in DOMAIN given :
                 /\ EvictionPolicy = "Lru" /\ call = "add"
                 /\ BatchFits
                 => work'[i].id # id
      PROVE  LruInv'
  <2>1. given' = given
      BY <1>7, RecordScopes
  <2> QED
      BY <1>7, <2>1 DEF LruInv, BatchFits
<1>8. CASE Still
  <2>1. CASE call = Idle
    <3>1. \A id \in DOMAIN items : items[id].last_touch <= clock'
        BY <1>2, <1>8 DEF Still, LruInv, BatchFits
    <3> QED
        BY <1>4, <1>8, <2>1, <3>1 DEF Still
  <2>2. CASE call # Idle
      BY <1>7, <1>8, <2>2 DEF Still, LruInv, BatchFits
  <2> QED
      BY <2>1, <2>2
<1>9. CASE Forgotten
    BY <1>4, <1>9 DEF Forgotten, LruInv, BatchFits
<1>10. CASE Planned
  <2>1. /\ clock' = clock /\ call = Idle /\ call' # Idle
        /\ DOMAIN items \subseteq DOMAIN items'
        /\ \A id \in DOMAIN items : items'[id].last_touch \in {items[id].last_touch, clock}
        /\ \A id \in DOMAIN items' \ DOMAIN items :
              /\ items'[id].last_touch = clock
              /\ \A y \in DOMAIN items : y < id
        /\ call' = "add" => work' = <<>>
      BY <1>10 DEF Planned, Operations, Idle
  <2>2. \A id \in DOMAIN items' : items'[id].last_touch <= clock'
      BY <1>0, <2>1 DEF LruInv, BatchFits
  <2>3. /\ DOMAIN given' = DOMAIN items' \ DOMAIN items
        /\ \A id \in DOMAIN given' : given'[id] = items'[id].scope
      BY <2>1, RecordScopes DEF Restrict, ScopesOf
  <2>4. DOMAIN items' \ DOMAIN given' = DOMAIN items
      BY <2>1, <2>3
  <2> QED
      BY <2>1, <2>2, <2>3, <2>4 DEF LruInv, BatchFits
<1>11. ASSUME OneDone, DOMAIN items' \subseteq DOMAIN items,
              Task.id \in DOMAIN items,
              \A y \in DOMAIN items : y # Task.id => y \in DOMAIN items' /\ items'[y] = items[y],
              Task.id \in DOMAIN items' =>
                 items'[Task.id].last_touch = items[Task.id].last_touch
       PROVE  LruInv'
  <2>1. UNCHANGED <<call, clock>> /\ given' = given /\ 1 \in DOMAIN work /\ Task = work[1]
      BY <1>11, RecordScopes DEF OneDone
  <2>2. \A id \in DOMAIN items' : items'[id].last_touch <= clock'
      BY <1>11, <2>1 DEF LruInv, BatchFits
  <2>3. \A i \in DOMAIN work' : \E j \in DOMAIN work : work'[i] = work[j]
      BY <1>11 DEF OneDone
  <2>4. ASSUME EvictionPolicy = "Lru", call = "add",
               BatchFits
        PROVE  /\ DOMAIN given \subseteq DOMAIN items'
               /\ \A id \in DOMAIN given :
                     /\ items'[id].scope = given[id] /\ items'[id].last_touch = clock
                     /\ \A y \in DOMAIN items' \ DOMAIN given : y < id
               /\ \A i \in DOMAIN work' : work'[i].id \notin DOMAIN given
    <3>1. /\ DOMAIN given \subseteq DOMAIN items
          /\ \A id \in DOMAIN given :
                /\ items[id].scope = given[id] /\ items[id].last_touch = clock
                /\ \A y \in DOMAIN items \ DOMAIN given : y < id
          /\ \A i \in DOMAIN work : work[i].id \notin DOMAIN given
        BY <2>4 DEF LruInv, BatchFits
    <3>2. Task.id \notin DOMAIN given
        BY <2>1, <3>1
    <3> QED
        BY <1>11, <2>3, <3>1, <3>2
  <2> QED
      BY <2>1, <2>2, <2>4 DEF LruInv, BatchFits
<1>12. CASE MoveDelete
    BY <1>11, <1>12, MoveEffect
<1>13. CASE DropItem
    BY <1>11, <1>13, DropEffect
<1>14. CASE CountMoves
    BY <1>0, <1>7, <1>14 DEF CountMoves, WorkIsLive
<1>15. CASE EnforceBound
  <2> DEFINE S == InScope(items, next)
             excess == IF Cardinality(S) > Bounds[next]
                       THEN Cardinality(S) - Bounds[next] ELSE 0
  <2>1. /\ next \in Scopes /\ call # Idle /\ UNCHANGED <<items, call, clock>>
        /\ Cardinality(S) \in Nat /\ Bounds[next] \in Nat
        /\ excess \in Nat /\ excess <= Cardinality(S)
      BY <1>15, EnforceEffect
  <2>2. PICK v \in Victims(next, excess) : work' = Evictions(next, v)
      BY <1>15, EnforceEffect
  <2>3. excess = 0 \/ excess + Bounds[next] <= Cardinality(S)
      BY <2>1
  <2>4. DOMAIN work' = DOMAIN v /\ \A i \in DOMAIN v : work'[i].id = v[i]
      BY <2>2 DEF Evictions
  <2> HIDE DEF excess
  <2>5. ASSUME EvictionPolicy = "Lru", call = "add",
               BatchFits,
               NEW i \in DOMAIN work'
        PROVE  work'[i].id \notin DOMAIN given
    <3> SUFFICES ASSUME v[i] \in DOMAIN given PROVE FALSE
        BY <2>4
    <3>1. /\ DOMAIN given \in SUBSET DOMAIN items
          /\ \A g \in DOMAIN given : /\ items[g].scope = given[g]
                                     /\ items[g].last_touch = clock
                                     /\ \A y \in DOMAIN items \ DOMAIN given : y < g
          /\ \A id \in DOMAIN items : items[id].last_touch <= clock
        BY <2>5 DEF LruInv
    <3>2. i \in DOMAIN v /\ v \in Seq(S)
        BY <1>0, <2>1, <2>2, <2>4, <2>5, VictimsType
    <3>3. v[i] \in S
        BY <3>2
    <3>4. given[v[i]] = next
        BY <3>1, <3>3 DEF InScope
    <3>5. Cardinality(DOMAIN given) <= Bounds[next]
        BY <2>5, <3>4 DEF BatchFits
    <3> HIDE DEF S
    <3> QED
        BY <2>1, <2>2, <2>3, <2>5, <3>1, <3>2, <3>5, BatchIsNoVictim DEF S
  <2> QED
      BY <1>7, <2>1, <2>5
<1>16. CASE Return \/ StorageFails
    BY <1>4, <1>16 DEF Return, StorageFails, state, LruInv, BatchFits
<1> QED
    BY <1>5, <1>6, <1>8, <1>9, <1>10, <1>12, <1>13, <1>14, <1>15, <1>16, StepKinds

\* add_batch under LRU returns ids that are live and in the scope they were
\* added to, if the batch is within the bound of that scope: making room for it
\* evicts older items only, cascades included.
THEOREM BatchStays == HistorySpec => []LruKeepsTheBatch
<1>1. HInit => LruInv
    BY DEF HInit, Init, LruInv, BatchFits, Empty, Idle
<1>2. LruInv => LruKeepsTheBatch
    BY DEF LruInv, LruKeepsTheBatch, Done
<1> QED
    BY <1>1, <1>2, LruStep, HistoryIsSpec, Invariance, PTL DEF HistorySpec
===============================================================================
