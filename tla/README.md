# SemantiCore in TLA+

SemantiCore keeps the context of a long-running program (facts, events, chunks
of text) in three tiers of decreasing durability and moves items between the
tiers as they are used.  This directory holds TLA+ models of the parts of it
that keep state, the TLC runs that check them on small instances, and proofs of
the safety properties for all instances.

## The system and its parts

| Component | State it keeps | Operations | What makes it hard |
|---|---|---|---|
| `Session` (`semanticore-context/src/session.rs`) | under one mutex: index of live items, `next_id`, counters; three stores | `open`, `close`, `add`/`add_batch`, `remove`, `query` (+ auto-promotion), `promote`, `evict` (items, demote, policy), read-only calls | one call is many store transactions, any of which may fail or be the last one before a crash; cascades of evictions |
| Tiers, items (`item.rs`) | none | order, `colder` | - |
| Configuration (`config.rs`) | immutable | - | policies interact: bound, eviction order, demotion target, promotion rules |
| Queries (`query.rs`) | none | scope selection, pattern, limit | evaluated on the stores, filtered by the index |
| Record layout (`record.rs`) | none | `encode`, `decode`, `parse_item_graph`, `load` | one graph per item; JSON metadata that has to be read back; ids spelt by others |
| Session errors (`error.rs`) | none | which error a call ends with | every path has to end in the right class of exception |
| `Storage` trait (`semanticore-core/src/storage.rs`) | a set of quads | read and write transactions | atomicity and isolation that callers may rely on |
| `OxigraphStore` (`semanticore-store-oxigraph/src/lib.rs`) | committed quads; per transaction a snapshot and a write batch | the `Storage` trait, three kinds of store | writer lock in memory, no conflict check on disk |
| Term conversion (`convert.rs`) | none | core term <-> Oxigraph term | terms that would not read back identical |
| `MemStore` (`semanticore-storage-testkit/src/mem.rs`) | version, quads | the `Storage` trait | optimistic concurrency control |
| Storage contract (`contract.rs`) | none | the checks that a store has to pass | checks with threads and overlapping transactions, in every schedule |
| Python `Session` (`semanticore-context-py/src/session.rs`) | `RwLock` around an open or closed session | each native call, `close`, `closed` | three locks: GIL, RwLock, the Session's mutex |
| Python values and errors (`terms.rs`, `item.rs`, `query.rs`, `errors.rs`) | none | conversions in both directions | edges of integers and floats, `bool` as an `int`, strings that are not UTF-8, several spellings of one term |
| Documentation's store (`semanticore-core/src/storage.rs`) | a vector of quads; one write transaction's staging lists | the `Storage` trait | inserts and removals of one quad that cancel; reads of the latest state |
| Reasoners (`reasoner.rs`, `shacl.rs`, `datalog.rs`) | what they have materialized; a loaded program | `materialize`, `dematerialize`, `on_insert`, `on_remove`, `entails`, `realize`, `validate`, `evaluate` | upkeep of inferences; answers made of several reads while others commit |

How they interact.  A `Session` owns three `Storage` objects, one per tier, and
is the only user of each; it wraps every change in `with_write` (begin, change,
commit or roll back).  `OxigraphStore` implements `Storage` and is itself open to
concurrent users; `MemStore` is the second implementation that the contract of
the test kit is run against.  The Python `Session` holds the native one behind an
`RwLock` and releases the GIL while it calls it.  There are no background
threads, no messages and no callbacks: all concurrency is that of callers.
The reasoner traits are implemented five times, each time in the documentation
of `semanticore-core`: `SymmetricClosure`, `SymmetricKnows`, `ToySubsumption`,
`MinCountOne` and `OneStep`.  They work on the store of the same documentation;
the `Session` does not call reasoners yet.

### What is hard

* A call of `Session` is several store transactions.  A storage error ends the
  call between two of them, and a crash leaves persistent stores in that state
  for the next `open`.
* `move_item` writes the item to its new tier before it deletes it from the old
  one, so copies can be left behind, and `open`, `query` and `remove` meet them.
* Evicting from one tier demotes into the next and may overflow it: bounds are
  enforced in a cascade, interleaved with promotions computed beforehand.
* Ids restart from what is stored, while items cite each other by id.
* Oxigraph stores the values of literals, the core model compares their text.
* Stores have different isolation: a global writer lock, snapshots without
  conflict detection, reads of the latest state, or optimistic version checks.
* Python threads meet three locks, and `close` races with calls in other threads.
* A Python value is converted, validated, written as JSON or as quads, stored as
  Oxigraph stores it, and read back by another process: each stage has its own
  limits, and what one stage accepts another may refuse or alter.
* A store may refuse the second of several quads after it has taken the first.
* A reasoner's answer takes several reads of a store that promises committed
  reads only, so it may hold in no single state of that store.
* One inference rests on several quads, and an asserted quad may also be
  inferred: keeping inferences up under removals cannot look at one quad alone.

### What makes each part correct

* Session: no live item is ever lost or altered; left-over copies agree and stay
  invisible; ids are fresh and citations never change their meaning; a
  call that succeeds leaves the tiers it added to within their bounds; the mutex
  is always released; counters say what happened.
* Stores: within a transaction every call returns what it returns sequentially;
  write transactions are serializable where the store promises it, and otherwise
  merge quad by quad; listing graphs is right up to concurrent commits; a term is
  stored verbatim or not at all, and lookups agree with scans.
* Python session: no deadlock; `close` is final, idempotent and complete.
* Values: an item shows what its constructor was given, before and after a
  reopen; what was accepted can be opened again; a query finds what is shown; a
  batch is added whole or not at all, whatever refuses or interrupts it; and what
  a call raises is caught by `except SessionError` if and only if the session
  refused it.
* Contract: `MemStore` passes every check in every schedule.
* Reasoners: what is materialized is entailed and complete once the reasoner has
  been told of each commit; answers lie between what held all through the call
  and what held at some time during it.

The `hazards` of `PROJECT.json` list the lines at which these can go wrong, with
the properties that would show it.

## Modules

| Module | Models | Notes |
|---|---|---|
| `ContextScope` | `ContextScope`, its order, `colder` | used by `Session` |
| `Session` | `Session` with its configuration, queries and items | safety, liveness |
| `SessionHistory` | `Session` plus history variables | what callers saw, against the counters |
| `Transactions` | what `StorageTransaction` promises of one transaction | about the log of the calls made |
| `SerialStore` | abstract serializable store | the specification refined below |
| `TermConvert` | RDF terms, `convert.rs`, Oxigraph's encoding of literals | operators, used by `OxStore` |
| `OxStore` | `OxigraphStore` | refines `SerialStore` in memory |
| `MemStore` | `MemStore` | refines `SerialStore` |
| `Contract` | the checks of `contract.rs`, as scripts | says nothing of any store |
| `MemContract` | the scripts run against `MemStore`, or free calls | composes the two |
| `PySession` | Python `Session`, GIL, `RwLock`, native mutex | safety, liveness |
| `Record` | `record.rs`, `load` and `validate` of `session.rs` | operators, on `TermConvert` |
| `PyValues` | `terms.rs`, `item.rs`, `query.rs`, `errors.rs` of the Python crate | operators, on `Record` |
| `Values` | a Python program, one Session, the enduring store, reopening | composes the above |
| `DocStore` | the store of `semanticore-core`'s documentation | uses `Transactions` |
| `Reasoning` | what the five reasoners compute from quads | operators |
| `Reasoners` | reasoners and a program on one `DocStore` | composes the two |
| `CommonProofs` | | lemmas about `Transactions`, and about natural numbers, sequences and finite sets |
| `SessionProofs` | | theorems about `Session` and `SessionHistory` |
| `MemStoreProofs`, `TermConvertProofs`, `OxStoreProofs` | | theorems about stores, and about `MemContract` |
| `ValuesProofs` | | theorems about `Record`, `PyValues` and `Values` |
| `ReasonersProofs` | | theorems about `DocStore`, `Reasoning` and `Reasoners` |
| `PySessionProofs` | | theorems about `PySession` |
| `MCSession`, `MCSessionHistory`, `MCOxStore`, `MCMemStore`, `MCPySession`, `MCValues`, `MCReasoners` | | instances for TLC |

### Session

The index `items`, `next_id` and `stats` are `State` of `session.rs`; `stores`
holds, per tier, what is committed.  An item is what decides about it: the topics
of its triples that patterns tell apart, and the ids it cites.  Its encoding in
quads is identified with the item; `Record` and `Values` show what that takes.

A call is a first step (`AddBatch`, `RemoveItem`, `Query`, `Promote`,
`EvictItems`, `EvictDemote`, `EvictPolicy`) that validates and does what happens
up to the first further transaction, and then one step per transaction.  `work`
lists the moves and drops that are left; `MoveInsert` and `MoveDelete` are the
two transactions of `move_item`, `DropItem` that of `drop_item`; `tally` is the
counter added to after the explicit moves (`CountMoves`); `next` is the tier
`enforce_bounds` looks at next (`EnforceBound`).  `Return` releases the mutex,
and `StorageFails` is a failing transaction: it is rolled back, and `?` ends the
call with everything committed so far in place.  `Crash` may strike anywhere;
`Open` rebuilds the index from the persistent stores, most durable first.  As the
mutex is held over all of it, calls do not interleave with each other.

Abstractions.  Early returns that change nothing are guards.  A transaction that
fails has no effect.  A `Session` reopens with the configuration it had.  Time is
counted in half-lives, and recency weights are kept as integers scaled by
`2^clock`, which orders them as the decaying `f64` values are ordered up to
rounding.  `reason`, `validate`, `evaluate_datalog` and the kinds of query that
return "not yet implemented" change nothing here; `Values` has them, for the
errors they raise.

### Stores

`Transactions` states the trait call by call: `After` is what a call does to the
quads a transaction sees, `Promised` what it returns, `Legal` that a whole log of
calls returned what it had to.  `Replay`, what is seen after a log of calls, is
defined by the last call on each quad; `CommonProofs` shows that it applies
`After` to one call at a time.  `SerialStore` is the abstract store: a write
transaction commits only if its log is legal from the *committed* state at that
moment, so any two transactions behave as if made one after the other.

In `OxStore` a transaction is a snapshot (`base`) and a private batch (`puts`,
`dels`), which is how the adapter's comments describe Oxigraph's transactions;
Oxigraph itself is external.  The writer lock exists in memory only.  A
persistent store may be reopened read-write or read-only (`Restart`).  `names`
are the graph names Oxigraph remembers after their quads are gone, and
`named_graphs` is a scan of the names (`StartListing`) followed by one scan per
graph (`ListGraph`), which fails at a graph that a blank node names
(`FailListing`).  `ForeignWrite` is a program that uses the Oxigraph store itself,
which `oxigraph` hands out, and so bypasses the checks.  What `Capabilities` says
of isolation decides which transactions are held to it: the calls of a read
transaction in memory are not logged.

The state of `OxStore` is what Oxigraph stores (`Encode`), while callers name
quads of the core model; `TermConvert` lies between the two.  A literal of one of
the XSD types that `round_trips` lists, if it parses, is stored as a value of the
primitive type and read back as that type's canonical text, so `"1"^^int`,
`"01"^^integer` and `"1"^^integer` share one place.  Parsers and printers are the
parameters `Parse` and `Show`; of them it is assumed that a value's text parses to
that value.  Whether an IRI, a label or a tag is valid is a parameter too, and the
reasons for a refusal are one (`Refused`).  What others write to Oxigraph is what
its checked constructors make (`OxQuads`), without `rdf:langString` literals that
have no language and, as in the pinned build, without triple terms.  The history
and the properties are about core quads: an iterator over stored quads also yields
an `Err` for each one that cannot be read back (`Yielded`), and `Contents` is the
rest.

`MemStore` follows `mem.rs`
line by line.  `start`, `log` and `outcome` are history in both.

### Storage contract

A check of `contract.rs` is a script in `Contract`: for each thread the calls it
makes, each with the results the check accepts.  `MemContract` runs every script
on a fresh `MemStore`, the threads interleaved call by call, with the lists of
quads and the patterns that the `suite!` macro feeds the checks with reduced to
constants; a call whose result is not accepted is kept in `wrong`.  The script
`Free` makes any calls at all, which is what the refinement of `SerialStore` is
about.  Deadlock checking is on: a script that has
been run to its end stutters (`Passed`), one that cannot go on is reported.
`shareable_across_threads` has one reader thread instead of four.

### Values

`Record` lays an item out: its triples are quads of a graph of its own, the rest
is one JSON text, represented by the value it denotes.  `Serialize` and
`Deserialize` are modelled by what they do: a float that is not finite is written
as `null`, JSON that nests deeper than `MaxDepth` is not read (`TooDeep`).  An
event body, which may nest to any depth, is a tree: a function from the paths in
it to what lies there, in Python and in JSON alike, so that the recursion of
`json_from_py` and `json_to_py` is a conversion of each path and each node.  When
several parts are refused, the exception is the one the recursion meets first
(`Before`).  `PyValues`
converts Python objects, which are records with their type in `py`; a conversion
returns a value or raises an exception of a class of the hierarchy in `errors.rs`
(`Catches`).  What Python iterates over is a list, a tuple, a string or
some other iterable (`Iterates`).

`Values` puts them together with `TermConvert`: a program builds
items, adds them in batches, removes and queries, closes and reopens, and another
program writes one metadata quad of its own.  All items lie in the enduring tier,
and movement between tiers is left to `Session`.

`add_batch` is followed step by step.  `AddBatch` converts, validates and begins
the transaction of `with_write`, whose view of the store is part of `add`;
`InsertQuad` and `InsertRecord` are the inserts of `insert_all`, item by item, the
quads of one item in any order and its metadata quad last.  A quad that the store
refuses ends the call and rolls the transaction back (`InsertRefused`);
`CommitBatch` makes it visible and updates the index.  Then come the evictions of
`enforce_bounds` (`DropItem`), a transaction each, down to the bound the Session
was opened with, and `AddReturns`.  Any transaction may fail (`StorageFails`): one
of the insert leaves nothing behind, one of an eviction ends the call with an error
although its items were added.  `Close` is also the death of the process, which
may come between any two of these steps.

Abstractions.  `MaxDepth = 4` stands for serde_json's limit of 128, `IntBits = 3`
for the edges of `i64` and `u64`.  The entries of a JSON object keep the positions
they had in the dict, which nothing reads.  The scopes a query selects are a set.
Single precision (`AsF32`), the parser of ids
(`ParseU64`) and the text of a float (`Reparse`) are parameters.

### The documentation's store and its reasoners

In `DocStore` a write transaction stages inserts and removals and applies them on
commit; the committed quads are counted, since the code keeps them in a vector.
Its capabilities say `concurrent_writes: false`, so there is one write transaction
at a time; a read transaction has no state.

`Reasoning` holds what each reasoner computes from what it has read, `Reasoners`
when it reads.  The loop of `ToySubsumption` is a recursive function of the number
of its turns (`turns`), each of which takes one class off the stack (`turn`).
The program does not write to the graph that `SymmetricClosure` keeps apart
(`ReasonersAssumption`).  Operations that take the store by `&mut` are one step; answers
take the store by `&`, and each of their reads is a step, with commits of the
program in between.  `held` and `seen` are the quads that were there all through
the call and at some time during it.  A program tells the reasoner of each commit
(`on_insert`, `on_remove`) before its next transaction (`pending`).  An answer
returns before anything else happens (`Returning`), so that it is judged by the
states it had to do with.  Results are sets; statistics and duplicates are left
out.

### Python session

A thread is at a point of one call: asking for the `RwLock` (`lock`), with the
guard (`locked`), inside the native session with its mutex (`native`), with a
result and still with the guard (`unlock`), without the GIL (`detached`) or with
it again (`attached`).  `query` stands for the methods that go through
`PySession::read`, `add` for those that go through `write`.  Of the native state
one counter is kept, read and written back in two steps, so that losing the
mutex or the guard would lose an update.  `closed` is the only method that asks
for the lock with the GIL.  A native call may fail, counted or not.  Panics (and
so lock poisoning, which the code ignores) are not modelled.

## Runs

| Run | Instance | Shows |
|---|---|---|
| `crash` | 3 ids, 2 calls per Session, any number of Sessions; enduring and major persistent; bounds 1, 1, 2; `Lfu`, `NextColder`, auto-promotion | with storage errors and crashes anywhere: nothing lost, ids fresh, citations keep their meaning, queries see the index, no panic, also with both lists of an auto-promotion; a call that returns leaves no tier over its bound that it added to; no move is counted that was not made; unless a call was cut short one copy per item, exact counters, and no removed item comes back |
| `policy` | 3 ids, batches of 2, 4 calls, 2 instants; bounds 1, 1, 2; `Lru`, `OneStepThenDrop`, auto-promotion | one tier up per query, one tier down per call, a batch that fits its own tier does not evict itself, whether or not it fits the others |
| `liveness` | 2 ids, 2 calls, 3 instants; `RecencyWeighted`, `Drop` | every call ends and frees the mutex |
| `ox_memory` | 2 transactions of 3 calls; 2 quads that are stored and a third with the value of the first; writes past the adapter, one of them in a blank graph; one caller of `named_graphs` | writers take turns; refinement of `SerialStore` on core quads; lookups and scans agree; what a listing may contain while others commit |
| `ox_disk` | 2 transactions of 2 calls; 2 quads that are stored and one with an invalid IRI; restarts, read-only opening, a write past the adapter | snapshot reads, last commit wins per quad |
| `mem` | every check of the contract with lists of up to 2 quads; freely, 2 transactions of 2 calls, 2 quads, 2 commits | the contract in all schedules, the version check, refinement of `SerialStore` |
| `py` | 3 threads, 1 call each | locks, counters, nothing after close, no deadlock: every call returns |
| `values` | 2 items, no bound or a bound of 1; terms, bodies, embeddings and queries at each edge; storage errors and deaths between any two steps of an add; one foreign metadata quad | round trip, reopening, no strays, queries find what is shown, batches are added whole or not at all, exception classes |
| `reasoning` | each reasoner with 3 to 4 quads and 1 or 2 calls per transaction; without a reasoner 3 calls | staging, upkeep of materialization, answers between `held` and `seen` |

Why the bounds are enough.  Two calls suffice for a Session whose failure matters
to a later one because Sessions follow each other without limit in `crash`: the
number of crashes and reopenings is not bounded, only the ids are.  Three ids
with a bound of one in the two durable tiers and of two in the last make evictions
cascade through all tiers, while a batch of two fits the last tier only.  Interference
between transactions is pairwise, so two are enough, and a snapshot that is
already non-empty makes two calls enough for each sequence of insert and remove
on one quad that the batch distinguishes.  Two items are what it takes for one to
be accepted with another that is not, for a quad to be refused after an item that
is already inserted, for one to be evicted when the other is added, and for a query
to find one and not the other; the inputs of `values` take each branch of each conversion at least once.
The quads of `reasoning` include a symmetric pair, a quad of another graph, a
cycle and a chain of subclasses, and a focus node with and without a value; a
transaction of one call is enough to fall between two reads, and any number of
them may.  Three threads are what it takes for
one to hold a lock, one to wait with the GIL and one to wait for the GIL.
`CHECK_DEADLOCK FALSE` is set only for the Python session, whose threads stop
after their bounded number of calls; its deadlocks would violate
`EveryCallReturns`.

Fairness.  `FairSpec` of `Session` assumes that the thread that holds the mutex
takes its next step: every step is a bounded computation or one store
transaction, which ends with a commit or an error.  `Spec` of `PySession` assumes
the same of each thread that has made a call and can go on.  No fairness between
waiting threads is assumed; as calls are bounded, a waiting thread cannot be
overtaken for ever, and starvation by an endless stream of other callers is not
ruled out, which is what `std::sync` says of its locks.  Nobody has to make a
call, and nothing has to crash or fail.

Every property is shown to depend on the code by a mutant: the operators marked
*Faulty variant* are plausible mistakes in one operation, and TLC finds the
property violated when the operation is replaced by it.

### Disagreements with the documentation

The runs that expect a violation check what a comment or document says:

* `removed_returns`: a promotion fails between its two transactions, the item is
  removed, and the next `open` finds the left-over copy: the item is back.
* `py_gil`: `closed` and `repr()` keep the GIL while they wait for a mutation
  that another thread runs, so no Python thread runs meanwhile.
* `deep_body`: an event body that nests deeper than serde_json reads is accepted
  and written, and no later `open` of that store succeeds.

More behaviours worth knowing.  In the Session: a query whose auto-promotion fails
counts in `queries_served` (session.rs:345), which is documented as "Queries that
returned a result."; a left-over copy counts in `snapshot().quad_count`; with
auto-promotion an item is demoted again and again under `OneStepThenDrop`, because
each promotion forgets that it was demoted (session.rs:560; `OneStepDown` speaks of
one call, and nothing excludes this across calls); promotions made before one that
fails are not counted in `items_promoted` (after a call that was cut short
`CountersAreRight` only says that no counter exceeds what happened and no answer
goes uncounted); a tier that a failed eviction left over its bound stays so through
later calls that succeed and add nothing to it (`WithinBounds` says that there is no
other way to be over it); a read transaction on the in-memory store sees later commits, as the
crate's documentation says and RFC 0002 does not; under `Lfu` and
`RecencyWeighted` an add may evict the item it has just added; `open` neither
enforces bounds nor deletes the copies it does not index; and `add_batch` returns
an error although the items were added when enforcing the bounds fails, so that
"Either every item is added or none is" (session.rs:221) holds of the items and
not of what the call returns.

In values: a finite Python float that is infinite in single precision is refused
by `validate`, without which the store could not be opened again; and serde_json
may read a float back with another last digit than the one written (`Reparse`),
which `ReadBack` allows for.

In the reasoners of the documentation: `on_insert` of `SymmetricClosure` adds the
converse of a quad of any graph, while `materialize` reads the default graph only;
`ToySubsumption` writes what it infers among the asserted quads, so its
`dematerialize` removes nothing; `SymmetricKnows::entails` may answer false though
each committed state entails the quad, when a commit swaps the quad for its
converse between the two reads, which is why answers are only bounded by `held`
and `seen`; and `OneStep` binds a variable that occurs twice in a body to its first
place without comparing the second, so the programs of the run have no such body.

## Proofs

For every value of the constants, under the named assumptions of the modules
(`BoundsAssumption`, `DataAssumption`, `ConfigAssumption`; `PowersAssumption`,
that `2^t` is a natural number, which the provers do not know; `TermAssumption`,
`StoreAssumption`, `MemAssumption`, `PyAssumption`, `DocAssumption`;
`ContractAssumption`, that there are two transactions for the checks of the contract
and that their lists are of the store's quads;
`ReasonersAssumption`, what quads look like and which the program writes;
`ProgramsAssumption`, that programs are vectors of rules whose terms are variables
or constants; `ValuesAssumption`, that the objects a program passes have the
fields of their types and are finite, and that `ToString` of an id is read back by
`ParseU64` and makes a valid IRI):

* `SessionProofs`: `TypeCorrect`, `WorkStaysLive`, `NothingLost`, `IdsAreFresh`,
  `CopiesAreUnique`, `QueriesAreRight`, `CitationsKept`.  The inductive invariant
  is `TypeOK /\ WorkIsLive /\ StoreInv`, where `StoreInv` is `IndexedIsStored`,
  `CopiesAgree`, `FreshIds`, `CitesOlder` and `NoStrays`.  They need each other:
  the second transaction of a move keeps `IndexedIsStored` only because the
  target already holds the same item (`WorkIsLive`, `CopiesAgree`), a new item is
  alone under its id because of `FreshIds`, and `CopiesAgree` survives an insert
  for the same reason.  `NoStrays` says exactly which copies there may be when
  nothing failed: the indexed ones and the target of the move in progress; it is
  what makes `OneCopy` inductive.  `CitationsKept` follows from `CitesOlder`: a
  cited id is smaller than a stored one, and numbering restarts above those.
* `SessionProofs` again, about what a whole call does.
  * `BoundsHold`.  Bounds do not hold inside a call.  `PlanFits` says what the
    work that is left is for (each kind of call plans its own moves), and
    `BoundsInv` that a tier which `enforce_bounds` has passed is within its bound
    once the planned work is done: `Staying` is what will be left in it.  The
    number of victims of a policy (`VictimsCount`) closes the argument.  The theorem
    is about `HistorySpec`, with failing transactions and crashes: after one of
    these a tier may be over its bound, and `SweptInv` says that the running call
    has then put nothing in it, since every tier it puts items in, or demotes to,
    gets its turn.
  * `QueriesPromoteOneTier` and `EvictionsGoOneStep`, by `TierInv`: an item still
    to be promoted is where it was when the call began, and one that lies below
    that place carries the mark that makes the next eviction drop it.
  * `CountersCount`, by `CountInv`: the counters lag behind what happened by the
    moves that are made and not yet counted (`Uncounted`), and by those that a call
    which was cut short never counted; `queries_served` is ahead by the query that
    is still promoting, and by those whose promotion failed.
  * `RemovedStaysAway`, by `RemovedInv`: once the Session is closed a removed item
    is in no store, so no `open` finds it; this is where `NoStrays` is needed, and
    what fails when a call is cut short (`removed_returns`).
  * `BatchStays`, by `LruInv`: the items of a batch that fits the tier it was added
    to, whatever the bounds of the others, are the ones touched last, and a policy that orders by last touch takes others first (`BatchIsNoVictim`).
* `CommonProofs`: `ReplayOneMore`, `LegalOneMore` and two more lemmas, by
  which the proofs about stores follow a log call by call.  The library's
  induction theorems take an operator as a parameter, which these provers cannot
  instantiate; `SetInduction` states induction of a *set* of numbers and is proved
  from `LeastNatural`, and `NatRecursion` says what a recursive function over the
  numbers is equal to.  `FiniteListing` lists a finite set.
* `MemStoreProofs`: `ConflictCheckIsSound`, after a commit every open transaction
  has an older base version; `TransactionsSeeSnapshots`, the working copy of a
  transaction is the replay of its log; and from the two `MemStoreIsSerial`, every
  step of `MemStore` is a step of `SerialStore` or none: a commit that passes the
  version check started from what is committed.
* `MemStoreProofs` again: `MemStoreMeetsContract`, about every check of the contract
  with any lists, quads and patterns.
  * `View` is the part of a `MemStore` that calls can tell apart (a base version only
    counts as current or not), and `Does(V, c, W)` says that call `c`, made in view
    `V`, returns what the check accepts and leads to view `W`.  `CallView` ties it
    to `Performs`: if a call does so, every step of the store that makes the call is
    accepted and leads there.
  * `Runs(V, s, W)` is the same of a list of calls, by a list of the views in
    between.  It composes, so each check is proved (the `...Accepted` lemmas)
    from the parts it is written in; loops over a list are runs of any length,
    and `FlattenRuns` follows the nested ones by induction over the list.
  * `ContractInv`: nothing was refused so far, and either calls are made freely, or
    one thread has made part of a script that `Runs` from here to its end
    (`OneThread`), or the check is `shareable_across_threads` (`WriterAndReader`):
    there the reader's copy lies within the list, whatever the writer has
    committed, and the main thread counts only when both have ended.

  That no check gets stuck is left to the run, which looks for deadlocks.
* `TermConvertProofs`: `AcceptedReadsBack`, an accepted quad is read back as it was
  written, and `ReadBackIsFound`, a quad that is read back is looked up where it
  is stored.  The first assumes nothing of the parsers and printers; the second
  needs that a value's text parses to that value (`TermAssumption`).
* `OxStoreProofs`: `TypeCorrect` and `WritersTakeTurns`, by the invariant
  `TypeOK /\ WriterSeesLatest`, and `ScanAndContainsAgree` from `TypeOK` and the
  two theorems about terms.  `ReadsAreSnapshots` by `HistoryInv`: what a
  transaction sees through snapshot and batch is the replay of its log.
  `InMemoryIsSerial`, the refinement of `SerialStore`, adds that the writer's
  snapshot is the committed state.  `ListingIsInBetween` by `ListingInv`, which
  says where each graph name is while the listing looks at one after the other.
  `LastCommitDecides` by `BatchIsLastChange`: a quad is in the batch exactly if
  the log changed it, and as it changed it last.
* `ReasonersProofs`.
  * `VectorIsASet` and `TransactionsReadTheirWrites`, about `DocStore`.  `DocInv`
    says how the staging lists lie to what is committed: what is staged for
    insertion is not committed, what is staged for removal is.  `LogInv` adds that
    what the transaction sees is the replay of its log.
  * `ReasonersUseTheStore`: `Reasoners` implements `DocStore`, a reasoner's own
    transaction being a `Bulk` of the owner; so both hold with reasoners at work
    (`ReasonersStoreIsSound`).
  * `ClosureIsSound` and `ClosureIsComplete`.  The properties speak of a reasoner
    that has been told of all that was committed; the invariants of the time in
    between.  `SoundInv`: an inferred quad is the converse of one that is asserted
    *or removed and not yet told*.  `CompleteInv`: a quad has its converse, asserted
    or inferred, *or has not been told, or its converse's removal has not*.
  * `KnowsIsInBetween`, `ReportIsInBetween`, `FactsAreComplete` and
    `FactsAreInBetween`, about answers.  `CallInv` says that a call under way has
    `held` within what is committed and that within `seen`; each answer adds what
    its reads so far have established, in terms that survive when `held` shrinks
    and `seen` grows.  `ReportInv`: every focus node that has to be blamed has
    been, or is among the members still to be looked at, or its constraint is
    still to come.  `FactsAreInBetween` supposes that no variable stands twice in
    the body of a rule; without that the code finds facts that do not follow, and
    only `FactsAreComplete` holds.
  * `EntailmentsArePresent` and `AnswersAreInBetween` add `ToySubsumption` to what
    the closure and `SymmetricKnows` owe.  By induction over the turns of its loop,
    a class that has been found is reached by a path of edges, and every class one
    edge above a found one is found or on the stack; each turn uses up an edge or
    a class, so the stack is empty in the end.  Conversely a path may be shortened
    to one no longer than the number of classes, which is what `Above` asks for.
    The invariants are `SubsumptionInv`, that what is committed is finite and has
    its types as far as the reasoner was told, and `TypesInv`, what the reads of
    an answer under way have found.
* `ValuesProofs`.  The invariant is `ValuesInv`:
  * `AddInv`: the transaction of an `add_batch` sees what is committed with what it
    has inserted so far, nothing of which was refused, and its batch is valid;
  * `FiniteInv`, that the store is finite and the next id a number;
  * `StoreInv`: as long as nobody else has written, the store holds for each live
    item what `encode` makes of the item that its constructor call builds
    (`Orig`), and nothing more; the call was accepted (`Accepted`);
  * `IndexInv`: each item of the index is *like* that item (`Like`): the same up to
    the order and repetition of its triples and to floats that were written as text
    and read back.

  `Like` is what survives reopening: what is loaded (`LoadedIs`) is like the
  original.  A loaded item is not written again here, so its floats have been
  through one text at most; a Session that moves it to another tier and opens once
  more reads a text of the reread float, which adds nothing if reading is stable
  from then on (`Reparse` idempotent).  The theorems follow from `ValuesInv`.
  `ItemsReadBack` goes through each conversion in turn: a term accepted from Python
  comes back equal in Python's sense (`SameTerm`), a body as the same tree in the
  sense of JSON (`BodyReadsBack`: paths are converted one to one, because keys
  are strings).  `QueriesFindWhatIsShown` rests on `PatternMatches`: a stored quad
  has the code of a term of the pattern exactly if the two are the same term in
  Python, as `convert.rs` refuses the literals for which that fails.
  `NoMetadataIsStray` also holds when others have written.  `ShallowStoresReopen`
  supposes `ShallowBodies`, that no body nests deeper than serde_json reads: it
  holds of the instance of `values` and fails for that of `deep_body`, where
  `Reopens` fails too.  `BatchesAreAddedWhole`: by `AddInv` what is committed in the
  end is what `encode` makes of the whole batch, and every other way out of the
  transaction leaves the store as it was, so `StoreInv` and `IndexInv` hold after
  each step; that new items come as one batch is read off `CommitBatch`.
  `SessionErrorAlwaysCatches` follows each call to the exception it ends with.
* `PySessionProofs`: `LocksAreHeldRight`, `CloseReturnsAllCounts`,
  `LateCallsAreRefused`, `ClosedStaysClosed`.  The invariant adds that a guard
  fits the call that has it (`GuardFits`), that a native call in progress sees an
  open session and the current counter (`NativeIsCurrent`), that the counter
  covers all calls that succeeded (`CountedAll`), and that no close has returned
  while the session is open (`ReturnedIsClosed`).

Proved and not run as invariants of their own: the type invariants `TypeOK`,
`CopiesAgree` and `CitesOlder`, which the theorems cover for every instance.

Only model-checked: the liveness properties (`EveryCallReturns`,
`EveryCallEnds`), since the prover has no rule for fairness or ENABLED, and that
nothing deadlocks, for the same reason.  Every other property of a passing run is a
theorem.

## Not modelled

* `semanticore-context-py/src/config.rs` copies settings into a `SessionConfig`.
  Its objects are shared by reference in Python and read once, when a Session is
  opened; nothing observes them later.  The resulting configurations are the
  constants of `Session`.
* The guard of the test kit forwards each call to its store, and its strategies
  generate inputs, which are constants here.
* Capability bits, profile sets, materialization statistics, `classify` and
  `check_consistency`, and the error and value types of the reasoner, OWL, SHACL
  and Datalog modules that no implementation uses.
* Messages, `Display`, `repr` and `str`; scores and statistics of one query.
* Panics, and so poisoned locks.
* Oxigraph, RocksDB, serde_json, the GIL and the standard library's locks and
  parsers are external and modelled by how the code uses them.

## Plan

Done, in this order: `Session` with its history and proofs; `Transactions`,
`SerialStore`, `OxStore`, `MemStore`; `PySession`; `TermConvert`; `Record`,
`PyValues`, `Values`; `Contract`, `MemContract`; `DocStore`, `Reasoning`,
`Reasoners`; the proofs of the bounds and the history of `Session`, of the
refinements of `SerialStore`, of `Reasoners`, of `Values`, and of the storage
contract.  Worth adding:

1. An abstract `Context` (a map from ids to items and tiers, with atomic calls)
   that `Session` implements when nothing fails, and a weaker one that it
   implements with failures.
2. Configuration builders of the Rust and Python crates, as far as they decide
   which configurations `Session` can be opened with.
