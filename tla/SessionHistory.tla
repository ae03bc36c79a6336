---------------------------- MODULE SessionHistory ----------------------------
(***************************************************************************)
(* Session with history variables: what callers have seen, to compare with *)
(* what the Session keeps.  They record and never constrain.               *)
(***************************************************************************)
EXTENDS Session

VARIABLES
    before,    \* the scope of each item when the running call began
    given,     \* the scope of each item the running call added
    answered,  \* queries that returned a result
    moved,     \* items that changed scope, up and down
    removed    \* items that were removed or dropped; survives restarts

history == <<before, given, answered, moved, removed>>
hvars == <<vars, history>>

ScopesOf(its) == [id \in DOMAIN its |-> its[id].scope]

Begins == call = Idle /\ call' # Idle

Moved(Rel(_, _)) ==
    Cardinality({id \in DOMAIN items \cap DOMAIN items' :
                    Rel(Durability(items[id].scope), Durability(items'[id].scope))})

Record ==
    /\ before' = CASE Begins -> ScopesOf(items)
                   [] call' = Idle -> Empty
                   [] OTHER -> before
    /\ given' = CASE Begins -> Restrict(ScopesOf(items'), DOMAIN items' \ DOMAIN items)
                  [] call' = Idle -> Empty
                  [] OTHER -> given
    /\ answered' = CASE session' = "closed" -> 0
                     [] call = "query" /\ Return -> answered + 1
                     [] OTHER -> answered
    /\ moved' = IF session' = "closed" THEN [up |-> 0, down |-> 0]
                ELSE [up |-> moved.up + Moved(<), down |-> moved.down + Moved(>)]
    /\ removed' = IF session = "open" /\ session' = "open"
                  THEN (removed \cup DOMAIN items) \ DOMAIN items'
                  ELSE removed

HInit ==
    /\ Init
    /\ before = Empty
    /\ given = Empty
    /\ answered = 0
    /\ moved = [up |-> 0, down |-> 0]
    /\ removed = {}

HistorySpec == HInit /\ [][Next /\ Record]_hvars
CalmHistorySpec == HInit /\ [][CalmNext /\ Record]_hvars

-----------------------------------------------------------------------------
(* Properties of the tiers *)

\* All that is left to the running call is to return.
Done == call # Idle /\ work = <<>> /\ tally = NoTally /\ next = NoScope

\* auto_promote applies both rules "against the state as it stands, so an item
\* moves at most one tier per call".
OneTierPerQuery ==
    call = "query" =>
        \A id \in DOMAIN items \cap DOMAIN before :
            Durability(items[id].scope) <= Durability(before[id]) + 1

\* Under OneStepThenDrop enforcing the bounds in cascade never carries an item
\* down two scopes within a call: it is dropped instead.
OneStepDown ==
    DemotionTarget = "OneStepThenDrop" /\ call # "demote" =>
        \A id \in DOMAIN items \cap DOMAIN before :
            Durability(items[id].scope) >= Durability(before[id]) - 1

\* The batch that the running call has added fits the bound of its scope.
BatchFits == \A id \in DOMAIN given : Cardinality(DOMAIN given) <= Bounds[given[id]]

\* Under LRU a batch that fits its scope does not evict its own items: the
\* ids that add_batch returns are live.
LruKeepsTheBatch ==
    /\ EvictionPolicy = "Lru"
    /\ call = "add" /\ Done
    /\ BatchFits
    => \A id \in DOMAIN given : id \in DOMAIN items /\ items[id].scope = given[id]

\* A call that returns has left the scopes it put items in, and all colder
\* ones, within their bounds, however its evictions cascade.  So only what a
\* call that was cut short left over its bound can be over it when another
\* returns, and that one has added nothing there.
WithinBounds ==
    Done => \A s \in Scopes :
        \/ Cardinality(InScope(items, s)) <= Bounds[s]
        \/ fault /\ InScope(items, s) \subseteq {id \in DOMAIN before : before[id] = s}

-----------------------------------------------------------------------------
(* Properties of what the Session reports *)

\* Between calls the counters say what happened: queries_served "Queries that
\* returned a result", items_promoted and items_demoted the items moved to a
\* more and to a less durable scope.  A call that is cut short may have counted
\* a query that it does not answer, and moves that it does not count, but no
\* answer goes uncounted and no move is counted that was not made.
CountersAreRight ==
    /\ answered <= stats.queries_served
    /\ stats.items_promoted <= moved.up
    /\ stats.items_demoted <= moved.down
    /\ ~fault /\ call = Idle => /\ stats.queries_served = answered
                               /\ stats.items_promoted = moved.up
                               /\ stats.items_demoted = moved.down

\* An item that was removed or dropped stays away, whatever is reopened.
RemovedStaysRemoved == removed \cap DOMAIN items = {}

\* Unless a call was cut short, no removed item comes back.
RemovedForGood == ~fault => RemovedStaysRemoved
=============================================================================
