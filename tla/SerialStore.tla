----------------------------- MODULE SerialStore -----------------------------
(***************************************************************************)
(* An abstract store whose write transactions are serializable: each takes *)
(* effect as if all its calls had been made when it commits.               *)
(***************************************************************************)
EXTENDS Transactions

CONSTANTS Quads, Txs

VARIABLES
    quads,    \* the committed quads
    log,      \* the calls each open write transaction has made
    outcome   \* how the last call of a writer ended: a transaction was
              \* "committed" or "aborted", or goes on; or, "outside", another
              \* program wrote to the data

svars == <<quads, log, outcome>>

Init ==
    /\ quads = {}
    /\ log = [t \in Txs |-> <<>>]
    /\ outcome = "open"

Begin(t) ==
    /\ log[t] = <<>>
    /\ outcome' = "open"
    /\ UNCHANGED <<quads, log>>

Make(t, c) ==
    /\ log' = [log EXCEPT ![t] = Append(@, c)]
    /\ outcome' = "open"
    /\ UNCHANGED quads

Commit(t) ==
    /\ Legal(quads, log[t])
    /\ quads' = Replay(quads, log[t])
    /\ log' = [log EXCEPT ![t] = <<>>]
    /\ outcome' = "committed"

Abort(t) ==
    /\ log' = [log EXCEPT ![t] = <<>>]
    /\ outcome' = "aborted"
    /\ UNCHANGED quads

Outside ==
    /\ outcome' = "outside"
    /\ \A t \in Txs : log[t] = <<>>
    /\ UNCHANGED log

Next ==
    \/ \E t \in Txs :
          Begin(t) \/ (\E c \in Calls(Quads) : Make(t, c)) \/ Commit(t) \/ Abort(t)
    \/ Outside

Spec == Init /\ [][Next]_svars
=============================================================================
