----------------------------- MODULE PySession -----------------------------
(***************************************************************************)
(* The Python Session (semanticore-context-py/src/session.rs): threads of  *)
(* one interpreter that share a native Session behind an RwLock.           *)
(*                                                                         *)
(* A call meets three locks: the GIL, the RwLock and the mutex inside the  *)
(* native Session.  It gives the GIL up before it asks for the RwLock and  *)
(* asks for it again after it has released the RwLock; only the getter     *)
(* `closed' keeps the GIL.  The GIL and std's locks are external; nothing  *)
(* is assumed of the order in which they let threads in.                   *)
(*                                                                         *)
(* One counter of SessionStats stands for the native Session's state: a    *)
(* call reads it after taking the mutex and writes it back.                *)
(***************************************************************************)
EXTENDS Naturals

CONSTANTS
    Threads,
    Nobody,
    MaxCalls   \* bound: calls of one thread

ASSUME PyAssumption == Nobody \notin Threads /\ MaxCalls \in Nat

VARIABLES
    gil,              \* the thread attached to the interpreter
    readers, writer,  \* who holds a guard of the RwLock
    mutex,            \* who is inside the native Session
    open, stats,      \* State::Open, or State::Closed(stats)
    count,            \* the counter in the native Session
    thread,           \* where each thread is
    acked,            \* history: calls that succeeded
    closeReturned     \* history: some close has returned to Python

locks == <<gil, readers, writer, mutex>>
session == <<open, stats, count, acked>>
vars == <<locks, session, thread, closeReturned>>

Shared == {"query", "closed"}    \* PySession::read, and the getter
Exclusive == {"add", "close"}    \* PySession::write, and close

\* result is what the call returns or raises; answer the counters that close
\* returns; seen the counter a native call has read; late (history) that the
\* call began after a close had returned.
Frame(pc, op, late, calls) ==
    [pc |-> pc, op |-> op, seen |-> 0, result |-> "none", answer |-> 0,
     late |-> late, calls |-> calls]

\* Thread t, which is at pc, goes on as the record says.
At(t, pc) == thread[t].pc = pc
Becomes(t, r) == thread' = [thread EXCEPT ![t] = r]

-----------------------------------------------------------------------------
(* Making a call *)

\* Python code makes the call, with the GIL; all but the getter detach.
Call(t, op) ==
    /\ At(t, "idle")
    /\ thread[t].calls < MaxCalls
    /\ gil = Nobody
    /\ gil' = IF op = "closed" THEN t ELSE Nobody
    /\ Becomes(t, Frame("lock", op, closeReturned, thread[t].calls + 1))
    /\ UNCHANGED <<readers, writer, mutex, session, closeReturned>>

\* Faulty variant: everyone takes a shared guard.
LockShared(t) ==
    /\ At(t, "lock")
    /\ writer = Nobody
    /\ readers' = readers \cup {t}
    /\ Becomes(t, [thread[t] EXCEPT !.pc = "locked"])
    /\ UNCHANGED <<gil, writer, mutex, session, closeReturned>>

\* read_state and write_state.
Lock(t) ==
    /\ At(t, "lock")
    /\ writer = Nobody
    /\ \/ /\ thread[t].op \in Shared
          /\ readers' = readers \cup {t}
          /\ UNCHANGED writer
       \/ /\ thread[t].op \in Exclusive
          /\ readers = {}
          /\ writer' = t
          /\ UNCHANGED readers
    /\ Becomes(t, [thread[t] EXCEPT !.pc = "locked"])
    /\ UNCHANGED <<gil, mutex, session, closeReturned>>

\* With the guard, the call has its result.
Done(t, result, answer) ==
    Becomes(t, [thread[t] EXCEPT !.pc = "unlock", !.result = result, !.answer = answer])

\* query or add on a closed session.
Refuse(t) ==
    /\ At(t, "locked")
    /\ thread[t].op \in {"query", "add"}
    /\ ~open
    /\ Done(t, "SessionClosed", 0)
    /\ UNCHANGED <<locks, session, closeReturned>>

\* Faulty variant: the state of the session is not looked at.
EnterUnchecked(t) ==
    /\ At(t, "locked")
    /\ thread[t].op \in {"query", "add"}
    /\ mutex = Nobody
    /\ mutex' = t
    /\ Becomes(t, [thread[t] EXCEPT !.pc = "native", !.seen = count])
    /\ UNCHANGED <<gil, readers, writer, session, closeReturned>>

\* Faulty variant: the native call takes no mutex.
EnterFreely(t) ==
    /\ At(t, "locked")
    /\ thread[t].op \in {"query", "add"}
    /\ open
    /\ Becomes(t, [thread[t] EXCEPT !.pc = "native", !.seen = count])
    /\ UNCHANGED <<locks, session, closeReturned>>

\* query or add enters the native Session and takes its mutex.
Enter(t) ==
    /\ At(t, "locked")
    /\ thread[t].op \in {"query", "add"}
    /\ open
    /\ mutex = Nobody
    /\ mutex' = t
    /\ Becomes(t, [thread[t] EXCEPT !.pc = "native", !.seen = count])
    /\ UNCHANGED <<gil, readers, writer, session, closeReturned>>

\* The native call returns.  One that fails may have been counted or not.
Leave(t) ==
    /\ At(t, "native")
    /\ mutex' = IF mutex = t THEN Nobody ELSE mutex
    /\ \/ /\ Done(t, "ok", 0)
          /\ count' = thread[t].seen + 1
          /\ acked' = acked + 1
       \/ /\ Done(t, "error", 0)
          /\ count' \in {thread[t].seen, thread[t].seen + 1}
          /\ UNCHANGED acked
    /\ UNCHANGED <<gil, readers, writer, open, stats, closeReturned>>

\* Faulty variant: the counters of the first close are not put back.
CloseForgets(t) ==
    /\ At(t, "locked")
    /\ thread[t].op = "close"
    /\ open' = FALSE
    /\ stats' = IF open THEN count ELSE 0
    /\ Done(t, "ok", IF open THEN count ELSE stats)
    /\ UNCHANGED <<locks, count, acked, closeReturned>>

\* close: the native Session is consumed, which needs no mutex.
Close(t) ==
    /\ At(t, "locked")
    /\ thread[t].op = "close"
    /\ open' = FALSE
    /\ stats' = IF open THEN count ELSE stats
    /\ Done(t, "ok", stats')
    /\ UNCHANGED <<locks, count, acked, closeReturned>>

Closed(t) ==
    /\ At(t, "locked")
    /\ thread[t].op = "closed"
    /\ Done(t, IF open THEN "False" ELSE "True", 0)
    /\ UNCHANGED <<locks, session, closeReturned>>

\* Faulty variant: the guard lives until the thread has the GIL again.
UnlockAttached(t) ==
    /\ At(t, "unlock")
    /\ gil \in {t, Nobody}
    /\ gil' = t
    /\ readers' = readers \ {t}
    /\ writer' = IF writer = t THEN Nobody ELSE writer
    /\ Becomes(t, [thread[t] EXCEPT !.pc = "attached"])
    /\ UNCHANGED <<mutex, session, closeReturned>>

\* The guard is dropped at the end of the detached closure.
Unlock(t) ==
    /\ At(t, "unlock")
    /\ readers' = readers \ {t}
    /\ writer' = IF writer = t THEN Nobody ELSE writer
    /\ Becomes(t, [thread[t] EXCEPT !.pc = IF gil = t THEN "attached" ELSE "detached"])
    /\ UNCHANGED <<gil, mutex, session, closeReturned>>

Attach(t) ==
    /\ At(t, "detached")
    /\ gil = Nobody
    /\ gil' = t
    /\ Becomes(t, [thread[t] EXCEPT !.pc = "attached"])
    /\ UNCHANGED <<readers, writer, mutex, session, closeReturned>>

\* The result is raised or returned; Python code then lets others run.
Return(t) ==
    /\ At(t, "attached")
    /\ gil' = Nobody
    /\ Becomes(t, Frame("idle", "none", FALSE, thread[t].calls))
    /\ closeReturned' = (closeReturned \/ thread[t].op = "close")
    /\ UNCHANGED <<readers, writer, mutex, session>>

-----------------------------------------------------------------------------
\* Session.open has returned.
Init ==
    /\ gil = Nobody
    /\ readers = {} /\ writer = Nobody
    /\ mutex = Nobody
    /\ open = TRUE /\ stats = 0
    /\ count = 0 /\ acked = 0
    /\ thread = [t \in Threads |-> Frame("idle", "none", FALSE, 0)]
    /\ closeReturned = FALSE

\* The steps of a call once it has been made.
Step(t) == \/ Lock(t) \/ Refuse(t) \/ Enter(t) \/ Leave(t) \/ Close(t) \/ Closed(t)
           \/ Unlock(t) \/ Attach(t) \/ Return(t)

Next == \E t \in Threads : Step(t) \/ \E op \in Shared \cup Exclusive : Call(t, op)

Spec == Init /\ [][Next]_vars /\ \A t \in Threads : WF_vars(Step(t))

-----------------------------------------------------------------------------
(* Properties *)

Answered(t) == thread[t].pc \in {"unlock", "detached", "attached"}

\* Readers exclude writers, and a thread inside the native Session has a guard.
LocksAgree ==
    /\ writer # Nobody => readers = {}
    /\ \A t \in Threads :
          /\ thread[t].pc \in {"locked", "native", "unlock"} <=> t \in readers \cup {writer}
          /\ At(t, "native") <=> mutex = t

\* "Close the Session and return its counters.  Closing again returns the same
\* counters": each close that was answered returned the counters of the first,
\* and they count every call that succeeded in any thread, before or while the
\* first close was made.
CloseCountsAll ==
    /\ ~open => stats >= acked
    /\ \A t \in Threads : Answered(t) /\ thread[t].op = "close" =>
                              ~open /\ thread[t].answer = stats

\* A call made after a close has returned finds the session closed.
LateCallsRefused ==
    \A t \in Threads : Answered(t) /\ thread[t].late =>
        CASE thread[t].op \in {"query", "add"} -> thread[t].result = "SessionClosed"
          [] thread[t].op = "closed" -> thread[t].result = "True"
          [] OTHER -> TRUE

\* Once closed, nothing happens in the native Session any more, though calls
\* begun earlier still wait for the lock.
ClosedForGood == [][~open => ~open' /\ count' = count /\ stats' = stats]_vars

\* The three locks never end in everyone waiting for everyone: every call
\* that is made returns to Python.
EveryCallReturns == \A t \in Threads : ~At(t, "idle") ~> At(t, "idle")

\* "Every call into the native session runs detached from the interpreter (the
\* GIL is released), so other Python threads keep running meanwhile": no thread
\* has the GIL and waits for the one that runs the native call.
OthersKeepRunning ==
    ~\E t, u \in Threads : gil = t /\ At(t, "lock") /\ writer = u /\ At(u, "native")
=============================================================================
