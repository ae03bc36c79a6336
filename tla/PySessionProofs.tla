-------------------------- MODULE PySessionProofs --------------------------
(***************************************************************************)
(* Proofs about PySession, for any number of threads and calls.            *)
(***************************************************************************)
EXTENDS PySession, TLAPS

-----------------------------------------------------------------------------
(* The inductive invariant *)

Ops == Shared \cup Exclusive

Frames == [pc : {"idle", "lock", "locked", "native", "unlock", "detached", "attached"},
           op : Ops \cup {"none"},
           seen : Nat,
           result : {"none", "ok", "error", "SessionClosed", "True", "False"},
           answer : Nat, late : BOOLEAN, calls : Nat]

Shape ==
    /\ readers \in SUBSET Threads
    /\ writer \in Threads \cup {Nobody}
    /\ mutex \in Threads \cup {Nobody}
    /\ open \in BOOLEAN /\ closeReturned \in BOOLEAN
    /\ stats \in Nat /\ count \in Nat /\ acked \in Nat
    /\ thread \in [Threads -> Frames]
    /\ \A t \in Threads : At(t, "native") => thread[t].op \in {"query", "add"}

\* The guard a thread has is the one its call asks for.
GuardFits == /\ \A t \in readers : thread[t].op \in Shared
             /\ writer # Nobody => thread[writer].op \in Exclusive

\* While a native call is in progress the session is open, and the counter is
\* what the call read: close and other calls are kept out.
NativeIsCurrent == \A t \in Threads : At(t, "native") => open /\ thread[t].seen = count

CountedAll == count >= acked

\* Only a close that has been answered can have returned.
ReturnedIsClosed ==
    /\ closeReturned => ~open
    /\ \A t \in Threads : thread[t].late => ~open

Inv == /\ Shape /\ LocksAgree /\ GuardFits /\ NativeIsCurrent
       /\ CountedAll /\ CloseCountsAll /\ ReturnedIsClosed /\ LateCallsRefused

LEMMA FrameType ==
    ASSUME NEW pc \in {"idle", "lock"}, NEW op \in Ops \cup {"none"},
           NEW late \in BOOLEAN, NEW calls \in Nat
    PROVE  /\ Frame(pc, op, late, calls) \in Frames
           /\ Frame(pc, op, late, calls).pc = pc
           /\ Frame(pc, op, late, calls).late = late
BY DEF Frame, Frames

LEMMA InitInv == Init => Inv
<1> SUFFICES ASSUME Init PROVE Inv
    OBVIOUS
<1> DEFINE r == Frame("idle", "none", FALSE, 0)
<1>1. r \in Frames /\ r.pc = "idle" /\ ~r.late
    BY FrameType
<1>2. \A t \in Threads : thread[t] = r
    BY DEF Init
<1>3. thread \in [Threads -> Frames]
    BY <1>1 DEF Init
<1> HIDE DEF r
<1>4. Shape
    BY <1>1, <1>2, <1>3 DEF Init, Shape, At
<1>5. LocksAgree /\ GuardFits /\ NativeIsCurrent
    BY <1>1, <1>2, PyAssumption DEF Init, LocksAgree, GuardFits, NativeIsCurrent, At
<1>6. CountedAll /\ CloseCountsAll
  <2>1. open /\ count = 0 /\ acked = 0
      BY DEF Init
  <2>2. \A t \in Threads : ~Answered(t)
      BY <1>1, <1>2 DEF Answered
  <2> QED
      BY <2>1, <2>2 DEF CountedAll, CloseCountsAll
<1>7. ~closeReturned /\ \A t \in Threads : ~thread[t].late
    BY <1>1, <1>2 DEF Init
<1>8. ReturnedIsClosed /\ LateCallsRefused
    BY <1>7 DEF ReturnedIsClosed, LateCallsRefused
<1> QED
    BY <1>4, <1>5, <1>6, <1>8 DEF Inv

\* A step of one thread leaves the frames of the others alone.
LEMMA OthersStay ==
    ASSUME Shape, NEW t \in Threads, NEW r \in Frames, Becomes(t, r)
    PROVE  /\ thread' \in [Threads -> Frames]
           /\ thread'[t] = r
           /\ \A u \in Threads \ {t} : thread'[u] = thread[u]
BY DEF Shape, Becomes

LEMMA CallKeepsInv ==
    ASSUME Inv, NEW t \in Threads, NEW op \in Ops, Call(t, op)
    PROVE  Inv'
<1> DEFINE r == Frame("lock", op, closeReturned, thread[t].calls + 1)
<1>1. r \in Frames /\ r.pc = "lock" /\ r.late = closeReturned
  <2>1. thread[t] \in Frames /\ closeReturned \in BOOLEAN
      BY DEF Inv, Shape
  <2>2. thread[t].calls + 1 \in Nat
      BY <2>1 DEF Frames
  <2> QED
      BY <2>1, <2>2, FrameType
<1>2. Becomes(t, r) /\ UNCHANGED <<readers, writer, mutex, session, closeReturned>>
    BY DEF Call
<1> HIDE DEF r
<1>3. /\ thread' \in [Threads -> Frames] /\ thread'[t] = r
      /\ \A u \in Threads \ {t} : thread'[u] = thread[u]
    BY <1>1, <1>2, OthersStay DEF Inv
<1>4. thread[t].pc = "idle"
    BY DEF Call, At
<1>5. UNCHANGED <<open, stats, count, acked>>
    BY <1>2 DEF session
<1>6. t \notin readers /\ t # writer
    BY <1>4 DEF Inv, LocksAgree
<1>7. Shape'
    BY <1>1, <1>2, <1>3, <1>5 DEF Inv, Shape, At
<1>8. LocksAgree'
    BY <1>1, <1>2, <1>3, <1>4 DEF Inv, Shape, LocksAgree, At
<1>9. GuardFits' /\ NativeIsCurrent'
    BY <1>1, <1>2, <1>3, <1>5, <1>6 DEF Inv, Shape, GuardFits, NativeIsCurrent, At
<1>10. CountedAll' /\ CloseCountsAll' /\ ReturnedIsClosed' /\ LateCallsRefused'
    BY <1>1, <1>2, <1>3, <1>5 DEF Inv, CountedAll, CloseCountsAll, ReturnedIsClosed,
                                  LateCallsRefused, Answered
<1> QED
    BY <1>7, <1>8, <1>9, <1>10 DEF Inv

\* A guard is taken when it fits with those that are out.
LEMMA LockKeepsInv ==
    ASSUME Inv, NEW t \in Threads, Lock(t)
    PROVE  Inv'
<1> DEFINE r == [thread[t] EXCEPT !.pc = "locked"]
<1>0. thread[t] \in Frames /\ thread[t].pc = "lock"
    BY DEF Inv, Shape, Lock, At
<1>1. /\ r \in Frames /\ r.pc = "locked"
      /\ r.op = thread[t].op /\ r.late = thread[t].late
    BY <1>0 DEF Frames
<1>2. Becomes(t, r) /\ UNCHANGED <<mutex, open, stats, count, acked, closeReturned>>
    BY DEF Lock, session
<1>3. /\ writer = Nobody
      /\ \/ thread[t].op \in Shared /\ readers' = readers \cup {t} /\ writer' = writer
         \/ /\ thread[t].op \in Exclusive /\ readers = {} /\ readers' = {} /\ writer' = t
    BY DEF Lock
<1> HIDE DEF r
<1>4. /\ thread' \in [Threads -> Frames] /\ thread'[t] = r
      /\ \A u \in Threads \ {t} : thread'[u] = thread[u]
    BY <1>1, <1>2, OthersStay DEF Inv
<1>5. Shape'
    BY <1>1, <1>2, <1>3, <1>4 DEF Inv, Shape, At
<1>6. LocksAgree'
    BY <1>0, <1>1, <1>2, <1>3, <1>4, PyAssumption DEF Inv, Shape, LocksAgree, At
<1>7. GuardFits' /\ NativeIsCurrent'
    BY <1>1, <1>2, <1>3, <1>4, PyAssumption DEF Inv, Shape, GuardFits, NativeIsCurrent, At
<1>8. CountedAll' /\ CloseCountsAll' /\ ReturnedIsClosed' /\ LateCallsRefused'
    BY <1>1, <1>2, <1>4 DEF Inv, CountedAll, CloseCountsAll, ReturnedIsClosed,
                            LateCallsRefused, Answered
<1> QED
    BY <1>5, <1>6, <1>7, <1>8 DEF Inv

\* The session is closed, so no native call is in progress.
LEMMA RefuseKeepsInv ==
    ASSUME Inv, NEW t \in Threads, Refuse(t) \/ Closed(t)
    PROVE  Inv'
<1> DEFINE result == IF Refuse(t) THEN "SessionClosed" ELSE IF open THEN "False" ELSE "True"
           r == [thread[t] EXCEPT !.pc = "unlock", !.result = result, !.answer = 0]
<1>0. thread[t] \in Frames /\ thread[t].pc = "locked"
    BY DEF Inv, Shape, Refuse, Closed, At
<1>1. /\ r \in Frames /\ r.pc = "unlock" /\ r.result = result
      /\ r.op = thread[t].op /\ r.late = thread[t].late
    BY <1>0 DEF Frames
<1>2. Becomes(t, r) /\ UNCHANGED <<readers, writer, mutex, open, stats, count, acked, closeReturned>>
    BY DEF Refuse, Closed, Done, session, locks
<1>3. \/ r.op \in {"query", "add"} /\ result = "SessionClosed"
      \/ r.op = "closed" /\ result = IF open THEN "False" ELSE "True"
    BY <1>1 DEF Refuse, Closed
<1> HIDE DEF r, result
<1>4. /\ thread' \in [Threads -> Frames] /\ thread'[t] = r
      /\ \A u \in Threads \ {t} : thread'[u] = thread[u]
    BY <1>1, <1>2, OthersStay DEF Inv
<1>5. Shape'
    BY <1>1, <1>2, <1>4 DEF Inv, Shape, At
<1>6. LocksAgree'
    BY <1>0, <1>1, <1>2, <1>4, PyAssumption DEF Inv, Shape, LocksAgree, At
<1>7. GuardFits' /\ NativeIsCurrent'
    BY <1>1, <1>2, <1>4, PyAssumption DEF Inv, Shape, GuardFits, NativeIsCurrent, At
<1>8. CountedAll' /\ CloseCountsAll' /\ ReturnedIsClosed'
    BY <1>1, <1>2, <1>3, <1>4 DEF Inv, CountedAll, CloseCountsAll, ReturnedIsClosed, Answered
<1>9. LateCallsRefused'
    BY <1>1, <1>2, <1>3, <1>4 DEF Inv, ReturnedIsClosed, LateCallsRefused, Answered
<1> QED
    BY <1>5, <1>6, <1>7, <1>8, <1>9 DEF Inv

\* The mutex lets one call at a time read the counter.
LEMMA EnterKeepsInv ==
    ASSUME Inv, NEW t \in Threads, Enter(t)
    PROVE  Inv'
<1> DEFINE r == [thread[t] EXCEPT !.pc = "native", !.seen = count]
<1>0. thread[t] \in Frames /\ thread[t].pc = "locked" /\ count \in Nat
      /\ thread[t].op \in {"query", "add"}
    BY DEF Inv, Shape, Enter, At
<1>1. /\ r \in Frames /\ r.pc = "native" /\ r.seen = count
      /\ r.op = thread[t].op /\ r.late = thread[t].late
    BY <1>0 DEF Frames
<1>2. /\ Becomes(t, r) /\ UNCHANGED <<readers, writer, open, stats, count, acked, closeReturned>>
      /\ open /\ mutex = Nobody /\ mutex' = t
    BY DEF Enter, session
<1> HIDE DEF r
<1>4. /\ thread' \in [Threads -> Frames] /\ thread'[t] = r
      /\ \A u \in Threads \ {t} : thread'[u] = thread[u]
    BY <1>1, <1>2, OthersStay DEF Inv
<1>5. Shape'
    BY <1>0, <1>1, <1>2, <1>4 DEF Inv, Shape, At
<1>6. LocksAgree'
    BY <1>0, <1>1, <1>2, <1>4, PyAssumption DEF Inv, Shape, LocksAgree, At
<1>7. GuardFits' /\ NativeIsCurrent'
    BY <1>1, <1>2, <1>4, PyAssumption DEF Inv, Shape, GuardFits, NativeIsCurrent, At
<1>8. CountedAll' /\ CloseCountsAll' /\ ReturnedIsClosed' /\ LateCallsRefused'
    BY <1>1, <1>2, <1>4 DEF Inv, CountedAll, CloseCountsAll, ReturnedIsClosed,
                            LateCallsRefused, Answered
<1> QED
    BY <1>5, <1>6, <1>7, <1>8 DEF Inv

\* The counter written back is the one read, plus one, so no count is lost.
LEMMA LeaveKeepsInv ==
    ASSUME Inv, NEW t \in Threads, Leave(t)
    PROVE  Inv'
<1>0. /\ thread[t] \in Frames /\ thread[t].pc = "native" /\ thread[t].op \in {"query", "add"}
      /\ mutex = t /\ open /\ thread[t].seen = count /\ count \in Nat /\ acked \in Nat
    BY DEF Inv, Shape, Leave, At, LocksAgree, NativeIsCurrent
<1>1. PICK result \in {"ok", "error"} :
          Becomes(t, [thread[t] EXCEPT !.pc = "unlock", !.result = result, !.answer = 0])
    BY DEF Leave, Done
<1> DEFINE r == [thread[t] EXCEPT !.pc = "unlock", !.result = result, !.answer = 0]
<1>2. /\ r \in Frames /\ r.pc = "unlock"
      /\ r.op = thread[t].op /\ r.late = thread[t].late
    BY <1>0 DEF Frames
<1>3. /\ UNCHANGED <<readers, writer, open, stats, closeReturned>>
      /\ mutex' = Nobody
    BY <1>0 DEF Leave
<1>4. \/ count' = count + 1 /\ acked' = acked + 1
      \/ count' \in {count, count + 1} /\ acked' = acked
    BY <1>0 DEF Leave
<1> HIDE DEF r
<1>5. /\ thread' \in [Threads -> Frames] /\ thread'[t] = r
      /\ \A u \in Threads \ {t} : thread'[u] = thread[u]
    BY <1>1, <1>2, OthersStay DEF Inv, r
<1>6. Shape'
    BY <1>0, <1>2, <1>3, <1>4, <1>5 DEF Inv, Shape, At
<1>7. \A u \in Threads \ {t} : thread[u].pc # "native"
    BY <1>0 DEF Inv, LocksAgree, At
<1>8. LocksAgree'
    BY <1>0, <1>2, <1>3, <1>5, <1>7, PyAssumption DEF Inv, Shape, LocksAgree, At
<1>9. GuardFits' /\ NativeIsCurrent'
    BY <1>2, <1>3, <1>5, <1>7, PyAssumption DEF Inv, Shape, GuardFits, NativeIsCurrent, At
<1>10. CountedAll'
    BY <1>0, <1>4 DEF Inv, CountedAll
<1>11. CloseCountsAll' /\ ReturnedIsClosed' /\ LateCallsRefused'
    BY <1>0, <1>2, <1>3, <1>5 DEF Inv, CloseCountsAll, ReturnedIsClosed,
                                  LateCallsRefused, Answered
<1> QED
    BY <1>6, <1>8, <1>9, <1>10, <1>11 DEF Inv

\* close has the only guard, so no native call is in progress and the counter
\* it takes is final.
LEMMA CloseKeepsInv ==
    ASSUME Inv, NEW t \in Threads, Close(t)
    PROVE  Inv'
<1> DEFINE r == [thread[t] EXCEPT !.pc = "unlock", !.result = "ok", !.answer = stats']
<1>0. /\ thread[t] \in Frames /\ thread[t].pc = "locked" /\ thread[t].op = "close"
      /\ stats' \in Nat
    BY DEF Inv, Shape, Close, At
<1>1. t = writer /\ readers = {}
    BY <1>0, PyAssumption DEF Inv, Shape, LocksAgree, GuardFits, Shared
<1>2. \A u \in Threads : thread[u].pc # "native"
    BY <1>0, <1>1 DEF Inv, LocksAgree
<1>3. /\ r \in Frames /\ r.pc = "unlock" /\ r.answer = stats'
      /\ r.op = "close" /\ r.late = thread[t].late
    BY <1>0 DEF Frames
<1>4. /\ Becomes(t, r) /\ UNCHANGED <<readers, writer, mutex, count, acked, closeReturned>>
      /\ ~open' /\ open' \in BOOLEAN
    BY DEF Close, Done, locks
<1>5. stats' = IF open THEN count ELSE stats
    BY DEF Close
<1> HIDE DEF r
<1>6. /\ thread' \in [Threads -> Frames] /\ thread'[t] = r
      /\ \A u \in Threads \ {t} : thread'[u] = thread[u]
    BY <1>3, <1>4, OthersStay DEF Inv
<1>7. Shape'
    BY <1>0, <1>3, <1>4, <1>6 DEF Inv, Shape, At
<1>8. LocksAgree'
    BY <1>0, <1>3, <1>4, <1>6, PyAssumption DEF Inv, Shape, LocksAgree, At
<1>9. GuardFits' /\ NativeIsCurrent'
    BY <1>0, <1>2, <1>3, <1>4, <1>6, PyAssumption
    DEF Inv, Shape, GuardFits, NativeIsCurrent, At
<1>10. CountedAll' /\ ReturnedIsClosed'
    BY <1>4 DEF Inv, CountedAll, ReturnedIsClosed
<1>11. CloseCountsAll'
    BY <1>3, <1>4, <1>5, <1>6 DEF Inv, CountedAll, CloseCountsAll, Answered
<1>12. LateCallsRefused'
    BY <1>3, <1>6 DEF Inv, LateCallsRefused, Answered
<1> QED
    BY <1>7, <1>8, <1>9, <1>10, <1>11, <1>12 DEF Inv

LEMMA UnlockKeepsInv ==
    ASSUME Inv, NEW t \in Threads, Unlock(t)
    PROVE  Inv'
<1>0. thread[t] \in Frames /\ thread[t].pc = "unlock"
    BY DEF Inv, Shape, Unlock, At
<1>1. PICK pc \in {"attached", "detached"} : Becomes(t, [thread[t] EXCEPT !.pc = pc])
    BY DEF Unlock
<1> DEFINE r == [thread[t] EXCEPT !.pc = pc]
<1>2. /\ r \in Frames /\ r.pc = pc /\ r.op = thread[t].op /\ r.late = thread[t].late
      /\ r.result = thread[t].result /\ r.answer = thread[t].answer
    BY <1>0 DEF Frames
<1>3. /\ readers' = readers \ {t} /\ writer' = IF writer = t THEN Nobody ELSE writer
      /\ UNCHANGED <<mutex, open, stats, count, acked, closeReturned>>
    BY DEF Unlock, session
<1> HIDE DEF r
<1>4. /\ thread' \in [Threads -> Frames] /\ thread'[t] = r
      /\ \A u \in Threads \ {t} : thread'[u] = thread[u]
    BY <1>1, <1>2, OthersStay DEF Inv, r
<1>5. Shape'
    BY <1>2, <1>3, <1>4 DEF Inv, Shape, At
<1>6. LocksAgree'
    BY <1>0, <1>2, <1>3, <1>4, PyAssumption DEF Inv, Shape, LocksAgree, At
<1>7. GuardFits' /\ NativeIsCurrent'
    BY <1>2, <1>3, <1>4, PyAssumption DEF Inv, Shape, GuardFits, NativeIsCurrent, At
<1>8. CountedAll' /\ CloseCountsAll' /\ ReturnedIsClosed'
    BY <1>0, <1>2, <1>3, <1>4 DEF Inv, CountedAll, CloseCountsAll, ReturnedIsClosed, Answered
<1>9. LateCallsRefused'
    BY <1>0, <1>2, <1>3, <1>4 DEF Inv, LateCallsRefused, Answered
<1> QED
    BY <1>5, <1>6, <1>7, <1>8, <1>9 DEF Inv

LEMMA AttachKeepsInv ==
    ASSUME Inv, NEW t \in Threads, Attach(t)
    PROVE  Inv'
<1> DEFINE r == [thread[t] EXCEPT !.pc = "attached"]
<1>0. thread[t] \in Frames /\ thread[t].pc = "detached"
    BY DEF Inv, Shape, Attach, At
<1>1. /\ r \in Frames /\ r.pc = "attached" /\ r.op = thread[t].op /\ r.late = thread[t].late
      /\ r.result = thread[t].result /\ r.answer = thread[t].answer
    BY <1>0 DEF Frames
<1>2. /\ Becomes(t, r)
      /\ UNCHANGED <<readers, writer, mutex, open, stats, count, acked, closeReturned>>
    BY DEF Attach, session
<1> HIDE DEF r
<1>3. /\ thread' \in [Threads -> Frames] /\ thread'[t] = r
      /\ \A u \in Threads \ {t} : thread'[u] = thread[u]
    BY <1>1, <1>2, OthersStay DEF Inv
<1>4. Shape'
    BY <1>1, <1>2, <1>3 DEF Inv, Shape, At
<1>5. LocksAgree'
    BY <1>0, <1>1, <1>2, <1>3, PyAssumption DEF Inv, Shape, LocksAgree, At
<1>6. GuardFits' /\ NativeIsCurrent'
    BY <1>1, <1>2, <1>3, PyAssumption DEF Inv, Shape, GuardFits, NativeIsCurrent, At
<1>7. CountedAll' /\ CloseCountsAll' /\ ReturnedIsClosed'
    BY <1>0, <1>1, <1>2, <1>3 DEF Inv, CountedAll, CloseCountsAll, ReturnedIsClosed, Answered
<1>8. LateCallsRefused'
    BY <1>0, <1>1, <1>2, <1>3 DEF Inv, LateCallsRefused, Answered
<1> QED
    BY <1>4, <1>5, <1>6, <1>7, <1>8 DEF Inv

LEMMA ReturnKeepsInv ==
    ASSUME Inv, NEW t \in Threads, Return(t)
    PROVE  Inv'
<1> DEFINE r == Frame("idle", "none", FALSE, thread[t].calls)
<1>0. thread[t] \in Frames /\ thread[t].pc = "attached" /\ Answered(t)
    BY DEF Inv, Shape, Return, At, Answered
<1>1. r \in Frames /\ r.pc = "idle" /\ ~r.late
  <2>1. thread[t].calls \in Nat
      BY <1>0 DEF Frames
  <2> QED
      BY <2>1, FrameType
<1>2. Becomes(t, r) /\ UNCHANGED <<readers, writer, mutex, open, stats, count, acked>>
    BY DEF Return, session
<1>3. closeReturned' \in BOOLEAN /\ (closeReturned' => closeReturned \/ thread[t].op = "close")
    BY DEF Return
<1> HIDE DEF r
<1>4. /\ thread' \in [Threads -> Frames] /\ thread'[t] = r
      /\ \A u \in Threads \ {t} : thread'[u] = thread[u]
    BY <1>1, <1>2, OthersStay DEF Inv
<1>5. t \notin readers /\ t # writer
    BY <1>0 DEF Inv, LocksAgree
<1>6. Shape'
    BY <1>1, <1>2, <1>3, <1>4 DEF Inv, Shape, At
<1>7. LocksAgree'
    BY <1>0, <1>1, <1>2, <1>4, PyAssumption DEF Inv, Shape, LocksAgree, At
<1>8. GuardFits' /\ NativeIsCurrent'
    BY <1>1, <1>2, <1>4, <1>5, PyAssumption DEF Inv, Shape, GuardFits, NativeIsCurrent, At
<1>9. CountedAll' /\ CloseCountsAll'
    BY <1>1, <1>2, <1>4 DEF Inv, CountedAll, CloseCountsAll, Answered
<1>10. ReturnedIsClosed'
    BY <1>0, <1>1, <1>2, <1>3, <1>4 DEF Inv, CloseCountsAll, ReturnedIsClosed
<1>11. LateCallsRefused'
    BY <1>1, <1>2, <1>4 DEF Inv, LateCallsRefused, Answered
<1> QED
    BY <1>6, <1>7, <1>8, <1>9, <1>10, <1>11 DEF Inv

-----------------------------------------------------------------------------
(* The theorems *)

LEMMA InvIsInvariant == Spec => []Inv
<1>1. Inv /\ [Next]_vars => Inv'
  <2> SUFFICES ASSUME Inv, [Next]_vars PROVE Inv'
      OBVIOUS
  <2>1. ASSUME NEW t \in Threads, Step(t) PROVE Inv'
      BY <2>1, LockKeepsInv, RefuseKeepsInv, EnterKeepsInv, LeaveKeepsInv, CloseKeepsInv,
         UnlockKeepsInv, AttachKeepsInv, ReturnKeepsInv DEF Step
  <2>2. ASSUME NEW t \in Threads, NEW op \in Shared \cup Exclusive, Call(t, op) PROVE Inv'
      BY <2>2, CallKeepsInv DEF Ops
  <2>3. CASE UNCHANGED vars
    <3>1. UNCHANGED <<readers, writer, mutex, open, stats, count, acked, thread, closeReturned>>
        BY <2>3 DEF vars, locks, session
    <3>2. Shape' /\ LocksAgree' /\ GuardFits' /\ NativeIsCurrent'
        BY <3>1 DEF Inv, Shape, LocksAgree, GuardFits, NativeIsCurrent, At
    <3>3. CountedAll' /\ CloseCountsAll' /\ ReturnedIsClosed' /\ LateCallsRefused'
        BY <3>1 DEF Inv, CountedAll, CloseCountsAll, ReturnedIsClosed, LateCallsRefused, Answered
    <3> QED
        BY <3>2, <3>3 DEF Inv
  <2> QED
      BY <2>1, <2>2, <2>3 DEF Next
<1> QED
    BY <1>1, InitInv, PTL DEF Spec

\* However the calls of the threads interleave, a close returns the counters of
\* the first close, and they count every call that succeeded (PySession::close).
THEOREM CloseReturnsAllCounts == Spec => []CloseCountsAll
<1>1. Inv => CloseCountsAll
    BY DEF Inv
<1> QED
    BY <1>1, InvIsInvariant, PTL

\* A call made once a close has returned raises SessionClosed, and the getter
\* `closed' answers True.
THEOREM LateCallsAreRefused == Spec => []LateCallsRefused
<1>1. Inv => LateCallsRefused
    BY DEF Inv
<1> QED
    BY <1>1, InvIsInvariant, PTL

\* The guards of the RwLock and the mutex are held by those who run with them.
THEOREM LocksAreHeldRight == Spec => []LocksAgree
<1>1. Inv => LocksAgree
    BY DEF Inv
<1> QED
    BY <1>1, InvIsInvariant, PTL

\* A call that waited for the RwLock while close ran does not reach the native
\* Session: after close nothing changes in it.
THEOREM ClosedStaysClosed == Spec => ClosedForGood
<1>1. Inv /\ [Next]_vars => [~open => ~open' /\ count' = count /\ stats' = stats]_vars
  <2> SUFFICES ASSUME Inv, Next, ~open PROVE ~open' /\ count' = count /\ stats' = stats
      OBVIOUS
  <2>1. \A t \in Threads : ~Leave(t)
      BY DEF Inv, NativeIsCurrent, Leave
  <2>2. ASSUME NEW t \in Threads, Step(t) PROVE ~open' /\ count' = count /\ stats' = stats
    <3>1. CASE Close(t)
        BY <3>1 DEF Close
    <3>2. CASE ~Close(t)
      <4>1. UNCHANGED session
          BY <2>1, <2>2, <3>2
          DEF Step, Lock, Refuse, Enter, Closed, Unlock, Attach, Return
      <4> QED
          BY <4>1 DEF session
    <3> QED
        BY <3>1, <3>2
  <2>3. ASSUME NEW t \in Threads, NEW op \in Shared \cup Exclusive, Call(t, op)
        PROVE  ~open' /\ count' = count /\ stats' = stats
      BY <2>3 DEF Call, session
  <2> QED
      BY <2>2, <2>3 DEF Next
<1> QED
    BY <1>1, InvIsInvariant, PTL DEF Spec, ClosedForGood
=============================================================================
