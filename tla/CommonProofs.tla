---------------------------- MODULE CommonProofs ----------------------------
(***************************************************************************)
(* Facts that the proofs of several components share: induction over the   *)
(* natural numbers in a first-order form, listings and images of finite    *)
(* sets, and what Replay and Legal say of a log, call by call.             *)
(***************************************************************************)
EXTENDS Transactions, FiniteSetTheorems, WellFoundedInduction, TLAPS

(* Natural numbers *)

\* A nonempty set of natural numbers has a least element.
LEMMA LeastNatural ==
    ASSUME NEW T \in SUBSET Nat, T # {}
    PROVE  \E n \in T : \A m \in T : n =< m
<1> DEFINE R == OpToRel(<, Nat)
<1>1. IsWellFoundedOn(R, Nat)
    BY NatLessThanWellFounded, Zenon
<1>2. \A a, b \in Nat : a < b => <<a, b>> \in R
    BY Zenon DEF OpToRel
<1> HIDE DEF R
<1>3. PICK x \in T : \A y \in T : ~ (<<y, x>> \in R)
    BY <1>1, WFMin, Zenon
<1>4. \A y \in T : ~ (y < x)
    BY <1>2, <1>3
<1> QED
    BY <1>3, <1>4

\* Induction over the natural numbers, with the property as a set.
LEMMA SetInduction ==
    ASSUME NEW T \in SUBSET Nat, 0 \in T, \A n \in T : n + 1 \in T
    PROVE  T = Nat
<1>1. SUFFICES ASSUME Nat \ T # {} PROVE FALSE
    OBVIOUS
<1>2. PICK x \in Nat \ T : \A y \in Nat \ T : x =< y
    BY <1>1, LeastNatural, Zenon
<1>3. x # 0 /\ x - 1 \in Nat /\ ~ (x =< x - 1)
    BY <1>2
<1>4. x - 1 \in T
    BY <1>2, <1>3
<1> QED
    BY <1>2, <1>3, <1>4

\* A function on the natural numbers may be defined by recursion.
LEMMA NatRecursion ==
    ASSUME NEW S, NEW b \in S, NEW step \in [S -> S]
    PROVE  \E f \in [Nat -> S] : f[0] = b /\ \A n \in Nat : f[n + 1] = step[f[n]]
<1> DEFINE Good(n, g) == /\ g \in [0 .. n -> S] /\ g[0] = b
                         /\ \A i \in 0 .. n - 1 : g[i + 1] = step[g[i]]
           T == {n \in Nat : \E g : Good(n, g)}
<1>1. T = Nat
  <2>1. 0 \in T
    <3>1. Good(0, [i \in 0 .. 0 |-> b])
        OBVIOUS
    <3> QED
        BY <3>1
  <2>2. ASSUME NEW n \in T PROVE n + 1 \in T
    <3>1. PICK g : Good(n, g)
        BY <2>2
    <3> DEFINE h == [i \in 0 .. n + 1 |-> IF i = n + 1 THEN step[g[n]] ELSE g[i]]
    <3>2. Good(n + 1, h)
        BY <3>1
    <3> HIDE DEF Good, h
    <3> QED
        BY <3>2
  <2> HIDE DEF T
  <2> QED
      BY <2>1, <2>2, SetInduction DEF T
<1>2. ASSUME NEW m \in Nat, NEW n \in Nat, m =< n, NEW g, Good(n, g), NEW h, Good(m, h)
      PROVE  g[m] = h[m]
  <2> DEFINE U == {i \in Nat : i =< m => g[i] = h[i]}
  <2>1. 0 \in U
      BY <1>2
  <2>2. ASSUME NEW i \in U PROVE i + 1 \in U
    <3>1. SUFFICES ASSUME i + 1 =< m PROVE g[i + 1] = h[i + 1]
        OBVIOUS
    <3>2. i \in 0 .. n - 1 /\ i \in 0 .. m - 1 /\ g[i] = h[i]
        BY <1>2, <2>2, <3>1
    <3> QED
        BY <1>2, <3>2
  <2> HIDE DEF U
  <2>3. U = Nat
      BY <2>1, <2>2, SetInduction DEF U
  <2> QED
      BY <2>3 DEF U
<1> DEFINE at(n) == CHOOSE g : Good(n, g)
           f == [n \in Nat |-> at(n)[n]]
<1>3. ASSUME NEW n \in Nat PROVE Good(n, at(n))
  <2>1. \E g : Good(n, g)
      BY <1>1
  <2> QED
      BY <2>1, Zenon
<1> HIDE DEF at
<1>4. f \in [Nat -> S] /\ f[0] = b
    BY <1>3
<1>5. ASSUME NEW n \in Nat PROVE f[n + 1] = step[f[n]]
  <2>1. Good(n + 1, at(n + 1)) /\ Good(n, at(n))
    <3> HIDE DEF Good
    <3>1. n + 1 \in Nat
        OBVIOUS
    <3> QED
        BY <1>3, <3>1, Zenon
  <2>2. n + 1 \in Nat /\ n =< n + 1 /\ n \in 0 .. (n + 1) - 1
      OBVIOUS
  <2>3. at(n + 1)[n] = at(n)[n]
    <3> HIDE DEF Good
    <3> QED
        BY <1>2, <2>1, <2>2, Zenon
  <2>4. at(n + 1)[n + 1] = step[at(n + 1)[n]]
      BY <2>1, <2>2
  <2> QED
      BY <2>2, <2>3, <2>4
<1> QED
    BY <1>4, <1>5

-----------------------------------------------------------------------------
(* Finite sets *)

\* A finite set has a listing without repetition, and each of them has all its
\* elements.
LEMMA FiniteListing ==
    ASSUME NEW S, IsFiniteSet(S)
    PROVE  /\ Cardinality(S) \in Nat
           /\ \E f \in [1 .. Cardinality(S) -> S] : \A i, j \in DOMAIN f : f[i] = f[j] => i = j
           /\ \A f \in [1 .. Cardinality(S) -> S] :
                 (\A i, j \in DOMAIN f : f[i] = f[j] => i = j)
                 => \A x \in S : \E i \in 1 .. Cardinality(S) : f[i] = x
<1> DEFINE n == Cardinality(S)
<1>1. n \in Nat /\ ExistsBijection(1 .. n, S)
    BY FS_CardinalityType
<1>2. IsFiniteSet(1 .. n) /\ Cardinality(1 .. n) = n
  <2>1. 1 \in Int /\ n \in Int
      BY <1>1
  <2> HIDE DEF n
  <2> QED
      BY <1>1, <2>1, FS_Interval
<1> HIDE DEF n
<1>3. \E f \in [1 .. n -> S] : \A i, j \in DOMAIN f : f[i] = f[j] => i = j
    BY <1>1, Zenon DEF ExistsBijection, Bijection, Injection, IsInjective
<1>4. ASSUME NEW f \in [1 .. n -> S], \A i, j \in DOMAIN f : f[i] = f[j] => i = j
      PROVE  \A x \in S : \E i \in 1 .. n : f[i] = x
  <2>1. f \in Injection(1 .. n, S)
      BY <1>4, Zenon DEF Injection, IsInjective
  <2>2. f \in Surjection(1 .. n, S)
      BY <2>1, <1>2, FS_Injection DEF n
  <2> QED
      BY <2>2, Zenon DEF Surjection
<1> QED
    BY <1>1, <1>3, <1>4, Zenon DEF n

\* The values of a function on a finite set are finitely many.
LEMMA ImageIsFinite ==
    ASSUME NEW S, IsFiniteSet(S), NEW f, DOMAIN f = S
    PROVE  IsFiniteSet({f[x] : x \in S})
<1> DEFINE T == {f[x] : x \in S}
           g == [x \in S |-> f[x]]
<1>1. g \in Surjection(S, T)
    BY Zenon DEF Surjection
<1> QED
    BY <1>1, FS_Surjection

-----------------------------------------------------------------------------
(* Logs of a transaction *)

LEMMA ReplayNothing ==
    ASSUME NEW S
    PROVE  Replay(S, <<>>) = S /\ Legal(S, <<>>)
BY DEF Replay, ReplayTo, Legal, Stays

\* What the first n calls do does not depend on the calls after them.
LEMMA ReplayPrefix ==
    ASSUME NEW T, NEW S, NEW log \in Seq(T), NEW c \in T, NEW n \in 0 .. Len(log)
    PROVE  ReplayTo(S, Append(log, c), n) = ReplayTo(S, log, n)
<1> DEFINE more == Append(log, c)
<1>1. \A j \in 1 .. n : more[j] = log[j]
    OBVIOUS
<1> HIDE DEF more
<1>2. \A q : \A i \in 0 .. n : Stays(q, more, i, n) <=> Stays(q, log, i, n)
  <2> SUFFICES ASSUME NEW q, NEW i \in 0 .. n PROVE Stays(q, more, i, n) <=> Stays(q, log, i, n)
      OBVIOUS
  <2>1. \A j \in i + 1 .. n : j \in 1 .. n
      OBVIOUS
  <2> QED
      BY <1>1, <2>1 DEF Stays
<1>3. 0 \in 0 .. n /\ \A i \in 1 .. n : i \in 0 .. n
    OBVIOUS
<1> QED
    BY <1>1, <1>2, <1>3 DEF ReplayTo, more

\* A log is replayed one call at a time.
LEMMA ReplayOneMore ==
    ASSUME NEW T, NEW S, NEW log \in Seq(T), NEW c \in T, c.op \in Operations
    PROVE  Replay(S, Append(log, c)) = After(Replay(S, log), c)
<1> DEFINE more == Append(log, c)
           n == Len(log)
           before == Replay(S, log)
           after == Replay(S, more)
           removes(q) == c.op = "remove" /\ c.quad = q
<1>1. /\ n \in Nat /\ Len(more) = n + 1 /\ more[n + 1] = c
      /\ \A j \in 1 .. n : more[j] = log[j]
    OBVIOUS
<1> HIDE DEF more
<1>2. ASSUME NEW q, NEW i \in 0 .. n
      PROVE  Stays(q, more, i, n + 1) <=> Stays(q, log, i, n) /\ ~removes(q)
  <2>1. \A j : j \in i + 1 .. n + 1 <=> j \in i + 1 .. n \/ j = n + 1
      BY <1>1
  <2>2. \A j \in i + 1 .. n : more[j] = log[j]
      BY <1>1
  <2> HIDE DEF n
  <2> QED
      BY <1>1, <2>1, <2>2 DEF Stays
<1>3. \A q : Stays(q, more, n + 1, n + 1)
    BY <1>1 DEF Stays
<1>4. ASSUME NEW q
      PROVE  q \in after <=> (q \in before /\ ~removes(q)) \/ (c.op = "insert" /\ c.quad = q)
  <2>1. q \in after <=> \/ q \in S /\ Stays(q, more, 0, n + 1)
                        \/ \E i \in 1 .. n + 1 : /\ more[i].op = "insert" /\ more[i].quad = q
                                                 /\ Stays(q, more, i, n + 1)
      BY <1>1 DEF Replay, ReplayTo
  <2>2. q \in before <=> \/ q \in S /\ Stays(q, log, 0, n)
                         \/ \E i \in 1 .. n : /\ log[i].op = "insert" /\ log[i].quad = q
                                              /\ Stays(q, log, i, n)
      BY DEF Replay, ReplayTo
  <2>3. 0 \in 0 .. n /\ \A i : i \in 1 .. n + 1 <=> (i \in 1 .. n /\ i \in 0 .. n) \/ i = n + 1
      BY <1>1
  <2>4. \A i \in 1 .. n : more[i] = log[i]
      BY <1>1
  <2> HIDE DEF n, before, after, removes
  <2> QED
      BY <1>1, <1>2, <1>3, <2>1, <2>2, <2>3, <2>4
<1> HIDE DEF before, after
<1>5. after = After(before, c)
  <2>1. CASE c.op = "insert"
      BY <1>4, <2>1 DEF After
  <2>2. CASE c.op = "remove"
      BY <1>4, <2>2 DEF After
  <2>3. CASE c.op = "contains"
      BY <1>4, <2>3 DEF After
  <2> QED
      BY <2>1, <2>2, <2>3 DEF Operations
<1> QED
    BY <1>5 DEF before, after, more

\* One more call leaves a log legal when it returns what is promised there.
LEMMA LegalOneMore ==
    ASSUME NEW T, NEW S, NEW log \in Seq(T), NEW c \in T,
           Legal(S, log), Promised(Replay(S, log), c)
    PROVE  Legal(S, Append(log, c))
<1> DEFINE more == Append(log, c)
<1>1. /\ Len(log) \in Nat /\ DOMAIN more = 1 .. Len(log) + 1 /\ DOMAIN log = 1 .. Len(log)
      /\ \A i \in 1 .. Len(log) : more[i] = log[i]
      /\ more[Len(log) + 1] = c
    OBVIOUS
<1>2. ASSUME NEW i \in DOMAIN more PROVE Promised(ReplayTo(S, more, i - 1), more[i])
  <2>1. i - 1 \in 0 .. Len(log)
      BY <1>1
  <2>2. ReplayTo(S, more, i - 1) = ReplayTo(S, log, i - 1)
      BY <2>1, ReplayPrefix
  <2>3. CASE i \in 1 .. Len(log)
      BY <1>1, <2>2, <2>3 DEF Legal
  <2>4. CASE i = Len(log) + 1
    <3>1. i - 1 = Len(log)
        BY <1>1, <2>4
    <3> QED
        BY <1>1, <2>2, <2>4, <3>1 DEF Replay
  <2> QED
      BY <1>1, <2>3, <2>4
<1> QED
    BY <1>2 DEF Legal
=============================================================================
