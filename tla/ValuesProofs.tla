---------------------------- MODULE ValuesProofs ----------------------------
(***************************************************************************)
(* Proofs about Values, for any batches, queries and metadata of another   *)
(* program, whatever texts, numbers and spellings they hold.               *)
(***************************************************************************)
EXTENDS Values, TermConvertProofs, CommonProofs

-----------------------------------------------------------------------------
(* Results of conversions *)

LEMMA Results ==
    /\ \A v : IsOk(Ok(v)) /\ Ok(v).ok = v
    /\ \A c : ~IsOk(Raise(c)) /\ Raise(c).raised = c
BY DEF IsOk, Ok, Raise

\* Min takes the least element of a set of natural numbers.
LEMMA MinIs ==
    ASSUME NEW S \in SUBSET Nat, S # {}
    PROVE  Min(S) \in S /\ \A y \in S : Min(S) =< y
<1>1. \E x \in S : \A y \in S : x =< y
    BY LeastNatural
<1> QED
    BY <1>1 DEF Min

\* Collect succeeds when every part does, and fails as one of them otherwise.
LEMMA CollectIs ==
    ASSUME NEW rs, DOMAIN rs \subseteq Nat
    PROVE  /\ (\A i \in DOMAIN rs : IsOk(rs[i])) =>
                 Collect(rs) = Ok([i \in DOMAIN rs |-> rs[i].ok])
           /\ (\E i \in DOMAIN rs : ~IsOk(rs[i])) =>
                 \E i \in DOMAIN rs : ~IsOk(rs[i]) /\ Collect(rs) = rs[i]
<1> DEFINE failed == {i \in DOMAIN rs : ~IsOk(rs[i])}
<1>1. Collect(rs) = IF failed # {} THEN rs[Min(failed)] ELSE Ok([i \in DOMAIN rs |-> rs[i].ok])
    BY Zenon DEF Collect
<1>2. failed # {} => Min(failed) \in failed
  <2>1. failed \in SUBSET Nat
      OBVIOUS
  <2> HIDE DEF failed
  <2> QED
      BY <2>1, MinIs
<1>3. (\A i \in DOMAIN rs : IsOk(rs[i])) => failed = {}
    OBVIOUS
<1>4. (\E i \in DOMAIN rs : ~IsOk(rs[i])) => failed # {}
    OBVIOUS
<1>5. failed # {} => Min(failed) \in DOMAIN rs /\ ~IsOk(rs[Min(failed)])
    BY <1>2
<1> HIDE DEF failed
<1> QED
    BY <1>1, <1>3, <1>4, <1>5, Zenon

-----------------------------------------------------------------------------
(* Which exceptions are a SessionError *)

LEMMA ClassesAreFinite ==
    Cardinality(DOMAIN Base) \in Nat /\ Cardinality(DOMAIN Base) >= 2
<1>1. IsFiniteSet(DOMAIN Base)
  <2> DEFINE f == <<"CapabilityShortfallError", "MissingProvenanceError", "InvalidItemError",
                    "UnknownItemError", "ScopeMismatchError", "DurabilityViolationError",
                    "PremiumOnlyError", "NotYetImplementedError", "CorruptStoreError",
                    "StorageError", "SessionClosedError", "ShaclUnavailableError",
                    "DatalogUnavailableError", "SessionError", "TypeError", "ValueError",
                    "UnicodeEncodeError">>
  <2>1. DOMAIN f = 1 .. 17
      OBVIOUS
  <2>2. IsFiniteSet(1 .. 17)
      BY FS_Interval, 1 \in Int, 17 \in Int, Zenon
  <2>3. {f[x] : x \in 1 .. 17} = DOMAIN Base
    <3>1. \A x \in 1 .. 17 : f[x] \in DOMAIN Base
        BY DEF Base, SessionErrors, PremiumErrors, PyErrors
    <3>2. \A c \in DOMAIN Base : \E x \in 1 .. 17 : c = f[x]
      <4>1. /\ f[1] = "CapabilityShortfallError" /\ f[2] = "MissingProvenanceError"
            /\ f[3] = "InvalidItemError" /\ f[4] = "UnknownItemError"
            /\ f[5] = "ScopeMismatchError" /\ f[6] = "DurabilityViolationError"
            /\ f[7] = "PremiumOnlyError" /\ f[8] = "NotYetImplementedError"
            /\ f[9] = "CorruptStoreError" /\ f[10] = "StorageError"
            /\ f[11] = "SessionClosedError" /\ f[12] = "ShaclUnavailableError"
            /\ f[13] = "DatalogUnavailableError" /\ f[14] = "SessionError"
            /\ f[15] = "TypeError" /\ f[16] = "ValueError" /\ f[17] = "UnicodeEncodeError"
          OBVIOUS
      <4> HIDE DEF f
      <4> QED
          BY <4>1 DEF Base, SessionErrors, PremiumErrors, PyErrors
    <3> HIDE DEF f
    <3> QED
        BY <3>1, <3>2
  <2> HIDE DEF f
  <2> QED
      BY <2>1, <2>2, <2>3, ImageIsFinite
<1>2. IsFiniteSet({"TypeError", "ValueError"}) /\ Cardinality({"TypeError", "ValueError"}) = 2
  <2>1. IsFiniteSet({"TypeError"}) /\ Cardinality({"TypeError"}) = 1
      BY FS_Singleton
  <2>2. {"TypeError"} \cup {"ValueError"} = {"TypeError", "ValueError"} /\ "ValueError" \notin {"TypeError"}
      OBVIOUS
  <2> QED
      BY <2>1, <2>2, FS_AddElement
<1>3. {"TypeError", "ValueError"} \subseteq DOMAIN Base
    BY DEF Base, PyErrors
<1> QED
    BY <1>1, <1>2, <1>3, FS_Subset, FS_CardinalityType

LEMMA LineageIs ==
    ASSUME NEW class
    PROVE  LET parents(S) == S \cup {Base[c] : c \in S \cap DOMAIN Base}
           IN  \E up : /\ Lineage(class) = up[Cardinality(DOMAIN Base)]
                       /\ up[0] = {class}
                       /\ \A n \in Nat : up[n + 1] = parents(up[n])
<1> DEFINE Classes == {class} \cup DOMAIN Base \cup {Base[c] : c \in DOMAIN Base}
           parents(S) == S \cup {Base[c] : c \in S \cap DOMAIN Base}
           step == [S \in SUBSET Classes |-> parents(S)]
           Is(f) == f = [n \in Nat |-> IF n = 0 THEN {class} ELSE parents(f[n - 1])]
<1>1. step \in [SUBSET Classes -> SUBSET Classes]
    OBVIOUS
<1>2. {class} \in SUBSET Classes
    OBVIOUS
<1> HIDE DEF step, Classes
<1>3. \E f \in [Nat -> SUBSET Classes] :
         f[0] = {class} /\ \A n \in Nat : f[n + 1] = step[f[n]]
  <2> DEFINE All == SUBSET Classes
             least == {class}
  <2>1. least \in All /\ step \in [All -> All]
      BY <1>1, <1>2
  <2> HIDE DEF All, least
  <2>2. \E f \in [Nat -> All] : f[0] = least /\ \A n \in Nat : f[n + 1] = step[f[n]]
      BY <2>1, NatRecursion
  <2> QED
      BY <2>2 DEF All, least
<1>4. PICK g \in [Nat -> SUBSET Classes] :
         g[0] = {class} /\ \A n \in Nat : g[n + 1] = step[g[n]]
    BY <1>3
<1>5. \A n \in Nat : g[n + 1] = parents(g[n])
    BY <1>4 DEF step
<1>6. ASSUME NEW n \in Nat PROVE g[n] = IF n = 0 THEN {class} ELSE parents(g[n - 1])
  <2>1. CASE n = 0
      BY <1>4, <2>1
  <2>2. CASE n # 0
    <3>1. n - 1 \in Nat /\ (n - 1) + 1 = n
        BY <2>2
    <3>2. g[(n - 1) + 1] = parents(g[n - 1])
        BY <1>5, <3>1
    <3> QED
        BY <2>2, <3>1, <3>2
  <2> QED
      BY <2>1, <2>2
<1>7. Is(g)
    BY <1>4, <1>6
<1> DEFINE up == CHOOSE f : Is(f)
<1>8. Is(up)
  <2> HIDE DEF Is
  <2> QED
      BY <1>7
<1>9. Lineage(class) = up[Cardinality(DOMAIN Base)]
    BY Zenon DEF Lineage
<1>10. up[0] = {class} /\ \A n \in Nat : up[n + 1] = parents(up[n])
  <2> HIDE DEF up
  <2>1. \A n \in Nat : n + 1 \in Nat /\ n + 1 # 0 /\ (n + 1) - 1 = n
      OBVIOUS
  <2> QED
      BY <1>8, <2>1
<1> HIDE DEF up
<1> QED
    BY <1>9, <1>10

\* A set of classes that Base leaves only for a class of the set holds the
\* lineage of its members.
LEMMA LineageStays ==
    ASSUME NEW S, \A c \in S \cap DOMAIN Base : Base[c] \in S, NEW class \in S
    PROVE  Lineage(class) \subseteq S
<1> DEFINE parents(T) == T \cup {Base[c] : c \in T \cap DOMAIN Base}
<1>1. PICK up : /\ Lineage(class) = up[Cardinality(DOMAIN Base)]
                /\ up[0] = {class}
                /\ \A n \in Nat : up[n + 1] = parents(up[n])
    BY LineageIs
<1> DEFINE T == {n \in Nat : up[n] \subseteq S}
<1>2. 0 \in T
    BY <1>1
<1>3. \A n \in T : n + 1 \in T
    BY <1>1
<1> HIDE DEF T
<1>4. T = Nat
    BY <1>2, <1>3, SetInduction DEF T
<1> QED
    BY <1>1, <1>4, ClassesAreFinite DEF T

\* Within two steps, a class is in the lineage.
LEMMA LineageHas ==
    ASSUME NEW class
    PROVE  /\ class \in Lineage(class)
           /\ class \in DOMAIN Base => Base[class] \in Lineage(class)
           /\ class \in DOMAIN Base /\ Base[class] \in DOMAIN Base =>
                 Base[Base[class]] \in Lineage(class)
<1> DEFINE parents(T) == T \cup {Base[c] : c \in T \cap DOMAIN Base}
           N == Cardinality(DOMAIN Base)
<1>1. PICK up : /\ Lineage(class) = up[N]
                /\ up[0] = {class}
                /\ \A n \in Nat : up[n + 1] = parents(up[n])
    BY LineageIs
<1>2. up[0 + 1] = parents(up[0]) /\ up[1 + 1] = parents(up[1])
    BY <1>1
<1>3. 0 + 1 = 1 /\ 1 + 1 = 2
    OBVIOUS
<1>4. /\ class \in up[2]
      /\ class \in DOMAIN Base => Base[class] \in up[2]
      /\ class \in DOMAIN Base /\ Base[class] \in DOMAIN Base => Base[Base[class]] \in up[2]
    BY <1>1, <1>2, <1>3
<1> DEFINE T == {n \in Nat : up[2] \subseteq up[n + 2]}
<1>5. 0 \in T
    OBVIOUS
<1>6. \A n \in T : n + 1 \in T
  <2>1. SUFFICES ASSUME NEW n \in T PROVE n + 1 \in T
      BY Zenon
  <2>2. (n + 1) + 2 = (n + 2) + 1 /\ n + 2 \in Nat /\ n + 1 \in Nat
      OBVIOUS
  <2>3. up[n + 2] \subseteq up[(n + 2) + 1]
      BY <1>1, <2>2
  <2> QED
      BY <2>2, <2>3
<1> HIDE DEF T, N
<1>7. T = Nat
    BY <1>5, <1>6, SetInduction DEF T
<1>8. N - 2 \in T /\ (N - 2) + 2 = N
    BY <1>7, ClassesAreFinite DEF N
<1> QED
    BY <1>1, <1>4, <1>8 DEF T

\* What to_py_err makes is a SessionError, and what a conversion raises is none.
LEMMA SessionErrorsAreCaught ==
    /\ \A e : Catches("SessionError", to_py_err(e).raised)
    /\ \A c \in PyErrors : ~Catches("SessionError", c)
<1>1. ASSUME NEW c \in {"SessionError"} \cup SessionErrors \cup PremiumErrors
      PROVE  Catches("SessionError", c)
  <2>1. CASE c = "SessionError"
      BY <2>1, LineageHas DEF Catches
  <2>2. CASE c \in SessionErrors
    <3>1. c \in DOMAIN Base /\ Base[c] = "SessionError"
        BY <2>2 DEF Base, SessionErrors, PremiumErrors
    <3> QED
        BY <3>1, LineageHas DEF Catches
  <2>3. CASE c \in PremiumErrors
    <3>1. c \in DOMAIN Base /\ Base[c] = "PremiumOnlyError"
        BY <2>3 DEF Base, PremiumErrors, SessionErrors
    <3>2. "PremiumOnlyError" \in DOMAIN Base /\ Base["PremiumOnlyError"] = "SessionError"
        BY DEF Base, SessionErrors, PremiumErrors
    <3> QED
        BY <3>1, <3>2, LineageHas DEF Catches
  <2> QED
      BY <1>1, <2>1, <2>2, <2>3
<1>2. ASSUME NEW e
      PROVE  to_py_err(e).raised \in {"SessionError"} \cup SessionErrors \cup PremiumErrors
    BY DEF to_py_err, Raise, SessionErrors, PremiumErrors
<1>3. ASSUME NEW c \in PyErrors PROVE ~Catches("SessionError", c)
  <2> DEFINE S == PyErrors \cup {"Exception"}
  <2>1. \A d \in S \cap DOMAIN Base : Base[d] \in S
      BY DEF Base, SessionErrors, PremiumErrors, PyErrors
  <2>2. "SessionError" \notin S /\ c \in S
      BY DEF PyErrors
  <2> HIDE DEF S
  <2> QED
      BY <2>1, <2>2, LineageStays DEF Catches
<1> QED
    BY <1>1, <1>2, <1>3, Zenon

-----------------------------------------------------------------------------
(* What conversions raise *)

\* A result, or the exception of an argument.
Sound(r) == IsOk(r) \/ r.raised \in PyErrors

LEMMA Raises == \A c \in PyErrors : Sound(Raise(c))
BY Results DEF Sound

LEMMA Returns == \A v : Sound(Ok(v))
BY Results DEF Sound

LEMMA CollectSound ==
    ASSUME NEW rs, DOMAIN rs \subseteq Nat, \A i \in DOMAIN rs : Sound(rs[i])
    PROVE  Sound(Collect(rs))
<1>1. CASE \A i \in DOMAIN rs : IsOk(rs[i])
    BY <1>1, CollectIs, Returns, Zenon
<1>2. CASE \E i \in DOMAIN rs : ~IsOk(rs[i])
    BY <1>2, CollectIs, Zenon
<1> QED
    BY <1>1, <1>2

LEMMA TextSound == \A s : Sound(to_str(s))
BY Raises, Returns DEF to_str, PyErrors

LEMMA SubSeqIs ==
    ASSUME NEW s, IsSeq(s), NEW n \in 0 .. Len(s)
    PROVE  SubSeq(s, 1, n) = [k \in 1 .. n |-> s[k]]
<1> DEFINE S == Range(s)
<1> HIDE DEF S
<1>1. s \in Seq(S)
    BY DEF IsSeq, S
<1>2. Len(s) \in Nat /\ n \in Nat /\ \A i \in 1 .. n : s[i] \in S
    BY <1>1
<1>3. /\ SubSeq(s, 1, n) \in Seq(S) /\ Len(SubSeq(s, 1, n)) = n
      /\ \A k \in 1 .. n : SubSeq(s, 1, n)[k] = s[k]
    BY <1>1, <1>2
<1> QED
    BY <1>2, <1>3

\* Before compares paths at the first step in which they differ.
Precedes(p, q) ==
    \E i \in 1 .. Len(q) :
        /\ \A k \in 1 .. i - 1 : k =< Len(p) /\ p[k] = q[k]
        /\ i = Len(p) + 1 \/ (i =< Len(p) /\ p[i].at < q[i].at)

LEMMA BeforeIs ==
    ASSUME NEW p, NEW q, IsSeq(p), IsSeq(q)
    PROVE  Before(p, q) <=> Precedes(p, q)
<1>1. Len(p) \in Nat /\ DOMAIN p = 1 .. Len(p) /\ Len(q) \in Nat /\ DOMAIN q = 1 .. Len(q)
    BY DEF IsSeq
<1>2. ASSUME IsStrictPrefix(p, q) PROVE Precedes(p, q)
  <2>1. /\ Len(p) =< Len(q) /\ SubSeq(p, 1, Len(p)) = SubSeq(q, 1, Len(p))
        /\ p # q
      BY <1>2 DEF IsStrictPrefix, IsPrefix
  <2>2. \A k \in 1 .. Len(p) : SubSeq(p, 1, Len(p))[k] = p[k] /\ SubSeq(q, 1, Len(p))[k] = q[k]
      BY <1>1, <2>1 DEF IsSeq
  <2>3. \A k \in 1 .. Len(p) : p[k] = q[k]
      BY <2>1, <2>2
  <2>4. Len(p) # Len(q)
    <3>1. SUFFICES ASSUME Len(p) = Len(q) PROVE p = q
        BY <2>1
    <3> QED
        BY <1>1, <2>3, <3>1 DEF IsSeq
  <2>5. Len(p) + 1 \in 1 .. Len(q) /\ (Len(p) + 1) - 1 = Len(p)
    <3>1. \A m, n \in Nat : m =< n /\ m # n => m + 1 \in 1 .. n /\ (m + 1) - 1 = m
        OBVIOUS
    <3>2. Len(p) \in Nat /\ Len(q) \in Nat /\ Len(p) =< Len(q)
        BY <1>1, <2>1, Zenon
    <3> QED
        BY <2>4, <3>1, <3>2, Zenon
  <2> QED
      BY <1>1, <2>3, <2>5 DEF Precedes
<1>3. ASSUME NEW i \in DOMAIN p \cap DOMAIN q,
             p[i].at < q[i].at, SubSeq(p, 1, i - 1) = SubSeq(q, 1, i - 1)
      PROVE  Precedes(p, q)
  <2>1. \A k \in 1 .. i - 1 : SubSeq(p, 1, i - 1)[k] = p[k] /\ SubSeq(q, 1, i - 1)[k] = q[k]
      BY <1>1 DEF IsSeq
  <2>2. \A k \in 1 .. i - 1 : k =< Len(p) /\ p[k] = q[k]
      BY <1>1, <1>3, <2>1
  <2>3. i \in 1 .. Len(q) /\ i =< Len(p)
      BY <1>1
  <2> QED
      BY <1>3, <2>2, <2>3 DEF Precedes
<1>4. ASSUME Precedes(p, q) PROVE Before(p, q)
  <2>1. PICK i \in 1 .. Len(q) :
             /\ \A k \in 1 .. i - 1 : k =< Len(p) /\ p[k] = q[k]
             /\ i = Len(p) + 1 \/ (i =< Len(p) /\ p[i].at < q[i].at)
      BY <1>4 DEF Precedes
  <2>2. CASE i = Len(p) + 1
    <3>1. Len(p) =< Len(q) /\ Len(p) # Len(q) /\ i - 1 = Len(p)
      <4>1. \A m, n \in Nat : m + 1 \in 1 .. n => m =< n /\ m # n /\ (m + 1) - 1 = m
          OBVIOUS
      <4>2. Len(p) + 1 \in 1 .. Len(q)
          BY <2>1, <2>2
      <4> QED
          BY <1>1, <2>2, <4>1, <4>2, Zenon
    <3>2. SubSeq(p, 1, Len(p)) = SubSeq(q, 1, Len(p))
      <4>1. Len(p) \in 0 .. Len(p) /\ Len(p) \in 0 .. Len(q)
        <5>1. \A m, n \in Nat : m =< n => m \in 0 .. m /\ m \in 0 .. n
            OBVIOUS
        <5> QED
            BY <1>1, <3>1, <5>1, Zenon
      <4>2. \A k \in 1 .. Len(p) : p[k] = q[k]
          BY <2>1, <3>1
      <4> QED
          BY <4>1, <4>2, SubSeqIs
    <3> QED
        BY <3>1, <3>2 DEF Before, IsStrictPrefix, IsPrefix
  <2>3. CASE i =< Len(p) /\ p[i].at < q[i].at
    <3>1. i \in DOMAIN p \cap DOMAIN q
        BY <1>1, <2>3
    <3>2. SubSeq(p, 1, i - 1) = SubSeq(q, 1, i - 1)
        BY <1>1, <2>1, <3>1 DEF IsSeq
    <3> QED
        BY <2>3, <3>1, <3>2 DEF Before
  <2> QED
      BY <2>1, <2>2, <2>3
<1> QED
    BY <1>2, <1>3, <1>4 DEF Before

IsPath(p) == IsSeq(p) /\ \A i \in DOMAIN p : p[i].at \in Nat

LEMMA BeforeIsOrder ==
    /\ \A p : IsPath(p) => ~Before(p, p)
    /\ \A p, q, r : IsPath(p) /\ IsPath(q) /\ IsPath(r) /\ Before(p, q) /\ Before(q, r)
                       => Before(p, r)
<1>1. ASSUME NEW p, IsPath(p), Before(p, p) PROVE FALSE
  <2>1. Len(p) \in Nat /\ DOMAIN p = 1 .. Len(p) /\ Precedes(p, p)
      BY <1>1, BeforeIs DEF IsPath, IsSeq
  <2> QED
      BY <1>1, <2>1 DEF Precedes, IsPath
<1>2. ASSUME NEW p, NEW q, NEW r, IsPath(p), IsPath(q), IsPath(r), Before(p, q), Before(q, r)
      PROVE  Before(p, r)
  <2>1. /\ Len(p) \in Nat /\ DOMAIN p = 1 .. Len(p)
        /\ Len(q) \in Nat /\ DOMAIN q = 1 .. Len(q)
        /\ Len(r) \in Nat /\ DOMAIN r = 1 .. Len(r)
      BY <1>2 DEF IsPath, IsSeq
  <2>2. Precedes(p, q) /\ Precedes(q, r)
      BY <1>2, BeforeIs DEF IsPath
  <2>3. PICK i \in 1 .. Len(q) :
             /\ \A k \in 1 .. i - 1 : k =< Len(p) /\ p[k] = q[k]
             /\ i = Len(p) + 1 \/ (i =< Len(p) /\ p[i].at < q[i].at)
      BY <2>2 DEF Precedes
  <2>4. PICK j \in 1 .. Len(r) :
             /\ \A k \in 1 .. j - 1 : k =< Len(q) /\ q[k] = r[k]
             /\ j = Len(q) + 1 \/ (j =< Len(q) /\ q[j].at < r[j].at)
      BY <2>2 DEF Precedes
  <2>5. CASE i < j
    <3>1. i \in 1 .. j - 1 /\ i \in 1 .. Len(r)
        BY <2>1, <2>5
    <3>2. q[i] = r[i] /\ \A k \in 1 .. i - 1 : q[k] = r[k]
        BY <2>4, <2>5, <3>1
    <3>3. Precedes(p, r)
        BY <2>3, <3>1, <3>2 DEF Precedes
    <3> QED
        BY <1>2, <3>3, BeforeIs DEF IsPath
  <2>6. CASE i = j
    <3>1. i =< Len(q) /\ q[i].at < r[i].at
        BY <2>1, <2>3, <2>4, <2>6
    <3>2. \A k \in 1 .. i - 1 : k =< Len(p) /\ p[k] = r[k]
        BY <2>3, <2>4, <2>6
    <3>3. i \in 1 .. Len(r) /\ i \in DOMAIN r /\ i \in DOMAIN q /\ r[i].at \in Nat /\ q[i].at \in Nat
        BY <1>2, <2>1, <2>3, <2>4, <2>6 DEF IsPath
    <3>4. i = Len(p) + 1 \/ (i =< Len(p) /\ p[i].at < r[i].at)
      <4>1. CASE i =< Len(p) /\ p[i].at < q[i].at
        <5>1. p[i].at \in Nat
            BY <1>2, <2>1, <4>1 DEF IsPath
        <5> QED
            BY <3>1, <3>3, <4>1, <5>1
      <4> QED
          BY <2>3, <4>1
    <3>5. Precedes(p, r)
        BY <3>2, <3>3, <3>4 DEF Precedes
    <3> QED
        BY <1>2, <3>5, BeforeIs DEF IsPath
  <2>7. CASE j < i
    <3>1. j \in 1 .. i - 1 /\ j =< Len(q)
        BY <2>1, <2>7
    <3>2. /\ q[j].at < r[j].at /\ j =< Len(p) /\ p[j] = q[j]
          /\ \A k \in 1 .. j - 1 : k =< Len(p) /\ p[k] = r[k]
        BY <2>1, <2>3, <2>4, <2>7, <3>1
    <3>3. Precedes(p, r)
        BY <3>2 DEF Precedes
    <3> QED
        BY <1>2, <3>3, BeforeIs DEF IsPath
  <2> QED
      BY <2>5, <2>6, <2>7
<1> QED
    BY <1>1, <1>2

\* A strict order on a finite set has a minimal element.
LEMMA FiniteMinimal ==
    ASSUME NEW S, IsFiniteSet(S), S # {}, NEW R,
           \A x \in S : <<x, x>> \notin R,
           \A x, y, z \in S : <<x, y>> \in R /\ <<y, z>> \in R => <<x, z>> \in R
    PROVE  \E x \in S : \A y \in S : <<y, x>> \notin R
<1> DEFINE below(x) == {y \in S : <<y, x>> \in R}
           N == {Cardinality(below(x)) : x \in S}
<1>1. ASSUME NEW x \in S PROVE IsFiniteSet(below(x)) /\ Cardinality(below(x)) \in Nat
  <2>1. below(x) \subseteq S
      OBVIOUS
  <2> HIDE DEF below
  <2> QED
      BY <2>1, FS_Subset, FS_CardinalityType
<1>2. N \in SUBSET Nat /\ N # {}
  <2> HIDE DEF below
  <2> QED
      BY <1>1
<1>3. \E n \in N : \A m \in N : n =< m
  <2> HIDE DEF N
  <2> QED
      BY <1>2, LeastNatural
<1>4. PICK x \in S : \A y \in S : Cardinality(below(x)) =< Cardinality(below(y))
  <2> HIDE DEF below
  <2> QED
      BY <1>3
<1>5. ASSUME NEW y \in S, <<y, x>> \in R PROVE FALSE
  <2>1. below(y) \subseteq below(x) /\ y \in below(x) /\ y \notin below(y)
      BY <1>5, Zenon
  <2>2. below(y) # below(x)
      BY <2>1, Zenon
  <2>3. /\ IsFiniteSet(below(x))
        /\ Cardinality(below(y)) \in Nat /\ Cardinality(below(x)) \in Nat
      BY <1>1
  <2>4. Cardinality(below(x)) =< Cardinality(below(y))
      BY <1>4
  <2> HIDE DEF below
  <2>5. /\ Cardinality(below(y)) =< Cardinality(below(x))
        /\ Cardinality(below(x)) # Cardinality(below(y))
      BY <2>1, <2>2, <2>3, FS_Subset
  <2> QED
      BY <2>3, <2>4, <2>5
<1> QED
    BY <1>5

\* Of finitely many paths one comes before the others.
LEMMA FirstPath ==
    ASSUME NEW S, IsFiniteSet(S), S # {}, \A p \in S : IsPath(p)
    PROVE  \E p \in S : \A q \in S : ~Before(q, p)
<1> DEFINE R == {e \in S \X S : Before(e[1], e[2])}
<1>1. \A x, y \in S : <<x, y>> \in R <=> Before(x, y)
    OBVIOUS
<1> HIDE DEF R
<1>2. \A x \in S : <<x, x>> \notin R
    BY <1>1, BeforeIsOrder, Zenon
<1>3. \A x, y, z \in S : <<x, y>> \in R /\ <<y, z>> \in R => <<x, z>> \in R
    BY <1>1, BeforeIsOrder, Zenon
<1>4. \E x \in S : \A y \in S : <<y, x>> \notin R
    BY <1>2, <1>3, FiniteMinimal
<1> QED
    BY <1>1, <1>4, Zenon

\* Max takes the greatest element of a finite set of integers.
LEMMA MaxIs ==
    ASSUME NEW S \in SUBSET Int, IsFiniteSet(S), S # {}
    PROVE  Max(S) \in S /\ \A y \in S : Max(S) >= y
<1> DEFINE R == {e \in S \X S : e[1] > e[2]}
<1>1. \A x, y \in S : <<x, y>> \in R <=> x > y
    OBVIOUS
<1> HIDE DEF R
<1>2. \A x \in S : <<x, x>> \notin R
    BY <1>1
<1>3. \A x, y, z \in S : <<x, y>> \in R /\ <<y, z>> \in R => <<x, z>> \in R
    BY <1>1
<1>4. \E x \in S : \A y \in S : <<y, x>> \notin R
    BY <1>2, <1>3, FiniteMinimal
<1>5. \E x \in S : \A y \in S : x >= y
  <2>1. PICK x \in S : \A y \in S : <<y, x>> \notin R
      BY <1>4
  <2>2. \A y \in S : ~(y > x)
      BY <1>1, <2>1, Zenon
  <2>3. \A y \in S : x >= y
      BY <2>2
  <2> QED
      BY <2>3
<1> QED
    BY <1>5 DEF Max

\* json_from_py fails as some part of the body does, or converts them all.
PartFromPy(body, p) ==
    Collect(<<IF p = <<>> THEN Ok(None) ELSE key_from_py(Last(p)), node_from_py(body[p])>>)

LEMMA BodyResult ==
    ASSUME NEW body, IsBody(body)
    PROVE  \/ /\ \A p \in DOMAIN body : IsOk(PartFromPy(body, p))
              /\ json_from_py(body)
                   = Ok([p \in {path_from_py(q) : q \in DOMAIN body} |->
                            node_from_py(body[path_to_py(p)]).ok])
           \/ \E p \in DOMAIN body : /\ ~IsOk(PartFromPy(body, p))
                                     /\ json_from_py(body) = PartFromPy(body, p)
<1> DEFINE failed == {p \in DOMAIN body : ~IsOk(PartFromPy(body, p))}
           first == CHOOSE p \in failed : \A q \in failed : ~Before(q, p)
<1>1. json_from_py(body)
        = IF failed # {} THEN PartFromPy(body, first)
          ELSE Ok([p \in {path_from_py(q) : q \in DOMAIN body} |->
                      node_from_py(body[path_to_py(p)]).ok])
    BY Zenon DEF json_from_py, PartFromPy
<1>2. failed # {} => first \in failed
  <2>1. failed \subseteq DOMAIN body /\ \A p \in failed : IsPath(p)
      BY DEF IsBody, IsPath, IsStep
  <2>2. IsFiniteSet(failed)
      BY <2>1, FS_Subset DEF IsBody
  <2> HIDE DEF failed
  <2>3. failed # {} => \E p \in failed : \A q \in failed : ~Before(q, p)
      BY <2>1, <2>2, FirstPath
  <2> QED
      BY <2>3, Zenon
<1>3. failed # {} => first \in DOMAIN body /\ ~IsOk(PartFromPy(body, first))
    BY <1>2, Zenon
<1>4. failed = {} => \A p \in DOMAIN body : IsOk(PartFromPy(body, p))
    BY Zenon
<1> HIDE DEF failed, first
<1> QED
    BY <1>1, <1>3, <1>4, Zenon

LEMMA NodeSound == \A o : Sound(node_from_py(o))
<1>1. ASSUME NEW o PROVE Sound(scalar_from_py(o))
    BY Raises, Returns, TextSound DEF scalar_from_py, PyErrors
<1> QED
    BY <1>1, Returns DEF node_from_py

LEMMA PairOf ==
    ASSUME NEW a, NEW b
    PROVE  /\ DOMAIN <<a, b>> = {1, 2} /\ DOMAIN <<a, b>> \subseteq Nat
           /\ <<a, b>>[1] = a /\ <<a, b>>[2] = b
OBVIOUS

LEMMA TripleOf ==
    ASSUME NEW a, NEW b, NEW c
    PROVE  /\ DOMAIN <<a, b, c>> = {1, 2, 3} /\ DOMAIN <<a, b, c>> \subseteq Nat
           /\ <<a, b, c>>[1] = a /\ <<a, b, c>>[2] = b /\ <<a, b, c>>[3] = c
OBVIOUS

LEMMA CollectPair ==
    ASSUME NEW a, NEW b
    PROVE  /\ IsOk(Collect(<<a, b>>)) <=> IsOk(a) /\ IsOk(b)
           /\ IsOk(a) /\ IsOk(b) =>
                 Collect(<<a, b>>).ok[1] = a.ok /\ Collect(<<a, b>>).ok[2] = b.ok
           /\ Sound(a) /\ Sound(b) => Sound(Collect(<<a, b>>))
<1> DEFINE rs == <<a, b>>
<1>1. /\ DOMAIN rs = {1, 2} /\ DOMAIN rs \subseteq Nat /\ rs[1] = a /\ rs[2] = b
    BY PairOf
<1> HIDE DEF rs
<1>2. CASE IsOk(a) /\ IsOk(b)
  <2>1. Collect(rs) = Ok([i \in DOMAIN rs |-> rs[i].ok])
      BY <1>1, <1>2, CollectIs
  <2>2. Collect(rs).ok = [i \in DOMAIN rs |-> rs[i].ok] /\ IsOk(Collect(rs))
      BY <2>1, Results, Zenon
  <2> QED
      BY <1>1, <1>2, <2>2 DEF rs, Sound
<1>3. CASE ~(IsOk(a) /\ IsOk(b))
  <2>1. \E i \in DOMAIN rs : ~IsOk(rs[i]) /\ Collect(rs) = rs[i]
      BY <1>1, <1>3, CollectIs
  <2>2. ~IsOk(Collect(rs)) /\ Collect(rs) \in {a, b}
      BY <1>1, <2>1
  <2> QED
      BY <1>3, <2>2 DEF rs
<1> QED
    BY <1>2, <1>3

LEMMA CollectTriple ==
    ASSUME NEW a, NEW b, NEW c
    PROVE  /\ IsOk(Collect(<<a, b, c>>)) <=> IsOk(a) /\ IsOk(b) /\ IsOk(c)
           /\ IsOk(a) /\ IsOk(b) /\ IsOk(c) =>
                 /\ Collect(<<a, b, c>>).ok[1] = a.ok /\ Collect(<<a, b, c>>).ok[2] = b.ok
                 /\ Collect(<<a, b, c>>).ok[3] = c.ok
           /\ Sound(a) /\ Sound(b) /\ Sound(c) => Sound(Collect(<<a, b, c>>))
<1> DEFINE rs == <<a, b, c>>
<1>1. /\ DOMAIN rs = {1, 2, 3} /\ DOMAIN rs \subseteq Nat
      /\ rs[1] = a /\ rs[2] = b /\ rs[3] = c
    BY TripleOf
<1> HIDE DEF rs
<1>2. CASE IsOk(a) /\ IsOk(b) /\ IsOk(c)
  <2>1. Collect(rs) = Ok([i \in DOMAIN rs |-> rs[i].ok])
      BY <1>1, <1>2, CollectIs
  <2>2. Collect(rs).ok = [i \in DOMAIN rs |-> rs[i].ok] /\ IsOk(Collect(rs))
      BY <2>1, Results, Zenon
  <2> QED
      BY <1>1, <1>2, <2>2 DEF rs, Sound
<1>3. CASE ~(IsOk(a) /\ IsOk(b) /\ IsOk(c))
  <2>1. \E i \in DOMAIN rs : ~IsOk(rs[i]) /\ Collect(rs) = rs[i]
      BY <1>1, <1>3, CollectIs
  <2>2. ~IsOk(Collect(rs)) /\ Collect(rs) \in {a, b, c}
      BY <1>1, <2>1
  <2> QED
      BY <1>3, <2>2 DEF rs
<1> QED
    BY <1>2, <1>3

LEMMA BodySound ==
    ASSUME NEW body, IsBody(body)
    PROVE  Sound(json_from_py(body))
<1>1. ASSUME NEW p PROVE Sound(PartFromPy(body, p))
  <2>1. \A s : Sound(key_from_py(s))
      BY Returns, Raises, TextSound DEF key_from_py, PyErrors
  <2>2. Sound(IF p = <<>> THEN Ok(None) ELSE key_from_py(Last(p)))
      BY <2>1, Returns
  <2> QED
      BY <2>2, NodeSound, CollectPair DEF PartFromPy
<1> QED
    BY <1>1, BodyResult, Returns

-----------------------------------------------------------------------------
(* Terms *)

LEMMA OptionIs ==
    ASSUME NEW S, NEW x \in Option(S)
    PROVE  x = None \/ (x # None /\ x = Some(x[1]) /\ x[1] \in S)
BY DEF Option, None, Some

\* What the constructor of a literal makes of its arguments.
LEMMA LiteralNew ==
    ASSUME NEW o, IsTerm(o), o.py = "Literal"
    PROVE  /\ Sound(literal_new(o))
           /\ IsOk(literal_new(o)) =>
                 /\ o.value \in Lexicals
                 /\ o.datatype = None \/ (o.datatype = Some(o.datatype[1]) /\ o.datatype[1] \in Iris)
                 /\ o.language = None \/ (o.language = Some(o.language[1]) /\ o.language[1] \in Tags)
                 /\ o.datatype = None \/ o.language = None
                 /\ literal_new(o).ok = CASE o.datatype # None -> new_typed(o.value, o.datatype[1])
                                          [] o.language # None -> new_lang(o.value, o.language[1])
                                          [] OTHER -> new_simple(o.value)
<1> DEFINE strings == {o.value} \cup Range(o.datatype) \cup Range(o.language)
<1>1. /\ o.value \in Lexicals \cup Unencodable
      /\ o.datatype \in Option(Iris \cup Unencodable)
      /\ o.language \in Option(Tags \cup Unencodable)
    BY DEF IsTerm
<1>2. /\ o.datatype = None \/ (/\ o.datatype # None /\ o.datatype = Some(o.datatype[1])
                               /\ o.datatype[1] \in Iris \cup Unencodable)
      /\ o.language = None \/ (/\ o.language # None /\ o.language = Some(o.language[1])
                               /\ o.language[1] \in Tags \cup Unencodable)
    BY <1>1, OptionIs
<1>3. /\ o.value \in strings
      /\ o.datatype # None => o.datatype[1] \in strings
      /\ o.language # None => o.language[1] \in strings
  <2>1. \A x : x = Some(x[1]) => x[1] \in Range(x)
      BY DEF Some, Range
  <2> QED
      BY <1>2, <2>1
<1>4. literal_new(o) = IF strings \cap Unencodable # {} THEN Raise("UnicodeEncodeError")
        ELSE IF o.datatype # None /\ o.language # None THEN Raise("ValueError")
        ELSE IF o.datatype # None THEN Ok(new_typed(o.value, o.datatype[1]))
        ELSE IF o.language # None THEN Ok(new_lang(o.value, o.language[1]))
        ELSE Ok(new_simple(o.value))
    BY Zenon DEF literal_new
<1> HIDE DEF strings
<1>5. CASE strings \cap Unencodable # {}
  <2>1. literal_new(o) = Raise("UnicodeEncodeError")
      BY <1>4, <1>5
  <2> QED
      BY <2>1, Raises, Results DEF PyErrors
<1>6. CASE strings \cap Unencodable = {}
  <2>1. /\ o.value \in Lexicals
        /\ o.datatype = None \/ (o.datatype = Some(o.datatype[1]) /\ o.datatype[1] \in Iris)
        /\ o.language = None \/ (o.language = Some(o.language[1]) /\ o.language[1] \in Tags)
      BY <1>1, <1>2, <1>3, <1>6
  <2>2. CASE o.datatype # None /\ o.language # None
    <3>1. literal_new(o) = Raise("ValueError")
        BY <1>4, <1>6, <2>2
    <3> QED
        BY <3>1, Raises, Results DEF PyErrors
  <2>3. CASE o.datatype # None /\ o.language = None
    <3>1. literal_new(o) = Ok(new_typed(o.value, o.datatype[1]))
        BY <1>4, <1>6, <2>3
    <3>2. Sound(literal_new(o)) /\ literal_new(o).ok = new_typed(o.value, o.datatype[1])
        BY <3>1, Returns, Results
    <3> QED
        BY <2>1, <2>3, <3>2
  <2>4. CASE o.datatype = None /\ o.language # None
    <3>1. literal_new(o) = Ok(new_lang(o.value, o.language[1]))
        BY <1>4, <1>6, <2>4
    <3>2. Sound(literal_new(o)) /\ literal_new(o).ok = new_lang(o.value, o.language[1])
        BY <3>1, Returns, Results
    <3> QED
        BY <2>1, <2>4, <3>2
  <2>5. CASE o.datatype = None /\ o.language = None
    <3>1. literal_new(o) = Ok(new_simple(o.value))
        BY <1>4, <1>6, <2>5
    <3>2. Sound(literal_new(o)) /\ literal_new(o).ok = new_simple(o.value)
        BY <3>1, Returns, Results
    <3> QED
        BY <2>1, <2>5, <3>2
  <2> QED
      BY <2>2, <2>3, <2>4, <2>5
<1> QED
    BY <1>5, <1>6

LEMMA PredicateFromPy ==
    ASSUME NEW o, IsTerm(o)
    PROVE  /\ Sound(predicate_from_py(o))
           /\ IsOk(predicate_from_py(o)) =>
                 /\ predicate_from_py(o).ok \in NamedNodes
                 /\ o.py = "str" /\ subject_to_py(predicate_from_py(o).ok) = o
<1>1. CASE o.py # "str"
  <2>1. predicate_from_py(o) = Raise("TypeError")
      BY <1>1 DEF predicate_from_py
  <2> QED
      BY <2>1, Raises, Results DEF PyErrors
<1>2. CASE o.py = "str" /\ o.str \in Unencodable
  <2>1. predicate_from_py(o) = Raise("UnicodeEncodeError")
      BY <1>2, Results DEF predicate_from_py, to_str
  <2> QED
      BY <2>1, Raises, Results DEF PyErrors
<1>3. CASE o.py = "str" /\ o.str \notin Unencodable
  <2>1. predicate_from_py(o) = Ok(Named(o.str))
      BY <1>3, Results DEF predicate_from_py, to_str
  <2>2. predicate_from_py(o).ok = Named(o.str) /\ Sound(predicate_from_py(o))
      BY <2>1, Results, Returns
  <2>3. o.str \in Iris /\ o = PyStr(o.str)
      BY <1>3 DEF IsTerm
  <2> QED
      BY <1>3, <2>2, <2>3 DEF Named, NamedNodes, subject_to_py
<1> QED
    BY <1>1, <1>2, <1>3

LEMMA SubjectFromPy ==
    ASSUME NEW o, IsTerm(o)
    PROVE  /\ Sound(subject_from_py(o))
           /\ IsOk(subject_from_py(o)) =>
                 /\ subject_from_py(o).ok \in Nodes
                 /\ o.py \in {"str", "BlankNode"} /\ subject_to_py(subject_from_py(o).ok) = o
<1>1. CASE o.py = "BlankNode"
  <2>1. subject_from_py(o) = Ok([term |-> "blank", label |-> o.id])
      BY <1>1 DEF subject_from_py
  <2>2. subject_from_py(o).ok = [term |-> "blank", label |-> o.id] /\ Sound(subject_from_py(o))
      BY <2>1, Results, Returns
  <2>3. o.id \in Labels /\ o = PyBlankNode(o.id)
      BY <1>1 DEF IsTerm
  <2> QED
      BY <1>1, <2>2, <2>3 DEF Nodes, BlankNodes, subject_to_py
<1>2. CASE o.py # "BlankNode"
    BY <1>2, PredicateFromPy DEF subject_from_py, Nodes
<1> QED
    BY <1>1, <1>2

Terms == Nodes \cup Literals

LEMMA ObjectFromPy ==
    ASSUME NEW o, IsTerm(o)
    PROVE  /\ Sound(object_from_py(o))
           /\ IsOk(object_from_py(o)) =>
                 /\ object_from_py(o).ok \in Terms
                 /\ SameTerm(object_to_py(object_from_py(o).ok)) = SameTerm(o)
<1>1. CASE o.py # "Literal"
  <2>1. object_from_py(o) = subject_from_py(o)
      BY <1>1 DEF object_from_py
  <2>2. \A n \in Nodes : n.term # "literal"
      BY DEF Nodes, NamedNodes, BlankNodes
  <2> QED
      BY <2>1, <2>2, SubjectFromPy DEF object_to_py, Terms
<1>2. CASE o.py = "Literal"
  <2> DEFINE t == object_from_py(o).ok
  <2>1. object_from_py(o) = literal_new(o)
      BY <1>2 DEF object_from_py
  <2>2. SUFFICES ASSUME IsOk(literal_new(o))
                 PROVE  t \in Literals /\ SameTerm(object_to_py(t)) = SameTerm(o)
      BY <1>2, <2>1, LiteralNew DEF Terms
  <2>3. /\ o.value \in Lexicals
        /\ o.datatype = None \/ (o.datatype = Some(o.datatype[1]) /\ o.datatype[1] \in Iris)
        /\ o.language = None \/ (o.language = Some(o.language[1]) /\ o.language[1] \in Tags)
        /\ o.datatype = None \/ o.language = None
        /\ t = CASE o.datatype # None -> new_typed(o.value, o.datatype[1])
                 [] o.language # None -> new_lang(o.value, o.language[1])
                 [] OTHER -> new_simple(o.value)
      BY <1>2, <2>1, <2>2, LiteralNew
  <2>4. o = PyLiteral(o.value, o.datatype, o.language)
      BY <1>2 DEF IsTerm
  <2>5. \A x : Some(x) # None
      BY DEF Some, None
  <2> HIDE DEF t
  <2>6. CASE o.datatype # None
    <3>1. t = new_typed(o.value, o.datatype[1]) /\ o.language = None
        BY <2>3, <2>6
    <3>2. /\ t.term = "literal" /\ t.value = o.value /\ t.datatype = o.datatype[1]
          /\ t.language = NoLanguage
        BY <3>1 DEF new_typed
    <3>3. t \in Literals
        BY <2>3, <2>6, <3>1 DEF new_typed, Literals
    <3>4. object_to_py(t) = o
        BY <2>3, <2>4, <2>6, <3>1, <3>2 DEF object_to_py
    <3> QED
        BY <3>3, <3>4
  <2>7. CASE o.datatype = None /\ o.language # None
    <3>1. t = new_lang(o.value, o.language[1])
        BY <2>3, <2>7
    <3>2. /\ t = [term |-> "literal", value |-> o.value, datatype |-> LangString,
                  language |-> o.language[1]]
        BY <3>1 DEF new_lang, new_typed
    <3>3. t \in Literals
        BY <2>3, <2>7, <3>2, ValuesAssumption DEF Literals
    <3>4. o.language[1] # NoLanguage
        BY <2>3, <2>7, TermAssumption
    <3>5. object_to_py(t) = o
        BY <2>3, <2>4, <2>7, <3>2, <3>4 DEF object_to_py
    <3> QED
        BY <3>3, <3>5
  <2>8. CASE o.datatype = None /\ o.language = None
    <3>1. t = new_simple(o.value)
        BY <2>3, <2>8
    <3>2. /\ t = [term |-> "literal", value |-> o.value, datatype |-> "string",
                  language |-> NoLanguage]
        BY <3>1 DEF new_simple, new_typed
    <3>3. t \in Literals
        BY <2>3, <2>8, <3>2, ValuesAssumption DEF Literals
    <3>4. object_to_py(t) = PyLiteral(o.value, Some("string"), None)
        BY <3>2 DEF object_to_py
    <3>5. SameTerm(PyLiteral(o.value, Some("string"), None)) = PyLiteral(o.value, Some("string"), None)
        BY <2>5 DEF SameTerm, PyLiteral
    <3>6. SameTerm(o) = PyLiteral(o.value, Some("string"), None)
        BY <1>2, <2>8 DEF SameTerm
    <3> QED
        BY <3>3, <3>4, <3>5, <3>6
  <2> QED
      BY <2>6, <2>7, <2>8
<1> QED
    BY <1>1, <1>2

LEMMA NodeToPy ==
    /\ \A n, m \in Nodes : subject_to_py(n) = subject_to_py(m) => n = m
    /\ \A n \in Nodes : /\ n.term # "literal" /\ object_to_py(n) = subject_to_py(n)
                        /\ subject_to_py(n).py \in {"str", "BlankNode"}
                        /\ SameTerm(subject_to_py(n)) = subject_to_py(n)
<1>1. \A n \in Nodes : \/ n.term = "named" /\ n = [term |-> "named", iri |-> n.iri]
                       \/ n.term = "blank" /\ n = [term |-> "blank", label |-> n.label]
    BY DEF Nodes, NamedNodes, BlankNodes
<1>2. \A n \in Nodes : \/ /\ n.term = "named" /\ subject_to_py(n).py = "str"
                          /\ subject_to_py(n).str = n.iri
                       \/ /\ n.term = "blank" /\ subject_to_py(n).py = "BlankNode"
                          /\ subject_to_py(n).id = n.label
    BY <1>1 DEF subject_to_py, PyStr, PyBlankNode
<1>3. ASSUME NEW n \in Nodes, NEW m \in Nodes, subject_to_py(n) = subject_to_py(m)
      PROVE  n = m
    BY <1>1, <1>2, <1>3
<1>4. ASSUME NEW n \in Nodes
      PROVE  /\ n.term # "literal" /\ object_to_py(n) = subject_to_py(n)
             /\ subject_to_py(n).py \in {"str", "BlankNode"}
             /\ SameTerm(subject_to_py(n)) = subject_to_py(n)
    BY <1>1, <1>2 DEF object_to_py, SameTerm
<1> QED
    BY <1>3, <1>4

\* Two terms that Python takes for the same are the same.
LEMMA ObjectToPyInjective ==
    ASSUME NEW t \in Terms, NEW u \in Terms,
           SameTerm(object_to_py(t)) = SameTerm(object_to_py(u))
    PROVE  t = u
<1>1. \A x : Some(x) # None /\ Some(x)[1] = x
    BY DEF Some, None
<1>2. ASSUME NEW l \in Literals
      PROVE  /\ SameTerm(object_to_py(l)).py = "Literal"
             /\ SameTerm(object_to_py(l)).value = l.value
             /\ l.language # NoLanguage =>
                   /\ SameTerm(object_to_py(l)).datatype = None
                   /\ SameTerm(object_to_py(l)).language = Some(l.language)
             /\ l.language = NoLanguage =>
                   SameTerm(object_to_py(l)).datatype = Some(l.datatype)
             /\ l = [term |-> "literal", value |-> l.value, datatype |-> l.datatype,
                     language |-> l.language]
             /\ l.language # NoLanguage => l.datatype = LangString
  <2>1. l.term = "literal"
      BY DEF Literals
  <2>2. CASE l.language # NoLanguage
    <3>1. object_to_py(l) = PyLiteral(l.value, None, Some(l.language))
        BY <2>1, <2>2 DEF object_to_py
    <3>2. SameTerm(object_to_py(l)) = PyLiteral(l.value, None, Some(l.language))
        BY <1>1, <3>1 DEF SameTerm, PyLiteral
    <3> QED
        BY <2>2, <3>2 DEF PyLiteral, Literals
  <2>3. CASE l.language = NoLanguage
    <3>1. object_to_py(l) = PyLiteral(l.value, Some(l.datatype), None)
        BY <2>1, <2>3 DEF object_to_py
    <3>2. SameTerm(object_to_py(l)) = PyLiteral(l.value, Some(l.datatype), None)
        BY <1>1, <3>1 DEF SameTerm, PyLiteral
    <3> QED
        BY <2>3, <3>2 DEF PyLiteral, Literals
  <2> QED
      BY <2>2, <2>3
<1>3. CASE t \in Nodes /\ u \in Nodes
    BY <1>3, NodeToPy
<1>4. CASE t \in Literals /\ u \in Literals
  <2>1. t.value = u.value
      BY <1>2, <1>4
  <2>2. (t.language = NoLanguage) <=> (u.language = NoLanguage)
      BY <1>1, <1>2, <1>4
  <2>3. t.datatype = u.datatype
      BY <1>1, <1>2, <1>4, <2>2
  <2>4. t.language = u.language
      BY <1>1, <1>2, <1>4, <2>2
  <2> QED
      BY <1>2, <1>4, <2>1, <2>3, <2>4
<1>5. CASE (t \in Nodes /\ u \in Literals) \/ (t \in Literals /\ u \in Nodes)
    BY <1>2, <1>5, NodeToPy
<1> QED
    BY <1>3, <1>4, <1>5 DEF Terms

CoreTriples == {q \in CoreQuads : q.graph = DefaultGraph}

LEMMA TripleFromPy ==
    ASSUME NEW o, IsTriple(o)
    PROVE  /\ Sound(triple_from_py(o))
           /\ IsOk(triple_from_py(o)) =>
                 /\ triple_from_py(o).ok \in CoreTriples
                 /\ SameTriple(triple_to_py(triple_from_py(o).ok)) = SameTriple(o)
<1> DEFINE a == subject_from_py(o.items[1])
           b == predicate_from_py(o.items[2])
           c == object_from_py(o.items[3])
           terms == Collect(<<a, b, c>>)
           q == [subject |-> terms.ok[1], predicate |-> terms.ok[2],
                 object |-> terms.ok[3], graph |-> DefaultGraph]
<1>1. triple_from_py(o) = IF o.py # "tuple" THEN Raise("TypeError")
                          ELSE IF Len(o.items) # 3 THEN Raise("ValueError")
                          ELSE IF IsOk(terms) THEN Ok(q) ELSE terms
    BY Zenon DEF triple_from_py
<1> HIDE DEF q, terms, a, b, c
<1>2. CASE o.py # "tuple"
    BY <1>1, <1>2, Raises, Results DEF PyErrors
<1>3. CASE o.py = "tuple" /\ Len(o.items) # 3
    BY <1>1, <1>3, Raises, Results DEF PyErrors
<1>4. CASE o.py = "tuple" /\ Len(o.items) = 3
  <2>1. /\ IsSeq(o.items) /\ DOMAIN o.items = 1 .. 3
        /\ IsTerm(o.items[1]) /\ IsTerm(o.items[2]) /\ IsTerm(o.items[3])
    <3>1. IsSeq(o.items) /\ \A i \in DOMAIN o.items : IsTerm(o.items[i])
        BY <1>4 DEF IsTriple
    <3>2. DOMAIN o.items = 1 .. 3
        BY <1>4, <3>1 DEF IsSeq
    <3> QED
        BY <3>1, <3>2
  <2>2. Sound(a) /\ Sound(b) /\ Sound(c)
      BY <2>1, SubjectFromPy, PredicateFromPy, ObjectFromPy DEF a, b, c
  <2>3. Sound(terms)
      BY <2>2, CollectTriple DEF terms
  <2>4. CASE ~IsOk(terms)
      BY <1>1, <1>4, <2>3, <2>4
  <2>5. CASE IsOk(terms)
    <3>1. /\ IsOk(a) /\ IsOk(b) /\ IsOk(c)
          /\ terms.ok[1] = a.ok /\ terms.ok[2] = b.ok /\ terms.ok[3] = c.ok
        BY <2>5, CollectTriple DEF terms
    <3>2. triple_from_py(o) = Ok(q)
        BY <1>1, <1>4, <2>5
    <3>3. triple_from_py(o).ok = q /\ Sound(triple_from_py(o))
        BY <3>2, Results, Returns
    <3>4. /\ q.subject = a.ok /\ q.predicate = b.ok /\ q.object = c.ok /\ q.graph = DefaultGraph
          /\ q = [subject |-> a.ok, predicate |-> b.ok, object |-> c.ok, graph |-> DefaultGraph]
        BY <3>1 DEF q
    <3>5. /\ a.ok \in Nodes /\ subject_to_py(a.ok) = o.items[1]
          /\ b.ok \in NamedNodes /\ subject_to_py(b.ok) = o.items[2]
          /\ c.ok \in Terms /\ SameTerm(object_to_py(c.ok)) = SameTerm(o.items[3])
        BY <2>1, <3>1, SubjectFromPy, PredicateFromPy, ObjectFromPy DEF a, b, c
    <3>6. q \in CoreTriples
        BY <3>4, <3>5 DEF CoreTriples, CoreQuads, Terms, Nodes
    <3>7. SameTriple(triple_to_py(q)) = SameTriple(o)
      <4> DEFINE its == <<subject_to_py(a.ok), subject_to_py(b.ok), object_to_py(c.ok)>>
      <4>1. triple_to_py(q).items = its
          BY <3>4 DEF triple_to_py, PyTuple
      <4>2. /\ DOMAIN its = 1 .. 3
            /\ \A i \in 1 .. 3 : SameTerm(its[i]) = SameTerm(o.items[i])
          BY <3>5
      <4> HIDE DEF its
      <4> QED
          BY <2>1, <4>1, <4>2 DEF SameTriple
    <3> QED
        BY <3>3, <3>6, <3>7
  <2> QED
      BY <2>4, <2>5
<1> QED
    BY <1>2, <1>3, <1>4

-----------------------------------------------------------------------------
(* Items *)

LEMMA SourceFromPy ==
    ASSUME NEW o, IsSource(o)
    PROVE  /\ Sound(provenance_from_py(o))
           /\ IsOk(provenance_from_py(o)) =>
                 LET p == provenance_from_py(o).ok
                 IN  /\ p = IF o.py = "str" THEN Provenance(o.str, <<>>) ELSE o.provenance
                     /\ p = Provenance(p.source, p.derived_from) /\ IsIds(p.derived_from)
<1>1. CASE o.py = "Provenance"
  <2>1. provenance_from_py(o) = Ok(o.provenance)
      BY <1>1 DEF provenance_from_py
  <2>2. provenance_from_py(o).ok = o.provenance /\ Sound(provenance_from_py(o))
      BY <2>1, Results, Returns
  <2> QED
      BY <1>1, <2>2 DEF IsSource
<1>2. CASE o.py = "str"
  <2>1. CASE o.str \in Unencodable
    <3>1. provenance_from_py(o) = Raise("UnicodeEncodeError")
        BY <1>2, <2>1, Results DEF provenance_from_py, to_str
    <3> QED
        BY <3>1, Raises, Results DEF PyErrors
  <2>2. CASE o.str \notin Unencodable
    <3>1. provenance_from_py(o) = Ok(Provenance(o.str, <<>>))
        BY <1>2, <2>2, Results DEF provenance_from_py, to_str
    <3>2. provenance_from_py(o).ok = Provenance(o.str, <<>>) /\ Sound(provenance_from_py(o))
        BY <3>1, Results, Returns
    <3>3. IsIds(<<>>)
        BY DEF IsIds, IsSeq, Range
    <3> QED
        BY <1>2, <3>2, <3>3 DEF Provenance
  <2> QED
      BY <2>1, <2>2
<1>3. CASE o.py \notin {"Provenance", "str"}
  <2>1. provenance_from_py(o) = Raise("TypeError")
      BY <1>3 DEF provenance_from_py
  <2> QED
      BY <2>1, Raises, Results DEF PyErrors
<1> QED
    BY <1>1, <1>2, <1>3

\* What an item holds, by the call that constructed it.
OfCall(item, call) ==
    /\ item = [payload |-> item.payload, provenance |-> item.provenance,
               scope_hint |-> call.scope_hint, embedding |-> ToF32(call.embedding)]
    /\ LET source == IF call.with_provenance # None THEN call.with_provenance[1]
                     ELSE call.provenance
           p == item.provenance
       IN  /\ p = IF source.py = "str" THEN Provenance(source.str, <<>>) ELSE source.provenance
           /\ p = Provenance(p.source, p.derived_from) /\ IsIds(p.derived_from)
    /\ call.ctor = "from_triples" =>
          /\ item.payload = Triples(item.payload.triples)
          /\ item.payload.triples
               = [i \in DOMAIN Iterated(call.triples) |-> triple_from_py(Iterated(call.triples)[i]).ok]
          /\ \A i \in DOMAIN Iterated(call.triples) : IsOk(triple_from_py(Iterated(call.triples)[i]))
          /\ IsSeq(Iterated(call.triples))
          /\ \A i \in DOMAIN Iterated(call.triples) : IsTriple(Iterated(call.triples)[i])
    /\ call.ctor = "event" =>
          /\ item.payload = Event(call.kind, json_from_py(call.body).ok)
          /\ IsOk(json_from_py(call.body))
    /\ call.ctor = "chunk" => item.payload = Chunk(call.content, call.content_type)

LEMMA Finishes ==
    ASSUME NEW payload, NEW provenance, NEW call, Sound(payload), Sound(provenance)
    PROVE  LET item == finish(payload, provenance, call)
           IN  /\ Sound(item)
               /\ IsOk(item) =>
                    /\ IsOk(payload) /\ IsOk(provenance)
                    /\ item.ok = [payload |-> payload.ok, provenance |-> provenance.ok,
                                  scope_hint |-> call.scope_hint,
                                  embedding |-> ToF32(call.embedding)]
<1> DEFINE parts == Collect(<<payload, provenance>>)
           made == [payload |-> parts.ok[1], provenance |-> parts.ok[2],
                    scope_hint |-> call.scope_hint, embedding |-> ToF32(call.embedding)]
<1>1. Item(parts.ok[1], parts.ok[2], call.scope_hint, ToF32(call.embedding)) = made
    BY DEF Item
<1>2. finish(payload, provenance, call) = IF IsOk(parts) THEN Ok(made) ELSE parts
    BY <1>1, Zenon DEF finish
<1>3. /\ Sound(parts)
      /\ IsOk(parts) => /\ IsOk(payload) /\ IsOk(provenance)
                        /\ parts.ok[1] = payload.ok /\ parts.ok[2] = provenance.ok
    BY CollectPair
<1>4. IsOk(Ok(made)) /\ Ok(made).ok = made /\ Sound(Ok(made))
    BY Results, Returns, Zenon
<1> HIDE DEF parts
<1>5. IsOk(parts) => made = [payload |-> payload.ok, provenance |-> provenance.ok,
                             scope_hint |-> call.scope_hint, embedding |-> ToF32(call.embedding)]
    BY <1>3
<1> HIDE DEF made
<1> QED
    BY <1>2, <1>3, <1>4, <1>5

LEMMA SequenceDomain ==
    ASSUME NEW s, IsSeq(s)
    PROVE  DOMAIN s = 1 .. Len(s) /\ Len(s) \in Nat /\ DOMAIN s \subseteq Nat
BY DEF IsSeq

LEMMA FromTriplesIs ==
    ASSUME NEW call, IsCall(call), call.ctor = "from_triples"
    PROVE  /\ Sound(from_triples(call))
           /\ IsOk(from_triples(call)) =>
                /\ from_triples(call).ok
                     = [payload |-> from_triples(call).ok.payload,
                        provenance |-> from_triples(call).ok.provenance,
                        scope_hint |-> call.scope_hint, embedding |-> ToF32(call.embedding)]
                /\ IsOk(provenance_from_py(call.provenance))
                /\ from_triples(call).ok.provenance = provenance_from_py(call.provenance).ok
                /\ from_triples(call).ok.payload
                     = Triples([i \in DOMAIN Iterated(call.triples) |->
                                   triple_from_py(Iterated(call.triples)[i]).ok])
                /\ \A i \in DOMAIN Iterated(call.triples) : IsOk(triple_from_py(Iterated(call.triples)[i]))
                /\ Iterates(call.triples)
<1> DEFINE its == Iterated(call.triples)
           rs == [i \in DOMAIN its |-> triple_from_py(its[i])]
           all == Collect(rs)
           quads == IF Iterates(call.triples) THEN all ELSE Raise("TypeError")
           payload == IF IsOk(quads) THEN Ok(Triples(quads.ok)) ELSE quads
           source == provenance_from_py(call.provenance)
           made == [i \in DOMAIN its |-> triple_from_py(its[i]).ok]
<1>1. from_triples(call) = finish(payload, source, call)
    BY Zenon DEF from_triples
<1>2. Sound(source)
    BY SourceFromPy DEF IsCall
<1>3. Iterates(call.triples) =>
         /\ Sound(all)
         /\ IsOk(all) => /\ \A i \in DOMAIN its : IsOk(triple_from_py(its[i]))
                         /\ all.ok = made
  <2>1. SUFFICES ASSUME Iterates(call.triples)
                 PROVE  /\ Sound(all)
                        /\ IsOk(all) => /\ \A i \in DOMAIN its : IsOk(triple_from_py(its[i]))
                                        /\ all.ok = made
      OBVIOUS
  <2>2. IsSeq(its) /\ \A i \in DOMAIN its : IsTriple(its[i])
      BY <2>1 DEF IsCall
  <2>3. /\ DOMAIN rs = DOMAIN its /\ DOMAIN rs \subseteq Nat
        /\ \A i \in DOMAIN its : rs[i] = triple_from_py(its[i])
      BY <2>2, SequenceDomain
  <2> HIDE DEF rs
  <2>4. \A i \in DOMAIN rs : Sound(rs[i])
      BY <2>2, <2>3, TripleFromPy
  <2>5. Sound(all)
      BY <2>3, <2>4, CollectSound
  <2>6. CASE \A i \in DOMAIN rs : IsOk(rs[i])
    <3>1. all = Ok([i \in DOMAIN rs |-> rs[i].ok])
        BY <2>3, <2>6, CollectIs
    <3>2. all.ok = [i \in DOMAIN rs |-> rs[i].ok]
        BY <3>1, Results, Zenon
    <3>3. [i \in DOMAIN rs |-> rs[i].ok] = made
        BY <2>3
    <3> QED
        BY <2>3, <2>5, <2>6, <3>2, <3>3
  <2>7. CASE \E i \in DOMAIN rs : ~IsOk(rs[i])
    <3>1. \E i \in DOMAIN rs : ~IsOk(rs[i]) /\ Collect(rs) = rs[i]
        BY <2>3, <2>7, CollectIs
    <3> QED
        BY <2>5, <3>1
  <2> QED
      BY <2>6, <2>7
<1> HIDE DEF rs, all, made, its, source
<1>4. /\ Sound(quads)
      /\ IsOk(quads) => /\ Iterates(call.triples)
                        /\ \A i \in DOMAIN its : IsOk(triple_from_py(its[i]))
                        /\ quads.ok = made
    BY <1>3, Raises, Results DEF PyErrors
<1> HIDE DEF quads
<1>5. /\ Sound(payload)
      /\ IsOk(payload) => IsOk(quads) /\ payload.ok = Triples(quads.ok)
    BY <1>4, Results, Returns
<1> HIDE DEF payload
<1>6. /\ Sound(finish(payload, source, call))
      /\ IsOk(finish(payload, source, call)) =>
           /\ IsOk(payload) /\ IsOk(source)
           /\ finish(payload, source, call).ok
                = [payload |-> payload.ok, provenance |-> source.ok,
                   scope_hint |-> call.scope_hint, embedding |-> ToF32(call.embedding)]
    BY <1>2, <1>5, Finishes
<1> QED
    BY <1>1, <1>4, <1>5, <1>6 DEF source, made, its

LEMMA EventIs ==
    ASSUME NEW call, IsCall(call), call.ctor = "event"
    PROVE  /\ Sound(event(call))
           /\ IsOk(event(call)) =>
                /\ IsOk(provenance_from_py(call.provenance)) /\ IsOk(json_from_py(call.body))
                /\ event(call).ok
                     = [payload |-> Event(call.kind, json_from_py(call.body).ok),
                        provenance |-> provenance_from_py(call.provenance).ok,
                        scope_hint |-> call.scope_hint, embedding |-> ToF32(call.embedding)]
<1> DEFINE kind == to_str(call.kind)
           body == json_from_py(call.body)
           payload == IF ~IsOk(kind) THEN kind ELSE IF IsOk(body) THEN Ok(Event(kind.ok, body.ok))
                      ELSE body
           source == provenance_from_py(call.provenance)
<1>1. event(call) = finish(payload, source, call)
    BY Zenon DEF event
<1>2. Sound(source) /\ Sound(body) /\ Sound(kind) /\ (IsOk(kind) => kind.ok = call.kind)
  <2>1. IsOk(kind) => kind.ok = call.kind
      BY Results DEF to_str
  <2> QED
      BY <2>1, SourceFromPy, BodySound, TextSound DEF IsCall
<1> HIDE DEF source, body, kind
<1>3. /\ Sound(payload)
      /\ IsOk(payload) => IsOk(body) /\ payload.ok = Event(call.kind, body.ok)
    BY <1>2, Results, Returns
<1> HIDE DEF payload
<1>4. /\ Sound(finish(payload, source, call))
      /\ IsOk(finish(payload, source, call)) =>
           /\ IsOk(payload) /\ IsOk(source)
           /\ finish(payload, source, call).ok
                = [payload |-> payload.ok, provenance |-> source.ok,
                   scope_hint |-> call.scope_hint, embedding |-> ToF32(call.embedding)]
    BY <1>2, <1>3, Finishes
<1> QED
    BY <1>1, <1>3, <1>4 DEF source, body

LEMMA ChunkIs ==
    ASSUME NEW call, IsCall(call), call.ctor = "chunk"
    PROVE  /\ Sound(chunk(call))
           /\ IsOk(chunk(call)) =>
                /\ IsOk(provenance_from_py(call.provenance))
                /\ chunk(call).ok
                     = [payload |-> Chunk(call.content, call.content_type),
                        provenance |-> provenance_from_py(call.provenance).ok,
                        scope_hint |-> call.scope_hint, embedding |-> ToF32(call.embedding)]
<1> DEFINE strings == Collect(<<to_str(call.content), to_str(call.content_type)>>)
           payload == IF IsOk(strings) THEN Ok(Chunk(strings.ok[1], strings.ok[2])) ELSE strings
           source == provenance_from_py(call.provenance)
<1>1. chunk(call) = finish(payload, source, call)
    BY Zenon DEF chunk
<1>2. /\ Sound(source) /\ Sound(strings)
      /\ IsOk(strings) => strings.ok[1] = call.content /\ strings.ok[2] = call.content_type
  <2>1. \A s : IsOk(to_str(s)) => to_str(s).ok = s
      BY Results DEF to_str
  <2> QED
      BY <2>1, SourceFromPy, CollectPair, TextSound DEF IsCall
<1> HIDE DEF source, strings
<1>3. /\ Sound(payload)
      /\ IsOk(payload) => payload.ok = Chunk(call.content, call.content_type)
    BY <1>2, Results, Returns
<1> HIDE DEF payload
<1>4. /\ Sound(finish(payload, source, call))
      /\ IsOk(finish(payload, source, call)) =>
           /\ IsOk(payload) /\ IsOk(source)
           /\ finish(payload, source, call).ok
                = [payload |-> payload.ok, provenance |-> source.ok,
                   scope_hint |-> call.scope_hint, embedding |-> ToF32(call.embedding)]
    BY <1>2, <1>3, Finishes
<1> QED
    BY <1>1, <1>3, <1>4 DEF source

LEMMA BuildIs ==
    ASSUME NEW call, IsCall(call)
    PROVE  Sound(Build(call)) /\ (IsOk(Build(call)) => OfCall(Build(call).ok, call))
<1> DEFINE item == CASE call.ctor = "from_triples" -> from_triples(call)
                     [] call.ctor = "event" -> event(call)
                     [] call.ctor = "chunk" -> chunk(call)
           other == provenance_from_py(call.with_provenance[1])
           source == provenance_from_py(call.provenance)
           Payload(p) ==
             /\ call.ctor = "from_triples" =>
                   /\ p = Triples(p.triples)
                   /\ p.triples = [i \in DOMAIN Iterated(call.triples) |->
                                      triple_from_py(Iterated(call.triples)[i]).ok]
                   /\ \A i \in DOMAIN Iterated(call.triples) :
                         IsOk(triple_from_py(Iterated(call.triples)[i]))
                   /\ IsSeq(Iterated(call.triples))
                   /\ \A i \in DOMAIN Iterated(call.triples) : IsTriple(Iterated(call.triples)[i])
             /\ call.ctor = "event" =>
                   /\ p = Event(call.kind, json_from_py(call.body).ok)
                   /\ IsOk(json_from_py(call.body))
             /\ call.ctor = "chunk" => p = Chunk(call.content, call.content_type)
<1>1. Build(call) = IF ~IsOk(item) \/ call.with_provenance = None THEN item
                    ELSE IF IsOk(other) THEN Ok([item.ok EXCEPT !.provenance = other.ok])
                    ELSE other
    BY Zenon DEF Build
<1>2. /\ Sound(item)
      /\ IsOk(item) =>
           /\ IsOk(source) /\ item.ok.provenance = source.ok
           /\ item.ok = [payload |-> item.ok.payload, provenance |-> item.ok.provenance,
                         scope_hint |-> call.scope_hint, embedding |-> ToF32(call.embedding)]
           /\ Payload(item.ok.payload)
  <2>1. CASE call.ctor = "from_triples"
    <3>1. item = from_triples(call)
        BY <2>1
    <3> HIDE DEF item
    <3>2. Iterates(call.triples) =>
             /\ IsSeq(Iterated(call.triples))
             /\ \A i \in DOMAIN Iterated(call.triples) : IsTriple(Iterated(call.triples)[i])
        BY <2>1 DEF IsCall
    <3>3. \A s : Triples(s) = Triples(Triples(s).triples) /\ Triples(s).triples = s
        BY DEF Triples
    <3>4. /\ Sound(item)
          /\ IsOk(item) =>
               /\ IsOk(source) /\ item.ok.provenance = source.ok
               /\ item.ok = [payload |-> item.ok.payload, provenance |-> item.ok.provenance,
                             scope_hint |-> call.scope_hint, embedding |-> ToF32(call.embedding)]
               /\ item.ok.payload
                    = Triples([i \in DOMAIN Iterated(call.triples) |->
                                  triple_from_py(Iterated(call.triples)[i]).ok])
               /\ \A i \in DOMAIN Iterated(call.triples) : IsOk(triple_from_py(Iterated(call.triples)[i]))
               /\ Iterates(call.triples)
        BY <2>1, <3>1, FromTriplesIs
    <3> QED
        BY <2>1, <3>2, <3>3, <3>4
  <2>2. CASE call.ctor = "event"
    <3>1. item = event(call)
        BY <2>2
    <3> HIDE DEF item
    <3>2. /\ Sound(item)
          /\ IsOk(item) =>
               /\ IsOk(source) /\ IsOk(json_from_py(call.body))
               /\ item.ok = [payload |-> Event(call.kind, json_from_py(call.body).ok),
                             provenance |-> source.ok, scope_hint |-> call.scope_hint,
                             embedding |-> ToF32(call.embedding)]
        BY <2>2, <3>1, EventIs
    <3>3. IsOk(item) => /\ item.ok.payload = Event(call.kind, json_from_py(call.body).ok)
                        /\ item.ok.provenance = source.ok
        BY <3>2
    <3>4. IsOk(item) => Payload(item.ok.payload)
        BY <2>2, <3>2, <3>3
    <3> HIDE DEF Payload, source
    <3> QED
        BY <3>2, <3>3, <3>4
  <2>3. CASE call.ctor = "chunk"
    <3>1. item = chunk(call)
        BY <2>3
    <3> HIDE DEF item
    <3>2. /\ Sound(item)
          /\ IsOk(item) =>
               /\ IsOk(source)
               /\ item.ok = [payload |-> Chunk(call.content, call.content_type),
                             provenance |-> source.ok, scope_hint |-> call.scope_hint,
                             embedding |-> ToF32(call.embedding)]
        BY <2>3, <3>1, ChunkIs
    <3>3. IsOk(item) => /\ item.ok.payload = Chunk(call.content, call.content_type)
                        /\ item.ok.provenance = source.ok
        BY <3>2
    <3>4. IsOk(item) => Payload(item.ok.payload)
        BY <2>3, <3>2, <3>3
    <3> HIDE DEF Payload, source
    <3> QED
        BY <3>2, <3>3, <3>4
  <2> QED
      BY <2>1, <2>2, <2>3 DEF IsCall
<1>3. IsSource(call.provenance)
    BY DEF IsCall
<1> HIDE DEF item
<1>4. CASE ~IsOk(item)
    BY <1>1, <1>2, <1>4
<1>5. CASE IsOk(item) /\ call.with_provenance = None
  <2>1. Build(call) = item
      BY <1>1, <1>5
  <2>2. /\ source.ok = IF call.provenance.py = "str" THEN Provenance(call.provenance.str, <<>>)
                       ELSE call.provenance.provenance
        /\ source.ok = Provenance(source.ok.source, source.ok.derived_from)
        /\ IsIds(source.ok.derived_from)
      BY <1>2, <1>3, <1>5, SourceFromPy
  <2> HIDE DEF Payload
  <2>3. OfCall(item.ok, call) <=>
           /\ item.ok = [payload |-> item.ok.payload, provenance |-> item.ok.provenance,
                         scope_hint |-> call.scope_hint, embedding |-> ToF32(call.embedding)]
           /\ item.ok.provenance
                = IF call.provenance.py = "str" THEN Provenance(call.provenance.str, <<>>)
                  ELSE call.provenance.provenance
           /\ item.ok.provenance = Provenance(item.ok.provenance.source,
                                              item.ok.provenance.derived_from)
           /\ IsIds(item.ok.provenance.derived_from)
           /\ Payload(item.ok.payload)
      BY <1>5, Zenon DEF OfCall, Payload
  <2> QED
      BY <1>2, <1>5, <2>1, <2>2, <2>3
<1>6. CASE IsOk(item) /\ call.with_provenance # None /\ ~IsOk(other)
  <2>1. Sound(other)
      BY <1>6, SourceFromPy DEF IsCall
  <2> QED
      BY <1>1, <1>6, <2>1
<1>7. CASE IsOk(item) /\ call.with_provenance # None /\ IsOk(other)
  <2> DEFINE made == [item.ok EXCEPT !.provenance = other.ok]
             w == call.with_provenance[1]
  <2>1. Build(call) = Ok(made)
      BY <1>1, <1>7
  <2>2. Build(call).ok = made /\ Sound(Build(call))
      BY <2>1, Results, Returns
  <2>3. IsSource(w)
      BY <1>7 DEF IsCall
  <2>4. /\ other.ok = IF w.py = "str" THEN Provenance(w.str, <<>>) ELSE w.provenance
        /\ other.ok = Provenance(other.ok.source, other.ok.derived_from)
        /\ IsIds(other.ok.derived_from)
      BY <1>7, <2>3, SourceFromPy
  <2>5. /\ made = [payload |-> item.ok.payload, provenance |-> other.ok,
                   scope_hint |-> call.scope_hint, embedding |-> ToF32(call.embedding)]
        /\ made.payload = item.ok.payload /\ made.provenance = other.ok
      BY <1>2, <1>7
  <2> HIDE DEF Payload, made
  <2>6. OfCall(made, call) <=>
           /\ made = [payload |-> made.payload, provenance |-> made.provenance,
                      scope_hint |-> call.scope_hint, embedding |-> ToF32(call.embedding)]
           /\ made.provenance = IF w.py = "str" THEN Provenance(w.str, <<>>) ELSE w.provenance
           /\ made.provenance = Provenance(made.provenance.source, made.provenance.derived_from)
           /\ IsIds(made.provenance.derived_from)
           /\ Payload(made.payload)
      BY <1>7, Zenon DEF OfCall, Payload
  <2> QED
      BY <1>2, <1>7, <2>2, <2>4, <2>5, <2>6
<1> QED
    BY <1>4, <1>5, <1>6, <1>7

\* A batch is built from its first call to its last.
LEMMA BuiltIs ==
    ASSUME NEW batch \in Batches
    PROVE  /\ Sound(Built(batch))
           /\ IsOk(Built(batch)) =>
                /\ \A i \in DOMAIN batch : IsOk(Build(batch[i]))
                /\ Built(batch).ok = [i \in DOMAIN batch |-> Build(batch[i]).ok]
<1> DEFINE rs == [i \in DOMAIN batch |-> Build(batch[i])]
<1>1. IsSeq(batch) /\ \A i \in DOMAIN batch : IsCall(batch[i])
    BY ValuesAssumption
<1>2. /\ DOMAIN rs = DOMAIN batch /\ DOMAIN rs \subseteq Nat
      /\ \A i \in DOMAIN batch : rs[i] = Build(batch[i])
    BY <1>1, SequenceDomain
<1>3. Built(batch) = Collect(rs)
    BY DEF Built
<1> HIDE DEF rs
<1>4. \A i \in DOMAIN rs : Sound(rs[i])
    BY <1>1, <1>2, BuildIs
<1>5. Sound(Collect(rs))
    BY <1>2, <1>4, CollectSound
<1>6. CASE \A i \in DOMAIN rs : IsOk(rs[i])
  <2>1. Collect(rs) = Ok([i \in DOMAIN rs |-> rs[i].ok])
      BY <1>2, <1>6, CollectIs
  <2>2. Collect(rs).ok = [i \in DOMAIN rs |-> rs[i].ok]
      BY <2>1, Results, Zenon
  <2>3. [i \in DOMAIN rs |-> rs[i].ok] = [i \in DOMAIN batch |-> Build(batch[i]).ok]
      BY <1>2
  <2> QED
      BY <1>2, <1>3, <1>5, <1>6, <2>2, <2>3
<1>7. CASE \E i \in DOMAIN rs : ~IsOk(rs[i])
  <2>1. \E i \in DOMAIN rs : ~IsOk(rs[i]) /\ Collect(rs) = rs[i]
      BY <1>2, <1>7, CollectIs
  <2> QED
      BY <1>3, <1>5, <2>1
<1> QED
    BY <1>6, <1>7

-----------------------------------------------------------------------------
(* Queries *)

\* An argument that is None is left open.
Asked(o, r) == IF o = PyNone THEN Ok(None) ELSE IF IsOk(r) THEN Ok(Some(r.ok)) ELSE r

LEMMA AskedIs ==
    ASSUME NEW o, NEW r, Sound(r)
    PROVE  /\ Sound(Asked(o, r))
           /\ IsOk(Asked(o, r)) =>
                \/ o = PyNone /\ Asked(o, r).ok = None
                \/ o # PyNone /\ IsOk(r) /\ Asked(o, r).ok = Some(r.ok)
BY Results, Returns DEF Asked

LEMMA PatternFromPy ==
    ASSUME NEW s, NEW p, NEW o, IsTerm(s), IsTerm(p), IsTerm(o)
    PROVE  LET a == Asked(s, subject_from_py(s))
               b == Asked(p, predicate_from_py(p))
               c == Asked(o, object_from_py(o))
           IN  /\ Sound(pattern_from_py(s, p, o))
               /\ IsOk(pattern_from_py(s, p, o)) =>
                    /\ IsOk(a) /\ IsOk(b) /\ IsOk(c)
                    /\ pattern_from_py(s, p, o).ok
                         = [subject |-> a.ok, predicate |-> b.ok, object |-> c.ok]
<1> DEFINE a == Asked(s, subject_from_py(s))
           b == Asked(p, predicate_from_py(p))
           c == Asked(o, object_from_py(o))
           terms == Collect(<<a, b, c>>)
           made == [subject |-> terms.ok[1], predicate |-> terms.ok[2], object |-> terms.ok[3]]
<1>1. pattern_from_py(s, p, o) = IF IsOk(terms) THEN Ok(made) ELSE terms
    BY Zenon DEF pattern_from_py, Asked
<1>2. Sound(a) /\ Sound(b) /\ Sound(c)
    BY AskedIs, SubjectFromPy, PredicateFromPy, ObjectFromPy
<1> HIDE DEF a, b, c
<1>3. /\ Sound(terms)
      /\ IsOk(terms) => /\ IsOk(a) /\ IsOk(b) /\ IsOk(c)
                        /\ terms.ok[1] = a.ok /\ terms.ok[2] = b.ok /\ terms.ok[3] = c.ok
    BY <1>2, CollectTriple
<1> HIDE DEF terms
<1>4. Sound(Ok(made)) /\ Ok(made).ok = made
    BY Results, Returns
<1>5. IsOk(terms) => made = [subject |-> a.ok, predicate |-> b.ok, object |-> c.ok]
    BY <1>3
<1> HIDE DEF made
<1>6. /\ Sound(pattern_from_py(s, p, o))
      /\ IsOk(pattern_from_py(s, p, o)) =>
           /\ IsOk(a) /\ IsOk(b) /\ IsOk(c)
           /\ pattern_from_py(s, p, o).ok
                = [subject |-> a.ok, predicate |-> b.ok, object |-> c.ok]
    BY <1>1, <1>3, <1>4, <1>5
<1> QED
    BY <1>6 DEF a, b, c

LEMMA ScopesFromPy ==
    ASSUME NEW call, IsQuery(call)
    PROVE  /\ Sound(scopes_from_py(call.scopes))
           /\ IsOk(scopes_from_py(call.scopes)) =>
                /\ call.scopes.py \in {"None", "ContextScope"} \/ Iterates(call.scopes)
                /\ Enduring \in SelectedScopes(scopes_from_py(call.scopes).ok) <=>
                     \/ call.scopes = PyNone
                     \/ PyScope(Enduring) \in
                          (IF Iterates(call.scopes) THEN Range(Iterated(call.scopes))
                           ELSE {call.scopes})
<1> DEFINE o == call.scopes
           r == scopes_from_py(o)
<1>0. Iterates(o) => o.py \notin {"None", "ContextScope"}
    BY DEF Iterates
<1>1. CASE o.py = "None"
  <2>1. r = Ok([select |-> "All", scopes |-> <<>>]) /\ o = PyNone
      BY <1>0, <1>1 DEF scopes_from_py, IsQuery
  <2>2. Sound(r) /\ r.ok = [select |-> "All", scopes |-> <<>>]
      BY <2>1, Results, Returns
  <2>3. Enduring \in SelectedScopes(r.ok)
      BY <2>2 DEF SelectedScopes, Scopes
  <2> QED
      BY <1>1, <2>1, <2>2, <2>3
<1>2. CASE o.py = "ContextScope"
  <2>1. r = Ok([select |-> "Single", scopes |-> <<o.scope>>]) /\ o = PyScope(o.scope)
      BY <1>0, <1>2 DEF scopes_from_py, IsQuery, IsScope
  <2>2. Sound(r) /\ r.ok = [select |-> "Single", scopes |-> <<o.scope>>]
      BY <2>1, Results, Returns
  <2>3. SelectedScopes(r.ok) = {o.scope}
    <3>1. Range(<<o.scope>>) = {o.scope}
        BY DEF Range
    <3> QED
        BY <2>2, <3>1 DEF SelectedScopes
  <2>4. o # PyNone /\ (PyScope(Enduring) = o <=> o.scope = Enduring)
      BY <1>2, <2>1 DEF PyNone, PyScope
  <2> QED
      BY <1>0, <1>2, <2>2, <2>3, <2>4
<1>3. CASE Iterates(o) /\ \A i \in DOMAIN Iterated(o) : Iterated(o)[i].py = "ContextScope"
  <2> DEFINE f == [i \in DOMAIN Iterated(o) |-> Iterated(o)[i].scope]
  <2>1. r = Ok([select |-> "Set", scopes |-> f])
      BY <1>0, <1>3 DEF scopes_from_py
  <2>2. Sound(r) /\ r.ok = [select |-> "Set", scopes |-> f]
      BY <2>1, Results, Returns
  <2>3. SelectedScopes(r.ok) = Range(f)
      BY <2>2 DEF SelectedScopes
  <2>4. Enduring \in Range(f) <=> PyScope(Enduring) \in Range(Iterated(o))
    <3>1. \A i \in DOMAIN Iterated(o) : Iterated(o)[i] = PyScope(Iterated(o)[i].scope)
        BY <1>3 DEF IsQuery, IsScope
    <3>2. PyScope(Enduring).scope = Enduring
        BY DEF PyScope
    <3> QED
        BY <3>1, <3>2 DEF Range
  <2>5. o # PyNone
      BY <1>0, <1>3 DEF PyNone
  <2> HIDE DEF f
  <2> QED
      BY <1>3, <2>2, <2>3, <2>4, <2>5
<1>4. CASE \/ o.py \notin {"None", "ContextScope"} /\ ~Iterates(o)
           \/ /\ Iterates(o)
              /\ ~ \A i \in DOMAIN Iterated(o) : Iterated(o)[i].py = "ContextScope"
  <2>1. r = Raise("TypeError")
      BY <1>0, <1>4 DEF scopes_from_py
  <2> QED
      BY <2>1, Raises, Results DEF PyErrors
<1> QED
    BY <1>1, <1>2, <1>3, <1>4

LEMMA QueryIs ==
    ASSUME NEW call \in QueryCalls
    PROVE  /\ Sound(Query(call))
           /\ IsOk(Query(call)) =>
                /\ call.kind \in {"pattern", "inference"} =>
                      /\ IsOk(pattern_from_py(call.subject, call.predicate, call.object))
                      /\ Query(call).ok.pattern
                           = pattern_from_py(call.subject, call.predicate, call.object).ok
                /\ IsOk(scopes_from_py(call.scopes))
                /\ Query(call).ok.scopes = scopes_from_py(call.scopes).ok
                /\ Query(call).ok.kind = call.kind /\ Query(call).ok.limit = call.limit
                /\ Query(call).ok.reasoner_hint = call.reasoner_hint
<1> DEFINE p == pattern_from_py(call.subject, call.predicate, call.object)
           pattern == IF call.kind \in {"pattern", "inference"} THEN p ELSE Ok(None)
           s == scopes_from_py(call.scopes)
           parts == Collect(<<pattern, s>>)
           made == [kind |-> call.kind, pattern |-> parts.ok[1], scopes |-> parts.ok[2],
                    limit |-> call.limit, reasoner_hint |-> call.reasoner_hint]
<1>1. IsQuery(call)
    BY ValuesAssumption
<1>2. Query(call) = IF IsOk(parts) THEN Ok(made) ELSE parts
    BY Zenon DEF Query
<1>3. Sound(p) /\ Sound(s)
    BY <1>1, PatternFromPy, ScopesFromPy DEF IsQuery
<1> HIDE DEF p, s
<1>4. Sound(pattern)
    BY <1>3, Returns
<1>5. /\ Sound(parts)
      /\ IsOk(parts) => /\ IsOk(pattern) /\ IsOk(s)
                        /\ parts.ok[1] = pattern.ok /\ parts.ok[2] = s.ok
    BY <1>3, <1>4, CollectPair
<1>6. Sound(Ok(made)) /\ Ok(made).ok = made
    BY Results, Returns
<1> HIDE DEF parts
<1>7. /\ made.kind = call.kind /\ made.pattern = parts.ok[1] /\ made.scopes = parts.ok[2]
      /\ made.limit = call.limit /\ made.reasoner_hint = call.reasoner_hint
    OBVIOUS
<1> HIDE DEF made
<1> QED
    BY <1>2, <1>5, <1>6, <1>7 DEF p, s

-----------------------------------------------------------------------------
(* What `except SessionError' catches *)

LEMMA FailureIsCaught ==
    ASSUME NEW r, NEW where, Fails(r, where),
           Catches("SessionError", r.raised) <=> where = "session"
    PROVE  SessionErrorCatches'
<1>1. raised' = Some([exception |-> r.raised, where |-> where])
    BY DEF Fails
<1>2. raised'[1].exception = r.raised /\ raised'[1].where = where
    BY <1>1 DEF Some
<1> QED
    BY <1>2 DEF SessionErrorCatches

LEMMA StepCaught ==
    ASSUME SessionErrorCatches, [Next]_vars
    PROVE  SessionErrorCatches'
<1>1. /\ \A r : Sound(r) /\ ~IsOk(r) => ~Catches("SessionError", r.raised)
      /\ \A e : Catches("SessionError", to_py_err(e).raised)
    BY SessionErrorsAreCaught, Zenon DEF Sound
<1>2. raised' = None => SessionErrorCatches'
    BY DEF SessionErrorCatches
<1>3. ASSUME NEW e, Fails(to_py_err(e), "session") PROVE SessionErrorCatches'
    BY <1>1, <1>3, FailureIsCaught
<1>4. ASSUME NEW batch \in Batches, AddBatch(batch) PROVE SessionErrorCatches'
  <2>1. CASE ~IsOk(Built(batch))
    <3>1. Fails(Built(batch), "conversion")
        BY <1>4, <2>1 DEF AddBatch
    <3>2. Catches("SessionError", Built(batch).raised) <=> "conversion" = "session"
        BY <1>1, <2>1, BuiltIs
    <3> QED
        BY <3>1, <3>2, FailureIsCaught, Zenon
  <2>2. CASE IsOk(Built(batch))
    <3> DEFINE b == Built(batch).ok
    <3>1. \/ Fails(to_py_err([error |-> Invalid(b)[1]]), "session")
          \/ raised' = None
      <4>1. CASE Invalid(b) # None
          BY <1>4, <2>2, <4>1, Zenon DEF AddBatch
      <4>2. CASE Invalid(b) = None
          BY <1>4, <2>2, <4>2, Zenon DEF AddBatch
      <4> QED
          BY <4>1, <4>2
    <3> QED
        BY <1>2, <1>3, <3>1
  <2> QED
      BY <2>1, <2>2
<1>5. ASSUME NEW call \in QueryCalls, FailedQuery(call) PROVE SessionErrorCatches'
  <2>1. CASE IsOk(Query(call))
    <3>1. /\ Answer(call) = Ask(Query(call).ok) /\ ~IsOk(Answer(call))
          /\ Fails(Answer(call), "session")
        BY <1>5, <2>1 DEF FailedQuery, Answer
    <3> DEFINE q == Query(call).ok
    <3>2. \/ \E e : Ask(q) = to_py_err(e)
          \/ \E v : Ask(q) = Ok(v)
        BY Zenon DEF Ask
    <3>3. PICK e : Ask(q) = to_py_err(e)
        BY <3>1, <3>2, Results
    <3> QED
        BY <1>3, <3>1, <3>3
  <2>2. CASE ~IsOk(Query(call))
    <3>1. Answer(call) = Query(call) /\ Fails(Query(call), "conversion")
        BY <1>5, <2>2 DEF FailedQuery, Answer
    <3>2. Catches("SessionError", Query(call).raised) <=> "conversion" = "session"
        BY <1>1, <2>2, QueryIs
    <3> QED
        BY <3>1, <3>2, FailureIsCaught, Zenon
  <2> QED
      BY <2>1, <2>2
<1>6. ASSUME NEW e \in Unimplemented, Unavailable(e) PROVE SessionErrorCatches'
    BY <1>3, <1>6, Zenon DEF Unavailable
<1>7. CASE Open
    BY <1>2, <1>3, <1>7, Zenon DEF Open
<1>8. CASE Close
    BY <1>2, <1>8 DEF Close
<1>9. ASSUME NEW id \in DOMAIN items, RemoveItem(id) PROVE SessionErrorCatches'
    BY <1>2, <1>9 DEF RemoveItem
<1>10. ASSUME NEW m \in ForeignMeta, ForeignWrite(m) PROVE SessionErrorCatches'
    BY <1>2, <1>10 DEF ForeignWrite
<1>11. CASE raised' = raised
    BY <1>11 DEF SessionErrorCatches
<1>12. ASSUME raised' = Some([exception |-> to_py_err([error |-> "Storage"]).raised,
                              where |-> "session"])
       PROVE  SessionErrorCatches'
  <2>1. /\ raised'[1].exception = to_py_err([error |-> "Storage"]).raised
        /\ raised'[1].where = "session"
      BY <1>12 DEF Some
  <2> QED
      BY <1>1, <2>1, Zenon DEF SessionErrorCatches
<1>13. CASE InsertRefused \/ StorageFails
    BY <1>12, <1>13, Zenon DEF InsertRefused, StorageFails
<1>14. CASE InsertRecord \/ CommitBatch \/ AddReturns
    BY <1>2, <1>11, <1>14, Zenon DEF InsertRecord, CommitBatch, AddReturns
<1>15. ASSUME NEW q, InsertQuad(q) PROVE SessionErrorCatches'
    BY <1>11, <1>15, Zenon DEF InsertQuad
<1>16. ASSUME NEW id, DropItem(id) PROVE SessionErrorCatches'
    BY <1>11, <1>16, Zenon DEF DropItem
<1>17. CASE UNCHANGED vars
    BY <1>11, <1>17 DEF vars
<1> QED
    BY <1>4, <1>5, <1>6, <1>7, <1>8, <1>9, <1>10, <1>13, <1>14, <1>15, <1>16, <1>17 DEF Next

\* "Base class for every error raised by a Session": `except SessionError'
\* catches what any operation of a Session raises, and nothing that the
\* conversion of an argument raises, whatever part of which argument fails.
THEOREM SessionErrorAlwaysCatches == Spec => []SessionErrorCatches
<1>1. Init => SessionErrorCatches
    BY DEF Init, SessionErrorCatches
<1>2. SessionErrorCatches /\ [Next]_vars => SessionErrorCatches'
    BY StepCaught
<1> QED
    BY <1>1, <1>2, PTL DEF Spec

-----------------------------------------------------------------------------
(* Ids and their graphs *)

\* An IRI of an item graph names at most the id whose graph it is; the graph of
\* an id that was given out names that id.
LEMMA ParseIs ==
    /\ \A g : \A id \in parse_item_graph(g) : id \in Nat /\ item_graph(id) = g
    /\ \A id \in 0 .. MaxItems - 1 : parse_item_graph(item_graph(id)) = {id}
<1>1. ASSUME NEW g, NEW id \in parse_item_graph(g) PROVE id \in Nat /\ item_graph(id) = g
  <2>1. item_graph(id) = g
      BY <1>1 DEF parse_item_graph
  <2>2. \E s \in Spelling(g.iri) : \E i \in DOMAIN ParseU64(s) : id = ParseU64(s)[i]
      BY <1>1, Zenon DEF parse_item_graph
  <2>3. PICK s \in Spelling(g.iri) : \E i \in DOMAIN ParseU64(s) : id = ParseU64(s)[i]
      BY <2>2
  <2>4. PICK i \in DOMAIN ParseU64(s) : id = ParseU64(s)[i]
      BY <2>3
  <2>5. s \in Spellings
      BY DEF Spelling
  <2>6. ParseU64(s) # None
      BY <2>4 DEF None
  <2>7. ParseU64(s) = <<ParseU64(s)[1]>> /\ ParseU64(s)[1] \in Nat
      BY <2>5, <2>6, ValuesAssumption DEF Some
  <2>8. i = 1
      BY <2>4, <2>7
  <2> QED
      BY <2>1, <2>4, <2>7, <2>8
<1>2. ASSUME NEW id \in 0 .. MaxItems - 1 PROVE parse_item_graph(item_graph(id)) = {id}
  <2> DEFINE g == item_graph(id)
             S == UNION {{ParseU64(s)[i] : i \in DOMAIN ParseU64(s)} : s \in Spelling(g.iri)}
  <2>1. g.term = "named" /\ g.iri = ITEM_PREFIX \o ToString(id)
      BY DEF item_graph, Named
  <2>2. parse_item_graph(g) = {i \in S : item_graph(i) = g}
      BY <2>1 DEF parse_item_graph
  <2>3. Spelling(g.iri) = {ToString(id)}
      BY <2>1, ValuesAssumption DEF Spelling
  <2>4. ParseU64(ToString(id)) = <<id>>
      BY ValuesAssumption DEF Some
  <2>5. S = {id}
    <3>1. {ParseU64(ToString(id))[i] : i \in DOMAIN ParseU64(ToString(id))} = {id}
        BY <2>4
    <3> QED
        BY <2>3, <3>1
  <2> QED
      BY <2>2, <2>5
<1> QED
    BY <1>1, <1>2

LEMMA GraphsAreDistinct ==
    \A i, j \in 0 .. MaxItems - 1 : item_graph(i) = item_graph(j) => i = j
<1>1. ASSUME NEW i \in 0 .. MaxItems - 1, NEW j \in 0 .. MaxItems - 1,
             item_graph(i) = item_graph(j)
      PROVE  i = j
  <2>1. {i} = {j}
      BY <1>1, ParseIs
  <2> QED
      BY <2>1
<1> QED
    BY <1>1

\* The id that a metadata quad is loaded under is one that its subject names.
LEMMA LoadedId ==
    ASSUME NEW d, NEW m, LoadRecord(d, m) # None
    PROVE  LET r == LoadRecord(d, m)[1]
           IN  /\ r.id \in parse_item_graph(m.subject)
               /\ r = [id |-> r.id, item |-> decode(m.object.value, GraphQuads(d, r.id))[1]]
               /\ decode(m.object.value, GraphQuads(d, r.id)) # None
               /\ LoadRecord(d, m) = Some(r)
<1> DEFINE ids == parse_item_graph(m.subject)
           id == CHOOSE i \in ids : TRUE
           item == decode(m.object.value, GraphQuads(d, id))
           found == [id |-> id, item |-> item[1]]
<1>1. LoadRecord(d, m) = IF ids = {} \/ m.object.term # "literal" THEN None
                         ELSE IF item = None THEN None ELSE Some(found)
    BY Zenon DEF LoadRecord
<1>2. ids # {} /\ item # None /\ LoadRecord(d, m) = Some(found)
    BY <1>1
<1>3. id \in ids
    BY <1>2, Zenon
<1> HIDE DEF id
<1>4. found.id = id /\ LoadRecord(d, m)[1] = found
    BY <1>2 DEF Some
<1> QED
    BY <1>2, <1>3, <1>4

-----------------------------------------------------------------------------
(* Every metadata quad belongs to an item *)

\* The next id is a number, and the store holds finitely many quads.
FiniteInv ==
    /\ next_id \in Nat
    /\ IsFiniteSet(data) /\ IsFiniteSet(meta)

LEMMA LenIs ==
    ASSUME NEW f, NEW n \in Nat, f = [i \in 1 .. n |-> f[i]]
    PROVE  IsSeq(f) /\ Len(f) = n
<1>1. DOMAIN f = 1 .. n /\ \A i \in 1 .. n : f[i] \in Range(f)
    BY DEF Range
<1> HIDE DEF Range
<1>2. f \in Seq(Range(f))
    BY <1>1
<1> QED
    BY <1>1, <1>2 DEF IsSeq

LEMMA BuiltLen ==
    ASSUME NEW calls \in Batches, IsOk(Built(calls))
    PROVE  /\ DOMAIN Built(calls).ok = DOMAIN calls /\ DOMAIN calls = 1 .. Len(calls)
           /\ Len(Built(calls).ok) = Len(calls) /\ Len(calls) \in Nat
           /\ \A i \in DOMAIN calls : /\ Built(calls).ok[i] = Build(calls[i]).ok
                                      /\ IsCall(calls[i]) /\ IsOk(Build(calls[i]))
                                      /\ OfCall(Build(calls[i]).ok, calls[i])
<1> DEFINE b == Built(calls).ok
<1>1. IsSeq(calls) /\ \A i \in DOMAIN calls : IsCall(calls[i])
    BY ValuesAssumption
<1>2. DOMAIN calls = 1 .. Len(calls) /\ Len(calls) \in Nat
    BY <1>1, SequenceDomain
<1>3. b = [i \in DOMAIN calls |-> Build(calls[i]).ok] /\ \A i \in DOMAIN calls : IsOk(Build(calls[i]))
    BY BuiltIs
<1> HIDE DEF b
<1>4. DOMAIN b = DOMAIN calls /\ \A i \in DOMAIN calls : b[i] = Build(calls[i]).ok
    BY <1>3
<1>5. b = [i \in 1 .. Len(calls) |-> b[i]]
    BY <1>2, <1>3
<1>6. Len(b) = Len(calls)
    BY <1>2, <1>5, LenIs
<1>7. \A i \in DOMAIN calls : OfCall(Build(calls[i]).ok, calls[i])
    BY <1>1, <1>3, BuildIs
<1> QED
    BY <1>1, <1>2, <1>3, <1>4, <1>6, <1>7 DEF b

\* What a call puts in the payload of its item.
LEMMA PayloadIs ==
    ASSUME NEW call, IsCall(call), NEW item, OfCall(item, call)
    PROVE  /\ item.payload.type = IF call.ctor = "from_triples" THEN "triples" ELSE call.ctor
           /\ item.payload.type \in {"triples", "event", "chunk"}
           /\ item.payload.type = "triples" =>
                /\ IsSeq(item.payload.triples)
                /\ DOMAIN item.payload.triples = DOMAIN Iterated(call.triples)
                /\ \A i \in DOMAIN item.payload.triples :
                      /\ item.payload.triples[i] \in CoreTriples
                      /\ SameTriple(triple_to_py(item.payload.triples[i]))
                           = SameTriple(Iterated(call.triples)[i])
<1>1. CASE call.ctor = "from_triples"
  <2> DEFINE its == Iterated(call.triples)
             p == item.payload
  <2>1. /\ p = Triples(p.triples)
        /\ p.triples = [i \in DOMAIN its |-> triple_from_py(its[i]).ok]
        /\ \A i \in DOMAIN its : IsOk(triple_from_py(its[i]))
        /\ IsSeq(its)
        /\ \A i \in DOMAIN its : IsTriple(its[i])
      BY <1>1, Zenon DEF OfCall
  <2>2. p.type = "triples"
    <3>1. Triples(p.triples).type = "triples"
        BY DEF Triples
    <3> QED
        BY <2>1, <3>1
  <2>3. DOMAIN its = 1 .. Len(its) /\ Len(its) \in Nat
      BY <2>1, SequenceDomain
  <2> DEFINE ts == p.triples
  <2>4. DOMAIN ts = DOMAIN its /\ \A i \in DOMAIN its : ts[i] = triple_from_py(its[i]).ok
      BY <2>1
  <2>5. \A i \in DOMAIN its : /\ ts[i] \in CoreTriples
                              /\ SameTriple(triple_to_py(ts[i])) = SameTriple(its[i])
      BY <2>1, <2>4, TripleFromPy
  <2>6. ts = [i \in 1 .. Len(its) |-> ts[i]]
      BY <2>1, <2>3, <2>4
  <2> HIDE DEF ts
  <2>7. IsSeq(ts)
      BY <2>3, <2>6, LenIs
  <2> QED
      BY <1>1, <2>2, <2>4, <2>5, <2>7 DEF ts
<1>2. CASE call.ctor = "event"
  <2>1. item.payload = Event(call.kind, json_from_py(call.body).ok)
      BY <1>2 DEF OfCall
  <2> QED
      BY <1>2, <2>1 DEF Event
<1>3. CASE call.ctor = "chunk"
  <2>1. item.payload = Chunk(call.content, call.content_type)
      BY <1>3 DEF OfCall
  <2> QED
      BY <1>3, <2>1 DEF Chunk
<1> QED
    BY <1>1, <1>2, <1>3 DEF IsCall

LEMMA IntervalIsFinite ==
    ASSUME NEW n \in Nat
    PROVE  IsFiniteSet(1 .. n)
<1>1. 1 \in Int /\ n \in Int
    OBVIOUS
<1> QED
    BY <1>1, FS_Interval

\* The quads of an item are its triples, in the graph of the item.
LEMMA DataIs ==
    ASSUME NEW call, IsCall(call), NEW item, OfCall(item, call), NEW id
    PROVE  /\ encode(id, item).meta = [subject |-> item_graph(id),
                                       object |-> new_simple(Serialize(item))]
           /\ item.payload.type # "triples" => encode(id, item).data = {}
           /\ item.payload.type = "triples" =>
                encode(id, item).data
                  = {[item.payload.triples[i] EXCEPT !.graph = item_graph(id)] :
                        i \in DOMAIN item.payload.triples}
           /\ IsFiniteSet(encode(id, item).data)
           /\ \A q \in encode(id, item).data : q.graph = item_graph(id)
<1> DEFINE ts == item.payload.triples
           f == [i \in DOMAIN ts |-> [ts[i] EXCEPT !.graph = item_graph(id)]]
           D == {[ts[i] EXCEPT !.graph = item_graph(id)] : i \in DOMAIN ts}
<1>1. /\ encode(id, item).meta = [subject |-> item_graph(id),
                                  object |-> new_simple(Serialize(item))]
      /\ encode(id, item).data = IF item.payload.type = "triples" THEN D ELSE {}
    BY Zenon DEF encode
<1>2. CASE item.payload.type # "triples"
  <2>1. IsFiniteSet({})
      BY FS_EmptySet
  <2> QED
      BY <1>1, <1>2, <2>1
<1>3. CASE item.payload.type = "triples"
  <2>1. IsSeq(ts) /\ \A i \in DOMAIN ts : ts[i] \in CoreTriples
      BY <1>3, PayloadIs
  <2>2. IsFiniteSet(DOMAIN ts)
      BY <2>1, SequenceDomain, IntervalIsFinite
  <2>3. DOMAIN f = DOMAIN ts /\ {f[i] : i \in DOMAIN ts} = D
      OBVIOUS
  <2>4. IsFiniteSet(D)
    <3> HIDE DEF f, D
    <3> QED
        BY <2>2, <2>3, ImageIsFinite
  <2>5. \A q \in D : q.graph = item_graph(id)
      BY <2>1 DEF CoreTriples, CoreQuads
  <2> HIDE DEF D
  <2> QED
      BY <1>1, <1>3, <2>4, <2>5 DEF D
<1> QED
    BY <1>2, <1>3

-----------------------------------------------------------------------------
(* What adding a batch does *)

\* All that the batch writes, as the core model has it.
AllQuads(batch) == UNION {encode(next_id + i - 1, batch[i]).data : i \in DOMAIN batch}
AllRecords(batch) == {encode(next_id + i - 1, batch[i]).meta : i \in DOMAIN batch}

\* The batch was taken.
Added(calls) ==
    LET batch == Built(calls).ok
        at(id) == id - next_id + 1
        ids == next_id .. next_id + Len(batch) - 1
    IN  /\ open
        /\ next_id + Len(calls) =< MaxItems
        /\ IsOk(Built(calls)) /\ Invalid(batch) = None
        /\ \A q \in AllQuads(batch) : quad_to_ox(q) # Refused
        /\ data' = data \cup {Encode(quad_to_ox(q)) : q \in AllQuads(batch)}
        /\ meta' = meta \cup AllRecords(batch)
        /\ items' = [id \in ids \cup DOMAIN items |->
                        IF id \in ids THEN batch[at(id)] ELSE items[id]]
        /\ next_id' = next_id + Len(batch)
        /\ given' = [id \in ids \cup DOMAIN given |->
                        IF id \in ids THEN calls[at(id)] ELSE given[id]]
        /\ UNCHANGED <<foreign, open>>

\* The store and the index stay.
Kept == UNCHANGED <<data, meta, foreign, open, items, next_id, given>>

\* What a step does to the store and the index.
Effect ==
    \/ Kept
    \/ add # None /\ Call.calls \in Batches /\ Added(Call.calls)
    \/ open /\ \E id \in DOMAIN items : Deletes(id)
    \/ Close \/ Open
    \/ \E m \in ForeignMeta : ForeignWrite(m)

\* The quads that the running call has inserted.
Inserted ==
    (UNION {QuadsOf(Batch, i) : i \in 1 .. Call.item - 1})
        \cup (QuadsOf(Batch, Call.item) \ Call.left)

\* While a batch is being inserted the transaction sees the store with what was
\* inserted so far, none of it refused; the batch is valid.
AddInv ==
    add # None =>
        /\ open
        /\ Call.inserting =>
              /\ Call.calls \in Batches
              /\ next_id + Len(Call.calls) =< MaxItems
              /\ IsOk(Built(Call.calls)) /\ Invalid(Batch) = None
              /\ Call.item \in Nat \ {0}
              /\ Call.data = data \cup {Encode(quad_to_ox(q)) : q \in Inserted}
              /\ \A q \in Inserted : quad_to_ox(q) # Refused
              /\ Call.meta = meta \cup {RecordOf(Batch, i) : i \in 1 .. Call.item - 1}
              /\ Call.left \subseteq QuadsOf(Batch, Call.item)

\* A record of a running call, with its fields.
LEMMA RunningIs ==
    ASSUME NEW c, NEW d, NEW m, NEW i, NEW l,
           add' = Running(c, d, m, i, l)
    PROVE  /\ add' # None
           /\ Call.calls' = c /\ Call.inserting' = TRUE /\ Call.data' = d
           /\ Call.meta' = m /\ Call.item' = i /\ Call.left' = l
BY DEF Running, Call, Some, None

LEMMA StepIs ==
    ASSUME AddInv, next_id \in Nat, [Next]_vars
    PROVE  Effect
<1>1. ASSUME NEW calls \in Batches, AddBatch(calls) PROVE Kept
  <2> DEFINE b == Built(calls).ok
  <2>1. CASE ~IsOk(Built(calls))
      BY <1>1, <2>1, Zenon DEF AddBatch, Fails, Kept
  <2>2. CASE IsOk(Built(calls)) /\ Invalid(b) # None
      BY <1>1, <2>2, Zenon DEF AddBatch, Fails, Kept
  <2>3. CASE IsOk(Built(calls)) /\ Invalid(b) = None
      BY <1>1, <2>3, Zenon DEF AddBatch, Kept
  <2> QED
      BY <2>1, <2>2, <2>3
<1>2. CASE CommitBatch
  <2> DEFINE b == Built(Call.calls).ok
             n == Len(b)
  <2>1. /\ add # None /\ open /\ Call.inserting /\ Call.item = n + 1
        /\ Batch = b
      BY <1>2, Zenon DEF CommitBatch, Inserting, Batch
  <2>2. /\ Call.calls \in Batches /\ next_id + Len(Call.calls) =< MaxItems
        /\ IsOk(Built(Call.calls)) /\ Invalid(b) = None
        /\ Call.data = data \cup {Encode(quad_to_ox(q)) : q \in Inserted}
        /\ \A q \in Inserted : quad_to_ox(q) # Refused
        /\ Call.meta = meta \cup {RecordOf(Batch, i) : i \in 1 .. Call.item - 1}
      BY <2>1, Zenon DEF AddInv
  <2>3. DOMAIN b = 1 .. n /\ n \in Nat
    <3>1. DOMAIN b = DOMAIN Call.calls /\ DOMAIN Call.calls = 1 .. Len(Call.calls)
          /\ Len(b) = Len(Call.calls) /\ Len(Call.calls) \in Nat
        BY <2>2, BuiltLen
    <3> QED
        BY <3>1
  <2> HIDE DEF b
  <2>4. 1 .. Call.item - 1 = DOMAIN b /\ Call.item \notin DOMAIN b
      BY <2>1, <2>3
  <2>5. Inserted = AllQuads(b)
    <3>1. QuadsOf(b, Call.item) = {}
        BY <2>4 DEF QuadsOf
    <3>2. \A i \in DOMAIN b : QuadsOf(b, i) = encode(next_id + i - 1, b[i]).data
        BY DEF QuadsOf
    <3>3. Inserted = UNION {QuadsOf(b, i) : i \in DOMAIN b}
        BY <2>1, <2>4, <3>1 DEF Inserted
    <3> QED
        BY <3>2, <3>3 DEF AllQuads
  <2>6. {RecordOf(Batch, i) : i \in 1 .. Call.item - 1} = AllRecords(b)
      BY <2>1, <2>4 DEF RecordOf, AllRecords
  <2>7. /\ data' = data \cup {Encode(quad_to_ox(q)) : q \in AllQuads(b)}
        /\ meta' = meta \cup AllRecords(b)
    <3>1. data' = Call.data /\ meta' = Call.meta
        BY <1>2, Zenon DEF CommitBatch
    <3> QED
        BY <2>2, <2>5, <2>6, <3>1, Zenon
  <2>8. \A q \in AllQuads(b) : quad_to_ox(q) # Refused
      BY <2>2, <2>5, Zenon
  <2> DEFINE at(id) == id - next_id + 1
             ids == next_id .. next_id + Len(b) - 1
  <2>9. /\ items' = [id \in ids \cup DOMAIN items |-> IF id \in ids THEN b[at(id)] ELSE items[id]]
        /\ next_id' = next_id + Len(b)
        /\ given' = [id \in ids \cup DOMAIN given |->
                        IF id \in ids THEN Call.calls[at(id)] ELSE given[id]]
        /\ UNCHANGED <<foreign, open>>
    <3>1. Batch = b
        BY <2>1
    <3> QED
        BY <1>2, <3>1, Zenon DEF CommitBatch
  <2>10. Added(Call.calls)
      BY <2>1, <2>2, <2>7, <2>8, <2>9, Zenon DEF Added, b
  <2> QED
      BY <2>1, <2>2, <2>10, Zenon DEF Effect
<1>3. ASSUME NEW q, InsertQuad(q) PROVE Kept
    BY <1>3, Zenon DEF InsertQuad, Kept
<1>4. CASE InsertRecord
    BY <1>4, Zenon DEF InsertRecord, Kept, Effect
<1>5. CASE InsertRefused
    BY <1>5, Zenon DEF InsertRefused, Kept, Effect
<1>6. ASSUME NEW id \in DOMAIN items, DropItem(id) PROVE open /\ Deletes(id)
    BY <1>6, Zenon DEF DropItem, Enforcing
<1>7. CASE AddReturns
    BY <1>7, Zenon DEF AddReturns, Kept, Effect
<1>8. CASE StorageFails
    BY <1>8, Zenon DEF StorageFails, Kept, Effect
<1>9. ASSUME NEW id \in DOMAIN items, RemoveItem(id) PROVE open /\ Deletes(id)
    BY <1>9, Zenon DEF RemoveItem, Ready
<1>10. ASSUME NEW call \in QueryCalls, FailedQuery(call) PROVE Kept
    BY <1>10, Zenon DEF FailedQuery, Fails, Kept
<1>11. ASSUME NEW e \in Unimplemented, Unavailable(e) PROVE Kept
    BY <1>11, Zenon DEF Unavailable, Fails, Kept
<1>12. CASE UNCHANGED vars
    BY <1>12, Zenon DEF vars, Kept, Effect
<1> QED
    BY <1>1, <1>2, <1>3, <1>4, <1>5, <1>6, <1>7, <1>8, <1>9, <1>10, <1>11, <1>12, Zenon
       DEF Next, Effect

\* A step that leaves the store and the index may insert one thing more.
LEMMA AddStep ==
    ASSUME AddInv, next_id \in Nat, [Next]_vars
    PROVE  AddInv'
<1>1. CASE add' = None
    BY <1>1 DEF AddInv
<1>2. CASE UNCHANGED <<data, meta, open, items, next_id, add>>
  <2>1. Call' = Call
      BY <1>2 DEF Call
  <2>2. Batch' = Batch
      BY <2>1 DEF Batch
  <2>3. /\ Invalid(Batch)' = Invalid(Batch)
        /\ \A i : QuadsOf(Batch, i)' = QuadsOf(Batch, i) /\ RecordOf(Batch, i)' = RecordOf(Batch, i)
      BY <1>2, <2>2 DEF Invalid, QuadsOf, RecordOf
  <2>4. Inserted' = Inserted
      BY <2>1, <2>2, <2>3 DEF Inserted
  <2>5. {RecordOf(Batch, i)' : i \in 1 .. Call.item' - 1}
            = {RecordOf(Batch, i) : i \in 1 .. Call.item - 1}
      BY <2>1, <2>3
  <2> QED
      BY <1>2, <2>1, <2>2, <2>3, <2>4, <2>5 DEF AddInv
<1>3. ASSUME UNCHANGED <<open, add>>, ~Call.inserting PROVE AddInv'
    BY <1>3 DEF AddInv, Call
<1>4. ASSUME NEW calls \in Batches, AddBatch(calls) PROVE AddInv'
  <2> DEFINE b == Built(calls).ok
  <2>1. Ready /\ next_id + Len(calls) =< MaxItems
      BY <1>4, Zenon DEF AddBatch
  <2>2. CASE ~IsOk(Built(calls)) \/ Invalid(b) # None
    <3>1. UNCHANGED add
        BY <1>4, <2>2, Zenon DEF AddBatch, Fails
    <3> QED
        BY <1>1, <2>1, <3>1 DEF Ready
  <2>3. CASE IsOk(Built(calls)) /\ Invalid(b) = None
    <3>1. /\ add' = Running(calls, data, meta, 1, QuadsOf(b, 1))
          /\ UNCHANGED <<data, meta, open, items, next_id>>
        BY <1>4, <2>3, Zenon DEF AddBatch
    <3>2. /\ Call.calls' = calls /\ Call.inserting' = TRUE /\ Call.data' = data
          /\ Call.meta' = meta /\ Call.item' = 1 /\ Call.left' = QuadsOf(b, 1)
      <4> DEFINE first == QuadsOf(b, 1)
      <4>1. add' = Running(calls, data, meta, 1, first)
          BY <3>1
      <4> HIDE DEF first
      <4>2. /\ Call.calls' = calls /\ Call.inserting' = TRUE /\ Call.data' = data
            /\ Call.meta' = meta /\ Call.item' = 1 /\ Call.left' = first
          BY <4>1, RunningIs
      <4> QED
          BY <4>2 DEF first
    <3>3. Batch' = b
        BY <3>2 DEF Batch
    <3> HIDE DEF b
    <3>4. /\ \A i : QuadsOf(b, i)' = QuadsOf(b, i) /\ Invalid(b)' = Invalid(b)
        BY <3>1 DEF QuadsOf, Invalid
    <3>5. Inserted' = {}
      <4>1. Inserted' = (UNION {QuadsOf(b, i)' : i \in 1 .. 0}) \cup (QuadsOf(b, 1)' \ QuadsOf(b, 1))
          BY <3>2, <3>3 DEF Inserted
      <4>2. 1 .. 0 = {}
          OBVIOUS
      <4> QED
          BY <3>4, <4>1, <4>2
    <3>6. {RecordOf(Batch, i)' : i \in 1 .. Call.item' - 1} = {}
        BY <3>2
    <3> QED
      <4>1. /\ open' /\ Call.calls' \in Batches /\ next_id' + Len(Call.calls') =< MaxItems
            /\ IsOk(Built(Call.calls')) /\ Invalid(Batch)' = None /\ Call.item' \in Nat \ {0}
        <5>1. Invalid(Batch)' = Invalid(b)'
            BY <3>3 DEF Invalid
        <5> QED
            BY <2>1, <2>3, <3>1, <3>2, <3>4, <5>1 DEF Ready, b
      <4>2. /\ Call.data' = data' \cup {Encode(quad_to_ox(p)) : p \in Inserted'}
            /\ \A p \in Inserted' : quad_to_ox(p) # Refused
          BY <3>1, <3>2, <3>5
      <4>3. Call.meta' = meta' \cup {RecordOf(Batch, i)' : i \in 1 .. Call.item' - 1}
          BY <3>1, <3>2, <3>6
      <4>4. Call.left' \subseteq QuadsOf(Batch, Call.item)'
        <5>1. QuadsOf(Batch, Call.item)' = QuadsOf(b, 1)'
            BY <3>2, <3>3 DEF QuadsOf
        <5> QED
            BY <3>2, <3>4, <5>1
      <4> QED
          BY <4>1, <4>2, <4>3, <4>4 DEF AddInv
  <2> QED
      BY <2>2, <2>3
<1>5. ASSUME NEW q, InsertQuad(q) PROVE AddInv'
  <2>1. /\ add # None /\ Call.inserting /\ open
        /\ UNCHANGED <<data, meta, open, items, next_id>>
      BY <1>5, Zenon DEF InsertQuad, Inserting
  <2>2. /\ Call.calls \in Batches /\ next_id + Len(Call.calls) =< MaxItems
        /\ IsOk(Built(Call.calls)) /\ Invalid(Batch) = None /\ Call.item \in Nat \ {0}
        /\ Call.data = data \cup {Encode(quad_to_ox(p)) : p \in Inserted}
        /\ \A p \in Inserted : quad_to_ox(p) # Refused
        /\ Call.meta = meta \cup {RecordOf(Batch, i) : i \in 1 .. Call.item - 1}
        /\ Call.left \subseteq QuadsOf(Batch, Call.item)
      BY <2>1 DEF AddInv
  <2> DEFINE d == Call.data \cup {Encode(quad_to_ox(q))}
             l == Call.left \ {q}
  <2>3. /\ q \in Call.left /\ quad_to_ox(q) # Refused
        /\ add' = Running(Call.calls, d, Call.meta, Call.item, l)
      BY <1>5, Zenon DEF InsertQuad
  <2>5. /\ Call.calls' = Call.calls /\ Call.inserting' = TRUE /\ Call.data' = d
        /\ Call.meta' = Call.meta /\ Call.item' = Call.item /\ Call.left' = l
    <3> HIDE DEF d, l
    <3> QED
        BY <2>3, RunningIs
  <2>6. /\ Batch' = Batch /\ Invalid(Batch)' = Invalid(Batch)
        /\ \A i : QuadsOf(Batch, i)' = QuadsOf(Batch, i) /\ RecordOf(Batch, i)' = RecordOf(Batch, i)
      BY <2>1, <2>5 DEF Batch, Invalid, QuadsOf, RecordOf
  <2>7. Inserted' = Inserted \cup {q}
    <3> DEFINE U == UNION {QuadsOf(Batch, i) : i \in 1 .. Call.item - 1}
    <3>1. Inserted' = U \cup (QuadsOf(Batch, Call.item) \ l)
        BY <2>5, <2>6 DEF Inserted
    <3>2. Inserted = U \cup (QuadsOf(Batch, Call.item) \ Call.left)
        BY DEF Inserted
    <3>3. q \in QuadsOf(Batch, Call.item) /\ l = Call.left \ {q}
        BY <2>2, <2>3
    <3> HIDE DEF U, l
    <3> QED
        BY <3>1, <3>2, <3>3
  <2>8. Call.data' = data' \cup {Encode(quad_to_ox(p)) : p \in Inserted'}
      BY <2>1, <2>2, <2>5, <2>7
  <2>9. \A p \in Inserted' : quad_to_ox(p) # Refused
      BY <2>2, <2>3, <2>7
  <2>10. /\ Call.meta' = meta' \cup {RecordOf(Batch, i)' : i \in 1 .. Call.item' - 1}
         /\ Call.left' \subseteq QuadsOf(Batch, Call.item)'
      BY <2>1, <2>2, <2>5, <2>6
  <2> QED
      BY <2>1, <2>2, <2>5, <2>6, <2>8, <2>9, <2>10 DEF AddInv
<1>6. CASE InsertRecord
  <2>1. /\ add # None /\ Call.inserting /\ open
        /\ UNCHANGED <<data, meta, open, items, next_id>>
      BY <1>6, Zenon DEF InsertRecord, Inserting
  <2>2. /\ Call.calls \in Batches /\ next_id + Len(Call.calls) =< MaxItems
        /\ IsOk(Built(Call.calls)) /\ Invalid(Batch) = None /\ Call.item \in Nat \ {0}
        /\ Call.data = data \cup {Encode(quad_to_ox(p)) : p \in Inserted}
        /\ \A p \in Inserted : quad_to_ox(p) # Refused
        /\ Call.meta = meta \cup {RecordOf(Batch, i) : i \in 1 .. Call.item - 1}
        /\ Call.left \subseteq QuadsOf(Batch, Call.item)
      BY <2>1 DEF AddInv
  <2> DEFINE m == Call.meta \cup {RecordOf(Batch, Call.item)}
             k == Call.item + 1
             l == QuadsOf(Batch, k)
  <2>3. Call.left = {} /\ add' = Running(Call.calls, Call.data, m, k, l)
      BY <1>6, Zenon DEF InsertRecord
  <2>5. /\ Call.calls' = Call.calls /\ Call.inserting' = TRUE /\ Call.data' = Call.data
        /\ Call.meta' = m /\ Call.item' = k /\ Call.left' = l
    <3> HIDE DEF m, k, l
    <3> QED
        BY <2>3, RunningIs
  <2>6. /\ Batch' = Batch /\ Invalid(Batch)' = Invalid(Batch)
        /\ \A i : QuadsOf(Batch, i)' = QuadsOf(Batch, i) /\ RecordOf(Batch, i)' = RecordOf(Batch, i)
      BY <2>1, <2>5 DEF Batch, Invalid, QuadsOf, RecordOf
  <2>7. /\ k - 1 = Call.item /\ k \in Nat \ {0}
        /\ 1 .. Call.item = (1 .. Call.item - 1) \cup {Call.item}
      BY <2>2
  <2>8. Inserted' = Inserted
    <3>1. Inserted' = UNION {QuadsOf(Batch, i) : i \in 1 .. Call.item}
        BY <2>5, <2>6, <2>7 DEF Inserted
    <3>2. Inserted = (UNION {QuadsOf(Batch, i) : i \in 1 .. Call.item - 1})
                        \cup QuadsOf(Batch, Call.item)
        BY <2>3 DEF Inserted
    <3> QED
        BY <2>7, <3>1, <3>2
  <2>9. Call.meta' = meta' \cup {RecordOf(Batch, i)' : i \in 1 .. Call.item' - 1}
    <3>1. Call.meta' = meta \cup {RecordOf(Batch, i) : i \in 1 .. Call.item - 1}
                            \cup {RecordOf(Batch, Call.item)}
        BY <2>2, <2>5
    <3>2. {RecordOf(Batch, i)' : i \in 1 .. Call.item' - 1} = {RecordOf(Batch, i) : i \in 1 .. Call.item}
        BY <2>5, <2>6, <2>7
    <3> QED
        BY <2>1, <2>7, <3>1, <3>2
  <2>10. /\ Call.data' = data' \cup {Encode(quad_to_ox(p)) : p \in Inserted'}
         /\ \A p \in Inserted' : quad_to_ox(p) # Refused
         /\ Call.left' \subseteq QuadsOf(Batch, Call.item)'
      BY <2>1, <2>2, <2>5, <2>6, <2>8
  <2> QED
      BY <2>1, <2>2, <2>5, <2>6, <2>7, <2>9, <2>10 DEF AddInv
<1>7. CASE CommitBatch
  <2>1. open' = open /\ open /\ add' = Some([calls |-> Call.calls, inserting |-> FALSE])
      BY <1>7, Zenon DEF CommitBatch, Inserting
  <2>2. Call.inserting' = FALSE
      BY <2>1 DEF Call, Some
  <2> QED
      BY <2>1, <2>2 DEF AddInv
<1>8. CASE InsertRefused \/ AddReturns \/ StorageFails \/ Close
    BY <1>1, <1>8, Zenon DEF InsertRefused, AddReturns, StorageFails, Close
<1>9. ASSUME NEW id \in DOMAIN items, DropItem(id) PROVE AddInv'
    BY <1>3, <1>9, Zenon DEF DropItem, Enforcing, Deletes
<1>10. ASSUME NEW id \in DOMAIN items, RemoveItem(id) PROVE AddInv'
    BY <1>1, <1>10, Zenon DEF RemoveItem, Ready
<1>11. ASSUME NEW call \in QueryCalls, FailedQuery(call) PROVE AddInv'
    BY <1>1, <1>11, Zenon DEF FailedQuery, Fails, Ready
<1>12. ASSUME NEW e \in Unimplemented, Unavailable(e) PROVE AddInv'
    BY <1>1, <1>12, Zenon DEF Unavailable, Fails, Ready
<1>13. ASSUME ~open, UNCHANGED add PROVE AddInv'
    BY <1>1, <1>13, Zenon DEF AddInv
<1>14. CASE Open
    BY <1>13, <1>14, Zenon DEF Open, Fails
<1>15. ASSUME NEW m \in ForeignMeta, ForeignWrite(m) PROVE AddInv'
    BY <1>13, <1>15, Zenon DEF ForeignWrite
<1>16. CASE UNCHANGED vars
    BY <1>2, <1>16, Zenon DEF vars
<1> QED
    BY <1>4, <1>5, <1>6, <1>7, <1>8, <1>9, <1>10, <1>11, <1>12, <1>14, <1>15, <1>16, Zenon DEF Next

\* The item that a constructor made, and what is written of it.
Orig(id) == Build(given[id]).ok
Written(id, item) == {Encode(quad_to_ox(q)) : q \in encode(id, item).data}

\* A call whose item was taken, under its id.
Accepted(id, call) ==
    /\ \E batch \in Batches : \E i \in DOMAIN batch : call = batch[i]
    /\ IsCall(call) /\ IsOk(Build(call)) /\ OfCall(Build(call).ok, call)
    /\ LET e == Build(call).ok.embedding
       IN  e # None => \A i \in DOMAIN e[1] : Finite(e[1][i])
    /\ \A q \in encode(id, Build(call).ok).data : quad_to_ox(q) # Refused

LEMMA ValidEmbedding ==
    ASSUME NEW its, NEW item, validate(its, item) = None
    PROVE  item.embedding # None => \A i \in DOMAIN item.embedding[1] : Finite(item.embedding[1][i])
BY DEF validate, Some, None

\* Every item of a batch is valid when the batch is.
LEMMA ValidBatch ==
    ASSUME NEW batch, DOMAIN batch \subseteq Nat, Invalid(batch) = None
    PROVE  \A i \in DOMAIN batch : validate(items, batch[i]) = None
<1> DEFINE bad == {i \in DOMAIN batch : validate(items, batch[i]) # None}
<1>1. Invalid(batch) = IF bad = {} THEN None ELSE validate(items, batch[Min(bad)])
    BY Zenon DEF Invalid
<1>2. bad # {} => Min(bad) \in bad
  <2>1. bad \in SUBSET Nat
      OBVIOUS
  <2> HIDE DEF bad
  <2> QED
      BY <2>1, MinIs
<1>3. bad # {} => validate(items, batch[Min(bad)]) # None
    BY <1>2
<1>4. bad = {}
  <2> HIDE DEF bad
  <2> QED
      BY <1>1, <1>3
<1> QED
    BY <1>4

LEMMA AddedIs ==
    ASSUME next_id \in Nat, NEW calls \in Batches, Added(calls)
    PROVE  LET ids == next_id .. next_id' - 1
           IN  /\ next_id' \in Nat /\ next_id' >= next_id /\ next_id' =< MaxItems
               /\ ids \subseteq 0 .. MaxItems - 1 /\ IsFiniteSet(ids)
               /\ DOMAIN given' = ids \cup DOMAIN given /\ DOMAIN items' = ids \cup DOMAIN items
               /\ \A id \in ids : Accepted(id, given'[id]) /\ items'[id] = Orig(id)'
               /\ \A id \in DOMAIN given \ ids : given'[id] = given[id]
               /\ \A id \in DOMAIN items \ ids : items'[id] = items[id]
               /\ data' = data \cup UNION {Written(id, Orig(id)') : id \in ids}
               /\ meta' = meta \cup {encode(id, Orig(id)').meta : id \in ids}
               /\ UNCHANGED <<foreign, open>>
<1> DEFINE b == Built(calls).ok
           n == Len(calls)
           at(id) == id - next_id + 1
           ids == next_id .. next_id' - 1
<1>1. /\ DOMAIN b = DOMAIN calls /\ DOMAIN calls = 1 .. n /\ Len(b) = n /\ n \in Nat
      /\ \A i \in DOMAIN calls : /\ b[i] = Build(calls[i]).ok /\ IsCall(calls[i])
                                 /\ IsOk(Build(calls[i])) /\ OfCall(Build(calls[i]).ok, calls[i])
  <2>1. IsOk(Built(calls))
      BY DEF Added
  <2> QED
      BY <2>1, BuiltLen
<1>2. /\ next_id + n =< MaxItems /\ next_id' = next_id + Len(b)
      /\ Invalid(b) = None /\ \A q \in AllQuads(b) : quad_to_ox(q) # Refused
      /\ data' = data \cup {Encode(quad_to_ox(q)) : q \in AllQuads(b)}
      /\ meta' = meta \cup AllRecords(b)
      /\ items' = [id \in (next_id .. next_id + Len(b) - 1) \cup DOMAIN items |->
                      IF id \in (next_id .. next_id + Len(b) - 1) THEN b[at(id)] ELSE items[id]]
      /\ given' = [id \in (next_id .. next_id + Len(b) - 1) \cup DOMAIN given |->
                      IF id \in (next_id .. next_id + Len(b) - 1) THEN calls[at(id)] ELSE given[id]]
      /\ UNCHANGED <<foreign, open>>
    BY Zenon DEF Added
<1> HIDE DEF b
<1>3. /\ MaxItems \in Nat /\ next_id' = next_id + n
      /\ ids = next_id .. next_id + Len(b) - 1
  <2>1. MaxItems \in Nat /\ next_id' = next_id + Len(b) /\ Len(b) = n
      BY <1>1, <1>2, ValuesAssumption, Zenon
  <2>2. next_id' = next_id + n
      BY <2>1
  <2>3. next_id' - 1 = next_id + Len(b) - 1
      BY <2>1
  <2> QED
      BY <2>1, <2>2, <2>3, Zenon
<1>4. /\ next_id' \in Nat /\ next_id' >= next_id /\ next_id' =< MaxItems
      /\ ids \subseteq 0 .. MaxItems - 1
      /\ \A id \in ids : at(id) \in DOMAIN calls /\ id = next_id + at(id) - 1
      /\ \A i \in DOMAIN calls : next_id + i - 1 \in ids /\ at(next_id + i - 1) = i
    BY <1>1, <1>2, <1>3
<1>5. IsFiniteSet(ids)
  <2>1. next_id \in Int /\ next_id' - 1 \in Int
      BY <1>4
  <2> QED
      BY <2>1, FS_Interval
<1>6. /\ items' = [id \in ids \cup DOMAIN items |-> IF id \in ids THEN b[at(id)] ELSE items[id]]
      /\ given' = [id \in ids \cup DOMAIN given |-> IF id \in ids THEN calls[at(id)] ELSE given[id]]
    BY <1>2, <1>3
<1> HIDE DEF ids, at
<1>7. /\ DOMAIN given' = ids \cup DOMAIN given /\ DOMAIN items' = ids \cup DOMAIN items
      /\ \A id \in ids : given'[id] = calls[at(id)] /\ items'[id] = b[at(id)]
      /\ \A id \in DOMAIN given \ ids : given'[id] = given[id]
      /\ \A id \in DOMAIN items \ ids : items'[id] = items[id]
    BY <1>6
<1>8. \A id \in ids : Orig(id)' = b[at(id)] /\ items'[id] = Orig(id)'
  <2>1. \A id \in ids : Orig(id)' = Build(given'[id]).ok
      BY DEF Orig
  <2> QED
      BY <1>1, <1>4, <1>7, <2>1
<1>9. \A id \in ids : \A q \in encode(id, b[at(id)]).data : q \in AllQuads(b)
  <2>1. \A i \in DOMAIN b : \A q \in encode(next_id + i - 1, b[i]).data : q \in AllQuads(b)
      BY Zenon DEF AllQuads
  <2> QED
      BY <1>1, <1>4, <2>1
<1>10. \A q \in AllQuads(b) : \E id \in ids : q \in encode(id, b[at(id)]).data
  <2>1. \A q \in AllQuads(b) : \E i \in DOMAIN b : q \in encode(next_id + i - 1, b[i]).data
      BY Zenon DEF AllQuads
  <2> QED
      BY <1>1, <1>4, <2>1
<1>11. \A q \in AllQuads(b) : quad_to_ox(q) # Refused
    BY <1>2
<1>12. \A id \in ids : Accepted(id, given'[id])
  <2>1. SUFFICES ASSUME NEW id \in ids PROVE Accepted(id, given'[id])
      OBVIOUS
  <2> DEFINE c == given'[id]
  <2>2. c = calls[at(id)] /\ at(id) \in DOMAIN calls /\ b[at(id)] = Build(c).ok
      BY <1>1, <1>4, <1>7
  <2>3. IsCall(c) /\ IsOk(Build(c)) /\ OfCall(Build(c).ok, c)
      BY <1>1, <2>2
  <2>4. validate(items, Build(c).ok) = None
    <3>1. DOMAIN b \subseteq Nat
        BY <1>1
    <3> QED
        BY <1>1, <1>2, <2>2, <3>1, ValidBatch
  <2>5. Build(c).ok.embedding # None =>
           \A i \in DOMAIN Build(c).ok.embedding[1] : Finite(Build(c).ok.embedding[1][i])
      BY <2>4, ValidEmbedding
  <2>6. \A q \in encode(id, Build(c).ok).data : quad_to_ox(q) # Refused
      BY <1>9, <1>11, <2>2
  <2>7. \E batch \in Batches : \E i \in DOMAIN batch : c = batch[i]
      BY <2>2
  <2> QED
      BY <2>3, <2>5, <2>6, <2>7 DEF Accepted
<1>13. data' = data \cup UNION {Written(id, Orig(id)') : id \in ids}
  <2>1. \A id \in ids : Written(id, Orig(id)')
                          = {Encode(quad_to_ox(q)) : q \in encode(id, b[at(id)]).data}
      BY <1>8 DEF Written
  <2>2. {Encode(quad_to_ox(q)) : q \in AllQuads(b)} = UNION {Written(id, Orig(id)') : id \in ids}
    <3>1. ASSUME NEW q \in AllQuads(b)
          PROVE  Encode(quad_to_ox(q)) \in UNION {Written(id, Orig(id)') : id \in ids}
      <4>1. PICK id \in ids : q \in encode(id, b[at(id)]).data
          BY <1>10
      <4>2. Encode(quad_to_ox(q)) \in Written(id, Orig(id)')
          BY <2>1, <4>1
      <4> QED
          BY <4>2
    <3>2. ASSUME NEW id \in ids, NEW e \in Written(id, Orig(id)')
          PROVE  \E q \in AllQuads(b) : e = Encode(quad_to_ox(q))
        BY <1>9, <2>1
    <3> QED
        BY <3>1, <3>2
  <2> QED
      BY <1>2, <2>2
<1>14. meta' = meta \cup {encode(id, Orig(id)').meta : id \in ids}
  <2>1. AllRecords(b) = {encode(id, Orig(id)').meta : id \in ids}
    <3>1. AllRecords(b) = {encode(next_id + i - 1, b[i]).meta : i \in DOMAIN b}
        BY DEF AllRecords
    <3>2. \A i \in DOMAIN b : \E id \in ids :
             encode(next_id + i - 1, b[i]).meta = encode(id, Orig(id)').meta
      <4>1. ASSUME NEW i \in DOMAIN b
            PROVE  \E id \in ids : encode(next_id + i - 1, b[i]).meta = encode(id, Orig(id)').meta
        <5>1. \E id \in ids : id = next_id + i - 1 /\ at(id) = i
            BY <1>1, <1>4
        <5>2. PICK id \in ids : id = next_id + i - 1 /\ at(id) = i
            BY <5>1
        <5>3. Orig(id)' = b[i]
            BY <1>8, <5>2
        <5> QED
            BY <5>2, <5>3, Zenon
      <4> QED
          BY <4>1
    <3>3. \A id \in ids : \E i \in DOMAIN b :
             encode(id, Orig(id)').meta = encode(next_id + i - 1, b[i]).meta
      <4>1. ASSUME NEW id \in ids
            PROVE  \E i \in DOMAIN b : encode(id, Orig(id)').meta = encode(next_id + i - 1, b[i]).meta
        <5>1. at(id) \in DOMAIN b /\ id = next_id + at(id) - 1 /\ Orig(id)' = b[at(id)]
            BY <1>1, <1>4, <1>8
        <5>2. encode(id, Orig(id)').meta = encode(next_id + at(id) - 1, b[at(id)]).meta
            BY <5>1, Zenon
        <5> QED
            BY <5>1, <5>2, Zenon
      <4> QED
          BY <4>1
    <3> QED
        BY <3>1, <3>2, <3>3
  <2> QED
      BY <1>2, <2>1
<1> QED
    BY <1>2, <1>4, <1>5, <1>7, <1>8, <1>12, <1>13, <1>14 DEF ids

LEMMA FiniteImage ==
    ASSUME NEW S, IsFiniteSet(S), NEW T, NEW f, DOMAIN f = S, T = {f[x] : x \in S}
    PROVE  IsFiniteSet(T)
BY ImageIsFinite

LEMMA WrittenIsFinite ==
    ASSUME NEW id, NEW call, Accepted(id, call)
    PROVE  IsFiniteSet(Written(id, Build(call).ok))
<1> DEFINE D == encode(id, Build(call).ok).data
           f == [q \in D |-> Encode(quad_to_ox(q))]
<1>1. IsFiniteSet(D)
    BY DataIs DEF Accepted
<1>2. DOMAIN f = D /\ Written(id, Build(call).ok) = {f[q] : q \in D}
    BY DEF Written
<1> HIDE DEF D, f
<1> QED
    BY <1>1, <1>2, FiniteImage

LEMMA FiniteStep ==
    ASSUME FiniteInv, Effect
    PROVE  FiniteInv'
<1>1. ASSUME NEW calls \in Batches, Added(calls) PROVE FiniteInv'
  <2>2. CASE Added(calls)
    <3> DEFINE ids == next_id .. next_id' - 1
    <3>1. /\ next_id' \in Nat /\ IsFiniteSet(ids)
          /\ \A id \in ids : Accepted(id, given'[id])
          /\ data' = data \cup UNION {Written(id, Orig(id)') : id \in ids}
          /\ meta' = meta \cup {encode(id, Orig(id)').meta : id \in ids}
        BY <2>2, AddedIs DEF FiniteInv
    <3> HIDE DEF ids
    <3> DEFINE f == [id \in ids |-> Written(id, Orig(id)')]
               W == {Written(id, Orig(id)') : id \in ids}
               g == [id \in ids |-> encode(id, Orig(id)').meta]
               M == {encode(id, Orig(id)').meta : id \in ids}
    <3>2. IsFiniteSet(W)
      <4>1. DOMAIN f = ids /\ W = {f[id] : id \in ids}
          OBVIOUS
      <4> HIDE DEF f, W
      <4> QED
          BY <3>1, <4>1, FiniteImage
    <3>3. IsFiniteSet(M)
      <4>1. DOMAIN g = ids /\ M = {g[id] : id \in ids}
          OBVIOUS
      <4> HIDE DEF g, M
      <4> QED
          BY <3>1, <4>1, FiniteImage
    <3>4. \A T \in W : IsFiniteSet(T)
      <4>1. ASSUME NEW id \in ids PROVE IsFiniteSet(Written(id, Orig(id)'))
        <5>1. Orig(id)' = Build(given'[id]).ok
            BY DEF Orig
        <5>2. IsFiniteSet(Written(id, Build(given'[id]).ok))
            BY <3>1, WrittenIsFinite
        <5> QED
            BY <5>1, <5>2, Zenon
      <4> QED
          BY <4>1, Zenon
    <3>5. data' = data \cup UNION W /\ meta' = meta \cup M
        BY <3>1
    <3> HIDE DEF W, M
    <3>6. IsFiniteSet(UNION W)
        BY <3>2, <3>4, FS_UNION
    <3>7. IsFiniteSet(data) /\ IsFiniteSet(meta)
        BY DEF FiniteInv
    <3>8. IsFiniteSet(data \cup UNION W)
        BY <3>6, <3>7, FS_Union, Zenon
    <3>9. IsFiniteSet(meta \cup M)
        BY <3>3, <3>7, FS_Union, Zenon
    <3> QED
        BY <3>1, <3>5, <3>8, <3>9, Zenon DEF FiniteInv
  <2> QED
      BY <1>1, <2>2
<1>2. ASSUME NEW id \in DOMAIN items, open, Deletes(id) PROVE FiniteInv'
  <2>1. next_id' = next_id /\ data' \subseteq data /\ meta' \subseteq meta
      BY <1>2 DEF Deletes
  <2> QED
      BY <2>1, FS_Subset DEF FiniteInv
<1>3. CASE Kept
    BY <1>3 DEF Kept, FiniteInv
<1>5. CASE Close
    BY <1>5 DEF Close, FiniteInv
<1>6. CASE Open
  <2>1. CASE ~Loads(data, meta)
      BY <1>6, <2>1 DEF Open, Fails, FiniteInv
  <2>2. CASE Loads(data, meta)
    <3> DEFINE ids == {r.id : r \in load(data, meta)}
    <3>1. next_id' = Max({-1} \cup ids) + 1 /\ UNCHANGED <<data, meta>>
        BY <1>6, <2>2, Zenon DEF Open
    <3>2. \A id \in ids : \E m \in meta : id = LoadRecord(data, m)[1].id
        BY DEF load
    <3>3. ids \subseteq Nat
      <4>1. \A m \in meta : LoadRecord(data, m)[1].id \in Nat
        <5>1. \A m \in meta : LoadRecord(data, m) # None
            BY <2>2 DEF Loads
        <5>2. \A m \in meta : LoadRecord(data, m)[1].id \in parse_item_graph(m.subject)
            BY <5>1, LoadedId
        <5> QED
            BY <5>2, ParseIs
      <4> QED
          BY <3>2, <4>1
    <3>4. IsFiniteSet(ids)
      <4> DEFINE f == [m \in meta |-> LoadRecord(data, m)[1].id]
      <4>1. DOMAIN f = meta /\ ids = {f[m] : m \in meta}
          BY DEF load
      <4>2. IsFiniteSet(meta)
          BY DEF FiniteInv
      <4> HIDE DEF f, ids
      <4> QED
          BY <4>1, <4>2, FiniteImage
    <3> HIDE DEF ids
    <3> DEFINE S == {-1} \cup ids
    <3>5. S \in SUBSET Int /\ S # {} /\ -1 \in S /\ IsFiniteSet(S)
      <4>1. IsFiniteSet({-1})
          BY FS_Singleton
      <4>2. IsFiniteSet(S)
          BY <3>4, <4>1, FS_Union
      <4> QED
          BY <3>3, <4>2
    <3>6. Max(S) \in S /\ Max(S) >= -1
      <4> HIDE DEF S
      <4> QED
          BY <3>5, MaxIs
    <3>7. Max(S) + 1 \in Nat
        BY <3>5, <3>6
    <3> QED
        BY <3>1, <3>7 DEF FiniteInv
  <2> QED
      BY <2>1, <2>2
<1>7. ASSUME NEW m \in ForeignMeta, ForeignWrite(m) PROVE FiniteInv'
  <2>1. IsFiniteSet({m})
      BY FS_Singleton
  <2> QED
      BY <1>7, <2>1, FS_Union DEF ForeignWrite, FiniteInv
<1> QED
    BY <1>1, <1>2, <1>3, <1>5, <1>6, <1>7 DEF Effect

LEMMA NoStrayStep ==
    ASSUME FiniteInv, NoStrayMetadata, Effect
    PROVE  NoStrayMetadata'
<1> DEFINE Mine(m, its) == parse_item_graph(m.subject) \cap DOMAIN its # {}
<1>1. open => \A m \in meta : Mine(m, items)
    BY DEF NoStrayMetadata
<1>2. (open' => \A m \in meta' : Mine(m, items')) => NoStrayMetadata'
    BY DEF NoStrayMetadata
<1>3. \A m, a, b : DOMAIN a \subseteq DOMAIN b /\ Mine(m, a) => Mine(m, b)
    OBVIOUS
<1> HIDE DEF Mine
<1>4. ASSUME NEW calls \in Batches, Added(calls) PROVE NoStrayMetadata'
  <2>2. CASE Added(calls)
    <3> DEFINE ids == next_id .. next_id' - 1
    <3>1. /\ ids \subseteq 0 .. MaxItems - 1 /\ DOMAIN items' = ids \cup DOMAIN items
          /\ \A id \in ids : Accepted(id, given'[id])
          /\ meta' = meta \cup {encode(id, Orig(id)').meta : id \in ids}
          /\ open' = open
        BY <2>2, AddedIs DEF FiniteInv
    <3> HIDE DEF ids
    <3>2. ASSUME NEW id \in ids PROVE Mine(encode(id, Orig(id)').meta, items')
      <4>1. encode(id, Orig(id)').meta.subject = item_graph(id)
          BY DEF encode
      <4>2. id \in parse_item_graph(item_graph(id))
          BY <3>1, ParseIs
      <4> QED
          BY <3>1, <4>1, <4>2 DEF Mine
    <3>3. ASSUME open, NEW m \in meta PROVE Mine(m, items')
        BY <1>1, <1>3, <3>1, <3>3
    <3>4. open' => \A m \in meta' : Mine(m, items')
        BY <3>1, <3>2, <3>3
    <3> QED
        BY <1>2, <3>4
  <2> QED
      BY <1>4, <2>2
<1>5. ASSUME NEW id \in DOMAIN items, open, Deletes(id) PROVE NoStrayMetadata'
  <2>1. /\ open /\ DOMAIN items' = DOMAIN items \ {id}
        /\ meta' = {m \in meta : m.subject # item_graph(id)}
      BY <1>5 DEF Deletes
  <2>2. ASSUME NEW m \in meta' PROVE Mine(m, items')
    <3>1. m \in meta /\ m.subject # item_graph(id)
        BY <2>1
    <3>2. PICK i \in parse_item_graph(m.subject) : i \in DOMAIN items
        BY <1>1, <2>1, <3>1 DEF Mine
    <3>3. i # id
        BY <3>1, <3>2, ParseIs
    <3> QED
        BY <2>1, <3>2, <3>3 DEF Mine
  <2> QED
      BY <1>2, <2>2
<1>6. CASE Open
  <2>1. CASE ~Loads(data, meta)
      BY <1>1, <1>2, <1>6, <2>1 DEF Open, Fails
  <2>2. CASE Loads(data, meta)
    <3>1. /\ DOMAIN items' = {r.id : r \in load(data, meta)} /\ meta' = meta
        BY <1>6, <2>2, Zenon DEF Open
    <3>2. ASSUME NEW m \in meta PROVE Mine(m, items')
      <4>1. LoadRecord(data, m) # None
          BY <2>2 DEF Loads
      <4>2. LoadRecord(data, m)[1].id \in parse_item_graph(m.subject)
          BY <4>1, LoadedId
      <4>3. LoadRecord(data, m)[1] \in load(data, meta)
          BY DEF load
      <4>4. LoadRecord(data, m)[1].id \in DOMAIN items'
          BY <3>1, <4>3, Zenon
      <4> QED
          BY <4>2, <4>4 DEF Mine
    <3> QED
        BY <1>2, <3>1, <3>2
  <2> QED
      BY <2>1, <2>2
<1>7. CASE Close
    BY <1>2, <1>7 DEF Close
<1>8. ASSUME NEW m \in ForeignMeta, ForeignWrite(m) PROVE NoStrayMetadata'
    BY <1>2, <1>8 DEF ForeignWrite
<1>9. CASE Kept
    BY <1>1, <1>2, <1>9 DEF Kept
<1> QED
    BY <1>4, <1>5, <1>6, <1>7, <1>8, <1>9 DEF Effect

\* "So one id has one IRI": whatever another program has written, a Session that
\* is open indexes an item for every metadata quad of its store, under the one
\* IRI of the item's id.
THEOREM NoMetadataIsStray == Spec => []NoStrayMetadata
<1>1. Init => AddInv /\ FiniteInv /\ NoStrayMetadata
    BY FS_EmptySet DEF Init, AddInv, FiniteInv, NoStrayMetadata
<1>2. AddInv /\ FiniteInv /\ NoStrayMetadata /\ [Next]_vars
        => (AddInv /\ FiniteInv /\ NoStrayMetadata)'
    BY AddStep, StepIs, FiniteStep, NoStrayStep DEF FiniteInv
<1> QED
    BY <1>1, <1>2, PTL DEF Spec

-----------------------------------------------------------------------------
(* What the store and the index hold *)

\* What is written of an item is what quad_from_ox reads.
LEMMA WrittenReadsBack ==
    ASSUME NEW id \in 0 .. MaxItems - 1, NEW call, Accepted(id, call),
           NEW q \in encode(id, Build(call).ok).data
    PROVE  /\ q \in CoreQuads /\ q.graph = item_graph(id) /\ quad_to_ox(q) # Refused
           /\ quad_from_ox(Decode(Encode(quad_to_ox(q)))) = q
           /\ Encode(quad_to_ox(q)).graph = item_graph(id)
<1> DEFINE item == Build(call).ok
           g == item_graph(id)
<1>1. IsCall(call) /\ OfCall(item, call) /\ quad_to_ox(q) # Refused
    BY DEF Accepted
<1>8. item.payload.type = "triples"
    BY <1>1, DataIs
<1>2. PICK i \in DOMAIN item.payload.triples :
          q = [item.payload.triples[i] EXCEPT !.graph = g]
  <2>1. encode(id, item).data
          = {[item.payload.triples[i] EXCEPT !.graph = g] : i \in DOMAIN item.payload.triples}
      BY <1>1, <1>8, DataIs, Zenon
  <2> HIDE DEF g
  <2> QED
      BY <2>1, Zenon
<1>3. item.payload.triples[i] \in CoreTriples
  <2> HIDE DEF item
  <2>1. \A j \in DOMAIN item.payload.triples : item.payload.triples[j] \in CoreTriples
      BY <1>1, <1>8, PayloadIs
  <2> QED
      BY <2>1
<1>4. g \in NamedNodes
    BY ValuesAssumption, TermAssumption DEF item_graph, Named, NamedNodes
<1> HIDE DEF item, g
<1>5. q \in CoreQuads /\ q.graph = g
    BY <1>2, <1>3, <1>4 DEF CoreTriples, CoreQuads
<1>6. quad_from_ox(Decode(Encode(quad_to_ox(q)))) = q
    BY <1>1, <1>5, AcceptedReadsBack
<1>7. Encode(quad_to_ox(q)).graph = g
  <2>1. quad_to_ox(q).graph = graph_to_ox(q.graph) /\ graph_to_ox(q.graph) # Refused
      BY <1>1 DEF quad_to_ox
  <2>2. graph_to_ox(q.graph) = g
      BY <2>1, <1>4, <1>5 DEF graph_to_ox, named_to_ox, NamedNodes
  <2> QED
      BY <2>1, <2>2 DEF Encode
<1> QED
    BY <1>1, <1>5, <1>6, <1>7 DEF g

\* While no other program has written to it, the store holds what was written
\* of each item that has not been removed.
StoreInv ==
    ~foreign =>
        /\ DOMAIN given \subseteq 0 .. MaxItems - 1
        /\ \A id \in DOMAIN given : Accepted(id, given[id])
        /\ meta = {encode(id, Orig(id)).meta : id \in DOMAIN given}
        /\ data = UNION {Written(id, Orig(id)) : id \in DOMAIN given}

\* An item is the one that the constructor made, or what a store keeps of it:
\* the same triples in some order, the floats of a body as they are reread.
Like(item, orig) ==
    LET p == item.payload
        o == orig.payload
    IN  /\ p.type = o.type
        /\ item.provenance = orig.provenance /\ item.scope_hint = orig.scope_hint
        /\ item.embedding = orig.embedding
        /\ o.type = "triples" => Range(p.triples) = Range(o.triples)
        /\ o.type = "event" => p.kind = o.kind /\ p.body \in {o.body, Reread(o.body)}
        /\ o.type = "chunk" => p.content = o.content /\ p.content_type = o.content_type

\* A Session indexes those items, under ids below the next one.
IndexInv ==
    open /\ ~foreign =>
        /\ DOMAIN items = DOMAIN given
        /\ \A id \in DOMAIN given : id < next_id
        /\ \A id \in DOMAIN given : Like(items[id], Orig(id))

LEMMA LikeItself == \A item : Like(item, item)
BY DEF Like

\* The quads of an item's graph are those that were written of the item.
LEMMA GraphHolds ==
    ASSUME StoreInv, ~foreign, NEW id \in DOMAIN given
    PROVE  /\ {q \in {quad_from_ox(Decode(e)) : e \in data} : q.graph = item_graph(id)}
                = encode(id, Orig(id)).data
           /\ {e \in data : e.graph = item_graph(id)} = Written(id, Orig(id))
<1> DEFINE D(j) == encode(j, Orig(j)).data
           back(q) == quad_from_ox(Decode(Encode(quad_to_ox(q))))
           ids == 0 .. MaxItems - 1
<1>1. /\ DOMAIN given \subseteq ids
      /\ \A j \in DOMAIN given : Accepted(j, given[j])
      /\ data = UNION {Written(j, Orig(j)) : j \in DOMAIN given}
    BY DEF StoreInv
<1>2. \A j \in DOMAIN given : \A q \in D(j) :
          /\ q.graph = item_graph(j) /\ back(q) = q
          /\ Encode(quad_to_ox(q)).graph = item_graph(j)
    BY <1>1, WrittenReadsBack DEF Orig
<1>3. \A j \in DOMAIN given : Written(j, Orig(j)) = {Encode(quad_to_ox(q)) : q \in D(j)}
    BY DEF Written
<1>4. \A j \in DOMAIN given : item_graph(j) = item_graph(id) => j = id
  <2>1. \A i, j \in ids : item_graph(i) = item_graph(j) => i = j
      BY GraphsAreDistinct
  <2> HIDE DEF ids
  <2> QED
      BY <1>1, <2>1
<1> HIDE DEF D
<1>5. \A e \in data : \E j \in DOMAIN given : \E q \in D(j) : e = Encode(quad_to_ox(q))
    BY <1>1, <1>3
<1>6. \A q \in D(id) : Encode(quad_to_ox(q)) \in data
    BY <1>1, <1>3
<1>7. {q \in {quad_from_ox(Decode(e)) : e \in data} : q.graph = item_graph(id)} = D(id)
  <2>1. ASSUME NEW e \in data, quad_from_ox(Decode(e)).graph = item_graph(id)
        PROVE  quad_from_ox(Decode(e)) \in D(id)
      BY <1>2, <1>4, <1>5, <2>1
  <2>2. ASSUME NEW q \in D(id)
        PROVE  q.graph = item_graph(id) /\ \E e \in data : q = quad_from_ox(Decode(e))
      BY <1>2, <1>6
  <2> QED
      BY <2>1, <2>2
<1>8. {e \in data : e.graph = item_graph(id)} = Written(id, Orig(id))
  <2>1. ASSUME NEW e \in data, e.graph = item_graph(id)
        PROVE  \E q \in D(id) : e = Encode(quad_to_ox(q))
      BY <1>2, <1>4, <1>5, <2>1
  <2>2. ASSUME NEW q \in D(id)
        PROVE  Encode(quad_to_ox(q)) \in data /\ Encode(quad_to_ox(q)).graph = item_graph(id)
      BY <1>2, <1>6
  <2> QED
      BY <1>3, <2>1, <2>2
<1> QED
    BY <1>7, <1>8 DEF D

\* SetToSeq lists the elements of a finite set.
LEMMA SetToSeqRange ==
    ASSUME NEW S, IsFiniteSet(S)
    PROVE  Range(SetToSeq(S)) = S
<1>1. SetToSeq(S) \in [1 .. Cardinality(S) -> S] /\ IsInjective(SetToSeq(S))
  <2>1. \E f \in [1 .. Cardinality(S) -> S] : IsInjective(f)
      BY FiniteListing, Zenon DEF IsInjective
  <2> QED
      BY <2>1, Zenon DEF SetToSeq
<1>2. \A x \in S : \E i \in 1 .. Cardinality(S) : SetToSeq(S)[i] = x
  <2>1. \A f \in [1 .. Cardinality(S) -> S] :
           (\A i, j \in DOMAIN f : f[i] = f[j] => i = j)
           => \A x \in S : \E i \in 1 .. Cardinality(S) : f[i] = x
      BY FiniteListing, Zenon
  <2>2. \A i, j \in DOMAIN SetToSeq(S) : SetToSeq(S)[i] = SetToSeq(S)[j] => i = j
      BY <1>1, Zenon DEF IsInjective
  <2> QED
      BY <1>1, <2>1, <2>2, Zenon
<1> QED
    BY <1>1, <1>2, Zenon DEF Range

LEMMA StoreStep ==
    ASSUME FiniteInv, StoreInv, IndexInv, Effect
    PROVE  StoreInv'
<1> DEFINE Holds(g, m, d) ==
              /\ DOMAIN g \subseteq 0 .. MaxItems - 1
              /\ \A id \in DOMAIN g : Accepted(id, g[id])
              /\ m = {encode(id, Build(g[id]).ok).meta : id \in DOMAIN g}
              /\ d = UNION {Written(id, Build(g[id]).ok) : id \in DOMAIN g}
<1>1. ~foreign => Holds(given, meta, data)
    BY Zenon DEF StoreInv, Orig
<1>2. (~foreign' => Holds(given', meta', data')) => StoreInv'
    BY DEF StoreInv, Orig
<1> HIDE DEF Holds
<1>3. ASSUME UNCHANGED <<data, meta, given, foreign>> PROVE StoreInv'
    BY <1>1, <1>2, <1>3
<1>4. ASSUME NEW calls \in Batches, Added(calls) PROVE StoreInv'
  <2>2. CASE Added(calls)
    <3> DEFINE ids == next_id .. next_id' - 1
    <3>1. /\ ids \subseteq 0 .. MaxItems - 1 /\ DOMAIN given' = ids \cup DOMAIN given
          /\ \A id \in ids : Accepted(id, given'[id])
          /\ \A id \in DOMAIN given \ ids : given'[id] = given[id]
          /\ data' = data \cup UNION {Written(id, Orig(id)') : id \in ids}
          /\ meta' = meta \cup {encode(id, Orig(id)').meta : id \in ids}
          /\ foreign' = foreign /\ open
        BY <2>2, AddedIs DEF FiniteInv, Added
    <3>2. SUFFICES ASSUME ~foreign PROVE Holds(given', meta', data')
        BY <1>2, <3>1
    <3>3. /\ \A id \in DOMAIN given : id < next_id /\ id \in Int
        BY <1>1, <3>1, <3>2 DEF IndexInv, Holds
    <3>4. \A id \in DOMAIN given : id \notin ids
        BY <3>3 DEF FiniteInv
    <3> HIDE DEF ids
    <3>5. \A id : Orig(id)' = Build(given'[id]).ok
        BY DEF Orig
    <3>6. \A id \in DOMAIN given : given'[id] = given[id]
        BY <3>1, <3>4
    <3>7. /\ data' = data \cup UNION {Written(id, Build(given'[id]).ok) : id \in ids}
          /\ meta' = meta \cup {encode(id, Build(given'[id]).ok).meta : id \in ids}
        BY <3>1, <3>5, Zenon
    <3>8. /\ DOMAIN given \subseteq 0 .. MaxItems - 1
          /\ \A id \in DOMAIN given : Accepted(id, given[id])
          /\ meta = {encode(id, Build(given[id]).ok).meta : id \in DOMAIN given}
          /\ data = UNION {Written(id, Build(given[id]).ok) : id \in DOMAIN given}
        BY <1>1, <3>2 DEF Holds
    <3>9. /\ meta = {encode(id, Build(given'[id]).ok).meta : id \in DOMAIN given}
          /\ data = UNION {Written(id, Build(given'[id]).ok) : id \in DOMAIN given}
        BY <3>6, <3>8
    <3> DEFINE W(id) == Written(id, Build(given'[id]).ok)
               M(id) == encode(id, Build(given'[id]).ok).meta
               D == DOMAIN given
    <3>10. /\ data' = UNION {W(id) : id \in ids \cup D}
           /\ meta' = {M(id) : id \in ids \cup D}
      <4>1. /\ data' = (UNION {W(id) : id \in D}) \cup (UNION {W(id) : id \in ids})
            /\ meta' = {M(id) : id \in D} \cup {M(id) : id \in ids}
        <5>1. data = UNION {W(id) : id \in D} /\ meta = {M(id) : id \in D}
            BY <3>9
        <5>2. /\ data' = data \cup UNION {W(id) : id \in ids}
              /\ meta' = meta \cup {M(id) : id \in ids}
            BY <3>7
        <5> HIDE DEF W, M, D
        <5> QED
            BY <5>1, <5>2, Zenon
      <4> HIDE DEF W, M, D
      <4> QED
          BY <4>1
    <3>11. \A id \in DOMAIN given' : Accepted(id, given'[id])
        BY <3>1, <3>6, <3>8
    <3> QED
        BY <3>1, <3>8, <3>10, <3>11 DEF Holds
  <2> QED
      BY <1>4, <2>2
<1>5. ASSUME NEW id \in DOMAIN items, open, Deletes(id) PROVE StoreInv'
  <2>1. /\ data' = {e \in data : e.graph # item_graph(id)}
        /\ meta' = {m \in meta : m.subject # item_graph(id)}
        /\ given' = [i \in DOMAIN given \ {id} |-> given[i]]
        /\ open /\ foreign' = foreign
      BY <1>5 DEF Deletes
  <2>2. SUFFICES ASSUME ~foreign PROVE Holds(given', meta', data')
      BY <1>2, <2>1
  <2>3. /\ DOMAIN given \subseteq 0 .. MaxItems - 1
        /\ \A i \in DOMAIN given : Accepted(i, given[i])
        /\ meta = {encode(i, Orig(i)).meta : i \in DOMAIN given}
        /\ data = UNION {Written(i, Orig(i)) : i \in DOMAIN given}
        /\ id \in DOMAIN given
      BY <2>1, <2>2 DEF StoreInv, IndexInv
  <2>4. \A i \in DOMAIN given : i # id => item_graph(i) # item_graph(id)
      BY <2>3, GraphsAreDistinct
  <2>5. \A i \in DOMAIN given : encode(i, Orig(i)).meta.subject = item_graph(i)
      BY DEF encode
  <2>6. \A i \in DOMAIN given : \A e \in Written(i, Orig(i)) : e.graph = item_graph(i)
    <3>1. \A i \in DOMAIN given : {e \in data : e.graph = item_graph(i)} = Written(i, Orig(i))
        BY <2>2, GraphHolds
    <3> QED
        BY <3>1
  <2>7. \A i \in DOMAIN given' : given'[i] = given[i]
      BY <2>1
  <2> DEFINE W(i) == Written(i, Orig(i))
             M(i) == encode(i, Orig(i)).meta
             D == DOMAIN given
  <2>8. /\ data' = UNION {W(i) : i \in D \ {id}}
        /\ meta' = {M(i) : i \in D \ {id}}
    <3>1. /\ data' = {e \in UNION {W(i) : i \in D} : e.graph # item_graph(id)}
          /\ meta' = {m \in {M(i) : i \in D} : m.subject # item_graph(id)}
          /\ \A i \in D : i # id => item_graph(i) # item_graph(id)
          /\ \A i \in D : M(i).subject = item_graph(i)
          /\ \A i \in D : \A e \in W(i) : e.graph = item_graph(i)
        BY <2>1, <2>3, <2>4, <2>5, <2>6
    <3> HIDE DEF W, M, D
    <3>2. data' = UNION {W(i) : i \in D \ {id}}
        BY <3>1
    <3>3. meta' = {M(i) : i \in D \ {id}}
        BY <3>1
    <3> QED
        BY <3>2, <3>3
  <2>9. \A i \in D \ {id} : /\ W(i) = Written(i, Build(given'[i]).ok)
                            /\ M(i) = encode(i, Build(given'[i]).ok).meta
      BY <2>1, <2>7 DEF Orig
  <2>10. DOMAIN given' = D \ {id}
      BY <2>1
  <2> HIDE DEF W, M, D
  <2>11. /\ data' = UNION {Written(i, Build(given'[i]).ok) : i \in DOMAIN given'}
         /\ meta' = {encode(i, Build(given'[i]).ok).meta : i \in DOMAIN given'}
      BY <2>8, <2>9, <2>10
  <2>12. /\ DOMAIN given' \subseteq 0 .. MaxItems - 1
         /\ \A i \in DOMAIN given' : Accepted(i, given'[i])
      BY <2>3, <2>7, <2>10 DEF D
  <2> QED
      BY <2>11, <2>12 DEF Holds
<1>6. CASE Open
    BY <1>3, <1>6 DEF Open, Fails
<1>7. CASE Close
    BY <1>3, <1>7 DEF Close
<1>8. ASSUME NEW m \in ForeignMeta, ForeignWrite(m) PROVE StoreInv'
    BY <1>2, <1>8 DEF ForeignWrite
<1>9. CASE Kept
    BY <1>3, <1>9 DEF Kept
<1> QED
    BY <1>4, <1>5, <1>6, <1>7, <1>8, <1>9 DEF Effect

-----------------------------------------------------------------------------
(* What is read of an item that was written *)

\* The payload in the text of an item.
PayloadText(p) ==
    IF p.type = "triples" THEN [type |-> Str("triples")]
    ELSE IF p.type = "event"
    THEN [type |-> Str("event"), kind |-> Str(p.kind), body |-> p.body]
    ELSE [type |-> Str("chunk"), content |-> Str(p.content), content_type |-> Str(p.content_type)]

\* The numbers in the text of an embedding.
NumbersText(v) == [i \in DOMAIN v |-> IF Finite(v[i]) THEN Float(v[i]) ELSE Null]

LEMMA SerializeIs ==
    ASSUME NEW item, item.payload.type \in {"triples", "event", "chunk"}
    PROVE  LET j == Serialize(item)
               df == item.provenance.derived_from
           IN  /\ j.json = "object"
               /\ DOMAIN j.object = {"payload", "source", "derived_from", "scope_hint", "embedding"}
               /\ j.object["payload"] = Object(PayloadText(item.payload))
               /\ j.object["source"] = Str(item.provenance.source)
               /\ j.object["derived_from"] = Array([i \in DOMAIN df |-> Integer(df[i])])
               /\ j.object["scope_hint"] = IF item.scope_hint = NoScope THEN Null
                                           ELSE Str(Tag(item.scope_hint))
               /\ j.object["embedding"] = IF item.embedding = None THEN Null
                                          ELSE Array(NumbersText(item.embedding[1]))
<1> DEFINE p == item.payload
           df == item.provenance.derived_from
           payload == CASE p.type = "triples" -> Object([type |-> Str("triples")])
                        [] p.type = "event" ->
                             Object([type |-> Str("event"), kind |-> Str(p.kind), body |-> p.body])
                        [] p.type = "chunk" ->
                             Object([type |-> Str("chunk"), content |-> Str(p.content),
                                     content_type |-> Str(p.content_type)])
           source == Str(item.provenance.source)
           derived == Array([i \in DOMAIN df |-> Integer(df[i])])
           hint == IF item.scope_hint = NoScope THEN Null ELSE Str(Tag(item.scope_hint))
           embedding == IF item.embedding = None THEN Null
                        ELSE Array(NumbersText(item.embedding[1]))
           o == [payload |-> payload, source |-> source, derived_from |-> derived,
                 scope_hint |-> hint, embedding |-> embedding]
<1>1. Serialize(item) = Object(o)
    BY Zenon DEF Serialize, NumbersText
<1>2. payload = Object(PayloadText(p))
  <2>1. CASE p.type = "triples"
      BY <2>1 DEF PayloadText
  <2>2. CASE p.type = "event"
      BY <2>2 DEF PayloadText
  <2>3. CASE p.type = "chunk"
      BY <2>3 DEF PayloadText
  <2> QED
      BY <2>1, <2>2, <2>3
<1> HIDE DEF payload, source, derived, hint, embedding
<1>3. /\ Object(o).json = "object" /\ Object(o).object = o
      /\ DOMAIN o = {"payload", "source", "derived_from", "scope_hint", "embedding"}
      /\ o["payload"] = payload /\ o["source"] = source /\ o["derived_from"] = derived
      /\ o["scope_hint"] = hint /\ o["embedding"] = embedding
    BY DEF Object
<1> HIDE DEF o
<1> QED
    BY <1>1, <1>2, <1>3 DEF source, derived, hint, embedding

\* The tag of a scope names that scope.
LEMMA TagIs ==
    ASSUME NEW s \in Scopes
    PROVE  FromTag(Tag(s)) = {s}
BY DEF FromTag, Tag, Scopes, Enduring, Major, Minor

\* The text of an item is one of a record, unless its body nests too deep.
LEMMA TextIsRecord ==
    ASSUME NEW item, item.payload.type \in {"triples", "event", "chunk"},
           item.embedding # None =>
              \A i \in DOMAIN item.embedding[1] : Finite(item.embedding[1][i]),
           IsIds(item.provenance.derived_from)
    PROVE  /\ IsRecord(Serialize(item))
           /\ TooDeep(Serialize(item)) <=>
                 /\ item.payload.type = "event"
                 /\ \E path \in DOMAIN item.payload.body :
                       item.payload.body[path] \in Nesting /\ 2 + Len(path) + 1 > MaxDepth
<1> DEFINE j == Serialize(item)
           p == item.payload
           df == item.provenance.derived_from
           t == PayloadText(p)
<1>1. /\ j.json = "object"
      /\ DOMAIN j.object = {"payload", "source", "derived_from", "scope_hint", "embedding"}
      /\ j.object["payload"] = Object(t)
      /\ j.object["source"] = Str(item.provenance.source)
      /\ j.object["derived_from"] = Array([i \in DOMAIN df |-> Integer(df[i])])
      /\ j.object["scope_hint"] = IF item.scope_hint = NoScope THEN Null
                                  ELSE Str(Tag(item.scope_hint))
      /\ j.object["embedding"] = IF item.embedding = None THEN Null
                                 ELSE Array(NumbersText(item.embedding[1]))
    BY SerializeIs
<1> HIDE DEF j
<1>2. /\ \A x : Object(x).json = "object" /\ Object(x).object = x
      /\ \A x : Array(x).json = "array" /\ Array(x).array = x
      /\ \A x : Str(x).json = "string" /\ Str(x).string = x
      /\ \A x : Integer(x).json = "int" /\ Integer(x).int = x
      /\ \A x : Float(x).json = "float" /\ Null.json = "null"
    BY DEF Object, Array, Str, Integer, Float, Null
<1>3. /\ t["type"] = Str(p.type) /\ "type" \in DOMAIN t
      /\ p.type = "event" => DOMAIN t = {"type", "kind", "body"} /\ t["body"] = p.body
      /\ p.type = "chunk" => DOMAIN t = {"type", "content", "content_type"}
      /\ p.type = "triples" => DOMAIN t = {"type"}
  <2>1. CASE p.type = "triples"
      BY <2>1 DEF PayloadText
  <2>2. CASE p.type = "event"
      BY <2>2 DEF PayloadText
  <2>3. CASE p.type = "chunk"
      BY <2>3 DEF PayloadText
  <2> QED
      BY <2>1, <2>2, <2>3
<1> HIDE DEF t
<1>4. \A n \in Parts(j.object["derived_from"]) : n.json = "int" /\ n.int \in Nat
  <2> DEFINE a == [i \in DOMAIN df |-> Integer(df[i])]
  <2>1. j.object["derived_from"] = Array(a)
      BY <1>1
  <2>2. \A i \in DOMAIN a : a[i].json = "int" /\ a[i].int \in Nat
    <3>1. \A i \in DOMAIN df : df[i] \in Nat
        BY DEF IsIds, Range
    <3> QED
        BY <1>2, <3>1
  <2> HIDE DEF a
  <2>3. Parts(Array(a)) = {a[i] : i \in DOMAIN a}
      BY <1>2 DEF Parts
  <2> QED
      BY <2>1, <2>2, <2>3
<1>5. \/ j.object["embedding"] = Null
      \/ \A n \in Parts(j.object["embedding"]) : n.json \in {"int", "float"}
  <2>1. SUFFICES ASSUME item.embedding # None
                 PROVE  \A n \in Parts(j.object["embedding"]) : n.json \in {"int", "float"}
      BY <1>1
  <2> DEFINE v == item.embedding[1]
  <2>2. Parts(j.object["embedding"]) = {NumbersText(v)[i] : i \in DOMAIN NumbersText(v)}
    <3>1. j.object["embedding"] = Array(NumbersText(v))
        BY <1>1, <2>1
    <3>2. Parts(Array(NumbersText(v))) = {NumbersText(v)[i] : i \in DOMAIN NumbersText(v)}
      <4> HIDE DEF v
      <4> QED
          BY <1>2 DEF Parts
    <3> QED
        BY <3>1, <3>2
  <2>3. \A i \in DOMAIN NumbersText(v) : NumbersText(v)[i].json = "float"
      BY <1>2, <2>1 DEF NumbersText
  <2> QED
      BY <2>2, <2>3
<1>6. j.object["scope_hint"].json \in {"null", "string"}
    BY <1>1, <1>2
<1>7. IsRecord(j)
  <2>1. /\ j.object["payload"].json = "object" /\ j.object["payload"].object = t
        /\ j.object["source"].json = "string" /\ j.object["derived_from"].json = "array"
      BY <1>1, <1>2
  <2>2. \/ t["type"] = Str("triples")
        \/ t["type"] = Str("event") /\ {"kind", "body"} \subseteq DOMAIN t
        \/ t["type"] = Str("chunk") /\ {"content", "content_type"} \subseteq DOMAIN t
      BY <1>3
  <2> QED
      BY <1>1, <1>3, <1>4, <1>5, <1>6, <2>1, <2>2 DEF IsRecord
<1>8. "body" \in DOMAIN t <=> p.type = "event"
    BY <1>3
<1>9. TooDeep(j) <=> /\ "body" \in DOMAIN t
                     /\ \E path \in DOMAIN t["body"] :
                           t["body"][path] \in Nesting /\ 2 + Len(path) + 1 > MaxDepth
  <2>1. j.object["payload"].object = t
      BY <1>1, <1>2
  <2> QED
      BY <2>1, Zenon DEF TooDeep
<1> QED
    BY <1>3, <1>7, <1>8, <1>9 DEF j

\* The text of an item is read as that item, but for its triples, which are in
\* the item's graph, and the floats of a body.
LEMMA DecodeIs ==
    ASSUME NEW item, item.payload.type \in {"triples", "event", "chunk"},
           item.provenance = Provenance(item.provenance.source, item.provenance.derived_from),
           IsIds(item.provenance.derived_from),
           item.scope_hint \in Scopes \cup {NoScope},
           item.embedding # None =>
              /\ item.embedding = Some(item.embedding[1])
              /\ item.embedding[1] = [i \in DOMAIN item.embedding[1] |-> item.embedding[1][i]]
              /\ \A i \in DOMAIN item.embedding[1] : Finite(item.embedding[1][i]),
           NEW quads
    PROVE  LET r == decode(Serialize(item), quads)
               p == item.payload
           IN  /\ TooDeep(Serialize(item)) => r = None
               /\ ~TooDeep(Serialize(item)) =>
                     /\ r # None
                     /\ r[1].payload
                          = IF p.type = "triples"
                            THEN Triples([i \in DOMAIN quads |->
                                             [quads[i] EXCEPT !.graph = DefaultGraph]])
                            ELSE IF p.type = "event" THEN Event(p.kind, Reread(p.body))
                            ELSE Chunk(p.content, p.content_type)
                     /\ r[1].provenance = item.provenance
                     /\ r[1].scope_hint = item.scope_hint
                     /\ r[1].embedding = item.embedding
<1> DEFINE j == Serialize(item)
           p == item.payload
           df == item.provenance.derived_from
           t == PayloadText(p)
           ts == Triples([i \in DOMAIN quads |-> [quads[i] EXCEPT !.graph = DefaultGraph]])
           values(a) == [i \in DOMAIN a |-> IF a[i].json = "int" THEN a[i].int ELSE a[i].float]
           ids(a) == [i \in DOMAIN a |-> a[i].int]
           field(name) == Field(j, name)
           o == j.object["payload"].object
           payload == CASE o["type"] = Str("triples") -> ts
                        [] o["type"] = Str("event") -> Event(o["kind"].string, Reread(o["body"]))
                        [] OTHER -> Chunk(o["content"].string, o["content_type"].string)
           provenance == Provenance(j.object["source"].string, ids(j.object["derived_from"].array))
           hint == IF field("scope_hint") = Null THEN NoScope
                   ELSE CHOOSE s \in FromTag(field("scope_hint").string) : TRUE
           embedding == IF field("embedding") = Null THEN None
                        ELSE Some(values(field("embedding").array))
           bad == \/ ~IsRecord(j)
                  \/ TooDeep(j)
                  \/ field("scope_hint") # Null /\ FromTag(field("scope_hint").string) = {}
           read == [payload |-> payload, provenance |-> provenance, scope_hint |-> hint,
                    embedding |-> embedding]
<1>1. decode(j, quads) = IF bad THEN None ELSE Some(read)
    BY Zenon DEF decode
<1>2. /\ j.json = "object"
      /\ DOMAIN j.object = {"payload", "source", "derived_from", "scope_hint", "embedding"}
      /\ j.object["payload"] = Object(t)
      /\ j.object["source"] = Str(item.provenance.source)
      /\ j.object["derived_from"] = Array([i \in DOMAIN df |-> Integer(df[i])])
      /\ j.object["scope_hint"] = IF item.scope_hint = NoScope THEN Null
                                  ELSE Str(Tag(item.scope_hint))
      /\ j.object["embedding"] = IF item.embedding = None THEN Null
                                 ELSE Array(NumbersText(item.embedding[1]))
    BY SerializeIs
<1>3. IsRecord(j)
    BY TextIsRecord
<1> HIDE DEF j
<1>4. /\ \A x : Object(x).object = x
      /\ \A x : Array(x).array = x /\ Array(x) # Null
      /\ \A x : Str(x).string = x /\ Str(x) # Null
      /\ \A x : Integer(x).int = x /\ Float(x).float = x /\ Float(x).json # "int"
      /\ \A x : Some(x) # None /\ Some(x)[1] = x
  <2>1. /\ \A x : Array(x).json = "array" /\ Str(x).json = "string"
        /\ Null.json = "null"
      BY DEF Array, Str, Null
  <2>2. \A x : Array(x) # Null /\ Str(x) # Null
      BY <2>1
  <2>3. \A x : Some(x) # None /\ Some(x)[1] = x
      BY DEF Some, None
  <2> QED
      BY <2>2, <2>3 DEF Object, Array, Str, Integer, Float
<1>5. /\ field("scope_hint") = j.object["scope_hint"] /\ field("embedding") = j.object["embedding"]
    BY <1>2 DEF Field
<1> HIDE DEF field
<1>6. /\ hint = item.scope_hint
      /\ ~(field("scope_hint") # Null /\ FromTag(field("scope_hint").string) = {})
  <2>1. CASE item.scope_hint = NoScope
      BY <1>2, <1>5, <2>1
  <2>2. CASE item.scope_hint # NoScope
    <3>1. item.scope_hint \in Scopes /\ FromTag(Tag(item.scope_hint)) = {item.scope_hint}
        BY <2>2, TagIs
    <3>2. field("scope_hint") # Null /\ field("scope_hint").string = Tag(item.scope_hint)
        BY <1>2, <1>4, <1>5, <2>2
    <3>3. FromTag(field("scope_hint").string) = {item.scope_hint}
        BY <3>1, <3>2, Zenon
    <3>4. (CHOOSE s \in {item.scope_hint} : TRUE) = item.scope_hint
        OBVIOUS
    <3>5. hint = CHOOSE s \in {item.scope_hint} : TRUE
        BY <3>2, <3>3, Zenon
    <3> QED
        BY <3>3, <3>4, <3>5, Zenon
  <2> QED
      BY <2>1, <2>2
<1>7. embedding = item.embedding
  <2>1. CASE item.embedding = None
      BY <1>2, <1>5, <2>1
  <2>2. CASE item.embedding # None
    <3> DEFINE v == item.embedding[1]
               n == NumbersText(v)
    <3>1. /\ item.embedding = Some(v) /\ v = [i \in DOMAIN v |-> v[i]]
          /\ \A i \in DOMAIN v : Finite(v[i])
        BY <2>2
    <3>2. field("embedding") # Null /\ field("embedding").array = n
        BY <1>2, <1>4, <1>5, <2>2
    <3>3. DOMAIN n = DOMAIN v /\ \A i \in DOMAIN v : n[i] = Float(v[i])
        BY <3>1 DEF NumbersText
    <3> HIDE DEF v, n
    <3>4. values(n) = [i \in DOMAIN v |-> v[i]]
        BY <1>4, <3>3
    <3>5. embedding = Some(values(n))
        BY <3>2, Zenon
    <3> QED
        BY <3>1, <3>4, <3>5, Zenon
  <2> QED
      BY <2>1, <2>2
<1>8. provenance = item.provenance
  <2> DEFINE a == [i \in DOMAIN df |-> Integer(df[i])]
  <2>1. j.object["source"].string = item.provenance.source /\ j.object["derived_from"].array = a
      BY <1>2, <1>4
  <2>2. ids(a) = [i \in DOMAIN df |-> df[i]]
      BY <1>4
  <2>3. df = [i \in DOMAIN df |-> df[i]]
      BY DEF IsIds, IsSeq
  <2> HIDE DEF a, df
  <2>4. provenance = Provenance(item.provenance.source, df)
      BY <2>1, <2>2, <2>3, Zenon
  <2> QED
      BY <2>4 DEF df
<1>9. payload = IF p.type = "triples" THEN ts
                ELSE IF p.type = "event" THEN Event(p.kind, Reread(p.body))
                ELSE Chunk(p.content, p.content_type)
  <2>1. o = t
      BY <1>2, <1>4
  <2>2. Str("triples") # Str("event") /\ Str("triples") # Str("chunk") /\ Str("event") # Str("chunk")
      BY DEF Str
  <2>3. CASE p.type = "triples"
    <3>1. t["type"] = Str("triples")
        BY <2>3 DEF PayloadText
    <3> HIDE DEF t, o, ts
    <3> QED
        BY <2>1, <2>2, <2>3, <3>1
  <2>4. CASE p.type = "event"
    <3>1. t["type"] = Str("event") /\ t["kind"].string = p.kind /\ t["body"] = p.body
        BY <1>4, <2>4 DEF PayloadText
    <3> HIDE DEF t, o, ts
    <3>2. payload = Event(o["kind"].string, Reread(o["body"]))
        BY <2>1, <2>2, <2>4, <3>1
    <3> QED
        BY <2>1, <2>4, <3>1, <3>2
  <2>5. CASE p.type = "chunk"
    <3>1. /\ t["type"] = Str("chunk") /\ t["content"].string = p.content
          /\ t["content_type"].string = p.content_type
        BY <1>4, <2>5 DEF PayloadText
    <3> HIDE DEF t, o, ts
    <3>2. payload = Chunk(o["content"].string, o["content_type"].string)
        BY <2>1, <2>2, <2>5, <3>1
    <3> QED
        BY <2>1, <2>5, <3>1, <3>2
  <2> QED
      BY <2>3, <2>4, <2>5
<1> HIDE DEF payload, provenance, hint, embedding, ts
<1>10. bad <=> TooDeep(j)
    BY <1>3, <1>6
<1>11. Some(read) # None /\ Some(read)[1] = read
    BY <1>4, Zenon
<1>12. /\ read.payload = payload /\ read.provenance = item.provenance
       /\ read.scope_hint = item.scope_hint /\ read.embedding = item.embedding
    BY <1>6, <1>7, <1>8
<1> HIDE DEF bad, read
<1> QED
    BY <1>1, <1>9, <1>10, <1>11, <1>12 DEF j, ts

LEMMA LoadRecordIs ==
    ASSUME NEW d, NEW m, NEW id, parse_item_graph(m.subject) = {id}, m.object.term = "literal"
    PROVE  LET item == decode(m.object.value, GraphQuads(d, id))
           IN  LoadRecord(d, m) = IF item = None THEN None ELSE Some([id |-> id, item |-> item[1]])
<1> DEFINE ids == parse_item_graph(m.subject)
           i == CHOOSE x \in ids : TRUE
           item == decode(m.object.value, GraphQuads(d, i))
<1>1. LoadRecord(d, m)
        = IF ids = {} \/ m.object.term # "literal" THEN None
          ELSE IF item = None THEN None ELSE Some([id |-> i, item |-> item[1]])
    BY Zenon DEF LoadRecord
<1>2. ids = {id} /\ ids # {}
    OBVIOUS
<1>3. i = id
  <2>1. (CHOOSE x \in {id} : TRUE) = id
      OBVIOUS
  <2> HIDE DEF ids
  <2> QED
      BY <1>2, <2>1, Zenon
<1> HIDE DEF ids, i
<1>4. LoadRecord(d, m) = IF item = None THEN None ELSE Some([id |-> i, item |-> item[1]])
    BY <1>1, <1>2, Zenon
<1> QED
    BY <1>3, <1>4, Zenon

\* An item that was accepted is read as an item like it.
LEMMA DecodeLike ==
    ASSUME NEW id \in 0 .. MaxItems - 1, NEW call, Accepted(id, call),
           NEW quads, Range(quads) = encode(id, Build(call).ok).data
    PROVE  LET item == Build(call).ok
               r == decode(Serialize(item), quads)
           IN  /\ r = None <=> TooDeep(Serialize(item))
               /\ r # None => Like(r[1], item)
<1> DEFINE item == Build(call).ok
           p == item.payload
           v == item.embedding[1]
           r == decode(Serialize(item), quads)
<1>1. /\ IsCall(call) /\ OfCall(item, call)
      /\ item.embedding # None => \A i \in DOMAIN v : Finite(v[i])
    BY Zenon DEF Accepted
<1>2. Range(quads) = encode(id, item).data
    OBVIOUS
<1> HIDE DEF item
<1>3. /\ item.scope_hint = call.scope_hint /\ item.embedding = ToF32(call.embedding)
      /\ item.provenance = Provenance(item.provenance.source, item.provenance.derived_from)
      /\ IsIds(item.provenance.derived_from)
    BY <1>1 DEF OfCall
<1>4. item.scope_hint \in Scopes \cup {NoScope}
    BY <1>1, <1>3 DEF IsCall
<1>5. item.embedding # None =>
         item.embedding = Some(v) /\ v = [i \in DOMAIN v |-> v[i]]
  <2> DEFINE e == call.embedding[1]
             w == [i \in DOMAIN e |-> AsF32(e[i])]
  <2>1. item.embedding = IF call.embedding = None THEN None ELSE Some(w)
      BY <1>3 DEF ToF32
  <2>2. w = [i \in DOMAIN w |-> w[i]]
      OBVIOUS
  <2> HIDE DEF w
  <2>3. Some(w)[1] = w
      BY DEF Some
  <2> QED
      BY <2>1, <2>2, <2>3
<1>6. p.type \in {"triples", "event", "chunk"}
    BY <1>1, PayloadIs
<1>7. /\ TooDeep(Serialize(item)) => r = None
      /\ ~TooDeep(Serialize(item)) =>
            /\ r # None
            /\ r[1].payload = IF p.type = "triples"
                              THEN Triples([i \in DOMAIN quads |->
                                               [quads[i] EXCEPT !.graph = DefaultGraph]])
                              ELSE IF p.type = "event" THEN Event(p.kind, Reread(p.body))
                              ELSE Chunk(p.content, p.content_type)
            /\ r[1].provenance = item.provenance
            /\ r[1].scope_hint = item.scope_hint
            /\ r[1].embedding = item.embedding
  <2>1. item.embedding # None =>
           /\ item.embedding = Some(v)
           /\ v = [i \in DOMAIN v |-> v[i]]
           /\ \A i \in DOMAIN v : Finite(v[i])
      BY <1>1, <1>5
  <2> QED
      BY <1>3, <1>4, <1>6, <2>1, DecodeIs
<1> HIDE DEF r
<1>8. ASSUME ~TooDeep(Serialize(item)), p.type = "triples"
      PROVE  Like(r[1], item)
  <2> DEFINE back == [i \in DOMAIN quads |-> [quads[i] EXCEPT !.graph = DefaultGraph]]
             ts == p.triples
             g == item_graph(id)
             Moved(k) == [ts[k] EXCEPT !.graph = g]
             Back(q) == [q EXCEPT !.graph = DefaultGraph]
  <2>1. r[1].payload = Triples(back)
      BY <1>7, <1>8
  <2>2. r[1].payload.type = "triples" /\ r[1].payload.triples = back
    <3> HIDE DEF back
    <3> QED
        BY <2>1 DEF Triples
  <2>3. \A i \in DOMAIN ts : ts[i] \in CoreTriples
      BY <1>1, <1>8, PayloadIs
  <2>4. encode(id, item).data = {[ts[i] EXCEPT !.graph = g] : i \in DOMAIN ts}
      BY <1>1, <1>8, DataIs, Zenon
  <2>5. Range(quads) = {[ts[i] EXCEPT !.graph = g] : i \in DOMAIN ts}
      BY <1>2, <2>4, Zenon
  <2>6. \A q, t : t \in CoreTriples /\ q = [t EXCEPT !.graph = g]
                     => [q EXCEPT !.graph = DefaultGraph] = t
      BY DEF CoreTriples, CoreQuads
  <2>7. Range(back) = Range(ts)
    <3>6. Range(quads) = {Moved(i) : i \in DOMAIN ts}
        BY <2>5
    <3>1. \A k \in DOMAIN ts : Back(Moved(k)) = ts[k]
      <4>1. \A t \in CoreTriples : Back([t EXCEPT !.graph = g]) = t
          BY <2>6, Zenon
      <4> HIDE DEF Back
      <4> QED
          BY <2>3, <4>1, Zenon
    <3>2. DOMAIN back = DOMAIN quads /\ \A i \in DOMAIN quads : back[i] = Back(quads[i])
        BY Zenon
    <3> HIDE DEF Moved, Back, back
    <3>3. \A i \in DOMAIN quads : \E k \in DOMAIN ts : quads[i] = Moved(k)
        BY <3>6 DEF Range
    <3>4. \A i \in DOMAIN back : \E k \in DOMAIN ts : back[i] = ts[k]
        BY <3>1, <3>2, <3>3
    <3>5. \A k \in DOMAIN ts : \E i \in DOMAIN back : back[i] = ts[k]
      <4>1. \A k \in DOMAIN ts : \E i \in DOMAIN quads : quads[i] = Moved(k)
          BY <3>6 DEF Range
      <4> QED
          BY <3>1, <3>2, <4>1
    <3> QED
        BY <3>4, <3>5 DEF Range
  <2> QED
      BY <1>7, <1>8, <2>2, <2>7 DEF Like
<1>9. ASSUME ~TooDeep(Serialize(item)), p.type = "event"
      PROVE  Like(r[1], item)
  <2>1. r[1].payload = Event(p.kind, Reread(p.body))
      BY <1>7, <1>9
  <2> QED
      BY <1>7, <1>9, <2>1 DEF Like, Event
<1>10. ASSUME ~TooDeep(Serialize(item)), p.type = "chunk"
       PROVE  Like(r[1], item)
  <2>1. r[1].payload = Chunk(p.content, p.content_type)
      BY <1>7, <1>10
  <2> QED
      BY <1>7, <1>10, <2>1 DEF Like, Chunk
<1> QED
    BY <1>6, <1>7, <1>8, <1>9, <1>10 DEF item, r

\* What is loaded of an item that was accepted, by its metadata quad.
LEMMA LoadedIs ==
    ASSUME FiniteInv, StoreInv, ~foreign, NEW id \in DOMAIN given
    PROVE  LET r == LoadRecord(data, encode(id, Orig(id)).meta)
           IN  /\ r = None <=> TooDeep(Serialize(Orig(id)))
               /\ r # None => r[1].id = id /\ Like(r[1].item, Orig(id))
<1> DEFINE item == Orig(id)
           m == encode(id, item).meta
           quads == GraphQuads(data, id)
           back == decode(Serialize(item), quads)
<1>1. id \in 0 .. MaxItems - 1 /\ Accepted(id, given[id])
    BY DEF StoreInv
<1>2. m = [subject |-> item_graph(id), object |-> new_simple(Serialize(item))]
    BY DEF encode
<1>3. parse_item_graph(m.subject) = {id}
    BY <1>1, <1>2, ParseIs
<1>4. m.object.term = "literal" /\ m.object.value = Serialize(item)
    BY <1>2 DEF new_simple, new_typed
<1>5. Range(quads) = encode(id, item).data
  <2> DEFINE S == {q \in {quad_from_ox(Decode(e)) : e \in data} : q.graph = item_graph(id)}
  <2>1. S = encode(id, item).data
      BY GraphHolds
  <2>2. IsFiniteSet(encode(id, item).data)
      BY <1>1, DataIs DEF Accepted, Orig
  <2>3. quads = SetToSeq(S)
      BY Zenon DEF GraphQuads
  <2> HIDE DEF S, quads
  <2> QED
      BY <2>1, <2>2, <2>3, SetToSeqRange
<1> HIDE DEF m, quads
<1>6. /\ back = None <=> TooDeep(Serialize(item))
      /\ back # None => Like(back[1], item)
    BY <1>1, <1>5, DecodeLike DEF Orig
<1>7. LoadRecord(data, m) = IF back = None THEN None ELSE Some([id |-> id, item |-> back[1]])
    BY <1>3, <1>4, LoadRecordIs DEF quads
<1> HIDE DEF back, item
<1> QED
    BY <1>6, <1>7 DEF m, item, Some, None

LEMMA IndexStep ==
    ASSUME FiniteInv, StoreInv, IndexInv, Effect
    PROVE  IndexInv'
<1> DEFINE Holds(its, n, g) ==
              /\ DOMAIN its = DOMAIN g
              /\ \A id \in DOMAIN g : id < n
              /\ \A id \in DOMAIN g : Like(its[id], Build(g[id]).ok)
<1>1. open /\ ~foreign => Holds(items, next_id, given)
    BY DEF IndexInv, Orig
<1>2. (open' /\ ~foreign' => Holds(items', next_id', given')) => IndexInv'
    BY DEF IndexInv, Orig
<1> HIDE DEF Holds
<1>3. ASSUME UNCHANGED <<open, foreign, items, next_id, given>> PROVE IndexInv'
    BY <1>1, <1>2, <1>3
<1>4. ASSUME NEW calls \in Batches, Added(calls) PROVE IndexInv'
  <2>2. CASE Added(calls)
    <3> DEFINE ids == next_id .. next_id' - 1
    <3>1. /\ next_id' \in Nat /\ next_id' >= next_id
          /\ DOMAIN given' = ids \cup DOMAIN given /\ DOMAIN items' = ids \cup DOMAIN items
          /\ \A id \in ids : items'[id] = Orig(id)'
          /\ \A id \in DOMAIN given \ ids : given'[id] = given[id]
          /\ \A id \in DOMAIN items \ ids : items'[id] = items[id]
          /\ foreign' = foreign /\ open
        BY <2>2, AddedIs DEF FiniteInv, Added
    <3>2. SUFFICES ASSUME ~foreign PROVE Holds(items', next_id', given')
        BY <1>2, <3>1
    <3>3. /\ DOMAIN items = DOMAIN given
          /\ \A id \in DOMAIN given : id < next_id /\ Like(items[id], Build(given[id]).ok)
        BY <1>1, <3>1, <3>2 DEF Holds
    <3>4. DOMAIN given \subseteq Int
        BY <3>2 DEF StoreInv
    <3>5. \A id \in DOMAIN given' : id < next_id'
        BY <3>1, <3>3, <3>4 DEF FiniteInv
    <3> HIDE DEF ids
    <3>6. \A id \in ids : Like(items'[id], Build(given'[id]).ok)
      <4>1. \A id \in ids : items'[id] = Build(given'[id]).ok
        <5>1. \A id \in ids : Orig(id)' = Build(given'[id]).ok
            BY DEF Orig
        <5> QED
            BY <3>1, <5>1
      <4> QED
          BY <4>1, LikeItself
    <3>7. \A id \in DOMAIN given \ ids : Like(items'[id], Build(given'[id]).ok)
        BY <3>1, <3>3
    <3>8. \A id \in DOMAIN given' : Like(items'[id], Build(given'[id]).ok)
        BY <3>1, <3>6, <3>7
    <3> QED
        BY <3>1, <3>3, <3>5, <3>8 DEF Holds
  <2> QED
      BY <1>4, <2>2
<1>5. ASSUME NEW id \in DOMAIN items, open, Deletes(id) PROVE IndexInv'
  <2>1. /\ items' = [i \in DOMAIN items \ {id} |-> items[i]]
        /\ given' = [i \in DOMAIN given \ {id} |-> given[i]]
        /\ next_id' = next_id /\ open /\ foreign' = foreign
      BY <1>5 DEF Deletes
  <2>2. SUFFICES ASSUME ~foreign PROVE Holds(items', next_id', given')
      BY <1>2, <2>1
  <2>3. Holds(items, next_id, given)
      BY <1>1, <2>1, <2>2
  <2>4. DOMAIN items = DOMAIN given /\ \A i \in DOMAIN given : i < next_id
      BY <2>3 DEF Holds
  <2>5. /\ DOMAIN items' = DOMAIN items \ {id} /\ DOMAIN given' = DOMAIN given \ {id}
        /\ \A i \in DOMAIN given' : items'[i] = items[i] /\ given'[i] = given[i]
      BY <2>1, <2>4
  <2>6. \A i \in DOMAIN given' : Like(items'[i], Build(given'[i]).ok)
      BY <2>3, <2>5 DEF Holds
  <2> QED
      BY <2>1, <2>4, <2>5, <2>6 DEF Holds
<1>6. CASE Open
  <2>1. CASE ~Loads(data, meta)
      BY <1>3, <1>6, <2>1 DEF Open, Fails
  <2>2. CASE Loads(data, meta)
    <3> DEFINE loaded == load(data, meta)
               ids == {r.id : r \in loaded}
               at(id) == LoadRecord(data, encode(id, Orig(id)).meta)
    <3>1. PICK choice \in [ids -> loaded] :
              /\ \A id \in ids : choice[id].id = id
              /\ items' = [id \in ids |-> choice[id].item]
        BY <1>6, <2>2, Zenon DEF Open
    <3>2. /\ next_id' = Max({-1} \cup ids) + 1
          /\ UNCHANGED <<data, meta, foreign, given>>
        BY <1>6, <2>2, Zenon DEF Open
    <3>3. SUFFICES ASSUME ~foreign PROVE Holds(items', next_id', given)
        BY <1>2, <3>2
    <3>4. /\ DOMAIN given \subseteq 0 .. MaxItems - 1
          /\ meta = {encode(id, Orig(id)).meta : id \in DOMAIN given}
        BY <3>3 DEF StoreInv
    <3>5. loaded = {at(id)[1] : id \in DOMAIN given}
        BY <3>4 DEF load
    <3>6. \A id \in DOMAIN given : /\ at(id)[1].id = id
                                   /\ Like(at(id)[1].item, Orig(id))
      <4>1. \A id \in DOMAIN given : at(id) # None
          BY <2>2, <3>4 DEF Loads
      <4> QED
          BY <3>3, <4>1, LoadedIs
    <3> HIDE DEF at, loaded, ids
    <3>7. ids = DOMAIN given
      <4>1. ids = {r.id : r \in loaded}
          BY DEF ids
      <4>2. \A r \in loaded : \E id \in DOMAIN given : r.id = id
          BY <3>5, <3>6
      <4>3. \A id \in DOMAIN given : \E r \in loaded : r.id = id
          BY <3>5, <3>6
      <4> QED
          BY <4>1, <4>2, <4>3
    <3>8. \A id \in DOMAIN given : choice[id] = at(id)[1]
      <4>1. ASSUME NEW id \in DOMAIN given PROVE choice[id] = at(id)[1]
        <5>1. choice[id] \in loaded /\ choice[id].id = id
            BY <3>1, <3>7, <4>1
        <5>2. PICK k \in DOMAIN given : choice[id] = at(k)[1]
            BY <3>5, <5>1
        <5>3. k = id
            BY <3>6, <5>1, <5>2
        <5> QED
            BY <5>2, <5>3
      <4> QED
          BY <4>1
    <3>9. \A id \in DOMAIN given : id < next_id'
      <4> DEFINE S == {-1} \cup DOMAIN given
      <4>1. IsFiniteSet(S)
        <5>1. IsFiniteSet({-1})
            BY FS_Singleton
        <5>2. IsFiniteSet(DOMAIN given)
          <6>1. MaxItems \in Nat
              BY ValuesAssumption
          <6>2. IsFiniteSet(0 .. MaxItems - 1)
            <7>1. 0 \in Int /\ MaxItems - 1 \in Int
                BY <6>1
            <7> QED
                BY <7>1, FS_Interval
          <6> QED
              BY <3>4, <6>2, FS_Subset
        <5> QED
            BY <5>1, <5>2, FS_Union
      <4>2. S \in SUBSET Int /\ S # {}
          BY <3>4
      <4>3. next_id' = Max(S) + 1
          BY <3>2, <3>7
      <4>4. DOMAIN given \subseteq S
          OBVIOUS
      <4> HIDE DEF S
      <4>5. Max(S) \in S /\ \A y \in S : Max(S) >= y
          BY <4>1, <4>2, MaxIs
      <4>6. PICK n \in Int : next_id' = n + 1 /\ \A y \in S : n >= y
          BY <4>2, <4>3, <4>5, Zenon
      <4>7. DOMAIN given \subseteq Int
          BY <4>2, <4>4
      <4>8. \A id \in Int : n >= id => id < n + 1
          OBVIOUS
      <4> QED
          BY <4>4, <4>6, <4>7, <4>8, Zenon
    <3>10. /\ DOMAIN items' = DOMAIN given
           /\ \A id \in DOMAIN given : Like(items'[id], Build(given[id]).ok)
        BY <3>1, <3>6, <3>7, <3>8 DEF Orig
    <3> QED
        BY <3>9, <3>10 DEF Holds
  <2> QED
      BY <2>1, <2>2
<1>7. CASE Close
    BY <1>2, <1>7 DEF Close
<1>8. ASSUME NEW m \in ForeignMeta, ForeignWrite(m) PROVE IndexInv'
    BY <1>2, <1>8 DEF ForeignWrite
<1>9. CASE Kept
    BY <1>3, <1>9 DEF Kept
<1> QED
    BY <1>4, <1>5, <1>6, <1>7, <1>8, <1>9 DEF Effect

ValuesInv == AddInv /\ FiniteInv /\ StoreInv /\ IndexInv

LEMMA ValuesInvariant == Spec => []ValuesInv
<1>1. Init => ValuesInv
    BY FS_EmptySet DEF Init, ValuesInv, AddInv, FiniteInv, StoreInv, IndexInv, NoItems
<1>2. ValuesInv /\ [Next]_vars => ValuesInv'
    BY AddStep, StepIs, FiniteStep, StoreStep, IndexStep DEF ValuesInv, FiniteInv
<1> QED
    BY <1>1, <1>2, PTL DEF Spec

\* What a step may add, and what the store and the index hold after it.
WholeStep ==
    /\ \/ DOMAIN given' \subseteq DOMAIN given
       \/ /\ add # None
          /\ DOMAIN given' = DOMAIN given \cup (next_id .. next_id + Len(Call.calls) - 1)
    /\ ~foreign' =>
          /\ data' = UNION {WrittenBy(id, given'[id]).data : id \in DOMAIN given'}
          /\ meta' = {WrittenBy(id, given'[id]).meta : id \in DOMAIN given'}
          /\ open' => DOMAIN items' = DOMAIN given'

LEMMA StepIsWhole ==
    ASSUME ValuesInv, ValuesInv', [Next]_vars
    PROVE  WholeStep
<1>1. Effect
    BY StepIs DEF ValuesInv, FiniteInv
<1>2. ASSUME add # None, Call.calls \in Batches, Added(Call.calls)
      PROVE  DOMAIN given' = DOMAIN given \cup (next_id .. next_id + Len(Call.calls) - 1)
  <2> DEFINE b == Built(Call.calls).ok
             ids == next_id .. next_id + Len(b) - 1
             at(id) == id - next_id + 1
  <2>1. IsOk(Built(Call.calls))
        /\ given' = [id \in ids \cup DOMAIN given |->
                       IF id \in ids THEN Call.calls[at(id)] ELSE given[id]]
      BY <1>2, Zenon DEF Added
  <2>2. Len(b) = Len(Call.calls)
      BY <1>2, <2>1, BuiltLen
  <2>3. DOMAIN given' = ids \cup DOMAIN given
    <3> HIDE DEF ids, at
    <3> QED
        BY <2>1
  <2> QED
      BY <2>2, <2>3
<1>3. ASSUME NEW id \in DOMAIN items, Deletes(id) PROVE DOMAIN given' \subseteq DOMAIN given
    BY <1>3 DEF Deletes
<1>4. ASSUME Kept \/ Close \/ Open \/ \E m \in ForeignMeta : ForeignWrite(m)
      PROVE  given' = given
    BY <1>4, Zenon DEF Kept, Close, Open, Fails, ForeignWrite
<1>5. \/ DOMAIN given' \subseteq DOMAIN given
      \/ /\ add # None
         /\ DOMAIN given' = DOMAIN given \cup (next_id .. next_id + Len(Call.calls) - 1)
  <2>1. given' = given => DOMAIN given' \subseteq DOMAIN given
      OBVIOUS
  <2> QED
      BY <1>1, <1>2, <1>3, <1>4, <2>1, Zenon DEF Effect
<1>6. ASSUME ~foreign'
      PROVE  /\ data' = UNION {WrittenBy(id, given'[id]).data : id \in DOMAIN given'}
             /\ meta' = {WrittenBy(id, given'[id]).meta : id \in DOMAIN given'}
             /\ open' => DOMAIN items' = DOMAIN given'
  <2>1. /\ data' = UNION {Written(id, Orig(id)') : id \in DOMAIN given'}
        /\ meta' = {encode(id, Orig(id)').meta : id \in DOMAIN given'}
        /\ open' => DOMAIN items' = DOMAIN given'
      BY <1>6 DEF ValuesInv, StoreInv, IndexInv
  <2>2. \A id : /\ WrittenBy(id, given'[id]).data = Written(id, Orig(id)')
                /\ WrittenBy(id, given'[id]).meta = encode(id, Orig(id)').meta
      BY DEF WrittenBy, Written, Orig
  <2> QED
      BY <2>1, <2>2
<1> QED
    BY <1>5, <1>6 DEF WholeStep

\* "Either every item is added or none is": whatever refuses or interrupts an
\* add_batch, its items come all together, and the store and the index hold
\* exactly the items that were added and not removed, each with all its quads.
THEOREM BatchesAreAddedWhole == Spec => AddsAllOrNothing
<1>1. ValuesInv /\ ValuesInv' /\ [Next]_vars => [WholeStep]_vars
    BY StepIsWhole
<1>2. AddsAllOrNothing <=> [][WholeStep]_vars
    BY DEF AddsAllOrNothing, WholeStep
<1> QED
    BY <1>1, <1>2, ValuesInvariant, PTL DEF Spec

-----------------------------------------------------------------------------
(* Bodies, back and forth *)

StepFromPy(s) == [s EXCEPT !.key = IF @ = None THEN None ELSE Some(@[1].str)]
StepToPy(s) == [s EXCEPT !.key = IF @ = None THEN None ELSE Some(PyStr(@[1]))]

\* A step with a key that was converted is read back.
LEMMA StepReadsBack ==
    ASSUME NEW s, IsStep(s), IsOk(key_from_py(s))
    PROVE  StepToPy(StepFromPy(s)) = s
<1>1. s = [at |-> s.at, key |-> s.key]
    BY DEF IsStep
<1>2. \A a, k : /\ StepFromPy([at |-> a, key |-> k])
                     = [at |-> a, key |-> IF k = None THEN None ELSE Some(k[1].str)]
                /\ StepToPy([at |-> a, key |-> k])
                     = [at |-> a, key |-> IF k = None THEN None ELSE Some(PyStr(k[1]))]
    BY DEF StepFromPy, StepToPy
<1>3. s.key = None \/ s.key[1].py = "str"
    BY Results DEF key_from_py
<1>4. CASE s.key = None
  <2>1. StepFromPy(s) = [at |-> s.at, key |-> None]
      BY <1>1, <1>2, <1>4
  <2> QED
      BY <1>1, <1>2, <1>4, <2>1
<1>5. CASE s.key # None
  <2> DEFINE t == s.key[1].str
  <2>1. s.key = Some(PyStr(t))
      BY <1>3, <1>5 DEF IsStep
  <2>2. Some(t) # None /\ Some(t)[1] = t
      BY DEF Some, None
  <2> HIDE DEF t
  <2>3. StepFromPy(s) = [at |-> s.at, key |-> Some(t)]
      BY <1>1, <1>2, <1>5 DEF t
  <2>4. StepToPy(StepFromPy(s)) = [at |-> s.at, key |-> Some(PyStr(t))]
      BY <1>2, <2>2, <2>3
  <2> QED
      BY <1>1, <2>1, <2>4
<1> QED
    BY <1>4, <1>5

\* What a part of a body is for a JSON reader.
Plain(o) == IF o.py = "tuple" THEN [py |-> "list"] ELSE o
RereadNode(n) == IF n.json = "float" THEN Float(Reparse(n.float)) ELSE n
ReparsedNode(o) == IF o.py = "float" THEN PyFloat(Reparse(o.float)) ELSE o

LEMMA PartReadsBack ==
    ASSUME NEW o, IsNode(o), IsOk(node_from_py(o))
    PROVE  LET n == node_from_py(o).ok
           IN  /\ node_to_py(n) = Plain(o)
               /\ node_to_py(RereadNode(n)) = Plain(ReparsedNode(o))
               /\ n \in Nesting <=> o \in PyNesting
<1> DEFINE n == node_from_py(o).ok
<1>1. CASE o.py \in {"list", "tuple"}
  <2>1. node_from_py(o) = Ok([json |-> "array"]) /\ o = [py |-> o.py]
      BY <1>1 DEF node_from_py, IsNode
  <2>2. n = [json |-> "array"]
      BY <2>1, Results
  <2> HIDE DEF n
  <2>3. node_to_py(n) = [py |-> "list"] /\ RereadNode(n) = n /\ n \in Nesting
      BY <2>2 DEF node_to_py, RereadNode, Nesting
  <2>4. Plain(o) = [py |-> "list"] /\ ReparsedNode(o) = o /\ o \in PyNesting
      BY <1>1, <2>1 DEF Plain, ReparsedNode, PyNesting
  <2> QED
      BY <2>3, <2>4 DEF n
<1>2. CASE o.py = "dict"
  <2>1. node_from_py(o) = Ok([json |-> "object"]) /\ o = [py |-> "dict"]
      BY <1>2 DEF node_from_py, IsNode
  <2>2. n = [json |-> "object"]
      BY <2>1, Results
  <2> HIDE DEF n
  <2>3. node_to_py(n) = [py |-> "dict"] /\ RereadNode(n) = n /\ n \in Nesting
      BY <2>2 DEF node_to_py, RereadNode, Nesting
  <2>4. Plain(o) = o /\ ReparsedNode(o) = o /\ o \in PyNesting
      BY <1>2, <2>1 DEF Plain, ReparsedNode, PyNesting
  <2> QED
      BY <2>1, <2>3, <2>4 DEF n
<1>3. CASE o.py \notin {"list", "tuple", "dict"}
  <2>1. node_from_py(o) = scalar_from_py(o)
      BY <1>3 DEF node_from_py
  <2>2. o \notin PyNesting
      BY <1>3 DEF PyNesting
  <2>3. CASE o.py = "None"
    <3>1. scalar_from_py(o) = Ok(Null) /\ o = PyNone
        BY <2>3 DEF scalar_from_py, IsNode
    <3>2. n = Null
        BY <2>1, <3>1, Results
    <3> HIDE DEF n
    <3>3. node_to_py(n) = PyNone /\ RereadNode(n) = n /\ n \notin Nesting
        BY <3>2 DEF node_to_py, RereadNode, Nesting, Null
    <3> QED
        BY <2>2, <2>3, <3>1, <3>3 DEF Plain, ReparsedNode, n
  <2>4. CASE o.py = "bool"
    <3>1. scalar_from_py(o) = Ok(Bool(o.bool)) /\ o = PyBool(o.bool)
        BY <2>4 DEF scalar_from_py, IsNode
    <3>2. n = Bool(o.bool)
        BY <2>1, <3>1, Results
    <3> HIDE DEF n
    <3>3. node_to_py(n) = PyBool(o.bool) /\ RereadNode(n) = n /\ n \notin Nesting
        BY <3>2 DEF node_to_py, RereadNode, Nesting, Bool
    <3> QED
        BY <2>2, <2>4, <3>1, <3>3 DEF Plain, ReparsedNode, n
  <2>5. CASE o.py = "int"
    <3>1. scalar_from_py(o) = Ok(Integer(o.int)) /\ o = PyInt(o.int)
        BY <2>1, <2>5, Results DEF scalar_from_py, IsNode
    <3>2. n = Integer(o.int)
        BY <2>1, <3>1, Results
    <3> HIDE DEF n
    <3>3. node_to_py(n) = PyInt(o.int) /\ RereadNode(n) = n /\ n \notin Nesting
        BY <3>2 DEF node_to_py, RereadNode, Nesting, Integer
    <3> QED
        BY <2>2, <2>5, <3>1, <3>3 DEF Plain, ReparsedNode, n
  <2>6. CASE o.py = "float"
    <3>1. scalar_from_py(o) = Ok(Float(o.float)) /\ o = PyFloat(o.float)
        BY <2>1, <2>6, Results DEF scalar_from_py, IsNode
    <3>2. n = Float(o.float)
        BY <2>1, <3>1, Results
    <3> HIDE DEF n
    <3>3. \A f : node_to_py(Float(f)) = PyFloat(f) /\ Float(f) \notin Nesting
        BY DEF node_to_py, Nesting, Float
    <3>4. RereadNode(n) = Float(Reparse(o.float))
        BY <3>2 DEF RereadNode, Float
    <3>5. \A f : Plain(PyFloat(f)) = PyFloat(f)
        BY DEF Plain, PyFloat
    <3>6. ReparsedNode(o) = PyFloat(Reparse(o.float))
        BY <2>6 DEF ReparsedNode
    <3> QED
        BY <2>2, <3>1, <3>2, <3>3, <3>4, <3>5, <3>6 DEF n
  <2>7. CASE o.py = "str"
    <3>1. scalar_from_py(o) = Ok(Str(o.str)) /\ o = PyStr(o.str)
      <4>1. scalar_from_py(o) = IF IsOk(to_str(o.str)) THEN Ok(Str(o.str)) ELSE to_str(o.str)
          BY <2>7 DEF scalar_from_py
      <4> QED
          BY <2>1, <2>7, <4>1 DEF IsNode
    <3>2. n = Str(o.str)
        BY <2>1, <3>1, Results
    <3> HIDE DEF n
    <3>3. node_to_py(n) = PyStr(o.str) /\ RereadNode(n) = n /\ n \notin Nesting
        BY <3>2 DEF node_to_py, RereadNode, Nesting, Str
    <3> QED
        BY <2>2, <2>7, <3>1, <3>3 DEF Plain, ReparsedNode, n
  <2>8. CASE o.py \notin {"None", "bool", "int", "float", "str"}
    <3>1. scalar_from_py(o) = Raise("TypeError")
        BY <2>8 DEF scalar_from_py
    <3> QED
        BY <2>1, <3>1, Results
  <2> QED
      BY <2>3, <2>4, <2>5, <2>6, <2>7, <2>8
<1> QED
    BY <1>1, <1>2, <1>3

\* A path with keys that were all converted is read back.
LEMMA PathReadsBack ==
    ASSUME NEW body, IsBody(body), \A p \in DOMAIN body : IsOk(PartFromPy(body, p)),
           NEW q \in DOMAIN body
    PROVE  /\ path_to_py(path_from_py(q)) = q
           /\ IsSeq(q) /\ IsSeq(path_from_py(q)) /\ Len(path_from_py(q)) = Len(q)
           /\ IsOk(node_from_py(body[q]))
<1>1. IsSeq(q) /\ \A i \in DOMAIN q : IsStep(q[i]) /\ SubSeq(q, 1, i) \in DOMAIN body
    BY DEF IsBody
<1>2. DOMAIN q = 1 .. Len(q) /\ Len(q) \in Nat /\ q = [i \in DOMAIN q |-> q[i]]
    BY <1>1, SequenceDomain DEF IsSeq
<1>3. \A p \in DOMAIN body :
          IsOk(node_from_py(body[p])) /\ (p # <<>> => IsOk(key_from_py(Last(p))))
    BY CollectPair DEF PartFromPy
<1>4. ASSUME NEW i \in DOMAIN q PROVE IsOk(key_from_py(q[i]))
  <2> DEFINE pre == SubSeq(q, 1, i)
  <2>1. i \in Nat /\ i >= 1 /\ i \in 0 .. Len(q)
      BY <1>2
  <2>2. pre = [k \in 1 .. i |-> q[k]]
      BY <1>1, <2>1, SubSeqIs
  <2>3. pre \in DOMAIN body
      BY <1>1
  <2> HIDE DEF pre
  <2>4. IsSeq(pre) /\ Len(pre) = i
    <3>1. pre = [k \in 1 .. i |-> pre[k]]
        BY <2>2
    <3> QED
        BY <2>1, <3>1, LenIs
  <2>5. pre # <<>> /\ Last(pre) = q[i]
      BY <2>1, <2>2, <2>4 DEF Last
  <2> QED
      BY <1>3, <2>3, <2>5
<1>5. /\ \A s : StepFromPy(s) = [s EXCEPT !.key = IF @ = None THEN None ELSE Some(@[1].str)]
      /\ \A s : StepToPy(s) = [s EXCEPT !.key = IF @ = None THEN None ELSE Some(PyStr(@[1]))]
    BY Zenon DEF StepFromPy, StepToPy
<1> DEFINE j == [i \in DOMAIN q |-> StepFromPy(q[i])]
<1>6. path_from_py(q) = j
    BY Zenon DEF path_from_py, StepFromPy
<1>7. path_to_py(j) = [i \in DOMAIN j |-> StepToPy(j[i])]
    BY Zenon DEF path_to_py, StepToPy
<1>8. DOMAIN j = DOMAIN q /\ \A i \in DOMAIN q : j[i] = StepFromPy(q[i])
    OBVIOUS
<1>9. \A i \in DOMAIN q : StepToPy(j[i]) = q[i]
    BY <1>1, <1>4, <1>8, StepReadsBack
<1> HIDE DEF j
<1>10. path_to_py(j) = q
    BY <1>2, <1>7, <1>8, <1>9
<1>11. IsSeq(j) /\ Len(j) = Len(q)
  <2>1. j = [i \in 1 .. Len(q) |-> j[i]]
      BY <1>2, <1>8 DEF j
  <2> QED
      BY <1>2, <2>1, LenIs
<1> QED
    BY <1>1, <1>3, <1>6, <1>10, <1>11

\* Bodies of the same parts, but for tuples, mean the same.
LEMMA SameMeaning ==
    ASSUME NEW a, NEW b, DOMAIN a = DOMAIN b, \A p \in DOMAIN b : a[p] = Plain(b[p])
    PROVE  Meaning(a) = Meaning(b)
<1> DEFINE step(s) == IF s.key = None THEN At(s.at) ELSE Under(0, s.key[1])
           steps(p) == [i \in DOMAIN p |-> step(p[i])]
           node(o) == IF o.py = "tuple" THEN [py |-> "list"] ELSE o
<1>1. /\ Meaning(a) = {<<steps(p), node(a[p])>> : p \in DOMAIN a}
      /\ Meaning(b) = {<<steps(p), node(b[p])>> : p \in DOMAIN b}
    BY Zenon DEF Meaning
<1>2. \A o : node(Plain(o)) = node(o)
    BY DEF Plain
<1> HIDE DEF steps, node
<1>3. \A p \in DOMAIN b : node(a[p]) = node(b[p])
    BY <1>2
<1> QED
    BY <1>1, <1>3

\* What a body is converted to means the same when it is shown; so does what is
\* read from its text, but for the floats, which are those of the text.
LEMMA BodyReadsBack ==
    ASSUME NEW body, IsBody(body), IsOk(json_from_py(body))
    PROVE  LET tree == json_from_py(body).ok
           IN  /\ Meaning(json_to_py(tree)) = Meaning(body)
               /\ Meaning(json_to_py(Reread(tree))) = Meaning(Reparsed(body))
               /\ \A path \in DOMAIN tree :
                     tree[path] \in Nesting =>
                        \E p \in DOMAIN body : body[p] \in PyNesting /\ Len(p) = Len(path)
<1> DEFINE tree == json_from_py(body).ok
           D == {path_from_py(q) : q \in DOMAIN body}
<1>1. /\ \A p \in DOMAIN body : IsOk(PartFromPy(body, p))
      /\ tree = [p \in D |-> node_from_py(body[path_to_py(p)]).ok]
  <2>1. CASE \E p \in DOMAIN body : /\ ~IsOk(PartFromPy(body, p))
                                    /\ json_from_py(body) = PartFromPy(body, p)
      BY <2>1
  <2>2. CASE /\ \A p \in DOMAIN body : IsOk(PartFromPy(body, p))
             /\ json_from_py(body)
                  = Ok([p \in D |-> node_from_py(body[path_to_py(p)]).ok])
      BY <2>2, Results, Zenon
  <2> QED
      BY <2>1, <2>2, BodyResult, Zenon
<1>2. \A q \in DOMAIN body : /\ path_to_py(path_from_py(q)) = q
                             /\ Len(path_from_py(q)) = Len(q)
                             /\ IsOk(node_from_py(body[q])) /\ IsNode(body[q])
    BY <1>1, PathReadsBack DEF IsBody
<1> HIDE DEF tree
<1>3. DOMAIN tree = D /\ \A q \in DOMAIN body : tree[path_from_py(q)] = node_from_py(body[q]).ok
    BY <1>1, <1>2
<1>4. ASSUME NEW other, DOMAIN other = D
      PROVE  /\ DOMAIN json_to_py(other) = DOMAIN body
             /\ \A q \in DOMAIN body : json_to_py(other)[q] = node_to_py(other[path_from_py(q)])
  <2> DEFINE E == {path_to_py(q) : q \in DOMAIN other}
  <2>1. json_to_py(other) = [p \in E |-> node_to_py(other[path_from_py(p)])]
      BY Zenon DEF json_to_py
  <2>2. E = DOMAIN body
    <3>1. \A p \in D : \E q \in DOMAIN body : path_to_py(p) = q
        BY <1>2
    <3>2. \A q \in DOMAIN body : \E p \in D : path_to_py(p) = q
        BY <1>2
    <3> QED
        BY <1>4, <3>1, <3>2
  <2> HIDE DEF E
  <2> QED
      BY <2>1, <2>2
<1>5. \A q \in DOMAIN body :
         LET n == node_from_py(body[q]).ok
         IN  /\ node_to_py(n) = Plain(body[q])
             /\ node_to_py(RereadNode(n)) = Plain(ReparsedNode(body[q]))
             /\ n \in Nesting <=> body[q] \in PyNesting
    BY <1>2, PartReadsBack
<1>6. Meaning(json_to_py(tree)) = Meaning(body)
  <2>1. /\ DOMAIN json_to_py(tree) = DOMAIN body
        /\ \A q \in DOMAIN body : json_to_py(tree)[q] = Plain(body[q])
      BY <1>3, <1>4, <1>5
  <2> QED
      BY <2>1, SameMeaning
<1>7. Meaning(json_to_py(Reread(tree))) = Meaning(Reparsed(body))
  <2>1. DOMAIN Reread(tree) = D /\ \A p \in D : Reread(tree)[p] = RereadNode(tree[p])
      BY <1>3 DEF Reread, RereadNode
  <2>2. \A q \in DOMAIN body : Reread(tree)[path_from_py(q)] = RereadNode(node_from_py(body[q]).ok)
      BY <1>3, <2>1
  <2>3. DOMAIN Reparsed(body) = DOMAIN body
        /\ \A q \in DOMAIN body : Reparsed(body)[q] = ReparsedNode(body[q])
      BY DEF Reparsed, ReparsedNode
  <2>4. /\ DOMAIN json_to_py(Reread(tree)) = DOMAIN Reparsed(body)
        /\ \A q \in DOMAIN Reparsed(body) : json_to_py(Reread(tree))[q] = Plain(Reparsed(body)[q])
      BY <1>4, <1>5, <2>1, <2>2, <2>3
  <2> QED
      BY <2>4, SameMeaning
<1>8. ASSUME NEW path \in DOMAIN tree, tree[path] \in Nesting
      PROVE  \E p \in DOMAIN body : body[p] \in PyNesting /\ Len(p) = Len(path)
  <2>1. PICK q \in DOMAIN body : path = path_from_py(q)
      BY <1>3
  <2> QED
      BY <1>2, <1>3, <1>5, <1>8, <2>1
<1> QED
    BY <1>6, <1>7, <1>8 DEF tree

-----------------------------------------------------------------------------
(* Items show what their constructors were given, and stores reopen *)

LEMMA ShownIs ==
    ASSUME NEW item
    PROVE  LET s == Shown(item)
               p == item.payload
           IN  /\ s.payload_type = p.type
               /\ p.type = "triples" =>
                     s.triples = Some([i \in DOMAIN p.triples |-> triple_to_py(p.triples[i])])
               /\ p.type = "event" => /\ s.event_kind = Some(p.kind)
                                      /\ s.event_body = Some(json_to_py(p.body))
               /\ p.type = "chunk" => /\ s.content = Some(p.content)
                                      /\ s.content_type = Some(p.content_type)
               /\ s.provenance = item.provenance /\ s.scope_hint = item.scope_hint
               /\ s.embedding = item.embedding
BY DEF Shown

\* The triples that an item shows.
LEMMA ShownTriples ==
    ASSUME NEW item, item.payload.type = "triples"
    PROVE  Range(Shown(item).triples[1]) = {triple_to_py(q) : q \in Range(item.payload.triples)}
<1> DEFINE ts == item.payload.triples
           f == [i \in DOMAIN ts |-> triple_to_py(ts[i])]
<1>1. Shown(item).triples[1] = f
  <2>1. Shown(item).triples = Some(f)
      BY ShownIs, Zenon
  <2> HIDE DEF f
  <2> QED
      BY <2>1 DEF Some
<1>2. DOMAIN f = DOMAIN ts /\ \A i \in DOMAIN ts : f[i] = triple_to_py(ts[i])
    OBVIOUS
<1> HIDE DEF f, ts
<1>3. Range(f) = {triple_to_py(q) : q \in Range(ts)}
    BY <1>2 DEF Range
<1> QED
    BY <1>1, <1>3 DEF ts

\* What ReadBack says of an item and the call that constructed it.
ShowsGiven(item, call) ==
    LET shown == Shown(item)
        source == IF call.with_provenance # None THEN call.with_provenance[1]
                  ELSE call.provenance
    IN  /\ shown.payload_type = (IF call.ctor = "from_triples" THEN "triples" ELSE call.ctor)
        /\ call.ctor = "from_triples" =>
              {SameTriple(t) : t \in Range(shown.triples[1])}
                  = {SameTriple(t) : t \in Range(Iterated(call.triples))}
        /\ call.ctor = "event" =>
              /\ shown.event_kind = Some(call.kind)
              /\ Meaning(shown.event_body[1]) \in {Meaning(call.body),
                                                  Meaning(Reparsed(call.body))}
        /\ call.ctor = "chunk" =>
              /\ shown.content = Some(call.content)
              /\ shown.content_type = Some(call.content_type)
        /\ shown.provenance = (IF source.py = "str" THEN Provenance(source.str, <<>>)
                               ELSE source.provenance)
        /\ shown.scope_hint = call.scope_hint
        /\ shown.embedding = ToF32(call.embedding)

LEMMA LikeReadsBack ==
    ASSUME NEW call, IsCall(call), NEW orig, OfCall(orig, call), NEW item, Like(item, orig)
    PROVE  ShowsGiven(item, call)
<1> DEFINE shown == Shown(item)
           source == IF call.with_provenance # None THEN call.with_provenance[1]
                     ELSE call.provenance
           p == item.payload
           o == orig.payload
<1>1. /\ p.type = o.type /\ item.provenance = orig.provenance
      /\ item.scope_hint = orig.scope_hint /\ item.embedding = orig.embedding
      /\ o.type = "triples" => Range(p.triples) = Range(o.triples)
      /\ o.type = "event" => p.kind = o.kind /\ p.body \in {o.body, Reread(o.body)}
      /\ o.type = "chunk" => p.content = o.content /\ p.content_type = o.content_type
    BY DEF Like
<1>2. o.type = IF call.ctor = "from_triples" THEN "triples" ELSE call.ctor
    BY PayloadIs
<1>3. /\ shown.payload_type = p.type /\ shown.provenance = item.provenance
      /\ shown.scope_hint = item.scope_hint /\ shown.embedding = item.embedding
      /\ p.type = "event" => /\ shown.event_kind = Some(p.kind)
                             /\ shown.event_body = Some(json_to_py(p.body))
      /\ p.type = "chunk" => /\ shown.content = Some(p.content)
                             /\ shown.content_type = Some(p.content_type)
    BY ShownIs
<1>4. /\ orig.scope_hint = call.scope_hint /\ orig.embedding = ToF32(call.embedding)
      /\ orig.provenance = IF source.py = "str" THEN Provenance(source.str, <<>>)
                           ELSE source.provenance
    BY DEF OfCall
<1>5. ASSUME call.ctor = "from_triples"
      PROVE  {SameTriple(t) : t \in Range(shown.triples[1])}
                 = {SameTriple(t) : t \in Range(Iterated(call.triples))}
  <2> DEFINE its == Iterated(call.triples)
             Of(q) == SameTriple(triple_to_py(q))
  <2>1. /\ DOMAIN o.triples = DOMAIN its
        /\ \A i \in DOMAIN its : Of(o.triples[i]) = SameTriple(its[i])
      BY <1>2, <1>5, PayloadIs
  <2>2. Range(shown.triples[1]) = {triple_to_py(q) : q \in Range(o.triples)}
      BY <1>1, <1>2, <1>5, ShownTriples
  <2>3. {SameTriple(t) : t \in Range(shown.triples[1])} = {Of(q) : q \in Range(o.triples)}
    <3> HIDE DEF shown
    <3> QED
        BY <2>2
  <2> HIDE DEF Of, its, shown
  <2>4. {Of(q) : q \in Range(o.triples)} = {SameTriple(t) : t \in Range(its)}
      BY <2>1 DEF Range
  <2> QED
      BY <2>3, <2>4 DEF its
<1>6. ASSUME call.ctor = "event"
      PROVE  /\ shown.event_kind = Some(call.kind)
             /\ Meaning(shown.event_body[1]) \in {Meaning(call.body), Meaning(Reparsed(call.body))}
  <2> DEFINE tree == json_from_py(call.body).ok
  <2>1. o = Event(call.kind, tree) /\ IsOk(json_from_py(call.body)) /\ IsBody(call.body)
      BY <1>6 DEF OfCall, IsCall
  <2>2. o.kind = call.kind /\ o.body = tree
    <3> HIDE DEF tree
    <3> QED
        BY <2>1 DEF Event
  <2>3. /\ Meaning(json_to_py(tree)) = Meaning(call.body)
        /\ Meaning(json_to_py(Reread(tree))) = Meaning(Reparsed(call.body))
      BY <2>1, BodyReadsBack
  <2> HIDE DEF tree
  <2>4. p.kind = call.kind /\ p.body \in {tree, Reread(tree)}
      BY <1>1, <1>2, <1>6, <2>2
  <2>5. Meaning(json_to_py(p.body)) \in {Meaning(call.body), Meaning(Reparsed(call.body))}
      BY <2>3, <2>4
  <2>6. shown.event_body[1] = json_to_py(p.body)
      BY <1>1, <1>2, <1>3, <1>6 DEF Some
  <2> QED
      BY <1>1, <1>2, <1>3, <1>6, <2>4, <2>5, <2>6
<1>7. ASSUME call.ctor = "chunk"
      PROVE  shown.content = Some(call.content) /\ shown.content_type = Some(call.content_type)
  <2>1. o = Chunk(call.content, call.content_type)
      BY <1>7 DEF OfCall
  <2>2. o.content = call.content /\ o.content_type = call.content_type
      BY <2>1 DEF Chunk
  <2> QED
      BY <1>1, <1>2, <1>3, <1>7, <2>2
<1> HIDE DEF shown, source
<1>8. /\ shown.payload_type = (IF call.ctor = "from_triples" THEN "triples" ELSE call.ctor)
      /\ shown.provenance = (IF source.py = "str" THEN Provenance(source.str, <<>>)
                             ELSE source.provenance)
      /\ shown.scope_hint = call.scope_hint
      /\ shown.embedding = ToF32(call.embedding)
    BY <1>1, <1>2, <1>3, <1>4
<1> QED
    BY <1>5, <1>6, <1>7, <1>8, Zenon DEF ShowsGiven, shown, source

\* An item shows what its constructor was given, for as long as no other program
\* writes to the store: the triples as a set, a body as JSON means it, and the
\* rest as it was, however often the store has been closed and opened again.
THEOREM ItemsReadBack == Spec => []ReadBack
<1>1. ValuesInv => ReadBack
  <2> SUFFICES ASSUME ValuesInv, open, ~foreign, NEW id \in DOMAIN items
               PROVE  ShowsGiven(items[id], given[id])
      BY Zenon DEF ReadBack, ShowsGiven
  <2>1. id \in DOMAIN given /\ Like(items[id], Orig(id)) /\ Accepted(id, given[id])
      BY DEF ValuesInv, StoreInv, IndexInv
  <2>2. IsCall(given[id]) /\ OfCall(Orig(id), given[id])
      BY <2>1 DEF Accepted, Orig
  <2> QED
      BY <2>1, <2>2, LikeReadsBack
<1> QED
    BY <1>1, ValuesInvariant, PTL

\* The bodies that a program passes nest no deeper than serde_json reads, in the
\* payload of a record.
ShallowBodies ==
    \A batch \in Batches : \A i \in DOMAIN batch :
        batch[i].ctor = "event" =>
            \A path \in DOMAIN batch[i].body :
                batch[i].body[path] \in PyNesting => ~(2 + Len(path) + 1 > MaxDepth)

\* "The layout lets a Session rebuild its index from a persistent store on
\* open": every item that was accepted loads, if no event body is too deep for
\* the reader of JSON.  Nothing checks that when an item is added.
THEOREM ShallowStoresReopen ==
    ASSUME ShallowBodies
    PROVE  Spec => []Reopens
<1>1. ValuesInv => Reopens
  <2> SUFFICES ASSUME ValuesInv, ~foreign, NEW m \in meta
               PROVE  LoadRecord(data, m) # None
      BY DEF Reopens, Loads
  <2>1. PICK id \in DOMAIN given : m = encode(id, Orig(id)).meta
      BY DEF ValuesInv, StoreInv
  <2> DEFINE call == given[id]
             item == Orig(id)
  <2>2. Accepted(id, call)
      BY DEF ValuesInv, StoreInv
  <2>3. IsCall(call) /\ OfCall(item, call) /\ \E batch \in Batches : \E i \in DOMAIN batch : call = batch[i]
      BY <2>2 DEF Accepted, Orig
  <2>4. \A k \in DOMAIN item.embedding[1] :
           item.embedding # None => Finite(item.embedding[1][k])
      BY <2>2 DEF Accepted, Orig
  <2> HIDE DEF item, call
  <2>5. ~TooDeep(Serialize(item))
    <3>1. SUFFICES ASSUME item.payload.type = "event", NEW path \in DOMAIN item.payload.body,
                          item.payload.body[path] \in Nesting, 2 + Len(path) + 1 > MaxDepth
                   PROVE  FALSE
      <4>1. item.payload.type \in {"triples", "event", "chunk"}
          BY <2>3, PayloadIs
      <4>2. IsIds(item.provenance.derived_from)
          BY <2>3 DEF OfCall
      <4>3. item.embedding # None => \A k \in DOMAIN item.embedding[1] : Finite(item.embedding[1][k])
          BY <2>4
      <4>4. TooDeep(Serialize(item)) <=>
               /\ item.payload.type = "event"
               /\ \E path \in DOMAIN item.payload.body :
                     item.payload.body[path] \in Nesting /\ 2 + Len(path) + 1 > MaxDepth
          BY <4>1, <4>2, <4>3, TextIsRecord
      <4> QED
          BY <4>4
    <3> DEFINE tree == json_from_py(call.body).ok
    <3>2. call.ctor = "event"
        BY <2>3, <3>1, PayloadIs
    <3>3. item.payload = Event(call.kind, tree) /\ IsOk(json_from_py(call.body)) /\ IsBody(call.body)
        BY <2>3, <3>2 DEF OfCall, IsCall
    <3> HIDE DEF tree
    <3>4. item.payload.body = tree
        BY <3>3 DEF Event
    <3>5. PICK p \in DOMAIN call.body : call.body[p] \in PyNesting /\ Len(p) = Len(path)
        BY <3>1, <3>3, <3>4, BodyReadsBack DEF tree
    <3>6. ~(2 + Len(p) + 1 > MaxDepth)
        BY <2>3, <3>2, <3>5, Zenon DEF ShallowBodies
    <3> QED
        BY <3>1, <3>5, <3>6
  <2> QED
      BY <2>1, <2>5, LoadedIs DEF ValuesInv, item
<1> QED
    BY <1>1, ValuesInvariant, PTL

-----------------------------------------------------------------------------
(* What a query finds *)

\* The terms of a quad that was accepted are stored as they are, but for the
\* object, which can be told from the way that it is stored.
LEMMA AcceptedTerms ==
    ASSUME NEW q \in CoreQuads, quad_to_ox(q) # Refused
    PROVE  LET e == Encode(quad_to_ox(q))
           IN  /\ e.subject = q.subject /\ e.predicate = q.predicate
               /\ e.object = EncodeTerm(q.object)
               /\ subject_to_ox(q.subject) = q.subject /\ q.subject # Refused
               /\ named_to_ox(q.predicate) = q.predicate /\ q.predicate # Refused
               /\ term_to_ox(q.object) = q.object /\ q.object # Refused
<1>1. /\ subject_to_ox(q.subject) # Refused /\ named_to_ox(q.predicate) # Refused
      /\ term_to_ox(q.object) # Refused
      /\ quad_to_ox(q) = [subject |-> subject_to_ox(q.subject),
                          predicate |-> named_to_ox(q.predicate),
                          object |-> term_to_ox(q.object), graph |-> graph_to_ox(q.graph)]
    BY DEF quad_to_ox
<1>2. subject_to_ox(q.subject) = q.subject
    BY <1>1, NodeReadsBack DEF CoreQuads, Nodes
<1>3. named_to_ox(q.predicate) = q.predicate
    BY <1>1 DEF named_to_ox
<1>4. term_to_ox(q.object) = q.object
    BY <1>1 DEF term_to_ox, literal_to_ox, subject_to_ox, named_to_ox, blank_to_ox
<1> QED
    BY <1>1, <1>2, <1>3, <1>4 DEF Encode

\* A term that Oxigraph can hold is known by the way that it is stored.
LEMMA StoredTerm ==
    ASSUME NEW t \in Terms, term_to_ox(t) # Refused
    PROVE  term_to_ox(t) = t /\ term_from_ox(DecodeTerm(EncodeTerm(t))) = t
<1>1. CASE t \in Literals
  <2>1. t.term = "literal"
      BY <1>1, LiteralFromOx
  <2> QED
      BY <1>1, <2>1, LiteralReadsBack DEF term_to_ox
<1>2. CASE t \in Nodes
  <2>1. t.term # "literal"
      BY <1>2, NodeToPy
  <2> QED
      BY <1>2, <2>1, NodeReadsBack DEF term_to_ox
<1> QED
    BY <1>1, <1>2 DEF Terms

\* Whether a stored quad has the terms of the pattern.
Fits(e, pattern) ==
    /\ pattern.subject # None => e.subject = subject_to_ox(pattern.subject[1])
    /\ pattern.predicate # None => e.predicate = named_to_ox(pattern.predicate[1])
    /\ pattern.object # None => LET o == term_to_ox(pattern.object[1])
                                IN  o # Refused /\ e.object = EncodeTerm(o)

\* Whether an asked term is left open or the same as the one shown.
Asks(asked, shown) == asked = PyNone \/ SameTerm(asked) = SameTerm(shown)

\* A pattern is matched by the Python equality of the terms that are shown.
LEMMA PatternMatches ==
    ASSUME NEW call \in QueryCalls, call.kind \in {"pattern", "inference"}, IsOk(Query(call)),
           NEW q \in CoreQuads, quad_to_ox(q) # Refused
    PROVE  Fits(Encode(quad_to_ox(q)), Query(call).ok.pattern) <=>
              /\ Asks(call.subject, subject_to_py(q.subject))
              /\ Asks(call.predicate, subject_to_py(q.predicate))
              /\ Asks(call.object, object_to_py(q.object))
<1> DEFINE a == Asked(call.subject, subject_from_py(call.subject))
           b == Asked(call.predicate, predicate_from_py(call.predicate))
           c == Asked(call.object, object_from_py(call.object))
           e == Encode(quad_to_ox(q))
           pattern == Query(call).ok.pattern
<1>1. IsTerm(call.subject) /\ IsTerm(call.predicate) /\ IsTerm(call.object)
    BY ValuesAssumption DEF IsQuery
<1>2. /\ IsOk(a) /\ IsOk(b) /\ IsOk(c)
      /\ pattern = [subject |-> a.ok, predicate |-> b.ok, object |-> c.ok]
    BY <1>1, QueryIs, PatternFromPy
<1>3. /\ pattern.subject = a.ok /\ pattern.predicate = b.ok /\ pattern.object = c.ok
  <2> HIDE DEF a, b, c, pattern
  <2> QED
      BY <1>2
<1>4. /\ q.subject \in Nodes /\ q.predicate \in NamedNodes /\ q.object \in Terms
    BY DEF CoreQuads, Nodes, Terms
<1>5. /\ e.subject = q.subject /\ e.predicate = q.predicate
      /\ e.object = EncodeTerm(q.object)
      /\ subject_to_ox(q.subject) = q.subject /\ q.subject # Refused
      /\ named_to_ox(q.predicate) = q.predicate /\ q.predicate # Refused
      /\ term_to_ox(q.object) = q.object /\ q.object # Refused
    BY AcceptedTerms
<1>6. \A x : Some(x) # None /\ Some(x)[1] = x
    BY DEF Some, None
<1> HIDE DEF e, pattern
<1>7. (pattern.subject # None => e.subject = subject_to_ox(pattern.subject[1]))
         <=> Asks(call.subject, subject_to_py(q.subject))
  <2>1. CASE call.subject = PyNone /\ a.ok = None
      BY <1>3, <2>1 DEF Asks
  <2>2. CASE call.subject # PyNone /\ IsOk(subject_from_py(call.subject))
             /\ a.ok = Some(subject_from_py(call.subject).ok)
    <3> DEFINE s == subject_from_py(call.subject).ok
    <3>1. s \in Nodes /\ subject_to_py(s) = call.subject
        BY <1>1, <2>2, SubjectFromPy
    <3>2. pattern.subject # None /\ pattern.subject[1] = s
        BY <1>3, <1>6, <2>2
    <3> HIDE DEF s
    <3>3. q.subject = subject_to_ox(s) <=> q.subject = s
      <4>1. subject_to_ox(s) = s \/ subject_to_ox(s) = Refused
          BY DEF subject_to_ox, named_to_ox, blank_to_ox
      <4> QED
          BY <1>5, <4>1
    <3>4. SameTerm(call.subject) = SameTerm(subject_to_py(q.subject)) <=> q.subject = s
        BY <1>4, <3>1, NodeToPy
    <3> QED
        BY <1>5, <2>2, <3>2, <3>3, <3>4 DEF Asks
  <2>3. Sound(subject_from_py(call.subject))
      BY <1>1, SubjectFromPy
  <2> QED
      BY <1>2, <2>1, <2>2, <2>3, AskedIs
<1>8. (pattern.predicate # None => e.predicate = named_to_ox(pattern.predicate[1]))
         <=> Asks(call.predicate, subject_to_py(q.predicate))
  <2>1. CASE call.predicate = PyNone /\ b.ok = None
      BY <1>3, <2>1 DEF Asks
  <2>2. CASE call.predicate # PyNone /\ IsOk(predicate_from_py(call.predicate))
             /\ b.ok = Some(predicate_from_py(call.predicate).ok)
    <3> DEFINE s == predicate_from_py(call.predicate).ok
    <3>1. s \in NamedNodes /\ subject_to_py(s) = call.predicate
        BY <1>1, <2>2, PredicateFromPy
    <3>2. pattern.predicate # None /\ pattern.predicate[1] = s
        BY <1>3, <1>6, <2>2
    <3> HIDE DEF s
    <3>3. q.predicate = named_to_ox(s) <=> q.predicate = s
      <4>1. named_to_ox(s) = s \/ named_to_ox(s) = Refused
          BY DEF named_to_ox
      <4> QED
          BY <1>5, <4>1
    <3>4. SameTerm(call.predicate) = SameTerm(subject_to_py(q.predicate)) <=> q.predicate = s
        BY <1>4, <3>1, NodeToPy DEF Nodes
    <3> QED
        BY <1>5, <2>2, <3>2, <3>3, <3>4 DEF Asks
  <2>3. Sound(predicate_from_py(call.predicate))
      BY <1>1, PredicateFromPy
  <2> QED
      BY <1>2, <2>1, <2>2, <2>3, AskedIs
<1>9. (pattern.object # None => LET o == term_to_ox(pattern.object[1])
                                IN  o # Refused /\ e.object = EncodeTerm(o))
         <=> Asks(call.object, object_to_py(q.object))
  <2>1. CASE call.object = PyNone /\ c.ok = None
      BY <1>3, <2>1 DEF Asks
  <2>2. CASE call.object # PyNone /\ IsOk(object_from_py(call.object))
             /\ c.ok = Some(object_from_py(call.object).ok)
    <3> DEFINE t == object_from_py(call.object).ok
    <3>1. t \in Terms /\ SameTerm(object_to_py(t)) = SameTerm(call.object)
        BY <1>1, <2>2, ObjectFromPy
    <3>2. pattern.object # None /\ pattern.object[1] = t
        BY <1>3, <1>6, <2>2
    <3> HIDE DEF t
    <3>3. (term_to_ox(t) # Refused /\ e.object = EncodeTerm(term_to_ox(t))) <=> q.object = t
      <4>1. ASSUME term_to_ox(t) # Refused, e.object = EncodeTerm(term_to_ox(t))
            PROVE  q.object = t
        <5>1. term_to_ox(t) = t /\ term_from_ox(DecodeTerm(EncodeTerm(t))) = t
            BY <3>1, <4>1, StoredTerm
        <5>2. term_from_ox(DecodeTerm(EncodeTerm(q.object))) = q.object
            BY <1>4, <1>5, StoredTerm
        <5>3. EncodeTerm(q.object) = EncodeTerm(t)
            BY <1>5, <4>1, <5>1
        <5> QED
            BY <5>1, <5>2, <5>3
      <4> QED
          BY <1>5, <4>1
    <3>4. SameTerm(call.object) = SameTerm(object_to_py(q.object)) <=> q.object = t
        BY <1>4, <3>1, ObjectToPyInjective
    <3> QED
        BY <2>2, <3>2, <3>3, <3>4 DEF Asks
  <2>3. Sound(object_from_py(call.object))
      BY <1>1, ObjectFromPy
  <2> QED
      BY <1>2, <2>1, <2>2, <2>3, AskedIs
<1> QED
    BY <1>7, <1>8, <1>9 DEF Fits, e, pattern

\* A query that succeeds is one for a pattern, in the enduring tier or nowhere.
LEMMA AnswerIs ==
    ASSUME NEW call \in QueryCalls, IsOk(Answer(call)), call.limit = None
    PROVE  /\ call.kind = "pattern" /\ IsOk(Query(call))
           /\ Answer(call).ok
                = IF Enduring \in SelectedScopes(Query(call).ok.scopes)
                  THEN (UNION {parse_item_graph(e.graph) : e \in Matching(Query(call).ok.pattern)})
                       \cap DOMAIN items
                  ELSE {}
<1> DEFINE q == Query(call).ok
           missing == IF q.kind = "sparql" THEN Some("Sparql")
                      ELSE IF q.kind = "similarity" THEN Some("AnnIndex")
                      ELSE IF q.kind = "inference" \/ q.reasoner_hint # NoScope
                      THEN Some("OwlElReasoner") ELSE None
           found == (UNION {parse_item_graph(e.graph) : e \in Matching(q.pattern)}) \cap DOMAIN items
           hits == IF Enduring \in SelectedScopes(q.scopes) THEN found ELSE {}
           within(id) == q.limit = None \/ Cardinality({h \in hits : h < id}) < q.limit[1]
           failure == to_py_err([error |-> "NotYetImplemented", what |-> missing[1]])
<1>1. IsOk(Query(call)) /\ Answer(call) = Ask(q)
    BY Zenon DEF Answer
<1>2. Ask(q) = IF missing # None THEN failure ELSE Ok({id \in hits : within(id)})
    BY Zenon DEF Ask
<1>3. q.kind = call.kind /\ q.limit = None
    BY <1>1, QueryIs
<1>4. call.kind \in {"pattern", "sparql", "similarity", "inference"}
    BY ValuesAssumption DEF IsQuery
<1>5. ~IsOk(failure)
  <2>1. ASSUME NEW e, e.error = "NotYetImplemented"
        PROVE  to_py_err(e) = [raised |-> "NotYetImplementedError", feature |-> feature_name(e.what)]
      BY <2>1, Zenon DEF to_py_err
  <2> DEFINE e == [error |-> "NotYetImplemented", what |-> missing[1]]
  <2>2. e.error = "NotYetImplemented"
      OBVIOUS
  <2> HIDE DEF e
  <2>3. to_py_err(e) = [raised |-> "NotYetImplementedError", feature |-> feature_name(e.what)]
      BY <2>1, <2>2
  <2>4. ~IsOk(to_py_err(e))
      BY <2>3 DEF IsOk
  <2> QED
      BY <2>4 DEF e
<1>6. \A x : Some(x) # None
    BY DEF Some, None
<1>7. missing = None => call.kind = "pattern"
  <2> HIDE DEF q
  <2> QED
      BY <1>3, <1>4, <1>6
<1> HIDE DEF missing, failure, hits
<1>8. missing = None /\ Answer(call) = Ok({id \in hits : within(id)})
    BY <1>1, <1>2, <1>5
<1>9. {id \in hits : within(id)} = hits
    BY <1>3
<1>10. Answer(call).ok = hits
  <2> HIDE DEF within
  <2> QED
      BY <1>8, <1>9, Results
<1> QED
    BY <1>1, <1>7, <1>8, <1>10 DEF hits

\* Whether a triple that an item shows has the terms that were asked for.
ShowsAsked(call, t) ==
    \A i \in 1 .. 3 :
        LET asked == <<call.subject, call.predicate, call.object>>[i]
        IN  asked = PyNone \/ SameTerm(asked) = SameTerm(t.items[i])

LEMMA ShowsAskedIs ==
    ASSUME NEW call, NEW q
    PROVE  ShowsAsked(call, triple_to_py(q)) <=>
              /\ Asks(call.subject, subject_to_py(q.subject))
              /\ Asks(call.predicate, subject_to_py(q.predicate))
              /\ Asks(call.object, object_to_py(q.object))
<1> DEFINE a == subject_to_py(q.subject)
           b == subject_to_py(q.predicate)
           c == object_to_py(q.object)
           asked == <<call.subject, call.predicate, call.object>>
<1>1. triple_to_py(q) = [py |-> "tuple", items |-> <<a, b, c>>]
    BY DEF triple_to_py, PyTuple
<1> HIDE DEF a, b, c
<1>2. /\ triple_to_py(q).items[1] = a /\ triple_to_py(q).items[2] = b
      /\ triple_to_py(q).items[3] = c
    BY <1>1
<1>3. asked[1] = call.subject /\ asked[2] = call.predicate /\ asked[3] = call.object
    OBVIOUS
<1>4. ShowsAsked(call, triple_to_py(q))
        <=> \A i \in 1 .. 3 : Asks(asked[i], triple_to_py(q).items[i])
    BY Zenon DEF ShowsAsked, Asks
<1> HIDE DEF asked
<1>5. 1 .. 3 = {1, 2, 3}
    OBVIOUS
<1>6. ShowsAsked(call, triple_to_py(q))
        <=> /\ Asks(asked[1], triple_to_py(q).items[1])
            /\ Asks(asked[2], triple_to_py(q).items[2])
            /\ Asks(asked[3], triple_to_py(q).items[3])
    BY <1>4, <1>5
<1> QED
    BY <1>2, <1>3, <1>6 DEF a, b, c

\* Which items a pattern finds.
LEMMA FoundIs ==
    ASSUME ValuesInv, open, ~foreign, NEW call \in QueryCalls, call.kind = "pattern",
           IsOk(Query(call)), NEW id \in DOMAIN items
    PROVE  id \in UNION {parse_item_graph(e.graph) : e \in Matching(Query(call).ok.pattern)} <=>
              /\ items[id].payload.type = "triples"
              /\ \E t \in Range(Shown(items[id]).triples[1]) : ShowsAsked(call, t)
<1> DEFINE pattern == Query(call).ok.pattern
           orig == Orig(id)
           ts == orig.payload.triples
           found == UNION {parse_item_graph(e.graph) : e \in Matching(pattern)}
           Quad(t) == [t EXCEPT !.graph = item_graph(id)]
           Hit(t) == ShowsAsked(call, triple_to_py(t))
<1>1. /\ DOMAIN items = DOMAIN given /\ DOMAIN given \subseteq 0 .. MaxItems - 1
      /\ Accepted(id, given[id]) /\ Like(items[id], orig)
      /\ data = UNION {Written(j, Orig(j)) : j \in DOMAIN given}
      /\ \A j \in DOMAIN given : Accepted(j, given[j])
    BY DEF ValuesInv, StoreInv, IndexInv
<1>2. IsCall(given[id]) /\ OfCall(orig, given[id])
    BY <1>1 DEF Accepted, Orig
<1>3. \A e \in data : e \in Matching(pattern) <=> Fits(e, pattern)
    BY Zenon DEF Matching, Fits
<1>4. Matching(pattern) \subseteq data
    BY Zenon DEF Matching
<1> HIDE DEF pattern
<1>5. id \in found <=> \E e \in Written(id, orig) : Fits(e, pattern)
  <2>1. \A j \in DOMAIN given : \A e \in Written(j, Orig(j)) : parse_item_graph(e.graph) = {j}
    <3>1. \A j \in DOMAIN given : {e \in data : e.graph = item_graph(j)} = Written(j, Orig(j))
        BY GraphHolds DEF ValuesInv
    <3> QED
        BY <1>1, <3>1, ParseIs
  <2>2. Written(id, orig) \subseteq data
      BY <1>1
  <2>3. ASSUME id \in found PROVE \E e \in Written(id, orig) : Fits(e, pattern)
    <3>1. PICK e \in Matching(pattern) : id \in parse_item_graph(e.graph)
        BY <2>3
    <3>2. e \in data /\ Fits(e, pattern)
        BY <1>3, <1>4, <3>1
    <3>3. PICK j \in DOMAIN given : e \in Written(j, Orig(j))
        BY <1>1, <3>2
    <3>4. j = id
        BY <2>1, <3>1, <3>3
    <3> QED
        BY <3>2, <3>3, <3>4
  <2>4. ASSUME NEW e \in Written(id, orig), Fits(e, pattern) PROVE id \in found
    <3>1. e \in Matching(pattern) /\ parse_item_graph(e.graph) = {id}
        BY <1>1, <1>3, <2>1, <2>2, <2>4
    <3> QED
        BY <3>1
  <2> QED
      BY <2>3, <2>4
<1>6. (\E e \in Written(id, orig) : Fits(e, pattern))
        <=> \E q \in encode(id, orig).data : Fits(Encode(quad_to_ox(q)), pattern)
    BY DEF Written
<1>7. \A q \in encode(id, orig).data : q \in CoreQuads /\ quad_to_ox(q) # Refused
    BY <1>1, WrittenReadsBack DEF Orig
<1>8. \A q \in encode(id, orig).data : Fits(Encode(quad_to_ox(q)), pattern) <=> Hit(q)
    BY <1>7, PatternMatches, ShowsAskedIs DEF pattern
<1>9. items[id].payload.type = orig.payload.type
    BY <1>1 DEF Like
<1>10. CASE orig.payload.type # "triples"
  <2>1. encode(id, orig).data = {}
      BY <1>2, <1>10, DataIs
  <2> QED
      BY <1>5, <1>6, <1>9, <1>10, <2>1 DEF pattern
<1>11. CASE orig.payload.type = "triples"
  <2>1. encode(id, orig).data = {Quad(ts[i]) : i \in DOMAIN ts}
      BY <1>2, <1>11, DataIs, Zenon
  <2>2. \A i \in DOMAIN ts : ts[i] \in CoreTriples
      BY <1>2, <1>11, PayloadIs
  <2>3. \A i \in DOMAIN ts : Hit(Quad(ts[i])) <=> Hit(ts[i])
    <3>1. ASSUME NEW t \in CoreTriples
          PROVE  /\ Quad(t).subject = t.subject /\ Quad(t).predicate = t.predicate
                 /\ Quad(t).object = t.object
        BY DEF CoreTriples, CoreQuads
    <3>2. \A q, t : /\ q.subject = t.subject /\ q.predicate = t.predicate /\ q.object = t.object
                    => triple_to_py(q) = triple_to_py(t)
        BY DEF triple_to_py
    <3> HIDE DEF Quad
    <3> QED
        BY <2>2, <3>1, <3>2
  <2> HIDE DEF Quad, Hit, ts
  <2>4. (\E q \in encode(id, orig).data : Hit(q)) <=> \E i \in DOMAIN ts : Hit(ts[i])
      BY <2>1, <2>3
  <2>5. Range(Shown(items[id]).triples[1]) = {triple_to_py(q) : q \in Range(ts)}
    <3>1. items[id].payload.type = "triples" /\ Range(items[id].payload.triples) = Range(ts)
        BY <1>1, <1>11 DEF Like, ts
    <3> QED
        BY <3>1, ShownTriples
  <2>6. (\E t \in Range(Shown(items[id]).triples[1]) : ShowsAsked(call, t))
          <=> \E i \in DOMAIN ts : Hit(ts[i])
    <3>1. (\E t \in Range(Shown(items[id]).triples[1]) : ShowsAsked(call, t))
            <=> \E q \in Range(ts) : Hit(q)
        BY <2>5 DEF Hit
    <3> QED
        BY <3>1 DEF Range
  <2>7. id \in found <=> \E i \in DOMAIN ts : Hit(ts[i])
      BY <1>5, <1>6, <1>8, <2>4
  <2> QED
      BY <1>9, <1>11, <2>6, <2>7 DEF pattern
<1> QED
    BY <1>10, <1>11

\* A query for a pattern finds the items that show a triple with the terms of the
\* pattern, by the equality of the Python objects, and no others: before the
\* store has been closed and after it has been opened again.
THEOREM QueriesFindWhatIsShown == Spec => []QueryFindsWhatIsShown
<1>1. ValuesInv => QueryFindsWhatIsShown
  <2> SUFFICES ASSUME ValuesInv, open, ~foreign, NEW call \in QueryCalls,
                      IsOk(Answer(call)), call.limit = None
               PROVE  Answer(call).ok =
                        {id \in DOMAIN items :
                           /\ call.scopes = PyNone \/ PyScope(Enduring) \in
                                 (IF Iterates(call.scopes)
                                  THEN Range(Iterated(call.scopes)) ELSE {call.scopes})
                           /\ items[id].payload.type = "triples"
                           /\ \E t \in Range(Shown(items[id]).triples[1]) : ShowsAsked(call, t)}
      BY Zenon DEF QueryFindsWhatIsShown, ShowsAsked
  <2> DEFINE inTier == call.scopes = PyNone \/ PyScope(Enduring) \in
                          (IF Iterates(call.scopes)
                           THEN Range(Iterated(call.scopes)) ELSE {call.scopes})
             found == UNION {parse_item_graph(e.graph) : e \in Matching(Query(call).ok.pattern)}
             Shows(id) == /\ items[id].payload.type = "triples"
                          /\ \E t \in Range(Shown(items[id]).triples[1]) : ShowsAsked(call, t)
  <2>1. /\ call.kind = "pattern" /\ IsOk(Query(call))
        /\ Answer(call).ok = IF Enduring \in SelectedScopes(Query(call).ok.scopes)
                             THEN found \cap DOMAIN items ELSE {}
      BY AnswerIs, Zenon
  <2>2. Enduring \in SelectedScopes(Query(call).ok.scopes) <=> inTier
    <3>1. IsQuery(call)
        BY ValuesAssumption
    <3>2. /\ IsOk(scopes_from_py(call.scopes))
          /\ Query(call).ok.scopes = scopes_from_py(call.scopes).ok
        BY <2>1, QueryIs
    <3>3. Enduring \in SelectedScopes(scopes_from_py(call.scopes).ok) <=> inTier
        BY <3>1, <3>2, ScopesFromPy
    <3> QED
        BY <3>2, <3>3, Zenon
  <2>3. \A id \in DOMAIN items : id \in found <=> Shows(id)
      BY <2>1, FoundIs
  <2> HIDE DEF inTier, found, Shows
  <2>4. Answer(call).ok = {id \in DOMAIN items : inTier /\ Shows(id)}
      BY <2>1, <2>2, <2>3
  <2> QED
      BY <2>4, Zenon DEF inTier, Shows
<1> QED
    BY <1>1, ValuesInvariant, PTL
=============================================================================
