------------------------- MODULE CompileTables_proofs -------------------------
(***************************************************************************)
(* Proofs about the counting of buckets that moves a file's symbols into   *)
(* its script, for any files, tables and number of compilations.           *)
(***************************************************************************)
EXTENDS CompileTables, WellFoundedInduction, SequenceTheorems, TLAPS

-------------------------------------------------------------------------------
\* A set of numbers with 0 that is closed under successor has every natural number.
LEMMA SetInduction ==
    ASSUME NEW S, 0 \in S, \A n \in Nat : n \in S => n + 1 \in S
    PROVE  Nat \subseteq S
<1> SUFFICES ASSUME Nat \ S # {} PROVE FALSE
    OBVIOUS
<1> DEFINE R == {ss \in Nat \X Nat : ss[1] < ss[2]}
<1>1. IsWellFoundedOn(R, Nat)
    BY NatLessThanWellFounded DEF OpToRel
<1>2. PICK x \in Nat \ S : \A y \in Nat \ S : <<y, x>> \notin R
    <2> HIDE DEF R
    <2> QED
        BY <1>1, WFMin
<1>3. x # 0
    BY <1>2
<1>4. x - 1 \in S
    <2>1. x - 1 \in Nat /\ <<x - 1, x>> \in R
        BY <1>3
    <2> QED
        BY <2>1, <1>2
<1> QED
    BY <1>3, <1>4

\* A bounded set of numbers that is not empty has a largest element.
LEMMA LargestExists ==
    ASSUME NEW n \in Nat, NEW S \in SUBSET (0 .. n), S # {}
    PROVE  \E m \in S : \A j \in S : j <= m
<1> DEFINE R == {ss \in Nat \X Nat : ss[1] < ss[2]}
           T == {n - i : i \in S}
<1>1. IsWellFoundedOn(R, Nat)
    BY NatLessThanWellFounded DEF OpToRel
<1>2. T \subseteq Nat /\ T # {}
    <2>1. \A i \in S : i \in Nat /\ n - i \in Nat
        OBVIOUS
    <2> QED
        BY <2>1
<1>3. PICK x \in T : \A y \in T : <<y, x>> \notin R
    <2> HIDE DEF R, T
    <2> QED
        BY <1>1, <1>2, WFMin
<1>4. PICK m \in S : x = n - m
    OBVIOUS
<1>5. ASSUME NEW j \in S PROVE j <= m
    <2>1. n - j \in T /\ n - j \in Nat /\ x \in Nat /\ j \in Nat /\ m \in Nat
        BY <1>2, <1>4
    <2>2. ~ (n - j < x)
        BY <1>3, <2>1
    <2> QED
        BY <1>4, <2>1, <2>2
<1> QED
    BY <1>5

\* f starts with a value and continues by a step function.
Recursion(f, N, X, start, step) ==
    /\ f \in [0 .. N -> X]
    /\ f[0] = start
    /\ \A n \in 1 .. N : f[n] = step[<<n, f[n - 1]>>]

LEMMA RecursionExists ==
    ASSUME NEW N \in Nat, NEW X, NEW start \in X, NEW step \in [(1 .. N) \X X -> X]
    PROVE  \E f : Recursion(f, N, X, start, step)
<1> DEFINE Starts(f) == f[0] = start
           Follows(f, k) == \A n \in 1 .. k : f[n] = step[<<n, f[n - 1]>>]
           Good == {k \in Nat : k <= N =>
                       \E f \in [0 .. k -> X] : Starts(f) /\ Follows(f, k)}
<1>1. 0 \in Good
    <2> DEFINE f == [n \in 0 .. 0 |-> start]
    <2>1. f \in [0 .. 0 -> X] /\ f[0] = start
        OBVIOUS
    <2>2. Starts(f) /\ Follows(f, 0)
        BY <2>1
    <2> HIDE DEF f, Starts, Follows
    <2> QED
        BY <2>1, <2>2
<1>2. ASSUME NEW k \in Nat, k \in Good PROVE k + 1 \in Good
    <2>0. k + 1 \in Nat
        OBVIOUS
    <2> SUFFICES ASSUME k + 1 <= N
                 PROVE  \E f \in [0 .. k + 1 -> X] : Starts(f) /\ Follows(f, k + 1)
        BY <2>0, Zenon
    <2>1. PICK f \in [0 .. k -> X] : Starts(f) /\ Follows(f, k)
        <3> HIDE DEF Starts, Follows
        <3> QED
            BY <1>2
    <2> DEFINE g == [n \in 0 .. k + 1 |-> IF n <= k THEN f[n] ELSE step[<<n, f[k]>>]]
    <2>2. f[k] \in X /\ \A n \in 0 .. k : f[n] \in X
        BY <2>1
    <2>3. step[<<k + 1, f[k]>>] \in X
        <3>1. <<k + 1, f[k]>> \in (1 .. N) \X X
            BY <2>2
        <3> QED
            BY <3>1
    <2>4. g \in [0 .. k + 1 -> X]
        <3>1. \A n \in 0 .. k + 1 : n <= k \/ n = k + 1
            OBVIOUS
        <3> QED
            BY <2>2, <2>3, <3>1
    <2>5. g[0] = f[0] /\ g[k + 1] = step[<<k + 1, f[k]>>] /\ \A n \in 0 .. k : g[n] = f[n]
        OBVIOUS
    <2> HIDE DEF g
    <2>6. Starts(g)
        BY <2>1, <2>5
    <2>7. ASSUME NEW n \in 1 .. k + 1 PROVE g[n] = step[<<n, g[n - 1]>>]
        <3>1. CASE n = k + 1
            <4>1. n - 1 = k /\ g[n - 1] = f[k]
                BY <2>5, <3>1
            <4> QED
                BY <2>5, <3>1, <4>1
        <3>2. CASE n # k + 1
            <4>1. n \in 1 .. k /\ g[n] = f[n] /\ g[n - 1] = f[n - 1]
                BY <2>5, <3>2
            <4> QED
                BY <2>1, <4>1
        <3> QED
            BY <3>1, <3>2
    <2> QED
        BY <2>4, <2>6, <2>7
<1>3. N \in Good
    <2> HIDE DEF Good
    <2> QED
        BY <1>1, <1>2, SetInduction
<1>4. PICK f \in [0 .. N -> X] : Starts(f) /\ Follows(f, N)
    BY <1>3
<1> QED
    BY <1>4 DEF Recursion

\* What a set for each number has, if it has it at first and after every step.
LEMMA RecursionIn ==
    ASSUME NEW N \in Nat, NEW X, NEW start \in X, NEW step, NEW f,
           Recursion(f, N, X, start, step), NEW G, start \in G[0],
           \A n \in 1 .. N : \A x \in X : x \in G[n - 1] => step[<<n, x>>] \in G[n]
    PROVE  f[N] \in G[N]
<1> DEFINE Good == {k \in Nat : k <= N => f[k] \in G[k]}
<1>1. 0 \in Good
    BY DEF Recursion
<1>2. ASSUME NEW k \in Nat, k \in Good PROVE k + 1 \in Good
    <2> SUFFICES ASSUME k + 1 <= N PROVE f[k + 1] \in G[k + 1]
        OBVIOUS
    <2>1. k + 1 \in 1 .. N /\ (k + 1) - 1 = k /\ k \in 0 .. N
        OBVIOUS
    <2>2. f[k] \in X /\ f[k] \in G[k] /\ f[k + 1] = step[<<k + 1, f[k]>>]
        BY <1>2, <2>1 DEF Recursion
    <2> QED
        BY <2>1, <2>2
<1>3. N \in Good
    <2> HIDE DEF Good
    <2> QED
        BY <1>1, <1>2, SetInduction
<1> QED
    BY <1>3
-------------------------------------------------------------------------------


Owner == Files \cup {None}
Buckets == [key : Symbol \X Owner, file : Owner, owned : BOOLEAN]
Slots == Buckets \cup {Hole}

UniqueKeys(s) ==
    \A i, j \in DOMAIN s : s[i] # Hole /\ s[j] # Hole /\ s[i].key = s[j].key => i = j

Tables ==
    {t \in [used : Seq(Slots), size : Nat \ {0}] :
        Len(t.used) <= t.size /\ UniqueKeys(t.used)}

\* What s is of r after more came and holes were closed: no entry is lost, none is
\* behind the place it had, and what is before the first hole has not moved.
Extends(r, s) ==
    /\ \A j \in DOMAIN r : r[j] = Hole \/ \E i \in DOMAIN s : i <= j /\ s[i] = r[j]
    /\ \A m \in 0 .. Len(r) :
          (\A i \in 1 .. m : r[i] # Hole) =>
             m <= Len(s) /\ \A i \in 1 .. m : s[i] = r[i]

LEMMA BucketIsNoHole == Hole \notin Buckets /\ \A b \in Buckets : b.key # Hole.key
<1>1. \A k \in Symbol \X Owner : k # <<>>
    OBVIOUS
<1> QED
    BY <1>1 DEF Hole, Buckets

LEMMA BucketParts ==
    ASSUME NEW n \in Symbol, NEW r \in Owner, NEW f \in Owner
    PROVE  /\ Bucket(n, r, f) \in Buckets /\ Bucket(n, r, f).key = <<n, r>>
           /\ Bucket(n, r, f).file = f /\ Bucket(n, r, f).owned = FALSE
<1>1. FALSE \in BOOLEAN /\ <<n, r>> \in Symbol \X Owner
    OBVIOUS
<1> QED
    BY <1>1, Zenon DEF Bucket, Buckets

LEMMA TableParts ==
    ASSUME NEW t \in Tables
    PROVE  /\ t = [used |-> t.used, size |-> t.size]
           /\ t.used \in Seq(Slots) /\ t.size \in Nat \ {0} /\ Len(t.used) \in Nat
           /\ DOMAIN t.used = 1 .. Len(t.used) /\ Len(t.used) <= t.size
           /\ \A i \in DOMAIN t.used : t.used[i] \in Slots
           /\ UniqueKeys(t.used)
BY DEF Tables

LEMMA MakeTable ==
    ASSUME NEW s \in Seq(Slots), NEW z \in Nat \ {0}, Len(s) <= z, UniqueKeys(s)
    PROVE  [used |-> s, size |-> z] \in Tables
BY DEF Tables

LEMMA AppendParts ==
    ASSUME NEW X, NEW s \in Seq(X), NEW x \in X
    PROVE  /\ Append(s, x) \in Seq(X) /\ Len(Append(s, x)) = Len(s) + 1
           /\ DOMAIN Append(s, x) = 1 .. Len(s) + 1
           /\ Append(s, x)[Len(s) + 1] = x /\ \A i \in 1 .. Len(s) : Append(s, x)[i] = s[i]
OBVIOUS

-------------------------------------------------------------------------------
\* Closing the holes, one place after the other.
KeepStep(r) ==
    [d \in (1 .. Len(r)) \X Seq(Slots) |->
        IF r[d[1]] = Hole THEN d[2] ELSE Append(d[2], r[d[1]])]

KeepsIt(r, g) ==
    g = [n \in 0 .. Len(r) |-> IF n = 0 THEN <<>>
                               ELSE IF r[n] = Hole THEN g[n - 1]
                               ELSE Append(g[n - 1], r[n])]

LEMMA KeepStepIs ==
    ASSUME NEW r \in Seq(Slots)
    PROVE  /\ KeepStep(r) \in [(1 .. Len(r)) \X Seq(Slots) -> Seq(Slots)]
           /\ \A n \in 1 .. Len(r) : \A s \in Seq(Slots) :
                 KeepStep(r)[<<n, s>>] = IF r[n] = Hole THEN s ELSE Append(s, r[n])
<1>1. \A n \in 1 .. Len(r) : \A s \in Seq(Slots) : Append(s, r[n]) \in Seq(Slots)
    OBVIOUS
<1> QED
    BY <1>1 DEF KeepStep

LEMMA KeptExists ==
    ASSUME NEW r \in Seq(Slots)
    PROVE  \E g : KeepsIt(r, g)
<1> DEFINE N == Len(r)
           X == Seq(Slots)
<1>1. N \in Nat /\ <<>> \in X
    OBVIOUS
<1>2. PICK f : Recursion(f, N, X, <<>>, KeepStep(r))
    <2> HIDE DEF N, X
    <2>1. KeepStep(r) \in [(1 .. N) \X X -> X]
        BY KeepStepIs DEF N, X
    <2> QED
        BY <1>1, <2>1, RecursionExists, Zenon
<1>3. \A n \in 1 .. N : f[n] = IF r[n] = Hole THEN f[n - 1] ELSE Append(f[n - 1], r[n])
    <2> SUFFICES ASSUME NEW n \in 1 .. N
                 PROVE  f[n] = IF r[n] = Hole THEN f[n - 1] ELSE Append(f[n - 1], r[n])
        OBVIOUS
    <2>1. n - 1 \in 0 .. N
        BY <1>1
    <2>2. f[n - 1] \in X /\ f[n] = KeepStep(r)[<<n, f[n - 1]>>]
        BY <1>2, <2>1 DEF Recursion
    <2> QED
        BY <2>2, KeepStepIs
<1>4. KeepsIt(r, f)
    <2>1. \A n \in 0 .. N : n = 0 \/ n \in 1 .. N
        BY <1>1
    <2> QED
        BY <1>2, <1>3, <2>1 DEF Recursion, KeepsIt
<1> QED
    BY <1>4

LEMMA KeptRecursion ==
    ASSUME NEW r \in Seq(Slots), NEW g, KeepsIt(r, g)
    PROVE  Recursion(g, Len(r), Seq(Slots), <<>>, KeepStep(r))
<1> DEFINE N == Len(r)
           Good == {k \in Nat : k <= N => g[k] \in Seq(Slots)}
<1>1. /\ N \in Nat /\ DOMAIN g = 0 .. N /\ g[0] = <<>>
      /\ \A n \in 1 .. N : g[n] = IF r[n] = Hole THEN g[n - 1] ELSE Append(g[n - 1], r[n])
    <2>1. N \in Nat /\ DOMAIN g = 0 .. N
        BY DEF KeepsIt
    <2>2. \A n \in 0 .. N : g[n] = IF n = 0 THEN <<>>
                                   ELSE IF r[n] = Hole THEN g[n - 1]
                                   ELSE Append(g[n - 1], r[n])
        BY Zenon DEF KeepsIt
    <2>3. 0 \in 0 .. N /\ \A n \in 1 .. N : n \in 0 .. N /\ n # 0
        BY <2>1
    <2> QED
        BY <2>1, <2>2, <2>3, Zenon
<1>2. \A n \in 1 .. N : r[n] \in Slots
    OBVIOUS
<1>3. 0 \in Good
    <2>1. <<>> \in Seq(Slots)
        OBVIOUS
    <2> QED
        BY <1>1, <2>1
<1>4. ASSUME NEW k \in Nat, k \in Good PROVE k + 1 \in Good
    <2> SUFFICES ASSUME k + 1 <= N PROVE g[k + 1] \in Seq(Slots)
        OBVIOUS
    <2>1. k + 1 \in 1 .. N /\ (k + 1) - 1 = k /\ g[k] \in Seq(Slots)
        BY <1>4
    <2>2. g[k + 1] = IF r[k + 1] = Hole THEN g[k] ELSE Append(g[k], r[k + 1])
        BY <1>1, <2>1
    <2> QED
        BY <1>2, <2>1, <2>2
<1>5. Nat \subseteq Good
    <2> HIDE DEF Good
    <2> QED
        BY <1>3, <1>4, SetInduction
<1>6. \A n \in 0 .. N : g[n] \in Seq(Slots)
    BY <1>5
<1>7. g \in [0 .. N -> Seq(Slots)]
    BY <1>1, <1>6 DEF KeepsIt
<1>8. \A n \in 1 .. N : g[n] = KeepStep(r)[<<n, g[n - 1]>>]
    <2> SUFFICES ASSUME NEW n \in 1 .. N PROVE g[n] = KeepStep(r)[<<n, g[n - 1]>>]
        OBVIOUS
    <2>1. g[n - 1] \in Seq(Slots)
        BY <1>6
    <2> QED
        BY <1>1, <2>1, KeepStepIs
<1> QED
    BY <1>1, <1>7, <1>8 DEF Recursion

LEMMA CompactedRecursion ==
    ASSUME NEW t \in Tables
    PROVE  \E g : /\ Recursion(g, Len(t.used), Seq(Slots), <<>>, KeepStep(t.used))
                  /\ Compacted(t) = g[Len(t.used)]
<1> DEFINE r == t.used
           g == CHOOSE h : h = [n \in 0 .. Len(r) |->
                                     IF n = 0 THEN <<>>
                                     ELSE IF r[n] = Hole THEN h[n - 1]
                                     ELSE Append(h[n - 1], r[n])]
<1>1. Compacted(t) = g[Len(r)]
    BY DEF Compacted
<1>2. r \in Seq(Slots)
    BY TableParts
<1>3. KeepsIt(r, g)
    BY <1>2, KeptExists DEF KeepsIt
<1> HIDE DEF g
<1> QED
    BY <1>1, <1>2, <1>3, KeptRecursion

\* What is kept of the first n places.
SqueezedTo(r, n, s) ==
    /\ Len(s) <= n
    /\ \A i \in DOMAIN s : s[i] # Hole /\ \E j \in 1 .. n : i <= j /\ s[i] = r[j]
    /\ \A j \in 1 .. n : r[j] = Hole \/ \E i \in DOMAIN s : i <= j /\ s[i] = r[j]
    /\ \A m \in 0 .. n : (\A i \in 1 .. m : r[i] # Hole) =>
                            m <= Len(s) /\ \A i \in 1 .. m : s[i] = r[i]
    /\ UniqueKeys(s)

LEMMA KeepSqueezed ==
    ASSUME NEW r \in Seq(Slots), UniqueKeys(r), NEW n \in 1 .. Len(r),
           NEW s \in Seq(Slots), SqueezedTo(r, n - 1, s)
    PROVE  SqueezedTo(r, n, IF r[n] = Hole THEN s ELSE Append(s, r[n]))
<1>1. /\ n \in Nat /\ n - 1 \in Nat /\ Len(s) \in Nat /\ Len(s) <= n - 1
      /\ DOMAIN s = 1 .. Len(s) /\ DOMAIN r = 1 .. Len(r) /\ r[n] \in Slots
    BY DEF SqueezedTo
<1>2. /\ \A i \in DOMAIN s : s[i] # Hole /\ \E j \in 1 .. n - 1 : i <= j /\ s[i] = r[j]
      /\ \A j \in 1 .. n - 1 : r[j] = Hole \/ \E i \in DOMAIN s : i <= j /\ s[i] = r[j]
      /\ \A m \in 0 .. n - 1 : (\A i \in 1 .. m : r[i] # Hole) =>
                                  m <= Len(s) /\ \A i \in 1 .. m : s[i] = r[i]
      /\ UniqueKeys(s)
    BY DEF SqueezedTo
<1>3. \A j \in 1 .. n : j = n \/ j \in 1 .. n - 1
    BY <1>1
<1>4. CASE r[n] = Hole
    <2>1. \A m \in 0 .. n : (\A i \in 1 .. m : r[i] # Hole) => m \in 0 .. n - 1
        BY <1>1, <1>4
    <2>2. SqueezedTo(r, n, s)
        <3>1. \A i \in DOMAIN s : s[i] # Hole /\ \E j \in 1 .. n : i <= j /\ s[i] = r[j]
            BY <1>1, <1>2
        <3>2. \A j \in 1 .. n : r[j] = Hole \/ \E i \in DOMAIN s : i <= j /\ s[i] = r[j]
            BY <1>2, <1>3, <1>4
        <3>3. \A m \in 0 .. n : (\A i \in 1 .. m : r[i] # Hole) =>
                                   m <= Len(s) /\ \A i \in 1 .. m : s[i] = r[i]
            BY <1>2, <2>1
        <3> QED
            BY <1>1, <1>2, <3>1, <3>2, <3>3 DEF SqueezedTo
    <2> QED
        BY <1>4, <2>2
<1>5. CASE r[n] # Hole
    <2> DEFINE a == Append(s, r[n])
               len == Len(s)
    <2>1. /\ a \in Seq(Slots) /\ Len(a) = len + 1 /\ DOMAIN a = 1 .. len + 1
          /\ a[len + 1] = r[n] /\ \A i \in 1 .. len : a[i] = s[i]
        BY <1>1, AppendParts
    <2> HIDE DEF a
    <2>2. \A i \in DOMAIN a : i = len + 1 \/ i \in DOMAIN s
        BY <1>1, <2>1
    <2>3. \A i \in DOMAIN a : a[i] # Hole /\ \E j \in 1 .. n : i <= j /\ a[i] = r[j]
        <3> SUFFICES ASSUME NEW i \in DOMAIN a
                     PROVE  a[i] # Hole /\ \E j \in 1 .. n : i <= j /\ a[i] = r[j]
            OBVIOUS
        <3>1. CASE i = len + 1
            BY <1>1, <1>5, <2>1, <3>1
        <3>2. CASE i \in DOMAIN s
            BY <1>1, <1>2, <2>1, <3>2
        <3> QED
            BY <2>2, <3>1, <3>2
    <2>4. \A j \in 1 .. n : r[j] = Hole \/ \E i \in DOMAIN a : i <= j /\ a[i] = r[j]
        <3> SUFFICES ASSUME NEW j \in 1 .. n, r[j] # Hole
                     PROVE  \E i \in DOMAIN a : i <= j /\ a[i] = r[j]
            OBVIOUS
        <3>1. CASE j = n
            BY <1>1, <2>1, <3>1
        <3>2. CASE j \in 1 .. n - 1
            BY <1>1, <1>2, <2>1, <3>2
        <3> QED
            BY <1>3, <3>1, <3>2
    <2>5. \A m \in 0 .. n : (\A i \in 1 .. m : r[i] # Hole) =>
                               m <= Len(a) /\ \A i \in 1 .. m : a[i] = r[i]
        <3> SUFFICES ASSUME NEW m \in 0 .. n, \A i \in 1 .. m : r[i] # Hole
                     PROVE  m <= Len(a) /\ \A i \in 1 .. m : a[i] = r[i]
            OBVIOUS
        <3>1. CASE m = n
            <4>1. \A i \in 1 .. n - 1 : r[i] # Hole
                BY <1>1, <3>1
            <4>2. n - 1 <= len /\ \A i \in 1 .. n - 1 : s[i] = r[i]
                <5>1. n - 1 \in 0 .. n - 1
                    BY <1>1
                <5> QED
                    BY <1>2, <4>1, <5>1, Zenon
            <4>3. n - 1 = len
                BY <1>1, <4>2
            <4> QED
                BY <1>1, <2>1, <3>1, <4>2, <4>3
        <3>2. CASE m # n
            <4>1. m \in 0 .. n - 1
                BY <1>1, <3>2
            <4>2. m <= len /\ \A i \in 1 .. m : s[i] = r[i]
                BY <1>2, <4>1
            <4> QED
                BY <1>1, <2>1, <4>1, <4>2
        <3> QED
            BY <3>1, <3>2
    <2>6. UniqueKeys(a)
        <3> SUFFICES ASSUME NEW i \in DOMAIN a, NEW j \in DOMAIN a, a[i].key = a[j].key, i # j
                     PROVE  FALSE
            BY DEF UniqueKeys
        <3>1. ASSUME NEW h \in DOMAIN s PROVE s[h].key # r[n].key
            <4>1. PICK q \in 1 .. n - 1 : s[h] = r[q] /\ s[h] # Hole
                BY <1>2
            <4>2. q \in DOMAIN r /\ n \in DOMAIN r /\ q # n
                BY <1>1
            <4> QED
                BY <1>5, <4>1, <4>2 DEF UniqueKeys
        <3>2. CASE i \in DOMAIN s /\ j \in DOMAIN s
            BY <1>1, <1>2, <2>1, <3>2 DEF UniqueKeys
        <3>3. CASE i = len + 1 /\ j \in DOMAIN s
            BY <1>1, <2>1, <3>1, <3>3
        <3>4. CASE j = len + 1 /\ i \in DOMAIN s
            BY <1>1, <2>1, <3>1, <3>4
        <3> QED
            BY <2>2, <3>2, <3>3, <3>4
    <2>7. SqueezedTo(r, n, a)
        BY <1>1, <2>1, <2>3, <2>4, <2>5, <2>6 DEF SqueezedTo
    <2> QED
        BY <1>5, <2>7 DEF a
<1> QED
    BY <1>4, <1>5

LEMMA CompactedIs ==
    ASSUME NEW t \in Tables
    PROVE  Compacted(t) \in Seq(Slots) /\ SqueezedTo(t.used, Len(t.used), Compacted(t))
<1> DEFINE r == t.used
           G == [n \in 0 .. Len(r) |-> {s \in Seq(Slots) : SqueezedTo(r, n, s)}]
<1>1. r \in Seq(Slots) /\ UniqueKeys(r) /\ Len(r) \in Nat
    BY TableParts
<1>2. PICK g : /\ Recursion(g, Len(r), Seq(Slots), <<>>, KeepStep(r))
               /\ Compacted(t) = g[Len(r)]
    BY CompactedRecursion
<1>3. <<>> \in G[0]
    <2>1. SqueezedTo(r, 0, <<>>)
        BY DEF SqueezedTo, UniqueKeys
    <2> QED
        BY <1>1, <2>1
<1>4. ASSUME NEW n \in 1 .. Len(r), NEW s \in Seq(Slots), s \in G[n - 1]
      PROVE  KeepStep(r)[<<n, s>>] \in G[n]
    <2>1. n - 1 \in 0 .. Len(r) /\ n \in 0 .. Len(r)
        BY <1>1
    <2>2. SqueezedTo(r, n - 1, s)
        BY <1>4, <2>1
    <2>3. SqueezedTo(r, n, KeepStep(r)[<<n, s>>])
        <3> HIDE DEF r
        <3> QED
            BY <1>1, <2>2, KeepSqueezed, KeepStepIs
    <2>4. KeepStep(r)[<<n, s>>] \in Seq(Slots)
        BY <1>1, KeepStepIs
    <2> QED
        BY <2>1, <2>3, <2>4
<1>5. g[Len(r)] \in G[Len(r)]
    <2>1. <<>> \in Seq(Slots)
        OBVIOUS
    <2> HIDE DEF r, G
    <2> QED
        BY <1>1, <1>2, <1>3, <1>4, <2>1, RecursionIn
<1> QED
    BY <1>1, <1>2, <1>5

\* Making room: there is space for one more, and nothing else has changed.
SameEntries(r, s) == \A i \in DOMAIN s : s[i] = Hole \/ \E j \in DOMAIN r : s[i] = r[j]
NoHoles(s) == \A i \in DOMAIN s : s[i] # Hole

LEMMA ExtendsSelf ==
    ASSUME NEW s \in Seq(Slots) PROVE Extends(s, s) /\ SameEntries(s, s)
BY DEF Extends, SameEntries

LEMMA ResizedIs ==
    ASSUME NEW t \in Tables
    PROVE  /\ Resized(t) \in Tables
           /\ Len(Resized(t).used) < Resized(t).size
           /\ Extends(t.used, Resized(t).used)
           /\ SameEntries(t.used, Resized(t).used)
           /\ NoHoles(t.used) => Resized(t).used = t.used
<1> DEFINE r == t.used
           s == Compacted(t)
           n == Len(s)
<1>1. /\ r \in Seq(Slots) /\ Len(r) \in Nat /\ t.size \in Nat \ {0} /\ Len(r) <= t.size
      /\ DOMAIN r = 1 .. Len(r) /\ UniqueKeys(r)
    BY TableParts
<1>2. s \in Seq(Slots) /\ SqueezedTo(r, Len(r), s)
    BY CompactedIs
<1> HIDE DEF s
<1>3. /\ n \in Nat /\ n <= Len(r) /\ DOMAIN s = 1 .. n
      /\ n \div 32 \in Nat
    BY <1>1, <1>2 DEF SqueezedTo
<1>4. Extends(r, s) /\ SameEntries(r, s) /\ UniqueKeys(s)
    BY <1>1, <1>2, <1>3 DEF SqueezedTo, Extends, SameEntries
<1>5. CASE Len(r) < t.size
    BY <1>1, <1>5, ExtendsSelf DEF Resized
<1>6. CASE ~(Len(r) < t.size) /\ Len(r) > n + n \div 32
    <2>1. Resized(t) = [used |-> s, size |-> t.size]
        BY <1>6, TableParts DEF Resized, s
    <2>2. n < t.size
        BY <1>1, <1>3, <1>6
    <2>3. NoHoles(r) => n = Len(r)
        BY <1>1, <1>2, <1>3 DEF NoHoles, SqueezedTo
    <2>4. ~NoHoles(r)
        BY <1>1, <1>3, <1>6, <2>3
    <2>5. Resized(t) \in Tables
        BY <1>1, <1>2, <1>3, <1>4, <2>1, <2>2, MakeTable
    <2> QED
        BY <1>4, <2>1, <2>2, <2>4, <2>5
<1>7. CASE ~(Len(r) < t.size) /\ ~(Len(r) > n + n \div 32)
    <2>1. Resized(t) = [used |-> r, size |-> 2 * t.size]
        BY <1>7, TableParts DEF Resized, s
    <2>2. 2 * t.size \in Nat \ {0} /\ Len(r) < 2 * t.size
        BY <1>1
    <2>3. Resized(t) \in Tables
        BY <1>1, <2>1, <2>2, MakeTable
    <2> QED
        BY <1>1, <2>1, <2>2, <2>3, ExtendsSelf
<1> QED
    BY <1>5, <1>6, <1>7

LEMMA ExtendsTrans ==
    ASSUME NEW r \in Seq(Slots), NEW s \in Seq(Slots), NEW u \in Seq(Slots),
           Extends(r, s), Extends(s, u)
    PROVE  Extends(r, u)
<1>1. /\ Len(r) \in Nat /\ Len(s) \in Nat /\ Len(u) \in Nat
      /\ DOMAIN r = 1 .. Len(r) /\ DOMAIN s = 1 .. Len(s) /\ DOMAIN u = 1 .. Len(u)
    OBVIOUS
<1>2. ASSUME NEW j \in DOMAIN r, r[j] # Hole
      PROVE  \E i \in DOMAIN u : i <= j /\ u[i] = r[j]
    <2>1. PICK h \in DOMAIN s : h <= j /\ s[h] = r[j]
        BY <1>2 DEF Extends
    <2>2. PICK i \in DOMAIN u : i <= h /\ u[i] = s[h]
        BY <1>2, <2>1 DEF Extends
    <2> QED
        BY <1>1, <2>1, <2>2
<1>3. ASSUME NEW m \in 0 .. Len(r), \A i \in 1 .. m : r[i] # Hole
      PROVE  m <= Len(u) /\ \A i \in 1 .. m : u[i] = r[i]
    <2>1. m <= Len(s) /\ \A i \in 1 .. m : s[i] = r[i]
        BY <1>3 DEF Extends
    <2>2. m \in 0 .. Len(s) /\ \A i \in 1 .. m : s[i] # Hole
        BY <1>1, <1>3, <2>1
    <2>3. m <= Len(u) /\ \A i \in 1 .. m : u[i] = s[i]
        BY <2>2 DEF Extends
    <2> QED
        BY <2>1, <2>3
<1> QED
    BY <1>2, <1>3 DEF Extends

\* zend_hash_add: an entry is appended unless its key is taken.
LEMMA AddedIs ==
    ASSUME NEW t \in Tables, NEW b \in Buckets
    PROVE  /\ Added(t, b) \in Tables
           /\ Extends(t.used, Added(t, b).used)
           /\ \A i \in DOMAIN Added(t, b).used :
                 \/ Added(t, b).used[i] \in {Hole, b}
                 \/ \E j \in DOMAIN t.used : Added(t, b).used[i] = t.used[j]
           /\ NoHoles(t.used) => Added(t, b).used = IF Has(t, b.key) THEN t.used
                                                     ELSE Append(t.used, b)
<1> DEFINE r == t.used
           s == Resized(t).used
           u == Append(s, b)
<1>1. /\ r \in Seq(Slots) /\ Len(r) \in Nat /\ DOMAIN r = 1 .. Len(r)
      /\ Resized(t) \in Tables /\ Len(s) < Resized(t).size
      /\ Extends(r, s) /\ SameEntries(r, s) /\ (NoHoles(r) => s = r)
    BY TableParts, ResizedIs
<1>2. /\ Resized(t) = [used |-> s, size |-> Resized(t).size]
      /\ s \in Seq(Slots) /\ Resized(t).size \in Nat \ {0} /\ Len(s) \in Nat
      /\ DOMAIN s = 1 .. Len(s) /\ UniqueKeys(s)
    BY <1>1, TableParts
<1>3. CASE Has(t, b.key)
    BY <1>1, <1>3, ExtendsSelf DEF Added, SameEntries
<1>4. CASE ~Has(t, b.key)
    <2>1. b \in Slots
        BY DEF Slots
    <2>2. /\ u \in Seq(Slots) /\ Len(u) = Len(s) + 1 /\ DOMAIN u = 1 .. Len(s) + 1
          /\ u[Len(s) + 1] = b /\ \A i \in 1 .. Len(s) : u[i] = s[i]
        <3> HIDE DEF s
        <3> QED
            BY <1>2, <2>1, AppendParts
    <2>3. Added(t, b) = [used |-> u, size |-> Resized(t).size]
        BY <1>2, <1>4 DEF Added
    <2> HIDE DEF s, u
    <2>4. \A i \in DOMAIN u : i = Len(s) + 1 \/ i \in DOMAIN s
        BY <1>2, <2>2
    <2>5. \A i \in DOMAIN s : s[i] # Hole => s[i].key # b.key
        BY <1>1, <1>4 DEF SameEntries, Has, Entries
    <2>6. UniqueKeys(u)
        BY <1>2, <2>2, <2>4, <2>5 DEF UniqueKeys
    <2>7. Len(u) <= Resized(t).size
        BY <1>1, <1>2, <2>2 DEF s
    <2>8. Added(t, b) \in Tables
        BY <1>2, <2>2, <2>3, <2>6, <2>7, MakeTable
    <2>9. Extends(s, u)
        BY <1>2, <2>2 DEF Extends
    <2>10. Extends(r, u)
        BY <1>1, <1>2, <2>2, <2>9, ExtendsTrans DEF s
    <2>11. \A i \in DOMAIN u : u[i] \in {Hole, b} \/ \E j \in DOMAIN r : u[i] = r[j]
        BY <1>1, <1>2, <2>2, <2>4 DEF SameEntries, s
    <2>12. NoHoles(r) => u = Append(r, b)
        BY <1>1 DEF s, u
    <2> QED
        BY <1>4, <2>3, <2>8, <2>10, <2>11, <2>12
<1> QED
    BY <1>3, <1>4

-------------------------------------------------------------------------------
\* Adding names one after the other.
WithStep(f, names, rtd) ==
    [d \in (1 .. Len(names)) \X Tables |-> Added(d[2], Declared(d[2], names[d[1]], f, rtd))]

WithIt(t, f, names, rtd, g) ==
    g = [n \in 0 .. Len(names) |->
            IF n = 0 THEN t ELSE Added(g[n - 1], Declared(g[n - 1], names[n], f, rtd))]

LEMMA DeclaredIs ==
    ASSUME NEW f \in Files, NEW n \in Symbol, NEW rtd \in BOOLEAN, NEW t
    PROVE  Declared(t, n, f, rtd) \in Buckets
BY BucketParts DEF Declared, Owner

LEMMA WithStepIs ==
    ASSUME NEW f \in Files, NEW names \in Seq(Symbol), NEW rtd \in BOOLEAN
    PROVE  /\ WithStep(f, names, rtd) \in [(1 .. Len(names)) \X Tables -> Tables]
           /\ \A n \in 1 .. Len(names) : \A t \in Tables :
                 WithStep(f, names, rtd)[<<n, t>>] = Added(t, Declared(t, names[n], f, rtd))
<1>1. \A n \in 1 .. Len(names) : names[n] \in Symbol
    OBVIOUS
<1>2. \A n \in 1 .. Len(names) : \A t \in Tables :
         Added(t, Declared(t, names[n], f, rtd)) \in Tables
    BY <1>1, AddedIs, DeclaredIs
<1> QED
    BY <1>2 DEF WithStep

LEMMA WithExists ==
    ASSUME NEW t \in Tables, NEW f \in Files, NEW names \in Seq(Symbol), NEW rtd \in BOOLEAN
    PROVE  \E g : WithIt(t, f, names, rtd, g)
<1> DEFINE N == Len(names)
           step == WithStep(f, names, rtd)
<1>1. N \in Nat
    OBVIOUS
<1>2. PICK g : Recursion(g, N, Tables, t, step)
    <2>1. step \in [(1 .. N) \X Tables -> Tables]
        BY WithStepIs
    <2> HIDE DEF N, step
    <2> QED
        BY <1>1, <2>1, RecursionExists, Zenon
<1>3. \A n \in 1 .. N : g[n] = Added(g[n - 1], Declared(g[n - 1], names[n], f, rtd))
    <2> SUFFICES ASSUME NEW n \in 1 .. N
                 PROVE  g[n] = Added(g[n - 1], Declared(g[n - 1], names[n], f, rtd))
        OBVIOUS
    <2>1. n - 1 \in 0 .. N
        BY <1>1
    <2>2. g[n - 1] \in Tables /\ g[n] = step[<<n, g[n - 1]>>]
        BY <1>2, <2>1 DEF Recursion
    <2> QED
        BY <2>2, WithStepIs
<1>4. WithIt(t, f, names, rtd, g)
    <2>1. \A n \in 0 .. N : n = 0 \/ n \in 1 .. N
        BY <1>1
    <2>2. g = [n \in 0 .. N |-> g[n]] /\ g[0] = t
        BY <1>2 DEF Recursion
    <2> QED
        BY <1>3, <2>1, <2>2 DEF WithIt
<1> QED
    BY <1>4

LEMMA WithRecursion ==
    ASSUME NEW t \in Tables, NEW f \in Files, NEW names \in Seq(Symbol), NEW rtd \in BOOLEAN,
           NEW g, WithIt(t, f, names, rtd, g)
    PROVE  Recursion(g, Len(names), Tables, t, WithStep(f, names, rtd))
<1> DEFINE N == Len(names)
           Good == {k \in Nat : k <= N => g[k] \in Tables}
<1>1. /\ N \in Nat /\ DOMAIN g = 0 .. N /\ g[0] = t
      /\ \A n \in 1 .. N : g[n] = Added(g[n - 1], Declared(g[n - 1], names[n], f, rtd))
    <2>1. N \in Nat /\ DOMAIN g = 0 .. N
        BY DEF WithIt
    <2>2. \A n \in 0 .. N : g[n] = IF n = 0 THEN t
                               ELSE Added(g[n - 1], Declared(g[n - 1], names[n], f, rtd))
        BY Zenon DEF WithIt
    <2>3. 0 \in 0 .. N /\ \A n \in 1 .. N : n \in 0 .. N /\ n # 0
        BY <2>1
    <2> QED
        BY <2>1, <2>2, <2>3, Zenon
<1>2. \A n \in 1 .. N : \A u \in Tables : Added(u, Declared(u, names[n], f, rtd)) \in Tables
    <2>1. \A n \in 1 .. N : names[n] \in Symbol
        OBVIOUS
    <2> QED
        BY <2>1, AddedIs, DeclaredIs
<1>3. 0 \in Good
    BY <1>1
<1>4. ASSUME NEW k \in Nat, k \in Good PROVE k + 1 \in Good
    <2> SUFFICES ASSUME k + 1 <= N PROVE g[k + 1] \in Tables
        OBVIOUS
    <2>1. k + 1 \in 1 .. N /\ (k + 1) - 1 = k /\ g[k] \in Tables
        BY <1>4
    <2>2. g[k + 1] = Added(g[k], Declared(g[k], names[k + 1], f, rtd))
        BY <1>1, <2>1
    <2> QED
        BY <1>2, <2>1, <2>2
<1>5. Nat \subseteq Good
    <2> HIDE DEF Good
    <2> QED
        BY <1>3, <1>4, SetInduction
<1>6. \A n \in 0 .. N : g[n] \in Tables
    BY <1>5
<1>7. g \in [0 .. N -> Tables]
    BY <1>1, <1>6 DEF WithIt
<1>8. \A n \in 1 .. N : g[n] = WithStep(f, names, rtd)[<<n, g[n - 1]>>]
    <2> SUFFICES ASSUME NEW n \in 1 .. N
                 PROVE  g[n] = WithStep(f, names, rtd)[<<n, g[n - 1]>>]
        OBVIOUS
    <2>1. g[n - 1] \in Tables
        BY <1>6
    <2> QED
        BY <1>1, <2>1, WithStepIs
<1> QED
    BY <1>1, <1>7, <1>8 DEF Recursion

\* What a set of tables for each number of names has, if it has the table at first and
\* with every name that is added.
LEMMA WithIn ==
    ASSUME NEW t \in Tables, NEW f \in Files, NEW names \in Seq(Symbol), NEW rtd \in BOOLEAN,
           NEW G, t \in G[0],
           \A n \in 1 .. Len(names) : \A u \in Tables :
              u \in G[n - 1] => Added(u, Declared(u, names[n], f, rtd)) \in G[n]
    PROVE  With(t, f, names, rtd) \in G[Len(names)]
<1> DEFINE N == Len(names)
           g == CHOOSE h : h = [n \in 0 .. Len(names) |->
                   IF n = 0 THEN t ELSE Added(h[n - 1], Declared(h[n - 1], names[n], f, rtd))]
<1>1. With(t, f, names, rtd) = g[N]
    BY DEF With
<1>2. WithIt(t, f, names, rtd, g)
    BY WithExists DEF WithIt
<1> HIDE DEF g
<1>3. Recursion(g, N, Tables, t, WithStep(f, names, rtd))
    BY <1>2, WithRecursion
<1>4. N \in Nat
    OBVIOUS
<1>5. \A n \in 1 .. N : \A u \in Tables :
         u \in G[n - 1] => WithStep(f, names, rtd)[<<n, u>>] \in G[n]
    <2> SUFFICES ASSUME NEW n \in 1 .. N, NEW u \in Tables, u \in G[n - 1]
                 PROVE  WithStep(f, names, rtd)[<<n, u>>] \in G[n]
        OBVIOUS
    <2>1. WithStep(f, names, rtd)[<<n, u>>] = Added(u, Declared(u, names[n], f, rtd))
        BY WithStepIs
    <2>2. Added(u, Declared(u, names[n], f, rtd)) \in G[n]
        OBVIOUS
    <2> QED
        BY <2>1, <2>2, Zenon
<1>6. g[N] \in G[N]
    <2> HIDE DEF N
    <2> QED
        BY <1>3, <1>4, <1>5, RecursionIn
<1> QED
    BY <1>1, <1>6

LEMMA WithIs ==
    ASSUME NEW t \in Tables, NEW f \in Files, NEW names \in Seq(Symbol), NEW rtd \in BOOLEAN
    PROVE  /\ With(t, f, names, rtd) \in Tables
           /\ Extends(t.used, With(t, f, names, rtd).used)
<1> DEFINE S == {u \in Tables : Extends(t.used, u.used)}
           G == [n \in 0 .. Len(names) |-> S]
<1>1. \A n \in 0 .. Len(names) : G[n] = S
    OBVIOUS
<1>2. t \in S
    BY TableParts, ExtendsSelf
<1>3. ASSUME NEW n \in 1 .. Len(names), NEW u \in S
      PROVE  Added(u, Declared(u, names[n], f, rtd)) \in S
    <2>1. names[n] \in Symbol
        OBVIOUS
    <2>2. /\ Added(u, Declared(u, names[n], f, rtd)) \in Tables
          /\ Extends(u.used, Added(u, Declared(u, names[n], f, rtd)).used)
        BY <2>1, AddedIs, DeclaredIs
    <2> QED
        BY <2>2, TableParts, ExtendsTrans
<1>4. Len(names) \in Nat
    OBVIOUS
<1>5. /\ t \in G[0]
      /\ \A n \in 1 .. Len(names) : \A u \in Tables :
            u \in G[n - 1] => Added(u, Declared(u, names[n], f, rtd)) \in G[n]
    <2>1. \A n \in 1 .. Len(names) : n - 1 \in 0 .. Len(names) /\ n \in 0 .. Len(names)
        BY <1>4
    <2>2. 0 \in 0 .. Len(names)
        BY <1>4
    <2> HIDE DEF S, G
    <2> QED
        BY <1>1, <1>2, <1>3, <2>1, <2>2
<1>6. With(t, f, names, rtd) \in G[Len(names)]
    <2> HIDE DEF G
    <2> QED
        BY <1>5, WithIn
<1> QED
    BY <1>4, <1>6

-------------------------------------------------------------------------------
LEMMA SetUsed ==
    ASSUME NEW t \in Tables, NEW u
    PROVE  [t EXCEPT !.used = u] = [used |-> u, size |-> t.size]
BY DEF Tables

\* zend_hash_del_bucket leaves the other entries where they are.
LEMMA DeletedIs ==
    ASSUME NEW t \in Tables, NEW S \in SUBSET DOMAIN t.used
    PROVE  /\ Deleted(t, S) \in Tables
           /\ \A i \in DOMAIN t.used \ S : t.used[i] # Hole =>
                 i \in DOMAIN Deleted(t, S).used /\ Deleted(t, S).used[i] = t.used[i]
           /\ \A i \in DOMAIN Deleted(t, S).used :
                 /\ i \in DOMAIN t.used
                 /\ \/ Deleted(t, S).used[i] = Hole
                    \/ i \notin S /\ Deleted(t, S).used[i] = t.used[i]
           /\ \A m \in 0 .. Len(t.used) :
                 S = m + 1 .. Len(t.used) /\ NoHoles(t.used) => Len(Deleted(t, S).used) = m
<1> DEFINE r == t.used
           N == Len(r)
           h == [i \in DOMAIN r |-> IF i \in S THEN Hole ELSE r[i]]
           Last(n) == /\ n = 0 \/ h[n] # Hole
                      /\ \A i \in n + 1 .. Len(h) : h[i] = Hole
           last == CHOOSE n \in 0 .. Len(h) : Last(n)
           u == IF N \in S THEN SubSeq(h, 1, last) ELSE h
<1>1. /\ t = [used |-> r, size |-> t.size]
      /\ r \in Seq(Slots) /\ t.size \in Nat \ {0} /\ N \in Nat
      /\ DOMAIN r = 1 .. N /\ N <= t.size /\ \A i \in DOMAIN r : r[i] \in Slots
      /\ UniqueKeys(r)
    BY TableParts
<1>2. Deleted(t, S) = [used |-> u, size |-> t.size]
    <2>1. Deleted(t, S) = [t EXCEPT !.used = u]
        BY Zenon DEF Deleted
    <2> HIDE DEF u
    <2> QED
        BY <2>1, SetUsed
<1>3. h \in Seq(Slots) /\ Len(h) = N /\ DOMAIN h = 1 .. N
    <2>1. h \in [1 .. N -> Slots]
        BY <1>1 DEF Slots
    <2> QED
        BY <1>1, <2>1
<1>4. \A i \in 1 .. N : h[i] = IF i \in S THEN Hole ELSE r[i]
    BY <1>1
<1> HIDE DEF h
<1>5. last \in 0 .. N /\ Last(last)
    <2> DEFINE F == {0} \cup {i \in 1 .. N : h[i] # Hole}
    <2>1. F \in SUBSET (0 .. N) /\ F # {}
        BY <1>1
    <2>2. PICK n \in F : \A j \in F : j <= n
        <3> HIDE DEF F
        <3> QED
            BY <1>1, <2>1, LargestExists
    <2>3. n \in 0 .. Len(h) /\ Last(n)
        <3>1. n \in 0 .. N /\ (n = 0 \/ h[n] # Hole)
            BY <2>1
        <3>2. ASSUME NEW i \in n + 1 .. N, h[i] # Hole PROVE FALSE
            <4>1. i \in F
                BY <1>1, <3>1, <3>2
            <4>2. i <= n
                BY <2>2, <4>1
            <4> QED
                BY <1>1, <3>1, <3>2, <4>2
        <3> QED
            BY <1>3, <3>1, <3>2
    <2>4. \E k \in 0 .. Len(h) : Last(k)
        BY <2>3
    <2> HIDE DEF Last
    <2> QED
        BY <1>3, <2>4, Zenon
<1>6. (last = 0 \/ h[last] # Hole) /\ \A i \in last + 1 .. N : h[i] = Hole
    BY <1>3, <1>5
<1> HIDE DEF last
<1>7. /\ u \in Seq(Slots) /\ Len(u) \in 0 .. N /\ DOMAIN u = 1 .. Len(u)
      /\ Len(u) = IF N \in S THEN last ELSE N
      /\ \A i \in 1 .. Len(u) : u[i] = h[i]
    <2>1. CASE N \in S
        <3>1. SubSeq(h, 1, last) \in Seq(Slots) /\ Len(SubSeq(h, 1, last)) = last
              /\ \A i \in 1 .. last : SubSeq(h, 1, last)[i] = h[i]
            BY <1>1, <1>3, <1>5
        <3> QED
            BY <1>1, <1>5, <2>1, <3>1
    <2>2. CASE N \notin S
        BY <1>1, <1>3, <2>2
    <2> QED
        BY <2>1, <2>2
<1> HIDE DEF u
<1>8. \A i \in 1 .. N : h[i] # Hole => i \in 1 .. Len(u)
    BY <1>1, <1>5, <1>6, <1>7
<1>9. \A i \in DOMAIN u : i \in DOMAIN r /\ (u[i] = Hole \/ (i \notin S /\ u[i] = r[i]))
    BY <1>1, <1>4, <1>7
<1>10. UniqueKeys(u)
    BY <1>1, <1>9 DEF UniqueKeys
<1>11. Deleted(t, S) \in Tables
    BY <1>1, <1>2, <1>7, <1>10, MakeTable
<1>12. \A i \in DOMAIN r \ S : r[i] # Hole => i \in DOMAIN u /\ u[i] = r[i]
    BY <1>1, <1>4, <1>7, <1>8
<1>13. ASSUME NEW m \in 0 .. N, S = m + 1 .. N, NoHoles(r) PROVE Len(u) = m
    <2>1. CASE m = N
        <3>1. N \notin S
            BY <1>1, <1>13, <2>1
        <3> QED
            BY <1>7, <2>1, <3>1
    <2>2. CASE m # N
        <3>1. N \in S
            BY <1>1, <1>13, <2>2
        <3>2. \A i \in 1 .. m : h[i] # Hole
            BY <1>1, <1>4, <1>13 DEF NoHoles
        <3>3. \A i \in m + 1 .. N : h[i] = Hole
            BY <1>1, <1>4, <1>13
        <3>4. last = m
            BY <1>1, <1>5, <1>6, <3>2, <3>3
        <3> QED
            BY <1>7, <3>1, <3>4
    <2> QED
        BY <2>1, <2>2
<1> QED
    BY <1>2, <1>9, <1>11, <1>12, <1>13

LEMMA TruncatedIs ==
    ASSUME NEW t \in Tables, NEW n \in Nat
    PROVE  /\ Truncated(t, n) \in Tables
           /\ Len(Truncated(t, n).used) = IF Len(t.used) > n THEN n ELSE Len(t.used)
           /\ \A i \in DOMAIN Truncated(t, n).used :
                 i \in DOMAIN t.used /\ Truncated(t, n).used[i] = t.used[i]
<1> DEFINE r == t.used
           u == SubSeq(r, 1, n)
<1>1. /\ t = [used |-> r, size |-> t.size]
      /\ r \in Seq(Slots) /\ t.size \in Nat \ {0} /\ Len(r) \in Nat
      /\ DOMAIN r = 1 .. Len(r) /\ Len(r) <= t.size /\ UniqueKeys(r)
    BY TableParts
<1>2. CASE Len(r) > n
    <2>1. u \in Seq(Slots) /\ Len(u) = n /\ DOMAIN u = 1 .. n /\ \A i \in 1 .. n : u[i] = r[i]
        BY <1>1, <1>2
    <2>2. Truncated(t, n) = [used |-> u, size |-> t.size]
        BY <1>1, <1>2 DEF Truncated
    <2> HIDE DEF u
    <2>3. UniqueKeys(u)
        BY <1>1, <1>2, <2>1 DEF UniqueKeys
    <2>4. Truncated(t, n) \in Tables
        BY <1>1, <1>2, <2>1, <2>2, <2>3, MakeTable
    <2> QED
        BY <1>1, <1>2, <2>1, <2>2, <2>4
<1>3. CASE ~(Len(r) > n)
    BY <1>1, <1>3 DEF Truncated
<1> QED
    BY <1>2, <1>3

\* Flagging the constants behind a count.
FlaggedTable(t, n) ==
    [t EXCEPT !.used = [i \in DOMAIN t.used |->
                          IF i > n THEN Flagged(t.used[i]) ELSE t.used[i]]]

LEMMA FlaggedIs ==
    ASSUME NEW t \in Tables, NEW n \in Nat
    PROVE  /\ FlaggedTable(t, n) \in Tables
           /\ DOMAIN FlaggedTable(t, n).used = DOMAIN t.used
           /\ Len(FlaggedTable(t, n).used) = Len(t.used)
           /\ \A i \in DOMAIN t.used :
                 FlaggedTable(t, n).used[i] = IF i > n THEN Flagged(t.used[i]) ELSE t.used[i]
           /\ \A b \in Buckets : /\ Flagged(b) \in Buckets /\ Flagged(b).key = b.key
                                 /\ Flagged(b).file = b.file /\ Flagged(b).owned = TRUE
<1> DEFINE r == t.used
           u == [i \in DOMAIN r |-> IF i > n THEN Flagged(r[i]) ELSE r[i]]
<1>1. /\ t = [used |-> r, size |-> t.size]
      /\ r \in Seq(Slots) /\ t.size \in Nat \ {0} /\ Len(r) \in Nat
      /\ DOMAIN r = 1 .. Len(r) /\ Len(r) <= t.size /\ UniqueKeys(r)
      /\ \A i \in DOMAIN r : r[i] \in Slots
    BY TableParts
<1>2. ASSUME NEW b \in Buckets
      PROVE  /\ Flagged(b) \in Buckets /\ Flagged(b).key = b.key
             /\ Flagged(b).file = b.file /\ Flagged(b).owned = TRUE
    <2>1. b # Hole /\ TRUE \in BOOLEAN
        BY BucketIsNoHole
    <2>2. Flagged(b) = [b EXCEPT !.owned = TRUE]
        BY <2>1 DEF Flagged
    <2> QED
        BY <2>2 DEF Buckets
<1>3. Flagged(Hole) = Hole
    BY DEF Flagged
<1>4. \A d \in Slots : Flagged(d) \in Slots /\ (Flagged(d) = Hole <=> d = Hole)
                       /\ Flagged(d).key = d.key
    BY <1>2, <1>3, BucketIsNoHole DEF Slots
<1>5. FlaggedTable(t, n) = [used |-> u, size |-> t.size]
    <2>1. FlaggedTable(t, n) = [t EXCEPT !.used = u]
        BY Zenon DEF FlaggedTable
    <2> HIDE DEF u
    <2> QED
        BY <2>1, SetUsed
<1>6. DOMAIN u = DOMAIN r /\ \A i \in DOMAIN r : u[i] = IF i > n THEN Flagged(r[i]) ELSE r[i]
    OBVIOUS
<1> HIDE DEF u
<1>7. \A i \in DOMAIN r : u[i] \in Slots /\ (u[i] = Hole <=> r[i] = Hole) /\ u[i].key = r[i].key
    BY <1>1, <1>4, <1>6
<1>8. u \in Seq(Slots) /\ Len(u) = Len(r)
    <2>1. u = [i \in 1 .. Len(r) |-> u[i]]
        BY <1>1 DEF u
    <2>2. u \in [1 .. Len(r) -> Slots]
        BY <1>1, <1>7, <2>1
    <2> QED
        BY <1>1, <2>2
<1>9. UniqueKeys(u)
    BY <1>1, <1>6, <1>7 DEF UniqueKeys
<1>10. FlaggedTable(t, n) \in Tables
    BY <1>1, <1>5, <1>8, <1>9, MakeTable
<1>11. FlaggedTable(t, n).used = u
    BY <1>5
<1>12. \A b \in Buckets : /\ Flagged(b) \in Buckets /\ Flagged(b).key = b.key
                          /\ Flagged(b).file = b.file /\ Flagged(b).owned = TRUE
    BY <1>2, Zenon
<1> QED
    BY <1>6, <1>8, <1>10, <1>11, <1>12, Zenon

-------------------------------------------------------------------------------
Compiling == {"consts", "resolve", "bailout"}

TypeInv ==
    /\ pc \in {"start", "idle", "consts", "resolve", "bailout", "done"}
    /\ tab \in [Kind -> Tables]
    /\ IF pc \in Compiling THEN cur \in Files ELSE cur = None
    /\ todo \in Seq(Symbol)
    /\ orig \in [Kind -> Nat] /\ marked \in [Kind -> Nat]
    /\ included \in SUBSET Files
    /\ compiles \in 0 .. MaxCompiles
    /\ script = None \/ script.file \in Files
    /\ before \in [Kind -> SUBSET Buckets] /\ atMark \in [Kind -> SUBSET Buckets]

\* What was in the tables at the mark is still at their front, without a hole.
MarkInv ==
    /\ pc = "start" => \A k \in Kind : NoHoles(tab[k].used)
    /\ pc # "start" => \A k \in Kind :
          /\ marked[k] <= Len(tab[k].used)
          /\ \A i \in 1 .. marked[k] : tab[k].used[i] \in atMark[k]
          /\ \A b \in atMark[k] : \E i \in 1 .. marked[k] : tab[k].used[i] = b

\* What was in the tables when a compilation began is not behind the counts.
OrigInv ==
    pc \in Compiling => \A k \in Kind :
        /\ marked[k] <= orig[k]
        /\ \A b \in before[k] : \E i \in DOMAIN tab[k].used :
              i <= orig[k] /\ tab[k].used[i] = b

LEMMA EntriesAre ==
    ASSUME NEW t \in Tables
    PROVE  /\ Entries(t) \in SUBSET Buckets
           /\ \A b \in Entries(t) : \E i \in DOMAIN t.used : t.used[i] = b
           /\ \A i \in DOMAIN t.used : t.used[i] = Hole \/ t.used[i] \in Entries(t)
BY TableParts DEF Entries, Slots

LEMMA AllEntriesAre ==
    ASSUME TypeInv
    PROVE  AllEntries \in [Kind -> SUBSET Buckets] /\ NumUsed \in [Kind -> Nat]
BY EntriesAre, TableParts DEF TypeInv, AllEntries, NumUsed

LEMMA NamesType ==
    ASSUME NEW f \in Files, NEW k \in Kind, NEW n \in 0 .. Count(k, f)
    PROVE  /\ Declares[f][k] \in Seq(Symbol) /\ Count(k, f) \in Nat
           /\ SubSeq(Declares[f][k], 1, n) \in Seq(Symbol)
           /\ Len(SubSeq(Declares[f][k], 1, n)) = n
           /\ \A i \in 1 .. n : SubSeq(Declares[f][k], 1, n)[i] = Declares[f][k][i]
<1>1. Declares[f][k] \in Seq(Symbol)
    BY FileAssumption
<1> QED
    BY <1>1 DEF Count

LEMMA CompiledIs ==
    ASSUME TypeInv, NEW f \in Files,
           NEW i \in 0 .. Count("function", f), NEW j \in 0 .. Count("class", f)
    PROVE  /\ Compiled(f, i, j) \in [Kind -> Tables]
           /\ \A k \in Kind : Extends(tab[k].used, Compiled(f, i, j)[k].used)
           /\ Compiled(f, i, j)["constant"] = tab["constant"]
           /\ Compiled(f, i, j)["function"] =
                 With(tab["function"], f, SubSeq(Declares[f]["function"], 1, i), FALSE)
           /\ Compiled(f, i, j)["class"] =
                 With(tab["class"], f, SubSeq(Declares[f]["class"], 1, j), TRUE)
<1> DEFINE new == Compiled(f, i, j)
           fs == SubSeq(Declares[f]["function"], 1, i)
           cs == SubSeq(Declares[f]["class"], 1, j)
<1>1. "function" \in Kind /\ "class" \in Kind /\ "constant" \in Kind
      /\ \A k \in Kind : k = "function" \/ k = "class" \/ k = "constant"
    BY DEF Kind
<1>2. fs \in Seq(Symbol) /\ cs \in Seq(Symbol)
    BY <1>1, NamesType
<1>3. tab \in [Kind -> Tables]
    BY DEF TypeInv
<1>4. /\ new \in [Kind -> {new[k] : k \in Kind}]
      /\ new["constant"] = tab["constant"]
      /\ new["function"] = With(tab["function"], f, fs, FALSE)
      /\ new["class"] = With(tab["class"], f, cs, TRUE)
    BY <1>1, <1>3 DEF Compiled
<1> HIDE DEF new, fs, cs
<1>5. \A k \in Kind : new[k] \in Tables /\ Extends(tab[k].used, new[k].used)
    <2>1. /\ new["function"] \in Tables
          /\ Extends(tab["function"].used, new["function"].used)
        BY <1>1, <1>2, <1>3, <1>4, WithIs
    <2>2. new["class"] \in Tables /\ Extends(tab["class"].used, new["class"].used)
        BY <1>1, <1>2, <1>3, <1>4, WithIs
    <2>3. new["constant"] \in Tables /\ Extends(tab["constant"].used, new["constant"].used)
        BY <1>1, <1>3, <1>4, TableParts, ExtendsSelf
    <2> QED
        BY <1>1, <2>1, <2>2, <2>3
<1>6. new \in [Kind -> Tables]
    BY <1>4, <1>5
<1> QED
    BY <1>4, <1>5, <1>6 DEF new, fs, cs

\* The steps that add to the tables.
Grows == tab' \in [Kind -> Tables] /\ \A k \in Kind : Extends(tab[k].used, tab'[k].used)

LEMMA SameGrows == ASSUME TypeInv, tab' = tab PROVE Grows
BY TableParts, ExtendsSelf DEF Grows, TypeInv

LEMMA BeginGrows == ASSUME TypeInv, NEW f \in Files, Begin(f) PROVE Grows
<1>1. PICK i \in 0 .. Count("function", f), j \in 0 .. Count("class", f) :
         tab' = Compiled(f, i, j)
    BY DEF Begin
<1> QED
    BY <1>1, CompiledIs DEF Grows

LEMMA RegisterGrows == ASSUME TypeInv, RegisterConst PROVE Grows
<1> DEFINE b == Bucket(Head(todo), None, cur)
<1>1. cur \in Files /\ Head(todo) \in Symbol
    BY DEF TypeInv, RegisterConst, Compiling
<1>2. b \in Buckets
    BY <1>1, BucketParts DEF Owner
<1>3. tab' = [tab EXCEPT !["constant"] = Added(@, b)]
    BY DEF RegisterConst
<1> HIDE DEF b
<1>4. tab \in [Kind -> Tables] /\ "constant" \in Kind
    BY DEF TypeInv, Kind
<1>5. Added(tab["constant"], b) \in Tables
      /\ Extends(tab["constant"].used, Added(tab["constant"], b).used)
    BY <1>2, <1>4, AddedIs
<1>6. \A k \in Kind : tab'[k] \in Tables /\ Extends(tab[k].used, tab'[k].used)
    BY <1>3, <1>4, <1>5, TableParts, ExtendsSelf
<1> QED
    BY <1>3, <1>4, <1>6 DEF Grows

LEMMA AutoloadGrows == ASSUME TypeInv, NEW g \in Files, Autoload(g) PROVE Grows
<1>1. CASE tab' = [k \in Kind |-> With(tab[k], g, Declares[g][k], FALSE)]
    <2>1. ASSUME NEW k \in Kind
          PROVE  tab'[k] \in Tables /\ Extends(tab[k].used, tab'[k].used)
        <3>1. tab[k] \in Tables /\ Declares[g][k] \in Seq(Symbol)
            BY FileAssumption DEF TypeInv
        <3>2. tab'[k] = With(tab[k], g, Declares[g][k], FALSE)
            BY <1>1
        <3> QED
            BY <3>1, <3>2, WithIs
    <2> QED
        BY <1>1, <2>1 DEF Grows
<1>2. CASE \E i \in 0 .. Count("function", g), j \in 0 .. Count("class", g) :
              tab' = Compiled(g, i, j)
    BY <1>2, CompiledIs DEF Grows
<1> QED
    BY <1>1, <1>2 DEF Autoload

\* The constant table when a script's constants are flagged.
LEMMA FlagsTable ==
    ASSUME TypeInv, FlagConstants
    PROVE  /\ tab' \in [Kind -> Tables]
           /\ tab'["constant"] = FlaggedTable(tab["constant"], orig["constant"])
           /\ \A k \in Kind \ {"constant"} : tab'[k] = tab[k]
<1>1. tab' = [tab EXCEPT !["constant"] = FlaggedTable(@, orig["constant"])]
    BY DEF FlagConstants, FlaggedTable
<1>2. tab \in [Kind -> Tables] /\ "constant" \in Kind /\ orig["constant"] \in Nat
    BY DEF TypeInv, Kind
<1>3. FlaggedTable(tab["constant"], orig["constant"]) \in Tables
    BY <1>2, FlaggedIs
<1> QED
    BY <1>1, <1>2, <1>3

\* Flagging changes nothing in place, and nothing at all up to the counts.
LEMMA FlagsPlaces ==
    ASSUME TypeInv, FlagConstants, NEW k \in Kind
    PROVE  /\ Len(tab'[k].used) = Len(tab[k].used)
           /\ DOMAIN tab'[k].used = DOMAIN tab[k].used
           /\ \A i \in DOMAIN tab[k].used : ~(i > orig[k]) => tab'[k].used[i] = tab[k].used[i]
<1>1. tab[k] \in Tables /\ orig[k] \in Nat
    BY DEF TypeInv
<1>2. CASE k = "constant"
    <2>1. PICK t : t = tab[k]
        OBVIOUS
    <2>2. PICK n : n = orig[k]
        OBVIOUS
    <2>3. t \in Tables /\ n \in Nat
        BY <1>1, <2>1, <2>2
    <2>4. tab'[k] = FlaggedTable(t, n)
        BY <1>2, <2>1, <2>2, FlagsTable
    <2>5. /\ DOMAIN FlaggedTable(t, n).used = DOMAIN t.used
          /\ Len(FlaggedTable(t, n).used) = Len(t.used)
          /\ \A i \in DOMAIN t.used :
                 FlaggedTable(t, n).used[i] = IF i > n THEN Flagged(t.used[i]) ELSE t.used[i]
        BY <2>3, FlaggedIs, Zenon
    <2> QED
        BY <2>1, <2>2, <2>4, <2>5
<1>3. CASE k # "constant"
    BY <1>3, FlagsTable
<1> QED
    BY <1>2, <1>3

LEMMA MovedType ==
    ASSUME TypeInv, NEW k \in Kind PROVE Moved(k) \in SUBSET DOMAIN tab[k].used
BY TableParts DEF TypeInv, Moved

LEMMA FinishTable ==
    ASSUME TypeInv, Finish
    PROVE  /\ tab' \in [Kind -> Tables]
           /\ \A k \in Kind : tab'[k] = Deleted(tab[k], Moved(k))
BY MovedType, DeletedIs DEF TypeInv, Finish

LEMMA DiscardTable ==
    ASSUME TypeInv, Discard
    PROVE  /\ tab' \in [Kind -> Tables]
           /\ \A k \in Kind : tab'[k] = Truncated(tab[k], orig[k])
BY TruncatedIs DEF TypeInv, Discard

LEMMA CleanupTable ==
    ASSUME TypeInv, Cleanup
    PROVE  /\ tab' \in [Kind -> Tables]
           /\ \A k \in Kind : tab'[k] = Truncated(tab[k], marked[k])
BY TruncatedIs DEF TypeInv, Cleanup

LEMMA TabStep == ASSUME TypeInv, [Next]_vars PROVE tab' \in [Kind -> Tables]
<1>1. CASE Mark
    BY <1>1, SameGrows DEF Mark, Grows
<1>2. CASE RegisterConst
    BY <1>2, RegisterGrows DEF Grows
<1>3. CASE FlagConstants
    BY <1>3, FlagsTable
<1>4. CASE Throw
    BY <1>4, SameGrows DEF Throw, Grows
<1>5. CASE Finish
    BY <1>5, FinishTable
<1>6. CASE Discard
    BY <1>6, DiscardTable
<1>7. CASE Cleanup
    BY <1>7, CleanupTable
<1>8. ASSUME NEW f \in Files, Begin(f) PROVE tab' \in [Kind -> Tables]
    BY <1>8, BeginGrows DEF Grows
<1>9. ASSUME NEW f \in Files, Autoload(f) PROVE tab' \in [Kind -> Tables]
    BY <1>9, AutoloadGrows DEF Grows
<1>10. CASE UNCHANGED vars
    BY <1>10, SameGrows DEF vars, Grows
<1> QED
    BY <1>1, <1>2, <1>3, <1>4, <1>5, <1>6, <1>7, <1>8, <1>9, <1>10 DEF Next

ControlInv ==
    /\ pc \in {"start", "idle", "consts", "resolve", "bailout", "done"}
    /\ IF pc \in Compiling THEN cur \in Files ELSE cur = None
    /\ todo \in Seq(Symbol)
    /\ included \in SUBSET Files
    /\ compiles \in 0 .. MaxCompiles
    /\ script = None \/ script.file \in Files

LEMMA ControlStep == ASSUME TypeInv, [Next]_vars PROVE ControlInv'
<1>1. CASE Mark
    BY <1>1 DEF Mark, ControlInv, TypeInv, Compiling, Evaluating
<1>2. CASE RegisterConst
    <2>1. Tail(todo) \in Seq(Symbol)
        BY <1>2 DEF RegisterConst, TypeInv
    <2> QED
        BY <1>2, <2>1 DEF RegisterConst, ControlInv, TypeInv, Compiling
<1>3. CASE FlagConstants
    BY <1>3 DEF FlagConstants, ControlInv, TypeInv, Compiling, Evaluating
<1>4. CASE Throw
    BY <1>4 DEF Throw, ControlInv, TypeInv, Compiling, Evaluating
<1>5. CASE Finish
    <2>1. cur \in Files /\ (script' = None \/ script'.file = cur)
        BY <1>5 DEF Finish, TypeInv, Compiling
    <2> QED
        BY <1>5, <2>1 DEF Finish, ControlInv, TypeInv, Compiling
<1>6. CASE Discard
    BY <1>6 DEF Discard, ControlInv, TypeInv, Compiling, Evaluating
<1>7. CASE Cleanup
    BY <1>7 DEF Cleanup, ControlInv, TypeInv, Compiling, Evaluating
<1>8. ASSUME NEW f \in Files, Begin(f) PROVE ControlInv'
    <2>1. Declares[f]["constant"] \in Seq(Symbol)
        BY FileAssumption DEF Kind
    <2>2. compiles' \in 0 .. MaxCompiles
        BY <1>8, SizeAssumption DEF Begin, TypeInv
    <2>3. pc' \in Compiling /\ cur' = f
        BY <1>8 DEF Begin, Compiling
    <2> QED
        BY <1>8, <2>1, <2>2, <2>3 DEF Begin, ControlInv, TypeInv, Compiling
<1>9. ASSUME NEW f \in Files, Autoload(f) PROVE ControlInv'
    BY <1>9 DEF Autoload, ControlInv, TypeInv, Compiling, Evaluating
<1>10. CASE UNCHANGED vars
    BY <1>10 DEF vars, ControlInv, TypeInv, Compiling, Evaluating
<1> QED
    BY <1>1, <1>2, <1>3, <1>4, <1>5, <1>6, <1>7, <1>8, <1>9, <1>10 DEF Next

CountInv ==
    /\ orig \in [Kind -> Nat] /\ marked \in [Kind -> Nat]
    /\ before \in [Kind -> SUBSET Buckets] /\ atMark \in [Kind -> SUBSET Buckets]

LEMMA CountStep == ASSUME TypeInv, [Next]_vars PROVE CountInv'
<1>1. CASE Mark
    BY <1>1, AllEntriesAre DEF Mark, CountInv, TypeInv
<1>2. CASE RegisterConst
    BY <1>2, AllEntriesAre DEF RegisterConst, CountInv, TypeInv
<1>3. CASE FlagConstants
    BY <1>3, AllEntriesAre DEF FlagConstants, CountInv, TypeInv
<1>4. CASE Throw
    BY <1>4, AllEntriesAre DEF Throw, CountInv, TypeInv
<1>5. CASE Finish
    BY <1>5, AllEntriesAre DEF Finish, CountInv, TypeInv
<1>6. CASE Discard
    BY <1>6, AllEntriesAre DEF Discard, CountInv, TypeInv
<1>7. CASE Cleanup
    BY <1>7, AllEntriesAre DEF Cleanup, CountInv, TypeInv
<1>8. ASSUME NEW f \in Files, Begin(f) PROVE CountInv'
    BY <1>8, AllEntriesAre DEF Begin, CountInv, TypeInv
<1>9. ASSUME NEW f \in Files, Autoload(f) PROVE CountInv'
    BY <1>9, AllEntriesAre DEF Autoload, CountInv, TypeInv
<1>10. CASE UNCHANGED vars
    BY <1>10, AllEntriesAre DEF vars, CountInv, TypeInv
<1> QED
    BY <1>1, <1>2, <1>3, <1>4, <1>5, <1>6, <1>7, <1>8, <1>9, <1>10 DEF Next

LEMMA TypeStep == TypeInv /\ [Next]_vars => TypeInv'
BY TabStep, ControlStep, CountStep DEF TypeInv, ControlInv, CountInv

\* The tables at the beginning: what is internal, and no hole.
InternalEntries(k) == {Bucket(Internal[k][i], None, None) : i \in DOMAIN Internal[k]}

LEMMA InternalTable ==
    ASSUME Init
    PROVE  /\ tab \in [Kind -> Tables]
           /\ \A k \in Kind : /\ NoHoles(tab[k].used)
                              /\ {tab[k].used[i] : i \in DOMAIN tab[k].used} = InternalEntries(k)
                              /\ Entries(tab[k]) = InternalEntries(k)
<1>1. ASSUME NEW k \in Kind
      PROVE  /\ tab[k] \in Tables /\ NoHoles(tab[k].used)
             /\ {tab[k].used[i] : i \in DOMAIN tab[k].used} = InternalEntries(k)
             /\ Entries(tab[k]) = InternalEntries(k)
    <2> DEFINE s == Internal[k]
               u == [i \in DOMAIN s |-> Bucket(s[i], None, None)]
    <2>1. tab[k] = [used |-> u, size |-> FirstSize]
        BY DEF Init
    <2>2. s \in Seq(Symbol) /\ \A i, j \in DOMAIN s : s[i] = s[j] => i = j
        BY InternalAssumption
    <2>3. Len(s) \in Nat /\ DOMAIN s = 1 .. Len(s) /\ \A i \in DOMAIN s : s[i] \in Symbol
        BY <2>2
    <2>4. \A i \in DOMAIN s : /\ u[i] = Bucket(s[i], None, None)
                              /\ u[i] \in Buckets /\ u[i].key = <<s[i], None>>
        <3>1. None \in Owner
            BY DEF Owner
        <3>2. \A i \in DOMAIN s : /\ Bucket(s[i], None, None) \in Buckets
                                  /\ Bucket(s[i], None, None).key = <<s[i], None>>
            BY <2>3, <3>1, BucketParts
        <3> QED
            BY <3>2
    <2>5. u \in [1 .. Len(s) -> Slots]
        BY <2>3, <2>4 DEF Slots
    <2>6. DOMAIN u = DOMAIN s /\ InternalEntries(k) = {u[i] : i \in DOMAIN s}
        BY DEF InternalEntries
    <2> HIDE DEF u
    <2>7. u \in Seq(Slots) /\ Len(u) = Len(s)
        BY <2>3, <2>5
    <2>8. UniqueKeys(u)
        BY <2>2, <2>4, <2>6 DEF UniqueKeys
    <2>9. FirstSize \in Nat \ {0} /\ Len(u) <= FirstSize
        BY <2>7, SizeAssumption
    <2>10. [used |-> u, size |-> FirstSize] \in Tables
        BY <2>7, <2>8, <2>9, MakeTable
    <2>11. NoHoles(u)
        BY <2>4, <2>6, BucketIsNoHole DEF NoHoles
    <2>12. tab[k].used = u
        BY <2>1
    <2>13. {u[i] : i \in DOMAIN u} \ {Hole} = {u[i] : i \in DOMAIN u}
        BY <2>11 DEF NoHoles
    <2> QED
        BY <2>1, <2>6, <2>10, <2>11, <2>12, <2>13 DEF Entries
<1>2. tab = [k \in Kind |-> tab[k]]
    BY DEF Init
<1> QED
    BY <1>1, <1>2

LEMMA InitType == Init => TypeInv
<1> SUFFICES ASSUME Init PROVE TypeInv
    OBVIOUS
<1>1. tab \in [Kind -> Tables]
    BY InternalTable
<1>2. AllEntries \in [Kind -> SUBSET Buckets]
    BY <1>1, EntriesAre DEF AllEntries
<1> QED
    BY <1>1, <1>2, SizeAssumption DEF Init, TypeInv, Compiling

LEMMA InvType == TypeInv => TypeOK
<1> SUFFICES ASSUME TypeInv PROVE TypeOK
    OBVIOUS
<1>1. ASSUME NEW k \in Kind, NEW i \in DOMAIN tab[k].used, NEW j \in DOMAIN tab[k].used
      PROVE  /\ Len(tab[k].used) <= tab[k].size
             /\ tab[k].used[i] = Hole \/ tab[k].used[i].file \in Files \cup {None}
             /\ tab[k].used[i] = tab[k].used[j] => i = j \/ tab[k].used[i] = Hole
             /\ tab[k].used[i].key = tab[k].used[j].key => i = j \/ tab[k].used[i] = Hole
    <2>1. tab[k] \in Tables
        BY DEF TypeInv
    <2>2. /\ tab[k].used[i] \in Slots /\ tab[k].used[j] \in Slots
          /\ Len(tab[k].used) <= tab[k].size /\ UniqueKeys(tab[k].used)
        BY <2>1, TableParts
    <2>3. tab[k].used[i] = Hole \/ tab[k].used[i].file \in Files \cup {None}
        BY <2>2 DEF Slots, Buckets, Owner
    <2>4. tab[k].used[i] # Hole /\ tab[k].used[i].key = tab[k].used[j].key
             => tab[k].used[j] # Hole
        BY <2>2, BucketIsNoHole DEF Slots
    <2> QED
        BY <2>2, <2>3, <2>4 DEF UniqueKeys
<1>2. \A k \in Kind : Len(tab[k].used) <= tab[k].size
    BY TableParts DEF TypeInv
<1>3. cur \in Files \cup {None} /\ (cur = None <=> pc \in {"start", "idle", "done"})
    BY FileAssumption DEF TypeInv, Compiling
<1> QED
    BY <1>1, <1>2, <1>3 DEF TypeOK, TypeInv

\* Compilation: a table is never longer than its memory and holds no key twice, however
\* much is added, moved out and discarded and wherever holes are closed.
THEOREM TypeCorrect == Spec => []TypeOK
<1>1. TypeInv /\ [Next]_vars => TypeInv'
    BY TypeStep
<1> QED
    BY <1>1, InitType, InvType, PTL DEF Spec

\* A script takes no function and no class of another file, whatever the autoloader puts
\* behind the counts and wherever closing holes moves it.
THEOREM TakesOwnOnly == Spec => []OwnOnly
<1>1. Init => OwnOnly
    BY DEF Init, OwnOnly
<1>2. TypeInv /\ OwnOnly /\ [Next]_vars => OwnOnly'
    <2> SUFFICES ASSUME TypeInv, OwnOnly, [Next]_vars PROVE OwnOnly'
        OBVIOUS
    <2>1. CASE Finish /\ ~thrown
        <3>1. /\ script'.file = cur
              /\ \A k \in Kind : script'.items[k] = {tab[k].used[i] : i \in Moved(k)}
            BY <2>1 DEF Finish
        <3>2. \A k \in {"function", "class"} : \A i \in Moved(k) : tab[k].used[i].file = cur
            BY DEF Moved, Moves
        <3> QED
            BY <3>1, <3>2 DEF OwnOnly, Kind
    <2>2. CASE script' \in {None, script}
        BY <2>2 DEF OwnOnly
    <2> QED
        BY <2>1, <2>2 DEF Next, vars, Mark, RegisterConst, FlagConstants, Throw, Finish,
                          Discard, Cleanup, Begin, Autoload
<1> QED
    BY <1>1, <1>2, InitType, TypeStep, PTL DEF Spec

-------------------------------------------------------------------------------
LEMMA MarkKept ==
    ASSUME TypeInv, TypeInv', MarkInv, pc # "start", pc' # "start",
           marked' = marked, atMark' = atMark,
           \A k \in Kind : /\ marked[k] <= Len(tab'[k].used)
                           /\ \A i \in 1 .. marked[k] : tab'[k].used[i] = tab[k].used[i]
    PROVE  MarkInv'
BY DEF MarkInv

LEMMA MarkFront ==
    ASSUME TypeInv, MarkInv, pc # "start", NEW k \in Kind
    PROVE  /\ marked[k] \in 0 .. Len(tab[k].used)
           /\ \A i \in 1 .. marked[k] : i \in DOMAIN tab[k].used /\ tab[k].used[i] # Hole
<1>1. /\ marked[k] \in Nat /\ tab[k] \in Tables /\ atMark[k] \in SUBSET Buckets
      /\ marked[k] <= Len(tab[k].used)
    BY DEF TypeInv, MarkInv
<1>2. Len(tab[k].used) \in Nat /\ DOMAIN tab[k].used = 1 .. Len(tab[k].used)
    BY <1>1, TableParts
<1> QED
    BY <1>1, <1>2, BucketIsNoHole DEF MarkInv

LEMMA MarkGrows ==
    ASSUME TypeInv, TypeInv', MarkInv, pc # "start", pc' # "start",
           marked' = marked, atMark' = atMark, Grows
    PROVE  MarkInv'
<1>1. ASSUME NEW k \in Kind
      PROVE  /\ marked[k] <= Len(tab'[k].used)
             /\ \A i \in 1 .. marked[k] : tab'[k].used[i] = tab[k].used[i]
    BY MarkFront DEF Grows, Extends
<1> QED
    BY <1>1, MarkKept

LEMMA MarkStep ==
    ASSUME TypeInv, TypeInv', MarkInv, OrigInv, [Next]_vars PROVE MarkInv'
<1>1. CASE Mark
    <2>1. ASSUME NEW k \in Kind
          PROVE  /\ marked'[k] <= Len(tab'[k].used)
                 /\ \A i \in 1 .. marked'[k] : tab'[k].used[i] \in atMark'[k]
                 /\ \A b \in atMark'[k] : \E i \in 1 .. marked'[k] : tab'[k].used[i] = b
        <3>1. tab[k] \in Tables /\ NoHoles(tab[k].used)
            BY <1>1 DEF TypeInv, MarkInv, Mark
        <3>2. Len(tab[k].used) \in Nat /\ DOMAIN tab[k].used = 1 .. Len(tab[k].used)
            BY <3>1, TableParts
        <3>3. tab' = tab /\ marked'[k] = Len(tab[k].used) /\ atMark'[k] = Entries(tab[k])
            BY <1>1 DEF Mark, NumUsed, AllEntries
        <3> QED
            BY <3>1, <3>2, <3>3, EntriesAre DEF NoHoles
    <2> QED
        BY <1>1, <2>1 DEF Mark, MarkInv
<1>2. CASE RegisterConst
    BY <1>2, RegisterGrows, MarkGrows DEF RegisterConst
<1>3. CASE FlagConstants
    <2>1. ASSUME NEW k \in Kind
          PROVE  /\ marked[k] <= Len(tab'[k].used)
                 /\ \A i \in 1 .. marked[k] : tab'[k].used[i] = tab[k].used[i]
        <3>1. tab[k] \in Tables /\ marked[k] \in Nat /\ orig[k] \in Nat /\ marked[k] <= orig[k]
            BY <1>3 DEF TypeInv, OrigInv, FlagConstants, Compiling
        <3>2. marked[k] <= Len(tab[k].used) /\ Len(tab[k].used) \in Nat
              /\ DOMAIN tab[k].used = 1 .. Len(tab[k].used)
            BY <1>3, <3>1, TableParts DEF MarkInv, FlagConstants
        <3>3. \A i \in 1 .. marked[k] : i \in DOMAIN tab[k].used /\ ~(i > orig[k])
            BY <3>1, <3>2
        <3> QED
            BY <1>3, <3>2, <3>3, FlagsPlaces
    <2> QED
        BY <1>3, <2>1, MarkKept DEF FlagConstants
<1>4. CASE Throw
    BY <1>4, SameGrows, MarkGrows DEF Throw, Evaluating, TypeInv
<1>5. CASE Finish
    <2>1. ASSUME NEW k \in Kind
          PROVE  /\ marked[k] <= Len(tab'[k].used)
                 /\ \A i \in 1 .. marked[k] : tab'[k].used[i] = tab[k].used[i]
        <3>1. marked[k] <= orig[k] /\ orig[k] \in Nat /\ marked[k] \in Nat
            BY <1>5 DEF TypeInv, OrigInv, Finish, Compiling
        <3>2. \A i \in 1 .. marked[k] : /\ i \in DOMAIN tab[k].used
                                        /\ tab[k].used[i] # Hole /\ i \notin Moved(k)
            BY <1>5, <3>1, MarkFront DEF Finish, Moved
        <3>3. tab[k] \in Tables /\ tab'[k] \in Tables /\ tab'[k] = Deleted(tab[k], Moved(k))
              /\ Moved(k) \in SUBSET DOMAIN tab[k].used
            BY <1>5, FinishTable, MovedType DEF TypeInv
        <3>4. \A i \in 1 .. marked[k] : /\ i \in DOMAIN tab'[k].used
                                        /\ tab'[k].used[i] = tab[k].used[i]
            BY <3>2, <3>3, DeletedIs
        <3>5. DOMAIN tab'[k].used = 1 .. Len(tab'[k].used) /\ Len(tab'[k].used) \in Nat
            BY <3>3, TableParts
        <3>6. marked[k] <= Len(tab'[k].used)
            <4>1. CASE marked[k] = 0
                BY <3>5, <4>1
            <4>2. CASE marked[k] # 0
                <5>1. marked[k] \in 1 .. marked[k]
                    BY <3>1, <4>2
                <5>2. marked[k] \in DOMAIN tab'[k].used
                    BY <3>4, <5>1
                <5> QED
                    BY <3>5, <5>2
            <4> QED
                BY <4>1, <4>2
        <3> QED
            BY <3>4, <3>6
    <2> QED
        BY <1>5, <2>1, MarkKept DEF Finish
<1>6. CASE Discard
    <2>1. ASSUME NEW k \in Kind
          PROVE  /\ marked[k] <= Len(tab'[k].used)
                 /\ \A i \in 1 .. marked[k] : tab'[k].used[i] = tab[k].used[i]
        <3>1. marked[k] <= orig[k] /\ orig[k] \in Nat /\ marked[k] \in Nat
            BY <1>6 DEF TypeInv, OrigInv, Discard, Compiling
        <3>2. tab[k] \in Tables /\ tab'[k] \in Tables /\ tab'[k] = Truncated(tab[k], orig[k])
            BY <1>6, DiscardTable DEF TypeInv
        <3>3. marked[k] <= Len(tab[k].used) /\ Len(tab[k].used) \in Nat
            BY <1>6, <3>2, TableParts DEF MarkInv, Discard
        <3>4. DOMAIN tab'[k].used = 1 .. Len(tab'[k].used) /\ Len(tab'[k].used) \in Nat
            BY <3>2, TableParts
        <3>5. marked[k] <= Len(tab'[k].used)
            BY <3>1, <3>2, <3>3, TruncatedIs
        <3> QED
            BY <3>1, <3>2, <3>4, <3>5, TruncatedIs
    <2> QED
        BY <1>6, <2>1, MarkKept DEF Discard
<1>7. CASE Cleanup
    <2>1. ASSUME NEW k \in Kind
          PROVE  /\ marked[k] <= Len(tab'[k].used)
                 /\ \A i \in 1 .. marked[k] : tab'[k].used[i] = tab[k].used[i]
        <3>1. marked[k] <= marked[k] /\ marked[k] \in Nat /\ marked[k] \in Nat
            BY <1>7 DEF TypeInv, OrigInv, Cleanup, Compiling
        <3>2. tab[k] \in Tables /\ tab'[k] \in Tables /\ tab'[k] = Truncated(tab[k], marked[k])
            BY <1>7, CleanupTable DEF TypeInv
        <3>3. marked[k] <= Len(tab[k].used) /\ Len(tab[k].used) \in Nat
            BY <1>7, <3>2, TableParts DEF MarkInv, Cleanup
        <3>4. DOMAIN tab'[k].used = 1 .. Len(tab'[k].used) /\ Len(tab'[k].used) \in Nat
            BY <3>2, TableParts
        <3>5. marked[k] <= Len(tab'[k].used)
            BY <3>1, <3>2, <3>3, TruncatedIs
        <3> QED
            BY <3>1, <3>2, <3>4, <3>5, TruncatedIs
    <2> QED
        BY <1>7, <2>1, MarkKept DEF Cleanup
<1>8. ASSUME NEW f \in Files, Begin(f) PROVE MarkInv'
    BY <1>8, BeginGrows, MarkGrows DEF Begin
<1>9. ASSUME NEW f \in Files, Autoload(f) PROVE MarkInv'
    BY <1>9, AutoloadGrows, MarkGrows DEF Autoload, Evaluating, TypeInv
<1>10. CASE UNCHANGED vars
    BY <1>10 DEF vars, MarkInv
<1> QED
    BY <1>1, <1>2, <1>3, <1>4, <1>5, <1>6, <1>7, <1>8, <1>9, <1>10 DEF Next

\* What was in the tables when the last compilation began, between compilations.
KeptInv == pc \in {"start", "idle"} => \A k \in Kind : before[k] \subseteq Entries(tab[k])

LEMMA OrigGrows ==
    ASSUME TypeInv, TypeInv', OrigInv, pc \in Compiling, Grows,
           marked' = marked, orig' = orig, before' = before
    PROVE  OrigInv'
<1>1. ASSUME NEW k \in Kind, NEW b \in before[k]
      PROVE  \E i \in DOMAIN tab'[k].used : i <= orig[k] /\ tab'[k].used[i] = b
    <2>1. PICK j \in DOMAIN tab[k].used : j <= orig[k] /\ tab[k].used[j] = b
        BY <1>1 DEF OrigInv
    <2>2. b # Hole
        BY <1>1, BucketIsNoHole DEF TypeInv
    <2>3. PICK i \in DOMAIN tab'[k].used : i <= j /\ tab'[k].used[i] = b
        BY <2>1, <2>2 DEF Grows, Extends
    <2>4. /\ DOMAIN tab[k].used = 1 .. Len(tab[k].used) /\ Len(tab[k].used) \in Nat
          /\ DOMAIN tab'[k].used = 1 .. Len(tab'[k].used) /\ Len(tab'[k].used) \in Nat
          /\ orig[k] \in Nat
        BY TableParts DEF TypeInv
    <2>5. i <= orig[k]
        BY <2>1, <2>3, <2>4
    <2> QED
        BY <2>3, <2>5
<1> QED
    BY <1>1 DEF OrigInv

LEMMA OrigStep ==
    ASSUME TypeInv, TypeInv', MarkInv, OrigInv, [Next]_vars PROVE OrigInv'
<1>1. CASE Mark
    BY <1>1 DEF Mark, OrigInv, Compiling
<1>2. CASE RegisterConst
    BY <1>2, RegisterGrows, OrigGrows DEF RegisterConst, Evaluating, Compiling
<1>3. CASE FlagConstants
    <2>1. ASSUME NEW k \in Kind, NEW b \in before[k]
          PROVE  \E i \in DOMAIN tab'[k].used : i <= orig[k] /\ tab'[k].used[i] = b
        <3>1. PICK i \in DOMAIN tab[k].used : i <= orig[k] /\ tab[k].used[i] = b
            BY <1>3, <2>1 DEF OrigInv, FlagConstants, Compiling
        <3>2. tab[k] \in Tables /\ orig[k] \in Nat /\ DOMAIN tab[k].used \subseteq Nat
            BY TableParts DEF TypeInv
        <3>3. ~(i > orig[k])
            BY <3>1, <3>2
        <3> QED
            BY <1>3, <3>1, <3>3, FlagsPlaces
    <2> QED
        BY <1>3, <2>1 DEF FlagConstants, OrigInv, Compiling
<1>4. CASE Throw
    BY <1>4, SameGrows, OrigGrows DEF Throw, Evaluating, Compiling
<1>5. CASE Finish
    BY <1>5 DEF Finish, OrigInv, Compiling
<1>6. CASE Discard
    BY <1>6 DEF Discard, OrigInv, Compiling
<1>7. CASE Cleanup
    BY <1>7 DEF Cleanup, OrigInv, Compiling
<1>8. ASSUME NEW f \in Files, Begin(f) PROVE OrigInv'
    <2>1. Grows /\ tab' \in [Kind -> Tables]
        BY <1>8, BeginGrows DEF Grows
    <2>2. ASSUME NEW k \in Kind
          PROVE  /\ marked'[k] <= orig'[k]
                 /\ \A b \in before'[k] : \E i \in DOMAIN tab'[k].used :
                       i <= orig'[k] /\ tab'[k].used[i] = b
        <3>1. /\ orig'[k] = Len(tab[k].used) /\ before'[k] = Entries(tab[k]) /\ marked' = marked
              /\ pc = "idle"
            BY <1>8 DEF Begin, NumUsed, AllEntries
        <3>2. /\ tab[k] \in Tables /\ DOMAIN tab[k].used = 1 .. Len(tab[k].used)
              /\ Len(tab[k].used) \in Nat /\ DOMAIN tab'[k].used \subseteq Nat
            BY <2>1, TableParts DEF TypeInv
        <3>3. marked'[k] <= orig'[k]
            BY <3>1 DEF MarkInv
        <3>4. ASSUME NEW b \in Entries(tab[k])
              PROVE  \E i \in DOMAIN tab'[k].used : i <= Len(tab[k].used) /\ tab'[k].used[i] = b
            <4>1. PICK j \in DOMAIN tab[k].used : tab[k].used[j] = b
                BY <3>2, EntriesAre
            <4>2. b # Hole
                BY DEF Entries
            <4>3. PICK i \in DOMAIN tab'[k].used : i <= j /\ tab'[k].used[i] = b
                BY <2>1, <4>1, <4>2 DEF Grows, Extends
            <4> QED
                BY <3>2, <4>1, <4>3
        <3> QED
            BY <3>1, <3>3, <3>4
    <2> QED
        BY <2>2 DEF OrigInv
<1>9. ASSUME NEW f \in Files, Autoload(f) PROVE OrigInv'
    BY <1>9, AutoloadGrows, OrigGrows DEF Autoload, Evaluating, Compiling
<1>10. CASE UNCHANGED vars
    BY <1>10 DEF vars, OrigInv
<1> QED
    BY <1>1, <1>2, <1>3, <1>4, <1>5, <1>6, <1>7, <1>8, <1>9, <1>10 DEF Next

\* An entry before the counts is there after a move and after a failure.
LEMMA KeptStep ==
    ASSUME TypeInv, TypeInv', OrigInv, KeptInv, [Next]_vars PROVE KeptInv'
<1>1. CASE Mark
    BY <1>1 DEF Mark, KeptInv, Entries
<1>2. CASE RegisterConst
    BY <1>2 DEF RegisterConst, KeptInv, Evaluating
<1>3. CASE FlagConstants
    BY <1>3 DEF FlagConstants, KeptInv, Evaluating
<1>4. CASE Throw
    BY <1>4 DEF Throw, KeptInv, Evaluating
<1>5. CASE Finish
    <2>1. ASSUME NEW k \in Kind, NEW b \in before[k] PROVE b \in Entries(tab'[k])
        <3>1. PICK i \in DOMAIN tab[k].used : i <= orig[k] /\ tab[k].used[i] = b
            BY <1>5, <2>1 DEF OrigInv, Finish, Compiling
        <3>2. tab[k] \in Tables /\ orig[k] \in Nat /\ DOMAIN tab[k].used \subseteq Nat
            BY TableParts DEF TypeInv
        <3>3. b # Hole /\ i \notin Moved(k)
            BY <2>1, <3>1, <3>2, BucketIsNoHole DEF TypeInv, Moved
        <3>4. i \in DOMAIN tab'[k].used /\ tab'[k].used[i] = b
            BY <1>5, <3>1, <3>2, <3>3, FinishTable, MovedType, DeletedIs
        <3> QED
            BY <3>3, <3>4 DEF Entries
    <2> QED
        BY <1>5, <2>1 DEF Finish, KeptInv, Entries
<1>6. CASE Discard
    <2>1. ASSUME NEW k \in Kind, NEW b \in before[k] PROVE b \in Entries(tab'[k])
        <3>1. PICK i \in DOMAIN tab[k].used : i <= orig[k] /\ tab[k].used[i] = b
            BY <1>6, <2>1 DEF OrigInv, Discard, Compiling
        <3>2. /\ tab[k] \in Tables /\ orig[k] \in Nat /\ Len(tab[k].used) \in Nat
              /\ DOMAIN tab[k].used = 1 .. Len(tab[k].used)
              /\ tab'[k] = Truncated(tab[k], orig[k]) /\ tab'[k] \in Tables
            BY <1>6, TableParts, DiscardTable DEF TypeInv
        <3>3. DOMAIN tab'[k].used = 1 .. Len(tab'[k].used)
            BY <3>2, TableParts
        <3>4. i \in DOMAIN tab'[k].used /\ tab'[k].used[i] = b
            BY <3>1, <3>2, <3>3, TruncatedIs
        <3>5. b # Hole
            BY <2>1, BucketIsNoHole DEF TypeInv
        <3> QED
            BY <3>4, <3>5 DEF Entries
    <2> QED
        BY <1>6, <2>1 DEF Discard, KeptInv, Entries
<1>7. CASE Cleanup
    BY <1>7 DEF Cleanup, KeptInv, Evaluating
<1>8. ASSUME NEW f \in Files, Begin(f) PROVE KeptInv'
    BY <1>8 DEF Begin, KeptInv, Evaluating
<1>9. ASSUME NEW f \in Files, Autoload(f) PROVE KeptInv'
    BY <1>9 DEF Autoload, KeptInv, Evaluating
<1>10. CASE UNCHANGED vars
    BY <1>10 DEF vars, KeptInv, Entries
<1> QED
    BY <1>1, <1>2, <1>3, <1>4, <1>5, <1>6, <1>7, <1>8, <1>9, <1>10 DEF Next

\* After the cleanup the tables end where they ended at the mark.
DoneInv == pc = "done" => \A k \in Kind : Len(tab[k].used) = marked[k]

LEMMA DoneStep ==
    ASSUME TypeInv, MarkInv, DoneInv, [Next]_vars PROVE DoneInv'
<1>1. CASE Mark
    BY <1>1 DEF Mark, DoneInv, Evaluating
<1>2. CASE RegisterConst
    BY <1>2 DEF RegisterConst, DoneInv, Evaluating
<1>3. CASE FlagConstants
    BY <1>3 DEF FlagConstants, DoneInv, Evaluating
<1>4. CASE Throw
    BY <1>4 DEF Throw, DoneInv, Evaluating
<1>5. CASE Finish
    BY <1>5 DEF Finish, DoneInv, Evaluating
<1>6. CASE Discard
    BY <1>6 DEF Discard, DoneInv, Evaluating
<1>7. CASE Cleanup
    <2>1. ASSUME NEW k \in Kind PROVE Len(tab'[k].used) = marked[k]
        <3>1. tab[k] \in Tables /\ marked[k] \in Nat /\ marked[k] <= Len(tab[k].used)
            BY <1>7 DEF TypeInv, MarkInv, Cleanup
        <3>2. Len(tab[k].used) \in Nat /\ tab'[k] = Truncated(tab[k], marked[k])
            BY <1>7, <3>1, TableParts, CleanupTable
        <3> QED
            BY <3>1, <3>2, TruncatedIs
    <2> QED
        BY <1>7, <2>1 DEF Cleanup, DoneInv
<1>8. ASSUME NEW f \in Files, Begin(f) PROVE DoneInv'
    BY <1>8 DEF Begin, DoneInv
<1>9. ASSUME NEW f \in Files, Autoload(f) PROVE DoneInv'
    BY <1>9 DEF Autoload, DoneInv, Evaluating
<1>10. CASE UNCHANGED vars
    BY <1>10 DEF vars, DoneInv
<1> QED
    BY <1>1, <1>2, <1>3, <1>4, <1>5, <1>6, <1>7, <1>8, <1>9, <1>10 DEF Next

IndInv == TypeInv /\ MarkInv /\ OrigInv /\ KeptInv /\ DoneInv

LEMMA IndAlways == Spec => []IndInv
<1>1. Init => IndInv
    <2> SUFFICES ASSUME Init PROVE IndInv
        OBVIOUS
    <2>1. TypeInv /\ \A k \in Kind : NoHoles(tab[k].used)
        BY InitType, InternalTable
    <2>2. pc = "start" /\ before = AllEntries
        BY DEF Init
    <2> QED
        BY <2>1, <2>2 DEF IndInv, MarkInv, OrigInv, KeptInv, DoneInv, Compiling, AllEntries
<1>2. IndInv /\ [Next]_vars => IndInv'
    BY TypeStep, MarkStep, OrigStep, KeptStep, DoneStep DEF IndInv
<1> QED
    BY <1>1, <1>2, PTL DEF Spec

\* A compilation takes nothing away that was in the tables when it began: neither by the
\* moves, which count from the end, nor by discarding what it had added, nor when holes
\* are closed under its counts.
THEOREM KeepsOthers == Spec => []OthersKept
<1>1. IndInv => OthersKept
    <2> SUFFICES ASSUME IndInv, pc # "done", NEW k \in Kind, NEW b \in before[k]
                 PROVE  b \in Entries(tab[k])
        BY DEF OthersKept
    <2>1. b # Hole
        BY BucketIsNoHole DEF IndInv, TypeInv
    <2>2. CASE pc \in Compiling
        BY <2>1, <2>2 DEF IndInv, OrigInv, Entries
    <2>3. CASE pc \in {"start", "idle"}
        BY <2>3 DEF IndInv, KeptInv
    <2> QED
        BY <2>2, <2>3 DEF IndInv, TypeInv, Compiling
<1> QED
    BY <1>1, IndAlways, PTL

\* opkit_globals_cleanup leaves in the tables what opkit_globals_mark found there,
\* whatever was compiled, failed, autoloaded and moved between the two.
THEOREM CleansUp == Spec => []CleanupRestores
<1>1. IndInv => CleanupRestores
    <2> SUFFICES ASSUME IndInv, pc = "done" PROVE AllEntries = atMark
        BY DEF CleanupRestores
    <2>1. ASSUME NEW k \in Kind PROVE Entries(tab[k]) = atMark[k]
        <3>1. tab[k] \in Tables /\ atMark[k] \in SUBSET Buckets /\ Hole \notin atMark[k]
            BY BucketIsNoHole DEF IndInv, TypeInv
        <3>2. DOMAIN tab[k].used = 1 .. marked[k]
            BY <3>1, TableParts DEF IndInv, DoneInv
        <3> QED
            BY <3>1, <3>2 DEF IndInv, MarkInv, Entries
    <2>2. atMark = [k \in Kind |-> atMark[k]]
        BY DEF IndInv, TypeInv
    <2> QED
        BY <2>1, <2>2 DEF AllEntries
<1> QED
    BY <1>1, IndAlways, PTL

-------------------------------------------------------------------------------
\* A table without holes whose first m entries are I, followed by entries of the file f
\* whose names are N.
Alone(s, m, f, I, N) ==
    /\ NoHoles(s) /\ m \in 0 .. Len(s)
    /\ \A i \in 1 .. m : s[i] \in I
    /\ \A b \in I : \E i \in 1 .. m : s[i] = b
    /\ \A i \in m + 1 .. Len(s) : s[i].file = f /\ s[i].key[1] \in N
    /\ \A n \in N : \E i \in m + 1 .. Len(s) : s[i].key[1] = n

LEMMA AddAlone ==
    ASSUME NEW u \in Tables, NEW m, NEW f, NEW I, NEW N, Alone(u.used, m, f, I, N),
           NEW b \in Buckets, b.file = f, \A c \in I : c.key # b.key
    PROVE  Alone(Added(u, b).used, m, f, I, N \cup {b.key[1]})
<1> DEFINE r == u.used
           s == Append(r, b)
           n == b.key[1]
<1>1. /\ r \in Seq(Slots) /\ Len(r) \in Nat /\ DOMAIN r = 1 .. Len(r)
      /\ NoHoles(r) /\ m \in 0 .. Len(r)
      /\ \A i \in 1 .. m : r[i] \in I
      /\ \A c \in I : \E i \in 1 .. m : r[i] = c
      /\ \A i \in m + 1 .. Len(r) : r[i].file = f /\ r[i].key[1] \in N
      /\ \A x \in N : \E i \in m + 1 .. Len(r) : r[i].key[1] = x
    BY TableParts DEF Alone
<1>2. Added(u, b).used = IF Has(u, b.key) THEN r ELSE s
    BY <1>1, AddedIs
<1>3. CASE Has(u, b.key)
    <2>1. PICK j \in DOMAIN r : r[j].key = b.key
        BY <1>3 DEF Has, Entries
    <2>2. j \in m + 1 .. Len(r)
        BY <1>1, <2>1
    <2>3. n \in N
        BY <1>1, <2>1, <2>2
    <2>4. N \cup {n} = N
        BY <2>3
    <2> QED
        BY <1>2, <1>3, <2>4
<1>4. CASE ~Has(u, b.key)
    <2>1. b \in Slots /\ b # Hole
        BY BucketIsNoHole DEF Slots
    <2>2. /\ Len(s) = Len(r) + 1 /\ DOMAIN s = 1 .. Len(r) + 1
          /\ s[Len(r) + 1] = b /\ \A i \in 1 .. Len(r) : s[i] = r[i]
        <3> HIDE DEF r
        <3> QED
            BY <1>1, <2>1, AppendParts
    <2> HIDE DEF s, n, r
    <2>3. \A i \in DOMAIN s : i = Len(r) + 1 \/ i \in 1 .. Len(r)
        BY <1>1, <2>2
    <2>4. NoHoles(s)
        BY <1>1, <2>1, <2>2, <2>3 DEF NoHoles
    <2>5. m \in 0 .. Len(s) /\ \A i \in 1 .. m : i \in 1 .. Len(r) /\ s[i] = r[i]
        BY <1>1, <2>2
    <2>6. \A c \in I : \E i \in 1 .. m : s[i] = c
        BY <1>1, <2>5
    <2>7. \A i \in m + 1 .. Len(s) : s[i].file = f /\ s[i].key[1] \in N \cup {n}
        <3> SUFFICES ASSUME NEW i \in m + 1 .. Len(s)
                     PROVE  s[i].file = f /\ s[i].key[1] \in N \cup {n}
            OBVIOUS
        <3>1. CASE i = Len(r) + 1
            BY <2>2, <3>1 DEF n
        <3>2. CASE i # Len(r) + 1
            <4>1. i \in m + 1 .. Len(r) /\ i \in 1 .. Len(r)
                BY <1>1, <2>2, <3>2
            <4> QED
                BY <1>1, <2>2, <4>1
        <3> QED
            BY <3>1, <3>2
    <2>8. \A x \in N \cup {n} : \E i \in m + 1 .. Len(s) : s[i].key[1] = x
        <3> SUFFICES ASSUME NEW x \in N \cup {n}
                     PROVE  \E i \in m + 1 .. Len(s) : s[i].key[1] = x
            OBVIOUS
        <3>1. CASE x = n
            <4>1. Len(r) + 1 \in m + 1 .. Len(s)
                BY <1>1, <2>2
            <4> QED
                BY <2>2, <3>1, <4>1 DEF n
        <3>2. CASE x \in N
            <4>1. PICK i \in m + 1 .. Len(r) : r[i].key[1] = x
                BY <1>1, <3>2
            <4>2. i \in m + 1 .. Len(s) /\ i \in 1 .. Len(r)
                BY <1>1, <2>2
            <4> QED
                BY <2>2, <4>1, <4>2
        <3> QED
            BY <3>1, <3>2
    <2>9. Alone(s, m, f, I, N \cup {n})
        BY <1>1, <2>4, <2>5, <2>6, <2>7, <2>8 DEF Alone
    <2> QED
        BY <1>2, <1>4, <2>9 DEF n
<1> QED
    BY <1>3, <1>4

\* An engine's entry: of no file, with its own key.
EngineOnly(I) == \A b \in I : \E n \in Symbol : b = Bucket(n, None, None)

LEMMA DeclareAlone ==
    ASSUME NEW u \in Tables, NEW m, NEW f \in Files, NEW I, NEW N, Alone(u.used, m, f, I, N),
           EngineOnly(I), NEW n \in Symbol, NEW rtd \in BOOLEAN,
           rtd \/ \A b \in I : b.key # <<n, None>>
    PROVE  Alone(Added(u, Declared(u, n, f, rtd)).used, m, f, I, N \cup {n})
<1> DEFINE b == Declared(u, n, f, rtd)
           o == IF rtd /\ Has(u, <<n, None>>) THEN f ELSE None
<1>1. o \in Owner /\ f \in Owner /\ None \in Owner
    BY DEF Owner
<1>2. b \in Buckets /\ b.file = f /\ b.key = <<n, o>>
    BY <1>1, BucketParts DEF Declared
<1>3. ASSUME NEW c \in I PROVE c.key # b.key
    <2>1. PICK x \in Symbol : c = Bucket(x, None, None)
        BY <1>3 DEF EngineOnly
    <2>2. c.key = <<x, None>> /\ c \in Buckets
        BY <1>1, <2>1, BucketParts
    <2>3. CASE o = f
        <3>1. f # None
            BY FileAssumption
        <3> QED
            BY <1>2, <2>2, <2>3, <3>1
    <2>4. CASE o = None /\ ~rtd
        BY <1>2, <2>4
    <2>5. CASE o = None /\ ~Has(u, <<n, None>>)
        <3>1. PICK i \in 1 .. m : u.used[i] = c
            BY DEF Alone
        <3>2. i \in DOMAIN u.used
            BY TableParts DEF Alone
        <3>3. c \in Entries(u)
            BY <2>2, <3>1, <3>2, BucketIsNoHole DEF Entries
        <3> QED
            BY <1>2, <2>5, <3>3 DEF Has
    <2> QED
        BY <2>3, <2>4, <2>5
<1>4. b.key[1] = n
    BY <1>2
<1> HIDE DEF b
<1>5. Alone(Added(u, b).used, m, f, I, N \cup {b.key[1]})
    BY <1>2, <1>3, AddAlone
<1> QED
    BY <1>4, <1>5 DEF b

LEMMA WithAlone ==
    ASSUME NEW t \in Tables, NEW f \in Files, NEW names \in Seq(Symbol), NEW rtd \in BOOLEAN,
           NEW m, NEW I, Alone(t.used, m, f, I, {}), EngineOnly(I),
           rtd \/ \A i \in 1 .. Len(names) : \A b \in I : b.key # <<names[i], None>>
    PROVE  Alone(With(t, f, names, rtd).used, m, f, I, {names[i] : i \in 1 .. Len(names)})
<1> DEFINE First(n) == {names[i] : i \in 1 .. n}
           G == [n \in 0 .. Len(names) |-> {u \in Tables : Alone(u.used, m, f, I, First(n))}]
<1>1. Len(names) \in Nat
    OBVIOUS
<1>2. \A n \in 0 .. Len(names) : G[n] = {u \in Tables : Alone(u.used, m, f, I, First(n))}
    OBVIOUS
<1>3. t \in G[0]
    <2>1. First(0) = {} /\ 0 \in 0 .. Len(names)
        BY <1>1
    <2> HIDE DEF First, G
    <2> QED
        BY <1>2, <2>1
<1>4. ASSUME NEW n \in 1 .. Len(names), NEW u \in Tables, u \in G[n - 1]
      PROVE  Added(u, Declared(u, names[n], f, rtd)) \in G[n]
    <2>1. n - 1 \in 0 .. Len(names) /\ n \in 0 .. Len(names) /\ names[n] \in Symbol
        BY <1>1
    <2>2. First(n) = First(n - 1) \cup {names[n]}
        <3>1. \A i \in 1 .. n : i = n \/ i \in 1 .. n - 1
            BY <1>1
        <3>2. n \in 1 .. n /\ \A i \in 1 .. n - 1 : i \in 1 .. n
            BY <1>1
        <3> QED
            BY <3>1, <3>2
    <2> HIDE DEF First, G
    <2>3. Alone(u.used, m, f, I, First(n - 1))
        BY <1>2, <1>4, <2>1
    <2>4. rtd \/ \A b \in I : b.key # <<names[n], None>>
        OBVIOUS
    <2>5. Alone(Added(u, Declared(u, names[n], f, rtd)).used, m, f, I, First(n - 1) \cup {names[n]})
        BY <2>1, <2>3, <2>4, DeclareAlone
    <2>6. Added(u, Declared(u, names[n], f, rtd)) \in Tables
        BY <2>1, AddedIs, DeclaredIs
    <2> QED
        BY <1>2, <2>1, <2>2, <2>5, <2>6
<1>5. With(t, f, names, rtd) \in G[Len(names)]
    <2> HIDE DEF G, First
    <2> QED
        BY <1>3, <1>4, WithIn
<1> QED
    BY <1>1, <1>5

-------------------------------------------------------------------------------
Todo(k) == IF k = "constant" THEN {todo[i] : i \in DOMAIN todo} ELSE {}
Own(k, N) == Alone(tab[k].used, orig[k], cur, InternalEntries(k), N)

\* While no dependency has been loaded: no hole anywhere, what is before a count is the
\* engine's, and what is behind it is of the file, under the names it has declared.
AloneInv ==
    included = {} =>
        /\ \A k \in Kind : before[k] = InternalEntries(k)
        /\ pc \in {"start", "idle"} =>
              \A k \in Kind : NoHoles(tab[k].used) /\ Entries(tab[k]) = InternalEntries(k)
        /\ pc \in Compiling =>
              \A k \in Kind : \E N : /\ Own(k, N)
                                     /\ pc # "bailout" => N \cup Todo(k) = Names(k, cur)
        /\ pc = "resolve" =>
              /\ todo = <<>>
              /\ \A i \in orig["constant"] + 1 .. Len(tab["constant"].used) :
                    tab["constant"].used[i].owned
        /\ script # None => \A k \in Kind : ItemNames(k) = Names(k, script.file)

\* No file declares a constant of the engine's; if one does, the engine ignores it.
ConstantsNew ==
    \A f \in Files : \A i \in DOMAIN Declares[f]["constant"] :
        \A j \in DOMAIN Internal["constant"] :
            Declares[f]["constant"][i] # Internal["constant"][j]

LEMMA InternalIs ==
    ASSUME NEW k \in Kind
    PROVE  /\ EngineOnly(InternalEntries(k))
           /\ \A b \in InternalEntries(k) : \E j \in DOMAIN Internal[k] :
                 b.key = <<Internal[k][j], None>>
<1>1. \A j \in DOMAIN Internal[k] : Internal[k][j] \in Symbol
    BY InternalAssumption
<1>2. \A n \in Symbol : Bucket(n, None, None).key = <<n, None>>
    BY BucketParts DEF Owner
<1>3. \A b \in InternalEntries(k) : \E j \in DOMAIN Internal[k] :
          b = Bucket(Internal[k][j], None, None)
    BY DEF InternalEntries
<1> QED
    BY <1>1, <1>2, <1>3 DEF EngineOnly

LEMMA SameAlone ==
    ASSUME AloneInv, pc' = pc,
           UNCHANGED <<tab, cur, todo, orig, included, before, script>>
    PROVE  AloneInv'
BY DEF AloneInv, Own, Todo, Entries, ItemNames

\* A table that has only the engine's entries, when a compilation begins.
LEMMA NothingYet ==
    ASSUME TypeInv, NEW k \in Kind, NoHoles(tab[k].used),
           Entries(tab[k]) = InternalEntries(k), NEW f
    PROVE  Alone(tab[k].used, Len(tab[k].used), f, InternalEntries(k), {})
<1>1. /\ tab[k] \in Tables /\ Len(tab[k].used) \in Nat
      /\ DOMAIN tab[k].used = 1 .. Len(tab[k].used)
    BY TableParts DEF TypeInv
<1> QED
    BY <1>1, EntriesAre DEF Alone, NoHoles

LEMMA BeginAlone ==
    ASSUME TypeInv, AloneInv, NEW f \in Files, Begin(f) PROVE AloneInv'
<1> SUFFICES ASSUME included = {} PROVE AloneInv'
    BY DEF AloneInv, Begin
<1>1. PICK i \in 0 .. Count("function", f), j \in 0 .. Count("class", f) :
         /\ Free("function", f, i)
         /\ tab' = Compiled(f, i, j)
         /\ \/ pc' = "bailout"
            \/ i = Count("function", f) /\ j = Count("class", f) /\ pc' = "consts"
    BY DEF Begin
<1>2. /\ pc = "idle" /\ cur' = f /\ orig' = NumUsed /\ before' = AllEntries
      /\ todo' = Declares[f]["constant"] /\ included' = included /\ script' = script
    BY DEF Begin
<1>3. \A k \in Kind : /\ before'[k] = InternalEntries(k)
                      /\ Entries(tab[k]) = InternalEntries(k) /\ NoHoles(tab[k].used)
                      /\ orig'[k] = Len(tab[k].used)
    BY <1>2 DEF AloneInv, AllEntries, NumUsed
<1>4. "function" \in Kind /\ "class" \in Kind /\ "constant" \in Kind
      /\ \A k \in Kind : k = "function" \/ k = "class" \/ k = "constant"
    BY DEF Kind
<1>5. ASSUME NEW k \in Kind
      PROVE  \E N : /\ Alone(tab'[k].used, orig'[k], f, InternalEntries(k), N)
                    /\ pc' # "bailout" => N \cup (Todo(k))' = Names(k, f)
    <2> DEFINE I == InternalEntries(k)
               m == Len(tab[k].used)
    <2>1. tab[k] \in Tables /\ EngineOnly(I) /\ Alone(tab[k].used, m, f, I, {}) /\ orig'[k] = m
        BY <1>3, NothingYet, InternalIs DEF TypeInv
    <2>2. CASE k = "constant"
        <3>1. tab'[k] = tab[k]
            BY <1>1, <2>2, CompiledIs
        <3>2. {} \cup (Todo(k))' = Names(k, f)
            BY <1>2, <2>2 DEF Todo, Names
        <3> QED
            BY <2>1, <3>1, <3>2
    <2>3. CASE k = "function"
        <3> DEFINE fs == SubSeq(Declares[f]["function"], 1, i)
                   N == {fs[h] : h \in 1 .. Len(fs)}
        <3>1. /\ fs \in Seq(Symbol) /\ Len(fs) = i
              /\ \A h \in 1 .. i : fs[h] = Declares[f]["function"][h]
            BY <1>4, NamesType
        <3>2. tab'[k] = With(tab[k], f, fs, FALSE)
            BY <1>1, <2>3, CompiledIs
        <3>3. \A h \in 1 .. Len(fs) : \A b \in I : b.key # <<fs[h], None>>
            BY <1>1, <1>3, <2>3, <3>1 DEF Free, Has
        <3>4. FALSE \in BOOLEAN
            OBVIOUS
        <3>5. Alone(tab'[k].used, m, f, I, N)
            <4> HIDE DEF fs, m, I
            <4> QED
                BY <2>1, <3>1, <3>2, <3>3, <3>4, WithAlone
        <3>6. i = Count("function", f) => N = Names(k, f)
            <4>1. Declares[f][k] \in Seq(Symbol)
                BY FileAssumption
            <4> HIDE DEF fs
            <4> QED
                BY <2>3, <3>1, <4>1 DEF Count, Names
        <3>7. (Todo(k))' = {}
            BY <2>3 DEF Todo
        <3> HIDE DEF fs, N, m, I
        <3>8. pc' # "bailout" => N \cup (Todo(k))' = Names(k, f)
            BY <1>1, <3>6, <3>7
        <3> QED
            BY <2>1, <3>5, <3>8 DEF I
    <2>4. CASE k = "class"
        <3> DEFINE cs == SubSeq(Declares[f]["class"], 1, j)
                   N == {cs[h] : h \in 1 .. Len(cs)}
        <3>1. /\ cs \in Seq(Symbol) /\ Len(cs) = j
              /\ \A h \in 1 .. j : cs[h] = Declares[f]["class"][h]
            BY <1>4, NamesType
        <3>2. tab'[k] = With(tab[k], f, cs, TRUE)
            BY <1>1, <2>4, CompiledIs
        <3>3. TRUE \in BOOLEAN
            OBVIOUS
        <3>5. Alone(tab'[k].used, m, f, I, N)
            <4> HIDE DEF cs, m, I
            <4> QED
                BY <2>1, <3>1, <3>2, <3>3, WithAlone
        <3>6. j = Count("class", f) => N = Names(k, f)
            <4>1. Declares[f][k] \in Seq(Symbol)
                BY FileAssumption
            <4> HIDE DEF cs
            <4> QED
                BY <2>4, <3>1, <4>1 DEF Count, Names
        <3>7. (Todo(k))' = {}
            BY <2>4 DEF Todo
        <3> HIDE DEF cs, N, m, I
        <3>8. pc' # "bailout" => N \cup (Todo(k))' = Names(k, f)
            BY <1>1, <3>6, <3>7
        <3> QED
            BY <2>1, <3>5, <3>8 DEF I
    <2> QED
        BY <1>4, <2>2, <2>3, <2>4
<1>6. pc' \in {"bailout", "consts"}
    BY <1>1
<1>7. \A k \in Kind : \E N : (Own(k, N))' /\ (pc' # "bailout" => N \cup (Todo(k))' = Names(k, cur'))
    BY <1>2, <1>5 DEF Own
<1>8. script' # None => \A k \in Kind : (ItemNames(k))' = Names(k, script'.file)
    BY <1>2 DEF AloneInv, ItemNames
<1> QED
    BY <1>3, <1>6, <1>7, <1>8 DEF AloneInv

LEMMA HeadAndTail ==
    ASSUME NEW s \in Seq(Symbol), s # <<>>
    PROVE  /\ Head(s) \in Symbol /\ Tail(s) \in Seq(Symbol)
           /\ {s[i] : i \in DOMAIN s} = {Head(s)} \cup {Tail(s)[i] : i \in DOMAIN Tail(s)}
<1> DEFINE r == Tail(s)
<1>1. /\ Head(s) \in Symbol /\ Head(s) = s[1] /\ r \in Seq(Symbol)
      /\ Len(s) \in Nat \ {0} /\ DOMAIN s = 1 .. Len(s)
      /\ DOMAIN r = 1 .. Len(s) - 1 /\ \A i \in 1 .. Len(s) - 1 : r[i] = s[i + 1]
    OBVIOUS
<1> HIDE DEF r
<1>2. ASSUME NEW i \in DOMAIN s PROVE s[i] = Head(s) \/ \E j \in DOMAIN r : s[i] = r[j]
    <2>1. CASE i = 1
        BY <1>1, <2>1
    <2>2. CASE i # 1
        <3>1. i - 1 \in 1 .. Len(s) - 1 /\ (i - 1) + 1 = i
            BY <1>1, <2>2
        <3> QED
            BY <1>1, <3>1
    <2> QED
        BY <2>1, <2>2
<1>3. 1 \in DOMAIN s /\ \A j \in DOMAIN r : j + 1 \in DOMAIN s /\ r[j] = s[j + 1]
    BY <1>1
<1>4. {s[i] : i \in DOMAIN s} = {Head(s)} \cup {r[i] : i \in DOMAIN r}
    BY <1>1, <1>2, <1>3
<1> QED
    BY <1>1, <1>4 DEF r

LEMMA RegisterAlone ==
    ASSUME TypeInv, AloneInv, ConstantsNew, RegisterConst PROVE AloneInv'
<1> SUFFICES ASSUME included = {} PROVE AloneInv'
    BY DEF AloneInv, RegisterConst
<1> DEFINE n == Head(todo)
           b == Bucket(n, None, cur)
           k == "constant"
<1>1. /\ pc = "consts" /\ todo # <<>> /\ pc' = pc
      /\ tab' = [tab EXCEPT !["constant"] = Added(@, b)] /\ todo' = Tail(todo)
      /\ cur' = cur /\ orig' = orig /\ included' = included /\ script' = script
      /\ before' = before
    BY DEF RegisterConst
<1>2. cur \in Files /\ todo \in Seq(Symbol) /\ tab \in [Kind -> Tables] /\ k \in Kind
    BY <1>1 DEF TypeInv, Compiling, Kind
<1>3. /\ n \in Symbol /\ Tail(todo) \in Seq(Symbol)
      /\ {todo[i] : i \in DOMAIN todo} = {n} \cup {Tail(todo)[i] : i \in DOMAIN Tail(todo)}
    <2> HIDE DEF n
    <2> QED
        BY <1>1, <1>2, HeadAndTail DEF n
<1>4. b \in Buckets /\ b.file = cur /\ b.key = <<n, None>> /\ b.key[1] = n
    <2>1. n \in Symbol /\ cur \in Owner /\ None \in Owner
        BY <1>2, <1>3 DEF Owner
    <2> HIDE DEF n
    <2>2. b \in Buckets /\ b.file = cur /\ b.key = <<n, None>>
        BY <2>1, BucketParts
    <2> QED
        BY <2>2
<1>5. PICK N : Own(k, N) /\ N \cup Todo(k) = Names(k, cur)
    BY <1>1, <1>2 DEF AloneInv, Compiling
<1>6. \A c \in InternalEntries(k) : c.key # b.key
    <2>1. n \in Names(k, cur)
        BY <1>3, <1>5 DEF Todo
    <2>2. \A h \in DOMAIN Internal[k] : n # Internal[k][h]
        BY <1>2, <2>1 DEF Names, ConstantsNew
    <2> QED
        BY <1>2, <1>4, <2>2, InternalIs
<1> HIDE DEF b, n
<1>7. Alone(Added(tab[k], b).used, orig[k], cur, InternalEntries(k), N \cup {n})
    BY <1>2, <1>4, <1>5, <1>6, AddAlone DEF Own
<1>8. tab'[k] = Added(tab[k], b) /\ \A h \in Kind \ {k} : tab'[h] = tab[h]
    BY <1>1, <1>2
<1>9. (N \cup {n}) \cup (Todo(k))' = Names(k, cur)
    BY <1>1, <1>3, <1>5 DEF Todo
<1>10. \A h \in Kind : \E M : (Own(h, M))' /\ M \cup (Todo(h))' = Names(h, cur')
    <2> SUFFICES ASSUME NEW h \in Kind
                 PROVE  \E M : (Own(h, M))' /\ M \cup (Todo(h))' = Names(h, cur')
        OBVIOUS
    <2>1. CASE h = k
        BY <1>1, <1>7, <1>8, <1>9, <2>1 DEF Own
    <2>2. CASE h # k
        <3>1. PICK M : Own(h, M) /\ M \cup Todo(h) = Names(h, cur)
            BY <1>1 DEF AloneInv, Compiling
        <3> QED
            BY <1>1, <1>8, <2>2, <3>1 DEF Own, Todo
    <2> QED
        BY <2>1, <2>2
<1>11. script' # None => \A h \in Kind : (ItemNames(h))' = Names(h, script'.file)
    BY <1>1 DEF AloneInv, ItemNames
<1> QED
    BY <1>1, <1>10, <1>11 DEF AloneInv

\* Flagging the constants changes no file and no name.
LEMMA FlagAlone ==
    ASSUME TypeInv, AloneInv, FlagConstants PROVE AloneInv'
<1> SUFFICES ASSUME included = {} PROVE AloneInv'
    BY DEF AloneInv, FlagConstants
<1>1. /\ pc = "consts" /\ todo = <<>> /\ pc' = "resolve"
      /\ cur' = cur /\ orig' = orig /\ included' = included /\ script' = script
      /\ before' = before /\ todo' = todo
    BY DEF FlagConstants
<1>2. "constant" \in Kind /\ tab["constant"] \in Tables /\ orig["constant"] \in Nat
    BY DEF TypeInv, Kind
<1> DEFINE r == tab["constant"].used
           s == tab'["constant"].used
           m == orig["constant"]
<1>3. PICK N : Own("constant", N) /\ N \cup Todo("constant") = Names("constant", cur)
    BY <1>1, <1>2 DEF AloneInv, Compiling
<1>4. /\ r \in Seq(Slots) /\ Len(r) \in Nat /\ DOMAIN r = 1 .. Len(r)
      /\ NoHoles(r) /\ m \in 0 .. Len(r)
      /\ \A i \in DOMAIN r : r[i] \in Buckets
    BY <1>2, <1>3, TableParts DEF Own, Alone, NoHoles, Slots
<1>5. /\ Len(s) = Len(r) /\ DOMAIN s = DOMAIN r
      /\ \A i \in DOMAIN r : ~(i > m) => s[i] = r[i]
    BY <1>2, FlagsPlaces
<1>6. \A i \in DOMAIN r : i > m => s[i] = Flagged(r[i])
    <2>1. PICK t : t = tab["constant"]
        OBVIOUS
    <2>2. PICK q : q = m
        OBVIOUS
    <2>3. tab'["constant"] = FlaggedTable(t, q) /\ t \in Tables /\ q \in Nat
        BY <1>2, <2>1, <2>2, FlagsTable
    <2>4. \A i \in DOMAIN t.used :
             FlaggedTable(t, q).used[i] = IF i > q THEN Flagged(t.used[i]) ELSE t.used[i]
        BY <2>3, FlaggedIs, Zenon
    <2> QED
        BY <2>1, <2>2, <2>3, <2>4
<1>7. \A b \in Buckets : /\ Flagged(b) \in Buckets /\ Flagged(b).key = b.key
                         /\ Flagged(b).file = b.file /\ Flagged(b).owned = TRUE
    BY <1>2, FlaggedIs, Zenon
<1>8. \A i \in m + 1 .. Len(r) : /\ i \in DOMAIN r /\ i > m /\ s[i] # Hole /\ s[i].key = r[i].key
                                 /\ s[i].file = r[i].file /\ s[i].owned
    <2> SUFFICES ASSUME NEW i \in m + 1 .. Len(r)
                 PROVE  /\ i \in DOMAIN r /\ i > m /\ s[i] # Hole /\ s[i].key = r[i].key
                        /\ s[i].file = r[i].file /\ s[i].owned
        OBVIOUS
    <2>1. i \in DOMAIN r /\ i > m
        BY <1>4
    <2> HIDE DEF r, s, m
    <2>2. s[i] = Flagged(r[i]) /\ r[i] \in Buckets
        BY <1>4, <1>6, <2>1
    <2> QED
        BY <1>7, <2>1, <2>2, BucketIsNoHole
<1>9. \A i \in 1 .. m : i \in DOMAIN r /\ s[i] = r[i]
    BY <1>4, <1>5
<1>10. NoHoles(s)
    <2>1. \A i \in DOMAIN r : i \in 1 .. m \/ i \in m + 1 .. Len(r)
        BY <1>4
    <2> HIDE DEF r, s, m
    <2> QED
        BY <1>4, <1>5, <1>8, <1>9, <2>1 DEF NoHoles
<1>11. Alone(s, m, cur, InternalEntries("constant"), N)
    <2>1. Alone(r, m, cur, InternalEntries("constant"), N)
        BY <1>3 DEF Own
    <2> HIDE DEF r, s, m
    <2> QED
        BY <1>4, <1>5, <1>8, <1>9, <1>10, <2>1 DEF Alone
<1>12. \A h \in Kind : \E M : (Own(h, M))' /\ M \cup (Todo(h))' = Names(h, cur')
    <2> SUFFICES ASSUME NEW h \in Kind
                 PROVE  \E M : (Own(h, M))' /\ M \cup (Todo(h))' = Names(h, cur')
        OBVIOUS
    <2>1. (Todo(h))' = Todo(h)
        BY <1>1 DEF Todo
    <2>2. CASE h = "constant"
        BY <1>1, <1>3, <1>11, <2>1, <2>2 DEF Own
    <2>3. CASE h # "constant"
        <3>1. PICK M : Own(h, M) /\ M \cup Todo(h) = Names(h, cur)
            BY <1>1 DEF AloneInv, Compiling
        <3>2. tab'[h] = tab[h]
            BY <2>3, FlagsTable
        <3> QED
            BY <1>1, <2>1, <3>1, <3>2 DEF Own
    <2> QED
        BY <2>2, <2>3
<1>13. \A i \in orig'["constant"] + 1 .. Len(tab'["constant"].used) : tab'["constant"].used[i].owned
    BY <1>1, <1>5, <1>8
<1>14. script' # None => \A h \in Kind : (ItemNames(h))' = Names(h, script'.file)
    BY <1>1 DEF AloneInv, ItemNames
<1> QED
    BY <1>1, <1>12, <1>13, <1>14 DEF AloneInv

\* A move then takes everything behind the count and leaves no hole.
LEMMA FinishTakes ==
    ASSUME TypeInv, Finish, NEW k \in Kind, NEW N, Own(k, N),
           k = "constant" => \A i \in orig[k] + 1 .. Len(tab[k].used) : tab[k].used[i].owned
    PROVE  /\ NoHoles(tab'[k].used) /\ Entries(tab'[k]) = InternalEntries(k)
           /\ {b.key[1] : b \in {tab[k].used[i] : i \in Moved(k)}} = N
<1> DEFINE r == tab[k].used
           s == tab'[k].used
           m == orig[k]
           S == Moved(k)
<1>1. /\ tab[k] \in Tables /\ tab'[k] \in Tables /\ tab'[k] = Deleted(tab[k], S)
      /\ S \in SUBSET DOMAIN r
    BY FinishTable, MovedType DEF TypeInv
<1>2. /\ Len(r) \in Nat /\ DOMAIN r = 1 .. Len(r) /\ NoHoles(r) /\ m \in 0 .. Len(r)
      /\ \A i \in 1 .. m : r[i] \in InternalEntries(k)
      /\ \A b \in InternalEntries(k) : \E i \in 1 .. m : r[i] = b
      /\ \A i \in m + 1 .. Len(r) : r[i].file = cur /\ r[i].key[1] \in N
      /\ \A n \in N : \E i \in m + 1 .. Len(r) : r[i].key[1] = n
    BY <1>1, TableParts DEF Own, Alone
<1>3. S = m + 1 .. Len(r)
    <2>1. \A i \in m + 1 .. Len(r) : i \in DOMAIN r /\ r[i] # Hole /\ Moves(k, r[i])
        BY <1>2 DEF NoHoles, Moves
    <2> QED
        BY <2>1 DEF Moved
<1>4. {b.key[1] : b \in {r[i] : i \in S}} = N
    <2> HIDE DEF r, m, S
    <2>1. \A i \in S : r[i].key[1] \in N
        BY <1>2, <1>3
    <2>2. \A n \in N : \E i \in S : r[i].key[1] = n
        BY <1>2, <1>3
    <2> QED
        BY <2>1, <2>2
<1>5. DOMAIN s = 1 .. m
    <2>1. Len(Deleted(tab[k], S).used) = m
        BY <1>1, <1>2, <1>3, DeletedIs
    <2> QED
        BY <1>1, <2>1, TableParts
<1>6. \A i \in 1 .. m : i \in DOMAIN r \ S /\ r[i] # Hole
    BY <1>2, <1>3 DEF NoHoles
<1>7. \A i \in 1 .. m : s[i] = r[i]
    <2>1. \A i \in DOMAIN r \ S : r[i] # Hole => Deleted(tab[k], S).used[i] = r[i]
        BY <1>1, DeletedIs
    <2> QED
        BY <1>1, <1>6, <2>1
<1> HIDE DEF r, s, m, S
<1>8. NoHoles(s)
    BY <1>5, <1>6, <1>7 DEF NoHoles
<1>9. Entries(tab'[k]) = {s[i] : i \in 1 .. m} \ {Hole}
    BY <1>5 DEF Entries, s
<1>10. Entries(tab'[k]) = InternalEntries(k)
    <2>1. {s[i] : i \in 1 .. m} \ {Hole} = {s[i] : i \in 1 .. m}
        BY <1>6, <1>7
    <2>2. {s[i] : i \in 1 .. m} = InternalEntries(k)
        BY <1>2, <1>7
    <2> QED
        BY <1>9, <2>1, <2>2
<1> QED
    BY <1>4, <1>8, <1>10 DEF r, s, S

LEMMA FinishAlone ==
    ASSUME TypeInv, AloneInv, Finish PROVE AloneInv'
<1> SUFFICES ASSUME included = {} PROVE AloneInv'
    BY DEF AloneInv, Finish
<1>1. /\ pc = "resolve" /\ pc' = "idle" /\ included' = included /\ before' = before
      /\ script' = IF thrown THEN None
                   ELSE [file |-> cur,
                         items |-> [k \in Kind |-> {tab[k].used[i] : i \in Moved(k)}]]
    BY DEF Finish
<1>2. ASSUME NEW k \in Kind
      PROVE  /\ NoHoles(tab'[k].used) /\ Entries(tab'[k]) = InternalEntries(k)
             /\ {b.key[1] : b \in {tab[k].used[i] : i \in Moved(k)}} = Names(k, cur)
    <2>1. PICK N : Own(k, N) /\ N \cup Todo(k) = Names(k, cur)
        BY <1>1 DEF AloneInv, Compiling
    <2>2. Todo(k) = {}
        <3>1. todo = <<>>
            BY <1>1 DEF AloneInv
        <3>2. DOMAIN todo = {}
            BY <3>1
        <3> QED
            BY <3>2 DEF Todo
    <2>3. k = "constant" => \A i \in orig[k] + 1 .. Len(tab[k].used) : tab[k].used[i].owned
        BY <1>1 DEF AloneInv
    <2>4. N = Names(k, cur)
        BY <2>1, <2>2
    <2> QED
        BY <2>1, <2>3, <2>4, FinishTakes
<1>3. script' # None => \A k \in Kind : (ItemNames(k))' = Names(k, script'.file)
    <2> SUFFICES ASSUME script' # None, NEW k \in Kind
                 PROVE  (ItemNames(k))' = Names(k, script'.file)
        OBVIOUS
    <2>1. script'.file = cur /\ script'.items[k] = {tab[k].used[i] : i \in Moved(k)}
        BY <1>1
    <2>2. (ItemNames(k))' = {b.key[1] : b \in script'.items[k]}
        BY DEF ItemNames
    <2> QED
        BY <1>2, <2>1, <2>2
<1>4. \A k \in Kind : before'[k] = InternalEntries(k)
    BY <1>1 DEF AloneInv
<1>5. \A k \in Kind : NoHoles(tab'[k].used) /\ Entries(tab'[k]) = InternalEntries(k)
    BY <1>2
<1>6. AloneInv' <=> (included' = {} =>
        /\ \A k \in Kind : before'[k] = InternalEntries(k)
        /\ pc' \in {"start", "idle"} =>
              \A k \in Kind : NoHoles(tab'[k].used) /\ Entries(tab'[k]) = InternalEntries(k)
        /\ pc' \in Compiling =>
              \A k \in Kind : \E N : /\ (Own(k, N))'
                                     /\ pc' # "bailout" => N \cup (Todo(k))' = Names(k, cur')
        /\ pc' = "resolve" =>
              /\ todo' = <<>>
              /\ \A i \in orig'["constant"] + 1 .. Len(tab'["constant"].used) :
                    tab'["constant"].used[i].owned
        /\ script' # None => \A k \in Kind : (ItemNames(k))' = Names(k, script'.file))
    BY DEF AloneInv, Entries, InternalEntries
<1> QED
    BY <1>1, <1>3, <1>4, <1>5, <1>6 DEF Compiling

LEMMA DiscardAlone ==
    ASSUME TypeInv, AloneInv, Discard PROVE AloneInv'
<1> SUFFICES ASSUME included = {} PROVE AloneInv'
    BY DEF AloneInv, Discard
<1>1. /\ pc = "bailout" /\ pc' = "idle" /\ included' = included /\ before' = before
      /\ script' = None
    BY DEF Discard
<1>2. ASSUME NEW k \in Kind
      PROVE  NoHoles(tab'[k].used) /\ Entries(tab'[k]) = InternalEntries(k)
    <2> DEFINE r == tab[k].used
               s == tab'[k].used
               m == orig[k]
    <2>1. PICK N : Own(k, N)
        BY <1>1 DEF AloneInv, Compiling
    <2>2. /\ tab[k] \in Tables /\ tab'[k] \in Tables /\ tab'[k] = Truncated(tab[k], m)
          /\ m \in Nat
        BY DiscardTable DEF TypeInv
    <2>3. /\ Len(r) \in Nat /\ DOMAIN r = 1 .. Len(r) /\ NoHoles(r) /\ m \in 0 .. Len(r)
          /\ \A i \in 1 .. m : r[i] \in InternalEntries(k)
          /\ \A b \in InternalEntries(k) : \E i \in 1 .. m : r[i] = b
        BY <2>1, <2>2, TableParts DEF Own, Alone
    <2>4. Len(s) = m /\ \A i \in DOMAIN s : i \in DOMAIN r /\ s[i] = r[i]
        BY <2>2, <2>3, TruncatedIs
    <2>5. DOMAIN s = 1 .. m
        BY <2>2, <2>4, TableParts
    <2> HIDE DEF r, s, m
    <2>6. NoHoles(s)
        BY <2>3, <2>4 DEF NoHoles
    <2>7. {s[i] : i \in DOMAIN s} = InternalEntries(k)
        BY <2>3, <2>4, <2>5
    <2>8. {s[i] : i \in DOMAIN s} \ {Hole} = {s[i] : i \in DOMAIN s}
        BY <2>6 DEF NoHoles
    <2> QED
        BY <2>6, <2>7, <2>8 DEF Entries, s
<1> QED
    BY <1>1, <1>2 DEF AloneInv, Entries, Compiling

LEMMA AloneStep ==
    ASSUME TypeInv, AloneInv, ConstantsNew, [Next]_vars PROVE AloneInv'
<1>1. CASE Mark
    BY <1>1 DEF Mark, AloneInv, Entries, ItemNames, Compiling
<1>2. CASE RegisterConst
    BY <1>2, RegisterAlone
<1>3. CASE FlagConstants
    BY <1>3, FlagAlone
<1>4. CASE Throw
    BY <1>4, SameAlone DEF Throw
<1>5. CASE Finish
    BY <1>5, FinishAlone
<1>6. CASE Discard
    BY <1>6, DiscardAlone
<1>7. CASE Cleanup
    BY <1>7 DEF Cleanup, AloneInv, ItemNames, Compiling
<1>8. ASSUME NEW f \in Files, Begin(f) PROVE AloneInv'
    BY <1>8, BeginAlone
<1>9. ASSUME NEW f \in Files, Autoload(f) PROVE AloneInv'
    BY <1>9 DEF Autoload, AloneInv
<1>10. CASE UNCHANGED vars
    BY <1>10, SameAlone DEF vars
<1> QED
    BY <1>1, <1>2, <1>3, <1>4, <1>5, <1>6, <1>7, <1>8, <1>9, <1>10 DEF Next

\* While no dependency has been loaded, a compilation leaves the tables as they were,
\* whether it succeeds, throws or fails, and its script has the names of its file and no
\* other: if no file declares a constant that the engine has.
THEOREM AloneIsExact == ASSUME ConstantsNew PROVE Spec => []AloneExact
<1>1. Init => AloneInv
    <2> SUFFICES ASSUME Init PROVE AloneInv
        OBVIOUS
    <2>1. /\ \A k \in Kind : NoHoles(tab[k].used) /\ Entries(tab[k]) = InternalEntries(k)
          /\ pc = "start" /\ script = None /\ before = AllEntries
        BY InternalTable DEF Init
    <2> QED
        BY <2>1 DEF AloneInv, AllEntries, Compiling
<1>2. TypeInv /\ AloneInv /\ [Next]_vars => AloneInv'
    BY AloneStep
<1>3. TypeInv /\ AloneInv => AloneExact
    <2> SUFFICES ASSUME TypeInv, AloneInv, included = {} PROVE AloneExact
        BY DEF AloneExact
    <2>1. before = [k \in Kind |-> before[k]]
        BY DEF TypeInv
    <2>2. pc = "idle" => AllEntries = before
        BY <2>1 DEF AloneInv, AllEntries
    <2> QED
        BY <2>2 DEF AloneInv, AloneExact
<1> QED
    BY <1>1, <1>2, <1>3, InitType, TypeStep, PTL DEF Spec
===============================================================================
