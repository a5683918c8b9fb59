------------------------- MODULE ScriptImage_proofs -------------------------
(***************************************************************************)
(* Proofs about the image of a script, for every graph of structures that  *)
(* a compiler may make.                                                    *)
(***************************************************************************)
EXTENDS ScriptImage, WellFoundedInduction, SequenceTheorems, FiniteSetTheorems, TLAPS

-------------------------------------------------------------------------------
\* A set of numbers with 0 that is closed under successor has every natural number.
LEMMA SetInduction ==
    ASSUME NEW S, 0 \in S, \A n \in Nat : n \in S => n + 1 \in S
    PROVE  Nat \subseteq S
<1> SUFFICES ASSUME Nat \ S # {} PROVE FALSE
    OBVIOUS
<1> DEFINE R == {ss \in Nat \X Nat : ss[1] < ss[2]}
<1>1. IsWellFoundedOn(R, Nat)
    BY NatLessThanWellFounded DEF OpToRel
<1>2. PICK x \in Nat \ S : \A y \in Nat \ S : <<y, x>> \notin R
    <2> HIDE DEF R
    <2> QED
        BY <1>1, WFMin
<1>3. x # 0
    BY <1>2
<1>4. x - 1 \in S
    <2>1. x - 1 \in Nat /\ <<x - 1, x>> \in R
        BY <1>3
    <2> QED
        BY <2>1, <1>2
<1> QED
    BY <1>3, <1>4
-------------------------------------------------------------------------------


\* Sequences, whatever they hold.
IsSeq(s) == s \in Seq(Range(s))
\* Slots that are different fields of an object.
Distinct(s) ==
    \A a, b \in DOMAIN s : s[a][1] = s[b][1] /\ s[a][2] = s[b][2] => a = b
Apart(s, t) ==
    \A a \in DOMAIN s, b \in DOMAIN t : ~ (s[a][1] = t[b][1] /\ s[a][2] = t[b][2])

LEMMA SeqIsSeq ==
    ASSUME NEW X, NEW s \in Seq(X)
    PROVE  IsSeq(s) /\ DOMAIN s = 1 .. Len(s) /\ Len(s) \in Nat
<1>1. \A i \in 1 .. Len(s) : s[i] \in Range(s)
    BY DEF Range
<1> QED
    BY <1>1 DEF IsSeq

LEMMA IsSeqParts ==
    ASSUME NEW s, IsSeq(s)
    PROVE  /\ DOMAIN s = 1 .. Len(s) /\ Len(s) \in Nat
           /\ \A i \in 1 .. Len(s) : s[i] \in Range(s)
           /\ \A x \in Range(s) : \E i \in 1 .. Len(s) : s[i] = x
BY DEF IsSeq, Range

LEMMA MakeSeq ==
    ASSUME NEW s, NEW n \in Nat, DOMAIN s = 1 .. n, s = [i \in 1 .. n |-> s[i]]
    PROVE  IsSeq(s) /\ Len(s) = n
<1>1. s \in [1 .. n -> Range(s)]
    BY DEF Range
<1> QED
    BY <1>1 DEF IsSeq

LEMMA ConcatIs ==
    ASSUME NEW s, NEW t, IsSeq(s), IsSeq(t)
    PROVE  /\ IsSeq(s \o t) /\ Range(s \o t) = Range(s) \cup Range(t)
           /\ Len(s \o t) = Len(s) + Len(t)
           /\ \A i \in 1 .. Len(s) : (s \o t)[i] = s[i]
           /\ \A i \in 1 .. Len(t) : (s \o t)[Len(s) + i] = t[i]
           /\ Distinct(s) /\ Distinct(t) /\ Apart(s, t) => Distinct(s \o t)
<1> DEFINE X == Range(s) \cup Range(t)
           u == s \o t
<1>1. s \in Seq(X) /\ t \in Seq(X)
    BY DEF IsSeq
<1> HIDE DEF X
<1>2. /\ u \in Seq(X) /\ Len(u) = Len(s) + Len(t)
      /\ \A i \in 1 .. Len(s) : u[i] = s[i]
      /\ \A i \in 1 .. Len(t) : u[Len(s) + i] = t[i]
      /\ \A i \in 1 .. Len(u) : i \in 1 .. Len(s) \/ i - Len(s) \in 1 .. Len(t)
    BY <1>1
<1>3. IsSeq(u) /\ DOMAIN u = 1 .. Len(u)
    BY <1>2, SeqIsSeq
<1>4. /\ DOMAIN s = 1 .. Len(s) /\ Len(s) \in Nat
      /\ DOMAIN t = 1 .. Len(t) /\ Len(t) \in Nat
    BY IsSeqParts
<1> HIDE DEF u
<1>5. \A i \in DOMAIN u : \/ i \in DOMAIN s /\ u[i] = s[i]
                          \/ /\ i - Len(s) \in DOMAIN t /\ u[i] = t[i - Len(s)]
                             /\ i \notin DOMAIN s
    <2> SUFFICES ASSUME NEW i \in DOMAIN u, i \notin DOMAIN s
                 PROVE  i - Len(s) \in DOMAIN t /\ u[i] = t[i - Len(s)]
        BY <1>2, <1>3, <1>4
    <2>1. i - Len(s) \in 1 .. Len(t) /\ i = Len(s) + (i - Len(s))
        BY <1>2, <1>3, <1>4
    <2> QED
        BY <2>1, <1>2, <1>4
<1>6. Range(u) \subseteq Range(s) \cup Range(t)
    BY <1>5 DEF Range
<1>7. Range(s) \subseteq Range(u)
    <2>1. \A i \in DOMAIN s : i \in DOMAIN u /\ u[i] = s[i]
        BY <1>2, <1>3, <1>4
    <2> QED
        BY <2>1 DEF Range
<1>8. Range(t) \subseteq Range(u)
    <2>1. \A i \in DOMAIN t : Len(s) + i \in DOMAIN u /\ u[Len(s) + i] = t[i]
        BY <1>2, <1>3, <1>4
    <2> QED
        BY <2>1 DEF Range
<1>9. ASSUME Distinct(s), Distinct(t), Apart(s, t) PROVE Distinct(u)
    <2> SUFFICES ASSUME NEW a \in DOMAIN u, NEW b \in DOMAIN u,
                        u[a][1] = u[b][1], u[a][2] = u[b][2]
                 PROVE  a = b
        BY DEF Distinct
    <2>1. CASE a \in DOMAIN s /\ b \in DOMAIN s
        BY <2>1, <1>5, <1>9, <1>4 DEF Distinct
    <2>2. CASE a \in DOMAIN s /\ b \notin DOMAIN s
        BY <2>2, <1>5, <1>9, <1>4 DEF Apart
    <2>3. CASE a \notin DOMAIN s /\ b \in DOMAIN s
        BY <2>3, <1>5, <1>9, <1>4 DEF Apart
    <2>4. CASE a \notin DOMAIN s /\ b \notin DOMAIN s
        <3>1. a - Len(s) = b - Len(s)
            BY <2>4, <1>5, <1>9 DEF Distinct
        <3> QED
            BY <3>1, <1>3, <1>4
    <2> QED
        BY <2>1, <2>2, <2>3, <2>4
<1> QED
    BY <1>2, <1>3, <1>6, <1>7, <1>8, <1>9 DEF u

LEMMA TailIs ==
    ASSUME NEW s, IsSeq(s), s # <<>>
    PROVE  /\ IsSeq(Tail(s)) /\ Range(Tail(s)) \subseteq Range(s) /\ Head(s) = s[1]
           /\ 1 \in DOMAIN s /\ Len(Tail(s)) = Len(s) - 1 /\ Len(s) \in Nat \ {0}
           /\ \A i \in 1 .. Len(s) - 1 : Tail(s)[i] = s[i + 1]
           /\ \A x \in Range(s) : x = Head(s) \/ x \in Range(Tail(s))
<1> DEFINE X == Range(s)
<1>1. s \in Seq(X) /\ \A x \in X : \E i \in DOMAIN s : s[i] = x
    BY DEF IsSeq, Range
<1> HIDE DEF X
<1>2. /\ Tail(s) \in Seq(X) /\ Head(s) = s[1] /\ 1 \in DOMAIN s
      /\ Len(s) \in Nat \ {0} /\ DOMAIN s = 1 .. Len(s)
      /\ Len(Tail(s)) = Len(s) - 1
      /\ \A i \in 1 .. Len(s) - 1 : Tail(s)[i] = s[i + 1]
    BY <1>1
<1>3. IsSeq(Tail(s)) /\ DOMAIN Tail(s) = 1 .. Len(s) - 1
    BY <1>2, SeqIsSeq
<1>4. \A i \in DOMAIN Tail(s) : Tail(s)[i] \in X
    BY <1>2
<1>5. Range(Tail(s)) \subseteq Range(s)
    BY <1>4 DEF Range, X
<1>6. ASSUME NEW x \in Range(s) PROVE x = Head(s) \/ x \in Range(Tail(s))
    <2>1. PICK i \in DOMAIN s : s[i] = x
        BY <1>1, <1>6 DEF X
    <2>2. CASE i = 1
        BY <2>1, <2>2, <1>2
    <2>3. CASE i # 1
        <3>1. i - 1 \in DOMAIN Tail(s) /\ Tail(s)[i - 1] = x
            BY <2>1, <2>3, <1>2, <1>3
        <3> QED
            BY <3>1 DEF Range
    <2> QED
        BY <2>2, <2>3
<1> QED
    BY <1>2, <1>3, <1>5, <1>6

-------------------------------------------------------------------------------
\* FlattenSeq: the lists one after the other.
FlatsIt(r, g) ==
    g = [i \in 1 .. Len(r) |-> IF i = 1 THEN r[i] ELSE g[i - 1] \o r[i]]

Flats(r, g, k) == \A i \in 1 .. k : g[i] = IF i = 1 THEN r[i] ELSE g[i - 1] \o r[i]
LEMMA FlatExists ==
    ASSUME NEW X, NEW n \in Nat \ {0}, NEW r \in [1 .. n -> Seq(X)]
    PROVE  \E g : FlatsIt(r, g)
<1> DEFINE Good == {k \in Nat : \E g \in [1 .. k -> Seq(X)] : k <= n => Flats(r, g, k)}
<1>1. 0 \in Good
    <2>1. <<>> \in [1 .. 0 -> Seq(X)] /\ Flats(r, <<>>, 0)
        BY DEF Flats
    <2> QED
        BY <2>1
<1>2. ASSUME NEW k \in Nat, k \in Good PROVE k + 1 \in Good
    <2>1. PICK g \in [1 .. k -> Seq(X)] : k <= n => Flats(r, g, k)
        BY <1>2
    <2> DEFINE last == IF k + 1 <= n THEN IF k = 0 THEN r[k + 1] ELSE g[k] \o r[k + 1] ELSE <<>>
               h == [i \in 1 .. k + 1 |-> IF i <= k THEN g[i] ELSE last]
    <2>2. last \in Seq(X)
        <3>1. CASE k + 1 <= n
            <4>1. r[k + 1] \in Seq(X) /\ (k # 0 => g[k] \in Seq(X))
                BY <3>1
            <4>2. k # 0 => g[k] \o r[k + 1] \in Seq(X)
                BY <4>1
            <4> QED
                BY <3>1, <4>1, <4>2
        <3>2. CASE ~ (k + 1 <= n)
            BY <3>2
        <3> QED
            BY <3>1, <3>2
    <2>3. /\ h[k + 1] = last /\ \A i \in 1 .. k : h[i] = g[i]
          /\ h \in [1 .. k + 1 -> Seq(X)]
        <3> HIDE DEF last
        <3>1. \A i \in 1 .. k + 1 : (IF i <= k THEN g[i] ELSE last) \in Seq(X)
            BY <2>2
        <3> QED
            BY <3>1
    <2>4. k + 1 <= n =>
              last = IF k + 1 = 1 THEN r[k + 1] ELSE g[k] \o r[k + 1]
        OBVIOUS
    <2> HIDE DEF h, last
    <2>5. ASSUME k + 1 <= n PROVE Flats(r, h, k + 1)
        <3> SUFFICES ASSUME NEW i \in 1 .. k + 1
                     PROVE  h[i] = IF i = 1 THEN r[i] ELSE h[i - 1] \o r[i]
            BY DEF Flats
        <3>1. CASE i = k + 1
            <4>1. i # 1 => h[i - 1] = g[k]
                BY <2>3, <3>1
            <4> QED
                BY <2>3, <2>4, <2>5, <3>1, <4>1
        <3>2. CASE i # k + 1
            <4>1. i \in 1 .. k /\ (i # 1 => i - 1 \in 1 .. k) /\ k <= n
                BY <2>5, <3>2
            <4>2. g[i] = IF i = 1 THEN r[i] ELSE g[i - 1] \o r[i]
                BY <2>1, <4>1 DEF Flats
            <4> QED
                BY <2>3, <4>1, <4>2
        <3> QED
            BY <3>1, <3>2
    <2>6. k + 1 \in Nat /\ \E f \in [1 .. k + 1 -> Seq(X)] : k + 1 <= n => Flats(r, f, k + 1)
        BY <2>3, <2>5
    <2> QED
        BY <2>6
<1>3. n \in Good
    <2> HIDE DEF Good
    <2> QED
        BY <1>1, <1>2, SetInduction
<1>4. PICK f \in [1 .. n -> Seq(X)] : Flats(r, f, n)
    BY <1>3
<1> DEFINE g == [i \in 1 .. n |-> f[i]]
<1>5. g = f /\ Len(r) = n
    OBVIOUS
<1>6. f = [i \in 1 .. n |-> IF i = 1 THEN r[i] ELSE f[i - 1] \o r[i]]
    BY <1>4, <1>5 DEF Flats
<1>7. FlatsIt(r, f)
    BY <1>5, <1>6, Zenon DEF FlatsIt
<1> QED
    BY <1>7

\* What a prefix of the lists comes to.
FlatOf(r, k, s) ==
    /\ \A x : x \in Range(s) <=> \E j \in 1 .. k : x \in Range(r[j])
    /\ /\ \A j \in 1 .. k : Distinct(r[j])
       /\ \A i, j \in 1 .. k : i # j => Apart(r[i], r[j])
       => Distinct(s)
    /\ \A a, b \in DOMAIN s : a < b =>
          \E i, j \in 1 .. k : i <= j /\ s[a] \in Range(r[i]) /\ s[b] \in Range(r[j])

LEMMA FlattenIs ==
    ASSUME NEW X, NEW n \in Nat, NEW r \in [1 .. n -> Seq(X)]
    PROVE  FlattenSeq(r) \in Seq(X) /\ FlatOf(r, n, FlattenSeq(r))
<1>1. CASE n = 0
    <2>1. r = <<>> /\ FlattenSeq(r) = <<>>
        BY <1>1 DEF FlattenSeq
    <2>2. DOMAIN <<>> = {} /\ <<>> \in Seq(X)
        OBVIOUS
    <2>3. FlatOf(r, n, <<>>)
        <3>1. Range(<<>>) = {} /\ Distinct(<<>>)
            BY <2>2 DEF Range, Distinct
        <3>2. 1 .. n = {}
            BY <1>1
        <3> QED
            BY <2>2, <3>1, <3>2 DEF FlatOf
    <2> QED
        BY <2>1, <2>2, <2>3
<1>2. CASE n # 0
    <2> DEFINE g == CHOOSE g : FlatsIt(r, g)
    <2>1. Len(r) = n
        OBVIOUS
    <2>2. FlattenSeq(r) = g[n]
        BY <1>2, <2>1 DEF FlattenSeq, FlatsIt
    <2>3. FlatsIt(r, g)
        BY <1>2, FlatExists
    <2> HIDE DEF g
    <2>4. /\ g[1] = r[1]
          /\ \A i \in 1 .. n : i # 1 => g[i] = g[i - 1] \o r[i]
        <3>1. \A i \in 1 .. n : g[i] = IF i = 1 THEN r[i] ELSE g[i - 1] \o r[i]
            BY <2>1, <2>3, Zenon DEF FlatsIt
        <3>2. 1 \in 1 .. n
            BY <1>2
        <3> QED
            BY <3>1, <3>2
    <2> DEFINE Good == {k \in Nat : k + 1 <= n => g[k + 1] \in Seq(X) /\ FlatOf(r, k + 1, g[k + 1])}
    <2>5. 0 \in Good
        <3>1. g[1] = r[1] /\ r[1] \in Seq(X) /\ 1 .. 1 = {1} /\ 0 + 1 = 1
            BY <2>4, <1>2
        <3>2. \A x : x \in Range(g[1]) <=> \E j \in 1 .. 1 : x \in Range(r[j])
            BY <3>1
        <3>3. (\A j \in 1 .. 1 : Distinct(r[j])) => Distinct(g[1])
            BY <3>1
        <3>4. \A a, b \in DOMAIN g[1] : a < b =>
                  \E i, j \in 1 .. 1 : /\ i <= j /\ g[1][a] \in Range(r[i])
                                       /\ g[1][b] \in Range(r[j])
            BY <3>1 DEF Range
        <3>5. FlatOf(r, 1, g[1])
            BY <3>2, <3>3, <3>4 DEF FlatOf
        <3> QED
            BY <3>1, <3>5
    <2>6. ASSUME NEW k \in Nat, k \in Good PROVE k + 1 \in Good
        <3> SUFFICES ASSUME (k + 1) + 1 <= n
                     PROVE  /\ g[(k + 1) + 1] \in Seq(X)
                            /\ FlatOf(r, (k + 1) + 1, g[(k + 1) + 1])
            OBVIOUS
        <3> DEFINE m == k + 1
                   s == g[m]
                   t == r[m + 1]
        <3>1. m \in 1 .. n /\ m + 1 \in 1 .. n /\ m \in Nat
            OBVIOUS
        <3>2. s \in Seq(X) /\ FlatOf(r, m, s) /\ t \in Seq(X) /\ g[m + 1] = s \o t
            <4>1. s \in Seq(X) /\ FlatOf(r, m, s)
                BY <2>6, <3>1
            <4>2. m + 1 # 1 /\ (m + 1) - 1 = m
                BY <3>1
            <4> QED
                BY <2>4, <3>1, <4>1, <4>2
        <3>3. \A j \in 1 .. m + 1 : j \in 1 .. m \/ j = m + 1
            BY <3>1
        <3>4. \A j \in 1 .. m : j \in 1 .. m + 1 /\ j # m + 1
            BY <3>1
        <3>4a. m + 1 \in 1 .. m + 1
            BY <3>1
        <3> HIDE DEF m, s, t
        <3>5. s \o t \in Seq(X)
            BY <3>2
        <3>6. IsSeq(s) /\ IsSeq(t)
            BY <3>2, SeqIsSeq
        <3>7. /\ Range(s \o t) = Range(s) \cup Range(t)
              /\ Distinct(s) /\ Distinct(t) /\ Apart(s, t) => Distinct(s \o t)
            BY <3>6, ConcatIs
        <3>8. ASSUME NEW x PROVE x \in Range(s \o t) <=> \E j \in 1 .. m + 1 : x \in Range(r[j])
            BY <3>2, <3>3, <3>4, <3>4a, <3>7 DEF t, FlatOf
        <3>9. ASSUME \A j \in 1 .. m + 1 : Distinct(r[j]),
                     \A i, j \in 1 .. m + 1 : i # j => Apart(r[i], r[j])
              PROVE  Distinct(s \o t)
            <4>1. Distinct(s)
                BY <3>9, <3>4, <3>2 DEF FlatOf
            <4>2. Distinct(t)
                BY <3>9, <3>4a DEF t
            <4>3. Apart(s, t)
                <5> SUFFICES ASSUME NEW a \in DOMAIN s, NEW b \in DOMAIN t
                             PROVE  ~ (s[a][1] = t[b][1] /\ s[a][2] = t[b][2])
                    BY DEF Apart
                <5>1. s[a] \in Range(s)
                    BY DEF Range
                <5>2. PICK j \in 1 .. m : s[a] \in Range(r[j])
                    BY <5>1, <3>2 DEF FlatOf
                <5>3. PICK c \in DOMAIN r[j] : s[a] = r[j][c]
                    BY <5>2 DEF Range
                <5>4. Apart(r[j], t)
                    BY <3>9, <3>4, <3>4a DEF t
                <5> QED
                    BY <5>3, <5>4 DEF Apart
            <4> QED
                BY <4>1, <4>2, <4>3, <3>7
        <3>9a. ASSUME NEW a \in DOMAIN (s \o t), NEW b \in DOMAIN (s \o t), a < b
              PROVE  \E i, j \in 1 .. m + 1 : /\ i <= j /\ (s \o t)[a] \in Range(r[i])
                                              /\ (s \o t)[b] \in Range(r[j])
            <4> DEFINE u == s \o t
            <4>1. /\ Len(s) \in Nat /\ DOMAIN s = 1 .. Len(s)
                  /\ Len(t) \in Nat /\ DOMAIN t = 1 .. Len(t)
                  /\ DOMAIN u = 1 .. Len(s) + Len(t)
                  /\ \A i \in 1 .. Len(s) : u[i] = s[i]
                  /\ \A i \in 1 .. Len(t) : u[Len(s) + i] = t[i]
                BY <3>2
            <4> HIDE DEF u
            <4>2. \A c \in DOMAIN u : \/ c \in 1 .. Len(s)
                                      \/ c - Len(s) \in 1 .. Len(t) /\ Len(s) + (c - Len(s)) = c
                BY <4>1
            <4>3. \A c \in DOMAIN u : /\ c \in 1 .. Len(s) => u[c] = s[c]
                                      /\ c \notin 1 .. Len(s) => u[c] \in Range(r[m + 1])
                <5>1. \A i \in 1 .. Len(t) : t[i] \in Range(t)
                    BY <4>1 DEF Range
                <5>2. Range(t) = Range(r[m + 1])
                    BY DEF t
                <5> HIDE DEF t
                <5>3. ASSUME NEW c \in DOMAIN u, c \notin 1 .. Len(s)
                      PROVE  u[c] \in Range(r[m + 1])
                    <6>1. c - Len(s) \in 1 .. Len(t) /\ Len(s) + (c - Len(s)) = c
                        BY <4>2, <5>3
                    <6>2. u[c] = t[c - Len(s)]
                        BY <4>1, <6>1
                    <6> QED
                        BY <5>1, <5>2, <6>1, <6>2
                <5> QED
                    BY <4>1, <5>3
            <4>4. a \in DOMAIN u /\ b \in DOMAIN u
                BY <3>9a DEF u
            <4>5. CASE b \in 1 .. Len(s)
                <5>1. a \in 1 .. Len(s)
                    BY <4>1, <4>4, <4>5, <3>9a
                <5>2. PICK i, j \in 1 .. m : /\ i <= j /\ s[a] \in Range(r[i])
                                             /\ s[b] \in Range(r[j])
                    BY <3>2, <3>9a, <5>1, <4>5, <4>1 DEF FlatOf
                <5>3. u[a] = s[a] /\ u[b] = s[b] /\ i \in 1 .. m + 1 /\ j \in 1 .. m + 1
                    <6>1. u[a] = s[a] /\ u[b] = s[b]
                        BY <5>1, <4>3, <4>4, <4>5
                    <6>2. i \in 1 .. m + 1 /\ j \in 1 .. m + 1
                        BY <3>4
                    <6> QED
                        BY <6>1, <6>2
                <5>4. i <= j /\ u[a] \in Range(r[i]) /\ u[b] \in Range(r[j])
                    BY <5>2, <5>3
                <5> QED
                    BY <5>3, <5>4, Zenon DEF u
            <4>6. CASE a \in 1 .. Len(s) /\ b \notin 1 .. Len(s)
                <5>1. s[a] \in Range(s)
                    BY <4>1, <4>6 DEF Range
                <5>2. PICK i \in 1 .. m : s[a] \in Range(r[i])
                    BY <3>2, <5>1 DEF FlatOf
                <5>3. i <= m + 1 /\ i \in 1 .. m + 1
                    BY <3>1, <3>4 DEF m
                <5>4. i <= m + 1 /\ u[a] \in Range(r[i]) /\ u[b] \in Range(r[m + 1])
                    <6>1. u[a] = s[a] /\ u[b] \in Range(r[m + 1])
                        BY <4>3, <4>4, <4>6
                    <6> QED
                        BY <6>1, <5>2, <5>3
                <5> QED
                    BY <5>3, <5>4, <3>4a, Zenon DEF u
            <4>7. CASE a \notin 1 .. Len(s) /\ b \notin 1 .. Len(s)
                <5>1. m + 1 <= m + 1
                    BY DEF m
                <5> QED
                    BY <5>1, <4>3, <4>4, <4>7, <3>4a DEF u
            <4> QED
                BY <4>5, <4>6, <4>7
        <3>10. FlatOf(r, m + 1, s \o t)
            BY <3>8, <3>9, <3>9a DEF FlatOf
        <3> QED
            BY <3>2, <3>5, <3>10 DEF m
    <2>7. Nat \subseteq Good
        <3> HIDE DEF Good
        <3> QED
            BY <2>5, <2>6, SetInduction
    <2>8. n - 1 \in Nat /\ (n - 1) + 1 = n
        BY <1>2
    <2>9. n - 1 \in Good
        BY <2>7, <2>8
    <2> QED
        BY <2>9, <2>8, <2>2
<1> QED
    BY <1>1, <1>2

-------------------------------------------------------------------------------
\* The lists of fields, and what Slots and Buckets make of them.
IsList(fms) == Len(fms) \in Nat /\ DOMAIN fms = 1 .. Len(fms)
OneByOne(fms) == \A a, b \in DOMAIN fms : fms[a][1] = fms[b][1] => a = b

\* A structure: its fields are sequences of pointers, and a table has values.
Shaped(o) == /\ \A f \in DOMAIN o.f : IsSeq(o.f[f])
             /\ o.kind \in Tables =>
                  /\ "val" \in DOMAIN o.f
                  /\ "key" \in DOMAIN o.f => DOMAIN o.f.key \subseteq DOMAIN o.f.val

\* Slots that there are.
Within(o, s) ==
    /\ IsSeq(s)
    /\ \A x \in Range(s) : x[1] \in DOMAIN o.f /\ x[2] \in DOMAIN o.f[x[1]]

LEMMA SlotsAre ==
    ASSUME NEW o, Shaped(o), NEW fms, IsList(fms)
    PROVE  /\ Within(o, Slots(o, fms))
           /\ \A x : x \in Range(Slots(o, fms)) <=>
                 \E j \in DOMAIN fms : \E i \in DOMAIN Field(o, fms[j][1]) :
                    x = <<fms[j][1], i, fms[j][2]>>
           /\ OneByOne(fms) => Distinct(Slots(o, fms))
           /\ \A a, b \in DOMAIN Slots(o, fms) : a < b =>
                 \E i, j \in DOMAIN fms : /\ i <= j /\ Slots(o, fms)[a][1] = fms[i][1]
                                          /\ Slots(o, fms)[b][1] = fms[j][1]
<1> DEFINE n == Len(fms)
           r == [j \in DOMAIN fms |->
                    [i \in DOMAIN Field(o, fms[j][1]) |-> <<fms[j][1], i, fms[j][2]>>]]
           X == UNION {Range(r[j]) : j \in 1 .. n}
<1>1. n \in Nat /\ DOMAIN fms = 1 .. n
    BY DEF IsList
<1>2. ASSUME NEW j \in 1 .. n
      PROVE  /\ IsSeq(r[j]) /\ DOMAIN r[j] = DOMAIN Field(o, fms[j][1])
             /\ \A i \in DOMAIN r[j] : r[j][i] = <<fms[j][1], i, fms[j][2]>>
    <2>1. IsSeq(Field(o, fms[j][1]))
        <3>1. <<>> \in Seq(Range(<<>>))
            OBVIOUS
        <3> QED
            BY <3>1 DEF Field, Shaped, IsSeq
    <2>2. PICK m \in Nat : DOMAIN Field(o, fms[j][1]) = 1 .. m
        BY <2>1, IsSeqParts
    <2>3. r[j] = [i \in 1 .. m |-> <<fms[j][1], i, fms[j][2]>>]
        BY <1>1, <2>2
    <2> HIDE DEF r
    <2>4. DOMAIN r[j] = 1 .. m /\ \A i \in 1 .. m : r[j][i] = <<fms[j][1], i, fms[j][2]>>
        BY <2>3
    <2>5. r[j] = [i \in 1 .. m |-> r[j][i]]
        BY <2>3, <2>4
    <2> QED
        BY <2>2, <2>4, <2>5, MakeSeq
<1>3. DOMAIN r = 1 .. n /\ r = [j \in 1 .. n |-> r[j]]
    BY <1>1
<1>4. Slots(o, fms) = FlattenSeq(r)
    BY DEF Slots
<1> HIDE DEF r, n
<1>5. r \in [1 .. n -> Seq(X)]
    <2>1. \A j \in 1 .. n : r[j] \in Seq(X)
        <3> SUFFICES ASSUME NEW j \in 1 .. n PROVE r[j] \in Seq(X)
            OBVIOUS
        <3>1. Range(r[j]) \subseteq X
            OBVIOUS
        <3> HIDE DEF X
        <3> QED
            BY <1>2, <3>1 DEF IsSeq
    <2> HIDE DEF X
    <2> QED
        BY <1>3, <2>1
<1>6. FlattenSeq(r) \in Seq(X) /\ FlatOf(r, n, FlattenSeq(r))
    <2> HIDE DEF X
    <2> QED
        BY <1>1, <1>5, FlattenIs
<1>7. IsSeq(Slots(o, fms))
    BY <1>4, <1>6, SeqIsSeq
<1>8. ASSUME NEW x
      PROVE  x \in Range(Slots(o, fms)) <=>
                \E j \in DOMAIN fms : \E i \in DOMAIN Field(o, fms[j][1]) :
                   x = <<fms[j][1], i, fms[j][2]>>
    <2>1. x \in Range(Slots(o, fms)) <=> \E j \in 1 .. n : x \in Range(r[j])
        BY <1>4, <1>6 DEF FlatOf
    <2>2. ASSUME NEW j \in 1 .. n
          PROVE  x \in Range(r[j]) <=>
                    \E i \in DOMAIN Field(o, fms[j][1]) : x = <<fms[j][1], i, fms[j][2]>>
        <3>1. x \in Range(r[j]) <=> \E i \in DOMAIN r[j] : x = r[j][i]
            BY DEF Range
        <3> QED
            BY <3>1, <1>2
    <2> QED
        BY <2>1, <2>2, <1>1, Zenon
<1>9. ASSUME OneByOne(fms) PROVE Distinct(Slots(o, fms))
    <2>1. \A j \in 1 .. n : Distinct(r[j])
        BY <1>2 DEF Distinct
    <2>2. \A i, j \in 1 .. n : i # j => Apart(r[i], r[j])
        BY <1>1, <1>2, <1>9 DEF Apart, OneByOne
    <2> QED
        BY <2>1, <2>2, <1>4, <1>6 DEF FlatOf
<1>10. \A x \in Range(Slots(o, fms)) : x[1] \in DOMAIN o.f /\ x[2] \in DOMAIN o.f[x[1]]
    <2> SUFFICES ASSUME NEW j \in DOMAIN fms, NEW i \in DOMAIN Field(o, fms[j][1])
                 PROVE  fms[j][1] \in DOMAIN o.f /\ i \in DOMAIN o.f[fms[j][1]]
        BY <1>8
    <2>1. DOMAIN <<>> = {}
        OBVIOUS
    <2> QED
        BY <2>1 DEF Field
<1>11. \A a, b \in DOMAIN Slots(o, fms) : a < b =>
           \E i, j \in DOMAIN fms : /\ i <= j /\ Slots(o, fms)[a][1] = fms[i][1]
                                    /\ Slots(o, fms)[b][1] = fms[j][1]
    <2>1. \A j \in 1 .. n : \A x \in Range(r[j]) : x[1] = fms[j][1]
        BY <1>2 DEF Range
    <2> SUFFICES ASSUME NEW a \in DOMAIN Slots(o, fms), NEW b \in DOMAIN Slots(o, fms), a < b
                 PROVE  \E i, j \in DOMAIN fms : /\ i <= j /\ Slots(o, fms)[a][1] = fms[i][1]
                                                 /\ Slots(o, fms)[b][1] = fms[j][1]
        OBVIOUS
    <2>2. PICK i, j \in 1 .. n : /\ i <= j /\ Slots(o, fms)[a] \in Range(r[i])
                                 /\ Slots(o, fms)[b] \in Range(r[j])
        BY <1>4, <1>6 DEF FlatOf
    <2>3. Slots(o, fms)[a][1] = fms[i][1] /\ Slots(o, fms)[b][1] = fms[j][1]
        BY <2>1, <2>2
    <2> QED
        BY <2>2, <2>3, <1>1
<1> QED
    BY <1>7, <1>8, <1>9, <1>10, <1>11 DEF Within

LEMMA BucketsAre ==
    ASSUME NEW o, Shaped(o), "val" \in DOMAIN o.f, NEW mode
    PROVE  /\ Within(o, Buckets(o, mode)) /\ Distinct(Buckets(o, mode))
           /\ \A x \in Range(Buckets(o, mode)) :
                 \/ x[1] = "key" /\ x[3] = "str" /\ x = <<"key", x[2], "str">>
                 \/ x[1] = "val" /\ x[3] = mode /\ x = <<"val", x[2], mode>>
           /\ \A i \in DOMAIN o.f.val : /\ <<"val", i, mode>> \in Range(Buckets(o, mode))
                                        /\ "key" \in DOMAIN o.f /\ i \in DOMAIN o.f.key =>
                                              <<"key", i, "str">> \in Range(Buckets(o, mode))
<1> DEFINE K(i) == IF i \in DOMAIN Field(o, "key") THEN <<<<"key", i, "str">>>> ELSE <<>>
           r == [i \in DOMAIN o.f.val |-> K(i) \o <<<<"val", i, mode>>>>]
           X == UNION {Range(r[i]) : i \in DOMAIN o.f.val}
<1>1. PICK n \in Nat : DOMAIN o.f.val = 1 .. n
    BY IsSeqParts DEF Shaped
<1>2. ASSUME NEW i \in 1 .. n
      PROVE  /\ IsSeq(r[i])
             /\ Range(r[i]) = {<<"val", i, mode>>} \cup
                    (IF i \in DOMAIN Field(o, "key") THEN {<<"key", i, "str">>} ELSE {})
             /\ Distinct(r[i])
    <2>1. r[i] = K(i) \o <<<<"val", i, mode>>>>
        BY <1>1
    <2> HIDE DEF r
    <2>2. CASE i \in DOMAIN Field(o, "key")
        <3> DEFINE s == <<<<"key", i, "str">>>>
                   t == <<<<"val", i, mode>>>>
        <3>1. r[i] = s \o t
            BY <2>1, <2>2
        <3>2. /\ DOMAIN s = {1} /\ s[1] = <<"key", i, "str">> /\ s \in Seq({s[1]})
              /\ DOMAIN t = {1} /\ t[1] = <<"val", i, mode>> /\ t \in Seq({t[1]})
            OBVIOUS
        <3> HIDE DEF s, t
        <3>3. IsSeq(s) /\ IsSeq(t)
            BY <3>2, SeqIsSeq
        <3>4. Distinct(s) /\ Distinct(t) /\ Apart(s, t)
            BY <3>2 DEF Distinct, Apart
        <3>5. Range(s) = {<<"key", i, "str">>} /\ Range(t) = {<<"val", i, mode>>}
            BY <3>2 DEF Range
        <3> QED
            BY <3>1, <3>3, <3>4, <3>5, <2>2, ConcatIs
    <2>3. CASE i \notin DOMAIN Field(o, "key")
        <3>1. r[i] = <<<<"val", i, mode>>>>
            BY <2>1, <2>3
        <3>2. /\ DOMAIN r[i] = {1} /\ r[i] \in Seq({r[i][1]})
              /\ r[i][1] = <<"val", i, mode>>
            BY <3>1
        <3> QED
            BY <3>2, <2>3, SeqIsSeq DEF Range, Distinct
    <2> QED
        BY <2>2, <2>3
<1>3. DOMAIN r = 1 .. n /\ r = [j \in 1 .. n |-> r[j]]
    BY <1>1
<1>4. Buckets(o, mode) = FlattenSeq(r)
    BY DEF Buckets
<1> HIDE DEF r
<1>5. r \in [1 .. n -> Seq(X)]
    <2>1. \A j \in 1 .. n : r[j] \in Seq(X)
        <3> SUFFICES ASSUME NEW j \in 1 .. n PROVE r[j] \in Seq(X)
            OBVIOUS
        <3>1. Range(r[j]) \subseteq X
            BY <1>1
        <3> HIDE DEF X
        <3> QED
            BY <1>2, <3>1 DEF IsSeq
    <2> HIDE DEF X
    <2> QED
        BY <1>3, <2>1
<1>6. FlattenSeq(r) \in Seq(X) /\ FlatOf(r, n, FlattenSeq(r))
    <2> HIDE DEF X
    <2> QED
        BY <1>1, <1>5, FlattenIs
<1>7. IsSeq(Buckets(o, mode))
    BY <1>4, <1>6, SeqIsSeq
<1>8. \A x : x \in Range(Buckets(o, mode)) <=> \E j \in 1 .. n : x \in Range(r[j])
    BY <1>4, <1>6 DEF FlatOf
<1>9. Distinct(Buckets(o, mode))
    <2>1. \A i, j \in 1 .. n : i # j => Apart(r[i], r[j])
        <3> SUFFICES ASSUME NEW i \in 1 .. n, NEW j \in 1 .. n, i # j,
                            NEW a \in DOMAIN r[i], NEW b \in DOMAIN r[j]
                     PROVE  r[i][a][2] # r[j][b][2]
            BY DEF Apart
        <3>1. r[i][a] \in Range(r[i]) /\ r[j][b] \in Range(r[j])
            BY DEF Range
        <3>2. r[i][a][2] = i /\ r[j][b][2] = j
            BY <3>1, <1>2
        <3> QED
            BY <3>2
    <2> QED
        BY <2>1, <1>2, <1>4, <1>6 DEF FlatOf
<1>10. DOMAIN Field(o, "key") = IF "key" \in DOMAIN o.f THEN DOMAIN o.f.key ELSE {}
    BY DEF Field
<1>11. ASSUME NEW x \in Range(Buckets(o, mode))
       PROVE  \/ x = <<"key", x[2], "str">> /\ "key" \in DOMAIN o.f /\ x[2] \in DOMAIN o.f.key
              \/ x = <<"val", x[2], mode>> /\ x[2] \in DOMAIN o.f.val
    BY <1>1, <1>2, <1>8, <1>10, <1>11
<1>12. \A i \in DOMAIN o.f.val : /\ <<"val", i, mode>> \in Range(Buckets(o, mode))
                                 /\ "key" \in DOMAIN o.f /\ i \in DOMAIN o.f.key =>
                                       <<"key", i, "str">> \in Range(Buckets(o, mode))
    BY <1>1, <1>2, <1>8, <1>10
<1> QED
    BY <1>7, <1>9, <1>11, <1>12 DEF Within

-------------------------------------------------------------------------------
\* The modes in which persist copies.
Copying == {"str", "once", "put", "data", "type", "zval"}

\* The fields of which calc counts the target, those of a method that it has gone
\* through before excepted.
Counted(version, o) ==
    CASE o.kind = "op_array" -> OpArrayFields
      [] o.kind = "script" ->
            OpArrayFields \cup {"script_name", "classes", "functions", "consts", "early"}
      [] o.kind = "class" ->
            {"name", "parent", "methods", "defaults", "static_members", "constants",
             "props", "filename", "attrs", "interfaces", "traits", "aliases",
             "precedences"}
      [] o.kind = "prop" ->
            {"name", "type", "attrs"} \cup (IF version >= 80400 THEN {"hooks"} ELSE {})
      [] o.kind = "cconst" ->
            {"value", "attrs"} \cup (IF version >= 80300 THEN {"type"} ELSE {})
      [] o.kind = "const" -> {"name", "value"}
      [] o.kind = "attr" -> {"name", "args"}
      [] o.kind = "ht" -> {"data"}
      [] o.kind \in Tables -> {"key", "val"}
      [] o.kind \in {"names", "rule"} -> {"name"}
      [] o.kind = "arg_info" -> {"name", "type"}
      [] o.kind = "types" -> {"type"}
      [] o.kind = "ast_ref" -> {"ast"}
      [] o.kind = "ast" -> {"value", "child"}
      [] OTHER -> {}
CountedFields(o) == Counted(ver, o)

\* The modes that persist may have for a field; only a class is updated, behind the copy.
ModeFits(o, f, m) ==
    /\ m \in Copying \cup {"xlat", "patch", "update"}
    /\ m \in Copying => f \notin Translated
    /\ m = "xlat" => f \in {"scope", "prototype"}
    /\ m = "patch" => f \in {"ce", "magic", "callstatic"}
    /\ m \in {"put", "data"} => Owning(o, f)
    /\ m = "update" => o.kind = "classes" /\ f = "val"
    /\ m \in Copying /\ o.kind = "classes" => m \in {"str", "once"}
    /\ m \in Copying \ {"zval"} =>
          f \notin {"value", "args"} /\ (f = "val" => o.kind # "zvals")

\* What persist makes of a structure: it copies what calc counts and doc comments, each
\* field once, and what it goes through once more it has copied before.
SlotFine(o, f, m) ==
    /\ ModeFits(o, f, m)
    /\ m \in Copying => f \in CountedFields(o) \cup {"doc"}
    /\ m = "patch" => f = "ce"
SameSlot(x, y) == x[1] = y[1] /\ x[2] = y[2]
PersistFine(o, s) ==
    /\ Within(o, s)
    /\ \A x \in Range(s) : x = <<x[1], x[2], x[3]>> /\ SlotFine(o, x[1], x[3])
    /\ \A a, b \in DOMAIN s :
          s[a][3] # "update" /\ s[b][3] # "update" /\ SameSlot(s[a], s[b]) => a = b
    /\ \A b \in DOMAIN s : s[b][3] = "update" =>
          \E a \in DOMAIN s : a < b /\ s[a] = <<s[b][1], s[b][2], "once">>
ListFine(o, fms) ==
    /\ IsList(fms) /\ OneByOne(fms)
    /\ \A j \in DOMAIN fms : SlotFine(o, fms[j][1], fms[j][2]) /\ fms[j][2] # "update"

LEMMA ListIsFine ==
    ASSUME NEW o, Shaped(o), NEW fms, ListFine(o, fms)
    PROVE  PersistFine(o, Slots(o, fms))
<1> DEFINE s == Slots(o, fms)
<1>1. /\ Within(o, s) /\ Distinct(s)
      /\ \A x \in Range(s) : \E j \in DOMAIN fms : \E i :
            x = <<fms[j][1], i, fms[j][2]>>
    BY SlotsAre DEF ListFine
<1> HIDE DEF s
<1>2. \A x \in Range(s) :
          x = <<x[1], x[2], x[3]>> /\ SlotFine(o, x[1], x[3]) /\ x[3] # "update"
    <2> SUFFICES ASSUME NEW x \in Range(s)
                 PROVE  /\ x = <<x[1], x[2], x[3]>> /\ SlotFine(o, x[1], x[3])
                        /\ x[3] # "update"
        OBVIOUS
    <2>0. PICK j \in DOMAIN fms : \E i : x = <<fms[j][1], i, fms[j][2]>>
        BY <1>1
    <2>1. PICK i : x = <<fms[j][1], i, fms[j][2]>>
        BY <2>0
    <2> QED
        BY <2>1 DEF ListFine
<1>3. \A b \in DOMAIN s : s[b] \in Range(s)
    BY DEF Range
<1>4. \A b \in DOMAIN s : s[b][3] # "update"
    BY <1>2, <1>3
<1> QED
    BY <1>1, <1>2, <1>4 DEF PersistFine, Distinct, SameSlot, s

LEMMA BothFine ==
    ASSUME NEW o, NEW s, NEW t, PersistFine(o, s), PersistFine(o, t),
           \A x \in Range(s), y \in Range(t) : x[1] # y[1]
    PROVE  PersistFine(o, s \o t)
<1> DEFINE u == s \o t
<1>1. IsSeq(s) /\ IsSeq(t)
    BY DEF PersistFine, Within
<1>2. /\ IsSeq(u) /\ Range(u) = Range(s) \cup Range(t) /\ Len(u) = Len(s) + Len(t)
      /\ \A i \in 1 .. Len(s) : u[i] = s[i]
      /\ \A i \in 1 .. Len(t) : u[Len(s) + i] = t[i]
    BY <1>1, ConcatIs
<1>3. /\ DOMAIN s = 1 .. Len(s) /\ Len(s) \in Nat
      /\ DOMAIN t = 1 .. Len(t) /\ Len(t) \in Nat /\ DOMAIN u = 1 .. Len(u)
      /\ \A i \in DOMAIN s : s[i] \in Range(s)
      /\ \A i \in DOMAIN t : t[i] \in Range(t)
    BY <1>1, <1>2, IsSeqParts
<1> HIDE DEF u
<1>4. \A i \in DOMAIN u : \/ i \in DOMAIN s /\ u[i] = s[i]
                          \/ /\ i - Len(s) \in DOMAIN t /\ u[i] = t[i - Len(s)]
                             /\ i = Len(s) + (i - Len(s)) /\ i \notin DOMAIN s
    <2> SUFFICES ASSUME NEW i \in DOMAIN u, i \notin DOMAIN s
                 PROVE  /\ i - Len(s) \in DOMAIN t /\ u[i] = t[i - Len(s)]
                        /\ i = Len(s) + (i - Len(s))
        BY <1>2, <1>3
    <2>1. i - Len(s) \in DOMAIN t /\ i = Len(s) + (i - Len(s))
        BY <1>2, <1>3
    <2> QED
        BY <2>1, <1>2, <1>3
<1>5. Within(o, u)
    BY <1>2 DEF PersistFine, Within
<1>6. \A x \in Range(u) : x = <<x[1], x[2], x[3]>> /\ SlotFine(o, x[1], x[3])
    BY <1>2, Zenon DEF PersistFine
<1>7. ASSUME NEW a \in DOMAIN u, NEW b \in DOMAIN u, u[a][3] # "update",
             u[b][3] # "update", SameSlot(u[a], u[b])
      PROVE  a = b
    <2>1. CASE a \in DOMAIN s /\ b \in DOMAIN s
        BY <2>1, <1>4, <1>7 DEF PersistFine
    <2>2. CASE a \in DOMAIN s /\ b \notin DOMAIN s
        BY <2>2, <1>3, <1>4, <1>7 DEF SameSlot
    <2>3. CASE a \notin DOMAIN s /\ b \in DOMAIN s
        BY <2>3, <1>3, <1>4, <1>7 DEF SameSlot
    <2>4. CASE a \notin DOMAIN s /\ b \notin DOMAIN s
        <3>1. a - Len(s) = b - Len(s)
            BY <2>4, <1>4, <1>7 DEF PersistFine
        <3> QED
            BY <3>1, <2>4, <1>4
    <2> QED
        BY <2>1, <2>2, <2>3, <2>4
<1>8. ASSUME NEW b \in DOMAIN u, u[b][3] = "update"
      PROVE  \E a \in DOMAIN u : a < b /\ u[a] = <<u[b][1], u[b][2], "once">>
    <2>1. CASE b \in DOMAIN s
        <3>1. PICK a \in DOMAIN s : a < b /\ s[a] = <<s[b][1], s[b][2], "once">>
            BY <2>1, <1>4, <1>8 DEF PersistFine
        <3> QED
            BY <3>1, <2>1, <1>2, <1>3, <1>4
    <2>2. CASE b \notin DOMAIN s
        <3> DEFINE c == b - Len(s)
        <3>1. c \in DOMAIN t /\ u[b] = t[c] /\ b = Len(s) + c
            BY <2>2, <1>4
        <3> HIDE DEF c
        <3>2. PICK a \in DOMAIN t : a < c /\ t[a] = <<t[c][1], t[c][2], "once">>
            BY <3>1, <1>8 DEF PersistFine
        <3>3. Len(s) + a \in DOMAIN u /\ Len(s) + a < b /\ u[Len(s) + a] = t[a]
            BY <3>1, <3>2, <1>2, <1>3
        <3> QED
            BY <3>1, <3>2, <3>3
    <2> QED
        BY <2>1, <2>2
<1> QED
    BY <1>5, <1>6, <1>7, <1>8 DEF PersistFine, u

LEMMA NoneFine ==
    ASSUME NEW o PROVE PersistFine(o, <<>>)
<1>1. DOMAIN <<>> = {} /\ <<>> \in Seq(Range(<<>>))
    OBVIOUS
<1>2. Range(<<>>) = {}
    BY <1>1 DEF Range
<1> QED
    BY <1>1, <1>2 DEF PersistFine, Within, IsSeq

LEMMA BucketsAreFine ==
    ASSUME NEW o, Shaped(o), o.kind \in Tables, NEW mode \in Copying,
           mode \in {"put", "data"} => Owning(o, "val"),
           o.kind = "classes" => mode = "once", o.kind = "zvals" => mode = "zval"
    PROVE  PersistFine(o, Buckets(o, mode))
<1> DEFINE s == Buckets(o, mode)
<1>1. /\ Within(o, s) /\ Distinct(s)
      /\ \A x \in Range(s) :
            \/ x[1] = "key" /\ x[3] = "str" /\ x = <<"key", x[2], "str">>
            \/ x[1] = "val" /\ x[3] = mode /\ x = <<"val", x[2], mode>>
    BY BucketsAre DEF Shaped
<1>2. CountedFields(o) = {"key", "val"}
    BY DEF CountedFields, Counted, Tables
<1> HIDE DEF s
<1>3. \A x \in Range(s) :
          x = <<x[1], x[2], x[3]>> /\ SlotFine(o, x[1], x[3]) /\ x[3] # "update"
    BY <1>1, <1>2 DEF SlotFine, ModeFits, Copying, Translated
<1>4. \A b \in DOMAIN s : s[b] \in Range(s)
    BY DEF Range
<1>5. \A b \in DOMAIN s : s[b][3] # "update"
    BY <1>3, <1>4
<1> QED
    BY <1>1, <1>3, <1>5 DEF PersistFine, Distinct, SameSlot, s

\* The classes, and then the classes once more.
LEMMA ClassesAreFine ==
    ASSUME NEW o, Shaped(o), o.kind = "classes"
    PROVE  PersistFine(o, PersistClassTable(o))
<1> DEFINE s == Buckets(o, "once")
           t == [i \in DOMAIN o.f.val |-> <<"val", i, "update">>]
           u == s \o t
<1>1. PICK n \in Nat : DOMAIN o.f.val = 1 .. n
    BY IsSeqParts DEF Shaped, Tables
<1>2. /\ PersistFine(o, s)
      /\ \A i \in 1 .. n : <<"val", i, "once">> \in Range(s)
    BY <1>1, BucketsAreFine, BucketsAre DEF Copying, Tables, Shaped
<1>3. /\ IsSeq(t) /\ Len(t) = n /\ DOMAIN t = 1 .. n
      /\ \A i \in 1 .. n : t[i] = <<"val", i, "update">>
    <2>1. DOMAIN t = 1 .. n /\ t = [i \in 1 .. n |-> t[i]]
        BY <1>1
    <2> QED
        BY <1>1, <2>1, MakeSeq
<1>4. PersistClassTable(o) = u
    BY DEF PersistClassTable
<1> HIDE DEF s, t
<1>5. /\ IsSeq(s) /\ DOMAIN s = 1 .. Len(s) /\ Len(s) \in Nat
      /\ \A i \in DOMAIN s : s[i] \in Range(s)
      /\ \A x \in Range(s) : \E i \in DOMAIN s : s[i] = x
    BY <1>2, IsSeqParts DEF PersistFine, Within
<1>6. /\ IsSeq(u) /\ Range(u) = Range(s) \cup Range(t) /\ Len(u) = Len(s) + n
      /\ \A i \in 1 .. Len(s) : u[i] = s[i]
      /\ \A i \in 1 .. n : u[Len(s) + i] = t[i]
    <2>1. IsSeq(s) /\ IsSeq(t) /\ Len(t) = n
        BY <1>3, <1>5
    <2> QED
        BY <2>1, ConcatIs DEF u
<1> HIDE DEF u
<1>7. DOMAIN u = 1 .. Len(s) + n
    BY <1>6, IsSeqParts
<1>8. \A x \in Range(t) : \E i \in 1 .. n : x = <<"val", i, "update">>
    BY <1>3 DEF Range
<1>9. \A i \in DOMAIN u : \/ i \in DOMAIN s /\ u[i] = s[i]
                          \/ /\ i \notin DOMAIN s /\ i - Len(s) \in 1 .. n
                             /\ u[i] = <<"val", i - Len(s), "update">>
    <2> SUFFICES ASSUME NEW i \in DOMAIN u, i \notin DOMAIN s
                 PROVE  i - Len(s) \in 1 .. n /\ u[i] = <<"val", i - Len(s), "update">>
        BY <1>5, <1>6
    <2>1. i - Len(s) \in 1 .. n /\ i = Len(s) + (i - Len(s))
        BY <1>5, <1>7
    <2> QED
        BY <2>1, <1>3, <1>6
<1>10. Within(o, u)
    <2>1. \A x \in Range(u) : x[1] \in DOMAIN o.f /\ x[2] \in DOMAIN o.f[x[1]]
        <3> SUFFICES ASSUME NEW x \in Range(t)
                     PROVE  x[1] \in DOMAIN o.f /\ x[2] \in DOMAIN o.f[x[1]]
            BY <1>2, <1>6 DEF PersistFine, Within
        <3>1. PICK i \in 1 .. n : x = <<"val", i, "update">>
            BY <1>8
        <3> QED
            BY <3>1, <1>1 DEF Shaped, Tables
    <2> QED
        BY <2>1, <1>6 DEF Within
<1>11. \A x \in Range(u) : x = <<x[1], x[2], x[3]>> /\ SlotFine(o, x[1], x[3])
    <2> SUFFICES ASSUME NEW x \in Range(t)
                 PROVE  x = <<x[1], x[2], x[3]>> /\ SlotFine(o, x[1], x[3])
        BY <1>2, <1>6 DEF PersistFine
    <2>1. PICK i \in 1 .. n : x = <<"val", i, "update">>
        BY <1>8
    <2> QED
        BY <2>1 DEF SlotFine, ModeFits, Copying
<1>12. ASSUME NEW a \in DOMAIN u, NEW b \in DOMAIN u, u[a][3] # "update",
              u[b][3] # "update", SameSlot(u[a], u[b])
       PROVE  a = b
    <2>1. a \in DOMAIN s /\ b \in DOMAIN s
        BY <1>9, <1>12 DEF Copying
    <2> QED
        BY <2>1, <1>2, <1>9, <1>12 DEF PersistFine
<1>13. ASSUME NEW b \in DOMAIN u, u[b][3] = "update"
       PROVE  \E a \in DOMAIN u : a < b /\ u[a] = <<u[b][1], u[b][2], "once">>
    <2>1. CASE b \in DOMAIN s
        <3>1. PICK a \in DOMAIN s : a < b /\ s[a] = <<s[b][1], s[b][2], "once">>
            BY <2>1, <1>2, <1>9, <1>13 DEF PersistFine
        <3> QED
            BY <3>1, <2>1, <1>5, <1>6, <1>7, <1>9
    <2>2. CASE b \notin DOMAIN s
        <3> DEFINE i == b - Len(s)
        <3>1. i \in 1 .. n /\ u[b] = <<"val", i, "update">>
            BY <2>2, <1>9
        <3> HIDE DEF i
        <3>2. PICK a \in DOMAIN s : s[a] = <<"val", i, "once">>
            BY <3>1, <1>2, <1>5
        <3>3. a < b /\ a \in DOMAIN u /\ u[a] = s[a]
            BY <3>2, <2>2, <1>5, <1>6, <1>7
        <3> QED
            BY <3>1, <3>2, <3>3
    <2> QED
        BY <2>1, <2>2
<1> QED
    BY <1>4, <1>10, <1>11, <1>12, <1>13 DEF PersistFine

LEMMA OpArrayIsFine ==
    ASSUME NEW o, Shaped(o), o.kind \in {"op_array", "script"}
    PROVE  /\ PersistFine(o, PersistOpArray(o))
           /\ \A x \in Range(PersistOpArray(o)) : x[1] \in OpArrayFields \cup {"scope", "doc"}
<1>1. CASE OpcodesKnown(o)
    <2>1. PersistOpArray(o) = <<>> /\ DOMAIN <<>> = {}
        BY <1>1 DEF PersistOpArray
    <2> QED
        BY <2>1, NoneFine DEF Range
<1>2. CASE ~OpcodesKnown(o)
    <2> DEFINE L == <<<<"scope", "xlat">>, <<"name", "str">>, <<"filename", "str">>,
        <<"doc", "str">>, <<"arg_info", "put">>, <<"live_range", "put">>,
        <<"try_catch", "put">>, <<"vars", "put">>, <<"opcodes", "put">>,
        <<"literals", "put">>, <<"statics", "put">>, <<"attrs", "once">>,
        <<"defs", "put">>>>
    <2>1. PersistOpArray(o) = Slots(o, L)
        BY <1>2 DEF PersistOpArray
    <2>2. OpArrayFields \subseteq CountedFields(o)
        BY DEF CountedFields, Counted, Tables
    <2>3. IsList(L) /\ OneByOne(L)
        BY DEF IsList, OneByOne
    <2>4. \A j \in DOMAIN L : SlotFine(o, L[j][1], L[j][2]) /\ L[j][2] # "update"
        BY <2>2 DEF SlotFine, ModeFits, Copying, Translated, Owning, OpArrayFields
    <2>5. \A j \in DOMAIN L : L[j][1] \in OpArrayFields \cup {"scope", "doc"}
        BY DEF OpArrayFields
    <2> HIDE DEF L
    <2>6. \A x \in Range(Slots(o, L)) : x[1] \in OpArrayFields \cup {"scope", "doc"}
        BY <2>3, <2>5, SlotsAre
    <2> QED
        BY <2>1, <2>3, <2>4, <2>6, ListIsFine DEF ListFine
<1> QED
    BY <1>1, <1>2

LEMMA PersistIs ==
    ASSUME NEW o, Shaped(o)
    PROVE  PersistFine(o, PersistSlots(o))

<1>1. CASE o.kind = "class"
    <2> DEFINE L == 
        <<<<"name", "str">>, <<"parent", "str">>, <<"filename", "str">>,
        <<"methods", "data">>, <<"props", "data">>, <<"defaults", "put">>,
        <<"static_members", "put">>, <<"constants", "data">>, <<"interfaces", "put">>,
        <<"traits", "put">>, <<"aliases", "put">>, <<"precedences", "put">>,
        <<"attrs", "once">>>>
        \o When(ver < 80400, <<<<"doc", "str">>>>)
    <2>1. PersistSlots(o) = Slots(o, L)
        BY <1>1 DEF PersistSlots, PersistClass
    <2>2. IsList(L) /\ OneByOne(L)
        BY DEF IsList, OneByOne, When
    <2>3. \A j \in DOMAIN L : L[j][1] \in CountedFields(o) \cup {"doc"} \cup Translated
        BY <1>1 DEF CountedFields, Counted, Tables, When, Translated
    <2>4. \A j \in DOMAIN L : /\ L[j][2] \in Copying \cup {"xlat", "patch"} /\ L[j][2] # "update"
                              /\ L[j][2] \in Copying => L[j][1] \notin Translated
                              /\ L[j][2] = "xlat" => L[j][1] \in {"scope", "prototype"}
                              /\ L[j][2] = "patch" => L[j][1] = "ce"
                              /\ L[j][2] \in Copying \ {"zval"} =>
                                    L[j][1] \notin {"value", "args", "val"}
        BY DEF Copying, When, Translated
    <2>5. \A j \in DOMAIN L : L[j][2] \in {"put", "data"} => Owning(o, L[j][1])
        BY DEF Owning, When
    <2> HIDE DEF L
    <2>6. ListFine(o, L)
        BY <1>1, <2>2, <2>3, <2>4, <2>5 DEF ListFine, SlotFine, ModeFits
    <2> QED
        BY <2>1, <2>6, ListIsFine
<1>2. CASE o.kind = "prop"
    <2> DEFINE L == 
        <<<<"ce", "patch">>, <<"name", "str">>>>
        \o When(ver < 80400, <<<<"doc", "str">>>>)
        \o <<<<"type", "type">>, <<"attrs", "once">>>>
        \o When(ver >= 80400, <<<<"prototype", "xlat">>, <<"hooks", "put">>>>)
    <2>1. PersistSlots(o) = Slots(o, L)
        BY <1>2 DEF PersistSlots, PersistProp
    <2>2. IsList(L) /\ OneByOne(L)
        BY DEF IsList, OneByOne, When
    <2>3. \A j \in DOMAIN L : L[j][1] \in CountedFields(o) \cup {"doc"} \cup Translated
        BY <1>2 DEF CountedFields, Counted, Tables, When, Translated
    <2>4. \A j \in DOMAIN L : /\ L[j][2] \in Copying \cup {"xlat", "patch"} /\ L[j][2] # "update"
                              /\ L[j][2] \in Copying => L[j][1] \notin Translated
                              /\ L[j][2] = "xlat" => L[j][1] \in {"scope", "prototype"}
                              /\ L[j][2] = "patch" => L[j][1] = "ce"
                              /\ L[j][2] \in Copying \ {"zval"} =>
                                    L[j][1] \notin {"value", "args", "val"}
        BY DEF Copying, When, Translated
    <2>5. \A j \in DOMAIN L : L[j][2] \in {"put", "data"} => Owning(o, L[j][1])
        BY DEF Owning, When
    <2> HIDE DEF L
    <2>6. ListFine(o, L)
        BY <1>2, <2>2, <2>3, <2>4, <2>5 DEF ListFine, SlotFine, ModeFits
    <2> QED
        BY <2>1, <2>6, ListIsFine
<1>3. CASE o.kind = "cconst"
    <2> DEFINE L == 
        <<<<"ce", "patch">>, <<"value", "zval">>, <<"doc", "str">>, <<"attrs", "once">>>>
        \o When(ver >= 80300, <<<<"type", "type">>>>)
    <2>1. PersistSlots(o) = Slots(o, L)
        BY <1>3 DEF PersistSlots, PersistClassConstant
    <2>2. IsList(L) /\ OneByOne(L)
        BY DEF IsList, OneByOne, When
    <2>3. \A j \in DOMAIN L : L[j][1] \in CountedFields(o) \cup {"doc"} \cup Translated
        BY <1>3 DEF CountedFields, Counted, Tables, When, Translated
    <2>4. \A j \in DOMAIN L : /\ L[j][2] \in Copying \cup {"xlat", "patch"} /\ L[j][2] # "update"
                              /\ L[j][2] \in Copying => L[j][1] \notin Translated
                              /\ L[j][2] = "xlat" => L[j][1] \in {"scope", "prototype"}
                              /\ L[j][2] = "patch" => L[j][1] = "ce"
                              /\ L[j][2] \in Copying \ {"zval"} =>
                                    L[j][1] \notin {"value", "args", "val"}
        BY DEF Copying, When, Translated
    <2>5. \A j \in DOMAIN L : L[j][2] \in {"put", "data"} => Owning(o, L[j][1])
        BY DEF Owning, When
    <2> HIDE DEF L
    <2>6. ListFine(o, L)
        BY <1>3, <2>2, <2>3, <2>4, <2>5 DEF ListFine, SlotFine, ModeFits
    <2> QED
        BY <2>1, <2>6, ListIsFine
<1>4. CASE o.kind = "const"
    <2>1. PICK L : PersistSlots(o) = Slots(o, L) /\ ListFine(o, L)
        BY <1>4 DEF PersistSlots, When, ListFine, IsList, OneByOne, SlotFine, ModeFits,
                   Copying, Translated, Owning, CountedFields, Counted, Tables
    <2> QED
        BY <2>1, ListIsFine
<1>5. CASE o.kind = "attr"
    <2>1. PICK L : PersistSlots(o) = Slots(o, L) /\ ListFine(o, L)
        BY <1>5 DEF PersistSlots, When, ListFine, IsList, OneByOne, SlotFine, ModeFits,
                   Copying, Translated, Owning, CountedFields, Counted, Tables
    <2> QED
        BY <2>1, ListIsFine
<1>6. CASE o.kind = "ht"
    <2>1. PICK L : PersistSlots(o) = Slots(o, L) /\ ListFine(o, L)
        BY <1>6 DEF PersistSlots, When, ListFine, IsList, OneByOne, SlotFine, ModeFits,
                   Copying, Translated, Owning, CountedFields, Counted, Tables
    <2> QED
        BY <2>1, ListIsFine
<1>7. CASE o.kind = "names"
    <2>1. PICK L : PersistSlots(o) = Slots(o, L) /\ ListFine(o, L)
        BY <1>7 DEF PersistSlots, When, ListFine, IsList, OneByOne, SlotFine, ModeFits,
                   Copying, Translated, Owning, CountedFields, Counted, Tables
    <2> QED
        BY <2>1, ListIsFine
<1>8. CASE o.kind = "rule"
    <2>1. PICK L : PersistSlots(o) = Slots(o, L) /\ ListFine(o, L)
        BY <1>8 DEF PersistSlots, When, ListFine, IsList, OneByOne, SlotFine, ModeFits,
                   Copying, Translated, Owning, CountedFields, Counted, Tables
    <2> QED
        BY <2>1, ListIsFine
<1>9. CASE o.kind = "arg_info"
    <2>1. PICK L : PersistSlots(o) = Slots(o, L) /\ ListFine(o, L)
        BY <1>9 DEF PersistSlots, When, ListFine, IsList, OneByOne, SlotFine, ModeFits,
                   Copying, Translated, Owning, CountedFields, Counted, Tables
    <2> QED
        BY <2>1, ListIsFine
<1>10. CASE o.kind = "types"
    <2>1. PICK L : PersistSlots(o) = Slots(o, L) /\ ListFine(o, L)
        BY <1>10 DEF PersistSlots, When, ListFine, IsList, OneByOne, SlotFine, ModeFits,
                   Copying, Translated, Owning, CountedFields, Counted, Tables
    <2> QED
        BY <2>1, ListIsFine
<1>11. CASE o.kind = "ast_ref"
    <2>1. PICK L : PersistSlots(o) = Slots(o, L) /\ ListFine(o, L)
        BY <1>11 DEF PersistSlots, When, ListFine, IsList, OneByOne, SlotFine, ModeFits,
                   Copying, Translated, Owning, CountedFields, Counted, Tables
    <2> QED
        BY <2>1, ListIsFine
<1>12. CASE o.kind = "ast"
    <2>1. PICK L : PersistSlots(o) = Slots(o, L) /\ ListFine(o, L)
        BY <1>12 DEF PersistSlots, When, ListFine, IsList, OneByOne, SlotFine, ModeFits,
                   Copying, Translated, Owning, CountedFields, Counted, Tables
    <2> QED
        BY <2>1, ListIsFine
<1>13. CASE o.kind \in {"functions", "methods", "props", "cconsts"}
    BY <1>13, BucketsAreFine DEF PersistSlots, Copying, Tables
<1>14. CASE o.kind \in {"consts", "attrs", "rules", "defs", "hooks"}
    BY <1>14, BucketsAreFine DEF PersistSlots, Copying, Tables, Owning
<1>15. CASE o.kind = "zvals"
    BY <1>15, BucketsAreFine DEF PersistSlots, Copying, Tables
<1>16. CASE o.kind = "classes"
    BY <1>16, ClassesAreFine DEF PersistSlots
<1>17. CASE o.kind = "op_array"
    BY <1>17, OpArrayIsFine DEF PersistSlots
<1>18. CASE o.kind = "script"
    <2> DEFINE A == Slots(o, <<<<"script_name", "str">>, <<"classes", "data">>, <<"functions", "data">>>>)
               B == PersistOpArray(o)
               C == Slots(o, <<<<"consts", "data">>, <<"early", "put">>>>)
    <2>1. PersistSlots(o) = (A \o B) \o C
        BY <1>18 DEF PersistSlots, PersistScript
    <2>2. /\ PersistFine(o, A)
          /\ \A x \in Range(A) : x[1] \in {"script_name", "classes", "functions"}
        <3> DEFINE L == <<<<"script_name", "str">>, <<"classes", "data">>, <<"functions", "data">>>>
        <3>0. {"script_name", "classes", "functions"} \subseteq CountedFields(o)
            BY <1>18 DEF CountedFields, Counted, Tables
        <3>1. /\ ListFine(o, L)
              /\ \A j \in DOMAIN L : L[j][1] \in {"script_name", "classes", "functions"}
            BY <1>18, <3>0 DEF ListFine, IsList, OneByOne, SlotFine, ModeFits, Copying, Translated, Owning
        <3> HIDE DEF L
        <3>2. \A x \in Range(Slots(o, L)) : \E j \in DOMAIN L : x[1] = L[j][1]
            BY <3>1, SlotsAre DEF ListFine
        <3>3. PersistFine(o, Slots(o, L))
            BY <3>1, ListIsFine
        <3> QED
            BY <3>1, <3>2, <3>3 DEF L
    <2>3. /\ PersistFine(o, C)
          /\ \A x \in Range(C) : x[1] \in {"consts", "early"}
        <3> DEFINE L == <<<<"consts", "data">>, <<"early", "put">>>>
        <3>0. {"consts", "early"} \subseteq CountedFields(o)
            BY <1>18 DEF CountedFields, Counted, Tables
        <3>1. /\ ListFine(o, L)
              /\ \A j \in DOMAIN L : L[j][1] \in {"consts", "early"}
            BY <1>18, <3>0 DEF ListFine, IsList, OneByOne, SlotFine, ModeFits, Copying, Translated, Owning
        <3> HIDE DEF L
        <3>2. \A x \in Range(Slots(o, L)) : \E j \in DOMAIN L : x[1] = L[j][1]
            BY <3>1, SlotsAre DEF ListFine
        <3>3. PersistFine(o, Slots(o, L))
            BY <3>1, ListIsFine
        <3> QED
            BY <3>1, <3>2, <3>3 DEF L
    <2>4. /\ PersistFine(o, B)
          /\ \A x \in Range(B) : x[1] \in OpArrayFields \cup {"scope", "doc"}
        BY <1>18, OpArrayIsFine
    <2> HIDE DEF A, B, C
    <2>5. PersistFine(o, A \o B)
        BY <2>2, <2>4, BothFine DEF OpArrayFields
    <2>6. Range(A \o B) = Range(A) \cup Range(B)
        BY <2>2, <2>4, ConcatIs DEF PersistFine, Within
    <2>7. \A x \in Range(A \o B), y \in Range(C) : x[1] # y[1]
        BY <2>2, <2>3, <2>4, <2>6 DEF OpArrayFields
    <2> QED
        BY <2>1, <2>3, <2>5, <2>7, BothFine
<1>19. CASE o.kind \notin {"script", "op_array", "class", "prop", "cconst", "const", "attr", "ht", "classes",
                    "functions", "methods", "props", "cconsts", "consts", "attrs", "rules", "defs", "hooks",
                    "zvals", "names", "rule", "arg_info", "types", "ast_ref", "ast"}
    <2>1. PersistSlots(o) = <<>>
        BY <1>19 DEF PersistSlots
    <2> QED
        BY <2>1, NoneFine
<1> QED
    BY <1>1, <1>2, <1>3, <1>4, <1>5, <1>6, <1>7, <1>8, <1>9, <1>10, <1>11, <1>12, <1>13, <1>14, <1>15, <1>16, <1>17, <1>18, <1>19

-------------------------------------------------------------------------------
\* What calc makes of a structure.
CalcFine(o, s) ==
    /\ Within(o, s)
    /\ \A x \in Range(s) : x = <<x[1], x[2], x[3]>> /\ x[1] \notin Translated
CalcsAll(o, s) ==
    \A f \in CountedFields(o) : f \in DOMAIN o.f =>
        \A i \in DOMAIN o.f[f] : \E m : <<f, i, m>> \in Range(s)
CalcList(o, fms) ==
    /\ IsList(fms)
    /\ \A j \in DOMAIN fms : fms[j][1] \notin Translated
CalcListsAll(o, fms) == \A f \in CountedFields(o) : \E j \in DOMAIN fms : fms[j][1] = f

LEMMA CalcListIs ==
    ASSUME NEW o, Shaped(o), NEW fms, CalcList(o, fms)
    PROVE  /\ CalcFine(o, Slots(o, fms))
           /\ CalcListsAll(o, fms) => CalcsAll(o, Slots(o, fms))
<1> DEFINE s == Slots(o, fms)
<1>1. /\ Within(o, s)
      /\ \A x : x \in Range(s) <=>
            \E j \in DOMAIN fms : \E i \in DOMAIN Field(o, fms[j][1]) :
               x = <<fms[j][1], i, fms[j][2]>>
    BY SlotsAre DEF CalcList
<1> HIDE DEF s
<1>2. ASSUME NEW x \in Range(s) PROVE x = <<x[1], x[2], x[3]>> /\ x[1] \notin Translated
    <2>0. PICK j \in DOMAIN fms : \E i : x = <<fms[j][1], i, fms[j][2]>>
        BY <1>1
    <2>1. PICK i : x = <<fms[j][1], i, fms[j][2]>>
        BY <2>0
    <2> QED
        BY <2>1 DEF CalcList
<1>3. ASSUME CalcListsAll(o, fms), NEW f \in CountedFields(o), f \in DOMAIN o.f,
             NEW i \in DOMAIN o.f[f]
      PROVE  \E m : <<f, i, m>> \in Range(s)
    <2>1. PICK j \in DOMAIN fms : fms[j][1] = f
        BY <1>3 DEF CalcListsAll
    <2>2. <<f, i, fms[j][2]>> \in Range(s)
        BY <2>1, <1>1, <1>3 DEF Field
    <2> QED
        BY <2>2
<1> QED
    BY <1>1, <1>2, <1>3 DEF CalcFine, CalcsAll, s

LEMMA CalcBuckets ==
    ASSUME NEW o, Shaped(o), o.kind \in Tables, NEW mode
    PROVE  CalcFine(o, Buckets(o, mode)) /\ CalcsAll(o, Buckets(o, mode))
<1> DEFINE s == Buckets(o, mode)
<1>1. /\ Within(o, s)
      /\ \A x \in Range(s) : \/ x[1] = "key" /\ x[3] = "str" /\ x = <<"key", x[2], "str">>
                             \/ x[1] = "val" /\ x[3] = mode /\ x = <<"val", x[2], mode>>
      /\ \A i \in DOMAIN o.f.val : /\ <<"val", i, mode>> \in Range(s)
                                   /\ "key" \in DOMAIN o.f /\ i \in DOMAIN o.f.key =>
                                        <<"key", i, "str">> \in Range(s)
    BY BucketsAre DEF Shaped
<1>2. CountedFields(o) = {"key", "val"}
    BY DEF CountedFields, Counted, Tables
<1> HIDE DEF s
<1>3. CalcFine(o, s)
    BY <1>1 DEF CalcFine, Translated
<1>4. "key" \in DOMAIN o.f => DOMAIN o.f.key \subseteq DOMAIN o.f.val
    BY DEF Shaped
<1>5. CalcsAll(o, s)
    <2> SUFFICES ASSUME NEW f \in {"key", "val"}, f \in DOMAIN o.f, NEW i \in DOMAIN o.f[f]
                 PROVE  \E m : <<f, i, m>> \in Range(s)
        BY <1>2 DEF CalcsAll
    <2>1. i \in DOMAIN o.f.val
        BY <1>4
    <2> QED
        BY <2>1, <1>1
<1> QED
    BY <1>3, <1>5 DEF s


LEMMA CalcNone ==
    ASSUME NEW o
    PROVE  CalcFine(o, <<>>) /\ (CountedFields(o) = {} => CalcsAll(o, <<>>))
<1>1. DOMAIN <<>> = {} /\ <<>> \in Seq(Range(<<>>))
    OBVIOUS
<1>2. Range(<<>>) = {}
    BY <1>1 DEF Range
<1> QED
    BY <1>1, <1>2 DEF CalcFine, CalcsAll, Within, IsSeq

LEMMA CalcBoth ==
    ASSUME NEW o, NEW s, NEW t, CalcFine(o, s), CalcFine(o, t)
    PROVE  CalcFine(o, s \o t) /\ Range(s \o t) = Range(s) \cup Range(t)
<1>1. IsSeq(s \o t) /\ Range(s \o t) = Range(s) \cup Range(t)
    BY ConcatIs DEF CalcFine, Within
<1> QED
    BY <1>1 DEF CalcFine, Within

\* An op_array is gone through unless its opcodes are known.
Passed(o) == o.kind \in {"op_array", "script"} /\ OpcodesKnown(o)

LEMMA CalcOpArrayIs ==
    ASSUME NEW o, Shaped(o)
    PROVE  /\ CalcFine(o, CalcOpArray(o))
           /\ ~OpcodesKnown(o) =>
                 \A f \in OpArrayFields : f \in DOMAIN o.f =>
                    \A i \in DOMAIN o.f[f] : \E m : <<f, i, m>> \in Range(CalcOpArray(o))
<1>1. CASE OpcodesKnown(o)
    <2>1. PICK L : CalcOpArray(o) = Slots(o, L) /\ CalcList(o, L)
        BY <1>1 DEF CalcOpArray, CalcList, IsList, Translated
    <2> QED
        BY <2>1, <1>1, CalcListIs
<1>2. CASE ~OpcodesKnown(o)
    <2> DEFINE L == <<<<"name", "str">>, <<"statics", "once">>, <<"literals", "each">>,
        <<"opcodes", "mark">>, <<"filename", "str">>, <<"arg_info", "each">>,
        <<"live_range", "each">>>>
        \o When(SaveComments /\ ver < 80400, <<<<"doc", "str">>>>)
        \o <<<<"attrs", "once">>, <<"try_catch", "each">>, <<"vars", "each">>,
             <<"defs", "each">>>>
    <2>1. CalcOpArray(o) = Slots(o, L)
        BY <1>2 DEF CalcOpArray
    <2>2. CalcList(o, L)
        BY DEF CalcList, IsList, When, Translated
    <2>3. \A f \in OpArrayFields : \E j \in DOMAIN L : L[j][1] = f
        <3>1. /\ DOMAIN L = 1 .. 11 /\ L[1][1] = "name" /\ L[2][1] = "statics"
              /\ L[3][1] = "literals" /\ L[4][1] = "opcodes" /\ L[5][1] = "filename"
              /\ L[6][1] = "arg_info" /\ L[7][1] = "live_range" /\ L[8][1] = "attrs"
              /\ L[9][1] = "try_catch" /\ L[10][1] = "vars" /\ L[11][1] = "defs"
            BY DEF When, SaveComments
        <3> HIDE DEF L
        <3> QED
            BY <3>1 DEF OpArrayFields
    <2> HIDE DEF L
    <2>4. /\ CalcFine(o, Slots(o, L))
          /\ \A x : x \in Range(Slots(o, L)) <=>
                \E j \in DOMAIN L : \E i \in DOMAIN Field(o, L[j][1]) :
                   x = <<L[j][1], i, L[j][2]>>
        BY <2>2, CalcListIs, SlotsAre DEF CalcList
    <2>5. ASSUME NEW f \in OpArrayFields, f \in DOMAIN o.f, NEW i \in DOMAIN o.f[f]
          PROVE  \E m : <<f, i, m>> \in Range(Slots(o, L))
        <3>1. PICK j \in DOMAIN L : L[j][1] = f
            BY <2>3, <2>5
        <3>2. <<f, i, L[j][2]>> \in Range(Slots(o, L))
            BY <3>1, <2>4, <2>5 DEF Field
        <3> QED
            BY <3>2
    <2> QED
        BY <1>2, <2>1, <2>4, <2>5
<1> QED
    BY <1>1, <1>2

LEMMA CalcIs ==
    ASSUME NEW o, Shaped(o)
    PROVE  CalcFine(o, CalcSlots(o)) /\ (~Passed(o) => CalcsAll(o, CalcSlots(o)))
<1>1. CASE o.kind = "class"
    <2> DEFINE L == 
        <<<<"name", "str">>, <<"parent", "str">>, <<"methods", "each">>,
        <<"defaults", "each">>, <<"static_members", "each">>, <<"constants", "each">>,
        <<"props", "each">>, <<"filename", "str">>>>
        \o When(SaveComments /\ ver < 80400, <<<<"doc", "str">>>>)
        \o <<<<"attrs", "once">>, <<"interfaces", "each">>, <<"traits", "each">>,
             <<"aliases", "each">>, <<"precedences", "each">>>>
    <2>1. CalcSlots(o) = Slots(o, L)
        BY <1>1 DEF CalcSlots, CalcClass
    <2>2. CalcList(o, L)
        BY DEF CalcList, IsList, When, Translated
    <2>3. CalcListsAll(o, L)
        <3>1. /\ DOMAIN L = 1 .. 13 /\ L[1][1] = "name" /\ L[2][1] = "parent"
              /\ L[3][1] = "methods" /\ L[4][1] = "defaults" /\ L[5][1] = "static_members"
              /\ L[6][1] = "constants" /\ L[7][1] = "props" /\ L[8][1] = "filename"
              /\ L[9][1] = "attrs" /\ L[10][1] = "interfaces" /\ L[11][1] = "traits"
              /\ L[12][1] = "aliases" /\ L[13][1] = "precedences"
            BY DEF When, SaveComments
        <3> HIDE DEF L
        <3> QED
            BY <1>1, <3>1 DEF CountedFields, Counted, CalcListsAll, Tables
    <2> HIDE DEF L
    <2> QED
        BY <2>1, <2>2, <2>3, CalcListIs
<1>2. CASE o.kind = "prop"
    <2> DEFINE L == 
        <<<<"name", "str">>, <<"type", "type">>>>
        \o When(SaveComments /\ ver < 80400, <<<<"doc", "str">>>>)
        \o <<<<"attrs", "once">>>>
        \o When(ver >= 80400, <<<<"hooks", "each">>>>)
    <2>1. CalcSlots(o) = Slots(o, L)
        BY <1>2 DEF CalcSlots, CalcProp
    <2>2. CalcList(o, L)
        BY DEF CalcList, IsList, When, Translated
    <2>3. CalcListsAll(o, L)
        <3>1. /\ 1 \in DOMAIN L /\ L[1][1] = "name" /\ 2 \in DOMAIN L /\ L[2][1] = "type"
              /\ 3 \in DOMAIN L /\ L[3][1] = "attrs"
              /\ ver >= 80400 => 4 \in DOMAIN L /\ L[4][1] = "hooks"
            BY DEF When, SaveComments
        <3> HIDE DEF L
        <3> QED
            BY <1>2, <3>1 DEF CountedFields, Counted, CalcListsAll, Tables
    <2> HIDE DEF L
    <2> QED
        BY <2>1, <2>2, <2>3, CalcListIs
<1>3. CASE o.kind = "cconst"
    <2> DEFINE L == 
        <<<<"value", "zval">>>>
        \o When(SaveComments, <<<<"doc", "str">>>>)
        \o <<<<"attrs", "once">>>>
        \o When(ver >= 80300, <<<<"type", "type">>>>)
    <2>1. CalcSlots(o) = Slots(o, L)
        BY <1>3 DEF CalcSlots, CalcClassConstant
    <2>2. CalcList(o, L)
        BY DEF CalcList, IsList, When, Translated
    <2>3. CalcListsAll(o, L)
        <3>1. /\ 1 \in DOMAIN L /\ L[1][1] = "value" /\ 2 \in DOMAIN L /\ L[2][1] = "attrs"
              /\ ver >= 80300 => 3 \in DOMAIN L /\ L[3][1] = "type"
            BY DEF When, SaveComments
        <3> HIDE DEF L
        <3> QED
            BY <1>3, <3>1 DEF CountedFields, Counted, CalcListsAll, Tables
    <2> HIDE DEF L
    <2> QED
        BY <2>1, <2>2, <2>3, CalcListIs
<1>4. CASE o.kind = "const"
    <2> DEFINE L == <<<<"name", "str">>, <<"value", "zval">>>>
    <2>1. CalcSlots(o) = Slots(o, L)
        BY <1>4 DEF CalcSlots, When
    <2>2. CalcList(o, L)
        BY DEF CalcList, IsList, When, Translated
    <2>3. CalcListsAll(o, L)
        <3>1. DOMAIN L = 1 .. 2 /\ L[1][1] = "name" /\ L[2][1] = "value"
            BY DEF When, SaveComments
        <3> HIDE DEF L
        <3> QED
            BY <1>4, <3>1 DEF CountedFields, Counted, CalcListsAll, Tables
    <2> HIDE DEF L
    <2> QED
        BY <2>1, <2>2, <2>3, CalcListIs
<1>5. CASE o.kind = "attr"
    <2> DEFINE L == <<<<"name", "str">>, <<"args", "zval">>>>
    <2>1. CalcSlots(o) = Slots(o, L)
        BY <1>5 DEF CalcSlots, When
    <2>2. CalcList(o, L)
        BY DEF CalcList, IsList, When, Translated
    <2>3. CalcListsAll(o, L)
        <3>1. DOMAIN L = 1 .. 2 /\ L[1][1] = "name" /\ L[2][1] = "args"
            BY DEF When, SaveComments
        <3> HIDE DEF L
        <3> QED
            BY <1>5, <3>1 DEF CountedFields, Counted, CalcListsAll, Tables
    <2> HIDE DEF L
    <2> QED
        BY <2>1, <2>2, <2>3, CalcListIs
<1>6. CASE o.kind = "ht"
    <2> DEFINE L == <<<<"data", "each">>>>
    <2>1. CalcSlots(o) = Slots(o, L)
        BY <1>6 DEF CalcSlots, When
    <2>2. CalcList(o, L)
        BY DEF CalcList, IsList, When, Translated
    <2>3. CalcListsAll(o, L)
        <3>1. DOMAIN L = 1 .. 1 /\ L[1][1] = "data"
            BY DEF When, SaveComments
        <3> HIDE DEF L
        <3> QED
            BY <1>6, <3>1 DEF CountedFields, Counted, CalcListsAll, Tables
    <2> HIDE DEF L
    <2> QED
        BY <2>1, <2>2, <2>3, CalcListIs
<1>7. CASE o.kind = "names"
    <2> DEFINE L == <<<<"name", "str">>>>
    <2>1. CalcSlots(o) = Slots(o, L)
        BY <1>7 DEF CalcSlots, When
    <2>2. CalcList(o, L)
        BY DEF CalcList, IsList, When, Translated
    <2>3. CalcListsAll(o, L)
        <3>1. DOMAIN L = 1 .. 1 /\ L[1][1] = "name"
            BY DEF When, SaveComments
        <3> HIDE DEF L
        <3> QED
            BY <1>7, <3>1 DEF CountedFields, Counted, CalcListsAll, Tables
    <2> HIDE DEF L
    <2> QED
        BY <2>1, <2>2, <2>3, CalcListIs
<1>8. CASE o.kind = "rule"
    <2> DEFINE L == <<<<"name", "str">>>>
    <2>1. CalcSlots(o) = Slots(o, L)
        BY <1>8 DEF CalcSlots, When
    <2>2. CalcList(o, L)
        BY DEF CalcList, IsList, When, Translated
    <2>3. CalcListsAll(o, L)
        <3>1. DOMAIN L = 1 .. 1 /\ L[1][1] = "name"
            BY DEF When, SaveComments
        <3> HIDE DEF L
        <3> QED
            BY <1>8, <3>1 DEF CountedFields, Counted, CalcListsAll, Tables
    <2> HIDE DEF L
    <2> QED
        BY <2>1, <2>2, <2>3, CalcListIs
<1>9. CASE o.kind = "arg_info"
    <2> DEFINE L == <<<<"name", "str">>, <<"type", "type">>>>
    <2>1. CalcSlots(o) = Slots(o, L)
        BY <1>9 DEF CalcSlots, When
    <2>2. CalcList(o, L)
        BY DEF CalcList, IsList, When, Translated
    <2>3. CalcListsAll(o, L)
        <3>1. DOMAIN L = 1 .. 2 /\ L[1][1] = "name" /\ L[2][1] = "type"
            BY DEF When, SaveComments
        <3> HIDE DEF L
        <3> QED
            BY <1>9, <3>1 DEF CountedFields, Counted, CalcListsAll, Tables
    <2> HIDE DEF L
    <2> QED
        BY <2>1, <2>2, <2>3, CalcListIs
<1>10. CASE o.kind = "types"
    <2> DEFINE L == <<<<"type", "type">>>>
    <2>1. CalcSlots(o) = Slots(o, L)
        BY <1>10 DEF CalcSlots, When
    <2>2. CalcList(o, L)
        BY DEF CalcList, IsList, When, Translated
    <2>3. CalcListsAll(o, L)
        <3>1. DOMAIN L = 1 .. 1 /\ L[1][1] = "type"
            BY DEF When, SaveComments
        <3> HIDE DEF L
        <3> QED
            BY <1>10, <3>1 DEF CountedFields, Counted, CalcListsAll, Tables
    <2> HIDE DEF L
    <2> QED
        BY <2>1, <2>2, <2>3, CalcListIs
<1>11. CASE o.kind = "ast_ref"
    <2> DEFINE L == <<<<"ast", "each">>>>
    <2>1. CalcSlots(o) = Slots(o, L)
        BY <1>11 DEF CalcSlots, When
    <2>2. CalcList(o, L)
        BY DEF CalcList, IsList, When, Translated
    <2>3. CalcListsAll(o, L)
        <3>1. DOMAIN L = 1 .. 1 /\ L[1][1] = "ast"
            BY DEF When, SaveComments
        <3> HIDE DEF L
        <3> QED
            BY <1>11, <3>1 DEF CountedFields, Counted, CalcListsAll, Tables
    <2> HIDE DEF L
    <2> QED
        BY <2>1, <2>2, <2>3, CalcListIs
<1>12. CASE o.kind = "ast"
    <2> DEFINE L == <<<<"value", "zval">>, <<"child", "each">>>>
    <2>1. CalcSlots(o) = Slots(o, L)
        BY <1>12 DEF CalcSlots, When
    <2>2. CalcList(o, L)
        BY DEF CalcList, IsList, When, Translated
    <2>3. CalcListsAll(o, L)
        <3>1. DOMAIN L = 1 .. 2 /\ L[1][1] = "value" /\ L[2][1] = "child"
            BY DEF When, SaveComments
        <3> HIDE DEF L
        <3> QED
            BY <1>12, <3>1 DEF CountedFields, Counted, CalcListsAll, Tables
    <2> HIDE DEF L
    <2> QED
        BY <2>1, <2>2, <2>3, CalcListIs
<1>13. CASE o.kind \in Tables
    <2>1. PICK mode : CalcSlots(o) = Buckets(o, mode)
        BY <1>13 DEF CalcSlots, Tables
    <2> QED
        BY <1>13, <2>1, CalcBuckets
<1>14. CASE o.kind = "op_array"
    <2>1. CalcSlots(o) = CalcOpArray(o) /\ CountedFields(o) = OpArrayFields
        BY <1>14 DEF CalcSlots, CountedFields, Counted, Tables
    <2> QED
        BY <2>1, <1>14, CalcOpArrayIs DEF CalcsAll, Passed
<1>15. CASE o.kind = "script"
    <2> DEFINE A == Slots(o, <<<<"script_name", "str">>, <<"classes", "each">>, <<"functions", "each">>>>)
               B == CalcOpArray(o)
               C == Slots(o, <<<<"consts", "each">>, <<"early", "each">>>>)
               AF == {"script_name", "classes", "functions"}
               CF == {"consts", "early"}
    <2>1. CalcSlots(o) = (A \o B) \o C
        BY <1>15 DEF CalcSlots, CalcScript
    <2>2. /\ CalcFine(o, A)
          /\ \A f \in AF : f \in DOMAIN o.f =>
                \A i \in DOMAIN o.f[f] : \E m : <<f, i, m>> \in Range(A)
        <3> DEFINE L == <<<<"script_name", "str">>, <<"classes", "each">>, <<"functions", "each">>>>
        <3>1. CalcList(o, L)
            BY DEF CalcList, IsList, Translated
        <3>2. DOMAIN L = 1 .. 3 /\ L[1] = <<"script_name", "str">> /\ L[2] = <<"classes", "each">>
                                /\ L[3] = <<"functions", "each">>
            OBVIOUS
        <3> HIDE DEF L
        <3>3. /\ CalcFine(o, Slots(o, L))
              /\ \A j \in 1 .. 3 : \A i \in DOMAIN Field(o, L[j][1]) :
                    <<L[j][1], i, L[j][2]>> \in Range(Slots(o, L))
            BY <3>1, <3>2, CalcListIs, SlotsAre DEF CalcList
        <3>4. A = Slots(o, L)
            BY DEF L
        <3> HIDE DEF A
        <3>5. ASSUME NEW f \in AF, f \in DOMAIN o.f, NEW i \in DOMAIN o.f[f]
              PROVE  \E m : <<f, i, m>> \in Range(A)
            <4>1. PICK j \in 1 .. 3 : L[j][1] = f
                BY <3>2, <3>5
            <4>2. <<f, i, L[j][2]>> \in Range(Slots(o, L))
                BY <4>1, <3>3, <3>5 DEF Field
            <4> QED
                BY <4>2, <3>4
        <3> QED
            BY <3>3, <3>4, <3>5
    <2>3. /\ CalcFine(o, C)
          /\ \A f \in CF : f \in DOMAIN o.f =>
                \A i \in DOMAIN o.f[f] : \E m : <<f, i, m>> \in Range(C)
        <3> DEFINE L == <<<<"consts", "each">>, <<"early", "each">>>>
        <3>1. CalcList(o, L)
            BY DEF CalcList, IsList, Translated
        <3>2. DOMAIN L = 1 .. 2 /\ L[1] = <<"consts", "each">> /\ L[2] = <<"early", "each">>
            OBVIOUS
        <3> HIDE DEF L
        <3>3. /\ CalcFine(o, Slots(o, L))
              /\ \A j \in 1 .. 2 : \A i \in DOMAIN Field(o, L[j][1]) :
                    <<L[j][1], i, L[j][2]>> \in Range(Slots(o, L))
            BY <3>1, <3>2, CalcListIs, SlotsAre DEF CalcList
        <3>4. C = Slots(o, L)
            BY DEF L
        <3> HIDE DEF C
        <3>5. ASSUME NEW f \in CF, f \in DOMAIN o.f, NEW i \in DOMAIN o.f[f]
              PROVE  \E m : <<f, i, m>> \in Range(C)
            <4>1. PICK j \in 1 .. 2 : L[j][1] = f
                BY <3>2, <3>5
            <4>2. <<f, i, L[j][2]>> \in Range(Slots(o, L))
                BY <4>1, <3>3, <3>5 DEF Field
            <4> QED
                BY <4>2, <3>4
        <3> QED
            BY <3>3, <3>4, <3>5
    <2>4. CalcFine(o, B)
        BY CalcOpArrayIs
    <2>5. CountedFields(o) = OpArrayFields \cup AF \cup CF
        BY <1>15 DEF CountedFields, Counted, Tables
    <2> HIDE DEF A, B, C, AF, CF
    <2>6. /\ CalcFine(o, (A \o B) \o C)
          /\ Range((A \o B) \o C) = Range(A) \cup Range(B) \cup Range(C)
        <3>1. IsSeq(A) /\ IsSeq(B) /\ IsSeq(C)
            BY <2>2, <2>3, <2>4 DEF CalcFine, Within
        <3>2. CalcFine(o, A \o B)
            BY <2>2, <2>4, CalcBoth
        <3>3. IsSeq(A \o B) /\ Range(A \o B) = Range(A) \cup Range(B)
            BY <3>1, ConcatIs
        <3>4. CalcFine(o, (A \o B) \o C)
            BY <3>2, <2>3, CalcBoth
        <3>5. Range((A \o B) \o C) = Range(A \o B) \cup Range(C)
            BY <3>1, <3>3, ConcatIs
        <3> QED
            BY <3>3, <3>4, <3>5
    <2>7. ~OpcodesKnown(o) =>
              \A f \in OpArrayFields : f \in DOMAIN o.f =>
                 \A i \in DOMAIN o.f[f] : \E m : <<f, i, m>> \in Range(B)
        BY CalcOpArrayIs DEF B
    <2>8. ASSUME ~Passed(o), NEW f \in CountedFields(o), f \in DOMAIN o.f,
                 NEW i \in DOMAIN o.f[f]
          PROVE  \E m : <<f, i, m>> \in Range((A \o B) \o C)
        <3>1. ~OpcodesKnown(o)
            BY <2>8, <1>15 DEF Passed
        <3> QED
            BY <3>1, <2>2, <2>3, <2>5, <2>6, <2>7, <2>8
    <2> QED
        BY <2>1, <2>6, <2>8 DEF CalcsAll
<1>16. CASE o.kind \notin {"script", "op_array", "class", "prop", "cconst", "const", "attr", "ht", "classes",
                    "functions", "methods", "props", "cconsts", "consts", "attrs", "rules", "defs", "hooks",
                    "zvals", "names", "rule", "arg_info", "types", "ast_ref", "ast"}
    <2>1. CalcSlots(o) = <<>> /\ CountedFields(o) = {}
        BY <1>16 DEF CalcSlots, CountedFields, Counted, Tables
    <2> QED
        BY <2>1, CalcNone
<1> QED
    BY <1>1, <1>2, <1>3, <1>4, <1>5, <1>6, <1>7, <1>8, <1>9, <1>10, <1>11, <1>12, <1>13, <1>14, <1>15, <1>16 DEF Tables

-------------------------------------------------------------------------------
\* What the other traversals make of a structure.
Loose(o, s) == Within(o, s) /\ \A x \in Range(s) : x = <<x[1], x[2], x[3]>>

LEMMA FineIsLoose ==
    ASSUME NEW o, NEW s
    PROVE  /\ CalcFine(o, s) => Loose(o, s)
           /\ PersistFine(o, s) => Loose(o, s)
BY DEF CalcFine, PersistFine, Loose

LEMMA LooseList ==
    ASSUME NEW o, Shaped(o), NEW fms, IsList(fms)
    PROVE  Loose(o, Slots(o, fms))
<1> DEFINE s == Slots(o, fms)
<1>1. /\ Within(o, s)
      /\ \A x \in Range(s) : \E j \in DOMAIN fms : \E i : x = <<fms[j][1], i, fms[j][2]>>
    BY SlotsAre
<1> HIDE DEF s
<1>2. ASSUME NEW x \in Range(s) PROVE x = <<x[1], x[2], x[3]>>
    <2>0. PICK j \in DOMAIN fms : \E i : x = <<fms[j][1], i, fms[j][2]>>
        BY <1>1
    <2>1. PICK i : x = <<fms[j][1], i, fms[j][2]>>
        BY <2>0
    <2> QED
        BY <2>1
<1> QED
    BY <1>1, <1>2 DEF Loose, s

LEMMA LooseBuckets ==
    ASSUME NEW o, Shaped(o), o.kind \in Tables, NEW mode
    PROVE  Loose(o, Buckets(o, mode))
BY CalcBuckets, FineIsLoose

LEMMA LooseNone == ASSUME NEW o PROVE Loose(o, <<>>)
BY CalcNone, FineIsLoose

LEMMA LooseBoth ==
    ASSUME NEW o, NEW s, NEW t, Loose(o, s), Loose(o, t)
    PROVE  Loose(o, s \o t)
<1>1. IsSeq(s \o t) /\ Range(s \o t) = Range(s) \cup Range(t)
    BY ConcatIs DEF Loose, Within
<1> QED
    BY <1>1 DEF Loose, Within


LEMMA SerializeOpArrayIs ==
    ASSUME NEW o, Shaped(o)
    PROVE  Loose(o, SerializeOpArray(o))
<1> DEFINE L == <<<<"statics", "ptr">>, <<"literals", "ptr">>, <<"opcodes", "ptr">>,
        <<"arg_info", "ptr">>, <<"name", "str">>, <<"filename", "str">>>>
        \o When(ver < 80400, <<<<"doc", "str">>>>)
        \o <<<<"vars", "ptr">>, <<"live_range", "flat">>, <<"scope", "flat">>,
             <<"try_catch", "flat">>, <<"attrs", "ptr">>, <<"defs", "ptr">>>>
<1>1. SerializeOpArray(o) = <<>> \/ SerializeOpArray(o) = Slots(o, L)
    BY DEF SerializeOpArray
<1>2. IsList(L)
    BY DEF IsList, When
<1> QED
    BY <1>1, <1>2, LooseNone, LooseList

LEMMA SerializeIs ==
    ASSUME NEW o, Shaped(o)
    PROVE  Loose(o, SerializeSlots(o))
<1>1. CASE o.kind = "class"
    <2> DEFINE L == 
        <<<<"name", "str">>, <<"parent", "str">>, <<"methods", "guard">>,
        <<"defaults", "ptr">>, <<"static_members", "ptr">>, <<"constants", "guard">>,
        <<"filename", "str">>, <<"doc", "str">>, <<"attrs", "ptr">>,
        <<"props", "guard">>, <<"interfaces", "ptr">>, <<"traits", "ptr">>,
        <<"aliases", "ptr">>, <<"precedences", "ptr">>,
        <<"magic", "flat">>, <<"callstatic", "flat">>>>
    <2>1. SerializeSlots(o) = <<>> \/ SerializeSlots(o) = Slots(o, L)
        BY <1>1 DEF SerializeSlots, SerializeClass
    <2>2. IsList(L)
        BY DEF IsList, When
    <2> QED
        BY <2>1, <2>2, LooseNone, LooseList
<1>2. CASE o.kind = "prop"
    <2> DEFINE L == 
        <<<<"ce", "flat">>, <<"name", "str">>, <<"doc", "str">>, <<"attrs", "ptr">>>>
        \o When(ver >= 80400, <<<<"prototype", "flat">>, <<"hooks", "ptr">>>>)
        \o <<<<"type", "type">>>>
    <2>1. SerializeSlots(o) = <<>> \/ SerializeSlots(o) = Slots(o, L)
        BY <1>2 DEF SerializeSlots, SerializeProp
    <2>2. IsList(L)
        <3>1. CASE ver >= 80400
            BY <3>1 DEF IsList, When
        <3>2. CASE ~ (ver >= 80400)
            BY <3>2 DEF IsList, When
        <3> QED
            BY <3>1, <3>2
    <2> QED
        BY <2>1, <2>2, LooseNone, LooseList
<1>3. CASE o.kind = "cconst"
    <2> DEFINE L == 
        <<<<"value", "zval">>, <<"doc", "str">>, <<"attrs", "ptr">>>>
        \o When(ver >= 80300, <<<<"type", "type">>>>)
        \o <<<<"ce", "flat">>>>
    <2>1. SerializeSlots(o) = <<>> \/ SerializeSlots(o) = Slots(o, L)
        BY <1>3 DEF SerializeSlots, SerializeClassConstant
    <2>2. IsList(L)
        <3>1. CASE ver >= 80300
            BY <3>1 DEF IsList, When
        <3>2. CASE ~ (ver >= 80300)
            BY <3>2 DEF IsList, When
        <3> QED
            BY <3>1, <3>2
    <2> QED
        BY <2>1, <2>2, LooseNone, LooseList
<1>4. CASE o.kind = "const"
    <2>1. \/ SerializeSlots(o) = <<>>
          \/ \E L : SerializeSlots(o) = Slots(o, L) /\ IsList(L)
        BY <1>4 DEF SerializeSlots, When, IsList
    <2> QED
        BY <2>1, LooseNone, LooseList
<1>5. CASE o.kind = "attr"
    <2>1. \/ SerializeSlots(o) = <<>>
          \/ \E L : SerializeSlots(o) = Slots(o, L) /\ IsList(L)
        BY <1>5 DEF SerializeSlots, When, IsList
    <2> QED
        BY <2>1, LooseNone, LooseList
<1>6. CASE o.kind = "ht"
    <2>1. \/ SerializeSlots(o) = <<>>
          \/ \E L : SerializeSlots(o) = Slots(o, L) /\ IsList(L)
        BY <1>6 DEF SerializeSlots, When, IsList
    <2> QED
        BY <2>1, LooseNone, LooseList
<1>7. CASE o.kind = "names"
    <2>1. \/ SerializeSlots(o) = <<>>
          \/ \E L : SerializeSlots(o) = Slots(o, L) /\ IsList(L)
        BY <1>7 DEF SerializeSlots, When, IsList
    <2> QED
        BY <2>1, LooseNone, LooseList
<1>8. CASE o.kind = "rule"
    <2>1. \/ SerializeSlots(o) = <<>>
          \/ \E L : SerializeSlots(o) = Slots(o, L) /\ IsList(L)
        BY <1>8 DEF SerializeSlots, When, IsList
    <2> QED
        BY <2>1, LooseNone, LooseList
<1>9. CASE o.kind = "arg_info"
    <2>1. \/ SerializeSlots(o) = <<>>
          \/ \E L : SerializeSlots(o) = Slots(o, L) /\ IsList(L)
        BY <1>9 DEF SerializeSlots, When, IsList
    <2> QED
        BY <2>1, LooseNone, LooseList
<1>10. CASE o.kind = "types"
    <2>1. \/ SerializeSlots(o) = <<>>
          \/ \E L : SerializeSlots(o) = Slots(o, L) /\ IsList(L)
        BY <1>10 DEF SerializeSlots, When, IsList
    <2> QED
        BY <2>1, LooseNone, LooseList
<1>11. CASE o.kind = "ast_ref"
    <2>1. \/ SerializeSlots(o) = <<>>
          \/ \E L : SerializeSlots(o) = Slots(o, L) /\ IsList(L)
        BY <1>11 DEF SerializeSlots, When, IsList
    <2> QED
        BY <2>1, LooseNone, LooseList
<1>12. CASE o.kind = "ast"
    <2>1. \/ SerializeSlots(o) = <<>>
          \/ \E L : SerializeSlots(o) = Slots(o, L) /\ IsList(L)
        BY <1>12 DEF SerializeSlots, When, IsList
    <2> QED
        BY <2>1, LooseNone, LooseList
<1>13. CASE o.kind \in Tables
    <2>1. PICK mode : SerializeSlots(o) = Buckets(o, mode)
        BY <1>13 DEF SerializeSlots, Tables
    <2> QED
        BY <1>13, <2>1, LooseBuckets
<1>14. CASE o.kind = "op_array"
    BY <1>14, SerializeOpArrayIs DEF SerializeSlots
<1>15. CASE o.kind = "script"
    <2> DEFINE A == Slots(o, <<<<"script_name", "str">>, <<"classes", "guard">>, <<"functions", "guard">>>>)
               B == SerializeOpArray(o)
               C == Slots(o, <<<<"consts", "guard">>, <<"early", "ptr">>>>)
    <2>1. SerializeSlots(o) = (A \o B) \o C
        BY <1>15 DEF SerializeSlots, SerializeScript
    <2>2. \E L : A = Slots(o, L) /\ IsList(L)
        BY DEF IsList
    <2>3. \E L : C = Slots(o, L) /\ IsList(L)
        BY DEF IsList
    <2> HIDE DEF A, B, C
    <2>4. Loose(o, A) /\ Loose(o, C)
        BY <2>2, <2>3, LooseList
    <2>5. Loose(o, B)
        BY SerializeOpArrayIs DEF B
    <2>6. Loose(o, A \o B)
        BY <2>4, <2>5, LooseBoth
    <2>7. Loose(o, (A \o B) \o C)
        BY <2>4, <2>6, LooseBoth
    <2> QED
        BY <2>1, <2>7
<1>16. CASE o.kind \notin {"script", "op_array", "class", "prop", "cconst", "const", "attr", "ht", "classes",
                    "functions", "methods", "props", "cconsts", "consts", "attrs", "rules", "defs", "hooks",
                    "zvals", "names", "rule", "arg_info", "types", "ast_ref", "ast"}
    <2>1. SerializeSlots(o) = <<>>
        BY <1>16 DEF SerializeSlots
    <2> QED
        BY <2>1, LooseNone
<1> QED
    BY <1>1, <1>2, <1>3, <1>4, <1>5, <1>6, <1>7, <1>8, <1>9, <1>10, <1>11, <1>12, <1>13, <1>14, <1>15, <1>16 DEF Tables

LEMMA UnserializeOpArrayIs ==
    ASSUME NEW o, Shaped(o)
    PROVE  Loose(o, UnserializeOpArray(o))
<1> DEFINE L == <<<<"statics", "ptr">>, <<"literals", "ptr">>, <<"opcodes", "ptr">>,
        <<"arg_info", "ptr">>, <<"name", "str">>, <<"filename", "str">>>>
        \o When(ver < 80400, <<<<"doc", "str">>>>)
        \o <<<<"vars", "ptr">>, <<"live_range", "flat">>, <<"scope", "flat">>,
             <<"try_catch", "flat">>, <<"attrs", "ptr">>, <<"defs", "ptr">>>>
<1>1. UnserializeOpArray(o) = <<>> \/ UnserializeOpArray(o) = Slots(o, L)
    BY DEF UnserializeOpArray
<1>2. IsList(L)
    BY DEF IsList, When
<1> QED
    BY <1>1, <1>2, LooseNone, LooseList

LEMMA UnserializeIs ==
    ASSUME NEW o, Shaped(o)
    PROVE  Loose(o, UnserializeSlots(o))
<1>1. CASE o.kind = "class"
    <2> DEFINE L == 
        <<<<"name", "str">>, <<"parent", "str">>, <<"methods", "guard">>,
        <<"props", "guard">>, <<"defaults", "ptr">>, <<"static_members", "ptr">>,
        <<"constants", "guard">>, <<"magic", "flat">>, <<"callstatic", "flat">>,
        <<"filename", "str">>, <<"doc", "str">>, <<"attrs", "ptr">>,
        <<"interfaces", "ptr">>, <<"traits", "ptr">>, <<"aliases", "ptr">>,
        <<"precedences", "ptr">>>>
    <2>1. UnserializeSlots(o) = <<>> \/ UnserializeSlots(o) = Slots(o, L)
        BY <1>1 DEF UnserializeSlots, UnserializeClass
    <2>2. IsList(L)
        BY DEF IsList, When
    <2> QED
        BY <2>1, <2>2, LooseNone, LooseList
<1>2. CASE o.kind = "prop"
    <2> DEFINE L == 
        <<<<"ce", "flat">>, <<"name", "str">>, <<"doc", "str">>, <<"attrs", "ptr">>>>
        \o When(ver >= 80400, <<<<"prototype", "flat">>, <<"hooks", "ptr">>>>)
        \o <<<<"type", "type">>>>
    <2>1. UnserializeSlots(o) = <<>> \/ UnserializeSlots(o) = Slots(o, L)
        BY <1>2 DEF UnserializeSlots, UnserializeProp
    <2>2. IsList(L)
        <3>1. CASE ver >= 80400
            BY <3>1 DEF IsList, When
        <3>2. CASE ~ (ver >= 80400)
            BY <3>2 DEF IsList, When
        <3> QED
            BY <3>1, <3>2
    <2> QED
        BY <2>1, <2>2, LooseNone, LooseList
<1>3. CASE o.kind = "cconst"
    <2> DEFINE L == 
        <<<<"ce", "flat">>, <<"value", "zval">>, <<"doc", "str">>, <<"attrs", "ptr">>>>
        \o When(ver >= 80300, <<<<"type", "type">>>>)
    <2>1. UnserializeSlots(o) = <<>> \/ UnserializeSlots(o) = Slots(o, L)
        BY <1>3 DEF UnserializeSlots, UnserializeClassConstant
    <2>2. IsList(L)
        <3>1. CASE ver >= 80300
            BY <3>1 DEF IsList, When
        <3>2. CASE ~ (ver >= 80300)
            BY <3>2 DEF IsList, When
        <3> QED
            BY <3>1, <3>2
    <2> QED
        BY <2>1, <2>2, LooseNone, LooseList
<1>4. CASE o.kind = "const"
    <2>1. \/ UnserializeSlots(o) = <<>>
          \/ \E L : UnserializeSlots(o) = Slots(o, L) /\ IsList(L)
        BY <1>4 DEF UnserializeSlots, When, IsList
    <2> QED
        BY <2>1, LooseNone, LooseList
<1>5. CASE o.kind = "attr"
    <2>1. \/ UnserializeSlots(o) = <<>>
          \/ \E L : UnserializeSlots(o) = Slots(o, L) /\ IsList(L)
        BY <1>5 DEF UnserializeSlots, When, IsList
    <2> QED
        BY <2>1, LooseNone, LooseList
<1>6. CASE o.kind = "ht"
    <2>1. \/ UnserializeSlots(o) = <<>>
          \/ \E L : UnserializeSlots(o) = Slots(o, L) /\ IsList(L)
        BY <1>6 DEF UnserializeSlots, When, IsList
    <2> QED
        BY <2>1, LooseNone, LooseList
<1>7. CASE o.kind = "names"
    <2>1. \/ UnserializeSlots(o) = <<>>
          \/ \E L : UnserializeSlots(o) = Slots(o, L) /\ IsList(L)
        BY <1>7 DEF UnserializeSlots, When, IsList
    <2> QED
        BY <2>1, LooseNone, LooseList
<1>8. CASE o.kind = "rule"
    <2>1. \/ UnserializeSlots(o) = <<>>
          \/ \E L : UnserializeSlots(o) = Slots(o, L) /\ IsList(L)
        BY <1>8 DEF UnserializeSlots, When, IsList
    <2> QED
        BY <2>1, LooseNone, LooseList
<1>9. CASE o.kind = "arg_info"
    <2>1. \/ UnserializeSlots(o) = <<>>
          \/ \E L : UnserializeSlots(o) = Slots(o, L) /\ IsList(L)
        BY <1>9 DEF UnserializeSlots, When, IsList
    <2> QED
        BY <2>1, LooseNone, LooseList
<1>10. CASE o.kind = "types"
    <2>1. \/ UnserializeSlots(o) = <<>>
          \/ \E L : UnserializeSlots(o) = Slots(o, L) /\ IsList(L)
        BY <1>10 DEF UnserializeSlots, When, IsList
    <2> QED
        BY <2>1, LooseNone, LooseList
<1>11. CASE o.kind = "ast_ref"
    <2>1. \/ UnserializeSlots(o) = <<>>
          \/ \E L : UnserializeSlots(o) = Slots(o, L) /\ IsList(L)
        BY <1>11 DEF UnserializeSlots, When, IsList
    <2> QED
        BY <2>1, LooseNone, LooseList
<1>12. CASE o.kind = "ast"
    <2>1. \/ UnserializeSlots(o) = <<>>
          \/ \E L : UnserializeSlots(o) = Slots(o, L) /\ IsList(L)
        BY <1>12 DEF UnserializeSlots, When, IsList
    <2> QED
        BY <2>1, LooseNone, LooseList
<1>13. CASE o.kind \in Tables
    <2>1. PICK mode : UnserializeSlots(o) = Buckets(o, mode)
        BY <1>13 DEF UnserializeSlots, Tables
    <2> QED
        BY <1>13, <2>1, LooseBuckets
<1>14. CASE o.kind = "op_array"
    BY <1>14, UnserializeOpArrayIs DEF UnserializeSlots
<1>15. CASE o.kind = "script"
    <2> DEFINE A == Slots(o, <<<<"script_name", "str">>, <<"classes", "guard">>, <<"functions", "guard">>>>)
               B == UnserializeOpArray(o)
               C == Slots(o, <<<<"consts", "guard">>, <<"early", "ptr">>>>)
    <2>1. UnserializeSlots(o) = (A \o B) \o C
        BY <1>15 DEF UnserializeSlots, UnserializeScript
    <2>2. \E L : A = Slots(o, L) /\ IsList(L)
        BY DEF IsList
    <2>3. \E L : C = Slots(o, L) /\ IsList(L)
        BY DEF IsList
    <2> HIDE DEF A, B, C
    <2>4. Loose(o, A) /\ Loose(o, C)
        BY <2>2, <2>3, LooseList
    <2>5. Loose(o, B)
        BY UnserializeOpArrayIs DEF B
    <2>6. Loose(o, A \o B)
        BY <2>4, <2>5, LooseBoth
    <2>7. Loose(o, (A \o B) \o C)
        BY <2>4, <2>6, LooseBoth
    <2> QED
        BY <2>1, <2>7
<1>16. CASE o.kind \notin {"script", "op_array", "class", "prop", "cconst", "const", "attr", "ht", "classes",
                    "functions", "methods", "props", "cconsts", "consts", "attrs", "rules", "defs", "hooks",
                    "zvals", "names", "rule", "arg_info", "types", "ast_ref", "ast"}
    <2>1. UnserializeSlots(o) = <<>>
        BY <1>16 DEF UnserializeSlots
    <2> QED
        BY <2>1, LooseNone
<1> QED
    BY <1>1, <1>2, <1>3, <1>4, <1>5, <1>6, <1>7, <1>8, <1>9, <1>10, <1>11, <1>12, <1>13, <1>14, <1>15, <1>16 DEF Tables

LEMMA UpdateIs ==
    ASSUME NEW o, Shaped(o)
    PROVE  /\ Loose(o, UpdateClass(o))
           /\ \A x \in Range(UpdateClass(o)) : x[3] = "patch" /\ x[1] \in {"magic", "callstatic"}
<1> DEFINE L == <<<<"magic", "patch">>>> \o When(ver < 80200, <<<<"callstatic", "patch">>>>)
<1>1. /\ UpdateClass(o) = Slots(o, L) /\ IsList(L)
      /\ \A j \in DOMAIN L : L[j][2] = "patch" /\ L[j][1] \in {"magic", "callstatic"}
    BY DEF UpdateClass, IsList, When
<1> HIDE DEF L
<1>2. \A x \in Range(Slots(o, L)) : \E j \in DOMAIN L : \E i : x = <<L[j][1], i, L[j][2]>>
    BY <1>1, SlotsAre
<1> QED
    BY <1>1, <1>2, LooseList

-------------------------------------------------------------------------------
\* Pointers to an object of the compiler and to a block of the image.
SrcPtr(objects, p) == \E n \in DOMAIN objects : p = <<"src", n>>
Img(im, p) == p[1] = "img" /\ p[2] \in DOMAIN im

\* What the model assumes of the objects of a script.
IsGraph(objects) ==
    /\ "script" \in DOMAIN objects /\ objects["script"].kind = "script"
    /\ \A n \in DOMAIN objects :
          /\ Shaped(objects[n])
          /\ \A f \in DOMAIN objects[n].f : \A i \in DOMAIN objects[n].f[f] :
                LET p == objects[n].f[f][i] IN
                p # Null => SrcPtr(objects, p) /\ p # <<"src", "script">>
          /\ objects[n].kind = "classes" =>
                \A i \in DOMAIN objects[n].f.val : objects[n].f.val[i] # Null

\* A block has the kind and the slots of what it is a copy of.
Alike(a, b) == /\ a.kind = b.kind /\ DOMAIN a.f = DOMAIN b.f
               /\ \A g \in DOMAIN b.f : DOMAIN a.f[g] = DOMAIN b.f[g]
BlockOf(objects, b) ==
    /\ DOMAIN b = {"kind", "of", "f"} /\ Shaped(b)
    /\ SrcPtr(objects, b.of) /\ Alike(b, objects[b.of[2]])
Blocks(objects, im) == IsSeq(im) /\ \A k \in DOMAIN im : BlockOf(objects, im[k])

\* Blocks stay what they are, and where; others may follow them.
Grows(im, new) ==
    /\ DOMAIN im \subseteq DOMAIN new
    /\ \A k \in DOMAIN im : new[k].of = im[k].of /\ Alike(new[k], im[k])

LEMMA ScriptIsGraph ==
    ASSUME NEW s \in Scripts
    PROVE  IsGraph(s.objects)
<1> DEFINE objects == s.objects
           Target == {Null} \cup {<<"src", n>> : n \in DOMAIN objects \ {"script"}}
<1>1. /\ "script" \in DOMAIN objects /\ objects["script"].kind = "script"
      /\ \A n \in DOMAIN objects :
            /\ \A f \in DOMAIN objects[n].f : objects[n].f[f] \in Seq(Target)
            /\ objects[n].kind \in Tables =>
                  /\ "val" \in DOMAIN objects[n].f
                  /\ "key" \in DOMAIN objects[n].f =>
                        DOMAIN objects[n].f.key \subseteq DOMAIN objects[n].f.val
            /\ objects[n].kind = "classes" =>
                  \A i \in DOMAIN objects[n].f.val : objects[n].f.val[i] # Null
    BY ScriptAssumption
<1>2. \A p \in Target : p # Null => SrcPtr(objects, p) /\ p # <<"src", "script">>
    BY DEF SrcPtr
<1> HIDE DEF objects, Target
<1>3. ASSUME NEW n \in DOMAIN objects, NEW f \in DOMAIN objects[n].f
      PROVE  /\ IsSeq(objects[n].f[f])
             /\ \A i \in DOMAIN objects[n].f[f] : objects[n].f[f][i] \in Target
    <2>1. objects[n].f[f] \in Seq(Target)
        BY <1>1
    <2> QED
        BY <2>1, SeqIsSeq
<1>4. IsGraph(objects)
    BY <1>1, <1>2, <1>3, Zenon DEF IsGraph, Shaped
<1> QED
    BY <1>4 DEF objects

\* A slot is given another value, and nothing else changes.
Put(im, k, f, i, q) == [im EXCEPT ![k].f[f][i] = q]
Writes(im, new, k, f, i, q) ==
    \A j \in DOMAIN im : \A g \in DOMAIN im[j].f : \A h \in DOMAIN im[j].f[g] :
        new[j].f[g][h] = IF j = k /\ g = f /\ h = i THEN q ELSE im[j].f[g][h]
LEMMA SetIs ==
    ASSUME NEW objects, NEW im, Blocks(objects, im),
           NEW k \in DOMAIN im, NEW f \in DOMAIN im[k].f, NEW i \in DOMAIN im[k].f[f], NEW q,
           NEW new, new = Put(im, k, f, i, q)
    PROVE  /\ Blocks(objects, new) /\ Grows(im, new)
           /\ DOMAIN new = DOMAIN im /\ Len(new) = Len(im)
           /\ Writes(im, new, k, f, i, q)
<1>1. PICK n \in Nat : DOMAIN im = 1 .. n /\ Len(im) = n
    BY IsSeqParts DEF Blocks
<1>2. DOMAIN new = 1 .. n /\ new = [j \in 1 .. n |-> new[j]]
    BY <1>1 DEF Put
<1>3. IsSeq(new) /\ Len(new) = n
    BY <1>2, MakeSeq
<1>4. \A j \in DOMAIN im : j # k => new[j] = im[j]
    BY DEF Put
<1>5. /\ new[k] = [im[k] EXCEPT !.f[f][i] = q]
      /\ DOMAIN im[k] = {"kind", "of", "f"}
    BY DEF Blocks, BlockOf, Put
<1>6. /\ DOMAIN new[k] = {"kind", "of", "f"}
      /\ new[k].kind = im[k].kind /\ new[k].of = im[k].of
      /\ new[k].f = [im[k].f EXCEPT ![f][i] = q]
    BY <1>5
<1>7. /\ DOMAIN new[k].f = DOMAIN im[k].f
      /\ \A g \in DOMAIN im[k].f : g # f => new[k].f[g] = im[k].f[g]
      /\ new[k].f[f] = [im[k].f[f] EXCEPT ![i] = q]
    BY <1>6
<1>8. /\ DOMAIN new[k].f[f] = DOMAIN im[k].f[f]
      /\ \A h \in DOMAIN im[k].f[f] :
            new[k].f[f][h] = IF h = i THEN q ELSE im[k].f[f][h]
    BY <1>7
<1>9. IsSeq(new[k].f[f])
    <2>1. PICK m \in Nat : DOMAIN im[k].f[f] = 1 .. m
        BY IsSeqParts DEF Blocks, BlockOf, Shaped
    <2>2. new[k].f[f] = [h \in 1 .. m |-> new[k].f[f][h]]
        BY <1>7, <2>1
    <2> QED
        BY <1>8, <2>1, <2>2, MakeSeq
<1>10. Alike(new[k], im[k])
    BY <1>6, <1>7, <1>8 DEF Alike
<1>11. Shaped(new[k])
    <2>1. Shaped(im[k])
        BY DEF Blocks, BlockOf
    <2>2. \A g \in DOMAIN im[k].f : DOMAIN new[k].f[g] = DOMAIN im[k].f[g]
        BY <1>10 DEF Alike
    <2>3. \A g \in DOMAIN new[k].f : IsSeq(new[k].f[g])
        BY <2>1, <1>7, <1>9 DEF Shaped
    <2> QED
        BY <2>1, <2>2, <2>3, <1>6, <1>7 DEF Shaped
<1>12. \A j \in DOMAIN im : new[j].of = im[j].of /\ Alike(new[j], im[j])
    BY <1>4, <1>6, <1>10 DEF Alike
<1>13. ASSUME NEW j \in DOMAIN im PROVE BlockOf(objects, new[j])
    <2>1. CASE j = k
        <3>1. BlockOf(objects, im[k])
            BY DEF Blocks
        <3>2. Alike(new[k], objects[im[k].of[2]])
            BY <3>1, <1>10 DEF BlockOf, Alike
        <3> QED
            BY <3>1, <3>2, <2>1, <1>6, <1>11 DEF BlockOf
    <2>2. CASE j # k
        BY <2>2, <1>4 DEF Blocks
    <2> QED
        BY <2>1, <2>2
<1>14. \A j \in DOMAIN im : \A g \in DOMAIN im[j].f : \A h \in DOMAIN im[j].f[g] :
          new[j].f[g][h] = IF j = k /\ g = f /\ h = i THEN q ELSE im[j].f[g][h]
    BY <1>4, <1>7, <1>8
<1> QED
    BY <1>1, <1>2, <1>3, <1>12, <1>13, <1>14 DEF Blocks, Grows, Writes

LEMMA AppendIs ==
    ASSUME NEW s, IsSeq(s), NEW b
    PROVE  /\ IsSeq(Append(s, b)) /\ Len(Append(s, b)) = Len(s) + 1
           /\ DOMAIN Append(s, b) = 1 .. Len(s) + 1
           /\ \A j \in DOMAIN s : j # Len(s) + 1 /\ Append(s, b)[j] = s[j]
           /\ Append(s, b)[Len(s) + 1] = b
<1> DEFINE X == Range(s) \cup {b}
<1>1. s \in Seq(X) /\ b \in X
    BY DEF IsSeq
<1> HIDE DEF X
<1>2. /\ Append(s, b) \in Seq(X) /\ Len(Append(s, b)) = Len(s) + 1
      /\ \A j \in 1 .. Len(s) : Append(s, b)[j] = s[j]
      /\ Append(s, b)[Len(s) + 1] = b
      /\ DOMAIN s = 1 .. Len(s) /\ Len(s) \in Nat
    BY <1>1
<1>3. IsSeq(Append(s, b)) /\ DOMAIN Append(s, b) = 1 .. Len(Append(s, b))
    BY <1>2, SeqIsSeq
<1>4. \A j \in DOMAIN s : j # Len(s) + 1 /\ Append(s, b)[j] = s[j]
    BY <1>2
<1> QED
    BY <1>2, <1>3, <1>4

LEMMA GrowsIs ==
    ASSUME NEW im, NEW new, NEW newer, Grows(im, new), Grows(new, newer)
    PROVE  Grows(im, newer)
BY DEF Grows, Alike

LEMMA BlocksAppend ==
    ASSUME NEW objects, NEW im, Blocks(objects, im), NEW b, BlockOf(objects, b)
    PROVE  /\ Blocks(objects, Append(im, b)) /\ Grows(im, Append(im, b))
<1> DEFINE new == Append(im, b)
<1>1. /\ IsSeq(new) /\ DOMAIN new = 1 .. Len(im) + 1
      /\ DOMAIN im = 1 .. Len(im) /\ Len(im) \in Nat
      /\ \A j \in DOMAIN im : new[j] = im[j]
      /\ new[Len(im) + 1] = b
    BY AppendIs, IsSeqParts DEF Blocks
<1> HIDE DEF new
<1>2. \A j \in DOMAIN new : j \in DOMAIN im \/ j = Len(im) + 1
    BY <1>1
<1>3. DOMAIN im \subseteq DOMAIN new
    BY <1>1
<1> QED
    BY <1>1, <1>2, <1>3 DEF Blocks, Grows, Alike, new

\* The slots of an object, each with its owner.
LEMMA OfIs ==
    ASSUME NEW p, NEW s, IsSeq(s)
    PROVE  /\ IsSeq(Of(p, s)) /\ DOMAIN Of(p, s) = DOMAIN s
           /\ \A j \in DOMAIN s : Of(p, s)[j] = <<p, s[j][1], s[j][2], s[j][3]>>
           /\ \A e \in Range(Of(p, s)) : \E x \in Range(s) : e = <<p, x[1], x[2], x[3]>>
<1>1. PICK n \in Nat : DOMAIN s = 1 .. n
    BY IsSeqParts
<1> DEFINE t == Of(p, s)
<1>2. t = [j \in 1 .. n |-> <<p, s[j][1], s[j][2], s[j][3]>>]
    BY <1>1 DEF Of
<1> HIDE DEF t
<1>3. DOMAIN t = 1 .. n /\ t = [j \in 1 .. n |-> t[j]]
    BY <1>2
<1>4. \A j \in 1 .. n : t[j] = <<p, s[j][1], s[j][2], s[j][3]>>
    BY <1>2
<1>5. IsSeq(t)
    BY <1>3, MakeSeq
<1>6. \A e \in Range(t) : \E x \in Range(s) : e = <<p, x[1], x[2], x[3]>>
    <2> SUFFICES ASSUME NEW e \in Range(t)
                 PROVE  \E x \in Range(s) : e = <<p, x[1], x[2], x[3]>>
        OBVIOUS
    <2>1. PICK j \in 1 .. n : e = t[j]
        BY <1>3 DEF Range
    <2>2. s[j] \in Range(s)
        BY <1>1 DEF Range
    <2> QED
        BY <2>1, <2>2, <1>4
<1> QED
    BY <1>1, <1>3, <1>4, <1>5, <1>6 DEF t

-------------------------------------------------------------------------------
\* The slots that wait lie in the objects of the compiler, in blocks of the image or in
\* blocks where the image was loaded to, as the traversal has it.
Tag(ps) == IF ps = "calc" THEN "src" ELSE IF ps = "unserialize" THEN "mem" ELSE "img"
Its(objects, im, p) == IF p[1] = "src" THEN objects[p[2]] ELSE im[p[2]]
OwnerFine(ps, objects, im, p) ==
    p[1] = Tag(ps) /\ p[2] \in IF ps = "calc" THEN DOMAIN objects ELSE DOMAIN im
Entry(ps, objects, im, e) ==
    /\ e = <<e[1], e[2], e[3], e[4]>>
    /\ OwnerFine(ps, objects, im, e[1])
    /\ e[2] \in DOMAIN Its(objects, im, e[1]).f
    /\ e[3] \in DOMAIN Its(objects, im, e[1]).f[e[2]]
    /\ ps = "persist" => ModeFits(im[e[1][2]], e[2], e[4])
Entries(ps, objects, im, td) ==
    IsSeq(td) /\ \A e \in Range(td) : Entry(ps, objects, im, e)

LEMMA OwnerIs ==
    ASSUME NEW ps, NEW objects, NEW im, NEW p, OwnerFine(ps, objects, im, p)
    PROVE  /\ ps = "calc" => p[2] \in DOMAIN objects /\ Its(objects, im, p) = objects[p[2]]
           /\ ps # "calc" => p[2] \in DOMAIN im /\ Its(objects, im, p) = im[p[2]]
BY DEF OwnerFine, Its, Tag

LEMMA EntriesGrow ==
    ASSUME NEW ps, NEW objects, NEW im, NEW new, Grows(im, new), NEW td,
           Entries(ps, objects, im, td)
    PROVE  Entries(ps, objects, new, td)
<1> SUFFICES ASSUME NEW e \in Range(td), Entry(ps, objects, im, e)
             PROVE  Entry(ps, objects, new, e)
    BY DEF Entries
<1>1. OwnerFine(ps, objects, im, e[1]) /\ OwnerFine(ps, objects, new, e[1])
    BY DEF Entry, OwnerFine, Grows
<1>2. CASE ps = "calc"
    BY <1>1, <1>2, OwnerIs DEF Entry
<1>3. CASE ps # "calc"
    <2>1. /\ e[1][2] \in DOMAIN im
          /\ Its(objects, im, e[1]) = im[e[1][2]] /\ Its(objects, new, e[1]) = new[e[1][2]]
        BY <1>1, <1>3, OwnerIs
    <2>2. Alike(new[e[1][2]], im[e[1][2]])
        BY <2>1 DEF Grows
    <2>3. ModeFits(im[e[1][2]], e[2], e[4]) => ModeFits(new[e[1][2]], e[2], e[4])
        BY <2>2 DEF ModeFits, Owning, Alike
    <2> QED
        BY <1>1, <2>1, <2>2, <2>3 DEF Entry, Alike
<1> QED
    BY <1>2, <1>3

LEMMA EntriesTail ==
    ASSUME NEW ps, NEW objects, NEW im, NEW td, Entries(ps, objects, im, td), td # <<>>
    PROVE  /\ Entry(ps, objects, im, Head(td)) /\ Entries(ps, objects, im, Tail(td))
           /\ IsSeq(td) /\ IsSeq(Tail(td))
<1>1. /\ IsSeq(Tail(td)) /\ Range(Tail(td)) \subseteq Range(td) /\ Head(td) = td[1]
      /\ 1 \in DOMAIN td
    BY TailIs DEF Entries
<1>2. Head(td) \in Range(td)
    BY <1>1 DEF Range
<1> QED
    BY <1>1, <1>2 DEF Entries

LEMMA EntriesOf ==
    ASSUME NEW ps, NEW objects, NEW im, NEW p, OwnerFine(ps, objects, im, p),
           NEW o, o = Its(objects, im, p), NEW s, Loose(o, s),
           ps = "persist" => \A x \in Range(s) : ModeFits(o, x[1], x[3])
    PROVE  Entries(ps, objects, im, Of(p, s)) /\ IsSeq(Of(p, s))
<1>1. IsSeq(Of(p, s)) /\ \A e \in Range(Of(p, s)) : \E x \in Range(s) :
                            e = <<p, x[1], x[2], x[3]>>
    BY OfIs DEF Loose, Within
<1> SUFFICES ASSUME NEW e \in Range(Of(p, s)) PROVE Entry(ps, objects, im, e)
    BY <1>1 DEF Entries
<1>2. PICK x \in Range(s) : e = <<p, x[1], x[2], x[3]>>
    BY <1>1
<1>3. /\ e[1] = p /\ e[2] = x[1] /\ e[3] = x[2] /\ e[4] = x[3]
      /\ e = <<e[1], e[2], e[3], e[4]>>
    BY <1>2
<1>4. x[1] \in DOMAIN o.f /\ x[2] \in DOMAIN o.f[x[1]]
    BY DEF Loose, Within
<1>5. ps = "persist" => ModeFits(im[p[2]], x[1], x[3])
    BY OwnerIs
<1> QED
    BY <1>3, <1>4, <1>5 DEF Entry

LEMMA EntriesBoth ==
    ASSUME NEW ps, NEW objects, NEW im, NEW s, NEW t,
           Entries(ps, objects, im, s), Entries(ps, objects, im, t)
    PROVE  Entries(ps, objects, im, s \o t)
<1>1. IsSeq(s \o t) /\ Range(s \o t) = Range(s) \cup Range(t)
    BY ConcatIs DEF Entries
<1> QED
    BY <1>1 DEF Entries

LEMMA EntriesDescend ==
    ASSUME NEW ps, NEW objects, NEW im, NEW p, OwnerFine(ps, objects, im, p),
           NEW o, o = Its(objects, im, p), NEW s, Loose(o, s),
           ps = "persist" => \A x \in Range(s) : ModeFits(o, x[1], x[3]),
           NEW td, Entries(ps, objects, im, td), td # <<>>
    PROVE  Entries(ps, objects, im, Of(p, s) \o Tail(td))
<1>1. Entries(ps, objects, im, Of(p, s))
    BY EntriesOf
<1>2. Entries(ps, objects, im, Tail(td))
    BY EntriesTail
<1> QED
    BY <1>1, <1>2, EntriesBoth

\* What the slots of the blocks hold.
MayHold(ps, objects, im, pl, v) ==
    \/ v = Null
    \/ SrcPtr(objects, v)
    \/ Img(im, v)
    \/ /\ ps # "persist"
       /\ \/ v = Wild
          \/ v[1] \in {"off", "mem"} /\ v[2] \in DOMAIN im
          \/ v[1] = "pool" /\ v[2] \in 0 .. Len(pl) - 1
          \/ v[1] = "interned"
Values(ps, objects, im, pl) ==
    \A k \in DOMAIN im : \A f \in DOMAIN im[k].f : \A i \in DOMAIN im[k].f[f] :
        MayHold(ps, objects, im, pl, im[k].f[f][i])

LEMMA MayHoldGrows ==
    ASSUME NEW ps, NEW objects, NEW im, NEW new, Grows(im, new), NEW pl, NEW more,
           Len(pl) \in Nat, Len(more) \in Nat, Len(pl) <= Len(more),
           NEW v, MayHold(ps, objects, im, pl, v)
    PROVE  MayHold(ps, objects, new, more, v)
<1>1. 0 .. Len(pl) - 1 \subseteq 0 .. Len(more) - 1
    OBVIOUS
<1> QED
    BY <1>1 DEF MayHold, Grows, Img

LEMMA ValuesSet ==
    ASSUME NEW objects, NEW im, Blocks(objects, im),
           NEW k \in DOMAIN im, NEW f \in DOMAIN im[k].f, NEW i \in DOMAIN im[k].f[f], NEW q,
           NEW new, new = Put(im, k, f, i, q),
           NEW ps, NEW pl, NEW more, Len(pl) \in Nat, Len(more) \in Nat, Len(pl) <= Len(more),
           Values(ps, objects, im, pl), MayHold(ps, objects, im, more, q)
    PROVE  Values(ps, objects, new, more)
<1>1. /\ Grows(im, new) /\ DOMAIN new = DOMAIN im
      /\ Writes(im, new, k, f, i, q)
    BY SetIs
<1> SUFFICES ASSUME NEW j \in DOMAIN new, NEW g \in DOMAIN new[j].f,
                    NEW h \in DOMAIN new[j].f[g]
             PROVE  MayHold(ps, objects, new, more, new[j].f[g][h])
    BY DEF Values
<1>2. j \in DOMAIN im /\ g \in DOMAIN im[j].f /\ h \in DOMAIN im[j].f[g]
    BY <1>1 DEF Grows, Alike
<1>3. \/ new[j].f[g][h] = q
      \/ new[j].f[g][h] = im[j].f[g][h]
    BY <1>1, <1>2 DEF Writes
<1>4. MayHold(ps, objects, im, pl, im[j].f[g][h])
    BY <1>2 DEF Values
<1>5. CASE new[j].f[g][h] = q
    BY <1>5, <1>1, MayHoldGrows
<1>6. CASE new[j].f[g][h] = im[j].f[g][h]
    BY <1>6, <1>4, <1>1, MayHoldGrows
<1> QED
    BY <1>3, <1>5, <1>6

\* What waits to be updated in persist has its copy, or waits for the copy before.
Waits(td, S) ==
    \A b \in DOMAIN td : td[b][4] = "update" =>
        \/ <<td[b][1], td[b][2], td[b][3]>> \in S
        \/ \E a \in DOMAIN td : a < b /\ td[a] = <<td[b][1], td[b][2], td[b][3], "once">>
Moved(im, S) ==
    \A x \in S : /\ x[1][2] \in DOMAIN im /\ x[2] = "val" /\ im[x[1][2]].kind = "classes"
                 /\ x[2] \in DOMAIN im[x[1][2]].f /\ x[3] \in DOMAIN im[x[1][2]].f[x[2]]
                 /\ Img(im, im[x[1][2]].f[x[2]][x[3]])

LEMMA WaitsTail ==
    ASSUME NEW td, IsSeq(td), td # <<>>, NEW S, Waits(td, S), NEW T, S \subseteq T,
           \A e \in Range(td) : e[4] = "update" /\ Head(td) = <<e[1], e[2], e[3], "once">> =>
                                  <<e[1], e[2], e[3]>> \in T
    PROVE  Waits(Tail(td), T)
<1>1. /\ Head(td) = td[1] /\ Len(td) \in Nat \ {0} /\ Len(Tail(td)) = Len(td) - 1
      /\ \A i \in 1 .. Len(td) - 1 : Tail(td)[i] = td[i + 1]
      /\ IsSeq(Tail(td))
    BY TailIs
<1>2. DOMAIN td = 1 .. Len(td) /\ DOMAIN Tail(td) = 1 .. Len(td) - 1
    BY <1>1, IsSeqParts
<1> SUFFICES ASSUME NEW b \in DOMAIN Tail(td), Tail(td)[b][4] = "update",
                    <<Tail(td)[b][1], Tail(td)[b][2], Tail(td)[b][3]>> \notin T
             PROVE  \E a \in DOMAIN Tail(td) : a < b /\ Tail(td)[a] =
                        <<Tail(td)[b][1], Tail(td)[b][2], Tail(td)[b][3], "once">>
    BY DEF Waits
<1> DEFINE e == td[b + 1]
<1>3. b + 1 \in DOMAIN td /\ Tail(td)[b] = e /\ b \in Nat
    BY <1>1, <1>2
<1>4. e \in Range(td)
    BY <1>3 DEF Range
<1>5. <<e[1], e[2], e[3]>> \notin S
    BY <1>3
<1>6. PICK a \in DOMAIN td : a < b + 1 /\ td[a] = <<e[1], e[2], e[3], "once">>
    BY <1>3, <1>5 DEF Waits
<1> HIDE DEF e
<1>7. a # 1
    BY <1>1, <1>3, <1>4, <1>6
<1>8. a - 1 \in DOMAIN Tail(td) /\ a - 1 < b /\ Tail(td)[a - 1] = td[a]
    <2>1. a - 1 \in 1 .. Len(td) - 1 /\ a - 1 < b /\ (a - 1) + 1 = a
        BY <1>1, <1>2, <1>3, <1>6, <1>7
    <2> QED
        BY <2>1, <1>1, <1>2
<1> QED
    BY <1>3, <1>6, <1>8

LEMMA WaitsBoth ==
    ASSUME NEW s, NEW t, IsSeq(s), IsSeq(t), NEW S, Waits(s, S), Waits(t, S)
    PROVE  Waits(s \o t, S)
<1> DEFINE u == s \o t
<1>1. /\ IsSeq(u) /\ Len(u) = Len(s) + Len(t)
      /\ \A i \in 1 .. Len(s) : u[i] = s[i]
      /\ \A i \in 1 .. Len(t) : u[Len(s) + i] = t[i]
    BY ConcatIs
<1>2. /\ DOMAIN s = 1 .. Len(s) /\ Len(s) \in Nat
      /\ DOMAIN t = 1 .. Len(t) /\ Len(t) \in Nat /\ DOMAIN u = 1 .. Len(u)
    BY <1>1, IsSeqParts
<1> HIDE DEF u
<1> SUFFICES ASSUME NEW b \in DOMAIN u, u[b][4] = "update",
                    <<u[b][1], u[b][2], u[b][3]>> \notin S
             PROVE  \E a \in DOMAIN u : a < b /\ u[a] = <<u[b][1], u[b][2], u[b][3], "once">>
    BY DEF Waits, u
<1>3. CASE b \in DOMAIN s
    <2>1. u[b] = s[b]
        BY <1>1, <1>2, <1>3
    <2>2. PICK a \in DOMAIN s : a < b /\ s[a] = <<s[b][1], s[b][2], s[b][3], "once">>
        BY <1>3, <2>1 DEF Waits
    <2>3. a \in DOMAIN u /\ u[a] = s[a]
        BY <1>1, <1>2
    <2> QED
        BY <2>1, <2>2, <2>3
<1>4. CASE b \notin DOMAIN s
    <2> DEFINE c == b - Len(s)
    <2>1. c \in 1 .. Len(t) /\ b = Len(s) + c
        BY <1>1, <1>2, <1>4
    <2> HIDE DEF c
    <2>2. u[b] = t[c]
        BY <1>1, <2>1
    <2>3. PICK a \in DOMAIN t : a < c /\ t[a] = <<t[c][1], t[c][2], t[c][3], "once">>
        BY <1>2, <2>1, <2>2 DEF Waits
    <2>4. Len(s) + a \in DOMAIN u /\ Len(s) + a < b /\ u[Len(s) + a] = t[a]
        BY <1>1, <1>2, <2>1, <2>3
    <2> QED
        BY <2>2, <2>3, <2>4
<1> QED
    BY <1>3, <1>4

LEMMA WaitsOf ==
    ASSUME NEW o, NEW s, PersistFine(o, s), NEW p, NEW S
    PROVE  Waits(Of(p, s), S)
<1>1. /\ DOMAIN Of(p, s) = DOMAIN s
      /\ \A j \in DOMAIN s : Of(p, s)[j] = <<p, s[j][1], s[j][2], s[j][3]>>
    BY OfIs DEF PersistFine, Within
<1> DEFINE t == Of(p, s)
<1> HIDE DEF t
<1> SUFFICES ASSUME NEW b \in DOMAIN t, t[b][4] = "update"
             PROVE  \E a \in DOMAIN t : a < b /\ t[a] = <<t[b][1], t[b][2], t[b][3], "once">>
    BY DEF Waits, t
<1>2. /\ b \in DOMAIN s /\ s[b][3] = "update"
      /\ t[b][1] = p /\ t[b][2] = s[b][1] /\ t[b][3] = s[b][2]
    BY <1>1 DEF t
<1>3. PICK a \in DOMAIN s : a < b /\ s[a] = <<s[b][1], s[b][2], "once">>
    BY <1>2 DEF PersistFine
<1>4. a \in DOMAIN t /\ t[a] = <<p, s[b][1], s[b][2], "once">>
    BY <1>1, <1>3 DEF t
<1> QED
    BY <1>2, <1>3, <1>4

-------------------------------------------------------------------------------
\* What the xlat table leads to, and no class table has lost an entry.
XlatFine(ps, im, pl, xl) ==
    \A p \in DOMAIN xl :
        \/ ps = "calc" /\ xl[p] = p
        \/ ps = "persist" /\ Img(im, xl[p])
        \/ ps = "serialize" /\ xl[p][1] = "pool" /\ xl[p][2] \in 0 .. Len(pl) - 1
NoHoles(im) ==
    \A k \in DOMAIN im : im[k].kind = "classes" =>
        \A i \in DOMAIN im[k].f.val : im[k].f.val[i] # Null

TypeInv ==
    /\ IsGraph(src) /\ pass \in Passes /\ counted \in Nat
    /\ IsSeq(pool) /\ Blocks(src, image) /\ Values(pass, src, image, pool)
    /\ Entries(pass, src, image, todo)
    /\ pass \in {"start", "loaded"} => todo = <<>>
    /\ pass \notin {"start", "calc"} => 1 \in DOMAIN image
    /\ XlatFine(pass, image, pool, xlat)
    /\ pass = "persist" => /\ NoHoles(image)
                           /\ \E S : Waits(todo, S) /\ Moved(image, S)

\* The hooks that are tied to their properties are in the image.
Tied == /\ pass \in {"start", "calc"} => prop_info = <<>>
        /\ DOMAIN prop_info \subseteq DOMAIN image

LEMMA TypeInvImplies == TypeInv /\ Tied => TypeOK
<1> SUFFICES ASSUME TypeInv, Tied PROVE TypeOK
    OBVIOUS
<1>1. ASSUME NEW j \in DOMAIN todo
      PROVE  /\ IsBlock(todo[j][1])
             /\ IF todo[j][1][1] = "src" THEN todo[j][1][2] \in DOMAIN src
                                          ELSE todo[j][1][2] \in DOMAIN image
    <2>1. todo[j] \in Range(todo)
        BY DEF Range
    <2>2. OwnerFine(pass, src, image, todo[j][1])
        BY <2>1 DEF TypeInv, Entries, Entry
    <2> QED
        BY <2>2 DEF OwnerFine, Tag, IsBlock
<1>2. \A p \in DOMAIN xlat :
          \/ xlat[p] = p
          \/ xlat[p][1] = "img" /\ xlat[p][2] \in DOMAIN image
          \/ xlat[p][1] = "pool" /\ xlat[p][2] \in 0 .. Len(pool) - 1
    BY DEF TypeInv, XlatFine, Img
<1> QED
    BY <1>1, <1>2 DEF TypeInv, TypeOK, Tied

\* The slot that is handled.
LEMMA HeadIs ==
    ASSUME TypeInv, todo # <<>>
    PROVE  /\ Entry(pass, src, image, Head(todo)) /\ IsSeq(todo) /\ IsSeq(Tail(todo))
           /\ Entries(pass, src, image, Tail(todo))
           /\ pass = "calc" =>
                 /\ Owner[2] \in DOMAIN src
                 /\ Head(todo)[2] \in DOMAIN src[Owner[2]].f
                 /\ Head(todo)[3] \in DOMAIN src[Owner[2]].f[Head(todo)[2]]
                 /\ P = src[Owner[2]].f[Head(todo)[2]][Head(todo)[3]]
                 /\ P # Null => SrcPtr(src, P) /\ Obj(P) = src[P[2]] /\ Shaped(Obj(P))
           /\ pass # "calc" =>
                 /\ Owner[2] \in DOMAIN image
                 /\ Head(todo)[2] \in DOMAIN image[Owner[2]].f
                 /\ Head(todo)[3] \in DOMAIN image[Owner[2]].f[Head(todo)[2]]
                 /\ P = image[Owner[2]].f[Head(todo)[2]][Head(todo)[3]]
                 /\ MayHold(pass, src, image, pool, P)
<1>1. /\ Entry(pass, src, image, Head(todo)) /\ IsSeq(todo) /\ IsSeq(Tail(todo))
      /\ Entries(pass, src, image, Tail(todo))
    BY EntriesTail DEF TypeInv
<1>2. /\ OwnerFine(pass, src, image, Owner) /\ Obj(Owner) = Its(src, image, Owner)
      /\ Head(todo)[2] \in DOMAIN Obj(Owner).f
      /\ Head(todo)[3] \in DOMAIN Obj(Owner).f[Head(todo)[2]]
    BY <1>1 DEF Entry, Owner, Obj, Its
<1>3. P = Obj(Owner).f[Head(todo)[2]][Head(todo)[3]]
    BY <1>2 DEF P, Field
<1>4. CASE pass = "calc"
    <2>1. Owner[2] \in DOMAIN src /\ Obj(Owner) = src[Owner[2]]
        BY <1>2, <1>4, OwnerIs
    <2>2. P # Null => SrcPtr(src, P)
        BY <1>2, <1>3, <2>1 DEF TypeInv, IsGraph
    <2>3. SrcPtr(src, P) => Obj(P) = src[P[2]] /\ Shaped(src[P[2]])
        BY DEF SrcPtr, Obj, TypeInv, IsGraph
    <2> QED
        BY <1>1, <1>2, <1>3, <1>4, <2>1, <2>2, <2>3
<1>5. CASE pass # "calc"
    <2>1. Owner[2] \in DOMAIN image /\ Obj(Owner) = image[Owner[2]]
        BY <1>2, <1>5, OwnerIs
    <2>2. MayHold(pass, src, image, pool, P)
        BY <1>2, <1>3, <2>1 DEF TypeInv, Values
    <2> QED
        BY <1>1, <1>2, <1>3, <1>5, <2>1, <2>2
<1> QED
    BY <1>4, <1>5

LEMMA SetStep ==
    ASSUME TypeInv, todo # <<>>, pass # "calc", NEW q,
           NEW more, Len(more) \in Nat, Len(pool) <= Len(more),
           MayHold(pass, src, image, more, q),
           NEW new, new = Set(image, q)
    PROVE  /\ Blocks(src, new) /\ Grows(image, new) /\ DOMAIN new = DOMAIN image
           /\ Values(pass, src, new, more)
           /\ Entries(pass, src, new, Tail(todo))
           /\ Writes(image, new, Owner[2], Head(todo)[2], Head(todo)[3], q)
<1> DEFINE k == Owner[2]
           f == Head(todo)[2]
           i == Head(todo)[3]
<1>1. new = Put(image, k, f, i, q)
    BY DEF Set, Put
<1>2. k \in DOMAIN image /\ f \in DOMAIN image[k].f /\ i \in DOMAIN image[k].f[f]
    BY HeadIs
<1>3. Len(pool) \in Nat
    BY IsSeqParts DEF TypeInv
<1>4. Blocks(src, image) /\ Values(pass, src, image, pool)
    BY DEF TypeInv
<1> HIDE DEF k, f, i
<1>5. /\ Blocks(src, new) /\ Grows(image, new) /\ DOMAIN new = DOMAIN image
      /\ Writes(image, new, k, f, i, q)
    BY <1>1, <1>2, <1>4, SetIs
<1>6. Values(pass, src, new, more)
    BY <1>1, <1>2, <1>3, <1>4, ValuesSet
<1>7. Entries(pass, src, image, Tail(todo))
    BY HeadIs
<1>8. Entries(pass, src, new, Tail(todo))
    BY <1>5, <1>7, EntriesGrow
<1> QED
    BY <1>5, <1>6, <1>8 DEF k, f, i

\* In persist, what waits to be updated is not disturbed.
LEMMA PersistSet ==
    ASSUME TypeInv, todo # <<>>, pass = "persist", NEW big, NEW q,
           (q[1] = "img" /\ q[2] \in DOMAIN big) \/ Mode \in {"xlat", "patch", "zval"},
           Grows(image, big),
           Writes(image, big, Owner[2], Head(todo)[2], Head(todo)[3], q)
    PROVE  /\ \E S : Waits(Tail(todo), S) /\ Moved(big, S)
           /\ \A k \in DOMAIN image : image[k].kind = "classes" =>
                 \A i \in DOMAIN image[k].f.val : big[k].f.val[i] # Null
<1> DEFINE k == Owner[2]
           f == Head(todo)[2]
           i == Head(todo)[3]
           own == image[k].kind = "classes" /\ f = "val"
           T(S) == S \cup {x \in {<<Owner, f, i>>} : own /\ q[1] = "img" /\ q[2] \in DOMAIN big}
<1>1. /\ k \in DOMAIN image /\ f \in DOMAIN image[k].f /\ i \in DOMAIN image[k].f[f]
      /\ ModeFits(image[k], f, Mode) /\ IsSeq(todo)
    BY HeadIs DEF Entry, Mode, Owner
<1>2. own => q[1] = "img" /\ q[2] \in DOMAIN big
    BY <1>1 DEF ModeFits, Copying, Translated
<1>3. PICK S : Waits(todo, S) /\ Moved(image, S)
    BY DEF TypeInv
<1>4. \A e \in Range(todo) : e[4] = "update" => image[e[1][2]].kind = "classes" /\ e[2] = "val"
    BY DEF TypeInv, Entries, Entry, ModeFits
<1>5. ASSUME NEW e \in Range(todo), e[4] = "update",
             Head(todo) = <<e[1], e[2], e[3], "once">>
      PROVE  <<e[1], e[2], e[3]>> \in T(S)
    <2>1. own /\ <<e[1], e[2], e[3]>> = <<Owner, f, i>>
        BY <1>4, <1>5 DEF Owner
    <2> QED
        BY <2>1, <1>2
<1>6. ASSUME NEW x \in T(S)
      PROVE  /\ x[1][2] \in DOMAIN big /\ x[2] = "val" /\ big[x[1][2]].kind = "classes"
             /\ x[2] \in DOMAIN big[x[1][2]].f /\ x[3] \in DOMAIN big[x[1][2]].f[x[2]]
             /\ Img(big, big[x[1][2]].f[x[2]][x[3]])
    <2>1. /\ x[1][2] \in DOMAIN image /\ x[2] = "val" /\ image[x[1][2]].kind = "classes"
          /\ x[2] \in DOMAIN image[x[1][2]].f /\ x[3] \in DOMAIN image[x[1][2]].f[x[2]]
          /\ \/ x[1][2] = k /\ x[2] = f /\ x[3] = i
             \/ Img(image, image[x[1][2]].f[x[2]][x[3]])
        BY <1>1, <1>3 DEF Moved
    <2>2. /\ x[1][2] \in DOMAIN big /\ Alike(big[x[1][2]], image[x[1][2]])
          /\ \A p : Img(image, p) => Img(big, p)
        BY <2>1 DEF Grows, Img
    <2>3. \/ x[1][2] = k /\ x[2] = f /\ x[3] = i /\ big[x[1][2]].f[x[2]][x[3]] = q
          \/ big[x[1][2]].f[x[2]][x[3]] = image[x[1][2]].f[x[2]][x[3]]
             /\ ~(x[1][2] = k /\ x[2] = f /\ x[3] = i)
        BY <2>1 DEF Writes
    <2>4. Img(big, big[x[1][2]].f[x[2]][x[3]])
        BY <1>2, <2>1, <2>2, <2>3 DEF Img
    <2> QED
        BY <2>1, <2>2, <2>4 DEF Alike
<1>7. S \subseteq T(S)
    OBVIOUS
<1>8. Waits(Tail(todo), T(S))
    <2> HIDE DEF T
    <2> QED
        BY <1>1, <1>3, <1>5, <1>7, WaitsTail
<1>9. Moved(big, T(S))
    <2> HIDE DEF T
    <2> QED
        BY <1>6 DEF Moved
<1>10. ASSUME NEW n \in DOMAIN image, image[n].kind = "classes",
              NEW h \in DOMAIN image[n].f.val
       PROVE  big[n].f.val[h] # Null
    <2>1. image[n].f.val[h] # Null /\ "val" \in DOMAIN image[n].f
        BY <1>10 DEF TypeInv, NoHoles, Blocks, BlockOf, Shaped, Tables
    <2>2. \/ big[n].f.val[h] = image[n].f.val[h]
          \/ n = k /\ f = "val" /\ big[n].f.val[h] = q
        BY <2>1 DEF Writes
    <2>3. q[1] = "img" => q # Null
        BY DEF Null
    <2> QED
        BY <1>2, <1>10, <2>1, <2>2, <2>3
<1> QED
    BY <1>8, <1>9, <1>10

-------------------------------------------------------------------------------
\* The steps of calc.
LEMMA StartsCalc ==
    ASSUME TypeInv, StartCalc
    PROVE  TypeInv'
<1>1. /\ pass = "start" /\ pass' = "calc" /\ counted' = 1
      /\ todo' = Of(<<"src", "script">>, CalcSlots(src["script"]))
      /\ src' = src /\ xlat' = xlat /\ image' = image /\ pool' = pool
    BY DEF StartCalc
<1>2. /\ "script" \in DOMAIN src /\ Shaped(src["script"])
      /\ Its(src, image, <<"src", "script">>) = src["script"]
      /\ OwnerFine("calc", src, image, <<"src", "script">>)
    BY DEF TypeInv, IsGraph, Its, OwnerFine, Tag
<1>3. Loose(src["script"], CalcSlots(src["script"]))
    BY <1>2, CalcIs, FineIsLoose
<1>4. Entries("calc", src, image, todo')
    BY <1>1, <1>2, <1>3, EntriesOf
<1>5. Values("calc", src, image, pool)
    BY <1>1 DEF TypeInv, Values, MayHold
<1>6. XlatFine("calc", image, pool, xlat)
    BY <1>1 DEF TypeInv, XlatFine
<1> QED
    BY <1>1, <1>4, <1>5, <1>6 DEF TypeInv, Passes

LEMMA Skips ==
    ASSUME TypeInv, todo # <<>>, Skip, pass # "persist",
           UNCHANGED <<src, pass, xlat, counted, image, pool>>
    PROVE  TypeInv'
<1>1. /\ todo' = Tail(todo) /\ pass \notin {"start", "loaded"}
      /\ src' = src /\ pass' = pass /\ xlat' = xlat /\ counted' = counted
      /\ image' = image /\ pool' = pool
    BY DEF Skip, TypeInv
<1>2. Entries(pass, src, image, Tail(todo))
    BY HeadIs
<1> QED
    BY <1>1, <1>2 DEF TypeInv

LEMMA Counts ==
    ASSUME TypeInv, At("calc"), P # Null, Count(P),
           UNCHANGED <<src, pass, image, pool>>, xlat' = xlat \/ Register(P, P)
    PROVE  TypeInv'
<1>1. /\ pass = "calc" /\ todo # <<>> /\ counted' = counted + 1
      /\ todo' = Of(P, CalcSlots(Obj(P))) \o Tail(todo)
      /\ src' = src /\ pass' = pass /\ image' = image /\ pool' = pool
    BY DEF At, Count, Descend
<1>2. SrcPtr(src, P) /\ Obj(P) = src[P[2]] /\ Shaped(Obj(P))
    BY <1>1, HeadIs
<1>3. OwnerFine("calc", src, image, P) /\ Obj(P) = Its(src, image, P)
    BY <1>2 DEF SrcPtr, OwnerFine, Tag, Its
<1>4. Loose(Obj(P), CalcSlots(Obj(P)))
    BY <1>2, CalcIs, FineIsLoose
<1>5. Entries("calc", src, image, todo)
    BY <1>1 DEF TypeInv
<1>6. Entries("calc", src, image, todo')
    BY <1>1, <1>3, <1>4, <1>5, EntriesDescend
<1>7. \A p \in DOMAIN xlat' : xlat'[p] = p
    BY <1>1 DEF TypeInv, XlatFine, Register
<1> QED
    BY <1>1, <1>6, <1>7 DEF TypeInv, XlatFine

-------------------------------------------------------------------------------
\* The steps of persist.
LEMMA PersistModes ==
    ASSUME NEW o, Shaped(o)
    PROVE  /\ Loose(o, PersistSlots(o))
           /\ \A x \in Range(PersistSlots(o)) : ModeFits(o, x[1], x[3])
BY PersistIs, FineIsLoose DEF PersistFine, SlotFine

LEMMA AlikeModes ==
    ASSUME NEW o, NEW b, Alike(b, o), NEW s, Loose(o, s)
    PROVE  /\ Loose(b, s)
           /\ (\A x \in Range(s) : ModeFits(o, x[1], x[3])) =>
                  \A x \in Range(s) : ModeFits(b, x[1], x[3])
BY DEF Alike, Loose, Within, ModeFits, Owning

LEMMA StartsPersist ==
    ASSUME TypeInv, StartPersist
    PROVE  TypeInv'
<1> DEFINE o == src["script"]
           b == [kind |-> "script", of |-> <<"src", "script">>, f |-> o.f]
           p == <<"img", 1>>
<1>1. /\ pass = "calc" /\ pass' = "persist" /\ xlat' = <<>> /\ image' = <<b>>
      /\ todo' = Of(p, PersistSlots(o))
      /\ src' = src /\ counted' = counted /\ pool' = pool
    BY DEF StartPersist
<1>2. "script" \in DOMAIN src /\ Shaped(o) /\ o.kind = "script"
    BY DEF TypeInv, IsGraph
<1>3. /\ DOMAIN b = {"kind", "of", "f"} /\ b.kind = "script" /\ b.f = o.f
      /\ b.of = <<"src", "script">> /\ Alike(b, o)
    BY <1>2 DEF Alike
<1>4. BlockOf(src, b)
    <2>1. Shaped(b) /\ b.of[2] = "script" /\ SrcPtr(src, b.of)
        BY <1>2, <1>3 DEF Shaped, SrcPtr
    <2> QED
        BY <2>1, <1>3 DEF BlockOf
<1> HIDE DEF b
<1>5. DOMAIN image' = {1} /\ image'[1] = b /\ IsSeq(image')
    <2>1. DOMAIN image' = {1} /\ image'[1] = b /\ image' \in Seq({b})
        BY <1>1
    <2> QED
        BY <2>1, SeqIsSeq
<1>6. Blocks(src, image')
    BY <1>4, <1>5 DEF Blocks
<1>7. Values("persist", src, image', pool)
    BY <1>2, <1>3, <1>5 DEF Values, MayHold, TypeInv, IsGraph
<1>8. OwnerFine("persist", src, image', p) /\ Its(src, image', p) = b
    BY <1>5 DEF OwnerFine, Its, Tag
<1> HIDE DEF o, p
<1>9. Entries("persist", src, image', todo')
    BY <1>1, <1>2, <1>3, <1>8, PersistModes, AlikeModes, EntriesOf
<1>10. Waits(todo', {}) /\ Moved(image', {})
    BY <1>1, <1>2, PersistIs, WaitsOf DEF Moved
<1>11. NoHoles(image')
    BY <1>3, <1>5 DEF NoHoles
<1>12. XlatFine("persist", image', pool, xlat')
    BY <1>1 DEF XlatFine
<1> QED
    BY <1>1, <1>5, <1>6, <1>7, <1>9, <1>10, <1>11, <1>12 DEF TypeInv, Passes

LEMMA NullSkips ==
    ASSUME TypeInv, PersistNull
    PROVE  TypeInv'
<1>1. /\ todo # <<>> /\ pass = "persist" /\ P = Null /\ todo' = Tail(todo)
      /\ src' = src /\ pass' = pass /\ xlat' = xlat /\ counted' = counted
      /\ image' = image /\ pool' = pool
    BY DEF PersistNull, At, Skip
<1>2. /\ Entries(pass, src, image, Tail(todo)) /\ IsSeq(todo)
      /\ Owner[2] \in DOMAIN image
      /\ Head(todo)[3] \in DOMAIN image[Owner[2]].f[Head(todo)[2]]
      /\ P = image[Owner[2]].f[Head(todo)[2]][Head(todo)[3]]
    BY <1>1, HeadIs
<1>3. PICK S : Waits(todo, S) /\ Moved(image, S)
    BY <1>1 DEF TypeInv
<1>4. ASSUME NEW e \in Range(todo), e[4] = "update",
             Head(todo) = <<e[1], e[2], e[3], "once">>
      PROVE  FALSE
    <2>1. image[e[1][2]].kind = "classes" /\ e[2] = "val"
        BY <1>1, <1>4 DEF TypeInv, Entries, Entry, ModeFits
    <2>2. Owner = e[1] /\ Head(todo)[2] = "val" /\ image[Owner[2]].kind = "classes"
        BY <2>1, <1>4 DEF Owner
    <2>3. P # Null
        BY <1>1, <1>2, <2>2 DEF TypeInv, NoHoles
    <2> QED
        BY <1>1, <2>3
<1>5. Waits(Tail(todo), S)
    BY <1>1, <1>2, <1>3, <1>4, WaitsTail
<1> QED
    BY <1>1, <1>2, <1>3, <1>5 DEF TypeInv

\* A slot gets the value of the xlat table or none, and maybe what it leads to is gone
\* through once more.
LEMMA Translates ==
    ASSUME TypeInv, At("persist"), NEW q, image' = Set(image, q),
           Img(image, q) \/ (Mode \in {"xlat", "patch", "zval"} /\ q \in {Null, P}),
           UNCHANGED <<src, pass, xlat, counted, pool>>,
           \/ todo' = Tail(todo)
           \/ Img(image, q) /\ todo' = Of(q, PersistSlots(Obj(q))) \o Tail(todo)
    PROVE  TypeInv'
<1>1. /\ pass = "persist" /\ todo # <<>>
      /\ src' = src /\ pass' = pass /\ xlat' = xlat /\ counted' = counted /\ pool' = pool
    BY DEF At
<1>2. MayHold("persist", src, image, pool, P)
    BY <1>1, HeadIs
<1>3. MayHold("persist", src, image, pool, q)
    BY <1>2 DEF MayHold
<1>4. Len(pool) \in Nat
    BY IsSeqParts DEF TypeInv
<1>5. /\ Blocks(src, image') /\ Grows(image, image') /\ DOMAIN image' = DOMAIN image
      /\ Values("persist", src, image', pool)
      /\ Entries("persist", src, image', Tail(todo))
      /\ Writes(image, image', Owner[2], Head(todo)[2], Head(todo)[3], q)
    BY <1>1, <1>3, <1>4, SetStep
<1>6. /\ \E S : Waits(Tail(todo), S) /\ Moved(image', S)
      /\ \A k \in DOMAIN image : image[k].kind = "classes" =>
            \A i \in DOMAIN image[k].f.val : image'[k].f.val[i] # Null
    <2>1. (q[1] = "img" /\ q[2] \in DOMAIN image') \/ Mode \in {"xlat", "patch", "zval"}
        BY <1>5 DEF Img
    <2> QED
        BY <1>1, <1>5, <2>1, PersistSet
<1>7. NoHoles(image')
    <2> SUFFICES ASSUME NEW k \in DOMAIN image', image'[k].kind = "classes",
                        NEW i \in DOMAIN image'[k].f.val
                 PROVE  image'[k].f.val[i] # Null
        BY DEF NoHoles
    <2>1. k \in DOMAIN image /\ image[k].kind = "classes" /\ Alike(image'[k], image[k])
        BY <1>5 DEF Grows, Alike
    <2>2. i \in DOMAIN image[k].f.val
        BY <2>1 DEF TypeInv, Blocks, BlockOf, Shaped, Tables, Alike
    <2> QED
        BY <2>1, <2>2, <1>6
<1>8. XlatFine("persist", image', pool, xlat)
    BY <1>1, <1>5 DEF TypeInv, XlatFine, Img
<1>9. CASE todo' = Tail(todo)
    BY <1>1, <1>5, <1>6, <1>7, <1>8, <1>9 DEF TypeInv
<1>10. CASE Img(image, q) /\ todo' = Of(q, PersistSlots(Obj(q))) \o Tail(todo)
    <2> DEFINE o == image[q[2]]
               s == PersistSlots(o)
    <2>1. /\ OwnerFine("persist", src, image', q) /\ Its(src, image', q) = image'[q[2]]
          /\ Obj(q) = o /\ Shaped(o) /\ Alike(image'[q[2]], o)
        BY <1>5, <1>10 DEF Img, OwnerFine, Tag, Its, Obj, TypeInv, Blocks, BlockOf, Grows
    <2>2. Loose(o, s) /\ PersistFine(o, s) /\ \A x \in Range(s) : ModeFits(o, x[1], x[3])
        BY <2>1, PersistModes, PersistIs
    <2> HIDE DEF o, s
    <2>3. Loose(image'[q[2]], s) /\ \A x \in Range(s) : ModeFits(image'[q[2]], x[1], x[3])
        BY <2>1, <2>2, AlikeModes
    <2>4. Entries("persist", src, image', Of(q, s)) /\ IsSeq(Of(q, s))
        BY <2>1, <2>3, EntriesOf
    <2>5. Entries("persist", src, image', todo')
        BY <2>1, <2>4, <1>5, <1>10, EntriesBoth DEF s
    <2>6. PICK S : Waits(Tail(todo), S) /\ Moved(image', S)
        BY <1>6
    <2>7. Waits(Of(q, s), S) /\ IsSeq(Tail(todo))
        BY <1>5, <2>2, WaitsOf DEF Entries
    <2>8. Waits(todo', S)
        BY <2>1, <2>4, <2>6, <2>7, <1>10, WaitsBoth DEF s
    <2> QED
        BY <1>1, <1>5, <1>7, <1>8, <2>5, <2>6, <2>8 DEF TypeInv
<1> QED
    BY <1>9, <1>10

LEMMA CopyIs ==
    ASSUME TypeInv, At("persist"), P # Null, Mode \in Copying, Copy
    PROVE  LET k == Len(image) + 1 IN
           /\ Blocks(src, image') /\ Grows(image, image') /\ Values("persist", src, image', pool)
           /\ k \notin DOMAIN image /\ DOMAIN image' = DOMAIN image \cup {k}
           /\ Len(image') = Len(image) + 1 /\ Len(image) \in Nat
           /\ Writes(image, image', Owner[2], Head(todo)[2], Head(todo)[3], <<"img", k>>)
           /\ Entries("persist", src, image', todo') /\ NoHoles(image')
           /\ \E S : Waits(todo', S) /\ Moved(image', S)
           /\ image'[k].of = Origin(P) /\ image'[k].f = Obj(P).f
           /\ PersistFine(Obj(P), PersistSlots(Obj(P)))
<1> DEFINE k == Len(image) + 1
           q == <<"img", k>>
           mid == Set(image, q)
           o == Obj(P)
           b == [kind |-> Kind(P), of |-> Origin(P), f |-> o.f]
           s == PersistSlots(o)
<1>1. /\ pass = "persist" /\ todo # <<>> /\ image' = Append(mid, b)
      /\ todo' = Of(q, s) \o Tail(todo)
    BY DEF At, Copy, Descend
<1>2. SrcPtr(src, P) \/ Img(image, P)
    BY <1>1, HeadIs DEF MayHold
<1>3. /\ b.kind = Kind(P) /\ b.of = Origin(P) /\ b.f = o.f
      /\ DOMAIN b = {"kind", "of", "f"}
    OBVIOUS
<1>4. /\ Shaped(o) /\ o.kind = Kind(P) /\ SrcPtr(src, Origin(P))
      /\ Alike(o, src[Origin(P)[2]])
      /\ \A f \in DOMAIN o.f : \A i \in DOMAIN o.f[f] :
            MayHold("persist", src, image, pool, o.f[f][i])
      /\ o.kind = "classes" => \A i \in DOMAIN o.f.val : o.f.val[i] # Null
    <2>1. CASE SrcPtr(src, P)
        <3>1. /\ P[1] = "src" /\ P[2] \in DOMAIN src /\ o = src[P[2]] /\ Origin(P) = P
              /\ Kind(P) = o.kind
            BY <2>1 DEF SrcPtr, Obj, Origin, Kind, IsBlock
        <3> QED
            BY <2>1, <3>1 DEF TypeInv, IsGraph, MayHold, Alike
    <2>2. CASE Img(image, P)
        <3>1. /\ P[1] = "img" /\ P[2] \in DOMAIN image /\ o = image[P[2]]
              /\ Origin(P) = image[P[2]].of /\ Kind(P) = o.kind
            BY <2>2 DEF Img, Obj, Origin, Kind, IsBlock
        <3> QED
            BY <3>1, <1>1 DEF TypeInv, Blocks, BlockOf, Values, NoHoles
    <2> QED
        BY <1>2, <2>1, <2>2
<1> HIDE DEF o
<1> HIDE DEF b
<1>5. Alike(b, o) /\ Shaped(b) /\ BlockOf(src, b)
    BY <1>3, <1>4 DEF Alike, Shaped, BlockOf
<1>6. /\ Owner[2] \in DOMAIN image /\ Head(todo)[2] \in DOMAIN image[Owner[2]].f
      /\ Head(todo)[3] \in DOMAIN image[Owner[2]].f[Head(todo)[2]]
      /\ IsSeq(todo) /\ Entries("persist", src, image, Tail(todo))
    BY <1>1, HeadIs
<1>7. mid = Put(image, Owner[2], Head(todo)[2], Head(todo)[3], q)
    BY DEF Set, Put
<1>8. Blocks(src, image) /\ Values("persist", src, image, pool) /\ NoHoles(image)
    BY <1>1 DEF TypeInv
<1>9. DOMAIN image = 1 .. Len(image) /\ Len(image) \in Nat
    BY <1>8, IsSeqParts DEF Blocks
<1> HIDE DEF mid, q
<1>10. /\ Blocks(src, mid) /\ Grows(image, mid) /\ DOMAIN mid = DOMAIN image
       /\ Len(mid) = Len(image)
       /\ Writes(image, mid, Owner[2], Head(todo)[2], Head(todo)[3], q)
    BY <1>6, <1>7, <1>8, SetIs
<1>11. Blocks(src, image') /\ Grows(mid, image')
    BY <1>1, <1>5, <1>10, BlocksAppend
<1>12. Grows(image, image')
    BY <1>10, <1>11, GrowsIs
<1>13. /\ DOMAIN image' = DOMAIN image \cup {k} /\ k \notin DOMAIN image
       /\ Len(image') = Len(image) + 1
       /\ image'[k] = b /\ \A j \in DOMAIN image : image'[j] = mid[j]
    BY <1>1, <1>9, <1>10, AppendIs DEF Blocks
<1> HIDE DEF k
<1>14. Writes(image, image', Owner[2], Head(todo)[2], Head(todo)[3], q)
    BY <1>10, <1>13 DEF Writes
<1>15. q[1] = "img" /\ q[2] = k /\ Img(image', q)
    BY <1>13 DEF q, Img
<1>16. \A v : MayHold("persist", src, image, pool, v) => MayHold("persist", src, image', pool, v)
    BY <1>12 DEF MayHold, Grows, Img
<1>17. Values("persist", src, image', pool)
    <2> SUFFICES ASSUME NEW j \in DOMAIN image', NEW f \in DOMAIN image'[j].f,
                        NEW i \in DOMAIN image'[j].f[f]
                 PROVE  MayHold("persist", src, image', pool, image'[j].f[f][i])
        BY DEF Values
    <2>1. CASE j = k
        BY <2>1, <1>3, <1>4, <1>13, <1>16
    <2>2. CASE j # k
        <3>1. j \in DOMAIN image /\ f \in DOMAIN image[j].f /\ i \in DOMAIN image[j].f[f]
            BY <2>2, <1>12, <1>13 DEF Grows, Alike
        <3>2. MayHold("persist", src, image', pool, image[j].f[f][i])
            BY <3>1, <1>8, <1>16 DEF Values
        <3>3. image'[j].f[f][i] = q \/ image'[j].f[f][i] = image[j].f[f][i]
            BY <3>1, <1>14 DEF Writes
        <3> QED
            BY <3>2, <3>3, <1>15 DEF MayHold
    <2> QED
        BY <2>1, <2>2
<1>18. PersistFine(o, s)
    BY <1>4, PersistIs
<1>19. Loose(o, s) /\ \A x \in Range(s) : ModeFits(o, x[1], x[3])
    BY <1>4, PersistModes
<1> HIDE DEF s
<1>20. Loose(b, s) /\ \A x \in Range(s) : ModeFits(b, x[1], x[3])
    BY <1>5, <1>19, AlikeModes
<1>21. OwnerFine("persist", src, image', q) /\ Its(src, image', q) = b
    BY <1>13, <1>15 DEF OwnerFine, Its, Tag
<1>22. Entries("persist", src, image', Of(q, s)) /\ IsSeq(Of(q, s))
    BY <1>20, <1>21, EntriesOf
<1>23. Entries("persist", src, image', Tail(todo))
    BY <1>6, <1>12, EntriesGrow
<1>24. Entries("persist", src, image', todo')
    BY <1>1, <1>22, <1>23, EntriesBoth
<1>25. /\ \E S : Waits(Tail(todo), S) /\ Moved(image', S)
       /\ \A j \in DOMAIN image : image[j].kind = "classes" =>
             \A i \in DOMAIN image[j].f.val : image'[j].f.val[i] # Null
    <2>1. (q[1] = "img" /\ q[2] \in DOMAIN image') \/ Mode \in {"xlat", "patch", "zval"}
        BY <1>13, <1>15
    <2> QED
        BY <1>1, <1>12, <1>14, <2>1, PersistSet
<1>26. \E S : Waits(todo', S) /\ Moved(image', S)
    <2>1. PICK S : Waits(Tail(todo), S) /\ Moved(image', S)
        BY <1>25
    <2>2. Waits(Of(q, s), S) /\ IsSeq(Tail(todo))
        BY <1>18, <1>23, WaitsOf DEF Entries
    <2>3. Waits(todo', S)
        BY <1>1, <1>22, <2>1, <2>2, WaitsBoth
    <2> QED
        BY <2>1, <2>3
<1>27. NoHoles(image')
    <2> SUFFICES ASSUME NEW j \in DOMAIN image', image'[j].kind = "classes",
                        NEW i \in DOMAIN image'[j].f.val
                 PROVE  image'[j].f.val[i] # Null
        BY DEF NoHoles
    <2>1. CASE j = k
        BY <2>1, <1>3, <1>4, <1>13
    <2>2. CASE j # k
        <3>1. j \in DOMAIN image /\ Alike(image'[j], image[j])
            BY <2>2, <1>12, <1>13 DEF Grows
        <3>2. image[j].kind = "classes" /\ i \in DOMAIN image[j].f.val
            BY <3>1, <1>8 DEF Alike, Blocks, BlockOf, Shaped, Tables
        <3> QED
            BY <3>1, <3>2, <1>25
    <2> QED
        BY <2>1, <2>2
<1>28. image'[k].of = Origin(P) /\ image'[k].f = Obj(P).f
    BY <1>3, <1>13 DEF o
<1> QED
    BY <1>9, <1>11, <1>12, <1>13, <1>14, <1>17, <1>18, <1>24, <1>26, <1>27, <1>28 DEF k, q, s, o

LEMMA Copies ==
    ASSUME TypeInv, At("persist"), P # Null, Mode \in Copying, Copy,
           UNCHANGED <<src, pass, counted, pool>>,
           xlat' = xlat \/ Register(P, <<"img", Len(image) + 1>>)
    PROVE  TypeInv'
<1> DEFINE k == Len(image) + 1
<1>1. /\ pass = "persist" /\ todo # <<>>
      /\ src' = src /\ pass' = pass /\ counted' = counted /\ pool' = pool
    BY DEF At
<1>2. /\ Blocks(src, image') /\ Grows(image, image') /\ Values("persist", src, image', pool)
      /\ DOMAIN image' = DOMAIN image \cup {k}
      /\ Entries("persist", src, image', todo') /\ NoHoles(image')
      /\ \E S : Waits(todo', S) /\ Moved(image', S)
    BY CopyIs
<1> HIDE DEF k
<1>3. XlatFine("persist", image', pool, xlat')
    <2>1. \A p \in DOMAIN xlat' : \/ xlat'[p] = <<"img", k>>
                                  \/ p \in DOMAIN xlat /\ xlat'[p] = xlat[p]
        BY DEF Register, k
    <2>2. \A p \in DOMAIN xlat : Img(image', xlat[p])
        BY <1>1, <1>2 DEF TypeInv, XlatFine, Img
    <2>3. Img(image', <<"img", k>>)
        BY <1>2 DEF Img
    <2> QED
        BY <2>1, <2>2, <2>3 DEF XlatFine
<1> QED
    BY <1>1, <1>2, <1>3 DEF TypeInv

-------------------------------------------------------------------------------
\* The steps of serialize and unserialize.
LEMMA Relocates ==
    ASSUME TypeInv, todo # <<>>, pass \in {"serialize", "unserialize"}, NEW q,
           image' = Set(image, q), MayHold(pass, src, image, pool', q),
           IsSeq(pool'), Len(pool) <= Len(pool'), UNCHANGED <<src, pass, counted>>,
           XlatFine(pass, image, pool', xlat'),
           NEW p, NEW s,
           \/ todo' = Tail(todo)
           \/ /\ OwnerFine(pass, src, image, p) /\ Loose(image[p[2]], s)
              /\ todo' = Of(p, s) \o Tail(todo)
    PROVE  TypeInv'
<1>1. src' = src /\ pass' = pass /\ counted' = counted /\ pass \notin {"calc", "persist"}
    OBVIOUS
<1>2. Len(pool) \in Nat /\ Len(pool') \in Nat
    BY IsSeqParts DEF TypeInv
<1>3. /\ Blocks(src, image') /\ Grows(image, image') /\ DOMAIN image' = DOMAIN image
      /\ Values(pass, src, image', pool') /\ Entries(pass, src, image', Tail(todo))
    BY <1>1, <1>2, SetStep
<1>4. XlatFine(pass, image', pool', xlat')
    BY <1>1 DEF XlatFine
<1>5. CASE todo' = Tail(todo)
    BY <1>1, <1>3, <1>4, <1>5 DEF TypeInv
<1>6. CASE /\ OwnerFine(pass, src, image, p) /\ Loose(image[p[2]], s)
           /\ todo' = Of(p, s) \o Tail(todo)
    <2>1. OwnerFine(pass, src, image', p) /\ p[2] \in DOMAIN image
        BY <1>1, <1>3, <1>6 DEF OwnerFine
    <2>2. Its(src, image', p) = image'[p[2]] /\ Alike(image'[p[2]], image[p[2]])
        BY <1>1, <1>3, <2>1, OwnerIs DEF Grows
    <2>3. Loose(image'[p[2]], s)
        BY <1>6, <2>2 DEF Loose, Within, Alike
    <2>4. Entries(pass, src, image', Of(p, s))
        BY <1>1, <2>1, <2>2, <2>3, EntriesOf
    <2>5. Entries(pass, src, image', todo')
        BY <1>3, <1>6, <2>4, EntriesBoth
    <2> QED
        BY <1>1, <1>3, <1>4, <2>5 DEF TypeInv
<1> QED
    BY <1>5, <1>6

LEMMA StartsRelocating ==
    ASSUME TypeInv, StartSerialize \/ StartUnserialize
    PROVE  TypeInv'
<1> DEFINE s == IF pass = "persist" THEN SerializeSlots(image[1]) ELSE UnserializeSlots(image[1])
           p == IF pass = "persist" THEN <<"img", 1>> ELSE <<"mem", 1>>
<1>1. /\ \/ pass = "persist" /\ pass' = "serialize"
         \/ pass = "serialize" /\ pass' = "unserialize"
      /\ xlat' = <<>> /\ todo' = Of(p, s)
      /\ src' = src /\ counted' = counted /\ image' = image /\ pool' = pool
    BY DEF StartSerialize, StartUnserialize
<1>2. 1 \in DOMAIN image /\ Shaped(image[1])
    BY <1>1 DEF TypeInv, Blocks, BlockOf
<1>3. Loose(image[1], s)
    BY <1>2, SerializeIs, UnserializeIs
<1>4. OwnerFine(pass', src, image, p) /\ Its(src, image, p) = image[1] /\ pass' # "persist"
    BY <1>1, <1>2 DEF OwnerFine, Tag, Its
<1> HIDE DEF p, s
<1>5. Entries(pass', src, image, todo')
    BY <1>1, <1>3, <1>4, EntriesOf
<1>6. Values(pass', src, image, pool)
    BY <1>4 DEF TypeInv, Values, MayHold
<1>7. XlatFine(pass', image, pool, xlat')
    BY <1>1 DEF XlatFine
<1> QED
    BY <1>1, <1>2, <1>4, <1>5, <1>6, <1>7 DEF TypeInv, Passes

LEMMA BlockSlots ==
    ASSUME TypeInv, NEW k \in DOMAIN image
    PROVE  Loose(image[k], SerializeSlots(image[k])) /\ Loose(image[k], UnserializeSlots(image[k]))
BY SerializeIs, UnserializeIs DEF TypeInv, Blocks, BlockOf

LEMMA Serializes ==
    ASSUME TypeInv, SerializeInterned \/ SerializePtr \/ SerializeNext
    PROVE  TypeInv'
<1>1. /\ pass = "serialize" /\ todo # <<>>
      /\ src' = src /\ pass' = pass /\ counted' = counted
    BY DEF SerializeInterned, SerializePtr, SerializeNext, At
<1>2. /\ MayHold("serialize", src, image, pool, P) /\ Owner[2] \in DOMAIN image
      /\ XlatFine("serialize", image, pool, xlat) /\ IsSeq(pool) /\ Len(pool) \in Nat
      /\ DOMAIN image = 1 .. Len(image) /\ Len(image) \in Nat
    BY <1>1, HeadIs, IsSeqParts DEF TypeInv, Blocks
<1>3. MayHold("serialize", src, image, pool, Wild)
    BY DEF MayHold
<1>4. CASE SerializeInterned
    <2>1. todo' = Tail(todo)
        BY <1>4 DEF SerializeInterned, Skip
    <2>2. CASE P \in DOMAIN xlat
        <3>1. image' = Set(image, xlat[P]) /\ xlat' = xlat /\ pool' = pool
            BY <1>4, <2>2 DEF SerializeInterned
        <3>2. MayHold("serialize", src, image, pool, xlat[P])
            BY <1>2, <2>2 DEF XlatFine, MayHold
        <3> QED
            BY <1>1, <1>2, <2>1, <3>1, <3>2, Relocates
    <2>3. CASE P \notin DOMAIN xlat /\ P[1] = "img"
        <3>1. /\ image' = Set(image, <<"pool", Len(pool)>>)
              /\ xlat' = [r \in DOMAIN xlat \cup {P} |->
                             IF r = P THEN <<"pool", Len(pool)>> ELSE xlat[r]]
              /\ pool' = Append(pool, Origin(P))
            BY <1>4, <2>3 DEF SerializeInterned, Register
        <3>2. IsSeq(pool') /\ Len(pool') = Len(pool) + 1
            BY <1>2, <3>1, AppendIs
        <3>3. Len(pool) \in 0 .. Len(pool') - 1 /\ 0 .. Len(pool) - 1 \subseteq 0 .. Len(pool') - 1
            BY <1>2, <3>2
        <3>4. MayHold("serialize", src, image, pool', <<"pool", Len(pool)>>)
            BY <3>3 DEF MayHold
        <3>5. XlatFine("serialize", image, pool', xlat')
            BY <1>2, <3>1, <3>3 DEF XlatFine
        <3>6. Len(pool) <= Len(pool')
            BY <1>2, <3>2
        <3> QED
            BY <1>1, <2>1, <3>1, <3>2, <3>4, <3>5, <3>6, Relocates
    <2>4. CASE P \notin DOMAIN xlat /\ P[1] # "img"
        <3>1. image' = Set(image, Wild) /\ xlat' = xlat /\ pool' = pool
            BY <1>4, <2>4 DEF SerializeInterned
        <3> QED
            BY <1>1, <1>2, <1>3, <2>1, <3>1, Relocates
    <2> QED
        BY <2>2, <2>3, <2>4
<1>5. CASE SerializePtr
    <2>1. xlat' = xlat /\ pool' = pool
        BY <1>5 DEF SerializePtr
    <2>2. CASE P[1] = "img"
        <3> DEFINE s == SerializeSlots(Obj(P))
                   q == <<"off", P[2]>>
        <3>1. /\ image' = Set(image, q)
              /\ todo' = Tail(todo) \/ todo' = Of(P, s) \o Tail(todo)
            BY <1>5, <2>2 DEF SerializePtr, Skip, Descend
        <3>2. P[2] \in DOMAIN image /\ Obj(P) = image[P[2]]
            BY <1>2, <2>2 DEF MayHold, Null, Wild, SrcPtr, Img, Obj
        <3>3. /\ MayHold("serialize", src, image, pool, q)
              /\ OwnerFine("serialize", src, image, P) /\ Loose(image[P[2]], s)
            BY <2>2, <3>2, BlockSlots DEF MayHold, OwnerFine, Tag
        <3>4. Len(pool) <= Len(pool)
            BY <1>2
        <3> HIDE DEF s, q
        <3> QED
            BY <1>1, <1>2, <2>1, <3>1, <3>3, <3>4, Relocates
    <2>3. CASE P[1] # "img"
        <3>1. image' = Set(image, Wild) /\ todo' = Tail(todo)
            BY <1>5, <2>3 DEF SerializePtr, Skip
        <3> QED
            BY <1>1, <1>2, <1>3, <2>1, <3>1, Relocates
    <2> QED
        BY <2>2, <2>3
<1>6. CASE SerializeNext
    <2> DEFINE k == Owner[2] + 1
               s == SerializeSlots(image[k])
               p == <<"img", k>>
               q == <<"off", k>>
    <2>1. /\ Owner[2] < Len(image) /\ image' = Set(image, q)
          /\ todo' = Of(p, s) \o Tail(todo) /\ xlat' = xlat /\ pool' = pool
        BY <1>6 DEF SerializeNext, Descend
    <2>2. k \in DOMAIN image
        BY <1>2, <2>1
    <2>3. /\ MayHold("serialize", src, image, pool, q)
          /\ OwnerFine("serialize", src, image, p) /\ Loose(image[p[2]], s)
        BY <2>2, BlockSlots DEF MayHold, OwnerFine, Tag
    <2>4. Len(pool) <= Len(pool)
        BY <1>2
    <2> HIDE DEF k, s, p, q
    <2> QED
        BY <1>1, <1>2, <2>1, <2>3, <2>4, Relocates
<1> QED
    BY <1>4, <1>5, <1>6

LEMMA Unserializes ==
    ASSUME TypeInv, UnserializeInterned \/ UnserializePtr \/ UnserializeNext
    PROVE  TypeInv'
<1>1. /\ pass = "unserialize" /\ todo # <<>>
      /\ src' = src /\ pass' = pass /\ counted' = counted /\ xlat' = xlat /\ pool' = pool
    BY DEF UnserializeInterned, UnserializePtr, UnserializeNext, At
<1>2. /\ MayHold("unserialize", src, image, pool, P) /\ Owner[2] \in DOMAIN image
      /\ XlatFine("unserialize", image, pool, xlat) /\ IsSeq(pool) /\ Len(pool) \in Nat
      /\ DOMAIN image = 1 .. Len(image) /\ Len(image) \in Nat
    BY <1>1, HeadIs, IsSeqParts DEF TypeInv, Blocks
<1>3. \A n : MayHold("unserialize", src, image, pool, <<"interned", n>>)
    BY DEF MayHold
<1>4. CASE UnserializeInterned
    <2>1. /\ todo' = Tail(todo) /\ P # Null /\ IsSerialized(P)
          /\ image' = Set(image, IF P[1] = "pool" THEN <<"interned", pool[P[2] + 1]>>
                                                  ELSE <<"mem", P[2]>>)
        BY <1>4 DEF UnserializeInterned, Skip
    <2>2. CASE P[1] = "pool"
        <3>1. image' = Set(image, <<"interned", pool[P[2] + 1]>>)
            BY <2>1, <2>2
        <3> QED
            BY <1>1, <1>2, <1>3, <2>1, <3>1, Relocates
    <2>3. CASE P[1] # "pool"
        <3>1. image' = Set(image, <<"mem", P[2]>>)
            BY <2>1, <2>3
        <3>2. P[2] \in DOMAIN image
            BY <1>2, <2>1, <2>3 DEF IsSerialized, MayHold, SrcPtr, Img, Null, Wild
        <3>3. MayHold("unserialize", src, image, pool, <<"mem", P[2]>>)
            BY <3>2 DEF MayHold
        <3> QED
            BY <1>1, <1>2, <2>1, <3>1, <3>3, Relocates
    <2> QED
        BY <2>2, <2>3
<1>5. CASE UnserializePtr
    <2>2. CASE P[1] = "off"
        <3> DEFINE s == UnserializeSlots(Obj(P))
                   p == <<"mem", P[2]>>
        <3>1. /\ image' = Set(image, p)
              /\ todo' = Tail(todo) \/ todo' = Of(p, s) \o Tail(todo)
            BY <1>5, <2>2 DEF UnserializePtr, Skip, Descend
        <3>2. P[2] \in DOMAIN image /\ Obj(P) = image[P[2]]
            BY <1>2, <2>2 DEF MayHold, Null, Wild, SrcPtr, Img, Obj
        <3>3. /\ MayHold("unserialize", src, image, pool, p)
              /\ OwnerFine("unserialize", src, image, p) /\ Loose(image[p[2]], s)
            BY <2>2, <3>2, BlockSlots DEF MayHold, OwnerFine, Tag
        <3> HIDE DEF s, p
        <3> QED
            BY <1>1, <1>2, <3>1, <3>3, Relocates
    <2>3. CASE P[1] # "off"
        <3>1. image' = Set(image, Wild) /\ todo' = Tail(todo)
            BY <1>5, <2>3 DEF UnserializePtr, Skip
        <3>2. MayHold("unserialize", src, image, pool, Wild)
            BY DEF MayHold
        <3> QED
            BY <1>1, <1>2, <3>1, <3>2, Relocates
    <2> QED
        BY <2>2, <2>3
<1>6. CASE UnserializeNext
    <2> DEFINE k == Owner[2] + 1
               s == UnserializeSlots(image[k])
               p == <<"mem", k>>
    <2>1. /\ Owner[2] < Len(image) /\ image' = Set(image, p)
          /\ todo' = Of(p, s) \o Tail(todo)
        BY <1>6 DEF UnserializeNext, Descend
    <2>2. k \in DOMAIN image
        BY <1>2, <2>1
    <2>3. /\ MayHold("unserialize", src, image, pool, p)
          /\ OwnerFine("unserialize", src, image, p) /\ Loose(image[p[2]], s)
        BY <2>2, BlockSlots DEF MayHold, OwnerFine, Tag
    <2>4. Len(pool) <= Len(pool)
        BY <1>2
    <2> HIDE DEF k, p, s
    <2> QED
        BY <1>1, <1>2, <2>1, <2>3, <2>4, Relocates
<1> QED
    BY <1>4, <1>5, <1>6

-------------------------------------------------------------------------------
LEMMA TypeInit == Init => TypeInv
<1> SUFFICES ASSUME Init PROVE TypeInv
    OBVIOUS
<1>1. PICK s \in Scripts : src = s.objects
    BY DEF Init
<1>2. /\ pass = "start" /\ todo = <<>> /\ xlat = <<>> /\ counted = 0 /\ image = <<>>
      /\ pool = <<>>
    BY DEF Init
<1>3. IsSeq(<<>>) /\ DOMAIN <<>> = {} /\ Range(<<>>) = {}
    <2>1. <<>> \in Seq({}) /\ DOMAIN <<>> = {}
        OBVIOUS
    <2> QED
        BY <2>1, SeqIsSeq DEF Range
<1>4. IsGraph(src)
    BY <1>1, ScriptIsGraph
<1> QED
    BY <1>2, <1>3, <1>4 DEF TypeInv, Passes, Blocks, Values, Entries, XlatFine

LEMMA UpdatedIs ==
    ASSUME TypeInv, pass = "persist", todo # <<>>, Mode = "update"
    PROVE  Img(image, P) /\ Obj(P) = image[P[2]] /\ Shaped(Obj(P))
<1>1. PICK S : Waits(todo, S) /\ Moved(image, S)
    BY DEF TypeInv
<1>2. Head(todo) = todo[1] /\ 1 \in DOMAIN todo /\ DOMAIN todo = 1 .. Len(todo)
    BY HeadIs, TailIs, IsSeqParts
<1>3. todo[1][4] = "update" /\ \A a \in DOMAIN todo : ~ (a < 1)
    BY <1>2 DEF Mode
<1>4. <<Owner, Head(todo)[2], Head(todo)[3]>> \in S
    BY <1>1, <1>2, <1>3 DEF Waits, Owner
<1>5. Img(image, P)
    BY <1>1, <1>4, HeadIs DEF Moved
<1>6. Obj(P) = image[P[2]] /\ Shaped(Obj(P))
    BY <1>5 DEF Img, Obj, TypeInv, Blocks, BlockOf
<1> QED
    BY <1>5, <1>6

LEMMA TypeStep == TypeInv /\ [Next]_vars => TypeInv'
<1> SUFFICES ASSUME TypeInv, [Next]_vars PROVE TypeInv'
    OBVIOUS
<1>1. CASE StartCalc
    BY <1>1, StartsCalc
<1>2. CASE CalcKnown
    BY <1>2, Skips DEF CalcKnown, At
<1>3. CASE CalcOnce
    BY <1>3, Counts DEF CalcOnce
<1>4. CASE CalcMark
    BY <1>4, Counts DEF CalcMark
<1>5. CASE CalcEach
    BY <1>5, Counts DEF CalcEach
<1>6. CASE StartPersist
    BY <1>6, StartsPersist
<1>7. CASE PersistNull
    BY <1>7, NullSkips
<1>8. CASE PersistComplexAst
    <2>1. /\ At("persist") /\ Mode = "zval" /\ image' = Set(image, Null) /\ todo' = Tail(todo)
          /\ UNCHANGED <<src, pass, xlat, counted, pool>>
        BY <1>8 DEF PersistComplexAst, Is, Skip
    <2> QED
        BY <2>1, Translates
<1>9. CASE PersistCopy
    <2>1. Mode \in Copying
        BY <1>9 DEF PersistCopy, Shareable, Is, Copying
    <2> QED
        BY <1>9, <2>1, Copies DEF PersistCopy
<1>10. CASE PersistData
    <2>1. Mode \in Copying
        BY <1>10 DEF PersistData, Is, Copying
    <2> QED
        BY <1>10, <2>1, Copies DEF PersistData
<1>11. CASE PersistKnown
    <2>1. /\ At("persist") /\ P \in DOMAIN xlat /\ image' = Set(image, xlat[P])
          /\ \/ todo' = Tail(todo)
             \/ todo' = Of(xlat[P], PersistSlots(Obj(xlat[P]))) \o Tail(todo)
          /\ UNCHANGED <<src, pass, xlat, counted, pool>>
        BY <1>11 DEF PersistKnown, Skip, Descend
    <2>2. Img(image, xlat[P])
        BY <2>1 DEF At, TypeInv, XlatFine
    <2> QED
        BY <2>1, <2>2, Translates
<1>12. CASE PersistTranslate
    <2> DEFINE q == IF P \in DOMAIN xlat THEN xlat[P] ELSE IF Is("xlat") THEN Null ELSE P
    <2>1. /\ At("persist") /\ Mode \in {"xlat", "patch"} /\ image' = Set(image, q)
          /\ todo' = Tail(todo) /\ UNCHANGED <<src, pass, xlat, counted, pool>>
        BY <1>12 DEF PersistTranslate, Skip, Is
    <2>2. Img(image, q) \/ q \in {Null, P}
        BY <2>1 DEF At, TypeInv, XlatFine
    <2> HIDE DEF q
    <2> QED
        BY <2>1, <2>2, Translates
<1>13. CASE PersistUpdate
    <2> DEFINE s == UpdateClass(Obj(P))
    <2>1. /\ pass = "persist" /\ todo # <<>> /\ Mode = "update"
          /\ todo' = Of(P, s) \o Tail(todo)
          /\ src' = src /\ pass' = pass /\ xlat' = xlat /\ counted' = counted
          /\ image' = image /\ pool' = pool
        BY <1>13 DEF PersistUpdate, At, Is, Descend
    <2>2. PICK S : Waits(todo, S) /\ Moved(image, S)
        BY <2>1 DEF TypeInv
    <2>3. IsSeq(todo) /\ Head(todo) = todo[1] /\ 1 \in DOMAIN todo /\ DOMAIN todo = 1 .. Len(todo)
          /\ IsSeq(Tail(todo))
        BY <2>1, HeadIs, TailIs, IsSeqParts
    <2>5. Img(image, P) /\ Obj(P) = image[P[2]] /\ Shaped(Obj(P))
        BY <2>1, UpdatedIs
    <2>6. /\ Obj(P) = image[P[2]] /\ Shaped(Obj(P))
          /\ OwnerFine("persist", src, image, P) /\ Its(src, image, P) = Obj(P)
        BY <2>5 DEF Img, OwnerFine, Tag, Its
    <2>7. Loose(Obj(P), s) /\ \A x \in Range(s) : x[3] = "patch" /\ x[1] \in {"magic", "callstatic"}
        BY <2>6, UpdateIs
    <2> HIDE DEF s
    <2>8. \A x \in Range(s) : ModeFits(Obj(P), x[1], x[3])
        BY <2>7 DEF ModeFits, Copying
    <2>9. Entries("persist", src, image, Of(P, s)) /\ IsSeq(Of(P, s))
        BY <2>6, <2>7, <2>8, EntriesOf
    <2>10. Entries("persist", src, image, todo')
        BY <2>1, <2>9, HeadIs, EntriesBoth
    <2>11. \A e \in Range(Of(P, s)) : e[4] = "patch"
        <3>1. \A e \in Range(Of(P, s)) : \E x \in Range(s) : e = <<P, x[1], x[2], x[3]>>
            BY <2>7, OfIs DEF Loose, Within
        <3> QED
            BY <3>1, <2>7
    <2>12. Waits(Of(P, s), S)
        BY <2>11 DEF Waits, Range
    <2>13. Waits(Tail(todo), S)
        BY <2>1, <2>2, <2>3, WaitsTail DEF Mode
    <2>14. Waits(todo', S)
        BY <2>1, <2>3, <2>9, <2>12, <2>13, WaitsBoth
    <2> QED
        BY <2>1, <2>2, <2>10, <2>14 DEF TypeInv
<1>14. CASE StartSerialize \/ StartUnserialize
    BY <1>14, StartsRelocating
<1>15. CASE SerializeSkip \/ UnserializeSkip
    BY <1>15, Skips DEF SerializeSkip, UnserializeSkip, At
<1>16. CASE SerializeInterned \/ SerializePtr \/ SerializeNext
    BY <1>16, Serializes
<1>17. CASE UnserializeInterned \/ UnserializePtr \/ UnserializeNext
    BY <1>17, Unserializes
<1>18. CASE Loaded
    <2>1. /\ pass = "unserialize" /\ todo = <<>> /\ pass' = "loaded"
          /\ src' = src /\ todo' = todo /\ xlat' = xlat /\ counted' = counted
          /\ image' = image /\ pool' = pool
        BY <1>18 DEF Loaded
    <2>2. Entries("loaded", src, image, <<>>)
        <3>1. <<>> \in Seq({}) /\ DOMAIN <<>> = {}
            OBVIOUS
        <3> QED
            BY <3>1, SeqIsSeq DEF Entries, Range
    <2>3. Values("loaded", src, image, pool) /\ XlatFine("loaded", image, pool, xlat)
        BY <2>1 DEF TypeInv, Values, MayHold, XlatFine
    <2> QED
        BY <2>1, <2>2, <2>3 DEF TypeInv, Passes
<1>19. CASE Finished \/ UNCHANGED vars
    BY <1>19 DEF Finished, vars, TypeInv
<1> QED
    BY <1>1, <1>2, <1>3, <1>4, <1>5, <1>6, <1>7, <1>8, <1>9, <1>10, <1>11, <1>12, <1>13,
       <1>14, <1>15, <1>16, <1>17, <1>18, <1>19 DEF Next

LEMMA Ties ==
    ASSUME NEW p, TieHook(p)
    PROVE  /\ DOMAIN prop_info' \subseteq DOMAIN prop_info \cup {p[2]}
           /\ ~ AtHook => prop_info' = prop_info
           /\ AtHook =>
                 prop_info' = [h \in DOMAIN prop_info \cup {p[2]} |->
                                  IF h = p[2] THEN <<p[1], PropertyOf(Owner[2])>>
                                  ELSE prop_info[h]]
BY DEF TieHook

LEMMA TiedInit == Init => Tied
<1>1. DOMAIN <<>> = {}
    OBVIOUS
<1> QED
    BY <1>1 DEF Init, Tied

LEMMA TiedStep == TypeInv /\ Tied /\ [Next]_vars => Tied'
<1> SUFFICES ASSUME TypeInv, Tied, [Next]_vars PROVE Tied'
    OBVIOUS
<1>1. \A q : DOMAIN Set(image, q) = DOMAIN image
    BY DEF Set
<1>2. DOMAIN prop_info \subseteq DOMAIN image
    BY DEF Tied
<1>3. CASE StartCalc \/ CalcKnown \/ CalcOnce \/ CalcMark \/ CalcEach
    <2>1. /\ pass \in {"start", "calc"} /\ prop_info' = prop_info /\ image' = image
        BY <1>3 DEF StartCalc, CalcKnown, CalcOnce, CalcMark, CalcEach, At
    <2> QED
        BY <2>1 DEF Tied
<1>4. CASE StartPersist
    <2>1. prop_info' = <<>> /\ pass' = "persist"
        BY <1>4 DEF StartPersist, Tied
    <2>2. DOMAIN <<>> = {}
        OBVIOUS
    <2> QED
        BY <2>1, <2>2 DEF Tied
<1>5. ASSUME pass' \notin {"start", "calc"}, DOMAIN image \subseteq DOMAIN image',
             \/ prop_info' = prop_info
             \/ \E p : TieHook(p) /\ p[2] \in DOMAIN image'
      PROVE  Tied'
    BY <1>2, <1>5, Ties DEF Tied
<1>6. CASE PersistNull \/ PersistUpdate \/ SerializeSkip \/ UnserializeSkip
              \/ StartSerialize \/ StartUnserialize \/ Loaded
    <2>1. pass' \notin {"start", "calc"} /\ image' = image /\ prop_info' = prop_info
        BY <1>6 DEF PersistNull, PersistUpdate, SerializeSkip, UnserializeSkip, StartSerialize,
           StartUnserialize, Loaded, At
    <2> QED
        BY <1>5, <2>1
<1>7. CASE PersistComplexAst \/ PersistTranslate \/ SerializeInterned \/ SerializePtr
              \/ SerializeNext \/ UnserializeInterned \/ UnserializeNext
    <2>1. /\ pass' \notin {"start", "calc"} /\ prop_info' = prop_info
          /\ \E q : image' = Set(image, q)
        BY <1>7 DEF PersistComplexAst, PersistTranslate, SerializeInterned, SerializePtr,
           SerializeNext, UnserializeInterned, UnserializeNext, At
    <2> QED
        BY <1>1, <1>5, <2>1
<1>8. CASE PersistCopy \/ PersistData
    <2>1. At("persist") /\ P # Null /\ Copy /\ pass' = "persist"
        BY <1>8 DEF PersistCopy, PersistData, At
    <2>2. Mode \in Copying
        BY <1>8 DEF PersistCopy, PersistData, Shareable, Is, Copying
    <2>3. DOMAIN image' = DOMAIN image \cup {Len(image) + 1}
        BY <2>1, <2>2, CopyIs
    <2>4. prop_info' = prop_info \/ TieHook(<<"img", Len(image) + 1>>)
        BY <1>8 DEF PersistCopy, PersistData
    <2> QED
        BY <1>5, <2>1, <2>3, <2>4
<1>9. CASE PersistKnown
    <2>1. /\ pass' = "persist" /\ image' = Set(image, xlat[P]) /\ TieHook(xlat[P])
          /\ pass = "persist" /\ P \in DOMAIN xlat
        BY <1>9 DEF PersistKnown, At
    <2>2. xlat[P][2] \in DOMAIN image
        BY <2>1 DEF TypeInv, XlatFine, Img
    <2> QED
        BY <1>1, <1>5, <2>1, <2>2
<1>10. CASE UnserializePtr
    <2>1. /\ pass' = "unserialize" /\ pass = "unserialize" /\ todo # <<>>
          /\ \E q : image' = Set(image, q)
        BY <1>10 DEF UnserializePtr, At
    <2>2. prop_info' = prop_info \/ (P[1] = "off" /\ TieHook(<<"mem", P[2]>>))
        BY <1>10 DEF UnserializePtr
    <2>3. P[1] = "off" => P[2] \in DOMAIN image
        BY <2>1, HeadIs DEF MayHold, Null, Wild, SrcPtr, Img
    <2> QED
        BY <1>1, <1>5, <2>1, <2>2, <2>3
<1>11. CASE Finished \/ UNCHANGED vars
    BY <1>11 DEF Finished, vars, Tied
<1> QED
    BY <1>3, <1>4, <1>6, <1>7, <1>8, <1>9, <1>10, <1>11 DEF Next

\* No traversal leaves the graph: whatever a slot of the script holds, the structure the
\* next step handles is one that there is, in every pass and for every script.
THEOREM TypeCorrect == Spec => []TypeOK
<1> QED
    BY TypeInit, TypeStep, TypeInvImplies, TiedInit, TiedStep, PTL DEF Spec

-------------------------------------------------------------------------------
\* Nothing has two copies.  While persist runs: a slot waits to be copied once, and holds
\* what the compiler's holds as long as it waits; every block has been reached through a
\* slot that is done; what is not in the xlat table was reached through its owner's.
Owned(objects) ==
    \A n \in DOMAIN objects : \A f \in DOMAIN objects[n].f : \A i \in DOMAIN objects[n].f[f] :
        Owns(objects, n, f, i) =>
            \A m \in DOMAIN objects : \A g \in DOMAIN objects[m].f \ Translated :
                \A j \in DOMAIN objects[m].f[g] :
                    objects[m].f[g][j] = objects[n].f[f][i] => m = n /\ g = f /\ j = i

Once(im) == \A j, k \in DOMAIN im : im[j].of = im[k].of => j = k

Fresh == Copying \cup {"xlat"}
SlotOf(d, e) == d[1][2] = e[1][2] /\ d[2] = e[2] /\ d[3] = e[3]
Single(td) ==
    \A a, b \in DOMAIN td :
        td[a][4] \in Fresh /\ td[b][4] \in Fresh /\ SlotOf(td[a], td[b]) => a = b
Untouched(objects, im, td) ==
    \A e \in Range(td) : e[4] \in Fresh =>
        im[e[1][2]].f[e[2]][e[3]] = objects[im[e[1][2]].of[2]].f[e[2]][e[3]]

\* Block k was made when slot i of field f of block j was handled.
Made(objects, im, xl, k, j, f, i) ==
    /\ f \notin Translated
    /\ objects[im[j].of[2]].f[f][i] = im[k].of /\ im[j].f[f][i] # im[k].of
    /\ im[k].of \in DOMAIN xl \/ Owns(objects, im[j].of[2], f, i)
Reached(objects, im, xl) ==
    \A k \in DOMAIN im \ {1} :
        \E j \in DOMAIN im : \E f \in DOMAIN im[j].f : \E i \in DOMAIN im[j].f[f] :
            Made(objects, im, xl, k, j, f, i)
Registered(im, xl) == \A p \in DOMAIN xl : Img(im, xl[p]) /\ im[xl[p][2]].of = p

CopyInv ==
    /\ TypeInv /\ Owned(src) /\ Once(image)
    /\ pass = "persist" => /\ image[1].of = <<"src", "script">>
                           /\ Single(todo) /\ Untouched(src, image, todo)
                           /\ Reached(src, image, xlat) /\ Registered(image, xlat)

LEMMA SingleTail ==
    ASSUME NEW td, IsSeq(td), td # <<>>, Single(td)
    PROVE  /\ Single(Tail(td))
           /\ \A e \in Range(Tail(td)) :
                 Head(td)[4] \in Fresh /\ e[4] \in Fresh => ~ SlotOf(Head(td), e)
<1>1. /\ Head(td) = td[1] /\ Len(td) \in Nat \ {0} /\ Len(Tail(td)) = Len(td) - 1
      /\ \A i \in 1 .. Len(td) - 1 : Tail(td)[i] = td[i + 1]
      /\ IsSeq(Tail(td)) /\ 1 \in DOMAIN td
    BY TailIs
<1>2. DOMAIN td = 1 .. Len(td) /\ DOMAIN Tail(td) = 1 .. Len(td) - 1
    BY <1>1, IsSeqParts
<1>3. \A i \in DOMAIN Tail(td) : i \in Nat /\ i + 1 \in DOMAIN td /\ i + 1 # 1 /\ Tail(td)[i] = td[i + 1]
    BY <1>1, <1>2
<1>4. Single(Tail(td))
    <2> SUFFICES ASSUME NEW a \in DOMAIN Tail(td), NEW b \in DOMAIN Tail(td),
                        Tail(td)[a][4] \in Fresh, Tail(td)[b][4] \in Fresh,
                        SlotOf(Tail(td)[a], Tail(td)[b])
                 PROVE  a = b
        BY DEF Single
    <2>1. a + 1 = b + 1
        BY <1>3 DEF Single
    <2> QED
        BY <2>1, <1>3
<1>5. ASSUME NEW e \in Range(Tail(td)), Head(td)[4] \in Fresh, e[4] \in Fresh,
             SlotOf(Head(td), e)
      PROVE  FALSE
    <2>1. PICK i \in DOMAIN Tail(td) : e = Tail(td)[i]
        BY DEF Range
    <2> QED
        BY <2>1, <1>1, <1>3, <1>5 DEF Single
<1> QED
    BY <1>4, <1>5

LEMMA SingleBoth ==
    ASSUME NEW s, NEW t, IsSeq(s), IsSeq(t), Single(s), Single(t),
           \A d \in Range(s), e \in Range(t) :
               d[4] \in Fresh /\ e[4] \in Fresh => ~ SlotOf(d, e)
    PROVE  Single(s \o t)
<1> DEFINE u == s \o t
<1>1. /\ IsSeq(u) /\ Len(u) = Len(s) + Len(t)
      /\ \A i \in 1 .. Len(s) : u[i] = s[i]
      /\ \A i \in 1 .. Len(t) : u[Len(s) + i] = t[i]
    BY ConcatIs
<1>2. /\ DOMAIN s = 1 .. Len(s) /\ Len(s) \in Nat
      /\ DOMAIN t = 1 .. Len(t) /\ Len(t) \in Nat /\ DOMAIN u = 1 .. Len(u)
      /\ \A i \in DOMAIN s : s[i] \in Range(s)
      /\ \A i \in DOMAIN t : t[i] \in Range(t)
    BY <1>1, IsSeqParts
<1> HIDE DEF u
<1>3. \A i \in DOMAIN u : \/ i \in DOMAIN s /\ u[i] = s[i]
                          \/ /\ i - Len(s) \in DOMAIN t /\ u[i] = t[i - Len(s)]
                             /\ i = Len(s) + (i - Len(s)) /\ i \notin DOMAIN s
    <2> SUFFICES ASSUME NEW i \in DOMAIN u, i \notin DOMAIN s
                 PROVE  /\ i - Len(s) \in DOMAIN t /\ u[i] = t[i - Len(s)]
                        /\ i = Len(s) + (i - Len(s))
        BY <1>1, <1>2
    <2>1. i - Len(s) \in DOMAIN t /\ i = Len(s) + (i - Len(s))
        BY <1>1, <1>2
    <2> QED
        BY <2>1, <1>1, <1>2
<1> SUFFICES ASSUME NEW a \in DOMAIN u, NEW b \in DOMAIN u, u[a][4] \in Fresh,
                    u[b][4] \in Fresh, SlotOf(u[a], u[b])
             PROVE  a = b
    BY DEF Single, u
<1>4. CASE a \in DOMAIN s /\ b \in DOMAIN s
    BY <1>3, <1>4 DEF Single
<1>5. CASE a \in DOMAIN s /\ b \notin DOMAIN s
    BY <1>2, <1>3, <1>5
<1>6. CASE a \notin DOMAIN s /\ b \in DOMAIN s
    <2>1. SlotOf(u[b], u[a])
        BY DEF SlotOf
    <2> QED
        BY <1>2, <1>3, <1>6, <2>1
<1>7. CASE a \notin DOMAIN s /\ b \notin DOMAIN s
    <2>1. a - Len(s) = b - Len(s)
        BY <1>3, <1>7 DEF Single
    <2> QED
        BY <2>1, <1>3, <1>7
<1> QED
    BY <1>4, <1>5, <1>6, <1>7

LEMMA SingleOf ==
    ASSUME NEW o, NEW s, PersistFine(o, s), NEW p
    PROVE  Single(Of(p, s)) /\ \A e \in Range(Of(p, s)) : e[1] = p
<1>1. /\ DOMAIN Of(p, s) = DOMAIN s
      /\ \A j \in DOMAIN s : Of(p, s)[j] = <<p, s[j][1], s[j][2], s[j][3]>>
    BY OfIs DEF PersistFine, Within
<1> DEFINE t == Of(p, s)
<1> HIDE DEF t
<1>2. \A j \in DOMAIN t : j \in DOMAIN s /\ t[j][1] = p /\ t[j][2] = s[j][1]
                          /\ t[j][3] = s[j][2] /\ t[j][4] = s[j][3]
    BY <1>1 DEF t
<1>3. \A a, b \in DOMAIN t : SlotOf(t[a], t[b]) => SameSlot(s[a], s[b])
    BY <1>2 DEF SlotOf, SameSlot
<1>4. Single(t)
    BY <1>2, <1>3 DEF Single, PersistFine, Fresh, Copying
<1>5. \A e \in Range(t) : e[1] = p
    BY <1>2 DEF Range
<1> QED
    BY <1>4, <1>5 DEF t

\* A slot that waits to be copied leads to something that has no copy, unless others may
\* lead there and the xlat table knows.
LEMMA NoTwin ==
    ASSUME CopyInv, pass = "persist", todo # <<>>, Mode \in Copying, P # Null
    PROVE  /\ SrcPtr(src, P) /\ P # <<"src", "script">>
           /\ src[image[Owner[2]].of[2]].f[Head(todo)[2]][Head(todo)[3]] = P
           /\ Head(todo)[2] \notin Translated
           /\ (P \notin DOMAIN xlat
                 \/ Owns(src, image[Owner[2]].of[2], Head(todo)[2], Head(todo)[3]))
              => \A k \in DOMAIN image : image[k].of # P
<1> DEFINE jo == Owner[2]
           fo == Head(todo)[2]
           io == Head(todo)[3]
           n == image[jo].of[2]
<1>1. TypeInv
    BY DEF CopyInv
<1>2. /\ jo \in DOMAIN image /\ fo \in DOMAIN image[jo].f /\ io \in DOMAIN image[jo].f[fo]
      /\ P = image[jo].f[fo][io] /\ ModeFits(image[jo], fo, Mode) /\ Head(todo) \in Range(todo)
    <2>1. Head(todo) \in Range(todo)
        BY <1>1, HeadIs, TailIs DEF Range
    <2> QED
        BY <1>1, <2>1, HeadIs DEF Entry, Mode, Owner
<1>3. P = src[n].f[fo][io]
    BY <1>2 DEF CopyInv, Untouched, Mode, Owner, Fresh
<1>4. fo \notin Translated
    BY <1>2 DEF ModeFits
<1>5. /\ n \in DOMAIN src /\ image[jo].of = <<"src", n>> /\ Alike(image[jo], src[n])
    <2>1. BlockOf(src, image[jo])
        BY <1>1, <1>2 DEF TypeInv, Blocks
    <2> QED
        BY <2>1 DEF BlockOf, SrcPtr
<1>6. fo \in DOMAIN src[n].f /\ io \in DOMAIN src[n].f[fo]
    BY <1>2, <1>5 DEF Alike
<1>7. SrcPtr(src, P) /\ P # <<"src", "script">>
    BY <1>1, <1>3, <1>5, <1>6 DEF TypeInv, IsGraph
<1>8. ASSUME NEW k \in DOMAIN image, image[k].of = P,
             P \notin DOMAIN xlat \/ Owns(src, n, fo, io)
      PROVE  FALSE
    <2>1. k # 1
        BY <1>7, <1>8 DEF CopyInv
    <2>2. PICK j \in DOMAIN image :
              \E f \in DOMAIN image[j].f : \E i \in DOMAIN image[j].f[f] :
                  Made(src, image, xlat, k, j, f, i)
        BY <2>1 DEF CopyInv, Reached
    <2>20. PICK f \in DOMAIN image[j].f :
              \E i \in DOMAIN image[j].f[f] : Made(src, image, xlat, k, j, f, i)
        BY <2>2
    <2>21. PICK i \in DOMAIN image[j].f[f] : Made(src, image, xlat, k, j, f, i)
        BY <2>20
    <2> DEFINE m == image[j].of[2]
    <2>3. /\ m \in DOMAIN src /\ image[j].of = <<"src", m>> /\ Alike(image[j], src[m])
        <3>1. BlockOf(src, image[j])
            BY <1>1 DEF TypeInv, Blocks
        <3> QED
            BY <3>1 DEF BlockOf, SrcPtr
    <2>4. /\ f \in DOMAIN src[m].f /\ i \in DOMAIN src[m].f[f] /\ f \notin Translated
          /\ src[m].f[f][i] = P /\ image[j].f[f][i] # P
          /\ Owns(src, m, f, i) \/ Owns(src, n, fo, io)
        BY <1>8, <2>21, <2>3 DEF Alike, Made
    <2>5. m = n /\ f = fo /\ i = io
        <3>1. Owned(src) /\ src[m].f[f][i] = src[n].f[fo][io]
            BY <1>3, <2>4 DEF CopyInv
        <3> HIDE DEF m, n, fo, io
        <3>2. CASE Owns(src, m, f, i)
            BY <1>4, <1>5, <1>6, <2>3, <2>4, <3>1, <3>2 DEF Owned
        <3>3. CASE Owns(src, n, fo, io)
            BY <1>4, <1>5, <1>6, <2>3, <2>4, <3>1, <3>3 DEF Owned
        <3> QED
            BY <2>4, <3>2, <3>3
    <2>6. j = jo
        BY <1>2, <1>5, <2>3, <2>5 DEF CopyInv, Once
    <2> QED
        BY <1>2, <2>4, <2>5, <2>6
<1> QED
    BY <1>3, <1>4, <1>7, <1>8

LEMMA OnceGrows ==
    ASSUME NEW im, NEW new, Once(im), Grows(im, new), DOMAIN new = DOMAIN im
    PROVE  Once(new)
BY DEF Once, Grows

LEMMA OnceSet ==
    ASSUME TypeInv, Once(image), todo # <<>>, pass # "calc", NEW q, NEW new, new = Set(image, q)
    PROVE  Once(new)
<1> DEFINE k == Owner[2]
           f == Head(todo)[2]
           i == Head(todo)[3]
<1>1. k \in DOMAIN image /\ f \in DOMAIN image[k].f /\ i \in DOMAIN image[k].f[f]
    BY HeadIs
<1>2. new = Put(image, k, f, i, q) /\ Blocks(src, image)
    BY DEF Set, Put, TypeInv
<1> HIDE DEF k, f, i
<1>3. Grows(image, new) /\ DOMAIN new = DOMAIN image
    BY <1>1, <1>2, SetIs
<1> QED
    BY <1>3, OnceGrows

\* The other slots keep what they hold until it is their turn.
LEMMA UntouchedTail ==
    ASSUME CopyInv, pass = "persist", todo # <<>>,
           Mode \in Copying \cup {"xlat", "patch"}, NEW big, NEW q,
           Grows(image, big),
           Writes(image, big, Owner[2], Head(todo)[2], Head(todo)[3], q)
    PROVE  Single(Tail(todo)) /\ Untouched(src, big, Tail(todo))
<1>1. /\ TypeInv /\ Single(todo) /\ Untouched(src, image, todo)
    BY DEF CopyInv
<1>2. /\ Entries("persist", src, image, Tail(todo)) /\ Entry("persist", src, image, Head(todo))
      /\ IsSeq(todo)
    BY <1>1, HeadIs
<1>3. /\ Single(Tail(todo))
      /\ \A e \in Range(Tail(todo)) :
            Head(todo)[4] \in Fresh /\ e[4] \in Fresh => ~ SlotOf(Head(todo), e)
    BY <1>1, <1>2, SingleTail
<1>4. Range(Tail(todo)) \subseteq Range(todo)
    BY <1>2, TailIs
<1>5. ASSUME NEW e \in Range(Tail(todo)), e[4] \in Fresh
      PROVE  big[e[1][2]].f[e[2]][e[3]] = src[big[e[1][2]].of[2]].f[e[2]][e[3]]
    <2>1. Entry("persist", src, image, e)
        BY <1>2 DEF Entries
    <2>2. /\ e[1][2] \in DOMAIN image /\ e[2] \in DOMAIN image[e[1][2]].f
          /\ e[3] \in DOMAIN image[e[1][2]].f[e[2]] /\ ModeFits(image[e[1][2]], e[2], e[4])
        BY <2>1, OwnerIs DEF Entry
    <2>3. ~ (e[1][2] = Owner[2] /\ e[2] = Head(todo)[2] /\ e[3] = Head(todo)[3])
        <3>1. CASE Mode \in Fresh
            BY <3>1, <1>3, <1>5 DEF SlotOf, Mode, Owner
        <3>2. CASE Mode = "patch"
            <4>1. Head(todo)[2] \in {"ce", "magic", "callstatic"}
                BY <3>2, <1>2 DEF Entry, ModeFits, Mode
            <4>2. e[2] \notin {"ce", "magic", "callstatic"}
                BY <2>2, <1>5 DEF ModeFits, Fresh, Translated
            <4> QED
                BY <4>1, <4>2
        <3> QED
            BY <3>1, <3>2 DEF Fresh
    <2>4. big[e[1][2]].f[e[2]][e[3]] = image[e[1][2]].f[e[2]][e[3]]
        BY <2>2, <2>3 DEF Writes
    <2>5. big[e[1][2]].of = image[e[1][2]].of
        BY <2>2 DEF Grows
    <2>6. e \in Range(todo)
        BY <1>4
    <2> QED
        BY <1>1, <1>5, <2>4, <2>5, <2>6 DEF Untouched
<1> QED
    BY <1>3, <1>5 DEF Untouched

\* How a block was reached is still to be seen.
LEMMA ReachedStill ==
    ASSUME CopyInv, pass = "persist", todo # <<>>,
           Mode \in Copying \cup {"xlat", "patch"}, NEW big, NEW q,
           Grows(image, big), Mode \in Copying => q = Null \/ q[1] = "img",
           Writes(image, big, Owner[2], Head(todo)[2], Head(todo)[3], q),
           NEW xl, DOMAIN xlat \subseteq DOMAIN xl, NEW k \in DOMAIN image \ {1}
    PROVE  \E j \in DOMAIN big : \E f \in DOMAIN big[j].f : \E i \in DOMAIN big[j].f[f] :
               Made(src, big, xl, k, j, f, i)
<1>1. PICK j \in DOMAIN image :
          \E f \in DOMAIN image[j].f : \E i \in DOMAIN image[j].f[f] :
              Made(src, image, xlat, k, j, f, i)
    BY DEF CopyInv, Reached
<1>2. PICK f \in DOMAIN image[j].f :
          \E i \in DOMAIN image[j].f[f] : Made(src, image, xlat, k, j, f, i)
    BY <1>1
<1>3. PICK i \in DOMAIN image[j].f[f] : Made(src, image, xlat, k, j, f, i)
    BY <1>2
<1>4. /\ j \in DOMAIN big /\ f \in DOMAIN big[j].f /\ i \in DOMAIN big[j].f[f]
      /\ big[j].of = image[j].of /\ big[k].of = image[k].of
    BY DEF Grows, Alike
<1>5. big[j].f[f][i] # big[k].of
    <2>1. \/ big[j].f[f][i] = image[j].f[f][i]
          \/ big[j].f[f][i] = q /\ f = Head(todo)[2]
        BY DEF Writes
    <2>2. CASE big[j].f[f][i] = image[j].f[f][i]
        BY <2>2, <1>3, <1>4 DEF Made
    <2>3. CASE big[j].f[f][i] = q /\ f = Head(todo)[2]
        <3>1. f \notin Translated
            BY <1>3 DEF Made
        <3>2. Entry("persist", src, image, Head(todo))
            BY HeadIs DEF CopyInv
        <3>3. Mode \in Copying
            BY <2>3, <3>1, <3>2 DEF Entry, ModeFits, Mode, Translated
        <3>4. SrcPtr(src, image[k].of)
            BY DEF CopyInv, TypeInv, Blocks, BlockOf
        <3>5. image[k].of[1] = "src" /\ image[k].of # Null
            BY <3>4 DEF SrcPtr, Null
        <3> QED
            BY <2>3, <3>3, <3>5, <1>4
    <2> QED
        BY <2>1, <2>2, <2>3
<1>6. Made(src, big, xl, k, j, f, i)
    BY <1>3, <1>4, <1>5 DEF Made
<1> QED
    BY <1>4, <1>6

LEMMA RegisteredStill ==
    ASSUME CopyInv, pass = "persist", NEW big, Grows(image, big)
    PROVE  Registered(big, xlat) /\ (1 \in DOMAIN big /\ big[1].of = <<"src", "script">>)
<1>1. 1 \in DOMAIN image /\ image[1].of = <<"src", "script">> /\ Registered(image, xlat)
    BY DEF CopyInv, TypeInv
<1> QED
    BY <1>1 DEF Registered, Grows, Img

LEMMA CopyOwnSlot ==
    ASSUME CopyInv, At("persist"), P # Null, Mode \in Copying,
           Mode = "put" \/ Mode = "data" \/ Kind(P) = "types"
    PROVE  Owns(src, image[Owner[2]].of[2], Head(todo)[2], Head(todo)[3])
<1>1. /\ pass = "persist" /\ todo # <<>> /\ TypeInv
    BY DEF At, CopyInv
<1> DEFINE b == image[Owner[2]]
           n == b.of[2]
           f == Head(todo)[2]
           i == Head(todo)[3]
<1>2. /\ SrcPtr(src, P) /\ src[n].f[f][i] = P /\ f \notin Translated
    BY <1>1, NoTwin
<1>3. Owner[2] \in DOMAIN image /\ ModeFits(b, f, Mode)
    BY <1>1, HeadIs DEF Entry, Mode, Owner
<1>4. BlockOf(src, b)
    BY <1>1, <1>3 DEF TypeInv, Blocks
<1>5. b.kind = src[n].kind
    BY <1>4 DEF BlockOf, Alike
<1>6. Kind(P) = src[P[2]].kind
    <2>0. SrcPtr(src, P)
        BY <1>2
    <2>1. P[1] = "src"
        BY <2>0 DEF SrcPtr
    <2>2. Obj(P) = src[P[2]]
        BY <2>1 DEF Obj
    <2>3. IsBlock(P)
        BY <2>1 DEF IsBlock
    <2> QED
        BY <2>2, <2>3 DEF Kind
<1>7. Mode \in {"put", "data"} => Owning(b, f)
    BY <1>3 DEF ModeFits
<1>8. Owning(b, f) => Owning(src[n], f)
    BY <1>5 DEF Owning
<1> QED
    BY <1>2, <1>6, <1>7, <1>8 DEF Owns

LEMMA CopyStep ==
    ASSUME CopyInv, At("persist"), P # Null, Mode \in Copying, Copy,
           UNCHANGED <<src, pass, counted, pool>>,
           \/ P \notin DOMAIN xlat /\ Register(P, <<"img", Len(image) + 1>>)
           \/ xlat' = xlat /\ Mode = "data"
    PROVE  CopyInv'
<1> DEFINE k == Len(image) + 1
           q == <<"img", k>>
           s == PersistSlots(Obj(P))
           jo == Owner[2]
           fo == Head(todo)[2]
           io == Head(todo)[3]
<1>1. /\ pass = "persist" /\ todo # <<>> /\ TypeInv
      /\ src' = src /\ pass' = pass /\ counted' = counted /\ pool' = pool
    BY DEF At, CopyInv
<1>2. TypeInv'
    BY <1>1, Copies
<1>3. /\ Grows(image, image')
      /\ k \notin DOMAIN image /\ DOMAIN image' = DOMAIN image \cup {k}
      /\ Writes(image, image', jo, fo, io, q)
      /\ image'[k].of = Origin(P) /\ image'[k].f = Obj(P).f
      /\ PersistFine(Obj(P), s)
    BY <1>1, CopyIs
<1>4. todo' = Of(q, s) \o Tail(todo)
    BY DEF Copy, Descend
<1>5. /\ SrcPtr(src, P) /\ P # <<"src", "script">>
      /\ src[image[jo].of[2]].f[fo][io] = P /\ fo \notin Translated
    BY <1>1, NoTwin
<1>6. Mode = "data" => Owns(src, image[jo].of[2], fo, io)
    BY CopyOwnSlot
<1>7. \A j \in DOMAIN image : image[j].of # P
    <2>1. P \notin DOMAIN xlat \/ Owns(src, image[jo].of[2], fo, io)
        BY <1>6
    <2> QED
        BY <1>1, <2>1, NoTwin
<1>8. P \in DOMAIN xlat' \/ Owns(src, image[jo].of[2], fo, io)
    BY <1>6 DEF Register
<1>9. DOMAIN xlat \subseteq DOMAIN xlat'
    BY DEF Register
<1>10. \A p \in DOMAIN xlat' :
           (p = P /\ xlat'[p] = q) \/ (p \in DOMAIN xlat /\ xlat'[p] = xlat[p])
    <2>1. CASE xlat' = xlat
        BY <2>1
    <2>2. CASE Register(P, q)
        <3> HIDE DEF q
        <3>1. xlat' = [r \in DOMAIN xlat \cup {P} |-> IF r = P THEN q ELSE xlat[r]]
            BY <2>2 DEF Register
        <3> QED
            BY <3>1
    <2> QED
        BY <2>1, <2>2
<1>11. Origin(P) = P /\ Obj(P) = src[P[2]]
    <2>0. SrcPtr(src, P)
        BY <1>5
    <2>1. P[1] = "src"
        BY <2>0 DEF SrcPtr
    <2> QED
        BY <2>1 DEF Origin, Obj
<1>12. /\ jo \in DOMAIN image /\ fo \in DOMAIN image[jo].f /\ io \in DOMAIN image[jo].f[fo]
       /\ Entries("persist", src, image, Tail(todo))
    BY <1>1, HeadIs
<1>13. q[1] = "img" /\ q[2] = k
    OBVIOUS
<1> HIDE DEF k, q, s, jo, fo, io
<1>14. Once(image')
    <2>1. Once(image) /\ \A j \in DOMAIN image : image'[j].of = image[j].of
        BY <1>3 DEF CopyInv, Grows
    <2> QED
        BY <2>1, <1>3, <1>7, <1>11 DEF Once
<1>15. /\ Single(Tail(todo)) /\ Untouched(src, image', Tail(todo))
    BY <1>1, <1>3, UntouchedTail DEF jo, fo, io
<1>16. /\ Single(Of(q, s)) /\ \A e \in Range(Of(q, s)) : e[1] = q
    BY <1>3, SingleOf
<1>17. IsSeq(Of(q, s)) /\ IsSeq(Tail(todo))
    <2>1. IsSeq(s)
        BY <1>3 DEF PersistFine, Within
    <2> QED
        BY <2>1, <1>12, OfIs DEF Entries
<1>18. Single(todo')
    <2>1. ASSUME NEW d \in Range(Of(q, s)), NEW e \in Range(Tail(todo))
          PROVE  ~ SlotOf(d, e)
        <3>1. Entry("persist", src, image, e)
            BY <1>12 DEF Entries
        <3>2. e[1][2] \in DOMAIN image
            BY <3>1, OwnerIs DEF Entry
        <3> QED
            BY <3>2, <1>3, <1>13, <1>16 DEF SlotOf
    <2> QED
        BY <2>1, <1>4, <1>15, <1>16, <1>17, SingleBoth
<1>19. Untouched(src, image', todo')
    <2>1. Range(todo') = Range(Of(q, s)) \cup Range(Tail(todo))
        BY <1>4, <1>17, ConcatIs
    <2>2. ASSUME NEW e \in Range(Of(q, s))
          PROVE  image'[e[1][2]].f[e[2]][e[3]] = src[image'[e[1][2]].of[2]].f[e[2]][e[3]]
        BY <1>3, <1>11, <1>13, <1>16
    <2> QED
        BY <2>1, <2>2, <1>15 DEF Untouched
<1>20. Registered(image, xlat) /\ 1 \in DOMAIN image /\ image[1].of = <<"src", "script">>
    BY <1>1 DEF CopyInv, TypeInv
<1>21. Reached(src, image', xlat')
    <2> SUFFICES ASSUME NEW h \in DOMAIN image' \ {1}
                 PROVE  \E j \in DOMAIN image' : \E f \in DOMAIN image'[j].f :
                            \E i \in DOMAIN image'[j].f[f] :
                                Made(src, image', xlat', h, j, f, i)
        BY DEF Reached
    <2>1. CASE h \in DOMAIN image
        BY <2>1, <1>1, <1>3, <1>9, <1>13, ReachedStill DEF jo, fo, io
    <2>2. CASE h = k
        <3>1. /\ jo \in DOMAIN image' /\ fo \in DOMAIN image'[jo].f /\ io \in DOMAIN image'[jo].f[fo]
              /\ image'[jo].of = image[jo].of /\ image'[jo].f[fo][io] = q
            BY <1>3, <1>12 DEF Grows, Alike, Writes
        <3>2. q # P
            BY <1>5, <1>13 DEF SrcPtr
        <3>3. Made(src, image', xlat', k, jo, fo, io)
            BY <3>1, <3>2, <1>3, <1>5, <1>8, <1>11 DEF Made
        <3> QED
            BY <2>2, <3>1, <3>3
    <2> QED
        BY <2>1, <2>2, <1>3
<1>22. Registered(image', xlat') /\ image'[1].of = <<"src", "script">>
    <2>1. Registered(image', xlat) /\ image'[1].of = <<"src", "script">>
        BY <1>1, <1>3, RegisteredStill
    <2>2. Img(image', q) /\ image'[q[2]].of = P
        BY <1>3, <1>11, <1>13 DEF Img
    <2> QED
        BY <2>1, <2>2, <1>10 DEF Registered
<1>23. Owned(src)
    BY DEF CopyInv
<1> QED
    BY <1>1, <1>2, <1>14, <1>18, <1>19, <1>21, <1>22, <1>23 DEF CopyInv

\* A slot gets its value and no block is added.
LEMMA FillStep ==
    ASSUME CopyInv, TypeInv', At("persist"), Mode \in Copying \cup {"xlat", "patch"}, NEW q,
           image' = Set(image, q), todo' = Tail(todo),
           UNCHANGED <<src, pass, xlat, counted, pool>>,
           Mode \in Copying => q = Null \/ q[1] = "img"
    PROVE  CopyInv'
<1> DEFINE k == Owner[2]
           f == Head(todo)[2]
           i == Head(todo)[3]
<1>1. /\ pass = "persist" /\ todo # <<>> /\ TypeInv
      /\ src' = src /\ pass' = pass /\ xlat' = xlat /\ counted' = counted /\ pool' = pool
    BY DEF At, CopyInv
<1>2. k \in DOMAIN image /\ f \in DOMAIN image[k].f /\ i \in DOMAIN image[k].f[f]
    BY <1>1, HeadIs
<1>3. image' = Put(image, k, f, i, q) /\ Blocks(src, image)
    BY <1>1 DEF Set, Put, TypeInv
<1>4. /\ Grows(image, image') /\ DOMAIN image' = DOMAIN image
      /\ Writes(image, image', k, f, i, q)
    <2> HIDE DEF k, f, i
    <2> QED
        BY <1>2, <1>3, SetIs
<1>5. Once(image')
    BY <1>4, OnceGrows DEF CopyInv
<1>6. Single(todo') /\ Untouched(src, image', todo')
    BY <1>1, <1>4, UntouchedTail
<1>7. \A h \in DOMAIN image' \ {1} :
          \E j \in DOMAIN image' : \E g \in DOMAIN image'[j].f : \E n \in DOMAIN image'[j].f[g] :
              Made(src, image', xlat, h, j, g, n)
    BY <1>1, <1>4, ReachedStill
<1>8. Registered(image', xlat) /\ image'[1].of = <<"src", "script">>
    BY <1>1, <1>4, RegisteredStill
<1>9. Owned(src)
    BY DEF CopyInv
<1> QED
    BY <1>1, <1>5, <1>6, <1>7, <1>8, <1>9 DEF CopyInv, Reached

LEMMA CopyInit == Init => CopyInv
<1> SUFFICES ASSUME Init PROVE CopyInv
    OBVIOUS
<1>1. TypeInv
    BY TypeInit
<1>2. PICK s \in Scripts : src = s.objects
    BY DEF Init
<1>3. Owned(src)
    BY <1>2, OwnershipAssumption DEF Owned
<1>4. pass = "start" /\ DOMAIN image = {}
    BY DEF Init
<1> QED
    BY <1>1, <1>3, <1>4 DEF CopyInv, Once

LEMMA StartsCopying == CopyInv /\ TypeInv' /\ StartPersist => CopyInv'
<1> SUFFICES ASSUME CopyInv, TypeInv', StartPersist PROVE CopyInv'
    OBVIOUS
<1> DEFINE o == src["script"]
           b == [kind |-> "script", of |-> <<"src", "script">>, f |-> o.f]
           q == <<"img", 1>>
           s == PersistSlots(o)
<1>1. /\ pass' = "persist" /\ xlat' = <<>> /\ src' = src
      /\ image' = <<b>> /\ todo' = Of(q, s)
    BY DEF StartPersist
<1>2. b.of = <<"src", "script">> /\ b.f = o.f
    OBVIOUS
<1>3. q[2] = 1
    OBVIOUS
<1>4. Shaped(o)
    BY DEF CopyInv, TypeInv, IsGraph
<1> HIDE DEF b, q, o
<1>5. PersistFine(o, s)
    BY <1>4, PersistIs
<1>6. DOMAIN image' = {1} /\ image'[1] = b
    BY <1>1
<1>7. Single(todo') /\ \A e \in Range(todo') : e[1] = q
    <2> HIDE DEF s
    <2> QED
        BY <1>1, <1>5, SingleOf
<1>8. Untouched(src, image', todo')
    <2> SUFFICES ASSUME NEW e \in Range(todo')
                 PROVE  image'[e[1][2]].f[e[2]][e[3]] = src[image'[e[1][2]].of[2]].f[e[2]][e[3]]
        BY DEF Untouched
    <2>1. image'[e[1][2]] = b
        BY <1>3, <1>6, <1>7
    <2>2. b.f = src[b.of[2]].f
        BY <1>2 DEF o
    <2> QED
        BY <2>1, <2>2
<1>9. Once(image') /\ Reached(src, image', xlat') /\ Registered(image', xlat')
    BY <1>1, <1>6 DEF Once, Reached, Registered
<1>10. Owned(src)
    BY DEF CopyInv
<1> QED
    BY <1>1, <1>2, <1>6, <1>7, <1>8, <1>9, <1>10 DEF CopyInv

LEMMA CopySkips ==
    ASSUME CopyInv, TypeInv', pass = "persist", todo # <<>>,
           UNCHANGED <<src, pass, xlat, image>>,
           NEW p, NEW s,
           \/ todo' = Tail(todo)
           \/ /\ IsSeq(Of(p, s)) /\ todo' = Of(p, s) \o Tail(todo)
              /\ \A e \in Range(Of(p, s)) : e[4] = "patch"
    PROVE  CopyInv'
<1>1. src' = src /\ pass' = pass /\ xlat' = xlat /\ image' = image
    OBVIOUS
<1>2. TypeInv /\ IsSeq(todo) /\ IsSeq(Tail(todo)) /\ Single(todo) /\ Untouched(src, image, todo)
    BY HeadIs DEF CopyInv
<1>3. Single(Tail(todo)) /\ Range(Tail(todo)) \subseteq Range(todo)
    BY <1>2, SingleTail, TailIs
<1>4. Untouched(src, image, Tail(todo))
    BY <1>2, <1>3 DEF Untouched
<1>5. Single(todo') /\ Untouched(src, image, todo')
    <2>1. CASE todo' = Tail(todo)
        BY <2>1, <1>3, <1>4
    <2>2. CASE /\ IsSeq(Of(p, s)) /\ todo' = Of(p, s) \o Tail(todo)
               /\ \A e \in Range(Of(p, s)) : e[4] = "patch"
        <3> DEFINE t == Of(p, s)
        <3> HIDE DEF t
        <3>1. IsSeq(t) /\ todo' = t \o Tail(todo) /\ \A e \in Range(t) : e[4] \notin Fresh
            BY <2>2 DEF t, Fresh, Copying
        <3>2. Range(todo') = Range(t) \cup Range(Tail(todo))
            BY <3>1, <1>2, ConcatIs
        <3>3. Single(t)
            BY <3>1 DEF Single, Range
        <3>4. Single(todo')
            BY <3>1, <3>3, <1>2, <1>3, SingleBoth
        <3>5. Untouched(src, image, todo')
            BY <3>1, <3>2, <1>4 DEF Untouched
        <3> QED
            BY <3>4, <3>5
    <2> QED
        BY <2>1, <2>2
<1> QED
    BY <1>1, <1>5 DEF CopyInv

\* What persist goes through once more, a part of a function or a class, it has not
\* copied before.
LEMMA KnownSkips ==
    ASSUME CopyInv, PersistKnown
    PROVE  /\ At("persist") /\ pass = "persist" /\ todo # <<>> /\ Mode \in Copying
           /\ image' = Set(image, xlat[P]) /\ todo' = Tail(todo)
           /\ xlat[P][1] = "img"
           /\ UNCHANGED <<src, ver, pass, xlat, counted, pool>>
<1>1. /\ At("persist") /\ pass = "persist" /\ todo # <<>> /\ TypeInv /\ P \in DOMAIN xlat
      /\ image' = Set(image, xlat[P]) /\ Mode \in Copying
      /\ UNCHANGED <<src, ver, pass, xlat, counted, pool>>
    BY DEF PersistKnown, At, CopyInv, Shareable, Is, Copying
<1>2. Img(image, xlat[P]) /\ image[xlat[P][2]].of = P
    BY <1>1 DEF CopyInv, Registered
<1>3. P # Null
    <2>1. SrcPtr(src, P)
        BY <1>1, <1>2 DEF TypeInv, Blocks, BlockOf, Img
    <2> QED
        BY <2>1 DEF SrcPtr, Null
<1>4. ~ (Is("put") \/ Holds({"types"}))
    <2> SUFFICES ASSUME Is("put") \/ Holds({"types"}) PROVE FALSE
        OBVIOUS
    <2>1. Mode = "put" \/ Mode = "data" \/ Kind(P) = "types"
        BY DEF Is, Holds
    <2>2. Owns(src, image[Owner[2]].of[2], Head(todo)[2], Head(todo)[3])
        BY <1>1, <1>3, <2>1, CopyOwnSlot
    <2>3. \A k \in DOMAIN image : image[k].of # P
        BY <1>1, <1>3, <2>2, NoTwin
    <2> QED
        BY <1>2, <2>3 DEF Img
<1>5. todo' = Tail(todo)
    BY <1>4 DEF PersistKnown, Skip
<1>6. xlat[P][1] = "img"
    BY <1>2 DEF Img
<1> QED
    BY <1>1, <1>5, <1>6

LEMMA CopyKnown == CopyInv /\ TypeInv' /\ PersistKnown => CopyInv'
<1> SUFFICES ASSUME CopyInv, TypeInv', PersistKnown PROVE CopyInv'
    OBVIOUS
<1>1. /\ At("persist") /\ Mode \in Copying
      /\ image' = Set(image, xlat[P]) /\ todo' = Tail(todo)
      /\ xlat[P][1] = "img" /\ UNCHANGED <<src, pass, xlat, counted, pool>>
    BY KnownSkips
<1> QED
    BY <1>1, FillStep

LEMMA CopyElse ==
    ASSUME CopyInv, TypeInv', src' = src, pass' # "persist",
           \/ image' = image
           \/ todo # <<>> /\ pass # "calc" /\ \E q : image' = Set(image, q)
    PROVE  CopyInv'
<1>1. Once(image')
    BY OnceSet DEF CopyInv
<1> QED
    BY <1>1 DEF CopyInv

LEMMA CopyNext == CopyInv /\ [Next]_vars => CopyInv'
<1> SUFFICES ASSUME CopyInv, [Next]_vars PROVE CopyInv'
    OBVIOUS
<1>0. TypeInv /\ TypeInv'
    BY TypeStep DEF CopyInv
<1>1. CASE StartCalc \/ CalcKnown \/ CalcOnce \/ CalcMark \/ CalcEach
    <2>1. src' = src /\ pass' # "persist" /\ image' = image
        BY <1>1 DEF StartCalc, CalcKnown, CalcOnce, CalcMark, CalcEach, At
    <2> QED
        BY <1>0, <2>1, CopyElse
<1>2. CASE StartPersist
    BY <1>0, <1>2, StartsCopying
<1>3. CASE PersistNull
    <2>1. /\ pass = "persist" /\ todo # <<>> /\ todo' = Tail(todo)
          /\ UNCHANGED <<src, pass, xlat, image>>
        BY <1>3 DEF PersistNull, At, Skip
    <2> QED
        BY <1>0, <2>1, CopySkips
<1>4. CASE PersistComplexAst
    <2>1. /\ At("persist") /\ Mode \in Copying /\ image' = Set(image, Null) /\ todo' = Tail(todo)
          /\ UNCHANGED <<src, pass, xlat, counted, pool>>
        BY <1>4 DEF PersistComplexAst, Is, Skip, Copying
    <2> QED
        BY <1>0, <2>1, FillStep
<1>5. CASE PersistCopy
    <2>1. Mode \in Copying
        BY <1>5 DEF PersistCopy, Shareable, Is, Copying
    <2> QED
        BY <1>5, <2>1, CopyStep DEF PersistCopy
<1>6. CASE PersistData
    <2>1. Mode \in Copying /\ Mode = "data"
        BY <1>6 DEF PersistData, Is, Copying
    <2> QED
        BY <1>6, <2>1, CopyStep DEF PersistData
<1>7. CASE PersistKnown
    BY <1>0, <1>7, CopyKnown
<1>8. CASE PersistTranslate
    <2> DEFINE q == IF P \in DOMAIN xlat THEN xlat[P] ELSE IF Is("xlat") THEN Null ELSE P
    <2>1. /\ At("persist") /\ Mode \in {"xlat", "patch"} /\ image' = Set(image, q)
          /\ todo' = Tail(todo) /\ UNCHANGED <<src, pass, xlat, counted, pool>>
        BY <1>8 DEF PersistTranslate, Skip, Is
    <2>2. Mode \notin Copying
        BY <2>1 DEF Copying
    <2> HIDE DEF q
    <2> QED
        BY <1>0, <2>1, <2>2, FillStep
<1>9. CASE PersistUpdate
    <2> DEFINE s == UpdateClass(Obj(P))
    <2>1. /\ pass = "persist" /\ todo # <<>> /\ Mode = "update"
          /\ todo' = Of(P, s) \o Tail(todo)
          /\ UNCHANGED <<src, pass, xlat, image>>
        BY <1>9 DEF PersistUpdate, At, Is, Descend
    <2>2. Shaped(Obj(P))
        BY <1>0, <2>1, UpdatedIs
    <2>3. Loose(Obj(P), s) /\ \A x \in Range(s) : x[3] = "patch"
        BY <2>2, UpdateIs
    <2> HIDE DEF s
    <2>4. IsSeq(Of(P, s)) /\ \A e \in Range(Of(P, s)) : e[4] = "patch"
        <3>1. IsSeq(Of(P, s)) /\ \A e \in Range(Of(P, s)) : \E x \in Range(s) : e = <<P, x[1], x[2], x[3]>>
            BY <2>3, OfIs DEF Loose, Within
        <3> QED
            BY <3>1, <2>3
    <2> QED
        BY <1>0, <2>1, <2>4, CopySkips
<1>10. CASE StartSerialize \/ StartUnserialize \/ Loaded
    <2>1. src' = src /\ pass' # "persist" /\ image' = image
        BY <1>10 DEF StartSerialize, StartUnserialize, Loaded
    <2> QED
        BY <1>0, <2>1, CopyElse
<1>11. CASE SerializeSkip \/ UnserializeSkip
    <2>1. src' = src /\ pass' # "persist" /\ image' = image
        BY <1>11 DEF SerializeSkip, UnserializeSkip, At
    <2> QED
        BY <1>0, <2>1, CopyElse
<1>12. CASE SerializeInterned \/ SerializePtr \/ SerializeNext
    <2>1. src' = src /\ pass' # "persist" /\ todo # <<>> /\ pass # "calc"
        BY <1>12 DEF SerializeInterned, SerializePtr, SerializeNext, At
    <2>2. \E q : image' = Set(image, q)
        <3>1. CASE SerializeInterned
            BY <3>1, Zenon DEF SerializeInterned
        <3>2. CASE SerializePtr
            BY <3>2, Zenon DEF SerializePtr
        <3>3. CASE SerializeNext
            BY <3>3, Zenon DEF SerializeNext
        <3> QED
            BY <1>12, <3>1, <3>2, <3>3
    <2> QED
        BY <1>0, <2>1, <2>2, CopyElse
<1>13. CASE UnserializeInterned \/ UnserializePtr \/ UnserializeNext
    <2>1. src' = src /\ pass' # "persist" /\ todo # <<>> /\ pass # "calc"
        BY <1>13 DEF UnserializeInterned, UnserializePtr, UnserializeNext, At
    <2>2. \E q : image' = Set(image, q)
        <3>1. CASE UnserializeInterned
            BY <3>1, Zenon DEF UnserializeInterned
        <3>2. CASE UnserializePtr
            BY <3>2, Zenon DEF UnserializePtr
        <3>3. CASE UnserializeNext
            BY <3>3, Zenon DEF UnserializeNext
        <3> QED
            BY <1>13, <3>1, <3>2, <3>3
    <2> QED
        BY <1>0, <2>1, <2>2, CopyElse
<1>14. CASE Finished \/ UNCHANGED vars
    BY <1>0, <1>14 DEF Finished, vars, CopyInv
<1> QED
    BY <1>1, <1>2, <1>3, <1>4, <1>5, <1>6, <1>7, <1>8, <1>9, <1>10, <1>11, <1>12, <1>13,
       <1>14 DEF Next

\* Nothing of the compiler has two copies, for every script in which the parts of a
\* function or a class have one owner: what persist copies without the xlat table
\* (memdup_put, the data of a map) it meets once, and everything else it looks up.
THEOREM CopiedOnceHolds == Spec => []CopiedOnce
<1>1. CopyInv => CopiedOnce
    BY DEF CopyInv, Once, CopiedOnce
<1> QED
    BY <1>1, CopyInit, CopyNext, PTL DEF Spec

-------------------------------------------------------------------------------
\* Calc counts what persist copies.  C is what calc has met: as long as it runs, what the
\* counted fields of C lead to is in C or waits, and what is in C was met through an
\* object of C.
Measured(C, n) == IsFiniteSet(C) /\ Cardinality(C) <= n
Waiting(td, p, f, i) == \E e \in Range(td) : e[1] = p /\ e[2] = f /\ e[3] = i
Surveyed(objects, version, td, C) ==
    \A n \in DOMAIN objects : <<"src", n>> \in C =>
        \A f \in Counted(version, objects[n]) : f \in DOMAIN objects[n].f =>
            \A i \in DOMAIN objects[n].f[f] :
                \/ objects[n].f[f][i] \in C \cup {Null}
                \/ Waiting(td, <<"src", n>>, f, i)
Refers(objects, C, q) ==
    \E m \in DOMAIN objects : <<"src", m>> \in C /\
        \E g \in DOMAIN objects[m].f \ Translated :
            \E j \in DOMAIN objects[m].f[g] : objects[m].f[g][j] = q
Survey(objects, version, td, xl, C) ==
    /\ <<"src", "script">> \in C /\ DOMAIN xl \subseteq C
    /\ \A q \in C : SrcPtr(objects, q)
    /\ \A q \in C \ {<<"src", "script">>} : Refers(objects, C, q)
    /\ Surveyed(objects, version, td, C)
    /\ \A e \in Range(td) : e[1] \in C /\ e[2] \notin Translated

\* The doc comments are strings, and the slack holds them.
DocsFit(objects) ==
    /\ Measured(Docs(objects), Slack)
    /\ \A p \in Docs(objects) : objects[p[2]].kind = "str"

\* What persist copies is in C or a doc comment.
Covered(objects, version, im, td, C) ==
    /\ Surveyed(objects, version, <<>>, C)
    /\ \A k \in DOMAIN im : im[k].of \in C \cup Docs(objects)
    /\ \A e \in Range(td) : e[4] \in Copying =>
           e[2] \in Counted(version, im[e[1][2]]) \cup {"doc"}

FitInv ==
    /\ CopyInv /\ DocsFit(src) /\ FitsBuffer
    /\ pass \in {"start", "calc"} => image = <<>>
    /\ pass = "start" => xlat = <<>>
    /\ pass = "calc" => \E C : Measured(C, counted) /\ Survey(src, ver, todo, xlat, C)
    /\ pass = "persist" => \E C : Measured(C, counted) /\ Covered(src, ver, image, todo, C)

LEMMA CoveredFits ==
    ASSUME NEW im, IsSeq(im), Once(im), NEW objects, DocsFit(objects), NEW n \in Nat, NEW C,
           Measured(C, n), \A k \in DOMAIN im : im[k].of \in C \cup Docs(objects)
    PROVE  Len(im) <= n + Slack
<1> DEFINE D == Docs(objects)
           T == C \cup D
           f == [k \in 1 .. Len(im) |-> im[k].of]
<1>1. DOMAIN im = 1 .. Len(im) /\ Len(im) \in Nat /\ Slack \in Nat
    BY IsSeqParts, SlackAssumption
<1>2. /\ IsFiniteSet(C) /\ IsFiniteSet(D) /\ Cardinality(C) <= n /\ Cardinality(D) <= Slack
    BY DEF Measured, DocsFit
<1> HIDE DEF D
<1>3. /\ IsFiniteSet(T) /\ Cardinality(T) = Cardinality(C) + Cardinality(D) - Cardinality(C \cap D)
      /\ IsFiniteSet(C \cap D)
    BY <1>2, FS_Union, FS_Intersection
<1>4. /\ Cardinality(C) \in Nat /\ Cardinality(D) \in Nat /\ Cardinality(C \cap D) \in Nat
      /\ Cardinality(T) \in Nat
    BY <1>2, <1>3, FS_CardinalityType
<1>5. Cardinality(T) <= n + Slack
    BY <1>1, <1>2, <1>3, <1>4
<1>6. f \in Injection(1 .. Len(im), T)
    <2>1. f \in [1 .. Len(im) -> T]
        BY <1>1 DEF D
    <2>2. \A a, b \in 1 .. Len(im) : f[a] = f[b] => a = b
        BY <1>1 DEF Once
    <2> QED
        BY <2>1, <2>2 DEF Injection, IsInjective
<1> HIDE DEF f, T
<1>7. Cardinality(1 .. Len(im)) <= Cardinality(T)
    <2> DEFINE S == 1 .. Len(im)
    <2> HIDE DEF S
    <2>1. f \in Injection(S, T) /\ IsFiniteSet(T)
        BY <1>3, <1>6 DEF S
    <2>2. Cardinality(S) <= Cardinality(T)
        BY <2>1, FS_Injection
    <2> QED
        BY <2>2 DEF S
<1>8. Cardinality(1 .. Len(im)) = Len(im)
    <2> DEFINE l == Len(im)
    <2>1. l \in Nat /\ 1 \in Int /\ l \in Int
        BY <1>1
    <2> HIDE DEF l
    <2>2. Cardinality(1 .. l) = IF 1 > l THEN 0 ELSE l - 1 + 1
        BY <2>1, FS_Interval
    <2>3. Cardinality(1 .. l) = l
        BY <2>1, <2>2
    <2> QED
        BY <2>3 DEF l
<1> QED
    BY <1>1, <1>4, <1>5, <1>7, <1>8

\* The opcodes of a function are met through the function.
LEMMA NotPassed ==
    ASSUME TypeInv, Owned(src), NEW C, Survey(src, ver, todo, xlat, C),
           NEW n \in DOMAIN src, <<"src", n>> \notin C
    PROVE  ~ Passed(src[n])
<1> SUFFICES ASSUME Passed(src[n]) PROVE FALSE
    OBVIOUS
<1> DEFINE o == src[n]
           q == First(o, "opcodes")
<1>1. q \in C
    BY DEF Passed, OpcodesKnown, Survey
<1>2. SrcPtr(src, q)
    BY <1>1 DEF Survey
<1>3. q # Null
    BY <1>2 DEF SrcPtr, Null
<1>4. "opcodes" \in DOMAIN o.f /\ o.f["opcodes"] # <<>> /\ q = o.f["opcodes"][1]
    BY <1>3 DEF First, Field
<1>5. 1 \in DOMAIN o.f["opcodes"] /\ q # <<"src", "script">>
    <2>1. IsSeq(o.f["opcodes"])
        BY <1>4 DEF TypeInv, IsGraph, Shaped
    <2>2. 1 \in DOMAIN o.f["opcodes"]
        BY <2>1, <1>4, TailIs
    <2> QED
        BY <2>2, <1>3, <1>4 DEF TypeInv, IsGraph
<1>6. Owns(src, n, "opcodes", 1)
    BY <1>3, <1>4 DEF Owns, Owning, Translated
<1> HIDE DEF q
<1>7. Refers(src, C, q)
    BY <1>1, <1>5 DEF Survey
<1>8. PICK m \in DOMAIN src : <<"src", m>> \in C /\
          \E g \in DOMAIN src[m].f \ Translated : \E j \in DOMAIN src[m].f[g] : src[m].f[g][j] = q
    BY <1>7 DEF Refers
<1>9. m = n
    BY <1>4, <1>5, <1>6, <1>8 DEF Owned
<1> QED
    BY <1>8, <1>9

LEMMA HeadOrTail ==
    ASSUME NEW td, IsSeq(td), td # <<>>
    PROVE  /\ Head(td) \in Range(td) /\ Range(Tail(td)) \subseteq Range(td)
           /\ \A e \in Range(td) : e = Head(td) \/ e \in Range(Tail(td))
<1>1. /\ Head(td) = td[1] /\ Len(td) \in Nat \ {0} /\ Len(Tail(td)) = Len(td) - 1
      /\ \A i \in 1 .. Len(td) - 1 : Tail(td)[i] = td[i + 1]
      /\ 1 \in DOMAIN td /\ Range(Tail(td)) \subseteq Range(td) /\ IsSeq(Tail(td))
    BY TailIs
<1>2. DOMAIN td = 1 .. Len(td) /\ DOMAIN Tail(td) = 1 .. Len(td) - 1
    BY <1>1, IsSeqParts
<1>3. ASSUME NEW e \in Range(td), e # Head(td)
      PROVE  e \in Range(Tail(td))
    <2>1. PICK i \in DOMAIN td : e = td[i]
        BY DEF Range
    <2>2. i # 1
        BY <1>1, <1>3, <2>1
    <2>3. i - 1 \in DOMAIN Tail(td) /\ (i - 1) + 1 = i /\ i - 1 \in 1 .. Len(td) - 1
        BY <1>1, <1>2, <2>1, <2>2
    <2>4. Tail(td)[i - 1] = e
        BY <1>1, <2>1, <2>3
    <2> QED
        BY <2>3, <2>4 DEF Range
<1>4. Head(td) \in Range(td)
    BY <1>1 DEF Range
<1> QED
    BY <1>1, <1>3, <1>4

LEMMA FitCounts ==
    ASSUME FitInv, At("calc"), P # Null, Count(P),
           UNCHANGED <<src, ver, pass, image, pool>>, xlat' = xlat \/ Register(P, P)
    PROVE  \E C : Measured(C, counted') /\ Survey(src, ver, todo', xlat', C)
<1> DEFINE o == Obj(P)
           s == CalcSlots(o)
<1>1. /\ pass = "calc" /\ todo # <<>> /\ counted' = counted + 1 /\ counted \in Nat
      /\ todo' = Of(P, s) \o Tail(todo) /\ TypeInv /\ Owned(src)
    BY DEF At, Count, Descend, FitInv, CopyInv, TypeInv
<1>2. PICK C : Measured(C, counted) /\ Survey(src, ver, todo, xlat, C)
    BY <1>1 DEF FitInv
<1> DEFINE D == C \cup {P}
<1>3. SrcPtr(src, P)
    BY <1>1, HeadIs
<1>4. /\ Obj(P) = src[P[2]] /\ Shaped(Obj(P))
      /\ Owner[2] \in DOMAIN src
      /\ Head(todo)[2] \in DOMAIN src[Owner[2]].f
      /\ Head(todo)[3] \in DOMAIN src[Owner[2]].f[Head(todo)[2]]
      /\ P = src[Owner[2]].f[Head(todo)[2]][Head(todo)[3]]
      /\ IsSeq(todo) /\ IsSeq(Tail(todo)) /\ Entry("calc", src, image, Head(todo))
    BY <1>1, HeadIs
<1>5. Measured(D, counted')
    <2>1. IsFiniteSet(C) /\ Cardinality(C) \in Nat /\ Cardinality(C) <= counted
        BY <1>2, FS_CardinalityType DEF Measured
    <2>2. IsFiniteSet(D) /\ Cardinality(D) <= Cardinality(C) + 1
        BY <2>1, FS_AddElement
    <2>3. Cardinality(D) \in Nat
        BY <2>2, FS_CardinalityType
    <2> QED
        BY <1>1, <2>1, <2>2, <2>3 DEF Measured
<1>6. P[1] = "src" /\ P[2] \in DOMAIN src /\ P = <<"src", P[2]>>
    BY <1>3 DEF SrcPtr
<1>7. CalcFine(o, s) /\ (~Passed(o) => CalcsAll(o, s))
    BY <1>4, CalcIs
<1>8. <<"src", "script">> \in D /\ DOMAIN xlat' \subseteq D
    <2>1. CASE xlat' = xlat
        BY <2>1, <1>2 DEF Survey
    <2>2. CASE Register(P, P)
        BY <2>2, <1>2 DEF Register, Survey
    <2> QED
        BY <2>1, <2>2
<1>9. \A q \in D : SrcPtr(src, q)
    BY <1>2, <1>3 DEF Survey
<1> HIDE DEF o, s
<1>10. /\ Head(todo) \in Range(todo) /\ Range(Tail(todo)) \subseteq Range(todo)
       /\ \A e \in Range(todo) : e = Head(todo) \/ e \in Range(Tail(todo))
    BY <1>1, <1>4, HeadOrTail
<1>11. /\ IsSeq(Of(P, s)) /\ Range(todo') = Range(Of(P, s)) \cup Range(Tail(todo))
       /\ \A e \in Range(Of(P, s)) : \E x \in Range(s) : e = <<P, x[1], x[2], x[3]>>
       /\ \A x \in Range(s) : <<P, x[1], x[2], x[3]>> \in Range(Of(P, s))
    <2>1. IsSeq(s)
        BY <1>7 DEF CalcFine, Within
    <2>2. /\ IsSeq(Of(P, s)) /\ DOMAIN Of(P, s) = DOMAIN s
          /\ \A j \in DOMAIN s : Of(P, s)[j] = <<P, s[j][1], s[j][2], s[j][3]>>
          /\ \A e \in Range(Of(P, s)) : \E x \in Range(s) : e = <<P, x[1], x[2], x[3]>>
        BY <2>1, OfIs
    <2>3. Range(todo') = Range(Of(P, s)) \cup Range(Tail(todo))
        BY <1>1, <1>4, <2>2, ConcatIs
    <2>4. ASSUME NEW x \in Range(s)
          PROVE  <<P, x[1], x[2], x[3]>> \in Range(Of(P, s))
        <3>1. PICK j \in DOMAIN s : x = s[j]
            BY DEF Range
        <3>2. j \in DOMAIN Of(P, s) /\ Of(P, s)[j] = <<P, x[1], x[2], x[3]>>
            BY <2>2, <3>1
        <3> QED
            BY <3>2 DEF Range
    <2> QED
        BY <2>2, <2>3, <2>4
<1>12. \A e \in Range(todo') : e[1] \in D /\ e[2] \notin Translated
    <2>1. ASSUME NEW e \in Range(Of(P, s))
          PROVE  e[1] \in D /\ e[2] \notin Translated
        <3>1. PICK x \in Range(s) : e = <<P, x[1], x[2], x[3]>>
            BY <1>11
        <3>2. e[1] = P /\ e[2] = x[1]
            BY <3>1
        <3> QED
            BY <3>2, <1>7 DEF CalcFine
    <2> QED
        BY <2>1, <1>2, <1>10, <1>11 DEF Survey
<1>13. ASSUME NEW q \in D \ {<<"src", "script">>}
       PROVE  Refers(src, D, q)
    <2>1. CASE q \in C
        BY <2>1, <1>2 DEF Survey, Refers
    <2>2. CASE q = P
        <3>1. Owner \in C /\ Head(todo)[2] \notin Translated
            BY <1>2, <1>10 DEF Survey, Owner
        <3>2. Owner = <<"src", Owner[2]>>
            BY <3>1, <1>2 DEF Survey, SrcPtr
        <3> QED
            BY <3>1, <3>2, <2>2, <1>4 DEF Refers
    <2> QED
        BY <2>1, <2>2
<1>14. ASSUME NEW n \in DOMAIN src, <<"src", n>> \in D,
              NEW f \in Counted(ver, src[n]), f \in DOMAIN src[n].f,
              NEW i \in DOMAIN src[n].f[f]
       PROVE  src[n].f[f][i] \in D \cup {Null} \/ Waiting(todo', <<"src", n>>, f, i)
    <2>1. CASE <<"src", n>> \in C
        <3>1. src[n].f[f][i] \in C \cup {Null} \/ Waiting(todo, <<"src", n>>, f, i)
            BY <1>2, <1>14, <2>1 DEF Survey, Surveyed
        <3>2. CASE src[n].f[f][i] \in C \cup {Null}
            BY <3>2
        <3>3. CASE Waiting(todo, <<"src", n>>, f, i)
            <4>1. PICK e \in Range(todo) : e[1] = <<"src", n>> /\ e[2] = f /\ e[3] = i
                BY <3>3 DEF Waiting
            <4>2. CASE e = Head(todo)
                <5>1. Owner[2] = n /\ Head(todo)[2] = f /\ Head(todo)[3] = i
                    BY <4>1, <4>2 DEF Owner
                <5> QED
                    BY <5>1, <1>4
            <4>3. CASE e \in Range(Tail(todo))
                BY <4>1, <4>3, <1>11 DEF Waiting
            <4> QED
                BY <4>2, <4>3, <1>10
        <3> QED
            BY <3>1, <3>2, <3>3
    <2>2. CASE <<"src", n>> \notin C
        <3>0. P = <<"src", n>>
            BY <2>2, <1>14
        <3>1. P = <<"src", n>> /\ o = src[n]
            BY <3>0, <1>4 DEF o
        <3>2. CalcsAll(o, s)
            BY <1>1, <1>2, <1>7, <2>2, <3>1, NotPassed
        <3>3. PICK m : <<f, i, m>> \in Range(s)
            BY <3>1, <3>2, <1>14 DEF CalcsAll, CountedFields
        <3>4. <<P, f, i, m>> \in Range(todo')
            BY <3>3, <1>11
        <3> QED
            BY <3>1, <3>4 DEF Waiting
    <2> QED
        BY <2>1, <2>2
<1>15. Survey(src, ver, todo', xlat', D)
    BY <1>8, <1>9, <1>12, <1>13, <1>14 DEF Survey, Surveyed
<1> QED
    BY <1>5, <1>15

\* What is known, or nothing, is left behind.
LEMMA FitSkips ==
    ASSUME FitInv, CalcKnown
    PROVE  \E C : Measured(C, counted) /\ Survey(src, ver, Tail(todo), xlat, C)
<1>1. /\ pass = "calc" /\ todo # <<>> /\ TypeInv
      /\ P = Null \/ P \in DOMAIN xlat
    BY DEF CalcKnown, At, FitInv, CopyInv
<1>2. PICK C : Measured(C, counted) /\ Survey(src, ver, todo, xlat, C)
    BY <1>1 DEF FitInv
<1>3. /\ P = src[Owner[2]].f[Head(todo)[2]][Head(todo)[3]] /\ IsSeq(todo)
    BY <1>1, HeadIs
<1>4. P \in C \cup {Null}
    BY <1>1, <1>2 DEF Survey
<1>5. /\ Range(Tail(todo)) \subseteq Range(todo)
      /\ \A e \in Range(todo) : e = Head(todo) \/ e \in Range(Tail(todo))
    BY <1>1, <1>3, HeadOrTail
<1>6. Surveyed(src, ver, Tail(todo), C)
    <2> SUFFICES ASSUME NEW n \in DOMAIN src, <<"src", n>> \in C,
                        NEW f \in Counted(ver, src[n]), f \in DOMAIN src[n].f,
                        NEW i \in DOMAIN src[n].f[f],
                        src[n].f[f][i] \notin C \cup {Null}
                 PROVE  Waiting(Tail(todo), <<"src", n>>, f, i)
        BY DEF Surveyed
    <2>1. PICK e \in Range(todo) : e[1] = <<"src", n>> /\ e[2] = f /\ e[3] = i
        BY <1>2 DEF Survey, Surveyed, Waiting
    <2>2. CASE e = Head(todo)
        <3>1. Owner[2] = n /\ Head(todo)[2] = f /\ Head(todo)[3] = i
            BY <2>1, <2>2 DEF Owner
        <3> QED
            BY <3>1, <1>3, <1>4
    <2>3. CASE e \in Range(Tail(todo))
        BY <2>1, <2>3 DEF Waiting
    <2> QED
        BY <2>2, <2>3, <1>5
<1>7. Survey(src, ver, Tail(todo), xlat, C)
    BY <1>2, <1>5, <1>6 DEF Survey
<1> QED
    BY <1>2, <1>7

\* What waits in persist is counted, before and after the block has changed.
LEMMA CountedAlike ==
    ASSUME NEW a, NEW b, Alike(a, b), NEW version
    PROVE  Counted(version, a) = Counted(version, b)
BY DEF Alike, Counted

LEMMA FitFills ==
    ASSUME FitInv, pass = "persist", todo # <<>>,
           NEW C, Covered(src, ver, image, todo, C),
           NEW new, Grows(image, new), DOMAIN new = DOMAIN image,
           NEW td, NEW p, NEW s,
           \/ td = Tail(todo)
           \/ /\ IsSeq(Of(p, s)) /\ td = Of(p, s) \o Tail(todo)
              /\ \A e \in Range(Of(p, s)) : e[4] = "patch"
    PROVE  Covered(src, ver, new, td, C)
<1>1. /\ TypeInv /\ IsSeq(todo) /\ IsSeq(Tail(todo))
      /\ Entries("persist", src, image, todo)
    BY HeadIs DEF FitInv, CopyInv, TypeInv
<1>2. Range(Tail(todo)) \subseteq Range(todo)
    BY <1>1, HeadOrTail
<1>3. ASSUME NEW e \in Range(td), e[4] \in Copying
      PROVE  e \in Range(todo)
    <2>1. CASE td = Tail(todo)
        BY <2>1, <1>2
    <2>2. CASE /\ IsSeq(Of(p, s)) /\ td = Of(p, s) \o Tail(todo)
               /\ \A f \in Range(Of(p, s)) : f[4] = "patch"
        <3> DEFINE t == Of(p, s)
        <3> HIDE DEF t
        <3>1. IsSeq(t) /\ td = t \o Tail(todo) /\ \A f \in Range(t) : f[4] \notin Copying
            BY <2>2 DEF t, Copying
        <3>2. Range(td) = Range(t) \cup Range(Tail(todo))
            BY <3>1, <1>1, ConcatIs
        <3> QED
            BY <3>1, <3>2, <1>2, <1>3
    <2> QED
        BY <2>1, <2>2
<1>4. ASSUME NEW e \in Range(td), e[4] \in Copying
      PROVE  e[2] \in Counted(ver, new[e[1][2]]) \cup {"doc"}
    <2>1. e \in Range(todo) /\ Entry("persist", src, image, e)
        BY <1>1, <1>3, <1>4 DEF Entries
    <2>2. e[1][2] \in DOMAIN image
        BY <2>1, OwnerIs DEF Entry
    <2>3. Alike(new[e[1][2]], image[e[1][2]])
        BY <2>2 DEF Grows
    <2>4. Counted(ver, new[e[1][2]]) = Counted(ver, image[e[1][2]])
        BY <2>3, CountedAlike
    <2>5. e[2] \in Counted(ver, image[e[1][2]]) \cup {"doc"}
        BY <2>1, <1>4 DEF Covered
    <2> QED
        BY <2>4, <2>5
<1>5. \A k \in DOMAIN new : new[k].of \in C \cup Docs(src)
    BY DEF Covered, Grows
<1> QED
    BY <1>4, <1>5 DEF Covered

LEMMA FitCopies ==
    ASSUME FitInv, At("persist"), P # Null, Mode \in Copying, Copy, UNCHANGED <<src, ver>>,
           NEW C, Covered(src, ver, image, todo, C)
    PROVE  Covered(src, ver, image', todo', C)
<1> DEFINE k == Len(image) + 1
           q == <<"img", k>>
           s == PersistSlots(Obj(P))
           jo == Owner[2]
           fo == Head(todo)[2]
           io == Head(todo)[3]
           n == image[jo].of[2]
<1>1. /\ pass = "persist" /\ todo # <<>> /\ TypeInv /\ CopyInv
    BY DEF At, FitInv, CopyInv
<1>2. /\ Grows(image, image')
      /\ k \notin DOMAIN image /\ DOMAIN image' = DOMAIN image \cup {k}
      /\ image'[k].of = Origin(P) /\ image'[k].f = Obj(P).f
      /\ Entries("persist", src, image', todo') /\ Blocks(src, image')
      /\ PersistFine(Obj(P), s)
    BY <1>1, CopyIs
<1>3. todo' = Of(q, s) \o Tail(todo)
    BY DEF Copy, Descend
<1>4. SrcPtr(src, P) /\ src[n].f[fo][io] = P
    BY <1>1, NoTwin
<1>5. Origin(P) = P /\ Obj(P) = src[P[2]]
    <2>0. SrcPtr(src, P)
        BY <1>4
    <2>1. P[1] = "src"
        BY <2>0 DEF SrcPtr
    <2> QED
        BY <2>1 DEF Origin, Obj
<1>6. /\ jo \in DOMAIN image /\ fo \in DOMAIN image[jo].f /\ io \in DOMAIN image[jo].f[fo]
      /\ Head(todo) \in Range(todo) /\ IsSeq(todo) /\ IsSeq(Tail(todo))
      /\ Entries("persist", src, image, Tail(todo))
    BY <1>1, HeadIs, HeadOrTail
<1>7. q[2] = k
    OBVIOUS
<1> HIDE DEF k, q, s
<1>8. BlockOf(src, image[jo])
    BY <1>1, <1>6 DEF TypeInv, Blocks
<1>9. /\ n \in DOMAIN src /\ image[jo].of = <<"src", n>> /\ Alike(image[jo], src[n])
    BY <1>8 DEF BlockOf, SrcPtr
<1>10. fo \in DOMAIN src[n].f /\ io \in DOMAIN src[n].f[fo]
    BY <1>6, <1>9 DEF Alike
<1>11. fo \in Counted(ver, src[n]) \cup {"doc"}
    <2>1. fo \in Counted(ver, image[jo]) \cup {"doc"}
        BY <1>6 DEF Covered, Mode, Owner
    <2>2. Counted(ver, image[jo]) = Counted(ver, src[n])
        BY <1>9, CountedAlike
    <2> QED
        BY <2>1, <2>2
<1>12. P \in C \cup Docs(src)
    <2>1. CASE fo = "doc"
        <3>1. Field(src[n], "doc") = src[n].f["doc"] /\ P \in Range(Field(src[n], "doc"))
            BY <2>1, <1>4, <1>10 DEF Field, Range
        <3>2. n \in DOMAIN src
            BY <1>9
        <3> HIDE DEF n
        <3>3. Range(Field(src[n], "doc")) \in {Range(Field(src[m], "doc")) : m \in DOMAIN src}
            BY <3>2
        <3>4. P \in UNION {Range(Field(src[m], "doc")) : m \in DOMAIN src}
            BY <3>1, <3>3
        <3>5. P \in Docs(src)
            BY <3>4, Zenon DEF Docs
        <3> QED
            BY <3>5
    <2>2. CASE fo # "doc"
        <3>1. fo \in Counted(ver, src[n])
            BY <2>2, <1>11
        <3>2. <<"src", n>> \in C
            <4>1. image[jo].of \in C \cup Docs(src)
                BY <1>6 DEF Covered
            <4>2. <<"src", n>> \notin Docs(src)
                <5>1. SUFFICES ASSUME <<"src", n>> \in Docs(src) PROVE FALSE
                    OBVIOUS
                <5>2. src[n].kind = "str"
                    <6> DEFINE p == <<"src", n>>
                    <6>1. p[2] = n
                        OBVIOUS
                    <6> HIDE DEF p
                    <6>2. src[p[2]].kind = "str"
                        BY <5>1 DEF FitInv, DocsFit, p
                    <6> QED
                        BY <6>1, <6>2
                <5> QED
                    BY <5>2, <3>1 DEF Counted, Tables
            <4> QED
                BY <4>1, <4>2, <1>9
        <3>3. P \in C \cup {Null}
            <4>1. Surveyed(src, ver, <<>>, C)
                BY DEF Covered
            <4>2. \A p, f, i : ~ Waiting(<<>>, p, f, i)
                BY DEF Waiting, Range
            <4> HIDE DEF fo, io, n
            <4> QED
                BY <4>1, <4>2, <3>1, <3>2, <1>4, <1>9, <1>10 DEF Surveyed
        <3> QED
            BY <3>3
    <2> QED
        BY <2>1, <2>2
<1>13. \A j \in DOMAIN image' : image'[j].of \in C \cup Docs(src)
    <2>1. \A j \in DOMAIN image : image'[j].of = image[j].of /\ image[j].of \in C \cup Docs(src)
        BY <1>2 DEF Grows, Covered
    <2> QED
        BY <2>1, <1>2, <1>5, <1>12
<1>14. IsSeq(Of(q, s)) /\ \A e \in Range(Of(q, s)) : \E x \in Range(s) :
                               e = <<q, x[1], x[2], x[3]>>
    BY <1>2, OfIs DEF PersistFine, Within
<1>15. Range(todo') = Range(Of(q, s)) \cup Range(Tail(todo))
    BY <1>3, <1>6, <1>14, ConcatIs
<1>16. ASSUME NEW e \in Range(todo'), e[4] \in Copying
       PROVE  e[2] \in Counted(ver, image'[e[1][2]]) \cup {"doc"}
    <2>1. CASE e \in Range(Of(q, s))
        <3>1. PICK x \in Range(s) : e = <<q, x[1], x[2], x[3]>>
            BY <2>1, <1>14
        <3>2. e[1] = q /\ e[2] = x[1] /\ e[4] = x[3]
            BY <3>1
        <3>3. x[1] \in Counted(ver, Obj(P)) \cup {"doc"}
            BY <3>2, <1>2, <1>16 DEF PersistFine, SlotFine, CountedFields
        <3>4. k \in DOMAIN image' /\ image'[k].kind = Obj(P).kind
            <4>1. BlockOf(src, image'[k]) /\ image'[k].of = P
                BY <1>2, <1>5 DEF Blocks
            <4> QED
                BY <4>1, <1>2, <1>5 DEF BlockOf, Alike
        <3>5. Counted(ver, image'[k]) = Counted(ver, Obj(P))
            BY <3>4 DEF Counted
        <3> QED
            BY <3>2, <3>3, <3>5, <1>7
    <2>2. CASE e \in Range(Tail(todo))
        <3>1. Entry("persist", src, image, e)
            BY <2>2, <1>6 DEF Entries
        <3>2. e[1][2] \in DOMAIN image
            BY <3>1, OwnerIs DEF Entry
        <3>3. Alike(image'[e[1][2]], image[e[1][2]])
            BY <3>2, <1>2 DEF Grows
        <3>4. Counted(ver, image'[e[1][2]]) = Counted(ver, image[e[1][2]])
            BY <3>3, CountedAlike
        <3>5. e \in Range(todo)
            BY <2>2, <1>1, <1>6, HeadOrTail
        <3> QED
            BY <3>4, <3>5, <1>16 DEF Covered
    <2> QED
        BY <2>1, <2>2, <1>15
<1> QED
    BY <1>13, <1>16 DEF Covered

LEMMA FitStarts ==
    /\ FitInv /\ StartCalc => \E C : Measured(C, counted') /\ Survey(src, ver, todo', xlat', C)
    /\ FitInv /\ StartPersist =>
           \E C : Measured(C, counted) /\ Covered(src, ver, image', todo', C)
<1> DEFINE o == src["script"]
<1>1. ASSUME FitInv
      PROVE  TypeInv /\ "script" \in DOMAIN src /\ Shaped(o)
    BY <1>1 DEF FitInv, CopyInv, TypeInv, IsGraph
<1>2. ASSUME FitInv, StartCalc
      PROVE  \E C : Measured(C, counted') /\ Survey(src, ver, todo', xlat', C)
    <2> DEFINE p == <<"src", "script">>
               s == CalcSlots(o)
               C == {p}
    <2>1. /\ pass = "start" /\ counted' = 1 /\ xlat' = <<>> /\ xlat = <<>>
          /\ todo' = Of(p, s)
        BY <1>2 DEF StartCalc, FitInv
    <2>2. ~ Passed(o)
        <3>1. DOMAIN xlat = {}
            BY <2>1
        <3> QED
            BY <3>1 DEF Passed, OpcodesKnown
    <2>3. CalcFine(o, s) /\ CalcsAll(o, s)
        BY <1>1, <1>2, <2>2, CalcIs
    <2>4. Measured(C, counted')
        <3>1. IsFiniteSet(C) /\ Cardinality(C) = 1
            BY FS_Singleton
        <3> QED
            BY <3>1, <2>1 DEF Measured
    <2>5. SrcPtr(src, p)
        BY <1>1, <1>2 DEF SrcPtr
    <2> HIDE DEF s
    <2>6. /\ DOMAIN Of(p, s) = DOMAIN s
          /\ \A j \in DOMAIN s : Of(p, s)[j] = <<p, s[j][1], s[j][2], s[j][3]>>
          /\ \A e \in Range(Of(p, s)) : \E x \in Range(s) : e = <<p, x[1], x[2], x[3]>>
        BY <2>3, OfIs DEF CalcFine, Within
    <2>7. \A e \in Range(todo') : e[1] \in C /\ e[2] \notin Translated
        <3> SUFFICES ASSUME NEW e \in Range(todo')
                     PROVE  e[1] = p /\ e[2] \notin Translated
            OBVIOUS
        <3>1. PICK x \in Range(s) : e = <<p, x[1], x[2], x[3]>>
            BY <2>1, <2>6
        <3>2. e[1] = p /\ e[2] = x[1]
            BY <3>1
        <3> QED
            BY <3>2, <2>3 DEF CalcFine
    <2>8. Surveyed(src, ver, todo', C)
        <3> SUFFICES ASSUME NEW n \in DOMAIN src, <<"src", n>> \in C,
                            NEW f \in Counted(ver, src[n]), f \in DOMAIN src[n].f,
                            NEW i \in DOMAIN src[n].f[f]
                     PROVE  Waiting(todo', <<"src", n>>, f, i)
            BY DEF Surveyed
        <3>1. n = "script" /\ src[n] = o /\ <<"src", n>> = p
            OBVIOUS
        <3>2. PICK m : <<f, i, m>> \in Range(s)
            BY <3>1, <2>3 DEF CalcsAll, CountedFields
        <3>3. PICK j \in DOMAIN s : s[j] = <<f, i, m>>
            BY <3>2 DEF Range
        <3>4. j \in DOMAIN todo' /\ todo'[j] = <<p, f, i, m>>
            BY <3>3, <2>1, <2>6
        <3>5. todo'[j] \in Range(todo')
            BY <3>4 DEF Range
        <3> QED
            BY <3>1, <3>4, <3>5 DEF Waiting
    <2>9. Survey(src, ver, todo', xlat', C)
        BY <2>1, <2>5, <2>7, <2>8 DEF Survey
    <2> QED
        BY <2>4, <2>9
<1>3. ASSUME FitInv, StartPersist
      PROVE  \E C : Measured(C, counted) /\ Covered(src, ver, image', todo', C)
    <2> DEFINE b == [kind |-> "script", of |-> <<"src", "script">>, f |-> o.f]
               q == <<"img", 1>>
               s == PersistSlots(o)
    <2>1. /\ pass = "calc" /\ todo = <<>>
          /\ image' = <<b>> /\ todo' = Of(q, s)
        BY <1>3 DEF StartPersist
    <2>2. PICK C : Measured(C, counted) /\ Survey(src, ver, todo, xlat, C)
        BY <1>3, <2>1 DEF FitInv
    <2>3. b.of = <<"src", "script">> /\ b.kind = "script" /\ q[2] = 1
        OBVIOUS
    <2>4. o.kind = "script"
        BY <1>1, <1>3 DEF TypeInv, IsGraph
    <2>5. PersistFine(o, s)
        BY <1>1, <1>3, PersistIs
    <2> HIDE DEF b, q, s
    <2>6. DOMAIN image' = {1} /\ image'[1] = b
        BY <2>1
    <2>7. \A k \in DOMAIN image' : image'[k].of \in C \cup Docs(src)
        BY <2>2, <2>3, <2>6 DEF Survey
    <2>8. ASSUME NEW e \in Range(todo'), e[4] \in Copying
          PROVE  e[2] \in Counted(ver, image'[e[1][2]]) \cup {"doc"}
        <3>1. \A d \in Range(todo') : \E x \in Range(s) : d = <<q, x[1], x[2], x[3]>>
            BY <2>1, <2>5, OfIs DEF PersistFine, Within
        <3>2. PICK x \in Range(s) : e = <<q, x[1], x[2], x[3]>>
            BY <3>1
        <3>3. e[1] = q /\ e[2] = x[1] /\ e[4] = x[3]
            BY <3>2
        <3>4. x[1] \in Counted(ver, o) \cup {"doc"}
            BY <3>3, <2>5, <2>8 DEF PersistFine, SlotFine, CountedFields
        <3>5. Counted(ver, image'[1]) = Counted(ver, o)
            BY <2>3, <2>4, <2>6 DEF Counted
        <3> QED
            BY <2>3, <3>3, <3>4, <3>5
    <2>9. Surveyed(src, ver, <<>>, C)
        BY <2>1, <2>2 DEF Survey
    <2> QED
        BY <2>2, <2>7, <2>8, <2>9 DEF Covered
<1> QED
    BY <1>2, <1>3

\* The steps of persist.
LEMMA FitPersists ==
    ASSUME FitInv, pass = "persist", [Next]_vars, pass' = "persist"
    PROVE  /\ src' = src /\ ver' = ver /\ counted' = counted
           /\ \E C : Measured(C, counted) /\ Covered(src, ver, image', todo', C)
<1>0. /\ TypeInv /\ CopyInv
    BY DEF FitInv, CopyInv
<1>1. PICK C : Measured(C, counted) /\ Covered(src, ver, image, todo, C)
    BY DEF FitInv
<1>2. Grows(image, image)
    BY DEF Grows, Alike
<1>3. ASSUME todo # <<>>, NEW q, image' = Set(image, q)
      PROVE  Grows(image, image') /\ DOMAIN image' = DOMAIN image
    <2> DEFINE k == Owner[2]
               f == Head(todo)[2]
               i == Head(todo)[3]
    <2>1. k \in DOMAIN image /\ f \in DOMAIN image[k].f /\ i \in DOMAIN image[k].f[f]
        BY <1>0, <1>3, HeadIs
    <2>2. image' = Put(image, k, f, i, q) /\ Blocks(src, image)
        BY <1>0, <1>3 DEF Set, Put, TypeInv
    <2> HIDE DEF k, f, i
    <2> QED
        BY <2>1, <2>2, SetIs
<1>4. CASE PersistNull
    <2>1. /\ todo # <<>> /\ todo' = Tail(todo) /\ image' = image
          /\ src' = src /\ ver' = ver /\ counted' = counted
        BY <1>4 DEF PersistNull, At, Skip
    <2>2. Covered(src, ver, image, Tail(todo), C)
        BY <1>1, <1>2, <2>1, FitFills
    <2> QED
        BY <1>1, <2>1, <2>2
<1>5. CASE PersistComplexAst \/ PersistKnown \/ PersistTranslate
    <2>1. /\ todo # <<>> /\ todo' = Tail(todo) /\ \E q : image' = Set(image, q)
          /\ src' = src /\ ver' = ver /\ counted' = counted
        <3>1. CASE PersistComplexAst
            BY <3>1 DEF PersistComplexAst, At, Skip
        <3>2. CASE PersistKnown
            BY <1>0, <3>2, KnownSkips
        <3>3. CASE PersistTranslate
            BY <3>3 DEF PersistTranslate, At, Skip
        <3> QED
            BY <1>5, <3>1, <3>2, <3>3
    <2>2. Grows(image, image') /\ DOMAIN image' = DOMAIN image
        BY <1>3, <2>1
    <2>3. Covered(src, ver, image', Tail(todo), C)
        BY <1>1, <2>1, <2>2, FitFills
    <2> QED
        BY <1>1, <2>1, <2>3
<1>6. CASE PersistCopy \/ PersistData
    <2>1. /\ At("persist") /\ P # Null /\ Mode \in Copying /\ Copy
          /\ src' = src /\ ver' = ver /\ counted' = counted
        BY <1>6 DEF PersistCopy, PersistData, Shareable, Is, Copying
    <2>2. Covered(src, ver, image', todo', C)
        BY <1>1, <2>1, FitCopies
    <2> QED
        BY <1>1, <2>1, <2>2
<1>7. CASE PersistUpdate
    <2> DEFINE s == UpdateClass(Obj(P))
    <2>1. /\ todo # <<>> /\ Mode = "update" /\ todo' = Of(P, s) \o Tail(todo) /\ image' = image
          /\ src' = src /\ ver' = ver /\ counted' = counted
        BY <1>7 DEF PersistUpdate, At, Is, Descend
    <2>2. Shaped(Obj(P))
        BY <1>0, <2>1, UpdatedIs
    <2>3. Loose(Obj(P), s) /\ \A x \in Range(s) : x[3] = "patch"
        BY <2>2, UpdateIs
    <2> HIDE DEF s
    <2>4. IsSeq(Of(P, s)) /\ \A e \in Range(Of(P, s)) : e[4] = "patch"
        <3>1. IsSeq(Of(P, s)) /\ \A e \in Range(Of(P, s)) : \E x \in Range(s) : e = <<P, x[1], x[2], x[3]>>
            BY <2>3, OfIs DEF Loose, Within
        <3> QED
            BY <3>1, <2>3
    <2> DEFINE t == Of(P, s) \o Tail(todo)
    <2>5. \/ t = Tail(todo)
          \/ /\ IsSeq(Of(P, s)) /\ t = Of(P, s) \o Tail(todo)
             /\ \A e \in Range(Of(P, s)) : e[4] = "patch"
        BY <2>4
    <2>6. todo' = t
        BY <2>1
    <2> HIDE DEF t
    <2>7. Covered(src, ver, image, t, C)
        BY <1>1, <1>2, <2>1, <2>5, FitFills
    <2> QED
        BY <1>1, <2>1, <2>6, <2>7
<1>8. CASE UNCHANGED vars
    BY <1>1, <1>8 DEF vars
<1> QED
    BY <1>4, <1>5, <1>6, <1>7, <1>8 DEF Next, StartCalc, CalcKnown, CalcOnce, CalcMark,
       CalcEach, StartPersist, StartSerialize, SerializeSkip, SerializeInterned, SerializePtr,
       SerializeNext, StartUnserialize, UnserializeSkip, UnserializeInterned, UnserializePtr,
       UnserializeNext, Loaded, Finished, At

LEMMA SetLen ==
    ASSUME TypeInv, todo # <<>>, pass # "calc", \E q : image' = Set(image, q)
    PROVE  Len(image') = Len(image)
<1> DEFINE k == Owner[2]
           f == Head(todo)[2]
           i == Head(todo)[3]
<1>1. k \in DOMAIN image /\ f \in DOMAIN image[k].f /\ i \in DOMAIN image[k].f[f]
    BY HeadIs
<1>2. PICK q : image' = Set(image, q)
    OBVIOUS
<1>3. image' = Put(image, k, f, i, q) /\ Blocks(src, image)
    BY <1>2 DEF Set, Put, TypeInv
<1> HIDE DEF k, f, i
<1> QED
    BY <1>1, <1>3, SetIs

LEMMA NothingFits == ASSUME NEW n \in Nat, NEW l, l = 0 PROVE l <= n + Slack
BY SlackAssumption

LEMMA FitNext == FitInv /\ [Next]_vars => FitInv'
<1> SUFFICES ASSUME FitInv, [Next]_vars PROVE FitInv'
    OBVIOUS
<1>1. /\ CopyInv /\ CopyInv' /\ DocsFit(src) /\ FitsBuffer /\ counted \in Nat
    BY CopyNext DEF FitInv, CopyInv, TypeInv
<1>2. CASE pass = "persist" /\ pass' = "persist"
    <2>1. /\ src' = src /\ ver' = ver /\ counted' = counted
          /\ \E C : Measured(C, counted) /\ Covered(src, ver, image', todo', C)
        BY <1>2, FitPersists
    <2>2. PICK C : Measured(C, counted) /\ Covered(src, ver, image', todo', C)
        BY <2>1
    <2>3. IsSeq(image') /\ Once(image')
        BY <1>1 DEF CopyInv, TypeInv, Blocks
    <2>4. Len(image') <= counted + Slack
        BY <1>1, <2>2, <2>3, CoveredFits DEF Covered
    <2> QED
        BY <1>1, <1>2, <2>1, <2>4 DEF FitInv, FitsBuffer
<1>3. CASE StartPersist
    <2>1. /\ src' = src /\ ver' = ver /\ counted' = counted /\ pass' = "persist"
          /\ \E C : Measured(C, counted) /\ Covered(src, ver, image', todo', C)
        BY <1>3, FitStarts DEF StartPersist
    <2>2. PICK C : Measured(C, counted) /\ Covered(src, ver, image', todo', C)
        BY <2>1
    <2>3. IsSeq(image') /\ Once(image')
        BY <1>1 DEF CopyInv, TypeInv, Blocks
    <2>4. Len(image') <= counted + Slack
        BY <1>1, <2>2, <2>3, CoveredFits DEF Covered
    <2> QED
        BY <1>1, <2>1, <2>4 DEF FitInv, FitsBuffer
<1>4. CASE StartCalc
    <2>1. /\ pass = "start" /\ pass' = "calc" /\ image = <<>> /\ image' = image
          /\ src' = src /\ ver' = ver
          /\ \E C : Measured(C, counted') /\ Survey(src, ver, todo', xlat', C)
        BY <1>4, FitStarts DEF StartCalc, FitInv
    <2>2. Len(image') = 0 /\ counted' \in Nat
        BY <1>1, <2>1 DEF CopyInv, TypeInv
    <2>3. Len(image') <= counted' + Slack
        BY <2>2, NothingFits
    <2> QED
        BY <1>1, <2>1, <2>3 DEF FitInv, FitsBuffer
<1>5. CASE CalcKnown \/ CalcOnce \/ CalcMark \/ CalcEach
    <2>1. /\ pass = "calc" /\ pass' = "calc" /\ image = <<>> /\ image' = image
          /\ src' = src /\ ver' = ver
        BY <1>5 DEF CalcKnown, CalcOnce, CalcMark, CalcEach, At, FitInv
    <2>2. \E C : Measured(C, counted') /\ Survey(src, ver, todo', xlat', C)
        <3>1. CASE CalcKnown
            BY <3>1, FitSkips DEF CalcKnown, Skip
        <3>2. CASE CalcOnce \/ CalcMark \/ CalcEach
            <4>1. /\ At("calc") /\ P # Null /\ Count(P)
                  /\ UNCHANGED <<src, ver, pass, image, pool>>
                  /\ xlat' = xlat \/ Register(P, P)
                BY <3>2 DEF CalcOnce, CalcMark, CalcEach
            <4> QED
                BY <4>1, FitCounts
        <3> QED
            BY <1>5, <3>1, <3>2
    <2>3. Len(image') = 0 /\ counted' \in Nat
        BY <1>1, <2>1 DEF CopyInv, TypeInv
    <2>4. Len(image') <= counted' + Slack
        BY <2>3, NothingFits
    <2> QED
        BY <1>1, <2>1, <2>2, <2>4 DEF FitInv, FitsBuffer
<1>6. CASE \/ StartSerialize \/ SerializeSkip \/ StartUnserialize \/ UnserializeSkip \/ Loaded
    <2>1. /\ src' = src /\ counted' = counted /\ image' = image
          /\ pass' \notin {"start", "calc", "persist"}
        BY <1>6 DEF StartSerialize, SerializeSkip, StartUnserialize, UnserializeSkip, Loaded, At
    <2> QED
        BY <1>1, <2>1 DEF FitInv, FitsBuffer
<1>7. CASE \/ SerializeInterned \/ SerializePtr \/ SerializeNext
           \/ UnserializeInterned \/ UnserializePtr \/ UnserializeNext
    <2>1. /\ src' = src /\ counted' = counted /\ todo # <<>> /\ pass # "calc"
          /\ pass' \notin {"start", "calc", "persist"}
        BY <1>7 DEF SerializeInterned, SerializePtr, SerializeNext,
           UnserializeInterned, UnserializePtr, UnserializeNext, At
    <2>2. \E q : image' = Set(image, q)
        <3>1. CASE SerializeInterned
            BY <3>1, Zenon DEF SerializeInterned
        <3>2. CASE SerializePtr
            BY <3>2, Zenon DEF SerializePtr
        <3>3. CASE SerializeNext
            BY <3>3, Zenon DEF SerializeNext
        <3>4. CASE UnserializeInterned
            BY <3>4, Zenon DEF UnserializeInterned
        <3>5. CASE UnserializePtr
            BY <3>5, Zenon DEF UnserializePtr
        <3>6. CASE UnserializeNext
            BY <3>6, Zenon DEF UnserializeNext
        <3> QED
            BY <1>7, <3>1, <3>2, <3>3, <3>4, <3>5, <3>6
    <2>3. Len(image') = Len(image)
        BY <1>1, <2>1, <2>2, SetLen DEF CopyInv
    <2> QED
        BY <1>1, <2>1, <2>3 DEF FitInv, FitsBuffer
<1>8. CASE Finished \/ UNCHANGED vars
    <2>1. vars' = vars
        BY <1>8 DEF Finished
    <2> QED
        BY <1>1, <2>1 DEF vars, FitInv, FitsBuffer
<1>9. CASE PersistNull \/ PersistComplexAst \/ PersistCopy \/ PersistData \/ PersistKnown
           \/ PersistTranslate \/ PersistUpdate
    <2>1. pass = "persist" /\ pass' = "persist"
        BY <1>9 DEF PersistNull, PersistComplexAst, PersistCopy, PersistData, PersistKnown,
           PersistTranslate, PersistUpdate, At
    <2> QED
        BY <2>1, <1>2
<1> QED
    BY <1>3, <1>4, <1>5, <1>6, <1>7, <1>8, <1>9 DEF Next

\* The image fits into the block that is allocated for it, for every script whose doc
\* comments, which calc leaves out and persist copies, fit into what is allocated beyond
\* the size that calc has summed up.
THEOREM FitsBufferHolds ==
    ASSUME \A s \in Scripts : Measured(Docs(s.objects), Slack)
    PROVE  Spec => []FitsBuffer
<1>1. Init => FitInv
    <2> SUFFICES ASSUME Init PROVE FitInv
        OBVIOUS
    <2>1. CopyInv
        BY CopyInit
    <2>2. PICK s \in Scripts : src = s.objects
        BY DEF Init
    <2>3. /\ pass = "start" /\ xlat = <<>> /\ image = <<>> /\ counted = 0
        BY DEF Init
    <2>4. ASSUME NEW p \in Docs(src) PROVE src[p[2]].kind = "str"
        <3>1. p # Null /\ \E n \in DOMAIN src : p \in Range(Field(src[n], "doc"))
            BY DEF Docs
        <3>2. PICK n \in DOMAIN src : p \in Range(Field(src[n], "doc"))
            BY <3>1
        <3>3. "doc" \in DOMAIN src[n].f /\ p \in Range(src[n].f["doc"])
            BY <3>2 DEF Field, Range
        <3>4. PICK i \in DOMAIN src[n].f["doc"] : p = src[n].f["doc"][i]
            BY <3>3 DEF Range
        <3>5. src[src[n].f.doc[i][2]].kind = "str"
            BY <2>2, <3>1, <3>3, <3>4, ScriptAssumption
        <3> QED
            BY <3>4, <3>5
    <2>5. DocsFit(src)
        BY <2>2, <2>4 DEF DocsFit
    <2>6. FitsBuffer
        BY <2>3, SlackAssumption DEF FitsBuffer
    <2> QED
        BY <2>1, <2>3, <2>5, <2>6 DEF FitInv
<1>2. FitInv => FitsBuffer
    BY DEF FitInv
<1> QED
    BY <1>1, <1>2, FitNext, PTL DEF Spec
=============================================================================
