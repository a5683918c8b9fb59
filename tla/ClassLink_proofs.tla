------------------------- MODULE ClassLink_proofs -------------------------
(***************************************************************************)
(* Proofs about the class linker, for every class table: what is linked    *)
(* stays closed under what it needs, names stay unique and bound, and the  *)
(* passes leave nothing behind.                                            *)
(*                                                                         *)
(* The inductive invariant adds two facts.  KeyInv: a bucket's key is its  *)
(* own RTD key or the name of its own class, for an anonymous class the    *)
(* name.  RoundInv: in a pass that has changed nothing yet, nothing before *)
(* the cursor could be linked.  For the constants, ResolveInv: in the      *)
(* resolver's pass, nothing behind it could be finished that is not.       *)
(***************************************************************************)
EXTENDS ClassLink, WellFoundedInduction, FiniteSetTheorems, TLAPS

-------------------------------------------------------------------------------
\* A set of numbers with 0 that is closed under successor has every natural number.
LEMMA SetInduction ==
    ASSUME NEW S, 0 \in S, \A n \in Nat : n \in S => n + 1 \in S
    PROVE  Nat \subseteq S
<1> SUFFICES ASSUME Nat \ S # {} PROVE FALSE
    OBVIOUS
<1> DEFINE R == {ss \in Nat \X Nat : ss[1] < ss[2]}
<1>1. IsWellFoundedOn(R, Nat)
    BY NatLessThanWellFounded DEF OpToRel
<1>2. PICK x \in Nat \ S : \A y \in Nat \ S : <<y, x>> \notin R
    <2> HIDE DEF R
    <2> QED
        BY <1>1, WFMin
<1>3. x # 0
    BY <1>2
<1>4. x - 1 \in S
    <2>1. x - 1 \in Nat /\ <<x - 1, x>> \in R
        BY <1>3
    <2> QED
        BY <2>1, <1>2
<1> QED
    BY <1>3, <1>4
-------------------------------------------------------------------------------


\* Keys never meet by accident.
LEMMA KeysDistinct ==
    ASSUME NEW m, NEW n, NEW i, NEW j
    PROVE  /\ Name(m) = Name(n) => m = n
           /\ Rtd(i) = Rtd(j) => i = j
           /\ Name(n) /= Rtd(i)
BY DEF Name, Rtd

KeyInv ==
    \A i \in Buckets :
        /\ key[i] = Rtd(i) \/ key[i] = Name(decl[i].name)
        /\ decl[i].kind = "anon" => key[i] = Name(decl[i].name)

RoundInv ==
    phase = "link" /\ ~changed => \A j \in Buckets : j < pos => ~Linkable(j)

\* The fields of a declaration.
LEMMA DeclFields ==
    ASSUME NEW d \in Decls
    PROVE  /\ d.name \in Names /\ d.kind \in Kinds
           /\ d.supers \subseteq Names /\ d.traits \subseteq Names
           /\ d.outcome \in Outcomes
BY DEF Decls

\* Whatever an expression evaluates is a class of the table.
LEMMA WithIsBuckets ==
    ASSUME NEW e
    PROVE  With(e) \subseteq Buckets
<1> SUFFICES ASSUME NEW x \in With(e) PROVE x \in Buckets
    OBVIOUS
<1>1. PICK s \in Evaluates(e) : x \in s
    BY DEF With
<1>2. PICK p \in UNION {[1 .. k -> Buckets] : k \in Buckets} : s = {p[m] : m \in DOMAIN p}
    BY <1>1 DEF Evaluates
<1>3. PICK k \in Buckets : p \in [1 .. k -> Buckets]
    BY <1>2
<1> QED
    BY <1>1, <1>2, <1>3

LEMMA InitTypeOK == Init => TypeOK
<1> SUFFICES ASSUME Init PROVE TypeOK
    OBVIOUS
<1>1. decl \in [Buckets -> Decls]
    BY TablesAssumption DEF Init, Buckets
<1>2. key \in [Buckets -> {Name(n) : n \in Names} \cup {Rtd(i) : i \in Buckets}]
    BY <1>1, DeclFields DEF Init, InitialKey
<1>3. /\ linked \subseteq Buckets /\ warned \subseteq Buckets
      /\ resolved \subseteq Buckets /\ propsDone \subseteq Buckets /\ updated \subseteq Buckets
    BY DEF Init
<1>4. phase \in {"link", "warn", "resolve", "done"} /\ pos \in 0 .. N + 1
    BY NAssumption DEF Init
<1>5. changed \in BOOLEAN
    BY Zenon DEF Init
<1> QED
    BY <1>1, <1>2, <1>3, <1>4, <1>5, Zenon DEF TypeOK

LEMMA NextTypeOK == TypeOK /\ [Next]_vars => TypeOK'
<1> SUFFICES ASSUME TypeOK, [Next]_vars PROVE TypeOK'
    OBVIOUS
<1> USE NAssumption
<1>1. CASE LinkSkip
    BY <1>1 DEF TypeOK, LinkSkip, Step, Buckets
<1>2. CASE LinkOk
    <2>1. PICK i \in Buckets : /\ key' = [key EXCEPT ![i] = Name(decl[i].name)]
                               /\ linked' = linked \cup {i}
                               /\ pos' = i + 1
        BY <1>2 DEF LinkOk, Step
    <2>2. decl[i].name \in Names
        BY DeclFields DEF TypeOK
    <2>3. key' \in [Buckets -> {Name(n) : n \in Names} \cup {Rtd(b) : b \in Buckets}]
        BY <2>1, <2>2 DEF TypeOK
    <2> QED
        BY <1>2, <2>1, <2>3 DEF TypeOK, LinkOk, Buckets
<1>3. CASE LinkNull
    <2>1. PICK i \in Buckets : /\ key' = [key EXCEPT ![i] = Name(decl[i].name)]
                               /\ pos' = i + 1
        BY <1>3 DEF LinkNull, Step
    <2>2. decl[i].name \in Names
        BY DeclFields DEF TypeOK
    <2>3. key' \in [Buckets -> {Name(n) : n \in Names} \cup {Rtd(b) : b \in Buckets}]
        BY <2>1, <2>2 DEF TypeOK
    <2> QED
        BY <1>3, <2>1, <2>3 DEF TypeOK, LinkNull, Buckets
<1>4. CASE LinkBailout
    BY <1>4 DEF TypeOK, LinkBailout, Step, Buckets
<1>5. CASE EndLinkPass
    <2>1. changed' \in BOOLEAN
        BY <1>5, Zenon DEF EndLinkPass
    <2>2. pos' \in 0 .. N + 1 /\ phase' \in {"link", "warn", "resolve", "done"}
        BY <1>5 DEF TypeOK, EndLinkPass
    <2>3. UNCHANGED <<decl, key, linked, warned, resolved, propsDone, updated>>
        BY <1>5 DEF EndLinkPass
    <2> QED
        BY <2>1, <2>2, <2>3 DEF TypeOK, Buckets
<1>6. CASE Warn
    BY <1>6 DEF TypeOK, Warn, Buckets
<1>7. CASE ResolveSkip
    BY <1>7 DEF TypeOK, ResolveSkip, Buckets
<1>8. CASE TryResolve
    <2>1. PICK i \in Buckets :
              /\ resolved' \subseteq resolved \cup {i} \cup With(decl[i].const)
                                     \cup With(decl[i].prop)
              /\ propsDone' \subseteq propsDone \cup {i}
              /\ updated' \subseteq updated \cup {i}
              /\ changed' \in BOOLEAN
              /\ pos' = i - 1
        BY <1>8 DEF TryResolve, TypeOK
    <2>2. resolved' \subseteq Buckets
        BY <2>1, WithIsBuckets DEF TypeOK
    <2>3. propsDone' \subseteq Buckets /\ updated' \subseteq Buckets
        BY <2>1 DEF TypeOK
    <2>4. pos' \in 0 .. N + 1
        BY <2>1 DEF Buckets
    <2>5. UNCHANGED <<decl, key, linked, warned, phase>>
        BY <1>8 DEF TryResolve
    <2> QED
        BY <2>1, <2>2, <2>3, <2>4, <2>5 DEF TypeOK, Buckets
<1>9. CASE EndResolvePass
    <2>1. changed' \in BOOLEAN
        BY <1>9, Zenon DEF EndResolvePass
    <2>2. pos' \in 0 .. N + 1 /\ phase' \in {"link", "warn", "resolve", "done"}
        BY <1>9 DEF TypeOK, EndResolvePass
    <2>3. UNCHANGED <<decl, key, linked, warned, resolved, propsDone, updated>>
        BY <1>9 DEF EndResolvePass
    <2> QED
        BY <2>1, <2>2, <2>3 DEF TypeOK, Buckets
<1>10. CASE UNCHANGED vars
    <2>1. changed' \in BOOLEAN
        BY <1>10, Zenon DEF TypeOK, vars
    <2>2. UNCHANGED <<decl, key, linked, warned, resolved, propsDone, updated, phase, pos>>
        BY <1>10 DEF vars
    <2> QED
        BY <2>1, <2>2 DEF TypeOK, Buckets
<1> QED
    BY <1>1, <1>2, <1>3, <1>4, <1>5, <1>6, <1>7, <1>8, <1>9, <1>10 DEF Next, Booted

\* The variables always are what they should be.
THEOREM TypeCorrect == Spec => []TypeOK
BY InitTypeOK, NextTypeOK, PTL DEF Spec
-----------------------------------------------------------------------------
IInv == TypeOK /\ KeyInv /\ NameOnce /\ LinkedClosed /\ RoundInv /\ AllLinked

\* What a step does to keys and links: nothing, or it gives one bucket its name, and
\* perhaps links it.
Renames(i) ==
    /\ Try(i)
    /\ key' = [key EXCEPT ![i] = Name(decl[i].name)]
    /\ \/ Outcome(i) = "ok" /\ linked' = linked \cup {i} /\ changed'
       \/ Outcome(i) = "null" /\ linked' = linked /\ changed' = changed
    /\ decl' = decl /\ phase' = phase /\ pos' = i + 1

LEMMA StepsOnKeys ==
    ASSUME [Next]_vars
    PROVE  \/ \E i \in Buckets : Renames(i)
           \/ UNCHANGED <<decl, key, linked>>
<1>1. CASE LinkOk
    BY <1>1 DEF LinkOk, Renames, Step
<1>2. CASE LinkNull
    BY <1>2 DEF LinkNull, Renames, Step
<1> QED
    BY <1>1, <1>2 DEF Next, LinkSkip, LinkBailout, EndLinkPass, Warn, ResolveSkip,
                      TryResolve, EndResolvePass, Booted, vars

\* A bucket that has a name has it after the step, and a linked one keeps its key.
LEMMA NamesKept ==
    ASSUME TypeOK, KeyInv, NEW i \in Buckets, Renames(i)
    PROVE  /\ i \notin linked
           /\ key'[i] = Name(decl[i].name)
           /\ \A j \in Buckets : j /= i => key'[j] = key[j]
           /\ \A j \in Buckets : \A n : key[j] = Name(n) => key'[j] = Name(n)
           /\ linked \subseteq linked'
<1>1. i \notin linked /\ linked \subseteq linked'
    BY DEF Renames, Try, NotMine
<1>2. /\ key'[i] = Name(decl[i].name)
      /\ \A j \in Buckets : j /= i => key'[j] = key[j]
    BY DEF Renames, TypeOK
<1>3. ASSUME NEW j \in Buckets, NEW n, key[j] = Name(n)
      PROVE  key'[j] = Name(n)
    <2>1. CASE j /= i
        BY <2>1, <1>2, <1>3
    <2>2. CASE j = i
        BY <2>2, <1>2, <1>3, KeysDistinct DEF KeyInv
    <2> QED
        BY <2>1, <2>2
<1> QED
    BY <1>1, <1>2, <1>3

LEMMA InitIInv == Init => IInv
<1> SUFFICES ASSUME Init PROVE IInv
    OBVIOUS
<1>1. TypeOK
    BY InitTypeOK
<1>2. KeyInv
    BY DEF Init, KeyInv, InitialKey
<1>3. NameOnce
    BY TablesAssumption DEF Init, NameOnce, Buckets
<1>4. LinkedClosed
    BY DEF Init, LinkedClosed
<1>5. RoundInv
    BY DEF Init, RoundInv, Buckets
<1>6. AllLinked
    BY DEF Init, AllLinked
<1> QED
    BY <1>1, <1>2, <1>3, <1>4, <1>5, <1>6 DEF IInv

LEMMA NextKeyInv == TypeOK /\ KeyInv /\ [Next]_vars => KeyInv'
<1> SUFFICES ASSUME TypeOK, KeyInv, [Next]_vars PROVE KeyInv'
    OBVIOUS
<1>1. CASE UNCHANGED <<decl, key, linked>>
    BY <1>1 DEF KeyInv, Buckets
<1>2. ASSUME NEW i \in Buckets, Renames(i) PROVE KeyInv'
    BY <1>2, NamesKept DEF KeyInv, Renames, Buckets
<1> QED
    BY <1>1, <1>2, StepsOnKeys

LEMMA NextNameOnce == TypeOK /\ KeyInv /\ NameOnce /\ [Next]_vars => NameOnce'
<1> SUFFICES ASSUME TypeOK, KeyInv, NameOnce, [Next]_vars PROVE NameOnce'
    OBVIOUS
<1>1. CASE UNCHANGED <<decl, key, linked>>
    BY <1>1 DEF NameOnce, Buckets
<1>2. ASSUME NEW i \in Buckets, Renames(i) PROVE NameOnce'
    <2>1. \A j \in Buckets : j /= i => key'[j] = key[j]
        BY <1>2, NamesKept
    <2>2. key'[i] = Name(decl[i].name)
        BY <1>2, NamesKept
    <2>3. \A j \in Buckets : j /= i => key[j] /= Name(decl[i].name)
        <3>1. CASE decl[i].kind = "anon"
            BY <3>1 DEF KeyInv, NameOnce
        <3>2. CASE decl[i].kind /= "anon"
            BY <3>2, <1>2 DEF Renames, Try, Taken
        <3> QED
            BY <3>1, <3>2
    <2> QED
        BY <2>1, <2>2, <2>3 DEF NameOnce, Buckets
<1> QED
    BY <1>1, <1>2, StepsOnKeys

\* What is linked under its name stays so; a step that links bucket i makes i's name
\* the only new one.
LEMMA LinkedAsKept ==
    ASSUME TypeOK, KeyInv, NEW i \in Buckets, Renames(i), NEW n, LinkedAs(n)
    PROVE  LinkedAs(n)'
<1>1. PICK j \in linked : key[j] = Name(n)
    BY DEF LinkedAs
<1>2. j \in linked' /\ key'[j] = Name(n)
    BY <1>1, NamesKept DEF TypeOK
<1> QED
    BY <1>2 DEF LinkedAs

LEMMA NextLinkedClosed ==
    TypeOK /\ KeyInv /\ LinkedClosed /\ [Next]_vars => LinkedClosed'
<1> SUFFICES ASSUME TypeOK, KeyInv, LinkedClosed, [Next]_vars PROVE LinkedClosed'
    OBVIOUS
<1>1. CASE UNCHANGED <<decl, key, linked>>
    BY <1>1 DEF LinkedClosed, LinkedAs, Needs
<1>2. ASSUME NEW i \in Buckets, Renames(i) PROVE LinkedClosed'
    <2> SUFFICES ASSUME NEW j \in linked', decl'[j].kind \notin {"internal", "earlier"},
                        NEW n \in Needs(j)'
                 PROVE  LinkedAs(n)'
        BY DEF LinkedClosed
    <2>1. n \in Needs(j) /\ decl[j].kind \notin {"internal", "earlier"}
        BY <1>2 DEF Needs, Renames
    <2>2. CASE j \in linked
        BY <2>1, <2>2, <1>2, LinkedAsKept DEF LinkedClosed
    <2>3. CASE j \notin linked
        <3>1. j = i /\ Outcome(i) = "ok"
            BY <2>3, <1>2 DEF Renames
        <3>2. LinkedAs(n)
            BY <3>1, <2>1 DEF Outcome, NotLinked, Needs
        <3> QED
            BY <3>2, <1>2, LinkedAsKept
    <2> QED
        BY <2>2, <2>3
<1> QED
    BY <1>1, <1>2, StepsOnKeys

\* Giving a class that is not linked its name makes nothing linkable.
LEMMA NullEnablesNothing ==
    ASSUME TypeOK, KeyInv, NEW i \in Buckets, Renames(i), linked' = linked,
           NEW j \in Buckets, Linkable(j)'
    PROVE  Linkable(j)
<1>1. decl' = decl
    BY DEF Renames
<1>2. \A k \in linked : key'[k] = key[k]
    BY NamesKept DEF TypeOK
<1>3. \A n : /\ LinkedAs(n)' <=> LinkedAs(n)
             /\ IsTrait(n)' <=> IsTrait(n)
    BY <1>1, <1>2 DEF LinkedAs, IsTrait
<1>4. ~NotMine(j)
    BY <1>1 DEF Linkable, NotMine
<1>5. ~Taken(j)
    BY <1>1, NamesKept DEF Linkable, Taken, Buckets
<1>6. Needs(j)' = Needs(j)
    BY <1>1 DEF Needs
<1> QED
    BY <1>1, <1>3, <1>4, <1>5, <1>6 DEF Linkable

LEMMA UnchangedLinkable ==
    ASSUME UNCHANGED <<decl, key, linked>>, NEW j \in Buckets
    PROVE  Linkable(j)' <=> Linkable(j)
BY DEF Linkable, NotMine, Taken, Needs, LinkedAs, IsTrait, Buckets

LEMMA NextRoundInv == TypeOK /\ KeyInv /\ RoundInv /\ [Next]_vars => RoundInv'
<1> SUFFICES ASSUME TypeOK, KeyInv, RoundInv, [Next]_vars,
                    phase' = "link", ~changed',
                    NEW j \in Buckets, j < pos'
             PROVE  ~Linkable(j)'
    BY DEF RoundInv, Buckets
<1>1. CASE LinkSkip
    <2>1. PICK i \in Buckets : /\ AtLink(i) /\ Step(i)
                               /\ NotMine(i) \/ Taken(i) \/ ~DepsPresent(i)
                               /\ UNCHANGED <<decl, key, linked, changed>>
        BY <1>1 DEF LinkSkip
    <2>2. ~Linkable(i)
        <3>1. ASSUME NEW n, LinkedAs(n) PROVE Present(n)
            BY <3>1 DEF LinkedAs, Present, TypeOK
        <3> QED
            BY <2>1, <3>1 DEF Linkable, DepsPresent, Needs
    <2>3. j < pos \/ j = i
        BY <2>1 DEF AtLink, Step, Buckets
    <2>4. ~Linkable(j)
        BY <2>1, <2>2, <2>3, Zenon DEF RoundInv, AtLink
    <2> QED
        BY <2>1, <2>4, UnchangedLinkable
<1>2. CASE LinkOk
    BY <1>2, Zenon DEF LinkOk
<1>3. CASE LinkNull
    <2>1. PICK i \in Buckets : Renames(i) /\ linked' = linked /\ Outcome(i) = "null"
        BY <1>3 DEF LinkNull, Renames, Step
    <2>2. ~changed /\ phase = "link"
        <3>1. phase = "link"
            BY <1>3 DEF LinkNull, Try, AtLink
        <3>2. changed' = changed
            BY <1>3, Zenon DEF LinkNull
        <3> QED
            BY <3>1, <3>2, Zenon
    <2>3. ~Linkable(i)
        BY <2>1 DEF Linkable, Outcome, NotLinked, Needs
    <2>4. j < pos \/ j = i
        BY <2>1 DEF Renames, Try, AtLink, Buckets
    <2>5. ~Linkable(j)
        BY <2>2, <2>3, <2>4 DEF RoundInv
    <2> QED
        BY <2>1, <2>5, NullEnablesNothing
<1>4. CASE LinkBailout
    <2>1. PICK i \in Buckets : /\ Try(i) /\ Step(i) /\ Outcome(i) = "bailout"
                               /\ UNCHANGED <<decl, key, linked, changed>>
        BY <1>4 DEF LinkBailout
    <2>2. ~Linkable(i)
        BY <2>1 DEF Linkable, Outcome, NotLinked, Needs
    <2>3. j < pos \/ j = i
        BY <2>1 DEF Try, AtLink, Step, Buckets
    <2>4. ~Linkable(j)
        BY <2>1, <2>2, <2>3, Zenon DEF RoundInv, Try, AtLink
    <2> QED
        BY <2>1, <2>4, UnchangedLinkable
<1>5. CASE EndLinkPass
    <2>1. pos' = 1
        BY <1>5 DEF EndLinkPass
    <2> QED
        BY <2>1 DEF Buckets
<1>6. CASE UNCHANGED vars
    <2>1. /\ UNCHANGED <<decl, key, linked, phase, pos>>
          /\ ~changed
        BY <1>6, Zenon DEF vars
    <2>2. ~Linkable(j)
        BY <2>1 DEF RoundInv
    <2> QED
        BY <2>1, <2>2, UnchangedLinkable
<1> QED
    BY <1>1, <1>2, <1>3, <1>4, <1>5, <1>6
    DEF Next, Warn, ResolveSkip, TryResolve, EndResolvePass, AtResolve, Booted

LEMMA NextAllLinked ==
    TypeOK /\ RoundInv /\ AllLinked /\ [Next]_vars => AllLinked'
<1> SUFFICES ASSUME TypeOK, RoundInv, AllLinked, [Next]_vars,
                    phase' /= "link", NEW j \in Buckets
             PROVE  ~Linkable(j)'
    BY DEF AllLinked, Buckets
<1>1. UNCHANGED <<decl, key, linked>>
    BY DEF Next, LinkSkip, LinkOk, LinkNull, LinkBailout, AtLink, Try, EndLinkPass, Warn,
           ResolveSkip, TryResolve, EndResolvePass, Booted, vars
<1>2. CASE phase /= "link"
    BY <1>1, <1>2, UnchangedLinkable DEF AllLinked
<1>3. CASE phase = "link"
    <2>1. EndLinkPass
        BY <1>3 DEF Next, LinkSkip, LinkOk, LinkNull, LinkBailout, AtLink, Try, Warn,
           ResolveSkip, AtResolve, TryResolve, EndResolvePass, Booted, vars
    <2>2. ~changed /\ pos = N + 1
        BY <2>1, <1>3 DEF EndLinkPass
    <2>3. ~Linkable(j)
        BY <2>2, <1>3, NAssumption DEF RoundInv, Buckets
    <2> QED
        BY <1>1, <2>3, UnchangedLinkable
<1> QED
    BY <1>2, <1>3

LEMMA NextIInv == IInv /\ [Next]_vars => IInv'
BY NextTypeOK, NextKeyInv, NextNameOnce, NextLinkedClosed, NextRoundInv, NextAllLinked
DEF IInv

LEMMA Inductive == Spec => []IInv
BY InitIInv, NextIInv, PTL DEF Spec

\* A name means one class at any time (the keys zend_hash_set_bucket_key changes).
THEOREM NamesUnique == Spec => []NameOnce
<1>1. IInv => NameOnce
    BY DEF IInv
<1> QED
    BY <1>1, Inductive, PTL

\* A class is linked only when all it needs is, however many passes it takes.
THEOREM NothingLinkedOnUnlinked == Spec => []LinkedClosed
<1>1. IInv => LinkedClosed
    BY DEF IInv
<1> QED
    BY <1>1, Inductive, PTL

\* The passes of opkit_link_classes leave no class that could be linked, whatever the
\* order of the table.
THEOREM NoneLeftBehind == Spec => []AllLinked
<1>1. IInv => AllLinked
    BY DEF IInv
<1> QED
    BY <1>1, Inductive, PTL

\* A name that is found goes on meaning the same class.
THEOREM NamesStayBound == Spec => BindingsStay
<1> DEFINE Stays == \A i \in Buckets :
                        /\ \A n \in Names : key[i] = Name(n) => key'[i] = Name(n)
                        /\ i \in linked => i \in linked'
<1>1. IInv /\ [Next]_vars => [Stays]_vars
    <2> SUFFICES ASSUME IInv, [Next]_vars PROVE Stays
        OBVIOUS
    <2>1. CASE UNCHANGED <<decl, key, linked>>
        BY <2>1
    <2>2. ASSUME NEW i \in Buckets, Renames(i) PROVE Stays
        BY <2>2, NamesKept DEF IInv
    <2> QED
        BY <2>1, <2>2, StepsOnKeys
<1> QED
    BY <1>1, Inductive, PTL DEF Spec, BindingsStay
-----------------------------------------------------------------------------
\* The constants.  A chain of k classes, each with a constant that refers to the next
\* one's, up to one that is in R and none before; it is found for the name c, or starts
\* with class i.
Holder(n) == {j \in linked : key[j] = Name(n)}
Chain(R, p, k) ==
    /\ p \in [1 .. k -> Buckets]
    /\ \A m \in 1 .. k - 1 : /\ p[m] \notin R
                             /\ decl[p[m]].const.op = "ref"
                             /\ p[m + 1] \in Holder(decl[p[m]].const.class)
    /\ p[k] \in R
Reaches(R, i) == \E k \in Nat \ {0} : \E p : Chain(R, p, k) /\ p[1] = i

\* Evaluates, for the constants R that have a value.
Evaluated(R, e) ==
    LET Paths == {p \in UNION {[1 .. k -> Buckets] : k \in Buckets} :
                    LET k == Cardinality(DOMAIN p) IN
                    /\ e.op = "ref" /\ p[1] \in Holder(e.class)
                    /\ \A m \in 1 .. k - 1 : /\ p[m] \notin R
                                             /\ decl[p[m]].const.op = "ref"
                                             /\ p[m + 1] \in Holder(decl[p[m]].const.class)
                    /\ p[k] \in R}
    IN {{p[m] : m \in DOMAIN p} : p \in Paths}

\* Each class has one successor, so a chain does not come back to a class.
LEMMA ChainInjective ==
    ASSUME NameOnce, linked \subseteq Buckets, NEW R, NEW k \in Nat \ {0}, NEW p, Chain(R, p, k),
           NEW a \in 1 .. k, NEW b \in 1 .. k, a < b, p[a] = p[b]
    PROVE  FALSE
<1> DEFINE Good == {d \in Nat : b + d <= k => p[a + d] = p[b + d]}
<1>1. k \in Nat /\ a \in Nat /\ b \in Nat /\ 1 <= a /\ b <= k
    OBVIOUS
<1>2. 0 \in Good
    BY <1>1
<1>3. ASSUME NEW d \in Nat, d \in Good PROVE d + 1 \in Good
    <2> SUFFICES ASSUME b + (d + 1) <= k PROVE p[a + (d + 1)] = p[b + (d + 1)]
        OBVIOUS
    <2>1. /\ a + d \in 1 .. k - 1 /\ b + d \in 1 .. k - 1
          /\ (a + d) + 1 = a + (d + 1) /\ (b + d) + 1 = b + (d + 1)
        BY <1>1
    <2>2. p[a + d] = p[b + d]
        BY <1>1, <1>3
    <2>3. /\ p[a + (d + 1)] \in Holder(decl[p[a + d]].const.class)
          /\ p[b + (d + 1)] \in Holder(decl[p[b + d]].const.class)
        <3>1. \A m \in 1 .. k - 1 : p[m + 1] \in Holder(decl[p[m]].const.class)
            BY DEF Chain
        <3> QED
            BY <2>1, <3>1
    <2>4. \A n : \A x, y \in Holder(n) : x = y
        BY DEF Holder, NameOnce
    <2> QED
        BY <2>2, <2>3, <2>4
<1>4. Nat \subseteq Good
    <2> HIDE DEF Good
    <2> QED
        BY <1>2, <1>3, SetInduction
<1>5. k - b \in Nat /\ b + (k - b) = k /\ a + (k - b) \in 1 .. k - 1
    BY <1>1
<1>6. p[a + (k - b)] = p[k]
    BY <1>1, <1>4, <1>5
<1>7. p[a + (k - b)] \notin R /\ p[k] \in R
    BY <1>5 DEF Chain
<1> QED
    BY <1>6, <1>7

\* So it is no longer than the table.
LEMMA ChainShort ==
    ASSUME NameOnce, linked \subseteq Buckets, NEW R, NEW k \in Nat \ {0}, NEW p, Chain(R, p, k)
    PROVE  k \in Buckets
<1>1. IsFiniteSet(Buckets) /\ Cardinality(Buckets) = N
    <2>1. N \in Nat /\ 1 \in Int /\ N \in Int
        BY NAssumption
    <2> QED
        BY <2>1, FS_Interval DEF Buckets
<1>2. IsFiniteSet(1 .. k) /\ Cardinality(1 .. k) = k
    BY FS_Interval
<1>3. p \in [1 .. k -> Buckets]
    BY DEF Chain
<1>4. ASSUME Cardinality(Buckets) < Cardinality(1 .. k) PROVE FALSE
    <2>1. PICK a \in 1 .. k, b \in 1 .. k : a # b /\ p[a] = p[b]
        BY <1>1, <1>2, <1>3, <1>4, FS_PigeonHole
    <2>2. a < b \/ b < a
        BY <2>1
    <2> QED
        BY <2>1, <2>2, ChainInjective
<1>5. k <= N
    BY <1>1, <1>2, <1>4, NAssumption
<1> QED
    BY <1>5, NAssumption DEF Buckets

\* An expression can be evaluated if it refers to a class whose constant can be.
LEMMA EvaluatedIs ==
    ASSUME NameOnce, linked \subseteq Buckets, NEW R, NEW e
    PROVE  Evaluated(R, e) # {} <=> e.op = "ref" /\ \E i \in Holder(e.class) : Reaches(R, i)
<1> DEFINE Paths == {p \in UNION {[1 .. k -> Buckets] : k \in Buckets} :
                        /\ e.op = "ref" /\ p[1] \in Holder(e.class)
                        /\ Chain(R, p, Cardinality(DOMAIN p))}
<1>1. \A k \in Nat : Cardinality(1 .. k) = k
    BY FS_Interval
<1>2. \A p \in UNION {[1 .. k -> Buckets] : k \in Buckets} :
         /\ Cardinality(DOMAIN p) \in Buckets
         /\ p \in [1 .. Cardinality(DOMAIN p) -> Buckets]
    <2> SUFFICES ASSUME NEW k \in Buckets, NEW p \in [1 .. k -> Buckets]
                 PROVE  Cardinality(DOMAIN p) = k
        OBVIOUS
    <2>1. k \in Nat
        BY NAssumption DEF Buckets
    <2> QED
        BY <1>1, <2>1
<1>3. Evaluated(R, e) = {{p[m] : m \in DOMAIN p} : p \in Paths}
    <2> DEFINE Given == {p \in UNION {[1 .. k -> Buckets] : k \in Buckets} :
                            LET k == Cardinality(DOMAIN p) IN
                            /\ e.op = "ref" /\ p[1] \in Holder(e.class)
                            /\ \A m \in 1 .. k - 1 :
                                  /\ p[m] \notin R
                                  /\ decl[p[m]].const.op = "ref"
                                  /\ p[m + 1] \in Holder(decl[p[m]].const.class)
                            /\ p[k] \in R}
    <2>1. Given = Paths
        BY <1>2, Zenon DEF Chain
    <2>2. Evaluated(R, e) = {{p[m] : m \in DOMAIN p} : p \in Given}
        BY DEF Evaluated
    <2> QED
        BY <2>1, <2>2, Zenon
<1>4. ASSUME NEW p \in Paths
      PROVE  e.op = "ref" /\ \E i \in Holder(e.class) : Reaches(R, i)
    <2>1. Cardinality(DOMAIN p) \in Nat \ {0}
        BY <1>2, NAssumption DEF Buckets
    <2> QED
        BY <2>1 DEF Reaches
<1>5. ASSUME e.op = "ref", NEW i \in Holder(e.class), Reaches(R, i) PROVE Paths # {}
    <2>1. PICK k \in Nat \ {0} : \E p : Chain(R, p, k) /\ p[1] = i
        BY <1>5 DEF Reaches
    <2>2. PICK p : Chain(R, p, k) /\ p[1] = i
        BY <2>1
    <2>3. k \in Buckets
        BY <2>2, ChainShort
    <2>4. p \in [1 .. k -> Buckets] /\ Cardinality(DOMAIN p) = k
        BY <1>1, <2>2 DEF Chain
    <2> QED
        BY <1>5, <2>2, <2>3, <2>4
<1> HIDE DEF Paths
<1>6. Evaluated(R, e) = {} <=> Paths = {}
    <2>1. \A p \in Paths : {p[m] : m \in DOMAIN p} \in Evaluated(R, e)
        BY <1>3, Zenon
    <2>2. \A s \in Evaluated(R, e) : \E p \in Paths : s = {p[m] : m \in DOMAIN p}
        BY <1>3, Zenon
    <2> QED
        BY <2>1, <2>2, Zenon
<1>7. Paths # {} => e.op = "ref" /\ \E i \in Holder(e.class) : Reaches(R, i)
    BY <1>4
<1> QED
    BY <1>5, <1>6, <1>7

LEMMA EvaluatesIs ==
    ASSUME NEW e
    PROVE  /\ Evaluates(e) = Evaluated(resolved, e)
           /\ UNCHANGED <<decl, key, linked>> => (Evaluates(e))' = Evaluated(resolved', e)
<1>1. Evaluates(e) = Evaluated(resolved, e)
    BY Zenon DEF Evaluates, Evaluated, Holder
<1>2. ASSUME UNCHANGED <<decl, key, linked>> PROVE (Evaluates(e))' = Evaluated(resolved', e)
    BY <1>2 DEF Evaluates, Evaluated, Holder
<1> QED
    BY <1>1, <1>2

\* What an expression evaluates on the way.
LEMMA WithReaches ==
    ASSUME NEW e, NEW x \in With(e) PROVE Reaches(resolved, x) /\ x \in Buckets
<1>1. \E k \in Buckets : \E p : \E m \in 1 .. k : Chain(resolved, p, k) /\ x = p[m]
    <2>1. PICK s \in Evaluates(e) : x \in s
        BY DEF With
    <2>2. PICK p \in UNION {[1 .. k -> Buckets] : k \in Buckets} :
             /\ \A h \in 1 .. Cardinality(DOMAIN p) - 1 :
                   /\ p[h] \notin resolved
                   /\ decl[p[h]].const.op = "ref"
                   /\ p[h + 1] \in Holder(decl[p[h]].const.class)
             /\ p[Cardinality(DOMAIN p)] \in resolved
             /\ s = {p[m] : m \in DOMAIN p}
        BY DEF Evaluates, Holder
    <2>3. PICK k \in Buckets : p \in [1 .. k -> Buckets]
        BY <2>2
    <2>4. Cardinality(DOMAIN p) = k /\ DOMAIN p = 1 .. k
        <3>1. k \in Int /\ k >= 1
            BY NAssumption DEF Buckets
        <3> QED
            BY <2>3, <3>1, FS_Interval
    <2>5. Chain(resolved, p, k)
        BY <2>2, <2>3, <2>4 DEF Chain
    <2> QED
        BY <2>1, <2>2, <2>4, <2>5
<1>2. PICK k \in Buckets : \E p : \E m \in 1 .. k : Chain(resolved, p, k) /\ x = p[m]
    BY <1>1
<1>3. PICK p : \E m \in 1 .. k : Chain(resolved, p, k) /\ x = p[m]
    BY <1>2
<1>4. PICK m \in 1 .. k : Chain(resolved, p, k) /\ x = p[m]
    BY <1>3
<1>5. /\ p \in [1 .. k -> Buckets] /\ p[k] \in resolved
      /\ \A h \in 1 .. k - 1 : /\ p[h] \notin resolved
                               /\ decl[p[h]].const.op = "ref"
                               /\ p[h + 1] \in Holder(decl[p[h]].const.class)
    BY <1>4 DEF Chain
<1> DEFINE n == k - m + 1
           q == [h \in 1 .. n |-> p[m - 1 + h]]
<1>6. /\ k \in Nat /\ m \in Nat /\ 1 <= m /\ m <= k /\ n \in Nat \ {0}
      /\ \A h \in 1 .. n : m - 1 + h \in 1 .. k
      /\ \A h \in 1 .. n - 1 : /\ h \in 1 .. n /\ h + 1 \in 1 .. n
                               /\ m - 1 + h \in 1 .. k - 1
                               /\ m - 1 + (h + 1) = (m - 1 + h) + 1
      /\ 1 \in 1 .. n /\ n \in 1 .. n /\ m - 1 + 1 = m /\ m - 1 + n = k
    BY NAssumption DEF Buckets
<1> HIDE DEF n
<1>7. q \in [1 .. n -> Buckets] /\ q[1] = x /\ q[n] = p[k]
    BY <1>4, <1>5, <1>6
<1>8. \A h \in 1 .. n - 1 : q[h] = p[m - 1 + h] /\ q[h + 1] = p[(m - 1 + h) + 1]
    BY <1>6
<1> HIDE DEF q
<1>9. Chain(resolved, q, n)
    BY <1>5, <1>6, <1>7, <1>8 DEF Chain
<1>10. x \in Buckets
    BY <1>4, <1>5
<1> QED
    BY <1>6, <1>7, <1>9, <1>10 DEF Reaches

\* A class that is not evaluated but can be: its constant refers to one that can be.
LEMMA ReachesStep ==
    ASSUME NEW R, NEW i \in Buckets, i \notin R
    PROVE  Reaches(R, i) <=> /\ decl[i].const.op = "ref"
                             /\ \E j \in Holder(decl[i].const.class) : Reaches(R, j)
<1>1. ASSUME Reaches(R, i)
      PROVE  /\ decl[i].const.op = "ref"
             /\ \E j \in Holder(decl[i].const.class) : Reaches(R, j)
    <2>1. PICK k \in Nat \ {0} : \E p : Chain(R, p, k) /\ p[1] = i
        BY <1>1 DEF Reaches
    <2>2. PICK p : Chain(R, p, k) /\ p[1] = i
        BY <2>1
    <2>3. k # 1
        BY <2>2 DEF Chain
    <2> DEFINE n == k - 1
               q == [h \in 1 .. n |-> p[h + 1]]
    <2>4. /\ n \in Nat \ {0} /\ 1 \in 1 .. k - 1 /\ 1 \in 1 .. n /\ n \in 1 .. n /\ n + 1 = k
          /\ \A h \in 1 .. n : h + 1 \in 1 .. k
          /\ \A h \in 1 .. n - 1 : h \in 1 .. n /\ h + 1 \in 1 .. n /\ h + 1 \in 1 .. k - 1
        BY <2>3
    <2>5. /\ p \in [1 .. k -> Buckets] /\ p[k] \in R
          /\ \A h \in 1 .. k - 1 : /\ p[h] \notin R
                                   /\ decl[p[h]].const.op = "ref"
                                   /\ p[h + 1] \in Holder(decl[p[h]].const.class)
        BY <2>2 DEF Chain
    <2> HIDE DEF n
    <2>6. q \in [1 .. n -> Buckets] /\ q[1] = p[1 + 1] /\ q[n] = p[k]
        BY <2>4, <2>5
    <2>7. \A h \in 1 .. n - 1 : q[h] = p[h + 1] /\ q[h + 1] = p[(h + 1) + 1]
        BY <2>4
    <2> HIDE DEF q
    <2>8. Chain(R, q, n)
        <3>1. ASSUME NEW h \in 1 .. n - 1
              PROVE  /\ q[h] \notin R /\ decl[q[h]].const.op = "ref"
                     /\ q[h + 1] \in Holder(decl[q[h]].const.class)
            <4>1. q[h] = p[h + 1] /\ q[h + 1] = p[(h + 1) + 1] /\ h + 1 \in 1 .. k - 1
                BY <2>4, <2>7
            <4> QED
                BY <2>5, <4>1
        <3> QED
            BY <2>5, <2>6, <3>1 DEF Chain
    <2>9. Reaches(R, q[1])
        BY <2>4, <2>8 DEF Reaches
    <2> QED
        BY <2>2, <2>4, <2>5, <2>6, <2>9
<1>2. ASSUME decl[i].const.op = "ref", NEW j \in Holder(decl[i].const.class), Reaches(R, j)
      PROVE  Reaches(R, i)
    <2>1. PICK k \in Nat \ {0} : \E p : Chain(R, p, k) /\ p[1] = j
        BY <1>2 DEF Reaches
    <2>2. PICK p : Chain(R, p, k) /\ p[1] = j
        BY <2>1
    <2> DEFINE q == [h \in 1 .. k + 1 |-> IF h = 1 THEN i ELSE p[h - 1]]
    <2>3. /\ k + 1 \in Nat \ {0} /\ 1 \in 1 .. k + 1 /\ k + 1 \in 1 .. k + 1 /\ k + 1 # 1
          /\ (k + 1) - 1 = k
          /\ \A h \in 1 .. k + 1 : h = 1 \/ h - 1 \in 1 .. k
          /\ \A h \in 1 .. (k + 1) - 1 :
                /\ h \in 1 .. k + 1 /\ h + 1 \in 1 .. k + 1 /\ h + 1 # 1 /\ (h + 1) - 1 = h
                /\ h = 1 \/ (h - 1 \in 1 .. k - 1 /\ (h - 1) + 1 = h)
        OBVIOUS
    <2>4. /\ p \in [1 .. k -> Buckets] /\ p[k] \in R
          /\ \A h \in 1 .. k - 1 : /\ p[h] \notin R
                                   /\ decl[p[h]].const.op = "ref"
                                   /\ p[h + 1] \in Holder(decl[p[h]].const.class)
        BY <2>2 DEF Chain
    <2>5. q \in [1 .. k + 1 -> Buckets] /\ q[1] = i /\ q[k + 1] = p[k]
        BY <2>3, <2>4
    <2>6. \A h \in 1 .. (k + 1) - 1 : /\ q[h + 1] = p[h]
                                      /\ h = 1 \/ q[h] = p[h - 1]
        BY <2>3
    <2> HIDE DEF q
    <2>7. ASSUME NEW h \in 1 .. (k + 1) - 1
          PROVE  /\ q[h] \notin R /\ decl[q[h]].const.op = "ref"
                 /\ q[h + 1] \in Holder(decl[q[h]].const.class)
        <3>1. CASE h = 1
            BY <1>2, <2>2, <2>5, <2>6, <3>1
        <3>2. CASE h # 1
            <4>1. h - 1 \in 1 .. k - 1 /\ (h - 1) + 1 = h /\ q[h] = p[h - 1] /\ q[h + 1] = p[h]
                BY <2>3, <2>6, <3>2
            <4> QED
                BY <2>4, <4>1
        <3> QED
            BY <3>1, <3>2
    <2>8. Chain(R, q, k + 1)
        BY <2>4, <2>5, <2>7 DEF Chain
    <2> QED
        BY <2>3, <2>5, <2>8 DEF Reaches
<1> QED
    BY <1>1, <1>2

LEMMA ReachesItself ==
    ASSUME NEW R, NEW i \in Buckets, i \in R PROVE Reaches(R, i)
<1> DEFINE p == [h \in 1 .. 1 |-> i]
<1>1. 1 \in Nat \ {0} /\ 1 \in 1 .. 1 /\ p[1] = i /\ p \in [1 .. 1 -> Buckets]
      /\ 1 .. 1 - 1 = {}
    OBVIOUS
<1> HIDE DEF p
<1>2. Chain(R, p, 1)
    BY <1>1 DEF Chain
<1> QED
    BY <1>1, <1>2 DEF Reaches

\* Evaluating what can be evaluated makes nothing else so.
LEMMA ReachesGrown ==
    ASSUME NEW R, NEW S, R \subseteq S, \A x \in S \ R : Reaches(R, x),
           NEW i, Reaches(S, i)
    PROVE  Reaches(R, i)
<1>1. PICK k \in Nat \ {0} : \E p : Chain(S, p, k) /\ p[1] = i
    BY DEF Reaches
<1>2. PICK p : Chain(S, p, k) /\ p[1] = i
    BY <1>1
<1>3. /\ p \in [1 .. k -> Buckets] /\ p[k] \in S
      /\ \A h \in 1 .. k - 1 : /\ p[h] \notin S
                               /\ decl[p[h]].const.op = "ref"
                               /\ p[h + 1] \in Holder(decl[p[h]].const.class)
    BY <1>2 DEF Chain
<1> DEFINE Good == {d \in Nat : d < k => Reaches(R, p[k - d])}
<1>4. 0 \in Good
    <2>1. k \in 1 .. k /\ k - 0 = k
        OBVIOUS
    <2>2. p[k] \in Buckets
        BY <1>3, <2>1
    <2>3. Reaches(R, p[k])
        BY <1>3, <2>2, ReachesItself
    <2> QED
        BY <2>1, <2>3
<1>5. ASSUME NEW d \in Nat, d \in Good PROVE d + 1 \in Good
    <2> SUFFICES ASSUME d + 1 < k PROVE Reaches(R, p[k - (d + 1)])
        OBVIOUS
    <2> DEFINE h == k - (d + 1)
    <2>1. h \in 1 .. k - 1 /\ h \in 1 .. k /\ h + 1 = k - d /\ d < k
        OBVIOUS
    <2> HIDE DEF h
    <2>2. Reaches(R, p[h + 1])
        BY <1>5, <2>1
    <2>3. /\ p[h] \in Buckets /\ p[h] \notin R /\ decl[p[h]].const.op = "ref"
          /\ p[h + 1] \in Holder(decl[p[h]].const.class)
        BY <1>3, <2>1
    <2>4. Reaches(R, p[h])
        BY <2>2, <2>3, ReachesStep
    <2> QED
        BY <2>4 DEF h
<1>6. Nat \subseteq Good
    <2> HIDE DEF Good
    <2> QED
        BY <1>4, <1>5, SetInduction
<1>7. k - 1 \in Nat /\ k - 1 < k /\ k - (k - 1) = 1
    OBVIOUS
<1> QED
    BY <1>2, <1>6, <1>7

CanBe(R, e) ==
    \/ e.op = "literal"
    \/ e.op = "ref" /\ \E i \in Holder(e.class) : Reaches(R, i)
Ready(R, P, i) == Reaches(R, i) /\ (i \in P \/ CanBe(R, decl[i].prop))

LEMMA FailsIs ==
    ASSUME TypeOK, NameOnce, NEW e PROVE ~Fails(e) <=> CanBe(resolved, e)
<1>1. linked \subseteq Buckets
    BY DEF TypeOK
<1>2. Evaluates(e) # {} <=> e.op = "ref" /\ \E i \in Holder(e.class) : Reaches(resolved, i)
    BY <1>1, EvaluatedIs, EvaluatesIs
<1> QED
    BY <1>2 DEF Fails, CanBe

LitInv == \A i \in Buckets : decl[i].const.op = "literal" => i \in resolved

LEMMA ReadyIs ==
    ASSUME TypeOK, NameOnce, LitInv, NEW i \in Buckets
    PROVE  /\ i \in resolved \/ ~Fails(decl[i].const) <=> Reaches(resolved, i)
           /\ /\ i \in resolved \/ ~Fails(decl[i].const)
              /\ i \in propsDone \/ ~Fails(decl[i].prop)
              <=> Ready(resolved, propsDone, i)
<1>1. i \in resolved \/ ~Fails(decl[i].const) <=> Reaches(resolved, i)
    <2>1. CASE i \in resolved
        BY <2>1, ReachesItself
    <2>2. CASE i \notin resolved
        <3>1. decl[i].const.op # "literal"
            BY <2>2 DEF LitInv
        <3>2. PICK e : e = decl[i].const
            OBVIOUS
        <3>3. ~Fails(e) <=> CanBe(resolved, e)
            BY FailsIs
        <3> QED
            BY <2>2, <3>1, <3>2, <3>3, ReachesStep DEF CanBe
    <2> QED
        BY <2>1, <2>2
<1>2. ~Fails(decl[i].prop) <=> CanBe(resolved, decl[i].prop)
    <2>1. PICK e : e = decl[i].prop
        OBVIOUS
    <2>2. ~Fails(e) <=> CanBe(resolved, e)
        BY FailsIs
    <2> QED
        BY <2>1, <2>2
<1> QED
    BY <1>1, <1>2 DEF Ready

LEMMA ReadyGrown ==
    ASSUME NEW R, NEW S, R \subseteq S, \A x \in S \ R : Reaches(R, x),
           NEW P, NEW Q, NEW i, Ready(S, Q, i), i \in Q \ P => CanBe(R, decl[i].prop)
    PROVE  Ready(R, P, i)
BY ReachesGrown DEF Ready, CanBe

LEMMA ReadySame ==
    ASSUME UNCHANGED <<decl, key, linked>>, NEW i
    PROVE  (Ready(resolved, propsDone, i))' <=> Ready(resolved', propsDone', i)
BY DEF Ready, CanBe, Reaches, Chain, Holder

\* What the pass has behind it: whatever can be evaluated has been brought up to date, and
\* whatever is up to date has been evaluated.
ResolveInv ==
    /\ decl \in Tables
    /\ LitInv
    /\ updated \subseteq resolved /\ updated \subseteq propsDone
    /\ phase \in {"resolve", "done"} =>
          /\ pos \in 0 .. N
          /\ \A i \in linked : /\ i > pos /\ decl[i].kind \notin {"internal", "trait"}
                               /\ Ready(resolved, propsDone, i)
                               => i \in updated
    /\ phase = "done" => pos = 0 \/ decl[pos].kind = "internal"

\* The step of one class, seen from outside.
LEMMA TryTells ==
    ASSUME TypeOK, NameOnce, LitInv, NEW i \in Buckets, TryResolve, pos = i
    PROVE  /\ resolved \subseteq resolved' /\ \A x \in resolved' \ resolved : Reaches(resolved, x)
           /\ propsDone \subseteq propsDone' /\ propsDone' \subseteq propsDone \cup {i}
           /\ i \in propsDone' \ propsDone => CanBe(resolved, decl[i].prop)
           /\ updated \subseteq updated' /\ updated' \subseteq updated \cup {i}
           /\ i \in updated' <=> Ready(resolved, propsDone, i) \/ i \in updated
           /\ i \in updated' \ updated => i \in resolved' /\ i \in propsDone'
           /\ pos' = i - 1 /\ phase = "resolve"
           /\ UNCHANGED <<decl, key, linked, phase>>
<1> DEFINE constOk == i \in resolved \/ ~Fails(decl[i].const)
           propOk == i \in propsDone \/ ~Fails(decl[i].prop)
<1>1. /\ resolved' = resolved
             \cup (IF constOk THEN {i} \cup With(decl[i].const) ELSE {})
             \cup (IF propOk /\ i \notin propsDone THEN With(decl[i].prop) ELSE {})
      /\ propsDone' = IF propOk THEN propsDone \cup {i} ELSE propsDone
      /\ updated' = IF constOk /\ propOk THEN updated \cup {i} ELSE updated
      /\ pos' = i - 1 /\ phase = "resolve"
      /\ UNCHANGED <<decl, key, linked, phase>>
    BY DEF TryResolve, AtResolve
<1>2. constOk <=> Reaches(resolved, i)
    BY ReadyIs
<1>3. constOk /\ propOk <=> Ready(resolved, propsDone, i)
    BY ReadyIs
<1>4. propOk /\ i \notin propsDone => CanBe(resolved, decl[i].prop)
    <2>1. PICK e : e = decl[i].prop
        OBVIOUS
    <2>2. ~Fails(e) <=> CanBe(resolved, e)
        BY FailsIs
    <2> QED
        BY <2>1, <2>2
<1>5. \A x \in With(decl[i].const) \cup With(decl[i].prop) : Reaches(resolved, x)
    BY WithReaches
<1> HIDE DEF constOk, propOk
<1>6. \A x \in resolved' \ resolved : Reaches(resolved, x)
    BY <1>1, <1>2, <1>5
<1>7. i \in updated' \ updated => i \in resolved' /\ i \in propsDone'
    BY <1>1
<1> QED
    BY <1>1, <1>3, <1>4, <1>6, <1>7

LEMMA ResolveStep ==
    ASSUME IInv, ResolveInv, [Next]_vars PROVE ResolveInv'
<1>1. TypeOK /\ NameOnce /\ LitInv /\ pos \in 0 .. N + 1
    BY DEF IInv, ResolveInv, TypeOK
<1>2. CASE TryResolve
    <2>1. PICK i \in Buckets : pos = i
        BY <1>2 DEF TryResolve, AtResolve
    <2>2. /\ resolved \subseteq resolved' /\ \A x \in resolved' \ resolved : Reaches(resolved, x)
          /\ propsDone \subseteq propsDone' /\ propsDone' \subseteq propsDone \cup {i}
          /\ i \in propsDone' \ propsDone => CanBe(resolved, decl[i].prop)
          /\ updated \subseteq updated' /\ updated' \subseteq updated \cup {i}
          /\ i \in updated' <=> Ready(resolved, propsDone, i) \/ i \in updated
          /\ i \in updated' \ updated => i \in resolved' /\ i \in propsDone'
          /\ pos' = i - 1 /\ phase = "resolve"
          /\ UNCHANGED <<decl, key, linked, phase>>
        BY <1>1, <1>2, <2>1, TryTells
    <2>3. LitInv' /\ decl' \in Tables
        BY <1>1, <2>2 DEF LitInv, ResolveInv
    <2>4. updated' \subseteq resolved' /\ updated' \subseteq propsDone'
        BY <2>2 DEF ResolveInv
    <2>5. i \in 1 .. N /\ N \in Nat /\ pos' \in 0 .. N
        BY <2>2, NAssumption DEF Buckets
    <2>6. ASSUME NEW x \in linked', x > pos', decl'[x].kind \notin {"internal", "trait"},
                 (Ready(resolved, propsDone, x))'
          PROVE  x \in updated'
        <3>1. Ready(resolved', propsDone', x)
            BY <2>2, <2>6, ReadySame
        <3>2. x \in propsDone' \ propsDone => CanBe(resolved, decl[x].prop)
            BY <2>2
        <3>3. Ready(resolved, propsDone, x)
            BY <2>2, <3>1, <3>2, ReadyGrown
        <3>4. CASE x = i
            BY <2>2, <3>3, <3>4
        <3>5. CASE x # i
            <4>1. x \in Buckets /\ x \in linked
                BY <1>1, <2>2 DEF TypeOK
            <4>2. x > pos
                BY <2>1, <2>2, <2>5, <2>6, <3>5, <4>1 DEF Buckets
            <4> QED
                BY <2>2, <2>6, <3>3, <4>1, <4>2 DEF ResolveInv
        <3> QED
            BY <3>4, <3>5
    <2> QED
        BY <2>2, <2>3, <2>4, <2>5, <2>6 DEF ResolveInv
<1>3. CASE ResolveSkip
    <2>1. PICK i \in Buckets : /\ AtResolve(i) /\ decl[i].kind /= "internal" /\ ~ToResolve(i)
                               /\ pos' = i - 1
        BY <1>3 DEF ResolveSkip
    <2>2. UNCHANGED <<decl, key, linked, resolved, propsDone, updated, phase>>
          /\ pos = i /\ phase = "resolve"
        BY <1>3, <2>1 DEF ResolveSkip, AtResolve
    <2>3. i \in 1 .. N /\ N \in Nat /\ pos' \in 0 .. N
        BY <2>1, NAssumption DEF Buckets
    <2>4. ASSUME NEW x \in linked', x > pos', decl'[x].kind \notin {"internal", "trait"},
                 (Ready(resolved, propsDone, x))'
          PROVE  x \in updated'
        <3>1. Ready(resolved, propsDone, x)
            BY <2>2, <2>4, ReadySame
        <3>2. CASE x = i
            BY <2>1, <2>2, <2>4, <3>2 DEF ToResolve
        <3>3. CASE x # i
            <4>1. x \in Buckets /\ x \in linked
                BY <1>1, <2>2 DEF TypeOK
            <4>2. x > pos
                BY <2>1, <2>2, <2>3, <2>4, <3>3, <4>1 DEF Buckets
            <4> QED
                BY <2>2, <2>4, <3>1, <4>1, <4>2 DEF ResolveInv
        <3> QED
            BY <3>2, <3>3
    <2> QED
        BY <1>1, <2>2, <2>3, <2>4 DEF ResolveInv, LitInv
<1>4. CASE EndResolvePass
    <2>1. /\ UNCHANGED <<decl, key, linked, resolved, propsDone, updated>>
          /\ phase = "resolve" /\ (pos = 0 \/ decl[pos].kind = "internal")
          /\ \/ pos' = N /\ phase' = phase
             \/ phase' = "done" /\ pos' = pos
        BY <1>4 DEF EndResolvePass
    <2>2. \A x : (Ready(resolved, propsDone, x))' <=> Ready(resolved, propsDone, x)
        BY <2>1, ReadySame
    <2>3. \A x \in linked : x \in 1 .. N
        BY <1>1 DEF TypeOK, Buckets
    <2>4. pos' \in 0 .. N
        BY <2>1, NAssumption DEF ResolveInv
    <2>5. \A x \in linked : ~(x > N)
        BY <2>3, NAssumption
    <2> QED
        BY <1>1, <2>1, <2>2, <2>4, <2>5 DEF ResolveInv, LitInv
<1>5. CASE Warn
    <2>1. /\ UNCHANGED <<decl, key, linked, resolved, propsDone, updated>>
          /\ phase' = "resolve" /\ pos' = N
        BY <1>5 DEF Warn
    <2>2. \A x \in linked : ~(x > N)
        BY <1>1, NAssumption DEF TypeOK, Buckets
    <2>3. N \in 0 .. N
        BY NAssumption
    <2> QED
        BY <1>1, <2>1, <2>2, <2>3 DEF ResolveInv, LitInv
<1>6. CASE LinkSkip \/ LinkOk \/ LinkNull \/ LinkBailout \/ EndLinkPass
    <2>1. /\ UNCHANGED <<decl, resolved, propsDone, updated>> /\ phase' \notin {"resolve", "done"}
        BY <1>6 DEF LinkSkip, LinkOk, LinkNull, LinkBailout, EndLinkPass, AtLink, Try
    <2> QED
        BY <1>1, <2>1 DEF ResolveInv, LitInv
<1>7. CASE Booted \/ UNCHANGED vars
    <2>1. UNCHANGED <<decl, key, linked, resolved, propsDone, updated, phase, pos>>
        BY <1>7 DEF Booted, vars
    <2>2. \A x : (Ready(resolved, propsDone, x))' <=> Ready(resolved, propsDone, x)
        BY <2>1, ReadySame
    <2> QED
        BY <1>1, <2>1, <2>2 DEF ResolveInv, LitInv
<1> QED
    BY <1>2, <1>3, <1>4, <1>5, <1>6, <1>7 DEF Next

\* Internal classes are registered before any class of a script, which is what lets
\* opkit_resolve_all_class_constants stop at the first one it meets.
InternalFirst ==
    \A t \in Tables : \A i, j \in 1 .. N :
        i < j /\ t[j].kind = "internal" => t[i].kind = "internal"

\* When boot goes on, exactly the linked classes of which all expressions can be evaluated
\* are up to date, whatever the constants of the table refer to.
THEOREM ConstantsAreComplete == ASSUME InternalFirst PROVE Spec => []ConstantsComplete
<1>1. Init => ResolveInv
    BY DEF Init, ResolveInv, LitInv
<1>2. IInv /\ ResolveInv /\ [Next]_vars => ResolveInv'
    BY ResolveStep
<1>3. IInv /\ ResolveInv => ConstantsComplete
    <2> SUFFICES ASSUME IInv, ResolveInv, phase = "done", NEW i \in linked,
                        decl[i].kind \notin {"internal", "trait"}
                 PROVE  i \in updated <=>
                            /\ i \in resolved \/ ~Fails(decl[i].const)
                            /\ i \in propsDone \/ ~Fails(decl[i].prop)
        BY DEF ConstantsComplete
    <2>1. TypeOK /\ NameOnce /\ LitInv /\ i \in Buckets
        BY DEF IInv, ResolveInv, TypeOK
    <2>2. i \in updated => i \in resolved /\ i \in propsDone
        BY DEF ResolveInv
    <2>3. i > pos
        <3>1. i \in 1 .. N /\ pos \in 0 .. N /\ decl \in Tables /\ N \in Nat
            BY <2>1, NAssumption DEF ResolveInv, Buckets
        <3>2. CASE pos = 0
            BY <3>1, <3>2
        <3>3. CASE pos # 0 /\ decl[pos].kind = "internal"
            <4>1. pos \in 1 .. N /\ i # pos
                BY <3>1, <3>3
            <4>2. ~(i < pos)
                BY <3>1, <3>3, <4>1 DEF InternalFirst
            <4> QED
                BY <3>1, <4>1, <4>2
        <3> QED
            BY <3>2, <3>3 DEF ResolveInv
    <2>4. Ready(resolved, propsDone, i) => i \in updated
        BY <2>3 DEF ResolveInv
    <2> QED
        BY <2>1, <2>2, <2>4, ReadyIs
<1> QED
    BY <1>1, <1>2, <1>3, Inductive, PTL DEF Spec
=============================================================================
