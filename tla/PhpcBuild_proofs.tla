--------------------------- MODULE PhpcBuild_proofs ---------------------------
(***************************************************************************)
(* Proofs about the incremental build, for any set of sources and any      *)
(* number of edits, seconds and upgrades.                                  *)
(*                                                                         *)
(* Two facts make the properties inductive.  NewerIsSame: a .phpc file     *)
(* that is not older than its source was compiled from it, by whatever     *)
(* PHP.  DoneIsCurrent: in a build that has not failed so far, every       *)
(* source that it has come to and left is current, and so are the          *)
(* constants of other sources in it unless it was skipped.                 *)
(***************************************************************************)
EXTENDS PhpcBuild, TLAPS

\* Nothing is from the future.
Past ==
    \A f \in Files :
        /\ src[f] # None => src[f].mtime <= clock
        /\ target[f] # None => target[f].mtime <= clock

NewerIsSame ==
    \A f \in Files :
        src[f] # None /\ target[f] # None /\ src[f].mtime <= target[f].mtime =>
            target[f].is.ver = src[f].ver

\* Nobody edits while a build runs: what was compiled is what is there.
ReadIsSource == pc = "store" => read \in FromSource(cur)

\* What the build has still to do is there, and a build that has ended has nothing.
WorkIsThere ==
    /\ \A f \in todo \cup {cur} : f # None => src[f] # None
    /\ pc = "idle" => todo = {}

\* What CleanBuildIsCurrent says of one source.
UpToDate(f) == Current(f) /\ (f \in skipped \/ ConstantsCurrent(f))

DoneIsCurrent ==
    pc # "idle" /\ clean /\ ~failed =>
        \A f \in Files : src[f] # None => f \in todo \/ f = cur \/ UpToDate(f)

\* The entry file is written when there is nothing left to do.
AtEntry == pc \in {"entry", "list"} => todo = {} /\ ~failed

IInv ==
    /\ TypeOK
    /\ Past
    /\ NewerIsSame
    /\ ReadIsSource
    /\ WorkIsThere
    /\ AtEntry
    /\ DoneIsCurrent
    /\ CleanBuildIsCurrent
    /\ EntryComplete

-------------------------------------------------------------------------------
\* The fields of a source and of a .phpc file.
LEMMA Fields ==
    /\ None \notin Files /\ None \notin Source /\ None \notin Target /\ None \notin Compiled
    /\ \A x \in Source : x.ver \in 0 .. MaxVersion /\ x.mtime \in 0 .. MaxTime
    /\ \A x \in Target : /\ x.is \in Compiled /\ x.is.ver \in 0 .. MaxVersion
                         /\ x.mtime \in 0 .. MaxTime /\ x.sys \in 0 .. MaxSystem
    /\ \A x \in Compiled : x.ver \in 0 .. MaxVersion
BY NoneAssumption DEF Source, Target, Compiled

\* What a compilation makes is of the source as it is, and so are the constants.
LEMMA MadeFromSource ==
    ASSUME NEW f \in Files, NEW c \in FromSource(f)
    PROVE  /\ c \in Compiled /\ c.ver = src[f].ver
           /\ \A g \in Files : src[g] # None => c.used[g] \in {None, src[g].ver}
BY DEF FromSource

Flags == force \in BOOLEAN /\ failed \in BOOLEAN /\ clean \in BOOLEAN

\* The rest of TypeOK.
DataOK ==
    /\ clock \in 0 .. MaxTime /\ system \in 0 .. MaxSystem
    /\ src \in [Files -> Source \cup {None}]
    /\ target \in [Files -> Target \cup {None}]
    /\ entry \subseteq Files
    /\ pc \in {"idle", "scan", "compile", "store", "entry", "list"}
    /\ todo \subseteq Files
    /\ cur \in Files \cup {None} /\ (cur # None <=> pc \in {"compile", "store"})
    /\ read \in Compiled \cup {None} /\ (read # None <=> pc = "store")
    /\ skipped \subseteq Files

LEMMA TypeOKIs == TypeOK <=> DataOK /\ Flags
BY DEF TypeOK, DataOK, Flags

LEMMA FlagsStep == Flags /\ [Next]_vars => Flags'
<1> SUFFICES ASSUME Flags, [Next]_vars PROVE Flags'
    OBVIOUS
<1> USE DEF Flags
<1>1. CASE Tick
    BY <1>1, Zenon DEF Tick, build
<1>2. ASSUME NEW g \in Files, Edit(g) PROVE Flags'
    BY <1>2, Zenon DEF Edit, build
<1>3. ASSUME NEW g \in Files, Remove(g) PROVE Flags'
    BY <1>3, Zenon DEF Remove, build
<1>4. CASE UpgradePhp
    BY <1>4, Zenon DEF UpgradePhp, build
<1>5. ASSUME NEW b \in BOOLEAN, StartBuild(b) PROVE Flags'
    BY <1>5, Zenon DEF StartBuild, build
<1>6. ASSUME NEW g \in Files, Visit(g) PROVE Flags'
    BY <1>6, Zenon DEF Visit, build
<1>7. CASE Compile
    BY <1>7, Zenon DEF Compile, build
<1>8. CASE Store
    BY <1>8, Zenon DEF Store, build
<1>9. CASE Finish
    BY <1>9, Zenon DEF Finish, build
<1>10. CASE OpenEntry
    BY <1>10, Zenon DEF OpenEntry, build
<1>11. CASE WriteEntry
    BY <1>11, Zenon DEF WriteEntry, build
<1>12. CASE Kill
    BY <1>12, Zenon DEF Kill, build
<1>13. CASE UNCHANGED vars
    BY <1>13 DEF vars, build
<1> QED
    BY <1>1, <1>2, <1>3, <1>4, <1>5, <1>6, <1>7, <1>8, <1>9, <1>10, <1>11, <1>12, <1>13 DEF Next

\* The type invariant is preserved by every step.
LEMMA DataStep == IInv /\ [Next]_vars => DataOK'
<1> SUFFICES ASSUME IInv, [Next]_vars PROVE DataOK'
    OBVIOUS
<1> USE BoundAssumption, Fields, TypeOKIs DEF IInv, DataOK
<1>1. CASE Tick
    BY <1>1 DEF Tick, build
<1>2. ASSUME NEW g \in Files, Edit(g) PROVE DataOK'
    <2>1. [ver |-> src[g].ver + 1, mtime |-> clock] \in Source
        BY <1>2 DEF Edit, Source
    <2>2. src' = [src EXCEPT ![g] = [ver |-> src[g].ver + 1, mtime |-> clock]]
        BY <1>2 DEF Edit
    <2> QED
        BY <1>2, <2>1, <2>2 DEF Edit, build
<1>3. ASSUME NEW g \in Files, Remove(g) PROVE DataOK'
    BY <1>3 DEF Remove, build
<1>4. CASE UpgradePhp
    BY <1>4 DEF UpgradePhp, build
<1>5. ASSUME NEW b \in BOOLEAN, StartBuild(b) PROVE DataOK'
    BY <1>5 DEF StartBuild, build
<1>6. ASSUME NEW g \in Files, Visit(g) PROVE DataOK'
    BY <1>6 DEF Visit, build
<1>7. CASE Compile
    <2>1. cur \in Files /\ FromSource(cur) \subseteq Compiled
        BY <1>7 DEF Compile, FromSource
    <2> QED
        BY <1>7, <2>1 DEF Compile, Dropped
<1>8. CASE Store
    <2>1. [is |-> read, mtime |-> clock, sys |-> system] \in Target /\ cur \in Files
        BY <1>8 DEF Store, Target
    <2> QED
        BY <1>8, <2>1 DEF Store, Dropped
<1>9. CASE Finish
    BY <1>9 DEF Finish, build
<1>10. CASE OpenEntry
    BY <1>10 DEF OpenEntry, build
<1>11. CASE WriteEntry
    BY <1>11 DEF WriteEntry, Collected
<1>12. CASE Kill
    BY <1>12 DEF Kill, build, Dropped
<1>13. CASE UNCHANGED vars
    BY <1>13 DEF vars, build
<1> QED
    BY <1>1, <1>2, <1>3, <1>4, <1>5, <1>6, <1>7, <1>8, <1>9, <1>10, <1>11, <1>12, <1>13 DEF Next

LEMMA TypeStep == IInv /\ [Next]_vars => TypeOK'
<1>1. TypeOK' <=> DataOK' /\ Flags'
    BY DEF TypeOK, DataOK, Flags
<1> QED
    BY <1>1, TypeOKIs, DataStep, FlagsStep DEF IInv

\* Times and systems only grow.
LEMMA PastStep == IInv /\ [Next]_vars => Past'
<1> SUFFICES ASSUME IInv, [Next]_vars PROVE Past'
    OBVIOUS
<1> USE BoundAssumption, Fields, TypeOKIs DEF IInv, DataOK, Past
<1>1. CASE Tick
    BY <1>1 DEF Tick, build
<1>2. ASSUME NEW g \in Files, Edit(g) PROVE Past'
    BY <1>2 DEF Edit, build, Quiet
<1>3. ASSUME NEW g \in Files, Remove(g) PROVE Past'
    BY <1>3 DEF Remove, build
<1>4. CASE UpgradePhp
    BY <1>4 DEF UpgradePhp, build
<1>5. ASSUME NEW b \in BOOLEAN, StartBuild(b) PROVE Past'
    BY <1>5 DEF StartBuild, build
<1>6. ASSUME NEW g \in Files, Visit(g) PROVE Past'
    BY <1>6 DEF Visit, build
<1>7. CASE Compile
    BY <1>7 DEF Compile, build, Dropped
<1>8. CASE Store
    BY <1>8 DEF Store, build, Dropped
<1>9. CASE Finish
    BY <1>9 DEF Finish, build
<1>10. CASE OpenEntry
    BY <1>10 DEF OpenEntry, build
<1>11. CASE WriteEntry
    BY <1>11 DEF WriteEntry, build
<1>12. CASE Kill
    BY <1>12 DEF Kill, build, Dropped
<1>13. CASE UNCHANGED vars
    BY <1>13 DEF vars, build
<1> QED
    BY <1>1, <1>2, <1>3, <1>4, <1>5, <1>6, <1>7, <1>8, <1>9, <1>10, <1>11, <1>12, <1>13 DEF Next

\* An edit is later than every .phpc file, and a store writes what is there.
LEMMA NewerIsSameStep == IInv /\ [Next]_vars => NewerIsSame'
<1> SUFFICES ASSUME IInv, [Next]_vars PROVE NewerIsSame'
    OBVIOUS
<1> USE BoundAssumption, Fields, TypeOKIs DEF IInv, DataOK, NewerIsSame
<1>1. CASE Tick
    BY <1>1 DEF Tick, build
<1>2. ASSUME NEW g \in Files, Edit(g) PROVE NewerIsSame'
    BY <1>2 DEF Edit, build, Quiet
<1>3. ASSUME NEW g \in Files, Remove(g) PROVE NewerIsSame'
    BY <1>3 DEF Remove, build
<1>4. CASE UpgradePhp
    BY <1>4 DEF UpgradePhp, build
<1>5. ASSUME NEW b \in BOOLEAN, StartBuild(b) PROVE NewerIsSame'
    BY <1>5 DEF StartBuild, build
<1>6. ASSUME NEW g \in Files, Visit(g) PROVE NewerIsSame'
    BY <1>6 DEF Visit, build
<1>7. CASE Compile
    BY <1>7 DEF Compile, build, Dropped
<1>8. CASE Store
    <2>g. PICK g \in Files : g = cur
        BY <1>8 DEF Store
    <2>1. read.ver = src[g].ver /\ src' = src
        BY <1>8, <2>g, MadeFromSource DEF Store, ReadIsSource
    <2>2. \/ target' = target
          \/ target' = [target EXCEPT ![g] = [is |-> read, mtime |-> clock, sys |-> system]]
        BY <1>8, <2>g DEF Store
    <2> QED
        BY <2>1, <2>2
<1>9. CASE Finish
    BY <1>9 DEF Finish, build
<1>10. CASE OpenEntry
    BY <1>10 DEF OpenEntry, build
<1>11. CASE WriteEntry
    BY <1>11 DEF WriteEntry, build
<1>12. CASE Kill
    BY <1>12 DEF Kill, build, Dropped
<1>13. CASE UNCHANGED vars
    BY <1>13 DEF vars, build
<1> QED
    BY <1>1, <1>2, <1>3, <1>4, <1>5, <1>6, <1>7, <1>8, <1>9, <1>10, <1>11, <1>12, <1>13 DEF Next

\* What was compiled stays what is there.
LEMMA ReadIsSourceStep == IInv /\ [Next]_vars => ReadIsSource'
<1> SUFFICES ASSUME IInv, [Next]_vars, pc' = "store" PROVE read' \in FromSource(cur)'
    BY DEF ReadIsSource
<1> USE DEF IInv, ReadIsSource
<1>1. ASSUME pc = "store", UNCHANGED <<src, cur, read>> PROVE read' \in FromSource(cur)'
    BY <1>1 DEF FromSource
<1>2. ASSUME src' = src, cur' = cur, read' \in FromSource(cur) PROVE read' \in FromSource(cur)'
    BY <1>2 DEF FromSource
<1>3. CASE Tick
    BY <1>1, <1>3 DEF Tick, build
<1>4. ASSUME NEW g \in Files, Edit(g) \/ Remove(g) PROVE FALSE
    <2>1. pc' = pc /\ pc = "idle"
        BY <1>4 DEF Edit, Remove, Quiet, build
    <2> QED
        BY <2>1
<1>5. CASE UpgradePhp
    BY <1>1, <1>5 DEF UpgradePhp, build
<1>6. ASSUME NEW b \in BOOLEAN, StartBuild(b) PROVE FALSE
    BY <1>6 DEF StartBuild
<1>7. ASSUME NEW g \in Files, Visit(g) PROVE FALSE
    BY <1>7 DEF Visit
<1>8. CASE Compile
    BY <1>2, <1>8 DEF Compile
<1>9. CASE Store \/ Finish \/ OpenEntry \/ WriteEntry \/ Kill
    BY <1>9 DEF Store, Finish, OpenEntry, WriteEntry, Kill
<1>10. CASE UNCHANGED vars
    BY <1>1, <1>10 DEF vars
<1> QED
    BY <1>3, <1>4, <1>5, <1>6, <1>7, <1>8, <1>9, <1>10 DEF Next

\* A source goes only between builds.
LEMMA WorkIsThereStep == IInv /\ [Next]_vars => WorkIsThere'
<1> SUFFICES ASSUME IInv, [Next]_vars PROVE WorkIsThere'
    OBVIOUS
<1> USE Fields, TypeOKIs DEF IInv, DataOK, WorkIsThere
<1>1. CASE Tick
    BY <1>1 DEF Tick, build
<1>2. ASSUME NEW g \in Files, Edit(g) \/ Remove(g) PROVE WorkIsThere'
    <2>1. pc = "idle" /\ todo' = todo /\ cur' = cur /\ todo = {} /\ cur = None
        BY <1>2 DEF Edit, Remove, Quiet, build
    <2> QED
        BY <2>1
<1>3. CASE UpgradePhp
    BY <1>3 DEF UpgradePhp, build
<1>4. ASSUME NEW b \in BOOLEAN, StartBuild(b) PROVE WorkIsThere'
    BY <1>4 DEF StartBuild
<1>5. ASSUME NEW g \in Files, Visit(g) PROVE WorkIsThere'
    BY <1>5 DEF Visit
<1>6. CASE Compile
    BY <1>6 DEF Compile, Dropped
<1>7. CASE Store
    BY <1>7 DEF Store, Dropped
<1>8. CASE Finish \/ OpenEntry \/ WriteEntry
    BY <1>8 DEF Finish, OpenEntry, WriteEntry, AtEntry
<1>9. CASE Kill
    BY <1>9 DEF Kill, Dropped
<1>10. CASE UNCHANGED vars
    BY <1>10 DEF vars, build
<1> QED
    BY <1>1, <1>2, <1>3, <1>4, <1>5, <1>6, <1>7, <1>8, <1>9, <1>10 DEF Next

\* A .phpc file that is skipped is current.
LEMMA SkippedIsCurrent ==
    ASSUME IInv, NEW g \in Files, src[g] # None, ~ShouldCompile(g)
    PROVE  Current(g)
BY DEF IInv, NewerIsSame, ShouldCompile, UpToDateByTime, SameSystem, Current

\* What is up to date stays so while sources, PHP and its .phpc file stay.
LEMMA UpToDateStays ==
    ASSUME NEW f \in Files, UpToDate(f),
           UNCHANGED <<src, system>>, target'[f] = target[f], skipped \subseteq skipped'
    PROVE  UpToDate(f)'
BY DEF UpToDate, Current, ConstantsCurrent

\* A build that has not failed leaves what it has come to up to date.
LEMMA DoneStep == IInv /\ [Next]_vars => DoneIsCurrent'
<1> SUFFICES ASSUME IInv, [Next]_vars, pc' # "idle", clean', ~failed',
                    NEW f \in Files, src'[f] # None
             PROVE  f \in todo' \/ f = cur' \/ UpToDate(f)'
    BY DEF DoneIsCurrent
<1> USE TypeOKIs DEF IInv, DataOK, DoneIsCurrent
<1>1. ASSUME pc # "idle", clean, ~failed,
             UNCHANGED <<src, system, target, skipped, todo, cur>>
      PROVE  f \in todo' \/ f = cur' \/ UpToDate(f)'
    BY <1>1, UpToDateStays
<1>2. CASE Tick
    BY <1>1, <1>2, Zenon DEF Tick, build
<1>3. ASSUME NEW g \in Files, Edit(g) \/ Remove(g) PROVE FALSE
    BY <1>3 DEF Edit, Remove, Quiet, build
<1>4. CASE UpgradePhp
    BY <1>4 DEF UpgradePhp, build
<1>5. ASSUME NEW b \in BOOLEAN, StartBuild(b) PROVE f \in todo'
    BY <1>5 DEF StartBuild
<1>6. ASSUME NEW g \in Files, Visit(g) PROVE f \in todo' \/ f = cur' \/ UpToDate(f)'
    <2>1. /\ todo' = todo \ {g} /\ src' = src /\ target' = target /\ system' = system
          /\ pc = "scan" /\ cur = None /\ skipped \subseteq skipped'
        BY <1>6 DEF Visit
    <2>2. clean /\ ~failed
        BY <1>6, Zenon DEF Visit
    <2>3. CASE f # g
        BY <2>1, <2>2, <2>3, UpToDateStays, NoneAssumption
    <2>4. CASE f = g /\ ShouldCompile(g)
        BY <1>6, <2>4 DEF Visit
    <2>5. CASE f = g /\ ~ShouldCompile(g)
        <3>1. Current(f) /\ f \in skipped'
            BY <1>6, <2>1, <2>5, SkippedIsCurrent DEF Visit
        <3> QED
            BY <2>1, <3>1 DEF UpToDate, Current
    <2> QED
        BY <2>3, <2>4, <2>5
<1>7. CASE Compile
    <2>1. pc # "idle" /\ UNCHANGED <<src, system, target, skipped, todo>>
        BY <1>7 DEF Compile
    <2>2. clean
        BY <1>7, Zenon DEF Compile
    <2>3. failed' # TRUE
        BY Zenon
    <2>4. UNCHANGED <<cur, failed>>
        BY <1>7, <2>3, Zenon DEF Compile
    <2>5. ~failed /\ cur' = cur
        BY <2>4, Zenon
    <2> QED
        BY <1>1, <2>1, <2>2, <2>5
<1>8. CASE Store
    <2>g. PICK g \in Files : g = cur
        BY <1>8 DEF Store
    <2>1. /\ src' = src /\ system' = system /\ todo' = todo /\ skipped' = skipped
          /\ pc = "store" /\ read \in FromSource(g)
        BY <1>8, <2>g DEF Store, ReadIsSource
    <2>2. clean /\ ~failed
        BY <1>8, Zenon DEF Store
    <2>3. target' = [target EXCEPT ![g] = [is |-> read, mtime |-> clock, sys |-> system]]
        BY <1>8, <2>g, Zenon DEF Store
    <2>4. CASE f # g
        BY <2>g, <2>1, <2>2, <2>3, <2>4, UpToDateStays
    <2>5. CASE f = g
        <3>1. target'[g] = [is |-> read, mtime |-> clock, sys |-> system]
            BY <2>3
        <3>2. target'[g] \in Target
            BY <2>1, <3>1, MadeFromSource DEF Target
        <3>3. Current(g)'
            BY <2>1, <3>1, <3>2, MadeFromSource, Fields DEF Current
        <3>4. ConstantsCurrent(g)'
            BY <2>1, <3>1, MadeFromSource DEF ConstantsCurrent
        <3> QED
            BY <2>5, <3>3, <3>4 DEF UpToDate
    <2> QED
        BY <2>4, <2>5
<1>9. CASE Finish
    <2>1. pc # "idle" /\ UNCHANGED <<src, system, target, skipped, todo, cur>>
        BY <1>9 DEF Finish
    <2>2. clean /\ ~failed
        BY <1>9, Zenon DEF Finish
    <2> QED
        BY <1>1, <2>1, <2>2
<1>10. CASE OpenEntry
    <2>1. pc # "idle" /\ UNCHANGED <<src, system, target, skipped, todo, cur>>
        BY <1>10 DEF OpenEntry
    <2>2. clean /\ ~failed
        BY <1>10, Zenon DEF OpenEntry
    <2> QED
        BY <1>1, <2>1, <2>2
<1>11. CASE WriteEntry \/ Kill
    BY <1>11 DEF WriteEntry, Kill
<1>12. CASE UNCHANGED vars
    BY <1>1, <1>12, Zenon DEF vars
<1> QED
    BY <1>2, <1>3, <1>4, <1>5, <1>6, <1>7, <1>8, <1>9, <1>10, <1>11, <1>12 DEF Next

\* A build that ends without a failure has come to every source.
LEMMA CleanStep == IInv /\ [Next]_vars => CleanBuildIsCurrent'
<1> SUFFICES ASSUME IInv, [Next]_vars, pc' = "idle", clean', NEW f \in Files, src'[f] # None
             PROVE  UpToDate(f)'
    BY DEF CleanBuildIsCurrent, UpToDate
<1> USE TypeOKIs DEF IInv, DataOK
<1>1. ASSUME pc = "idle", clean, UNCHANGED <<src, system, target, skipped>> PROVE UpToDate(f)'
    <2>1. UpToDate(f)
        BY <1>1 DEF CleanBuildIsCurrent, UpToDate
    <2> QED
        BY <1>1, <2>1, UpToDateStays
<1>2. CASE Tick
    BY <1>1, <1>2, Zenon DEF Tick, build
<1>3. ASSUME NEW g \in Files, Edit(g) \/ Remove(g) PROVE FALSE
    BY <1>3 DEF Edit, Remove
<1>4. CASE UpgradePhp
    BY <1>4 DEF UpgradePhp
<1>5. ASSUME NEW b \in BOOLEAN, StartBuild(b) PROVE FALSE
    BY <1>5 DEF StartBuild
<1>6. ASSUME NEW g \in Files, Visit(g) PROVE FALSE
    BY <1>6 DEF Visit
<1>7. CASE Compile \/ Store
    BY <1>7 DEF Compile, Store
<1>8. CASE Finish
    BY <1>8, Zenon DEF Finish
<1>9. CASE OpenEntry
    BY <1>9, Zenon DEF OpenEntry
<1>10. CASE WriteEntry
    <2>1. clean /\ pc = "list"
        BY <1>10, Zenon DEF WriteEntry
    <2>2. todo = {} /\ ~failed /\ cur = None /\ UNCHANGED <<src, system, target, skipped>>
        BY <1>10, <2>1 DEF WriteEntry, AtEntry
    <2>3. UpToDate(f)
        BY <2>1, <2>2, NoneAssumption DEF DoneIsCurrent
    <2> QED
        BY <2>2, <2>3, UpToDateStays
<1>11. CASE Kill
    BY <1>11, Zenon DEF Kill
<1>12. CASE UNCHANGED vars
    BY <1>1, <1>12, Zenon DEF vars
<1> QED
    BY <1>2, <1>3, <1>4, <1>5, <1>6, <1>7, <1>8, <1>9, <1>10, <1>11, <1>12 DEF Next

LEMMA AtEntryStep == IInv /\ [Next]_vars => AtEntry'
<1> SUFFICES ASSUME IInv, [Next]_vars PROVE AtEntry'
    OBVIOUS
<1> USE TypeOKIs DEF IInv, DataOK, AtEntry
<1>1. CASE Tick
    BY <1>1 DEF Tick, build
<1>2. ASSUME NEW g \in Files, Edit(g) PROVE AtEntry'
    BY <1>2 DEF Edit, build, Quiet
<1>3. ASSUME NEW g \in Files, Remove(g) PROVE AtEntry'
    BY <1>3 DEF Remove, build
<1>4. CASE UpgradePhp
    BY <1>4 DEF UpgradePhp, build
<1>5. ASSUME NEW b \in BOOLEAN, StartBuild(b) PROVE AtEntry'
    BY <1>5 DEF StartBuild, build
<1>6. ASSUME NEW g \in Files, Visit(g) PROVE AtEntry'
    BY <1>6 DEF Visit, build
<1>7. CASE Compile
    BY <1>7 DEF Compile, build, Dropped
<1>8. CASE Store
    BY <1>8 DEF Store, build, Dropped
<1>9. CASE Finish
    BY <1>9 DEF Finish, build
<1>10. CASE OpenEntry
    BY <1>10 DEF OpenEntry, build
<1>11. CASE WriteEntry
    BY <1>11 DEF WriteEntry, build
<1>12. CASE Kill
    BY <1>12 DEF Kill, build, Dropped
<1>13. CASE UNCHANGED vars
    BY <1>13 DEF vars, build
<1> QED
    BY <1>1, <1>2, <1>3, <1>4, <1>5, <1>6, <1>7, <1>8, <1>9, <1>10, <1>11, <1>12, <1>13 DEF Next

\* The entry file is written from all .phpc files, those of the skipped sources too.
LEMMA EntryStep == IInv /\ [Next]_vars => EntryComplete'
<1> SUFFICES ASSUME IInv, [Next]_vars, pc' = "idle", clean', NEW f \in Files, src'[f] # None
             PROVE  f \in entry'
    BY DEF EntryComplete
<1> USE DEF IInv, EntryComplete
<1>1. CASE Tick
    BY <1>1, Zenon DEF Tick, build
<1>2. ASSUME NEW g \in Files, Edit(g) \/ Remove(g) PROVE FALSE
    BY <1>2 DEF Edit, Remove
<1>3. CASE UpgradePhp
    BY <1>3 DEF UpgradePhp
<1>4. ASSUME NEW b \in BOOLEAN, StartBuild(b) PROVE FALSE
    BY <1>4 DEF StartBuild
<1>5. ASSUME NEW g \in Files, Visit(g) PROVE FALSE
    BY <1>5 DEF Visit
<1>6. CASE Compile \/ Store
    BY <1>6 DEF Compile, Store
<1>7. CASE Finish
    BY <1>7, Zenon DEF Finish
<1>8. CASE OpenEntry
    BY <1>8, Zenon DEF OpenEntry
<1>9. CASE WriteEntry
    <2>1. entry' = Collected /\ target' = target
        BY <1>9, Zenon DEF WriteEntry
    <2>2. target'[f] # None
        BY CleanStep DEF CleanBuildIsCurrent, Current
    <2> QED
        BY <2>1, <2>2 DEF Collected
<1>10. CASE Kill
    BY <1>10, Zenon DEF Kill
<1>11. CASE UNCHANGED vars
    BY <1>11, Zenon DEF vars
<1> QED
    BY <1>1, <1>2, <1>3, <1>4, <1>5, <1>6, <1>7, <1>8, <1>9, <1>10, <1>11 DEF Next

LEMMA InitIInv == Init => IInv
<1> SUFFICES ASSUME Init PROVE IInv
    OBVIOUS
<1>1. TypeOK
    <2>1. DataOK
        BY BoundAssumption DEF Init, DataOK, Source
    <2>2. Flags
        BY Zenon DEF Init, Flags
    <2> QED
        BY <2>1, <2>2, TypeOKIs
<1>2. /\ Past /\ NewerIsSame /\ ReadIsSource /\ WorkIsThere /\ AtEntry /\ DoneIsCurrent
      /\ CleanBuildIsCurrent /\ EntryComplete
    BY DEF Init, Past, NewerIsSame, ReadIsSource, WorkIsThere, AtEntry, DoneIsCurrent,
           CleanBuildIsCurrent, EntryComplete
<1> QED
    BY <1>1, <1>2 DEF IInv

LEMMA Inductive == Spec => []IInv
<1>1. IInv /\ [Next]_vars => IInv'
    BY TypeStep, PastStep, NewerIsSameStep, ReadIsSourceStep, WorkIsThereStep, AtEntryStep,
       DoneStep, CleanStep, EntryStep DEF IInv
<1> QED
    BY <1>1, InitIInv, PTL DEF Spec

-------------------------------------------------------------------------------
\* phpc: every variable keeps its type, and a source is in work exactly while it is
\* compiled or stored.
THEOREM TypeCorrect == Spec => []TypeOK
<1>1. IInv => TypeOK
    BY DEF IInv
<1> QED
    BY <1>1, Inductive, PTL

\* The comparison of times and system ids in phpc never takes a .phpc file for up to
\* date that is not: any number of edits, failures, kills and upgrades.
THEOREM StaleIsFound == Spec => []StaleIsRecompiled
<1>1. IInv => StaleIsRecompiled
    BY SkippedIsCurrent DEF StaleIsRecompiled
<1> QED
    BY <1>1, Inductive, PTL

\* Exit code 0 of a phpc whose stores all succeeded: every .phpc file is of its source
\* as it is and of this PHP, and the constants of other sources in those it has
\* compiled, not skipped, are current too, whichever sources use which.
THEOREM ExitZeroIsCurrent == Spec => []CleanBuildIsCurrent
<1>1. IInv => CleanBuildIsCurrent
    BY DEF IInv
<1> QED
    BY <1>1, Inductive, PTL

\* The entry file that such a phpc writes loads every source's .phpc file.
THEOREM EntryListsAll == Spec => []EntryComplete
<1>1. IInv => EntryComplete
    BY DEF IInv
<1> QED
    BY <1>1, Inductive, PTL
===============================================================================
