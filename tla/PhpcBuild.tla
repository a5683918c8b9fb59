------------------------------- MODULE PhpcBuild -------------------------------
(***************************************************************************)
(* The compile mode of the phpc tool (src/bin/phpc): which sources an      *)
(* incremental build compiles again, while somebody edits them, builds     *)
(* fail or are killed, and PHP is upgraded between builds; and the entry   *)
(* file that a build without failures ends with (opkit_gen_entry_file).    *)
(*                                                                         *)
(* Time is the file system's clock in the unit filemtime() reports,        *)
(* seconds: many steps may happen in one.                                  *)
(*                                                                         *)
(* What a .phpc file holds depends on more than its source: the compiler   *)
(* evaluates constant expressions (opkit_compile.c:1672-1840), and phpc    *)
(* autoloads the sources that declare the classes they name.  phpc         *)
(* compares the times of the source and its .phpc file only.               *)
(***************************************************************************)
EXTENDS Integers

CONSTANTS
    Files,
    Uses,           \* Uses[f]: the other sources whose constants f's constant
                    \* expressions name, through those of other sources too
    MaxVersion,     \* bound: edits of a source
    MaxTime,        \* bound: seconds
    MaxSystem,      \* bound: PHP upgrades
    None            \* no such file, no file in work

ASSUME BoundAssumption ==
    MaxVersion \in Nat /\ MaxTime \in Nat \ {0} /\ MaxSystem \in Nat
ASSUME UsesAssumption == Uses \in [Files -> SUBSET Files]

\* What a compilation makes of a source: its version, and of each source the one
\* whose constants it has evaluated (None: of none; left to run time, or not used).
Compiled == [ver : 0 .. MaxVersion, used : [Files -> (0 .. MaxVersion) \cup {None}]]

Source == [ver : 0 .. MaxVersion, mtime : 0 .. MaxTime]
Target == [is : Compiled, mtime : 0 .. MaxTime, sys : 0 .. MaxSystem]

ASSUME NoneAssumption ==
    None \notin Files \cup (0 .. MaxVersion) \cup Compiled \cup Source \cup Target

VARIABLES
    clock,
    system,     \* zend_system_id of the installed PHP
    src,        \* src[f]: the source, [ver, mtime]
    target,     \* target[f]: its .phpc file, [is, mtime, sys]
    entry,      \* what the entry file loads; nothing if there is none, or half
    pc,         \* the build: idle, scan, compile, store, entry or list
    force,      \* --force
    todo,       \* sources the iterator has not come to
    cur,        \* the source in work
    read,       \* what its compilation has made
    skipped,    \* sources this build or the last one took for up to date
    failed,     \* has a file failed in this build?
    clean       \* observer: the last build ended with exit code 0, and no store
                \* and no entry file failed in it; nothing was edited or
                \* upgraded since

vars == <<clock, system, src, target, entry, pc, force, todo, cur, read, skipped,
          failed, clean>>
build == <<pc, force, todo, cur, read, skipped, failed>>

Init ==
    /\ clock = 1
    /\ system = 0
    /\ src = [f \in Files |-> [ver |-> 0, mtime |-> 0]]
    /\ target = [f \in Files |-> None]
    /\ entry = {}
    /\ pc = "idle" /\ force = FALSE /\ failed = FALSE
    /\ todo = {} /\ cur = None /\ read = None /\ skipped = {}
    /\ clean = FALSE

Tick ==
    /\ clock < MaxTime
    /\ clock' = clock + 1
    /\ UNCHANGED <<system, src, target, entry, build, clean>>

\* The build's precondition: nobody edits while it runs or in a second in which
\* it has stored.  (Filemtime would not show such an edit.)
Quiet == pc = "idle" /\ \A f \in Files : target[f] # None => target[f].mtime < clock

Edit(f) ==
    /\ Quiet
    /\ src[f] # None
    /\ src[f].ver < MaxVersion
    /\ src' = [src EXCEPT ![f] = [ver |-> @.ver + 1, mtime |-> clock]]
    /\ clean' = FALSE
    /\ UNCHANGED <<clock, system, target, entry, build>>

\* The source goes; its .phpc file stays.
Remove(f) ==
    /\ Quiet
    /\ src[f] # None
    /\ src' = [src EXCEPT ![f] = None]
    /\ clean' = FALSE
    /\ UNCHANGED <<clock, system, target, entry, build>>

UpgradePhp ==
    /\ pc = "idle"
    /\ system < MaxSystem
    /\ system' = system + 1
    /\ clean' = FALSE
    /\ UNCHANGED <<clock, src, target, entry, build>>

StartBuild(f) ==
    /\ pc = "idle"
    /\ pc' = "scan"
    /\ force' = f
    /\ todo' = {g \in Files : src[g] # None}
    /\ skipped' = {}
    /\ failed' = FALSE
    /\ clean' = TRUE
    /\ UNCHANGED <<clock, system, src, target, entry, cur, read>>

-------------------------------------------------------------------------------
\* mutants of UpToDateByTime and Dropped
AnyTime(f) == TRUE
FileKept == UNCHANGED <<cur, read>>

UpToDateByTime(f) == src[f].mtime <= target[f].mtime
SameSystem(f) == target[f].sys = system      \* opkit_get_info: system_id_match

Dropped == cur' = None /\ read' = None          \* done with the file in work

ShouldCompile(f) ==
    force \/ target[f] = None \/ ~(UpToDateByTime(f) /\ SameSystem(f))

\* The iterator comes to the next source that is still there.
Visit(f) ==
    /\ pc = "scan"
    /\ f \in todo
    /\ todo' = todo \ {f}
    /\ IF ShouldCompile(f)
         THEN pc' = "compile" /\ cur' = f /\ UNCHANGED skipped
         ELSE skipped' = skipped \cup {f} /\ UNCHANGED <<pc, cur>>
    /\ UNCHANGED <<clock, system, src, target, entry, force, read, failed, clean>>

\* mutant of FromSource: constants come from the .phpc files that are there
FromOutput(f) ==
    {c \in Compiled :
        /\ c.ver = src[f].ver
        /\ \A g \in Files : c.used[g] \in
               {None} \cup (IF g \in Uses[f] /\ target[g] # None THEN {target[g].is.ver} ELSE {})}

\* The source as it is.  The constants of a source it uses are those of the
\* source as it is, loaded by the autoloader of phpc, unless they can only be
\* evaluated at run time (enum cases) or their source is gone.
FromSource(f) ==
    {c \in Compiled :
        /\ c.ver = src[f].ver
        /\ \A g \in Files : c.used[g] \in
               {None} \cup (IF g \in Uses[f] /\ src[g] # None THEN {src[g].ver} ELSE {})}

\* opkit_compile_file reads and compiles it, or cannot.
Compile ==
    /\ pc = "compile"
    /\ \/ pc' = "store" /\ read' \in FromSource(cur) /\ UNCHANGED <<cur, failed>>
       \/ pc' = "scan" /\ failed' = TRUE /\ Dropped
    /\ UNCHANGED <<clock, system, src, target, entry, force, todo, skipped, clean>>

\* The .phpc file is replaced.  An error of the store is not reported: phpc
\* counts the file as compiled.
Store ==
    /\ pc = "store"
    /\ \/ /\ target' = [target EXCEPT ![cur] =
                            [is |-> read, mtime |-> clock, sys |-> system]]
          /\ UNCHANGED clean
       \/ clean' = FALSE /\ UNCHANGED target
    /\ pc' = "scan" /\ Dropped
    /\ UNCHANGED <<clock, system, src, entry, force, todo, skipped, failed>>

\* Exit code 1 if a file has failed, and the entry file stays as it was.
Finish ==
    /\ pc = "scan"
    /\ todo = {}
    /\ pc' = IF failed THEN "idle" ELSE "entry"
    /\ clean' = (clean /\ ~failed)
    /\ force' = FALSE
    /\ UNCHANGED <<clock, system, src, target, entry, todo, cur, read, skipped, failed>>

\* The entry file is emptied.  If it cannot be opened that is a warning.
OpenEntry ==
    /\ pc = "entry"
    /\ \/ entry' = {} /\ pc' = "list" /\ UNCHANGED clean
       \/ pc' = "idle" /\ clean' = FALSE /\ UNCHANGED entry
    /\ UNCHANGED <<clock, system, src, target, force, todo, cur, read, skipped, failed>>

\* mutant of Collected: the files of this build
CollectedNow == {f \in Files : target[f] # None /\ target[f].mtime = clock}

\* opkit_collect_phpc_files: whatever .phpc files are in the directory.
Collected == {f \in Files : target[f] # None}

\* The results of opendir, stat and the writes are not looked at: what cannot be
\* read or written is left out, and the build ends as if it were there.
WriteEntry ==
    /\ pc = "list"
    /\ \/ entry' = Collected /\ UNCHANGED clean
       \/ entry' \in SUBSET Collected /\ clean' = FALSE
    /\ pc' = "idle"
    /\ UNCHANGED <<clock, system, src, target, force, todo, cur, read, skipped, failed>>

Kill ==
    /\ pc # "idle"
    /\ pc' = "idle" /\ todo' = {} /\ force' = FALSE /\ Dropped
    /\ clean' = FALSE
    /\ UNCHANGED <<clock, system, src, target, entry, skipped, failed>>

Next ==
    \/ Tick \/ UpgradePhp \/ Compile \/ Store \/ Finish \/ OpenEntry \/ WriteEntry \/ Kill
    \/ \E f \in Files : Edit(f) \/ Remove(f) \/ Visit(f)
    \/ \E f \in BOOLEAN : StartBuild(f)

Spec == Init /\ [][Next]_vars

-------------------------------------------------------------------------------
\* Every variable has its type, and a source is in work exactly while one is
\* compiled or stored: after a file that fails, too.
TypeOK ==
    /\ clock \in 0 .. MaxTime /\ system \in 0 .. MaxSystem
    /\ src \in [Files -> Source \cup {None}]
    /\ target \in [Files -> Target \cup {None}]
    /\ entry \subseteq Files
    /\ pc \in {"idle", "scan", "compile", "store", "entry", "list"}
    /\ todo \subseteq Files
    /\ cur \in Files \cup {None} /\ (cur # None <=> pc \in {"compile", "store"})
    /\ read \in Compiled \cup {None} /\ (read # None <=> pc = "store")
    /\ skipped \subseteq Files
    /\ force \in BOOLEAN /\ failed \in BOOLEAN /\ clean \in BOOLEAN

Current(f) == target[f] # None /\ target[f].is.ver = src[f].ver
                               /\ target[f].sys = system

\* The constants in f's .phpc file are those of the sources as they are.
ConstantsCurrent(f) ==
    \A g \in Files : src[g] # None => target[f].is.used[g] \in {None, src[g].ver}

\* A .phpc file that is not that of its source and of this PHP never looks up
\* to date: the next build compiles it, whatever failed, was killed or was
\* edited before.
StaleIsRecompiled ==
    \A f \in Files : src[f] # None /\ ~Current(f) => ShouldCompile(f)

\* What exit code 0 of a build in which no store failed says.  Every .phpc file is
\* of its source as it is and of this PHP.  The constants of other sources in it
\* are theirs as they are in the files that the build has compiled; a file that it
\* skipped may hold old ones (only a forced build skips none).
CleanBuildIsCurrent ==
    pc = "idle" /\ clean =>
        \A f \in Files : src[f] # None =>
            Current(f) /\ (f \in skipped \/ ConstantsCurrent(f))

\* After such a build, whose entry file could be written, the entry file loads
\* every source's .phpc file, those of the skipped sources too.
EntryComplete ==
    pc = "idle" /\ clean => \A f \in Files : src[f] # None => f \in entry
===============================================================================
