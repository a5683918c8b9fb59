# opkit in TLA+

opkit is a PHP extension that compiles PHP sources ahead of time into `.phpc`
files (`opkit_compile_file`, the `phpc` tool) and loads and runs them later
(`opkit_load`, `opkit_boot`), from a shared-memory segment when there is one.
This directory holds TLA+ models of the parts of it that are hard to test, the
TLC configurations that check them, and proofs for the allocator, the registry,
the class linker, the store, the incremental build, the compiler front and the
persistence of a script in memory.

Every path below is relative to the root of the repository, `src/` in the
module comments and in `PROJECT.json`.

## 1. Inventory

| Component | State it keeps | Operations | Talks to | What is hard |
|---|---|---|---|---|
| Shared memory allocator (`src/opkit_shared_alloc.c`) | the mapping, `pos` and `end` in a malloc'ed descriptor, the lock file's descriptor | startup, shutdown, alloc, free space, reset, lock, unlock | the load, `opkit_shm_reset`, `opkit_shm_stat`, MINIT/MSHUTDOWN | pages are shared, `pos` is private after fork; test before lock; rounding; kills while the lock is held |
| Script registry (`src/opkit_module.c`) | `loaded_scripts`, a stack of nodes; the engine's function, class and constant tables; run-time caches | `opkit_load`, `opkit_load_multi`, `opkit_boot`, `opkit_is_loaded`, `opkit_shm_reset`, RSHUTDOWN | loader, allocator, linker, engine | booted code calls back into opkit; fork copies the list; scripts in shared memory are written to |
| Class linker, constant resolver (`src/opkit_module.c` 1091-1400) | the class table and its keys, which classes are linked and up to date | linking to a fixpoint, a warning pass, resolving constants to a fixpoint | boot, engine | the table's keys change while it is walked; order of dependencies, cycles, duplicates, classes that fail; termination |
| Compiler front (`opkit_compile_file` in `src/opkit_compile.c`, `src/opkit_util_funcs.c`) | the global tables while a file is compiled, the marks of `opkit_globals_mark` | compile, move user functions, classes and constants, mark, cleanup | engine, autoloaders | counts into tables that change meanwhile |
| Persistence (`src/opkit_zend_persist*.c`, the allocation in `src/opkit_wrapper.h`) | the translation table, one block of memory | calculate a size, copy | compiler front | two traversals written by hand must agree; shared structures; structures found by their place |
| Serialization (`src/opkit_compile.c` 1-1446) | a buffer, a string pool | pointers to offsets and back | store, load | each pointer once, in both directions, for each PHP version |
| Store protocol (`opkit_compile_script_store`, `opkit_compile_script_load`) | the target file, the temporary file, the flock on it | open, lock, write, rename, read | file system, other builds, loaders | concurrent builds, readers in between, failing calls, kills |
| Incremental build (`bin/phpc`, `opkit_gen_entry_file` in `src/opkit_module.c`) | sources and `.phpc` files with mtimes and system ids, the entry file | scan, compare, compile, count, list what is there | compiler, store, `opkit_get_info` | edits during a build, failures, kills, upgrades of PHP |
| `phpc` analysis, stubs, phar; `opkit_get_info` | none that lasts | read and print | | |
| Composer plugin (`composer/src`) | none | starts `phpc` | | |

What makes each component correct, in one line each:

- allocator: no process is handed bytes it still uses; what a parent loaded
  before the fork stays; the lock excludes and never stays taken;
- registry: no table entry outlives its script, no run-time cache is freed by a
  process it does not belong to, and none is forgotten; which script a name means
  follows from the order of loads and boots alone;
- store: a loader sees one complete store, whatever writers do;
- build: a `.phpc` file that is not its source's is compiled by the next build,
  and the entry file loads all there is;
- compiler front: a script gets its file's symbols and no others, and the
  tables hold what they held before;
- linker: a class is linked when and only when everything it needs is, whatever
  the order; a name never changes its meaning; the passes end;
- persistence: what is copied fits into what was calculated, and shared
  structures stay shared; serialization: every pointer is turned once in each
  direction, and the script that is loaded is the one that was compiled.

The hazards, each at its line and with the properties that watch it, are listed
in `PROJECT.json` under "hazards".

## 2. Modules

### SharedAlloc, PrivateHeap (the allocator)

`SharedAlloc` has one process per OS process. The pages are one function
`page`, shared; `pos[p]` is private and copied by `Fork`, because
`opkit_shared_segment` is malloc'ed before the fork. The lock is fcntl's: it
belongs to a process and the kernel drops it when the process ends.

A load is split where another process can run: `BeginLoad` (the free-space test
of `opkit_compile_script_load`, before the lock), `Lock`, `Alloc` (the rounded
size may fail although the test passed), `Unlock`, and `ReadPayload` or
`ShortRead`, after the lock was released. `BeginReset`, `ResetPos` are
`opkit_shm_reset`; `EndRequest` is RSHUTDOWN; `Exit` is MSHUTDOWN or a kill, at
any label. A byte is abstracted to the tag of the load that wrote it last, a
script to the block its node points into (`held`). `prefork` and `resetAfter`
are observers.

`PrivateHeap` is what the allocator promises: one heap per process, and nothing
between two of them. `ImplementsPrivateHeap` is the refinement.

### ScriptRuntime (the registry)

One single-threaded PHP program per process. `list` is `loaded_scripts`
(newest first), `tab` the engine's tables with each entry abstracted to the
load whose memory it points into (`Item`), or to the copy that linking makes of a
class of that load (`Clone`).

Functions and constants are found by their names. A class is not: `opkit_do_compile_file`
sets `ZEND_COMPILE_WITHOUT_EXECUTION` (`src/opkit_module.c:295`), so the compiler links
no class, not even one without a parent, and the script has each under a run-time definition key
that names the file (`KeyOf`). Two files that declare one class do not collide when they are
registered; `opkit_link_classes` gives the name to the first in the table that it can link.
So the model keeps the order of the table (`place`: a new key comes behind all others, one that
is there stays where it is), and links class by class (`LinkClass`), pass after pass (`Turn`),
until none is left (`LinkDone`).

`OpkitLoad` loads and registers the constants at once. `BootStart` is phase 1 of `opkit_boot`,
then the links (no PHP code runs in them as modelled), then one `RunScript` and `ScriptDone` or
`ScriptThrows` per script, then `EnterMain`, `MainDone`. While a script or `main` runs, booted
code may call the functions in `InCode`, and the process may fork: the child goes on inside the
same code. `ShmReset`, `CompileFile` and `EndRequest` contain `opkit_reset_script`.
`cache[h][id]` is the `run_time_cache` pointer in the script's memory: for a script on the heap
one per process, for a script in the segment one for all; `live[p]` are the caches allocated on
`p`'s heap, which a fork copies with their addresses.

### ScriptStore, AtomicPublish (the store)

`ScriptStore` interleaves the system calls of `opkit_compile_script_store` of
several writers with the two reads of `opkit_compile_script_load`. Files are
inodes, so that a rename moves a file that somebody has open. A file's content
is its header's and its payload's origin. Each call may fail, and a writer may
be killed before each; another process may get its pid (`Restart`).
`AtomicPublish` is the abstract promise: the published version changes in one
step to that of a store that was under way.

`owned[w]` is the memory the running store has to release, one element per
piece that is released in one place (the script's block, the file names, the
relative name, the reference to the script's name, the translation table, the
buffer, the string pool); `misfreed[w]` is what was released without being
owned. Every way out is an action or a disjunct with its own `Release`, as the
code has its own list at each. A failed rename (`RenameFails`) goes to the
label that all errors share after the success path has already released half of
it.

### PhpcBuild (the incremental build)

Sources with a version and an mtime, `.phpc` files with what they were compiled
from, their mtime and system id. What a compilation makes of a source depends on
other sources too: the compiler evaluates constant expressions
(`src/opkit_compile.c:1722`) and the autoloader of `phpc` requires the sources of the classes they name
(`bin/phpc:198`). `Uses` says which, and `Compiled` has the version of the source and, of each
source it uses, the version whose constants were evaluated (or none: an expression
may be left to run time). The decision to compile, `UpToDateByTime`, looks at neither.
`StartBuild`, `Visit`, `Compile`, `Store`, `Finish`, `Kill` are a run of `phpc`;
`Edit`, `Remove`, `UpgradePhp` and `Tick` are the world around it. `skipped` are the
sources that the build took for up to date.

A build without failures goes on to the entry file, with what `opkit_gen_entry_file`
does: `OpenEntry` opens it for writing, which empties it, and `WriteEntry` lists the
`.phpc` files that are in the directory (`Collected`), whatever this build has
compiled. If it cannot be opened `phpc` prints a warning and still exits with 0; if a
directory cannot be read or a write fails it says nothing (`src/opkit_module.c:1646`-`1666`), and entries are
missing. `clean` leaves both out; a kill between the two leaves half a file, which loads nothing
(`entry` is empty). The model has the default place of the entry file, in the output
directory, and no `--phar`, which leaves it out.

### CompileTables (the compiler front)

`opkit_compile_file` finds the symbols of its file by counting: `nNumUsed` of
the function, class and constant tables at the beginning, everything behind it
at the end. The model has the tables as the engine has them, arrays with holes
that close when an insertion finds the array full, since that is what the
counts depend on. One compilation is `Begin` (the compiler runs, maybe to an
error), `RegisterConst` per constant, `FlagConstants`, then `Finish` (the three
moves) or `Discard`. Where constant expressions are evaluated PHP code runs: a
class that is not there makes the autoloader of `phpc` require a file
(`Autoload`), or an exception is thrown (`Throw`). `Mark` and `Cleanup` are
`opkit_globals_mark` and `opkit_globals_cleanup` around the batch. `before` and
`atMark` are observers.

### ClassLink (the class linker and the constant resolver)

The class table is `N` buckets; `decl[i]` is what class `i` declares and `key[i]`
the key of its bucket: the RTD key that the compiler has made of file and line,
or the class's name. `LinkSkip`, `LinkOk`, `LinkNull` and `LinkBailout` are what
one turn of the loop in `opkit_link_classes` can do to the bucket at `pos`,
`EndLinkPass` is its `while (changed)`. Which of them is taken follows the code:
the lookups by name (`Taken`, `DepsPresent`) are in the code, what
`zend_do_link_class` then comes to (`Outcome`) is the engine's and external: a
class that is not linked, or is a trait where a class is needed, cannot be linked
on, and any class may fail for reasons of its own (`outcome`, one per class).
A class that comes back as NULL keeps the key it was given, a bailout puts the
old key back. `Warn` is the loop that warns; `ResolveSkip`, `TryResolve` and
`EndResolvePass` go through the table backwards, as
`opkit_resolve_all_class_constants` does; evaluating an expression
(`Evaluates`, the engine's) evaluates the constants it refers to as well.

`ScriptRuntime` has the same passes without failures and one step per class that is
linked (`LinkClass`): what it adds is whose class gets the name, over loads, boots and resets.
That the passes end (`Terminates`) and leave nothing behind that could be linked
(`AllLinked`) is shown in `ClassLink`.

### ScriptImage (size calculation, persistence, serialization)

A compiled script is a graph of structures. Four traversals, each written by
hand in C, go through it one after the other: `calc` sums up the size, `persist`
copies every structure into one block, `serialize` turns the addresses in a copy
of the block into offsets and strings into offsets of the string pool,
`unserialize` turns them back in the loading process. For each traversal and
each kind of structure the module has the list of the fields that the C function
handles, in its order, with the conditions on the PHP version, and how it handles
them (the mode: counted once or always, through the translation table or not,
guarded or not): `CalcClass`, `PersistClass`, `SerializeClass`,
`UnserializeClass` and so on. The steps are what a macro or helper does to one
pointer; `todo` is the C stack. `xlat` is `ZCG(xlat_table)`, which the four
traversals use differently and which is cleared in between.

Sizes are counted in structures, not in bytes: what can go wrong is a structure
that one traversal has and another has not. A pointer carries where it points to
and in which space (the compiler's memory, the block, an offset, the loader's
memory, the string pool); an address that is computed from the wrong one is
`Wild`.

A hook of a property (PHP 8.4) points back to it, `hook->prop_info`. The pointer is not in the lists:
persist writes the address of its copy there (`src/opkit_zend_persist.c:646`), serialize does not turn it
and unserialize writes it anew (`src/opkit_compile.c:1162`). It is in `prop_info`, by block; `TieHook` sets it
wherever a traversal enters a hook. `default_object_handlers` of a class (PHP 8.3) is a pointer into PHP
itself that no traversal touches; `opkit_link_classes` sets it in the copy that it makes
(`src/opkit_module.c:1349`). It is left out.

### MC modules

`MCSharedAlloc`, `MCScriptRuntime`, `MCScriptStore`, `MCPhpcBuild` and
`MCCompileTables` name the model values and the functions the configurations
assign to constants. `MCClassLink` has the tables and `MCScriptImage` the
scripts: a file with a class, a function and main code, and features of PHP that
add structures to it. `PhpcBuild` uses the symmetry of its two sources, each of which
uses the other; no liveness property is checked there. No other run uses symmetry.

### Proof modules

`SharedAlloc_proofs`, `ScriptRuntime_proofs`, `ScriptStore_proofs`, `PhpcBuild_proofs`,
`CompileTables_proofs`, `ClassLink_proofs` and `ScriptImage_proofs` each extend the module
they are about, and `ScriptImageLoad_proofs` extends `ScriptImage_proofs`. Section 4 says what
they prove.

### Mutants

A definition commented "mutant of X" is a plausible bug in X; it is used
nowhere in the models. Substituting it for X must break the property it is
listed with in `PROJECT.json`, which shows that the property can fail.

## 3. Runs

| Configuration | Properties | What it shows |
|---|---|---|
| SharedAlloc_pair | TypeOK, MutualExclusion, PreforkIntact, ClaimedDisjoint, ImplementsPrivateHeap, LockGranted | two processes that fork, load, reset and are killed, odd sizes in a segment of odd size; nobody waits for ever for the lock |
| ScriptRuntime_symbols | ItemsLoaded, NamesResolve, ClassesResolve | one process, two files with a function, a constant and a class in common and a class that extends it, on the heap and in the segment, six calls, booted code calls back: no entry but a linked class's outlives its script, and whose function, constant or class a name means |
| ScriptRuntime_fork | TypeOK, CacheIsOwn, NoCacheLost | scripts on the heap, forks between boots, in the top-level code of a script and in the entry function, three calls per process; booted code loads: a cache is used and freed by the process whose heap it is on, and none is forgotten |
| ScriptStore_writers | TypeOK, LoadsWhole, ReleasedOnce, ImplementsAtomicPublish | two writers with pids of their own, a loader, every error and kill, and a new writer with the pid of a dead one |
| CompileTables_batch | TypeOK, OwnOnly, OthersKept, CleanupRestores, AloneExact | three compilations that fail and load dependencies anywhere: nobody's symbols get into another's script, the tables lose nothing, the cleanup restores them |
| PhpcBuild | TypeOK, StaleIsRecompiled, CleanBuildIsCurrent, EntryComplete | a file that is not its source's is found by the next build whatever went wrong in the last; after exit code 0 every file is that of its own source, the constants of other sources in it are current if this build has compiled it, and the entry file loads all of it |
| ClassLink | TypeOK, NameOnce, LinkedClosed, AllLinked, ConstantsComplete, BindingsStay, Terminates | 8,576 tables: any dependencies, cycles, duplicate names, traits for classes, failing classes, constants that refer to each other |
| ScriptImage | TypeOK, FitsBuffer, CopiedOnce, Adjacent, RelocatedOnce, PositionIndependent, Faithful | every pair of features and all of them, for the three PHP versions that differ: the round trip of a script |

### Runs that show a disagreement

Each checks one sentence of the documentation or of a comment, and TLC finds a
behaviour of the code against it. The sentence and the lines are in
`PROJECT.json`, "findings".

| Configuration | Property | What happens |
|---|---|---|
| SharedAlloc_overlap | HeldIntact | two forked workers that both load get the same offsets of the same pages |
| ScriptRuntime_child | NoDanglingSymbol | a linked class, and every class gets linked, is not recognised by the cleanup |
| CompileTables_holes | SymbolsComplete | holes of an earlier compilation close in the middle of a later one, and its script loses functions |
| ScriptImage_size | FitsBuffer | doc comments are copied but not counted: what the slack of 4096 bytes does not hold is written behind the block |

### Seen while modelling, without a run

- With scripts in the segment (`Placement`) and two processes, `CacheIsOwn` fails in `ScriptRuntime`: the
  first process that executes a shared script leaves a pointer to its own heap in
  it (`src/opkit_module.c:1576`), the next one executes with it and frees it
  (line 189). `docs/COMPILATION_PROCESS.md:1262` has the children boot without
  loading again.
- With the same pid for both writers (two containers, one volume), `LoadsWhole`
  fails in `ScriptStore`: they share the temporary file, and `O_TRUNC` empties
  the inode the other has published (`src/opkit_compile.c:2464`), in spite of
  the "exclusive locks" of `README.en.md:18`.
- A failed rename releases the relative name, the reference to the script's name
  and the translation table a second time and leaks the script's block
  (`src/opkit_compile.c:2567`). `ReleasedOnce` excepts it.
- `linked` classes only are safe to use, but a class whose linking returned NULL
  stays in the table under its name (`src/opkit_module.c:1314`); the comment in
  line 1260 says that rollbacks are handled. `ClassLink!LinkNull` has it.
- The warning loop (`src/opkit_module.c:1389`) warns only of classes whose
  dependencies exist, with a kind and a name that are null then; of a class with
  an unknown parent nobody hears. `ClassLink!Warn` has it.
- From PHP 8.4 on the doc comment of a function is moved into the image
  (`src/opkit_zend_persist.c:414`) but not serialized
  (`src/opkit_compile.c:431`); `docs/COMPILATION_PROCESS.md:575` says it is for all
  versions. Those of a class and a property are serialized
  (`src/opkit_compile.c:585`, `:517`) but not moved (`src/opkit_zend_persist.c:866`,
  `:623`): the offset is that of an address outside the image, though
  `opkit_wrapper.h:61` says PHP 8.4 has no such field. With `DocScripts` for `Scripts`,
  `RelocatedOnce` fails for the class and `PositionIndependent` for the function. The
  loaded fields are not read by opkit.
- `__callstatic` (from PHP 8.2 on) and `__debugInfo` are serialized
  (`src/opkit_compile.c:698`) but not translated by `zend_update_parent_ce`
  (`src/opkit_zend_persist.c:977`). With `MagicScripts` for `Scripts`,
  `RelocatedOnce` fails.
- The consistency check behind persist (`src/opkit_compile.c:2438`) compares the
  end of the block with a size that persist has computed from the same end
  (`src/opkit_zend_persist.c:1121`), not with the size calculated.
- The delayed early bindings are finalised after the opcodes that name them were
  made NOPs, and do nothing when the main code has no run-time cache
  (`src/opkit_util_funcs.c:387`, `:435`, `src/opkit_module.c:1555`).
- Booted code that calls `opkit_shm_reset` or `opkit_compile_file` frees the
  node and the script it is running from (`src/opkit_module.c:1807`).
  `ScriptRuntime` has it with "drop" in `InCode`: with it `NoCacheLost` fails, since
  the running script is off the list, and the actions that need the freed node or script
  (`ScriptDone`, `MainDone`) are not there any more; ScriptRuntime_symbols has such histories. What the C code does
  with the freed memory is undefined and not modelled.
- Which of two files that declare a class gives it its name differs from functions and
  constants: the class is that of the file loaded last before the first boot, the
  function that of the file loaded first. `ClassesResolve` and `NamesResolve` say so; no document
  says what should be.
- An incremental build leaves a `.phpc` file with constants of another source that has been
  edited since: `bin/phpc:231` compares the file's own times. `CleanBuildIsCurrent` is
  false without `f \in skipped`. `README.en.md:16` and `PHPC_MANUAL.en.md:136`-`141` promise no more
  than the comparison of times and system ids; `--force` and `--no-incremental` compile everything.
- `opkit_load` copies the path out of a string that it has released
  (`src/opkit_module.c:442`); `opkit_is_loaded` compares with that copy.
- A failed compilation drops the dependency it has autoloaded
  (`src/opkit_compile.c:1872`) and `require_once` does not load it again, so
  files compiled later can fail for want of its classes. A constant that a
  dependency has defined, or the engine, is missing in the script of its own file
  (`src/opkit_compile.c:1734` ignores the result of `zend_hash_add_ptr`), or gets into the script of the file that needed
  the dependency (`src/opkit_compile.c:1741`). `CompileTables` has these
  behaviours; `AloneExact` is about batches without dependencies, and its theorem has
  `ConstantsNew` as a hypothesis for the engine's constants.
- `opkit_shm_reset` moves `pos` of the calling process only
  (`src/opkit_shared_alloc.c:151`); `docs/EXECUTION_MODEL_BEHAVIOR.md:373` says
  that it affects all processes. It has the same cause as SharedAlloc_overlap.
- `opkit_shm_stat` returns null for a segment that is full
  (`src/opkit_module.c:1816`); `README.en.md:230` says null if shared memory is
  not enabled.
- A child inherits `loaded_scripts` (`src/opkit_module.c:63`);
  `docs/EXECUTION_MODEL_BEHAVIOR.md:178` says that it does not.
- `TODO.md:174`-`184` records 49 files whose persisted size exceeds the calculated one by 64 to 432
  bytes, which the slack absorbs. The only structures that persist copies and calc does not count
  in the model are doc comments; `FitsBuffer` includes the slack and does not say that the sizes agree.
- The opcodes are freed at `src/opkit_zend_persist.c:464` and the old address is read again at
  line 496. What a freed block holds is outside the model.
- The load does not compare the checksum (`src/opkit_compile.c:1467`); the
  comment in line 1450 says that it does.
- `opkit_compile_file` returns true when the store has failed
  (`src/opkit_module.c:301`), so `phpc` reports the file as compiled; the model
  has it as the second disjunct of `PhpcBuild!Store`.
- An edit during a build, or in the second in which it stores the file, is not
  later than the `.phpc` file's mtime (`bin/phpc:231`) and is never compiled;
  `PhpcBuild!Quiet` excludes it.
- The `.phpc` file of a removed source stays (`bin/phpc:222` walks the sources) and
  the entry file goes on loading it: `EntryComplete` says that no source is missing, not
  that nothing else is there.

### Bounds

Every bound is a constant and stands in a guard.

- `ShmSize` 4 and 5 bytes, `Align` 2: a block fits exactly, does not fit, and
  fits only before rounding; the segment ends on and off an aligned offset.
- Two processes: the properties relate a process to itself or to the one it was
  forked from. `MaxCalls` 2 lets each allocate twice, or reset and allocate again.
  The proofs cover any number.
  `LockErrors` is FALSE in the runs; the proofs cover both values.
- `ScriptRuntime`: two files that share a function, a constant and a class
  (`SharedNames`), one of them with a class that extends the shared one;
  six calls (`MaxCalls`) are enough to load both, boot, reset, load again and
  boot again, or to load a file twice before and after a boot. With two processes three calls each
  (load, boot, load or reset in each of them); those files have no classes (`NoClassNames`), since run-time caches
  have nothing to do with linking.
- `ScriptStore`: two writers, two stores each, so that a store meets the
  leavings of the last one, or of a dead process with its pid; two loads, one
  before and one after a store.
- `CompileTables`: three files (one with a function, a class and a constant,
  one without the function, one with two functions); `FirstSize` 4 stands for
  the engine's powers of two, so that a table becomes full with holes in it and
  without; three compilations (`MaxCompiles`) leave holes, close them and go on.
- `ClassLink`: one internal and three other classes. A cycle, a chain, a
  duplicate and a class that waits for a later pass take at most three; the
  theorems are for any table. The tables are the combinations `MCTables` lists:
  dependencies with duplicates and one failing class, kinds, constants.
- `ScriptImage`: every pair of thirteen features, and all of them, so that each
  structure occurs alone, with each other one, and shared; PHP 8.2, 8.3 and 8.4,
  where the field lists differ. `Slack` 4 holds the doc comments of the function, the
  class, its property and its constant (`FourDocComments`), 1 does not; it stands for the 4096 bytes.
- `PhpcBuild`: two sources that use each other's constants (one fails, one does not), two
  edits of each, four seconds, one upgrade.

Deadlock is checked for `ClassLink` and `ScriptImage`, whose last actions
(`Booted`, `Finished`) are the only way to stop. In the other runs it is not:
with all processes dead or all calls made the systems stop, as they really may.

### Fairness

`SharedAlloc!FairSpec`: weak fairness of each process's steps inside opkit's
code. The kernel schedules every process, and a process in that code waits for
nothing but the lock. Weak fairness of `Lock` is enough since each process makes
finitely many calls, so the lock cannot be taken from a waiter for ever.
`ClassLink!Spec`: weak fairness of `Next`. The linker and the resolver are loops
in one C function each, called by `opkit_boot`: once called they run on.
No fairness is assumed anywhere of callers, forks or kills.

### Preconditions worth knowing

- `NoDanglingSymbol` holds of no program that boots a script with a class
  (ScriptRuntime_child); `ItemsLoaded` is what remains of it. It says nothing of linked classes.
- `ScriptRuntime_fork` has booted code that loads but does not reset or compile
  (`NoCacheLost`, see above), and scripts on the heap (`CacheIsOwn`, see above).
- `ClassesResolve` is about classes that depend on no other: which of two files' class
  a dependent one extends is then determined, whether it can be linked is `ClassLink`'s.
- `ScriptStore_writers` has a pid per writer (see above).
- `ScriptImage` has doc comments of functions, classes and properties before PHP 8.4 only
  (of constants always), and no `__callstatic` or `__debugInfo` (see above). Its scripts
  satisfy `Plain`, which the theorems of `ScriptImageLoad_proofs` assume: `PlainScripts`.
- `PhpcBuild` has only edits that the clock can tell from the build (`Quiet`), and exit code 0
  is taken for what it says only when no store and no write of the entry file has failed
  (`clean`), since `phpc` does not hear of those.

## 4. Proofs

`SharedAlloc_proofs` proves, for all values of the constants that satisfy
`ProcAssumption` and `SizeAssumption` (any processes, sizes, alignment):

| Theorem | Statement |
|---|---|
| TypeCorrect | `Spec => []TypeOK` |
| LockIsExclusive | `Spec => []MutualExclusion` |
| NoOverlapInAProcess | `Spec => []ClaimedDisjoint` |
| PreloadedScriptsSurvive | `Spec => []PreforkIntact` |
| SegmentIsAPrivateHeap | `Spec => ImplementsPrivateHeap` |

The argument:

- `TypeInv == TypeOK /\ PcInv`. `TypeOK` is not inductive: that `pos` stays in
  the segment needs the request to be a size while a load is in progress, and
  that a process that is not loading has nothing in flight. `PcInv` says so.
- `MutualExclusion` is inductive together with `TypeInv`: a lock is only taken
  when nobody has it, and an exit gives it back.
- `ClaimedDisjoint` says in one conjunct that every block ends below `pos`, which
  makes it inductive: a new block starts at `pos`. `Fork` copies `pos` and the
  list together; `ResetPos` needs that `BeginReset` has emptied the list, which
  is in `PcInv`.
- `PreforkIntact` needs `PreforkInv`: until a reset after the first fork, every
  process's `pos` is above all blocks of `prefork` and every block in flight
  starts above them; before the first fork, the parent's own list plays the part
  of `prefork`. The invariant used is `Inv == TypeInv /\ ClaimedDisjoint /\
  PreforkInv`.
- The refinement: `Alloc` is `Take`, `Fork` is `Inherit`; a short read, a
  reset, the end of a request and an exit are `GiveBack`; every other step
  stutters. It uses `ClaimedDisjoint` for `Take`'s guard.

The arithmetic of rounding is one lemma, `AlignUpBounds`.

`ClassLink_proofs` proves, for all `N`, `Names` and `Tables` that satisfy
`NAssumption` and `TablesAssumption` (the keys boot has registered are distinct):

| Theorem | Statement |
|---|---|
| TypeCorrect | `Spec => []TypeOK` |
| NamesUnique | `Spec => []NameOnce` |
| NothingLinkedOnUnlinked | `Spec => []LinkedClosed` |
| NoneLeftBehind | `Spec => []AllLinked` |
| NamesStayBound | `Spec => BindingsStay` |
| ConstantsAreComplete | `InternalFirst` implies `Spec => []ConstantsComplete` |

`InternalFirst` says that the engine's classes come before all others in the table,
as they do when a request starts; `opkit_resolve_all_class_constants` stops at the
first internal class it meets from behind, and would miss what is before it.

The inductive invariant for the linker is `IInv`, the conjunction of `TypeOK`, `NameOnce`,
`LinkedClosed`, `AllLinked` and two more:

- `KeyInv`: a key is the bucket's own RTD key or its own class's name. Then a
  bucket that gets its name as key collides with another only if that one has
  the name already, which `Taken` excludes: `NameOnce`. `LinkedClosed` follows
  since linking looks every need up among the linked, and a key that is a name
  never changes again.
- `RoundInv`: in a pass that has changed nothing so far, no bucket before `pos`
  is `Linkable`. A step of such a pass that links nothing changes no key of a
  class that is linked, so nothing becomes linkable behind it; one that links
  sets `changed`. When the pass ends unchanged, `RoundInv` at `pos = N + 1` is
  `AllLinked`, and the later phases change neither keys nor `linked`.

For the constants there are two more steps. Evaluating an expression follows a chain
of classes, each with a constant that refers to the next one's. `Evaluates`
bounds its length by the table's; `ChainInjective` shows that nothing is lost by it:
names are unique, so each class has one successor, so a chain with a value at its
end never comes back to a class, and `ChainShort` is the pigeonhole principle.
`ReachesGrown` shows that evaluating what can be evaluated makes nothing else
evaluable, so that what the pass has passed over without success stays without.
`ResolveInv` says that every class behind the pass that can be finished is up to date;
when the pass ends, or breaks at the first internal class, that is every class.

`ScriptStore_proofs` proves, for any writers and readers and numbers of stores and
loads, under `StoreAssumption` and the hypothesis `OnePidEach` (no two
writers have the same pid; with two containers on one volume it is false, and so is
the theorem):

| Theorem | Statement |
|---|---|
| TypeCorrect | `Spec => []TypeOK` |
| LoadsAreWhole | `Spec => []LoadsWhole` |
| WaysOutRelease | `Spec => ReleasedOnce` |
| Refinement | `Spec => ImplementsAtomicPublish` |

`LoadsWhole` is about two reads with anything in between, so the invariant says why
nobody writes to an inode that is the target or that a loader has open
(`InSight`): a writer writes only to the inode under its own temporary name
(`OwnName`), no temporary name leads to an inode in sight (`OutOfSight`), and the
inode that a store creates was never used (`Fresh`). Then what is in sight stays as
it was (`NotWritten`), a file comes in sight by a rename only (`ComesInSight`), and
what is renamed is the complete file of the store that renames it (`Written`).
`Held` lists what a store holds at each of its system calls, which is what each way
out has to release. In the refinement `Begin` is `Start`, `Rename` is `Publish`, a
way out or a kill is `GiveUp`.

`PhpcBuild_proofs` proves, for any set of sources, any of them using any others, and any bounds
(`BoundAssumption`, `UsesAssumption`, `NoneAssumption`):

| Theorem | Statement |
|---|---|
| TypeCorrect | `Spec => []TypeOK` |
| StaleIsFound | `Spec => []StaleIsRecompiled` |
| ExitZeroIsCurrent | `Spec => []CleanBuildIsCurrent` |
| EntryListsAll | `Spec => []EntryComplete` |

`NewerIsSame` is what the comparison of mtimes relies on: a `.phpc` file that is not
older than its source was compiled from it. An edit keeps it because it happens
after the second of every store (`Quiet`), a store because nobody edits while it
compiles (`ReadIsSource`); with `Past` (no times or systems from the future) it gives
`StaleIsRecompiled`. `DoneIsCurrent` is the loop's invariant: in a build without
a failure so far, a source is still to come, in work or current (`UpToDate`); the skipped ones are
of their sources by `SkippedIsCurrent`, and no more is claimed of them. The constants in a file compiled now are
current since nobody edits while the build runs. `AtEntry` carries its end (nothing left to do, no failure) to
the entry file, which is complete since what is current has a `.phpc` file.

`ScriptRuntime_proofs` proves, for any number of processes, files, names and calls
and whatever the files declare:

| Theorem | Statement | If |
|---|---|---|
| TypeCorrect | `Spec => []TypeOK` | |
| ItemsAlwaysLoaded | `Spec => []ItemsLoaded` | |
| NamesAlwaysResolve | `Spec => []NamesResolve` | |
| ClassesAlwaysResolve | `Spec => []ClassesResolve` | |
| OwnCacheOnly | `Spec => []CacheIsOwn` | `Placement \subseteq {FALSE}` |
| NoCacheIsLost | `Spec => []NoCacheLost` | `Placement \subseteq {FALSE}`, `"drop" \notin InCode` |

The hypotheses are those of the run, and each is needed, as "Seen while modelling" says. So neither
theorem about caches covers scripts in the segment, and the second not code that resets while it runs.

- `DataOK` is `TypeOK` with what it leaves open (lists are sequences, a process that
  boots has made a call).
- `Origins`: every entry of the tables that is not a linked class's copy points to an
  item of a script that is on the process's list and declares the name. It is more than
  `ItemsLoaded`: the cleanup of a script goes through the names that it
  declares and removes what points into it, so it finds its entries by their names only.
- `Numbered` and `OwnCaches`: a load's number was not used before, so no cache
  pointer waits for it; a script's cache is on the heap of the process or null.
- `RunningLoaded`, `AllHeld`: without a reset the scripts that a boot has still to
  run stay on the list, so the cache of the one that runs has a node, which `Marked` marks when it is
  done.
- `ResolvesNow` restates `NamesResolve` name by name (`Resolves`): phase 1 leaves the oldest
  script's item, the load of a constant the newest's, and the cleanup nothing of a list it has gone through.
- `ClassesNow` says of a class without dependencies what it is before, during and after linking
  (`ClassOf`). Before any boot has seen the name nothing has it (`Unseen`). In a boot that
  sees it first the files' keys are placed in the order of the list, and as long as linking has not come
  to the first of them none of the others has been linked (`Waiting`, `WaitingAhead`); then the name is bound
  and no other class gets it (`BoundWell`).

`CompileTables_proofs` proves, for any files, tables, symbols and number of compilations:

| Theorem | Statement | If |
|---|---|---|
| TypeCorrect | `Spec => []TypeOK` | |
| TakesOwnOnly | `Spec => []OwnOnly` | |
| KeepsOthers | `Spec => []OthersKept` | |
| CleansUp | `Spec => []CleanupRestores` | |
| AloneIsExact | `Spec => []AloneExact` | `ConstantsNew` |

- `TypeInv`: the tables are arrays no longer than their size, with unique keys. `FirstSize`
  has to be positive (`SizeAssumption`), since doubling 0 never makes room; a table of
  the engine has at least 8 buckets.
- `Extends(r, s)` is what insertions do to a table whatever is inserted and whenever
  holes are closed: nothing is lost, nothing moves to a place behind the one it had, and what is before the
  first hole does not move. The first is why moving and discarding from a count on takes
  nothing that was there before (`KeptInv`), the last why the cleanup,
  which truncates at the mark, ends with what was marked (`MarkInv`, `DoneInv`): at the
  mark there are no holes.
- `OrigInv`: what was in the tables when a compilation began is not behind its counts, and
  these are not below the mark; so moving and discarding, which begin at the
  counts, leave it. `OwnOnly` needs no invariant of its own: the moves look at the file of
  each bucket behind the count. CompileTables_holes shows that they may miss some.
- `AloneInv`: while no dependency has been loaded there are no holes, what is
  before the count is the engine's, what is behind it has the names of the file handled
  so far. `ConstantsNew` says that no file declares a constant of the engine's.

`ScriptImage_proofs` proves, for every graph of structures that satisfies `ScriptAssumption` and
`OwnershipAssumption`, and every PHP version:

| Theorem | Statement | If |
|---|---|---|
| TypeCorrect | `Spec => []TypeOK` | |
| CopiedOnceHolds | `Spec => []CopiedOnce` | |
| FitsBufferHolds | `Spec => []FitsBuffer` | the doc comments fit into `Slack` |

`ScriptAssumption` is the shape of what the compiler makes: nothing points to the script, a
table has a value for every key, a class table has no holes. `OwnershipAssumption` says that
the parts of a function or a class (its opcodes, literals, tables, type lists) belong to it
alone, while strings, arrays, attributes, classes and functions are shared. It is the code's
own assumption: `zend_shared_memdup_put_free` frees the original it has copied, and the functions that
copy such a part do not ask the translation table first, so two owners of one part would have it
freed twice. The hypothesis of the third is that of the run: `MCScriptImage` has four doc comments
(`FourDocComments`) and `Slack` 4; ScriptImage_size has a slack of 1 and refutes the
theorem without it.

- `TypeInv`: the lists of fields are written by hand for each kind of structure and
  traversal. `CalcIs`, `PersistIs`, `SerializeIs`, `UnserializeIs` and `UpdateIs` say of each
  that its slots are slots of that structure, each with a mode that fits what the field
  leads to. `Entry` says the same of the C stack, `Values` of what the fields of the
  blocks hold in each traversal. The classes are translated in a second pass that
  expects them copied: `Moved`, once they no longer wait (`Waits`).
- `CopyInv`: while persist runs, a slot waits to be copied once (`Single`) and holds what the
  compiler's structure holds as long as it waits (`Untouched`); every block but the script's
  was made for a slot that is done (`Reached`, `Made`), and what is not in the translation table was
  made for its owner's. So what persist copies without asking has no copy yet
  (`NoTwin`): if it had one, that one's slot would be done, and by `OwnershipAssumption` it is
  the slot at hand, which waits.
- `FitInv`: there is a set `C` of what calc has met, no larger than what it has counted, and
  what the fields that it counts lead to is in `C` or waits (`Survey`). Calc passes over a
  function whose opcodes it knows; its other structures were met when it met the opcodes
  (`NotPassed`). When it is done, what persist copies is in `C` or a doc comment
  (`Covered`): the lists of persist are within those of calc, mode by mode. By
  `CopiedOnce` the blocks are no more than these (`CoveredFits`). The comparison of the
  two lists is where a structure that one function has and the other has not would show.

`ScriptImageLoad_proofs` goes on from there, for every script that satisfies `Plain`:

| Theorem | Statement |
|---|---|
| AdjacentHolds | `Spec => []Adjacent` |
| RelocatedOnceHolds | `Spec => []RelocatedOnce` |
| PositionIndependentHolds | `Spec => []PositionIndependent` |
| FaithfulHolds | `Spec => []Faithful` |

`Plain` is what the traversals take for granted and PHP's compiler sees to. `Typed`: a structure has
the fields of its kind that all traversals of the version handle (`FieldsOf`), each leads to the
kinds it is declared for (`LeadsTo`), a property knows its class, a function has one array of
opcodes. `Unshared`: only strings, arrays and attributes have several owners, since opkit compiles
without inheritance. `AtHome`: a back reference leads to the class around it. `PlainScripts` checks
it for all scripts of the run. The last three theorems are false without the
part about the fields (`DocScripts`, `MagicScripts`): on those fields the lists of the traversals
differ, and that they agree about all other fields in the lists is what is proved. Outside the lists are
`prop_info`, which is proved too, and `default_object_handlers`, which is left out.

`PositionIndependentHolds` does not say that a `.phpc` file holds no address of the build. It holds one per
property hook, of the build's copy of the property: the first part is about the slots that serialize visits,
the second says that after the load no hook has that address any more. `FaithfulHolds` adds that it has the right one.

- `CalcIs` to `UpdateIs` said that the lists hold nothing foreign; now `CoverList` and
  `SweepList` say that each list has every field of `FieldsOf`, exactly once, in
  the mode that what it leads to calls for, for every version.
- `PersistInv`: a slot of the image waits or is done (`Awaited`), and what is done holds
  the address of the copy of what the compiler's slot holds (`Done`). Every block was copied for a
  slot of another that comes before it (`Parents`). Literals follow
  their opcodes and an expression its reference (`Beside`): persist goes to them at
  once, whatever waits (`Lined`). While a part of a class is in the image its class
  is in the translation table (`Housed`), so a back reference is never missed; the magic methods,
  whose copies may come later, are left to the second pass over the class table,
  which comes when all methods are there (`Renewed`, `Ordered`).
- `RelocInv`: serialize and unserialize are the same walk with other addresses, and one proof serves
  both. Every slot is as the pass before has left it or turned (`Halfway`). What a turned slot leads to was
  entered, so its slots wait or are turned (`Closed`); what one leads to that
  is not turned was not (`Opened`), unless it is an array or its attributes, which have several
  owners and a guard that asks. So a slot that waits waits once and holds what the pass
  before has left (`Unturned`): nothing is turned twice.
- At the end of a pass nothing waits. Every block was entered, by induction over the blocks:
  the one it was copied for comes before it, so it was entered and its slot is
  turned, and whoever turns a slot enters what it leads to. That is
  `PositionIndependent` after serialize, and `Halfway` for the next pass.
- `HookInv`: a hook belongs to one property (`TiedTo`), through one table, so whoever enters the hook writes
  the address of that property in the address space of the traversal. Persist enters every hook it copies
  (`HookPersists`), unserialize every one that is there (`HookRelocates`), so at the end
  each `prop_info` is of the loading process (`HooksBack`) and of the right property (`HooksKnow`).
- `LoadInv` joins the two. `Faithful` follows: what a loaded slot holds is
  what `Turned` makes of the compiler's, and with `Leading` every pointer leads to
  the copy of its target or to the string with its text.

The library's theorems about induction take an operator as a parameter, so the proofs state it about a set
(`SetInduction`, from the library's `WFMin`), and give a function defined by recursion over
`0 .. N` by its step function (`Recursion`): it exists, and what each step preserves
holds of its value (`RecursionExists`, `RecursionIn`). The recursive functions of the models,
`Compacted` and `With` among them, are brought into this form once each.

Only model-checked: liveness (`LockGranted`, `Terminates`), since the prover does
not handle fairness and ENABLED. Every invariant and every action property of the
passing runs is a theorem.

## 5. Not modelled, and why

- The engine: compilation, execution and linking are what the extension sees of
  them. Fatal errors (bailouts) end a request; what the engine does with
  half-restored tables is outside.
- `opkit_boot` called by booted code, and PHP code that linking runs if the program has registered
  an autoloader; an entry function other than `main`; what the C code does with a node or a
  script that code it runs has freed.
- Power failures and bad blocks: writes and the rename are taken in program order,
  and the disk gives back what was written.
- Analysis, stubs and phar modes of `phpc`, the dump of `opkit_get_info`, the
  Composer plugin: they read and print.
- In `ScriptImage`: the structures of linked classes (`opkit_compile_file` leaves
  classes unlinked), warnings (never recorded), what is copied along without a
  pointer, sizes and alignment in bytes, `default_object_handlers` (PHP 8.3), opcodes that are read
  after they were freed, the attributed constants of PHP 8.5.
- The attributes of engine objects that `zend_do_link_class` changes; delayed
  early bindings.
- Paths and the checksum: see the plan. Of the compiler front, which expressions
  are evaluated and to what: the model only says that PHP code may run there.

## 6. Plan

Done, in this order: SharedAlloc with its proofs, ScriptRuntime with its proofs,
ScriptStore with the ownership of its buffers and its proofs, PhpcBuild with the entry file and its
proofs, CompileTables and ClassLink with their proofs, ScriptImage with the proofs of all
its invariants. Next:

1. `Paths` and `Adler32` as pure operators against reference definitions.
2. The constants of PHP 8.5 and delayed early bindings.
