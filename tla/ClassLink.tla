----------------------------- MODULE ClassLink -----------------------------
(***************************************************************************)
(* The class linker of opkit_boot: opkit_link_classes goes through the     *)
(* class table again and again and links every class whose parent,         *)
(* interfaces and traits are there, until a pass links nothing;            *)
(* opkit_resolve_all_class_constants then evaluates the constant           *)
(* expressions of what is linked, as often as that changes anything.       *)
(*                                                                         *)
(* A compiled class is in the table under a key made of its file and line  *)
(* (the RTD key) and gets its name as key when it is linked, so that a     *)
(* class that is found by its name can be relied upon.  Bucket i of the    *)
(* table holds class i.                                                    *)
(***************************************************************************)
EXTENDS Integers, FiniteSets

CONSTANTS N,        \* buckets of EG(class_table)
          Names,    \* lower-case class names
          Tables    \* the tables boot may find: [1..N -> Decls]

Outcomes == {"ok", "null", "bailout"}
Kinds == {"internal", "earlier", "class", "trait", "anon", "nested"}
Exprs == [op : {"literal", "undefined"}] \cup [op : {"ref"}, class : Names]

\* A class: its name; internal, linked by an earlier boot, a top-level class or
\* trait, an anonymous class, one declared inside other code; the names of its
\* parent and interfaces and of its traits; what linking comes to when they are
\* linked; the expressions of its constant and of its property.
Decls == [name : Names, kind : Kinds, supers : SUBSET Names, traits : SUBSET Names,
          outcome : Outcomes, const : Exprs, prop : Exprs]

Name(n) == <<"name", n>>
Rtd(i) == <<"rtd", i>>
InitialKey(d, i) ==
    IF d.kind \in {"internal", "earlier", "anon"} THEN Name(d.name) ELSE Rtd(i)

ASSUME NAssumption == N \in Nat
ASSUME TablesAssumption ==
    \A t \in Tables :
        /\ t \in [1 .. N -> Decls]
        /\ \A i, j \in 1 .. N : InitialKey(t[i], i) = InitialKey(t[j], j) => i = j

VARIABLES decl,      \* what the table holds
          key,       \* the key of each bucket
          linked,    \* classes with ZEND_ACC_LINKED
          warned,    \* classes the boot has warned of
          resolved,  \* classes whose constant is evaluated
          propsDone, \* classes whose property is evaluated
          updated,   \* classes with ZEND_ACC_CONSTANTS_UPDATED
          phase,     \* "link", "warn", "resolve", "done"
          pos,       \* the bucket the pass is at
          changed    \* the pass has changed something
vars == <<decl, key, linked, warned, resolved, propsDone, updated, phase, pos, changed>>

Buckets == 1 .. N
Needs(i) == decl[i].supers \cup decl[i].traits
\* zend_hash_find_ptr(EG(class_table), name), and whether that class is linked.
Present(n) == \E j \in Buckets : key[j] = Name(n)
LinkedAs(n) == \E j \in linked : key[j] = Name(n)

Init ==
    /\ decl \in Tables
    /\ key = [i \in Buckets |-> InitialKey(decl[i], i)]
    /\ linked = {i \in Buckets : decl[i].kind \in {"internal", "earlier"}}
    /\ warned = {}
    /\ resolved = {i \in Buckets : decl[i].const.op = "literal"}
    /\ propsDone = {i \in Buckets : decl[i].prop.op = "literal"}
    /\ updated = {}
    /\ phase = "link"
    /\ pos = 1
    /\ changed = FALSE
-----------------------------------------------------------------------------
(* opkit_link_classes *)

AtLink(i) == phase = "link" /\ pos = i /\ i \in Buckets

\* Not a class of this boot's, or linked already.
NotMine(i) == decl[i].kind \in {"internal", "nested"} \/ i \in linked
\* mutant of Taken: the name is not looked up.
TakenNever(i) == FALSE

\* Another class has the name.
Taken(i) == decl[i].kind /= "anon"
            /\ \E j \in Buckets \ {i} : key[j] = Name(decl[i].name)
\* opkit_resolve_class_deps
DepsPresent(i) == i \in linked \/ \A n \in Needs(i) : Present(n)

\* zend_do_link_class, external.  Traits come first: one that is not linked is a fatal
\* error, a class in its place an exception, which comes back as NULL, and so does a
\* parent or interface that is not linked; to inherit from a trait is a fatal error.
NotLinked(names) == \E n \in names : ~LinkedAs(n)
IsTrait(n) == \E j \in linked : key[j] = Name(n) /\ decl[j].kind = "trait"

\* mutant of Outcome: a trait need not be linked.
OutcomeAnyTrait(i) ==
    IF NotLinked(decl[i].supers) THEN "null" ELSE decl[i].outcome

Outcome(i) ==
    IF NotLinked(decl[i].traits) THEN "bailout"
    ELSE IF \/ \E n \in decl[i].traits : ~IsTrait(n)
            \/ NotLinked(decl[i].supers)
         THEN "null"
    ELSE IF \E n \in decl[i].supers : IsTrait(n) THEN "bailout"
    ELSE decl[i].outcome

Step(i) == pos' = i + 1

LinkSkip ==
    \E i \in Buckets :
        /\ AtLink(i)
        /\ NotMine(i) \/ Taken(i) \/ ~DepsPresent(i)
        /\ Step(i)
        /\ UNCHANGED <<decl, key, linked, warned, resolved, propsDone, updated, phase, changed>>

Try(i) == AtLink(i) /\ ~NotMine(i) /\ ~Taken(i) /\ DepsPresent(i)

\* mutant of LinkOk: the pass does not note that it has linked a class.
LinkOkUnnoted ==
    \E i \in Buckets :
        /\ Try(i)
        /\ Outcome(i) = "ok"
        /\ key' = [key EXCEPT ![i] = Name(decl[i].name)]
        /\ linked' = linked \cup {i}
        /\ Step(i)
        /\ UNCHANGED <<decl, warned, resolved, propsDone, updated, phase, changed>>

\* mutant of LinkOk: the key is the name as it is written.
LinkOkAsWritten ==
    \E i \in Buckets :
        /\ Try(i)
        /\ Outcome(i) = "ok"
        /\ key' = [key EXCEPT ![i] = decl[i].name]
        /\ linked' = linked \cup {i}
        /\ changed' = TRUE
        /\ Step(i)
        /\ UNCHANGED <<decl, warned, resolved, propsDone, updated, phase>>

\* The key becomes the name, the class the one that linking returns.
LinkOk ==
    \E i \in Buckets :
        /\ Try(i)
        /\ Outcome(i) = "ok"
        /\ key' = [key EXCEPT ![i] = Name(decl[i].name)]
        /\ linked' = linked \cup {i}
        /\ changed' = TRUE
        /\ Step(i)
        /\ UNCHANGED <<decl, warned, resolved, propsDone, updated, phase>>

\* mutant of LinkNull: a class that is not linked counts as a change.
LinkNullChanged ==
    \E i \in Buckets :
        /\ Try(i)
        /\ Outcome(i) = "null"
        /\ key' = [key EXCEPT ![i] = Name(decl[i].name)]
        /\ changed' = TRUE
        /\ Step(i)
        /\ UNCHANGED <<decl, linked, warned, resolved, propsDone, updated, phase>>

\* Linking has returned NULL: the flags are restored, the key is not.
LinkNull ==
    \E i \in Buckets :
        /\ Try(i)
        /\ Outcome(i) = "null"
        /\ key' = [key EXCEPT ![i] = Name(decl[i].name)]
        /\ Step(i)
        /\ UNCHANGED <<decl, linked, warned, resolved, propsDone, updated, phase, changed>>

\* mutant of LinkBailout: the RTD key comes back even if the class had its name.
LinkBailoutRtd ==
    \E i \in Buckets :
        /\ Try(i)
        /\ Outcome(i) = "bailout"
        /\ key' = [key EXCEPT ![i] = Rtd(i)]
        /\ Step(i)
        /\ UNCHANGED <<decl, linked, warned, resolved, propsDone, updated, phase, changed>>

\* zend_catch: key and class are put back.
LinkBailout ==
    \E i \in Buckets :
        /\ Try(i)
        /\ Outcome(i) = "bailout"
        /\ Step(i)
        /\ UNCHANGED <<decl, key, linked, warned, resolved, propsDone, updated, phase, changed>>

\* while (changed)
EndLinkPass ==
    /\ phase = "link"
    /\ pos = N + 1
    /\ changed' = FALSE
    /\ IF changed THEN pos' = 1 /\ UNCHANGED phase
       ELSE phase' = "warn" /\ UNCHANGED pos
    /\ UNCHANGED <<decl, key, linked, warned, resolved, propsDone, updated>>

\* The loop that warns of classes whose dependencies are there but that are not linked.
Warn ==
    /\ phase = "warn"
    /\ warned' = {i \in Buckets : ~NotMine(i) /\ DepsPresent(i)}
    /\ phase' = "resolve"
    /\ pos' = N
    /\ UNCHANGED <<decl, key, linked, resolved, propsDone, updated, changed>>
-----------------------------------------------------------------------------
(* opkit_resolve_all_class_constants, from the last bucket to the first    *)
(* internal class.                                                         *)

\* zval_update_constant_ex, external: the constants that evaluating the expression e
\* evaluates, each referring to the next one, whose class is found by its name and
\* linked, up to one that has a value; none if it fails.
Evaluates(e) ==
    LET Holder(n) == {j \in linked : key[j] = Name(n)}
        Paths == {p \in UNION {[1 .. k -> Buckets] : k \in Buckets} :
                    LET k == Cardinality(DOMAIN p) IN
                    /\ e.op = "ref" /\ p[1] \in Holder(e.class)
                    /\ \A m \in 1 .. k - 1 : /\ p[m] \notin resolved
                                             /\ decl[p[m]].const.op = "ref"
                                             /\ p[m + 1] \in Holder(decl[p[m]].const.class)
                    /\ p[k] \in resolved}
    IN {{p[m] : m \in DOMAIN p} : p \in Paths}
Fails(e) == e.op /= "literal" /\ Evaluates(e) = {}
With(e) == UNION Evaluates(e)

AtResolve(i) == phase = "resolve" /\ pos = i /\ i \in Buckets
ToResolve(i) == i \in linked /\ i \notin updated /\ decl[i].kind /= "trait"

ResolveSkip ==
    \E i \in Buckets :
        /\ AtResolve(i)
        /\ decl[i].kind /= "internal"
        /\ ~ToResolve(i)
        /\ pos' = i - 1
        /\ UNCHANGED <<decl, key, linked, warned, resolved, propsDone, updated, phase, changed>>

\* mutant of TryResolve: a property that is not evaluated does not hold back the flag.
TryResolveNoProps ==
    \E i \in Buckets :
        /\ AtResolve(i)
        /\ decl[i].kind /= "internal"
        /\ ToResolve(i)
        /\ LET constOk == i \in resolved \/ ~Fails(decl[i].const)
               propOk == i \in propsDone \/ ~Fails(decl[i].prop)
               ok == constOk
           IN /\ resolved' = resolved
                    \cup (IF constOk THEN {i} \cup With(decl[i].const) ELSE {})
                    \cup (IF propOk /\ i \notin propsDone THEN With(decl[i].prop) ELSE {})
              /\ propsDone' = IF propOk THEN propsDone \cup {i} ELSE propsDone
              /\ updated' = IF ok THEN updated \cup {i} ELSE updated
              /\ changed' = (changed \/ ok \/ (constOk /\ i \notin resolved))
        /\ pos' = i - 1
        /\ UNCHANGED <<decl, key, linked, warned, phase>>

\* opkit_try_resolve_class_constants: evaluates what it can; the class is up to date if
\* that was everything; a change is a class brought up to date or a constant evaluated.
TryResolve ==
    \E i \in Buckets :
        /\ AtResolve(i)
        /\ decl[i].kind /= "internal"
        /\ ToResolve(i)
        /\ LET constOk == i \in resolved \/ ~Fails(decl[i].const)
               propOk == i \in propsDone \/ ~Fails(decl[i].prop)
               ok == constOk /\ propOk
           IN /\ resolved' = resolved
                    \cup (IF constOk THEN {i} \cup With(decl[i].const) ELSE {})
                    \cup (IF propOk /\ i \notin propsDone THEN With(decl[i].prop) ELSE {})
              /\ propsDone' = IF propOk THEN propsDone \cup {i} ELSE propsDone
              /\ updated' = IF ok THEN updated \cup {i} ELSE updated
              /\ changed' = (changed \/ ok \/ (constOk /\ i \notin resolved))
        /\ pos' = i - 1
        /\ UNCHANGED <<decl, key, linked, warned, phase>>

EndResolvePass ==
    /\ phase = "resolve"
    /\ pos = 0 \/ decl[pos].kind = "internal"
    /\ changed' = FALSE
    /\ IF changed THEN pos' = N /\ UNCHANGED phase
       ELSE phase' = "done" /\ UNCHANGED pos
    /\ UNCHANGED <<decl, key, linked, warned, resolved, propsDone, updated>>

\* opkit_boot goes on with the main code.
Booted == phase = "done" /\ UNCHANGED vars

Next == \/ LinkSkip \/ LinkOk \/ LinkNull \/ LinkBailout \/ EndLinkPass \/ Warn
        \/ ResolveSkip \/ TryResolve \/ EndResolvePass \/ Booted

\* Boot runs to its end once it is called.
Fairness == WF_vars(Next)
Spec == Init /\ [][Next]_vars /\ Fairness
-----------------------------------------------------------------------------
(* Properties *)

TypeOK ==
    /\ decl \in [Buckets -> Decls]
    /\ key \in [Buckets -> {Name(n) : n \in Names} \cup {Rtd(i) : i \in Buckets}]
    /\ linked \subseteq Buckets /\ warned \subseteq Buckets
    /\ resolved \subseteq Buckets /\ propsDone \subseteq Buckets /\ updated \subseteq Buckets
    /\ phase \in {"link", "warn", "resolve", "done"}
    /\ pos \in 0 .. N + 1
    /\ changed \in BOOLEAN

\* A name means one class: no two buckets have the same key, although keys change
\* while the table is walked.
NameOnce == \A i, j \in Buckets : key[i] = key[j] => i = j

\* Nothing is linked on something that is not: what a linked class needs is found by
\* its name, and it is linked.
LinkedClosed ==
    \A i \in linked : decl[i].kind \notin {"internal", "earlier"} =>
        \A n \in Needs(i) : LinkedAs(n)

\* A class that could be linked: its name is free, everything it needs is linked and of
\* the right kind, and linking it would succeed.
Linkable(i) ==
    /\ ~NotMine(i)
    /\ ~Taken(i)
    /\ \A n \in decl[i].traits : LinkedAs(n) /\ IsTrait(n)
    /\ \A n \in decl[i].supers : LinkedAs(n) /\ ~IsTrait(n)
    /\ decl[i].outcome = "ok"

\* Whatever the order of the classes in the table, when linking ends no class is left
\* behind that could be linked.
AllLinked == phase /= "link" => \A i \in Buckets : ~Linkable(i)

\* Once a name is found it goes on meaning the same class, linked or not.
BindingsStay ==
    [][\A i \in Buckets : /\ \A n \in Names : key[i] = Name(n) => key'[i] = Name(n)
                          /\ i \in linked => i \in linked']_vars

\* The passes come to an end, also for cycles of classes or of constants and for
\* classes that fail each time they are tried.
Terminates == <>(phase = "done")

\* When boot goes on, each linked class of which all expressions can be evaluated is
\* up to date, however the constants refer to each other across the table, and no
\* other is.
ConstantsComplete ==
    phase = "done" =>
        \A i \in linked : decl[i].kind \notin {"internal", "trait"} =>
            LET Value(e, done) == i \in done \/ ~Fails(e)
            IN i \in updated <=>
                /\ Value(decl[i].const, resolved)
                /\ Value(decl[i].prop, propsDone)

=============================================================================
