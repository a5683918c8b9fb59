---------------------------- MODULE MCClassLink ----------------------------
(***************************************************************************)
(* Tables of an internal class and three classes of scripts.               *)
(***************************************************************************)
EXTENDS ClassLink

MCNames == {"I", "A", "B", "C", "@"}
Literal == [op |-> "literal"]
Undefined == [op |-> "undefined"]
Ref(n) == [op |-> "ref", class |-> n]

Class(n, kind, supers, traits, outcome, const, prop) ==
    [name |-> n, kind |-> kind, supers |-> supers, traits |-> traits,
     outcome |-> outcome, const |-> const, prop |-> prop]
Internal == Class("I", "internal", {}, {}, "ok", Literal, Literal)
Table(a, b, c) == <<Internal, a, b, c>>

\* Any dependencies, names that are declared twice, a trait or a class in its place,
\* and a class that fails.
Plain(names, kinds) ==
    {Class(n, k, d[1], d[2], "ok", Literal, Literal) :
        n \in names, k \in kinds,
        d \in {<<{}, {}>>, <<{}, {"B"}>>} \cup {<<{m}, {}>> : m \in {"A", "B", "C"}}}
LinkTables ==
    {[Table(a, b, c) EXCEPT ![f].outcome = o] :
        a \in Plain({"A"}, {"class"}), b \in Plain({"A", "B"}, {"class", "trait"}),
        c \in Plain({"A", "C"}, {"class"}), f \in 2 .. 4, o \in Outcomes}

\* The other kinds, and several dependencies.  Nothing can name an anonymous class.
KindTables ==
    {Table(Class("A", ka, {"I"}, {}, "ok", Literal, Literal),
           Class("B", kb, s, {}, "ok", Ref("A"), Ref("C")),
           Class(IF kc = "anon" THEN "@" ELSE "C", kc, {"B", "I"}, t, o, Ref("A"), Literal)) :
        ka \in {"earlier", "class", "trait", "nested"}, kb \in {"class", "trait", "nested"},
        kc \in {"class", "trait", "anon", "nested"},
        s \in {{}, {"A"}}, t \in {{}, {"A"}}, o \in Outcomes}

\* Constants that refer to each other, among linked, failing and nested classes.
ConstTables ==
    {Table(Class("A", "class", {}, {}, "ok", x[1], Ref("B")),
           Class("B", k, {}, {}, o, x[2], Literal),
           Class("C", "class", {"A"}, {}, "ok", x[3], y)) :
        x \in [1 .. 3 -> {Literal, Undefined, Ref("A"), Ref("B"), Ref("C")}],
        y \in {Literal, Ref("B")},
        k \in {"class", "trait"}, o \in {"ok", "bailout"}}

MCTables == LinkTables \cup KindTables \cup ConstTables
=============================================================================
