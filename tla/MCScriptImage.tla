--------------------------- MODULE MCScriptImage ---------------------------
(***************************************************************************)
(* A file with main code, a class C and a function f, and features of PHP  *)
(* that add structures to it, each a way for the graph to share or nest.   *)
(* The scripts are the file with any pair of features and with all.        *)
(***************************************************************************)
EXTENDS ScriptImage, FiniteSets, TLC

\* An object: its kind and its fields.  "" stands for a null or a scalar.
O(kind, f) == [kind |-> kind, f |-> f]
S(names) == [i \in DOMAIN names |-> IF names[i] = "" THEN Null ELSE <<"src", names[i]>>]
V(kind, names) == O(kind, [val |-> S(names)])                    \* a packed table
M(kind, keys, names) == O(kind, [key |-> S(keys), val |-> S(names)]) \* a map

Strings == {"file", "f", "C", "P", "I", "T", "m", "p", "K", "D", "x", "text",
            "f doc", "C doc", "p doc", "K doc"}

\* The objects of the file with the features F, compiled by version v.
Objects(F, v) ==
    LET If(feature, names) == IF feature \in F THEN S(names) ELSE <<>>
        Since(version, seq) == IF v >= version THEN seq ELSE <<>>
        Doc(names) == IF ("doc" \in F /\ v < 80400) \/ "every doc" \in F THEN S(names) ELSE <<>>
    IN
    [n \in Strings |-> O("str", <<>>)] @@
    "script" :> O("script", [script_name |-> S(<<"file">>), filename |-> S(<<"file">>),
        opcodes |-> S(<<"main ops">>), literals |-> S(<<"main lits">>),
        vars |-> S(<<"main vars">>), classes |-> S(<<"classes">>),
        functions |-> S(<<"functions">>), consts |-> If("const", <<"consts">>),
        early |-> If("early", <<"bindings">>)]) @@
    "main ops" :> O("opcodes", <<>>) @@
    "main lits" :> V("zvals", <<"text", "">>) @@
    "main vars" :> O("names", [name |-> S(<<"x">>)]) @@
    "consts" :> M("consts", <<"D">>, <<"const D">>) @@
    "const D" :> O("const", [name |-> S(<<"D">>), value |-> If("arrays", <<"array">>)]) @@
    "bindings" :> O("names", [name |-> S(<<"C", "P">>)]) @@
    \* function f($x) { static $s = [...]; return function () { ... }; }
    "functions" :> M("functions", <<"f">>, <<"f()">>) @@
    "f()" :> O("op_array", [name |-> S(<<"f">>), filename |-> S(<<"file">>),
        opcodes |-> S(<<"f ops">>), literals |-> S(<<"f lits">>),
        doc |-> Doc(<<"f doc">>), arg_info |-> If("types", <<"f args">>),
        live_range |-> If("try", <<"f live">>), try_catch |-> If("try", <<"f try">>),
        statics |-> If("arrays", <<"f statics">>),
        attrs |-> If("attributes", <<"attributes">>), defs |-> If("closure", <<"f defs">>)]) @@
    "f ops" :> O("opcodes", <<>>) @@
    "f lits" :> O("zvals", [val |-> S(<<"text">>) \o If("arrays", <<"array">>)
        \o If("expression", <<"ref K">>)]) @@
    "f args" :> O("arg_info", [name |-> S(<<"x">>), type |-> S(<<"union">>)]) @@
    "union" :> O("types", [type |-> S(<<"C", "P">>)]) @@
    "f live" :> O("ranges", <<>>) @@ "f try" :> O("ranges", <<>>) @@
    "f statics" :> O("ht", [data |-> S(<<"f statics data">>)]) @@
    "f statics data" :> M("zvals", <<"x">>, <<"array">>) @@
    "f defs" :> V("defs", <<"closure">>) @@
    "closure" :> O("op_array", [name |-> S(<<"f">>), opcodes |-> S(<<"closure ops">>),
        literals |-> S(<<"closure lits">>), attrs |-> If("attributes", <<"attributes">>)]) @@
    "closure ops" :> O("opcodes", <<>>) @@
    "closure lits" :> V("zvals", <<"text">>) @@
    \* An array that two tables share, with an array in it.
    "array" :> O("ht", [data |-> S(<<"array data">>)]) @@
    "array data" :> M("zvals", <<"x", "K">>, <<"text", "inner">>) @@
    "inner" :> O("ht", [data |-> S(<<"inner data">>)]) @@
    "inner data" :> V("zvals", <<"", "text">>) @@
    "attributes" :> O("ht", [data |-> S(<<"attributes data">>)]) @@
    "attributes data" :> V("attrs", <<"attribute">>) @@
    "attribute" :> O("attr", [name |-> S(<<"T", "text">>), args |-> S(<<"text", "">>)]) @@
    \* A constant, an enum case and an expression that is not persisted.
    "ref K" :> O("ast_ref", [ast |-> S(<<"ast K">>)]) @@
    "ast K" :> O("ast", [value |-> S(<<"K">>)]) @@
    "ref enum" :> O("ast_ref", [ast |-> S(<<"ast enum">>)]) @@
    "ast enum" :> O("ast", [child |-> S(<<"ast child", "", "ast child2">>)]) @@
    "ast child" :> O("ast", [value |-> S(<<"C">>)]) @@
    "ast child2" :> O("ast", [value |-> S(<<"m">>)]) @@
    "complex" :> O("complex_ast", <<>>) @@
    \* class C extends P implements I { use T; const K; public $p; function m() }
    "classes" :> M("classes", <<"C">>, <<"class C">>) @@
    "class C" :> O("class", [name |-> S(<<"C">>), filename |-> S(<<"file">>),
        parent |-> If("early", <<"P">>), methods |-> S(<<"C methods">>),
        props |-> If("property", <<"C props">>),
        defaults |-> If("property", <<"C defaults">>),
        static_members |-> If("arrays", <<"C statics">>),
        constants |-> If("expression", <<"C consts">>),
        interfaces |-> If("early", <<"C interfaces">>), traits |-> If("traits", <<"C traits">>),
        aliases |-> If("traits", <<"C aliases">>),
        precedences |-> If("traits", <<"C precedences">>),
        attrs |-> If("attributes", <<"attributes">>), doc |-> Doc(<<"C doc">>),
        magic |-> If("magic", <<"m()">>), callstatic |-> If("callstatic", <<"m()">>)]) @@
    "C methods" :> M("methods", <<"m">>, <<"m()">>) @@
    "m()" :> O("op_array", [scope |-> S(<<"class C">>), name |-> S(<<"m">>),
        filename |-> S(<<"file">>), opcodes |-> S(<<"m ops">>),
        vars |-> S(<<"m vars">>)]) @@
    "m ops" :> O("opcodes", <<>>) @@
    "m vars" :> O("names", [name |-> S(<<"x">>)]) @@
    "C props" :> M("props", <<"p">>, <<"prop p">>) @@
    "prop p" :> O("prop", [ce |-> S(<<"class C">>), name |-> S(<<"p">>),
        doc |-> Doc(<<"p doc">>), type |-> If("types", <<"C">>),
        attrs |-> If("attributes", <<"attributes">>),
        prototype |-> Since(80400, S(<<"prop p">>)),
        hooks |-> Since(80400, If("hooks", <<"p hooks">>))]) @@
    "p hooks" :> V("hooks", <<"get()", "">>) @@
    "get()" :> O("op_array", [scope |-> S(<<"class C">>), name |-> S(<<"p">>),
        opcodes |-> S(<<"get ops">>), literals |-> S(<<"get lits">>)]) @@
    "get ops" :> O("opcodes", <<>>) @@
    "get lits" :> V("zvals", <<"text">>) @@
    "C defaults" :> O("zvals", [val |-> S(<<"">>) \o If("arrays", <<"array">>)
        \o If("expression", <<"complex">>)]) @@
    "C statics" :> V("zvals", <<"array">>) @@
    "C consts" :> M("cconsts", <<"K">>, <<"const K">>) @@
    "const K" :> O("cconst", [ce |-> S(<<"class C">>), value |-> S(<<"ref enum">>),
        doc |-> If("doc", <<"K doc">>), attrs |-> If("attributes", <<"attributes">>),
        type |-> Since(80300, If("types", <<"C">>))]) @@
    "C interfaces" :> O("names", [name |-> S(<<"I", "I">>)]) @@
    "C traits" :> O("names", [name |-> S(<<"T", "I">>)]) @@
    "C aliases" :> V("rules", <<"alias">>) @@
    "alias" :> O("rule", [name |-> S(<<"m", "T">>)]) @@
    "C precedences" :> V("rules", <<"insteadof">>) @@
    "insteadof" :> O("rule", [name |-> S(<<"m", "T", "I">>)])

Features == {"const", "early", "types", "try", "arrays", "attributes", "closure",
             "expression", "property", "traits", "doc", "magic", "hooks"}
FeatureSets == {F \in SUBSET Features : Cardinality(F) <= 2} \cup {Features}

\* What the script leads to.
RECURSIVE Reach(_, _)
Reach(objects, names) ==
    LET next == {p[2] : p \in UNION {Pointers(objects[n]) : n \in names} \ {Null}}
    IN IF next \subseteq names THEN names ELSE Reach(objects, names \cup next)
Script(F, v) ==
    LET objects == Objects(F, v)
        reached == Reach(objects, {"script"})
    IN [ver |-> v, objects |-> [n \in reached |-> objects[n]]]

MCScripts == {Script(F, v) : F \in FeatureSets, v \in {80200, 80300, 80400}}
\* Slack 4 holds the doc comments of every script of MCScripts.
ASSUME FourDocComments == \A s \in MCScripts : Cardinality(Docs(s.objects)) <= 4
\* The traversals fit together for all of them.
ASSUME PlainScripts == \A s \in MCScripts : Plain(s)

\* PHP 8.4 with the doc comments of a function, or of a class and its property.
DocScripts == {Script({"every doc"}, 80400), Script({"every doc", "property"}, 80400)}
CommentScripts == {Script({"doc", "property", "expression"}, v) : v \in {80200, 80300}}
MagicScripts == {Script({"callstatic"}, v) : v \in {80200, 80400}}
=============================================================================
