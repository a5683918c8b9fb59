---------------------------- MODULE ScriptImage ----------------------------
(***************************************************************************)
(* How a compiled script becomes the payload of a .phpc file and how the   *)
(* payload becomes a script again.  Four traversals of the object graph    *)
(* follow each other, each written by hand, structure by structure:        *)
(*                                                                         *)
(*   calc         zend_accel_script_persist_calc: sums up the size         *)
(*   persist      zend_accel_script_persist: copies every structure into   *)
(*                one block, the image                                     *)
(*   serialize    zend_file_cache_serialize: turns the addresses in a copy *)
(*                of the image into offsets, strings into pool offsets     *)
(*   unserialize  zend_file_cache_unserialize: in the loading process,     *)
(*                turns offsets into addresses                             *)
(*                                                                         *)
(* They only work together: calc has to count at least what persist        *)
(* copies, serialize has to visit every pointer that persist has moved,    *)
(* exactly once, and unserialize every one that serialize has turned.      *)
(* Each traversal is given here by the list of the slots of a structure it *)
(* handles, in the order of the code, and how (the mode); a step handles   *)
(* one slot, depth first.                                                  *)
(*                                                                         *)
(* A structure is one block, whatever its size; a HashTable inside a       *)
(* structure stands for its data block.  The way back from a hook to its   *)
(* property, which serialize leaves alone, is kept apart in prop_info.     *)
(* Left out: what is copied along without a pointer (flags, counters,      *)
(* run-time caches, opcode handlers), the default_object_handlers of a     *)
(* class since PHP 8.3, which lead out of the script: no traversal handles *)
(* them and opkit_link_classes sets them in the class it makes, the        *)
(* structures of linked classes (a compiled class is unlinked), the        *)
(* warnings (never recorded) and the attributed constants of PHP 8.5.      *)
(***************************************************************************)
EXTENDS Integers, Sequences, SequencesExt

CONSTANTS Scripts,   \* the scripts compiled: [ver: the PHP_VERSION_ID of the build,
                     \* objects: name -> [kind, f: field -> pointers]]
          Slack      \* blocks that fit into what is allocated beyond the size
                     \* calculated: emalloc(memory_used + 4096)

ASSUME SlackAssumption == Slack \in Nat

VARIABLES src,      \* the compiler's objects, the script among them
          ver,      \* the PHP version
          pass,     \* the traversal that runs
          todo,     \* the slots it still has to handle, the next one first
          xlat,     \* ZCG(xlat_table): pointer -> pointer
          counted,  \* persistent_script->size after calc
          image,    \* the blocks in the order of their addresses
          pool,     \* current_string_pool: the strings in it
          prop_info \* prop_info of the hooks in the image: block -> pointer
vars == <<src, ver, pass, todo, xlat, counted, image, pool, prop_info>>

-----------------------------------------------------------------------------
(* Pointers: <<"src", n>> to an object of the compiler, <<"img", k>> to    *)
(* block k where it was persisted, <<"off", k>> its offset, <<"mem", k>>   *)
(* its address in the loading process, <<"pool", n>> an offset in the      *)
(* pool, <<"interned", p>> the string p of the loading process, Wild an    *)
(* address that is none: one relocated from the wrong base or dereferenced *)
(* after it was relocated.                                                 *)

Null == <<"null">>
Wild == <<"wild">>

Obj(p) == IF p[1] = "src" THEN src[p[2]] ELSE image[p[2]]
Field(o, f) == IF f \in DOMAIN o.f THEN o.f[f] ELSE <<>>
IsBlock(p) == p[1] \in {"src", "img", "off", "mem"}
Kind(p) == IF IsBlock(p) THEN Obj(p).kind ELSE "none"

\* The structures that are lists of buckets.
Tables == {"classes", "functions", "cconsts", "defs", "hooks", "methods", "props",
           "consts", "attrs", "rules", "zvals"}

\* The fields that lead back to a structure and are translated, never copied.
Translated == {"scope", "ce", "prototype", "magic", "callstatic"}

\* The fields whose target persist copies, or goes through again, without the
\* question whether it has copied it.
Owning(o, f) ==
    \/ f \in {"arg_info", "live_range", "try_catch", "vars", "opcodes", "literals",
              "statics", "defs", "classes", "functions", "consts", "early", "methods",
              "props", "defaults", "static_members", "constants", "interfaces", "traits",
              "aliases", "precedences", "hooks", "data", "ast", "child"}
    \/ f = "val" /\ o.kind \in {"consts", "attrs", "rules", "defs", "hooks"}

\* A script is a graph: nothing points to the script itself, a table has a value for
\* every key, a class table has no holes, and a doc comment is a string.
ASSUME ScriptAssumption ==
    \A s \in Scripts :
        LET Target == {Null} \cup {<<"src", n>> : n \in DOMAIN s.objects \ {"script"}} IN
        /\ "script" \in DOMAIN s.objects /\ s.objects["script"].kind = "script"
        /\ \A n \in DOMAIN s.objects :
            LET o == s.objects[n] IN
            /\ \A f \in DOMAIN o.f : o.f[f] \in Seq(Target)
            /\ o.kind \in Tables =>
                  /\ "val" \in DOMAIN o.f
                  /\ "key" \in DOMAIN o.f => DOMAIN o.f.key \subseteq DOMAIN o.f.val
            /\ o.kind = "classes" => \A i \in DOMAIN o.f.val : o.f.val[i] /= Null
            /\ "doc" \in DOMAIN o.f => \A i \in DOMAIN o.f.doc :
                  o.f.doc[i] /= Null => s.objects[o.f.doc[i][2]].kind = "str"

\* The doc comments, which persist copies and calc does not count.
Docs(objects) == (UNION {Range(Field(objects[n], "doc")) : n \in DOMAIN objects}) \ {Null}

\* What slot i of field f of object n leads to is its own.
Owns(objects, n, f, i) ==
    /\ f \notin Translated /\ objects[n].f[f][i] /= Null
    /\ Owning(objects[n], f) \/ objects[objects[n].f[f][i][2]].kind = "types"

\* What a structure owns, no other leads to: the compiler shares strings, arrays,
\* attributes, classes and functions, never the parts of a function or a class.
ASSUME OwnershipAssumption ==
    \A s \in Scripts : \A n \in DOMAIN s.objects :
        \A f \in DOMAIN s.objects[n].f : \A i \in DOMAIN s.objects[n].f[f] :
            Owns(s.objects, n, f, i) =>
                \A m \in DOMAIN s.objects : \A g \in DOMAIN s.objects[m].f \ Translated :
                    \A j \in DOMAIN s.objects[m].f[g] :
                        s.objects[m].f[g][j] = s.objects[n].f[f][i] =>
                            m = n /\ g = f /\ j = i

\* IS_SERIALIZED: no larger than the image.  An address of either process is.
IsSerialized(p) == \/ p[1] \in {"off", "null"}
                   \/ p[1] = "pool" /\ p[2] <= Len(image)
\* IS_UNSERIALIZED: an address inside the buffer that was loaded.
IsUnserialized(p) == p[1] \in {"mem", "interned"}

\* The slots of the fields of object o, with their modes, field after field.
Slots(o, fms) ==
    FlattenSeq([j \in DOMAIN fms |->
        [i \in DOMAIN Field(o, fms[j][1]) |-> <<fms[j][1], i, fms[j][2]>>]])
\* The same for buckets: a key, its value, the next key.
Buckets(o, mode) ==
    FlattenSeq([i \in DOMAIN o.f.val |->
        (IF i \in DOMAIN Field(o, "key") THEN <<<<"key", i, "str">>>> ELSE <<>>)
            \o <<<<"val", i, mode>>>>])
When(c, fms) == IF c THEN fms ELSE <<>>
First(o, f) == IF Field(o, f) = <<>> THEN Null ELSE o.f[f][1]
\* Opcodes are known already: the method was reached before.
OpcodesKnown(o) == First(o, "scope") /= Null /\ First(o, "opcodes") \in DOMAIN xlat
-----------------------------------------------------------------------------
(* What the compiler makes, and where the traversals agree.  They take the *)
(* structures for what PHP makes of a file and do not look: which fields a *)
(* structure has, what a field leads to, that a part belongs to one whole. *)

OpArrayFields == {"name", "statics", "literals", "opcodes", "filename", "arg_info",
                  "live_range", "attrs", "try_catch", "vars", "defs"}

\* The fields of a structure that all the traversals handle in a version: the doc
\* comments of functions, classes and properties are not among them since PHP 8.4,
\* __callstatic not since 8.2.
FieldsOf(kind, v) ==
    CASE kind = "script" ->
            OpArrayFields \cup {"script_name", "classes", "functions", "consts", "early"}
      [] kind = "op_array" -> OpArrayFields \cup {"scope"} \cup {f \in {"doc"} : v < 80400}
      [] kind = "class" ->
            {"name", "parent", "filename", "methods", "props", "defaults", "static_members",
             "constants", "interfaces", "traits", "aliases", "precedences", "attrs", "magic"}
                \cup {f \in {"doc"} : v < 80400} \cup {f \in {"callstatic"} : v < 80200}
      [] kind = "prop" -> {"ce", "name", "type", "attrs"} \cup {f \in {"doc"} : v < 80400}
                \cup {f \in {"prototype", "hooks"} : v >= 80400}
      [] kind = "cconst" -> {"ce", "value", "doc", "attrs"} \cup {f \in {"type"} : v >= 80300}
      [] kind = "const" -> {"name", "value"}
      [] kind = "attr" -> {"name", "args"}
      [] kind = "ht" -> {"data"}
      [] kind \in Tables -> {"key", "val"}
      [] kind \in {"names", "rule"} -> {"name"}
      [] kind = "arg_info" -> {"name", "type"}
      [] kind = "types" -> {"type"}
      [] kind = "ast_ref" -> {"ast"}
      [] kind = "ast" -> {"value", "child"}
      [] OTHER -> {}

\* The structures a field leads to; a list of buckets holds its members.
Zvals == {"str", "ht", "ast_ref", "complex_ast"}
Members(kind) ==
    CASE kind = "zvals" -> Zvals
      [] kind = "classes" -> {"class"}
      [] kind \in {"functions", "methods", "defs", "hooks"} -> {"op_array"}
      [] kind = "cconsts" -> {"cconst"}
      [] kind = "props" -> {"prop"}
      [] kind = "consts" -> {"const"}
      [] kind = "attrs" -> {"attr"}
      [] kind = "rules" -> {"rule"}
      [] OTHER -> {}
LeadsTo(kind, f) ==
    CASE f \in {"name", "filename", "script_name", "parent", "key", "doc"} -> {"str"}
      [] f \in {"classes", "functions", "consts", "arg_info", "opcodes", "methods", "props",
                "hooks", "defs", "ast"} -> {f}
      [] f \in {"early", "vars", "interfaces", "traits"} -> {"names"}
      [] f \in {"live_range", "try_catch"} -> {"ranges"}
      [] f \in {"literals", "defaults", "static_members"} -> {"zvals"}
      [] f = "constants" -> {"cconsts"}
      [] f \in {"aliases", "precedences"} -> {"rules"}
      [] f \in {"statics", "attrs"} -> {"ht"}
      [] f = "data" -> {"zvals", "attrs"}
      [] f \in {"scope", "ce"} -> {"class"}
      [] f \in {"magic", "callstatic"} -> {"op_array"}
      [] f = "prototype" -> {"prop"}
      [] f \in {"value", "args"} -> Zvals
      [] f = "type" -> {"str", "types"}
      [] f = "child" -> {"ast"}
      [] f = "val" -> Members(kind)
      [] OTHER -> {}

\* A property knows its class, a reference its expression; a function has one array of
\* opcodes.
Typed(objects, v) ==
    \A n \in DOMAIN objects :
        LET o == objects[n] IN
        /\ \A f \in DOMAIN o.f : o.f[f] /= <<>> => f \in FieldsOf(o.kind, v)
        /\ \A f \in DOMAIN o.f : \A i \in DOMAIN o.f[f] :
              o.f[f][i] /= Null => objects[o.f[f][i][2]].kind \in LeadsTo(o.kind, f)
        /\ \A f \in DOMAIN o.f \cap {"opcodes", "literals", "ast", "ce"} : Len(o.f[f]) <= 1
        /\ o.kind = "prop" => First(o, "ce") /= Null
        /\ o.kind = "ast_ref" => First(o, "ast") /= Null

\* Only strings and hash tables (attributes, arrays) are shared.
Unshared(objects) ==
    \A n \in DOMAIN objects : \A f \in DOMAIN objects[n].f \ Translated :
        \A i \in DOMAIN objects[n].f[f] :
            LET p == objects[n].f[f][i] IN
            p /= Null /\ objects[p[2]].kind \notin {"str", "ht"} =>
                \A m \in DOMAIN objects : \A g \in DOMAIN objects[m].f \ Translated :
                    \A j \in DOMAIN objects[m].f[g] :
                        objects[m].f[g][j] = p => m = n /\ g = f /\ j = i

\* The structures that the fields of some lead to; the structures of a class.
Under(objects, ns, fields) ==
    {m \in DOMAIN objects : \E n \in ns : \E f \in fields \cap DOMAIN objects[n].f :
        <<"src", m>> \in Range(objects[n].f[f])}
ClassParts(objects, n) ==
    LET tables == Under(objects, {n}, {"methods", "props", "constants"})
        members == Under(objects, tables, {"val"})
        hooks == Under(objects, members, {"hooks"})
    IN {n} \cup tables \cup members \cup hooks \cup Under(objects, hooks, {"val"})

\* What is translated leads to the class around it, to the property itself, or to a
\* method of the class.
AtHome(objects) ==
    \A n \in DOMAIN objects : \A f \in DOMAIN objects[n].f \cap Translated :
        \A i \in DOMAIN objects[n].f[f] :
            LET p == objects[n].f[f][i] IN
            p /= Null =>
                CASE f \in {"scope", "ce"} -> n \in ClassParts(objects, p[2])
                  [] f = "prototype" -> p = <<"src", n>>
                  [] OTHER -> p[2] \in Under(objects, Under(objects, {n}, {"methods"}), {"val"})

\* The scripts for which the traversals fit together.
Plain(s) == Typed(s.objects, s.ver) /\ Unshared(s.objects) /\ AtHome(s.objects)
-----------------------------------------------------------------------------
(* calc.  Modes: "str" ADD_STRING, counted once; "once" looked up in the   *)
(* xlat table first; "each" counted whenever it is met; "mark" counted     *)
(* and registered; "zval" and "type" by what they hold.                    *)

\* Doc comments are counted if accel_directives.save_comments is set; nothing
\* ever sets it.
SaveComments == FALSE

CalcOpArray(o) ==
    IF OpcodesKnown(o) THEN Slots(o, <<<<"name", "str">>>>) ELSE
    Slots(o, <<<<"name", "str">>, <<"statics", "once">>, <<"literals", "each">>,
        <<"opcodes", "mark">>, <<"filename", "str">>, <<"arg_info", "each">>,
        <<"live_range", "each">>>>
        \o When(SaveComments /\ ver < 80400, <<<<"doc", "str">>>>)
        \o <<<<"attrs", "once">>, <<"try_catch", "each">>, <<"vars", "each">>,
             <<"defs", "each">>>>)

CalcProp(o) ==
    Slots(o, <<<<"name", "str">>, <<"type", "type">>>>
        \o When(SaveComments /\ ver < 80400, <<<<"doc", "str">>>>)
        \o <<<<"attrs", "once">>>>
        \o When(ver >= 80400, <<<<"hooks", "each">>>>))

CalcClassConstant(o) ==
    Slots(o, <<<<"value", "zval">>>>
        \o When(SaveComments, <<<<"doc", "str">>>>)
        \o <<<<"attrs", "once">>>>
        \o When(ver >= 80300, <<<<"type", "type">>>>))

\* mutant of CalcClass: the trait aliases are not counted.
CalcClassNoAliases(o) ==
    Slots(o, <<<<"name", "str">>, <<"parent", "str">>, <<"methods", "each">>,
        <<"defaults", "each">>, <<"static_members", "each">>, <<"constants", "each">>,
        <<"props", "each">>, <<"filename", "str">>, <<"attrs", "once">>,
        <<"interfaces", "each">>, <<"traits", "each">>, <<"precedences", "each">>>>)

CalcClass(o) ==
    Slots(o, <<<<"name", "str">>, <<"parent", "str">>, <<"methods", "each">>,
        <<"defaults", "each">>, <<"static_members", "each">>, <<"constants", "each">>,
        <<"props", "each">>, <<"filename", "str">>>>
        \o When(SaveComments /\ ver < 80400, <<<<"doc", "str">>>>)
        \o <<<<"attrs", "once">>, <<"interfaces", "each">>, <<"traits", "each">>,
             <<"aliases", "each">>, <<"precedences", "each">>>>)

CalcScript(o) ==
    Slots(o, <<<<"script_name", "str">>, <<"classes", "each">>, <<"functions", "each">>>>)
        \o CalcOpArray(o)
        \o Slots(o, <<<<"consts", "each">>, <<"early", "each">>>>)

CalcSlots(o) ==
    CASE o.kind = "script" -> CalcScript(o)
      [] o.kind = "op_array" -> CalcOpArray(o)
      [] o.kind = "class" -> CalcClass(o)
      [] o.kind = "prop" -> CalcProp(o)
      [] o.kind = "cconst" -> CalcClassConstant(o)
      [] o.kind = "const" -> Slots(o, <<<<"name", "str">>, <<"value", "zval">>>>)
      [] o.kind = "attr" -> Slots(o, <<<<"name", "str">>, <<"args", "zval">>>>)
      [] o.kind = "ht" -> Slots(o, <<<<"data", "each">>>>)
      [] o.kind \in {"classes", "functions", "cconsts", "defs", "hooks"} -> Buckets(o, "once")
      [] o.kind = "methods" -> Buckets(o, "mark")
      [] o.kind \in {"props", "consts", "attrs", "rules"} -> Buckets(o, "each")
      [] o.kind = "zvals" -> Buckets(o, "zval")
      [] o.kind \in {"names", "rule"} -> Slots(o, <<<<"name", "str">>>>)
      [] o.kind = "arg_info" -> Slots(o, <<<<"name", "str">>, <<"type", "type">>>>)
      [] o.kind = "types" -> Slots(o, <<<<"type", "type">>>>)
      [] o.kind = "ast_ref" -> Slots(o, <<<<"ast", "each">>>>)
      [] o.kind = "ast" -> Slots(o, <<<<"value", "zval">>, <<"child", "each">>>>)
      [] OTHER -> <<>>
-----------------------------------------------------------------------------
(* persist.  Modes: "str" zend_accel_store_string; "once" the copy if the  *)
(* xlat table has one; "put" memdup_put, which takes the copy of the xlat  *)
(* table but lets the caller go on with its fields; "data" the data of a   *)
(* map, copied without the xlat table; "xlat" replaced by the entry of the *)
(* xlat table or by NULL; "patch" replaced if there is an entry.           *)

\* mutant of PersistOpArray: the static variables between opcodes and literals.
PersistOpArrayStaticsFirst(o) ==
    IF OpcodesKnown(o) THEN <<>> ELSE
    Slots(o, <<<<"scope", "xlat">>, <<"name", "str">>, <<"filename", "str">>,
        <<"doc", "str">>, <<"arg_info", "put">>, <<"live_range", "put">>,
        <<"try_catch", "put">>, <<"vars", "put">>, <<"opcodes", "put">>,
        <<"statics", "put">>, <<"literals", "put">>, <<"attrs", "once">>,
        <<"defs", "put">>>>)

PersistOpArray(o) ==
    IF OpcodesKnown(o) THEN <<>> ELSE
    Slots(o, <<<<"scope", "xlat">>, <<"name", "str">>, <<"filename", "str">>,
        <<"doc", "str">>, <<"arg_info", "put">>, <<"live_range", "put">>,
        <<"try_catch", "put">>, <<"vars", "put">>, <<"opcodes", "put">>,
        <<"literals", "put">>, <<"statics", "put">>, <<"attrs", "once">>,
        <<"defs", "put">>>>)

PersistProp(o) ==
    Slots(o, <<<<"ce", "patch">>, <<"name", "str">>>>
        \o When(ver < 80400, <<<<"doc", "str">>>>)
        \o <<<<"type", "type">>, <<"attrs", "once">>>>
        \o When(ver >= 80400, <<<<"prototype", "xlat">>, <<"hooks", "put">>>>))

PersistClassConstant(o) ==
    Slots(o, <<<<"ce", "patch">>, <<"value", "zval">>, <<"doc", "str">>, <<"attrs", "once">>>>
        \o When(ver >= 80300, <<<<"type", "type">>>>))

\* mutant of PersistClass: the precedence rules of traits stay where they are.
PersistClassNoPrecedences(o) ==
    Slots(o, <<<<"name", "str">>, <<"parent", "str">>, <<"filename", "str">>,
        <<"methods", "data">>, <<"props", "data">>, <<"defaults", "put">>,
        <<"static_members", "put">>, <<"constants", "data">>, <<"interfaces", "put">>,
        <<"traits", "put">>, <<"aliases", "put">>, <<"attrs", "once">>>>
        \o When(ver < 80400, <<<<"doc", "str">>>>))

PersistClass(o) ==
    Slots(o, <<<<"name", "str">>, <<"parent", "str">>, <<"filename", "str">>,
        <<"methods", "data">>, <<"props", "data">>, <<"defaults", "put">>,
        <<"static_members", "put">>, <<"constants", "data">>, <<"interfaces", "put">>,
        <<"traits", "put">>, <<"aliases", "put">>, <<"precedences", "put">>,
        <<"attrs", "once">>>>
        \o When(ver < 80400, <<<<"doc", "str">>>>))

\* zend_update_parent_ce: the magic methods of a class follow its methods into the
\* image ("magic"); __callstatic only before PHP 8.2, __debugInfo never.
UpdateClass(o) ==
    Slots(o, <<<<"magic", "patch">>>>
        \o When(ver < 80200, <<<<"callstatic", "patch">>>>))

PersistScript(o) ==
    Slots(o, <<<<"script_name", "str">>, <<"classes", "data">>, <<"functions", "data">>>>)
        \o PersistOpArray(o)
        \o Slots(o, <<<<"consts", "data">>, <<"early", "put">>>>)

\* zend_accel_persist_class_table goes through the classes a second time.
PersistClassTable(o) ==
    Buckets(o, "once") \o [i \in DOMAIN o.f.val |-> <<"val", i, "update">>]

PersistSlots(o) ==
    CASE o.kind = "script" -> PersistScript(o)
      [] o.kind = "op_array" -> PersistOpArray(o)
      [] o.kind = "class" -> PersistClass(o)
      [] o.kind = "prop" -> PersistProp(o)
      [] o.kind = "cconst" -> PersistClassConstant(o)
      [] o.kind = "const" -> Slots(o, <<<<"name", "str">>, <<"value", "zval">>>>)
      [] o.kind = "attr" -> Slots(o, <<<<"name", "str">>, <<"args", "zval">>>>)
      [] o.kind = "ht" -> Slots(o, <<<<"data", "data">>>>)
      [] o.kind = "classes" -> PersistClassTable(o)
      [] o.kind \in {"functions", "methods", "props", "cconsts"} -> Buckets(o, "once")
      [] o.kind \in {"consts", "attrs", "rules", "defs", "hooks"} -> Buckets(o, "put")
      [] o.kind = "zvals" -> Buckets(o, "zval")
      [] o.kind \in {"names", "rule"} -> Slots(o, <<<<"name", "str">>>>)
      [] o.kind = "arg_info" -> Slots(o, <<<<"name", "str">>, <<"type", "type">>>>)
      [] o.kind = "types" -> Slots(o, <<<<"type", "type">>>>)
      [] o.kind = "ast_ref" -> Slots(o, <<<<"ast", "put">>>>)
      [] o.kind = "ast" -> Slots(o, <<<<"value", "zval">>, <<"child", "put">>>>)
      [] OTHER -> <<>>
-----------------------------------------------------------------------------
(* serialize.  Modes: "str" SERIALIZE_STR; "ptr" SERIALIZE_PTR, then what  *)
(* it points to; "guard" the same unless it is done; "flat" SERIALIZE_PTR  *)
(* alone; "next" the block behind, to which there is no pointer.           *)

SerializeOpArray(o) ==
    Slots(o, <<<<"statics", "ptr">>, <<"literals", "ptr">>, <<"opcodes", "ptr">>,
        <<"arg_info", "ptr">>, <<"name", "str">>, <<"filename", "str">>>>
        \o When(ver < 80400, <<<<"doc", "str">>>>)
        \o <<<<"vars", "ptr">>, <<"live_range", "flat">>, <<"scope", "flat">>,
             <<"try_catch", "flat">>, <<"attrs", "ptr">>, <<"defs", "ptr">>>>)

SerializeProp(o) ==
    IF IsSerialized(First(o, "ce")) THEN <<>> ELSE
    Slots(o, <<<<"ce", "flat">>, <<"name", "str">>, <<"doc", "str">>, <<"attrs", "ptr">>>>
        \o When(ver >= 80400, <<<<"prototype", "flat">>, <<"hooks", "ptr">>>>)
        \o <<<<"type", "type">>>>)

SerializeClassConstant(o) ==
    Slots(o, <<<<"value", "zval">>, <<"doc", "str">>, <<"attrs", "ptr">>>>
        \o When(ver >= 80300, <<<<"type", "type">>>>)
        \o <<<<"ce", "flat">>>>)

SerializeClass(o) ==
    Slots(o, <<<<"name", "str">>, <<"parent", "str">>, <<"methods", "guard">>,
        <<"defaults", "ptr">>, <<"static_members", "ptr">>, <<"constants", "guard">>,
        <<"filename", "str">>, <<"doc", "str">>, <<"attrs", "ptr">>,
        <<"props", "guard">>, <<"interfaces", "ptr">>, <<"traits", "ptr">>,
        <<"aliases", "ptr">>, <<"precedences", "ptr">>,
        <<"magic", "flat">>, <<"callstatic", "flat">>>>)

SerializeScript(o) ==
    Slots(o, <<<<"script_name", "str">>, <<"classes", "guard">>, <<"functions", "guard">>>>)
        \o SerializeOpArray(o)
        \o Slots(o, <<<<"consts", "guard">>, <<"early", "ptr">>>>)

SerializeSlots(o) ==
    CASE o.kind = "script" -> SerializeScript(o)
      [] o.kind = "op_array" -> SerializeOpArray(o)
      [] o.kind = "class" -> SerializeClass(o)
      [] o.kind = "prop" -> SerializeProp(o)
      [] o.kind = "cconst" -> SerializeClassConstant(o)
      [] o.kind = "const" -> Slots(o, <<<<"name", "str">>, <<"value", "zval">>>>)
      [] o.kind = "attr" -> Slots(o, <<<<"name", "str">>, <<"args", "zval">>>>)
      [] o.kind = "ht" -> Slots(o, <<<<"data", "guard">>>>)
      [] o.kind \in {"functions", "methods", "props"} -> Buckets(o, "guard")
      [] o.kind \in {"classes", "cconsts", "consts", "attrs", "rules", "defs", "hooks"} ->
            Buckets(o, "ptr")
      [] o.kind = "zvals" -> Buckets(o, "zval")
      [] o.kind \in {"names", "rule"} -> Slots(o, <<<<"name", "str">>>>)
      [] o.kind = "arg_info" -> Slots(o, <<<<"name", "str">>, <<"type", "type">>>>)
      [] o.kind = "types" -> Slots(o, <<<<"type", "type">>>>)
      [] o.kind = "ast_ref" -> Slots(o, <<<<"ast", "next">>>>)
      [] o.kind = "ast" -> Slots(o, <<<<"value", "zval">>, <<"child", "guard">>>>)
      [] OTHER -> <<>>
-----------------------------------------------------------------------------
(* unserialize, with the modes of serialize: "str" UNSERIALIZE_STR, "ptr"  *)
(* and "flat" UNSERIALIZE_PTR.                                             *)

UnserializeOpArray(o) ==
    IF IsUnserialized(First(o, "opcodes")) THEN <<>> ELSE
    Slots(o, <<<<"statics", "ptr">>, <<"literals", "ptr">>, <<"opcodes", "ptr">>,
        <<"arg_info", "ptr">>, <<"name", "str">>, <<"filename", "str">>>>
        \o When(ver < 80400, <<<<"doc", "str">>>>)
        \o <<<<"vars", "ptr">>, <<"live_range", "flat">>, <<"scope", "flat">>,
             <<"try_catch", "flat">>, <<"attrs", "ptr">>, <<"defs", "ptr">>>>)

\* mutant of UnserializeProp: the type is forgotten.
UnserializePropNoType(o) ==
    IF IsUnserialized(First(o, "ce")) THEN <<>> ELSE
    Slots(o, <<<<"ce", "flat">>, <<"name", "str">>, <<"doc", "str">>, <<"attrs", "ptr">>>>
        \o When(ver >= 80400, <<<<"prototype", "flat">>, <<"hooks", "ptr">>>>))

UnserializeProp(o) ==
    IF IsUnserialized(First(o, "ce")) THEN <<>> ELSE
    Slots(o, <<<<"ce", "flat">>, <<"name", "str">>, <<"doc", "str">>, <<"attrs", "ptr">>>>
        \o When(ver >= 80400, <<<<"prototype", "flat">>, <<"hooks", "ptr">>>>)
        \o <<<<"type", "type">>>>)

UnserializeClassConstant(o) ==
    IF IsUnserialized(First(o, "ce")) THEN <<>> ELSE
    Slots(o, <<<<"ce", "flat">>, <<"value", "zval">>, <<"doc", "str">>, <<"attrs", "ptr">>>>
        \o When(ver >= 80300, <<<<"type", "type">>>>))

UnserializeClass(o) ==
    Slots(o, <<<<"name", "str">>, <<"parent", "str">>, <<"methods", "guard">>,
        <<"props", "guard">>, <<"defaults", "ptr">>, <<"static_members", "ptr">>,
        <<"constants", "guard">>, <<"magic", "flat">>, <<"callstatic", "flat">>,
        <<"filename", "str">>, <<"doc", "str">>, <<"attrs", "ptr">>,
        <<"interfaces", "ptr">>, <<"traits", "ptr">>, <<"aliases", "ptr">>,
        <<"precedences", "ptr">>>>)

UnserializeScript(o) ==
    Slots(o, <<<<"script_name", "str">>, <<"classes", "guard">>, <<"functions", "guard">>>>)
        \o UnserializeOpArray(o)
        \o Slots(o, <<<<"consts", "guard">>, <<"early", "ptr">>>>)

UnserializeSlots(o) ==
    CASE o.kind = "script" -> UnserializeScript(o)
      [] o.kind = "op_array" -> UnserializeOpArray(o)
      [] o.kind = "class" -> UnserializeClass(o)
      [] o.kind = "prop" -> UnserializeProp(o)
      [] o.kind = "cconst" -> UnserializeClassConstant(o)
      [] o.kind = "const" -> Slots(o, <<<<"name", "str">>, <<"value", "zval">>>>)
      [] o.kind = "attr" -> Slots(o, <<<<"name", "str">>, <<"args", "zval">>>>)
      [] o.kind = "ht" -> Slots(o, <<<<"data", "guard">>>>)
      [] o.kind \in {"props", "cconsts", "attrs"} -> Buckets(o, "guard")
      [] o.kind \in {"classes", "functions", "methods", "consts", "rules", "defs", "hooks"} ->
            Buckets(o, "ptr")
      [] o.kind = "zvals" -> Buckets(o, "zval")
      [] o.kind \in {"names", "rule"} -> Slots(o, <<<<"name", "str">>>>)
      [] o.kind = "arg_info" -> Slots(o, <<<<"name", "str">>, <<"type", "type">>>>)
      [] o.kind = "types" -> Slots(o, <<<<"type", "type">>>>)
      [] o.kind = "ast_ref" -> Slots(o, <<<<"ast", "next">>>>)
      [] o.kind = "ast" -> Slots(o, <<<<"value", "zval">>, <<"child", "guard">>>>)
      [] OTHER -> <<>>
-----------------------------------------------------------------------------
(* The steps.  An entry of todo is <<owner, field, index, mode>>.          *)

Of(owner, slots) == [j \in DOMAIN slots |-> <<owner, slots[j][1], slots[j][2], slots[j][3]>>]

Owner == Head(todo)[1]
Mode == Head(todo)[4]
P == Field(Obj(Owner), Head(todo)[2])[Head(todo)[3]]

At(p) == /\ todo /= <<>>
         /\ pass = p
\* The mode of the slot; a zval and a type are handled by what they hold.
Is(m) == Mode = m
Holds(kinds) == Kind(P) \in kinds

\* The slot is handled; what it leads to comes next.
Descend(owner, slots) == todo' = Of(owner, slots) \o Tail(todo)
Skip == todo' = Tail(todo)

Init ==
    \E s \in Scripts :
        /\ src = s.objects
        /\ ver = s.ver
        /\ pass = "start"
        /\ todo = <<>>
        /\ xlat = <<>>
        /\ counted = 0
        /\ image = <<>>
        /\ pool = <<>>
        /\ prop_info = <<>>

Register(p, q) == xlat' = [r \in DOMAIN xlat \cup {p} |-> IF r = p THEN q ELSE xlat[r]]

\* zend_accel_script_persist_calc
StartCalc ==
    /\ pass = "start"
    /\ pass' = "calc"
    /\ counted' = 1
    /\ todo' = Of(<<"src", "script">>, CalcSlots(src["script"]))
    /\ UNCHANGED <<src, ver, xlat, image, pool, prop_info>>

Count(p) ==
    /\ counted' = counted + 1
    /\ Descend(p, CalcSlots(Obj(p)))

CalcKnown ==
    /\ At("calc")
    /\ P = Null \/ (P \in DOMAIN xlat /\ Mode \in {"str", "once", "type", "zval"})
    /\ Skip
    /\ UNCHANGED <<src, ver, pass, xlat, counted, image, pool, prop_info>>

CalcOnce ==
    /\ At("calc")
    /\ P /= Null /\ P \notin DOMAIN xlat
    /\ \/ Is("str") \/ Is("once")
       \/ Is("type") /\ Holds({"str"})
       \/ Is("zval") /\ Holds({"str", "ht"})
    /\ Count(P)
    /\ Register(P, P)
    /\ UNCHANGED <<src, ver, pass, image, pool, prop_info>>

CalcMark ==
    /\ At("calc")
    /\ P /= Null
    /\ Is("mark")
    /\ Count(P)
    /\ Register(P, P)
    /\ UNCHANGED <<src, ver, pass, image, pool, prop_info>>

\* A constant expression is counted even if persist then replaces it by null.
CalcEach ==
    /\ At("calc")
    /\ P /= Null
    /\ \/ Is("each")
       \/ Is("type") /\ Holds({"types"})
       \/ Is("zval") /\ Holds({"ast_ref", "complex_ast"})
    /\ Count(P)
    /\ UNCHANGED <<src, ver, pass, xlat, image, pool, prop_info>>
-----------------------------------------------------------------------------
\* zend_accel_script_persist.  Block 1 is the script itself.
StartPersist ==
    /\ pass = "calc"
    /\ todo = <<>>
    /\ pass' = "persist"
    /\ xlat' = <<>>
    /\ image' = <<[kind |-> "script", of |-> <<"src", "script">>, f |-> src["script"].f]>>
    /\ todo' = Of(<<"img", 1>>, PersistSlots(src["script"]))
    /\ UNCHANGED <<src, ver, counted, pool, prop_info>>

\* The slot is given another value.
Set(im, q) == [im EXCEPT ![Owner[2]].f[Head(todo)[2]][Head(todo)[3]] = q]

Origin(p) == IF p[1] = "src" THEN p ELSE image[p[2]].of

\* The next block is a copy of what the slot points to, and the slot points to it.
Copy ==
    LET k == Len(image) + 1 IN
    /\ image' = Append(Set(image, <<"img", k>>),
                       [kind |-> Kind(P), of |-> Origin(P), f |-> Obj(P).f])
    /\ Descend(<<"img", k>>, PersistSlots(Obj(P)))

PersistNull ==
    /\ At("persist")
    /\ P = Null
    /\ Skip
    /\ UNCHANGED <<src, ver, pass, xlat, counted, image, pool, prop_info>>

\* Only constant expressions without children in the compiler's arena are kept.
PersistComplexAst ==
    /\ At("persist")
    /\ Is("zval") /\ Holds({"complex_ast"})
    /\ image' = Set(image, Null)
    /\ Skip
    /\ UNCHANGED <<src, ver, pass, xlat, counted, pool, prop_info>>

\* The property whose hooks a table holds.
PropertyOf(t) ==
    CHOOSE k \in DOMAIN image :
        \E q \in Range(Field(image[k], "hooks")) : q[1] \in {"img", "off", "mem"} /\ q[2] = t

\* The slot leads to a hook.
AtHook == Kind(Owner) = "hooks" /\ Head(todo)[2] = "val"

\* mutant of TieHook: unserialize leaves the address that persist has written.
TieHookOnce(p) ==
    prop_info' =
        IF pass = "persist" /\ AtHook
        THEN [h \in DOMAIN prop_info \cup {p[2]} |->
                 IF h = p[2] THEN <<p[1], PropertyOf(Owner[2])>> ELSE prop_info[h]]
        ELSE prop_info

\* hook->prop_info = prop, where p is the hook the slot leads to, both in the address
\* space of the traversal.
TieHook(p) ==
    prop_info' =
        IF AtHook
        THEN [h \in DOMAIN prop_info \cup {p[2]} |->
                 IF h = p[2] THEN <<p[1], PropertyOf(Owner[2])>> ELSE prop_info[h]]
        ELSE prop_info

Shareable == \/ Is("str") \/ Is("once") \/ Is("put")
             \/ Is("type")
             \/ Is("zval") /\ ~Holds({"complex_ast"})

\* mutant of PersistCopy: the copy is not registered.
PersistCopyUnregistered ==
    /\ At("persist")
    /\ P /= Null
    /\ Shareable
    /\ P \notin DOMAIN xlat
    /\ Copy
    /\ TieHook(<<"img", Len(image) + 1>>)
    /\ UNCHANGED <<src, ver, pass, xlat, counted, pool>>

PersistCopy ==
    /\ At("persist")
    /\ P /= Null
    /\ Shareable
    /\ P \notin DOMAIN xlat
    /\ Copy
    /\ Register(P, <<"img", Len(image) + 1>>)
    /\ TieHook(<<"img", Len(image) + 1>>)
    /\ UNCHANGED <<src, ver, pass, counted, pool>>

PersistData ==
    /\ At("persist")
    /\ P /= Null
    /\ Is("data")
    /\ Copy
    /\ UNCHANGED <<src, ver, pass, xlat, counted, pool, prop_info>>

\* The copy there is; memdup_put and the type lists go through its fields again.
PersistKnown ==
    /\ At("persist")
    /\ Shareable
    /\ P \in DOMAIN xlat
    /\ image' = Set(image, xlat[P])
    /\ IF Is("put") \/ Holds({"types"})
       THEN Descend(xlat[P], PersistSlots(Obj(xlat[P])))
       ELSE Skip
    /\ TieHook(xlat[P])
    /\ UNCHANGED <<src, ver, pass, xlat, counted, pool>>

PersistTranslate ==
    /\ At("persist")
    /\ P /= Null
    /\ Is("xlat") \/ Is("patch")
    /\ image' = Set(image, IF P \in DOMAIN xlat THEN xlat[P]
                           ELSE IF Is("xlat") THEN Null ELSE P)
    /\ Skip
    /\ UNCHANGED <<src, ver, pass, xlat, counted, pool, prop_info>>

PersistUpdate ==
    /\ At("persist")
    /\ Is("update")
    /\ Descend(P, UpdateClass(Obj(P)))
    /\ UNCHANGED <<src, ver, pass, xlat, counted, image, pool, prop_info>>
-----------------------------------------------------------------------------
\* zend_file_cache_serialize, on a copy of the image.
StartSerialize ==
    /\ pass = "persist"
    /\ todo = <<>>
    /\ pass' = "serialize"
    /\ xlat' = <<>>
    /\ todo' = Of(<<"img", 1>>, SerializeSlots(image[1]))
    /\ UNCHANGED <<src, ver, counted, image, pool, prop_info>>

\* A pointer, a zval or a type that is a structure, not a string.
IsString == \/ Is("str")
            \/ Is("type") /\ ~Holds({"types"})
            \/ Is("zval") /\ ~Holds({"ht", "ast_ref"})
IsGuarded == \/ Is("guard")
             \/ Is("type") /\ Holds({"types"}) /\ pass = "serialize"
             \/ Is("zval") /\ Holds({"ht", "ast_ref"})
IsPtr == \/ Is("ptr") \/ Is("flat")
         \/ Is("type") /\ Holds({"types"}) /\ pass = "unserialize"

SerializeSkip ==
    /\ At("serialize")
    /\ \/ P = Null /\ ~Is("next")
       \/ IsString /\ ~Is("type") /\ IsSerialized(P)
       \/ IsGuarded /\ IsSerialized(P)
    /\ Skip
    /\ UNCHANGED <<src, ver, pass, xlat, counted, image, pool, prop_info>>

\* mutant of SerializeInterned: registered with the offset behind the string.
SerializeInternedBehind ==
    /\ At("serialize")
    /\ P /= Null
    /\ IsString
    /\ Is("type") \/ ~IsSerialized(P)
    /\ IF P \in DOMAIN xlat
       THEN image' = Set(image, xlat[P]) /\ UNCHANGED <<xlat, pool>>
       ELSE /\ pool' = Append(pool, Origin(P))
            /\ image' = Set(image, <<"pool", Len(pool')>>)
            /\ Register(P, <<"pool", Len(pool')>>)
    /\ Skip
    /\ UNCHANGED <<src, ver, pass, counted, prop_info>>

\* Every string of the image is marked interned, so it goes to the pool; a string that
\* persist has left to the compiler is taken for a structure of the image.  A type's
\* name does without the question whether it has gone there.
SerializeInterned ==
    /\ At("serialize")
    /\ P /= Null
    /\ IsString
    /\ Is("type") \/ ~IsSerialized(P)
    /\ CASE P \in DOMAIN xlat ->
              image' = Set(image, xlat[P]) /\ UNCHANGED <<xlat, pool>>
         [] P \notin DOMAIN xlat /\ P[1] = "img" ->
              /\ image' = Set(image, <<"pool", Len(pool)>>)
              /\ Register(P, <<"pool", Len(pool)>>)
              /\ pool' = Append(pool, Origin(P))
         [] OTHER -> image' = Set(image, Wild) /\ UNCHANGED <<xlat, pool>>
    /\ Skip
    /\ UNCHANGED <<src, ver, pass, counted, prop_info>>

SerializePtr ==
    /\ At("serialize")
    /\ P /= Null
    /\ IsPtr \/ (IsGuarded /\ ~IsSerialized(P))
    /\ IF P[1] = "img"
       THEN /\ image' = Set(image, <<"off", P[2]>>)
            /\ IF Is("flat") THEN Skip
               ELSE Descend(P, SerializeSlots(Obj(P)))
       ELSE image' = Set(image, Wild) /\ Skip
    /\ UNCHANGED <<src, ver, pass, xlat, counted, pool, prop_info>>

\* GC_AST: the expression lies behind its reference; nothing points to it.
SerializeNext ==
    /\ At("serialize")
    /\ Is("next")
    /\ Owner[2] < Len(image)
    /\ LET k == Owner[2] + 1 IN
       /\ image' = Set(image, <<"off", k>>)
       /\ Descend(<<"img", k>>, SerializeSlots(image[k]))
    /\ UNCHANGED <<src, ver, pass, xlat, counted, pool, prop_info>>
-----------------------------------------------------------------------------
\* zend_file_cache_unserialize, in a process that has read the payload to another
\* address: it knows the image and the pool.
StartUnserialize ==
    /\ pass = "serialize"
    /\ todo = <<>>
    /\ pass' = "unserialize"
    /\ xlat' = <<>>
    /\ todo' = Of(<<"mem", 1>>, UnserializeSlots(image[1]))
    /\ UNCHANGED <<src, ver, counted, image, pool, prop_info>>

UnserializeSkip ==
    /\ At("unserialize")
    /\ \/ P = Null /\ ~Is("next")
       \/ IsString /\ ~IsSerialized(P)
       \/ IsGuarded /\ IsUnserialized(P)
    /\ Skip
    /\ UNCHANGED <<src, ver, pass, xlat, counted, image, pool, prop_info>>

UnserializeInterned ==
    /\ At("unserialize")
    /\ P /= Null
    /\ IsString /\ IsSerialized(P)
    /\ image' = Set(image, CASE P[1] = "pool" -> <<"interned", pool[P[2] + 1]>>
                             [] OTHER -> <<"mem", P[2]>>)
    /\ Skip
    /\ UNCHANGED <<src, ver, pass, xlat, counted, pool, prop_info>>

\* The code ties a hook when it has gone through it, which does not look at the tie.
UnserializePtr ==
    /\ At("unserialize")
    /\ P /= Null
    /\ IsPtr \/ (IsGuarded /\ ~IsUnserialized(P))
    /\ IF P[1] = "off"
       THEN /\ image' = Set(image, <<"mem", P[2]>>)
            /\ TieHook(<<"mem", P[2]>>)
            /\ IF Is("flat") THEN Skip
               ELSE Descend(<<"mem", P[2]>>, UnserializeSlots(Obj(P)))
       ELSE image' = Set(image, Wild) /\ Skip /\ UNCHANGED prop_info
    /\ UNCHANGED <<src, ver, pass, xlat, counted, pool>>

UnserializeNext ==
    /\ At("unserialize")
    /\ Is("next")
    /\ Owner[2] < Len(image)
    /\ LET k == Owner[2] + 1 IN
       /\ image' = Set(image, <<"mem", k>>)
       /\ Descend(<<"mem", k>>, UnserializeSlots(image[k]))
    /\ UNCHANGED <<src, ver, pass, xlat, counted, pool, prop_info>>

Loaded ==
    /\ pass = "unserialize"
    /\ todo = <<>>
    /\ pass' = "loaded"
    /\ UNCHANGED <<src, ver, todo, xlat, counted, image, pool, prop_info>>

\* Nothing more happens to a script that is loaded.
Finished == pass = "loaded" /\ UNCHANGED vars

Next == \/ StartCalc \/ CalcKnown \/ CalcOnce \/ CalcMark \/ CalcEach
        \/ StartPersist \/ PersistNull \/ PersistComplexAst \/ PersistCopy \/ PersistData
        \/ PersistKnown \/ PersistTranslate \/ PersistUpdate
        \/ StartSerialize \/ SerializeSkip \/ SerializeInterned \/ SerializePtr
        \/ SerializeNext
        \/ StartUnserialize \/ UnserializeSkip \/ UnserializeInterned \/ UnserializePtr
        \/ UnserializeNext \/ Loaded \/ Finished

Spec == Init /\ [][Next]_vars
-----------------------------------------------------------------------------
(* Properties *)

Passes == {"start", "calc", "persist", "serialize", "unserialize", "loaded"}
Pointers(o) == UNION {{o.f[f][i] : i \in DOMAIN o.f[f]} : f \in DOMAIN o.f}

\* Every slot that waits lies in an object there is, and the xlat table leads to
\* objects there are, to blocks of the image or to strings of the pool.
TypeOK ==
    /\ pass \in Passes
    /\ counted \in Nat
    /\ \A j \in DOMAIN todo :
          LET o == todo[j][1] IN
          /\ IsBlock(o)
          /\ IF o[1] = "src" THEN o[2] \in DOMAIN src ELSE o[2] \in DOMAIN image
    /\ \A p \in DOMAIN xlat :
          \/ xlat[p] = p
          \/ xlat[p][1] = "img" /\ xlat[p][2] \in DOMAIN image
          \/ xlat[p][1] = "pool" /\ xlat[p][2] \in 0 .. Len(pool) - 1
    /\ DOMAIN prop_info \subseteq DOMAIN image

\* The image fits into the block that is allocated for it: calc counts whatever
\* persist copies, structure by structure, up to the slack.
FitsBuffer == Len(image) <= counted + Slack

\* Shared objects stay shared: nothing of the compiler has two copies.
CopiedOnce ==
    \A j, k \in DOMAIN image : image[j].of = image[k].of => j = k

\* What is found by its place and not by a pointer is in its place: the literals,
\* which the operands of the opcodes address relative to themselves, are the block
\* behind the opcodes, and a constant expression is the block behind its reference.
Adjacent ==
    \A k \in DOMAIN image :
        LET o == image[k]
            Behind(p, q) == p[1] = q[1] /\ p[1] /= "src" => q[2] = p[2] + 1
        IN /\ o.kind \in {"op_array", "script"} /\ First(o, "literals") /= Null =>
                Behind(First(o, "opcodes"), First(o, "literals"))
           /\ o.kind = "ast_ref" => Behind(<<"img", k>>, First(o, "ast"))

\* No address is turned into an offset, or an offset into an address, that is not
\* one: each pointer is moved into the image before serialize meets it, turned
\* once by serialize and once by unserialize, however many ways lead to it.
RelocatedOnce == \A k \in DOMAIN image : Wild \notin Pointers(image[k])

\* The loaded script holds no address of the compiling process within the script:
\* serialize has turned every pointer that unserialize meets, and the one it leaves,
\* the prop_info of the hooks, lies in the payload as the build's address and is
\* written anew by unserialize.
PositionIndependent ==
    /\ pass \in {"unserialize", "loaded"} =>
          \A k \in DOMAIN image : \A p \in Pointers(image[k]) : p[1] \notin {"src", "img"}
    /\ pass = "loaded" => \A h \in DOMAIN prop_info : prop_info[h][1] = "mem"

\* The hooks of property k.
HooksOf(k) ==
    {h \in DOMAIN image : \E t \in DOMAIN image :
        /\ <<"mem", t>> \in Range(Field(image[k], "hooks"))
        /\ <<"mem", h>> \in Range(Field(image[t], "val"))}

\* The script that is loaded is the one that was compiled: each of its structures
\* points to the copies of what the compiler's structure points to and to the same
\* strings, but for the constant expressions that persist drops; and a hook knows its
\* property.
Faithful ==
    pass = "loaded" =>
        \A k \in DOMAIN image :
            LET o == image[k] IN
            /\ \A h \in HooksOf(k) : h \in DOMAIN prop_info /\ prop_info[h] = <<"mem", k>>
            /\ \A f \in DOMAIN o.f : \A i \in DOMAIN o.f[f] :
                  LET s == Obj(o.of).f[f][i]
                      p == o.f[f][i]
                  IN CASE Kind(s) \in {"none", "complex_ast"} -> p = Null
                       [] Kind(s) = "str" -> p = <<"interned", s>>
                       [] OTHER -> p[1] = "mem" /\ image[p[2]].of = s
=============================================================================
