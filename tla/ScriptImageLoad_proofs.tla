---------------------- MODULE ScriptImageLoad_proofs ----------------------
(***************************************************************************)
(* What the pointers of ScriptImage lead to, for every script: the theorems *)
(* RelocatedOnce, PositionIndependent, Faithful and Adjacent, that is, that *)
(* the image of a script is copied, made relative and relocated again       *)
(* pointer by pointer and exactly once each, and that the loaded copy is    *)
(* the compiled tree.  ScriptImage_proofs holds the accounting of the size  *)
(* and of the blocks (Inv) that everything here starts from.                *)
(*                                                                         *)
(* The invariant follows the passes: PersistInv while the tree is copied,   *)
(* RelocInv while it is made relative and relocated, LoadInv over both.     *)
(***************************************************************************)
EXTENDS ScriptImage_proofs

\* The traversals that relocate handle every slot of a structure, each once and in the
\* mode that its field calls for.
Handles(kind, f, m) ==
    /\ m \in {"str", "ptr", "guard", "flat", "zval", "type", "next"}
    /\ m = "str" <=> f \in {"name", "filename", "script_name", "parent", "key", "doc"}
    /\ m = "zval" <=> f \in {"value", "args"} \/ (f = "val" /\ kind = "zvals")
    /\ m = "type" <=> f = "type"
    /\ m = "flat" <=> f \in Translated \cup {"live_range", "try_catch"}
    /\ m = "next" <=> f = "ast"
    /\ kind = "ht" => m = "guard"

\* A mode fits what a field leads to.
LEMMA HandlesLead ==
    ASSUME NEW kind, NEW f, NEW m, Handles(kind, f, m), NEW to \in LeadsTo(kind, f)
    PROVE  /\ m = "str" => to = "str"
           /\ m = "zval" => to \in Zvals
           /\ m = "type" => to \in {"str", "types"}
           /\ m \in {"ptr", "guard", "flat", "next"} => to \notin {"str", "complex_ast"}
           /\ m = "flat" /\ f \notin Translated => to = "ranges"
           /\ m = "next" => to = "ast"
           /\ to # "script"
<1>1. CASE f = "val"
    BY <1>1 DEF Handles, LeadsTo, Members, Zvals, Translated
<1>2. CASE f # "val"
    BY <1>2 DEF Handles, LeadsTo, Zvals, Translated
<1> QED
    BY <1>1, <1>2

\* The part s of a traversal's slots handles the fields F.
Sweeps(o, s, F) ==
    /\ Within(o, s) /\ Distinct(s)
    /\ \A x \in Range(s) : /\ x = <<x[1], x[2], x[3]>> /\ x[1] \in F
                           /\ Handles(o.kind, x[1], x[3])
    /\ \A f \in F : f \in DOMAIN o.f =>
          \A i \in DOMAIN o.f[f] : \E m : <<f, i, m>> \in Range(s)
FieldsIn(fms) == {fms[j][1] : j \in DOMAIN fms}
SweepList(kind, fms, F) ==
    /\ IsSeq(fms) /\ OneByOne(fms) /\ F = FieldsIn(fms)
    /\ \A j \in DOMAIN fms : Handles(kind, fms[j][1], fms[j][2])

\* Lists are put together of parts, some of them for certain versions only.
LEMMA SweepListBoth ==
    ASSUME NEW kind, NEW s, NEW t, NEW F, NEW G, SweepList(kind, s, F), SweepList(kind, t, G),
           F \cap G = {}
    PROVE  SweepList(kind, s \o t, F \cup G)
<1> DEFINE u == s \o t
<1>1. /\ IsSeq(u) /\ Len(u) = Len(s) + Len(t)
      /\ \A i \in 1 .. Len(s) : u[i] = s[i]
      /\ \A i \in 1 .. Len(t) : u[Len(s) + i] = t[i]
    BY ConcatIs DEF SweepList
<1>2. /\ DOMAIN s = 1 .. Len(s) /\ Len(s) \in Nat /\ DOMAIN t = 1 .. Len(t) /\ Len(t) \in Nat
      /\ DOMAIN u = 1 .. Len(u)
    BY <1>1, IsSeqParts DEF SweepList
<1> HIDE DEF u
<1>3. \A i \in DOMAIN u : \/ i \in DOMAIN s /\ u[i] = s[i]
                          \/ /\ i - Len(s) \in DOMAIN t /\ u[i] = t[i - Len(s)]
                             /\ i = Len(s) + (i - Len(s)) /\ i \notin DOMAIN s
    <2> SUFFICES ASSUME NEW i \in DOMAIN u, i \notin DOMAIN s
                 PROVE  /\ i - Len(s) \in DOMAIN t /\ u[i] = t[i - Len(s)]
                        /\ i = Len(s) + (i - Len(s))
        BY <1>1, <1>2
    <2>1. i - Len(s) \in DOMAIN t /\ i = Len(s) + (i - Len(s))
        BY <1>1, <1>2
    <2> QED
        BY <2>1, <1>1, <1>2
<1>4. /\ \A j \in DOMAIN s : s[j][1] \in F
      /\ \A j \in DOMAIN t : t[j][1] \in G
    BY DEF FieldsIn, SweepList
<1>5. \A j \in DOMAIN u : Handles(kind, u[j][1], u[j][2])
    BY <1>3 DEF SweepList
<1>6. OneByOne(u)
    <2> SUFFICES ASSUME NEW a \in DOMAIN u, NEW b \in DOMAIN u, u[a][1] = u[b][1] PROVE a = b
        BY DEF OneByOne
    <2>1. CASE a \in DOMAIN s /\ b \in DOMAIN s
        BY <1>3, <2>1 DEF SweepList, OneByOne
    <2>2. CASE a \in DOMAIN s /\ b \notin DOMAIN s
        BY <1>3, <1>4, <2>2
    <2>3. CASE a \notin DOMAIN s /\ b \in DOMAIN s
        BY <1>3, <1>4, <2>3
    <2>4. CASE a \notin DOMAIN s /\ b \notin DOMAIN s
        <3>1. a - Len(s) = b - Len(s)
            BY <1>3, <2>4 DEF SweepList, OneByOne
        <3> QED
            BY <3>1, <1>3, <2>4
    <2> QED
        BY <2>1, <2>2, <2>3, <2>4
<1>7. FieldsIn(u) \subseteq F \cup G
    BY <1>3, <1>4 DEF FieldsIn
<1>8. \A i \in DOMAIN s : i \in DOMAIN u /\ u[i] = s[i]
    BY <1>1, <1>2
<1>9. \A i \in DOMAIN t : Len(s) + i \in DOMAIN u /\ u[Len(s) + i] = t[i]
    BY <1>1, <1>2
<1>10. F \cup G \subseteq FieldsIn(u)
    BY <1>8, <1>9 DEF FieldsIn, SweepList
<1> QED
    BY <1>1, <1>5, <1>6, <1>7, <1>10 DEF SweepList, u

LEMMA SweepListNone ==
    ASSUME NEW kind PROVE SweepList(kind, <<>>, {})
<1>1. <<>> \in Seq({}) /\ DOMAIN <<>> = {}
    OBVIOUS
<1> QED
    BY <1>1, SeqIsSeq DEF SweepList, OneByOne, FieldsIn

LEMMA SweepListIs ==
    ASSUME NEW o, Shaped(o), NEW fms, NEW F, SweepList(o.kind, fms, F)
    PROVE  Sweeps(o, Slots(o, fms), F)
<1> DEFINE s == Slots(o, fms)
<1>1. /\ Within(o, s) /\ Distinct(s)
      /\ \A x : x \in Range(s) <=>
            \E j \in DOMAIN fms : \E i \in DOMAIN Field(o, fms[j][1]) :
               x = <<fms[j][1], i, fms[j][2]>>
    <2>1. IsList(fms) /\ OneByOne(fms)
        BY IsSeqParts DEF SweepList, IsList
    <2> QED
        BY <2>1, SlotsAre
<1> HIDE DEF s
<1>2. ASSUME NEW x \in Range(s)
      PROVE  x = <<x[1], x[2], x[3]>> /\ x[1] \in F /\ Handles(o.kind, x[1], x[3])
    <2>1. PICK j \in DOMAIN fms : \E i \in DOMAIN Field(o, fms[j][1]) :
              x = <<fms[j][1], i, fms[j][2]>>
        BY <1>1
    <2>2. PICK i : x = <<fms[j][1], i, fms[j][2]>>
        BY <2>1
    <2> QED
        BY <2>2 DEF SweepList, FieldsIn
<1>3. ASSUME NEW f \in F, f \in DOMAIN o.f, NEW i \in DOMAIN o.f[f]
      PROVE  \E m : <<f, i, m>> \in Range(s)
    <2>1. PICK j \in DOMAIN fms : fms[j][1] = f
        BY DEF FieldsIn, SweepList
    <2>2. <<f, i, fms[j][2]>> \in Range(s)
        BY <2>1, <1>1, <1>3 DEF Field
    <2> QED
        BY <2>2
<1> QED
    BY <1>1, <1>2, <1>3 DEF Sweeps, s

LEMMA SweepBuckets ==
    ASSUME NEW o, Shaped(o), o.kind \in Tables, NEW mode,
           mode \in {"ptr", "guard", "zval"}, mode = "zval" <=> o.kind = "zvals"
    PROVE  Sweeps(o, Buckets(o, mode), {"key", "val"})
<1> DEFINE s == Buckets(o, mode)
<1>1. /\ Within(o, s) /\ Distinct(s)
      /\ \A x \in Range(s) :
            \/ x[1] = "key" /\ x[3] = "str" /\ x = <<"key", x[2], "str">>
            \/ x[1] = "val" /\ x[3] = mode /\ x = <<"val", x[2], mode>>
      /\ \A i \in DOMAIN o.f.val : /\ <<"val", i, mode>> \in Range(s)
                                   /\ "key" \in DOMAIN o.f /\ i \in DOMAIN o.f.key =>
                                         <<"key", i, "str">> \in Range(s)
    BY BucketsAre DEF Shaped
<1>2. "key" \in DOMAIN o.f => DOMAIN o.f.key \subseteq DOMAIN o.f.val
    BY DEF Shaped
<1> HIDE DEF s
<1>3. /\ Handles(o.kind, "key", "str") /\ Handles(o.kind, "val", mode)
    BY DEF Handles, Tables, Translated
<1>4. ASSUME NEW x \in Range(s)
      PROVE  x = <<x[1], x[2], x[3]>> /\ x[1] \in {"key", "val"} /\ Handles(o.kind, x[1], x[3])
    BY <1>1, <1>3
<1>5. ASSUME NEW f \in {"key", "val"}, f \in DOMAIN o.f, NEW i \in DOMAIN o.f[f]
      PROVE  \E m : <<f, i, m>> \in Range(s)
    BY <1>1, <1>2, <1>5
<1> QED
    BY <1>1, <1>4, <1>5 DEF Sweeps, s

LEMMA SweepBoth ==
    ASSUME NEW o, NEW s, NEW t, NEW F, NEW G, Sweeps(o, s, F), Sweeps(o, t, G), F \cap G = {}
    PROVE  Sweeps(o, s \o t, F \cup G)
<1>1. IsSeq(s) /\ IsSeq(t)
    BY DEF Sweeps, Within
<1>2. Apart(s, t)
    <2> SUFFICES ASSUME NEW a \in DOMAIN s, NEW b \in DOMAIN t PROVE s[a][1] # t[b][1]
        BY DEF Apart
    <2>1. s[a] \in Range(s) /\ t[b] \in Range(t)
        BY DEF Range
    <2> QED
        BY <2>1 DEF Sweeps
<1>3. IsSeq(s \o t) /\ Range(s \o t) = Range(s) \cup Range(t) /\ Distinct(s \o t)
    BY <1>1, <1>2, ConcatIs DEF Sweeps
<1> HIDE DEF Sweeps
<1>4. /\ \A x \in Range(s) \cup Range(t) :
             /\ x[1] \in DOMAIN o.f /\ x[2] \in DOMAIN o.f[x[1]]
             /\ x = <<x[1], x[2], x[3]>> /\ x[1] \in F \cup G /\ Handles(o.kind, x[1], x[3])
    BY DEF Sweeps, Within
<1>5. \A f \in F \cup G : f \in DOMAIN o.f =>
          \A i \in DOMAIN o.f[f] : \E m : <<f, i, m>> \in Range(s) \cup Range(t)
    BY DEF Sweeps
<1> QED
    BY <1>3, <1>4, <1>5 DEF Sweeps, Within

\* The slots of a structure that relocation has not met yet.
Fitted(o) == \A f \in DOMAIN o.f : o.f[f] # <<>> => f \in FieldsOf(o.kind, ver)
Unmet(o, s) ==
    \/ /\ s = SerializeSlots(o)
       /\ o.kind = "prop" => ~ IsSerialized(First(o, "ce"))
    \/ /\ s = UnserializeSlots(o)
       /\ o.kind \in {"prop", "cconst"} => ~ IsUnserialized(First(o, "ce"))
       /\ o.kind \in {"op_array", "script"} => ~ IsUnserialized(First(o, "opcodes"))

LEMMA SweepOpArray ==
    ASSUME NEW o, Shaped(o), o.kind \in {"op_array", "script"}, NEW s,
           \/ s = SerializeOpArray(o)
           \/ s = UnserializeOpArray(o) /\ ~ IsUnserialized(First(o, "opcodes")),
           NEW O, O = OpArrayFields \cup {"scope"} \cup {f \in {"doc"} : ver < 80400}
    PROVE  Sweeps(o, s, O)
<1> DEFINE A == <<<<"statics", "ptr">>, <<"literals", "ptr">>, <<"opcodes", "ptr">>,
                  <<"arg_info", "ptr">>, <<"name", "str">>, <<"filename", "str">>>>
           D == <<<<"doc", "str">>>>
           B == <<<<"vars", "ptr">>, <<"live_range", "flat">>, <<"scope", "flat">>,
                  <<"try_catch", "flat">>, <<"attrs", "ptr">>, <<"defs", "ptr">>>>
           W == When(ver < 80400, D)
           E == {"statics", "literals", "opcodes", "arg_info", "name", "filename"}
           F == {"vars", "live_range", "scope", "try_catch", "attrs", "defs"}
           G == {f \in {"doc"} : ver < 80400}
<1>1. s = Slots(o, (A \o W) \o B)
    BY DEF SerializeOpArray, UnserializeOpArray
<1>2. SweepList(o.kind, A, E) /\ SweepList(o.kind, D, {"doc"}) /\ SweepList(o.kind, B, F)
    <2>1. SweepList(o.kind, A, E)
        BY DEF SweepList, IsSeq, Range, OneByOne, Handles, Translated, FieldsIn
    <2>2. SweepList(o.kind, D, {"doc"})
        BY DEF SweepList, IsSeq, Range, OneByOne, Handles, Translated, FieldsIn
    <2>3. SweepList(o.kind, B, F)
        BY DEF SweepList, IsSeq, Range, OneByOne, Handles, Translated, FieldsIn
    <2> QED
        BY <2>1, <2>2, <2>3
<1>3. G \subseteq {"doc"}
    OBVIOUS
<1> HIDE DEF A, B, D
<1>4. SweepList(o.kind, W, G)
    <2>1. CASE ver < 80400
        <3>1. W = D /\ G = {"doc"}
            BY <2>1, SMT DEF When
        <3> HIDE DEF W, G
        <3> QED
            BY <1>2, <3>1, SMT
    <2>2. CASE ~ (ver < 80400)
        <3>1. W = <<>> /\ G = {}
            BY <2>2, SMT DEF When
        <3> HIDE DEF W, G
        <3> QED
            BY <3>1, SweepListNone, SMT
    <2> QED
        BY <2>1, <2>2, SMT
<1> HIDE DEF W, G
<1>5. SweepList(o.kind, A \o W, E \cup G)
    BY <1>2, <1>3, <1>4, SweepListBoth
<1>6. SweepList(o.kind, (A \o W) \o B, (E \cup G) \cup F)
    BY <1>2, <1>3, <1>5, SweepListBoth
<1>7. Sweeps(o, s, (E \cup G) \cup F)
    BY <1>1, <1>6, SweepListIs
<1>8. (E \cup G) \cup F = O
    BY SMT DEF OpArrayFields, G
<1> QED
    BY <1>7, <1>8

LEMMA SweepClass ==
    ASSUME NEW o, Shaped(o), o.kind = "class", NEW s,
           s = SerializeSlots(o) \/ s = UnserializeSlots(o)
    PROVE  \E F : Sweeps(o, s, F) /\ FieldsOf("class", ver) \subseteq F
<1> DEFINE L ==
        <<<<"name", "str">>, <<"parent", "str">>, <<"methods", "guard">>,
        <<"defaults", "ptr">>, <<"static_members", "ptr">>, <<"constants", "guard">>,
        <<"filename", "str">>, <<"doc", "str">>, <<"attrs", "ptr">>,
        <<"props", "guard">>, <<"interfaces", "ptr">>, <<"traits", "ptr">>,
        <<"aliases", "ptr">>, <<"precedences", "ptr">>,
        <<"magic", "flat">>, <<"callstatic", "flat">>>>
           K ==
        <<<<"name", "str">>, <<"parent", "str">>, <<"methods", "guard">>,
        <<"props", "guard">>, <<"defaults", "ptr">>, <<"static_members", "ptr">>,
        <<"constants", "guard">>, <<"magic", "flat">>, <<"callstatic", "flat">>,
        <<"filename", "str">>, <<"doc", "str">>, <<"attrs", "ptr">>,
        <<"interfaces", "ptr">>, <<"traits", "ptr">>, <<"aliases", "ptr">>,
        <<"precedences", "ptr">>>>
           F == {"name", "parent", "methods", "props", "defaults", "static_members",
                 "constants", "magic", "callstatic", "filename", "doc", "attrs",
                 "interfaces", "traits", "aliases", "precedences"}
<1>1. s = Slots(o, L) \/ s = Slots(o, K)
    BY DEF SerializeSlots, SerializeClass, UnserializeSlots, UnserializeClass
<1>2. SweepList("class", L, F)
    BY DEF SweepList, IsSeq, Range, OneByOne, Handles, Translated, FieldsIn
<1>3. SweepList("class", K, F)
    BY DEF SweepList, IsSeq, Range, OneByOne, Handles, Translated, FieldsIn
<1>4. FieldsOf("class", ver) \subseteq F
    BY SMT DEF FieldsOf, Tables
<1> HIDE DEF L, K, F
<1> QED
    BY <1>1, <1>2, <1>3, <1>4, SweepListIs

LEMMA SweepProp ==
    ASSUME NEW o, Shaped(o), o.kind = "prop", NEW s, Unmet(o, s)
    PROVE  \E F : Sweeps(o, s, F) /\ FieldsOf("prop", ver) \subseteq F
<1> DEFINE A == <<<<"ce", "flat">>, <<"name", "str">>, <<"doc", "str">>, <<"attrs", "ptr">>>>
           D == <<<<"prototype", "flat">>, <<"hooks", "ptr">>>>
           B == <<<<"type", "type">>>>
           W == When(ver >= 80400, D)
           E == {"ce", "name", "doc", "attrs"}
           G == {f \in {"prototype", "hooks"} : ver >= 80400}
<1>1. s = Slots(o, (A \o W) \o B)
    BY SMT DEF Unmet, SerializeSlots, SerializeProp, UnserializeSlots, UnserializeProp
<1>2. /\ SweepList("prop", A, E) /\ SweepList("prop", D, {"prototype", "hooks"})
      /\ SweepList("prop", B, {"type"})
    BY SMT DEF SweepList, IsSeq, Range, OneByOne, Handles, Translated, FieldsIn
<1>3. G \subseteq {"prototype", "hooks"}
    BY SMT
<1> HIDE DEF A, B, D
<1>4. SweepList("prop", W, G)
    <2>1. CASE ver >= 80400
        <3>1. W = D /\ G = {"prototype", "hooks"}
            BY <2>1, SMT DEF When
        <3> HIDE DEF W, G
        <3> QED
            BY <1>2, <3>1, SMT
    <2>2. CASE ~ (ver >= 80400)
        <3>1. W = <<>> /\ G = {}
            BY <2>2, SMT DEF When
        <3> HIDE DEF W, G
        <3> QED
            BY <3>1, SweepListNone, SMT
    <2> QED
        BY <2>1, <2>2, SMT
<1>5. FieldsOf("prop", ver) \subseteq (E \cup G) \cup {"type"}
    BY SMT DEF FieldsOf, Tables
<1> HIDE DEF W, G
<1>6. SweepList("prop", A \o W, E \cup G)
    BY <1>2, <1>3, <1>4, SweepListBoth
<1>7. SweepList("prop", (A \o W) \o B, (E \cup G) \cup {"type"})
    BY <1>2, <1>3, <1>6, SweepListBoth
<1> QED
    BY <1>1, <1>5, <1>7, SweepListIs

LEMMA SweepConstant ==
    ASSUME NEW o, Shaped(o), o.kind = "cconst", NEW s, Unmet(o, s)
    PROVE  \E F : Sweeps(o, s, F) /\ FieldsOf("cconst", ver) \subseteq F
<1> DEFINE A == <<<<"value", "zval">>, <<"doc", "str">>, <<"attrs", "ptr">>>>
           D == <<<<"type", "type">>>>
           B == <<<<"ce", "flat">>>>
           C == <<<<"ce", "flat">>, <<"value", "zval">>, <<"doc", "str">>, <<"attrs", "ptr">>>>
           W == When(ver >= 80300, D)
           E == {"value", "doc", "attrs"}
           G == {f \in {"type"} : ver >= 80300}
<1>1. s = Slots(o, (A \o W) \o B) \/ s = Slots(o, C \o W)
    BY SMT DEF Unmet, SerializeSlots, SerializeClassConstant, UnserializeSlots,
           UnserializeClassConstant
<1>2. /\ SweepList("cconst", A, E) /\ SweepList("cconst", D, {"type"})
      /\ SweepList("cconst", B, {"ce"}) /\ SweepList("cconst", C, E \cup {"ce"})
    BY SMT DEF SweepList, IsSeq, Range, OneByOne, Handles, Translated, FieldsIn
<1>3. G \subseteq {"type"}
    BY SMT
<1> HIDE DEF A, B, C, D
<1>4. SweepList("cconst", W, G)
    <2>1. CASE ver >= 80300
        <3>1. W = D /\ G = {"type"}
            BY <2>1, SMT DEF When
        <3> HIDE DEF W, G
        <3> QED
            BY <1>2, <3>1, SMT
    <2>2. CASE ~ (ver >= 80300)
        <3>1. W = <<>> /\ G = {}
            BY <2>2, SMT DEF When
        <3> HIDE DEF W, G
        <3> QED
            BY <3>1, SweepListNone, SMT
    <2> QED
        BY <2>1, <2>2, SMT
<1>5. FieldsOf("cconst", ver) \subseteq E \cup G \cup {"ce"}
    BY SMT DEF FieldsOf, Tables
<1> HIDE DEF W, G
<1>6. SweepList("cconst", A \o W, E \cup G)
    BY <1>2, <1>3, <1>4, SweepListBoth
<1>7. SweepList("cconst", (A \o W) \o B, (E \cup G) \cup {"ce"})
    BY <1>2, <1>3, <1>6, SweepListBoth
<1>8. SweepList("cconst", C \o W, (E \cup {"ce"}) \cup G)
    BY <1>2, <1>3, <1>4, SweepListBoth
<1>9. /\ FieldsOf("cconst", ver) \subseteq (E \cup G) \cup {"ce"}
      /\ FieldsOf("cconst", ver) \subseteq (E \cup {"ce"}) \cup G
    BY <1>5
<1> HIDE DEF E
<1> QED
    BY <1>1, <1>7, <1>8, <1>9, SweepListIs

LEMMA SweepScript ==
    ASSUME NEW o, Shaped(o), o.kind = "script", NEW s, Unmet(o, s)
    PROVE  \E F : Sweeps(o, s, F) /\ FieldsOf("script", ver) \subseteq F
<1> DEFINE L == <<<<"script_name", "str">>, <<"classes", "guard">>, <<"functions", "guard">>>>
           K == <<<<"consts", "guard">>, <<"early", "ptr">>>>
<1>1. PICK t : /\ \/ t = SerializeOpArray(o)
                  \/ t = UnserializeOpArray(o) /\ ~ IsUnserialized(First(o, "opcodes"))
               /\ s = (Slots(o, L) \o t) \o Slots(o, K)
    <2>1. CASE s = SerializeSlots(o)
        <3>1. s = (Slots(o, L) \o SerializeOpArray(o)) \o Slots(o, K)
            BY <2>1 DEF SerializeSlots, SerializeScript
        <3> HIDE DEF L, K
        <3> QED
            BY <3>1
    <2>2. CASE s = UnserializeSlots(o) /\ ~ IsUnserialized(First(o, "opcodes"))
        <3>1. s = (Slots(o, L) \o UnserializeOpArray(o)) \o Slots(o, K)
            BY <2>2 DEF UnserializeSlots, UnserializeScript
        <3> HIDE DEF L, K
        <3> QED
            BY <2>2, <3>1
    <2> QED
        BY <2>1, <2>2 DEF Unmet
<1> DEFINE F == OpArrayFields \cup {"scope"} \cup {f \in {"doc"} : ver < 80400}
           G == {"script_name", "classes", "functions"}
           H == {"consts", "early"}
<1>2. SweepList("script", L, G) /\ SweepList("script", K, H)
    BY SMT DEF SweepList, IsSeq, Range, OneByOne, Handles, Translated, FieldsIn
<1> HIDE DEF L, K
<1>3. Sweeps(o, t, F) /\ Sweeps(o, Slots(o, L), G) /\ Sweeps(o, Slots(o, K), H)
    <2>1. Sweeps(o, t, F)
        <3>1. F = OpArrayFields \cup {"scope"} \cup {f \in {"doc"} : ver < 80400}
            BY SMT
        <3> HIDE DEF F
        <3> QED
            BY <1>1, <3>1, SweepOpArray, SMT
    <2>2. Sweeps(o, Slots(o, L), G) /\ Sweeps(o, Slots(o, K), H)
        <3> HIDE DEF F, G, H
        <3> QED
            BY <1>2, SweepListIs
    <2> QED
        BY <2>1, <2>2
<1>4. G \cap F = {} /\ (G \cup F) \cap H = {} /\ FieldsOf("script", ver) \subseteq (G \cup F) \cup H
    BY SMT DEF OpArrayFields, FieldsOf, Tables
<1> HIDE DEF F, G, H
<1>5. Sweeps(o, s, (G \cup F) \cup H)
    BY <1>1, <1>3, <1>4, SweepBoth
<1> QED
    BY <1>4, <1>5

\* The structures with few fields are handled alike in both directions.
LEMMA SweepSmall ==
    ASSUME NEW o, Shaped(o), NEW s, s = SerializeSlots(o) \/ s = UnserializeSlots(o),
           o.kind \notin {"script", "op_array", "class", "prop", "cconst"}
    PROVE  \E F : Sweeps(o, s, F) /\ FieldsOf(o.kind, ver) \subseteq F
<1>1. CASE o.kind = "const"
    <2> DEFINE L == <<<<"name", "str">>, <<"value", "zval">>>>
               F == {"name", "value"}
    <2>1. s = Slots(o, L)
        BY <1>1, SMT DEF SerializeSlots, UnserializeSlots, Tables
    <2>2. SweepList(o.kind, L, F) /\ FieldsOf(o.kind, ver) = F
        BY <1>1, SMT DEF SweepList, IsSeq, Range, OneByOne, Handles, Translated, FieldsIn,
                        FieldsOf, Tables
    <2> HIDE DEF L, F
    <2> QED
        BY <2>1, <2>2, SweepListIs
<1>2. CASE o.kind = "attr"
    <2> DEFINE L == <<<<"name", "str">>, <<"args", "zval">>>>
               F == {"name", "args"}
    <2>1. s = Slots(o, L)
        BY <1>2, SMT DEF SerializeSlots, UnserializeSlots, Tables
    <2>2. SweepList(o.kind, L, F) /\ FieldsOf(o.kind, ver) = F
        BY <1>2, SMT DEF SweepList, IsSeq, Range, OneByOne, Handles, Translated, FieldsIn,
                        FieldsOf, Tables
    <2> HIDE DEF L, F
    <2> QED
        BY <2>1, <2>2, SweepListIs
<1>3. CASE o.kind = "ht"
    <2> DEFINE L == <<<<"data", "guard">>>>
               F == {"data"}
    <2>1. s = Slots(o, L)
        BY <1>3, SMT DEF SerializeSlots, UnserializeSlots, Tables
    <2>2. SweepList(o.kind, L, F) /\ FieldsOf(o.kind, ver) = F
        BY <1>3, SMT DEF SweepList, IsSeq, Range, OneByOne, Handles, Translated, FieldsIn,
                        FieldsOf, Tables
    <2> HIDE DEF L, F
    <2> QED
        BY <2>1, <2>2, SweepListIs
<1>4. CASE o.kind = "names"
    <2> DEFINE L == <<<<"name", "str">>>>
               F == {"name"}
    <2>1. s = Slots(o, L)
        BY <1>4, SMT DEF SerializeSlots, UnserializeSlots, Tables
    <2>2. SweepList(o.kind, L, F) /\ FieldsOf(o.kind, ver) = F
        BY <1>4, SMT DEF SweepList, IsSeq, Range, OneByOne, Handles, Translated, FieldsIn,
                        FieldsOf, Tables
    <2> HIDE DEF L, F
    <2> QED
        BY <2>1, <2>2, SweepListIs
<1>5. CASE o.kind = "rule"
    <2> DEFINE L == <<<<"name", "str">>>>
               F == {"name"}
    <2>1. s = Slots(o, L)
        BY <1>5, SMT DEF SerializeSlots, UnserializeSlots, Tables
    <2>2. SweepList(o.kind, L, F) /\ FieldsOf(o.kind, ver) = F
        BY <1>5, SMT DEF SweepList, IsSeq, Range, OneByOne, Handles, Translated, FieldsIn,
                        FieldsOf, Tables
    <2> HIDE DEF L, F
    <2> QED
        BY <2>1, <2>2, SweepListIs
<1>6. CASE o.kind = "arg_info"
    <2> DEFINE L == <<<<"name", "str">>, <<"type", "type">>>>
               F == {"name", "type"}
    <2>1. s = Slots(o, L)
        BY <1>6, SMT DEF SerializeSlots, UnserializeSlots, Tables
    <2>2. SweepList(o.kind, L, F) /\ FieldsOf(o.kind, ver) = F
        BY <1>6, SMT DEF SweepList, IsSeq, Range, OneByOne, Handles, Translated, FieldsIn,
                        FieldsOf, Tables
    <2> HIDE DEF L, F
    <2> QED
        BY <2>1, <2>2, SweepListIs
<1>7. CASE o.kind = "types"
    <2> DEFINE L == <<<<"type", "type">>>>
               F == {"type"}
    <2>1. s = Slots(o, L)
        BY <1>7, SMT DEF SerializeSlots, UnserializeSlots, Tables
    <2>2. SweepList(o.kind, L, F) /\ FieldsOf(o.kind, ver) = F
        BY <1>7, SMT DEF SweepList, IsSeq, Range, OneByOne, Handles, Translated, FieldsIn,
                        FieldsOf, Tables
    <2> HIDE DEF L, F
    <2> QED
        BY <2>1, <2>2, SweepListIs
<1>8. CASE o.kind = "ast_ref"
    <2> DEFINE L == <<<<"ast", "next">>>>
               F == {"ast"}
    <2>1. s = Slots(o, L)
        BY <1>8, SMT DEF SerializeSlots, UnserializeSlots, Tables
    <2>2. SweepList(o.kind, L, F) /\ FieldsOf(o.kind, ver) = F
        BY <1>8, SMT DEF SweepList, IsSeq, Range, OneByOne, Handles, Translated, FieldsIn,
                        FieldsOf, Tables
    <2> HIDE DEF L, F
    <2> QED
        BY <2>1, <2>2, SweepListIs
<1>9. CASE o.kind = "ast"
    <2> DEFINE L == <<<<"value", "zval">>, <<"child", "guard">>>>
               F == {"value", "child"}
    <2>1. s = Slots(o, L)
        BY <1>9, SMT DEF SerializeSlots, UnserializeSlots, Tables
    <2>2. SweepList(o.kind, L, F) /\ FieldsOf(o.kind, ver) = F
        BY <1>9, SMT DEF SweepList, IsSeq, Range, OneByOne, Handles, Translated, FieldsIn,
                        FieldsOf, Tables
    <2> HIDE DEF L, F
    <2> QED
        BY <2>1, <2>2, SweepListIs
<1>10. CASE o.kind \in Tables
    <2>1. PICK mode \in {"ptr", "guard", "zval"} :
              s = Buckets(o, mode) /\ (mode = "zval" <=> o.kind = "zvals")
        BY <1>10 DEF SerializeSlots, UnserializeSlots, Tables
    <2>2. FieldsOf(o.kind, ver) = {"key", "val"}
        BY <1>10 DEF FieldsOf, Tables
    <2> QED
        BY <1>10, <2>1, <2>2, SweepBuckets
<1>11. CASE o.kind \notin {"const", "attr", "ht", "names", "rule", "types", "ast_ref",
                          "arg_info", "ast"} \cup Tables
    <2>1. s = <<>> /\ FieldsOf(o.kind, ver) = {}
        BY <1>11 DEF SerializeSlots, UnserializeSlots, Tables, FieldsOf
    <2>2. Sweeps(o, s, {})
        BY <2>1, LooseNone DEF Loose, Sweeps, Distinct, Range
    <2> QED
        BY <2>1, <2>2
<1> QED
    BY <1>1, <1>2, <1>3, <1>4, <1>5, <1>6, <1>7, <1>8, <1>9, <1>10, <1>11

Swept(o, s) ==
    /\ Within(o, s) /\ Distinct(s)
    /\ \A x \in Range(s) : x = <<x[1], x[2], x[3]>> /\ Handles(o.kind, x[1], x[3])
    /\ \A f \in DOMAIN o.f : \A i \in DOMAIN o.f[f] : \E m : <<f, i, m>> \in Range(s)

LEMMA SweepIs ==
    ASSUME NEW o, Shaped(o), Fitted(o), NEW s, Unmet(o, s)
    PROVE  Swept(o, s)
<1>1. PICK F : Sweeps(o, s, F) /\ FieldsOf(o.kind, ver) \subseteq F
    <2>1. s = SerializeSlots(o) \/ s = UnserializeSlots(o)
        BY DEF Unmet
    <2>2. CASE o.kind = "op_array"
        <3>1. \/ s = SerializeOpArray(o)
              \/ s = UnserializeOpArray(o) /\ ~ IsUnserialized(First(o, "opcodes"))
            BY <2>2 DEF Unmet, SerializeSlots, UnserializeSlots
        <3>2. FieldsOf(o.kind, ver) =
                  OpArrayFields \cup {"scope"} \cup {f \in {"doc"} : ver < 80400}
            BY <2>2, SMT DEF FieldsOf, Tables
        <3> QED
            BY <2>2, <3>1, <3>2, SweepOpArray
    <2> QED
        BY <2>1, <2>2, SweepClass, SweepProp, SweepConstant, SweepScript, SweepSmall
<1>2. ASSUME NEW f \in DOMAIN o.f, NEW i \in DOMAIN o.f[f]
      PROVE  \E m : <<f, i, m>> \in Range(s)
    <2>1. DOMAIN <<>> = {}
        OBVIOUS
    <2>2. f \in FieldsOf(o.kind, ver)
        BY <1>2, <2>1 DEF Fitted
    <2> QED
        BY <1>1, <2>2 DEF Sweeps
<1> QED
    BY <1>1, <1>2 DEF Sweeps, Swept

\* persist copies what every field of a structure leads to, the methods that it looks
\* for by name in a class excepted: it goes back to these.
Late == {"magic", "callstatic"}
Covers(o, s, F) ==
    \A f \in F : f \in DOMAIN o.f =>
        \A i \in DOMAIN o.f[f] : \E m : m # "update" /\ <<f, i, m>> \in Range(s)
CoverList(fms, F) ==
    IsSeq(fms) /\ F = FieldsIn(fms) /\ \A j \in DOMAIN fms : fms[j][2] # "update"

LEMMA CoverListBoth ==
    ASSUME NEW s, NEW t, NEW F, NEW G, CoverList(s, F), CoverList(t, G)
    PROVE  CoverList(s \o t, F \cup G)
<1> DEFINE u == s \o t
<1>1. /\ IsSeq(u) /\ Len(u) = Len(s) + Len(t)
      /\ \A i \in 1 .. Len(s) : u[i] = s[i]
      /\ \A i \in 1 .. Len(t) : u[Len(s) + i] = t[i]
    BY ConcatIs DEF CoverList
<1>2. /\ DOMAIN s = 1 .. Len(s) /\ Len(s) \in Nat /\ DOMAIN t = 1 .. Len(t) /\ Len(t) \in Nat
      /\ DOMAIN u = 1 .. Len(u)
    BY <1>1, IsSeqParts DEF CoverList
<1> HIDE DEF u
<1>3. \A i \in DOMAIN u : \/ i \in DOMAIN s /\ u[i] = s[i]
                          \/ i - Len(s) \in DOMAIN t /\ u[i] = t[i - Len(s)]
    <2> SUFFICES ASSUME NEW i \in DOMAIN u, i \notin DOMAIN s
                 PROVE  i - Len(s) \in DOMAIN t /\ u[i] = t[i - Len(s)]
        BY <1>1, <1>2
    <2>1. i - Len(s) \in DOMAIN t /\ i = Len(s) + (i - Len(s))
        BY <1>1, <1>2
    <2> QED
        BY <2>1, <1>1, <1>2
<1>4. /\ \A j \in DOMAIN s : s[j][1] \in F /\ s[j][2] # "update"
      /\ \A j \in DOMAIN t : t[j][1] \in G /\ t[j][2] # "update"
    BY DEF FieldsIn, CoverList
<1>5. FieldsIn(u) \subseteq F \cup G
    BY <1>3, <1>4 DEF FieldsIn
<1>6. \A i \in DOMAIN s : i \in DOMAIN u /\ u[i] = s[i]
    BY <1>1, <1>2
<1>7. \A i \in DOMAIN t : Len(s) + i \in DOMAIN u /\ u[Len(s) + i] = t[i]
    BY <1>1, <1>2
<1>8. F \cup G \subseteq FieldsIn(u)
    BY <1>6, <1>7 DEF FieldsIn, CoverList
<1>9. \A j \in DOMAIN u : u[j][2] # "update"
    BY <1>3, <1>4
<1> QED
    BY <1>1, <1>5, <1>8, <1>9 DEF CoverList, u

LEMMA CoverListNone == CoverList(<<>>, {})
<1>1. <<>> \in Seq({}) /\ DOMAIN <<>> = {}
    OBVIOUS
<1> QED
    BY <1>1, SeqIsSeq DEF CoverList, FieldsIn

LEMMA CoverListIs ==
    ASSUME NEW o, Shaped(o), NEW fms, NEW F, CoverList(fms, F)
    PROVE  Covers(o, Slots(o, fms), F)
<1>1. \A x : x \in Range(Slots(o, fms)) <=>
          \E j \in DOMAIN fms : \E i \in DOMAIN Field(o, fms[j][1]) :
             x = <<fms[j][1], i, fms[j][2]>>
    <2>1. IsList(fms)
        BY IsSeqParts DEF CoverList, IsList
    <2> QED
        BY <2>1, SlotsAre
<1> SUFFICES ASSUME NEW f \in F, f \in DOMAIN o.f, NEW i \in DOMAIN o.f[f]
             PROVE  \E m : m # "update" /\ <<f, i, m>> \in Range(Slots(o, fms))
    BY DEF Covers
<1>2. PICK j \in DOMAIN fms : fms[j][1] = f
    BY DEF FieldsIn, CoverList
<1>3. <<f, i, fms[j][2]>> \in Range(Slots(o, fms)) /\ fms[j][2] # "update"
    BY <1>1, <1>2 DEF Field, CoverList
<1> QED
    BY <1>3

LEMMA CoversBoth ==
    ASSUME NEW o, NEW s, NEW t, NEW F, NEW G, IsSeq(s), IsSeq(t), Covers(o, s, F), Covers(o, t, G)
    PROVE  Covers(o, s \o t, F \cup G)
<1>1. Range(s \o t) = Range(s) \cup Range(t)
    BY ConcatIs
<1>2. \A f \in F \cup G : f \in DOMAIN o.f =>
          \A i \in DOMAIN o.f[f] : \E m : m # "update" /\ <<f, i, m>> \in Range(s) \cup Range(t)
    BY DEF Covers
<1> QED
    BY <1>1, <1>2 DEF Covers

LEMMA CoverOpArray ==
    ASSUME NEW o, Shaped(o), ~ OpcodesKnown(o)
    PROVE  Covers(o, PersistOpArray(o), OpArrayFields \cup {"scope", "doc"})
<1> DEFINE L == <<<<"scope", "xlat">>, <<"name", "str">>, <<"filename", "str">>,
        <<"doc", "str">>, <<"arg_info", "put">>, <<"live_range", "put">>,
        <<"try_catch", "put">>, <<"vars", "put">>, <<"opcodes", "put">>,
        <<"literals", "put">>, <<"statics", "put">>, <<"attrs", "once">>,
        <<"defs", "put">>>>
           F == OpArrayFields \cup {"scope", "doc"}
<1>1. PersistOpArray(o) = Slots(o, L)
    BY DEF PersistOpArray
<1>2. CoverList(L, F)
    BY SMT DEF CoverList, IsSeq, Range, FieldsIn, OpArrayFields
<1> HIDE DEF L, F
<1>3. Covers(o, Slots(o, L), F)
    BY <1>2, CoverListIs
<1> QED
    BY <1>1, <1>3 DEF F

LEMMA CoverClass ==
    ASSUME NEW o, Shaped(o), o.kind = "class"
    PROVE  \E F : Covers(o, PersistSlots(o), F) /\ FieldsOf("class", ver) \ Late \subseteq F
<1> DEFINE A ==
        <<<<"name", "str">>, <<"parent", "str">>, <<"filename", "str">>,
        <<"methods", "data">>, <<"props", "data">>, <<"defaults", "put">>,
        <<"static_members", "put">>, <<"constants", "data">>, <<"interfaces", "put">>,
        <<"traits", "put">>, <<"aliases", "put">>, <<"precedences", "put">>,
        <<"attrs", "once">>>>
           D == <<<<"doc", "str">>>>
           W == When(ver < 80400, D)
           E == {"name", "parent", "filename", "methods", "props", "defaults",
                 "static_members", "constants", "interfaces", "traits", "aliases",
                 "precedences", "attrs"}
           G == {f \in {"doc"} : ver < 80400}
<1>1. PersistSlots(o) = Slots(o, A \o W)
    BY SMT DEF PersistSlots, PersistClass
<1>2. CoverList(A, E) /\ CoverList(D, {"doc"})
    BY SMT DEF CoverList, IsSeq, Range, FieldsIn
<1> HIDE DEF A, D
<1>3. CoverList(W, G)
    <2>1. CASE ver < 80400
        <3>1. W = D /\ G = {"doc"}
            BY <2>1, SMT DEF When
        <3> HIDE DEF W, G
        <3> QED
            BY <1>2, <3>1, SMT
    <2>2. CASE ~ (ver < 80400)
        <3>1. W = <<>> /\ G = {}
            BY <2>2, SMT DEF When
        <3> HIDE DEF W, G
        <3> QED
            BY <3>1, CoverListNone, SMT
    <2> QED
        BY <2>1, <2>2, SMT
<1>4. FieldsOf("class", ver) \ Late \subseteq E \cup G
    BY SMT DEF FieldsOf, Tables, Late
<1> HIDE DEF W, E, G
<1>5. CoverList(A \o W, E \cup G)
    BY <1>2, <1>3, CoverListBoth
<1> QED
    BY <1>1, <1>4, <1>5, CoverListIs

LEMMA CoverProp ==
    ASSUME NEW o, Shaped(o), o.kind = "prop"
    PROVE  \E F : Covers(o, PersistSlots(o), F) /\ FieldsOf("prop", ver) \ Late \subseteq F
<1> DEFINE A == <<<<"ce", "patch">>, <<"name", "str">>>>
           D == <<<<"doc", "str">>>>
           W == When(ver < 80400, D)
           B == <<<<"type", "type">>, <<"attrs", "once">>>>
           C == <<<<"prototype", "xlat">>, <<"hooks", "put">>>>
           V == When(ver >= 80400, C)
           G == {f \in {"doc"} : ver < 80400}
           H == {f \in {"prototype", "hooks"} : ver >= 80400}
<1>1. PersistSlots(o) = Slots(o, ((A \o W) \o B) \o V)
    BY SMT DEF PersistSlots, PersistProp
<1>2. /\ CoverList(A, {"ce", "name"}) /\ CoverList(D, {"doc"})
      /\ CoverList(B, {"type", "attrs"}) /\ CoverList(C, {"prototype", "hooks"})
    BY SMT DEF CoverList, IsSeq, Range, FieldsIn
<1> HIDE DEF A, B, C, D
<1>3. CoverList(W, G)
    <2>1. CASE ver < 80400
        <3>1. W = D /\ G = {"doc"}
            BY <2>1, SMT DEF When
        <3> HIDE DEF W, G
        <3> QED
            BY <1>2, <3>1, SMT
    <2>2. CASE ~ (ver < 80400)
        <3>1. W = <<>> /\ G = {}
            BY <2>2, SMT DEF When
        <3> HIDE DEF W, G
        <3> QED
            BY <3>1, CoverListNone, SMT
    <2> QED
        BY <2>1, <2>2, SMT
<1>4. CoverList(V, H)
    <2>1. CASE ver >= 80400
        <3>1. V = C /\ H = {"prototype", "hooks"}
            BY <2>1, SMT DEF When
        <3> HIDE DEF V, H
        <3> QED
            BY <1>2, <3>1, SMT
    <2>2. CASE ~ (ver >= 80400)
        <3>1. V = <<>> /\ H = {}
            BY <2>2, SMT DEF When
        <3> HIDE DEF V, H
        <3> QED
            BY <3>1, CoverListNone, SMT
    <2> QED
        BY <2>1, <2>2, SMT
<1>5. FieldsOf("prop", ver) \ Late \subseteq
          (({"ce", "name"} \cup G) \cup {"type", "attrs"}) \cup H
    BY SMT DEF FieldsOf, Tables, Late
<1> HIDE DEF W, V, G, H
<1>6. CoverList(A \o W, {"ce", "name"} \cup G)
    BY <1>2, <1>3, CoverListBoth
<1>7. CoverList((A \o W) \o B, ({"ce", "name"} \cup G) \cup {"type", "attrs"})
    BY <1>2, <1>6, CoverListBoth
<1>8. CoverList(((A \o W) \o B) \o V, (({"ce", "name"} \cup G) \cup {"type", "attrs"}) \cup H)
    BY <1>4, <1>7, CoverListBoth
<1> QED
    BY <1>1, <1>5, <1>8, CoverListIs

LEMMA CoverConstant ==
    ASSUME NEW o, Shaped(o), o.kind = "cconst"
    PROVE  \E F : Covers(o, PersistSlots(o), F) /\ FieldsOf("cconst", ver) \ Late \subseteq F
<1> DEFINE A == <<<<"ce", "patch">>, <<"value", "zval">>, <<"doc", "str">>, <<"attrs", "once">>>>
           D == <<<<"type", "type">>>>
           W == When(ver >= 80300, D)
           E == {"ce", "value", "doc", "attrs"}
           G == {f \in {"type"} : ver >= 80300}
<1>1. PersistSlots(o) = Slots(o, A \o W)
    BY SMT DEF PersistSlots, PersistClassConstant
<1>2. CoverList(A, E) /\ CoverList(D, {"type"})
    BY SMT DEF CoverList, IsSeq, Range, FieldsIn
<1> HIDE DEF A, D
<1>3. CoverList(W, G)
    <2>1. CASE ver >= 80300
        <3>1. W = D /\ G = {"type"}
            BY <2>1, SMT DEF When
        <3> HIDE DEF W, G
        <3> QED
            BY <1>2, <3>1, SMT
    <2>2. CASE ~ (ver >= 80300)
        <3>1. W = <<>> /\ G = {}
            BY <2>2, SMT DEF When
        <3> HIDE DEF W, G
        <3> QED
            BY <3>1, CoverListNone, SMT
    <2> QED
        BY <2>1, <2>2, SMT
<1>4. FieldsOf("cconst", ver) \ Late \subseteq E \cup G
    BY SMT DEF FieldsOf, Tables, Late
<1> HIDE DEF W, E, G
<1>5. CoverList(A \o W, E \cup G)
    BY <1>2, <1>3, CoverListBoth
<1> QED
    BY <1>1, <1>4, <1>5, CoverListIs

LEMMA CoverScript ==
    ASSUME NEW o, Shaped(o), o.kind = "script", ~ OpcodesKnown(o)
    PROVE  \E F : Covers(o, PersistSlots(o), F) /\ FieldsOf("script", ver) \ Late \subseteq F
<1> DEFINE L == <<<<"script_name", "str">>, <<"classes", "data">>, <<"functions", "data">>>>
           K == <<<<"consts", "data">>, <<"early", "put">>>>
           t == PersistOpArray(o)
           F == OpArrayFields \cup {"scope", "doc"}
           G == {"script_name", "classes", "functions"}
           H == {"consts", "early"}
<1>1. PersistSlots(o) = (Slots(o, L) \o t) \o Slots(o, K)
    BY DEF PersistSlots, PersistScript
<1>2. CoverList(L, G) /\ CoverList(K, H)
    BY SMT DEF CoverList, IsSeq, Range, FieldsIn
<1>3. FieldsOf("script", ver) \ Late \subseteq (G \cup F) \cup H
    BY SMT DEF OpArrayFields, FieldsOf, Tables
<1>4. Covers(o, t, F)
    BY CoverOpArray
<1>5. IsSeq(t)
    BY OpArrayIsFine DEF PersistFine, Within
<1> HIDE DEF L, K, F, G, H, t
<1>6. Covers(o, Slots(o, L), G) /\ Covers(o, Slots(o, K), H)
    BY <1>2, CoverListIs
<1>7. IsSeq(Slots(o, L)) /\ IsSeq(Slots(o, K))
    <2>1. IsList(L) /\ IsList(K)
        BY <1>2, IsSeqParts DEF CoverList, IsList
    <2> QED
        BY <2>1, SlotsAre DEF Within
<1>8. IsSeq(Slots(o, L) \o t)
    BY <1>5, <1>7, ConcatIs
<1>9. Covers(o, Slots(o, L) \o t, G \cup F)
    BY <1>4, <1>5, <1>6, <1>7, CoversBoth
<1>10. Covers(o, (Slots(o, L) \o t) \o Slots(o, K), (G \cup F) \cup H)
    BY <1>6, <1>7, <1>8, <1>9, CoversBoth
<1> QED
    BY <1>1, <1>3, <1>10

LEMMA CoverSmall ==
    ASSUME NEW o, Shaped(o), o.kind \notin {"script", "op_array", "class", "prop", "cconst"}
    PROVE  \E F : Covers(o, PersistSlots(o), F) /\ FieldsOf(o.kind, ver) \subseteq F
<1>1. CASE o.kind = "const"
    <2> DEFINE L == <<<<"name", "str">>, <<"value", "zval">>>>
               F == {"name", "value"}
    <2>1. PersistSlots(o) = Slots(o, L)
        BY <1>1, SMT DEF PersistSlots, Tables
    <2>2. CoverList(L, F) /\ FieldsOf(o.kind, ver) = F
        BY <1>1, SMT DEF CoverList, IsSeq, Range, FieldsIn, FieldsOf, Tables
    <2> HIDE DEF L, F
    <2> QED
        BY <2>1, <2>2, CoverListIs
<1>2. CASE o.kind = "attr"
    <2> DEFINE L == <<<<"name", "str">>, <<"args", "zval">>>>
               F == {"name", "args"}
    <2>1. PersistSlots(o) = Slots(o, L)
        BY <1>2, SMT DEF PersistSlots, Tables
    <2>2. CoverList(L, F) /\ FieldsOf(o.kind, ver) = F
        BY <1>2, SMT DEF CoverList, IsSeq, Range, FieldsIn, FieldsOf, Tables
    <2> HIDE DEF L, F
    <2> QED
        BY <2>1, <2>2, CoverListIs
<1>3. CASE o.kind = "ht"
    <2> DEFINE L == <<<<"data", "data">>>>
               F == {"data"}
    <2>1. PersistSlots(o) = Slots(o, L)
        BY <1>3, SMT DEF PersistSlots, Tables
    <2>2. CoverList(L, F) /\ FieldsOf(o.kind, ver) = F
        BY <1>3, SMT DEF CoverList, IsSeq, Range, FieldsIn, FieldsOf, Tables
    <2> HIDE DEF L, F
    <2> QED
        BY <2>1, <2>2, CoverListIs
<1>4. CASE o.kind = "names"
    <2> DEFINE L == <<<<"name", "str">>>>
               F == {"name"}
    <2>1. PersistSlots(o) = Slots(o, L)
        BY <1>4, SMT DEF PersistSlots, Tables
    <2>2. CoverList(L, F) /\ FieldsOf(o.kind, ver) = F
        BY <1>4, SMT DEF CoverList, IsSeq, Range, FieldsIn, FieldsOf, Tables
    <2> HIDE DEF L, F
    <2> QED
        BY <2>1, <2>2, CoverListIs
<1>5. CASE o.kind = "rule"
    <2> DEFINE L == <<<<"name", "str">>>>
               F == {"name"}
    <2>1. PersistSlots(o) = Slots(o, L)
        BY <1>5, SMT DEF PersistSlots, Tables
    <2>2. CoverList(L, F) /\ FieldsOf(o.kind, ver) = F
        BY <1>5, SMT DEF CoverList, IsSeq, Range, FieldsIn, FieldsOf, Tables
    <2> HIDE DEF L, F
    <2> QED
        BY <2>1, <2>2, CoverListIs
<1>6. CASE o.kind = "arg_info"
    <2> DEFINE L == <<<<"name", "str">>, <<"type", "type">>>>
               F == {"name", "type"}
    <2>1. PersistSlots(o) = Slots(o, L)
        BY <1>6, SMT DEF PersistSlots, Tables
    <2>2. CoverList(L, F) /\ FieldsOf(o.kind, ver) = F
        BY <1>6, SMT DEF CoverList, IsSeq, Range, FieldsIn, FieldsOf, Tables
    <2> HIDE DEF L, F
    <2> QED
        BY <2>1, <2>2, CoverListIs
<1>7. CASE o.kind = "types"
    <2> DEFINE L == <<<<"type", "type">>>>
               F == {"type"}
    <2>1. PersistSlots(o) = Slots(o, L)
        BY <1>7, SMT DEF PersistSlots, Tables
    <2>2. CoverList(L, F) /\ FieldsOf(o.kind, ver) = F
        BY <1>7, SMT DEF CoverList, IsSeq, Range, FieldsIn, FieldsOf, Tables
    <2> HIDE DEF L, F
    <2> QED
        BY <2>1, <2>2, CoverListIs
<1>8. CASE o.kind = "ast_ref"
    <2> DEFINE L == <<<<"ast", "put">>>>
               F == {"ast"}
    <2>1. PersistSlots(o) = Slots(o, L)
        BY <1>8, SMT DEF PersistSlots, Tables
    <2>2. CoverList(L, F) /\ FieldsOf(o.kind, ver) = F
        BY <1>8, SMT DEF CoverList, IsSeq, Range, FieldsIn, FieldsOf, Tables
    <2> HIDE DEF L, F
    <2> QED
        BY <2>1, <2>2, CoverListIs
<1>9. CASE o.kind = "ast"
    <2> DEFINE L == <<<<"value", "zval">>, <<"child", "put">>>>
               F == {"value", "child"}
    <2>1. PersistSlots(o) = Slots(o, L)
        BY <1>9, SMT DEF PersistSlots, Tables
    <2>2. CoverList(L, F) /\ FieldsOf(o.kind, ver) = F
        BY <1>9, SMT DEF CoverList, IsSeq, Range, FieldsIn, FieldsOf, Tables
    <2> HIDE DEF L, F
    <2> QED
        BY <2>1, <2>2, CoverListIs
<1>10. CASE o.kind \in Tables
    <2>1. FieldsOf(o.kind, ver) = {"key", "val"}
        BY <1>10, SMT DEF FieldsOf, Tables
    <2>2. PICK mode : mode # "update" /\ Range(Buckets(o, mode)) \subseteq Range(PersistSlots(o))
        <3>1. CASE o.kind = "classes"
            <4> DEFINE s == Buckets(o, "once")
                       t == [i \in DOMAIN o.f.val |-> <<"val", i, "update">>]
            <4>1. PersistSlots(o) = s \o t
                BY <3>1, SMT DEF PersistSlots, PersistClassTable
            <4>2. IsSeq(s)
                BY <1>10, BucketsAre DEF Shaped, Within
            <4>3. IsSeq(t)
                <5>1. PICK n \in Nat : DOMAIN o.f.val = 1 .. n
                    BY <1>10, IsSeqParts DEF Shaped
                <5>2. DOMAIN t = 1 .. n /\ t = [i \in 1 .. n |-> t[i]]
                    BY <5>1
                <5> HIDE DEF t
                <5> QED
                    BY <5>1, <5>2, MakeSeq
            <4> HIDE DEF t
            <4>4. Range(s \o t) = Range(s) \cup Range(t)
                BY <4>2, <4>3, ConcatIs
            <4>5. Range(Buckets(o, "once")) \subseteq Range(PersistSlots(o))
                BY <4>1, <4>4
            <4>6. "once" # "update"
                OBVIOUS
            <4> HIDE DEF s
            <4> QED
                BY <4>5, <4>6, Zenon
        <3>2. CASE o.kind # "classes"
            <4>1. PICK mode \in {"once", "put", "zval"} : PersistSlots(o) = Buckets(o, mode)
                BY <1>10, <3>2 DEF PersistSlots, Tables
            <4>2. mode # "update" /\ Range(Buckets(o, mode)) \subseteq Range(PersistSlots(o))
                BY <4>1
            <4> QED
                BY <4>2, Zenon
        <3> QED
            BY <3>1, <3>2
    <2>3. Covers(o, PersistSlots(o), {"key", "val"})
        <3>1. /\ \A i \in DOMAIN o.f.val :
                     /\ <<"val", i, mode>> \in Range(Buckets(o, mode))
                     /\ "key" \in DOMAIN o.f /\ i \in DOMAIN o.f.key =>
                           <<"key", i, "str">> \in Range(Buckets(o, mode))
              /\ "key" \in DOMAIN o.f => DOMAIN o.f.key \subseteq DOMAIN o.f.val
            BY <1>10, BucketsAre DEF Shaped
        <3> SUFFICES ASSUME NEW f \in {"key", "val"}, f \in DOMAIN o.f, NEW i \in DOMAIN o.f[f]
                     PROVE  \E m : m # "update" /\ <<f, i, m>> \in Range(PersistSlots(o))
            BY DEF Covers
        <3>2. <<f, i, mode>> \in Range(Buckets(o, mode)) \/ <<f, i, "str">> \in Range(Buckets(o, mode))
            BY <3>1
        <3>3. "str" # "update"
            OBVIOUS
        <3> QED
            BY <2>2, <3>2, <3>3
    <2> QED
        BY <2>1, <2>3
<1>11. CASE o.kind \notin {"const", "attr", "ht", "names", "rule", "types", "ast_ref",
                          "arg_info", "ast"} \cup Tables
    <2>1. FieldsOf(o.kind, ver) = {}
        BY <1>11, SMT DEF Tables, FieldsOf
    <2>2. Covers(o, PersistSlots(o), {})
        BY DEF Covers
    <2> QED
        BY <2>1, <2>2
<1> QED
    BY <1>1, <1>2, <1>3, <1>4, <1>5, <1>6, <1>7, <1>8, <1>9, <1>10, <1>11

LEMMA PersistCovers ==
    ASSUME NEW o, Shaped(o), Fitted(o), ~ Passed(o),
           NEW f \in DOMAIN o.f \ Late, NEW i \in DOMAIN o.f[f]
    PROVE  \E m : m # "update" /\ <<f, i, m>> \in Range(PersistSlots(o))
<1>1. PICK F : Covers(o, PersistSlots(o), F) /\ FieldsOf(o.kind, ver) \ Late \subseteq F
    <2>1. CASE o.kind = "op_array"
        <3>1. /\ PersistSlots(o) = PersistOpArray(o) /\ ~ OpcodesKnown(o)
              /\ FieldsOf(o.kind, ver) \ Late \subseteq OpArrayFields \cup {"scope", "doc"}
            BY <2>1, SMT DEF PersistSlots, Passed, FieldsOf, Tables
        <3> QED
            BY <3>1, CoverOpArray
    <2>2. CASE o.kind = "script"
        <3>1. ~ OpcodesKnown(o)
            BY <2>2 DEF Passed
        <3> QED
            BY <2>2, <3>1, CoverScript
    <2> QED
        BY <2>1, <2>2, CoverClass, CoverProp, CoverConstant, CoverSmall
<1>2. DOMAIN <<>> = {}
    OBVIOUS
<1>3. f \in FieldsOf(o.kind, ver)
    BY <1>2 DEF Fitted
<1> QED
    BY <1>1, <1>3 DEF Covers

\* What persist goes through once more, it goes through wholly.
LEMMA UpdatesAll ==
    ASSUME NEW o, Shaped(o), o.kind = "classes", NEW i \in DOMAIN o.f.val
    PROVE  <<"val", i, "update">> \in Range(PersistSlots(o))
<1> DEFINE s == Buckets(o, "once")
           t == [j \in DOMAIN o.f.val |-> <<"val", j, "update">>]
<1>1. PersistSlots(o) = s \o t
    BY SMT DEF PersistSlots, PersistClassTable
<1>2. "val" \in DOMAIN o.f /\ IsSeq(s)
    BY BucketsAre DEF Shaped, Within, Tables
<1>3. IsSeq(t)
    <2>1. PICK n \in Nat : DOMAIN o.f.val = 1 .. n
        BY <1>2, IsSeqParts DEF Shaped
    <2>2. DOMAIN t = 1 .. n /\ t = [j \in 1 .. n |-> t[j]]
        BY <2>1
    <2> HIDE DEF t
    <2> QED
        BY <2>1, <2>2, MakeSeq
<1>4. <<"val", i, "update">> \in Range(t)
    BY DEF Range
<1> HIDE DEF s, t
<1>5. Range(s \o t) = Range(s) \cup Range(t)
    BY <1>2, <1>3, ConcatIs
<1> QED
    BY <1>1, <1>4, <1>5

LEMMA UpdateCovers ==
    ASSUME NEW o, Shaped(o), Fitted(o), o.kind = "class",
           NEW f \in Late, f \in DOMAIN o.f, NEW i \in DOMAIN o.f[f]
    PROVE  \E m : m # "update" /\ <<f, i, m>> \in Range(UpdateClass(o))
<1> DEFINE A == <<<<"magic", "patch">>>>
           D == <<<<"callstatic", "patch">>>>
           W == When(ver < 80200, D)
           G == {g \in {"callstatic"} : ver < 80200}
<1>1. UpdateClass(o) = Slots(o, A \o W)
    BY SMT DEF UpdateClass
<1>2. CoverList(A, {"magic"}) /\ CoverList(D, {"callstatic"})
    BY SMT DEF CoverList, IsSeq, Range, FieldsIn
<1> HIDE DEF A, D
<1>3. CoverList(W, G)
    <2>1. CASE ver < 80200
        <3>1. W = D /\ G = {"callstatic"}
            BY <2>1, SMT DEF When
        <3> HIDE DEF W, G
        <3> QED
            BY <1>2, <3>1, SMT
    <2>2. CASE ~ (ver < 80200)
        <3>1. W = <<>> /\ G = {}
            BY <2>2, SMT DEF When
        <3> HIDE DEF W, G
        <3> QED
            BY <3>1, CoverListNone, SMT
    <2> QED
        BY <2>1, <2>2, SMT
<1>4. FieldsOf("class", ver) \cap Late \subseteq {"magic"} \cup G
    BY SMT DEF FieldsOf, Tables, Late, OpArrayFields
<1> HIDE DEF W, G
<1>5. CoverList(A \o W, {"magic"} \cup G)
    BY <1>2, <1>3, CoverListBoth
<1>6. DOMAIN <<>> = {}
    OBVIOUS
<1>7. f \in {"magic"} \cup G
    BY <1>4, <1>6 DEF Fitted
<1> QED
    BY <1>1, <1>5, <1>7, CoverListIs DEF Covers

-------------------------------------------------------------------------------
\* The literals are handled right behind the opcodes, an expression before all else.
Short(o) == \A f \in DOMAIN o.f \cap {"opcodes", "literals", "ast", "ce"} : Len(o.f[f]) <= 1
LinedUp(o, s) ==
    \A j \in DOMAIN s :
        /\ s[j][1] = "opcodes" /\ Field(o, "literals") # <<>> =>
              j + 1 \in DOMAIN s /\ s[j + 1][1] = "literals"
        /\ s[j][1] = "literals" =>
              First(o, "opcodes") = Null \/ (j - 1 \in DOMAIN s /\ s[j - 1][1] = "opcodes")
AstFirst(s) == \A j \in DOMAIN s : s[j][1] = "ast" => j = 1

LEMMA SlotOne ==
    ASSUME NEW o, Shaped(o), Short(o), NEW f \in {"opcodes", "literals", "ast", "ce"}
    PROVE  /\ f \in DOMAIN o.f => \A i \in DOMAIN o.f[f] : i = 1 /\ First(o, f) = o.f[f][1]
           /\ Field(o, f) # <<>> => f \in DOMAIN o.f /\ 1 \in DOMAIN o.f[f]
<1>1. ASSUME f \in DOMAIN o.f
      PROVE  /\ \A i \in DOMAIN o.f[f] : i = 1
             /\ o.f[f] # <<>> => 1 \in DOMAIN o.f[f]
    <2>1. /\ DOMAIN o.f[f] = 1 .. Len(o.f[f]) /\ Len(o.f[f]) \in Nat
          /\ o.f[f] \in Seq(Range(o.f[f])) /\ Len(o.f[f]) <= 1
        BY <1>1, IsSeqParts DEF Shaped, IsSeq, Short
    <2>2. o.f[f] # <<>> => Len(o.f[f]) # 0
        BY <2>1
    <2> QED
        BY <2>1, <2>2
<1>2. DOMAIN <<>> = {}
    OBVIOUS
<1> QED
    BY <1>1, <1>2 DEF Field, First

LEMMA Neighbours ==
    ASSUME NEW o, Shaped(o), Short(o), NEW fms, IsList(fms), OneByOne(fms),
           NEW n \in Nat, n \in DOMAIN fms, n + 1 \in DOMAIN fms,
           fms[n][1] = "opcodes", fms[n + 1][1] = "literals"
    PROVE  LinedUp(o, Slots(o, fms))
<1> DEFINE s == Slots(o, fms)
<1>1. /\ Within(o, s) /\ Distinct(s)
      /\ \A x : x \in Range(s) <=>
            \E j \in DOMAIN fms : \E i \in DOMAIN Field(o, fms[j][1]) :
               x = <<fms[j][1], i, fms[j][2]>>
      /\ \A a, b \in DOMAIN s : a < b =>
            \E i, j \in DOMAIN fms : i <= j /\ s[a][1] = fms[i][1] /\ s[b][1] = fms[j][1]
    BY SlotsAre
<1> HIDE DEF s
<1>2. PICK N \in Nat : DOMAIN s = 1 .. N
    BY <1>1, IsSeqParts DEF Within
<1>3. DOMAIN fms \subseteq Nat
    BY DEF IsList
<1>4. ASSUME NEW j \in DOMAIN s, s[j][1] \in {"opcodes", "literals"}
      PROVE  /\ s[j][1] \in DOMAIN o.f /\ s[j][2] = 1 /\ s[j][2] \in DOMAIN o.f[s[j][1]]
    <2>1. s[j] \in Range(s)
        BY DEF Range
    <2> QED
        BY <1>1, <1>4, <2>1, SlotOne DEF Within
<1>5. ASSUME NEW a \in DOMAIN s, NEW b \in DOMAIN s, s[a][1] = "opcodes", s[b][1] = "literals"
      PROVE  b = a + 1
    <2>1. ~ (b < a)
        <3> SUFFICES ASSUME b < a PROVE FALSE
            OBVIOUS
        <3>1. PICK i, j \in DOMAIN fms : i <= j /\ s[b][1] = fms[i][1] /\ s[a][1] = fms[j][1]
            BY <1>1
        <3>2. i = n + 1 /\ j = n
            BY <1>5, <3>1 DEF OneByOne
        <3> QED
            BY <3>1, <3>2
    <2>2. a # b
        BY <1>5
    <2>3. ~ (a + 1 < b)
        <3> SUFFICES ASSUME a + 1 < b PROVE FALSE
            OBVIOUS
        <3> DEFINE c == a + 1
        <3>1. c \in DOMAIN s /\ a < c /\ c < b /\ c # a /\ c # b
            BY <1>2
        <3> HIDE DEF c
        <3>2. PICK i, j \in DOMAIN fms : i <= j /\ s[a][1] = fms[i][1] /\ s[c][1] = fms[j][1]
            BY <1>1, <3>1
        <3>3. PICK k, l \in DOMAIN fms : k <= l /\ s[c][1] = fms[k][1] /\ s[b][1] = fms[l][1]
            BY <1>1, <3>1
        <3>4. i = n /\ l = n + 1 /\ j = k
            BY <1>5, <3>2, <3>3 DEF OneByOne
        <3>5. j \in Nat /\ n <= j /\ j <= n + 1
            BY <1>3, <3>2, <3>3, <3>4
        <3>6. j = n \/ j = n + 1
            BY <3>5
        <3>7. s[c][1] \in {"opcodes", "literals"}
            BY <3>2, <3>6
        <3>8. s[c][2] = 1 /\ s[a][2] = 1 /\ s[b][2] = 1
            BY <1>4, <1>5, <3>1, <3>7
        <3>9. c = a \/ c = b
            BY <1>1, <1>5, <3>1, <3>7, <3>8 DEF Distinct
        <3> QED
            BY <3>1, <3>9
    <2> QED
        BY <1>2, <2>1, <2>2, <2>3
<1>6. ASSUME NEW f \in {"opcodes", "literals"}, Field(o, f) # <<>>
      PROVE  \E j \in DOMAIN s : s[j][1] = f
    <2>1. f \in DOMAIN o.f /\ 1 \in DOMAIN o.f[f]
        BY <1>6, SlotOne
    <2>2. PICK j \in DOMAIN fms : fms[j][1] = f
        OBVIOUS
    <2>3. <<f, 1, fms[j][2]>> \in Range(s)
        BY <1>1, <2>1, <2>2 DEF Field
    <2> QED
        BY <2>3 DEF Range
<1>7. ASSUME NEW j \in DOMAIN s, s[j][1] = "opcodes", Field(o, "literals") # <<>>
      PROVE  j + 1 \in DOMAIN s /\ s[j + 1][1] = "literals"
    <2>1. PICK b \in DOMAIN s : s[b][1] = "literals"
        BY <1>6, <1>7
    <2> QED
        BY <2>1, <1>5, <1>7
<1>8. ASSUME NEW j \in DOMAIN s, s[j][1] = "literals", First(o, "opcodes") # Null
      PROVE  j - 1 \in DOMAIN s /\ s[j - 1][1] = "opcodes"
    <2>1. Field(o, "opcodes") # <<>>
        BY <1>8 DEF First
    <2>2. PICK a \in DOMAIN s : s[a][1] = "opcodes"
        BY <1>6, <2>1
    <2>3. j = a + 1 /\ j - 1 = a
        BY <2>2, <1>2, <1>5, <1>8
    <2> QED
        BY <2>2, <2>3
<1> QED
    BY <1>7, <1>8 DEF LinedUp, s

LEMMA LinedNone ==
    ASSUME NEW o, NEW s, \A j \in DOMAIN s : s[j][1] \notin {"opcodes", "literals"}
    PROVE  LinedUp(o, s)
BY DEF LinedUp

LEMMA LinedBoth ==
    ASSUME NEW o, NEW s, NEW t, IsSeq(s), IsSeq(t), LinedUp(o, s), LinedUp(o, t)
    PROVE  LinedUp(o, s \o t)
<1> DEFINE u == s \o t
<1>1. /\ IsSeq(u) /\ Len(u) = Len(s) + Len(t)
      /\ \A i \in 1 .. Len(s) : u[i] = s[i]
      /\ \A i \in 1 .. Len(t) : u[Len(s) + i] = t[i]
    BY ConcatIs
<1>2. /\ DOMAIN s = 1 .. Len(s) /\ Len(s) \in Nat
      /\ DOMAIN t = 1 .. Len(t) /\ Len(t) \in Nat /\ DOMAIN u = 1 .. Len(u)
    BY <1>1, IsSeqParts
<1> HIDE DEF u
<1>3. \A i \in DOMAIN s : i \in DOMAIN u /\ u[i] = s[i]
    BY <1>1, <1>2
<1>4. \A i \in DOMAIN t : Len(s) + i \in DOMAIN u /\ u[Len(s) + i] = t[i]
    BY <1>1, <1>2
<1> SUFFICES ASSUME NEW j \in DOMAIN u
             PROVE  /\ u[j][1] = "opcodes" /\ Field(o, "literals") # <<>> =>
                          j + 1 \in DOMAIN u /\ u[j + 1][1] = "literals"
                    /\ u[j][1] = "literals" =>
                          First(o, "opcodes") = Null \/ (j - 1 \in DOMAIN u /\ u[j - 1][1] = "opcodes")
    BY DEF LinedUp, u
<1>5. CASE j \in DOMAIN s
    BY <1>3, <1>5 DEF LinedUp
<1>6. CASE j \notin DOMAIN s
    <2> DEFINE c == j - Len(s)
    <2>1. c \in DOMAIN t /\ j = Len(s) + c /\ j + 1 = Len(s) + (c + 1) /\ j - 1 = Len(s) + (c - 1)
        BY <1>1, <1>2, <1>6
    <2> HIDE DEF c
    <2>2. u[j] = t[c]
        BY <1>4, <2>1
    <2>3. c + 1 \in DOMAIN t => j + 1 \in DOMAIN u /\ u[j + 1] = t[c + 1]
        BY <1>4, <2>1
    <2>4. c - 1 \in DOMAIN t => j - 1 \in DOMAIN u /\ u[j - 1] = t[c - 1]
        BY <1>4, <2>1
    <2> QED
        BY <2>1, <2>2, <2>3, <2>4 DEF LinedUp
<1> QED
    BY <1>5, <1>6

LEMMA LinedOpArray ==
    ASSUME NEW o, Shaped(o), Short(o), o.kind \in {"op_array", "script"}
    PROVE  LinedUp(o, PersistOpArray(o))
<1> DEFINE L == <<<<"scope", "xlat">>, <<"name", "str">>, <<"filename", "str">>,
        <<"doc", "str">>, <<"arg_info", "put">>, <<"live_range", "put">>,
        <<"try_catch", "put">>, <<"vars", "put">>, <<"opcodes", "put">>,
        <<"literals", "put">>, <<"statics", "put">>, <<"attrs", "once">>,
        <<"defs", "put">>>>
<1>1. PersistOpArray(o) = <<>> \/ PersistOpArray(o) = Slots(o, L)
    BY DEF PersistOpArray
<1>2. IsList(L) /\ OneByOne(L)
    BY DEF IsList, OneByOne
<1>3. 9 \in DOMAIN L /\ 9 + 1 \in DOMAIN L /\ L[9][1] = "opcodes" /\ L[9 + 1][1] = "literals"
    OBVIOUS
<1> HIDE DEF L
<1>4. LinedUp(o, Slots(o, L))
    BY <1>2, <1>3, Neighbours
<1>5. DOMAIN <<>> = {}
    OBVIOUS
<1> QED
    BY <1>1, <1>4, <1>5, LinedNone

LEMMA LinedIs ==
    ASSUME NEW o, Shaped(o), Fitted(o), Short(o)
    PROVE  LinedUp(o, PersistSlots(o)) /\ AstFirst(PersistSlots(o))
<1>1. \A j \in DOMAIN PersistSlots(o) :
          LET f == PersistSlots(o)[j][1] IN
          f \in FieldsOf(o.kind, ver) /\ f \in DOMAIN o.f
              /\ PersistSlots(o)[j][2] \in DOMAIN o.f[f]
    <2> SUFFICES ASSUME NEW x \in Range(PersistSlots(o))
                 PROVE  /\ x[1] \in FieldsOf(o.kind, ver) /\ x[1] \in DOMAIN o.f
                        /\ x[2] \in DOMAIN o.f[x[1]]
        BY DEF Range
    <2>1. x[1] \in DOMAIN o.f /\ x[2] \in DOMAIN o.f[x[1]]
        BY PersistIs DEF PersistFine, Within
    <2>2. DOMAIN <<>> = {}
        OBVIOUS
    <2> QED
        BY <2>1, <2>2 DEF Fitted
<1>2. CASE o.kind = "op_array"
    <2>1. PersistSlots(o) = PersistOpArray(o)
        BY <1>2 DEF PersistSlots
    <2>2. "ast" \notin FieldsOf(o.kind, ver)
        BY <1>2, SMT DEF FieldsOf, OpArrayFields
    <2> QED
        BY <1>1, <1>2, <2>1, <2>2, LinedOpArray DEF AstFirst
<1>3. CASE o.kind = "script"
    <2> DEFINE L == <<<<"script_name", "str">>, <<"classes", "data">>, <<"functions", "data">>>>
               K == <<<<"consts", "data">>, <<"early", "put">>>>
               t == PersistOpArray(o)
    <2>1. PersistSlots(o) = (Slots(o, L) \o t) \o Slots(o, K)
        BY <1>3 DEF PersistSlots, PersistScript
    <2>2. "ast" \notin FieldsOf(o.kind, ver)
        BY <1>3, SMT DEF FieldsOf, OpArrayFields
    <2>3. IsSeq(t) /\ LinedUp(o, t)
        BY <1>3, LinedOpArray, OpArrayIsFine DEF PersistFine, Within
    <2>4. IsList(L) /\ IsList(K)
        BY DEF IsList
    <2>5. /\ \A j \in DOMAIN L : L[j][1] \notin {"opcodes", "literals"}
          /\ \A j \in DOMAIN K : K[j][1] \notin {"opcodes", "literals"}
        OBVIOUS
    <2> HIDE DEF L, K, t
    <2>6. ASSUME NEW M, IsList(M), \A j \in DOMAIN M : M[j][1] \notin {"opcodes", "literals"}
          PROVE  IsSeq(Slots(o, M)) /\ LinedUp(o, Slots(o, M))
        <3>1. /\ IsSeq(Slots(o, M))
              /\ \A x \in Range(Slots(o, M)) : x[1] \notin {"opcodes", "literals"}
            BY <2>6, SlotsAre DEF Within
        <3>2. \A j \in DOMAIN Slots(o, M) : Slots(o, M)[j] \in Range(Slots(o, M))
            BY DEF Range
        <3> QED
            BY <3>1, <3>2, LinedNone
    <2>7. IsSeq(Slots(o, L)) /\ LinedUp(o, Slots(o, L)) /\ IsSeq(Slots(o, K)) /\ LinedUp(o, Slots(o, K))
        BY <2>4, <2>5, <2>6
    <2>8. IsSeq(Slots(o, L) \o t) /\ LinedUp(o, Slots(o, L) \o t)
        BY <2>3, <2>7, LinedBoth, ConcatIs
    <2>9. LinedUp(o, PersistSlots(o))
        BY <2>1, <2>7, <2>8, LinedBoth
    <2> QED
        BY <1>1, <2>2, <2>9 DEF AstFirst
<1>4. CASE o.kind \notin {"op_array", "script"}
    <2>1. {"opcodes", "literals"} \cap FieldsOf(o.kind, ver) = {}
        BY <1>4, SMT DEF FieldsOf, Tables, OpArrayFields
    <2>2. LinedUp(o, PersistSlots(o))
        BY <1>1, <2>1, LinedNone
    <2>3. CASE o.kind = "ast_ref"
        <3> DEFINE s == PersistSlots(o)
        <3>1. s = Slots(o, <<<<"ast", "put">>>>)
            BY <2>3, SMT DEF PersistSlots, Tables
        <3>2. Within(o, s) /\ Distinct(s)
            <4>1. IsList(<<<<"ast", "put">>>>) /\ OneByOne(<<<<"ast", "put">>>>)
                BY DEF IsList, OneByOne
            <4> QED
                BY <3>1, <4>1, SlotsAre
        <3> HIDE DEF s
        <3>3. PICK n \in Nat : DOMAIN s = 1 .. n
            BY <3>2, IsSeqParts DEF Within
        <3>4. \A j \in DOMAIN s : s[j][1] = "ast"
            BY <1>1, <2>3, SMT DEF FieldsOf, Tables, s
        <3>5. \A j \in DOMAIN s : s[j][2] = 1
            BY <1>1, <3>4, SlotOne DEF s
        <3>6. \A j \in DOMAIN s : 1 \in DOMAIN s /\ j = 1
            BY <3>2, <3>3, <3>4, <3>5 DEF Distinct
        <3> QED
            BY <2>2, <3>6 DEF AstFirst, s
    <2>4. CASE o.kind # "ast_ref"
        <3>1. "ast" \notin FieldsOf(o.kind, ver)
            BY <1>4, <2>4, SMT DEF FieldsOf, Tables, OpArrayFields
        <3> QED
            BY <1>1, <2>2, <3>1 DEF AstFirst
    <2> QED
        BY <2>3, <2>4
<1> QED
    BY <1>2, <1>3, <1>4

-------------------------------------------------------------------------------
\* A part of a class belongs to another part of it.
LEMMA UnderKind ==
    ASSUME NEW objects, Typed(objects, ver), NEW ns, ns \subseteq DOMAIN objects, NEW fields,
           NEW x \in Under(objects, ns, fields)
    PROVE  \E n \in ns : \E f \in fields : objects[x].kind \in LeadsTo(objects[n].kind, f)
<1>1. PICK n \in ns : \E f \in fields \cap DOMAIN objects[n].f : \E i \in DOMAIN objects[n].f[f] :
               objects[n].f[f][i] = <<"src", x>>
    BY DEF Under, Range
<1>2. PICK f \in fields \cap DOMAIN objects[n].f : \E i \in DOMAIN objects[n].f[f] :
               objects[n].f[f][i] = <<"src", x>>
    BY <1>1
<1>3. PICK i \in DOMAIN objects[n].f[f] : objects[n].f[f][i] = <<"src", x>>
    BY <1>2
<1>4. <<"src", x>> # Null /\ <<"src", x>>[2] = x
    BY DEF Null
<1>5. objects[x].kind \in LeadsTo(objects[n].kind, f)
    <2>1. \A h \in DOMAIN objects[n].f[f] :
              objects[n].f[f][h] # Null =>
                  objects[objects[n].f[f][h][2]].kind \in LeadsTo(objects[n].kind, f)
        BY DEF Typed
    <2> QED
        BY <1>3, <1>4, <2>1
<1> QED
    BY <1>5

LEMMA PartsParent ==
    ASSUME NEW objects, Typed(objects, ver), NEW n \in DOMAIN objects,
           NEW x \in ClassParts(objects, n), x # n
    PROVE  /\ x \in DOMAIN objects /\ objects[x].kind \notin {"str", "ht"}
           /\ \E m \in ClassParts(objects, n) : m \in DOMAIN objects /\
                 \E f \in DOMAIN objects[m].f \ Translated : \E i \in DOMAIN objects[m].f[f] :
                    objects[m].f[f][i] = <<"src", x>>
<1> DEFINE A == {"methods", "props", "constants"}
           tables == Under(objects, {n}, A)
           members == Under(objects, tables, {"val"})
           hooks == Under(objects, members, {"hooks"})
           bodies == Under(objects, hooks, {"val"})
<1>1. ClassParts(objects, n) = {n} \cup tables \cup members \cup hooks \cup bodies
    BY DEF ClassParts
<1>2. /\ tables \subseteq DOMAIN objects /\ members \subseteq DOMAIN objects
      /\ hooks \subseteq DOMAIN objects /\ bodies \subseteq DOMAIN objects
    BY DEF Under
<1>3. A \cap Translated = {} /\ "val" \notin Translated /\ "hooks" \notin Translated
    BY DEF Translated
<1>4. \A kind : \A f \in A : LeadsTo(kind, f) \subseteq {"methods", "props", "cconsts"}
    BY DEF LeadsTo
<1>5. /\ \A kind \in {"methods", "props", "cconsts"} :
             LeadsTo(kind, "val") \subseteq {"op_array", "prop", "cconst"}
      /\ \A kind : LeadsTo(kind, "hooks") \subseteq {"hooks"}
      /\ LeadsTo("hooks", "val") \subseteq {"op_array"}
    BY DEF LeadsTo, Members
<1> HIDE DEF A, tables, members, hooks, bodies
<1>6. \A y \in tables : objects[y].kind \in {"methods", "props", "cconsts"}
    BY <1>2, <1>4, UnderKind DEF tables
<1>7. \A y \in members : objects[y].kind \in {"op_array", "prop", "cconst"}
    <2> SUFFICES ASSUME NEW y \in members PROVE objects[y].kind \in {"op_array", "prop", "cconst"}
        OBVIOUS
    <2>1. \E m \in tables : \E f \in {"val"} : objects[y].kind \in LeadsTo(objects[m].kind, f)
        BY <1>2, UnderKind DEF members
    <2> QED
        BY <2>1, <1>5, <1>6
<1>8. \A y \in hooks : objects[y].kind = "hooks"
    <2> SUFFICES ASSUME NEW y \in hooks PROVE objects[y].kind = "hooks"
        OBVIOUS
    <2>1. \E m \in members : \E f \in {"hooks"} : objects[y].kind \in LeadsTo(objects[m].kind, f)
        BY <1>2, UnderKind DEF hooks
    <2> QED
        BY <2>1, <1>5
<1>9. \A y \in bodies : objects[y].kind = "op_array"
    <2> SUFFICES ASSUME NEW y \in bodies PROVE objects[y].kind = "op_array"
        OBVIOUS
    <2>1. \E m \in hooks : \E f \in {"val"} : objects[y].kind \in LeadsTo(objects[m].kind, f)
        BY <1>2, UnderKind DEF bodies
    <2> QED
        BY <2>1, <1>5, <1>8
<1>10. ASSUME NEW ns, ns \subseteq DOMAIN objects, ns \subseteq ClassParts(objects, n),
              NEW F, F \cap Translated = {}, x \in Under(objects, ns, F)
       PROVE  \E m \in ClassParts(objects, n) : m \in DOMAIN objects /\
                 \E f \in DOMAIN objects[m].f \ Translated : \E i \in DOMAIN objects[m].f[f] :
                    objects[m].f[f][i] = <<"src", x>>
    <2>1. PICK m \in ns : \E f \in F \cap DOMAIN objects[m].f : \E i \in DOMAIN objects[m].f[f] :
               objects[m].f[f][i] = <<"src", x>>
        BY <1>10 DEF Under, Range
    <2> QED
        BY <1>10, <2>1
<1>11. \E m \in ClassParts(objects, n) : m \in DOMAIN objects /\
                 \E f \in DOMAIN objects[m].f \ Translated : \E i \in DOMAIN objects[m].f[f] :
                    objects[m].f[f][i] = <<"src", x>>
    <2>1. x \in tables \/ x \in members \/ x \in hooks \/ x \in bodies
        BY <1>1
    <2>2. CASE x \in tables
        <3>1. {n} \subseteq DOMAIN objects /\ {n} \subseteq ClassParts(objects, n)
            BY <1>1
        <3> QED
            BY <2>2, <3>1, <1>3, <1>10 DEF tables
    <2>3. CASE x \in members
        <3>1. {"val"} \cap Translated = {}
            BY <1>3
        <3> QED
            BY <2>3, <3>1, <1>1, <1>2, <1>10 DEF members
    <2>4. CASE x \in hooks
        <3>1. {"hooks"} \cap Translated = {}
            BY <1>3
        <3> QED
            BY <2>4, <3>1, <1>1, <1>2, <1>10 DEF hooks
    <2>5. CASE x \in bodies
        <3>1. {"val"} \cap Translated = {}
            BY <1>3
        <3> QED
            BY <2>5, <3>1, <1>1, <1>2, <1>10 DEF bodies
    <2> QED
        BY <2>1, <2>2, <2>3, <2>4, <2>5
<1> QED
    BY <1>1, <1>2, <1>6, <1>7, <1>8, <1>9, <1>11

---------------------------------------------------------------------------
\* The script that is loaded is the script that was compiled.  A slot of a block holds
\* what the compiler's holds, until persist has it lead to the copy; serialize turns it
\* into an offset, unserialize into an address.

Slot(im, k, f, i) == k \in DOMAIN im /\ f \in DOMAIN im[k].f /\ i \in DOMAIN im[k].f[f]
\* What slot i of field f of block k is a copy of.
Source(objects, im, k, f, i) == objects[im[k].of[2]].f[f][i]
\* A value as the end of a traversal has it.
Base(ps) == IF ps = "persist" THEN "img" ELSE IF ps = "serialize" THEN "off" ELSE "mem"
Turned(ps, objects, im, pl, s, v) ==
    IF s = Null \/ objects[s[2]].kind = "complex_ast" THEN v = Null
    ELSE IF ps = "persist" \/ objects[s[2]].kind # "str"
    THEN \E j \in DOMAIN im : v = <<Base(ps), j>> /\ im[j].of = s
    ELSE IF ps = "serialize"
    THEN \E n \in 0 .. Len(pl) - 1 : v = <<"pool", n>> /\ pl[n + 1] = s
    ELSE v = <<"interned", s>>
Done(ps, objects, im, pl, k, f, i) ==
    Turned(ps, objects, im, pl, Source(objects, im, k, f, i), im[k].f[f][i])
AllDone(ps, objects, im, pl) ==
    \A k \in DOMAIN im : \A f \in DOMAIN im[k].f : \A i \in DOMAIN im[k].f[f] :
        Done(ps, objects, im, pl, k, f, i)
\* The slot waits to be handled.
Pending(td, k, f, i) ==
    \E e \in Range(td) : e[1][2] = k /\ e[2] = f /\ e[3] = i /\ e[4] # "update"

\* Every block but the script was reached from one before it.
Parents(objects, im) ==
    \A k \in DOMAIN im \ {1} :
        \E j \in DOMAIN im : \E f \in DOMAIN im[j].f \ Translated : \E i \in DOMAIN im[j].f[f] :
            j < k /\ Source(objects, im, j, f, i) = im[k].of
\* The blocks that are found by their place.
Beside(objects, im) ==
    \A k \in DOMAIN im : \A b \in DOMAIN im :
        LET o == objects[im[k].of[2]] IN
        /\ o.kind = "ast_ref" /\ First(o, "ast") = im[b].of => b = k + 1
        /\ \A a \in DOMAIN im :
              o.kind \in {"op_array", "script"} /\ First(o, "opcodes") = im[a].of
                 /\ First(o, "literals") = im[b].of => b = a + 1

\* While persist runs, a slot waits for its turn or has had it; the magic methods of a
\* class have theirs when the class is updated, and then the class and its methods are
\* through; what is translated leads to a class that is in the image already; opcodes,
\* literals and expressions follow each other.
Started(objects, im, pl) ==
    \A k \in DOMAIN im : \A f \in DOMAIN im[k].f : \A i \in DOMAIN im[k].f[f] :
        \/ im[k].f[f][i] = Source(objects, im, k, f, i)
        \/ Done("persist", objects, im, pl, k, f, i)
Awaited(objects, im, pl, td) ==
    \A k \in DOMAIN im : \A f \in DOMAIN im[k].f : \A i \in DOMAIN im[k].f[f] :
        \/ Pending(td, k, f, i)
        \/ Done("persist", objects, im, pl, k, f, i)
        \/ /\ f \in Late
           /\ \E e \in Range(td) : e[4] = "update"
                 /\ Source(objects, im, e[1][2], e[2], e[3]) = im[k].of
Renewed(im, td) ==
    \A e \in Range(td) : im[e[1][2]].kind = "classes" /\ e[2] = "val" /\ e[4] # "update" =>
        \E d \in Range(td) : d[1] = e[1] /\ d[2] = e[2] /\ d[3] = e[3] /\ d[4] = "update"
Ordered(im, td) ==
    \A b \in DOMAIN td : \A c \in DOMAIN td : b < c =>
        /\ im[td[c][1][2]].kind \in {"class", "methods"} /\ td[c][4] \in Copying =>
              td[b][4] # "update" /\ td[b][2] \notin Late
        /\ td[b][2] = "classes" => td[c][1] = <<"img", 1>>
Housed(objects, im, xl) ==
    \A k \in DOMAIN im : \A n \in DOMAIN objects :
        objects[n].kind = "class" /\ im[k].of[2] \in ClassParts(objects, n) =>
            <<"src", n>> \in DOMAIN xl
Lined(objects, im, td) ==
    \A j \in DOMAIN td :
        LET k == td[j][1][2]
            o == objects[im[k].of[2]]
        IN /\ td[j][2] = "opcodes" /\ Field(o, "literals") # <<>> =>
                 j + 1 \in DOMAIN td /\ td[j + 1][1] = td[j][1] /\ td[j + 1][2] = "literals"
           /\ td[j][2] = "literals" =>
                 \/ First(o, "opcodes") = Null
                 \/ j > 1 /\ td[j - 1][1] = td[j][1] /\ td[j - 1][2] = "opcodes"
                 \/ j = 1 /\ im[k].f["opcodes"][1] = <<"img", Len(im)>>
           /\ td[j][2] = "ast" => j = 1 /\ k = Len(im)
Paired(xl) == \A p \in DOMAIN xl : xl[p] = <<"img", xl[p][2]>>

LoadPersist ==
    /\ Started(src, image, pool) /\ Awaited(src, image, pool, todo)
    /\ Renewed(image, todo) /\ Ordered(image, todo)
    /\ Housed(src, image, xlat) /\ Lined(src, image, todo) /\ Paired(xlat)
    /\ pool = <<>>

\* What all the slots of the image have in common.
LEMMA BlockIs ==
    ASSUME NEW objects, IsGraph(objects), NEW im, Blocks(objects, im), NEW k \in DOMAIN im
    PROVE  LET n == im[k].of[2] IN
           /\ im[k].of = <<"src", n>> /\ n \in DOMAIN objects /\ im[k].of # Null
           /\ Alike(im[k], objects[n]) /\ im[k].kind = objects[n].kind
           /\ Shaped(im[k]) /\ Shaped(objects[n])
<1>1. BlockOf(objects, im[k])
    BY DEF Blocks
<1>2. PICK n \in DOMAIN objects : im[k].of = <<"src", n>>
    BY <1>1 DEF BlockOf, SrcPtr
<1>3. im[k].of[2] = n /\ im[k].of # Null
    BY <1>2 DEF Null
<1> QED
    BY <1>1, <1>2, <1>3 DEF BlockOf, Alike, IsGraph

LEMMA SourceIs ==
    ASSUME NEW objects, IsGraph(objects), NEW im, Blocks(objects, im),
           NEW k, NEW f, NEW i, Slot(im, k, f, i)
    PROVE  LET n == im[k].of[2]
               s == Source(objects, im, k, f, i)
           IN /\ n \in DOMAIN objects /\ f \in DOMAIN objects[n].f
              /\ i \in DOMAIN objects[n].f[f] /\ s = objects[n].f[f][i]
              /\ s # Null => SrcPtr(objects, s) /\ s # <<"src", "script">>
                             /\ s = <<"src", s[2]>> /\ s[2] \in DOMAIN objects
<1> DEFINE n == im[k].of[2]
           s == Source(objects, im, k, f, i)
<1>1. n \in DOMAIN objects /\ Alike(im[k], objects[n])
    BY BlockIs DEF Slot
<1>2. f \in DOMAIN objects[n].f /\ i \in DOMAIN objects[n].f[f] /\ s = objects[n].f[f][i]
    BY <1>1 DEF Slot, Alike, Source
<1> HIDE DEF n, s
<1>3. s # Null => SrcPtr(objects, s) /\ s # <<"src", "script">>
    BY <1>1, <1>2 DEF IsGraph
<1>4. SrcPtr(objects, s) => s = <<"src", s[2]>> /\ s[2] \in DOMAIN objects
    BY DEF SrcPtr
<1> QED
    BY <1>1, <1>2, <1>3, <1>4 DEF n, s

\* What Typed says of an object, and of what is like it.
LEMMA TypedSlot ==
    ASSUME NEW objects, Typed(objects, ver), NEW n \in DOMAIN objects,
           NEW f \in DOMAIN objects[n].f, NEW i \in DOMAIN objects[n].f[f],
           Shaped(objects[n])
    PROVE  /\ f \in FieldsOf(objects[n].kind, ver)
           /\ objects[n].f[f][i] # Null =>
                 objects[objects[n].f[f][i][2]].kind \in LeadsTo(objects[n].kind, f)
<1> DEFINE o == objects[n]
<1>1. /\ \A g \in DOMAIN o.f : o.f[g] # <<>> => g \in FieldsOf(o.kind, ver)
      /\ \A g \in DOMAIN o.f : \A j \in DOMAIN o.f[g] :
            o.f[g][j] # Null => objects[o.f[g][j][2]].kind \in LeadsTo(o.kind, g)
    BY DEF Typed
<1>2. o.f[f] # <<>>
    OBVIOUS
<1> QED
    BY <1>1, <1>2

LEMMA FittedIs ==
    ASSUME NEW objects, Typed(objects, ver), NEW n \in DOMAIN objects, Shaped(objects[n]),
           NEW b, Alike(b, objects[n]), Shaped(b)
    PROVE  /\ Fitted(objects[n]) /\ Short(objects[n]) /\ Fitted(b) /\ Short(b)
<1> DEFINE o == objects[n]
<1>1. /\ \A g \in DOMAIN o.f : o.f[g] # <<>> => g \in FieldsOf(o.kind, ver)
      /\ \A g \in DOMAIN o.f \cap {"opcodes", "literals", "ast", "ce"} : Len(o.f[g]) <= 1
    BY DEF Typed
<1> HIDE DEF o
<1>2. ASSUME NEW g \in DOMAIN b.f
      PROVE  /\ g \in DOMAIN o.f /\ DOMAIN b.f[g] = DOMAIN o.f[g]
             /\ b.f[g] # <<>> => o.f[g] # <<>>
             /\ Len(b.f[g]) = Len(o.f[g])
    <2>1. /\ g \in DOMAIN o.f /\ DOMAIN b.f[g] = DOMAIN o.f[g]
          /\ b.f[g] \in Seq(Range(b.f[g])) /\ o.f[g] \in Seq(Range(o.f[g]))
        BY DEF Alike, Shaped, IsSeq, o
    <2> QED
        BY <2>1
<1>3. b.kind = o.kind
    BY DEF Alike, o
<1> QED
    BY <1>1, <1>2, <1>3 DEF Fitted, Short, o

\* Only one slot leads to what is not shared.
LEMMA Sole ==
    ASSUME NEW objects, IsGraph(objects), Unshared(objects),
           NEW im, Blocks(objects, im), Once(im),
           NEW k, NEW f, NEW i, Slot(im, k, f, i), f \notin Translated,
           NEW j, NEW g, NEW h, Slot(im, j, g, h), g \notin Translated,
           Source(objects, im, k, f, i) = Source(objects, im, j, g, h),
           Source(objects, im, k, f, i) # Null,
           objects[Source(objects, im, k, f, i)[2]].kind \notin {"str", "ht"}
    PROVE  k = j /\ f = g /\ i = h
<1> DEFINE n == im[k].of[2]
           m == im[j].of[2]
<1>1. /\ n \in DOMAIN objects /\ f \in DOMAIN objects[n].f /\ i \in DOMAIN objects[n].f[f]
      /\ Source(objects, im, k, f, i) = objects[n].f[f][i]
    BY SourceIs
<1>2. /\ m \in DOMAIN objects /\ g \in DOMAIN objects[m].f /\ h \in DOMAIN objects[m].f[g]
      /\ Source(objects, im, j, g, h) = objects[m].f[g][h]
    BY SourceIs
<1>3. im[k].of = <<"src", n>> /\ im[j].of = <<"src", m>> /\ k \in DOMAIN im /\ j \in DOMAIN im
    BY BlockIs DEF Slot
<1> HIDE DEF n, m
<1> DEFINE p == objects[n].f[f][i]
<1>4. m = n /\ g = f /\ h = i
    <2>1. p # Null /\ objects[p[2]].kind \notin {"str", "ht"} /\ objects[m].f[g][h] = p
        BY <1>1, <1>2
    <2>2. \A m1 \in DOMAIN objects : \A g1 \in DOMAIN objects[m1].f \ Translated :
              \A h1 \in DOMAIN objects[m1].f[g1] :
                  objects[m1].f[g1][h1] = p => m1 = n /\ g1 = f /\ h1 = i
        BY <1>1, <2>1 DEF Unshared
    <2> HIDE DEF p
    <2> QED
        BY <1>2, <2>1, <2>2
<1>5. im[k].of = im[j].of
    BY <1>3, <1>4
<1>6. k = j
    BY <1>3, <1>5 DEF Once
<1> QED
    BY <1>4, <1>6

\* The parts of what has no copy have none.
NoCopy(im, p) == \A k \in DOMAIN im : im[k].of # p
Part(objects, s) == s # Null /\ objects[s[2]].kind \notin {"str", "ht"}
LEMMA NotYet ==
    ASSUME NEW objects, IsGraph(objects), Unshared(objects),
           NEW im, Blocks(objects, im), Parents(objects, im),
           im[1].of = <<"src", "script">>,
           NEW n \in DOMAIN objects, NoCopy(im, <<"src", n>>),
           NEW f \in DOMAIN objects[n].f \ Translated, NEW i \in DOMAIN objects[n].f[f],
           Part(objects, objects[n].f[f][i])
    PROVE  NoCopy(im, objects[n].f[f][i])
<1> SUFFICES ASSUME NEW k \in DOMAIN im, im[k].of = objects[n].f[f][i] PROVE FALSE
    BY DEF NoCopy
<1>1. k # 1
    BY DEF IsGraph, Part
<1>2. PICK j \in DOMAIN im : \E g \in DOMAIN im[j].f \ Translated : \E h \in DOMAIN im[j].f[g] :
            Source(objects, im, j, g, h) = im[k].of
    BY <1>1, Zenon DEF Parents
<1>3. PICK g \in DOMAIN im[j].f \ Translated : \E h \in DOMAIN im[j].f[g] :
            Source(objects, im, j, g, h) = im[k].of
    BY <1>2
<1>4. PICK h \in DOMAIN im[j].f[g] : Source(objects, im, j, g, h) = im[k].of
    BY <1>3
<1> DEFINE m == im[j].of[2]
<1>5. /\ m \in DOMAIN objects /\ g \in DOMAIN objects[m].f /\ h \in DOMAIN objects[m].f[g]
      /\ objects[m].f[g][h] = objects[n].f[f][i]
    BY <1>4, SourceIs DEF Slot
<1>6. im[j].of = <<"src", m>>
    BY BlockIs
<1> HIDE DEF m
<1>7. m = n
    BY <1>3, <1>5 DEF Unshared, Part
<1> QED
    BY <1>6, <1>7 DEF NoCopy

\* What is done stays done when blocks are added.
LEMMA TurnedGrows ==
    ASSUME NEW objects, NEW im, NEW new, Grows(im, new), NEW pl, NEW s, NEW v,
           Turned("persist", objects, im, pl, s, v)
    PROVE  Turned("persist", objects, new, pl, s, v)
BY DEF Turned, Grows

LEMMA SlotGrows ==
    ASSUME NEW objects, NEW im, NEW new, Grows(im, new), NEW k, NEW f, NEW i
    PROVE  /\ Slot(im, k, f, i) => /\ Slot(new, k, f, i)
                                   /\ Source(objects, new, k, f, i) = Source(objects, im, k, f, i)
                                   /\ new[k].of = im[k].of /\ new[k].kind = im[k].kind
           /\ Slot(new, k, f, i) /\ k \in DOMAIN im => Slot(im, k, f, i)
BY DEF Slot, Grows, Alike, Source

LEMMA DoneGrows ==
    ASSUME NEW objects, NEW im, NEW new, Grows(im, new), NEW pl,
           NEW k0, NEW f0, NEW i0, NEW q, Writes(im, new, k0, f0, i0, q),
           Slot(im, k0, f0, i0), Done("persist", objects, new, pl, k0, f0, i0),
           NEW k, NEW f, NEW i, Slot(im, k, f, i), Done("persist", objects, im, pl, k, f, i)
    PROVE  Done("persist", objects, new, pl, k, f, i)
<1>1. CASE k = k0 /\ f = f0 /\ i = i0
    BY <1>1
<1>2. CASE ~ (k = k0 /\ f = f0 /\ i = i0)
    <2>1. new[k].f[f][i] = im[k].f[f][i]
        BY <1>2 DEF Writes, Slot
    <2>2. Source(objects, new, k, f, i) = Source(objects, im, k, f, i)
        BY SlotGrows
    <2> QED
        BY <2>1, <2>2, TurnedGrows DEF Done
<1> QED
    BY <1>1, <1>2

PersistInv ==
    /\ CopyInv /\ pass = "persist"
    /\ Typed(src, ver) /\ Unshared(src) /\ AtHome(src)
    /\ Parents(src, image) /\ Beside(src, image) /\ LoadPersist

\* The slot that is handled, and what it is a copy of.
HeadK == Owner[2]
HeadF == Head(todo)[2]
HeadI == Head(todo)[3]
HeadSource == Source(src, image, HeadK, HeadF, HeadI)

LEMMA HeadMeans ==
    ASSUME PersistInv, todo # <<>>
    PROVE  /\ Slot(image, HeadK, HeadF, HeadI) /\ P = image[HeadK].f[HeadF][HeadI]
           /\ ModeFits(image[HeadK], HeadF, Mode)
           /\ IsSeq(todo) /\ IsSeq(Tail(todo)) /\ Entries("persist", src, image, Tail(todo))
           /\ Head(todo) \in Range(todo)
           /\ P = HeadSource \/ Turned("persist", src, image, pool, HeadSource, P)
           /\ Mode \in Fresh => P = HeadSource
           /\ HeadSource # Null =>
                 /\ SrcPtr(src, HeadSource) /\ HeadSource # <<"src", "script">>
                 /\ HeadSource = <<"src", HeadSource[2]>> /\ HeadSource[2] \in DOMAIN src
                 /\ src[HeadSource[2]].kind \in LeadsTo(image[HeadK].kind, HeadF)
<1>1. TypeInv /\ pass = "persist" /\ IsGraph(src) /\ Blocks(src, image) /\ Typed(src, ver)
    BY DEF PersistInv, CopyInv, TypeInv
<1>2. /\ Slot(image, HeadK, HeadF, HeadI) /\ P = image[HeadK].f[HeadF][HeadI]
      /\ ModeFits(image[HeadK], HeadF, Mode)
      /\ IsSeq(todo) /\ IsSeq(Tail(todo)) /\ Entries("persist", src, image, Tail(todo))
    BY <1>1, HeadIs DEF Entry, Slot, HeadK, HeadF, HeadI, Mode, Owner
<1>3. Head(todo) \in Range(todo)
    BY <1>2, HeadOrTail
<1>4. P = HeadSource \/ Turned("persist", src, image, pool, HeadSource, P)
    BY <1>2 DEF PersistInv, LoadPersist, Started, Slot, HeadSource, Done
<1>5. Mode \in Fresh => P = HeadSource
    BY <1>2, <1>3, <1>1 DEF PersistInv, CopyInv, Untouched, Mode, HeadSource, Source, HeadK,
       HeadF, HeadI, Owner
<1> DEFINE n == image[HeadK].of[2]
<1>6. /\ n \in DOMAIN src /\ HeadF \in DOMAIN src[n].f /\ HeadI \in DOMAIN src[n].f[HeadF]
      /\ HeadSource = src[n].f[HeadF][HeadI]
      /\ HeadSource # Null => SrcPtr(src, HeadSource) /\ HeadSource # <<"src", "script">>
                 /\ HeadSource = <<"src", HeadSource[2]>> /\ HeadSource[2] \in DOMAIN src
    BY <1>1, <1>2, SourceIs DEF HeadSource
<1>7. image[HeadK].kind = src[n].kind /\ Shaped(src[n])
    BY <1>1, <1>2, BlockIs DEF Slot
<1> HIDE DEF n
<1>8. HeadSource # Null => src[HeadSource[2]].kind \in LeadsTo(image[HeadK].kind, HeadF)
    BY <1>1, <1>6, <1>7, TypedSlot
<1> QED
    BY <1>2, <1>3, <1>4, <1>5, <1>6, <1>8

\* Nothing is still to be copied that the xlat table knows by another name.
LEMMA KnownTurned ==
    ASSUME PersistInv, todo # <<>>, P \in DOMAIN xlat, P = HeadSource,
           src[P[2]].kind # "complex_ast"
    PROVE  Turned("persist", src, image, pool, HeadSource, xlat[P])
<1>1. Img(image, xlat[P]) /\ image[xlat[P][2]].of = P
    BY DEF PersistInv, CopyInv, Registered
<1>2. xlat[P] = <<"img", xlat[P][2]>>
    BY DEF PersistInv, LoadPersist, Paired
<1>3. P # Null
    <2>1. IsGraph(src) /\ Blocks(src, image)
        BY DEF PersistInv, CopyInv, TypeInv
    <2> QED
        BY <1>1, <2>1, BlockIs DEF Img
<1>4. /\ xlat[P][2] \in DOMAIN image /\ xlat[P] = <<Base("persist"), xlat[P][2]>>
    BY <1>1, <1>2 DEF Img, Base
<1> QED
    BY <1>1, <1>3, <1>4 DEF Turned

\* A zval slot alone leads to an expression that is dropped.
LEMMA DropIsZval ==
    ASSUME NEW b, NEW f, NEW m, ModeFits(b, f, m), m \in Copying, "complex_ast" \in LeadsTo(b.kind, f)
    PROVE  m = "zval"
<1>1. f \in {"value", "args"} \/ (f = "val" /\ b.kind = "zvals")
    BY DEF LeadsTo, Members, Zvals
<1> QED
    BY <1>1 DEF ModeFits

LEMMA KindOf ==
    ASSUME NEW p, SrcPtr(src, p)
    PROVE  Kind(p) = src[p[2]].kind /\ Obj(p) = src[p[2]] /\ Origin(p) = p /\ p # Null
BY DEF SrcPtr, Kind, IsBlock, Obj, Origin, Null

LEMMA NullTurned ==
    ASSUME PersistInv, PersistNull
    PROVE  Turned("persist", src, image, pool, HeadSource, P) /\ Mode # "update"
<1>1. todo # <<>> /\ P = Null /\ pass = "persist" /\ TypeInv
    BY DEF PersistNull, At, PersistInv, CopyInv
<1>2. Turned("persist", src, image, pool, HeadSource, P)
    BY <1>1, HeadMeans DEF Turned
<1>3. Mode # "update"
    BY <1>1, UpdatedIs DEF Img, Null
<1> QED
    BY <1>2, <1>3

LEMMA AstTurned ==
    ASSUME PersistInv, PersistComplexAst
    PROVE  Turned("persist", src, image, pool, HeadSource, Null) /\ Mode = "zval"
           /\ HeadF # "opcodes"
<1>1. todo # <<>> /\ Mode = "zval" /\ Kind(P) = "complex_ast"
    BY DEF PersistComplexAst, At, Is, Holds
<1>2. P = HeadSource
    BY <1>1, HeadMeans DEF Fresh, Copying
<1>3. P # Null
    BY <1>1 DEF Kind, IsBlock, Null
<1>4. src[HeadSource[2]].kind = "complex_ast"
    BY <1>1, <1>2, <1>3, HeadMeans, KindOf
<1>5. HeadF # "opcodes"
    BY <1>1, <1>2, <1>3, <1>4, HeadMeans DEF LeadsTo
<1> QED
    BY <1>1, <1>4, <1>5 DEF Turned

LEMMA ShareTurned ==
    ASSUME PersistInv, PersistKnown
    PROVE  /\ Turned("persist", src, image, pool, HeadSource, xlat[P])
           /\ Mode \in Copying /\ HeadF # "opcodes"
<1>1. /\ todo # <<>> /\ Mode \in Copying /\ P \in DOMAIN xlat /\ CopyInv /\ pass = "persist"
      /\ Mode = "zval" => ~ Holds({"complex_ast"})
    BY KnownSkips DEF PersistInv, PersistKnown, Shareable, Is, Copying
<1>2. P = HeadSource
    BY <1>1, HeadMeans DEF Fresh
<1>3. Img(image, xlat[P]) /\ image[xlat[P][2]].of = P
    BY <1>1 DEF CopyInv, Registered
<1>4. P # Null
    <2>1. IsGraph(src) /\ Blocks(src, image)
        BY <1>1 DEF CopyInv, TypeInv
    <2> QED
        BY <1>3, <2>1, BlockIs DEF Img
<1>5. src[P[2]].kind # "complex_ast"
    <2> SUFFICES ASSUME src[P[2]].kind = "complex_ast" PROVE FALSE
        OBVIOUS
    <2>1. "complex_ast" \in LeadsTo(image[HeadK].kind, HeadF) /\ ModeFits(image[HeadK], HeadF, Mode)
        BY <1>1, <1>2, <1>4, HeadMeans
    <2>2. Mode = "zval"
        BY <1>1, <2>1, DropIsZval
    <2>3. Kind(P) = "complex_ast"
        BY <1>1, <1>2, <1>4, HeadMeans, KindOf
    <2> QED
        BY <1>1, <2>2, <2>3 DEF Holds
<1>6. Turned("persist", src, image, pool, HeadSource, xlat[P])
    BY <1>1, <1>2, <1>5, KnownTurned
<1>7. HeadF # "opcodes"
    <2> SUFFICES ASSUME HeadF = "opcodes" PROVE FALSE
        OBVIOUS
    <2> DEFINE n == image[HeadK].of[2]
    <2>1. HeadSource = src[n].f[HeadF][HeadI]
        BY DEF HeadSource, Source
    <2>2. Owns(src, n, HeadF, HeadI)
        BY <1>2, <1>4, <2>1 DEF Owns, Owning, Translated
    <2>3. \A k \in DOMAIN image : image[k].of # P
        BY <1>1, <1>4, <2>2, NoTwin DEF HeadK, HeadF, HeadI
    <2> QED
        BY <1>3, <2>3 DEF Img
<1> QED
    BY <1>1, <1>6, <1>7

\* Where an update has come up, the class and its methods are through; where they are, a
\* slot that leads to the part of one block leads to another.
LEMMA LateThrough ==
    ASSUME PersistInv, todo # <<>>, HeadF \in Late,
           NEW k, NEW f, NEW i, Slot(image, k, f, i), image[k].kind \in {"class", "methods"},
           f \notin Late, f \notin Translated,
           NEW s, s = Source(src, image, k, f, i), s # Null, src[s[2]].kind # "complex_ast"
    PROVE  \E j \in DOMAIN image : image[j].of = s
<1>1. \/ Pending(todo, k, f, i)
      \/ Done("persist", src, image, pool, k, f, i)
    BY DEF PersistInv, LoadPersist, Awaited, Slot
<1>2. ~ Pending(todo, k, f, i)
    <2> SUFFICES ASSUME Pending(todo, k, f, i) PROVE FALSE
        OBVIOUS
    <2>1. PICK e \in Range(todo) : e[1][2] = k /\ e[2] = f /\ e[3] = i /\ e[4] # "update"
        BY DEF Pending
    <2>2. PICK c \in DOMAIN todo : todo[c] = e
        BY DEF Range
    <2>3. /\ Head(todo) = todo[1] /\ 1 \in DOMAIN todo /\ DOMAIN todo = 1 .. Len(todo)
        BY HeadMeans, TailIs, IsSeqParts
    <2>4. c # 1
        BY <2>1, <2>2, <2>3 DEF HeadF
    <2>5. 1 < c
        BY <2>2, <2>3, <2>4
    <2>6. Entry("persist", src, image, e)
        BY DEF PersistInv, CopyInv, TypeInv, Entries
    <2>7. ModeFits(image[k], f, e[4])
        BY <2>1, <2>6 DEF Entry
    <2>8. e[4] \in Copying
        BY <2>1, <2>7 DEF ModeFits, Translated
    <2>9. todo[1][2] \notin Late
        BY <2>1, <2>2, <2>3, <2>5, <2>8 DEF PersistInv, LoadPersist, Ordered
    <2> QED
        BY <2>3, <2>9 DEF HeadF
<1>3. Turned("persist", src, image, pool, s, image[k].f[f][i])
    BY <1>1, <1>2 DEF Done
<1> QED
    BY <1>3 DEF Turned

\* The methods of a class that are in the image are in the xlat table.
LEMMA MethodKnown ==
    ASSUME PersistInv, NEW k \in DOMAIN image,
           NEW m \in DOMAIN src, src[m].kind = "methods",
           "val" \in DOMAIN src[m].f, NEW i \in DOMAIN src[m].f["val"],
           image[k].of = src[m].f["val"][i]
    PROVE  image[k].of \in DOMAIN xlat
<1>1. /\ IsGraph(src) /\ Blocks(src, image) /\ Reached(src, image, xlat) /\ Owned(src)
      /\ image[1].of = <<"src", "script">>
    BY DEF PersistInv, CopyInv, TypeInv
<1>2. image[k].of # Null
    BY <1>1, BlockIs
<1>3. k # 1
    BY <1>1, <1>2 DEF IsGraph
<1>4. PICK j \in DOMAIN image : \E f \in DOMAIN image[j].f : \E h \in DOMAIN image[j].f[f] :
           Made(src, image, xlat, k, j, f, h)
    BY <1>1, <1>3 DEF Reached
<1>5. PICK f \in DOMAIN image[j].f : \E h \in DOMAIN image[j].f[f] :
           Made(src, image, xlat, k, j, f, h)
    BY <1>4
<1>6. PICK h \in DOMAIN image[j].f[f] : Made(src, image, xlat, k, j, f, h)
    BY <1>5
<1> SUFFICES ASSUME image[k].of \notin DOMAIN xlat PROVE FALSE
    OBVIOUS
<1> DEFINE n == image[j].of[2]
<1>7. Owns(src, n, f, h) /\ src[n].f[f][h] = image[k].of /\ f \notin Translated
    BY <1>6 DEF Made
<1>8. n \in DOMAIN src /\ f \in DOMAIN src[n].f /\ h \in DOMAIN src[n].f[f] /\ Shaped(src[n])
    BY <1>1, SourceIs, BlockIs DEF Slot
<1> HIDE DEF n
<1>9. "val" \in DOMAIN src[m].f \ Translated
    BY DEF Translated
<1>10. m = n /\ f = "val"
    BY <1>1, <1>7, <1>8, <1>9 DEF Owned
<1>11. src[image[k].of[2]].kind \in LeadsTo("methods", "val")
    BY <1>2, <1>7, <1>8, <1>10, TypedSlot DEF PersistInv
<1>12. src[image[k].of[2]].kind # "types"
    BY <1>11 DEF LeadsTo, Members
<1> QED
    BY <1>7, <1>10, <1>12 DEF Owns, Owning

LEMMA PropertyKnown ==
    ASSUME PersistInv, NEW k \in DOMAIN image, image[k].kind = "prop"
    PROVE  image[k].of \in DOMAIN xlat
<1>1. /\ IsGraph(src) /\ Blocks(src, image) /\ Reached(src, image, xlat) /\ Owned(src)
      /\ image[1].of = <<"src", "script">>
    BY DEF PersistInv, CopyInv, TypeInv
<1>2. image[k].of # Null /\ src[image[k].of[2]].kind = "prop"
    BY <1>1, BlockIs
<1>3. k # 1
    BY <1>1, <1>2 DEF IsGraph
<1>4. PICK j \in DOMAIN image : \E f \in DOMAIN image[j].f : \E h \in DOMAIN image[j].f[f] :
           Made(src, image, xlat, k, j, f, h)
    BY <1>1, <1>3 DEF Reached
<1>5. PICK f \in DOMAIN image[j].f : \E h \in DOMAIN image[j].f[f] :
           Made(src, image, xlat, k, j, f, h)
    BY <1>4
<1>6. PICK h \in DOMAIN image[j].f[f] : Made(src, image, xlat, k, j, f, h)
    BY <1>5
<1> SUFFICES ASSUME image[k].of \notin DOMAIN xlat PROVE FALSE
    OBVIOUS
<1> DEFINE n == image[j].of[2]
<1>7. Owns(src, n, f, h) /\ src[n].f[f][h] = image[k].of /\ f \notin Translated
    BY <1>6 DEF Made
<1>8. n \in DOMAIN src /\ f \in DOMAIN src[n].f /\ h \in DOMAIN src[n].f[f] /\ Shaped(src[n])
    BY <1>1, SourceIs, BlockIs DEF Slot
<1> HIDE DEF n
<1>9. "prop" \in LeadsTo(src[n].kind, f)
    BY <1>2, <1>7, <1>8, TypedSlot DEF PersistInv
<1>10. f = "val" /\ src[n].kind = "props"
    BY <1>7, <1>9 DEF LeadsTo, Members, Zvals, Translated
<1> QED
    BY <1>2, <1>7, <1>10 DEF Owns, Owning

\* What is translated is in the xlat table, unless it has been translated already.
LEMMA TranslatedKnown ==
    ASSUME PersistInv, todo # <<>>, HeadF \in Translated, HeadSource # Null
    PROVE  HeadSource \in DOMAIN xlat
<1> DEFINE n == image[HeadK].of[2]
           p == HeadSource
<1>1. IsGraph(src) /\ Blocks(src, image) /\ Slot(image, HeadK, HeadF, HeadI)
    BY HeadMeans DEF PersistInv, CopyInv, TypeInv
<1>2. /\ n \in DOMAIN src /\ HeadF \in DOMAIN src[n].f /\ HeadI \in DOMAIN src[n].f[HeadF]
      /\ p = src[n].f[HeadF][HeadI] /\ p = <<"src", p[2]>> /\ p[2] \in DOMAIN src
      /\ p # <<"src", "script">>
    BY <1>1, SourceIs, HeadMeans DEF HeadSource
<1>3. /\ image[HeadK].of = <<"src", n>> /\ image[HeadK].kind = src[n].kind /\ Shaped(src[n])
      /\ HeadK \in DOMAIN image
    BY <1>1, BlockIs DEF Slot
<1>4. src[p[2]].kind \in LeadsTo(src[n].kind, HeadF) /\ HeadF \in FieldsOf(src[n].kind, ver)
    BY <1>2, <1>3, TypedSlot DEF PersistInv
<1>5. /\ HeadF \in {"scope", "ce"} => n \in ClassParts(src, p[2])
      /\ HeadF = "prototype" => p = <<"src", n>>
      /\ HeadF \notin {"scope", "ce", "prototype"} =>
            p[2] \in Under(src, Under(src, {n}, {"methods"}), {"val"})
    BY <1>2 DEF PersistInv, AtHome
<1> HIDE DEF n, p
<1>6. CASE HeadF \in {"scope", "ce"}
    <2>1. src[p[2]].kind = "class"
        BY <1>4, <1>6 DEF LeadsTo
    <2>2. n \in ClassParts(src, p[2])
        BY <1>5, <1>6
    <2> QED
        BY <1>2, <1>3, <2>1, <2>2 DEF PersistInv, LoadPersist, Housed, p, n
<1>7. CASE HeadF = "prototype"
    <2>1. p = image[HeadK].of
        BY <1>3, <1>5, <1>7
    <2>2. src[n].kind = "prop"
        BY <1>4, <1>7, <2>1, <1>3, <1>2 DEF LeadsTo
    <2>3. image[HeadK].kind = "prop"
        BY <1>3, <2>2
    <2> QED
        BY <1>3, <2>1, <2>3, PropertyKnown DEF p
<1>8. CASE HeadF \notin {"scope", "ce", "prototype"}
    <2>1. HeadF \in Late
        BY <1>8 DEF Translated, Late
    <2>2. p[2] \in Under(src, Under(src, {n}, {"methods"}), {"val"})
        BY <1>5, <1>8
    <2>3. PICK m \in Under(src, {n}, {"methods"}) :
              "val" \in DOMAIN src[m].f /\ \E i \in DOMAIN src[m].f["val"] :
                  src[m].f["val"][i] = p
        BY <2>2, <1>2 DEF Under, Range
    <2>4. PICK i \in DOMAIN src[m].f["val"] : src[m].f["val"][i] = p
        BY <2>3
    <2>5. /\ m \in DOMAIN src /\ "methods" \in DOMAIN src[n].f
          /\ \E h \in DOMAIN src[n].f["methods"] : src[n].f["methods"][h] = <<"src", m>>
        BY DEF Under, Range
    <2>6. PICK h \in DOMAIN src[n].f["methods"] : src[n].f["methods"][h] = <<"src", m>>
        BY <2>5
    <2>7. src[n].kind = "class"
        BY <1>4, <2>1, SMT DEF FieldsOf, OpArrayFields, Tables, Late
    <2>8. <<"src", m>> # Null /\ <<"src", m>>[2] = m
        BY DEF Null
    <2>9. src[m].kind = "methods"
        <3>1. src[m].kind \in LeadsTo(src[n].kind, "methods")
            <4>1. src[n].f["methods"][h] # Null /\ src[n].f["methods"][h][2] = m
                BY <2>6, <2>8
            <4> QED
                BY <1>2, <1>3, <2>5, <2>6, <4>1, TypedSlot DEF PersistInv
        <3> QED
            BY <3>1 DEF LeadsTo
    <2>10. Alike(image[HeadK], src[n])
        BY <1>1, <1>3, BlockIs DEF n
    <2>11. Slot(image, HeadK, "methods", h)
           /\ Source(src, image, HeadK, "methods", h) = <<"src", m>>
        BY <1>3, <2>5, <2>6, <2>10 DEF Slot, Source, Alike, n
    <2>12. PICK j \in DOMAIN image : image[j].of = <<"src", m>>
        BY <1>3, <2>1, <2>7, <2>8, <2>9, <2>11, LateThrough DEF Late, Translated
    <2>13. /\ Alike(image[j], src[m]) /\ image[j].kind = "methods" /\ image[j].of[2] = m
        BY <1>1, <2>9, <2>12, <2>8, BlockIs DEF Alike
    <2>14. Slot(image, j, "val", i) /\ Source(src, image, j, "val", i) = p
        BY <2>3, <2>4, <2>12, <2>13 DEF Slot, Source, Alike
    <2>15. src[p[2]].kind # "complex_ast" /\ p # Null
        <3>1. src[p[2]].kind \in {"op_array"}
            BY <1>4, <2>1 DEF LeadsTo, Late
        <3> QED
            BY <3>1, <1>2 DEF Null
    <2>16. PICK k \in DOMAIN image : image[k].of = p
        BY <2>1, <2>13, <2>14, <2>15, LateThrough DEF Late, Translated
    <2> QED
        BY <2>3, <2>4, <2>5, <2>9, <2>16, MethodKnown DEF p
<1> QED
    BY <1>6, <1>7, <1>8

LEMMA TranslateTurned ==
    ASSUME PersistInv, PersistTranslate
    PROVE  LET q == IF P \in DOMAIN xlat THEN xlat[P] ELSE IF Is("xlat") THEN Null ELSE P IN
           /\ Turned("persist", src, image, pool, HeadSource, q)
           /\ Mode \in {"xlat", "patch"} /\ HeadF # "opcodes"
<1> DEFINE q == IF P \in DOMAIN xlat THEN xlat[P] ELSE IF Is("xlat") THEN Null ELSE P
<1>1. todo # <<>> /\ P # Null /\ Mode \in {"xlat", "patch"}
    BY DEF PersistTranslate, At, Is
<1>2. HeadF \in Translated
    BY <1>1, HeadMeans DEF ModeFits, Translated
<1>3. HeadF # "opcodes"
    BY <1>2 DEF Translated
<1>4. CASE P = HeadSource
    <2>1. P \in DOMAIN xlat
        BY <1>1, <1>2, <1>4, TranslatedKnown
    <2>2. src[P[2]].kind # "complex_ast"
        BY <1>1, <1>2, <1>4, HeadMeans DEF LeadsTo, Translated
    <2> QED
        BY <1>1, <1>3, <1>4, <2>1, <2>2, KnownTurned
<1>5. CASE P # HeadSource
    <2>1. Turned("persist", src, image, pool, HeadSource, P) /\ Mode \notin Fresh
        BY <1>1, <1>5, HeadMeans
    <2>2. Mode = "patch"
        BY <1>1, <2>1 DEF Fresh
    <2>3. P \notin DOMAIN xlat
        <3>1. P[1] = "img"
            BY <1>1, <2>1 DEF Turned, Base
        <3>2. ASSUME P \in DOMAIN xlat PROVE SrcPtr(src, P)
            BY <3>2 DEF PersistInv, CopyInv, TypeInv, Registered, Img, Blocks, BlockOf
        <3> QED
            BY <3>1, <3>2 DEF SrcPtr
    <2> QED
        BY <1>1, <1>3, <2>1, <2>2, <2>3 DEF Is
<1> QED
    BY <1>4, <1>5

\* What a step of persist does: the slot has had its turn; the slots that wait are one
\* less, those of a class to update more, or those of a new block more.
Advances(q) ==
    /\ Grows(image, image') /\ Writes(image, image', HeadK, HeadF, HeadI, q)
    /\ Turned("persist", src, image', pool, HeadSource, q)
    /\ src' = src /\ ver' = ver /\ pass' = pass /\ pool' = pool
    /\ DOMAIN xlat \subseteq DOMAIN xlat'
Fills ==
    /\ todo # <<>> /\ \E q : Advances(q)
    /\ DOMAIN image' = DOMAIN image /\ Len(image') = Len(image)
    /\ todo' = Tail(todo) /\ xlat' = xlat
    /\ Mode # "update" /\ (HeadF = "opcodes" => HeadSource = Null)
Updates ==
    /\ todo # <<>> /\ Advances(P)
    /\ image' = image /\ xlat' = xlat
    /\ Mode = "update" /\ HeadF = "val" /\ image[HeadK].kind = "classes"
    /\ P = <<"img", P[2]>> /\ P[2] \in DOMAIN image /\ image[P[2]].of = HeadSource
    /\ image[P[2]].kind = "class" /\ Shaped(image[P[2]])
    /\ todo' = Of(P, UpdateClass(image[P[2]])) \o Tail(todo)
Adds ==
    LET k == Len(image) + 1
        o == src[HeadSource[2]]
    IN /\ todo # <<>> /\ Advances(<<"img", k>>) /\ Mode \in Copying
       /\ Len(image) \in Nat /\ k \notin DOMAIN image /\ DOMAIN image' = DOMAIN image \cup {k}
       /\ Len(image') = k
       /\ HeadSource # Null /\ HeadF \notin Translated
       /\ HeadSource = <<"src", HeadSource[2]>> /\ HeadSource[2] \in DOMAIN src
       /\ HeadSource # <<"src", "script">>
       /\ o.kind \in LeadsTo(image[HeadK].kind, HeadF)
       /\ image'[k].of = HeadSource /\ image'[k].f = o.f /\ image'[k].kind = o.kind
       /\ NoCopy(image, HeadSource)
       /\ todo' = Of(<<"img", k>>, PersistSlots(o)) \o Tail(todo)
       /\ PersistFine(o, PersistSlots(o)) /\ ~ Passed(o)
       /\ (xlat' = xlat /\ Mode = "data") \/ Register(HeadSource, <<"img", k>>)

LEMMA TurnedIn ==
    ASSUME NEW new, Grows(image, new), NEW q, Turned("persist", src, image, pool, HeadSource, q)
    PROVE  Turned("persist", src, new, pool, HeadSource, q)
BY TurnedGrows

LEMMA PersistFills ==
    ASSUME PersistInv, PersistNull \/ PersistComplexAst \/ PersistKnown \/ PersistTranslate
    PROVE  Fills
<1>1. /\ todo # <<>> /\ pass = "persist" /\ TypeInv /\ Blocks(src, image)
      /\ Slot(image, HeadK, HeadF, HeadI) /\ P = image[HeadK].f[HeadF][HeadI]
    BY HeadMeans DEF PersistNull, PersistComplexAst, PersistKnown, PersistTranslate, At,
       PersistInv, CopyInv, TypeInv
<1>2. CASE PersistNull
    <2>1. /\ Turned("persist", src, image, pool, HeadSource, P) /\ Mode # "update" /\ P = Null
          /\ image' = image /\ todo' = Tail(todo) /\ xlat' = xlat
          /\ src' = src /\ ver' = ver /\ pass' = pass /\ pool' = pool
        BY <1>2, NullTurned DEF PersistNull, Skip
    <2>2. Grows(image, image') /\ Writes(image, image', HeadK, HeadF, HeadI, P)
        BY <1>1, <2>1 DEF Grows, Writes, Alike
    <2>3. HeadF = "opcodes" => HeadSource = Null
        BY <1>1, <2>1, HeadMeans DEF ModeFits, Fresh
    <2> QED
        BY <1>1, <2>1, <2>2, <2>3 DEF Fills, Advances
<1>3. CASE PersistComplexAst \/ PersistKnown \/ PersistTranslate
    <2>1. \E q : /\ image' = Set(image, q) /\ Turned("persist", src, image, pool, HeadSource, q)
                 /\ Mode # "update" /\ HeadF # "opcodes" /\ todo' = Tail(todo) /\ xlat' = xlat
                 /\ src' = src /\ ver' = ver /\ pass' = pass /\ pool' = pool
        <3>1. CASE PersistComplexAst
            BY <3>1, AstTurned DEF PersistComplexAst, Skip
        <3>2. CASE PersistKnown
            <4>1. CopyInv
                BY DEF PersistInv
            <4>2. /\ image' = Set(image, xlat[P]) /\ todo' = Tail(todo) /\ xlat' = xlat
                  /\ src' = src /\ ver' = ver /\ pass' = pass /\ pool' = pool
                BY <3>2, <4>1, KnownSkips
            <4>3. Mode # "update"
                BY <3>2, ShareTurned DEF Copying
            <4> QED
                BY <3>2, <4>2, <4>3, ShareTurned, Zenon
        <3>3. CASE PersistTranslate
            <4> DEFINE q == IF P \in DOMAIN xlat THEN xlat[P] ELSE IF Is("xlat") THEN Null ELSE P
            <4>1. /\ image' = Set(image, q) /\ todo' = Tail(todo) /\ xlat' = xlat
                  /\ src' = src /\ ver' = ver /\ pass' = pass /\ pool' = pool
                BY <3>3 DEF PersistTranslate, Skip
            <4>2. /\ Turned("persist", src, image, pool, HeadSource, q)
                  /\ Mode # "update" /\ HeadF # "opcodes"
                BY <3>3, TranslateTurned
            <4> HIDE DEF q
            <4> QED
                BY <4>1, <4>2, Zenon
        <3> QED
            BY <1>3, <3>1, <3>2, <3>3
    <2>2. PICK q : /\ image' = Set(image, q) /\ Turned("persist", src, image, pool, HeadSource, q)
                 /\ Mode # "update" /\ HeadF # "opcodes" /\ todo' = Tail(todo) /\ xlat' = xlat
                 /\ src' = src /\ ver' = ver /\ pass' = pass /\ pool' = pool
        BY <2>1
    <2>3. image' = Put(image, HeadK, HeadF, HeadI, q)
        BY <2>2 DEF Set, Put, HeadK, HeadF, HeadI
    <2>4. /\ Grows(image, image') /\ DOMAIN image' = DOMAIN image /\ Len(image') = Len(image)
          /\ Writes(image, image', HeadK, HeadF, HeadI, q)
        BY <1>1, <2>3, SetIs DEF Slot
    <2>5. Turned("persist", src, image', pool, HeadSource, q)
        BY <2>2, <2>4, TurnedIn
    <2>6. Advances(q)
        BY <2>2, <2>4, <2>5 DEF Advances
    <2> QED
        BY <1>1, <2>2, <2>4, <2>6, Zenon DEF Fills
<1> QED
    BY <1>2, <1>3

LEMMA PersistUpdates ==
    ASSUME PersistInv, PersistUpdate
    PROVE  Updates
<1>1. /\ todo # <<>> /\ pass = "persist" /\ TypeInv /\ Blocks(src, image) /\ IsGraph(src)
      /\ Slot(image, HeadK, HeadF, HeadI) /\ P = image[HeadK].f[HeadF][HeadI]
      /\ Mode = "update" /\ image' = image /\ xlat' = xlat
      /\ src' = src /\ ver' = ver /\ pass' = pass /\ pool' = pool
    BY HeadMeans DEF PersistUpdate, At, Is, PersistInv, CopyInv, TypeInv
<1>2. Img(image, P) /\ Obj(P) = image[P[2]] /\ Shaped(Obj(P))
    BY <1>1, UpdatedIs
<1>3. HeadF = "val" /\ image[HeadK].kind = "classes"
    BY <1>1, HeadMeans DEF ModeFits
<1>4. Turned("persist", src, image, pool, HeadSource, P)
    <2>1. P # HeadSource
        BY <1>1, <1>2, HeadMeans DEF Img, SrcPtr, Null
    <2> QED
        BY <1>1, <2>1, HeadMeans
<1>5. P # Null
    BY <1>2 DEF Img, Null
<1>6. P = <<"img", P[2]>> /\ image[P[2]].of = HeadSource /\ HeadSource # Null
    BY <1>4, <1>5 DEF Turned, Base
<1>7. src[HeadSource[2]].kind = "class"
    BY <1>1, <1>3, <1>6, HeadMeans DEF LeadsTo, Members
<1>8. image[P[2]].kind = "class"
    BY <1>1, <1>2, <1>6, <1>7, BlockIs DEF Img
<1>9. Grows(image, image') /\ Writes(image, image', HeadK, HeadF, HeadI, P)
    BY <1>1 DEF Grows, Writes, Alike
<1>10. todo' = Of(P, UpdateClass(image[P[2]])) \o Tail(todo)
    BY <1>2 DEF PersistUpdate, Descend
<1> QED
    BY <1>1, <1>2, <1>3, <1>4, <1>6, <1>8, <1>9, <1>10 DEF Updates, Advances, Img

LEMMA PersistAdds ==
    ASSUME PersistInv, PersistCopy \/ PersistData
    PROVE  Adds
<1> DEFINE k == Len(image) + 1
           o == src[HeadSource[2]]
<1>1. /\ At("persist") /\ todo # <<>> /\ CopyInv /\ TypeInv /\ P # Null /\ Copy /\ pass = "persist"
      /\ Mode \in Copying /\ (Mode = "zval" => ~ Holds({"complex_ast"}))
      /\ src' = src /\ ver' = ver /\ pass' = pass /\ pool' = pool
      /\ \/ PersistCopy /\ P \notin DOMAIN xlat /\ Register(P, <<"img", k>>)
         \/ PersistData /\ Mode = "data" /\ xlat' = xlat
    BY DEF PersistCopy, PersistData, At, Is, Shareable, Copying, PersistInv, CopyInv
<1>2. /\ P = HeadSource /\ SrcPtr(src, P) /\ P # <<"src", "script">> /\ P = <<"src", P[2]>>
      /\ P[2] \in DOMAIN src /\ o.kind \in LeadsTo(image[HeadK].kind, HeadF)
      /\ Slot(image, HeadK, HeadF, HeadI) /\ ModeFits(image[HeadK], HeadF, Mode)
    BY <1>1, HeadMeans DEF Fresh
<1>3. Obj(P) = o /\ Kind(P) = o.kind /\ Origin(P) = P
    BY <1>2, KindOf
<1>4. /\ Grows(image, image') /\ k \notin DOMAIN image
      /\ DOMAIN image' = DOMAIN image \cup {k} /\ Len(image') = k /\ Len(image) \in Nat
      /\ Writes(image, image', HeadK, HeadF, HeadI, <<"img", k>>)
      /\ image'[k].of = P /\ image'[k].f = o.f /\ PersistFine(o, PersistSlots(o))
    BY <1>1, <1>3, CopyIs DEF HeadK, HeadF, HeadI
<1> HIDE DEF k
<1>5. image'[k].kind = o.kind
    <2>1. TypeInv'
        BY TypeStep, <1>1 DEF Next
    <2>2. IsGraph(src) /\ Blocks(src, image')
        BY <1>1, <2>1 DEF TypeInv
    <2>3. image'[k].kind = src[image'[k].of[2]].kind
        BY <1>4, <2>2, BlockIs
    <2> QED
        BY <1>2, <1>4, <2>3
<1>6. todo' = Of(<<"img", k>>, PersistSlots(o)) \o Tail(todo)
    BY <1>1, <1>3 DEF Copy, Descend, k
<1>7. HeadF \notin Translated
    BY <1>1, <1>2 DEF ModeFits
<1>8. o.kind # "complex_ast"
    <2> SUFFICES ASSUME o.kind = "complex_ast" PROVE FALSE
        OBVIOUS
    <2>1. Mode = "zval"
        BY <1>1, <1>2, DropIsZval
    <2> QED
        BY <1>1, <1>3, <2>1 DEF Holds
<1>9. Turned("persist", src, image', pool, HeadSource, <<"img", k>>)
    BY <1>1, <1>2, <1>4, <1>8 DEF Turned, Base
<1>10. NoCopy(image, P)
    <2>1. CASE PersistCopy /\ P \notin DOMAIN xlat
        BY <1>1, <2>1, NoTwin DEF NoCopy
    <2>2. CASE Mode = "data"
        <3>1. Owns(src, image[Owner[2]].of[2], Head(todo)[2], Head(todo)[3])
            BY <1>1, <2>2, CopyOwnSlot
        <3> QED
            BY <1>1, <3>1, NoTwin DEF NoCopy
    <2> QED
        BY <1>1, <2>1, <2>2
<1>11. ~ Passed(o)
    <2> SUFFICES ASSUME Passed(o) PROVE FALSE
        OBVIOUS
    <2> DEFINE n == P[2]
               x == First(o, "opcodes")
    <2>1. /\ x \in DOMAIN xlat /\ IsGraph(src) /\ Blocks(src, image) /\ Registered(image, xlat)
          /\ Unshared(src) /\ Parents(src, image) /\ image[1].of = <<"src", "script">>
          /\ Typed(src, ver)
        BY <1>1 DEF Passed, OpcodesKnown, PersistInv, CopyInv, TypeInv
    <2>2. Img(image, xlat[x]) /\ image[xlat[x][2]].of = x
        BY <2>1 DEF Registered
    <2>3. x # Null
        BY <2>1, <2>2, BlockIs DEF Img
    <2>4. "opcodes" \in DOMAIN o.f /\ x = o.f["opcodes"][1] /\ o.f["opcodes"] # <<>>
        BY <2>3 DEF First, Field
    <2>5. Shaped(o)
        BY <1>2, <2>1 DEF IsGraph
    <2>6. 1 \in DOMAIN o.f["opcodes"]
        <3>1. IsSeq(o.f["opcodes"])
            BY <2>4, <2>5 DEF Shaped
        <3> QED
            BY <2>4, <3>1, TailIs
    <2>7. src[x[2]].kind = "opcodes"
        <3>1. src[x[2]].kind \in LeadsTo(o.kind, "opcodes")
            BY <1>2, <2>1, <2>3, <2>4, <2>5, <2>6, TypedSlot
        <3> QED
            BY <3>1 DEF LeadsTo
    <2>8. o = src[n] /\ n \in DOMAIN src /\ NoCopy(image, <<"src", n>>)
        BY <1>2, <1>10
    <2> HIDE DEF n, x, o
    <2>9. NoCopy(image, x)
        <3>1. /\ "opcodes" \in DOMAIN src[n].f \ Translated
              /\ 1 \in DOMAIN src[n].f["opcodes"] /\ src[n].f["opcodes"][1] = x
              /\ Part(src, x)
            BY <2>3, <2>4, <2>6, <2>7, <2>8 DEF Part, Translated
        <3> QED
            BY <2>1, <2>8, <3>1, NotYet
    <2> QED
        BY <2>2, <2>9 DEF NoCopy, Img
<1>12. (xlat' = xlat /\ Mode = "data") \/ Register(HeadSource, <<"img", k>>)
    BY <1>1, <1>2 DEF k
<1>13. DOMAIN xlat \subseteq DOMAIN xlat'
    BY <1>12 DEF Register
<1>14. Advances(<<"img", k>>)
    BY <1>1, <1>4, <1>9, <1>13 DEF Advances
<1> HIDE DEF o
<1> QED
    BY <1>1, <1>2, <1>4, <1>5, <1>6, <1>7, <1>10, <1>11, <1>12, <1>14 DEF Adds, k, o

\* What each of these steps keeps, part by part.
LEMMA Advanced ==
    ASSUME PersistInv, todo # <<>>, NEW q, Advances(q)
    PROVE  /\ Done("persist", src, image', pool, HeadK, HeadF, HeadI)
           /\ Slot(image, HeadK, HeadF, HeadI)
           /\ \A k, f, i : Slot(image, k, f, i) =>
                 /\ Slot(image', k, f, i)
                 /\ Source(src, image', k, f, i) = Source(src, image, k, f, i)
                 /\ image'[k].of = image[k].of /\ image'[k].kind = image[k].kind
                 /\ \/ k = HeadK /\ f = HeadF /\ i = HeadI
                    \/ image'[k].f[f][i] = image[k].f[f][i]
                 /\ Done("persist", src, image, pool, k, f, i) =>
                       Done("persist", src, image', pool, k, f, i)
           /\ \A k, f, i : Slot(image', k, f, i) /\ k \in DOMAIN image => Slot(image, k, f, i)
           /\ \A k \in DOMAIN image : /\ k \in DOMAIN image' /\ image'[k].of = image[k].of
                                      /\ image'[k].kind = image[k].kind
<1>1. /\ Grows(image, image') /\ Writes(image, image', HeadK, HeadF, HeadI, q)
      /\ Turned("persist", src, image', pool, HeadSource, q)
    BY DEF Advances
<1>2. Slot(image, HeadK, HeadF, HeadI)
    BY HeadMeans
<1>3. Done("persist", src, image', pool, HeadK, HeadF, HeadI)
    <2>1. image'[HeadK].f[HeadF][HeadI] = q
        BY <1>1, <1>2 DEF Writes, Slot
    <2>2. Source(src, image', HeadK, HeadF, HeadI) = HeadSource
        BY <1>1, <1>2, SlotGrows DEF HeadSource
    <2> QED
        BY <1>1, <2>1, <2>2 DEF Done
<1>4. ASSUME NEW k, NEW f, NEW i, Slot(image, k, f, i)
      PROVE  /\ Slot(image', k, f, i)
             /\ Source(src, image', k, f, i) = Source(src, image, k, f, i)
             /\ image'[k].of = image[k].of /\ image'[k].kind = image[k].kind
             /\ \/ k = HeadK /\ f = HeadF /\ i = HeadI
                \/ image'[k].f[f][i] = image[k].f[f][i]
             /\ Done("persist", src, image, pool, k, f, i) =>
                   Done("persist", src, image', pool, k, f, i)
    <2>1. Done("persist", src, image, pool, k, f, i) => Done("persist", src, image', pool, k, f, i)
        BY <1>1, <1>2, <1>3, <1>4, DoneGrows
    <2>2. \/ k = HeadK /\ f = HeadF /\ i = HeadI
          \/ image'[k].f[f][i] = image[k].f[f][i]
        BY <1>1, <1>4 DEF Writes, Slot
    <2> QED
        BY <1>1, <1>4, <2>1, <2>2, SlotGrows
<1>5. \A k, f, i : Slot(image', k, f, i) /\ k \in DOMAIN image => Slot(image, k, f, i)
    BY <1>1, SlotGrows
<1>6. \A k \in DOMAIN image : /\ k \in DOMAIN image' /\ image'[k].of = image[k].of
                              /\ image'[k].kind = image[k].kind
    BY <1>1 DEF Grows, Alike
<1> QED
    BY <1>2, <1>3, <1>4, <1>5, <1>6

\* The steps of persist all advance.
LEMMA StepAdvances ==
    ASSUME PersistInv, Fills \/ Updates \/ Adds
    PROVE  /\ todo # <<>> /\ \E q : Advances(q)
           /\ src' = src /\ ver' = ver /\ pass' = pass /\ pool' = pool
           /\ DOMAIN xlat \subseteq DOMAIN xlat'
           /\ Fills \/ Updates => DOMAIN image' = DOMAIN image
           /\ Adds => DOMAIN image' = DOMAIN image \cup {Len(image) + 1}
<1>1. /\ todo # <<>> /\ \E q : Advances(q)
      /\ Fills \/ Updates => DOMAIN image' = DOMAIN image
      /\ Adds => DOMAIN image' = DOMAIN image \cup {Len(image) + 1}
    BY DEF Fills, Updates, Adds
<1> QED
    BY <1>1 DEF Advances

\* The new block holds what the compiler's object holds.
LEMMA AddedSlots ==
    ASSUME PersistInv, Adds, NEW f, NEW i, Slot(image', Len(image) + 1, f, i)
    PROVE  LET k == Len(image) + 1
               o == src[HeadSource[2]]
           IN /\ f \in DOMAIN o.f /\ i \in DOMAIN o.f[f]
              /\ image'[k].f[f][i] = o.f[f][i]
              /\ Source(src, image', k, f, i) = o.f[f][i]
BY DEF Adds, Slot, Source

LEMMA StartedStep ==
    ASSUME PersistInv, Fills \/ Updates \/ Adds
    PROVE  Started(src, image', pool)
<1>1. PICK q : Advances(q)
    BY StepAdvances
<1> SUFFICES ASSUME NEW k \in DOMAIN image', NEW f \in DOMAIN image'[k].f,
                    NEW i \in DOMAIN image'[k].f[f]
             PROVE  \/ image'[k].f[f][i] = Source(src, image', k, f, i)
                    \/ Done("persist", src, image', pool, k, f, i)
    BY DEF Started
<1>2. Slot(image', k, f, i)
    BY DEF Slot
<1>3. CASE k \in DOMAIN image
    <2>1. Slot(image, k, f, i)
        BY <1>1, <1>2, <1>3, StepAdvances, Advanced
    <2>2. \/ image[k].f[f][i] = Source(src, image, k, f, i)
          \/ Done("persist", src, image, pool, k, f, i)
        BY <2>1 DEF PersistInv, LoadPersist, Started, Slot
    <2> QED
        BY <1>1, <2>1, <2>2, StepAdvances, Advanced
<1>4. CASE k \notin DOMAIN image
    <2>1. Adds /\ k = Len(image) + 1
        BY <1>4, StepAdvances
    <2> QED
        BY <1>2, <2>1, AddedSlots
<1> QED
    BY <1>3, <1>4

LEMMA ParentsStep ==
    ASSUME PersistInv, Fills \/ Updates \/ Adds
    PROVE  Parents(src, image')
<1>1. PICK q : Advances(q)
    BY StepAdvances
<1>2. todo # <<>> /\ Slot(image, HeadK, HeadF, HeadI)
    BY StepAdvances, HeadMeans
<1> SUFFICES ASSUME NEW k \in DOMAIN image' \ {1}
             PROVE  \E j \in DOMAIN image' : \E f \in DOMAIN image'[j].f \ Translated :
                      \E i \in DOMAIN image'[j].f[f] :
                         j < k /\ Source(src, image', j, f, i) = image'[k].of
    BY DEF Parents
<1>3. CASE k \in DOMAIN image
    <2>1. PICK j \in DOMAIN image : \E f \in DOMAIN image[j].f \ Translated :
              \E i \in DOMAIN image[j].f[f] : j < k /\ Source(src, image, j, f, i) = image[k].of
        BY <1>3, Zenon DEF PersistInv, Parents
    <2>2. PICK f \in DOMAIN image[j].f \ Translated :
              \E i \in DOMAIN image[j].f[f] : j < k /\ Source(src, image, j, f, i) = image[k].of
        BY <2>1
    <2>3. PICK i \in DOMAIN image[j].f[f] : j < k /\ Source(src, image, j, f, i) = image[k].of
        BY <2>2
    <2>4. Slot(image, j, f, i) /\ f \notin Translated
        BY DEF Slot
    <2>5. Slot(image', j, f, i) /\ Source(src, image', j, f, i) = image'[k].of
        BY <1>1, <1>2, <1>3, <2>3, <2>4, Advanced
    <2> QED
        BY <2>3, <2>4, <2>5 DEF Slot
<1>4. CASE k \notin DOMAIN image
    <2>1. Adds /\ k = Len(image) + 1
        BY <1>4, StepAdvances
    <2>2. /\ image'[k].of = HeadSource /\ HeadF \notin Translated /\ Len(image) \in Nat
        BY <2>1 DEF Adds
    <2>3. Slot(image', HeadK, HeadF, HeadI) /\ Source(src, image', HeadK, HeadF, HeadI) = HeadSource
        BY <1>1, <1>2, Advanced DEF HeadSource
    <2>4. HeadK < k
        <3>1. DOMAIN image = 1 .. Len(image)
            BY IsSeqParts DEF PersistInv, CopyInv, TypeInv, Blocks
        <3> QED
            BY <1>2, <2>1, <2>2, <3>1 DEF Slot
    <2> QED
        BY <2>2, <2>3, <2>4 DEF Slot
<1> QED
    BY <1>3, <1>4

LEMMA PairedStep ==
    ASSUME PersistInv, Fills \/ Updates \/ Adds
    PROVE  Paired(xlat')
<1>1. Paired(xlat)
    BY DEF PersistInv, LoadPersist
<1>2. CASE xlat' = xlat
    BY <1>1, <1>2
<1>3. CASE Register(HeadSource, <<"img", Len(image) + 1>>)
    BY <1>1, <1>3 DEF Register, Paired
<1> QED
    BY <1>2, <1>3 DEF Fills, Updates, Adds

LEMMA OfHas ==
    ASSUME NEW p, NEW s, IsSeq(s), NEW f, NEW i, NEW m, <<f, i, m>> \in Range(s)
    PROVE  <<p, f, i, m>> \in Range(Of(p, s))
<1>1. PICK j \in DOMAIN s : s[j] = <<f, i, m>>
    BY DEF Range
<1>2. j \in DOMAIN Of(p, s) /\ Of(p, s)[j] = <<p, f, i, m>>
    BY <1>1, OfIs
<1> QED
    BY <1>2 DEF Range

\* The slots of a class to update, and those of a new block.
LEMMA UpdatedSlots ==
    ASSUME PersistInv, Updates
    PROVE  LET t == Of(P, UpdateClass(image[P[2]])) IN
           /\ IsSeq(t) /\ Range(todo') = Range(t) \cup Range(Tail(todo))
           /\ \A e \in Range(t) : e[1] = P /\ e[2] \in Late /\ e[4] = "patch"
           /\ \A f \in Late : f \in DOMAIN image[P[2]].f => \A i \in DOMAIN image[P[2]].f[f] :
                 \E m : m # "update" /\ <<P, f, i, m>> \in Range(t)
<1> DEFINE b == image[P[2]]
           s == UpdateClass(b)
           t == Of(P, s)
<1>1. /\ Shaped(b) /\ b.kind = "class" /\ P[2] \in DOMAIN image /\ todo' = t \o Tail(todo)
      /\ todo # <<>>
    BY DEF Updates
<1>2. IsGraph(src) /\ Blocks(src, image) /\ Typed(src, ver)
    BY DEF PersistInv, CopyInv, TypeInv
<1>3. Fitted(b)
    <2>1. b.of[2] \in DOMAIN src /\ Alike(b, src[b.of[2]]) /\ Shaped(src[b.of[2]])
        BY <1>1, <1>2, BlockIs
    <2> HIDE DEF b
    <2> QED
        BY <1>1, <1>2, <2>1, FittedIs
<1>4. Loose(b, s) /\ \A x \in Range(s) : x[3] = "patch"
    BY <1>1, UpdateIs
<1>5. \A x \in Range(s) : x[1] \in Late
    <2>1. \A x \in Range(s) : x[1] \in {"magic", "callstatic"}
        BY <1>1, UpdateIs
    <2> QED
        BY <2>1 DEF Late
<1>6. /\ IsSeq(t) /\ \A e \in Range(t) : \E x \in Range(s) : e = <<P, x[1], x[2], x[3]>>
    BY <1>4, OfIs DEF Loose, Within
<1> HIDE DEF b, s
<1>7. ASSUME NEW f \in Late, f \in DOMAIN b.f, NEW i \in DOMAIN b.f[f]
      PROVE  \E m : m # "update" /\ <<P, f, i, m>> \in Range(t)
    <2>1. \E m : m # "update" /\ <<f, i, m>> \in Range(s)
        BY <1>1, <1>3, <1>7, UpdateCovers DEF s
    <2>2. PICK m : m # "update" /\ <<f, i, m>> \in Range(s)
        BY <2>1
    <2>3. <<P, f, i, m>> \in Range(t)
        BY <1>4, <2>2, OfHas DEF Loose, Within
    <2> QED
        BY <2>2, <2>3
<1> HIDE DEF t
<1>8. \A e \in Range(t) : e[1] = P /\ e[2] \in Late /\ e[4] = "patch"
    BY <1>4, <1>5, <1>6
<1>9. Range(todo') = Range(t) \cup Range(Tail(todo))
    BY <1>1, <1>6, HeadMeans, ConcatIs
<1> QED
    BY <1>6, <1>7, <1>8, <1>9 DEF t, s, b

LEMMA AddedTodo ==
    ASSUME PersistInv, Adds
    PROVE  LET k == Len(image) + 1
               o == src[HeadSource[2]]
               t == Of(<<"img", k>>, PersistSlots(o))
           IN /\ IsSeq(t) /\ Range(todo') = Range(t) \cup Range(Tail(todo))
              /\ IsSeq(PersistSlots(o)) /\ Shaped(o) /\ Fitted(o) /\ Short(o)
              /\ \A e \in Range(t) : e[1] = <<"img", k>> /\ e[1][2] = k /\ SlotFine(o, e[2], e[4])
                                     /\ e[2] \in DOMAIN o.f /\ e[3] \in DOMAIN o.f[e[2]]
                                     /\ e[2] \in FieldsOf(o.kind, ver)
              /\ \A f \in DOMAIN o.f \ Late : \A i \in DOMAIN o.f[f] :
                    \E m : m # "update" /\ <<<<"img", k>>, f, i, m>> \in Range(t)
              /\ o.kind = "classes" => \A i \in DOMAIN o.f.val :
                    <<<<"img", k>>, "val", i, "update">> \in Range(t)
<1> DEFINE k == Len(image) + 1
           o == src[HeadSource[2]]
           q == <<"img", k>>
           s == PersistSlots(o)
           t == Of(q, s)
<1>1. /\ todo' = t \o Tail(todo) /\ PersistFine(o, s) /\ ~ Passed(o) /\ todo # <<>>
      /\ HeadSource[2] \in DOMAIN src /\ q[2] = k
    BY DEF Adds
<1>2. IsGraph(src) /\ Typed(src, ver)
    BY DEF PersistInv, CopyInv, TypeInv
<1>3. Shaped(o) /\ Alike(o, o)
    BY <1>1, <1>2 DEF IsGraph, Alike
<1>4. Fitted(o) /\ Short(o)
    BY <1>1, <1>2, <1>3, FittedIs
<1>5. /\ IsSeq(s) /\ Within(o, s)
      /\ \A x \in Range(s) : x = <<x[1], x[2], x[3]>> /\ SlotFine(o, x[1], x[3])
    BY <1>1 DEF PersistFine, Within
<1> HIDE DEF k, o, q
<1>6. /\ IsSeq(t) /\ \A e \in Range(t) : \E x \in Range(s) : e = <<q, x[1], x[2], x[3]>>
    BY <1>5, OfIs
<1>7. ASSUME NEW f \in DOMAIN o.f \ Late, NEW i \in DOMAIN o.f[f]
      PROVE  \E m : m # "update" /\ <<q, f, i, m>> \in Range(t)
    <2>1. \E m : m # "update" /\ <<f, i, m>> \in Range(s)
        BY <1>1, <1>3, <1>4, PersistCovers
    <2>2. PICK m : m # "update" /\ <<f, i, m>> \in Range(s)
        BY <2>1
    <2>3. <<q, f, i, m>> \in Range(t)
        BY <1>5, <2>2, OfHas
    <2> QED
        BY <2>2, <2>3
<1>8. ASSUME o.kind = "classes", NEW i \in DOMAIN o.f.val
      PROVE  <<q, "val", i, "update">> \in Range(t)
    BY <1>3, <1>5, <1>8, UpdatesAll, OfHas
<1> HIDE DEF t, s
<1>9. \A e \in Range(t) : e[1] = q /\ e[1][2] = k /\ SlotFine(o, e[2], e[4])
                          /\ e[2] \in DOMAIN o.f /\ e[3] \in DOMAIN o.f[e[2]]
                          /\ e[2] \in FieldsOf(o.kind, ver)
    <2> SUFFICES ASSUME NEW e \in Range(t)
                 PROVE  e[1] = q /\ e[1][2] = k /\ SlotFine(o, e[2], e[4])
                        /\ e[2] \in DOMAIN o.f /\ e[3] \in DOMAIN o.f[e[2]]
                        /\ e[2] \in FieldsOf(o.kind, ver)
        OBVIOUS
    <2>1. PICK x \in Range(s) : e = <<q, x[1], x[2], x[3]>>
        BY <1>6
    <2>2. x[1] \in DOMAIN o.f /\ x[2] \in DOMAIN o.f[x[1]] /\ SlotFine(o, x[1], x[3])
        BY <1>5 DEF Within
    <2>3. x[1] \in FieldsOf(o.kind, ver)
        BY <1>4, <2>2 DEF Fitted
    <2> QED
        BY <1>1, <2>1, <2>2, <2>3
<1>10. Range(todo') = Range(t) \cup Range(Tail(todo))
    BY <1>1, <1>6, HeadMeans, ConcatIs
<1> QED
    BY <1>3, <1>4, <1>5, <1>6, <1>7, <1>8, <1>9, <1>10 DEF t, s, q, o, k

\* What waited behind the slot goes on to wait.
LEMMA Behind ==
    ASSUME PersistInv, Fills \/ Updates \/ Adds
    PROVE  /\ Range(Tail(todo)) \subseteq Range(todo')
           /\ \A e \in Range(todo) : e = Head(todo) \/ e \in Range(Tail(todo))
           /\ Range(Tail(todo)) \subseteq Range(todo)
           /\ \A e \in Range(todo) : Slot(image, e[1][2], e[2], e[3])
                                     /\ ModeFits(image[e[1][2]], e[2], e[4])
<1>1. todo # <<>> /\ IsSeq(todo) /\ Entries("persist", src, image, todo)
    BY StepAdvances DEF PersistInv, CopyInv, TypeInv, Entries
<1>2. /\ Range(Tail(todo)) \subseteq Range(todo)
      /\ \A e \in Range(todo) : e = Head(todo) \/ e \in Range(Tail(todo))
    BY <1>1, HeadOrTail
<1>3. Fills => Range(Tail(todo)) \subseteq Range(todo')
    BY DEF Fills
<1>4. Updates => Range(Tail(todo)) \subseteq Range(todo')
    BY UpdatedSlots
<1>5. Adds => Range(Tail(todo)) \subseteq Range(todo')
    BY AddedTodo
<1>6. ASSUME NEW e \in Range(todo)
      PROVE  Slot(image, e[1][2], e[2], e[3]) /\ ModeFits(image[e[1][2]], e[2], e[4])
    <2>1. Entry("persist", src, image, e)
        BY <1>1 DEF Entries
    <2> QED
        BY <2>1, SMT DEF Entry, OwnerFine, Tag, Its, Slot
<1> QED
    BY <1>2, <1>3, <1>4, <1>5, <1>6

\* The magic methods of a class come into the image with the class: the class table goes
\* through the class again.
LEMMA Again ==
    ASSUME PersistInv, Adds, src[HeadSource[2]].kind = "class"
    PROVE  /\ HeadF = "val" /\ image[HeadK].kind = "classes"
           /\ \E d \in Range(Tail(todo)) :
                 d[1] = Owner /\ d[2] = HeadF /\ d[3] = HeadI /\ d[4] = "update"
<1>1. /\ "class" \in LeadsTo(image[HeadK].kind, HeadF) /\ HeadF \notin Translated
      /\ Mode \in Copying /\ todo # <<>>
    BY DEF Adds
<1>2. HeadF = "val" /\ image[HeadK].kind = "classes"
    BY <1>1 DEF LeadsTo, Members, Translated, Zvals
<1>3. Head(todo) \in Range(todo) /\ Mode # "update"
    BY <1>1, HeadMeans DEF Copying
<1>4. PICK d \in Range(todo) : d[1] = Owner /\ d[2] = HeadF /\ d[3] = HeadI /\ d[4] = "update"
    BY <1>2, <1>3 DEF PersistInv, LoadPersist, Renewed, Owner, HeadK, HeadF, HeadI, Mode
<1>5. d # Head(todo)
    BY <1>3, <1>4 DEF Mode
<1>6. d \in Range(Tail(todo))
    BY <1>4, <1>5, Behind
<1> QED
    BY <1>2, <1>4, <1>6

LEMMA AwaitedStep ==
    ASSUME PersistInv, Fills \/ Updates \/ Adds
    PROVE  Awaited(src, image', pool, todo')
<1>1. PICK q : Advances(q)
    BY StepAdvances
<1>2. todo # <<>>
    BY StepAdvances
<1> DEFINE Keeps(k, f, i) ==
               \/ Pending(todo', k, f, i)
               \/ Done("persist", src, image', pool, k, f, i)
               \/ /\ f \in Late
                  /\ \E e \in Range(todo') : e[4] = "update"
                        /\ Source(src, image', e[1][2], e[2], e[3]) = image'[k].of
<1> SUFFICES ASSUME NEW k \in DOMAIN image', NEW f \in DOMAIN image'[k].f,
                    NEW i \in DOMAIN image'[k].f[f]
             PROVE  Keeps(k, f, i)
    BY DEF Awaited
<1>3. Slot(image', k, f, i)
    BY DEF Slot
<1>4. CASE k \in DOMAIN image
    <2>1. Slot(image, k, f, i)
        BY <1>1, <1>2, <1>3, <1>4, Advanced
    <2>2. \/ Pending(todo, k, f, i)
          \/ Done("persist", src, image, pool, k, f, i)
          \/ /\ f \in Late
             /\ \E e \in Range(todo) : e[4] = "update"
                   /\ Source(src, image, e[1][2], e[2], e[3]) = image[k].of
        BY <2>1 DEF PersistInv, LoadPersist, Awaited, Slot
    <2>3. CASE Pending(todo, k, f, i)
        <3>1. PICK e \in Range(todo) : e[1][2] = k /\ e[2] = f /\ e[3] = i /\ e[4] # "update"
            BY <2>3 DEF Pending
        <3>2. CASE e = Head(todo)
            <4>1. k = HeadK /\ f = HeadF /\ i = HeadI
                BY <3>1, <3>2 DEF HeadK, HeadF, HeadI, Owner
            <4> QED
                BY <1>1, <1>2, <4>1, Advanced
        <3>3. CASE e \in Range(Tail(todo))
            BY <3>1, <3>3, Behind DEF Pending
        <3> QED
            BY <3>2, <3>3, Behind
    <2>4. CASE Done("persist", src, image, pool, k, f, i)
        BY <1>1, <1>2, <2>1, <2>4, Advanced
    <2>5. CASE /\ f \in Late
               /\ \E e \in Range(todo) : e[4] = "update"
                     /\ Source(src, image, e[1][2], e[2], e[3]) = image[k].of
        <3>1. PICK e \in Range(todo) : e[4] = "update"
                     /\ Source(src, image, e[1][2], e[2], e[3]) = image[k].of
            BY <2>5
        <3>2. CASE e = Head(todo)
            <4>1. Mode = "update" /\ HeadSource = image[k].of
                BY <3>1, <3>2 DEF Mode, HeadSource, HeadK, HeadF, HeadI, Owner
            <4>2. Updates
                BY <4>1 DEF Fills, Adds, Copying
            <4>3. P[2] = k
                BY <1>4, <4>1, <4>2 DEF Updates, PersistInv, CopyInv, Once
            <4>4. PICK m : m # "update" /\ <<P, f, i, m>> \in Range(todo')
                BY <2>1, <2>5, <4>2, <4>3, UpdatedSlots DEF Slot
            <4>5. Pending(todo', k, f, i)
                BY <4>3, <4>4 DEF Pending
            <4> QED
                BY <4>5
        <3>3. CASE e \in Range(Tail(todo))
            <4>1. e \in Range(todo') /\ Slot(image, e[1][2], e[2], e[3])
                BY <3>3, Behind
            <4>2. Source(src, image', e[1][2], e[2], e[3]) = image'[k].of
                BY <1>1, <1>2, <1>4, <3>1, <4>1, Advanced
            <4> QED
                BY <2>5, <3>1, <4>1, <4>2
        <3> QED
            BY <3>2, <3>3, Behind
    <2> QED
        BY <2>2, <2>3, <2>4, <2>5
<1>5. CASE k \notin DOMAIN image
    <2> DEFINE o == src[HeadSource[2]]
    <2>1. Adds /\ k = Len(image) + 1
        BY <1>5, StepAdvances
    <2>2. f \in DOMAIN o.f /\ i \in DOMAIN o.f[f]
        BY <1>3, <2>1, AddedSlots
    <2>3. CASE f \notin Late
        <3>1. PICK m : m # "update" /\ <<<<"img", k>>, f, i, m>> \in Range(todo')
            BY <2>1, <2>2, <2>3, AddedTodo
        <3>2. Pending(todo', k, f, i)
            BY <3>1 DEF Pending
        <3> QED
            BY <3>2
    <2>4. CASE f \in Late
        <3>1. f \in FieldsOf(o.kind, ver)
            <4>1. HeadSource[2] \in DOMAIN src /\ Typed(src, ver) /\ Shaped(o)
                BY <2>1, AddedTodo DEF Adds, PersistInv
            <4> QED
                BY <2>2, <4>1, TypedSlot
        <3>2. o.kind = "class"
            BY <2>4, <3>1, SMT DEF FieldsOf, Tables, OpArrayFields, Late
        <3>3. PICK d \in Range(Tail(todo)) :
                 d[1] = Owner /\ d[2] = HeadF /\ d[3] = HeadI /\ d[4] = "update"
            BY <2>1, <3>2, Again
        <3>4. Source(src, image', d[1][2], d[2], d[3]) = HeadSource
            BY <1>1, <1>2, <3>3, Advanced DEF HeadSource, HeadK
        <3>5. image'[k].of = HeadSource
            BY <2>1 DEF Adds
        <3>6. d \in Range(todo')
            BY Behind
        <3> QED
            BY <2>4, <3>3, <3>4, <3>5, <3>6
    <2> QED
        BY <2>3, <2>4
<1> QED
    BY <1>4, <1>5

LEMMA RenewedStep ==
    ASSUME PersistInv, Fills \/ Updates \/ Adds
    PROVE  Renewed(image', todo')
<1>1. PICK q : Advances(q)
    BY StepAdvances
<1>2. todo # <<>> /\ Head(todo) \in Range(todo)
    BY StepAdvances, HeadMeans
<1> SUFFICES ASSUME NEW e \in Range(todo'), image'[e[1][2]].kind = "classes", e[2] = "val",
                    e[4] # "update"
             PROVE  \E d \in Range(todo') :
                       d[1] = e[1] /\ d[2] = e[2] /\ d[3] = e[3] /\ d[4] = "update"
    BY DEF Renewed
<1>3. CASE e \in Range(Tail(todo))
    <2>1. e \in Range(todo) /\ Slot(image, e[1][2], e[2], e[3])
          /\ ModeFits(image[e[1][2]], e[2], e[4])
        BY <1>3, Behind
    <2>2. image[e[1][2]].kind = "classes"
        BY <1>1, <1>2, <2>1, Advanced DEF Slot
    <2>3. PICK d \in Range(todo) :
              d[1] = e[1] /\ d[2] = e[2] /\ d[3] = e[3] /\ d[4] = "update"
        BY <2>1, <2>2 DEF PersistInv, LoadPersist, Renewed
    <2>4. d # Head(todo)
        <3> SUFFICES ASSUME d = Head(todo) PROVE FALSE
            OBVIOUS
        <3>1. Mode = "update" /\ Owner = e[1] /\ HeadF = e[2] /\ HeadI = e[3]
            BY <2>3 DEF Mode, Owner, HeadF, HeadI
        <3>2. P = <<"img", P[2]>>
            BY <3>1 DEF Fills, Adds, Updates, Copying
        <3>3. e[4] \in Fresh
            BY <2>1 DEF ModeFits, Fresh, Copying
        <3>4. P = HeadSource
            <4>1. image[HeadK].f[HeadF][HeadI] = HeadSource
                BY <2>1, <3>1, <3>3 DEF PersistInv, CopyInv, Untouched, HeadSource, Source, HeadK
            <4> QED
                BY <1>2, <4>1, HeadMeans
        <3>5. HeadSource # Null => HeadSource = <<"src", HeadSource[2]>>
            BY <1>2, HeadMeans
        <3> QED
            BY <3>2, <3>4, <3>5 DEF Null
    <2>5. d \in Range(todo')
        BY <2>4, Behind
    <2> QED
        BY <2>3, <2>5
<1>4. CASE e \notin Range(Tail(todo))
    <2>1. ~ Fills
        BY <1>4 DEF Fills
    <2>2. ~ Updates
        BY <1>4, UpdatedSlots DEF Late
    <2> DEFINE k == Len(image) + 1
               o == src[HeadSource[2]]
    <2>3. Adds
        BY <2>1, <2>2
    <2>4. e[1] = <<"img", k>> /\ e[1][2] = k /\ e[3] \in DOMAIN o.f[e[2]]
        BY <1>4, <2>3, AddedTodo
    <2>5. o.kind = "classes"
        BY <2>3, <2>4 DEF Adds
    <2>6. <<<<"img", k>>, "val", e[3], "update">> \in Range(todo')
        BY <2>3, <2>4, <2>5, AddedTodo
    <2> DEFINE d == <<<<"img", k>>, "val", e[3], "update">>
    <2>7. d \in Range(todo') /\ d[1] = e[1] /\ d[2] = e[2] /\ d[3] = e[3] /\ d[4] = "update"
        BY <2>4, <2>6
    <2> HIDE DEF d
    <2> QED
        BY <2>7
<1> QED
    BY <1>3, <1>4

LEMMA HousedStep ==
    ASSUME PersistInv, Fills \/ Updates \/ Adds
    PROVE  Housed(src, image', xlat')
<1>1. PICK q : Advances(q)
    BY StepAdvances
<1>2. todo # <<>> /\ DOMAIN xlat \subseteq DOMAIN xlat' /\ Housed(src, image, xlat)
    BY StepAdvances DEF PersistInv, LoadPersist
<1> SUFFICES ASSUME NEW k \in DOMAIN image', NEW n \in DOMAIN src, src[n].kind = "class",
                    image'[k].of[2] \in ClassParts(src, n)
             PROVE  <<"src", n>> \in DOMAIN xlat'
    BY DEF Housed
<1>3. CASE k \in DOMAIN image
    BY <1>1, <1>2, <1>3, Advanced DEF Housed
<1>4. CASE k \notin DOMAIN image
    <2> DEFINE x == HeadSource[2]
               h == image[HeadK].of[2]
    <2>1. Adds /\ k = Len(image) + 1
        BY <1>4, StepAdvances
    <2>2. /\ HeadSource = <<"src", x>> /\ x \in DOMAIN src /\ image'[k].of[2] = x
          /\ HeadF \notin Translated /\ Mode \in Copying
          /\ (xlat' = xlat /\ Mode = "data") \/ Register(HeadSource, <<"img", Len(image) + 1>>)
        BY <2>1 DEF Adds
    <2>3. CASE x = n
        <3>1. HeadF = "val" /\ image[HeadK].kind = "classes"
            BY <2>1, <2>3, Again
        <3>2. Mode # "data"
            BY <1>2, <2>2, <3>1, HeadMeans DEF ModeFits
        <3> QED
            BY <2>2, <2>3, <3>2 DEF Register
    <2>4. CASE x # n
        <3>1. Typed(src, ver) /\ Unshared(src) /\ IsGraph(src) /\ Blocks(src, image)
            BY DEF PersistInv, CopyInv, TypeInv
        <3>2. x \in ClassParts(src, n)
            BY <2>2
        <3> HIDE DEF x
        <3>3. /\ src[x].kind \notin {"str", "ht"}
              /\ \E m \in ClassParts(src, n) : m \in DOMAIN src /\
                 \E f \in DOMAIN src[m].f \ Translated : \E i \in DOMAIN src[m].f[f] :
                    src[m].f[f][i] = <<"src", x>>
            <4>1. Typed(src, ver) /\ x # n
                BY <2>4, <3>1
            <4> QED
                BY <3>2, <4>1, PartsParent, Zenon
        <3>4. PICK m \in ClassParts(src, n) : m \in DOMAIN src /\
                 \E f \in DOMAIN src[m].f \ Translated : \E i \in DOMAIN src[m].f[f] :
                    src[m].f[f][i] = <<"src", x>>
            BY <3>3
        <3>5. PICK f \in DOMAIN src[m].f \ Translated : \E i \in DOMAIN src[m].f[f] :
                    src[m].f[f][i] = <<"src", x>>
            BY <3>4
        <3>6. PICK i \in DOMAIN src[m].f[f] : src[m].f[f][i] = <<"src", x>>
            BY <3>5
        <3>7. /\ h \in DOMAIN src /\ HeadF \in DOMAIN src[h].f /\ HeadI \in DOMAIN src[h].f[HeadF]
              /\ src[h].f[HeadF][HeadI] = <<"src", x>> /\ HeadK \in DOMAIN image
            BY <1>2, <2>2, <3>1, HeadMeans, SourceIs DEF HeadSource, Slot
        <3> HIDE DEF h
        <3>8. <<"src", x>> # Null /\ <<"src", x>>[2] = x
            BY DEF Null
        <3>9. h = m
            <4>1. src[m].f[f][i] # Null /\ src[src[m].f[f][i][2]].kind \notin {"str", "ht"}
                BY <3>3, <3>6, <3>8
            <4>2. \A a \in DOMAIN src : \A g \in DOMAIN src[a].f \ Translated :
                      \A j \in DOMAIN src[a].f[g] :
                          src[a].f[g][j] = src[m].f[f][i] => a = m /\ g = f /\ j = i
                <5>1. \A b \in DOMAIN src : \A v \in DOMAIN src[b].f \ Translated :
                        \A w \in DOMAIN src[b].f[v] :
                          /\ src[b].f[v][w] # Null
                          /\ src[src[b].f[v][w][2]].kind \notin {"str", "ht"}
                          => \A a \in DOMAIN src : \A g \in DOMAIN src[a].f \ Translated :
                               \A j \in DOMAIN src[a].f[g] :
                                 src[a].f[g][j] = src[b].f[v][w] => a = b /\ g = v /\ j = w
                    BY <3>1 DEF Unshared
                <5> QED
                    BY <3>4, <4>1, <5>1
            <4> QED
                BY <2>2, <3>6, <3>7, <4>2
        <3>10. <<"src", n>> \in DOMAIN xlat
            BY <1>2, <3>7, <3>9 DEF Housed, h
        <3> QED
            BY <1>2, <3>10
    <2> QED
        BY <2>3, <2>4
<1> QED
    BY <1>3, <1>4

LEMMA Split ==
    ASSUME NEW td, IsSeq(td), td # <<>>, NEW t, IsSeq(t)
    PROVE  LET u == t \o Tail(td) IN
           /\ Len(t) \in Nat /\ Len(td) \in Nat /\ 1 \in DOMAIN td /\ Head(td) = td[1]
           /\ DOMAIN u = 1 .. Len(t) + (Len(td) - 1)
           /\ DOMAIN t = 1 .. Len(t) /\ DOMAIN td = 1 .. Len(td)
           /\ \A j \in DOMAIN t : u[j] = t[j] /\ t[j] \in Range(t)
           /\ \A j \in DOMAIN u \ DOMAIN t :
                 j - Len(t) + 1 \in DOMAIN td \ {1} /\ u[j] = td[j - Len(t) + 1]
<1>1. /\ DOMAIN t = 1 .. Len(t) /\ DOMAIN td = 1 .. Len(td) /\ Len(t) \in Nat /\ Len(td) \in Nat
      /\ \A j \in DOMAIN t : t[j] \in Range(t)
    BY IsSeqParts
<1>2. td \in Seq(Range(td))
    BY DEF IsSeq
<1>3. /\ Tail(td) \in Seq(Range(td)) /\ Len(Tail(td)) = Len(td) - 1 /\ Len(td) >= 1
      /\ \A j \in 1 .. Len(td) - 1 : Tail(td)[j] = td[j + 1]
      /\ Head(td) = td[1]
    BY <1>2
<1>4. IsSeq(Tail(td))
    BY TailIs
<1>5. /\ DOMAIN (t \o Tail(td)) = 1 .. Len(t \o Tail(td))
      /\ Len(t \o Tail(td)) = Len(t) + Len(Tail(td))
      /\ \A j \in 1 .. Len(t) : (t \o Tail(td))[j] = t[j]
      /\ \A j \in 1 .. Len(Tail(td)) : (t \o Tail(td))[Len(t) + j] = Tail(td)[j]
    BY <1>4, ConcatIs, IsSeqParts
<1>6. ASSUME NEW j \in DOMAIN (t \o Tail(td)) \ DOMAIN t
      PROVE  j - Len(t) + 1 \in DOMAIN td \ {1} /\ (t \o Tail(td))[j] = td[j - Len(t) + 1]
    <2>1. j \in Nat /\ j > Len(t) /\ j <= Len(t) + (Len(td) - 1)
        BY <1>1, <1>3, <1>5, <1>6
    <2>2. j - Len(t) \in 1 .. Len(td) - 1 /\ Len(t) + (j - Len(t)) = j
        BY <1>1, <2>1
    <2>3. (t \o Tail(td))[Len(t) + (j - Len(t))] = td[j - Len(t) + 1]
        BY <1>3, <1>5, <2>2
    <2> QED
        BY <1>1, <2>2, <2>3
<1> QED
    BY <1>1, <1>3, <1>5, <1>6

LEMMA TodoIs ==
    ASSUME PersistInv, Fills \/ Updates \/ Adds
    PROVE  /\ IsSeq(todo) /\ todo # <<>>
           /\ Fills => todo' = <<>> \o Tail(todo) /\ IsSeq(<<>>)
           /\ Updates => LET t == Of(P, UpdateClass(image[P[2]])) IN todo' = t \o Tail(todo) /\ IsSeq(t)
           /\ Adds => LET t == Of(<<"img", Len(image) + 1>>, PersistSlots(src[HeadSource[2]]))
                      IN todo' = t \o Tail(todo) /\ IsSeq(t)
<1>1. IsSeq(todo) /\ todo # <<>>
    BY StepAdvances, HeadMeans
<1>2. Tail(todo) = <<>> \o Tail(todo) /\ IsSeq(<<>>)
    <2>1. todo \in Seq(Range(todo))
        BY <1>1 DEF IsSeq
    <2>2. Tail(todo) \in Seq(Range(todo))
        BY <1>1, <2>1
    <2> QED
        BY <2>2 DEF IsSeq
<1>3. Fills => todo' = <<>> \o Tail(todo)
    BY <1>2 DEF Fills
<1>4. Updates => LET t == Of(P, UpdateClass(image[P[2]])) IN todo' = t \o Tail(todo) /\ IsSeq(t)
    BY UpdatedSlots DEF Updates
<1>5. Adds => LET t == Of(<<"img", Len(image) + 1>>, PersistSlots(src[HeadSource[2]]))
              IN todo' = t \o Tail(todo) /\ IsSeq(t)
    BY AddedTodo DEF Adds
<1> QED
    BY <1>1, <1>2, <1>3, <1>4, <1>5

\* The first entry before the second.
Precedes(im, x, y) ==
    /\ im[y[1][2]].kind \in {"class", "methods"} /\ y[4] \in Copying =>
          x[4] # "update" /\ x[2] \notin Late
    /\ x[2] = "classes" => y[1] = <<"img", 1>>
LEMMA SlotOfNew ==
    ASSUME NEW o, NEW f, NEW m, SlotFine(o, f, m)
    PROVE  f \notin Late /\ (m = "update" => o.kind = "classes" /\ f = "val")
BY DEF SlotFine, ModeFits, Translated, Late

LEMMA OrderedStep ==
    ASSUME PersistInv, Fills \/ Updates \/ Adds
    PROVE  Ordered(image', todo')
<1>1. PICK q : Advances(q)
    BY StepAdvances
<1>2. todo # <<>> /\ IsSeq(todo) /\ image[1].of = <<"src", "script">> /\ 1 \in DOMAIN image
    BY TodoIs DEF PersistInv, CopyInv, TypeInv
<1>3. \A b \in DOMAIN todo : \A c \in DOMAIN todo : b < c => Precedes(image, todo[b], todo[c])
    BY DEF PersistInv, LoadPersist, Ordered, Precedes
<1> SUFFICES ASSUME NEW b \in DOMAIN todo', NEW c \in DOMAIN todo', b < c
             PROVE  Precedes(image', todo'[b], todo'[c])
    BY DEF Ordered, Precedes
<1>4. ASSUME NEW x, NEW y, NEW i \in DOMAIN todo, NEW j \in DOMAIN todo, i < j,
             x = todo[i], y = todo[j]
      PROVE  Precedes(image', x, y)
    <2>1. Precedes(image, x, y)
        BY <1>3, <1>4
    <2>2. y \in Range(todo)
        BY <1>4 DEF Range
    <2>3. image'[y[1][2]].kind = image[y[1][2]].kind
        BY <1>1, <1>2, <2>2, Behind, Advanced DEF Slot
    <2> QED
        BY <2>1, <2>3 DEF Precedes
<1>5. CASE Fills
    <2>1. todo' = <<>> \o Tail(todo) /\ IsSeq(<<>>) /\ DOMAIN <<>> = {} /\ Len(<<>>) = 0
        BY <1>5, TodoIs
    <2>2. /\ b - 0 + 1 \in DOMAIN todo /\ todo'[b] = todo[b - 0 + 1]
          /\ c - 0 + 1 \in DOMAIN todo /\ todo'[c] = todo[c - 0 + 1]
          /\ DOMAIN todo = 1 .. Len(todo) /\ DOMAIN todo' = 1 .. 0 + (Len(todo) - 1)
          /\ Len(todo) \in Nat
        BY <1>2, <2>1, Split
    <2>3. b - 0 + 1 < c - 0 + 1
        BY <2>2
    <2> QED
        BY <1>4, <2>2, <2>3
<1>6. CASE Updates
    <2> DEFINE t == Of(P, UpdateClass(image[P[2]]))
    <2>1. /\ todo' = t \o Tail(todo) /\ IsSeq(t)
          /\ \A e \in Range(t) : e[2] \in Late /\ e[4] = "patch"
        BY <1>6, TodoIs, UpdatedSlots
    <2>2. Head(todo)[4] = "update"
        BY <1>6 DEF Updates, Mode
    <2> HIDE DEF t
    <2>3. /\ Len(t) \in Nat /\ Len(todo) \in Nat /\ 1 \in DOMAIN todo /\ Head(todo) = todo[1]
          /\ DOMAIN todo' = 1 .. Len(t) + (Len(todo) - 1)
          /\ DOMAIN t = 1 .. Len(t) /\ DOMAIN todo = 1 .. Len(todo)
          /\ \A j \in DOMAIN t : todo'[j] = t[j] /\ t[j] \in Range(t)
          /\ \A j \in DOMAIN todo' \ DOMAIN t :
                j - Len(t) + 1 \in DOMAIN todo \ {1} /\ todo'[j] = todo[j - Len(t) + 1]
        BY <1>2, <2>1, Split
    <2>4. CASE c \in DOMAIN t
        <3>1. b \in DOMAIN t
            BY <2>3, <2>4
        <3>2. /\ todo'[b][2] \in Late /\ todo'[c][4] = "patch"
            BY <2>1, <2>3, <2>4, <3>1
        <3> QED
            BY <3>2 DEF Precedes, Late, Copying
    <2>5. CASE c \notin DOMAIN t /\ b \in DOMAIN t
        <3> DEFINE j == c - Len(t) + 1
        <3>1. j \in DOMAIN todo /\ todo'[c] = todo[j] /\ 1 < j
            BY <2>3, <2>5
        <3>2. Precedes(image', todo[1], todo'[c])
            BY <1>4, <2>3, <3>1
        <3>3. todo'[b][2] \in Late
            BY <2>1, <2>3, <2>5
        <3> QED
            BY <2>2, <2>3, <3>2, <3>3 DEF Precedes, Late
    <2>6. CASE c \notin DOMAIN t /\ b \notin DOMAIN t
        <3> DEFINE i == b - Len(t) + 1
                   j == c - Len(t) + 1
        <3>1. /\ i \in DOMAIN todo /\ todo'[b] = todo[i] /\ j \in DOMAIN todo
              /\ todo'[c] = todo[j] /\ i < j
            BY <2>3, <2>6
        <3> HIDE DEF i, j
        <3> QED
            BY <1>4, <3>1
    <2> QED
        BY <2>4, <2>5, <2>6
<1>7. CASE Adds
    <2> DEFINE k == Len(image) + 1
               o == src[HeadSource[2]]
               t == Of(<<"img", k>>, PersistSlots(o))
    <2>1. /\ todo' = t \o Tail(todo) /\ IsSeq(t)
          /\ \A e \in Range(t) : e[1][2] = k /\ SlotFine(o, e[2], e[4]) /\ e[2] \in FieldsOf(o.kind, ver)
        BY <1>7, TodoIs, AddedTodo
    <2>2. /\ image'[k].kind = o.kind /\ o.kind \in LeadsTo(image[HeadK].kind, HeadF)
          /\ HeadF \notin Translated
        BY <1>7 DEF Adds
    <2> HIDE DEF t, o, k
    <2>3. /\ Len(t) \in Nat /\ Len(todo) \in Nat /\ 1 \in DOMAIN todo /\ Head(todo) = todo[1]
          /\ DOMAIN todo' = 1 .. Len(t) + (Len(todo) - 1)
          /\ DOMAIN t = 1 .. Len(t) /\ DOMAIN todo = 1 .. Len(todo)
          /\ \A j \in DOMAIN t : todo'[j] = t[j] /\ t[j] \in Range(t)
          /\ \A j \in DOMAIN todo' \ DOMAIN t :
                j - Len(t) + 1 \in DOMAIN todo \ {1} /\ todo'[j] = todo[j - Len(t) + 1]
        BY <1>2, <2>1, Split
    <2>4. \A e \in Range(t) : e[2] \notin Late /\ (e[4] = "update" => o.kind = "classes")
        BY <2>1, SlotOfNew
    <2>5. o.kind # "script"
        BY <2>2 DEF LeadsTo, Members, Zvals
    <2>6. \A e \in Range(t) : e[2] # "classes"
        BY <2>1, <2>5, SMT DEF FieldsOf, Tables, OpArrayFields
    <2>7. CASE c \in DOMAIN t
        <3>1. b \in DOMAIN t
            BY <2>3, <2>7
        <3>2. /\ todo'[b] \in Range(t) /\ todo'[c] \in Range(t)
            BY <2>3, <2>7, <3>1
        <3>3. image'[todo'[c][1][2]].kind = o.kind
            BY <2>1, <2>2, <3>2
        <3> QED
            BY <2>4, <2>6, <3>2, <3>3 DEF Precedes
    <2>8. CASE c \notin DOMAIN t /\ b \in DOMAIN t
        <3> DEFINE j == c - Len(t) + 1
        <3>1. j \in DOMAIN todo /\ todo'[c] = todo[j] /\ 1 < j /\ todo'[b] \in Range(t)
            BY <2>3, <2>8
        <3>2. ASSUME todo'[b][4] = "update"
              PROVE  image'[todo'[c][1][2]].kind = "script"
            <4>1. HeadF = "classes"
                BY <2>2, <2>4, <3>1, <3>2 DEF LeadsTo, Members, Zvals
            <4>2. Precedes(image', todo[1], todo'[c])
                BY <1>4, <2>3, <3>1
            <4>3. todo'[c][1] = <<"img", 1>>
                BY <2>3, <4>1, <4>2 DEF Precedes, HeadF
            <4>4. image[1].kind = "script"
                <5>1. IsGraph(src) /\ Blocks(src, image)
                    BY DEF PersistInv, CopyInv, TypeInv
                <5>2. image[1].kind = src["script"].kind
                    BY <1>2, <5>1, BlockIs
                <5> QED
                    BY <5>1, <5>2 DEF IsGraph
            <4>5. image'[1].kind = "script"
                BY <1>1, <1>2, <4>4, Advanced
            <4> QED
                BY <4>3, <4>5
        <3> QED
            BY <2>4, <2>6, <3>1, <3>2 DEF Precedes
    <2>9. CASE c \notin DOMAIN t /\ b \notin DOMAIN t
        <3> DEFINE i == b - Len(t) + 1
                   j == c - Len(t) + 1
        <3>1. /\ i \in DOMAIN todo /\ todo'[b] = todo[i] /\ j \in DOMAIN todo
              /\ todo'[c] = todo[j] /\ i < j
            BY <2>3, <2>9
        <3> HIDE DEF i, j
        <3> QED
            BY <1>4, <3>1
    <2> QED
        BY <2>7, <2>8, <2>9
<1> QED
    BY <1>5, <1>6, <1>7

\* The opcodes, the literals and the expression of a structure.
LEMMA FirstSlot ==
    ASSUME PersistInv, NEW n \in DOMAIN src, NEW f \in {"opcodes", "literals", "ast"},
           First(src[n], f) # Null
    PROVE  /\ Field(src[n], f) # <<>> /\ f \in DOMAIN src[n].f /\ 1 \in DOMAIN src[n].f[f]
           /\ First(src[n], f) = src[n].f[f][1] /\ f \notin Translated
           /\ Part(src, First(src[n], f))
           /\ First(src[n], f) # <<"src", "script">>
           /\ src[First(src[n], f)[2]].kind = IF f = "literals" THEN "zvals" ELSE f
           /\ \A i \in DOMAIN src[n].f[f] : i = 1
<1> DEFINE o == src[n]
<1>1. Typed(src, ver) /\ IsGraph(src)
    BY DEF PersistInv, CopyInv, TypeInv
<1>2. Shaped(o) /\ Short(o)
    <2>1. Shaped(o) /\ Alike(o, o)
        BY <1>1 DEF IsGraph, Alike
    <2> QED
        BY <1>1, <2>1, FittedIs
<1>3. Field(o, f) # <<>>
    BY DEF First
<1>4. f \in DOMAIN o.f /\ 1 \in DOMAIN o.f[f] /\ First(o, f) = o.f[f][1]
      /\ \A i \in DOMAIN o.f[f] : i = 1
    BY <1>2, <1>3, SlotOne
<1>5. src[o.f[f][1][2]].kind \in LeadsTo(o.kind, f)
    BY <1>1, <1>2, <1>4, TypedSlot
<1>6. LeadsTo(o.kind, f) = {IF f = "literals" THEN "zvals" ELSE f}
    BY DEF LeadsTo
<1>7. First(o, f) # <<"src", "script">>
    BY <1>1, <1>4 DEF IsGraph
<1>8. src[First(o, f)[2]].kind = IF f = "literals" THEN "zvals" ELSE f
    BY <1>4, <1>5, <1>6
<1> QED
    BY <1>3, <1>4, <1>7, <1>8 DEF Part, Translated

LEMMA FirstOf ==
    ASSUME PersistInv, NEW k \in DOMAIN image, NEW f \in {"opcodes", "literals", "ast"},
           First(src[image[k].of[2]], f) # Null
    PROVE  /\ Slot(image, k, f, 1)
           /\ Source(src, image, k, f, 1) = First(src[image[k].of[2]], f)
<1> DEFINE n == image[k].of[2]
<1>1. n \in DOMAIN src /\ Alike(image[k], src[n])
    BY BlockIs DEF PersistInv, CopyInv, TypeInv
<1>2. f \in DOMAIN src[n].f /\ 1 \in DOMAIN src[n].f[f] /\ First(src[n], f) = src[n].f[f][1]
    BY <1>1, FirstSlot
<1> QED
    BY <1>1, <1>2 DEF Slot, Alike, Source

\* The slot of a part is its only one.
LEMMA OnlyHead ==
    ASSUME PersistInv, Adds, NEW k \in DOMAIN image, NEW f \in {"opcodes", "literals", "ast"},
           First(src[image[k].of[2]], f) = HeadSource
    PROVE  k = HeadK /\ f = HeadF /\ HeadI = 1
<1>1. HeadSource # Null /\ HeadF \notin Translated /\ todo # <<>>
    BY DEF Adds
<1>2. Slot(image, k, f, 1) /\ Source(src, image, k, f, 1) = HeadSource
    BY <1>1, FirstOf
<1>3. image[k].of[2] \in DOMAIN src /\ IsGraph(src) /\ Blocks(src, image) /\ Once(image)
      /\ Unshared(src)
    BY BlockIs DEF PersistInv, CopyInv, TypeInv
<1>4. Part(src, HeadSource) /\ f \notin Translated
    BY <1>1, <1>3, FirstSlot
<1>5. Slot(image, HeadK, HeadF, HeadI)
    BY <1>1, HeadMeans
<1> QED
    BY <1>1, <1>2, <1>3, <1>4, <1>5, Sole DEF HeadSource, Part

LEMMA LinedStep ==
    ASSUME PersistInv, Fills \/ Updates \/ Adds
    PROVE  Lined(src, image', todo')
<1>1. PICK q : Advances(q)
    BY StepAdvances
<1>2. todo # <<>> /\ IsSeq(todo) /\ Lined(src, image, todo)
    BY TodoIs DEF PersistInv, LoadPersist
<1>3. src' = src
    BY <1>1 DEF Advances
<1> DEFINE Fits(im, td, j) ==
        LET k == td[j][1][2]
            o == src[im[k].of[2]]
        IN /\ td[j][2] = "opcodes" /\ Field(o, "literals") # <<>> =>
                 j + 1 \in DOMAIN td /\ td[j + 1][1] = td[j][1] /\ td[j + 1][2] = "literals"
           /\ td[j][2] = "literals" =>
                 \/ First(o, "opcodes") = Null
                 \/ j > 1 /\ td[j - 1][1] = td[j][1] /\ td[j - 1][2] = "opcodes"
                 \/ j = 1 /\ im[k].f["opcodes"][1] = <<"img", Len(im)>>
           /\ td[j][2] = "ast" => j = 1 /\ k = Len(im)
<1> SUFFICES ASSUME NEW j \in DOMAIN todo' PROVE Fits(image', todo', j)
    BY DEF Lined
<1>4. ASSUME NEW t, IsSeq(t), todo' = t \o Tail(todo), j \notin DOMAIN t,
             Fills => t = <<>>,
             Adds => t = Of(<<"img", Len(image) + 1>>, PersistSlots(src[HeadSource[2]]))
      PROVE  Fits(image', todo', j)
    <2> DEFINE h == j - Len(t) + 1
               k == todo[h][1][2]
               n == image[k].of[2]
               o == src[n]
    <2>1. /\ Len(t) \in Nat /\ Len(todo) \in Nat /\ 1 \in DOMAIN todo /\ Head(todo) = todo[1]
          /\ DOMAIN todo' = 1 .. Len(t) + (Len(todo) - 1)
          /\ DOMAIN t = 1 .. Len(t) /\ DOMAIN todo = 1 .. Len(todo)
          /\ \A i \in DOMAIN todo' \ DOMAIN t :
                i - Len(t) + 1 \in DOMAIN todo \ {1} /\ todo'[i] = todo[i - Len(t) + 1]
        BY <1>2, <1>4, Split
    <2>2. /\ h \in DOMAIN todo /\ h > 1 /\ todo'[j] = todo[h] /\ j = h - 1 + Len(t)
        <3>1. j \in DOMAIN todo' \ DOMAIN t
            BY <1>4
        <3>2. j - Len(t) + 1 \in DOMAIN todo \ {1} /\ todo'[j] = todo[j - Len(t) + 1]
            BY <2>1, <3>1
        <3>3. j \in Nat
            BY <2>1, <3>1
        <3> QED
            BY <2>1, <3>2, <3>3
    <2>3. Fits(image, todo, h)
        BY <1>2, <2>2 DEF Lined
    <2>4. todo[h] \in Range(todo)
        BY <2>2 DEF Range
    <2>5. k \in DOMAIN image /\ image'[k].of = image[k].of /\ k \in DOMAIN image'
        BY <1>1, <1>2, <2>4, Behind, Advanced DEF Slot
    <2>6. n \in DOMAIN src
        BY <2>5, BlockIs DEF PersistInv, CopyInv, TypeInv
    <2> DEFINE Both == First(o, "opcodes") # Null
    <2>7. ASSUME todo[h][2] = "opcodes", Field(o, "literals") # <<>>
          PROVE  j + 1 \in DOMAIN todo' /\ todo'[j + 1][1] = todo'[j][1]
                 /\ todo'[j + 1][2] = "literals"
        <3>1. h + 1 \in DOMAIN todo /\ todo[h + 1][1] = todo[h][1] /\ todo[h + 1][2] = "literals"
            BY <2>3, <2>7
        <3>2. j + 1 \in DOMAIN todo' \ DOMAIN t /\ (j + 1) - Len(t) + 1 = h + 1
            <4>1. Len(t) \in Nat /\ Len(todo) \in Nat
                BY <2>1
            <4>2. h \in 1 .. Len(todo) /\ h + 1 \in 1 .. Len(todo)
                BY <2>1, <2>2, <3>1
            <4>3. h > 1 /\ j = h - 1 + Len(t)
                BY <2>2
            <4> HIDE DEF h
            <4>4. /\ j + 1 \in 1 .. Len(t) + (Len(todo) - 1)
                  /\ j + 1 \notin 1 .. Len(t)
                  /\ (j + 1) - Len(t) + 1 = h + 1
                BY <4>1, <4>2, <4>3
            <4> QED
                BY <2>1, <4>4
        <3>3. todo'[j + 1] = todo[h + 1]
            BY <2>1, <3>2
        <3> QED
            BY <2>2, <3>1, <3>2, <3>3
    <2>8. ASSUME todo[h][2] = "literals", Both
          PROVE  \/ j > 1 /\ todo'[j - 1][1] = todo'[j][1] /\ todo'[j - 1][2] = "opcodes"
                 \/ j = 1 /\ image'[k].f["opcodes"][1] = <<"img", Len(image')>>
        <3>1. todo[h - 1][1] = todo[h][1] /\ todo[h - 1][2] = "opcodes"
            <4>1. todo[h][2] = "literals" /\ Both /\ h # 1
                BY <2>2, <2>8
            <4>2. \/ First(o, "opcodes") = Null
                  \/ h > 1 /\ todo[h - 1][1] = todo[h][1] /\ todo[h - 1][2] = "opcodes"
                  \/ h = 1 /\ image[k].f["opcodes"][1] = <<"img", Len(image)>>
                BY <2>3, <4>1, Zenon
            <4> HIDE DEF h, k, o
            <4> QED
                BY <4>1, <4>2
        <3>2. CASE h - 1 > 1
            <4>1. j - 1 \in DOMAIN todo' \ DOMAIN t /\ (j - 1) - Len(t) + 1 = h - 1 /\ j > 1
                BY <1>4, <2>1, <2>2, <3>2
            <4>2. todo'[j - 1] = todo[h - 1]
                BY <2>1, <4>1
            <4> QED
                BY <2>2, <3>1, <4>1, <4>2
        <3>3. CASE ~ (h - 1 > 1)
            <4>1. h - 1 = 1
                BY <2>1, <2>2, <3>3
            <4>2. HeadF = "opcodes" /\ HeadK = k
                BY <2>1, <3>1, <4>1 DEF HeadF, HeadK, Owner
            <4>3. Slot(image, HeadK, HeadF, HeadI)
                BY <1>2, HeadMeans
            <4>4. HeadI = 1 /\ HeadSource = First(o, "opcodes")
                <5>1. Slot(image, k, "opcodes", 1)
                      /\ Source(src, image, k, "opcodes", 1) = First(o, "opcodes")
                    BY <2>5, <2>8, FirstOf
                <5>2. Alike(image[k], o)
                    BY <2>5, BlockIs DEF PersistInv, CopyInv, TypeInv
                <5>3. HeadI \in DOMAIN o.f["opcodes"]
                    BY <4>2, <4>3, <5>2 DEF Slot, Alike
                <5>4. HeadI = 1
                    BY <2>6, <2>8, <5>3, FirstSlot
                <5> QED
                    BY <4>2, <5>1, <5>4 DEF HeadSource
            <4>5. Adds
                BY <2>8, <4>2, <4>4 DEF Fills, Updates
            <4>6. src[HeadSource[2]].kind = "opcodes"
                BY <2>6, <2>8, <4>4, FirstSlot
            <4>7. PersistSlots(src[HeadSource[2]]) = <<>>
                BY <4>6 DEF PersistSlots
            <4>8. t = <<>>
                BY <1>4, <4>5, <4>7 DEF Of
            <4>9. j = 1
                BY <2>2, <4>1, <4>8
            <4>10. Advances(<<"img", Len(image) + 1>>) /\ Len(image') = Len(image) + 1
                BY <4>5 DEF Adds
            <4>11. image'[HeadK].f[HeadF][HeadI] = <<"img", Len(image) + 1>>
                BY <4>3, <4>10 DEF Advances, Writes, Slot
            <4> QED
                BY <4>2, <4>4, <4>9, <4>10, <4>11
        <3> QED
            BY <3>2, <3>3
    <2>9. todo[h][2] # "ast"
        BY <2>2, <2>3
    <2> HIDE DEF h
    <2> QED
        BY <2>2, <2>5, <2>7, <2>8, <2>9
<1>5. CASE Fills
    <2>1. todo' = <<>> \o Tail(todo) /\ IsSeq(<<>>) /\ j \notin DOMAIN <<>>
        BY <1>5, TodoIs
    <2>2. ~ Adds
        BY <1>5 DEF Fills, Adds
    <2> QED
        BY <1>4, <2>1, <2>2
<1>6. CASE Updates
    <2> DEFINE t == Of(P, UpdateClass(image[P[2]]))
    <2>1. /\ todo' = t \o Tail(todo) /\ IsSeq(t)
          /\ \A e \in Range(t) : e[2] \in Late
        BY <1>6, TodoIs, UpdatedSlots
    <2>2. ~ Adds /\ ~ Fills
        BY <1>6 DEF Updates, Adds, Fills, Copying
    <2> HIDE DEF t
    <2>3. CASE j \in DOMAIN t
        <3>1. todo'[j] \in Range(t)
            BY <1>2, <2>1, <2>3, Split
        <3> QED
            BY <2>1, <3>1 DEF Late
    <2>4. CASE j \notin DOMAIN t
        BY <1>4, <2>1, <2>2, <2>4
    <2> QED
        BY <2>3, <2>4
<1>7. CASE Adds
    <2> DEFINE k == Len(image) + 1
               o == src[HeadSource[2]]
               s == PersistSlots(o)
               t == Of(<<"img", k>>, s)
    <2>1. /\ todo' = t \o Tail(todo) /\ IsSeq(t) /\ IsSeq(s) /\ Shaped(o) /\ Fitted(o) /\ Short(o)
        BY <1>7, TodoIs, AddedTodo
    <2>2. ~ Fills
        BY <1>7 DEF Adds, Fills
    <2>3. CASE j \in DOMAIN t
        <3>1. LinedUp(o, s) /\ AstFirst(s)
            BY <2>1, LinedIs
        <3>2. /\ DOMAIN t = DOMAIN s
              /\ \A i \in DOMAIN s : t[i] = <<<<"img", k>>, s[i][1], s[i][2], s[i][3]>>
            BY <2>1, OfIs
        <3>3. image'[k].of = HeadSource /\ Len(image') = k
            BY <1>7 DEF Adds
        <3> HIDE DEF t, s, o, k
        <3>4. /\ \A i \in DOMAIN t : todo'[i] = t[i]
              /\ DOMAIN t \subseteq DOMAIN todo' /\ DOMAIN t = 1 .. Len(t) /\ Len(t) \in Nat
            BY <1>2, <2>1, Split
        <3>5. /\ todo'[j][1] = <<"img", k>> /\ todo'[j][2] = s[j][1] /\ todo'[j][1][2] = k
              /\ src[image'[k].of[2]] = o
            BY <2>3, <3>2, <3>3, <3>4 DEF o
        <3>6. ASSUME s[j][1] = "opcodes", Field(o, "literals") # <<>>
              PROVE  j + 1 \in DOMAIN todo' /\ todo'[j + 1][1] = <<"img", k>>
                     /\ todo'[j + 1][2] = "literals"
            <4>1. j + 1 \in DOMAIN s /\ s[j + 1][1] = "literals"
                BY <2>3, <3>1, <3>2, <3>6 DEF LinedUp
            <4> QED
                BY <3>2, <3>4, <4>1
        <3>7. ASSUME s[j][1] = "literals", First(o, "opcodes") # Null
              PROVE  j > 1 /\ todo'[j - 1][1] = <<"img", k>> /\ todo'[j - 1][2] = "opcodes"
            <4>1. j - 1 \in DOMAIN s /\ s[j - 1][1] = "opcodes"
                BY <2>3, <3>1, <3>2, <3>7 DEF LinedUp
            <4>2. j - 1 \in DOMAIN t /\ j \in Nat
                BY <2>3, <3>2, <3>4, <4>1
            <4>3. j > 1
                BY <3>4, <4>2
            <4>4. todo'[j - 1] = t[j - 1] /\ t[j - 1] = <<<<"img", k>>, s[j - 1][1], s[j - 1][2], s[j - 1][3]>>
                BY <3>2, <3>4, <4>1, <4>2
            <4> QED
                BY <4>1, <4>3, <4>4
        <3>8. s[j][1] = "ast" => j = 1
            BY <2>3, <3>1, <3>2 DEF AstFirst
        <3> QED
            BY <3>3, <3>5, <3>6, <3>7, <3>8
    <2>4. CASE j \notin DOMAIN t
        BY <1>4, <2>1, <2>2, <2>4
    <2> QED
        BY <2>3, <2>4
<1> QED
    BY <1>5, <1>6, <1>7

\* The block that is added is behind the one it belongs to.
LEMMA AstBehind ==
    ASSUME PersistInv, Adds, NEW k \in DOMAIN image,
           First(src[image[k].of[2]], "ast") = HeadSource
    PROVE  Len(image) = k
<1>1. k = HeadK /\ HeadF = "ast" /\ todo # <<>>
    BY OnlyHead DEF Adds
<1>2. IsSeq(todo) /\ 1 \in DOMAIN todo /\ Head(todo) = todo[1]
    BY <1>1, HeadMeans, TailIs
<1>3. todo[1][2] = "ast" /\ todo[1][1][2] = k
    BY <1>1, <1>2 DEF HeadF, HeadK, Owner
<1> QED
    BY <1>2, <1>3 DEF PersistInv, LoadPersist, Lined

LEMMA LiteralsBehind ==
    ASSUME PersistInv, Adds, NEW k \in DOMAIN image, NEW a \in DOMAIN image,
           First(src[image[k].of[2]], "opcodes") = image[a].of,
           First(src[image[k].of[2]], "literals") = HeadSource
    PROVE  Len(image) = a
<1> DEFINE o == src[image[k].of[2]]
           v == image[k].f["opcodes"][1]
<1>1. k = HeadK /\ HeadF = "literals" /\ todo # <<>>
    BY OnlyHead DEF Adds
<1>2. IsSeq(todo) /\ 1 \in DOMAIN todo /\ Head(todo) = todo[1]
    BY <1>1, HeadMeans, TailIs
<1>3. todo[1][2] = "literals" /\ todo[1][1][2] = k
    BY <1>1, <1>2 DEF HeadF, HeadK, Owner
<1>4. image[a].of # Null /\ IsGraph(src) /\ Blocks(src, image) /\ Once(image)
    BY BlockIs DEF PersistInv, CopyInv, TypeInv
<1>5. v = <<"img", Len(image)>>
    BY <1>2, <1>3, <1>4 DEF PersistInv, LoadPersist, Lined
<1>6. Slot(image, k, "opcodes", 1) /\ Source(src, image, k, "opcodes", 1) = image[a].of
    BY <1>4, FirstOf
<1>7. image[a].of[1] = "src"
    BY <1>4, BlockIs
<1>8. Done("persist", src, image, pool, k, "opcodes", 1)
    <2>1. v # image[a].of
        BY <1>5, <1>7
    <2> QED
        BY <1>6, <2>1 DEF PersistInv, LoadPersist, Started, Slot
<1>9. \E j \in DOMAIN image : v = <<"img", j>> /\ image[j].of = image[a].of
    <2>1. v # Null
        BY <1>5 DEF Null
    <2> QED
        BY <1>6, <1>8, <2>1 DEF Done, Turned, Base
<1> QED
    BY <1>4, <1>5, <1>9 DEF Once

\* Literals do not come into the image before the opcodes.
LEMMA OpcodesFirst ==
    ASSUME PersistInv, Adds, NEW k \in DOMAIN image, NEW b \in DOMAIN image,
           First(src[image[k].of[2]], "opcodes") = HeadSource,
           First(src[image[k].of[2]], "literals") = image[b].of
    PROVE  FALSE
<1> DEFINE n == image[k].of[2]
<1>1. k = HeadK /\ HeadF = "opcodes" /\ todo # <<>>
    BY OnlyHead DEF Adds
<1>2. IsSeq(todo) /\ 1 \in DOMAIN todo /\ Head(todo) = todo[1]
    BY <1>1, HeadMeans, TailIs
<1>3. todo[1][2] = "opcodes" /\ todo[1][1][2] = k
    BY <1>1, <1>2 DEF HeadF, HeadK, Owner
<1>4. /\ image[b].of # Null /\ IsGraph(src) /\ Blocks(src, image) /\ Once(image)
      /\ Unshared(src) /\ n \in DOMAIN src
    BY BlockIs DEF PersistInv, CopyInv, TypeInv
<1>5. /\ Slot(image, k, "literals", 1) /\ Source(src, image, k, "literals", 1) = image[b].of
      /\ Field(src[n], "literals") # <<>> /\ Part(src, image[b].of)
      /\ image[b].of # <<"src", "script">> /\ \A i \in DOMAIN src[n].f["literals"] : i = 1
    BY <1>4, FirstOf, FirstSlot
<1>6. 1 + 1 \in DOMAIN todo /\ todo[1 + 1][1] = todo[1][1] /\ todo[1 + 1][2] = "literals"
    BY <1>2, <1>3, <1>5 DEF PersistInv, LoadPersist, Lined
<1> DEFINE e == todo[1 + 1]
<1>7. e \in Range(todo) /\ e[1][2] = k /\ e[2] = "literals"
    BY <1>3, <1>6 DEF Range
<1> HIDE DEF e
<1>8. Slot(image, k, "literals", e[3]) /\ ModeFits(image[k], "literals", e[4])
    BY <1>7, Behind
<1>9. e[4] \in Fresh
    BY <1>8 DEF ModeFits, Fresh, Copying
<1>10. image[k].f["literals"][e[3]] = src[n].f["literals"][e[3]]
    BY <1>7, <1>9 DEF PersistInv, CopyInv, Untouched
<1>11. e[3] = 1
    <2>1. Alike(image[k], src[n])
        BY <1>4, BlockIs
    <2> QED
        BY <1>5, <1>8, <2>1 DEF Slot, Alike
<1>12. image[k].f["literals"][1] = image[b].of
    BY <1>5, <1>10, <1>11 DEF Source
<1>13. b # 1
    BY <1>5 DEF PersistInv, CopyInv
<1>14. PICK j \in DOMAIN image : \E f \in DOMAIN image[j].f : \E i \in DOMAIN image[j].f[f] :
            Made(src, image, xlat, b, j, f, i)
    BY <1>13, Zenon DEF PersistInv, CopyInv, Reached
<1>15. PICK f \in DOMAIN image[j].f : \E i \in DOMAIN image[j].f[f] :
            Made(src, image, xlat, b, j, f, i)
    BY <1>14
<1>16. PICK i \in DOMAIN image[j].f[f] : Made(src, image, xlat, b, j, f, i)
    BY <1>15
<1>17. /\ Slot(image, j, f, i) /\ f \notin Translated
       /\ Source(src, image, j, f, i) = image[b].of /\ image[j].f[f][i] # image[b].of
    BY <1>16 DEF Made, Slot, Source
<1>18. j = k /\ f = "literals" /\ i = 1
    BY <1>4, <1>5, <1>17, Sole DEF Part, Translated
<1> QED
    BY <1>12, <1>17, <1>18

\* Nothing that the new block owns has been copied, and the block is not its own part.
LEMMA PartsToCome ==
    ASSUME PersistInv, Adds, NEW f \in {"opcodes", "literals", "ast"},
           First(src[HeadSource[2]], f) # Null, NEW b \in DOMAIN image',
           First(src[HeadSource[2]], f) = image'[b].of
    PROVE  b = Len(image) + 1 /\ src[HeadSource[2]].kind = IF f = "literals" THEN "zvals" ELSE f
<1> DEFINE n == HeadSource[2]
           p == First(src[n], f)
<1>1. /\ NoCopy(image, HeadSource) /\ HeadSource = <<"src", n>> /\ n \in DOMAIN src
      /\ DOMAIN image' = DOMAIN image \cup {Len(image) + 1}
      /\ image'[Len(image) + 1].of = HeadSource
    BY DEF Adds
<1>2. /\ f \in DOMAIN src[n].f \ Translated /\ 1 \in DOMAIN src[n].f[f] /\ p = src[n].f[f][1]
      /\ Part(src, p) /\ src[p[2]].kind = IF f = "literals" THEN "zvals" ELSE f
    BY <1>1, FirstSlot
<1>3. IsGraph(src) /\ Unshared(src) /\ Blocks(src, image) /\ Parents(src, image)
      /\ image[1].of = <<"src", "script">>
    BY DEF PersistInv, CopyInv, TypeInv
<1>4. NoCopy(image, p)
    <2>1. NoCopy(image, <<"src", n>>)
        BY <1>1
    <2> HIDE DEF n, p
    <2>2. Part(src, src[n].f[f][1])
        BY <1>2
    <2>3. NoCopy(image, src[n].f[f][1])
        BY <1>1, <1>2, <1>3, <2>1, <2>2, NotYet
    <2> QED
        BY <1>2, <2>3
<1>5. b \notin DOMAIN image
    <2> SUFFICES ASSUME b \in DOMAIN image PROVE FALSE
        OBVIOUS
    <2>1. image'[b].of = image[b].of
        BY StepAdvances, Advanced
    <2> QED
        BY <1>4, <2>1 DEF NoCopy
<1>6. b = Len(image) + 1 /\ p = HeadSource
    BY <1>1, <1>5
<1> QED
    BY <1>2, <1>6

LEMMA BesideStep ==
    ASSUME PersistInv, Fills \/ Updates \/ Adds
    PROVE  Beside(src, image')
<1>1. PICK q : Advances(q)
    BY StepAdvances
<1>2. Beside(src, image) /\ todo # <<>>
    BY StepAdvances DEF PersistInv
<1>3. \A k \in DOMAIN image : image'[k].of = image[k].of
    BY <1>1, <1>2, Advanced
<1>4. ASSUME NEW k \in DOMAIN image' \ DOMAIN image
      PROVE  Adds /\ k = Len(image) + 1 /\ image'[k].of = HeadSource /\ HeadSource # Null
    <2>1. Adds /\ k = Len(image) + 1
        BY <1>4, StepAdvances
    <2> QED
        BY <2>1 DEF Adds
<1>5. \A k \in DOMAIN image' : image'[k].of # Null
    BY <1>3, <1>4, BlockIs DEF PersistInv, CopyInv, TypeInv
<1> SUFFICES ASSUME NEW k \in DOMAIN image', NEW b \in DOMAIN image'
             PROVE  LET o == src[image'[k].of[2]] IN
                    /\ o.kind = "ast_ref" /\ First(o, "ast") = image'[b].of => b = k + 1
                    /\ \A a \in DOMAIN image' :
                          o.kind \in {"op_array", "script"} /\ First(o, "opcodes") = image'[a].of
                             /\ First(o, "literals") = image'[b].of => b = a + 1
    BY DEF Beside
<1> DEFINE o == src[image'[k].of[2]]
<1>6. ASSUME o.kind = "ast_ref", First(o, "ast") = image'[b].of
      PROVE  b = k + 1
    <2>1. CASE k \notin DOMAIN image
        <3>1. Adds /\ o = src[HeadSource[2]]
            BY <1>4, <2>1
        <3>2. o.kind = "ast"
            BY <1>5, <1>6, <3>1, PartsToCome
        <3> QED
            BY <1>6, <3>2
    <2>2. CASE k \in DOMAIN image /\ b \in DOMAIN image
        BY <1>2, <1>3, <1>6, <2>2 DEF Beside
    <2>3. CASE k \in DOMAIN image /\ b \notin DOMAIN image
        <3>1. Adds /\ b = Len(image) + 1 /\ image'[b].of = HeadSource
            BY <1>4, <2>3
        <3>2. First(src[image[k].of[2]], "ast") = HeadSource
            BY <1>3, <1>6, <2>3, <3>1
        <3>3. Len(image) = k
            BY <2>3, <3>1, <3>2, AstBehind
        <3> QED
            BY <3>1, <3>3
    <2> QED
        BY <2>1, <2>2, <2>3
<1>7. ASSUME NEW a \in DOMAIN image', o.kind \in {"op_array", "script"},
             First(o, "opcodes") = image'[a].of, First(o, "literals") = image'[b].of
      PROVE  b = a + 1
    <2>1. CASE k \notin DOMAIN image
        <3>1. Adds /\ o = src[HeadSource[2]]
            BY <1>4, <2>1
        <3>2. o.kind = "opcodes"
            BY <1>5, <1>7, <3>1, PartsToCome
        <3> QED
            BY <1>7, <3>2
    <2>2. CASE k \in DOMAIN image /\ a \in DOMAIN image /\ b \in DOMAIN image
        BY <1>2, <1>3, <1>7, <2>2 DEF Beside
    <2>3. CASE k \in DOMAIN image /\ a \in DOMAIN image /\ b \notin DOMAIN image
        <3>1. Adds /\ b = Len(image) + 1 /\ image'[b].of = HeadSource
            BY <1>4, <2>3
        <3>2. /\ First(src[image[k].of[2]], "opcodes") = image[a].of
              /\ First(src[image[k].of[2]], "literals") = HeadSource
            BY <1>3, <1>7, <2>3, <3>1
        <3>3. Len(image) = a
            BY <2>3, <3>1, <3>2, LiteralsBehind
        <3> QED
            BY <3>1, <3>3
    <2>4. CASE k \in DOMAIN image /\ a \notin DOMAIN image
        <3>1. Adds /\ a = Len(image) + 1 /\ image'[a].of = HeadSource
            BY <1>4, <2>4
        <3>2. First(src[image[k].of[2]], "opcodes") = HeadSource
            BY <1>3, <1>7, <2>4, <3>1
        <3>3. CASE b \in DOMAIN image
            <4>1. First(src[image[k].of[2]], "literals") = image[b].of
                BY <1>3, <1>7, <2>4, <3>3
            <4> QED
                BY <2>4, <3>1, <3>2, <3>3, <4>1, OpcodesFirst
        <3>4. CASE b \notin DOMAIN image
            <4>1. First(src[image[k].of[2]], "literals") = HeadSource /\ HeadSource # Null
                BY <1>3, <1>4, <1>7, <2>4, <3>4
            <4>2. HeadF = "literals" /\ HeadF = "opcodes"
                BY <2>4, <3>1, <3>2, <4>1, OnlyHead
            <4> QED
                BY <4>2
        <3> QED
            BY <3>3, <3>4
    <2> QED
        BY <2>1, <2>2, <2>3, <2>4
<1> QED
    BY <1>6, <1>7

\* What is kept, put together.
LEMMA PersistInvStep ==
    ASSUME PersistInv, CopyInv', Fills \/ Updates \/ Adds
    PROVE  PersistInv'
<1>1. src' = src /\ ver' = ver /\ pass' = pass /\ pool' = pool
    BY StepAdvances
<1>2. CopyInv' /\ pass' = "persist" /\ Typed(src', ver') /\ Unshared(src') /\ AtHome(src')
    BY <1>1 DEF PersistInv
<1>3. Parents(src, image') /\ Beside(src, image')
    BY ParentsStep, BesideStep
<1>4. /\ Started(src, image', pool) /\ Awaited(src, image', pool, todo')
      /\ Renewed(image', todo') /\ Ordered(image', todo') /\ Paired(xlat')
      /\ Housed(src, image', xlat') /\ Lined(src, image', todo')
    BY StartedStep, AwaitedStep, RenewedStep, OrderedStep, HousedStep, LinedStep, PairedStep
<1>5. pool' = <<>>
    BY <1>1 DEF PersistInv, LoadPersist
<1>6. Parents(src', image') /\ Beside(src', image')
    BY <1>1, <1>3
<1>7. /\ Started(src', image', pool') /\ Awaited(src', image', pool', todo')
      /\ Housed(src', image', xlat') /\ Lined(src', image', todo')
    BY <1>1, <1>4
<1> QED
    BY <1>2, <1>4, <1>5, <1>6, <1>7 DEF PersistInv, LoadPersist

\* When no slot waits any more, every slot has had its turn.
LEMMA PersistEnds ==
    ASSUME PersistInv, todo = <<>>
    PROVE  AllDone("persist", src, image, pool)
<1>1. Range(todo) = {}
    BY DEF Range
<1>2. Awaited(src, image, pool, todo)
    BY DEF PersistInv, LoadPersist
<1> QED
    BY <1>1, <1>2 DEF Awaited, AllDone, Pending

\* Persist starts with the script.
LEMMA PersistStarts ==
    ASSUME CopyInv, CopyInv', StartPersist, Typed(src, ver), Unshared(src), AtHome(src),
           pool = <<>>
    PROVE  PersistInv'
<1> DEFINE o == src["script"]
           s == PersistSlots(o)
           t == Of(<<"img", 1>>, s)
           b == [kind |-> "script", of |-> <<"src", "script">>, f |-> o.f]
<1>1. /\ pass' = "persist" /\ xlat' = <<>> /\ image' = <<b>> /\ todo' = t
      /\ src' = src /\ ver' = ver /\ pool' = pool
    BY DEF StartPersist
<1>2. IsGraph(src) /\ o.kind = "script" /\ "script" \in DOMAIN src /\ Shaped(o)
    BY DEF CopyInv, TypeInv, IsGraph
<1>3. Fitted(o) /\ Short(o)
    BY <1>2, FittedIs DEF Alike
<1>4. ~ Passed(o)
    <2>1. "scope" \notin FieldsOf("script", ver)
        BY SMT DEF FieldsOf, OpArrayFields
    <2>2. Field(o, "scope") = <<>>
        BY <1>2, <1>3, <2>1 DEF Fitted, Field
    <2> QED
        BY <2>2 DEF Passed, OpcodesKnown, First
<1>5. PersistFine(o, s)
    BY <1>2, PersistIs
<1>6. /\ IsSeq(s) /\ \A x \in Range(s) : SlotFine(o, x[1], x[3])
    BY <1>5 DEF PersistFine, Within
<1>7. /\ IsSeq(t) /\ DOMAIN t = DOMAIN s
      /\ \A j \in DOMAIN s : t[j] = <<<<"img", 1>>, s[j][1], s[j][2], s[j][3]>>
      /\ \A e \in Range(t) : e[1] = <<"img", 1>>
    BY <1>6, OfIs
<1>8. /\ DOMAIN image' = {1} /\ Len(image') = 1 /\ image'[1] = b
    BY <1>1
<1>9. /\ image'[1].kind = "script" /\ image'[1].of = <<"src", "script">> /\ image'[1].f = o.f
    BY <1>8
<1> HIDE DEF b
<1>10. \A k, f, i : Slot(image', k, f, i) => /\ k = 1 /\ f \in DOMAIN o.f /\ i \in DOMAIN o.f[f]
                                             /\ image'[k].f[f][i] = Source(src, image', k, f, i)
    BY <1>8, <1>9 DEF Slot, Source
<1>11. Started(src, image', pool)
    BY <1>10 DEF Started, Slot
<1>12. Awaited(src, image', pool, t)
    <2> SUFFICES ASSUME NEW k \in DOMAIN image', NEW f \in DOMAIN image'[k].f,
                        NEW i \in DOMAIN image'[k].f[f]
                 PROVE  Pending(t, k, f, i)
        BY DEF Awaited
    <2>1. k = 1 /\ f \in DOMAIN o.f /\ i \in DOMAIN o.f[f]
        BY <1>10 DEF Slot
    <2>2. f \notin Late
        <3>1. o.f[f] # <<>>
            BY <2>1
        <3>2. f \in FieldsOf("script", ver)
            BY <1>2, <1>3, <2>1, <3>1 DEF Fitted
        <3> QED
            BY <3>2, SMT DEF FieldsOf, OpArrayFields, Late
    <2>3. \E m : m # "update" /\ <<f, i, m>> \in Range(s)
        BY <1>2, <1>3, <1>4, <2>1, <2>2, PersistCovers
    <2>4. PICK m : m # "update" /\ <<f, i, m>> \in Range(s)
        BY <2>3
    <2>5. <<<<"img", 1>>, f, i, m>> \in Range(t)
        BY <1>6, <2>4, OfHas
    <2> QED
        BY <2>1, <2>4, <2>5 DEF Pending
<1>13. Renewed(image', t)
    BY <1>7, <1>9 DEF Renewed
<1>14. Ordered(image', t)
    BY <1>7, <1>9 DEF Ordered, Range
<1>15. Lined(src, image', t)
    <2>1. LinedUp(o, s) /\ AstFirst(s)
        BY <1>2, <1>3, LinedIs
    <2>0. /\ \A j \in DOMAIN t : t[j][1][2] = 1
          /\ src[image'[1].of[2]] = o /\ Len(image') = 1
        BY <1>7, <1>8, <1>9 DEF Range
    <2> HIDE DEF o, s, t
    <2> SUFFICES ASSUME NEW j \in DOMAIN t
                 PROVE  /\ t[j][2] = "opcodes" /\ Field(o, "literals") # <<>> =>
                             j + 1 \in DOMAIN t /\ t[j + 1][1] = t[j][1] /\ t[j + 1][2] = "literals"
                        /\ t[j][2] = "literals" =>
                             \/ First(o, "opcodes") = Null
                             \/ j > 1 /\ t[j - 1][1] = t[j][1] /\ t[j - 1][2] = "opcodes"
                        /\ t[j][2] = "ast" => j = 1
        BY <2>0 DEF Lined
    <2>2. DOMAIN s = 1 .. Len(s) /\ Len(s) \in Nat
        BY <1>6, IsSeqParts
    <2>3. t[j][1] = <<"img", 1>> /\ t[j][2] = s[j][1] /\ j \in DOMAIN s
        BY <1>7
    <2>4. ASSUME s[j][1] = "opcodes", Field(o, "literals") # <<>>
          PROVE  j + 1 \in DOMAIN t /\ t[j + 1][1] = <<"img", 1>> /\ t[j + 1][2] = "literals"
        BY <1>7, <2>1, <2>3, <2>4 DEF LinedUp
    <2>5. ASSUME s[j][1] = "literals", First(o, "opcodes") # Null
          PROVE  j > 1 /\ t[j - 1][1] = <<"img", 1>> /\ t[j - 1][2] = "opcodes"
        <3>1. j - 1 \in DOMAIN s /\ s[j - 1][1] = "opcodes"
            BY <2>1, <2>3, <2>5 DEF LinedUp
        <3>2. j > 1
            BY <2>2, <2>3, <3>1
        <3>3. t[j - 1] = <<<<"img", 1>>, s[j - 1][1], s[j - 1][2], s[j - 1][3]>>
            BY <1>7, <3>1
        <3> QED
            BY <3>1, <3>2, <3>3
    <2>6. s[j][1] = "ast" => j = 1
        BY <2>1, <2>3 DEF AstFirst
    <2> QED
        BY <2>3, <2>4, <2>5, <2>6
<1>16. Housed(src, image', xlat')
    <2> SUFFICES ASSUME NEW n \in DOMAIN src, src[n].kind = "class", "script" \in ClassParts(src, n)
                 PROVE  FALSE
        BY <1>8, <1>9 DEF Housed
    <2>1. Typed(src, ver) /\ "script" # n
        BY <1>2
    <2>2. \E m \in ClassParts(src, n) : m \in DOMAIN src /\
              \E f \in DOMAIN src[m].f \ Translated : \E i \in DOMAIN src[m].f[f] :
                 src[m].f[f][i] = <<"src", "script">>
        BY <2>1, PartsParent, Zenon
    <2> QED
        BY <1>2, <2>2 DEF IsGraph, Null
<1>17. Paired(xlat')
    BY <1>1 DEF Paired
<1>18. Parents(src, image')
    BY <1>8 DEF Parents
<1>19. Beside(src, image')
    <2>1. ASSUME NEW f PROVE First(o, f) # <<"src", "script">>
        <3>1. CASE Field(o, f) = <<>>
            BY <3>1 DEF First, Null
        <3>2. CASE Field(o, f) # <<>>
            <4>1. f \in DOMAIN o.f /\ o.f[f] # <<>> /\ First(o, f) = o.f[f][1]
                BY <3>2 DEF First, Field
            <4>2. 1 \in DOMAIN o.f[f]
                <5>1. o.f[f] \in Seq(Range(o.f[f]))
                    BY <1>2, <4>1 DEF Shaped, IsSeq
                <5> QED
                    BY <4>1, <5>1
            <4> QED
                BY <1>2, <4>1, <4>2 DEF IsGraph, Null
        <3> QED
            BY <3>1, <3>2
    <2> HIDE DEF o
    <2>2. \A k \in DOMAIN image' : image'[k].of = <<"src", "script">>
        BY <1>8, <1>9
    <2>3. \A k \in DOMAIN image' : src[image'[k].of[2]] = o
        BY <2>2 DEF o
    <2> QED
        BY <2>1, <2>2, <2>3 DEF Beside
<1>20. /\ Started(src', image', pool') /\ Awaited(src', image', pool', todo')
       /\ Renewed(image', todo') /\ Ordered(image', todo') /\ Lined(src', image', todo')
       /\ Housed(src', image', xlat') /\ Parents(src', image') /\ Beside(src', image')
       /\ Typed(src', ver') /\ Unshared(src') /\ AtHome(src') /\ pool' = <<>>
    BY <1>1, <1>11, <1>12, <1>13, <1>14, <1>15, <1>16, <1>18, <1>19
<1> QED
    BY <1>1, <1>17, <1>20 DEF PersistInv, LoadPersist

---------------------------------------------------------------------------
\* While serialize or unserialize runs, a slot is as the traversal before has left it or
\* as this one leaves it.  A structure is entered as a whole: the slots of one that was
\* reached wait or are done, those of one that will be reached do neither.
Before(ps) == IF ps = "serialize" THEN "persist" ELSE "serialize"
Halfway(ps, objects, im, pl) ==
    \A k \in DOMAIN im : \A f \in DOMAIN im[k].f : \A i \in DOMAIN im[k].f[f] :
        Done(Before(ps), objects, im, pl, k, f, i) \/ Done(ps, objects, im, pl, k, f, i)
Entered(ps, objects, im, pl, td, k) ==
    \A f \in DOMAIN im[k].f : \A i \in DOMAIN im[k].f[f] :
        Pending(td, k, f, i) \/ Done(ps, objects, im, pl, k, f, i)
Unentered(ps, objects, im, pl, td, k) ==
    \A f \in DOMAIN im[k].f : \A i \in DOMAIN im[k].f[f] :
        ~ Pending(td, k, f, i) /\ Done(Before(ps), objects, im, pl, k, f, i)
Closed(ps, objects, im, pl, td) ==
    /\ Entered(ps, objects, im, pl, td, 1)
    /\ \A k \in DOMAIN im : \A f \in DOMAIN im[k].f \ Translated : \A i \in DOMAIN im[k].f[f] :
          \A j \in DOMAIN im : im[k].f[f][i] = <<Base(ps), j>> =>
              Entered(ps, objects, im, pl, td, j)
Opened(ps, objects, im, pl, td) ==
    \A k \in DOMAIN im : \A f \in DOMAIN im[k].f \ Translated : \A i \in DOMAIN im[k].f[f] :
        \A j \in DOMAIN im :
            im[k].f[f][i] = <<Base(Before(ps)), j>> /\ im[j].kind \notin {"str", "ht"} =>
                Unentered(ps, objects, im, pl, td, j)
\* A slot that waits waits once and is not done; only an array, which is guarded, may be
\* entered twice.
Unturned(ps, objects, im, pl, td) ==
    \A a \in DOMAIN td :
        im[td[a][1][2]].kind # "ht" =>
            /\ Done(Before(ps), objects, im, pl, td[a][1][2], td[a][2], td[a][3])
            /\ \A b \in DOMAIN td : SlotOf(td[a], td[b]) => a = b
Handled(im, td) == \A e \in Range(td) : Handles(im[e[1][2]].kind, e[2], e[4])
\* The pool holds strings of the image, each once.
PoolFine(im, pl) ==
    /\ \A a, b \in DOMAIN pl : pl[a] = pl[b] => a = b
    /\ \A a \in DOMAIN pl : \E j \in DOMAIN im : im[j].of = pl[a]
Pooled(im, pl, xl) ==
    /\ \A p \in DOMAIN xl : /\ p = <<"img", p[2]>> /\ p[2] \in DOMAIN im
                            /\ xl[p] = <<"pool", xl[p][2]>> /\ xl[p][2] \in 0 .. Len(pl) - 1
                            /\ pl[xl[p][2] + 1] = im[p[2]].of
    /\ \A a \in DOMAIN pl : \E p \in DOMAIN xl : im[p[2]].of = pl[a]
LoadRelocate ==
    /\ Halfway(pass, src, image, pool) /\ Closed(pass, src, image, pool, todo)
    /\ Opened(pass, src, image, pool, todo) /\ Unturned(pass, src, image, pool, todo)
    /\ Handled(image, todo) /\ PoolFine(image, pool)
    /\ pass = "serialize" => Pooled(image, pool, xlat)
RelocInv ==
    /\ CopyInv /\ pass \in {"serialize", "unserialize"}
    /\ Typed(src, ver) /\ Unshared(src) /\ image[1].of = <<"src", "script">>
    /\ Parents(src, image) /\ Beside(src, image) /\ LoadRelocate

\* A slot as a traversal has left it.
Left(ps, objects, im, pl, s, v) ==
    \/ (s = Null \/ objects[s[2]].kind = "complex_ast") /\ v = Null
    \/ /\ s # Null /\ objects[s[2]].kind = "str" /\ ps = "persist"
       /\ \E j \in DOMAIN im : v = <<"img", j>> /\ im[j].of = s
    \/ /\ s # Null /\ objects[s[2]].kind = "str" /\ ps = "serialize"
       /\ \E n \in 0 .. Len(pl) - 1 : v = <<"pool", n>> /\ pl[n + 1] = s
    \/ /\ s # Null /\ objects[s[2]].kind = "str" /\ ps = "unserialize"
       /\ v = <<"interned", s>>
    \/ /\ s # Null /\ objects[s[2]].kind \notin {"str", "complex_ast"}
       /\ \E j \in DOMAIN im : v = <<Base(ps), j>> /\ im[j].of = s
LEMMA LeftIs ==
    ASSUME NEW ps \in {"persist", "serialize", "unserialize"}, NEW objects, NEW im, NEW pl,
           NEW s, NEW v
    PROVE  Turned(ps, objects, im, pl, s, v) <=> Left(ps, objects, im, pl, s, v)
<1>1. CASE s = Null \/ objects[s[2]].kind = "complex_ast"
    BY <1>1 DEF Turned, Left
<1>2. CASE s # Null /\ objects[s[2]].kind = "str"
    <2>1. CASE ps = "persist"
        BY <1>2, <2>1 DEF Turned, Left, Base
    <2>2. CASE ps = "serialize"
        BY <1>2, <2>2 DEF Turned, Left, Base
    <2>3. CASE ps = "unserialize"
        BY <1>2, <2>3 DEF Turned, Left, Base
    <2> QED
        BY <2>1, <2>2, <2>3
<1>3. CASE s # Null /\ objects[s[2]].kind \notin {"str", "complex_ast"}
    BY <1>3 DEF Turned, Left
<1> QED
    BY <1>1, <1>2, <1>3

\* The slot that is handled.
LEMMA HeadTurns ==
    ASSUME RelocInv, todo # <<>>
    PROVE  /\ Slot(image, HeadK, HeadF, HeadI) /\ P = image[HeadK].f[HeadF][HeadI]
           /\ Handles(image[HeadK].kind, HeadF, Mode)
           /\ IsSeq(todo) /\ IsSeq(Tail(todo)) /\ Head(todo) \in Range(todo)
           /\ HeadSource # Null =>
                 /\ HeadSource = <<"src", HeadSource[2]>> /\ HeadSource[2] \in DOMAIN src
                 /\ src[HeadSource[2]].kind \in LeadsTo(image[HeadK].kind, HeadF)
           /\ HeadF \in FieldsOf(image[HeadK].kind, ver)
           /\ \/ Turned(Before(pass), src, image, pool, HeadSource, P)
              \/ /\ image[HeadK].kind = "ht" /\ Mode = "guard"
                 /\ Turned(pass, src, image, pool, HeadSource, P)
<1>1. TypeInv /\ IsGraph(src) /\ Blocks(src, image) /\ Typed(src, ver)
      /\ pass \in {"serialize", "unserialize"}
    BY DEF RelocInv, CopyInv, TypeInv
<1>2. /\ Slot(image, HeadK, HeadF, HeadI) /\ P = image[HeadK].f[HeadF][HeadI]
      /\ IsSeq(todo) /\ IsSeq(Tail(todo))
    BY <1>1, HeadIs DEF Entry, OwnerFine, Tag, Its, Slot, HeadK, HeadF, HeadI, Owner
<1>3. Head(todo) \in Range(todo) /\ 1 \in DOMAIN todo /\ Head(todo) = todo[1]
    BY <1>2, HeadOrTail, TailIs
<1>4. Handles(image[HeadK].kind, HeadF, Mode)
    BY <1>3 DEF RelocInv, LoadRelocate, Handled, HeadK, HeadF, Mode, Owner
<1> DEFINE n == image[HeadK].of[2]
<1>5. /\ n \in DOMAIN src /\ HeadF \in DOMAIN src[n].f /\ HeadI \in DOMAIN src[n].f[HeadF]
      /\ HeadSource = src[n].f[HeadF][HeadI]
      /\ HeadSource # Null => HeadSource = <<"src", HeadSource[2]>> /\ HeadSource[2] \in DOMAIN src
    BY <1>1, <1>2, SourceIs DEF HeadSource
<1>6. image[HeadK].kind = src[n].kind /\ Shaped(src[n])
    BY <1>1, <1>2, BlockIs DEF Slot
<1> HIDE DEF n
<1>7. /\ HeadSource # Null => src[HeadSource[2]].kind \in LeadsTo(image[HeadK].kind, HeadF)
      /\ HeadF \in FieldsOf(image[HeadK].kind, ver)
    BY <1>1, <1>5, <1>6, TypedSlot
<1>8. CASE image[HeadK].kind # "ht"
    <2>1. Done(Before(pass), src, image, pool, HeadK, HeadF, HeadI)
        BY <1>3, <1>8 DEF RelocInv, LoadRelocate, Unturned, HeadK, HeadF, HeadI, Owner
    <2>2. Turned(Before(pass), src, image, pool, HeadSource, P)
        BY <1>2, <2>1 DEF Done, HeadSource
    <2> QED
        BY <1>2, <1>3, <1>4, <1>5, <1>7, <2>2
<1>9. CASE image[HeadK].kind = "ht"
    <2>1. \/ Done(Before(pass), src, image, pool, HeadK, HeadF, HeadI)
          \/ Done(pass, src, image, pool, HeadK, HeadF, HeadI)
        BY <1>2 DEF RelocInv, LoadRelocate, Halfway, Slot
    <2>2. \/ Turned(Before(pass), src, image, pool, HeadSource, P)
          \/ Turned(pass, src, image, pool, HeadSource, P)
        BY <1>2, <2>1 DEF Done, HeadSource
    <2>3. Mode = "guard"
        BY <1>4, <1>9 DEF Handles
    <2> QED
        BY <1>2, <1>3, <1>4, <1>5, <1>7, <1>9, <2>2, <2>3
<1> QED
    BY <1>8, <1>9

\* There are no more strings in the pool than blocks in the image.
LEMMA PoolSmall ==
    ASSUME NEW im, IsSeq(im), NEW pl, IsSeq(pl), PoolFine(im, pl)
    PROVE  Len(pl) <= Len(im)
<1>1. /\ DOMAIN pl = 1 .. Len(pl) /\ Len(pl) \in Nat /\ DOMAIN im = 1 .. Len(im) /\ Len(im) \in Nat
    BY IsSeqParts
<1> SUFFICES ASSUME ~ (Len(pl) <= Len(im)) PROVE FALSE
    OBVIOUS
<1> DEFINE S == 1 .. Len(pl)
           T == 1 .. Len(im)
           g == [a \in S |-> CHOOSE j \in T : im[j].of = pl[a]]
<1>2. IsFiniteSet(S) /\ IsFiniteSet(T) /\ Cardinality(S) = Len(pl) /\ Cardinality(T) = Len(im)
    <2>1. 1 \in Int /\ Len(pl) \in Int /\ Len(im) \in Int
        BY <1>1
    <2>2. IsFiniteSet(S) /\ Cardinality(S) = IF 1 > Len(pl) THEN 0 ELSE Len(pl) - 1 + 1
        BY <2>1, FS_Interval
    <2>3. IsFiniteSet(T) /\ Cardinality(T) = IF 1 > Len(im) THEN 0 ELSE Len(im) - 1 + 1
        BY <2>1, FS_Interval
    <2> QED
        BY <1>1, <2>2, <2>3
<1>3. \A a \in S : g[a] \in T /\ im[g[a]].of = pl[a]
    BY <1>1 DEF PoolFine
<1>4. g \in [S -> T]
    BY <1>3
<1> HIDE DEF S, T, g
<1>5. Cardinality(T) < Cardinality(S)
    BY <1>1, <1>2
<1>6. \E x, y \in S : x # y /\ g[x] = g[y]
    BY <1>2, <1>4, <1>5, FS_PigeonHole
<1> QED
    BY <1>1, <1>3, <1>6 DEF PoolFine, S

Extends(pl, new) ==
    /\ Len(pl) \in Nat /\ Len(new) \in Nat /\ Len(pl) <= Len(new)
    /\ \A a \in 1 .. Len(pl) : new[a] = pl[a]
\* What a step of a relocation does: the slot has its new value; what it leads to is
\* entered, or has nothing to enter.
Turns(v) ==
    /\ todo # <<>>
    /\ Grows(image, image') /\ Writes(image, image', HeadK, HeadF, HeadI, v)
    /\ DOMAIN image' = DOMAIN image /\ Len(image') = Len(image)
    /\ Turned(pass, src, image, pool', HeadSource, v)
    /\ Extends(pool, pool') /\ src' = src /\ ver' = ver /\ pass' = pass
Leaves(v) ==
    /\ todo' = Tail(todo)
    /\ \A j \in DOMAIN image : v = <<Base(pass), j>> =>
          HeadF \in Translated \/ image[j].kind = "ranges" \/ v = P
Enters(v, j) ==
    /\ j \in DOMAIN image /\ v = <<Base(pass), j>> /\ P = <<Base(Before(pass)), j>>
    /\ HeadF \notin Translated /\ image[j].kind # "str"
    /\ todo' = Of(<<Tag(pass), j>>, IF pass = "serialize" THEN SerializeSlots(image[j])
                                    ELSE UnserializeSlots(image[j])) \o Tail(todo)
Moves == \E v : Turns(v) /\ (Leaves(v) \/ \E j : Enters(v, j))
RelocNext ==
    \/ SerializeSkip \/ SerializeInterned \/ SerializePtr \/ SerializeNext
    \/ UnserializeSkip \/ UnserializeInterned \/ UnserializePtr \/ UnserializeNext

LEMMA ExtendsSame == ASSUME NEW pl, IsSeq(pl) PROVE Extends(pl, pl)
BY IsSeqParts DEF Extends

\* Which actions may handle a slot, by what it holds.
LEMMA SkipMoves ==
    ASSUME RelocInv, SerializeSkip \/ UnserializeSkip,
           Turned(pass, src, image, pool, HeadSource, P)
    PROVE  Moves
<1>1. /\ todo # <<>> /\ image' = image /\ pool' = pool /\ src' = src /\ ver' = ver /\ pass' = pass
      /\ todo' = Tail(todo)
    BY DEF SerializeSkip, UnserializeSkip, At, Skip
<1>2. Slot(image, HeadK, HeadF, HeadI) /\ P = image[HeadK].f[HeadF][HeadI]
    BY <1>1, HeadTurns
<1>3. Grows(image, image') /\ Writes(image, image', HeadK, HeadF, HeadI, P)
    BY <1>1, <1>2 DEF Grows, Alike, Writes
<1>4. Extends(pool, pool')
    BY <1>1, ExtendsSame DEF RelocInv, CopyInv, TypeInv
<1>5. Turns(P)
    BY <1>1, <1>3, <1>4 DEF Turns
<1>6. Leaves(P)
    BY <1>1 DEF Leaves
<1> QED
    BY <1>5, <1>6 DEF Moves

LEMMA SetMoves ==
    ASSUME RelocInv, todo # <<>>, NEW v, image' = Set(image, v), Extends(pool, pool'),
           src' = src, ver' = ver, pass' = pass,
           Turned(pass, src, image, pool', HeadSource, v)
    PROVE  Turns(v)
<1>1. Slot(image, HeadK, HeadF, HeadI) /\ Blocks(src, image)
    BY HeadTurns DEF RelocInv, CopyInv, TypeInv
<1>2. image' = Put(image, HeadK, HeadF, HeadI, v)
    BY DEF Set, Put, HeadK, HeadF, HeadI
<1>3. /\ Grows(image, image') /\ DOMAIN image' = DOMAIN image /\ Len(image') = Len(image)
      /\ Writes(image, image', HeadK, HeadF, HeadI, v)
    BY <1>1, <1>2, SetIs DEF Slot
<1> QED
    BY <1>3 DEF Turns

\* The slot holds nothing.
LEMMA NothingMoves ==
    ASSUME RelocInv, RelocNext, HeadSource = Null \/ src[HeadSource[2]].kind = "complex_ast"
    PROVE  Moves
<1>1. todo # <<>>
    BY DEF RelocNext, SerializeSkip, SerializeInterned, SerializePtr, SerializeNext,
       UnserializeSkip, UnserializeInterned, UnserializePtr, UnserializeNext, At
<1>2. P = Null
    BY <1>1, HeadTurns DEF Turned
<1>3. Mode # "next"
    <2> SUFFICES ASSUME Mode = "next" PROVE FALSE
        OBVIOUS
    <2>1. HeadF = "ast" /\ HeadF \in FieldsOf(image[HeadK].kind, ver)
          /\ Slot(image, HeadK, HeadF, HeadI)
        BY <1>1, HeadTurns DEF Handles
    <2>2. image[HeadK].kind = "ast_ref"
        BY <2>1, SMT DEF FieldsOf, Tables, OpArrayFields
    <2> DEFINE n == image[HeadK].of[2]
    <2>3. /\ n \in DOMAIN src /\ Alike(image[HeadK], src[n]) /\ Shaped(src[n])
          /\ src[n].kind = "ast_ref" /\ Typed(src, ver)
        BY <2>1, <2>2, BlockIs DEF RelocInv, CopyInv, TypeInv, Slot
    <2>4. First(src[n], "ast") # Null
        BY <2>3 DEF Typed
    <2>5. HeadI \in DOMAIN src[n].f["ast"] /\ HeadSource = src[n].f["ast"][HeadI]
        BY <2>1, <2>3 DEF Slot, Alike, HeadSource, Source
    <2>6. HeadI = 1 /\ First(src[n], "ast") = src[n].f["ast"][1]
        <3>1. Short(src[n]) /\ "ast" \in DOMAIN src[n].f
            BY <2>1, <2>3, FittedIs DEF Slot, Alike
        <3> QED
            BY <2>3, <2>5, <3>1, SlotOne
    <2>7. HeadSource # Null
        BY <2>4, <2>5, <2>6
    <2>8. src[HeadSource[2]].kind \in LeadsTo(image[HeadK].kind, HeadF)
        BY <1>1, <2>7, HeadTurns
    <2>9. src[HeadSource[2]].kind = "ast"
        BY <2>1, <2>8 DEF LeadsTo
    <2> QED
        BY <2>7, <2>9
<1>4. SerializeSkip \/ UnserializeSkip
    BY <1>2, <1>3 DEF RelocNext, SerializeInterned, SerializePtr, SerializeNext,
       UnserializeInterned, UnserializePtr, UnserializeNext, Is
<1>5. Turned(pass, src, image, pool, HeadSource, P)
    BY <1>2 DEF Turned
<1> QED
    BY <1>4, <1>5, SkipMoves

\* The slot is one of an array that was entered before.
LEMMA AgainMoves ==
    ASSUME RelocInv, RelocNext, Mode = "guard", image[HeadK].kind = "ht",
           Turned(pass, src, image, pool, HeadSource, P)
    PROVE  Moves
<1>1. todo # <<>> /\ pass \in {"serialize", "unserialize"}
    BY DEF RelocNext, SerializeSkip, SerializeInterned, SerializePtr, SerializeNext,
       UnserializeSkip, UnserializeInterned, UnserializePtr, UnserializeNext, At, RelocInv
<1>2. HeadF = "data"
    <2>1. HeadF \in FieldsOf("ht", ver)
        BY <1>1, HeadTurns
    <2> QED
        BY <2>1, SMT DEF FieldsOf, Tables
<1>3. HeadSource # Null => src[HeadSource[2]].kind \in {"zvals", "attrs"}
    <2>1. HeadSource # Null => src[HeadSource[2]].kind \in LeadsTo("ht", "data")
        BY <1>1, <1>2, HeadTurns
    <2> QED
        BY <2>1 DEF LeadsTo
<1>4. P = Null \/ (HeadSource # Null /\ P[1] = Base(pass))
    BY <1>1, <1>3 DEF Turned
<1>5. pass = "serialize" => IsSerialized(P)
    BY <1>4 DEF IsSerialized, Base, Null
<1>6. pass = "unserialize" => P = Null \/ IsUnserialized(P)
    BY <1>4 DEF IsUnserialized, Base
<1>7. SerializeSkip \/ UnserializeSkip
    BY <1>5, <1>6 DEF RelocNext, SerializeInterned, SerializePtr, SerializeNext, IsString, IsGuarded,
       IsPtr, UnserializeInterned, UnserializePtr, UnserializeNext, Is, At
<1> QED
    BY <1>7, SkipMoves

LEMMA KindAt ==
    ASSUME NEW t \in {"img", "off", "mem"}, NEW j
    PROVE  /\ Kind(<<t, j>>) = image[j].kind /\ Obj(<<t, j>>) = image[j]
           /\ <<t, j>> # Null /\ <<t, j>>[1] = t /\ <<t, j>>[2] = j
BY DEF Kind, IsBlock, Obj, Null

LEMMA RelocHas ==
    ASSUME RelocInv, RelocNext
    PROVE  /\ todo # <<>> /\ pass \in {"serialize", "unserialize"} /\ src' = src /\ ver' = ver
           /\ pass' = pass
           /\ pass = "serialize" =>
                 SerializeSkip \/ SerializeInterned \/ SerializePtr \/ SerializeNext
           /\ pass = "unserialize" =>
                 UnserializeSkip \/ UnserializeInterned \/ UnserializePtr \/ UnserializeNext
BY DEF RelocNext, SerializeSkip, SerializeInterned, SerializePtr, SerializeNext,
       UnserializeSkip, UnserializeInterned, UnserializePtr, UnserializeNext, At, RelocInv

\* A string goes to the pool and comes back.
LEMMA StringMode ==
    ASSUME RelocInv, todo # <<>>, HeadSource # Null, src[HeadSource[2]].kind = "str"
    PROVE  Mode \in {"str", "zval", "type"} /\ HeadF \notin Translated
<1>1. /\ Handles(image[HeadK].kind, HeadF, Mode)
      /\ src[HeadSource[2]].kind \in LeadsTo(image[HeadK].kind, HeadF)
    BY HeadTurns
<1>2. Mode \notin {"ptr", "guard", "flat", "next"}
    BY <1>1, HandlesLead
<1>3. Mode \in {"str", "ptr", "guard", "flat", "zval", "type", "next"}
      /\ (Mode = "flat" <=> HeadF \in Translated \cup {"live_range", "try_catch"})
    BY <1>1, Zenon DEF Handles
<1> QED
    BY <1>2, <1>3

LEMMA StringOut ==
    ASSUME RelocInv, RelocNext, pass = "serialize", HeadSource # Null,
           src[HeadSource[2]].kind = "str",
           Turned("persist", src, image, pool, HeadSource, P)
    PROVE  /\ Moves /\ SerializeInterned
           /\ P = <<"img", P[2]>> /\ P[2] \in DOMAIN image /\ image[P[2]].of = HeadSource
<1>1. todo # <<>> /\ src' = src /\ ver' = ver /\ pass' = pass
      /\ (SerializeSkip \/ SerializeInterned \/ SerializePtr \/ SerializeNext)
    BY RelocHas
<1>2. Mode \in {"str", "zval", "type"} /\ HeadF \notin Translated
    BY <1>1, StringMode
<1>3. PICK j \in DOMAIN image : P = <<"img", j>> /\ image[j].of = HeadSource
    BY DEF Turned, Base
<1>4. image[j].kind = "str" /\ IsSeq(pool)
    BY <1>3, BlockIs DEF RelocInv, CopyInv, TypeInv
<1>5. Kind(P) = "str" /\ P # Null /\ P[1] = "img" /\ P[2] = j
    BY <1>3, <1>4, KindAt
<1>6. IsString /\ ~ IsGuarded /\ ~ IsPtr /\ ~ Is("next") /\ ~ IsSerialized(P)
    BY <1>2, <1>5 DEF IsString, IsGuarded, IsPtr, Is, Holds, IsSerialized
<1>7. SerializeInterned
    BY <1>1, <1>5, <1>6 DEF SerializeSkip, SerializePtr, SerializeNext
<1>8. todo' = Tail(todo)
    BY <1>7 DEF SerializeInterned, Skip
<1>9. CASE P \in DOMAIN xlat
    <2>1. image' = Set(image, xlat[P]) /\ pool' = pool
        BY <1>7, <1>9 DEF SerializeInterned
    <2>2. /\ xlat[P] = <<"pool", xlat[P][2]>> /\ xlat[P][2] \in 0 .. Len(pool) - 1
          /\ pool[xlat[P][2] + 1] = HeadSource
        BY <1>3, <1>5, <1>9 DEF RelocInv, LoadRelocate, Pooled
    <2>3. Left("serialize", src, image, pool', HeadSource, xlat[P])
        BY <2>1, <2>2 DEF Left
    <2>4. Turned(pass, src, image, pool', HeadSource, xlat[P])
        BY <2>3, LeftIs
    <2>5. Extends(pool, pool')
        BY <1>4, <2>1, ExtendsSame
    <2>6. Turns(xlat[P])
        BY <1>1, <2>1, <2>4, <2>5, SetMoves
    <2>7. Leaves(xlat[P])
        BY <1>8, <2>2 DEF Leaves, Base
    <2>8. Moves
        BY <2>6, <2>7 DEF Moves
    <2> QED
        BY <1>3, <1>5, <1>7, <2>8
<1>10. CASE P \notin DOMAIN xlat
    <2> DEFINE q == <<"pool", Len(pool)>>
    <2>1. image' = Set(image, q) /\ pool' = Append(pool, HeadSource)
        <3>1. Origin(P) = HeadSource
            BY <1>3, <1>5 DEF Origin
        <3>2. image' = Set(image, q) /\ pool' = Append(pool, Origin(P))
            BY <1>5, <1>7, <1>10 DEF SerializeInterned
        <3> QED
            BY <3>1, <3>2
    <2>2. /\ Len(pool') = Len(pool) + 1 /\ Len(pool) \in Nat /\ pool'[Len(pool) + 1] = HeadSource
          /\ \A a \in 1 .. Len(pool) : pool'[a] = pool[a]
        BY <1>4, <2>1, AppendIs, IsSeqParts
    <2>3. Extends(pool, pool')
        BY <2>2 DEF Extends
    <2>4. Left("serialize", src, image, pool', HeadSource, q)
        BY <2>2 DEF Left
    <2>5. Turned(pass, src, image, pool', HeadSource, q)
        BY <2>4, LeftIs
    <2>6. Turns(q)
        BY <1>1, <2>1, <2>3, <2>5, SetMoves
    <2>7. Leaves(q)
        BY <1>8 DEF Leaves, Base
    <2>8. Moves
        BY <2>6, <2>7 DEF Moves
    <2> QED
        BY <1>3, <1>5, <1>7, <2>8
<1> QED
    BY <1>9, <1>10

LEMMA StringBack ==
    ASSUME RelocInv, RelocNext, pass = "unserialize", HeadSource # Null,
           src[HeadSource[2]].kind = "str",
           Turned("serialize", src, image, pool, HeadSource, P)
    PROVE  Moves
<1>1. todo # <<>> /\ src' = src /\ ver' = ver /\ pass' = pass
      /\ (UnserializeSkip \/ UnserializeInterned \/ UnserializePtr \/ UnserializeNext)
    BY RelocHas
<1>2. Mode \in {"str", "zval", "type"} /\ HeadF \notin Translated
    BY <1>1, StringMode
<1>3. PICK n \in 0 .. Len(pool) - 1 : P = <<"pool", n>> /\ pool[n + 1] = HeadSource
    BY DEF Turned, Base
<1>4. IsSeq(pool) /\ IsSeq(image) /\ PoolFine(image, pool)
    BY DEF RelocInv, CopyInv, TypeInv, Blocks, LoadRelocate
<1>5. n <= Len(image)
    <2>1. Len(pool) <= Len(image) /\ Len(pool) \in Nat /\ Len(image) \in Nat
        BY <1>4, PoolSmall, IsSeqParts
    <2> QED
        BY <1>3, <2>1
<1>6. Kind(P) = "none" /\ P # Null /\ IsSerialized(P) /\ ~ IsUnserialized(P)
    BY <1>3, <1>5 DEF Kind, IsBlock, IsSerialized, IsUnserialized, Null
<1>7. IsString /\ ~ IsGuarded /\ ~ IsPtr /\ ~ Is("next")
    BY <1>2, <1>6 DEF IsString, IsGuarded, IsPtr, Is, Holds
<1>8. UnserializeInterned
    BY <1>1, <1>6, <1>7 DEF UnserializeSkip, UnserializePtr, UnserializeNext
<1> DEFINE q == <<"interned", HeadSource>>
<1>9. image' = Set(image, q) /\ pool' = pool /\ todo' = Tail(todo)
    BY <1>3, <1>8 DEF UnserializeInterned, Skip
<1>10. Left("unserialize", src, image, pool', HeadSource, q)
    BY DEF Left
<1>11. Turned(pass, src, image, pool', HeadSource, q)
    BY <1>10, LeftIs
<1>12. Turns(q)
    BY <1>1, <1>4, <1>9, <1>11, SetMoves, ExtendsSame
<1>13. Leaves(q)
    BY <1>9 DEF Leaves, Base
<1> QED
    BY <1>12, <1>13 DEF Moves

\* A structure is relocated and entered.
LEMMA StructureMode ==
    ASSUME RelocInv, todo # <<>>, HeadSource # Null,
           src[HeadSource[2]].kind \notin {"str", "complex_ast"}
    PROVE  /\ \/ Mode \in {"ptr", "guard", "flat", "next"}
              \/ Mode = "zval" /\ src[HeadSource[2]].kind \in {"ht", "ast_ref"}
              \/ Mode = "type" /\ src[HeadSource[2]].kind = "types"
           /\ Mode = "flat" => HeadF \in Translated \/ src[HeadSource[2]].kind = "ranges"
           /\ Mode # "flat" => HeadF \notin Translated
<1> DEFINE to == src[HeadSource[2]].kind
<1>1. /\ Handles(image[HeadK].kind, HeadF, Mode)
      /\ to \in LeadsTo(image[HeadK].kind, HeadF)
    BY HeadTurns
<1> HIDE DEF to
<1>2. /\ Mode = "str" => to = "str"
      /\ Mode = "zval" => to \in Zvals
      /\ Mode = "type" => to \in {"str", "types"}
      /\ Mode = "flat" /\ HeadF \notin Translated => to = "ranges"
    BY <1>1, HandlesLead
<1>3. Mode \in {"str", "ptr", "guard", "flat", "zval", "type", "next"}
      /\ (Mode = "flat" <=> HeadF \in Translated \cup {"live_range", "try_catch"})
    BY <1>1, Zenon DEF Handles
<1> QED
    BY <1>2, <1>3 DEF Zvals, to

\* An expression is the block behind the one that refers to it.
LEMMA AstIsNext ==
    ASSUME RelocInv, todo # <<>>, Mode = "next", NEW j \in DOMAIN image,
           image[j].of = HeadSource
    PROVE  j = HeadK + 1
<1>1. HeadF = "ast" /\ HeadF \in FieldsOf(image[HeadK].kind, ver)
      /\ Slot(image, HeadK, HeadF, HeadI)
    BY HeadTurns DEF Handles
<1>2. image[HeadK].kind = "ast_ref"
    BY <1>1, SMT DEF FieldsOf, Tables, OpArrayFields
<1> DEFINE n == image[HeadK].of[2]
<1>3. /\ n \in DOMAIN src /\ Alike(image[HeadK], src[n]) /\ Shaped(src[n])
      /\ src[n].kind = "ast_ref" /\ Typed(src, ver) /\ HeadK \in DOMAIN image
      /\ Shaped(image[HeadK])
    BY <1>1, <1>2, BlockIs DEF RelocInv, CopyInv, TypeInv, Slot
<1>4. /\ HeadI \in DOMAIN src[n].f["ast"] /\ HeadSource = src[n].f["ast"][HeadI]
      /\ "ast" \in DOMAIN src[n].f
    BY <1>1, <1>3 DEF Slot, Alike, HeadSource, Source
<1>5. HeadI = 1 /\ First(src[n], "ast") = src[n].f["ast"][1]
    <2>1. Short(src[n])
        BY <1>3, FittedIs
    <2> QED
        BY <1>3, <1>4, <2>1, SlotOne
<1>6. First(src[n], "ast") = image[j].of
    BY <1>4, <1>5
<1> QED
    BY <1>3, <1>6 DEF RelocInv, Beside

LEMMA StructureMoves ==
    ASSUME RelocInv, RelocNext, HeadSource # Null,
           src[HeadSource[2]].kind \notin {"str", "complex_ast"},
           Turned(Before(pass), src, image, pool, HeadSource, P)
    PROVE  Moves
<1> DEFINE to == src[HeadSource[2]].kind
<1>1. /\ todo # <<>> /\ pass \in {"serialize", "unserialize"} /\ src' = src /\ ver' = ver
      /\ pass' = pass
    BY RelocHas
<1>2. /\ \/ Mode \in {"ptr", "guard", "flat", "next"}
         \/ Mode = "zval" /\ to \in {"ht", "ast_ref"}
         \/ Mode = "type" /\ to = "types"
      /\ Mode = "flat" => HeadF \in Translated \/ to = "ranges"
      /\ Mode # "flat" => HeadF \notin Translated
    BY <1>1, StructureMode
<1>3. PICK j \in DOMAIN image : P = <<Base(Before(pass)), j>> /\ image[j].of = HeadSource
    BY DEF Turned
<1>4. image[j].kind = to /\ IsSeq(pool)
    BY <1>3, BlockIs DEF RelocInv, CopyInv, TypeInv
<1>5. Kind(P) = to /\ P # Null /\ Obj(P) = image[j] /\ P[1] = Base(Before(pass)) /\ P[2] = j
    BY <1>1, <1>3, <1>4, KindAt DEF Base, Before
<1> DEFINE q == <<Base(pass), j>>
           s == IF pass = "serialize" THEN SerializeSlots(image[j]) ELSE UnserializeSlots(image[j])
<1>6. Turned(pass, src, image, pool, HeadSource, q)
    <2>1. Left(pass, src, image, pool, HeadSource, q)
        BY <1>3 DEF Left
    <2> QED
        BY <1>1, <2>1, LeftIs
<1>7. ASSUME image' = Set(image, q), pool' = pool,
             \/ Mode = "flat" /\ todo' = Tail(todo)
             \/ Mode # "flat" /\ todo' = Of(<<Tag(pass), j>>, s) \o Tail(todo)
      PROVE  Moves
    <2>1. Turns(q)
        BY <1>1, <1>4, <1>6, <1>7, SetMoves, ExtendsSame
    <2>2. CASE Mode = "flat"
        <3>1. Leaves(q)
            BY <1>2, <1>4, <1>7, <2>2 DEF Leaves
        <3> QED
            BY <2>1, <3>1 DEF Moves
    <2>3. CASE Mode # "flat"
        <3>1. Enters(q, j)
            BY <1>2, <1>3, <1>4, <1>7, <2>3 DEF Enters
        <3> QED
            BY <2>1, <3>1 DEF Moves
    <2> QED
        BY <2>2, <2>3
<1>8. ~ IsString
    BY <1>2, <1>5 DEF IsString, Is, Holds
<1>9. CASE pass = "serialize"
    <2>1. ~ IsSerialized(P)
        BY <1>5, <1>9 DEF IsSerialized, Base, Before
    <2>2. SerializePtr \/ SerializeNext
        BY <1>1, <1>5, <1>8, <1>9, <2>1, RelocHas DEF SerializeSkip, SerializeInterned
    <2>3. CASE SerializePtr
        <3>1. /\ image' = Set(image, <<"off", P[2]>>) /\ pool' = pool
              /\ IF Is("flat") THEN Skip ELSE Descend(P, SerializeSlots(Obj(P)))
            BY <1>5, <1>9, <2>3 DEF SerializePtr, Base, Before
        <3>2. P = <<Tag(pass), j>> /\ q = <<"off", P[2]>> /\ s = SerializeSlots(Obj(P))
            BY <1>3, <1>5, <1>9 DEF Base, Before, Tag
        <3> HIDE DEF s, q
        <3> QED
            BY <1>7, <3>1, <3>2 DEF Is, Skip, Descend
    <2>4. CASE SerializeNext
        <3>1. j = HeadK + 1
            BY <1>1, <1>3, <2>4, AstIsNext DEF SerializeNext, Is
        <3>2. /\ image' = Set(image, <<"off", j>>) /\ pool' = pool /\ Mode = "next"
              /\ Descend(<<"img", j>>, SerializeSlots(image[j]))
            BY <2>4, <3>1 DEF SerializeNext, HeadK, Is
        <3>3. Tag(pass) = "img" /\ q = <<"off", j>> /\ s = SerializeSlots(image[j])
            BY <1>9 DEF Base, Tag
        <3> HIDE DEF s, q
        <3> QED
            BY <1>7, <3>2, <3>3 DEF Descend
    <2> QED
        BY <2>2, <2>3, <2>4
<1>10. CASE pass = "unserialize"
    <2>1. ~ IsUnserialized(P)
        BY <1>5, <1>10 DEF IsUnserialized, Base, Before
    <2>2. UnserializePtr \/ UnserializeNext
        BY <1>1, <1>5, <1>8, <1>10, <2>1, RelocHas DEF UnserializeSkip, UnserializeInterned
    <2>3. CASE UnserializePtr
        <3>1. /\ image' = Set(image, <<"mem", P[2]>>) /\ pool' = pool
              /\ IF Is("flat") THEN Skip
                 ELSE Descend(<<"mem", P[2]>>, UnserializeSlots(Obj(P)))
            BY <1>5, <1>10, <2>3 DEF UnserializePtr, Base, Before
        <3>2. Tag(pass) = "mem" /\ q = <<"mem", P[2]>> /\ s = UnserializeSlots(Obj(P))
            BY <1>5, <1>10 DEF Base, Tag
        <3> HIDE DEF s, q
        <3> QED
            BY <1>5, <1>7, <3>1, <3>2 DEF Is, Skip, Descend
    <2>4. CASE UnserializeNext
        <3>1. j = HeadK + 1
            BY <1>1, <1>3, <2>4, AstIsNext DEF UnserializeNext, Is
        <3>2. /\ image' = Set(image, <<"mem", j>>) /\ pool' = pool /\ Mode = "next"
              /\ Descend(<<"mem", j>>, UnserializeSlots(image[j]))
            BY <2>4, <3>1 DEF UnserializeNext, HeadK, Is
        <3>3. Tag(pass) = "mem" /\ q = <<"mem", j>> /\ s = UnserializeSlots(image[j])
            BY <1>10 DEF Base, Tag
        <3> HIDE DEF s, q
        <3> QED
            BY <1>7, <3>2, <3>3 DEF Descend
    <2> QED
        BY <2>2, <2>3, <2>4
<1> QED
    BY <1>1, <1>9, <1>10

LEMMA RelocMoves ==
    ASSUME RelocInv, RelocNext
    PROVE  Moves
<1>1. todo # <<>> /\ pass \in {"serialize", "unserialize"}
    BY RelocHas
<1>2. CASE HeadSource = Null \/ src[HeadSource[2]].kind = "complex_ast"
    BY <1>2, NothingMoves
<1>3. CASE HeadSource # Null /\ src[HeadSource[2]].kind = "str"
    <2>1. Turned(Before(pass), src, image, pool, HeadSource, P)
        <3>1. \/ Turned(Before(pass), src, image, pool, HeadSource, P)
              \/ Mode = "guard"
            BY <1>1, HeadTurns
        <3>2. Mode # "guard"
            BY <1>1, <1>3, StringMode
        <3> QED
            BY <3>1, <3>2
    <2>2. CASE pass = "serialize"
        BY <1>3, <2>1, <2>2, StringOut DEF Before
    <2>3. CASE pass = "unserialize"
        BY <1>3, <2>1, <2>3, StringBack DEF Before
    <2> QED
        BY <1>1, <2>2, <2>3
<1>4. CASE HeadSource # Null /\ src[HeadSource[2]].kind \notin {"str", "complex_ast"}
    <2>1. CASE Turned(Before(pass), src, image, pool, HeadSource, P)
        BY <1>4, <2>1, StructureMoves
    <2>2. CASE ~ Turned(Before(pass), src, image, pool, HeadSource, P)
        <3>1. /\ image[HeadK].kind = "ht" /\ Mode = "guard"
              /\ Turned(pass, src, image, pool, HeadSource, P)
            BY <1>1, <2>2, HeadTurns
        <3> QED
            BY <3>1, AgainMoves
    <2> QED
        BY <2>1, <2>2
<1> QED
    BY <1>2, <1>3, <1>4

\* The pool grows by strings that are not in it.
LEMMA PoolStep ==
    ASSUME RelocInv, RelocNext, Moves
    PROVE  PoolFine(image', pool') /\ (pass = "serialize" => Pooled(image', pool', xlat'))
<1>1. /\ DOMAIN image' = DOMAIN image
      /\ \A k \in DOMAIN image : image'[k].of = image[k].of
    BY DEF Moves, Turns, Grows
<1>2. /\ PoolFine(image, pool) /\ (pass = "serialize" => Pooled(image, pool, xlat))
      /\ IsSeq(pool) /\ pass \in {"serialize", "unserialize"} /\ todo # <<>>
    BY RelocHas DEF RelocInv, LoadRelocate, CopyInv, TypeInv
<1>3. CASE pool' = pool /\ xlat' = xlat
    <2>1. PoolFine(image', pool')
        BY <1>1, <1>2, <1>3 DEF PoolFine
    <2>2. pass = "serialize" => Pooled(image', pool', xlat')
        BY <1>1, <1>2, <1>3 DEF Pooled
    <2> QED
        BY <2>1, <2>2
<1>4. CASE ~ (pool' = pool /\ xlat' = xlat)
    <2> DEFINE q == <<"pool", Len(pool)>>
    <2>1. SerializeInterned
        BY <1>4 DEF RelocNext, SerializeSkip, SerializePtr, SerializeNext,
           UnserializeSkip, UnserializeInterned, UnserializePtr, UnserializeNext
    <2>2. pass = "serialize" /\ IsString /\ P # Null
        BY <2>1 DEF SerializeInterned, At
    <2>3. P \notin DOMAIN xlat /\ P[1] = "img" /\ Register(P, q) /\ pool' = Append(pool, Origin(P))
        BY <1>4, <2>1 DEF SerializeInterned
    <2>4. P = <<"img", P[2]>> /\ P[2] \in DOMAIN image
        <3>1. Turned(Before(pass), src, image, pool, HeadSource, P)
              \/ Turned(pass, src, image, pool, HeadSource, P)
            BY <1>2, HeadTurns
        <3>2. Left("persist", src, image, pool, HeadSource, P)
              \/ Left("serialize", src, image, pool, HeadSource, P)
            BY <2>2, <3>1, LeftIs DEF Before
        <3> QED
            BY <2>2, <2>3, <3>2 DEF Left, Base
    <2> DEFINE s == image[P[2]].of
    <2>5. pool' = Append(pool, s)
        BY <2>3 DEF Origin
    <2>6. /\ Len(pool') = Len(pool) + 1 /\ Len(pool) \in Nat /\ DOMAIN pool = 1 .. Len(pool)
          /\ DOMAIN pool' = 1 .. Len(pool) + 1 /\ pool'[Len(pool) + 1] = s
          /\ \A a \in 1 .. Len(pool) : pool'[a] = pool[a]
        BY <1>2, <2>5, AppendIs, IsSeqParts
    <2> HIDE DEF s
    <2>7. \A a \in 1 .. Len(pool) : pool[a] # s
        <3> SUFFICES ASSUME NEW a \in 1 .. Len(pool), pool[a] = s PROVE FALSE
            OBVIOUS
        <3>1. PICK p \in DOMAIN xlat : image[p[2]].of = pool[a]
            BY <1>2, <2>2, <2>6 DEF Pooled
        <3>2. p = <<"img", p[2]>> /\ p[2] \in DOMAIN image
            BY <1>2, <2>2 DEF Pooled
        <3>3. p[2] = P[2]
            BY <2>4, <3>1, <3>2 DEF RelocInv, CopyInv, Once, s
        <3> QED
            BY <2>3, <2>4, <3>2, <3>3
    <2>8. PoolFine(image', pool')
        <3>1. \A a, b \in DOMAIN pool' : pool'[a] = pool'[b] => a = b
            <4> SUFFICES ASSUME NEW a \in 1 .. Len(pool) + 1, NEW b \in 1 .. Len(pool) + 1,
                                pool'[a] = pool'[b]
                         PROVE  a = b
                BY <2>6
            <4>1. CASE a \in 1 .. Len(pool) /\ b \in 1 .. Len(pool)
                BY <1>2, <2>6, <4>1 DEF PoolFine
            <4>2. CASE ~ (a \in 1 .. Len(pool) /\ b \in 1 .. Len(pool))
                BY <2>6, <2>7, <4>2
            <4> QED
                BY <4>1, <4>2
        <3>2. \A a \in DOMAIN pool' : \E j \in DOMAIN image' : image'[j].of = pool'[a]
            <4> SUFFICES ASSUME NEW a \in 1 .. Len(pool) + 1
                         PROVE  \E j \in DOMAIN image' : image'[j].of = pool'[a]
                BY <2>6
            <4>1. CASE a \in 1 .. Len(pool)
                BY <1>1, <1>2, <2>6, <4>1 DEF PoolFine
            <4>2. CASE a \notin 1 .. Len(pool)
                <5>1. a = Len(pool) + 1
                    BY <2>6, <4>2
                <5> QED
                    BY <1>1, <2>4, <2>6, <5>1 DEF s
            <4> QED
                BY <4>1, <4>2
        <3> QED
            BY <3>1, <3>2 DEF PoolFine
    <2>9. DOMAIN xlat' = DOMAIN xlat \cup {P}
          /\ \A p \in DOMAIN xlat' : xlat'[p] = IF p = P THEN q ELSE xlat[p]
        BY <2>3 DEF Register
    <2>10. ASSUME NEW p \in DOMAIN xlat'
           PROVE  /\ p = <<"img", p[2]>> /\ p[2] \in DOMAIN image'
                  /\ xlat'[p] = <<"pool", xlat'[p][2]>> /\ xlat'[p][2] \in 0 .. Len(pool') - 1
                  /\ pool'[xlat'[p][2] + 1] = image'[p[2]].of
        <3>1. CASE p = P
            <4>1. xlat'[p] = q /\ q[2] = Len(pool)
                BY <2>9, <3>1
            <4>2. image'[p[2]].of = s
                BY <1>1, <2>4, <3>1 DEF s
            <4> QED
                BY <1>1, <2>4, <2>6, <3>1, <4>1, <4>2
        <3>2. CASE p # P
            <4>1. p \in DOMAIN xlat /\ xlat'[p] = xlat[p]
                BY <2>9, <3>2
            <4>2. /\ p = <<"img", p[2]>> /\ p[2] \in DOMAIN image
                  /\ xlat[p] = <<"pool", xlat[p][2]>> /\ xlat[p][2] \in 0 .. Len(pool) - 1
                  /\ pool[xlat[p][2] + 1] = image[p[2]].of
                BY <1>2, <2>2, <4>1 DEF Pooled
            <4>3. xlat[p][2] + 1 \in 1 .. Len(pool) /\ xlat[p][2] \in 0 .. Len(pool') - 1
                BY <2>6, <4>2
            <4> QED
                BY <1>1, <2>6, <4>1, <4>2, <4>3
        <3> QED
            BY <3>1, <3>2
    <2>11. ASSUME NEW a \in DOMAIN pool'
           PROVE  \E p \in DOMAIN xlat' : image'[p[2]].of = pool'[a]
        <3>1. CASE a \in 1 .. Len(pool)
            <4>1. PICK p \in DOMAIN xlat : image[p[2]].of = pool[a]
                BY <1>2, <2>2, <2>6, <3>1 DEF Pooled
            <4>2. p[2] \in DOMAIN image
                BY <1>2, <2>2 DEF Pooled
            <4>3. image'[p[2]].of = pool'[a] /\ p \in DOMAIN xlat'
                BY <1>1, <2>6, <2>9, <3>1, <4>1, <4>2
            <4> QED
                BY <4>3
        <3>2. CASE a \notin 1 .. Len(pool)
            <4>1. a = Len(pool) + 1
                BY <2>6, <3>2
            <4>2. image'[P[2]].of = pool'[a] /\ P \in DOMAIN xlat'
                BY <1>1, <2>4, <2>6, <2>9, <4>1 DEF s
            <4> QED
                BY <4>2
        <3> QED
            BY <3>1, <3>2
    <2> QED
        BY <2>8, <2>10, <2>11 DEF Pooled
<1> QED
    BY <1>3, <1>4

Relocation == {"serialize", "unserialize"}
LEMMA TurnedStays ==
    ASSUME NEW ps \in {"persist", "serialize", "unserialize"}, NEW objects, NEW im, NEW new,
           Grows(im, new), NEW pl, NEW npl, Extends(pl, npl), NEW s, NEW v,
           Turned(ps, objects, im, pl, s, v)
    PROVE  Turned(ps, objects, new, npl, s, v)
<1>1. Left(ps, objects, im, pl, s, v)
    BY LeftIs
<1>2. ASSUME NEW j \in DOMAIN im PROVE j \in DOMAIN new /\ new[j].of = im[j].of
    BY DEF Grows
<1>3. ASSUME NEW n \in 0 .. Len(pl) - 1
      PROVE  n \in 0 .. Len(npl) - 1 /\ npl[n + 1] = pl[n + 1]
    <2>1. Len(pl) \in Nat /\ Len(npl) \in Nat /\ Len(pl) <= Len(npl) /\ n + 1 \in 1 .. Len(pl)
        BY DEF Extends
    <2> QED
        BY <2>1 DEF Extends
<1>4. Left(ps, objects, new, npl, s, v)
    BY <1>1, <1>2, <1>3 DEF Left
<1> QED
    BY <1>4, LeftIs

\* What a step changes: one slot.
LEMMA Relocated ==
    ASSUME RelocInv, NEW v, Turns(v)
    PROVE  /\ Slot(image, HeadK, HeadF, HeadI) /\ todo # <<>> /\ pass \in Relocation
           /\ Done(pass, src, image', pool', HeadK, HeadF, HeadI)
           /\ image'[HeadK].f[HeadF][HeadI] = v
           /\ \A k, f, i : Slot(image, k, f, i) =>
                 /\ Slot(image', k, f, i)
                 /\ Source(src, image', k, f, i) = Source(src, image, k, f, i)
                 /\ \/ k = HeadK /\ f = HeadF /\ i = HeadI
                    \/ /\ image'[k].f[f][i] = image[k].f[f][i]
                       /\ Done(Before(pass), src, image, pool, k, f, i) =>
                             Done(Before(pass), src, image', pool', k, f, i)
                 /\ Done(pass, src, image, pool, k, f, i) => Done(pass, src, image', pool', k, f, i)
           /\ \A k, f, i : Slot(image', k, f, i) => Slot(image, k, f, i)
           /\ \A k \in DOMAIN image : image'[k].of = image[k].of /\ image'[k].kind = image[k].kind
           /\ DOMAIN image' = DOMAIN image
<1>1. /\ Grows(image, image') /\ Writes(image, image', HeadK, HeadF, HeadI, v)
      /\ DOMAIN image' = DOMAIN image /\ Extends(pool, pool') /\ todo # <<>>
      /\ Turned(pass, src, image, pool', HeadSource, v)
    BY DEF Turns
<1>2. pass \in Relocation /\ Before(pass) \in {"persist", "serialize", "unserialize"}
      /\ pass \in {"persist", "serialize", "unserialize"}
    BY DEF RelocInv, Relocation, Before
<1>3. Slot(image, HeadK, HeadF, HeadI)
    BY <1>1, HeadTurns
<1>4. image'[HeadK].f[HeadF][HeadI] = v
    BY <1>1, <1>3 DEF Writes, Slot
<1>5. Done(pass, src, image', pool', HeadK, HeadF, HeadI)
    <2>1. Source(src, image', HeadK, HeadF, HeadI) = HeadSource
        BY <1>1, <1>3, SlotGrows DEF HeadSource
    <2>2. Extends(pool', pool')
        BY <1>1 DEF Extends
    <2>3. Turned(pass, src, image', pool', HeadSource, v)
        BY <1>1, <1>2, <2>2, TurnedStays
    <2> QED
        BY <1>4, <2>1, <2>3 DEF Done
<1>6. ASSUME NEW k, NEW f, NEW i, Slot(image, k, f, i)
      PROVE  /\ Slot(image', k, f, i)
             /\ Source(src, image', k, f, i) = Source(src, image, k, f, i)
             /\ \/ k = HeadK /\ f = HeadF /\ i = HeadI
                \/ /\ image'[k].f[f][i] = image[k].f[f][i]
                   /\ Done(Before(pass), src, image, pool, k, f, i) =>
                         Done(Before(pass), src, image', pool', k, f, i)
             /\ Done(pass, src, image, pool, k, f, i) => Done(pass, src, image', pool', k, f, i)
    <2>1. /\ Slot(image', k, f, i)
          /\ Source(src, image', k, f, i) = Source(src, image, k, f, i)
        BY <1>1, <1>6, SlotGrows
    <2>2. CASE k = HeadK /\ f = HeadF /\ i = HeadI
        BY <1>5, <2>1, <2>2
    <2>3. CASE ~ (k = HeadK /\ f = HeadF /\ i = HeadI)
        <3>1. image'[k].f[f][i] = image[k].f[f][i]
            BY <1>1, <1>6, <2>3 DEF Writes, Slot
        <3>2. ASSUME NEW ps \in {"persist", "serialize", "unserialize"},
                     Done(ps, src, image, pool, k, f, i)
              PROVE  Done(ps, src, image', pool', k, f, i)
            <4>1. Turned(ps, src, image, pool, Source(src, image, k, f, i), image[k].f[f][i])
                BY <3>2 DEF Done
            <4>2. Turned(ps, src, image', pool', Source(src, image, k, f, i), image[k].f[f][i])
                BY <1>1, <4>1, TurnedStays
            <4> QED
                BY <2>1, <3>1, <4>2 DEF Done
        <3> QED
            BY <1>2, <2>1, <3>1, <3>2
    <2> QED
        BY <2>2, <2>3
<1>7. \A k, f, i : Slot(image', k, f, i) => Slot(image, k, f, i)
    BY <1>1, SlotGrows DEF Slot
<1>8. \A k \in DOMAIN image : image'[k].of = image[k].of /\ image'[k].kind = image[k].kind
    BY <1>1 DEF Grows, Alike
<1> QED
    BY <1>1, <1>2, <1>3, <1>4, <1>5, <1>6, <1>7, <1>8

\* A structure that is as the traversal before has left it is entered through all its
\* slots.
Whole(ps, k) == \A f \in DOMAIN image[k].f : \A i \in DOMAIN image[k].f[f] :
                    Done(Before(ps), src, image, pool, k, f, i)
SlotsIn(ps, o) == IF ps = "serialize" THEN SerializeSlots(o) ELSE UnserializeSlots(o)
LEMMA WholeUnmet ==
    ASSUME IsGraph(src), Blocks(src, image), Typed(src, ver),
           NEW ps \in Relocation, NEW k \in DOMAIN image,
           image[k].kind = "ht" \/ Whole(ps, k)
    PROVE  Swept(image[k], SlotsIn(ps, image[k]))
<1> DEFINE b == image[k]
           n == image[k].of[2]
           o == src[n]
<1>1. /\ n \in DOMAIN src /\ Alike(b, o) /\ Shaped(b) /\ Shaped(o) /\ b.kind = o.kind
    BY BlockIs
<1>2. Fitted(b) /\ Short(b) /\ Short(o)
    <2> HIDE DEF b
    <2> QED
        BY <1>1, FittedIs
<1>3. ASSUME Whole(ps, k), NEW f \in {"ce", "opcodes"}, Field(b, f) # <<>>
      PROVE  /\ f \in DOMAIN o.f /\ 1 \in DOMAIN o.f[f] /\ First(b, f) = b.f[f][1]
             /\ First(o, f) = o.f[f][1]
             /\ Turned(Before(ps), src, image, pool, o.f[f][1], First(b, f))
    <2>1. f \in DOMAIN b.f /\ 1 \in DOMAIN b.f[f]
        BY <1>1, <1>2, <1>3, SlotOne
    <2>2. f \in DOMAIN o.f /\ 1 \in DOMAIN o.f[f]
        BY <1>1, <2>1 DEF Alike
    <2>3. First(b, f) = b.f[f][1] /\ First(o, f) = o.f[f][1]
        BY <1>1, <1>2, <2>1, <2>2, SlotOne
    <2>4. Done(Before(ps), src, image, pool, k, f, 1)
        BY <1>3, <2>1 DEF Whole
    <2> QED
        BY <2>2, <2>3, <2>4 DEF Done, Source
<1>4. CASE ps = "serialize"
    <2>1. b.kind = "prop" => ~ IsSerialized(First(b, "ce"))
        <3> SUFFICES ASSUME b.kind = "prop" PROVE ~ IsSerialized(First(b, "ce"))
            OBVIOUS
        <3>1. Whole(ps, k)
            OBVIOUS
        <3>2. First(o, "ce") # Null
            BY <1>1 DEF Typed
        <3>3. Field(o, "ce") # <<>>
            BY <3>2 DEF First
        <3>4. "ce" \in DOMAIN o.f /\ 1 \in DOMAIN o.f["ce"] /\ First(o, "ce") = o.f["ce"][1]
            BY <1>1, <1>2, <3>3, SlotOne
        <3>5. Field(b, "ce") # <<>>
            <4>1. "ce" \in DOMAIN b.f /\ 1 \in DOMAIN b.f["ce"]
                BY <1>1, <3>4 DEF Alike
            <4> QED
                BY <4>1 DEF Field
        <3>6. Turned(Before(ps), src, image, pool, o.f["ce"][1], First(b, "ce"))
            BY <1>3, <3>1, <3>5
        <3>7. src[o.f["ce"][1][2]].kind = "class"
            <4>1. src[o.f["ce"][1][2]].kind \in LeadsTo(o.kind, "ce")
                BY <1>1, <3>2, <3>4, TypedSlot
            <4> QED
                BY <4>1 DEF LeadsTo
        <3>8. First(b, "ce")[1] = "img"
            BY <1>4, <3>2, <3>4, <3>6, <3>7 DEF Turned, Base, Before
        <3> QED
            BY <3>8 DEF IsSerialized
    <2>2. Unmet(b, SlotsIn(ps, b))
        BY <1>4, <2>1 DEF Unmet, SlotsIn
    <2> HIDE DEF b
    <2>3. Swept(b, SlotsIn(ps, b))
        BY <1>1, <1>2, <2>2, SweepIs
    <2> QED
        BY <2>3 DEF b
<1>5. CASE ps = "unserialize"
    <2>1. ASSUME b.kind # "ht", NEW f \in {"ce", "opcodes"}
          PROVE  ~ IsUnserialized(First(b, f))
        <3>1. CASE Field(b, f) = <<>>
            BY <3>1 DEF First, IsUnserialized, Null
        <3>2. CASE Field(b, f) # <<>>
            <4>1. Turned(Before(ps), src, image, pool, o.f[f][1], First(b, f))
                BY <1>3, <2>1, <3>2
            <4>2. Left("serialize", src, image, pool, o.f[f][1], First(b, f))
                BY <1>5, <4>1, LeftIs DEF Before
            <4> DEFINE v == First(b, f)
            <4>3. v = Null \/ v[1] = "pool" \/ v[1] = "off"
                <5> HIDE DEF v
                <5>1. \/ v = Null \/ \E m : v = <<"pool", m>>
                      \/ \E j : v = <<Base("serialize"), j>>
                    <6>1. Left("serialize", src, image, pool, o.f[f][1], v)
                        BY <4>2 DEF v
                    <6> HIDE DEF o, b
                    <6> QED
                        BY <6>1 DEF Left
                <5>2. Base("serialize") = "off"
                    BY DEF Base
                <5> QED
                    BY <5>1, <5>2
            <4> QED
                BY <4>3 DEF IsUnserialized, Null
        <3> QED
            BY <3>1, <3>2
    <2>2. Unmet(b, SlotsIn(ps, b))
        BY <1>5, <2>1 DEF Unmet, SlotsIn
    <2> HIDE DEF b
    <2>3. Swept(b, SlotsIn(ps, b))
        BY <1>1, <1>2, <2>2, SweepIs
    <2> QED
        BY <2>3 DEF b
<1> QED
    BY <1>4, <1>5 DEF Relocation

\* The slots of a structure wait, each once.
LEMMA SweptWait ==
    ASSUME NEW p, NEW o, NEW s, Swept(o, s)
    PROVE  LET t == Of(p, s) IN
           /\ IsSeq(t)
           /\ \A e \in Range(t) : /\ e[1] = p /\ e[2] \in DOMAIN o.f /\ e[3] \in DOMAIN o.f[e[2]]
                                  /\ Handles(o.kind, e[2], e[4])
           /\ \A f \in DOMAIN o.f : \A i \in DOMAIN o.f[f] : Pending(t, p[2], f, i)
           /\ \A a, b \in DOMAIN t : SlotOf(t[a], t[b]) => a = b
<1> DEFINE t == Of(p, s)
<1>1. IsSeq(s) /\ Distinct(s)
      /\ \A x \in Range(s) : /\ x = <<x[1], x[2], x[3]>> /\ Handles(o.kind, x[1], x[3])
                             /\ x[1] \in DOMAIN o.f /\ x[2] \in DOMAIN o.f[x[1]]
    BY DEF Swept, Within
<1>2. /\ IsSeq(t) /\ DOMAIN t = DOMAIN s
      /\ \A j \in DOMAIN s : t[j] = <<p, s[j][1], s[j][2], s[j][3]>>
      /\ \A e \in Range(t) : \E x \in Range(s) : e = <<p, x[1], x[2], x[3]>>
    BY <1>1, OfIs
<1>3. ASSUME NEW f \in DOMAIN o.f, NEW i \in DOMAIN o.f[f]
      PROVE  Pending(t, p[2], f, i)
    <2>1. \A g \in DOMAIN o.f : \A h \in DOMAIN o.f[g] : \E m : <<g, h, m>> \in Range(s)
        BY Zenon DEF Swept
    <2>2. \E m : <<f, i, m>> \in Range(s)
        BY <2>1, Zenon
    <2>3. PICK m : <<f, i, m>> \in Range(s)
        BY <2>2
    <2>4. <<p, f, i, m>> \in Range(t)
        BY <1>1, <2>3, OfHas
    <2>5. m # "update"
        BY <1>1, <2>3 DEF Handles
    <2> QED
        BY <2>4, <2>5 DEF Pending
<1> HIDE DEF t
<1>4. \A a, b \in DOMAIN t : SlotOf(t[a], t[b]) => a = b
    BY <1>1, <1>2 DEF SlotOf, Distinct
<1>5. \A e \in Range(t) : /\ e[1] = p /\ e[2] \in DOMAIN o.f /\ e[3] \in DOMAIN o.f[e[2]]
                          /\ Handles(o.kind, e[2], e[4])
    BY <1>1, <1>2
<1> QED
    BY <1>2, <1>3, <1>4, <1>5 DEF t

\* A step takes the head of todo off and puts the slots of what it enters in its place.
Entering(v, j, t) == Enters(v, j) /\ t = Of(<<Tag(pass), j>>, SlotsIn(pass, image[j]))
Steps(v, t) ==
    /\ Turns(v) /\ IsSeq(t) /\ todo' = t \o Tail(todo)
    /\ \/ Leaves(v) /\ t = <<>>
       \/ \E j : Entering(v, j, t)

LEMMA ListMoves ==
    ASSUME NEW td, IsSeq(td), td # <<>>, NEW t, IsSeq(t)
    PROVE  LET u == t \o Tail(td) IN
           /\ IsSeq(u)
           /\ \A e \in Range(td) : e = Head(td) \/ e \in Range(u)
           /\ Range(t) \subseteq Range(u)
           /\ \A e \in Range(u) : e \in Range(t) \/ e \in Range(td)
<1>1. IsSeq(Tail(td))
    BY TailIs
<1>2. IsSeq(t \o Tail(td)) /\ Range(t \o Tail(td)) = Range(t) \cup Range(Tail(td))
    BY <1>1, ConcatIs
<1>3. /\ Range(Tail(td)) \subseteq Range(td)
      /\ \A e \in Range(td) : e = Head(td) \/ e \in Range(Tail(td))
    BY HeadOrTail
<1> QED
    BY <1>2, <1>3

LEMMA PendingMoves ==
    ASSUME NEW td, IsSeq(td), td # <<>>, NEW t, IsSeq(t), NEW k, NEW f, NEW i
    PROVE  LET u == t \o Tail(td) IN
           /\ Pending(td, k, f, i) => \/ Pending(u, k, f, i)
                                      \/ /\ k = Head(td)[1][2] /\ f = Head(td)[2]
                                         /\ i = Head(td)[3]
           /\ Pending(t, k, f, i) => Pending(u, k, f, i)
           /\ Pending(u, k, f, i) => Pending(t, k, f, i) \/ Pending(td, k, f, i)
<1> DEFINE u == t \o Tail(td)
<1>1. /\ \A e \in Range(td) : e = Head(td) \/ e \in Range(u)
      /\ Range(t) \subseteq Range(u)
      /\ \A e \in Range(u) : e \in Range(t) \/ e \in Range(td)
    BY ListMoves
<1> HIDE DEF u
<1>2. Pending(td, k, f, i) => \/ Pending(u, k, f, i)
                              \/ k = Head(td)[1][2] /\ f = Head(td)[2] /\ i = Head(td)[3]
    BY <1>1 DEF Pending
<1>3. Pending(t, k, f, i) => Pending(u, k, f, i)
    BY <1>1 DEF Pending
<1>4. Pending(u, k, f, i) => Pending(t, k, f, i) \/ Pending(td, k, f, i)
    BY <1>1 DEF Pending
<1> QED
    BY <1>2, <1>3, <1>4 DEF u

\* The slots of todo are slots of the image, and the one that is handled is among them.
LEMMA TodoSlots ==
    ASSUME RelocInv
    PROVE  /\ IsSeq(todo) /\ (todo # <<>> => Pending(todo, HeadK, HeadF, HeadI))
           /\ \A e \in Range(todo) : Slot(image, e[1][2], e[2], e[3]) /\ e[4] # "update"
           /\ \A a \in DOMAIN todo : /\ todo[a] \in Range(todo)
                                     /\ Pending(todo, todo[a][1][2], todo[a][2], todo[a][3])
<1>1. IsSeq(todo) /\ \A e \in Range(todo) : Entry(pass, src, image, e)
    BY DEF RelocInv, CopyInv, TypeInv, Entries
<1>2. pass \in {"serialize", "unserialize"}
    BY DEF RelocInv
<1>3. \A e \in Range(todo) : Handles(image[e[1][2]].kind, e[2], e[4])
    BY DEF RelocInv, LoadRelocate, Handled
<1>4. ASSUME NEW e \in Range(todo)
      PROVE  Slot(image, e[1][2], e[2], e[3]) /\ e[4] # "update"
    <2>1. Entry(pass, src, image, e)
        BY <1>1
    <2>2. Handles(image[e[1][2]].kind, e[2], e[4])
        BY <1>3
    <2>3. e[4] # "update"
        BY <2>2 DEF Handles
    <2> QED
        BY <1>2, <2>1, <2>3 DEF Entry, OwnerFine, Tag, Its, Slot
<1>5. todo # <<>> => Head(todo) \in Range(todo)
    BY <1>1, HeadOrTail
<1>6. \A a \in DOMAIN todo : todo[a] \in Range(todo)
    BY DEF Range
<1> QED
    BY <1>1, <1>4, <1>5, <1>6 DEF Pending, HeadK, HeadF, HeadI, Owner

\* What is entered was not entered before, and all of it waits now.
LEMMA EnteringIs ==
    ASSUME RelocInv, NEW v, NEW j, NEW t, Turns(v), Entering(v, j, t)
    PROVE  /\ j \in DOMAIN image /\ IsSeq(t) /\ todo' = t \o Tail(todo)
           /\ \A e \in Range(t) : /\ e[1][2] = j /\ Slot(image, j, e[2], e[3])
                                  /\ Handles(image[j].kind, e[2], e[4])
           /\ \A f \in DOMAIN image[j].f : \A i \in DOMAIN image[j].f[f] : Pending(t, j, f, i)
           /\ \A a, b \in DOMAIN t : SlotOf(t[a], t[b]) => a = b
           /\ image[j].kind # "ht" => Unentered(pass, src, image, pool, todo, j)
<1>1. /\ j \in DOMAIN image /\ v = <<Base(pass), j>> /\ P = <<Base(Before(pass)), j>>
      /\ HeadF \notin Translated /\ image[j].kind # "str"
      /\ t = Of(<<Tag(pass), j>>, SlotsIn(pass, image[j])) /\ todo' = t \o Tail(todo)
    BY DEF Entering, Enters, SlotsIn
<1>2. todo # <<>> /\ pass \in Relocation
    BY DEF Turns, RelocInv, Relocation
<1>3. Slot(image, HeadK, HeadF, HeadI) /\ P = image[HeadK].f[HeadF][HeadI]
    BY <1>2, HeadTurns
<1>4. Opened(pass, src, image, pool, todo)
    BY DEF RelocInv, LoadRelocate
<1>5. image[j].kind # "ht" => Unentered(pass, src, image, pool, todo, j)
    <2>1. /\ HeadK \in DOMAIN image /\ HeadF \in DOMAIN image[HeadK].f \ Translated
          /\ HeadI \in DOMAIN image[HeadK].f[HeadF]
          /\ image[HeadK].f[HeadF][HeadI] = <<Base(Before(pass)), j>>
        BY <1>1, <1>3 DEF Slot
    <2> QED
        BY <1>1, <1>4, <2>1, Zenon DEF Opened
<1>6. image[j].kind = "ht" \/ Whole(pass, j)
    BY <1>5 DEF Whole, Unentered
<1>7. Swept(image[j], SlotsIn(pass, image[j]))
    BY <1>1, <1>2, <1>6, WholeUnmet DEF RelocInv, CopyInv, TypeInv
<1> DEFINE p == <<Tag(pass), j>>
           o == image[j]
           s == SlotsIn(pass, image[j])
<1>8. p[2] = j /\ t = Of(p, s) /\ Swept(o, s)
    BY <1>1, <1>7
<1> HIDE DEF p, o, s
<1>9. /\ IsSeq(t)
      /\ \A e \in Range(t) : /\ e[1] = p /\ e[2] \in DOMAIN o.f /\ e[3] \in DOMAIN o.f[e[2]]
                             /\ Handles(o.kind, e[2], e[4])
      /\ \A f \in DOMAIN o.f : \A i \in DOMAIN o.f[f] : Pending(t, p[2], f, i)
      /\ \A a, b \in DOMAIN t : SlotOf(t[a], t[b]) => a = b
    BY <1>8, SweptWait
<1> QED
    BY <1>1, <1>5, <1>8, <1>9 DEF Slot, o

LEMMA StepsList ==
    ASSUME RelocInv, NEW v, NEW t, Steps(v, t)
    PROVE  /\ IsSeq(todo) /\ todo # <<>> /\ IsSeq(t) /\ todo' = t \o Tail(todo)
           /\ \A k, f, i :
                 /\ Pending(todo, k, f, i) =>
                       Pending(todo', k, f, i) \/ (k = HeadK /\ f = HeadF /\ i = HeadI)
                 /\ Pending(t, k, f, i) => Pending(todo', k, f, i)
                 /\ Pending(todo', k, f, i) => Pending(t, k, f, i) \/ Pending(todo, k, f, i)
<1>1. IsSeq(todo) /\ todo # <<>> /\ IsSeq(t) /\ todo' = t \o Tail(todo)
    BY TodoSlots DEF Steps, Turns
<1>2. ASSUME NEW k, NEW f, NEW i
      PROVE  /\ Pending(todo, k, f, i) =>
                   Pending(todo', k, f, i) \/ (k = HeadK /\ f = HeadF /\ i = HeadI)
             /\ Pending(t, k, f, i) => Pending(todo', k, f, i)
             /\ Pending(todo', k, f, i) => Pending(t, k, f, i) \/ Pending(todo, k, f, i)
    BY <1>1, PendingMoves DEF HeadK, HeadF, HeadI, Owner
<1> QED
    BY <1>1, <1>2

LEMMA EnteredStays ==
    ASSUME RelocInv, NEW v, NEW t, Steps(v, t), NEW j \in DOMAIN image,
           Entered(pass, src, image, pool, todo, j)
    PROVE  Entered(pass, src, image', pool', todo', j)
<1> SUFFICES ASSUME NEW f \in DOMAIN image'[j].f, NEW i \in DOMAIN image'[j].f[f]
             PROVE  Pending(todo', j, f, i) \/ Done(pass, src, image', pool', j, f, i)
    BY DEF Entered
<1>1. Turns(v)
    BY DEF Steps
<1>2. Slot(image', j, f, i) /\ Slot(image, j, f, i)
    BY <1>1, Relocated DEF Slot
<1>3. Pending(todo, j, f, i) \/ Done(pass, src, image, pool, j, f, i)
    BY <1>2 DEF Entered, Slot
<1>4. Done(pass, src, image, pool, j, f, i) => Done(pass, src, image', pool', j, f, i)
    BY <1>1, <1>2, Relocated
<1>5. Done(pass, src, image', pool', HeadK, HeadF, HeadI)
    BY <1>1, Relocated
<1>6. Pending(todo, j, f, i) =>
          Pending(todo', j, f, i) \/ (j = HeadK /\ f = HeadF /\ i = HeadI)
    BY StepsList
<1> QED
    BY <1>3, <1>4, <1>5, <1>6

LEMMA HalfwayStep ==
    ASSUME RelocInv, NEW v, Turns(v)
    PROVE  Halfway(pass, src, image', pool')
<1> SUFFICES ASSUME NEW k \in DOMAIN image', NEW f \in DOMAIN image'[k].f,
                    NEW i \in DOMAIN image'[k].f[f]
             PROVE  \/ Done(Before(pass), src, image', pool', k, f, i)
                    \/ Done(pass, src, image', pool', k, f, i)
    BY DEF Halfway
<1>1. Slot(image', k, f, i)
    BY DEF Slot
<1>2. Slot(image, k, f, i)
    BY <1>1, Relocated
<1>3. Done(Before(pass), src, image, pool, k, f, i) \/ Done(pass, src, image, pool, k, f, i)
    BY <1>2 DEF RelocInv, LoadRelocate, Halfway, Slot
<1> QED
    BY <1>2, <1>3, Relocated

LEMMA ClosedStep ==
    ASSUME RelocInv, NEW v, NEW t, Steps(v, t)
    PROVE  Closed(pass, src, image', pool', todo')
<1>1. Turns(v) /\ Closed(pass, src, image, pool, todo) /\ 1 \in DOMAIN image
    BY DEF Steps, RelocInv, LoadRelocate, CopyInv, TypeInv
<1>2. Entered(pass, src, image', pool', todo', 1)
    <2>1. Entered(pass, src, image, pool, todo, 1)
        BY <1>1 DEF Closed
    <2> QED
        BY <1>1, <2>1, EnteredStays
<1>3. ASSUME NEW k \in DOMAIN image', NEW f \in DOMAIN image'[k].f \ Translated,
             NEW i \in DOMAIN image'[k].f[f], NEW j \in DOMAIN image',
             image'[k].f[f][i] = <<Base(pass), j>>
      PROVE  Entered(pass, src, image', pool', todo', j)
    <2>1. Slot(image', k, f, i)
        BY DEF Slot
    <2>2. Slot(image, k, f, i) /\ j \in DOMAIN image /\ f \notin Translated
        BY <1>1, <2>1, Relocated
    <2>3. ASSUME NEW g \in DOMAIN image[k].f, g = f, image[k].f[g][i] = <<Base(pass), j>>
          PROVE  Entered(pass, src, image', pool', todo', j)
        <3>1. /\ k \in DOMAIN image /\ g \in DOMAIN image[k].f \ Translated
              /\ i \in DOMAIN image[k].f[g]
            BY <2>2, <2>3 DEF Slot
        <3>2. Entered(pass, src, image, pool, todo, j)
            BY <1>1, <2>2, <2>3, <3>1, Zenon DEF Closed
        <3> QED
            BY <2>2, <3>2, EnteredStays
    <2>4. CASE ~ (k = HeadK /\ f = HeadF /\ i = HeadI)
        <3>1. image'[k].f[f][i] = image[k].f[f][i]
            BY <1>1, <2>2, <2>4, Relocated
        <3> QED
            BY <1>3, <2>2, <2>3, <3>1 DEF Slot
    <2>5. CASE k = HeadK /\ f = HeadF /\ i = HeadI
        <3>1. v = <<Base(pass), j>>
            BY <1>1, <1>3, <2>5, Relocated
        <3>2. CASE Leaves(v) /\ t = <<>>
            <4>1. image[j].kind = "ranges" \/ v = P
                BY <2>2, <2>5, <3>1, <3>2 DEF Leaves
            <4>2. CASE v = P
                <5>1. P = image[HeadK].f[HeadF][HeadI]
                    BY <1>1, HeadTurns DEF Turns
                <5> QED
                    BY <2>2, <2>3, <2>5, <3>1, <4>2, <5>1 DEF Slot
            <4>3. CASE image[j].kind = "ranges"
                <5>1. \A g, h : ~ Slot(image, j, g, h)
                    <6> SUFFICES ASSUME NEW g, NEW h, Slot(image, j, g, h) PROVE FALSE
                        OBVIOUS
                    <6> DEFINE n == image[j].of[2]
                    <6>1. /\ n \in DOMAIN src /\ g \in DOMAIN src[n].f
                          /\ h \in DOMAIN src[n].f[g] /\ Shaped(src[n]) /\ src[n].kind = "ranges"
                        BY <2>2, <4>3, BlockIs
                           DEF RelocInv, CopyInv, TypeInv, Slot, Alike
                    <6> HIDE DEF n
                    <6>2. g \in FieldsOf("ranges", ver)
                        BY <6>1, TypedSlot DEF RelocInv
                    <6>3. FieldsOf("ranges", ver) = {}
                        BY SMT DEF FieldsOf, Tables
                    <6> QED
                        BY <6>2, <6>3
                <5>2. \A g, h : ~ Slot(image', j, g, h)
                    BY <1>1, <5>1, Relocated
                <5> QED
                    BY <1>3, <5>2 DEF Entered, Slot
            <4> QED
                BY <4>1, <4>2, <4>3
        <3>3. ASSUME NEW m, Entering(v, m, t)
              PROVE  Entered(pass, src, image', pool', todo', j)
            <4>1. m = j
                BY <3>1, <3>3 DEF Entering, Enters
            <4>2. \A g \in DOMAIN image[j].f : \A h \in DOMAIN image[j].f[g] : Pending(t, j, g, h)
                BY <1>1, <3>3, <4>1, EnteringIs
            <4>3. \A g, h : Slot(image', j, g, h) => Slot(image, j, g, h)
                BY <1>1, Relocated
            <4>4. \A g, h : Pending(t, j, g, h) => Pending(todo', j, g, h)
                BY StepsList
            <4> QED
                BY <1>3, <4>2, <4>3, <4>4 DEF Entered, Slot
        <3> QED
            BY <3>2, <3>3 DEF Steps
    <2> QED
        BY <2>4, <2>5
<1> QED
    BY <1>2, <1>3 DEF Closed

\* What a slot leads to that still has the value of the traversal before.
LEMMA NotBoth ==
    ASSUME NEW ps \in Relocation, NEW im, NEW pl, NEW s, NEW j,
           Turned(ps, src, im, pl, s, <<Base(Before(ps)), j>>)
    PROVE  FALSE
<1> DEFINE v == <<Base(Before(ps)), j>>
<1>1. Left(ps, src, im, pl, s, v)
    BY LeftIs DEF Relocation
<1>2. v # Null /\ v[1] = Base(Before(ps))
    BY DEF Null
<1> HIDE DEF v
<1>3. \/ v = Null
      \/ ps = "serialize" /\ v[1] = "pool"
      \/ ps = "unserialize" /\ v[1] = "interned"
      \/ v[1] = Base(ps)
    <2>1. \/ v = Null
          \/ ps = "serialize" /\ \E n : v = <<"pool", n>>
          \/ ps = "unserialize" /\ v = <<"interned", s>>
          \/ \E m : v = <<Base(ps), m>>
        BY <1>1 DEF Left, Relocation
    <2> QED
        BY <2>1
<1>4. \/ ps = "serialize" /\ Base(ps) = "off" /\ Base(Before(ps)) = "img"
      \/ ps = "unserialize" /\ Base(ps) = "mem" /\ Base(Before(ps)) = "off"
    BY DEF Relocation, Base, Before
<1> QED
    BY <1>2, <1>3, <1>4

LEMMA LeadsBack ==
    ASSUME RelocInv, NEW k, NEW f, NEW i, Slot(image, k, f, i), NEW j \in DOMAIN image,
           image[k].f[f][i] = <<Base(Before(pass)), j>>
    PROVE  Source(src, image, k, f, i) = image[j].of
<1> DEFINE s == Source(src, image, k, f, i)
           v == image[k].f[f][i]
<1>1. pass \in Relocation /\ Before(pass) \in {"persist", "serialize"}
    BY DEF RelocInv, Relocation, Before
<1>2. Done(Before(pass), src, image, pool, k, f, i) \/ Done(pass, src, image, pool, k, f, i)
    BY DEF RelocInv, LoadRelocate, Halfway, Slot
<1>3. Turned(Before(pass), src, image, pool, s, v) \/ Turned(pass, src, image, pool, s, v)
    BY <1>2 DEF Done
<1>4. v = <<Base(Before(pass)), j>>
    OBVIOUS
<1> HIDE DEF s, v
<1>5. Turned(Before(pass), src, image, pool, s, v)
    BY <1>1, <1>3, <1>4, NotBoth
<1>6. Left(Before(pass), src, image, pool, s, v)
    BY <1>1, <1>5, LeftIs
<1>7. v # Null /\ v[1] = Base(Before(pass)) /\ v[2] = j
    BY <1>4 DEF Null
<1>8. v[1] # "pool" /\ v[1] # "interned"
    BY <1>1, <1>7 DEF Base
<1>9. \E m \in DOMAIN image : v[2] = m /\ image[m].of = s
    <2>1. CASE \E m \in DOMAIN image : v = <<"img", m>> /\ image[m].of = s
        BY <2>1
    <2>2. CASE \E m \in DOMAIN image : v = <<Base(Before(pass)), m>> /\ image[m].of = s
        BY <2>2
    <2>3. \/ v = Null \/ v[1] = "pool" \/ v[1] = "interned"
          \/ \E m \in DOMAIN image : v = <<"img", m>> /\ image[m].of = s
          \/ \E m \in DOMAIN image : v = <<Base(Before(pass)), m>> /\ image[m].of = s
        BY <1>6 DEF Left
    <2> QED
        BY <1>7, <1>8, <2>1, <2>2, <2>3
<1> QED
    BY <1>7, <1>9 DEF s

\* A slot that is not the head keeps what it has.
LEMMA OthersStay ==
    ASSUME RelocInv, NEW v, Turns(v), NEW k, NEW f, NEW i, Slot(image, k, f, i),
           ~ (k = HeadK /\ f = HeadF /\ i = HeadI),
           Done(Before(pass), src, image, pool, k, f, i)
    PROVE  Done(Before(pass), src, image', pool', k, f, i)
BY Relocated

LEMMA OpenedStep ==
    ASSUME RelocInv, NEW v, NEW t, Steps(v, t)
    PROVE  Opened(pass, src, image', pool', todo')
<1>1. Turns(v) /\ Opened(pass, src, image, pool, todo) /\ pass \in Relocation
    BY DEF Steps, RelocInv, LoadRelocate, Relocation
<1> SUFFICES ASSUME NEW k \in DOMAIN image', NEW f \in DOMAIN image'[k].f \ Translated,
                    NEW i \in DOMAIN image'[k].f[f], NEW j \in DOMAIN image',
                    image'[k].f[f][i] = <<Base(Before(pass)), j>>,
                    image'[j].kind \notin {"str", "ht"}
             PROVE  Unentered(pass, src, image', pool', todo', j)
    BY DEF Opened
<1>2. Slot(image', k, f, i)
    BY DEF Slot
<1>3. Slot(image, k, f, i) /\ f \notin Translated /\ j \in DOMAIN image
      /\ image'[j].kind = image[j].kind
    BY <1>1, <1>2, Relocated
<1>4. ~ (k = HeadK /\ f = HeadF /\ i = HeadI)
    <2> SUFFICES ASSUME k = HeadK, f = HeadF, i = HeadI PROVE FALSE
        OBVIOUS
    <2>1. Done(pass, src, image', pool', k, f, i)
        BY <1>1, Relocated
    <2>2. Turned(pass, src, image', pool', Source(src, image', k, f, i),
                 <<Base(Before(pass)), j>>)
        BY <2>1 DEF Done
    <2> QED
        BY <1>1, <2>2, NotBoth
<1>5. image[k].f[f][i] = <<Base(Before(pass)), j>>
    BY <1>1, <1>3, <1>4, Relocated
<1>6. Unentered(pass, src, image, pool, todo, j)
    <2>1. /\ k \in DOMAIN image /\ f \in DOMAIN image[k].f \ Translated
          /\ i \in DOMAIN image[k].f[f]
        BY <1>3 DEF Slot
    <2> QED
        BY <1>1, <1>3, <1>5, <2>1, Zenon DEF Opened
<1>7. Pending(todo, HeadK, HeadF, HeadI) /\ Slot(image, HeadK, HeadF, HeadI)
    BY <1>1, TodoSlots, Relocated
<1>8. HeadK # j
    BY <1>6, <1>7 DEF Unentered, Slot
<1>9. ASSUME NEW m, Entering(v, m, t) PROVE m # j
    <2> SUFFICES ASSUME m = j PROVE FALSE
        OBVIOUS
    <2>1. P = <<Base(Before(pass)), j>> /\ HeadF \notin Translated
        BY <1>9 DEF Entering, Enters
    <2>2. image[HeadK].f[HeadF][HeadI] = <<Base(Before(pass)), j>>
        BY <1>1, <2>1, HeadTurns DEF Turns
    <2>3. Source(src, image, HeadK, HeadF, HeadI) = image[j].of
        BY <1>3, <1>7, <2>2, LeadsBack
    <2>4. Source(src, image, k, f, i) = image[j].of
        BY <1>3, <1>5, LeadsBack
    <2>5. IsGraph(src) /\ Unshared(src) /\ Blocks(src, image) /\ Once(image)
        BY DEF RelocInv, CopyInv, TypeInv
    <2>6. image[j].of # Null /\ src[image[j].of[2]].kind \notin {"str", "ht"}
        BY <1>3, <2>5, BlockIs
    <2>7. k = HeadK /\ f = HeadF /\ i = HeadI
        BY <1>3, <1>7, <2>1, <2>3, <2>4, <2>5, <2>6, Sole
    <2> QED
        BY <1>4, <2>7
<1> SUFFICES ASSUME NEW g \in DOMAIN image'[j].f, NEW h \in DOMAIN image'[j].f[g]
             PROVE  /\ ~ Pending(todo', j, g, h)
                    /\ Done(Before(pass), src, image', pool', j, g, h)
    BY DEF Unentered
<1>10. Slot(image', j, g, h)
    BY DEF Slot
<1>11. Slot(image, j, g, h)
    BY <1>1, <1>10, Relocated
<1>12. ~ Pending(todo, j, g, h) /\ Done(Before(pass), src, image, pool, j, g, h)
    BY <1>6, <1>11 DEF Unentered, Slot
<1>13. Done(Before(pass), src, image', pool', j, g, h)
    BY <1>1, <1>8, <1>11, <1>12, OthersStay
<1>14. ~ Pending(t, j, g, h)
    <2>1. CASE t = <<>>
        BY <2>1 DEF Pending, Range
    <2>2. ASSUME NEW m, Entering(v, m, t) PROVE ~ Pending(t, j, g, h)
        BY <1>1, <1>9, <2>2, EnteringIs DEF Pending
    <2> QED
        BY <2>1, <2>2 DEF Steps
<1>15. ~ Pending(todo', j, g, h)
    BY <1>12, <1>14, StepsList
<1> QED
    BY <1>13, <1>15

LEMMA HandledStep ==
    ASSUME RelocInv, NEW v, NEW t, Steps(v, t)
    PROVE  Handled(image', todo')
<1>1. Turns(v) /\ IsSeq(todo) /\ todo # <<>> /\ IsSeq(t) /\ todo' = t \o Tail(todo)
    BY StepsList DEF Steps
<1> SUFFICES ASSUME NEW e \in Range(todo')
             PROVE  Handles(image'[e[1][2]].kind, e[2], e[4])
    BY DEF Handled
<1>2. e \in Range(t) \/ e \in Range(todo)
    BY <1>1, ListMoves
<1>3. \A k \in DOMAIN image : image'[k].kind = image[k].kind
    BY <1>1, Relocated
<1>4. CASE e \in Range(todo)
    <2>1. Handles(image[e[1][2]].kind, e[2], e[4])
        BY <1>4 DEF RelocInv, LoadRelocate, Handled
    <2>2. e[1][2] \in DOMAIN image
        BY <1>4, TodoSlots DEF Slot
    <2> QED
        BY <1>3, <2>1, <2>2
<1>5. CASE e \in Range(t)
    <2>1. t # <<>>
        BY <1>5 DEF Range
    <2>2. PICK m : Entering(v, m, t)
        BY <2>1 DEF Steps
    <2>3. m \in DOMAIN image /\ e[1][2] = m /\ Handles(image[m].kind, e[2], e[4])
        BY <1>1, <1>5, <2>2, EnteringIs
    <2> QED
        BY <1>3, <2>3
<1> QED
    BY <1>2, <1>4, <1>5

LEMMA UnturnedStep ==
    ASSUME RelocInv, NEW v, NEW t, Steps(v, t)
    PROVE  Unturned(pass, src, image', pool', todo')
<1>1. /\ Turns(v) /\ Unturned(pass, src, image, pool, todo)
      /\ IsSeq(todo) /\ todo # <<>> /\ IsSeq(t) /\ todo' = t \o Tail(todo)
    BY StepsList DEF Steps, RelocInv, LoadRelocate
<1>2. /\ 1 \in DOMAIN todo /\ Head(todo) = todo[1]
      /\ \A a \in DOMAIN t : todo'[a] = t[a] /\ t[a] \in Range(t)
      /\ \A a \in DOMAIN todo' \ DOMAIN t :
            a - Len(t) + 1 \in DOMAIN todo \ {1} /\ todo'[a] = todo[a - Len(t) + 1]
      /\ Len(t) \in Nat /\ DOMAIN todo' = 1 .. Len(t) + (Len(todo) - 1) /\ Len(todo) \in Nat
    BY <1>1, Split
<1>3. Pending(todo, HeadK, HeadF, HeadI)
    BY <1>1, TodoSlots
<1>4. \A k \in DOMAIN image : image'[k].kind = image[k].kind
    BY <1>1, Relocated
<1>5. ASSUME NEW a \in DOMAIN t, image'[t[a][1][2]].kind # "ht"
      PROVE  /\ Slot(image, t[a][1][2], t[a][2], t[a][3])
             /\ ~ Pending(todo, t[a][1][2], t[a][2], t[a][3])
             /\ Done(Before(pass), src, image, pool, t[a][1][2], t[a][2], t[a][3])
             /\ \A b \in DOMAIN t : SlotOf(t[a], t[b]) => a = b
    <2>1. t # <<>>
        OBVIOUS
    <2>2. PICK m : Entering(v, m, t)
        BY <2>1 DEF Steps
    <2>3. /\ m \in DOMAIN image /\ t[a][1][2] = m /\ Slot(image, m, t[a][2], t[a][3])
          /\ \A c, b \in DOMAIN t : SlotOf(t[c], t[b]) => c = b
          /\ image[m].kind # "ht" => Unentered(pass, src, image, pool, todo, m)
        BY <1>1, <1>2, <2>2, EnteringIs
    <2>4. Unentered(pass, src, image, pool, todo, m)
        BY <1>4, <1>5, <2>3
    <2> QED
        BY <2>3, <2>4 DEF Unentered, Slot
<1>6. ASSUME NEW a \in DOMAIN todo \ {1}, image'[todo[a][1][2]].kind # "ht"
      PROVE  /\ Slot(image, todo[a][1][2], todo[a][2], todo[a][3])
             /\ Pending(todo, todo[a][1][2], todo[a][2], todo[a][3])
             /\ Done(Before(pass), src, image, pool, todo[a][1][2], todo[a][2], todo[a][3])
             /\ \A b \in DOMAIN todo : SlotOf(todo[a], todo[b]) => a = b
             /\ ~ (todo[a][1][2] = HeadK /\ todo[a][2] = HeadF /\ todo[a][3] = HeadI)
    <2>1. /\ Slot(image, todo[a][1][2], todo[a][2], todo[a][3])
          /\ Pending(todo, todo[a][1][2], todo[a][2], todo[a][3])
        BY TodoSlots
    <2>2. image[todo[a][1][2]].kind # "ht"
        BY <1>4, <1>6, <2>1 DEF Slot
    <2>3. /\ Done(Before(pass), src, image, pool, todo[a][1][2], todo[a][2], todo[a][3])
          /\ \A b \in DOMAIN todo : SlotOf(todo[a], todo[b]) => a = b
        BY <1>1, <2>2 DEF Unturned
    <2>4. ~ SlotOf(todo[a], todo[1])
        BY <1>2, <2>3
    <2>5. HeadK = todo[1][1][2] /\ HeadF = todo[1][2] /\ HeadI = todo[1][3]
        BY <1>2 DEF HeadK, HeadF, HeadI, Owner
    <2> QED
        BY <2>1, <2>3, <2>4, <2>5 DEF SlotOf
<1>7. ASSUME NEW a \in DOMAIN todo, NEW e, ~ Pending(todo, e[1][2], e[2], e[3])
      PROVE  ~ SlotOf(e, todo[a]) /\ ~ SlotOf(todo[a], e)
    BY <1>7, TodoSlots DEF SlotOf
<1> SUFFICES ASSUME NEW a \in DOMAIN todo', image'[todo'[a][1][2]].kind # "ht"
             PROVE  /\ Done(Before(pass), src, image', pool', todo'[a][1][2], todo'[a][2],
                            todo'[a][3])
                    /\ \A b \in DOMAIN todo' : SlotOf(todo'[a], todo'[b]) => a = b
    BY DEF Unturned
<1>8. CASE a \in DOMAIN t
    <2>1. todo'[a] = t[a]
        BY <1>2, <1>8
    <2>2. /\ Slot(image, t[a][1][2], t[a][2], t[a][3])
          /\ ~ Pending(todo, t[a][1][2], t[a][2], t[a][3])
          /\ Done(Before(pass), src, image, pool, t[a][1][2], t[a][2], t[a][3])
          /\ \A b \in DOMAIN t : SlotOf(t[a], t[b]) => a = b
        BY <1>5, <1>8, <2>1
    <2>3. ~ (t[a][1][2] = HeadK /\ t[a][2] = HeadF /\ t[a][3] = HeadI)
        BY <1>3, <2>2
    <2>4. Done(Before(pass), src, image', pool', t[a][1][2], t[a][2], t[a][3])
        BY <1>1, <2>2, <2>3, OthersStay
    <2>5. ASSUME NEW b \in DOMAIN todo', SlotOf(todo'[a], todo'[b]) PROVE a = b
        <3>1. CASE b \in DOMAIN t
            BY <1>2, <2>1, <2>2, <2>5, <3>1
        <3>2. CASE b \notin DOMAIN t
            <4>1. b - Len(t) + 1 \in DOMAIN todo /\ todo'[b] = todo[b - Len(t) + 1]
                BY <1>2, <3>2
            <4>2. ~ SlotOf(t[a], todo[b - Len(t) + 1])
                BY <1>7, <2>2, <4>1
            <4> QED
                BY <2>1, <2>5, <4>1, <4>2
        <3> QED
            BY <3>1, <3>2
    <2> QED
        BY <2>1, <2>4, <2>5
<1>9. CASE a \notin DOMAIN t
    <2>1. PICK c : c = a - Len(t) + 1
        OBVIOUS
    <2>2. c \in DOMAIN todo \ {1} /\ todo'[a] = todo[c]
        BY <1>2, <1>9, <2>1
    <2>3. /\ Slot(image, todo[c][1][2], todo[c][2], todo[c][3])
          /\ Pending(todo, todo[c][1][2], todo[c][2], todo[c][3])
          /\ Done(Before(pass), src, image, pool, todo[c][1][2], todo[c][2], todo[c][3])
          /\ \A b \in DOMAIN todo : SlotOf(todo[c], todo[b]) => c = b
          /\ ~ (todo[c][1][2] = HeadK /\ todo[c][2] = HeadF /\ todo[c][3] = HeadI)
        BY <1>6, <2>2
    <2>4. Done(Before(pass), src, image', pool', todo[c][1][2], todo[c][2], todo[c][3])
        BY <1>1, <2>3, OthersStay
    <2>5. ASSUME NEW b \in DOMAIN todo', SlotOf(todo'[a], todo'[b]) PROVE a = b
        <3>1. CASE b \in DOMAIN t
            <4>1. todo'[b] = t[b] /\ SlotOf(todo[c], t[b])
                BY <1>2, <2>2, <2>5, <3>1
            <4>2. image'[t[b][1][2]].kind # "ht"
                BY <2>2, <4>1 DEF SlotOf
            <4>3. ~ Pending(todo, t[b][1][2], t[b][2], t[b][3])
                BY <1>5, <3>1, <4>2
            <4>4. ~ SlotOf(todo[c], t[b])
                BY <1>7, <2>2, <4>3
            <4> QED
                BY <4>1, <4>4
        <3>2. CASE b \notin DOMAIN t
            <4>1. b - Len(t) + 1 \in DOMAIN todo /\ todo'[b] = todo[b - Len(t) + 1]
                BY <1>2, <3>2
            <4>2. c = b - Len(t) + 1
                BY <2>2, <2>3, <2>5, <4>1
            <4> QED
                BY <1>2, <2>1, <4>2
        <3> QED
            BY <3>1, <3>2
    <2> QED
        BY <2>2, <2>4, <2>5
<1> QED
    BY <1>8, <1>9

LEMMA StepIs ==
    ASSUME RelocInv, NEW v, Turns(v), Leaves(v) \/ \E j : Enters(v, j)
    PROVE  \E t : Steps(v, t)
<1>1. IsSeq(todo) /\ todo # <<>>
    BY TodoSlots DEF Turns
<1>2. CASE Leaves(v)
    <2>1. Tail(todo) = <<>> \o Tail(todo) /\ IsSeq(<<>>)
        <3>1. Tail(todo) \in Seq(Range(todo))
            BY <1>1 DEF IsSeq
        <3>2. Tail(todo) = <<>> \o Tail(todo)
            BY <3>1
        <3> QED
            BY <3>2 DEF IsSeq
    <2>2. todo' = Tail(todo)
        BY <1>2 DEF Leaves
    <2> QED
        BY <1>2, <2>1, <2>2 DEF Steps
<1>3. ASSUME NEW j, Enters(v, j)
      PROVE  \E t : Steps(v, t)
    <2> DEFINE t == Of(<<Tag(pass), j>>, SlotsIn(pass, image[j]))
    <2>1. Entering(v, j, t)
        BY <1>3 DEF Entering
    <2> HIDE DEF t
    <2>2. IsSeq(t) /\ todo' = t \o Tail(todo)
        BY <2>1, EnteringIs
    <2> QED
        BY <2>1, <2>2 DEF Steps
<1> QED
    BY <1>2, <1>3

\* Every step of serialize and of unserialize preserves the invariant of the two.
LEMMA RelocInvStep ==
    ASSUME RelocInv, CopyInv', RelocNext
    PROVE  RelocInv'
<1>1. Moves
    BY RelocMoves
<1>2. PICK v : Turns(v) /\ (Leaves(v) \/ \E j : Enters(v, j))
    BY <1>1 DEF Moves
<1>3. PICK t : Steps(v, t)
    BY <1>2, StepIs
<1>4. /\ src' = src /\ ver' = ver /\ pass' = pass
      /\ DOMAIN image' = DOMAIN image /\ \A k \in DOMAIN image : image'[k].of = image[k].of
      /\ \A k, f, i : Slot(image, k, f, i) =>
            Slot(image', k, f, i) /\ Source(src, image', k, f, i) = Source(src, image, k, f, i)
    BY <1>2, Relocated DEF Turns
<1>5. /\ pass \in {"serialize", "unserialize"} /\ Typed(src, ver) /\ Unshared(src)
      /\ Parents(src, image) /\ Beside(src, image) /\ image[1].of = <<"src", "script">>
      /\ 1 \in DOMAIN image
    BY DEF RelocInv, CopyInv, TypeInv
<1>6. Parents(src, image')
    <2> SUFFICES ASSUME NEW k \in DOMAIN image' \ {1}
                 PROVE  \E j \in DOMAIN image' : \E f \in DOMAIN image'[j].f \ Translated :
                          \E i \in DOMAIN image'[j].f[f] :
                             j < k /\ Source(src, image', j, f, i) = image'[k].of
        BY DEF Parents
    <2>1. PICK j \in DOMAIN image : \E f \in DOMAIN image[j].f \ Translated :
              \E i \in DOMAIN image[j].f[f] : j < k /\ Source(src, image, j, f, i) = image[k].of
        BY <1>4, <1>5, Zenon DEF Parents
    <2>2. PICK f \in DOMAIN image[j].f \ Translated :
              \E i \in DOMAIN image[j].f[f] : j < k /\ Source(src, image, j, f, i) = image[k].of
        BY <2>1
    <2>3. PICK i \in DOMAIN image[j].f[f] : j < k /\ Source(src, image, j, f, i) = image[k].of
        BY <2>2
    <2>4. Slot(image, j, f, i) /\ f \notin Translated
        BY DEF Slot
    <2>5. /\ Slot(image', j, f, i) /\ Source(src, image', j, f, i) = image'[k].of
        BY <1>4, <2>3, <2>4
    <2>6. /\ j \in DOMAIN image' /\ f \in DOMAIN image'[j].f \ Translated
          /\ i \in DOMAIN image'[j].f[f] /\ j < k
        BY <2>3, <2>4, <2>5 DEF Slot
    <2> QED
        BY <2>5, <2>6, Zenon
<1>7. Beside(src, image')
    BY <1>4, <1>5 DEF Beside
<1>8. /\ Halfway(pass, src, image', pool') /\ Closed(pass, src, image', pool', todo')
      /\ Opened(pass, src, image', pool', todo') /\ Unturned(pass, src, image', pool', todo')
      /\ Handled(image', todo')
    BY <1>2, <1>3, HalfwayStep, ClosedStep, OpenedStep, UnturnedStep, HandledStep
<1>9. PoolFine(image', pool') /\ (pass = "serialize" => Pooled(image', pool', xlat'))
    BY <1>1, PoolStep
<1>10. LoadRelocate'
    BY <1>4, <1>8, <1>9 DEF LoadRelocate
<1>11. image'[1].of = <<"src", "script">> /\ Typed(src', ver') /\ Unshared(src')
       /\ Parents(src', image') /\ Beside(src', image') /\ pass' \in {"serialize", "unserialize"}
    BY <1>4, <1>5, <1>6, <1>7
<1> QED
    BY <1>10, <1>11 DEF RelocInv

\* Strings and expressions that are dropped have no slots.
LEMMA NoSlots ==
    ASSUME IsGraph(src), Blocks(src, image), Typed(src, ver), NEW k \in DOMAIN image,
           image[k].kind \in {"str", "complex_ast"}, NEW f, NEW i
    PROVE  ~ Slot(image, k, f, i)
<1> SUFFICES ASSUME Slot(image, k, f, i) PROVE FALSE
    OBVIOUS
<1> DEFINE n == image[k].of[2]
<1>1. /\ n \in DOMAIN src /\ f \in DOMAIN src[n].f /\ i \in DOMAIN src[n].f[f]
      /\ Shaped(src[n]) /\ src[n].kind \in {"str", "complex_ast"}
    BY BlockIs DEF Slot, Alike
<1> HIDE DEF n
<1>2. f \in FieldsOf(src[n].kind, ver)
    BY <1>1, TypedSlot
<1>3. FieldsOf("str", ver) = {} /\ FieldsOf("complex_ast", ver) = {}
    BY SMT DEF FieldsOf, Tables
<1> QED
    BY <1>1, <1>2, <1>3

\* When nothing waits any more, all slots are done: what was copied was reached.
LEMMA RelocEnds ==
    ASSUME RelocInv, todo = <<>>
    PROVE  AllDone(pass, src, image, pool)
<1>1. /\ IsGraph(src) /\ Blocks(src, image) /\ Typed(src, ver) /\ Once(image)
      /\ Parents(src, image) /\ Closed(pass, src, image, pool, todo) /\ pass \in Relocation
      /\ DOMAIN image = 1 .. Len(image) /\ Len(image) \in Nat
    BY IsSeqParts DEF RelocInv, CopyInv, TypeInv, Blocks, LoadRelocate, Relocation
<1>2. \A k, f, i : ~ Pending(todo, k, f, i)
    BY DEF Pending, Range
<1> DEFINE S == {n \in Nat : \A k \in DOMAIN image : k <= n =>
                    Entered(pass, src, image, pool, todo, k)}
<1>3. 0 \in S
    BY <1>1
<1>4. ASSUME NEW n \in Nat, n \in S PROVE n + 1 \in S
    <2> SUFFICES ASSUME NEW k \in DOMAIN image, k <= n + 1
                 PROVE  Entered(pass, src, image, pool, todo, k)
        OBVIOUS
    <2>1. k \in Nat /\ \A j \in DOMAIN image : j < k => j <= n
        BY <1>1
    <2>2. \A j \in DOMAIN image : j < k => Entered(pass, src, image, pool, todo, j)
        BY <1>4, <2>1
    <2>3. CASE k = 1
        BY <1>1, <2>3 DEF Closed
    <2>4. CASE k # 1
        <3>1. PICK j \in DOMAIN image : \E f \in DOMAIN image[j].f \ Translated :
                  \E i \in DOMAIN image[j].f[f] :
                     j < k /\ Source(src, image, j, f, i) = image[k].of
            BY <1>1, <2>4, Zenon DEF Parents
        <3>2. PICK f \in DOMAIN image[j].f \ Translated :
                  \E i \in DOMAIN image[j].f[f] :
                     j < k /\ Source(src, image, j, f, i) = image[k].of
            BY <3>1
        <3>3. PICK i \in DOMAIN image[j].f[f] :
                  j < k /\ Source(src, image, j, f, i) = image[k].of
            BY <3>2
        <3> HIDE DEF S
        <3>4. Done(pass, src, image, pool, j, f, i)
            BY <1>2, <2>2, <3>3 DEF Entered
        <3>5. Left(pass, src, image, pool, image[k].of, image[j].f[f][i])
            BY <1>1, <3>3, <3>4, LeftIs DEF Done, Relocation
        <3>6. image[k].of # Null /\ src[image[k].of[2]].kind = image[k].kind
            BY <1>1, BlockIs
        <3>7. CASE image[k].kind \in {"str", "complex_ast"}
            BY <1>1, <3>7, NoSlots DEF Entered, Slot
        <3>8. CASE image[k].kind \notin {"str", "complex_ast"}
            <4>1. \E m \in DOMAIN image :
                      image[j].f[f][i] = <<Base(pass), m>> /\ image[m].of = image[k].of
                BY <3>5, <3>6, <3>8 DEF Left
            <4>2. PICK m \in DOMAIN image :
                      image[j].f[f][i] = <<Base(pass), m>> /\ image[m].of = image[k].of
                BY <4>1
            <4>3. m = k
                BY <1>1, <4>2 DEF Once
            <4> QED
                BY <1>1, <4>2, <4>3, Zenon DEF Closed
        <3> QED
            BY <3>7, <3>8
    <2> QED
        BY <2>3, <2>4
<1> HIDE DEF S
<1>5. Nat \subseteq S
    BY <1>3, <1>4, SetInduction
<1>6. \A k \in DOMAIN image : Entered(pass, src, image, pool, todo, k)
    BY <1>1, <1>5 DEF S
<1> QED
    BY <1>2, <1>6 DEF AllDone, Entered

\* What one traversal leaves is not what the next one makes.
LEMMA NotYetBoth ==
    ASSUME NEW ps \in Relocation, NEW im, NEW pl, NEW s, NEW j,
           Turned(Before(ps), src, im, pl, s, <<Base(ps), j>>)
    PROVE  FALSE
<1> DEFINE v == <<Base(ps), j>>
<1>0. Before(ps) \in {"persist", "serialize"}
    BY DEF Relocation, Before
<1>1. Left(Before(ps), src, im, pl, s, v)
    BY <1>0, LeftIs
<1>2. v # Null /\ v[1] = Base(ps)
    BY DEF Null
<1> HIDE DEF v
<1>3. \/ v = Null
      \/ v[1] = "img" /\ ps = "serialize"
      \/ v[1] = "pool"
      \/ v[1] = Base(Before(ps))
    <2>1. \/ v = Null
          \/ Before(ps) = "persist" /\ \E m : v = <<"img", m>>
          \/ \E n : v = <<"pool", n>>
          \/ \E m : v = <<Base(Before(ps)), m>>
        BY <1>0, <1>1 DEF Left
    <2>2. Before(ps) = "persist" => ps = "serialize"
        BY DEF Before
    <2> QED
        BY <2>1, <2>2
<1>4. \/ ps = "serialize" /\ Base(ps) = "off" /\ Base(Before(ps)) = "img"
      \/ ps = "unserialize" /\ Base(ps) = "mem" /\ Base(Before(ps)) = "off"
    BY DEF Relocation, Base, Before
<1> QED
    BY <1>2, <1>3, <1>4

LEMMA LeftBack ==
    ASSUME NEW ps \in Relocation, NEW im, NEW pl, NEW s, NEW j,
           Turned(Before(ps), src, im, pl, s, <<Base(Before(ps)), j>>)
    PROVE  j \in DOMAIN im /\ im[j].of = s
<1> DEFINE v == <<Base(Before(ps)), j>>
<1>0. Before(ps) \in {"persist", "serialize"}
    BY DEF Relocation, Before
<1>1. Left(Before(ps), src, im, pl, s, v)
    BY <1>0, LeftIs
<1>2. v # Null /\ v[1] = Base(Before(ps)) /\ v[2] = j /\ v[1] # "pool" /\ v[1] # "interned"
    BY <1>0 DEF Null, Base
<1> HIDE DEF v
<1>3. \/ v = Null \/ v[1] = "pool" \/ v[1] = "interned"
      \/ \E m \in DOMAIN im : v = <<"img", m>> /\ im[m].of = s
      \/ \E m \in DOMAIN im : v = <<Base(Before(ps)), m>> /\ im[m].of = s
    BY <1>1 DEF Left
<1>4. CASE \E m \in DOMAIN im : v = <<"img", m>> /\ im[m].of = s
    BY <1>2, <1>4
<1>5. CASE \E m \in DOMAIN im : v = <<Base(Before(ps)), m>> /\ im[m].of = s
    BY <1>2, <1>5
<1> QED
    BY <1>2, <1>3, <1>4, <1>5

\* A traversal starts with the script, on an image that the one before has gone through.
StartReloc(ps) ==
    /\ ps \in Relocation /\ pass' = ps
    /\ xlat' = <<>> /\ todo' = Of(<<Tag(ps), 1>>, SlotsIn(ps, image[1]))
    /\ src' = src /\ ver' = ver /\ image' = image /\ pool' = pool
LEMMA RelocStarts ==
    ASSUME CopyInv, CopyInv', NEW ps, StartReloc(ps), AllDone(Before(ps), src, image, pool),
           Typed(src, ver), Unshared(src), Parents(src, image), Beside(src, image),
           1 \in DOMAIN image, image[1].of = <<"src", "script">>,
           PoolFine(image, pool), ps = "serialize" => pool = <<>>
    PROVE  RelocInv'
<1> DEFINE p == <<Tag(ps), 1>>
           s == SlotsIn(ps, image[1])
           o == image[1]
           t == Of(p, s)
<1>1. /\ ps \in Relocation /\ pass' = ps /\ xlat' = <<>> /\ todo' = t
      /\ src' = src /\ ver' = ver /\ image' = image /\ pool' = pool
    BY DEF StartReloc
<1>2. IsGraph(src) /\ Blocks(src, image) /\ Once(image)
    BY DEF CopyInv, TypeInv
<1>3. Swept(o, s)
    <2>1. Whole(ps, 1)
        BY DEF AllDone, Whole
    <2> QED
        BY <1>1, <1>2, <2>1, WholeUnmet
<1>4. p[2] = 1
    OBVIOUS
<1> HIDE DEF s, p
<1>5. /\ IsSeq(t)
      /\ \A e \in Range(t) : /\ e[1] = p /\ e[2] \in DOMAIN o.f /\ e[3] \in DOMAIN o.f[e[2]]
                             /\ Handles(o.kind, e[2], e[4])
      /\ \A f \in DOMAIN o.f : \A i \in DOMAIN o.f[f] : Pending(t, p[2], f, i)
      /\ \A a, b \in DOMAIN t : SlotOf(t[a], t[b]) => a = b
    BY <1>3, SweptWait
<1> HIDE DEF t
<1>6. \A e \in Range(t) : e[1][2] = 1 /\ Slot(image, 1, e[2], e[3])
    BY <1>4, <1>5 DEF Slot
<1>7. \A k, f, i : Slot(image, k, f, i) => Done(Before(ps), src, image, pool, k, f, i)
    BY DEF AllDone, Slot
<1>8. Halfway(ps, src, image, pool)
    BY <1>7 DEF Halfway, Slot
<1>9. Closed(ps, src, image, pool, t)
    <2>1. Entered(ps, src, image, pool, t, 1)
        BY <1>4, <1>5 DEF Entered
    <2>2. ASSUME NEW k \in DOMAIN image, NEW f \in DOMAIN image[k].f \ Translated,
                 NEW i \in DOMAIN image[k].f[f], NEW j \in DOMAIN image,
                 image[k].f[f][i] = <<Base(ps), j>>
          PROVE  FALSE
        <3>1. Done(Before(ps), src, image, pool, k, f, i)
            BY <1>7 DEF Slot
        <3>2. Turned(Before(ps), src, image, pool, Source(src, image, k, f, i), <<Base(ps), j>>)
            BY <2>2, <3>1 DEF Done
        <3> QED
            BY <1>1, <3>2, NotYetBoth
    <2> QED
        BY <2>1, <2>2 DEF Closed
<1>10. Opened(ps, src, image, pool, t)
    <2> SUFFICES ASSUME NEW k \in DOMAIN image, NEW f \in DOMAIN image[k].f \ Translated,
                        NEW i \in DOMAIN image[k].f[f], NEW j \in DOMAIN image,
                        image[k].f[f][i] = <<Base(Before(ps)), j>>
                 PROVE  Unentered(ps, src, image, pool, t, j)
        BY DEF Opened
    <2>1. Slot(image, k, f, i)
        BY DEF Slot
    <2>2. Turned(Before(ps), src, image, pool, Source(src, image, k, f, i),
                 <<Base(Before(ps)), j>>)
        BY <1>7, <2>1 DEF Done
    <2>3. Source(src, image, k, f, i) = image[j].of
        BY <1>1, <2>2, LeftBack
    <2>4. j # 1
        <3> SUFFICES ASSUME j = 1 PROVE FALSE
            OBVIOUS
        <3> DEFINE n == image[k].of[2]
        <3>1. /\ n \in DOMAIN src /\ f \in DOMAIN src[n].f /\ i \in DOMAIN src[n].f[f]
              /\ src[n].f[f][i] = <<"src", "script">>
            BY <1>2, <2>1, <2>3, SourceIs
        <3> HIDE DEF n
        <3> QED
            BY <1>2, <3>1 DEF IsGraph, Null
    <2>5. \A g, h : ~ Pending(t, j, g, h)
        BY <1>6, <2>4 DEF Pending
    <2>6. \A g \in DOMAIN image[j].f : \A h \in DOMAIN image[j].f[g] :
              Done(Before(ps), src, image, pool, j, g, h)
        BY <1>7 DEF Slot
    <2> QED
        BY <2>5, <2>6 DEF Unentered
<1>11. Unturned(ps, src, image, pool, t)
    <2>1. \A a \in DOMAIN t : t[a] \in Range(t)
        BY DEF Range
    <2>2. \A a \in DOMAIN t : Slot(image, t[a][1][2], t[a][2], t[a][3])
        BY <1>6, <2>1
    <2> QED
        BY <1>5, <1>7, <2>2 DEF Unturned
<1>12. Handled(image, t)
    BY <1>5, <1>6 DEF Handled
<1>13. pass' = "serialize" => Pooled(image', pool', xlat')
    BY <1>1 DEF Pooled
<1>14. LoadRelocate'
    BY <1>1, <1>8, <1>9, <1>10, <1>11, <1>12, <1>13 DEF LoadRelocate
<1>15. /\ pass' \in {"serialize", "unserialize"} /\ Typed(src', ver') /\ Unshared(src')
       /\ Parents(src', image') /\ Beside(src', image') /\ image'[1].of = <<"src", "script">>
    BY <1>1 DEF Relocation
<1> QED
    BY <1>14, <1>15 DEF RelocInv

\* The whole way of a script, from the compiler to the process that loads it.
LoadInv ==
    /\ CopyInv /\ Typed(src, ver) /\ Unshared(src) /\ AtHome(src)
    /\ \/ pass \in {"start", "calc"} /\ image = <<>> /\ pool = <<>>
       \/ PersistInv
       \/ RelocInv
       \/ pass = "loaded" /\ AllDone("unserialize", src, image, pool) /\ Beside(src, image)

LEMMA LoadInit == ASSUME \A s \in Scripts : Plain(s) PROVE Init => LoadInv
<1> SUFFICES ASSUME Init PROVE LoadInv
    OBVIOUS
<1>1. CopyInv
    BY CopyInit
<1>2. PICK s \in Scripts : src = s.objects /\ ver = s.ver
    BY DEF Init
<1>3. Plain(s)
    OBVIOUS
<1>4. Typed(src, ver) /\ Unshared(src) /\ AtHome(src)
    BY <1>2, <1>3 DEF Plain
<1>5. pass = "start" /\ image = <<>> /\ pool = <<>>
    BY DEF Init
<1> QED
    BY <1>1, <1>4, <1>5 DEF LoadInv

LEMMA LoadNext == LoadInv /\ [Next]_vars => LoadInv'
<1> SUFFICES ASSUME LoadInv, [Next]_vars PROVE LoadInv'
    OBVIOUS
<1>1. CopyInv /\ CopyInv' /\ Typed(src, ver) /\ Unshared(src) /\ AtHome(src)
    BY CopyNext DEF LoadInv
<1>2. ASSUME pass = "persist" PROVE PersistInv
    BY <1>2 DEF LoadInv, RelocInv
<1>3. ASSUME pass \in {"serialize", "unserialize"} PROVE RelocInv
    BY <1>3 DEF LoadInv, PersistInv
<1>4. ASSUME pass \in {"start", "calc"} PROVE image = <<>> /\ pool = <<>>
    BY <1>4 DEF LoadInv, PersistInv, RelocInv
<1>5. ASSUME pass = "loaded" PROVE AllDone("unserialize", src, image, pool) /\ Beside(src, image)
    BY <1>5 DEF LoadInv, PersistInv, RelocInv
<1>6. ASSUME src' = src, ver' = ver
      PROVE  Typed(src', ver') /\ Unshared(src') /\ AtHome(src')
    BY <1>1, <1>6
<1>7. CASE StartCalc \/ CalcKnown \/ CalcOnce \/ CalcMark \/ CalcEach
    <2>1. /\ src' = src /\ ver' = ver /\ image' = image /\ pool' = pool
          /\ pass \in {"start", "calc"} /\ pass' = "calc"
        BY <1>7 DEF StartCalc, CalcKnown, CalcOnce, CalcMark, CalcEach, At
    <2>2. image' = <<>> /\ pool' = <<>>
        BY <1>4, <2>1
    <2>3. Typed(src', ver') /\ Unshared(src') /\ AtHome(src')
        BY <1>6, <2>1
    <2> QED
        BY <1>1, <2>1, <2>2, <2>3 DEF LoadInv
<1>8. CASE StartPersist
    <2>1. pool = <<>> /\ src' = src /\ ver' = ver
        BY <1>4, <1>8 DEF StartPersist
    <2>2. PersistInv'
        BY <1>1, <1>8, <2>1, PersistStarts
    <2>3. Typed(src', ver') /\ Unshared(src') /\ AtHome(src')
        BY <1>6, <2>1
    <2> QED
        BY <1>1, <2>2, <2>3 DEF LoadInv
<1>9. CASE \/ PersistNull \/ PersistComplexAst \/ PersistCopy \/ PersistData \/ PersistKnown
           \/ PersistTranslate \/ PersistUpdate
    <2>1. pass = "persist" /\ src' = src /\ ver' = ver
        BY <1>9 DEF PersistNull, PersistComplexAst, PersistCopy, PersistData, PersistKnown,
           PersistTranslate, PersistUpdate, At
    <2>2. PersistInv
        BY <1>2, <2>1
    <2>3. Fills \/ Updates \/ Adds
        BY <1>9, <2>2, PersistFills, PersistUpdates, PersistAdds
    <2>4. PersistInv'
        BY <1>1, <2>2, <2>3, PersistInvStep
    <2>5. Typed(src', ver') /\ Unshared(src') /\ AtHome(src')
        BY <1>6, <2>1
    <2> QED
        BY <1>1, <2>4, <2>5 DEF LoadInv
<1>10. CASE StartSerialize
    <2>1. /\ pass = "persist" /\ todo = <<>> /\ pass' = "serialize" /\ xlat' = <<>>
          /\ todo' = Of(<<"img", 1>>, SerializeSlots(image[1]))
          /\ src' = src /\ ver' = ver /\ image' = image /\ pool' = pool
        BY <1>10 DEF StartSerialize
    <2>2. PersistInv
        BY <1>2, <2>1
    <2>3. AllDone(Before("serialize"), src, image, pool)
        BY <2>1, <2>2, PersistEnds DEF Before
    <2>4. StartReloc("serialize")
        BY <2>1 DEF StartReloc, Relocation, Tag, SlotsIn
    <2>5. /\ Parents(src, image) /\ Beside(src, image) /\ pool = <<>>
          /\ 1 \in DOMAIN image /\ image[1].of = <<"src", "script">>
        BY <2>1, <2>2 DEF PersistInv, LoadPersist, CopyInv, TypeInv
    <2>6. PoolFine(image, pool)
        BY <2>5 DEF PoolFine
    <2>7. RelocInv'
        BY <1>1, <2>3, <2>4, <2>5, <2>6, RelocStarts
    <2>8. Typed(src', ver') /\ Unshared(src') /\ AtHome(src')
        BY <1>6, <2>1
    <2> QED
        BY <1>1, <2>7, <2>8 DEF LoadInv
<1>11. CASE RelocNext
    <2>1. pass \in {"serialize", "unserialize"} /\ src' = src /\ ver' = ver
        BY <1>11 DEF RelocNext, SerializeSkip, SerializeInterned, SerializePtr, SerializeNext,
           UnserializeSkip, UnserializeInterned, UnserializePtr, UnserializeNext, At
    <2>2. RelocInv'
        BY <1>1, <1>3, <1>11, <2>1, RelocInvStep
    <2>3. Typed(src', ver') /\ Unshared(src') /\ AtHome(src')
        BY <1>6, <2>1
    <2> QED
        BY <1>1, <2>2, <2>3 DEF LoadInv
<1>12. CASE StartUnserialize
    <2>1. /\ pass = "serialize" /\ todo = <<>> /\ pass' = "unserialize" /\ xlat' = <<>>
          /\ todo' = Of(<<"mem", 1>>, UnserializeSlots(image[1]))
          /\ src' = src /\ ver' = ver /\ image' = image /\ pool' = pool
        BY <1>12 DEF StartUnserialize
    <2>2. RelocInv
        BY <1>3, <2>1
    <2>3. AllDone(Before("unserialize"), src, image, pool)
        BY <2>1, <2>2, RelocEnds DEF Before
    <2>4. StartReloc("unserialize")
        BY <2>1 DEF StartReloc, Relocation, Tag, SlotsIn
    <2>5. /\ Parents(src, image) /\ Beside(src, image) /\ PoolFine(image, pool)
          /\ 1 \in DOMAIN image /\ image[1].of = <<"src", "script">>
        BY <2>1, <2>2 DEF RelocInv, LoadRelocate, CopyInv, TypeInv
    <2>6. RelocInv'
        BY <1>1, <2>3, <2>4, <2>5, RelocStarts
    <2>7. Typed(src', ver') /\ Unshared(src') /\ AtHome(src')
        BY <1>6, <2>1
    <2> QED
        BY <1>1, <2>6, <2>7 DEF LoadInv
<1>13. CASE Loaded
    <2>1. /\ pass = "unserialize" /\ todo = <<>> /\ pass' = "loaded"
          /\ src' = src /\ ver' = ver /\ image' = image /\ pool' = pool
        BY <1>13 DEF Loaded
    <2>2. RelocInv
        BY <1>3, <2>1
    <2>3. AllDone("unserialize", src, image, pool)
        BY <2>1, <2>2, RelocEnds
    <2>4. Beside(src, image)
        BY <2>2 DEF RelocInv
    <2>5. AllDone("unserialize", src', image', pool') /\ Beside(src', image')
        BY <2>1, <2>3, <2>4
    <2>6. Typed(src', ver') /\ Unshared(src') /\ AtHome(src')
        BY <1>6, <2>1
    <2> QED
        BY <1>1, <2>1, <2>5, <2>6 DEF LoadInv
<1>14. CASE Finished \/ UNCHANGED vars
    <2>1. UNCHANGED vars
        BY <1>14 DEF Finished
    <2>2. /\ src' = src /\ ver' = ver /\ image' = image /\ pool' = pool /\ pass' = pass
          /\ todo' = todo /\ xlat' = xlat
        BY <2>1 DEF vars
    <2>3. Typed(src', ver') /\ Unshared(src') /\ AtHome(src')
        BY <1>6, <2>2
    <2>4. CASE pass \in {"start", "calc"}
        BY <1>1, <1>4, <2>2, <2>3, <2>4 DEF LoadInv
    <2>5. CASE pass = "persist"
        <3>1. PersistInv
            BY <1>2, <2>5
        <3>2. LoadPersist'
            BY <2>2, <3>1 DEF PersistInv, LoadPersist
        <3>3. Parents(src', image') /\ Beside(src', image')
            BY <2>2, <3>1 DEF PersistInv
        <3>4. PersistInv'
            BY <1>1, <2>2, <2>3, <2>5, <3>2, <3>3 DEF PersistInv
        <3> QED
            BY <1>1, <2>3, <3>4 DEF LoadInv
    <2>6. CASE pass \in {"serialize", "unserialize"}
        <3>1. RelocInv
            BY <1>3, <2>6
        <3>2. LoadRelocate'
            BY <2>2, <3>1 DEF RelocInv, LoadRelocate
        <3>3. Parents(src', image') /\ Beside(src', image') /\ image'[1].of = <<"src", "script">>
            BY <2>2, <3>1 DEF RelocInv
        <3>4. RelocInv'
            BY <1>1, <2>2, <2>3, <2>6, <3>2, <3>3 DEF RelocInv
        <3> QED
            BY <1>1, <2>3, <3>4 DEF LoadInv
    <2>7. CASE pass = "loaded"
        <3>1. AllDone("unserialize", src', image', pool') /\ Beside(src', image')
            BY <1>5, <2>2, <2>7
        <3> QED
            BY <1>1, <2>2, <2>3, <2>7, <3>1 DEF LoadInv
    <2>8. pass \in Passes
        BY <1>1 DEF CopyInv, TypeInv
    <2> QED
        BY <2>4, <2>5, <2>6, <2>7, <2>8 DEF Passes
<1> QED
    BY <1>7, <1>8, <1>9, <1>10, <1>11, <1>12, <1>13, <1>14 DEF Next, RelocNext

\* What is in a slot: what the compiler has put there, or what a traversal makes of it.
Leading(objects, im, pl) ==
    \A k, f, i : Slot(im, k, f, i) =>
        \/ im[k].f[f][i] = Source(objects, im, k, f, i)
        \/ \E ps \in {"persist", "serialize", "unserialize"} : Done(ps, objects, im, pl, k, f, i)
LEMMA LoadLeads == LoadInv => Leading(src, image, pool)
<1> SUFFICES ASSUME LoadInv, NEW k, NEW f, NEW i, Slot(image, k, f, i)
             PROVE  \/ image[k].f[f][i] = Source(src, image, k, f, i)
                    \/ \E ps \in {"persist", "serialize", "unserialize"} :
                          Done(ps, src, image, pool, k, f, i)
    BY DEF Leading
<1>1. CASE image = <<>>
    BY <1>1 DEF Slot
<1>2. CASE PersistInv
    BY <1>2 DEF PersistInv, LoadPersist, Started, Slot
<1>3. CASE RelocInv
    <2>1. \/ Done(Before(pass), src, image, pool, k, f, i)
          \/ Done(pass, src, image, pool, k, f, i)
        BY <1>3 DEF RelocInv, LoadRelocate, Halfway, Slot
    <2>2. /\ pass \in {"persist", "serialize", "unserialize"}
          /\ Before(pass) \in {"persist", "serialize", "unserialize"}
        BY <1>3 DEF RelocInv, Before
    <2> QED
        BY <2>1, <2>2
<1>4. CASE AllDone("unserialize", src, image, pool)
    BY <1>4 DEF AllDone, Slot
<1> QED
    BY <1>1, <1>2, <1>3, <1>4 DEF LoadInv

LEMMA ValueIs ==
    ASSUME LoadInv, NEW k, NEW f, NEW i, Slot(image, k, f, i)
    PROVE  LET v == image[k].f[f][i]
               s == Source(src, image, k, f, i) IN
           /\ \/ v = Null \/ v = s
              \/ \E n : v = <<"pool", n>>
              \/ v = <<"interned", s>>
              \/ \E t \in {"img", "off", "mem"} : \E m \in DOMAIN image :
                    v = <<t, m>> /\ image[m].of = s
           /\ s = Null \/ (s = <<"src", s[2]>> /\ s[2] \in DOMAIN src
                              /\ src[s[2]].kind \in LeadsTo(image[k].kind, f))
           /\ v # s /\ s # Null /\ src[s[2]].kind # "str" =>
                 v = Null \/ \E t \in {"img", "off", "mem"} : \E m \in DOMAIN image :
                                v = <<t, m>> /\ image[m].of = s
<1> DEFINE v == image[k].f[f][i]
           s == Source(src, image, k, f, i)
           n == image[k].of[2]
<1>1. IsGraph(src) /\ Blocks(src, image) /\ Typed(src, ver)
    BY DEF LoadInv, CopyInv, TypeInv
<1>2. /\ n \in DOMAIN src /\ f \in DOMAIN src[n].f /\ i \in DOMAIN src[n].f[f]
      /\ s = src[n].f[f][i] /\ (s # Null => s = <<"src", s[2]>> /\ s[2] \in DOMAIN src)
    BY <1>1, SourceIs
<1>3. image[k].kind = src[n].kind /\ Shaped(src[n])
    BY <1>1, BlockIs DEF Slot
<1>4. s # Null => src[s[2]].kind \in LeadsTo(image[k].kind, f)
    BY <1>1, <1>2, <1>3, TypedSlot
<1>5. v = s \/ \E ps \in {"persist", "serialize", "unserialize"} : Turned(ps, src, image, pool, s, v)
    BY LoadLeads DEF Leading, Done
<1>6. \A ps : Base(ps) \in {"img", "off", "mem"}
    BY DEF Base
<1> HIDE DEF v, s
<1>7. ASSUME NEW ps \in {"persist", "serialize", "unserialize"},
             Turned(ps, src, image, pool, s, v)
      PROVE  /\ \/ v = Null
                \/ \E m : v = <<"pool", m>>
                \/ v = <<"interned", s>>
                \/ \E t \in {"img", "off", "mem"} : \E m \in DOMAIN image :
                      v = <<t, m>> /\ image[m].of = s
             /\ s # Null /\ src[s[2]].kind # "str" =>
                   v = Null \/ \E t \in {"img", "off", "mem"} : \E m \in DOMAIN image :
                                  v = <<t, m>> /\ image[m].of = s
    <2>1. Left(ps, src, image, pool, s, v)
        BY <1>7, LeftIs
    <2>2. CASE v = Null
        BY <2>2
    <2>3. CASE s # Null /\ src[s[2]].kind = "str" /\ \E m : v = <<"pool", m>>
        BY <2>3
    <2>4. CASE s # Null /\ src[s[2]].kind = "str" /\ v = <<"interned", s>>
        BY <2>4
    <2>5. CASE \E m \in DOMAIN image : v = <<"img", m>> /\ image[m].of = s
        BY <2>5
    <2>6. CASE \E m \in DOMAIN image : v = <<Base(ps), m>> /\ image[m].of = s
        BY <1>6, <2>6
    <2>7. \/ v = Null
          \/ s # Null /\ src[s[2]].kind = "str" /\ \E m : v = <<"pool", m>>
          \/ s # Null /\ src[s[2]].kind = "str" /\ v = <<"interned", s>>
          \/ \E m \in DOMAIN image : v = <<"img", m>> /\ image[m].of = s
          \/ \E m \in DOMAIN image : v = <<Base(ps), m>> /\ image[m].of = s
        BY <2>1 DEF Left
    <2> QED
        BY <2>2, <2>3, <2>4, <2>5, <2>6, <2>7
<1> QED
    BY <1>2, <1>4, <1>5, <1>7 DEF v, s

\* No address is turned into an offset, or an offset into an address, that is not one:
\* when zend_file_cache_serialize or unserialize meets a pointer it is still as the
\* traversal before has left it, or it is an array's and the question whether it was
\* turned already keeps it as it is.
THEOREM RelocatedOnceHolds ==
    ASSUME \A s \in Scripts : Plain(s)
    PROVE  Spec => []RelocatedOnce
<1>1. LoadInv => RelocatedOnce
    <2> SUFFICES ASSUME LoadInv, NEW k \in DOMAIN image, Wild \in Pointers(image[k])
                 PROVE  FALSE
        BY DEF RelocatedOnce
    <2>1. \E f \in DOMAIN image[k].f : \E i \in DOMAIN image[k].f[f] : image[k].f[f][i] = Wild
        BY DEF Pointers
    <2>2. PICK f \in DOMAIN image[k].f : \E i \in DOMAIN image[k].f[f] : image[k].f[f][i] = Wild
        BY <2>1
    <2>3. PICK i \in DOMAIN image[k].f[f] : image[k].f[f][i] = Wild
        BY <2>2
    <2> DEFINE v == image[k].f[f][i]
               s == Source(src, image, k, f, i)
    <2>4. Slot(image, k, f, i)
        BY DEF Slot
    <2>5. /\ \/ v = Null \/ v = s
             \/ \E n : v = <<"pool", n>>
             \/ v = <<"interned", s>>
             \/ \E t \in {"img", "off", "mem"} : \E m \in DOMAIN image :
                   v = <<t, m>> /\ image[m].of = s
          /\ s = Null \/ s = <<"src", s[2]>>
        BY <2>4, ValueIs
    <2>6. v = Wild
        BY <2>3
    <2> HIDE DEF v, s
    <2> QED
        BY <2>5, <2>6 DEF Wild, Null
<1> QED
    BY <1>1, LoadInit, LoadNext, PTL DEF Spec

---------------------------------------------------------------------------
\* The way back from a hook to its property is no slot: persist writes it when it copies
\* the hook, serialize leaves it, unserialize writes it again.  What is tied is the copy
\* of a hook, and it is tied to the copy of its property; and a hook that its table leads
\* to in the loading process is tied there.

\* Block h is the copy of hook i of table t, table t that of the property k.
HookOf(objects, im, h, t, i) ==
    /\ h \in DOMAIN im /\ Slot(im, t, "val", i) /\ im[t].kind = "hooks"
    /\ Source(objects, im, t, "val", i) = im[h].of
TableOf(objects, im, t, k, a) ==
    /\ t \in DOMAIN im /\ Slot(im, k, "hooks", a)
    /\ Source(objects, im, k, "hooks", a) = im[t].of
TiedTo(objects, im, pi) ==
    \A h \in DOMAIN pi : \E t, i, k, a :
        /\ HookOf(objects, im, h, t, i) /\ TableOf(objects, im, t, k, a)
        /\ pi[h] \in {<<"img", k>>, <<"mem", k>>}
MemTied(im, pi) ==
    \A t, i, h :
        Slot(im, t, "val", i) /\ im[t].kind = "hooks" /\ im[t].f["val"][i] = <<"mem", h>> =>
            h \in DOMAIN pi /\ pi[h][1] = "mem"
HookInv ==
    /\ LoadInv /\ Tied /\ TiedTo(src, image, prop_info)
    /\ pass \in {"unserialize", "loaded"} => MemTied(image, prop_info)

LEMMA TiedGrows ==
    ASSUME NEW objects, NEW im, NEW new, Grows(im, new), NEW pi, TiedTo(objects, im, pi)
    PROVE  TiedTo(objects, new, pi)
<1> SUFFICES ASSUME NEW h \in DOMAIN pi
             PROVE  \E t, i, k, a :
                       /\ HookOf(objects, new, h, t, i) /\ TableOf(objects, new, t, k, a)
                       /\ pi[h] \in {<<"img", k>>, <<"mem", k>>}
    BY DEF TiedTo
<1>1. PICK t, i, k, a :
          /\ HookOf(objects, im, h, t, i) /\ TableOf(objects, im, t, k, a)
          /\ pi[h] \in {<<"img", k>>, <<"mem", k>>}
    BY DEF TiedTo
<1>2. HookOf(objects, new, h, t, i)
    <2>1. /\ h \in DOMAIN new /\ new[h].of = im[h].of
          /\ Slot(new, t, "val", i) /\ new[t].kind = im[t].kind
          /\ Source(objects, new, t, "val", i) = Source(objects, im, t, "val", i)
        BY <1>1, SlotGrows DEF HookOf, Grows
    <2> QED
        BY <1>1, <2>1 DEF HookOf
<1>3. TableOf(objects, new, t, k, a)
    <2>1. /\ t \in DOMAIN new /\ new[t].of = im[t].of /\ Slot(new, k, "hooks", a)
          /\ Source(objects, new, k, "hooks", a) = Source(objects, im, k, "hooks", a)
        BY <1>1, SlotGrows DEF TableOf, Grows
    <2> QED
        BY <1>1, <2>1 DEF TableOf
<1> QED
    BY <1>1, <1>2, <1>3

\* Only a property leads to a table of hooks.
LEMMA HooksField ==
    ASSUME NEW kind, NEW f
    PROVE  /\ "hooks" \in LeadsTo(kind, f) => f = "hooks"
           /\ LeadsTo(kind, "hooks") = {"hooks"}
           /\ LeadsTo("hooks", "val") = {"op_array"}
<1>1. "hooks" \notin Members(kind)
    BY DEF Members, Zvals
<1>2. Members("hooks") = {"op_array"}
    BY DEF Members
<1> QED
    BY <1>1, <1>2 DEF LeadsTo, Zvals

\* The slot through which a table of hooks was reached, when it leads to the copy.
LEMMA PropertyThere ==
    ASSUME LoadInv, PersistInv \/ RelocInv, NEW t \in DOMAIN image, image[t].kind = "hooks"
    PROVE  \E k, a : /\ Slot(image, k, "hooks", a) /\ Source(src, image, k, "hooks", a) = image[t].of
                     /\ \E b \in {"img", "off", "mem"} : image[k].f["hooks"][a] = <<b, t>>
<1>1. /\ IsGraph(src) /\ Blocks(src, image) /\ Typed(src, ver) /\ Once(image)
    BY DEF LoadInv, CopyInv, TypeInv
<1>2. image[t].of # Null /\ image[t].of[2] \in DOMAIN src /\ src[image[t].of[2]].kind = "hooks"
    BY <1>1, BlockIs
<1>3. ASSUME NEW k, NEW f, NEW i, Slot(image, k, f, i), Source(src, image, k, f, i) = image[t].of,
             image[k].f[f][i] # image[t].of, image[k].f[f][i] # Null
      PROVE  /\ f = "hooks"
             /\ \E b \in {"img", "off", "mem"} : image[k].f[f][i] = <<b, t>>
    <2> DEFINE v == image[k].f[f][i]
               s == Source(src, image, k, f, i)
    <2>1. /\ s # Null => src[s[2]].kind \in LeadsTo(image[k].kind, f)
          /\ v # s /\ s # Null /\ src[s[2]].kind # "str" =>
                 v = Null \/ \E b \in {"img", "off", "mem"} : \E m \in DOMAIN image :
                                v = <<b, m>> /\ image[m].of = s
        BY <1>3, ValueIs
    <2>2. v # s /\ v # Null /\ s = image[t].of
        BY <1>3
    <2> HIDE DEF v, s
    <2>3. f = "hooks"
        BY <1>2, <2>1, <2>2, HooksField
    <2>4. PICK b \in {"img", "off", "mem"} : \E m \in DOMAIN image : v = <<b, m>> /\ image[m].of = s
        BY <1>2, <2>1, <2>2
    <2>5. v = <<b, t>>
        BY <1>1, <2>2, <2>4 DEF Once
    <2> QED
        BY <2>3, <2>5 DEF v
<1>4. CASE PersistInv
    <2>1. Reached(src, image, xlat) /\ image[1].of = <<"src", "script">>
        BY <1>4 DEF PersistInv, CopyInv
    <2>2. t # 1
        <3>1. src["script"].kind = "script"
            BY <1>1 DEF IsGraph
        <3> QED
            BY <1>2, <2>1, <3>1
    <2>3. PICK k \in DOMAIN image : \E f \in DOMAIN image[k].f : \E i \in DOMAIN image[k].f[f] :
              Made(src, image, xlat, t, k, f, i)
        BY <2>1, <2>2 DEF Reached
    <2>4. PICK f \in DOMAIN image[k].f : \E i \in DOMAIN image[k].f[f] :
              Made(src, image, xlat, t, k, f, i)
        BY <2>3
    <2>5. PICK i \in DOMAIN image[k].f[f] : Made(src, image, xlat, t, k, f, i)
        BY <2>4
    <2>6. /\ Slot(image, k, f, i) /\ Source(src, image, k, f, i) = image[t].of
          /\ image[k].f[f][i] # image[t].of
        BY <2>5 DEF Made, Slot, Source
    <2>7. Done("persist", src, image, pool, k, f, i)
        BY <1>4, <2>6 DEF PersistInv, LoadPersist, Started, Slot
    <2>8. image[k].f[f][i] # Null
        BY <1>2, <2>6, <2>7 DEF Done, Turned, Base, Null
    <2>9. f = "hooks" /\ \E b \in {"img", "off", "mem"} : image[k].f[f][i] = <<b, t>>
        BY <1>3, <2>6, <2>8
    <2> QED
        BY <2>6, <2>9
<1>5. CASE RelocInv
    <2>1. Parents(src, image) /\ image[1].of = <<"src", "script">>
        BY <1>5 DEF RelocInv
    <2>2. t # 1
        <3>1. src["script"].kind = "script"
            BY <1>1 DEF IsGraph
        <3> QED
            BY <1>2, <2>1, <3>1
    <2>3. PICK k \in DOMAIN image : \E f \in DOMAIN image[k].f \ Translated :
              \E i \in DOMAIN image[k].f[f] : k < t /\ Source(src, image, k, f, i) = image[t].of
        BY <2>1, <2>2 DEF Parents
    <2>4. PICK f \in DOMAIN image[k].f \ Translated :
              \E i \in DOMAIN image[k].f[f] : Source(src, image, k, f, i) = image[t].of
        BY <2>3
    <2>5. PICK i \in DOMAIN image[k].f[f] : Source(src, image, k, f, i) = image[t].of
        BY <2>4
    <2>6. Slot(image, k, f, i)
        BY DEF Slot
    <2>7. \/ Done(Before(pass), src, image, pool, k, f, i)
          \/ Done(pass, src, image, pool, k, f, i)
        BY <1>5, <2>6 DEF RelocInv, LoadRelocate, Halfway, Slot
    <2>8. PICK ps \in {"persist", "serialize", "unserialize"} :
              Turned(ps, src, image, pool, image[t].of, image[k].f[f][i])
        BY <1>5, <2>5, <2>7 DEF RelocInv, Before, Done
    <2> DEFINE s == image[t].of
               v == image[k].f[f][i]
    <2>9. s # Null /\ src[s[2]].kind = "hooks" /\ s[1] = "src"
        <3>1. s = <<"src", s[2]>>
            BY <1>1, BlockIs
        <3> QED
            BY <1>2, <3>1
    <2>10. Turned(ps, src, image, pool, s, v)
        BY <2>8
    <2> HIDE DEF s, v
    <2>11. \E j \in DOMAIN image : v = <<Base(ps), j>>
        BY <2>9, <2>10 DEF Turned
    <2>12. Base(ps) \in {"img", "off", "mem"}
        BY DEF Base
    <2>13. v # s /\ v # Null
        BY <2>9, <2>11, <2>12 DEF Null
    <2>14. f = "hooks" /\ \E b \in {"img", "off", "mem"} : image[k].f[f][i] = <<b, t>>
        BY <1>3, <2>5, <2>6, <2>13 DEF s, v
    <2> QED
        BY <2>5, <2>6, <2>14
<1> QED
    BY <1>4, <1>5

\* The property that the traversals find.
LEMMA PropertyIs ==
    ASSUME LoadInv, PersistInv \/ RelocInv, NEW t \in DOMAIN image, image[t].kind = "hooks"
    PROVE  \E a : TableOf(src, image, t, PropertyOf(t), a)
<1> DEFINE Leads(k) == \E q \in Range(Field(image[k], "hooks")) :
                           q[1] \in {"img", "off", "mem"} /\ q[2] = t
           k == PropertyOf(t)
<1>1. PICK m, b : /\ Slot(image, m, "hooks", b)
                  /\ \E c \in {"img", "off", "mem"} : image[m].f["hooks"][b] = <<c, t>>
    BY PropertyThere
<1>2. m \in DOMAIN image /\ Leads(m)
    <2>1. image[m].f["hooks"][b] \in Range(Field(image[m], "hooks")) /\ m \in DOMAIN image
        BY <1>1 DEF Slot, Field, Range
    <2> QED
        BY <1>1, <2>1
<1>3. k \in DOMAIN image /\ Leads(k)
    <2>1. k = CHOOSE j \in DOMAIN image : Leads(j)
        BY DEF PropertyOf
    <2> HIDE DEF Leads, k
    <2> QED
        BY <1>2, <2>1
<1> HIDE DEF k
<1>4. PICK q \in Range(Field(image[k], "hooks")) : q[1] \in {"img", "off", "mem"} /\ q[2] = t
    BY <1>3
<1>5. "hooks" \in DOMAIN image[k].f /\ \E a \in DOMAIN image[k].f["hooks"] : q = image[k].f["hooks"][a]
    <2>1. Field(image[k], "hooks") # <<>>
        <3>1. Range(<<>>) = {}
            <4>1. DOMAIN <<>> = {}
                OBVIOUS
            <4> QED
                BY <4>1 DEF Range
        <3> QED
            BY <1>4, <3>1
    <2>2. "hooks" \in DOMAIN image[k].f /\ Field(image[k], "hooks") = image[k].f["hooks"]
        BY <2>1 DEF Field
    <2> QED
        BY <1>4, <2>2 DEF Range
<1>6. PICK a \in DOMAIN image[k].f["hooks"] : q = image[k].f["hooks"][a]
    BY <1>5
<1>7. Slot(image, k, "hooks", a)
    BY <1>3, <1>5 DEF Slot
<1> DEFINE s == Source(src, image, k, "hooks", a)
<1>8. /\ \/ q = Null \/ q = s
         \/ \E n : q = <<"pool", n>>
         \/ q = <<"interned", s>>
         \/ \E c \in {"img", "off", "mem"} : \E n \in DOMAIN image :
               q = <<c, n>> /\ image[n].of = s
      /\ s = Null \/ s = <<"src", s[2]>>
    BY <1>6, <1>7, ValueIs
<1> HIDE DEF s
<1>9. \E c \in {"img", "off", "mem"} : \E n \in DOMAIN image : q = <<c, n>> /\ image[n].of = s
    BY <1>4, <1>8 DEF Null
<1>10. image[t].of = s
    BY <1>4, <1>9
<1> QED
    BY <1>7, <1>10 DEF s, TableOf, k

\* A hook is tied to its property.
LEMMA TiesIn ==
    ASSUME LoadInv, PersistInv \/ RelocInv, Grows(image, image'), TiedTo(src, image, prop_info),
           image[HeadK].kind = "hooks", NEW h, HookOf(src, image', h, HeadK, HeadI),
           HeadK \in DOMAIN image, NEW b \in {"img", "mem"}, TieHook(<<b, h>>)
    PROVE  TiedTo(src, image', prop_info')
<1> DEFINE k == PropertyOf(HeadK)
<1>1. PICK a : TableOf(src, image, HeadK, k, a)
    BY PropertyIs
<1>2. TableOf(src, image', HeadK, k, a)
    <2>1. /\ HeadK \in DOMAIN image' /\ image'[HeadK].of = image[HeadK].of
          /\ Slot(image', k, "hooks", a)
          /\ Source(src, image', k, "hooks", a) = Source(src, image, k, "hooks", a)
        BY <1>1, SlotGrows DEF TableOf, Grows
    <2> QED
        BY <1>1, <2>1 DEF TableOf
<1>3. TiedTo(src, image', prop_info)
    BY TiedGrows
<1> DEFINE p == <<b, h>>
<1>4. \/ prop_info' = prop_info
      \/ prop_info' = [g \in DOMAIN prop_info \cup {h} |->
                          IF g = h THEN <<b, k>> ELSE prop_info[g]]
    <2>1. p[1] = b /\ p[2] = h
        OBVIOUS
    <2>2. TieHook(p)
        OBVIOUS
    <2> HIDE DEF p
    <2>3. \/ prop_info' = prop_info
          \/ prop_info' = [g \in DOMAIN prop_info \cup {p[2]} |->
                              IF g = p[2] THEN <<p[1], PropertyOf(Owner[2])>> ELSE prop_info[g]]
        BY <2>2, Ties
    <2> QED
        BY <2>1, <2>3 DEF HeadK, k
<1> HIDE DEF k
<1>5. CASE prop_info' = prop_info
    BY <1>3, <1>5
<1>6. CASE prop_info' = [g \in DOMAIN prop_info \cup {h} |->
                            IF g = h THEN <<b, k>> ELSE prop_info[g]]
    <2> SUFFICES ASSUME NEW g \in DOMAIN prop_info \cup {h}
                 PROVE  \E t, i, j, c :
                           /\ HookOf(src, image', g, t, i) /\ TableOf(src, image', t, j, c)
                           /\ prop_info'[g] \in {<<"img", j>>, <<"mem", j>>}
        BY <1>6 DEF TiedTo
    <2>1. CASE g = h
        <3>1. prop_info'[g] = <<b, k>>
            BY <1>6, <2>1
        <3>2. prop_info'[g] \in {<<"img", k>>, <<"mem", k>>}
            BY <3>1
        <3>3. HookOf(src, image', g, HeadK, HeadI) /\ TableOf(src, image', HeadK, k, a)
            BY <1>2, <2>1
        <3> QED
            BY <3>2, <3>3
    <2>2. CASE g # h
        <3>1. prop_info'[g] = prop_info[g] /\ g \in DOMAIN prop_info
            BY <1>6, <2>2
        <3> QED
            BY <1>3, <3>1 DEF TiedTo
    <2> QED
        BY <2>1, <2>2
<1> QED
    BY <1>4, <1>5, <1>6

LEMMA HookHead ==
    ASSUME TypeInv, todo # <<>>, pass # "calc"
    PROVE  AtHook <=> image[HeadK].kind = "hooks" /\ HeadF = "val"
<1>1. OwnerFine(pass, src, image, Owner)
    BY HeadIs DEF Entry, Owner
<1>2. Owner[1] \in {"img", "mem"}
    BY <1>1 DEF OwnerFine, Tag
<1>3. Kind(Owner) = image[HeadK].kind
    BY <1>2 DEF Kind, IsBlock, Obj, HeadK
<1> QED
    BY <1>3 DEF AtHook, HeadF

\* The slot that leads to a hook, and the hook it leads to after the step.
LEMMA HookThere ==
    ASSUME LoadInv, Grows(image, image'), Slot(image, HeadK, HeadF, HeadI),
           image[HeadK].kind = "hooks", HeadF = "val",
           NEW h \in DOMAIN image', image'[h].of = HeadSource
    PROVE  HookOf(src, image', h, HeadK, HeadI) /\ HeadK \in DOMAIN image
<1>1. /\ Slot(image', HeadK, "val", HeadI) /\ image'[HeadK].kind = "hooks"
      /\ Source(src, image', HeadK, "val", HeadI) = Source(src, image, HeadK, "val", HeadI)
    BY SlotGrows
<1> QED
    BY <1>1 DEF HookOf, HeadSource, Slot

LEMMA HookPersists ==
    ASSUME HookInv, PersistInv,
           \/ PersistNull \/ PersistComplexAst \/ PersistCopy \/ PersistData \/ PersistKnown
           \/ PersistTranslate \/ PersistUpdate
    PROVE  TiedTo(src', image', prop_info') /\ pass' = "persist"
<1>1. Fills \/ Updates \/ Adds
    BY PersistFills, PersistUpdates, PersistAdds
<1>2. /\ pass' = "persist" /\ src' = src /\ todo # <<>> /\ Grows(image, image')
    BY <1>1, StepAdvances DEF PersistInv, Advances
<1>3. TypeInv /\ LoadInv /\ TiedTo(src, image, prop_info) /\ pass = "persist"
    BY DEF HookInv, PersistInv, CopyInv
<1>4. /\ Slot(image, HeadK, HeadF, HeadI) /\ (Mode \in Fresh => P = HeadSource)
      /\ HeadSource # Null => HeadSource = <<"src", HeadSource[2]>>
    BY <1>2, HeadMeans
<1>5. AtHook <=> image[HeadK].kind = "hooks" /\ HeadF = "val"
    BY <1>2, <1>3, HookHead
<1>6. CASE prop_info' = prop_info
    BY <1>2, <1>3, <1>6, TiedGrows
<1>7. ASSUME NEW h \in DOMAIN image', image'[h].of = HeadSource, TieHook(<<"img", h>>)
      PROVE  TiedTo(src', image', prop_info')
    <2>1. CASE ~ AtHook
        BY <1>6, <1>7, <2>1, Ties
    <2>2. CASE AtHook
        <3>1. HookOf(src, image', h, HeadK, HeadI) /\ HeadK \in DOMAIN image
            BY <1>2, <1>3, <1>4, <1>5, <1>7, <2>2, HookThere
        <3> QED
            BY <1>2, <1>3, <1>5, <1>7, <2>2, <3>1, TiesIn
    <2> QED
        BY <2>1, <2>2
<1>8. CASE PersistCopy
    <2>1. /\ At("persist") /\ P # Null /\ Copy /\ TieHook(<<"img", Len(image) + 1>>)
        BY <1>8 DEF PersistCopy
    <2>2. Mode \in Copying
        BY <1>8 DEF PersistCopy, Shareable, Is, Copying
    <2>3. Len(image) + 1 \in DOMAIN image' /\ image'[Len(image) + 1].of = Origin(P)
        BY <1>3, <2>1, <2>2, CopyIs
    <2>4. P = HeadSource /\ P[1] = "src"
        <3>1. P = HeadSource
            BY <1>4, <2>2 DEF Fresh
        <3>2. HeadSource = <<"src", HeadSource[2]>>
            BY <1>4, <2>1, <3>1
        <3> QED
            BY <3>1, <3>2
    <2>5. Origin(P) = HeadSource
        BY <2>4 DEF Origin
    <2> QED
        BY <1>2, <1>7, <2>1, <2>3, <2>5
<1>9. CASE PersistKnown
    <2>1. Mode \in Copying /\ P \in DOMAIN xlat /\ TieHook(xlat[P]) /\ image' = Set(image, xlat[P])
        BY <1>9 DEF PersistKnown, Shareable, Is, Copying
    <2>2. P = HeadSource
        BY <1>4, <2>1 DEF Fresh
    <2>3. /\ xlat[P][2] \in DOMAIN image /\ image[xlat[P][2]].of = P
          /\ xlat[P] = <<"img", xlat[P][2]>>
        BY <2>1 DEF PersistInv, CopyInv, Registered, Img, LoadPersist, Paired
    <2>4. xlat[P][2] \in DOMAIN image' /\ image'[xlat[P][2]].of = HeadSource
        BY <1>2, <2>2, <2>3 DEF Grows
    <2> QED
        BY <1>2, <1>7, <2>1, <2>3, <2>4
<1>10. CASE PersistNull \/ PersistComplexAst \/ PersistData \/ PersistTranslate \/ PersistUpdate
    BY <1>6, <1>10 DEF PersistNull, PersistComplexAst, PersistData, PersistTranslate, PersistUpdate
<1> QED
    BY <1>2, <1>8, <1>9, <1>10

LEMMA HookRelocates ==
    ASSUME HookInv, RelocInv, RelocNext
    PROVE  /\ TiedTo(src', image', prop_info')
           /\ pass' = "unserialize" => MemTied(image', prop_info')
<1>1. Moves
    BY RelocMoves
<1>2. PICK v : Turns(v)
    BY <1>1 DEF Moves
<1>3. /\ src' = src /\ pass' = pass /\ todo # <<>> /\ Grows(image, image')
      /\ Writes(image, image', HeadK, HeadF, HeadI, v) /\ DOMAIN image' = DOMAIN image
    BY <1>2 DEF Turns
<1>4. TypeInv /\ LoadInv /\ TiedTo(src, image, prop_info) /\ pass \in {"serialize", "unserialize"}
    BY DEF HookInv, RelocInv, CopyInv
<1>5. /\ Slot(image, HeadK, HeadF, HeadI) /\ P = image[HeadK].f[HeadF][HeadI]
      /\ Handles(image[HeadK].kind, HeadF, Mode)
      /\ HeadSource # Null => src[HeadSource[2]].kind \in LeadsTo(image[HeadK].kind, HeadF)
    BY <1>3, HeadTurns
<1>6. AtHook <=> image[HeadK].kind = "hooks" /\ HeadF = "val"
    BY <1>3, <1>4, HookHead
<1>7. \A k, f, i : Slot(image', k, f, i) => Slot(image, k, f, i)
    BY <1>2, Relocated
<1>8. \A k, f, i : Slot(image, k, f, i) =>
          \/ k = HeadK /\ f = HeadF /\ i = HeadI
          \/ image'[k].f[f][i] = image[k].f[f][i]
    BY <1>2, Relocated
<1>9. \A k \in DOMAIN image : image'[k].kind = image[k].kind
    BY <1>2, Relocated
<1>10. CASE pass = "serialize"
    <2>1. prop_info' = prop_info
        BY <1>10, RelocHas DEF SerializeSkip, SerializeInterned, SerializePtr, SerializeNext
    <2> QED
        BY <1>3, <1>4, <1>10, <2>1, TiedGrows
<1>11. CASE pass = "unserialize"
    <2>1. MemTied(image, prop_info)
        BY <1>11 DEF HookInv
    <2>2. image'[HeadK].f[HeadF][HeadI] = v /\ Turned(pass, src, image', pool', HeadSource, v)
        <3>1. Source(src, image', HeadK, HeadF, HeadI) = HeadSource
            BY <1>3, <1>5, SlotGrows DEF HeadSource
        <3> QED
            BY <1>2, <3>1, Relocated DEF Done
    \* Another slot of hooks that is turned was turned before.
    <2>3. ASSUME \A h \in DOMAIN prop_info :
                     h \in DOMAIN prop_info' /\ (prop_info[h][1] = "mem" => prop_info'[h][1] = "mem"),
                 \A h : /\ AtHook
                        /\ v = <<"mem", h>>
                        => h \in DOMAIN prop_info' /\ prop_info'[h][1] = "mem"
          PROVE  MemTied(image', prop_info')
        <3> SUFFICES ASSUME NEW t, NEW i, NEW h, Slot(image', t, "val", i), image'[t].kind = "hooks",
                            image'[t].f["val"][i] = <<"mem", h>>
                     PROVE  h \in DOMAIN prop_info' /\ prop_info'[h][1] = "mem"
            BY DEF MemTied
        <3>1. Slot(image, t, "val", i)
            BY <1>7
        <3>2. image[t].kind = "hooks"
            BY <1>9, <3>1 DEF Slot
        <3>3. CASE t = HeadK /\ "val" = HeadF /\ i = HeadI
            <4>1. AtHook
                BY <1>6, <3>2, <3>3
            <4>2. v = <<"mem", h>>
                BY <2>2, <3>3
            <4> QED
                BY <2>3, <4>1, <4>2
        <3>4. CASE image'[t].f["val"][i] = image[t].f["val"][i]
            <4>1. h \in DOMAIN prop_info /\ prop_info[h][1] = "mem"
                BY <2>1, <3>1, <3>2, <3>4 DEF MemTied
            <4> QED
                BY <2>3, <4>1
        <3> QED
            BY <1>8, <3>1, <3>3, <3>4
    <2>4. CASE P[1] = "off" /\ UnserializePtr
        <3> DEFINE h == P[2]
        <3>1. TieHook(<<"mem", h>>) /\ image' = Set(image, <<"mem", h>>)
            BY <2>4 DEF UnserializePtr
        <3>2. v = <<"mem", h>>
            <4>1. image' = Put(image, HeadK, HeadF, HeadI, <<"mem", h>>)
                BY <3>1 DEF Set, Put, HeadK, HeadF, HeadI
            <4>2. Writes(image, image', HeadK, HeadF, HeadI, <<"mem", h>>)
                BY <1>4, <1>5, <4>1, SetIs DEF TypeInv, Slot
            <4>3. image'[HeadK].f[HeadF][HeadI] = <<"mem", h>>
                BY <1>5, <4>2 DEF Writes, Slot
            <4> QED
                BY <2>2, <4>3
        <3>3. CASE ~ AtHook
            <4>1. prop_info' = prop_info
                BY <3>1, <3>3, Ties
            <4>2. TiedTo(src', image', prop_info')
                BY <1>3, <1>4, <4>1, TiedGrows
            <4> QED
                BY <2>3, <3>3, <4>1, <4>2
        <3>4. CASE AtHook
            <4> HIDE DEF h
            <4>1. image[HeadK].kind = "hooks" /\ HeadF = "val"
                BY <1>6, <3>4
            <4>2. h \in DOMAIN image' /\ image'[h].of = HeadSource
                <5>1. Left("unserialize", src, image', pool', HeadSource, v)
                    BY <1>11, <2>2, LeftIs
                <5>2. v # Null
                    BY <3>2 DEF Null
                <5>3. HeadSource # Null
                    BY <5>1, <5>2 DEF Left
                <5>4. src[HeadSource[2]].kind = "op_array"
                    BY <1>5, <4>1, <5>3, HooksField
                <5>5. \E j \in DOMAIN image' : v = <<Base("unserialize"), j>> /\ image'[j].of = HeadSource
                    BY <5>1, <5>2, <5>4 DEF Left
                <5>6. Base("unserialize") = "mem"
                    BY DEF Base
                <5> QED
                    BY <3>2, <5>5, <5>6
            <4>3. HookOf(src, image', h, HeadK, HeadI) /\ HeadK \in DOMAIN image
                BY <1>3, <1>4, <1>5, <4>1, <4>2, HookThere
            <4>4. TiedTo(src, image', prop_info')
                BY <1>3, <1>4, <3>1, <4>1, <4>3, TiesIn
            <4>5. prop_info' = [g \in DOMAIN prop_info \cup {h} |->
                                   IF g = h THEN <<"mem", PropertyOf(Owner[2])>> ELSE prop_info[g]]
                <5> DEFINE p == <<"mem", h>>
                <5>1. p[1] = "mem" /\ p[2] = h /\ TieHook(p)
                    BY <3>1
                <5> HIDE DEF p
                <5> QED
                    BY <3>4, <5>1, Ties
            <4>6. \A g \in DOMAIN prop_info \cup {h} :
                     /\ g \in DOMAIN prop_info'
                     /\ g = h => prop_info'[g][1] = "mem"
                     /\ g # h => prop_info'[g] = prop_info[g]
                BY <4>5
            <4> HIDE DEF MemTied
            <4>7. \A g : AtHook /\ v = <<"mem", g>> => g \in DOMAIN prop_info' /\ prop_info'[g][1] = "mem"
                <5>1. \A g : v = <<"mem", g>> => g = h
                    BY <3>2
                <5> QED
                    BY <4>6, <5>1
            <4>8. \A g \in DOMAIN prop_info :
                     g \in DOMAIN prop_info' /\ (prop_info[g][1] = "mem" => prop_info'[g][1] = "mem")
                BY <4>6
            <4> QED
                BY <1>3, <2>3, <4>4, <4>7, <4>8
        <3> QED
            BY <3>3, <3>4
    <2>5. CASE ~ (P[1] = "off" /\ UnserializePtr)
        <3>1. prop_info' = prop_info
            BY <1>11, <2>5, RelocHas DEF UnserializeSkip, UnserializeInterned, UnserializePtr,
               UnserializeNext
        <3>2. TiedTo(src', image', prop_info')
            BY <1>3, <1>4, <3>1, TiedGrows
        <3>3. ASSUME AtHook, NEW h, v = <<"mem", h>>
              PROVE  h \in DOMAIN prop_info' /\ prop_info'[h][1] = "mem"
            <4>1. image[HeadK].kind = "hooks" /\ HeadF = "val"
                BY <1>6, <3>3
            <4>2. Mode \notin {"str", "zval", "type", "next"}
                BY <1>5, <4>1 DEF Handles
            <4>3. UnserializeSkip \/ (P[1] # "off" /\ UnserializePtr)
                BY <1>11, <2>5, <4>2, RelocHas DEF UnserializeInterned, UnserializeNext, IsString, Is
            <4>4. CASE UnserializeSkip
                <5>1. image' = image
                    BY <4>4 DEF UnserializeSkip
                <5>2. image[HeadK].f["val"][HeadI] = <<"mem", h>>
                    BY <2>2, <3>3, <4>1, <5>1
                <5>3. Slot(image, HeadK, "val", HeadI)
                    BY <1>5, <4>1
                <5> QED
                    BY <2>1, <3>1, <4>1, <5>2, <5>3 DEF MemTied
            <4>5. CASE P[1] # "off" /\ UnserializePtr
                <5>1. image' = Set(image, Wild)
                    BY <4>5 DEF UnserializePtr
                <5>2. image' = Put(image, HeadK, HeadF, HeadI, Wild)
                    BY <5>1 DEF Set, Put, HeadK, HeadF, HeadI
                <5>3. Writes(image, image', HeadK, HeadF, HeadI, Wild)
                    BY <1>4, <1>5, <5>2, SetIs DEF TypeInv, Slot
                <5>4. image'[HeadK].f[HeadF][HeadI] = Wild
                    BY <1>5, <5>3 DEF Writes, Slot
                <5> QED
                    BY <2>2, <3>3, <5>4 DEF Wild
            <4> QED
                BY <4>3, <4>4, <4>5
        <3>4. MemTied(image', prop_info')
            BY <2>3, <3>1, <3>3
        <3> QED
            BY <3>2, <3>4
    <2> QED
        BY <2>4, <2>5
<1> QED
    BY <1>4, <1>10, <1>11

LEMMA HookInit == ASSUME \A s \in Scripts : Plain(s) PROVE Init => HookInv
<1> SUFFICES ASSUME Init PROVE HookInv
    OBVIOUS
<1>1. LoadInv /\ Tied
    BY LoadInit, TiedInit
<1>2. prop_info = <<>> /\ pass = "start" /\ DOMAIN <<>> = {}
    BY DEF Init
<1> QED
    BY <1>1, <1>2 DEF HookInv, TiedTo

LEMMA HookNext == HookInv /\ [Next]_vars => HookInv'
<1> SUFFICES ASSUME HookInv, [Next]_vars PROVE HookInv'
    OBVIOUS
<1>1. LoadInv' /\ Tied' /\ LoadInv /\ TypeInv
    BY LoadNext, TiedStep DEF HookInv, LoadInv, CopyInv
<1>2. TiedTo(src, image, prop_info) /\ Tied
      /\ (pass \in {"unserialize", "loaded"} => MemTied(image, prop_info))
    BY DEF HookInv
<1>3. ASSUME src' = src, image' = image, prop_info' = prop_info,
             pass' \in {"unserialize", "loaded"} => MemTied(image, prop_info)
      PROVE  HookInv'
    BY <1>1, <1>2, <1>3 DEF HookInv
<1>4. CASE StartCalc \/ CalcKnown \/ CalcOnce \/ CalcMark \/ CalcEach \/ StartPersist
    <2>1. prop_info' = prop_info /\ pass \in {"start", "calc"} /\ pass' \in {"calc", "persist"}
        BY <1>4 DEF StartCalc, CalcKnown, CalcOnce, CalcMark, CalcEach, StartPersist, At
    <2>2. prop_info' = <<>> /\ DOMAIN <<>> = {}
        BY <1>2, <2>1 DEF Tied
    <2>3. TiedTo(src', image', prop_info')
        BY <2>2 DEF TiedTo
    <2> QED
        BY <1>1, <2>1, <2>3 DEF HookInv
<1>5. CASE \/ PersistNull \/ PersistComplexAst \/ PersistCopy \/ PersistData \/ PersistKnown
           \/ PersistTranslate \/ PersistUpdate
    <2>1. pass = "persist"
        BY <1>5 DEF PersistNull, PersistComplexAst, PersistCopy, PersistData, PersistKnown,
           PersistTranslate, PersistUpdate, At
    <2>2. PersistInv
        BY <1>1, <2>1 DEF LoadInv, RelocInv
    <2>3. TiedTo(src', image', prop_info') /\ pass' = "persist"
        BY <1>5, <2>2, HookPersists
    <2> QED
        BY <1>1, <2>3 DEF HookInv
<1>6. CASE StartSerialize
    <2>1. src' = src /\ image' = image /\ prop_info' = prop_info /\ pass' = "serialize"
        BY <1>6 DEF StartSerialize
    <2> QED
        BY <1>3, <2>1
<1>7. CASE RelocNext
    <2>1. pass \in {"serialize", "unserialize"} /\ pass' = pass
        BY <1>7 DEF RelocNext, SerializeSkip, SerializeInterned, SerializePtr, SerializeNext,
           UnserializeSkip, UnserializeInterned, UnserializePtr, UnserializeNext, At
    <2>2. RelocInv
        BY <1>1, <2>1 DEF LoadInv, PersistInv
    <2>3. /\ TiedTo(src', image', prop_info')
          /\ pass' = "unserialize" => MemTied(image', prop_info')
        BY <1>7, <2>2, HookRelocates
    <2> QED
        BY <1>1, <2>1, <2>3 DEF HookInv
<1>8. CASE StartUnserialize
    <2>1. /\ pass = "serialize" /\ todo = <<>> /\ src' = src /\ image' = image
          /\ prop_info' = prop_info
        BY <1>8 DEF StartUnserialize
    <2>2. AllDone("serialize", src, image, pool)
        <3>1. RelocInv
            BY <1>1, <2>1 DEF LoadInv, PersistInv
        <3> QED
            BY <2>1, <3>1, RelocEnds
    <2>3. MemTied(image, prop_info)
        <3> SUFFICES ASSUME NEW t, NEW i, NEW h, Slot(image, t, "val", i),
                            image[t].f["val"][i] = <<"mem", h>>
                     PROVE  FALSE
            BY DEF MemTied
        <3> DEFINE s == Source(src, image, t, "val", i)
                   v == image[t].f["val"][i]
        <3>1. Turned("serialize", src, image, pool, s, v)
            BY <2>2 DEF AllDone, Done, Slot
        <3>2. Left("serialize", src, image, pool, s, v)
            BY <3>1, LeftIs
        <3>3. v = <<"mem", h>>
            OBVIOUS
        <3> HIDE DEF s, v
        <3>4. Base("serialize") = "off"
            BY DEF Base
        <3> QED
            BY <3>2, <3>3, <3>4 DEF Left, Null
    <2> QED
        BY <1>3, <2>1, <2>3
<1>9. CASE Loaded
    <2>1. /\ pass = "unserialize" /\ src' = src /\ image' = image /\ prop_info' = prop_info
        BY <1>9 DEF Loaded
    <2> QED
        BY <1>2, <1>3, <2>1
<1>10. CASE Finished \/ UNCHANGED vars
    <2>1. src' = src /\ image' = image /\ prop_info' = prop_info /\ pass' = pass
        BY <1>10 DEF Finished, vars
    <2> QED
        BY <1>2, <1>3, <2>1
<1> QED
    BY <1>4, <1>5, <1>6, <1>7, <1>8, <1>9, <1>10 DEF Next, RelocNext

\* What serialize has left, and unserialize.
LEMMA TurnedAway ==
    LoadInv /\ pass \in {"unserialize", "loaded"} =>
        \A k \in DOMAIN image : \A p \in Pointers(image[k]) : p[1] \notin {"src", "img"}
<1> SUFFICES ASSUME LoadInv, pass \in {"unserialize", "loaded"}, NEW k \in DOMAIN image,
                    NEW p \in Pointers(image[k])
             PROVE  p[1] \notin {"src", "img"}
    OBVIOUS
<1>1. \E f \in DOMAIN image[k].f : \E i \in DOMAIN image[k].f[f] : image[k].f[f][i] = p
    BY DEF Pointers
<1>2. PICK f \in DOMAIN image[k].f : \E i \in DOMAIN image[k].f[f] : image[k].f[f][i] = p
    BY <1>1
<1>3. PICK i \in DOMAIN image[k].f[f] : image[k].f[f][i] = p
    BY <1>2
<1> DEFINE s == Source(src, image, k, f, i)
<1>4. \E ps \in {"serialize", "unserialize"} : Done(ps, src, image, pool, k, f, i)
    <2>1. CASE RelocInv
        <3>1. pass = "unserialize"
            BY <2>1 DEF RelocInv
        <3> QED
            BY <2>1, <3>1 DEF RelocInv, LoadRelocate, Halfway, Before
    <2>2. CASE AllDone("unserialize", src, image, pool)
        BY <2>2 DEF AllDone
    <2> QED
        BY <2>1, <2>2 DEF LoadInv, PersistInv
<1>5. PICK ps \in {"serialize", "unserialize"} : Turned(ps, src, image, pool, s, p)
    BY <1>3, <1>4 DEF Done
<1>6. Left(ps, src, image, pool, s, p)
    BY <1>5, LeftIs
<1> HIDE DEF s
<1>7. Base(ps) \in {"off", "mem"}
    BY DEF Base
<1>8. \/ p = Null \/ \E n : p = <<"pool", n>>
      \/ p = <<"interned", s>> \/ \E m : p = <<Base(ps), m>>
    BY <1>6 DEF Left
<1> QED
    BY <1>7, <1>8 DEF Null

\* Every hook that is tied is reached when the script is loaded, and tied there.
LEMMA HooksBack ==
    ASSUME HookInv, pass = "loaded", NEW h \in DOMAIN prop_info
    PROVE  prop_info[h][1] = "mem"
<1>1. /\ AllDone("unserialize", src, image, pool) /\ TypeInv /\ Once(image)
      /\ IsGraph(src) /\ Blocks(src, image) /\ Typed(src, ver) /\ LoadInv
    BY DEF HookInv, LoadInv, PersistInv, RelocInv, CopyInv, TypeInv
<1>2. PICK t, i, k, a : HookOf(src, image, h, t, i) /\ TableOf(src, image, t, k, a)
    BY DEF HookInv, TiedTo
<1> DEFINE s == Source(src, image, t, "val", i)
           v == image[t].f["val"][i]
<1>3. /\ h \in DOMAIN image /\ Slot(image, t, "val", i) /\ image[t].kind = "hooks"
      /\ s = image[h].of
    BY <1>2 DEF HookOf
<1>4. s # Null /\ (s # Null => src[s[2]].kind \in LeadsTo("hooks", "val"))
    <2>1. image[h].of # Null
        BY <1>1, <1>3, BlockIs
    <2>2. s # Null => src[s[2]].kind \in LeadsTo(image[t].kind, "val")
        BY <1>1, <1>3, ValueIs
    <2> QED
        BY <1>3, <2>1, <2>2
<1>5. src[s[2]].kind = "op_array"
    BY <1>4, HooksField
<1>6. Turned("unserialize", src, image, pool, s, v)
    BY <1>1, <1>3 DEF AllDone, Done, Slot
<1> HIDE DEF s, v
<1>7. \E j \in DOMAIN image : v = <<Base("unserialize"), j>> /\ image[j].of = s
    BY <1>4, <1>5, <1>6 DEF Turned
<1>8. v = <<"mem", h>>
    BY <1>1, <1>3, <1>7 DEF Base, Once
<1>9. MemTied(image, prop_info)
    BY DEF HookInv
<1> QED
    BY <1>3, <1>8, <1>9 DEF MemTied, v

\* The loaded script holds no address of the compiling process within the script: every
\* block but the script is reached through a pointer that is turned, and all its slots
\* are turned when it is.  The prop_info of the hooks, which is none of them, keeps the
\* build's address in the payload; unserialize writes it when it reaches the hook.
THEOREM PositionIndependentHolds ==
    ASSUME \A s \in Scripts : Plain(s)
    PROVE  Spec => []PositionIndependent
<1>1. HookInv => PositionIndependent
    <2> SUFFICES ASSUME HookInv PROVE PositionIndependent
        OBVIOUS
    <2>1. LoadInv
        BY DEF HookInv
    <2>2. ASSUME pass = "loaded", NEW h \in DOMAIN prop_info PROVE prop_info[h][1] = "mem"
        BY <2>2, HooksBack
    <2>3. pass \in {"unserialize", "loaded"} =>
             \A k \in DOMAIN image : \A p \in Pointers(image[k]) : p[1] \notin {"src", "img"}
        BY <2>1, TurnedAway
    <2> QED
        BY <2>2, <2>3 DEF PositionIndependent
<1> QED
    BY <1>1, HookInit, HookNext, PTL DEF Spec

LEMMA NotNone == ASSUME NEW kind, NEW f PROVE "none" \notin LeadsTo(kind, f)
<1>1. "none" \notin Members(kind)
    BY DEF Members, Zvals
<1> QED
    BY <1>1 DEF LeadsTo, Zvals

\* Each slot of a loaded structure leads to the copy of what the compiler's leads to.
Leads(k) ==
    LET o == image[k] IN
    \A f \in DOMAIN o.f : \A i \in DOMAIN o.f[f] :
        LET s == Obj(o.of).f[f][i]
            p == o.f[f][i]
        IN CASE Kind(s) \in {"none", "complex_ast"} -> p = Null
             [] Kind(s) = "str" -> p = <<"interned", s>>
             [] OTHER -> p[1] = "mem" /\ image[p[2]].of = s
LEMMA LeadsIs == LoadInv /\ pass = "loaded" => \A k \in DOMAIN image : Leads(k)
<1> SUFFICES ASSUME LoadInv, pass = "loaded", NEW k \in DOMAIN image,
                    NEW f \in DOMAIN image[k].f, NEW i \in DOMAIN image[k].f[f]
             PROVE  LET s == Obj(image[k].of).f[f][i]
                        p == image[k].f[f][i]
                    IN CASE Kind(s) \in {"none", "complex_ast"} -> p = Null
                         [] Kind(s) = "str" -> p = <<"interned", s>>
                         [] OTHER -> p[1] = "mem" /\ image[p[2]].of = s
    BY DEF Leads
<1> DEFINE s == Obj(image[k].of).f[f][i]
           p == image[k].f[f][i]
           u == Source(src, image, k, f, i)
<1>1. IsGraph(src) /\ Blocks(src, image) /\ Slot(image, k, f, i)
    BY DEF LoadInv, CopyInv, TypeInv, Slot
<1>2. s = u
    <2>1. image[k].of = <<"src", image[k].of[2]>>
        BY <1>1, BlockIs
    <2>2. Obj(image[k].of) = src[image[k].of[2]]
        BY <2>1 DEF Obj
    <2> QED
        BY <2>2 DEF Source
<1>3. /\ u = Null \/ (u = <<"src", u[2]>> /\ src[u[2]].kind # "none")
    BY <1>1, ValueIs, NotNone
<1>4. AllDone("unserialize", src, image, pool)
    BY DEF LoadInv, PersistInv, RelocInv
<1>5. Turned("unserialize", src, image, pool, u, p)
    BY <1>4 DEF AllDone, Done
<1> HIDE DEF s, p, u
<1>6. CASE u = Null
    <2>1. Kind(s) = "none"
        BY <1>2, <1>6 DEF Kind, IsBlock, Null
    <2>2. p = Null
        BY <1>5, <1>6 DEF Turned
    <2> QED
        BY <2>1, <2>2 DEF s, p
<1>7. CASE u # Null
    <2>1. Kind(s) = src[u[2]].kind /\ Kind(s) # "none"
        BY <1>2, <1>3, <1>7 DEF Kind, IsBlock, Obj
    <2>2. CASE Kind(s) = "complex_ast"
        <3>1. p = Null
            BY <1>5, <2>1, <2>2 DEF Turned
        <3> QED
            BY <2>2, <3>1 DEF s, p
    <2>3. CASE Kind(s) = "str"
        <3>1. p = <<"interned", u>>
            BY <1>5, <1>7, <2>1, <2>3 DEF Turned
        <3> QED
            BY <1>2, <2>3, <3>1 DEF s, p
    <2>4. CASE Kind(s) \notin {"complex_ast", "str"}
        <3>1. \E j \in DOMAIN image : p = <<Base("unserialize"), j>> /\ image[j].of = u
            BY <1>5, <1>7, <2>1, <2>4 DEF Turned
        <3>2. Base("unserialize") = "mem"
            BY DEF Base
        <3>3. p[1] = "mem" /\ image[p[2]].of = s
            BY <1>2, <3>1, <3>2
        <3> QED
            BY <2>1, <2>4, <3>3 DEF s, p
    <2> QED
        BY <2>2, <2>3, <2>4
<1> QED
    BY <1>6, <1>7

\* The hooks of a property are tied to it: no other property has its table, and no other
\* table has the hook.
LEMMA HooksKnow ==
    ASSUME HookInv, pass = "loaded", NEW k \in DOMAIN image, NEW h \in HooksOf(k)
    PROVE  h \in DOMAIN prop_info /\ prop_info[h] = <<"mem", k>>
<1>1. /\ IsGraph(src) /\ Blocks(src, image) /\ Typed(src, ver) /\ Unshared(src)
      /\ Once(image) /\ LoadInv /\ MemTied(image, prop_info) /\ TiedTo(src, image, prop_info)
    BY DEF HookInv, LoadInv, CopyInv, TypeInv
<1>2. PICK t \in DOMAIN image : /\ h \in DOMAIN image
                               /\ <<"mem", t>> \in Range(Field(image[k], "hooks"))
                               /\ <<"mem", h>> \in Range(Field(image[t], "val"))
    BY DEF HooksOf
<1>3. Range(<<>>) = {}
    <2>1. DOMAIN <<>> = {}
        OBVIOUS
    <2> QED
        BY <2>1 DEF Range
<1>4. \E a : Slot(image, k, "hooks", a) /\ image[k].f["hooks"][a] = <<"mem", t>>
    BY <1>2, <1>3 DEF Field, Range, Slot
<1>5. \E i : Slot(image, t, "val", i) /\ image[t].f["val"][i] = <<"mem", h>>
    BY <1>2, <1>3 DEF Field, Range, Slot
<1>6. PICK a : Slot(image, k, "hooks", a) /\ image[k].f["hooks"][a] = <<"mem", t>>
    BY <1>4
<1>7. PICK i : Slot(image, t, "val", i) /\ image[t].f["val"][i] = <<"mem", h>>
    BY <1>5
\* What leads to a block of the loading process has its origin for source.
<1>8. ASSUME NEW m, NEW f, NEW j, Slot(image, m, f, j),
             NEW n \in DOMAIN image, image[m].f[f][j] = <<"mem", n>>
      PROVE  /\ Source(src, image, m, f, j) = image[n].of
             /\ image[n].kind \in LeadsTo(image[m].kind, f)
    <2> DEFINE v == image[m].f[f][j]
               s == Source(src, image, m, f, j)
    <2>1. /\ \/ v = Null \/ v = s
             \/ \E c : v = <<"pool", c>>
             \/ v = <<"interned", s>>
             \/ \E b \in {"img", "off", "mem"} : \E c \in DOMAIN image :
                   v = <<b, c>> /\ image[c].of = s
          /\ s = Null \/ (s = <<"src", s[2]>> /\ src[s[2]].kind \in LeadsTo(image[m].kind, f))
        BY <1>1, <1>8, ValueIs
    <2>2. v = <<"mem", n>>
        BY <1>8
    <2>3. image[n].of # Null /\ image[n].kind = src[image[n].of[2]].kind
        BY <1>1, BlockIs
    <2> HIDE DEF v, s
    <2>4. image[n].of = s
        BY <2>1, <2>2 DEF Null
    <2> QED
        BY <2>1, <2>3, <2>4 DEF s
<1>9. /\ Source(src, image, k, "hooks", a) = image[t].of
      /\ Source(src, image, t, "val", i) = image[h].of
      /\ image[t].kind = "hooks"
    BY <1>2, <1>6, <1>7, <1>8, HooksField
<1>10. image[h].kind = "op_array"
    BY <1>2, <1>7, <1>8, <1>9, HooksField
<1>11. h \in DOMAIN prop_info /\ prop_info[h][1] = "mem"
    BY <1>1, <1>7, <1>9 DEF MemTied
<1>12. PICK t2, i2, k2, a2 :
          /\ HookOf(src, image, h, t2, i2) /\ TableOf(src, image, t2, k2, a2)
          /\ prop_info[h] \in {<<"img", k2>>, <<"mem", k2>>}
    BY <1>1, <1>11 DEF TiedTo
<1>13. /\ image[h].of # Null /\ src[image[h].of[2]].kind = "op_array"
       /\ image[t].of # Null /\ src[image[t].of[2]].kind = "hooks"
    BY <1>1, <1>2, <1>9, <1>10, BlockIs
<1>14. "val" \notin Translated /\ "hooks" \notin Translated
    BY DEF Translated
<1>15. t2 = t
    BY <1>1, <1>7, <1>9, <1>12, <1>13, <1>14, Sole DEF HookOf
<1>16. k2 = k
    BY <1>1, <1>6, <1>9, <1>12, <1>13, <1>14, <1>15, Sole DEF TableOf
<1> QED
    BY <1>11, <1>12, <1>16

\* The script that is loaded is the one that was compiled: each structure leads to the
\* copies of what the compiler's leads to, and to the same strings.  A hook leads back
\* to the property that leads to it.
THEOREM FaithfulHolds ==
    ASSUME \A s \in Scripts : Plain(s)
    PROVE  Spec => []Faithful
<1>1. HookInv => Faithful
    <2> SUFFICES ASSUME HookInv, pass = "loaded", NEW k \in DOMAIN image
                 PROVE  Leads(k) /\ \A h \in HooksOf(k) :
                                       h \in DOMAIN prop_info /\ prop_info[h] = <<"mem", k>>
        BY DEF Faithful, Leads
    <2>1. Leads(k)
        BY LeadsIs DEF HookInv
    <2> QED
        BY <2>1, HooksKnow
<1> QED
    BY <1>1, HookInit, HookNext, PTL DEF Spec

\* The first of a list of one, when it is not the compiler's any more.
LEMMA FirstLeads ==
    ASSUME LoadInv, NEW k \in DOMAIN image, NEW f \in {"opcodes", "literals", "ast"},
           First(image[k], f) # Null, First(image[k], f)[1] # "src"
    PROVE  \E t \in {"img", "off", "mem"} : \E m \in DOMAIN image :
               /\ First(image[k], f) = <<t, m>>
               /\ image[m].of = First(src[image[k].of[2]], f)
<1> DEFINE b == image[k]
           n == image[k].of[2]
<1>1. IsGraph(src) /\ Blocks(src, image) /\ Typed(src, ver)
    BY DEF LoadInv, CopyInv, TypeInv
<1>2. /\ n \in DOMAIN src /\ Alike(b, src[n]) /\ Shaped(b) /\ Shaped(src[n])
    BY <1>1, BlockIs
<1>3. Short(b) /\ Short(src[n])
    <2> HIDE DEF b, n
    <2> QED
        BY <1>1, <1>2, FittedIs
<1>4. Field(b, f) # <<>>
    BY DEF First
<1>5. /\ f \in DOMAIN b.f /\ 1 \in DOMAIN b.f[f] /\ First(b, f) = b.f[f][1]
    BY <1>2, <1>3, <1>4, SlotOne
<1>6. f \in DOMAIN src[n].f /\ 1 \in DOMAIN src[n].f[f] /\ First(src[n], f) = src[n].f[f][1]
    <2>1. f \in DOMAIN src[n].f /\ 1 \in DOMAIN src[n].f[f]
        BY <1>2, <1>5 DEF Alike
    <2> HIDE DEF n
    <2> QED
        BY <1>2, <1>3, <2>1, SlotOne
<1>7. Slot(image, k, f, 1)
    BY <1>5 DEF Slot
<1>8. Source(src, image, k, f, 1) = First(src[n], f)
    BY <1>6 DEF Source
<1> DEFINE v == image[k].f[f][1]
           s == Source(src, image, k, f, 1)
<1>9. /\ \/ v = Null \/ v = s
         \/ \E m : v = <<"pool", m>>
         \/ v = <<"interned", s>>
         \/ \E t \in {"img", "off", "mem"} : \E m \in DOMAIN image :
               v = <<t, m>> /\ image[m].of = s
      /\ s = Null \/ (s = <<"src", s[2]>> /\ src[s[2]].kind \in LeadsTo(image[k].kind, f))
      /\ v # s /\ s # Null /\ src[s[2]].kind # "str" =>
            v = Null \/ \E t \in {"img", "off", "mem"} : \E m \in DOMAIN image :
                           v = <<t, m>> /\ image[m].of = s
    BY <1>7, ValueIs
<1>10. "str" \notin LeadsTo(image[k].kind, f)
    BY DEF LeadsTo
<1>11. v # Null /\ v[1] # "src"
    BY <1>5
<1>12. s # Null
    <2> SUFFICES ASSUME s = Null PROVE FALSE
        OBVIOUS
    <2>1. Done("persist", src, image, pool, k, f, 1) \/ Done("serialize", src, image, pool, k, f, 1)
          \/ Done("unserialize", src, image, pool, k, f, 1)
        BY <1>7, <1>11, LoadLeads DEF Leading
    <2>2. \E ps \in {"persist", "serialize", "unserialize"} : Turned(ps, src, image, pool, s, v)
        BY <2>1 DEF Done
    <2> HIDE DEF s, v
    <2>3. v = Null
        BY <2>2 DEF Turned
    <2> QED
        BY <1>11, <2>3
<1>13. \E t \in {"img", "off", "mem"} : \E m \in DOMAIN image : v = <<t, m>> /\ image[m].of = s
    <2> HIDE DEF s, v
    <2> QED
        BY <1>9, <1>10, <1>11, <1>12
<1> QED
    BY <1>5, <1>8, <1>13

\* Literals lie behind the opcodes that address them, and an expression behind its
\* reference, from the moment they are in the image: persist goes to them at once.
THEOREM AdjacentHolds ==
    ASSUME \A s \in Scripts : Plain(s)
    PROVE  Spec => []Adjacent
<1>1. LoadInv => Adjacent
    <2> SUFFICES ASSUME LoadInv PROVE Adjacent
        OBVIOUS
    <2>2. ASSUME image # <<>> PROVE Beside(src, image)
        BY <2>2 DEF LoadInv, PersistInv, RelocInv
    <2>3. IsGraph(src) /\ Blocks(src, image)
        BY DEF LoadInv, CopyInv, TypeInv
    <2>4. ASSUME NEW k \in DOMAIN image, image[k].kind \in {"op_array", "script"},
                 First(image[k], "literals") # Null,
                 First(image[k], "opcodes")[1] = First(image[k], "literals")[1],
                 First(image[k], "opcodes")[1] # "src"
          PROVE  First(image[k], "literals")[2] = First(image[k], "opcodes")[2] + 1
        <3> DEFINE p == First(image[k], "opcodes")
                   q == First(image[k], "literals")
                   o == src[image[k].of[2]]
        <3>1. \E t \in {"img", "off", "mem"} : \E m \in DOMAIN image :
                  q = <<t, m>> /\ image[m].of = First(o, "literals")
            BY <2>4, FirstLeads
        <3>2. p # Null
            <4>1. q[1] \in {"img", "off", "mem"}
                BY <3>1
            <4> QED
                BY <2>4, <4>1 DEF Null
        <3>3. \E t \in {"img", "off", "mem"} : \E m \in DOMAIN image :
                  p = <<t, m>> /\ image[m].of = First(o, "opcodes")
            BY <2>4, <3>2, FirstLeads
        <3>4. Beside(src, image)
            BY <2>2
        <3>5. o.kind \in {"op_array", "script"}
            BY <2>3, <2>4, BlockIs
        <3>6. PICK b \in DOMAIN image : q[2] = b /\ image[b].of = First(o, "literals")
            BY <3>1
        <3>7. PICK a \in DOMAIN image : p[2] = a /\ image[a].of = First(o, "opcodes")
            BY <3>3
        <3>8. b = a + 1
            BY <3>4, <3>5, <3>6, <3>7 DEF Beside
        <3> QED
            BY <3>6, <3>7, <3>8
    <2>5. ASSUME NEW k \in DOMAIN image, image[k].kind = "ast_ref",
                 First(image[k], "ast")[1] = "img"
          PROVE  First(image[k], "ast")[2] = k + 1
        <3> DEFINE q == First(image[k], "ast")
                   o == src[image[k].of[2]]
        <3>1. q # Null
            BY <2>5 DEF Null
        <3>2. \E t \in {"img", "off", "mem"} : \E m \in DOMAIN image :
                  q = <<t, m>> /\ image[m].of = First(o, "ast")
            BY <2>5, <3>1, FirstLeads
        <3>3. Beside(src, image)
            BY <2>2
        <3>4. o.kind = "ast_ref"
            BY <2>3, <2>5, BlockIs
        <3>5. PICK b \in DOMAIN image : q[2] = b /\ image[b].of = First(o, "ast")
            BY <3>2
        <3>6. b = k + 1
            BY <3>3, <3>4, <3>5 DEF Beside
        <3> QED
            BY <3>5, <3>6
    <2> QED
        BY <2>4, <2>5 DEF Adjacent
<1> QED
    BY <1>1, LoadInit, LoadNext, PTL DEF Spec
===========================================================================
