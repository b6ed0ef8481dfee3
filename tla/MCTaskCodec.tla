---------------------------- MODULE MCTaskCodec -----------------------------
(***************************************************************************)
(* Parameters for TaskCodec: scalars of every kind (integers on both sides *)
(* of IntMax and of Exact), arrays and objects of up to two of them, and   *)
(* deeper values with empty and with null parts.  They are written nested, *)
(* as <<"array", seq>> and <<"object", f>>, f a function of the keys.      *)
(***************************************************************************)
EXTENDS TaskCodec, TLC

Scalars == {<<"null">>, <<"bool", TRUE>>, <<"string", "s">>, <<"double", 3>>}
           \cup {<<"int", i>> : i \in {-2, 0, 6, 7, 8, 33}}

Arrays(values) == {<<"array", a>> : a \in UNION {[1..n -> values] : n \in 0..2}}

Objects(values) == {<<"object", o>> : o \in UNION {[keys -> values] : keys \in SUBSET {"n", "x"}}}

Flat == Scalars \cup Arrays(Scalars) \cup Objects(Scalars)

Nest(values) == {<<"array", <<v>>>> : v \in values} \cup {<<"object", "x" :> v>> : v \in values}

Mixed == {<<"object", "n" :> n @@ "x" :> v>> : n \in Scalars, v \in Flat}

Values == Flat \cup Mixed \cup Nest(Flat) \cup Nest(Nest({<<"null">>, <<"array", <<>>>>, <<"object", <<>>>>}
                                                   \cup Nest({<<"null">>, <<"int", 7>>, <<"array", <<>>>>})))

-----------------------------------------------------------------------------
(***************************************************************************)
(* The conversions as the code has them, by recursion.  A Struct is a      *)
(* function of the keys.                                                   *)
(***************************************************************************)
ItemsOf(v) ==
    CASE v[1] = "object" -> v[2]
      [] v[1] = "array" -> [k \in {ToString(i - 1) : i \in DOMAIN v[2]} |->
                               v[2][CHOOSE i \in DOMAIN v[2] : ToString(i - 1) = k]]
      [] v[1] = "null" -> <<>>
      [] OTHER -> "" :> v

RECURSIVE StructOf(_)
StructOf(v) ==
    [k \in DOMAIN ItemsOf(v) |->
        LET item == ItemsOf(v)[k] IN
        IF Nested(item) THEN <<"struct", StructOf(item)>> ELSE ScalarValue(item)]

RECURSIVE ValueOf(_)
ValueOf(proto) ==
    LET kept == {k \in DOMAIN proto : proto[k][1] \in {"bool", "number", "string", "struct"}}
        Assigned(f) == CASE f[1] = "number" -> <<"double", f[2]>>
                         [] f[1] = "struct" -> ValueOf(f[2])
                         [] OTHER -> f
    IN  IF kept = {} THEN <<"null">> ELSE <<"object", [k \in kept |-> Assigned(proto[k])]>>

\* The tree of a nested value.
RECURSIVE TreeOf(_)
TreeOf(v) ==
    IF ~Nested(v) THEN <<>> :> v
    ELSE LET trees == [k \in DOMAIN ItemsOf(v) |-> TreeOf(ItemsOf(v)[k])]
             paths == UNION {{<<k>> \o p : p \in DOMAIN trees[k]} : k \in DOMAIN trees}
         IN  <<>> :> <<v[1]>> @@ [p \in paths |-> trees[Head(p)][Tail(p)]]

MCParams == {TreeOf(v) : v \in Values}

\* What StructToJson(JsonToStruct(j)) does node by node is what the recursion does.
ASSUME RecursionAssumption ==
    \A v \in Values : StructToJson(JsonToStruct(TreeOf(v))) = TreeOf(ValueOf(StructOf(v)))
=============================================================================
