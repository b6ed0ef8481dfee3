-------------------------- MODULE TaskCodecProofs ---------------------------
(***************************************************************************)
(* Proofs about TaskCodec, for all JSON values that clients may send, any  *)
(* number of hops and every width of int.                                  *)
(***************************************************************************)
EXTENDS TaskCodec, SequenceTheorems, WellFoundedInduction, TLAPS

-----------------------------------------------------------------------------
(***************************************************************************)
(* Nodes and trees.                                                        *)
(***************************************************************************)
\* What JsonToStruct does not call itself for, null apart.
Scalar(v) == v[1] \in {"bool", "int", "double", "string"}

\* What a tuple of one holds.
LEMMA One == ASSUME NEW x, NEW a, x = <<a>> PROVE x[1] = a
OBVIOUS

\* What a pair holds.
LEMMA Two == ASSUME NEW x, NEW a, NEW b, x = <<a, b>> PROVE x[1] = a /\ x[2] = b
OBVIOUS

\* The kind of a node says what else is in it.
LEMMA NodeKinds ==
    ASSUME NEW v \in Node
    PROVE  /\ v[1] \in {"null", "array", "object", "bool", "int", "double", "string"}
           /\ v[1] = "null" => v = <<"null">>
           /\ v[1] = "object" => v = <<"object">>
           /\ v[1] = "bool" => v[2] \in BOOLEAN /\ v = <<"bool", v[2]>>
           /\ v[1] \in {"int", "double"} => v[2] \in Int /\ v = <<v[1], v[2]>>
           /\ v[1] = "string" => v[2] \in Strings /\ v = <<"string", v[2]>>
BY DEF Node

\* The nodes that the code writes are nodes.
LEMMA KindNodes ==
    /\ <<"null">> \in Node /\ <<"object">> \in Node
    /\ \A i \in Int : <<"int", i>> \in Node /\ <<"double", i>> \in Node
    /\ \A s \in Strings : <<"string", s>> \in Node
BY DEF Node

\* Rounding an integer to a double of the model gives a whole number.
LEMMA NearestInt == ASSUME NEW i \in Int PROVE Nearest(i) \in Int
BY WidthAssumption DEF Nearest

\* A path is one key longer than its parent.
LEMMA ParentLen ==
    ASSUME NEW p \in Seq(Strings), p # <<>>
    PROVE  /\ Parent(p) \in Seq(Strings)
           /\ Len(p) = Len(Parent(p)) + 1
<1> DEFINE n == Len(p) - 1
<1>1. n \in Nat /\ Len(p) = n + 1 /\ \A i \in 1..n : p[i] \in Strings
  BY EmptySeq, LenProperties
<1> HIDE DEF n
<1>2. SubSeq(p, 1, n) \in Seq(Strings) /\ Len(SubSeq(p, 1, n)) = IF 1 <= n THEN n - 1 + 1 ELSE 0
  BY <1>1, SubSeqProperties, 1 \in Int, n \in Int
<1>3. Parent(p) = SubSeq(p, 1, n)
  BY DEF Parent, n
<1> QED
  BY <1>1, <1>2, <1>3

\* The parent of a path of one key is the root.
LEMMA PathOfOne ==
    ASSUME NEW k \in Strings
    PROVE  <<k>> \in Seq(Strings) /\ <<k>> # <<>> /\ Parent(<<k>>) = <<>> /\ <<>> \in Seq(Strings)
<1>1. <<k>> \in Seq(Strings)
  OBVIOUS
<1>2. Len(<<k>>) = 1
  OBVIOUS
<1>3. <<k>> # <<>>
  OBVIOUS
<1>4. SubSeq(<<k>>, 1, 0) = <<>>
  BY SubSeqEmpty
<1>5. Parent(<<k>>) = <<>>
  BY <1>2, <1>4 DEF Parent
<1> QED
  BY <1>1, <1>3, <1>5

\* items() turns a value into a container, or leaves null, and the result is a tree.
LEMMA ItemsTree ==
    ASSUME NEW j, JsonTree(j)
    PROVE  /\ JsonTree(Items(j))
           /\ Items(j)[<<>>][1] \in {"null", "array", "object"}
<1>1. CASE j[<<>>][1] \in {"null", "array", "object"}
  BY <1>1 DEF Items
<1>2. CASE j[<<>>][1] \notin {"null", "array", "object"}
  <2> DEFINE i == Items(j)
  <2>1. i = [p \in {<<>>, <<"">>} |-> IF p = <<>> THEN <<"object">> ELSE j[<<>>]]
    BY <1>2 DEF Items
  <2>2. j[<<>>] \in Node
    BY DEF JsonTree
  <2>3. <<"">> # <<>> /\ <<"">> \in Seq(Strings) /\ Parent(<<"">>) = <<>> /\ <<>> \in Seq(Strings)
    BY PathOfOne, ParamsAssumption
  <2>4. DOMAIN i = {<<>>, <<"">>} /\ i[<<>>] = <<"object">> /\ i[<<"">>] = j[<<>>]
    BY <2>1, <2>3
  <2>5. i \in [DOMAIN i -> Node]
    BY <2>1, <2>2, <2>4, KindNodes
  <2> HIDE DEF i
  <2>6. i[<<>>][1] = "object" /\ Nested(i[<<>>])
    BY <2>4, One DEF Nested
  <2>7. \A p \in DOMAIN i \ {<<>>} : Parent(p) = <<>>
    BY <2>3, <2>4
  <2>8. DOMAIN i \subseteq Seq(Strings) /\ <<>> \in DOMAIN i
    BY <2>3, <2>4
  <2>9. JsonTree(i)
    BY <2>5, <2>6, <2>7, <2>8, Zenon DEF JsonTree
  <2> QED
    BY <2>6, <2>9 DEF i
<1> QED
  BY <1>1, <1>2

\* A scalar comes back from a Value as itself, an integer as its double, and a second
\* hop does not change it any more.
LEMMA ScalarHop ==
    ASSUME NEW v \in Node, Scalar(v)
    PROVE  /\ ScalarValue(v)[1] \in {"bool", "number", "string"}
           /\ AsDouble(v) = IF ScalarValue(v)[1] = "number" THEN <<"double", ScalarValue(v)[2]>>
                            ELSE ScalarValue(v)
           /\ AsDouble(v) \in Node
           /\ AsDouble(v)[1] \in {"bool", "double", "string"}
           /\ AsDouble(AsDouble(v)) = AsDouble(v)
<1>1. CASE v[1] = "int"
  <2>1. v[2] \in Int /\ Nearest(v[2]) \in Int
    BY <1>1, NodeKinds, NearestInt
  <2>2. ScalarValue(v) = <<"number", Nearest(v[2])>> /\ AsDouble(v) = <<"double", Nearest(v[2])>>
    BY <1>1 DEF ScalarValue, NumberValue, AsDouble
  <2>3. AsDouble(v)[1] = "double" /\ AsDouble(v) \in Node
    BY <2>1, <2>2, KindNodes, Two
  <2>4. AsDouble(AsDouble(v)) = AsDouble(v)
    BY <2>3 DEF AsDouble
  <2>5. ScalarValue(v)[1] = "number" /\ ScalarValue(v)[2] = Nearest(v[2])
    BY <2>2
  <2> QED
    BY <2>2, <2>3, <2>4, <2>5
<1>2. CASE v[1] = "double"
  <2>1. v[2] \in Int /\ v = <<"double", v[2]>>
    BY <1>2, NodeKinds
  <2>2. ScalarValue(v) = <<"number", v[2]>> /\ AsDouble(v) = v
    BY <1>2 DEF ScalarValue, NumberValue, AsDouble
  <2> QED
    BY <1>2, <2>1, <2>2 DEF AsDouble
<1>3. CASE v[1] \in {"bool", "string"}
  <2>1. ScalarValue(v) = v /\ AsDouble(v) = v
    BY <1>3 DEF ScalarValue, AsDouble
  <2> QED
    BY <1>3, <2>1
<1> QED
  BY <1>1, <1>2, <1>3 DEF Scalar

-----------------------------------------------------------------------------
(***************************************************************************)
(* What one hop, StructToJson(JsonToStruct(j)), makes of a JSON value.     *)
(***************************************************************************)
\* One hop of a JSON value.
Once(j) == StructToJson(JsonToStruct(j))

\* A hop drops the nulls in a container and nothing else.
LEMMA OnceDomain ==
    ASSUME NEW j, JsonTree(j)
    PROVE  DOMAIN Once(j) = {p \in DOMAIN Items(j) : p = <<>> \/ Items(j)[p][1] # "null"}
<1> DEFINE i == Items(j)  s == JsonToStruct(j)
<1>1. JsonTree(i)
  BY ItemsTree
<1>2. DOMAIN s = DOMAIN i /\ \A p \in DOMAIN i :
         s[p] = IF p = <<>> \/ Nested(i[p]) THEN <<"struct">> ELSE ScalarValue(i[p])
  BY DEF JsonToStruct
<1>3. DOMAIN Once(j) = {p \in DOMAIN s : s[p][1] \in {"bool", "number", "string", "struct"}}
  BY DEF Once, StructToJson, Kept
<1> HIDE DEF i, s
<1>4. ASSUME NEW p \in DOMAIN i
      PROVE  s[p][1] \in {"bool", "number", "string", "struct"} <=> (p = <<>> \/ i[p][1] # "null")
  <2>1. CASE p = <<>> \/ Nested(i[p])
    <3>1. s[p] = <<"struct">>
      BY <1>2, <2>1
    <3> QED
      BY <2>1, <3>1 DEF Nested
  <2>2. CASE ~(p = <<>> \/ Nested(i[p]))
    <3>1. s[p] = ScalarValue(i[p])
      BY <1>2, <2>2
    <3>2. i[p] \in Node
      BY <1>1 DEF JsonTree
    <3>3. CASE i[p][1] = "null"
      BY <2>2, <3>1, <3>3 DEF ScalarValue
    <3>4. CASE i[p][1] # "null"
      <4>1. Scalar(i[p])
        BY <2>2, <3>2, <3>4, NodeKinds DEF Scalar, Nested
      <4> QED
        BY <3>1, <3>2, <3>4, <4>1, ScalarHop
    <3> QED
      BY <3>3, <3>4
  <2> QED
    BY <2>1, <2>2
<1>5. DOMAIN Once(j) = {p \in DOMAIN i : p = <<>> \/ i[p][1] # "null"}
  BY <1>2, <1>3, <1>4
<1> QED
  BY <1>5 DEF i

\* Something was assigned to the json at p.
HasChild(j, p) == \E q \in DOMAIN j \ {<<>>} : Parent(q) = p

\* What a hop makes of a node: a scalar stays, a container becomes an object, or null
\* when nothing is left in it.
LEMMA OnceNode ==
    ASSUME NEW j, JsonTree(j), NEW p \in DOMAIN Once(j)
    PROVE  /\ p # <<>> /\ Scalar(Items(j)[p]) => Once(j)[p] = AsDouble(Items(j)[p])
           /\ p = <<>> \/ Nested(Items(j)[p]) =>
                 Once(j)[p] = IF HasChild(Once(j), p) THEN <<"object">> ELSE <<"null">>
           /\ Once(j) = [q \in DOMAIN Once(j) |-> Once(j)[q]]
<1> DEFINE i == Items(j)  s == JsonToStruct(j)
<1>1. Once(j) = [q \in Kept(s) |->
        CASE s[q][1] = "number" -> <<"double", s[q][2]>>
          [] s[q][1] = "struct" ->
                IF \E r \in Kept(s) \ {<<>>} : Parent(r) = q THEN <<"object">> ELSE <<"null">>
          [] OTHER -> s[q]]
  BY DEF Once, StructToJson
<1>2. DOMAIN Once(j) = Kept(s)
  BY <1>1
<1>3. p \in DOMAIN i /\ i[p] \in Node
  BY OnceDomain, ItemsTree DEF JsonTree
<1>4. s[p] = IF p = <<>> \/ Nested(i[p]) THEN <<"struct">> ELSE ScalarValue(i[p])
  BY <1>3 DEF JsonToStruct
<1> HIDE DEF i, s
<1>5. Once(j)[p] =
        CASE s[p][1] = "number" -> <<"double", s[p][2]>>
          [] s[p][1] = "struct" -> IF HasChild(Once(j), p) THEN <<"object">> ELSE <<"null">>
          [] OTHER -> s[p]
  BY <1>1, <1>2 DEF HasChild
<1>6. ASSUME p # <<>>, Scalar(i[p])
      PROVE  Once(j)[p] = AsDouble(i[p])
  <2>1. s[p] = ScalarValue(i[p])
    BY <1>4, <1>6 DEF Scalar, Nested
  <2>2. /\ s[p][1] \in {"bool", "number", "string"}
        /\ (IF s[p][1] = "number" THEN <<"double", s[p][2]>> ELSE s[p]) = AsDouble(i[p])
    BY <1>3, <1>6, <2>1, ScalarHop
  <2> QED
    BY <1>5, <2>2
<1>7. ASSUME p = <<>> \/ Nested(i[p])
      PROVE  Once(j)[p] = IF HasChild(Once(j), p) THEN <<"object">> ELSE <<"null">>
  <2>1. s[p] = <<"struct">>
    BY <1>4, <1>7
  <2>2. s[p][1] = "struct"
    BY <2>1, One
  <2> QED
    BY <1>5, <2>2
<1>8. Once(j) = [q \in DOMAIN Once(j) |-> Once(j)[q]]
  BY <1>1
<1> QED
  BY <1>6, <1>7, <1>8 DEF i

\* A value that StructToJson has built: no arrays, no integers, no empty objects.
Hopped(j) ==
    /\ JsonTree(j)
    /\ \A p \in DOMAIN j : j[p][1] \in {"null", "object", "bool", "double", "string"}
    /\ \A p \in DOMAIN j : j[p][1] = "object" => HasChild(j, p)
    /\ j[<<>>][1] \in {"null", "object"}

\* The result of a hop has that form.
LEMMA OnceHopped ==
    ASSUME NEW j, JsonTree(j)
    PROVE  Hopped(Once(j)) /\ Items(Once(j)) = Once(j)
<1> DEFINE i == Items(j)  o == Once(j)
<1>1. JsonTree(i) /\ i[<<>>][1] \in {"null", "array", "object"}
  BY ItemsTree
<1>2. DOMAIN o = {p \in DOMAIN i : p = <<>> \/ i[p][1] # "null"}
  BY OnceDomain
<1>3. ASSUME NEW p \in DOMAIN o
      PROVE  /\ p # <<>> /\ Scalar(i[p]) => o[p] = AsDouble(i[p])
             /\ p = <<>> \/ Nested(i[p]) =>
                   o[p] = IF HasChild(o, p) THEN <<"object">> ELSE <<"null">>
             /\ o = [q \in DOMAIN o |-> o[q]]
  BY OnceNode
<1> HIDE DEF i, o
<1>4. DOMAIN i \subseteq Seq(Strings) /\ <<>> \in DOMAIN i /\ \A p \in DOMAIN i : i[p] \in Node
  BY <1>1 DEF JsonTree
<1>5. <<>> \in DOMAIN o /\ DOMAIN o \subseteq Seq(Strings)
  BY <1>2, <1>4
<1>6. ASSUME NEW p \in DOMAIN o
      PROVE  p = <<>> \/ Nested(i[p]) \/ (p # <<>> /\ Scalar(i[p]))
  BY <1>2, <1>4, NodeKinds DEF Nested, Scalar
<1>7. ASSUME NEW p \in DOMAIN o
      PROVE  /\ o[p] \in Node
             /\ o[p][1] \in {"null", "object", "bool", "double", "string"}
             /\ o[p][1] = "object" => HasChild(o, p)
             /\ p = <<>> => o[p][1] \in {"null", "object"}
             /\ HasChild(o, p) /\ (p = <<>> \/ Nested(i[p])) => Nested(o[p])
  <2>1. CASE p = <<>> \/ Nested(i[p])
    <3>1. CASE HasChild(o, p)
      <4>1. o[p] = <<"object">>
        BY <1>3, <2>1, <3>1
      <4>2. o[p][1] = "object"
        BY <4>1, One
      <4> QED
        BY <3>1, <4>1, <4>2, KindNodes DEF Nested
    <3>2. CASE ~HasChild(o, p)
      <4>1. o[p] = <<"null">>
        BY <1>3, <2>1, <3>2
      <4>2. o[p][1] = "null"
        BY <4>1, One
      <4> QED
        BY <3>2, <4>1, <4>2, KindNodes
    <3> QED
      BY <3>1, <3>2
  <2>2. CASE p # <<>> /\ Scalar(i[p])
    <3>1. o[p] = AsDouble(i[p])
      BY <1>3, <2>2
    <3>2. p \in DOMAIN i /\ i[p] \in Node
      BY <1>2, <1>4
    <3>3. ~Nested(i[p])
      BY <2>2 DEF Scalar, Nested
    <3>4. o[p] \in Node /\ o[p][1] \in {"bool", "double", "string"}
      BY <2>2, <3>1, <3>2, ScalarHop
    <3> QED
      BY <2>2, <3>3, <3>4
  <2> QED
    BY <1>6, <2>1, <2>2
<1>8. o \in [DOMAIN o -> Node]
  BY <1>3, <1>5, <1>7
<1>9. ASSUME NEW p \in DOMAIN o \ {<<>>}
      PROVE  Parent(p) \in DOMAIN o /\ Nested(o[Parent(p)])
  <2>1. p \in DOMAIN i \ {<<>>}
    BY <1>2
  <2>2. Parent(p) \in DOMAIN i /\ Nested(i[Parent(p)])
    BY <1>1, <2>1 DEF JsonTree
  <2>3. Parent(p) \in DOMAIN o
    BY <1>2, <2>2 DEF Nested
  <2>4. HasChild(o, Parent(p))
    BY <1>9 DEF HasChild
  <2> QED
    BY <1>7, <2>2, <2>3, <2>4
<1>10. JsonTree(o)
  BY <1>5, <1>8, <1>9 DEF JsonTree
<1>11. Hopped(o)
  BY <1>5, <1>7, <1>10 DEF Hopped
<1>12. Items(o) = o
  BY <1>5, <1>7 DEF Items
<1> QED
  BY <1>11, <1>12 DEF o
\* The leaves as they are sent, one by one.
LEMMA SentLeaves ==
    ASSUME NEW j
    PROVE  AsSent(Leaves(j)) =
               {<<p, AsDouble(Items(j)[p])>> : p \in {q \in DOMAIN Items(j) : Scalar(Items(j)[q])}}
<1> DEFINE i == Items(j)  S == {q \in DOMAIN i : Scalar(i[q])}
<1>1. Leaves(j) = {<<p, i[p]>> : p \in S}
  BY DEF Leaves, Scalar
<1> HIDE DEF i, S
<1>2. \A p \in S : <<p, i[p]>> \in Leaves(j) /\ <<p, i[p]>>[1] = p /\ <<p, i[p]>>[2] = i[p]
  BY <1>1
<1>3. AsSent(Leaves(j)) \subseteq {<<p, AsDouble(i[p])>> : p \in S}
  <2> SUFFICES ASSUME NEW leaf \in Leaves(j)
               PROVE  <<leaf[1], AsDouble(leaf[2])>> \in {<<p, AsDouble(i[p])>> : p \in S}
    BY DEF AsSent
  <2>1. PICK p \in S : leaf = <<p, i[p]>>
    BY <1>1
  <2>2. leaf[1] = p /\ leaf[2] = i[p]
    BY <1>2, <2>1
  <2> QED
    BY <2>2
<1>4. {<<p, AsDouble(i[p])>> : p \in S} \subseteq AsSent(Leaves(j))
  <2> SUFFICES ASSUME NEW p \in S
               PROVE  <<p, AsDouble(i[p])>> \in AsSent(Leaves(j))
    OBVIOUS
  <2>1. PICK leaf \in Leaves(j) : leaf[1] = p /\ leaf[2] = i[p]
    BY <1>2
  <2> QED
    BY <2>1 DEF AsSent
<1> QED
  BY <1>3, <1>4 DEF S, i

\* A hop keeps every bool, number and string at its path, and adds none.
LEMMA OnceLeaves ==
    ASSUME NEW j, JsonTree(j)
    PROVE  AsSent(Leaves(Once(j))) = AsSent(Leaves(j))
<1> DEFINE i == Items(j)  o == Once(j)
<1>1. JsonTree(i) /\ i[<<>>][1] \in {"null", "array", "object"}
  BY ItemsTree
<1>2. DOMAIN o = {p \in DOMAIN i : p = <<>> \/ i[p][1] # "null"}
  BY OnceDomain
<1>3. \A p \in DOMAIN o :
         /\ p # <<>> /\ Scalar(i[p]) => o[p] = AsDouble(i[p])
         /\ p = <<>> \/ Nested(i[p]) => o[p] = IF HasChild(o, p) THEN <<"object">> ELSE <<"null">>
  BY OnceNode
<1>4. Hopped(o) /\ Items(o) = o
  BY OnceHopped
<1>5. /\ AsSent(Leaves(j)) = {<<p, AsDouble(i[p])>> : p \in {q \in DOMAIN i : Scalar(i[q])}}
      /\ AsSent(Leaves(o)) = {<<p, AsDouble(o[p])>> : p \in {q \in DOMAIN o : Scalar(o[q])}}
  BY <1>4, SentLeaves
<1> HIDE DEF i, o
<1>6. ASSUME NEW p \in DOMAIN i, Scalar(i[p])
      PROVE  p \in DOMAIN o /\ Scalar(o[p]) /\ AsDouble(o[p]) = AsDouble(i[p])
  <2>1. p # <<>> /\ p \in DOMAIN o /\ i[p] \in Node
    BY <1>1, <1>2, <1>6 DEF Scalar, JsonTree
  <2>2. o[p] = AsDouble(i[p])
    BY <1>3, <1>6, <2>1
  <2> QED
    BY <1>6, <2>1, <2>2, ScalarHop DEF Scalar
<1>7. ASSUME NEW p \in DOMAIN o, Scalar(o[p])
      PROVE  p \in DOMAIN i /\ Scalar(i[p])
  <2>1. p \in DOMAIN i /\ (p = <<>> \/ i[p][1] # "null") /\ i[p] \in Node
    BY <1>1, <1>2 DEF JsonTree
  <2>2. ~(p = <<>> \/ Nested(i[p]))
    <3> SUFFICES ASSUME p = <<>> \/ Nested(i[p]) PROVE FALSE
      OBVIOUS
    <3>1. o[p] = <<"object">> \/ o[p] = <<"null">>
      BY <1>3
    <3>2. o[p][1] \in {"object", "null"}
      BY <3>1, One
    <3> QED
      BY <1>7, <3>2 DEF Scalar
  <2> QED
    BY <2>1, <2>2, NodeKinds DEF Nested, Scalar
<1>8. {q \in DOMAIN o : Scalar(o[q])} = {q \in DOMAIN i : Scalar(i[q])}
  BY <1>6, <1>7
<1>9. AsSent(Leaves(o)) = AsSent(Leaves(j))
  BY <1>5, <1>6, <1>8
<1> QED
  BY <1>9 DEF o

-----------------------------------------------------------------------------
(***************************************************************************)
(* Why hops settle: a hop drops the nulls inside of containers, and the    *)
(* only new ones are containers that lost their last item by that.         *)
(***************************************************************************)
\* A null inside of a container; the next hop drops it.
Null(j, p) == p \in DOMAIN j /\ p # <<>> /\ j[p][1] = "null"

\* The nulls after the first hop were containers.
LEMMA FirstNulls ==
    ASSUME NEW j, JsonTree(j), NEW p, Null(Once(j), p)
    PROVE  p \in DOMAIN j /\ Nested(j[p]) /\ p \in Seq(Strings)
<1> DEFINE i == Items(j)
<1>1. JsonTree(i)
  BY ItemsTree
<1>2. p \in DOMAIN Once(j) /\ p # <<>> /\ Once(j)[p][1] = "null"
  BY DEF Null
<1>3. p \in DOMAIN i /\ i[p][1] # "null"
  BY <1>2, OnceDomain
<1>4. i[p] \in Node /\ p \in Seq(Strings)
  BY <1>1, <1>3 DEF JsonTree
<1>5. ~Scalar(i[p])
  <2> SUFFICES ASSUME Scalar(i[p]) PROVE FALSE
    OBVIOUS
  <2>1. Once(j)[p] = AsDouble(i[p])
    BY <1>2, OnceNode
  <2> QED
    BY <1>2, <1>4, <2>1, ScalarHop
<1>6. Nested(i[p])
  BY <1>3, <1>4, <1>5, NodeKinds DEF Nested, Scalar
<1>7. i = j
  <2> SUFFICES ASSUME j[<<>>][1] \notin {"null", "array", "object"} PROVE FALSE
    BY DEF Items
  <2>1. p = <<"">> /\ i[p] = j[<<>>]
    BY <1>2, <1>3 DEF Items
  <2> QED
    BY <1>6, <2>1 DEF Nested
<1> QED
  BY <1>3, <1>4, <1>6, <1>7

\* A null after a later hop has lost its last item, which was a null before.
LEMMA LaterNulls ==
    ASSUME NEW j, Hopped(j), NEW p, Null(Once(j), p)
    PROVE  \E q : Null(j, q) /\ q \in Seq(Strings) /\ Parent(q) = p
<1>1. JsonTree(j) /\ Items(j) = j
  BY DEF Hopped, Items
<1>2. p \in DOMAIN Once(j) /\ p # <<>> /\ Once(j)[p][1] = "null" /\ p \in DOMAIN j /\ Nested(j[p])
  BY <1>1, FirstNulls DEF Null
<1>3. HasChild(j, p)
  BY <1>2 DEF Hopped, Nested
<1>4. PICK q \in DOMAIN j \ {<<>>} : Parent(q) = p
  BY <1>3 DEF HasChild
<1>5. ~HasChild(Once(j), p)
  <2>1. HasChild(Once(j), p) => Once(j)[p] = <<"object">>
    BY <1>1, <1>2, OnceNode
  <2> QED
    BY <1>2, <2>1, One
<1>6. q \notin DOMAIN Once(j)
  BY <1>4, <1>5 DEF HasChild
<1>7. Null(j, q)
  BY <1>1, <1>4, <1>6, OnceDomain DEF Null
<1> QED
  BY <1>1, <1>4, <1>7 DEF JsonTree

\* A value that StructToJson has built and that has no null inside stays as it is.
LEMMA Settled ==
    ASSUME NEW j, Hopped(j), \A p : ~Null(j, p)
    PROVE  Once(j) = j
<1> DEFINE o == Once(j)
<1>1. JsonTree(j) /\ Items(j) = j
  BY DEF Hopped, Items
<1>2. DOMAIN o = DOMAIN j
  BY <1>1, OnceDomain DEF Null
<1>3. \A p \in DOMAIN o :
         /\ p # <<>> /\ Scalar(j[p]) => o[p] = AsDouble(j[p])
         /\ p = <<>> \/ Nested(j[p]) => o[p] = IF HasChild(o, p) THEN <<"object">> ELSE <<"null">>
  BY <1>1, OnceNode
<1>4. JsonTree(o)
  BY <1>1, OnceHopped DEF Hopped
<1> HIDE DEF o
<1>5. \A p : HasChild(o, p) <=> HasChild(j, p)
  BY <1>2 DEF HasChild
<1>6. ASSUME NEW p \in DOMAIN j
      PROVE  o[p] = j[p]
  <2>1. j[p] \in Node /\ j[p][1] \in {"null", "object", "bool", "double", "string"}
    BY <1>1 DEF Hopped, JsonTree
  <2>2. CASE j[p][1] = "object"
    BY <1>2, <1>3, <1>5, <2>1, <2>2, NodeKinds DEF Hopped, Nested
  <2>3. CASE j[p][1] = "null"
    <3>1. p = <<>> /\ j[p] = <<"null">>
      BY <2>1, <2>3, NodeKinds DEF Null
    <3>2. ~HasChild(j, p)
      BY <1>1, <2>3 DEF HasChild, JsonTree, Nested
    <3> QED
      BY <1>2, <1>3, <1>5, <3>1, <3>2
  <2>4. CASE j[p][1] \in {"bool", "double", "string"}
    <3>1. p # <<>> /\ Scalar(j[p])
      BY <2>4 DEF Hopped, Scalar
    <3> QED
      BY <1>2, <1>3, <2>4, <3>1 DEF AsDouble
  <2> QED
    BY <2>1, <2>2, <2>3, <2>4
<1>7. o = j
  BY <1>1, <1>2, <1>4, <1>6 DEF JsonTree
<1> QED
  BY <1>7 DEF o
-----------------------------------------------------------------------------
(***************************************************************************)
(* Fib, and the loop that computes it.                                     *)
(***************************************************************************)
\* Induction, as a fact about sets: a set of numbers that is not all of them has a
\* least one that it lacks.
LEMMA Induction ==
    ASSUME NEW S, 0 \in S, \A n \in Nat : n \in S => n + 1 \in S
    PROVE  \A n \in Nat : n \in S
<1> DEFINE R == OpToRel(<, Nat)  T == {n \in Nat : n \notin S}
<1>1. IsWellFoundedOn(R, Nat)
  BY NatLessThanWellFounded, Zenon
<1>2. \A i, k \in Nat : i < k => <<i, k>> \in R
  BY DEF OpToRel
<1>3. T \subseteq Nat
  OBVIOUS
<1> SUFFICES ASSUME T # {} PROVE FALSE
  OBVIOUS
<1> HIDE DEF R, T
<1>4. PICK m \in T : \A k \in T : ~(<<k, m>> \in R)
  BY <1>1, <1>3, WFMin
<1>5. m \in Nat /\ m # 0 /\ m \notin S
  BY <1>4 DEF T
<1>6. m - 1 \in Nat /\ m - 1 < m /\ (m - 1) + 1 = m
  BY <1>5
<1>7. m - 1 \in S
  BY <1>2, <1>4, <1>5, <1>6 DEF T
<1> QED
  BY <1>5, <1>6, <1>7

\* f is the Fibonacci function up to n.
FibTo(f, n) == \A k \in 0..n : f[k] = IF k <= 1 THEN k ELSE f[k - 1] + f[k - 2]

\* There is a function that satisfies the equation of Fib.
LEMMA FibExists == \E f \in [0..IntMax -> Nat] : FibTo(f, IntMax)
<1> DEFINE S == {n \in Nat : n <= IntMax => \E f \in [0..IntMax -> Nat] : FibTo(f, n)}
<1>0. IntMax \in Nat
  BY WidthAssumption
<1>1. 0 \in S
  <2>1. [k \in 0..IntMax |-> 0] \in [0..IntMax -> Nat] /\ FibTo([k \in 0..IntMax |-> 0], 0)
    BY <1>0 DEF FibTo
  <2> QED
    BY <2>1
<1>2. ASSUME NEW n \in Nat, n \in S
      PROVE  n + 1 \in S
  <2> SUFFICES ASSUME n + 1 <= IntMax
               PROVE  \E f \in [0..IntMax -> Nat] : FibTo(f, n + 1)
    OBVIOUS
  <2>1. n <= IntMax
    BY <1>0
  <2>2. PICK f \in [0..IntMax -> Nat] : FibTo(f, n)
    BY <1>2, <2>1
  <2> DEFINE x == IF n = 0 THEN 1 ELSE f[n] + f[n - 1]
             g == [f EXCEPT ![n + 1] = x]
  <2>3. n + 1 \in 0..IntMax /\ n \in 0..IntMax /\ (n # 0 => n - 1 \in 0..IntMax)
    BY <1>0
  <2>4. x \in Nat
    BY <2>3
  <2>5. g \in [0..IntMax -> Nat] /\ g[n + 1] = x /\ \A k \in 0..n : g[k] = f[k]
    <3> HIDE DEF x
    <3> QED
      BY <1>0, <2>3, <2>4
  <2> HIDE DEF g
  <2>6. FibTo(g, n + 1)
    <3> SUFFICES ASSUME NEW k \in 0..n + 1
                 PROVE  g[k] = IF k <= 1 THEN k ELSE g[k - 1] + g[k - 2]
      BY DEF FibTo
    <3>1. CASE k = n + 1
      <4>1. CASE n = 0
        BY <2>5, <3>1, <4>1
      <4>2. CASE n # 0
        <5>1. k - 1 = n /\ k - 2 = n - 1 /\ ~(k <= 1) /\ n \in 0..n /\ n - 1 \in 0..n
          BY <3>1, <4>2
        <5>2. g[k - 1] = f[n] /\ g[k - 2] = f[n - 1]
          BY <2>5, <5>1
        <5> QED
          BY <2>5, <3>1, <4>2, <5>1, <5>2
      <4> QED
        BY <4>1, <4>2
    <3>2. CASE k # n + 1
      <4>1. k \in 0..n /\ (~(k <= 1) => k - 1 \in 0..n /\ k - 2 \in 0..n)
        BY <3>2
      <4>2. f[k] = IF k <= 1 THEN k ELSE f[k - 1] + f[k - 2]
        BY <2>2, <4>1 DEF FibTo
      <4> QED
        BY <2>5, <4>1, <4>2
    <3> QED
      BY <3>1, <3>2
  <2> QED
    BY <2>5, <2>6
<1> HIDE DEF S
<1>3. IntMax \in S
  BY <1>0, <1>1, <1>2, Induction
<1> QED
  BY <1>0, <1>3 DEF S

\* The equation that defines Fib.
FibLike(f) == f = [n \in 0..IntMax |-> IF n <= 1 THEN n ELSE f[n - 1] + f[n - 2]]

\* Fib satisfies its equation.
LEMMA FibEquation == FibLike(Fib)
<1>1. PICK f \in [0..IntMax -> Nat] : FibTo(f, IntMax)
  BY FibExists
<1>2. FibLike(f)
  BY <1>1 DEF FibTo, FibLike
<1>3. Fib = CHOOSE g : FibLike(g)
  BY DEF Fib, FibLike
<1> QED
  BY <1>2, <1>3, Zenon
\* The equation, argument by argument.
LEMMA FibStep ==
    /\ \A n \in 0..IntMax : n <= 1 => Fib[n] = n
    /\ \A n \in 0..IntMax : ~(n <= 1) => Fib[n] = Fib[n - 1] + Fib[n - 2]
BY FibEquation DEF FibLike

\* Fibonacci numbers are natural numbers.
LEMMA FibNat == \A n \in 0..IntMax : Fib[n] \in Nat
<1> DEFINE S == {n \in Nat : \A k \in 0..n : k <= IntMax => Fib[k] \in Nat}
<1>0. IntMax \in Nat
  BY WidthAssumption
<1>1. 0 \in S
  BY <1>0, FibStep
<1>2. ASSUME NEW n \in Nat, n \in S
      PROVE  n + 1 \in S
  <2> SUFFICES ASSUME n + 1 <= IntMax
               PROVE  Fib[n + 1] \in Nat
    BY <1>0, <1>2
  <2>1. n + 1 \in 0..IntMax
    BY <1>0
  <2>2. CASE n = 0
    BY <2>1, <2>2, FibStep
  <2>3. CASE n # 0
    <3>1. (n + 1) - 1 = n /\ (n + 1) - 2 = n - 1 /\ ~(n + 1 <= 1)
      BY <2>3
    <3>2. Fib[n + 1] = Fib[n] + Fib[n - 1]
      BY <2>1, <3>1, FibStep
    <3>3. Fib[n] \in Nat /\ Fib[n - 1] \in Nat
      BY <1>0, <1>2, <2>3
    <3> QED
      BY <3>2, <3>3
  <2> QED
    BY <2>2, <2>3
<1>3. ASSUME NEW n \in 0..IntMax
      PROVE  Fib[n] \in Nat
  <2>1. n \in Nat /\ n \in 0..n /\ n <= IntMax
    BY <1>0
  <2>2. n \in S
    <3> HIDE DEF S
    <3> QED
      BY <1>1, <1>2, <2>1, Induction
  <2> QED
    BY <2>1, <2>2
<1> QED
  BY <1>3

\* Fibonacci numbers do not decrease, so an overflow in some round of the loop shows in
\* the last one.
LEMMA FibGrows ==
    ASSUME NEW i \in 1..IntMax, NEW n \in i..IntMax
    PROVE  Fib[i] <= Fib[n]
<1> DEFINE S == {d \in Nat : i + d <= IntMax => Fib[i] <= Fib[i + d]}
<1>0. IntMax \in Nat /\ i \in 0..IntMax /\ Fib[i] \in Nat
  BY WidthAssumption, FibNat
<1>1. 0 \in S
  BY <1>0
<1>2. ASSUME NEW d \in Nat, d \in S
      PROVE  d + 1 \in S
  <2> SUFFICES ASSUME i + (d + 1) <= IntMax
               PROVE  Fib[i] <= Fib[i + (d + 1)]
    OBVIOUS
  <2>1. /\ i + d <= IntMax /\ i + d \in 0..IntMax /\ i + d - 1 \in 0..IntMax
        /\ i + (d + 1) \in 0..IntMax /\ ~(i + (d + 1) <= 1)
        /\ i + (d + 1) - 1 = i + d /\ i + (d + 1) - 2 = i + d - 1
    BY <1>0
  <2>2. Fib[i + (d + 1)] = Fib[i + d] + Fib[i + d - 1]
    BY <2>1, FibStep
  <2>3. Fib[i + d] \in Nat /\ Fib[i + d - 1] \in Nat
    BY <2>1, FibNat
  <2>4. Fib[i] <= Fib[i + d]
    BY <1>2, <2>1
  <2> QED
    BY <1>0, <2>2, <2>3, <2>4
<1>3. n - i \in Nat /\ i + (n - i) = n /\ n <= IntMax
  BY <1>0
<1>4. n - i \in S
  <2> HIDE DEF S
  <2> QED
    BY <1>1, <1>2, <1>3, Induction
<1> QED
  BY <1>3, <1>4

\* The equation that defines Loop.
LoopLike(f) ==
    f = [i \in 1..IntMax |-> IF i = 1 THEN <<0, 1>> ELSE <<f[i - 1][2], f[i - 1][1] + f[i - 1][2]>>]

\* Loop satisfies its equation; the Fibonacci numbers give a function that does.
LEMMA LoopEquation == LoopLike(Loop)
<1> DEFINE f == [i \in 1..IntMax |-> <<Fib[i - 1], Fib[i]>>]
<1>0. IntMax \in Nat
  BY WidthAssumption
<1>1. ASSUME NEW i \in 1..IntMax
      PROVE  f[i] = IF i = 1 THEN <<0, 1>> ELSE <<f[i - 1][2], f[i - 1][1] + f[i - 1][2]>>
  <2>1. i \in 0..IntMax /\ i - 1 \in 0..IntMax
    BY <1>0
  <2>2. CASE i = 1
    <3>1. Fib[1] = 1 /\ Fib[0] = 0
      BY <2>1, <2>2, FibStep
    <3> QED
      BY <2>2, <3>1
  <2>3. CASE i # 1
    <3>1. i - 1 \in 1..IntMax /\ i - 2 \in 0..IntMax /\ ~(i <= 1) /\ (i - 1) - 1 = i - 2
      BY <1>0, <2>3
    <3>2. Fib[i] = Fib[i - 1] + Fib[i - 2] /\ Fib[i - 1] \in Nat /\ Fib[i - 2] \in Nat
      BY <2>1, <3>1, FibStep, FibNat
    <3>3. f[i - 1] = <<Fib[i - 2], Fib[i - 1]>>
      BY <3>1
    <3>4. f[i - 1][1] = Fib[i - 2] /\ f[i - 1][2] = Fib[i - 1]
      BY <3>3, Two
    <3>5. Fib[i] = Fib[i - 2] + Fib[i - 1]
      BY <3>2
    <3>6. f[i] = <<Fib[i - 1], Fib[i]>>
      OBVIOUS
    <3> HIDE DEF f
    <3> QED
      BY <2>3, <3>4, <3>5, <3>6
  <2> QED
    BY <2>2, <2>3
<1>2. LoopLike(f)
  <2>1. f = [i \in 1..IntMax |-> f[i]]
    OBVIOUS
  <2> HIDE DEF f
  <2> QED
    BY <1>1, <2>1 DEF LoopLike
<1>3. Loop = CHOOSE g : LoopLike(g)
  BY DEF Loop, LoopLike
<1> HIDE DEF f
<1> QED
  BY <1>2, <1>3, Zenon

\* After the round of i the loop of fib has the (i-1)-th number in a and the i-th in b.
LEMMA LoopIsFib ==
    ASSUME NEW i \in 1..IntMax
    PROVE  Loop[i] = <<Fib[i - 1], Fib[i]>>
<1> DEFINE S == {d \in Nat : d + 1 <= IntMax => Loop[d + 1] = <<Fib[d], Fib[d + 1]>>}
<1>0. IntMax \in Nat
  BY WidthAssumption
<1>1. 0 \in S
  <2> SUFFICES ASSUME 1 <= IntMax PROVE Loop[1] = <<Fib[0], Fib[1]>>
    OBVIOUS
  <2>1. Fib[0] = 0 /\ Fib[1] = 1
    BY <1>0, FibStep
  <2>2. Loop[1] = <<0, 1>>
    BY <1>0, LoopEquation DEF LoopLike
  <2> QED
    BY <2>1, <2>2
<1>2. ASSUME NEW d \in Nat, d \in S
      PROVE  d + 1 \in S
  <2> SUFFICES ASSUME (d + 1) + 1 <= IntMax
               PROVE  Loop[(d + 1) + 1] = <<Fib[d + 1], Fib[(d + 1) + 1]>>
    OBVIOUS
  <2>1. /\ d + 1 <= IntMax /\ (d + 1) + 1 \in 1..IntMax
        /\ (d + 1) + 1 # 1 /\ ((d + 1) + 1) - 1 = d + 1
        /\ ((d + 1) + 1) - 2 = d /\ (d + 1) + 1 \in 0..IntMax /\ ~((d + 1) + 1 <= 1)
        /\ d \in 0..IntMax /\ d + 1 \in 0..IntMax
    BY <1>0
  <2>2. Loop[d + 1] = <<Fib[d], Fib[d + 1]>>
    BY <1>2, <2>1
  <2>3. Loop[d + 1][1] = Fib[d] /\ Loop[d + 1][2] = Fib[d + 1]
    BY <2>2, Two
  <2>4. Loop[(d + 1) + 1] = <<Loop[d + 1][2], Loop[d + 1][1] + Loop[d + 1][2]>>
    BY <2>1, LoopEquation DEF LoopLike
  <2>5. Fib[(d + 1) + 1] = Fib[d] + Fib[d + 1]
    <3>1. Fib[(d + 1) + 1] = Fib[d + 1] + Fib[d]
      BY <2>1, FibStep
    <3>2. Fib[d] \in Nat /\ Fib[d + 1] \in Nat
      BY <2>1, FibNat
    <3> QED
      BY <3>1, <3>2
  <2> QED
    BY <2>3, <2>4, <2>5
<1>3. i - 1 \in Nat /\ (i - 1) + 1 = i /\ i <= IntMax
  BY <1>0
<1>4. i - 1 \in S
  <2> HIDE DEF S
  <2> QED
    BY <1>1, <1>2, <1>3, Induction
<1> QED
  BY <1>3, <1>4

\* If the n-th number is an int then no round overflows, and fib returns that number.
LEMMA FibOfExact ==
    ASSUME NEW n \in 0..IntMax, Fib[n] <= IntMax
    PROVE  FibOf(n) = {Fib[n]}
<1>0. IntMax \in Nat
  BY WidthAssumption
<1>1. CASE n <= 1
  BY <1>0, <1>1, FibStep DEF FibOf
<1>2. CASE ~(n <= 1)
  <2>1. n > 1 /\ n \in 1..IntMax
    BY <1>0, <1>2
  <2>2. ASSUME NEW i \in 1..n
        PROVE  Loop[i][2] = Fib[i] /\ Fib[i] \in Nat /\ Fib[i] <= Fib[n]
    <3>1. i \in 1..IntMax /\ i \in 0..IntMax /\ n \in i..IntMax
      BY <1>0, <2>1
    <3> QED
      BY <3>1, LoopIsFib, FibNat, FibGrows, Two
  <2>3. Fib[n] \in Nat /\ Loop[n][2] = Fib[n]
    BY <2>1, <2>2
  <2>4. ~\E i \in 2..n : Loop[i][2] > IntMax
    <3> SUFFICES ASSUME NEW i \in 2..n PROVE ~(Loop[i][2] > IntMax)
      OBVIOUS
    <3>1. Loop[i][2] = Fib[i] /\ Fib[i] \in Nat /\ Fib[i] <= Fib[n]
      BY <2>1, <2>2
    <3> QED
      BY <1>0, <2>3, <3>1
  <2> QED
    BY <1>2, <2>3, <2>4 DEF FibOf
<1> QED
  BY <1>1, <1>2
-----------------------------------------------------------------------------
(***************************************************************************)
(* The argument that fib reads.                                            *)
(***************************************************************************)
\* What % returns.
LEMMA Modulo ==
    ASSUME NEW a \in Int, NEW m \in Nat \ {0}
    PROVE  a % m \in 0..(m - 1) /\ (a \in 0..(m - 1) => a % m = a)
OBVIOUS

\* A conversion to int gives an int, and an int is converted to itself.
LEMMA WrapInt ==
    ASSUME NEW i \in Int
    PROVE  Wrap(i) \in Ints /\ (i \in Ints => Wrap(i) = i)
<1> DEFINE m == 2 * (IntMax + 1)  a == i + IntMax + 1
<1>0. IntMax \in Nat
  BY WidthAssumption
<1>1. m \in Nat \ {0} /\ a \in Int
  BY <1>0
<1>2. Wrap(i) = (a % m) - (IntMax + 1)
  BY DEF Wrap
<1>3. a % m \in 0..(m - 1) /\ (a \in 0..(m - 1) => a % m = a)
  BY <1>1, Modulo
<1> DEFINE b == a % m
<1>4. b \in 0..(m - 1) /\ (a \in 0..(m - 1) => b = a) /\ Wrap(i) = b - (IntMax + 1)
  BY <1>2, <1>3
<1> HIDE DEF b
<1> QED
  BY <1>0, <1>4 DEF Ints

\* An int is a double.
LEMMA NearestExact == ASSUME NEW i \in Ints PROVE Nearest(i) = i
BY WidthAssumption DEF Nearest, Ints

\* Whatever func_params hold, the n that fib reads is an int.
LEMMA ArgumentInts ==
    ASSUME NEW j, JsonTree(j)
    PROVE  Argument(j) \subseteq Ints
<1>0. IntMax \in Nat \ {0} /\ 0 \in Ints /\ 1 \in Ints
  BY WidthAssumption DEF Ints
<1>1. CASE j[<<>>][1] # "object"
  BY <1>1 DEF Argument
<1>2. CASE j[<<>>][1] = "object" /\ <<"n">> \notin DOMAIN j
  BY <1>0, <1>2 DEF Argument
<1>3. CASE j[<<>>][1] = "object" /\ <<"n">> \in DOMAIN j
  <2> DEFINE v == j[<<"n">>]
  <2>1. v \in Node
    BY <1>3 DEF JsonTree
  <2>2. Argument(j) =
          CASE v[1] = "int" -> {Wrap(v[2])}
            [] v[1] = "bool" -> {IF v[2] THEN 1 ELSE 0}
            [] v[1] = "double" -> IF v[2] \in Ints THEN {v[2]} ELSE Ints
            [] OTHER -> {}
    BY <1>3 DEF Argument
  <2>3. v[1] = "int" => v[2] \in Int
    BY <2>1, NodeKinds
  <2> HIDE DEF v
  <2>4. CASE v[1] = "int"
    BY <2>2, <2>3, <2>4, WrapInt
  <2>5. CASE v[1] = "bool"
    BY <1>0, <2>2, <2>5
  <2>6. CASE v[1] = "double"
    BY <2>2, <2>6
  <2>7. CASE v[1] \notin {"int", "bool", "double"}
    BY <2>2, <2>7
  <2> QED
    BY <2>4, <2>5, <2>6, <2>7
<1> QED
  BY <1>1, <1>2, <1>3

\* What fib returns is an integer.
LEMMA FibOfInt ==
    ASSUME NEW n \in Ints, NEW r \in FibOf(n)
    PROVE  r \in Int
<1>0. IntMax \in Nat /\ n \in Int /\ Ints \subseteq Int
  BY WidthAssumption DEF Ints
<1>1. CASE n <= 1
  BY <1>0, <1>1 DEF FibOf
<1>2. CASE ~(n <= 1)
  <2>1. n \in 1..IntMax /\ n \in 0..IntMax
    BY <1>0, <1>2 DEF Ints
  <2>2. Loop[n][2] \in Int
    BY <2>1, LoopIsFib, FibNat, Two
  <2>3. r \in Ints \/ r = Loop[n][2]
    BY <1>2 DEF FibOf
  <2> QED
    BY <1>0, <2>2, <2>3
<1> QED
  BY <1>1, <1>2

\* The client has put the int n in func_params.
Given(params, n) ==
    /\ params[<<>>][1] = "object"
    /\ <<"n">> \in DOMAIN params /\ params[<<"n">>] = <<"int", n>>
    /\ n \in Ints

\* fib reads the n that the client sent, if func_params took no hop.
LEMMA ArgumentSent ==
    ASSUME NEW j, NEW n, JsonTree(j), Given(j, n)
    PROVE  Argument(j) = {n}
<1>1. n \in Int
  BY WidthAssumption DEF Given, Ints
<1>2. j[<<"n">>][1] = "int" /\ j[<<"n">>][2] = n
  BY Two DEF Given
<1>3. Wrap(n) = n
  BY <1>1, WrapInt DEF Given
<1> QED
  BY <1>2, <1>3 DEF Argument, Given

\* fib reads the n that the client sent, if func_params took some, too: as a double,
\* which is still an int.
LEMMA ArgumentHopped ==
    ASSUME NEW j, NEW given, NEW n, Hopped(j), JsonTree(given), Given(given, n),
           AsSent(Leaves(j)) = AsSent(Leaves(given))
    PROVE  Argument(j) = {n}
<1>1. n \in Int /\ n \in Ints /\ Nearest(n) = n
  BY NearestExact, WidthAssumption DEF Given, Ints
<1>2. Items(given) = given /\ Items(j) = j /\ JsonTree(j)
  BY DEF Given, Hopped, Items
<1>3. given[<<"n">>][1] = "int" /\ given[<<"n">>][2] = n
  BY Two DEF Given
<1>4. AsDouble(given[<<"n">>]) = <<"double", n>>
  BY <1>1, <1>3 DEF AsDouble
<1>5. <<<<"n">>, <<"double", n>>>> \in AsSent(Leaves(given))
  <2>1. <<"n">> \in {q \in DOMAIN Items(given) : Scalar(Items(given)[q])}
    BY <1>2, <1>3 DEF Given, Scalar
  <2>2. AsDouble(Items(given)[<<"n">>]) = <<"double", n>>
    BY <1>2, <1>4
  <2> QED
    BY <2>1, <2>2, SentLeaves
<1>6. PICK p \in {q \in DOMAIN Items(j) : Scalar(Items(j)[q])} :
        <<<<"n">>, <<"double", n>>>> = <<p, AsDouble(Items(j)[p])>>
  BY <1>5, SentLeaves
<1>7. p = <<"n">> /\ AsDouble(j[p]) = <<"double", n>> /\ p \in DOMAIN j
  BY <1>2, <1>6
<1>8. AsDouble(j[p]) = j[p]
  BY <1>7 DEF Hopped, AsDouble
<1>9. j[<<"n">>][1] = "double" /\ j[<<"n">>][2] = n
  BY <1>7, <1>8, Two
<1>10. j[<<>>][1] = "object"
  <2>1. <<"n">> # <<>> /\ Parent(<<"n">>) = <<>>
    BY PathOfOne, ParamsAssumption
  <2>2. Nested(j[<<>>])
    BY <1>2, <1>7, <2>1 DEF JsonTree
  <2> QED
    BY <2>2 DEF Hopped, Nested
<1> QED
  BY <1>1, <1>7, <1>9, <1>10 DEF Argument
-----------------------------------------------------------------------------
(***************************************************************************)
(* The invariant.                                                          *)
(***************************************************************************)
\* The members of a Task.
Fields == Field \cup Json \cup {"cancelled"}

\* The types: a task has all its fields, and its JSON values are trees.
Shape ==
    /\ DOMAIN task = Fields /\ DOMAIN sent = Fields
    /\ hops \in Nat
    /\ ran \in {"no", "returned", "cancelled", "threw"}
    /\ \A f \in Json : JsonTree(task[f]) /\ JsonTree(sent[f])

\* TaskSurvives, without the domain.
Survives ==
    /\ \A f \in Field : task[f] = sent[f]
    /\ hops = 0 => \A f \in Json : task[f] = sent[f]
    /\ \A f \in Json : AsSent(Leaves(task[f])) = AsSent(Leaves(sent[f]))

\* A null that is left after some hops was a container at the end of a longer path.
NullsRise(j, given, n) ==
    \A p \in DOMAIN j : Null(j, p) =>
        /\ p \in Seq(Strings)
        /\ \E q \in DOMAIN given : Len(p) + n <= Level(given, q)

\* After a hop func_params have the form that StructToJson builds.
Settles ==
    hops # 0 => /\ Hopped(task["func_params"])
                /\ NullsRise(task["func_params"], sent["func_params"], hops)

\* What became of the call of fib for n.
FibRan(n) ==
    /\ n < 0 => ran \in {"no", "threw"}
    /\ n >= 0 => ran # "threw"
    /\ ran = "returned" => \E r \in FibOf(n) : sent["result"] = ResultOf(<<"int", r>>)

\* If the client sent an int, it is the one that fib ran for.
FibInv == \A n \in Ints : Given(sent["func_params"], n) => FibRan(n)

\* The inductive invariant.
CodecInv == Shape /\ Survives /\ Settles /\ FibInv

\* The two JSON members and the flag are not plain fields.
LEMMA FieldNames ==
    /\ \A f \in Field : f \notin Json /\ f # "cancelled" /\ f \in Fields
    /\ \A f \in Json : f \notin Field /\ f # "cancelled" /\ f \in Fields
    /\ "func_params" \in Json /\ "result" \in Json /\ "func_params" # "result"
BY DEF Fields, Field, Json

\* null, the result of a new task, is a tree.
LEMMA NullTree ==
    ASSUME NEW j, j = [p \in {<<>>} |-> <<"null">>]
    PROVE  JsonTree(j)
<1>1. DOMAIN j = {<<>>} /\ j[<<>>] = <<"null">> /\ <<"null">> \in Node /\ <<>> \in Seq(Strings)
  BY KindNodes, PathOfOne, ParamsAssumption
<1>2. j \in [DOMAIN j -> Node]
  BY <1>1
<1> QED
  BY <1>1, <1>2 DEF JsonTree

\* The json that a task's result becomes is a tree.
LEMMA ResultTree ==
    ASSUME NEW r \in Node
    PROVE  JsonTree(ResultOf(r)) /\ Items(ResultOf(r)) = ResultOf(r)
<1> DEFINE j == ResultOf(r)
<1>1. /\ <<"result">> # <<>> /\ <<"result">> \in Seq(Strings)
      /\ Parent(<<"result">>) = <<>> /\ <<>> \in Seq(Strings)
  BY PathOfOne, ParamsAssumption
<1>2. DOMAIN j = {<<>>, <<"result">>} /\ j[<<>>] = <<"object">> /\ j[<<"result">>] = r
  BY <1>1 DEF ResultOf
<1>3. j \in [DOMAIN j -> Node]
  BY <1>2, KindNodes DEF ResultOf
<1> HIDE DEF j
<1>4. j[<<>>][1] = "object" /\ Nested(j[<<>>])
  BY <1>2, One DEF Nested
<1>5. \A p \in DOMAIN j \ {<<>>} : Parent(p) = <<>>
  BY <1>1, <1>2
<1>6. DOMAIN j \subseteq Seq(Strings) /\ <<>> \in DOMAIN j
  BY <1>1, <1>2
<1>7. JsonTree(j)
  BY <1>3, <1>4, <1>5, <1>6, Zenon DEF JsonTree
<1>8. Items(j) = j
  BY <1>4 DEF Items
<1> QED
  BY <1>7, <1>8 DEF j

-----------------------------------------------------------------------------
(***************************************************************************)
(* It holds of a new task, and each step preserves it.                     *)
(***************************************************************************)
\* The invariant holds of a new task.
LEMMA CodecInit == Init => CodecInv
<1> SUFFICES ASSUME Init PROVE CodecInv
  OBVIOUS
<1>1. PICK j \in Params : sent = NewTask(j)
  BY DEF Init
<1>2. task = sent /\ hops = 0 /\ ran = "no"
  BY DEF Init
<1>3. DOMAIN sent = Fields /\ sent["func_params"] = j /\ sent["result"] = [p \in {<<>>} |-> <<"null">>]
  BY <1>1, FieldNames DEF NewTask, Fields
<1>4. \A f \in Json : JsonTree(sent[f])
  BY <1>3, NullTree, ParamsAssumption DEF Json
<1> QED
  BY <1>2, <1>3, <1>4 DEF CodecInv, Shape, Survives, Settles, FibInv, FibRan

\* TaskToProto and TaskFromProto copy the plain fields and convert the other two.
LEMMA HopFields ==
    ASSUME Hop
    PROVE  /\ DOMAIN task' = Fields
           /\ \A f \in Field : task'[f] = task[f]
           /\ \A f \in Json : task'[f] = Once(task[f])
<1>1. task' = [f \in Fields |-> CASE f \in Json -> StructToJson(TaskToProto(task)[f])
                                  [] f = "cancelled" -> FALSE
                                  [] OTHER -> TaskToProto(task)[f]]
  BY DEF Hop, TaskFromProto, Fields
<1>2. \A f \in Field : TaskToProto(task)[f] = task[f]
  BY FieldNames DEF TaskToProto
<1>3. \A f \in Json : TaskToProto(task)[f] = JsonToStruct(task[f])
  BY DEF TaskToProto
<1> QED
  BY <1>1, <1>2, <1>3, FieldNames DEF Once

\* With each hop the nulls that are left are one key closer to the root, relative to
\* where the client put the containers that they come from.
LEMMA HopNulls ==
    ASSUME NEW j, NEW given, NEW n \in Nat, JsonTree(j), JsonTree(given),
           n = 0 => j = given,
           n # 0 => Hopped(j) /\ NullsRise(j, given, n)
    PROVE  Hopped(Once(j)) /\ NullsRise(Once(j), given, n + 1)
<1>1. Hopped(Once(j))
  BY OnceHopped
<1> SUFFICES ASSUME NEW p, Null(Once(j), p)
             PROVE  p \in Seq(Strings) /\ \E q \in DOMAIN given : Len(p) + (n + 1) <= Level(given, q)
  BY <1>1 DEF NullsRise
<1>2. p \in DOMAIN j /\ Nested(j[p]) /\ p \in Seq(Strings) /\ Len(p) \in Nat
  BY FirstNulls
<1>3. CASE n = 0
  <2>1. p \in DOMAIN given /\ Level(given, p) = Len(p) + 1
    BY <1>2, <1>3 DEF Level
  <2>2. Len(p) + (n + 1) <= Level(given, p)
    BY <1>2, <1>3, <2>1
  <2> QED
    BY <1>2, <2>1, <2>2
<1>4. CASE n # 0
  <2>1. PICK q : Null(j, q) /\ q \in Seq(Strings) /\ Parent(q) = p
    BY <1>4, LaterNulls
  <2>2. PICK r \in DOMAIN given : Len(q) + n <= Level(given, r)
    BY <1>4, <2>1 DEF NullsRise, Null
  <2>3. Len(q) = Len(p) + 1
    BY <2>1, ParentLen DEF Null
  <2>4. Level(given, r) \in Int
    <3>1. r \in Seq(Strings)
      BY DEF JsonTree
    <3>2. Len(r) \in Nat
      BY <3>1
    <3> QED
      BY <3>2 DEF Level
  <2>5. Len(p) + (n + 1) <= Level(given, r)
    BY <1>2, <2>2, <2>3, <2>4
  <2> QED
    BY <1>2, <2>5
<1> QED
  BY <1>3, <1>4

\* Hop preserves the invariant.
LEMMA HopKeeps == CodecInv /\ Hop => CodecInv'
<1> SUFFICES ASSUME CodecInv, Hop PROVE CodecInv'
  OBVIOUS
<1>1. /\ DOMAIN task' = Fields
      /\ \A f \in Field : task'[f] = task[f]
      /\ \A f \in Json : task'[f] = Once(task[f])
  BY HopFields
<1>2. hops' = hops + 1 /\ sent' = sent /\ ran' = ran /\ hops \in Nat
  BY DEF Hop, CodecInv, Shape
<1>3. hops' \in Nat /\ hops' # 0
  BY <1>2
<1>4. \A f \in Json : JsonTree(task[f]) /\ JsonTree(sent[f])
  BY DEF CodecInv, Shape
<1>5. \A f \in Json : JsonTree(task'[f])
  BY <1>1, <1>4, OnceHopped DEF Hopped
<1>6. Shape'
  BY <1>1, <1>2, <1>3, <1>4, <1>5 DEF CodecInv, Shape
<1>7. \A f \in Json : AsSent(Leaves(task'[f])) = AsSent(Leaves(task[f]))
  BY <1>1, <1>4, OnceLeaves
<1>8. Survives'
  <2>1. \A f \in Json : AsSent(Leaves(task'[f])) = AsSent(Leaves(sent[f]))
    BY <1>7 DEF CodecInv, Survives
  <2>2. \A f \in Field : task'[f] = sent[f]
    BY <1>1 DEF CodecInv, Survives
  <2> QED
    BY <1>2, <1>3, <2>1, <2>2 DEF Survives
<1>9. Settles'
  <2>1. task'["func_params"] = Once(task["func_params"])
    BY <1>1, FieldNames
  <2>2. /\ Hopped(Once(task["func_params"]))
        /\ NullsRise(Once(task["func_params"]), sent["func_params"], hops + 1)
    BY <1>2, <1>4, FieldNames, HopNulls DEF CodecInv, Survives, Settles
  <2> QED
    BY <1>2, <2>1, <2>2 DEF Settles
<1>10. FibInv'
  BY <1>2 DEF CodecInv, FibInv, FibRan
<1> QED
  BY <1>6, <1>8, <1>9, <1>10 DEF CodecInv
\* The flag does not matter to the invariant.
LEMMA SameFieldsKeep ==
    ASSUME CodecInv, DOMAIN task' = Fields, \A f \in Field \cup Json : task'[f] = task[f],
           sent' = sent, hops' = hops, ran' = ran
    PROVE  CodecInv'
<1>1. Shape'
  BY DEF CodecInv, Shape
<1>2. Survives'
  BY DEF CodecInv, Survives
<1>3. Settles'
  BY FieldNames DEF CodecInv, Settles
<1>4. FibInv'
  BY DEF CodecInv, FibInv, FibRan
<1> QED
  BY <1>1, <1>2, <1>3, <1>4 DEF CodecInv

\* Reload preserves the invariant: to_json and from_json keep every field but the flag.
LEMMA ReloadKeeps == CodecInv /\ Reload => CodecInv'
<1> SUFFICES ASSUME CodecInv, Reload PROVE CodecInv'
  OBVIOUS
<1>1. task' = [f \in Fields |-> IF f = "cancelled" THEN FALSE ELSE to_json(task)[f]]
  BY DEF Reload, from_json, Fields
<1>2. \A f \in Field \cup Json : task'[f] = task[f]
  BY <1>1, FieldNames DEF to_json
<1>3. DOMAIN task' = Fields
  BY <1>1
<1> QED
  BY <1>2, <1>3, SameFieldsKeep DEF Reload

\* Cancel preserves the invariant.
LEMMA CancelKeeps == CodecInv /\ Cancel => CodecInv'
<1> SUFFICES ASSUME CodecInv, Cancel PROVE CodecInv'
  OBVIOUS
<1>1. DOMAIN task = Fields
  BY DEF CodecInv, Shape
<1>2. DOMAIN task' = Fields /\ \A f \in Field \cup Json : task'[f] = task[f]
  BY <1>1, FieldNames DEF Cancel
<1> QED
  BY <1>2, SameFieldsKeep DEF Cancel

\* fib reads the n that the client sent, whatever hops func_params took.
LEMMA ArgumentGiven ==
    ASSUME CodecInv, NEW n, Given(sent["func_params"], n)
    PROVE  Argument(task["func_params"]) = {n}
<1>1. /\ JsonTree(sent["func_params"])
      /\ AsSent(Leaves(task["func_params"])) = AsSent(Leaves(sent["func_params"]))
      /\ hops = 0 => task["func_params"] = sent["func_params"]
      /\ hops # 0 => Hopped(task["func_params"])
  BY FieldNames DEF CodecInv, Shape, Survives, Settles
<1>2. CASE hops = 0
  BY <1>1, <1>2, ArgumentSent
<1>3. CASE hops # 0
  BY <1>1, <1>3, ArgumentHopped
<1> QED
  BY <1>2, <1>3

\* What fib returns is a number it computed, or "cancelled".
LEMMA FibResultsOf ==
    ASSUME NEW params, NEW cancelled, JsonTree(params), NEW r \in FibResults(params, cancelled)
    PROVE  \E n \in Argument(params) :
              /\ ~(n < 0)
              /\ r = <<"string", "cancelled">> \/ \E i \in FibOf(n) : r = <<"int", i>>
<1> DEFINE Of(n) == CASE n < 0 -> {}
                     [] n > 1 /\ cancelled -> {<<"string", "cancelled">>}
                     [] OTHER -> {<<"int", i>> : i \in FibOf(n)}
<1>1. FibResults(params, cancelled) = UNION {Of(n) : n \in Argument(params)}
  BY DEF FibResults
<1> HIDE DEF Of
<1>2. PICK n \in Argument(params) : r \in Of(n)
  BY <1>1
<1>3. CASE n < 0
  <2>1. n \in Int
    BY ArgumentInts, WidthAssumption DEF Ints
  <2>2. Of(n) = {}
    BY <1>3, <2>1 DEF Of
  <2> QED
    BY <1>2, <2>2
<1>4. CASE ~(n < 0) /\ n > 1 /\ cancelled
  <2>1. Of(n) = {<<"string", "cancelled">>}
    BY <1>4 DEF Of
  <2> QED
    BY <1>2, <1>4, <2>1
<1>5. CASE ~(n < 0) /\ ~(n > 1 /\ cancelled)
  <2>1. Of(n) = {<<"int", i>> : i \in FibOf(n)}
    BY <1>5 DEF Of
  <2>2. \E i \in FibOf(n) : r = <<"int", i>>
    BY <1>2, <2>1
  <2> QED
    BY <1>5, <2>2
<1> QED
  BY <1>3, <1>4, <1>5

\* FibReturns preserves the invariant.
LEMMA FibReturnsKeeps == CodecInv /\ FibReturns => CodecInv'
<1> SUFFICES ASSUME CodecInv, FibReturns PROVE CodecInv'
  OBVIOUS
<1>1. PICK r \in FibResults(task["func_params"], task["cancelled"]) :
        /\ task' = [task EXCEPT !["result"] = ResultOf(r)]
        /\ sent' = [sent EXCEPT !["result"] = ResultOf(r)]
        /\ ran' = IF r = <<"string", "cancelled">> THEN "cancelled" ELSE "returned"
  BY DEF FibReturns
<1>2. PICK n \in Argument(task["func_params"]) :
        /\ ~(n < 0)
        /\ r = <<"string", "cancelled">> \/ \E i \in FibOf(n) : r = <<"int", i>>
  BY FibResultsOf, FieldNames DEF CodecInv, Shape
<1>3. DOMAIN task = Fields /\ DOMAIN sent = Fields /\ "result" \in Fields /\ "func_params" \in Fields
  BY FieldNames DEF CodecInv, Shape
<1>4. /\ DOMAIN task' = Fields /\ DOMAIN sent' = Fields
      /\ task'["result"] = ResultOf(r) /\ sent'["result"] = ResultOf(r)
      /\ \A f \in Field : task'[f] = task[f] /\ sent'[f] = sent[f]
      /\ task'["func_params"] = task["func_params"] /\ sent'["func_params"] = sent["func_params"]
  BY <1>1, <1>3, FieldNames
<1>5. hops' = hops
  BY DEF FibReturns
<1>6. r \in Node
  <2>1. n \in Ints
    BY ArgumentInts, FieldNames DEF CodecInv, Shape
  <2>2. \A i \in FibOf(n) : i \in Int
    BY <2>1, FibOfInt
  <2> QED
    BY <1>2, <2>2, KindNodes, ParamsAssumption
<1>7. JsonTree(ResultOf(r))
  BY <1>6, ResultTree
<1>8. Shape'
  <2>1. \A f \in Json : JsonTree(task'[f]) /\ JsonTree(sent'[f])
    BY <1>4, <1>7 DEF CodecInv, Shape, Json
  <2>2. ran' \in {"cancelled", "returned"}
    BY <1>1
  <2> QED
    BY <1>4, <1>5, <2>1, <2>2 DEF CodecInv, Shape
<1>9. Survives'
  BY <1>4, <1>5 DEF CodecInv, Survives, Json
<1>10. Settles'
  BY <1>4, <1>5 DEF CodecInv, Settles
<1>11. FibInv'
  <2> SUFFICES ASSUME NEW m \in Ints, Given(sent["func_params"], m)
               PROVE  FibRan(m)'
    BY <1>4 DEF FibInv
  <2>1. m = n
    BY <1>2, ArgumentGiven
  <2>2. ran' # "threw"
    BY <1>1
  <2>3. ~(m < 0)
    BY <1>2, <2>1
  <2>4. ASSUME ran' = "returned"
        PROVE  \E i \in FibOf(m) : sent'["result"] = ResultOf(<<"int", i>>)
    <3>1. r # <<"string", "cancelled">>
      BY <1>1, <2>4
    <3> QED
      BY <1>2, <1>4, <2>1, <3>1
  <2> QED
    BY <2>2, <2>3, <2>4 DEF FibRan
<1> QED
  BY <1>8, <1>9, <1>10, <1>11 DEF CodecInv

\* FibThrows preserves the invariant: fib throws only for a negative n.
LEMMA FibThrowsKeeps == CodecInv /\ FibThrows => CodecInv'
<1> SUFFICES ASSUME CodecInv, FibThrows PROVE CodecInv'
  OBVIOUS
<1>1. ran' = "threw" /\ task' = task /\ sent' = sent /\ hops' = hops
  BY DEF FibThrows
<1>2. Shape' /\ Survives' /\ Settles'
  BY <1>1 DEF CodecInv, Shape, Survives, Settles
<1>3. FibInv'
  <2> SUFFICES ASSUME NEW m \in Ints, Given(sent["func_params"], m)
               PROVE  FibRan(m)'
    BY <1>1 DEF FibInv
  <2>1. Argument(task["func_params"]) = {m}
    BY ArgumentGiven
  <2>2. m < 0
    BY <2>1 DEF FibThrows
  <2>3. m \in Int
    BY WidthAssumption DEF Given, Ints
  <2>4. ~(m >= 0)
    BY <2>2, <2>3
  <2> QED
    BY <1>1, <2>4 DEF FibRan
<1> QED
  BY <1>2, <1>3 DEF CodecInv

-----------------------------------------------------------------------------
(***************************************************************************)
(* The theorems.                                                           *)
(***************************************************************************)
\* Every reachable task satisfies the invariant, for all JSON values that a client may
\* send, of any depth and breadth, any number of hops and every width of int.
THEOREM CodecInvariant == Spec => []CodecInv
<1>1. CodecInv /\ [Next]_vars => CodecInv'
  <2> SUFFICES ASSUME CodecInv, [Next]_vars PROVE CodecInv'
    OBVIOUS
  <2>1. CASE UNCHANGED vars
    BY <2>1 DEF vars, CodecInv, Shape, Survives, Settles, FibInv, FibRan
  <2>2. CASE Next
    BY <2>2, HopKeeps, ReloadKeeps, CancelKeeps, FibReturnsKeeps, FibThrowsKeeps DEF Next
  <2> QED
    BY <2>1, <2>2
<1> QED
  BY CodecInit, <1>1, PTL DEF Spec

\* TaskToProto, TaskFromProto, to_json and from_json lose and exchange no plain field,
\* and keep every bool, number and string of func_params and result at its path.
THEOREM TaskSurvivesCorrect == Spec => []TaskSurvives
<1>1. CodecInv => TaskSurvives
  BY DEF CodecInv, Shape, Survives, TaskSurvives, Fields
<1> QED
  BY CodecInvariant, <1>1, PTL

\* After as many hops as func_params are deep, StructToJson(JsonToStruct(j)) is j.
THEOREM HopsSettleCorrect == Spec => []HopsSettle
<1>1. CodecInv => HopsSettle
  <2> DEFINE j == task["func_params"]  given == sent["func_params"]
  <2> SUFFICES ASSUME CodecInv, hops >= 1, \A p \in DOMAIN given : Level(given, p) <= hops
               PROVE  StructToJson(JsonToStruct(j)) = j
    BY DEF HopsSettle
  <2>1. hops \in Nat /\ JsonTree(given)
    BY FieldNames DEF CodecInv, Shape
  <2>2. Hopped(j) /\ NullsRise(j, given, hops)
    BY <2>1 DEF CodecInv, Settles
  <2> HIDE DEF j, given
  <2>3. ASSUME NEW p, Null(j, p)
        PROVE  FALSE
    <3>1. p \in Seq(Strings) /\ p # <<>>
      BY <2>2, <2>3 DEF NullsRise, Null
    <3>2. PICK q \in DOMAIN given : Len(p) + hops <= Level(given, q)
      BY <2>2, <2>3 DEF NullsRise, Null
    <3>3. Level(given, q) <= hops
      OBVIOUS
    <3>4. Len(q) \in Nat
      BY <2>1 DEF JsonTree
    <3>5. Level(given, q) \in Int
      BY <3>4 DEF Level
    <3>6. Len(p) \in Nat /\ Len(p) # 0
      BY <3>1, EmptySeq
    <3> QED
      BY <2>1, <3>2, <3>3, <3>5, <3>6
  <2>4. Once(j) = j
    BY <2>2, <2>3, Settled
  <2> QED
    BY <2>4 DEF Once
<1> QED
  BY CodecInvariant, <1>1, PTL

\* The client that sends an int n gets the n-th Fibonacci number if that is an int, and
\* for a negative n an error, whatever hops the parameters and the result take.
THEOREM FibExactCorrect == Spec => []FibExact
<1>1. CodecInv => FibExact
  <2> DEFINE given == sent["func_params"]  n == given[<<"n">>][2]
  <2> SUFFICES ASSUME CodecInv, given[<<>>][1] = "object", <<"n">> \in DOMAIN given,
                      given[<<"n">>][1] = "int", n \in Ints
               PROVE  /\ n < 0 => ran \in {"no", "threw"}
                      /\ n >= 0 => ran # "threw"
                      /\ ran = "returned" /\ Fib[n] <= IntMax =>
                            AsSent(Leaves(task["result"])) = {<<<<"result">>, <<"double", Fib[n]>>>>}
    BY DEF FibExact
  <2>1. given[<<"n">>] = <<"int", n>>
    <3>1. given[<<"n">>] \in Node
      BY FieldNames DEF CodecInv, Shape, JsonTree
    <3> QED
      BY <3>1, NodeKinds
  <2>2. FibRan(n)
    BY <2>1 DEF CodecInv, FibInv, Given
  <2>3. AsSent(Leaves(task["result"])) = AsSent(Leaves(sent["result"]))
    BY FieldNames DEF CodecInv, Survives
  <2> HIDE DEF n
  <2>4. ASSUME ran = "returned", Fib[n] <= IntMax
        PROVE  AsSent(Leaves(sent["result"])) = {<<<<"result">>, <<"double", Fib[n]>>>>}
    <3>1. IntMax \in Nat /\ n \in Int
      BY WidthAssumption DEF Ints
    <3>2. ~(n < 0) /\ \E r \in FibOf(n) : sent["result"] = ResultOf(<<"int", r>>)
      BY <2>2, <2>4 DEF FibRan
    <3>3. n \in 0..IntMax
      BY <3>1, <3>2 DEF Ints
    <3>4. FibOf(n) = {Fib[n]} /\ Fib[n] \in Nat
      BY <2>4, <3>3, FibOfExact, FibNat
    <3> DEFINE j == ResultOf(<<"int", Fib[n]>>)
    <3>5. sent["result"] = j
      BY <3>2, <3>4
    <3>6. Fib[n] \in Int /\ Fib[n] \in Ints
      BY <2>4, <3>1, <3>4 DEF Ints
    <3>7. Nearest(Fib[n]) = Fib[n]
      BY <3>6, NearestExact
    <3>8. <<"int", Fib[n]>> \in Node
      BY <3>6, KindNodes
    <3>9. Items(j) = j
      BY <3>8, ResultTree
    <3>10. <<"result">> # <<>>
      BY PathOfOne, ParamsAssumption
    <3>11. DOMAIN j = {<<>>, <<"result">>} /\ j[<<>>] = <<"object">> /\ j[<<"result">>] = <<"int", Fib[n]>>
      BY <3>10 DEF ResultOf
    <3> HIDE DEF j
    <3>12. ~Scalar(j[<<>>]) /\ Scalar(j[<<"result">>])
      BY <3>11, One, Two DEF Scalar
    <3>13. AsDouble(j[<<"result">>]) = <<"double", Fib[n]>>
      BY <3>7, <3>11, Two DEF AsDouble
    <3>14. {q \in DOMAIN j : Scalar(j[q])} = {<<"result">>}
      BY <3>11, <3>12
    <3>15. AsSent(Leaves(j)) = {<<p, AsDouble(j[p])>> : p \in {<<"result">>}}
      BY <3>9, <3>14, SentLeaves
    <3> QED
      BY <3>5, <3>13, <3>15
  <2> QED
    BY <2>2, <2>3, <2>4 DEF FibRan
<1> QED
  BY CodecInvariant, <1>1, PTL
=============================================================================
