----------------------------- MODULE TaskCodec ------------------------------
(***************************************************************************)
(* What happens to the data of a Task on its way: TaskToProto and          *)
(* TaskFromProto at every hop between two programs (common/src/utils.cpp), *)
(* to_json and from_json (common/include/task.hpp), and the built-in       *)
(* function "fib" that reads func_params and writes result (worker/        *)
(* task-executor/src/task_executor.cpp).                                   *)
(*                                                                         *)
(* A JSON value is a tree: a function from the paths of keys that lead to  *)
(* its nodes, <<>> being the value itself, to what is there: <<"null">>,   *)
(* <<"bool", b>>, <<"int", i>>, <<"double", d>>, <<"string", s>>,          *)
(* <<"array">> or <<"object">>.  The elements of an array have the keys    *)
(* that items() gives them, "0", "1", ...  A Struct is such a tree of      *)
(* <<"struct">> and of scalar Values.  All doubles of the model are whole. *)
(***************************************************************************)
EXTENDS Integers, Sequences

CONSTANTS
    Strings,   \* the keys, and the strings in JSON values
    Params,    \* JSON values that clients put in func_params
    IntMax,    \* the largest int
    Exact,     \* up to which every integer is a double
    MaxHops    \* Bound: hops of one task

\* An int is a double (32 < 53 bits), a JSON integer (64 bits) need not be.
\* Bound: integers between Exact and 2 * Exact, where doubles are even.
ASSUME WidthAssumption ==
    /\ IntMax \in Nat \ {0} /\ Exact \in Nat /\ MaxHops \in Nat
    /\ IntMax < Exact /\ Exact % 2 = 0

Parent(path) == SubSeq(path, 1, Len(path) - 1)

\* What may be at a node, and which of it has items.
Node == {<<"null">>, <<"array">>, <<"object">>} \cup ({"bool"} \X BOOLEAN)
        \cup ({"int", "double"} \X Int) \cup ({"string"} \X Strings)

Nested(v) == v[1] \in {"array", "object"}

JsonTree(j) ==
    /\ j \in [DOMAIN j -> Node]
    /\ <<>> \in DOMAIN j
    /\ DOMAIN j \subseteq Seq(Strings)
    /\ \A p \in DOMAIN j \ {<<>>} : Parent(p) \in DOMAIN j /\ Nested(j[Parent(p)])

\* The code itself writes the first four.
ASSUME ParamsAssumption ==
    /\ {"", "n", "result", "cancelled"} \subseteq Strings
    /\ \A j \in Params : JsonTree(j)

VARIABLES
    sent,   \* ghost: the task as its writers left it
    task,   \* the task as it is now
    hops,   \* how often it was sent
    ran     \* what became of the call of fib

vars == <<sent, task, hops, ran>>

Ints == -(IntMax + 1)..IntMax
Wrap(i) == ((i + IntMax + 1) % (2 * (IntMax + 1))) - (IntMax + 1)

\* The double nearest to i, ties to even.
Nearest(i) ==
    IF i \in -Exact..Exact \/ i % 2 = 0 THEN i
    ELSE IF ((i - 1) \div 2) % 2 = 0 THEN i - 1 ELSE i + 1

-----------------------------------------------------------------------------
(***************************************************************************)
(* The conversions.  The code recurses into the containers; here each node *)
(* becomes what the call that meets it makes of it.  items() of a scalar   *)
(* is one item with the key "", of null there are none.                    *)
(***************************************************************************)
Items(j) ==
    IF j[<<>>][1] \in {"null", "array", "object"} THEN j
    ELSE [p \in {<<>>, <<"">>} |-> IF p = <<>> THEN <<"object">> ELSE j[<<>>]]

NumberValue(v) == <<"number", IF v[1] = "int" THEN Nearest(v[2]) ELSE v[2]>>

\* Mutant: a string is written with dump(), which puts it in quotes.
ScalarDumped(v) ==
    CASE v[1] \in {"int", "double"} -> NumberValue(v)
      [] v[1] = "string" -> <<"string", "'" \o v[2] \o "'">>
      [] OTHER -> v

ScalarValue(v) == IF v[1] \in {"int", "double"} THEN NumberValue(v) ELSE v

JsonToStruct(j) ==
    [p \in DOMAIN Items(j) |->
        IF p = <<>> \/ Nested(Items(j)[p]) THEN <<"struct">> ELSE ScalarValue(Items(j)[p])]

\* The fields that become an assignment; a null Value does not.
Kept(proto) == {p \in DOMAIN proto : proto[p][1] \in {"bool", "number", "string", "struct"}}

\* Each json starts as null and becomes an object with its first assignment.
StructToJson(proto) ==
    [p \in Kept(proto) |->
        CASE proto[p][1] = "number" -> <<"double", proto[p][2]>>
          [] proto[p][1] = "struct" ->
                IF \E q \in Kept(proto) \ {<<>>} : Parent(q) = p THEN <<"object">> ELSE <<"null">>
          [] OTHER -> proto[p]]

-----------------------------------------------------------------------------
(***************************************************************************)
(* A Task: its plain fields, two JSON values, and the flag "cancelled".    *)
(***************************************************************************)
Field == {"task_id", "client_id", "priority", "state", "func_name", "required", "shard",
          "timeout_ms", "max_retry", "retry_count", "submit_ts", "start_ts", "finish_ts",
          "error_msg"}
Json == {"func_params", "result"}

\* Mutant: result is filled from func_params.
TaskToProtoTwice(t) ==
    [f \in Field \cup Json |-> IF f \in Json THEN JsonToStruct(t["func_params"]) ELSE t[f]]

\* task.proto has the types of task.hpp, and the same numbers for the states.
TaskToProto(t) ==
    [f \in Field \cup Json |-> IF f \in Json THEN JsonToStruct(t[f]) ELSE t[f]]

\* A new Task has a flag of its own.
TaskFromProto(p) ==
    [f \in Field \cup Json \cup {"cancelled"} |->
        CASE f \in Json -> StructToJson(p[f])
          [] f = "cancelled" -> FALSE
          [] OTHER -> p[f]]

to_json(t) == [f \in Field \cup Json |-> t[f]]

from_json(j) == [f \in Field \cup Json \cup {"cancelled"} |->
                    IF f = "cancelled" THEN FALSE ELSE j[f]]

-----------------------------------------------------------------------------
(***************************************************************************)
(* fib.  params.value("n", 0) throws unless params is an object, and       *)
(* unless "n" is a number or a bool or is missing; the result is the set   *)
(* of values that n may have.  A double that is no int, and an int that    *)
(* overflows, are undefined behaviour: any int.                            *)
(***************************************************************************)
Argument(params) ==
    IF params[<<>>][1] # "object" THEN {}
    ELSE IF <<"n">> \notin DOMAIN params THEN {0}
    ELSE LET v == params[<<"n">>] IN
         CASE v[1] = "int" -> {Wrap(v[2])}
           [] v[1] = "bool" -> {IF v[2] THEN 1 ELSE 0}
           [] v[1] = "double" -> IF v[2] \in Ints THEN {v[2]} ELSE Ints
           [] OTHER -> {}

\* a and b after the round of i, had an int no bound.
Loop[i \in 1..IntMax] ==
    IF i = 1 THEN <<0, 1>> ELSE LET s == Loop[i - 1] IN <<s[2], s[1] + s[2]>>

\* Mutant: the loop ends before n.
FibShort(n) ==
    CASE n <= 1 -> {n}
      [] n > 1 /\ (\E i \in 2..n : Loop[i][2] > IntMax) -> Ints
      [] OTHER -> {Loop[n - 1][2]}

FibOf(n) ==
    CASE n <= 1 -> {n}
      [] n > 1 /\ (\E i \in 2..n : Loop[i][2] > IntMax) -> Ints
      [] OTHER -> {Loop[n][2]}

\* What fib may return; nothing if it throws.
FibResults(params, cancelled) ==
    UNION {CASE n < 0 -> {}
             [] n > 1 /\ cancelled -> {<<"string", "cancelled">>}
             [] OTHER -> {<<"int", r>> : r \in FibOf(n)} : n \in Argument(params)}

ResultOf(r) == [p \in {<<>>, <<"result">>} |-> IF p = <<>> THEN <<"object">> ELSE r]

-----------------------------------------------------------------------------
NewTask(params) ==
    [f \in Field \cup Json \cup {"cancelled"} |->
        CASE f = "func_params" -> params
          [] f = "result" -> [p \in {<<>>} |-> <<"null">>]
          [] f = "cancelled" -> FALSE
          [] OTHER -> f]

Init ==
    /\ \E p \in Params : sent = NewTask(p)
    /\ task = sent
    /\ hops = 0
    /\ ran = "no"

Hop ==
    /\ hops < MaxHops
    /\ task' = TaskFromProto(TaskToProto(task))
    /\ hops' = hops + 1
    /\ UNCHANGED <<sent, ran>>

Reload ==
    /\ task' = from_json(to_json(task))
    /\ UNCHANGED <<sent, hops, ran>>

Cancel ==
    /\ ran = "no"
    /\ task' = [task EXCEPT !["cancelled"] = TRUE]
    /\ UNCHANGED <<sent, hops, ran>>

FibReturns ==
    /\ ran = "no"
    /\ \E r \in FibResults(task["func_params"], task["cancelled"]) :
          /\ task' = [task EXCEPT !["result"] = ResultOf(r)]
          /\ sent' = [sent EXCEPT !["result"] = ResultOf(r)]
          /\ ran' = IF r = <<"string", "cancelled">> THEN "cancelled" ELSE "returned"
    /\ UNCHANGED hops

FibThrows ==
    /\ ran = "no"
    /\ \/ Argument(task["func_params"]) = {}
       \/ \E n \in Argument(task["func_params"]) : n < 0
    /\ ran' = "threw"
    /\ UNCHANGED <<sent, task, hops>>

Next == Hop \/ Reload \/ Cancel \/ FibReturns \/ FibThrows

Spec == Init /\ [][Next]_vars

-----------------------------------------------------------------------------
(***************************************************************************)
(* Properties.                                                             *)
(***************************************************************************)

\* The scalars in a value other than null, each with the path of keys to it.
Leaves(j) ==
    {<<p, Items(j)[p]>> :
        p \in {q \in DOMAIN Items(j) : Items(j)[q][1] \in {"bool", "int", "double", "string"}}}

\* An integer compares equal to the double it is sent as.
AsDouble(v) == IF v[1] = "int" THEN <<"double", Nearest(v[2])>> ELSE v

AsSent(leaves) == {<<leaf[1], AsDouble(leaf[2])>> : leaf \in leaves}

\* No plain field of a task is lost or exchanged, however often it goes through
\* TaskToProto and TaskFromProto or through JSON.  Through JSON alone func_params
\* and result stay exactly what they are.  Whatever hops do to arrays, nulls and
\* empty containers, every bool, number and string in them stays where it is, at
\* the same path (an index of an array having become a key), and none appears.
TaskSurvives ==
    /\ DOMAIN task = Field \cup Json \cup {"cancelled"}
    /\ \A f \in Field : task[f] = sent[f]
    /\ hops = 0 => \A f \in Json : task[f] = sent[f]
    /\ \A f \in Json : AsSent(Leaves(task[f])) = AsSent(Leaves(sent[f]))

\* How deep j goes at path p: a container, be it empty, counts.
Level(j, p) == Len(p) + (IF Nested(j[p]) THEN 1 ELSE 0)

\* A hop changes func_params (StructToJson(JsonToStruct(j)) is not j), the next hop
\* may change them again, but they settle: as many hops as the value is deep, and
\* one at least, and further hops change nothing.
HopsSettle ==
    LET j == task["func_params"]
        given == sent["func_params"]
    IN  hops >= 1 /\ (\A p \in DOMAIN given : Level(given, p) <= hops)
            => StructToJson(JsonToStruct(j)) = j

Fib[n \in 0..IntMax] == IF n <= 1 THEN n ELSE Fib[n - 1] + Fib[n - 2]

\* A client that sends an int n from which fib can compute an int gets the n-th
\* Fibonacci number, however many hops func_params and result take; for a negative
\* n the function throws.
FibExact ==
    LET p == sent["func_params"] IN
    p[<<>>][1] = "object" /\ <<"n">> \in DOMAIN p =>
        LET n == p[<<"n">>] IN
        n[1] = "int" /\ n[2] \in Ints =>
            /\ n[2] < 0 => ran \in {"no", "threw"}
            /\ n[2] >= 0 => ran # "threw"
            /\ ran = "returned" /\ Fib[n[2]] <= IntMax =>
                  AsSent(Leaves(task["result"])) = {<<<<"result">>, <<"double", Fib[n[2]]>>>>}
=============================================================================
