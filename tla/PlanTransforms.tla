--------------------------- MODULE PlanTransforms ---------------------------
(***************************************************************************)
(* The closed set of operations of a TRANSFORM node (v2/dag_transform.py). *)
(* A JSON value is a record of its type name and its content: a list holds *)
(* a sequence, an object a function from field names.  An operation is     *)
(* applied to a function from argument names to values.                    *)
(***************************************************************************)
EXTENDS Integers, Sequences, FiniteSets, SequencesExt

CONSTANT StringOrder    \* the rank of every string a plan sorts by, in byte order

Bool(b) == [type |-> "bool", v |-> IF b THEN 1 ELSE 0]
Num(n) == [type |-> "int", v |-> n]
Text(s) == [type |-> "string", v |-> s]
Obj(f) == [type |-> "object", v |-> f]
Lst(s) == [type |-> "list", v |-> s]

Mismatch == [type |-> "TRANSFORM_TYPE_MISMATCH", v |-> 0]

Members(list) == ToSet(list.v)
HasField(item, key) == item.type = "object" /\ key.v \in DOMAIN item.v
FieldOf(item, key) == item.v[key.v]

\* Python's ==, under which True equals 1; the canonical encoding tells them apart.
Same(x, y) ==
    IF {x.type, y.type} \subseteq {"int", "bool"} THEN x.v = y.v ELSE x = y

\* The decimal digits canonical_json_bytes writes: 10 sorts before 9.
Digits[n \in Nat] == IF n < 10 THEN <<n>> ELSE Digits[n \div 10] \o <<n % 10>>
Encoding(v) ==
    CASE v.type = "int" -> Digits[v.v]
      [] v.type = "string" -> <<StringOrder[v.v]>>
      [] OTHER -> <<v.v>>
BytesBefore(a, b) ==
    \/ IsStrictPrefix(a, b)
    \/ \E i \in 1 .. Len(a) :
        /\ i <= Len(b) /\ a[i] < b[i]
        /\ \A j \in 1 .. i - 1 : a[j] = b[j]

\* The argument types of TRANSFORM_OPS; an argument not named here is free.
ArgTypes(op) ==
    CASE op = "select" -> [value |-> "object", field |-> "string"]
      [] op = "project" -> [value |-> "object", fields |-> "list"]
      [] op \in {"filter_eq", "map_field", "sort_by"} -> [value |-> "list", field |-> "string"]
      [] op = "filter_in" -> [value |-> "list", field |-> "string", values |-> "list"]
      [] op = "merge_objects" -> [left |-> "object", right |-> "object"]
      [] op \in {"count", "first", "unique", "require_non_empty"} -> [value |-> "list"]
      [] op = "to_list" -> << >>
      [] OTHER -> << >>
RequiredArgs(op) ==
    CASE op = "filter_eq" -> {"value", "field", "equals"}
      [] op = "to_list" -> {"value"}
      [] OTHER -> DOMAIN ArgTypes(op)
TransformOps == {"select", "project", "filter_eq", "filter_in", "map_field", "count", "first",
    "sort_by", "unique", "merge_objects", "to_list", "require_non_empty"}
OutputType(op) ==
    CASE op \in {"select", "first"} -> "any"
      [] op \in {"project", "merge_objects"} -> "object"
      [] op = "count" -> "int"
      [] OTHER -> "list"

SortBy(a) ==
    LET items == a.value.v
        key(i) == Encoding(FieldOf(items[i], a.field))
        precedes(i, j) == BytesBefore(key(i), key(j)) \/ (key(i) = key(j) /\ i < j)
        place(i) == Cardinality({j \in DOMAIN items : precedes(j, i)}) + 1
    IN  [p \in DOMAIN items |-> items[CHOOSE i \in DOMAIN items : place(i) = p]]

Unique(items) ==
    LET first == {i \in DOMAIN items : \A j \in 1 .. i - 1 : items[j] # items[i]}
    IN  [p \in 1 .. Cardinality(first) |->
            items[CHOOSE i \in first : Cardinality({j \in first : j <= i}) = p]]

\* What each handler requires of its arguments beyond their types.
Applicable(op, a) ==
    CASE op = "select" -> HasField(a.value, a.field)
      [] op = "project" -> \A f \in Members(a.fields) : f.type = "string" /\ HasField(a.value, f)
      [] op \in {"filter_eq", "filter_in", "map_field"} ->
            \A x \in Members(a.value) : HasField(x, a.field)
      [] op = "sort_by" ->
            /\ \A x \in Members(a.value) : HasField(x, a.field)
            /\ Cardinality({FieldOf(x, a.field).type : x \in Members(a.value)}) <= 1
      [] op \in {"first", "require_non_empty"} -> a.value.v # << >>
      [] op = "merge_objects" -> DOMAIN a.left.v \cap DOMAIN a.right.v = {}
      [] OTHER -> TRUE

Applied(op, a) ==
    CASE op = "select" -> FieldOf(a.value, a.field)
      [] op = "project" -> Obj([f \in {x.v : x \in Members(a.fields)} |-> a.value.v[f]])
      [] op = "filter_eq" -> Lst(SelectSeq(a.value.v, LAMBDA x : Same(FieldOf(x, a.field), a.equals)))
      [] op = "filter_in" -> Lst(SelectSeq(a.value.v,
            LAMBDA x : \E y \in Members(a.values) : Same(FieldOf(x, a.field), y)))
      [] op = "map_field" -> Lst([i \in DOMAIN a.value.v |-> FieldOf(a.value.v[i], a.field)])
      [] op = "count" -> Num(Len(a.value.v))
      [] op = "first" -> a.value.v[1]
      [] op = "sort_by" -> Lst(SortBy(a))
      [] op = "unique" -> Lst(Unique(a.value.v))
      [] op = "merge_objects" -> Obj([f \in DOMAIN a.left.v \cup DOMAIN a.right.v |->
            IF f \in DOMAIN a.left.v THEN a.left.v[f] ELSE a.right.v[f]])
      [] op = "to_list" -> IF a.value.type = "list" THEN a.value ELSE Lst(<<a.value>>)
      [] OTHER -> a.value

ApplyTransform(op, a) ==
    IF /\ DOMAIN a = RequiredArgs(op)
       /\ \A n \in DOMAIN ArgTypes(op) : a[n].type = ArgTypes(op)[n]
       /\ Applicable(op, a)
    THEN Applied(op, a)
    ELSE Mismatch
=============================================================================
