------------------------------- MODULE Values -------------------------------
(***************************************************************************)
(* values_equal of sampled_checksum.py: one cell of a row on its trip from *)
(* the source to the target, what the two drivers make of it, and whether  *)
(* the check takes them for the same.  A datum is what the applications    *)
(* mean (a number, a text, a moment ...); a value is the Python object a   *)
(* driver returns for it.  Numbers count in units of which One make 1.     *)
(***************************************************************************)
EXTENDS Types

CONSTANTS
    Null,             \* NULL, and Python's None
    NaN, Word, Naive, \* a float; a text that is no number; no tzinfo
    Nums, One,        \* numbers to choose from, among them One
    Times,            \* moments to choose from, in hours
    Zone,             \* Zone[engine]: the sessions' offset from UTC
    AbsTol, RelDen,   \* abs_tol, and rel_tol as 1 / RelDen
    Pairings          \* pairs of columns, one for each side, to compare

-----------------------------------------------------------------------------
(* What the columns hold, and what the drivers return *)

Sides == {"source", "target"}

Datum(kind, vals) == [kind : {kind}, val : vals]

Texts == Nums \cup {Word}

coarse(col) == Coarse(col.engine, col.native)

\* MySQL has no other type for a flag than tinyint.
Contents(col) == {Null} \cup
    CASE coarse(col) \in {"integer", "decimal"} -> Datum("number", Nums)
      [] coarse(col) = "float"     -> Datum("number", Nums \cup {NaN})
      [] coarse(col) = "bool"      -> Datum("number", {0, One})
      [] coarse(col) = "string"    -> Datum("text", Texts)
      [] coarse(col) = "json"      -> Datum("document", Texts)
      [] coarse(col) = "binary"    -> Datum("bytes", Texts)
      [] coarse(col) = "timestamp" -> Datum("moment", Times)
      [] coarse(col) = "date"      -> Datum("day", Times)

\* psycopg returns zoned time stamps in the session's zone, BigQuery in UTC;
\* everywhere else there is no zone, but MySQL's TIMESTAMP is shown in the
\* session's all the same.
Zoned(col) == col.native \in {"timestamp with time zone", "TIMESTAMP"}
Shown(col) ==
    IF col.native \in {"timestamp with time zone", "timestamp"}
    THEN Zone[col.engine] ELSE 0

python(col) ==
    CASE coarse(col) = "integer"   -> "int"
      [] coarse(col) = "float"     -> "float"
      [] coarse(col) = "bool"      -> "bool"
      [] coarse(col) = "decimal"   -> IF col.native = "money" THEN "str" ELSE "Decimal"
      [] coarse(col) = "string"    -> IF col.native = "uuid" THEN "UUID" ELSE "str"
      [] coarse(col) = "json"      -> IF col.engine = "mysql" THEN "str" ELSE "dict"
      [] coarse(col) = "binary"    -> "bytes"
      [] coarse(col) = "timestamp" -> "datetime"
      [] coarse(col) = "date"      -> "date"

Value(col, d) ==
    IF d = Null THEN Null
    ELSE [py |-> python(col),
          val |-> IF d.kind = "moment" THEN d.val + Shown(col) ELSE d.val,
          tzinfo |-> IF Zoned(col) THEN Shown(col) ELSE Naive]

Datums ==
    [kind : {"number", "text", "document", "bytes", "moment", "day"},
     val : Texts \cup Times \cup {NaN}]
Objects ==
    [py : {"int", "float", "bool", "Decimal", "str", "UUID", "dict", "bytes",
           "datetime", "date"},
     val : Int \cup {NaN, Word}, tzinfo : Int \cup {Naive}]

\* No column is of a type unknown to its adapter.
ValuesAssumption ==
    /\ Nums \subseteq Nat /\ {0, One} \subseteq Nums /\ Times \subseteq Nat
    /\ Zone \in [Engines -> Int] /\ AbsTol \in Nat /\ RelDen \in Nat \ {0}
    /\ \A p \in Pairings : \A s \in Sides :
          p[s].engine \in Engines /\ coarse(p[s]) # "other"
    /\ Null \notin Datums \cup Objects
    /\ NaN \notin Int /\ Word \notin Int \cup {NaN} /\ Naive \notin Int

VARIABLES
    column,  \* column[side]: an engine and the native type
    cell,    \* cell[side]: the datum stored there
    verdict  \* what the check says of it, "none" before it ran

vars == <<column, cell, verdict>>

-----------------------------------------------------------------------------
(* The comparison *)

DropsZone(v) ==  \* mutant of _normalize
    IF v.py \in {"bool", "int"} THEN [v EXCEPT !.py = "Decimal"]
    ELSE [v EXCEPT !.tzinfo = Naive]
KeepsBool(v) ==  \* mutant of _normalize
    IF v.py = "int" THEN [v EXCEPT !.py = "Decimal"]
    ELSE IF v.py = "datetime" /\ v.tzinfo # Naive
    THEN [v EXCEPT !.val = v.val - v.tzinfo, !.tzinfo = Naive]
    ELSE v
\* bool and int become Decimal, a moment with a zone becomes naive UTC.
_normalize(v) ==
    IF v.py \in {"bool", "int"} THEN [v EXCEPT !.py = "Decimal"]
    ELSE IF v.py = "datetime" /\ v.tzinfo # Naive
    THEN [v EXCEPT !.val = v.val - v.tzinfo, !.tzinfo = Naive]
    ELSE v

\* float() takes numbers, and texts that look like one.
Floats(v) == v.py \in {"bool", "int", "Decimal", "float", "str", "bytes"}
             /\ v.val \in Nums \cup {NaN}

isclose(x, y) ==
    NaN \notin {x, y} /\
        LET diff == IF x > y THEN x - y ELSE y - x
        IN  diff <= AbsTol \/ \E z \in {x, y} : RelDen * diff <= z

FloatAtSource(a, b) ==  \* mutant of values_equal
    IF Null \in {a, b} THEN a = b
    ELSE IF a.py = "float" THEN Floats(a) /\ Floats(b) /\ isclose(a.val, b.val)
    ELSE _normalize(a) = _normalize(b)
values_equal(a, b) ==
    IF Null \in {a, b} THEN a = b
    ELSE IF "float" \in {a.py, b.py} THEN Floats(a) /\ Floats(b) /\ isclose(a.val, b.val)
    ELSE _normalize(a) = _normalize(b)

Cell(s) == Value(column[s], cell[s])

-----------------------------------------------------------------------------
\* The source writes anything its column can hold; what the target holds is
\* a copy, or whatever a faulty connector made of it.
Store(s, d) ==
    /\ verdict = "none"
    /\ cell' = [cell EXCEPT ![s] = d]
    /\ UNCHANGED <<column, verdict>>

Compare ==
    /\ verdict = "none"
    /\ verdict' = IF values_equal(Cell("source"), Cell("target")) THEN "same" ELSE "differs"
    /\ UNCHANGED <<column, cell>>

Init == column \in Pairings /\ cell = [s \in Sides |-> Null] /\ verdict = "none"

Next == \/ \E s \in Sides : \E d \in Contents(column[s]) : Store(s, d)
        \/ Compare

Spec == Init /\ [][Next]_vars

-----------------------------------------------------------------------------
TypeOK ==
    /\ column \in Pairings /\ cell \in [Sides -> Datums \cup {Null}]
    /\ \A s \in Sides : cell[s] \in Contents(column[s])
    /\ verdict \in {"none", "same", "differs"}

SameFamily ==
    \/ coarse(column["source"]) = coarse(column["target"])
    \/ \A s \in Sides : coarse(column[s]) \in {"integer", "decimal", "float", "bool"}

\* "Cross-engine value normalization (the value-level cousin of coarse types)":
\* a faithful copy is no drift, whichever engines the sides are and whichever
\* of the numeric types they use; a NaN, which differs from itself, excepted.
FaithfulCopyIsSame ==
    verdict # "none" /\ SameFamily /\ cell["source"] = cell["target"] =>
        verdict = "same" \/ cell["source"].val = NaN

\* "a lossy DECIMAL -> FLOAT cast, a timezone shift, a truncated string": a
\* datum that changed on its way is reported, whatever the column types, but
\* for numbers closer than the tolerance where one of the sides is a float.
Negligible(x, y) ==
    /\ \E s \in Sides : coarse(column[s]) = "float"
    /\ NaN \notin {x, y}
    /\ \E z \in {AbsTol} \cup {n \in 0 .. x + y : RelDen * n <= x \/ RelDen * n <= y} :
          x <= y + z /\ y <= x + z
DriftIsSeen ==
    verdict = "same" /\ cell["source"] # cell["target"] =>
        /\ \A s \in Sides : cell[s] # Null
        /\ cell["source"].kind = "number" /\ cell["target"].kind = "number"
        /\ Negligible(cell["source"].val, cell["target"].val)

\* adapters/base.py, "symmetric by design ... any connector can serve as a
\* source *or* a target": the verdict would be the same the other way round.
Symmetric ==
    verdict # "none" =>
        (verdict = "same" <=> values_equal(Cell("target"), Cell("source")))
=============================================================================
