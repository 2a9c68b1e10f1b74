------------------------------- MODULE TableOps -------------------------------
(***************************************************************************)
(* The operations of services/transform_service.py on the contents of a    *)
(* table: what the SELECT that _compile_op builds yields.  How the result  *)
(* replaces the table is module Transform.                                 *)
(*                                                                         *)
(* A text is a core (a word, a numeral, a date, a placeholder, blank) and  *)
(* how it is written: letter case, what stands between its parts, spaces   *)
(* around it.  An operation yields a SET of tables: DuckDB keeps the order *)
(* of rows through projections and WHERE, but not through DISTINCT, GROUP  *)
(* BY or a window with a frame.  The empty set is a TransformError.  Rows  *)
(* carry an id, which no operation sees; it is there for the properties.   *)
(***************************************************************************)
EXTENDS Integers, SequencesExt

CONSTANT Cores     \* what texts are made of

-----------------------------------------------------------------------------
(* Values.                                                                 *)

Null == [is |-> "null"]
Number(n) == [is |-> "number", n |-> n]
Date(n) == [is |-> "date", n |-> n]
Flag(b) == [is |-> "boolean", b |-> b]
(* sep is "none" (upi), "dots" (u.p.i), "space" (u p i), "spaces" (two of   *)
(* them) or "spread" (u . p . i).                                          *)
Text(core, letters, sep, pad) ==
  [is |-> "text", core |-> core, letters |-> letters, sep |-> sep, pad |-> pad]

Word == "upi"
NumberOf == [core \in {"0", "2"} |-> IF core = "0" THEN 0 ELSE 2]
DateOf == [core \in {"2026-01-01", "2030-01-01", "01/02/26"} |->
  CASE core = "2026-01-01" -> 1 [] core = "01/02/26" -> 2 [] core = "2030-01-01" -> 3]

Types == {"text", "number", "date", "boolean"}
Cells == {Null, Flag(TRUE), Flag(FALSE)} \union [is : {"number", "date"}, n : Int]
         \union [is : {"text"}, core : Cores, letters : {"lower", "upper", "capitalize"},
                 sep : {"none", "dots", "space", "spaces", "spread"}, pad : BOOLEAN]

(* What is left of a core without its special characters.                  *)
Stripped(core) ==
  CASE core \in {"-", "#"} -> ""
    [] core = "N/A" -> "NA"
    [] core = "2026-01-01" -> "20260101"
    [] core = "2030-01-01" -> "20300101"
    [] core = "01/02/26" -> "010226"
    [] OTHER -> core

ASSUME CoreAssumption == \A core \in Cores : Stripped(core) \in Cores

-----------------------------------------------------------------------------
(* Tables.                                                                 *)

Names(tab) == DOMAIN tab.type
Value(tab, i, c) == tab.rows[i].val[c]
NonNulls(tab, c) == {i \in DOMAIN tab.rows : Value(tab, i, c) # Null}
Distinct(tab, c) == {Value(tab, i, c) : i \in NonNulls(tab, c)}

IsOf(tab, c, types) == c \in Names(tab) /\ tab.type[c] \in types

(* A value in each column of each row, of the column's type or null, and   *)
(* no row twice.                                                           *)
IsTable(tab) ==
  /\ tab \in [type : [Names(tab) -> Types],
             rows : Seq([id : Nat, val : [Names(tab) -> Cells]])]
  /\ \A i \in DOMAIN tab.rows : \A c \in Names(tab) :
       Value(tab, i, c).is \in {"null", tab.type[c]}
  /\ \A i, j \in DOMAIN tab.rows : tab.rows[i].id = tab.rows[j].id => i = j

Put(f, x, v) == [y \in DOMAIN f \union {x} |-> IF y = x THEN v ELSE f[y]]

(* A table in which column c, old or new, has the given type and values.   *)
WithColumn(tab, c, type, values) ==
  [type |-> Put(tab.type, c, type),
   rows |-> [i \in DOMAIN tab.rows |->
              [id |-> tab.rows[i].id, val |-> Put(tab.rows[i].val, c, values[i])]]]

Nth(S, i) == CHOOSE j \in S : Cardinality({k \in S : k < j}) = i - 1
Keep(tab, S) ==
  [tab EXCEPT !.rows = [i \in 1 .. Cardinality(S) |-> tab.rows[Nth(S, i)]]]

AnyOrder(tab, rows) == {[tab EXCEPT !.rows = s] : s \in SetToSeqs(rows)}

-----------------------------------------------------------------------------
(* Rows.                                                                   *)

Dedupe(tab) ==
  AnyOrder(tab, {tab.rows[i] : i \in
    {i \in DOMAIN tab.rows : \A j \in 1 .. i - 1 :
       tab.rows[j].val # tab.rows[i].val}})

DropNull(tab, c) ==
  IF c \notin Names(tab) THEN {} ELSE {Keep(tab, NonNulls(tab, c))}

(* One row per key; of every other column some value that is not null.     *)
DedupeSubset(tab, keys) ==
  LET Same(i) == {j \in DOMAIN tab.rows : \A c \in keys :
                    Value(tab, j, c) = Value(tab, i, c)}
      first == {i \in DOMAIN tab.rows : \A j \in Same(i) : i <= j}
      Some(i, c) == IF c \in keys THEN {Value(tab, i, c)}
                    ELSE IF Same(i) \cap NonNulls(tab, c) = {} THEN {Null}
                    ELSE {Value(tab, j, c) : j \in Same(i) \cap NonNulls(tab, c)}
      all == {Null} \union UNION {Distinct(tab, c) : c \in Names(tab)}
      Merged(i) == {[id |-> tab.rows[i].id, val |-> v] :
                     v \in {v \in [Names(tab) -> all] :
                              \A c \in Names(tab) : v[c] \in Some(i, c)}}
  IN IF keys = {} \/ ~ keys \subseteq Names(tab) THEN {}
     ELSE UNION {AnyOrder(tab, {m[i] : i \in first}) :
                  m \in {m \in [first -> UNION {Merged(i) : i \in first}] :
                           \A i \in first : m[i] \in Merged(i)}}

(* filter_rows with the predicate c >= 0: a row for which it is NULL is    *)
(* neither kept nor removed by its negation.                               *)
FilterRows(tab, c, action) ==
  IF ~ IsOf(tab, c, {"number"}) THEN {}
  ELSE {Keep(tab, {i \in NonNulls(tab, c) :
                     (Value(tab, i, c).n >= 0) = (action = "keep")})}

-----------------------------------------------------------------------------
(* Columns.                                                                *)

(* The most frequent values that are not null.                             *)
Modes(tab, c) ==
  LET Count(x) == Cardinality({i \in NonNulls(tab, c) : Value(tab, i, c) = x})
  IN {x \in Distinct(tab, c) : \A y \in Distinct(tab, c) : Count(x) >= Count(y)}

(* The mean and the median are some number between the least and the       *)
(* largest.                                                                *)
Fills(tab, c, strategy) ==
  LET numbers == {x.n : x \in Distinct(tab, c)}
  IN IF strategy = "mode" THEN IF Modes(tab, c) = {} THEN {Null} ELSE Modes(tab, c)
     ELSE IF tab.type[c] # "number" THEN {}
     ELSE IF strategy = "zero" THEN {Number(0)}
     ELSE IF numbers = {} THEN {Null}
     ELSE {Number(n) : n \in Min(numbers) .. Max(numbers)}

ImputeNull(tab, c, strategy) ==
  IF c \notin Names(tab) THEN {}
  ELSE UNION {LET filled == WithColumn(tab, c, tab.type[c],
                    [i \in DOMAIN tab.rows |->
                       IF i \in NonNulls(tab, c) THEN Value(tab, i, c) ELSE fill])
              IN IF strategy = "zero" THEN {filled}
                 ELSE AnyOrder(filled, ToSet(filled.rows)) :
              fill \in Fills(tab, c, strategy)}

(* What a value becomes: {} if it cannot be parsed.                        *)
Parsed(v, type) ==
  IF v.is = type THEN {v}
  ELSE IF v.is # "text" \/ v.sep # "none" THEN {}
  ELSE IF type = "number" /\ v.core \in DOMAIN NumberOf
       THEN {Number(NumberOf[v.core])}
  ELSE IF type = "date" /\ v.core \in DOMAIN DateOf THEN {Date(DateOf[v.core])}
  ELSE {}

(* (Variant: a coercing cast leaves alone what it cannot parse.)           *)
CastLeaves(tab, c, type, coerce) ==
  IF ~ IsOf(tab, c, {"text", type}) THEN {}
  ELSE IF ~ coerce /\ \E i \in NonNulls(tab, c) : Parsed(Value(tab, i, c), type) = {}
  THEN {}
  ELSE {WithColumn(tab, c, type, [i \in DOMAIN tab.rows |->
          IF i \notin NonNulls(tab, c) \/ Parsed(Value(tab, i, c), type) = {}
          THEN Value(tab, i, c) ELSE CHOOSE v \in Parsed(Value(tab, i, c), type) : TRUE])}

(* A text column, or one that has the type already; a strict cast fails on *)
(* the first value that cannot be parsed, a coercing one makes it null.    *)
Cast(tab, c, type, coerce) ==
  IF ~ IsOf(tab, c, {"text", type}) THEN {}
  ELSE IF ~ coerce /\ \E i \in NonNulls(tab, c) : Parsed(Value(tab, i, c), type) = {}
  THEN {}
  ELSE {WithColumn(tab, c, type, [i \in DOMAIN tab.rows |->
          IF i \notin NonNulls(tab, c) \/ Parsed(Value(tab, i, c), type) = {}
          THEN Null ELSE CHOOSE v \in Parsed(Value(tab, i, c), type) : TRUE])}

DropColumn(tab, c) ==
  IF c \notin Names(tab) \/ Names(tab) = {c} THEN {}
  ELSE LET rest == Names(tab) \ {c}
       IN {[type |-> Restrict(tab.type, rest),
            rows |-> [i \in DOMAIN tab.rows |->
              [id |-> tab.rows[i].id, val |-> Restrict(tab.rows[i].val, rest)]]]}

RenameColumn(tab, c, new) ==
  IF c \notin Names(tab) \/ new \in Names(tab) THEN {}
  ELSE LET Old(d) == IF d = new THEN c ELSE d
           names == (Names(tab) \ {c}) \union {new}
       IN {[type |-> [d \in names |-> tab.type[Old(d)]],
            rows |-> [i \in DOMAIN tab.rows |->
              [id |-> tab.rows[i].id,
               val |-> [d \in names |-> tab.rows[i].val[Old(d)]]]]]}

-----------------------------------------------------------------------------
(* string_normalize, in the order of its steps.                            *)

Trim(t) == [t EXCEPT !.pad = FALSE]
Cased(t, case) == [t EXCEPT !.letters = IF t.core = Word THEN case ELSE @]
StripSpecial(t) ==
  [t EXCEPT !.core = Stripped(@),
            !.sep = CASE @ = "dots" -> "none"
                      [] @ = "spread" -> "spaces"
                      [] OTHER -> @]
Collapse(t) == Trim([t EXCEPT !.sep = IF @ = "spaces" THEN "space" ELSE @])

(* (Variant: whitespace is collapsed before the punctuation is dropped.)   *)
NormalizedSpacesFirst(t, o) ==
  LET trimmed == IF o.trim THEN Trim(t) ELSE t
      cased == IF o.case = "" THEN trimmed ELSE Cased(trimmed, o.case)
      spaced == IF o.collapse_whitespace THEN Collapse(cased) ELSE cased
      bare == IF o.strip_special THEN StripSpecial(spaced) ELSE spaced
  IN IF bare = o.null_token THEN Null ELSE bare

Normalized(t, o) ==
  LET trimmed == IF o.trim THEN Trim(t) ELSE t
      cased == IF o.case = "" THEN trimmed ELSE Cased(trimmed, o.case)
      bare == IF o.strip_special THEN StripSpecial(cased) ELSE cased
      spaced == IF o.collapse_whitespace THEN Collapse(bare) ELSE bare
  IN IF spaced = o.null_token THEN Null ELSE spaced

StringNormalize(tab, o) ==
  IF ~ IsOf(tab, o.column, {"text"}) THEN {}
  ELSE {WithColumn(tab, o.column, "text", [i \in DOMAIN tab.rows |->
          IF i \in NonNulls(tab, o.column) THEN Normalized(Value(tab, i, o.column), o)
          ELSE Null])}

-----------------------------------------------------------------------------
(* Operations on numbers, and those that add a column.                     *)

AbsoluteValue(tab, c) ==
  IF ~ IsOf(tab, c, {"number"}) THEN {}
  ELSE {WithColumn(tab, c, "number", [i \in DOMAIN tab.rows |->
          LET v == Value(tab, i, c)
          IN IF v # Null /\ v.n < 0 THEN Number(- v.n) ELSE v])}

(* A new column, which must not exist, made from the values of another.    *)
Derived(tab, c, from, new, type, image) ==
  IF ~ IsOf(tab, c, from) \/ new \in Names(tab) THEN {}
  ELSE {WithColumn(tab, new, type, [i \in DOMAIN tab.rows |->
          IF i \in NonNulls(tab, c) THEN image[Value(tab, i, c)] ELSE Null])}

(* The part of a text before its first dot.                                *)
SplitColumn(tab, c, new) ==
  Derived(tab, c, {"text"}, new, "text", [t \in Distinct(tab, c) |->
    [t EXCEPT !.sep = IF @ \in {"dots", "spread"} THEN "none" ELSE @]])

DateExtract(tab, c, new) ==
  Derived(tab, c, {"date"}, new, "number", [d \in Distinct(tab, c) |-> Number(d.n)])

CalculatedColumn(tab, c, new) ==
  Derived(tab, c, Types, new, tab.type[c], [v \in Distinct(tab, c) |-> v])

(* The bin of a number among bins of equal width between two others; the   *)
(* largest number would lie beyond the last.                               *)
Bin(n, lo, hi, bins) == Min({Max({0, ((n - lo) * bins) \div (hi - lo)}), bins - 1})

(* Of a column with a single number the library decides.                   *)
BinColumn(tab, c, new, bins) ==
  LET numbers == {v.n : v \in Distinct(tab, c)}
      lo == Min(numbers)
      hi == Max(numbers)
  IN UNION {AnyOrder(t, ToSet(t.rows)) : t \in UNION {
       Derived(tab, c, {"number"}, new, "number", [v \in Distinct(tab, c) |->
         IF lo = hi THEN single ELSE Number(Bin(v.n, lo, hi, bins))]) :
       single \in {Null} \union {Number(i) : i \in 0 .. bins}}}

(* More than threshold standard deviations from the mean, as a rational.   *)
IsOutlier(tab, c, threshold, m) ==
  LET S == NonNulls(tab, c)
      n == Cardinality(S)
      mean == MapThenSumSet(LAMBDA i : Value(tab, i, c).n, S)
      Squared(x) == (n * x - mean) * (n * x - mean)
      all == MapThenSumSet(LAMBDA i : Squared(Value(tab, i, c).n), S)
  IN Squared(m) * (n - 1) > threshold * threshold * all

(* Of a single number there is no deviation.                               *)
FlagOutliers(tab, c, new, threshold) ==
  UNION {AnyOrder(t, ToSet(t.rows)) : t \in
    Derived(tab, c, {"number"}, new, "boolean", [v \in Distinct(tab, c) |->
      IF Cardinality(NonNulls(tab, c)) = 1 THEN Null
      ELSE IF IsOutlier(tab, c, threshold, v.n) THEN Flag(TRUE) ELSE Flag(FALSE)])}

-----------------------------------------------------------------------------
(* Operations over rowid, the position of a row, counted from 0.           *)

FillDown(tab, c, direction) ==
  LET From(i) == {j \in NonNulls(tab, c) : IF direction = "down" THEN j <= i ELSE j >= i}
      Nearest(i) == IF direction = "down" THEN Max(From(i)) ELSE Min(From(i))
      filled == WithColumn(tab, c, tab.type[c], [i \in DOMAIN tab.rows |->
                  IF From(i) = {} THEN Null ELSE Value(tab, Nearest(i), c)])
  IN IF c \notin Names(tab) THEN {} ELSE AnyOrder(filled, ToSet(filled.rows))

(* ORDER BY rowid keeps every row where it was.                            *)
UpdateCell(tab, c, rowid, value) ==
  IF c \notin Names(tab) \/ rowid < 0 THEN {}
  ELSE LET lit == IF value = Null THEN {Null} ELSE Parsed(value, tab.type[c])
       IN {WithColumn(tab, c, tab.type[c], [i \in DOMAIN tab.rows |->
             IF i = rowid + 1 THEN v ELSE Value(tab, i, c)]) : v \in lit}

-----------------------------------------------------------------------------

Selected(tab, o) ==
  CASE o.op = "dedupe" -> Dedupe(tab)
    [] o.op = "drop_null" -> DropNull(tab, o.column)
    [] o.op = "impute_null" -> ImputeNull(tab, o.column, o.strategy)
    [] o.op = "cast" -> Cast(tab, o.column, o.new_type, o.coerce)
    [] o.op = "drop_column" -> DropColumn(tab, o.column)
    [] o.op = "rename_column" -> RenameColumn(tab, o.column, o.new_name)
    [] o.op = "dedupe_subset" -> DedupeSubset(tab, o.columns)
    [] o.op = "string_normalize" -> StringNormalize(tab, o)
    [] o.op = "split_column" -> SplitColumn(tab, o.column, o.new_column_name)
    [] o.op = "date_extract" -> DateExtract(tab, o.column, o.new_column_name)
    [] o.op = "bin_column" -> BinColumn(tab, o.column, o.new_column_name, o.bins)
    [] o.op = "flag_outliers" ->
         FlagOutliers(tab, o.column, o.new_column_name, o.threshold)
    [] o.op = "absolute_value" -> AbsoluteValue(tab, o.column)
    [] o.op = "calculated_column" -> CalculatedColumn(tab, o.column, o.new_column_name)
    [] o.op = "filter_rows" -> FilterRows(tab, o.column, o.action)
    [] o.op = "fill_down" -> FillDown(tab, o.column, o.direction)
    [] o.op = "update_cell" -> UpdateCell(tab, o.column, o.rowid, o.value)

(* What the request models admit.                                          *)
IsOperation(o) ==
  \/ o.op \in {"dedupe", "drop_null", "impute_null", "drop_column", "rename_column",
              "dedupe_subset", "split_column", "date_extract", "flag_outliers",
              "absolute_value", "calculated_column", "filter_rows", "fill_down"}
  \/ o.op = "cast" /\ o.new_type \in Types /\ o.coerce \in BOOLEAN
  \/ o.op = "string_normalize" /\ o.case \in {"", "lower", "upper", "capitalize"}
  \/ o.op = "bin_column" /\ o.bins \in Nat \ {0}
  \/ o.op = "update_cell" /\ o.rowid \in Int /\ o.value \in Cells

(* Through these every row keeps its rowid.                                *)
KeepsRows(o) ==
  \/ o.op \in {"cast", "drop_column", "rename_column", "string_normalize",
               "split_column", "date_extract", "absolute_value",
               "calculated_column", "update_cell"}
  \/ o.op = "impute_null" /\ o.strategy = "zero"

=============================================================================
