------------------------------ MODULE TableReads -------------------------------
(***************************************************************************)
(* What a user reads of a table, while requests change it: the window of   *)
(* the grid (routers/query.py), the quality scan, a column's profile, a    *)
(* chart and the dry run of a transform (services/).  Each awaits several  *)
(* statements and takes no lock: a transform may come between any two.     *)
(* The user then applies an offered fix, or edits a cell of the window.    *)
(***************************************************************************)
EXTENDS QualityScan

CONSTANTS Tables,        \* the tables the user may start from
          Ops,           \* the transforms other requests apply
          Previews,      \* those the user tries out
          Windows,       \* of the grid: [sort, offset, limit]
          CellValues,    \* what an edit writes
          Limit,         \* keys, and series, of a chart
          HistBins, TopN,
          MaxChanges,    \* bound: transforms of other requests
          MaxEdits       \* bound: edits of cells

ASSUME TableAssumption == \A tab \in Tables : IsTable(tab)
ASSUME OperationAssumption == \A o \in Ops \union Previews : IsOperation(o)
ASSUME ValueAssumption == CellValues \subseteq Cells
ASSUME ChartAssumption == Limit \in Nat \ {0} /\ HistBins \in Nat \ {0} /\ TopN \in Nat \ {0}
ASSUME BoundAssumption == MaxChanges \in Nat /\ MaxEdits \in Nat

VARIABLES table,      \* the rows in DuckDB
          reader,     \* the request that reads, and what it read
          changes,    \* how many transforms came since
          edits,      \* how many cells the user edited
          calm        \* all the transforms kept the rows where they were

vars == <<table, reader, changes, edits, calm>>

-----------------------------------------------------------------------------
(* The requests and their statements; one is followed in a behaviour.  The *)
(* dry run's DESCRIBE and its sample read what "after" counts.             *)

Reading(kind, arg, todo) ==
  [kind |-> kind, arg |-> arg, todo |-> todo, seen |-> <<>>, picked |-> <<>>]

Idle == Reading("none", <<>>, {})
Over == Reading("over", <<>>, {})

(* The order in which a request takes its statements.                      *)
Turn == [schema |-> 1, counts |-> 2, total |-> 3, stats |-> 4, keys |-> 5, before |-> 6,
         strings |-> 7, window |-> 8, series |-> 9, after |-> 10, rows |-> 11,
         ranges |-> 12, bins |-> 13, values |-> 14, matrix |-> 15, coerced |-> 16]

Requests(tab) ==
  {Reading("scan", <<>>, ScanStatements)}
  \union {Reading("grid", w, {"schema", "total", "window"}) : w \in Windows}
  \union {Reading("profile", c, {"schema", "stats", "bins", "values"}) : c \in Names(tab)}
  \union {Reading("chart", [x \in {"keys"} |-> c], {"schema", "keys"}) : c \in Names(tab)}
  \union {Reading("chart", by, {"schema", "keys", "series", "matrix"}) :
            by \in {f \in [{"keys", "series"} -> Names(tab)] : f["keys"] # f["series"]}}
  \union {Reading("preview", o, {"schema", "before", "after", "coerced"}) :
            o \in Previews}

Numbers(tab, c) == {v.n : v \in Distinct(tab, c)}

(* The statements that what was seen makes pointless: a histogram of a     *)
(* column that is not numeric, or of one number; most frequent values of a *)
(* numeric one; a matrix without keys; the nulls of any but a coercing     *)
(* cast.                                                                   *)
Skips(r) ==
  CASE r.kind = "scan" -> ScanSkips(r.seen)
    [] r.kind = "profile" ->
         LET numeric == r.seen["schema"].type[r.arg] = "number"
             none == "stats" \in DOMAIN r.seen /\ Distinct(r.seen["stats"], r.arg) = {}
             one == numeric /\ "stats" \in DOMAIN r.seen
                    /\ Cardinality(Numbers(r.seen["stats"], r.arg)) = 1
         IN (IF numeric THEN {"values"} ELSE {"bins"})
            \union (IF one \/ none THEN {"bins"} ELSE {})
            \union (IF none THEN {"values"} ELSE {})
    [] r.kind = "chart" ->
         IF \E s \in DOMAIN r.picked : r.picked[s] = {} THEN {"matrix"} ELSE {}
    [] r.kind = "preview" ->
         IF r.arg.op = "cast" /\ r.arg.coerce THEN {} ELSE {"coerced"}
    [] OTHER -> {}

-----------------------------------------------------------------------------
(* The window of the grid.                                                 *)

(* ORDER BY the sort column, nulls last, then rowid.                       *)
Precedes(tab, sort, i, j) ==
  IF sort = <<>> THEN i < j
  ELSE LET x == Value(tab, i, sort[1])
           y == Value(tab, j, sort[1])
       IN IF x = y THEN i < j
          ELSE IF x = Null \/ y = Null THEN y = Null
          ELSE IF sort[2] = "DESC" THEN x.n > y.n ELSE x.n < y.n

(* How many rows come before row i, and the rows from offset on.           *)
Rank(tab, sort, i) == Cardinality({j \in DOMAIN tab.rows : Precedes(tab, sort, j, i)})

InWindow(r) ==
  {i \in DOMAIN r.seen["window"].rows :
     Rank(r.seen["window"], r.arg.sort, i) \in r.arg.offset .. r.arg.offset + r.arg.limit - 1}

(* (Variant: a row's place in the order passes for its rowid.)             *)
PagePlaces(r) ==
  {[rowid |-> Rank(r.seen["window"], r.arg.sort, i), id |-> r.seen["window"].rows[i].id] :
     i \in InWindow(r)}

(* What the client is shown: rowid and row ride in the same answer.        *)
Page(r) ==
  {[rowid |-> i - 1, id |-> r.seen["window"].rows[i].id] : i \in InWindow(r)}

-----------------------------------------------------------------------------
(* A chart of the number of rows by two columns.                           *)

Values(tab, c) == {Value(tab, i, c) : i \in DOMAIN tab.rows}
Count(tab, Test(_)) == Cardinality({i \in DOMAIN tab.rows : Test(i)})
Rows(tab, c, x) == Count(tab, LAMBDA i : Value(tab, i, c) = x)

(* ORDER BY and LIMIT: the first of S, whatever the order of equals.       *)
Largest(S, max, First(_, _)) ==
  {V \in SUBSET S : /\ Cardinality(V) = Min({max, Cardinality(S)})
                    /\ \A x \in V, y \in S \ V : First(x, y)}

(* GROUP BY, the largest first; a chart over time has its keys in order.   *)
TopKeys(tab, c, inTime) ==
  LET Sooner(x, y) == y = Null \/ (x # Null /\ x.n < y.n)
  IN Largest(Values(tab, c), Limit, LAMBDA x, y :
       IF inTime /\ tab.type[c] = "date" THEN Sooner(x, y) ELSE Rows(tab, c, x) >= Rows(tab, c, y))

(* (Variant: NULL is not matched by IN.)                                   *)
IsInNoNull(x, keys) == x # Null /\ x \in keys

IsIn(x, keys) == x \in keys

(* The bars of a chart of one column, from the statement of the keys.      *)
Bars(r) ==
  [k \in r.picked["keys"] |->
    Rows(r.seen["keys"], r.arg["keys"], k)]

Matrix(r) ==
  LET tab == r.seen["matrix"]
      Key(i) == Value(tab, i, r.arg["keys"])
      Series(i) == Value(tab, i, r.arg["series"])
  IN [cell \in r.picked["keys"] \X r.picked["series"] |->
       Count(tab, LAMBDA i : /\ IsIn(Key(i), r.picked["keys"])
                             /\ IsIn(Series(i), r.picked["series"])
                             /\ <<Key(i), Series(i)>> = cell)]

(* A full page is taken to mean that there is more.                        *)
Truncated(r) == \E s \in DOMAIN r.picked : Cardinality(r.picked[s]) >= Limit

-----------------------------------------------------------------------------
(* The profile of a column.                                                *)

(* Bounds from one statement, rows from a later one.                       *)
Histogram(r) ==
  LET numbers == Numbers(r.seen["stats"], r.arg)
      tab == r.seen["bins"]
  IN [b \in 0 .. HistBins - 1 |->
       Holding(tab, r.arg, LAMBDA v : Bin(v.n, Min(numbers), Max(numbers), HistBins) = b)]

(* The most frequent values, and how often they occur.                     *)
TopValues(r) ==
  LET tab == r.seen["values"]
  IN Largest(Distinct(tab, r.arg), TopN, LAMBDA x, y :
       Rows(tab, r.arg, x) >= Rows(tab, r.arg, y))

(* The dry run of a transform: the rows it leaves, the values it makes null. *)
RowsAfter(r) == {Len(t.rows) : t \in Selected(r.seen["after"], r.arg)}
Coerced(r) ==
  LET tab == r.seen["coerced"]
  IN Cardinality(NonNulls(tab, r.arg.column)) - Parses(tab, r.arg.column, r.arg.new_type)

-----------------------------------------------------------------------------
(* The columns a request asks about, which must be in the schema.          *)
Asked(r) ==
  CASE r.kind = "grid" -> IF r.arg.sort = <<>> THEN {} ELSE {r.arg.sort[1]}
    [] r.kind = "profile" -> {r.arg}
    [] r.kind = "chart" -> {r.arg[x] : x \in DOMAIN r.arg}
    [] OTHER -> {}

(* The columns a statement names.  One built from all columns of the       *)
(* schema fails when one is gone; SELECT * takes what it finds.            *)
Mentions(r, s) ==
  IF s = "schema" THEN Asked(r)
  ELSE IF \/ s \in {"total", "rows", "before"}
          \/ r.kind = "preview" /\ r.arg.op \in {"dedupe", "filter_rows", "drop_null"}
  THEN {}
  ELSE IF r.kind \in {"scan", "preview"} THEN Names(r.seen["schema"])
  ELSE Asked(r)

(* The columns it computes with as the schema's types allow: texts are     *)
(* trimmed, numbers averaged, dates compared.                              *)
Uses(r, s) ==
  LET types == IF s = "strings" THEN {"text"}
               ELSE IF s = "ranges" THEN {"number", "date"}
               ELSE IF s \in {"stats", "bins"} THEN {"number"}
               ELSE {}
  IN {c \in Mentions(r, s) : types # {} /\ r.seen["schema"].type[c] \in types}

(* Can statement s be answered of table tab?                               *)
Answers(r, s, tab) ==
  /\ Mentions(r, s) \subseteq Names(tab)
  /\ \A c \in Uses(r, s) : tab.type[c] = r.seen["schema"].type[c]
  /\ r.kind = "preview" /\ s \notin {"before", "coerced"} => Selected(tab, r.arg) # {}

(* What a request has after statement s was answered of tab.               *)
Told(r, s, tab, picked) ==
  [kind |-> r.kind, arg |-> r.arg, todo |-> r.todo \ {s},
   seen |-> Put(r.seen, s, tab), picked |-> picked]

Pickings(r, s, tab) ==
  IF s \in {"keys", "series"}
  THEN {Put(r.picked, s, V) : V \in TopKeys(tab, r.arg[s], s = "keys")}
  ELSE {r.picked}

-----------------------------------------------------------------------------
Init ==
  /\ table \in Tables
  /\ reader = Idle
  /\ changes = 0
  /\ edits = 0
  /\ calm = TRUE

Ask ==
  /\ reader.kind = "none"
  /\ reader' \in Requests(table)
  /\ UNCHANGED <<table, changes, edits, calm>>

(* One statement, and what to leave out after it.                          *)
Read ==
  /\ \E s \in reader.todo :
       /\ \A x \in reader.todo : Turn[s] <= Turn[x]
       /\ Answers(reader, s, table)
       /\ \E picked \in Pickings(reader, s, table) :
            LET r == Told(reader, s, table, picked)
            IN reader' = [r EXCEPT !.todo = @ \ Skips(r)]
       /\ calm' = (calm \/ s = "window")
  /\ UNCHANGED <<table, changes, edits>>

(* A statement that fails, the table being gone for a moment or not what   *)
(* it was, ends the request.                                               *)
ReadError ==
  /\ reader.todo # {}
  /\ reader' = Over
  /\ UNCHANGED <<table, changes, edits, calm>>

(* Another request transforms the table, between two statements or while   *)
(* the user looks at the answer.                                           *)
Transform(o) ==
  /\ reader.kind \notin {"none", "over"}
  /\ changes < MaxChanges
  /\ table' \in Selected(table, o)
  /\ changes' = changes + 1
  /\ calm' = (calm /\ KeepsRows(o))
  /\ UNCHANGED <<reader, edits>>

Answered(kind) == reader.kind = kind /\ reader.todo = {}

Report == IF Answered("scan") THEN Findings(reader.seen) ELSE {}

(* The user takes o, which a finding of the report offers.                 *)
Fix(o) ==
  /\ reader' = Over
  /\ table' \in Selected(table, o)
  /\ UNCHANGED <<changes, edits, calm>>

Shown == IF Answered("grid") THEN Page(reader) ELSE {}

(* The user edits a cell of the window, which stays on the screen.         *)
Edit(e, c, value) ==
  /\ edits < MaxEdits
  /\ edits' = edits + 1
  /\ e \in Shown
  /\ c \in Names(reader.seen["schema"])
  /\ table' \in UpdateCell(table, c, e.rowid, value)
  /\ UNCHANGED <<reader, changes, calm>>

Next ==
  \/ Ask
  \/ Read
  \/ ReadError
  \/ \E o \in Ops : Transform(o)
  \/ \E f \in Report : \E o \in Sent(f, reader.seen) : Fix(o)
  \/ \E e \in Shown, c \in Names(table), value \in CellValues : Edit(e, c, value)

Spec == Init /\ [][Next]_vars

-----------------------------------------------------------------------------
(* Every operation yields a table again: a value in each column of each    *)
(* row, of the column's type or null, and no row twice.                    *)
TypeOK ==
  /\ IsTable(table)
  /\ reader.kind \in {"none", "over", "scan", "grid", "profile", "chart", "preview"}
  /\ changes \in 0 .. MaxChanges
  /\ edits \in 0 .. MaxEdits
  /\ calm \in BOOLEAN

(* Does o do what finding f asks for?  A fix that comes filled in does.  Of *)
(* the two that do not, spaces go by trimming or collapsing them, and      *)
(* placeholders by a token, which must be the only one that is there; what *)
(* is left of a text without its special characters may be blank.          *)
Addresses(f, o) ==
  CASE f.code = "whitespace" -> o.trim \/ o.collapse_whitespace
    [] f.code = "hidden_null" ->
         /\ ~ o.strip_special /\ IsOf(table, f.column, {"text"})
         /\ \A t \in Distinct(table, f.column) :
              IsPlaceholder(t) => Normalized(t, o) = Null
    [] OTHER -> TRUE

Reported(f, tab) ==
  \E g \in Findings(SteadyScan(tab)) : <<g.code, g.column>> = <<f.code, f.column>>

(* An offered fix, taken however late and of whatever the table has become *)
(* since the scan, rids it of its finding: when the next scan reports it   *)
(* of that column again, the fix was not one that addresses it.            *)
FixClears ==
  [][\A f \in Report : Reported(f, table') =>
       ~ \E o \in Sent(f, reader.seen) : Addresses(f, o) /\ Fix(o)]_vars

(* An edit changes no other row than the one the user edited, as long as   *)
(* no request moved rows since the window was read; nor does it move any,  *)
(* so that the next edit is as safe.                                       *)
EditHitsItsRow ==
  [][\A e \in Shown, c \in Names(table), value \in CellValues :
       Edit(e, c, value) /\ calm =>
         /\ DOMAIN table'.rows = DOMAIN table.rows
         /\ \A i \in DOMAIN table.rows :
              /\ table'.rows[i].id = table.rows[i].id
              /\ table'.rows[i].id # e.id => table'.rows[i] = table.rows[i]]_vars

Steady(kind) ==
  Answered(kind) /\ \A s \in DOMAIN reader.seen : reader.seen[s] = reader.seen["schema"]

(* The sum of the counts that h gives.                                     *)
Total(h) == Cardinality(UNION {{x} \X (1 .. h[x]) : x \in DOMAIN h})

(* The bins of a histogram hold every number of the column, even when the  *)
(* numbers changed after the bounds were computed.                         *)
HistogramSumsUp ==
  Answered("profile") /\ "bins" \in DOMAIN reader.seen =>
    Total(Histogram(reader)) = Cardinality(NonNulls(reader.seen["bins"], reader.arg))

(* The most frequent values are all there are exactly when the profile     *)
(* counts no more distinct ones, if nothing comes between.                 *)
TopValuesFit ==
  Steady("profile") /\ "values" \in DOMAIN reader.seen =>
    LET stats == reader.seen["stats"]
        all == Cardinality(NonNulls(stats, reader.arg))
    IN \A V \in TopValues(reader) :
         LET shown == Total([x \in V |-> Rows(reader.seen["values"], reader.arg, x)])
         IN shown <= all /\ (shown = all <=> Cardinality(Distinct(stats, reader.arg)) <= TopN)

(* A chart that is not truncated accounts for every row, those with a null *)
(* in a key included; of two columns, when all passes met the same table.  *)
ChartSumsUp ==
  Answered("chart") /\ ~ Truncated(reader) =>
    IF "series" \notin DOMAIN reader.arg
    THEN Total(Bars(reader)) = Len(reader.seen["keys"].rows)
    ELSE Steady("chart") /\ "matrix" \in DOMAIN reader.seen =>
           Total(Matrix(reader)) = Len(reader.seen["matrix"].rows)

(* The dry run of a transform says how many rows it leaves, and how many   *)
(* values a coercing cast makes null, if nothing comes between.            *)
PreviewKeepsItsWord ==
  Steady("preview") /\ table = reader.seen["schema"] =>
    LET o == reader.arg
        Nulls(tab) == Len(tab.rows) - Cardinality(NonNulls(tab, o.column))
    IN \A t \in Selected(table, o) :
         /\ RowsAfter(reader) = {Len(t.rows)}
         /\ "coerced" \in DOMAIN reader.seen => Nulls(t) - Nulls(table) = Coerced(reader)

(* What a reader is told of a table is true of it.                         *)
AnswersAreTrue ==
  HistogramSumsUp /\ TopValuesFit /\ ChartSumsUp /\ PreviewKeepsItsWord

=============================================================================
