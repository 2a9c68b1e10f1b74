------------------------------ MODULE QualityScan ------------------------------
(***************************************************************************)
(* The findings of assess_table (services/quality_service.py), and what    *)
(* each of them offers to do about it.  The scan awaits up to four         *)
(* statements; s[x] is the table as statement x met it: "schema" the       *)
(* columns, "counts" query A, "strings" query B, "rows" query C, "ranges"  *)
(* query D.  A statement that was not needed is not in the domain of s.    *)
(*                                                                         *)
(* Shares are in percent; the code's are 20, 95, 10, 10 and 60.            *)
(***************************************************************************)
EXTENDS TableOps

CONSTANTS NullWarn, CastConfident, MixedLo, DateShapeMin, DateishMin,
          CategoricalMax,
          DialogCases,      \* the letter cases a user may ask for, "" for none
          Today             \* later dates lie in the future

ASSUME DialogAssumption == DialogCases \subseteq {"", "lower", "upper", "capitalize"}

Sentinels == {"-", "N/A", "NA"}
IsPlaceholder(t) == t.core \in Sentinels \union {""}

Share(count, of, percent) == 100 * count >= percent * of

-----------------------------------------------------------------------------
(* The aggregates, one column of one statement's answer each.              *)

Folded(t) == Cased(Trim(t), "lower")

(* What the one-tap normalization is to make of a value.                   *)
Canonical(t) == Collapse(StripSpecial(Folded(t)))

Images(tab, c, Of(_)) == {Of(x) : x \in Distinct(tab, c)}
Holding(tab, c, Test(_)) == Cardinality({i \in NonNulls(tab, c) : Test(Value(tab, i, c))})

Parses(tab, c, type) == Holding(tab, c, LAMBDA t : Parsed(t, type) # {})
Untrimmed(tab, c) == Holding(tab, c, LAMBDA t : t # Trim(t))
Placeholders(tab, c) == Holding(tab, c, IsPlaceholder)
IsoDates(tab, c) ==
  Holding(tab, c, LAMBDA t : ~ t.pad /\ t.core \in {"2026-01-01", "2030-01-01"})
SlashDates(tab, c) == Holding(tab, c, LAMBDA t : ~ t.pad /\ t.core = "01/02/26")

DistinctRows(tab) == Cardinality({tab.rows[i].val : i \in DOMAIN tab.rows})

(* max(0, total - distinct): the two come from different statements.       *)
Duplicates(s) ==
  IF "rows" \notin DOMAIN s THEN 0
  ELSE LET d == Len(s["counts"].rows) - DistinctRows(s["rows"])
       IN IF d > 0 THEN d ELSE 0

-----------------------------------------------------------------------------
(* What a finding offers: one operation for each button, its parameters    *)
(* filled in.  An operation without them opens an empty dialog.            *)

Rewrite(c, trim, case, special, spaces) ==
  [op |-> "string_normalize", column |-> c, trim |-> trim, case |-> case,
   strip_special |-> special, collapse_whitespace |-> spaces, null_token |-> Null]

AskUser(op, c) == [op |-> op, column |-> c]

CastTo(c, type, coerce) ==
  [op |-> "cast", column |-> c, new_type |-> type, coerce |-> coerce]

Finding(code, c, fixes) == [code |-> code, column |-> c, fixes |-> fixes]

(* At most one of the structural findings.                                 *)
Structural(s, c) ==
  LET tab == s["counts"]
      total == Len(tab.rows)
      nn == Cardinality(NonNulls(tab, c))
      drop == {[op |-> "drop_column", column |-> c]}
      fill == {AskUser("impute_null", c)}
  IN IF total > 0 /\ nn = 0 THEN {Finding("empty_column", c, drop)}
     ELSE IF nn > 0 /\ Cardinality(Distinct(tab, c)) <= 1
     THEN {Finding("constant", c, drop)}
     ELSE IF nn < total
     THEN {Finding(IF Share(total - nn, total, NullWarn) THEN "high_null"
                   ELSE "partial_null", c, fill)}
     ELSE {}

(* At most one of the findings on the type of a text column; a mix of date *)
(* formats outranks dates stored as text, and offers nothing.              *)
Typed(s, c) ==
  LET tab == s["strings"]
      nn == Cardinality(NonNulls(s["counts"], c))
      numbers == Parses(tab, c, "number")
      dates == Parses(tab, c, "date")
      iso == IsoDates(tab, c)
      slash == SlashDates(tab, c)
  IN IF /\ Share(iso, nn, DateShapeMin)
        /\ Share(slash, nn, DateShapeMin)
        /\ Share(iso + slash, nn, DateishMin)
     THEN {Finding("mixed_date_format", c, {})}
     ELSE IF Share(dates, nn, CastConfident)
     THEN {Finding("text_as_date", c, {CastTo(c, "date", TRUE)})}
     ELSE IF Share(numbers, nn, CastConfident)
     THEN {Finding("text_as_number", c, {CastTo(c, "number", TRUE)})}
     ELSE IF Share(numbers, nn, MixedLo) \/ Share(dates, nn, MixedLo)
     THEN {Finding("mixed_values", c,
             {CastTo(c, IF dates >= numbers THEN "date" ELSE "number", TRUE)})}
     ELSE {}

(* How the values of a text column are written.  What to trim, and which   *)
(* placeholder to make null, is left to the user.                          *)
Written(s, c) ==
  LET tab == s["strings"]
      nd == Cardinality(Distinct(s["counts"], c))
      folded == Cardinality(Images(tab, c, Folded))
      canonical == Cardinality(Images(tab, c, Canonical))
      Category(n) == Typed(s, c) = {} /\ 1 < n /\ n <= CategoricalMax
  IN (IF Untrimmed(tab, c) > 0
      THEN {Finding("whitespace", c, {AskUser("string_normalize", c)})} ELSE {})
     \union
     (IF Placeholders(tab, c) > 0 THEN {Finding("hidden_null", c, {AskUser("string_normalize", c)})} ELSE {})
     \union
     (IF Category(nd) /\ folded < nd
      THEN {Finding("inconsistent_case", c, {Rewrite(c, TRUE, "lower", FALSE, FALSE)})} ELSE {})
     \union
     (IF Category(folded) /\ canonical < folded
      THEN {Finding("inconsistent_values", c, {Rewrite(c, FALSE, "lower", TRUE, TRUE)})} ELSE {})

(* Values out of range; a column of the schema that is a number or a date. *)
Invalid(s, c) ==
  (IF s["schema"].type[c] = "number" /\ Holding(s["ranges"], c, LAMBDA v : v.n < 0) > 0
   THEN {Finding("negative_values", c,
           {[op |-> "filter_rows", column |-> c, action |-> "keep"],
            [op |-> "absolute_value", column |-> c]})} ELSE {})
  \union
  (IF s["schema"].type[c] = "date" /\ Holding(s["ranges"], c, LAMBDA v : v.n > Today) > 0
   THEN {Finding("future_date", c, {})} ELSE {})

OfColumn(s, c) ==
  LET codes == {f.code : f \in Structural(s, c)}
      type == s["schema"].type[c]
  IN Structural(s, c)
     \union (IF /\ type = "text" /\ "strings" \in DOMAIN s
                /\ codes \cap {"empty_column", "constant"} = {}
                /\ NonNulls(s["counts"], c) # {}
             THEN Typed(s, c) \union Written(s, c) ELSE {})
     \union (IF type # "text" /\ "ranges" \in DOMAIN s /\ "empty_column" \notin codes
             THEN Invalid(s, c) ELSE {})

Repeated == Finding("duplicate_rows", "", {[op |-> "dedupe"]})

Findings(s) ==
  (UNION {OfColumn(s, c) : c \in Names(s["schema"])})
  \union (IF Duplicates(s) > 0 THEN {Repeated} ELSE {})

-----------------------------------------------------------------------------
(* The dialog that a fix opens, and what the user may send from it.        *)

(* A value to fill in of the user's own is left out.                       *)
Strategies == {"mean", "median", "mode", "zero"}

(* Any choice of normalizations but none; find and replace, and padding,   *)
(* are left out.  A token is the one exact text that becomes null; nothing *)
(* typed is no token.                                                      *)
Normalizations(tokens) ==
  {x \in [trim : BOOLEAN, case : DialogCases, strip_special : BOOLEAN,
          collapse_whitespace : BOOLEAN, null_token : tokens \union {Null}] :
     x.trim \/ x.case # "" \/ x.strip_special \/ x.collapse_whitespace \/ x.null_token # Null}

(* The placeholders the user sees in column c, typed as they are or        *)
(* without the spaces around.                                              *)
Tokens(tab, c) ==
  {t \in Distinct(tab, c) \union {Trim(x) : x \in Distinct(tab, c)} :
     IsPlaceholder(t) /\ (t.core # "" \/ t.pad)}

(* What the buttons of finding f of scan s may send.  (In a dialog that is *)
(* filled in the user may change everything; that is then no fix, but like *)
(* the operations that other requests bring.)                              *)
Sent(f, s) ==
  IF f.fixes = {AskUser("impute_null", f.column)}
  THEN {[op |-> "impute_null", column |-> f.column, strategy |-> x] : x \in Strategies}
  ELSE IF f.fixes = {AskUser("string_normalize", f.column)}
  THEN {[op |-> "string_normalize", column |-> f.column, trim |-> x.trim, case |-> x.case,
         strip_special |-> x.strip_special,
         collapse_whitespace |-> x.collapse_whitespace, null_token |-> x.null_token] :
          x \in Normalizations(Tokens(s["strings"], f.column))}
  ELSE f.fixes

(* A scan that no other request interrupts.                                *)
ScanStatements == {"schema", "counts", "strings", "rows", "ranges"}

(* The statements the scan has no use for, after what it saw: without rows *)
(* it needs none but the counts.                                           *)
ScanSkips(s) ==
  LET types == {s["schema"].type[c] : c \in Names(s["schema"])}
      empty == "counts" \in DOMAIN s /\ Len(s["counts"].rows) = 0
  IN (IF "text" \notin types \/ empty THEN {"strings"} ELSE {})
     \union (IF empty THEN {"rows"} ELSE {})
     \union (IF types \cap {"number", "date"} = {} \/ empty THEN {"ranges"} ELSE {})

SteadyScan(tab) ==
  LET all == [x \in {"schema", "counts"} |-> tab]
  IN [x \in ScanStatements \ ScanSkips(all) |-> tab]

=============================================================================
