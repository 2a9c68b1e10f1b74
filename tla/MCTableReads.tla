----------------------------- MODULE MCTableReads ------------------------------
(***************************************************************************)
(* Tables of up to three rows of a column k of one palette and a number v, *)
(* each palette with what the findings tell apart.                         *)
(***************************************************************************)
EXTENDS TableReads, TLC

MCCores == {"upi", "0", "2", "-", "N/A", "", "2026-01-01", "2030-01-01", "01/02/26",
            "NA", "#", "20260101", "20300101", "010226"}

Plain(core) == Text(core, "lower", "none", FALSE)
Upi(letters, sep) == Text(Word, letters, sep, FALSE)

Table(type, ks, vs) ==
  [type |-> ("k" :> type) @@ ("v" :> "number"),
   rows |-> [i \in DOMAIN ks |-> [id |-> i, val |-> ("k" :> ks[i]) @@ ("v" :> vs[i])]]]

AllRows(type, n, ks, vs) ==
  {Table(type, k, v) : k \in [1 .. n -> ks], v \in [1 .. n -> vs]}

Words == {Upi("lower", "none"), Upi("upper", "none"),
          Upi("lower", "space"), Upi("upper", "spread"),
          Text(Word, "lower", "none", TRUE), Null}
Mixed == {Plain("2"), Plain("2026-01-01"), Plain("01/02/26"), Plain("-"), Null}

(* Two placeholders, or one and a text without letters, and a word that    *)
(* keeps the column from becoming constant.                                *)
Missing ==
  {Table("text", <<x[1], x[2], Upi("lower", "none")>>, <<Number(2), Number(2), Number(2)>>) :
     x \in {<<Plain("-"), Plain("N/A")>>, <<Plain("-"), Plain("")>>, <<Plain("NA"), Plain("#")>>,
            <<Plain("NA"), Text("NA", "lower", "none", TRUE)>>}}

MCTables ==
  AllRows("text", 2, Words, {Number(2)})
  \union AllRows("text", 3, {Upi("lower", "none"), Null}, {Number(-1)})
  \union AllRows("text", 3, {Upi("lower", "none")}, {Number(-1), Null})
  \union AllRows("text", 2, Mixed, {Number(2)})
  \union Missing
  \union AllRows("date", 2, {Date(1), Date(3), Null}, {Number(-1), Number(2)})
  \union AllRows("text", 0, {}, {})

MCCases == {"", "lower"}

Normalize(trim, case, special, token) ==
  [op |-> "string_normalize", column |-> "k", trim |-> trim, case |-> case,
   strip_special |-> special, collapse_whitespace |-> FALSE, null_token |-> token]

MCPreviews ==
  {CastTo("k", "number", TRUE), CastTo("k", "date", TRUE), [op |-> "dedupe"],
   [op |-> "drop_null", column |-> "k"],
   [op |-> "filter_rows", column |-> "v", action |-> "remove"]}

MCOps ==
  MCPreviews \union
  {[op |-> "impute_null", column |-> "v", strategy |-> "mean"],
   [op |-> "dedupe_subset", columns |-> {"k"}],
   [op |-> "drop_column", column |-> "k"],
   [op |-> "rename_column", column |-> "k", new_name |-> "n"],
   Normalize(FALSE, "upper", TRUE, Null),
   Normalize(TRUE, "", FALSE, Plain("-")),
   [op |-> "split_column", column |-> "k", new_column_name |-> "n"],
   [op |-> "date_extract", column |-> "k", new_column_name |-> "n"],
   [op |-> "bin_column", column |-> "v", new_column_name |-> "n", bins |-> 2],
   [op |-> "flag_outliers", column |-> "v", new_column_name |-> "n", threshold |-> 1],
   [op |-> "absolute_value", column |-> "v"],
   [op |-> "calculated_column", column |-> "v", new_column_name |-> "n"],
   [op |-> "fill_down", column |-> "k", direction |-> "down"],
   [op |-> "fill_down", column |-> "v", direction |-> "up"],
   [op |-> "update_cell", column |-> "v", rowid |-> 1, value |-> Null]}

MCWindows ==
  {[sort |-> <<>>, offset |-> 1, limit |-> 2],
   [sort |-> <<"v", "DESC">>, offset |-> 0, limit |-> 2]}

MCCellValues == {Plain("2")}

=============================================================================
