---------------------------- MODULE TableReadsProofs ----------------------------
(***************************************************************************)
(* What holds of TableReads for all tables, operations, windows, limits    *)
(* and thresholds.  First what each operation leaves of a table, then how  *)
(* far a request can be (Progress) and where the rows of its window are    *)
(* (InPlace), then what its answers add up to, and last what each finding  *)
(* says of a table (Means) and how its fix contradicts it.                 *)
(***************************************************************************)
EXTENDS TableReads, FiniteSetTheorems, TLAPS

-----------------------------------------------------------------------------
(* Finite sets, sequences and sums.                                        *)

LEMMA FunctionIsSeq ==
  ASSUME NEW S, NEW n \in Nat, NEW f \in [1 .. n -> S]
  PROVE  f \in Seq(S) /\ Len(f) = n /\ DOMAIN f = 1 .. n
OBVIOUS

LEMMA SeqIsFunction ==
  ASSUME NEW S, NEW s \in Seq(S)
  PROVE  /\ Len(s) \in Nat /\ DOMAIN s = 1 .. Len(s) /\ \A i \in DOMAIN s : s[i] \in S
         /\ s \in [1 .. Len(s) -> S]
<1>1. Len(s) \in Nat /\ DOMAIN s = 1 .. Len(s) /\ s \in [1 .. Len(s) -> S]
  OBVIOUS
<1>2. ASSUME NEW i \in DOMAIN s PROVE s[i] \in S
  BY <1>1
<1> QED
  BY <1>1, <1>2

ImageOf(f, S) == {f[x] : x \in S}

LEMMA ImageSize ==
  ASSUME NEW S, IsFiniteSet(S), NEW f
  PROVE  /\ IsFiniteSet(ImageOf(f, S))
         /\ Cardinality(ImageOf(f, S)) \in Nat
         /\ Cardinality(S) \in Nat
         /\ Cardinality(ImageOf(f, S)) <= Cardinality(S)
         /\ Cardinality(ImageOf(f, S)) = Cardinality(S)
              <=> \A x, y \in S : f[x] = f[y] => x = y
<1> DEFINE T == ImageOf(f, S)
           g == [x \in S |-> f[x]]
<1>1. g \in Surjection(S, T)
  BY DEF Surjection, ImageOf
<1>2. g \in Injection(S, T) <=> \A x, y \in S : f[x] = f[y] => x = y
  BY <1>1 DEF Injection, IsInjective, Surjection
<1>3. /\ IsFiniteSet(T) /\ Cardinality(T) <= Cardinality(S)
      /\ Cardinality(T) = Cardinality(S) <=> g \in Injection(S, T)
  BY <1>1, FS_Surjection
<1>4. Cardinality(S) \in Nat /\ Cardinality(T) \in Nat
  BY <1>3, FS_CardinalityType
<1> QED
  BY <1>2, <1>3, <1>4

LEMMA RankExists ==
  ASSUME NEW S \in SUBSET Int, IsFiniteSet(S)
  PROVE  /\ Cardinality(S) \in Nat
         /\ \A i \in 1 .. Cardinality(S) :
              \E j \in S : Cardinality({k \in S : k < j}) = i - 1
<1> DEFINE Below(j) == {k \in S : k < j}
           n == Cardinality(S)
           rank == [j \in S |-> Cardinality(Below(j))]
<1>1. n \in Nat
  BY FS_CardinalityType
<1>2. ASSUME NEW j \in S
      PROVE  IsFiniteSet(Below(j)) /\ rank[j] \in 0 .. n - 1
  <2>1. IsFiniteSet(Below(j)) /\ Cardinality(Below(j)) <= n
        /\ (Cardinality(S) = Cardinality(Below(j)) => S = Below(j))
    BY FS_Subset
  <2>2. Cardinality(Below(j)) \in Nat
    BY <2>1, FS_CardinalityType
  <2>3. j \notin Below(j)
    OBVIOUS
  <2> QED
    BY <1>1, <2>1, <2>2, <2>3
<1>3. ASSUME NEW j \in S, NEW k \in S, j < k
      PROVE  rank[j] # rank[k]
  <2>1. \A i \in S : i < j => i < k
    BY <1>3
  <2>2. j \in Below(k) /\ j \notin Below(j)
    BY <1>3
  <2>3. Below(j) \in SUBSET Below(k)
    BY <2>1
  <2> QED
    BY <1>2, <2>2, <2>3, FS_Subset
<1>4. \A j, k \in S : rank[j] = rank[k] => j = k
  BY <1>3
<1>5. rank \in Injection(S, 0 .. n - 1)
  BY <1>2, <1>4 DEF Injection, IsInjective
<1>6. IsFiniteSet(0 .. n - 1) /\ Cardinality(0 .. n - 1) = n
  BY <1>1, FS_Interval
<1>7. rank \in Surjection(S, 0 .. n - 1)
  BY <1>5, <1>6, FS_Injection
<1>8. ASSUME NEW i \in 1 .. n
      PROVE  \E j \in S : Cardinality({k \in S : k < j}) = i - 1
  <2>1. i - 1 \in 0 .. n - 1
    BY <1>1
  <2>2. PICK j \in S : rank[j] = i - 1
    BY <2>1, <1>7 DEF Surjection
  <2> QED
    BY <2>2
<1> QED
  BY <1>1, <1>8

LEMMA Bounds ==
  ASSUME NEW S \in SUBSET Int, IsFiniteSet(S), S # {}
  PROVE  /\ Min(S) \in S /\ \A x \in S : Min(S) <= x
         /\ Max(S) \in S /\ \A x \in S : x <= Max(S)
<1>1. Cardinality(S) \in Nat /\ Cardinality(S) # 0
  BY FS_CardinalityType, FS_EmptySet
<1>2. \E m \in S : \A x \in S : m <= x
  <2>1. PICK m \in S : Cardinality({k \in S : k < m}) = 0
    BY <1>1, RankExists, 1 \in 1 .. Cardinality(S)
  <2>2. IsFiniteSet({k \in S : k < m})
    BY FS_Subset
  <2>3. {k \in S : k < m} = {}
    BY <2>1, <2>2, FS_EmptySet
  <2> QED
    BY <2>3
<1>3. \E m \in S : \A x \in S : x <= m
  <2> DEFINE n == Cardinality(S)
  <2>1. PICK m \in S : Cardinality({k \in S : k < m}) = n - 1
    BY <1>1, RankExists, n \in 1 .. Cardinality(S)
  <2>2. {k \in S : k < m} \in SUBSET (S \ {m})
    OBVIOUS
  <2>3. IsFiniteSet(S \ {m}) /\ Cardinality(S \ {m}) = n - 1
    BY FS_RemoveElement
  <2>4. {k \in S : k < m} = S \ {m}
    BY <2>1, <2>2, <2>3, FS_Subset
  <2>5. ASSUME NEW x \in S PROVE x <= m
    BY <2>4
  <2> QED
    BY <2>5
<1> QED
  BY <1>2, <1>3 DEF Min, Max

LEMMA MinOfTwo ==
  ASSUME NEW a \in Int, NEW b \in Int
  PROVE  /\ Min({a, b}) \in {a, b} /\ Min({a, b}) <= a /\ Min({a, b}) <= b
         /\ Max({a, b}) \in {a, b} /\ Max({a, b}) >= a /\ Max({a, b}) >= b
<1>1. IsFiniteSet({a, b})
  <2>1. IsFiniteSet({a} \cup {b})
    BY FS_Singleton, FS_Union
  <2> QED
    BY <2>1, {a} \cup {b} = {a, b}
<1>2. {a, b} \in SUBSET Int /\ {a, b} # {} /\ a \in {a, b} /\ b \in {a, b}
  OBVIOUS
<1> QED
  BY <1>1, <1>2, Bounds

(* Counts of what f makes of the elements of S add up.                     *)
LEMMA BijectionParts ==
  ASSUME NEW S, NEW T, NEW g \in Bijection(S, T)
  PROVE  /\ g \in [S -> T]
         /\ \A i, j \in S : g[i] = g[j] => i = j
         /\ \A t \in T : \E i \in S : g[i] = t
BY DEF Bijection, Injection, Surjection, IsInjective

LEMMA TotalOfFibres ==
  ASSUME NEW S, IsFiniteSet(S), NEW f, NEW h,
         \A k \in DOMAIN h : h[k] = Cardinality({s \in S : f[s] = k})
  PROVE  Total(h) = Cardinality({s \in S : f[s] \in DOMAIN h})
<1> DEFINE K == DOMAIN h
           Fibre(k) == {s \in S : f[s] = k}
           T == {s \in S : f[s] \in K}
           U == UNION {{x} \X (1 .. h[x]) : x \in K}
           D(k) == 1 .. h[k]
           b == [k \in K |-> CHOOSE g : g \in Bijection(D(k), Fibre(k))]
           m == [u \in U |-> b[u[1]][u[2]]]
<1>1. IsFiniteSet(T)
  BY FS_Subset
<1>2. ASSUME NEW k \in K
      PROVE  b[k] \in Bijection(D(k), Fibre(k))
  <2>1. IsFiniteSet(Fibre(k))
    BY FS_Subset
  <2>2. Bijection(D(k), Fibre(k)) # {}
    BY <2>1, FS_CardinalityType DEF ExistsBijection
  <2> QED
    BY <2>2
<1> HIDE DEF b, Fibre, D
<1>3. ASSUME NEW k \in K
      PROVE  /\ b[k] \in [D(k) -> Fibre(k)]
             /\ \A i, j \in D(k) : b[k][i] = b[k][j] => i = j
             /\ \A s \in Fibre(k) : \E i \in D(k) : b[k][i] = s
  <2>1. b[k] \in Bijection(D(k), Fibre(k))
    BY <1>2
  <2> QED
    BY <2>1, BijectionParts
<1>4. \A k \in K : \A s : s \in Fibre(k) <=> s \in S /\ f[s] = k
  BY DEF Fibre
<1>5. ASSUME NEW u \in U
      PROVE  u = <<u[1], u[2]>> /\ u[1] \in K /\ u[2] \in D(u[1])
  BY DEF D
<1>6. DOMAIN m = U /\ \A u \in U : m[u] = b[u[1]][u[2]]
  OBVIOUS
<1>7. m = [u \in U |-> m[u]]
  OBVIOUS
<1> HIDE DEF m
<1>8. ASSUME NEW u \in U
      PROVE  m[u] \in T /\ f[m[u]] = u[1]
  <2>1. m[u] = b[u[1]][u[2]] /\ u[1] \in K /\ u[2] \in D(u[1])
    BY <1>5, <1>6
  <2>2. b[u[1]][u[2]] \in Fibre(u[1])
    BY <1>3, <2>1
  <2> QED
    BY <1>4, <2>1, <2>2
<1>9. ASSUME NEW u \in U, NEW v \in U, m[u] = m[v]
      PROVE  u = v
  <2>1. u[1] = v[1]
    BY <1>8, <1>9
  <2>2. u[2] = v[2]
    <3>1. b[u[1]][u[2]] = b[u[1]][v[2]]
      <4>1. m[u] = b[u[1]][u[2]] /\ m[v] = b[v[1]][v[2]]
        BY <1>6
      <4> QED
        BY <1>9, <2>1, <4>1
    <3>2. u[1] \in K /\ u[2] \in D(u[1]) /\ v[2] \in D(u[1])
      BY <1>5, <2>1
    <3> QED
      BY <1>3, <3>1, <3>2
  <2> QED
    BY <1>5, <2>1, <2>2
<1>10. ASSUME NEW s \in T
      PROVE  \E u \in U : m[u] = s
  <2>1. f[s] \in K /\ s \in Fibre(f[s])
    BY <1>4
  <2>2. PICK i \in D(f[s]) : b[f[s]][i] = s
    BY <1>3, <2>1
  <2>3. <<f[s], i>> \in U
    BY <2>1 DEF D
  <2> QED
    BY <1>6, <2>2, <2>3
<1>11. m \in Injection(U, T) /\ m \in Surjection(U, T)
  BY <1>8, <1>9, <1>10, <1>6, <1>7 DEF Injection, Surjection, IsInjective
<1>12. Cardinality(U) = Cardinality(T)
  BY <1>1, <1>11, FS_Injection
<1> QED
  BY <1>12 DEF Total

-----------------------------------------------------------------------------
(* Values and tables.                                                      *)

Texts == [is : {"text"}, core : Cores, letters : {"lower", "upper", "capitalize"},
          sep : {"none", "dots", "space", "spaces", "spread"}, pad : BOOLEAN]

CellsOf(type) == {v \in Cells : v.is \in {"null", type}}

(* The rows that may stand in a table with columns N of given types.       *)
RowsOf(N, type) ==
  {r \in [id : Nat, val : [N -> Cells]] : \A c \in N : r.val[c] \in CellsOf(type[c])}

NoneTwice(rows) == \A i, j \in DOMAIN rows : rows[i].id = rows[j].id => i = j

LEMMA CellShapes ==
  ASSUME NEW v \in Cells
  PROVE  /\ v.is \in {"null", "text", "number", "date", "boolean"}
         /\ v.is = "null" <=> v = Null
         /\ v.is = "number" => v.n \in Int /\ v = Number(v.n)
         /\ v.is = "date" => v.n \in Int /\ v = Date(v.n)
         /\ v.is = "text" <=> v \in Texts
         /\ v.is = "boolean" => v \in {Flag(TRUE), Flag(FALSE)}
BY DEF Cells, Texts, Null, Number, Date, Flag

LEMMA CellsMade ==
  /\ Null \in Cells /\ Null.is = "null"
  /\ \A n \in Int : Number(n) \in Cells /\ Number(n).is = "number" /\ Number(n).n = n
  /\ \A n \in Int : Date(n) \in Cells /\ Date(n).is = "date" /\ Date(n).n = n
  /\ \A b \in BOOLEAN : Flag(b) \in Cells /\ Flag(b).is = "boolean"
  /\ \A t \in Texts : t \in Cells /\ t.is = "text"
BY DEF Cells, Texts, Null, Number, Date, Flag

LEMMA TableFacts ==
  ASSUME NEW tab, IsTable(tab)
  PROVE  /\ tab.type \in [Names(tab) -> Types]
         /\ tab = [type |-> tab.type, rows |-> tab.rows]
         /\ Len(tab.rows) \in Nat
         /\ DOMAIN tab.rows = 1 .. Len(tab.rows)
         /\ \A i \in DOMAIN tab.rows :
              /\ tab.rows[i].id \in Nat
              /\ tab.rows[i].val \in [Names(tab) -> Cells]
              /\ tab.rows[i] = [id |-> tab.rows[i].id, val |-> tab.rows[i].val]
              /\ \A c \in Names(tab) : Value(tab, i, c) \in CellsOf(tab.type[c])
         /\ \A i, j \in DOMAIN tab.rows : tab.rows[i].id = tab.rows[j].id => i = j
<1>1. tab.type \in [Names(tab) -> Types] /\ tab = [type |-> tab.type, rows |-> tab.rows]
      /\ tab.rows \in Seq([id : Nat, val : [Names(tab) -> Cells]])
  BY DEF IsTable
<1>2. Len(tab.rows) \in Nat /\ DOMAIN tab.rows = 1 .. Len(tab.rows)
      /\ \A i \in DOMAIN tab.rows : tab.rows[i] \in [id : Nat, val : [Names(tab) -> Cells]]
  BY <1>1, SeqIsFunction
<1>3. ASSUME NEW i \in DOMAIN tab.rows
      PROVE  /\ tab.rows[i].id \in Nat
             /\ tab.rows[i].val \in [Names(tab) -> Cells]
             /\ tab.rows[i] = [id |-> tab.rows[i].id, val |-> tab.rows[i].val]
  BY <1>2
<1>4. ASSUME NEW i \in DOMAIN tab.rows, NEW c \in Names(tab)
      PROVE  Value(tab, i, c) \in CellsOf(tab.type[c])
  <2>1. Value(tab, i, c).is \in {"null", tab.type[c]}
    BY DEF IsTable
  <2>2. Value(tab, i, c) \in Cells
    BY <1>3 DEF Value
  <2> QED
    BY <2>1, <2>2 DEF CellsOf
<1>5. \A i, j \in DOMAIN tab.rows : tab.rows[i].id = tab.rows[j].id => i = j
  BY DEF IsTable
<1> QED
  BY <1>1, <1>2, <1>3, <1>4, <1>5

LEMMA RowParts ==
  ASSUME NEW N, NEW type, NEW r \in RowsOf(N, type)
  PROVE  /\ r.id \in Nat /\ r.val \in [N -> Cells] /\ DOMAIN r.val = N
         /\ r = [id |-> r.id, val |-> r.val]
         /\ \A c \in N : r.val[c] \in CellsOf(type[c])
BY DEF RowsOf

LEMMA RowMade ==
  ASSUME NEW N, NEW type, NEW id \in Nat, NEW val,
         val = [c \in N |-> val[c]], \A c \in N : val[c] \in CellsOf(type[c])
  PROVE  [id |-> id, val |-> val] \in RowsOf(N, type)
<1>1. val \in [N -> Cells]
  BY DEF CellsOf
<1> QED
  BY <1>1 DEF RowsOf

LEMMA TableRows ==
  ASSUME NEW tab, IsTable(tab)
  PROVE  /\ tab.type \in [Names(tab) -> Types]
         /\ tab.rows \in [1 .. Len(tab.rows) -> RowsOf(Names(tab), tab.type)]
         /\ NoneTwice(tab.rows)
<1>1. tab.type \in [Names(tab) -> Types]
      /\ tab.rows \in Seq([id : Nat, val : [Names(tab) -> Cells]])
  BY DEF IsTable
<1>2. tab.rows \in [1 .. Len(tab.rows) -> [id : Nat, val : [Names(tab) -> Cells]]]
      /\ \A i \in DOMAIN tab.rows : tab.rows[i] \in [id : Nat, val : [Names(tab) -> Cells]]
      /\ DOMAIN tab.rows = 1 .. Len(tab.rows)
  BY <1>1, SeqIsFunction
<1>3. ASSUME NEW i \in DOMAIN tab.rows
      PROVE  tab.rows[i] \in RowsOf(Names(tab), tab.type)
  <2>1. \A c \in Names(tab) : Value(tab, i, c) \in CellsOf(tab.type[c])
    BY TableFacts
  <2> QED
    BY <1>2, <2>1 DEF RowsOf, Value
<1>4. NoneTwice(tab.rows)
  BY TableFacts DEF NoneTwice
<1> QED
  BY <1>1, <1>2, <1>3, <1>4

LEMMA TableMade ==
  ASSUME NEW N, NEW type \in [N -> Types], NEW n \in Nat,
         NEW rows \in [1 .. n -> RowsOf(N, type)], NoneTwice(rows)
  PROVE  /\ IsTable([type |-> type, rows |-> rows])
         /\ Names([type |-> type, rows |-> rows]) = N
         /\ DOMAIN rows = 1 .. n /\ Len(rows) = n
<1> DEFINE tab == [type |-> type, rows |-> rows]
<1>1. Names(tab) = N /\ tab.rows = rows /\ tab.type = type
  BY DEF Names
<1>2. rows \in [1 .. n -> [id : Nat, val : [N -> Cells]]]
  BY DEF RowsOf
<1>3. rows \in Seq([id : Nat, val : [N -> Cells]]) /\ DOMAIN rows = 1 .. n /\ Len(rows) = n
  BY <1>2, FunctionIsSeq
<1>4. \A i \in DOMAIN tab.rows : \A c \in Names(tab) :
        Value(tab, i, c).is \in {"null", tab.type[c]}
  BY <1>1, <1>3 DEF Value, CellsOf, RowsOf
<1>5. tab \in [type : [Names(tab) -> Types],
               rows : Seq([id : Nat, val : [Names(tab) -> Cells]])]
  BY <1>1, <1>3
<1> QED
  BY <1>1, <1>3, <1>4, <1>5 DEF IsTable, NoneTwice

LEMMA ValueFits ==
  ASSUME NEW tab, IsTable(tab), NEW i \in DOMAIN tab.rows, NEW c \in Names(tab)
  PROVE  /\ Value(tab, i, c) \in Cells /\ Value(tab, i, c).is \in {"null", tab.type[c]}
         /\ Value(tab, i, c) \in CellsOf(tab.type[c])
<1>1. Value(tab, i, c) \in CellsOf(tab.type[c])
  BY TableFacts
<1> QED
  BY <1>1 DEF CellsOf

LEMMA ColumnFacts ==
  ASSUME NEW tab, IsTable(tab), NEW c
  PROVE  /\ NonNulls(tab, c) \subseteq DOMAIN tab.rows
         /\ IsFiniteSet(DOMAIN tab.rows) /\ Cardinality(DOMAIN tab.rows) = Len(tab.rows)
         /\ IsFiniteSet(NonNulls(tab, c)) /\ Cardinality(NonNulls(tab, c)) \in Nat
         /\ Cardinality(NonNulls(tab, c)) <= Len(tab.rows)
         /\ Cardinality(NonNulls(tab, c)) = Len(tab.rows) <=> NonNulls(tab, c) = DOMAIN tab.rows
         /\ IsFiniteSet(Distinct(tab, c)) /\ Cardinality(Distinct(tab, c)) \in Nat
         /\ Distinct(tab, c) = {} <=> NonNulls(tab, c) = {}
         /\ c \in Names(tab) =>
              \A x \in Distinct(tab, c) : x \in Cells /\ x # Null /\ x.is = tab.type[c]
<1>1. DOMAIN tab.rows = 1 .. Len(tab.rows) /\ Len(tab.rows) \in Nat
  BY TableFacts
<1>2. IsFiniteSet(DOMAIN tab.rows) /\ Cardinality(DOMAIN tab.rows) = Len(tab.rows)
  <2>1. IsFiniteSet(1 .. Len(tab.rows)) /\ Cardinality(1 .. Len(tab.rows)) = Len(tab.rows)
    BY <1>1, FS_Interval
  <2> QED
    BY <1>1, <2>1
<1>3. NonNulls(tab, c) \subseteq DOMAIN tab.rows
  BY DEF NonNulls
<1>4. /\ IsFiniteSet(NonNulls(tab, c)) /\ Cardinality(NonNulls(tab, c)) <= Len(tab.rows)
      /\ Cardinality(NonNulls(tab, c)) = Len(tab.rows) => NonNulls(tab, c) = DOMAIN tab.rows
  BY <1>2, <1>3, FS_Subset
<1>5. IsFiniteSet(Distinct(tab, c)) /\ Cardinality(Distinct(tab, c)) \in Nat
  <2> DEFINE f == [i \in NonNulls(tab, c) |-> Value(tab, i, c)]
  <2>1. Distinct(tab, c) = ImageOf(f, NonNulls(tab, c))
    BY DEF Distinct, ImageOf
  <2> HIDE DEF f
  <2> QED
    BY <1>4, <2>1, ImageSize
<1>6. Distinct(tab, c) = {} <=> NonNulls(tab, c) = {}
  BY DEF Distinct
<1>7. ASSUME c \in Names(tab), NEW x \in Distinct(tab, c)
      PROVE  x \in Cells /\ x # Null /\ x.is = tab.type[c]
  <2>1. PICK i \in DOMAIN tab.rows : x = Value(tab, i, c) /\ x # Null
    BY DEF Distinct, NonNulls
  <2>2. x \in Cells /\ x.is \in {"null", tab.type[c]}
    BY <1>7, <2>1, TableFacts DEF CellsOf
  <2> QED
    BY <2>1, <2>2, CellShapes
<1>8. Cardinality(NonNulls(tab, c)) \in Nat
  BY <1>4, FS_CardinalityType
<1> QED
  BY <1>2, <1>3, <1>4, <1>5, <1>6, <1>7, <1>8

-----------------------------------------------------------------------------
(* How operations build tables.                                            *)

(* The rows stay where they are.                                           *)
SameRows(t, tab) ==
  /\ IsTable(t) /\ Len(t.rows) = Len(tab.rows) /\ DOMAIN t.rows = DOMAIN tab.rows
  /\ \A i \in DOMAIN tab.rows : t.rows[i].id = tab.rows[i].id

ColumnFits(values, tab, type) ==
  \A i \in DOMAIN tab.rows : values[i] \in CellsOf(type)

(* t is tab with these values in column c.                                 *)
Extends(t, tab, c, type, values) ==
  /\ SameRows(t, tab)
  /\ Names(t) = Names(tab) \union {c}
  /\ t.type[c] = type
  /\ \A d \in Names(tab) \ {c} : t.type[d] = tab.type[d]
  /\ \A i \in DOMAIN tab.rows :
       /\ t.rows[i].val = Put(tab.rows[i].val, c, values[i])
       /\ Value(t, i, c) = values[i]
       /\ \A d \in Names(tab) \ {c} : Value(t, i, d) = Value(tab, i, d)

LEMMA WithColumnFacts ==
  ASSUME NEW tab, IsTable(tab), NEW c, NEW type \in Types,
         NEW values, ColumnFits(values, tab, type)
  PROVE  Extends(WithColumn(tab, c, type, values), tab, c, type, values)
<1> DEFINE t == WithColumn(tab, c, type, values)
           N == Names(tab) \union {c}
           n == Len(tab.rows)
           rows == [i \in 1 .. n |->
                     [id |-> tab.rows[i].id, val |-> Put(tab.rows[i].val, c, values[i])]]
           types == Put(tab.type, c, type)
<1>1. n \in Nat /\ DOMAIN tab.rows = 1 .. n
  BY TableFacts
<1>2. t = [type |-> types, rows |-> rows]
  BY <1>1 DEF WithColumn
<1>3. types \in [N -> Types] /\ types[c] = type
      /\ \A d \in Names(tab) \ {c} : types[d] = tab.type[d]
  BY TableFacts DEF Put, Names
<1>4. ASSUME NEW i \in 1 .. n
      PROVE  /\ rows[i].id = tab.rows[i].id /\ rows[i].id \in Nat
             /\ rows[i].val = Put(tab.rows[i].val, c, values[i])
             /\ rows[i].val[c] = values[i]
             /\ \A d \in Names(tab) \ {c} : rows[i].val[d] = Value(tab, i, d)
             /\ rows[i] \in RowsOf(N, types)
  <2> DEFINE v == Put(tab.rows[i].val, c, values[i])
  <2>1. rows[i] = [id |-> tab.rows[i].id, val |-> v]
    OBVIOUS
  <2>2. /\ tab.rows[i].id \in Nat /\ DOMAIN tab.rows[i].val = Names(tab)
        /\ \A d \in Names(tab) : Value(tab, i, d) \in CellsOf(tab.type[d])
        /\ values[i] \in CellsOf(type)
    BY <1>1, TableFacts DEF ColumnFits
  <2>3. /\ v = [d \in N |-> v[d]] /\ v[c] = values[i]
        /\ \A d \in Names(tab) \ {c} : v[d] = Value(tab, i, d)
    BY <2>2 DEF Put, Value
  <2> HIDE DEF v
  <2>4. \A d \in N : v[d] \in CellsOf(types[d])
    BY <1>3, <2>2, <2>3
  <2>5. v = Put(tab.rows[i].val, c, values[i])
    BY DEF v
  <2>6. rows[i] \in RowsOf(N, types)
    BY <2>1, <2>2, <2>3, <2>4, RowMade
  <2> QED
    BY <2>1, <2>2, <2>3, <2>5, <2>6
<1>5. rows \in [1 .. n -> RowsOf(N, types)]
  BY <1>4
<1> HIDE DEF t, rows, types, n, N
<1>6. NoneTwice(rows)
  BY <1>1, <1>4, <1>5, TableFacts DEF NoneTwice
<1>7. /\ IsTable([type |-> types, rows |-> rows])
      /\ Names([type |-> types, rows |-> rows]) = N
      /\ DOMAIN rows = 1 .. n /\ Len(rows) = n
  BY <1>1, <1>3, <1>5, <1>6, TableMade
<1>8. t.type = types /\ t.rows = rows
  BY <1>2
<1>9. ASSUME NEW i \in DOMAIN tab.rows
      PROVE  /\ t.rows[i].id = tab.rows[i].id
             /\ t.rows[i].val = Put(tab.rows[i].val, c, values[i])
             /\ Value(t, i, c) = values[i]
             /\ \A d \in Names(tab) \ {c} : Value(t, i, d) = Value(tab, i, d)
  <2>1. i \in 1 .. n
    BY <1>1
  <2>2. /\ t.rows[i].id = tab.rows[i].id
        /\ t.rows[i].val = Put(tab.rows[i].val, c, values[i])
    BY <1>4, <1>8, <2>1
  <2>3. \A d : Value(t, i, d) = rows[i].val[d]
    BY <1>8 DEF Value
  <2> QED
    BY <1>4, <2>1, <2>2, <2>3
<1>10. IsTable(t) /\ Names(t) = N
  BY <1>2, <1>7
<1>11. DOMAIN t.rows = DOMAIN tab.rows /\ Len(t.rows) = Len(tab.rows)
  BY <1>1, <1>7, <1>8 DEF n
<1>12. t.type[c] = type /\ \A d \in Names(tab) \ {c} : t.type[d] = tab.type[d]
  BY <1>3, <1>8
<1> QED
  BY <1>9, <1>10, <1>11, <1>12 DEF t, N, SameRows, Extends

LEMMA KeepFacts ==
  ASSUME NEW tab, IsTable(tab), NEW S \in SUBSET DOMAIN tab.rows
  PROVE  LET t == Keep(tab, S)
         IN /\ IsTable(t) /\ t.type = tab.type
            /\ Cardinality(S) \in Nat
            /\ Len(t.rows) = Cardinality(S) /\ DOMAIN t.rows = 1 .. Cardinality(S)
            /\ \A i \in DOMAIN t.rows : \E j \in S : t.rows[i] = tab.rows[j]
<1> DEFINE n == Cardinality(S)
           rows == [i \in 1 .. n |-> tab.rows[Nth(S, i)]]
<1>1. S \in SUBSET Int /\ IsFiniteSet(S) /\ DOMAIN tab.rows = 1 .. Len(tab.rows)
  <2>1. IsFiniteSet(DOMAIN tab.rows) /\ DOMAIN tab.rows = 1 .. Len(tab.rows)
    BY ColumnFacts, TableFacts
  <2> QED
    BY <2>1, FS_Subset
<1>2. n \in Nat
  BY <1>1, RankExists
<1>3. ASSUME NEW i \in 1 .. n
      PROVE  Nth(S, i) \in S /\ Cardinality({k \in S : k < Nth(S, i)}) = i - 1
  <2>1. \E j \in S : Cardinality({k \in S : k < j}) = i - 1
    BY <1>1, RankExists
  <2> QED
    BY <2>1 DEF Nth
<1>4. ASSUME NEW i \in 1 .. n, NEW j \in 1 .. n, Nth(S, i) = Nth(S, j)
      PROVE  i = j
  <2>1. i - 1 = j - 1
    BY <1>3, <1>4
  <2> QED
    BY <1>2, <2>1
<1>5. \A i \in 1 .. n : rows[i] = tab.rows[Nth(S, i)]
  OBVIOUS
<1>6. Keep(tab, S) = [type |-> tab.type, rows |-> rows]
  <2>1. tab = [type |-> tab.type, rows |-> tab.rows]
    BY TableFacts
  <2>2. Keep(tab, S) = [tab EXCEPT !.rows = rows]
    BY DEF Keep
  <2> HIDE DEF rows
  <2> QED
    BY <2>1, <2>2
<1>7. rows \in [1 .. n -> RowsOf(Names(tab), tab.type)]
  BY <1>1, <1>3, TableRows
<1> HIDE DEF rows, n
<1>8. ASSUME NEW i \in 1 .. n, NEW j \in 1 .. n, rows[i].id = rows[j].id
      PROVE  i = j
  <2>1. Nth(S, i) \in DOMAIN tab.rows /\ Nth(S, j) \in DOMAIN tab.rows
    BY <1>3
  <2>2. Nth(S, i) = Nth(S, j)
    BY <1>5, <1>8, <2>1, TableFacts
  <2> QED
    BY <1>4, <2>2
<1>9. NoneTwice(rows)
  BY <1>7, <1>8 DEF NoneTwice
<1>10. /\ IsTable([type |-> tab.type, rows |-> rows])
       /\ DOMAIN rows = 1 .. n /\ Len(rows) = n
  BY <1>2, <1>7, <1>9, TableRows, TableMade
<1>11. \A i \in 1 .. n : \E j \in S : rows[i] = tab.rows[j]
  BY <1>3, <1>5
<1> QED
  BY <1>2, <1>6, <1>10, <1>11 DEF n

LEMMA AnyOrderFacts ==
  ASSUME NEW tab, IsTable(tab), NEW R, IsFiniteSet(R),
         R \subseteq RowsOf(Names(tab), tab.type),
         \A r, q \in R : r.id = q.id => r = q,
         NEW t \in AnyOrder(tab, R)
  PROVE  /\ IsTable(t) /\ t.type = tab.type
         /\ Len(t.rows) = Cardinality(R) /\ DOMAIN t.rows = 1 .. Cardinality(R)
         /\ Cardinality(R) \in Nat
         /\ \A i \in DOMAIN t.rows : t.rows[i] \in R
         /\ \A i, j \in DOMAIN t.rows : t.rows[i] = t.rows[j] => i = j
<1> DEFINE n == Cardinality(R)
<1>1. PICK s \in SetToSeqs(R) : t = [tab EXCEPT !.rows = s]
  BY DEF AnyOrder
<1>2. s \in [1 .. n -> R] /\ \A i, j \in 1 .. n : i # j => s[i] # s[j]
  BY DEF SetToSeqs
<1>3. t = [type |-> tab.type, rows |-> s]
  BY <1>1, TableFacts
<1>4. n \in Nat
  BY FS_CardinalityType
<1>5. s \in [1 .. n -> RowsOf(Names(tab), tab.type)]
  BY <1>2
<1>6. NoneTwice(s)
  BY <1>2 DEF NoneTwice
<1>7. /\ IsTable([type |-> tab.type, rows |-> s])
      /\ DOMAIN s = 1 .. n /\ Len(s) = n
  BY <1>4, <1>5, <1>6, TableRows, TableMade
<1> QED
  BY <1>2, <1>3, <1>4, <1>7

LEMMA ReorderedFacts ==
  ASSUME NEW tab, IsTable(tab), NEW t \in AnyOrder(tab, ToSet(tab.rows))
  PROVE  /\ IsTable(t) /\ t.type = tab.type /\ Names(t) = Names(tab)
         /\ Len(t.rows) = Len(tab.rows) /\ DOMAIN t.rows = DOMAIN tab.rows
         /\ \A i \in DOMAIN t.rows : \E j \in DOMAIN tab.rows : t.rows[i] = tab.rows[j]
<1> DEFINE R == ToSet(tab.rows)
<1>1. R = {tab.rows[i] : i \in DOMAIN tab.rows}
  BY DEF ToSet
<1>2. IsFiniteSet(DOMAIN tab.rows) /\ Cardinality(DOMAIN tab.rows) = Len(tab.rows)
      /\ DOMAIN tab.rows = 1 .. Len(tab.rows)
  BY ColumnFacts, TableFacts
<1>3. \A i, j \in DOMAIN tab.rows : tab.rows[i] = tab.rows[j] => i = j
  BY TableFacts
<1>4. IsFiniteSet(R) /\ Cardinality(R) = Len(tab.rows)
  <2> DEFINE D == DOMAIN tab.rows
  <2>1. R = ImageOf(tab.rows, D) /\ IsFiniteSet(D) /\ Cardinality(D) = Len(tab.rows)
        /\ \A i, j \in D : tab.rows[i] = tab.rows[j] => i = j
    BY <1>1, <1>2, <1>3 DEF ImageOf
  <2> HIDE DEF D, R
  <2> QED
    BY <2>1, ImageSize
<1>5. R \subseteq RowsOf(Names(tab), tab.type)
  BY <1>1, <1>2, TableRows
<1>6. \A r, q \in R : r.id = q.id => r = q
  BY <1>1, TableFacts
<1>7. /\ IsTable(t) /\ t.type = tab.type
      /\ Len(t.rows) = Cardinality(R) /\ DOMAIN t.rows = 1 .. Cardinality(R)
      /\ \A i \in DOMAIN t.rows : t.rows[i] \in R
  BY <1>4, <1>5, <1>6, AnyOrderFacts
<1> QED
  BY <1>1, <1>2, <1>4, <1>7 DEF Names

-----------------------------------------------------------------------------
(* What each operation yields: tables, all of one size.                    *)

AllTables(S, n) == \A t \in S : IsTable(t) /\ Len(t.rows) = n

(* Any order of some of the rows.                                          *)
LEMMA SomeRowsFacts ==
  ASSUME NEW tab, IsTable(tab), NEW I \in SUBSET DOMAIN tab.rows,
         NEW t \in AnyOrder(tab, ImageOf(tab.rows, I))
  PROVE  /\ IsTable(t) /\ t.type = tab.type
         /\ Len(t.rows) = Cardinality(I)
         /\ \A i \in DOMAIN t.rows : \E j \in I : t.rows[i] = tab.rows[j]
         /\ \A i, j \in DOMAIN t.rows : t.rows[i] = t.rows[j] => i = j
<1> DEFINE R == ImageOf(tab.rows, I)
<1>1. IsFiniteSet(I)
  BY ColumnFacts, FS_Subset
<1>2. \A i, j \in I : tab.rows[i] = tab.rows[j] => i = j
  BY TableFacts
<1>3. IsFiniteSet(R) /\ Cardinality(R) = Cardinality(I)
  BY <1>1, <1>2, ImageSize
<1>4. R \subseteq RowsOf(Names(tab), tab.type)
  <2>1. \A i \in I : tab.rows[i] \in RowsOf(Names(tab), tab.type)
    BY TableRows
  <2> QED
    BY <2>1 DEF ImageOf
<1>5. \A r, q \in R : r.id = q.id => r = q
  BY TableFacts DEF ImageOf
<1>6. /\ IsTable(t) /\ t.type = tab.type /\ Len(t.rows) = Cardinality(R)
      /\ \A i \in DOMAIN t.rows : t.rows[i] \in R
      /\ \A i, j \in DOMAIN t.rows : t.rows[i] = t.rows[j] => i = j
  <2> HIDE DEF R
  <2> QED
    BY <1>3, <1>4, <1>5, AnyOrderFacts DEF R
<1> QED
  BY <1>3, <1>6 DEF ImageOf

LEMMA DedupeFacts ==
  ASSUME NEW tab, IsTable(tab)
  PROVE  /\ \E n \in Nat : AllTables(Dedupe(tab), n)
         /\ \A t \in Dedupe(tab) :
              /\ t.type = tab.type
              /\ \A i, j \in DOMAIN t.rows : t.rows[i].val = t.rows[j].val => i = j
<1> DEFINE I == {i \in DOMAIN tab.rows : \A j \in 1 .. i - 1 :
                   tab.rows[j].val # tab.rows[i].val}
<1>1. Dedupe(tab) = AnyOrder(tab, ImageOf(tab.rows, I))
  BY DEF Dedupe, ImageOf
<1>2. Cardinality(I) \in Nat
  BY ColumnFacts, FS_Subset, FS_CardinalityType
<1>3. ASSUME NEW i \in I, NEW j \in I, tab.rows[i].val = tab.rows[j].val
      PROVE  i = j
  <2>1. i \in Int /\ j \in Int /\ i >= 1 /\ j >= 1
    BY TableFacts
  <2>2. ~ (i < j)
    BY <1>3, <2>1
  <2>3. ~ (j < i)
    BY <1>3, <2>1
  <2> QED
    BY <2>1, <2>2, <2>3
<1>4. I \in SUBSET DOMAIN tab.rows
  OBVIOUS
<1> HIDE DEF I
<1>5. ASSUME NEW t \in Dedupe(tab)
      PROVE  /\ IsTable(t) /\ Len(t.rows) = Cardinality(I) /\ t.type = tab.type
             /\ \A i, j \in DOMAIN t.rows : t.rows[i].val = t.rows[j].val => i = j
  <2>1. t \in AnyOrder(tab, ImageOf(tab.rows, I))
    BY <1>1
  <2>2. /\ IsTable(t) /\ t.type = tab.type /\ Len(t.rows) = Cardinality(I)
        /\ \A i \in DOMAIN t.rows : \E j \in I : t.rows[i] = tab.rows[j]
        /\ \A i, j \in DOMAIN t.rows : t.rows[i] = t.rows[j] => i = j
    BY <1>4, <2>1, SomeRowsFacts
  <2>3. ASSUME NEW i \in DOMAIN t.rows, NEW j \in DOMAIN t.rows,
               t.rows[i].val = t.rows[j].val
        PROVE  i = j
    <3>1. PICK k \in I, l \in I : t.rows[i] = tab.rows[k] /\ t.rows[j] = tab.rows[l]
      BY <2>2
    <3>2. k = l
      BY <1>3, <2>3, <3>1
    <3> QED
      BY <2>2, <3>1, <3>2
  <2> QED
    BY <2>2, <2>3
<1> QED
  BY <1>2, <1>5 DEF AllTables

LEMMA DropNullFacts ==
  ASSUME NEW tab, IsTable(tab), NEW c
  PROVE  AllTables(DropNull(tab, c), Cardinality(NonNulls(tab, c)))
<1>1. NonNulls(tab, c) \in SUBSET DOMAIN tab.rows
  BY ColumnFacts
<1>2. LET t == Keep(tab, NonNulls(tab, c))
      IN IsTable(t) /\ Len(t.rows) = Cardinality(NonNulls(tab, c))
  BY <1>1, KeepFacts
<1> QED
  BY <1>2 DEF DropNull, AllTables

LEMMA FilterFacts ==
  ASSUME NEW tab, IsTable(tab), NEW c, NEW action
  PROVE  /\ \E n \in Nat : AllTables(FilterRows(tab, c, action), n)
         /\ \A t \in FilterRows(tab, c, action) :
              /\ IsOf(tab, c, {"number"}) /\ t.type = tab.type
              /\ action = "keep" =>
                   \A i \in DOMAIN t.rows : Value(t, i, c) # Null /\ Value(t, i, c).n >= 0
<1> DEFINE S == {i \in NonNulls(tab, c) : (Value(tab, i, c).n >= 0) = (action = "keep")}
<1>1. S \in SUBSET DOMAIN tab.rows
  BY ColumnFacts
<1>2. LET t == Keep(tab, S)
      IN /\ IsTable(t) /\ t.type = tab.type
         /\ Cardinality(S) \in Nat /\ Len(t.rows) = Cardinality(S)
         /\ \A i \in DOMAIN t.rows : \E j \in S : t.rows[i] = tab.rows[j]
  <2> HIDE DEF S
  <2> QED
    BY <1>1, KeepFacts
<1>3. ASSUME NEW t \in FilterRows(tab, c, action)
      PROVE  t = Keep(tab, S) /\ IsOf(tab, c, {"number"})
  BY DEF FilterRows
<1>4. ASSUME NEW t \in FilterRows(tab, c, action), action = "keep", NEW i \in DOMAIN t.rows
      PROVE  Value(t, i, c) # Null /\ Value(t, i, c).n >= 0
  <2>1. PICK j \in S : t.rows[i] = tab.rows[j]
    BY <1>2, <1>3
  <2>2. Value(t, i, c) = Value(tab, j, c)
    BY <2>1 DEF Value
  <2>3. Value(tab, j, c) # Null /\ Value(tab, j, c).n >= 0
    BY <1>4, <2>1 DEF NonNulls
  <2> QED
    BY <2>2, <2>3
<1> HIDE DEF S
<1> QED
  BY <1>2, <1>3, <1>4 DEF AllTables

LEMMA DedupeSubsetFacts ==
  ASSUME NEW tab, IsTable(tab), NEW keys
  PROVE  \E n \in Nat : AllTables(DedupeSubset(tab, keys), n)
<1> DEFINE Same(i) == {j \in DOMAIN tab.rows : \A c \in keys :
                         Value(tab, j, c) = Value(tab, i, c)}
           first == {i \in DOMAIN tab.rows : \A j \in Same(i) : i <= j}
           Some(i, c) == IF c \in keys THEN {Value(tab, i, c)}
                         ELSE IF Same(i) \cap NonNulls(tab, c) = {} THEN {Null}
                         ELSE {Value(tab, j, c) : j \in Same(i) \cap NonNulls(tab, c)}
           all == {Null} \union UNION {Distinct(tab, c) : c \in Names(tab)}
           Merged(i) == {[id |-> tab.rows[i].id, val |-> v] :
                          v \in {v \in [Names(tab) -> all] :
                                   \A c \in Names(tab) : v[c] \in Some(i, c)}}
           Merges == {m \in [first -> UNION {Merged(i) : i \in first}] :
                        \A i \in first : m[i] \in Merged(i)}
<1>1. IsFiniteSet(first) /\ Cardinality(first) \in Nat
  BY ColumnFacts, FS_Subset, FS_CardinalityType
<1>2. ASSUME NEW t \in DedupeSubset(tab, keys)
      PROVE  \E m \in Merges : t \in AnyOrder(tab, ImageOf(m, first))
  BY DEF DedupeSubset, ImageOf
<1>3. ASSUME NEW i \in DOMAIN tab.rows, NEW c \in Names(tab), NEW x \in Some(i, c)
      PROVE  x \in CellsOf(tab.type[c])
  <2>1. \A j \in DOMAIN tab.rows : Value(tab, j, c) \in CellsOf(tab.type[c])
    BY TableFacts
  <2>2. Null \in CellsOf(tab.type[c])
    BY CellsMade DEF CellsOf
  <2>3. x = Null \/ \E j \in DOMAIN tab.rows : x = Value(tab, j, c)
    OBVIOUS
  <2> QED
    BY <2>1, <2>2, <2>3
<1>4. ASSUME NEW i \in first, NEW r \in Merged(i)
      PROVE  r \in RowsOf(Names(tab), tab.type) /\ r.id = tab.rows[i].id
  <2>1. PICK v \in [Names(tab) -> all] :
          /\ r = [id |-> tab.rows[i].id, val |-> v]
          /\ \A c \in Names(tab) : v[c] \in Some(i, c)
    <3> HIDE DEF Some, all
    <3> QED
      OBVIOUS
  <2>2. \A c \in Names(tab) : v[c] \in CellsOf(tab.type[c])
    <3> HIDE DEF Some
    <3> QED
      BY <1>3, <2>1
  <2>3. tab.rows[i].id \in Nat
    BY TableFacts
  <2> QED
    BY <2>1, <2>2, <2>3, RowMade
<1>5. first \subseteq DOMAIN tab.rows
  OBVIOUS
<1>6. ASSUME NEW m \in Merges
      PROVE  \A i \in first : m[i] \in Merged(i)
  OBVIOUS
<1> HIDE DEF first, Merged, Merges
<1>7. ASSUME NEW m \in Merges, NEW t \in AnyOrder(tab, ImageOf(m, first))
      PROVE  IsTable(t) /\ Len(t.rows) = Cardinality(first)
  <2> DEFINE R == ImageOf(m, first)
  <2>1. \A i \in first : m[i] \in RowsOf(Names(tab), tab.type) /\ m[i].id = tab.rows[i].id
    BY <1>4, <1>6
  <2>2. \A i, j \in first : tab.rows[i].id = tab.rows[j].id => i = j
    BY <1>5, TableFacts
  <2>3. \A i, j \in first : m[i] = m[j] => i = j
    BY <2>1, <2>2
  <2>4. IsFiniteSet(R) /\ Cardinality(R) = Cardinality(first)
    BY <1>1, <2>3, ImageSize
  <2>5. R \subseteq RowsOf(Names(tab), tab.type)
    BY <2>1 DEF ImageOf
  <2>6. \A r, q \in R : r.id = q.id => r = q
    BY <2>1, <2>2 DEF ImageOf
  <2> HIDE DEF R
  <2> QED
    BY <2>4, <2>5, <2>6, AnyOrderFacts DEF R
<1> QED
  BY <1>1, <1>2, <1>7 DEF AllTables

LEMMA TypedCells ==
  ASSUME NEW type
  PROVE  /\ Null \in CellsOf(type)
         /\ \A n \in Int : Number(n) \in CellsOf("number")
         /\ \A t \in Texts : t \in CellsOf("text")
BY CellsMade DEF CellsOf

LEMMA ModesExist ==
  ASSUME NEW tab, IsTable(tab), NEW c
  PROVE  /\ Modes(tab, c) \subseteq Distinct(tab, c)
         /\ Modes(tab, c) = {} => NonNulls(tab, c) = {}
<1> DEFINE D == Distinct(tab, c)
           count == [x \in D |-> Cardinality({i \in NonNulls(tab, c) : Value(tab, i, c) = x})]
           counts == ImageOf(count, D)
<1>1. Modes(tab, c) = {x \in D : \A y \in D : count[x] >= count[y]}
  BY DEF Modes
<1>2. IsFiniteSet(D) /\ (D = {} <=> NonNulls(tab, c) = {})
  BY ColumnFacts
<1>3. \A x \in D : count[x] \in Nat
  BY ColumnFacts, FS_Subset, FS_CardinalityType
<1> HIDE DEF count, D
<1>4. counts \subseteq Int /\ IsFiniteSet(counts)
  BY <1>2, <1>3, ImageSize DEF ImageOf
<1>5. ASSUME D # {}
      PROVE  \E x \in D : \A y \in D : count[x] >= count[y]
  <2>1. counts # {} /\ \A y \in D : count[y] \in counts
    BY <1>5 DEF ImageOf
  <2>2. Max(counts) \in counts /\ \A n \in counts : n <= Max(counts)
    BY <1>4, <2>1, Bounds
  <2>3. PICK x \in D : count[x] = Max(counts)
    BY <2>2 DEF ImageOf
  <2>4. \A y \in D : count[x] >= count[y]
    BY <1>3, <2>1, <2>2, <2>3
  <2> QED
    BY <2>4
<1> QED
  BY <1>1, <1>2, <1>5 DEF D

LEMMA NumbersBound ==
  ASSUME NEW tab, IsTable(tab), NEW c, IsOf(tab, c, {"number"})
  PROVE  LET numbers == {v.n : v \in Distinct(tab, c)}
         IN /\ numbers \subseteq Int /\ IsFiniteSet(numbers)
            /\ numbers = {} <=> NonNulls(tab, c) = {}
            /\ numbers # {} => /\ Min(numbers) \in numbers /\ Max(numbers) \in numbers
                               /\ Min(numbers) \in Int /\ Max(numbers) \in Int
                               /\ \A v \in Distinct(tab, c) :
                                    Min(numbers) <= v.n /\ v.n <= Max(numbers)
<1> DEFINE D == Distinct(tab, c)
           f == [v \in D |-> v.n]
           numbers == {v.n : v \in Distinct(tab, c)}
<1>1. \A v \in D : v.n \in Int
  BY ColumnFacts, CellShapes DEF IsOf
<1>2. numbers = ImageOf(f, D)
  BY DEF ImageOf
<1>3. IsFiniteSet(D) /\ (D = {} <=> NonNulls(tab, c) = {})
  BY ColumnFacts
<1>4. numbers \subseteq Int /\ IsFiniteSet(numbers)
  <2>1. numbers \subseteq Int
    BY <1>1
  <2>2. IsFiniteSet(ImageOf(f, D))
    BY <1>3, ImageSize
  <2> QED
    BY <1>2, <2>1, <2>2
<1>5. numbers = {} <=> NonNulls(tab, c) = {}
  BY <1>3
<1>6. \A v \in Distinct(tab, c) : v.n \in numbers
  OBVIOUS
<1> HIDE DEF numbers
<1>7. numbers # {} => /\ Min(numbers) \in numbers /\ Max(numbers) \in numbers
                      /\ \A x \in numbers : Min(numbers) <= x /\ x <= Max(numbers)
  BY <1>4, Bounds
<1>8. numbers # {} => /\ Min(numbers) \in Int /\ Max(numbers) \in Int
                      /\ \A v \in Distinct(tab, c) : Min(numbers) <= v.n /\ v.n <= Max(numbers)
  BY <1>4, <1>6, <1>7
<1> QED
  BY <1>4, <1>5, <1>7, <1>8 DEF numbers

LEMMA FillsFit ==
  ASSUME NEW tab, IsTable(tab), NEW c \in Names(tab), NEW strategy,
         NEW fill \in Fills(tab, c, strategy)
  PROVE  /\ fill \in CellsOf(tab.type[c])
         /\ fill = Null => NonNulls(tab, c) = {}
<1> DEFINE numbers == {x.n : x \in Distinct(tab, c)}
<1>1. CASE strategy = "mode"
  <2>1. fill \in Modes(tab, c) \/ (fill = Null /\ Modes(tab, c) = {})
    BY <1>1 DEF Fills
  <2>2. fill \in Distinct(tab, c) => fill \in CellsOf(tab.type[c]) /\ fill # Null
    BY ColumnFacts DEF CellsOf
  <2> QED
    BY <2>1, <2>2, ModesExist, TypedCells
<1>2. CASE strategy # "mode"
  <2>1. tab.type[c] = "number"
    BY <1>2 DEF Fills
  <2>2. /\ numbers = {} <=> NonNulls(tab, c) = {}
        /\ numbers # {} => Min(numbers) \in Int /\ Max(numbers) \in Int
    BY <2>1, NumbersBound DEF IsOf
  <2>3. \/ fill = Number(0)
        \/ fill = Null /\ numbers = {}
        \/ numbers # {} /\ \E n \in Min(numbers) .. Max(numbers) : fill = Number(n)
    BY <1>2, <2>1 DEF Fills
  <2> HIDE DEF numbers
  <2>4. (fill = Null /\ numbers = {}) \/ \E n \in Int : fill = Number(n)
    BY <2>2, <2>3
  <2>5. \A n \in Int : Number(n) # Null
    BY CellsMade
  <2> QED
    BY <2>1, <2>2, <2>4, <2>5, TypedCells
<1> QED
  BY <1>1, <1>2

LEMMA ImputeFacts ==
  ASSUME NEW tab, IsTable(tab), NEW c, NEW strategy, NEW t \in ImputeNull(tab, c, strategy)
  PROVE  /\ IsTable(t) /\ Len(t.rows) = Len(tab.rows)
         /\ c \in Names(t)
         /\ NonNulls(t, c) = DOMAIN t.rows \/ NonNulls(t, c) = {}
         /\ strategy = "zero" => SameRows(t, tab)
<1>1. c \in Names(tab)
  BY DEF ImputeNull
<1>2. PICK fill \in Fills(tab, c, strategy) :
        LET filled == WithColumn(tab, c, tab.type[c], [i \in DOMAIN tab.rows |->
                        IF i \in NonNulls(tab, c) THEN Value(tab, i, c) ELSE fill])
        IN t \in IF strategy = "zero" THEN {filled} ELSE AnyOrder(filled, ToSet(filled.rows))
  BY DEF ImputeNull
<1> DEFINE values == [i \in DOMAIN tab.rows |->
                        IF i \in NonNulls(tab, c) THEN Value(tab, i, c) ELSE fill]
           filled == WithColumn(tab, c, tab.type[c], values)
<1>3. tab.type[c] \in Types /\ ColumnFits(values, tab, tab.type[c])
  BY <1>1, FillsFit, TableFacts DEF ColumnFits
<1>4. (\A i \in DOMAIN tab.rows : values[i] # Null) \/ (\A i \in DOMAIN tab.rows : values[i] = Null)
  <2>1. CASE fill = Null
    <3>1. NonNulls(tab, c) = {}
      BY <1>1, <2>1, FillsFit
    <3> QED
      BY <2>1, <3>1
  <2>2. CASE fill # Null
    BY <2>2 DEF NonNulls
  <2> QED
    BY <2>1, <2>2
<1>5. t \in IF strategy = "zero" THEN {filled} ELSE AnyOrder(filled, ToSet(filled.rows))
  BY <1>2
<1> HIDE DEF values
<1>6. /\ IsTable(filled) /\ Names(filled) = Names(tab) \union {c}
      /\ DOMAIN filled.rows = DOMAIN tab.rows /\ Len(filled.rows) = Len(tab.rows)
      /\ \A i \in DOMAIN tab.rows :
           filled.rows[i].id = tab.rows[i].id /\ Value(filled, i, c) = values[i]
  <2>1. Extends(filled, tab, c, tab.type[c], values)
    BY <1>3, WithColumnFacts
  <2> HIDE DEF filled
  <2> QED
    BY <2>1 DEF Extends, SameRows
<1> HIDE DEF filled
<1>7. CASE strategy = "zero"
  <2>1. t = filled
    BY <1>5, <1>7
  <2> QED
    BY <1>4, <1>6, <2>1 DEF SameRows, NonNulls
<1>8. CASE strategy # "zero"
  <2>1. t \in AnyOrder(filled, ToSet(filled.rows))
    BY <1>5, <1>8
  <2>2. /\ IsTable(t) /\ Names(t) = Names(filled) /\ Len(t.rows) = Len(filled.rows)
        /\ \A i \in DOMAIN t.rows : \E j \in DOMAIN filled.rows : t.rows[i] = filled.rows[j]
    BY <1>6, <2>1, ReorderedFacts
  <2>3. \A i \in DOMAIN t.rows : \E j \in DOMAIN tab.rows : Value(t, i, c) = values[j]
    <3> SUFFICES ASSUME NEW i \in DOMAIN t.rows
                 PROVE  \E j \in DOMAIN tab.rows : Value(t, i, c) = values[j]
      OBVIOUS
    <3>1. PICK j \in DOMAIN tab.rows : t.rows[i] = filled.rows[j]
      BY <1>6, <2>2
    <3>2. Value(t, i, c) = Value(filled, j, c)
      BY <3>1 DEF Value
    <3> QED
      BY <1>6, <3>2
  <2>4. (\A i \in DOMAIN t.rows : Value(t, i, c) # Null)
        \/ (\A i \in DOMAIN t.rows : Value(t, i, c) = Null)
    BY <1>4, <2>3
  <2> QED
    BY <1>6, <1>8, <2>2, <2>4 DEF NonNulls
<1> QED
  BY <1>7, <1>8

LEMMA ParsedFits ==
  ASSUME NEW v \in Cells, NEW type \in Types, NEW x \in Parsed(v, type)
  PROVE  x \in CellsOf(type) /\ x # Null /\ x.is = type
<1>1. CASE v.is = type
  <2>1. x = v
    BY <1>1 DEF Parsed
  <2> QED
    BY <1>1, <2>1, CellsMade DEF CellsOf, Types
<1>2. CASE v.is # type
  <2>1. \/ type = "number" /\ \E core \in DOMAIN NumberOf : x = Number(NumberOf[core])
        \/ type = "date" /\ \E core \in DOMAIN DateOf : x = Date(DateOf[core])
    BY <1>2 DEF Parsed
  <2>2. \A core \in DOMAIN NumberOf : NumberOf[core] \in Int
    BY DEF NumberOf
  <2>3. \A core \in DOMAIN DateOf : DateOf[core] \in Int
    BY DEF DateOf
  <2> QED
    BY <2>1, <2>2, <2>3, CellsMade DEF CellsOf
<1> QED
  BY <1>1, <1>2

LEMMA CastFacts ==
  ASSUME NEW tab, IsTable(tab), NEW c, NEW type \in Types, NEW coerce,
         NEW t \in Cast(tab, c, type, coerce)
  PROVE  /\ SameRows(t, tab)
         /\ c \in Names(tab) /\ c \in Names(t) /\ t.type[c] = type
         /\ NonNulls(t, c) = {i \in NonNulls(tab, c) : Parsed(Value(tab, i, c), type) # {}}
<1> DEFINE values == [i \in DOMAIN tab.rows |->
          IF i \notin NonNulls(tab, c) \/ Parsed(Value(tab, i, c), type) = {}
          THEN Null ELSE CHOOSE v \in Parsed(Value(tab, i, c), type) : TRUE]
<1>1. t = WithColumn(tab, c, type, values) /\ c \in Names(tab)
  BY DEF Cast, IsOf
<1>2. ASSUME NEW i \in DOMAIN tab.rows
      PROVE  /\ values[i] \in CellsOf(type)
             /\ values[i] # Null <=> i \in NonNulls(tab, c) /\ Parsed(Value(tab, i, c), type) # {}
  <2>1. Value(tab, i, c) \in Cells
    BY <1>1, TableFacts DEF CellsOf
  <2>2. CASE i \notin NonNulls(tab, c) \/ Parsed(Value(tab, i, c), type) = {}
    BY <2>2, TypedCells
  <2>3. CASE i \in NonNulls(tab, c) /\ Parsed(Value(tab, i, c), type) # {}
    <3>1. values[i] \in Parsed(Value(tab, i, c), type)
      BY <2>3
    <3> QED
      BY <2>1, <2>3, <3>1, ParsedFits
  <2> QED
    BY <2>2, <2>3
<1>3. ColumnFits(values, tab, type)
  BY <1>2 DEF ColumnFits
<1> HIDE DEF values
<1>4. /\ IsTable(t) /\ Names(t) = Names(tab) \union {c} /\ t.type[c] = type
      /\ DOMAIN t.rows = DOMAIN tab.rows /\ Len(t.rows) = Len(tab.rows)
      /\ \A i \in DOMAIN tab.rows :
           t.rows[i].id = tab.rows[i].id /\ Value(t, i, c) = values[i]
  <2>1. Extends(t, tab, c, type, values)
    BY <1>1, <1>3, WithColumnFacts
  <2> QED
    BY <2>1 DEF Extends, SameRows
<1>5. NonNulls(t, c) = {i \in NonNulls(tab, c) : Parsed(Value(tab, i, c), type) # {}}
  BY <1>2, <1>4 DEF NonNulls
<1> QED
  BY <1>1, <1>4, <1>5 DEF SameRows

LEMMA DropColumnFacts ==
  ASSUME NEW tab, IsTable(tab), NEW c, NEW t \in DropColumn(tab, c)
  PROVE  SameRows(t, tab) /\ c \notin Names(t)
<1> DEFINE N == Names(tab) \ {c}
           n == Len(tab.rows)
           type == Restrict(tab.type, N)
           rows == [i \in 1 .. n |->
                     [id |-> tab.rows[i].id, val |-> Restrict(tab.rows[i].val, N)]]
<1>1. n \in Nat /\ DOMAIN tab.rows = 1 .. n
  BY TableFacts
<1>2. t = [type |-> type, rows |-> rows]
  BY <1>1 DEF DropColumn
<1>3. type \in [N -> Types] /\ \A d \in N : type[d] = tab.type[d]
  BY TableFacts DEF Restrict
<1>4. ASSUME NEW i \in 1 .. n
      PROVE  rows[i] \in RowsOf(N, type) /\ rows[i].id = tab.rows[i].id
  <2> DEFINE v == Restrict(tab.rows[i].val, N)
  <2>1. tab.rows[i].id \in Nat /\ \A d \in N : tab.rows[i].val[d] \in CellsOf(tab.type[d])
    BY <1>1, TableFacts DEF Value
  <2>2. v = [d \in N |-> v[d]] /\ \A d \in N : v[d] \in CellsOf(type[d])
    BY <1>3, <2>1 DEF Restrict
  <2>3. rows[i] = [id |-> tab.rows[i].id, val |-> v]
    OBVIOUS
  <2> HIDE DEF v, type, N, rows
  <2> QED
    BY <2>1, <2>2, <2>3, RowMade
<1>5. rows \in [1 .. n -> RowsOf(N, type)]
  BY <1>4
<1> HIDE DEF N, n, type, rows
<1>6. NoneTwice(rows)
  BY <1>1, <1>4, <1>5, TableFacts DEF NoneTwice
<1>7. /\ IsTable([type |-> type, rows |-> rows])
      /\ Names([type |-> type, rows |-> rows]) = N
      /\ DOMAIN rows = 1 .. n /\ Len(rows) = n
  BY <1>1, <1>3, <1>5, <1>6, TableMade
<1>8. SameRows(t, tab)
  BY <1>1, <1>2, <1>4, <1>7 DEF SameRows, n
<1> QED
  BY <1>2, <1>7, <1>8 DEF N

LEMMA RenameFacts ==
  ASSUME NEW tab, IsTable(tab), NEW c, NEW new, NEW t \in RenameColumn(tab, c, new)
  PROVE  SameRows(t, tab)
<1> DEFINE Old(d) == IF d = new THEN c ELSE d
           N == (Names(tab) \ {c}) \union {new}
           n == Len(tab.rows)
           type == [d \in N |-> tab.type[Old(d)]]
           rows == [i \in 1 .. n |->
                     [id |-> tab.rows[i].id,
                      val |-> [d \in N |-> tab.rows[i].val[Old(d)]]]]
<1>1. n \in Nat /\ DOMAIN tab.rows = 1 .. n
  BY TableFacts
<1>2. t = [type |-> type, rows |-> rows] /\ c \in Names(tab)
  BY <1>1 DEF RenameColumn
<1>3. type \in [N -> Types] /\ \A d \in N : type[d] = tab.type[Old(d)] /\ Old(d) \in Names(tab)
  BY <1>2, TableFacts
<1>4. ASSUME NEW i \in 1 .. n
      PROVE  rows[i] \in RowsOf(N, type) /\ rows[i].id = tab.rows[i].id
  <2> DEFINE v == [d \in N |-> tab.rows[i].val[Old(d)]]
  <2>1. tab.rows[i].id \in Nat
        /\ \A d \in Names(tab) : tab.rows[i].val[d] \in CellsOf(tab.type[d])
    BY <1>1, TableFacts DEF Value
  <2>2. v = [d \in N |-> v[d]] /\ \A d \in N : v[d] \in CellsOf(type[d])
    BY <1>3, <2>1
  <2>3. rows[i] = [id |-> tab.rows[i].id, val |-> v]
    OBVIOUS
  <2> HIDE DEF v, type, N, rows
  <2> QED
    BY <2>1, <2>2, <2>3, RowMade
<1>5. rows \in [1 .. n -> RowsOf(N, type)]
  BY <1>4
<1> HIDE DEF N, n, type, rows
<1>6. NoneTwice(rows)
  BY <1>1, <1>4, <1>5, TableFacts DEF NoneTwice
<1>7. /\ IsTable([type |-> type, rows |-> rows])
      /\ DOMAIN rows = 1 .. n /\ Len(rows) = n
  BY <1>1, <1>3, <1>5, <1>6, TableMade
<1> QED
  BY <1>1, <1>2, <1>4, <1>7 DEF SameRows, n

Cases == {"lower", "upper", "capitalize"}
NamesCase(o) == o.case \in {"", "lower", "upper", "capitalize"}

LEMMA TextSteps ==
  ASSUME NEW t \in Texts
  PROVE  /\ Trim(t) \in Texts
         /\ \A case \in Cases : Cased(t, case) \in Texts
         /\ StripSpecial(t) \in Texts
         /\ Collapse(t) \in Texts
<1>1. \A pad \in BOOLEAN : [t EXCEPT !.pad = pad] \in Texts
  BY DEF Texts
<1>2. Trim(t) \in Texts
  BY <1>1 DEF Trim
<1>3. \A case \in Cases : Cased(t, case) \in Texts
  <2> SUFFICES ASSUME NEW case \in Cases PROVE Cased(t, case) \in Texts
    OBVIOUS
  <2> DEFINE letters == IF t.core = Word THEN case ELSE t.letters
  <2>1. letters \in {"lower", "upper", "capitalize"}
    BY DEF Texts, Cases
  <2>2. Cased(t, case) = [t EXCEPT !.letters = letters]
    BY DEF Cased
  <2> HIDE DEF letters
  <2> QED
    BY <2>1, <2>2 DEF Texts
<1>4. Stripped(t.core) \in Cores
  BY CoreAssumption DEF Texts
<1>5. StripSpecial(t) \in Texts
  <2> DEFINE sep == CASE t.sep = "dots" -> "none"
                      [] t.sep = "spread" -> "spaces"
                      [] OTHER -> t.sep
  <2>1. sep \in {"none", "dots", "space", "spaces", "spread"}
    BY DEF Texts
  <2>2. StripSpecial(t) = [t EXCEPT !.core = Stripped(t.core), !.sep = sep]
    BY DEF StripSpecial
  <2> HIDE DEF sep
  <2> QED
    BY <1>4, <2>1, <2>2 DEF Texts
<1>6. Collapse(t) \in Texts
  <2> DEFINE u == [t EXCEPT !.sep = IF t.sep = "spaces" THEN "space" ELSE t.sep]
  <2>1. u \in Texts
    BY DEF Texts
  <2>2. Collapse(t) = [u EXCEPT !.pad = FALSE]
    BY DEF Collapse, Trim
  <2> HIDE DEF u
  <2> QED
    BY <2>1, <2>2 DEF Texts
<1> QED
  BY <1>2, <1>3, <1>5, <1>6

LEMMA NormalizedFits ==
  ASSUME NEW t \in Texts, NEW o, NamesCase(o)
  PROVE  Normalized(t, o) \in CellsOf("text")
<1> DEFINE trimmed == IF o.trim THEN Trim(t) ELSE t
           cased == IF o.case = "" THEN trimmed ELSE Cased(trimmed, o.case)
           bare == IF o.strip_special THEN StripSpecial(cased) ELSE cased
           spaced == IF o.collapse_whitespace THEN Collapse(bare) ELSE bare
<1>1. trimmed \in Texts
  BY TextSteps
<1> HIDE DEF trimmed
<1>2. cased \in Texts
  BY <1>1, TextSteps DEF Cases, NamesCase
<1> HIDE DEF cased
<1>3. bare \in Texts
  BY <1>2, TextSteps
<1> HIDE DEF bare
<1>4. spaced \in Texts
  BY <1>3, TextSteps
<1>5. Normalized(t, o) = Null \/ Normalized(t, o) = spaced
  BY DEF Normalized, spaced, bare, cased, trimmed
<1> QED
  BY <1>4, <1>5, TypedCells

LEMMA NormalizeFacts ==
  ASSUME NEW tab, IsTable(tab), NEW o, NamesCase(o),
         NEW t \in StringNormalize(tab, o)
  PROVE  /\ SameRows(t, tab)
         /\ o.column \in Names(t) /\ t.type[o.column] = "text"
         /\ \A x \in Distinct(t, o.column) :
              \E y \in Distinct(tab, o.column) : y \in Texts /\ x = Normalized(y, o)
<1> DEFINE c == o.column
           values == [i \in DOMAIN tab.rows |->
             IF i \in NonNulls(tab, c) THEN Normalized(Value(tab, i, c), o) ELSE Null]
<1>1. t = WithColumn(tab, c, "text", values) /\ c \in Names(tab) /\ tab.type[c] = "text"
  BY DEF StringNormalize, IsOf
<1>2. \A i \in NonNulls(tab, c) : Value(tab, i, c) \in Texts
  <2> SUFFICES ASSUME NEW i \in NonNulls(tab, c) PROVE Value(tab, i, c) \in Texts
    OBVIOUS
  <2>1. Value(tab, i, c) \in Distinct(tab, c)
    BY DEF Distinct
  <2> QED
    BY <1>1, <2>1, ColumnFacts, CellShapes
<1>3. ColumnFits(values, tab, "text")
  <2> SUFFICES ASSUME NEW i \in DOMAIN tab.rows PROVE values[i] \in CellsOf("text")
    BY DEF ColumnFits
  <2>1. CASE i \in NonNulls(tab, c)
    <3>1. Value(tab, i, c) \in Texts
      BY <1>2, <2>1
    <3>2. \A x \in Texts : Normalized(x, o) \in CellsOf("text")
      BY NormalizedFits
    <3> QED
      BY <2>1, <3>1, <3>2
  <2>2. CASE i \notin NonNulls(tab, c)
    BY <2>2, TypedCells
  <2> QED
    BY <2>1, <2>2
<1>4. \A i \in DOMAIN tab.rows : values[i] # Null =>
        \E y \in Distinct(tab, c) : y \in Texts /\ values[i] = Normalized(y, o)
  BY <1>2 DEF Distinct
<1> HIDE DEF values
<1>5. Extends(t, tab, c, "text", values)
  BY <1>1, <1>3, WithColumnFacts DEF Types
<1>6. ASSUME NEW x \in Distinct(t, c)
      PROVE  \E y \in Distinct(tab, c) : y \in Texts /\ x = Normalized(y, o)
  <2>1. PICK i \in DOMAIN tab.rows : x = Value(t, i, c) /\ x # Null
    BY <1>5 DEF Extends, SameRows, Distinct, NonNulls
  <2>2. x = values[i]
    BY <1>5, <2>1 DEF Extends
  <2> QED
    BY <1>4, <2>1, <2>2
<1> QED
  BY <1>1, <1>5, <1>6 DEF Extends

LEMMA AbsoluteFacts ==
  ASSUME NEW tab, IsTable(tab), NEW c, NEW t \in AbsoluteValue(tab, c)
  PROVE  /\ SameRows(t, tab)
         /\ c \in Names(t) /\ t.type[c] = "number"
         /\ \A x \in Distinct(t, c) : x.n >= 0
<1> DEFINE values == [i \in DOMAIN tab.rows |->
             LET v == Value(tab, i, c)
             IN IF v # Null /\ v.n < 0 THEN Number(- v.n) ELSE v]
<1>1. t = WithColumn(tab, c, "number", values) /\ c \in Names(tab) /\ tab.type[c] = "number"
  BY DEF AbsoluteValue, IsOf
<1>2. ASSUME NEW i \in DOMAIN tab.rows
      PROVE  values[i] \in CellsOf("number") /\ (values[i] # Null => values[i].n >= 0)
  <2> DEFINE v == Value(tab, i, c)
  <2>1. v \in Cells /\ v.is \in {"null", "number"}
    BY <1>1, ValueFits
  <2>2. CASE v = Null
    BY <2>2, TypedCells
  <2>3. CASE v # Null
    <3>1. v.n \in Int /\ v = Number(v.n)
      BY <2>1, <2>3, CellShapes
    <3>2. CASE v.n < 0
      <4>1. values[i] = Number(- v.n)
        BY <2>3, <3>2
      <4>2. - v.n \in Int /\ - v.n >= 0
        BY <3>1, <3>2
      <4> QED
        BY <4>1, <4>2, CellsMade, TypedCells
    <3>3. CASE ~ (v.n < 0)
      <4>1. values[i] = v /\ v.n >= 0
        BY <3>1, <3>3
      <4> QED
        BY <2>1, <4>1 DEF CellsOf
    <3> QED
      BY <3>2, <3>3
  <2> QED
    BY <2>2, <2>3
<1>3. ColumnFits(values, tab, "number")
  BY <1>2 DEF ColumnFits
<1> HIDE DEF values
<1>4. Extends(t, tab, c, "number", values)
  BY <1>1, <1>3, WithColumnFacts DEF Types
<1>5. ASSUME NEW x \in Distinct(t, c)
      PROVE  x.n >= 0
  <2>1. PICK i \in DOMAIN tab.rows : x = Value(t, i, c) /\ x # Null
    BY <1>4 DEF Extends, SameRows, Distinct, NonNulls
  <2>2. x = values[i]
    BY <1>4, <2>1 DEF Extends
  <2> QED
    BY <1>2, <2>1, <2>2
<1> QED
  BY <1>1, <1>4, <1>5 DEF Extends

ImageFits(image, tab, c, type) ==
  type \in Types /\ \A x \in Distinct(tab, c) : image[x] \in CellsOf(type)

LEMMA DerivedFacts ==
  ASSUME NEW tab, IsTable(tab), NEW c, NEW from, NEW new, NEW type, NEW image,
         IsOf(tab, c, from) => ImageFits(image, tab, c, type),
         NEW t \in Derived(tab, c, from, new, type, image)
  PROVE  SameRows(t, tab)
<1> DEFINE values == [i \in DOMAIN tab.rows |->
             IF i \in NonNulls(tab, c) THEN image[Value(tab, i, c)] ELSE Null]
<1>1. t = WithColumn(tab, new, type, values) /\ IsOf(tab, c, from)
  BY DEF Derived
<1>2. type \in Types /\ \A x \in Distinct(tab, c) : image[x] \in CellsOf(type)
  BY <1>1 DEF ImageFits
<1>3. \A i \in NonNulls(tab, c) : Value(tab, i, c) \in Distinct(tab, c)
  BY DEF Distinct
<1>4. ColumnFits(values, tab, type)
  BY <1>2, <1>3, TypedCells DEF ColumnFits
<1> HIDE DEF values
<1>5. Extends(t, tab, new, type, values)
  BY <1>1, <1>2, <1>4, WithColumnFacts
<1> QED
  BY <1>5 DEF Extends

LEMMA SplitFacts ==
  ASSUME NEW tab, IsTable(tab), NEW c, NEW new, NEW t \in SplitColumn(tab, c, new)
  PROVE  SameRows(t, tab)
<1> DEFINE image == [x \in Distinct(tab, c) |->
             [x EXCEPT !.sep = IF @ \in {"dots", "spread"} THEN "none" ELSE @]]
<1>1. t \in Derived(tab, c, {"text"}, new, "text", image)
  BY DEF SplitColumn
<1>2. ASSUME IsOf(tab, c, {"text"}), NEW x \in Distinct(tab, c)
      PROVE  image[x] \in CellsOf("text")
  <2>1. x \in Texts
    BY <1>2, ColumnFacts, CellShapes DEF IsOf
  <2> DEFINE sep == IF x.sep \in {"dots", "spread"} THEN "none" ELSE x.sep
  <2>2. sep \in {"none", "dots", "space", "spaces", "spread"}
    BY <2>1 DEF Texts
  <2>3. image[x] = [x EXCEPT !.sep = sep]
    OBVIOUS
  <2> HIDE DEF sep, image
  <2>4. image[x] \in Texts
    BY <2>1, <2>2, <2>3 DEF Texts
  <2> QED
    BY <2>4, TypedCells
<1>3. IsOf(tab, c, {"text"}) => ImageFits(image, tab, c, "text")
  BY <1>2 DEF ImageFits, Types
<1> HIDE DEF image
<1> QED
  BY <1>1, <1>3, DerivedFacts

LEMMA DateExtractFacts ==
  ASSUME NEW tab, IsTable(tab), NEW c, NEW new, NEW t \in DateExtract(tab, c, new)
  PROVE  SameRows(t, tab)
<1> DEFINE image == [d \in Distinct(tab, c) |-> Number(d.n)]
<1>1. t \in Derived(tab, c, {"date"}, new, "number", image)
  BY DEF DateExtract
<1>2. ASSUME IsOf(tab, c, {"date"}), NEW x \in Distinct(tab, c)
      PROVE  image[x] \in CellsOf("number")
  <2>1. x.n \in Int
    BY <1>2, ColumnFacts, CellShapes DEF IsOf
  <2> QED
    BY <2>1, TypedCells
<1>3. IsOf(tab, c, {"date"}) => ImageFits(image, tab, c, "number")
  BY <1>2 DEF ImageFits, Types
<1> HIDE DEF image
<1> QED
  BY <1>1, <1>3, DerivedFacts

LEMMA CalculatedFacts ==
  ASSUME NEW tab, IsTable(tab), NEW c, NEW new, NEW t \in CalculatedColumn(tab, c, new)
  PROVE  SameRows(t, tab)
<1> DEFINE image == [v \in Distinct(tab, c) |-> v]
<1>1. t \in Derived(tab, c, Types, new, tab.type[c], image)
  BY DEF CalculatedColumn
<1>2. ASSUME IsOf(tab, c, Types), NEW x \in Distinct(tab, c)
      PROVE  image[x] \in CellsOf(tab.type[c])
  BY <1>2, ColumnFacts DEF IsOf, CellsOf
<1>3. IsOf(tab, c, Types) => tab.type[c] \in Types
  BY DEF IsOf
<1>4. IsOf(tab, c, Types) => ImageFits(image, tab, c, tab.type[c])
  BY <1>2, <1>3 DEF ImageFits
<1> HIDE DEF image
<1> QED
  BY <1>1, <1>4, DerivedFacts

LEMMA BinFits ==
  ASSUME NEW n \in Int, NEW lo \in Int, NEW hi \in Int, lo < hi, NEW bins \in Nat \ {0}
  PROVE  Bin(n, lo, hi, bins) \in 0 .. bins - 1
<1> DEFINE q == ((n - lo) * bins) \div (hi - lo)
           m == Max({0, q})
<1>1. (n - lo) * bins \in Int /\ hi - lo \in Nat /\ hi - lo > 0
  OBVIOUS
<1>2. q \in Int
  BY <1>1
<1>3. Bin(n, lo, hi, bins) = Min({m, bins - 1})
  BY DEF Bin
<1> HIDE DEF q
<1>4. m \in {0, q} /\ m >= 0
  BY <1>2, MinOfTwo
<1> HIDE DEF m
<1>5. PICK last : last = bins - 1
  OBVIOUS
<1>6. m \in Int /\ last \in Nat
  BY <1>2, <1>4, <1>5
<1>7. Min({m, last}) \in {m, last} /\ Min({m, last}) <= last
  BY <1>6, MinOfTwo
<1>8. Bin(n, lo, hi, bins) = Min({m, last})
  BY <1>3, <1>5
<1>9. Min({m, last}) \in 0 .. last
  BY <1>4, <1>6, <1>7
<1> QED
  BY <1>5, <1>8, <1>9

LEMMA BinColumnFacts ==
  ASSUME NEW tab, IsTable(tab), NEW c, NEW new, NEW bins \in Nat \ {0},
         NEW t \in BinColumn(tab, c, new, bins)
  PROVE  IsTable(t) /\ Len(t.rows) = Len(tab.rows)
<1> DEFINE numbers == {v.n : v \in Distinct(tab, c)}
           lo == Min(numbers)
           hi == Max(numbers)
           image(single) == [v \in Distinct(tab, c) |->
             IF lo = hi THEN single ELSE Number(Bin(v.n, lo, hi, bins))]
<1>1. PICK single \in {Null} \union {Number(i) : i \in 0 .. bins} :
        \E u \in Derived(tab, c, {"number"}, new, "number", image(single)) :
           t \in AnyOrder(u, ToSet(u.rows))
  BY DEF BinColumn
<1>2. PICK u \in Derived(tab, c, {"number"}, new, "number", image(single)) :
        t \in AnyOrder(u, ToSet(u.rows))
  BY <1>1
<1>3. single \in CellsOf("number")
  BY TypedCells
<1>4. ASSUME IsOf(tab, c, {"number"}), NEW x \in Distinct(tab, c)
      PROVE  image(single)[x] \in CellsOf("number")
  <2>1. numbers # {} /\ x.n \in numbers
    OBVIOUS
  <2>2. numbers \subseteq Int /\ lo \in Int /\ hi \in Int /\ lo <= x.n /\ x.n <= hi
    BY <1>4, <2>1, NumbersBound
  <2>3. x.n \in Int
    BY <2>1, <2>2
  <2>4. CASE lo = hi
    <3>1. image(single)[x] = single
      BY <2>4
    <3> QED
      BY <1>3, <3>1
  <2>5. CASE lo # hi
    <3>1. image(single)[x] = Number(Bin(x.n, lo, hi, bins))
      BY <2>5
    <3> HIDE DEF lo, hi, numbers, image
    <3>2. lo < hi
      BY <2>2, <2>3, <2>5
    <3>3. \A n \in Int, l \in Int, h \in Int : l < h => Bin(n, l, h, bins) \in 0 .. bins - 1
      BY BinFits
    <3>4. Bin(x.n, lo, hi, bins) \in 0 .. bins - 1
      BY <2>2, <2>3, <3>2, <3>3
    <3>5. Bin(x.n, lo, hi, bins) \in Int
      BY <3>4
    <3> QED
      BY <3>1, <3>5, TypedCells
  <2> QED
    BY <2>4, <2>5
<1> HIDE DEF image
<1>5. IsOf(tab, c, {"number"}) => ImageFits(image(single), tab, c, "number")
  BY <1>4 DEF ImageFits, Types
<1>6. SameRows(u, tab)
  BY <1>2, <1>5, DerivedFacts
<1> QED
  BY <1>2, <1>6, ReorderedFacts DEF SameRows

LEMMA FlagFacts ==
  ASSUME NEW tab, IsTable(tab), NEW c, NEW new, NEW threshold,
         NEW t \in FlagOutliers(tab, c, new, threshold)
  PROVE  IsTable(t) /\ Len(t.rows) = Len(tab.rows)
<1> DEFINE image == [v \in Distinct(tab, c) |->
             IF Cardinality(NonNulls(tab, c)) = 1 THEN Null
             ELSE IF IsOutlier(tab, c, threshold, v.n) THEN Flag(TRUE) ELSE Flag(FALSE)]
<1>1. PICK u \in Derived(tab, c, {"number"}, new, "boolean", image) :
        t \in AnyOrder(u, ToSet(u.rows))
  BY DEF FlagOutliers
<1>2. \A x \in Distinct(tab, c) : image[x] \in {Null, Flag(TRUE), Flag(FALSE)}
  OBVIOUS
<1> HIDE DEF image
<1>3. {Null, Flag(TRUE), Flag(FALSE)} \subseteq CellsOf("boolean")
  BY CellsMade DEF CellsOf
<1>4. IsOf(tab, c, {"number"}) => ImageFits(image, tab, c, "boolean")
  BY <1>2, <1>3 DEF ImageFits, Types
<1>5. SameRows(u, tab)
  BY <1>1, <1>4, DerivedFacts
<1> QED
  BY <1>1, <1>5, ReorderedFacts DEF SameRows

LEMMA FillDownFacts ==
  ASSUME NEW tab, IsTable(tab), NEW c, NEW direction, NEW t \in FillDown(tab, c, direction)
  PROVE  IsTable(t) /\ Len(t.rows) = Len(tab.rows)
<1> DEFINE From(i) == {j \in NonNulls(tab, c) :
                         IF direction = "down" THEN j <= i ELSE j >= i}
           Nearest(i) == IF direction = "down" THEN Max(From(i)) ELSE Min(From(i))
           values == [i \in DOMAIN tab.rows |->
                        IF From(i) = {} THEN Null ELSE Value(tab, Nearest(i), c)]
           filled == WithColumn(tab, c, tab.type[c], values)
<1>1. c \in Names(tab) /\ t \in AnyOrder(filled, ToSet(filled.rows))
  BY DEF FillDown
<1>2. tab.type[c] \in Types
  BY <1>1, TableFacts
<1>3. ASSUME NEW i \in DOMAIN tab.rows
      PROVE  values[i] \in CellsOf(tab.type[c])
  <2>1. CASE From(i) = {}
    BY <2>1, TypedCells
  <2>2. CASE From(i) # {}
    <3>1. From(i) \in SUBSET NonNulls(tab, c)
      OBVIOUS
    <3>2. values[i] = Value(tab, Nearest(i), c)
      BY <2>2
    <3>3. NonNulls(tab, c) \subseteq Int /\ IsFiniteSet(NonNulls(tab, c))
          /\ NonNulls(tab, c) \subseteq DOMAIN tab.rows
      BY ColumnFacts, TableFacts
    <3> HIDE DEF From
    <3>4. IsFiniteSet(From(i)) /\ From(i) \subseteq Int
      BY <3>1, <3>3, FS_Subset
    <3>5. Min(From(i)) \in From(i) /\ Max(From(i)) \in From(i)
      BY <2>2, <3>4, Bounds
    <3>6. Nearest(i) \in DOMAIN tab.rows
      BY <3>1, <3>3, <3>5
    <3> HIDE DEF Nearest
    <3> QED
      BY <1>1, <3>2, <3>6, ValueFits
  <2> QED
    BY <2>1, <2>2
<1>4. ColumnFits(values, tab, tab.type[c])
  BY <1>3 DEF ColumnFits
<1> HIDE DEF values
<1>5. Extends(filled, tab, c, tab.type[c], values)
  BY <1>2, <1>4, WithColumnFacts
<1> HIDE DEF filled
<1>6. IsTable(filled) /\ Len(filled.rows) = Len(tab.rows)
  BY <1>5 DEF Extends, SameRows
<1> QED
  BY <1>1, <1>6, ReorderedFacts

(* An edit writes one row, and leaves every row where it is.               *)
LEMMA UpdateFacts ==
  ASSUME NEW tab, IsTable(tab), NEW c, NEW rowid \in Int, NEW value \in Cells,
         NEW t \in UpdateCell(tab, c, rowid, value)
  PROVE  /\ SameRows(t, tab)
         /\ \A i \in DOMAIN tab.rows : i # rowid + 1 => t.rows[i] = tab.rows[i]
<1>1. PICK v \in IF value = Null THEN {Null} ELSE Parsed(value, tab.type[c]) :
        t = WithColumn(tab, c, tab.type[c], [i \in DOMAIN tab.rows |->
              IF i = rowid + 1 THEN v ELSE Value(tab, i, c)])
  BY DEF UpdateCell
<1>2. c \in Names(tab)
  BY DEF UpdateCell
<1>3. tab.type[c] \in Types
  BY <1>2, TableFacts
<1>4. v \in CellsOf(tab.type[c])
  <2>1. CASE value = Null
    BY <1>1, <2>1, TypedCells
  <2>2. CASE value # Null
    BY <1>1, <1>3, <2>2, ParsedFits
  <2> QED
    BY <2>1, <2>2
<1> DEFINE values == [i \in DOMAIN tab.rows |->
              IF i = rowid + 1 THEN v ELSE Value(tab, i, c)]
<1>5. ColumnFits(values, tab, tab.type[c])
  BY <1>2, <1>4, ValueFits DEF ColumnFits
<1>6. \A i \in DOMAIN tab.rows : i # rowid + 1 => values[i] = tab.rows[i].val[c]
  BY DEF Value
<1>7. t = WithColumn(tab, c, tab.type[c], values)
  BY <1>1
<1> HIDE DEF values
<1>8. Extends(t, tab, c, tab.type[c], values)
  BY <1>3, <1>5, <1>7, WithColumnFacts
<1>9. SameRows(t, tab) /\ IsTable(t) /\ DOMAIN t.rows = DOMAIN tab.rows
  BY <1>8 DEF Extends, SameRows
<1>10. ASSUME NEW i \in DOMAIN tab.rows, i # rowid + 1
       PROVE  t.rows[i] = tab.rows[i]
  <2>1. t.rows[i].id = tab.rows[i].id
    BY <1>9 DEF SameRows
  <2>2. t.rows[i].val = Put(tab.rows[i].val, c, tab.rows[i].val[c])
    BY <1>6, <1>8, <1>10 DEF Extends
  <2>3. tab.rows[i].val = [d \in Names(tab) |-> tab.rows[i].val[d]]
    BY TableFacts
  <2>4. t.rows[i].val = tab.rows[i].val
    BY <1>2, <2>2, <2>3 DEF Put
  <2>5. /\ t.rows[i] = [id |-> t.rows[i].id, val |-> t.rows[i].val]
        /\ tab.rows[i] = [id |-> tab.rows[i].id, val |-> tab.rows[i].val]
    BY <1>9, TableFacts
  <2> QED
    BY <2>1, <2>4, <2>5
<1> QED
  BY <1>9, <1>10

-----------------------------------------------------------------------------
(* Every operation yields tables, all of them of the same number of rows,  *)
(* and those that keep the rows in place do.                               *)

TablesAlike(S) == \E n \in Nat : AllTables(S, n)
RowsKept(S, tab) == \A t \in S : SameRows(t, tab)

LEMMA AlikeIfKept ==
  ASSUME NEW tab, IsTable(tab), NEW S, RowsKept(S, tab)
  PROVE  TablesAlike(S)
<1>1. Len(tab.rows) \in Nat
  BY TableFacts
<1>2. AllTables(S, Len(tab.rows))
  BY DEF RowsKept, SameRows, AllTables
<1> QED
  BY <1>1, <1>2 DEF TablesAlike

LEMMA AlikeIfAsLong ==
  ASSUME NEW tab, IsTable(tab), NEW S, \A t \in S : IsTable(t) /\ Len(t.rows) = Len(tab.rows)
  PROVE  TablesAlike(S)
<1>1. Len(tab.rows) \in Nat
  BY TableFacts
<1>2. AllTables(S, Len(tab.rows))
  BY DEF AllTables
<1> QED
  BY <1>1, <1>2 DEF TablesAlike

(* The operations by what they do to the rows.                             *)
LEMMA KeepingOps ==
  ASSUME NEW tab, IsTable(tab), NEW o, IsOperation(o), KeepsRows(o)
  PROVE  RowsKept(Selected(tab, o), tab)
<1>1. CASE o.op = "cast"
  <2>1. Selected(tab, o) = Cast(tab, o.column, o.new_type, o.coerce) /\ o.new_type \in Types
    BY <1>1 DEF Selected, IsOperation
  <2> QED
    BY <2>1, CastFacts DEF RowsKept
<1>2. CASE o.op = "drop_column"
  <2>1. Selected(tab, o) = DropColumn(tab, o.column)
    BY <1>2 DEF Selected
  <2> QED
    BY <2>1, DropColumnFacts DEF RowsKept
<1>3. CASE o.op = "rename_column"
  <2>1. Selected(tab, o) = RenameColumn(tab, o.column, o.new_name)
    BY <1>3 DEF Selected
  <2> QED
    BY <2>1, RenameFacts DEF RowsKept
<1>4. CASE o.op = "string_normalize"
  <2>1. Selected(tab, o) = StringNormalize(tab, o) /\ NamesCase(o)
    BY <1>4 DEF Selected, IsOperation, NamesCase
  <2> QED
    BY <2>1, NormalizeFacts DEF RowsKept
<1>5. CASE o.op = "split_column"
  <2>1. Selected(tab, o) = SplitColumn(tab, o.column, o.new_column_name)
    BY <1>5 DEF Selected
  <2> QED
    BY <2>1, SplitFacts DEF RowsKept
<1>6. CASE o.op = "date_extract"
  <2>1. Selected(tab, o) = DateExtract(tab, o.column, o.new_column_name)
    BY <1>6 DEF Selected
  <2> QED
    BY <2>1, DateExtractFacts DEF RowsKept
<1>7. CASE o.op = "absolute_value"
  <2>1. Selected(tab, o) = AbsoluteValue(tab, o.column)
    BY <1>7 DEF Selected
  <2> QED
    BY <2>1, AbsoluteFacts DEF RowsKept
<1>8. CASE o.op = "calculated_column"
  <2>1. Selected(tab, o) = CalculatedColumn(tab, o.column, o.new_column_name)
    BY <1>8 DEF Selected
  <2> QED
    BY <2>1, CalculatedFacts DEF RowsKept
<1>9. CASE o.op = "update_cell"
  <2>1. /\ Selected(tab, o) = UpdateCell(tab, o.column, o.rowid, o.value)
        /\ o.rowid \in Int /\ o.value \in Cells
    BY <1>9 DEF Selected, IsOperation
  <2> QED
    BY <2>1, UpdateFacts DEF RowsKept
<1>10. CASE o.op = "impute_null" /\ o.strategy = "zero"
  <2>1. Selected(tab, o) = ImputeNull(tab, o.column, o.strategy)
    BY <1>10 DEF Selected
  <2> QED
    BY <1>10, <2>1, ImputeFacts DEF RowsKept
<1> QED
  BY <1>1, <1>2, <1>3, <1>4, <1>5, <1>6, <1>7, <1>8, <1>9, <1>10 DEF KeepsRows

LEMMA OtherOps ==
  ASSUME NEW tab, IsTable(tab), NEW o, IsOperation(o), ~ KeepsRows(o)
  PROVE  TablesAlike(Selected(tab, o))
<1>1. CASE o.op = "dedupe"
  <2>1. Selected(tab, o) = Dedupe(tab)
    BY <1>1 DEF Selected
  <2> QED
    BY <2>1, DedupeFacts DEF TablesAlike
<1>2. CASE o.op = "drop_null"
  <2>1. Selected(tab, o) = DropNull(tab, o.column)
    BY <1>2 DEF Selected
  <2>2. Cardinality(NonNulls(tab, o.column)) \in Nat
    BY ColumnFacts
  <2> QED
    BY <2>1, <2>2, DropNullFacts DEF TablesAlike
<1>3. CASE o.op = "impute_null"
  <2>1. Selected(tab, o) = ImputeNull(tab, o.column, o.strategy)
    BY <1>3 DEF Selected
  <2> QED
    BY <2>1, ImputeFacts, AlikeIfAsLong
<1>4. CASE o.op = "dedupe_subset"
  <2>1. Selected(tab, o) = DedupeSubset(tab, o.columns)
    BY <1>4 DEF Selected
  <2> QED
    BY <2>1, DedupeSubsetFacts DEF TablesAlike
<1>5. CASE o.op = "filter_rows"
  <2>1. Selected(tab, o) = FilterRows(tab, o.column, o.action)
    BY <1>5 DEF Selected
  <2> QED
    BY <2>1, FilterFacts DEF TablesAlike
<1>6. CASE o.op = "bin_column"
  <2>1. /\ Selected(tab, o) = BinColumn(tab, o.column, o.new_column_name, o.bins)
        /\ o.bins \in Nat \ {0}
    BY <1>6 DEF Selected, IsOperation
  <2> QED
    BY <2>1, BinColumnFacts, AlikeIfAsLong
<1>7. CASE o.op = "flag_outliers"
  <2>1. Selected(tab, o) = FlagOutliers(tab, o.column, o.new_column_name, o.threshold)
    BY <1>7 DEF Selected
  <2> QED
    BY <2>1, FlagFacts, AlikeIfAsLong
<1>8. CASE o.op = "fill_down"
  <2>1. Selected(tab, o) = FillDown(tab, o.column, o.direction)
    BY <1>8 DEF Selected
  <2> QED
    BY <2>1, FillDownFacts, AlikeIfAsLong
<1> QED
  BY <1>1, <1>2, <1>3, <1>4, <1>5, <1>6, <1>7, <1>8 DEF IsOperation, KeepsRows

LEMMA SelectedFacts ==
  ASSUME NEW tab, IsTable(tab), NEW o, IsOperation(o)
  PROVE  /\ TablesAlike(Selected(tab, o))
         /\ \A t \in Selected(tab, o) : IsTable(t)
         /\ KeepsRows(o) => RowsKept(Selected(tab, o), tab)
<1>1. TablesAlike(Selected(tab, o))
  BY KeepingOps, AlikeIfKept, OtherOps
<1> QED
  BY <1>1, KeepingOps DEF TablesAlike, AllTables

-----------------------------------------------------------------------------
(* The inductive invariant.  A request takes its statements in turn, and   *)
(* what it has seen so far explains what is left to do.                    *)

Kinds == {"none", "over", "scan", "grid", "profile", "chart", "preview"}

(* The statements a request has asked, or is to ask.                       *)
Met(r) == DOMAIN r.seen
Ever(r) == Met(r) \union r.todo

IsReader(r) ==
  /\ r = [kind |-> r.kind, arg |-> r.arg, todo |-> r.todo, seen |-> r.seen, picked |-> r.picked]
  /\ r.kind \in Kinds
  /\ Ever(r) \subseteq DOMAIN Turn
  /\ \A x \in Met(r) : IsTable(r.seen[x])
  /\ \A x \in Met(r), y \in r.todo : Turn[x] < Turn[y]

(* A histogram is drawn of a numeric column that held two numbers.         *)
ProfileAt(r) ==
  /\ {"schema", "stats"} \subseteq Ever(r)
  /\ "schema" \in Met(r) => r.arg \in Names(r.seen["schema"])
  /\ "bins" \in Ever(r) /\ "schema" \in Met(r) => r.seen["schema"].type[r.arg] = "number"
  /\ "bins" \in Ever(r) /\ "stats" \in Met(r) =>
       /\ IsOf(r.seen["stats"], r.arg, {"number"})
       /\ \E x, y \in Numbers(r.seen["stats"], r.arg) : x # y
  /\ "bins" \in Met(r) => IsOf(r.seen["bins"], r.arg, {"number"})

(* The keys and the series are the first of those that were counted.       *)
ChartAt(r) ==
  /\ DOMAIN r.arg \in {{"keys"}, {"keys", "series"}}
  /\ {"schema"} \union DOMAIN r.arg \subseteq Ever(r)
  /\ Ever(r) \subseteq {"schema", "matrix"} \union DOMAIN r.arg
  /\ DOMAIN r.picked = Met(r) \cap DOMAIN r.arg
  /\ \A s \in DOMAIN r.picked : r.picked[s] \in TopKeys(r.seen[s], r.arg[s], s = "keys")

(* Nulls are counted for a coercing cast.                                  *)
PreviewAt(r) ==
  /\ r.arg \in Previews
  /\ {"schema", "before", "after"} \subseteq Ever(r)
  /\ "coerced" \in Ever(r) /\ "schema" \in Met(r) => r.arg.op = "cast" /\ r.arg.coerce

Progress(r) ==
  /\ r.kind = "grid" => "window" \in Ever(r)
  /\ r.kind = "profile" => ProfileAt(r)
  /\ r.kind = "chart" => ChartAt(r)
  /\ r.kind = "preview" => PreviewAt(r)

(* The rows are where they were when the window was read.                  *)
InPlace ==
  reader.kind = "grid" /\ calm /\ "window" \in Met(reader) =>
    SameRows(table, reader.seen["window"])

IInv == TypeOK /\ IsReader(reader) /\ Progress(reader) /\ InPlace

LEMMA TurnFacts ==
  /\ \A x \in DOMAIN Turn : Turn[x] \in Int
  /\ \A x, y \in DOMAIN Turn : Turn[x] = Turn[y] => x = y
  /\ Turn["schema"] < Turn["stats"] /\ Turn["stats"] < Turn["bins"]
  /\ Turn["schema"] < Turn["values"] /\ Turn["schema"] < Turn["coerced"]
  /\ Turn["schema"] < Turn["keys"] /\ Turn["schema"] < Turn["before"]
  /\ \A x \in DOMAIN Turn : x # "schema" => Turn["schema"] < Turn[x]
BY DEF Turn

(* What a request q is after request r took statement s.                   *)
Took(q, r, s, tab, picked) ==
  /\ q = [kind |-> r.kind, arg |-> r.arg, todo |-> q.todo, seen |-> q.seen, picked |-> picked]
  /\ q.kind = r.kind /\ q.arg = r.arg /\ q.picked = picked
  /\ s \in r.todo /\ s \notin Met(r)
  /\ q.todo = (r.todo \ {s}) \ Skips(q)
  /\ Met(q) = Met(r) \union {s}
  /\ q.seen[s] = tab
  /\ \A x \in Met(r) : q.seen[x] = r.seen[x]

LEMMA TakingFacts ==
  ASSUME NEW r, IsReader(r), NEW s \in r.todo, NEW tab, NEW picked
  PROVE  LET u == Told(r, s, tab, picked)
         IN Took([u EXCEPT !.todo = @ \ Skips(u)], r, s, tab, picked)
<1> DEFINE u == Told(r, s, tab, picked)
           q == [u EXCEPT !.todo = @ \ Skips(u)]
<1>1. u = [kind |-> r.kind, arg |-> r.arg, todo |-> r.todo \ {s},
           seen |-> Put(r.seen, s, tab), picked |-> picked]
  BY DEF Told
<1> HIDE DEF u
<1>2. q = [kind |-> r.kind, arg |-> r.arg, todo |-> (r.todo \ {s}) \ Skips(u),
           seen |-> Put(r.seen, s, tab), picked |-> picked]
  BY <1>1
<1> HIDE DEF q
<1>3. /\ q.kind = u.kind /\ q.arg = u.arg /\ q.seen = u.seen /\ q.picked = u.picked
      /\ q.kind = r.kind /\ q.arg = r.arg /\ q.picked = picked
      /\ q.seen = Put(r.seen, s, tab)
      /\ q.todo = (r.todo \ {s}) \ Skips(u)
  BY <1>1, <1>2
<1>4. Skips(q) = Skips(u)
  BY <1>3 DEF Skips
<1>5. s \notin Met(r)
  <2>1. s \in DOMAIN Turn
    BY DEF IsReader, Ever
  <2>2. Turn[s] \in Int
    BY <2>1, TurnFacts
  <2>3. s \in Met(r) => Turn[s] < Turn[s]
    BY DEF IsReader
  <2> QED
    BY <2>2, <2>3
<1>6. /\ Met(q) = Met(r) \union {s}
      /\ q.seen[s] = tab
      /\ \A x \in Met(r) : q.seen[x] = r.seen[x]
  BY <1>3, <1>5 DEF Put, Met
<1>7. q = [kind |-> r.kind, arg |-> r.arg, todo |-> q.todo, seen |-> q.seen, picked |-> picked]
  BY <1>2, <1>3
<1>8. Took(q, r, s, tab, picked)
  BY <1>3, <1>4, <1>5, <1>6, <1>7 DEF Took
<1> QED
  BY <1>8 DEF q, u

LEMMA TookKeepsReader ==
  ASSUME NEW r, IsReader(r), NEW s, \A x \in r.todo : Turn[s] <= Turn[x],
         NEW tab, IsTable(tab), NEW picked, NEW q, Took(q, r, s, tab, picked)
  PROVE  IsReader(q)
<1>1. Ever(q) \subseteq Ever(r) /\ q.kind \in Kinds
  BY DEF Took, Ever, IsReader
<1>2. \A x \in Met(q) : IsTable(q.seen[x])
  BY DEF Took, IsReader
<1>3. ASSUME NEW x \in Met(q), NEW y \in q.todo
      PROVE  Turn[x] < Turn[y]
  <2>1. CASE x \in Met(r)
    BY <2>1, <1>3 DEF Took, IsReader
  <2>2. CASE x = s
    <3>1. y \in r.todo /\ y # s /\ s \in r.todo
      BY <1>3 DEF Took
    <3>2. s \in DOMAIN Turn /\ y \in DOMAIN Turn
      BY <3>1 DEF IsReader, Ever
    <3>3. Turn[s] \in Int /\ Turn[y] \in Int /\ Turn[s] # Turn[y] /\ Turn[s] <= Turn[y]
      BY <3>1, <3>2, TurnFacts
    <3> QED
      BY <2>2, <3>3
  <2> QED
    BY <2>1, <2>2 DEF Took
<1>4. q = [kind |-> q.kind, arg |-> q.arg, todo |-> q.todo, seen |-> q.seen, picked |-> q.picked]
  BY DEF Took
<1> QED
  BY <1>1, <1>2, <1>3, <1>4 DEF IsReader

(* Statement s is the next of request r, and table tab can answer it.      *)
Follows(q, r, s, tab, picked) ==
  /\ IsReader(r)
  /\ \A x \in r.todo : Turn[s] <= Turn[x]
  /\ IsTable(tab)
  /\ Answers(r, s, tab)
  /\ Took(q, r, s, tab, picked)

LEMMA FollowsFacts ==
  ASSUME NEW q, NEW r, NEW s, NEW tab, NEW picked, Follows(q, r, s, tab, picked)
  PROVE  /\ IsReader(q)
         /\ q.kind = r.kind /\ q.arg = r.arg /\ q.picked = picked
         /\ s \in Ever(r) /\ s \in Met(q) /\ s \notin Met(r)
         /\ Met(q) = Met(r) \union {s}
         /\ Ever(q) \subseteq Ever(r) /\ Ever(r) \subseteq Ever(q) \union Skips(q)
         /\ \A x \in q.todo : x \in r.todo /\ x \notin Skips(q)
         /\ \A x \in Met(r) : q.seen[x] = r.seen[x]
         /\ q.seen[s] = tab
         /\ \A x \in Ever(r) : Turn[x] < Turn[s] => x \in Met(r)
         /\ \A x \in Met(r) : Turn[x] < Turn[s]
         /\ s # "schema" /\ "schema" \in Ever(r) => "schema" \in Met(r)
         /\ s = "schema" => Met(r) = {}
<1>1. IsReader(q)
  BY TookKeepsReader DEF Follows
<1>2. s \in r.todo /\ s \in DOMAIN Turn /\ Turn[s] \in Int
  BY TurnFacts DEF Follows, Took, IsReader, Ever
<1>3. \A x \in Ever(r) : x \in DOMAIN Turn /\ Turn[x] \in Int
  BY TurnFacts DEF Follows, IsReader
<1>4. \A x \in Met(r) : Turn[x] < Turn[s]
  BY <1>2 DEF Follows, IsReader
<1>5. \A x \in Ever(r) : Turn[x] < Turn[s] => x \in Met(r)
  <2>1. \A x \in r.todo : ~ (Turn[x] < Turn[s])
    BY <1>2, <1>3 DEF Follows, Ever
  <2> QED
    BY <2>1 DEF Ever
<1>6. s # "schema" => Turn["schema"] < Turn[s]
  BY <1>2, TurnFacts
<1>7. s = "schema" => Met(r) = {}
  <2>1. ASSUME s = "schema", NEW x \in Met(r) PROVE FALSE
    <3>1. x \in DOMAIN Turn /\ Turn[x] < Turn["schema"] /\ Turn[x] \in Int
      BY <1>3, <1>4, <2>1 DEF Ever
    <3>2. Turn["schema"] \in Int /\ (x # "schema" => Turn["schema"] < Turn[x])
      BY <1>2, <2>1, <3>1, TurnFacts
    <3> QED
      BY <3>1, <3>2
  <2> QED
    BY <2>1
<1>8. /\ q.kind = r.kind /\ q.arg = r.arg /\ q.picked = picked
      /\ s \in Ever(r) /\ s \in Met(q) /\ s \notin Met(r)
      /\ Met(q) = Met(r) \union {s}
      /\ Ever(q) \subseteq Ever(r) /\ Ever(r) \subseteq Ever(q) \union Skips(q)
      /\ \A x \in q.todo : x \in r.todo /\ x \notin Skips(q)
      /\ \A x \in Met(r) : q.seen[x] = r.seen[x]
      /\ q.seen[s] = tab
  BY <1>2 DEF Follows, Took, Ever
<1> QED
  BY <1>1, <1>4, <1>5, <1>6, <1>7, <1>8

LEMMA TwoNumbers ==
  ASSUME NEW tab, NEW c, Distinct(tab, c) # {}, Cardinality(Numbers(tab, c)) # 1
  PROVE  \E x, y \in Numbers(tab, c) : x # y
<1>1. PICK x : x \in Numbers(tab, c)
  BY DEF Numbers
<1>2. Numbers(tab, c) # {x}
  BY FS_Singleton
<1> QED
  BY <1>1, <1>2

LEMMA ProfileStep ==
  ASSUME NEW q, NEW r, NEW s, NEW tab, NEW picked, Follows(q, r, s, tab, picked),
         r.kind = "profile", ProfileAt(r)
  PROVE  ProfileAt(q)
<1>1. Skips(q) \subseteq {"bins", "values"}
  BY FollowsFacts DEF Skips
<1>2. {"schema", "stats"} \subseteq Ever(q)
  BY <1>1, FollowsFacts DEF ProfileAt
<1>3. Asked(r) = {r.arg} /\ q.arg = r.arg
  BY FollowsFacts DEF Asked
<1>4. ASSUME "schema" \in Met(q)
      PROVE  q.arg \in Names(q.seen["schema"])
  <2>1. CASE s = "schema"
    <3>1. r.arg \in Names(tab)
      BY <1>3, <2>1 DEF Follows, Answers, Mentions
    <3> QED
      BY <1>3, <2>1, <3>1, FollowsFacts
  <2>2. CASE s # "schema"
    BY <1>3, <1>4, <2>2, FollowsFacts DEF ProfileAt
  <2> QED
    BY <2>1, <2>2
<1>5. ASSUME "bins" \in Ever(q), "schema" \in Met(q)
      PROVE  q.seen["schema"].type[q.arg] = "number"
  <2>1. CASE s = "schema"
    <3>1. "bins" \in q.todo
      BY <1>5, <2>1, FollowsFacts DEF Ever
    <3>2. "bins" \notin Skips(q)
      BY <3>1, FollowsFacts
    <3> QED
      BY <3>2, FollowsFacts DEF Skips
  <2>2. CASE s # "schema"
    BY <1>3, <1>5, <2>2, FollowsFacts DEF ProfileAt
  <2> QED
    BY <2>1, <2>2
<1>6. ASSUME "bins" \in Ever(q), s \in {"stats", "bins"}
      PROVE  IsOf(tab, q.arg, {"number"})
  <2>1. "schema" \in Met(r) /\ "schema" \in Met(q) /\ "bins" \in Ever(r)
    BY <1>6, FollowsFacts DEF ProfileAt
  <2>2. r.seen["schema"].type[r.arg] = "number"
    BY <2>1 DEF ProfileAt
  <2>3. Mentions(r, s) = {r.arg}
    BY <1>3, <1>6 DEF Mentions
  <2>4. r.arg \in Uses(r, s)
    BY <1>6, <2>2, <2>3 DEF Uses
  <2>5. r.arg \in Names(tab) /\ tab.type[r.arg] = "number"
    BY <2>2, <2>3, <2>4 DEF Follows, Answers
  <2> QED
    BY <1>3, <2>5 DEF IsOf
<1>7. ASSUME "bins" \in Ever(q), "stats" \in Met(q)
      PROVE  /\ IsOf(q.seen["stats"], q.arg, {"number"})
             /\ \E x, y \in Numbers(q.seen["stats"], q.arg) : x # y
  <2>1. CASE s = "stats"
    <3>1. "bins" \in Ever(r)
      BY <1>7, FollowsFacts
    <3>2. Turn["stats"] < Turn["bins"]
      BY TurnFacts
    <3>3. "bins" \notin Met(r)
      <4>1. "stats" \in DOMAIN Turn /\ "bins" \in DOMAIN Turn
        BY <2>1, <3>1, FollowsFacts DEF Follows, IsReader
      <4>2. Turn["stats"] \in Int /\ Turn["bins"] \in Int
        BY <4>1, TurnFacts
      <4>3. "bins" \in Met(r) => Turn["bins"] < Turn["stats"]
        BY <2>1, FollowsFacts
      <4> QED
        BY <3>2, <4>2, <4>3
    <3>4. "bins" \in q.todo
      BY <1>7, <2>1, <3>3, FollowsFacts DEF Ever
    <3>5. "bins" \notin Skips(q)
      BY <3>4, FollowsFacts
    <3>6. q.seen["schema"].type[q.arg] = "number"
      <4>1. "schema" \in Met(q)
        BY <2>1, FollowsFacts DEF ProfileAt
      <4> QED
        BY <1>5, <1>7, <4>1
    <3>7. "stats" \in DOMAIN q.seen
      BY <1>7 DEF Met
    <3>8. /\ Distinct(q.seen["stats"], q.arg) # {}
          /\ Cardinality(Numbers(q.seen["stats"], q.arg)) # 1
      BY <3>5, <3>6, <3>7, FollowsFacts DEF Skips
    <3> QED
      BY <1>6, <1>7, <2>1, <3>8, FollowsFacts, TwoNumbers
  <2>2. CASE s # "stats"
    <3>1. "stats" \in Met(r) /\ "bins" \in Ever(r) /\ q.seen["stats"] = r.seen["stats"]
      BY <1>7, <2>2, FollowsFacts
    <3> QED
      BY <1>3, <3>1 DEF ProfileAt
  <2> QED
    BY <2>1, <2>2
<1>8. ASSUME "bins" \in Met(q)
      PROVE  IsOf(q.seen["bins"], q.arg, {"number"})
  <2>1. CASE s = "bins"
    BY <1>6, <1>8, <2>1, FollowsFacts DEF Ever
  <2>2. CASE s # "bins"
    <3>1. "bins" \in Met(r) /\ q.seen["bins"] = r.seen["bins"]
      BY <1>8, <2>2, FollowsFacts
    <3> QED
      BY <1>3, <3>1 DEF ProfileAt
  <2> QED
    BY <2>1, <2>2
<1> QED
  BY <1>2, <1>4, <1>5, <1>7, <1>8 DEF ProfileAt

Chosen(picked, r, s, tab) ==
  IF s \in {"keys", "series"}
  THEN /\ DOMAIN picked = DOMAIN r.picked \union {s}
       /\ picked[s] \in TopKeys(tab, r.arg[s], s = "keys")
       /\ \A x \in DOMAIN r.picked \ {s} : picked[x] = r.picked[x]
  ELSE picked = r.picked

LEMMA PickingFacts ==
  ASSUME NEW r, NEW s, NEW tab, NEW picked \in Pickings(r, s, tab)
  PROVE  Chosen(picked, r, s, tab)
<1>1. CASE s \in {"keys", "series"}
  <2>1. PICK V \in TopKeys(tab, r.arg[s], s = "keys") : picked = Put(r.picked, s, V)
    BY <1>1 DEF Pickings
  <2> QED
    BY <1>1, <2>1 DEF Put, Chosen
<1>2. CASE s \notin {"keys", "series"}
  BY <1>2 DEF Pickings, Chosen
<1> QED
  BY <1>1, <1>2

LEMMA ChartStep ==
  ASSUME NEW q, NEW r, NEW s, NEW tab, NEW picked \in Pickings(r, s, tab),
         Follows(q, r, s, tab, picked),
         r.kind = "chart", ChartAt(r)
  PROVE  ChartAt(q)
<1>1. Chosen(q.picked, r, s, tab)
  BY PickingFacts, FollowsFacts
<1>2. q.arg = r.arg /\ Skips(q) \subseteq {"matrix"}
  BY FollowsFacts DEF Skips
<1>3. DOMAIN q.arg \in {{"keys"}, {"keys", "series"}}
  BY <1>2 DEF ChartAt
<1>4. {"schema"} \union DOMAIN q.arg \subseteq Ever(q)
  BY <1>2, <1>3, FollowsFacts DEF ChartAt
<1>5. Ever(q) \subseteq {"schema", "matrix"} \union DOMAIN q.arg
  BY <1>2, FollowsFacts DEF ChartAt
<1>6. /\ DOMAIN q.picked = Met(q) \cap DOMAIN q.arg
      /\ \A x \in DOMAIN q.picked : q.picked[x] \in TopKeys(q.seen[x], q.arg[x], x = "keys")
  <2>1. CASE s \in {"keys", "series"}
    <3>1. s \in DOMAIN r.arg
      BY <2>1, FollowsFacts DEF ChartAt
    <3>2. DOMAIN q.picked = DOMAIN r.picked \union {s}
      BY <1>1, <2>1 DEF Chosen
    <3>3. DOMAIN q.picked = Met(q) \cap DOMAIN q.arg
      BY <1>2, <3>1, <3>2, FollowsFacts DEF ChartAt
    <3>4. q.picked[s] \in TopKeys(q.seen[s], q.arg[s], s = "keys")
      BY <1>2, <1>1, <2>1, FollowsFacts DEF Chosen
    <3>5. ASSUME NEW x \in DOMAIN r.picked, x # s
          PROVE  q.picked[x] \in TopKeys(q.seen[x], q.arg[x], x = "keys")
      <4>1. q.picked[x] = r.picked[x]
        BY <1>1, <2>1, <3>5 DEF Chosen
      <4>2. x \in Met(r) /\ q.seen[x] = r.seen[x]
        BY FollowsFacts DEF ChartAt
      <4>3. r.picked[x] \in TopKeys(r.seen[x], r.arg[x], x = "keys")
        BY DEF ChartAt
      <4> QED
        BY <1>2, <4>1, <4>2, <4>3
    <3> QED
      BY <3>2, <3>3, <3>4, <3>5
  <2>2. CASE s \notin {"keys", "series"}
    <3>1. q.picked = r.picked
      BY <1>1, <2>2 DEF Chosen
    <3>2. s \notin DOMAIN q.arg
      BY <1>3, <2>2
    <3>3. DOMAIN q.picked = Met(q) \cap DOMAIN q.arg
      BY <1>2, <3>1, <3>2, FollowsFacts DEF ChartAt
    <3>4. ASSUME NEW x \in DOMAIN q.picked
          PROVE  q.picked[x] \in TopKeys(q.seen[x], q.arg[x], x = "keys")
      <4>1. x \in Met(r) /\ q.seen[x] = r.seen[x]
        BY <3>1, FollowsFacts DEF ChartAt
      <4>2. r.picked[x] \in TopKeys(r.seen[x], r.arg[x], x = "keys")
        BY <3>1 DEF ChartAt
      <4> QED
        BY <1>2, <3>1, <4>1, <4>2
    <3> QED
      BY <3>3, <3>4
  <2> QED
    BY <2>1, <2>2
<1> QED
  BY <1>3, <1>4, <1>5, <1>6 DEF ChartAt

LEMMA PreviewStep ==
  ASSUME NEW q, NEW r, NEW s, NEW tab, NEW picked, Follows(q, r, s, tab, picked),
         r.kind = "preview", PreviewAt(r)
  PROVE  PreviewAt(q)
<1>1. q.arg = r.arg /\ Skips(q) \subseteq {"coerced"}
  BY FollowsFacts DEF Skips
<1>2. {"schema", "before", "after"} \subseteq Ever(q)
  BY <1>1, FollowsFacts DEF PreviewAt
<1>3. ASSUME "coerced" \in Ever(q), "schema" \in Met(q)
      PROVE  q.arg.op = "cast" /\ q.arg.coerce
  <2>1. CASE s = "schema"
    <3>1. "coerced" \in q.todo
      BY <1>3, <2>1, FollowsFacts DEF Ever
    <3>2. "coerced" \notin Skips(q)
      BY <3>1, FollowsFacts
    <3> QED
      BY <3>2, FollowsFacts DEF Skips
  <2>2. CASE s # "schema"
    BY <1>1, <1>3, <2>2, FollowsFacts DEF PreviewAt
  <2> QED
    BY <2>1, <2>2
<1> QED
  BY <1>1, <1>2, <1>3 DEF PreviewAt

(* The invariant holds at first.                                           *)
LEMMA InitIInv == Init => IInv
<1> SUFFICES ASSUME Init PROVE IInv
  OBVIOUS
<1>1. IsTable(table) /\ TypeOK
  BY TableAssumption, BoundAssumption DEF Init, TypeOK, Idle, Reading
<1>2. reader = [kind |-> "none", arg |-> <<>>, todo |-> {}, seen |-> <<>>, picked |-> <<>>]
  BY DEF Init, Idle, Reading
<1>3. Met(reader) = {} /\ Ever(reader) = {} /\ reader.kind = "none"
  BY <1>2 DEF Met, Ever
<1>4. IsReader(reader)
  BY <1>2, <1>3 DEF IsReader, Kinds, Ever
<1> QED
  BY <1>1, <1>3, <1>4 DEF IInv, Progress, InPlace

LEMMA NewReader ==
  ASSUME NEW kind \in Kinds, NEW arg, NEW todo \in SUBSET DOMAIN Turn
  PROVE  LET r == Reading(kind, arg, todo)
         IN /\ r.kind = kind /\ r.arg = arg /\ r.todo = todo /\ r.picked = <<>>
            /\ Met(r) = {} /\ Ever(r) = todo /\ IsReader(r)
<1> DEFINE r == Reading(kind, arg, todo)
<1>1. r = [kind |-> kind, arg |-> arg, todo |-> todo, seen |-> <<>>, picked |-> <<>>]
  BY DEF Reading
<1> HIDE DEF r
<1>2. /\ r.kind = kind /\ r.arg = arg /\ r.todo = todo /\ r.seen = <<>> /\ r.picked = <<>>
      /\ Met(r) = {} /\ Ever(r) = todo
  BY <1>1 DEF Met, Ever
<1>3. IsReader(r)
  BY <1>1, <1>2 DEF IsReader, Ever
<1> QED
  BY <1>2, <1>3 DEF r

LEMMA OverFacts == Over.kind = "over" /\ Met(Over) = {} /\ Over.todo = {} /\ IsReader(Over)
<1>1. Over = [kind |-> "over", arg |-> <<>>, todo |-> {}, seen |-> <<>>, picked |-> <<>>]
  BY DEF Over, Reading
<1>2. Over.kind = "over" /\ Met(Over) = {} /\ Ever(Over) = {} /\ Over.todo = {}
  BY <1>1 DEF Met, Ever
<1> QED
  BY <1>1, <1>2 DEF IsReader, Kinds, Ever

(* Which operation a finding offers, and what its dialog sends.            *)
Offered(f, o) ==
  \/ /\ f.code \in {"empty_column", "constant"}
     /\ o.op = "drop_column" /\ o.column = f.column
  \/ /\ f.code \in {"high_null", "partial_null"}
     /\ o = AskUser("impute_null", f.column) /\ f.fixes = {o}
  \/ /\ f.code \in {"text_as_date", "text_as_number", "mixed_values"}
     /\ o.op = "cast" /\ o.column = f.column
     /\ o.new_type \in {"date", "number"} /\ o.coerce
  \/ /\ f.code \in {"whitespace", "hidden_null"}
     /\ o = AskUser("string_normalize", f.column) /\ f.fixes = {o}
  \/ /\ f.code = "inconsistent_case" /\ "trim" \in DOMAIN o
     /\ o.op = "string_normalize" /\ o.column = f.column /\ o.null_token = Null
     /\ o.trim /\ o.case = "lower" /\ ~ o.strip_special /\ ~ o.collapse_whitespace
  \/ /\ f.code = "inconsistent_values" /\ "trim" \in DOMAIN o
     /\ o.op = "string_normalize" /\ o.column = f.column /\ o.null_token = Null
     /\ ~ o.trim /\ o.case = "lower" /\ o.strip_special /\ o.collapse_whitespace
  \/ /\ f.code = "negative_values" /\ o.column = f.column
     /\ o.op = "absolute_value" \/ (o.op = "filter_rows" /\ o.action = "keep")
  \/ f.code = "duplicate_rows" /\ o.op = "dedupe"

AllOffered(S) == \A f \in S : \A o \in f.fixes : Offered(f, o)

LEMMA OfferedEach ==
  /\ AllOffered({})
  /\ \A S, T : AllOffered(S) /\ AllOffered(T) => AllOffered(S \union T)
  /\ \A S, p : AllOffered(S) => AllOffered(IF p THEN S ELSE {})
  /\ \A f : f.fixes = {} => AllOffered({f})
  /\ \A f, o : f.fixes = {o} /\ Offered(f, o) => AllOffered({f})
BY DEF AllOffered

LEMMA StructuralOffered ==
  ASSUME NEW s, NEW c
  PROVE  AllOffered(Structural(s, c))
<1> DEFINE drop == [op |-> "drop_column", column |-> c]
           fill == {AskUser("impute_null", c)}
<1>1. ASSUME NEW code \in {"empty_column", "constant"}
      PROVE  AllOffered({Finding(code, c, {drop})})
  <2>1. Finding(code, c, {drop}).fixes = {drop} /\ Offered(Finding(code, c, {drop}), drop)
    BY DEF Finding, Offered
  <2> QED
    BY <2>1, OfferedEach
<1>2. ASSUME NEW code \in {"high_null", "partial_null"}
      PROVE  AllOffered({Finding(code, c, fill)})
  <2>2. /\ Finding(code, c, fill).code = code /\ Finding(code, c, fill).column = c
        /\ Finding(code, c, fill).fixes = fill
    BY DEF Finding
  <2> QED
    BY <2>2 DEF Offered, AllOffered
<1>3. \/ Structural(s, c) = {}
      \/ \E code \in {"empty_column", "constant"} :
           Structural(s, c) = {Finding(code, c, {drop})}
      \/ \E code \in {"high_null", "partial_null"} :
           Structural(s, c) = {Finding(code, c, fill)}
  BY DEF Structural
<1> HIDE DEF drop, fill
<1> QED
  BY <1>1, <1>2, <1>3, OfferedEach

LEMMA TypedOffered ==
  ASSUME NEW s, NEW c
  PROVE  AllOffered(Typed(s, c))
<1>1. ASSUME NEW code \in {"text_as_date", "text_as_number", "mixed_values"},
             NEW type \in {"date", "number"}
      PROVE  AllOffered({Finding(code, c, {CastTo(c, type, TRUE)})})
  <2> DEFINE o == CastTo(c, type, TRUE)
             f == Finding(code, c, {o})
  <2>1. o.op = "cast" /\ o.column = c /\ o.new_type = type /\ o.coerce
    BY DEF CastTo
  <2> HIDE DEF o
  <2>2. f.code = code /\ f.column = c /\ f.fixes = {o}
    BY DEF Finding
  <2> HIDE DEF f
  <2>3. Offered(f, o)
    BY <2>1, <2>2 DEF Offered
  <2>4. AllOffered({f})
    BY <2>2, <2>3, OfferedEach
  <2> QED
    BY <2>4 DEF f, o
<1>2. AllOffered({Finding("mixed_date_format", c, {})})
  <2>1. Finding("mixed_date_format", c, {}).fixes = {}
    BY DEF Finding
  <2> QED
    BY <2>1, OfferedEach
<1>3. \/ Typed(s, c) \in {{}, {Finding("mixed_date_format", c, {})}}
      \/ \E code \in {"text_as_date", "text_as_number", "mixed_values"},
            type \in {"date", "number"} :
           Typed(s, c) = {Finding(code, c, {CastTo(c, type, TRUE)})}
  BY DEF Typed
<1> QED
  BY <1>1, <1>2, <1>3, OfferedEach

LEMMA WrittenOffered ==
  ASSUME NEW s, NEW c
  PROVE  AllOffered(Written(s, c))
<1>1. ASSUME NEW code, NEW o, Offered(Finding(code, c, {o}), o)
      PROVE  AllOffered({Finding(code, c, {o})})
  <2>1. Finding(code, c, {o}).fixes = {o}
    BY DEF Finding
  <2> QED
    BY <1>1, <2>1, OfferedEach
<1> DEFINE ask == AskUser("string_normalize", c)
<1>2. ASSUME NEW code \in {"whitespace", "hidden_null"}
      PROVE  AllOffered({Finding(code, c, {ask})})
  <2> DEFINE f == Finding(code, c, {ask})
  <2>1. f.code = code /\ f.column = c /\ f.fixes = {ask}
    BY DEF Finding
  <2> HIDE DEF f
  <2>2. Offered(f, ask)
    BY <2>1 DEF Offered
  <2>3. AllOffered({f})
    BY <2>1, <2>2, OfferedEach
  <2> QED
    BY <2>3 DEF f
<1>3. /\ AllOffered({Finding("whitespace", c, {ask})})
      /\ AllOffered({Finding("hidden_null", c, {ask})})
  BY <1>2
<1>4. AllOffered({Finding("inconsistent_case", c, {Rewrite(c, TRUE, "lower", FALSE, FALSE)})})
  <2>1. Offered(Finding("inconsistent_case", c, {Rewrite(c, TRUE, "lower", FALSE, FALSE)}),
                Rewrite(c, TRUE, "lower", FALSE, FALSE))
    BY DEF Offered, Rewrite, Finding
  <2> QED
    BY <1>1, <2>1
<1>5. AllOffered({Finding("inconsistent_values", c, {Rewrite(c, FALSE, "lower", TRUE, TRUE)})})
  <2>1. Offered(Finding("inconsistent_values", c, {Rewrite(c, FALSE, "lower", TRUE, TRUE)}),
                Rewrite(c, FALSE, "lower", TRUE, TRUE))
    BY DEF Offered, Rewrite, Finding
  <2> QED
    BY <1>1, <2>1
<1>6. PICK p1, p2, p3, p4 :
        Written(s, c) =
          (IF p1 THEN {Finding("whitespace", c, {ask})} ELSE {})
          \union (IF p2 THEN {Finding("hidden_null", c, {ask})} ELSE {})
          \union (IF p3 THEN {Finding("inconsistent_case", c,
                                {Rewrite(c, TRUE, "lower", FALSE, FALSE)})} ELSE {})
          \union (IF p4 THEN {Finding("inconsistent_values", c,
                                {Rewrite(c, FALSE, "lower", TRUE, TRUE)})} ELSE {})
  BY DEF Written
<1> QED
  BY <1>3, <1>4, <1>5, <1>6, OfferedEach

LEMMA InvalidOffered ==
  ASSUME NEW s, NEW c
  PROVE  AllOffered(Invalid(s, c))
<1> DEFINE keep == [op |-> "filter_rows", column |-> c, action |-> "keep"]
           abs == [op |-> "absolute_value", column |-> c]
           both == {keep, abs}
           f == Finding("negative_values", c, both)
           g == Finding("future_date", c, {})
<1>1. \A o \in both :
        o.column = c /\ (o.op = "absolute_value" \/ (o.op = "filter_rows" /\ o.action = "keep"))
  <2>1. keep.op = "filter_rows" /\ keep.column = c /\ keep.action = "keep"
    OBVIOUS
  <2>2. abs.op = "absolute_value" /\ abs.column = c
    OBVIOUS
  <2> HIDE DEF keep, abs
  <2> QED
    BY <2>1, <2>2
<1>2. Invalid(s, c) \in {{}, {f}, {g}, {f, g}}
  BY DEF Invalid
<1> HIDE DEF both
<1>3. f.code = "negative_values" /\ f.column = c /\ f.fixes = both /\ g.fixes = {}
  BY DEF Finding
<1> HIDE DEF f, g
<1>4. \A o \in both : Offered(f, o)
  BY <1>1, <1>3 DEF Offered
<1> QED
  BY <1>2, <1>3, <1>4 DEF AllOffered

(* Where a finding comes from.                                             *)
LEMMA FindingOrigin ==
  ASSUME NEW s, NEW f \in Findings(s)
  PROVE  \/ \E c \in Names(s["schema"]) : f \in OfColumn(s, c)
         \/ f = Repeated /\ Duplicates(s) > 0
BY DEF Findings

LEMMA FixesOffered ==
  ASSUME NEW s
  PROVE  AllOffered(Findings(s))
<1>1. AllOffered({Repeated})
  <2>1. Repeated.fixes = {[op |-> "dedupe"]} /\ Offered(Repeated, [op |-> "dedupe"])
    BY DEF Offered, Finding, Repeated
  <2> QED
    BY <2>1, OfferedEach
<1>2. ASSUME NEW c PROVE AllOffered(OfColumn(s, c))
  BY OfferedEach, StructuralOffered, TypedOffered, WrittenOffered, InvalidOffered DEF OfColumn
<1>3. ASSUME NEW f \in Findings(s), NEW o \in f.fixes
      PROVE  Offered(f, o)
  BY <1>1, <1>2, FindingOrigin DEF AllOffered
<1> QED
  BY <1>3 DEF AllOffered

Sends(f, o) ==
  \/ /\ f.code \in {"high_null", "partial_null"}
     /\ o.op = "impute_null" /\ o.column = f.column
  \/ /\ f.code \in {"whitespace", "hidden_null"}
     /\ o.op = "string_normalize" /\ o.column = f.column /\ NamesCase(o)
  \/ f.code \notin {"high_null", "partial_null", "whitespace", "hidden_null"} /\ Offered(f, o)

LEMMA AskedParts ==
  ASSUME NEW op, NEW c
  PROVE  /\ AskUser(op, c).op = op /\ AskUser(op, c).column = c
         /\ DOMAIN AskUser(op, c) = {"op", "column"}
BY DEF AskUser

LEMMA SentFacts ==
  ASSUME NEW s, NEW f \in Findings(s), NEW o \in Sent(f, s)
  PROVE  Sends(f, o)
<1> DEFINE c == f.column
           fill == AskUser("impute_null", c)
           norm == AskUser("string_normalize", c)
<1>1. \A x \in f.fixes : Offered(f, x)
  BY FixesOffered DEF AllOffered
<1>2. /\ fill.op = "impute_null" /\ norm.op = "string_normalize"
      /\ "trim" \notin DOMAIN fill /\ "trim" \notin DOMAIN norm
  BY AskedParts
<1>3. Sent(f, s) =
        IF f.fixes = {fill}
        THEN {[op |-> "impute_null", column |-> c, strategy |-> x] : x \in Strategies}
        ELSE IF f.fixes = {norm}
        THEN {[op |-> "string_normalize", column |-> c, trim |-> x.trim, case |-> x.case,
               strip_special |-> x.strip_special,
               collapse_whitespace |-> x.collapse_whitespace, null_token |-> x.null_token] :
                x \in Normalizations(Tokens(s["strings"], c))}
        ELSE f.fixes
  BY DEF Sent
<1> HIDE DEF fill, norm
<1>4. CASE f.fixes = {fill}
  <2>1. Offered(f, fill)
    BY <1>1, <1>4
  <2>2. f.code \in {"high_null", "partial_null"}
    <3>1. fill # norm
      BY <1>2
    <3> QED
      BY <1>2, <2>1, <3>1 DEF Offered, fill, norm
  <2>3. PICK x \in Strategies : o = [op |-> "impute_null", column |-> c, strategy |-> x]
    BY <1>3, <1>4
  <2> QED
    BY <2>2, <2>3 DEF Sends
<1>5. CASE f.fixes # {fill} /\ f.fixes = {norm}
  <2>1. Offered(f, norm)
    BY <1>1, <1>5
  <2>2. f.code \in {"whitespace", "hidden_null"}
    <3>1. fill # norm
      BY <1>2
    <3> QED
      BY <1>2, <2>1, <3>1 DEF Offered, fill, norm
  <2>3. PICK x \in Normalizations(Tokens(s["strings"], c)) :
          o = [op |-> "string_normalize", column |-> c, trim |-> x.trim, case |-> x.case,
               strip_special |-> x.strip_special,
               collapse_whitespace |-> x.collapse_whitespace, null_token |-> x.null_token]
    BY <1>3, <1>5
  <2>4. x.case \in DialogCases
    BY DEF Normalizations
  <2>5. o.op = "string_normalize" /\ o.column = c /\ o.case = x.case
    BY <2>3
  <2>6. NamesCase(o)
    BY <2>4, <2>5, DialogAssumption DEF NamesCase
  <2> QED
    BY <2>2, <2>5, <2>6 DEF Sends
<1>6. CASE f.fixes # {fill} /\ f.fixes # {norm}
  <2>1. o \in f.fixes
    BY <1>3, <1>6
  <2>2. Offered(f, o)
    BY <1>1, <2>1
  <2>3. f.code \notin {"high_null", "partial_null", "whitespace", "hidden_null"}
    BY <1>6, <2>2 DEF Offered, fill, norm
  <2> QED
    BY <2>2, <2>3 DEF Sends
<1> QED
  BY <1>4, <1>5, <1>6

LEMMA SentIsOperation ==
  ASSUME NEW f, NEW o, Sends(f, o)
  PROVE  IsOperation(o)
BY DEF Sends, Offered, IsOperation, NamesCase, Types

LEMMA RequestFacts ==
  ASSUME NEW tab, IsTable(tab), NEW r \in Requests(tab)
  PROVE  IsReader(r) /\ Progress(r) /\ Met(r) = {} /\ r.kind # "none"
<1> DEFINE Good(q) == IsReader(q) /\ Progress(q) /\ Met(q) = {} /\ q.kind # "none"
<1>1. DOMAIN Turn = {"schema", "counts", "total", "stats", "keys", "before", "strings", "window",
                     "series", "after", "rows", "ranges", "bins", "values", "matrix", "coerced"}
  BY DEF Turn
<1>2. CASE r = Reading("scan", <<>>, ScanStatements)
  <2>1. ScanStatements \in SUBSET DOMAIN Turn /\ "scan" \in Kinds
    BY <1>1 DEF ScanStatements, Kinds
  <2>2. IsReader(r) /\ r.kind = "scan" /\ Met(r) = {}
    BY <1>2, <2>1, NewReader
  <2> QED
    BY <2>2 DEF Progress
<1>3. ASSUME NEW w \in Windows, r = Reading("grid", w, {"schema", "total", "window"})
      PROVE  Good(r)
  <2>1. {"schema", "total", "window"} \in SUBSET DOMAIN Turn /\ "grid" \in Kinds
    BY <1>1 DEF Kinds
  <2>2. IsReader(r) /\ r.kind = "grid" /\ Met(r) = {}
        /\ Ever(r) = {"schema", "total", "window"}
    BY <1>3, <2>1, NewReader
  <2> QED
    BY <2>2 DEF Progress
<1>4. ASSUME NEW c \in Names(tab), r = Reading("profile", c, {"schema", "stats", "bins", "values"})
      PROVE  Good(r)
  <2>1. {"schema", "stats", "bins", "values"} \in SUBSET DOMAIN Turn /\ "profile" \in Kinds
    BY <1>1 DEF Kinds
  <2>2. /\ IsReader(r) /\ r.kind = "profile" /\ Met(r) = {}
        /\ Ever(r) = {"schema", "stats", "bins", "values"}
    BY <1>4, <2>1, NewReader
  <2> QED
    BY <2>2 DEF Progress, ProfileAt
<1>5. ASSUME NEW arg, DOMAIN arg \in {{"keys"}, {"keys", "series"}}, NEW todo,
             todo = {"schema"} \union DOMAIN arg
               \/ todo = {"schema", "matrix"} \union DOMAIN arg,
             r = Reading("chart", arg, todo)
      PROVE  Good(r)
  <2>1. todo \in SUBSET DOMAIN Turn /\ "chart" \in Kinds
    BY <1>1, <1>5 DEF Kinds
  <2>2. /\ IsReader(r) /\ r.kind = "chart" /\ Met(r) = {} /\ r.arg = arg
        /\ Ever(r) = todo /\ r.picked = <<>>
    BY <1>5, <2>1, NewReader
  <2>3. ChartAt(r)
    BY <1>5, <2>2 DEF ChartAt
  <2> QED
    BY <2>2, <2>3 DEF Progress
<1>6. ASSUME NEW o \in Previews,
             r = Reading("preview", o, {"schema", "before", "after", "coerced"})
      PROVE  Good(r)
  <2>1. {"schema", "before", "after", "coerced"} \in SUBSET DOMAIN Turn /\ "preview" \in Kinds
    BY <1>1 DEF Kinds
  <2>2. /\ IsReader(r) /\ r.kind = "preview" /\ Met(r) = {} /\ r.arg = o
        /\ Ever(r) = {"schema", "before", "after", "coerced"}
    BY <1>6, <2>1, NewReader
  <2> QED
    BY <2>2 DEF Progress, PreviewAt
<1>7. \/ r = Reading("scan", <<>>, ScanStatements)
      \/ \E w \in Windows : r = Reading("grid", w, {"schema", "total", "window"})
      \/ \E c \in Names(tab) : r = Reading("profile", c, {"schema", "stats", "bins", "values"})
      \/ \E c \in Names(tab) : r = Reading("chart", [x \in {"keys"} |-> c], {"schema", "keys"})
      \/ \E by \in [{"keys", "series"} -> Names(tab)] :
           r = Reading("chart", by, {"schema", "keys", "series", "matrix"})
      \/ \E o \in Previews : r = Reading("preview", o, {"schema", "before", "after", "coerced"})
  BY DEF Requests
<1>8. ASSUME NEW c \in Names(tab), r = Reading("chart", [x \in {"keys"} |-> c], {"schema", "keys"})
      PROVE  Good(r)
  <2> DEFINE arg == [x \in {"keys"} |-> c]
  <2>1. DOMAIN arg = {"keys"} /\ {"schema", "keys"} = {"schema"} \union DOMAIN arg
    OBVIOUS
  <2>2. r = Reading("chart", arg, {"schema", "keys"})
    BY <1>8
  <2> HIDE DEF arg
  <2> QED
    BY <1>5, <2>1, <2>2
<1>9. ASSUME NEW by \in [{"keys", "series"} -> Names(tab)],
             r = Reading("chart", by, {"schema", "keys", "series", "matrix"})
      PROVE  Good(r)
  <2>1. DOMAIN by = {"keys", "series"}
        /\ {"schema", "keys", "series", "matrix"} = {"schema", "matrix"} \union DOMAIN by
    OBVIOUS
  <2> QED
    BY <1>5, <1>9, <2>1
<1> QED
  BY <1>2, <1>3, <1>4, <1>6, <1>7, <1>8, <1>9

-----------------------------------------------------------------------------
(* The steps.                                                              *)

SameRowsAgain(u, t, tab) == SameRows(u, t) /\ SameRows(t, tab) => SameRows(u, tab)

LEMMA RowsStayPut ==
  ASSUME NEW tab, NEW t, NEW u
  PROVE  SameRowsAgain(u, t, tab) /\ (IsTable(tab) => SameRows(tab, tab))
BY DEF SameRowsAgain, SameRows

LEMMA AskStep == IInv /\ Ask => IInv'
<1> SUFFICES ASSUME IInv, Ask PROVE IInv'
  OBVIOUS
<1>1. IsTable(table) /\ reader' \in Requests(table) /\ UNCHANGED <<table, changes, edits, calm>>
  BY DEF IInv, TypeOK, Ask
<1>2. IsReader(reader') /\ Progress(reader') /\ Met(reader') = {}
  BY <1>1, RequestFacts
<1>3. TypeOK'
  BY <1>1, <1>2 DEF IInv, TypeOK, IsReader, Kinds
<1>4. InPlace'
  BY <1>2 DEF InPlace
<1> QED
  BY <1>2, <1>3, <1>4 DEF IInv

LEMMA ReadTakes ==
  ASSUME IInv, Read
  PROVE  \E s : \E picked \in Pickings(reader, s, table) :
           /\ Follows(reader', reader, s, table, picked)
           /\ calm' = (calm \/ s = "window")
<1> USE DEF IInv
<1>1. PICK s \in reader.todo :
        /\ \A x \in reader.todo : Turn[s] <= Turn[x]
        /\ Answers(reader, s, table)
        /\ \E picked \in Pickings(reader, s, table) :
             LET r == Told(reader, s, table, picked)
             IN reader' = [r EXCEPT !.todo = @ \ Skips(r)]
        /\ calm' = (calm \/ s = "window")
  BY DEF Read
<1>2. PICK picked \in Pickings(reader, s, table) :
        LET r == Told(reader, s, table, picked)
        IN reader' = [r EXCEPT !.todo = @ \ Skips(r)]
  BY <1>1
<1>3. IsReader(reader) /\ IsTable(table)
  BY DEF TypeOK
<1>4. Took(reader', reader, s, table, picked)
  BY <1>2, <1>3, TakingFacts
<1>5. Follows(reader', reader, s, table, picked)
  BY <1>1, <1>3, <1>4 DEF Follows
<1> QED
  BY <1>1, <1>5

LEMMA ReadStep == IInv /\ Read => IInv'
<1> SUFFICES ASSUME IInv, Read PROVE IInv'
  OBVIOUS
<1> PICK s : \E picked \in Pickings(reader, s, table) :
               /\ Follows(reader', reader, s, table, picked)
               /\ calm' = (calm \/ s = "window")
  BY ReadTakes
<1>1. PICK picked \in Pickings(reader, s, table) :
        /\ Follows(reader', reader, s, table, picked)
        /\ calm' = (calm \/ s = "window")
  OBVIOUS
<1>2. UNCHANGED <<table, changes, edits>>
  BY DEF Read
<1>3. IsReader(reader') /\ reader'.kind = reader.kind
  BY <1>1, FollowsFacts
<1>4. TypeOK'
  BY <1>1, <1>2, <1>3 DEF IInv, TypeOK, IsReader, Kinds
<1>5. Progress(reader')
  <2>1. Progress(reader)
    BY DEF IInv
  <2>2. reader.kind = "grid" => "window" \in Ever(reader')
    <3>1. reader.kind = "grid" => Skips(reader') = {}
      BY <1>3 DEF Skips
    <3> QED
      BY <1>1, <2>1, <3>1, FollowsFacts DEF Progress
  <2>3. reader.kind = "profile" => ProfileAt(reader')
    BY <1>1, <2>1, ProfileStep DEF Progress
  <2>4. reader.kind = "chart" => ChartAt(reader')
    BY <1>1, <2>1, ChartStep DEF Progress
  <2>5. reader.kind = "preview" => PreviewAt(reader')
    BY <1>1, <2>1, PreviewStep DEF Progress
  <2> QED
    BY <1>3, <2>3, <2>4, <2>5, <2>2 DEF Progress
<1>6. InPlace'
  <2> SUFFICES ASSUME reader'.kind = "grid", calm', "window" \in Met(reader')
               PROVE  SameRows(table', reader'.seen["window"])
    BY DEF InPlace, Met
  <2>1. CASE s = "window"
    <3>1. reader'.seen["window"] = table
      BY <1>1, <2>1, FollowsFacts
    <3> QED
      BY <1>2, <3>1, RowsStayPut DEF IInv, TypeOK
  <2>2. CASE s # "window"
    <3>1. "window" \in Met(reader) /\ reader'.seen["window"] = reader.seen["window"]
      BY <1>1, <2>2, FollowsFacts
    <3> QED
      BY <1>1, <1>2, <1>3, <2>2, <3>1 DEF IInv, InPlace
  <2> QED
    BY <2>1, <2>2
<1> QED
  BY <1>3, <1>4, <1>5, <1>6 DEF IInv

(* A request that is over no longer matters.                               *)
LEMMA EndStep ==
  ASSUME IInv, reader' = Over, IsTable(table'), UNCHANGED <<changes, edits, calm>>
  PROVE  IInv'
<1>1. reader'.kind = "over" /\ IsReader(reader')
  BY OverFacts
<1>2. TypeOK'
  BY <1>1 DEF IInv, TypeOK
<1> QED
  BY <1>1, <1>2 DEF IInv, Progress, InPlace

LEMMA ReadErrorStep == IInv /\ ReadError => IInv'
BY EndStep DEF ReadError, IInv, TypeOK

LEMMA TransformStep == \A o \in Ops : IInv /\ Transform(o) => IInv'
<1> SUFFICES ASSUME NEW o \in Ops, IInv, Transform(o) PROVE IInv'
  OBVIOUS
<1>1. IsTable(table) /\ IsOperation(o) /\ table' \in Selected(table, o)
  BY OperationAssumption DEF IInv, TypeOK, Transform
<1>2. IsTable(table') /\ (KeepsRows(o) => SameRows(table', table))
  BY <1>1, SelectedFacts DEF RowsKept
<1>3. /\ changes' = changes + 1 /\ changes < MaxChanges /\ UNCHANGED <<reader, edits>>
      /\ calm' = (calm /\ KeepsRows(o))
  BY DEF Transform
<1>4. changes' \in 0 .. MaxChanges
  BY <1>3, BoundAssumption DEF IInv, TypeOK
<1>5. calm' \in BOOLEAN /\ (calm' => calm /\ KeepsRows(o))
  BY <1>3
<1>6. TypeOK'
  BY <1>2, <1>3, <1>4, <1>5 DEF IInv, TypeOK
<1>7. InPlace'
  <2> SUFFICES ASSUME reader.kind = "grid", calm', "window" \in Met(reader)
               PROVE  SameRows(table', reader.seen["window"])
    BY <1>3 DEF InPlace, Met
  <2>1. SameRows(table, reader.seen["window"]) /\ SameRows(table', table)
    BY <1>2, <1>5 DEF IInv, InPlace
  <2> QED
    BY <2>1, RowsStayPut DEF SameRowsAgain
<1> QED
  BY <1>3, <1>6, <1>7 DEF IInv, Progress, Met

LEMMA FixStep ==
  ASSUME IInv, NEW f \in Report, NEW o \in Sent(f, reader.seen), Fix(o)
  PROVE  IInv'
<1>1. f \in Findings(reader.seen)
  BY DEF Report
<1>2. IsOperation(o)
  BY <1>1, SentFacts, SentIsOperation
<1>3. IsTable(table')
  BY <1>2, SelectedFacts DEF IInv, TypeOK, Fix
<1> QED
  BY <1>3, EndStep DEF Fix

(* An edit of the window: the row it goes to, and the other rows.          *)
LEMMA EditFacts ==
  ASSUME IInv, NEW e, NEW c, NEW value \in CellValues, Edit(e, c, value)
  PROVE  /\ SameRows(table', table)
         /\ reader.kind = "grid" /\ "window" \in Met(reader) /\ e.rowid \in Int
         /\ e.rowid + 1 \in DOMAIN reader.seen["window"].rows
         /\ e.id = reader.seen["window"].rows[e.rowid + 1].id
         /\ \A i \in DOMAIN table.rows :
              i # e.rowid + 1 => table'.rows[i] = table.rows[i]
<1>1. e \in Page(reader) /\ reader.kind = "grid" /\ reader.todo = {}
  BY DEF Edit, Shown, Answered
<1>2. PICK i \in InWindow(reader) :
        e = [rowid |-> i - 1, id |-> reader.seen["window"].rows[i].id]
  BY <1>1 DEF Page
<1>3. i \in DOMAIN reader.seen["window"].rows
  BY DEF InWindow
<1>4. "window" \in Met(reader)
  BY <1>1 DEF IInv, Progress, Ever
<1>5. IsTable(reader.seen["window"])
  BY <1>4 DEF IInv, IsReader
<1>6. i \in Int
  BY <1>3, <1>5, TableFacts
<1>7. e.rowid = i - 1 /\ e.rowid + 1 = i /\ e.id = reader.seen["window"].rows[i].id
  BY <1>2, <1>6
<1>8. table' \in UpdateCell(table, c, e.rowid, value) /\ IsTable(table) /\ e.rowid \in Int
      /\ value \in Cells
  BY <1>6, <1>7, ValueAssumption DEF Edit, IInv, TypeOK
<1> QED
  BY <1>1, <1>3, <1>4, <1>7, <1>8, UpdateFacts

LEMMA EditStep ==
  ASSUME IInv, NEW e, NEW c, NEW value \in CellValues, Edit(e, c, value)
  PROVE  IInv'
<1>1. SameRows(table', table) /\ reader.kind = "grid" /\ "window" \in Met(reader)
  BY EditFacts
<1>2. /\ UNCHANGED <<reader, changes, calm>>
      /\ edits < MaxEdits /\ edits' = edits + 1
  BY DEF Edit
<1>3. edits' \in 0 .. MaxEdits
  BY <1>2, BoundAssumption DEF IInv, TypeOK
<1>4. TypeOK'
  BY <1>1, <1>2, <1>3 DEF IInv, TypeOK, SameRows
<1>5. InPlace'
  <2>1. calm => SameRows(table, reader.seen["window"])
    BY <1>1 DEF IInv, InPlace
  <2>2. calm => SameRows(table', reader.seen["window"])
    BY <1>1, <2>1, RowsStayPut DEF SameRowsAgain
  <2> QED
    BY <1>2, <2>2 DEF InPlace
<1> QED
  BY <1>2, <1>4, <1>5 DEF IInv, Progress, Met

LEMMA NextIInv == IInv /\ [Next]_vars => IInv'
<1> SUFFICES ASSUME IInv, [Next]_vars PROVE IInv'
  OBVIOUS
<1>1. CASE Ask
  BY <1>1, AskStep
<1>2. CASE Read
  BY <1>2, ReadStep
<1>3. CASE ReadError
  BY <1>3, ReadErrorStep
<1>4. CASE \E o \in Ops : Transform(o)
  BY <1>4, TransformStep
<1>5. CASE \E f \in Report : \E o \in Sent(f, reader.seen) : Fix(o)
  BY <1>5, FixStep
<1>6. CASE \E e \in Shown, c \in Names(table), value \in CellValues : Edit(e, c, value)
  BY <1>6, EditStep
<1>7. CASE UNCHANGED vars
  BY <1>7 DEF vars, IInv, TypeOK, Progress, InPlace, Met
<1> QED
  BY <1>1, <1>2, <1>3, <1>4, <1>5, <1>6, <1>7 DEF Next

LEMMA Invariance == Spec => []IInv
<1> QED
  BY InitIInv, NextIInv, PTL DEF Spec

-----------------------------------------------------------------------------
(* Every operation the request models admit, on every table, leaves a      *)
(* table: values of the columns' types and no row twice (_compile_op).     *)
THEOREM TypeCorrect == Spec => []TypeOK
<1>1. IInv => TypeOK
  BY DEF IInv
<1> QED
  BY <1>1, Invariance, PTL

(* An edit reaches the row the user saw and no other, as long as no        *)
(* request moved rows since the window was read (update_cell's rowid).     *)
THEOREM EditsHit == Spec => EditHitsItsRow
<1>1. ASSUME IInv, NEW e \in Shown, NEW c \in Names(table), NEW value \in CellValues,
             Edit(e, c, value), calm
      PROVE  /\ DOMAIN table'.rows = DOMAIN table.rows
             /\ \A i \in DOMAIN table.rows :
                  /\ table'.rows[i].id = table.rows[i].id
                  /\ table'.rows[i].id # e.id => table'.rows[i] = table.rows[i]
  <2>1. /\ SameRows(table', table)
        /\ \A i \in DOMAIN table.rows :
             i # e.rowid + 1 => table'.rows[i] = table.rows[i]
    BY <1>1, EditFacts
  <2>2. /\ e.id = reader.seen["window"].rows[e.rowid + 1].id
        /\ e.rowid + 1 \in DOMAIN reader.seen["window"].rows
        /\ SameRows(table, reader.seen["window"])
    BY <1>1, EditFacts DEF IInv, InPlace
  <2>3. e.id = table.rows[e.rowid + 1].id /\ e.rowid + 1 \in DOMAIN table.rows
    BY <2>2 DEF SameRows
  <2>4. table'.rows[e.rowid + 1].id = e.id
    BY <2>1, <2>3 DEF SameRows
  <2> QED
    BY <2>1, <2>4 DEF SameRows
<1>2. IInv /\ [Next]_vars =>
        [\A e \in Shown, c \in Names(table), value \in CellValues :
           Edit(e, c, value) /\ calm =>
             /\ DOMAIN table'.rows = DOMAIN table.rows
             /\ \A i \in DOMAIN table.rows :
                  /\ table'.rows[i].id = table.rows[i].id
                  /\ table'.rows[i].id # e.id => table'.rows[i] = table.rows[i]]_vars
  BY <1>1
<1> QED
  BY <1>2, Invariance, PTL DEF Spec, EditHitsItsRow

-----------------------------------------------------------------------------
(* What a reader is told.                                                  *)

LEMMA HistogramIsComplete == IInv => HistogramSumsUp
<1> SUFFICES ASSUME IInv, Answered("profile"), "bins" \in Met(reader)
             PROVE  Total(Histogram(reader)) =
                      Cardinality(NonNulls(reader.seen["bins"], reader.arg))
  BY DEF HistogramSumsUp, Met
<1> DEFINE c == reader.arg
           tab == reader.seen["bins"]
           stats == reader.seen["stats"]
           numbers == Numbers(stats, c)
           S == NonNulls(tab, c)
           lo == Min(numbers)
           hi == Max(numbers)
           f == [i \in S |-> Bin(Value(tab, i, c).n, lo, hi, HistBins)]
           h == Histogram(reader)
<1>1. reader.kind = "profile" /\ reader.todo = {} /\ ProfileAt(reader) /\ IsReader(reader)
  BY DEF IInv, Progress, Answered
<1>2. "stats" \in Met(reader) /\ "bins" \in Ever(reader)
  BY <1>1 DEF ProfileAt, Ever
<1>3. IsTable(tab) /\ IsTable(stats)
  BY <1>1, <1>2 DEF IsReader
<1>4. /\ IsOf(tab, c, {"number"}) /\ IsOf(stats, c, {"number"})
      /\ \E x, y \in numbers : x # y
  BY <1>1, <1>2 DEF ProfileAt
<1>5. lo \in Int /\ hi \in Int /\ lo < hi
  <2>1. numbers = {v.n : v \in Distinct(stats, c)}
    BY DEF Numbers
  <2> HIDE DEF numbers
  <2>2. PICK x \in numbers, y \in numbers : x # y
    BY <1>4
  <2>3. numbers # {} /\ numbers \subseteq Int
        /\ (numbers # {} => /\ Min(numbers) \in Int /\ Max(numbers) \in Int
                            /\ \A v \in Distinct(stats, c) :
                                 Min(numbers) <= v.n /\ v.n <= Max(numbers))
    BY <1>3, <1>4, <2>1, <2>2, NumbersBound
  <2>4. \A z \in numbers : lo <= z /\ z <= hi /\ z \in Int
    BY <2>1, <2>3
  <2>5. lo <= x /\ x <= hi /\ lo <= y /\ y <= hi /\ x \in Int /\ y \in Int
    BY <2>4
  <2> QED
    BY <2>2, <2>3, <2>5
<1>6. IsFiniteSet(S)
  BY <1>3, ColumnFacts
<1>7. DOMAIN h = 0 .. HistBins - 1
      /\ \A b \in DOMAIN h : h[b] = Cardinality({i \in S : Bin(Value(tab, i, c).n, lo, hi, HistBins) = b})
  BY DEF Histogram, Holding
<1>8. ASSUME NEW i \in S PROVE f[i] \in DOMAIN h
  <2>1. Value(tab, i, c).n \in Int
    <3>1. Value(tab, i, c) \in Distinct(tab, c)
      BY DEF Distinct
    <3>2. Value(tab, i, c) \in Cells /\ Value(tab, i, c).is = "number"
      BY <1>3, <1>4, <3>1, ColumnFacts DEF IsOf
    <3> QED
      BY <3>2, CellShapes
  <2> HIDE DEF lo, hi
  <2>2. Bin(Value(tab, i, c).n, lo, hi, HistBins) \in 0 .. HistBins - 1
    BY <1>5, <2>1, ChartAssumption, BinFits
  <2> QED
    BY <1>7, <2>2
<1>9. \A b : {i \in S : Bin(Value(tab, i, c).n, lo, hi, HistBins) = b} = {i \in S : f[i] = b}
  OBVIOUS
<1>10. \A b \in DOMAIN h : h[b] = Cardinality({i \in S : f[i] = b})
  BY <1>7, <1>9
<1>11. {i \in S : f[i] \in DOMAIN h} = S
  BY <1>8
<1> HIDE DEF f, h, S
<1>12. Total(h) = Cardinality({i \in S : f[i] \in DOMAIN h})
  BY <1>6, <1>10, TotalOfFibres
<1>13. Total(h) = Cardinality(S)
  BY <1>11, <1>12
<1> QED
  BY <1>13 DEF h, S

(* A selection of the largest is all there is unless it fills the limit.   *)
AllOrFull(V, S, max) ==
  /\ V \subseteq S
  /\ Cardinality(V) \in Nat /\ Cardinality(V) <= Cardinality(S)
  /\ Cardinality(V) = Cardinality(S) <=> Cardinality(S) <= max
  /\ V = S <=> Cardinality(S) <= max
  /\ Cardinality(V) < max => V = S

LEMMA LargestFacts ==
  ASSUME NEW S, IsFiniteSet(S), NEW max \in Nat, NEW V \in SUBSET S,
         Cardinality(V) = Min({max, Cardinality(S)})
  PROVE  AllOrFull(V, S, max)
<1>1. Cardinality(S) \in Nat /\ Cardinality(V) \in Nat /\ Cardinality(V) <= Cardinality(S)
      /\ (Cardinality(V) = Cardinality(S) => V = S)
  BY FS_CardinalityType, FS_Subset
<1>2. PICK n \in Nat : n = Cardinality(S)
  BY <1>1
<1>3. /\ Min({max, n}) \in {max, n} /\ Min({max, n}) <= max /\ Min({max, n}) <= n
  BY MinOfTwo
<1>4. Cardinality(V) = Min({max, n})
  BY <1>2
<1>5. Cardinality(V) \in {max, n} /\ Cardinality(V) <= max /\ Cardinality(V) <= n
  BY <1>3, <1>4
<1>6. Cardinality(V) = Cardinality(S) <=> Cardinality(S) <= max
  BY <1>1, <1>2, <1>5
<1>7. Cardinality(V) < max => V = S
  BY <1>1, <1>2, <1>5
<1>8. V = S <=> Cardinality(S) <= max
  BY <1>1, <1>6
<1> QED
  BY <1>1, <1>6, <1>7, <1>8 DEF AllOrFull

LEMMA TopValuesFacts ==
  ASSUME NEW r, IsTable(r.seen["values"]), NEW V \in TopValues(r)
  PROVE  AllOrFull(V, Distinct(r.seen["values"], r.arg), TopN)
<1> DEFINE D == Distinct(r.seen["values"], r.arg)
<1>1. V \in SUBSET D /\ Cardinality(V) = Min({TopN, Cardinality(D)})
  BY DEF TopValues, Largest
<1>2. IsFiniteSet(D)
  BY ColumnFacts
<1> HIDE DEF D
<1>3. TopN \in Nat
  BY ChartAssumption
<1>4. AllOrFull(V, D, TopN)
  BY <1>1, <1>2, <1>3, LargestFacts
<1> QED
  BY <1>4 DEF D

LEMMA ValuesFinite ==
  ASSUME NEW tab, IsTable(tab), NEW c
  PROVE  IsFiniteSet(Values(tab, c))
<1> DEFINE f == [i \in DOMAIN tab.rows |-> Value(tab, i, c)]
<1>1. Values(tab, c) = ImageOf(f, DOMAIN tab.rows)
  BY DEF Values, ImageOf
<1>2. IsFiniteSet(DOMAIN tab.rows)
  BY ColumnFacts
<1> HIDE DEF f
<1> QED
  BY <1>1, <1>2, ImageSize

LEMMA TopKeysFacts ==
  ASSUME NEW tab, IsTable(tab), NEW c, NEW inTime, NEW V \in TopKeys(tab, c, inTime)
  PROVE  AllOrFull(V, Values(tab, c), Limit)
<1>1. V \in SUBSET Values(tab, c) /\ Cardinality(V) = Min({Limit, Cardinality(Values(tab, c))})
  BY DEF TopKeys, Largest
<1>2. Limit \in Nat
  BY ChartAssumption
<1> QED
  BY <1>1, <1>2, ValuesFinite, LargestFacts

LEMMA RowsCounted ==
  ASSUME NEW tab, NEW c, NEW x
  PROVE  Rows(tab, c, x) = Cardinality({i \in DOMAIN tab.rows : Value(tab, i, c) = x})
BY DEF Rows, Count

(* The counts of the rows by a column, for some of its values.             *)
LEMMA RowsSumUp ==
  ASSUME NEW tab, IsTable(tab), NEW c, NEW V, NEW h, DOMAIN h = V,
         \A x \in V : h[x] = Rows(tab, c, x)
  PROVE  Total(h) = Cardinality({i \in DOMAIN tab.rows : Value(tab, i, c) \in V})
<1> DEFINE S == DOMAIN tab.rows
           f == [i \in S |-> Value(tab, i, c)]
<1>1. IsFiniteSet(S)
  BY ColumnFacts
<1>2. \A x : {i \in S : f[i] = x} = {i \in DOMAIN tab.rows : Value(tab, i, c) = x}
  OBVIOUS
<1>3. {i \in S : f[i] \in V} = {i \in DOMAIN tab.rows : Value(tab, i, c) \in V}
  OBVIOUS
<1> HIDE DEF f, S
<1>4. \A x \in DOMAIN h : h[x] = Cardinality({i \in S : f[i] = x})
  BY <1>2, RowsCounted
<1>5. Total(h) = Cardinality({i \in S : f[i] \in DOMAIN h})
  BY <1>1, <1>4, TotalOfFibres
<1> QED
  BY <1>3, <1>5

LEMMA TopValuesAreAll == IInv => TopValuesFit
<1> SUFFICES ASSUME IInv, Steady("profile"), "values" \in Met(reader),
                    NEW V \in TopValues(reader)
             PROVE  LET tab == reader.seen["stats"]
                        c == reader.arg
                        all == Cardinality(NonNulls(tab, c))
                        shown == Total([x \in V |-> Rows(reader.seen["values"], c, x)])
                    IN shown <= all /\ (shown = all <=> Cardinality(Distinct(tab, c)) <= TopN)
  BY DEF TopValuesFit, Met
<1> DEFINE c == reader.arg
           tab == reader.seen["values"]
           h == [x \in V |-> Rows(tab, c, x)]
           held == {i \in DOMAIN tab.rows : Value(tab, i, c) \in V}
           S == NonNulls(tab, c)
<1>1. /\ reader.kind = "profile" /\ reader.todo = {} /\ ProfileAt(reader) /\ IsReader(reader)
      /\ \A s \in Met(reader) : reader.seen[s] = reader.seen["schema"]
  BY DEF IInv, Progress, Steady, Answered, Met
<1>2. "stats" \in Met(reader)
  BY <1>1 DEF ProfileAt, Ever
<1>3. reader.seen["stats"] = tab /\ IsTable(tab)
  BY <1>1, <1>2 DEF IsReader
<1>4. AllOrFull(V, Distinct(tab, c), TopN)
  BY <1>3, TopValuesFacts
<1>5. Total(h) = Cardinality(held)
  <2>1. DOMAIN h = V /\ \A x \in V : h[x] = Rows(tab, c, x)
    OBVIOUS
  <2> HIDE DEF h
  <2> QED
    BY <1>3, <2>1, RowsSumUp
<1>6. V \subseteq Distinct(tab, c)
  BY <1>4 DEF AllOrFull
<1>7. held \in SUBSET S
  <2>1. \A i \in held : Value(tab, i, c) \in Distinct(tab, c)
    BY <1>6
  <2>2. Null \notin Distinct(tab, c)
    BY DEF Distinct, NonNulls
  <2> QED
    BY <2>1, <2>2 DEF NonNulls
<1>8. held = S <=> V = Distinct(tab, c)
  <2>1. ASSUME held = S PROVE V = Distinct(tab, c)
    <3>1. ASSUME NEW x \in Distinct(tab, c) PROVE x \in V
      <4>1. PICK i \in S : x = Value(tab, i, c)
        BY DEF Distinct
      <4> QED
        BY <2>1, <4>1
    <3> QED
      BY <1>6, <3>1
  <2>2. ASSUME V = Distinct(tab, c) PROVE held = S
    <3>1. \A i \in S : i \in DOMAIN tab.rows /\ Value(tab, i, c) \in Distinct(tab, c)
      BY DEF NonNulls, Distinct
    <3> QED
      BY <1>7, <2>2, <3>1
  <2> QED
    BY <2>1, <2>2
<1>9. IsFiniteSet(S)
  BY <1>3, ColumnFacts
<1> HIDE DEF S, held, h, tab
<1>10. /\ Cardinality(S) \in Nat /\ Cardinality(held) \in Nat
       /\ Cardinality(held) <= Cardinality(S)
       /\ (Cardinality(held) = Cardinality(S) <=> held = S)
  BY <1>7, <1>9, FS_Subset, FS_CardinalityType
<1>11. /\ Total(h) <= Cardinality(S)
       /\ Total(h) = Cardinality(S) <=> Cardinality(Distinct(tab, c)) <= TopN
  BY <1>4, <1>5, <1>8, <1>10 DEF AllOrFull
<1> QED
  BY <1>3, <1>11 DEF S, h, tab

(* When the chart is not truncated, every value was picked.                *)
LEMMA AllPicked ==
  ASSUME IInv, Answered("chart"), ~ Truncated(reader)
  PROVE  /\ DOMAIN reader.picked = DOMAIN reader.arg
         /\ \A s \in DOMAIN reader.arg :
              /\ IsTable(reader.seen[s])
              /\ reader.picked[s] = Values(reader.seen[s], reader.arg[s])
<1>1. reader.todo = {} /\ ChartAt(reader) /\ IsReader(reader)
  BY DEF IInv, Progress, Answered
<1>2. DOMAIN reader.picked = DOMAIN reader.arg /\ DOMAIN reader.arg \subseteq Met(reader)
  BY <1>1 DEF ChartAt, Ever
<1>3. ASSUME NEW s \in DOMAIN reader.arg
      PROVE  /\ IsTable(reader.seen[s])
             /\ reader.picked[s] = Values(reader.seen[s], reader.arg[s])
  <2>1. IsTable(reader.seen[s])
    BY <1>1, <1>2 DEF IsReader
  <2>2. reader.picked[s] \in TopKeys(reader.seen[s], reader.arg[s], s = "keys")
    BY <1>1, <1>2 DEF ChartAt
  <2>3. AllOrFull(reader.picked[s], Values(reader.seen[s], reader.arg[s]), Limit)
    BY <2>1, <2>2, TopKeysFacts
  <2>4. ~ (Cardinality(reader.picked[s]) >= Limit)
    BY <1>2 DEF Truncated
  <2>5. Cardinality(reader.picked[s]) < Limit
    BY <2>3, <2>4, ChartAssumption DEF AllOrFull
  <2> QED
    BY <2>1, <2>3, <2>5 DEF AllOrFull
<1> QED
  BY <1>2, <1>3

LEMMA BarsSumUp ==
  ASSUME IInv, Answered("chart"), ~ Truncated(reader)
  PROVE  Total(Bars(reader)) = Len(reader.seen["keys"].rows)
<1> DEFINE tab == reader.seen["keys"]
           c == reader.arg["keys"]
           h == Bars(reader)
           V == reader.picked["keys"]
<1>1. "keys" \in DOMAIN reader.arg
  BY DEF IInv, Progress, Answered, ChartAt
<1>2. IsTable(tab) /\ V = Values(tab, c)
  BY <1>1, AllPicked
<1>3. DOMAIN h = V /\ \A x \in V : h[x] = Rows(tab, c, x)
  BY DEF Bars
<1> HIDE DEF h, V, tab, c
<1>4. Total(h) = Cardinality({i \in DOMAIN tab.rows : Value(tab, i, c) \in V})
  BY <1>2, <1>3, RowsSumUp
<1>5. {i \in DOMAIN tab.rows : Value(tab, i, c) \in V} = DOMAIN tab.rows
  BY <1>2 DEF Values
<1>6. Total(h) = Len(tab.rows)
  BY <1>2, <1>4, <1>5, ColumnFacts
<1> QED
  BY <1>6 DEF h, tab

LEMMA MatrixSumsUp ==
  ASSUME IInv, Steady("chart"), ~ Truncated(reader), "series" \in DOMAIN reader.arg,
         "matrix" \in Met(reader)
  PROVE  Total(Matrix(reader)) = Len(reader.seen["matrix"].rows)
<1> DEFINE tab == reader.seen["matrix"]
           k == reader.arg["keys"]
           s == reader.arg["series"]
           P == reader.picked["keys"]
           Q == reader.picked["series"]
           h == Matrix(reader)
           S == DOMAIN tab.rows
           Pair(i) == <<Value(tab, i, k), Value(tab, i, s)>>
           f == [i \in S |-> Pair(i)]
<1>1. /\ "keys" \in DOMAIN reader.arg /\ DOMAIN reader.arg \subseteq Met(reader)
      /\ IsReader(reader) /\ Answered("chart")
      /\ \A x \in Met(reader) : reader.seen[x] = reader.seen["schema"]
  BY DEF IInv, Progress, Steady, Answered, ChartAt, Ever, Met
<1>2. reader.seen["keys"] = tab /\ reader.seen["series"] = tab /\ IsTable(tab)
  BY <1>1 DEF IsReader
<1>3. P = Values(tab, k) /\ Q = Values(tab, s)
  BY <1>1, <1>2, AllPicked
<1>4. DOMAIN h = P \X Q
      /\ \A cell \in DOMAIN h :
           h[cell] = Cardinality({i \in DOMAIN tab.rows : /\ IsIn(Value(tab, i, k), P)
                                                          /\ IsIn(Value(tab, i, s), Q)
                                                          /\ <<Value(tab, i, k), Value(tab, i, s)>> = cell})
  BY DEF Matrix, Count
<1>5. ASSUME NEW i \in S PROVE Value(tab, i, k) \in P /\ Value(tab, i, s) \in Q
  BY <1>3 DEF Values
<1>6. \A cell : {i \in DOMAIN tab.rows : /\ IsIn(Value(tab, i, k), P)
                                         /\ IsIn(Value(tab, i, s), Q)
                                         /\ <<Value(tab, i, k), Value(tab, i, s)>> = cell}
                = {i \in S : f[i] = cell}
  BY <1>5 DEF IsIn
<1>7. {i \in S : f[i] \in P \X Q} = S
  BY <1>5
<1>8. IsFiniteSet(S) /\ Cardinality(S) = Len(tab.rows)
  BY <1>2, ColumnFacts
<1>9. \A cell \in DOMAIN h : h[cell] = Cardinality({i \in S : f[i] = cell})
  BY <1>4, <1>6
<1> HIDE DEF h, P, Q, S, f
<1>10. Total(h) = Cardinality({i \in S : f[i] \in DOMAIN h})
  BY <1>8, <1>9, TotalOfFibres
<1>11. Total(h) = Cardinality(S)
  BY <1>4, <1>7, <1>10
<1> QED
  BY <1>8, <1>11 DEF h

LEMMA ChartIsComplete == IInv => ChartSumsUp
BY BarsSumUp, MatrixSumsUp DEF ChartSumsUp, Met

LEMMA PreviewIsRight == IInv => PreviewKeepsItsWord
<1> SUFFICES ASSUME IInv, Steady("preview"), table = reader.seen["schema"],
                    NEW t \in Selected(table, reader.arg)
             PROVE  LET o == reader.arg
                        Nulls(tab) == Len(tab.rows) - Cardinality(NonNulls(tab, o.column))
                    IN /\ RowsAfter(reader) = {Len(t.rows)}
                       /\ "coerced" \in DOMAIN reader.seen => Nulls(t) - Nulls(table) = Coerced(reader)
  BY DEF PreviewKeepsItsWord
<1> DEFINE o == reader.arg
           c == o.column
<1>1. /\ reader.todo = {} /\ PreviewAt(reader) /\ IsReader(reader) /\ IsTable(table)
      /\ \A s \in Met(reader) : reader.seen[s] = table
  BY DEF IInv, TypeOK, Progress, Steady, Answered, Met
<1>2. IsOperation(o) /\ {"schema", "after"} \subseteq Met(reader)
  BY <1>1, OperationAssumption DEF PreviewAt, Ever
<1>3. RowsAfter(reader) = {Len(t.rows)}
  <2>1. RowsAfter(reader) = {Len(u.rows) : u \in Selected(table, o)}
    BY <1>1, <1>2 DEF RowsAfter
  <2>2. PICK n \in Nat : \A u \in Selected(table, o) : Len(u.rows) = n
    BY <1>1, <1>2, SelectedFacts DEF TablesAlike, AllTables
  <2> QED
    BY <2>1, <2>2
<1>4. ASSUME "coerced" \in Met(reader)
      PROVE  (Len(t.rows) - Cardinality(NonNulls(t, c)))
               - (Len(table.rows) - Cardinality(NonNulls(table, c))) = Coerced(reader)
  <2>1. o.op = "cast" /\ o.coerce
    BY <1>1, <1>2, <1>4 DEF PreviewAt, Ever
  <2>2. o.new_type \in Types /\ t \in Cast(table, c, o.new_type, o.coerce)
    BY <1>2, <2>1 DEF IsOperation, Selected
  <2>3. /\ SameRows(t, table)
        /\ NonNulls(t, c) = {i \in NonNulls(table, c) :
                               Parsed(Value(table, i, c), o.new_type) # {}}
    BY <1>1, <2>2, CastFacts
  <2>4. Parses(table, c, o.new_type) = Cardinality(NonNulls(t, c))
    BY <2>3 DEF Parses, Holding
  <2>5. Coerced(reader) = Cardinality(NonNulls(table, c)) - Cardinality(NonNulls(t, c))
    BY <1>1, <1>4, <2>4 DEF Coerced
  <2>6. /\ Len(t.rows) = Len(table.rows) /\ Len(table.rows) \in Nat /\ IsTable(t)
    BY <1>1, <2>3, TableFacts DEF SameRows
  <2>7. Cardinality(NonNulls(table, c)) \in Nat /\ Cardinality(NonNulls(t, c)) \in Nat
    BY <1>1, <2>6, ColumnFacts
  <2> QED
    BY <2>5, <2>6, <2>7
<1> QED
  BY <1>3, <1>4 DEF Met

(* The histogram, the most frequent values, the charts and the dry run     *)
(* (profile_service, aggregate_service, preview) say what is so.           *)
THEOREM AnswersTrue == Spec => []AnswersAreTrue
<1>1. IInv => AnswersAreTrue
  BY HistogramIsComplete, TopValuesAreAll, ChartIsComplete, PreviewIsRight
  DEF AnswersAreTrue
<1> QED
  BY <1>1, Invariance, PTL

-----------------------------------------------------------------------------
(* What rewriting a text twice does.                                       *)

Bare(sep) == IF sep = "dots" THEN "none" ELSE IF sep = "spread" THEN "spaces" ELSE sep
Single(sep) == IF sep = "spaces" THEN "space" ELSE sep
Lower(core, letters) == IF core = Word THEN "lower" ELSE letters

Reads(t, core, letters, sep, pad) ==
  /\ t \in Texts
  /\ t.core = core /\ t.letters = letters /\ t.sep = sep /\ t.pad = pad

LEMMA SameText ==
  ASSUME NEW core, NEW letters, NEW sep, NEW pad, NEW x, NEW y,
         Reads(x, core, letters, sep, pad), Reads(y, core, letters, sep, pad)
  PROVE  x = y
BY DEF Texts, Reads

LEMMA TrimReads ==
  ASSUME NEW t \in Texts
  PROVE  Reads(Trim(t), t.core, t.letters, t.sep, FALSE)
<1>1. Trim(t) \in Texts
  BY TextSteps
<1> QED
  BY <1>1 DEF Texts, Trim, Reads

LEMMA CasedReads ==
  ASSUME NEW t \in Texts
  PROVE  Reads(Cased(t, "lower"), t.core, Lower(t.core, t.letters), t.sep, t.pad)
<1> DEFINE letters == Lower(t.core, t.letters)
<1>1. Cased(t, "lower") \in Texts
  BY TextSteps DEF Cases
<1>2. Cased(t, "lower") = [t EXCEPT !.letters = letters]
  BY DEF Cased, Lower
<1> HIDE DEF letters
<1>3. /\ [t EXCEPT !.letters = letters].core = t.core
      /\ [t EXCEPT !.letters = letters].letters = letters
      /\ [t EXCEPT !.letters = letters].sep = t.sep
      /\ [t EXCEPT !.letters = letters].pad = t.pad
  BY DEF Texts
<1>4. Reads(Cased(t, "lower"), t.core, letters, t.sep, t.pad)
  BY <1>1, <1>2, <1>3 DEF Reads
<1> QED
  BY <1>4 DEF letters

LEMMA StrippedReads ==
  ASSUME NEW t \in Texts
  PROVE  Reads(StripSpecial(t), Stripped(t.core), t.letters, Bare(t.sep), t.pad)
<1>1. StripSpecial(t) \in Texts
  BY TextSteps
<1>2. /\ StripSpecial(t).core = Stripped(t.core) /\ StripSpecial(t).letters = t.letters
      /\ StripSpecial(t).sep = Bare(t.sep) /\ StripSpecial(t).pad = t.pad
  BY DEF Texts, StripSpecial, Bare
<1> QED
  BY <1>1, <1>2 DEF Reads

LEMMA CollapsedReads ==
  ASSUME NEW t \in Texts
  PROVE  Reads(Collapse(t), t.core, t.letters, Single(t.sep), FALSE)
<1>1. Collapse(t) \in Texts
  BY TextSteps
<1>2. /\ Collapse(t).core = t.core /\ Collapse(t).letters = t.letters
      /\ Collapse(t).sep = Single(t.sep) /\ Collapse(t).pad = FALSE
  BY DEF Texts, Collapse, Trim, Single
<1> QED
  BY <1>1, <1>2 DEF Reads

LEMMA FoldedReads ==
  ASSUME NEW t \in Texts
  PROVE  Reads(Folded(t), t.core, Lower(t.core, t.letters), t.sep, FALSE)
<1> DEFINE u == Trim(t)
<1>1. Reads(u, t.core, t.letters, t.sep, FALSE)
  BY TrimReads
<1>2. Reads(Cased(u, "lower"), u.core, Lower(u.core, u.letters), u.sep, u.pad)
  BY <1>1, CasedReads DEF Reads
<1> HIDE DEF u
<1>3. Reads(Cased(u, "lower"), t.core, Lower(t.core, t.letters), t.sep, FALSE)
  BY <1>1, <1>2 DEF Reads
<1> QED
  BY <1>3 DEF Folded, u

LEMMA SweptReads ==
  ASSUME NEW t \in Texts
  PROVE  Reads(Collapse(StripSpecial(t)), Stripped(t.core), t.letters, Single(Bare(t.sep)), FALSE)
<1> DEFINE u == StripSpecial(t)
<1>1. Reads(u, Stripped(t.core), t.letters, Bare(t.sep), t.pad)
  BY StrippedReads
<1>2. Reads(Collapse(u), u.core, u.letters, Single(u.sep), FALSE)
  BY <1>1, CollapsedReads DEF Reads
<1> HIDE DEF u
<1>3. Reads(Collapse(u), Stripped(t.core), t.letters, Single(Bare(t.sep)), FALSE)
  BY <1>1, <1>2 DEF Reads
<1> QED
  BY <1>3 DEF u

LEMMA TrimmedTwice ==
  ASSUME NEW t \in Texts
  PROVE  Trim(Trim(t)) = Trim(t)
<1> DEFINE u == Trim(t)
<1>1. Reads(u, t.core, t.letters, t.sep, FALSE)
  BY TrimReads
<1>2. Reads(Trim(u), u.core, u.letters, u.sep, FALSE)
  BY <1>1, TrimReads DEF Reads
<1> HIDE DEF u
<1>3. Reads(Trim(u), t.core, t.letters, t.sep, FALSE)
  BY <1>1, <1>2 DEF Reads
<1>4. Trim(u) = u
  BY <1>1, <1>3, SameText
<1> QED
  BY <1>4 DEF u

LEMMA FoldedTwice ==
  ASSUME NEW t \in Texts
  PROVE  Folded(Folded(t)) = Folded(t)
<1> DEFINE u == Folded(t)
           letters == Lower(t.core, t.letters)
<1>1. Reads(u, t.core, letters, t.sep, FALSE)
  BY FoldedReads
<1>2. Reads(Folded(u), u.core, Lower(u.core, u.letters), u.sep, FALSE)
  BY <1>1, FoldedReads DEF Reads
<1>3. Lower(t.core, letters) = letters
  BY DEF Lower
<1> HIDE DEF u, letters
<1>4. Reads(Folded(u), t.core, letters, t.sep, FALSE)
  BY <1>1, <1>2, <1>3 DEF Reads
<1>5. Folded(u) = u
  BY <1>1, <1>4, SameText
<1> QED
  BY <1>5 DEF u

LEMMA StrippedTwice ==
  ASSUME NEW core
  PROVE  Stripped(Stripped(core)) = Stripped(core) /\ (Stripped(core) = Word <=> core = Word)
BY DEF Stripped, Word

(* What the one-tap normalization yields is its own canonical form.        *)
LEMMA SweptTwice ==
  ASSUME NEW t \in Texts
  PROVE  LET x == Collapse(StripSpecial(Cased(t, "lower")))
         IN x \in Texts /\ Folded(x) = x /\ Canonical(x) = x
<1> DEFINE u == Cased(t, "lower")
           x == Collapse(StripSpecial(u))
           core == Stripped(t.core)
           letters == Lower(t.core, t.letters)
           sep == Single(Bare(t.sep))
<1>1. Reads(u, t.core, letters, t.sep, t.pad)
  BY CasedReads
<1>2. Reads(x, Stripped(u.core), u.letters, Single(Bare(u.sep)), FALSE)
  BY <1>1, SweptReads DEF Reads
<1>3. Reads(x, core, letters, sep, FALSE)
  BY <1>1, <1>2 DEF Reads
<1>4. /\ Stripped(core) = core
      /\ Lower(core, letters) = letters
      /\ Single(Bare(sep)) = sep
  BY StrippedTwice DEF Lower, Single, Bare
<1> HIDE DEF x, u, core, letters, sep
<1>5. x \in Texts /\ x.core = core /\ x.letters = letters /\ x.sep = sep
  BY <1>3 DEF Reads
<1>6. Reads(Folded(x), core, letters, sep, FALSE)
  BY <1>4, <1>5, FoldedReads
<1>7. Folded(x) = x
  BY <1>3, <1>6, SameText
<1>8. Reads(Collapse(StripSpecial(x)), core, letters, sep, FALSE)
  BY <1>4, <1>5, SweptReads
<1>9. Canonical(x) = x
  BY <1>3, <1>7, <1>8, SameText DEF Canonical
<1> QED
  BY <1>5, <1>7, <1>9 DEF x, u

-----------------------------------------------------------------------------
(* What the findings of an undisturbed scan say of the table.              *)

FoldedImages(t, c) == {Folded(x) : x \in Distinct(t, c)}
CanonicalImages(t, c) == {Canonical(x) : x \in Distinct(t, c)}

Means(g, t) ==
  LET c == g.column
  IN /\ g.code \in {"empty_column", "constant"} => c \in Names(t)
     /\ g.code \in {"high_null", "partial_null"} =>
          NonNulls(t, c) # {} /\ NonNulls(t, c) # DOMAIN t.rows
     /\ g.code \in {"text_as_date", "text_as_number", "mixed_values"} => t.type[c] = "text"
     /\ g.code = "whitespace" => \E x \in Distinct(t, c) : x # Trim(x)
     /\ g.code = "hidden_null" => \E x \in Distinct(t, c) : IsPlaceholder(x)
     /\ g.code = "inconsistent_case" =>
          Cardinality(FoldedImages(t, c)) < Cardinality(Distinct(t, c))
     /\ g.code = "inconsistent_values" =>
          Cardinality(CanonicalImages(t, c)) < Cardinality(FoldedImages(t, c))
     /\ g.code = "negative_values" =>
          t.type[c] = "number" /\ \E x \in Distinct(t, c) : x.n < 0
     /\ g.code = "duplicate_rows" => Len(t.rows) > DistinctRows(t)

AllMean(S, t) == \A g \in S : Means(g, t)

LEMMA MeanEach ==
  ASSUME NEW t
  PROVE  /\ AllMean({}, t)
         /\ \A S, T : AllMean(S, t) /\ AllMean(T, t) => AllMean(S \union T, t)
         /\ \A g : Means(g, t) => AllMean({g}, t)
BY DEF AllMean

LEMMA NothingMeant ==
  ASSUME NEW t, NEW c, NEW fixes,
         NEW code \in {"mixed_date_format", "future_date"}
  PROVE  AllMean({Finding(code, c, fixes)}, t)
BY DEF AllMean, Means, Finding

LEMMA HeldBySome ==
  ASSUME NEW t, IsTable(t), NEW c, NEW S \in SUBSET NonNulls(t, c), Cardinality(S) > 0
  PROVE  \E i \in S : i \in NonNulls(t, c) /\ Value(t, i, c) \in Distinct(t, c)
<1>1. S # {}
  BY FS_EmptySet
<1> QED
  BY <1>1 DEF Distinct

LEMMA StructuralMeans ==
  ASSUME NEW t, IsTable(t), NEW s, s["counts"] = t, NEW c \in Names(t)
  PROVE  AllMean(Structural(s, c), t)
<1> DEFINE total == Len(t.rows)
           nn == Cardinality(NonNulls(t, c))
<1>1. ASSUME NEW code \in {"empty_column", "constant"}, NEW fixes
      PROVE  AllMean({Finding(code, c, fixes)}, t)
  BY <1>1 DEF AllMean, Means, Finding
<1>2. ASSUME NEW code \in {"high_null", "partial_null"}, NEW fixes, nn # 0, nn < total
      PROVE  AllMean({Finding(code, c, fixes)}, t)
  <2>1. /\ nn \in Nat /\ IsFiniteSet(NonNulls(t, c)) /\ Cardinality(DOMAIN t.rows) = total
        /\ total \in Nat
    BY ColumnFacts, TableFacts
  <2>2. NonNulls(t, c) # {} /\ NonNulls(t, c) # DOMAIN t.rows
    BY <1>2, <2>1, FS_EmptySet
  <2> QED
    BY <2>2 DEF AllMean, Means, Finding
<1>3. nn \in Nat /\ total \in Nat /\ nn <= total
  BY ColumnFacts, TableFacts
<1>4. \/ Structural(s, c) = {}
      \/ \E code \in {"empty_column", "constant"} : \E fixes :
           Structural(s, c) = {Finding(code, c, fixes)}
      \/ /\ nn < total /\ ~ (total > 0 /\ nn = 0)
         /\ \E code \in {"high_null", "partial_null"} : \E fixes :
              Structural(s, c) = {Finding(code, c, fixes)}
  BY DEF Structural
<1> HIDE DEF nn, total
<1>5. nn < total /\ ~ (total > 0 /\ nn = 0) => nn # 0
  BY <1>3
<1> QED
  BY <1>1, <1>2, <1>4, <1>5, MeanEach

LEMMA TypedMeans ==
  ASSUME NEW t, IsTable(t), NEW s, NEW c, t.type[c] = "text"
  PROVE  AllMean(Typed(s, c), t)
<1>1. ASSUME NEW code \in {"text_as_date", "text_as_number", "mixed_values"}, NEW fixes
      PROVE  AllMean({Finding(code, c, fixes)}, t)
  BY <1>1 DEF AllMean, Means, Finding
<1>2. \/ Typed(s, c) \in {{}, {Finding("mixed_date_format", c, {})}}
      \/ \E code \in {"text_as_date", "text_as_number", "mixed_values"} : \E fixes :
           Typed(s, c) = {Finding(code, c, fixes)}
  BY DEF Typed
<1>3. AllMean({Finding("mixed_date_format", c, {})}, t)
  BY NothingMeant
<1> QED
  BY <1>1, <1>2, <1>3, MeanEach

LEMMA WrittenMeans ==
  ASSUME NEW t, IsTable(t), NEW s, s["counts"] = t, s["strings"] = t, NEW c
  PROVE  AllMean(Written(s, c), t)
<1> DEFINE nd == Cardinality(Distinct(t, c))
           folded == Cardinality(FoldedImages(t, c))
           canonical == Cardinality(CanonicalImages(t, c))
<1>1. ASSUME NEW fixes, Untrimmed(t, c) > 0
      PROVE  AllMean({Finding("whitespace", c, fixes)}, t)
  <2> DEFINE S == {i \in NonNulls(t, c) : Value(t, i, c) # Trim(Value(t, i, c))}
  <2>1. Untrimmed(t, c) = Cardinality(S)
    BY DEF Untrimmed, Holding
  <2>2. PICK i \in S : Value(t, i, c) \in Distinct(t, c)
    BY <1>1, <2>1, HeldBySome
  <2>3. \E x \in Distinct(t, c) : x # Trim(x)
    BY <2>2
  <2> QED
    BY <2>3 DEF AllMean, Means, Finding
<1>2. ASSUME NEW fixes, folded < nd
      PROVE  AllMean({Finding("inconsistent_case", c, fixes)}, t)
  BY <1>2 DEF AllMean, Means, Finding
<1>3. ASSUME NEW fixes, canonical < folded
      PROVE  AllMean({Finding("inconsistent_values", c, fixes)}, t)
  BY <1>3 DEF AllMean, Means, Finding
<1>4. \A S, p : (p => AllMean(S, t)) => AllMean(IF p THEN S ELSE {}, t)
  BY DEF AllMean
<1>5. ASSUME NEW fixes, Placeholders(t, c) > 0
      PROVE  AllMean({Finding("hidden_null", c, fixes)}, t)
  <2> DEFINE S == {i \in NonNulls(t, c) : IsPlaceholder(Value(t, i, c))}
  <2>1. Placeholders(t, c) = Cardinality(S)
    BY DEF Placeholders, Holding
  <2>2. PICK i \in S : Value(t, i, c) \in Distinct(t, c)
    BY <1>5, <2>1, HeldBySome
  <2>3. \E x \in Distinct(t, c) : IsPlaceholder(x)
    BY <2>2
  <2> QED
    BY <2>3 DEF AllMean, Means, Finding
<1>6. PICK A, B, C, D :
        /\ Written(s, c) = A \union B \union C \union D
        /\ AllMean(A, t) /\ AllMean(B, t) /\ AllMean(C, t) /\ AllMean(D, t)
  <2> DEFINE ask == AskUser("string_normalize", c)
             x1 == {Finding("whitespace", c, {ask})}
             x2 == {Finding("hidden_null", c, {ask})}
             x3 == {Finding("inconsistent_case", c, {Rewrite(c, TRUE, "lower", FALSE, FALSE)})}
             x4 == {Finding("inconsistent_values", c, {Rewrite(c, FALSE, "lower", TRUE, TRUE)})}
             Category(n) == Typed(s, c) = {} /\ 1 < n /\ n <= CategoricalMax
             p3 == Category(nd) /\ folded < nd
             p4 == Category(folded) /\ canonical < folded
             A == IF Untrimmed(t, c) > 0 THEN x1 ELSE {}
             B == IF Placeholders(t, c) > 0 THEN x2 ELSE {}
             C == IF p3 THEN x3 ELSE {}
             D == IF p4 THEN x4 ELSE {}
  <2>1. Written(s, c) = A \union B \union C \union D
    BY DEF Written, Images, FoldedImages, CanonicalImages
  <2>2. p3 => folded < nd
    OBVIOUS
  <2>3. p4 => canonical < folded
    OBVIOUS
  <2> HIDE DEF nd, folded, canonical, p3, p4
  <2>4. (Untrimmed(t, c) > 0) => AllMean(x1, t)
    BY <1>1
  <2>11. (Placeholders(t, c) > 0) => AllMean(x2, t)
    BY <1>5
  <2>5. p3 => AllMean(x3, t)
    BY <1>2, <2>2
  <2>6. p4 => AllMean(x4, t)
    BY <1>3, <2>3
  <2> HIDE DEF x1, x2, x3, x4
  <2>7. AllMean(A, t)
    BY <1>4, <2>4
  <2>8. AllMean(B, t)
    BY <1>4, <2>11
  <2>9. AllMean(C, t)
    BY <1>4, <2>5
  <2>10. AllMean(D, t)
    BY <1>4, <2>6
  <2> HIDE DEF A, B, C, D
  <2> QED
    BY <2>1, <2>7, <2>8, <2>9, <2>10
<1> QED
  BY <1>6 DEF AllMean

LEMMA InvalidMeans ==
  ASSUME NEW t, IsTable(t), NEW s, s["schema"] = t, s["ranges"] = t, NEW c
  PROVE  AllMean(Invalid(s, c), t)
<1> DEFINE S == {i \in NonNulls(t, c) : Value(t, i, c).n < 0}
<1>1. ASSUME NEW fixes, t.type[c] = "number", Cardinality(S) > 0
      PROVE  AllMean({Finding("negative_values", c, fixes)}, t)
  <2>1. PICK i \in S : Value(t, i, c) \in Distinct(t, c)
    BY <1>1, HeldBySome
  <2>2. \E x \in Distinct(t, c) : x.n < 0
    BY <2>1
  <2> QED
    BY <1>1, <2>2 DEF AllMean, Means, Finding
<1>2. PICK p, x :
        Invalid(s, c) =
          (IF t.type[c] = "number" /\ Cardinality(S) > 0
           THEN {Finding("negative_values", c, x)} ELSE {})
          \union (IF p THEN {Finding("future_date", c, {})} ELSE {})
  BY DEF Invalid, Holding
<1> HIDE DEF S
<1>3. AllMean(IF t.type[c] = "number" /\ Cardinality(S) > 0
              THEN {Finding("negative_values", c, x)} ELSE {}, t)
  BY <1>1, MeanEach
<1>4. AllMean(IF p THEN {Finding("future_date", c, {})} ELSE {}, t)
  BY NothingMeant, MeanEach
<1> QED
  BY <1>2, <1>3, <1>4, MeanEach

LEMMA SteadyFacts ==
  ASSUME NEW t
  PROVE  /\ {"schema", "counts"} \subseteq DOMAIN SteadyScan(t)
         /\ \A x \in DOMAIN SteadyScan(t) : SteadyScan(t)[x] = t
BY DEF SteadyScan, ScanStatements, ScanSkips

LEMMA FindingsMean ==
  ASSUME NEW t, IsTable(t)
  PROVE  AllMean(Findings(SteadyScan(t)), t)
<1>1. PICK s : s = SteadyScan(t)
  OBVIOUS
<1>2. /\ s["schema"] = t /\ s["counts"] = t
      /\ \A x \in DOMAIN s : s[x] = t
  BY <1>1, SteadyFacts
<1>3. ASSUME NEW c \in Names(t)
      PROVE  AllMean(OfColumn(s, c), t)
  <2>1. AllMean(Structural(s, c), t)
    BY <1>2, StructuralMeans
  <2>2. ASSUME t.type[c] = "text", "strings" \in DOMAIN s
        PROVE  AllMean(Typed(s, c) \union Written(s, c), t)
    BY <1>2, <2>2, TypedMeans, WrittenMeans, MeanEach
  <2>3. ASSUME "ranges" \in DOMAIN s
        PROVE  AllMean(Invalid(s, c), t)
    BY <1>2, <2>3, InvalidMeans
  <2> QED
    BY <1>2, <2>1, <2>2, <2>3, MeanEach DEF OfColumn
<1>4. ASSUME Duplicates(s) > 0
      PROVE  Means(Repeated, t)
  <2>1. "rows" \in DOMAIN s
    BY <1>4 DEF Duplicates
  <2>2. s["rows"] = t
    BY <1>2, <2>1
  <2> DEFINE d == Len(t.rows) - DistinctRows(t)
  <2>3. Duplicates(s) = IF d > 0 THEN d ELSE 0
    BY <1>2, <2>1, <2>2 DEF Duplicates
  <2>4. Len(t.rows) \in Nat /\ DistinctRows(t) \in Nat
    <3> DEFINE f == [i \in DOMAIN t.rows |-> t.rows[i].val]
    <3>1. {t.rows[i].val : i \in DOMAIN t.rows} = ImageOf(f, DOMAIN t.rows)
      BY DEF ImageOf
    <3>2. IsFiniteSet(DOMAIN t.rows)
      BY ColumnFacts
    <3> HIDE DEF f
    <3> QED
      BY <3>1, <3>2, ImageSize, TableFacts DEF DistinctRows
  <2>5. Len(t.rows) > DistinctRows(t)
    BY <1>4, <2>3, <2>4
  <2> QED
    BY <2>5 DEF Means, Repeated, Finding
<1>5. ASSUME NEW g \in Findings(s) PROVE Means(g, t)
  <2>1. \/ \E c \in Names(t) : g \in OfColumn(s, c)
        \/ g = Repeated /\ Duplicates(s) > 0
    BY <1>2, FindingOrigin
  <2> QED
    BY <1>3, <1>4, <2>1 DEF AllMean
<1> QED
  BY <1>1, <1>5 DEF AllMean

(* What a fix leaves contradicts what its finding says.                    *)
LEMMA RewrittenFacts ==
  ASSUME NEW tab, IsTable(tab), NEW o, o.op = "string_normalize", NamesCase(o),
         NEW t \in Selected(tab, o)
  PROVE  /\ IsTable(t) /\ IsFiniteSet(Distinct(t, o.column))
         /\ \A x \in Distinct(t, o.column) :
              /\ x # Null
              /\ \E y \in Distinct(tab, o.column) : y \in Texts /\ x = Normalized(y, o)
<1>1. t \in StringNormalize(tab, o)
  BY DEF Selected
<1>2. /\ IsTable(t)
      /\ \A x \in Distinct(t, o.column) :
           \E y \in Distinct(tab, o.column) : y \in Texts /\ x = Normalized(y, o)
  BY <1>1, NormalizeFacts DEF SameRows
<1>3. IsFiniteSet(Distinct(t, o.column))
  BY <1>2, ColumnFacts
<1>4. \A x \in Distinct(t, o.column) : x # Null
  BY DEF Distinct, NonNulls
<1> QED
  BY <1>2, <1>3, <1>4

(* A text that is not made null keeps its core unless special characters   *)
(* are dropped, and loses its spaces when they are trimmed or collapsed.   *)
LEMMA NormalizedKeeps ==
  ASSUME NEW t \in Texts, NEW o, NamesCase(o), Normalized(t, o) # Null
  PROVE  /\ ~ o.strip_special => Normalized(t, o).core = t.core
         /\ (o.trim \/ o.collapse_whitespace) => Trim(Normalized(t, o)) = Normalized(t, o)
<1> DEFINE trimmed == IF o.trim THEN Trim(t) ELSE t
           cased == IF o.case = "" THEN trimmed ELSE Cased(trimmed, o.case)
           bare == IF o.strip_special THEN StripSpecial(cased) ELSE cased
           spaced == IF o.collapse_whitespace THEN Collapse(bare) ELSE bare
<1>0. Normalized(t, o) = spaced
  BY DEF Normalized
<1>1. trimmed \in Texts /\ trimmed.core = t.core /\ (o.trim => trimmed.pad = FALSE)
  BY TrimReads DEF Reads
<1> HIDE DEF trimmed
<1>2. cased \in Texts /\ cased.core = t.core /\ cased.pad = trimmed.pad
  <2>1. ASSUME o.case # ""
        PROVE  /\ Cased(trimmed, o.case) \in Texts
               /\ Cased(trimmed, o.case).core = trimmed.core
               /\ Cased(trimmed, o.case).pad = trimmed.pad
    <3>1. Cased(trimmed, o.case) \in Texts
      BY <1>1, <2>1, TextSteps DEF Cases, NamesCase
    <3> DEFINE letters == IF trimmed.core = Word THEN o.case ELSE trimmed.letters
    <3>2. Cased(trimmed, o.case) = [trimmed EXCEPT !.letters = letters]
      BY DEF Cased
    <3> HIDE DEF letters
    <3> QED
      BY <1>1, <3>1, <3>2 DEF Texts
  <2> QED
    BY <1>1, <2>1
<1> HIDE DEF cased
<1>3. /\ bare \in Texts /\ bare.pad = trimmed.pad
      /\ ~ o.strip_special => bare.core = t.core
  BY <1>2, StrippedReads DEF Reads
<1> HIDE DEF bare
<1>4. /\ spaced \in Texts
      /\ ~ o.strip_special => spaced.core = t.core
      /\ (o.trim \/ o.collapse_whitespace) => spaced.pad = FALSE
  BY <1>1, <1>3, CollapsedReads DEF Reads
<1> HIDE DEF spaced
<1>5. spaced.pad = FALSE => Trim(spaced) = spaced
  <2>1. Reads(Trim(spaced), spaced.core, spaced.letters, spaced.sep, FALSE)
    BY <1>4, TrimReads
  <2>2. spaced.pad = FALSE => Reads(spaced, spaced.core, spaced.letters, spaced.sep, FALSE)
    BY <1>4 DEF Reads
  <2> QED
    BY <2>1, <2>2, SameText
<1> QED
  BY <1>0, <1>4, <1>5

(* Addresses, of any table.                                                *)
Meets(f, o, tab) ==
  /\ f.code = "whitespace" => o.trim \/ o.collapse_whitespace
  /\ f.code = "hidden_null" =>
       ~ o.strip_special /\ \A y \in Distinct(tab, f.column) :
                               IsPlaceholder(y) => Normalized(y, o) = Null

LEMMA FixContradicts ==
  ASSUME NEW tab, IsTable(tab), NEW f, NEW o, Sends(f, o), Meets(f, o, tab),
         NEW t \in Selected(tab, o), NEW g, g.code = f.code, g.column = f.column
  PROVE  ~ Means(g, t)
<1> DEFINE c == f.column
<1>1. IsTable(t)
  BY SentIsOperation, SelectedFacts
<1>2. CASE f.code \in {"empty_column", "constant"}
  <2>1. o.op = "drop_column" /\ o.column = c
    BY <1>2 DEF Sends, Offered
  <2>2. t \in DropColumn(tab, c)
    BY <2>1 DEF Selected
  <2>3. c \notin Names(t)
    BY <2>2, DropColumnFacts
  <2> QED
    BY <1>2, <2>3 DEF Means
<1>3. CASE f.code \in {"high_null", "partial_null"}
  <2>1. o.op = "impute_null" /\ o.column = c
    BY <1>3 DEF Sends, Offered
  <2>2. t \in ImputeNull(tab, c, o.strategy)
    BY <2>1 DEF Selected
  <2>3. NonNulls(t, c) = DOMAIN t.rows \/ NonNulls(t, c) = {}
    BY <2>2, ImputeFacts
  <2> QED
    BY <1>3, <2>3 DEF Means
<1>4. CASE f.code \in {"text_as_date", "text_as_number", "mixed_values"}
  <2>1. o.op = "cast" /\ o.column = c /\ o.new_type \in {"date", "number"}
    BY <1>4 DEF Sends, Offered
  <2>2. t \in Cast(tab, c, o.new_type, o.coerce)
    BY <2>1 DEF Selected
  <2>3. t.type[c] = o.new_type
    BY <2>2 DEF Cast, WithColumn, Put
  <2> QED
    BY <1>4, <2>1, <2>3 DEF Means
<1>5. CASE f.code = "whitespace"
  <2>1. /\ o.op = "string_normalize" /\ o.column = c /\ NamesCase(o)
        /\ o.trim \/ o.collapse_whitespace
    BY <1>5 DEF Sends, Offered, Meets
  <2>2. ASSUME NEW x \in Distinct(t, c) PROVE x = Trim(x)
    <3>1. PICK y \in Texts : x = Normalized(y, o) /\ x # Null
      BY <2>1, <2>2, RewrittenFacts
    <3> QED
      BY <2>1, <3>1, NormalizedKeeps
  <2> QED
    BY <1>5, <2>2 DEF Means
<1>10. CASE f.code = "hidden_null"
  <2>1. o.op = "string_normalize" /\ o.column = c /\ NamesCase(o)
    BY <1>10 DEF Sends, Offered
  <2>2. ~ o.strip_special
        /\ \A y \in Distinct(tab, c) : IsPlaceholder(y) => Normalized(y, o) = Null
    BY <1>10 DEF Meets
  <2>3. ASSUME NEW x \in Distinct(t, c) PROVE ~ IsPlaceholder(x)
    <3>1. PICK y \in Distinct(tab, c) : y \in Texts /\ x = Normalized(y, o) /\ x # Null
      BY <2>1, <2>3, RewrittenFacts
    <3>2. x.core = y.core
      BY <2>1, <2>2, <3>1, NormalizedKeeps
    <3>3. ~ IsPlaceholder(y)
      BY <2>2, <3>1
    <3> QED
      BY <3>2, <3>3 DEF IsPlaceholder
  <2> QED
    BY <1>10, <2>3 DEF Means
<1>6. CASE f.code = "inconsistent_case"
  <2>1. /\ o.op = "string_normalize" /\ o.column = c /\ o.null_token = Null
        /\ o.trim /\ o.case = "lower" /\ ~ o.strip_special /\ ~ o.collapse_whitespace
    BY <1>6 DEF Sends, Offered
  <2>2. ASSUME NEW x \in Distinct(t, c) PROVE Folded(x) = x
    <3>3. NamesCase(o)
      BY <2>1 DEF NamesCase
    <3>1. PICK y \in Texts : x = Normalized(y, o) /\ x # Null
      BY <2>1, <2>2, <3>3, RewrittenFacts
    <3>2. Normalized(y, o) = IF Folded(y) = Null THEN Null ELSE Folded(y)
      BY <2>1 DEF Normalized, Folded
    <3> QED
      BY <3>1, <3>2, FoldedTwice
  <2>3. FoldedImages(t, c) = Distinct(t, c)
    BY <2>2 DEF FoldedImages
  <2>4. Cardinality(Distinct(t, c)) \in Nat
    BY <1>1, ColumnFacts
  <2> QED
    BY <1>6, <2>3, <2>4 DEF Means
<1>7. CASE f.code = "inconsistent_values"
  <2>1. /\ o.op = "string_normalize" /\ o.column = c /\ o.null_token = Null
        /\ ~ o.trim /\ o.case = "lower" /\ o.strip_special /\ o.collapse_whitespace
    BY <1>7 DEF Sends, Offered
  <2>2. ASSUME NEW x \in Distinct(t, c) PROVE Folded(x) = x /\ Canonical(x) = x
    <3>1. NamesCase(o)
      BY <2>1 DEF NamesCase
    <3>2. PICK y \in Texts : x = Normalized(y, o) /\ x # Null
      BY <2>1, <2>2, <3>1, RewrittenFacts
    <3> DEFINE z == Collapse(StripSpecial(Cased(y, "lower")))
    <3>3. Normalized(y, o) = IF z = Null THEN Null ELSE z
      BY <2>1 DEF Normalized
    <3>4. Folded(z) = z /\ Canonical(z) = z
      BY SweptTwice
    <3> HIDE DEF z
    <3> QED
      BY <3>2, <3>3, <3>4
  <2>3. FoldedImages(t, c) = Distinct(t, c) /\ CanonicalImages(t, c) = Distinct(t, c)
    BY <2>2 DEF FoldedImages, CanonicalImages
  <2>4. Cardinality(Distinct(t, c)) \in Nat
    BY <1>1, ColumnFacts
  <2> QED
    BY <1>7, <2>3, <2>4 DEF Means
<1>8. CASE f.code = "negative_values"
  <2>1. o.column = c /\ (o.op = "absolute_value" \/ (o.op = "filter_rows" /\ o.action = "keep"))
    BY <1>8 DEF Sends, Offered
  <2>2. ASSUME NEW x \in Distinct(t, c), t.type[c] = "number", x.n < 0
        PROVE  FALSE
    <3>1. CASE o.op = "absolute_value"
      <4>1. t \in AbsoluteValue(tab, c)
        BY <2>1, <3>1 DEF Selected
      <4>2. x.n >= 0 /\ c \in Names(t)
        BY <2>2, <4>1, AbsoluteFacts
      <4>3. x.n \in Int
        BY <1>1, <2>2, <4>2, ColumnFacts, CellShapes
      <4> QED
        BY <2>2, <4>2, <4>3
    <3>2. CASE o.op = "filter_rows" /\ o.action = "keep"
      <4>1. t \in FilterRows(tab, c, o.action) /\ o.action = "keep"
        BY <2>1, <3>2 DEF Selected
      <4>2. /\ IsOf(tab, c, {"number"}) /\ t.type = tab.type
            /\ \A i \in DOMAIN t.rows : Value(t, i, c).n >= 0
        BY <4>1, FilterFacts
      <4>3. c \in Names(t)
        BY <4>2 DEF IsOf, Names
      <4>4. x.n >= 0
        BY <2>2, <4>2 DEF Distinct, NonNulls
      <4>5. x.n \in Int
        BY <1>1, <2>2, <4>3, ColumnFacts, CellShapes
      <4> QED
        BY <2>2, <4>4, <4>5
    <3> QED
      BY <2>1, <3>1, <3>2
  <2> QED
    BY <1>8, <2>2 DEF Means
<1>9. CASE f.code = "duplicate_rows"
  <2>1. o.op = "dedupe"
    BY <1>9 DEF Sends, Offered
  <2>2. t \in Dedupe(tab)
    BY <2>1 DEF Selected
  <2> DEFINE rows == [i \in DOMAIN t.rows |-> t.rows[i].val]
  <2>3. \A i, j \in DOMAIN t.rows : rows[i] = rows[j] => i = j
    BY <2>2, DedupeFacts
  <2>4. {t.rows[i].val : i \in DOMAIN t.rows} = ImageOf(rows, DOMAIN t.rows)
    BY DEF ImageOf
  <2>5. IsFiniteSet(DOMAIN t.rows) /\ Cardinality(DOMAIN t.rows) = Len(t.rows)
        /\ Len(t.rows) \in Nat
    BY <1>1, ColumnFacts, TableFacts
  <2> HIDE DEF rows
  <2>6. DistinctRows(t) = Len(t.rows)
    BY <2>3, <2>4, <2>5, ImageSize DEF DistinctRows
  <2> QED
    BY <1>9, <2>5, <2>6 DEF Means
<1> QED
  BY <1>2, <1>3, <1>4, <1>5, <1>6, <1>7, <1>8, <1>9, <1>10 DEF Sends, Offered

(* A fix that the report offers, sent however late and of whatever the     *)
(* table has become, rids it of the finding, unless it comes from a dialog *)
(* that the finding opens empty (assess_table's whitespace and hidden_null)*)
(* and the user's choices there do not address it.                         *)
THEOREM FixesClear == Spec => FixClears
<1>1. ASSUME IInv, NEW f \in Report, Reported(f, table'),
             NEW o \in Sent(f, reader.seen), Addresses(f, o), Fix(o)
      PROVE  FALSE
  <2>1. f \in Findings(reader.seen) /\ IsTable(table) /\ table' \in Selected(table, o)
    BY <1>1 DEF Report, Fix, IInv, TypeOK
  <2>2. Sends(f, o)
    BY <2>1, SentFacts
  <2>3. IsTable(table')
    BY <2>1, <2>2, SentIsOperation, SelectedFacts
  <2>4. PICK g \in Findings(SteadyScan(table')) : g.code = f.code /\ g.column = f.column
    BY <1>1 DEF Reported
  <2>5. Means(g, table')
    BY <2>3, <2>4, FindingsMean DEF AllMean
  <2>6. Meets(f, o, table)
    BY <1>1 DEF Addresses, Meets
  <2> QED
    BY <2>1, <2>2, <2>4, <2>5, <2>6, FixContradicts
<1>2. IInv /\ [Next]_vars =>
        [\A f \in Report : Reported(f, table') =>
           ~ \E o \in Sent(f, reader.seen) : Addresses(f, o) /\ Fix(o)]_vars
  BY <1>1
<1> QED
  BY <1>2, Invariance, PTL DEF Spec, FixClears

=============================================================================
