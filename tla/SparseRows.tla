----------------------------- MODULE SparseRows -----------------------------
(***************************************************************************)
(* Sparse matrices (src/src/matrix.cc, SparseMatrix).  A row has the       *)
(* number of its equation and the entries that are not zero, a function of *)
(* their columns; rows are swapped, so that a number stays with its        *)
(* memory.  Columns below maxcol are eliminated.  (@@ NoEntries and        *)
(* \o <<>> make TLC compute a function once.)                              *)
(***************************************************************************)
EXTENDS PrimeField, FiniteSets, FiniteSetsExt

CONSTANT NVars \* unknowns; one column more has what does not depend on them

ASSUME NVarsAssumption == NVars \in Nat

Const == NVars + 1
END == NVars + 2 \* is greater than any column
Columns == 1 .. Const

NoEntries == [j \in {} |-> 0]
NewRow == [id |-> 1, c |-> NoEntries]

Size(r) == Cardinality(DOMAIN r.c)
IsZero(r) == DOMAIN r.c = {}
First(r) == IF IsZero(r) THEN END ELSE Min(DOMAIN r.c)
At(r, j) == IF j \in DOMAIN r.c THEN r.c[j] ELSE 0

\* The numbers of a set from the least on, and the elements of a sequence at some positions
InOrder(S) ==
  [k \in 1 .. Cardinality(S) |-> CHOOSE i \in S : Cardinality({j \in S : j < i}) = k - 1] \o <<>>
Selected(s, K) == LET ks == InOrder(K) IN [k \in DOMAIN ks |-> s[ks[k]]] \o <<>>

ColumnsOf(r) == InOrder(DOMAIN r.c \cap Columns)

WithEntries(r, c) == [id |-> r.id, c |-> Restrict(c, {j \in DOMAIN c : c[j] # 0}) @@ NoEntries]

\* SparseMatrixRow::gauss_elimination, with a times the row s
Minus(r, a, s) ==
  WithEntries(r, [j \in DOMAIN r.c \cup DOMAIN s.c |-> Sub(At(r, j), a * At(s, j))])

\* SparseMatrixRow::mul
Times(r, a) == WithEntries(r, [j \in DOMAIN r.c |-> Product(r.c[j], a)])
Monic(r) == IF IsZero(r) THEN r ELSE Times(r, MulInv(At(r, First(r))))

(* Substitutes the rows number ks, in this order, into the row number i     *)
(* wherever it has their first columns, and notes which.                   *)
Substituted(rows, i, ks, maxcol) ==
  FoldLeft(LAMBDA t, k :
             IF First(rows[k]) \in DOMAIN t.row.c \ maxcol .. END
             THEN [row |-> Minus(t.row, At(t.row, First(rows[k])), rows[k]), deps |-> t.deps \cup {k}]
             ELSE t,
           [row |-> rows[i], deps |-> {}], ks)

From(a, b) == [k \in 1 .. b - a + 1 |-> a + k - 1]

(* SparseMatrix::toRowEcholon: the next row, after the substitutions t.  If *)
(* it has the first column of another one, from maxcol on, it is kept or   *)
(* cleared.                                                                *)
EchelonRow(s, t, maxcol, keep) ==
  LET clear == ~keep /\ maxcol # END /\ \E k \in DOMAIN s.rows : First(s.rows[k]) = First(t.row) IN
  [rows |-> Append(s.rows, IF clear THEN WithEntries(t.row, NoEntries) ELSE Monic(t.row)),
   deps |-> Append(s.deps, t.deps)]

Echelon(rows, maxcol, keep) ==
  FoldLeft(LAMBDA s, r :
             EchelonRow(s, Substituted(Append(s.rows, r), Len(s.rows) + 1, From(1, Len(s.rows)), maxcol),
                        maxcol, keep),
           [rows |-> <<>>, deps |-> <<>>], rows)

\* std::remove_if: the rows that stay are swapped with those before them that do not
Swapped(rows, i, j) == [rows EXCEPT ![i] = rows[j], ![j] = rows[i]]
Compacted(rows, gone) ==
  FoldLeft(LAMBDA s, j :
             IF j \in gone THEN s ELSE [rows |-> Swapped(s.rows, s.n + 1, j), n |-> s.n + 1],
           [rows |-> rows \o <<>>, n |-> 0], From(1, Len(rows)))

\* Rows are substituted into those before them that have a needed first column
BackSubstituted(c, deps, maxcol, needed) ==
  LET With(s, i, t) == [rows |-> [s.rows EXCEPT ![i] = t.row],
                        deps |-> [s.deps EXCEPT ![i] = @ \cup t.deps]]
  IN  FoldLeft(LAMBDA s, i :
                 IF First(s.rows[i]) \in needed
                 THEN With(s, i, Substituted(s.rows, i, From(i + 1, c.n), maxcol)) ELSE s,
               [rows |-> c.rows, deps |-> deps], From(1, c.n - 1))

\* SparseMatrix::toReducedRowEcholon
Reduced(rows, maxcol, backsubst, keep, needed) ==
  LET Rest(e) == BackSubstituted(Compacted(e.rows, {i \in DOMAIN e.rows : IsZero(e.rows[i])}), e.deps, maxcol,
                                 IF backsubst THEN needed ELSE {})
  IN  Rest(Echelon(rows, maxcol, keep))

\* SparseMatrix::isImpossibleSystem
Impossible(rows) == \E i \in DOMAIN rows : First(rows[i]) = Const

\* SparseMatrix::removeZeroDeps, with restrict_rows
WithoutZeroDeps(rows, zerovars) ==
  LET spurious == {i \in DOMAIN rows : Size(rows[i]) <= (IF zerovars THEN 1 ELSE 0)}
      Restricted(c) == SubSeq(c.rows, 1, c.n)
  IN  Restricted(Compacted(rows, spurious))

(* SparseMatrix::sortRows: by weight, later first columns first, shorter   *)
(* rows first, later columns first.  std::sort leaves few equal rows as    *)
(* they are.                                                               *)
Sorted(rows, weight) ==
  LET Keys(i, a) == (IF weight = <<>> THEN <<>> ELSE <<weight[i]>>) \o <<-First(rows[i]), Len(a)>>
                      \o [k \in DOMAIN a |-> -a[k]] \o <<i>>
      Less(a, b) == \E k \in DOMAIN a : (\A l \in 1 .. k - 1 : a[l] = b[l]) /\ a[k] < b[k]
      order == SortSeq([i \in DOMAIN rows |-> Keys(i, ColumnsOf(rows[i]))] \o <<>>, Less)
  IN  [k \in DOMAIN rows |-> rows[Last(order[k])]] \o <<>>
=============================================================================
