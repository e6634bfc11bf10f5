---------------------------- MODULE SparseSolver ----------------------------
(***************************************************************************)
(* The sparse linear solver (src/src/alg_linear_solver.cc), the learning   *)
(* loop around it and the calls of the C interface on a node of that kind. *)
(* The solver learns from one point which equations and columns matter,    *)
(* confirms it at a second one, and then reduces the same rows at every    *)
(* point of an evaluation, where it takes the answers by position.         *)
(*                                                                         *)
(* The coefficients of the equations at a point are given: an equation is  *)
(* a function of the columns it is written with.                           *)
(***************************************************************************)
EXTENDS SparseRows

CONSTANTS NEqs,      \* the number of equations
          Systems,   \* of each point: the equations
          Settings,  \* the unknowns asked for and the options at the start
          MaxCol,    \* the bound on the columns an application may set
          Workers,   \* the contexts of worker threads
          NSingular, \* learn_opt.n_singular
          MaxCalls   \* bound on the calls of the application

ASSUME NEqsAssumption == NEqs \in Nat

Points == DOMAIN Systems
Main == 0
NoCopy == <<>>
NoAnswer == [at |-> "none"]
Idle == <<>>

VARIABLES
  ls,       \* the solver
  mat,      \* of each context: the rows of mat_, NoCopy without data
  kept,     \* the equations that were not deleted
  learning, \* [need, ok, bad, left] inside learn_all, or Idle
  ready,    \* has learned, and no setter was called since
  lesson,   \* history: the point of learn_1_, if learn_2_ has confirmed it
            \* with a solution, if all points seen in learning were like it (clean), and if
            \* all those of the main context since are and were solved (steady)
  answer,   \* of the call that just returned, if it was an evaluation
  calls     \* calls made so far

vars == <<ls, mat, kept, learning, ready, lesson, answer, calls>>

Has(l, flag) == flag \in l.flags
With(l, flag) == [l EXCEPT !.flags = @ \cup {flag}]
Marked(l, j, flag) == flag \in l.x[j]
IsNeeded(l, r) == Marked(l, First(r), "needed")
NeededAny(l, j) == l.x[j] \cap {"needed", "rhs"} # {}
NeededColumns(l) == {j \in Columns : Marked(l, j, "needed")}

(* How many of the dependent unknowns are read off a row, and whether the  *)
(* positions of their rows, among n, are there.                            *)
NOut(l) == Len(l.deps) - Len(l.zerodeps)
Positioned(l, n) == \A k \in 1 .. NOut(l) : k \in DOMAIN l.outeq /\ l.outeq[k] <= n

\* init, set_ext_needed_ and the options
Init ==
  /\ \E s \in Settings :
       ls = [stage |-> "first", flags |-> s.flags, maxcol |-> s.maxcol,
             weight |-> s.weight, zerodeps |-> <<>>, indepeqs |-> <<>>,
             x |-> [j \in Columns |-> {"nonzero"} \cup (IF j \in s.needed THEN {"needed"} ELSE {})],
             outeq |-> <<>>, deps |-> <<>>, indep |-> <<>>, eqdeps |-> <<>>,
             elems |-> <<>>, nparsout |-> 0]
  /\ mat = [c \in {Main} \cup Workers |->
              IF c = Main THEN [i \in 1 .. NEqs |-> NewRow] ELSE NoCopy]
  /\ kept = 1 .. NEqs
  /\ learning = Idle /\ ready = FALSE /\ answer = NoAnswer /\ calls = 0
  /\ lesson = [at |-> "none", confirmed |-> FALSE, clean |-> TRUE, steady |-> TRUE]

-----------------------------------------------------------------------------
(* Rows at a point *)

\* The coefficients of the equation number e that are looked at
Coefficients(l, e, q) ==
  LET eq == Systems[q][e] IN
  IF e \notin kept THEN NoEntries
  ELSE [j \in {k \in DOMAIN eq : Marked(l, k, "nonzero")} |-> eq[j]]

HasZero(c) == \E j \in DOMAIN c : c[j] = 0

(* fill_matrix stops at a coefficient that is zero.  That row has what was *)
(* written before, and after it whatever its memory held: it is torn, and  *)
(* the column END stands for the rest.                                     *)
Torn(r) == END \in DOMAIN r.c
HalfWritten(old, c) ==
  LET written == {j \in DOMAIN c : \A k \in DOMAIN c : c[k] = 0 => j < k}
  IN  (IF written = {} THEN old ELSE [j \in written |-> c[j]]) @@ (END :> 0)

\* Rows beyond the equations keep what they have
Filled(rows, c, end) ==
  [ok |-> end > Len(c),
   rows |-> [i \in DOMAIN rows |->
               [id |-> rows[i].id,
                c |-> IF i > Len(c) \/ i > end THEN rows[i].c
                      ELSE IF i = end THEN HalfWritten(rows[i].c, c[i]) ELSE c[i]]] \o <<>>]
Fill(l, rows, q) ==
  LET FilledUpTo(c) == Filled(rows, c, Min({i \in DOMAIN c : HasZero(c[i])} \cup {Len(c) + 1}))
  IN  FilledUpTo([i \in DOMAIN l.indepeqs |-> Coefficients(l, l.indepeqs[i], q)] \o <<>>)

\* toReducedRowEcholon with the options
Solved(l, rows, needed) ==
  Reduced(rows, l.maxcol, ~Has(l, "nobacksubst"), ~Has(l, "clearouts"), needed)

\* number_eqs_, sortRows and the reduction of all the equations
SolvedFirst(l, rows) ==
  Solved(l, Sorted([i \in DOMAIN rows |-> [id |-> i, c |-> rows[i].c]] \o <<>>, l.weight), Columns).rows

Heads(rows) == {First(rows[i]) : i \in DOMAIN rows} \ {END}

SetFlags(l, flags) == [l EXCEPT !.x = flags \o <<>>]

\* The unknowns zs vanish; those needed are noted
Vanishing(l, zs) ==
  SetFlags([l EXCEPT !.zerodeps = Selected(zs, {k \in DOMAIN zs : Marked(l, zs[k], "needed")})],
           [j \in Columns |-> IF j \in Range(zs) THEN (l.x[j] \cup {"dep"}) \ {"nonzero"} ELSE l.x[j]])

\* The unknowns hs, that rows are solved for, get flagged
Dependent(l, hs) == SetFlags(l, [j \in Columns |-> l.x[j] \cup (IF j \in hs THEN {"dep"} ELSE {})])

(* check_zeroes_: unknowns that are zero, or for the non-homogeneous part  *)
(* those that are zero when all the independent ones are.                  *)
CheckZeroes(l, rows) ==
  LET heads == [i \in DOMAIN rows |-> First(rows[i])]
      zero == Selected(heads, {i \in DOMAIN rows : Size(rows[i]) = 1})
      noconst == Selected(heads, {i \in DOMAIN rows : ~IsZero(rows[i]) /\ Const \notin DOMAIN rows[i].c})
      free == InOrder({j \in 1 .. NVars : ~Marked(l, j, "dep") /\ j \notin Heads(rows)})
      Answer(m, zs) == [any |-> zs # <<>>, ls |-> Vanishing(m, zs)]
  IN  CASE ~Has(l, "zeroopt") -> [any |-> FALSE, ls |-> l]
        [] Has(l, "zeroopt") /\ Has(l, "nonhomog") -> Answer(Dependent(l, Heads(rows)), noconst \o free)
        [] OTHER -> Answer(l, zero)

\* Flags the columns that rows have besides their first one
RightHandSides(l, rows) ==
  SetFlags(l, [j \in Columns |-> l.x[j] \cup (IF \E r \in rows : j \in DOMAIN r.c \ {First(r)}
                                              THEN {"rhs"} ELSE {})])

\* get_needed_indep_, when the output is not sparse
NeededIndep(l) ==
  IF Has(l, "sparse") THEN l
  ELSE [l EXCEPT !.indep = InOrder({j \in 1 .. NVars : NeededAny(l, j) /\ ~Marked(l, j, "dep")})]

\* Mutant of WithoutNonneeded: those of the right-hand sides are not needed
WithoutRightHandSides(l) ==
  SetFlags(l, [j \in Columns |-> IF j # Const /\ ~Marked(l, j, "dep") /\ ~Marked(l, j, "needed")
                                 THEN l.x[j] \ {"nonzero"} ELSE l.x[j]])

\* optimize_nonneeded_indeps_
WithoutNonneeded(l) ==
  SetFlags(l, [j \in Columns |-> IF j # Const /\ ~Marked(l, j, "dep") /\ ~NeededAny(l, j)
                                 THEN l.x[j] \ {"nonzero"} ELSE l.x[j]])

\* What learn_1_ takes from the rows that are left, of which out are needed
Taken(l, rows, out) ==
  [NeededIndep(RightHandSides(Dependent(l, Heads(rows)), {rows[k] : k \in Range(out)}))
     EXCEPT !.outeq = out,
            !.deps = l.zerodeps \o [k \in DOMAIN out |-> First(rows[out[k]])],
            !.indepeqs = [k \in DOMAIN rows |-> rows[k].id],
            !.stage = "second"]

NeededRows(l, ks, rows) == Selected(ks, {k \in DOMAIN ks : IsNeeded(l, rows[ks[k]])})

\* reset and learn_1_, step by step
LearnRows(l, rows) ==
  [ls |-> WithoutNonneeded(Taken(l, rows, NeededRows(l, From(1, Len(rows)), rows))),
   rows |-> rows, ok |-> TRUE]
LearnZeroes(z, rows, q) ==
  LearnRows(z.ls, WithoutZeroDeps(IF z.any THEN SolvedFirst(z.ls, Fill(z.ls, rows, q).rows) ELSE rows,
                                  Has(z.ls, "zeroopt")))
LearnSolved(l, rows, q) ==
  IF Impossible(rows)
  THEN [ls |-> With([l EXCEPT !.stage = "second"], "impossible"), rows |-> rows, ok |-> TRUE]
  ELSE LearnZeroes(CheckZeroes(l, rows), rows, q)
LearnFilled(l, f, q) ==
  IF f.ok THEN LearnSolved(l, SolvedFirst(l, f.rows), q) ELSE [ls |-> l, rows |-> f.rows, ok |-> FALSE]
Learn1(q) ==
  LET From1(l) == LearnFilled(l, Fill(l, mat[Main], q), q)
  IN  From1([ls EXCEPT !.indepeqs = From(1, Len(mat[Main])), !.zerodeps = <<>>])

-----------------------------------------------------------------------------
(* The second step and evaluations *)

\* check_dependent_variables_
Checked(l, rows) ==
  LET nonzero == {i \in DOMAIN rows : ~IsZero(rows[i])} IN
  /\ \A i \in nonzero :
       LET j == First(rows[i]) IN
       /\ Marked(l, j, "dep") /\ ~Marked(l, j, "swept")
       /\ Marked(l, j, "needed") =>
            IF Size(rows[i]) # 1 THEN Marked(l, j, "nonzero")
            ELSE Has(l, "zeroopt") => ~Marked(l, j, "nonzero")
  /\ Cardinality({i \in nonzero : IsNeeded(l, rows[i])}) + Len(l.zerodeps) = Len(l.deps)

\* Of the columns of a row, those printed by set_sparseout_data_
Printed(l, r) == InOrder({j \in DOMAIN r.c \cap Columns : j # First(r) /\ ~(Has(l, "homog") /\ j = Const)})

NParsPerDep(l) == Len(l.indep) + (IF Has(l, "homog") THEN 0 ELSE 1)

\* Mutant of WithOutput: the length of the output of the first time
WithFirstOutput(l, rows) ==
  IF l.nparsout # 0 THEN l ELSE [l EXCEPT !.nparsout = Len(l.deps) * NParsPerDep(l)]

\* set_sparseout_data_, or the length of the dense output
WithOutput(l, rows) ==
  LET elems == [k \in DOMAIN l.zerodeps |-> <<>>] \o
               [k \in 1 .. NOut(l) |-> Printed(l, rows[l.outeq[k]])]
  IN  IF Has(l, "sparse")
      THEN [l EXCEPT !.elems = elems, !.nparsout = Len(FlattenSeq(elems))]
      ELSE [l EXCEPT !.nparsout = Len(l.deps) * NParsPerDep(l)]

Invalid(l) == [l EXCEPT !.stage = "first"]

\* learn_2_, when the matrix is filled; rd are the reduced rows and their dependencies
Confirmed(l, rd) ==
  CASE Impossible(rd.rows) /\ Has(l, "impossible") -> [ls |-> [l EXCEPT !.eqdeps = <<>>], ok |-> TRUE]
    [] Impossible(rd.rows) /\ ~Has(l, "impossible") -> [ls |-> Invalid([l EXCEPT !.eqdeps = <<>>]), ok |-> FALSE]
    [] ~Impossible(rd.rows) /\ Checked(l, rd.rows) ->
         [ls |-> WithOutput([l EXCEPT !.eqdeps = rd.deps], rd.rows), ok |-> TRUE]
    [] OTHER -> [ls |-> Invalid([l EXCEPT !.eqdeps = rd.deps]), ok |-> FALSE]

Neg(a) == Sub(0, a)

\* The values written for the dependent unknown number k that is not zero
Values(l, r, k) ==
  LET elems == l.elems[k + Len(l.zerodeps)] IN
  IF Has(l, "sparse")
  THEN [j \in DOMAIN elems |->
          LET v == r.c[ColumnsOf(r)[j + 1]] IN IF elems[j] = Const /\ ~Has(l, "homog") THEN v ELSE Neg(v)]
  ELSE [j \in DOMAIN l.indep |-> Neg(At(r, l.indep[j]))]
         \o (IF Has(l, "homog") THEN <<>> ELSE <<At(r, Const)>>)

\* evaluate, in rows that have been filled and reduced
Output(l, rows) ==
  LET n == Len(l.zerodeps)
      zeros == [k \in 1 .. (IF Has(l, "sparse") THEN 0 ELSE n * NParsPerDep(l)) |-> 0]
  IN  zeros \o FlattenSeq([k \in 1 .. NOut(l) |-> Values(l, rows[l.outeq[k]], k)])
Answered(l, rows) ==
  /\ ~Impossible(rows) /\ Checked(l, rows)
  /\ Has(l, "sparse") =>
       \A k \in 1 .. NOut(l) : Size(rows[l.outeq[k]]) > Len(l.elems[k + Len(l.zerodeps)])

-----------------------------------------------------------------------------
(* Learning *)

Called == learning = Idle /\ calls < MaxCalls /\ calls' = calls + 1

\* min_learn_times
Learn ==
  /\ Called
  /\ \E n \in {IF ls.stage = "first" THEN 2 ELSE 1} :
       learning' = [need |-> n, ok |-> 0, bad |-> 0, left |-> n + NSingular]
  /\ ready' = FALSE /\ answer' = NoAnswer
  /\ UNCHANGED <<ls, mat, kept, lesson>>

\* Of each point the unknowns that depend on others, and on which
Shapes ==
  [q \in Points |->
     LET m == ReducedRowEchelon([e \in 1 .. NEqs |->
                [j \in Columns |-> IF j \in DOMAIN Systems[q][e] THEN Systems[q][e][j] ELSE 0]])
     IN  {{j \in Columns : m[i][j] # 0} : i \in 1 .. NEqs}]

Alike(p, q) == p # "none" /\ Shapes[p] = Shapes[q]

\* The loop of learn_all, after a point
AfterTry(ok) ==
  LET ln == [learning EXCEPT !.ok = IF ok THEN @ + 1 ELSE 0, !.bad = IF ok THEN @ ELSE @ + 1, !.left = @ - 1] IN
  /\ ready' = (ln.ok >= ln.need)
  /\ learning' = IF ready' \/ ln.bad > NSingular \/ ln.left = 0 THEN Idle ELSE ln
  /\ UNCHANGED <<kept, answer, calls>>

LearnFirst(q) ==
  /\ learning # Idle /\ ls.stage = "first"
  /\ \E r \in {Learn1(q)} :
       /\ ls' = r.ls /\ mat' = [mat EXCEPT ![Main] = r.rows]
       /\ lesson' = [at |-> q, steady |-> TRUE, confirmed |-> FALSE,
                     clean |-> r.ok /\ Len(mat[Main]) = NEqs /\ lesson.at = "none"]
       /\ AfterTry(r.ok)

(* The length of a row that has vanished, less one, is beyond all memory,  *)
(* and std::length_error ends the program.                                 *)
Printable(l, f, rows) ==
  Has(l, "sparse") /\ f.ok /\ ~Impossible(rows) /\ Checked(l, rows) =>
    Positioned(l, Len(rows)) /\ \A k \in 1 .. NOut(l) : ~IsZero(rows[l.outeq[k]])

\* learn_2_
LearnAgain(q) ==
  /\ learning # Idle /\ ls.stage = "second"
  /\ \E f \in {Fill(ls, mat[Main], q)} :
     \E rd \in {IF f.ok THEN Solved(ls, f.rows, NeededColumns(ls)) ELSE f} :
       /\ Printable(ls, f, rd.rows)
       /\ \E r \in {IF f.ok THEN Confirmed(ls, rd) ELSE [ls |-> ls, ok |-> FALSE]} :
            /\ ls' = r.ls /\ mat' = [mat EXCEPT ![Main] = rd.rows]
            /\ lesson' = [lesson EXCEPT !.confirmed = r.ok /\ ~Impossible(rd.rows),
                                           !.clean = @ /\ r.ok /\ Alike(lesson.at, q)]
            /\ AfterTry(r.ok)

-----------------------------------------------------------------------------
(* Calls on a node that has learned, and the setters *)

\* Session::invalidate_subctxt_alg_data
DropCopies(rows) == mat' = [c \in DOMAIN mat |-> IF c = Main THEN rows ELSE NoCopy]

(* An evaluation in one of the contexts; clone_data gives it its rows.     *)
(* Sparse output is written with the data of learn_2_; when there is less  *)
(* than evaluate reads, or fewer rows (equations swept with the rows of an *)
(* unlike point) or positions (an impossible system learned after another  *)
(* one forgets which unknowns vanished), what it does is undefined.        *)
Rows(c) == IF mat[c] = NoCopy THEN [i \in DOMAIN mat[Main] |-> NewRow] ELSE mat[c]
Evaluate(q, c) ==
  /\ Called /\ ready
  /\ Has(ls, "sparse") => Len(ls.deps) <= Len(ls.elems)
  /\ \E f \in {Fill(ls, Rows(c), q)} :
     \E rows \in {IF f.ok THEN Solved(ls, f.rows, NeededColumns(ls)).rows ELSE f.rows} :
     /\ f.ok /\ ~Impossible(rows) /\ Checked(ls, rows) => Positioned(ls, Len(rows))
     /\ \E ok \in {f.ok /\ Answered(ls, rows)} :
          /\ mat' = [mat EXCEPT ![c] = rows]
          /\ answer' = [at |-> q, stale |-> Len(rows) # Len(ls.indepeqs),
                        ok |-> ok, rows |-> rows, xout |-> IF ok THEN Output(ls, rows) ELSE <<>>]
  /\ lesson' = [lesson EXCEPT !.steady = @ /\ (c = Main => answer'.ok /\ Alike(lesson.at, q))]
  /\ UNCHANGED <<ls, kept, learning, ready>>

\* Mutant of MarkedFrom: what a marked equation was made from is marked, not what that was made from
MarkedOnce(ks) == ks \cup UNION {ls.eqdeps[k] : k \in ks}

\* mark_eq_
MarkedFrom(ks) ==
  FoldLeft(LAMBDA s, i : s \cup UNION {ls.eqdeps[k] : k \in s}, ks, From(1, Len(ls.indepeqs)))

\* The first elements of an array are written.
Overwritten(a, first) == first \o SubSeq(a, Len(first) + 1, Len(a))

(* ffLSolveMarkAndSweepEqs, which refuses to sweep twice.  The equations   *)
(* keep the numbers of the rows they are now in, and the first rows of the *)
(* matrix stay.  A row that has vanished has END for its first column,     *)
(* which as an index is 4 GB beyond the flags: the program ends there.     *)
(* (There are as many dependencies as rows, and no more needed rows than   *)
(* when they were learned: else memory is read, or written, outside.)      *)
Sweep ==
  /\ Called /\ ~Has(ls, "swept")
  /\ LET rows == mat[Main]
         marked == MarkedFrom({i \in DOMAIN rows : IsNeeded(ls, rows[i])})
         left == InOrder(DOMAIN rows \cap marked)
         gone == {First(rows[i]) : i \in DOMAIN rows \ marked}
         out == InOrder({k \in DOMAIN left : IsNeeded(ls, rows[left[k]])})
     IN  IF ls.eqdeps = <<>> THEN UNCHANGED <<ls, lesson>> /\ DropCopies(rows)
         ELSE /\ \A i \in DOMAIN rows : First(rows[i]) # END
              /\ Len(ls.eqdeps) = Len(rows) /\ Len(out) <= Len(ls.outeq)
              /\ ls' = With([ls EXCEPT
                   !.indepeqs = [k \in DOMAIN left |-> rows[left[k]].id],
                   !.outeq = Overwritten(@, out),
                   !.x = [j \in Columns |-> IF j \in gone THEN @[j] \cup {"swept"} ELSE @[j]],
                   !.eqdeps = <<>>], "swept")
              /\ DropCopies(SubSeq(rows, 1, Len(left)))
              /\ lesson' = [lesson EXCEPT !.clean = @ /\ lesson.steady]
  /\ answer' = NoAnswer
  /\ UNCHANGED <<kept, learning, ready>>

(* reset_needed, which reads the rows the last call left in the matrix.    *)
(* One that has vanished ends the program, as when sweeping; one that is   *)
(* torn has columns nobody wrote, and flags are set where they say.        *)
Relearned(l, rows, zeroes, out) ==
  WithOutput(WithoutNonneeded(NeededIndep(
    [RightHandSides(l, {rows[k] : k \in Range(out)})
       EXCEPT !.zerodeps = zeroes, !.outeq = Overwritten(@, out),
              !.deps = zeroes \o [k \in DOMAIN out |-> First(rows[out[k]])]])), rows)
ResetNeeded(s) ==
  /\ Called /\ ~Has(ls, "swept") /\ s \subseteq NeededColumns(ls)
  /\ ls.stage = "second" =>
       /\ Positioned(ls, Len(mat[Main]))
       /\ \A k \in 1 .. NOut(ls) :
            LET r == mat[Main][ls.outeq[k]] IN First(r) # END /\ (First(r) \in s => ~Torn(r))
  /\ \E l \in {SetFlags([ls EXCEPT !.eqdeps = <<>>],
                        [j \in Columns |-> CASE j \in s -> (ls.x[j] \ {"rhs"}) \cup {"needed"}
                                             [] j = Const -> ls.x[j]
                                             [] OTHER -> ls.x[j] \ {"needed", "rhs"}])} :
       ls' = IF l.stage = "first" THEN l
             ELSE Relearned(l, mat[Main], Selected(l.zerodeps, {k \in DOMAIN l.zerodeps : l.zerodeps[k] \in s}),
                            NeededRows(l, SubSeq(l.outeq, 1, NOut(l)), mat[Main]))
  /\ DropCopies(mat[Main])
  /\ lesson' = [lesson EXCEPT !.clean = @ /\ lesson.steady]
  /\ answer' = NoAnswer
  /\ UNCHANGED <<kept, learning, ready>>

\* The setters that ask for another learning
Set(l) ==
  /\ Called
  /\ ls' = Invalid(l) /\ DropCopies(mat[Main])
  /\ ready' = FALSE /\ answer' = NoAnswer
  /\ UNCHANGED <<kept, learning, lesson>>

OnlyHomogeneous == Set(With(ls, "homog"))
OnlyNonHomogeneous == ls.stage = "first" /\ Set(With(With(ls, "zeroopt"), "nonhomog"))
OptimizeZeroVars == Set(With(ls, "zeroopt"))
SparseOutput(on) ==
  Set(IF on THEN With(ls, "sparse") ELSE [ls EXCEPT !.flags = @ \ {"sparse"}, !.elems = <<>>])
SparseOutputWithMaxCol(j, backsubst, keepfull) ==
  Set([ls EXCEPT !.maxcol = j,
                 !.flags = (@ \ {"nobacksubst", "clearouts"}) \cup {"sparse"}
                             \cup (IF backsubst THEN {} ELSE {"nobacksubst"})
                             \cup (IF keepfull THEN {} ELSE {"clearouts"})])
EqWeight(w) == Set([ls EXCEPT !.weight = w])

\* delete_unneeded_eqs
DeleteUnneeded ==
  /\ Called
  /\ kept' = kept \cap Range(ls.indepeqs)
  /\ DropCopies(mat[Main])
  /\ answer' = NoAnswer
  /\ UNCHANGED <<ls, learning, ready, lesson>>

(* dump_info, and load_info into a new solver of the same equations: the   *)
(* rows of its matrix are new, it has no weights, and its node has not     *)
(* learned.  A solver with no learning behind it is loaded without room    *)
(* for the numbers of its equations, which reset writes (undefined).       *)
DumpAndLoad ==
  /\ Called /\ Len(ls.indepeqs) = Len(mat[Main]) /\ NOut(ls) <= Len(ls.outeq)
  /\ ls' = [ls EXCEPT !.weight = <<>>, !.outeq = SubSeq(@, 1, NOut(ls))]
  /\ DropCopies([i \in DOMAIN mat[Main] |-> NewRow])
  /\ kept' = 1 .. NEqs
  /\ lesson' = [lesson EXCEPT !.steady = FALSE]
  /\ ready' = FALSE /\ answer' = NoAnswer
  /\ UNCHANGED learning

Setter ==
  \/ OnlyHomogeneous \/ OnlyNonHomogeneous \/ OptimizeZeroVars
  \/ \E on \in BOOLEAN : SparseOutput(on)
  \/ \E backsubst, keepfull \in BOOLEAN : SparseOutputWithMaxCol(MaxCol, backsubst, keepfull)
  \/ \E w \in {<<>>, [e \in 1 .. NEqs |-> -e]} : EqWeight(w)

Next ==
  \/ Learn
  \/ \E q \in Points : LearnFirst(q) \/ LearnAgain(q) \/ \E c \in DOMAIN mat : Evaluate(q, c)
  \/ Sweep \/ \E s \in SUBSET NeededColumns(ls) : ResetNeeded(s)
  \/ Setter \/ DeleteUnneeded \/ DumpAndLoad

Spec == Init /\ [][Next]_vars

-----------------------------------------------------------------------------
(* Properties *)

\* The system at a point, without the unknowns that are left out
Full(q) ==
  [e \in 1 .. NEqs |->
     [j \in Columns |-> IF j \in DOMAIN Systems[q][e] /\ Marked(ls, j, "nonzero") THEN Systems[q][e][j] ELSE 0]]

Rank(m) == Cardinality({i \in DOMAIN m : Pivot(RowEchelon(m)[i]) # 0})
Dense(r) == [j \in Columns |-> At(r, j)]

(* The reduced rows from which the output is taken follow from the system  *)
(* (reduced by another algorithm), unless old rows are among them.         *)
Follows(a) ==
  \/ a.stale
  \/ \A k \in 1 .. NOut(ls) :
       Rank(Append(Full(a.at), Dense(a.rows[ls.outeq[k]]))) = Rank(Full(a.at))

\* The output at a point like the one learned from
Expected(q) ==
  LET m == ReducedRowEchelon(Full(q))
      row(d) == m[CHOOSE i \in 1 .. NEqs : Pivot(m[i]) = d]
      cols(k) == IF Has(ls, "sparse") THEN ls.elems[k]
                 ELSE ls.indep \o (IF Has(ls, "homog") THEN <<>> ELSE <<Const>>)
      Zeros(k) == [j \in DOMAIN cols(k) |-> 0]
  IN  FlattenSeq([k \in DOMAIN ls.deps |->
        IF k <= Len(ls.zerodeps) THEN Zeros(k)
        ELSE [j \in DOMAIN cols(k) |->
                LET v == row(ls.deps[k])[cols(k)[j]] IN IF cols(k)[j] = Const THEN v ELSE Neg(v)]])

Usual == ls.maxcol = END /\ ~Has(ls, "nobacksubst")
Solvable(q) == {Const} \notin Shapes[q] /\ \A e \in 1 .. NEqs : ~HasZero(Systems[q][e])

(* The solver solves the system: what an evaluation reads its output from  *)
(* follows from the equations at that point, and if the unknowns depend on *)
(* each other there as they did where the solver learned, it succeeds and  *)
(* writes the reduced solution.  That is so for every option, after marking *)
(* and sweeping, after another set of needed unknowns, with equations      *)
(* deleted, and in the context of any worker (alg_linear_solver.cc:912).   *)
SolvesTheSystem ==
  answer.at # "none" =>
    /\ answer.ok => Follows(answer)
    /\ lesson.clean /\ Usual /\ ~answer.stale /\ Alike(lesson.at, answer.at)
         /\ Solvable(answer.at)
         => answer.ok /\ answer.xout = Expected(answer.at)

(* An evaluation writes as many values as the solver says it does: the     *)
(* graph has copied that number (alg_linear_solver.cc:843), also after     *)
(* reset_needed has changed it.  Learning may end before learn_2_ has      *)
(* written the number: a solver that has learned learns again until it has *)
(* succeeded once, which, if learn_2_ fails first, is learn_1_; and an     *)
(* impossible system is confirmed without an output.                       *)
WritesWhatItPromised ==
  answer.at # "none" /\ answer.ok /\ lesson.confirmed => Len(answer.xout) = ls.nparsout
=============================================================================
