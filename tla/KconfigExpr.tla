------------------------------ MODULE KconfigExpr ------------------------------
(***************************************************************************)
(* The dependency expressions of Kconfig (support/kconfig/expr.c): how they *)
(* are built, simplified, compared, evaluated and printed.  An expression   *)
(* is a record; the C code rewrites its trees in place, but no tree it      *)
(* rewrites is shared (menu_finalize copies before it simplifies), so every *)
(* rewriting is a function from expressions to expressions here; the        *)
(* operands, where no recursion is, are in KconfigOperands.                 *)
(***************************************************************************)
EXTENDS KconfigOperands, SequencesExt

Bool == {"or", "and"}

Two(op, a, b) == [op |-> op, l |-> a, r |-> b]
AllocTwo(op, a, b) == IF a = Nil THEN b ELSE IF b = Nil THEN a ELSE Two(op, a, b)
AllocAnd(a, b) == AllocTwo("and", a, b)
AllocOr(a, b) == AllocTwo("or", a, b)

IsYes(e) == e \in {Nil, Sym("y")}

RECURSIVE SymsOf(_)
(* The symbols an expression mentions, in the order they are visited. *)
SymsOf(e) == CASE e = Nil -> <<>>
               [] e.op = "sym" -> <<e.s>>
               [] e.op = "not" -> SymsOf(e.l)
               [] e.op \in Bool -> SymsOf(e.l) \o SymsOf(e.r)
               [] OTHER -> <<e.s, e.t>>

(***************************************************************************)
(* Values                                                                   *)
(***************************************************************************)

RECURSIVE Value(_, _, _, _)
(* expr_calc_value, once the symbols of the expression are calculated. *)
Value(ty, v, modules, e) ==
    CASE e = Nil -> yes
      [] e.op = "and" -> TriMin(Value(ty, v, modules, e.l), Value(ty, v, modules, e.r))
      [] e.op = "or" -> TriMax(Value(ty, v, modules, e.l), Value(ty, v, modules, e.r))
      [] e.op = "not" -> yes - Value(ty, v, modules, e.l)
      [] OTHER -> AtomValue(ty, v, modules, e)

(***************************************************************************)
(* Simplification                                                           *)
(***************************************************************************)

Neutral(op) == Sym(IF op = "or" THEN "n" ELSE "y")

RECURSIVE Leaves(_, _), Graft(_, _, _)
(* The operands of one level of && or ||, and the same level with others. *)
Leaves(op, e) == IF e.op = op THEN Leaves(op, e.l) \o Leaves(op, e.r) ELSE <<e>>
GraftAt(op, e, ls, k) ==
    Two(op, Graft(op, e.l, SubSeq(ls, 1, k)), Graft(op, e.r, SubSeq(ls, k + 1, Len(ls))))
Graft(op, e, ls) ==
    IF e.op # op THEN ls[1]
    ELSE GraftAt(op, e, ls, Len(Leaves(op, e.l)))

(* The pairs of positions, in the order the two nested recursions meet them. *)
Pairs(m, n) == [k \in 1..m * n |-> <<((k - 1) \div n) + 1, ((k - 1) % n) + 1>>]

Absorbing(op) == Sym(IF op = "or" THEN "y" ELSE "n")
Absorbed(op, l, r) == CASE Absorbing(op) \in {l, r} -> Absorbing(op)
                        [] l = Neutral(op) -> r
                        [] r = Neutral(op) -> l
                        [] OTHER -> Two(op, l, r)

RECURSIVE EliminateYN(_)
EliminateYN(e) == IF e.op \notin Bool THEN e
                  ELSE Absorbed(e.op, EliminateYN(e.l), EliminateYN(e.r))

RECURSIVE ExprEq(_, _), EliminateEq(_, _)

(* __expr_eliminate_eq: both copies of an operand the two levels share      *)
(* become the neutral element; two y or two n are left alone.               *)
Erase(op, ls, p) ==
    IF ls[1][p[1]] = ls[2][p[2]] /\ ls[1][p[1]] \in {Sym("y"), Sym("n")} THEN ls
    ELSE IF ExprEq(ls[1][p[1]], ls[2][p[2]])
    THEN [ls EXCEPT ![1][p[1]] = Neutral(op), ![2][p[2]] = Neutral(op)] ELSE ls

Grafts(op, pair, ls) == [i \in 1..2 |-> Graft(op, pair[i], ls[i])]
EliminateLevel(op, pair) ==
    Grafts(op, pair, FoldLeft(LAMBDA ls, p : Erase(op, ls, p), [i \in 1..2 |-> Leaves(op, pair[i])],
                              Pairs(Len(Leaves(op, pair[1])), Len(Leaves(op, pair[2])))))

(* First the level of a, then that of b, if it is another one. *)
EliminateSide(pair, i) == IF pair[i].op \in Bool /\ (i = 1 \/ pair[1].op # pair[2].op)
                          THEN EliminateLevel(pair[i].op, pair) ELSE pair

EliminateYNs(pair) == [i \in 1..2 |-> EliminateYN(pair[i])]
EliminateEq(a, b) ==
    IF Nil \in {a, b} THEN <<a, b>>
    ELSE EliminateYNs(FoldLeft(EliminateSide, <<a, b>>, <<1, 2>>))

Agreed(pair) == pair[1].op = "sym" /\ pair[1] = pair[2]
ExprEq(a, b) ==
    /\ a.op = b.op
    /\ CASE a.op \in Bool -> Agreed(EliminateEq(a, b))
         [] a.op = "not" -> ExprEq(a.l, b.l)
         [] OTHER -> a = b

RECURSIVE TransBool(_, _)
TransBool(ty, e) ==
    CASE e = Nil -> Nil
      [] e.op \in Bool -> Two(e.op, TransBool(ty, e.l), TransBool(ty, e.r))
      [] e.op = "not" -> Not(TransBool(ty, e.l))
      [] e.op = "ne" /\ ty[e.s] = "tristate" /\ e.t = "n" -> Sym(e.s)
      [] OTHER -> e

Join(ty, op, a, b) == IF ExprEq(a, b) THEN a ELSE JoinAbout(ty, About(a, Joinable), op, a, b)

RECURSIVE Dups1(_, _, _)
(* expr_eliminate_dups1 on one level: every operand is joined with every    *)
(* other, after the level below the first of the two; n counts the joins.   *)
Below(ty, a) == IF a.op \in Bool THEN Dups1(ty, a.op, a) ELSE [e |-> a, n |-> 0]
Joined(op, acc, p, in, j) ==
    IF j = Nil THEN [ls |-> [acc.ls EXCEPT ![p[1]] = in.e], n |-> acc.n + in.n]
    ELSE [ls |-> [acc.ls EXCEPT ![p[1]] = Neutral(op), ![p[2]] = j], n |-> acc.n + in.n + 1]
JoinWith(ty, op, acc, p, in) == Joined(op, acc, p, in, Join(ty, op, in.e, acc.ls[p[2]]))
JoinPair(ty, op, acc, p) == IF p[1] = p[2] THEN acc
                            ELSE JoinWith(ty, op, acc, p, Below(ty, acc.ls[p[1]]))

JoinAll(ty, op, ls) == FoldLeft(LAMBDA acc, p : JoinPair(ty, op, acc, p), [ls |-> ls, n |-> 0],
                                Pairs(Len(ls), Len(ls)))
Regraft(op, e, out) == [e |-> Graft(op, e, out.ls), n |-> out.n]
Dups1(ty, op, e) == Regraft(op, e, JoinAll(ty, op, Leaves(op, e)))

RECURSIVE EliminateDups(_, _)
NoDups(ty, out) == IF out.n = 0 THEN out.e ELSE EliminateDups(ty, EliminateYN(out.e))
EliminateDups(ty, e) == IF e.op \in Bool THEN NoDups(ty, Dups1(ty, e.op, e)) ELSE e

RECURSIVE Transform(_, _)
(* The negation of a transformed expression. *)
Negated(ty, a) ==
    CASE a.op = "not" -> Transform(ty, a.l)
      [] a.op \in Relations -> Cmp(Negation[a.op], a.s, a.t)
      [] a.op \in Bool -> Transform(ty, Two(IF a.op = "or" THEN "and" ELSE "or", Not(a.l), Not(a.r)))
      [] a \in {Sym("y"), Sym("n")} -> Sym(IF a.s = "y" THEN "n" ELSE "y")
      [] a = Sym("m") -> a
      [] OTHER -> Not(a)

Transform(ty, e) ==
    CASE e.op \in Bool -> Two(e.op, Transform(ty, e.l), Transform(ty, e.r))
      [] TestsBool(ty, e) -> BoolTest(e)
      [] e.op = "not" -> Negated(ty, Transform(ty, e.l))
      [] OTHER -> e

(***************************************************************************)
(* Questions about dependencies                                             *)
(***************************************************************************)

ContainsSymbol(e, s) == \E i \in DOMAIN SymsOf(e) : SymsOf(e)[i] = s

RECURSIVE DependsSymbol(_, _)
DependsSymbol(e, s) ==
    CASE e.op = "and" -> DependsSymbol(e.l, s) \/ DependsSymbol(e.r, s)
      [] OTHER -> e \in {Sym(s), Cmp("eq", s, "y"), Cmp("eq", s, "m"), Cmp("ne", s, "n")}

RECURSIVE TransCompare(_, _, _)
NotIf(c, e) == IF c THEN Not(e) ELSE e
TransCompare(e, op, s) ==
    CASE e = Nil -> NotIf(op = "ne", Sym(s))
      [] e # Nil /\ e.op \in Bool ->
             NotIf(op = "ne",
                   IF s \notin {"y", "n"} THEN e
                   ELSE Two(IF (s = "y") = (e.op = "and") THEN "and" ELSE "or",
                            TransCompare(e.l, "eq", s), TransCompare(e.r, "eq", s)))
      [] e.op = "not" -> TransCompare(e.l, IF op = "eq" THEN "ne" ELSE "eq", s)
      [] e.op = "sym" -> Cmp(op, e.s, s)
      [] e.op \in Relations -> CASE s = "m" -> Sym(IF op = "eq" THEN "n" ELSE "y")
                                 [] s # "m" -> NotIf((s = "y") # (op = "eq"), e)

(***************************************************************************)
(* Printing: an expression as the tokens a reader sees                      *)
(***************************************************************************)

(* A mutant: || binds tighter than &&. *)
Looseness_Swapped(op) == CASE op \in {"le", "lt", "ge", "gt"} -> 1
                           [] op \in {"eq", "ne"} -> 2
                           [] op = "not" -> 3
                           [] op = "or" -> 4
                           [] op = "and" -> 5
                           [] op = "none" -> 7
                           [] OTHER -> 0

(* expr_compare_type: how loosely an operator binds. *)
Looseness(op) == CASE op \in {"le", "lt", "ge", "gt"} -> 1
                   [] op \in {"eq", "ne"} -> 2
                   [] op = "not" -> 3
                   [] op = "and" -> 4
                   [] op = "or" -> 5
                   [] op = "none" -> 7
                   [] OTHER -> 0

RECURSIVE Tokens(_, _)
Enclosed(parens, body) == IF parens THEN <<"(">> \o body \o <<")">> ELSE body
Tokens(e, prev) ==
    Enclosed(Looseness(e.op) > Looseness(prev),
             CASE e = Nil -> <<"y">>
               [] e.op = "sym" -> <<e.s>>
               [] e.op = "not" -> <<"!">> \o Tokens(e.l, "not")
               [] e.op \in Bool -> Tokens(e.l, e.op) \o <<e.op>> \o Tokens(e.r, e.op)
               [] OTHER -> <<e.s, e.op, e.t>>)

(* expr_print_revdep: the top-level || terms that have the asked value. *)
RevdepTerms(ty, v, modules, e, tri) ==
    SelectSeq(Leaves("or", e), LAMBDA t : Value(ty, v, modules, t) = tri)
================================================================================
