---------------------------- MODULE KconfigOperands ----------------------------
(***************************************************************************)
(* The operands of the dependency expressions of Kconfig                    *)
(* (support/kconfig/expr.c): a symbol, a comparison or the negation of one. *)
(* What they are worth, and what the simplification makes of one that tests *)
(* a bool, of a negated comparison, and of two about the same symbol.       *)
(*                                                                          *)
(* Texts are compared by Rank, the order of strcmp, and read as numbers by  *)
(* Num[b], the texts that strtoll or strtoull reads to their end in base b. *)
(***************************************************************************)
EXTENDS KconfigTypes

CONSTANTS Rank, Num

ASSUME RankAssumption ==
    /\ ConstSymbols \subseteq DOMAIN Rank
    /\ \A x \in DOMAIN Rank : Rank[x] \in Int
    /\ \A x, y \in DOMAIN Rank : Rank[x] = Rank[y] => x = y

\* no number is y, m or n, and numbers are integers
ASSUME NumAssumption ==
    \A b \in {0, 10, 16} : /\ DOMAIN Num[b] \cap YMN = {}
                           /\ \A x \in DOMAIN Num[b] : Num[b][x] \in Int

Relations == {"eq", "ne", "lt", "le", "gt", "ge"}

(* The value of a constant symbol. *)
ConstValue(s) == [tri |-> CASE s = "y" -> yes [] s = "m" -> mod [] OTHER -> no, val |-> s]

Nil == [op |-> "null"]
Sym(s) == [op |-> "sym", s |-> s]
Not(e) == [op |-> "not", l |-> e]
Cmp(op, s, t) == [op |-> op, s |-> s, t |-> t]

(***************************************************************************)
(* Values                                                                   *)
(***************************************************************************)

Base(t) == CASE t = "int" -> 10 [] t = "hex" -> 16 [] OTHER -> 0

(* expr_parse_string: the texts of a type that have a number, and which. *)
HasNumber(t, x) == t \in Logical \/ x \in DOMAIN Num[Base(t)]
NumberOf(t, x) == IF t \notin Logical THEN Num[Base(t)][x]
                  ELSE CASE x = "n" -> 0 [] x = "m" -> 1 [] x = "y" -> 2 [] OTHER -> -1

(* As 64-bit unsigned numbers the negative ones come last. *)
Less(unsigned, a, b) == (a < b) # (unsigned /\ (a < 0) # (b < 0))
NumCmp(unsigned, a, b) == IF a = b THEN 0 ELSE IF Less(unsigned, a, b) THEN -1 ELSE 1
StrCmp(x, y) == Rank[x] - Rank[y]

(* Two texts x of the types t. *)
Compare(t, x) ==
    IF t = <<"string", "string">> \/ \E i \in 1..2 : ~HasNumber(t[i], x[i]) THEN StrCmp(x[1], x[2])
    ELSE NumCmp("hex" \in {t[1], t[2]}, NumberOf(t[1], x[1]), NumberOf(t[2], x[2]))

Satisfies(op, r) == CASE op = "eq" -> r = 0  [] op = "ne" -> r # 0 [] op = "lt" -> r < 0
                      [] op = "le" -> r <= 0 [] op = "gt" -> r > 0 [] op = "ge" -> r >= 0

(* A symbol or a comparison, once its symbols are calculated. *)
Compared(ty, v, modules, e) == Compare(<<ty[e.s], ty[e.t]>>, <<StringValue(ty, v, modules, e.s),
                                                               StringValue(ty, v, modules, e.t)>>)
AtomValue(ty, v, modules, e) ==
    IF e.op = "sym" THEN v[e.s].tri
    ELSE IF Satisfies(e.op, Compared(ty, v, modules, e)) THEN yes ELSE no

(* What the symbols are once they are calculated: a constant is what it is  *)
(* called, every value is a text, and only a tristate is m, while modules   *)
(* are on.                                                                  *)
Calculated(ty, v, modules) ==
    /\ \A c \in ConstSymbols : ty[c] = "unknown" /\ v[c] = ConstValue(c)
    /\ \A s \in AllSymbols :
           /\ StringValue(ty, v, modules, s) \in DOMAIN Rank
           /\ ty[s] \in Logical =>
                  /\ v[s].tri \in Tri
                  /\ v[s].tri = mod => ty[s] = "tristate" /\ modules # no

(***************************************************************************)
(* Simplification                                                           *)
(***************************************************************************)

Negation == [eq |-> "ne", ne |-> "eq", le |-> "gt", gt |-> "le", lt |-> "ge", ge |-> "lt"]

(* expr_transform: a comparison of a bool with y, m or n. *)
TestsBool(ty, e) == e.op \in {"eq", "ne"} /\ ty[e.s] = "bool" /\ e.t \in YMN
BoolTest(e) == CASE e.t = "m" -> Sym(IF e.op = "eq" THEN "n" ELSE "y")
                 [] e.t # "m" /\ (e.t = "y") = (e.op = "eq") -> Sym(e.s)
                 [] OTHER -> Not(Sym(e.s))

(* The symbol a joinable operand is about; the second operand of a pair is  *)
(* looked into less deeply than the first.                                  *)
Joinable == {"eq", "ne", "sym"}
About(e, under) == IF e.op \in Joinable THEN e.s
                   ELSE IF e.op = "not" /\ e.l.op \in under THEN e.l.s ELSE "none"

Third(s, t) == CHOOSE u \in YMN : u \notin {s, t}

(* expr_join_or and expr_join_and: one operand for two that are not equal   *)
(* and about the same symbol s, or Nil.                                     *)
JoinOr(t, s, a, b) ==
    CASE t = "tristate" /\ a.op = "eq" /\ b.op = "eq" /\ {a.t, b.t} \subseteq YMN
             -> Cmp("ne", s, Third(a.t, b.t))
      [] t = "bool" /\ {a, b} = {Sym(s), Not(Sym(s))} -> Sym("y")
      [] OTHER -> Nil

JoinEqNe(eq, ne) == IF eq.t # ne.t THEN eq ELSE Sym("n")
JoinAnd(t, s, a, b) ==
    CASE {a, b} \in {{Sym(s), Cmp("eq", s, "y")}, {Sym(s), Cmp("ne", s, "m")}} -> Cmp("eq", s, "y")
      [] {a, b} = {Sym(s), Cmp("ne", s, "n")} -> Sym(s)
      [] t = "tristate" /\ {a.op, b.op} = {"eq", "ne"} /\ {a.t, b.t} \subseteq ConstSymbols
             -> IF a.op = "eq" THEN JoinEqNe(a, b) ELSE JoinEqNe(b, a)
      [] t = "tristate" /\ a.op = "ne" /\ b.op = "ne" /\ {a.t, b.t} \subseteq YMN
             -> Cmp("eq", s, Third(a.t, b.t))
      [] OTHER -> Nil

JoinAbout(ty, s, op, a, b) ==
    IF s = "none" \/ s # About(b, {"sym"}) \/ ty[s] \notin Logical THEN Nil
    ELSE IF op = "or" THEN JoinOr(ty[s], s, a, b) ELSE JoinAnd(ty[s], s, a, b)
================================================================================
