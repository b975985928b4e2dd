----------------------------- MODULE KconfigSymbol -----------------------------
(***************************************************************************)
(* The values of Kconfig symbols (support/kconfig/symbol.c): how a symbol's *)
(* value follows from what the user set and from the other symbols, cached  *)
(* until something changes, and how values are set.                         *)
(*                                                                          *)
(* k is the finalized tree of the version of the sources in use.  A memory  *)
(* m is what the C program keeps in its symbols: the sets are the ones with *)
(* a SYMBOL_ flag, curr and def are sym->curr and sym->def[S_DEF_USER], and *)
(* pvis the visible.tri of the properties.                                  *)
(* Calculating a symbol changes the memory, so every operator here takes    *)
(* one and returns one.  SYMBOL_CHANGED only tells the front ends what to   *)
(* redraw and is left out.  dropped is the model's own: the numbers that     *)
(* conf_read has put aside since everything was last forgotten.             *)
(***************************************************************************)
EXTENDS KconfigMenu, KconfigLines

CONSTANTS Prefixed,  \* Prefixed[x]: x, with 0x before it if it has none
          Number,    \* Number[b][x]: what strtoll makes of x in base b
          Spell      \* Spell[t][n]: how a number of type t is printed

Memory ==
    [valid |-> {}, write |-> {}, user |-> {}, need |-> {},
     curr |-> [s \in AllSymbols |-> IF s \in Symbols THEN Blank ELSE ConstValue(s)],
     def |-> [s \in Symbols |-> Blank],
     vis |-> [s \in Symbols |-> no], dir |-> [s \in Symbols |-> no],
     rev |-> [s \in Symbols |-> no], imp |-> [s \in Symbols |-> no],
     pvis |-> [i \in DOMAIN k.prop |-> no], modules |-> no, changes |-> FALSE, dropped |-> {}]

IsChoice(s) == s \in k.choice
IsChoiceValue(s) == s \in k.choiceval
HasValue(m, s) == s \in m.user
Changeable(m, s) == m.vis[s] > m.rev[s]

(* sym_get_type: a tristate has two values while modules are off. *)
GetType(m, s) ==
    IF k.ty[s] = "tristate" /\ (m.modules = no \/ (IsChoiceValue(s) /\ m.vis[s] = yes))
    THEN "bool" ELSE k.ty[s]

RECURSIVE Calc(_, _), CalcAll(_, _)
CalcAll(m, syms) == IF syms = <<>> THEN m ELSE CalcAll(Calc(m, Head(syms)), Tail(syms))

(* expr_calc_value; Given takes a default for an absent expression. *)
Evaluated(m, e) == [m |-> m, tri |-> Value(k.ty, m.curr, m.curr[ModulesSym].tri, e)]
Eval(m, e) == Evaluated(CalcAll(m, SymsOf(e)), e)
Given(m, e, tri) == IF e = Nil THEN [m |-> m, tri |-> tri] ELSE Eval(m, e)

(***************************************************************************)
(* Calculating                                                              *)
(***************************************************************************)

Prompts(s) == SelectSeq(PropsOf(k, s), LAMBDA i : k.prop[i].text)

(* The visibility of a symbol is that of its most visible prompt; what      *)
(* dir_dep, rev_dep and implied allow, ask and suggest follows.             *)
PromptTri(r, s) == IF /\ IsChoiceValue(s) /\ k.ty[s] = "tristate"
                      /\ r.tri = mod /\ r.m.curr[ChoiceOf(k, s)].tri = yes
                   THEN no ELSE r.tri
NotePrompt(acc, r, s, i) == [m |-> [r.m EXCEPT !.pvis[i] = PromptTri(r, s)],
                             tri |-> TriMax(acc.tri, PromptTri(r, s))]
SeePrompt(acc, s, i) == NotePrompt(acc, Eval(acc.m, k.prop[i].visible), s, i)
SetVisible(r, s) ==
    [r.m EXCEPT !.vis[s] = IF r.tri = mod /\ (k.ty[s] # "tristate" \/ r.m.modules = no)
                           THEN yes ELSE r.tri]

LimitExpr(s) == [dir |-> k.dir[s], rev |-> k.rev[s], imp |-> k.implied[s]]
SetLimit(r, s, limit) ==
    [r.m EXCEPT ![limit][s] = IF r.tri = mod /\ GetType(r.m, s) = "bool" THEN yes ELSE r.tri]
Limit(m, s, limit) ==
    IF limit = "imp" /\ m.dir[s] = no THEN [m EXCEPT !.imp[s] = no]
    ELSE SetLimit(Given(m, LimitExpr(s)[limit], IF limit = "dir" THEN yes ELSE no), s, limit)
Limits(s) == IF IsChoiceValue(s) THEN <<>> ELSE <<"dir", "rev", "imp">>

CalcVisibility(m, s) ==
    FoldLeft(LAMBDA mm, limit : Limit(mm, s, limit),
             SetVisible(FoldLeft(LAMBDA acc, i : SeePrompt(acc, s, i), [m |-> m, tri |-> no], Prompts(s)), s),
             Limits(s))

RECURSIVE FirstMet(_, _), ChoiceDefault(_, _, _)
(* The first property whose condition holds, 0 if none. *)
Noted(r, i) == [r.m EXCEPT !.pvis[i] = r.tri]
MetOrNext(r, props) == IF r.tri # no THEN [m |-> Noted(r, Head(props)), prop |-> Head(props)]
                       ELSE FirstMet(Noted(r, Head(props)), Tail(props))
FirstMet(m, props) == IF props = <<>> THEN [m |-> m, prop |-> 0]
                      ELSE MetOrNext(Eval(m, k.prop[Head(props)].visible), props)

DefaultProp(m, s) == FirstMet(m, PropsOfType(k, s, "default"))
RangeProp(m, s) == FirstMet(m, PropsOfType(k, s, "range"))

(* sym_choice_default: the first default that is met and visible, else the  *)
(* first visible value.                                                     *)
ShownValues(m, c) == SelectSeq(ValuesOf(k, c), LAMBDA v : m.vis[v] # no)
DefaultOr(f, c, props, s) ==
    IF f.m.vis[s] # no THEN [m |-> f.m, sym |-> s]
    ELSE ChoiceDefault(f.m, c, SelectSeq(props, LAMBDA i : i > f.prop))
DefaultAt(f, c, props) ==
    IF f.prop # 0 THEN DefaultOr(f, c, props, k.prop[f.prop].expr.s)
    ELSE [m |-> f.m, sym |-> IF ShownValues(f.m, c) = <<>> THEN Unset ELSE ShownValues(f.m, c)[1]]
ChoiceDefault(m, c, props) == DefaultAt(FirstMet(m, props), c, props)

(* sym_calc_choice: the value of a choice that is y; the choice is new when *)
(* one of its visible values is.                                            *)
RenewChoice(m, c) ==
    [m EXCEPT !.user = IF \E v \in Range(ShownValues(m, c)) : v \notin @ THEN @ \ {c} ELSE @]
TakeDefault(d, c) == IF d.sym = Unset THEN [d.m EXCEPT !.curr[c] = Blank]
                     ELSE [d.m EXCEPT !.curr[c].val = d.sym]
TakeChoice(m, c, mine) ==
    IF mine # Unset /\ m.vis[mine] # no THEN [m EXCEPT !.curr[c].val = mine]
    ELSE TakeDefault(ChoiceDefault(m, c, PropsOfType(k, c, "default")), c)
CalcChoice(m, c) == TakeChoice(RenewChoice(FoldLeft(CalcVisibility, m, ValuesOf(k, c)), c), c, m.def[c].val)

(* sym_get_range_val, in the base of the symbol that is bounded. *)
RangeNumber(m, s, base) ==
    [m |-> m, n |-> Number[IF k.ty[s] \in {"int", "hex"} THEN Base(k.ty[s]) ELSE base][m.curr[s].val]]
RangeVal(m, s, base) == RangeNumber(Calc(m, s), s, base)

(* The number of the range of s that is nearest to n; the second bound is   *)
(* looked at only if the first is met.                                      *)
AtMost(hi, n) == IF n > hi.n THEN hi ELSE [hi EXCEPT !.n = n]
AtLeast(lo, n, s, base) == IF n < lo.n THEN lo ELSE AtMost(RangeVal(lo.m, s, base), n)
Within(f, n, base) == IF f.prop = 0 THEN [m |-> f.m, n |-> n]
                      ELSE AtLeast(RangeVal(f.m, k.prop[f.prop].expr.s, base), n, k.prop[f.prop].expr.t, base)
Nearest(m, s, x, base) == Within(RangeProp(m, s), Number[base][x], base)

Clamp(r, s, n) == IF r.n = n THEN r.m ELSE [r.m EXCEPT !.curr[s].val = Spell[k.ty[s]][r.n]]
ValidateRange(m, s) ==
    IF k.ty[s] \notin {"int", "hex"} THEN m
    ELSE Clamp(Nearest(m, s, m.curr[s].val, Base(k.ty[s])), s, Number[Base(k.ty[s])][m.curr[s].val])

(* The value of a bool or tristate that is no visible value of a choice. *)
AddTo(S, s, cond) == IF cond THEN S \cup {s} ELSE S
Force(m, s) == [m EXCEPT !.write = AddTo(@, s, m.rev[s] # no)]
Cap(e, i) == [m |-> e.m, tri |-> TriMin(e.tri, e.m.pvis[i])]
ByDefault(f) == IF f.prop = 0 THEN [m |-> f.m, tri |-> no]
                ELSE Cap(Eval(f.m, k.prop[f.prop].expr), f.prop)
Raise(d, s) == [m |-> [d.m EXCEPT !.write = AddTo(@, s, d.tri # no \/ d.m.imp[s] # no)],
                tri |-> TriMax(TriMax(d.tri, d.m.imp[s]), d.m.rev[s])]
LogicalValue(m, s) ==
    CASE m.vis[s] # no /\ HasValue(m, s)
             -> [m |-> m, tri |-> TriMax(TriMin(m.def[s].tri, m.vis[s]), m.rev[s])]
      [] IsChoice(s) /\ ~(m.vis[s] # no /\ HasValue(m, s)) -> [m |-> Force(m, s), tri |-> m.rev[s]]
      [] OTHER -> Raise(ByDefault(DefaultProp(Force(m, s), s)), s)

SetValue(v, s) ==
    [v.m EXCEPT !.curr[s] =
        [tri |-> IF v.tri = mod /\ (GetType(v.m, s) = "bool" \/ v.m.imp[s] = yes) THEN yes ELSE v.tri,
         val |-> "n"]]
ChoiceToo(m, s) == IF IsChoice(s) /\ m.curr[s].tri = yes THEN CalcChoice(m, s) ELSE m

(* A mutant: every value of a choice keeps what the user gave it. *)
CalcLogical_OwnValue(m, s) == ChoiceToo(SetValue(LogicalValue(m, s), s), s)

CalcLogical(m, s) ==
    ChoiceToo(SetValue(IF IsChoiceValue(s) /\ m.vis[s] = yes
                       THEN [m |-> m, tri |-> IF m.curr[ChoiceOf(k, s)].val = s THEN yes ELSE no]
                       ELSE LogicalValue(m, s), s), s)

CopyText(m, s, from) == [m EXCEPT !.curr[s].val = m.curr[from].val]

TextByDefault(f, s) ==
    IF f.prop = 0 \/ k.prop[f.prop].expr.op # "sym" THEN f.m
    ELSE CopyText(Calc([f.m EXCEPT !.write = @ \cup {s}], k.prop[f.prop].expr.s), s, k.prop[f.prop].expr.s)
CalcText(m, s) == IF m.vis[s] # no /\ HasValue(m, s) THEN [m EXCEPT !.curr[s].val = m.def[s].val]
                  ELSE TextByDefault(DefaultProp(m, s), s)

(* set_all_choice_values: the values of a choice that are not set are n. *)
SetAllChoiceValues(m, c) ==
    [m EXCEPT !.def = [s \in Symbols |-> IF s \in Range(ValuesOf(k, c)) \ m.user
                                         THEN [@[s] EXCEPT !.tri = no] ELSE @[s]],
              !.user = @ \cup {c}, !.valid = @ \ {c}, !.need = @ \ {c}]

(* sym_calc_value. *)
Begun(m, s) == [m EXCEPT !.write = AddTo(@, s, m.vis[s] # no),
                         !.curr[s] = [tri |-> no, val |-> IF k.ty[s] \in Logical THEN "n" ELSE ""]]
CalcValue(m, s) == ValidateRange(IF k.ty[s] \in Logical THEN CalcLogical(m, s) ELSE CalcText(m, s), s)
Settle(m, s) ==
    [m EXCEPT !.modules = IF s = ModulesSym THEN m.curr[s].tri ELSE @,
              !.write = (IF IsChoice(s) /\ s \in @ THEN @ \cup Range(ShownValues(m, s)) ELSE @)
                        \ ({s} \cap k.auto)]
SetValues(m, s) == IF s \in m.need THEN SetAllChoiceValues(m, s) ELSE m
CalcKnown(m, s) == SetValues(Settle(CalcValue(Begun(CalcVisibility(m, s), s), s), s), s)
CalcNow(m, s) ==
    IF k.ty[s] = "unknown" THEN [m EXCEPT !.valid = @ \cup {s}, !.curr[s] = [tri |-> no, val |-> s]]
    ELSE CalcKnown([m EXCEPT !.valid = @ \cup {s}, !.write = @ \ {s}], s)

Calc(m, s) ==
    IF s \notin Symbols \/ s \in m.valid THEN m
    ELSE CalcNow(IF IsChoiceValue(s) /\ s \in m.need
                 THEN Calc([m EXCEPT !.need = @ \ {s}], ChoiceOf(k, s)) ELSE m, s)

ClearAllValid(m) == Calc([m EXCEPT !.valid = {}, !.changes = TRUE, !.dropped = {}], ModulesSym)

(***************************************************************************)
(* Setting                                                                  *)
(***************************************************************************)

(* sym_tristate_within_range and sym_string_within_range. *)
TriWithin(m, s, v) ==
    /\ m.vis[s] # no
    /\ GetType(m, s) \in Logical
    /\ ~(GetType(m, s) = "bool" /\ v = mod)
    /\ m.vis[s] > m.rev[s]
    /\ ~(m.imp[s] = yes /\ v = mod)
    /\ IF IsChoiceValue(s) /\ m.vis[s] = yes THEN v = yes ELSE m.rev[s] <= v /\ v <= m.vis[s]

StringValid(t, x) == CASE t = "string" -> TRUE
                       [] t \in {"int", "hex"} -> x \in Valid[t]
                       [] t \in Logical -> x \in YMN
                       [] OTHER -> FALSE
WithinAt(r, n) == [m |-> r.m, ok |-> r.n = n]
TextWithin(m, s, x) ==
    IF k.ty[s] = "string" \/ ~StringValid(k.ty[s], x) THEN [m |-> m, ok |-> k.ty[s] = "string"]
    ELSE WithinAt(Nearest(m, s, x, Base(k.ty[s])), Number[Base(k.ty[s])][x])

(* A mutant: what was calculated stays valid. *)
SetTri_KeepsValid(m, s, v) ==
    [m |-> [m EXCEPT !.user = @ \cup {s}, !.def[s].tri = v, !.curr[s].tri = v],
     ok |-> m.curr[s].tri = v \/ TriWithin(m, s, v)]

(* sym_set_tristate_value and sym_set_string_value: the memory after, and   *)
(* whether the value was taken.                                             *)
GiveTri(m, s, v) ==
    [m EXCEPT !.def[s].tri = v,
              !.user = @ \cup {s} \cup
                  IF IsChoiceValue(s) /\ v = yes
                  THEN {ChoiceOf(k, s)} \cup Range(ShownValues(m, ChoiceOf(k, s))) ELSE {}]
ChooseValue(m, s, v) == IF IsChoiceValue(s) /\ v = yes THEN [m EXCEPT !.def[ChoiceOf(k, s)].val = s] ELSE m
SetTri(m, s, v) ==
    CASE m.curr[s].tri = v -> [m |-> ChooseValue(GiveTri(m, s, v), s, v), ok |-> TRUE]
      [] m.curr[s].tri # v /\ ~TriWithin(m, s, v) -> [m |-> m, ok |-> FALSE]
      [] OTHER -> [m |-> ClearAllValid(ChooseValue(GiveTri(m, s, v), s, v)), ok |-> TRUE]

GiveText(m, s, x, y) == IF m.def[s].val = x /\ y = x THEN m ELSE ClearAllValid([m EXCEPT !.def[s].val = y])
TakeText(w, s, x) ==
    IF ~w.ok THEN w
    ELSE [w EXCEPT !.m = GiveText([@ EXCEPT !.user = @ \cup {s}], s, x,
                                  IF k.ty[s] = "hex" THEN Prefixed[x] ELSE x)]
SetText(m, s, x) == TakeText(TextWithin(m, s, x), s, x)

SetString(m, s, x) ==
    IF k.ty[s] \notin Logical THEN SetText(m, s, x)
    ELSE IF x \in YMN THEN SetTri(m, s, TriOfText(x)) ELSE [m |-> m, ok |-> FALSE]

(* sym_toggle_tristate_value: the next value of n, m, y that is taken. *)
RECURSIVE ToggleFrom(_, _, _)
TakenOr(out, m, s, v) == IF out.ok THEN out.m ELSE ToggleFrom(m, s, v)
ToggleFrom(m, s, v) == TakenOr(SetTri(m, s, (v + 1) % 3), m, s, (v + 1) % 3)
Toggle(m, s) == ToggleFrom(m, s, m.curr[s].tri)

(***************************************************************************)
(* Asking                                                                   *)
(***************************************************************************)

TextOfTri(v) == CASE v = yes -> "y" [] v = mod -> "m" [] OTHER -> "n"

(* sym_get_string_default: the value the symbol would have if unset. *)
NoModule(m, s, tri) ==
    IF tri = mod /\ (k.ty[s] = "bool" \/ (~IsChoiceValue(s) /\ m.curr[ModulesSym].tri = no)) THEN yes ELSE tri
LogicalDefault(d, s) ==
    [m |-> d.m, text |-> TextOfTri(TriMax(NoModule(d.m, s, TriMax(d.tri, d.m.rev[s])), d.m.imp[s]))]
TextOf(m, s) == [m |-> m, text |-> m.curr[s].val]
DefaultBy(f, s) ==
    CASE k.ty[s] \in Logical -> LogicalDefault(ByDefault(f), s)
      [] k.ty[s] \notin Logical /\ (f.prop = 0 \/ k.prop[f.prop].expr.op # "sym") -> [m |-> f.m, text |-> ""]
      [] OTHER -> TextOf(Calc(f.m, k.prop[f.prop].expr.s), k.prop[f.prop].expr.s)
DefaultText(m, s) == DefaultBy(DefaultProp(Calc(CalcVisibility(m, s), ModulesSym), s), s)

(* menu_is_visible: an entry is shown when its prompt is visible, or when   *)
(* its symbol is on and something below it is shown.                        *)
RECURSIVE MenuVisible(_, _), AnyVisible(_, _)
VisibleOrNext(r, ns) == IF r.ok THEN r ELSE AnyVisible(r.m, ns)
AnyVisible(m, ns) == IF ns = <<>> THEN [m |-> m, ok |-> FALSE]
                     ELSE VisibleOrNext(MenuVisible(m, Head(ns)), Tail(ns))
Opened(r, s) == IF r.ok THEN [r EXCEPT !.m.user = @ \cup {s}] ELSE r
VisibleOrBelow(m, n, s, p) ==
    CASE m.pvis[p] # no -> [m |-> m, ok |-> TRUE]
      [] m.pvis[p] = no /\ s # "" /\ m.curr[s].tri # no -> Opened(AnyVisible(m, Children(k, n)), s)
      [] OTHER -> [m |-> m, ok |-> FALSE]
VisibleIn(v, n, s, p) ==
    IF v.tri = no THEN [m |-> v.m, ok |-> FALSE]
    ELSE VisibleOrBelow(IF s # "" THEN Calc(v.m, s) ELSE Noted(Eval(v.m, k.prop[p].visible), p), n, s, p)
MenuVisible(m, n) ==
    IF k.node[n].prompt = 0 THEN [m |-> m, ok |-> FALSE]
    ELSE VisibleIn(Given(m, k.node[n].visibility, yes), n, k.node[n].sym, k.node[n].prompt)

(* What a front end asks of all the entries below one. *)
ShowBelow(m, n) == FoldLeft(LAMBDA mm, c : MenuVisible(mm, c).m, m, Children(k, n))
================================================================================
