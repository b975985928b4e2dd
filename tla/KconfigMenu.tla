------------------------------ MODULE KconfigMenu ------------------------------
(***************************************************************************)
(* The menu tree of Kconfig (support/kconfig/menu.c): what the parser calls *)
(* for each statement of a Kconfig file, and menu_finalize, which hands     *)
(* dependencies down the tree, creates the submenus of symbols, flattens    *)
(* the if blocks and enters the values of the choices.                      *)
(*                                                                          *)
(* k is everything the parser has built.  A menu entry is a position in     *)
(* k.node, 1 is rootmenu and 0 the null pointer; next and list are the C    *)
(* pointers.  A property is a position in k.prop; the property list of a    *)
(* symbol is the ones with that symbol, in order.                           *)
(***************************************************************************)
EXTENDS KconfigExpr, FiniteSets

Entry(sym, parent) == [sym |-> sym, parent |-> parent, next |-> 0, list |-> 0,
                       dep |-> Nil, visibility |-> Nil, prompt |-> 0]

(* _menu_init, and the title the parser gives rootmenu. *)
MenuInit ==
    [node |-> <<[Entry("", 0) EXCEPT !.prompt = 1]>>,
     prop |-> <<[type |-> "menu", sym |-> "", menu |-> 1, text |-> TRUE,
                 expr |-> Nil, visible |-> Nil]>>,
     entry |-> 1, menu |-> 1, last |-> <<"list", 1>>,
     ty |-> [s \in AllSymbols |-> "unknown"],
     choice |-> {}, choiceval |-> {}, optional |-> {}, auto |-> {}, allno |-> {},
     rev |-> [s \in Symbols |-> Nil], implied |-> [s \in Symbols |-> Nil],
     dir |-> [s \in Symbols |-> Nil]]

RECURSIVE Chain(_, _), Above(_, _)
(* The entries from n on along next; the entries above n. *)
Chain(k, n) == IF n = 0 THEN <<>> ELSE <<n>> \o Chain(k, k.node[n].next)
Above(k, n) == IF k.node[n].parent = 0 THEN <<>>
               ELSE <<k.node[n].parent>> \o Above(k, k.node[n].parent)
Children(k, n) == Chain(k, k.node[n].list)

(***************************************************************************)
(* What the parser calls                                                    *)
(***************************************************************************)

AddProp(k, type, text, expr, dep) ==
    LET e == k.entry
        Guarded(d, n) == AllocAnd(d, k.node[n].visibility)
        vis == IF text /\ type = "prompt" THEN FoldLeft(Guarded, dep, Above(k, e)) ELSE dep
        p == [type |-> type, sym |-> k.node[e].sym, menu |-> e, text |-> text,
              expr |-> expr, visible |-> vis]
    IN  [k EXCEPT !.prop = Append(@, p),
                  !.node[e].prompt = IF text THEN Len(k.prop) + 1 ELSE @]

AddPrompt(k, type, dep) == AddProp(k, type, TRUE, Nil, dep)
AddExpr(k, type, expr, dep) == AddProp(k, type, FALSE, expr, dep)
AddSymbol(k, type, s, dep) == AddProp(k, type, FALSE, Sym(s), dep)

AddEntry(k, s) ==
    LET n == Len(k.node) + 1
        linked == [k EXCEPT !.node = Append([@ EXCEPT ![k.last[2]][k.last[1]] = n],
                                            Entry(s, k.menu)),
                            !.last = <<"next", n>>, !.entry = n]
    IN  IF s = "" THEN linked ELSE AddSymbol(linked, "symbol", s, Nil)

AddMenu(k) == [k EXCEPT !.last = <<"list", k.entry>>, !.menu = k.entry]
EndMenu(k) == [k EXCEPT !.last = <<"next", k.menu>>, !.menu = k.node[@].parent]
AddDep(k, e) == [k EXCEPT !.node[k.entry].dep = AllocAnd(@, e)]
AddVisibility(k, e) == [k EXCEPT !.node[k.entry].visibility = AllocAnd(@, e)]

(* menu_set_type: the first type stays. *)
SetType(k, n, t) == LET s == k.node[n].sym
                    IN  IF k.ty[s] = "unknown" THEN [k EXCEPT !.ty[s] = t] ELSE k

(* menu_add_option and prop_add_env: a symbol from the environment is never *)
(* written, and has its variable, if set, as a default.                     *)
Loose(k, type, e) == [type |-> type, sym |-> k.node[k.entry].sym, menu |-> 0, text |-> FALSE,
                      expr |-> e, visible |-> Nil]
AddEnv(k, x) ==
    LET s == k.node[k.entry].sym
        env == Loose(k, "env", Sym(s))
        set == IF x = "" THEN <<env>> ELSE <<env, Loose(k, "default", Sym(x))>>
    IN  IF PropsOfType(k, s, "env") # <<>> THEN [k EXCEPT !.auto = @ \cup {s}]
        ELSE [k EXCEPT !.auto = @ \cup {s}, !.prop = @ \o set]
AddOption(k, opt, x) ==
    CASE opt = "env" -> AddEnv(k, x)
      [] opt = "allnoconfig_y" -> [k EXCEPT !.allno = @ \cup {k.node[k.entry].sym}]
      [] OTHER -> k

(***************************************************************************)
(* menu_finalize                                                            *)
(***************************************************************************)

RECURSIVE RewriteM(_)
RewriteM(e) == CASE e.op = "not" -> Not(RewriteM(e.l))
                 [] e.op \in Bool -> Two(e.op, RewriteM(e.l), RewriteM(e.r))
                 [] e = Sym("m") -> Two("and", e, Sym(ModulesSym))
                 [] OTHER -> e

IsChoiceEntry(k, n) == k.node[n].sym \in k.choice

(* The types of a choice and of its values, from the first typed value. *)
Kids(k, p) == SelectSeq(Children(k, p), LAMBDA n : k.node[n].sym # "")
TypeFrom(k, p, typed) == IF typed = <<>> THEN k ELSE SetType(k, p, k.ty[k.node[typed[1]].sym])
TypeValues(k, p) == FoldLeft(LAMBDA kk, n : SetType(kk, n, kk.ty[kk.node[p].sym]), k, Kids(k, p))
TypeChoice(k, p) ==
    IF ~IsChoiceEntry(k, p) THEN k
    ELSE TypeValues(TypeFrom(k, p, SelectSeq(Kids(k, p), LAMBDA n : k.ty[k.node[n].sym] # "unknown")), p)

(* A mutant: a parent without a prompt hands nothing down. *)
ParentDep_Prompted(k, p) == IF IsChoiceEntry(k, p) THEN Sym(k.node[p].sym)
                            ELSE IF k.node[p].prompt # 0 THEN k.prop[k.node[p].prompt].visible
                            ELSE Nil

ParentDep(k, p) == IF IsChoiceEntry(k, p) THEN Sym(k.node[p].sym)
                   ELSE IF k.node[p].prompt # 0 THEN k.prop[k.node[p].prompt].visible
                   ELSE k.node[p].dep

(* A select or imply, seen from the symbol it is about. *)
Request(k, i, dep) ==
    LET e == AllocAnd(Sym(k.prop[i].sym), dep)
        t == k.prop[i].expr.s
    IN  CASE k.prop[i].type = "select" -> [k EXCEPT !.rev[t] = AllocOr(@, e)]
          [] k.prop[i].type = "imply" -> [k EXCEPT !.implied[t] = AllocOr(@, e)]
          [] OTHER -> k

(* One entry below p: its dependencies and those of its properties. *)
Down(k, up, e) == EliminateDups(k.ty, AllocAnd(up, Transform(k.ty, RewriteM(e))))
Narrow(k, s, e) == IF s # "" /\ k.ty[s] # "tristate" THEN TransBool(k.ty, e) ELSE e
PropsAt(k, n) == IF k.node[n].sym = "" THEN {k.node[n].prompt} \ {0}
                 ELSE {i \in DOMAIN k.prop : k.prop[i].sym = k.node[n].sym /\ k.prop[i].menu = n}

SetDeps(k, n, base, deps) ==
    FoldLeft(LAMBDA kk, i : Request(kk, i, deps[i]),
             [k EXCEPT !.node[n].dep = base,
                       !.prop = [i \in DOMAIN @ |-> IF i \in DOMAIN deps THEN [@[i] EXCEPT !.visible = deps[i]]
                                                    ELSE @[i]]],
             SelectSeq([i \in DOMAIN k.prop |-> i], LAMBDA i : i \in DOMAIN deps))
HandDown(k, n, base) ==
    SetDeps(k, n, base, [i \in PropsAt(k, n) |-> Narrow(k, k.node[n].sym, Down(k, base, k.prop[i].visible))])
Propagate(k, p, n) == HandDown(k, n, Down(k, ParentDep(k, p), k.node[n].dep))

(* An entry of a choice becomes one of its values. *)
Guard(k, n, s, on) == [k EXCEPT !.node[n].dep = AllocAnd(on, @),
                                !.prop = [i \in DOMAIN @ |->
                                    IF @[i].sym = s /\ @[i].menu = n
                                    THEN [@[i] EXCEPT !.visible = AllocAnd(on, @)] ELSE @[i]]]
GuardValue(k, n, s, c) == IF k.ty[c] = "tristate" /\ k.ty[s] # "tristate"
                          THEN Guard(k, n, s, Cmp("eq", c, "y")) ELSE k
ListValue(k, s, c) == [k EXCEPT !.prop[ChoiceProp(k, c)].expr.syms = Append(@, s)]
AddValue(k, n, s, c) ==
    ListValue(AddSymbol([GuardValue(k, n, s, c) EXCEPT !.entry = n, !.choiceval = @ \cup {s}],
                        "choice", c, Nil), s, c)
EnterValue(k, p, n) == AddValue(k, n, k.node[n].sym, k.node[p].sym)

(* A mutant: what follows the block is not linked again. *)
Flatten_Unlinked(k, p, n) ==
    LET kids == Children(k, n)
    IN  [k EXCEPT !.node = [i \in DOMAIN @ |->
            CASE i = n -> [@[n] EXCEPT !.next = kids[1], !.list = 0]
              [] i \in Range(kids) -> [@[i] EXCEPT !.parent = p]
              [] OTHER -> @[i]]]

(* The entries of an if block, or below a symbol without a prompt, move up  *)
(* behind it.                                                               *)
Flatten(k, p, n) ==
    LET kids == Children(k, n)
        last == kids[Len(kids)]
    IN  [k EXCEPT !.node = [i \in DOMAIN @ |->
            CASE i = n -> [@[n] EXCEPT !.next = kids[1], !.list = 0]
              [] i \in Range(kids) ->
                     [@[i] EXCEPT !.parent = p, !.next = IF i = last THEN k.node[n].next ELSE @]
              [] OTHER -> @[i]]]

RECURSIVE Attach(_, _, _)
IsNewValue(k, p, n) == IsChoiceEntry(k, p) /\ k.node[n].sym \notin {""} \cup k.choiceval

Flattened(k, p, n) == IF k.node[n].list # 0 /\ k.node[n].prompt = 0 THEN Flatten(k, p, n) ELSE k
AttachNext(k, p, n) == Attach(k, p, k.node[n].next)
Attach(k, p, n) ==
    IF n = 0 THEN k
    ELSE AttachNext(Flattened(IF IsNewValue(k, p, n) THEN EnterValue(k, p, n) ELSE k, p, n), p, n)

(* Entry n may go into the submenu of symbol s: it depends on s, or on all  *)
(* that s depends on and on s as an alternative.                            *)
Simple(k, e) == EliminateDups(k.ty, Transform(k.ty, TransCompare(e, "ne", "n")))
EntryDep(k, n) == IF k.node[n].prompt # 0 THEN k.prop[k.node[n].prompt].visible
                  ELSE k.node[n].dep

(* A mutant: to mention s is enough. *)
GoesUnder_Mentions(k, p, base, n) == ContainsSymbol(EntryDep(k, n), k.node[p].sym)

GoesUnder(k, p, base, n) ==
    LET s == k.node[p].sym
        dep == EntryDep(k, n)
    IN  /\ ContainsSymbol(dep, s)
        /\ DependsSymbol(dep, s) \/ IsYes(EliminateEq(Simple(k, dep), base)[2])

RECURSIVE Finalize(_, _), FinalizeFrom(_, _), Gather(_, _, _, _, _)

(* The entries after p that go into its submenu, finalized; and the last.   *)
GatherNext(k, p, base, n) == Gather(k, p, base, k.node[n].next, n)
Gather(k, p, base, n, last) ==
    IF n = 0 \/ ~GoesUnder(k, p, base, n) THEN [k |-> k, last |-> last]
    ELSE GatherNext([Finalize(k, n) EXCEPT !.node[n].parent = p], p, base, n)

PromptDep(k, p) == IF k.node[p].prompt # 0 THEN k.prop[k.node[p].prompt].visible ELSE Nil
Relink(p, g) == IF g.last = 0 THEN g.k
                ELSE [g.k EXCEPT !.node[p].list = g.k.node[p].next,
                                 !.node[p].next = g.k.node[g.last].next,
                                 !.node[g.last].next = 0]
Allow(k, p) == [k EXCEPT !.dir[k.node[p].sym] = AllocOr(@, k.node[p].dep)]
Submenu(k, p) == Allow(Relink(p, Gather(k, p, Simple(k, PromptDep(k, p)), k.node[p].next, 0)), p)

FinalizeNext(k, n) == FinalizeFrom(k, k.node[n].next)
FinalizeFrom(k, n) == IF n = 0 THEN k ELSE FinalizeNext(Finalize(k, n), n)

Expand(k, p) ==
    CASE k.node[p].list # 0 -> FinalizeFrom(FoldLeft(LAMBDA kk, n : Propagate(kk, p, n),
                                                     TypeChoice(k, p), Children(k, p)), k.node[p].list)
      [] k.node[p].list = 0 /\ k.node[p].sym # "" -> Submenu(k, p)
      [] OTHER -> k
AttachAll(k, p) == Attach(k, p, k.node[p].list)
Require(k, p, s) ==
    IF s = "" \/ s \in k.optional \/ k.node[p].prompt = 0 THEN k
    ELSE [k EXCEPT !.rev[s] = AllocOr(@, AllocAnd(k.prop[k.node[p].prompt].visible, Sym("m")))]
Finalize(k, p) == Require(AttachAll(Expand(k, p), p), p, k.node[p].sym)

(***************************************************************************)
(* sym_check_deps: the search for recursive dependencies.  f.check are the  *)
(* symbols on the way, f.checked the ones seen, f.hit what was found.       *)
(***************************************************************************)

NoHit == ""

RECURSIVE CheckDeps(_, _, _), CheckAll(_, _, _)

(* The symbols of a sequence one after the other, until one is found. *)
CheckAll(k, f, syms) ==
    IF syms = <<>> \/ f.hit # NoHit THEN f
    ELSE CheckAll(k, CheckDeps(k, f, Head(syms)), Tail(syms))

(* A mutant: the selects of a symbol are not followed. *)
DepsOf_NoSelects(k, s) ==
    LET Of(i) == SymsOf(k.prop[i].visible)
                 \o (IF k.prop[i].type = "default" THEN SymsOf(k.prop[i].expr) ELSE <<>>)
        asked == SelectSeq(PropsOf(k, s), LAMBDA i : k.prop[i].type \notin {"choice", "select"})
    IN  FoldLeft(LAMBDA acc, i : acc \o Of(i), <<>>, asked)

(* The symbols sym_check_sym_deps asks for, in order. *)
DepsOf(k, s) ==
    LET Of(i) == SymsOf(k.prop[i].visible)
                 \o (IF k.prop[i].type = "default" /\ s \notin k.choice
                     THEN SymsOf(k.prop[i].expr) ELSE <<>>)
        asked == SelectSeq(PropsOf(k, s), LAMBDA i : k.prop[i].type \notin {"choice", "select"})
    IN  (IF s \in Symbols THEN SymsOf(k.rev[s]) ELSE <<>>)
        \o FoldLeft(LAMBDA acc, i : acc \o Of(i), <<>>, asked)

CheckSymDeps(k, f, s) == CheckAll(k, f, DepsOf(k, s))

Mark(f, S) == [f EXCEPT !.check = @ \cup S, !.checked = @ \cup S]
Unmark(f, S) == [f EXCEPT !.check = @ \ S]
IfNoHit(k, f, s) == IF f.hit # NoHit THEN f ELSE CheckSymDeps(k, f, s)
HitChoice(k, f, c) == IF f.hit \in k.choiceval /\ ChoiceOf(k, f.hit) = c THEN [f EXCEPT !.hit = c] ELSE f
CheckValues(k, f, c, values) ==
    FoldLeft(LAMBDA ff, s : IfNoHit(k, IF s = c THEN ff ELSE Unmark(ff, {c}), s),
             Mark(f, {c} \cup Range(values)), <<c>> \o values)
CheckChoiceDeps(k, f, c) ==
    HitChoice(k, Unmark(CheckValues(k, f, c, ValuesOf(k, c)), {c} \cup Range(ValuesOf(k, c))), c)

CheckBelow(k, f, s) ==
    CASE s \in k.choiceval -> CheckDeps(k, f, ChoiceOf(k, s))
      [] s \in k.choice -> CheckChoiceDeps(k, f, s)
      [] OTHER -> Unmark(CheckSymDeps(k, Mark(f, {s}), s), {s})
Closes(f, s) == IF f.hit = s THEN [f EXCEPT !.hit = NoHit] ELSE f
CheckDeps(k, f, s) ==
    CASE s \in f.check -> [f EXCEPT !.hit = s, !.reported = @ \cup {s}]
      [] s \in f.checked \ f.check -> f
      [] OTHER -> Closes(CheckBelow(k, f, s), s)

(* conf_parse: every symbol in turn; the errors are counted by the hits     *)
(* that reach the top.                                                      *)
CheckAllSymbols(k, order) ==
    FoldLeft(LAMBDA f, s : LET g == CheckDeps(k, f, s)
                           IN  [g EXCEPT !.hit = NoHit, !.errors = IF g.hit = NoHit THEN @ ELSE @ + 1],
             [check |-> {}, checked |-> {}, hit |-> NoHit, reported |-> {}, errors |-> 0], order)
================================================================================
