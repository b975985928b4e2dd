------------------------------ MODULE KconfigTree ------------------------------
(***************************************************************************)
(* Reading a Kconfig file: the parser (support/kconfig/zconf.y) calls       *)
(* menu.c for each statement, and conf_parse then finalizes the tree and    *)
(* looks for recursive dependencies.  The statements come in any order the  *)
(* grammar allows, so the tree is any tree of the given symbols; a symbol   *)
(* may be defined twice, and in any block.                                  *)
(***************************************************************************)
EXTENDS KconfigMenu, TLC

CONSTANTS Type,        \* Type[s]: the type a symbol's definition gives it, or "unknown"
          Deps,        \* the expressions of depends, if and visible if
          Defaults,    \* the expressions of default
          Demands,     \* the selects and implies
          Order,       \* the order of the symbol hash table
          MaxEntries,  \* bound: menu entries, the root included
          MaxBlocks    \* bound: if, menu and choice blocks

VARIABLES k,       \* what the parser has built
          raw,     \* the same before menu_finalize
          search,  \* the outcome of sym_check_deps
          phase    \* "parse" or "done"; "none" when no file is read
tree == <<k, raw, search, phase>>

ChoiceSyms == {s \in Symbols : Type[s] = "choice"}
Configs == Symbols \ ChoiceSyms

NoSearch == [check |-> {}, checked |-> {}, hit |-> NoHit, reported |-> {}, errors |-> 0]

NoTree == k = MenuInit /\ raw = MenuInit /\ search = NoSearch /\ phase = "none"
TreeInit == k = MenuInit /\ raw = MenuInit /\ search = NoSearch /\ phase = "parse"

Blocks == {n \in DOMAIN k.node : k.node[n].sym \in {""} \cup ChoiceSyms} \ {1}
Room == phase = "parse" /\ Len(k.node) < MaxEntries
BlockRoom == Room /\ Cardinality(Blocks) < MaxBlocks
InChoice == k.node[k.menu].sym \in ChoiceSyms
Defined(s) == Cardinality({n \in DOMAIN k.node : k.node[n].sym = s})
InOrder(s) == \A i, j \in DOMAIN Order : Order[j] = s /\ i < j => Defined(Order[i]) > 0 \/ Order[i] \in ChoiceSyms

Parse(kk) == k' = kk /\ UNCHANGED <<raw, search, phase>>

Typed(kk, s) == IF Type[s] = "unknown" THEN kk ELSE SetType(kk, kk.entry, Type[s])
Start(s) == Typed(AddEntry([k EXCEPT !.optional = @ \cup {s}], s), s)

(* A config statement: its type, a prompt or none, a default, a select of   *)
(* another symbol, and what it depends on.                                  *)
Config(s, prompt, opt, dep) ==
    /\ Room
    /\ InOrder(s)
    /\ LET k1 == IF prompt THEN AddPrompt(Start(s), "prompt", Nil) ELSE Start(s)
           k2 == CASE opt.kind = "default" -> AddExpr(k1, "default", opt.e, Nil)
                   [] opt.kind = "select" -> AddSymbol(k1, "select", opt.s, opt.e)
                   [] opt.kind = "imply" -> AddSymbol(k1, "imply", opt.s, opt.e)
                   [] opt.kind = "none" -> k1
       IN  Parse(IF dep = Nil THEN k2 ELSE AddDep(k2, dep))

(* "if", "menu" and "choice" open a block, "comment" is an entry. *)
If(e) == BlockRoom /\ Parse(AddMenu(AddDep(AddEntry(k, ""), e)))

Menu(vis, dep) ==
    /\ BlockRoom /\ ~InChoice
    /\ LET k1 == AddPrompt(AddEntry(k, ""), "menu", Nil)
           k2 == IF vis = Nil THEN k1 ELSE AddVisibility(k1, vis)
       IN  Parse(AddMenu(IF dep = Nil THEN k2 ELSE AddDep(k2, dep)))

Choice(c, optional, dep) ==
    /\ BlockRoom /\ ~InChoice
    /\ Defined(c) = 0
    /\ LET k0 == [k EXCEPT !.choice = @ \cup {c}, !.auto = @ \cup {c},
                           !.optional = IF optional THEN @ \cup {c} ELSE @]
           k1 == AddExpr(AddEntry(k0, c), "choice", [op |-> "list", syms |-> <<>>], Nil)
           k2 == AddPrompt(k1, "prompt", Nil)
       IN  Parse(AddMenu(IF dep = Nil THEN k2 ELSE AddDep(k2, dep)))

Comment(dep) == Room /\ Parse(AddDep(AddPrompt(AddEntry(k, ""), "comment", Nil), dep))

End == /\ phase = "parse"
       /\ k.menu # 1
       /\ Parse(EndMenu(k))

(* conf_parse after the last statement. *)
ConfParse ==
    /\ phase = "parse"
    /\ k.menu = 1
    /\ Len(k.node) > 1
    /\ raw' = k
    /\ k' = Finalize(k, 1)
    /\ search' = CheckAllSymbols(k', Order)
    /\ phase' = "done"

Plain == [kind |-> "none"]
DefaultTo(e) == [kind |-> "default", e |-> e]
Demand(kind, s, e) == [kind |-> kind, s |-> s, e |-> e]

TreeNext ==
    \/ \E s \in Configs, prompt \in BOOLEAN, dep \in Deps :
           Defined(s) = 0 /\ Config(s, prompt, Plain, dep)
    \/ \E s \in Configs, e \in Defaults : Defined(s) = 0 /\ Config(s, FALSE, DefaultTo(e), Nil)
    \/ \E s \in Configs, d \in Demands :
           s # d.s /\ Defined(s) = 0 /\ Config(s, TRUE, d, Nil)
    \/ \E s \in Configs : Defined(s) = 1 /\ Config(s, TRUE, Plain, Nil)
    \/ \E e \in Deps \ {Nil} : If(e)
    \/ \E vis, dep \in Deps : Nil \in {vis, dep} /\ Menu(vis, dep)
    \/ \E c \in ChoiceSyms, optional \in BOOLEAN, dep \in Deps :
           (optional => dep = Nil) /\ Choice(c, optional, dep)
    \/ Comment(CHOOSE e \in Deps : e # Nil)
    \/ End
    \/ ConfParse

(***************************************************************************)
(* What the tree must say                                                   *)
(***************************************************************************)

Done == phase = "done"

(* Every way to give the symbols values of their types; no symbol is m while *)
(* modules are off (sym_get_type).                                          *)
TriOf(f, s) == IF s \in Symbols THEN f[s] ELSE ConstValue(s).tri
Fits(f, s, ty) == /\ ty[s] = "unknown" => f[s] = no
                  /\ f[s] = mod => ty[s] = "tristate" /\ TriOf(f, ModulesSym) # no
ValuesFor == [ty \in [Symbols -> {"unknown", "bool", "tristate"}] |->
    {[s \in AllSymbols |-> [tri |-> TriOf(f, s), val |-> s]] :
         f \in {g \in [Symbols -> {no, mod, yes}] : \A s \in Symbols : Fits(g, s, ty)}}]
Assignments == ValuesFor[[s \in Symbols |-> k.ty[s]]]
Calc(v, e) == Value(k.ty, v, v[ModulesSym].tri, e)

RECURSIVE Preorder(_)
Preorder(n) == <<n>> \o FoldLeft(LAMBDA acc, c : acc \o Preorder(c), <<>>, Children(k, n))

(* menu_finalize moves entries into submenus and out of if blocks, but      *)
(* every entry of the file is still in the tree, once, in the file's order, *)
(* and below the entry it names as its parent.                              *)
TreeKept == Done => /\ Preorder(1) = [i \in 1..Len(raw.node) |-> i]
                    /\ \A n \in DOMAIN k.node : \A i \in DOMAIN Children(k, n) :
                           k.node[Children(k, n)[i]].parent = n

(* What the file says of entry n: its own dependencies, and all that        *)
(* enclose it up to a choice, whose value stands for what encloses that.    *)
RECURSIVE Meaning(_, _)
Enclosing(v, n) ==
    LET p == raw.node[n].parent
        own == IF raw.node[p].prompt = 0 THEN yes ELSE Calc(v, raw.prop[raw.node[p].prompt].visible)
    IN  IF raw.node[p].sym \in ChoiceSyms THEN v[raw.node[p].sym].tri
        ELSE IF p = 1 THEN yes ELSE TriMin(own, Meaning(v, p))
Meaning(v, n) == TriMin(Enclosing(v, n), Calc(v, RewriteM(raw.node[n].dep)))

(* A value of a tristate choice that is no tristate needs the choice at y.  *)
OnlyAtY(n) == LET c == k.node[k.node[n].parent].sym
              IN  /\ c \in ChoiceSyms /\ k.ty[c] = "tristate"
                  /\ k.node[n].sym # "" /\ k.ty[k.node[n].sym] # "tristate"
                  /\ \E i \in DOMAIN k.prop : k.prop[i].type = "choice" /\ k.prop[i].menu = n
PropMeaning(v, i) ==
    LET n == raw.prop[i].menu
        said == TriMin(Meaning(v, n), Calc(v, RewriteM(raw.prop[i].visible)))
    IN  IF OnlyAtY(n) /\ v[k.node[k.node[n].parent].sym].tri # yes THEN no ELSE said

VisibleAsSaid(v) ==
    \A i \in DOMAIN raw.prop \ {1} :
        LET said == PropMeaning(v, i)
            got == Calc(v, k.prop[i].visible)
            s == raw.prop[i].sym
        IN  IF s # "" /\ raw.ty[s] # "tristate"
            THEN (got # no) = (said # no) ELSE got = said
ForcedAsSaid(v) ==
    \A t \in Configs :
        (k.rev[t] # Nil /\ Calc(v, k.rev[t]) # no)
        = (\E i \in DOMAIN raw.prop : /\ raw.prop[i].type = "select" /\ raw.prop[i].expr.s = t
                                      /\ v[raw.prop[i].sym].tri # no /\ PropMeaning(v, i) # no)

(* Simplifying dependencies and handing them down never changes what they   *)
(* say: under every value of the symbols, a prompt, default or select is    *)
(* visible exactly when the file's own text says so, and at the same level  *)
(* for menus and for the symbols the file declares tristate; and a symbol   *)
(* is forced on by exactly the selects whose symbol is on and whose         *)
(* condition holds.                                                         *)
MeaningKept == Done => \A v \in Assignments : VisibleAsSaid(v) /\ ForcedAsSaid(v)

(* What is shown below a symbol is reachable from it: when an entry of its  *)
(* submenu is visible, the symbol is visible or on (the front ends skip the *)
(* submenu of an entry that is neither), as long as no symbol is on against *)
(* its own dependencies.                                                    *)
Met(v) == \A s \in Configs : v[s].tri # no => Calc(v, k.dir[s]) # no
SubmenuReachable ==
    Done => \A v \in {u \in Assignments : Met(u)} : \A n \in DOMAIN k.node \ {1} :
        LET p == k.node[n].parent
            s == k.node[p].sym
        IN  (s \in Configs /\ k.node[n].prompt # 0 /\ Calc(v, EntryDep(k, n)) # no)
                => (v[s].tri # no \/ Calc(v, EntryDep(k, p)) # no)

(***************************************************************************)
(* Printing and recursion                                                   *)
(***************************************************************************)

(* What a reader of the Kconfig grammar makes of printed tokens. *)
Level(ts, i) == Cardinality({j \in 1..i : ts[j] = "("}) - Cardinality({j \in 1..i : ts[j] = ")"})
Splits(ts, t) == {i \in DOMAIN ts : ts[i] = t /\ Level(ts, i) = 0}
RECURSIVE ReadTokens(_, _)
ReadTokens(v, ts) ==
    LET Before(i) == ReadTokens(v, SubSeq(ts, 1, i - 1))
        After(i) == ReadTokens(v, SubSeq(ts, i + 1, Len(ts)))
        First(S) == CHOOSE i \in S : \A j \in S : i <= j
    IN  IF Splits(ts, "or") # {}
        THEN LET i == First(Splits(ts, "or")) IN TriMax(Before(i), After(i))
        ELSE IF Splits(ts, "and") # {}
        THEN LET i == First(Splits(ts, "and")) IN TriMin(Before(i), After(i))
        ELSE IF ts[1] = "!" THEN yes - After(1)
        ELSE IF ts[1] = "(" THEN ReadTokens(v, SubSeq(ts, 2, Len(ts) - 1))
        ELSE IF Len(ts) = 1 THEN v[ts[1]].tri ELSE Calc(v, Cmp(ts[2], ts[1], ts[3]))

(* The help text prints a dependency so that it reads as it evaluates: the  *)
(* parentheses expr_print leaves out are never needed.                      *)
PrintedMeaning ==
    Done => \A e \in {k.prop[i].visible : i \in DOMAIN k.prop} : \A ts \in {Tokens(e, "none")} :
        \A v \in Assignments : ReadTokens(v, ts) = Calc(v, e)

(* The recursive dependencies of a tree.  A choice and its values count as  *)
(* one; that its values depend on it is not a recursion.                    *)
Group(s) == IF s \in k.choiceval THEN ChoiceOf(k, s) ELSE s
Uses(s) == Range(SymsOf(k.rev[s]))
           \cup UNION {Range(SymsOf(k.prop[i].visible)) :
                          i \in {j \in DOMAIN k.prop : k.prop[j].sym = s
                                                       /\ k.prop[j].type \notin {"choice", "select"}}}
           \cup UNION {Range(SymsOf(k.prop[i].expr)) :
                          i \in {j \in DOMAIN k.prop : k.prop[j].sym = s /\ s \notin ChoiceSyms
                                                       /\ k.prop[j].type = "default"}}
Edges == {<<Group(e[1]), Group(e[2])>> :
             e \in {d \in Symbols \X Symbols : d[2] \in Uses(d[1])
                                               /\ ~(d[1] \in k.choiceval /\ d[2] = Group(d[1]))}}
RECURSIVE Reach(_)
Reach(S) == LET T == S \cup {e[2] : e \in {d \in Edges : d[1] \in S}}
            IN  IF T = S THEN S ELSE Reach(T)
Recursive == \E e \in Edges : e[1] \in Reach({e[2]})

(* sym_check_deps reports a recursive dependency exactly when there is one, *)
(* wherever in the symbol table its search starts.                          *)
RecursionReported == Done => ((search.reported # {}) = Recursive)
================================================================================
