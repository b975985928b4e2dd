------------------------------ MODULE KconfigConf ------------------------------
(***************************************************************************)
(* What the configuration files do to a memory, and what a memory writes    *)
(* (support/kconfig/confdata.c): reading .config, the lines of .config and  *)
(* of the shorter file of savedefconfig, and giving every new symbol a value. *)
(***************************************************************************)
EXTENDS KconfigSymbol

Table == SelectSeq(Order, LAMBDA s : PropsOf(k, s) # <<>>)

(***************************************************************************)
(* Reading                                                                  *)
(***************************************************************************)

(* conf_read_simple for .config. *)
Loaded(m, r) == [m |-> [m EXCEPT !.valid = {}, !.dropped = {}, !.user = r.has, !.def = r.val,
                         !.changes = @ \/ r.changes],
                 warned |-> r.warned]
ReadSimple(m, lines) == Loaded(m, ReadLines("user", m.def, lines))

(* conf_read: the values are calculated, and compared with the saved ones.  *)
Agrees(m, s) ==
    IF HasValue(m, s) /\ s \in m.write
    THEN IF k.ty[s] \in Logical THEN m.def[s].tri = m.curr[s].tri ELSE m.def[s].val = m.curr[s].val
    ELSE ~HasValue(m, s) /\ s \notin m.write

Unseen(acc, s) == [acc.m EXCEPT !.user = IF acc.m.vis[s] = no /\ ~acc.unsaved THEN @ \ {s} ELSE @]
Drop(m, s) == [m EXCEPT !.valid = @ \ {s}, !.user = @ \ {s}, !.dropped = @ \cup {s}]
Revised(w, s, unsaved) == [m |-> IF w.ok THEN w.m ELSE Drop(w.m, s), unsaved |-> unsaved \/ ~w.ok]
Revise(acc, s) ==
    CASE ~HasValue(acc.m, s) \/ IsChoiceValue(s) -> acc
      [] OTHER -> IF k.ty[s] \in {"string", "int", "hex"}
                  THEN Revised(TextWithin(Unseen(acc, s), s, acc.m.def[s].val), s, acc.unsaved)
                  ELSE [acc EXCEPT !.m = Unseen(acc, s)]

Disagree(m, s, unsaved) == [m |-> m, unsaved |-> unsaved \/ ~(s \in k.choice \cup k.auto \/ Agrees(m, s))]
Visit(acc, s) == Disagree(Calc(acc.m, s), s, acc.unsaved)
Noticed(r, acc) == [acc.m EXCEPT !.changes = @ \/ r.warned \/ acc.unsaved]
ReadBack(r) ==
    Noticed(r, FoldLeft(Revise, FoldLeft(Visit, [m |-> Calc(r.m, ModulesSym), unsaved |-> FALSE], Table), Table))
Read(m, lines) == IF lines = Absent THEN Calc([m EXCEPT !.changes = TRUE], ModulesSym)
                  ELSE ReadBack(ReadSimple([m EXCEPT !.changes = FALSE], lines))

(***************************************************************************)
(* Writing                                                                  *)
(***************************************************************************)

(* A mutant: a symbol that is n has no line. *)
LinesOf_OnlySet(s, x) == IF k.ty[s] = "unknown" \/ x = "n" THEN <<>> ELSE <<ValueLine(s, x)>>

(* conf_write_symbol, with the printer of .config. *)
LinesOf(s, x) == CASE k.ty[s] = "unknown" -> <<>>
                   [] k.ty[s] \in Logical /\ x = "n" -> <<NotSet(s)>>
                   [] OTHER -> <<ValueLine(s, x)>>
Lines(m, s) == LinesOf(s, Text(m, s))

RECURSIVE Preorder(_)
Preorder(n) == <<n>> \o FoldLeft(LAMBDA acc, c : acc \o Preorder(c), <<>>, Children(k, n))
Entries == Tail(Preorder(1))

(* conf_write: the lines of .config, in the order of the menus. *)
Written(m, s) == [m EXCEPT !.write = @ \ {s}]
WriteSymbol(m, out, s) == IF s \in m.write THEN [m |-> Written(m, s), out |-> out \o Lines(m, s)]
                          ELSE [m |-> m, out |-> out]
WriteEntry(acc, n, s) ==
    CASE s = "" -> [acc EXCEPT !.m = MenuVisible(@, n).m]
      [] s \in k.choice -> acc
      [] OTHER -> WriteSymbol(Calc(acc.m, s), acc.out, s)
Write(m) == FoldLeft(LAMBDA acc, n : WriteEntry(acc, n, k.node[n].sym),
                     [m |-> IF m.changes THEN m ELSE ClearAllValid(m), out |-> <<>>], Entries)

(* The value a choice that is not optional has by itself. *)
ByItself(d, c, s) == [m |-> d.m, ok |-> /\ c \notin k.optional /\ d.sym = s
                                        /\ k.ty[s] = "bool" /\ d.m.curr[s].tri = yes]
ChoosesDefault(m, c, s) == ByItself(ChoiceDefault(m, c, PropsOfType(k, c, "default")), c, s)
IsDefaultValue(m, s) == ChoosesDefault(m, ChoiceOf(k, s), s)

(* conf_write_defconfig: only what differs from the defaults. *)
UnlessDefault(d, out, s) == [m |-> d.m, out |-> IF d.ok THEN out ELSE out \o Lines(d.m, s)]
Differing(d, out, s) ==
    IF Text(d.m, s) = d.text THEN [m |-> d.m, out |-> out]
    ELSE UnlessDefault(IF IsChoiceValue(s) THEN IsDefaultValue(d.m, s) ELSE [m |-> d.m, ok |-> FALSE], out, s)
WriteDiffering(m, out, s) ==
    CASE s \notin m.write -> [m |-> m, out |-> out]
      [] s \in m.write /\ ~Changeable(m, s) -> [m |-> Written(m, s), out |-> out]
      [] OTHER -> Differing(DefaultText(Written(m, s), s), out, s)
DefconfigEntry(acc, n, s) ==
    CASE s = "" -> [acc EXCEPT !.m = MenuVisible(@, n).m]
      [] s \in k.choice -> acc
      [] OTHER -> WriteDiffering(Calc(acc.m, s), acc.out, s)
WriteDefconfig(m) == FoldLeft(LAMBDA acc, n : DefconfigEntry(acc, n, k.node[n].sym),
                              [m |-> ClearAllValid(m), out |-> <<>>], Entries)

(* conf_write_autoconf: every symbol is calculated again. *)
Recalculated(m) == CalcAll(ClearAllValid(m), Table)

(***************************************************************************)
(* conf_set_all_new_symbols                                                 *)
(***************************************************************************)

(* The value a mode gives a new symbol; dice[s] is what chance gives it.    *)
NewValue(mode, s, dice) ==
    CASE mode = "yes" -> yes
      [] mode = "mod" -> mod
      [] mode = "no" -> IF s \in k.allno THEN yes ELSE no
      [] mode = "random" -> IF k.ty[s] = "bool" /\ dice[s] = mod THEN yes ELSE dice[s]

(* randomize_choice_values: one value of a choice that is y, by chance. *)
PickOne(m, c, vs, one) ==
    [m EXCEPT !.def = [s \in Symbols |->
                  CASE s = c -> [@[s] EXCEPT !.val = one]
                    [] s \in Range(vs) -> [@[s] EXCEPT !.tri = IF s = one THEN yes ELSE no]
                    [] OTHER -> @[s]],
              !.user = @ \cup {c} \cup Range(vs),
              !.valid = @ \ ({c} \cup Range(vs))]
RandomizeChoice(m, c, vs, dice) ==
    IF m.curr[c].tri # yes THEN [m |-> m, changed |-> FALSE]
    ELSE [m |-> PickOne(m, c, vs, vs[1 + (dice[c] % Len(vs))]), changed |-> TRUE]

NewSymbols(m) == {s \in Range(Table) : ~HasValue(m, s) /\ s \notin m.valid /\ GetType(m, s) \in Logical}
GiveNew(m, mode, dice, new) ==
    [m EXCEPT !.def = [s \in Symbols |-> IF s \in new THEN [@[s] EXCEPT !.tri = NewValue(mode, s, dice)]
                                         ELSE @[s]],
              !.user = @ \cup IF mode = "random" THEN new \ k.choice ELSE new]
NeedValues(m, mode) ==
    IF mode = "random" THEN m
    ELSE [m EXCEPT !.need = @ \cup k.choiceval \cup {c \in k.choice : ~HasValue(m, c)}]
NewChoice(m, c, mode, dice) ==
    IF mode = "random" THEN RandomizeChoice(m, c, ValuesOf(k, c), dice)
    ELSE [m |-> SetAllChoiceValues(m, c), changed |-> TRUE]
GiveChoices(acc, mode, dice) ==
    FoldLeft(LAMBDA r, c : IF HasValue(r.m, c) THEN r ELSE NewChoice(Calc(r.m, c), c, mode, dice),
             acc, SelectSeq(Table, IsChoice))
SetAllNew(m, mode, dice) ==
    GiveChoices([m |-> NeedValues(ClearAllValid(GiveNew(m, mode, dice,
                                     IF mode = "default" THEN {} ELSE NewSymbols(m))), mode),
                 changed |-> NewSymbols(m) # {}], mode, dice)

(* randconfig repeats it until nothing changes. *)
RECURSIVE Randomize(_, _, _)
Again(r, dice, rounds) == IF r.changed /\ rounds > 0 THEN Randomize(r.m, dice, rounds - 1) ELSE r
Randomize(m, dice, rounds) == Again(SetAllNew(m, "random", dice), dice, rounds)
================================================================================
