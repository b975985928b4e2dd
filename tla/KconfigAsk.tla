------------------------------- MODULE KconfigAsk ------------------------------
(***************************************************************************)
(* The line-oriented configurator (support/kconfig/conf.c): it walks the    *)
(* menus, asks for the symbols that are new, and starts again until nothing *)
(* new is left.                                                             *)
(*                                                                          *)
(* A run r is the memory, rootEntry, whether conf_cnt is not zero, and      *)
(* whether a question can never be answered.  ans[s] is what the user types *)
(* when s is asked, "" for just Enter; for the values of a choice pick[c]   *)
(* is the number typed, 0 for Enter.  An answer that is refused is followed *)
(* by Enter, which is also what the end of the input amounts to.            *)
(***************************************************************************)
EXTENDS KconfigConf

Start(m, mode) == [m |-> m, root |-> 1, again |-> FALSE, hung |-> FALSE, mode |-> mode, new |-> {}]

(* conf_askvalue: whether the user is asked. *)
Asks(r, s) == Changeable(r.m, s) /\ (r.mode = "oldaskconfig" \/ ~HasValue(r.m, s))

(* conf_sym and conf_string: what is typed, or just Enter, x = "". *)
Attempt(m, s, x) ==
    IF k.ty[s] \in Logical THEN SetTri(m, s, IF x \in YMN THEN TriOfText(x) ELSE m.curr[s].tri)
    ELSE SetText(m, s, IF x # "" THEN x ELSE Text(m, s))
Accept(r, out) == IF out.ok THEN [r EXCEPT !.m = out.m] ELSE [r EXCEPT !.hung = TRUE]
Question(r, s, ans) ==
    IF ~Asks(r, s) THEN r
    ELSE Accept(r, FoldLeft(LAMBDA out, x : IF out.ok THEN out ELSE Attempt(r.m, s, x),
                            [m |-> r.m, ok |-> FALSE], <<ans[s], "">>))

(* conf and check_conf ask menu_is_visible first; asking tells them apart.  *)
RECURSIVE Walk(_, _, _, _, _)
WalkAll(r, ns, asking, ans, pick) == FoldLeft(LAMBDA rr, n : Walk(rr, n, asking, ans, pick), r, ns)

(* menu_get_parent_menu. *)
RECURSIVE ParentMenu(_)
ParentMenu(n) == IF n = 1 \/ (k.node[n].prompt # 0 /\ k.prop[k.node[n].prompt].type = "menu")
                 THEN n ELSE ParentMenu(k.node[n].parent)

(* conf_choice, for a choice that is y: its visible values are numbered,    *)
(* and the value it has is kept unless the choice is new.                   *)
SeeValue(v, out, n) == [m |-> v.m, out |-> IF v.ok /\ k.node[n].sym # "" THEN Append(out, n) ELSE out]
SeeValues(m, n) == FoldLeft(LAMBDA acc, x : SeeValue(MenuVisible(acc.m, x), acc.out, x),
                            [m |-> m, out |-> <<>>], Children(k, n))
Picked(shown, current, asked, number) ==
    CASE Len(shown) = 1 -> {1}
      [] Len(shown) # 1 /\ asked /\ number \in DOMAIN shown -> {number}
      [] OTHER -> {i \in DOMAIN shown : k.node[shown[i]].sym = current}
AskValue(r, n, ans, pick) ==
    WalkAll([r EXCEPT !.m = SetTri(@, k.node[n].sym, yes).m], Children(k, n), TRUE, ans, pick)
AskSeen(r, seen, picked, ans, pick) ==
    IF picked = {} THEN [r EXCEPT !.m = seen.m, !.hung = TRUE]
    ELSE AskValue([r EXCEPT !.m = seen.m], seen.out[CHOOSE i \in picked : TRUE], ans, pick)
AskAmong(r, seen, c, asked, ans, pick) ==
    AskSeen(r, seen, Picked(seen.out, r.m.curr[c].val, asked, pick[c]), ans, pick)
AskChoice(r, n, c, isnew, ans, pick) ==
    IF r.m.curr[c].tri # yes THEN r
    ELSE AskAmong(r, SeeValues(r.m, n), c, r.mode = "oldaskconfig" \/ isnew, ans, pick)

ConfSym(r, n, s, isnew, ans, pick) ==
    IF IsChoice(s) THEN AskChoice([r EXCEPT !.m = Calc(@, s)], n, s, isnew, ans, pick) ELSE r
ConfEntry(r, n, s, ans, pick) ==
    IF s = "" THEN r ELSE ConfSym(Question(r, s, ans), n, s, ~HasValue(r.m, s), ans, pick)
ConfBelow(r, n, s, ans, pick) ==
    IF s # "" /\ IsChoice(s) /\ r.m.curr[s].tri # mod THEN r
    ELSE WalkAll(r, Children(k, n), TRUE, ans, pick)
Conf(r, n, s, ans, pick) ==
    IF k.prop[k.node[n].prompt].type = "menu" /\ r.mode # "oldaskconfig" /\ r.root # n
    THEN Walk(r, n, FALSE, ans, pick) ELSE ConfBelow(ConfEntry(r, n, s, ans, pick), n, s, ans, pick)

IsNew(m, s) == /\ s # "" /\ ~HasValue(m, s)
               /\ Changeable(m, s) \/ (IsChoice(s) /\ m.curr[s].tri = yes)
CheckEntry(r, n, s, ans, pick) ==
    CASE ~IsNew(r.m, s) -> r
      [] IsNew(r.m, s) /\ r.mode = "listnewconfig" -> [r EXCEPT !.new = @ \cup {s}]
      [] OTHER -> Walk([r EXCEPT !.again = TRUE, !.root = ParentMenu(n)], ParentMenu(n), TRUE, ans, pick)
CheckConf(r, n, s, ans, pick) ==
    WalkAll(CheckEntry(r, n, s, ans, pick), Children(k, n), FALSE, ans, pick)

WalkIn(r, visible, n, asking, ans, pick) ==
    CASE ~visible -> r
      [] visible /\ asking -> Conf(r, n, k.node[n].sym, ans, pick)
      [] visible /\ ~asking -> CheckConf(r, n, k.node[n].sym, ans, pick)
WalkSeen(r, v, n, asking, ans, pick) == WalkIn([r EXCEPT !.m = v.m], v.ok, n, asking, ans, pick)
Walk(r, n, asking, ans, pick) ==
    IF r.hung THEN r ELSE WalkSeen(r, MenuVisible(r.m, n), n, asking, ans, pick)

(* main: all the questions first for oldaskconfig, and then until a round   *)
(* asks nothing; a run that takes more rounds than there are entries does   *)
(* not end.                                                                 *)
RECURSIVE Rounds(_, _, _, _, _)
AfterRound(r, asking, ans, pick, left) ==
    CASE asking -> Rounds([r EXCEPT !.mode = "oldconfig"], FALSE, ans, pick, left)
      [] ~asking /\ (r.hung \/ ~r.again) -> r
      [] OTHER -> IF left = 0 THEN [r EXCEPT !.hung = TRUE] ELSE Rounds(r, FALSE, ans, pick, left - 1)
Rounds(r, asking, ans, pick, left) ==
    AfterRound(Walk([r EXCEPT !.again = FALSE], 1, asking, ans, pick), asking, ans, pick, left)

Update(m, mode, ans, pick) ==
    Rounds(Start(m, mode), mode = "oldaskconfig", ans, pick, Len(k.node))
================================================================================
