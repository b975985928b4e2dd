---------------------------- MODULE MCKconfigValues ----------------------------
EXTENDS KconfigValues

MCSymbols == {"M", "B", "H", "C", "X", "Y", "N", "D", "S", "E"}
MCOrder == <<"Y", "N", "E", "C", "S", "D", "H", "X", "B", "M">>

(* The statements of a Kconfig file, one after the other. *)
Config(kk, s, t) == LET e == AddEntry([kk EXCEPT !.optional = @ \cup {s}], s) IN SetType(e, e.entry, t)
Ask(kk, dep) == AddPrompt(kk, "prompt", dep)
Begins(kk, c) ==
    LET e == AddEntry([kk EXCEPT !.choice = @ \cup {c}, !.auto = @ \cup {c}], c)
    IN  AddMenu(Ask(AddExpr(e, "choice", [op |-> "list", syms |-> <<>>], Nil), Nil))

(* The sources Buildroot has: bool symbols, a choice, numbers and texts. *)
Tree1 ==
    LET b == AddSymbol(Ask(Config(MenuInit, "B", "bool"), Nil), "select", "H", Nil)
        h == Ask(Config(b, "H", "bool"), Nil)
        c == AddExpr(Begins(h, "C"), "default", Sym("Y"), Nil)
        x == Ask(Config(c, "X", "bool"), Nil)
        y == EndMenu(AddDep(Ask(Config(x, "Y", "bool"), Nil), Sym("B")))
        n == AddDep(AddProp(AddExpr(Ask(Config(y, "N", "int"), Nil), "default", Sym("1"), Nil),
                            "range", FALSE, Cmp("range", "1", "3"), Nil), Sym("H"))
        d == AddDep(Ask(Config(n, "D", "bool"), Nil), Cmp("eq", "N", "3"))
        e == AddOption(Config(d, "E", "string"), "env", "w")
    IN  AddExpr(Ask(Config(e, "S", "string"), Nil), "default", Sym("E"), Nil)

(* The next version: a number and a text are gone, and B is a tristate. *)
Tree2 ==
    LET mm == AddExpr(Ask(Config(MenuInit, "M", "bool"), Nil), "default", Sym("y"), Nil)
        b == AddSymbol(Ask(Config(mm, "B", "tristate"), Nil), "select", "H", Sym("M"))
        h == AddExpr(Ask(Config(b, "H", "tristate"), Sym("B")), "default", Sym("m"), Nil)
        c == Begins(h, "C")
        x == Ask(Config(c, "X", "bool"), Nil)
    IN  EndMenu(AddDep(Ask(Config(x, "Y", "bool"), Nil), Sym("B")))

MCTrees == <<Finalize(Tree1, 1), Finalize(Tree2, 1)>>

MCUnset == "null"
Numbers == [x \in {"1", "2", "3", "5"} |-> CASE x = "1" -> 1 [] x = "2" -> 2 [] x = "3" -> 3 [] x = "5" -> 5]
TextsUsed == {"", "1", "2", "3", "5", "m", "n", "null", "v", "w", "y"} \cup MCSymbols
MCRank == [x \in TextsUsed |->
    LET all == <<"", "1", "2", "3", "5", "B", "C", "D", "E", "H", "M", "N", "S", "X", "Y", "m", "n", "null", "v", "w", "y">>
    IN  CHOOSE i \in DOMAIN all : all[i] = x]
MCNum == [b \in {0, 10, 16} |-> Numbers]
MCWords == {"1", "3", "5", "w"}
MCValid == [t \in {"int", "hex"} |-> DOMAIN Numbers]
MCPrefixed == [x \in TextsUsed |-> x]
MCNumber == [b \in {0, 10, 16} |-> [x \in TextsUsed |-> IF x \in DOMAIN Numbers THEN Numbers[x] ELSE 0]]
MCSpell == [t \in {"int", "hex"} |-> <<"1", "2", "3", "4", "5">>]

MCFixed == <<Assign("B", "y"), Assign("N", "5"), Assign("D", "y"), Assign("X", "y"), Assign("Y", "y"), Junk>>
MCAuto == <<Assign("B", "y"), Assign("H", "y"), Assign("Y", "y"), Assign("N", "3"), Quote("S", "v")>>
MCStarts == {<<Absent, Absent>>, <<MCFixed, MCAuto>>}
Silent == [s \in MCSymbols |-> ""]
MCAnswers == {<<Silent, [s \in MCSymbols |-> 0]>>,
              <<[Silent EXCEPT !["B"] = "y", !["N"] = "2", !["S"] = "v"], [s \in MCSymbols |-> 2]>>}
MCDice == {[s \in MCSymbols |-> IF s \in {"B", "H"} THEN mod ELSE yes]}
MCEntered == {"2", "v"}
================================================================================
