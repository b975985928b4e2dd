------------------------------ MODULE KconfigLines ------------------------------
(***************************************************************************)
(* The lines of the files Kconfig writes (support/kconfig/confdata.c): what *)
(* reading a file makes of each line, the lines of auto.conf, and the       *)
(* comparison of the old auto.conf with the new values.                     *)
(*                                                                          *)
(* A file is a sequence of lines; Absent is the file that does not exist.   *)
(* A value of a string symbol is written in quotes; the escaping of quotes  *)
(* and backslashes inside them is left out, no value here has one.          *)
(***************************************************************************)
EXTENDS KconfigTypes

CONSTANTS Valid,   \* Valid[t]: the texts sym_string_valid takes for int, hex
          Unset,   \* the null text
          Texts,   \* the texts of the values, the null text is one
          Order    \* the order of the symbol hash table

VARIABLES sources,  \* the versions of the Kconfig sources, finalized trees
          tree      \* the one in use
k == sources[tree]

Blank == [tri |-> no, val |-> Unset]

Line(s, kind, x) == [s |-> s, kind |-> kind, x |-> x]
Absent == <<Line("", "absent", "")>>
Assign(s, x) == Line(s, "set", x)
Quote(s, x) == Line(s, "quoted", x)
NotSet(s) == Line(s, "unset", "n")
Junk == Line("", "junk", "")

Known(s) == s \in Symbols /\ PropsOf(k, s) # <<>>
Text(m, s) == StringValue(k.ty, m.curr, m.curr[ModulesSym].tri, s)

(***************************************************************************)
(* Reading.  r.has are the symbols with the SYMBOL_DEF flag of the file that *)
(* is read and r.val their sym->def; r.changes and r.warned say whether the *)
(* change count went up and whether there was a warning.  def is "user" for *)
(* .config and "auto" for auto.conf.                                        *)
(***************************************************************************)

(* conf_set_sym_val: r.taken is false when the line is refused. *)
TakesTri(t, l) == t \in Logical /\ l.kind = "set" /\ l.x \in IF t = "tristate" THEN YMN ELSE {"y", "n"}
TakesText(t, l) == \/ t = "string" /\ l.kind = "quoted"
                   \/ t \in {"int", "hex"} /\ l.kind = "set" /\ l.x \in Valid[t]
Take(r, s, v) == [r EXCEPT !.has = @ \cup {s}, !.val[s] = v]
SetSymVal(r, def, l) ==
    CASE TakesTri(k.ty[l.s], l) -> Take(r, l.s, [tri |-> TriOfText(l.x), val |-> Unset])
      [] TakesText(k.ty[l.s], l) -> Take(r, l.s, [tri |-> no, val |-> l.x])
      [] OTHER -> IF k.ty[l.s] \in Logical \cup {"int", "hex"}
                  THEN [r EXCEPT !.taken = FALSE, !.warned = @ \/ def = "user"] ELSE r

(* A choice is as much on as the most of its values, and its value is the   *)
(* last one that is y.                                                      *)
MostOf(was, mine, s) == [tri |-> TriMax(was.tri, mine), val |-> IF mine = yes THEN s ELSE was.val]
Combine(r, c, value, odd, twice) ==
    [r EXCEPT !.val[c] = value, !.has = IF odd THEN @ \ {c} ELSE @, !.warned = @ \/ odd \/ twice]
GiveChoice(r, s, c, was, mine) ==
    Combine(r, c, MostOf(was, mine, s), mine = mod /\ was.tri = yes, mine = yes /\ was.tri # no)
SetChoice(r, s) == GiveChoice(r, s, ChoiceOf(k, s), r.val[ChoiceOf(k, s)], r.val[s].tri)

Choose(r, s) == IF r.taken /\ s \in k.choiceval THEN SetChoice(r, s) ELSE r
SetUnset(r, s) == IF k.ty[s] \in Logical THEN Take(r, s, [r.val[s] EXCEPT !.tri = no]) ELSE r
ReadKnown(r, def, l) == Choose(IF l.kind = "unset" THEN SetUnset(r, l.s) ELSE SetSymVal(r, def, l), l.s)

(* A removed symbol; in auto.conf it counts as a string, unless its value   *)
(* was quoted.                                                              *)
Defined(def, s) == Known(s) /\ (def = "user" \/ k.ty[s] # "unknown")
ReadGone(r, def, l) == CASE def = "user" -> [r EXCEPT !.changes = TRUE]
                         [] def # "user" /\ l.kind = "quoted" -> r
                         [] OTHER -> [r EXCEPT !.has = @ \cup {l.s}]
ReadLine(r, def, l) ==
    CASE l.kind = "junk" -> [r EXCEPT !.warned = TRUE]
      [] l.kind # "junk" /\ ~Defined(def, l.s) -> ReadGone(r, def, l)
      [] OTHER -> ReadKnown([r EXCEPT !.taken = TRUE, !.warned = @ \/ l.s \in r.has], def, l)

(* conf_read_simple, once the file is found; before are the values of the   *)
(* symbols that the sources do not have.                                    *)
ReadLines(def, before, lines) ==
    LET after[i \in 0 .. Len(lines)] ==
            IF i = 0
            THEN [has |-> k.choice, val |-> [s \in Symbols |-> IF Known(s) THEN Blank ELSE before[s]],
                  changes |-> FALSE, warned |-> FALSE, taken |-> TRUE]
            ELSE ReadLine(after[i - 1], def, lines[i])
    IN  after[Len(lines)]

(***************************************************************************)
(* auto.conf                                                                *)
(***************************************************************************)

(* A line of a symbol that has a value. *)
ValueLine(s, x) == IF k.ty[s] = "string" THEN Quote(s, x) ELSE Assign(s, x)

(* The symbols auto.conf has a line of, once the memory m is calculated:    *)
(* the ones to write but n, and no choice.                                  *)
InAuto(m, s) == /\ s \in m.write \ k.choice
                /\ k.ty[s] # "unknown"
                /\ ~(k.ty[s] \in Logical /\ Text(m, s) = "n")
AutoLines(m) ==
    LET lines[i \in 0 .. Len(Order)] ==
            IF i = 0 THEN <<>>
            ELSE IF InAuto(m, Order[i])
                 THEN Append(lines[i - 1], ValueLine(Order[i], Text(m, Order[i]))) ELSE lines[i - 1]
    IN  lines[Len(Order)]

(* What the run that compares knows of the old auto.conf.                   *)
NoValues == [s \in Symbols |-> Blank]
Old(lines) == IF lines = Absent THEN [has |-> {}, val |-> NoValues] ELSE ReadLines("auto", NoValues, lines)

(* A mutant: a symbol that is gone is not noticed. *)
Differs_OnlyWritten(m, old, s) ==
    /\ s \in m.write
    /\ IF k.ty[s] \in Logical THEN m.curr[s].tri # old.val[s].tri ELSE Text(m, s) # old.val[s].val

(* conf_split_config: the symbols whose header is touched. *)
Differs(m, old, s) ==
    CASE s \in m.write /\ s \in old.has ->
             IF k.ty[s] \in Logical THEN m.curr[s].tri # old.val[s].tri ELSE Text(m, s) # old.val[s].val
      [] s \in m.write /\ s \notin old.has -> ~(k.ty[s] \in Logical /\ m.curr[s].tri = no)
      [] OTHER -> s \in old.has
Changed(m, old) == {s \in Symbols \ k.auto : Differs(m, old, s)}
================================================================================
