------------------------------ MODULE KconfigTypes ------------------------------
(***************************************************************************)
(* What every part of Kconfig shares: the three values of a tristate, the   *)
(* types of the symbols, and the text a value is written as.                *)
(*                                                                          *)
(* ty[s] is the type of a symbol and v[s] = [tri, val] its current value;   *)
(* k is a tree of the Kconfig sources and k.prop its properties.            *)
(***************************************************************************)
EXTENDS Integers, Sequences

CONSTANTS Words,        \* the quoted words, constant symbols like y, m and n
          Symbols,      \* the config symbols and the choices
          ModulesSym    \* the symbol with "option modules", or "n"

no == 0
mod == 1
yes == 2
Tri == {no, mod, yes}

TriMin(a, b) == IF a < b THEN a ELSE b
TriMax(a, b) == IF a > b THEN a ELSE b

Logical == {"bool", "tristate"}
YMN == {"y", "m", "n"}
TriOfText(x) == CASE x = "y" -> yes [] x = "m" -> mod [] OTHER -> no

ConstSymbols == YMN \cup Words
AllSymbols == Symbols \cup ConstSymbols

(* sym_get_string_value: m reads n while modules are off. *)
StringValue(ty, v, modules, s) ==
    IF ty[s] \in Logical
    THEN CASE v[s].tri = yes -> "y"
           [] v[s].tri = mod /\ modules # no -> "m"
           [] OTHER -> "n"
    ELSE v[s].val

(* The properties of a symbol, in the order of its list. *)
PropsOf(k, s) == SelectSeq([i \in DOMAIN k.prop |-> i], LAMBDA i : k.prop[i].sym = s)
PropsOfType(k, s, t) == SelectSeq(PropsOf(k, s), LAMBDA i : k.prop[i].type = t)
ChoiceProp(k, s) == PropsOfType(k, s, "choice")[1]
ChoiceOf(k, s) == k.prop[ChoiceProp(k, s)].expr.s
ValuesOf(k, c) == k.prop[ChoiceProp(k, c)].expr.syms
================================================================================
