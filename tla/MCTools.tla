------------------------------- MODULE MCTools -------------------------------
(***************************************************************************)
(* The Kconfig parser, the boxes and sessions of the front ends and the    *)
(* toolchain wrapper on small instances.  They share nothing here: a       *)
(* behaviour is one of one of them, the others stay idle, so the states of *)
(* this run are the union of theirs and not the product.                   *)
(***************************************************************************)
EXTENDS KconfigTree, ListBoxes, EntryBoxes, TextBoxes, MenuSession, ToolchainWrapper

(* A Kconfig file of two bools, a tristate and a choice. *)
MCType == [A |-> "bool", T |-> "tristate", B |-> "bool", C |-> "choice"]
MCSymbols == DOMAIN MCType
MCOrder == <<"A", "T", "C", "B">>
MCRank == [s \in {"", "m", "n", "y", "A", "T", "B", "C"} |->
              CASE s = "" -> 0 [] s = "A" -> 1 [] s = "B" -> 2 [] s = "C" -> 3 [] s = "T" -> 4
                [] s = "m" -> 5 [] s = "n" -> 6 [] s = "y" -> 7]
MCNum == [b \in {0, 10, 16} |-> <<>>]

A == Sym("A")
B == Sym("B")
T == Sym("T")
MCDeps == {Nil, A, Two("and", Two("or", A, Not(B)), Cmp("ne", "T", "n")),
           Two("or", Cmp("eq", "T", "m"), Not(Two("or", Cmp("eq", "T", "n"), Sym("m"))))}
MCDefaults == {Two("and", T, Not(A)), Sym("m")}
MCDemands == {Demand("select", s, Nil) : s \in {"A", "B", "T"}} \cup {Demand("imply", "B", Nil)}

(* Lists, texts and pages. *)
MCName == [i \in 0 .. 4 |->
    <<<<"a", "x">>, <<"s", "a">>, <<"a", "a">>, <<"b", "x">>, <<"x", "b">>>>[i + 1]]

MCTexts == {<<>>, <<"a", "b">>, <<"b", "a", "b", "a", "b">>}

MCPageTexts == {[lines |-> 1, whole |-> FALSE, places |-> <<>>],
                [lines |-> 3, whole |-> FALSE, places |-> <<>>],
                [lines |-> 7, whole |-> TRUE, places |-> <<1, 2, 4, 6>>],
                [lines |-> 4, whole |-> TRUE, places |-> <<0, 3>>]}

(* A menu with a menuconfig above a text and a choice, a comment that      *)
(* depends on the first, and a symbol without a prompt.                    *)
MCKind == [root |-> "root", net |-> "menu", wifi |-> "menuconfig", ssid |-> "text",
           fs |-> "choice", tar |-> "value", cpio |-> "value", note |-> "comment",
           old |-> "hidden"]
MCMenus == DOMAIN MCKind
MCSubentries == [m \in MCMenus |->
    CASE m = "root" -> <<"net", "note", "old">>
      [] m = "net"  -> <<"wifi", "fs">>
      [] m = "wifi" -> <<"ssid">>
      [] m = "fs"   -> <<"tar", "cpio">>
      [] OTHER      -> <<>>]
MCNeeds == [m \in MCMenus |-> IF m \in {"ssid", "note"} THEN "wifi" ELSE "root"]
MCDefault == [wifi |-> "n", ssid |-> "a", fs |-> "tar", old |-> "y"]
MCSaved == [wifi |-> "y", ssid |-> "b", fs |-> "tar", old |-> "y"]
MCStartFiles == {<<>>, ".config" :> MCSaved, (".config" :> MCSaved) @@ ("other" :> MCDefault)}

Arg(opt, of) == [opt |-> opt, text |-> of]
(* Any two arguments, or three of those the check of paths reads.          *)
MCPathArgs == {Arg("-I", ""), Arg("-I", "/usr/include"), Arg("-L", ""), Arg("-L", "/opt/lib"),
               Arg("", "/usr/lib"), Arg("", "main.c")}
MCArgs == MCPathArgs \cup
          {Arg("-mtune=", "x"), Arg("-msoft-float", ""), Arg("-mhard-float", ""),
           Arg("-D__KERNEL__", ""), Arg("-shared", ""), Arg("-fPIC", "")}
MCArgLists == UNION {[1 .. n -> MCArgs] : n \in 0 .. 2} \cup [1 .. 3 -> MCPathArgs]
MCBase == <<Arg("gcc", ""), Arg("--sysroot", ""), Arg("", "sysroot"), Arg("-Wl,", "-elf2flt")>>
MCBuilds ==
    LET b(ccache, float_abi, fp32, cpu, epoch, pie, relro) ==
            [ccache |-> ccache, float_abi |-> float_abi, fp32 |-> fp32, arch |-> TRUE,
             cpu |-> cpu, epoch |-> epoch, pie |-> pie, relro |-> relro,
             predef |-> IF ccache THEN <<Arg("ccache", "")>> \o MCBase ELSE MCBase]
    IN  {b(TRUE, TRUE, FALSE, TRUE, TRUE, TRUE, "full"),
         b(FALSE, FALSE, TRUE, TRUE, TRUE, TRUE, "full"),
         b(FALSE, FALSE, FALSE, FALSE, FALSE, FALSE, "partial"),
         b(TRUE, FALSE, FALSE, FALSE, FALSE, TRUE, "none")}

------------------------------------------------------------------------------
tools == <<tree, box, entry, text, session, wrapper>>

(* No box is open and no session runs. *)
NoFrontEnd == box = NoBox /\ entry = NoEntry /\ text = NoText /\ session = NoSession

ToolsInit ==
    \/ TreeInit /\ NoFrontEnd /\ wrapper = NoWrapper
    \/ NoTree /\ NoFrontEnd /\ WrapperInit
    \/ /\ NoTree /\ wrapper = NoWrapper
       /\ \/ ListInit /\ entry = NoEntry /\ text = NoText /\ session = NoSession
          \/ box = NoBox /\ EntryInit /\ text = NoText /\ session = NoSession
          \/ box = NoBox /\ entry = NoEntry /\ TextInit /\ session = NoSession
          \/ box = NoBox /\ entry = NoEntry /\ text = NoText /\ SessionInit

ToolsNext ==
    \/ TreeNext /\ UNCHANGED <<box, entry, text, session, wrapper>>
    \/ ListNext /\ UNCHANGED <<tree, entry, text, session, wrapper>>
    \/ EntryNext /\ UNCHANGED <<tree, box, text, session, wrapper>>
    \/ TextNext /\ UNCHANGED <<tree, box, entry, session, wrapper>>
    \/ SessionNext /\ UNCHANGED <<tree, box, entry, text, wrapper>>
    \/ WrapperNext /\ UNCHANGED <<tree, box, entry, text, session>>

Spec == ToolsInit /\ [][ToolsNext]_tools
==============================================================================
