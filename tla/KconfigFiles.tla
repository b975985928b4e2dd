------------------------------ MODULE KconfigFiles ------------------------------
(***************************************************************************)
(* What the runs of Kconfig do to the files (support/kconfig/confdata.c),   *)
(* whatever values they calculate: a save of .config, and conf_write_autoconf, *)
(* step by step.  Runs follow each other, the Kconfig sources may change    *)
(* between them, and every run may be killed at every step.  KconfigValues  *)
(* gives these steps the memory that calculates the values.                 *)
(***************************************************************************)
EXTENDS KconfigLines

CONSTANTS Trees,   \* the versions of the Kconfig sources
          Starts   \* what an earlier session left: pairs <<.config, auto.conf>>

VARIABLES pc,     \* how far the run is; "none" when nothing runs
          goal,   \* what follows the save: "edit", "sync" or "none"
          todo,   \* the lines of the new .config
          left,   \* the headers that are still to be touched
          want,   \* the lines of the new auto.conf
          disk    \* the files
files == <<sources, tree, pc, goal, todo, left, want, disk>>

(* The files: any lines, and what some version kk of the sources writes to  *)
(* auto.conf, one line for a symbol.                                        *)
AnyLines == Seq([s : Symbols \cup {""}, kind : {"set", "quoted", "unset", "junk"}, x : Texts])
AutoLine == [s : Symbols, kind : {"set", "quoted"}, x : Texts]
Writes(kk, l) ==
    /\ kk.ty[l.s] # "unknown"
    /\ l.kind = IF kk.ty[l.s] = "string" THEN "quoted" ELSE "set"
    /\ kk.ty[l.s] \in Logical => l.x # "n"
AutoConf(lines) ==
    /\ lines \in Seq(AutoLine)
    /\ \A i, j \in DOMAIN lines : lines[i].s = lines[j].s => i = j
    /\ \A i \in DOMAIN lines : \E t \in DOMAIN Trees : Writes(Trees[t], lines[i])

ASSUME TextsAssumption == YMN \cup {Unset} \subseteq Texts

\* every symbol is in the hash table once, and none has an empty name
ASSUME OrderAssumption ==
    /\ Order \in Seq(Symbols)
    /\ \A i, j \in DOMAIN Order : Order[i] = Order[j] => i = j
    /\ \A s \in Symbols : \E i \in DOMAIN Order : Order[i] = s
    /\ "" \notin Symbols

\* a symbol gets its type where it gets a property; the parser gives every
\* choice SYMBOL_AUTO, and a value of a choice has one
ASSUME TreesAssumption ==
    \A t \in DOMAIN Trees :
        /\ \A s \in Symbols : Trees[t].ty[s] # "unknown" => PropsOf(Trees[t], s) # <<>>
        /\ Trees[t].choice \subseteq Trees[t].auto \cap Symbols
        /\ \A s \in Trees[t].choiceval : ChoiceOf(Trees[t], s) \in Trees[t].choice

\* no number is y, m or n
ASSUME ValidAssumption == \A t \in {"int", "hex"} : Valid[t] \cap YMN = {}

ASSUME StartsAssumption ==
    \A st \in Starts : /\ st[1] = Absent \/ st[1] \in AnyLines
                       /\ st[2] = Absent \/ AutoConf(st[2])

(* What a file says of each symbol. *)
Content(lines) ==
    [s \in Symbols |-> IF \E i \in DOMAIN lines : lines[i].s = s
                       THEN lines[CHOOSE i \in DOMAIN lines : lines[i].s = s].x ELSE Unset]
Nothing == [s \in Symbols |-> Unset]

FilesInit ==
    /\ sources = Trees
    /\ tree \in DOMAIN sources
    /\ pc = "none" /\ goal = "none" /\ todo = <<>> /\ left = {} /\ want = <<>>
    /\ \E st \in Starts :
           disk = [config |-> st[1], old |-> Absent, defconfig |-> Absent,
                   auto |-> st[2], header |-> Content(st[2]), tristate |-> Nothing,
                   touched |-> {}, built |-> Content(st[2]), fresh |-> FALSE]

SameSources == UNCHANGED <<sources, tree>>

(***************************************************************************)
(* The course of a run                                                      *)
(***************************************************************************)

(* conf_parse: the sources, which may have changed since the last run. *)
Opens(t) ==
    /\ pc = "none"
    /\ tree' = t /\ UNCHANGED sources
    /\ pc' = "parsed"
    /\ UNCHANGED <<goal, todo, left, want, disk>>

Goes(p) == pc' = p /\ SameSources /\ UNCHANGED <<goal, todo, left, want, disk>>

(* Nothing of the run is left but the files. *)
Forgets == pc' = "none" /\ goal' = "none" /\ todo' = <<>> /\ left' = {} /\ want' = <<>> /\ SameSources
Ends == Forgets /\ UNCHANGED disk

(* conf_write up to the temporary file; "then" is what follows. *)
Saves(lines, then) ==
    /\ todo' = lines
    /\ goal' = then
    /\ pc' = "saving"
    /\ SameSources /\ UNCHANGED <<left, want, disk>>

(* conf_write_defconfig. *)
SavesShort(lines) == disk' = [disk EXCEPT !.defconfig = lines] /\ Forgets

(***************************************************************************)
(* Saving .config                                                           *)
(***************************************************************************)

(* A mutant: the old file is removed. *)
RenameOld_Removes == /\ pc = "saving" /\ SameSources
                     /\ disk' = [disk EXCEPT !.config = Absent]
                     /\ pc' = "renamed"
                     /\ UNCHANGED <<goal, todo, left, want>>

RenameOld == /\ pc = "saving" /\ SameSources
             /\ disk' = [disk EXCEPT !.old = IF disk.config = Absent THEN @ ELSE disk.config,
                                     !.config = Absent]
             /\ pc' = "renamed"
             /\ UNCHANGED <<goal, todo, left, want>>

RenameNew == /\ pc = "renamed" /\ SameSources
             /\ disk' = [disk EXCEPT !.config = todo, !.fresh = FALSE]
             /\ todo' = <<>>
             /\ goal' = "none"
             /\ pc' = goal
             /\ UNCHANGED <<left, want>>

(***************************************************************************)
(* conf_write_autoconf, once memory m is calculated                         *)
(***************************************************************************)

SplitConfig(m) == /\ pc = "sync" /\ SameSources
                  /\ left' = Changed(m, Old(disk.auto))
                  /\ want' = AutoLines(m)
                  /\ pc' = "touch"
                  /\ UNCHANGED <<goal, todo, disk>>

(* The symbol of S that comes first in the symbol table. *)
IsFirst(s, S) == \E i \in DOMAIN Order : Order[i] = s /\ \A j \in 1 .. i - 1 : Order[j] \notin S
TouchHeader == /\ pc = "touch" /\ SameSources
               /\ \E s \in left : /\ IsFirst(s, left)
                                  /\ disk' = [disk EXCEPT !.touched = @ \cup {s}]
                                  /\ left' = left \ {s}
               /\ UNCHANGED <<pc, goal, todo, want>>

\* the temporary files
WriteFiles == /\ pc = "touch" /\ SameSources
              /\ left = {}
              /\ pc' = "files"
              /\ UNCHANGED <<goal, todo, left, want, disk>>

RenameHeader == /\ pc = "files" /\ SameSources
                /\ disk' = [disk EXCEPT !.header = Content(want)]
                /\ pc' = "header"
                /\ UNCHANGED <<goal, todo, left, want>>
RenameTristate == /\ pc = "header" /\ SameSources
                  /\ disk' = [disk EXCEPT !.tristate = [s \in Symbols |-> IF k.ty[s] = "tristate"
                                                        THEN Content(want)[s] ELSE Unset]]
                  /\ pc' = "tristate"
                  /\ UNCHANGED <<goal, todo, left, want>>
RenameAuto == /\ pc = "tristate"
              /\ disk' = [disk EXCEPT !.auto = want, !.fresh = TRUE]
              /\ Forgets

(***************************************************************************)
(* Around the runs                                                          *)
(***************************************************************************)

Crash == pc # "none" /\ Ends

(* make: the objects that depend on a touched header are compiled again. *)
Build == /\ pc = "none" /\ SameSources
         /\ disk.fresh /\ disk.touched # {}
         /\ disk' = [disk EXCEPT !.built = [s \in Symbols |-> IF s \in disk.touched THEN disk.header[s]
                                                              ELSE @[s]],
                                 !.touched = {}]
         /\ UNCHANGED <<pc, goal, todo, left, want>>

(* What a memory is once it is calculated: only symbols with a type are     *)
(* written, and none is m while modules are off.                            *)
Settled(m) ==
    \A s \in Symbols :
        /\ s \in m.write => k.ty[s] # "unknown"
        /\ m.curr[s].tri \in Tri /\ m.curr[s].val \in Texts
        /\ k.ty[s] \in Logical /\ m.curr[s].tri = mod => m.curr[ModulesSym].tri # no

Memories == {m \in [write : SUBSET Symbols, curr : [AllSymbols -> [tri : Tri, val : Texts]]] : Settled(m)}

FilesNext ==
    \/ \E t \in DOMAIN sources : Opens(t)
    \/ pc = "parsed" /\ \E p \in {"hung", "edit"} : Goes(p)
    \/ pc = "parsed" /\ ~disk.fresh /\ Goes("sync")
    \/ pc \in {"parsed", "edit"} /\ \E lines \in AnyLines, then \in {"none", "edit", "sync"} : Saves(lines, then)
    \/ pc = "parsed" /\ \E lines \in AnyLines : SavesShort(lines)
    \/ RenameOld \/ RenameNew
    \/ \E m \in Memories : SplitConfig(m)
    \/ TouchHeader \/ WriteFiles \/ RenameHeader \/ RenameTristate \/ RenameAuto
    \/ Crash \/ Build

FilesSpec == FilesInit /\ [][FilesNext]_files

(***************************************************************************)
(* What the files must keep                                                 *)
(***************************************************************************)

(* The user's last complete configuration is in .config or in .config.old,  *)
(* whenever a run is killed.                                                *)
ConfigKept == [][disk.config # Absent => disk.config \in {disk'.config, disk'.old}]_files

(* The values of s the comparison can tell from none: the texts that every  *)
(* version of the sources that has s reads back (conf_set_sym_val refuses   *)
(* the others), and that a version without s takes for a removed symbol.    *)
(* A symbol that some version never writes is left out: conf_split_config   *)
(* passes it over.                                                          *)
Accepts(t, l) == TakesTri(t, l) \/ TakesText(t, l)
Legible(s, x) ==
    /\ \A t \in DOMAIN sources : s \notin sources[t].auto
    /\ \/ \A t \in DOMAIN sources : sources[t].ty[s] # "unknown" => Accepts(sources[t].ty[s], Assign(s, x))
       \/ \A t \in DOMAIN sources : Accepts(sources[t].ty[s], Quote(s, x))
Seen(f) == [s \in Symbols |-> IF Legible(s, f[s]) THEN f[s] ELSE Unset]

AutoSeen == Seen(Content(disk.auto))
WantSeen == IF pc \in {"touch", "files", "header", "tristate"} THEN Seen(Content(want)) ELSE AutoSeen
Stage == CASE pc \in {"touch", "files"} -> "split"
           [] pc \in {"header", "tristate"} -> "header"
           [] OTHER -> "idle"

Sync == INSTANCE KconfigSync WITH
            Names <- Symbols, Settings <- Texts,
            auto <- AutoSeen, header <- Seen(disk.header), touched <- disk.touched,
            built <- Seen(disk.built), want <- WantSeen, left <- left, stage <- Stage,
            fresh <- disk.fresh

(* Every run, however it ends, keeps what KconfigSync promises the build.   *)
SyncSpec == Sync!Spec
================================================================================
