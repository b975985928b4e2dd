------------------------------ MODULE MenuSession ------------------------------
(***************************************************************************)
(* A session of menuconfig (mconf.c) or nconfig (nconf.c): the calls that  *)
(* are open, the configuration that is edited, the files it is read from   *)
(* and saved to, and the flag that says whether there is anything to save. *)
(* The boxes are those of ListBoxes, EntryBoxes and TextBoxes: here a box  *)
(* is the choice of its answer.  Help texts and messages change nothing    *)
(* and are left out; tristate values do not occur (Buildroot has no        *)
(* modules), so a feature is n or y.                                       *)
(***************************************************************************)
EXTENDS Integers, Sequences, SequencesExt

CONSTANTS
    Menus,      \* the entries of the menu tree
    Root,       \* rootmenu
    Kind,       \* "root", "menu", "comment", "bool", "menuconfig", "choice", "value",
                \* "text", or "hidden" (a bool without a prompt)
    Entries,    \* the entries of each entry, in order
    Needs,      \* the bool an entry depends on, or Root
    Contents,   \* the values of a text symbol
    Default,    \* the value each symbol has when nothing sets it
    FileNames,  \* the names of configuration files, ".config" among them
    StartFiles, \* the files there may be at the start, each a function on their names
    DepthBound, \* the number of calls that may be open at once
    EditBound   \* the number of values set in a session

ASSUME TreeAssumption ==
    /\ Root \in Menus
    /\ Entries \in [Menus -> Seq(Menus)]
    /\ Needs \in [Menus -> Menus]
    /\ ".config" \in FileNames
    /\ DepthBound \in Nat /\ EditBound \in Nat

VARIABLE session

NoSession == [ui |-> "none"]
Settings == {m \in Menus : Kind[m] \in {"bool", "menuconfig", "choice", "text", "hidden"}}
Parent(m) == CHOOSE p \in Menus : m \in ToSet(Entries[p])

(* The value in effect: a symbol whose dependency is off has its default.  *)
(* The tree is such that no dependency depends on another one.             *)
On(conf, m) == Needs[m] # Root => conf[Needs[m]] = "y"
InEffect(conf) == [s \in Settings |-> IF On(conf, s) THEN conf[s] ELSE Default[s]]
HasPrompt(m) == Kind[m] # "hidden"
Visible(s, m) == HasPrompt(m) /\ On(s.conf, m)

------------------------------------------------------------------------------
(* build_conf: the items of the menu cur, each with its tag: m a submenu,  *)
(* t a feature or choice, s a text, : nothing to change.  menuconfig with  *)
(* show_all_options lists everything that has a prompt, nconfig with       *)
(* show_all_items everything.                                              *)
Items(s, lists) ==
    LET here(m) == Last(s.stack).menu = m
        item(m, tag) == <<[menu |-> m, tag |-> tag]>>
        items[m \in Menus] ==
            LET below == FlattenSeq([i \in DOMAIN Entries[m] |-> items[Entries[m][i]]])
            IN  CASE m \notin lists            -> <<>>
                  [] Kind[m] = "root"          -> below
                  [] Kind[m] = "menu"          ->
                        IF here(m) THEN below
                        ELSE item(m, "m") \o (IF s.single /\ m \in s.unfolded THEN below ELSE <<>>)
                  [] Kind[m] = "comment"       -> item(m, ":")
                  [] Kind[m] = "choice"        ->
                        IF On(s.conf, m) THEN item(m, "t") ELSE item(m, ":") \o below
                  [] here(m)                   -> item(m, ":") \o below
                  [] Kind[m] = "text"          -> item(m, "s") \o below
                  [] Kind[m] = "menuconfig"    -> item(m, "t")
                  [] OTHER                     -> item(m, "t") \o below
    IN  items[Last(s.stack).menu]

MconfItems(s) ==
    Items(s, {m \in Menus : IF s.all THEN HasPrompt(m) ELSE Visible(s, m)} \cup {Root})
NconfItems(s) ==
    Items(s, {m \in Menus : s.all \/ Visible(s, m)} \cup {Root})

------------------------------------------------------------------------------
(* Calls.                                                                  *)
Call(s, fn, menu) == [s EXCEPT !.stack = Append(@, [fn |-> fn, menu |-> menu])]
Return(s) == [s EXCEPT !.stack = Front(@)]
Running(ui) == session.ui = ui /\ session.ended = "no"
Top(ui, fn) == Running(ui) /\ session.stack # <<>> /\ Last(session.stack).fn = fn
Here == Last(session.stack).menu
MayCall == Len(session.stack) < DepthBound
Ended(s, how) == [s EXCEPT !.ended = how, !.stack = <<>>]

(* Setting a value: refused unless the symbol is visible and the value in  *)
(* range (a choice stays y, a value of a choice can only be chosen).  It   *)
(* counts as a change when it differs or the symbol had no value yet.      *)
Changed(s, conf) ==
    LET noted == [s EXCEPT !.conf = conf, !.changed = TRUE, !.forgot = FALSE, !.edits = @ + 1]
    IN  IF s.edits = EditBound THEN {} ELSE IF conf # s.conf THEN {noted} ELSE {s, noted}

SetTristate(s, m, val) ==
    IF ~Visible(s, m) THEN {s}
    ELSE IF Kind[m] = "value" /\ val = "y" THEN Changed(s, [s.conf EXCEPT ![Parent(m)] = m])
    ELSE IF Kind[m] = "choice" /\ val = "y" THEN Changed(s, s.conf)
    ELSE IF Kind[m] \in {"bool", "menuconfig"} THEN Changed(s, [s.conf EXCEPT ![m] = val])
    ELSE {s}

Toggle(s, m) ==
    SetTristate(s, m, IF Kind[m] \in {"bool", "menuconfig"} /\ s.conf[m] = "y" THEN "n" ELSE "y")

(* conf_write: the values in effect, and nothing is left to save.          *)
WriteTo(s, name) ==
    [s EXCEPT !.files = [f \in DOMAIN @ \cup {name} |-> IF f = name THEN InEffect(s.conf) ELSE @[f]],
              !.changed = FALSE, !.forgot = FALSE]
SetConfigFilename(s, name) == [s EXCEPT !.name = name]

(* conf_read of a named file clears the change count before it looks for   *)
(* the file: when there is none the values stay and the count is lost.     *)
ReadFrom(s, name) ==
    IF name \in DOMAIN s.files
    THEN [s EXCEPT !.conf = s.files[name], !.changed = FALSE, !.forgot = FALSE]
    ELSE [s EXCEPT !.changed = FALSE, !.forgot = s.changed \/ @]

------------------------------------------------------------------------------
(* conf() of mconf.c.  Opening an item, and the other keys on one.         *)
Opened(s, item) ==
    CASE item.tag = "m" /\ s.single ->
            {[s EXCEPT !.unfolded = IF item.menu \in @ THEN @ \ {item.menu} ELSE @ \cup {item.menu}]}
      [] item.tag = "m" /\ ~s.single -> {Call(s, "conf", item.menu)}
      [] item.tag = "s" -> {Call(s, "string", item.menu)}
      [] item.tag = "t" /\ Kind[item.menu] = "choice" -> {Call(s, "choice", item.menu)}
      [] item.tag = "t" /\ Kind[item.menu] = "menuconfig" -> {Call(s, "conf", item.menu)}
      [] OTHER -> {s}

Keyed(s, item) ==
    IF item.tag = "t"
    THEN Toggle(s, item.menu) \cup SetTristate(s, item.menu, "y") \cup SetTristate(s, item.menu, "n")
    ELSE IF item.tag = "m" THEN {Call(s, "conf", item.menu)}
    ELSE {s}

(* handle_exit asks when there is something to save, else the program ends.*)
HandleExit(s, fn) ==
    IF s.changed THEN [s EXCEPT !.stack = <<[fn |-> fn, menu |-> Root]>>] ELSE Ended(s, "unchanged")

LeaveMenu(s) == IF Len(s.stack) = 1 THEN HandleExit(s, "exit") ELSE Return(s)

MconfMenu ==
    /\ Top("mconf", "conf")
    /\ \/ session' = LeaveMenu(session)
       \/ \E item \in ToSet(MconfItems(session)) :
             /\ MayCall
             /\ session' \in Opened(session, item) \cup Keyed(session, item)
       \/ \E fn \in {"save", "load", "query"} : MayCall /\ session' = Call(session, fn, Here)
       \/ session' = [session EXCEPT !.all = ~@]

(* conf_choice: only visible entries are offered, a comment stays.         *)
ChoiceBox(ui) ==
    /\ Top(ui, "choice")
    /\ \/ session' = Return(session)
       \/ \E m \in ToSet(Entries[Here]) :
             /\ Kind[m] = "value" /\ Visible(session, m)
             /\ session' \in SetTristate(Return(session), m, "y")

(* conf_string: an invalid entry is asked for again; set whether or not    *)
(* the symbol is visible.                                                  *)
SetText(s, m, val) == Changed(Return(s), [s.conf EXCEPT ![m] = val])

StringBox(ui) ==
    /\ Top(ui, "string")
    /\ \/ session' = Return(session)
       \/ \E val \in Contents : session' \in SetText(session, Here, val)

(* conf_load: an empty name gives up, a file that is read counts as a      *)
(* change, a missing one asks again.                                       *)
LoadFrom(s, name) ==
    IF name \in DOMAIN s.files
    THEN Return([SetConfigFilename(ReadFrom(s, name), name) EXCEPT !.changed = TRUE])
    ELSE ReadFrom(s, name)

LoadBox(ui) ==
    /\ Top(ui, "load")
    /\ \/ session' = Return(session)
       \/ \E name \in FileNames : session' = LoadFrom(session, name)

SaveAs_NamesFirst(s, name, works) ==
    IF works THEN Return(SetConfigFilename(WriteTo(s, name), name)) ELSE SetConfigFilename(s, name)

(* conf_save: the name is taken over once the file is written; a failed    *)
(* write asks again.                                                       *)
SaveAs(s, name, works) ==
    IF works THEN Return(SetConfigFilename(WriteTo(s, name), name)) ELSE s

SaveBox(ui) ==
    /\ Top(ui, "save")
    /\ \/ session' = Return(session)
       \/ \E name \in FileNames, works \in BOOLEAN : session' = SaveAs(session, name, works)

MconfChoice == ChoiceBox("mconf")
MconfString == StringBox("mconf")
MconfLoad == LoadBox("mconf")
MconfSave == SaveBox("mconf")

(* search_conf: the results offer a jump to every visible location of an   *)
(* entry below a menu: to the entry, or to the nearest menu above it that  *)
(* is visible.  When that menu is left, the results are shown again.       *)
Location(s, m) ==
    LET above[n \in Menus] ==
            IF n = Root THEN {} ELSE IF Visible(s, n) THEN {n} ELSE above[Parent(n)]
    IN  above[m]

Targets(s) ==
    UNION {LET above == Location(s, Parent(m))
           IN  IF above = {} THEN {} ELSE IF Visible(s, m) THEN {m} ELSE above :
             m \in {m \in Settings : HasPrompt(m)}}

MconfSearch ==
    \/ /\ Top("mconf", "query")
       /\ \/ session' = Return(session)
          \/ session' = Call(Return(session), "results", Here)
    \/ /\ Top("mconf", "results")
       /\ \/ session' = Return(session)
          \/ \E target \in Targets(session) : MayCall /\ session' = Call(session, "conf", Parent(target))

(* The answers to handle_exit, and to the one called from the handler of   *)
(* SIGINT, where ESC ends the program as well.  A terminal too small for   *)
(* the question counts as "no".                                            *)
Saved(s, works) ==
    IF works THEN Ended(WriteTo(s, s.name), "saved") ELSE Ended(s, "failed")

MconfExit ==
    \/ /\ Top("mconf", "exit")
       /\ session' = [session EXCEPT !.stack = <<[fn |-> "conf", menu |-> Root]>>]
    \/ \E fn \in {"exit", "sigexit"} :
          /\ Top("mconf", fn)
          /\ \/ \E works \in BOOLEAN : session' = Saved(session, works)
             \/ session' = Ended(session, "discarded")

Interrupt ==
    /\ Running("mconf") /\ ~Top("mconf", "sigexit")
    /\ session' = HandleExit(session, "sigexit")

------------------------------------------------------------------------------
(* conf() of nconf.c: an item that is only listed because everything is    *)
(* does nothing, Enter also toggles a feature without entries, and the     *)
(* root is only left with ESC.                                             *)
NconfMenu ==
    /\ Top("nconf", "conf")
    /\ \/ session' = LeaveMenu(session)
       \/ \E item \in ToSet(NconfItems(session)) :
             /\ MayCall /\ Visible(session, item.menu)
             /\ session' \in Opened(session, item) \cup Keyed(session, item)

(* The function keys.                                                      *)
HandleF4 == \E all \in BOOLEAN : session' = [session EXCEPT !.all = all]
HandleF5 == Here # Root /\ session' = Return(session)
HandleF6 == MayCall /\ session' = Call(session, "save", Here)
HandleF7 == MayCall /\ session' = Call(session, "load", Here)
HandleF8 == MayCall /\ session' = Call(session, "query", Here)

(* do_exit from the middle of a session: ESC goes on where it was.         *)
HandleF9 ==
    IF session.changed THEN MayCall /\ session' = Call(session, "exit", Root)
    ELSE session' = Ended(session, "unchanged")

NconfKeys ==
    /\ Top("nconf", "conf") \/ Top("nconf", "choice")
    /\ HandleF4 \/ HandleF5 \/ HandleF6 \/ HandleF7 \/ HandleF8 \/ HandleF9

NconfChoice == ChoiceBox("nconf")
NconfString == StringBox("nconf")
NconfLoad == LoadBox("nconf")
NconfSave == SaveBox("nconf")

(* The results of a search are only text.                                  *)
NconfSearch ==
    /\ Top("nconf", "query")
    /\ session' = Return(session)

(* A session whose save failed ends like one that saved.                   *)
NconfExit ==
    /\ Top("nconf", "exit")
    /\ \/ session' = IF Len(session.stack) = 1
                     THEN [session EXCEPT !.stack = <<[fn |-> "conf", menu |-> Root]>>]
                     ELSE Return(session)
       \/ \E works \in BOOLEAN : session' = Saved(session, works)
       \/ session' = Ended(session, "discarded")

------------------------------------------------------------------------------
(* main: the configuration is read, or every symbol has its default.       *)
OpenSession(ui, files, single) ==
    LET conf == IF ".config" \in DOMAIN files THEN files[".config"] ELSE [s \in Settings |-> Default[s]]
    IN  [ui |-> ui, stack |-> <<[fn |-> "conf", menu |-> Root]>>, conf |-> conf, files |-> files,
         name |-> ".config", changed |-> ".config" \notin DOMAIN files \/ InEffect(conf) # conf,
         forgot |-> FALSE, all |-> FALSE, single |-> single, unfolded |-> {}, edits |-> 0,
         ended |-> "no"]

MconfStart(files, single) == OpenSession("mconf", files, single)
NconfStart(files, single) == OpenSession("nconf", files, single)

SessionInit ==
    \E files \in StartFiles, single \in BOOLEAN :
        session \in {MconfStart(files, single), NconfStart(files, single)}

SessionNext ==
    \/ MconfMenu \/ MconfChoice \/ MconfString \/ MconfLoad \/ MconfSave \/ MconfSearch
    \/ MconfExit \/ Interrupt
    \/ NconfMenu \/ NconfKeys \/ NconfChoice \/ NconfString \/ NconfLoad \/ NconfSave
    \/ NconfSearch \/ NconfExit

SessionSpec == SessionInit /\ [][SessionNext]_session

(* Whenever a front end has nothing to save, and whenever it ends as if    *)
(* all was well, the file it would have saved to holds the values in       *)
(* effect.  Excepted: changes that conf_read forgot when the file to load  *)
(* was missing.                                                            *)
Stored(s) == s.name \in DOMAIN s.files /\ s.files[s.name] = InEffect(s.conf)

ExitLosesNothing ==
    session.ui # "none" =>
        /\ (session.ended \in {"unchanged", "saved"}) => Stored(session) \/ session.forgot
        /\ ~session.changed => Stored(session) \/ session.forgot
==============================================================================
