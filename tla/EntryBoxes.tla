------------------------------ MODULE EntryBoxes ------------------------------
(***************************************************************************)
(* The boxes of the Kconfig front ends that take a text or an answer: the  *)
(* input box and the yes/no box of menuconfig (lxdialog/inputbox.c,        *)
(* lxdialog/yesno.c), the input box and the button box of nconfig          *)
(* (nconf.gui.c).  The text is a sequence of letters; the cursor is a      *)
(* position in it and a column of the field, which shows a part of it.     *)
(***************************************************************************)
EXTENDS Integers, Sequences

CONSTANTS
    Texts,      \* the texts a box may be opened on
    Chars,      \* the printable characters
    Width,      \* the columns of the field (box_width, prompt_width)
    TextBound   \* the longest text explored (MAX_LEN in inputbox.c)

ASSUME WidthAssumption == Width \in Nat \ {0}
ASSUME TextBoundAssumption == TextBound \in Nat
(* inputbox.c copies the text it starts from into its buffer unchecked.    *)
ASSUME TextsAssumption == \A t \in Texts : t \in Seq(Chars) /\ Len(t) <= TextBound

VARIABLE entry

NoEntry == [kind |-> "none"]
Least(a, b) == IF a < b THEN a ELSE b
Asked(e, kind) == e.kind = kind /\ e.answer = "open"

(* The part of the text in the field, from the character at show_x on.     *)
Without(text, k) == SubSeq(text, 1, k - 1) \o SubSeq(text, k + 1, Len(text))
With(text, k, c) == SubSeq(text, 1, k) \o <<c>> \o SubSeq(text, k + 1, Len(text))

------------------------------------------------------------------------------
(* dialog_inputbox of lxdialog, from do_resize on: the cursor goes to the  *)
(* end of the text and the field shows the tail.  button is -1 in the      *)
(* field, 0 on Ok, 1 on Help, and a resize leaves it alone.                *)
SetUpInput(e) ==
    LET len == Len(e.text)
    IN  [e EXCEPT !.pos = len,
                  !.show = IF len >= Width THEN len - Width + 1 ELSE 0,
                  !.col = IF len >= Width THEN Width - 1 ELSE len]

FreshInput(text) ==
    SetUpInput([kind |-> "input", answer |-> "open", text |-> text, pos |-> 0, show |-> 0,
                col |-> 0, button |-> -1])

MoveLeft(e) ==
    [e EXCEPT !.pos = @ - 1, !.show = IF e.col = 0 THEN @ - 1 ELSE @,
              !.col = IF @ > 0 THEN @ - 1 ELSE @]
MoveRight(e) ==
    [e EXCEPT !.pos = @ + 1, !.show = IF e.col = Width - 1 THEN @ + 1 ELSE @,
              !.col = IF @ < Width - 1 THEN @ + 1 ELSE @]

Backspace_KeepsView(e) == [e EXCEPT !.text = Without(@, e.pos), !.pos = @ - 1,
                                    !.col = IF @ > 0 THEN @ - 1 ELSE @]
Backspace(e) == [MoveLeft(e) EXCEPT !.text = Without(@, e.pos)]
Insert(e, c) == [MoveRight(e) EXCEPT !.text = With(@, e.pos, c)]

InputKeys ==
    /\ Asked(entry, "input") /\ entry.button = -1
    /\ \/ entry.pos > 0 /\ entry' = Backspace(entry)
       \/ entry.pos > 0 /\ entry' = MoveLeft(entry)
       \/ entry.pos < Len(entry.text) /\ entry' = MoveRight(entry)
       \/ \E c \in Chars :
             /\ Len(entry.text) < TextBound
             /\ entry' = Insert(entry, c)

(* TAB and the arrows go round the field, Ok and Help.                     *)
InputButtons ==
    /\ Asked(entry, "input")
    /\ \/ entry' = [entry EXCEPT !.button = IF @ = 1 THEN -1 ELSE @ + 1]
       \/ entry' = [entry EXCEPT !.button = IF @ = -1 THEN 1 ELSE @ - 1]

(* Enter answers Ok from the field; o, h and x are answers on the buttons. *)
InputAnswers ==
    /\ Asked(entry, "input")
    /\ \/ entry' = [entry EXCEPT !.answer = IF entry.button = 1 THEN "help" ELSE "ok"]
       \/ entry.button # -1 /\ \E a \in {"ok", "help", "esc"} : entry' = [entry EXCEPT !.answer = a]
       \/ entry' = [entry EXCEPT !.answer = "esc"]

InputResizes ==
    /\ Asked(entry, "input")
    /\ entry' = SetUpInput(entry)

------------------------------------------------------------------------------
(* dialog_inputbox of nconf.gui.c: the result grows as needed, the field   *)
(* shows it from cursor_position - cursor_form_win on, and after every key *)
(* the column is brought back into the field.                              *)
FreshForm(text) ==
    [kind |-> "form", answer |-> "open", text |-> text, pos |-> Len(text),
     col |-> Least(Len(text), Width - 1)]

InField(e) ==
    [e EXCEPT !.col = IF @ < 0 THEN 0 ELSE IF @ > Width - 1 THEN Width - 1 ELSE @]
Step(e, k) == [e EXCEPT !.pos = @ + k, !.col = @ + k]

FormKeys ==
    /\ Asked(entry, "form")
    /\ \/ entry.pos > 0 /\ entry' = InField(Step([entry EXCEPT !.text = Without(@, entry.pos)], -1))
       \/ /\ entry.pos < Len(entry.text)
          /\ entry' = InField([entry EXCEPT !.text = Without(@, entry.pos + 1)])
       \/ entry.pos < Len(entry.text) /\ entry' = InField(Step(entry, 1))
       \/ entry.pos > 0 /\ entry' = InField(Step(entry, -1))
       \/ entry' = [entry EXCEPT !.pos = 0, !.col = 0]
       \/ entry' = [entry EXCEPT !.pos = Len(entry.text), !.col = Least(Len(entry.text), Width - 1)]
       \/ \E c \in Chars :
             /\ Len(entry.text) < TextBound
             /\ entry' = InField(Step([entry EXCEPT !.text = With(@, entry.pos, c)], 1))

FormAnswers ==
    /\ Asked(entry, "form")
    /\ \E a \in {"ok", "help", "esc"} : entry' = [entry EXCEPT !.answer = a]

------------------------------------------------------------------------------
(* dialog_yesno and btn_dialog: two buttons, the first highlighted.  The   *)
(* arrows of yesno.c wrap around, those of nconfig do not, and a resize of *)
(* yesno.c highlights the first button but keeps the current one (drawn).  *)
FreshQuestion(kind) == [kind |-> kind, answer |-> "open", button |-> 0, drawn |-> 0, resized |-> FALSE]

YesNoKeys ==
    /\ Asked(entry, "yesno")
    /\ \/ entry' = [entry EXCEPT !.button = 1 - @, !.drawn = 1 - entry.button, !.resized = FALSE]
       \/ entry' = [entry EXCEPT !.drawn = 0, !.resized = TRUE]
       \/ \E a \in {"yes", "no", "esc", IF entry.button = 0 THEN "yes" ELSE "no"} :
             entry' = [entry EXCEPT !.answer = a]

ButtonKeys ==
    /\ Asked(entry, "buttons")
    /\ \/ \E b \in {0, 1} : entry' = [entry EXCEPT !.button = b, !.drawn = b]
       \/ \E a \in {IF entry.button = 0 THEN "yes" ELSE "no", "esc"} : entry' = [entry EXCEPT !.answer = a]

------------------------------------------------------------------------------
EntryInit ==
    \/ \E text \in Texts : entry \in {FreshInput(text), FreshForm(text)}
    \/ entry \in {FreshQuestion("yesno"), FreshQuestion("buttons")}

EntryNext ==
    \/ InputKeys \/ InputButtons \/ InputAnswers \/ InputResizes
    \/ FormKeys \/ FormAnswers
    \/ YesNoKeys \/ ButtonKeys

EntrySpec == EntryInit /\ [][EntryNext]_entry

(* The column the cursor is on shows the character the next key acts on:   *)
(* the field starts inside the text, the cursor stays inside the field and *)
(* the text, and a question highlights the button it would answer.         *)
CursorOnItsChar ==
    /\ entry.kind = "input" =>
           /\ entry.show >= 0 /\ entry.col \in 0 .. Width - 1
           /\ entry.pos = entry.show + entry.col
           /\ entry.pos \in 0 .. Len(entry.text)
           /\ Len(entry.text) <= TextBound
    /\ entry.kind = "form" =>
           /\ entry.pos \in 0 .. Len(entry.text)
           /\ entry.col \in 0 .. Width - 1
           /\ entry.pos - entry.col >= 0
    /\ (entry.kind \in {"yesno", "buttons"} /\ ~entry.resized) => entry.drawn = entry.button
==============================================================================
