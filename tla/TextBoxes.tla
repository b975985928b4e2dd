------------------------------ MODULE TextBoxes ------------------------------
(***************************************************************************)
(* The text windows of the Kconfig front ends: the text box of menuconfig  *)
(* (lxdialog/textbox.c) with the search results of mconf.c, whose visible  *)
(* locations carry a key that jumps to them, and the scrolled window of    *)
(* nconfig (nconf.gui.c).                                                  *)
(*                                                                         *)
(* A text is its number of lines, whether its last line ends with a        *)
(* newline (whole), and the lines that hold a jump location.  page is the  *)
(* line the pointer of the same name is at, lines being the final '\0';    *)
(* top is the first line on the screen.                                    *)
(***************************************************************************)
EXTENDS Integers, Sequences, FiniteSets

CONSTANTS
    PageTexts,  \* records [lines, whole, places], places the increasing jump lines
    Rows,       \* the numbers of rows of the window (boxh)
    JumpNb,     \* JUMP_NB, the keys there are (9 in the code)
    SideBound   \* the columns of horizontal scrolling explored

ASSUME JumpNbAssumption == JumpNb \in Nat \ {0}
ASSUME PageTextsAssumption ==
    \A t \in PageTexts : /\ t.lines \in Nat \ {0} /\ t.whole \in BOOLEAN
                         /\ t.places \in Seq(0 .. t.lines - 1)
                         /\ \A i, j \in 1 .. Len(t.places) : i <= j => t.places[i] <= t.places[j]
ASSUME RowsAssumption == Rows \subseteq Nat

VARIABLE text

NoText == [kind |-> "none"]
IsOpen(kind) == text.kind = kind /\ text.phase = "open"

------------------------------------------------------------------------------
(* get_line moves to the next line, or stays at the end and notes it.      *)
GetLine(b) ==
    LET last == IF b.text.whole THEN b.text.lines ELSE b.text.lines - 1
    IN  [b EXCEPT !.page = IF @ < b.text.lines THEN @ + 1 ELSE @, !.end = b.page >= last]

GetLines(b, k) ==
    LET after[i \in 0 .. k] == IF i = 0 THEN b ELSE GetLine(after[i - 1])
    IN  after[k]

(* back_lines: with end_reached at the '\0' the first line back is the end *)
(* itself, even when the last line is not an empty one.                    *)
BackLine(b) ==
    IF b.page = b.text.lines /\ b.end THEN [b EXCEPT !.end = FALSE]
    ELSE IF b.page <= 1 THEN [b EXCEPT !.page = 0, !.begin = TRUE]
    ELSE [b EXCEPT !.page = @ - 1]

BackLines(b, k) ==
    LET n == IF k < 0 THEN 0 ELSE k
        after[i \in 0 .. n] ==
            IF i = 0 THEN [b EXCEPT !.begin = FALSE]
            ELSE IF after[i - 1].begin THEN after[i - 1] ELSE BackLine(after[i - 1])
    IN  after[n]

UpdateText_Appends(b, start, end) ==
    LET here    == {i \in DOMAIN b.text.places : b.text.places[i] \in start .. end - 1}
        order(i) == Cardinality({j \in here : j < i})
        first   == {i \in here : order(i) < JumpNb}
    IN  [b EXCEPT !.header = [i \in DOMAIN @ |-> IF i \in first THEN ((i - 1) % JumpNb) + 1 ELSE @[i]],
                  !.keys = @ \cup {<<((i - 1) % JumpNb) + 1, i>> : i \in first}]

(* update_text writes into each location of the page the key that jumps to *)
(* it, JUMP_NB of them at most, and remembers key and target.              *)
UpdateText(b, start, end) ==
    LET here    == {i \in DOMAIN b.text.places : b.text.places[i] \in start .. end - 1}
        order(i) == Cardinality({j \in here : j < i})
        first   == {i \in here : order(i) < JumpNb}
    IN  [b EXCEPT !.header = [i \in DOMAIN @ |-> IF i \notin here THEN @[i]
                                                 ELSE IF i \in first THEN ((i - 1) % JumpNb) + 1
                                                 ELSE 0],
                  !.keys = {<<((i - 1) % JumpNb) + 1, i>> : i \in first}]

(* print_page: for the search results the page is first walked through and *)
(* back, so that a full page is shown; then it is printed line by line and *)
(* page_length counts the lines up to the end of the text.  A window       *)
(* without rows prints nothing and leaves end_reached as it was.           *)
Walked(b) ==
    IF ~b.results THEN b
    ELSE LET ahead == GetLines(b, b.rows)
             back  == BackLines(ahead, b.rows)
         IN  UpdateText(back, back.page, ahead.page)

PrintPage(b) ==
    LET from == Walked(b)
        printed[i \in 0 .. b.rows] ==
            IF i = 0 THEN [from EXCEPT !.len = 0, !.end = @ /\ b.rows = 0]
            ELSE LET c == printed[i - 1]
                 IN  IF c.end THEN c ELSE [GetLine(c) EXCEPT !.len = @ + 1]
    IN  [printed[b.rows] EXCEPT !.top = from.page]

(* A call of dialog_textbox: the saved vertical position is counted off    *)
(* from the start.                                                         *)
OpenText(t, results, rows, vscroll) ==
    LET start == [kind |-> "text", phase |-> "open", text |-> t, results |-> results,
                  rows |-> rows, page |-> 0, begin |-> vscroll = 0, end |-> FALSE, len |-> 0,
                  top |-> 0, side |-> 0, vscroll |-> vscroll, keys |-> {}, target |-> 0,
                  header |-> [i \in DOMAIN t.places |-> 0]]
    IN  PrintPage(GetLines(start, vscroll))

------------------------------------------------------------------------------
TextHome ==
    /\ IsOpen("text") /\ ~text.begin
    /\ text' = PrintPage([text EXCEPT !.begin = TRUE, !.page = 0])

TextEnd ==
    /\ IsOpen("text")
    /\ text' = PrintPage(BackLines([text EXCEPT !.end = TRUE, !.page = text.text.lines], text.rows))

TextUp ==
    /\ IsOpen("text") /\ ~text.begin
    /\ \E k \in {1, text.rows} : text' = PrintPage(BackLines(text, text.len + k))

TextDown ==
    /\ IsOpen("text") /\ ~text.end
    /\ \/ text' = PrintPage(BackLines(text, text.len - 1))
       \/ text' = PrintPage([text EXCEPT !.begin = FALSE])

(* Scrolling left and right prints the current page again.                 *)
TextSideways ==
    /\ IsOpen("text")
    /\ \E side \in ({text.side - 1, text.side + 1, 0} \ {text.side}) \cap 0 .. SideBound :
          text' = PrintPage(BackLines([text EXCEPT !.side = side], text.len))

(* The page goes back by the height of the whole box, four more than rows. *)
TextResizes ==
    /\ IsOpen("text")
    /\ \E rows \in Rows :
          text' = PrintPage([BackLines(text, text.rows + 4) EXCEPT !.rows = rows])

(* The vertical position is the line of the page shown; of the keys of the *)
(* page one may close the box, else one of the usual keys.                 *)
TextCloses ==
    /\ IsOpen("text")
    /\ \E target \in {0} \cup {k[2] : k \in text.keys} :
          text' = [text EXCEPT !.phase = "closed", !.target = target,
                               !.vscroll = BackLines(text, text.len).page]

(* search_conf: after a jump the menu is left again and the results are    *)
(* made and shown anew; values that changed may have changed their lines.  *)
ResultsAgain ==
    /\ text.kind = "text" /\ text.phase = "closed" /\ text.target # 0
    /\ \E t \in PageTexts, rows \in Rows :
          /\ t.whole
          /\ text' = OpenText(t, TRUE, rows, text.vscroll)

------------------------------------------------------------------------------
(* show_scroll_win of nconf.gui.c: total lines with the one after the last *)
(* newline, size of them on the screen.                                    *)
OpenPad(total, room) ==
    [kind |-> "pad", phase |-> "open", total |-> total, y |-> 0,
     size |-> IF total < room THEN total ELSE room]

PadMoves ==
    /\ IsOpen("pad")
    /\ \E y \in {text.y + text.size - 2, text.y - (text.size + 2), 0, text.total - text.size,
                 text.y + 1, text.y - 1} :
          LET low == IF y < 0 THEN 0 ELSE y
          IN  text' = [text EXCEPT !.y = IF low >= text.total - text.size
                                         THEN text.total - text.size ELSE low]

PadCloses ==
    /\ IsOpen("pad")
    /\ text' = NoText

------------------------------------------------------------------------------
TextInit ==
    \E t \in PageTexts, rows \in Rows :
        \/ \E results \in {FALSE, t.whole} : text = OpenText(t, results, rows, 0)
        \/ text = OpenPad(IF t.whole THEN t.lines + 1 ELSE t.lines, rows)

TextNext ==
    \/ TextHome \/ TextEnd \/ TextUp \/ TextDown \/ TextSideways \/ TextResizes
    \/ TextCloses \/ ResultsAgain
    \/ PadMoves \/ PadCloses

TextSpec == TextInit /\ [][TextNext]_text

OnScreen(b, i) == b.text.places[i] \in b.top .. b.top + b.rows - 1

(* A key the results answer to is shown on the screen, once, at the place  *)
(* it jumps to, and every key shown there is answered.                     *)
KeysShown ==
    (text.kind = "text" /\ text.results /\ text.phase = "open") =>
        /\ \A k \in text.keys : OnScreen(text, k[2]) /\ text.header[k[2]] = k[1]
        /\ \A i \in DOMAIN text.header :
              (OnScreen(text, i) /\ text.header[i] # 0) => <<text.header[i], i>> \in text.keys
        /\ \A j, k \in text.keys : j[1] = k[1] => j = k
        /\ \A i \in DOMAIN text.header :
              (OnScreen(text, i) /\ text.header[i] = 0) => Cardinality(text.keys) = JumpNb

(* The window never starts before the text or after its end, and the text  *)
(* of a pad cannot be scrolled out of its window.                          *)
PageInText ==
    /\ text.kind = "text" => /\ text.top \in 0 .. text.text.lines
                             /\ text.begin => text.top = 0
                             /\ text.len <= text.rows /\ (text.rows # 0 => text.len # 0)
    /\ text.kind = "pad" => text.y \in 0 .. text.total - text.size

(* Scrolling sideways shows the same page of a text that ends in a         *)
(* newline, and the results come back, if they did not change, to the page *)
(* the jump left.                                                          *)
SamePage ==
    /\ (text.kind = "text" /\ text'.kind = "text" /\ text.phase = "open" /\ text'.phase = "open"
        /\ text.text.whole /\ text.side # text'.side) => text'.top = text.top
    /\ (text.kind = "text" /\ text.phase = "closed" /\ text'.text = text.text
        /\ text'.rows = text.rows) => text'.top = text.top

TextFollows == [](KeysShown /\ PageInText) /\ [][SamePage]_text
==============================================================================
