------------------------------ MODULE ListBoxes ------------------------------
(***************************************************************************)
(* The three lists of the Kconfig front ends: the menu box of menuconfig   *)
(* (lxdialog/menubox.c), its radio list (lxdialog/checklist.c) and the     *)
(* menu window of nconfig with its incremental search (nconf.c).  A call   *)
(* is one life of the box: it is opened on a list of items, handles keys   *)
(* and the resizing of the terminal, and answers; the caller changes the   *)
(* configuration, rebuilds the list and opens the box again.               *)
(*                                                                         *)
(* The variable box holds the locals of the open call, what the screen     *)
(* shows (rows: the item drawn on each row, lit: the highlighted rows,     *)
(* drawn: the highlighted button) and what outlives the call.  Items are   *)
(* numbers from 0; a name only matters by the letter it answers to and by  *)
(* the patterns it contains.  Colours, borders and positions are left out. *)
(***************************************************************************)
EXTENDS Integers, Sequences, FiniteSets

CONSTANTS
    Counts,     \* the numbers of items a rebuilt list may have
    Heights,    \* the numbers of rows the window may have
    Name,       \* the letters of each item, a function on 0 .. Max(Counts) - 1
    Letters     \* the letters of the keyboard

ASSUME CountsAssumption == Counts \subseteq Nat
ASSUME HeightsAssumption == Heights \subseteq Nat \ {0}

VARIABLE box

None == -1
Endless == -2       \* a search that never comes back
Divides == -3       \* a search in an empty menu
Smaller(a, b) == IF a < b THEN a ELSE b
Larger(a, b) == IF a > b THEN a ELSE b
MaxChoice(b) == Smaller(b.height, b.n)      \* rows that hold an item
Buttons(kind) == IF kind = "menu" THEN 5 ELSE 2

NoBox == [kind |-> "none", phase |-> "closed"]

(* A fresh call: the locals of the function at its entry.                  *)
Fresh(kind, n, height, active, saved) ==
    [kind |-> kind, phase |-> "open", n |-> n, height |-> height, active |-> active,
     saved |-> saved, scroll |-> 0, choice |-> 0, first |-> 0, button |-> 0, drawn |-> 0,
     rows |-> <<>>, lit |-> {}, code |-> None, item |-> None, torn |-> FALSE, fresh |-> TRUE]

------------------------------------------------------------------------------
(* Drawing: print_item draws item scroll + r on row r; an item number past *)
(* the list leaves item_cur NULL and item_str() reads through it.          *)
Put(b, r, on) ==
    IF b.scroll + r >= b.n
    THEN [b EXCEPT !.phase = IF b.n = 0 THEN @ ELSE "crashed"]
    ELSE [b EXCEPT !.rows[r] = b.scroll + r,
                   !.lit = IF on THEN @ \cup {r} ELSE @ \ {r}]

(* wscrl: the drawn rows and their highlighting move k lines up.           *)
DoScroll(b, k) ==
    [b EXCEPT !.scroll = @ + k,
              !.rows = [r \in DOMAIN @ |-> IF r + k \in DOMAIN @ THEN @[r + k] ELSE None],
              !.lit = {r - k : r \in @} \cap DOMAIN b.rows]

PrintButtons(b, k) == [b EXCEPT !.drawn = k]
DrawRows(b, from) ==
    IF from + MaxChoice(b) > b.n
    THEN [b EXCEPT !.phase = "crashed"]
    ELSE [b EXCEPT !.rows = [r \in 0 .. MaxChoice(b) - 1 |-> from + r],
                   !.lit = {b.choice} \cap (0 .. MaxChoice(b) - 1)]

(* The scroll indicators: (-) above and (+) below the window.              *)
UpArrow(b) == b.scroll > 0
DownArrow(b) ==
    /\ b.height < b.n
    /\ b.scroll + b.height < b.n

------------------------------------------------------------------------------
(* dialog_menu, from do_resize on: the default item, the saved scroll      *)
(* position if it still shows that item, else the item in the middle.      *)
(* first_item is only assigned where a position is accepted or computed.   *)
SetUpMenu(b) ==
    LET max    == MaxChoice(b)
        wanted == IF b.active # None THEN b.active ELSE b.choice
        keep   == /\ b.saved <= wanted /\ wanted < b.saved + max
                  /\ b.saved >= 0 /\ b.saved + max <= b.n
        scroll == IF keep THEN b.saved ELSE 0
        choice == wanted - scroll
        middle == IF choice >= b.n - max \div 2 THEN b.n - max ELSE choice - max \div 2
        placed == IF choice < max
                  THEN [b EXCEPT !.scroll = scroll, !.choice = choice,
                                 !.first = IF keep THEN scroll ELSE @]
                  ELSE [b EXCEPT !.scroll = middle, !.choice = choice - middle,
                                 !.first = middle]
    IN  PrintButtons(DrawRows([placed EXCEPT !.torn = placed.first # placed.scroll],
                              placed.first), 0)

(* dialog_checklist: the item marked selected, else the chosen one; a      *)
(* resize keeps scroll and choice, which are local to the first set-up.    *)
SetUpList(b) ==
    LET wanted == IF b.fresh /\ b.active # None THEN b.active ELSE b.choice
        over   == IF wanted >= b.height THEN wanted - b.height + 1 ELSE 0
        placed == [b EXCEPT !.scroll = @ + over, !.choice = wanted - over]
    IN  PrintButtons(DrawRows(placed, placed.scroll), 0)

(* A key that moves the highlight first takes it off the current row and   *)
(* puts it on the row the key leads to.                                    *)
Dim(b)    == Put(b, b.choice, FALSE)
Bright(b) == Put(b, b.choice, TRUE)

MenuUp(b) ==
    IF b.choice < 2 /\ b.scroll # 0
    THEN Put(DoScroll(b, -1), 0, FALSE)
    ELSE [b EXCEPT !.choice = Larger(@ - 1, 0)]

MenuDown_Off(b) ==
    IF b.choice > MaxChoice(b) - 3 /\ b.scroll + MaxChoice(b) <= b.n
    THEN Put(DoScroll(b, 1), MaxChoice(b) - 1, FALSE)
    ELSE [b EXCEPT !.choice = Smaller(@ + 1, MaxChoice(b) - 1)]

MenuDown(b) ==
    IF b.choice > MaxChoice(b) - 3 /\ b.scroll + MaxChoice(b) < b.n
    THEN Put(DoScroll(b, 1), MaxChoice(b) - 1, FALSE)
    ELSE [b EXCEPT !.choice = Smaller(@ + 1, MaxChoice(b) - 1)]

MenuPageUp(b) ==
    LET after[k \in 0 .. MaxChoice(b)] ==
            IF k = 0 THEN b
            ELSE LET c == after[k - 1]
                 IN  IF c.scroll > 0 THEN Put(DoScroll(c, -1), 0, FALSE)
                     ELSE [c EXCEPT !.choice = Larger(@ - 1, 0)]
    IN  after[MaxChoice(b)]

MenuPageDown(b) ==
    LET last == MaxChoice(b) - 1
        after[k \in 0 .. MaxChoice(b)] ==
            IF k = 0 THEN b
            ELSE LET c == after[k - 1]
                 IN  IF c.scroll + MaxChoice(c) < c.n THEN Put(DoScroll(c, 1), last, FALSE)
                     ELSE [c EXCEPT !.choice = Smaller(@ + 1, last)]
    IN  after[MaxChoice(b)]

(* The next visible item, cyclically, whose first letter is the key.       *)
HotRow(b, letter) ==
    LET hits  == {r \in 0 .. MaxChoice(b) - 1 : Name[b.scroll + r][1] = letter}
        below == {r \in hits : r > b.choice}
        least(S) == CHOOSE r \in S : \A q \in S : r <= q
    IN  IF below # {} THEN least(below) ELSE IF hits # {} THEN least(hits) ELSE None

ListHotRow(b, letter) ==
    LET hits == {r \in 0 .. MaxChoice(b) - 1 : Name[b.scroll + r][1] = letter}
    IN  IF hits = {} THEN None ELSE CHOOSE r \in hits : \A q \in hits : r <= q

------------------------------------------------------------------------------
Open(kind) == box.kind = kind /\ box.phase = "open"
Touched(b) == [b EXCEPT !.fresh = FALSE]

MenuMoves ==
    /\ Open("menu") /\ box.n # 0
    /\ \/ box' = Touched(Bright(MenuUp(Dim(box))))
       \/ box' = Touched(Bright(MenuDown(Dim(box))))
       \/ box' = Touched(Bright(MenuPageUp(Dim(box))))
       \/ box' = Touched(Bright(MenuPageDown(Dim(box))))
       \/ \E letter \in Letters :
             /\ HotRow(box, letter) # None
             /\ box' = Touched(Bright([Dim(box) EXCEPT !.choice = HotRow(box, letter)]))

(* TAB and the left and right arrows cycle through the buttons.            *)
Buttoned(b, step) ==
    PrintButtons([b EXCEPT !.button = (@ + step + Buttons(b.kind)) % Buttons(b.kind)],
                 (b.button + step + Buttons(b.kind)) % Buttons(b.kind))

CycleButtons ==
    /\ box.kind \in {"menu", "list"} /\ box.phase = "open"
    /\ \E step \in {-1, 1} : box' = Touched(Buttoned(box, step))

(* Enter answers the button (0 select, 1 exit, 2 help, 3 save, 4 load);    *)
(* the other keys a code of their own, s only when it is no hotkey.        *)
MenuAnswers ==
    /\ Open("menu")
    /\ \E code \in {box.button, 2, 6, 7, 8, 9, 10}
                    \cup {5 : x \in {x \in {"s"} : HotRow(box, x) = None}} :
          box' = [box EXCEPT !.phase = "answered", !.code = code, !.fresh = FALSE,
                             !.saved = box.scroll,
                             !.item = IF box.n = 0 THEN None ELSE box.scroll + box.choice]

(* A double ESC, or e or x when they are no hotkey; a single ESC does not. *)
Escapes ==
    /\ box.kind \in {"menu", "list"} /\ box.phase = "open"
    /\ box' = NoBox

(* The box is drawn anew: in menubox.c from the selected item and the      *)
(* scroll position of the last call, in checklist.c where it is.  Both     *)
(* draw the first button as the highlighted one.                           *)
Resizes ==
    /\ box.kind \in {"menu", "list"} /\ box.phase = "open"
    /\ \E height \in Heights :
          /\ box.kind = "list" => height = box.height
          /\ box' = IF box.kind = "menu" THEN SetUpMenu(Touched([box EXCEPT !.height = height]))
                    ELSE SetUpList(Touched(box))

ListUp(b) ==
    IF b.choice # 0 THEN Bright([Dim(b) EXCEPT !.choice = @ - 1])
    ELSE IF b.scroll = 0 THEN b
    ELSE Put(DoScroll(Put(b, 0, FALSE), -1), 0, TRUE)

ListDown(b) ==
    IF b.choice # MaxChoice(b) - 1 THEN Bright([Dim(b) EXCEPT !.choice = @ + 1])
    ELSE IF b.scroll + b.choice >= b.n - 1 THEN b
    ELSE Put(DoScroll(Put(b, MaxChoice(b) - 1, FALSE), 1), MaxChoice(b) - 1, TRUE)

ListMoves ==
    /\ Open("list") /\ box.n # 0
    /\ \/ box' = Touched(ListUp(box))
       \/ box' = Touched(ListDown(box))
       \/ \E letter \in Letters :
             /\ ListHotRow(box, letter) \notin {None, box.choice}
             /\ box' = Touched(Bright([Dim(box) EXCEPT !.choice = ListHotRow(box, letter)]))

ListAnswers ==
    /\ Open("list")
    /\ \E code \in {box.button, 1} :
          box' = [box EXCEPT !.phase = "answered", !.code = code, !.fresh = FALSE,
                             !.item = IF box.n = 0 THEN None ELSE box.scroll + box.choice]

------------------------------------------------------------------------------
(* The menu window of nconfig is a menu of the curses library, which keeps *)
(* the current item (cur) and the top row (top); conf() keeps the place to *)
(* return to (index, last) and the state of the incremental search.        *)
FreshMenu(n, height, index, last, search) ==
    [kind |-> "nmenu", phase |-> "open", n |-> n, height |-> height, index |-> index,
     last |-> last, cur |-> 0, top |-> 0, search |-> search, fresh |-> TRUE]

NotSearching == [on |-> FALSE, step |-> 0, up |-> FALSE, pattern |-> <<>>]

(* The library keeps the current item inside the window, and refuses a top *)
(* row that would leave empty rows below the last item.                    *)
AtItem(b, item) ==
    [b EXCEPT !.cur = item,
              !.top = IF item < @ THEN item
                      ELSE IF item >= @ + b.height THEN item - b.height + 1 ELSE @]
SetTopRow(b, row) ==
    IF row \in 0 .. Larger(b.n - b.height, 0) /\ row # b.top
    THEN [b EXCEPT !.top = row, !.cur = row] ELSE b
SetCurrentItem(b, item) == IF item \in 0 .. b.n - 1 THEN AtItem(b, item) ELSE b

(* center_item: the remembered top row if the item is in that window, else *)
(* the item in the middle.                                                 *)
CenterItem(b, item) ==
    LET kept    == SetTopRow(b, b.last)
        visible == item >= kept.top /\ item < kept.top + b.height
        middle  == Larger(item - b.height \div 2, 0)
        toprow  == IF visible THEN kept.top
                   ELSE IF middle >= b.n - b.height THEN b.n - b.height ELSE middle
    IN  [SetCurrentItem(IF visible THEN kept ELSE SetTopRow(kept, toprow), item)
            EXCEPT !.last = toprow]

ShowMenu(b) == CenterItem(b, b.index)

NameHas(name, pattern) ==
    \E k \in 0 .. Len(name) - Len(pattern) :
        \A i \in 1 .. Len(pattern) : name[k + i] = pattern[i]

(* get_mext_match: the first item, from the current one on or past it, that *)
(* contains the pattern.  The search stops when it is back at match_start,  *)
(* but match_start itself is never brought back into 0 .. items_num - 1:    *)
(* past either end no item is that number and a search that finds nothing   *)
(* never ends.  An empty menu divides by zero.  step is 0 while the pattern *)
(* grows and 1 for the next hit, up the direction.                          *)
GetMatch(b, pattern, step, up) ==
    LET start  == IF step = 0 THEN b.cur ELSE IF up THEN b.cur - 1 ELSE b.cur + 1
        visit(k) == ((start + (IF up THEN -k ELSE k)) + 2 * b.n) % b.n
        found  == {k \in 0 .. b.n - 1 : NameHas(Name[visit(k)], pattern)}
    IN  IF b.n = 0 THEN Divides
        ELSE IF found # {} THEN visit(CHOOSE k \in found : \A j \in found : k <= j)
        ELSE IF start \in 0 .. b.n - 1 THEN None ELSE Endless

Matched(b, search, match) ==
    IF match = Divides THEN [b EXCEPT !.phase = "crashed"]
    ELSE IF match = Endless THEN [b EXCEPT !.phase = "hung"]
    ELSE IF match = None THEN [b EXCEPT !.search = search, !.fresh = FALSE]
    ELSE [CenterItem(b, match) EXCEPT !.search = search, !.fresh = FALSE]

------------------------------------------------------------------------------
(* do_match.  A character typed extends the pattern and searches from the   *)
(* current item (the page keys arrive as the letters R and S); the arrows   *)
(* go to the next hit; backspace only shortens the pattern; / and ESC end   *)
(* the search.  PatternBound is the length of the patterns explored.        *)
PatternBound == 2

SearchStarts ==
    /\ Open("nmenu") /\ ~box.search.on
    /\ box' = [Touched(box) EXCEPT !.search = [NotSearching EXCEPT !.on = TRUE]]

SearchTypes ==
    /\ Open("nmenu") /\ box.search.on /\ Len(box.search.pattern) < PatternBound
    /\ \E letter \in Letters :
          LET pattern == Append(box.search.pattern, letter)
              search  == [box.search EXCEPT !.pattern = pattern, !.step = 0]
          IN  box' = Matched(box, search, GetMatch(box, pattern, 0, search.up))

SearchNext ==
    /\ Open("nmenu") /\ box.search.on
    /\ \E up \in BOOLEAN :
          LET search == [box.search EXCEPT !.up = up, !.step = 1]
          IN  box' = Matched(box, search, GetMatch(box, search.pattern, 1, up))

SearchRubsOut ==
    /\ Open("nmenu") /\ box.search.on /\ box.search.pattern # <<>>
    /\ box' = [Touched(box) EXCEPT !.search.pattern = SubSeq(@, 1, Len(@) - 1),
                                   !.search.step = 0]

SearchEnds ==
    /\ Open("nmenu") /\ box.search.on
    /\ box' = [Touched(box) EXCEPT !.search = NotSearching]

(* The keys conf() hands to the library outside a search.                   *)
DriverMoves ==
    /\ Open("nmenu") /\ ~box.search.on /\ box.n # 0
    /\ \/ box' = Touched(SetCurrentItem(box, box.cur + 1))
       \/ box' = Touched(SetCurrentItem(box, box.cur - 1))
       \/ box' = Touched(AtItem(box, 0))
       \/ box' = Touched(AtItem(box, box.n - 1))
       \/ LET page == Smaller(box.height, box.n - (box.height + box.top))
          IN  page > 0 /\ box' = Touched([box EXCEPT !.top = @ + page, !.cur = @ + page])
       \/ LET page == Smaller(box.height, box.top)
          IN  page > 0 /\ box' = Touched([box EXCEPT !.top = @ - page, !.cur = @ - page])

(* Any key that leaves the inner loop of conf(): the place is remembered,   *)
(* a search is over, and the key acts on the current item.                  *)
MenuLeaves ==
    /\ Open("nmenu") /\ box.n # 0
    /\ box' = [box EXCEPT !.phase = "answered", !.index = box.cur, !.last = box.top,
                          !.search = NotSearching, !.fresh = FALSE]

------------------------------------------------------------------------------
(* The caller rebuilds the list and calls again: conf() of mconf.c with the *)
(* item of the last answer as the active one, wherever it now is, or gone;  *)
(* conf_choice() after a help; conf() of nconf.c with its remembered place. *)
Reopens ==
    /\ box.phase = "answered"
    /\ \E n \in Counts, height \in Heights :
          \/ /\ box.kind = "menu" /\ box.code # 1
             /\ \E active \in {box.item, None} \cup (IF n = box.n THEN {} ELSE 0 .. n - 1) :
                   /\ active < n
                   /\ box' = SetUpMenu(Fresh("menu", n, height, active, box.saved))
          \/ /\ box.kind = "list" /\ box.code = 1 /\ n = box.n /\ height = box.height
             /\ box' = SetUpList(Fresh("list", n, height, box.item, 0))
          \/ /\ box.kind = "nmenu"
             /\ box' = ShowMenu(FreshMenu(n, height, box.index, box.last, NotSearching))

Ends ==
    /\ box.phase = "answered"
    /\ box' = NoBox

(* A first call: the menu from its first item, the list on its chosen one.  *)
ListInit ==
    \E n \in Counts, height \in Heights :
        \/ box = SetUpMenu(Fresh("menu", n, height, None, 0))
        \/ \E active \in (0 .. n - 1) \cup {None} : box = SetUpList(Fresh("list", n, height, active, 0))
        \/ box = ShowMenu(FreshMenu(n, height, 0, 0, NotSearching))

ListNext ==
    \/ MenuMoves \/ CycleButtons \/ MenuAnswers \/ Escapes \/ Resizes
    \/ ListMoves \/ ListAnswers
    \/ SearchStarts \/ SearchTypes \/ SearchNext \/ SearchRubsOut \/ SearchEnds
    \/ DriverMoves \/ MenuLeaves
    \/ Reopens \/ Ends

ListSpec == ListInit /\ [][ListNext]_box

------------------------------------------------------------------------------
(* The highlighted row is on the screen, alone, and shows the item that an  *)
(* answer names; the other rows show its neighbours, the window lies within *)
(* the list and the arrows tell on which side items are out of sight.  The  *)
(* exception is the menu box drawn again by a resize while first_item still *)
(* is the one of the former drawing (torn).  The window of nconfig always   *)
(* has the current item in it, and no empty rows above or below the list.   *)
RowsAgree(b) ==
    /\ b.scroll >= 0 /\ b.scroll + MaxChoice(b) <= b.n
    /\ b.choice \in 0 .. MaxChoice(b) - 1
    /\ b.lit = {b.choice}
    /\ \A r \in 0 .. MaxChoice(b) - 1 : b.rows[r] = b.scroll + r
    /\ UpArrow(b) <=> \E i \in 0 .. b.n - 1 : \A r \in DOMAIN b.rows : i < b.rows[r]
    /\ b.kind = "menu" => (DownArrow(b) <=> \E i \in 0 .. b.n - 1 : \A r \in DOMAIN b.rows : i > b.rows[r])

ListShowsAnswer ==
    /\ (box.kind \in {"menu", "list"} /\ box.n # 0 /\ ~box.torn) =>
           box.phase # "crashed" /\ RowsAgree(box)
    /\ (box.kind = "nmenu" /\ box.n # 0 /\ box.phase = "open") =>
           /\ box.cur \in 0 .. box.n - 1
           /\ box.top <= box.cur /\ box.cur < box.top + box.height
           /\ box.top <= Larger(box.n - box.height, 0)
==============================================================================
