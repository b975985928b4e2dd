--------------------------- MODULE FrontEnds_proofs ---------------------------
(* Proofs about the text front ends of Kconfig: the field of an input box for *)
(* any width and text, the lists for any number of items and any window, the  *)
(* sessions for any tree of menus and any files, and the windows over a text  *)
(* for any text, any places to jump to and any number of rows.                *)
EXTENDS EntryBoxes, ListBoxes, MenuSession, TextBoxes, FiniteRecursion, SequenceTheorems,
        FiniteSetTheorems, TLAPS

(* What a box with a field knows between two keys.                           *)
InputBox ==
    [kind : {"input"}, answer : {"open", "ok", "help", "esc"}, text : Seq(Chars),
     pos : Nat, show : Nat, col : 0 .. Width - 1, button : {-1, 0, 1}]
FormBox ==
    [kind : {"form"}, answer : {"open", "ok", "help", "esc"}, text : Seq(Chars),
     pos : Nat, col : 0 .. Width - 1]
LooseForm ==
    [kind : {"form"}, answer : {"open", "ok", "help", "esc"}, text : Seq(Chars),
     pos : Nat, col : -1 .. Width]
Question ==
    [kind : {"yesno", "buttons"}, answer : {"open", "yes", "no", "esc"}, button : {0, 1},
     drawn : {0, 1}, resized : BOOLEAN]

InputInv(e) ==
    /\ e \in InputBox
    /\ e.pos = e.show + e.col /\ e.pos <= Len(e.text)
    /\ Len(e.text) <= TextBound
FormInv(e) ==
    /\ e \in FormBox
    /\ e.pos <= Len(e.text) /\ e.col <= e.pos
QuestionInv(e) ==
    /\ e \in Question
    /\ e.resized \/ e.drawn = e.button

EntryInv == InputInv(entry) \/ FormInv(entry) \/ QuestionInv(entry)

LEMMA Sizes == Width \in Nat \ {0} /\ TextBound \in Nat
BY WidthAssumption, TextBoundAssumption

(* Taking one character out, or putting one in.                              *)
LEMMA Joined ==
    ASSUME NEW a \in Seq(Chars), NEW b \in Seq(Chars)
    PROVE  a \o b \in Seq(Chars) /\ Len(a \o b) = Len(a) + Len(b)
BY ConcatProperties

LEMMA Cut ==
    ASSUME NEW t \in Seq(Chars), NEW k \in 0 .. Len(t)
    PROVE  /\ SubSeq(t, 1, k) \in Seq(Chars) /\ Len(SubSeq(t, 1, k)) = k
           /\ SubSeq(t, k + 1, Len(t)) \in Seq(Chars)
           /\ Len(SubSeq(t, k + 1, Len(t))) = Len(t) - k
OBVIOUS

LEMMA WithoutOne ==
    ASSUME NEW t \in Seq(Chars), NEW k \in 1 .. Len(t)
    PROVE  Without(t, k) \in Seq(Chars) /\ Len(Without(t, k)) = Len(t) - 1
<1> DEFINE a == SubSeq(t, 1, k - 1)
           b == SubSeq(t, k + 1, Len(t))
<1>1. k \in 0 .. Len(t) /\ k - 1 \in 0 .. Len(t) /\ Len(t) \in Nat
  OBVIOUS
<1>2. a \in Seq(Chars) /\ b \in Seq(Chars) /\ Len(a) = k - 1 /\ Len(b) = Len(t) - k
  BY <1>1, Cut
<1>3. Without(t, k) = a \o b
  BY DEF Without
<1> HIDE DEF a, b
<1>4. a \o b \in Seq(Chars) /\ Len(a \o b) = Len(a) + Len(b)
  BY <1>2, Joined
<1> QED BY <1>1, <1>2, <1>3, <1>4

LEMMA WithOne ==
    ASSUME NEW t \in Seq(Chars), NEW k \in 0 .. Len(t), NEW c \in Chars
    PROVE  With(t, k, c) \in Seq(Chars) /\ Len(With(t, k, c)) = Len(t) + 1
<1> DEFINE a == SubSeq(t, 1, k)
           b == SubSeq(t, k + 1, Len(t))
<1>1. a \in Seq(Chars) /\ b \in Seq(Chars) /\ Len(a) = k /\ Len(b) = Len(t) - k
      /\ Len(t) \in Nat
  BY Cut
<1>2. <<c>> \in Seq(Chars) /\ Len(<<c>>) = 1
  OBVIOUS
<1>3. With(t, k, c) = (a \o <<c>>) \o b
  BY DEF With
<1> HIDE DEF a, b
<1>4. a \o <<c>> \in Seq(Chars) /\ Len(a \o <<c>>) = k + 1
  BY <1>1, <1>2, Joined
<1>5. (a \o <<c>>) \o b \in Seq(Chars) /\ Len((a \o <<c>>) \o b) = k + 1 + Len(b)
  BY <1>1, <1>4, Joined
<1>6. k + 1 + Len(b) = Len(t) + 1
  BY <1>1
<1> QED BY <1>3, <1>5, <1>6, Zenon

(* Opening and resizing the input box puts the cursor at the end.            *)
LEMMA SetUpKeeps ==
    ASSUME NEW e \in InputBox, Len(e.text) <= TextBound
    PROVE  InputInv(SetUpInput(e))
<1> DEFINE len == Len(e.text)
           s == IF len >= Width THEN len - Width + 1 ELSE 0
           c == IF len >= Width THEN Width - 1 ELSE len
<1>1. e.text \in Seq(Chars) /\ len \in Nat
  BY DEF InputBox
<1>2. s \in Nat /\ c \in 0 .. Width - 1 /\ len = s + c
  BY <1>1, Sizes
<1>3. SetUpInput(e) = [e EXCEPT !.pos = len, !.show = s, !.col = c]
  BY DEF SetUpInput
<1> HIDE DEF len, s, c
<1>4. /\ SetUpInput(e) \in InputBox /\ SetUpInput(e).pos = len /\ SetUpInput(e).show = s
      /\ SetUpInput(e).col = c /\ SetUpInput(e).text = e.text
  BY <1>1, <1>2, <1>3 DEF InputBox
<1> QED BY <1>1, <1>2, <1>4 DEF InputInv, len

(* The cursor moves with the field: a step at its edge scrolls instead.      *)
LEMMA LeftKeeps ==
    ASSUME NEW e, InputInv(e), e.pos > 0
    PROVE  InputInv(MoveLeft(e)) /\ MoveLeft(e).pos = e.pos - 1 /\ MoveLeft(e).text = e.text
<1> DEFINE s == IF e.col = 0 THEN e.show - 1 ELSE e.show
           c == IF e.col > 0 THEN e.col - 1 ELSE e.col
<1>1. e \in InputBox /\ e.pos \in Nat /\ e.show \in Nat /\ e.col \in 0 .. Width - 1
  BY DEF InputInv, InputBox
<1>2. e.pos = e.show + e.col /\ e.pos <= Len(e.text) /\ Len(e.text) \in Nat
      /\ Len(e.text) <= TextBound
  BY DEF InputInv, InputBox
<1>3. s \in Nat /\ c \in 0 .. Width - 1 /\ e.pos - 1 = s + c /\ e.pos - 1 \in Nat
  <2>1. CASE e.col = 0
    <3>1. s = e.show - 1 /\ c = e.col
      BY <2>1
    <3> HIDE DEF s, c
    <3> QED BY <1>1, <1>2, <2>1, <3>1
  <2>2. CASE e.col # 0
    <3>1. s = e.show /\ c = e.col - 1
      BY <1>1, <2>2
    <3> HIDE DEF s, c
    <3> QED BY <1>1, <1>2, <2>2, <3>1, Sizes
  <2> QED BY <2>1, <2>2
<1>4. MoveLeft(e) = [e EXCEPT !.pos = e.pos - 1, !.show = s, !.col = c]
  BY <1>1 DEF MoveLeft, InputBox
<1> HIDE DEF s, c
<1>5. /\ MoveLeft(e) \in InputBox /\ MoveLeft(e).pos = e.pos - 1 /\ MoveLeft(e).show = s
      /\ MoveLeft(e).col = c /\ MoveLeft(e).text = e.text
  BY <1>1, <1>3, <1>4 DEF InputBox
<1> QED BY <1>1, <1>2, <1>3, <1>5 DEF InputInv

LEMMA RightMoves ==
    ASSUME NEW e, InputInv(e)
    PROVE  /\ MoveRight(e) \in InputBox
           /\ MoveRight(e).pos = MoveRight(e).show + MoveRight(e).col
           /\ MoveRight(e).pos = e.pos + 1 /\ MoveRight(e).text = e.text
<1> DEFINE s == IF e.col = Width - 1 THEN e.show + 1 ELSE e.show
           c == IF e.col < Width - 1 THEN e.col + 1 ELSE e.col
<1>1. e \in InputBox /\ e.pos \in Nat /\ e.show \in Nat /\ e.col \in 0 .. Width - 1
      /\ e.pos = e.show + e.col
  BY DEF InputInv, InputBox
<1>2. s \in Nat /\ c \in 0 .. Width - 1 /\ e.pos + 1 = s + c /\ e.pos + 1 \in Nat
  BY <1>1, Sizes
<1>3. MoveRight(e) = [e EXCEPT !.pos = e.pos + 1, !.show = s, !.col = c]
  BY <1>1 DEF MoveRight, InputBox
<1> HIDE DEF s, c
<1> QED BY <1>1, <1>2, <1>3 DEF InputBox

LEMMA RightKeeps ==
    ASSUME NEW e, InputInv(e), e.pos < Len(e.text)
    PROVE  InputInv(MoveRight(e))
<1>1. e.pos \in Nat /\ Len(e.text) \in Nat /\ Len(e.text) <= TextBound
  BY DEF InputInv, InputBox
<1> QED BY <1>1, RightMoves DEF InputInv

(* A key that changes the text places the cursor in the new one.             *)
LEMMA BackspaceKeeps ==
    ASSUME NEW e, InputInv(e), e.pos > 0
    PROVE  InputInv(Backspace(e))
<1>1. e.text \in Seq(Chars) /\ e.pos \in 1 .. Len(e.text) /\ Len(e.text) <= TextBound
      /\ Len(e.text) \in Nat
  BY DEF InputInv, InputBox
<1>2. Without(e.text, e.pos) \in Seq(Chars) /\ Len(Without(e.text, e.pos)) = Len(e.text) - 1
  BY <1>1, WithoutOne
<1>3. InputInv(MoveLeft(e)) /\ MoveLeft(e).pos = e.pos - 1 /\ MoveLeft(e).text = e.text
  BY LeftKeeps
<1>4. MoveLeft(e) \in InputBox /\ MoveLeft(e).pos = MoveLeft(e).show + MoveLeft(e).col
  BY <1>3 DEF InputInv
<1>5. Backspace(e) = [MoveLeft(e) EXCEPT !.text = Without(e.text, e.pos)]
  BY <1>3, Zenon DEF Backspace
<1>6. /\ Backspace(e) \in InputBox /\ Backspace(e).pos = MoveLeft(e).pos
      /\ Backspace(e).show = MoveLeft(e).show /\ Backspace(e).col = MoveLeft(e).col
      /\ Backspace(e).text = Without(e.text, e.pos)
  BY <1>2, <1>4, <1>5 DEF InputBox
<1> QED BY <1>1, <1>2, <1>3, <1>4, <1>6, Sizes DEF InputInv

LEMMA InsertKeeps ==
    ASSUME NEW e, InputInv(e), NEW c \in Chars, Len(e.text) < TextBound
    PROVE  InputInv(Insert(e, c))
<1>1. e.text \in Seq(Chars) /\ e.pos \in 0 .. Len(e.text) /\ Len(e.text) \in Nat
  BY DEF InputInv, InputBox
<1>2. With(e.text, e.pos, c) \in Seq(Chars) /\ Len(With(e.text, e.pos, c)) = Len(e.text) + 1
  BY <1>1, WithOne
<1>3. /\ MoveRight(e) \in InputBox
      /\ MoveRight(e).pos = MoveRight(e).show + MoveRight(e).col
      /\ MoveRight(e).pos = e.pos + 1 /\ MoveRight(e).text = e.text
  BY RightMoves
<1>4. Insert(e, c) = [MoveRight(e) EXCEPT !.text = With(e.text, e.pos, c)]
  BY <1>3, Zenon DEF Insert
<1>5. /\ Insert(e, c) \in InputBox /\ Insert(e, c).pos = MoveRight(e).pos
      /\ Insert(e, c).show = MoveRight(e).show /\ Insert(e, c).col = MoveRight(e).col
      /\ Insert(e, c).text = With(e.text, e.pos, c)
  BY <1>2, <1>3, <1>4 DEF InputBox
<1> QED BY <1>1, <1>2, <1>3, <1>5, Sizes DEF InputInv

(* nconfig brings the column back into the field after every key, and so     *)
(* never in front of the text.                                               *)
LEMMA InFieldKeeps ==
    ASSUME NEW e \in LooseForm, e.pos <= Len(e.text), e.col <= e.pos
    PROVE  FormInv(InField(e))
<1> DEFINE c == IF e.col < 0 THEN 0 ELSE IF e.col > Width - 1 THEN Width - 1 ELSE e.col
<1>1. c \in 0 .. Width - 1 /\ c <= e.pos /\ e.pos \in Nat /\ e.pos <= Len(e.text)
  BY Sizes DEF LooseForm
<1>2. InField(e) = [e EXCEPT !.col = c]
  BY DEF InField
<1> HIDE DEF c
<1>3. InField(e) \in FormBox /\ InField(e).pos = e.pos /\ InField(e).col = c
      /\ InField(e).text = e.text
  BY <1>1, <1>2 DEF LooseForm, FormBox
<1> QED BY <1>1, <1>3 DEF FormInv

LEMMA MovedKeeps ==
    ASSUME NEW e \in FormBox, NEW k \in {-1, 1}, e.col <= e.pos, e.pos + k \in 0 .. Len(e.text)
    PROVE  FormInv(InField(Step(e, k)))
<1>1. e.pos \in Nat /\ e.col \in 0 .. Width - 1 /\ e.text \in Seq(Chars)
  BY DEF FormBox
<1>2. /\ e.col + k \in -1 .. Width /\ e.col + k <= e.pos + k /\ e.pos + k \in Nat
      /\ e.pos + k <= Len(e.text)
  BY <1>1, Sizes
<1>3. /\ Step(e, k) \in LooseForm /\ Step(e, k).pos = e.pos + k /\ Step(e, k).col = e.col + k
      /\ Step(e, k).text = e.text
  BY <1>1, <1>2 DEF Step, FormBox, LooseForm
<1> QED BY <1>2, <1>3, InFieldKeeps

LEMMA StepKeeps ==
    ASSUME NEW e \in FormBox, NEW t \in Seq(Chars), NEW k \in {-1, 1},
           e.col <= e.pos, e.pos + k \in 0 .. Len(t)
    PROVE  FormInv(InField(Step([e EXCEPT !.text = t], k)))
<1> DEFINE f == [e EXCEPT !.text = t]
<1>1. f \in FormBox /\ f.pos = e.pos /\ f.col = e.col /\ f.text = t
  BY DEF FormBox
<1> HIDE DEF f
<1>2. FormInv(InField(Step(f, k)))
  BY <1>1, MovedKeeps
<1> QED BY <1>2 DEF f

LEMMA RetypedKeeps ==
    ASSUME NEW e \in FormBox, NEW t \in Seq(Chars), e.col <= e.pos, e.pos \in 0 .. Len(t)
    PROVE  FormInv(InField([e EXCEPT !.text = t]))
<1> DEFINE f == [e EXCEPT !.text = t]
<1>1. f \in LooseForm /\ f.pos = e.pos /\ f.col = e.col /\ f.text = t
  BY Sizes DEF FormBox, LooseForm
<1> HIDE DEF f
<1>2. FormInv(InField(f))
  BY <1>1, InFieldKeeps
<1> QED BY <1>2 DEF f

-------------------------------------------------------------------------------
LEMMA InitEntry == EntryInit => EntryInv
<1> SUFFICES ASSUME EntryInit PROVE EntryInv
  OBVIOUS
<1>1. ASSUME NEW t \in Texts, entry = FreshInput(t)
      PROVE  InputInv(entry)
  <2> DEFINE e == [kind |-> "input", answer |-> "open", text |-> t, pos |-> 0, show |-> 0,
                   col |-> 0, button |-> -1]
  <2>1. t \in Seq(Chars) /\ Len(t) <= TextBound
    BY TextsAssumption
  <2>2. e \in InputBox /\ e.text = t
    BY <2>1, Sizes DEF InputBox
  <2>3. entry = SetUpInput(e)
    BY <1>1 DEF FreshInput
  <2> HIDE DEF e
  <2> QED BY <2>1, <2>2, <2>3, SetUpKeeps
<1>2. ASSUME NEW t \in Texts, entry = FreshForm(t)
      PROVE  FormInv(entry)
  <2>1. t \in Seq(Chars) /\ Len(t) \in Nat
    BY TextsAssumption
  <2>2. Least(Len(t), Width - 1) \in 0 .. Width - 1 /\ Least(Len(t), Width - 1) <= Len(t)
    BY <2>1, Sizes DEF Least
  <2> QED BY <1>2, <2>1, <2>2 DEF FreshForm, FormInv, FormBox
<1>3. ASSUME NEW k \in {"yesno", "buttons"}, entry = FreshQuestion(k)
      PROVE  QuestionInv(entry)
  BY <1>3 DEF FreshQuestion, QuestionInv, Question
<1> QED BY <1>1, <1>2, <1>3 DEF EntryInit, EntryInv

LEMMA InputStep ==
    ASSUME InputInv(entry), InputKeys \/ InputButtons \/ InputAnswers \/ InputResizes
    PROVE  InputInv(entry')
<1>1. CASE InputKeys
  BY <1>1, LeftKeeps, RightKeeps, BackspaceKeeps, InsertKeeps DEF InputKeys
<1>2. CASE InputResizes
  BY <1>2, SetUpKeeps DEF InputResizes, InputInv
<1>3. CASE InputButtons \/ InputAnswers
  <2>1. \/ \E b \in {-1, 0, 1} : entry' = [entry EXCEPT !.button = b]
        \/ \E a \in {"ok", "help", "esc"} : entry' = [entry EXCEPT !.answer = a]
    <3>1. entry.button \in {-1, 0, 1}
      BY DEF InputInv, InputBox
    <3> QED BY <1>3, <3>1 DEF InputButtons, InputAnswers
  <2> QED BY <2>1 DEF InputInv, InputBox
<1> QED BY <1>1, <1>2, <1>3

LEMMA FormStep ==
    ASSUME FormInv(entry), FormKeys \/ FormAnswers
    PROVE  FormInv(entry')
<1>1. CASE FormAnswers
  <2>1. PICK a \in {"ok", "help", "esc"} : entry' = [entry EXCEPT !.answer = a]
    BY <1>1 DEF FormAnswers
  <2> QED BY <2>1 DEF FormInv, FormBox
<1>2. CASE FormKeys
  <2> DEFINE t == entry.text
             p == entry.pos
  <2>1. /\ entry \in FormBox /\ t \in Seq(Chars) /\ p \in 0 .. Len(t) /\ Len(t) \in Nat
        /\ entry.col \in 0 .. Width - 1 /\ entry.col <= p
    BY DEF FormInv, FormBox
  <2>2. ASSUME p > 0, entry' = InField(Step([entry EXCEPT !.text = Without(@, entry.pos)], -1))
        PROVE  FormInv(entry')
    <3>1. Without(t, p) \in Seq(Chars) /\ Len(Without(t, p)) = Len(t) - 1
      <4>1. p \in 1 .. Len(t) /\ t \in Seq(Chars)
        BY <2>1, <2>2
      <4> HIDE DEF t, p
      <4> QED BY <4>1, WithoutOne
    <3>2. entry' = InField(Step([entry EXCEPT !.text = Without(t, p)], -1))
      BY <2>2, Zenon
    <3> QED BY <2>1, <2>2, <3>1, <3>2, StepKeeps
  <2>3. ASSUME p < Len(t), entry' = InField([entry EXCEPT !.text = Without(@, entry.pos + 1)])
        PROVE  FormInv(entry')
    <3>1. Without(t, p + 1) \in Seq(Chars) /\ Len(Without(t, p + 1)) = Len(t) - 1
      <4>1. p + 1 \in 1 .. Len(t) /\ t \in Seq(Chars)
        BY <2>1, <2>3
      <4> HIDE DEF t, p
      <4> QED BY <4>1, WithoutOne
    <3>2. entry' = InField([entry EXCEPT !.text = Without(t, p + 1)])
      BY <2>3, Zenon
    <3> QED BY <2>1, <2>3, <3>1, <3>2, RetypedKeeps
  <2>4. /\ (p < Len(t) /\ entry' = InField(Step(entry, 1))) => FormInv(entry')
        /\ (p > 0 /\ entry' = InField(Step(entry, -1))) => FormInv(entry')
    BY <2>1, MovedKeeps
  <2>5. CASE entry' = [entry EXCEPT !.pos = 0, !.col = 0]
    <3>1. 0 \in 0 .. Width - 1 /\ 0 \in Nat
      BY Sizes
    <3>2. entry' \in FormBox /\ entry'.pos = 0 /\ entry'.col = 0 /\ entry'.text = t
      BY <2>1, <2>5, <3>1 DEF FormBox
    <3> QED BY <2>1, <3>2 DEF FormInv
  <2>6. CASE entry' = [entry EXCEPT !.pos = Len(entry.text),
                                    !.col = Least(Len(entry.text), Width - 1)]
    <3>1. Least(Len(t), Width - 1) \in 0 .. Width - 1 /\ Least(Len(t), Width - 1) <= Len(t)
      BY <2>1, Sizes DEF Least
    <3>2. /\ entry' \in FormBox /\ entry'.pos = Len(t) /\ entry'.text = t
          /\ entry'.col = Least(Len(t), Width - 1)
      BY <2>1, <2>6, <3>1 DEF FormBox
    <3> QED BY <2>1, <3>1, <3>2 DEF FormInv
  <2>7. ASSUME NEW c \in Chars,
               entry' = InField(Step([entry EXCEPT !.text = With(@, entry.pos, c)], 1))
        PROVE  FormInv(entry')
    <3>1. With(t, p, c) \in Seq(Chars) /\ Len(With(t, p, c)) = Len(t) + 1
      BY <2>1, WithOne
    <3>2. entry' = InField(Step([entry EXCEPT !.text = With(t, p, c)], 1))
      BY <2>7, Zenon
    <3> QED BY <2>1, <3>1, <3>2, StepKeeps
  <2> QED BY <1>2, <2>1, <2>2, <2>3, <2>4, <2>5, <2>6, <2>7, Zenon DEF FormKeys
<1> QED BY <1>1, <1>2

LEMMA QuestionStep ==
    ASSUME QuestionInv(entry), YesNoKeys \/ ButtonKeys
    PROVE  QuestionInv(entry')
<1>1. entry \in Question /\ entry.button \in {0, 1} /\ (entry.resized \/ entry.drawn = entry.button)
  BY DEF QuestionInv, Question
<1>2. CASE entry' = [entry EXCEPT !.button = 1 - @, !.drawn = 1 - entry.button, !.resized = FALSE]
  <2>1. 1 - entry.button \in {0, 1} /\ FALSE \in BOOLEAN
    BY <1>1
  <2>2. /\ entry' \in Question /\ entry'.drawn = 1 - entry.button
        /\ entry'.button = 1 - entry.button
    BY <1>1, <1>2, <2>1 DEF Question
  <2> QED BY <2>2 DEF QuestionInv
<1>3. CASE entry' = [entry EXCEPT !.drawn = 0, !.resized = TRUE]
  BY <1>1, <1>3 DEF QuestionInv, Question
<1>4. ASSUME NEW a \in {"yes", "no", "esc"}, entry' = [entry EXCEPT !.answer = a]
      PROVE  QuestionInv(entry')
  BY <1>1, <1>4 DEF QuestionInv, Question
<1>5. ASSUME NEW b \in {0, 1}, entry' = [entry EXCEPT !.button = b, !.drawn = b]
      PROVE  QuestionInv(entry')
  BY <1>1, <1>5 DEF QuestionInv, Question
<1> QED BY <1>2, <1>3, <1>4, <1>5 DEF YesNoKeys, ButtonKeys

(* A key of one box does not act on another.                                 *)
LEMMA EntryStep == EntryInv /\ [EntryNext]_entry => EntryInv'
<1> SUFFICES ASSUME EntryInv, [EntryNext]_entry PROVE EntryInv'
  OBVIOUS
<1>1. /\ InputInv(entry) => entry.kind = "input"
      /\ FormInv(entry) => entry.kind = "form"
      /\ QuestionInv(entry) => entry.kind \in {"yesno", "buttons"}
  BY DEF InputInv, FormInv, QuestionInv, InputBox, FormBox, Question
<1>2. CASE InputKeys \/ InputButtons \/ InputAnswers \/ InputResizes
  <2>1. entry.kind = "input"
    BY <1>2 DEF InputKeys, InputButtons, InputAnswers, InputResizes, Asked
  <2> QED BY <1>1, <1>2, <2>1, InputStep DEF EntryInv
<1>3. CASE FormKeys \/ FormAnswers
  <2>1. entry.kind = "form"
    BY <1>3 DEF FormKeys, FormAnswers, Asked
  <2> QED BY <1>1, <1>3, <2>1, FormStep DEF EntryInv
<1>4. CASE YesNoKeys \/ ButtonKeys
  <2>1. entry.kind \in {"yesno", "buttons"}
    BY <1>4 DEF YesNoKeys, ButtonKeys, Asked
  <2> QED BY <1>1, <1>4, <2>1, QuestionStep DEF EntryInv
<1>5. CASE UNCHANGED entry
  BY <1>5 DEF EntryInv
<1> QED BY <1>2, <1>3, <1>4, <1>5 DEF EntryNext

(* CursorOnItsChar, of lxdialog/inputbox.c, lxdialog/yesno.c and             *)
(* nconf.gui.c: whatever is typed, and however the window is resized, the    *)
(* cursor stays inside the field and on the character the next key acts on,  *)
(* the text stays inside its buffer, and the highlighted button is the one   *)
(* that answers.                                                             *)
THEOREM CursorStays == EntrySpec => []CursorOnItsChar
<1>1. EntryInv => CursorOnItsChar
  <2>1. InputInv(entry) => CursorOnItsChar
    BY DEF InputInv, InputBox, CursorOnItsChar
  <2>2. FormInv(entry) => CursorOnItsChar
    BY DEF FormInv, FormBox, CursorOnItsChar
  <2>3. QuestionInv(entry) => CursorOnItsChar
    BY DEF QuestionInv, Question, CursorOnItsChar
  <2> QED BY <2>1, <2>2, <2>3 DEF EntryInv
<1> QED BY <1>1, InitEntry, EntryStep, PTL DEF EntrySpec

------------------------------------------------------------------------------
(* What the menu box and the radio list know: Rec is the record, Held what     *)
(* holds of a list that is not empty, at each moment of a key.  first_item may *)
(* be another row after a resize (torn), the place in the list is always good. *)
ListRec(R) ==
    [kind : {"menu", "list"}, phase : {"open", "answered", "crashed"}, n : Nat,
     height : Nat \ {0}, active : Int, saved : Int, scroll : Int, choice : Int,
     first : Int, button : Int, drawn : Int, rows : R, lit : SUBSET Int, code : Int,
     item : Int, torn : BOOLEAN, fresh : BOOLEAN]
Window(b) == [0 .. MaxChoice(b) - 1 -> Int]
Placed(b) ==
    /\ b.scroll >= 0 /\ b.scroll + MaxChoice(b) <= b.n
    /\ b.choice \in 0 .. MaxChoice(b) - 1
Agree(b) == \A r \in 0 .. MaxChoice(b) - 1 : b.rows[r] = b.scroll + r
Listing(b, lights) ==
    /\ b \in ListRec(Window(b)) /\ b.n # 0 /\ b.phase # "crashed"
    /\ -1 <= b.active /\ b.active < b.n
    /\ Placed(b)
    /\ b.kind = "list" => ~b.torn
    /\ ~b.torn => Agree(b) /\ b.lit = lights
Empty(b) ==
    /\ b \in ListRec(Window(b)) /\ b.n = 0 /\ b.phase # "crashed"
    /\ b.active = None /\ b.choice = 0 /\ b.scroll = 0
    /\ b.kind = "list" => ~b.torn
Answered(b) == b.phase = "answered" => b.item \in -1 .. b.n - 1
Lost(b) == b.kind = "menu" /\ b.phase = "crashed" /\ b.torn = TRUE

(* The number of rows in use.                                                  *)
LEMMA RowsInUse ==
    ASSUME NEW R, NEW b \in ListRec(R)
    PROVE  /\ MaxChoice(b) \in Nat
           /\ MaxChoice(b) <= b.n /\ MaxChoice(b) <= b.height
           /\ b.n # 0 => MaxChoice(b) >= 1
           /\ b.n = 0 => MaxChoice(b) = 0
           /\ b.n >= b.height => MaxChoice(b) = b.height
           /\ b.n <= b.height => MaxChoice(b) = b.n
BY DEF ListRec, MaxChoice, Smaller

Same(c, b) ==
    /\ c.kind = b.kind /\ c.phase = b.phase /\ c.n = b.n /\ c.height = b.height
    /\ c.active = b.active /\ c.torn = b.torn /\ c.item = b.item

LEMMA SameWindow ==
    ASSUME NEW b, NEW c, Same(c, b)
    PROVE  MaxChoice(c) = MaxChoice(b) /\ Window(c) = Window(b)
BY DEF Same, MaxChoice, Window

(* print_item on a row of the window, with the highlight or without it.        *)
Printed(c, b, r, lights) ==
    /\ c \in ListRec(Window(b)) /\ Same(c, b)
    /\ c.scroll = b.scroll /\ c.choice = b.choice
    /\ c.rows = [b.rows EXCEPT ![r] = b.scroll + r] /\ c.lit = lights

LEMMA PutRow ==
    ASSUME NEW b, NEW r \in 0 .. MaxChoice(b) - 1,
           b \in ListRec(Window(b)), b.n # 0, b.scroll + MaxChoice(b) <= b.n
    PROVE  /\ Printed(Put(b, r, TRUE), b, r, b.lit \cup {r})
           /\ Printed(Put(b, r, FALSE), b, r, b.lit \ {r})
<1> DEFINE m == MaxChoice(b)
           w == [b.rows EXCEPT ![r] = b.scroll + r]
<1>1. m \in Nat /\ b.scroll \in Int /\ b.n \in Nat
  BY RowsInUse DEF ListRec
<1>2. b.rows \in Window(b) /\ b.lit \in SUBSET Int
  BY DEF ListRec
<1>3. w \in Window(b)
  BY <1>1, <1>2 DEF Window
<1>4. ~ (b.scroll + r >= b.n)
  BY <1>1
<1>5. /\ Put(b, r, TRUE) = [b EXCEPT !.rows = w, !.lit = @ \cup {r}]
      /\ Put(b, r, FALSE) = [b EXCEPT !.rows = w, !.lit = @ \ {r}]
  BY <1>4 DEF Put
<1>6. ASSUME NEW l \in SUBSET Int
      PROVE  Printed([b EXCEPT !.rows = w, !.lit = l], b, r, l)
  <2> HIDE DEF w, m
  <2> DEFINE c == [b EXCEPT !.rows = w, !.lit = l]
  <2>1. c \in ListRec(Window(b))
    BY <1>3 DEF ListRec
  <2>2. Same(c, b) /\ c.scroll = b.scroll /\ c.choice = b.choice /\ c.rows = w /\ c.lit = l
    BY DEF ListRec, Same
  <2> HIDE DEF c
  <2>3. Printed(c, b, r, l)
    BY <2>1, <2>2 DEF Printed, w
  <2> QED BY <2>3 DEF c
<1>7. b.lit \cup {r} \in SUBSET Int /\ b.lit \ {r} \in SUBSET Int
  BY <1>1, <1>2
<1> HIDE DEF w, m
<1> QED BY <1>5, <1>6, <1>7

(* wscrl: the rows and lights move, the first row of the window with them.     *)
LEMMA Scrolls ==
    ASSUME NEW b, b \in ListRec(Window(b)), NEW k \in {-1, 1}
    PROVE  /\ DoScroll(b, k) \in ListRec(Window(b))
           /\ Same(DoScroll(b, k), b)
           /\ DoScroll(b, k).scroll = b.scroll + k /\ DoScroll(b, k).choice = b.choice
           /\ \A r \in 0 .. MaxChoice(b) - 1 :
                 r + k \in 0 .. MaxChoice(b) - 1 => DoScroll(b, k).rows[r] = b.rows[r + k]
           /\ b.lit = {} => DoScroll(b, k).lit = {}
<1> DEFINE m == MaxChoice(b)
           w == [r \in DOMAIN b.rows |-> IF r + k \in DOMAIN b.rows THEN b.rows[r + k] ELSE None]
           l == {r - k : r \in b.lit} \cap DOMAIN b.rows
           s == b.scroll + k
<1>1. m \in Nat /\ b.scroll \in Int /\ b.rows \in [0 .. m - 1 -> Int] /\ s \in Int
  <2>1. m \in Nat
    BY RowsInUse
  <2>2. b.scroll \in Int /\ b.rows \in Window(b)
    BY DEF ListRec
  <2> QED BY <2>1, <2>2 DEF Window
<1>2. w \in [0 .. m - 1 -> Int]
  BY <1>1 DEF None
<1>3. l \in SUBSET Int
  BY <1>1
<1>4. DoScroll(b, k) = [b EXCEPT !.scroll = s, !.rows = w, !.lit = l]
  BY DEF DoScroll
<1>5. \A r \in 0 .. m - 1 : r + k \in 0 .. m - 1 => w[r] = b.rows[r + k]
  BY <1>1
<1>6. b.lit = {} => l = {}
  OBVIOUS
<1> HIDE DEF w, l, m, s
<1>7. [b EXCEPT !.scroll = s, !.rows = w, !.lit = l] \in ListRec(Window(b))
  BY <1>1, <1>2, <1>3 DEF ListRec, Window, m
<1> DEFINE c == [b EXCEPT !.scroll = s, !.rows = w, !.lit = l]
<1>8. /\ c.kind = b.kind /\ c.phase = b.phase /\ c.n = b.n /\ c.height = b.height
      /\ c.active = b.active /\ c.torn = b.torn /\ c.item = b.item
      /\ c.scroll = s /\ c.choice = b.choice /\ c.rows = w /\ c.lit = l
  BY DEF ListRec
<1> QED BY <1>4, <1>5, <1>6, <1>7, <1>8 DEF Same, s, m

(* The four things a key does to a list whose highlight is off or on.          *)
LEMMA Dimmed ==
    ASSUME NEW b, Listing(b, {b.choice})
    PROVE  Listing(Dim(b), {}) /\ Same(Dim(b), b) /\ Dim(b).choice = b.choice
                               /\ Dim(b).scroll = b.scroll
<1>1. b.choice \in 0 .. MaxChoice(b) - 1 /\ b.choice \in Int /\ b.scroll \in Int /\ MaxChoice(b) \in Nat
  BY RowsInUse DEF Listing, ListRec, Placed
<1> DEFINE c == Dim(b)
<1>2. Printed(c, b, b.choice, b.lit \ {b.choice})
  BY <1>1, PutRow DEF Listing, Placed, Dim
<1>3. MaxChoice(c) = MaxChoice(b) /\ Window(c) = Window(b)
  BY <1>2, SameWindow DEF Printed
<1> HIDE DEF c
<1>4. b.rows \in [0 .. MaxChoice(b) - 1 -> Int]
  BY DEF Listing, ListRec, Window
<1>5. Agree(b) => Agree(c)
  BY <1>1, <1>2, <1>3, <1>4 DEF Agree, Printed
<1> QED BY <1>2, <1>3, <1>5 DEF Listing, Same, Placed, Printed, c

LEMMA Brightened ==
    ASSUME NEW b, Listing(b, {})
    PROVE  /\ Listing(Bright(b), {Bright(b).choice}) /\ Same(Bright(b), b)
<1>1. b.choice \in 0 .. MaxChoice(b) - 1 /\ b.choice \in Int /\ b.scroll \in Int /\ MaxChoice(b) \in Nat
  BY RowsInUse DEF Listing, ListRec, Placed
<1> DEFINE c == Bright(b)
<1>2. Printed(c, b, b.choice, b.lit \cup {b.choice})
  BY <1>1, PutRow DEF Listing, Placed, Bright
<1>3. MaxChoice(c) = MaxChoice(b) /\ Window(c) = Window(b)
  BY <1>2, SameWindow DEF Printed
<1> HIDE DEF c
<1>4. b.rows \in [0 .. MaxChoice(b) - 1 -> Int]
  BY DEF Listing, ListRec, Window
<1>5. Agree(b) => Agree(c)
  BY <1>1, <1>2, <1>3, <1>4 DEF Agree, Printed
<1> QED BY <1>2, <1>3, <1>5 DEF Listing, Same, Placed, Printed, c

(* The window moves one line over the list and the row that comes in is drawn. *)
LEMMA Scrolled ==
    ASSUME NEW b, Listing(b, {}), NEW k \in {-1, 1},
           NEW r, r = (IF k = -1 THEN 0 ELSE MaxChoice(b) - 1),
           b.scroll + k >= 0, b.scroll + k + MaxChoice(b) <= b.n
    PROVE  /\ LET c == Put(DoScroll(b, k), r, TRUE) IN
              Listing(c, {r}) /\ Same(c, b) /\ c.choice = b.choice
           /\ LET c == Put(DoScroll(b, k), r, FALSE) IN
              Listing(c, {}) /\ Same(c, b) /\ c.choice = b.choice
<1> DEFINE d == DoScroll(b, k)
<1>1. /\ b \in ListRec(Window(b)) /\ MaxChoice(b) \in Nat /\ MaxChoice(b) >= 1
      /\ b.scroll \in Int /\ b.choice \in Int /\ r \in 0 .. MaxChoice(b) - 1
  BY RowsInUse DEF Listing, ListRec
<1>2. /\ d \in ListRec(Window(b)) /\ Same(d, b)
      /\ d.scroll = b.scroll + k /\ d.choice = b.choice
      /\ \A q \in 0 .. MaxChoice(b) - 1 :
            q + k \in 0 .. MaxChoice(b) - 1 => d.rows[q] = b.rows[q + k]
      /\ b.lit = {} => d.lit = {}
  BY <1>1, Scrolls
<1>3. MaxChoice(d) = MaxChoice(b) /\ Window(d) = Window(b)
  BY <1>2, SameWindow
<1>4. d.n # 0 /\ d.scroll + MaxChoice(d) <= d.n
  BY <1>2, <1>3 DEF Listing, Same
<1> HIDE DEF d
<1>5. /\ Printed(Put(d, r, TRUE), d, r, d.lit \cup {r})
      /\ Printed(Put(d, r, FALSE), d, r, d.lit \ {r})
  <2>1. d \in ListRec(Window(d)) /\ r \in 0 .. MaxChoice(d) - 1
    BY <1>1, <1>2, <1>3
  <2> QED BY <2>1, <1>4, PutRow
<1>6. d.rows \in [0 .. MaxChoice(b) - 1 -> Int]
  BY <1>2 DEF ListRec, Window
<1>7. ASSUME NEW c, NEW l, NEW s, Printed(c, d, r, l), ~b.torn => l = s
      PROVE  Listing(c, s) /\ Same(c, b) /\ c.choice = b.choice
  <2>1. MaxChoice(c) = MaxChoice(b) /\ Window(c) = Window(b)
    BY <1>3, <1>7, SameWindow DEF Printed
  <2>2. ASSUME Agree(b) PROVE Agree(c)
    <3> SUFFICES ASSUME NEW q \in 0 .. MaxChoice(b) - 1
                 PROVE  c.rows[q] = c.scroll + q
      BY <2>1 DEF Agree
    <3>1. CASE q = r
      BY <3>1, <1>6, <1>7 DEF Printed
    <3>2. CASE q # r
      <4>1. q + k \in 0 .. MaxChoice(b) - 1
        BY <3>2, <1>1
      <4>2. d.rows[q] = b.scroll + (q + k)
        BY <4>1, <1>2, <2>2 DEF Agree
      <4>3. c.rows[q] = d.rows[q]
        BY <3>2, <1>6, <1>7 DEF Printed
      <4> QED BY <4>2, <4>3, <1>1, <1>2, <1>7 DEF Printed
    <3> QED BY <3>1, <3>2
  <2>3. Same(c, b)
    BY <1>2, <1>7 DEF Same, Printed
  <2>4. Placed(c)
    BY <1>1, <1>2, <1>7, <2>1, <2>3 DEF Placed, Listing, Same, Printed
  <2>5. Listing(c, s)
    BY <1>3, <1>7, <2>1, <2>2, <2>3, <2>4 DEF Listing, Same, Printed
  <2> QED BY <1>2, <1>7, <2>3, <2>5 DEF Printed
<1>8. ~b.torn => d.lit \cup {r} = {r} /\ d.lit \ {r} = {}
  BY <1>2 DEF Listing
<1> QED BY <1>5, <1>7, <1>8 DEF d

(* The highlight is to be on another row of the window.                        *)
LEMMA Moved ==
    ASSUME NEW b, Listing(b, {}), NEW r \in 0 .. MaxChoice(b) - 1
    PROVE  LET c == [b EXCEPT !.choice = r] IN Listing(c, {}) /\ Same(c, b)
<1> DEFINE c == [b EXCEPT !.choice = r]
<1>1. b \in ListRec(Window(b)) /\ MaxChoice(b) \in Nat
  BY RowsInUse DEF Listing
<1>2. c \in ListRec(Window(b))
  BY <1>1 DEF ListRec
<1>3. /\ Same(c, b) /\ c.choice = r /\ c.scroll = b.scroll /\ c.rows = b.rows /\ c.lit = b.lit
  BY <1>1 DEF ListRec, Same
<1>4. MaxChoice(c) = MaxChoice(b) /\ Window(c) = Window(b)
  BY <1>3, SameWindow
<1> HIDE DEF c
<1>5. Listing(c, {})
  BY <1>2, <1>3, <1>4 DEF Listing, Same, Placed, Agree
<1> QED BY <1>3, <1>5 DEF c

-------------------------------------------------------------------------------
(* The keys of the menu box leave the place in the list good.                  *)
Kept(b) == {c \in ListRec(Window(b)) : Listing(c, {}) /\ Same(c, b)}

LEMMA KeptStep ==
    ASSUME NEW b, NEW c, NEW d, c \in Kept(b), Listing(d, {}), Same(d, c)
    PROVE  d \in Kept(b)
<1>1. Same(d, b)
  BY DEF Kept, Same
<1>2. Window(d) = Window(b)
  BY <1>1, SameWindow
<1> QED BY <1>1, <1>2 DEF Kept, Listing

UpStep(c) ==
    IF c.scroll > 0 THEN Put(DoScroll(c, -1), 0, FALSE)
    ELSE [c EXCEPT !.choice = Larger(@ - 1, 0)]
DownStep(c, last) ==
    IF c.scroll + MaxChoice(c) < c.n THEN Put(DoScroll(c, 1), last, FALSE)
    ELSE [c EXCEPT !.choice = Smaller(@ + 1, last)]

(* One line up, or down.                                                       *)
LEMMA LineUp ==
    ASSUME NEW b, Listing(b, {})
    PROVE  /\ b.scroll > 0 => LET c == Put(DoScroll(b, -1), 0, FALSE) IN Listing(c, {}) /\ Same(c, b)
           /\ LET c == [b EXCEPT !.choice = Larger(@ - 1, 0)] IN Listing(c, {}) /\ Same(c, b)
<1>1. /\ b.scroll \in Int /\ b.choice \in 0 .. MaxChoice(b) - 1 /\ MaxChoice(b) \in Nat
      /\ b.n \in Nat /\ b.scroll >= 0 /\ b.scroll + MaxChoice(b) <= b.n
  BY RowsInUse DEF Listing, ListRec, Placed
<1>2. b.scroll > 0 => b.scroll + -1 >= 0 /\ b.scroll + -1 + MaxChoice(b) <= b.n
  BY <1>1
<1>3. Larger(b.choice - 1, 0) \in 0 .. MaxChoice(b) - 1
  BY <1>1 DEF Larger
<1>4. ASSUME b.scroll > 0
      PROVE  LET c == Put(DoScroll(b, -1), 0, FALSE) IN Listing(c, {}) /\ Same(c, b)
  <2> DEFINE k == -1
  <2>1. k \in {-1, 1} /\ 0 = (IF k = -1 THEN 0 ELSE MaxChoice(b) - 1)
    OBVIOUS
  <2>2. b.scroll + k >= 0 /\ b.scroll + k + MaxChoice(b) <= b.n
    BY <1>2, <1>4
  <2> HIDE DEF k
  <2>3. LET c == Put(DoScroll(b, k), 0, FALSE) IN Listing(c, {}) /\ Same(c, b)
    BY <2>1, <2>2, Scrolled
  <2> QED BY <2>3 DEF k
<1> QED BY <1>3, <1>4, Moved

LEMMA LineDown ==
    ASSUME NEW b, Listing(b, {})
    PROVE  /\ b.scroll + MaxChoice(b) < b.n =>
              LET c == Put(DoScroll(b, 1), MaxChoice(b) - 1, FALSE) IN Listing(c, {}) /\ Same(c, b)
           /\ LET c == [b EXCEPT !.choice = Smaller(@ + 1, MaxChoice(b) - 1)] IN
              Listing(c, {}) /\ Same(c, b)
<1>1. /\ b.scroll \in Int /\ b.choice \in 0 .. MaxChoice(b) - 1 /\ MaxChoice(b) \in Nat
      /\ b.n \in Nat /\ b.scroll >= 0 /\ b.scroll + MaxChoice(b) <= b.n
  BY RowsInUse DEF Listing, ListRec, Placed
<1>2. b.scroll + MaxChoice(b) < b.n => b.scroll + 1 >= 0 /\ b.scroll + 1 + MaxChoice(b) <= b.n
  BY <1>1
<1>3. Smaller(b.choice + 1, MaxChoice(b) - 1) \in 0 .. MaxChoice(b) - 1
  BY <1>1 DEF Smaller
<1>4. ASSUME b.scroll + MaxChoice(b) < b.n
      PROVE  LET c == Put(DoScroll(b, 1), MaxChoice(b) - 1, FALSE) IN Listing(c, {}) /\ Same(c, b)
  <2> DEFINE k == 1
             r == MaxChoice(b) - 1
  <2>1. k \in {-1, 1} /\ r = (IF k = -1 THEN 0 ELSE MaxChoice(b) - 1)
    OBVIOUS
  <2>2. b.scroll + k >= 0 /\ b.scroll + k + MaxChoice(b) <= b.n
    BY <1>2, <1>4
  <2> HIDE DEF k, r
  <2>3. LET c == Put(DoScroll(b, k), r, FALSE) IN Listing(c, {}) /\ Same(c, b)
    BY <2>1, <2>2, Scrolled
  <2> QED BY <2>3 DEF k, r
<1> QED BY <1>3, <1>4, Moved

LEMMA UpAndDown ==
    ASSUME NEW b, Listing(b, {})
    PROVE  /\ Listing(MenuUp(b), {}) /\ Same(MenuUp(b), b)
           /\ Listing(MenuDown(b), {}) /\ Same(MenuDown(b), b)
<1>1. /\ b.scroll \in Int /\ b.choice \in Int /\ MaxChoice(b) \in Nat
      /\ b.n \in Nat /\ b.scroll >= 0
  BY RowsInUse DEF Listing, ListRec, Placed
<1>2. b.scroll # 0 => b.scroll > 0
  BY <1>1
<1>3. Listing(MenuUp(b), {}) /\ Same(MenuUp(b), b)
  BY <1>2, LineUp DEF MenuUp
<1>4. Listing(MenuDown(b), {}) /\ Same(MenuDown(b), b)
  BY LineDown DEF MenuDown
<1> QED BY <1>3, <1>4

(* A page is as many lines: the loops of the page keys keep the place.         *)
LEMMA PageUp ==
    ASSUME NEW b, Listing(b, {})
    PROVE  MenuPageUp(b) \in Kept(b)
<1> DEFINE n == MaxChoice(b)
           V == Kept(b)
           F == [c \in V |-> UpStep(c)]
           after == CHOOSE f : f = [k \in 0 .. n |-> IF k = 0 THEN b ELSE UpStep(f[k - 1])]
<1>1. b \in V /\ n \in Nat
  BY RowsInUse DEF Kept, Same, Listing
<1>2. ASSUME NEW c \in V PROVE UpStep(c) \in V
  <2>1. Listing(c, {}) /\ MaxChoice(c) = MaxChoice(b)
    BY SameWindow DEF Kept
  <2>2. Listing(UpStep(c), {}) /\ Same(UpStep(c), c)
    BY <2>1, LineUp DEF UpStep
  <2> QED BY <2>2, KeptStep
<1>3. F \in [V -> V]
  BY <1>2
<1>4. \A c \in V : F[c] = UpStep(c)
  OBVIOUS
<1>5. MenuPageUp(b) = after[n]
  BY DEF MenuPageUp, UpStep
<1> HIDE DEF n, V, F
<1>6. PICK h : Repeats(h, V, b, F, n)
  BY <1>1, <1>3, Repetition
<1>7. \A k \in 0 .. n : k # 0 => k - 1 \in 0 .. n
  BY <1>1
<1>8. h = [k \in 0 .. n |-> IF k = 0 THEN b ELSE UpStep(h[k - 1])]
  BY <1>4, <1>6, <1>7 DEF Repeats
<1>9. after = [k \in 0 .. n |-> IF k = 0 THEN b ELSE UpStep(after[k - 1])]
  BY <1>8
<1> HIDE DEF after
<1> DEFINE P == {k \in 0 .. n : after[k] \in V}
<1>10. 0 \in P
  BY <1>1, <1>9
<1>11. ASSUME NEW k \in 0 .. n - 1, k \in P
       PROVE  k + 1 \in P
  <2>1. k + 1 \in 0 .. n /\ k + 1 # 0 /\ (k + 1) - 1 = k
    BY <1>1
  <2>2. after[k + 1] = UpStep(after[k])
    BY <1>9, <2>1
  <2>3. after[k + 1] \in V
    BY <1>2, <1>11, <2>2
  <2> QED BY <2>1, <2>3
<1>12. P \in SUBSET (0 .. n) /\ n \in 0 .. n
  BY <1>1
<1> HIDE DEF P
<1>13. n \in P
  BY <1>1, <1>10, <1>11, <1>12, UpTo
<1> QED BY <1>5, <1>13 DEF P, V

LEMMA PageDown ==
    ASSUME NEW b, Listing(b, {})
    PROVE  MenuPageDown(b) \in Kept(b)
<1> DEFINE n == MaxChoice(b)
           V == Kept(b)
           F == [c \in V |-> DownStep(c, MaxChoice(b) - 1)]
           after == CHOOSE f : f = [k \in 0 .. n |-> IF k = 0 THEN b ELSE DownStep(f[k - 1], MaxChoice(b) - 1)]
<1>1. b \in V /\ n \in Nat
  BY RowsInUse DEF Kept, Same, Listing
<1>2. ASSUME NEW c \in V PROVE DownStep(c, MaxChoice(b) - 1) \in V
  <2>1. Listing(c, {}) /\ MaxChoice(c) = MaxChoice(b)
    BY SameWindow DEF Kept
  <2>2. Listing(DownStep(c, MaxChoice(b) - 1), {}) /\ Same(DownStep(c, MaxChoice(b) - 1), c)
    BY <2>1, LineDown DEF DownStep
  <2> QED BY <2>2, KeptStep
<1>3. F \in [V -> V]
  BY <1>2
<1>4. \A c \in V : F[c] = DownStep(c, MaxChoice(b) - 1)
  OBVIOUS
<1>5. MenuPageDown(b) = after[n]
  BY DEF MenuPageDown, DownStep
<1> HIDE DEF n, V, F
<1>6. PICK h : Repeats(h, V, b, F, n)
  BY <1>1, <1>3, Repetition
<1>7. \A k \in 0 .. n : k # 0 => k - 1 \in 0 .. n
  BY <1>1
<1>8. h = [k \in 0 .. n |-> IF k = 0 THEN b ELSE DownStep(h[k - 1], MaxChoice(b) - 1)]
  BY <1>4, <1>6, <1>7 DEF Repeats
<1>9. after = [k \in 0 .. n |-> IF k = 0 THEN b ELSE DownStep(after[k - 1], MaxChoice(b) - 1)]
  BY <1>8
<1> HIDE DEF after
<1> DEFINE P == {k \in 0 .. n : after[k] \in V}
<1>10. 0 \in P
  BY <1>1, <1>9
<1>11. ASSUME NEW k \in 0 .. n - 1, k \in P
       PROVE  k + 1 \in P
  <2>1. k + 1 \in 0 .. n /\ k + 1 # 0 /\ (k + 1) - 1 = k
    BY <1>1
  <2>2. after[k + 1] = DownStep(after[k], MaxChoice(b) - 1)
    BY <1>9, <2>1
  <2>3. after[k + 1] \in V
    BY <1>2, <1>11, <2>2
  <2> QED BY <2>1, <2>3
<1>12. P \in SUBSET (0 .. n) /\ n \in 0 .. n
  BY <1>1
<1> HIDE DEF P
<1>13. n \in P
  BY <1>1, <1>10, <1>11, <1>12, UpTo
<1> QED BY <1>5, <1>13 DEF P, V

-------------------------------------------------------------------------------
(* What a list shows does not depend on its other fields.                      *)
Shows(b) == Listing(b, {b.choice}) \/ Empty(b)
SamePlace(c, b) ==
    /\ c.kind = b.kind /\ c.n = b.n /\ c.height = b.height /\ c.active = b.active
    /\ c.torn = b.torn /\ c.scroll = b.scroll /\ c.choice = b.choice
    /\ c.rows = b.rows /\ c.lit = b.lit

LEMMA PlaceShows ==
    ASSUME NEW b, Shows(b), NEW c \in ListRec(Window(b)), SamePlace(c, b), c.phase # "crashed"
    PROVE  Shows(c)
<1>1. MaxChoice(c) = MaxChoice(b) /\ Window(c) = Window(b)
  BY DEF SamePlace, MaxChoice, Window
<1>2. Placed(b) => Placed(c)
  BY <1>1 DEF SamePlace, Placed
<1>3. Agree(b) => Agree(c)
  BY <1>1 DEF SamePlace, Agree
<1>4. CASE Listing(b, {b.choice})
  <2>1. Listing(c, {c.choice})
    BY <1>1, <1>2, <1>3, <1>4 DEF Listing, SamePlace
  <2> QED BY <2>1 DEF Shows
<1>5. CASE Empty(b)
  BY <1>1, <1>5 DEF Empty, SamePlace, Shows
<1> QED BY <1>4, <1>5 DEF Shows

LEMMA Shown == ASSUME NEW b, Shows(b) PROVE b \in ListRec(Window(b)) /\ b.phase # "crashed"
BY DEF Shows, Listing, Empty

LEMMA TouchedShows ==
    ASSUME NEW b, Shows(b)
    PROVE  Shows(Touched(b)) /\ Same(Touched(b), b)
<1> DEFINE c == Touched(b)
<1>1. c \in ListRec(Window(b))
  BY Shown DEF Touched, ListRec
<1>2. SamePlace(c, b) /\ c.phase # "crashed" /\ Same(c, b)
  BY Shown DEF Touched, ListRec, SamePlace, Same
<1> HIDE DEF c
<1>3. Shows(c)
  BY <1>1, <1>2, PlaceShows
<1> QED BY <1>2, <1>3 DEF c

LEMMA ButtonedShows ==
    ASSUME NEW b, Shows(b), NEW step \in {-1, 1}
    PROVE  Shows(Buttoned(b, step)) /\ Same(Buttoned(b, step), b)
<1> DEFINE k == (b.button + step + Buttons(b.kind)) % Buttons(b.kind)
           c == [b EXCEPT !.button = k, !.drawn = k]
<1>1. k \in Int
  <2>1. Buttons(b.kind) \in Nat \ {0} /\ b.button \in Int
    BY Shown DEF Buttons, ListRec
  <2>2. b.button + step + Buttons(b.kind) \in Int
    BY <2>1
  <2> QED BY <2>1, <2>2
<1>2. Buttoned(b, step) = c
  BY Shown DEF Buttoned, PrintButtons, ListRec
<1> HIDE DEF k
<1>3. c \in ListRec(Window(b))
  BY <1>1, Shown DEF ListRec
<1>4. SamePlace(c, b) /\ c.phase # "crashed" /\ Same(c, b)
  BY Shown DEF ListRec, SamePlace, Same
<1> HIDE DEF c
<1>5. Shows(c)
  BY <1>3, <1>4, PlaceShows
<1> QED BY <1>2, <1>4, <1>5

(* Enter and the other answers name the highlighted item.                      *)
LEMMA AnswerShows ==
    ASSUME NEW b, Shows(b), NEW code \in Int, NEW saved \in Int,
           NEW c, c = [b EXCEPT !.phase = "answered", !.code = code, !.fresh = FALSE, !.saved = saved,
                                !.item = IF b.n = 0 THEN None ELSE b.scroll + b.choice]
    PROVE  Shows(c) /\ Answered(c)
<1> DEFINE item == IF b.n = 0 THEN None ELSE b.scroll + b.choice
<1>1. b \in ListRec(Window(b))
  BY Shown
<1>2. item \in -1 .. b.n - 1 /\ item \in Int
  <2>1. b.n \in Nat /\ b.scroll \in Int /\ MaxChoice(b) \in Nat
    BY <1>1, RowsInUse DEF ListRec
  <2>2. b.n # 0 => Placed(b)
    BY DEF Shows, Listing, Empty
  <2>3. b.n # 0 => b.scroll + b.choice \in 0 .. b.n - 1
    BY <2>1, <2>2 DEF Placed
  <2> QED BY <2>1, <2>3 DEF None
<1> HIDE DEF item
<1>3. c = [b EXCEPT !.phase = "answered", !.code = code, !.fresh = FALSE, !.saved = saved, !.item = item]
  BY DEF item
<1>4. c \in ListRec(Window(b))
  <2> DEFINE d == [b EXCEPT !.phase = "answered", !.code = code, !.fresh = FALSE]
  <2>1. d \in ListRec(Window(b))
    BY <1>1 DEF ListRec
  <2>2. c = [d EXCEPT !.saved = saved, !.item = item]
    BY <1>3
  <2> HIDE DEF d
  <2>3. [d EXCEPT !.saved = saved, !.item = item] \in ListRec(Window(b))
    BY <1>2, <2>1 DEF ListRec
  <2> QED BY <2>2, <2>3
<1>5. SamePlace(c, b) /\ c.phase # "crashed" /\ c.item = item
  BY <1>1, <1>3 DEF ListRec, SamePlace
<1>6. Shows(c)
  BY <1>4, <1>5, PlaceShows
<1>7. Answered(c)
  BY <1>2, <1>5 DEF Answered, SamePlace
<1> QED BY <1>6, <1>7

-------------------------------------------------------------------------------
LEMMA NewRows ==
    ASSUME NEW Q, NEW R, NEW b \in ListRec(Q), NEW w \in R, NEW l \in SUBSET Int
    PROVE  [b EXCEPT !.rows = w, !.lit = l, !.drawn = 0] \in ListRec(R)
<1>1. [b EXCEPT !.rows = w] \in ListRec(R)
  BY DEF ListRec
<1>2. [[b EXCEPT !.rows = w] EXCEPT !.lit = l] \in ListRec(R)
  BY <1>1 DEF ListRec
<1>3. ASSUME NEW c \in ListRec(R), NEW k \in Int
      PROVE  [c EXCEPT !.drawn = k] \in ListRec(R)
  BY DEF ListRec
<1>4. [b EXCEPT !.rows = w, !.lit = l, !.drawn = 0]
         = [[[b EXCEPT !.rows = w] EXCEPT !.lit = l] EXCEPT !.drawn = 0]
  OBVIOUS
<1> DEFINE c == [[b EXCEPT !.rows = w] EXCEPT !.lit = l]
<1>5. c \in ListRec(R)
  BY <1>2
<1> HIDE DEF c
<1>6. [c EXCEPT !.drawn = 0] \in ListRec(R)
  BY <1>3, <1>5
<1> QED BY <1>4, <1>6 DEF c

(* The drawing of a whole window from a row: the one the place in the list     *)
(* names, or any row after a resize.                                           *)
LEMMA Drawing ==
    ASSUME NEW R, NEW b \in ListRec(R), b.phase = "open", NEW from \in Int,
           -1 <= b.active, b.active < b.n,
           b.n # 0 => Placed(b),
           b.n = 0 => b.choice = 0 /\ b.scroll = 0 /\ from = 0,
           ~b.torn => from = b.scroll, b.kind = "list" => ~b.torn
    PROVE  LET c == PrintButtons(DrawRows(b, from), 0) IN (Shows(c) /\ c.phase = "open") \/ Lost(c)
<1> DEFINE m == MaxChoice(b)
           w == [r \in 0 .. m - 1 |-> from + r]
           l == {b.choice} \cap (0 .. m - 1)
           c == [b EXCEPT !.rows = w, !.lit = l, !.drawn = 0]
           d == PrintButtons(DrawRows(b, from), 0)
<1>1. m \in Nat /\ b.n \in Nat /\ (b.n # 0 => m >= 1) /\ (b.n = 0 => m = 0)
      /\ b.choice \in Int /\ b.scroll \in Int /\ b.kind \in {"menu", "list"}
  BY RowsInUse DEF ListRec
<1>2. CASE from + m > b.n
  <2>1. d = [b EXCEPT !.phase = "crashed", !.drawn = 0]
    BY <1>2 DEF DrawRows, PrintButtons
  <2>2. d.phase = "crashed" /\ d.kind = b.kind /\ d.torn = b.torn
    BY <2>1 DEF ListRec
  <2>3. b.torn
    BY <1>1, <1>2 DEF Placed
  <2>4. b.torn = TRUE
    BY <2>3 DEF ListRec
  <2> QED BY <1>1, <2>2, <2>3, <2>4 DEF Lost
<1>3. CASE ~ (from + m > b.n)
  <2>1. d = c
    BY <1>3 DEF DrawRows, PrintButtons
  <2>2. w \in Window(b) /\ l \in SUBSET Int
    BY <1>1 DEF Window
  <2>3. \A r \in 0 .. m - 1 : w[r] = from + r
    OBVIOUS
  <2>4. b.n # 0 => l = {b.choice}
    BY <1>1 DEF Placed
  <2> HIDE DEF w, l
  <2>5. c \in ListRec(Window(b))
    BY <2>2, NewRows
  <2>6. Same(c, b) /\ c.scroll = b.scroll /\ c.choice = b.choice /\ c.rows = w /\ c.lit = l
    BY DEF ListRec, Same
  <2> HIDE DEF c, d, m
  <2>7. MaxChoice(c) = m /\ Window(c) = Window(b)
    BY <2>6, SameWindow DEF m
  <2>8. CASE b.n # 0
    <3>1. Placed(c)
      BY <2>6, <2>7, <2>8 DEF Placed, Same, m
    <3>2. ~b.torn => Agree(c) /\ c.lit = {c.choice}
      BY <2>3, <2>4, <2>6, <2>7, <2>8 DEF Agree
    <3>3. Listing(c, {c.choice})
      BY <2>5, <2>6, <2>7, <2>8, <3>1, <3>2 DEF Listing, Same
    <3> QED BY <2>1, <2>6, <3>3 DEF Shows, Same, d
  <2>9. CASE b.n = 0
    <3>1. b.active = None
      BY <2>9 DEF None, ListRec
    <3>2. Empty(c)
      BY <2>5, <2>6, <2>7, <2>9, <3>1 DEF Empty, Same
    <3> QED BY <2>1, <2>6, <3>2 DEF Shows, Same, d
  <2> QED BY <2>8, <2>9
<1> QED BY <1>2, <1>3

(* The item in the middle of the window, or the window at the end of the list. *)
LEMMA InTheMiddle ==
    ASSUME NEW n \in Nat, NEW m \in Nat, NEW wanted \in 0 .. n - 1, 1 <= m, m <= n, wanted >= m,
           NEW middle, middle = IF wanted >= n - m \div 2 THEN n - m ELSE wanted - m \div 2
    PROVE  middle \in Int /\ middle >= 0 /\ middle + m <= n /\ wanted - middle \in 0 .. m - 1
OBVIOUS

LEMMA MenuPlace ==
    ASSUME NEW n \in Nat, NEW m \in Nat, m <= n, n # 0 => m >= 1, NEW wanted \in Int,
           n # 0 => wanted \in 0 .. n - 1, n = 0 => wanted = 0, NEW saved \in Int,
           NEW scroll,
           \/ scroll = saved /\ saved <= wanted /\ wanted < saved + m /\ saved >= 0 /\ saved + m <= n
           \/ scroll = 0,
           NEW choice, choice = wanted - scroll,
           NEW middle, middle = (IF choice >= n - m \div 2 THEN n - m ELSE choice - m \div 2)
    PROVE  /\ scroll \in Int /\ choice \in Int /\ middle \in Int
           /\ choice < m => n # 0 /\ scroll >= 0 /\ scroll + m <= n /\ choice \in 0 .. m - 1
           /\ ~ (choice < m) => /\ n # 0 => middle >= 0 /\ middle + m <= n
                                           /\ choice - middle \in 0 .. m - 1
                                /\ n = 0 => choice = 0 /\ middle = 0
<1>1. scroll \in Int /\ choice \in Int /\ middle \in Int
  <2>1. scroll \in Int
    OBVIOUS
  <2>2. choice \in Int
    BY <2>1
  <2> QED BY <2>1, <2>2
<1>2. CASE n = 0
  <2>1. m = 0 /\ scroll = 0
    BY <1>2
  <2>2. scroll = 0 /\ choice = 0
    BY <1>2, <2>1
  <2>3. middle = 0
    BY <1>2, <2>1, <2>2
  <2> QED BY <1>1, <1>2, <2>1, <2>2, <2>3
<1>3. CASE n # 0
  <2>1. CASE scroll = saved /\ saved <= wanted /\ wanted < saved + m /\ saved >= 0 /\ saved + m <= n
    BY <1>1, <1>3, <2>1
  <2>2. CASE scroll = 0
    <3>1. scroll = 0 /\ choice = wanted
      BY <2>2
    <3>2. choice < m => choice \in 0 .. m - 1
      BY <1>3, <3>1
    <3>3. ~ (choice < m) => middle >= 0 /\ middle + m <= n /\ choice - middle \in 0 .. m - 1
      BY <1>3, <3>1, InTheMiddle
    <3> QED BY <1>1, <1>3, <3>1, <3>2, <3>3
  <2> QED BY <2>1, <2>2
<1> QED BY <1>2, <1>3

LEMMA MenuSetUp ==
    ASSUME NEW R, NEW b \in ListRec(R), b.phase = "open", b.kind = "menu",
           -1 <= b.active, b.active < b.n,
           b.n # 0 => b.choice \in 0 .. b.n - 1, b.n = 0 => b.choice = 0
    PROVE  LET c == SetUpMenu(b) IN (Shows(c) /\ c.phase = "open") \/ Lost(c)
<1> DEFINE max    == MaxChoice(b)
           wanted == IF b.active # None THEN b.active ELSE b.choice
           keep   == /\ b.saved <= wanted /\ wanted < b.saved + max
                     /\ b.saved >= 0 /\ b.saved + max <= b.n
           scroll == IF keep THEN b.saved ELSE 0
           choice == wanted - scroll
           middle == IF choice >= b.n - max \div 2 THEN b.n - max ELSE choice - max \div 2
           Draws(p) == PrintButtons(DrawRows([p EXCEPT !.torn = p.first # p.scroll], p.first), 0)
           Good(c) == (Shows(c) /\ c.phase = "open") \/ Lost(c)
<1>1. /\ max \in Nat /\ max <= b.n /\ b.n \in Nat /\ (b.n # 0 => max >= 1)
      /\ b.active \in Int /\ b.choice \in Int /\ b.saved \in Int /\ b.first \in Int
  BY RowsInUse DEF ListRec
<1>2. wanted \in Int /\ (b.n # 0 => wanted \in 0 .. b.n - 1) /\ (b.n = 0 => wanted = 0)
  BY <1>1 DEF None
<1>3. \/ /\ scroll = b.saved /\ b.saved <= wanted /\ wanted < b.saved + max
         /\ b.saved >= 0 /\ b.saved + max <= b.n
      \/ scroll = 0
  OBVIOUS
<1>4. /\ scroll \in Int /\ choice \in Int /\ middle \in Int
      /\ choice < max => b.n # 0 /\ scroll >= 0 /\ scroll + max <= b.n /\ choice \in 0 .. max - 1
      /\ ~ (choice < max) => /\ b.n # 0 => middle >= 0 /\ middle + max <= b.n
                                              /\ choice - middle \in 0 .. max - 1
                             /\ b.n = 0 => choice = 0 /\ middle = 0
  <2>1. choice = wanted - scroll
    OBVIOUS
  <2>2. middle = (IF choice >= b.n - max \div 2 THEN b.n - max ELSE choice - max \div 2)
    OBVIOUS
  <2>3. max \in Nat /\ max <= b.n /\ b.n \in Nat /\ (b.n # 0 => max >= 1) /\ b.saved \in Int
    BY <1>1
  <2> HIDE DEF wanted, max, scroll, choice, middle
  <2> QED BY <1>2, <1>3, <2>1, <2>2, <2>3, MenuPlace
<1>5. SetUpMenu(b) = IF choice < max
                     THEN Draws([b EXCEPT !.scroll = scroll, !.choice = choice,
                                          !.first = IF keep THEN scroll ELSE @])
                     ELSE Draws([b EXCEPT !.scroll = middle, !.choice = choice - middle,
                                          !.first = middle])
  <2> DEFINE placed == IF choice < max
                       THEN [b EXCEPT !.scroll = scroll, !.choice = choice,
                                      !.first = IF keep THEN scroll ELSE @]
                       ELSE [b EXCEPT !.scroll = middle, !.choice = choice - middle,
                                      !.first = middle]
  <2>1. SetUpMenu(b) = Draws(placed)
    BY DEF SetUpMenu
  <2> HIDE DEF Draws
  <2> QED BY <2>1
<1>6. ASSUME NEW s \in Int, NEW r \in Int, NEW f \in Int,
             b.n # 0 => s >= 0 /\ s + max <= b.n /\ r \in 0 .. max - 1,
             b.n = 0 => s = 0 /\ r = 0 /\ f = 0
      PROVE  Good(Draws([b EXCEPT !.scroll = s, !.choice = r, !.first = f]))
  <2> DEFINE p == [b EXCEPT !.scroll = s, !.choice = r, !.first = f]
  <2>1. p \in ListRec(R)
    BY DEF ListRec
  <2>2. Same(p, b) /\ p.scroll = s /\ p.choice = r /\ p.first = f
    BY DEF ListRec, Same
  <2> HIDE DEF p
  <2> DEFINE t == f # s
             q == [p EXCEPT !.torn = t]
  <2>3. t \in BOOLEAN
    OBVIOUS
  <2> HIDE DEF t
  <2>4. q \in ListRec(R)
    BY <2>1, <2>3 DEF ListRec
  <2>5. /\ q.kind = p.kind /\ q.phase = p.phase /\ q.n = p.n /\ q.height = p.height
        /\ q.active = p.active /\ q.scroll = s /\ q.choice = r
    BY <2>1, <2>2 DEF ListRec
  <2>6. q.torn = t
    BY <2>1 DEF ListRec
  <2> HIDE DEF q
  <2>7. q.n = b.n /\ q.phase = "open" /\ q.kind = "menu" /\ q.active = b.active /\ MaxChoice(q) = max
    BY <2>2, <2>5 DEF Same, MaxChoice
  <2>8. ~q.torn => f = q.scroll
    BY <2>5, <2>6 DEF t
  <2>9. b.n # 0 => Placed(q)
    BY <1>6, <2>5, <2>7 DEF Placed
  <2>10. Good(PrintButtons(DrawRows(q, f), 0))
    BY <1>6, <2>4, <2>5, <2>7, <2>8, <2>9, Drawing
  <2> QED BY <2>2, <2>10 DEF p, q, t
<1> HIDE DEF Good, Draws
<1>7. CASE choice < max
  <2> DEFINE f == IF keep THEN scroll ELSE b.first
  <2>1. f \in Int
    <3> HIDE DEF keep, scroll
    <3> QED BY <1>1, <1>4
  <2>2. SetUpMenu(b) = Draws([b EXCEPT !.scroll = scroll, !.choice = choice, !.first = f])
    BY <1>5, <1>7
  <2> HIDE DEF f, scroll, choice, max
  <2>3. Good(Draws([b EXCEPT !.scroll = scroll, !.choice = choice, !.first = f]))
    BY <1>4, <1>6, <1>7, <2>1
  <2> QED BY <2>2, <2>3 DEF Good
<1>8. CASE ~ (choice < max)
  <2>1. SetUpMenu(b) = Draws([b EXCEPT !.scroll = middle, !.choice = choice - middle, !.first = middle])
    BY <1>5, <1>8
  <2> HIDE DEF middle, choice, max
  <2>2. choice - middle \in Int /\ (b.n = 0 => choice - middle = 0)
    BY <1>4, <1>8
  <2>3. Good(Draws([b EXCEPT !.scroll = middle, !.choice = choice - middle, !.first = middle]))
    BY <1>4, <1>6, <1>8, <2>2
  <2> QED BY <2>1, <2>3 DEF Good
<1> QED BY <1>7, <1>8

(* The radio list is set up on its chosen item, or where it is.                *)
LEMMA ListSetUp ==
    ASSUME NEW R, NEW b \in ListRec(R), b.phase = "open", b.kind = "list", ~b.torn,
           -1 <= b.active, b.active < b.n, b.n = 0 => b.choice = 0 /\ b.scroll = 0,
           b.n # 0 => IF b.fresh /\ b.active # None THEN b.scroll = 0 ELSE Placed(b)
    PROVE  LET c == SetUpList(b) IN (Shows(c) /\ c.phase = "open") \/ Lost(c)
<1> DEFINE max    == MaxChoice(b)
           wanted == IF b.fresh /\ b.active # None THEN b.active ELSE b.choice
           over   == IF wanted >= b.height THEN wanted - b.height + 1 ELSE 0
           s      == b.scroll + over
           r      == wanted - over
           p      == [b EXCEPT !.scroll = s, !.choice = r]
<1>1. /\ max \in Nat /\ max <= b.n /\ max <= b.height /\ b.n \in Nat /\ b.height \in Nat \ {0}
      /\ b.n >= b.height => max = b.height
      /\ b.n <= b.height => max = b.n
      /\ b.active \in Int /\ b.choice \in Int /\ b.scroll \in Int
  BY RowsInUse DEF ListRec
<1>2. wanted \in Int
  <2> QED BY <1>1
<1>3. over \in Int /\ s \in Int /\ r \in Int
  <2> HIDE DEF wanted
  <2> QED BY <1>1, <1>2
<1>4. b.n # 0 => s >= 0 /\ s + max <= b.n /\ r \in 0 .. max - 1
  <2> SUFFICES ASSUME b.n # 0 PROVE s >= 0 /\ s + max <= b.n /\ r \in 0 .. max - 1
    OBVIOUS
  <2>1. CASE b.fresh /\ b.active # None
    <3>1. wanted = b.active /\ b.scroll = 0 /\ wanted \in 0 .. b.n - 1
      BY <1>1, <2>1 DEF None
    <3> HIDE DEF wanted, max
    <3>2. CASE wanted >= b.height
      BY <1>1, <3>1, <3>2
    <3>3. CASE ~ (wanted >= b.height)
      BY <1>1, <3>1, <3>3
    <3> QED BY <3>2, <3>3
  <2>2. CASE ~ (b.fresh /\ b.active # None)
    <3>1. wanted = b.choice /\ Placed(b)
      BY <2>2
    <3>2. wanted \in 0 .. max - 1 /\ b.scroll >= 0 /\ b.scroll + max <= b.n
      BY <3>1 DEF Placed
    <3> HIDE DEF wanted, max
    <3> QED BY <1>1, <3>2
  <2> QED BY <2>1, <2>2
<1>5. b.n = 0 => s = 0 /\ r = 0
  <2> SUFFICES ASSUME b.n = 0 PROVE s = 0 /\ r = 0
    OBVIOUS
  <2>1. wanted = 0
    BY <1>1 DEF None
  <2> HIDE DEF wanted
  <2> QED BY <1>1, <2>1
<1>6. SetUpList(b) = PrintButtons(DrawRows(p, p.scroll), 0)
  BY DEF SetUpList
<1> HIDE DEF max, wanted, over, s, r
<1>7. p \in ListRec(R)
  BY <1>3 DEF ListRec
<1>8. Same(p, b) /\ p.scroll = s /\ p.choice = r
  BY DEF ListRec, Same
<1> HIDE DEF p
<1>9. p.n = b.n /\ p.phase = "open" /\ p.kind = "list" /\ p.active = b.active /\ ~p.torn /\ MaxChoice(p) = max
  BY <1>8 DEF Same, MaxChoice, max
<1>10. p.n # 0 => Placed(p)
  BY <1>4, <1>8, <1>9 DEF Placed
<1>11. p.n = 0 => p.choice = 0 /\ p.scroll = 0
  BY <1>5, <1>8, <1>9
<1>12. p.scroll \in Int
  BY <1>3, <1>8
<1> QED BY <1>6, <1>7, <1>9, <1>10, <1>11, <1>12, Drawing

(* A fresh call of either box.                                                 *)
LEMMA FreshCall ==
    ASSUME NEW kind \in {"menu", "list"}, NEW n \in Counts, NEW height \in Heights,
           NEW active \in Int, NEW saved \in Int
    PROVE  LET b == Fresh(kind, n, height, active, saved) IN
           /\ b \in ListRec({<<>>}) /\ b.phase = "open" /\ b.kind = kind /\ b.n = n
           /\ b.active = active /\ b.choice = 0 /\ b.scroll = 0 /\ ~b.torn /\ b.fresh
           /\ b.height = height
<1>1. n \in Nat /\ height \in Nat \ {0} /\ 0 \in Int /\ None \in Int
  BY CountsAssumption, HeightsAssumption DEF None
<1> QED BY <1>1 DEF Fresh, ListRec, None

LEMMA MenuOpens ==
    ASSUME NEW n \in Counts, NEW height \in Heights, NEW active \in Int, NEW saved \in Int,
           -1 <= active, active < n
    PROVE  LET c == SetUpMenu(Fresh("menu", n, height, active, saved)) IN
           (Shows(c) /\ c.phase = "open") \/ Lost(c)
<1> DEFINE b == Fresh("menu", n, height, active, saved)
<1>1. /\ b \in ListRec({<<>>}) /\ b.phase = "open" /\ b.kind = "menu" /\ b.n = n
      /\ b.active = active /\ b.choice = 0
  BY FreshCall
<1>2. n \in Nat /\ (n # 0 => 0 \in 0 .. n - 1)
  BY CountsAssumption
<1> HIDE DEF b
<1>3. LET c == SetUpMenu(b) IN (Shows(c) /\ c.phase = "open") \/ Lost(c)
  BY <1>1, <1>2, MenuSetUp
<1> QED BY <1>3 DEF b

LEMMA ListOpens ==
    ASSUME NEW n \in Counts, NEW height \in Heights, NEW active \in Int, NEW saved \in Int,
           -1 <= active, active < n
    PROVE  LET c == SetUpList(Fresh("list", n, height, active, saved)) IN
           (Shows(c) /\ c.phase = "open") \/ Lost(c)
<1> DEFINE b == Fresh("list", n, height, active, saved)
<1>1. /\ b \in ListRec({<<>>}) /\ b.phase = "open" /\ b.kind = "list" /\ b.n = n
      /\ b.active = active /\ b.choice = 0 /\ b.scroll = 0 /\ ~b.torn /\ b.fresh
  BY FreshCall
<1> HIDE DEF b
<1>2. n \in Nat /\ MaxChoice(b) \in Nat /\ MaxChoice(b) <= n /\ (n # 0 => MaxChoice(b) >= 1)
  BY <1>1, CountsAssumption, RowsInUse
<1>3. b.n # 0 => Placed(b)
  BY <1>1, <1>2 DEF Placed
<1>4. LET c == SetUpList(b) IN (Shows(c) /\ c.phase = "open") \/ Lost(c)
  BY <1>1, <1>3, ListSetUp
<1> QED BY <1>4 DEF b

(* A resize keeps the menu on its item, or tears it, and the list as it is.    *)
LEMMA MenuResized ==
    ASSUME NEW b, Shows(b), b.phase = "open", b.kind = "menu", NEW height \in Heights
    PROVE  LET c == SetUpMenu(Touched([b EXCEPT !.height = height])) IN
           (Shows(c) /\ c.phase = "open") \/ Lost(c)
<1> DEFINE d == [b EXCEPT !.height = height, !.fresh = FALSE]
<1>1. Touched([b EXCEPT !.height = height]) = d
  BY DEF Touched
<1>2. b \in ListRec(Window(b)) /\ height \in Nat \ {0}
  BY Shown, HeightsAssumption
<1>3. d \in ListRec(Window(b))
  BY <1>2 DEF ListRec
<1>4. d.phase = "open" /\ d.kind = "menu" /\ d.n = b.n /\ d.active = b.active /\ d.choice = b.choice
  BY <1>2 DEF ListRec
<1> HIDE DEF d
<1>5. /\ MaxChoice(b) \in Nat /\ MaxChoice(b) <= b.n /\ b.n \in Nat
      /\ b.choice \in Int /\ b.active \in Int
  BY <1>2, RowsInUse DEF ListRec
<1>6. /\ -1 <= b.active /\ b.active < b.n
      /\ b.n # 0 => b.choice \in 0 .. b.n - 1
      /\ b.n = 0 => b.choice = 0
  <2>1. CASE Listing(b, {b.choice})
    BY <1>5, <2>1 DEF Listing, Placed
  <2>2. CASE Empty(b)
    BY <1>5, <2>2 DEF Empty, None
  <2> QED BY <2>1, <2>2 DEF Shows
<1>7. LET c == SetUpMenu(d) IN (Shows(c) /\ c.phase = "open") \/ Lost(c)
  BY <1>3, <1>4, <1>6, MenuSetUp
<1> QED BY <1>1, <1>7

LEMMA ListResized ==
    ASSUME NEW b, Shows(b), b.phase = "open", b.kind = "list"
    PROVE  LET c == SetUpList(Touched(b)) IN (Shows(c) /\ c.phase = "open") \/ Lost(c)
<1> DEFINE d == Touched(b)
<1>1. Shows(d) /\ Same(d, b)
  BY TouchedShows
<1>2. d.fresh = FALSE
  BY Shown DEF Touched, ListRec
<1> HIDE DEF d
<1>3. d \in ListRec(Window(d)) /\ d.phase = "open" /\ d.kind = "list"
  BY <1>1, Shown DEF Same
<1>4. CASE Listing(d, {d.choice})
  <2>1. ~d.torn /\ Placed(d) /\ -1 <= d.active /\ d.active < d.n /\ d.n # 0
    BY <1>3, <1>4 DEF Listing
  <2>2. LET c == SetUpList(d) IN (Shows(c) /\ c.phase = "open") \/ Lost(c)
    BY <1>2, <1>3, <2>1, ListSetUp
  <2> QED BY <2>2 DEF d
<1>5. CASE Empty(d)
  <2>1. /\ d.n = 0 /\ d.choice = 0 /\ d.scroll = 0 /\ -1 <= d.active /\ d.active < d.n
        /\ ~d.torn
    BY <1>3, <1>5 DEF Empty, None
  <2>2. LET c == SetUpList(d) IN (Shows(c) /\ c.phase = "open") \/ Lost(c)
    BY <1>2, <1>3, <2>1, ListSetUp
  <2> QED BY <2>2 DEF d
<1> QED BY <1>1, <1>4, <1>5 DEF Shows

-------------------------------------------------------------------------------
(* The menu of nconfig: the current item is in the list and in the window, and *)
(* the window leaves no empty row below the last item.                         *)
MenuRec(S) ==
    [kind : {"nmenu"}, phase : {"open", "answered", "crashed", "hung"}, n : Nat,
     height : Nat \ {0}, index : Int, last : Int, cur : Int, top : Int, search : S,
     fresh : BOOLEAN]
InWindow(b) ==
    /\ b.cur \in 0 .. b.n - 1
    /\ b.top >= 0 /\ b.top <= b.cur /\ b.cur < b.top + b.height
    /\ b.top <= Larger(b.n - b.height, 0)
Held(b) == b \in MenuRec({b.search}) /\ (b.n # 0 => InWindow(b))
Stays(c, b) == c.n = b.n /\ c.height = b.height /\ c.phase = b.phase

LEMMA HeldSizes ==
    ASSUME NEW b, Held(b)
    PROVE  /\ b.n \in Nat /\ b.height \in Nat \ {0} /\ b.cur \in Int /\ b.top \in Int
           /\ b.last \in Int /\ b.index \in Int
           /\ Larger(b.n - b.height, 0) \in Nat
           /\ b.n >= b.height => Larger(b.n - b.height, 0) = b.n - b.height
           /\ b.n <= b.height => Larger(b.n - b.height, 0) = 0
BY DEF Held, MenuRec, Larger

(* The window and the item in it are all that is told apart.                   *)
LEMMA Placing ==
    ASSUME NEW b, Held(b), NEW cur \in Int, NEW top \in Int,
           b.n # 0 => /\ cur \in 0 .. b.n - 1
                      /\ top >= 0 /\ top <= cur /\ cur < top + b.height
                      /\ top <= Larger(b.n - b.height, 0)
    PROVE  LET c == [b EXCEPT !.cur = cur, !.top = top] IN Held(c) /\ Stays(c, b)
<1> DEFINE c == [b EXCEPT !.cur = cur, !.top = top]
<1>1. b \in MenuRec({b.search})
  BY DEF Held
<1>2. c \in MenuRec({b.search})
  BY <1>1 DEF MenuRec
<1>3. Stays(c, b) /\ c.cur = cur /\ c.top = top /\ c.search = b.search
  BY <1>1 DEF MenuRec, Stays
<1> HIDE DEF c
<1>4. Held(c)
  BY <1>2, <1>3 DEF Held, InWindow, Stays
<1> QED BY <1>3, <1>4 DEF c

LEMMA AtItemHeld ==
    ASSUME NEW b, Held(b), NEW item \in 0 .. b.n - 1
    PROVE  Held(AtItem(b, item)) /\ Stays(AtItem(b, item), b)
<1> DEFINE top == IF item < b.top THEN item
                  ELSE IF item >= b.top + b.height THEN item - b.height + 1 ELSE b.top
<1>1. b.n # 0 /\ item \in Int
  BY HeldSizes
<1>2. top \in Int /\ top >= 0 /\ top <= item /\ item < top + b.height
      /\ top <= Larger(b.n - b.height, 0)
  <2>1. b.top >= 0 /\ b.top <= Larger(b.n - b.height, 0)
    BY <1>1 DEF Held, InWindow
  <2>2. CASE item < b.top
    BY <1>1, <2>1, <2>2, HeldSizes
  <2>3. CASE ~ (item < b.top) /\ item >= b.top + b.height
    <3>1. b.n >= b.height
      BY <2>1, <2>3, HeldSizes
    <3> QED BY <1>1, <2>1, <2>3, <3>1, HeldSizes
  <2>4. CASE ~ (item < b.top) /\ ~ (item >= b.top + b.height)
    BY <1>1, <2>1, <2>4, HeldSizes
  <2> QED BY <2>2, <2>3, <2>4
<1>3. AtItem(b, item) = [b EXCEPT !.cur = item, !.top = top]
  BY DEF AtItem
<1> HIDE DEF top
<1>4. LET c == [b EXCEPT !.cur = item, !.top = top] IN Held(c) /\ Stays(c, b)
  BY <1>1, <1>2, Placing
<1> QED BY <1>3, <1>4

LEMMA TopRowHeld ==
    ASSUME NEW b, Held(b), NEW row \in Int
    PROVE  Held(SetTopRow(b, row)) /\ Stays(SetTopRow(b, row), b)
<1>1. CASE row \in 0 .. Larger(b.n - b.height, 0) /\ row # b.top
  <2>1. b.n # 0 => row \in 0 .. b.n - 1 /\ row < row + b.height
    BY <1>1, HeldSizes
  <2>2. [b EXCEPT !.cur = row, !.top = row] = [b EXCEPT !.top = row, !.cur = row]
    BY DEF Held, MenuRec
  <2>3. row >= 0 /\ row <= row /\ row <= Larger(b.n - b.height, 0)
    BY <1>1, HeldSizes
  <2>4. LET c == [b EXCEPT !.cur = row, !.top = row] IN Held(c) /\ Stays(c, b)
    BY <2>1, <2>3, Placing
  <2> QED BY <1>1, <2>2, <2>4 DEF SetTopRow
<1>2. CASE ~ (row \in 0 .. Larger(b.n - b.height, 0) /\ row # b.top)
  BY <1>2 DEF SetTopRow, Stays
<1> QED BY <1>1, <1>2

LEMMA CurrentHeld ==
    ASSUME NEW b, Held(b), NEW item \in Int
    PROVE  Held(SetCurrentItem(b, item)) /\ Stays(SetCurrentItem(b, item), b)
BY AtItemHeld DEF SetCurrentItem, Stays

LEMMA LastHeld ==
    ASSUME NEW b, Held(b), NEW last \in Int
    PROVE  LET c == [b EXCEPT !.last = last] IN Held(c) /\ Stays(c, b)
<1> DEFINE c == [b EXCEPT !.last = last]
<1>1. b \in MenuRec({b.search})
  BY DEF Held
<1>2. c \in MenuRec({b.search})
  BY <1>1 DEF MenuRec
<1>3. Stays(c, b) /\ c.cur = b.cur /\ c.top = b.top /\ c.search = b.search
  BY <1>1 DEF MenuRec, Stays
<1> HIDE DEF c
<1>4. Held(c)
  BY <1>2, <1>3 DEF Held, InWindow, Stays
<1> QED BY <1>3, <1>4 DEF c

LEMMA CenterHeld ==
    ASSUME NEW b, Held(b), NEW item \in Int
    PROVE  Held(CenterItem(b, item)) /\ Stays(CenterItem(b, item), b)
<1> DEFINE kept    == SetTopRow(b, b.last)
           visible == item >= kept.top /\ item < kept.top + b.height
           middle  == Larger(item - b.height \div 2, 0)
           toprow  == IF visible THEN kept.top
                      ELSE IF middle >= b.n - b.height THEN b.n - b.height ELSE middle
           d       == IF visible THEN kept ELSE SetTopRow(kept, toprow)
           e       == SetCurrentItem(d, item)
<1>1. Held(kept) /\ Stays(kept, b)
  BY HeldSizes, TopRowHeld
<1>2. toprow \in Int
  <2>1. kept.top \in Int
    BY <1>1, HeldSizes
  <2>2. middle \in Int
    BY HeldSizes DEF Larger
  <2> HIDE DEF kept, middle, visible
  <2> QED BY <2>1, <2>2, HeldSizes
<1>3. Held(d) /\ Stays(d, b)
  <2> HIDE DEF kept, toprow, visible
  <2>1. Held(SetTopRow(kept, toprow)) /\ Stays(SetTopRow(kept, toprow), kept)
    BY <1>1, <1>2, TopRowHeld
  <2> QED BY <1>1, <2>1 DEF Stays
<1>4. Held(e) /\ Stays(e, b)
  <2> HIDE DEF d
  <2> QED BY <1>3, CurrentHeld DEF Stays
<1>5. CenterItem(b, item) = [e EXCEPT !.last = toprow]
  BY DEF CenterItem
<1> HIDE DEF e, toprow
<1> QED BY <1>2, <1>4, <1>5, LastHeld DEF Stays

(* The other fields of the menu.                                               *)
LEMMA OthersHeld ==
    ASSUME NEW b, Held(b), NEW c, c \in MenuRec({c.search}), c.n = b.n, c.height = b.height,
           c.cur = b.cur, c.top = b.top
    PROVE  Held(c)
BY DEF Held, InWindow

LEMMA MatchIsItem ==
    ASSUME NEW b, Held(b), NEW pattern, NEW step, NEW up
    PROVE  GetMatch(b, pattern, step, up) \in Int
<1> DEFINE start  == IF step = 0 THEN b.cur ELSE IF up THEN b.cur - 1 ELSE b.cur + 1
           visit(k) == ((start + (IF up THEN -k ELSE k)) + 2 * b.n) % b.n
           found  == {k \in 0 .. b.n - 1 : NameHas(Name[visit(k)], pattern)}
           least == CHOOSE k \in found : \A j \in found : k <= j
<1>1. start \in Int /\ b.n \in Nat
  BY HeldSizes
<1>2. ASSUME b.n # 0, found # {}
      PROVE  visit(least) \in Int
  <2>1. found \subseteq Nat
    BY <1>1
  <2> HIDE DEF found
  <2>2. \E k \in found : \A j \in found : k <= j
    BY <1>2, <2>1, LeastNat
  <2>3. least \in Nat
    BY <2>1, <2>2
  <2> HIDE DEF least, start
  <2>4. ((start + (IF up THEN -least ELSE least)) + 2 * b.n) \in Int
    BY <1>1, <2>3
  <2>5. \A x \in Int : x % b.n \in Int
    BY <1>1, <1>2
  <2> QED BY <2>4, <2>5
<1>3. GetMatch(b, pattern, step, up) = IF b.n = 0 THEN Divides
                                       ELSE IF found # {} THEN visit(least)
                                       ELSE IF start \in 0 .. b.n - 1 THEN None ELSE Endless
  BY DEF GetMatch
<1> HIDE DEF visit, found, least, start
<1> QED BY <1>2, <1>3 DEF Divides, None, Endless

LEMMA MatchedHeld ==
    ASSUME NEW b, Held(b), NEW search, NEW match \in Int
    PROVE  Held(Matched(b, search, match))
<1>1. ASSUME NEW c, Held(c)
      PROVE  /\ Held([c EXCEPT !.phase = "crashed"])
             /\ Held([c EXCEPT !.phase = "hung"])
             /\ Held([c EXCEPT !.search = search, !.fresh = FALSE])
  <2>1. c \in MenuRec({c.search})
    BY <1>1 DEF Held
  <2>2. Held([c EXCEPT !.phase = "crashed"])
    <3> DEFINE d == [c EXCEPT !.phase = "crashed"]
    <3>1. d \in MenuRec({d.search}) /\ d.n = c.n /\ d.height = c.height /\ d.cur = c.cur /\ d.top = c.top
      BY <2>1 DEF MenuRec
    <3> HIDE DEF d
    <3>2. Held(d)
      BY <1>1, <3>1, OthersHeld
    <3> QED BY <3>2 DEF d
  <2>3. Held([c EXCEPT !.phase = "hung"])
    <3> DEFINE d == [c EXCEPT !.phase = "hung"]
    <3>1. d \in MenuRec({d.search}) /\ d.n = c.n /\ d.height = c.height /\ d.cur = c.cur /\ d.top = c.top
      BY <2>1 DEF MenuRec
    <3> HIDE DEF d
    <3>2. Held(d)
      BY <1>1, <3>1, OthersHeld
    <3> QED BY <3>2 DEF d
  <2>4. Held([c EXCEPT !.search = search, !.fresh = FALSE])
    <3> DEFINE d == [c EXCEPT !.search = search, !.fresh = FALSE]
    <3>1. d \in MenuRec({d.search}) /\ d.n = c.n /\ d.height = c.height /\ d.cur = c.cur /\ d.top = c.top
      BY <2>1 DEF MenuRec
    <3> HIDE DEF d
    <3>2. Held(d)
      BY <1>1, <3>1, OthersHeld
    <3> QED BY <3>2 DEF d
  <2> QED BY <2>2, <2>3, <2>4
<1> QED BY <1>1, CenterHeld DEF Matched

LEMMA MenuOpensHeld ==
    ASSUME NEW n \in Counts, NEW height \in Heights, NEW index \in Int, NEW last \in Int
    PROVE  Held(ShowMenu(FreshMenu(n, height, index, last, NotSearching)))
<1> DEFINE b == FreshMenu(n, height, index, last, NotSearching)
<1>1. n \in Nat /\ height \in Nat \ {0} /\ 0 \in Int
  BY CountsAssumption, HeightsAssumption
<1>2. b \in MenuRec({b.search}) /\ b.cur = 0 /\ b.top = 0 /\ b.n = n /\ b.height = height /\ b.index = index
  <2> HIDE DEF NotSearching
  <2> QED BY <1>1 DEF FreshMenu, MenuRec
<1> HIDE DEF b
<1>3. InWindow(b) \/ b.n = 0
  BY <1>1, <1>2 DEF InWindow, Larger
<1>4. Held(b)
  BY <1>2, <1>3 DEF Held
<1>5. Held(CenterItem(b, b.index))
  BY <1>2, <1>4, CenterHeld
<1> QED BY <1>5 DEF ShowMenu, b

LEMMA PagesHeld ==
    ASSUME NEW b, Held(b), b.n # 0, NEW page \in Int, page > 0,
           NEW c,
           \/ page = Smaller(b.height, b.n - (b.height + b.top))
              /\ c = Touched([b EXCEPT !.top = @ + page, !.cur = @ + page])
           \/ page = Smaller(b.height, b.top)
              /\ c = Touched([b EXCEPT !.top = @ - page, !.cur = @ - page])
    PROVE  Held(c)
<1>1. /\ b.cur \in 0 .. b.n - 1 /\ b.top >= 0 /\ b.top <= b.cur /\ b.cur < b.top + b.height
      /\ b.top <= Larger(b.n - b.height, 0)
  BY DEF Held, InWindow
<1>2. ASSUME NEW k \in Int, b.cur + k \in 0 .. b.n - 1, b.top + k >= 0,
             b.top + k <= Larger(b.n - b.height, 0)
      PROVE  Held(Touched([b EXCEPT !.cur = b.cur + k, !.top = b.top + k]))
  <2> DEFINE d == [b EXCEPT !.cur = b.cur + k, !.top = b.top + k]
  <2>1. b.cur + k \in Int /\ b.top + k \in Int /\ b.top + k <= b.cur + k
        /\ b.cur + k < b.top + k + b.height
    BY <1>1, HeldSizes
  <2>2. Held(d)
    <3> DEFINE u == b.cur + k
               v == b.top + k
    <3>1. u \in Int /\ v \in Int /\ u \in 0 .. b.n - 1 /\ v >= 0 /\ v <= u /\ u < v + b.height
          /\ v <= Larger(b.n - b.height, 0)
      BY <1>2, <2>1
    <3> HIDE DEF u, v
    <3>2. Held([b EXCEPT !.cur = u, !.top = v])
      BY <3>1, Placing
    <3> QED BY <3>2 DEF u, v
  <2> HIDE DEF d
  <2> DEFINE e == [d EXCEPT !.fresh = FALSE]
  <2>3. e \in MenuRec({e.search}) /\ e.n = d.n /\ e.height = d.height /\ e.cur = d.cur /\ e.top = d.top
    BY <2>2 DEF Held, MenuRec
  <2> HIDE DEF e
  <2>4. Held(e)
    BY <2>2, <2>3, OthersHeld
  <2> QED BY <2>4 DEF e, d, Touched
<1>3. CASE page = Smaller(b.height, b.n - (b.height + b.top))
           /\ c = Touched([b EXCEPT !.top = @ + page, !.cur = @ + page])
  <2>1. page <= b.n - (b.height + b.top)
    BY <1>3, HeldSizes DEF Smaller
  <2>2. b.cur + page \in 0 .. b.n - 1 /\ b.top + page >= 0 /\ b.top + page <= Larger(b.n - b.height, 0)
    BY <1>1, <2>1, HeldSizes
  <2>3. [b EXCEPT !.top = @ + page, !.cur = @ + page] = [b EXCEPT !.cur = b.cur + page, !.top = b.top + page]
    BY DEF Held, MenuRec
  <2> QED BY <1>2, <1>3, <2>2, <2>3
<1>4. CASE page = Smaller(b.height, b.top)
           /\ c = Touched([b EXCEPT !.top = @ - page, !.cur = @ - page])
  <2> DEFINE k == -page
  <2>1. page <= b.top /\ k \in Int
    BY <1>4, HeldSizes DEF Smaller
  <2>2. b.cur + k \in 0 .. b.n - 1 /\ b.top + k >= 0 /\ b.top + k <= Larger(b.n - b.height, 0)
    BY <1>1, <2>1, HeldSizes
  <2>3. b.top - page = b.top + k /\ b.cur - page = b.cur + k
    BY HeldSizes
  <2> HIDE DEF k
  <2>4. [b EXCEPT !.top = @ - page, !.cur = @ - page] = [b EXCEPT !.cur = b.cur + k, !.top = b.top + k]
    BY <2>3 DEF Held, MenuRec
  <2> QED BY <1>2, <1>4, <2>1, <2>2, <2>4
<1> QED BY <1>3, <1>4

LEMMA TouchedHeld ==
    ASSUME NEW b, Held(b) PROVE Held(Touched(b))
<1> DEFINE d == [b EXCEPT !.fresh = FALSE]
<1>1. d \in MenuRec({d.search}) /\ d.n = b.n /\ d.height = b.height /\ d.cur = b.cur /\ d.top = b.top
  BY DEF Held, MenuRec
<1> HIDE DEF d
<1>2. Held(d)
  BY <1>1, OthersHeld
<1> QED BY <1>2 DEF d, Touched

LEMMA SearchHeld ==
    ASSUME NEW b, Held(b), NEW search PROVE Held([b EXCEPT !.search = search])
<1> DEFINE d == [b EXCEPT !.search = search]
<1>1. d \in MenuRec({d.search}) /\ d.n = b.n /\ d.height = b.height /\ d.cur = b.cur /\ d.top = b.top
  BY DEF Held, MenuRec
<1> HIDE DEF d
<1>2. Held(d)
  BY <1>1, OthersHeld
<1> QED BY <1>2 DEF d

-------------------------------------------------------------------------------
(* What holds of a box between two keys.                                       *)
BoxInv ==
    \/ box = NoBox
    \/ Shows(box) /\ Answered(box)
    \/ Lost(box)
    \/ Held(box)

(* The key that puts the highlight back ends in a list that shows its place.   *)
LEMMA KeyEnds ==
    ASSUME NEW b, Listing(b, {b.choice}), b.phase = "open", NEW e, Listing(e, {}), Same(e, Dim(b))
    PROVE  LET c == Touched(Bright(e)) IN Shows(c) /\ c.phase = "open"
<1> DEFINE d == Bright(e)
<1>1. Listing(d, {d.choice}) /\ Same(d, e)
  BY Brightened
<1>2. Same(Dim(b), b)
  BY Dimmed
<1>3. Shows(d) /\ d.phase = "open"
  BY <1>1, <1>2 DEF Shows, Same
<1> HIDE DEF d
<1>4. LET c == Touched(d) IN Shows(c) /\ c.phase = "open"
  BY <1>3, TouchedShows DEF Same
<1> QED BY <1>4 DEF d

LEMMA LeastRow ==
    ASSUME NEW S, S \subseteq Nat, S # {}
    PROVE  (CHOOSE r \in S : \A q \in S : r <= q) \in S
<1>1. \E r \in S : \A q \in S : r <= q
  BY LeastNat
<1> QED BY <1>1

LEMMA HotRows ==
    ASSUME NEW b, Listing(b, {b.choice}), NEW letter
    PROVE  /\ HotRow(b, letter) # None => HotRow(b, letter) \in 0 .. MaxChoice(b) - 1
           /\ ListHotRow(b, letter) # None => ListHotRow(b, letter) \in 0 .. MaxChoice(b) - 1
<1> DEFINE hits  == {r \in 0 .. MaxChoice(b) - 1 : Name[b.scroll + r][1] = letter}
           below == {r \in hits : r > b.choice}
           least(S) == CHOOSE r \in S : \A q \in S : r <= q
<1>1. hits \subseteq 0 .. MaxChoice(b) - 1 /\ below \subseteq hits
  OBVIOUS
<1>2. MaxChoice(b) \in Nat
  BY RowsInUse DEF Listing
<1>3. HotRow(b, letter) = IF below # {} THEN least(below) ELSE IF hits # {} THEN least(hits) ELSE None
  BY DEF HotRow
<1>4. ListHotRow(b, letter) = IF hits = {} THEN None ELSE least(hits)
  BY DEF ListHotRow
<1> HIDE DEF hits, below
<1>5. hits \subseteq Nat /\ below \subseteq Nat
  BY <1>1, <1>2
<1>6. (hits # {} => least(hits) \in hits) /\ (below # {} => least(below) \in below)
  BY <1>5, LeastRow
<1> HIDE DEF least
<1> QED BY <1>1, <1>3, <1>4, <1>6

(* The highlight goes to a row of the window.                                  *)
LEMMA RowChosen ==
    ASSUME NEW b, Listing(b, {b.choice}), b.phase = "open", NEW r \in 0 .. MaxChoice(b) - 1
    PROVE  LET c == Touched(Bright([Dim(b) EXCEPT !.choice = r])) IN Shows(c) /\ c.phase = "open"
<1> DEFINE d == Dim(b)
           e == [d EXCEPT !.choice = r]
<1>1. Listing(d, {}) /\ Same(d, b)
  BY Dimmed
<1>2. MaxChoice(d) = MaxChoice(b)
  BY <1>1, SameWindow
<1>3. Listing(e, {}) /\ Same(e, d)
  <2> HIDE DEF d
  <2> QED BY <1>1, <1>2, Moved
<1> HIDE DEF e
<1>4. LET c == Touched(Bright(e)) IN Shows(c) /\ c.phase = "open"
  BY <1>3, KeyEnds
<1> QED BY <1>4 DEF e

LEMMA MenuKeys ==
    ASSUME Shows(box), MenuMoves
    PROVE  Shows(box') /\ box'.phase = "open"
<1> USE DEF MenuMoves
<1>1. Listing(box, {box.choice}) /\ box.phase = "open"
  BY DEF Shows, Empty, Open
<1> DEFINE d == Dim(box)
<1>2. Listing(d, {}) /\ Same(d, box)
  BY <1>1, Dimmed
<1>3. MaxChoice(d) = MaxChoice(box)
  BY <1>2, SameWindow
<1>4. ASSUME NEW e, Listing(e, {}), Same(e, d), box' = Touched(Bright(e))
      PROVE  Shows(box') /\ box'.phase = "open"
  BY <1>1, <1>4, KeyEnds
<1> HIDE DEF d
<1>5. CASE box' = Touched(Bright(MenuUp(d)))
  BY <1>2, <1>4, <1>5, UpAndDown
<1>6. CASE box' = Touched(Bright(MenuDown(d)))
  BY <1>2, <1>4, <1>6, UpAndDown
<1>7. CASE box' = Touched(Bright(MenuPageUp(d)))
  BY <1>2, <1>4, <1>7, PageUp DEF Kept
<1>8. CASE box' = Touched(Bright(MenuPageDown(d)))
  BY <1>2, <1>4, <1>8, PageDown DEF Kept
<1>9. ASSUME NEW letter \in Letters, HotRow(box, letter) # None,
             box' = Touched(Bright([d EXCEPT !.choice = HotRow(box, letter)]))
      PROVE  Shows(box') /\ box'.phase = "open"
  <2>1. HotRow(box, letter) \in 0 .. MaxChoice(box) - 1
    BY <1>1, <1>9, HotRows
  <2> QED BY <1>1, <1>9, <2>1, RowChosen DEF d
<1> QED BY <1>5, <1>6, <1>7, <1>8, <1>9 DEF d

(* One line over the list: the dark row goes, the light is on the new one.     *)
LEMMA LineTaken ==
    ASSUME NEW b, Listing(b, {b.choice}), b.phase = "open", NEW k \in {-1, 1},
           NEW r, r = (IF k = -1 THEN 0 ELSE MaxChoice(b) - 1), b.choice = r,
           b.scroll + k >= 0, b.scroll + k + MaxChoice(b) <= b.n
    PROVE  LET c == Touched(Put(DoScroll(Put(b, r, FALSE), k), r, TRUE)) IN
           Shows(c) /\ c.phase = "open"
<1> DEFINE d == Put(b, r, FALSE)
           e == Put(DoScroll(d, k), r, TRUE)
<1>1. d = Dim(b)
  BY DEF Dim
<1>2. Listing(d, {}) /\ Same(d, b) /\ d.choice = b.choice /\ d.scroll = b.scroll
  BY <1>1, Dimmed
<1>3. MaxChoice(d) = MaxChoice(b) /\ d.n = b.n
  BY <1>2, SameWindow DEF Same
<1> HIDE DEF d
<1>4. Listing(e, {r}) /\ Same(e, d) /\ e.choice = d.choice
  <2>1. r = IF k = -1 THEN 0 ELSE MaxChoice(d) - 1
    BY <1>3
  <2>2. d.scroll + k >= 0 /\ d.scroll + k + MaxChoice(d) <= d.n
    BY <1>2, <1>3
  <2>3. Listing(d, {})
    BY <1>2
  <2> HIDE DEF e
  <2> QED BY <2>1, <2>2, <2>3, Scrolled DEF e
<1>5. Shows(e) /\ e.phase = "open"
  BY <1>2, <1>4 DEF Shows, Same
<1> HIDE DEF e
<1>6. LET c == Touched(e) IN Shows(c) /\ c.phase = "open"
  BY <1>5, TouchedShows DEF Same
<1> QED BY <1>6 DEF d, e

LEMMA ListKeys ==
    ASSUME Shows(box), ListMoves
    PROVE  Shows(box') /\ box'.phase = "open"
<1> USE DEF ListMoves
<1>1. Listing(box, {box.choice}) /\ box.phase = "open"
  BY DEF Shows, Empty, Open
<1>2. /\ box.scroll \in Int /\ box.choice \in 0 .. MaxChoice(box) - 1 /\ MaxChoice(box) \in Nat
      /\ box.n \in Nat /\ box.scroll >= 0 /\ box.scroll + MaxChoice(box) <= box.n
  BY <1>1, RowsInUse DEF Listing, ListRec, Placed
<1>3. CASE box' = Touched(ListUp(box))
  <2>1. CASE box.choice # 0
    <3>1. ListUp(box) = Bright([Dim(box) EXCEPT !.choice = box.choice - 1])
      BY <1>1, <2>1, Dimmed DEF ListUp
    <3>2. box.choice - 1 \in 0 .. MaxChoice(box) - 1
      BY <1>2, <2>1
    <3> QED BY <1>1, <1>3, <3>1, <3>2, RowChosen
  <2>2. CASE box.choice = 0 /\ box.scroll = 0
    BY <1>1, <1>3, <2>2, TouchedShows DEF ListUp, Same
  <2>3. CASE box.choice = 0 /\ box.scroll # 0
    <3> DEFINE k == -1
    <3>1. k \in {-1, 1} /\ 0 = (IF k = -1 THEN 0 ELSE MaxChoice(box) - 1)
      OBVIOUS
    <3>2. box.scroll + k >= 0 /\ box.scroll + k + MaxChoice(box) <= box.n
      BY <1>2, <2>3
    <3>3. box' = Touched(Put(DoScroll(Put(box, 0, FALSE), k), 0, TRUE))
      BY <1>3, <2>3 DEF ListUp
    <3> HIDE DEF k
    <3> QED BY <1>1, <2>3, <3>1, <3>2, <3>3, LineTaken
  <2> QED BY <2>1, <2>2, <2>3
<1>4. CASE box' = Touched(ListDown(box))
  <2> DEFINE r == MaxChoice(box) - 1
  <2>1. CASE box.choice # r
    <3>1. ListDown(box) = Bright([Dim(box) EXCEPT !.choice = box.choice + 1])
      BY <1>1, <2>1, Dimmed DEF ListDown
    <3>2. box.choice + 1 \in 0 .. MaxChoice(box) - 1
      BY <1>2, <2>1
    <3> QED BY <1>1, <1>4, <3>1, <3>2, RowChosen
  <2>2. CASE box.choice = r /\ box.scroll + box.choice >= box.n - 1
    BY <1>1, <1>4, <2>2, TouchedShows DEF ListDown, Same
  <2>3. CASE box.choice = r /\ ~ (box.scroll + box.choice >= box.n - 1)
    <3> DEFINE k == 1
    <3>1. k \in {-1, 1} /\ r = (IF k = -1 THEN 0 ELSE MaxChoice(box) - 1)
      OBVIOUS
    <3>2. box.scroll + k >= 0 /\ box.scroll + k + MaxChoice(box) <= box.n
      BY <1>2, <2>3
    <3>3. box' = Touched(Put(DoScroll(Put(box, r, FALSE), k), r, TRUE))
      BY <1>4, <2>3 DEF ListDown
    <3> HIDE DEF k, r
    <3> QED BY <1>1, <2>3, <3>1, <3>2, <3>3, LineTaken
  <2> QED BY <2>1, <2>2, <2>3
<1>5. ASSUME NEW letter \in Letters, ListHotRow(box, letter) \notin {None, box.choice},
             box' = Touched(Bright([Dim(box) EXCEPT !.choice = ListHotRow(box, letter)]))
      PROVE  Shows(box') /\ box'.phase = "open"
  <2>1. ListHotRow(box, letter) \in 0 .. MaxChoice(box) - 1
    BY <1>1, <1>5, HotRows
  <2> QED BY <1>1, <1>5, <2>1, RowChosen
<1> QED BY <1>3, <1>4, <1>5

(* Which box is open.                                                          *)
LEMMA WhichBox ==
    ASSUME BoxInv
    PROVE  /\ box.kind \in {"menu", "list"} /\ box.phase # "crashed" => Shows(box) /\ Answered(box)
           /\ box.kind = "nmenu" => Held(box)
<1>1. box = NoBox => box.kind = "none"
  BY DEF NoBox
<1>2. Held(box) => box.kind = "nmenu"
  BY DEF Held, MenuRec
<1>3. Shows(box) => box.kind # "nmenu"
  BY Shown DEF ListRec
<1> QED BY <1>1, <1>2, <1>3 DEF BoxInv, Lost

LEMMA BoxInit == ListInit => BoxInv
<1> SUFFICES ASSUME ListInit PROVE BoxInv
  OBVIOUS
<1>1. PICK n \in Counts, height \in Heights :
        \/ box = SetUpMenu(Fresh("menu", n, height, None, 0))
        \/ \E active \in (0 .. n - 1) \cup {None} : box = SetUpList(Fresh("list", n, height, active, 0))
        \/ box = ShowMenu(FreshMenu(n, height, 0, 0, NotSearching))
  BY DEF ListInit
<1>2. None \in Int /\ -1 <= None /\ None < n /\ 0 \in Int /\ n \in Nat
  BY CountsAssumption DEF None
<1>3. Shows(box) /\ box.phase = "open" => BoxInv
  BY DEF BoxInv, Answered
<1>4. CASE box = SetUpMenu(Fresh("menu", n, height, None, 0))
  BY <1>2, <1>3, <1>4, MenuOpens DEF BoxInv
<1>5. ASSUME NEW active \in (0 .. n - 1) \cup {None}, box = SetUpList(Fresh("list", n, height, active, 0))
      PROVE  BoxInv
  <2>1. active \in Int /\ -1 <= active /\ active < n
    BY <1>2 DEF None
  <2> QED BY <1>2, <1>3, <1>5, <2>1, ListOpens DEF BoxInv
<1>6. CASE box = ShowMenu(FreshMenu(n, height, 0, 0, NotSearching))
  BY <1>2, <1>6, MenuOpensHeld DEF BoxInv
<1> QED BY <1>1, <1>4, <1>5, <1>6

LEMMA AnswersKeep ==
    ASSUME BoxInv, MenuAnswers \/ ListAnswers
    PROVE  BoxInv'
<1>1. Shows(box) /\ box \in ListRec(Window(box))
  BY WhichBox, Shown DEF MenuAnswers, ListAnswers, Open
<1>2. box.button \in Int /\ box.scroll \in Int /\ box.saved \in Int
  BY <1>1 DEF ListRec
<1>3. CASE MenuAnswers
  <2>1. PICK code \in {box.button, 2, 6, 7, 8, 9, 10} \cup {5 : x \in {x \in {"s"} : HotRow(box, x) = None}} :
          box' = [box EXCEPT !.phase = "answered", !.code = code, !.fresh = FALSE,
                             !.saved = box.scroll,
                             !.item = IF box.n = 0 THEN None ELSE box.scroll + box.choice]
    BY <1>3 DEF MenuAnswers
  <2>2. code \in Int
    BY <1>2
  <2>3. Shows(box') /\ Answered(box')
    BY <1>1, <1>2, <2>1, <2>2, AnswerShows
  <2> QED BY <2>3 DEF BoxInv
<1>4. CASE ListAnswers
  <2>1. PICK code \in {box.button, 1} :
          box' = [box EXCEPT !.phase = "answered", !.code = code, !.fresh = FALSE,
                             !.item = IF box.n = 0 THEN None ELSE box.scroll + box.choice]
    BY <1>4 DEF ListAnswers
  <2>2. code \in Int
    BY <1>2
  <2> DEFINE item == IF box.n = 0 THEN None ELSE box.scroll + box.choice
             saved == box.saved
  <2>3. box = [box EXCEPT !.saved = saved]
    BY <1>1 DEF ListRec
  <2> HIDE DEF item, saved
  <2>4. box' = [box EXCEPT !.phase = "answered", !.code = code, !.fresh = FALSE, !.item = item]
    BY <2>1 DEF item
  <2>5. [box EXCEPT !.phase = "answered", !.code = code, !.fresh = FALSE, !.item = item]
        = [box EXCEPT !.phase = "answered", !.code = code, !.fresh = FALSE, !.saved = saved, !.item = item]
    BY <1>1 DEF ListRec, saved
  <2>6. Shows(box') /\ Answered(box')
    BY <1>1, <1>2, <2>2, <2>4, <2>5, AnswerShows DEF item, saved
  <2> QED BY <2>6 DEF BoxInv
<1> QED BY <1>3, <1>4

LEMMA ReopensKeep ==
    ASSUME BoxInv, Reopens
    PROVE  BoxInv'
<1>1. PICK n \in Counts, height \in Heights :
          \/ /\ box.kind = "menu" /\ box.code # 1
             /\ \E active \in {box.item, None} \cup (IF n = box.n THEN {} ELSE 0 .. n - 1) :
                   /\ active < n
                   /\ box' = SetUpMenu(Fresh("menu", n, height, active, box.saved))
          \/ /\ box.kind = "list" /\ box.code = 1 /\ n = box.n /\ height = box.height
             /\ box' = SetUpList(Fresh("list", n, height, box.item, 0))
          \/ /\ box.kind = "nmenu"
             /\ box' = ShowMenu(FreshMenu(n, height, box.index, box.last, NotSearching))
  BY DEF Reopens
<1>2. box.phase = "answered" /\ n \in Nat
  BY CountsAssumption DEF Reopens
<1>3. (Shows(box) /\ box.phase = "open")' => BoxInv'
  BY DEF BoxInv, Answered
<1>4. box.kind \in {"menu", "list"} => /\ box.n \in Nat /\ box.saved \in Int
                                       /\ box.item \in -1 .. box.n - 1 /\ box.item \in Int
  <2> SUFFICES ASSUME box.kind \in {"menu", "list"}
               PROVE  /\ box.n \in Nat /\ box.saved \in Int
                      /\ box.item \in -1 .. box.n - 1 /\ box.item \in Int
    OBVIOUS
  <2>1. Shows(box) /\ Answered(box)
    BY <1>2, WhichBox
  <2>2. box.n \in Nat /\ box.saved \in Int /\ box.item \in Int
    BY <2>1, Shown DEF ListRec
  <2> QED BY <1>2, <2>1, <2>2 DEF Answered
<1>5. ASSUME box.kind = "menu",
             NEW active \in {box.item, None} \cup (IF n = box.n THEN {} ELSE 0 .. n - 1), active < n,
             box' = SetUpMenu(Fresh("menu", n, height, active, box.saved))
      PROVE  BoxInv'
  <2>1. active \in Int /\ -1 <= active
    BY <1>2, <1>4, <1>5 DEF None
  <2> QED BY <1>3, <1>4, <1>5, <2>1, MenuOpens DEF BoxInv
<1>6. CASE /\ box.kind = "list" /\ n = box.n
           /\ box' = SetUpList(Fresh("list", n, height, box.item, 0))
  <2>1. box.item \in Int /\ -1 <= box.item /\ box.item < n /\ 0 \in Int
    BY <1>4, <1>6
  <2> QED BY <1>3, <1>6, <2>1, ListOpens DEF BoxInv
<1>7. CASE /\ box.kind = "nmenu"
           /\ box' = ShowMenu(FreshMenu(n, height, box.index, box.last, NotSearching))
  <2>1. box.index \in Int /\ box.last \in Int
    BY <1>7, WhichBox, HeldSizes
  <2> QED BY <1>7, <2>1, MenuOpensHeld DEF BoxInv
<1> QED BY <1>1, <1>5, <1>6, <1>7

LEMMA SearchKeeps ==
    ASSUME BoxInv, SearchStarts \/ SearchTypes \/ SearchNext \/ SearchRubsOut \/ SearchEnds
    PROVE  Held(box')
<1>1. Held(box)
  BY WhichBox DEF SearchStarts, SearchTypes, SearchNext, SearchRubsOut, SearchEnds, Open
<1>2. \A search : Held([Touched(box) EXCEPT !.search = search])
  BY <1>1, TouchedHeld, SearchHeld
<1>3. CASE SearchStarts
  BY <1>2, <1>3 DEF SearchStarts
<1>4. CASE SearchEnds
  BY <1>2, <1>4 DEF SearchEnds
<1>5. CASE SearchRubsOut
  <2>1. PICK search : box' = [Touched(box) EXCEPT !.search = search]
    <3>1. box' = [Touched(box) EXCEPT !.search.pattern = SubSeq(@, 1, Len(@) - 1), !.search.step = 0]
      BY <1>5 DEF SearchRubsOut
    <3> QED BY <3>1
  <2> QED BY <1>2, <2>1
<1>6. CASE SearchTypes
  <2>1. PICK letter \in Letters :
          LET pattern == Append(box.search.pattern, letter)
              search  == [box.search EXCEPT !.pattern = pattern, !.step = 0]
          IN  box' = Matched(box, search, GetMatch(box, pattern, 0, search.up))
    BY <1>6 DEF SearchTypes
  <2> QED BY <1>1, <2>1, MatchIsItem, MatchedHeld
<1>7. CASE SearchNext
  <2>1. PICK up \in BOOLEAN :
          LET search == [box.search EXCEPT !.up = up, !.step = 1]
          IN  box' = Matched(box, search, GetMatch(box, search.pattern, 1, up))
    BY <1>7 DEF SearchNext
  <2> QED BY <1>1, <2>1, MatchIsItem, MatchedHeld
<1> QED BY <1>3, <1>4, <1>5, <1>6, <1>7

LEMMA DriverKeeps ==
    ASSUME BoxInv, DriverMoves
    PROVE  Held(box')
<1>1. Held(box) /\ box.n # 0
  BY WhichBox DEF DriverMoves, Open
<1>2. box.cur + 1 \in Int /\ box.cur - 1 \in Int /\ 0 \in 0 .. box.n - 1 /\ box.n - 1 \in 0 .. box.n - 1
      /\ Smaller(box.height, box.n - (box.height + box.top)) \in Int
      /\ Smaller(box.height, box.top) \in Int
  BY <1>1, HeldSizes DEF Smaller
<1>3. CASE \/ box' = Touched(SetCurrentItem(box, box.cur + 1))
           \/ box' = Touched(SetCurrentItem(box, box.cur - 1))
           \/ box' = Touched(AtItem(box, 0))
           \/ box' = Touched(AtItem(box, box.n - 1))
  BY <1>1, <1>2, <1>3, CurrentHeld, AtItemHeld, TouchedHeld
<1>4. CASE LET page == Smaller(box.height, box.n - (box.height + box.top))
           IN  page > 0 /\ box' = Touched([box EXCEPT !.top = @ + page, !.cur = @ + page])
  BY <1>1, <1>2, <1>4, PagesHeld
<1>5. CASE LET page == Smaller(box.height, box.top)
           IN  page > 0 /\ box' = Touched([box EXCEPT !.top = @ - page, !.cur = @ - page])
  BY <1>1, <1>2, <1>5, PagesHeld
<1> QED BY <1>3, <1>4, <1>5 DEF DriverMoves

LEMMA LeavesKeeps ==
    ASSUME BoxInv, MenuLeaves
    PROVE  Held(box')
<1>1. Held(box)
  BY WhichBox DEF MenuLeaves, Open
<1> DEFINE c == [box EXCEPT !.phase = "answered", !.index = box.cur, !.last = box.top]
           d == [c EXCEPT !.search = NotSearching, !.fresh = FALSE]
<1>2. box \in MenuRec({box.search}) /\ box.cur \in Int /\ box.top \in Int
  BY <1>1, HeldSizes DEF Held
<1>3. c \in MenuRec({c.search}) /\ c.n = box.n /\ c.height = box.height /\ c.cur = box.cur /\ c.top = box.top
  BY <1>2 DEF MenuRec
<1>4. box' = d
  BY DEF MenuLeaves
<1> HIDE DEF c, NotSearching
<1>5. d \in MenuRec({d.search}) /\ d.n = c.n /\ d.height = c.height /\ d.cur = c.cur /\ d.top = c.top
  BY <1>3 DEF MenuRec
<1> HIDE DEF d
<1>6. Held(d)
  BY <1>1, <1>3, <1>5, OthersHeld
<1> QED BY <1>4, <1>6

LEMMA BoxStep == BoxInv /\ [ListNext]_box => BoxInv'
<1> SUFFICES ASSUME BoxInv, [ListNext]_box PROVE BoxInv'
  OBVIOUS
<1>1. (Shows(box) /\ box.phase = "open")' => BoxInv'
  BY DEF BoxInv, Answered
<1>2. Held(box)' => BoxInv'
  BY DEF BoxInv
<1>3. CASE UNCHANGED box
  BY <1>3 DEF BoxInv, Shows, Answered, Lost, Held, Listing, Empty, Placed, Agree, InWindow, Window, MaxChoice
<1>4. CASE MenuMoves
  BY <1>1, <1>4, WhichBox, MenuKeys DEF MenuMoves, Open
<1>5. CASE ListMoves
  BY <1>1, <1>5, WhichBox, ListKeys DEF ListMoves, Open
<1>6. CASE CycleButtons
  <2>1. Shows(box) /\ box.phase = "open"
    BY <1>6, WhichBox DEF CycleButtons
  <2>2. PICK step \in {-1, 1} : box' = Touched(Buttoned(box, step))
    BY <1>6 DEF CycleButtons
  <2>3. Shows(box') /\ box'.phase = "open"
    BY <2>1, <2>2, ButtonedShows, TouchedShows DEF Same
  <2> QED BY <1>1, <2>3
<1>7. CASE MenuAnswers \/ ListAnswers
  BY <1>7, AnswersKeep
<1>8. CASE Escapes \/ Ends
  BY <1>8 DEF Escapes, Ends, BoxInv
<1>9. CASE Resizes
  <2>1. Shows(box) /\ box.phase = "open" /\ box.kind \in {"menu", "list"}
    BY <1>9, WhichBox DEF Resizes
  <2>2. PICK height \in Heights :
          box' = IF box.kind = "menu" THEN SetUpMenu(Touched([box EXCEPT !.height = height]))
                 ELSE SetUpList(Touched(box))
    BY <1>9 DEF Resizes
  <2>3. (Shows(box') /\ box'.phase = "open") \/ Lost(box')
    BY <2>1, <2>2, MenuResized, ListResized
  <2> QED BY <1>1, <2>3 DEF BoxInv
<1>10. CASE SearchStarts \/ SearchTypes \/ SearchNext \/ SearchRubsOut \/ SearchEnds
  BY <1>2, <1>10, SearchKeeps
<1>11. CASE DriverMoves
  BY <1>2, <1>11, DriverKeeps
<1>12. CASE MenuLeaves
  BY <1>2, <1>12, LeavesKeeps
<1>13. CASE Reopens
  BY <1>13, ReopensKeep
<1> QED BY <1>3, <1>4, <1>5, <1>6, <1>7, <1>8, <1>9, <1>10, <1>11, <1>12, <1>13 DEF ListNext

(* The indicators say whether there are items above and below the rows shown.  *)
LEMMA Arrows ==
    ASSUME NEW b, Listing(b, {b.choice}), ~b.torn
    PROVE  RowsAgree(b)
<1>1. /\ b \in ListRec(Window(b)) /\ Placed(b) /\ Agree(b) /\ b.lit = {b.choice}
  BY DEF Listing
<1>2. /\ MaxChoice(b) \in Nat /\ MaxChoice(b) >= 1 /\ MaxChoice(b) <= b.n /\ MaxChoice(b) <= b.height
      /\ b.n >= b.height => MaxChoice(b) = b.height
      /\ b.n <= b.height => MaxChoice(b) = b.n
      /\ b.n \in Nat /\ b.height \in Nat /\ b.scroll \in Int
  BY RowsInUse DEF Listing, ListRec
<1>3. DOMAIN b.rows = 0 .. MaxChoice(b) - 1
  BY <1>1 DEF ListRec, Window
<1>4. UpArrow(b) <=> \E i \in 0 .. b.n - 1 : \A r \in DOMAIN b.rows : i < b.rows[r]
  <2>1. ASSUME b.scroll > 0 PROVE \A r \in DOMAIN b.rows : 0 < b.rows[r]
    BY <1>1, <1>2, <1>3, <2>1 DEF Agree
  <2>2. ASSUME NEW i \in 0 .. b.n - 1, \A r \in DOMAIN b.rows : i < b.rows[r] PROVE b.scroll > 0
    <3>1. 0 \in 0 .. MaxChoice(b) - 1 /\ b.rows[0] = b.scroll
      BY <1>1, <1>2 DEF Agree
    <3> QED BY <1>2, <1>3, <2>2, <3>1
  <2>3. 0 \in 0 .. b.n - 1
    BY <1>2
  <2> QED BY <2>1, <2>2, <2>3 DEF UpArrow
<1>5. DownArrow(b) <=> \E i \in 0 .. b.n - 1 : \A r \in DOMAIN b.rows : i > b.rows[r]
  <2> DEFINE e == b.scroll + MaxChoice(b)
  <2>1. DownArrow(b) <=> e < b.n
    <3>1. b.scroll >= 0 /\ e <= b.n
      BY <1>1 DEF Placed
    <3> QED BY <1>2, <3>1 DEF DownArrow
  <2>2. ASSUME e < b.n PROVE e \in 0 .. b.n - 1 /\ \A r \in DOMAIN b.rows : e > b.rows[r]
    BY <1>1, <1>2, <1>3, <2>2 DEF Agree, Placed
  <2>3. ASSUME NEW i \in 0 .. b.n - 1, \A r \in DOMAIN b.rows : i > b.rows[r] PROVE e < b.n
    <3>1. MaxChoice(b) - 1 \in 0 .. MaxChoice(b) - 1
          /\ b.rows[MaxChoice(b) - 1] = b.scroll + (MaxChoice(b) - 1)
      BY <1>1, <1>2 DEF Agree
    <3> QED BY <1>2, <1>3, <2>3, <3>1
  <2> HIDE DEF e
  <2> QED BY <2>1, <2>2, <2>3
<1> QED BY <1>1, <1>4, <1>5 DEF RowsAgree, Placed, Agree

(* ListShowsAnswer: for every list, window and resize, whatever keys come, the *)
(* row that is highlighted shows the item the answer names and the window is   *)
(* within the list; only a menu box torn by a resize is exempt.                *)
THEOREM ListsShowAnswers == ListSpec => []ListShowsAnswer
<1>1. BoxInv => ListShowsAnswer
  <2> SUFFICES ASSUME BoxInv PROVE ListShowsAnswer
    OBVIOUS
  <2>1. ASSUME box.kind \in {"menu", "list"}, box.n # 0, ~box.torn
        PROVE  box.phase # "crashed" /\ RowsAgree(box)
    <3>1. ~Lost(box)
      BY <2>1 DEF Lost
    <3>2. Shows(box)
      <4>1. box # NoBox /\ ~Held(box)
        BY <2>1 DEF NoBox, Held, MenuRec
      <4> QED BY <3>1, <4>1 DEF BoxInv
    <3>3. Listing(box, {box.choice})
      BY <2>1, <3>2 DEF Shows, Empty
    <3> QED BY <2>1, <3>3, Arrows DEF Listing
  <2>2. ASSUME box.kind = "nmenu", box.n # 0
        PROVE  InWindow(box)
    BY <2>2, WhichBox DEF Held
  <2> QED BY <2>1, <2>2 DEF ListShowsAnswer, InWindow
<1> QED BY <1>1, BoxInit, BoxStep, PTL DEF ListSpec

------------------------------------------------------------------------------
(* What a session knows between two keys, whatever its files and values are.   *)
SessionRec(s) ==
    [ui : {"mconf", "nconf"}, stack : {s.stack}, conf : {s.conf}, files : {s.files},
     name : {s.name}, changed : BOOLEAN, forgot : BOOLEAN, all : BOOLEAN, single : BOOLEAN,
     unfolded : {s.unfolded}, edits : {s.edits},
     ended : {"no", "unchanged", "saved", "failed", "discarded"}]
(* The file it would save to is right, or the exception holds.                  *)
Backed(s) == Stored(s) \/ s.forgot = TRUE
SessionInv(s) ==
    /\ s \in SessionRec(s)
    /\ s.changed = FALSE => Backed(s)
    /\ s.ended \in {"unchanged", "saved"} => s.changed = FALSE
Going(s) == SessionInv(s) /\ s.ended = "no"

(* Calls, returns and what is listed touch nothing that is to be saved.        *)
LEMMA CallGoes ==
    ASSUME NEW s, Going(s), NEW fn, NEW menu
    PROVE  Going(Call(s, fn, menu)) /\ Going(Return(s))
BY DEF Going, SessionInv, SessionRec, Backed, Stored, Call, Return

LEMMA StackGoes ==
    ASSUME NEW s, Going(s), NEW stack
    PROVE  Going([s EXCEPT !.stack = stack])
BY DEF Going, SessionInv, SessionRec, Backed, Stored

LEMMA ShownGoes ==
    ASSUME NEW s, Going(s)
    PROVE  /\ \A unfolded : Going([s EXCEPT !.unfolded = unfolded])
           /\ \A all \in BOOLEAN : Going([s EXCEPT !.all = all])
BY DEF Going, SessionInv, SessionRec, Backed, Stored

(* A value is set and counted, or nothing happens.                             *)
LEMMA ChangedGoes ==
    ASSUME NEW s, Going(s), NEW conf, NEW t \in Changed(s, conf)
    PROVE  Going(t)
<1> DEFINE u == [s EXCEPT !.conf = conf, !.changed = TRUE, !.forgot = FALSE, !.edits = @ + 1]
<1>1. Going(u)
  BY DEF Going, SessionInv, SessionRec, Backed, Stored
<1>2. t = s \/ t = u
  BY DEF Changed
<1> QED BY <1>1, <1>2

LEMMA SetGoes ==
    ASSUME NEW s, Going(s), NEW m, NEW val
    PROVE  /\ \A t \in SetTristate(s, m, val) : Going(t)
           /\ \A t \in Toggle(s, m) : Going(t)
<1>1. ASSUME NEW v, NEW t \in SetTristate(s, m, v) PROVE Going(t)
  BY <1>1, ChangedGoes DEF SetTristate
<1> QED BY <1>1 DEF Toggle

(* Endings.                                                                    *)
LEMMA EndKeeps ==
    ASSUME NEW s, Going(s)
    PROVE  /\ SessionInv(Ended(s, "discarded")) /\ SessionInv(Ended(s, "failed"))
           /\ s.changed = FALSE => SessionInv(Ended(s, "unchanged"))
BY DEF Going, SessionInv, SessionRec, Backed, Stored, Ended

LEMMA WriteKeeps ==
    ASSUME NEW s, Going(s), NEW name
    PROVE  /\ Going(SetConfigFilename(WriteTo(s, name), name))
           /\ name = s.name => SessionInv(Ended(WriteTo(s, name), "saved"))
<1> DEFINE files == [f \in DOMAIN s.files \cup {name} |-> IF f = name THEN InEffect(s.conf) ELSE s.files[f]]
<1>1. name \in DOMAIN files /\ files[name] = InEffect(s.conf)
  OBVIOUS
<1>2. WriteTo(s, name) = [s EXCEPT !.files = files, !.changed = FALSE, !.forgot = FALSE]
  BY DEF WriteTo
<1> HIDE DEF files
<1> DEFINE w == [s EXCEPT !.files = files, !.changed = FALSE, !.forgot = FALSE]
           n == [w EXCEPT !.name = name]
           e == [w EXCEPT !.ended = "saved", !.stack = <<>>]
<1>3. Going(n)
  BY <1>1 DEF Going, SessionInv, SessionRec, Backed, Stored
<1>4. name = s.name => SessionInv(e)
  BY <1>1 DEF Going, SessionInv, SessionRec, Backed, Stored
<1> HIDE DEF w
<1> QED BY <1>2, <1>3, <1>4 DEF Ended, SetConfigFilename, w

LEMMA SavedKeeps ==
    ASSUME NEW s, Going(s), NEW works \in BOOLEAN
    PROVE  SessionInv(Saved(s, works))
<1>1. SessionInv(Ended(WriteTo(s, s.name), "saved"))
  BY WriteKeeps
<1> QED BY <1>1, EndKeeps DEF Saved

LEMMA SaveAsGoes ==
    ASSUME NEW s, Going(s), NEW name, NEW works \in BOOLEAN
    PROVE  Going(SaveAs(s, name, works))
<1>1. Going(Return(SetConfigFilename(WriteTo(s, name), name)))
  BY WriteKeeps, CallGoes
<1> QED BY <1>1 DEF SaveAs

(* A file that is read is a change to save; what a missing one drops from the  *)
(* count is noted in forgot.                                                   *)
LEMMA LoadGoes ==
    ASSUME NEW s, Going(s), NEW name
    PROVE  Going(LoadFrom(s, name))
<1> DEFINE r == [s EXCEPT !.conf = s.files[name], !.changed = FALSE, !.forgot = FALSE]
           n == [r EXCEPT !.name = name]
           c == [n EXCEPT !.changed = TRUE]
           m == [s EXCEPT !.changed = FALSE, !.forgot = s.changed \/ @]
<1>1. Going(c)
  BY DEF Going, SessionInv, SessionRec, Backed, Stored
<1>2. Going(m)
  <2>1. CASE s.changed = TRUE
    <3>1. m = [s EXCEPT !.changed = FALSE, !.forgot = TRUE]
      BY <2>1
    <3> QED BY <3>1 DEF Going, SessionInv, SessionRec, Backed, Stored
  <2>2. CASE s.changed = FALSE
    <3>1. m = s
      BY <2>2 DEF Going, SessionInv, SessionRec
    <3> QED BY <3>1
  <2> QED BY <2>1, <2>2 DEF Going, SessionInv, SessionRec
<1>3. LoadFrom(s, name) = Return(c) \/ LoadFrom(s, name) = m
  BY DEF LoadFrom, ReadFrom, SetConfigFilename
<1> HIDE DEF c, m
<1> QED BY <1>1, <1>2, <1>3, CallGoes

LEMMA ExitKeeps ==
    ASSUME NEW s, Going(s), NEW fn
    PROVE  SessionInv(HandleExit(s, fn)) /\ SessionInv(LeaveMenu(s))
<1>1. ASSUME NEW f PROVE SessionInv(HandleExit(s, f))
  <2>1. s.changed \in BOOLEAN
    BY DEF Going, SessionInv, SessionRec
  <2>2. SessionInv([s EXCEPT !.stack = <<[fn |-> f, menu |-> Root]>>])
    BY StackGoes DEF Going
  <2> QED BY <2>1, <2>2, EndKeeps DEF HandleExit
<1>2. SessionInv(Return(s))
  BY CallGoes DEF Going
<1> QED BY <1>1, <1>2 DEF LeaveMenu

LEMMA ItemGoes ==
    ASSUME NEW s, Going(s), NEW item, NEW t \in Opened(s, item) \cup Keyed(s, item)
    PROVE  Going(t)
<1>1. ASSUME t \in Opened(s, item) PROVE Going(t)
  <2> DEFINE u == IF item.menu \in s.unfolded THEN s.unfolded \ {item.menu} ELSE s.unfolded \cup {item.menu}
  <2>1. Going([s EXCEPT !.unfolded = u])
    BY ShownGoes
  <2>2. Opened(s, item) \subseteq {[s EXCEPT !.unfolded = u], Call(s, "conf", item.menu),
                                  Call(s, "string", item.menu), Call(s, "choice", item.menu), s}
    BY DEF Opened
  <2> HIDE DEF u
  <2> QED BY <1>1, <2>1, <2>2, CallGoes
<1>2. ASSUME t \in Keyed(s, item) PROVE Going(t)
  BY <1>2, CallGoes, SetGoes DEF Keyed
<1> QED BY <1>1, <1>2

LEMMA SessionStart == SessionInit => SessionInv(session)
<1> SUFFICES ASSUME SessionInit PROVE SessionInv(session)
  OBVIOUS
<1>1. PICK files \in StartFiles, single \in BOOLEAN :
         session \in {MconfStart(files, single), NconfStart(files, single)}
  BY DEF SessionInit
<1> DEFINE conf == IF ".config" \in DOMAIN files THEN files[".config"] ELSE [s \in Settings |-> Default[s]]
<1>2. ASSUME NEW c, NEW ui \in {"mconf", "nconf"}, NEW changed \in BOOLEAN,
             changed = FALSE => ".config" \in DOMAIN files /\ files[".config"] = InEffect(c)
      PROVE  SessionInv([ui |-> ui, stack |-> <<[fn |-> "conf", menu |-> Root]>>, conf |-> c,
                         files |-> files, name |-> ".config", changed |-> changed, forgot |-> FALSE,
                         all |-> FALSE, single |-> single, unfolded |-> {}, edits |-> 0,
                         ended |-> "no"])
  BY <1>2 DEF SessionInv, SessionRec, Backed, Stored
<1> DEFINE changed == ".config" \notin DOMAIN files \/ InEffect(conf) # conf
<1>3. changed \in BOOLEAN
  OBVIOUS
<1>4. changed = FALSE => ".config" \in DOMAIN files /\ files[".config"] = InEffect(conf)
  OBVIOUS
<1>5. \E ui \in {"mconf", "nconf"} : session = OpenSession(ui, files, single)
  BY <1>1 DEF MconfStart, NconfStart
<1> HIDE DEF changed, conf
<1>6. \A ui \in {"mconf", "nconf"} : SessionInv(OpenSession(ui, files, single))
  BY <1>2, <1>3, <1>4 DEF OpenSession, changed, conf
<1> QED BY <1>5, <1>6

LEMMA BoxesGo ==
    ASSUME Going(session), NEW ui,
           \/ ChoiceBox(ui) \/ StringBox(ui) \/ LoadBox(ui) \/ SaveBox(ui)
    PROVE  Going(session')
<1>0. Going(Return(session))
  BY CallGoes
<1>1. CASE ChoiceBox(ui)
  BY <1>0, <1>1, SetGoes DEF ChoiceBox
<1>2. CASE StringBox(ui)
  BY <1>0, <1>2, ChangedGoes DEF StringBox, SetText
<1>3. CASE LoadBox(ui)
  BY <1>0, <1>3, LoadGoes DEF LoadBox
<1>4. CASE SaveBox(ui)
  BY <1>0, <1>4, SaveAsGoes DEF SaveBox
<1> QED BY <1>1, <1>2, <1>3, <1>4

LEMMA KeysGo ==
    ASSUME Going(session), NconfKeys
    PROVE  SessionInv(session)'
<1>1. CASE HandleF4
  BY <1>1, ShownGoes DEF HandleF4, Going
<1>2. CASE HandleF5 \/ HandleF6 \/ HandleF7 \/ HandleF8
  BY <1>2, CallGoes DEF HandleF5, HandleF6, HandleF7, HandleF8, Going
<1>3. CASE HandleF9
  <2>1. session.changed \in BOOLEAN
    BY DEF Going, SessionInv, SessionRec
  <2> QED BY <1>3, <2>1, CallGoes, EndKeeps DEF HandleF9, Going
<1> QED BY <1>1, <1>2, <1>3 DEF NconfKeys

(* A step of a session that runs; one that has ended makes none.               *)
LEMMA SessionStep == SessionInv(session) /\ [SessionNext]_session => SessionInv(session)'
<1> SUFFICES ASSUME SessionInv(session), SessionNext PROVE SessionInv(session)'
  OBVIOUS
<1>0. Going(session)
  BY DEF Going, SessionNext, Top, Running, MconfMenu, MconfChoice, MconfString, MconfLoad, MconfSave,
     MconfSearch, MconfExit, Interrupt, NconfMenu, NconfKeys, NconfChoice, NconfString, NconfLoad,
     NconfSave, NconfSearch, NconfExit, ChoiceBox, StringBox, LoadBox, SaveBox
<1> USE <1>0
<1>1. CASE MconfMenu
  <2>1. \A all \in BOOLEAN : Going([session EXCEPT !.all = all])
    BY ShownGoes
  <2>2. session.all \in BOOLEAN
    BY DEF Going, SessionInv, SessionRec
  <2>3. session' = LeaveMenu(session) => SessionInv(session)'
    BY ExitKeeps
  <2>4. \A item : session' \in Opened(session, item) \cup Keyed(session, item) => SessionInv(session)'
    BY ItemGoes DEF Going
  <2>5. \A fn : session' = Call(session, fn, Here) => SessionInv(session)'
    BY CallGoes DEF Going
  <2>6. session' = [session EXCEPT !.all = ~@] => SessionInv(session)'
    BY <2>1, <2>2 DEF Going
  <2> QED BY <1>1, <2>3, <2>4, <2>5, <2>6 DEF MconfMenu
<1>2. CASE MconfChoice \/ MconfString \/ MconfLoad \/ MconfSave
  BY <1>2, BoxesGo DEF MconfChoice, MconfString, MconfLoad, MconfSave, Going
<1>3. CASE MconfSearch
  BY <1>3, CallGoes DEF MconfSearch, Going
<1>4. CASE MconfExit
  <2>1. session' = [session EXCEPT !.stack = <<[fn |-> "conf", menu |-> Root]>>] => SessionInv(session)'
    BY StackGoes DEF Going
  <2>2. \A works \in BOOLEAN : session' = Saved(session, works) => SessionInv(session)'
    BY SavedKeeps
  <2>3. session' = Ended(session, "discarded") => SessionInv(session)'
    BY EndKeeps
  <2> QED BY <1>4, <2>1, <2>2, <2>3 DEF MconfExit
<1>5. CASE Interrupt
  BY <1>5, ExitKeeps DEF Interrupt
<1>6. CASE NconfMenu
  BY <1>6, ExitKeeps, ItemGoes DEF NconfMenu, Going
<1>7. CASE NconfKeys
  BY <1>7, KeysGo
<1>8. CASE NconfChoice \/ NconfString \/ NconfLoad \/ NconfSave
  BY <1>8, BoxesGo DEF NconfChoice, NconfString, NconfLoad, NconfSave, Going
<1>9. CASE NconfSearch
  BY <1>9, CallGoes DEF NconfSearch, Going
<1>10. CASE NconfExit
  BY <1>10, CallGoes, StackGoes, SavedKeeps, EndKeeps DEF NconfExit, Going
<1> QED BY <1>1, <1>2, <1>3, <1>4, <1>5, <1>6, <1>7, <1>8, <1>9, <1>10 DEF SessionNext

(* ExitLosesNothing: for any tree of menus, files and values, and any sequence *)
(* of menus, loads, saves, failed saves, searches and signals: when a front    *)
(* end has nothing to save, or ends as if all was well, the file it would save *)
(* to holds the values in effect, but for changes a failed load dropped.       *)
THEOREM ExitsLoseNothing == SessionSpec => []ExitLosesNothing
<1>1. SessionInv(session) => ExitLosesNothing
  BY DEF SessionInv, SessionRec, Backed, ExitLosesNothing
<1> QED BY <1>1, SessionStart, SessionStep, PTL DEF SessionSpec

------------------------------------------------------------------------------
(* The windows over a text.  A box that shows a text keeps what its keys do    *)
(* not assign: a step is told from the box before by the fields it assigns.    *)

(* What a step of the text box leaves alone is in the singletons.              *)
TextRec(b) ==
    [kind : {"text"}, phase : {b.phase}, text : {b.text}, results : {b.results}, rows : {b.rows},
     page : 0 .. b.text.lines, begin : BOOLEAN, end : BOOLEAN, len : Nat, top : {b.top},
     side : {b.side}, vscroll : {b.vscroll}, keys : {b.keys}, target : {b.target},
     header : {b.header}]
GoodText(t) ==
    /\ t.lines \in Nat \ {0} /\ t.whole \in BOOLEAN
    /\ t.places \in Seq(0 .. t.lines - 1)
    /\ \A i, j \in 1 .. Len(t.places) : i <= j => t.places[i] <= t.places[j]
Page(b) ==
    /\ b \in TextRec(b) /\ GoodText(b.text)
    /\ b.rows \in Nat /\ b.results \in BOOLEAN
LastLine(b) == IF b.text.whole THEN b.text.lines ELSE b.text.lines - 1

LEMMA PageSame ==
    ASSUME NEW b, Page(b), NEW c \in TextRec(b)
    PROVE  /\ TextRec(c) = TextRec(b) /\ Page(c) /\ c.text = b.text /\ c.rows = b.rows
           /\ c.results = b.results /\ LastLine(c) = LastLine(b)
           /\ c.page \in Nat /\ c.len \in Nat /\ c.begin \in BOOLEAN /\ c.end \in BOOLEAN
           /\ b.text.lines \in Nat \ {0} /\ LastLine(b) \in Nat
           /\ LastLine(b) <= b.text.lines /\ LastLine(b) >= b.text.lines - 1
           /\ c.page <= b.text.lines
<1>1. /\ c.phase = b.phase /\ c.text = b.text /\ c.results = b.results /\ c.rows = b.rows
      /\ c.top = b.top /\ c.side = b.side /\ c.vscroll = b.vscroll /\ c.keys = b.keys
      /\ c.target = b.target /\ c.header = b.header
  BY DEF TextRec
<1>2. TextRec(c) = TextRec(b)
  BY <1>1, Zenon DEF TextRec
<1>3. b.text.lines \in Nat \ {0} /\ b.text.whole \in BOOLEAN
  BY DEF Page, GoodText
<1>4. c.page \in 0 .. b.text.lines /\ c.len \in Nat /\ c.begin \in BOOLEAN /\ c.end \in BOOLEAN
  BY DEF TextRec
<1> QED BY <1>1, <1>2, <1>3, <1>4 DEF Page, LastLine

(* A page that is moved, and what else the keys assign.                        *)
Moved3(c, b, p, g, e) ==
    c \in TextRec(b) /\ c.page = p /\ c.begin = g /\ c.end = e /\ c.len = b.len
LEMMA PageAt ==
    ASSUME NEW b, Page(b), NEW p \in 0 .. b.text.lines
    PROVE  Moved3([b EXCEPT !.page = p], b, p, b.begin, b.end)
BY DEF Page, TextRec, Moved3
LEMMA BeginAt ==
    ASSUME NEW b, Page(b), NEW g \in BOOLEAN
    PROVE  Moved3([b EXCEPT !.begin = g], b, b.page, g, b.end)
BY DEF Page, TextRec, Moved3
LEMMA EndAt ==
    ASSUME NEW b, Page(b), NEW e \in BOOLEAN
    PROVE  Moved3([b EXCEPT !.end = e], b, b.page, b.begin, e)
BY DEF Page, TextRec, Moved3

(* One line ahead and one back.                                                *)
LEMMA LineAhead ==
    ASSUME NEW b, Page(b)
    PROVE  LET c == GetLine(b) IN
           /\ c \in TextRec(b) /\ c.begin = b.begin /\ c.len = b.len
           /\ c.page = Smaller(b.page + 1, b.text.lines)
           /\ c.end = (b.page >= LastLine(b))
<1> DEFINE p == IF b.page < b.text.lines THEN b.page + 1 ELSE b.page
           e == b.page >= LastLine(b)
<1>1. /\ b.page \in 0 .. b.text.lines /\ b.text.lines \in Nat
      /\ b \in TextRec(b)
  BY PageSame DEF Page, TextRec
<1>2. p \in 0 .. b.text.lines /\ p = Smaller(b.page + 1, b.text.lines) /\ e \in BOOLEAN
  BY <1>1 DEF Smaller
<1>3. GetLine(b) = [b EXCEPT !.page = p, !.end = e]
  BY DEF GetLine, LastLine
<1> HIDE DEF p, e
<1>4. /\ [b EXCEPT !.page = p, !.end = e] \in TextRec(b)
      /\ [b EXCEPT !.page = p, !.end = e].begin = b.begin
      /\ [b EXCEPT !.page = p, !.end = e].len = b.len
      /\ [b EXCEPT !.page = p, !.end = e].page = p
      /\ [b EXCEPT !.page = p, !.end = e].end = e
  BY <1>1, <1>2 DEF TextRec
<1> QED BY <1>2, <1>3, <1>4 DEF e

(* What is counted back from a page: at the end of the text one step only      *)
(* clears end_reached.                                                         *)
Wasted(b) == IF b.page = b.text.lines /\ b.end = TRUE THEN 1 ELSE 0
LEMMA LineBack ==
    ASSUME NEW b, Page(b), b.begin = FALSE
    PROVE  LET c == BackLine(b) IN
           /\ c \in TextRec(b) /\ c.len = b.len
           /\ Wasted(b) = 1 => c.page = b.page /\ c.begin = FALSE /\ c.end = FALSE
           /\ Wasted(b) = 0 => /\ c.page = Larger(b.page - 1, 0) /\ c.end = b.end
                               /\ (c.begin = TRUE <=> b.page <= 1)
<1>1. /\ b.page \in 0 .. b.text.lines /\ b.text.lines \in Nat
      /\ b \in TextRec(b) /\ b.end \in BOOLEAN
  BY PageSame DEF Page, TextRec
<1>2. CASE Wasted(b) = 1
  <2>1. BackLine(b) = [b EXCEPT !.end = FALSE]
    BY <1>1, <1>2 DEF BackLine, Wasted
  <2>2. Moved3([b EXCEPT !.end = FALSE], b, b.page, b.begin, FALSE)
    BY EndAt
  <2> QED BY <1>2, <2>1, <2>2 DEF Moved3
<1>3. CASE Wasted(b) = 0 /\ b.page <= 1
  <2> DEFINE p == Larger(b.page - 1, 0)
             c == [b EXCEPT !.page = p]
  <2>0. ~ (b.page = b.text.lines /\ b.end)
    BY <1>1, <1>3 DEF Wasted
  <2>1. p = 0 /\ p \in 0 .. b.text.lines
    BY <1>1, <1>3 DEF Larger
  <2>2. BackLine(b) = [c EXCEPT !.begin = TRUE]
    BY <1>3, <2>0, <2>1 DEF BackLine
  <2>3. Moved3(c, b, p, b.begin, b.end)
    BY <2>1, PageAt
  <2> HIDE DEF c
  <2>4. Page(c)
    BY <2>3, PageSame DEF Moved3
  <2>5. Moved3([c EXCEPT !.begin = TRUE], c, c.page, TRUE, c.end)
    BY <2>4, BeginAt
  <2>6. Moved3([c EXCEPT !.begin = TRUE], b, c.page, TRUE, c.end)
    BY <2>3, <2>5, PageSame DEF Moved3
  <2> QED BY <1>3, <2>2, <2>3, <2>6 DEF Moved3
<1>4. CASE Wasted(b) = 0 /\ ~ (b.page <= 1)
  <2> DEFINE p == b.page - 1
  <2>0. ~ (b.page = b.text.lines /\ b.end)
    BY <1>1, <1>4 DEF Wasted
  <2>1. BackLine(b) = [b EXCEPT !.page = p]
    BY <1>4, <2>0 DEF BackLine
  <2>2. p \in 0 .. b.text.lines /\ p = Larger(b.page - 1, 0)
    BY <1>1, <1>4 DEF Larger
  <2>3. Moved3([b EXCEPT !.page = p], b, p, b.begin, b.end)
    BY <2>2, PageAt
  <2> HIDE DEF p
  <2> QED BY <1>4, <2>1, <2>2, <2>3 DEF Moved3
<1> QED BY <1>2, <1>3, <1>4 DEF Wasted

(* get_line k times, and back_lines.                                           *)
LEMMA LinesAhead ==
    ASSUME NEW b, Page(b), NEW k \in Nat
    PROVE  LET c == GetLines(b, k) IN
           /\ c \in TextRec(b) /\ c.begin = b.begin /\ c.len = b.len
           /\ c.page = Smaller(b.page + k, b.text.lines)
           /\ k = 0 => c.end = b.end
           /\ k # 0 => (c.end = TRUE <=> b.page + k > LastLine(b))
<1> DEFINE V == TextRec(b)
           F == [c \in V |-> GetLine(c)]
           after == CHOOSE f : f = [i \in 0 .. k |-> IF i = 0 THEN b ELSE GetLine(f[i - 1])]
           L == b.text.lines
           last == LastLine(b)
<1>1. b \in V /\ L \in Nat /\ last \in Nat /\ last <= L /\ b.page \in Nat /\ b.page <= L
  BY PageSame DEF Page
<1>2. ASSUME NEW c \in V
      PROVE  /\ GetLine(c) \in V /\ GetLine(c).begin = c.begin /\ GetLine(c).len = c.len
             /\ GetLine(c).page = Smaller(c.page + 1, L)
             /\ GetLine(c).end = (c.page >= last)
             /\ c.page \in Nat
  <2>1. TextRec(c) = TextRec(b) /\ Page(c) /\ c.text = b.text /\ LastLine(c) = last /\ c.page \in Nat
    BY PageSame
  <2> HIDE DEF last
  <2> QED BY <2>1, LineAhead
<1>3. F \in [V -> V] /\ \A c \in V : F[c] = GetLine(c)
  BY <1>2
<1>4. GetLines(b, k) = after[k]
  BY DEF GetLines
<1> HIDE DEF V, F, L, last
<1>5. PICK h : Repeats(h, V, b, F, k)
  BY <1>1, <1>3, Repetition
<1>6. \A i \in 0 .. k : i # 0 => i - 1 \in 0 .. k
  OBVIOUS
<1>7. h = [i \in 0 .. k |-> IF i = 0 THEN b ELSE GetLine(h[i - 1])]
  BY <1>3, <1>5, <1>6 DEF Repeats
<1>8. after = [i \in 0 .. k |-> IF i = 0 THEN b ELSE GetLine(after[i - 1])]
  BY <1>7
<1> HIDE DEF after
<1> DEFINE At(i, c) == /\ c \in V /\ c.begin = b.begin /\ c.len = b.len
                       /\ c.page = Smaller(b.page + i, L)
                       /\ i = 0 => c.end = b.end
                       /\ i # 0 => (c.end = TRUE <=> b.page + i > last)
           P == {i \in 0 .. k : At(i, after[i])}
<1>9. 0 \in P
  <2>1. after[0] = b /\ 0 \in 0 .. k
    BY <1>8
  <2>2. b.page = Smaller(b.page + 0, L)
    BY <1>1 DEF Smaller
  <2> QED BY <1>1, <2>1, <2>2
<1>10. ASSUME NEW i \in 0 .. k - 1, i \in P
       PROVE  i + 1 \in P
  <2> DEFINE c == after[i]
  <2>1. i + 1 \in 0 .. k /\ i + 1 # 0 /\ (i + 1) - 1 = i /\ i \in Nat
    OBVIOUS
  <2>2. after[i + 1] = GetLine(c)
    BY <1>8, <2>1
  <2>3. At(i, c)
    BY <1>10
  <2> HIDE DEF c
  <2>4. Smaller(c.page + 1, L) = Smaller(b.page + (i + 1), L)
    BY <1>1, <2>1, <2>3 DEF Smaller
  <2>5. c.page >= last <=> b.page + (i + 1) > last
    BY <1>1, <2>1, <2>3 DEF Smaller
  <2>6. At(i + 1, GetLine(c))
    BY <1>2, <2>1, <2>3, <2>4, <2>5
  <2> QED BY <2>1, <2>2, <2>6
<1>11. P \in SUBSET (0 .. k) /\ k \in 0 .. k
  OBVIOUS
<1>12. k \in P
  <2> HIDE DEF P
  <2> QED BY <1>9, <1>10, <1>11, UpTo
<1>13. At(k, after[k])
  BY <1>12
<1> QED BY <1>4, <1>13 DEF V, L, last

(* How far k steps back lead: the numbers alone.                               *)
Back(p, d, k) == Larger(p - Larger(k - d, 0), 0)
Further(L, p, d, i) ==
    /\ Back(p, d, 0) = p /\ Back(p, d, i) \in 0 .. L
    /\ (i >= 1 /\ i - d >= p) => (Back(p, d, i + 1) = Back(p, d, i) /\ i + 1 - d >= p)
    /\ (i = 0 /\ d = 1) => (Back(p, d, i + 1) = Back(p, d, i) /\ ~ (i + 1 - d >= p))
    /\ (~ (i >= 1 /\ i - d >= p) /\ ~ (i = 0 /\ d = 1)) =>
          /\ Back(p, d, i + 1) = Larger(Back(p, d, i) - 1, 0)
          /\ Back(p, d, i) <= 1 <=> i + 1 - d >= p
    /\ (i >= 1 /\ ~ (i - d >= p) /\ d = 0) => Back(p, d, i) # L
LEMMA OneFurther ==
    ASSUME NEW L \in Nat \ {0}, NEW p \in 0 .. L, NEW d \in {0, 1}, d = 1 => p = L, NEW i \in Nat
    PROVE  Further(L, p, d, i)
BY DEF Further, Back, Larger

LEMMA LinesBack ==
    ASSUME NEW b, Page(b), NEW k \in Int
    PROVE  LET c == BackLines(b, k)
               n == IF k < 0 THEN 0 ELSE k
           IN  /\ c \in TextRec(b) /\ c.len = b.len
               /\ c.page = Back(b.page, Wasted(b), n)
               /\ c.begin = TRUE <=> (n >= 1 /\ n - Wasted(b) >= b.page)
               /\ (n >= 1 /\ Wasted(b) = 1) => c.end = FALSE
               /\ ~ (n >= 1 /\ Wasted(b) = 1) => c.end = b.end
<1> DEFINE V == TextRec(b)
           StepBack(c) == IF c.begin THEN c ELSE BackLine(c)
           F == [c \in V |-> StepBack(c)]
           v == [b EXCEPT !.begin = FALSE]
           n == IF k < 0 THEN 0 ELSE k
           after == CHOOSE f : f = [i \in 0 .. n |-> IF i = 0 THEN v ELSE StepBack(f[i - 1])]
           L == b.text.lines
           d == Wasted(b)
           p == b.page
<1>1. L \in Nat \ {0} /\ p \in 0 .. L /\ d \in {0, 1} /\ (d = 1 => p = L /\ b.end = TRUE)
  BY PageSame DEF Wasted, Page
<1>2. v \in V /\ v.page = p /\ v.begin = FALSE /\ v.end = b.end /\ v.len = b.len
  BY BeginAt DEF Moved3
<1>3. ASSUME NEW c \in V
      PROVE  /\ c.begin = TRUE => StepBack(c) = c
             /\ c.begin = FALSE =>
                   /\ StepBack(c) \in V /\ StepBack(c).len = c.len
                   /\ Wasted(c) = 1 => StepBack(c).page = c.page /\ StepBack(c).begin = FALSE /\ StepBack(c).end = FALSE
                   /\ Wasted(c) = 0 => /\ StepBack(c).page = Larger(c.page - 1, 0) /\ StepBack(c).end = c.end
                                       /\ (StepBack(c).begin = TRUE <=> c.page <= 1)
             /\ StepBack(c) \in V /\ c.begin \in BOOLEAN /\ c.end \in BOOLEAN
             /\ Wasted(c) = IF c.page = L /\ c.end = TRUE THEN 1 ELSE 0
  <2>1. TextRec(c) = TextRec(b) /\ Page(c) /\ c.text = b.text /\ c.begin \in BOOLEAN /\ c.end \in BOOLEAN
    BY PageSame
  <2>2. CASE c.begin = TRUE
    BY <2>1, <2>2 DEF Wasted
  <2>3. CASE c.begin = FALSE
    <3>1. StepBack(c) = BackLine(c)
      BY <2>3
    <3> HIDE DEF StepBack
    <3>2. /\ BackLine(c) \in V /\ BackLine(c).len = c.len
          /\ Wasted(c) = 1 => BackLine(c).page = c.page /\ BackLine(c).begin = FALSE /\ BackLine(c).end = FALSE
          /\ Wasted(c) = 0 => /\ BackLine(c).page = Larger(c.page - 1, 0) /\ BackLine(c).end = c.end
                              /\ (BackLine(c).begin = TRUE <=> c.page <= 1)
      BY <2>1, <2>3, LineBack
    <3>3. Wasted(c) = IF c.page = L /\ c.end = TRUE THEN 1 ELSE 0
      BY <2>1 DEF Wasted
    <3> HIDE DEF V, L
    <3> QED BY <2>1, <2>3, <3>1, <3>2, <3>3
  <2> QED BY <2>1, <2>2, <2>3
<1>4. BackLines(b, k) = after[n]
  BY DEF BackLines
<1>5. n \in Nat
  OBVIOUS
<1> HIDE DEF V, L, d, p, n, v
<1>6. F \in [V -> V] /\ \A c \in V : F[c] = StepBack(c)
  BY <1>3
<1> HIDE DEF F, StepBack
<1>7. PICK h : Repeats(h, V, v, F, n)
  BY <1>2, <1>5, <1>6, Repetition
<1>8. \A i \in 0 .. n : i # 0 => i - 1 \in 0 .. n
  BY <1>5
<1>9. h = [i \in 0 .. n |-> IF i = 0 THEN v ELSE StepBack(h[i - 1])]
  BY <1>6, <1>7, <1>8 DEF Repeats
<1>10. after = [i \in 0 .. n |-> IF i = 0 THEN v ELSE StepBack(after[i - 1])]
  BY <1>9
<1> HIDE DEF after
<1> DEFINE P == {m \in 0 .. n :
                    /\ after[m] \in V /\ after[m].len = b.len /\ after[m].page = Back(p, d, m)
                    /\ after[m].begin = TRUE <=> (m >= 1 /\ m - d >= p)
                    /\ (m >= 1 /\ d = 1) => after[m].end = FALSE
                    /\ ~ (m >= 1 /\ d = 1) => after[m].end = b.end}
<1>11. 0 \in P
  <2>1. after[0] = v /\ 0 \in 0 .. n
    BY <1>5, <1>10
  <2>2. Further(L, p, d, 0)
    BY <1>1, OneFurther
  <2>3. Back(p, d, 0) = p
    BY <2>2 DEF Further
  <2> QED BY <1>2, <2>1, <2>3
<1>12. ASSUME NEW i \in 0 .. n - 1, i \in P
       PROVE  i + 1 \in P
  <2> DEFINE c == after[i]
  <2>1. i + 1 \in 0 .. n /\ i + 1 # 0 /\ (i + 1) - 1 = i /\ i \in Nat
    BY <1>5
  <2>2. after[i + 1] = StepBack(c)
    BY <1>10, <2>1
  <2>3. /\ c \in V /\ c.len = b.len /\ c.page = Back(p, d, i)
        /\ c.begin = TRUE <=> (i >= 1 /\ i - d >= p)
        /\ (i >= 1 /\ d = 1) => c.end = FALSE
        /\ ~ (i >= 1 /\ d = 1) => c.end = b.end
    BY <1>12
  <2> HIDE DEF c, P
  <2>4. /\ StepBack(c) \in V /\ StepBack(c).len = b.len /\ StepBack(c).page = Back(p, d, i + 1)
        /\ StepBack(c).begin = TRUE <=> (i + 1 >= 1 /\ i + 1 - d >= p)
        /\ (i + 1 >= 1 /\ d = 1) => StepBack(c).end = FALSE
        /\ ~ (i + 1 >= 1 /\ d = 1) => StepBack(c).end = b.end
    <3> DEFINE w == i >= 1 /\ i - d >= p
               u == i = 0 /\ d = 1
    <3>0. Further(L, p, d, i)
      BY <1>1, <2>1, OneFurther
    <3>1. /\ w => (Back(p, d, i + 1) = Back(p, d, i) /\ i + 1 - d >= p)
          /\ u => (Back(p, d, i + 1) = Back(p, d, i) /\ ~ (i + 1 - d >= p))
          /\ (~w /\ ~u) => /\ Back(p, d, i + 1) = Larger(Back(p, d, i) - 1, 0)
                           /\ Back(p, d, i) <= 1 <=> i + 1 - d >= p
          /\ (i >= 1 /\ ~ (i - d >= p) /\ d = 0) => Back(p, d, i) # L
      BY <3>0 DEF Further
    <3>2. i + 1 >= 1 /\ i \in Nat /\ i + 1 \in Nat
      BY <2>1
    <3>3. /\ c \in V /\ c.len = b.len /\ c.page = Back(p, d, i)
          /\ c.begin = TRUE <=> w
          /\ (i >= 1 /\ d = 1) => c.end = FALSE
          /\ ~ (i >= 1 /\ d = 1) => c.end = b.end
      BY <2>3
    <3>4. /\ c.begin = TRUE => StepBack(c) = c
          /\ c.begin = FALSE =>
                 /\ StepBack(c) \in V /\ StepBack(c).len = c.len
                 /\ Wasted(c) = 1 => (StepBack(c).page = c.page /\ StepBack(c).begin = FALSE /\ StepBack(c).end = FALSE)
                 /\ Wasted(c) = 0 => (/\ StepBack(c).page = Larger(c.page - 1, 0) /\ StepBack(c).end = c.end
                                     /\ (StepBack(c).begin = TRUE <=> c.page <= 1))
          /\ c.begin \in BOOLEAN /\ c.end \in BOOLEAN
          /\ Wasted(c) = IF c.page = L /\ c.end = TRUE THEN 1 ELSE 0
      BY <1>3, <3>3
    <3>5. CASE w
      <4>1. StepBack(c) = c /\ Back(p, d, i + 1) = Back(p, d, i) /\ i + 1 - d >= p /\ i >= 1
        BY <3>1, <3>3, <3>4, <3>5
      <4>2. c.begin = TRUE /\ (d = 1 => c.end = FALSE) /\ (d # 1 => c.end = b.end)
        BY <3>3, <3>5
      <4>3. c.page = Back(p, d, i + 1)
        BY <3>3, <4>1
      <4>4. c \in V /\ c.len = b.len
        BY <3>3
      <4>5. /\ c \in V /\ c.len = b.len /\ c.page = Back(p, d, i + 1)
            /\ c.begin = TRUE <=> (i + 1 >= 1 /\ i + 1 - d >= p)
            /\ (i + 1 >= 1 /\ d = 1) => c.end = FALSE
            /\ ~ (i + 1 >= 1 /\ d = 1) => c.end = b.end
        <5> HIDE DEF w, u
        <5>1. c.begin = TRUE <=> (i + 1 >= 1 /\ i + 1 - d >= p)
          BY <3>2, <4>1, <4>2
        <5>2. (i + 1 >= 1 /\ d = 1) => c.end = FALSE
          BY <4>2
        <5>3. ~ (i + 1 >= 1 /\ d = 1) => c.end = b.end
          BY <3>2, <4>2
        <5>4. c \in V /\ c.len = b.len /\ c.page = Back(p, d, i + 1)
          BY <4>3, <4>4
        <5> QED BY <5>1, <5>2, <5>3, <5>4
      <4> QED BY <4>1, <4>5
    <3>6. CASE u
      <4>1. c.page = L /\ c.end = TRUE /\ c.begin = FALSE
        <5>1. c.page = p
          BY <3>0, <3>3, <3>6 DEF Further
        <5>2. c.begin = FALSE
          BY <3>3, <3>4, <3>6
        <5> QED BY <1>1, <3>3, <3>6, <5>1, <5>2
      <4>2. StepBack(c) \in V /\ StepBack(c).len = c.len /\ StepBack(c).page = c.page /\ StepBack(c).begin = FALSE
            /\ StepBack(c).end = FALSE
        BY <3>4, <4>1
      <4>3. Back(p, d, i + 1) = Back(p, d, i) /\ ~ (i + 1 - d >= p)
        BY <3>1, <3>6
      <4> QED BY <3>2, <3>3, <3>6, <4>2, <4>3
    <3>7. CASE ~w /\ ~u
      <4>1. Wasted(c) = 0
        <5>1. CASE i = 0
          <6>1. c.page = p /\ c.end = b.end /\ d = 0
            BY <1>1, <3>3, <3>0, <3>7, <5>1 DEF Further
          <6>2. d = IF p = L /\ b.end = TRUE THEN 1 ELSE 0
            BY DEF d, p, L, Wasted
          <6> QED BY <3>4, <6>1, <6>2
        <5>2. CASE i # 0 /\ d = 1
          <6>1. c.end = FALSE
            BY <3>2, <3>3, <5>2
          <6> QED BY <3>4, <6>1
        <5>3. CASE i # 0 /\ d = 0
          <6>1. c.page # L
            BY <3>1, <3>2, <3>3, <3>7, <5>3
          <6> QED BY <3>4, <6>1
        <5> QED BY <1>1, <5>1, <5>2, <5>3
      <4>2. /\ StepBack(c) \in V /\ StepBack(c).len = c.len /\ StepBack(c).page = Larger(c.page - 1, 0)
            /\ StepBack(c).end = c.end /\ (StepBack(c).begin = TRUE <=> c.page <= 1)
        BY <3>3, <3>4, <3>7, <4>1
      <4>3. Back(p, d, i + 1) = Larger(Back(p, d, i) - 1, 0) /\ (Back(p, d, i) <= 1 <=> i + 1 - d >= p)
        BY <3>1, <3>7
      <4>4. (d = 1 => c.end = FALSE) /\ (d # 1 => c.end = b.end)
        BY <1>1, <3>2, <3>3, <3>7
      <4> DEFINE e == StepBack(c)
      <4>5. /\ e \in V /\ e.len = b.len /\ e.page = Back(p, d, i + 1)
            /\ (e.begin = TRUE <=> i + 1 - d >= p)
            /\ (d = 1 => e.end = FALSE) /\ (d # 1 => e.end = b.end)
        BY <3>3, <4>2, <4>3, <4>4
      <4> HIDE DEF e, w, u
      <4>6. /\ e \in V /\ e.len = b.len /\ e.page = Back(p, d, i + 1)
            /\ e.begin = TRUE <=> (i + 1 >= 1 /\ i + 1 - d >= p)
            /\ (i + 1 >= 1 /\ d = 1) => e.end = FALSE
            /\ ~ (i + 1 >= 1 /\ d = 1) => e.end = b.end
        BY <3>2, <4>5
      <4> QED BY <4>6 DEF e
    <3> QED BY <3>5, <3>6, <3>7
  <2>5. /\ after[i + 1] \in V /\ after[i + 1].len = b.len /\ after[i + 1].page = Back(p, d, i + 1)
        /\ after[i + 1].begin = TRUE <=> (i + 1 >= 1 /\ i + 1 - d >= p)
        /\ (i + 1 >= 1 /\ d = 1) => after[i + 1].end = FALSE
        /\ ~ (i + 1 >= 1 /\ d = 1) => after[i + 1].end = b.end
    BY <2>2, <2>4
  <2> QED BY <1>1, <2>1, <2>5 DEF P
<1>13. P \in SUBSET (0 .. n) /\ n \in 0 .. n
  BY <1>5
<1>14. n \in P
  <2> HIDE DEF P
  <2> QED BY <1>5, <1>11, <1>12, <1>13, UpTo
<1>15. /\ after[n] \in V /\ after[n].len = b.len /\ after[n].page = Back(p, d, n)
       /\ after[n].begin = TRUE <=> (n >= 1 /\ n - d >= p)
       /\ (n >= 1 /\ d = 1) => after[n].end = FALSE
       /\ ~ (n >= 1 /\ d = 1) => after[n].end = b.end
  BY <1>14
<1> QED BY <1>4, <1>15 DEF V, n, d, p

(* The lines of a page: they are counted up to the end of the text.            *)
Counted(c, b, l, e) ==
    c \in TextRec(b) /\ c.page = b.page /\ c.begin = b.begin /\ c.end = e /\ c.len = l
LEMMA LenAt ==
    ASSUME NEW b, Page(b), NEW l \in Nat
    PROVE  Counted([b EXCEPT !.len = l], b, l, b.end)
BY DEF Page, TextRec, Counted
LEMMA LenEndAt ==
    ASSUME NEW b, Page(b), NEW l \in Nat, NEW e \in BOOLEAN
    PROVE  Counted([b EXCEPT !.len = l, !.end = e], b, l, e)
BY DEF Page, TextRec, Counted

PrintOne(c) == IF c.end THEN c ELSE [GetLine(c) EXCEPT !.len = @ + 1]
Printing(f, rows) ==
    LET printed[i \in 0 .. rows] ==
            IF i = 0 THEN [f EXCEPT !.len = 0, !.end = @ /\ rows = 0]
            ELSE PrintOne(printed[i - 1])
    IN  printed[rows]

LEMMA OnePrinted ==
    ASSUME NEW b, Page(b)
    PROVE  /\ b.end = TRUE => PrintOne(b) = b
           /\ b.end = FALSE =>
                 /\ PrintOne(b) \in TextRec(b) /\ PrintOne(b).begin = b.begin
                 /\ PrintOne(b).len = b.len + 1
                 /\ PrintOne(b).page = Smaller(b.page + 1, b.text.lines)
                 /\ (PrintOne(b).end = TRUE <=> b.page >= LastLine(b))
<1>1. CASE b.end = TRUE
  BY <1>1 DEF PrintOne
<1>2. CASE b.end = FALSE
  <2> DEFINE c == GetLine(b)
             l == c.len + 1
  <2>1. /\ c \in TextRec(b) /\ c.begin = b.begin /\ c.len = b.len
        /\ c.page = Smaller(b.page + 1, b.text.lines)
        /\ c.end = (b.page >= LastLine(b))
    BY LineAhead
  <2>2. PrintOne(b) = [c EXCEPT !.len = l]
    BY <1>2 DEF PrintOne
  <2> HIDE DEF c
  <2>3. Page(c) /\ TextRec(c) = TextRec(b) /\ l \in Nat
    BY <2>1, PageSame
  <2> HIDE DEF l
  <2>4. Counted([c EXCEPT !.len = l], c, l, c.end)
    BY <2>3, LenAt
  <2> DEFINE d == [c EXCEPT !.len = l]
  <2>5. d \in TextRec(b) /\ d.page = c.page /\ d.begin = c.begin /\ d.end = c.end /\ d.len = l
    BY <2>3, <2>4 DEF Counted
  <2>6. PrintOne(b) = d
    BY <2>2
  <2> HIDE DEF d
  <2>7. l = b.len + 1
    BY <2>1 DEF l
  <2> HIDE DEF l
  <2> QED BY <1>2, <2>1, <2>5, <2>6, <2>7
<1> QED BY <1>1, <1>2

LEMMA PrintedLines ==
    ASSUME NEW f, Page(f), NEW rows \in Nat
    PROVE  LET c == Printing(f, rows) IN
           /\ c \in TextRec(f) /\ c.begin = f.begin
           /\ c.len <= rows /\ (rows # 0 => c.len # 0)
           /\ c.page = Smaller(f.page + c.len, f.text.lines)
           /\ rows # 0 => (c.end = TRUE <=> f.page + c.len > LastLine(f))
           /\ c.len <= 1 \/ f.page + c.len <= LastLine(f) + 1
<1> DEFINE V == TextRec(f)
           F == [c \in V |-> PrintOne(c)]
           z == 0
           e == f.end /\ rows = 0
           v == [f EXCEPT !.len = z, !.end = e]
           after == CHOOSE g : g = [i \in 0 .. rows |->
                        IF i = 0 THEN [f EXCEPT !.len = 0, !.end = @ /\ rows = 0]
                        ELSE PrintOne(g[i - 1])]
           L == f.text.lines
           q == f.page
           last == LastLine(f)
<1>1. /\ L \in Nat /\ q \in Nat /\ q <= L /\ last \in Nat /\ last <= L /\ f.end \in BOOLEAN
  BY PageSame DEF Page
<1>2. z \in Nat /\ e \in BOOLEAN /\ (rows # 0 => e = FALSE)
  BY <1>1
<1>3. Printing(f, rows) = after[rows]
  BY DEF Printing
<1>4. [f EXCEPT !.len = 0, !.end = @ /\ rows = 0] = v
  OBVIOUS
<1> HIDE DEF e
<1>5. v \in V /\ v.page = q /\ v.begin = f.begin /\ v.end = e /\ v.len = 0
  <2> HIDE DEF z
  <2>1. Counted(v, f, z, e)
    BY <1>2, LenEndAt
  <2> HIDE DEF v
  <2> QED BY <2>1 DEF z, Counted
<1> HIDE DEF v
<1>6. ASSUME NEW c \in V
      PROVE  /\ c.end \in BOOLEAN /\ c.len \in Nat /\ c.page \in Nat
             /\ c.end = TRUE => PrintOne(c) = c
             /\ c.end = FALSE =>
                   /\ PrintOne(c) \in V /\ PrintOne(c).begin = c.begin
                   /\ PrintOne(c).len = c.len + 1
                   /\ PrintOne(c).page = Smaller(c.page + 1, L)
                   /\ (PrintOne(c).end = TRUE <=> c.page >= last)
  <2>1. TextRec(c) = TextRec(f) /\ Page(c) /\ c.text.lines = L /\ LastLine(c) = last
        /\ c.end \in BOOLEAN /\ c.len \in Nat /\ c.page \in Nat
    BY PageSame
  <2>2. c.end = TRUE => PrintOne(c) = c
    BY <2>1, OnePrinted
  <2>3. c.end = FALSE =>
                 /\ PrintOne(c) \in TextRec(c) /\ PrintOne(c).begin = c.begin
                 /\ PrintOne(c).len = c.len + 1
                 /\ PrintOne(c).page = Smaller(c.page + 1, c.text.lines)
                 /\ (PrintOne(c).end = TRUE <=> c.page >= LastLine(c))
    BY <2>1, OnePrinted
  <2> HIDE DEF last, L
  <2> QED BY <2>1, <2>2, <2>3
<1>7. F \in [V -> V] /\ \A c \in V : F[c] = PrintOne(c)
  BY <1>6
<1> HIDE DEF V, F, L, last, q
<1>8. PICK h : Repeats(h, V, v, F, rows)
  BY <1>5, <1>7, Repetition
<1>9. \A i \in 0 .. rows : i # 0 => i - 1 \in 0 .. rows
  OBVIOUS
<1>10. h = [i \in 0 .. rows |-> IF i = 0 THEN v ELSE PrintOne(h[i - 1])]
  BY <1>7, <1>8, <1>9 DEF Repeats
<1>11. after = [i \in 0 .. rows |-> IF i = 0 THEN v ELSE PrintOne(after[i - 1])]
  BY <1>4, <1>10
<1> HIDE DEF after
<1> DEFINE P == {m \in 0 .. rows :
                    /\ after[m] \in V /\ after[m].begin = f.begin
                    /\ after[m].len <= m /\ (m # 0 => after[m].len # 0)
                    /\ after[m].page = Smaller(q + after[m].len, L)
                    /\ rows # 0 => (after[m].end = TRUE <=> after[m].len # 0 /\ q + after[m].len > last)
                    /\ after[m].len <= 1 \/ q + after[m].len <= last + 1}
<1>12. 0 \in P
  <2>1. after[0] = v /\ 0 \in 0 .. rows
    BY <1>11
  <2>2. q = Smaller(q + 0, L)
    BY <1>1 DEF Smaller
  <2> QED BY <1>1, <1>2, <1>5, <2>1, <2>2
<1>13. ASSUME NEW i \in 0 .. rows - 1, i \in P
       PROVE  i + 1 \in P
  <2> DEFINE c == after[i]
             d == after[i + 1]
  <2>1. i + 1 \in 0 .. rows /\ i + 1 # 0 /\ (i + 1) - 1 = i /\ i \in Nat /\ rows # 0
    OBVIOUS
  <2>2. d = PrintOne(c)
    BY <1>11, <2>1
  <2>3. /\ c \in V /\ c.begin = f.begin
        /\ c.len <= i /\ (i # 0 => c.len # 0)
        /\ c.page = Smaller(q + c.len, L)
        /\ c.end = TRUE <=> c.len # 0 /\ q + c.len > last
        /\ c.len <= 1 \/ q + c.len <= last + 1
    BY <1>13, <2>1
  <2> HIDE DEF c, d, P
  <2>4. c.end \in BOOLEAN /\ c.len \in Nat /\ c.page \in Nat
    BY <1>6, <2>3
  <2>5. /\ d \in V /\ d.begin = f.begin
        /\ d.len <= i + 1 /\ d.len # 0
        /\ d.page = Smaller(q + d.len, L)
        /\ d.end = TRUE <=> d.len # 0 /\ q + d.len > last
        /\ d.len <= 1 \/ q + d.len <= last + 1
    <3>1. CASE c.end = TRUE
      <4>1. d = c /\ c.len # 0
        BY <1>6, <2>2, <2>3, <3>1
      <4> QED BY <2>1, <2>3, <2>4, <4>1
    <3>2. CASE c.end = FALSE
      <4>1. /\ d \in V /\ d.begin = c.begin /\ d.len = c.len + 1 /\ d.page = Smaller(c.page + 1, L)
            /\ (d.end = TRUE <=> c.page >= last)
        BY <1>6, <2>2, <2>3, <3>2
      <4>2. c.len = 0 \/ q + c.len <= last
        BY <1>1, <2>3, <2>4, <3>2
      <4>3. d.page = Smaller(q + d.len, L)
        BY <1>1, <2>3, <2>4, <4>1 DEF Smaller
      <4>4. c.page >= last <=> q + d.len > last
        BY <1>1, <2>3, <2>4, <4>1 DEF Smaller
      <4>5. d.len # 0 /\ d.len <= i + 1 /\ (d.len <= 1 \/ q + d.len <= last + 1)
        BY <1>1, <2>1, <2>3, <2>4, <4>1, <4>2
      <4> QED BY <2>3, <4>1, <4>3, <4>4, <4>5
    <3> QED BY <2>4, <3>1, <3>2
  <2> QED BY <1>1, <2>1, <2>5 DEF P, d
<1>14. P \in SUBSET (0 .. rows) /\ rows \in 0 .. rows
  OBVIOUS
<1>15. rows \in P
  <2> HIDE DEF P
  <2> QED BY <1>12, <1>13, <1>14, UpTo
<1> QED BY <1>1, <1>3, <1>15 DEF V, L, q, last

(* Two numbers less than m apart have different remainders.                    *)
LEMMA Times ==
    ASSUME NEW m \in Nat \ {0}, NEW q \in Int, NEW r \in Int, r < q
    PROVE  m * q >= m * r + m
<1>1. q - r - 1 \in Nat
  OBVIOUS
<1>2. m * (q - r - 1) \in Nat
  BY <1>1
<1>3. m * (q - r - 1) = m * q - m * r - m
  OBVIOUS
<1> QED BY <1>2, <1>3
LEMMA Remainders ==
    ASSUME NEW m \in Nat \ {0}, NEW a \in Nat, NEW b \in Nat, a % m = b % m,
           a - b < m, b - a < m
    PROVE  a = b
<1>1. /\ a = m * (a \div m) + (a % m) /\ a % m \in Nat /\ a \div m \in Int
      /\ b = m * (b \div m) + (b % m) /\ b % m \in Nat /\ b \div m \in Int
  OBVIOUS
<1> DEFINE q == a \div m
           r == b \div m
           c == a % m
           d == b % m
<1>2. a = m * q + c /\ b = m * r + c /\ c \in Nat /\ q \in Int /\ r \in Int
  BY <1>1
<1> HIDE DEF q, r, c, d
<1>3. ~ (r < q)
  <2>1. r < q => m * q >= m * r + m
    BY <1>2, Times
  <2>2. m * q \in Int /\ m * r \in Int
    BY <1>2
  <2> HIDE <1>1
  <2> DEFINE x == m * q
             y == m * r
  <2>3. a = x + c /\ b = y + c /\ x \in Int /\ y \in Int /\ (r < q => x >= y + m)
    BY <1>2, <2>1, <2>2
  <2> HIDE DEF x, y
  <2> QED BY <1>2, <2>3
<1>4. ~ (q < r)
  <2>1. q < r => m * r >= m * q + m
    BY <1>2, Times
  <2>2. m * q \in Int /\ m * r \in Int
    BY <1>2
  <2> DEFINE x == m * q
             y == m * r
  <2>3. a = x + c /\ b = y + c /\ x \in Int /\ y \in Int /\ (q < r => y >= x + m)
    BY <1>2, <2>1, <2>2
  <2> HIDE DEF x, y
  <2> QED BY <1>2, <2>3
<1>5. q = r
  BY <1>2, <1>3, <1>4
<1> QED BY <1>2, <1>5

(* The keys of a page: here are its jump locations, next to each other, and    *)
(* the first JUMP_NB of them get the keys.                                     *)
KeyOf(i) == ((i - 1) % JumpNb) + 1
FirstOf(here) == {i \in here : Cardinality({j \in here : j < i}) < JumpNb}
KeysOf(here) == {<<KeyOf(i), i>> : i \in FirstOf(here)}
HeaderOf(here, h) ==
    [i \in DOMAIN h |-> IF i \notin here THEN h[i]
                        ELSE IF i \in FirstOf(here) THEN KeyOf(i) ELSE 0]
KeysFit(here, h, keys) ==
    /\ \A k \in keys : k[2] \in here /\ h[k[2]] = k[1]
    /\ \A i \in here : h[i] # 0 => <<h[i], i>> \in keys
    /\ \A j, k \in keys : j[1] = k[1] => j = k
    /\ \A i \in here : h[i] = 0 => Cardinality(keys) = JumpNb
Together(here) == \A i, k \in here : i .. k \subseteq here

LEMMA KeyNumber ==
    ASSUME NEW i \in Nat \ {0}
    PROVE  KeyOf(i) \in Nat \ {0}
BY JumpNbAssumption DEF KeyOf

LEMMA FirstOfPage ==
    ASSUME NEW n \in Nat, NEW here \in SUBSET (1 .. n), Together(here), here # {}
    PROVE  \E lo \in here : /\ \A i \in here : lo <= i
                            /\ FirstOf(here) = {i \in here : i - lo < JumpNb}
<1>0. JumpNb \in Nat /\ JumpNb # 0
  BY JumpNbAssumption
<1>1. here \subseteq Nat
  OBVIOUS
<1>2. PICK lo \in here : \A i \in here : lo <= i
  BY <1>1, LeastNat
<1>3. ASSUME NEW i \in here
      PROVE  Cardinality({j \in here : j < i}) = i - lo
  <2>1. i \in Nat /\ lo \in Nat /\ lo <= i
    BY <1>1, <1>2
  <2>2. lo .. i \subseteq here
    BY <1>2 DEF Together
  <2>3. {j \in here : j < i} = lo .. i - 1
    <3>1. ASSUME NEW j \in here, j < i
          PROVE  j \in lo .. i - 1
      BY <1>1, <1>2, <2>1, <3>1
    <3>2. ASSUME NEW j \in lo .. i - 1
          PROVE  j \in here /\ j < i
      <4>1. j \in lo .. i /\ j < i
        BY <2>1
      <4> QED BY <2>2, <4>1
    <3> QED BY <3>1, <3>2
  <2>4. Cardinality(lo .. i - 1) = IF lo > i - 1 THEN 0 ELSE (i - 1) - lo + 1
    <3>1. lo \in Int /\ i - 1 \in Int
      BY <2>1
    <3> QED BY <3>1, FS_Interval
  <2> DEFINE c == Cardinality(lo .. i - 1)
  <2>5. Cardinality({j \in here : j < i}) = c
    BY <2>3
  <2> HIDE DEF c
  <2>6. c = IF lo > i - 1 THEN 0 ELSE (i - 1) - lo + 1
    BY <2>4 DEF c
  <2>7. c = i - lo
    BY <2>1, <2>6
  <2> QED BY <2>5, <2>7
<1>4. FirstOf(here) = {i \in here : i - lo < JumpNb}
  BY <1>3 DEF FirstOf
<1> QED BY <1>2, <1>4

LEMMA KeysOfPage ==
    ASSUME NEW n \in Nat, NEW here \in SUBSET (1 .. n), Together(here),
           NEW h \in [1 .. n -> Nat]
    PROVE  /\ KeysFit(here, HeaderOf(here, h), KeysOf(here))
           /\ HeaderOf(here, h) \in [1 .. n -> Nat] /\ KeysOf(here) \subseteq Nat \X (1 .. n)
<1> DEFINE first == FirstOf(here)
           keys == KeysOf(here)
           g == HeaderOf(here, h)
<1>0. JumpNb \in Nat /\ JumpNb # 0
  BY JumpNbAssumption
<1>1. first \subseteq here /\ here \subseteq 1 .. n
  BY DEF FirstOf
<1>2. \A i \in 1 .. n : i \in Nat /\ KeyOf(i) \in Nat \ {0}
  BY KeyNumber
<1>3. /\ g \in [1 .. n -> Nat]
      /\ \A i \in first : g[i] = KeyOf(i)
      /\ \A i \in here : i \notin first => g[i] = 0
  BY <1>1, <1>2 DEF HeaderOf
<1>4. keys = {<<KeyOf(i), i>> : i \in first}
  BY DEF KeysOf
<1>5. keys \subseteq Nat \X (1 .. n)
  <2>1. \A i \in first : <<KeyOf(i), i>> \in Nat \X (1 .. n)
    BY <1>1, <1>2
  <2> HIDE DEF first, keys
  <2> QED BY <1>4, <2>1
<1> HIDE DEF first, keys, g
<1>6. \A k \in keys : k[2] \in here /\ g[k[2]] = k[1]
  BY <1>1, <1>3, <1>4
<1>7. \A i \in here : g[i] # 0 => <<g[i], i>> \in keys
  BY <1>3, <1>4
<1>8. CASE first = {}
  <2>1. here = {}
    <3> SUFFICES ASSUME here # {} PROVE FALSE
      OBVIOUS
    <3>1. PICK lo \in here : first = {i \in here : i - lo < JumpNb}
      BY FirstOfPage DEF first
    <3>2. lo \in Nat /\ lo - lo < JumpNb
      BY <1>0, <1>1
    <3> QED BY <1>8, <3>1, <3>2
  <2>2. keys = {}
    BY <1>4, <1>8
  <2> QED BY <1>3, <1>5, <2>1, <2>2 DEF KeysFit, g, keys
<1>9. CASE first # {}
  <2>1. here # {}
    BY <1>1, <1>9
  <2>2. PICK lo \in here : (\A i \in here : lo <= i) /\ first = {i \in here : i - lo < JumpNb}
    BY <2>1, FirstOfPage DEF first
  <2>3. lo \in Nat /\ lo # 0 /\ \A i \in first : i \in Nat /\ i # 0 /\ lo <= i /\ i - lo < JumpNb
    BY <1>1, <2>2
  <2>4. \A i, j \in first : KeyOf(i) = KeyOf(j) => i = j
    <3>1. SUFFICES ASSUME NEW i \in first, NEW j \in first, KeyOf(i) = KeyOf(j) PROVE i = j
      OBVIOUS
    <3> DEFINE a == i - 1
               b == j - 1
    <3>2. a \in Nat /\ b \in Nat /\ a - b < JumpNb /\ b - a < JumpNb
      BY <1>0, <2>3
    <3>3. a % JumpNb = b % JumpNb
      <4>1. a % JumpNb \in Int /\ b % JumpNb \in Int
        BY <1>0, <3>2
      <4> QED BY <3>1, <4>1 DEF KeyOf
    <3> HIDE DEF a, b
    <3>4. a = b
      BY <1>0, <3>2, <3>3, Remainders
    <3> QED BY <2>3, <3>4 DEF a, b
  <2>5. \A j, k \in keys : j[1] = k[1] => j = k
    BY <1>4, <2>4
  <2>6. ASSUME NEW i \in here, g[i] = 0
        PROVE  Cardinality(keys) = JumpNb
    <3>1. i \notin first
      BY <1>1, <1>2, <1>3, <2>6
    <3>2. i \in Nat /\ i - lo >= JumpNb
      BY <1>0, <1>1, <2>2, <2>3, <3>1
    <3>3. first = lo .. lo + JumpNb - 1
      <4>1. lo .. i \subseteq here
        BY <2>2 DEF Together
      <4>2. ASSUME NEW j \in lo .. lo + JumpNb - 1
            PROVE  j \in first
        <5>1. j \in lo .. i /\ j - lo < JumpNb
          BY <1>0, <2>3, <3>2
        <5> QED BY <2>2, <4>1, <5>1
      <4>3. ASSUME NEW j \in first
            PROVE  j \in lo .. lo + JumpNb - 1
        BY <1>0, <2>3
      <4> QED BY <4>2, <4>3
    <3>4. Cardinality(first) = JumpNb /\ IsFiniteSet(first)
      <4>1. lo \in Int /\ lo + JumpNb - 1 \in Int /\ ~ (lo > lo + JumpNb - 1)
            /\ (lo + JumpNb - 1) - lo + 1 = JumpNb
        BY <1>0, <2>3
      <4> DEFINE hi == lo + JumpNb - 1
      <4>2. IsFiniteSet(lo .. hi) /\ Cardinality(lo .. hi) = IF lo > hi THEN 0 ELSE hi - lo + 1
        BY <4>1, FS_Interval
      <4> QED BY <3>3, <4>1, <4>2
    <3> DEFINE f == [j \in first |-> <<KeyOf(j), j>>]
    <3>5. f \in Bijection(first, keys)
      BY <1>4 DEF Bijection, Injection, Surjection, IsInjective
    <3>6. Cardinality(first) = Cardinality(keys)
      BY <3>4, <3>5, FS_Bijection DEF ExistsBijection
    <3> QED BY <3>4, <3>6
  <2> QED BY <1>3, <1>5, <1>6, <1>7, <2>5, <2>6 DEF KeysFit, g, keys
<1> QED BY <1>8, <1>9

(* What printing sets: the keys with their places, and the first line.         *)
SameBox(c, b) ==
    /\ c.phase = b.phase /\ c.text = b.text /\ c.results = b.results /\ c.rows = b.rows
    /\ c.side = b.side /\ c.vscroll = b.vscroll /\ c.target = b.target
    /\ LastLine(c) = LastLine(b)
WithKeys(c, b, h, k) ==
    /\ Page(c) /\ SameBox(c, b) /\ c.page = b.page /\ c.begin = b.begin /\ c.end = b.end
    /\ c.len = b.len /\ c.top = b.top /\ c.header = h /\ c.keys = k
LEMMA KeysAt ==
    ASSUME NEW b, Page(b), NEW h, NEW k
    PROVE  WithKeys([b EXCEPT !.header = h, !.keys = k], b, h, k)
<1> DEFINE c == [b EXCEPT !.header = h, !.keys = k]
<1>1. b \in TextRec(b)
  BY DEF Page
<1>2. c \in [kind : {"text"}, phase : {b.phase}, text : {b.text}, results : {b.results},
             rows : {b.rows}, page : {b.page}, begin : {b.begin}, end : {b.end}, len : {b.len},
             top : {b.top}, side : {b.side}, vscroll : {b.vscroll}, keys : {k},
             target : {b.target}, header : {h}]
  BY <1>1 DEF TextRec
<1> HIDE DEF c
<1>3. c.phase = b.phase /\ c.text = b.text /\ c.results = b.results /\ c.rows = b.rows
      /\ c.page = b.page /\ c.begin = b.begin /\ c.end = b.end /\ c.len = b.len /\ c.top = b.top
      /\ c.side = b.side /\ c.vscroll = b.vscroll /\ c.keys = k /\ c.target = b.target
      /\ c.header = h
  BY <1>2
<1>4. b.page \in 0 .. b.text.lines /\ b.begin \in BOOLEAN /\ b.end \in BOOLEAN /\ b.len \in Nat
  BY <1>1 DEF TextRec
<1>5. c \in TextRec(c)
  BY <1>2, <1>3, <1>4 DEF TextRec
<1>6. Page(c)
  BY <1>3, <1>5 DEF Page
<1>7. LastLine(c) = LastLine(b)
  BY <1>3 DEF LastLine
<1> QED BY <1>3, <1>6, <1>7 DEF WithKeys, SameBox, c

Topped(c, b, p) ==
    /\ Page(c) /\ SameBox(c, b) /\ c.page = b.page /\ c.begin = b.begin /\ c.end = b.end
    /\ c.len = b.len /\ c.header = b.header /\ c.keys = b.keys /\ c.top = p
LEMMA TopAt ==
    ASSUME NEW b, Page(b), NEW p
    PROVE  Topped([b EXCEPT !.top = p], b, p)
<1> DEFINE c == [b EXCEPT !.top = p]
<1>1. b \in TextRec(b)
  BY DEF Page
<1>2. c \in [kind : {"text"}, phase : {b.phase}, text : {b.text}, results : {b.results},
             rows : {b.rows}, page : {b.page}, begin : {b.begin}, end : {b.end}, len : {b.len},
             top : {p}, side : {b.side}, vscroll : {b.vscroll}, keys : {b.keys},
             target : {b.target}, header : {b.header}]
  BY <1>1 DEF TextRec
<1> HIDE DEF c
<1>3. c.phase = b.phase /\ c.text = b.text /\ c.results = b.results /\ c.rows = b.rows
      /\ c.page = b.page /\ c.begin = b.begin /\ c.end = b.end /\ c.len = b.len /\ c.top = p
      /\ c.side = b.side /\ c.vscroll = b.vscroll /\ c.keys = b.keys /\ c.target = b.target
      /\ c.header = b.header
  BY <1>2
<1>4. b.page \in 0 .. b.text.lines /\ b.begin \in BOOLEAN /\ b.end \in BOOLEAN /\ b.len \in Nat
  BY <1>1 DEF TextRec
<1>5. c \in TextRec(c)
  BY <1>2, <1>3, <1>4 DEF TextRec
<1>6. Page(c)
  BY <1>3, <1>5 DEF Page
<1>7. LastLine(c) = LastLine(b)
  BY <1>3 DEF LastLine
<1> QED BY <1>3, <1>6, <1>7 DEF Topped, SameBox, c

LEMMA SameOfRec ==
    ASSUME NEW b, Page(b), NEW c \in TextRec(b)
    PROVE  Page(c) /\ SameBox(c, b) /\ c.top = b.top /\ c.keys = b.keys /\ c.header = b.header
<1>1. c.phase = b.phase /\ c.side = b.side /\ c.vscroll = b.vscroll /\ c.target = b.target
      /\ c.top = b.top /\ c.keys = b.keys /\ c.header = b.header
  BY DEF TextRec
<1> QED BY <1>1, PageSame DEF SameBox

(* The search results are walked through by the rows of a page and back: a     *)
(* full page is shown, the last one if need be.                                *)
FullPage(b) ==
    IF b.page + b.rows <= b.text.lines THEN b.page ELSE Larger(b.text.lines - b.rows + 1, 0)
Results(b) == Page(b) /\ b.results = TRUE /\ b.text.whole = TRUE
OnPage(b, p) == {i \in DOMAIN b.text.places : b.text.places[i] \in p .. p + b.rows - 1}

LEMMA Walks ==
    ASSUME NEW b, Results(b)
    PROVE  \E c \in TextRec(b), e \in Nat :
              /\ Walked(b) = UpdateText(c, c.page, e)
              /\ c.page = FullPage(b) /\ (c.begin = TRUE => c.page = 0)
              /\ \A x \in 0 .. b.text.lines - 1 :
                    x \in c.page .. e - 1 <=> x \in c.page .. c.page + b.rows - 1
<1> DEFINE a == GetLines(b, b.rows)
           c == BackLines(a, b.rows)
           e == a.page
           L == b.text.lines
           p == b.page
           n == b.rows
<1>1. /\ Page(b) /\ L \in Nat \ {0} /\ p \in Nat /\ p <= L /\ n \in Nat /\ LastLine(b) = L
  BY PageSame DEF Results, Page, LastLine
<1>2. Walked(b) = UpdateText(c, c.page, e)
  BY DEF Walked, Results
<1>3. /\ a \in TextRec(b) /\ e = Smaller(p + n, L)
      /\ n # 0 => (a.end = TRUE <=> p + n > L)
  BY <1>1, LinesAhead
<1> HIDE DEF a
<1>4. Page(a) /\ TextRec(a) = TextRec(b) /\ a.text = b.text
  BY <1>1, <1>3, PageSame
<1>5. /\ c \in TextRec(b) /\ c.page = Back(e, Wasted(a), n)
      /\ c.begin = TRUE <=> (n >= 1 /\ n - Wasted(a) >= e)
  <2>1. (IF n < 0 THEN 0 ELSE n) = n /\ n \in Int
    BY <1>1
  <2> HIDE DEF n
  <2>2. LET x == BackLines(a, n)
            m == IF n < 0 THEN 0 ELSE n
        IN  /\ x \in TextRec(a) /\ x.page = Back(a.page, Wasted(a), m)
            /\ x.begin = TRUE <=> (m >= 1 /\ m - Wasted(a) >= a.page)
    BY <1>4, <2>1, LinesBack
  <2> QED BY <1>4, <2>1, <2>2 DEF n
<1>6. Wasted(a) = IF e = L /\ a.end = TRUE THEN 1 ELSE 0
  BY <1>4 DEF Wasted
<1> HIDE DEF c, e, L, p, n
<1>7. /\ c.page = IF p + n <= L THEN p ELSE Larger(L - n + 1, 0)
      /\ c.begin = TRUE => c.page = 0
      /\ \A x \in 0 .. L - 1 : x \in c.page .. e - 1 <=> x \in c.page .. c.page + n - 1
  <2>1. CASE n = 0
    <3>1. e = p
      BY <1>1, <1>3, <2>1 DEF Smaller
    <3>2. c.page = p /\ ~ (c.begin = TRUE)
      BY <1>1, <1>5, <1>6, <2>1, <3>1 DEF Back, Larger
    <3> QED BY <1>1, <2>1, <3>1, <3>2
  <2>2. CASE n # 0 /\ p + n <= L
    <3>1. e = p + n /\ Wasted(a) = 0
      BY <1>1, <1>3, <1>6, <2>2 DEF Smaller
    <3>2. c.page = p
      BY <1>1, <1>5, <2>2, <3>1 DEF Back, Larger
    <3>3. c.begin = TRUE => p = 0
      BY <1>1, <1>5, <2>2, <3>1
    <3> QED BY <1>1, <2>2, <3>1, <3>2, <3>3
  <2>3. CASE n # 0 /\ p + n > L
    <3>1. e = L /\ Wasted(a) = 1
      BY <1>1, <1>3, <1>6, <2>3 DEF Smaller
    <3>2. c.page = Larger(L - n + 1, 0)
      BY <1>1, <1>5, <2>3, <3>1 DEF Back, Larger
    <3>3. c.begin = TRUE => c.page = 0
      BY <1>1, <1>5, <2>3, <3>1, <3>2 DEF Larger
    <3>4. c.page \in Nat /\ c.page + n - 1 >= L - 1
      BY <1>1, <2>3, <3>2 DEF Larger
    <3> QED BY <1>1, <2>3, <3>1, <3>2, <3>3, <3>4
  <2>4. n = 0 \/ (n # 0 /\ p + n <= L) \/ (n # 0 /\ p + n > L)
    BY <1>1
  <2> QED BY <2>1, <2>2, <2>3, <2>4, Zenon
<1>8. e \in Nat
  BY <1>1, <1>3 DEF Smaller
<1> QED BY <1>2, <1>5, <1>7, <1>8 DEF FullPage, L, p, n

Headed(b) == b.header \in [DOMAIN b.text.places -> Nat]
Start(b) == IF b.results = TRUE THEN FullPage(b) ELSE b.page
Ready(b) ==
    /\ Page(b) /\ Headed(b) /\ (b.begin = TRUE => b.page = 0)
    /\ b.results = TRUE => b.text.whole = TRUE
    /\ b.results = FALSE => b.keys = {}
Fitting(c, p) ==
    /\ Headed(c)
    /\ c.results = FALSE => c.keys = {}
    /\ c.results = TRUE => KeysFit(OnPage(c, p), c.header, c.keys)
                          /\ c.keys \subseteq Nat \X DOMAIN c.text.places
WalkedTo(d, b) ==
    /\ Page(d) /\ SameBox(d, b) /\ d.page = Start(b) /\ (d.begin = TRUE => d.page = 0)
    /\ Fitting(d, d.page)

LEMMA PlacesTogether ==
    ASSUME NEW t, GoodText(t), NEW p \in Nat, NEW q \in Int
    PROVE  LET here == {i \in DOMAIN t.places : t.places[i] \in p .. q} IN
           /\ Together(here) /\ DOMAIN t.places = 1 .. Len(t.places) /\ Len(t.places) \in Nat
           /\ here \in SUBSET (1 .. Len(t.places))
           /\ \A i \in DOMAIN t.places : t.places[i] \in 0 .. t.lines - 1
<1> DEFINE s == t.places
           here == {i \in DOMAIN s : s[i] \in p .. q}
<1>1. /\ s \in Seq(0 .. t.lines - 1) /\ t.lines \in Nat
      /\ \A i, j \in 1 .. Len(s) : i <= j => s[i] <= s[j]
  BY DEF GoodText
<1> HIDE DEF s
<1>2. DOMAIN s = 1 .. Len(s) /\ Len(s) \in Nat /\ \A i \in 1 .. Len(s) : s[i] \in 0 .. t.lines - 1
  BY <1>1
<1>3. ASSUME NEW i \in here, NEW k \in here, NEW j \in i .. k
      PROVE  j \in here
  <2>1. i \in 1 .. Len(s) /\ k \in 1 .. Len(s) /\ j \in 1 .. Len(s) /\ i <= j /\ j <= k
    BY <1>2
  <2>2. s[i] <= s[j] /\ s[j] <= s[k] /\ s[i] \in Nat /\ s[j] \in Nat /\ s[k] \in Nat
    BY <1>1, <1>2, <2>1
  <2>3. s[i] >= p /\ s[k] <= q
    OBVIOUS
  <2> QED BY <1>2, <2>1, <2>2, <2>3
<1>4. Together(here)
  BY <1>3 DEF Together
<1>5. here \in SUBSET (1 .. Len(s))
  BY <1>2
<1> QED BY <1>2, <1>4, <1>5 DEF s

LEMMA WalksTo ==
    ASSUME NEW b, Ready(b)
    PROVE  WalkedTo(Walked(b), b)
<1>0. /\ Page(b) /\ Headed(b) /\ b.results \in BOOLEAN /\ b \in TextRec(b)
      /\ (b.begin = TRUE => b.page = 0)
  BY DEF Ready, Page
<1>1. CASE b.results = FALSE
  <2>1. Walked(b) = b
    BY <1>1 DEF Walked
  <2>2. SameBox(b, b)
    BY DEF SameBox
  <2>3. Fitting(b, b.page)
    BY <1>0, <1>1 DEF Ready, Fitting
  <2>4. b.page = Start(b)
    BY <1>1 DEF Start
  <2> QED BY <1>0, <2>1, <2>2, <2>3, <2>4 DEF WalkedTo
<1>2. CASE b.results = TRUE
  <2>1. Results(b)
    BY <1>2 DEF Ready, Results
  <2>2. PICK c \in TextRec(b), e \in Nat :
              /\ Walked(b) = UpdateText(c, c.page, e)
              /\ c.page = FullPage(b) /\ (c.begin = TRUE => c.page = 0)
              /\ \A x \in 0 .. b.text.lines - 1 :
                    x \in c.page .. e - 1 <=> x \in c.page .. c.page + b.rows - 1
    BY <2>1, Walks
  <2>3. Page(c) /\ SameBox(c, b) /\ c.header = b.header /\ c.page \in Nat
    BY <1>0, <2>2, SameOfRec, PageSame
  <2> DEFINE here == {i \in DOMAIN c.text.places : c.text.places[i] \in c.page .. e - 1}
             d == [c EXCEPT !.header = HeaderOf(here, c.header), !.keys = KeysOf(here)]
  <2>4. UpdateText(c, c.page, e) = d
    BY DEF UpdateText, HeaderOf, KeysOf, FirstOf, KeyOf
  <2>5. WithKeys(d, c, HeaderOf(here, c.header), KeysOf(here))
    <3> HIDE DEF here
    <3> QED BY <2>3, KeysAt
  <2>6. /\ here = OnPage(c, c.page) /\ Together(here) /\ here \in SUBSET (1 .. Len(c.text.places))
        /\ DOMAIN c.text.places = 1 .. Len(c.text.places) /\ Len(c.text.places) \in Nat
    <3>1. GoodText(c.text) /\ e - 1 \in Int /\ c.text = b.text /\ c.rows = b.rows
      BY <2>3 DEF Page, SameBox
    <3>2. /\ Together(here) /\ here \in SUBSET (1 .. Len(c.text.places))
          /\ DOMAIN c.text.places = 1 .. Len(c.text.places) /\ Len(c.text.places) \in Nat
          /\ \A i \in DOMAIN c.text.places : c.text.places[i] \in 0 .. c.text.lines - 1
      <4> DEFINE t == c.text
                 p == c.page
                 q == e - 1
      <4>1. GoodText(t) /\ p \in Nat /\ q \in Int
        BY <2>3, <3>1
      <4> HIDE DEF t, p, q
      <4>2. LET at == {i \in DOMAIN t.places : t.places[i] \in p .. q} IN
            /\ Together(at) /\ DOMAIN t.places = 1 .. Len(t.places) /\ Len(t.places) \in Nat
            /\ at \in SUBSET (1 .. Len(t.places))
            /\ \A i \in DOMAIN t.places : t.places[i] \in 0 .. t.lines - 1
        BY <4>1, PlacesTogether
      <4> QED BY <4>2 DEF t, p, q
    <3>3. here = OnPage(c, c.page)
      BY <2>2, <3>1, <3>2 DEF OnPage
    <3> QED BY <3>2, <3>3
  <2>7. c.header \in [1 .. Len(c.text.places) -> Nat]
    BY <1>0, <2>3, <2>6 DEF Headed, SameBox
  <2> HIDE DEF here, d
  <2>8. /\ KeysFit(here, HeaderOf(here, c.header), KeysOf(here))
        /\ HeaderOf(here, c.header) \in [1 .. Len(c.text.places) -> Nat]
        /\ KeysOf(here) \subseteq Nat \X (1 .. Len(c.text.places))
    BY <2>6, <2>7, KeysOfPage
  <2>9. OnPage(d, d.page) = here /\ d.text = c.text /\ d.results = TRUE
    BY <1>2, <2>3, <2>5, <2>6 DEF OnPage, WithKeys, SameBox
  <2>10. Fitting(d, d.page)
    BY <2>5, <2>6, <2>8, <2>9 DEF Fitting, Headed, WithKeys
  <2>11. SameBox(d, b)
    BY <2>3, <2>5 DEF SameBox, WithKeys
  <2>12. Page(d) /\ d.page = Start(b) /\ (d.begin = TRUE => d.page = 0)
    BY <1>2, <2>2, <2>5 DEF WithKeys, Start
  <2> QED BY <2>2, <2>4, <2>10, <2>11, <2>12 DEF WalkedTo
<1> QED BY <1>0, <1>1, <1>2

(* A printed page: its lines and the keys of its places.                       *)
Lines(c) ==
    /\ c.top \in 0 .. c.text.lines
    /\ c.len \in Nat /\ c.len <= c.rows /\ (c.rows # 0 => c.len # 0)
    /\ c.page = Smaller(c.top + c.len, c.text.lines)
    /\ c.rows # 0 => (c.end = TRUE <=> c.top + c.len > LastLine(c))
    /\ c.len <= 1 \/ c.top + c.len <= LastLine(c) + 1
    /\ c.begin = TRUE => c.top = 0
PagePrinted(c, b) ==
    /\ Page(c) /\ SameBox(c, b) /\ c.top = Start(b) /\ Lines(c) /\ Fitting(c, c.top)

LEMMA PrintsPage ==
    ASSUME NEW b, Ready(b)
    PROVE  PagePrinted(PrintPage(b), b)
<1> DEFINE d == Walked(b)
           c == Printing(d, d.rows)
           e == [c EXCEPT !.top = d.page]
<1>1. WalkedTo(d, b)
  BY WalksTo
<1>2. d.rows = b.rows
  BY <1>1 DEF WalkedTo, SameBox
<1>3. PrintPage(b) = e
  <2>1. PrintPage(b) = [Printing(d, b.rows) EXCEPT !.top = d.page]
    BY DEF PrintPage, Printing, PrintOne
  <2> HIDE DEF d
  <2> QED BY <1>2, <2>1
<1> HIDE DEF d
<1>4. Page(d) /\ d.rows \in Nat /\ d.text.lines \in Nat /\ d.page \in 0 .. d.text.lines /\ LastLine(d) \in Nat
  BY <1>1, PageSame DEF WalkedTo, Page, TextRec
<1>5. /\ c \in TextRec(d) /\ c.begin = d.begin
      /\ c.len <= d.rows /\ (d.rows # 0 => c.len # 0)
      /\ c.page = Smaller(d.page + c.len, d.text.lines)
      /\ d.rows # 0 => (c.end = TRUE <=> d.page + c.len > LastLine(d))
      /\ c.len <= 1 \/ d.page + c.len <= LastLine(d) + 1
  BY <1>4, PrintedLines
<1> HIDE DEF c
<1>6. Page(c) /\ SameBox(c, d) /\ c.keys = d.keys /\ c.header = d.header /\ c.len \in Nat
  BY <1>4, <1>5, SameOfRec, PageSame
<1>7. Topped(e, c, d.page)
  BY <1>6, TopAt
<1> HIDE DEF e
<1>8. /\ Page(e) /\ SameBox(e, c) /\ e.page = c.page /\ e.begin = c.begin /\ e.end = c.end
      /\ e.len = c.len /\ e.header = c.header /\ e.keys = c.keys /\ e.top = d.page
  BY <1>7 DEF Topped
<1>9. /\ e.text = d.text /\ e.rows = d.rows /\ LastLine(e) = LastLine(d) /\ SameBox(e, d)
      /\ e.results = d.results
  BY <1>6, <1>8 DEF SameBox
<1>10. SameBox(e, b)
  BY <1>1, <1>9 DEF SameBox, WalkedTo
<1>11. Lines(e)
  BY <1>1, <1>4, <1>5, <1>6, <1>8, <1>9 DEF Lines, WalkedTo
<1>12. Fitting(e, e.top)
  BY <1>1, <1>6, <1>8, <1>9 DEF Fitting, Headed, OnPage, WalkedTo
<1>13. e.top = Start(b)
  BY <1>1, <1>8 DEF WalkedTo
<1> QED BY <1>3, <1>8, <1>10, <1>11, <1>12, <1>13 DEF PagePrinted

(* A box that is about to be printed keeps its keys and header in step.        *)
InStep(b) ==
    /\ Page(b) /\ Headed(b) /\ b.phase = "open" /\ b.vscroll \in Nat
    /\ b.results = TRUE => b.text.whole = TRUE
    /\ b.results = FALSE => b.keys = {}

LEMMA KeptRec ==
    ASSUME NEW b, InStep(b), NEW c \in TextRec(b)
    PROVE  InStep(c) /\ SameBox(c, b)
<1>1. Page(b)
  BY DEF InStep
<1>2. Page(c) /\ SameBox(c, b) /\ c.top = b.top /\ c.keys = b.keys /\ c.header = b.header
  BY <1>1, SameOfRec
<1> QED BY <1>2 DEF InStep, SameBox, Headed

LEMMA KeptReady ==
    ASSUME NEW b, InStep(b), b.begin = TRUE => b.page = 0
    PROVE  Ready(b)
BY DEF InStep, Ready

LEMMA BackReady ==
    ASSUME NEW b, InStep(b), NEW k \in Int
    PROVE  /\ BackLines(b, k) \in TextRec(b) /\ InStep(BackLines(b, k)) /\ Ready(BackLines(b, k))
           /\ SameBox(BackLines(b, k), b)
<1> DEFINE c == BackLines(b, k)
           n == IF k < 0 THEN 0 ELSE k
           d == Wasted(b)
           p == b.page
<1>1. Page(b) /\ p \in Nat /\ d \in {0, 1} /\ n \in Nat
  <2>1. Page(b)
    BY DEF InStep
  <2>2. b \in TextRec(b)
    BY <2>1 DEF Page
  <2> QED BY <2>1, <2>2, PageSame DEF Wasted
<1>2. /\ c \in TextRec(b) /\ c.page = Back(p, d, n)
      /\ c.begin = TRUE <=> (n >= 1 /\ n - d >= p)
  BY <1>1, LinesBack
<1> HIDE DEF c, n, d, p
<1>3. c.begin = TRUE => c.page = 0
  BY <1>1, <1>2 DEF Back, Larger
<1>4. InStep(c) /\ SameBox(c, b)
  BY <1>2, KeptRec
<1> QED BY <1>2, <1>3, <1>4, KeptReady DEF c

(* Back by the lines of the page the box is at its first line again.           *)
LEMMA BackToTop ==
    ASSUME NEW b, Page(b), Lines(b), b.text.whole = TRUE
    PROVE  BackLines(b, b.len).page = b.top
<1> DEFINE c == BackLines(b, b.len)
           k == b.len
           d == Wasted(b)
           p == b.page
           L == b.text.lines
           t == b.top
<1>1. /\ b \in TextRec(b) /\ L \in Nat \ {0} /\ p \in Nat /\ p <= L /\ LastLine(b) = L
      /\ b.rows \in Nat
  BY PageSame DEF Page, LastLine
<1>2. /\ t \in Nat /\ t <= L /\ k \in Nat /\ k <= b.rows /\ (b.rows # 0 => k # 0)
      /\ p = Smaller(t + k, L)
      /\ b.rows # 0 => (b.end = TRUE <=> t + k > L)
      /\ k <= 1 \/ t + k <= L + 1
  BY <1>1 DEF Lines
<1>3. c.page = Back(p, d, k)
  <2> DEFINE n == IF k < 0 THEN 0 ELSE k
  <2>1. c.page = Back(p, d, n)
    <3>1. k \in Int
      BY <1>2
    <3>2. c = BackLines(b, k)
      OBVIOUS
    <3> HIDE DEF k, c
    <3> QED BY <3>1, <3>2, LinesBack
  <2>2. n = k
    BY <1>2
  <2> HIDE DEF n, k, c
  <2> QED BY <2>1, <2>2
<1>4. d = IF p = L /\ b.end = TRUE THEN 1 ELSE 0
  BY DEF Wasted
<1> HIDE DEF c, k, d, p, L, t
<1>5. CASE k = 0
  <2>1. p = t
    BY <1>1, <1>2, <1>5 DEF Smaller
  <2>2. Back(p, d, k) = p
    BY <1>1, <1>4, <1>5 DEF Back, Larger
  <2> QED BY <1>3, <2>1, <2>2 DEF c, t, k
<1>6. CASE k # 0 /\ t + k > L
  <2>1. b.rows # 0
    BY <1>1, <1>2, <1>6
  <2>2. p = L /\ d = 1
    BY <1>1, <1>2, <1>4, <1>6, <2>1 DEF Smaller
  <2>3. t + k = L + 1
    BY <1>1, <1>2, <1>6
  <2>4. Back(p, d, k) = t
    BY <1>1, <1>2, <1>6, <2>2, <2>3 DEF Back, Larger
  <2> QED BY <1>3, <2>4 DEF c, t, k
<1>7. CASE k # 0 /\ t + k <= L
  <2>1. b.rows # 0
    BY <1>1, <1>2, <1>7
  <2>2. p = t + k /\ d = 0
    BY <1>1, <1>2, <1>4, <1>7, <2>1 DEF Smaller
  <2>3. Back(p, d, k) = t
    BY <1>1, <1>2, <1>7, <2>2 DEF Back, Larger
  <2> QED BY <1>3, <2>3 DEF c, t, k
<1>8. k = 0 \/ (k # 0 /\ t + k > L) \/ (k # 0 /\ t + k <= L)
  BY <1>1, <1>2
<1> QED BY <1>5, <1>6, <1>7, <1>8

(* The invariant of the windows.                                               *)
Anchored(b) ==
    b.results = TRUE =>
        (b.top + b.rows <= b.text.lines \/ b.top = Larger(b.text.lines - b.rows + 1, 0))
PageInv(b) ==
    /\ Page(b) /\ Headed(b) /\ b.vscroll \in Nat /\ b.phase \in {"open", "closed"}
    /\ b.results = TRUE => b.text.whole = TRUE
    /\ Lines(b) /\ Fitting(b, b.top) /\ Anchored(b)
    /\ (b.phase = "closed" /\ b.target # 0) => (b.results = TRUE /\ b.vscroll = b.top)
PadInv(b) ==
    /\ b \in [kind : {"pad"}, phase : {"open"}, total : Nat, y : Nat, size : Nat]
    /\ b.size <= b.total /\ b.y <= b.total - b.size
TextInv == text = NoText \/ PadInv(text) \/ PageInv(text)

LEMMA BoxKept ==
    ASSUME NEW b, PageInv(b), b.phase = "open"
    PROVE  InStep(b)
BY DEF PageInv, InStep, Fitting

LEMMA BoxPrinted ==
    ASSUME NEW b, InStep(b), Ready(b)
    PROVE  /\ PageInv(PrintPage(b)) /\ SameBox(PrintPage(b), b)
           /\ PrintPage(b).top = Start(b)
<1> DEFINE c == PrintPage(b)
<1>1. PagePrinted(c, b)
  BY PrintsPage
<1> HIDE DEF c
<1>2. Page(c) /\ SameBox(c, b) /\ c.top = Start(b) /\ Lines(c) /\ Fitting(c, c.top)
  BY <1>1 DEF PagePrinted
<1>3. Headed(c)
  BY <1>2 DEF Fitting
<1>4. /\ c.vscroll \in Nat /\ c.phase = "open" /\ (c.results = TRUE => c.text.whole = TRUE)
      /\ c.text = b.text /\ c.rows = b.rows /\ c.results = b.results
  BY <1>2 DEF SameBox, InStep
<1>5. Anchored(c)
  BY <1>2, <1>4 DEF Anchored, Start, FullPage
<1>6. PageInv(c)
  BY <1>2, <1>3, <1>4, <1>5 DEF PageInv
<1> QED BY <1>2, <1>6 DEF c

(* What the other keys assign.                                                 *)
LEMMA HomeAt ==
    ASSUME NEW b, Page(b)
    PROVE  Moved3([b EXCEPT !.begin = TRUE, !.page = 0], b, 0, TRUE, b.end)
<1>1. b \in TextRec(b) /\ 0 \in 0 .. b.text.lines
  BY PageSame DEF Page
<1> QED BY <1>1 DEF TextRec, Moved3
LEMMA EndPageAt ==
    ASSUME NEW b, Page(b)
    PROVE  [b EXCEPT !.end = TRUE, !.page = b.text.lines] \in TextRec(b)
<1>1. b \in TextRec(b) /\ b.text.lines \in 0 .. b.text.lines
  BY PageSame DEF Page
<1> QED BY <1>1 DEF TextRec
Sided(c, b, s) ==
    /\ c \in TextRec(c)
    /\ c.phase = b.phase /\ c.text = b.text /\ c.results = b.results /\ c.rows = b.rows
    /\ c.page = b.page /\ c.begin = b.begin /\ c.end = b.end /\ c.len = b.len
    /\ c.top = b.top /\ c.side = s /\ c.vscroll = b.vscroll /\ c.keys = b.keys
    /\ c.target = b.target /\ c.header = b.header
LEMMA SideAt ==
    ASSUME NEW b, Page(b), NEW s
    PROVE  Sided([b EXCEPT !.side = s], b, s)
<1> DEFINE c == [b EXCEPT !.side = s]
<1>1. b \in TextRec(b)
  BY DEF Page
<1>2. c \in [kind : {"text"}, phase : {b.phase}, text : {b.text}, results : {b.results},
              rows : {b.rows}, page : {b.page}, begin : {b.begin}, end : {b.end},
              len : {b.len}, top : {b.top}, side : {s}, vscroll : {b.vscroll},
              keys : {b.keys}, target : {b.target}, header : {b.header}]
  BY <1>1 DEF TextRec
<1> HIDE DEF c
<1>3. /\ c.phase = b.phase /\ c.text = b.text /\ c.results = b.results /\ c.rows = b.rows
      /\ c.page = b.page /\ c.begin = b.begin /\ c.end = b.end /\ c.len = b.len
      /\ c.top = b.top /\ c.side = s /\ c.vscroll = b.vscroll /\ c.keys = b.keys
      /\ c.target = b.target /\ c.header = b.header
  BY <1>2
<1>4. b.page \in 0 .. b.text.lines /\ b.begin \in BOOLEAN /\ b.end \in BOOLEAN /\ b.len \in Nat
  BY <1>1 DEF TextRec
<1>5. c \in TextRec(c)
  BY <1>2, <1>3, <1>4 DEF TextRec
<1> QED BY <1>3, <1>5 DEF Sided, c

Resized(c, b, r) ==
    /\ c \in TextRec(c)
    /\ c.phase = b.phase /\ c.text = b.text /\ c.results = b.results /\ c.rows = r
    /\ c.page = b.page /\ c.begin = b.begin /\ c.end = b.end /\ c.len = b.len
    /\ c.top = b.top /\ c.side = b.side /\ c.vscroll = b.vscroll /\ c.keys = b.keys
    /\ c.target = b.target /\ c.header = b.header
LEMMA RowsAt ==
    ASSUME NEW b, Page(b), NEW r
    PROVE  Resized([b EXCEPT !.rows = r], b, r)
<1> DEFINE c == [b EXCEPT !.rows = r]
<1>1. b \in TextRec(b)
  BY DEF Page
<1>2. c \in [kind : {"text"}, phase : {b.phase}, text : {b.text}, results : {b.results},
              rows : {r}, page : {b.page}, begin : {b.begin}, end : {b.end},
              len : {b.len}, top : {b.top}, side : {b.side}, vscroll : {b.vscroll},
              keys : {b.keys}, target : {b.target}, header : {b.header}]
  BY <1>1 DEF TextRec
<1> HIDE DEF c
<1>3. /\ c.phase = b.phase /\ c.text = b.text /\ c.results = b.results /\ c.rows = r
      /\ c.page = b.page /\ c.begin = b.begin /\ c.end = b.end /\ c.len = b.len
      /\ c.top = b.top /\ c.side = b.side /\ c.vscroll = b.vscroll /\ c.keys = b.keys
      /\ c.target = b.target /\ c.header = b.header
  BY <1>2
<1>4. b.page \in 0 .. b.text.lines /\ b.begin \in BOOLEAN /\ b.end \in BOOLEAN /\ b.len \in Nat
  BY <1>1 DEF TextRec
<1>5. c \in TextRec(c)
  BY <1>2, <1>3, <1>4 DEF TextRec
<1> QED BY <1>3, <1>5 DEF Resized, c

Shut(c, b, g, v) ==
    /\ c \in TextRec(c)
    /\ c.phase = "closed" /\ c.text = b.text /\ c.results = b.results
    /\ c.rows = b.rows /\ c.page = b.page /\ c.begin = b.begin /\ c.end = b.end
    /\ c.len = b.len /\ c.top = b.top /\ c.side = b.side /\ c.vscroll = v
    /\ c.keys = b.keys /\ c.target = g /\ c.header = b.header
LEMMA CloseAt ==
    ASSUME NEW b, Page(b), NEW g, NEW v
    PROVE  Shut([b EXCEPT !.phase = "closed", !.target = g, !.vscroll = v], b, g, v)
<1> DEFINE c == [b EXCEPT !.phase = "closed", !.target = g, !.vscroll = v]
<1>1. b \in TextRec(b)
  BY DEF Page
<1>2. c \in [kind : {"text"}, phase : {"closed"}, text : {b.text},
              results : {b.results}, rows : {b.rows}, page : {b.page}, begin : {b.begin},
              end : {b.end}, len : {b.len}, top : {b.top}, side : {b.side},
              vscroll : {v}, keys : {b.keys}, target : {g}, header : {b.header}]
  BY <1>1 DEF TextRec
<1> HIDE DEF c
<1>3. /\ c.phase = "closed" /\ c.text = b.text /\ c.results = b.results
      /\ c.rows = b.rows /\ c.page = b.page /\ c.begin = b.begin /\ c.end = b.end
      /\ c.len = b.len /\ c.top = b.top /\ c.side = b.side /\ c.vscroll = v
      /\ c.keys = b.keys /\ c.target = g /\ c.header = b.header
  BY <1>2
<1>4. b.page \in 0 .. b.text.lines /\ b.begin \in BOOLEAN /\ b.end \in BOOLEAN /\ b.len \in Nat
  BY <1>1 DEF TextRec
<1>5. c \in TextRec(c)
  BY <1>2, <1>3, <1>4 DEF TextRec
<1> QED BY <1>3, <1>5 DEF Shut, c

(* A call of the box.                                                          *)
FirstLine(t, results, rows, v) ==
    LET p == Smaller(v, t.lines)
    IN  IF results = TRUE /\ p + rows > t.lines THEN Larger(t.lines - rows + 1, 0) ELSE p
BoxOpened(c, t, results, rows, v) ==
    /\ PageInv(c) /\ c.text = t /\ c.rows = rows /\ c.phase = "open"
    /\ c.top = FirstLine(t, results, rows, v)
LEMMA Opens ==
    ASSUME NEW t, GoodText(t), NEW results \in BOOLEAN, results = TRUE => t.whole = TRUE,
           NEW rows \in Nat, NEW v \in Nat
    PROVE  BoxOpened(OpenText(t, results, rows, v), t, results, rows, v)
<1> DEFINE g == v = 0
           h == [i \in DOMAIN t.places |-> 0]
           s == [kind |-> "text", phase |-> "open", text |-> t, results |-> results,
                 rows |-> rows, page |-> 0, begin |-> g, end |-> FALSE, len |-> 0,
                 top |-> 0, side |-> 0, vscroll |-> v, keys |-> {}, target |-> 0,
                 header |-> h]
           b == GetLines(s, v)
           L == t.lines
<1>1. OpenText(t, results, rows, v) = PrintPage(b)
  BY DEF OpenText
<1>2. h \in [DOMAIN t.places -> Nat] /\ g \in BOOLEAN /\ (g = TRUE <=> v = 0)
      /\ L \in Nat \ {0} /\ 0 \in 0 .. L
  BY DEF GoodText
<1> HIDE DEF g, h
<1>3. /\ s.phase = "open" /\ s.text = t /\ s.results = results /\ s.rows = rows /\ s.page = 0
      /\ s.begin = g /\ s.vscroll = v /\ s.keys = {} /\ s.header = h
  OBVIOUS
<1>4. s \in TextRec(s)
  BY <1>2 DEF TextRec
<1> HIDE DEF s
<1>5. Page(s)
  BY <1>3, <1>4 DEF Page
<1>6. InStep(s)
  BY <1>2, <1>3, <1>5 DEF InStep, Headed
<1>7. b \in TextRec(s) /\ b.begin = s.begin /\ b.page = Smaller(0 + v, L)
  BY <1>3, <1>5, LinesAhead
<1> HIDE DEF b
<1>8. InStep(b) /\ SameBox(b, s)
  BY <1>6, <1>7, KeptRec
<1>9. b.begin = TRUE => b.page = 0
  BY <1>2, <1>3, <1>7 DEF Smaller
<1>10. PageInv(PrintPage(b)) /\ SameBox(PrintPage(b), b) /\ PrintPage(b).top = Start(b)
  BY <1>8, <1>9, KeptReady, BoxPrinted
<1>11. /\ b.text = t /\ b.rows = rows /\ b.results = results /\ b.phase = "open"
       /\ b.page = Smaller(v, L)
  BY <1>3, <1>7, <1>8 DEF SameBox
<1>12. Start(b) = FirstLine(t, results, rows, v)
  <2>1. Smaller(v, L) \in Nat
    BY <1>2 DEF Smaller
  <2>2. Smaller(v, L) + rows <= L <=> ~ (Smaller(v, L) + rows > L)
    BY <1>2, <2>1
  <2> QED BY <1>11, <2>2 DEF Start, FullPage, FirstLine
<1>13. /\ PrintPage(b).text = b.text /\ PrintPage(b).rows = b.rows /\ PrintPage(b).phase = b.phase
  BY <1>10 DEF SameBox
<1> HIDE DEF b
<1> QED BY <1>1, <1>10, <1>11, <1>12, <1>13 DEF BoxOpened

(* What the invariant says of the screen.                                      *)
LEMMA TextInvShows ==
    ASSUME TextInv
    PROVE  KeysShown /\ PageInText
<1>1. CASE text = NoText
  BY <1>1 DEF NoText, KeysShown, PageInText
<1>2. CASE PadInv(text)
  <2>1. text.kind = "pad" /\ text.y \in Nat /\ text.total \in Nat /\ text.size \in Nat
        /\ text.y <= text.total - text.size
    BY <1>2 DEF PadInv
  <2> QED BY <2>1 DEF KeysShown, PageInText
<1>3. CASE PageInv(text)
  <2>1. text.kind = "text" /\ text.begin \in BOOLEAN /\ text.results \in BOOLEAN
    BY <1>3 DEF PageInv, Page, TextRec
  <2>2. PageInText
    BY <1>3, <2>1 DEF PageInText, PageInv, Lines
  <2>3. ASSUME text.results = TRUE
        PROVE  /\ \A k \in text.keys : OnScreen(text, k[2]) /\ text.header[k[2]] = k[1]
               /\ \A i \in DOMAIN text.header :
                     (OnScreen(text, i) /\ text.header[i] # 0) => <<text.header[i], i>> \in text.keys
               /\ \A j, k \in text.keys : j[1] = k[1] => j = k
               /\ \A i \in DOMAIN text.header :
                     (OnScreen(text, i) /\ text.header[i] = 0) => Cardinality(text.keys) = JumpNb
    <3>1. KeysFit(OnPage(text, text.top), text.header, text.keys)
          /\ DOMAIN text.header = DOMAIN text.text.places
      BY <1>3, <2>3 DEF PageInv, Fitting, Headed
    <3>2. \A i \in DOMAIN text.header : OnScreen(text, i) <=> i \in OnPage(text, text.top)
      BY <3>1 DEF OnScreen, OnPage
    <3>3. \A i \in OnPage(text, text.top) : i \in DOMAIN text.header
      BY <3>1 DEF OnPage
    <3> QED BY <3>1, <3>2, <3>3 DEF KeysFit
  <2>4. KeysShown
    BY <2>1, <2>3 DEF KeysShown
  <2> QED BY <2>2, <2>4
<1> QED BY <1>1, <1>2, <1>3 DEF TextInv

(* The keys of an open box.                                                    *)
OpenBox == PageInv(text) /\ text.phase = "open" /\ text.kind = "text"
LEMMA IsBox ==
    ASSUME TextInv, text.kind = "text"
    PROVE  PageInv(text)
BY DEF TextInv, NoText, PadInv

(* A page printed of a box that differs from the one on the screen by its      *)
(* position only.                                                              *)
LEMMA Reprinted ==
    ASSUME OpenBox, NEW b, InStep(b), Ready(b), SameBox(b, text), text' = PrintPage(b)
    PROVE  PageInv(text') /\ text'.side = text.side
<1>1. PageInv(PrintPage(b)) /\ SameBox(PrintPage(b), b)
  BY BoxPrinted
<1> QED BY <1>1 DEF SameBox

LEMMA OpenSame ==
    ASSUME OpenBox, text'.side = text.side
    PROVE  SamePage
BY DEF OpenBox, SamePage

LEMMA StepsOfOpenBox ==
    ASSUME OpenBox, TextHome \/ TextEnd \/ TextUp \/ TextDown
    PROVE  PageInv(text') /\ SamePage
<1>0. InStep(text) /\ Page(text) /\ text.text.lines \in Nat /\ text.len \in Nat /\ text.rows \in Nat
      /\ text \in TextRec(text)
  <2>1. InStep(text) /\ Page(text) /\ text.len \in Nat
    BY BoxKept DEF OpenBox, PageInv, Lines
  <2> QED BY <2>1 DEF Page, GoodText
<1>1. ASSUME NEW b, InStep(b), Ready(b), SameBox(b, text), text' = PrintPage(b)
      PROVE  PageInv(text') /\ SamePage
  BY <1>1, Reprinted, OpenSame
<1>2. ASSUME NEW b \in TextRec(text), NEW k \in Int, text' = PrintPage(BackLines(b, k))
      PROVE  PageInv(text') /\ SamePage
  <2>1. InStep(b) /\ SameBox(b, text)
    BY <1>0, KeptRec
  <2>2. InStep(BackLines(b, k)) /\ Ready(BackLines(b, k)) /\ SameBox(BackLines(b, k), b)
    BY <2>1, BackReady
  <2>3. SameBox(BackLines(b, k), text)
    BY <2>1, <2>2 DEF SameBox
  <2> QED BY <1>1, <1>2, <2>2, <2>3
<1>3. CASE TextHome
  <2> DEFINE b == [text EXCEPT !.begin = TRUE, !.page = 0]
  <2>1. text' = PrintPage(b)
    BY <1>3 DEF TextHome
  <2>2. b \in TextRec(text) /\ b.page = 0
    BY <1>0, HomeAt DEF Moved3
  <2> HIDE DEF b
  <2>3. InStep(b) /\ SameBox(b, text) /\ Ready(b)
    BY <1>0, <2>2, KeptRec, KeptReady
  <2> QED BY <1>1, <2>1, <2>3
<1>4. CASE TextEnd
  <2> DEFINE b == [text EXCEPT !.end = TRUE, !.page = text.text.lines]
  <2>1. text' = PrintPage(BackLines(b, text.rows))
    BY <1>4 DEF TextEnd
  <2>2. b \in TextRec(text)
    BY <1>0, EndPageAt
  <2> HIDE DEF b
  <2> QED BY <1>0, <1>2, <2>1, <2>2
<1>5. CASE TextUp
  <2>1. PICK k \in {1, text.rows} : text' = PrintPage(BackLines(text, text.len + k))
    BY <1>5 DEF TextUp
  <2>2. text.len + k \in Int
    BY <1>0
  <2> QED BY <1>0, <1>2, <2>1, <2>2
<1>6. CASE TextDown
  <2>1. CASE text' = PrintPage(BackLines(text, text.len - 1))
    <3>1. text.len - 1 \in Int
      BY <1>0
    <3> QED BY <1>0, <1>2, <2>1, <3>1
  <2>2. CASE text' = PrintPage([text EXCEPT !.begin = FALSE])
    <3> DEFINE b == [text EXCEPT !.begin = FALSE]
    <3>1. b \in TextRec(text) /\ b.begin = FALSE
      BY <1>0, BeginAt DEF Moved3
    <3> HIDE DEF b
    <3>2. InStep(b) /\ SameBox(b, text) /\ Ready(b)
      BY <1>0, <3>1, KeptRec, KeptReady
    <3> QED BY <1>1, <2>2, <3>2 DEF b
  <2> QED BY <1>6, <2>1, <2>2 DEF TextDown
<1> QED BY <1>3, <1>4, <1>5, <1>6

LEMMA SidewaysStep ==
    ASSUME OpenBox, TextSideways
    PROVE  PageInv(text') /\ SamePage
<1>1. PICK s : text' = PrintPage(BackLines([text EXCEPT !.side = s], text.len))
  BY DEF TextSideways
<1>2. /\ PageInv(text) /\ Page(text) /\ InStep(text) /\ Lines(text) /\ Anchored(text)
  BY BoxKept DEF OpenBox, PageInv
<1> DEFINE b == [text EXCEPT !.side = s]
           c == BackLines(b, b.len)
<1>3. Sided(b, text, s)
  BY <1>2, SideAt
<1> HIDE DEF b
<1>4. /\ b \in TextRec(b) /\ b.phase = "open" /\ b.text = text.text /\ b.results = text.results
      /\ b.rows = text.rows /\ b.page = text.page /\ b.begin = text.begin /\ b.end = text.end
      /\ b.len = text.len /\ b.top = text.top /\ b.vscroll = text.vscroll /\ b.keys = text.keys
      /\ b.header = text.header
  BY <1>3 DEF Sided, OpenBox
<1>5. Page(b) /\ LastLine(b) = LastLine(text)
  BY <1>2, <1>4 DEF Page, LastLine
<1>6. InStep(b) /\ Lines(b)
  BY <1>2, <1>4, <1>5 DEF InStep, Lines, Headed
<1>7. text' = PrintPage(c) /\ b.len \in Int
  BY <1>1, <1>4, <1>6 DEF b, Lines
<1>8. InStep(c) /\ Ready(c) /\ SameBox(c, b)
  BY <1>6, <1>7, BackReady
<1>9. b.text.whole = TRUE => c.page = b.top
  BY <1>5, <1>6, BackToTop
<1> HIDE DEF c
<1>10. PageInv(text') /\ text'.top = Start(c)
  BY <1>7, <1>8, BoxPrinted
<1>11. ASSUME text.text.whole = TRUE
       PROVE  Start(c) = text.top
  <2>1. c.page = text.top /\ c.rows = text.rows /\ c.results = text.results /\ c.text = text.text
    BY <1>4, <1>8, <1>9, <1>11 DEF SameBox
  <2>2. text.top \in Nat /\ text.rows \in Nat /\ text.text.lines \in Nat
    BY <1>2 DEF Lines, Page, GoodText
  <2> QED BY <1>2, <2>1, <2>2 DEF Start, FullPage, Anchored
<1>12. text.text.whole \in BOOLEAN
  BY <1>2 DEF Page, GoodText
<1>13. SamePage
  BY <1>10, <1>11, <1>12 DEF SamePage, OpenBox
<1> QED BY <1>10, <1>13

LEMMA ResizeStep ==
    ASSUME OpenBox, TextResizes
    PROVE  PageInv(text') /\ SamePage
<1>1. PICK r \in Rows : text' = PrintPage([BackLines(text, text.rows + 4) EXCEPT !.rows = r])
  BY DEF TextResizes
<1>2. PageInv(text) /\ Page(text) /\ InStep(text) /\ text.rows + 4 \in Int /\ r \in Nat
  <2>1. PageInv(text) /\ Page(text) /\ InStep(text)
    BY BoxKept DEF OpenBox, PageInv
  <2>2. text.rows \in Nat
    BY <2>1 DEF Page
  <2> QED BY <2>1, <2>2, RowsAssumption
<1> DEFINE c == BackLines(text, text.rows + 4)
           b == [c EXCEPT !.rows = r]
<1>3. InStep(c) /\ Ready(c) /\ SameBox(c, text)
  BY <1>2, BackReady
<1> HIDE DEF c
<1>4. Page(c)
  BY <1>3 DEF InStep
<1>5. Resized(b, c, r)
  BY <1>4, RowsAt
<1> HIDE DEF b
<1>6. /\ b \in TextRec(b) /\ b.phase = c.phase /\ b.text = c.text /\ b.results = c.results
      /\ b.rows = r /\ b.page = c.page /\ b.begin = c.begin /\ b.vscroll = c.vscroll
      /\ b.keys = c.keys /\ b.header = c.header /\ b.side = c.side
  BY <1>5 DEF Resized
<1>7. Page(b)
  BY <1>2, <1>4, <1>6 DEF Page
<1>8. InStep(b) /\ Ready(b)
  BY <1>3, <1>6, <1>7 DEF InStep, Ready, Headed
<1>9. PageInv(text') /\ SameBox(text', b)
  BY <1>1, <1>8, BoxPrinted DEF b, c
<1>10. text'.side = text.side
  BY <1>3, <1>6, <1>9 DEF SameBox
<1> QED BY <1>9, <1>10, OpenSame

LEMMA CloseStep ==
    ASSUME OpenBox, TextCloses
    PROVE  PageInv(text') /\ SamePage
<1> DEFINE v == BackLines(text, text.len).page
<1>1. PICK g \in {0} \cup {k[2] : k \in text.keys} :
         text' = [text EXCEPT !.phase = "closed", !.target = g, !.vscroll = v]
  BY DEF TextCloses
<1>2. /\ PageInv(text) /\ Page(text) /\ InStep(text) /\ Lines(text) /\ Fitting(text, text.top)
      /\ Headed(text) /\ Anchored(text)
  BY BoxKept DEF OpenBox, PageInv
<1>3. v \in Nat
  <2>1. text.len \in Int
    BY <1>2 DEF Lines
  <2>2. BackLines(text, text.len) \in TextRec(text)
    BY <1>2, <2>1, BackReady
  <2> QED BY <1>2, <2>2, PageSame
<1>4. text.text.whole = TRUE => v = text.top
  BY <1>2, BackToTop
<1> DEFINE b == [text EXCEPT !.phase = "closed", !.target = g, !.vscroll = v]
<1> HIDE DEF v
<1>5. Shut(b, text, g, v)
  BY <1>2, CloseAt
<1>6. text' = b
  BY <1>1
<1> HIDE DEF b
<1>7. /\ b \in TextRec(b) /\ b.phase = "closed" /\ b.text = text.text /\ b.results = text.results
      /\ b.rows = text.rows /\ b.page = text.page /\ b.begin = text.begin /\ b.end = text.end
      /\ b.len = text.len /\ b.top = text.top /\ b.vscroll = v /\ b.keys = text.keys
      /\ b.header = text.header /\ b.target = g
  BY <1>5 DEF Shut
<1>8. Page(b) /\ LastLine(b) = LastLine(text)
  BY <1>2, <1>7 DEF Page, LastLine
<1>9. Lines(b) /\ Anchored(b)
  BY <1>2, <1>7, <1>8 DEF Lines, Anchored
<1>10. Fitting(b, b.top) /\ Headed(b)
  BY <1>2, <1>7 DEF Fitting, Headed, OnPage
<1>11. b.results = TRUE => b.text.whole = TRUE
  BY <1>2, <1>7 DEF PageInv
<1>12. g # 0 => text.results = TRUE
  <2>1. g # 0 => text.keys # {}
    BY <1>1
  <2>2. text.results \in BOOLEAN
    BY <1>2 DEF Page
  <2> QED BY <1>2, <2>1, <2>2 DEF Fitting
<1>13. b.target # 0 => (b.results = TRUE /\ b.vscroll = b.top)
  BY <1>4, <1>7, <1>11, <1>12
<1>14. PageInv(b)
  BY <1>3, <1>7, <1>8, <1>9, <1>10, <1>11, <1>13 DEF PageInv
<1>15. SamePage
  BY <1>6, <1>7 DEF SamePage, OpenBox
<1> QED BY <1>6, <1>14, <1>15

LEMMA AgainStep ==
    ASSUME TextInv, ResultsAgain
    PROVE  PageInv(text') /\ SamePage
<1>1. /\ text.kind = "text" /\ text.phase = "closed" /\ text.target # 0
      /\ \E t \in PageTexts, r \in Rows : t.whole /\ text' = OpenText(t, TRUE, r, text.vscroll)
  BY DEF ResultsAgain
<1>2. PICK t \in PageTexts, r \in Rows : t.whole /\ text' = OpenText(t, TRUE, r, text.vscroll)
  BY <1>1
<1>3. PageInv(text)
  BY <1>1, IsBox
<1>4. GoodText(t) /\ t.whole = TRUE /\ r \in Nat /\ text.vscroll \in Nat
  BY <1>2, <1>3, PageTextsAssumption, RowsAssumption DEF GoodText, PageInv
<1>5. /\ PageInv(text') /\ text'.text = t /\ text'.rows = r /\ text'.phase = "open"
      /\ text'.top = FirstLine(t, TRUE, r, text.vscroll)
  <2>1. PICK results \in BOOLEAN : results = TRUE
    OBVIOUS
  <2>2. text' = OpenText(t, results, r, text.vscroll)
    BY <1>2, <2>1, Zenon
  <2>3. BoxOpened(text', t, results, r, text.vscroll)
    BY <1>4, <2>2, Opens
  <2> QED BY <2>1, <2>3 DEF BoxOpened
<1>6. ASSUME text'.text = text.text, text'.rows = text.rows
      PROVE  text'.top = text.top
  <2>1. /\ text.vscroll = text.top /\ text.results = TRUE /\ t = text.text /\ r = text.rows
    BY <1>1, <1>3, <1>5, <1>6 DEF PageInv
  <2>2. text.top \in Nat /\ text.top <= t.lines /\ t.lines \in Nat /\ Anchored(text)
    BY <1>3, <1>4, <2>1 DEF PageInv, Lines, GoodText
  <2>3. Smaller(text.top, t.lines) = text.top
    BY <2>2 DEF Smaller
  <2>4. text.top + r <= t.lines \/ text.top = Larger(t.lines - r + 1, 0)
    BY <2>1, <2>2 DEF Anchored
  <2> QED BY <1>4, <1>5, <2>1, <2>2, <2>3, <2>4 DEF FirstLine
<1>7. SamePage
  BY <1>1, <1>6 DEF SamePage
<1> QED BY <1>5, <1>7

LEMMA PadStep ==
    ASSUME TextInv, PadMoves \/ PadCloses
    PROVE  TextInv' /\ SamePage
<1>1. text.kind = "pad"
  BY DEF PadMoves, PadCloses, IsOpen
<1>2. SamePage
  BY <1>1 DEF SamePage
<1>3. CASE PadCloses
  BY <1>2, <1>3 DEF PadCloses, TextInv
<1>4. CASE PadMoves
  <2>1. PadInv(text)
    BY <1>1 DEF TextInv, NoText, PageInv, Page, TextRec
  <2>2. /\ text.total \in Nat /\ text.size \in Nat /\ text.y \in Nat /\ text.size <= text.total
    BY <2>1 DEF PadInv
  <2>3. PICK y \in {text.y + text.size - 2, text.y - (text.size + 2), 0, text.total - text.size,
                     text.y + 1, text.y - 1} :
           text' = [text EXCEPT !.y = IF (IF y < 0 THEN 0 ELSE y) >= text.total - text.size
                                      THEN text.total - text.size ELSE (IF y < 0 THEN 0 ELSE y)]
    BY <1>4 DEF PadMoves
  <2>4. y \in Int
    BY <2>2, <2>3
  <2> DEFINE z == IF (IF y < 0 THEN 0 ELSE y) >= text.total - text.size
                  THEN text.total - text.size ELSE (IF y < 0 THEN 0 ELSE y)
  <2>5. z \in Nat /\ z <= text.total - text.size
    BY <2>2, <2>4
  <2>6. text' = [text EXCEPT !.y = z]
    BY <2>3
  <2> HIDE DEF z
  <2>7. PadInv(text')
    BY <2>1, <2>5, <2>6 DEF PadInv
  <2> QED BY <1>2, <2>7 DEF TextInv
<1> QED BY <1>3, <1>4

LEMMA TextStart == TextInit => TextInv
<1> SUFFICES ASSUME TextInit PROVE TextInv
  OBVIOUS
<1>1. PICK t \in PageTexts, r \in Rows :
          \/ \E results \in {FALSE, t.whole} : text = OpenText(t, results, r, 0)
          \/ text = OpenPad(IF t.whole THEN t.lines + 1 ELSE t.lines, r)
  BY DEF TextInit
<1>2. GoodText(t) /\ r \in Nat /\ t.whole \in BOOLEAN /\ t.lines \in Nat
  BY PageTextsAssumption, RowsAssumption DEF GoodText
<1>3. CASE \E results \in {FALSE, t.whole} : text = OpenText(t, results, r, 0)
  <2>1. PICK results \in {FALSE, t.whole} : text = OpenText(t, results, r, 0)
    BY <1>3
  <2>2. results \in BOOLEAN /\ (results = TRUE => t.whole = TRUE) /\ 0 \in Nat
    BY <1>2
  <2>3. PageInv(text)
    BY <1>2, <2>1, <2>2, Opens DEF BoxOpened
  <2> QED BY <2>3 DEF TextInv
<1>4. CASE text = OpenPad(IF t.whole THEN t.lines + 1 ELSE t.lines, r)
  <2> DEFINE n == IF t.whole THEN t.lines + 1 ELSE t.lines
             m == IF n < r THEN n ELSE r
  <2>1. n \in Nat /\ m \in Nat /\ m <= n
    BY <1>2
  <2>2. text = [kind |-> "pad", phase |-> "open", total |-> n, y |-> 0, size |-> m]
    BY <1>4 DEF OpenPad
  <2> HIDE DEF n, m
  <2>3. PadInv(text)
    BY <2>1, <2>2 DEF PadInv
  <2> QED BY <2>3 DEF TextInv
<1> QED BY <1>1, <1>3, <1>4

LEMMA TextStep == TextInv /\ [TextNext]_text => TextInv' /\ SamePage
<1> SUFFICES ASSUME TextInv, [TextNext]_text PROVE TextInv' /\ SamePage
  OBVIOUS
<1>1. IsOpen("text") => OpenBox
  BY IsBox DEF IsOpen, OpenBox
<1>2. CASE TextHome \/ TextEnd \/ TextUp \/ TextDown
  <2>1. OpenBox
    BY <1>1, <1>2 DEF TextHome, TextEnd, TextUp, TextDown
  <2> QED BY <1>2, <2>1, StepsOfOpenBox DEF TextInv
<1>3. CASE TextSideways
  <2>1. OpenBox
    BY <1>1, <1>3 DEF TextSideways
  <2> QED BY <1>3, <2>1, SidewaysStep DEF TextInv
<1>4. CASE TextResizes
  <2>1. OpenBox
    BY <1>1, <1>4 DEF TextResizes
  <2> QED BY <1>4, <2>1, ResizeStep DEF TextInv
<1>5. CASE TextCloses
  <2>1. OpenBox
    BY <1>1, <1>5 DEF TextCloses
  <2> QED BY <1>5, <2>1, CloseStep DEF TextInv
<1>6. CASE ResultsAgain
  BY <1>6, AgainStep DEF TextInv
<1>7. CASE PadMoves \/ PadCloses
  BY <1>7, PadStep
<1>8. CASE UNCHANGED text
  BY <1>8 DEF TextInv, SamePage
<1> QED BY <1>2, <1>3, <1>4, <1>5, <1>6, <1>7, <1>8 DEF TextNext

(* The windows over a text, for every text and window size: a page starts      *)
(* within the text and the keys of the search results are the ones on the      *)
(* screen; scrolling sideways and coming back from a jump keep the page        *)
(* (print_page, update_text, back_lines of lxdialog/textbox.c, search_conf).   *)
THEOREM TextsFollow == TextSpec => TextFollows
<1>1. TextInit => TextInv
  BY TextStart
<1>2. TextInv /\ [TextNext]_text => TextInv'
  BY TextStep
<1>3. TextInv /\ [TextNext]_text => [SamePage]_text
  BY TextStep
<1>4. TextInv => (KeysShown /\ PageInText)
  BY TextInvShows
<1> QED BY <1>1, <1>2, <1>3, <1>4, PTL DEF TextSpec, TextFollows
==============================================================================
