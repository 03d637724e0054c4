------------------------- MODULE WebReadlineProofs -------------------------
(***************************************************************************)
(* Proofs about WebReadline, for any characters, lines, histories and      *)
(* number of completions under way: first the hand-over to the loop, which *)
(* is inductive by itself, then the row of the screen.                     *)
(***************************************************************************)
EXTENDS WebReadline, SequenceTheorems, TLAPS

-----------------------------------------------------------------------------
(* The hand-over.                                                          *)

\* The first prompt is shown, and the loop waits for a line.
LEMMA InitStuck == Init => NeverStuck
<1> SUFFICES ASSUME Init
             PROVE  NeverStuck
  OBVIOUS
<1> QED  BY DEF Init, NeverStuck

\* A key hands over the line or leaves the hand-over as it is.
LEMMA KeyStuck ==
  ASSUME NeverStuck, onData
  PROVE  NeverStuck'
<1> USE DEF NeverStuck
<1>1. promptVisible /\ ~closed
  BY DEF onData
<1>2. CASE UNCHANGED loopVars
  BY <1>2 DEF loopVars
<1>3. CASE Enter
  BY <1>3 DEF Enter
<1>4. CASE Interrupt
  BY <1>1, <1>4 DEF Interrupt, showPrompt
<1>5. CASE Recall \/ Move \/ Backspace \/ KillLine \/ Tab \/ (\E c \in Chars : Insert(c))
  <2>1. UNCHANGED loopVars
    BY <1>5 DEF Recall, Move, MoveTo, Backspace, KillLine, Tab, Insert
  <2> QED  BY <2>1, <1>2
<1> QED  BY <1>3, <1>4, <1>5 DEF onData

\* The loop takes what waits for it, or ends.
LEMMA LoopStuck ==
  ASSUME NeverStuck, NEW text, loop # "waiting", PromptAndNext(text)
  PROVE  NeverStuck'
<1> USE DEF NeverStuck
<1>1. CASE closed
  BY <1>1 DEF PromptAndNext
<1>2. CASE ~closed
  BY <1>2 DEF PromptAndNext, showPrompt
<1> QED  BY <1>1, <1>2

\* Every step keeps it.
LEMMA NextStuck ==
  ASSUME NeverStuck, [Next]_vars
  PROVE  NeverStuck'
<1>1. CASE onData
  BY <1>1, KeyStuck
<1>2. CASE close
  BY <1>2 DEF close, NeverStuck
<1>3. CASE Complete \/ Notice \/ UNCHANGED vars
  <2>1. UNCHANGED loopVars
    BY <1>3 DEF Complete, Notice, vars
  <2> QED  BY <2>1 DEF loopVars, NeverStuck
<1>4. CASE BlankLine
  <2>1. loop # "waiting" /\ PromptAndNext(<<>>)
    BY <1>4 DEF BlankLine
  <2> QED  BY <2>1, LoopStuck
<1>5. CASE CommandEnds
  <2>1. PICK text \in {<<>>, <<"output">>} : PromptAndNext(text)
    BY <1>5 DEF CommandEnds
  <2>2. loop # "waiting"
    BY <1>5 DEF CommandEnds
  <2> QED  BY <2>1, <2>2, LoopStuck
<1> QED  BY <1>1, <1>2, <1>3, <1>4, <1>5 DEF Next

\* The terminal takes keys exactly while the loop waits for a line, and once it
\* is closed the loop waits for nothing: neither side waits for the other, with
\* any keys, completions, notices and commands in any order.
THEOREM HandsOver == Spec => []NeverStuck
<1> QED  BY InitStuck, NextStuck, PTL DEF Spec

-----------------------------------------------------------------------------
(* What the terminal does.                                                 *)

Cell == Chars \cup {"prompt", "space", "output"}
Screen == [cells : Seq(Cell), col : Nat]

\* A row with the prompt at column from, then a text, then only blanks, and the
\* cursor at a place of the text: ScreenShows, cell by cell.
Shows(s, from, text, place) ==
  /\ s.col = from + 1 + place
  /\ from + 1 + Len(text) <= Len(s.cells)
  /\ s.cells[from + 1] = "prompt"
  /\ \A k \in 1..Len(text) : s.cells[from + 1 + k] = text[k]
  /\ \A k \in from + Len(text) + 2..Len(s.cells) : s.cells[k] = "space"

\* What r is, if it is t with u in the place of what stands after n and up to m.
Replaced(r, t, n, u, m) ==
  /\ Len(r) = n + Len(u) + (IF m < Len(t) THEN Len(t) - m ELSE 0)
  /\ \A i \in 1..n : r[i] = t[i]
  /\ \A i \in 1..Len(u) : r[n + i] = u[i]
  /\ \A i \in n + Len(u) + 1..Len(r) : r[i] = t[i - n - Len(u) + m]

\* A text cut in two, with another between the halves: what Put does to a row,
\* and the keys to the line.
LEMMA Spliced ==
  ASSUME NEW S, NEW t \in Seq(S), NEW n \in 0..Len(t), NEW u \in Seq(S),
         NEW m \in Nat
  PROVE  LET r == SubSeq(t, 1, n) \o u \o SubSeq(t, m + 1, Len(t)) IN
         r \in Seq(S) /\ Replaced(r, t, n, u, m)
<1> DEFINE a == SubSeq(t, 1, n)
           c == SubSeq(t, m + 1, Len(t))
           b == a \o u
           r == b \o c
<1>1. Len(t) \in Nat /\ \A i \in 1..Len(t) : t[i] \in S
  OBVIOUS
<1>2. a \in Seq(S) /\ Len(a) = n /\ \A i \in 1..n : a[i] = t[i]
  <2>1. (1 \in Int) /\ (n \in Int) /\ (\A i \in 1..n : t[i] \in S)
    BY <1>1
  <2>2. /\ a \in Seq(S)
        /\ Len(a) = IF 1 <= n THEN n - 1 + 1 ELSE 0
        /\ \A i \in 1..n - 1 + 1 : a[i] = t[1 + i - 1]
    BY <2>1, SubSeqProperties
  <2> HIDE DEF a
  <2> QED  BY <2>2, <1>1
<1>3. /\ c \in Seq(S)
      /\ Len(c) = IF m < Len(t) THEN Len(t) - m ELSE 0
      /\ \A i \in 1..Len(c) : c[i] = t[m + i]
  <2>1. (m + 1 \in Int) /\ (Len(t) \in Int) /\ (\A i \in m + 1..Len(t) : t[i] \in S)
    BY <1>1
  <2>2. /\ c \in Seq(S)
        /\ Len(c) = IF m + 1 <= Len(t) THEN Len(t) - (m + 1) + 1 ELSE 0
        /\ \A i \in 1..Len(t) - (m + 1) + 1 : c[i] = t[(m + 1) + i - 1]
    BY <2>1, SubSeqProperties
  <2> HIDE DEF c
  <2> QED  BY <2>2, <1>1
<1> HIDE DEF a, c
<1>4. /\ b \in Seq(S) /\ Len(b) = n + Len(u)
      /\ \A i \in 1..n : b[i] = t[i]
      /\ \A i \in 1..Len(u) : b[n + i] = u[i]
  <2>1. /\ b \in Seq(S)
        /\ Len(b) = Len(a) + Len(u)
        /\ \A i \in 1..Len(a) + Len(u) : b[i] = IF i <= Len(a) THEN a[i] ELSE u[i - Len(a)]
    BY <1>2, ConcatProperties
  <2> HIDE DEF b
  <2>2. Len(u) \in Nat
    OBVIOUS
  <2> QED  BY <2>1, <2>2, <1>2
<1> HIDE DEF b
<1>5. /\ r \in Seq(S)
      /\ Len(r) = Len(b) + Len(c)
      /\ \A i \in 1..Len(b) + Len(c) : r[i] = IF i <= Len(b) THEN b[i] ELSE c[i - Len(b)]
  <2>1. (b \in Seq(S)) /\ (c \in Seq(S))
    BY <1>3, <1>4
  <2> QED  BY <2>1, ConcatProperties
<1> HIDE DEF r
<1>6. (Len(u) \in Nat) /\ (Len(c) \in Nat)
  BY <1>3
<1>7. Replaced(r, t, n, u, m)
  <2>1. \A i \in n + Len(u) + 1..Len(r) : r[i] = t[i - n - Len(u) + m]
    <3> TAKE i \in n + Len(u) + 1..Len(r)
    <3>1. r[i] = c[i - (n + Len(u))] /\ i - (n + Len(u)) \in 1..Len(c)
      BY <1>4, <1>5, <1>6
    <3>2. c[i - (n + Len(u))] = t[m + (i - (n + Len(u)))]
      BY <1>3, <3>1
    <3>3. m + (i - (n + Len(u))) = i - n - Len(u) + m
      BY <1>6
    <3> QED  BY <3>1, <3>2, <3>3
  <2>2. Len(r) = n + Len(u) + (IF m < Len(t) THEN Len(t) - m ELSE 0)
    BY <1>3, <1>4, <1>5, Zenon
  <2>3. ASSUME NEW i \in 1..n
        PROVE  r[i] = t[i]
    <3>1. i \in 1..Len(b) + Len(c) /\ i <= Len(b)
      BY <1>4, <1>6
    <3> QED  BY <1>4, <1>5, <3>1
  <2>4. ASSUME NEW i \in 1..Len(u)
        PROVE  r[n + i] = u[i]
    <3>1. n + i \in 1..Len(b) + Len(c) /\ n + i <= Len(b)
      BY <1>4, <1>6
    <3> QED  BY <1>4, <1>5, <3>1
  <2> QED  BY <2>1, <2>2, <2>3, <2>4 DEF Replaced
<1> QED  BY <1>5, <1>7 DEF r, b, a, c

\* Writing replaces cells and moves on.
LEMMA Written ==
  ASSUME NEW s \in Screen, s.col <= Len(s.cells), NEW u \in Seq(Cell)
  PROVE  /\ Put(s, u) \in Screen
         /\ Put(s, u).col = s.col + Len(u)
         /\ Replaced(Put(s, u).cells, s.cells, s.col, u, s.col + Len(u))
<1>1. (s.cells \in Seq(Cell)) /\ (s.col \in 0..Len(s.cells)) /\ (s.col + Len(u) \in Nat)
  BY DEF Screen
<1> DEFINE r == SubSeq(s.cells, 1, s.col) \o u
                \o SubSeq(s.cells, (s.col + Len(u)) + 1, Len(s.cells))
<1>2. r \in Seq(Cell) /\ Replaced(r, s.cells, s.col, u, s.col + Len(u))
  BY <1>1, Spliced
<1>3. Put(s, u) = [cells |-> r, col |-> s.col + Len(u)]
  BY DEF Put
<1> HIDE DEF r
<1> QED  BY <1>1, <1>2, <1>3 DEF Screen

-----------------------------------------------------------------------------
(* What a row shows.                                                       *)

\* Moving changes the place only.
LEMMA Moved ==
  ASSUME NEW s \in Screen, NEW from \in Nat, NEW text \in Seq(Chars),
         NEW place \in Nat, NEW n \in Nat, Shows(s, from, text, place)
  PROVE  /\ n <= place => /\ Back(s, n) \in Screen
                          /\ Shows(Back(s, n), from, text, place - n)
         /\ Forth(s, n) \in Screen /\ Shows(Forth(s, n), from, text, place + n)
<1>1. (s.col = from + 1 + place) /\ (s.col \in Nat)
  BY DEF Shows, Screen
<1>2. Forth(s, n) = [cells |-> s.cells, col |-> s.col + n]
  BY DEF Forth, Screen
<1>3. Forth(s, n) \in Screen /\ Shows(Forth(s, n), from, text, place + n)
  BY <1>1, <1>2 DEF Shows, Screen
<1>4. ASSUME n <= place
      PROVE  Back(s, n) \in Screen /\ Shows(Back(s, n), from, text, place - n)
  <2>1. Back(s, n) = [cells |-> s.cells, col |-> s.col - n]
    BY <1>1, <1>4 DEF Back, Screen
  <2>2. (s.col - n = from + 1 + (place - n)) /\ (s.col - n \in Nat)
    BY <1>1, <1>4
  <2> QED  BY <2>1, <2>2 DEF Shows, Screen
<1> QED  BY <1>3, <1>4

\* How long a row is that has been written to up to x.
LEMMA Longer ==
  ASSUME NEW x \in Nat, NEW y \in Nat, NEW total,
         total = x + (IF x < y THEN y - x ELSE 0)
  PROVE  total \in Nat /\ x <= total /\ (x < total => total = y)
<1>1. CASE x < y
  <2>1. total = x + (y - x)
    BY <1>1
  <2> QED  BY <2>1, <1>1
<1>2. CASE ~(x < y)
  <2>1. total = x + 0
    BY <1>2
  <2> QED  BY <2>1, <1>2
<1> QED  BY <1>1, <1>2

\* Writing from the cursor on what a new text has there, and blanks where only
\* the old one reached, shows the new text.
LEMMA Redrawn ==
  ASSUME NEW s \in Screen, NEW from \in Nat, NEW old \in Seq(Chars),
         NEW new \in Seq(Chars), NEW k \in Nat, NEW u \in Seq(Cell),
         Shows(s, from, old, k), k <= Len(old), k <= Len(new),
         \A i \in 1..k : new[i] = old[i],
         Len(old) <= k + Len(u), Len(new) <= k + Len(u),
         \A i \in 1..Len(u) : u[i] = IF k + i <= Len(new) THEN new[k + i] ELSE "space"
  PROVE  Put(s, u) \in Screen /\ Shows(Put(s, u), from, new, k + Len(u))
<1> DEFINE r == Put(s, u)
           n == from + 1 + k
<1>1. /\ (Len(old) \in Nat) /\ (Len(new) \in Nat) /\ (Len(u) \in Nat)
      /\ (Len(s.cells) \in Nat) /\ (n \in Nat)
  <2>1. s.cells \in Seq(Cell)
    BY DEF Screen
  <2>2. Len(s.cells) \in Nat
    BY <2>1
  <2>3. (Len(old) \in Nat)
    OBVIOUS
  <2>4. (Len(new) \in Nat) /\ (Len(u) \in Nat)
    OBVIOUS
  <2>5. n \in Nat
    OBVIOUS
  <2> QED  BY <2>2, <2>3, <2>4, <2>5
<1>2. s.col = n /\ from + 1 + Len(old) <= Len(s.cells)
  BY DEF Shows
<1>3. s.col <= Len(s.cells)
  BY <1>1, <1>2
<1>4. /\ r \in Screen /\ r.col = n + Len(u)
      /\ Replaced(r.cells, s.cells, n, u, n + Len(u))
  BY <1>2, <1>3, Written
<1> HIDE DEF r
<1>5. /\ Len(r.cells) = n + Len(u) + (IF n + Len(u) < Len(s.cells)
                                     THEN Len(s.cells) - (n + Len(u)) ELSE 0)
      /\ \A i \in 1..n : r.cells[i] = s.cells[i]
      /\ \A i \in 1..Len(u) : r.cells[n + i] = u[i]
      /\ \A i \in n + Len(u) + 1..Len(r.cells) :
           r.cells[i] = s.cells[i - n - Len(u) + (n + Len(u))]
  BY <1>4 DEF Replaced
<1> DEFINE total == Len(r.cells)
<1>5a. /\ total \in Nat /\ n + Len(u) <= total
       /\ n + Len(u) < total => total = Len(s.cells)
  <2>1. n + Len(u) \in Nat
    BY <1>1
  <2> QED  BY <2>1, <1>1, <1>5, Longer
<1> HIDE DEF total
<1>6. r.col = from + 1 + (k + Len(u)) /\ from + 1 + Len(new) <= total
  <2>1. n + Len(u) = from + 1 + (k + Len(u))
    BY <1>1
  <2>2. from + 1 + Len(new) <= n + Len(u)
    BY <1>1
  <2> QED  BY <1>1, <1>4, <1>5a, <2>1, <2>2
<1>7. r.cells[from + 1] = "prompt"
  <2>1. from + 1 \in 1..n
    BY <1>1
  <2> QED  BY <2>1, <1>5 DEF Shows
<1>8. ASSUME NEW i \in 1..Len(new)
      PROVE  r.cells[from + 1 + i] = new[i]
  <2>1. CASE i <= k
    <3>1. r.cells[from + 1 + i] = s.cells[from + 1 + i]
      <4>1. from + 1 + i \in 1..n
        BY <1>1, <2>1
      <4> QED  BY <1>5, <4>1, Zenon
    <3> QED  BY <3>1, <1>1, <2>1 DEF Shows
  <2>2. CASE i > k
    <3>1. i - k \in 1..Len(u) /\ n + (i - k) = from + 1 + i /\ k + (i - k) = i
      BY <1>1, <2>2
    <3>2. r.cells[n + (i - k)] = u[i - k]
      BY <1>5, <3>1
    <3>3. u[i - k] = new[k + (i - k)]
      BY <1>1, <3>1
    <3> QED  BY <3>1, <3>2, <3>3
  <2> QED  BY <1>1, <2>1, <2>2
<1>9. ASSUME NEW i \in from + Len(new) + 2..total
      PROVE  r.cells[i] = "space"
  <2>0. i \in Int
    BY <1>1, <1>5a
  <2>1. CASE i <= n + Len(u)
    <3>1. i - n \in 1..Len(u) /\ n + (i - n) = i /\ ~(k + (i - n) <= Len(new))
      BY <1>1, <2>0, <2>1
    <3>2. r.cells[n + (i - n)] = u[i - n]
      BY <1>5, <3>1
    <3>3. u[i - n] = "space"
      BY <3>1
    <3> QED  BY <3>1, <3>2, <3>3
  <2>2. CASE i > n + Len(u)
    <3>1. i \in n + Len(u) + 1..total /\ i - n - Len(u) + (n + Len(u)) = i
      BY <1>1, <1>5a, <2>0, <2>2
    <3>2. r.cells[i] = s.cells[i]
      BY <1>5, <3>1 DEF total
    <3>3. i \in from + Len(old) + 2..Len(s.cells)
      BY <1>1, <1>5a, <2>0, <2>2
    <3> QED  BY <3>2, <3>3 DEF Shows
  <2> QED  BY <1>1, <2>0, <2>1, <2>2
<1> QED  BY <1>4, <1>6, <1>7, <1>8, <1>9 DEF Shows, r, total

\* A row that ends in a prompt, before anything is typed.
LEMMA Prompted ==
  ASSUME NEW text \in Seq(Cell)
  PROVE  LET s == Row(text \o <<"prompt">>) IN
         /\ s \in Screen /\ Len(text) \in Nat
         /\ Shows(s, Len(text), <<>>, 0)
<1> DEFINE row == text \o <<"prompt">>
           sign == <<"prompt">>
<1>1. (sign \in Seq(Cell)) /\ (Len(text) \in Nat) /\ (Len(sign) = 1) /\ (sign[1] = "prompt")
  BY DEF Cell
<1> HIDE DEF sign
<1>2. /\ row \in Seq(Cell)
      /\ Len(row) = Len(text) + Len(sign)
      /\ \A i \in 1..Len(text) + Len(sign) :
           row[i] = IF i <= Len(text) THEN text[i] ELSE sign[i - Len(text)]
  BY <1>1, ConcatProperties DEF sign
<1> HIDE DEF row
<1>3. Len(row) = Len(text) + 1 /\ row[Len(text) + 1] = "prompt"
  <2>1. /\ Len(text) + 1 \in 1..Len(text) + Len(sign)
        /\ ~(Len(text) + 1 <= Len(text)) /\ (Len(text) + 1) - Len(text) = 1
    BY <1>1
  <2> QED  BY <1>1, <1>2, <2>1
<1>4. Row(row) \in Screen /\ Shows(Row(row), Len(text), <<>>, 0)
  <2>1. Len(<<>>) = 0
    OBVIOUS
  <2> QED  BY <1>1, <1>2, <1>3, <2>1 DEF Row, Screen, Shows
<1> QED  BY <1>1, <1>4 DEF row

\* A prompt and a text, as cells.
LEMMA PromptAndText ==
  ASSUME NEW text \in Seq(Chars)
  PROVE  LET row == <<"prompt">> \o text IN
         /\ row \in Seq(Cell) /\ Len(row) = Len(text) + 1
         /\ row[1] = "prompt" /\ \A k \in 1..Len(text) : row[1 + k] = text[k]
<1> DEFINE row == <<"prompt">> \o text
<1>1. (<<"prompt">> \in Seq(Cell)) /\ (text \in Seq(Cell)) /\ (Len(text) \in Nat)
  BY DEF Cell
<1>2. /\ row \in Seq(Cell)
      /\ Len(row) = Len(<<"prompt">>) + Len(text)
      /\ \A i \in 1..Len(<<"prompt">>) + Len(text) :
           row[i] = IF i <= Len(<<"prompt">>) THEN <<"prompt">>[i]
                    ELSE text[i - Len(<<"prompt">>)]
  BY <1>1, ConcatProperties
<1> HIDE DEF row
<1>3. Len(<<"prompt">>) = 1 /\ <<"prompt">>[1] = "prompt"
  OBVIOUS
<1>4. row[1] = "prompt"
  BY <1>1, <1>2, <1>3
<1>5. ASSUME NEW k \in 1..Len(text)
      PROVE  row[1 + k] = text[k]
  <2>1. /\ 1 + k \in 1..1 + Len(text) /\ ~(1 + k <= 1) /\ (1 + k) - 1 = k
    BY <1>1
  <2> QED  BY <1>2, <1>3, <2>1
<1>6. Len(row) = Len(text) + 1
  BY <1>1, <1>2, <1>3
<1> QED  BY <1>2, <1>4, <1>5, <1>6 DEF row

\* A fresh row with a prompt and a text.
LEMMA Typed ==
  ASSUME NEW text \in Seq(Chars), NEW n \in 0..Len(text)
  PROVE  LET s == Back(Row(<<"prompt">> \o text), n) IN
         s \in Screen /\ Shows(s, 0, text, Len(text) - n)
<1> DEFINE row == <<"prompt">> \o text
<1>1. /\ row \in Seq(Cell) /\ Len(row) = Len(text) + 1
      /\ row[1] = "prompt" /\ \A k \in 1..Len(text) : row[1 + k] = text[k]
  BY PromptAndText
<1> HIDE DEF row
<1>2. (Len(text) \in Nat) /\ (n \in Nat)
  OBVIOUS
<1>3. Row(row) \in Screen
  BY <1>1, <1>2 DEF Row, Screen
<1>4. Shows(Row(row), 0, text, Len(text))
  BY <1>1, <1>2 DEF Row, Shows
<1> QED  BY <1>2, <1>3, <1>4, Moved DEF row

\* A row that is drawn again from its first column, for a text that is no
\* shorter.
LEMMA DrawnAgain ==
  ASSUME NEW s \in Screen, NEW old \in Seq(Chars), NEW new \in Seq(Chars),
         NEW place \in 0..Len(old), NEW n \in 0..Len(new),
         Shows(s, 0, old, place), Len(old) <= Len(new)
  PROVE  LET r == Back(Put(Back(s, s.col), <<"prompt">> \o new), n) IN
         r \in Screen /\ Shows(r, 0, new, Len(new) - n)
<1> DEFINE u == <<"prompt">> \o new
           b == Back(s, s.col)
           r == Put(b, u)
<1>1. /\ u \in Seq(Cell) /\ Len(u) = Len(new) + 1
      /\ u[1] = "prompt" /\ \A k \in 1..Len(new) : u[1 + k] = new[k]
  BY PromptAndText
<1> HIDE DEF u
<1>2. /\ Len(new) \in Nat /\ Len(old) \in Nat /\ n \in Nat
      /\ s.cells \in Seq(Cell) /\ s.col \in Nat
  BY DEF Screen
<1>3. Len(s.cells) \in Nat
  BY <1>2
<1>4. b = [cells |-> s.cells, col |-> 0]
  BY <1>2 DEF Back, Screen
<1>5. b \in Screen /\ b.col = 0 /\ b.cells = s.cells /\ b.col <= Len(b.cells)
  BY <1>2, <1>3, <1>4 DEF Screen
<1> HIDE DEF b
<1>6. /\ r \in Screen /\ r.col = 0 + Len(u)
      /\ Replaced(r.cells, s.cells, 0, u, 0 + Len(u))
  <2>1. /\ r \in Screen /\ r.col = b.col + Len(u)
        /\ Replaced(r.cells, b.cells, b.col, u, b.col + Len(u))
    BY <1>1, <1>5, Written
  <2> HIDE DEF r
  <2> QED  BY <1>5, <2>1
<1> HIDE DEF r
<1> DEFINE total == Len(r.cells)
<1>7. /\ total = 0 + Len(u) + (IF 0 + Len(u) < Len(s.cells)
                               THEN Len(s.cells) - (0 + Len(u)) ELSE 0)
      /\ \A i \in 1..Len(u) : r.cells[0 + i] = u[i]
      /\ \A i \in 0 + Len(u) + 1..total :
           r.cells[i] = s.cells[i - 0 - Len(u) + (0 + Len(u))]
  BY <1>6 DEF Replaced
<1> HIDE DEF total
<1>8. /\ total \in Nat /\ Len(new) + 1 <= total
      /\ Len(u) < total => total = Len(s.cells)
  <2>1. 0 + Len(u) \in Nat /\ 0 + Len(u) = Len(new) + 1
    BY <1>1, <1>2
  <2>2. /\ total \in Nat /\ 0 + Len(u) <= total
        /\ 0 + Len(u) < total => total = Len(s.cells)
    BY <2>1, <1>3, <1>7, Longer, Zenon
  <2> QED  BY <2>1, <2>2, <1>1, <1>2
<1>9. /\ r.col = 0 + 1 + Len(new) /\ 0 + 1 + Len(new) <= total
      /\ r.cells[0 + 1] = "prompt"
  <2>1. 1 \in 1..Len(u)
    BY <1>1, <1>2
  <2>2. r.cells[0 + 1] = u[1]
    BY <1>7, <2>1
  <2> QED  BY <1>1, <1>2, <1>6, <1>8, <2>2
<1>10. ASSUME NEW k \in 1..Len(new)
       PROVE  r.cells[0 + 1 + k] = new[k]
  <2>1. 1 + k \in 1..Len(u) /\ 0 + (1 + k) = 1 + k /\ 0 + 1 + k = 1 + k
    BY <1>1, <1>2
  <2> QED  BY <2>1, <1>1, <1>7
<1>11. ASSUME NEW k \in 0 + Len(new) + 2..total
       PROVE  r.cells[k] = "space"
  <2>1. /\ k \in 0 + Len(u) + 1..total /\ k - 0 - Len(u) + (0 + Len(u)) = k
        /\ Len(u) < total
    BY <1>1, <1>2, <1>8
  <2>2. r.cells[k] = s.cells[k]
    BY <1>7, <2>1
  <2>3. k \in 0 + Len(old) + 2..Len(s.cells)
    BY <1>2, <1>8, <2>1
  <2> QED  BY <2>2, <2>3 DEF Shows
<1>12. Shows(r, 0, new, Len(new))
  BY <1>9, <1>10, <1>11 DEF Shows, total
<1> QED  BY <1>2, <1>6, <1>12, Moved DEF r, b, u

-----------------------------------------------------------------------------
(* The inductive invariant.                                                *)

LineKept ==
  /\ line \in Seq(Chars) /\ cursor \in 0..Len(line)
  /\ history \in Seq(Seq(Chars)) /\ historyIndex \in 0..Len(history)
  /\ savedLine \in Seq(Chars)

\* The row shows the line while there is a prompt, and without one there is no
\* line, so that the next prompt stands for itself.
RowKept ==
  /\ screen \in Screen /\ origin \in Nat
  /\ promptVisible /\ ~closed /\ ~disturbed => Shows(screen, origin, line, cursor)
  /\ ~promptVisible => line = <<>>

IInv == LineKept /\ RowKept /\ NeverStuck

\* The two parts of the line.
LEMMA Parts ==
  ASSUME LineKept
  PROVE  /\ Len(line) \in Nat /\ cursor \in Nat /\ cursor <= Len(line)
         /\ Before \in Seq(Chars) /\ Len(Before) = cursor
         /\ \A i \in 1..cursor : Before[i] = line[i]
         /\ After \in Seq(Chars) /\ Len(After) = Len(line) - cursor
         /\ \A i \in 1..Len(line) - cursor : After[i] = line[cursor + i]
<1>1. /\ line \in Seq(Chars) /\ Len(line) \in Nat /\ cursor \in Nat /\ cursor <= Len(line)
      /\ \A i \in 1..Len(line) : line[i] \in Chars
  BY DEF LineKept
<1>2. /\ Before \in Seq(Chars) /\ Len(Before) = cursor
      /\ \A i \in 1..cursor : Before[i] = line[i]
  <2>1. (1 \in Int) /\ (cursor \in Int) /\ (\A i \in 1..cursor : line[i] \in Chars)
    BY <1>1
  <2>2. /\ Before \in Seq(Chars)
        /\ Len(Before) = IF 1 <= cursor THEN cursor - 1 + 1 ELSE 0
        /\ \A i \in 1..cursor - 1 + 1 : Before[i] = line[1 + i - 1]
    BY <2>1, SubSeqProperties DEF Before
  <2> QED  BY <2>2, <1>1
<1>3. /\ After \in Seq(Chars) /\ Len(After) = Len(line) - cursor
      /\ \A i \in 1..Len(line) - cursor : After[i] = line[cursor + i]
  <2>1. /\ cursor + 1 \in Int /\ Len(line) \in Int
        /\ \A i \in cursor + 1..Len(line) : line[i] \in Chars
    BY <1>1
  <2>2. /\ After \in Seq(Chars)
        /\ Len(After) = IF cursor + 1 <= Len(line) THEN Len(line) - (cursor + 1) + 1 ELSE 0
        /\ \A i \in 1..Len(line) - (cursor + 1) + 1 : After[i] = line[cursor + 1 + i - 1]
    BY <2>1, SubSeqProperties DEF After
  <2>3. Len(After) = Len(line) - cursor
    BY <2>2, <1>1
  <2>4. Len(line) - (cursor + 1) + 1 = Len(line) - cursor
    BY <1>1
  <2>5. ASSUME NEW i \in 1..Len(line) - cursor
        PROVE  After[i] = line[cursor + i]
    <3>1. i \in 1..Len(line) - (cursor + 1) + 1
      BY <2>4
    <3>2. After[i] = line[cursor + 1 + i - 1]
      BY <2>2, <3>1, Zenon
    <3>3. cursor + 1 + i - 1 = cursor + i
      BY <1>1
    <3> QED  BY <3>2, <3>3
  <2> QED  BY <2>2, <2>3, <2>5
<1> QED  BY <1>1, <1>2, <1>3

\* What is drawn is what the row will show.
LEMMA Drawn ==
  ASSUME RowKept, promptVisible, ~closed, UNCHANGED loopVars, NEW s, Draw(s),
         ~disturbed => s \in Screen /\ Shows(s, origin, line', cursor')
  PROVE  RowKept'
<1> USE DEF RowKept, Draw, loopVars
<1>1. CASE disturbed'
  <2>1. screen' = screen /\ origin' = origin
    BY <1>1
  <2> QED  BY <1>1, <2>1
<1>2. CASE ~disturbed'
  <2>1. screen' = s /\ origin' = origin /\ ~disturbed
    BY <1>2
  <2> QED  BY <1>2, <2>1
<1> QED  BY <1>1, <1>2

\* A key that moves.
LEMMA MoveKept ==
  ASSUME LineKept, RowKept, promptVisible, ~closed, Move
  PROVE  LineKept' /\ RowKept'
<1>1. /\ Len(line) \in Nat /\ cursor \in Nat /\ cursor <= Len(line)
      /\ line \in Seq(Chars)
  BY Parts DEF LineKept
<1>2. ~disturbed => Shows(screen, origin, line, cursor)
  BY DEF RowKept
<1>3. screen \in Screen /\ origin \in Nat
  BY DEF RowKept
<1>4. ASSUME NEW place \in 0..Len(line), NEW s, MoveTo(place, s),
             ~disturbed => s \in Screen /\ Shows(s, origin, line, place)
      PROVE  LineKept' /\ RowKept'
  <2>1. /\ cursor' = place /\ line' = line /\ UNCHANGED historyVars
        /\ UNCHANGED loopVars /\ Draw(s)
    BY <1>4 DEF MoveTo
  <2>2. LineKept'
    BY <2>1 DEF LineKept, historyVars
  <2>3. ~disturbed => s \in Screen /\ Shows(s, origin, line', cursor')
    BY <1>4, <2>1
  <2> QED  BY <2>1, <2>2, <2>3, Drawn
<1>5. CASE cursor > 0 /\ MoveTo(cursor - 1, Back(screen, 1))
  <2>1. cursor - 1 \in 0..Len(line) /\ 1 <= cursor
    BY <1>1, <1>5
  <2>2. ~disturbed => /\ Back(screen, 1) \in Screen
                      /\ Shows(Back(screen, 1), origin, line, cursor - 1)
    BY <1>1, <1>2, <1>3, <2>1, Moved
  <2> QED  BY <1>4, <1>5, <2>1, <2>2
<1>6. CASE cursor < Len(line) /\ MoveTo(cursor + 1, Forth(screen, 1))
  <2>1. cursor + 1 \in 0..Len(line)
    BY <1>1, <1>6
  <2>2. ~disturbed => /\ Forth(screen, 1) \in Screen
                      /\ Shows(Forth(screen, 1), origin, line, cursor + 1)
    BY <1>1, <1>2, <1>3, <2>1, Moved
  <2> QED  BY <1>4, <1>6, <2>1, <2>2
<1>7. CASE cursor > 0 /\ MoveTo(0, Back(screen, cursor))
  <2>1. 0 \in 0..Len(line) /\ cursor <= cursor /\ cursor - cursor = 0
    BY <1>1
  <2>2. ~disturbed => /\ Back(screen, cursor) \in Screen
                      /\ Shows(Back(screen, cursor), origin, line, 0)
    BY <1>1, <1>2, <1>3, <2>1, Moved
  <2> QED  BY <1>4, <1>7, <2>1, <2>2
<1>8. CASE cursor < Len(line) /\ MoveTo(Len(line), Forth(screen, Len(line) - cursor))
  <2>1. /\ Len(line) \in 0..Len(line) /\ Len(line) - cursor \in Nat
        /\ cursor + (Len(line) - cursor) = Len(line)
    BY <1>1
  <2> DEFINE s == Forth(screen, Len(line) - cursor)
  <2>2. ~disturbed => s \in Screen /\ Shows(s, origin, line, Len(line))
    BY <1>1, <1>2, <1>3, <2>1, Moved
  <2> QED  BY <1>4, <1>8, <2>1, <2>2
<1> QED  BY <1>5, <1>6, <1>7, <1>8 DEF Move

\* A key that changes the line and leaves the history alone.
LEMMA Edited ==
  ASSUME LineKept, UNCHANGED historyVars, line' \in Seq(Chars), cursor' \in 0..Len(line')
  PROVE  LineKept'
  BY DEF LineKept, historyVars

\* A character goes in at the cursor.
LEMMA InsertKept ==
  ASSUME LineKept, RowKept, promptVisible, ~closed, NEW c \in Chars, Insert(c)
  PROVE  LineKept' /\ RowKept'
<1>1. /\ line \in Seq(Chars) /\ Len(line) \in Nat /\ cursor \in Nat /\ cursor <= Len(line)
      /\ After \in Seq(Chars) /\ Len(After) = Len(line) - cursor
      /\ \A i \in 1..Len(line) - cursor : After[i] = line[cursor + i]
  BY Parts DEF LineKept
<1>2. /\ line' = Before \o <<c>> \o After /\ cursor' = cursor + 1
      /\ Draw(Back(Put(screen, <<c>> \o After), Len(After)))
      /\ UNCHANGED historyVars /\ UNCHANGED loopVars
  BY DEF Insert
<1> DEFINE one == <<c>>
           u == <<c>> \o After
<1>3. one \in Seq(Chars) /\ Len(one) = 1 /\ one[1] = c
  OBVIOUS
<1>4. /\ line' \in Seq(Chars) /\ Len(line') = Len(line) + 1
      /\ \A i \in 1..cursor : line'[i] = line[i]
      /\ line'[cursor + 1] = c
      /\ \A i \in cursor + 2..Len(line) + 1 : line'[i] = line[i - 1]
  <2> HIDE DEF one
  <2>1. line' \in Seq(Chars) /\ Replaced(line', line, cursor, one, cursor)
    <3>1. line' = SubSeq(line, 1, cursor) \o one \o SubSeq(line, cursor + 1, Len(line))
      BY <1>2 DEF Before, After, one
    <3>2. cursor \in 0..Len(line)
      BY <1>1
    <3> QED  BY <1>1, <1>3, <3>1, <3>2, Spliced
  <2>2. /\ Len(line') = cursor + 1 + (IF cursor < Len(line) THEN Len(line) - cursor ELSE 0)
        /\ \A i \in 1..cursor : line'[i] = line[i]
        /\ \A i \in 1..1 : line'[cursor + i] = one[i]
        /\ \A i \in cursor + 1 + 1..Len(line') : line'[i] = line[i - cursor - 1 + cursor]
    BY <1>3, <2>1 DEF Replaced
  <2>3. Len(line') = Len(line) + 1
    <3>1. \A x, y \in Nat : x <= y => x + 1 + (IF x < y THEN y - x ELSE 0) = y + 1
      OBVIOUS
    <3> QED  BY <3>1, <1>1, <2>2, Zenon
  <2>4. line'[cursor + 1] = c
    BY <1>3, <2>2
  <2>5. ASSUME NEW i \in cursor + 2..Len(line) + 1
        PROVE  line'[i] = line[i - 1]
    <3>1. i \in cursor + 1 + 1..Len(line') /\ i - cursor - 1 + cursor = i - 1
      BY <1>1, <2>3
    <3> QED  BY <2>2, <3>1
  <2> QED  BY <2>1, <2>2, <2>3, <2>4, <2>5
<1>5. LineKept'
  <2>1. cursor' \in 0..Len(line')
    BY <1>1, <1>2, <1>4
  <2> QED  BY <1>2, <1>4, <2>1, Edited
<1>6. /\ u \in Seq(Cell) /\ Len(u) = Len(line) - cursor + 1
      /\ \A i \in 1..Len(u) : u[i] = line'[cursor + i]
  <2>1. one \in Seq(Chars) /\ After \in Seq(Chars)
    BY <1>1, <1>3
  <2> HIDE DEF one
  <2>2. /\ u \in Seq(Chars)
        /\ Len(u) = Len(one) + Len(After)
        /\ \A i \in 1..Len(one) + Len(After) :
             u[i] = IF i <= Len(one) THEN one[i] ELSE After[i - Len(one)]
    BY <2>1, ConcatProperties DEF one
  <2> HIDE DEF u
  <2>3. u \in Seq(Cell)
    BY <2>2 DEF Cell
  <2>4. Len(u) = Len(line) - cursor + 1
    BY <1>1, <1>3, <2>2
  <2>5. ASSUME NEW i \in 1..Len(u)
        PROVE  u[i] = line'[cursor + i]
    <3>1. CASE i = 1
      BY <1>1, <1>3, <1>4, <2>2, <2>4, <3>1
    <3>2. CASE i # 1
      <4>1. /\ i - 1 \in 1..Len(line) - cursor /\ ~(i <= 1)
            /\ i \in 1..1 + Len(After)
            /\ cursor + i \in cursor + 2..Len(line) + 1
            /\ (cursor + i) - 1 = cursor + (i - 1)
        BY <1>1, <2>4, <3>2
      <4>2. u[i] = After[i - 1]
        BY <1>3, <2>2, <4>1
      <4>3. After[i - 1] = line[cursor + (i - 1)]
        BY <1>1, <4>1
      <4>4. line'[cursor + i] = line[(cursor + i) - 1]
        <5>1. \A j \in cursor + 2..Len(line) + 1 : line'[j] = line[j - 1]
          BY <1>4
        <5> QED  BY <4>1, <5>1, Zenon
      <4> QED  BY <4>1, <4>2, <4>3, <4>4
    <3> QED  BY <3>1, <3>2
  <2> QED  BY <2>3, <2>4, <2>5
<1> HIDE DEF u
<1>7. ASSUME ~disturbed
      PROVE  /\ Back(Put(screen, u), Len(After)) \in Screen
             /\ Shows(Back(Put(screen, u), Len(After)), origin, line', cursor + 1)
  <2>1. screen \in Screen /\ origin \in Nat /\ Shows(screen, origin, line, cursor)
    BY <1>7 DEF RowKept
  <2>2. /\ Len(line) <= cursor + Len(u) /\ Len(line') <= cursor + Len(u)
        /\ cursor <= Len(line') /\ cursor + Len(u) = Len(line) + 1
    BY <1>1, <1>4, <1>6
  <2>3. \A i \in 1..Len(u) :
          u[i] = IF cursor + i <= Len(line') THEN line'[cursor + i] ELSE "space"
    <3>1. \A i \in 1..Len(u) : cursor + i <= Len(line')
      BY <1>1, <1>4, <1>6
    <3> QED  BY <1>6, <3>1
  <2>4. Put(screen, u) \in Screen /\ Shows(Put(screen, u), origin, line', cursor + Len(u))
    BY <1>1, <1>4, <1>6, <2>1, <2>2, <2>3, Redrawn
  <2>5. /\ Len(After) \in Nat /\ cursor + Len(u) \in Nat /\ Len(After) <= cursor + Len(u)
        /\ (cursor + Len(u)) - Len(After) = cursor + 1
    <3>1. Len(u) = Len(line) - cursor + 1 /\ Len(After) = Len(line) - cursor
      BY <1>1, <1>6
    <3> HIDE DEF After
    <3> QED  BY <3>1, <1>1
  <2>6. /\ Back(Put(screen, u), Len(After)) \in Screen
        /\ Shows(Back(Put(screen, u), Len(After)), origin, line',
                 (cursor + Len(u)) - Len(After))
    <3>1. line' \in Seq(Chars) /\ origin \in Nat
      BY <1>4, <2>1
    <3> QED  BY <3>1, <2>4, <2>5, Moved, Zenon
  <2> QED  BY <2>5, <2>6
<1>8. RowKept'
  BY <1>2, <1>7, Drawn DEF u
<1> QED  BY <1>5, <1>8

\* The character before the cursor goes.
LEMMA BackspaceKept ==
  ASSUME LineKept, RowKept, promptVisible, ~closed, Backspace
  PROVE  LineKept' /\ RowKept'
<1>1. /\ line \in Seq(Chars) /\ Len(line) \in Nat /\ cursor \in Nat /\ cursor <= Len(line)
      /\ After \in Seq(Chars) /\ Len(After) = Len(line) - cursor
      /\ \A i \in 1..Len(line) - cursor : After[i] = line[cursor + i]
  BY Parts DEF LineKept
<1> DEFINE k == cursor - 1
           u == Append(After, "space")
<1>2. /\ line' = SubSeq(line, 1, k) \o After /\ cursor' = k
      /\ Draw(Back(Put(Back(screen, 1), u), Len(After) + 1))
      /\ UNCHANGED historyVars /\ UNCHANGED loopVars
  BY DEF Backspace
<1>3. k \in Nat /\ k + 1 = cursor /\ k \in 0..Len(line)
  BY <1>1 DEF Backspace
<1>4. /\ line' \in Seq(Chars) /\ Len(line') = Len(line) - 1
      /\ \A i \in 1..k : line'[i] = line[i]
      /\ \A i \in 1..Len(line) - cursor : line'[k + i] = After[i]
  <2> DEFINE a == SubSeq(line, 1, k)
  <2>1. a \in Seq(Chars) /\ Len(a) = k /\ \A i \in 1..k : a[i] = line[i]
    <3>1. (1 \in Int) /\ (k \in Int) /\ (\A i \in 1..k : line[i] \in Chars)
      BY <1>1, <1>3
    <3>2. /\ a \in Seq(Chars)
          /\ Len(a) = IF 1 <= k THEN k - 1 + 1 ELSE 0
          /\ \A i \in 1..k - 1 + 1 : a[i] = line[1 + i - 1]
      BY <3>1, SubSeqProperties
    <3> HIDE DEF a
    <3> QED  BY <3>2, <1>3
  <2> HIDE DEF a, k
  <2>2. /\ line' \in Seq(Chars)
        /\ Len(line') = Len(a) + Len(After)
        /\ \A i \in 1..Len(a) + Len(After) :
             line'[i] = IF i <= Len(a) THEN a[i] ELSE After[i - Len(a)]
    <3>1. line' = a \o After
      BY <1>2 DEF a
    <3> QED  BY <1>1, <2>1, <3>1, ConcatProperties
  <2>3. Len(line') = Len(line) - 1
    <3>1. \A x, y \in Nat : x + (y - (x + 1)) = y - 1
      OBVIOUS
    <3>2. Len(line') = k + (Len(line) - (k + 1))
      BY <1>1, <1>3, <2>1, <2>2, Zenon
    <3> QED  BY <3>1, <3>2, <1>1, <1>3, Zenon
  <2>4. ASSUME NEW i \in 1..k
        PROVE  line'[i] = line[i]
    <3>1. i \in 1..Len(a) + Len(After) /\ i <= Len(a)
      BY <1>1, <1>3, <2>1
    <3> QED  BY <2>1, <2>2, <3>1
  <2>5. ASSUME NEW i \in 1..Len(line) - cursor
        PROVE  line'[k + i] = After[i]
    <3>1. k + i \in 1..Len(a) + Len(After) /\ ~(k + i <= Len(a)) /\ (k + i) - Len(a) = i
      BY <1>1, <1>3, <2>1
    <3> QED  BY <2>2, <3>1
  <2> QED  BY <2>2, <2>3, <2>4, <2>5
<1> HIDE DEF k
<1>5. LineKept'
  <2>1. cursor' \in 0..Len(line')
    BY <1>1, <1>2, <1>3, <1>4
  <2> QED  BY <1>2, <1>4, <2>1, Edited
<1>6. /\ u \in Seq(Cell) /\ Len(u) = Len(After) + 1
      /\ \A i \in 1..Len(After) : u[i] = After[i]
      /\ u[Len(After) + 1] = "space"
  <2> HIDE DEF After
  <2>1. After \in Seq(Cell) /\ "space" \in Cell
    BY <1>1 DEF Cell
  <2> QED  BY <2>1, AppendProperties
<1> HIDE DEF u
<1>7. ASSUME ~disturbed
      PROVE  LET s == Back(Put(Back(screen, 1), u), Len(After) + 1) IN
             s \in Screen /\ Shows(s, origin, line', k)
  <2>1. screen \in Screen /\ origin \in Nat /\ Shows(screen, origin, line, cursor)
    BY <1>7 DEF RowKept
  <2> DEFINE b == Back(screen, 1)
  <2>2. b \in Screen /\ Shows(b, origin, line, k)
    <3>1. 1 <= cursor /\ cursor - 1 = k
      BY <1>1, <1>3
    <3> QED  BY <1>1, <2>1, <3>1, Moved
  <2> HIDE DEF b
  <2>3. Len(After) \in Nat /\ Len(u) \in Nat /\ k + Len(u) = Len(line)
    <3>1. \A x, y \in Nat : x + ((y - (x + 1)) + 1) = y
      OBVIOUS
    <3>2. k + Len(u) = k + ((Len(line) - (k + 1)) + 1)
      BY <1>1, <1>3, <1>6, Zenon
    <3>3. Len(After) \in Nat /\ Len(u) \in Nat
      BY <1>1, <1>6
    <3> QED  BY <3>1, <3>2, <3>3, <1>1, <1>3, Zenon
  <2>4. /\ Len(line) <= k + Len(u) /\ Len(line') <= k + Len(u)
        /\ k <= Len(line) /\ k <= Len(line')
    BY <1>1, <1>3, <1>4, <2>3
  <2>5. ASSUME NEW i \in 1..Len(u)
        PROVE  u[i] = IF k + i <= Len(line') THEN line'[k + i] ELSE "space"
    <3>1. CASE i <= Len(After)
      <4>1. i \in 1..Len(After) /\ i \in 1..Len(line) - cursor /\ k + i <= Len(line')
        BY <1>1, <1>3, <1>4, <2>3, <3>1
      <4> QED  BY <1>4, <1>6, <4>1
    <3>2. CASE ~(i <= Len(After))
      <4>1. i = Len(After) + 1 /\ ~(k + i <= Len(line'))
        BY <1>1, <1>3, <1>4, <1>6, <2>3, <3>2
      <4> QED  BY <1>6, <4>1
    <3> QED  BY <3>1, <3>2
  <2>6. Put(b, u) \in Screen /\ Shows(Put(b, u), origin, line', k + Len(u))
    BY <1>1, <1>3, <1>4, <1>6, <2>1, <2>2, <2>4, <2>5, Redrawn
  <2>7. /\ Len(After) + 1 \in Nat /\ k + Len(u) \in Nat /\ Len(After) + 1 <= k + Len(u)
        /\ (k + Len(u)) - (Len(After) + 1) = k
    BY <1>1, <1>3, <1>6, <2>3
  <2>8. /\ Back(Put(b, u), Len(After) + 1) \in Screen
        /\ Shows(Back(Put(b, u), Len(After) + 1), origin, line',
                 (k + Len(u)) - (Len(After) + 1))
    BY <1>4, <2>1, <2>6, <2>7, Moved, Zenon
  <2> QED  BY <2>7, <2>8 DEF b
<1>8. RowKept'
  BY <1>2, <1>7, Drawn DEF u
<1> QED  BY <1>5, <1>8

\* A row on which the line is wiped and another text is written.
LEMMA Rewritten ==
  ASSUME LineKept, RowKept, promptVisible, ~closed, ~disturbed, NEW new \in Seq(Chars)
  PROVE  LET wiped == Put(Back(screen, cursor), Blanks(Len(line)))
             s == Put(Back(wiped, Len(line)), new) IN
         s \in Screen /\ Shows(s, origin, new, Len(new))
<1>1. /\ line \in Seq(Chars) /\ Len(line) \in Nat /\ cursor \in Nat /\ cursor <= Len(line)
      /\ screen \in Screen /\ origin \in Nat /\ Shows(screen, origin, line, cursor)
  BY Parts DEF LineKept, RowKept
<1> DEFINE b == Back(screen, cursor)
           u == Blanks(Len(line))
           w == Put(b, u)
           c == Back(w, Len(line))
<1>2. b \in Screen /\ Shows(b, origin, line, 0)
  <2>1. cursor <= cursor /\ cursor - cursor = 0
    BY <1>1
  <2> QED  BY <1>1, <2>1, Moved
<1> HIDE DEF b
<1>3. u \in Seq(Cell) /\ Len(u) = Len(line) /\ \A i \in 1..Len(u) : u[i] = "space"
  <2>1. u = [i \in 1..Len(line) |-> "space"] /\ "space" \in Cell
    BY DEF Blanks, Cell
  <2> HIDE DEF u
  <2> QED  BY <1>1, <2>1
<1> HIDE DEF u
<1>4. <<>> \in Seq(Chars) /\ Len(<<>>) = 0
  OBVIOUS
<1>5. w \in Screen /\ Shows(w, origin, <<>>, Len(line))
  <2>1. /\ 0 <= Len(line) /\ 0 <= Len(<<>>) /\ Len(line) <= 0 + Len(u)
        /\ Len(<<>>) <= 0 + Len(u) /\ 0 + Len(u) = Len(line)
    BY <1>1, <1>3, <1>4
  <2>2. \A i \in 1..0 : <<>>[i] = line[i]
    OBVIOUS
  <2>3. \A i \in 1..Len(u) :
          u[i] = IF 0 + i <= Len(<<>>) THEN <<>>[0 + i] ELSE "space"
    BY <1>1, <1>3, <1>4
  <2>4. Put(b, u) \in Screen /\ Shows(Put(b, u), origin, <<>>, 0 + Len(u))
    BY <1>1, <1>2, <1>3, <1>4, <2>1, <2>2, <2>3, Redrawn
  <2> QED  BY <2>1, <2>4
<1> HIDE DEF w
<1>6. c \in Screen /\ Shows(c, origin, <<>>, 0)
  <2>1. Len(line) <= Len(line) /\ Len(line) - Len(line) = 0
    BY <1>1
  <2>2. Back(w, Len(line)) \in Screen /\ Shows(Back(w, Len(line)), origin, <<>>,
                                             Len(line) - Len(line))
    BY <1>1, <1>4, <1>5, <2>1, Moved, Zenon
  <2> QED  BY <2>1, <2>2
<1> HIDE DEF c
<1>7. new \in Seq(Cell) /\ Len(new) \in Nat
  BY DEF Cell
<1>8. Put(c, new) \in Screen /\ Shows(Put(c, new), origin, new, Len(new))
  <2>1. /\ 0 <= Len(<<>>) /\ 0 <= Len(new) /\ Len(<<>>) <= 0 + Len(new)
        /\ Len(new) <= 0 + Len(new) /\ 0 + Len(new) = Len(new)
    BY <1>4, <1>7
  <2>2. \A i \in 1..0 : new[i] = <<>>[i]
    OBVIOUS
  <2>3. \A i \in 1..Len(new) :
          new[i] = IF 0 + i <= Len(new) THEN new[0 + i] ELSE "space"
    BY <1>7
  <2>4. Put(c, new) \in Screen /\ Shows(Put(c, new), origin, new, 0 + Len(new))
    BY <1>1, <1>4, <1>6, <1>7, <2>1, <2>2, <2>3, Redrawn
  <2> QED  BY <2>1, <2>4
<1> QED  BY <1>8 DEF c, w, u, b

\* The part before the cursor goes.
LEMMA KillLineKept ==
  ASSUME LineKept, RowKept, promptVisible, ~closed, KillLine
  PROVE  LineKept' /\ RowKept'
<1> DEFINE wiped == Put(Back(screen, cursor), Blanks(Len(line)))
           s == Put(Back(wiped, Len(line)), After)
<1>1. After \in Seq(Chars) /\ Len(After) \in Nat
  BY Parts
<1>2. /\ line' = After /\ cursor' = 0 /\ Draw(Back(s, Len(After)))
      /\ UNCHANGED historyVars /\ UNCHANGED loopVars
  BY DEF KillLine
<1>3. LineKept'
  <2>1. cursor' \in 0..Len(line')
    BY <1>1, <1>2
  <2> QED  BY <1>1, <1>2, <2>1, Edited
<1>4. ASSUME ~disturbed
      PROVE  s \in Screen /\ Shows(s, origin, After, Len(After))
  BY <1>1, <1>4, Rewritten
<1> HIDE DEF s
<1>5. ASSUME ~disturbed
      PROVE  Back(s, Len(After)) \in Screen /\ Shows(Back(s, Len(After)), origin, After, 0)
  <2>1. Len(After) <= Len(After) /\ Len(After) - Len(After) = 0 /\ origin \in Nat
    BY <1>1 DEF RowKept
  <2> QED  BY <1>1, <1>4, <1>5, <2>1, Moved
<1>6. RowKept'
  BY <1>2, <1>5, Drawn
<1> QED  BY <1>3, <1>6

\* Another line is taken from the history, or back from where it was kept.
LEMMA RecallKept ==
  ASSUME LineKept, RowKept, promptVisible, ~closed, Recall
  PROVE  LineKept' /\ RowKept'
<1>1. /\ line \in Seq(Chars) /\ history \in Seq(Seq(Chars)) /\ Len(history) \in Nat
      /\ historyIndex \in 0..Len(history) /\ savedLine \in Seq(Chars)
  BY DEF LineKept
<1> DEFINE places == {IF historyIndex < Len(history) THEN historyIndex + 1 ELSE historyIndex,
                      IF historyIndex > 0 THEN historyIndex - 1 ELSE 0}
           wiped == Put(Back(screen, cursor), Blanks(Len(line)))
           s == Put(Back(wiped, Len(line)), line')
<1>2. PICK index \in places :
        /\ index # historyIndex
        /\ historyIndex' = index
        /\ savedLine' = IF historyIndex = 0 THEN line ELSE savedLine
        /\ line' = IF index = 0 THEN savedLine ELSE history[index]
        /\ cursor' = Len(line')
        /\ Draw(s)
        /\ UNCHANGED <<history, loopVars, tabs>>
  BY DEF Recall
<1>3. index \in 0..Len(history)
  BY <1>1
<1>4. line' \in Seq(Chars) /\ savedLine' \in Seq(Chars)
  <2>1. CASE index = 0
    BY <1>1, <1>2, <2>1
  <2>2. CASE index # 0
    <3>1. history[index] \in Seq(Chars)
      BY <1>1, <1>3, <2>2
    <3> QED  BY <1>1, <1>2, <2>2, <3>1
  <2> QED  BY <2>1, <2>2
<1>5. LineKept'
  <2>1. Len(line') \in 0..Len(line')
    BY <1>4
  <2> QED  BY <1>1, <1>2, <1>3, <1>4, <2>1 DEF LineKept
<1>6. ~disturbed => s \in Screen /\ Shows(s, origin, line', cursor')
  BY <1>2, <1>4, Rewritten
<1> HIDE DEF s
<1>7. RowKept'
  BY <1>2, <1>6, Drawn
<1> QED  BY <1>5, <1>7

\* The line goes to the loop, and perhaps into the history.
LEMMA EnterKept ==
  ASSUME LineKept, RowKept, promptVisible, ~closed, Enter
  PROVE  LineKept' /\ RowKept'
<1>1. /\ line' = <<>> /\ cursor' = 0 /\ historyIndex' = 0 /\ savedLine' = <<>>
      /\ promptVisible' = FALSE /\ screen' = Row(<<>>) /\ origin' = 0
      /\ history' \in {history, <<line>> \o history}
  BY DEF Enter
<1>2. <<>> \in Seq(Chars) /\ Len(<<>>) = 0 /\ 0 \in Nat
  OBVIOUS
<1>3. history' \in Seq(Seq(Chars))
  <2>1. history \in Seq(Seq(Chars)) /\ line \in Seq(Chars)
    BY DEF LineKept
  <2>2. <<line>> \in Seq(Seq(Chars))
    BY <2>1
  <2>3. <<line>> \o history \in Seq(Seq(Chars))
    BY <2>1, <2>2, ConcatProperties
  <2> QED  BY <1>1, <2>1, <2>3
<1>4. LineKept'
  BY <1>1, <1>2, <1>3 DEF LineKept
<1>5. Row(<<>>) \in Screen
  BY <1>2 DEF Row, Screen
<1>6. RowKept'
  BY <1>1, <1>2, <1>5 DEF RowKept
<1> QED  BY <1>4, <1>6

\* A prompt on a row of its own, or after what a command has left there, with
\* nothing typed.
LEMMA PromptKept ==
  ASSUME NEW text \in {<<>>, <<"output">>}, showPrompt(text), line' = <<>>, cursor' = 0
  PROVE  RowKept'
<1>1. text \in Seq(Cell)
  <2>1. "output" \in Cell
    BY DEF Cell
  <2>2. <<>> \in Seq(Cell)
    OBVIOUS
  <2>3. <<"output">> \in Seq(Cell)
    BY <2>1
  <2> QED  BY <2>2, <2>3
<1> DEFINE s == Row(text \o <<"prompt">>)
<1>2. s \in Screen /\ Len(text) \in Nat /\ Shows(s, Len(text), <<>>, 0)
  BY <1>1, Prompted
<1>3. screen' = s /\ origin' = Len(text) /\ promptVisible' = TRUE
  BY DEF showPrompt
<1> HIDE DEF s
<1> QED  BY <1>2, <1>3 DEF RowKept

\* Ctrl-C.
LEMMA InterruptKept ==
  ASSUME LineKept, RowKept, promptVisible, ~closed, Interrupt
  PROVE  LineKept' /\ RowKept'
<1>1. /\ line' = <<>> /\ cursor' = 0 /\ showPrompt(<<>>) /\ UNCHANGED historyVars
  BY DEF Interrupt
<1>2. LineKept'
  <2>1. <<>> \in Seq(Chars) /\ 0 \in 0..Len(<<>>)
    OBVIOUS
  <2> QED  BY <1>1, <2>1, Edited
<1> QED  BY <1>1, <1>2, PromptKept

\* A key keeps the line and the row together.
LEMMA KeyKept ==
  ASSUME LineKept, RowKept, onData
  PROVE  LineKept' /\ RowKept'
<1>1. promptVisible /\ ~closed
  BY DEF onData
<1>2. CASE Tab
  <2>1. UNCHANGED <<editVars, historyVars, loopVars, screenVars>>
    BY <1>2 DEF Tab
  <2> QED  BY <2>1 DEF LineKept, RowKept, editVars, historyVars, loopVars, screenVars
<1>3. CASE \E c \in Chars : Insert(c)
  <2>1. PICK c \in Chars : Insert(c)
    BY <1>3
  <2> QED  BY <1>1, <2>1, InsertKept
<1> QED  BY <1>1, <1>2, <1>3, RecallKept, MoveKept, EnterKept, BackspaceKept,
            InterruptKept, KillLineKept DEF onData

\* A completion goes in at the cursor.
LEMMA CompletedLine ==
  ASSUME LineKept, NEW suffix \in {<<>>} \cup {<<c>> : c \in Chars},
         line' = Before \o suffix \o After, cursor' = cursor + Len(suffix)
  PROVE  /\ line' \in Seq(Chars) /\ cursor' \in 0..Len(line')
         /\ Len(line') = Len(line) + Len(suffix)
         /\ Len(line') - Len(After) = cursor' /\ Len(After) \in 0..Len(line')
         /\ suffix = <<>> => line' = line /\ cursor' = cursor
<1>1. /\ line \in Seq(Chars) /\ Len(line) \in Nat /\ cursor \in Nat /\ cursor <= Len(line)
      /\ After \in Seq(Chars) /\ Len(After) = Len(line) - cursor
  BY Parts DEF LineKept
<1>2. suffix \in Seq(Chars) /\ Len(suffix) \in Nat
  <2>1. CASE suffix = <<>>
    BY <2>1
  <2>2. CASE suffix # <<>>
    <3>1. PICK c \in Chars : suffix = <<c>>
      BY <2>2
    <3> QED  BY <3>1
  <2> QED  BY <2>1, <2>2
<1>3. line' \in Seq(Chars) /\ Replaced(line', line, cursor, suffix, cursor)
  <2>1. line' = SubSeq(line, 1, cursor) \o suffix \o SubSeq(line, cursor + 1, Len(line))
    BY DEF Before, After
  <2>2. cursor \in 0..Len(line)
    BY <1>1
  <2> QED  BY <1>1, <1>2, <2>1, <2>2, Spliced
<1>4. /\ Len(line') = cursor + Len(suffix)
                      + (IF cursor < Len(line) THEN Len(line) - cursor ELSE 0)
      /\ \A i \in 1..cursor : line'[i] = line[i]
      /\ \A i \in cursor + Len(suffix) + 1..Len(line') :
           line'[i] = line[i - cursor - Len(suffix) + cursor]
  BY <1>3 DEF Replaced
<1>5. Len(line') = Len(line) + Len(suffix)
  <2>1. \A x, y, z \in Nat : x <= y => x + z + (IF x < y THEN y - x ELSE 0) = y + z
    OBVIOUS
  <2> QED  BY <2>1, <1>1, <1>2, <1>4, Zenon
<1>6. cursor' \in 0..Len(line') /\ Len(After) \in 0..Len(line')
  BY <1>1, <1>2, <1>5
<1>7. Len(line') - Len(After) = cursor'
  <2>1. \A x, y, z \in Nat : (y + z) - (y - x) = x + z
    OBVIOUS
  <2>2. Len(line') - Len(After) = (Len(line) + Len(suffix)) - (Len(line) - cursor)
    BY <1>1, <1>5, Zenon
  <2>3. (Len(line) + Len(suffix)) - (Len(line) - cursor) = cursor + Len(suffix)
    BY <2>1, <1>1, <1>2, Zenon
  <2> QED  BY <2>2, <2>3
<1>8. ASSUME suffix = <<>>
      PROVE  line' = line /\ cursor' = cursor
  <2>1. Len(suffix) = 0
    BY <1>8
  <2>2. Len(line') = Len(line) /\ cursor' = cursor
    BY <1>1, <1>5, <2>1
  <2>3. ASSUME NEW i \in 1..Len(line)
        PROVE  line'[i] = line[i]
    <3>1. CASE i <= cursor
      BY <1>1, <1>4, <3>1
    <3>2. CASE i > cursor
      <4>1. /\ i \in cursor + Len(suffix) + 1..Len(line')
            /\ i - cursor - Len(suffix) + cursor = i
        BY <1>1, <2>1, <2>2, <3>2
      <4> QED  BY <1>4, <4>1
    <3>3. i \in Nat
      OBVIOUS
    <3>4. i <= cursor \/ i > cursor
      BY <3>3, <1>1
    <3> QED  BY <3>1, <3>2, <3>4
  <2>4. line' = line
    BY <1>1, <1>3, <2>2, <2>3, SeqEqual
  <2> QED  BY <2>2, <2>4
<1> QED  BY <1>3, <1>5, <1>6, <1>7, <1>8

\* The completer's answer, whenever it comes.
LEMMA CompleteKept ==
  ASSUME LineKept, RowKept, Complete
  PROVE  LineKept' /\ RowKept'
<1>1. UNCHANGED historyVars /\ UNCHANGED loopVars
  BY DEF Complete
<1>2. CASE UNCHANGED <<editVars, screenVars>>
  BY <1>1, <1>2 DEF LineKept, RowKept, editVars, historyVars, loopVars, screenVars
<1>3. ASSUME promptVisible, ~closed, NEW suffix \in {<<>>} \cup {<<c>> : c \in Chars},
             CompleteOne(suffix) \/ CompleteMany(suffix)
      PROVE  LineKept' /\ RowKept'
  <2>1. line' = Before \o suffix \o After /\ cursor' = cursor + Len(suffix)
    BY <1>3 DEF CompleteOne, CompleteMany
  <2>2. /\ line' \in Seq(Chars) /\ cursor' \in 0..Len(line')
        /\ Len(line') = Len(line) + Len(suffix)
        /\ Len(line') - Len(After) = cursor' /\ Len(After) \in 0..Len(line')
        /\ suffix = <<>> => line' = line /\ cursor' = cursor
    BY <1>3, <2>1, CompletedLine
  <2>3. LineKept'
    BY <1>1, <2>2, Edited
  <2>4. promptVisible' /\ ~closed'
    BY <1>1, <1>3 DEF loopVars
  <2>5. CASE CompleteMany(suffix)
    <3> DEFINE s == Back(Row(<<"prompt">> \o line'), Len(After))
    <3>1. screen' = s /\ origin' = 0
      BY <2>5 DEF CompleteMany
    <3>2. s \in Screen /\ Shows(s, 0, line', cursor')
      BY <2>2, Typed
    <3> HIDE DEF s
    <3> QED  BY <2>3, <2>4, <3>1, <3>2 DEF RowKept
  <2>6. CASE CompleteOne(suffix) /\ suffix = <<>>
    <3>1. UNCHANGED screenVars /\ line' = line /\ cursor' = cursor
      BY <2>2, <2>6 DEF CompleteOne
    <3> QED  BY <1>1, <2>3, <3>1 DEF RowKept, screenVars, loopVars
  <2>7. CASE CompleteOne(suffix) /\ suffix # <<>>
    <3>1. CASE disturbed'
      <4>1. screen' = Row(<<>>) /\ disturbed' = TRUE /\ origin' = origin
        BY <2>7, <3>1 DEF CompleteOne
      <4>2. Row(<<>>) \in Screen
        BY DEF Row, Screen
      <4> QED  BY <2>3, <2>4, <4>1, <4>2 DEF RowKept
    <3>2. CASE ~disturbed'
      <4> DEFINE s == Back(Put(Back(screen, screen.col), <<"prompt">> \o line'), Len(After))
      <4>1. screen' = s /\ origin' = origin /\ ~disturbed /\ ~(origin > 0)
        BY <2>7, <3>2 DEF CompleteOne
      <4>2. screen \in Screen /\ origin = 0 /\ Shows(screen, 0, line, cursor)
        BY <1>3, <4>1 DEF RowKept
      <4>3. line \in Seq(Chars) /\ cursor \in 0..Len(line) /\ Len(line) <= Len(line')
        <5>1. Len(suffix) \in Nat
          BY <2>7
        <5>2. line \in Seq(Chars) /\ cursor \in 0..Len(line)
          BY DEF LineKept
        <5>3. Len(line) \in Nat
          BY <5>2
        <5> QED  BY <2>2, <5>1, <5>2, <5>3
      <4>4. s \in Screen /\ Shows(s, 0, line', cursor')
        <5>1. s \in Screen /\ Shows(s, 0, line', Len(line') - Len(After))
          BY <2>2, <4>2, <4>3, DrawnAgain
        <5> HIDE DEF s
        <5> QED  BY <2>2, <5>1
      <4> HIDE DEF s
      <4> QED  BY <2>3, <2>4, <4>1, <4>2, <4>4 DEF RowKept
    <3> QED  BY <3>1, <3>2
  <2> QED  BY <1>3, <2>5, <2>6, <2>7
<1> QED  BY <1>2, <1>3 DEF Complete

\* The loop prompts again: the line is empty, since there was no prompt.
LEMMA LoopKept ==
  ASSUME IInv, NEW text \in {<<>>, <<"output">>}, loop # "waiting", PromptAndNext(text)
  PROVE  LineKept' /\ RowKept'
<1>1. UNCHANGED editVars /\ UNCHANGED historyVars /\ closed' = closed
  BY DEF PromptAndNext
<1>2. LineKept'
  BY <1>1 DEF IInv, LineKept, editVars, historyVars
<1>3. CASE closed
  <2>1. UNCHANGED promptVisible /\ UNCHANGED screenVars
    BY <1>3 DEF PromptAndNext
  <2> QED  BY <1>1, <1>2, <1>3, <2>1 DEF IInv, RowKept, editVars, screenVars
<1>4. CASE ~closed
  <2>1. ~promptVisible
    BY <1>4 DEF IInv, NeverStuck
  <2>2. line = <<>> /\ cursor \in 0..Len(line)
    BY <2>1 DEF IInv, LineKept, RowKept
  <2>3. line' = <<>> /\ cursor' = 0
    BY <1>1, <2>2 DEF editVars
  <2>4. showPrompt(text)
    BY <1>4 DEF PromptAndNext
  <2> QED  BY <1>2, <2>3, <2>4, PromptKept
<1> QED  BY <1>3, <1>4

\* An empty line behind the first prompt.
LEMMA InitKept == Init => IInv
<1> SUFFICES ASSUME Init
             PROVE  IInv
  OBVIOUS
<1>1. <<>> \in Seq(Chars) /\ <<>> \in Seq(Seq(Chars)) /\ <<>> \in Seq(Cell) /\ Len(<<>>) = 0
  OBVIOUS
<1>2. LineKept
  BY <1>1 DEF Init, LineKept
<1>3. RowKept
  <2>1. <<>> \o <<"prompt">> = <<"prompt">>
    OBVIOUS
  <2>2. /\ Row(<<"prompt">>) \in Screen
        /\ Shows(Row(<<"prompt">>), 0, <<>>, 0)
    BY <1>1, <2>1, Prompted
  <2>3. /\ screen = Row(<<"prompt">>) /\ origin = 0 /\ line = <<>> /\ cursor = 0
    BY DEF Init
  <2> QED  BY <2>2, <2>3 DEF RowKept
<1> QED  BY <1>2, <1>3, InitStuck DEF IInv

\* Every step keeps the invariant.
LEMMA NextKept ==
  ASSUME IInv, [Next]_vars
  PROVE  IInv'
<1>1. LineKept /\ RowKept
  BY DEF IInv
<1>2. NeverStuck'
  BY NextStuck DEF IInv
<1>3. CASE onData
  BY <1>1, <1>2, <1>3, KeyKept DEF IInv
<1>4. CASE close
  <2>1. /\ UNCHANGED editVars /\ UNCHANGED historyVars /\ UNCHANGED promptVisible
        /\ UNCHANGED screenVars /\ closed' = TRUE
    BY <1>4 DEF close
  <2> QED  BY <1>1, <1>2, <2>1
           DEF IInv, LineKept, RowKept, editVars, historyVars, screenVars
<1>5. CASE Complete
  BY <1>1, <1>2, <1>5, CompleteKept DEF IInv
<1>6. CASE BlankLine
  <2>1. loop # "waiting" /\ PromptAndNext(<<>>)
    BY <1>6 DEF BlankLine
  <2> QED  BY <1>2, <2>1, LoopKept DEF IInv
<1>7. CASE CommandEnds
  <2>1. PICK text \in {<<>>, <<"output">>} : PromptAndNext(text)
    BY <1>7 DEF CommandEnds
  <2>2. loop # "waiting"
    BY <1>7 DEF CommandEnds
  <2> QED  BY <1>2, <2>1, <2>2, LoopKept DEF IInv
<1>8. CASE Notice
  <2>1. /\ UNCHANGED editVars /\ UNCHANGED historyVars /\ UNCHANGED loopVars
        /\ screen' = Row(<<>>) /\ disturbed' = TRUE /\ UNCHANGED origin
    BY <1>8 DEF Notice
  <2>2. Row(<<>>) \in Screen
    BY DEF Row, Screen
  <2> QED  BY <1>1, <1>2, <2>1, <2>2
           DEF IInv, LineKept, RowKept, editVars, historyVars, loopVars
<1>9. CASE UNCHANGED vars
  BY <1>1, <1>2, <1>9
     DEF IInv, LineKept, RowKept, vars, editVars, historyVars, loopVars, screenVars
<1> QED  BY <1>3, <1>4, <1>5, <1>6, <1>7, <1>8, <1>9 DEF Next

\* A row that shows a line cell by cell is the prompt, the line and blanks.
LEMMA RowIsText ==
  ASSUME LineKept, screen \in Screen, origin \in Nat, Shows(screen, origin, line, cursor)
  PROVE  LET row == SubSeq(screen.cells, origin + 1, Len(screen.cells))
             text == <<"prompt">> \o line IN
         row = text \o Blanks(Len(row) - Len(text))
<1> DEFINE row == SubSeq(screen.cells, origin + 1, Len(screen.cells))
           text == <<"prompt">> \o line
           rest == Blanks(Len(row) - Len(text))
           size == Len(screen.cells)
<1>1. /\ line \in Seq(Chars) /\ Len(line) \in Nat /\ screen.cells \in Seq(Cell)
      /\ origin \in Nat
  BY DEF LineKept, Screen
<1>2. size \in Nat /\ \A i \in 1..size : screen.cells[i] \in Cell
  BY <1>1
<1>3. /\ origin + 1 + Len(line) <= size
      /\ screen.cells[origin + 1] = "prompt"
      /\ \A k \in 1..Len(line) : screen.cells[origin + 1 + k] = line[k]
      /\ \A k \in origin + Len(line) + 2..size : screen.cells[k] = "space"
  BY DEF Shows
<1>4. /\ text \in Seq(Cell) /\ Len(text) = Len(line) + 1
      /\ text[1] = "prompt" /\ \A k \in 1..Len(line) : text[1 + k] = line[k]
  BY <1>1, PromptAndText
<1>5. /\ row \in Seq(Cell) /\ Len(row) = size - origin
      /\ \A i \in 1..size - origin : row[i] = screen.cells[origin + i]
  <2>1. /\ origin + 1 \in Int /\ size \in Int
        /\ \A i \in origin + 1..size : screen.cells[i] \in Cell
    BY <1>1, <1>2
  <2>2. /\ row \in Seq(Cell)
        /\ Len(row) = IF origin + 1 <= size THEN size - (origin + 1) + 1 ELSE 0
        /\ \A i \in 1..size - (origin + 1) + 1 : row[i] = screen.cells[origin + 1 + i - 1]
    BY <2>1, SubSeqProperties
  <2> HIDE DEF row, size
  <2>3. size - (origin + 1) + 1 = size - origin /\ origin + 1 <= size
    BY <1>1, <1>2, <1>3
  <2>4. Len(row) = size - origin
    BY <2>2, <2>3
  <2>5. ASSUME NEW i \in 1..size - origin
        PROVE  row[i] = screen.cells[origin + i]
    <3>1. row[i] = screen.cells[origin + 1 + i - 1]
      BY <2>2, <2>3
    <3>2. origin + 1 + i - 1 = origin + i
      BY <1>1, <1>2
    <3> QED  BY <3>1, <3>2
  <2> QED  BY <2>2, <2>4, <2>5
<1> HIDE DEF row, text, size
<1> DEFINE n == Len(row) - Len(text)
<1>6. n \in Nat /\ Len(text) + n = Len(row) /\ Len(text) \in Nat
  BY <1>1, <1>2, <1>3, <1>4, <1>5
<1>7. rest = [i \in 1..n |-> "space"]
  BY DEF Blanks
<1> HIDE DEF n, rest
<1>8. rest \in Seq(Cell) /\ Len(rest) = n /\ \A i \in 1..n : rest[i] = "space"
  <2>1. "space" \in Cell
    BY DEF Cell
  <2> QED  BY <2>1, <1>6, <1>7
<1> DEFINE whole == text \o rest
<1>9. /\ whole \in Seq(Cell)
      /\ Len(whole) = Len(text) + Len(rest)
      /\ \A i \in 1..Len(text) + Len(rest) :
           whole[i] = IF i <= Len(text) THEN text[i] ELSE rest[i - Len(text)]
  <2>1. text \in Seq(Cell) /\ rest \in Seq(Cell)
    BY <1>4, <1>8
  <2> QED  BY <2>1, ConcatProperties
<1> HIDE DEF whole
<1>10. Len(whole) = Len(row)
  BY <1>6, <1>8, <1>9
<1>11. ASSUME NEW i \in 1..Len(row)
       PROVE  row[i] = whole[i]
  <2>1. row[i] = screen.cells[origin + i]
    BY <1>5
  <2>2. i \in 1..Len(text) + Len(rest)
    BY <1>6, <1>8
  <2>3. CASE i = 1
    <3>1. whole[1] = text[1]
      BY <1>1, <1>4, <1>9, <2>2, <2>3
    <3> QED  BY <3>1, <1>3, <1>4, <2>1, <2>3
  <2>4. CASE i # 1 /\ i <= Len(text)
    <3>1. i - 1 \in 1..Len(line) /\ 1 + (i - 1) = i /\ origin + 1 + (i - 1) = origin + i
      BY <1>1, <1>4, <2>4
    <3>2. whole[i] = text[i]
      BY <1>9, <2>2, <2>4
    <3>3. text[1 + (i - 1)] = line[i - 1]
      BY <1>4, <3>1
    <3>4. screen.cells[origin + 1 + (i - 1)] = line[i - 1]
      BY <1>3, <3>1
    <3> QED  BY <2>1, <3>1, <3>2, <3>3, <3>4
  <2>5. CASE ~(i <= Len(text))
    <3>1. i - Len(text) \in 1..n
      BY <1>6, <1>8, <2>2, <2>5
    <3>2. whole[i] = rest[i - Len(text)]
      BY <1>9, <2>2, <2>5
    <3>3. rest[i - Len(text)] = "space"
      BY <1>8, <3>1
    <3>4. origin + i \in origin + Len(line) + 2..size
      BY <1>1, <1>2, <1>4, <1>5, <1>6, <2>5
    <3> QED  BY <1>3, <2>1, <3>2, <3>3, <3>4
  <2> QED  BY <2>3, <2>4, <2>5
<1>12. row = whole
  BY <1>5, <1>9, <1>10, <1>11, SeqEqual
<1> QED  BY <1>12 DEF whole, rest, row, text

\* The row shows the prompt and the line and nothing else, with the cursor where
\* the line has it, for any width of the terminal, any keys, late completions and
\* commands: while what is written fits the row, and until others write on it.
THEOREM ShowsTheLine == Spec => []ScreenShows
<1>1. IInv => ScreenShows
  <2> SUFFICES ASSUME IInv, promptVisible, ~closed, ~disturbed
               PROVE  LET row == SubSeq(screen.cells, origin + 1, Len(screen.cells))
                          text == <<"prompt">> \o line IN
                      /\ screen.col = origin + 1 + cursor
                      /\ row = text \o Blanks(Len(row) - Len(text))
    BY DEF ScreenShows
  <2>1. /\ LineKept /\ screen \in Screen /\ origin \in Nat
        /\ Shows(screen, origin, line, cursor)
    BY DEF IInv, RowKept
  <2>2. screen.col = origin + 1 + cursor
    BY <2>1 DEF Shows
  <2> QED  BY <2>1, <2>2, RowIsText
<1> QED  BY <1>1, InitKept, NextKept, PTL DEF Spec

=============================================================================
