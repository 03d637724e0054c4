----------------------------- MODULE WebReadline -----------------------------
(***************************************************************************)
(* The line editor of the web terminal (createReadlineInterface of         *)
(* src/src/cli/web.ts), with the command loop that reads from it           *)
(* (src/src/cli/index.ts) and the row of the screen it draws on.           *)
(*                                                                         *)
(* Every key, every answer of the completer and every output of the        *)
(* program is a step of its own.  Keys that find no prompt are dropped.    *)
(***************************************************************************)
EXTENDS Naturals, Sequences, SequencesExt

CONSTANTS
  Chars,      \* printable characters
  Columns,    \* width of the terminal
  MaxLine,    \* bound on the length of a line
  MaxHistory, \* bound on the history
  MaxTabs     \* bound on the completions asked for at once

\* A cell of the screen that holds no character of a line is the prompt's
\* sign, a space, or output.
ASSUME ReadlineAssumption ==
  /\ Chars \cap {"prompt", "space", "output"} = {}
  /\ {Columns, MaxLine, MaxHistory, MaxTabs} \subseteq Nat

VARIABLES
  line, cursor,
  history, historyIndex, savedLine,  \* the index counts from 1; 0 is no entry
  promptVisible, closed,
  lineResolve,  \* the loop waits for a line
  loop,         \* what it does with the last: "blank", "busy", "waiting", "over"
  tabs,         \* completions asked for and not answered
  screen,       \* the row of the cursor: its cells, and the column
  origin,       \* the column at which the prompt was written
  disturbed     \* history: the row was drawn on by others, or was too short

editVars == <<line, cursor>>
historyVars == <<history, historyIndex, savedLine>>
loopVars == <<promptVisible, closed, lineResolve, loop>>
screenVars == <<screen, origin, disturbed>>
vars == <<editVars, historyVars, loopVars, tabs, screenVars>>

-----------------------------------------------------------------------------
(* What the terminal does with what is written (external: xterm.js).       *)

Put(s, text) ==
  [cells |-> SubSeq(s.cells, 1, s.col) \o text
             \o SubSeq(s.cells, s.col + Len(text) + 1, Len(s.cells)),
   col |-> s.col + Len(text)]
Back(s, n) == [s EXCEPT !.col = IF n > @ THEN 0 ELSE @ - n]
Forth(s, n) == [s EXCEPT !.col = @ + n]
Row(text) == [cells |-> text, col |-> Len(text)]
Blanks(n) == [i \in 1..n |-> "space"]

\* Text that reaches the last column goes on in the next row, and neither \b nor
\* the moves of the cursor go back from there.
Wraps(s) == Len(s.cells) >= Columns

\* Once others have drawn on the row, or it was too short for what was written,
\* it is not followed any more.
Draw(s) ==
  /\ disturbed' = (disturbed \/ Wraps(s))
  /\ screen' = IF disturbed' THEN screen ELSE s
  /\ UNCHANGED origin

\* The prompt, after text that is on the row.
showPrompt(text) ==
  /\ promptVisible' = TRUE
  /\ screen' = Row(text \o <<"prompt">>) /\ origin' = Len(text)
  /\ disturbed' = Wraps(screen')

Init ==
  /\ line = <<>> /\ cursor = 0
  /\ history = <<>> /\ historyIndex = 0 /\ savedLine = <<>>
  /\ promptVisible = TRUE /\ closed = FALSE /\ lineResolve = TRUE /\ loop = "waiting"
  /\ tabs = 0
  /\ screen = Row(<<"prompt">>) /\ origin = 0 /\ disturbed = Wraps(screen)

Before == SubSeq(line, 1, cursor)
After == SubSeq(line, cursor + 1, Len(line))

-----------------------------------------------------------------------------
(* Mutants: one plausible slip each.  They are not part of the             *)
(* specification.                                                          *)

\* The cell that the line no longer needs is not wiped.
BackspaceKeepsCell ==
  /\ cursor > 0
  /\ line' = SubSeq(line, 1, cursor - 1) \o After
  /\ cursor' = cursor - 1
  /\ Draw(Back(Put(Back(screen, 1), After), Len(After)))
  /\ UNCHANGED <<historyVars, loopVars, tabs>>

\* A blank line is skipped without a new prompt.
BlankLineSkipped ==
  /\ loop = "blank"
  /\ lineResolve' = ~closed /\ loop' = IF closed THEN "over" ELSE "waiting"
  /\ UNCHANGED <<editVars, historyVars, promptVisible, closed, tabs, screenVars>>

-----------------------------------------------------------------------------
(* Keys.                                                                   *)

\* Up and Down.
Recall ==
  \E index \in {IF historyIndex < Len(history) THEN historyIndex + 1 ELSE historyIndex,
                IF historyIndex > 0 THEN historyIndex - 1 ELSE 0} :
    /\ index # historyIndex
    /\ historyIndex' = index
    /\ savedLine' = IF historyIndex = 0 THEN line ELSE savedLine
    /\ line' = IF index = 0 THEN savedLine ELSE history[index]
    /\ cursor' = Len(line')
    /\ LET wiped == Put(Back(screen, cursor), Blanks(Len(line))) IN
       Draw(Put(Back(wiped, Len(line)), line'))
    /\ UNCHANGED <<history, loopVars, tabs>>

MoveTo(column, s) ==
  /\ cursor' = column /\ Draw(s)
  /\ UNCHANGED <<line, historyVars, loopVars, tabs>>

\* Left and Right, Home and End.
Move ==
  \/ cursor > 0 /\ MoveTo(cursor - 1, Back(screen, 1))
  \/ cursor < Len(line) /\ MoveTo(cursor + 1, Forth(screen, 1))
  \/ cursor > 0 /\ MoveTo(0, Back(screen, cursor))
  \/ cursor < Len(line) /\ MoveTo(Len(line), Forth(screen, Len(line) - cursor))

\* The line goes to the loop, which waits for it, and into the history unless
\* it is blank or was entered last.
Enter ==
  /\ LET known == line = <<>> \/ (history # <<>> /\ Head(history) = line) IN
     /\ known \/ Len(history) < MaxHistory
     /\ history' = IF known THEN history ELSE <<line>> \o history
  /\ historyIndex' = 0 /\ savedLine' = <<>>
  /\ line' = <<>> /\ cursor' = 0
  /\ promptVisible' = FALSE /\ lineResolve' = FALSE
  /\ loop' = IF line = <<>> THEN "blank" ELSE "busy"
  /\ screen' = Row(<<>>) /\ origin' = 0 /\ disturbed' = FALSE
  /\ UNCHANGED <<closed, tabs>>

Backspace ==
  /\ cursor > 0
  /\ line' = SubSeq(line, 1, cursor - 1) \o After
  /\ cursor' = cursor - 1
  /\ Draw(Back(Put(Back(screen, 1), Append(After, "space")), Len(After) + 1))
  /\ UNCHANGED <<historyVars, loopVars, tabs>>

\* Ctrl-C: the line is gone, the place in the history is not; the listener of
\* the loop prompts again.
Interrupt ==
  /\ line' = <<>> /\ cursor' = 0
  /\ showPrompt(<<>>)
  /\ UNCHANGED <<historyVars, closed, lineResolve, loop, tabs>>

\* Ctrl-U.
KillLine ==
  /\ cursor > 0
  /\ line' = After /\ cursor' = 0
  /\ LET wiped == Put(Back(screen, cursor), Blanks(Len(line))) IN
     Draw(Back(Put(Back(wiped, Len(line)), After), Len(After)))
  /\ UNCHANGED <<historyVars, loopVars, tabs>>

Insert(c) ==
  /\ Len(line) < MaxLine
  /\ line' = Before \o <<c>> \o After
  /\ cursor' = cursor + 1
  /\ Draw(Back(Put(screen, <<c>> \o After), Len(After)))
  /\ UNCHANGED <<historyVars, loopVars, tabs>>

Tab ==
  /\ tabs < MaxTabs
  /\ tabs' = tabs + 1
  /\ UNCHANGED <<editVars, historyVars, loopVars, screenVars>>

\* rl.close: by Ctrl-D, by a command, or by whoever gives up reconnecting.
close ==
  /\ ~closed
  /\ closed' = TRUE
  /\ lineResolve' = FALSE
  /\ loop' = IF lineResolve THEN "over" ELSE loop
  /\ UNCHANGED <<editVars, historyVars, promptVisible, tabs, screenVars>>

onData ==
  /\ ~closed /\ promptVisible
  /\ \/ Recall \/ Move \/ Enter \/ Backspace \/ Interrupt \/ KillLine \/ Tab
     \/ \E c \in Chars : Insert(c)

-----------------------------------------------------------------------------
(* The completer answers: for the line as it was, into the line as it is.  *)

\* The row is drawn again from its first column, which is not the prompt's when
\* output stands before it.
CompleteOne(suffix) ==
  /\ line' = Before \o suffix \o After
  /\ cursor' = cursor + Len(suffix)
  /\ IF suffix = <<>> THEN UNCHANGED screenVars
     ELSE LET drawn == Put(Back(screen, screen.col), <<"prompt">> \o line') IN
          /\ disturbed' = (disturbed \/ origin > 0 \/ Wraps(drawn))
          /\ screen' = IF disturbed' THEN Row(<<>>) ELSE Back(drawn, Len(After))
          /\ UNCHANGED origin

\* Several completions are listed, and the prompt follows.
CompleteMany(suffix) ==
  /\ line' = Before \o suffix \o After
  /\ cursor' = cursor + Len(suffix)
  /\ screen' = Back(Row(<<"prompt">> \o line'), Len(After))
  /\ origin' = 0 /\ disturbed' = Wraps(screen')

Complete ==
  /\ tabs > 0
  /\ tabs' = tabs - 1
  /\ \/ UNCHANGED <<editVars, screenVars>>
     \/ /\ ~closed /\ promptVisible
        /\ \E suffix \in {<<>>} \cup {<<c>> : c \in Chars} :
             /\ Len(line) + Len(suffix) <= MaxLine
             /\ CompleteOne(suffix) \/ CompleteMany(suffix)
  /\ UNCHANGED <<historyVars, loopVars>>

-----------------------------------------------------------------------------
(* The loop and the rest of the program.                                   *)

\* prompt() and next(), one after the other; text is what the command has left
\* on the row.
PromptAndNext(text) ==
  /\ IF closed THEN UNCHANGED <<promptVisible, screenVars>> ELSE showPrompt(text)
  /\ lineResolve' = ~closed
  /\ loop' = IF closed THEN "over" ELSE "waiting"
  /\ UNCHANGED <<editVars, historyVars, closed, tabs>>

BlankLine == loop = "blank" /\ PromptAndNext(<<>>)

CommandEnds ==
  loop = "busy" /\ \E text \in {<<>>, <<"output">>} : PromptAndNext(text)

\* Lines about a lost connection, while a prompt is shown.
Notice ==
  /\ promptVisible /\ ~closed
  /\ screen' = Row(<<>>) /\ disturbed' = TRUE
  /\ UNCHANGED <<editVars, historyVars, loopVars, tabs, origin>>

Next ==
  onData \/ close \/ Complete \/ BlankLine \/ CommandEnds \/ Notice

Spec == Init /\ [][Next]_vars

-----------------------------------------------------------------------------

\* The row shows the prompt and the line, nothing else after it, and the cursor
\* where the line has it, whatever keys were used and whenever completions
\* arrived: until what is written on the row reaches its last column, a notice is
\* written over it, or a completion is drawn on a row on which output precedes
\* the prompt.
ScreenShows ==
  promptVisible /\ ~closed /\ ~disturbed =>
    LET row == SubSeq(screen.cells, origin + 1, Len(screen.cells))
        text == <<"prompt">> \o line IN
    /\ screen.col = origin + 1 + cursor
    /\ row = text \o Blanks(Len(row) - Len(text))

\* The user and the loop never wait for each other: keys are taken exactly when
\* the loop waits for a line, and once closed it waits for nothing.
NeverStuck ==
  /\ lineResolve <=> promptVisible /\ ~closed
  /\ lineResolve <=> loop = "waiting"

=============================================================================
