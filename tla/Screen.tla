-------------------------------- MODULE Screen --------------------------------
(***************************************************************************)
(* The text screen: printk's console of kernel/src/initial_printk.c, which *)
(* has it while the kernel boots, and the terminal module's monitor.c,     *)
(* which clears it and has it afterwards.  Each has its own cursor.        *)
(*                                                                         *)
(* What the screen should show is kept beside it as paper: every row that  *)
(* was ever begun, of which the screen is the end.                         *)
(***************************************************************************)
EXTENDS Integers, SequencesExt

CONSTANTS
  Width, Height,
  Tab,        \* STEWIEOS_TAB_WIDTH, and the five blanks of monitor_tab
  Printable,  \* the characters that are printed
  MaxPuts     \* bound: characters put

ScreenAssumption ==
  /\ Width \in Nat \ {0} /\ Height \in Nat \ {0, 1} /\ Tab \in Nat \ {0}
  /\ MaxPuts \in Nat

Columns == 0 .. Width - 1
Rows == 0 .. Height - 1
Blank == " "
Controls == {"newline", "return", "tab", "backspace"}

VARIABLES
  owner,   \* whose screen it is: "printk", "serial" (nobody's) or "vtty"
  screen,  \* its cells, row by row
  cx, cy,  \* the owner's cursor
  paper, puts

vars == <<owner, screen, cx, cy, paper, puts>>

EmptyRow == [x \in Columns |-> Blank]
EmptyScreen == [y \in Rows |-> EmptyRow]

Init ==
  /\ owner = "printk" /\ screen = EmptyScreen /\ cx = 0 /\ cy = 0
  /\ paper = [i \in 1 .. Height |-> EmptyRow] /\ puts = 0

-----------------------------------------------------------------------------
(* Where a driver stands: its screen and its cursor. *)
State(s, x, y) == [screen |-> s, cx |-> x, cy |-> y]

(* scroll_screen(1) and monitor_scroll. *)
Scrolled(s) == [y \in Rows |-> IF y = Height - 1 THEN EmptyRow ELSE s[y + 1]]

(* The next row, of which there is always one. *)
NextRow(st) ==
  IF st.cy + 1 = Height
  THEN State(Scrolled(st.screen), 0, st.cy)
  ELSE State(st.screen, 0, st.cy + 1)

WriteAt(st, c) == [st EXCEPT !.screen[st.cy][st.cx] = c]

-----------------------------------------------------------------------------
(* initial_vga_put_char.  After any character a cursor that stands behind   *)
(* the last column goes to the next row.                                    *)
Wrapped(st) == IF st.cx = Width THEN NextRow(st) ELSE st

initial_vga_put_char(st, c) ==
  Wrapped(
    CASE c = "return"  -> [st EXCEPT !.cx = 0]
      [] c = "newline" -> NextRow(st)
      [] c = "backspace" /\ st.cx = 0 /\ st.cy = 0 -> st
      [] c = "backspace" /\ st.cx = 0 /\ st.cy # 0 ->
           State(st.screen, Width - 1, st.cy - 1)
      [] c = "backspace" /\ st.cx # 0 ->
           WriteAt([st EXCEPT !.cx = @ - 1], Blank)
      [] c = "tab" ->
           [st EXCEPT !.cx = IF Width - @ < Tab THEN Width ELSE @ + Tab]
      [] OTHER -> [WriteAt(st, c) EXCEPT !.cx = @ + 1])

(* monitor_putchar. *)
monitor_advance(st) ==
  IF st.cx + 1 >= Width THEN NextRow(st) ELSE [st EXCEPT !.cx = @ + 1]

monitor_retreat(st) ==
  IF st.cx > 0 THEN [st EXCEPT !.cx = @ - 1]
  ELSE IF st.cy = 0 THEN st
  ELSE State(st.screen, Width - 1, st.cy - 1)

monitor_tab(st) ==
  LET after[n \in 0 .. Tab] ==
        IF n = 0 THEN st ELSE monitor_advance(WriteAt(after[n - 1], Blank))
  IN after[Tab]

monitor_putchar(st, c) ==
  CASE c = "newline"   -> NextRow(st)
    [] c = "return"    -> [st EXCEPT !.cx = 0]
    [] c = "tab"       -> monitor_tab(st)
    [] c = "backspace" -> WriteAt(monitor_retreat(st), Blank)
    [] OTHER           -> monitor_advance(WriteAt(st, c))

-----------------------------------------------------------------------------
(* The same on paper: rows begin when they are needed, and nothing scrolls. *)
PaperRow(n) == Len(paper) - Height + n     \* the paper's row of screen row n - 1

Paper(p, x, row) == [paper |-> p, cx |-> x, row |-> row]

PaperNext(p) ==
  Paper(IF p.row = Len(p.paper) THEN Append(p.paper, EmptyRow) ELSE p.paper,
        0, p.row + 1)

PaperWrite(p, c) == [p EXCEPT !.paper[p.row][p.cx] = c]

PaperAdvance(p) == IF p.cx = Width - 1 THEN PaperNext(p) ELSE [p EXCEPT !.cx = @ + 1]

PaperBack(p) ==
  IF p.cx > 0 THEN [p EXCEPT !.cx = @ - 1]
  ELSE IF p.row = Len(p.paper) - Height + 1 THEN p
  ELSE Paper(p.paper, Width - 1, p.row - 1)

PaperTab(p, blank) ==
  LET after[n \in 0 .. Tab] ==
        IF n = 0 \/ (~ blank /\ n > 1 /\ after[n - 1].row # p.row)
        THEN (IF n = 0 THEN p ELSE after[n - 1])
        ELSE PaperAdvance(IF blank THEN PaperWrite(after[n - 1], Blank) ELSE after[n - 1])
  IN after[Tab]

(* The boot console steps over cells in a tab, stops it at the end of the   *)
(* row, and erases nothing when it steps back over a row's end.             *)
OnPaper(p, c) ==
  CASE c = "newline"   -> PaperNext(p)
    [] c = "return"    -> [p EXCEPT !.cx = 0]
    [] c = "tab"       -> PaperTab(p, owner = "vtty")
    [] c = "backspace" ->
         IF owner = "printk" /\ p.cx = 0 THEN PaperBack(p)
         ELSE PaperWrite(PaperBack(p), Blank)
    [] OTHER           -> PaperAdvance(PaperWrite(p, c))

Put(c) ==
  LET st  == State(screen, cx, cy)
      new == IF owner = "printk" THEN initial_vga_put_char(st, c)
             ELSE monitor_putchar(st, c)
  IN /\ owner # "serial" /\ puts < MaxPuts
     /\ screen' = new.screen /\ cx' = new.cx /\ cy' = new.cy
     /\ paper' = OnPaper(Paper(paper, cx, PaperRow(cy + 1)), c).paper
     /\ puts' = puts + 1
     /\ UNCHANGED owner

switch_printk_to_serial ==
  /\ owner = "printk"
  /\ owner' = "serial"
  /\ UNCHANGED <<screen, cx, cy, paper, puts>>

(* monitor_init: a clear screen, and the cursor in its corner. *)
monitor_init ==
  /\ owner = "serial"
  /\ owner' = "vtty"
  /\ screen' = EmptyScreen /\ cx' = 0 /\ cy' = 0
  /\ paper' = [i \in 1 .. Height |-> EmptyRow]
  /\ UNCHANGED puts

Next ==
  \/ \E c \in Printable \cup Controls : Put(c)
  \/ switch_printk_to_serial
  \/ monitor_init

Spec == Init /\ [][Next]_vars

-----------------------------------------------------------------------------
TypeOK ==
  /\ owner \in {"printk", "serial", "vtty"}
  /\ screen \in [Rows -> [Columns -> Printable \cup {Blank}]]
  /\ cx \in Int /\ cy \in Int /\ puts \in 0 .. MaxPuts

(* The screen shows the end of everything that was printed: scrolling loses *)
(* the oldest row and nothing else, whatever mix of tabs, wraps, newlines   *)
(* and backspaces led there.                                                *)
ScreenIsEndOfPaper == \A y \in Rows : screen[y] = paper[PaperRow(y + 1)]
=============================================================================
