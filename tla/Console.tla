------------------------------ MODULE Console -------------------------------
(***************************************************************************)
(* The text console: the VGA display (drivers/tty/vga_tty.c), a ring of    *)
(* rows that is copied to the next frame of the video memory before the    *)
(* adapter is switched to that frame, and the keyboard decoder             *)
(* (devices/scancodes.c, devices/keyboard.c).  The text that was written   *)
(* is kept beside them, as rows of a paper that never ends.                *)
(***************************************************************************)
EXTENDS Integers, Sequences, FiniteSets

CONSTANTS
    X_MAX, Y_MAX,       \* columns and rows
    VRAM_FRAME_NUM,     \* frames of the video memory
    BackAnywhere,       \* whether a backspace may come where there is nothing to go back to
    MaxChars,           \* bound on the characters written
    ModifierKeys,       \* the modifier keys of the keyboard
    MaxKeys             \* bound on the key events

ASSUME ConsoleAssumption ==
    X_MAX \in Nat \ {0} /\ Y_MAX \in Nat \ {0} /\ VRAM_FRAME_NUM \in Nat \ {0} /\ BackAnywhere \in BOOLEAN

VARIABLES
    tty,        \* [buffer, cur_pos, scrolling, frame_no]
    vga,        \* the adapter: [vram, start, cursor]
    writing,    \* whether a call of tty_write is under way
    chars,      \* characters written
    paper,      \* [rows, row, col, scrolled]: the text, the place of the next character
    kbd,        \* scancodes.c: the modifiers in status
    down,       \* the keys that are held down
    typed       \* [char, upper, keys]: the last character, how many key events

ttyVars == <<tty, vga, writing, chars, paper>>
kbdVars == <<kbd, down, typed>>
consoleVars == <<ttyVars, kbdVars>>

VRAM_SIZEW == X_MAX * Y_MAX
Blank == " "
BlankRow == [c \in 0 .. X_MAX - 1 |-> Blank]

(***************************************************************************)
(* The display.  d is the driver and the adapter: [t, v].                  *)
(***************************************************************************)
update_frame(t) == [t EXCEPT !.frame_no = (@ + 1) % VRAM_FRAME_NUM]

RefreshFromCursor(t) == t.cur_pos
StartOfs(t) == (1 + t.cur_pos \div X_MAX) * X_MAX
(* The frame as refresh_vram copies the buffer: in two parts once the text *)
(* scrolls, so that the row being written is the last.                     *)
refresh_vram(t) ==
    LET ofs == IF t.scrolling THEN StartOfs(t) ELSE 0
    IN  [i \in 0 .. VRAM_SIZEW - 1 |-> t.buffer[(ofs + i) % VRAM_SIZEW]]

update_cursor_position(t) ==
    [frame |-> t.frame_no,
     at    |-> IF t.scrolling THEN X_MAX * (Y_MAX - 1) + (t.cur_pos % X_MAX) ELSE t.cur_pos]

(* The frame the adapter displays from now on.                             *)
update_vram_start(t) == t.frame_no

ShowInPlace(d) == [d EXCEPT !.v = [vram |-> [d.v.vram EXCEPT ![d.t.frame_no] = refresh_vram(d.t)],
                                   start |-> update_vram_start(d.t), cursor |-> update_cursor_position(d.t)]]
Show(d) ==
    LET t == update_frame(d.t)
    IN  [t |-> t, v |-> [vram |-> [d.v.vram EXCEPT ![t.frame_no] = refresh_vram(t)],
                         start |-> update_vram_start(t), cursor |-> update_cursor_position(t)]]

newline(d) ==
    LET wraps == d.t.cur_pos = VRAM_SIZEW
        pos   == IF wraps THEN 0 ELSE d.t.cur_pos
        t     == [d.t EXCEPT !.cur_pos = pos, !.scrolling = @ \/ wraps,
                             !.buffer = [i \in DOMAIN @ |-> IF i \in pos .. pos + X_MAX - 1 THEN Blank ELSE @[i]]]
    IN  Show([d EXCEPT !.t = t])

Put(d, c) ==
    LET e == [d EXCEPT !.t.buffer[d.t.cur_pos] = c, !.t.cur_pos = @ + 1]
    IN  IF e.t.cur_pos % X_MAX = 0 THEN newline(e) ELSE e

fill_blanks(d, num) ==
    LET f[n \in 0 .. num] == IF n = 0 THEN d ELSE Put(f[n - 1], Blank)
    IN  f[num]

(* A backspace at the start of the buffer writes in front of it and leaves *)
(* cur_pos at UINT_MAX: what the driver does from there on is undefined.   *)
Outside == -1
Back(d) ==
    IF d.t.cur_pos = 0 THEN [d EXCEPT !.t.cur_pos = Outside]
    ELSE [d EXCEPT !.t.buffer[d.t.cur_pos - 1] = Blank, !.t.cur_pos = @ - 1]

Tab == 4
tty_char(d, c) ==
    CASE c = "BS" -> Back(d)
      [] c = "HT" -> fill_blanks(d, Tab)
      [] c = "LF" -> fill_blanks(d, X_MAX - (d.t.cur_pos % X_MAX))
      [] c = "VT" -> fill_blanks(d, X_MAX * 2)
      [] c = "FF" -> [d EXCEPT !.t.cur_pos = @ - (@ % X_MAX)]
      [] c = "skipped" -> d
      [] OTHER -> Put(d, c)

(***************************************************************************)
(* The paper.                                                              *)
(***************************************************************************)
PaperPut(p, c) ==
    LET rows == [p.rows EXCEPT ![p.row][p.col] = c]
    IN  IF p.col + 1 < X_MAX THEN [p EXCEPT !.rows = rows, !.col = @ + 1]
        ELSE [rows |-> SubSeq(rows, 1, p.row) \o <<BlankRow>> \o SubSeq(rows, p.row + 2, Len(rows)),
              row |-> p.row + 1, col |-> 0, scrolled |-> p.scrolled \/ p.row = Y_MAX]
PaperFill(p, num) ==
    LET f[n \in 0 .. num] == IF n = 0 THEN p ELSE PaperPut(f[n - 1], Blank)
    IN  f[num]
PaperBack(p) ==
    LET q == IF p.col > 0 THEN [p EXCEPT !.col = @ - 1] ELSE [p EXCEPT !.row = @ - 1, !.col = X_MAX - 1]
    IN  IF p.row = 1 /\ p.col = 0 THEN p ELSE [q EXCEPT !.rows[q.row][q.col] = Blank]
PaperChar(p, c) ==
    CASE c = "BS" -> PaperBack(p)
      [] c = "HT" -> PaperFill(p, Tab)
      [] c = "LF" -> PaperFill(p, X_MAX - p.col)
      [] c = "VT" -> PaperFill(p, X_MAX * 2)
      [] c = "FF" -> [p EXCEPT !.col = 0]
      [] c = "skipped" -> p
      [] OTHER -> PaperPut(p, c)

(***************************************************************************)
(* tty_write: a character at a time, then the display.  The driver does    *)
(* not look where a backspace leads: unless BackAnywhere, those who write  *)
(* one do, and have a character in front of it on the screen, in the same  *)
(* row once the text scrolls.                                              *)
(***************************************************************************)
Chars == {"a", "BS", "HT", "LF", "VT", "FF", "skipped"}
tty_write ==
    /\ chars < MaxChars /\ tty.cur_pos # Outside
    /\ \E c \in Chars :
         /\ c = "BS" => \/ BackAnywhere
                        \/ tty.cur_pos % X_MAX # 0
                        \/ ~tty.scrolling /\ tty.cur_pos > 0
         /\ LET d == tty_char([t |-> tty, v |-> vga], c) IN tty' = d.t /\ vga' = d.v
         /\ paper' = PaperChar(paper, c)
    /\ writing' = TRUE /\ chars' = chars + 1
    /\ UNCHANGED kbdVars

tty_write_ends ==
    /\ writing /\ tty.cur_pos # Outside
    /\ LET d == Show([t |-> tty, v |-> vga]) IN tty' = d.t /\ vga' = d.v
    /\ writing' = FALSE
    /\ UNCHANGED <<chars, paper, kbdVars>>

(***************************************************************************)
(* The keyboard.  A key sends a code when it is pressed and one when it is *)
(* released; the keys on the right that the code table lacks send the code *)
(* of those on the left after a prefix, which decodes to nothing.          *)
(***************************************************************************)
BitOf(k) == IF k = "RCTRL" THEN "LCTRL" ELSE IF k = "RALT" THEN "LALT" ELSE k

ReleasedShifts(s, k) == IF k \in {"LSHIFT", "RSHIFT"} THEN s \ {"LSHIFT", "RSHIFT"} ELSE s \ {BitOf(k)}
Released(s, k) == s \ {BitOf(k)}
Pressed(s, k) == s \cup {BitOf(k)}

(* The case of a letter: both shifts turn uppercase into itself.           *)
Uppercase(s) == "CAPSLOCK" \in s

scancode_to_char ==
    /\ typed.keys < MaxKeys
    /\ \/ \E k \in ModifierKeys \ down :
            kbd' = Pressed(kbd, k) /\ down' = down \cup {k} /\ typed' = [char |-> FALSE, upper |-> FALSE, keys |-> typed.keys + 1]
       \/ \E k \in down :
            kbd' = Released(kbd, k) /\ down' = down \ {k} /\ typed' = [char |-> FALSE, upper |-> FALSE, keys |-> typed.keys + 1]
       \/ /\ typed' = [char |-> TRUE, upper |-> Uppercase(kbd), keys |-> typed.keys + 1]
          /\ UNCHANGED <<kbd, down>>
    /\ UNCHANGED ttyVars

(* tty_init: the frames and the buffer are cleared.                        *)
ConsoleInit ==
    /\ tty = [buffer |-> [i \in 0 .. VRAM_SIZEW - 1 |-> Blank], cur_pos |-> 0, scrolling |-> FALSE, frame_no |-> 0]
    /\ vga = [vram |-> [f \in 0 .. VRAM_FRAME_NUM - 1 |-> [i \in 0 .. VRAM_SIZEW - 1 |-> Blank]], start |-> 0,
              cursor |-> [frame |-> 0, at |-> 0]]
    /\ writing = FALSE /\ chars = 0
    /\ paper = [rows |-> <<BlankRow>>, row |-> 1, col |-> 0, scrolled |-> FALSE]
    /\ kbd = {} /\ down = {} /\ typed = [char |-> FALSE, upper |-> FALSE, keys |-> 0]

ConsoleNext == tty_write \/ tty_write_ends \/ scancode_to_char

(***************************************************************************)
(* Properties                                                              *)
(***************************************************************************)
RowOf(y) == IF y \in 1 .. Len(paper.rows) THEN paper.rows[y] ELSE BlankRow
FirstRow == IF paper.scrolled THEN paper.row - Y_MAX + 1 ELSE 1

(* When tty_write returns, the frame the adapter shows holds the last rows *)
(* of the text, in order, across every wrap of the buffer, and the cursor  *)
(* stands on that frame where the next character goes.                     *)
ScreenShowsTail ==
    ~writing =>
        /\ \A y \in 0 .. Y_MAX - 1, x \in 0 .. X_MAX - 1 :
             vga.vram[vga.start][y * X_MAX + x] = RowOf(FirstRow + y)[x]
        /\ vga.cursor = [frame |-> vga.start, at |-> (paper.row - FirstRow) * X_MAX + paper.col]

(* tty_write stays inside its buffer, whatever is written.                 *)
InsideBuffer == tty.cur_pos # Outside

(* The frame on display is never written: what is seen changes only when   *)
(* the adapter is switched.                                                *)
NeverTorn == [][vga'.vram[vga.start] = vga.vram[vga.start]]_consoleVars

(* The decoder knows which modifiers are held, in whatever order the keys  *)
(* are pressed and released.                                               *)
ModifiersKnown == kbd = down

(* A letter typed while a shift is held is of the other case.              *)
ShiftWorks == typed.char => typed.upper = (("CAPSLOCK" \in down) # (down \cap {"LSHIFT", "RSHIFT"} # {}))
=============================================================================
