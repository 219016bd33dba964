-------------------------------- MODULE Video --------------------------------
(***************************************************************************)
(* The video drivers: drawing in planes of eight pixels through the mask   *)
(* and the latch of the VGA adapter (drivers/VGA/vga.c), in the linear     *)
(* frame buffer of a VESA adapter (drivers/VESA/vesa.c), and the frames of *)
(* the text driver (drivers/VGA/vga_txt.c), on the screen of Console.      *)
(*                                                                         *)
(* Beside each driver is the picture its caller asked for.  Callers give   *)
(* the corners of a box left before right and top before bottom, and stay  *)
(* on the screen, as the demonstrations do.                                *)
(***************************************************************************)
EXTENDS Console

CONSTANTS
    RowBytes, Rows,     \* bytes in a row and rows of the VGA screen: 80, 480
    FontHeight,         \* H, rows of a glyph
    Glyph,              \* the fonts: for each height, the pixels of each row of a character
    Xs, Ys,             \* coordinates of the calls
    Pitch,              \* LinBytesPerScanLine of the VESA mode
    XResolution, Lines, \* its size in pixels
    Texts,              \* strings of the calls
    Modes,              \* the modes of the VESA BIOS: [answers, linear, bits, packed, x, y, takes]
    FillChars,          \* characters a box of text is filled with
    TextBoxes,          \* boxes of the calls of the text driver: pairs of corners
    MaxDrawn,           \* bound on the calls that draw, for each driver
    MaxShown            \* bound on the frames that are shown

ASSUME VideoAssumption ==
    /\ RowBytes \in Nat \ {0} /\ Rows \in Nat \ {0} /\ FontHeight \in Nat \ {0}
    /\ Xs \subseteq 0 .. 8 * RowBytes - 1 /\ Ys \subseteq 0 .. Rows - 1
    /\ Pitch \in Nat \ {0} /\ Lines \in Nat \ {0} /\ XResolution \in 1 .. Pitch

VARIABLES
    gfx,        \* vga.c: [mem, mask, latch, height, dac], the adapter and the font
    vesa,       \* vesa.c: [up, fb, gmode, mode, found, height], buffer, modes and font
    txt,        \* vga_txt.c: [frames, frame_no, txtbuf, start, shown, cursor, cursor_position,
                \*             hidden, shape, dac]
    picture,    \* what was asked for, of the driver in use
    drawn       \* calls made

videoVars == <<gfx, vesa, txt, picture, drawn>>

Point == [x : Xs, y : Ys]
(* Each call draws in a colour of its own.                                 *)
Color == drawn + 1
Calls(driver) == drawn < MaxDrawn[driver] /\ drawn' = drawn + 1

(* The pixels of a picture that a call was to set to a colour.             *)
Painted(p, S, c) == [q \in DOMAIN p |-> IF q \in S THEN c ELSE p[q]]
Box(a, b) == {<<x, y>> : x \in a.x .. b.x, y \in a.y .. b.y}
(* "line thickness is <width> in pixels": the border of the box.           *)
Border(a, b, wide) ==
    {q \in Box(a, b) : \/ q[1] - a.x < wide \/ b.x - q[1] < wide
                       \/ q[2] - a.y < wide \/ b.y - q[2] < wide}
(* The pixels of a text: the glyphs side by side.                          *)
Ink(a, str, h) ==
    {<<a.x + 8 * (i - 1) + k, a.y + r>> : i \in DOMAIN str, k \in 0 .. 7, r \in 0 .. h - 1}
Written(a, str, h) ==
    {q \in Ink(a, str, h) :
        LET i == 1 + (q[1] - a.x) \div 8
        IN  (q[1] - a.x) % 8 \in Glyph[h][str[i]][1 + q[2] - a.y]}

(***************************************************************************)
(* vga.c.  A byte of the memory is eight pixels, the leftmost first.  In   *)
(* write mode 2 a store gives the pixels of the mask the colour, the other *)
(* pixels what the latch holds, and a load fills the latch.                *)
(***************************************************************************)
Bits == 0 .. 7
Bit(x) == x % 8
compute_offset(x, y) == y * RowBytes + x \div 8

Load(v, off) == [v EXCEPT !.latch = v.mem[off]]
Mask(v, m) == [v EXCEPT !.mask = m]
StoreByte(v, off, c) ==
    [v EXCEPT !.mem[off] = [b \in Bits |-> IF b \in v.mask THEN c ELSE v.latch[b]]]
PlotUnread(v, off, m, c) == StoreByte(Mask(v, m), off, c)
Plot(v, off, m, c) == StoreByte(Load(Mask(v, m), off), off, c)

vga_put_pixel_wm2(v, p, c) == Plot(v, compute_offset(p.x, p.y), {Bit(p.x)}, c)

(* The bytes at the ends are read first; those between are stored whole.   *)
horiz_pixel_wm2(v, a, len, c) ==
    LET first == compute_offset(a.x, a.y)
        last  == compute_offset(a.x + len - 1, a.y)
        ends  == Plot(Plot(v, first, Bit(a.x) .. 7, c), last, 0 .. Bit(a.x + len - 1), c)
    IN  CASE len = 0 -> v
          [] len # 0 /\ first = last -> Plot(v, first, {i + Bit(a.x) : i \in 0 .. len - 1} \cap Bits, c)
          [] len # 0 /\ last = first + 1 -> ends
          [] OTHER -> LET w == Mask(ends, Bits)
                          f[o \in first .. last - 1] ==
                              IF o = first THEN w ELSE StoreByte(f[o - 1], o, c)
                      IN  f[last - 1]

vert_pixel_wm2(v, a, len, c) ==
    LET f[n \in 0 .. len] ==
            IF n = 0 THEN Mask(v, {Bit(a.x)})
            ELSE Plot(f[n - 1], compute_offset(a.x, a.y) + (n - 1) * RowBytes, {Bit(a.x)}, c)
    IN  IF len = 0 THEN v ELSE f[len]

(* Lines are drawn along the rows and the columns, no others.              *)
vga_line_wm2(v, a, b, c) ==
    CASE a.y = b.y -> horiz_pixel_wm2(v, a, b.x - a.x + 1, c)
      [] a.y # b.y /\ a.x = b.x -> vert_pixel_wm2(v, a, b.y - a.y + 1, c)
      [] OTHER -> v

(* Rows of one length, the same column, from the row y on.                 *)
Stripes(v, x, y, len, n, c) ==
    LET f[k \in 0 .. n] == IF k = 0 THEN v ELSE horiz_pixel_wm2(f[k - 1], [x |-> x, y |-> y + k - 1], len, c)
    IN  f[n]

TooThin(b, a, wide) == b.x - a.x < 2 * wide \/ b.y - a.y < 2 * wide \/ wide = 0
vga_rect_wm2(v, a, b, wide, c) ==
    LET width == b.x - a.x + 1
        edges == horiz_pixel_wm2(horiz_pixel_wm2(v, a, width, c), [a EXCEPT !.y = b.y], width, c)
        sides == vert_pixel_wm2(vert_pixel_wm2(edges, a, b.y - a.y + 1, c),
                                [b EXCEPT !.y = a.y], b.y - a.y + 1, c)
        bars  == Stripes(Stripes(v, a.x, a.y, width, wide, c), a.x, b.y - wide + 1, width, wide, c)
        rows  == b.y - a.y - 2 * wide + 1
    IN  CASE TooThin(b, a, wide) -> v
          [] ~TooThin(b, a, wide) /\ wide = 1 -> sides
          [] OTHER -> Stripes(Stripes(bars, a.x, a.y + wide, wide, rows, c),
                              b.x - wide + 1, a.y + wide, wide, rows, c)

vga_fillrect_wm2(v, a, b, c) == Stripes(v, a.x, a.y, b.x - a.x + 1, b.y - a.y + 1, c)

(* A row of a glyph that starts inside a byte covers two.                  *)
Right(S, k) == {i + k : i \in S} \cap Bits
Left(S, k) == {i - k : i \in S} \cap Bits

(* What is done for each row of each character, one below the other.       *)
EachRow(v, a, str, Row(_, _, _)) ==
    LET n == Len(str) * v.height
        f[k \in 0 .. n] ==
            IF k = 0 THEN v
            ELSE LET i == (k - 1) \div v.height
                     r == (k - 1) % v.height
                 IN  Row(f[k - 1], compute_offset(a.x, a.y) + i + r * RowBytes, Glyph[v.height][str[i + 1]][r + 1])
    IN  f[n]

vga_write_text_wm2(v, a, c, str) ==
    LET k == Bit(a.x)
        Row(w, off, g) == IF k = 0 THEN Plot(w, off, g, c)
                          ELSE Plot(Plot(w, off, Right(g, k), c), off + 1, Left(g, 8 - k), c)
    IN  EachRow(v, a, str, Row)

(* With a background.  On a byte boundary the latch is filled once with    *)
(* the background and never read again.                                    *)
vga_write_bgtext_wm2(v, a, bg, c, str) ==
    LET k == Bit(a.x)
        Both(w, off, ink, cell) == Plot(Plot(w, off, ink \cap cell, c), off, cell \ ink, bg)
        Unaligned(w, off, g) ==
            Both(Both(w, off, Right(g, k), k .. 7), off + 1, Left(g, 8 - k), 0 .. k - 1)
        Aligned(w, off, g) == StoreByte(Mask(w, g), off, c)
        off0  == compute_offset(a.x, a.y)
        ready == Load(StoreByte(Mask(v, Bits), off0, bg), off0)
    IN  IF str = <<>> THEN v
        ELSE IF k # 0 THEN EachRow(v, a, str, Unaligned) ELSE EachRow(ready, a, str, Aligned)

(* Sprites are not finished: one byte is drawn, the low byte of the first  *)
(* four of the bitmap.                                                     *)
vga_draw_sprite(v, a, fourth, c) == Plot(v, compute_offset(a.x, a.y), fourth, c)

(* Colour i shows the entry of the converter that attribute register i     *)
(* names, 8 + i; the palette calls write and read that entry.              *)
VGA_NUM_DAC_PALS == 16
AttributeOf(i) == 8 + i
vga_load_palette(v, i, rgb) ==
    IF i < VGA_NUM_DAC_PALS THEN [v EXCEPT !.dac[i + 8] = rgb] ELSE v
vga_load_all_palette(v, rgb) ==
    [v EXCEPT !.dac = [i \in DOMAIN @ |-> IF i - 8 \in DOMAIN rgb THEN rgb[i - 8] ELSE @[i]]]
vga_store_palette(v, i) == v.dac[i + 8]

(* Glyphs of 8 or 16 rows; anything else is 16.                            *)
vga_set_font(v, w, h) == [v EXCEPT !.height = IF w = 8 /\ h = FontHeight \div 2 THEN h ELSE FontHeight]

(***************************************************************************)
(* vesa.c.  One byte is one pixel; rows are Pitch bytes apart.             *)
(***************************************************************************)
vesa_offset(x, y) == y * Pitch + x
Bytes(fb, from, n, c) == [o \in DOMAIN fb |-> IF o \in from .. from + n - 1 THEN c ELSE fb[o]]

put_pixel(fb, p, c) ==
    IF vesa_offset(p.x, p.y) < Pitch * Lines THEN [fb EXCEPT ![vesa_offset(p.x, p.y)] = c] ELSE fb

(* Bytes up to a word boundary, words while more than four bytes are left, *)
(* then bytes.  The offset that is returned went through the number of its *)
(* word: it is right only when the boundary was reached.                   *)
horiz_line(fb, offset, len, c) ==
    LET gap   == (4 - (offset % 4)) % 4
        lead  == IF len < gap THEN len ELSE gap
        rest  == len - lead
        words == IF rest > 4 THEN (rest - 1) \div 4 ELSE 0
        word  == (offset + lead) \div 4
        tail  == rest - 4 * words
    IN  [fb |-> Bytes(Bytes(Bytes(fb, offset, lead, c), 4 * word, 4 * words, c), 4 * (word + words), tail, c),
         offset |-> 4 * (word + words) + tail]

Column(fb, offset, len, c, step) ==
    [o \in DOMAIN fb |-> IF \E k \in 0 .. len - 1 : o = offset + k * step THEN c ELSE fb[o]]
vert_line(fb, offset, len, c) == Column(fb, offset, len, c, Pitch)
diag_line(fb, offset, len, c, adv) == Column(fb, offset, len, c, Pitch + adv)

(* The runs of a line that advances minor times while it advances major:   *)
(* the length of each, from the error term.                                *)
RunLengths(major, minor) ==
    LET whole == major \div minor
        adjup   == (major % minor) * 2
        adjdown == minor * 2
        fin   == whole \div 2 + 1
        ini   == IF adjup = 0 /\ whole % 2 = 0 THEN fin - 1 ELSE fin
        err[k \in 0 .. minor - 1] ==
            IF k = 0 THEN (major % minor) - adjdown + (IF whole % 2 = 1 THEN minor ELSE 0)
            ELSE LET e == err[k - 1] + adjup IN IF e > 0 THEN e - adjdown ELSE e
        run(k) == whole + (IF err[k - 1] + adjup > 0 THEN 1 ELSE 0)
    IN  <<ini>> \o [k \in 1 .. minor - 1 |-> run(k)] \o <<fin>>

(* The line is drawn from its upper end.                                   *)
vesa_line(fb, p, q, c) ==
    LET a    == IF p.y > q.y THEN q ELSE p
        b    == IF p.y > q.y THEN p ELSE q
        adv  == IF b.x < a.x THEN -1 ELSE 1
        dx   == adv * (b.x - a.x)
        dy   == b.y - a.y
        at   == vesa_offset(a.x, a.y)
        tall == RunLengths(dy, dx)
        flat == RunLengths(dx, dy)
        y[k \in 0 .. dx + 1] ==
            IF k = 0 THEN [fb |-> fb, offset |-> at]
            ELSE [fb |-> vert_line(y[k - 1].fb, y[k - 1].offset, tall[k], c),
                  offset |-> y[k - 1].offset + tall[k] * Pitch + adv]
        x[k \in 0 .. dy + 1] ==
            IF k = 0 THEN [fb |-> fb, offset |-> at]
            ELSE IF adv < 0
                 THEN LET from == x[k - 1].offset - (flat[k] - 1)
                      IN  [fb |-> horiz_line(x[k - 1].fb, from, flat[k], c).fb, offset |-> from + Pitch - 1]
                 ELSE LET h == horiz_line(x[k - 1].fb, x[k - 1].offset, flat[k], c)
                      IN  [fb |-> h.fb, offset |-> h.offset + Pitch + 1]
    IN  CASE dx = 0 -> vert_line(fb, at, dy + 1, c)
          [] dx # 0 /\ dy = 0 -> horiz_line(fb, at, dx + 1, c).fb
          [] dx # 0 /\ dx = dy -> diag_line(fb, at, dx + 1, c, adv)
          [] dx # 0 /\ dx < dy -> y[dx + 1].fb
          [] OTHER -> x[dy + 1].fb

rect(fb, a, b, wide, c) ==
    LET width  == b.x - a.x + 1
        height == b.y - a.y + 1
        f[k \in 0 .. wide] ==
            IF k = 0 THEN fb
            ELSE LET i   == k - 1
                     top == vesa_offset(a.x + i, a.y + i)
                     upp == horiz_line(f[i], top, width - 2 * i, c).fb
                     low == horiz_line(upp, vesa_offset(a.x + i, b.y - i), width - 2 * i, c).fb
                     lft == vert_line(low, top, height - 2 * i, c)
                 IN  vert_line(lft, vesa_offset(b.x - i, a.y + i), height - 2 * i, c)
    IN  IF width < 2 * wide \/ height < 2 * wide THEN fb ELSE f[wide]

fillrect(fb, a, b, c) ==
    LET n == b.y - a.y + 1
        f[k \in 0 .. n] ==
            IF k = 0 THEN fb
            ELSE horiz_line(f[k - 1], vesa_offset(a.x, a.y + k - 1), b.x - a.x + 1, c).fb
    IN  f[n]

(* Text and sprites go from row to row by XResolution, not by the pitch.   *)
Dots(offset, rows, S(_)) == UNION {{offset + r * XResolution + k : k \in S(r)} : r \in 0 .. rows - 1}
TextDots(a, str, h) ==
    UNION {LET Row(r) == Glyph[h][str[i]][r + 1] IN Dots(vesa_offset(a.x + 8 * (i - 1), a.y), h, Row) : i \in DOMAIN str}
CellDots(a, str, h) ==
    UNION {LET Row(r) == Bits IN Dots(vesa_offset(a.x + 8 * (i - 1), a.y), h, Row) : i \in DOMAIN str}
vesa_write_text(fb, a, c, str, h) ==
    [o \in DOMAIN fb |-> IF o \in TextDots(a, str, h) THEN c ELSE fb[o]]
vesa_write_bgtext(fb, a, bg, c, str, h) ==
    [o \in DOMAIN fb |-> IF o \in TextDots(a, str, h) THEN c ELSE IF o \in CellDots(a, str, h) THEN bg ELSE fb[o]]
draw_sprite(fb, a, sprite, c) ==
    LET Row(r) == sprite[r + 1]
    IN  [o \in DOMAIN fb |-> IF o \in Dots(vesa_offset(a.x, a.y), Len(sprite), Row) THEN c ELSE fb[o]]

(* set_resolution asks for one mode of the list after the other; what it   *)
(* was told of the last one stays in vesa_gmode.                           *)
FitsSize(m, w, h) == m.answers /\ m.x = w /\ m.y = h
Fits(m, w, h) ==
    m.answers /\ m.linear /\ m.bits = 8 /\ m.packed /\ m.x = w /\ m.y = h
Candidates(w, h) == {i \in DOMAIN Modes : Fits(Modes[i], w, h)}
FirstFit(w, h) ==
    {i \in Candidates(w, h) : \A j \in Candidates(w, h) : i <= j}
LastTold(n) == {i \in 1 .. n : Modes[i].answers /\ \A j \in i + 1 .. n : ~Modes[j].answers}
vesa_init(v, answers, version) == [v EXCEPT !.up = answers /\ version >= 3]
set_font(v, w, h) == [v EXCEPT !.height = IF w = 8 /\ h = FontHeight \div 2 THEN h ELSE FontHeight]
set_resolution(v, w, h, depth) ==
    LET fit  == FirstFit(w, h)
        last == IF fit = {} THEN Len(Modes) ELSE CHOOSE i \in fit : TRUE
        told == LastTold(last)
        next == [v EXCEPT !.gmode = IF told = {} THEN @ ELSE CHOOSE i \in told : TRUE]
    IN  CASE depth # 8 -> [v EXCEPT !.found = FALSE]
          [] depth = 8 /\ (fit = {} \/ ~Modes[last].takes) -> [next EXCEPT !.found = FALSE]
          [] OTHER -> [next EXCEPT !.found = TRUE, !.mode = last]

(***************************************************************************)
(* vga_txt.c.  A call draws in the frame txtbuf points to; show_video      *)
(* displays that frame and goes on to the next.                            *)
(***************************************************************************)
Cell(x, y) == y * X_MAX + x
Cells(t, S, v) == [t EXCEPT !.frames[t.txtbuf] = [i \in DOMAIN @ |-> IF i \in S THEN v[i] ELSE @[i]]]
TextBox(a, b) == {Cell(x, y) : x \in a.x .. b.x, y \in a.y .. b.y}

(* A cell is a character and its colour.  fillrect adds a signed char: one *)
(* above 127 takes 1 from the colour.                                      *)
txtdata(ch, color) == ch + 256 * color
FillWord(ch, color) == ((IF ch > 127 THEN ch - 256 ELSE ch) + color * 256) % 65536

put_char(t, p, ch, color) ==
    Cells(t, {Cell(p.x, p.y)}, [i \in {Cell(p.x, p.y)} |-> txtdata(ch, color)])
text_fillrect(t, a, b, ch, color) ==
    Cells(t, TextBox(a, b), [i \in TextBox(a, b) |-> FillWord(ch, color)])

(* The text fills the rows of the box one after the other.                 *)
write_str(t, a, b, str) ==
    LET totx == b.x - a.x + 1
        n    == totx * (b.y - a.y + 1)
        used == 1 .. (IF Len(str) < n THEN Len(str) ELSE n)
        At(k) == Cell(a.x, a.y) + ((k - 1) \div totx) * X_MAX + ((k - 1) % totx)
    IN  Cells(t, {At(k) : k \in used}, [i \in {At(k) : k \in used} |-> str[CHOOSE k \in used : At(k) = i]])

(* The cells of a box, copied out row by row, and in again.                *)
bitblt(t, a, b) ==
    LET totx == b.x - a.x + 1
    IN  [k \in 1 .. totx * (b.y - a.y + 1) |->
            t.frames[t.txtbuf][Cell(a.x + ((k - 1) % totx), a.y + (k - 1) \div totx)]]
bitblt2(t, a, b, data) == write_str(t, a, b, data)

CursorAt(t, p) == [frame |-> t.frame_no % VRAM_FRAME_NUM, at |-> X_MAX * p.y + p.x]
set_cursor_position(t, p) == [t EXCEPT !.cursor = CursorAt(t, p), !.cursor_position = p]

update_video_buffer(t) ==
    [t EXCEPT !.frame_no = @ + 1,
              !.txtbuf = IF (t.frame_no + 1) % VRAM_FRAME_NUM # 0 THEN @ + 1 ELSE 0]
BufferFirst(t) ==
    LET u == update_video_buffer(t)
    IN  [u EXCEPT !.start = u.frame_no % VRAM_FRAME_NUM, !.cursor = CursorAt(u, u.cursor_position), !.shown = TRUE]
show_video(t) ==
    update_video_buffer([t EXCEPT !.start = t.frame_no % VRAM_FRAME_NUM,
                                  !.cursor = CursorAt(t, t.cursor_position), !.shown = TRUE])

(* The converter has 6 bits a channel: the upper bits of a level, rounded. *)
SixBits(level) == (level \div 4 + (IF level % 4 > 1 THEN 1 ELSE 0)) % 64
set_palette(t, i, level) == [t EXCEPT !.dac[i] = SixBits(level)]

(* One register holds the first line of the cursor and, above it, whether  *)
(* it is hidden.                                                           *)
cursor_visible(t, on) == [t EXCEPT !.hidden = ~on]
cursor_size(t, from, to) == [t EXCEPT !.shape = <<from % 32, to % 32>>]

(* write_font: 16 rows of each character, to slots of 32.  The bytes it    *)
(* reads of the font, and the byte written for the i-th of them.           *)
FontBytes == 32 * 256
FontSlot(i) ==
    LET dest[k \in 0 .. i] == IF k = 0 THEN 0 ELSE dest[k - 1] + (IF k % 16 = 0 THEN 16 ELSE 0)
    IN  dest[i] + i

(***************************************************************************)
(* The calls.                                                              *)
(***************************************************************************)
Width == 8 * RowBytes
Cleared == [i \in 0 .. VRAM_SIZEW - 1 |-> 0]
VideoInit ==
    /\ gfx = [mem |-> [o \in 0 .. RowBytes * Rows - 1 |-> [b \in Bits |-> 0]], mask |-> Bits,
              latch |-> [b \in Bits |-> 0], height |-> FontHeight, dac |-> [i \in 0 .. 23 |-> 0]]
    /\ vesa = [up |-> FALSE, fb |-> [o \in 0 .. Pitch * Lines - 1 |-> 0], gmode |-> 0, mode |-> 0,
               found |-> FALSE, height |-> 0]
    /\ txt = [frames |-> [f \in 0 .. VRAM_FRAME_NUM - 1 |-> Cleared], frame_no |-> 0, txtbuf |-> 0,
              start |-> 0, shown |-> FALSE, cursor |-> [frame |-> 0, at |-> X_MAX],
              cursor_position |-> [x |-> 0, y |-> 0], hidden |-> FALSE, shape |-> <<13, 14>>,
              dac |-> [i \in 0 .. VGA_NUM_DAC_PALS - 1 |-> 0]]
    /\ picture = [vga |-> [q \in (0 .. Width - 1) \X (0 .. Rows - 1) |-> 0],
                  palette |-> [i \in 0 .. VGA_NUM_DAC_PALS - 1 |-> 0],
                  vesa |-> [q \in (0 .. Pitch - 1) \X (0 .. Lines - 1) |-> 0],
                  draw |-> Cleared, older |-> [n \in 1 .. VRAM_FRAME_NUM - 1 |-> Cleared], front |-> Cleared,
                  placed |-> "nowhere", hidden |-> FALSE, shape |-> <<13, 14>>,
                  levels |-> [i \in 0 .. VGA_NUM_DAC_PALS - 1 |-> 0]]
    /\ drawn = 0

Boxes == {ab \in Point \X Point : ab[1].x <= ab[2].x /\ ab[1].y <= ab[2].y}
Asked(S, c) == [picture EXCEPT !.vga = Painted(@, S, c)]

VgaPixel ==
    \E p \in Point :
        gfx' = vga_put_pixel_wm2(gfx, p, Color) /\ picture' = Asked({<<p.x, p.y>>}, Color)
VgaLine ==
    \E ab \in Boxes :
        LET a == ab[1] b == ab[2]
        IN  /\ a.x = b.x \/ a.y = b.y
            /\ gfx' = vga_line_wm2(gfx, a, b, Color) /\ picture' = Asked(Box(a, b), Color)
VgaRect ==
    \E ab \in Boxes, wide \in 1 .. 2 :
        LET a == ab[1] b == ab[2]
        IN  /\ gfx' = vga_rect_wm2(gfx, a, b, wide, Color)
            /\ picture' = IF b.x - a.x < 2 * wide \/ b.y - a.y < 2 * wide THEN picture
                          ELSE Asked(Border(a, b, wide), Color)
VgaFill ==
    \E ab \in Boxes :
        gfx' = vga_fillrect_wm2(gfx, ab[1], ab[2], Color) /\ picture' = Asked(Box(ab[1], ab[2]), Color)
VgaText ==
    \E a \in Point, str \in Texts :
        /\ a.x + 8 * Len(str) <= Width /\ a.y + gfx.height <= Rows
        /\ \/ /\ gfx' = vga_write_text_wm2(gfx, a, Color, str)
              /\ picture' = Asked(Written(a, str, gfx.height), Color)
           \/ /\ gfx' = vga_write_bgtext_wm2(gfx, a, 9, Color, str)
              /\ picture' = [picture EXCEPT !.vga = Painted(Painted(@, Ink(a, str, gfx.height), 9),
                                                            Written(a, str, gfx.height), Color)]
(* Sprites on a byte boundary, of one row.                                 *)
VgaSprite ==
    \E a \in Point, S \in {{0, 6}} :
        /\ Bit(a.x) = 0
        /\ gfx' = vga_draw_sprite(gfx, a, S, Color) /\ picture' = Asked({<<a.x + k, a.y>> : k \in S}, Color)
VgaPalette ==
    \E i \in {0, 7, 15, 16} :
        /\ gfx' = vga_load_palette(gfx, i, Color)
        /\ picture' = [picture EXCEPT !.palette = [j \in DOMAIN @ |-> IF j = i THEN Color ELSE @[j]]]
VgaPalettes ==
    LET rgb == [i \in 0 .. VGA_NUM_DAC_PALS - 1 |-> 20 + i]
    IN  gfx' = vga_load_all_palette(gfx, rgb) /\ picture' = [picture EXCEPT !.palette = rgb]
VgaFont ==
    \E w \in {8, 9}, h \in {FontHeight \div 2, FontHeight} : gfx' = vga_set_font(gfx, w, h) /\ UNCHANGED picture
VgaNext ==
    /\ Calls("vga") /\ UNCHANGED <<vesa, txt>>
    /\ \/ VgaPixel \/ VgaLine \/ VgaRect \/ VgaFill \/ VgaText
       \/ VgaSprite \/ VgaPalette \/ VgaPalettes \/ VgaFont

(* A line along the major axis has one pixel for each step, the nearest to *)
(* the straight line; between two that are as near, the one after.         *)
Nearest(n, step, of) == (2 * n * step + of) \div (2 * of)
StraightLine(a, b) ==
    LET adv == IF b.x < a.x THEN -1 ELSE 1
        dx  == adv * (b.x - a.x)
        dy  == b.y - a.y
    IN  IF dx <= dy THEN {<<a.x + adv * Nearest(k, dx, IF dy = 0 THEN 1 ELSE dy), a.y + k>> : k \in 0 .. dy}
        ELSE {<<a.x + adv * k, a.y + Nearest(k, dy, dx)>> : k \in 0 .. dx}
VesaPoint == [x : 0 .. Pitch - 1, y : 0 .. Lines - 1]
OnScreen(S, c) == [picture EXCEPT !.vesa = Painted(@, S, c)]
(* Drawing follows a set_resolution that found its mode.  Lines to the     *)
(* right that are flatter than a diagonal, and level lines given from      *)
(* right to left, miss their end: callers draw them from the other end.    *)
Straight(a, b) ==
    /\ a.y <= b.y
    /\ a.y = b.y => a.x <= b.x
    /\ a.y # b.y /\ b.x > a.x => b.x - a.x <= b.y - a.y
VesaLine ==
    \E a, b \in VesaPoint :
        /\ Straight(a, b)
        /\ \E from \in {a, b} : (a.y = b.y => from = a) /\ vesa' = [vesa EXCEPT !.fb = vesa_line(@, from, IF from = a THEN b ELSE a, 1)]
        /\ picture' = OnScreen(StraightLine(a, b), 1)
VesaBox ==
    \E a, b \in VesaPoint :
        /\ a.x <= b.x /\ a.y <= b.y
        /\ \/ \E wide \in 1 .. 2 :
                /\ vesa' = [vesa EXCEPT !.fb = rect(@, a, b, wide, 1)]
                /\ picture' = IF b.x - a.x + 1 < 2 * wide \/ b.y - a.y + 1 < 2 * wide THEN picture
                              ELSE OnScreen(Border(a, b, wide), 1)
           \/ vesa' = [vesa EXCEPT !.fb = fillrect(@, a, b, 1)] /\ picture' = OnScreen(Box(a, b), 1)
VesaText ==
    \E a \in VesaPoint, str \in Texts :
        LET h == vesa.height
        IN  /\ h # 0 /\ a.x + 8 * Len(str) <= XResolution /\ a.y + h <= Lines
            /\ \/ /\ vesa' = [vesa EXCEPT !.fb = vesa_write_text(@, a, 1, str, h)]
                  /\ picture' = OnScreen(Written(a, str, h), 1)
               \/ /\ vesa' = [vesa EXCEPT !.fb = vesa_write_bgtext(@, a, 2, 1, str, h)]
                  /\ picture' = [picture EXCEPT !.vesa = Painted(Painted(@, Ink(a, str, h), 2),
                                                                 Written(a, str, h), 1)]
VesaSprite ==
    \E a \in VesaPoint :
        /\ a.x + 10 <= XResolution /\ a.y + 2 <= Lines
        /\ vesa' = [vesa EXCEPT !.fb = draw_sprite(@, a, <<{0, 9}, {3}>>, 1)]
        /\ picture' = OnScreen({<<a.x, a.y>>, <<a.x + 9, a.y>>, <<a.x + 3, a.y + 1>>}, 1)
VesaPixel ==
    \E p \in VesaPoint : vesa' = [vesa EXCEPT !.fb = put_pixel(@, p, 1)] /\ picture' = OnScreen({<<p.x, p.y>>}, 1)
VesaSets ==
    \/ /\ ~vesa.up
       /\ \E answers \in BOOLEAN, version \in 2 .. 3 : vesa' = vesa_init(vesa, answers, version)
    \/ /\ vesa.up
       /\ \E w \in {XResolution, XResolution + 1, 0}, depth \in {4, 8} :
              vesa' = set_resolution(vesa, w, Lines, depth)
    \/ /\ vesa.up
       /\ \E w \in {8, 9}, h \in {FontHeight \div 2, FontHeight} : vesa' = set_font(vesa, w, h)
(* Callers set the screen up before they draw.                             *)
VesaNext ==
    /\ UNCHANGED <<gfx, txt>>
    /\ \/ drawn = 0 /\ VesaSets /\ UNCHANGED <<picture, drawn>>
       \/ vesa.found /\ Calls("vesa") /\ (VesaLine \/ VesaBox \/ VesaText \/ VesaSprite \/ VesaPixel)

Draws(S, v) == [picture EXCEPT !.draw = [i \in DOMAIN @ |-> IF i \in S THEN v[i] ELSE @[i]]]
TextDraw ==
    \E ab \in TextBoxes :
        LET a == ab[1] b == ab[2] S == TextBox(a, b)
        IN  \/ \E ch \in FillChars :
                 /\ \/ a = b /\ txt' = put_char(txt, a, ch, Color)
                    \/ txt' = text_fillrect(txt, a, b, ch, Color)
                 /\ picture' = Draws(S, [i \in S |-> txtdata(ch, Color)])
            \/ /\ txt' = write_str(txt, a, b, <<7, 8, 9>>)
               /\ LET n(i) == 1 + ((i % X_MAX) - a.x) + ((i \div X_MAX) - a.y) * (b.x - a.x + 1)
                      T == {i \in S : n(i) <= 3}
                  IN  picture' = Draws(T, [i \in T |-> <<7, 8, 9>>[n(i)]])
            \/ /\ txt' = bitblt2(txt, a, b, bitblt(txt, a, b)) /\ UNCHANGED picture
TextCursor ==
    \/ \E ab \in TextBoxes :
          txt' = set_cursor_position(txt, ab[2]) /\ picture' = [picture EXCEPT !.placed = "draw"]
    \/ \E on \in BOOLEAN : txt' = cursor_visible(txt, on) /\ picture' = [picture EXCEPT !.hidden = ~on]
    \/ txt' = cursor_size(txt, 0, 15) /\ picture' = [picture EXCEPT !.shape = <<0, 15>>]
(* The levels 254 and 255 are rounded to 64, which the converter lacks:    *)
(* callers stay below.                                                     *)
TextPalette ==
    \E i \in {0, 15}, level \in {1, 2, 170, 253} :
        txt' = set_palette(txt, i, level) /\ picture' = [picture EXCEPT !.levels[i] = level]
TextShow ==
    /\ txt.frame_no < MaxShown
    /\ txt' = show_video(txt)
    /\ picture' = [picture EXCEPT !.front = picture.draw, !.draw = Head(picture.older),
                                  !.older = Append(Tail(picture.older), picture.draw), !.placed = "front"]
TextNext ==
    /\ UNCHANGED <<gfx, vesa>>
    /\ \/ Calls("text") /\ (TextDraw \/ TextCursor \/ TextPalette)
       \/ TextShow /\ UNCHANGED drawn

(***************************************************************************)
(* Properties.                                                             *)
(***************************************************************************)

(* ui_drivers.h: every pixel of the two graphic drivers has the colour the *)
(* calls asked for, and a colour shows what was loaded for it.             *)
PicturesExact ==
    /\ \A q \in DOMAIN picture.vga :
            gfx.mem[compute_offset(q[1], q[2])][Bit(q[1])] = picture.vga[q]
    /\ \A q \in DOMAIN picture.vesa : vesa.fb[vesa_offset(q[1], q[2])] = picture.vesa[q]
    /\ \A i \in DOMAIN picture.palette :
            gfx.dac[AttributeOf(i)] = picture.palette[i] /\ vga_store_palette(gfx, i) = picture.palette[i]
    /\ \A i \in DOMAIN picture.levels :
            picture.levels[i] - 4 * txt.dac[i] \in -2 .. 2

(* A resolution that was set is the one vesa_gmode describes, so that      *)
(* drawing uses the pitch of the mode that is displayed, and it is one     *)
(* with a linear buffer of a byte for each pixel.                          *)
ModeDescribed ==
    vesa.found => /\ vesa.gmode = vesa.mode
                  /\ LET m == Modes[vesa.mode] IN m.takes /\ m.linear /\ m.packed /\ m.bits = 8

(* ui_drivers.h: "Make the video buffer visible, select a new video        *)
(* buffer".  The frame that is displayed is the one drawn before the last  *)
(* show, untouched since, and the cursor is in it where it was set.        *)
FrameShown ==
    /\ txt.frames[txt.txtbuf] = picture.draw
    /\ txt.shown => txt.frames[txt.start] = picture.front
    /\ txt.shown => txt.start # txt.txtbuf
    /\ picture.placed # "nowhere" =>
            /\ txt.cursor.frame = IF picture.placed = "front" THEN txt.start ELSE txt.txtbuf
            /\ txt.cursor.at = Cell(txt.cursor_position.x, txt.cursor_position.y)
    /\ txt.hidden = picture.hidden /\ txt.shape = picture.shape
    /\ \A n \in 0 .. 2, r \in 0 .. 15 : FontSlot(16 * n + r) = 32 * n + r

(* vga_fonts.c: a font is 16 bytes for each of 256 characters, and         *)
(* write_font reads no more.                                               *)
FontInside == FontBytes <= 16 * 256

=============================================================================
