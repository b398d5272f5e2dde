-------------------------- MODULE FramebufferPixels --------------------------
(***************************************************************************)
(* The picture arithmetic of framebuffer_display.c: how a pixel is packed  *)
(* and where it goes, the colour bars, and a picture scaled to the screen. *)
(*                                                                         *)
(* A panel is what FBIOGET_FSCREENINFO and FBIOGET_VSCREENINFO tell: the   *)
(* visible size xres, yres and its offsets xoff, yoff, the bytes of a line *)
(* and of the mapping, the bytes of a pixel, and offset and length of the  *)
(* colour fields in a pixel.  A memory is a function from byte addresses.  *)
(***************************************************************************)
EXTENDS Integers, Sequences

\* What the driver of a panel guarantees: every line is inside the mapping.
WellFormed(p) ==
    /\ p.xres \in Nat \ {0} /\ p.yres \in Nat \ {0}
    /\ p.xoff \in Nat /\ p.yoff \in Nat
    /\ p.bytes \in {2, 4} /\ p.line \in Nat /\ p.mem \in Nat
    /\ p.line >= (p.xoff + p.xres) * p.bytes
    /\ p.mem >= (p.yoff + p.yres) * p.line

-----------------------------------------------------------------------------
(* One pixel                                                               *)

\* scale_color: 8 bits of a colour to the bits of its field.
ScaleColor(value, length) ==
    IF length = 0 THEN 0
    ELSE IF length >= 8 THEN value * 2^(length - 8)
    ELSE value \div 2^(8 - length)

InField(value, field) == ScaleColor(value, field.length) * 2^field.offset

\* pack_color; a sum, for the fields of a pixel do not overlap.
PackColor(p, c) ==
    InField(c.r, p.red) + InField(c.g, p.green) + InField(c.b, p.blue)
        + InField(255, p.transp)

\* Mutant of Address: the screen begins at the top of the mapping.
AddressNoPan(p, x, y) == y * p.line + (x + p.xoff) * p.bytes

\* put_pixel: where the pixel is,
Address(p, x, y) == (y + p.yoff) * p.line + (x + p.xoff) * p.bytes

\* and its bytes in memory, the low one first.
Byte(value, k) == (value \div 2^(8 * k)) % 256

\* The visible pixels, and the one, if any, that owns an address.
Visible(p) == (0..p.xres-1) \X (0..p.yres-1)

Owners(p, a) ==
    { v \in Visible(p) : /\ Address(p, v[1], v[2]) <= a
                         /\ a < Address(p, v[1], v[2]) + p.bytes }

\* The memory after put_pixel of a colour for every visible pixel.
DrawAll(p, memory, colour) ==
    [a \in DOMAIN memory |->
        IF Owners(p, a) = {} THEN memory[a]
        ELSE LET v == CHOOSE v \in Owners(p, a) : TRUE
             IN  Byte(PackColor(p, colour[v]), a - Address(p, v[1], v[2]))]

-----------------------------------------------------------------------------
(* The two pictures                                                        *)

\* Colours of the eight bars.
Bars == << [r |-> 255, g |-> 0, b |-> 0],     [r |-> 0, g |-> 255, b |-> 0],
           [r |-> 0, g |-> 0, b |-> 255],     [r |-> 255, g |-> 255, b |-> 0],
           [r |-> 255, g |-> 0, b |-> 255],   [r |-> 0, g |-> 255, b |-> 255],
           [r |-> 255, g |-> 255, b |-> 255], [r |-> 0, g |-> 0, b |-> 0] >>

\* draw_color_bars
DrawColorBars(p, memory) ==
    DrawAll(p, memory,
            [v \in Visible(p) |-> Bars[(v[1] * Len(Bars)) \div p.xres + 1]])

\* Line or column of the picture for line or column i of the screen.
Source(i, size, res) == (i * size) \div res

\* The three channels of an RGB565 pixel with 8 bits each.
Unpack(v) ==
    [r |-> (((v \div 2048) % 32) * 255) \div 31,
     g |-> (((v \div 32) % 64) * 255) \div 63,
     b |-> ((v % 32) * 255) \div 31]

\* The pixel of the picture at a pixel of the screen.
Taken(p, pic, v) ==
    Source(v[2], pic.h, p.yres) * pic.w + Source(v[1], pic.w, p.xres)

\* The loops of framebuffer_display_draw_rgb565.
DrawPicture(p, memory, pic) ==
    DrawAll(p, memory, [v \in Visible(p) |-> Unpack(pic.px[Taken(p, pic, v)])])

-----------------------------------------------------------------------------
(* What one sees                                                           *)

\* The display reads line yoff + y of the mapping from column xoff on.
ScanOut(p, memory, v) ==
    LET first == (p.yoff + v[2]) * p.line + (p.xoff + v[1]) * p.bytes
        half == memory[first] + 256 * memory[first + 1]
    IN  IF p.bytes = 2 THEN half
        ELSE half + 65536 * (memory[first + 2] + 256 * memory[first + 3])

Field(value, field) == (value \div 2^field.offset) % 2^field.length

\* The addresses that are not on the screen.
Unseen(p) ==
    { a \in 0..p.mem-1 :
        ~\E x \in p.xoff..p.xoff+p.xres-1, y \in p.yoff..p.yoff+p.yres-1 :
            a - y * p.line \in x * p.bytes .. (x + 1) * p.bytes - 1 }

\* Element k of n evenly spread ones is the one over i of res.
Covers(k, n, i, res) == k * res <= i * n /\ i * n < (k + 1) * res

\* The screen shows the bars: eight of one width, at full intensity.
ShowsBars(p, memory) ==
    \A v \in Visible(p), k \in DOMAIN Bars :
        Covers(k - 1, Len(Bars), v[1], p.xres) =>
            LET value == ScanOut(p, memory, v)
                Full(level, field) ==
                    Field(value, field) = IF level = 255 THEN 2^field.length - 1 ELSE 0
            IN  /\ Full(Bars[k].r, p.red) /\ Full(Bars[k].g, p.green)
                /\ Full(Bars[k].b, p.blue)

\* A field shows a level of 0..max as well as its length allows.
ShowsLevel(value, field, level, max) ==
    LET full == 2^field.length - 1
        shown == Field(value, field) * max
        meant == level * full
        step == IF full > max THEN full ELSE max
    IN  shown - meant < step /\ meant - shown < step

\* The screen shows a picture: each pixel the one that lies over it.
ShowsPicture(p, memory, pic) ==
    \A v \in Visible(p), i \in 0..pic.w-1, j \in 0..pic.h-1 :
        Covers(i, pic.w, v[1], p.xres) /\ Covers(j, pic.h, v[2], p.yres) =>
            LET value == ScanOut(p, memory, v)
                pixel == pic.px[j * pic.w + i]
            IN  /\ ShowsLevel(value, p.red, (pixel \div 2048) % 32, 31)
                /\ ShowsLevel(value, p.green, (pixel \div 32) % 64, 63)
                /\ ShowsLevel(value, p.blue, pixel % 32, 31)
=============================================================================
