----------------------- MODULE FramebufferPixelsProofs -----------------------
(***************************************************************************)
(* Proofs about FramebufferPixels for every panel and picture: where a     *)
(* pixel is written, which pixel of the picture is read, that drawing      *)
(* writes the visible pixels and nothing else, and that one sees what was  *)
(* drawn.                                                                  *)
(***************************************************************************)
EXTENDS FramebufferPixels, TLAPS

-----------------------------------------------------------------------------
(* Arithmetic                                                              *)

LEMMA ProductMonotone ==
    ASSUME NEW a \in Nat, NEW b \in Nat, NEW c \in Nat, a <= b
    PROVE  a * c <= b * c
<1>1. PICK d \in Nat : b = a + d
  <2>1. b - a \in Nat /\ b = a + (b - a)
    OBVIOUS
  <2>2. QED
    BY <2>1
<1>2. b * c = a * c + d * c
  BY <1>1
<1>3. d * c \in Nat /\ a * c \in Nat
  OBVIOUS
<1>4. QED
  BY <1>2, <1>3

LEMMA OneMore ==
    ASSUME NEW a \in Nat, NEW b \in Nat
    PROVE  (a + 1) * b = a * b + b
OBVIOUS

LEMMA ProductInNat == ASSUME NEW a \in Nat, NEW b \in Nat PROVE a * b \in Nat
OBVIOUS

\* A quotient is below n when the dividend is below n times the divisor.
LEMMA QuotientBelow ==
    ASSUME NEW a \in Nat, NEW n \in Nat, NEW d \in Nat \ {0}, a < n * d
    PROVE  a \div d \in Nat /\ a \div d < n
<1>1. a \div d \in Nat
  OBVIOUS
<1>2. (a \div d) * d <= a
  OBVIOUS
<1>3. CASE n <= a \div d
  <2>1. n * d <= (a \div d) * d
    BY <1>1, <1>3, ProductMonotone
  <2>2. (a \div d) * d \in Nat /\ n * d \in Nat
    BY <1>1, ProductInNat
  <2>3. QED
    BY <1>2, <2>1, <2>2
<1>4. QED
  BY <1>1, <1>3

-----------------------------------------------------------------------------
(* Where a pixel is                                                        *)

\* A visible pixel lies in its own line of the mapping.
LEMMA InItsLine ==
    ASSUME NEW p, WellFormed(p), NEW x \in 0..p.xres-1, NEW y \in 0..p.yres-1
    PROVE  LET line == (y + p.yoff) * p.line
               column == (x + p.xoff) * p.bytes
           IN  /\ line \in Nat /\ column \in Nat /\ column + p.bytes <= p.line
               /\ line + p.line <= p.mem
               /\ Address(p, x, y) = line + column
<1>1. /\ p.xres \in Nat /\ p.yres \in Nat /\ p.xoff \in Nat /\ p.yoff \in Nat
      /\ p.bytes \in Nat /\ p.line \in Nat /\ p.mem \in Nat /\ x \in Nat /\ y \in Nat
      /\ (p.xoff + p.xres) * p.bytes <= p.line /\ (p.yoff + p.yres) * p.line <= p.mem
  BY DEF WellFormed
<1> DEFINE xs == x + p.xoff
           ys == y + p.yoff
<1>2. /\ xs \in Nat /\ ys \in Nat
      /\ xs + 1 <= p.xoff + p.xres /\ ys + 1 <= p.yoff + p.yres
      /\ p.xoff + p.xres \in Nat /\ p.yoff + p.yres \in Nat
  BY <1>1
<1>3. Address(p, x, y) = ys * p.line + xs * p.bytes
  BY DEF Address
<1> HIDE DEF xs, ys
<1>4. (xs + 1) * p.bytes <= (p.xoff + p.xres) * p.bytes
  BY <1>1, <1>2, ProductMonotone
<1>5. (ys + 1) * p.line <= (p.yoff + p.yres) * p.line
  BY <1>1, <1>2, ProductMonotone
<1>6. (xs + 1) * p.bytes = xs * p.bytes + p.bytes /\ (ys + 1) * p.line = ys * p.line + p.line
  BY <1>1, <1>2, OneMore
<1>7. /\ xs * p.bytes \in Nat /\ ys * p.line \in Nat
      /\ (p.xoff + p.xres) * p.bytes \in Nat /\ (p.yoff + p.yres) * p.line \in Nat
  BY <1>1, <1>2, ProductInNat
<1>8. /\ xs * p.bytes + p.bytes <= p.line /\ ys * p.line + p.line <= p.mem
  BY <1>1, <1>4, <1>5, <1>6, <1>7
<1>9. QED
  BY <1>3, <1>7, <1>8 DEF xs, ys

\* put_pixel stays inside the mapping, whatever the resolution, the panning
\* and the length of a line (framebuffer_display.c:126).
THEOREM PixelInMapping ==
    ASSUME NEW p, WellFormed(p), NEW x \in 0..p.xres-1, NEW y \in 0..p.yres-1,
           NEW k \in 0..p.bytes-1
    PROVE  Address(p, x, y) + k \in 0..p.mem-1
<1>1. p.bytes \in Nat /\ p.line \in Nat /\ p.mem \in Nat /\ k \in Nat /\ k < p.bytes
  BY DEF WellFormed
<1> DEFINE line == (y + p.yoff) * p.line
           column == (x + p.xoff) * p.bytes
<1>2. /\ line \in Nat /\ column \in Nat /\ column + p.bytes <= p.line
      /\ line + p.line <= p.mem /\ Address(p, x, y) = line + column
  BY InItsLine
<1> HIDE DEF line, column
<1>3. QED
  BY <1>1, <1>2

\* Two visible pixels share no byte.
THEOREM PixelsAreDisjoint ==
    ASSUME NEW p, WellFormed(p), NEW a \in Nat,
           NEW v \in Owners(p, a), NEW w \in Owners(p, a)
    PROVE  v = w
<1>1. /\ p.xres \in Nat /\ p.yres \in Nat /\ p.xoff \in Nat /\ p.yoff \in Nat
      /\ p.bytes \in Nat /\ p.line \in Nat
  BY DEF WellFormed
<1>2. /\ v[1] \in 0..p.xres-1 /\ v[2] \in 0..p.yres-1 /\ v = <<v[1], v[2]>>
      /\ w[1] \in 0..p.xres-1 /\ w[2] \in 0..p.yres-1 /\ w = <<w[1], w[2]>>
      /\ Address(p, v[1], v[2]) <= a /\ a < Address(p, v[1], v[2]) + p.bytes
      /\ Address(p, w[1], w[2]) <= a /\ a < Address(p, w[1], w[2]) + p.bytes
  BY DEF Owners, Visible
<1> DEFINE Line(u) == (u[2] + p.yoff) * p.line
           Column(u) == (u[1] + p.xoff) * p.bytes
<1>3. /\ Line(v) \in Nat /\ Column(v) \in Nat /\ Column(v) + p.bytes <= p.line
      /\ Address(p, v[1], v[2]) = Line(v) + Column(v)
  BY <1>2, InItsLine
<1>4. /\ Line(w) \in Nat /\ Column(w) \in Nat /\ Column(w) + p.bytes <= p.line
      /\ Address(p, w[1], w[2]) = Line(w) + Column(w)
  BY <1>2, InItsLine
<1>5. ASSUME NEW i \in Nat, NEW j \in Nat, NEW n \in Nat, i < j
      PROVE  i * n + n <= j * n
  <2>1. (i + 1) * n <= j * n
    BY <1>5, ProductMonotone
  <2>2. (i + 1) * n = i * n + n
    OBVIOUS
  <2>3. QED
    BY <2>1, <2>2
<1>6. ASSUME NEW i \in Nat, NEW j \in Nat, NEW n \in Nat,
             i * n < j * n + n, j * n < i * n + n
      PROVE  i = j
  <2>1. i * n \in Nat /\ j * n \in Nat
    BY ProductInNat
  <2>2. CASE i < j
    BY <1>5, <1>6, <2>1, <2>2
  <2>3. CASE j < i
    BY <1>5, <1>6, <2>1, <2>3
  <2>4. QED
    BY <2>2, <2>3
<1>7. /\ Line(v) < Line(w) + p.line /\ Line(w) < Line(v) + p.line
  <2> HIDE DEF Line, Column
  <2>1. QED
    BY <1>1, <1>2, <1>3, <1>4
<1>8. v[2] + p.yoff = w[2] + p.yoff
  <2>1. v[2] + p.yoff \in Nat /\ w[2] + p.yoff \in Nat
    BY <1>1, <1>2
  <2>2. QED
    BY <1>1, <1>6, <1>7, <2>1
<1>9. v[2] = w[2] /\ Line(v) = Line(w)
  <2>1. Line(v) = Line(w)
    BY <1>8
  <2>2. v[2] = w[2]
    BY <1>1, <1>2, <1>8
  <2>3. QED
    BY <2>1, <2>2
<1>10. /\ Column(v) < Column(w) + p.bytes /\ Column(w) < Column(v) + p.bytes
  <2> HIDE DEF Line, Column
  <2>1. QED
    BY <1>1, <1>2, <1>3, <1>4, <1>9
<1>11. v[1] + p.xoff = w[1] + p.xoff
  <2>1. v[1] + p.xoff \in Nat /\ w[1] + p.xoff \in Nat
    BY <1>1, <1>2
  <2>2. QED
    BY <1>1, <1>6, <1>10, <2>1
<1>12. v[1] = w[1]
  BY <1>1, <1>2, <1>11
<1>13. QED
  BY <1>2, <1>9, <1>12

-----------------------------------------------------------------------------
(* What is drawn                                                           *)

\* Every visible pixel gets the bytes of its colour, whatever is drawn beside
\* it.
THEOREM DrawnPixel ==
    ASSUME NEW p, WellFormed(p), NEW memory, DOMAIN memory = 0..p.mem-1,
           NEW colour, NEW v \in Visible(p), NEW k \in 0..p.bytes-1
    PROVE  DrawAll(p, memory, colour)[Address(p, v[1], v[2]) + k]
             = Byte(PackColor(p, colour[v]), k)
<1> DEFINE first == Address(p, v[1], v[2])
           a == first + k
<1>1. v[1] \in 0..p.xres-1 /\ v[2] \in 0..p.yres-1
  BY DEF Visible
<1>2. a \in 0..p.mem-1
  BY <1>1, PixelInMapping
<1>3. p.bytes \in Nat /\ p.mem \in Nat
  BY DEF WellFormed
<1>4. first \in Nat
  BY <1>1, InItsLine
<1>5. v \in Owners(p, a)
  <2> HIDE DEF first
  <2>1. first <= a /\ a < first + p.bytes
    BY <1>3, <1>4
  <2>2. QED
    BY <2>1 DEF Owners, first
<1>6. a \in Nat
  BY <1>2, <1>3
<1>7. (CHOOSE u \in Owners(p, a) : TRUE) = v
  <2>1. (CHOOSE u \in Owners(p, a) : TRUE) \in Owners(p, a)
    BY <1>5
  <2>2. QED
    BY <1>5, <1>6, <2>1, PixelsAreDisjoint
<1>8. a - first = k
  <2> HIDE DEF first
  <2>1. QED
    BY <1>4
<1>9. Owners(p, a) # {}
  BY <1>5
<1>10. DrawAll(p, memory, colour)[a]
         = LET u == CHOOSE u \in Owners(p, a) : TRUE
           IN  Byte(PackColor(p, colour[u]), a - Address(p, u[1], u[2]))
  <2> HIDE DEF a, first
  <2>1. QED
    BY <1>2, <1>9 DEF DrawAll
<1>11. QED
  BY <1>7, <1>8, <1>10

\* From an address to its column: what is left after the lines above it.
LEMMA InPixel ==
    ASSUME NEW x \in Nat, NEW y \in Nat, NEW line \in Nat, NEW bytes \in Nat,
           NEW a \in Nat,
           y * line + x * bytes <= a, a < y * line + x * bytes + bytes
    PROVE  a - y * line \in x * bytes .. (x + 1) * bytes - 1
<1> DEFINE left == x * bytes
           above == y * line
<1>1. left \in Nat /\ above \in Nat
  BY ProductInNat
<1>2. (x + 1) * bytes = left + bytes
  OBVIOUS
<1>3. above + left <= a /\ a < above + left + bytes
  OBVIOUS
<1> HIDE DEF left, above
<1>4. a - above \in left .. left + bytes - 1
  BY <1>1, <1>3
<1>5. QED
  BY <1>2, <1>4 DEF left, above

\* An address that is not on the screen belongs to no pixel.
LEMMA NoOwner ==
    ASSUME NEW p, WellFormed(p), NEW a \in Unseen(p)
    PROVE  Owners(p, a) = {}
<1>1. a \in 0..p.mem-1 /\ a \in Nat
  BY DEF Unseen, WellFormed
<1>2. ASSUME NEW v \in Owners(p, a) PROVE FALSE
  <2> DEFINE x == v[1] + p.xoff
             y == v[2] + p.yoff
             start == y * p.line + x * p.bytes
  <2>1. /\ v[1] \in 0..p.xres-1 /\ v[2] \in 0..p.yres-1
        /\ start <= a /\ a < start + p.bytes
    BY DEF Owners, Visible, Address
  <2>2. /\ p.xres \in Nat /\ p.yres \in Nat /\ p.xoff \in Nat /\ p.yoff \in Nat
        /\ p.bytes \in Nat /\ p.line \in Nat
    BY DEF WellFormed
  <2>3. x \in p.xoff..p.xoff+p.xres-1 /\ y \in p.yoff..p.yoff+p.yres-1
    <3>1. v[1] + p.xoff \in p.xoff..p.xoff+p.xres-1
      BY <2>1, <2>2
    <3>2. v[2] + p.yoff \in p.yoff..p.yoff+p.yres-1
      BY <2>1, <2>2
    <3>3. QED
      BY <3>1, <3>2
  <2>4. x \in Nat /\ y \in Nat
    BY <2>1, <2>2
  <2>5. a - y * p.line \in x * p.bytes .. (x + 1) * p.bytes - 1
    <3> HIDE DEF x, y
    <3>1. QED
      BY <1>1, <2>1, <2>2, <2>4, InPixel
  <2>6. QED
    <3> HIDE DEF x, y
    <3>1. QED
      BY <2>3, <2>5 DEF Unseen
<1>3. QED
  BY <1>2

\* Drawing leaves every byte alone that is not on the screen.
THEOREM NothingElseDrawn ==
    ASSUME NEW p, WellFormed(p), NEW memory, DOMAIN memory = 0..p.mem-1,
           NEW colour, NEW a \in Unseen(p)
    PROVE  DrawAll(p, memory, colour)[a] = memory[a]
<1>1. a \in DOMAIN memory
  BY DEF Unseen
<1>2. QED
  BY <1>1, NoOwner DEF DrawAll

\* The memory is a mapping of the panel that has been cleared.
Cleared(p, memory) ==
    DOMAIN memory = 0..p.mem-1 /\ \A a \in DOMAIN memory : memory[a] = 0

\* What is not on the screen is black.
BlackOutside(p, memory) == \A a \in Unseen(p) : memory[a] = 0

\* Beside the bars a cleared mapping stays clear.
LEMMA BlackBesideTheBars ==
    ASSUME NEW p, WellFormed(p), NEW memory, Cleared(p, memory)
    PROVE  BlackOutside(p, DrawColorBars(p, memory))
<1> DEFINE colour == [v \in Visible(p) |-> Bars[(v[1] * Len(Bars)) \div p.xres + 1]]
<1>1. DrawColorBars(p, memory) = DrawAll(p, memory, colour)
  BY DEF DrawColorBars
<1> HIDE DEF colour
<1>2. ASSUME NEW a \in Unseen(p) PROVE DrawAll(p, memory, colour)[a] = 0
  <2>1. a \in DOMAIN memory /\ memory[a] = 0
    BY DEF Unseen, Cleared
  <2>2. Owners(p, a) = {}
    BY NoOwner
  <2>3. QED
    BY <2>1, <2>2 DEF DrawAll
<1>3. QED
  BY <1>1, <1>2 DEF BlackOutside

\* The mapping keeps its size.
LEMMA SameMapping ==
    ASSUME NEW p, NEW memory, NEW colour
    PROVE  DOMAIN DrawAll(p, memory, colour) = DOMAIN memory
BY DEF DrawAll

-----------------------------------------------------------------------------
(* What is read                                                            *)

\* The line or column read is one of the picture, for every size of picture
\* and screen.
LEMMA SourceInside ==
    ASSUME NEW size \in Nat \ {0}, NEW res \in Nat \ {0}, NEW i \in 0..res-1
    PROVE  Source(i, size, res) \in 0..size-1
<1>1. i * size < size * res
  <2>1. (i + 1) * size <= res * size
    BY ProductMonotone
  <2>2. (i + 1) * size = i * size + size /\ res * size = size * res
    OBVIOUS
  <2>3. i * size \in Nat /\ size * res \in Nat
    BY ProductInNat
  <2>4. QED
    BY <2>1, <2>2, <2>3
<1>2. i * size \in Nat
  BY ProductInNat
<1>3. (i * size) \div res \in Nat /\ (i * size) \div res < size
  BY <1>1, <1>2, QuotientBelow
<1>4. QED
  BY <1>3 DEF Source

\* framebuffer_display_draw_rgb565 reads inside the picture
\* (framebuffer_display.c:185-192).
THEOREM ReadsInsideThePicture ==
    ASSUME NEW p, WellFormed(p), NEW pic, pic.w \in Nat \ {0}, pic.h \in Nat \ {0},
           NEW v \in Visible(p)
    PROVE  Taken(p, pic, v) \in 0..pic.w*pic.h-1
<1>1. /\ p.xres \in Nat \ {0} /\ p.yres \in Nat \ {0}
      /\ v[1] \in 0..p.xres-1 /\ v[2] \in 0..p.yres-1
  BY DEF WellFormed, Visible
<1> DEFINE x == Source(v[1], pic.w, p.xres)
           y == Source(v[2], pic.h, p.yres)
<1>2. x \in 0..pic.w-1 /\ y \in 0..pic.h-1
  BY <1>1, SourceInside
<1>3. Taken(p, pic, v) = y * pic.w + x
  BY DEF Taken
<1> HIDE DEF x, y
<1>4. (y + 1) * pic.w <= pic.h * pic.w
  BY <1>2, ProductMonotone
<1>5. (y + 1) * pic.w = y * pic.w + pic.w /\ pic.h * pic.w = pic.w * pic.h
  <2>1. y \in Nat /\ pic.w \in Nat /\ pic.h \in Nat
    BY <1>2
  <2>2. QED
    BY <2>1, OneMore
<1>6. y * pic.w \in Nat /\ pic.w * pic.h \in Nat
  BY <1>2, ProductInNat
<1>7. QED
  BY <1>2, <1>3, <1>4, <1>5, <1>6

\* The way of a channel of 5 or 6 bits to 8 bits and back loses nothing: on an
\* RGB565 panel a picture is shown exactly.
THEOREM Rgb565IsExact ==
    /\ \A v \in 0..31 : ScaleColor((v * 255) \div 31, 5) = v
    /\ \A v \in 0..63 : ScaleColor((v * 255) \div 63, 6) = v
<1>1. 2^(8 - 5) = 8 /\ 2^(8 - 6) = 4
  OBVIOUS
<1>2. \A v \in 0..31 : ((v * 255) \div 31) \div 8 = v
  OBVIOUS
<1>3. \A v \in 0..63 : ((v * 255) \div 63) \div 4 = v
  OBVIOUS
<1>4. QED
  BY <1>1, <1>2, <1>3 DEF ScaleColor

-----------------------------------------------------------------------------
(* What is seen                                                            *)

\* The formats of a pixel that /dev/fb0 has with 16 and with 32 bits: the
\* fields of RGB565, and three bytes with or without a fourth for the opacity.
IsRgb565(p) ==
    /\ p.bytes = 2
    /\ p.red.offset = 11 /\ p.red.length = 5
    /\ p.green.offset = 5 /\ p.green.length = 6
    /\ p.blue.offset = 0 /\ p.blue.length = 5
    /\ p.transp.offset = 0 /\ p.transp.length = 0

IsRgb888(p) ==
    /\ p.bytes = 4
    /\ p.red.offset = 16 /\ p.red.length = 8
    /\ p.green.offset = 8 /\ p.green.length = 8
    /\ p.blue.offset = 0 /\ p.blue.length = 8
    /\ \/ p.transp.offset = 0 /\ p.transp.length = 0
       \/ p.transp.offset = 24 /\ p.transp.length \in 1..8

IsColour(c) == c.r \in 0..255 /\ c.g \in 0..255 /\ c.b \in 0..255

\* A quotient is what lies between two multiples of the divisor.
LEMMA QuotientIs ==
    ASSUME NEW a \in Nat, NEW k \in Nat, NEW d \in Nat \ {0}, k * d <= a, a < (k + 1) * d
    PROVE  a \div d = k
<1>1. a \div d \in Nat /\ (a \div d) * d <= a /\ a < (a \div d + 1) * d
  <2>1. a \div d \in Nat
    OBVIOUS
  <2>2. (a \div d) * d <= a
    OBVIOUS
  <2>3. a < (a \div d + 1) * d
    OBVIOUS
  <2>4. QED
    BY <2>1, <2>2, <2>3
<1> DEFINE q == a \div d
<1>2. q \in Nat /\ q * d <= a /\ a < (q + 1) * d
  BY <1>1
<1> HIDE DEF q
<1>3. k * d \in Nat /\ q * d \in Nat /\ (k + 1) * d \in Nat /\ (q + 1) * d \in Nat
  BY <1>2
<1>4. ~(k + 1 <= q)
  <2> SUFFICES ASSUME k + 1 <= q PROVE FALSE
    OBVIOUS
  <2>1. (k + 1) * d <= q * d
    BY <1>2, ProductMonotone
  <2>2. QED
    BY <1>2, <1>3, <2>1
<1>5. ~(q + 1 <= k)
  <2> SUFFICES ASSUME q + 1 <= k PROVE FALSE
    OBVIOUS
  <2>1. (q + 1) * d <= k * d
    BY <1>2, ProductMonotone
  <2>2. QED
    BY <1>2, <1>3, <2>1
<1>6. q = k
  BY <1>2, <1>4, <1>5
<1>7. QED
  BY <1>6 DEF q

\* The arithmetic of a source position agrees with what lies over a pixel.
LEMMA SourceCovers ==
    ASSUME NEW k \in Nat, NEW n \in Nat, NEW i \in Nat, NEW res \in Nat \ {0},
           Covers(k, n, i, res)
    PROVE  (i * n) \div res = k
<1>1. i * n \in Nat /\ k * res <= i * n /\ i * n < (k + 1) * res
  BY DEF Covers
<1>2. QED
  BY <1>1, QuotientIs

\* A number is made of its bytes.
LEMMA TwoBytes ==
    ASSUME NEW value \in Nat, value < 65536
    PROVE  value = Byte(value, 0) + 256 * Byte(value, 1)
<1>1. 2^(8 * 0) = 1 /\ 2^(8 * 1) = 256
  OBVIOUS
<1>2. value = (value % 256) + 256 * ((value \div 256) % 256)
  OBVIOUS
<1>3. value \div 1 = value
  OBVIOUS
<1>4. QED
  BY <1>1, <1>2, <1>3 DEF Byte

LEMMA FourBytes ==
    ASSUME NEW value \in Nat, value \div 65536 < 65536
    PROVE  value = Byte(value, 0) + 256 * Byte(value, 1)
                     + 65536 * (Byte(value, 2) + 256 * Byte(value, 3))
<1> DEFINE b0 == value % 256
           b1 == (value \div 256) % 256
           high == value \div 65536
           b2 == high % 256
           b3 == high \div 256
<1>1. 2^(8 * 0) = 1 /\ 2^(8 * 1) = 256 /\ 2^(8 * 2) = 65536 /\ 2^(8 * 3) = 16777216
  OBVIOUS
<1>2. b0 + 256 * b1 + 65536 * high = value
  OBVIOUS
<1>3. high \in Nat /\ high < 65536 /\ value \div 16777216 = b3
  OBVIOUS
<1>4. b2 + 256 * b3 = high
  <2> HIDE DEF high
  <2>1. QED
    BY <1>3
<1>5. value \div 1 = value
  OBVIOUS
<1>6. b3 \in Nat /\ b3 % 256 = b3
  <2>1. b3 \in 0..255
    BY <1>3
  <2> HIDE DEF b3
  <2>2. QED
    BY <2>1
<1>7. Byte(value, 0) = b0 /\ Byte(value, 1) = b1 /\ Byte(value, 2) = b2
  BY <1>1, <1>5 DEF Byte
<1>8. Byte(value, 3) = b3
  BY <1>1, <1>3, <1>6 DEF Byte
<1> HIDE DEF b0, b1, b2, b3, high
<1>9. QED
  BY <1>2, <1>4, <1>7, <1>8

\* What the display reads at a pixel is what was put there.
LEMMA ReadBack ==
    ASSUME NEW p, WellFormed(p), NEW memory, DOMAIN memory = 0..p.mem-1,
           NEW colour, NEW v \in Visible(p),
           PackColor(p, colour[v]) \in Nat,
           p.bytes = 2 => PackColor(p, colour[v]) < 65536,
           p.bytes = 4 => PackColor(p, colour[v]) \div 65536 < 65536
    PROVE  ScanOut(p, DrawAll(p, memory, colour), v) = PackColor(p, colour[v])
<1> DEFINE drawn == DrawAll(p, memory, colour)
           value == PackColor(p, colour[v])
           first == (p.yoff + v[2]) * p.line + (p.xoff + v[1]) * p.bytes
           start == Address(p, v[1], v[2])
<1>1. /\ p.bytes \in {2, 4} /\ value \in Nat
      /\ p.bytes = 2 => value < 65536
      /\ p.bytes = 4 => value \div 65536 < 65536
  BY DEF WellFormed
<1>2. first = start /\ start \in Nat
  <2>1. v[1] \in 0..p.xres-1 /\ v[2] \in 0..p.yres-1
    BY DEF Visible
  <2>2. p.xoff \in Nat /\ p.yoff \in Nat /\ p.xres \in Nat /\ p.yres \in Nat
    BY DEF WellFormed
  <2>3. p.yoff + v[2] = v[2] + p.yoff /\ p.xoff + v[1] = v[1] + p.xoff
    BY <2>1, <2>2
  <2>4. start \in Nat
    BY <2>1, InItsLine
  <2>5. QED
    BY <2>3, <2>4 DEF Address
<1>3. \A k \in 0..p.bytes-1 : drawn[start + k] = Byte(value, k)
  BY DrawnPixel
<1>4. ScanOut(p, drawn, v) =
        IF p.bytes = 2 THEN drawn[first] + 256 * drawn[first + 1]
        ELSE drawn[first] + 256 * drawn[first + 1]
               + 65536 * (drawn[first + 2] + 256 * drawn[first + 3])
  BY DEF ScanOut
<1> HIDE DEF drawn, value, first, start
<1>5. CASE p.bytes = 2
  <2>1. drawn[start + 0] = Byte(value, 0) /\ drawn[start + 1] = Byte(value, 1)
    BY <1>3, <1>5
  <2>2. value = Byte(value, 0) + 256 * Byte(value, 1)
    BY <1>1, <1>5, TwoBytes
  <2>3. start + 0 = start
    BY <1>2
  <2>4. QED
    BY <1>2, <1>4, <1>5, <2>1, <2>2, <2>3 DEF drawn, value
<1>6. CASE p.bytes = 4
  <2>1. /\ drawn[start + 0] = Byte(value, 0) /\ drawn[start + 1] = Byte(value, 1)
        /\ drawn[start + 2] = Byte(value, 2) /\ drawn[start + 3] = Byte(value, 3)
    BY <1>3, <1>6
  <2>2. value = Byte(value, 0) + 256 * Byte(value, 1)
                  + 65536 * (Byte(value, 2) + 256 * Byte(value, 3))
    BY <1>1, <1>6, FourBytes
  <2>3. start + 0 = start
    BY <1>2
  <2>4. QED
    BY <1>2, <1>4, <1>6, <2>1, <2>2, <2>3 DEF drawn, value
<1>7. QED
  BY <1>1, <1>5, <1>6

\* Every field of a pixel holds its channel, scaled to its length.
FieldsHold(p, c, value) ==
    /\ value \in Nat
    /\ p.bytes = 2 => value < 65536
    /\ p.bytes = 4 => value \div 65536 < 65536
    /\ Field(value, p.red) = ScaleColor(c.r, p.red.length)
    /\ Field(value, p.green) = ScaleColor(c.g, p.green.length)
    /\ Field(value, p.blue) = ScaleColor(c.b, p.blue.length)

LEMMA Packed565 ==
    ASSUME NEW p, IsRgb565(p), NEW c, IsColour(c)
    PROVE  FieldsHold(p, c, PackColor(p, c))
<1> DEFINE r == c.r \div 8
           g == c.g \div 4
           b == c.b \div 8
           value == r * 2048 + g * 32 + b
<1>1. r \in 0..31 /\ g \in 0..63 /\ b \in 0..31
  BY DEF IsColour
<1>2. /\ 2^(8 - 5) = 8 /\ 2^(8 - 6) = 4 /\ 2^11 = 2048 /\ 2^5 = 32 /\ 2^0 = 1
      /\ 2^6 = 64
  OBVIOUS
<1>3. /\ p.bytes = 2
      /\ p.red.offset = 11 /\ p.red.length = 5
      /\ p.green.offset = 5 /\ p.green.length = 6
      /\ p.blue.offset = 0 /\ p.blue.length = 5
      /\ p.transp.offset = 0 /\ p.transp.length = 0
  BY DEF IsRgb565
<1>4. /\ ScaleColor(c.r, p.red.length) = r
      /\ ScaleColor(c.g, p.green.length) = g
      /\ ScaleColor(c.b, p.blue.length) = b
      /\ ScaleColor(255, p.transp.length) = 0
  BY <1>2, <1>3 DEF ScaleColor
<1> HIDE DEF r, g, b
<1>5. PackColor(p, c) = value
  <2>1. /\ InField(c.r, p.red) = r * 2048 /\ InField(c.g, p.green) = g * 32
        /\ InField(c.b, p.blue) = b * 1 /\ InField(255, p.transp) = 0 * 1
    BY <1>2, <1>3, <1>4 DEF InField
  <2>2. QED
    BY <1>1, <2>1 DEF PackColor
<1>6. /\ value \in Nat /\ value < 65536
      /\ (value \div 2048) % 32 = r /\ (value \div 32) % 64 = g /\ (value \div 1) % 32 = b
  BY <1>1
<1> HIDE DEF value
<1>7. /\ Field(value, p.red) = r /\ Field(value, p.green) = g /\ Field(value, p.blue) = b
  BY <1>2, <1>3, <1>6 DEF Field
<1>8. QED
  BY <1>3, <1>4, <1>5, <1>6, <1>7 DEF FieldsHold

\* The powers of two up to that of a byte.
LEMMA PowersOfTwo ==
    ASSUME NEW n \in 1..8
    PROVE  2^(8 - n) \in Nat \ {0}
<1> DEFINE Power(i) == 2^i
<1>1. /\ Power(0) = 1 /\ Power(1) = 2 /\ Power(2) = 4 /\ Power(3) = 8
      /\ Power(4) = 16 /\ Power(5) = 32 /\ Power(6) = 64 /\ Power(7) = 128
  OBVIOUS
<1>2. 8 - n \in {0, 1, 2, 3, 4, 5, 6, 7}
  OBVIOUS
<1> HIDE DEF Power
<1>3. Power(8 - n) \in Nat \ {0}
  BY <1>1, <1>2
<1>4. QED
  BY <1>3 DEF Power

\* A number of four bytes, and the bytes of it.
Word(a, r, g, b) == ((a * 256 + r) * 256 + g) * 256 + b

LEMMA WordBytes ==
    ASSUME NEW a \in Nat, NEW r \in Nat, NEW g \in Nat, NEW b \in Nat,
           a < 256, r < 256, g < 256, b < 256
    PROVE  LET value == Word(a, r, g, b)
           IN  /\ value \in Nat /\ value \div 65536 < 65536
               /\ (value \div 65536) % 256 = r /\ (value \div 256) % 256 = g
               /\ value % 256 = b
<1> DEFINE two == a * 256 + r
           three == two * 256 + g
           value == Word(a, r, g, b)
<1>1. two \in Nat /\ two < 65536 /\ three \in Nat /\ value = three * 256 + b
  BY DEF Word
<1> HIDE DEF value
<1>2. two \div 256 = a /\ two % 256 = r
  OBVIOUS
<1>3. three \div 256 = two /\ three % 256 = g
  <2> HIDE DEF two
  <2>1. QED
    BY <1>1
<1>4. value \div 256 = three /\ value % 256 = b
  <2> HIDE DEF two, three
  <2>1. QED
    BY <1>1
<1>5. value \div 65536 = two
  <2>1. value \div 65536 = (value \div 256) \div 256
    <3> HIDE DEF two, three
    <3>1. QED
      BY <1>1
  <2>2. QED
    BY <1>3, <1>4, <2>1
<1>6. value \in Nat
  <2> HIDE DEF two, three
  <2>1. QED
    BY <1>1
<1> HIDE DEF two, three
<1>7. QED
  BY <1>1, <1>2, <1>3, <1>4, <1>5, <1>6 DEF value

LEMMA Packed888 ==
    ASSUME NEW p, IsRgb888(p), NEW c, IsColour(c)
    PROVE  FieldsHold(p, c, PackColor(p, c))
<1>1. /\ p.bytes = 4
      /\ p.red.offset = 16 /\ p.red.length = 8
      /\ p.green.offset = 8 /\ p.green.length = 8
      /\ p.blue.offset = 0 /\ p.blue.length = 8
  BY DEF IsRgb888
<1>2. /\ 2^(8 - 8) = 1 /\ 2^24 = 16777216 /\ 2^16 = 65536 /\ 2^8 = 256 /\ 2^0 = 1
  OBVIOUS
<1> DEFINE r == c.r
           g == c.g
           b == c.b
<1>3. /\ c.r = r /\ c.g = g /\ c.b = b
      /\ r \in Nat /\ g \in Nat /\ b \in Nat
      /\ r < 256 /\ g < 256 /\ b < 256
  BY DEF IsColour
<1> HIDE DEF r, g, b
<1>4. /\ ScaleColor(c.r, p.red.length) = r
      /\ ScaleColor(c.g, p.green.length) = g
      /\ ScaleColor(c.b, p.blue.length) = b
  <2>1. ASSUME NEW v \in Nat PROVE ScaleColor(v, 8) = v
    <3>1. ScaleColor(v, 8) = v * 2^(8 - 8)
      BY DEF ScaleColor
    <3>2. QED
      BY <1>2, <3>1
  <2>2. QED
    BY <1>1, <1>3, <2>1
<1>5. PICK alpha \in Nat : alpha < 256 /\ InField(255, p.transp) = alpha * 16777216
  <2>1. CASE p.transp.offset = 0 /\ p.transp.length = 0
    <3>1. InField(255, p.transp) = 0 * 2^0
      BY <2>1 DEF InField, ScaleColor
    <3>2. InField(255, p.transp) = 0 * 16777216
      BY <1>2, <3>1
    <3>3. QED
      BY <3>2
  <2>2. CASE p.transp.offset = 24 /\ p.transp.length \in 1..8
    <3> DEFINE n == p.transp.length
               alpha == ScaleColor(255, n)
    <3>1. alpha \in Nat /\ alpha < 256
      <4>1. CASE n = 8
        <5>1. alpha = 255 * 2^(8 - 8)
          BY <4>1 DEF ScaleColor
        <5>2. QED
          BY <1>2, <5>1
      <4>2. CASE n # 8
        <5> DEFINE d == 2^(8 - n)
        <5>1. alpha = 255 \div d
          BY <2>2, <4>2 DEF ScaleColor
        <5>2. d \in Nat \ {0}
          BY <2>2, PowersOfTwo
        <5> HIDE DEF d
        <5>3. 255 < 256 * d
          BY <5>2
        <5>4. 255 \div d \in Nat /\ 255 \div d < 256
          BY <5>2, <5>3, QuotientBelow
        <5>5. QED
          BY <5>1, <5>4
      <4>3. QED
        BY <4>1, <4>2
    <3>2. InField(255, p.transp) = alpha * 16777216
      BY <1>2, <2>2 DEF InField
    <3>3. QED
      BY <3>1, <3>2
  <2>3. QED
    BY <2>1, <2>2 DEF IsRgb888
<1> DEFINE value == PackColor(p, c)
<1>6. value = r * 65536 + g * 256 + b + alpha * 16777216
  <2>1. /\ InField(c.r, p.red) = r * 65536 /\ InField(c.g, p.green) = g * 256
        /\ InField(c.b, p.blue) = b
    <3>1. b * 1 = b
      BY <1>3
    <3>2. QED
      BY <1>1, <1>2, <1>4, <3>1 DEF InField
  <2>2. QED
    BY <1>5, <2>1 DEF PackColor
<1> HIDE DEF value
<1>7. value = Word(alpha, r, g, b)
  BY <1>3, <1>5, <1>6 DEF Word
<1>8. /\ value \in Nat /\ value \div 65536 < 65536
      /\ (value \div 65536) % 256 = r /\ (value \div 256) % 256 = g
      /\ value % 256 = b
  BY <1>3, <1>5, <1>7, WordBytes
<1>9. /\ Field(value, p.red) = r /\ Field(value, p.green) = g
      /\ Field(value, p.blue) = b
  <2>1. value \div 1 = value
    BY <1>8
  <2>2. QED
    BY <1>1, <1>2, <1>8, <2>1 DEF Field
<1>10. QED
  BY <1>1, <1>4, <1>8, <1>9 DEF FieldsHold, value

\* A colour drawn is the colour seen.
LEMMA ColourSeen ==
    ASSUME NEW p, WellFormed(p), IsRgb565(p) \/ IsRgb888(p),
           NEW memory, DOMAIN memory = 0..p.mem-1,
           NEW colour, NEW v \in Visible(p), IsColour(colour[v])
    PROVE  FieldsHold(p, colour[v], ScanOut(p, DrawAll(p, memory, colour), v))
<1>1. FieldsHold(p, colour[v], PackColor(p, colour[v]))
  BY Packed565, Packed888
<1>2. ScanOut(p, DrawAll(p, memory, colour), v) = PackColor(p, colour[v])
  <2>1. /\ PackColor(p, colour[v]) \in Nat
        /\ p.bytes = 2 => PackColor(p, colour[v]) < 65536
        /\ p.bytes = 4 => PackColor(p, colour[v]) \div 65536 < 65536
    BY <1>1 DEF FieldsHold
  <2>2. QED
    BY <2>1, ReadBack
<1>3. QED
  BY <1>1, <1>2

\* A channel at its limits is shown at the limits of its field.
LEMMA LimitsKept ==
    ASSUME NEW n \in {5, 6, 8}
    PROVE  ScaleColor(255, n) = 2^n - 1 /\ ScaleColor(0, n) = 0
<1>1. /\ 2^(8 - 5) = 8 /\ 2^(8 - 6) = 4 /\ 2^(8 - 8) = 1
      /\ 2^5 = 32 /\ 2^6 = 64 /\ 2^8 = 256
  OBVIOUS
<1>2. ScaleColor(255, 5) = 31 /\ ScaleColor(0, 5) = 0
  BY <1>1 DEF ScaleColor
<1>3. ScaleColor(255, 6) = 63 /\ ScaleColor(0, 6) = 0
  BY <1>1 DEF ScaleColor
<1>4. ScaleColor(255, 8) = 255 /\ ScaleColor(0, 8) = 0
  BY <1>1 DEF ScaleColor
<1>5. CASE n = 5
  BY <1>1, <1>2, <1>5
<1>6. CASE n = 6
  BY <1>1, <1>3, <1>6
<1>7. CASE n = 8
  BY <1>1, <1>4, <1>7
<1>8. QED
  BY <1>5, <1>6, <1>7

\* The lengths of the fields.
LEMMA FieldLengths ==
    ASSUME NEW p, IsRgb565(p) \/ IsRgb888(p)
    PROVE  /\ p.red.length \in {5, 8} /\ p.green.length \in {6, 8}
           /\ p.blue.length \in {5, 8}
BY DEF IsRgb565, IsRgb888

\* The bars are the colours they should be.
LEMMA BarColours ==
    /\ Len(Bars) = 8 /\ DOMAIN Bars = 1..8
    /\ \A k \in 1..8 : Bars[k] \in [r : {0, 255}, g : {0, 255}, b : {0, 255}]
<1> DEFINE Colours == [r : {0, 255}, g : {0, 255}, b : {0, 255}]
<1>1. Bars \in Seq(Colours) /\ Len(Bars) = 8
  BY DEF Bars
<1> HIDE DEF Colours
<1>2. ASSUME NEW s \in Seq(Colours)
      PROVE  DOMAIN s = 1..Len(s) /\ \A k \in 1..Len(s) : s[k] \in Colours
  OBVIOUS
<1>3. DOMAIN Bars = 1..8 /\ \A k \in 1..8 : Bars[k] \in Colours
  BY <1>1, <1>2
<1>4. QED
  BY <1>1, <1>3 DEF Colours

(***************************************************************************)
(* draw_color_bars shows the eight bars, each at full intensity, on an     *)
(* RGB565 or 32-bit screen of any size, panning and length of a line.      *)
(***************************************************************************)
THEOREM BarsAreShown ==
    ASSUME NEW p, WellFormed(p), IsRgb565(p) \/ IsRgb888(p),
           NEW memory, DOMAIN memory = 0..p.mem-1
    PROVE  ShowsBars(p, DrawColorBars(p, memory))
<1> DEFINE colour == [v \in Visible(p) |-> Bars[(v[1] * Len(Bars)) \div p.xres + 1]]
           drawn == DrawColorBars(p, memory)
<1>1. drawn = DrawAll(p, memory, colour)
  BY DEF DrawColorBars
<1>2. ASSUME NEW v \in Visible(p), NEW k \in DOMAIN Bars,
             Covers(k - 1, Len(Bars), v[1], p.xres)
      PROVE  /\ Field(ScanOut(p, drawn, v), p.red) =
                   IF Bars[k].r = 255 THEN 2^p.red.length - 1 ELSE 0
             /\ Field(ScanOut(p, drawn, v), p.green) =
                   IF Bars[k].g = 255 THEN 2^p.green.length - 1 ELSE 0
             /\ Field(ScanOut(p, drawn, v), p.blue) =
                   IF Bars[k].b = 255 THEN 2^p.blue.length - 1 ELSE 0
  <2>1. k \in 1..8 /\ Len(Bars) = 8
    BY BarColours
  <2>2. v[1] \in Nat /\ p.xres \in Nat \ {0}
    BY DEF Visible, WellFormed
  <2>3. (v[1] * Len(Bars)) \div p.xres = k - 1
    <3>1. k - 1 \in Nat /\ Len(Bars) \in Nat
      BY <2>1
    <3>2. QED
      BY <1>2, <2>2, <3>1, SourceCovers
  <2>4. colour[v] = Bars[k]
    <3>1. (k - 1) + 1 = k
      BY <2>1
    <3>2. QED
      BY <2>3, <3>1
  <2>5. Bars[k].r \in {0, 255} /\ Bars[k].g \in {0, 255} /\ Bars[k].b \in {0, 255}
    BY <2>1, BarColours
  <2> HIDE DEF colour, drawn
  <2>6. IsColour(colour[v])
    <3>1. IsColour(Bars[k])
      BY <2>5 DEF IsColour
    <3>2. QED
      BY <2>4, <3>1
  <2>7. FieldsHold(p, Bars[k], ScanOut(p, drawn, v))
    BY <1>1, <2>4, <2>6, ColourSeen
  <2>8. /\ Field(ScanOut(p, drawn, v), p.red) = ScaleColor(Bars[k].r, p.red.length)
        /\ Field(ScanOut(p, drawn, v), p.green) = ScaleColor(Bars[k].g, p.green.length)
        /\ Field(ScanOut(p, drawn, v), p.blue) = ScaleColor(Bars[k].b, p.blue.length)
    BY <2>7 DEF FieldsHold
  <2>9. /\ p.red.length \in {5, 6, 8} /\ p.green.length \in {5, 6, 8}
        /\ p.blue.length \in {5, 6, 8}
    BY FieldLengths
  <2> DEFINE Top(n) == 2^n - 1
  <2>10. ASSUME NEW level \in {0, 255}, NEW n \in {5, 6, 8}
         PROVE  ScaleColor(level, n) = IF level = 255 THEN Top(n) ELSE 0
    BY LimitsKept
  <2> HIDE DEF Top
  <2>11. Field(ScanOut(p, drawn, v), p.red) =
            IF Bars[k].r = 255 THEN Top(p.red.length) ELSE 0
    BY <2>5, <2>8, <2>9, <2>10
  <2>12. Field(ScanOut(p, drawn, v), p.green) =
            IF Bars[k].g = 255 THEN Top(p.green.length) ELSE 0
    BY <2>5, <2>8, <2>9, <2>10
  <2>13. Field(ScanOut(p, drawn, v), p.blue) =
            IF Bars[k].b = 255 THEN Top(p.blue.length) ELSE 0
    BY <2>5, <2>8, <2>9, <2>10
  <2>14. QED
    BY <2>11, <2>12, <2>13 DEF Top
<1>3. QED
  BY <1>2 DEF ShowsBars

\* A level of a picture is shown as well as the field allows.
LEMMA LevelShown ==
    ASSUME NEW value, NEW field, NEW max \in {31, 63}, NEW level \in 0..max,
           field.length \in {5, 6, 8},
           field.length = 5 => max = 31, field.length = 6 => max = 63,
           Field(value, field) = ScaleColor((level * 255) \div max, field.length)
    PROVE  ShowsLevel(value, field, level, max)
<1> DEFINE n == field.length
<1>1. 2^5 = 32 /\ 2^6 = 64 /\ 2^8 = 256 /\ 2^(8 - 8) = 1
  OBVIOUS
<1>2. CASE n = 5
  <2>1. Field(value, field) = level
    BY <1>2, Rgb565IsExact
  <2>2. QED
    BY <1>1, <1>2, <2>1 DEF ShowsLevel
<1>3. CASE n = 6
  <2>1. Field(value, field) = level
    BY <1>3, Rgb565IsExact
  <2>2. QED
    BY <1>1, <1>3, <2>1 DEF ShowsLevel
<1>4. CASE n = 8
  <2> DEFINE shown == (level * 255) \div max
  <2>1. shown \in Nat /\ shown * max <= level * 255 /\ level * 255 < shown * max + max
    <3>1. CASE max = 31
      BY <3>1
    <3>2. CASE max = 63
      BY <3>2
    <3>3. QED
      BY <3>1, <3>2
  <2>2. ScaleColor(shown, 8) = shown * 1
    BY <1>1 DEF ScaleColor
  <2> HIDE DEF shown
  <2>3. Field(value, field) = shown
    BY <1>4, <2>1, <2>2 DEF shown
  <2>4. 2^field.length - 1 = 255
    BY <1>1, <1>4
  <2>5. shown * max - level * 255 < 255 /\ level * 255 - shown * max < 255
    <3>1. CASE max = 31
      BY <2>1, <3>1
    <3>2. CASE max = 63
      BY <2>1, <3>2
    <3>3. QED
      BY <3>1, <3>2
  <2>6. (IF 255 > max THEN 255 ELSE max) = 255
    OBVIOUS
  <2>7. QED
    BY <2>3, <2>4, <2>5, <2>6 DEF ShowsLevel
<1>5. QED
  BY <1>2, <1>3, <1>4

\* Three channels of 8 bits.
LEMMA Unpacked ==
    ASSUME NEW value \in Nat
    PROVE  /\ IsColour(Unpack(value))
           /\ (value \div 2048) % 32 \in 0..31
           /\ (value \div 32) % 64 \in 0..63
           /\ value % 32 \in 0..31
<1>1. /\ (value \div 2048) % 32 \in 0..31
      /\ (value \div 32) % 64 \in 0..63
      /\ value % 32 \in 0..31
  OBVIOUS
<1>2. /\ \A v \in 0..31 : (v * 255) \div 31 \in 0..255
      /\ \A v \in 0..63 : (v * 255) \div 63 \in 0..255
  OBVIOUS
<1>3. QED
  BY <1>1, <1>2 DEF Unpack, IsColour

(***************************************************************************)
(* framebuffer_display_draw_rgb565 shows the picture: every visible pixel  *)
(* has the colour of the pixel of the picture that lies over it, as well   *)
(* as the fields of the screen allow, for any sizes of the two, any        *)
(* panning and any length of a line, on an RGB565 or a 32-bit screen.      *)
(***************************************************************************)
THEOREM PictureIsShown ==
    ASSUME NEW p, WellFormed(p), IsRgb565(p) \/ IsRgb888(p),
           NEW memory, DOMAIN memory = 0..p.mem-1,
           NEW pic, pic.w \in Nat \ {0}, pic.h \in Nat \ {0},
           \A i \in 0..pic.w*pic.h-1 : pic.px[i] \in Nat
    PROVE  ShowsPicture(p, DrawPicture(p, memory, pic), pic)
<1> DEFINE colour == [v \in Visible(p) |-> Unpack(pic.px[Taken(p, pic, v)])]
           drawn == DrawPicture(p, memory, pic)
<1>1. drawn = DrawAll(p, memory, colour)
  BY DEF DrawPicture
<1>2. ASSUME NEW v \in Visible(p), NEW i \in 0..pic.w-1, NEW j \in 0..pic.h-1,
             Covers(i, pic.w, v[1], p.xres), Covers(j, pic.h, v[2], p.yres)
      PROVE  LET value == ScanOut(p, drawn, v)
                 pixel == pic.px[j * pic.w + i]
             IN  /\ ShowsLevel(value, p.red, (pixel \div 2048) % 32, 31)
                 /\ ShowsLevel(value, p.green, (pixel \div 32) % 64, 63)
                 /\ ShowsLevel(value, p.blue, pixel % 32, 31)
  <2> DEFINE value == ScanOut(p, drawn, v)
             pixel == pic.px[j * pic.w + i]
             c == Unpack(pixel)
  <2>1. /\ v[1] \in Nat /\ v[2] \in Nat /\ i \in Nat /\ j \in Nat
        /\ p.xres \in Nat \ {0} /\ p.yres \in Nat \ {0}
    BY DEF Visible, WellFormed
  <2>2. Taken(p, pic, v) = j * pic.w + i
    <3>1. (v[1] * pic.w) \div p.xres = i /\ (v[2] * pic.h) \div p.yres = j
      BY <1>2, <2>1, SourceCovers
    <3>2. QED
      BY <3>1 DEF Taken, Source
  <2>3. colour[v] = c
    BY <2>2
  <2>4. pixel \in Nat
    <3>1. Taken(p, pic, v) \in 0..pic.w*pic.h-1
      BY ReadsInsideThePicture
    <3>2. QED
      BY <2>2, <3>1
  <2> HIDE DEF colour, drawn, value, pixel, c
  <2>5. IsColour(colour[v])
    <3>1. IsColour(c)
      BY <2>4, Unpacked DEF c
    <3>2. QED
      BY <2>3, <3>1
  <2>6. FieldsHold(p, c, value)
    BY <1>1, <2>3, <2>5, ColourSeen DEF value
  <2>7. /\ c.r = (((pixel \div 2048) % 32) * 255) \div 31
        /\ c.g = (((pixel \div 32) % 64) * 255) \div 63
        /\ c.b = ((pixel % 32) * 255) \div 31
    BY DEF c, Unpack
  <2>8. /\ (pixel \div 2048) % 32 \in 0..31 /\ (pixel \div 32) % 64 \in 0..63
        /\ pixel % 32 \in 0..31
    BY <2>4, Unpacked
  <2> DEFINE r == (pixel \div 2048) % 32
             g == (pixel \div 32) % 64
             b == pixel % 32
  <2>9. /\ Field(value, p.red) = ScaleColor((r * 255) \div 31, p.red.length)
        /\ Field(value, p.green) = ScaleColor((g * 255) \div 63, p.green.length)
        /\ Field(value, p.blue) = ScaleColor((b * 255) \div 31, p.blue.length)
    BY <2>6, <2>7 DEF FieldsHold
  <2>10. r \in 0..31 /\ g \in 0..63 /\ b \in 0..31
    BY <2>8
  <2> HIDE DEF r, g, b
  <2>11. /\ p.red.length \in {5, 8} /\ p.green.length \in {6, 8}
         /\ p.blue.length \in {5, 8}
    BY FieldLengths
  <2>12. ShowsLevel(value, p.red, r, 31)
    <3>1. /\ p.red.length \in {5, 6, 8}
          /\ p.red.length = 5 => 31 = 31
          /\ p.red.length = 6 => 31 = 63
      BY <2>11
    <3>2. QED
      BY <2>9, <2>10, <3>1, LevelShown
  <2>13. ShowsLevel(value, p.green, g, 63)
    <3>1. /\ p.green.length \in {5, 6, 8}
          /\ p.green.length = 5 => 63 = 31
          /\ p.green.length = 6 => 63 = 63
      BY <2>11
    <3>2. QED
      BY <2>9, <2>10, <3>1, LevelShown
  <2>14. ShowsLevel(value, p.blue, b, 31)
    <3>1. /\ p.blue.length \in {5, 6, 8}
          /\ p.blue.length = 5 => 31 = 31
          /\ p.blue.length = 6 => 31 = 63
      BY <2>11
    <3>2. QED
      BY <2>9, <2>10, <3>1, LevelShown
  <2>15. QED
    BY <2>12, <2>13, <2>14 DEF value, pixel, r, g, b
<1>3. QED
  BY <1>2 DEF ShowsPicture
=============================================================================
