---------------------------- MODULE Framebuffer ----------------------------
(***************************************************************************)
(* Where the displays keep a pixel: Adafruit_ST7735, Adafruit_ST7789 and    *)
(* Adafruit_ILI9341 in words, Adafruit_SSD1306 in pages, U8G2 and GxEPD2 in *)
(* bits, GFXcanvas16 in words by rotated coordinates and Adafruit_NeoMatrix *)
(* on a strip of LEDs.  The image a program has drawn is the specification, *)
(* the buffer the implementation.  A colour is on or off.                   *)
(***************************************************************************)
EXTENDS Integers

CONSTANTS Panels,  \* of a kind each, with their size and, on a strip, layout
          Bits     \* the bits of a byte, 8 in the code

Kinds == {"words", "tft", "page", "stream", "paper", "canvas", "strip"}
Layouts == [bottom : BOOLEAN, right : BOOLEAN, columns : BOOLEAN, zigzag : BOOLEAN,
            tilesX : Nat \ {0}, tilesY : Nat \ {0}]
PanelsAssumption ==
  /\ Panels \subseteq [kind : Kinds, w : Nat \ {0}, h : Nat \ {0}, layout : Layouts]
  /\ Bits \in Nat \ {0}

VARIABLES panel, rotation, lit, image

fbVars == <<panel, rotation, lit, image>>

\* _matW * _tilesX and _matH * _tilesY on a strip, _width and _height else.
Wide(p) == IF p.kind = "strip" THEN p.w * p.layout.tilesX ELSE p.w
High(p) == IF p.kind = "strip" THEN p.h * p.layout.tilesY ELSE p.h

\* width() and height(): setRotation swaps them, but not in the ST77xx, the
\* SSD1306 and the U8G2.
Turned(p, r) == r \in {1, 3} /\ p.kind \notin {"words", "page", "stream"}
Screen(p, r) == IF Turned(p, r) THEN (0..High(p) - 1) \X (0..Wide(p) - 1)
                                ELSE (0..Wide(p) - 1) \X (0..High(p) - 1)

\* Mutant of RowMajor: the coordinates are swapped.
ColumnMajor(width, x, y) == x * width + y

RowMajor(width, x, y) == y * width + x

\* Adafruit_NeoMatrix::_pixelIndex.
StripIndex(p, x, y) ==
  LET l == p.layout
      bx == x % p.w
      by == y % p.h
      cx == IF l.right THEN p.w - 1 - bx ELSE bx
      cy == IF l.bottom THEN p.h - 1 - by ELSE by
      zx == IF l.zigzag /\ cy % 2 = 1 THEN p.w - 1 - cx ELSE cx
      zy == IF l.zigzag /\ cx % 2 = 1 THEN p.h - 1 - cy ELSE cy
      inTile == IF l.columns THEN RowMajor(p.h, zy, cx) ELSE RowMajor(p.w, zx, cy)
  IN RowMajor(p.w * p.h, inTile, RowMajor(l.tilesX, x \div p.w, y \div p.h))

\* The word, or the byte and the bit in it, that drawPixel writes and
\* getPixel reads.
Word(i) == <<i, 0>>
Cell(p, r, x, y) ==
  CASE p.kind \in {"words", "tft", "canvas"} -> Word(RowMajor(p.w, x, y))
    [] p.kind = "page"   -> <<RowMajor(p.w, x, y \div Bits), y % Bits>>
    [] p.kind = "stream" -> <<RowMajor(p.w, x, y) \div Bits, RowMajor(p.w, x, y) % Bits>>
    [] p.kind = "paper"  -> LET width == IF Turned(p, r) THEN p.h ELSE p.w
                            IN <<RowMajor(width, x, y) \div Bits, Bits - 1 - (x % Bits)>>
    [] p.kind = "strip"  -> Word(StripIndex(p, x, y))

\* What the early returns let through, of the pixels of the screen.
Kept(p, x, y) ==
  CASE p.kind \in {"tft", "strip"} -> x < Wide(p) /\ y < High(p)
    [] p.kind = "page" -> RowMajor(p.w, x, y \div Bits) < (p.w * p.h) \div Bits
    [] OTHER -> TRUE

Shown(p, r, on) == {q \in Screen(p, r) : Kept(p, q[1], q[2]) /\ Cell(p, r, q[1], q[2]) \in on}

-----------------------------------------------------------------------------
Init == /\ panel \in Panels
        /\ rotation = 0 /\ lit = {} /\ image = {}

\* drawPixel.
Draw(q, on) ==
  LET c == {Cell(panel, rotation, q[1], q[2])} IN
  /\ lit' = IF ~ Kept(panel, q[1], q[2]) THEN lit ELSE IF on THEN lit \union c ELSE lit \ c
  /\ image' = IF on THEN image \union {q} ELSE image \ {q}
  /\ UNCHANGED <<panel, rotation>>

\* fillScreen, clearDisplay, clearBuffer: off, cell by cell.
Clear ==
  /\ panel.kind # "canvas"
  /\ lit' = {} /\ image' = {}
  /\ UNCHANGED <<panel, rotation>>

\* setRotation leaves the buffer: what it shows now is the image.
Rotate(r) ==
  /\ rotation' = r
  /\ image' = Shown(panel, r, lit)
  /\ UNCHANGED <<panel, lit>>

Next == \/ \E q \in Screen(panel, rotation), on \in BOOLEAN : Draw(q, on)
        \/ Clear
        \/ \E r \in 0..3 : Rotate(r)

Spec == Init /\ [][Next]_fbVars

-----------------------------------------------------------------------------
\* Where the mapping is right: an ILI9341, a canvas and a matrix must not be
\* turned unless they are square, a page must be full, and a line of e-paper
\* must fill its last byte.
Exact(p, r) ==
  CASE p.kind \in {"tft", "canvas", "strip"} -> Turned(p, r) => Wide(p) = High(p)
    [] p.kind = "page"  -> p.h % Bits = 0
    [] p.kind = "paper" -> IF Turned(p, r) THEN p.h % Bits = 0 ELSE p.w % Bits = 0
    [] OTHER -> TRUE

\* What was drawn is what getPixel reads, in every pixel, as long as the panel
\* and its rotations keep to Exact: no draw touches another pixel.
DrawIsExact == Exact(panel, rotation) => image = Shown(panel, rotation, lit)
=============================================================================
