------------------------------- MODULE Pixels -------------------------------
(***************************************************************************)
(* How blend_bitmap (app/rust/src/ndk_graphics/mod.rs) fills a bitmap: by  *)
(* mandelbrot::render, which walks over the pixels column by column and    *)
(* stores each, or by fractal::render, which fills an image of its own and *)
(* copies that row by row.  The floating point iteration of a pixel may    *)
(* give any count.                                                         *)
(*                                                                         *)
(* External: a row of the bitmap has four bytes for each of its pixels and *)
(* no others, as Util.createBitmap makes it.                               *)
(***************************************************************************)
EXTENDS Integers

CONSTANTS
  Width, Height,
  Counts       \* the numbers of iterations that occur

ASSUME SizeAssumption == Width \in Nat \ {0} /\ Height \in Nat \ {0}
ASSUME CountsAssumption == Counts \subseteq 0..256

VARIABLES
  renderType,
  count,    \* for each pixel, <<column, row>>: its count, or Blank
  buffer,   \* the bitmap's bytes, Blank where none was written
  step      \* how many pixels are done

vars == <<renderType, count, buffer, step>>

Mandelbrot == 1
Fractal == 2

Blank == -1
Pixels == (0..(Width - 1)) \X (0..(Height - 1))
PixelCount == Width * Height

Init ==
  /\ renderType \in {Mandelbrot, Fractal}
  /\ count = [p \in Pixels |-> Blank]
  /\ buffer = [b \in 0..(4 * PixelCount - 1) |-> Blank]
  /\ step = 0

-----------------------------------------------------------------------------
AtMost(bound, n) == IF n < bound THEN n ELSE bound

\* Mutant: the red byte goes on growing.
PaletteUnbounded(k) ==
  LET grown(first) == 3 * AtMost(64, IF k < first THEN 0 ELSE k - first)
  IN  <<24 + 3 * k, 16 + grown(64), grown(128)>>

\* generate_palette: each of the bytes grows by 3, 64 times, one after another.
Palette(k) ==
  LET grown(first) == 3 * AtMost(64, IF k < first THEN 0 ELSE k - first)
  IN  <<24 + grown(0), 16 + grown(64), grown(128)>>

\* The red, green and blue of pixel p.
Color(p, k) ==
  IF renderType = Mandelbrot THEN Palette(AtMost(255, k))
  ELSE <<AtMost(255, (3 * p[1]) \div 10), k, AtMost(255, (3 * p[2]) \div 10)>>

ByColumn(n) == <<n \div Height, n % Height>>
ByRow(n) == <<n % Width, n \div Width>>

\* The index of a pixel's first byte in mandelbrot.
Index(p) == 4 * (p[2] * Width + p[1])

Store(idx, color) ==
  buffer' = [b \in DOMAIN buffer \cup (idx..(idx + 3)) |->
               CASE b \in idx..(idx + 2) -> color[b - idx + 1]
                 [] b = idx + 3 -> 255
                 [] OTHER -> buffer[b]]

\* A pixel of mandelbrot::render.
DrawMandelbrot ==
  LET p == ByColumn(step)
  IN  /\ renderType = Mandelbrot
      /\ step < PixelCount
      /\ \E k \in Counts :
           /\ count' = [count EXCEPT ![p] = k]
           /\ Store(Index(p), Color(p, k))
      /\ step' = step + 1
      /\ UNCHANGED renderType

\* A pixel of fractal::render's image.
DrawFractal ==
  /\ renderType = Fractal
  /\ step < PixelCount
  /\ \E k \in Counts \ {256} : count' = [count EXCEPT ![ByColumn(step)] = k]
  /\ step' = step + 1
  /\ UNCHANGED <<renderType, buffer>>

\* Mutant: the image is copied in the order in which it was filled.
CopyFractalByColumn ==
  LET n == step - PixelCount
      p == ByColumn(n)
  IN  /\ renderType = Fractal
      /\ step \in PixelCount..(2 * PixelCount - 1)
      /\ Store(4 * n, Color(p, count[p]))
      /\ step' = step + 1
      /\ UNCHANGED <<renderType, count>>

\* A pixel of the copy.
CopyFractal ==
  LET n == step - PixelCount
      p == ByRow(n)
  IN  /\ renderType = Fractal
      /\ step \in PixelCount..(2 * PixelCount - 1)
      /\ Store(4 * n, Color(p, count[p]))
      /\ step' = step + 1
      /\ UNCHANGED <<renderType, count>>

Next == DrawMandelbrot \/ DrawFractal \/ CopyFractal

Spec == Init /\ [][Next]_vars

-----------------------------------------------------------------------------
\* Type invariant; what is written are bytes, none outside the bitmap.
TypeOK ==
  /\ renderType \in {Mandelbrot, Fractal}
  /\ count \in [Pixels -> Counts \cup {Blank}]
  /\ buffer \in [0..(4 * PixelCount - 1) -> 0..255 \cup {Blank}]
  /\ step \in 0..(2 * PixelCount)

IsDone == step = IF renderType = Mandelbrot THEN PixelCount ELSE 2 * PixelCount

\* A finished picture has, in the order in which Android shows them, each
\* pixel's own colour and full alpha in each place: no pixel is left out and
\* none overwrote another (mandelbrot.rs:39-64, fractal.rs:19-47).
PictureIsWhole ==
  IsDone =>
    \A x \in 0..(Width - 1), y \in 0..(Height - 1) :
      LET at == y * (4 * Width) + 4 * x
      IN  /\ count[<<x, y>>] # Blank
          /\ \A c \in 1..3 : buffer[at + c - 1] = Color(<<x, y>>, count[<<x, y>>])[c]
          /\ buffer[at + 3] = 255
=============================================================================
