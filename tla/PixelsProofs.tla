---------------------------- MODULE PixelsProofs ----------------------------
(***************************************************************************)
(* Proofs about Pixels, for bitmaps of every size: both renderers write    *)
(* every pixel once, each in its own place, and nothing outside the bitmap.*)
(***************************************************************************)
EXTENDS Pixels, TLAPS

\* The products of natural numbers that the indices are made of.
LEMMA Products ==
  ASSUME NEW a \in Nat, NEW m \in Nat
  PROVE  /\ a * m \in Nat
         /\ (a + 1) * m = a * m + m
  OBVIOUS

LEMMA ProductsGrow ==
  ASSUME NEW a \in Nat, NEW b \in Nat, NEW m \in Nat, a <= b
  PROVE  a * m <= b * m
  OBVIOUS

\* A pixel's place is below the number of pixels.
LEMMA PlaceBelow ==
  ASSUME NEW m \in Nat \ {0}, NEW k \in Nat \ {0}, NEW a \in 0..(k - 1), NEW b \in 0..(m - 1)
  PROVE  a * m + b \in 0..(k * m - 1)
<1>1. a \in Nat /\ a + 1 \in Nat /\ a + 1 <= k /\ b \in Nat /\ b < m
  OBVIOUS
<1>2. a * m \in Nat /\ (a + 1) * m = a * m + m /\ k * m \in Nat
  BY <1>1, Products
<1>3. (a + 1) * m <= k * m
  BY <1>1, ProductsGrow
<1> QED BY <1>1, <1>2, <1>3

\* Two pixels have two places.
LEMMA PlacesDiffer ==
  ASSUME NEW m \in Nat \ {0}, NEW a \in Nat, NEW b \in 0..(m - 1),
         NEW c \in Nat, NEW d \in 0..(m - 1), a * m + b = c * m + d
  PROVE  a = c /\ b = d
<1>1. a * m \in Nat /\ c * m \in Nat /\ (a + 1) * m = a * m + m
      /\ (c + 1) * m = c * m + m
  BY Products
<1>2. CASE a < c
  <2>1. (a + 1) * m <= c * m
    BY <1>2, ProductsGrow
  <2> QED BY <1>1, <2>1
<1>3. CASE c < a
  <2>1. (c + 1) * m <= a * m
    BY <1>3, ProductsGrow
  <2> QED BY <1>1, <2>1
<1>4. CASE a = c
  BY <1>1, <1>4
<1> QED BY <1>2, <1>3, <1>4

\* The place of a number in rows of length m.
LEMMA PlaceOf ==
  ASSUME NEW m \in Nat \ {0}, NEW k \in Nat \ {0}, NEW n \in 0..(k * m - 1)
  PROVE  /\ n \div m \in 0..(k - 1)
         /\ n % m \in 0..(m - 1)
         /\ (n \div m) * m + (n % m) = n
<1>1. k * m \in Nat
  BY Products
<1>2. n \in Nat /\ n < k * m
  BY <1>1
<1>3. n \div m \in Nat /\ n % m \in 0..(m - 1) /\ n = m * (n \div m) + (n % m)
  BY <1>2
<1>4. n \div m < k
  <2> DEFINE a == n \div m
  <2> SUFFICES ASSUME k <= a PROVE FALSE
    BY <1>3
  <2>1. k * m <= a * m
    BY <1>3, ProductsGrow
  <2> QED BY <1>1, <1>2, <1>3, <2>1
<1> QED BY <1>3, <1>4

-----------------------------------------------------------------------------
Columns == 0..(Width - 1)
Rows == 0..(Height - 1)

\* A pixel's place in the order by column and by row.
AtColumn(x, y) == x * Height + y
AtRow(x, y) == y * Width + x

\* The sizes, and that both orders count the pixels.
LEMMA Sizes ==
  /\ Width \in Nat \ {0} /\ Height \in Nat \ {0}
  /\ PixelCount \in Nat
  /\ PixelCount = Width * Height /\ PixelCount = Height * Width
  BY SizeAssumption DEF PixelCount

\* Every pixel has its place in both orders, and every place has its pixel.
LEMMA Places ==
  /\ \A x \in Columns, y \in Rows :
       /\ AtColumn(x, y) \in 0..(PixelCount - 1)
       /\ AtRow(x, y) \in 0..(PixelCount - 1)
  /\ \A n \in 0..(PixelCount - 1) :
       /\ \E x \in Columns, y \in Rows : ByColumn(n) = <<x, y>> /\ AtColumn(x, y) = n
       /\ \E x \in Columns, y \in Rows : ByRow(n) = <<x, y>> /\ AtRow(x, y) = n
<1>1. \A x \in Columns, y \in Rows : AtColumn(x, y) \in 0..(PixelCount - 1)
  BY Sizes, PlaceBelow DEF AtColumn, Columns, Rows
<1>2. \A x \in Columns, y \in Rows : AtRow(x, y) \in 0..(PixelCount - 1)
  BY Sizes, PlaceBelow DEF AtRow, Columns, Rows
<1>3. ASSUME NEW n \in 0..(PixelCount - 1)
      PROVE  \E x \in Columns, y \in Rows :
               ByColumn(n) = <<x, y>> /\ AtColumn(x, y) = n
  <2>1. /\ n \div Height \in Columns /\ n % Height \in Rows
        /\ AtColumn(n \div Height, n % Height) = n
    BY Sizes, PlaceOf DEF AtColumn, Columns, Rows
  <2> QED BY <2>1 DEF ByColumn
<1>4. ASSUME NEW n \in 0..(PixelCount - 1)
      PROVE  \E x \in Columns, y \in Rows : ByRow(n) = <<x, y>> /\ AtRow(x, y) = n
  <2>1. /\ n \div Width \in Rows /\ n % Width \in Columns
        /\ AtRow(n % Width, n \div Width) = n
    BY Sizes, PlaceOf DEF AtRow, Columns, Rows
  <2> QED BY <2>1 DEF ByRow
<1> QED BY <1>1, <1>2, <1>3, <1>4

LEMMA PlacesUnique ==
  ASSUME NEW x \in Columns, NEW y \in Rows, NEW v \in Columns, NEW w \in Rows
  PROVE  /\ AtColumn(x, y) = AtColumn(v, w) => x = v /\ y = w
         /\ AtRow(x, y) = AtRow(v, w) => x = v /\ y = w
<1>1. x \in Nat /\ y \in Nat /\ v \in Nat /\ w \in Nat
  BY Sizes DEF Columns, Rows
<1>2. AtColumn(x, y) = AtColumn(v, w) => x = v /\ y = w
  BY <1>1, Sizes, PlacesDiffer DEF AtColumn, Rows
<1>3. AtRow(x, y) = AtRow(v, w) => x = v /\ y = w
  BY <1>1, Sizes, PlacesDiffer DEF AtRow, Columns
<1> QED BY <1>2, <1>3

-----------------------------------------------------------------------------
\* The four bytes of a pixel are what they should be.
Painted(x, y) ==
  /\ count[<<x, y>>] # Blank
  /\ \A c \in 1..3 :
       buffer[4 * AtRow(x, y) + c - 1] = Color(<<x, y>>, count[<<x, y>>])[c]
  /\ buffer[4 * AtRow(x, y) + 3] = 255

\* mandelbrot stores column by column; fractal counts column by column, then
\* copies row by row.
Progress ==
  /\ renderType = Mandelbrot =>
       \A x \in Columns, y \in Rows : AtColumn(x, y) < step => Painted(x, y)
  /\ renderType = Fractal =>
       /\ \A x \in Columns, y \in Rows :
            /\ AtColumn(x, y) < step => count[<<x, y>>] # Blank
            /\ AtRow(x, y) < step - PixelCount => Painted(x, y)
       /\ \A p \in Pixels : count[p] # 256
  /\ renderType = Mandelbrot => step <= PixelCount

PInv == TypeOK /\ Progress

\* A number of iterations is not the mark of a pixel that has none.
LEMMA CountsTyped == \A k \in Counts : k \in 0..256 /\ k # Blank
<1>1. Blank \notin 0..256
  BY DEF Blank
<1> QED BY <1>1, CountsAssumption

\* A colour has three bytes.
LEMMA ColorTyped ==
  ASSUME NEW p \in Pixels, NEW k \in 0..256, renderType \in {Mandelbrot, Fractal},
         renderType = Fractal => k # 256
  PROVE  \A c \in 1..3 : Color(p, k)[c] \in 0..255
<1>1. \A bound, n \in Nat : AtMost(bound, n) \in 0..bound
  BY DEF AtMost
<1>2. CASE renderType = Mandelbrot
  <2> DEFINE j == AtMost(255, k)
             grown(first) == 3 * AtMost(64, IF j < first THEN 0 ELSE j - first)
  <2>1. j \in 0..255
    BY DEF AtMost
  <2> HIDE DEF j
  <2>2. \A first \in Nat : (IF j < first THEN 0 ELSE j - first) \in Nat
    BY <2>1
  <2>3. \A first \in Nat : grown(first) \in 0..192
    <3> SUFFICES ASSUME NEW first \in Nat PROVE grown(first) \in 0..192
      OBVIOUS
    <3>1. AtMost(64, IF j < first THEN 0 ELSE j - first) \in 0..64
      BY <1>1, <2>2
    <3> QED BY <3>1
  <2>4. Color(p, k) = <<24 + grown(0), 16 + grown(64), grown(128)>>
    BY <1>2 DEF Color, Palette, j
  <2> HIDE DEF grown
  <2>5. grown(0) \in 0..192 /\ grown(64) \in 0..192 /\ grown(128) \in 0..192
    BY <2>3
  <2> QED BY <2>4, <2>5
<1>3. CASE renderType = Fractal
  <2>1. p[1] \in Nat /\ p[2] \in Nat
    BY Sizes DEF Pixels
  <2>2. (3 * p[1]) \div 10 \in Nat /\ (3 * p[2]) \div 10 \in Nat
    BY <2>1
  <2> DEFINE a == AtMost(255, (3 * p[1]) \div 10)
             b == AtMost(255, (3 * p[2]) \div 10)
  <2>3. a \in 0..255 /\ b \in 0..255
    BY <2>2 DEF AtMost
  <2>4. k \in 0..255
    BY <1>3
  <2>5. Color(p, k) = <<a, k, b>>
    BY <1>3 DEF Color, Mandelbrot, Fractal
  <2> HIDE DEF a, b
  <2> QED BY <2>3, <2>4, <2>5
<1> QED BY <1>2, <1>3

\* Storing a pixel's bytes at its place writes those and no others, and no byte
\* outside the bitmap.
LEMMA StoreWrites ==
  ASSUME TypeOK, NEW n \in 0..(PixelCount - 1), NEW color,
         \A c \in 1..3 : color[c] \in 0..255,
         Store(4 * n, color)
  PROVE  /\ buffer' \in [0..(4 * PixelCount - 1) -> 0..255 \cup {Blank}]
         /\ \A c \in 1..3 : buffer'[4 * n + c - 1] = color[c]
         /\ buffer'[4 * n + 3] = 255
         /\ \A m \in 0..(PixelCount - 1) \ {n} : \A j \in 0..3 :
              buffer'[4 * m + j] = buffer[4 * m + j]
<1> DEFINE idx == 4 * n
           D == 0..(4 * PixelCount - 1)
           new(b) == CASE b \in idx..(idx + 2) -> color[b - idx + 1]
                       [] b = idx + 3 -> 255
                       [] OTHER -> buffer[b]
<1>1. /\ n \in Nat /\ n + 1 <= PixelCount /\ PixelCount \in Nat
      /\ idx \in Nat /\ idx + 3 <= 4 * PixelCount - 1
  BY Sizes
<1>2. buffer \in [D -> 0..255 \cup {Blank}]
  BY DEF TypeOK
<1>3. D \cup (idx..(idx + 3)) = D
  BY <1>1
<1>4. DOMAIN buffer = D
  BY <1>2
<1>5. buffer' = [b \in D |-> new(b)]
  BY <1>3, <1>4 DEF Store
<1> HIDE DEF idx
<1>6. ASSUME NEW b \in D PROVE new(b) \in 0..255 \cup {Blank}
  <2>1. b \in Int
    BY <1>1
  <2>2. CASE b \in idx..(idx + 2)
    <3>1. b - idx + 1 \in 1..3
      BY <1>1, <2>1, <2>2
    <3>2. new(b) = color[b - idx + 1]
      BY <1>1, <2>2
    <3> QED BY <3>1, <3>2
  <2>3. CASE b = idx + 3
    BY <1>1, <2>3
  <2>4. CASE b \notin idx..(idx + 2) /\ b # idx + 3
    BY <1>2, <2>4
  <2> QED BY <2>2, <2>3, <2>4
<1>7. ASSUME NEW c \in 1..3 PROVE buffer'[idx + c - 1] = color[c]
  <2> DEFINE b == idx + c - 1
  <2>1. b \in D /\ b \in idx..(idx + 2) /\ b - idx + 1 = c /\ b # idx + 3
    BY <1>1 DEF idx
  <2> HIDE DEF b
  <2>2. new(b) = color[c]
    BY <2>1
  <2> QED BY <1>5, <2>1, <2>2 DEF b
<1>8. buffer'[idx + 3] = 255
  <2>1. idx + 3 \in D /\ idx + 3 \notin idx..(idx + 2)
    BY <1>1
  <2> QED BY <1>5, <2>1
<1>9. ASSUME NEW m \in 0..(PixelCount - 1) \ {n}, NEW j \in 0..3
      PROVE  buffer'[4 * m + j] = buffer[4 * m + j]
  <2> DEFINE b == 4 * m + j
  <2>1. b \in D /\ b \notin idx..(idx + 2) /\ b # idx + 3
    <3>1. m \in Nat /\ m + 1 <= PixelCount /\ (m + 1 <= n \/ n + 1 <= m)
      BY <1>1
    <3> QED BY <1>1, <3>1 DEF idx
  <2> HIDE DEF b
  <2>2. new(b) = buffer[b]
    BY <2>1
  <2> QED BY <1>5, <2>1, <2>2 DEF b
<1> QED BY <1>5, <1>6, <1>7, <1>8, <1>9 DEF idx

-----------------------------------------------------------------------------
\* A place between two places, and the places of what a renderer walks over.
LEMMA Steps ==
  ASSUME TypeOK, NEW x \in Columns, NEW y \in Rows
  PROVE  /\ step \in Nat /\ PixelCount \in Nat
         /\ AtColumn(x, y) \in Nat /\ AtColumn(x, y) < PixelCount
         /\ AtRow(x, y) \in Nat /\ AtRow(x, y) < PixelCount
         /\ <<x, y>> \in Pixels
<1>1. AtColumn(x, y) \in 0..(PixelCount - 1) /\ AtRow(x, y) \in 0..(PixelCount - 1)
  BY Places
<1> QED BY <1>1, Sizes DEF TypeOK, Columns, Rows, Pixels

\* What was painted stays so when another pixel is drawn.
LEMMA PaintedStays ==
  ASSUME TypeOK, NEW x \in Columns, NEW y \in Rows, Painted(x, y),
         NEW n \in 0..(PixelCount - 1), AtRow(x, y) # n,
         count'[<<x, y>>] = count[<<x, y>>], renderType' = renderType,
         \A m \in 0..(PixelCount - 1) \ {n} : \A j \in 0..3 :
           buffer'[4 * m + j] = buffer[4 * m + j]
  PROVE  Painted(x, y)'
<1> DEFINE m == AtRow(x, y)
<1>1. m \in 0..(PixelCount - 1) \ {n} /\ m \in Nat
  BY Steps
<1>2. \A j \in 0..3 : buffer'[4 * m + j] = buffer[4 * m + j]
  BY <1>1
<1>3. \A p, k : Color(p, k)' = Color(p, k)
  BY DEF Color
<1> HIDE DEF m
<1>4. \A c \in 1..3 : buffer'[4 * m + c - 1] = buffer[4 * m + c - 1]
  <2> SUFFICES ASSUME NEW c \in 1..3
               PROVE  buffer'[4 * m + c - 1] = buffer[4 * m + c - 1]
    OBVIOUS
  <2>1. c - 1 \in 0..3 /\ 4 * m + c - 1 = 4 * m + (c - 1)
    BY <1>1
  <2> QED BY <1>2, <2>1
<1>5. buffer'[4 * m + 3] = buffer[4 * m + 3]
  BY <1>2
<1> QED BY <1>3, <1>4, <1>5 DEF Painted, m

\* mandelbrot paints the next pixel of a column.
LEMMA MandelbrotKeeps ==
  ASSUME PInv, DrawMandelbrot PROVE PInv'
<1>1. TypeOK /\ renderType = Mandelbrot /\ step < PixelCount /\ renderType' = renderType
      /\ step' = step + 1 /\ step \in 0..(PixelCount - 1)
  BY Sizes DEF PInv, TypeOK, DrawMandelbrot
<1>2. PICK v \in Columns, w \in Rows : ByColumn(step) = <<v, w>> /\ AtColumn(v, w) = step
  BY <1>1, Places
<1> DEFINE p == <<v, w>>
           n == AtRow(v, w)
<1>3. PICK k \in Counts : count' = [count EXCEPT ![p] = k]
                          /\ Store(Index(p), Color(p, k))
  BY <1>2 DEF DrawMandelbrot
<1>4. p \in Pixels /\ n \in 0..(PixelCount - 1) /\ Index(p) = 4 * n
      /\ k \in 0..256 /\ k # Blank
  <2>1. p \in Pixels /\ n \in 0..(PixelCount - 1)
    BY <1>1, Places, Steps
  <2>2. k \in 0..256 /\ k # Blank
    BY CountsTyped
  <2> QED BY <2>1, <2>2 DEF Index, AtRow
<1>5. \A c \in 1..3 : Color(p, k)[c] \in 0..255
  <2>1. renderType # Fractal
    BY <1>1 DEF Mandelbrot, Fractal
  <2> QED BY Zenon, <1>1, <1>4, <2>1, ColorTyped
<1>6. /\ buffer' \in [0..(4 * PixelCount - 1) -> 0..255 \cup {Blank}]
      /\ \A c \in 1..3 : buffer'[4 * n + c - 1] = Color(p, k)[c]
      /\ buffer'[4 * n + 3] = 255
      /\ \A m \in 0..(PixelCount - 1) \ {n} : \A j \in 0..3 :
           buffer'[4 * m + j] = buffer[4 * m + j]
  <2> DEFINE color == Color(p, k)
  <2>1. TypeOK /\ n \in 0..(PixelCount - 1) /\ Store(4 * n, color)
    BY <1>1, <1>3, <1>4
  <2>2. \A c \in 1..3 : color[c] \in 0..255
    BY <1>5
  <2> HIDE DEF n, p, color
  <2>3. /\ buffer' \in [0..(4 * PixelCount - 1) -> 0..255 \cup {Blank}]
        /\ \A c \in 1..3 : buffer'[4 * n + c - 1] = color[c]
        /\ buffer'[4 * n + 3] = 255
        /\ \A m \in 0..(PixelCount - 1) \ {n} : \A j \in 0..3 :
             buffer'[4 * m + j] = buffer[4 * m + j]
    BY <2>1, <2>2, StoreWrites
  <2> QED BY <2>3 DEF color
<1>7. count' \in [Pixels -> Counts \cup {Blank}] /\ count'[p] = k
      /\ \A q \in Pixels \ {p} : count'[q] = count[q]
  BY <1>1, <1>3, <1>4 DEF TypeOK
<1>8. step' \in 0..(2 * PixelCount) /\ step' <= PixelCount
  BY <1>1, Sizes
<1>9. TypeOK'
  BY <1>1, <1>6, <1>7, <1>8 DEF TypeOK
<1>10. ASSUME NEW x \in Columns, NEW y \in Rows, AtColumn(x, y) < step'
       PROVE  Painted(x, y)'
  <2>1. CASE AtColumn(x, y) = step
    <3>1. x = v /\ y = w
      BY <1>2, <2>1, PlacesUnique
    <3>2. Color(p, k)' = Color(p, k)
      BY <1>1 DEF Color
    <3> QED BY <1>4, <1>6, <1>7, <3>1, <3>2 DEF Painted
  <2>2. CASE AtColumn(x, y) # step
    <3>1. AtColumn(x, y) < step /\ <<x, y>> \in Pixels
      BY <1>1, <1>10, <2>2, Steps
    <3>2. Painted(x, y)
      BY <1>1, <3>1 DEF PInv, Progress
    <3>3. x # v \/ y # w
      BY <1>2, <2>2
    <3>4. AtRow(x, y) # n
      BY <3>3, PlacesUnique
    <3>5. count'[<<x, y>>] = count[<<x, y>>]
      BY <1>7, <3>1, <3>3
    <3> HIDE DEF n
    <3> QED BY <1>1, <1>4, <1>6, <3>2, <3>4, <3>5, PaintedStays
  <2> QED BY <2>1, <2>2
<1>11. Progress'
  BY <1>1, <1>8, <1>10 DEF Progress, Mandelbrot, Fractal
<1> QED BY <1>9, <1>11 DEF PInv

\* fractal counts the next pixel of a column of its image.
LEMMA FractalKeeps ==
  ASSUME PInv, DrawFractal PROVE PInv'
<1>1. TypeOK /\ renderType = Fractal /\ step < PixelCount /\ renderType' = renderType
      /\ step' = step + 1 /\ step \in 0..(PixelCount - 1) /\ buffer' = buffer
  BY Sizes DEF PInv, TypeOK, DrawFractal
<1>2. PICK v \in Columns, w \in Rows : ByColumn(step) = <<v, w>> /\ AtColumn(v, w) = step
  BY <1>1, Places
<1>3. PICK k \in Counts \ {256} : count' = [count EXCEPT ![<<v, w>>] = k]
  BY <1>2 DEF DrawFractal
<1>4. k \in Counts /\ k # Blank /\ k # 256 /\ <<v, w>> \in Pixels
  BY <1>1, Steps, CountsAssumption DEF Blank
<1>5. /\ count' \in [Pixels -> Counts \cup {Blank}]
      /\ count'[<<v, w>>] = k
      /\ \A q \in Pixels \ {<<v, w>>} : count'[q] = count[q]
  BY <1>1, <1>3, <1>4 DEF TypeOK
<1>6. TypeOK'
  BY <1>1, <1>5, Sizes DEF TypeOK
<1>7. ASSUME NEW x \in Columns, NEW y \in Rows
      PROVE  /\ AtColumn(x, y) < step' => count'[<<x, y>>] # Blank
             /\ ~(AtRow(x, y) < step' - PixelCount)
  <2>1. /\ <<x, y>> \in Pixels
        /\ AtColumn(x, y) \in Nat
        /\ AtRow(x, y) \in Nat
    BY <1>1, Steps
  <2>2. ~(AtRow(x, y) < step' - PixelCount)
    BY <1>1, <2>1, Sizes
  <2>3. CASE AtColumn(x, y) = step
    <3>1. x = v /\ y = w
      BY <1>2, <2>3, PlacesUnique
    <3> QED BY <1>4, <1>5, <2>2, <3>1
  <2>4. CASE AtColumn(x, y) # step
    <3>1. AtColumn(x, y) < step' => AtColumn(x, y) < step
      BY <1>1, <2>1, <2>4
    <3>2. <<x, y>> # <<v, w>>
      BY <1>2, <2>4
    <3>3. AtColumn(x, y) < step => count[<<x, y>>] # Blank
      BY <1>1 DEF PInv, Progress
    <3> QED BY <1>5, <2>1, <2>2, <3>1, <3>2, <3>3
  <2> QED BY <2>3, <2>4
<1>8. \A q \in Pixels : count'[q] # 256
  BY <1>1, <1>4, <1>5 DEF PInv, Progress
<1>9. Progress'
  BY <1>1, <1>7, <1>8 DEF Progress, Mandelbrot, Fractal
<1> QED BY <1>6, <1>9 DEF PInv

\* Then it copies the next pixel of a row.
LEMMA CopyKeeps ==
  ASSUME PInv, CopyFractal PROVE PInv'
<1> DEFINE n == step - PixelCount
<1>1. /\ TypeOK /\ renderType = Fractal /\ renderType' = renderType
      /\ step' = step + 1 /\ step \in Nat /\ step >= PixelCount
      /\ n \in 0..(PixelCount - 1) /\ count' = count
      /\ step' \in 0..(2 * PixelCount)
  BY Sizes DEF PInv, TypeOK, CopyFractal
<1>2. PICK v \in Columns, w \in Rows : ByRow(n) = <<v, w>> /\ AtRow(v, w) = n
  BY <1>1, Places
<1> DEFINE p == <<v, w>>
           k == count[p]
<1>3. Store(4 * n, Color(p, k))
  BY <1>2 DEF CopyFractal
<1>4. p \in Pixels /\ k \in 0..256 /\ k # 256 /\ k # Blank
  <2>1. p \in Pixels /\ AtColumn(v, w) < step
    BY <1>1, Steps
  <2>2. k # Blank /\ k # 256
    BY <1>1, <2>1 DEF PInv, Progress
  <2>3. k \in Counts
    <3>1. count \in [Pixels -> Counts \cup {Blank}]
      BY <1>1 DEF TypeOK
    <3> HIDE DEF p
    <3> QED BY <2>1, <2>2, <3>1
  <2> QED BY <2>1, <2>2, <2>3, CountsAssumption
<1> HIDE DEF n, k
<1>5. \A c \in 1..3 : Color(p, k)[c] \in 0..255
  <2>1. renderType \in {Mandelbrot, Fractal}
    BY <1>1
  <2> HIDE DEF p
  <2> QED BY Zenon, <1>1, <1>4, <2>1, ColorTyped
<1>6. /\ buffer' \in [0..(4 * PixelCount - 1) -> 0..255 \cup {Blank}]
      /\ \A c \in 1..3 : buffer'[4 * n + c - 1] = Color(p, k)[c]
      /\ buffer'[4 * n + 3] = 255
      /\ \A m \in 0..(PixelCount - 1) \ {n} : \A j \in 0..3 :
           buffer'[4 * m + j] = buffer[4 * m + j]
  BY <1>1, <1>3, <1>5, StoreWrites
<1>7. TypeOK'
  BY <1>1, <1>6 DEF TypeOK
<1>8. ASSUME NEW x \in Columns, NEW y \in Rows
      PROVE  /\ count'[<<x, y>>] # Blank
             /\ AtRow(x, y) < step' - PixelCount => Painted(x, y)'
  <2>1. <<x, y>> \in Pixels /\ AtColumn(x, y) < step /\ AtRow(x, y) \in Nat
    BY <1>1, Steps, Sizes
  <2>2. count'[<<x, y>>] # Blank
    BY <1>1, <2>1 DEF PInv, Progress
  <2>3. ASSUME AtRow(x, y) < step' - PixelCount PROVE Painted(x, y)'
    <3>1. CASE AtRow(x, y) = n
      <4>1. x = v /\ y = w
        BY <1>2, <3>1, PlacesUnique
      <4>2. Color(p, k)' = Color(p, k)
        BY <1>1 DEF Color, k
      <4>3. k = count'[p] /\ AtRow(x, y)' = n
        BY <1>1, <3>1 DEF k, AtRow
      <4>4. \A c \in 1..3 : Color(<<x, y>>, count[<<x, y>>])'[c] = Color(p, k)[c]
        BY <1>1, <4>1 DEF Color, k
      <4> QED BY <1>6, <2>2, <3>1, <4>1, <4>3, <4>4 DEF Painted
    <3>2. CASE AtRow(x, y) # n
      <4>1. AtRow(x, y) < step - PixelCount
        BY <1>1, <2>1, <2>3, <3>2, Sizes DEF n
      <4>2. Painted(x, y)
        BY <1>1, <4>1 DEF PInv, Progress
      <4> QED BY <1>1, <1>6, <3>2, <4>2, PaintedStays
    <3> QED BY <3>1, <3>2
  <2> QED BY <2>2, <2>3
<1>9. Progress'
  BY <1>1, <1>8 DEF PInv, Progress, Mandelbrot, Fractal
<1> QED BY <1>7, <1>9 DEF PInv

-----------------------------------------------------------------------------
\* The inductive invariant holds throughout.
LEMMA PInvHolds == Spec => []PInv
<1>1. Init => PInv
  <2> SUFFICES ASSUME Init PROVE PInv
    OBVIOUS
  <2>1. TypeOK
    BY Sizes DEF Init, TypeOK
  <2>2. Progress
    <3>1. \A x \in Columns, y \in Rows :
            ~(AtColumn(x, y) < step) /\ ~(AtRow(x, y) < step - PixelCount)
      <4> SUFFICES ASSUME NEW x \in Columns, NEW y \in Rows
                   PROVE  /\ ~(AtColumn(x, y) < step)
                          /\ ~(AtRow(x, y) < step - PixelCount)
        OBVIOUS
      <4>1. /\ step = 0 /\ PixelCount \in Nat
            /\ AtColumn(x, y) \in Nat /\ AtRow(x, y) \in Nat
        BY <2>1, Steps DEF Init
      <4> QED BY <4>1
    <3>2. \A p \in Pixels : count[p] # 256
      BY DEF Init, Blank
    <3> QED BY <3>1, <3>2, Sizes DEF Init, Progress
  <2> QED BY <2>1, <2>2 DEF PInv
<1>2. PInv /\ [Next]_vars => PInv'
  <2> SUFFICES ASSUME PInv, [Next]_vars PROVE PInv'
    OBVIOUS
  <2>1. CASE UNCHANGED vars
    BY <2>1 DEF vars, PInv, TypeOK, Progress, Painted, Color
  <2> QED BY <2>1, MandelbrotKeeps, FractalKeeps, CopyKeeps DEF Next
<1> QED BY <1>1, <1>2, PTL DEF Spec

\* No renderer writes outside the bitmap, nor anything but bytes into it.
THEOREM TypeCorrect == Spec => []TypeOK
<1>1. PInv => TypeOK
  BY DEF PInv
<1> QED BY <1>1, PInvHolds, PTL

\* A finished picture is whole, for every width and height.
THEOREM PictureIsWholeThm == Spec => []PictureIsWhole
<1>1. PInv => PictureIsWhole
  <2> SUFFICES ASSUME PInv, IsDone, NEW x \in Columns, NEW y \in Rows
               PROVE  LET at == y * (4 * Width) + 4 * x
                      IN  /\ count[<<x, y>>] # Blank
                          /\ \A c \in 1..3 :
                               buffer[at + c - 1] = Color(<<x, y>>, count[<<x, y>>])[c]
                          /\ buffer[at + 3] = 255
    BY DEF PictureIsWhole, Columns, Rows
  <2>1. y * (4 * Width) + 4 * x = 4 * AtRow(x, y)
    <3>1. x \in Nat /\ y \in Nat /\ Width \in Nat
      BY Sizes DEF Columns, Rows
    <3> QED BY <3>1 DEF AtRow
  <2>2. Painted(x, y)
    <3>1. TypeOK /\ renderType \in {Mandelbrot, Fractal}
      BY DEF PInv, TypeOK
    <3>2. CASE renderType = Mandelbrot
      <4>1. AtColumn(x, y) < step
        BY <3>1, <3>2, Steps DEF IsDone
      <4> QED BY <3>2, <4>1 DEF PInv, Progress
    <3>3. CASE renderType = Fractal
      <4>1. AtRow(x, y) < step - PixelCount
        <5>1. step = 2 * PixelCount
          BY <3>3 DEF IsDone, Mandelbrot, Fractal
        <5>2. AtRow(x, y) \in Nat /\ AtRow(x, y) < PixelCount /\ PixelCount \in Nat
          BY <3>1, Steps
        <5> QED BY <5>1, <5>2
      <4> QED BY <3>3, <4>1 DEF PInv, Progress
    <3> QED BY <3>1, <3>2, <3>3
  <2> QED BY <2>1, <2>2 DEF Painted
<1> QED BY <1>1, PInvHolds, PTL
=============================================================================
