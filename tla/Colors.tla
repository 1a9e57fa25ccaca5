------------------------------- MODULE Colors -------------------------------
(***************************************************************************)
(* The pixel formats of vv-vision and the conversions between them         *)
(* (buffer/conv).  A pixel is a sequence of bytes; two pixels in YUYV are  *)
(* the four bytes <<y1, u, y2, v>>.  The arithmetic is that of the machine *)
(* integers the code uses; Wrap16 is what their i16 multiplication leaves  *)
(* in a build without overflow checks.                                     *)
(***************************************************************************)
EXTENDS Integers, Sequences

Named == {"LUMA", "RGB", "HSV", "YCC", "RGBA", "YUYV"}

\* The formats of one to four unnamed channels.
Anon == <<"?1", "?2", "?3", "?4">>
IsAnon(format) == format \notin Named

PixelSize(format) ==
    CASE format = "LUMA" -> 1
      [] format = "YUYV" -> 2
      [] format \in {"RGB", "HSV", "YCC"} -> 3
      [] format = "RGBA" -> 4
      [] OTHER -> CHOOSE n \in 1..4 : Anon[n] = format

-----------------------------------------------------------------------------

Wrap16(n) == ((n + 32768) % 65536) - 32768
Quot(a, b) == IF a >= 0 THEN a \div b ELSE -((-a) \div b)    \* truncates, as / does
Clamp(n) == IF n < 0 THEN 0 ELSE IF n > 255 THEN 255 ELSE n
Abs(n) == IF n < 0 THEN -n ELSE n
Max3(a, b, c) == CHOOSE m \in {a, b, c} : \A n \in {a, b, c} : m >= n
Min3(a, b, c) == CHOOSE m \in {a, b, c} : \A n \in {a, b, c} : m <= n
MidPoint(a, b) == (a + b) \div 2

Hsv2Rgb(p) ==
    LET h == p[1]  s == p[2]  v == p[3]
        c0 == (v * s) \div 256
        x0 == (c0 * (43 - Abs((h % 85) - 43))) \div 43
        m  == v - c0
        c  == Clamp(c0 + m)
        x  == Clamp(x0 + m)
    IN  IF s = 0 THEN <<v, v, v>>
        ELSE CASE h \div 43 = 0 -> <<c, x, m>>
               [] h \div 43 = 1 -> <<x, c, m>>
               [] h \div 43 = 2 -> <<m, c, x>>
               [] h \div 43 = 3 -> <<m, x, c>>
               [] h \div 43 = 4 -> <<x, m, c>>
               [] OTHER -> <<c, m, x>>

Rgb2Hsv(p) ==
    LET r == p[1]  g == p[2]  b == p[3]
        most  == Max3(r, g, b)
        delta == most - Min3(r, g, b)
        h16   == IF most = r THEN Quot(43 * (g - b), delta)
                 ELSE IF most = g THEN 85 + Quot(43 * (b - r), delta)
                 ELSE 171 + Quot(43 * (r - g), delta)
    IN  IF delta = 0 THEN <<0, 0, most>>
        ELSE <<h16 % 256, Quot(Wrap16(255 * delta), most) % 256, most>>

Rgb2Ycc(p) ==
    LET r == p[1]  g == p[2]  b == p[3]
    IN  <<Clamp(Quot(r * 77 + g * 150 + b * 29, 256)),
          Clamp(Quot(-43 * r - 85 * g + 128 * b, 256) + 128),
          Clamp(Quot(128 * r - 107 * g - 21 * b, 256) + 128)>>

Rgb2Luma(p) == Clamp((p[1] * 77 + p[2] * 150 + p[3] * 29) \div 256)

Ycc2Rgb(p) ==
    LET y == p[1]  cb == p[2] - 128  cr == p[3] - 128
    IN  <<Clamp(Quot(256 * y + 359 * cr, 256)),
          Clamp(Quot(256 * y - (88 * cb + 183 * cr), 256)),
          Clamp(Quot(256 * y + 454 * cb, 256))>>

-----------------------------------------------------------------------------
(* ConvertBroadcast::par_run, of one pixel, or two when YUYV is involved.  *)

ToRgb(format, p) ==
    CASE format = "LUMA" -> <<p[1], p[1], p[1]>>
      [] format = "HSV" -> Hsv2Rgb(p)
      [] format = "YCC" -> Ycc2Rgb(p)
      [] OTHER -> SubSeq(p, 1, 3)

FromRgb(format, p) ==
    CASE format = "LUMA" -> <<Rgb2Luma(p)>>
      [] format = "RGB" -> p
      [] format = "HSV" -> Rgb2Hsv(p)
      [] format = "YCC" -> Rgb2Ycc(p)
      [] format = "RGBA" -> p \o <<255>>

\* Neither format is YUYV.
ConvertPixel(src, dst, p) ==
    IF IsAnon(src) \/ IsAnon(dst)
    THEN [n \in 1..PixelSize(dst) |-> IF n <= Len(p) THEN p[n] ELSE 0]
    ELSE IF src = "LUMA" /\ dst = "YCC" THEN <<p[1], 128, 128>>
    ELSE FromRgb(dst, ToRgb(src, p))

\* A pixel's half of the pair it is stored in.
Ycc(src, p) == ConvertPixel(src, "YCC", p)

ConvertToPair(src, p, q) ==
    LET a == IF src = "YCC" THEN p ELSE Ycc(src, p)
        b == IF src = "YCC" THEN q ELSE Ycc(src, q)
    IN  IF IsAnon(src)
        THEN [n \in 1..4 |-> IF n <= Len(p \o q) THEN (p \o q)[n] ELSE 0]
        ELSE IF src = "LUMA" THEN <<p[1], 128, q[1], 128>>
        ELSE <<a[1], MidPoint(a[2], b[2]), b[1], MidPoint(a[3], b[3])>>

ConvertFromPair(dst, four) ==
    LET a == <<four[1], four[2], four[4]>>
        b == <<four[3], four[2], four[4]>>
        One(p) == IF dst = "YCC" THEN p
                  ELSE IF dst = "LUMA" THEN <<p[1]>>
                  ELSE FromRgb(dst, Ycc2Rgb(p))
    IN  IF IsAnon(dst)
        THEN [n \in 1..(2 * PixelSize(dst)) |-> IF n <= 4 THEN four[n] ELSE 0]
        ELSE One(a) \o One(b)

\* The pixel sizes of the chunks: sizes().
ChunkSizes(src, dst) ==
    IF "YUYV" \in {src, dst}
    THEN <<(IF src = "YUYV" THEN 4 ELSE 2 * PixelSize(src)),
           (IF dst = "YUYV" THEN 4 ELSE 2 * PixelSize(dst))>>
    ELSE <<PixelSize(src), PixelSize(dst)>>

ConvertChunk(src, dst, chunk) ==
    CASE src = dst -> chunk
      [] src = "YUYV" -> ConvertFromPair(dst, chunk)
      [] dst = "YUYV" -> LET n == PixelSize(src)
                         IN  ConvertToPair(src, SubSeq(chunk, 1, n), SubSeq(chunk, n + 1, 2 * n))
      [] OTHER -> ConvertPixel(src, dst, chunk)
=============================================================================
