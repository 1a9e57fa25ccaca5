------------------------------- MODULE Images -------------------------------
(***************************************************************************)
(* The image processing of vv-vision as the vision components use it: each *)
(* takes the image that the one before it has made and makes another.  The *)
(* bytes of a Buffer are a sequence, as in the code, and every operation   *)
(* finds its pixels by the index arithmetic of the code; Shown() is what   *)
(* the bytes mean.  `past' keeps what was done and to which image.         *)
(***************************************************************************)
EXTENDS Colors, FiniteSets, SequencesExt

CONSTANTS
    Photos,     \* the images to begin with
    MaxSteps,   \* components in a row
    Formats,    \* of color-space components
    Filters,    \* of filter components: [space, min, max]
    Windows,    \* of filters and blurs, <<width, height>>
    Kernels,    \* coefficients of Gaussian blurs, from the middle outwards
    Sizes,      \* of resize components, <<width, height>>
    Extracts,   \* of swizzles
    Lines       \* to draw, [x0, y0, x1, y1, space, color]

\* What TryFrom<FilterShim> and its like accept; the size of no image is zero.
ASSUME ShimAssumption ==
    /\ \A win \in Windows : win[1] % 2 = 1 /\ win[2] % 2 = 1
    /\ \A size \in Sizes : size[1] > 0 /\ size[2] > 0
    /\ \A k \in Kernels : k[1] > 0

VARIABLES image, past
imageVars == <<image, past>>

-----------------------------------------------------------------------------
(* Buffer                                                                  *)

Buffer(width, height, format, data) ==
    [width |-> width, height |-> height, format |-> format, data |-> data]

ExpectedSize(b) == b.width * b.height * PixelSize(b.format)

\* resize_data() of a buffer with this data.
Resized(data, count) == [n \in 1..count |-> IF n <= Len(data) THEN data[n] ELSE 0]

\* chunks_exact(size), numbered from 0.
NumChunks(data, size) == Len(data) \div size
Chunk(data, size, n) == SubSeq(data, n * size + 1, (n + 1) * size)
Chunks(data, size) == [n \in 1..NumChunks(data, size) |-> Chunk(data, size, n - 1)]

\* par_broadcast2: the chunks that are made of those of the source, and those of `dst',
\* are taken in step; what is left of `dst' stays as it is.
Broadcast(made, dst, size) ==
    LET Copied(n) == n <= Len(made) /\ n <= NumChunks(dst, size)
    IN  [i \in DOMAIN dst |-> LET n == ((i - 1) \div size) + 1
                              IN  IF Copied(n) THEN made[n][((i - 1) % size) + 1] ELSE dst[i]]

Zeros(n) == [i \in 1..n |-> 0]

\* convert().
Converted(b, format) ==
    LET out    == Resized(<<>>, b.width * b.height * PixelSize(format))
        sizes  == ChunkSizes(b.format, format)
        from   == Chunks(b.data, sizes[1])
        made   == [n \in DOMAIN from |-> ConvertChunk(b.format, format, from[n])]
    IN  IF b.format = format THEN b
        ELSE Buffer(b.width, b.height, format, Broadcast(made, out, sizes[2]))

\* convert_inplace(): between an unnamed format and one of the same size only the name
\* changes.
ConvertedInPlace(b, format) ==
    IF PixelSize(b.format) = PixelSize(format) /\ (IsAnon(b.format) \/ IsAnon(format))
    THEN [b EXCEPT !.format = format]
    ELSE Converted(b, format)

\* Where pixel() and its kin look: the first byte of the pixel and how many.
PixelAt(b, x, y) ==
    LET count == IF b.format = "YUYV" THEN 4 ELSE PixelSize(b.format)
        col == IF b.format = "YUYV" THEN x - (x % 2) ELSE x
    IN  [start |-> (y * b.width + col) * count, len |-> count]

InRange(b, x, y) ==
    LET at == PixelAt(b, x, y)
    IN  /\ x < b.width /\ y < b.height
        /\ b.format = "YUYV" => x - (x % 2) + 1 < b.width
        /\ at.start + at.len <= Len(b.data)

Pixel(b, x, y) == LET at == PixelAt(b, x, y) IN SubSeq(b.data, at.start + 1, at.start + at.len)

SetPixel(b, x, y, color) ==
    LET at   == PixelAt(b, x, y).start
        Set(k, v) == <<at + k + 1, v>>
        sets == IF b.format = "YUYV"
                THEN {Set(1, color[2]), Set(3, color[3]), Set(IF x % 2 = 1 THEN 2 ELSE 0, color[1])}
                ELSE {Set(k - 1, color[k]) : k \in DOMAIN color}
    IN  IF ~InRange(b, x, y) THEN b
        ELSE [b EXCEPT !.data = [i \in DOMAIN @ |->
                 IF \E s \in sets : s[1] = i THEN (CHOOSE s \in sets : s[1] = i)[2] ELSE @[i]]]

-----------------------------------------------------------------------------
(* The filters                                                             *)

\* color_filter() into an empty buffer, as ColorFilterComponent calls it.  Of a
\* YUYV filter the data of the destination is not sized first.
Filtered(b, filter) ==
    LET src == ConvertedInPlace(b, filter.space)
        Within(v, c) == filter.min[c] <= v /\ v <= filter.max[c]
        White(is) == IF is THEN 255 ELSE 0
        Pair(c) == LET uv == Within(c[2], 2) /\ Within(c[4], 3)
                   IN  <<White(uv /\ Within(c[1], 1)), White(uv /\ Within(c[3], 1))>>
        One(c) == <<White(\A k \in DOMAIN c : Within(c[k], k))>>
        from == Chunks(src.data, IF filter.space = "YUYV" THEN 4 ELSE PixelSize(filter.space))
    IN  Buffer(b.width, b.height, "LUMA",
               IF filter.space = "YUYV"
               THEN Broadcast([n \in DOMAIN from |-> Pair(from[n])], <<>>, 2)
               ELSE Broadcast([n \in DOMAIN from |-> One(from[n])], Zeros(b.width * b.height), 1))

Low(a, b) == IF b < a THEN b ELSE a
High(a, b) == IF b > a THEN b ELSE a

\* The rows or columns around `n' that a window of this half width reaches.
Reach(n, half, size) == High(n - half, 0)..Low(n + half, size - 1)

\* select_nth_unstable of the values of f.
Nth(f, n) ==
    CHOOSE v \in {f[p] : p \in DOMAIN f} :
        /\ Cardinality({p \in DOMAIN f : f[p] < v}) <= n
        /\ n < Cardinality({p \in DOMAIN f : f[p] <= v})

\* Mutated form: the index is divided first.
ScaledFirst(rank, count, full) == IF count = full THEN rank ELSE (rank \div full) * count

\* At the edges there are fewer pixels, and the index is scaled down.
Scaled(rank, count, full) == IF count = full THEN rank ELSE (rank * count) \div full

Percentile(b, win, rank) ==
    LET n == PixelSize(b.format)
        At(i) ==
            LET px   == (i - 1) \div n
                x    == px % b.width
                y    == px \div b.width
                near == [p \in Reach(x, win[1] \div 2, b.width) \X Reach(y, win[2] \div 2, b.height)
                            |-> Pixel(b, p[1], p[2])[((i - 1) % n) + 1]]
            IN  Nth(near, Scaled(rank, Cardinality(DOMAIN near), win[1] * win[2]))
    IN  IF win = <<1, 1>> THEN b ELSE [b EXCEPT !.data = [i \in DOMAIN @ |-> At(i)]]

\* What the first n coefficients add up to.
Cum(coeffs, n) == FoldLeft(LAMBDA sum, c : sum + c, 0, SubSeq(coeffs, 1, n))

\* One pass of a blur: every byte becomes the weighted mean of those `mul' bytes
\* apart from it, `line' of them in a row or column; the total of the weights is
\* taken from the running sums of the coefficients.
Pass(b, down, half, coeffs) ==
    LET n    == PixelSize(b.format)
        mul  == IF down THEN b.width * n ELSE n
        line == IF down THEN b.height ELSE b.width
        At(i) ==
            LET px    == (i - 1) \div n
                here  == IF down THEN px \div b.width ELSE px % b.width
                start == (i - 1) - here * mul
                near  == SetToSeq(Reach(here, half, line))
                before == here - High(here - half, 0)
                after  == Low(here + half, line - 1) - here
            IN  FoldLeft(LAMBDA sum, k : sum + b.data[start + k * mul + 1] * coeffs[Abs(k - here) + 1],
                         0, near)
                    \div (Cum(coeffs, after + 1) + Cum(coeffs, before + 1) - Cum(coeffs, 1))
    IN  [b EXCEPT !.data = [i \in DOMAIN @ |-> At(i)]]

GaussianBlurred(b, win, coeffs) ==
    LET tall == IF win[2] > 1 THEN Pass(b, TRUE, win[2] \div 2, coeffs) ELSE b
    IN  IF win[1] > 1 THEN Pass(tall, FALSE, win[1] \div 2, coeffs) ELSE tall

\* The same with the weight 1: its total counts the pixels.
BoxBlurred(b, win) == GaussianBlurred(b, win, [n \in 1..(High(win[1], win[2]) + 1) |-> 1])

\* Where resize() takes byte i of the new image from.  Of a YUYV image it takes
\* two pixels at a time but still divides by the width in pixels.
ResizeChunk(b) == IF b.format = "YUYV" THEN 4 ELSE PixelSize(b.format)
ResizeWidth(b, size) == IF b.format = "YUYV" THEN size[1] + (size[1] % 2) ELSE size[1]
ResizeLen(b, size) == ResizeWidth(b, size) * size[2] * PixelSize(b.format)
ResizeFrom(b, size, i) ==
    LET n == (i - 1) \div ResizeChunk(b)
        x == ((n % ResizeWidth(b, size)) * b.width) \div ResizeWidth(b, size)
        y == ((n \div ResizeWidth(b, size)) * b.height) \div size[2]
    IN  PixelAt(b, x, y).start + ((i - 1) % ResizeChunk(b)) + 1

\* What a read past the end brings is not defined: such a resize is left out.
ResizeDefined(b, size) ==
    \A i \in 1..ResizeLen(b, size) : ResizeFrom(b, size, i) <= Len(b.data)
ResizedTo(b, size) ==
    Buffer(ResizeWidth(b, size), size[2], b.format,
           [i \in 1..ResizeLen(b, size) |-> b.data[ResizeFrom(b, size, i)]])

\* Swizzle and YuyvSwizzle.
Swizzled(b, extract) ==
    LET n == Len(extract)
        Channel(p, from) == IF from < Len(p) THEN p[from + 1] ELSE 0
        Extracted(p) == [k \in 1..n |-> Channel(p, extract[k])]
        Pair(c) == Extracted(<<c[1], c[2], c[4]>>) \o Extracted(<<c[3], c[2], c[4]>>)
        out == Zeros(b.width * b.height * n)
        from == Chunks(b.data, IF b.format = "YUYV" THEN 4 ELSE PixelSize(b.format))
    IN  Buffer(b.width, b.height, Anon[n],
               IF b.format = "YUYV"
               THEN Broadcast([k \in DOMAIN from |-> Pair(from[k])], out, 2 * n)
               ELSE Broadcast([k \in DOMAIN from |-> Extracted(from[k])], out, n))

-----------------------------------------------------------------------------
(* DrawLineIterator, Line::draw and DrawComponent::run                     *)

Toward(a, b) == IF a < b THEN a + 1 ELSE IF a > b THEN a - 1 ELSE a

RECURSIVE LineFrom(_, _, _, _, _, _)
LineFrom(x, y, line, dx, dy, err) ==
    IF x = line.x1 /\ y = line.y1 THEN <<>>
    ELSE LET across == 2 * err >= dy
             along  == 2 * err <= dx
         IN  <<<<x, y>>>> \o LineFrom(IF across THEN Toward(x, line.x1) ELSE x,
                                      IF along THEN Toward(y, line.y1) ELSE y, line, dx, dy,
                                      err + (IF across THEN dy ELSE 0) + (IF along THEN dx ELSE 0))

LinePixels(line) ==
    LET dx == Abs(line.x1 - line.x0)
        dy == -Abs(line.y1 - line.y0)
    IN  LineFrom(line.x0, line.y0, line, dx, dy, dx + dy)
LineLen(line) == High(Abs(line.x1 - line.x0), Abs(line.y1 - line.y0))

LineDrawn(b, line) ==
    FoldLeft(LAMBDA acc, p : SetPixel(acc, p[1], p[2], line.color),
             Converted(b, line.space), LinePixels(line))

-----------------------------------------------------------------------------
(* The components, each with what it was told in its file.                 *)

ImageInit == image \in Photos /\ past = <<>>

\* The component submits `made'.
Did(name, arg, made) ==
    /\ Len(past) < MaxSteps
    /\ image' = made
    /\ past' = Append(past, [name |-> name, arg |-> arg, image |-> image])

Plain == image.format # "YUYV"      \* what the filters assert

ColorSpaceRun == \E f \in Formats : Did("color-space", f, Converted(image, f))
ColorFilterRun == \E f \in Filters : Did("filter", f, Filtered(image, f))

\* A percent filter is built with any index, and by "dilate", "erode" and
\* "median-filter" with these.
DilateIndex(win) == 0
ErodeIndex(win) == win[1] * win[2] - 1
MedianIndex(win) == (win[1] * win[2]) \div 2
Indices(win) == {DilateIndex(win), ErodeIndex(win), MedianIndex(win)} \cup 0..(win[1] * win[2] - 1)

PercentileRun ==
    /\ Plain
    /\ \E win \in Windows : \E rank \in Indices(win) :
          Did("percent-filter", [win |-> win, index |-> rank], Percentile(image, win, rank))

BoxBlurRun == Plain /\ \E win \in Windows : Did("box-blur", win, BoxBlurred(image, win))
GaussianBlurRun ==
    /\ Plain
    /\ \E win \in Windows, k \in Kernels :
          /\ Len(k) > High(win[1], win[2]) \div 2
          /\ Did("gaussian-blur", win, GaussianBlurred(image, win, k))
ResizeRun ==
    \E size \in Sizes :
        ResizeDefined(image, size) /\ Did("resize", size, ResizedTo(image, size))
SwizzleRun == \E e \in Extracts : Did("swizzle", e, Swizzled(image, e))
DrawRun == \E line \in Lines : Did("draw", line, LineDrawn(image, line))

ImageNext ==
    \/ ColorSpaceRun
    \/ ColorFilterRun
    \/ PercentileRun
    \/ BoxBlurRun
    \/ GaussianBlurRun
    \/ ResizeRun
    \/ SwizzleRun
    \/ DrawRun

ImageSpec == ImageInit /\ [][ImageNext]_imageVars

-----------------------------------------------------------------------------
(* What the images are to show.                                            *)

\* The color of a pixel.  In YUYV two pixels share their u and v.
Shown(b, x, y) ==
    LET px   == y * b.width + x
        pair == Chunk(b.data, 4, px \div 2)
        n    == PixelSize(b.format)
    IN  IF b.format = "YUYV" THEN <<pair[1 + 2 * (px % 2)], pair[2], pair[4]>>
        ELSE Chunk(b.data, n, px)

Pixels(b) == (0..(b.width - 1)) \X (0..(b.height - 1))
Channels(b) == 1..PixelSize(b.format)
Done(k) == past[Len(past) + 1 - k]      \* the k-th step back

\* Whatever components are put in a row, the data of every image is as long as
\* its size and format say: what assert_sized_correctly() demands
\* (buffer/mod.rs:608), and what the index arithmetic of the next one rests on.
SizedCorrectly == ExpectedSize(image) = Len(image.data)

\* An erosion and then a dilation with the same window (percentile_filter with
\* the first and then the last index) never brightens a pixel, and the other way
\* round never darkens one: also at the edges, where the window is cut off and
\* the index scaled.
OpeningCloses ==
    Len(past) >= 2 /\ Done(1).name = "percent-filter" /\ Done(2).name = "percent-filter" =>
        LET a == Done(2).arg  b == Done(1).arg  last == ErodeIndex(a.win)
            least == DilateIndex(a.win) IN
        a.win = b.win =>
            /\ a.index = least /\ b.index = last =>
                  \A i \in DOMAIN image.data : image.data[i] <= Done(2).image.data[i]
            /\ a.index = last /\ b.index = least =>
                  \A i \in DOMAIN image.data : image.data[i] >= Done(2).image.data[i]

\* A blur makes every channel of a pixel something between the least and the most
\* of its window: the weights that are summed up are the ones that are divided
\* by, in both passes and where the edge cuts the window off.
BlurKeepsBounds ==
    past # <<>> /\ Done(1).name \in {"box-blur", "gaussian-blur"} =>
        LET old == Done(1).image  win == Done(1).arg IN
        \A p \in Pixels(image), c \in Channels(image) :
            LET near == {Shown(old, x, y)[c] : x \in Reach(p[1], win[1] \div 2, old.width),
                                              y \in Reach(p[2], win[2] \div 2, old.height)}
                new  == Shown(image, p[1], p[2])[c]
            IN  (\E v \in near : v <= new) /\ (\E v \in near : new <= v)

\* Through any row of color spaces, YUYV with its shared colors among them, every pixel
\* of a grey image stays the same; but of an odd number of pixels YUYV, which takes them
\* in pairs, loses the last.
GreyStays ==
    past # <<>> /\ past[1].image.format = "LUMA"
    /\ (\A n \in DOMAIN past : past[n].name = "color-space" /\ ~IsAnon(past[n].arg)) =>
        LET grey  == past[1].image
            now   == Converted(image, "LUMA")
            count == Len(grey.data)
            paired == \E n \in DOMAIN past : past[n].arg = "YUYV"
            kept  == IF paired THEN count - (count % 2) ELSE count
        IN  /\ now.width = grey.width /\ now.height = grey.height
            /\ SubSeq(now.data, 1, kept) = SubSeq(grey.data, 1, kept)

Close(a, b) == \A n \in DOMAIN a : Abs(a[n] - b[n]) <= 10

\* "roundtrip mismatch" (buffer/conv/tests.rs:23): a color that is converted to
\* YCbCr and back is off by no more than the tolerance of the test.
RoundTrip(space) ==
    /\ Len(past) >= 2 /\ Done(1).name = "color-space" /\ Done(2).name = "color-space"
    /\ Done(2).image.format = "RGB" /\ Done(2).arg = space /\ Done(1).arg = "RGB"
YccRoundTrips == RoundTrip("YCC") => Close(Done(2).image.data, image.data)

\* The same for HSV (buffer/conv/tests.rs:24).
HsvRoundTrips == RoundTrip("HSV") => Close(Done(2).image.data, image.data)

\* A line is drawn from its first point, each pixel next to the one before it, as
\* many of them left at any time as len() says, up to the one before its last
\* point; they have the color and the rest of the canvas is as it was.
LineComplete ==
    past # <<>> /\ Done(1).name = "draw" =>
        LET line == Done(1).arg
            made == Append(LinePixels(line), <<line.x1, line.y1>>)
            old  == Converted(Done(1).image, line.space)
        IN  /\ made[1] = <<line.x0, line.y0>>
            /\ \A n \in 1..(Len(made) - 1) :
                 /\ made[n] # made[n + 1]
                 /\ Abs(made[n][1] - made[n + 1][1]) <= 1 /\ Abs(made[n][2] - made[n + 1][2]) <= 1
                 /\ Len(made) - n = LineLen([line EXCEPT !.x0 = made[n][1], !.y0 = made[n][2]])
            /\ \A p \in Pixels(image) :
                 Shown(image, p[1], p[2]) = IF p \in ToSet(Front(made)) THEN line.color
                                            ELSE Shown(old, p[1], p[2])

\* What a row of components does to an image keeps to the bounds of the image and of
\* the colors that were in it.
ImagesKept ==
    SizedCorrectly /\ OpeningCloses /\ BlurKeepsBounds /\ GreyStays /\ YccRoundTrips /\ LineComplete
=============================================================================
