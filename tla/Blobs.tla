------------------------------- MODULE Blobs -------------------------------
(***************************************************************************)
(* BlobsIterator: the connected blobs of a black and white image, found    *)
(* row by row.  A blob that may still grow is kept in a queue with the     *)
(* spans in which it touches the last row.  A span is half open, and spans *)
(* that meet at a corner touch.  The queue is the ring buffer of VecDeque, *)
(* since queue_front() works on its two slices.  One step takes one row.   *)
(***************************************************************************)
EXTENDS Integers, FiniteSets, SequencesExt

CONSTANTS
    Width, Height,  \* of the images
    Begun           \* rows that the images may begin with

ASSUME ImageAssumption ==
    /\ Width \in Nat \ {0} /\ Height \in Nat \ {0}
    /\ \A top \in Begun : Len(top) <= Height

VARIABLES
    rows,       \* the rows taken so far, each the set of its foreground columns
    queue,      \* BlobsIterator::incomplete
    blobs,      \* the blobs returned so far
    panic,      \* TRUE once work() has panicked
    returned    \* TRUE when there is nothing more to return

blobVars == <<rows, queue, blobs, panic, returned>>

\* Blob::from_row and absorb().
FromRow(min, max, y) == [x0 |-> min, x1 |-> max, y0 |-> y, y1 |-> y + 1, pixels |-> max - min]
Lower(a, b) == IF b < a THEN b ELSE a
Upper(a, b) == IF b > a THEN b ELSE a
Absorb(a, b) == [x0 |-> Lower(a.x0, b.x0), x1 |-> Upper(a.x1, b.x1),
                 y0 |-> Lower(a.y0, b.y0), y1 |-> Upper(a.y1, b.y1),
                 pixels |-> a.pixels + b.pixels]

Range1(min, max, new) == [min |-> min, max |-> max, new |-> new]
WithBottom(min, max, y) == [blob |-> FromRow(min, max, y), ranges |-> <<Range1(min, max, FALSE)>>]

-----------------------------------------------------------------------------
(* The ring buffer: `items' in order, the first one at `head' of `cap'.    *)

NoItems == [items |-> <<>>, head |-> 0, cap |-> 0]

\* VecDeque::grow, of a full buffer: the shorter part is moved.
Grown(q) ==
    IF Len(q.items) < q.cap THEN q
    ELSE LET cap    == IF q.cap = 0 THEN 4 ELSE 2 * q.cap
             before == q.cap - q.head        \* up to the end of the buffer
             after  == q.head                \* wrapped round
         IN  [q EXCEPT !.cap = cap,
                       !.head = IF q.head = 0 \/ before > after THEN @ ELSE cap - before]

PushBack(q, b) == LET g == Grown(q) IN [g EXCEPT !.items = Append(@, b)]
PushFront(q, b) ==
    LET g == Grown(q)
    IN  [g EXCEPT !.items = <<b>> \o @, !.head = (@ + g.cap - 1) % g.cap]
PopFront(q) == [q EXCEPT !.items = Tail(@), !.head = (@ + 1) % q.cap]

\* The length of the first of as_mut_slices().
FrontLen(q) == Lower(Len(q.items), q.cap - q.head)

RotateLeft(s) == Tail(s) \o <<Head(s)>>

\* search(): where a blob with this minimum goes in a sorted slice.
Place(slice, min) ==
    LET later == {n \in DOMAIN slice : slice[n].ranges[1].min > min}
    IN  IF later = {} THEN Len(slice) ELSE (CHOOSE n \in later : \A k \in later : n <= k) - 1

Turned(q, n) == [q EXCEPT !.items = RotateLeft(SubSeq(@, 1, n)) \o SubSeq(@, n + 1, Len(@))]
Acted(q) == [acted |-> TRUE, q |-> q]
Idle(q) == [acted |-> FALSE, q |-> q]

\* queue_front(): the first of `left' blobs is moved to its place among them.
QueueFront(left, min, q) ==
    LET front == FrontLen(q)
        inner == SubSeq(q.items, 2, Lower(front, left))
        idx   == Place(inner, min)
        slice == SubSeq(q.items, front + 1, left)
        at    == Place(slice, min)
        \* the first blob takes the place of slice[0], which ends the front slice
        swapped == [q.items EXCEPT ![1] = q.items[front + 1], ![front + 1] = q.items[1]]
        turned == [Turned([q EXCEPT !.items = swapped], front) EXCEPT !.items =
                     SubSeq(@, 1, front)
                        \o RotateLeft(SubSeq(@, front + 1, front + Lower(at + 1, left - front)))
                        \o SubSeq(@, front + Lower(at + 1, left - front) + 1, Len(@))]
    IN  IF left <= 1 THEN Idle(q)
        ELSE IF left <= front \/ idx + 1 < front
        THEN IF idx > 1 THEN Acted(Turned(q, idx)) ELSE Idle(q)
        ELSE IF at = 0
        THEN IF front < 2 THEN Idle(q) ELSE Acted(Turned(q, front))
        ELSE Acted(turned)

-----------------------------------------------------------------------------
(* BlobWithBottom::eat                                                     *)

\* The first range that is new or does not end before `min', 0 for none.
FirstAt(b, min) ==
    LET hits == {n \in DOMAIN b.ranges : b.ranges[n].new \/ b.ranges[n].max >= min}
    IN  IF hits = {} THEN 0 ELSE CHOOSE n \in hits : \A k \in hits : n <= k

\* eat() with do_absorb: ranges that end before the span are forgotten.
Eat(b, min, max, y) ==
    LET n    == FirstAt(b, min)
        kept == IF n = 0 THEN <<>> ELSE SubSeq(b.ranges, n, Len(b.ranges))
    IN  IF n = 0 THEN [is |-> "Return", b |-> [b EXCEPT !.ranges = <<>>]]
        ELSE IF b.ranges[n].new
        THEN [is |-> "QueueBack",
              b |-> [b EXCEPT !.ranges = [k \in DOMAIN kept |-> [kept[k] EXCEPT !.new = FALSE]]]]
        ELSE IF b.ranges[n].min > max THEN [is |-> "QueueFront", b |-> [b EXCEPT !.ranges = kept]]
        ELSE [is |-> "Absorbed",
              b  |-> [blob   |-> Absorb(b.blob, FromRow(min, max, y)),
                      ranges |-> Append(kept, Range1(min, max, TRUE))]]

\* eat() without: it only looks.
Touch(b, min, max) ==
    LET n == FirstAt(b, min)
    IN  IF b.ranges = <<>> THEN "Return"
        ELSE IF n # 0 /\ ~b.ranges[n].new
        THEN IF b.ranges[n].min > max THEN "QueueFront" ELSE "Absorbed"
        ELSE IF b.ranges[1].new THEN "assert" ELSE "QueueFront"

\* Mutated form: what the joined blob touched in the last row is lost.
JoinedForgets(a, b) ==
    [blob |-> Absorb(a.blob, b.blob), ranges |-> a.ranges]

\* The bottoms of two blobs that a span has joined: what is left of the last
\* row, then what is new.
Joined(a, b) ==
    LET Old(s) == SelectSeq(s, LAMBDA r : ~r.new)
        New(s) == SelectSeq(s, LAMBDA r : r.new)
    IN  [blob   |-> Absorb(a.blob, b.blob),
         ranges |-> Old(a.ranges) \o Old(b.ranges)
                      \o SortSeq(New(a.ranges) \o New(b.ranges), LAMBDA r, s : r.min < s.min)]

-----------------------------------------------------------------------------
(* BlobsInRowState::work.  `st' is [q, left, out, panic].                  *)

\* The span has joined `blob': so it may join the ones after it.
RECURSIVE Merge(_, _, _, _, _)
Merge(st, blob, min, max, y) ==
    IF st.left <= 1 \/ st.panic THEN [st EXCEPT !.q = PushFront(@, blob)]
    ELSE LET b2   == Head(st.q.items)
             rest == PopFront(st.q)
             back == QueueFront(st.left - 1, b2.ranges[1].min, PushFront(rest, b2))
         IN  CASE Touch(b2, min, max) = "Absorbed" ->
                    Merge([st EXCEPT !.q = rest, !.left = @ - 1], Joined(blob, b2), min, max, y)
               [] Touch(b2, min, max) = "QueueFront" ->
                    IF back.acted THEN Merge([st EXCEPT !.q = back.q], blob, min, max, y)
                    ELSE [st EXCEPT !.q = PushFront(back.q, blob)]
               [] OTHER -> [st EXCEPT !.panic = TRUE]

\* State::Coalescing.
RECURSIVE Coalesce(_, _, _, _)
Coalesce(st, min, max, y) ==
    IF st.left = 0 THEN [st EXCEPT !.q = PushBack(@, WithBottom(min, max, y))]
    ELSE LET ate  == Eat(Head(st.q.items), min, max, y)
             rest == [st EXCEPT !.q = PopFront(@), !.left = @ - 1]
         IN  CASE ate.is = "Absorbed" -> Merge([rest EXCEPT !.left = st.left], ate.b, min, max, y)
               [] ate.is = "QueueFront" ->
                    [st EXCEPT !.q = PushBack(QueueFront(st.left, ate.b.ranges[1].min,
                                                         PushFront(rest.q, ate.b)).q,
                                              WithBottom(min, max, y))]
               [] ate.is = "QueueBack" ->
                    Coalesce([rest EXCEPT !.q = PushBack(@, ate.b)], min, max, y)
               [] ate.is = "Return" ->
                    Coalesce([rest EXCEPT !.out = Append(@, ate.b.blob)], min, max, y)

RECURSIVE Unwound(_)
Unwound(s) == IF Head(s).min > Last(s).min THEN Unwound(RotateLeft(s)) ELSE s

\* State::Draining: blobs that the row did not touch are returned.
RECURSIVE Drain(_)
Drain(st) ==
    IF st.left = 0 THEN st
    ELSE LET b    == Head(st.q.items)
             new  == SelectSeq(b.ranges, LAMBDA r : r.new)
             kept == [n \in DOMAIN new |-> [new[n] EXCEPT !.new = FALSE]]
             rest == [st EXCEPT !.q = PopFront(@), !.left = @ - 1]
         IN  Drain(IF new = <<>> THEN [rest EXCEPT !.out = Append(@, b.blob)]
                   ELSE [rest EXCEPT !.q = PushBack(@, [b EXCEPT !.ranges = Unwound(kept)])])

\* The spans of a row, from the left.
Spans(row) ==
    LET starts == {x \in row : x - 1 \notin row}
        End(x) == CHOOSE e \in x..Width : e \notin row /\ \A k \in x..(e - 1) : k \in row
    IN  [n \in 1..Cardinality(starts) |->
            LET x == SetToSortSeq(starts, <)[n] IN <<x, End(x)>>]

Work(q, row, y) ==
    Drain(FoldLeft(LAMBDA st, s : IF st.panic THEN st ELSE Coalesce(st, s[1], s[2], y),
                   [q |-> q, left |-> Len(q.items), out |-> <<>>, panic |-> FALSE],
                   Spans(row)))

-----------------------------------------------------------------------------

BlobInit ==
    /\ rows = <<>>
    /\ queue = NoItems
    /\ blobs = <<>>
    /\ panic = FALSE
    /\ returned = FALSE

\* The image so far is one that is looked at.
Fits(picture) == \E top \in Begun : IsPrefix(picture, top) \/ IsPrefix(top, picture)

\* next() until the row is used up.
NextRow ==
    /\ Len(rows) < Height /\ ~panic
    /\ \E row \in SUBSET (0..(Width - 1)) :
         /\ Fits(Append(rows, row))
         /\ LET st == Work(queue, row, Len(rows)) IN
            /\ rows' = Append(rows, row)
            /\ queue' = st.q
            /\ blobs' = blobs \o st.out
            /\ panic' = st.panic
    /\ UNCHANGED returned

\* After the last row.
ReturnRest ==
    /\ Len(rows) = Height /\ ~returned /\ ~panic
    /\ blobs' = blobs \o [n \in DOMAIN queue.items |-> queue.items[n].blob]
    /\ queue' = NoItems
    /\ returned' = TRUE
    /\ UNCHANGED <<rows, panic>>

BlobNext == NextRow \/ ReturnRest

BlobSpec == BlobInit /\ [][BlobNext]_blobVars

-----------------------------------------------------------------------------
(* What the blobs of an image are.                                         *)

PixelsOf(picture) == UNION {{<<x, y - 1>> : x \in picture[y]} : y \in DOMAIN picture}

Beside(p, S) == {<<p[1] + dx, p[2] + dy>> : dx \in -1..1, dy \in -1..1} \cap S

RECURSIVE Spread(_, _)
Spread(some, S) ==
    LET more == some \cup UNION {Beside(p, S) : p \in some}
    IN  IF more = some THEN some ELSE Spread(more, S)

ComponentsOf(picture) == {Spread({p}, PixelsOf(picture)) : p \in PixelsOf(picture)}
Connected == ComponentsOf(rows)

LeastOf(S) == CHOOSE x \in S : \A y \in S : x <= y
MostOf(S) == CHOOSE x \in S : \A y \in S : x >= y
Box(c) == [x0 |-> LeastOf({p[1] : p \in c}), x1 |-> MostOf({p[1] : p \in c}) + 1,
           y0 |-> LeastOf({p[2] : p \in c}), y1 |-> MostOf({p[2] : p \in c}) + 1,
           pixels |-> Cardinality(c)]

Outside(a, b) == a.x1 < b.x0 \/ b.x1 < a.x0 \/ a.y1 < b.y0 \/ b.y1 < a.y0

SumPixels(list) == FoldLeft(LAMBDA n, b : n + b.pixels, 0, list)

\* What is found is the contiguous blobs of the image, each once: "A contiguous
\* blob of color in an image" (vision/blobs.rs:58).
BlobsExact ==
    returned => \A b \in ToSet(blobs) \cup {Box(c) : c \in Connected} :
                Cardinality({n \in DOMAIN blobs : blobs[n] = b})
                    = Cardinality({c \in Connected : Box(c) = b})

\* No blob reaches into the box of another, not even before a later row joins them.
Apart ==
    \A n \in 1..Height : LET boxes == {Box(c) : c \in ComponentsOf(SubSeq(rows, 1, n))} IN
        \A b, c \in boxes : b # c => Outside(b, c)

\* As long as no blob is under an arch of another, the blobs found are exact,
\* however their spans split, meet again and drop out.
ApartExact ==
    returned /\ Apart => /\ ToSet(blobs) = {Box(c) : c \in Connected}
                      /\ Len(blobs) = Cardinality(Connected)

\* Whatever happens to the blobs, no pixel is lost and none is counted twice,
\* and no row makes the iterator panic.
PixelsKept ==
    /\ SumPixels(blobs) + SumPixels([n \in DOMAIN queue.items |-> queue.items[n].blob])
            = Cardinality(PixelsOf(rows))
    /\ ~panic

\* The spans of a row are merged into blobs so that nothing of the image is lost.
BlobsKept == ApartExact /\ PixelsKept
=============================================================================
