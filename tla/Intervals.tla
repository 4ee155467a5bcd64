----------------------------- MODULE Intervals -----------------------------
(***************************************************************************)
(* Interval arithmetic (backend/app/oee/intervals.py), as the code does    *)
(* it: cursors over sorted lists.  An interval is a pair <<lo, hi>>, half  *)
(* open.  What these operators mean is a set of instants; that they        *)
(* compute it is one of the things the reports are checked for.            *)
(***************************************************************************)
EXTENDS Integers, SequencesExt

Larger(x, y) == IF x > y THEN x ELSE y

Smaller(x, y) == IF x < y THEN x ELSE y

Before(p, q) == p[1] < q[1] \/ (p[1] = q[1] /\ p[2] < q[2])

\* merge: sorted, disjoint, non-empty union of a set of intervals.
Merge(ivs) ==
    LET add(out, iv) ==
            IF out # <<>> /\ iv[1] <= Last(out)[2]
            THEN Append(Front(out), <<Last(out)[1], Larger(Last(out)[2], iv[2])>>)
            ELSE Append(out, iv)
    IN  FoldLeft(add, <<>>, SetToSortSeq({iv \in ivs : iv[2] > iv[1]}, Before))

Clip(ivs, lo, hi) == Merge({<<Larger(iv[1], lo), Smaller(iv[2], hi)>> : iv \in ivs})

Total(ivs) == FoldLeft(LAMBDA sum, iv : sum + iv[2] - iv[1], 0, ivs)

\* What the holes (merged) leave of one interval: the inner loop of subtract;
\* complement is the same loop, over holes that do not reach past the interval.
Remains(iv, holes) ==
    LET cut(acc, hole) ==
            IF hole[2] <= acc.cursor \/ hole[1] >= iv[2] THEN acc
            ELSE [out    |-> IF hole[1] > acc.cursor
                             THEN Append(acc.out, <<acc.cursor, hole[1]>>) ELSE acc.out,
                  cursor |-> Larger(acc.cursor, hole[2])]
        done == FoldLeft(cut, [out |-> <<>>, cursor |-> iv[1]], holes)
    IN  IF done.cursor < iv[2] THEN Append(done.out, <<done.cursor, iv[2]>>) ELSE done.out

Complement(ivs, lo, hi) == Remains(<<lo, hi>>, ivs)

Subtract(ivs, holes) == FoldLeft(LAMBDA out, iv : out \o Remains(iv, holes), <<>>, ivs)

\* intersect: two pointers over two merged lists; the interval that ends first
\* is left behind.
Intersect(a, b) ==
    LET from[i \in 1..(Len(a) + 1), j \in 1..(Len(b) + 1)] ==
            IF i > Len(a) \/ j > Len(b) THEN <<>>
            ELSE LET lo == Larger(a[i][1], b[j][1])
                     hi == Smaller(a[i][2], b[j][2])
                 IN  (IF hi > lo THEN <<<<lo, hi>>>> ELSE <<>>)
                       \o IF a[i][2] < b[j][2] THEN from[i + 1, j] ELSE from[i, j + 1]
    IN  from[1, 1]
=============================================================================
