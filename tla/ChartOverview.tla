--------------------------- MODULE ChartOverview ---------------------------
(***************************************************************************)
(* services/preview/ChartOverview: which samples of a long recording a     *)
(* chart draws.  Rows count from 0; values[i] is the metric's value in row *)
(* i, or Missing where it is not finite.  An overview that was built holds *)
(* a binary tree of summaries, its leaves being blocks of kBlockSize rows; *)
(* one that was not built (NoTree) scans the rows.                         *)
(***************************************************************************)
EXTENDS Integers, Sequences, FiniteSets, SequencesExt, FiniteSetsExt

CONSTANTS
    kBlockSize,
    Missing          \* a value that is not finite

NoTree == <<>>
NoRow == -1
NoRows == [low |-> NoRow, high |-> NoRow, firstMissing |-> NoRow, lastMissing |-> NoRow]

\* A set of rows below n, in order.
InOrder(rows, n) == SelectSeq([k \in 1 .. n |-> k - 1], LAMBDA i : i \in rows)

Within(x, low, high) == IF x < low THEN low ELSE IF x > high THEN high ELSE x

\* include of one row; merging rows in order is including them in order.
Row(values, i) ==
    IF values[i] = Missing THEN [NoRows EXCEPT !.firstMissing = i, !.lastMissing = i]
                           ELSE [NoRows EXCEPT !.low = i, !.high = i]

\* The left summary, unless the right one knows better.
merge(values, a, b) ==
    [low |-> IF b.low # NoRow /\ (a.low = NoRow \/ values[b.low] < values[a.low])
                THEN b.low ELSE a.low,
     high |-> IF b.high # NoRow /\ (a.high = NoRow \/ values[b.high] > values[a.high])
                 THEN b.high ELSE a.high,
     firstMissing |->
         IF b.firstMissing # NoRow /\ (a.firstMissing = NoRow \/ b.firstMissing < a.firstMissing)
            THEN b.firstMissing ELSE a.firstMissing,
     lastMissing |-> IF b.lastMissing > a.lastMissing THEN b.lastMissing ELSE a.lastMissing]

MergeAll(values, pieces) ==
    FoldLeft(LAMBDA a, b : merge(values, a, b), NoRows, pieces)

Rows(values, begin, end) == [k \in 1 .. end - begin |-> Row(values, begin + k - 1)]

leafCount(n) ==
    LET blocks == (n + kBlockSize - 1) \div kBlockSize
        double[L \in 1 .. 2 * blocks + 1] == IF L < blocks THEN double[2 * L] ELSE L
    IN  double[1]

build(values, n) ==
    LET L == leafCount(n)
        Clip(i) == IF i < n THEN i ELSE n
        tree[node \in 1 .. 2 * L - 1] ==
            IF node >= L
               THEN MergeAll(values, Rows(values, Clip((node - L) * kBlockSize),
                                                  Clip((node - L + 1) * kBlockSize)))
               ELSE merge(values, tree[2 * node], tree[2 * node + 1])
    IN  tree

\* The inner nodes that stand for the blocks between two leaves, in the order visited.
Climbed(left, right) ==
    LET climb[l \in 0 .. right, r \in 0 .. right] ==
            IF l >= r THEN <<>>
            ELSE (IF l % 2 = 1 THEN <<l>> ELSE <<>>) \o (IF r % 2 = 1 THEN <<r - 1>> ELSE <<>>)
                     \o climb[(l + 1) \div 2, r \div 2]
    IN  climb[left, right]

\* What query and hasMissing look at: single rows up to a block's edge, single
\* rows back from the end to a block's edge, and the nodes between.
Pieces(values, tree, n, begin, end) ==
    IF tree = NoTree THEN Rows(values, begin, end)
    ELSE LET head == Within(((begin + kBlockSize - 1) \div kBlockSize) * kBlockSize, begin, end)
             tail == Within((end \div kBlockSize) * kBlockSize, head, end)
             nodes == Climbed(head \div kBlockSize + leafCount(n), tail \div kBlockSize + leafCount(n))
         IN  Rows(values, begin, head) \o Reverse(Rows(values, tail, end))
                 \o [k \in DOMAIN nodes |-> tree[nodes[k]]]

query(values, tree, n, begin, end) == MergeAll(values, Pieces(values, tree, n, begin, end))

hasMissing(values, tree, n, begin, end) ==
    LET b == Within(begin, 0, n)
        e == Within(end, b, n)
    IN  \E k \in DOMAIN Pieces(values, tree, n, b, e) :
            Pieces(values, tree, n, b, e)[k].firstMissing # NoRow

\* The rows of one bucket: its ends, and per metric its extremes and the edges of its gaps.
BucketRows(samples, trees, n, first, last, enabled) ==
    {first, last - 1} \cup
    UNION {LET r == query(samples[m], trees[m], n, first, last)
           IN  (IF r.low = NoRow THEN {} ELSE {r.low, r.high}) \cup
               (IF r.firstMissing = NoRow THEN {}
                ELSE {Within(r.firstMissing - 1, first, last), r.firstMissing,
                      r.lastMissing, Within(r.lastMissing + 1, 0, last - 1)}) : m \in enabled}

select(samples, trees, n, begin0, end0, budget, enabled) ==
    LET begin == Within(begin0, 0, n)
        end == Within(end0, begin, n)
        count == end - begin
        fit == budget \div (2 + 6 * Cardinality(enabled))
        buckets == IF fit < 1 THEN 1 ELSE fit
        Edge(b) == begin + (b * count) \div buckets
        rows == InOrder(UNION {BucketRows(samples, trees, n, Edge(b), Edge(b + 1), enabled) :
                                  b \in 0 .. buckets - 1}, n)
    IN  IF budget <= 0 \/ count = 0 THEN <<>>
        ELSE IF count <= budget THEN [k \in 1 .. count |-> begin + k - 1]
        ELSE IF budget = 1 THEN <<begin>>
        ELSE IF Len(rows) > budget
             THEN [i \in 1 .. budget |-> rows[((i - 1) * (Len(rows) - 1)) \div (budget - 1) + 1]]
        ELSE rows
=============================================================================
