------------------------ MODULE NetworkResChunkData -------------------------
(***************************************************************************)
(* C4Network2ResChunkData: which chunks of a resource are present, as a    *)
(* list of ranges, and the operations on it.                               *)
(***************************************************************************)
EXTENDS Integers, Sequences, FiniteSets, SequencesExt, FiniteSetsExt

(* The number of chunks, the number of those that are present, and these   *)
(* as ranges in their order.                                               *)
SetIncomplete(count) == [count |-> count, present |-> 0, ranges |-> <<>>]
SetComplete(count) ==
    [count |-> count, present |-> count, ranges |-> <<[start |-> 0, length |-> count]>>]
isComplete(d) == d.present = d.count

End(range) == range.start + range.length

MergeRanges_Touching(d, i) ==
    IF i >= Len(d.ranges) \/ End(d.ranges[i]) <= d.ranges[i + 1].start
    THEN d
    ELSE LET next == d.ranges[i + 1]
             overlap == Min({End(d.ranges[i]) - next.start, next.length})
             wide == [d.ranges EXCEPT ![i].length = @ + next.length - overlap]
         IN  [d EXCEPT !.present = @ - overlap, !.ranges = RemoveAt(wide, i + 1)]

(* Range i takes in the next one if it reaches up to it.                   *)
MergeRanges(d, i) ==
    IF i >= Len(d.ranges) \/ End(d.ranges[i]) < d.ranges[i + 1].start
    THEN d
    ELSE LET next == d.ranges[i + 1]
             overlap == Min({End(d.ranges[i]) - next.start, next.length})
             wide == [d.ranges EXCEPT ![i].length = @ + next.length - overlap]
         IN  [d EXCEPT !.present = @ - overlap, !.ranges = RemoveAt(wide, i + 1)]

MergeAll(d, i) == FoldLeft(LAMBDA e, x : MergeRanges(e, i), d, d.ranges)

AddChunkRange(d, start, length) ==
    IF start < 0 \/ start + length > d.count \/ length <= 0
    THEN d
    ELSE LET i == Min({j \in DOMAIN d.ranges : d.ranges[j].start >= start} \cup {Len(d.ranges) + 1})
             new == [d EXCEPT !.present = @ + length,
                              !.ranges = InsertAt(@, i, [start |-> start, length |-> length])]
         IN  IF i > 1 /\ MergeRanges(new, i - 1) # new THEN MergeAll(new, i - 1) ELSE MergeAll(new, i)

AddChunk(d, k) == AddChunkRange(d, k, 1)

Merge(d, e) == FoldLeft(LAMBDA x, range : AddChunkRange(x, range.start, range.length), d, e.ranges)

GetNegative(d) ==
    LET upTo == FoldLeft(LAMBDA x, range : [free |-> End(range),
                                            gaps |-> AddChunkRange(x.gaps, x.free, range.start - x.free)],
                         [free |-> 0, gaps |-> SetIncomplete(d.count)], d.ranges)
    IN  AddChunkRange(upTo.gaps, upTo.free, d.count - upTo.free)

(* What getPresentChunk returns for the number nr.                         *)
getPresentChunk(d, nr) ==
    LET before(i) == FoldLeft(LAMBDA x, range : x + range.length, 0, SubSeq(d.ranges, 1, i - 1))
        i == Max({j \in DOMAIN d.ranges : before(j) <= nr})
    IN  d.ranges[i].start + nr - before(i)

(* The chunks GetChunkToRetrieve chooses from.                             *)
ChunksToRetrieve(d, available, loading) ==
    LET rest == FoldSet(LAMBDA k, x : AddChunk(x, k), Merge(GetNegative(available), d), loading)
        missing == GetNegative(rest)
    IN  IF isComplete(rest) THEN {} ELSE {getPresentChunk(missing, nr) : nr \in 0 .. missing.present - 1}

(* The chunk data for a set of chunks: its ranges in their order, each     *)
(* followed by a gap.                                                      *)
RangesOf(count, S) ==
    LET first == {k \in S : k - 1 \notin S}
        Rank(k) == Cardinality({j \in first : j <= k})
        Start(i) == CHOOSE k \in first : Rank(k) = i
        Length(k) == Min({i \in 1 .. count : k + i \notin S})
    IN  [count |-> count, present |-> Cardinality(S),
         ranges |-> [i \in 1 .. Cardinality(first) |-> [start |-> Start(i), length |-> Length(Start(i))]]]
=============================================================================
