---------------------------- MODULE OffsetSpans ----------------------------
(***************************************************************************)
(* Sets of byte spans (ast/offset_span_set.go).                            *)
(*                                                                         *)
(* A span is a half-open interval [start, end) of byte offsets.  A span    *)
(* set is a sequence of spans that NewOffsetSpanSet has sorted and merged, *)
(* so that the ends increase along the sequence; the two queries rely on   *)
(* that, because they find their span by binary search.                    *)
(***************************************************************************)
EXTENDS Lists, SequencesExt

OffsetSpan(s, e) == [start |-> s, end |-> e]

(***************************************************************************)
(* The spans a text of len bytes has; every producer passes over an empty  *)
(* one.                                                                    *)
(***************************************************************************)
SpansOf(len) == {s \in [start : 0..len, end : 0..len] : s.start < s.end}

InSpan(s, off) == off >= s.start /\ off < s.end

SpanBefore(s, t) ==
  \/ s.start < t.start
  \/ s.start = t.start /\ s.end < t.end

(***************************************************************************)
(* One turn of the merge loop: a span that starts inside or right at the   *)
(* end of the last merged span extends it, any other span is appended.     *)
(***************************************************************************)
MergeSpan(merged, s) ==
  IF merged = <<>> \/ s.start > Last(merged).end
    THEN Append(merged, s)
    ELSE IF s.end > Last(merged).end
           THEN [merged EXCEPT ![Len(merged)].end = s.end]
           ELSE merged

Merged(sorted) ==
  LET upTo[n \in 0..Len(sorted)] ==
        IF n = 0 THEN <<>> ELSE MergeSpan(upTo[n - 1], sorted[n])
  IN  upTo[Len(sorted)]

NewOffsetSpanSet(spans) == Merged(StableSort(spans, SpanBefore))

EmptySpanSet == <<>>

(***************************************************************************)
(* sort.Search over the span ends: the bisection of the Go library, which  *)
(* returns the first span that ends after off only if the ends increase.   *)
(* The answer is an index from 0, Len(spans) when there is no such span;   *)
(* a range is the pair of its bounds, low and high.                        *)
(***************************************************************************)
Middle(range) == (range[1] + range[2]) \div 2

SearchEnd(spans, off) ==
  LET n == Len(spans)
      bisect[range \in (0..n) \X (0..n)] ==
        IF range[1] >= range[2]
        THEN range[1]
        ELSE IF spans[Middle(range) + 1].end > off
             THEN bisect[<<range[1], Middle(range)>>]
             ELSE bisect[<<Middle(range) + 1, range[2]>>]
  IN  bisect[<<0, n>>]

\* Mutant: an edit that ends where a span starts overlaps it.
TouchingOverlaps(spans, s, e) ==
  LET idx == SearchEnd(spans, s)
  IN  e > s /\ idx < Len(spans) /\ spans[idx + 1].start <= e

SpanSetOverlaps(spans, s, e) ==
  LET idx == SearchEnd(spans, s)
  IN  /\ e > s
      /\ idx < Len(spans)
      /\ spans[idx + 1].start < e

SpanSetContains(spans, off) ==
  LET idx == SearchEnd(spans, off)
  IN  /\ idx < Len(spans)
      /\ InSpan(spans[idx + 1], off)

SpanSetUnion(a, b) ==
  IF a = EmptySpanSet THEN b
  ELSE IF b = EmptySpanSet THEN a
  ELSE NewOffsetSpanSet(a \o b)

(***************************************************************************)
(* Context.editOverlapsForbidden (dsl/types.go): an insertion is forbidden *)
(* when its offset lies in a forbidden span, a replacement when it         *)
(* overlaps one.                                                           *)
(***************************************************************************)
editOverlapsForbidden(forbidden, s, e) ==
  IF s = e THEN SpanSetContains(forbidden, s)
           ELSE SpanSetOverlaps(forbidden, s, e)

(***************************************************************************)
(* What a span set stands for: the offsets its spans cover.                *)
(***************************************************************************)
Offsets(spans) == UNION {spans[i].start .. (spans[i].end - 1) : i \in DOMAIN spans}
=============================================================================
