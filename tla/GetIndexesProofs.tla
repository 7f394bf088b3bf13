-------------------------- MODULE GetIndexesProofs --------------------------
(***************************************************************************)
(* The loops of get_indexes return the segment of the definition, on       *)
(* trackers of any length and content.                                     *)
(***************************************************************************)
EXTENDS GetIndexes, TLAPS

\* What the right loop has passed: known, not complete, not deshredded.
Passed(first, last) ==
    \A i \in first .. last : status[i] = "NotDataComplete" /\ i \notin deshredded

\* The right loop has found its boundary.
EndFound ==
    /\ index <= end /\ end < Length
    /\ status[end] = "DataComplete" /\ end \notin deshredded
    /\ Passed(index, end - 1)

\* The loop invariants of get_indexes, location by location.
LoopInv ==
    /\ pc = "right" => index < Length /\ index <= end /\ Passed(index, end - 1)
    /\ pc = "bounds" => EndFound
    /\ pc = "left" => /\ EndFound
                      /\ start = next + 1 /\ start <= index
                      /\ Passed(start, index - 1)

IndInv == TypeOK /\ LoopInv /\ ReturnsTheSegment

\* With a right boundary and a left boundary in hand, get_indexes is the
\* segment between them.
LEMMA SegmentFound ==
    ASSUME TypeOK, EndFound,
           NEW first \in 0 .. index, Passed(first, index - 1),
           first > 0 => status[first - 1] # "NotDataComplete"
    PROVE  get_indexes(status, deshredded, index) =
             {[start |-> first, end |-> end,
               unknown_start |-> first > 0 /\ status[first - 1] = "Unknown"]}
<1>1. SegmentEnds(status, deshredded, index) = {end}
  <2>1. end \in SegmentEnds(status, deshredded, index)
    BY LengthAssumption DEF SegmentEnds, EndFound, Passed, TypeOK, Positions
  <2>2. ASSUME NEW e \in SegmentEnds(status, deshredded, index) PROVE e = end
    <3>1. e \in Positions /\ index <= e /\ status[e] = "DataComplete"
      BY <2>2 DEF SegmentEnds, TypeOK
    <3>2. ~(e < end)
      BY <3>1, LengthAssumption DEF EndFound, Passed, TypeOK, Positions
    <3>3. ~(end < e)
      BY <2>2, <3>1, LengthAssumption DEF SegmentEnds, EndFound, TypeOK, Positions
    <3> QED BY <3>1, <3>2, <3>3, LengthAssumption DEF TypeOK, Positions
  <2> QED BY <2>1, <2>2
<1>2. SegmentStarts(status, deshredded, index) = {first}
  <2>1. first \in SegmentStarts(status, deshredded, index)
    BY LengthAssumption DEF SegmentStarts, EndFound, Passed, TypeOK, Positions
  <2>2. ASSUME NEW a \in SegmentStarts(status, deshredded, index) PROVE a = first
    <3>1. /\ a \in 0 .. index
          /\ \A i \in a .. index - 1 : status[i] = "NotDataComplete"
          /\ a > 0 => status[a - 1] # "NotDataComplete"
      BY <2>2, LengthAssumption DEF SegmentStarts, TypeOK, Positions
    <3>2. ~(a < first)
      BY <3>1 DEF TypeOK
    <3>3. ~(first < a)
      BY <3>1 DEF Passed, TypeOK
    <3> QED BY <3>1, <3>2, <3>3 DEF TypeOK
  <2> QED BY <2>1, <2>2
<1> QED BY <1>1, <1>2 DEF get_indexes

\* Nothing to the right of a shred that is missing or already deshredded.
LEMMA NoEnd ==
    ASSUME TypeOK, index <= end, Passed(index, end - 1), ~RightGoesOn
    PROVE  get_indexes(status, deshredded, index) = {}
<1>1. ASSUME NEW e \in SegmentEnds(status, deshredded, index) PROVE FALSE
  <2>1. /\ e \in Positions /\ index <= e /\ status[e] = "DataComplete"
        /\ \A i \in index .. e - 1 : status[i] = "NotDataComplete"
        /\ \A i \in index .. e : i \notin deshredded
    BY <1>1 DEF SegmentEnds, TypeOK
  <2>2. ~(e < end)
    BY <2>1, LengthAssumption DEF Passed, TypeOK, Positions
  <2>3. end <= e /\ end < Length
    BY <2>1, <2>2, LengthAssumption DEF TypeOK, Positions
  <2> QED BY <2>1, <2>3, LengthAssumption DEF RightGoesOn, TypeOK, Positions
<1> QED BY <1>1 DEF get_indexes

\* Nothing around a deshredded shred the left loop meets.
LEMMA NoStart ==
    ASSUME TypeOK, next < index, Passed(next + 1, index - 1),
           status[next] = "NotDataComplete", next \in deshredded
    PROVE  get_indexes(status, deshredded, index) = {}
<1>1. ASSUME NEW a \in SegmentStarts(status, deshredded, index) PROVE FALSE
  <2>1. /\ a \in Positions /\ a <= index
        /\ \A i \in a .. index - 1 : i \notin deshredded
        /\ a > 0 => status[a - 1] # "NotDataComplete"
    BY <1>1 DEF SegmentStarts, TypeOK
  <2>2. CASE a <= next
    BY <2>1, <2>2, LengthAssumption DEF TypeOK, Positions
  <2>3. CASE a > next
    <3>1. a - 1 \in next .. index - 1
      BY <2>1, <2>3, LengthAssumption DEF TypeOK, Positions
    <3>2. status[a - 1] = "NotDataComplete"
      BY <3>1, LengthAssumption DEF Passed, TypeOK, Positions
    <3> QED BY <2>1, <2>3, <3>2, LengthAssumption DEF TypeOK, Positions
  <2> QED BY <2>1, <2>2, <2>3, LengthAssumption DEF TypeOK, Positions
<1> QED BY <1>1 DEF get_indexes

\* The loop invariant holds before get_indexes starts.
LEMMA InitIndInv == Init => IndInv
<1> SUFFICES ASSUME Init PROVE IndInv
  OBVIOUS
<1>1. 0 \in Positions /\ 0 \in 0 .. Length
  BY LengthAssumption DEF Positions
<1>2. TypeOK
  BY <1>1 DEF Init, TypeOK
<1>3. LoopInv /\ ReturnsTheSegment
  BY DEF Init, LoopInv, ReturnsTheSegment
<1> QED BY <1>2, <1>3 DEF IndInv

\* Every step of the two scanning loops keeps the loop invariant.
LEMMA NextIndInv == IndInv /\ [Next]_vars => IndInv'
<1> SUFFICES ASSUME IndInv, [Next]_vars PROVE IndInv'
  OBVIOUS
<1> USE LengthAssumption
<1>t. TypeOK
  BY DEF IndInv
<1>1. CASE Enter
  <2>1. CASE index >= Length
    <3>1. SegmentEnds(status, deshredded, index) = {}
      BY <2>1, <1>t DEF SegmentEnds, TypeOK, Positions
    <3>2. get_indexes(status, deshredded, index) = {}
      BY <3>1 DEF get_indexes
    <3> QED BY <1>1, <2>1, <3>2, <1>t
        DEF Enter, ReturnNone, args, IndInv, TypeOK, LoopInv, ReturnsTheSegment
  <2>2. CASE ~(index >= Length)
    <3>1. TypeOK'
      BY <1>1, <2>2, <1>t DEF Enter, args, TypeOK
    <3>2. LoopInv'
      BY <1>1, <2>2, <1>t DEF Enter, args, LoopInv, Passed, TypeOK
    <3>3. ReturnsTheSegment'
      BY <1>1, <2>2 DEF Enter, args, ReturnsTheSegment
    <3> QED BY <3>1, <3>2, <3>3 DEF IndInv
  <2> QED BY <2>1, <2>2
<1>2. CASE RightNone
  <2>1. get_indexes(status, deshredded, index) = {}
    BY <1>2, <1>t, NoEnd DEF RightNone, IndInv, LoopInv
  <2> QED BY <1>2, <2>1, <1>t
      DEF RightNone, ReturnNone, args, IndInv, TypeOK, LoopInv, ReturnsTheSegment
<1>3. CASE RightStep
  <2> USE DEF RightStep, RightGoesOn, args, IndInv, LoopInv, Passed, EndFound
  <2>1. TypeOK'
    BY <1>3, <1>t DEF TypeOK, Positions
  <2>2. LoopInv'
    BY <1>3, <1>t DEF TypeOK, Positions, ShredStatus
  <2>3. ReturnsTheSegment'
    BY <1>3, <1>t DEF ReturnsTheSegment
  <2> QED BY <2>1, <2>2, <2>3
<1>4. CASE Bounds
  <2>e. EndFound
    BY <1>4 DEF Bounds, IndInv, LoopInv
  <2>1. CASE end = 0 \/ index = 0
    <3>1. index = 0
      BY <2>1, <2>e, <1>t DEF EndFound, TypeOK
    <3>2. get_indexes(status, deshredded, index) =
            {[start |-> 0, end |-> end, unknown_start |-> FALSE]}
      <4>1. Passed(0, index - 1)
        BY <3>1 DEF Passed
      <4>2. 0 \in 0 .. index
        BY <3>1
      <4>3. get_indexes(status, deshredded, index) =
              {[start |-> 0, end |-> end,
                unknown_start |-> 0 > 0 /\ status[0 - 1] = "Unknown"]}
        BY <2>e, <4>1, <4>2, <1>t, SegmentFound
      <4>4. (0 > 0 /\ status[0 - 1] = "Unknown") = FALSE
        OBVIOUS
      <4> QED BY <4>3, <4>4
    <3> QED BY <1>4, <2>1, <3>2, <1>t
        DEF Bounds, ReturnSome, args, IndInv, TypeOK, LoopInv, ReturnsTheSegment
  <2>2. CASE ~(end = 0 \/ index = 0)
    <3> USE DEF Bounds, args
    <3>1. TypeOK'
      <4>1. index \in 0 .. Length /\ index - 1 \in Positions
        BY <2>2, <2>e, <1>t DEF TypeOK, EndFound, Positions
      <4> QED BY <1>4, <2>2, <4>1, <1>t DEF TypeOK
    <3>2. LoopInv'
      BY <1>4, <2>2, <2>e, <1>t DEF LoopInv, EndFound, Passed, TypeOK
    <3>3. ReturnsTheSegment'
      BY <1>4, <2>2 DEF ReturnsTheSegment
    <3> QED BY <3>1, <3>2, <3>3 DEF IndInv
  <2> QED BY <2>1, <2>2
<1>5. CASE LeftKnown
  <2>i. /\ EndFound /\ start = next + 1 /\ start <= index
        /\ Passed(start, index - 1) /\ status[next] = "NotDataComplete"
    BY <1>5 DEF LeftKnown, IndInv, LoopInv
  <2>1. CASE next \in deshredded
    <3>1. get_indexes(status, deshredded, index) = {}
      BY <2>i, <2>1, <1>t, NoStart DEF TypeOK, Positions
    <3> QED BY <1>5, <2>1, <3>1, <1>t
        DEF LeftKnown, ReturnNone, args, IndInv, TypeOK, LoopInv, ReturnsTheSegment
  <2>p. ASSUME next \notin deshredded PROVE Passed(next, index - 1)
    BY <2>i, <2>p, <1>t DEF Passed, TypeOK, Positions
  <2>2. CASE next \notin deshredded /\ next = 0
    <3>1. 0 \in 0 .. index
      BY <1>t DEF TypeOK
    <3>2. get_indexes(status, deshredded, index) =
            {[start |-> 0, end |-> end, unknown_start |-> FALSE]}
      <4>1. Passed(0, index - 1)
        BY <2>2, <2>p
      <4>2. get_indexes(status, deshredded, index) =
              {[start |-> 0, end |-> end,
                unknown_start |-> 0 > 0 /\ status[0 - 1] = "Unknown"]}
        BY <2>i, <3>1, <4>1, <1>t, SegmentFound
      <4>3. (0 > 0 /\ status[0 - 1] = "Unknown") = FALSE
        OBVIOUS
      <4> QED BY <4>2, <4>3
    <3>3. 0 \in 0 .. Length
      OBVIOUS
    <3>4. TypeOK' /\ LoopInv'
      BY <1>5, <2>2, <3>3, <1>t DEF LeftKnown, ReturnSome, args, TypeOK, LoopInv
    <3>5. ReturnsTheSegment'
      BY <1>5, <2>2, <3>2 DEF LeftKnown, ReturnSome, args, ReturnsTheSegment
    <3> QED BY <3>4, <3>5 DEF IndInv
  <2>3. CASE next \notin deshredded /\ next # 0
    <3>1. TypeOK'
      <4>1. next \in 0 .. Length /\ next - 1 \in Positions
        BY <2>3, <1>t DEF TypeOK, Positions
      <4> QED BY <1>5, <2>3, <4>1, <1>t DEF LeftKnown, args, TypeOK
    <3>2. LoopInv'
      BY <1>5, <2>i, <2>3, <2>p, <1>t
      DEF LeftKnown, args, LoopInv, EndFound, Passed, TypeOK, Positions
    <3>3. ReturnsTheSegment'
      BY <1>5, <2>3 DEF LeftKnown, args, ReturnsTheSegment
    <3> QED BY <3>1, <3>2, <3>3 DEF IndInv
  <2> QED BY <2>1, <2>2, <2>3
<1>6. CASE LeftBoundary
  <2>i. /\ EndFound /\ start = next + 1 /\ start <= index
        /\ Passed(start, index - 1) /\ status[next] # "NotDataComplete"
    BY <1>6 DEF LeftBoundary, IndInv, LoopInv
  <2>1. start \in 0 .. index /\ start > 0 /\ start - 1 = next
    BY <2>i, <1>t DEF TypeOK, Positions
  <2>2. get_indexes(status, deshredded, index) =
          {[start |-> start, end |-> end,
            unknown_start |-> start > 0 /\ status[start - 1] = "Unknown"]}
    BY <2>i, <2>1, <1>t, SegmentFound
  <2>3. (start > 0 /\ status[start - 1] = "Unknown") = (status[next] = "Unknown")
    BY <2>1
  <2>4. TypeOK' /\ LoopInv'
    BY <1>6, <1>t DEF LeftBoundary, ReturnSome, args, TypeOK, LoopInv
  <2>5. ReturnsTheSegment'
    BY <1>6, <2>2, <2>3 DEF LeftBoundary, ReturnSome, args, ReturnsTheSegment
  <2> QED BY <2>4, <2>5 DEF IndInv
<1>7. CASE UNCHANGED vars
  BY <1>7 DEF vars, args, IndInv, TypeOK, LoopInv, ReturnsTheSegment, EndFound, Passed
<1> QED BY <1>1, <1>2, <1>3, <1>4, <1>5, <1>6, <1>7 DEF Next

\* On every tracker, of any length, the loops of get_indexes stay inside the
\* vectors: neither an access nor `next -= 1` leaves them.
THEOREM LoopsStayInside == Spec => []TypeOK
<1>1. IndInv => TypeOK
  BY DEF IndInv
<1> QED BY <1>1, InitIndInv, NextIndInv, PTL DEF Spec

\* They return the segment the definition gives, or None if there is none.
THEOREM GetIndexesCorrect == Spec => []ReturnsTheSegment
<1>1. IndInv => ReturnsTheSegment
  BY DEF IndInv
<1> QED BY <1>1, InitIndInv, NextIndInv, PTL DEF Spec
=============================================================================
