------------------------------ MODULE Segments ------------------------------
(***************************************************************************)
(* The segment search of the deshredder (proxy/src/deshred.rs,             *)
(* get_indexes) as a definition: which range of data shreds holds the      *)
(* entry batch around `index`, given what is known of the slot.  Module    *)
(* GetIndexes models the two scanning loops of the code step by step and   *)
(* shows that they return exactly this range.                              *)
(*                                                                         *)
(*   status      the tracker's data_status, a function on 0 .. len-1       *)
(*   deshredded  the indexes marked in the tracker's already_deshredded    *)
(***************************************************************************)
EXTENDS Integers

ShredStatus == {"Unknown", "NotDataComplete", "DataComplete"}

\* The right boundary: the first DataComplete at or after index, when every
\* index up to it is known and not deshredded yet.  At most one element.
SegmentEnds(status, deshredded, index) ==
    {end \in DOMAIN status :
        /\ index <= end
        /\ status[end] = "DataComplete"
        /\ \A i \in index .. end - 1 : status[i] = "NotDataComplete"
        /\ \A i \in index .. end : i \notin deshredded}

\* A faulty form of SegmentStarts: every segment is taken to start where the
\* search began, in the middle of a batch of several FEC sets.
SegmentStarts_NoLeftScan(status, deshredded, index) == {index}

\* The left boundary: one past the closest index to the left that is not
\* NotDataComplete, or 0; none if the scan meets a deshredded shred first.
\* At most one element.
SegmentStarts(status, deshredded, index) ==
    {start \in DOMAIN status :
        /\ start <= index
        /\ \A i \in start .. index - 1 :
              status[i] = "NotDataComplete" /\ i \notin deshredded
        /\ start > 0 => status[start - 1] # "NotDataComplete"}

\* The segment found from index: {} stands for None, a singleton for Some.
\* unknown_start: the shred before the segment has not been seen, so its
\* start is a guess.
get_indexes(status, deshredded, index) ==
    {[start |-> start, end |-> end,
      unknown_start |-> start > 0 /\ status[start - 1] = "Unknown"] :
        start \in SegmentStarts(status, deshredded, index),
        end \in SegmentEnds(status, deshredded, index)}
=============================================================================
