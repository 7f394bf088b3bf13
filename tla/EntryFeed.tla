------------------------------ MODULE EntryFeed ------------------------------
(***************************************************************************)
(* What the deshredder promises to the subscribers of the entry service,   *)
(* with none of its machinery: a growing list of segments, each a range of *)
(* data shreds of a slot, cut at the batch ends the leaders flagged.       *)
(***************************************************************************)
EXTENDS Integers, Sequences

CONSTANTS
    Slot, Idx,  \* slots, and the data shred indexes of a slot
    Ends        \* the pairs <<slot, index>> flagged as the end of a batch

VARIABLE feed

FeedEntry == [slot : Slot, start : Idx, end : Idx, unknown_start : BOOLEAN]

Apart(d, e) == d.slot = e.slot => d.end < e.start \/ e.end < d.start

FeedInit == feed = <<>>

\* One more segment: it overlaps none before it, ends where a batch ends and
\* at no earlier end, and starts after an end unless its start is a guess.
Deliver(e) ==
    /\ feed' = Append(feed, e)
    /\ e.start <= e.end
    /\ \A k \in 1 .. Len(feed) : Apart(feed[k], e)
    /\ <<e.slot, e.end>> \in Ends
    /\ \A i \in e.start .. e.end - 1 : <<e.slot, i>> \notin Ends
    /\ e.unknown_start \/ e.start = 0 \/ <<e.slot, e.start - 1>> \in Ends

FeedNext == \E e \in FeedEntry : Deliver(e)

FeedSpec == FeedInit /\ [][FeedNext]_feed
=============================================================================
