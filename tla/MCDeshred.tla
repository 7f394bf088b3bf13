------------------------------ MODULE MCDeshred ------------------------------
(***************************************************************************)
(* Blocks for model-checking Deshred.  A block is cut into entry batches,  *)
(* a batch into FEC sets; the last data shred of a batch is flagged.       *)
(***************************************************************************)
EXTENDS Deshred

D(slot, index, fec, set, complete) ==
    [slot |-> slot, type |-> "Data", index |-> index, fec_set_index |-> fec,
     set |-> set, complete |-> complete]
C(slot, index, fec, set) ==
    [slot |-> slot, type |-> "Code", index |-> index, fec_set_index |-> fec,
     set |-> set, complete |-> FALSE]

\* One slot, two batches: data shreds 0-2 in two FEC sets, 3-4 in one.  The
\* coding shreds of a set are numbered like its data shreds.
OneBlock ==
    {D(7, 0, 0, 1, FALSE), D(7, 1, 0, 1, FALSE), C(7, 0, 0, 1), C(7, 1, 0, 1),
     D(7, 2, 2, 2, TRUE), C(7, 2, 2, 2),
     D(7, 3, 3, 3, FALSE), D(7, 4, 3, 3, TRUE)}
OneBlockBatches ==
    {{x \in DataOf(OneBlock) : x.index \in r} : r \in {0 .. 2, 3 .. 4}}

\* A block in two versions between two blocks of one shred, for the look-back
\* and the eviction.  Its batches are the data shreds 0-1 and 2.  The set of
\* data shred 0 exists twice, and one version can be recovered as well as
\* received.  The recovery of data shred 2 fails, while that of a coding shred
\* beside it succeeds and marks the set.  Every run of its data shreds decodes,
\* batch or not.
History ==
    {D(0, 0, 0, 8, TRUE),
     D(1, 0, 0, 1, FALSE), D(1, 0, 0, 9, FALSE), C(1, 0, 0, 9), D(1, 1, 1, 2, TRUE),
     D(1, 2, 2, 3, TRUE), C(1, 2, 2, 3), C(1, 1, 2, 3),
     D(2, 0, 0, 7, TRUE)}
HistoryBad == {D(1, 2, 2, 3, TRUE)}
HistoryDecodable ==
    {S \in SUBSET DataOf(History) :
        /\ \A x, y \in S : x.slot = y.slot /\ (x.index = y.index => x = y)
        /\ {x.index : x \in S} \in {i .. j : i \in 0 .. 2, j \in 0 .. 2}}

\* The first FEC set has one data shred and two coding shreds, so its second
\* coding shred carries the index of the next batch's data shred.
UnevenBlock ==
    {D(7, 0, 0, 1, TRUE), C(7, 0, 0, 1), C(7, 1, 0, 1), D(7, 1, 1, 2, TRUE)}
UnevenBlockBatches == {{x} : x \in DataOf(UnevenBlock)}

NoShreds == {}

ASSUME BlocksAssumption ==
    /\ Shred = OneBlock => RegularBlocks
    /\ Shred = UnevenBlock => ~RegularBlocks
=============================================================================
