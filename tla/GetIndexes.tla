----------------------------- MODULE GetIndexes -----------------------------
(***************************************************************************)
(* The two scanning loops of get_indexes (proxy/src/deshred.rs), one       *)
(* iteration per step, on any tracker of any length.  pc:                  *)
(*   enter, right (the loop to the first DataComplete), bounds (the tests  *)
(*   between the loops), left (the loop to the previous DataComplete),     *)
(*   none and some (returned).                                             *)
(***************************************************************************)
EXTENDS Segments

CONSTANT Length  \* tracker.data_status.len()

ASSUME LengthAssumption == Length \in Nat \ {0}

VARIABLES status, deshredded, index,      \* the arguments
          pc, end, start, next,           \* the locals
          unknown_start                   \* third component of the result

args == <<status, deshredded, index>>
vars == <<args, pc, end, start, next, unknown_start>>

Positions == 0 .. Length - 1

Init ==
    /\ status \in [Positions -> ShredStatus]
    /\ deshredded \in SUBSET Positions
    /\ index \in 0 .. Length
    /\ pc = "enter"
    /\ end = 0 /\ start = 0 /\ next = 0
    /\ unknown_start = FALSE

ReturnNone == pc' = "none" /\ UNCHANGED <<args, end, start, next, unknown_start>>

ReturnSome(first, last, unknown) ==
    /\ pc' = "some"
    /\ start' = first /\ end' = last /\ unknown_start' = unknown
    /\ UNCHANGED <<args, next>>

Enter ==
    /\ pc = "enter"
    /\ IF index >= Length THEN ReturnNone
       ELSE /\ end' = index
            /\ pc' = "right"
            /\ UNCHANGED <<args, start, next, unknown_start>>

\* A faulty form of RightGoesOn: already_deshredded is not looked at.
RightGoesOn_IgnoresDeshredded == end < Length /\ status[end] # "Unknown"

RightGoesOn == end < Length /\ end \notin deshredded /\ status[end] # "Unknown"

RightNone == pc = "right" /\ ~RightGoesOn /\ ReturnNone

\* A faulty form of RightStep: `end += 1` is missing.
RightStep_Stuck ==
    /\ pc = "right"
    /\ RightGoesOn
    /\ pc' = IF status[end] = "DataComplete" THEN "bounds" ELSE pc
    /\ UNCHANGED <<args, end, start, next, unknown_start>>

RightStep ==
    /\ pc = "right"
    /\ RightGoesOn
    /\ IF status[end] = "DataComplete"
       THEN pc' = "bounds" /\ UNCHANGED end
       ELSE end' = end + 1 /\ UNCHANGED pc
    /\ UNCHANGED <<args, start, next, unknown_start>>

Bounds ==
    /\ pc = "bounds"
    /\ IF end = 0 \/ index = 0 THEN ReturnSome(0, end, FALSE)
       ELSE /\ start' = index
            /\ next' = index - 1
            /\ pc' = "left"
            /\ UNCHANGED <<args, end, unknown_start>>

\* A faulty form of LeftKnown: the first shred of the slot is not told apart,
\* so that the scan moves on below 0.
LeftKnown_PastZero ==
    /\ pc = "left"
    /\ status[next] = "NotDataComplete"
    /\ IF next \in deshredded THEN ReturnNone
       ELSE /\ start' = next
            /\ next' = next - 1
            /\ UNCHANGED <<args, pc, end, unknown_start>>

LeftKnown ==
    /\ pc = "left"
    /\ status[next] = "NotDataComplete"
    /\ IF next \in deshredded THEN ReturnNone
       ELSE IF next = 0 THEN ReturnSome(0, end, FALSE)
       ELSE /\ start' = next
            /\ next' = next - 1
            /\ UNCHANGED <<args, pc, end, unknown_start>>

LeftBoundary ==
    /\ pc = "left"
    /\ status[next] # "NotDataComplete"
    /\ ReturnSome(start, end, status[next] = "Unknown")

Next == Enter \/ RightNone \/ RightStep \/ Bounds \/ LeftKnown \/ LeftBoundary

Spec == Init /\ [][Next]_vars /\ WF_vars(Next)

-----------------------------------------------------------------------------
\* Types; in the left loop next is a valid position, so that neither the
\* vector accesses nor `next -= 1` can leave the vector.
TypeOK ==
    /\ status \in [Positions -> ShredStatus]
    /\ deshredded \in SUBSET Positions
    /\ index \in 0 .. Length
    /\ pc \in {"enter", "right", "bounds", "left", "none", "some"}
    /\ end \in 0 .. Length
    /\ start \in 0 .. Length
    /\ next \in Positions
    /\ unknown_start \in BOOLEAN

\* The loops return exactly the segment of the definition get_indexes: None
\* when there is none, and otherwise its bounds and the unknown-start flag.
ReturnsTheSegment ==
    /\ pc = "none" => get_indexes(status, deshredded, index) = {}
    /\ pc = "some" => get_indexes(status, deshredded, index) =
          {[start |-> start, end |-> end, unknown_start |-> unknown_start]}

\* Both loops stop on every tracker.
Returns == <>(pc \in {"none", "some"})
=============================================================================
