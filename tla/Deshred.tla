------------------------------- MODULE Deshred -------------------------------
(***************************************************************************)
(* The reconstructor thread: it takes a packet batch off the reconstruct   *)
(* channel, runs reconstruct_shreds on it (proxy/src/deshred.rs) and sends *)
(* the entries it decoded to the gRPC service (proxy/src/forwarder.rs,     *)
(* start_forwarder_threads).  The thread owns all of this state, so the    *)
(* steps below interleave with nothing; pc makes each call run through     *)
(* its loops in the order of the code:                                     *)
(*   recv     waiting on the channel                                       *)
(*   ingest   one packet of the batch per step                             *)
(*   recover  erasure recovery, one touched FEC set per step, in order     *)
(*   deshred  segment search and decoding, one touched FEC set per step;   *)
(*            then old slots are evicted and the entries are sent          *)
(***************************************************************************)
EXTENDS Segments, FiniteSets, Sequences

CONSTANTS
    MAX_DATA_SHREDS_PER_SLOT,  \* length of the tracker's vectors
    SLOT_LOOKBACK,             \* 50 in the code
    MAX_PROCESSING_AGE,        \* 150, from solana_sdk
    Shred,          \* every shred the network may carry, see ShredAssumption
    BadRecovery,    \* shreds whose reconstruction yields an Err item
    Decodable,      \* sets of data shreds whose joint payload is accepted by
                    \*   Shredder::deshred and bincode::deserialize
    MaxBatch,       \* bound on the number of packets in a batch
    None,           \* Option::None
    Undecodable     \* a packet that is not a shred (a TraceShred, say)

Idx == 0 .. MAX_DATA_SHREDS_PER_SLOT - 1

Slot == {x.slot : x \in Shred}

(***************************************************************************)
(* What a shred's headers say.  `complete` is data_complete() ||           *)
(* last_in_slot(); `set` names the erasure set the shred was made in (its  *)
(* merkle root).  Shreds that differ only in bytes ComparableShred does    *)
(* not compare are one element.  Indexes below MAX_DATA_SHREDS_PER_SLOT    *)
(* are what the shred parser lets through.                                 *)
(***************************************************************************)
ASSUME ShredAssumption ==
    /\ MAX_DATA_SHREDS_PER_SLOT \in Nat \ {0}
    /\ Shred \subseteq [slot : Nat, type : {"Data", "Code"}, index : Idx,
                        fec_set_index : Idx, set : Nat, complete : BOOLEAN]
    /\ IsFiniteSet(Shred)
    /\ \A x, y \in Shred : x.set = y.set => /\ x.slot = y.slot
                                           /\ x.fec_set_index = y.fec_set_index
    /\ None \notin Shred /\ Undecodable \notin Shred

ASSUME LimitsAssumption ==
    /\ SLOT_LOOKBACK \in Nat
    /\ MAX_PROCESSING_AGE \in Nat
    /\ SLOT_LOOKBACK < MAX_PROCESSING_AGE
    /\ MaxBatch \in Nat \ {0}

VARIABLES
    pc,
    batch,          \* packets of the current batch not ingested yet
    \* ---- all_shreds: HashMap<Slot, (HashMap<fec, HashSet>, Tracker)>
    tracked,        \* its keys; the functions below keep their default
                    \*   value at a slot that is not a key
    fec_shreds,     \* slot, fec_set_index -> shreds held for recovery
    data_shreds,    \* slot, index -> data shred or None
    data_status,    \* slot, index -> ShredStatus
    already_recovered_fec_sets,   \* slot -> fec_set_indexes marked true
    already_deshredded,           \* slot -> indexes marked true
    \* ---- the call's other arguments and locals
    highest_slot_seen,
    slot_fec_indexes_to_iterate,  \* set of <<slot, fec_set_index>>
    remaining,      \* the part of it the current loop has not visited yet
    deshredded_entries,           \* segments decoded by the current call
    total_recovered_count,        \* shreds recovered by the current call
    recovered_count,              \* ShredMetrics::recovered_count
    \* ---- what the thread has handed to the service
    sent,
    \* ---- history, read by the properties only
    seen            \* shreds that arrived while their slot was not old

slotVars == <<tracked, fec_shreds, data_shreds, data_status,
              already_recovered_fec_sets, already_deshredded>>
vars == <<pc, batch, slotVars, highest_slot_seen, slot_fec_indexes_to_iterate,
          remaining, deshredded_entries, total_recovered_count,
          recovered_count, sent, seen>>

-----------------------------------------------------------------------------
(* Headers and FEC sets *)

DataOf(S) == {x \in S : x.type = "Data"}
CodeOf(S) == {x \in S : x.type = "Code"}

\* The erasure set a shred belongs to, and num_data_shreds of its coding
\* header.
ErasureSet(x) == {y \in Shred : y.set = x.set}
num_data_shreds(x) == Cardinality(DataOf(ErasureSet(x)))

\* num_expected_data_shreds of get_data_shred_info.  A coding shred's header
\* wins whatever the iteration order of the HashSet; failing that, the last
\* data shred of the set tells.  A set of values: with contradictory headers
\* the iteration order decides.
ExpectedDataShreds(S) ==
    LET last == {x \in DataOf(S) : x.complete}
    IN  IF CodeOf(S) # {} THEN {num_data_shreds(x) : x \in CodeOf(S)}
        ELSE IF last # {} THEN {x.index - x.fec_set_index + 1 : x \in last}
        ELSE {0}

\* merkle::recover of solana_ledger: succeeds on enough consistent shreds,
\* a coding shred among them, and returns the rest of the erasure set.
RecoverySucceeds(S) ==
    /\ CodeOf(S) # {}
    /\ \A x, y \in S : x.set = y.set
    /\ \A x \in S : Cardinality(S) >= num_data_shreds(x)
Recover(S) == (UNION {ErasureSet(x) : x \in S}) \ S

-----------------------------------------------------------------------------
Init ==
    /\ pc = "recv"
    /\ batch = <<>>
    /\ tracked = {}
    /\ fec_shreds = [s \in Slot |-> [f \in Idx |-> {}]]
    /\ data_shreds = [s \in Slot |-> [i \in Idx |-> None]]
    /\ data_status = [s \in Slot |-> [i \in Idx |-> "Unknown"]]
    /\ already_recovered_fec_sets = [s \in Slot |-> {}]
    /\ already_deshredded = [s \in Slot |-> {}]
    /\ highest_slot_seen = 0
    /\ slot_fec_indexes_to_iterate = {}
    /\ remaining = {}
    /\ deshredded_entries = <<>>
    /\ total_recovered_count = 0
    /\ recovered_count = 0
    /\ sent = <<>>
    /\ seen = {}

Batches == UNION {[1 .. n -> Shred \cup {Undecodable}] : n \in 1 .. MaxBatch}

\* recv_timeout returned a batch; the call begins with two empty vectors.
Receive(b) ==
    /\ pc = "recv"
    /\ batch' = b
    /\ pc' = "ingest"
    /\ deshredded_entries' = <<>>
    /\ slot_fec_indexes_to_iterate' = {}
    /\ total_recovered_count' = 0
    /\ UNCHANGED <<slotVars, highest_slot_seen, remaining, recovered_count,
                   sent, seen>>

-----------------------------------------------------------------------------
(* ingest all packets *)

slot_threshold ==
    IF highest_slot_seen > SLOT_LOOKBACK
    THEN highest_slot_seen - SLOT_LOOKBACK ELSE 0

\* A faulty form of IsOld: old shreds are let in.
IsOld_Never(slot) == FALSE

IsOld(slot) == slot_threshold > slot

\* The test in front of update_state_tracker.  The index of a coding shred
\* counts coding shreds, yet it is looked up among the data shreds.
AlreadyCompleted(x) ==
    \/ x.fec_set_index \in already_recovered_fec_sets[x.slot]
    \/ x.index \in already_deshredded[x.slot]

\* A faulty form of IsNewShred: a data shred replaces the one held.
IsNewShred_Overwrites(x) ==
    x.fec_set_index \notin already_recovered_fec_sets[x.slot]

\* update_state_tracker returns Some.
IsNewShred(x) ==
    /\ x.fec_set_index \notin already_recovered_fec_sets[x.slot]
    /\ x.type = "Data" => /\ data_shreds[x.slot][x.index] = None
                          /\ data_status[x.slot][x.index] = "Unknown"

StatusOf(x) == IF x.complete THEN "DataComplete" ELSE "NotDataComplete"

\* A faulty form of Store: last_in_slot and data_complete are not looked at.
Store_NeverComplete(slot, X) ==
    LET At(i) == {x \in DataOf(X) : x.index = i}
    IN  /\ data_shreds' = [data_shreds EXCEPT ![slot] = [i \in Idx |->
              IF At(i) # {} THEN CHOOSE x \in At(i) : TRUE ELSE @[i]]]
        /\ data_status' = [data_status EXCEPT ![slot] = [i \in Idx |->
              IF At(i) # {} THEN "NotDataComplete" ELSE @[i]]]

\* What update_state_tracker writes for the shreds X of a slot: the data
\* shreds go into the tracker, coding shreds leave it alone.
Store(slot, X) ==
    LET At(i) == {x \in DataOf(X) : x.index = i}
        new(i) == CHOOSE x \in At(i) : TRUE
    IN  /\ data_shreds' = [data_shreds EXCEPT ![slot] = [i \in Idx |->
              IF At(i) # {} THEN new(i) ELSE @[i]]]
        /\ data_status' = [data_status EXCEPT ![slot] = [i \in Idx |->
              IF At(i) # {} THEN StatusOf(new(i)) ELSE @[i]]]

NextPacket ==
    /\ pc = "ingest"
    /\ batch # <<>>
    /\ batch' = Tail(batch)
    /\ UNCHANGED <<pc, remaining, deshredded_entries, total_recovered_count,
                   recovered_count, sent>>

\* Packets that do not parse as a merkle shred change nothing.
SkipPacket ==
    /\ NextPacket
    /\ Head(batch) = Undecodable
    /\ UNCHANGED <<slotVars, highest_slot_seen, slot_fec_indexes_to_iterate,
                   seen>>

\* The three early `continue`s.  The slot's map entry has been created by
\* then, even for an old slot.
DropShred ==
    /\ NextPacket
    /\ Head(batch) \in Shred
    /\ LET x == Head(batch)
       IN  /\ IsOld(x.slot) \/ AlreadyCompleted(x) \/ ~IsNewShred(x)
           /\ tracked' = tracked \cup {x.slot}
           /\ seen' = IF IsOld(x.slot) THEN seen ELSE seen \cup {x}
    /\ UNCHANGED <<fec_shreds, data_shreds, data_status,
                   already_recovered_fec_sets, already_deshredded,
                   highest_slot_seen, slot_fec_indexes_to_iterate>>

\* A faulty form of HigherSlot: the slots are added up.
HigherSlot_Sum(slot) == highest_slot_seen + slot

HigherSlot(slot) ==
    IF slot > highest_slot_seen THEN slot ELSE highest_slot_seen

AcceptShred ==
    /\ NextPacket
    /\ Head(batch) \in Shred
    /\ LET x == Head(batch)
       IN  /\ ~IsOld(x.slot) /\ ~AlreadyCompleted(x) /\ IsNewShred(x)
           /\ tracked' = tracked \cup {x.slot}
           /\ Store(x.slot, {x})
           /\ fec_shreds' =
                [fec_shreds EXCEPT ![x.slot][x.fec_set_index] = @ \cup {x}]
           /\ slot_fec_indexes_to_iterate' =
                slot_fec_indexes_to_iterate \cup {<<x.slot, x.fec_set_index>>}
           /\ highest_slot_seen' = HigherSlot(x.slot)
           /\ seen' = seen \cup {x}
    /\ UNCHANGED <<already_recovered_fec_sets, already_deshredded>>

\* sort_unstable and dedup: the vector is a set from which NextSet picks the
\* least pair.
StartRecovery ==
    /\ pc = "ingest"
    /\ batch = <<>>
    /\ pc' = "recover"
    /\ remaining' = slot_fec_indexes_to_iterate
    /\ UNCHANGED <<batch, slotVars, highest_slot_seen,
                   slot_fec_indexes_to_iterate, deshredded_entries,
                   total_recovered_count, recovered_count, sent, seen>>

-----------------------------------------------------------------------------
(* try recovering by FEC set *)

\* A faulty form of Before: the pairs are visited in descending order.
Before_Descending(p, q) == p[1] > q[1] \/ (p[1] = q[1] /\ p[2] >= q[2])

Before(p, q) == p[1] < q[1] \/ (p[1] = q[1] /\ p[2] <= q[2])

NextSet(p) ==
    /\ p \in remaining
    /\ \A q \in remaining : Before(p, q)
    /\ remaining' = remaining \ {p}
    /\ UNCHANGED <<pc, batch, tracked, highest_slot_seen,
                   slot_fec_indexes_to_iterate, recovered_count, sent, seen>>

\* A faulty form of EnoughShreds: one shred too many is asked for.
EnoughShreds_OffByOne(S, expected) ==
    /\ expected # 0
    /\ Cardinality(S) > expected
    /\ Cardinality(DataOf(S)) # expected

EnoughShreds(S, expected) ==
    /\ expected # 0
    /\ Cardinality(S) >= expected
    /\ Cardinality(DataOf(S)) # expected

\* The items of merkle::recover that are Ok and new to the tracker.
Recovered(S) == {x \in Recover(S) \ BadRecovery : IsNewShred(x)}

\* Too few shreds, all data shreds there already, or recover failed.
RecoverNothing(p) ==
    /\ pc = "recover"
    /\ NextSet(p)
    /\ LET S == fec_shreds[p[1]][p[2]]
       IN  \E expected \in ExpectedDataShreds(S) :
              ~EnoughShreds(S, expected) \/ ~RecoverySucceeds(S)
    /\ UNCHANGED <<fec_shreds, data_shreds, data_status,
                   already_recovered_fec_sets, already_deshredded,
                   deshredded_entries, total_recovered_count>>

\* The recovered shreds go into the tracker, are counted, and, if there were
\* any, the set is marked and its shreds are dropped.
RecoverSet(p) ==
    /\ pc = "recover"
    /\ NextSet(p)
    /\ LET S == fec_shreds[p[1]][p[2]]
           X == Recovered(S)
       IN  /\ \E expected \in ExpectedDataShreds(S) : EnoughShreds(S, expected)
           /\ RecoverySucceeds(S)
           /\ Store(p[1], X)
           /\ total_recovered_count' = total_recovered_count + Cardinality(X)
           /\ IF X # {}
              THEN /\ already_recovered_fec_sets' =
                        [already_recovered_fec_sets EXCEPT ![p[1]] = @ \cup {p[2]}]
                   /\ fec_shreds' = [fec_shreds EXCEPT ![p[1]][p[2]] = {}]
              ELSE UNCHANGED <<already_recovered_fec_sets, fec_shreds>>
    /\ UNCHANGED <<already_deshredded, deshredded_entries>>

StartDeshredding ==
    /\ pc = "recover"
    /\ remaining = {}
    /\ pc' = "deshred"
    /\ remaining' = slot_fec_indexes_to_iterate
    /\ UNCHANGED <<batch, slotVars, highest_slot_seen,
                   slot_fec_indexes_to_iterate, deshredded_entries,
                   total_recovered_count, recovered_count, sent, seen>>

-----------------------------------------------------------------------------
(* deshred and bincode deserialize *)

Segment(p) ==
    get_indexes(data_status[p[1]], already_deshredded[p[1]], p[2])

\* The data shreds of a slot from start to end: to_deshred.
ShredsIn(slot, seg) == {data_shreds[slot][i] : i \in seg.start .. seg.end}

\* No segment, or one whose payload does not decode.
DeshredNothing(p) ==
    /\ pc = "deshred"
    /\ NextSet(p)
    /\ \A seg \in Segment(p) : ShredsIn(p[1], seg) \notin Decodable
    /\ UNCHANGED <<fec_shreds, data_shreds, data_status,
                   already_recovered_fec_sets, already_deshredded,
                   deshredded_entries, total_recovered_count>>

\* A faulty form of MarkDeshredded: the FEC sets are marked, the shreds not.
MarkDeshredded_SetsOnly(slot, X) ==
    /\ already_recovered_fec_sets' =
         [already_recovered_fec_sets EXCEPT
            ![slot] = @ \cup {x.fec_set_index : x \in X}]
    /\ UNCHANGED already_deshredded

MarkDeshredded(slot, X) ==
    /\ already_recovered_fec_sets' =
         [already_recovered_fec_sets EXCEPT
            ![slot] = @ \cup {x.fec_set_index : x \in X}]
    /\ already_deshredded' =
         [already_deshredded EXCEPT ![slot] = @ \cup {x.index : x \in X}]

DeshredSegment(p) ==
    /\ pc = "deshred"
    /\ NextSet(p)
    /\ \E seg \in Segment(p) :
          /\ ShredsIn(p[1], seg) \in Decodable
          /\ deshredded_entries' = Append(deshredded_entries,
                [slot |-> p[1], start |-> seg.start, end |-> seg.end,
                 unknown_start |-> seg.unknown_start])
          /\ MarkDeshredded(p[1], ShredsIn(p[1], seg))
    /\ UNCHANGED <<fec_shreds, data_shreds, data_status,
                   total_recovered_count>>

-----------------------------------------------------------------------------
(* evict old slots, return, and send the entries *)

\* A faulty form of Evicted: nothing is.
Evicted_Never(slot) == FALSE

Evicted(slot) ==
    Cardinality(tracked) > MAX_PROCESSING_AGE /\ slot_threshold > slot

Return ==
    /\ pc = "deshred"
    /\ remaining = {}
    /\ pc' = "recv"
    /\ tracked' = {s \in tracked : ~Evicted(s)}
    /\ fec_shreds' = [s \in Slot |->
          IF Evicted(s) THEN [f \in Idx |-> {}] ELSE fec_shreds[s]]
    /\ data_shreds' = [s \in Slot |->
          IF Evicted(s) THEN [i \in Idx |-> None] ELSE data_shreds[s]]
    /\ data_status' = [s \in Slot |->
          IF Evicted(s) THEN [i \in Idx |-> "Unknown"] ELSE data_status[s]]
    /\ already_recovered_fec_sets' = [s \in Slot |->
          IF Evicted(s) THEN {} ELSE already_recovered_fec_sets[s]]
    /\ already_deshredded' = [s \in Slot |->
          IF Evicted(s) THEN {} ELSE already_deshredded[s]]
    /\ recovered_count' = recovered_count + total_recovered_count
    /\ sent' = sent \o deshredded_entries
    /\ deshredded_entries' = <<>>
    /\ slot_fec_indexes_to_iterate' = {}   \* not read before the next clear
    /\ total_recovered_count' = 0
    /\ UNCHANGED <<batch, highest_slot_seen, remaining, seen>>

-----------------------------------------------------------------------------
Ingest == SkipPacket \/ DropShred \/ AcceptShred \/ StartRecovery
RecoverPhase ==
    (\E p \in remaining : RecoverNothing(p) \/ RecoverSet(p)) \/ StartDeshredding
DeshredPhase ==
    (\E p \in remaining : DeshredNothing(p) \/ DeshredSegment(p)) \/ Return

Next == (\E b \in Batches : Receive(b)) \/ Ingest \/ RecoverPhase \/ DeshredPhase

Spec == Init /\ [][Next]_vars

\* The thread runs: a call that has begun goes on to its end.
FairSpec == Spec /\ WF_vars(Ingest \/ RecoverPhase \/ DeshredPhase)
-----------------------------------------------------------------------------
(* Properties *)

Entry == [slot : Slot, start : Idx, end : Idx, unknown_start : BOOLEAN]

\* Everything decoded so far, in the order it was decoded.
Feed == sent \o deshredded_entries

\* Types of the thread's state.  A slot counter that is not one of the slots
\* received, or 0, would be the work of a wrong update of highest_slot_seen.
TypeOK ==
    /\ pc \in {"recv", "ingest", "recover", "deshred"}
    /\ batch \in Seq(Shred \cup {Undecodable})
    /\ tracked \subseteq Slot
    /\ fec_shreds \in [Slot -> [Idx -> SUBSET Shred]]
    /\ data_shreds \in [Slot -> [Idx -> Shred \cup {None}]]
    /\ data_status \in [Slot -> [Idx -> ShredStatus]]
    /\ already_recovered_fec_sets \in [Slot -> SUBSET Idx]
    /\ already_deshredded \in [Slot -> SUBSET Idx]
    /\ highest_slot_seen \in Slot \cup {0}
    /\ slot_fec_indexes_to_iterate \subseteq Slot \X Idx
    /\ remaining \subseteq slot_fec_indexes_to_iterate
    /\ deshredded_entries \in Seq(Entry)
    /\ total_recovered_count \in Nat
    /\ recovered_count \in Nat
    /\ sent \in Seq(Entry)
    /\ seen \subseteq Shred

\* Two decoded segments share no data shred of a slot.
Disjoint(d, e) == d.slot = e.slot => d.end < e.start \/ e.end < d.start

\* A data shred's entries reach the subscribers at most once: no two decoded
\* segments overlap, whatever arrives in whatever order, also when a slot's
\* state is evicted and shreds of it arrive again.
AtMostOnce ==
    \A i, j \in 1 .. Len(Feed) : i # j => Disjoint(Feed[i], Feed[j])

\* all_shreds does not grow without bound: between two calls it holds at most
\* MAX_PROCESSING_AGE slots, although the entry of an old shred's slot is
\* created before the shred is found to be old.
SlotsBounded == pc = "recv" => Cardinality(tracked) <= MAX_PROCESSING_AGE

\* The tracker's two views of a slot agree: a status is known exactly where a
\* data shred is held, and it is that shred's.  The unwrap() on the shreds of
\* a segment rests on it.
TrackerConsistent ==
    \A s \in Slot, i \in Idx :
        IF data_shreds[s][i] = None THEN data_status[s][i] = "Unknown"
        ELSE /\ data_shreds[s][i].slot = s
             /\ data_shreds[s][i].index = i
             /\ data_status[s][i] = StatusOf(data_shreds[s][i])

\* The leader flags the data shred s, i as the end of an entry batch.
EndsBatch(s, i) ==
    \E x \in DataOf(Shred) : x.slot = s /\ x.index = i /\ x.complete

\* The deshredder implements the abstract feed: a segment is decoded once,
\* never spans the end of a batch, and is a whole entry batch whenever the
\* code does not report its start as unknown.
AbstractFeed == INSTANCE EntryFeed WITH
    feed <- Feed, Ends <- {p \in Slot \X Idx : EndsBatch(p[1], p[2])}
ImplementsFeed == AbstractFeed!FeedSpec

\* One call decodes the segments of a slot, and the slots, in ascending order:
\* what sorting slot_fec_indexes_to_iterate gives the subscribers.
InOrderWithinCall ==
    \A i, j \in 1 .. Len(deshredded_entries) :
        LET d == deshredded_entries[i]
            e == deshredded_entries[j]
        IN  i < j => d.slot < e.slot \/ (d.slot = e.slot /\ d.end < e.start)

\* The entry batches of a slot, as ranges of data shreds.
EntryBatches(s) ==
    {r \in Idx \X Idx :
        /\ r[1] <= r[2]
        /\ EndsBatch(s, r[2])
        /\ \A i \in r[1] .. r[2] - 1 : ~EndsBatch(s, i)
        /\ r[1] > 0 => EndsBatch(s, r[1] - 1)}

\* As many shreds of x's erasure set have arrived as it has data shreds.
EnoughArrived(x) == Cardinality(ErasureSet(x) \cap seen) >= num_data_shreds(x)

\* The data shreds of a slot from index a to index b.
DataIn(s, a, b) == {x \in DataOf(Shred) : x.slot = s /\ x.index \in a .. b}

EnoughForBatch(s, r) == \A x \in DataIn(s, r[1], r[2]) : EnoughArrived(x)

Decoded(s, r) ==
    \E k \in 1 .. Len(Feed) :
        Feed[k].slot = s /\ Feed[k].start = r[1] /\ Feed[k].end = r[2]

\* The blocks for which a batch can be expected never to be stranded.  Of each
\* block there is one version, without gaps, cut into batches and these into FEC
\* sets; the coding shreds of a set carry indexes of its data shreds, so there
\* are no more of them; a data shred can be recovered; of the runs of data
\* shreds up to the end of a batch, only the whole batch decodes.
RegularBlocks ==
    /\ \A x, y \in DataOf(Shred) : x.slot = y.slot /\ x.index = y.index => x = y
    /\ \A x, y \in Shred :
          x.slot = y.slot /\ x.fec_set_index = y.fec_set_index => x.set = y.set
    /\ \A x \in DataOf(Shred) :
          /\ \A i \in 0 .. x.index : DataIn(x.slot, i, i) # {}
          /\ x.fec_set_index <= x.index
          /\ \A i \in x.fec_set_index .. x.index - 1 : ~EndsBatch(x.slot, i)
    /\ \A x \in CodeOf(Shred) : \E y \in DataOf(ErasureSet(x)) : y.index = x.index
    /\ BadRecovery \cap DataOf(Shred) = {}
    /\ \A s \in Slot, a, b \in Idx :
          a <= b /\ EndsBatch(s, b) /\ (\A i \in a .. b - 1 : ~EndsBatch(s, i)) =>
              (DataIn(s, a, b) \in Decodable <=> <<a, b>> \in EntryBatches(s))

\* No batch is stranded: once enough shreds, data or coding, of every FEC set
\* of a batch have arrived, the call that took the last of them has decoded
\* the batch, however the arrivals were ordered and grouped into calls.  (For
\* a slot that has not become old.)
NoStrandedBatch ==
    pc = "recv" =>
        \A s \in Slot : ~IsOld(s) =>
            \A r \in EntryBatches(s) : EnoughForBatch(s, r) => Decoded(s, r)

\* The first data shred received or recovered at an index stays until its slot
\* is evicted: a second one, of the same or of another version of the block,
\* neither replaces nor removes it.
FirstShredStays ==
    [][\A s \in tracked \cap tracked', i \in Idx :
          data_shreds[s][i] # None => data_shreds'[s][i] = data_shreds[s][i]]_vars

\* Once enough shreds of a batch have arrived, its entries are sent or its slot
\* becomes old: the thread never sits on a decodable batch.
EnoughIsSent ==
    \A s \in Slot : \A r \in EntryBatches(s) :
        EnoughForBatch(s, r) ~>
            \/ IsOld(s)
            \/ \E k \in 1 .. Len(sent) : /\ sent[k].slot = s
                                         /\ sent[k].start = r[1]
                                         /\ sent[k].end = r[2]
=============================================================================
