---------------------------- MODULE DeshredProofs ----------------------------
(***************************************************************************)
(* Invariants of the reconstructor thread, for every set of shreds, every  *)
(* block layout and every order of arrival, and what a step does to the    *)
(* shreds kept of one slot.                                                *)
(***************************************************************************)
EXTENDS Deshred, FiniteSetTheorems, TLAPS

-----------------------------------------------------------------------------
(* Facts about the operators *)

\* The fields of a shred have the types of its headers.
LEMMA ShredFields ==
    ASSUME NEW x \in Shred
    PROVE  /\ x.slot \in Slot /\ x.slot \in Nat
           /\ x.index \in Idx /\ x.fec_set_index \in Idx
           /\ x.type \in {"Data", "Code"} /\ x.complete \in BOOLEAN
BY ShredAssumption DEF Slot

\* The slot of a shred is a natural number.
LEMMA SlotsAreNaturals == Slot \subseteq Nat
BY ShredAssumption DEF Slot

\* An index into a tracker's vectors is a natural number.
LEMMA IdxAreNaturals == Idx \subseteq Nat
BY DEF Idx

\* What get_indexes finds: a range of known shreds, none of them deshredded,
\* that contains the index it was asked about.
IsSegment(status, deshredded, index, seg) ==
    /\ seg.start \in Idx /\ seg.end \in Idx
    /\ seg.unknown_start \in BOOLEAN
    /\ seg.start <= index /\ index <= seg.end
    /\ \A i \in seg.start .. seg.end :
          i \in Idx /\ i \notin deshredded /\ status[i] # "Unknown"
    /\ status[seg.end] = "DataComplete"
    /\ \A i \in seg.start .. seg.end - 1 : status[i] = "NotDataComplete"
    /\ ~seg.unknown_start /\ seg.start > 0 =>
          seg.start - 1 \in Idx /\ status[seg.start - 1] = "DataComplete"

\* What get_indexes returns is a segment around the index it was given.
LEMMA SegmentFacts ==
    ASSUME NEW status \in [Idx -> ShredStatus], NEW deshredded \in SUBSET Idx,
           NEW index \in Idx,
           NEW seg \in get_indexes(status, deshredded, index)
    PROVE  IsSegment(status, deshredded, index, seg)
<1>1. PICK a \in SegmentStarts(status, deshredded, index),
           e \in SegmentEnds(status, deshredded, index) :
           seg = [start |-> a, end |-> e,
                  unknown_start |-> a > 0 /\ status[a - 1] = "Unknown"]
  BY DEF get_indexes
<1>2. /\ a \in Idx /\ a <= index
      /\ \A i \in a .. index - 1 :
            status[i] = "NotDataComplete" /\ i \notin deshredded
      /\ a > 0 => status[a - 1] # "NotDataComplete"
  BY DEF SegmentStarts
<1>3. /\ e \in Idx /\ index <= e
      /\ status[e] = "DataComplete"
      /\ \A i \in index .. e - 1 : status[i] = "NotDataComplete"
      /\ \A i \in index .. e : i \notin deshredded
  BY DEF SegmentEnds
<1>4. seg.start = a /\ seg.end = e /\ seg.unknown_start \in BOOLEAN
  BY <1>1
<1>5. seg.unknown_start = (a > 0 /\ status[a - 1] = "Unknown")
  BY <1>1
<1>6. \A i \in a .. e : i \in Idx
  BY <1>2, <1>3, ShredAssumption DEF Idx
<1>7. \A i \in a .. e - 1 : status[i] = "NotDataComplete"
  BY <1>2, <1>3, ShredAssumption DEF Idx
<1>8. \A i \in a .. e : i \notin deshredded
  BY <1>2, <1>3, ShredAssumption DEF Idx
<1>9. \A i \in a .. e : status[i] # "Unknown"
  BY <1>3, <1>7, ShredAssumption DEF Idx
<1>10. ASSUME ~seg.unknown_start, a > 0
       PROVE  a - 1 \in Idx /\ status[a - 1] = "DataComplete"
  <2>1. a - 1 \in Idx
    BY <1>2, <1>10, ShredAssumption DEF Idx
  <2>2. status[a - 1] # "Unknown"
    BY <1>5, <1>10
  <2> QED BY <2>1, <2>2, <1>2, <1>10 DEF ShredStatus
<1> QED BY <1>2, <1>3, <1>4, <1>6, <1>7, <1>8, <1>9, <1>10 DEF IsSegment

\* Appending to the second of two concatenated sequences appends to the whole.
LEMMA ConcatAppend ==
    ASSUME NEW S, NEW s \in Seq(S), NEW t \in Seq(S), NEW e \in S
    PROVE  s \o Append(t, e) = Append(s \o t, e)
OBVIOUS

\* Appending keeps what a sequence holds.
LEMMA AppendKeeps ==
    ASSUME NEW S, NEW q \in Seq(S), NEW e \in S, NEW k \in 1 .. Len(q)
    PROVE  k \in 1 .. Len(Append(q, e)) /\ Append(q, e)[k] = q[k]
OBVIOUS

\* Concatenating the empty sequence changes nothing.
LEMMA ConcatEmpty ==
    ASSUME NEW S, NEW s \in Seq(S)
    PROVE  s \o <<>> = s
OBVIOUS

\* What update_state_tracker does, index by index.
LEMMA StoreFacts ==
    ASSUME TypeOK, NEW slot \in Slot, NEW X \in SUBSET Shred, Store(slot, X)
    PROVE  /\ data_shreds' \in [Slot -> [Idx -> Shred \cup {None}]]
           /\ data_status' \in [Slot -> [Idx -> ShredStatus]]
           /\ \A s \in Slot, i \in Idx :
                \/ /\ data_shreds'[s][i] = data_shreds[s][i]
                   /\ data_status'[s][i] = data_status[s][i]
                \/ /\ s = slot
                   /\ data_shreds'[s][i] \in DataOf(X)
                   /\ data_shreds'[s][i].index = i
                   /\ data_status'[s][i] = StatusOf(data_shreds'[s][i])
<1> DEFINE At(i) == {x \in DataOf(X) : x.index = i}
           new(i) == CHOOSE x \in At(i) : TRUE
<1>1. \A i \in Idx : At(i) # {} => new(i) \in At(i)
  OBVIOUS
<1>2. \A i \in Idx : At(i) # {} => new(i) \in DataOf(X) /\ new(i).index = i
                                   /\ new(i) \in Shred
  BY <1>1 DEF DataOf
<1>3. \A x : StatusOf(x) \in ShredStatus
  BY DEF StatusOf, ShredStatus
<1>4. data_shreds' = [data_shreds EXCEPT ![slot] = [i \in Idx |->
              IF At(i) # {} THEN new(i) ELSE data_shreds[slot][i]]]
  BY DEF Store, TypeOK
<1>5. data_status' = [data_status EXCEPT ![slot] = [i \in Idx |->
              IF At(i) # {} THEN StatusOf(new(i)) ELSE data_status[slot][i]]]
  BY DEF Store, TypeOK
<1> HIDE DEF At, new
<1>6. data_shreds' \in [Slot -> [Idx -> Shred \cup {None}]]
  BY <1>2, <1>4 DEF TypeOK
<1>7. data_status' \in [Slot -> [Idx -> ShredStatus]]
  BY <1>3, <1>5 DEF TypeOK
<1>8. ASSUME NEW s \in Slot, NEW i \in Idx
      PROVE  \/ /\ data_shreds'[s][i] = data_shreds[s][i]
                /\ data_status'[s][i] = data_status[s][i]
             \/ /\ s = slot
                /\ data_shreds'[s][i] \in DataOf(X)
                /\ data_shreds'[s][i].index = i
                /\ data_status'[s][i] = StatusOf(data_shreds'[s][i])
  <2>1. CASE s # slot
    BY <2>1, <1>4, <1>5 DEF TypeOK
  <2>2. CASE s = slot /\ At(i) = {}
    BY <2>2, <1>4, <1>5 DEF TypeOK
  <2>3. CASE s = slot /\ At(i) # {}
    <3>1. data_shreds'[s][i] = new(i) /\ data_status'[s][i] = StatusOf(new(i))
      BY <2>3, <1>4, <1>5 DEF TypeOK
    <3> QED BY <2>3, <3>1, <1>2
  <2> QED BY <2>1, <2>2, <2>3
<1> QED BY <1>6, <1>7, <1>8

\* update_state_tracker writes to the tracker of one slot.
LEMMA StoreElsewhere ==
    ASSUME TypeOK, NEW slot \in Slot, NEW X, Store(slot, X)
    PROVE  \A s \in Slot : s # slot => data_shreds'[s] = data_shreds[s]
BY DEF Store, TypeOK

\* What it does at one index.
LEMMA StoredAt ==
    ASSUME TypeOK, NEW slot \in Slot, NEW X \in SUBSET Shred, Store(slot, X),
           NEW s \in Slot, NEW i \in Idx
    PROVE  \/ data_shreds'[s][i] = data_shreds[s][i]
           \/ /\ s = slot
              /\ data_shreds'[s][i] \in DataOf(X)
              /\ data_shreds'[s][i].index = i
BY StoreFacts

\* Recovery that yields nothing stores nothing.
LEMMA StoreNothing ==
    ASSUME TypeOK, NEW slot \in Slot, Store(slot, {})
    PROVE  \A i \in Idx : data_shreds'[slot][i] = data_shreds[slot][i]
<1>1. {} \in SUBSET Shred /\ DataOf({}) = {}
  BY DEF DataOf
<1>2. ASSUME NEW i \in Idx
      PROVE  data_shreds'[slot][i] = data_shreds[slot][i] \/ data_shreds'[slot][i] \in {}
  <2>1. data_shreds'[slot][i] = data_shreds[slot][i] \/ data_shreds'[slot][i] \in DataOf({})
    BY <1>1, StoredAt
  <2> QED BY <1>1, <2>1
<1> QED BY <1>2

-----------------------------------------------------------------------------
(* Types *)

\* A shred is held for recovery under its own slot and FEC set.
FecHome ==
    \A s \in Slot, f \in Idx : \A x \in fec_shreds[s][f] :
        x.slot = s /\ x.fec_set_index = f

\* Between two calls nothing of a call is left.
BetweenCalls ==
    /\ pc \in {"recv", "ingest"} => remaining = {}
    /\ pc = "recv" => deshredded_entries = <<>>

TypeInv == TypeOK /\ FecHome /\ TrackerConsistent /\ BetweenCalls

\* Storing shreds of a slot keeps the tracker's two views in agreement.
LEMMA StoreConsistent ==
    ASSUME TypeOK, TrackerConsistent, NEW slot \in Slot, NEW X \in SUBSET Shred,
           Store(slot, X), \A x \in X : x.slot = slot
    PROVE  TrackerConsistent'
<1> SUFFICES ASSUME NEW s \in Slot, NEW i \in Idx
             PROVE  (IF data_shreds[s][i] = None THEN data_status[s][i] = "Unknown"
                     ELSE /\ data_shreds[s][i].slot = s
                          /\ data_shreds[s][i].index = i
                          /\ data_status[s][i] = StatusOf(data_shreds[s][i]))'
  BY DEF TrackerConsistent
<1>1. CASE /\ data_shreds'[s][i] = data_shreds[s][i]
           /\ data_status'[s][i] = data_status[s][i]
  BY <1>1 DEF TrackerConsistent, StatusOf
<1>2. CASE /\ s = slot
           /\ data_shreds'[s][i] \in DataOf(X)
           /\ data_shreds'[s][i].index = i
           /\ data_status'[s][i] = StatusOf(data_shreds'[s][i])
  <2>1. data_shreds'[s][i] \in X /\ data_shreds'[s][i] # None
    BY <1>2, ShredAssumption DEF DataOf
  <2> QED BY <1>2, <2>1 DEF StatusOf
<1> QED BY <1>1, <1>2, StoreFacts

\* The shreds of a segment are there and stand at their own index, so that
\* marking them marks exactly the segment.
LEMMA SegmentShreds ==
    ASSUME TypeInv, NEW s \in Slot, NEW f \in Idx, NEW seg \in Segment(<<s, f>>)
    PROVE  /\ ShredsIn(s, seg) \in SUBSET Shred
           /\ {x.index : x \in ShredsIn(s, seg)} = seg.start .. seg.end
<1>1. /\ data_status[s] \in [Idx -> ShredStatus]
      /\ already_deshredded[s] \in SUBSET Idx
      /\ seg \in get_indexes(data_status[s], already_deshredded[s], f)
  BY DEF TypeInv, TypeOK, Segment
<1>2. \A i \in seg.start .. seg.end : i \in Idx /\ data_status[s][i] # "Unknown"
  <2>1. IsSegment(data_status[s], already_deshredded[s], f, seg)
    BY <1>1, SegmentFacts
  <2> QED BY <2>1 DEF IsSegment
<1>3. \A i \in seg.start .. seg.end :
         data_shreds[s][i] \in Shred /\ data_shreds[s][i].index = i
  BY <1>2 DEF TypeInv, TypeOK, TrackerConsistent
<1> QED BY <1>3 DEF ShredsIn

\* Recovery yields finitely many shreds, all of the FEC set it ran on and all
\* new to the tracker.
LEMMA RecoveredFacts ==
    ASSUME TypeInv, NEW s \in Slot, NEW f \in Idx
    PROVE  /\ Recovered(fec_shreds[s][f]) \in SUBSET Shred
           /\ Cardinality(Recovered(fec_shreds[s][f])) \in Nat
           /\ \A x \in Recovered(fec_shreds[s][f]) :
                 /\ x.slot = s /\ x.fec_set_index = f
                 /\ IsNewShred(x)
<1> DEFINE S == fec_shreds[s][f]
<1>1. S \subseteq Shred
  BY DEF TypeInv, TypeOK
<1>2. Recovered(S) \subseteq Shred
  BY DEF Recovered, Recover, ErasureSet
<1>3. Cardinality(Recovered(S)) \in Nat
  <2>1. IsFiniteSet(Recovered(S))
    BY <1>2, ShredAssumption, FS_Subset
  <2> QED BY <2>1, FS_CardinalityType
<1>4. ASSUME NEW x \in Recovered(S)
      PROVE  x.slot = s /\ x.fec_set_index = f /\ IsNewShred(x)
  <2>1. PICK y \in S : x \in ErasureSet(y)
    BY <1>4 DEF Recovered, Recover
  <2>2. x \in Shred /\ y \in Shred /\ x.set = y.set
    BY <2>1, <1>1 DEF ErasureSet
  <2>3. x.slot = y.slot /\ x.fec_set_index = y.fec_set_index
    BY <2>2, ShredAssumption
  <2>4. y.slot = s /\ y.fec_set_index = f
    BY <2>1 DEF TypeInv, FecHome
  <2> QED BY <2>3, <2>4, <1>4 DEF Recovered
<1> QED BY <1>2, <1>3, <1>4

\* The empty state satisfies the type invariant and its strengthening.
LEMMA InitTypeInv == Init => TypeInv
BY DEF Init, TypeInv, TypeOK, FecHome, ShredStatus, TrackerConsistent, BetweenCalls

\* Every step of reconstruct_shreds keeps the type invariant and the agreement
\* of a tracker's two vectors.
LEMMA NextTypeInv == TypeInv /\ [Next]_vars => TypeInv'
<1> SUFFICES ASSUME TypeInv, [Next]_vars PROVE TypeInv'
  OBVIOUS
<1> USE DEF TypeInv, BetweenCalls
<1>c. ASSUME data_shreds' = data_shreds, data_status' = data_status
      PROVE  TrackerConsistent'
  BY <1>c DEF TrackerConsistent
<1>1. ASSUME NEW b \in Batches, Receive(b) PROVE TypeInv'
  <2>1. b \in Seq(Shred \cup {Undecodable})
    BY LimitsAssumption DEF Batches
  <2>2. <<>> \in Seq(Entry)
    OBVIOUS
  <2>3. TypeOK'
    BY <1>1, <2>1, <2>2 DEF Receive, slotVars, TypeOK
  <2> QED BY <1>1, <2>3, <1>c DEF Receive, slotVars, FecHome
<1>2. CASE SkipPacket
  BY <1>2, <1>c DEF SkipPacket, NextPacket, slotVars, TypeOK, FecHome
<1>3. CASE DropShred
  <2> DEFINE x == Head(batch)
  <2>1. x \in Shred /\ x.slot \in Slot
    BY <1>3, ShredFields DEF DropShred
  <2>2. batch' \in Seq(Shred \cup {Undecodable})
    BY <1>3 DEF DropShred, NextPacket, TypeOK
  <2>3. tracked' \subseteq Slot /\ seen' \subseteq Shred
    BY <1>3, <2>1 DEF DropShred, TypeOK
  <2> QED BY <1>3, <2>2, <2>3, <1>c DEF DropShred, NextPacket, TypeOK, FecHome
<1>4. CASE AcceptShred
  <2> DEFINE x == Head(batch)
  <2>1. x \in Shred /\ x.slot \in Slot /\ x.fec_set_index \in Idx
    BY <1>4, ShredFields DEF AcceptShred
  <2>2. batch' \in Seq(Shred \cup {Undecodable})
    BY <1>4 DEF AcceptShred, NextPacket, TypeOK
  <2>3. /\ data_shreds' \in [Slot -> [Idx -> Shred \cup {None}]]
        /\ data_status' \in [Slot -> [Idx -> ShredStatus]]
        /\ TrackerConsistent'
    <3>1. Store(x.slot, {x}) /\ {x} \in SUBSET Shred
      BY <1>4, <2>1 DEF AcceptShred
    <3> QED BY <3>1, <2>1, StoreFacts, StoreConsistent
  <2>4. fec_shreds' \in [Slot -> [Idx -> SUBSET Shred]]
    BY <1>4, <2>1 DEF AcceptShred, TypeOK
  <2>5. highest_slot_seen' \in Slot \cup {0}
    BY <1>4, <2>1 DEF AcceptShred, HigherSlot, TypeOK
  <2>6. FecHome'
    BY <1>4, <2>1 DEF AcceptShred, FecHome, TypeOK
  <2>7. /\ tracked' \subseteq Slot /\ seen' \subseteq Shred
        /\ slot_fec_indexes_to_iterate' \subseteq Slot \X Idx
        /\ remaining' \subseteq slot_fec_indexes_to_iterate'
    BY <1>4, <2>1 DEF AcceptShred, NextPacket, TypeOK
  <2> QED BY <1>4, <2>2, <2>3, <2>4, <2>5, <2>6, <2>7
      DEF AcceptShred, NextPacket, TypeOK
<1>5. CASE StartRecovery
  BY <1>5, <1>c DEF StartRecovery, slotVars, TypeOK, FecHome
<1>6. ASSUME NEW p \in remaining, RecoverNothing(p) PROVE TypeInv'
  BY <1>6, <1>c DEF RecoverNothing, NextSet, TypeOK, FecHome
<1>7. ASSUME NEW p \in remaining, RecoverSet(p) PROVE TypeInv'
  <2> DEFINE X == Recovered(fec_shreds[p[1]][p[2]])
  <2>1. p[1] \in Slot /\ p[2] \in Idx
    BY <1>7 DEF TypeOK
  <2>2. /\ X \in SUBSET Shred /\ Cardinality(X) \in Nat
        /\ \A x \in X : x.slot = p[1]
    BY <2>1, RecoveredFacts
  <2>3. /\ data_shreds' \in [Slot -> [Idx -> Shred \cup {None}]]
        /\ data_status' \in [Slot -> [Idx -> ShredStatus]]
        /\ TrackerConsistent'
    <3>1. Store(p[1], X)
      BY <1>7 DEF RecoverSet
    <3> HIDE DEF X
    <3> QED BY <3>1, <2>1, <2>2, StoreFacts, StoreConsistent
  <2>4. /\ already_recovered_fec_sets' \in [Slot -> SUBSET Idx]
        /\ fec_shreds' \in [Slot -> [Idx -> SUBSET Shred]]
        /\ FecHome'
    <3> DEFINE s0 == p[1]
               f0 == p[2]
    <3>1. /\ \/ already_recovered_fec_sets' =
                  [already_recovered_fec_sets EXCEPT ![s0] =
                      already_recovered_fec_sets[s0] \cup {f0}]
             \/ already_recovered_fec_sets' = already_recovered_fec_sets
          /\ \/ fec_shreds' = [fec_shreds EXCEPT ![s0] =
                                 [fec_shreds[s0] EXCEPT ![f0] = {}]]
             \/ fec_shreds' = fec_shreds
      BY <1>7 DEF RecoverSet
    <3>2. s0 \in Slot /\ f0 \in Idx
      BY <2>1
    <3>3. /\ already_recovered_fec_sets \in [Slot -> SUBSET Idx]
          /\ fec_shreds \in [Slot -> [Idx -> SUBSET Shred]]
      BY DEF TypeOK
    <3> HIDE DEF s0, f0
    <3>4. already_recovered_fec_sets' \in [Slot -> SUBSET Idx]
      BY ONLY <3>1, <3>2, <3>3
    <3>5. /\ fec_shreds' \in [Slot -> [Idx -> SUBSET Shred]]
          /\ \A s \in Slot, f \in Idx : fec_shreds'[s][f] \subseteq fec_shreds[s][f]
      <4>1. CASE fec_shreds' = fec_shreds
        BY ONLY <3>3, <4>1
      <4>2. CASE fec_shreds' = [fec_shreds EXCEPT ![s0] =
                                   [fec_shreds[s0] EXCEPT ![f0] = {}]]
        <5>1. fec_shreds' \in [Slot -> [Idx -> SUBSET Shred]]
          BY ONLY <3>2, <3>3, <4>2
        <5>2. \A s \in Slot, f \in Idx : fec_shreds'[s][f] \subseteq fec_shreds[s][f]
          BY ONLY <3>2, <3>3, <4>2
        <5> QED BY <5>1, <5>2
      <4> QED BY <3>1, <4>1, <4>2
    <3>6. FecHome'
      BY <3>5 DEF FecHome
    <3> QED BY <3>4, <3>5, <3>6
  <2>5. total_recovered_count' \in Nat
    <3>1. total_recovered_count' = total_recovered_count + Cardinality(X)
      BY <1>7 DEF RecoverSet
    <3>2. total_recovered_count \in Nat /\ Cardinality(X) \in Nat
      BY <2>2 DEF TypeOK
    <3> QED BY ONLY <3>1, <3>2
  <2>6. /\ pc = "recover" /\ remaining' = remaining \ {p}
        /\ UNCHANGED <<pc, batch, tracked, highest_slot_seen,
                       slot_fec_indexes_to_iterate, recovered_count, sent, seen,
                       already_deshredded, deshredded_entries>>
    BY <1>7 DEF RecoverSet, NextSet
  <2>7. BetweenCalls'
    BY <2>6 DEF BetweenCalls
  <2>8. TypeOK'
    BY <2>3, <2>4, <2>5, <2>6 DEF TypeOK
  <2> QED BY <2>3, <2>4, <2>7, <2>8
<1>8. CASE StartDeshredding
  BY <1>8, <1>c DEF StartDeshredding, slotVars, TypeOK, FecHome
<1>9. ASSUME NEW p \in remaining, DeshredNothing(p) PROVE TypeInv'
  BY <1>9, <1>c DEF DeshredNothing, NextSet, TypeOK, FecHome
<1>10. ASSUME NEW p \in remaining, DeshredSegment(p) PROVE TypeInv'
  <2>1. p[1] \in Slot /\ p[2] \in Idx
    BY <1>10 DEF TypeOK
  <2>2. PICK seg \in Segment(p) :
          /\ deshredded_entries' = Append(deshredded_entries,
                [slot |-> p[1], start |-> seg.start, end |-> seg.end,
                 unknown_start |-> seg.unknown_start])
          /\ MarkDeshredded(p[1], ShredsIn(p[1], seg))
    BY <1>10 DEF DeshredSegment
  <2>3. p = <<p[1], p[2]>>
    BY <1>10 DEF TypeOK
  <2>4. /\ data_status[p[1]] \in [Idx -> ShredStatus]
        /\ already_deshredded[p[1]] \in SUBSET Idx
        /\ seg \in get_indexes(data_status[p[1]], already_deshredded[p[1]], p[2])
    BY <2>1 DEF Segment, TypeOK
  <2>5. /\ seg.start \in Idx /\ seg.end \in Idx /\ seg.unknown_start \in BOOLEAN
        /\ \A i \in seg.start .. seg.end : i \in Idx
    <3>1. IsSegment(data_status[p[1]], already_deshredded[p[1]], p[2], seg)
      BY <2>1, <2>4, SegmentFacts
    <3> QED BY <3>1 DEF IsSegment
  <2>6. deshredded_entries' \in Seq(Entry)
    BY <2>1, <2>2, <2>5 DEF Entry, TypeOK
  <2>7. /\ ShredsIn(p[1], seg) \in SUBSET Shred
        /\ {x.index : x \in ShredsIn(p[1], seg)} = seg.start .. seg.end
    BY <2>1, <2>3, SegmentShreds
  <2>8. {x.fec_set_index : x \in ShredsIn(p[1], seg)} \subseteq Idx
    BY <2>7, ShredFields
  <2>9. /\ already_recovered_fec_sets' \in [Slot -> SUBSET Idx]
        /\ already_deshredded' \in [Slot -> SUBSET Idx]
    BY <2>1, <2>2, <2>5, <2>7, <2>8 DEF MarkDeshredded, TypeOK
  <2> QED BY <1>10, <2>6, <2>9, <1>c DEF DeshredSegment, NextSet, TypeOK, FecHome
<1>11. CASE Return
  <2>1. /\ fec_shreds' \in [Slot -> [Idx -> SUBSET Shred]]
        /\ data_shreds' \in [Slot -> [Idx -> Shred \cup {None}]]
        /\ data_status' \in [Slot -> [Idx -> ShredStatus]]
        /\ already_recovered_fec_sets' \in [Slot -> SUBSET Idx]
        /\ already_deshredded' \in [Slot -> SUBSET Idx]
    <3>1. fec_shreds' \in [Slot -> [Idx -> SUBSET Shred]]
      BY <1>11 DEF Return, TypeOK
    <3>2. data_shreds' \in [Slot -> [Idx -> Shred \cup {None}]]
      BY <1>11 DEF Return, TypeOK
    <3>3. data_status' \in [Slot -> [Idx -> ShredStatus]]
      BY <1>11 DEF Return, TypeOK, ShredStatus
    <3>4. /\ already_recovered_fec_sets' \in [Slot -> SUBSET Idx]
          /\ already_deshredded' \in [Slot -> SUBSET Idx]
      BY <1>11 DEF Return, TypeOK
    <3> QED BY <3>1, <3>2, <3>3, <3>4
  <2>2. FecHome' /\ TrackerConsistent'
    <3>1. \A s \in Slot : /\ \/ fec_shreds'[s] = [f \in Idx |-> {}]
                            \/ fec_shreds'[s] = fec_shreds[s]
                         /\ \/ /\ data_shreds'[s] = [i \in Idx |-> None]
                               /\ data_status'[s] = [i \in Idx |-> "Unknown"]
                            \/ /\ data_shreds'[s] = data_shreds[s]
                               /\ data_status'[s] = data_status[s]
      BY <1>11 DEF Return
    <3>2. FecHome'
      BY <3>1 DEF FecHome
    <3>3. TrackerConsistent'
      BY <3>1 DEF TrackerConsistent, StatusOf
    <3> QED BY <3>2, <3>3
  <2>3. sent' \in Seq(Entry) /\ deshredded_entries' \in Seq(Entry)
    BY <1>11 DEF Return, TypeOK
  <2>4. tracked' \subseteq Slot /\ recovered_count' \in Nat
    BY <1>11 DEF Return, TypeOK
  <2> QED BY <1>11, <2>1, <2>2, <2>3, <2>4 DEF Return, TypeOK
<1>12. CASE UNCHANGED vars
  BY <1>12, <1>c DEF vars, slotVars, TypeOK, FecHome
<1> QED BY <1>1, <1>2, <1>3, <1>4, <1>5, <1>6, <1>7, <1>8, <1>9, <1>10, <1>11,
           <1>12 DEF Next, Ingest, RecoverPhase, DeshredPhase

\* The thread's state keeps its types: no index leaves the tracker's vectors,
\* and highest_slot_seen is always the slot of some shred.
THEOREM TypesCorrect == Spec => []TypeOK
<1>1. TypeInv => TypeOK
  BY DEF TypeInv
<1> QED BY <1>1, InitTypeInv, NextTypeInv, PTL DEF Spec

\* Every status in a tracker is that of the data shred held at the same index:
\* the unwrap() of a segment's shreds cannot fail, whatever the network
\* delivers.
THEOREM TrackerSound == Spec => []TrackerConsistent
<1>1. TypeInv => TrackerConsistent
  BY DEF TypeInv
<1> QED BY <1>1, InitTypeInv, NextTypeInv, PTL DEF Spec

-----------------------------------------------------------------------------
(* At most once *)

\* Why a segment is never decoded twice: its shreds are marked in the tracker,
\* or its slot is old and no set of the slot is among those being visited.
\* Eviction takes the first alternative away only from old slots, and an old
\* slot's shreds never get a set visited.
Accounted ==
    \A k \in 1 .. Len(Feed) :
        /\ Feed[k].start <= Feed[k].end
        /\ \/ \A i \in Feed[k].start .. Feed[k].end :
                 i \in already_deshredded[Feed[k].slot]
           \/ /\ IsOld(Feed[k].slot)
              /\ \A q \in slot_fec_indexes_to_iterate : q[1] # Feed[k].slot

FeedInv == Accounted /\ AtMostOnce

\* The saturating subtraction of the look-back.
LEMMA SaturatingSub ==
    ASSUME NEW h \in Nat, NEW s \in Nat
    PROVE  (IF h > SLOT_LOOKBACK THEN h - SLOT_LOOKBACK ELSE 0) > s
             <=> s + SLOT_LOOKBACK < h
<1>1. CASE h > SLOT_LOOKBACK
  BY <1>1, LimitsAssumption
<1>2. CASE ~(h > SLOT_LOOKBACK)
  BY <1>2, LimitsAssumption
<1> QED BY <1>1, <1>2

\* A slot behind the look-back window stays behind it: the highest slot seen
\* never decreases.
LEMMA OldStaysOld ==
    ASSUME TypeOK, highest_slot_seen' \in Nat,
           highest_slot_seen <= highest_slot_seen',
           NEW s \in Slot, IsOld(s)
    PROVE  IsOld(s)'
<1>1. highest_slot_seen \in Nat /\ s \in Nat
  BY SlotsAreNaturals DEF TypeOK
<1>2. s + SLOT_LOOKBACK < highest_slot_seen
  BY <1>1, SaturatingSub DEF IsOld, slot_threshold
<1>3. s + SLOT_LOOKBACK < highest_slot_seen'
  BY <1>1, <1>2, LimitsAssumption
<1> QED BY <1>1, <1>3, SaturatingSub DEF IsOld, slot_threshold

\* What was sent and what the current call has decoded is a sequence of entries.
LEMMA FeedType == TypeOK => Feed \in Seq(Entry)
BY DEF TypeOK, Feed

\* A step that decodes nothing, unmarks nothing and visits no old slot's sets.
LEMMA FeedKept ==
    ASSUME TypeOK, TypeOK', FeedInv, Feed' = Feed,
           \A s \in Slot : already_deshredded[s] \subseteq already_deshredded'[s],
           highest_slot_seen <= highest_slot_seen',
           \A q \in slot_fec_indexes_to_iterate' :
              q \in slot_fec_indexes_to_iterate \/ ~IsOld(q[1])
    PROVE  FeedInv'
<1>1. AtMostOnce'
  BY DEF FeedInv, AtMostOnce
<1>2. ASSUME NEW k \in 1 .. Len(Feed')
      PROVE  /\ Feed'[k].start <= Feed'[k].end
             /\ \/ \A i \in Feed'[k].start .. Feed'[k].end :
                      i \in already_deshredded'[Feed'[k].slot]
                \/ /\ IsOld(Feed[k].slot)'
                   /\ \A q \in slot_fec_indexes_to_iterate' : q[1] # Feed'[k].slot
  <2> DEFINE e == Feed[k]
  <2>1. e \in Entry /\ e.slot \in Slot /\ Feed'[k] = e
    <3>1. e \in Entry
      BY FeedType
    <3> QED BY <3>1 DEF Entry
  <2>2. highest_slot_seen' \in Nat
    BY SlotsAreNaturals DEF TypeOK
  <2>3. CASE \A i \in e.start .. e.end : i \in already_deshredded[e.slot]
    BY <2>1, <2>3 DEF FeedInv, Accounted
  <2>4. CASE /\ IsOld(e.slot)
             /\ \A q \in slot_fec_indexes_to_iterate : q[1] # e.slot
    <3>1. IsOld(e.slot)'
      BY <2>1, <2>2, <2>4, OldStaysOld, SlotsAreNaturals
    <3>2. \A q \in slot_fec_indexes_to_iterate' : q[1] # e.slot
      BY <2>4
    <3>3. e.start <= e.end
      BY DEF FeedInv, Accounted
    <3> QED BY <2>1, <3>1, <3>2, <3>3
  <2> QED BY <2>3, <2>4 DEF FeedInv, Accounted
<1> QED BY <1>1, <1>2 DEF FeedInv, Accounted

\* Decoding one more segment of a slot whose earlier segments are all marked.
LEMMA FeedGrows ==
    ASSUME TypeInv, FeedInv, NEW p \in remaining, DeshredSegment(p)
    PROVE  FeedInv'
<1>1. p[1] \in Slot /\ p[2] \in Idx /\ p = <<p[1], p[2]>>
      /\ p \in slot_fec_indexes_to_iterate
  BY DEF TypeInv, TypeOK
<1>2. PICK seg \in Segment(p) :
        /\ deshredded_entries' = Append(deshredded_entries,
              [slot |-> p[1], start |-> seg.start, end |-> seg.end,
               unknown_start |-> seg.unknown_start])
        /\ MarkDeshredded(p[1], ShredsIn(p[1], seg))
  BY DEF DeshredSegment
<1> DEFINE e == [slot |-> p[1], start |-> seg.start, end |-> seg.end,
                 unknown_start |-> seg.unknown_start]
           s == p[1]
<1>3. /\ seg.start \in Idx /\ seg.end \in Idx /\ seg.unknown_start \in BOOLEAN
      /\ seg.start <= seg.end
      /\ \A i \in seg.start .. seg.end : i \notin already_deshredded[s]
  <2>1. /\ data_status[s] \in [Idx -> ShredStatus]
        /\ already_deshredded[s] \in SUBSET Idx
        /\ seg \in get_indexes(data_status[s], already_deshredded[s], p[2])
    BY <1>1 DEF TypeInv, TypeOK, Segment
  <2>2. IsSegment(data_status[s], already_deshredded[s], p[2], seg)
    BY <1>1, <2>1, SegmentFacts
  <2> QED BY <1>1, <2>2, IdxAreNaturals DEF IsSegment
<1>4. e \in Entry
  BY <1>1, <1>3 DEF Entry
<1>5. Feed \in Seq(Entry)
  BY FeedType DEF TypeInv
<1>6. Feed' = Append(Feed, e)
  <2>1. sent' = sent
    BY DEF DeshredSegment, NextSet
  <2>2. sent \in Seq(Entry) /\ deshredded_entries \in Seq(Entry)
    BY DEF TypeInv, TypeOK
  <2> QED BY <1>2, <1>4, <2>1, <2>2, ConcatAppend DEF Feed
<1>7. already_deshredded' =
        [already_deshredded EXCEPT ![s] = already_deshredded[s] \cup (seg.start .. seg.end)]
  <2>1. {x.index : x \in ShredsIn(s, seg)} = seg.start .. seg.end
    BY <1>1, <1>2, SegmentShreds
  <2> QED BY <1>2, <2>1 DEF MarkDeshredded
<1>8. /\ slot_fec_indexes_to_iterate' = slot_fec_indexes_to_iterate
      /\ highest_slot_seen' = highest_slot_seen
  BY DEF DeshredSegment, NextSet
<1>9. already_deshredded \in [Slot -> SUBSET Idx]
  BY DEF TypeInv, TypeOK
<1>10. e.slot = s /\ e.start = seg.start /\ e.end = seg.end
  OBVIOUS
<1>11. /\ Len(Feed') = Len(Feed) + 1 /\ Feed'[Len(Feed) + 1] = e
       /\ Len(Feed) \in Nat
       /\ \A k \in 1 .. Len(Feed) : Feed'[k] = Feed[k] /\ Feed[k] \in Entry
  BY <1>4, <1>5, <1>6
<1> HIDE DEF e
<1>12. ASSUME NEW k \in 1 .. Len(Feed) PROVE Disjoint(Feed[k], e)
  <2>1. SUFFICES ASSUME Feed[k].slot = s
                 PROVE  Feed[k].end < seg.start \/ seg.end < Feed[k].start
    BY <1>10 DEF Disjoint
  <2>2. \A i \in Feed[k].start .. Feed[k].end : i \in already_deshredded[s]
    BY <1>1, <2>1 DEF FeedInv, Accounted
  <2>3. Feed[k].start \in Nat /\ Feed[k].end \in Nat /\ Feed[k].start <= Feed[k].end
    BY <1>11, IdxAreNaturals DEF Entry, FeedInv, Accounted
  <2>4. seg.start \in Nat /\ seg.end \in Nat
    BY <1>3, IdxAreNaturals
  <2>5. ~(\E i \in Nat : /\ Feed[k].start <= i /\ i <= Feed[k].end
                         /\ seg.start <= i /\ i <= seg.end)
    BY <1>3, <2>2, <2>3, <2>4
  <2> QED BY <1>3, <2>3, <2>4, <2>5
<1>13. AtMostOnce'
  <2> SUFFICES ASSUME NEW i \in 1 .. Len(Feed'), NEW j \in 1 .. Len(Feed'), i # j
               PROVE  Disjoint(Feed'[i], Feed'[j])
    BY DEF AtMostOnce, Disjoint
  <2>1. CASE i \in 1 .. Len(Feed) /\ j \in 1 .. Len(Feed)
    BY <1>11, <2>1 DEF FeedInv, AtMostOnce
  <2>2. CASE i \in 1 .. Len(Feed) /\ j = Len(Feed) + 1
    BY <1>11, <1>12, <2>2
  <2>3. CASE i = Len(Feed) + 1 /\ j \in 1 .. Len(Feed)
    BY <1>11, <1>12, <2>3 DEF Disjoint
  <2> QED BY <1>11, <2>1, <2>2, <2>3
<1>14. \A t \in Slot : already_deshredded[t] \subseteq already_deshredded'[t]
  BY <1>1, <1>7, <1>9
<1>15. ASSUME NEW k \in 1 .. Len(Feed')
       PROVE  (/\ Feed[k].start <= Feed[k].end
               /\ \/ \A i \in Feed[k].start .. Feed[k].end :
                        i \in already_deshredded[Feed[k].slot]
                  \/ /\ IsOld(Feed[k].slot)
                     /\ \A q \in slot_fec_indexes_to_iterate :
                           q[1] # Feed[k].slot)'
  <2>1. CASE k \in 1 .. Len(Feed)
    <3>1. Feed'[k] = Feed[k] /\ Feed[k].slot \in Slot
      BY <1>11, <2>1 DEF Entry
    <3>2. IsOld(Feed[k].slot) => IsOld(Feed[k].slot)'
      BY <1>8, <3>1 DEF IsOld, slot_threshold
    <3> QED BY <1>8, <1>14, <2>1, <3>1, <3>2 DEF FeedInv, Accounted
  <2>2. CASE k = Len(Feed) + 1
    <3>1. \A i \in seg.start .. seg.end : i \in already_deshredded'[s]
      BY <1>1, <1>7, <1>9
    <3> QED BY <1>3, <1>10, <1>11, <2>2, <3>1
  <2>3. k \in 1 .. Len(Feed) \/ k = Len(Feed) + 1
    BY ONLY <1>11, k \in 1 .. Len(Feed')
  <2> QED BY <2>1, <2>2, <2>3
<1> QED BY <1>13, <1>15 DEF FeedInv, Accounted

\* Nothing is decoded at the start.
LEMMA InitFeedInv == Init => FeedInv
<1> SUFFICES ASSUME Init PROVE FeedInv
  OBVIOUS
<1>1. Len(Feed) = 0
  BY DEF Init, Feed
<1> QED BY <1>1 DEF FeedInv, Accounted, AtMostOnce

\* Every step keeps each decoded shred accounted for, and decoded once.
LEMMA NextFeedInv == TypeInv /\ TypeInv' /\ FeedInv /\ [Next]_vars => FeedInv'
<1> SUFFICES ASSUME TypeInv, TypeInv', FeedInv, [Next]_vars PROVE FeedInv'
  OBVIOUS
<1> USE DEF TypeInv
<1>k. ASSUME Feed' = Feed, already_deshredded' = already_deshredded,
             highest_slot_seen' = highest_slot_seen,
             slot_fec_indexes_to_iterate' \subseteq slot_fec_indexes_to_iterate
      PROVE  FeedInv'
  <2>1. highest_slot_seen <= highest_slot_seen'
    BY <1>k, SlotsAreNaturals DEF TypeOK
  <2> QED BY <1>k, <2>1, FeedKept
<1>1. ASSUME NEW b \in Batches, Receive(b) PROVE FeedInv'
  BY <1>1, <1>k DEF Receive, slotVars, Feed, BetweenCalls
<1>2. CASE SkipPacket
  BY <1>2, <1>k DEF SkipPacket, NextPacket, slotVars, Feed
<1>3. CASE DropShred
  BY <1>3, <1>k DEF DropShred, NextPacket, Feed
<1>4. CASE AcceptShred
  <2> DEFINE x == Head(batch)
  <2>1. x \in Shred /\ x.slot \in Nat /\ ~IsOld(x.slot)
    BY <1>4, ShredFields DEF AcceptShred
  <2>2. highest_slot_seen <= highest_slot_seen'
    <3>1. highest_slot_seen \in Nat
      BY SlotsAreNaturals DEF TypeOK
    <3>2. highest_slot_seen' = HigherSlot(x.slot)
      BY <1>4 DEF AcceptShred
    <3> HIDE DEF x, TypeInv
    <3> QED BY <2>1, <3>1, <3>2 DEF HigherSlot
  <2>3. \A q \in slot_fec_indexes_to_iterate' :
           q \in slot_fec_indexes_to_iterate \/ ~IsOld(q[1])
    BY <1>4, <2>1 DEF AcceptShred
  <2>4. Feed' = Feed /\ already_deshredded' = already_deshredded
    BY <1>4 DEF AcceptShred, NextPacket, Feed
  <2> QED BY <2>2, <2>3, <2>4, FeedKept
<1>5. CASE StartRecovery
  BY <1>5, <1>k DEF StartRecovery, slotVars, Feed
<1>6. ASSUME NEW p \in remaining, RecoverNothing(p) PROVE FeedInv'
  BY <1>6, <1>k DEF RecoverNothing, NextSet, Feed
<1>7. ASSUME NEW p \in remaining, RecoverSet(p) PROVE FeedInv'
  BY <1>7, <1>k DEF RecoverSet, NextSet, Feed
<1>8. CASE StartDeshredding
  BY <1>8, <1>k DEF StartDeshredding, slotVars, Feed
<1>9. ASSUME NEW p \in remaining, DeshredNothing(p) PROVE FeedInv'
  BY <1>9, <1>k DEF DeshredNothing, NextSet, Feed
<1>10. ASSUME NEW p \in remaining, DeshredSegment(p) PROVE FeedInv'
  BY <1>10, FeedGrows
<1>11. CASE Return
  <2>1. Feed' = Feed
    <3>1. Feed' = Feed \o <<>>
      BY <1>11 DEF Return, Feed
    <3> QED BY <3>1, FeedType, ConcatEmpty
  <2>2. highest_slot_seen' = highest_slot_seen /\ slot_fec_indexes_to_iterate' = {}
    BY <1>11 DEF Return
  <2>3. AtMostOnce'
    BY <2>1 DEF FeedInv, AtMostOnce
  <2>4. ASSUME NEW k \in 1 .. Len(Feed')
        PROVE  (/\ Feed[k].start <= Feed[k].end
                /\ \/ \A i \in Feed[k].start .. Feed[k].end :
                         i \in already_deshredded[Feed[k].slot]
                   \/ /\ IsOld(Feed[k].slot)
                      /\ \A q \in slot_fec_indexes_to_iterate :
                            q[1] # Feed[k].slot)'
    <3>1. Feed[k] \in Entry
      BY <2>1, FeedType
    <3>2. Feed[k].slot \in Slot /\ Feed'[k] = Feed[k]
      BY <2>1, <3>1 DEF Entry
    <3>3. IsOld(Feed[k].slot) => IsOld(Feed[k].slot)'
      BY <2>2, <3>2 DEF IsOld, slot_threshold
    <3>4. IsOld(Feed[k].slot)
          \/ already_deshredded'[Feed[k].slot] = already_deshredded[Feed[k].slot]
      BY <1>11, <3>2 DEF Return, Evicted, IsOld
    <3> QED BY <2>1, <2>2, <3>2, <3>3, <3>4 DEF FeedInv, Accounted
  <2> QED BY <2>3, <2>4 DEF FeedInv, Accounted
<1>12. CASE UNCHANGED vars
  BY <1>12, <1>k DEF vars, slotVars, Feed
<1> QED BY <1>1, <1>2, <1>3, <1>4, <1>5, <1>6, <1>7, <1>8, <1>9, <1>10, <1>11,
           <1>12 DEF Next, Ingest, RecoverPhase, DeshredPhase

\* No data shred's entries are sent twice: for every set of shreds, every
\* order of arrival and every pattern of eviction, the decoded segments are
\* pairwise disjoint.
THEOREM NoSegmentTwice == Spec => []AtMostOnce
<1>1. FeedInv => AtMostOnce
  BY DEF FeedInv
<1> QED BY <1>1, InitTypeInv, NextTypeInv, InitFeedInv, NextFeedInv, PTL DEF Spec

-----------------------------------------------------------------------------
(* The number of slots kept *)

\* Every slot with any state is at most the highest slot seen.
SlotKnown(s) ==
    \/ s \in tracked
    \/ already_recovered_fec_sets[s] # {}
    \/ already_deshredded[s] # {}
    \/ \E i \in Idx : data_shreds[s][i] # None
    \/ \E f \in Idx : <<s, f>> \in slot_fec_indexes_to_iterate

SlotInv == /\ \A s \in Slot : SlotKnown(s) => s <= highest_slot_seen
           /\ SlotsBounded

\* A step that only gives state to slots up to the highest slot seen.
LEMMA SlotsKept ==
    ASSUME TypeInv, SlotInv, highest_slot_seen' \in Nat,
           highest_slot_seen <= highest_slot_seen', pc' # "recv",
           \A s \in Slot : SlotKnown(s)' => SlotKnown(s) \/ s <= highest_slot_seen'
    PROVE  SlotInv'
<1>1. ASSUME NEW s \in Slot, SlotKnown(s)' PROVE s <= highest_slot_seen'
  <2>1. s \in Nat /\ highest_slot_seen \in Nat
    BY SlotsAreNaturals DEF TypeInv, TypeOK
  <2> QED BY <1>1, <2>1 DEF SlotInv
<1>2. SlotsBounded'
  BY DEF SlotsBounded
<1> QED BY <1>1, <1>2 DEF SlotInv

\* Evicting below the threshold leaves at most SLOT_LOOKBACK + 1 slots.
LEMMA FewSlotsAbove ==
    ASSUME TypeInv, NEW T \in SUBSET Slot,
           \A s \in T : ~IsOld(s) /\ s <= highest_slot_seen
    PROVE  Cardinality(T) <= MAX_PROCESSING_AGE
<1>1. highest_slot_seen \in Nat
  BY SlotsAreNaturals DEF TypeInv, TypeOK
<1>2. slot_threshold \in Nat /\ slot_threshold <= highest_slot_seen
      /\ highest_slot_seen - slot_threshold <= SLOT_LOOKBACK
  <2>1. CASE highest_slot_seen > SLOT_LOOKBACK
    BY <1>1, <2>1, LimitsAssumption DEF slot_threshold
  <2>2. CASE ~(highest_slot_seen > SLOT_LOOKBACK)
    BY <1>1, <2>2, LimitsAssumption DEF slot_threshold
  <2> QED BY <2>1, <2>2
<1> DEFINE W == slot_threshold .. highest_slot_seen
<1>3. T \subseteq W
  BY <1>1, <1>2, SlotsAreNaturals DEF IsOld
<1>4. IsFiniteSet(W) /\ Cardinality(W) = highest_slot_seen - slot_threshold + 1
  BY <1>1, <1>2, FS_Interval
<1>5. Cardinality(T) <= Cardinality(W)
  BY <1>3, <1>4, FS_Subset
<1>6. Cardinality(T) \in Nat
  BY <1>3, <1>4, FS_Subset, FS_CardinalityType
<1> HIDE DEF W
<1> QED BY <1>1, <1>2, <1>4, <1>5, <1>6, LimitsAssumption

\* No slot has state at the start.
LEMMA InitSlotInv == Init => SlotInv
<1> SUFFICES ASSUME Init PROVE SlotInv
  OBVIOUS
<1>1. \A s \in Slot : ~SlotKnown(s)
  BY DEF Init, SlotKnown
<1>2. Cardinality(tracked) = 0
  BY FS_EmptySet DEF Init
<1> QED BY <1>1, <1>2, LimitsAssumption DEF SlotInv, SlotsBounded

\* Every step gives state only to slots up to the highest seen, and a call ends
\* with a bounded number of them.
LEMMA NextSlotInv == TypeInv /\ TypeInv' /\ SlotInv /\ [Next]_vars => SlotInv'
<1> SUFFICES ASSUME TypeInv, TypeInv', SlotInv, [Next]_vars PROVE SlotInv'
  OBVIOUS
<1> USE DEF TypeInv
<1>h. highest_slot_seen \in Nat /\ highest_slot_seen' \in Nat
  BY SlotsAreNaturals DEF TypeOK
<1>k. ASSUME highest_slot_seen' = highest_slot_seen, pc' # "recv",
             tracked' = tracked,
             already_recovered_fec_sets' = already_recovered_fec_sets,
             already_deshredded' = already_deshredded,
             data_shreds' = data_shreds,
             slot_fec_indexes_to_iterate' \subseteq slot_fec_indexes_to_iterate
      PROVE  SlotInv'
  <2>1. \A s \in Slot : SlotKnown(s)' => SlotKnown(s)
    BY <1>k DEF SlotKnown
  <2>2. highest_slot_seen <= highest_slot_seen'
    BY <1>k, <1>h
  <2> QED BY <1>k, <1>h, <2>1, <2>2, SlotsKept
<1>p. ASSUME NEW p \in remaining
      PROVE  p[1] \in Slot /\ p[1] <= highest_slot_seen
  <2>1. p[1] \in Slot /\ p[2] \in Idx /\ p = <<p[1], p[2]>>
    BY DEF TypeOK
  <2>2. SlotKnown(p[1])
    BY <2>1 DEF SlotKnown, TypeOK
  <2> QED BY <2>1, <2>2 DEF SlotInv
<1>1. ASSUME NEW b \in Batches, Receive(b) PROVE SlotInv'
  BY <1>1, <1>k DEF Receive, slotVars
<1>2. CASE SkipPacket
  BY <1>2, <1>k DEF SkipPacket, NextPacket, slotVars
<1>3. CASE DropShred
  <2> DEFINE x == Head(batch)
  <2>1. x \in Shred /\ x.slot \in Slot /\ x.slot \in Nat /\ x.index \in Idx
    BY <1>3, ShredFields DEF DropShred
  <2>2. /\ tracked' = tracked \cup {x.slot} /\ pc' # "recv"
        /\ IsOld(x.slot) \/ AlreadyCompleted(x) \/ ~IsNewShred(x)
        /\ UNCHANGED <<already_recovered_fec_sets, already_deshredded,
                       data_shreds, slot_fec_indexes_to_iterate,
                       highest_slot_seen>>
    BY <1>3 DEF DropShred, NextPacket
  <2> HIDE DEF x
  <2>3. x.slot <= highest_slot_seen
    <3>1. CASE IsOld(x.slot)
      BY <1>h, <2>1, <3>1, LimitsAssumption DEF IsOld, slot_threshold
    <3>2. CASE AlreadyCompleted(x)
      BY <2>1, <3>2 DEF AlreadyCompleted, SlotInv, SlotKnown
    <3>3. CASE ~IsNewShred(x) /\ ~AlreadyCompleted(x)
      <4>1. data_shreds[x.slot][x.index] # None
        <5>1. \/ data_shreds[x.slot][x.index] # None
              \/ data_status[x.slot][x.index] # "Unknown"
          BY <3>3 DEF IsNewShred, AlreadyCompleted
        <5>2. TrackerConsistent
          OBVIOUS
        <5>3. data_shreds[x.slot][x.index] = None
                => data_status[x.slot][x.index] = "Unknown"
          BY ONLY <2>1, <5>2 DEF TrackerConsistent
        <5> QED BY <5>1, <5>3
      <4>2. SlotKnown(x.slot)
        BY <2>1, <4>1 DEF SlotKnown
      <4> QED BY <2>1, <4>2 DEF SlotInv
    <3> QED BY <2>2, <3>1, <3>2, <3>3
  <2>4. \A s \in Slot : SlotKnown(s)' => SlotKnown(s) \/ s = x.slot
    BY <2>2 DEF SlotKnown
  <2> QED BY <1>h, <2>2, <2>3, <2>4, SlotsKept
<1>4. CASE AcceptShred
  <2> DEFINE x == Head(batch)
  <2>1. x \in Shred /\ x.slot \in Slot /\ x.slot \in Nat
    BY <1>4, ShredFields DEF AcceptShred
  <2>2. /\ tracked' = tracked \cup {x.slot} /\ pc' # "recv"
        /\ Store(x.slot, {x})
        /\ slot_fec_indexes_to_iterate' =
              slot_fec_indexes_to_iterate \cup {<<x.slot, x.fec_set_index>>}
        /\ highest_slot_seen' = HigherSlot(x.slot)
        /\ UNCHANGED <<already_recovered_fec_sets, already_deshredded>>
    BY <1>4 DEF AcceptShred, NextPacket
  <2> HIDE DEF x
  <2>3. x.slot <= highest_slot_seen' /\ highest_slot_seen <= highest_slot_seen'
    BY <1>h, <2>1, <2>2 DEF HigherSlot
  <2>4. \A s \in Slot, i \in Idx :
           s # x.slot => data_shreds'[s][i] = data_shreds[s][i]
    <3>1. \A s \in Slot : s # x.slot => data_shreds'[s] = data_shreds[s]
      BY <2>1, <2>2, StoreElsewhere
    <3> QED BY <3>1
  <2>5. \A s \in Slot : SlotKnown(s)' => SlotKnown(s) \/ s = x.slot
    BY <2>2, <2>4 DEF SlotKnown
  <2> QED BY <1>h, <2>2, <2>3, <2>5, SlotsKept
<1>5. CASE StartRecovery
  BY <1>5, <1>k DEF StartRecovery, slotVars
<1>6. ASSUME NEW p \in remaining, RecoverNothing(p) PROVE SlotInv'
  BY <1>6, <1>k DEF RecoverNothing, NextSet
<1>7. ASSUME NEW p \in remaining, RecoverSet(p) PROVE SlotInv'
  <2>1. /\ UNCHANGED <<tracked, already_deshredded, highest_slot_seen,
                       slot_fec_indexes_to_iterate>>
        /\ pc' # "recv"
        /\ \A s \in Slot : s # p[1] =>
              already_recovered_fec_sets'[s] = already_recovered_fec_sets[s]
    BY <1>7 DEF RecoverSet, NextSet, TypeOK
  <2>2. \A s \in Slot, i \in Idx :
           s # p[1] => data_shreds'[s][i] = data_shreds[s][i]
    <3> DEFINE X == Recovered(fec_shreds[p[1]][p[2]])
    <3>1. X \subseteq Shred /\ Store(p[1], X)
      BY <1>7 DEF RecoverSet, Recovered, Recover, ErasureSet
    <3>2. TypeOK /\ p[1] \in Slot
      BY <1>p
    <3> HIDE DEF X
    <3>3. \A s \in Slot : s # p[1] => data_shreds'[s] = data_shreds[s]
      BY <3>1, <3>2, StoreElsewhere
    <3> QED BY <3>3
  <2>3. \A s \in Slot : SlotKnown(s)' => SlotKnown(s) \/ s = p[1]
    BY <2>1, <2>2 DEF SlotKnown
  <2>4. highest_slot_seen <= highest_slot_seen' /\ p[1] <= highest_slot_seen'
    <3>1. p[1] <= highest_slot_seen /\ highest_slot_seen' = highest_slot_seen
      BY <1>p, <2>1
    <3> QED BY ONLY <1>h, <3>1
  <2>5. \A s \in Slot : SlotKnown(s)' => SlotKnown(s) \/ s <= highest_slot_seen'
    BY <2>3, <2>4
  <2> HIDE DEF TypeInv
  <2> QED BY <1>h, <2>1, <2>4, <2>5, SlotsKept
<1>8. CASE StartDeshredding
  BY <1>8, <1>k DEF StartDeshredding, slotVars
<1>9. ASSUME NEW p \in remaining, DeshredNothing(p) PROVE SlotInv'
  BY <1>9, <1>k DEF DeshredNothing, NextSet
<1>10. ASSUME NEW p \in remaining, DeshredSegment(p) PROVE SlotInv'
  <2>1. /\ UNCHANGED <<tracked, data_shreds, highest_slot_seen,
                       slot_fec_indexes_to_iterate>>
        /\ pc' # "recv"
        /\ \A s \in Slot : s # p[1] =>
              /\ already_recovered_fec_sets'[s] = already_recovered_fec_sets[s]
              /\ already_deshredded'[s] = already_deshredded[s]
    <3>1. /\ UNCHANGED <<tracked, data_shreds, highest_slot_seen,
                         slot_fec_indexes_to_iterate>>
          /\ pc' # "recv"
      BY <1>10 DEF DeshredSegment, NextSet
    <3>2. PICK X : MarkDeshredded(p[1], X)
      BY <1>10 DEF DeshredSegment
    <3>3. \A s \in Slot : s # p[1] =>
              /\ already_recovered_fec_sets'[s] = already_recovered_fec_sets[s]
              /\ already_deshredded'[s] = already_deshredded[s]
      BY <3>2 DEF MarkDeshredded, TypeOK
    <3> QED BY <3>1, <3>3
  <2>2. \A s \in Slot : SlotKnown(s)' => SlotKnown(s) \/ s = p[1]
    BY <2>1 DEF SlotKnown
  <2>3. highest_slot_seen <= highest_slot_seen' /\ p[1] <= highest_slot_seen'
    <3>1. p[1] <= highest_slot_seen /\ highest_slot_seen' = highest_slot_seen
      BY <1>p, <2>1
    <3> QED BY ONLY <1>h, <3>1
  <2>4. \A s \in Slot : SlotKnown(s)' => SlotKnown(s) \/ s <= highest_slot_seen'
    BY <2>2, <2>3
  <2> HIDE DEF TypeInv
  <2> QED BY <1>h, <2>1, <2>3, <2>4, SlotsKept
<1>11. CASE Return
  <2>1. \A s \in Slot : SlotKnown(s)' => SlotKnown(s)
    BY <1>11 DEF Return, SlotKnown
  <2>2. highest_slot_seen' = highest_slot_seen
    BY <1>11 DEF Return
  <2>3. tracked \subseteq Slot /\ tracked' = {s \in tracked : ~Evicted(s)}
    BY <1>11 DEF Return, TypeOK
  <2>4. Cardinality(tracked') <= MAX_PROCESSING_AGE
    <3>1. CASE Cardinality(tracked) > MAX_PROCESSING_AGE
      <4>1. \A s \in tracked' : ~IsOld(s)
        BY <2>3, <3>1 DEF Evicted, IsOld
      <4>2. \A s \in tracked' : s <= highest_slot_seen
        BY <2>3 DEF SlotInv, SlotKnown
      <4> QED BY <2>3, <4>1, <4>2, FewSlotsAbove
    <3>2. CASE ~(Cardinality(tracked) > MAX_PROCESSING_AGE)
      <4>1. tracked' = tracked
        BY <2>3, <3>2 DEF Evicted
      <4>2. Cardinality(tracked) \in Nat
        <5>1. \A s \in tracked : s <= highest_slot_seen
          BY <2>3 DEF SlotInv, SlotKnown
        <5> QED BY <1>h, <2>3, <5>1, SlotsAreNaturals, FS_BoundedSetOfNaturals,
                   FS_CardinalityType
      <4> QED BY <3>2, <4>1, <4>2, LimitsAssumption
    <3> QED BY <3>1, <3>2
  <2> QED BY <2>1, <2>2, <2>4 DEF SlotInv, SlotsBounded
<1>12. CASE UNCHANGED vars
  BY <1>12 DEF vars, slotVars, SlotInv, SlotKnown, SlotsBounded
<1> QED BY <1>1, <1>2, <1>3, <1>4, <1>5, <1>6, <1>7, <1>8, <1>9, <1>10, <1>11,
           <1>12 DEF Next, Ingest, RecoverPhase, DeshredPhase

\* all_shreds holds at most MAX_PROCESSING_AGE slots between two calls, for any
\* sequence of slot numbers on the wire.
THEOREM SlotsStayBounded == Spec => []SlotsBounded
<1>1. SlotInv => SlotsBounded
  BY DEF SlotInv
<1> QED BY <1>1, InitTypeInv, NextTypeInv, InitSlotInv, NextSlotInv, PTL DEF Spec

-----------------------------------------------------------------------------
(* The tracker between two steps *)

\* The tracker holds data shreds only.
DataHeld ==
    \A s \in Slot, i \in Idx :
        data_shreds[s][i] # None => data_shreds[s][i].type = "Data"

\* How a step may change the tracker: it stores new shreds of one slot, evicts
\* slots, or leaves it alone.
LEMMA TrackerStep ==
    ASSUME TypeInv, [Next]_vars
    PROVE  \/ data_shreds' = data_shreds
           \/ \E s \in Slot, X \in SUBSET Shred :
                Store(s, X) /\ \A x \in X : x.slot = s /\ IsNewShred(x)
           \/ Return
<1>1. CASE AcceptShred
  <2> DEFINE x == Head(batch)
  <2>1. /\ x \in Shred /\ x.slot \in Slot /\ Store(x.slot, {x}) /\ IsNewShred(x)
    BY <1>1, ShredFields DEF AcceptShred
  <2> HIDE DEF x
  <2>2. {x} \in SUBSET Shred /\ \A y \in {x} : y.slot = x.slot /\ IsNewShred(y)
    BY <2>1
  <2> QED BY <2>1, <2>2
<1>2. ASSUME NEW p \in remaining, RecoverSet(p)
      PROVE  \E s \in Slot, X \in SUBSET Shred :
                Store(s, X) /\ \A x \in X : x.slot = s /\ IsNewShred(x)
  <2> DEFINE X == Recovered(fec_shreds[p[1]][p[2]])
  <2>1. p[1] \in Slot /\ p[2] \in Idx
    BY DEF TypeInv, TypeOK
  <2>2. X \in SUBSET Shred /\ \A x \in X : x.slot = p[1] /\ IsNewShred(x)
    BY <2>1, RecoveredFacts, SMTT(20)
  <2>3. Store(p[1], X)
    BY <1>2 DEF RecoverSet
  <2> HIDE DEF X
  <2> QED BY <2>1, <2>2, <2>3
<1>3. CASE \/ (\E b \in Batches : Receive(b)) \/ SkipPacket \/ DropShred
           \/ StartRecovery \/ StartDeshredding \/ UNCHANGED vars
           \/ (\E p \in remaining : RecoverNothing(p) \/ DeshredNothing(p)
                                    \/ DeshredSegment(p))
  BY <1>3 DEF Receive, SkipPacket, DropShred, StartRecovery, StartDeshredding, vars,
     slotVars, RecoverNothing, DeshredNothing, DeshredSegment
<1> QED BY <1>1, <1>2, <1>3 DEF Next, Ingest, RecoverPhase, DeshredPhase

\* A step changes what is held at an index only by filling an empty place with
\* a data shred, or by evicting the slot.
LEMMA PlaceStep ==
    ASSUME TypeInv, [Next]_vars, NEW s \in Slot, NEW i \in Idx
    PROVE  \/ data_shreds'[s][i] = data_shreds[s][i]
           \/ data_shreds[s][i] = None /\ data_shreds'[s][i].type = "Data"
           \/ data_shreds'[s][i] = None /\ s \notin tracked'
<1>1. ASSUME NEW slot \in Slot, NEW X \in SUBSET Shred, Store(slot, X),
             \A x \in X : x.slot = slot /\ IsNewShred(x)
      PROVE  \/ data_shreds'[s][i] = data_shreds[s][i]
             \/ data_shreds[s][i] = None /\ data_shreds'[s][i].type = "Data"
  <2>1. CASE s = slot /\ data_shreds'[s][i] \in DataOf(X) /\ data_shreds'[s][i].index = i
    BY <1>1, <2>1 DEF DataOf, IsNewShred
  <2>2. TypeOK
    BY DEF TypeInv
  <2>3. data_shreds'[s][i] = data_shreds[s][i]
        \/ (s = slot /\ data_shreds'[s][i] \in DataOf(X) /\ data_shreds'[s][i].index = i)
    BY <1>1, <2>2, StoredAt
  <2> QED BY <2>1, <2>3
<1>2. CASE Return
  <2>1. CASE Evicted(s)
    BY <1>2, <2>1 DEF Return
  <2>2. CASE ~Evicted(s)
    BY <1>2, <2>2 DEF Return
  <2> QED BY <2>1, <2>2
<1> QED BY <1>1, <1>2, TrackerStep

\* The first data shred at an index stays until its slot is evicted: neither
\* another version of it nor recovery replaces it.
THEOREM FirstShredWins == Spec => FirstShredStays
<1>1. TypeInv /\ [Next]_vars =>
        \A s \in tracked \cap tracked', i \in Idx :
           data_shreds[s][i] # None => data_shreds'[s][i] = data_shreds[s][i]
  <2> SUFFICES ASSUME TypeInv, [Next]_vars, NEW s \in tracked \cap tracked',
                      NEW i \in Idx, data_shreds[s][i] # None
               PROVE  data_shreds'[s][i] = data_shreds[s][i]
    OBVIOUS
  <2>1. s \in Slot
    BY DEF TypeInv, TypeOK
  <2> QED BY <2>1, PlaceStep
<1> QED BY <1>1, InitTypeInv, NextTypeInv, PTL DEF Spec, FirstShredStays

\* Two versions of a data shred agree on whether it ends a batch.
FlagsAgree ==
    \A x, y \in DataOf(Shred) :
        x.slot = y.slot /\ x.index = y.index => x.complete = y.complete

\* The tracker starts empty, and every step puts data shreds only into it.
LEMMA DataHeldStep ==
    /\ Init => DataHeld
    /\ TypeInv /\ DataHeld /\ [Next]_vars => DataHeld'
<1>1. Init => DataHeld
  BY DEF Init, DataHeld
<1>2. ASSUME TypeInv, DataHeld, [Next]_vars, NEW s \in Slot, NEW i \in Idx,
             data_shreds'[s][i] # None
      PROVE  data_shreds'[s][i].type = "Data"
  BY <1>2, PlaceStep DEF DataHeld
<1> QED BY <1>1, <1>2 DEF DataHeld

\* Only a step that decodes a segment changes the feed.
LEMMA FeedStep ==
    ASSUME TypeInv, [Next]_vars
    PROVE  Feed' = Feed \/ \E p \in remaining : DeshredSegment(p)
<1>1. CASE \E b \in Batches : Receive(b)
  BY Zenon, <1>1 DEF Receive, Feed, TypeInv, BetweenCalls
<1>2. CASE Return
  <2>1. Feed' = Feed \o <<>>
    BY <1>2 DEF Return, Feed
  <2> QED BY <2>1, FeedType, ConcatEmpty DEF TypeInv
<1>3. CASE \/ SkipPacket \/ DropShred \/ AcceptShred \/ StartRecovery
           \/ StartDeshredding \/ UNCHANGED vars
           \/ (\E p \in remaining : RecoverNothing(p) \/ RecoverSet(p)
                                    \/ DeshredNothing(p))
  BY Zenon, <1>3 DEF SkipPacket, DropShred, AcceptShred, NextPacket, StartRecovery,
     StartDeshredding, vars, RecoverNothing, RecoverSet, DeshredNothing, NextSet, Feed
<1> QED BY <1>1, <1>2, <1>3 DEF Next, Ingest, RecoverPhase, DeshredPhase

\* The entry a step decodes: a segment of the tracker around the set visited.
IsDecoded(p, e) ==
    /\ e \in Entry /\ e.slot = p[1]
    /\ IsSegment(data_status[p[1]], already_deshredded[p[1]], p[2], e)
    /\ deshredded_entries' = Append(deshredded_entries, e)
    /\ Feed' = Append(Feed, e)

\* A decoding step appends one such entry.
LEMMA DecodedFacts ==
    ASSUME TypeInv, NEW p \in remaining, DeshredSegment(p)
    PROVE  \E e \in Entry : IsDecoded(p, e)
<1>1. p[1] \in Slot /\ p[2] \in Idx
  BY DEF TypeInv, TypeOK
<1>2. PICK seg \in Segment(p) :
        deshredded_entries' = Append(deshredded_entries,
              [slot |-> p[1], start |-> seg.start, end |-> seg.end,
               unknown_start |-> seg.unknown_start])
  BY DEF DeshredSegment
<1> DEFINE e == [slot |-> p[1], start |-> seg.start, end |-> seg.end,
                 unknown_start |-> seg.unknown_start]
<1>3. IsSegment(data_status[p[1]], already_deshredded[p[1]], p[2], seg)
  <2>1. /\ data_status[p[1]] \in [Idx -> ShredStatus]
        /\ already_deshredded[p[1]] \in SUBSET Idx
        /\ seg \in get_indexes(data_status[p[1]], already_deshredded[p[1]], p[2])
    BY <1>1 DEF TypeInv, TypeOK, Segment
  <2> QED BY <1>1, <2>1, SegmentFacts
<1>4. IsSegment(data_status[p[1]], already_deshredded[p[1]], p[2], e) /\ e.slot = p[1]
  BY <1>3 DEF IsSegment
<1>5. e \in Entry
  BY <1>1, <1>3 DEF Entry, IsSegment
<1> HIDE DEF e
<1>6. Feed' = Append(Feed, e)
  <2>1. sent' = sent /\ deshredded_entries' = Append(deshredded_entries, e)
    BY <1>2 DEF DeshredSegment, NextSet, e
  <2>2. sent \in Seq(Entry) /\ deshredded_entries \in Seq(Entry)
    BY DEF TypeInv, TypeOK
  <2> QED BY <1>5, <2>1, <2>2, ConcatAppend DEF Feed
<1> QED BY <1>2, <1>4, <1>5, <1>6 DEF IsDecoded, e

\* The sets still to visit are pairs of natural numbers.
LEMMA RemainingPairs ==
    ASSUME TypeInv, NEW r \in remaining
    PROVE  /\ r[1] \in Slot /\ r[2] \in Idx /\ r = <<r[1], r[2]>>
           /\ r[1] \in Nat /\ r[2] \in Nat
<1>1. r \in Slot \X Idx
  BY DEF TypeInv, TypeOK
<1>2. r[1] \in Slot /\ r[2] \in Idx /\ r = <<r[1], r[2]>>
  BY <1>1
<1> QED BY <1>2, IdxAreNaturals, SlotsAreNaturals

-----------------------------------------------------------------------------
(* The shreds of one slot *)

\* The shreds of an FEC set.
SetOf(s, f) == {x \in Shred : x.slot = s /\ x.fec_set_index = f}

\* The tracker holds a data shred; it holds all those of a set.
Held(x) == data_shreds[x.slot][x.index] # None
Full(s, f) == \A x \in DataOf(SetOf(s, f)) : Held(x)

\* The sets the current call has still to visit in its two loops.
ToRecover == IF pc = "ingest" THEN slot_fec_indexes_to_iterate
             ELSE IF pc = "recover" THEN remaining ELSE {}
ToDeshred == IF pc \in {"ingest", "recover"} THEN slot_fec_indexes_to_iterate
             ELSE IF pc = "deshred" THEN remaining ELSE {}

\* Of a set not marked as recovered, the tracker and the recovery map hold what
\* has arrived; of a set that is marked, the tracker holds everything.
SetsKept(s) ==
    /\ \A f \in Idx \ already_recovered_fec_sets[s] :
          /\ fec_shreds[s][f] = seen \cap SetOf(s, f)
          /\ \A x \in DataOf(SetOf(s, f)) : Held(x) <=> x \in seen
    /\ \A f \in already_recovered_fec_sets[s] : Full(s, f)

\* A data shred is marked as deshredded together with its set, and its batch
\* has then been decoded.
MarksTell(s) ==
    /\ \A x \in DataOf(Shred) :
          x.slot = s /\ x.index \in already_deshredded[s] =>
              x.fec_set_index \in already_recovered_fec_sets[s]
    /\ \A r \in EntryBatches(s), i \in Idx :
          i \in r[1] .. r[2] /\ i \in already_deshredded[s] => Decoded(s, r)

\* A set of which enough has arrived is full or about to be recovered.
EnoughOf(s, f) ==
    Cardinality(seen \cap SetOf(s, f)) >= Cardinality(DataOf(SetOf(s, f)))
SetsRecovered(s) ==
    \A f \in Idx : EnoughOf(s, f) => Full(s, f) \/ <<s, f>> \in ToRecover

\* A batch of which all data shreds are there is decoded or about to be.
BatchHeld(s, r) == \A x \in DataIn(s, r[1], r[2]) : Held(x)
BatchTouched(s, r) ==
    \E x \in DataIn(s, r[1], r[2]) : <<s, x.fec_set_index>> \in ToDeshred
BatchesDecoded(s) ==
    \A r \in EntryBatches(s) : BatchHeld(s, r) => Decoded(s, r) \/ BatchTouched(s, r)

SlotOK(s) == SetsKept(s) /\ MarksTell(s) /\ SetsRecovered(s) /\ BatchesDecoded(s)

\* A slot loses its state only when it is old.
BatchInv == \A s \in Slot : ~IsOld(s) => SlotOK(s)

\* A data shred of a regular block is told by its slot and index.
LEMMA OneVersion ==
    ASSUME RegularBlocks, NEW x \in DataOf(Shred), NEW y \in DataOf(Shred),
           x.slot = y.slot, x.index = y.index
    PROVE  x = y
BY DEF RegularBlocks

\* If data shreds are told by slot and index, their flags agree.
LEMMA RegularFlags == RegularBlocks => FlagsAgree
BY OneVersion DEF FlagsAgree

\* Slot and fec_set_index tell the erasure set.
LEMMA SetIsErasureSet ==
    ASSUME RegularBlocks, NEW x \in Shred
    PROVE  ErasureSet(x) = SetOf(x.slot, x.fec_set_index)
<1>1. \A y \in Shred : y.slot = x.slot /\ y.fec_set_index = x.fec_set_index => y.set = x.set
  BY DEF RegularBlocks
<1>2. \A y \in Shred : y.set = x.set =>
         y.slot = x.slot /\ y.fec_set_index = x.fec_set_index
  BY ShredAssumption
<1> QED BY <1>1, <1>2 DEF ErasureSet, SetOf

\* A batch is a range of indexes, of which only the last ends a batch.
LEMMA BatchFacts ==
    ASSUME NEW s, NEW r \in EntryBatches(s)
    PROVE  /\ r = <<r[1], r[2]>> /\ r[1] \in Idx /\ r[2] \in Idx
           /\ r[1] \in Nat /\ r[2] \in Nat /\ r[1] <= r[2]
           /\ EndsBatch(s, r[2])
           /\ \A i \in r[1] .. r[2] - 1 : ~EndsBatch(s, i)
           /\ r[1] > 0 => EndsBatch(s, r[1] - 1)
           /\ \A i \in r[1] .. r[2] : i \in Idx
<1>1. r \in Idx \X Idx
  BY DEF EntryBatches
<1>2. r = <<r[1], r[2]>> /\ r[1] \in Idx /\ r[2] \in Idx
  BY <1>1
<1>3. \A i \in r[1] .. r[2] : i \in Idx
  BY <1>2, ShredAssumption DEF Idx
<1> QED BY Zenon, <1>2, <1>3, IdxAreNaturals DEF EntryBatches

\* Two batches of a slot that share an index are the same.
LEMMA BatchUnique ==
    ASSUME NEW s, NEW q \in EntryBatches(s), NEW r \in EntryBatches(s),
           NEW i \in Nat, q[1] <= i, i <= q[2], r[1] <= i, i <= r[2]
    PROVE  q = r
<1>1. /\ q = <<q[1], q[2]>> /\ q[1] \in Nat /\ q[2] \in Nat
      /\ r = <<r[1], r[2]>> /\ r[1] \in Nat /\ r[2] \in Nat
  BY BatchFacts
<1>2. q[2] = r[2]
  <2>1. ~(q[2] < r[2])
    <3>1. q[2] < r[2] => q[2] \in r[1] .. r[2] - 1
      BY <1>1
    <3> QED BY <3>1, BatchFacts
  <2>2. ~(r[2] < q[2])
    <3>1. r[2] < q[2] => r[2] \in q[1] .. q[2] - 1
      BY <1>1
    <3> QED BY <3>1, BatchFacts
  <2> QED BY <1>1, <2>1, <2>2
<1>3. q[1] = r[1]
  <2>1. ~(q[1] < r[1])
    <3>1. q[1] < r[1] => r[1] - 1 \in q[1] .. q[2] - 1 /\ r[1] > 0
      BY <1>1
    <3> QED BY <3>1, BatchFacts
  <2>2. ~(r[1] < q[1])
    <3>1. r[1] < q[1] => q[1] - 1 \in r[1] .. r[2] - 1 /\ q[1] > 0
      BY <1>1
    <3> QED BY <3>1, BatchFacts
  <2> QED BY <1>1, <2>1, <2>2
<1> QED BY <1>1, <1>2, <1>3

\* A set with a data shred in a batch lies in the batch, its first index too.
LEMMA SetInBatch ==
    ASSUME RegularBlocks, NEW s, NEW r \in EntryBatches(s),
           NEW x \in DataIn(s, r[1], r[2])
    PROVE  /\ x.fec_set_index \in Idx /\ x.fec_set_index \in r[1] .. r[2]
           /\ \A y \in DataOf(SetOf(s, x.fec_set_index)) : y \in DataIn(s, r[1], r[2])
<1> DEFINE f == x.fec_set_index
<1>1. r[1] \in Nat /\ r[2] \in Nat
  BY BatchFacts
<1>2. x \in DataOf(Shred) /\ x.slot = s /\ x.index \in r[1] .. r[2]
  BY DEF DataIn
<1>3. f \in Idx /\ f \in Nat /\ x.index \in Nat
  BY Zenon, <1>2, ShredFields, IdxAreNaturals DEF DataOf
<1>4. f <= x.index /\ \A i \in f .. x.index - 1 : ~EndsBatch(s, i)
  BY <1>2 DEF RegularBlocks
<1>5. r[1] <= f
  <2>1. f < r[1] => r[1] > 0 /\ r[1] - 1 \in f .. x.index - 1
    BY <1>1, <1>2, <1>3
  <2> QED BY <1>1, <1>3, <1>4, <2>1, BatchFacts
<1>6. ASSUME NEW y \in DataOf(SetOf(s, f)) PROVE y \in DataIn(s, r[1], r[2])
  <2>1. y \in DataOf(Shred) /\ y.slot = s /\ y.fec_set_index = f
    BY DEF DataOf, SetOf
  <2>2. y.index \in Nat
    BY Zenon, <2>1, ShredFields, IdxAreNaturals DEF DataOf
  <2>3. f <= y.index /\ \A i \in f .. y.index - 1 : ~EndsBatch(s, i)
    BY <2>1 DEF RegularBlocks
  <2>4. y.index <= r[2]
    <3>1. r[2] < y.index => r[2] \in f .. y.index - 1
      BY <1>1, <1>2, <1>3, <1>4, <2>2
    <3> QED BY <1>1, <2>2, <2>3, <3>1, BatchFacts
  <2>5. y.index \in r[1] .. r[2]
    BY <1>1, <1>3, <1>5, <2>2, <2>3, <2>4
  <2> QED BY <2>1, <2>5 DEF DataIn
<1>7. f \in r[1] .. r[2]
  BY <1>1, <1>2, <1>3, <1>4, <1>5
<1> QED BY <1>3, <1>6, <1>7

\* Every index of a batch has its data shred.
LEMMA BatchHasShreds ==
    ASSUME RegularBlocks, NEW s, NEW r \in EntryBatches(s), NEW i \in r[1] .. r[2]
    PROVE  \E x \in DataIn(s, r[1], r[2]) : x.index = i
<1>1. PICK y \in DataOf(Shred) : y.slot = s /\ y.index = r[2]
  BY BatchFacts DEF EndsBatch
<1>2. i \in 0 .. y.index
  BY <1>1, BatchFacts
<1>3. PICK x \in DataIn(s, i, i) : TRUE
  BY <1>1, <1>2 DEF RegularBlocks
<1>4. x \in DataOf(Shred) /\ x.slot = s /\ x.index \in i .. i
  BY DEF DataIn
<1>5. x.index = i
  BY <1>4, BatchFacts
<1> QED BY <1>4, <1>5 DEF DataIn

\* In a regular block what is held at a data shred's index is that shred.
LEMMA HeldIsIt ==
    ASSUME RegularBlocks, TypeInv, DataHeld, NEW x \in DataOf(Shred), Held(x)
    PROVE  data_shreds[x.slot][x.index] = x
<1> DEFINE y == data_shreds[x.slot][x.index]
<1>1. x.slot \in Slot /\ x.index \in Idx
  BY ShredFields DEF DataOf
<1>2. y # None /\ y.slot = x.slot /\ y.index = x.index /\ y.type = "Data"
  BY <1>1, SMTT(20) DEF Held, TypeInv, TrackerConsistent, DataHeld
<1>3. y \in DataOf(Shred)
  BY <1>1, <1>2, SMTT(20) DEF TypeInv, TypeOK, DataOf
<1> HIDE DEF y
<1>4. y = x
  BY <1>2, <1>3, OneVersion
<1> QED BY <1>4 DEF y

\* update_state_tracker fills the places of the data shreds it is given and, in
\* a regular block, no others.
LEMMA StoreFills ==
    ASSUME RegularBlocks, TypeInv, NEW s \in Slot, NEW X \in SUBSET Shred, Store(s, X),
           \A x \in X : x.slot = s
    PROVE  \A x \in DataOf(Shred) : x.slot = s => (Held(x)' <=> Held(x) \/ x \in X)
<1> SUFFICES ASSUME NEW x \in DataOf(Shred), x.slot = s
             PROVE  data_shreds'[s][x.index] # None
                      <=> data_shreds[s][x.index] # None \/ x \in X
  BY DEF Held
<1>1. x.index \in Idx /\ x \in Shred /\ x # None
  BY ShredFields, ShredAssumption DEF DataOf
<1>2. ASSUME x \in X PROVE data_shreds'[s][x.index] # None
  <2> DEFINE At(i) == {y \in DataOf(X) : y.index = i}
             new(i) == CHOOSE y \in At(i) : TRUE
  <2>1. x \in At(x.index)
    BY <1>2 DEF DataOf
  <2>2. new(x.index) \in At(x.index)
    BY <2>1
  <2>3. data_shreds' = [data_shreds EXCEPT ![s] = [i \in Idx |->
              IF At(i) # {} THEN new(i) ELSE data_shreds[s][i]]]
    BY DEF Store, TypeInv, TypeOK
  <2> HIDE DEF new
  <2>4. data_shreds'[s][x.index] = new(x.index)
    BY <1>1, <2>1, <2>3 DEF TypeInv, TypeOK
  <2>5. new(x.index) \in Shred
    BY <2>2 DEF DataOf
  <2> QED BY <2>4, <2>5, ShredAssumption
<1>3. ASSUME x \notin X PROVE data_shreds'[s][x.index] = data_shreds[s][x.index]
  <2> DEFINE y == data_shreds'[s][x.index]
  <2>1. ASSUME y \in DataOf(X), y.index = x.index PROVE FALSE
    <3>1. y \in DataOf(Shred) /\ y.slot = x.slot /\ y \in X
      BY <2>1 DEF DataOf
    <3> HIDE DEF y
    <3>2. y = x
      BY <2>1, <3>1, OneVersion
    <3> QED BY <1>3, <3>1, <3>2
  <2>2. TypeOK
    BY DEF TypeInv
  <2> QED BY <1>1, <2>1, <2>2, StoredAt
<1>4. CASE x \in X
  BY <1>2, <1>4
<1>5. CASE x \notin X
  BY <1>3, <1>5
<1> QED BY <1>4, <1>5

\* What is decoded stays decoded.
LEMMA DecodedStays ==
    ASSUME TypeInv, [Next]_vars, NEW s, NEW r, Decoded(s, r)
    PROVE  Decoded(s, r)'
<1>1. CASE Feed' = Feed
  BY <1>1 DEF Decoded
<1>2. ASSUME NEW p \in remaining, DeshredSegment(p) PROVE Decoded(s, r)'
  <2>1. PICK e \in Entry : Feed' = Append(Feed, e)
    BY <1>2, DecodedFacts DEF IsDecoded
  <2>2. Feed \in Seq(Entry)
    BY FeedType DEF TypeInv
  <2>3. PICK k \in 1 .. Len(Feed) :
           Feed[k].slot = s /\ Feed[k].start = r[1] /\ Feed[k].end = r[2]
    BY DEF Decoded
  <2>4. k \in 1 .. Len(Feed') /\ Feed'[k] = Feed[k]
    BY <2>1, <2>2, AppendKeeps
  <2> QED BY <2>3, <2>4 DEF Decoded
<1> QED BY <1>1, <1>2, FeedStep

\* A slot that is not old has not been old before.
LEMMA YoungStays ==
    ASSUME TypeInv, TypeInv', [Next]_vars, NEW s \in Slot, ~IsOld(s)'
    PROVE  ~IsOld(s)
<1>1. highest_slot_seen \in Nat /\ highest_slot_seen' \in Nat
  BY SlotsAreNaturals, SMTT(20) DEF TypeInv, TypeOK
<1>2. CASE AcceptShred
  <2> DEFINE x == Head(batch)
  <2>1. x \in Shred /\ highest_slot_seen' = HigherSlot(x.slot)
    BY <1>2 DEF AcceptShred
  <2>2. x.slot \in Nat
    BY <2>1, ShredFields
  <2> HIDE DEF x
  <2>3. highest_slot_seen <= highest_slot_seen'
    BY <1>1, <2>1, <2>2 DEF HigherSlot
  <2> QED BY <1>1, <2>3, OldStaysOld DEF TypeInv
<1>3. CASE ~AcceptShred
  <2>1. highest_slot_seen' = highest_slot_seen
    BY Zenon, <1>3 DEF Next, Ingest, RecoverPhase, DeshredPhase, Receive, SkipPacket, DropShred,
       StartRecovery, RecoverNothing, RecoverSet, StartDeshredding, DeshredNothing,
       DeshredSegment, Return, NextSet, vars
  <2> QED BY <2>1 DEF IsOld, slot_threshold
<1> QED BY <1>2, <1>3

\* A step that leaves the state of slot s alone.  It may count another arrival
\* of a shred whose set is marked, and it may be through with a set or a batch
\* that needs no more work.
LEMMA SlotUntouched ==
    ASSUME NEW s \in Slot, SlotOK(s),
           fec_shreds'[s] = fec_shreds[s],
           \A i \in Idx : data_shreds'[s][i] = data_shreds[s][i],
           already_recovered_fec_sets'[s] = already_recovered_fec_sets[s],
           already_deshredded'[s] = already_deshredded[s],
           \A x \in Shred :
              x.slot = s /\ x.fec_set_index \notin already_recovered_fec_sets[s] =>
                 (x \in seen' <=> x \in seen),
           \A r \in EntryBatches(s) : Decoded(s, r) => Decoded(s, r)',
           \A f \in Idx : <<s, f>> \in ToRecover /\ EnoughOf(s, f) =>
              Full(s, f) \/ <<s, f>> \in ToRecover',
           \A r \in EntryBatches(s) : BatchHeld(s, r) /\ BatchTouched(s, r) =>
              Decoded(s, r)' \/ BatchTouched(s, r)'
    PROVE  SlotOK(s)'
<1> DEFINE R == already_recovered_fec_sets[s]
<1>1. \A x \in DataOf(Shred) : x.slot = s => (Held(x)' <=> Held(x))
  BY Zenon, ShredFields DEF Held, DataOf
<1>2. \A f : Full(s, f)' <=> Full(s, f)
  BY <1>1 DEF Full, DataOf, SetOf
<1>3. \A f \in Idx \ R : seen' \cap SetOf(s, f) = seen \cap SetOf(s, f)
  BY DEF SetOf
<1>4. SetsKept(s)'
  <2>1. \A f \in Idx \ R : \A x \in DataOf(SetOf(s, f)) : Held(x)' <=> x \in seen'
    BY <1>1 DEF SlotOK, SetsKept, DataOf, SetOf
  <2>2. \A f \in Idx \ R : fec_shreds'[s][f] = seen' \cap SetOf(s, f)
    BY Zenon, <1>3 DEF SlotOK, SetsKept
  <2>3. \A f \in R : Full(s, f)'
    BY Zenon, <1>2 DEF SlotOK, SetsKept
  <2> QED BY Zenon, <2>1, <2>2, <2>3 DEF SetsKept, SetOf, DataOf
<1>5. MarksTell(s)'
  BY DEF SlotOK, MarksTell
<1>6. SetsRecovered(s)'
  <2> SUFFICES ASSUME NEW f \in Idx, EnoughOf(s, f)'
               PROVE  Full(s, f)' \/ <<s, f>> \in ToRecover'
    BY DEF SetsRecovered
  <2>1. CASE f \in R
    BY Zenon, <1>2, <2>1 DEF SlotOK, SetsKept
  <2>2. CASE f \notin R
    <3>1. EnoughOf(s, f)
      BY Zenon, <1>3, <2>2 DEF EnoughOf
    <3> QED BY Zenon, <1>2, <3>1 DEF SlotOK, SetsRecovered
  <2> QED BY Zenon, <2>1, <2>2
<1>7. BatchesDecoded(s)'
  <2> SUFFICES ASSUME NEW r \in EntryBatches(s), BatchHeld(s, r)'
               PROVE  Decoded(s, r)' \/ BatchTouched(s, r)'
    BY Zenon DEF BatchesDecoded
  <2>1. BatchHeld(s, r)
    BY <1>1 DEF BatchHeld, DataIn
  <2> QED BY Zenon, <2>1 DEF SlotOK, BatchesDecoded
<1> QED BY Zenon, <1>4, <1>5, <1>6, <1>7 DEF SlotOK

\* Why dropping a shred of a slot that is not old loses nothing: its set is
\* marked, or the shred was here before.
LEMMA DroppedIsKnown ==
    ASSUME RegularBlocks, TypeInv, NEW x \in Shred, SlotOK(x.slot),
           AlreadyCompleted(x) \/ ~IsNewShred(x)
    PROVE  x.fec_set_index \in already_recovered_fec_sets[x.slot] \/ x \in seen
<1> DEFINE R == already_recovered_fec_sets[x.slot]
<1>1. /\ x.slot \in Slot /\ x.index \in Idx /\ x.fec_set_index \in Idx
      /\ x.type \in {"Data", "Code"}
  BY ShredFields
<1>2. CASE x.type = "Data" /\ x.index \in already_deshredded[x.slot]
  BY <1>2 DEF SlotOK, MarksTell, DataOf
<1>3. CASE x.type = "Code" /\ x.index \in already_deshredded[x.slot]
  <2>1. PICK y \in DataOf(ErasureSet(x)) : y.index = x.index
    BY <1>3 DEF RegularBlocks, CodeOf
  <2>2. y \in DataOf(Shred) /\ y.slot = x.slot /\ y.fec_set_index = x.fec_set_index
    BY ShredAssumption DEF DataOf, ErasureSet
  <2> QED BY <1>3, <2>1, <2>2 DEF SlotOK, MarksTell
<1>4. CASE x.fec_set_index \notin R /\ ~IsNewShred(x)
  <2>1. x.type = "Data" /\ data_shreds[x.slot][x.index] # None
    BY <1>1, <1>4, SMTT(20) DEF IsNewShred, TypeInv, TrackerConsistent
  <2>2. x \in DataOf(SetOf(x.slot, x.fec_set_index)) /\ Held(x)
    BY <2>1 DEF DataOf, SetOf, Held
  <2> QED BY <1>1, <1>4, <2>2 DEF SlotOK, SetsKept
<1> QED BY <1>1, <1>2, <1>3, <1>4 DEF AlreadyCompleted

\* Taking in a shred: it is held where it belongs, and its set will be visited.
LEMMA AcceptKeeps ==
    ASSUME RegularBlocks, TypeInv, AcceptShred, NEW x \in Shred, x = Head(batch),
           SlotOK(x.slot)
    PROVE  SlotOK(x.slot)'
<1> DEFINE s == x.slot
           f0 == x.fec_set_index
           R == already_recovered_fec_sets[s]
<1>1. /\ s \in Slot /\ f0 \in Idx /\ x.index \in Idx /\ f0 \notin R
      /\ pc = "ingest" /\ pc' = "ingest" /\ Store(s, {x})
      /\ seen' = seen \cup {x}
      /\ already_recovered_fec_sets' = already_recovered_fec_sets
      /\ already_deshredded' = already_deshredded
      /\ slot_fec_indexes_to_iterate' = slot_fec_indexes_to_iterate \cup {<<s, f0>>}
  BY ShredFields DEF AcceptShred, NextPacket, IsNewShred
<1>2. /\ fec_shreds'[s][f0] = fec_shreds[s][f0] \cup {x}
      /\ \A f \in Idx \ {f0} : fec_shreds'[s][f] = fec_shreds[s][f]
  <2>1. fec_shreds' = [fec_shreds EXCEPT ![s][f0] = @ \cup {x}]
    BY DEF AcceptShred
  <2>2. fec_shreds \in [Slot -> [Idx -> SUBSET Shred]]
    BY DEF TypeInv, TypeOK
  <2> HIDE DEF s, f0
  <2> QED BY <1>1, <2>1, <2>2
<1>3. \A y \in DataOf(Shred) : y.slot = s => (Held(y)' <=> Held(y) \/ y = x)
  <2>1. {x} \in SUBSET Shred /\ \A y \in {x} : y.slot = s
    OBVIOUS
  <2>2. \A y \in DataOf(Shred) : y.slot = s => (Held(y)' <=> Held(y) \/ y \in {x})
    BY <1>1, <2>1, StoreFills
  <2> QED BY <2>2
<1>4. Feed' = Feed
  BY DEF AcceptShred, NextPacket, Feed
<1>5. SetsKept(s)'
  <2>1. ASSUME NEW f \in Idx \ R PROVE fec_shreds'[s][f] = seen' \cap SetOf(s, f)
    <3>1. fec_shreds[s][f] = seen \cap SetOf(s, f)
      BY DEF SlotOK, SetsKept
    <3>2. CASE f = f0
      BY <1>1, <1>2, <3>1, <3>2 DEF SetOf
    <3>3. CASE f # f0
      BY <1>1, <1>2, <3>1, <3>3 DEF SetOf
    <3> QED BY <3>2, <3>3
  <2>2. ASSUME NEW f \in Idx \ R, NEW y \in DataOf(SetOf(s, f))
        PROVE  Held(y)' <=> y \in seen'
    <3>1. y \in DataOf(Shred) /\ y.slot = s
      BY DEF DataOf, SetOf
    <3> QED BY <1>1, <1>3, <3>1 DEF SlotOK, SetsKept
  <2>3. ASSUME NEW f \in R PROVE Full(s, f)'
    <3>1. Full(s, f)
      BY DEF SlotOK, SetsKept
    <3> QED BY <1>3, <3>1 DEF Full, DataOf, SetOf
  <2> QED BY Zenon, <1>1, <2>1, <2>2, <2>3 DEF SetsKept
<1>6. MarksTell(s)'
  BY Zenon, <1>1, <1>4 DEF SlotOK, MarksTell, Decoded
<1>7. SetsRecovered(s)'
  <2> SUFFICES ASSUME NEW f \in Idx, EnoughOf(s, f)', f # f0
               PROVE  Full(s, f)' \/ <<s, f>> \in ToRecover'
    BY <1>1 DEF SetsRecovered, ToRecover
  <2>1. seen' \cap SetOf(s, f) = seen \cap SetOf(s, f)
    BY <1>1 DEF SetOf
  <2>2. Full(s, f) \/ <<s, f>> \in ToRecover
    BY <2>1 DEF EnoughOf, SlotOK, SetsRecovered
  <2>3. Full(s, f) => Full(s, f)'
    BY <1>3 DEF Full, DataOf, SetOf
  <2>4. <<s, f>> \in ToRecover => <<s, f>> \in ToRecover'
    BY <1>1 DEF ToRecover
  <2> QED BY <2>2, <2>3, <2>4
<1>8. BatchesDecoded(s)'
  <2> SUFFICES ASSUME NEW r \in EntryBatches(s), BatchHeld(s, r)'
               PROVE  Decoded(s, r)' \/ BatchTouched(s, r)'
    BY DEF BatchesDecoded
  <2>1. ToDeshred' = ToDeshred \cup {<<s, f0>>}
    BY <1>1 DEF ToDeshred
  <2>2. CASE BatchHeld(s, r)
    BY <1>4, <2>1, <2>2 DEF SlotOK, BatchesDecoded, Decoded, BatchTouched
  <2>3. CASE ~BatchHeld(s, r)
    <3>1. x \in DataIn(s, r[1], r[2])
      BY <1>3, <2>3 DEF BatchHeld, DataIn
    <3> QED BY <2>1, <3>1 DEF BatchTouched
  <2> QED BY <2>2, <2>3
<1> QED BY <1>5, <1>6, <1>7, <1>8 DEF SlotOK
=============================================================================
