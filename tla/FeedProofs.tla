------------------------------ MODULE FeedProofs -------------------------------
(***************************************************************************)
(* What the subscribers of the entry service get, for every set of shreds  *)
(* and every order of arrival: the feed of EntryFeed, in order within a    *)
(* call, and, of a regular block, every batch that can be reconstructed.   *)
(***************************************************************************)
EXTENDS DeshredProofs

-----------------------------------------------------------------------------
(* The abstract feed *)

\* What a status says of the block, if its versions agree on the flags.
LEMMA StatusTells ==
    ASSUME FlagsAgree, TypeInv, DataHeld, NEW s \in Slot, NEW i \in Idx
    PROVE  /\ data_status[s][i] = "DataComplete" => EndsBatch(s, i)
           /\ data_status[s][i] = "NotDataComplete" => ~EndsBatch(s, i)
<1> DEFINE x == data_shreds[s][i]
<1>1. SUFFICES ASSUME data_status[s][i] # "Unknown"
               PROVE  /\ data_status[s][i] = "DataComplete" => EndsBatch(s, i)
                      /\ data_status[s][i] = "NotDataComplete" => ~EndsBatch(s, i)
  OBVIOUS
<1>2. x # None /\ x.slot = s /\ x.index = i /\ data_status[s][i] = StatusOf(x)
  BY <1>1 DEF TypeInv, TrackerConsistent
<1>3. x \in DataOf(Shred)
  BY <1>2 DEF TypeInv, TypeOK, DataHeld, DataOf
<1> HIDE DEF x
<1>4. EndsBatch(s, i) <=> x.complete
  BY <1>2, <1>3 DEF EndsBatch, FlagsAgree
<1> QED BY <1>2, <1>4 DEF StatusOf

\* If the versions of a block agree on where its batches end, the deshredder
\* implements EntryFeed: no shred is fed twice, a segment ends where a batch
\* ends and spans no other end, and its start is a batch's unless it is
\* reported as unknown.
THEOREM FeedImplemented ==
    ASSUME FlagsAgree
    PROVE  Spec => ImplementsFeed
<1> DEFINE Inv == TypeInv /\ DataHeld /\ FeedInv
           E == {p \in Slot \X Idx : EndsBatch(p[1], p[2])}
<1>1. Init => Inv /\ AbstractFeed!FeedInit
  <2>1. Init => Feed = <<>>
    BY DEF Init, Feed
  <2> QED BY <2>1, InitTypeInv, DataHeldStep, InitFeedInv DEF AbstractFeed!FeedInit
<1>2. Inv /\ [Next]_vars => Inv'
  BY NextTypeInv, DataHeldStep, NextFeedInv
<1>3. Inv /\ Inv' /\ [Next]_vars => [AbstractFeed!FeedNext]_Feed
  <2> SUFFICES ASSUME Inv, Inv', [Next]_vars, NEW p \in remaining, DeshredSegment(p)
               PROVE  AbstractFeed!FeedNext
    BY FeedStep
  <2>1. PICK e \in Entry : IsDecoded(p, e)
    BY DecodedFacts
  <2>2. p[1] \in Slot /\ p[2] \in Nat /\ e.slot = p[1]
    BY Zenon, <2>1, IdxAreNaturals DEF TypeInv, TypeOK, IsDecoded
  <2>3. IsSegment(data_status[p[1]], already_deshredded[p[1]], p[2], e)
    BY <2>1 DEF IsDecoded
  <2>4. /\ e.start \in Idx /\ e.end \in Idx /\ e.start \in Nat /\ e.end \in Nat
        /\ e.start <= e.end
    <3>1. e.start \in Idx /\ e.end \in Idx /\ e.start <= p[2] /\ p[2] <= e.end
      BY <2>3, Zenon DEF IsSegment
    <3>2. \A a, b, c \in Nat : a <= b /\ b <= c => a <= c
      OBVIOUS
    <3> QED BY Zenon, <2>2, <3>1, <3>2, IdxAreNaturals
  <2>5. <<e.slot, e.end>> \in E
    BY <2>2, <2>3, <2>4, StatusTells DEF IsSegment
  <2>6. \A i \in e.start .. e.end - 1 : <<e.slot, i>> \notin E
    <3>1. \A i \in e.start .. e.end - 1 :
            i \in Idx /\ data_status[p[1]][i] = "NotDataComplete"
      BY <2>3, <2>4 DEF IsSegment
    <3> QED BY <2>2, <3>1, StatusTells
  <2>7. e.unknown_start \/ e.start = 0 \/ <<e.slot, e.start - 1>> \in E
    <3>1. \/ e.unknown_start \/ e.start = 0
          \/ e.start - 1 \in Idx /\ data_status[p[1]][e.start - 1] = "DataComplete"
      BY <2>3, <2>4 DEF IsSegment
    <3> QED BY <2>2, <3>1, StatusTells
  <2>8. Feed' = Append(Feed, e) /\ Feed \in Seq(Entry)
    BY <2>1, FeedType DEF IsDecoded, TypeInv
  <2>9. ASSUME NEW k \in 1 .. Len(Feed) PROVE Disjoint(Feed[k], e)
    <3>1. /\ Len(Feed) \in Nat /\ Len(Feed') = Len(Feed) + 1
          /\ Feed'[k] = Feed[k] /\ Feed'[Len(Feed) + 1] = e
      BY <2>8
    <3>2. /\ k \in 1 .. Len(Feed') /\ Len(Feed) + 1 \in 1 .. Len(Feed')
          /\ k # Len(Feed) + 1
      BY <3>1
    <3> QED BY <3>1, <3>2 DEF FeedInv, AtMostOnce
  <2>10. AbstractFeed!Deliver(e)
    BY <2>4, <2>5, <2>6, <2>7, <2>8, <2>9
       DEF AbstractFeed!Deliver, AbstractFeed!Apart, Disjoint
  <2> QED BY <2>10 DEF AbstractFeed!FeedNext, AbstractFeed!FeedEntry, Entry
<1> QED BY <1>1, <1>2, <1>3, PTL DEF Spec, ImplementsFeed, AbstractFeed!FeedSpec

-----------------------------------------------------------------------------
(* Order within a call *)

\* An entry of the call was decoded for a set it contains, and the sets R still
\* to visit come after that one.
Visited(d, R) ==
    \E f \in Idx :
        /\ d.start <= f /\ f <= d.end
        /\ \A r \in R : d.slot < r[1] \/ (d.slot = r[1] /\ f < r[2])

OrderInv ==
    /\ pc # "deshred" => deshredded_entries = <<>>
    /\ \A k \in 1 .. Len(deshredded_entries) : Visited(deshredded_entries[k], remaining)
    /\ InOrderWithinCall

\* A segment around a later set that overlaps no earlier entry comes after it.
LEMMA LaterSegment ==
    ASSUME NEW a \in Nat, NEW b \in Nat, NEW c \in Nat, NEW d \in Nat,
           NEW f \in Nat, NEW g \in Nat,
           a <= f, f <= b, c <= g, g <= d, f < g, b < c \/ d < a
    PROVE  b < c
OBVIOUS

\* The second of two concatenated sequences, in the whole.
LEMMA ConcatSecond ==
    ASSUME NEW S, NEW s \in Seq(S), NEW t \in Seq(S), NEW k \in 1 .. Len(t)
    PROVE  /\ Len(s \o t) = Len(s) + Len(t) /\ Len(s) \in Nat
           /\ (s \o t)[Len(s) + k] = t[k]
OBVIOUS

\* Decoding for the least of the remaining sets keeps the order.
LEMMA OrderGrows ==
    ASSUME TypeInv, OrderInv, AtMostOnce', NEW p \in remaining, DeshredSegment(p)
    PROVE  OrderInv'
<1> DEFINE D == deshredded_entries
           n == Len(deshredded_entries)
<1>1. PICK e \in Entry : IsDecoded(p, e)
  BY DecodedFacts
<1>2. /\ p[1] \in Slot /\ p[1] \in Nat /\ p[2] \in Idx /\ p[2] \in Nat /\ e.slot = p[1]
      /\ p = <<p[1], p[2]>>
  BY <1>1, RemainingPairs DEF IsDecoded
<1>3. e.start \in Nat /\ e.end \in Nat /\ e.start <= p[2] /\ p[2] <= e.end
  <2>1. IsSegment(data_status[p[1]], already_deshredded[p[1]], p[2], e)
    BY <1>1 DEF IsDecoded
  <2>2. e.start \in Idx /\ e.end \in Idx /\ e.start <= p[2] /\ p[2] <= e.end
    BY <2>1, Zenon DEF IsSegment
  <2> QED BY Zenon, <2>2, IdxAreNaturals
<1>4. /\ pc = "deshred" /\ pc' = "deshred" /\ sent' = sent
      /\ remaining' = remaining \ {p}
      /\ \A q \in remaining : Before(p, q)
  BY DEF DeshredSegment, NextSet
<1>5. /\ n \in Nat /\ Len(D') = n + 1 /\ D'[n + 1] = e
      /\ \A k \in 1 .. n : D'[k] = D[k] /\ D[k] \in Entry
  <2>1. D \in Seq(Entry) /\ D' = Append(D, e)
    BY <1>1 DEF TypeInv, TypeOK, IsDecoded
  <2> HIDE DEF D
  <2> QED BY <2>1 DEF D
<1>6. ASSUME NEW k \in 1 .. n
      PROVE  D[k].slot < p[1] \/ (D[k].slot = p[1] /\ D[k].end < e.start)
  <2>1. /\ D[k].slot \in Nat /\ D[k].start \in Nat /\ D[k].end \in Nat
    BY Zenon, <1>5, IdxAreNaturals, SlotsAreNaturals DEF Entry
  <2>2. PICK f \in Idx : /\ D[k].start <= f /\ f <= D[k].end
                         /\ D[k].slot < p[1] \/ (D[k].slot = p[1] /\ f < p[2])
    BY DEF OrderInv, Visited
  <2>3. Disjoint(D[k], e)
    <3>1. /\ sent \in Seq(Entry) /\ D' \in Seq(Entry) /\ Len(sent) \in Nat
      <4>1. sent \in Seq(Entry) /\ D \in Seq(Entry) /\ D' = Append(D, e)
        BY <1>1 DEF TypeInv, TypeOK, IsDecoded
      <4> HIDE DEF D
      <4> QED BY <4>1
    <3>2. Feed' = sent \o D'
      BY <1>4 DEF Feed
    <3> HIDE DEF D, n
    <3>3. /\ Len(Feed') = Len(sent) + (n + 1)
          /\ Feed'[Len(sent) + k] = D'[k] /\ Feed'[Len(sent) + (n + 1)] = D'[n + 1]
      <4>1. k \in 1 .. Len(D') /\ n + 1 \in 1 .. Len(D')
        BY <1>5
      <4>2. /\ Len(sent \o D') = Len(sent) + Len(D')
            /\ (sent \o D')[Len(sent) + k] = D'[k]
            /\ (sent \o D')[Len(sent) + (n + 1)] = D'[n + 1]
        BY <3>1, <4>1, ConcatSecond
      <4>3. Len(D') = n + 1
        BY <1>5
      <4> QED BY <3>2, <4>2, <4>3, Zenon
    <3>4. /\ Len(sent) + k \in 1 .. Len(Feed') /\ Len(sent) + (n + 1) \in 1 .. Len(Feed')
          /\ Len(sent) + k # Len(sent) + (n + 1)
      BY <1>5, <3>1, <3>3
    <3>5. Disjoint(Feed'[Len(sent) + k], Feed'[Len(sent) + (n + 1)])
      BY <3>4 DEF AtMostOnce, Disjoint
    <3> QED BY <1>5, <3>3, <3>5
  <2>4. CASE D[k].slot = p[1] /\ f < p[2]
    <3>1. D[k].end < e.start \/ e.end < D[k].start
      BY <1>2, <2>3, <2>4 DEF Disjoint
    <3> QED BY <1>2, <1>3, <2>1, <2>2, <2>4, <3>1, LaterSegment, IdxAreNaturals
  <2> QED BY <2>2, <2>4
<1>7. InOrderWithinCall'
  <2> SUFFICES ASSUME NEW i \in 1 .. Len(D'), NEW j \in 1 .. Len(D'), i < j
               PROVE  \/ D'[i].slot < D'[j].slot
                      \/ D'[i].slot = D'[j].slot /\ D'[i].end < D'[j].start
    BY DEF InOrderWithinCall
  <2> HIDE DEF D, n
  <2>1. i \in 1 .. n
    BY <1>5
  <2>2. CASE j \in 1 .. n
    BY <1>5, <2>1, <2>2 DEF OrderInv, InOrderWithinCall, D, n
  <2>3. CASE j = n + 1
    BY <1>2, <1>5, <1>6, <2>1, <2>3
  <2> QED BY <1>5, <2>2, <2>3
<1>8. Visited(e, remaining')
  <2>1. ASSUME NEW r \in remaining', TRUE
        PROVE  e.slot < r[1] \/ (e.slot = r[1] /\ p[2] < r[2])
    <3>1. r \in remaining /\ r # p /\ Before(p, r)
      BY <1>4
    <3>2. r[1] \in Nat /\ r[2] \in Nat /\ r = <<r[1], r[2]>>
      BY <3>1, RemainingPairs
    <3>3. r[1] # p[1] \/ r[2] # p[2]
      BY <1>2, <3>1, <3>2
    <3> QED BY <1>2, <3>1, <3>2, <3>3 DEF Before
  <2> QED BY <1>2, <1>3, <2>1 DEF Visited
<1>9. \A k \in 1 .. n : Visited(D[k], remaining')
  BY <1>4 DEF OrderInv, Visited
<1>10. \A k \in 1 .. Len(D') : Visited(D'[k], remaining')
  <2> HIDE DEF D, n
  <2>1. \A k \in 1 .. n + 1 : k \in 1 .. n \/ k = n + 1
    BY <1>5
  <2> QED BY <1>5, <1>8, <1>9, <2>1
<1> QED BY Zenon, <1>4, <1>7, <1>10 DEF OrderInv

\* Every other step decodes nothing; a call begins with nothing decoded.
LEMMA OrderStep ==
    ASSUME TypeInv, OrderInv, AtMostOnce', [Next]_vars
    PROVE  OrderInv'
<1>1. ASSUME deshredded_entries' = <<>> PROVE OrderInv'
  BY <1>1 DEF OrderInv, InOrderWithinCall
<1>2. ASSUME UNCHANGED <<pc, deshredded_entries>>, remaining' \subseteq remaining
      PROVE  OrderInv'
  BY <1>2 DEF OrderInv, Visited, InOrderWithinCall
<1>3. CASE (\E b \in Batches : Receive(b)) \/ Return
  BY <1>1, <1>3 DEF Receive, Return
<1>4. CASE SkipPacket \/ DropShred \/ AcceptShred \/ UNCHANGED vars
  BY <1>2, <1>4 DEF SkipPacket, DropShred, AcceptShred, NextPacket, vars
<1>5. CASE StartRecovery \/ StartDeshredding
  BY <1>1, <1>5 DEF StartRecovery, StartDeshredding, OrderInv
<1>6. CASE \E p \in remaining : RecoverNothing(p) \/ RecoverSet(p) \/ DeshredNothing(p)
  BY <1>2, <1>6 DEF RecoverNothing, RecoverSet, DeshredNothing, NextSet
<1>7. CASE \E p \in remaining : DeshredSegment(p)
  BY <1>7, OrderGrows
<1> QED BY <1>3, <1>4, <1>5, <1>6, <1>7 DEF Next, Ingest, RecoverPhase, DeshredPhase

\* One call hands the entries of a slot, and the slots, over in ascending
\* order, for every set of touched FEC sets: what the sort is for.
THEOREM CallsInOrder == Spec => []InOrderWithinCall
<1> DEFINE Inv == TypeInv /\ FeedInv /\ OrderInv
<1>1. Init => Inv
  <2>1. ASSUME Init PROVE OrderInv
    <3>1. deshredded_entries = <<>> /\ Len(<<>>) = 0
      BY <2>1 DEF Init
    <3>2. 1 .. Len(deshredded_entries) = {}
      BY <3>1
    <3> QED BY <3>1, <3>2 DEF OrderInv, InOrderWithinCall
  <2> QED BY <2>1, InitTypeInv, InitFeedInv
<1>2. Inv /\ [Next]_vars => Inv'
  <2> SUFFICES ASSUME Inv, [Next]_vars PROVE Inv'
    OBVIOUS
  <2>1. TypeInv' /\ FeedInv'
    BY NextTypeInv, NextFeedInv
  <2>2. AtMostOnce'
    BY <2>1 DEF FeedInv
  <2> QED BY <2>1, <2>2, OrderStep
<1>3. Inv => InOrderWithinCall
  BY DEF OrderInv
<1> QED BY <1>1, <1>2, <1>3, PTL DEF Spec

-----------------------------------------------------------------------------
(* No batch is stranded *)

\* The sets of shreds are finite, and a part of one with as many shreds is all
\* of it.
LEMMA PartOfSet ==
    ASSUME NEW S \in SUBSET Shred, NEW T \in SUBSET S
    PROVE  /\ IsFiniteSet(S) /\ Cardinality(S) \in Nat /\ Cardinality(T) \in Nat
           /\ Cardinality(T) <= Cardinality(S)
           /\ Cardinality(T) = Cardinality(S) => T = S
<1>1. IsFiniteSet(S)
  BY ShredAssumption, FS_Subset
<1>2. IsFiniteSet(T)
  BY <1>1, FS_Subset
<1> QED BY <1>1, <1>2, FS_Subset, FS_CardinalityType

\* What the recovery map holds of a set that is not marked, and the number of
\* data shreds its coding shreds tell.
LEMMA HeldForRecovery ==
    ASSUME RegularBlocks, TypeInv, NEW s \in Slot, NEW f \in Idx, SlotOK(s),
           f \notin already_recovered_fec_sets[s]
    PROVE  /\ fec_shreds[s][f] = seen \cap SetOf(s, f)
           /\ fec_shreds[s][f] \in SUBSET SetOf(s, f)
           /\ \A x \in fec_shreds[s][f] :
                 /\ ErasureSet(x) = SetOf(s, f)
                 /\ num_data_shreds(x) = Cardinality(DataOf(SetOf(s, f)))
           /\ DataOf(SetOf(s, f)) \subseteq fec_shreds[s][f] <=> Full(s, f)
<1> DEFINE S == fec_shreds[s][f]
<1>1. S = seen \cap SetOf(s, f) /\ \A x \in DataOf(SetOf(s, f)) : Held(x) <=> x \in seen
  BY DEF SlotOK, SetsKept
<1>2. ASSUME NEW x \in S
      PROVE  ErasureSet(x) = SetOf(s, f)
  <2>1. x \in Shred /\ x.slot = s /\ x.fec_set_index = f
    BY <1>1 DEF SetOf
  <2> QED BY <2>1, SetIsErasureSet
<1>3. \A x \in S : num_data_shreds(x) = Cardinality(DataOf(SetOf(s, f)))
  BY <1>2 DEF num_data_shreds
<1>4. DataOf(SetOf(s, f)) \subseteq S <=> Full(s, f)
  BY <1>1 DEF Full, DataOf
<1> QED BY <1>1, <1>2, <1>3, <1>4

\* When recovery passes a set by although enough of it has arrived, its data
\* shreds are all there.
LEMMA NothingToRecover ==
    ASSUME RegularBlocks, TypeInv, NEW p \in remaining, RecoverNothing(p),
           SlotOK(p[1]), EnoughOf(p[1], p[2])
    PROVE  Full(p[1], p[2])
<1> DEFINE s == p[1]
           f == p[2]
           S == fec_shreds[s][f]
           D == DataOf(SetOf(s, f))
<1>1. s \in Slot /\ f \in Idx
  BY RemainingPairs
<1>2. CASE f \in already_recovered_fec_sets[s]
  BY <1>2 DEF SlotOK, SetsKept
<1>3. CASE f \notin already_recovered_fec_sets[s]
  <2>1. /\ S = seen \cap SetOf(s, f) /\ S \in SUBSET SetOf(s, f)
        /\ \A x \in S : ErasureSet(x) = SetOf(s, f) /\ num_data_shreds(x) = Cardinality(D)
        /\ D \subseteq S => Full(s, f)
    BY Zenon, <1>1, <1>3, HeldForRecovery
  <2>2. Cardinality(S) >= Cardinality(D)
    BY <2>1 DEF EnoughOf
  <2>3. PICK expected \in ExpectedDataShreds(S) :
           ~EnoughShreds(S, expected) \/ ~RecoverySucceeds(S)
    BY Zenon DEF RecoverNothing
  <2>4. D \in SUBSET Shred /\ S \in SUBSET Shred /\ DataOf(S) \in SUBSET D
    BY <2>1 DEF DataOf, SetOf
  <2> HIDE DEF S, s, f, D
  <2>5. /\ Cardinality(D) \in Nat /\ Cardinality(S) \in Nat
        /\ Cardinality(D) = 0 => D = {}
        /\ Cardinality(DataOf(S)) = Cardinality(D) => DataOf(S) = D
    BY <2>4, PartOfSet, FS_EmptySet
  <2>6. CASE CodeOf(S) = {}
    <3>1. S \in SUBSET D
      BY <2>4, <2>6, ShredFields DEF CodeOf, DataOf
    <3>2. Cardinality(S) = Cardinality(D)
      BY <2>2, <2>4, <2>5, <3>1, PartOfSet
    <3>3. S = D
      BY <2>4, <3>1, <3>2, PartOfSet
    <3> QED BY <2>1, <3>3 DEF s, f
  <2>7. CASE CodeOf(S) # {}
    <3>1. expected = Cardinality(D)
      BY <2>1, <2>3, <2>7 DEF ExpectedDataShreds, CodeOf
    <3>2. RecoverySucceeds(S)
      <4>1. \A x, y \in S : x.set = y.set
        <5>1. \A x, y \in S : y \in ErasureSet(x)
          BY <2>1
        <5> QED BY <5>1 DEF ErasureSet
      <4> QED BY <2>1, <2>2, <2>7, <4>1 DEF RecoverySucceeds
    <3>3. D = {} \/ DataOf(S) = D
      BY <2>2, <2>3, <2>5, <3>1, <3>2 DEF EnoughShreds
    <3>4. D \subseteq S
      BY <3>3 DEF DataOf
    <3> QED BY <2>1, <3>4 DEF s, f
  <2> QED BY <2>6, <2>7
<1> QED BY <1>2, <1>3

\* Recovery of a set brings in all the data shreds that were missing, and some
\* were, if the set is not marked; otherwise it brings in nothing.
LEMMA RecoveryFills ==
    ASSUME RegularBlocks, TypeInv, NEW p \in remaining, RecoverSet(p), SlotOK(p[1])
    PROVE  LET S == fec_shreds[p[1]][p[2]] IN
           IF p[2] \in already_recovered_fec_sets[p[1]] THEN Recovered(S) = {}
           ELSE /\ Recovered(S) # {}
                /\ \A x \in DataOf(SetOf(p[1], p[2])) : Held(x) \/ x \in Recovered(S)
<1> DEFINE s == p[1]
           f == p[2]
           S == fec_shreds[s][f]
           D == DataOf(SetOf(s, f))
<1>1. s \in Slot /\ f \in Idx
  BY RemainingPairs
<1>2. CASE f \in already_recovered_fec_sets[s]
  <2>1. \A x \in Recovered(S) : x.slot = s /\ x.fec_set_index = f /\ IsNewShred(x)
    BY <1>1, RecoveredFacts
  <2> QED BY <1>2, <2>1 DEF IsNewShred
<1>3. CASE f \notin already_recovered_fec_sets[s]
  <2>1. /\ S = seen \cap SetOf(s, f) /\ S \in SUBSET SetOf(s, f)
        /\ \A x \in S : ErasureSet(x) = SetOf(s, f) /\ num_data_shreds(x) = Cardinality(D)
        /\ D \subseteq S <=> Full(s, f)
    BY Zenon, <1>1, <1>3, HeldForRecovery
  <2>2. PICK expected \in ExpectedDataShreds(S) : EnoughShreds(S, expected)
    BY DEF RecoverSet
  <2>3. CodeOf(S) # {}
    BY DEF RecoverSet, RecoverySucceeds
  <2>4. D \in SUBSET Shred /\ DataOf(S) \in SUBSET D /\ D \in SUBSET SetOf(s, f)
    BY <2>1 DEF DataOf, SetOf
  <2>5. ASSUME NEW x \in D, x \notin S PROVE x \in Recovered(S)
    <3>1. x \in Shred /\ x.slot = s /\ x.fec_set_index = f /\ x.type = "Data"
      BY <2>5 DEF DataOf, SetOf
    <3>2. x \in Recover(S)
      <4>1. PICK y \in S : TRUE
        BY <2>3 DEF CodeOf
      <4>2. x \in ErasureSet(y)
        BY Zenon, <2>1, <2>4, <4>1
      <4> QED BY <2>5, <4>1, <4>2 DEF Recover
    <3>3. x \notin BadRecovery
      BY Zenon, <3>1 DEF RegularBlocks, DataOf
    <3>4. ~Held(x)
      BY Zenon, <1>1, <1>3, <2>1, <2>4, <2>5 DEF SlotOK, SetsKept
    <3>5. IsNewShred(x)
      <4>1. x.index \in Idx
        BY <3>1, ShredFields
      <4>2. data_shreds[s][x.index] = None
        BY <3>1, <3>4 DEF Held
      <4>3. data_status[s][x.index] = "Unknown"
        BY Zenon, <1>1, <4>1, <4>2 DEF TypeInv, TrackerConsistent
      <4> QED BY <1>3, <3>1, <4>2, <4>3 DEF IsNewShred
    <3> QED BY Zenon, <3>2, <3>3, <3>5 DEF Recovered
  <2>6. \A x \in D : x \in S => Held(x)
    BY Zenon, <1>1, <1>3, <2>1 DEF SlotOK, SetsKept
  <2>7. \E x \in D : x \notin S
    <3>1. expected = Cardinality(D)
      BY Zenon, <2>1, <2>2, <2>3 DEF ExpectedDataShreds, CodeOf
    <3>2. DataOf(S) # D
      BY <2>2, <3>1 DEF EnoughShreds
    <3> QED BY <2>4, <3>2 DEF DataOf
  <2> QED BY <1>3, <2>5, <2>6, <2>7
<1> QED BY Zenon, <1>2, <1>3

\* Recovery of a set that is not marked: it is full and marked afterwards, and
\* what has become complete by it is still to be visited for deshredding.
LEMMA RecoverKeeps ==
    ASSUME RegularBlocks, TypeInv, NEW p \in remaining, RecoverSet(p), SlotOK(p[1]),
           p[2] \notin already_recovered_fec_sets[p[1]]
    PROVE  SlotOK(p[1])'
<1> DEFINE s == p[1]
           f0 == p[2]
           S == fec_shreds[s][f0]
           X == Recovered(S)
           R == already_recovered_fec_sets[s]
<1>1. s \in Slot /\ f0 \in Idx /\ p = <<s, f0>> /\ f0 \notin R
  BY RemainingPairs
<1>2. X # {} /\ \A x \in DataOf(SetOf(s, f0)) : Held(x) \/ x \in X
  BY <1>1, RecoveryFills
<1>3. X \in SUBSET Shred /\ \A x \in X : x.slot = s /\ x.fec_set_index = f0
  BY <1>1, RecoveredFacts
<1>4. Store(s, X)
  BY DEF RecoverSet
<1>5. /\ already_recovered_fec_sets' = [already_recovered_fec_sets EXCEPT ![s] = R \cup {f0}]
      /\ fec_shreds' = [fec_shreds EXCEPT ![s] = [fec_shreds[s] EXCEPT ![f0] = {}]]
  <2>1. /\ already_recovered_fec_sets' = [already_recovered_fec_sets EXCEPT ![s] = @ \cup {f0}]
        /\ fec_shreds' = [fec_shreds EXCEPT ![s][f0] = {}]
    BY <1>2 DEF RecoverSet
  <2> HIDE DEF X, s, f0
  <2> QED BY <2>1 DEF TypeInv, TypeOK
<1>6. /\ pc = "recover" /\ pc' = "recover" /\ seen' = seen
      /\ remaining' = remaining \ {p} /\ p \in slot_fec_indexes_to_iterate
      /\ slot_fec_indexes_to_iterate' = slot_fec_indexes_to_iterate
      /\ already_deshredded' = already_deshredded /\ Feed' = Feed
  BY DEF RecoverSet, NextSet, TypeInv, TypeOK, Feed
<1> HIDE DEF X, S
<1>7. \A y \in DataOf(Shred) : y.slot = s => (Held(y)' <=> Held(y) \/ y \in X)
  BY <1>1, <1>3, <1>4, StoreFills
<1>8. /\ already_recovered_fec_sets'[s] = R \cup {f0}
      /\ \A f \in Idx \ {f0} : fec_shreds'[s][f] = fec_shreds[s][f]
  <2> HIDE DEF s, f0
  <2> QED BY <1>1, <1>5 DEF TypeInv, TypeOK
<1> HIDE DEF f0, s
<1>9. \A f : Full(s, f) => Full(s, f)'
  BY <1>7 DEF Full, DataOf, SetOf
<1>10. Full(s, f0)'
  BY <1>2, <1>7 DEF Full, DataOf, SetOf
<1>0. SlotOK(s)
  BY DEF s
<1>11. SetsKept(s)'
  <2>1. ASSUME NEW f \in Idx, f \notin R \cup {f0}
        PROVE  /\ fec_shreds'[s][f] = seen' \cap SetOf(s, f)
               /\ \A x \in DataOf(SetOf(s, f)) : Held(x)' <=> x \in seen'
    <3>1. /\ fec_shreds[s][f] = seen \cap SetOf(s, f)
          /\ \A x \in DataOf(SetOf(s, f)) : Held(x) <=> x \in seen
      BY Zenon, <1>0, <2>1 DEF SlotOK, SetsKept
    <3>2. \A x \in DataOf(SetOf(s, f)) : Held(x)' <=> Held(x)
      BY Zenon, <1>3, <1>7, <2>1 DEF DataOf, SetOf
    <3> QED BY <1>6, <1>8, <2>1, <3>1, <3>2
  <2>2. \A f \in R : Full(s, f)'
    BY Zenon, <1>0, <1>9 DEF SlotOK, SetsKept
  <2> QED BY <1>8, <1>10, <2>1, <2>2 DEF SetsKept
<1>12. MarksTell(s)'
  BY <1>0, <1>6, <1>8 DEF SlotOK, MarksTell, Decoded
<1>13. SetsRecovered(s)'
  <2> SUFFICES ASSUME NEW f \in Idx, EnoughOf(s, f)', f # f0
               PROVE  Full(s, f)' \/ <<s, f>> \in ToRecover'
    BY <1>10 DEF SetsRecovered
  <2>1. Full(s, f) \/ <<s, f>> \in ToRecover
    BY Zenon, <1>0, <1>6 DEF EnoughOf, SlotOK, SetsRecovered
  <2>2. <<s, f>> \in ToRecover => <<s, f>> \in ToRecover'
    BY Zenon, <1>1, <1>6 DEF ToRecover
  <2> QED BY <1>9, <2>1, <2>2
<1>14. BatchesDecoded(s)'
  <2> SUFFICES ASSUME NEW r \in EntryBatches(s), BatchHeld(s, r)'
               PROVE  Decoded(s, r)' \/ BatchTouched(s, r)'
    BY DEF BatchesDecoded
  <2>1. ToDeshred' = ToDeshred /\ <<s, f0>> \in ToDeshred'
    BY <1>1, <1>6 DEF ToDeshred
  <2>2. CASE BatchHeld(s, r)
    BY Zenon, <1>0, <1>6, <2>1, <2>2 DEF SlotOK, BatchesDecoded, Decoded, BatchTouched
  <2>3. CASE ~BatchHeld(s, r)
    <3>1. PICK x \in DataIn(s, r[1], r[2]) : x \in X
      BY <1>7, <2>3 DEF BatchHeld, DataIn
    <3> QED BY <1>3, <2>1, <3>1 DEF BatchTouched
  <2> QED BY <2>2, <2>3
<1>15. SlotOK(s)'
  BY <1>11, <1>12, <1>13, <1>14 DEF SlotOK
<1> QED BY <1>15 DEF s

\* get_indexes combines the start and the end it finds.
LEMMA SegmentFound ==
    ASSUME NEW status, NEW deshredded, NEW index,
           NEW a \in SegmentStarts(status, deshredded, index),
           NEW b \in SegmentEnds(status, deshredded, index)
    PROVE  \E seg \in get_indexes(status, deshredded, index) :
              seg.start = a /\ seg.end = b
<1> DEFINE seg == [start |-> a, end |-> b,
                   unknown_start |-> a > 0 /\ status[a - 1] = "Unknown"]
<1>1. seg \in get_indexes(status, deshredded, index)
  BY DEF get_indexes
<1>2. seg.start = a /\ seg.end = b
  OBVIOUS
<1> HIDE DEF seg
<1> QED BY <1>1, <1>2

\* At an index of known status a data shred of that slot and index is held.
LEMMA KnownPlace ==
    ASSUME TypeInv, DataHeld, NEW s \in Slot, NEW i \in Idx, data_status[s][i] # "Unknown"
    PROVE  /\ data_shreds[s][i] \in DataOf(Shred)
           /\ data_shreds[s][i].slot = s /\ data_shreds[s][i].index = i
<1> DEFINE x == data_shreds[s][i]
<1>1. x # None /\ x.slot = s /\ x.index = i
  BY DEF TypeInv, TrackerConsistent
<1>2. x \in Shred \cup {None}
  BY DEF TypeInv, TypeOK
<1>3. x.type = "Data"
  BY <1>1 DEF DataHeld
<1> HIDE DEF x
<1>4. x \in DataOf(Shred)
  BY <1>1, <1>2, <1>3 DEF DataOf
<1> QED BY <1>1, <1>4 DEF x

\* A batch that is there and not decoded is what get_indexes finds from any of
\* its indexes, and it decodes.
LEMMA HeldBatchFound ==
    ASSUME RegularBlocks, TypeInv, DataHeld, NEW s \in Slot, SlotOK(s),
           NEW r \in EntryBatches(s), BatchHeld(s, r), ~Decoded(s, r),
           NEW f \in Idx, f \in r[1] .. r[2]
    PROVE  \E seg \in Segment(<<s, f>>) : ShredsIn(s, seg) \in Decodable
<1> DEFINE st == data_status[s]
           de == already_deshredded[s]
<1>1. /\ r = <<r[1], r[2]>> /\ r[1] \in Idx /\ r[2] \in Idx
      /\ r[1] \in Nat /\ r[2] \in Nat /\ r[1] <= r[2] /\ EndsBatch(s, r[2])
      /\ \A i \in r[1] .. r[2] - 1 : ~EndsBatch(s, i)
      /\ r[1] > 0 => EndsBatch(s, r[1] - 1)
      /\ \A i \in r[1] .. r[2] : i \in Idx
  BY BatchFacts
<1>2. \A i \in r[1] .. r[2] : i \notin de
  BY <1>1 DEF SlotOK, MarksTell
<1>3. ASSUME NEW i \in r[1] .. r[2]
      PROVE  /\ data_shreds[s][i] \in DataIn(s, r[1], r[2]) /\ data_shreds[s][i].index = i
             /\ st[i] = IF i = r[2] THEN "DataComplete" ELSE "NotDataComplete"
  <2>1. PICK x \in DataIn(s, r[1], r[2]) : x.index = i
    BY BatchHasShreds
  <2>2. x \in DataOf(Shred) /\ x.slot = s /\ Held(x)
    BY DEF DataIn, BatchHeld
  <2>3. data_shreds[s][i] = x
    BY <2>1, <2>2, HeldIsIt
  <2>4. st[i] \in ShredStatus /\ st[i] # "Unknown"
    <3>1. i \in Idx /\ data_shreds[s][i] # None
      BY <1>1, <2>1, <2>2 DEF Held
    <3>2. st[i] = StatusOf(data_shreds[s][i])
      BY <3>1 DEF TypeInv, TrackerConsistent
    <3> QED BY <3>2 DEF StatusOf, ShredStatus
  <2>5. EndsBatch(s, i) <=> i = r[2]
    BY <1>1
  <2>6. /\ st[i] = "DataComplete" => EndsBatch(s, i)
        /\ st[i] = "NotDataComplete" => ~EndsBatch(s, i)
    BY <1>1, StatusTells, RegularFlags
  <2> QED BY <2>1, <2>3, <2>4, <2>5, <2>6 DEF ShredStatus
<1>4. DOMAIN st = Idx
  BY DEF TypeInv, TypeOK
<1>5. r[2] \in SegmentEnds(st, de, f)
  BY <1>1, <1>2, <1>3, <1>4 DEF SegmentEnds
<1>6. r[1] \in SegmentStarts(st, de, f)
  <2>1. r[1] > 0 => r[1] - 1 \in Idx
    BY <1>1, ShredAssumption DEF Idx
  <2>2. r[1] > 0 => st[r[1] - 1] # "NotDataComplete"
    BY <1>1, <2>1, StatusTells, RegularFlags
  <2>3. \A i \in r[1] .. f - 1 : i \in r[1] .. r[2] /\ i # r[2]
    BY <1>1, IdxAreNaturals
  <2>4. \A i \in r[1] .. f - 1 : st[i] = "NotDataComplete" /\ i \notin de
    BY Zenon, <1>2, <1>3, <2>3
  <2>5. r[1] \in DOMAIN st /\ r[1] <= f
    BY <1>1, <1>4
  <2> HIDE DEF st, de
  <2> QED BY <2>2, <2>4, <2>5 DEF SegmentStarts
<1>7. PICK seg \in get_indexes(st, de, f) : seg.start = r[1] /\ seg.end = r[2]
  BY <1>5, <1>6, SegmentFound
<1>8. ShredsIn(s, seg) = DataIn(s, r[1], r[2])
  <2>1. ASSUME NEW x \in DataIn(s, r[1], r[2]) PROVE x \in ShredsIn(s, seg)
    <3>1. x \in DataOf(Shred) /\ x.slot = s /\ x.index \in r[1] .. r[2] /\ Held(x)
      BY Zenon DEF DataIn, BatchHeld
    <3>2. x = data_shreds[s][x.index]
      BY Zenon, <3>1, HeldIsIt
    <3> QED BY <1>7, <3>1, <3>2 DEF ShredsIn
  <2>2. ASSUME NEW x \in ShredsIn(s, seg) PROVE x \in DataIn(s, r[1], r[2])
    <3>1. PICK i \in r[1] .. r[2] : x = data_shreds[s][i]
      BY <1>7 DEF ShredsIn
    <3> QED BY Zenon, <1>3, <3>1
  <2> QED BY Zenon, <2>1, <2>2
<1>9. DataIn(s, r[1], r[2]) \in Decodable
  BY <1>1 DEF RegularBlocks
<1> QED BY <1>7, <1>8, <1>9 DEF Segment

\* A segment that decodes is a whole batch, and its shreds are the batch's.
LEMMA SegmentIsBatch ==
    ASSUME RegularBlocks, TypeInv, DataHeld, NEW s \in Slot, NEW f \in Idx,
           NEW seg \in Segment(<<s, f>>), ShredsIn(s, seg) \in Decodable
    PROVE  /\ <<seg.start, seg.end>> \in EntryBatches(s)
           /\ f \in seg.start .. seg.end
           /\ ShredsIn(s, seg) = DataIn(s, seg.start, seg.end)
           /\ \A x \in DataIn(s, seg.start, seg.end) : Held(x)
<1> DEFINE a == seg.start
           b == seg.end
<1>1. IsSegment(data_status[s], already_deshredded[s], f, seg)
  <2>1. /\ data_status[s] \in [Idx -> ShredStatus]
        /\ already_deshredded[s] \in SUBSET Idx
        /\ seg \in get_indexes(data_status[s], already_deshredded[s], f)
    BY DEF TypeInv, TypeOK, Segment
  <2> QED BY Zenon, <2>1, SegmentFacts
<1>2. /\ a \in Idx /\ b \in Idx /\ a \in Nat /\ b \in Nat /\ a <= b /\ f \in a .. b
      /\ data_status[s][b] = "DataComplete"
      /\ \A i \in a .. b : i \in Idx /\ data_status[s][i] # "Unknown"
      /\ \A i \in a .. b - 1 : i \in a .. b /\ data_status[s][i] = "NotDataComplete"
  <2>1. /\ a \in Idx /\ b \in Idx /\ a <= f /\ f <= b
        /\ data_status[s][b] = "DataComplete"
        /\ \A i \in a .. b : i \in Idx /\ data_status[s][i] # "Unknown"
        /\ \A i \in a .. b - 1 : data_status[s][i] = "NotDataComplete"
    BY <1>1 DEF IsSegment
  <2> HIDE DEF a, b
  <2>2. a \in Nat /\ b \in Nat /\ f \in Nat
    BY <2>1, IdxAreNaturals
  <2>3. a <= b /\ f \in a .. b /\ \A i \in a .. b - 1 : i \in a .. b
    BY ONLY <2>1, <2>2
  <2> QED BY <2>1, <2>2, <2>3
<1> HIDE DEF a, b
<1>3. EndsBatch(s, b) /\ \A i \in a .. b - 1 : ~EndsBatch(s, i)
  BY <1>2, StatusTells, RegularFlags
<1>4. ASSUME NEW i \in a .. b
      PROVE  data_shreds[s][i] \in DataIn(s, a, b)
  <2>1. /\ data_shreds[s][i] \in DataOf(Shred)
        /\ data_shreds[s][i].slot = s /\ data_shreds[s][i].index = i
    BY <1>2, KnownPlace
  <2> QED BY <2>1 DEF DataIn
<1>5. ASSUME NEW x \in DataIn(s, a, b)
      PROVE  Held(x) /\ x = data_shreds[s][x.index] /\ x.index \in a .. b
  <2>1. x \in DataOf(Shred) /\ x.slot = s /\ x.index \in a .. b
    BY DEF DataIn
  <2>2. Held(x)
    <3>1. data_shreds[s][x.index] \in DataOf(Shred)
      BY <1>2, <2>1, KnownPlace
    <3> QED BY <2>1, <3>1, ShredAssumption DEF Held, DataOf
  <2> QED BY <2>1, <2>2, HeldIsIt
<1>6. ShredsIn(s, seg) = DataIn(s, a, b)
  BY <1>4, <1>5 DEF ShredsIn, a, b
<1>7. <<a, b>> \in EntryBatches(s)
  BY Zenon, <1>2, <1>3, <1>6 DEF RegularBlocks
<1> QED BY <1>2, <1>5, <1>6, <1>7 DEF a, b

\* Decoding a segment: its batch is decoded, and the sets marked are full.
LEMMA DeshredKeeps ==
    ASSUME RegularBlocks, TypeInv, DataHeld, NEW p \in remaining, DeshredSegment(p),
           SlotOK(p[1]), [Next]_vars
    PROVE  SlotOK(p[1])'
<1> DEFINE s == p[1]
           R == already_recovered_fec_sets[s]
<1>1. s \in Slot /\ p[2] \in Idx /\ p = <<s, p[2]>> /\ p[2] \in Nat /\ SlotOK(s)
  BY RemainingPairs
<1>2. PICK seg \in Segment(p) :
        /\ ShredsIn(s, seg) \in Decodable
        /\ deshredded_entries' = Append(deshredded_entries,
              [slot |-> s, start |-> seg.start, end |-> seg.end,
               unknown_start |-> seg.unknown_start])
        /\ MarkDeshredded(s, ShredsIn(s, seg))
  BY DEF DeshredSegment
<1> DEFINE q == <<seg.start, seg.end>>
           X == DataIn(s, q[1], q[2])
<1>3. /\ q \in EntryBatches(s) /\ p[2] \in q[1] .. q[2] /\ ShredsIn(s, seg) = X
      /\ \A x \in X : Held(x)
  BY <1>1, <1>2, SegmentIsBatch
<1>4. {x.index : x \in X} = q[1] .. q[2]
  <2>1. seg \in Segment(<<s, p[2]>>)
    BY <1>1
  <2> QED BY <1>1, <1>3, <2>1, SegmentShreds
<1>5. /\ already_recovered_fec_sets'[s] = R \cup {x.fec_set_index : x \in X}
      /\ already_deshredded'[s] = already_deshredded[s] \cup (q[1] .. q[2])
  BY Zenon, <1>1, <1>2, <1>3, <1>4 DEF MarkDeshredded, TypeInv, TypeOK
<1>6. /\ pc = "deshred" /\ pc' = "deshred" /\ remaining' = remaining \ {p}
      /\ seen' = seen /\ fec_shreds' = fec_shreds /\ data_shreds' = data_shreds
      /\ sent' = sent
  BY DEF DeshredSegment, NextSet
<1>7. Decoded(s, q)'
  <2> DEFINE e == [slot |-> s, start |-> seg.start, end |-> seg.end,
                   unknown_start |-> seg.unknown_start]
  <2>1. e.slot = s /\ e.start = q[1] /\ e.end = q[2]
    BY Zenon
  <2>2. deshredded_entries' = Append(deshredded_entries, e)
    BY <1>2
  <2>3. Feed' = sent \o Append(deshredded_entries, e)
    BY <1>6, <2>2 DEF Feed
  <2> HIDE DEF e, q
  <2>4. sent \in Seq(Entry) /\ deshredded_entries \in Seq(Entry)
    BY DEF TypeInv, TypeOK
  <2>5. /\ Len(Feed') = Len(sent) + (Len(deshredded_entries) + 1)
        /\ Feed'[Len(Feed')] = e /\ Len(Feed') \in 1 .. Len(Feed')
    BY <2>3, <2>4
  <2> QED BY <2>1, <2>5 DEF Decoded
<1> HIDE DEF q, s
<1>8. \A r \in EntryBatches(s) : Decoded(s, r) => Decoded(s, r)'
  BY DecodedStays
<1>9. \A f : Full(s, f)' <=> Full(s, f)
  BY <1>6 DEF Full, Held
<1>10. SetsKept(s)'
  <2>1. ASSUME NEW x \in X PROVE Full(s, x.fec_set_index)
    <3>1. \A y \in DataOf(SetOf(s, x.fec_set_index)) : y \in X
      BY <1>3, SetInBatch
    <3> QED BY <1>3, <3>1 DEF Full
  <2>2. \A f \in R \cup {x.fec_set_index : x \in X} : Full(s, f)
    BY Zenon, <1>1, <2>1 DEF SlotOK, SetsKept
  <2>3. \A f \in Idx \ R : \A x \in DataOf(SetOf(s, f)) : Held(x)' <=> x \in seen'
    BY Zenon, <1>1, <1>6 DEF SlotOK, SetsKept, Held
  <2>4. \A f \in Idx \ R : fec_shreds'[s][f] = seen' \cap SetOf(s, f)
    BY Zenon, <1>1, <1>6 DEF SlotOK, SetsKept
  <2> HIDE DEF X
  <2> QED BY Zenon, <1>5, <1>9, <2>2, <2>3, <2>4 DEF SetsKept
<1>11. MarksTell(s)'
  <2>1. ASSUME NEW x \in DataOf(Shred), x.slot = s, x.index \in already_deshredded'[s]
        PROVE  x.fec_set_index \in already_recovered_fec_sets'[s]
    <3>1. CASE x.index \in already_deshredded[s]
      BY <1>1, <1>5, <2>1, <3>1 DEF SlotOK, MarksTell
    <3>2. CASE x.index \in q[1] .. q[2]
      <4>1. x \in X
        BY <2>1, <3>2 DEF DataIn
      <4> QED BY <1>5, <4>1
    <3> QED BY <1>5, <2>1, <3>1, <3>2
  <2>2. ASSUME NEW r \in EntryBatches(s), NEW i \in Idx, i \in r[1] .. r[2],
               i \in already_deshredded'[s]
        PROVE  Decoded(s, r)'
    <3>1. CASE i \in already_deshredded[s]
      BY <1>1, <1>8, <2>2, <3>1 DEF SlotOK, MarksTell
    <3>2. CASE i \in q[1] .. q[2]
      <4>1. /\ i \in Nat /\ q[1] \in Nat /\ q[2] \in Nat /\ r[1] \in Nat /\ r[2] \in Nat
        BY <1>3, BatchFacts, IdxAreNaturals
      <4>2. q[1] <= i /\ i <= q[2] /\ r[1] <= i /\ i <= r[2]
        BY ONLY <2>2, <3>2, <4>1
      <4>3. q = r
        BY <1>3, <4>1, <4>2, BatchUnique
      <4> QED BY <1>7, <4>3
    <3> QED BY <1>5, <2>2, <3>1, <3>2
  <2> QED BY Zenon, <2>1, <2>2 DEF MarksTell
<1>12. SetsRecovered(s)'
  <2>1. ToRecover = {} /\ ToRecover' = {}
    BY <1>6 DEF ToRecover
  <2> QED BY <1>1, <1>6, <1>9, <2>1 DEF SlotOK, SetsRecovered, EnoughOf
<1>13. BatchesDecoded(s)'
  <2> SUFFICES ASSUME NEW r \in EntryBatches(s), BatchHeld(s, r)'
               PROVE  Decoded(s, r)' \/ BatchTouched(s, r)'
    BY DEF BatchesDecoded
  <2>1. BatchHeld(s, r)
    BY Zenon, <1>6 DEF BatchHeld, Held
  <2>2. CASE Decoded(s, r)
    BY <1>8, <2>2
  <2>3. ASSUME NEW x \in DataIn(s, r[1], r[2]), <<s, x.fec_set_index>> \in ToDeshred
        PROVE  Decoded(s, r)' \/ BatchTouched(s, r)'
    <3>1. ToDeshred = remaining /\ ToDeshred' = remaining \ {p}
      BY <1>6 DEF ToDeshred
    <3>2. CASE <<s, x.fec_set_index>> # p
      BY <2>3, <3>1, <3>2 DEF BatchTouched
    <3>3. CASE <<s, x.fec_set_index>> = p
      <4>1. p[2] \in r[1] .. r[2]
        BY <1>1, <3>3, SetInBatch
      <4>2. q[1] \in Nat /\ q[2] \in Nat /\ r[1] \in Nat /\ r[2] \in Nat
        BY <1>3, BatchFacts
      <4>3. q[1] <= p[2] /\ p[2] <= q[2] /\ r[1] <= p[2] /\ p[2] <= r[2]
        BY <1>1, <1>3, <4>1, <4>2
      <4>4. q = r
        BY <1>1, <1>3, <4>3, BatchUnique
      <4> QED BY <1>7, <4>4
    <3> QED BY <3>2, <3>3
  <2> QED BY <1>1, <2>1, <2>2, <2>3 DEF SlotOK, BatchesDecoded, BatchTouched
<1>14. SlotOK(s)'
  BY <1>10, <1>11, <1>12, <1>13 DEF SlotOK
<1> QED BY <1>14 DEF s

\* A step that does nothing to slot s, and is not through with a set of it.
LEMMA SlotElsewhere ==
    ASSUME TypeInv, [Next]_vars, NEW s \in Slot, SlotOK(s),
           fec_shreds'[s] = fec_shreds[s], data_shreds'[s] = data_shreds[s],
           already_recovered_fec_sets'[s] = already_recovered_fec_sets[s],
           already_deshredded'[s] = already_deshredded[s],
           \A x \in Shred :
              x.slot = s /\ x.fec_set_index \notin already_recovered_fec_sets[s] =>
                 (x \in seen' <=> x \in seen),
           \A f : <<s, f>> \in ToRecover => <<s, f>> \in ToRecover',
           \A f : <<s, f>> \in ToDeshred => <<s, f>> \in ToDeshred'
    PROVE  SlotOK(s)'
<1>1. \A r \in EntryBatches(s) : Decoded(s, r) => Decoded(s, r)'
  BY Zenon, DecodedStays
<1>2. \A r \in EntryBatches(s) : BatchTouched(s, r) => BatchTouched(s, r)'
  BY Zenon DEF BatchTouched
<1> QED BY Zenon, <1>1, <1>2, SlotUntouched

\* Taking in packets.
LEMMA IngestStep ==
    ASSUME RegularBlocks, TypeInv, [Next]_vars, NEW s \in Slot, SlotOK(s),
           SkipPacket \/ DropShred \/ AcceptShred \/ StartRecovery, ~IsOld(s)
    PROVE  SlotOK(s)'
<1>1. CASE SkipPacket
  BY Zenon, <1>1, SlotElsewhere DEF SkipPacket, NextPacket, slotVars, ToRecover, ToDeshred
<1>2. CASE StartRecovery
  BY <1>2, SlotElsewhere DEF StartRecovery, slotVars, ToRecover, ToDeshred
<1>3. CASE DropShred
  <2> DEFINE x == Head(batch)
  <2>1. /\ x \in Shred /\ (IsOld(x.slot) \/ AlreadyCompleted(x) \/ ~IsNewShred(x))
        /\ seen' = IF IsOld(x.slot) THEN seen ELSE seen \cup {x}
    BY <1>3 DEF DropShred
  <2>2. UNCHANGED <<pc, remaining, slot_fec_indexes_to_iterate, fec_shreds, data_shreds,
                    already_recovered_fec_sets, already_deshredded>>
    BY <1>3 DEF DropShred, NextPacket
  <2> HIDE DEF x
  <2>3. ASSUME NEW y \in Shred, y.slot = s,
               y.fec_set_index \notin already_recovered_fec_sets[s]
        PROVE  y \in seen' <=> y \in seen
    <3>1. CASE y = x
      BY <2>1, <2>3, <3>1, DroppedIsKnown
    <3>2. CASE y # x
      BY <2>1, <3>2
    <3> QED BY <3>1, <3>2
  <2>4. ToRecover' = ToRecover /\ ToDeshred' = ToDeshred
    BY <2>2 DEF ToRecover, ToDeshred
  <2> QED BY Zenon, <2>2, <2>3, <2>4, SlotElsewhere
<1>4. CASE AcceptShred
  <2> DEFINE x == Head(batch)
  <2>1. x \in Shred /\ x.slot \in Slot
    BY <1>4, ShredFields DEF AcceptShred
  <2>2. CASE x.slot = s
    <3> HIDE DEF x
    <3>1. x = Head(batch)
      BY DEF x
    <3> QED BY <1>4, <2>1, <2>2, <3>1, AcceptKeeps
  <2>3. CASE x.slot # s
    <3>1. /\ Store(x.slot, {x}) /\ pc = "ingest" /\ pc' = "ingest"
          /\ already_recovered_fec_sets' = already_recovered_fec_sets
          /\ already_deshredded' = already_deshredded
          /\ seen' = seen \cup {x}
          /\ slot_fec_indexes_to_iterate \subseteq slot_fec_indexes_to_iterate'
      BY <1>4 DEF AcceptShred, NextPacket
    <3>2. fec_shreds'[s] = fec_shreds[s]
      BY Zenon, <1>4, <2>1, <2>3 DEF AcceptShred, TypeInv, TypeOK
    <3> HIDE DEF x
    <3>3. data_shreds'[s] = data_shreds[s]
      BY <2>1, <2>3, <3>1, StoreElsewhere DEF TypeInv
    <3>4. ToRecover \subseteq ToRecover' /\ ToDeshred \subseteq ToDeshred'
      BY <3>1 DEF ToRecover, ToDeshred
    <3>5. \A y \in Shred : y.slot = s => (y \in seen' <=> y \in seen)
      BY <2>3, <3>1
    <3> QED BY Zenon, <3>1, <3>2, <3>3, <3>4, <3>5, SlotElsewhere
  <2> QED BY Zenon, <2>2, <2>3
<1> QED BY <1>1, <1>2, <1>3, <1>4

\* The recovery loop.
LEMMA RecoverStep ==
    ASSUME RegularBlocks, TypeInv, [Next]_vars, NEW s \in Slot, SlotOK(s),
           NEW p \in remaining, RecoverNothing(p) \/ RecoverSet(p)
    PROVE  SlotOK(s)'
<1>1. /\ pc = "recover" /\ pc' = "recover" /\ seen' = seen
      /\ remaining' = remaining \ {p}
      /\ slot_fec_indexes_to_iterate' = slot_fec_indexes_to_iterate
      /\ already_deshredded' = already_deshredded
  BY DEF RecoverNothing, RecoverSet, NextSet
<1>2. p[1] \in Slot /\ p[2] \in Idx /\ p = <<p[1], p[2]>>
  BY RemainingPairs
<1>3. ToRecover' = ToRecover \ {p} /\ ToDeshred' = ToDeshred
  BY <1>1 DEF ToRecover, ToDeshred
<1>4. \A r \in EntryBatches(s) : /\ Decoded(s, r) => Decoded(s, r)'
                                 /\ BatchTouched(s, r) => BatchTouched(s, r)'
  BY <1>3, DecodedStays DEF BatchTouched
<1>5. CASE RecoverNothing(p)
  <2>1. UNCHANGED <<fec_shreds, data_shreds, already_recovered_fec_sets>>
    BY Zenon, <1>5 DEF RecoverNothing
  <2>2. ASSUME NEW f \in Idx, <<s, f>> \in ToRecover, EnoughOf(s, f)
        PROVE  Full(s, f) \/ <<s, f>> \in ToRecover'
    <3>1. CASE <<s, f>> = p
      BY <1>5, <2>2, <3>1, NothingToRecover
    <3>2. CASE <<s, f>> # p
      BY <1>3, <2>2, <3>2
    <3> QED BY <3>1, <3>2
  <2> QED BY Zenon, <1>1, <1>4, <2>1, <2>2, SlotUntouched
<1>6. CASE RecoverSet(p) /\ p[1] = s /\ p[2] \notin already_recovered_fec_sets[s]
  BY <1>6, RecoverKeeps
<1>7. CASE RecoverSet(p) /\ p[1] = s /\ p[2] \in already_recovered_fec_sets[s]
  <2>1. Recovered(fec_shreds[p[1]][p[2]]) = {}
    BY Zenon, <1>7, RecoveryFills
  <2>2. Store(s, {}) /\ UNCHANGED <<fec_shreds, already_recovered_fec_sets>>
    BY <1>7, <2>1 DEF RecoverSet
  <2>3. \A i \in Idx : data_shreds'[s][i] = data_shreds[s][i]
    BY <2>2, StoreNothing DEF TypeInv
  <2>4. \A f \in Idx : <<s, f>> \in ToRecover => Full(s, f) \/ <<s, f>> \in ToRecover'
    <3>1. Full(s, p[2])
      BY Zenon, <1>7 DEF SlotOK, SetsKept
    <3>2. \A f : <<s, f>> = p => f = p[2]
      BY <1>2
    <3> QED BY <1>3, <3>1, <3>2
  <2> QED BY Zenon, <1>1, <1>4, <2>2, <2>3, <2>4, SlotUntouched
<1>8. CASE RecoverSet(p) /\ p[1] # s
  <2>1. Store(p[1], Recovered(fec_shreds[p[1]][p[2]]))
    BY Zenon, <1>8 DEF RecoverSet
  <2>2. data_shreds'[s] = data_shreds[s]
    BY <1>2, <1>8, <2>1, StoreElsewhere DEF TypeInv
  <2>3. /\ fec_shreds'[s] = fec_shreds[s]
        /\ already_recovered_fec_sets'[s] = already_recovered_fec_sets[s]
    BY Zenon, <1>2, <1>8 DEF RecoverSet, TypeInv, TypeOK
  <2>4. \A f : <<s, f>> # p
    BY <1>8
  <2> QED BY Zenon, <1>1, <1>3, <2>2, <2>3, <2>4, SlotElsewhere
<1> QED BY <1>5, <1>6, <1>7, <1>8

\* The deshredding loop.
LEMMA DeshredStep ==
    ASSUME RegularBlocks, TypeInv, DataHeld, [Next]_vars, NEW s \in Slot, SlotOK(s),
           NEW p \in remaining, DeshredNothing(p) \/ DeshredSegment(p)
    PROVE  SlotOK(s)'
<1>1. /\ pc = "deshred" /\ pc' = "deshred" /\ seen' = seen
      /\ remaining' = remaining \ {p}
      /\ data_shreds' = data_shreds /\ fec_shreds' = fec_shreds
  BY DEF DeshredNothing, DeshredSegment, NextSet
<1>2. p[1] \in Slot /\ p[2] \in Idx /\ p = <<p[1], p[2]>>
  BY RemainingPairs
<1>3. ToRecover = {} /\ ToRecover' = {} /\ ToDeshred = remaining
      /\ ToDeshred' = remaining \ {p}
  BY <1>1 DEF ToRecover, ToDeshred
<1>4. CASE DeshredNothing(p)
  <2>1. UNCHANGED <<already_recovered_fec_sets, already_deshredded>>
    BY <1>4 DEF DeshredNothing
  <2>2. ASSUME NEW r \in EntryBatches(s), BatchHeld(s, r), BatchTouched(s, r)
        PROVE  Decoded(s, r) \/ BatchTouched(s, r)'
    <3>1. PICK x \in DataIn(s, r[1], r[2]) : <<s, x.fec_set_index>> \in remaining
      BY <1>3, <2>2 DEF BatchTouched
    <3>2. CASE <<s, x.fec_set_index>> # p
      BY <1>3, <3>1, <3>2 DEF BatchTouched
    <3>3. CASE <<s, x.fec_set_index>> = p
      <4>1. s = p[1] /\ p[2] \in r[1] .. r[2]
        BY <1>2, <3>3, SetInBatch
      <4>2. \A seg \in Segment(<<s, p[2]>>) : ShredsIn(s, seg) \notin Decodable
        BY <1>2, <1>4, <4>1 DEF DeshredNothing
      <4> QED BY <1>2, <2>2, <4>1, <4>2, HeldBatchFound
    <3> QED BY <3>2, <3>3
  <2>3. \A r \in EntryBatches(s) : Decoded(s, r) => Decoded(s, r)'
    BY DecodedStays
  <2> QED BY Zenon, <1>1, <1>3, <2>1, <2>2, <2>3, SlotUntouched
<1>5. CASE DeshredSegment(p) /\ p[1] = s
  BY <1>5, DeshredKeeps
<1>6. CASE DeshredSegment(p) /\ p[1] # s
  <2>1. /\ already_recovered_fec_sets'[s] = already_recovered_fec_sets[s]
        /\ already_deshredded'[s] = already_deshredded[s]
    BY Zenon, <1>2, <1>6 DEF DeshredSegment, MarkDeshredded, TypeInv, TypeOK
  <2>2. \A f : <<s, f>> # p
    BY <1>6
  <2> QED BY Zenon, <1>1, <1>3, <2>1, <2>2, SlotElsewhere
<1> QED BY <1>4, <1>5, <1>6

\* Every step keeps the invariant of every slot that is not old after it.
LEMMA BatchStep ==
    ASSUME RegularBlocks, TypeInv, TypeInv', DataHeld, BatchInv, [Next]_vars
    PROVE  BatchInv'
<1> SUFFICES ASSUME NEW s \in Slot, ~IsOld(s)' PROVE SlotOK(s)'
  BY DEF BatchInv
<1>1. ~IsOld(s) /\ SlotOK(s)
  BY YoungStays DEF BatchInv
<1>2. ASSUME NEW b \in Batches, Receive(b) PROVE SlotOK(s)'
  BY Zenon, <1>1, <1>2, SlotElsewhere DEF Receive, slotVars, ToRecover, ToDeshred
<1>3. CASE Ingest
  BY <1>1, <1>3, IngestStep DEF Ingest
<1>4. CASE RecoverPhase
  <2>1. CASE StartDeshredding
    BY Zenon, <1>1, <2>1, SlotElsewhere DEF StartDeshredding, slotVars, ToRecover, ToDeshred
  <2> QED BY <1>1, <1>4, <2>1, RecoverStep DEF RecoverPhase
<1>5. CASE DeshredPhase
  <2>1. CASE Return
    <3>1. ~Evicted(s)
      BY <1>1 DEF Evicted, IsOld
    <3>2. /\ fec_shreds'[s] = fec_shreds[s] /\ data_shreds'[s] = data_shreds[s]
          /\ already_recovered_fec_sets'[s] = already_recovered_fec_sets[s]
          /\ already_deshredded'[s] = already_deshredded[s]
          /\ seen' = seen
      BY Zenon, <2>1, <3>1 DEF Return
    <3>3. ToRecover = {} /\ ToDeshred = {}
      BY Zenon, <2>1 DEF Return, ToRecover, ToDeshred
    <3> QED BY <1>1, <3>2, <3>3, SlotElsewhere
  <2> QED BY <1>1, <1>5, <2>1, DeshredStep DEF DeshredPhase
<1>6. CASE UNCHANGED vars
  BY Zenon, <1>1, <1>6, SlotElsewhere DEF vars, slotVars, ToRecover, ToDeshred
<1> QED BY <1>2, <1>3, <1>4, <1>5, <1>6 DEF Next

\* At the start nothing has arrived and nothing is held.
LEMMA BatchInit == Init => BatchInv
<1> SUFFICES ASSUME Init, NEW s \in Slot PROVE SlotOK(s)
  BY DEF BatchInv
<1>1. /\ seen = {} /\ already_recovered_fec_sets[s] = {} /\ already_deshredded[s] = {}
      /\ \A f \in Idx : fec_shreds[s][f] = {}
      /\ \A x \in DataOf(Shred) : x.slot = s => ~Held(x)
  BY Zenon, ShredFields DEF Init, Held, DataOf
<1>2. SetsKept(s)
  BY <1>1 DEF SetsKept, DataOf, SetOf
<1>3. MarksTell(s)
  BY <1>1 DEF MarksTell
<1>4. SetsRecovered(s)
  <2> SUFFICES ASSUME NEW f \in Idx, EnoughOf(s, f) PROVE Full(s, f)
    BY DEF SetsRecovered
  <2> DEFINE D == DataOf(SetOf(s, f))
  <2>1. D \in SUBSET Shred
    BY DEF DataOf, SetOf
  <2>2. Cardinality(seen \cap SetOf(s, f)) = 0
    <3>1. seen \cap SetOf(s, f) = {}
      BY <1>1
    <3> QED BY <3>1, FS_EmptySet
  <2> HIDE DEF D
  <2>3. IsFiniteSet(D) /\ Cardinality(D) \in Nat
    BY <2>1, PartOfSet
  <2>4. Cardinality(D) = 0
    BY <2>2, <2>3 DEF EnoughOf, D
  <2>5. D = {}
    BY <2>3, <2>4, FS_EmptySet
  <2> QED BY <2>5 DEF Full, D
<1>5. BatchesDecoded(s)
  <2> SUFFICES ASSUME NEW r \in EntryBatches(s), BatchHeld(s, r) PROVE FALSE
    BY DEF BatchesDecoded
  <2>1. PICK x \in DataOf(Shred) : x.slot = s /\ x.index = r[2]
    BY BatchFacts DEF EndsBatch
  <2>2. x \in DataIn(s, r[1], r[2])
    BY <2>1, BatchFacts DEF DataIn
  <2> QED BY <1>1, <2>1, <2>2 DEF BatchHeld
<1> QED BY <1>2, <1>3, <1>4, <1>5 DEF SlotOK

\* For regular blocks, whatever the order of arrival, the grouping into calls,
\* the losses and the duplicates: between two calls every batch of which enough
\* shreds have arrived has been decoded, unless its slot is old.
THEOREM BatchesAreDecoded ==
    ASSUME RegularBlocks
    PROVE  Spec => []NoStrandedBatch
<1> DEFINE Inv == TypeInv /\ DataHeld /\ BatchInv
<1>1. Init => Inv
  BY InitTypeInv, DataHeldStep, BatchInit
<1>2. Inv /\ [Next]_vars => Inv'
  BY NextTypeInv, DataHeldStep, BatchStep
<1>3. Inv => NoStrandedBatch
  <2> SUFFICES ASSUME Inv, pc = "recv", NEW s \in Slot, ~IsOld(s),
                      NEW r \in EntryBatches(s), EnoughForBatch(s, r)
               PROVE  Decoded(s, r)
    BY DEF NoStrandedBatch
  <2>1. SlotOK(s)
    BY DEF BatchInv
  <2>2. ToRecover = {} /\ ToDeshred = {}
    BY DEF ToRecover, ToDeshred
  <2>3. ASSUME NEW x \in DataIn(s, r[1], r[2]) PROVE Held(x)
    <3>1. x \in DataOf(Shred) /\ x \in Shred /\ x.slot = s /\ x.fec_set_index \in Idx
      BY ShredFields DEF DataIn, DataOf
    <3>2. ErasureSet(x) = SetOf(s, x.fec_set_index)
      BY <3>1, SetIsErasureSet
    <3>3. ErasureSet(x) \cap seen = seen \cap ErasureSet(x)
      OBVIOUS
    <3>4. EnoughOf(s, x.fec_set_index)
      BY <3>2, <3>3 DEF EnoughForBatch, EnoughArrived, EnoughOf, num_data_shreds
    <3>5. Full(s, x.fec_set_index)
      BY <2>1, <2>2, <3>1, <3>4 DEF SlotOK, SetsRecovered
    <3> QED BY <3>1, <3>5 DEF Full, DataOf, SetOf
  <2> QED BY <2>1, <2>2, <2>3 DEF SlotOK, BatchesDecoded, BatchHeld, BatchTouched
<1> QED BY <1>1, <1>2, <1>3, PTL DEF Spec
=============================================================================
