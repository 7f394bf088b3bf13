---------------------------- MODULE ForwarderProofs ----------------------------
(***************************************************************************)
(* The forwarding threads, for any number of them, any hashes, batches and *)
(* destinations: what races through the deduper and the counters may do.   *)
(***************************************************************************)
EXTENDS Forwarder, FiniteSetTheorems, FunctionTheorems, TLAPS

-----------------------------------------------------------------------------
(* Types *)

\* Where a thread is in its batch: the dedup loop stands at a hash of a packet
\* and is at its start everywhere else.
ThreadOK(t) ==
    /\ pc[t] # "select" => Len(cur[t]) > 0
    /\ pc[t] = "select" => kept[t] = {}
    /\ pc[t] # "dedup" => pkt[t] = 1 /\ hash[t] = 1 /\ ~fresh[t]
    /\ pc[t] = "dedup" => /\ pkt[t] \in 1 .. Len(cur[t])
                          /\ hash[t] \in 1 .. Len(Hashes[payload(t)])

\* The types of the send threads' own variables.
ThreadTypes ==
    /\ pc \in [SendThread -> {"select", "offer", "dedup", "send"}]
    /\ cur \in [SendThread -> Seq(Payload)]
    /\ pkt \in [SendThread -> Nat] /\ hash \in [SendThread -> Nat]
    /\ fresh \in [SendThread -> BOOLEAN]
    /\ kept \in [SendThread -> SUBSET Nat]
    /\ \A t \in SendThread : kept[t] \subseteq 1 .. Len(cur[t])
    /\ \A t \in SendThread : ThreadOK(t)

\* The types of the destinations, of the deduper and of the channel.
SharedTypes ==
    /\ dests \in [SendThread -> SUBSET Dest]
    /\ local_dest_sockets \in [SendThread -> SUBSET Dest]
    /\ unioned_dest_sockets \subseteq Dest
    /\ bits \subseteq Nat
    /\ reconstruct \in Seq(Seq(Payload)) /\ Len(reconstruct) <= ReconstructCap
    /\ batches \in Nat /\ failures \in Nat /\ rounds \in Nat
    /\ arrived \subseteq Payload
    /\ attempted \subseteq Payload \X Dest

\* The types of the counters; reset has a value in hand only during its loop.
CounterTypes ==
    /\ metric \in [Counter -> Nat] /\ cumulative \in [Counter -> Nat]
    /\ truth \in [received : Nat, forwarded : Nat]
    /\ moving \in Seq(Counter) /\ hand \in Nat \cup {Nothing}
    /\ moving = <<>> => hand = Nothing

\* A batch that a listener hands over is a nonempty sequence of payloads.
LEMMA BatchFacts ==
    ASSUME NEW b \in Batches
    PROVE  b \in Seq(Payload) /\ Len(b) \in Nat /\ Len(b) > 0
<1>1. PICK n \in 1 .. MaxBatch : b \in [1 .. n -> Payload]
  BY DEF Batches
<1>2. n \in Nat /\ n > 0
  BY ForwarderAssumption
<1>3. b \in Seq(Payload)
  BY <1>1, <1>2
<1>4. Len(b) = n
  BY <1>1, <1>2, <1>3
<1> QED BY <1>2, <1>3, <1>4

\* A payload has hashes, and they are natural numbers.
LEMMA HashFacts ==
    ASSUME NEW p \in Payload
    PROVE  /\ Hashes[p] \in Seq(Nat) /\ Len(Hashes[p]) \in Nat /\ Len(Hashes[p]) > 0
           /\ \A h \in 1 .. Len(Hashes[p]) : Hashes[p][h] \in Nat
<1>1. Hashes[p] \in Seq(Nat) /\ Hashes[p] # <<>>
  BY ForwarderAssumption
<1> QED BY <1>1

\* The packet and the hash at which a thread in the dedup loop stands.
LEMMA DedupAt ==
    ASSUME ThreadTypes, NEW t \in SendThread, pc[t] = "dedup"
    PROVE  /\ payload(t) \in Payload
           /\ pkt[t] \in 1 .. Len(cur[t]) /\ Len(cur[t]) \in Nat
           /\ hash[t] \in 1 .. Len(Hashes[payload(t)])
           /\ Hashes[payload(t)][hash[t]] \in Nat
<1>1. /\ pkt[t] \in 1 .. Len(cur[t]) /\ cur[t] \in Seq(Payload)
      /\ hash[t] \in 1 .. Len(Hashes[payload(t)])
  BY DEF ThreadTypes, ThreadOK
<1>2. payload(t) \in Payload
  BY <1>1 DEF payload
<1> QED BY <1>1, <1>2, HashFacts

\* The packets a thread keeps can be counted, and are at most the batch.
LEMMA KeptFacts ==
    ASSUME ThreadTypes, NEW t \in SendThread
    PROVE  Cardinality(kept[t]) \in Nat /\ num_deduped(t) \in Nat
<1>1. cur[t] \in Seq(Payload) /\ kept[t] \in SUBSET (1 .. Len(cur[t]))
  BY DEF ThreadTypes
<1>2. Len(cur[t]) \in Nat
  BY <1>1
<1>3. IsFiniteSet(1 .. Len(cur[t])) /\ Cardinality(1 .. Len(cur[t])) = Len(cur[t])
  BY <1>2, FS_Interval
<1>4. Cardinality(kept[t]) \in Nat /\ Cardinality(kept[t]) <= Len(cur[t])
  BY <1>1, <1>3, FS_Subset, FS_CardinalityType
<1> QED BY <1>2, <1>4 DEF num_deduped

\* The variables ThreadTypes speaks of.
loopVars == <<pc, cur, pkt, hash, fresh, kept>>

\* What a step leaves alone of a thread stays well placed.
LEMMA OtherThread ==
    ASSUME NEW u \in SendThread, ThreadOK(u),
           /\ pc'[u] = pc[u] /\ cur'[u] = cur[u] /\ pkt'[u] = pkt[u]
           /\ hash'[u] = hash[u] /\ fresh'[u] = fresh[u] /\ kept'[u] = kept[u]
    PROVE  ThreadOK(u)'
BY DEF ThreadOK, payload

\* A thread steps to its next hash, packet or destination.
LEMMA DedupTypes ==
    ASSUME ThreadTypes, NEW t \in SendThread, DedupStep(t)
    PROVE  ThreadTypes'
<1> DEFINE p == payload(t)
           lastHash == hash[t] = Len(Hashes[p])
           lastPkt == lastHash /\ pkt[t] = Len(cur[t])
<1>1. /\ pc[t] = "dedup" /\ p \in Payload /\ Len(Hashes[p]) \in Nat
      /\ pkt[t] \in 1 .. Len(cur[t]) /\ Len(cur[t]) \in Nat
      /\ hash[t] \in 1 .. Len(Hashes[p])
  BY DedupAt, HashFacts DEF DedupStep
<1>2. /\ hash' = [hash EXCEPT ![t] = IF lastHash THEN 1 ELSE hash[t] + 1]
      /\ pkt' = [pkt EXCEPT ![t] =
                    IF lastPkt THEN 1 ELSE IF lastHash THEN pkt[t] + 1 ELSE pkt[t]]
      /\ cur' = cur
  BY DEF DedupStep, ThreadTypes
<1>3. kept' = kept \/ kept' = [kept EXCEPT ![t] = kept[t] \cup {pkt[t]}]
  <2>1. \E b \in BOOLEAN : kept' = [kept EXCEPT ![t] = IF b THEN @ \cup {pkt[t]} ELSE @]
    <3> DEFINE b == lastHash /\ (fresh[t] \/ SetsNewBit(t))
    <3>1. b \in BOOLEAN
      OBVIOUS
    <3>2. kept' = [kept EXCEPT ![t] = IF b THEN @ \cup {pkt[t]} ELSE @]
      BY DEF DedupStep
    <3> HIDE DEF b
    <3> QED BY <3>1, <3>2
  <2> QED BY <2>1 DEF ThreadTypes
<1>4. \E b \in BOOLEAN : fresh' = [fresh EXCEPT ![t] = b /\ ~lastHash]
  <2> DEFINE b == fresh[t] \/ SetsNewBit(t)
  <2>1. b \in BOOLEAN
    OBVIOUS
  <2>2. fresh' = [fresh EXCEPT ![t] = b /\ ~lastHash]
    BY DEF DedupStep
  <2> HIDE DEF b
  <2> QED BY <2>1, <2>2
<1>5. pc' = IF lastPkt THEN [pc EXCEPT ![t] = "send"] ELSE pc
  BY DEF DedupStep
<1>6. /\ pc' \in [SendThread -> {"select", "offer", "dedup", "send"}]
      /\ cur' \in [SendThread -> Seq(Payload)]
      /\ pkt' \in [SendThread -> Nat] /\ hash' \in [SendThread -> Nat]
  <2>1. /\ (IF lastHash THEN 1 ELSE hash[t] + 1) \in Nat
        /\ (IF lastPkt THEN 1 ELSE IF lastHash THEN pkt[t] + 1 ELSE pkt[t]) \in Nat
    BY <1>1
  <2> HIDE DEF lastHash, lastPkt
  <2> QED BY <1>2, <1>5, <2>1 DEF ThreadTypes
<1>7. fresh' \in [SendThread -> BOOLEAN]
  BY <1>4 DEF ThreadTypes
<1>8. /\ kept' \in [SendThread -> SUBSET Nat]
      /\ \A u \in SendThread : kept'[u] \subseteq 1 .. Len(cur'[u])
  <2>1. kept[t] \cup {pkt[t]} \in SUBSET Nat
        /\ kept[t] \cup {pkt[t]} \subseteq 1 .. Len(cur[t])
    BY <1>1 DEF ThreadTypes
  <2>2. CASE kept' = kept
    BY <1>2, <2>2 DEF ThreadTypes
  <2>3. CASE kept' = [kept EXCEPT ![t] = kept[t] \cup {pkt[t]}]
    BY <1>2, <2>1, <2>3 DEF ThreadTypes
  <2> QED BY <1>3, <2>2, <2>3
<1>9. ThreadOK(t)'
  <2>1. lastHash => fresh'[t] = FALSE
    BY <1>4 DEF ThreadTypes
  <2>2. CASE lastPkt
    <3>1. pc'[t] = "send" /\ pkt'[t] = 1 /\ hash'[t] = 1 /\ ~fresh'[t] /\ cur'[t] = cur[t]
      BY <1>2, <1>5, <2>1, <2>2 DEF ThreadTypes
    <3> QED BY <1>1, <3>1 DEF ThreadOK
  <2>3. CASE lastHash /\ ~lastPkt
    <3>1. pc'[t] = "dedup" /\ pkt'[t] = pkt[t] + 1 /\ hash'[t] = 1 /\ cur'[t] = cur[t]
      BY <1>1, <1>2, <1>5, <2>3 DEF ThreadTypes
    <3>2. pkt'[t] \in 1 .. Len(cur[t])
      BY <1>1, <2>3, <3>1
    <3>3. cur[t][pkt'[t]] \in Payload
      BY <3>2 DEF ThreadTypes
    <3>4. hash'[t] \in 1 .. Len(Hashes[cur[t][pkt'[t]]])
      BY <3>1, <3>3, HashFacts
    <3> QED BY <1>1, <3>1, <3>2, <3>4 DEF ThreadOK, payload
  <2>4. CASE ~lastHash
    <3>1. pc'[t] = "dedup" /\ pkt'[t] = pkt[t] /\ hash'[t] = hash[t] + 1 /\ cur'[t] = cur[t]
      BY <1>1, <1>2, <1>5, <2>4 DEF ThreadTypes
    <3>2. hash'[t] \in 1 .. Len(Hashes[p])
      BY <1>1, <2>4, <3>1
    <3> QED BY <1>1, <3>1, <3>2 DEF ThreadOK, payload
  <2> QED BY <2>2, <2>3, <2>4
<1>10. ASSUME NEW u \in SendThread, u # t PROVE ThreadOK(u)'
  <2>1. pc'[u] = pc[u] /\ cur'[u] = cur[u]
    BY <1>2, <1>5, <1>10 DEF ThreadTypes
  <2>2. pkt'[u] = pkt[u] /\ hash'[u] = hash[u]
    BY <1>2, <1>10 DEF ThreadTypes
  <2>3. fresh'[u] = fresh[u] /\ kept'[u] = kept[u]
    BY <1>3, <1>4, <1>10 DEF ThreadTypes
  <2>4. ThreadOK(u)
    BY DEF ThreadTypes
  <2> QED BY <2>1, <2>2, <2>3, <2>4, OtherThread
<1> QED BY <1>6, <1>7, <1>8, <1>9, <1>10 DEF ThreadTypes

\* Every step keeps the types of the threads.
LEMMA ThreadStep == ASSUME ThreadTypes, [Next]_vars PROVE ThreadTypes'
<1>0. ASSUME UNCHANGED loopVars PROVE ThreadTypes'
  BY <1>0 DEF loopVars, ThreadTypes, ThreadOK, payload
<1>1. ASSUME NEW t \in SendThread, NEW b \in Batches, ReceiveBatch(t, b)
      PROVE  ThreadTypes'
  <2>1. /\ pc[t] = "select" /\ pc' = [pc EXCEPT ![t] = "offer"]
        /\ cur' = [cur EXCEPT ![t] = b] /\ UNCHANGED <<pkt, hash, fresh, kept>>
    BY <1>1 DEF ReceiveBatch
  <2>2. kept[t] = {} /\ pkt[t] = 1 /\ hash[t] = 1 /\ ~fresh[t]
    BY <2>1 DEF ThreadTypes, ThreadOK
  <2>3. ThreadOK(t)'
    BY <2>1, <2>2, BatchFacts DEF ThreadTypes, ThreadOK
  <2>4. ASSUME NEW u \in SendThread, u # t PROVE ThreadOK(u)'
    BY <2>1, <2>4, OtherThread DEF ThreadTypes
  <2>5. \A u \in SendThread : kept'[u] \subseteq 1 .. Len(cur'[u])
    BY <2>1, <2>2 DEF ThreadTypes
  <2> QED BY <2>1, <2>3, <2>4, <2>5, BatchFacts DEF ThreadTypes
<1>2. ASSUME NEW t \in SendThread, OfferBatch(t) PROVE ThreadTypes'
  <2>1. /\ pc[t] = "offer" /\ pc' = [pc EXCEPT ![t] = "dedup"]
        /\ UNCHANGED <<cur, pkt, hash, fresh, kept>>
    BY <1>2 DEF OfferBatch
  <2>2. /\ pkt[t] = 1 /\ hash[t] = 1 /\ Len(cur[t]) > 0 /\ Len(cur[t]) \in Nat
        /\ cur[t] \in Seq(Payload)
    BY <2>1 DEF ThreadTypes, ThreadOK
  <2>3. cur[t][1] \in Payload
    BY <2>2
  <2>4. pkt[t] \in 1 .. Len(cur[t]) /\ hash[t] \in 1 .. Len(Hashes[cur[t][1]])
    BY <2>2, <2>3, HashFacts
  <2>5. ThreadOK(t)'
    BY <2>1, <2>2, <2>4 DEF ThreadTypes, ThreadOK, payload
  <2>6. ASSUME NEW u \in SendThread, u # t PROVE ThreadOK(u)'
    BY <2>1, <2>6, OtherThread DEF ThreadTypes
  <2> QED BY <2>1, <2>5, <2>6 DEF ThreadTypes
<1>3. ASSUME NEW t \in SendThread, DedupStep(t) PROVE ThreadTypes'
  BY <1>3, DedupTypes
<1>4. ASSUME NEW t \in SendThread, NEW d \in Dest, Attempt(t, d) PROVE ThreadTypes'
  BY <1>0, <1>4 DEF Attempt, loopVars
<1>5. ASSUME NEW t \in SendThread, FinishBatch(t) PROVE ThreadTypes'
  <2>1. /\ pc[t] = "send" /\ pc' = [pc EXCEPT ![t] = "select"]
        /\ cur' = [cur EXCEPT ![t] = <<>>] /\ kept' = [kept EXCEPT ![t] = {}]
        /\ UNCHANGED <<pkt, hash, fresh>>
    BY <1>5 DEF FinishBatch
  <2>2. ThreadOK(t)'
    BY <2>1 DEF ThreadTypes, ThreadOK
  <2>3. ASSUME NEW u \in SendThread, u # t PROVE ThreadOK(u)'
    BY <2>1, <2>3, OtherThread DEF ThreadTypes
  <2>4. \A u \in SendThread : kept'[u] \subseteq 1 .. Len(cur'[u])
    BY <2>1 DEF ThreadTypes
  <2>5. <<>> \in Seq(Payload)
    OBVIOUS
  <2> QED BY <2>1, <2>2, <2>3, <2>4, <2>5 DEF ThreadTypes
<1>6. CASE \/ (\E t \in SendThread : RefreshLocal(t)) \/ Reconstruct
           \/ RefreshDestinations \/ ResetDeduper \/ ReportMetrics \/ SwapCounter
           \/ AddCumulative \/ UNCHANGED vars
  <2>1. UNCHANGED loopVars
    BY <1>6 DEF RefreshLocal, Reconstruct, RefreshDestinations, ResetDeduper,
       ReportMetrics, SwapCounter, AddCumulative, vars, threadVars, loopVars
  <2> QED BY <1>0, <2>1
<1> QED BY <1>1, <1>2, <1>3, <1>4, <1>5, <1>6
        DEF Next, SendLoop, Handle, SendOk, SendErr, Accessory

-----------------------------------------------------------------------------
(* Counters *)

\* What CountersConserved needs beside itself.
CounterInv == CounterTypes /\ CountersConserved

\* A step that adds n to a counter, with reset where it was, adds n to its total.
LEMMA TotalAdds ==
    ASSUME CounterTypes, NEW c \in Counter, NEW n \in Nat,
           metric'[c] = metric[c] + n, UNCHANGED <<cumulative, moving, hand>>
    PROVE  Total(c)' = Total(c) + n
<1>1. metric[c] \in Nat /\ cumulative[c] \in Nat
  BY DEF CounterTypes
<1>2. CASE moving # <<>> /\ hand # Nothing /\ c = Head(moving)
  <2>1. hand \in Nat
    BY <1>2 DEF CounterTypes
  <2>2. Total(c) = metric[c] + cumulative[c] + hand
        /\ Total(c)' = metric'[c] + cumulative[c] + hand
    BY <1>2 DEF Total
  <2> QED BY <1>1, <2>1, <2>2
<1>3. CASE ~(moving # <<>> /\ hand # Nothing /\ c = Head(moving))
  <2>1. Total(c) = metric[c] + cumulative[c] + 0
        /\ Total(c)' = metric'[c] + cumulative[c] + 0
    BY <1>3 DEF Total
  <2> QED BY <1>1, <2>1
<1> QED BY <1>2, <1>3

\* Totals are natural numbers.
LEMMA TotalNat == ASSUME CounterTypes, NEW c \in Counter PROVE Total(c) \in Nat
<1>1. metric[c] \in Nat /\ cumulative[c] \in Nat /\ (hand # Nothing => hand \in Nat)
  BY DEF CounterTypes
<1> QED BY <1>1 DEF Total

\* Adding to one field of the truth.
LEMMA TruthAdds ==
    ASSUME NEW T \in [received : Nat, forwarded : Nat], NEW n \in Nat, NEW T2,
           \/ T2 = [T EXCEPT !.received = @ + n]
           \/ T2 = [T EXCEPT !.forwarded = @ + n]
    PROVE  /\ T2 \in [received : Nat, forwarded : Nat]
           /\ T2 = [T EXCEPT !.received = @ + n]
                => T2.received = T.received + n /\ T2.forwarded = T.forwarded
           /\ T2 = [T EXCEPT !.forwarded = @ + n]
                => T2.received = T.received /\ T2.forwarded = T.forwarded + n
<1>1. T.received \in Nat /\ T.forwarded \in Nat
  OBVIOUS
<1>2. CASE T2 = [T EXCEPT !.received = @ + n]
  BY <1>1, <1>2
<1>3. CASE T2 = [T EXCEPT !.forwarded = @ + n]
  BY <1>1, <1>3
<1> QED BY <1>2, <1>3

\* Adding to a counter of sends and to that of duplicates.
LEMMA MetricAdds ==
    ASSUME NEW M \in [Counter -> Nat], NEW n \in Nat, NEW m \in Nat, NEW M2,
           NEW c \in {"success_forward", "fail_forward"},
           M2 = [M EXCEPT ![c] = @ + n, !["duplicate"] = @ + m]
    PROVE  /\ M2 \in [Counter -> Nat] /\ M2[c] = M[c] + n
           /\ \A k \in Counter \ {c, "duplicate"} : M2[k] = M[k]
<1>1. c \in Counter /\ "duplicate" \in Counter /\ c # "duplicate"
  BY DEF Counter
<1> QED BY <1>1

\* A step that adds to the counters what it adds to the truth.
LEMMA CountersAdd ==
    ASSUME CounterInv, UNCHANGED <<cumulative, moving, hand>>,
           NEW r \in Nat, NEW a \in Nat, NEW f \in Nat,
           metric' \in [Counter -> Nat],
           metric'["received"] = metric["received"] + r,
           metric'["success_forward"] = metric["success_forward"] + a,
           metric'["fail_forward"] = metric["fail_forward"] + f,
           truth' \in [received : Nat, forwarded : Nat],
           truth'.received = truth.received + r,
           truth'.forwarded = truth.forwarded + (a + f)
    PROVE  CounterInv'
<1>1. CounterTypes /\ truth \in [received : Nat, forwarded : Nat]
  BY DEF CounterInv, CounterTypes
<1>2. {"received", "success_forward", "fail_forward"} \subseteq Counter
  BY DEF Counter
<1>5. CounterTypes'
  BY DEF CounterInv, CounterTypes
<1>6. /\ Total("received")' = Total("received") + r
      /\ Total("success_forward")' = Total("success_forward") + a
      /\ Total("fail_forward")' = Total("fail_forward") + f
  BY <1>1, <1>2, TotalAdds
<1>7. /\ Total("received") \in Nat /\ Total("success_forward") \in Nat
      /\ Total("fail_forward") \in Nat
  BY <1>1, <1>2, TotalNat
<1>8. /\ Total("received") = truth.received
      /\ Total("success_forward") + Total("fail_forward") = truth.forwarded
  BY DEF CounterInv, CountersConserved
<1>9. CountersConserved'
  BY <1>1, <1>6, <1>7, <1>8 DEF CountersConserved
<1> QED BY <1>5, <1>9 DEF CounterInv

\* A step that leaves every total and the truth alone.
LEMMA CountersMove ==
    ASSUME CounterInv, CounterTypes', UNCHANGED truth,
           \A c \in Counter : Total(c)' = Total(c)
    PROVE  CounterInv'
BY DEF CounterInv, CountersConserved, Counter

\* Every step keeps the counters: what a thread adds, reset moves and never
\* overwrites.
LEMMA CounterStep ==
    ASSUME ThreadTypes, CounterInv, [Next]_vars PROVE CounterInv'
<1>0. /\ metric \in [Counter -> Nat] /\ cumulative \in [Counter -> Nat]
      /\ truth \in [received : Nat, forwarded : Nat] /\ moving \in Seq(Counter)
      /\ hand \in Nat \cup {Nothing} /\ Nothing \notin Nat /\ CounterTypes
      /\ moving = <<>> => hand = Nothing
  BY DEF CounterInv, CounterTypes, Nothing
<1>1. ASSUME NEW t \in SendThread, NEW b \in Batches, ReceiveBatch(t, b)
      PROVE  CounterInv'
  <2>1. /\ metric' = [metric EXCEPT !["received"] = @ + Len(b)]
        /\ truth' = [truth EXCEPT !.received = @ + Len(b)]
        /\ UNCHANGED <<cumulative, moving, hand>> /\ Len(b) \in Nat
    BY <1>1, BatchFacts DEF ReceiveBatch, accessoryVars
  <2>2. /\ metric' \in [Counter -> Nat]
        /\ metric'["received"] = metric["received"] + Len(b)
        /\ metric'["success_forward"] = metric["success_forward"] + 0
        /\ metric'["fail_forward"] = metric["fail_forward"] + 0
    BY <1>0, <2>1 DEF Counter
  <2>3. /\ truth' \in [received : Nat, forwarded : Nat]
        /\ truth'.received = truth.received + Len(b)
        /\ truth'.forwarded = truth.forwarded
    BY <1>0, <2>1, TruthAdds
  <2>4. truth.forwarded = truth.forwarded + (0 + 0)
    BY <1>0
  <2> QED BY <2>1, <2>2, <2>3, <2>4, CountersAdd
<1>2. ASSUME NEW t \in SendThread, NEW d \in Dest, SendOk(t, d) PROVE CounterInv'
  <2> DEFINE n == Cardinality(kept[t])
  <2>1. n \in Nat /\ num_deduped(t) \in Nat
    BY KeptFacts
  <2>2. /\ metric' = [metric EXCEPT !["success_forward"] = @ + n,
                                    !["duplicate"] = @ + num_deduped(t)]
        /\ truth' = [truth EXCEPT !.forwarded = @ + n]
        /\ UNCHANGED <<cumulative, moving, hand>>
    BY <1>2 DEF SendOk, Attempt, Outgoing, accessoryVars
  <2> HIDE DEF n
  <2>3. /\ metric' \in [Counter -> Nat]
        /\ metric'["success_forward"] = metric["success_forward"] + n
        /\ metric'["received"] = metric["received"]
        /\ metric'["fail_forward"] = metric["fail_forward"]
    BY <1>0, <2>1, <2>2, MetricAdds DEF Counter
  <2>4. /\ truth' \in [received : Nat, forwarded : Nat]
        /\ truth'.received = truth.received
        /\ truth'.forwarded = truth.forwarded + n
    BY <1>0, <2>1, <2>2, TruthAdds
  <2>5. /\ metric["received"] = metric["received"] + 0 /\ n = n + 0
        /\ metric["fail_forward"] = metric["fail_forward"] + 0
        /\ truth.received = truth.received + 0
    BY <1>0, <2>1 DEF Counter
  <2> QED BY <2>1, <2>2, <2>3, <2>4, <2>5, CountersAdd
<1>3. ASSUME NEW t \in SendThread, NEW d \in Dest, SendErr(t, d) PROVE CounterInv'
  <2> DEFINE n == Cardinality(kept[t])
  <2>1. n \in Nat
    BY KeptFacts
  <2>2. PICK m \in 1 .. n :
          metric' = [metric EXCEPT !["fail_forward"] = @ + n, !["duplicate"] = @ + m]
    BY <1>3 DEF SendErr, Outgoing
  <2>3. /\ truth' = [truth EXCEPT !.forwarded = @ + n]
        /\ UNCHANGED <<cumulative, moving, hand>>
    BY <1>3 DEF SendErr, Attempt, Outgoing, accessoryVars
  <2> HIDE DEF n
  <2>4. m \in Nat
    BY <2>1
  <2>5. /\ metric' \in [Counter -> Nat]
        /\ metric'["fail_forward"] = metric["fail_forward"] + n
        /\ metric'["received"] = metric["received"]
        /\ metric'["success_forward"] = metric["success_forward"]
    BY <1>0, <2>1, <2>2, <2>4, MetricAdds DEF Counter
  <2>6. /\ truth' \in [received : Nat, forwarded : Nat]
        /\ truth'.received = truth.received
        /\ truth'.forwarded = truth.forwarded + n
    BY <1>0, <2>1, <2>3, TruthAdds
  <2>7. /\ metric["received"] = metric["received"] + 0 /\ n = 0 + n
        /\ metric["success_forward"] = metric["success_forward"] + 0
        /\ truth.received = truth.received + 0
    BY <1>0, <2>1 DEF Counter
  <2> QED BY <2>1, <2>3, <2>5, <2>6, <2>7, CountersAdd
<1>4. CASE ReportMetrics
  <2>1. /\ moving = <<>> /\ hand = Nothing /\ UNCHANGED <<metric, cumulative, hand, truth>>
        /\ moving' = <<"received", "success_forward", "fail_forward", "duplicate">>
    BY <1>0, <1>4 DEF ReportMetrics
  <2>2. moving' \in Seq(Counter) /\ moving' # <<>>
    BY <2>1 DEF Counter
  <2>3. CounterTypes'
    BY <1>0, <2>1, <2>2 DEF CounterTypes
  <2>4. \A c \in Counter : Total(c)' = Total(c)
    BY <2>1 DEF Total
  <2> QED BY <2>1, <2>3, <2>4, CountersMove
<1>5. CASE SwapCounter
  <2> DEFINE h == Head(moving)
  <2>1. /\ moving # <<>> /\ hand = Nothing /\ h \in Counter /\ hand' = metric[h]
        /\ metric' = [metric EXCEPT ![h] = 0]
        /\ UNCHANGED <<cumulative, moving, truth>>
    BY <1>0, <1>5 DEF SwapCounter, LeftBySwap
  <2> HIDE DEF h
  <2>2. hand' \in Nat /\ hand' # Nothing
    BY <1>0, <2>1 DEF Nothing
  <2>3. CounterTypes'
    BY <1>0, <2>1, <2>2 DEF CounterTypes
  <2>4. ASSUME NEW c \in Counter PROVE Total(c)' = Total(c)
    <3>1. metric[c] \in Nat /\ cumulative[c] \in Nat
      BY <1>0
    <3>2. Total(c) = metric[c] + cumulative[c] + 0
      BY <2>1 DEF Total
    <3>3. CASE c = h
      <4>1. Total(c)' = 0 + cumulative[c] + metric[c]
        BY <1>0, <2>1, <2>2, <3>3 DEF Total, h
      <4> QED BY <3>1, <3>2, <4>1
    <3>4. CASE c # h
      <4>1. Total(c)' = metric[c] + cumulative[c] + 0
        BY <1>0, <2>1, <2>2, <3>4 DEF Total, h
      <4> QED BY <3>1, <3>2, <4>1
    <3> QED BY <3>3, <3>4
  <2> QED BY <2>1, <2>3, <2>4, CountersMove
<1>6. CASE AddCumulative
  <2> DEFINE h == Head(moving)
  <2>1. /\ moving # <<>> /\ hand # Nothing /\ h \in Counter /\ hand' = Nothing
        /\ cumulative' = [cumulative EXCEPT ![h] = cumulative[h] + hand]
        /\ moving' = Tail(moving) /\ UNCHANGED <<metric, truth>>
    BY <1>0, <1>6 DEF AddCumulative
  <2>2. hand \in Nat /\ moving' \in Seq(Counter)
    BY <1>0, <2>1
  <2>3. CounterTypes'
    <3> HIDE DEF h
    <3>1. cumulative[h] + hand \in Nat
      BY <1>0, <2>1, <2>2
    <3> QED BY <1>0, <2>1, <2>2, <3>1 DEF CounterTypes
  <2>4. ASSUME NEW c \in Counter PROVE Total(c)' = Total(c)
    <3> HIDE DEF h
    <3>1. metric[c] \in Nat /\ cumulative[c] \in Nat
      BY <1>0
    <3>2. Total(c)' = metric[c] + cumulative'[c] + 0
      BY <2>1 DEF Total
    <3>3. CASE c = h
      <4>1. Total(c) = metric[c] + cumulative[c] + hand
            /\ cumulative'[c] = cumulative[c] + hand
        BY <1>0, <2>1, <3>3 DEF Total, h
      <4> QED BY <2>2, <3>1, <3>2, <4>1
    <3>4. CASE c # h
      <4>1. Total(c) = metric[c] + cumulative[c] + 0 /\ cumulative'[c] = cumulative[c]
        BY <1>0, <2>1, <3>4 DEF Total, h
      <4> QED BY <3>1, <3>2, <4>1
    <3> QED BY <3>3, <3>4
  <2> QED BY <2>1, <2>3, <2>4, CountersMove
<1>7. CASE \/ (\E t \in SendThread : OfferBatch(t)) \/ (\E t \in SendThread : DedupStep(t))
           \/ (\E t \in SendThread : FinishBatch(t) \/ RefreshLocal(t))
           \/ Reconstruct \/ RefreshDestinations \/ ResetDeduper \/ UNCHANGED vars
  <2>1. UNCHANGED <<metric, cumulative, moving, hand, truth>>
    BY <1>7 DEF OfferBatch, DedupStep, FinishBatch, RefreshLocal, Reconstruct,
       RefreshDestinations, ResetDeduper, vars, accessoryVars
  <2> QED BY <2>1 DEF CounterInv, CounterTypes, CountersConserved, Total
<1> QED BY <1>1, <1>2, <1>3, <1>4, <1>5, <1>6, <1>7
        DEF Next, SendLoop, Handle, Accessory

\* The threads start between two batches.
LEMMA ThreadInit == ASSUME Init PROVE ThreadTypes
<1>1. /\ pc = [t \in SendThread |-> "select"] /\ cur = [t \in SendThread |-> <<>>]
      /\ pkt = [t \in SendThread |-> 1] /\ hash = [t \in SendThread |-> 1]
      /\ fresh = [t \in SendThread |-> FALSE] /\ kept = [t \in SendThread |-> {}]
  BY DEF Init
<1>2. <<>> \in Seq(Payload)
  OBVIOUS
<1> QED BY <1>1, <1>2 DEF ThreadTypes, ThreadOK

\* All counters start at zero.
LEMMA CounterInit == ASSUME Init PROVE CounterInv
<1>1. /\ metric = [c \in Counter |-> 0] /\ cumulative = [c \in Counter |-> 0]
      /\ moving = <<>> /\ hand = Nothing /\ truth = [received |-> 0, forwarded |-> 0]
  BY DEF Init
<1>2. moving \in Seq(Counter)
  BY <1>1
<1>3. CounterTypes
  BY <1>1, <1>2 DEF CounterTypes
<1>4. CountersConserved
  BY <1>1 DEF CountersConserved, Total, Counter
<1> QED BY <1>3, <1>4 DEF CounterInv

\* No count is lost or doubled: however many send threads add to the counters
\* while ShredMetrics::reset moves them, each packet received, and each packet
\* handed to batch_send, is counted once.
THEOREM CountersAreConserved == Spec => []CountersConserved
<1>1. Init => ThreadTypes /\ CounterInv
  BY ThreadInit, CounterInit
<1>2. (ThreadTypes /\ CounterInv) /\ [Next]_vars => (ThreadTypes /\ CounterInv)'
  BY ThreadStep, CounterStep
<1>3. ThreadTypes /\ CounterInv => CountersConserved
  BY DEF CounterInv
<1> QED BY <1>1, <1>2, <1>3, PTL DEF Spec

-----------------------------------------------------------------------------
(* Duplicates *)

\* Thread t is at a packet that will be let through as p: it has set a bit.
IsHopeful(t, p) == pc[t] = "dedup" /\ fresh[t] /\ payload(t) = p
Hopeful(p) == {t \in SendThread : IsHopeful(t, p)}

\* Every pass of a payload, and every thread about to let it pass, has set a
\* bit of the payload that nobody else has set since the last reset.
PassInv ==
    /\ passes \in [Payload -> Nat]
    /\ \A p \in Payload :
         passes[p] + Cardinality(Hopeful(p)) <= Cardinality(bits \cap HashBits(p))

\* A payload selects at most as many bits as it has hashes.
LEMMA HashBitsFinite ==
    ASSUME NEW p \in Payload
    PROVE  IsFiniteSet(HashBits(p)) /\ Cardinality(HashBits(p)) <= Len(Hashes[p])
<1> DEFINE D == 1 .. Len(Hashes[p])
           f == [h \in D |-> Hashes[p][h]]
<1>1. IsFiniteSet(D) /\ Cardinality(D) = Len(Hashes[p])
  BY HashFacts, FS_Interval
<1>2. f \in Surjection(D, HashBits(p))
  BY Fun_IsSurj DEF HashBits
<1> HIDE DEF f, D
<1> QED BY <1>1, <1>2, FS_Surjection

\* Some of these bits are set; that is a finite set too.
LEMMA SetBitsFinite ==
    ASSUME NEW p \in Payload, NEW B
    PROVE  /\ IsFiniteSet(B \cap HashBits(p)) /\ Cardinality(B \cap HashBits(p)) \in Nat
           /\ Cardinality(B \cap HashBits(p)) <= Len(Hashes[p])
<1>1. B \cap HashBits(p) \in SUBSET HashBits(p)
  OBVIOUS
<1>2. /\ IsFiniteSet(B \cap HashBits(p))
      /\ Cardinality(B \cap HashBits(p)) <= Cardinality(HashBits(p))
  BY <1>1, HashBitsFinite, FS_Subset
<1>3. /\ Cardinality(B \cap HashBits(p)) \in Nat /\ Cardinality(HashBits(p)) \in Nat
      /\ Len(Hashes[p]) \in Nat
  BY <1>2, HashBitsFinite, HashFacts, FS_CardinalityType
<1> QED BY <1>2, <1>3, HashBitsFinite

\* The threads at a payload can be counted.
LEMMA HopefulFinite ==
    ASSUME NEW S \in SUBSET SendThread PROVE IsFiniteSet(S) /\ Cardinality(S) \in Nat
BY ForwarderAssumption, FS_Subset, FS_CardinalityType

\* The accounts of one payload: n passes, the threads F, the bits B.  A pass or
\* a thread more is paid for by a thread less or by a bit more.
Paid(n, n2, F, F2, B, B2, t, x) ==
    \/ n2 = n /\ F2 = F
    \/ n2 = n + 1 /\ t \in F /\ F2 = F \ {t}
    \/ n2 = n + 1 /\ F2 = F /\ B2 = B \cup {x} /\ x \notin B
    \/ n2 = n /\ t \notin F /\ F2 = F \cup {t} /\ B2 = B \cup {x} /\ x \notin B

\* So the bits stay at least as many as the passes and the threads together.
LEMMA OneBitEach ==
    ASSUME NEW F, NEW F2, NEW B, NEW B2, NEW n \in Nat, NEW n2, NEW t, NEW x,
           IsFiniteSet(F), IsFiniteSet(B2), B \subseteq B2,
           n + Cardinality(F) <= Cardinality(B),
           Paid(n, n2, F, F2, B, B2, t, x)
    PROVE  n2 \in Nat /\ n2 + Cardinality(F2) <= Cardinality(B2)
<1>1. IsFiniteSet(B) /\ Cardinality(B) <= Cardinality(B2)
  BY FS_Subset
<1>2. Cardinality(F) \in Nat /\ Cardinality(B) \in Nat /\ Cardinality(B2) \in Nat
  BY <1>1, FS_CardinalityType
<1>3. CASE n2 = n /\ F2 = F
  BY <1>1, <1>2, <1>3
<1>4. CASE n2 = n + 1 /\ t \in F /\ F2 = F \ {t}
  <2>1. Cardinality(F2) = Cardinality(F) - 1
    BY <1>4, FS_RemoveElement
  <2> QED BY <1>1, <1>2, <1>4, <2>1
<1>5. ASSUME B2 = B \cup {x}, x \notin B PROVE Cardinality(B2) = Cardinality(B) + 1
  BY <1>1, <1>5, FS_AddElement
<1>6. CASE n2 = n + 1 /\ F2 = F /\ B2 = B \cup {x} /\ x \notin B
  BY <1>2, <1>5, <1>6
<1>7. CASE n2 = n /\ t \notin F /\ F2 = F \cup {t} /\ B2 = B \cup {x} /\ x \notin B
  <2>1. Cardinality(F2) = Cardinality(F) + 1
    BY <1>7, FS_AddElement
  <2> QED BY <1>2, <1>5, <1>7, <2>1
<1> QED BY <1>3, <1>4, <1>6, <1>7 DEF Paid

\* A step by which no thread comes to a pass or leaves one.
LEMMA NoPass ==
    ASSUME PassInv, UNCHANGED <<bits, passes>>,
           \A p \in Payload, u \in SendThread : IsHopeful(u, p)' <=> IsHopeful(u, p)
    PROVE  PassInv'
<1>1. \A p \in Payload : Hopeful(p)' = Hopeful(p)
  BY DEF Hopeful
<1> QED BY <1>1 DEF PassInv, HashBits

\* One fetch_or keeps the accounts of every payload.
LEMMA DedupPasses ==
    ASSUME ThreadTypes, PassInv, NEW t \in SendThread, DedupStep(t)
    PROVE  PassInv'
<1> DEFINE p == payload(t)
           x == Hashes[p][hash[t]]
           lastHash == hash[t] = Len(Hashes[p])
           new == fresh[t] \/ x \notin bits
<1>1. /\ pc[t] = "dedup" /\ p \in Payload /\ hash[t] \in 1 .. Len(Hashes[p])
      /\ pkt[t] \in 1 .. Len(cur[t])
  BY DedupAt DEF DedupStep
<1>2. x \in HashBits(p)
  BY <1>1 DEF HashBits
<1>3. /\ bits' = bits \cup {x}
      /\ passes' = [passes EXCEPT ![p] = IF lastHash /\ new THEN @ + 1 ELSE @]
      /\ fresh' = [fresh EXCEPT ![t] = new /\ ~lastHash]
  BY DEF DedupStep, SetsNewBit
<1>4. /\ cur' = cur
      /\ pkt' = [pkt EXCEPT ![t] = IF lastHash /\ pkt[t] = Len(cur[t]) THEN 1
                                   ELSE IF lastHash THEN @ + 1 ELSE @]
      /\ ~lastHash => pc' = pc
      /\ pc' = pc \/ pc' = [pc EXCEPT ![t] = "send"]
  BY DEF DedupStep
<1>5. ASSUME NEW u \in SendThread, u # t, NEW q \in Payload
      PROVE  IsHopeful(u, q)' <=> IsHopeful(u, q)
  <2>1. pc'[u] = pc[u] /\ pkt'[u] = pkt[u] /\ cur'[u] = cur[u]
    BY <1>4, <1>5 DEF ThreadTypes
  <2>2. fresh'[u] = fresh[u]
    BY <1>3, <1>5 DEF ThreadTypes
  <2> QED BY <2>1, <2>2 DEF IsHopeful, payload
<1>6. lastHash => \A q \in Payload : ~IsHopeful(t, q)'
  BY <1>3 DEF IsHopeful, ThreadTypes
<1>7. ~lastHash => \A q \in Payload : IsHopeful(t, q)' <=> (new /\ q = p)
  <2> SUFFICES ASSUME ~lastHash, NEW q \in Payload
               PROVE  IsHopeful(t, q)' <=> (new /\ q = p)
    OBVIOUS
  <2>1. pc'[t] = "dedup" /\ payload(t)' = p
    BY <1>1, <1>4 DEF ThreadTypes, payload
  <2>2. fresh'[t] <=> new
    BY <1>3 DEF ThreadTypes
  <2> QED BY <2>1, <2>2 DEF IsHopeful
<1>8. \A q \in Payload : IsHopeful(t, q) <=> (fresh[t] /\ q = p)
  BY <1>1 DEF IsHopeful
<1> HIDE DEF p, x, lastHash
<1>9. ASSUME NEW q \in Payload
      PROVE  /\ passes'[q] \in Nat
             /\ passes'[q] + Cardinality(Hopeful(q)')
                  <= Cardinality(bits' \cap HashBits(q))
  <2> DEFINE F == Hopeful(q)
             F2 == Hopeful(q)'
             B == bits \cap HashBits(q)
             B2 == bits' \cap HashBits(q)
  <2>1. IsFiniteSet(F) /\ IsFiniteSet(B2) /\ B \subseteq B2
    BY <1>3, HopefulFinite, SetBitsFinite DEF Hopeful
  <2>2. passes[q] \in Nat /\ passes[q] + Cardinality(F) <= Cardinality(B)
    BY DEF PassInv
  <2>3. \A u \in SendThread : u # t => (u \in F2 <=> u \in F)
    BY <1>5 DEF Hopeful
  <2>4. F \subseteq SendThread /\ F2 \subseteq SendThread
    BY DEF Hopeful
  <2>5. t \in F <=> (fresh[t] /\ q = p)
    BY <1>8 DEF Hopeful
  <2>6. t \in F2 <=> (~lastHash /\ new /\ q = p)
    BY <1>6, <1>7 DEF Hopeful
  <2>7. passes'[q] = IF lastHash /\ new /\ q = p THEN passes[q] + 1 ELSE passes[q]
    BY <1>1, <1>3 DEF PassInv
  <2>8. q = p => B2 = B \cup {x}
    BY <1>2, <1>3
  <2> HIDE DEF F, F2, B, B2
  <2>9. Paid(passes[q], passes'[q], F, F2, B, B2, t, x)
    <3>1. CASE q # p \/ ~new
      BY <2>3, <2>4, <2>5, <2>6, <2>7, <3>1 DEF Paid
    <3>2. CASE q = p /\ fresh[t] /\ lastHash
      BY <2>3, <2>4, <2>5, <2>6, <2>7, <3>2 DEF Paid
    <3>3. CASE q = p /\ fresh[t] /\ ~lastHash
      BY <2>3, <2>4, <2>5, <2>6, <2>7, <3>3 DEF Paid
    <3>4. CASE q = p /\ ~fresh[t] /\ x \notin bits
      <4>1. x \notin B
        BY <3>4 DEF B
      <4>2. CASE lastHash
        BY <2>3, <2>4, <2>5, <2>6, <2>7, <2>8, <3>4, <4>1, <4>2 DEF Paid
      <4>3. CASE ~lastHash
        BY <2>3, <2>4, <2>5, <2>6, <2>7, <2>8, <3>4, <4>1, <4>3, SMTT(30) DEF Paid
      <4> QED BY <4>2, <4>3
    <3> QED BY <3>1, <3>2, <3>3, <3>4
  <2>10. passes'[q] \in Nat /\ passes'[q] + Cardinality(F2) <= Cardinality(B2)
    BY <2>1, <2>2, <2>9, OneBitEach
  <2> QED BY <2>10 DEF F2, B2
<1>10. passes' \in [Payload -> Nat]
  BY <1>3, <1>9 DEF PassInv
<1>11. \A q \in Payload : HashBits(q)' = HashBits(q)
  BY DEF HashBits
<1> QED BY <1>9, <1>10, <1>11 DEF PassInv

\* Every step keeps the accounts.
LEMMA PassStep == ASSUME ThreadTypes, PassInv, [Next]_vars PROVE PassInv'
<1>1. ASSUME NEW t \in SendThread, UNCHANGED <<bits, passes, pkt, fresh>>,
             ~(pc[t] = "dedup" /\ fresh[t]), ~(pc'[t] = "dedup" /\ fresh[t]),
             \A u \in SendThread : u # t => pc'[u] = pc[u] /\ cur'[u] = cur[u]
      PROVE  PassInv'
  <2>1. ASSUME NEW p \in Payload, NEW u \in SendThread
        PROVE  IsHopeful(u, p)' <=> IsHopeful(u, p)
    <3>1. CASE u = t
      BY <1>1, <3>1 DEF IsHopeful
    <3>2. CASE u # t
      BY <1>1, <3>2 DEF IsHopeful, payload
    <3> QED BY <3>1, <3>2
  <2> QED BY <1>1, <2>1, NoPass
<1>2. ASSUME NEW t \in SendThread, NEW b \in Batches, ReceiveBatch(t, b) PROVE PassInv'
  <2>1. /\ pc[t] = "select" /\ pc' = [pc EXCEPT ![t] = "offer"]
        /\ cur' = [cur EXCEPT ![t] = b] /\ UNCHANGED <<bits, passes, pkt, fresh>>
    BY <1>2 DEF ReceiveBatch
  <2>2. pc'[t] = "offer" /\ \A u \in SendThread : u # t => pc'[u] = pc[u] /\ cur'[u] = cur[u]
    BY <2>1 DEF ThreadTypes
  <2> QED BY <1>1, <2>1, <2>2
<1>3. ASSUME NEW t \in SendThread, OfferBatch(t) PROVE PassInv'
  <2>1. /\ pc[t] = "offer" /\ pc' = [pc EXCEPT ![t] = "dedup"]
        /\ cur' = cur /\ UNCHANGED <<bits, passes, pkt, fresh>>
    BY <1>3 DEF OfferBatch
  <2>2. ~fresh[t] /\ \A u \in SendThread : u # t => pc'[u] = pc[u] /\ cur'[u] = cur[u]
    BY <2>1 DEF ThreadTypes, ThreadOK
  <2> QED BY <1>1, <2>1, <2>2
<1>4. ASSUME NEW t \in SendThread, FinishBatch(t) PROVE PassInv'
  <2>1. /\ pc[t] = "send" /\ pc' = [pc EXCEPT ![t] = "select"]
        /\ cur' = [cur EXCEPT ![t] = <<>>] /\ UNCHANGED <<bits, passes, pkt, fresh>>
    BY <1>4 DEF FinishBatch
  <2>2. pc'[t] = "select" /\ \A u \in SendThread : u # t => pc'[u] = pc[u] /\ cur'[u] = cur[u]
    BY <2>1 DEF ThreadTypes
  <2> QED BY <1>1, <2>1, <2>2
<1>5. CASE ResetDeduper
  <2>1. /\ \A t \in SendThread : pc[t] # "dedup"
        /\ bits' = {} /\ passes' = [p \in Payload |-> 0] /\ pc' = pc
    BY <1>5 DEF ResetDeduper, Locked, threadVars
  <2>2. ASSUME NEW p \in Payload
        PROVE  /\ Hopeful(p)' = {} /\ bits' \cap HashBits(p)' = {} /\ passes'[p] = 0
    BY <2>1 DEF Hopeful, IsHopeful
  <2>3. \A p \in Payload :
          passes'[p] + Cardinality(Hopeful(p)') <= Cardinality(bits' \cap HashBits(p)')
    BY <2>2, FS_EmptySet
  <2> QED BY <2>1, <2>3 DEF PassInv
<1>6. CASE \/ (\E t \in SendThread : (\E d \in Dest : SendOk(t, d) \/ SendErr(t, d))
                                     \/ RefreshLocal(t))
           \/ Reconstruct \/ RefreshDestinations \/ ReportMetrics \/ SwapCounter
           \/ AddCumulative \/ UNCHANGED vars
  <2>1. UNCHANGED <<bits, passes, pc, cur, pkt, fresh>>
    BY <1>6 DEF SendOk, SendErr, Attempt, RefreshLocal, Reconstruct,
       RefreshDestinations, ReportMetrics, SwapCounter, AddCumulative, vars, threadVars
  <2> QED BY <2>1, NoPass DEF IsHopeful, payload
<1> QED BY <1>2, <1>3, <1>4, <1>5, <1>6, DedupPasses
        DEF Next, SendLoop, Handle, Accessory

\* No payload has passed, and no bit is set.
LEMMA PassInit == ASSUME Init PROVE PassInv
<1>1. /\ bits = {} /\ passes = [p \in Payload |-> 0]
      /\ pc = [t \in SendThread |-> "select"]
  BY DEF Init
<1>2. ASSUME NEW p \in Payload
      PROVE  Hopeful(p) = {} /\ bits \cap HashBits(p) = {} /\ passes[p] = 0
  BY <1>1 DEF Hopeful, IsHopeful
<1>3. \A p \in Payload :
        passes[p] + Cardinality(Hopeful(p)) <= Cardinality(bits \cap HashBits(p))
  BY <1>2, FS_EmptySet
<1> QED BY <1>1, <1>3 DEF PassInv

\* Threads that race through Deduper::dedup with copies of a payload let it
\* through at most once per hash between two resets, for any number of threads
\* and any hashes, colliding ones included.
THEOREM DuplicationIsBounded == Spec => []BoundedDuplication
<1>1. Init => ThreadTypes /\ PassInv
  BY ThreadInit, PassInit
<1>2. (ThreadTypes /\ PassInv) /\ [Next]_vars => (ThreadTypes /\ PassInv)'
  BY ThreadStep, PassStep
<1>3. ThreadTypes /\ PassInv => BoundedDuplication
  <2> SUFFICES ASSUME PassInv, NEW p \in Payload PROVE passes[p] <= Len(Hashes[p])
    BY DEF BoundedDuplication
  <2>1. passes[p] \in Nat
        /\ passes[p] + Cardinality(Hopeful(p)) <= Cardinality(bits \cap HashBits(p))
    BY DEF PassInv
  <2>2. Cardinality(Hopeful(p)) \in Nat
    BY HopefulFinite DEF Hopeful
  <2>3. Len(Hashes[p]) \in Nat /\ Cardinality(bits \cap HashBits(p)) \in Nat
        /\ Cardinality(bits \cap HashBits(p)) <= Len(Hashes[p])
    BY HashFacts, SetBitsFinite
  <2> QED BY <2>1, <2>2, <2>3
<1> QED BY <1>1, <1>2, <1>3, PTL DEF Spec

-----------------------------------------------------------------------------
(* What the threads share *)

\* The packets a thread sends are those of its batch.
LEMMA SharedSend ==
    ASSUME ThreadTypes, SharedTypes, NEW t \in SendThread, NEW d \in Dest, Attempt(t, d),
           failures' \in Nat
    PROVE  SharedTypes'
<1>1. /\ dests' = [dests EXCEPT ![t] = @ \ {d}]
      /\ attempted' = attempted \cup {<<cur[t][i], d>> : i \in kept[t]}
      /\ UNCHANGED <<local_dest_sockets, unioned_dest_sockets, bits, reconstruct,
                     batches, rounds, arrived>>
  BY DEF Attempt, Outgoing, accessoryVars
<1>2. dests' \in [SendThread -> SUBSET Dest]
  BY <1>1 DEF SharedTypes
<1>3. \A i \in kept[t] : cur[t][i] \in Payload
  <2>1. cur[t] \in Seq(Payload) /\ kept[t] \subseteq 1 .. Len(cur[t])
    BY DEF ThreadTypes
  <2> QED BY <2>1
<1>4. attempted' \subseteq Payload \X Dest
  BY <1>1, <1>3 DEF SharedTypes
<1> QED BY <1>1, <1>2, <1>4 DEF SharedTypes

\* Every step keeps these types; try_send keeps the channel's bound.
LEMMA SharedStep ==
    ASSUME ThreadTypes, SharedTypes, [Next]_vars PROVE SharedTypes'
<1> DEFINE rest == <<dests, local_dest_sockets, unioned_dest_sockets, bits, reconstruct,
                     batches, failures, rounds, arrived, attempted>>
<1>1. ASSUME NEW t \in SendThread, NEW b \in Batches, ReceiveBatch(t, b)
      PROVE  SharedTypes'
  <2>1. /\ batches' = batches + 1
        /\ arrived' = arrived \cup {b[i] : i \in 1 .. Len(b)}
        /\ UNCHANGED <<dests, local_dest_sockets, unioned_dest_sockets, bits,
                       reconstruct, failures, rounds, attempted>>
    BY <1>1 DEF ReceiveBatch, accessoryVars
  <2>2. \A i \in 1 .. Len(b) : b[i] \in Payload
    BY BatchFacts
  <2>3. arrived' \subseteq Payload /\ batches' \in Nat
    BY <2>1, <2>2 DEF SharedTypes
  <2> QED BY <2>1, <2>3 DEF SharedTypes
<1>2. ASSUME NEW t \in SendThread, OfferBatch(t) PROVE SharedTypes'
  <2>1. /\ reconstruct' = IF Len(reconstruct) < ReconstructCap
                          THEN Append(reconstruct, cur[t]) ELSE reconstruct
        /\ UNCHANGED <<dests, local_dest_sockets, unioned_dest_sockets, bits,
                       batches, failures, rounds, arrived, attempted>>
    BY <1>2 DEF OfferBatch, Offered, accessoryVars
  <2>2. cur[t] \in Seq(Payload) /\ reconstruct \in Seq(Seq(Payload))
        /\ Len(reconstruct) <= ReconstructCap /\ ReconstructCap \in Nat
    BY ForwarderAssumption DEF ThreadTypes, SharedTypes
  <2>3. reconstruct' \in Seq(Seq(Payload)) /\ Len(reconstruct') <= ReconstructCap
    <3>1. CASE Len(reconstruct) < ReconstructCap
      <4>1. reconstruct' = Append(reconstruct, cur[t])
        BY <2>1, <3>1
      <4>2. reconstruct' \in Seq(Seq(Payload)) /\ Len(reconstruct') = Len(reconstruct) + 1
        BY <2>2, <4>1
      <4> QED BY <2>2, <3>1, <4>2
    <3>2. CASE ~(Len(reconstruct) < ReconstructCap)
      BY <2>1, <2>2, <3>2
    <3> QED BY <3>1, <3>2
  <2> QED BY <2>1, <2>3 DEF SharedTypes
<1>3. ASSUME NEW t \in SendThread, DedupStep(t) PROVE SharedTypes'
  <2>1. /\ bits' = bits \cup {Hashes[payload(t)][hash[t]]}
        /\ dests' = dests \/ dests' = [dests EXCEPT ![t] = local_dest_sockets[t]]
        /\ UNCHANGED <<local_dest_sockets, unioned_dest_sockets, reconstruct,
                       batches, failures, rounds, arrived, attempted>>
    BY <1>3 DEF DedupStep, accessoryVars
  <2>2. bits' \subseteq Nat
    BY <1>3, <2>1, DedupAt DEF DedupStep, SharedTypes
  <2>3. dests' \in [SendThread -> SUBSET Dest]
    BY <2>1 DEF SharedTypes
  <2> QED BY <2>1, <2>2, <2>3 DEF SharedTypes
<1>4. ASSUME NEW t \in SendThread, NEW d \in Dest, SendOk(t, d) \/ SendErr(t, d)
      PROVE  SharedTypes'
  <2>1. Attempt(t, d) /\ (failures' = failures \/ failures' = failures + 1)
    BY <1>4 DEF SendOk, SendErr
  <2>2. failures' \in Nat
    BY <2>1 DEF SharedTypes
  <2> QED BY <2>1, <2>2, SharedSend
<1>5. ASSUME NEW t \in SendThread, RefreshLocal(t) PROVE SharedTypes'
  <2>1. /\ local_dest_sockets' = [local_dest_sockets EXCEPT ![t] = unioned_dest_sockets]
        /\ UNCHANGED <<dests, unioned_dest_sockets, bits, reconstruct, batches,
                       failures, rounds, arrived, attempted>>
    BY <1>5 DEF RefreshLocal, LatestList, accessoryVars
  <2> QED BY <2>1 DEF SharedTypes
<1>6. CASE Reconstruct
  <2>1. /\ reconstruct # <<>> /\ reconstruct' = Tail(reconstruct)
        /\ UNCHANGED <<dests, local_dest_sockets, unioned_dest_sockets, bits,
                       batches, failures, rounds, arrived, attempted>>
    BY <1>6 DEF Reconstruct, threadVars, accessoryVars
  <2>2. /\ reconstruct \in Seq(Seq(Payload)) /\ Len(reconstruct) <= ReconstructCap
        /\ ReconstructCap \in Nat
    BY ForwarderAssumption DEF SharedTypes
  <2>3. reconstruct' \in Seq(Seq(Payload)) /\ Len(reconstruct') = Len(reconstruct) - 1
    BY <2>1, <2>2
  <2>4. Len(reconstruct') <= ReconstructCap
    BY <2>2, <2>3
  <2> QED BY <2>1, <2>3, <2>4 DEF SharedTypes
<1>7. CASE RefreshDestinations
  <2>1. UNCHANGED <<dests, local_dest_sockets, bits, reconstruct, batches, failures,
                    rounds, arrived, attempted>>
    BY <1>7 DEF RefreshDestinations, threadVars, accessoryVars
  <2>2. unioned_dest_sockets' \subseteq Dest
    BY <1>7 DEF RefreshDestinations, UnionedDestinations, Dest
  <2> QED BY <2>1, <2>2 DEF SharedTypes
<1>8. CASE ResetDeduper \/ ReportMetrics
  <2>1. /\ rounds' = rounds + 1 /\ (bits' = bits \/ bits' = {})
        /\ UNCHANGED <<dests, local_dest_sockets, unioned_dest_sockets, reconstruct,
                       batches, failures, arrived, attempted>>
    BY <1>8 DEF ResetDeduper, ReportMetrics, threadVars
  <2>2. rounds' \in Nat
    BY <2>1 DEF SharedTypes
  <2>3. bits' \subseteq Nat
    BY <2>1 DEF SharedTypes
  <2> QED BY <2>1, <2>2, <2>3 DEF SharedTypes
<1>9. CASE \/ (\E t \in SendThread : FinishBatch(t))
           \/ SwapCounter \/ AddCumulative \/ UNCHANGED vars
  <2>1. UNCHANGED rest
    BY <1>9 DEF FinishBatch, SwapCounter, AddCumulative, vars, threadVars, accessoryVars
  <2> QED BY <2>1 DEF SharedTypes
<1> QED BY <1>1, <1>2, <1>3, <1>4, <1>5, <1>6, <1>7, <1>8, <1>9
        DEF Next, SendLoop, Handle, Accessory

\* The deduper and the channel start empty, the lists with the static addresses.
LEMMA SharedInit == ASSUME Init PROVE SharedTypes
<1>1. /\ dests = [t \in SendThread |-> {}] /\ unioned_dest_sockets = Static
      /\ local_dest_sockets = [t \in SendThread |-> Static] /\ bits = {}
      /\ reconstruct = <<>> /\ batches = 0 /\ failures = 0 /\ rounds = 0
      /\ arrived = {} /\ attempted = {}
  BY DEF Init
<1>2. Static \subseteq Dest
  BY DEF Dest
<1>3. reconstruct \in Seq(Seq(Payload)) /\ Len(reconstruct) <= ReconstructCap
  BY <1>1, ForwarderAssumption
<1> QED BY <1>1, <1>2, <1>3 DEF SharedTypes

\* Type correctness: the dedup loop keeps only packets of its batch, nothing is
\* sent to an address that is not configured or discovered, and try_send never
\* fills the reconstruct channel beyond its capacity.
THEOREM TypesCorrect == Spec => []TypeOK
<1> DEFINE Inv == ThreadTypes /\ CounterInv /\ PassInv /\ SharedTypes
<1>1. Init => Inv
  BY SharedInit, ThreadInit, CounterInit, PassInit
<1>2. Inv /\ [Next]_vars => Inv'
  BY ThreadStep, CounterStep, PassStep, SharedStep
<1>3. Inv => TypeOK
  BY DEF TypeOK, ThreadTypes, CounterInv, CounterTypes, PassInv, SharedTypes
<1> QED BY <1>1, <1>2, <1>3, PTL DEF Spec

-----------------------------------------------------------------------------
(* The first copy *)

\* Thread t will send p to d: it has set a bit of p and is still at p, or it has
\* kept a copy of p in the batch that it has not sent to d yet.
Carries(t, p, d) ==
    \/ IsHopeful(t, p)
    \/ /\ pc[t] = "dedup" \/ (pc[t] = "send" /\ d \in dests[t])
       /\ \E i \in kept[t] : cur[t][i] = p

OnItsWay(p, d) == <<p, d>> \in attempted \/ \E t \in SendThread : Carries(t, p, d)

\* Thread t has a copy of p in front of the deduper.
Waits(t, p) ==
    \/ pc[t] = "offer" /\ \E i \in 1 .. Len(cur[t]) : cur[t][i] = p
    \/ pc[t] = "dedup" /\ \E i \in pkt[t] .. Len(cur[t]) : cur[t][i] = p

\* The bits of a packet are set in order, and stay set as no reset comes between.
PrefixSet ==
    \A t \in SendThread : pc[t] = "dedup" =>
        \A j \in 1 .. hash[t] - 1 : Hashes[payload(t)][j] \in bits

\* Whoever finds a bit of its own payload set may drop its copy: another copy is
\* on its way to every destination.
BitsAreKept ==
    \A p \in Payload, d \in Static : OwnBits(p) \cap bits # {} => OnItsWay(p, d)

FirstInv ==
    /\ \A t \in SendThread : local_dest_sockets[t] = Static
    /\ PrefixSet
    /\ BitsAreKept
    /\ \A p \in arrived, d \in Static :
          OnItsWay(p, d) \/ \E t \in SendThread : Waits(t, p)

\* Thread u is where it was.
Still(u) ==
    /\ pc'[u] = pc[u] /\ cur'[u] = cur[u] /\ pkt'[u] = pkt[u] /\ hash'[u] = hash[u]
    /\ fresh'[u] = fresh[u] /\ kept'[u] = kept[u] /\ dests'[u] = dests[u]

\* A step moves one send thread at most.
LEMMA ThreadMoves ==
    ASSUME ThreadTypes, SharedTypes, [Next]_vars, NEW u \in SendThread
    PROVE  \/ Still(u)
           \/ \E b \in Batches : ReceiveBatch(u, b)
           \/ OfferBatch(u) \/ DedupStep(u) \/ FinishBatch(u)
           \/ \E d \in Dest : Attempt(u, d)
<1> USE DEF ThreadTypes, SharedTypes
<1>1. ASSUME NEW t \in SendThread, t # u, NEW b \in Batches, ReceiveBatch(t, b)
      PROVE  Still(u)
  BY <1>1 DEF ReceiveBatch, Still
<1>2. ASSUME NEW t \in SendThread, t # u, OfferBatch(t) PROVE Still(u)
  BY <1>2 DEF OfferBatch, Still
<1>3. ASSUME NEW t \in SendThread, t # u, DedupStep(t) PROVE Still(u)
  <2>1. /\ cur' = cur /\ (pc' = pc \/ pc' = [pc EXCEPT ![t] = "send"])
        /\ dests' = dests \/ dests' = [dests EXCEPT ![t] = local_dest_sockets[t]]
    BY <1>3 DEF DedupStep
  <2>2. pc'[u] = pc[u] /\ dests'[u] = dests[u]
    BY <1>3, <2>1
  <2>3. hash'[u] = hash[u] /\ pkt'[u] = pkt[u]
    BY <1>3 DEF DedupStep
  <2>4. fresh'[u] = fresh[u]
    BY <1>3 DEF DedupStep
  <2>5. kept'[u] = kept[u]
    BY <1>3 DEF DedupStep
  <2> QED BY <2>1, <2>2, <2>3, <2>4, <2>5 DEF Still
<1>4. ASSUME NEW t \in SendThread, t # u, NEW d \in Dest, Attempt(t, d) PROVE Still(u)
  BY <1>4 DEF Attempt, Still
<1>5. ASSUME NEW t \in SendThread, t # u, FinishBatch(t) PROVE Still(u)
  BY <1>5 DEF FinishBatch, Still
<1>6. CASE \/ (\E t \in SendThread : RefreshLocal(t)) \/ Reconstruct
           \/ RefreshDestinations \/ ResetDeduper \/ ReportMetrics \/ SwapCounter
           \/ AddCumulative \/ UNCHANGED vars
  BY <1>6 DEF RefreshLocal, Reconstruct, RefreshDestinations, ResetDeduper,
     ReportMetrics, SwapCounter, AddCumulative, vars, threadVars, Still
<1> HIDE DEF ThreadTypes, SharedTypes
<1> QED BY <1>1, <1>2, <1>3, <1>4, <1>5, <1>6
        DEF Next, SendLoop, Handle, SendOk, SendErr, Accessory

\* One fetch_or, as thread t sees it.
LEMMA DedupShape ==
    ASSUME ThreadTypes, SharedTypes, NEW t \in SendThread, DedupStep(t)
    PROVE  LET p == payload(t)
               x == Hashes[p][hash[t]]
               new == fresh[t] \/ x \notin bits
               lastHash == hash[t] = Len(Hashes[p])
           IN  /\ bits' = bits \cup {x} /\ cur'[t] = cur[t]
               /\ kept[t] \subseteq kept'[t]
               /\ ~lastHash => /\ pc'[t] = "dedup" /\ pkt'[t] = pkt[t]
                               /\ hash'[t] = hash[t] + 1
                               /\ fresh'[t] <=> new
               /\ lastHash => /\ new => pkt[t] \in kept'[t]
                              /\ hash'[t] = 1
               /\ lastHash /\ pkt[t] # Len(cur[t]) =>
                     pc'[t] = "dedup" /\ pkt'[t] = pkt[t] + 1
               /\ lastHash /\ pkt[t] = Len(cur[t]) =>
                     pc'[t] = "send" /\ dests'[t] = local_dest_sockets[t]
<1> DEFINE p == payload(t)
           x == Hashes[p][hash[t]]
           new == fresh[t] \/ x \notin bits
           lastHash == hash[t] = Len(Hashes[p])
<1> USE DEF ThreadTypes, SharedTypes
<1>1. pc[t] = "dedup" /\ bits' = bits \cup {x} /\ cur'[t] = cur[t]
  BY DEF DedupStep
<1>2. /\ hash'[t] = IF lastHash THEN 1 ELSE hash[t] + 1
      /\ pkt'[t] = IF lastHash /\ pkt[t] = Len(cur[t]) THEN 1
                   ELSE IF lastHash THEN pkt[t] + 1 ELSE pkt[t]
  BY DEF DedupStep
<1>3. fresh'[t] <=> new /\ ~lastHash
  <2>1. fresh' = [fresh EXCEPT ![t] = new /\ ~lastHash]
    BY DEF DedupStep, SetsNewBit
  <2>2. fresh \in [SendThread -> BOOLEAN]
    OBVIOUS
  <2> HIDE DEF new, lastHash
  <2>3. fresh'[t] = (new /\ ~lastHash)
    BY ONLY <2>1, <2>2, t \in SendThread
  <2> QED BY ONLY <2>3, Zenon
<1>4. kept'[t] = IF lastHash /\ new THEN kept[t] \cup {pkt[t]} ELSE kept[t]
  <2>1. kept' = [kept EXCEPT ![t] = IF lastHash /\ new THEN kept[t] \cup {pkt[t]}
                                    ELSE kept[t]]
    BY DEF DedupStep, SetsNewBit
  <2> HIDE DEF new, lastHash
  <2> QED BY <2>1
<1>5. IF lastHash /\ pkt[t] = Len(cur[t])
      THEN pc'[t] = "send" /\ dests'[t] = local_dest_sockets[t]
      ELSE pc'[t] = pc[t]
  BY DEF DedupStep
<1> HIDE DEF p, x, new, lastHash
<1>6. /\ bits' = bits \cup {x} /\ cur'[t] = cur[t]
      /\ kept[t] \subseteq kept'[t]
      /\ ~lastHash => /\ pc'[t] = "dedup" /\ pkt'[t] = pkt[t]
                      /\ hash'[t] = hash[t] + 1
                      /\ fresh'[t] <=> new
      /\ lastHash => /\ new => pkt[t] \in kept'[t]
                     /\ hash'[t] = 1
      /\ lastHash /\ pkt[t] # Len(cur[t]) =>
            pc'[t] = "dedup" /\ pkt'[t] = pkt[t] + 1
      /\ lastHash /\ pkt[t] = Len(cur[t]) =>
            pc'[t] = "send" /\ dests'[t] = local_dest_sockets[t]
  BY <1>1, <1>2, <1>3, <1>4, <1>5
<1> QED BY <1>6 DEF p, x, new, lastHash

\* What is on its way stays on its way until it has been sent: no reset of the
\* deduper and no other thread takes it back.
LEMMA WayKept ==
    ASSUME ThreadTypes, SharedTypes, [Next]_vars, NEW p \in Payload, NEW d \in Static,
           \A t \in SendThread : local_dest_sockets[t] = Static,
           OnItsWay(p, d)
    PROVE  OnItsWay(p, d)'
<1>1. attempted \subseteq attempted'
  <2>1. ASSUME NEW t \in SendThread, SendLoop(t) PROVE attempted \subseteq attempted'
    BY <2>1 DEF SendLoop, Handle, SendOk, SendErr, ReceiveBatch, OfferBatch, DedupStep,
       Attempt, FinishBatch, RefreshLocal
  <2>2. CASE Reconstruct \/ RefreshDestinations \/ Accessory \/ UNCHANGED vars
    BY <2>2 DEF Accessory, Reconstruct, RefreshDestinations, ResetDeduper, ReportMetrics,
       SwapCounter, AddCumulative, vars
  <2> QED BY <2>1, <2>2 DEF Next
<1>2. CASE <<p, d>> \in attempted
  BY <1>1, <1>2 DEF OnItsWay
<1>3. ASSUME NEW u \in SendThread, Carries(u, p, d) PROVE OnItsWay(p, d)'
  <2> SUFFICES ASSUME <<p, d>> \notin attempted' PROVE Carries(u, p, d)'
    BY DEF OnItsWay
  <2>1. CASE Still(u)
    BY <1>3, <2>1 DEF Carries, Still, IsHopeful, payload
  <2>2. CASE (\E b \in Batches : ReceiveBatch(u, b)) \/ OfferBatch(u)
    BY <1>3, <2>2 DEF ReceiveBatch, OfferBatch, Carries, IsHopeful
  <2>3. CASE DedupStep(u)
    <3> DEFINE lastHash == hash[u] = Len(Hashes[payload(u)])
    <3>1. /\ cur'[u] = cur[u] /\ kept[u] \subseteq kept'[u]
          /\ ~lastHash => /\ pc'[u] = "dedup" /\ pkt'[u] = pkt[u]
                          /\ fresh[u] => fresh'[u]
          /\ lastHash => /\ fresh[u] => pkt[u] \in kept'[u]
                         /\ pc'[u] = "dedup" \/ (pc'[u] = "send" /\ d \in dests'[u])
      BY <2>3, DedupShape
    <3>2. pc[u] = "dedup"
      BY <2>3 DEF DedupStep
    <3>3. CASE \E i \in kept[u] : cur[u][i] = p
      <4>1. pc'[u] = "dedup" \/ (pc'[u] = "send" /\ d \in dests'[u])
        BY <3>1
      <4> QED BY <3>1, <3>3, <4>1 DEF Carries
    <3>4. CASE IsHopeful(u, p) /\ lastHash
      <4>1. pkt[u] \in kept'[u] /\ cur'[u][pkt[u]] = p
        BY <3>1, <3>4 DEF IsHopeful, payload
      <4> QED BY <3>1, <3>4, <4>1 DEF Carries
    <3>5. CASE IsHopeful(u, p) /\ ~lastHash
      BY <3>1, <3>5 DEF Carries, IsHopeful, payload
    <3> QED BY <1>3, <3>2, <3>3, <3>4, <3>5 DEF Carries
  <2>4. CASE FinishBatch(u)
    BY <1>3, <2>4 DEF FinishBatch, Carries, IsHopeful
  <2>5. ASSUME NEW e \in Dest, Attempt(u, e) PROVE Carries(u, p, d)'
    <3>1. /\ pc[u] = "send" /\ dests' = [dests EXCEPT ![u] = dests[u] \ {e}]
          /\ attempted' = attempted \cup {<<cur[u][i], e>> : i \in kept[u]}
          /\ UNCHANGED <<pc, cur, kept>>
      BY <2>5 DEF Attempt, Outgoing
    <3>2. PICK i \in kept[u] : cur[u][i] = p /\ d \in dests[u]
      BY <1>3, <3>1 DEF Carries, IsHopeful
    <3>3. e # d
      BY <3>1, <3>2
    <3>4. d \in dests'[u]
      BY <3>1, <3>2, <3>3 DEF SharedTypes
    <3> QED BY <3>1, <3>2, <3>4 DEF Carries
  <2> QED BY <2>1, <2>2, <2>3, <2>4, <2>5, ThreadMoves
<1> QED BY <1>2, <1>3 DEF OnItsWay

\* A thread that sets a bit of its own payload is the one that carries it.
LEMMA SetterCarries ==
    ASSUME ThreadTypes, SharedTypes, NEW t \in SendThread, DedupStep(t), NEW d \in Static,
           \A u \in SendThread : local_dest_sockets[u] = Static,
           NEW p, p = payload(t), Hashes[p][hash[t]] \notin bits
    PROVE  Carries(t, p, d)'
<1> DEFINE lastHash == hash[t] = Len(Hashes[p])
<1>1. /\ cur'[t] = cur[t]
      /\ ~lastHash => pc'[t] = "dedup" /\ pkt'[t] = pkt[t] /\ fresh'[t]
      /\ lastHash => /\ pkt[t] \in kept'[t]
                     /\ pc'[t] = "dedup" \/ (pc'[t] = "send" /\ d \in dests'[t])
  BY DedupShape
<1>2. CASE lastHash
  <2>1. pkt[t] \in kept'[t] /\ cur'[t][pkt[t]] = p
    BY <1>1, <1>2 DEF payload
  <2> QED BY <1>1, <1>2, <2>1 DEF Carries
<1>3. CASE ~lastHash
  BY <1>1, <1>3 DEF Carries, IsHopeful, payload
<1> QED BY <1>2, <1>3

\* How a step may change the deduper's bits: one fetch_or, or a reset while no
\* thread is in the dedup loop.
LEMMA BitsStep ==
    ASSUME [Next]_vars
    PROVE  \/ bits' = bits
           \/ \E t \in SendThread : DedupStep(t)
           \/ bits' = {} /\ \A t \in SendThread : pc[t] # "dedup" /\ pc'[t] = pc[t]
<1>1. ASSUME NEW t \in SendThread, SendLoop(t) PROVE bits' = bits \/ DedupStep(t)
  BY <1>1 DEF SendLoop, Handle, SendOk, SendErr, ReceiveBatch, OfferBatch,
     Attempt, FinishBatch, RefreshLocal
<1>2. CASE ResetDeduper
  BY <1>2 DEF ResetDeduper, Locked, threadVars
<1>3. CASE \/ Reconstruct \/ RefreshDestinations \/ ReportMetrics \/ SwapCounter
           \/ AddCumulative \/ UNCHANGED vars
  BY <1>3 DEF Reconstruct, RefreshDestinations, ReportMetrics, SwapCounter,
     AddCumulative, vars
<1> QED BY <1>1, <1>2, <1>3 DEF Next, Accessory

\* The bits in front of a thread's hash stay set.
LEMMA PrefixStep ==
    ASSUME ThreadTypes, SharedTypes, PrefixSet, [Next]_vars
    PROVE  PrefixSet'
<1> SUFFICES ASSUME NEW u \in SendThread, pc'[u] = "dedup",
                    NEW j \in 1 .. hash'[u] - 1
             PROVE  Hashes[cur'[u][pkt'[u]]][j] \in bits'
  BY DEF PrefixSet, payload
<1>1. bits \subseteq bits' \/ pc'[u] # "dedup"
  <2>1. ASSUME NEW t \in SendThread, DedupStep(t) PROVE bits \subseteq bits'
    BY <2>1 DEF DedupStep
  <2> QED BY <2>1, BitsStep
<1>2. CASE Still(u)
  BY <1>1, <1>2 DEF Still, PrefixSet, payload
<1>3. CASE (\E b \in Batches : ReceiveBatch(u, b)) \/ FinishBatch(u)
  BY <1>3 DEF ReceiveBatch, FinishBatch, ThreadTypes
<1>4. CASE OfferBatch(u)
  <2>1. hash'[u] = 1
    BY <1>4 DEF OfferBatch, ThreadTypes, ThreadOK
  <2> QED BY <2>1
<1>5. CASE \E d \in Dest : Attempt(u, d)
  BY <1>5 DEF Attempt
<1>6. CASE DedupStep(u)
  <2> DEFINE p == payload(u)
             lastHash == hash[u] = Len(Hashes[p])
  <2>1. /\ bits' = bits \cup {Hashes[p][hash[u]]} /\ cur'[u] = cur[u]
        /\ ~lastHash => pkt'[u] = pkt[u] /\ hash'[u] = hash[u] + 1
        /\ lastHash => hash'[u] = 1
    BY <1>6, DedupShape
  <2> HIDE DEF p, lastHash
  <2>2. CASE lastHash
    <3>1. hash'[u] = 1
      BY <2>1, <2>2
    <3> QED BY <3>1
  <2>3. CASE ~lastHash
    <3>1. hash[u] \in Nat /\ pc[u] = "dedup"
      BY <1>6 DEF ThreadTypes, DedupStep
    <3>2. j \in 1 .. hash[u] - 1 \/ j = hash[u]
      <4>1. hash'[u] = hash[u] + 1
        BY <2>1, <2>3
      <4> QED BY <3>1, <4>1
    <3>3. cur'[u][pkt'[u]] = p
      BY <2>1, <2>3 DEF payload, p
    <3>4. j \in 1 .. hash[u] - 1 => Hashes[p][j] \in bits
      BY <3>1 DEF PrefixSet, p
    <3> QED BY <2>1, <3>2, <3>3, <3>4
  <2> QED BY <2>2, <2>3
<1> QED BY <1>2, <1>3, <1>4, <1>5, <1>6, ThreadMoves

\* Whoever sets a bit that only one payload has carries that payload.
LEMMA BitsAreKeptStep ==
    ASSUME ThreadTypes, SharedTypes, BitsAreKept, [Next]_vars,
           \A t \in SendThread : local_dest_sockets[t] = Static
    PROVE  BitsAreKept'
<1> SUFFICES ASSUME NEW p \in Payload, NEW d \in Static, NEW b \in OwnBits(p), b \in bits'
             PROVE  OnItsWay(p, d)'
  BY DEF BitsAreKept, OwnBits, HashBits
<1>1. CASE b \in bits
  BY <1>1, WayKept DEF BitsAreKept
<1>2. CASE b \notin bits
  <2>1. PICK t \in SendThread : DedupStep(t)
    BY <1>2, BitsStep
  <2>2. b = Hashes[payload(t)][hash[t]]
    BY <1>2, <2>1 DEF DedupStep
  <2>3. payload(t) \in Payload /\ b \in HashBits(payload(t))
    BY <2>1, <2>2, DedupAt DEF DedupStep, HashBits
  <2>4. payload(t) = p
    BY <2>3 DEF OwnBits
  <2>5. Carries(t, p, d)'
    BY <1>2, <2>1, <2>2, <2>4, SetterCarries
  <2> QED BY <2>5 DEF OnItsWay
<1> QED BY <1>1, <1>2

\* A copy that waits at the deduper is kept, or dropped because of another copy.
LEMMA WaitingStep ==
    ASSUME ThreadTypes, SharedTypes, PayloadsDiffer, PrefixSet, BitsAreKept',
           [Next]_vars, NEW p \in Payload, NEW d \in Static,
           NEW u \in SendThread, Waits(u, p)
    PROVE  Waits(u, p)' \/ OnItsWay(p, d)'
<1>1. CASE Still(u)
  BY <1>1 DEF Still, Waits
<1>2. CASE (\E b \in Batches : ReceiveBatch(u, b)) \/ FinishBatch(u)
           \/ (\E e \in Dest : Attempt(u, e))
  BY <1>2 DEF ReceiveBatch, FinishBatch, Attempt, Waits
<1>3. CASE OfferBatch(u)
  <2>1. pc[u] = "offer" /\ pc'[u] = "dedup" /\ pkt'[u] = 1 /\ cur'[u] = cur[u]
    BY <1>3 DEF OfferBatch, ThreadTypes, ThreadOK
  <2> QED BY <2>1 DEF Waits
<1>4. CASE DedupStep(u)
  <2> DEFINE q == payload(u)
             lastHash == hash[u] = Len(Hashes[q])
  <2>1. /\ bits' = bits \cup {Hashes[q][hash[u]]} /\ cur'[u] = cur[u]
        /\ ~lastHash => pc'[u] = "dedup" /\ pkt'[u] = pkt[u]
        /\ lastHash /\ pkt[u] # Len(cur[u]) => pc'[u] = "dedup" /\ pkt'[u] = pkt[u] + 1
    BY <1>4, DedupShape
  <2>2. /\ pc[u] = "dedup" /\ pkt[u] \in Nat /\ Len(cur[u]) \in Nat
        /\ hash[u] \in 1 .. Len(Hashes[q]) /\ q \in Payload
        /\ Len(Hashes[q]) \in Nat
    <3>1. pc[u] = "dedup"
      BY <1>4 DEF DedupStep
    <3>2. /\ pkt[u] \in 1 .. Len(cur[u]) /\ Len(cur[u]) \in Nat
          /\ hash[u] \in 1 .. Len(Hashes[q]) /\ q \in Payload
      BY <3>1, DedupAt, Zenon
    <3> HIDE DEF q
    <3>3. Len(Hashes[q]) \in Nat
      BY <3>2, HashFacts
    <3> QED BY ONLY <3>1, <3>2, <3>3
  <2>3. PICK i \in pkt[u] .. Len(cur[u]) : cur[u][i] = p
    BY <2>2 DEF Waits
  <2>4. CASE ~lastHash
    BY <2>1, <2>3, <2>4 DEF Waits
  <2>5. CASE lastHash /\ i # pkt[u]
    <3>1. i \in pkt[u] + 1 .. Len(cur[u]) /\ pkt[u] # Len(cur[u])
      <4>1. pkt[u] \in Nat /\ Len(cur[u]) \in Nat /\ i # pkt[u]
        BY <2>2, <2>5
      <4> QED BY ONLY <4>1, i \in pkt[u] .. Len(cur[u])
    <3> QED BY <2>1, <2>3, <2>5, <3>1 DEF Waits
  <2>6. CASE lastHash /\ i = pkt[u]
    <3>1. q = p
      BY <2>3, <2>6 DEF payload
    <3>2. \A j \in 1 .. Len(Hashes[p]) : Hashes[p][j] \in bits'
      <4>1. \A j \in 1 .. hash[u] - 1 : Hashes[p][j] \in bits
        BY <2>2, <3>1 DEF PrefixSet
      <4>2. hash[u] = Len(Hashes[p]) /\ Hashes[p][hash[u]] \in bits' /\ bits \subseteq bits'
        BY <2>1, <2>6, <3>1
      <4>3. \A j \in 1 .. Len(Hashes[p]) : j \in 1 .. hash[u] - 1 \/ j = hash[u]
        <5>1. \A n \in Nat : \A j \in 1 .. n : j \in 1 .. n - 1 \/ j = n
          OBVIOUS
        <5>2. Len(Hashes[p]) \in Nat /\ hash[u] = Len(Hashes[p])
          BY <2>2, <3>1, <4>2
        <5> QED BY ONLY <5>1, <5>2
      <4> QED BY <4>1, <4>2, <4>3
    <3>3. HashBits(p) \subseteq bits'
      BY <3>2 DEF HashBits
    <3>4. OwnBits(p) \cap bits' # {}
      BY <3>3 DEF PayloadsDiffer, OwnBits
    <3>5. OwnBits(p)' = OwnBits(p)
      BY DEF OwnBits, HashBits
    <3> QED BY <3>4, <3>5 DEF BitsAreKept
  <2> QED BY <2>4, <2>5, <2>6
<1> QED BY <1>1, <1>2, <1>3, <1>4, ThreadMoves

\* Every step keeps every arrived payload waiting, on its way or sent.
LEMMA FirstStep ==
    ASSUME ThreadTypes, SharedTypes, ~UseDiscovery, PayloadsDiffer, FirstInv, [Next]_vars
    PROVE  FirstInv'
<1>1. local_dest_sockets' = local_dest_sockets
  <2>1. ASSUME NEW t \in SendThread, SendLoop(t)
        PROVE  local_dest_sockets' = local_dest_sockets
    BY <2>1 DEF SendLoop, Handle, SendOk, SendErr, ReceiveBatch, OfferBatch, DedupStep,
       Attempt, FinishBatch, RefreshLocal
  <2>2. CASE Reconstruct \/ RefreshDestinations \/ Accessory \/ UNCHANGED vars
    BY <2>2 DEF Accessory, Reconstruct, RefreshDestinations, ResetDeduper, ReportMetrics,
       SwapCounter, AddCumulative, vars, threadVars
  <2> QED BY <2>1, <2>2 DEF Next
<1>2. PrefixSet' /\ BitsAreKept'
  BY PrefixStep, BitsAreKeptStep DEF FirstInv
<1>3. ASSUME NEW p \in arrived', NEW d \in Static
      PROVE  OnItsWay(p, d)' \/ \E t \in SendThread : Waits(t, p)'
  <2>1. CASE p \in arrived
    <3>1. p \in Payload
      BY <2>1 DEF SharedTypes
    <3>2. CASE OnItsWay(p, d)
      BY <3>1, <3>2, WayKept DEF FirstInv
    <3>3. ASSUME NEW t \in SendThread, Waits(t, p) PROVE Waits(t, p)' \/ OnItsWay(p, d)'
      BY <1>2, <3>1, <3>3, WaitingStep DEF FirstInv
    <3> QED BY <2>1, <3>2, <3>3 DEF FirstInv
  <2>2. CASE p \notin arrived
    <3>1. \E t \in SendThread, b \in Batches : ReceiveBatch(t, b)
      <4>1. ASSUME NEW t \in SendThread, SendLoop(t), \A b \in Batches : ~ReceiveBatch(t, b)
            PROVE  arrived' = arrived
        BY <4>1 DEF SendLoop, Handle, SendOk, SendErr, OfferBatch, DedupStep, Attempt,
           FinishBatch, RefreshLocal
      <4>2. CASE Reconstruct \/ RefreshDestinations \/ Accessory \/ UNCHANGED vars
        BY <2>2, <4>2 DEF Accessory, Reconstruct, RefreshDestinations, ResetDeduper,
           ReportMetrics, SwapCounter, AddCumulative, vars
      <4> QED BY <2>2, <4>1, <4>2 DEF Next
    <3>2. PICK t \in SendThread, b \in Batches : ReceiveBatch(t, b)
      BY <3>1
    <3>3. PICK i \in 1 .. Len(b) : p = b[i]
      BY <2>2, <3>2 DEF ReceiveBatch
    <3>4. pc'[t] = "offer" /\ cur'[t] = b
      BY <3>2 DEF ReceiveBatch, ThreadTypes
    <3> QED BY <3>3, <3>4 DEF Waits
  <2> QED BY <2>1, <2>2
<1> QED BY <1>1, <1>2, <1>3 DEF FirstInv

\* If every payload has a bit of its own in the deduper, and the destinations
\* are fixed, no payload is lost: of the copies that arrive at any number of
\* sockets, in any batches, at least one is sent to every destination, however
\* the threads race through Deduper::dedup and whenever it is reset.
THEOREM FirstCopyIsSent ==
    ASSUME PayloadsDiffer
    PROVE  Spec => []FirstCopySent
<1> DEFINE Inv == ThreadTypes /\ SharedTypes /\ (UseDiscovery \/ FirstInv)
<1>1. Init => FirstInv
  <2> SUFFICES ASSUME Init PROVE FirstInv
    OBVIOUS
  <2>1. /\ pc = [t \in SendThread |-> "select"] /\ bits = {} /\ arrived = {}
        /\ local_dest_sockets = [t \in SendThread |-> Static]
    BY DEF Init
  <2> QED BY <2>1 DEF FirstInv, PrefixSet, BitsAreKept
<1>2. Init => Inv
  BY <1>1, ThreadInit, SharedInit
<1>3. Inv /\ [Next]_vars => Inv'
  BY ThreadStep, SharedStep, FirstStep
<1>4. Inv => FirstCopySent
  <2> SUFFICES ASSUME Inv, ~UseDiscovery, \A t \in SendThread : pc[t] = "select",
                      NEW p \in arrived, NEW d \in Static
               PROVE  <<p, d>> \in attempted
    BY DEF FirstCopySent
  <2>1. \A t \in SendThread : ~Carries(t, p, d) /\ ~Waits(t, p)
    BY DEF Carries, IsHopeful, Waits
  <2> QED BY <2>1 DEF FirstInv, OnItsWay
<1> QED BY <1>2, <1>3, <1>4, PTL DEF Spec
=============================================================================
