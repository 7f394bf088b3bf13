------------------------------ MODULE Forwarder ------------------------------
(***************************************************************************)
(* The forwarding threads (proxy/src/forwarder.rs): every send thread      *)
(* takes packet batches from its own listener, offers them to the          *)
(* reconstructor, drops what the shared deduper has seen and sends the     *)
(* rest to its copy of the destination list.  The refresh thread replaces  *)
(* the shared list, the accessory thread resets the deduper and moves the  *)
(* counters into their cumulative twins.  All of them interleave; a step   *)
(* is one access to shared state.                                          *)
(***************************************************************************)
EXTENDS Integers, Sequences, FiniteSets

CONSTANTS
    SendThread,        \* the ssPxyTx threads
    Payload,           \* packet contents
    Hashes,            \* payload -> the bits its hashes select in the deduper
    Static,            \* dest_ip_ports
    Endpoint,          \* addresses the discovery service may return
    UseDiscovery,      \* use_discovery_service
    ReconstructCap,    \* capacity of the reconstruct channel, 1024 in the code
    MaxBatch,          \* bound on the packets in a batch
    MaxBatches,        \* bound on the batches received
    MaxFailures,       \* bound on the sends that fail
    MaxRounds          \* bound on the rounds of the accessory thread

ASSUME ForwarderAssumption ==
    /\ SendThread # {} /\ IsFiniteSet(SendThread)
    /\ Hashes \in [Payload -> Seq(Nat) \ {<<>>}]
    /\ UseDiscovery \in BOOLEAN
    /\ ReconstructCap \in Nat \ {0}
    /\ MaxBatch \in Nat /\ MaxBatches \in Nat
    /\ MaxFailures \in Nat /\ MaxRounds \in Nat

Dest == Static \cup Endpoint
Counter == {"received", "success_forward", "fail_forward", "duplicate"}
Nothing == -1

VARIABLES
    pc,                  \* per send thread: "select", "offer", "dedup", "send"
    cur,                 \* the batch in hand, a sequence of payloads
    pkt, hash,           \* dedup loop: packet and hash it is at
    fresh,               \* ... and whether this packet has set a new bit
    kept,                \* positions of cur that are not discarded
    dests,               \* destinations cur has not been sent to yet
    local_dest_sockets,  \* the thread's copy of the list
    bits,                \* the deduper's bit array
    reconstruct,         \* the reconstruct channel
    unioned_dest_sockets,
    metric, cumulative,  \* ShredMetrics
    moving, hand,        \* ShredMetrics::reset: counters left, value taken
    \* ---- history, read by bounds and properties only
    batches, failures, rounds,
    truth,               \* packets received, packets handed to batch_send
    passes,              \* payload -> times judged new since the last reset
    arrived,             \* payloads received
    attempted            \* pairs <<payload, destination>> handed to batch_send

threadVars == <<pc, cur, pkt, hash, fresh, kept, dests, local_dest_sockets>>
accessoryVars == <<cumulative, moving, hand, rounds>>
vars == <<threadVars, bits, reconstruct, unioned_dest_sockets, metric,
          accessoryVars, batches, failures, truth, passes, arrived, attempted>>

Init ==
    /\ pc = [t \in SendThread |-> "select"]
    /\ cur = [t \in SendThread |-> <<>>]
    /\ pkt = [t \in SendThread |-> 1] /\ hash = [t \in SendThread |-> 1]
    /\ fresh = [t \in SendThread |-> FALSE]
    /\ kept = [t \in SendThread |-> {}]
    /\ dests = [t \in SendThread |-> {}]
    /\ unioned_dest_sockets = Static
    /\ local_dest_sockets = [t \in SendThread |-> Static]
    /\ bits = {}
    /\ reconstruct = <<>>
    /\ metric = [c \in Counter |-> 0] /\ cumulative = [c \in Counter |-> 0]
    /\ moving = <<>> /\ hand = Nothing
    /\ batches = 0 /\ failures = 0 /\ rounds = 0
    /\ truth = [received |-> 0, forwarded |-> 0]
    /\ passes = [p \in Payload |-> 0]
    /\ arrived = {} /\ attempted = {}

Batches == UNION {[1 .. n -> Payload] : n \in 1 .. MaxBatch}

-----------------------------------------------------------------------------
(* recv_from_channel_and_send_multiple_dest *)

ReceiveBatch(t, b) ==
    /\ pc[t] = "select"
    /\ batches < MaxBatches
    /\ batches' = batches + 1
    /\ metric' = [metric EXCEPT !["received"] = @ + Len(b)]
    /\ truth' = [truth EXCEPT !.received = @ + Len(b)]
    /\ arrived' = arrived \cup {b[i] : i \in 1 .. Len(b)}
    /\ cur' = [cur EXCEPT ![t] = b]
    /\ pc' = [pc EXCEPT ![t] = "offer"]
    /\ UNCHANGED <<pkt, hash, fresh, kept, dests, local_dest_sockets, bits,
                   reconstruct, unioned_dest_sockets, accessoryVars, failures,
                   passes, attempted>>

\* A faulty form of Offered: send in place of try_send.
Offered_Blocks(b) == /\ Len(reconstruct) < ReconstructCap
                     /\ reconstruct' = Append(reconstruct, b)

\* Another: a channel without a bound.
Offered_Unbounded(b) == reconstruct' = Append(reconstruct, b)

\* try_send: a batch that finds the channel full is not reconstructed.
Offered(b) ==
    reconstruct' = IF Len(reconstruct) < ReconstructCap
                   THEN Append(reconstruct, b) ELSE reconstruct

OfferBatch(t) ==
    /\ pc[t] = "offer"
    /\ Offered(cur[t])
    /\ pc' = [pc EXCEPT ![t] = "dedup"]
    /\ UNCHANGED <<cur, pkt, hash, fresh, kept, dests, local_dest_sockets, bits,
                   unioned_dest_sockets, metric, accessoryVars, batches,
                   failures, truth, passes, arrived, attempted>>

payload(t) == cur[t][pkt[t]]

\* Deduper::dedup: fetch_or of one bit tells whether it was set before.
SetsNewBit(t) == Hashes[payload(t)][hash[t]] \notin bits

\* One fetch_or.  After a packet's last hash the packet is discarded unless
\* it has set a bit; after the last packet the sending begins.
DedupStep(t) ==
    /\ pc[t] = "dedup"
    /\ LET p == payload(t)
           new == fresh[t] \/ SetsNewBit(t)
           lastHash == hash[t] = Len(Hashes[p])
           lastPkt == lastHash /\ pkt[t] = Len(cur[t])
           keep == lastHash /\ new
       IN  /\ bits' = bits \cup {Hashes[p][hash[t]]}
           /\ fresh' = [fresh EXCEPT ![t] = new /\ ~lastHash]
           /\ hash' = [hash EXCEPT ![t] = IF lastHash THEN 1 ELSE @ + 1]
           /\ pkt' = [pkt EXCEPT ![t] =
                        IF lastPkt THEN 1 ELSE IF lastHash THEN @ + 1 ELSE @]
           /\ kept' = [kept EXCEPT ![t] = IF keep THEN @ \cup {pkt[t]} ELSE @]
           /\ passes' = [passes EXCEPT ![p] = IF keep THEN @ + 1 ELSE @]
           /\ IF lastPkt
              THEN /\ pc' = [pc EXCEPT ![t] = "send"]
                   /\ dests' = [dests EXCEPT ![t] = local_dest_sockets[t]]
              ELSE UNCHANGED <<pc, dests>>
    /\ UNCHANGED <<cur, local_dest_sockets, reconstruct, unioned_dest_sockets,
                   metric, accessoryVars, batches, failures, truth, arrived,
                   attempted>>

\* A faulty form of Outgoing: the first packet of a batch is never sent.
Outgoing_SkipsFirst(t) == kept[t] \ {1}

\* packets_with_dest: data(..) is None for a discarded packet.
Outgoing(t) == kept[t]

num_deduped(t) == Len(cur[t]) - Cardinality(kept[t])

Attempt(t, d) ==
    /\ pc[t] = "send"
    /\ d \in dests[t]
    /\ dests' = [dests EXCEPT ![t] = @ \ {d}]
    /\ attempted' = attempted \cup {<<cur[t][i], d>> : i \in Outgoing(t)}
    /\ truth' = [truth EXCEPT !.forwarded = @ + Cardinality(Outgoing(t))]
    /\ UNCHANGED <<pc, cur, pkt, hash, fresh, kept, local_dest_sockets, bits,
                   reconstruct, unioned_dest_sockets, accessoryVars, batches,
                   passes, arrived>>

\* batch_send returned Ok.
SendOk(t, d) ==
    /\ Attempt(t, d)
    /\ metric' = [metric EXCEPT
                    !["success_forward"] = @ + Cardinality(Outgoing(t)),
                    !["duplicate"] = @ + num_deduped(t)]
    /\ UNCHANGED failures

\* batch_send returned IoError(_, num_failed): the whole batch is counted as
\* failed, and num_failed as duplicates.
SendErr(t, d) ==
    /\ Attempt(t, d)
    /\ failures < MaxFailures
    /\ failures' = failures + 1
    /\ LET n == Cardinality(Outgoing(t))
       IN  \E num_failed \in 1 .. n :
             metric' = [metric EXCEPT !["fail_forward"] = @ + n,
                                      !["duplicate"] = @ + num_failed]

\* The handler returns; the thread goes back to select!.
FinishBatch(t) ==
    /\ pc[t] = "send"
    /\ dests[t] = {}
    /\ pc' = [pc EXCEPT ![t] = "select"]
    /\ cur' = [cur EXCEPT ![t] = <<>>]
    /\ kept' = [kept EXCEPT ![t] = {}]
    /\ UNCHANGED <<pkt, hash, fresh, dests, local_dest_sockets, bits,
                   reconstruct, unioned_dest_sockets, metric, accessoryVars,
                   batches, failures, truth, passes, arrived, attempted>>

\* A faulty form of LatestList: the list is loaded once, at the start.
LatestList_Stale(t) == local_dest_sockets[t]

\* unioned_dest_sockets.load()
LatestList(t) == unioned_dest_sockets

\* refresh_subscribers_tick, which never fires without a discovery service.
RefreshLocal(t) ==
    /\ pc[t] = "select"
    /\ UseDiscovery
    /\ local_dest_sockets' = [local_dest_sockets EXCEPT ![t] = LatestList(t)]
    /\ UNCHANGED <<pc, cur, pkt, hash, fresh, kept, dests, bits, reconstruct,
                   unioned_dest_sockets, metric, accessoryVars, batches,
                   failures, truth, passes, arrived, attempted>>

-----------------------------------------------------------------------------
(* The other threads *)

\* The reconstructor takes a batch; module Deshred says what it does with it.
Reconstruct ==
    /\ reconstruct # <<>>
    /\ reconstruct' = Tail(reconstruct)
    /\ UNCHANGED <<threadVars, bits, unioned_dest_sockets, metric, accessoryVars,
                   batches, failures, truth, passes, arrived, attempted>>

\* fetch_unioned_destinations: what the discovery service returned, and the
\* static destinations whose name was resolved this time.
UnionedDestinations(found, resolved) == found \cup resolved

\* A failed fetch leaves the list alone.
RefreshDestinations ==
    /\ UseDiscovery
    /\ \E found \in SUBSET Endpoint, resolved \in SUBSET Static :
         unioned_dest_sockets' = UnionedDestinations(found, resolved)
    /\ UNCHANGED <<threadVars, bits, reconstruct, metric, accessoryVars, batches,
                   failures, truth, passes, arrived, attempted>>

\* A faulty form of Locked: the accessory thread takes no write lock.
Locked_Never(t) == FALSE

\* Send thread t holds the deduper's read lock.
Locked(t) == pc[t] = "dedup"

\* maybe_reset, in the case in which it resets.
ResetDeduper ==
    /\ \A t \in SendThread : ~Locked(t)
    /\ rounds < MaxRounds
    /\ moving = <<>>
    /\ rounds' = rounds + 1
    /\ bits' = {}
    /\ passes' = [p \in Payload |-> 0]
    /\ UNCHANGED <<threadVars, reconstruct, unioned_dest_sockets, metric,
                   cumulative, moving, hand, batches, failures, truth, arrived,
                   attempted>>

\* metrics_tick: report, then reset moves the counters one by one.
ReportMetrics ==
    /\ moving = <<>>
    /\ rounds < MaxRounds
    /\ rounds' = rounds + 1
    /\ moving' = <<"received", "success_forward", "fail_forward", "duplicate">>
    /\ UNCHANGED <<threadVars, bits, reconstruct, unioned_dest_sockets, metric,
                   cumulative, hand, batches, failures, truth, passes, arrived,
                   attempted>>

\* A faulty form of LeftBySwap: a load in place of the swap.
LeftBySwap_Load(c) == metric[c]

\* What received.swap(0), and so on, leaves in the counter.
LeftBySwap(c) == 0

SwapCounter ==
    /\ moving # <<>> /\ hand = Nothing
    /\ hand' = metric[Head(moving)]
    /\ metric' = [metric EXCEPT ![Head(moving)] = LeftBySwap(Head(moving))]
    /\ UNCHANGED <<threadVars, bits, reconstruct, unioned_dest_sockets,
                   cumulative, moving, rounds, batches, failures, truth, passes,
                   arrived, attempted>>

\* agg_received_cumulative.fetch_add(..), and so on.
AddCumulative ==
    /\ moving # <<>> /\ hand # Nothing
    /\ cumulative' = [cumulative EXCEPT ![Head(moving)] = @ + hand]
    /\ moving' = Tail(moving)
    /\ hand' = Nothing
    /\ UNCHANGED <<threadVars, bits, reconstruct, unioned_dest_sockets, metric,
                   rounds, batches, failures, truth, passes, arrived, attempted>>

-----------------------------------------------------------------------------
Handle(t) == \/ OfferBatch(t)
             \/ DedupStep(t)
             \/ \E d \in Dest : SendOk(t, d) \/ SendErr(t, d)
             \/ FinishBatch(t)
SendLoop(t) == (\E b \in Batches : ReceiveBatch(t, b)) \/ Handle(t) \/ RefreshLocal(t)
Accessory == ResetDeduper \/ ReportMetrics \/ SwapCounter \/ AddCumulative

Next == \/ \E t \in SendThread : SendLoop(t)
        \/ Reconstruct \/ RefreshDestinations \/ Accessory

Spec == Init /\ [][Next]_vars

\* A send thread goes on with the batch it has taken, and select! picks the
\* refresh tick again and again.  Nothing is asked of the reconstructor or of
\* the discovery service.
FairSpec == /\ Spec
            /\ \A t \in SendThread : WF_vars(Handle(t)) /\ SF_vars(RefreshLocal(t))

-----------------------------------------------------------------------------
(* Properties *)

\* The ranges of the variables; what the dedup loop keeps are packets of the
\* batch in hand, and the reconstruct channel never exceeds its capacity.
TypeOK ==
    /\ pc \in [SendThread -> {"select", "offer", "dedup", "send"}]
    /\ cur \in [SendThread -> Seq(Payload)]
    /\ pkt \in [SendThread -> Nat] /\ hash \in [SendThread -> Nat]
    /\ fresh \in [SendThread -> BOOLEAN]
    /\ kept \in [SendThread -> SUBSET Nat]
    /\ \A t \in SendThread : kept[t] \subseteq 1 .. Len(cur[t])
    /\ dests \in [SendThread -> SUBSET Dest]
    /\ local_dest_sockets \in [SendThread -> SUBSET Dest]
    /\ unioned_dest_sockets \subseteq Dest
    /\ bits \subseteq Nat
    /\ reconstruct \in Seq(Seq(Payload)) /\ Len(reconstruct) <= ReconstructCap
    /\ metric \in [Counter -> Nat] /\ cumulative \in [Counter -> Nat]
    /\ truth \in [received : Nat, forwarded : Nat]
    /\ moving \in Seq(Counter) /\ hand \in Nat \cup {Nothing}
    /\ batches \in Nat /\ failures \in Nat /\ rounds \in Nat
    /\ passes \in [Payload -> Nat]
    /\ arrived \subseteq Payload
    /\ attempted \subseteq Payload \X Dest

\* The bits a payload selects.
HashBits(p) == {Hashes[p][h] : h \in 1 .. Len(Hashes[p])}

\* The bits of a payload that no other payload selects.
OwnBits(p) == {b \in HashBits(p) : \A q \in Payload : q # p => b \notin HashBits(q)}

\* The deduper can tell the payloads apart: each has a bit of its own.
PayloadsDiffer == \A p \in Payload : OwnBits(p) # {}

\* No packet is lost between two threads: of the copies of a payload that
\* arrive at different sockets, at least one is sent to every destination,
\* however the threads race through the deduper.  (Each payload with a bit of
\* its own, PayloadsDiffer, and a fixed destination list.)
FirstCopySent ==
    ~UseDiscovery /\ (\A t \in SendThread : pc[t] = "select")
        => arrived \X Static \subseteq attempted

\* Racing threads may both judge a payload new, as each sees one of its bits
\* clear; but between two resets of the deduper a payload is let through at
\* most as often as it has hashes.
BoundedDuplication == \A p \in Payload : passes[p] <= Len(Hashes[p])

\* A counter and its cumulative twin, with the value reset has in hand.
Total(c) ==
    metric[c] + cumulative[c]
        + IF moving # <<>> /\ hand # Nothing /\ c = Head(moving) THEN hand ELSE 0

\* No count is lost or doubled while reset moves the counters under the send
\* threads' feet: every packet received is counted once, and every packet
\* handed to batch_send once, as sent or as failed.
CountersConserved ==
    /\ Total("received") = truth.received
    /\ Total("success_forward") + Total("fail_forward") = truth.forwarded

\* A send thread always comes to the end of its batch, also when nobody takes
\* batches out of the reconstruct channel.
ForwardingNeverWaits ==
    \A t \in SendThread : pc[t] # "select" ~> pc[t] = "select"

\* A destination that is gone from the shared list for good leaves every
\* thread's copy for good.
DroppedDestinationLeaves ==
    \A t \in SendThread, d \in Dest :
        <>[](d \notin unioned_dest_sockets) => <>[](d \notin local_dest_sockets[t])
=============================================================================
