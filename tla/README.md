# Verification of shredstream-proxy

TLA+ models of the proxy under `src/proxy/src`, TLC configurations that check
them on small instances, and TLAPS proofs of the properties that matter most.
`PROJECT.json` maps every definition to the lines it models and lists the runs,
the hazards and the findings.

## The system

The proxy receives *shreds* (UDP packets that carry a block in pieces) and

1. forwards them, deduplicated, to a list of destinations (`forwarder.rs`);
2. if the gRPC service is on, puts the block's entries together again
   (`deshred.rs`) and streams them to subscribers (`server.rs`);
3. keeps its subscription at the block engine alive (`heartbeat.rs`,
   `token_authenticator.rs`).

Threads and what connects them:

| thread | source | talks to |
|---|---|---|
| listen `ssListenN` (library) | `forwarder.rs:145` | its send thread, unbounded channel |
| send `ssPxyTx_N` | `forwarder.rs:165` | shared deduper, destination list, metrics; reconstruct channel (1024, `try_send`) |
| reconstructor | `forwarder.rs:92` | broadcast channel of entries (100) |
| destination refresh | `forwarder.rs:368` | destination list (`ArcSwap`) |
| accessory | `forwarder.rs:456` | deduper (write lock), metrics |
| gRPC server and a task per client | `server.rs` | broadcast channel, an mpsc channel (100) per client |
| metrics server | `prom.rs:129` | shutdown channel only |
| heartbeat | `heartbeat.rs:56` | block engine, token refresh task |
| signal thread, panic hook, main | `main.rs` | `exit` flag, shutdown channel (256) |

## Modules

| part | modules | proofs |
|---|---|---|
| segment search `get_indexes` | `Segments` (what it finds), `GetIndexes` (its loops) | `GetIndexesProofs` |
| reconstructor | `Deshred`, `EntryFeed` (abstract), `MCDeshred` | `DeshredProofs`, `FeedProofs` |
| forwarding, deduper, refresh, counters | `Forwarder`, `MCForwarder` | `ForwarderProofs` |
| entry service | `EntryServer`, `MCEntryServer` | `EntryServerProofs` |
| start-up, signals, panics, shutdown | `Shutdown`, `MCShutdown` | `ShutdownProofs` |
| heartbeat client, both modes | `Heartbeat` | `SubscriptionProofs` |
| token refresh task | `TokenAuthenticator` | `SubscriptionProofs` |
| the two together | `Subscription`, `MCSubscription` | `SubscriptionProofs` |
| multicast listeners | `Multicast`, `MCMulticast` | `MulticastProofs` |

The parts meet at queues and counters. `Forwarder` fills the reconstruct channel
that `Deshred!Receive` empties. `Deshred!Return` hands its segments to the
broadcast channel of which `EntryServer!SendEntry` is the sending end.
`Shutdown` has the loop of every thread, with its work left out. At each of
these the module on the far side is replaced by more than it can do: `Deshred`
takes any batch in any order, which includes every loss at a full reconstruct
channel, and `EntryServer` sends at any time. `Heartbeat` reads the counters of
`Forwarder` as two bits, a shred counted and a count moved, and has the accessory
thread's tick as an action. `Subscription` is a true composition: every step of
it is a step of the heartbeat thread, of the refresh task, or of both.

### Segments and GetIndexes

`Segments!get_indexes` defines the segment around an index: the range that ends
at the first flagged shred to the right, and starts after the nearest index to
the left that is not a known, unflagged shred. `{}` stands for `None`.
`GetIndexes` is the code, one loop iteration per step, started on every tracker
of a given length.

### Deshred

One call of `reconstruct_shreds` is a run through the phases `ingest`,
`recover` and `deshred`. An ingest step is one packet; a step of the two later
phases is one `(slot, fec_set_index)` pair, taken in sorted order. `Return` is
the eviction, the metrics update and the thread's sending of the entries, in one
step, since nothing else sees the thread's state. Variables carry the names of
the code. `all_shreds` is split into functions on slots and `tracked`, the set
of its keys.

A shred is a record of its headers. `set` names the erasure set it was made in.
The erasure code is taken for what it promises: any `num_data_shreds` shreds of
a set, one coding shred among them, give back the rest (`Recover`, external).
`BadRecovery` are shreds for which the library returns an error item. Payloads
are abstracted to `Decodable`, the sets of data shreds that deserialize.

That no batch is stranded is a promise about blocks of a certain form.
`RegularBlocks` states it: one version of each data shred and no gap in their
indexes, an FEC set known by slot and `fec_set_index` and not crossing the end of
a batch, each coding shred with the index of a data shred of its set, no failing
recovery of a data shred, and of the runs up to a batch end only the whole batch
decoding. TLC evaluates it through `BlocksAssumption`: the block
of `deshred_block` is regular, the one of `deshred_uneven` is not.

`EntryFeed` is the promise to subscribers: a list of disjoint segments, each
ending at a flagged shred, spanning no other flagged shred, and starting after
one unless its start is reported unknown. `ImplementsFeed` says that `Deshred`
implements it, with `feed` as the segments decoded so far.

### Forwarder

A step is one access to shared state. A send thread goes through `select`,
`offer` (`try_send`), `dedup` (one `fetch_or` per hash of each packet) and `send`
(one `batch_send` per destination). The deduper is a set of bits, and a payload
selects a sequence of them; it is discarded if it sets no new bit. `ResetDeduper`
needs the write lock, so no thread may be in `dedup`. `ShredMetrics::reset` is
two steps per counter, the swap and the addition. `truth` counts the packets
received and handed to `batch_send`, for comparison. gRPC is taken to be on (otherwise nothing is offered).

### EntryServer

Entries are numbered. The broadcast ring keeps the last `BroadcastCap` of them,
and a receiver that falls further behind gets `Lagged`, which ends its task. The
task's blocking send into the mpsc channel and the client's reads are steps of
their own. `ServerStops` drops the runtime with all tasks and streams.

### Shutdown

A thread is at the head of its loop (`loop`, where it tests `exit`), blocked
(`wait`), in the panic hook, done or dead. `Timed` threads have a tick or
timeout that fires; `Taker` threads receive from the shutdown channel. The
metrics server tests the channel and not the flag. The heartbeat thread leaves
only its inner loop when it gets a message. `thread_handles` is the order in
which main joins; the reconstructor's handle is not in it, because
`start_forwarder_threads` drops it.

Start-up is part of the model: `Spawn` starts the threads one by one in the
order of main, and a signal or a panic may come between two of them. An error
that main returns before it has spawned a thread ends the process and is not
modelled.

### Heartbeat, TokenAuthenticator and Subscription

The heartbeat thread connects in an outer loop (`outer`, `connect`, `backoff`)
and waits in an inner loop (`inner`, `select`, `call`). The code has the loop
twice, for shredstream and for subscribe-only mode, in the same shape; here it
is one, with `mode` as a variable, and a definition is mapped to the loop that
has the code it stands for. A tick is the time left until it is ready, and
`BeatPass` lets a unit pass while the thread waits or calls. `interval` is a
third of the ttl of the last answer, so a ttl of 0 gives a tick that is always
ready. `lease` is the block engine's side: how long it still keeps the proxy
registered. It counts from the moment of the request (`asked`), and is followed
as long as something can be promised of it: until the second failure, or until
an interval has been spent in calls. `counted` is the comparison the metrics
tick makes, `received` what the accessory thread has not yet moved.

Every connection has a refresh task of its own, and tasks of several connections
may run at once: `Connection` is a set of places, each taken from the connect
until the task there has ended, and the variables of `TokenAuthenticator` are
functions on it. A task is at the head of its loop (`check`), in one of two
calls, or asleep. A token is the time it has to live. `CallFails` leads back to
`check` without a sleep, as in the code. `TaskPanics` are the unwraps.

A connection that is over has its `per_con_exit` raised
(`ScopedAtomicBool::drop`), and no more: the task goes on with its call or its
sleep, and `Return`s when it reads the flag at the head of its loop, while the
task of the next connection may already run. Only the restart of shredstream mode
ends the task at once (`Abort`, `heartbeat.rs:173`); in subscribe-only mode the
handle is dropped (`heartbeat.rs:237`). When the heartbeat thread returns or
panics it drops the runtime, and all tasks end.

`Subscription` puts them together: `Connect` starts a task in a free place,
leaving the inner loop aborts it or raises its flag, and a panic of any task, also
one of a former connection, raises the exit flag through the panic hook. `abort`
ends a task at its next await; here it ends it in the same step, and what a task
between two awaits still does (storing a token nobody reads any more) is left out.

### Multicast

`create_multicast_socket_on_device` as a sequence of binds and joins, any of
which may fail, over every set of routes the device may have. An address is a
function from bit positions to bits, of `Width` bits in its family: 32 and 128 in
the code, one and two in the run, any number in the proofs. `Covered` is the
reference definition of a route, by agreement on the first bits; the code's test
of the mask must select the routes that cover one address.

## Runs

| run | distinct states | shows |
|---|---|---|
| `get_indexes` | 20,924 | on all trackers of 4 shreds the loops stop, stay in bounds and find the defined segment |
| `deshred_block` | 95,968 | any order, repetition and grouping of arrivals: a batch is decoded by the call that brings enough shreds (`NoStrandedBatch`), and is sent (`EnoughIsSent`) |
| `deshred_history` | 1,375,489 | several slots, two versions of a shred, recovery that fails for a data shred of a set, runs of shreds that decode by chance, look-back and eviction: nothing sent twice, bounded map, tracker consistent, order within a call, first shred stays, refinement of `EntryFeed` |
| `deshred_uneven` | | finding, see below |
| `forwarder_race` | 478,530 | racing threads: a copy always gets out, and not more copies than the payload has hash bits; no count lost or doubled while `reset` runs |
| `forwarder_live` | 105,688 | the full reconstruct channel delays nobody; dropped destinations leave |
| `entry_server` | 56,983 | gap-free streams, delivery or end of stream, tasks end after their client |
| `shutdown` | 102,051 | in the three modes, at any moment from the first spawn on: a signal stops every thread and main, a panic of main, of the heartbeat thread or of the metrics server ends the process, the flag precedes the messages, one message is left for the metrics server |
| `shutdown_serve` | | finding |
| `subscription` | 190,222 | heartbeats go out under live tokens and keep the registration over one failure; connections with shreds stay, dead ones are replaced; beating goes on, and exit ends the thread; each connection has one task that was not told to end, and the tasks of former connections end after at most one more sleep |
| `heartbeat_restart` | | finding |
| `multicast` | 106,695 | only groups that a route leads to alone are joined; a failed bind or join costs nothing else |

### Bounds

* `Deshred`: blocks of 1 to 5 data shreds with 1 to 3 FEC sets, batches of 1 or
  2 packets. A batch of entries spans two FEC sets and a FEC set may be completed
  by data or by coding shreds, so every branch of recovery and of the segment
  search is taken. `MaxBatch` 2 covers two sets, or the end of one batch and the
  start of the next, in one call. There is no bound on the number of calls. For
  eviction `SLOT_LOOKBACK` is 1 and `MAX_PROCESSING_AGE` 2 (50 and 150 in the
  code), with slots on both sides of both limits.
* `Forwarder`: a payload of two hashes, and three threads, one more than there
  are bits. Batches of one packet, three of them: a failed send of a part of a
  batch, and any number of batches, are in the proof of `CountersConserved` only.
  In `forwarder_live` the refresh tick thus competes with finitely many batches.
  Two destinations, channel capacity 1, one failed send, two rounds of
  the accessory thread, so that a reset of the deduper and one of the counters
  fall into one behaviour. Distinct payloads that share bits (a false positive
  of the deduper) are not among the cases; the proofs include them.
* `EntryServer`: a ring of 2, a queue of 1 and 5 entries, so that a client can
  be overrun while its task holds an entry and its queue is full.
* `Shutdown`: one socket, and a channel with one place more than there are
  takers; in the code it is 256 for about ten threads. `ShutdownAssumption` states
  this relation. Two signals, or two panics, in one behaviour.
* `Subscription`: places for two connections, so that the task of a former
  connection meets that of the current one; a third connect waits until one has
  ended (the proofs have any number of places). A metrics period of 2 and a
  reporting period of 1 (30 s and 15 s), an initial interval of 3, ttls of 0 and
  of 9, whose third is longer than the metrics period. A connection survives one
  failed heartbeat in place of five. The margin is 2 and the sleep 1 (300 s and
  5 s). That leaves outages of less than one unit, in which calls fail and are
  repeated without time passing; longer ones are in the proof of
  `HeartbeatsAuthorised`. The registration is followed in subscribe-only mode,
  where no counters multiply the states.
* `Multicast`: up to three routes, which give two groups of one family and one of
  the other.

Deadlock is checked for `Deshred`, whose thread can always take a batch. The
other models may stop: the bounds run out, or the process ends.

### Fairness

* `Deshred`: a call that has begun goes on. No arrival is assumed.
* `Forwarder`: a thread goes on with the batch it holds (weak), and `select!`,
  which picks among ready channels at random, picks the refresh tick again and
  again (strong). Nothing is assumed of the reconstructor, the discovery service
  or arrivals.
* `EntryServer`: tokio runs every task, and the clients in `Reader` read. The
  other clients need not.
* `Shutdown`: threads run, ticks and timeouts fire, and a blocking call inside a
  loop body comes back. The last one includes main's `get_public_ip` and
  the heartbeat thread's gRPC calls, which have no timeout of their own: a call
  that hangs would delay shutdown.
  Signals, panics and packets are not assumed to come.
* `Subscription`: the same for the heartbeat thread and the refresh tasks, those
  of former connections included: connects, heartbeats and token calls come back,
  well or badly. Each branch of `select!` that is ready again and again is taken
  (strong fairness), which matters when a ttl of 0 keeps the heartbeat tick ready.
  The accessory thread is on time until `exit`. Time goes on:
  `[]<><<Pass>>_vars \/ []<>~Running`, without which a task whose calls fail at
  once would stop the clock. No shred, answer or shutdown is assumed to come.

## Findings

* `deshred.rs:93`: coding shreds are looked up in `already_deshredded` by their
  own index, which names an unrelated data shred. With more coding than data
  shreds in a set, a recoverable batch can stay undecoded (`deshred_uneven`).
* `main.rs:311`: the panic hook's single message may be taken by a thread that
  would have stopped anyway. If the panicking thread is not joined, the metrics
  server keeps the process alive (`shutdown_serve`). That is so of the
  reconstructor, of the task that runs `serve` and of the token refresh task.
* `heartbeat.rs:165`: "if no shreds received, then restart" is decided on
  `agg_received_cumulative`, which moves only when the accessory thread resets
  the metrics. Shreds that arrived since do not count, and the connection is
  restarted although they came (`heartbeat_restart`). `RestartNeedsSilence` is
  what does hold: with a reporting period shorter than 30 s a restart needs a
  whole reporting period without shreds.

Noticed while translating the code, and in no run:

* `main.rs:311`: the hook's `send` blocks on a channel that signals have filled,
  and every taker may leave on the flag, so a panic during shutdown can hang.
* `forwarder.rs:319,328`: `duplicate` ("Number of duplicate shreds received")
  grows once per destination, and by the failed packets of a failed send.
* `forwarder.rs:325`: one failed packet makes the whole batch count in
  `fail_forward`.
* `forwarder.rs:442`: a static destination leaves the list while its name does
  not resolve, although endpoints are "set-union with `dest-ip-ports`"
  (`main.rs:159`).
* `deshred.rs:165`: `recovered_count` ("Number of data shreds recovered using
  coding shreds") also counts coding shreds.
* `multicast_config.rs:115`: "Creates one UDP socket" is one per address family.

## Proofs

For every value of the constants that satisfies the modules' assumptions:

* `GetIndexesCorrect`: the loops of `get_indexes` return the segment of
  `Segments`, and never index outside the vector. The invariant `LoopInv` says
  that everything between the starting index and the loop's position is known,
  unflagged and not deshredded.
* `LoopsStayInside`, `TypesCorrect` of `Deshred`, `QueuesStayBounded`: type
  correctness of `GetIndexes`, `Deshred` and `EntryServer`. No cursor or index
  leaves the vectors, and no client's queue grows beyond its channel.
* `TrackerSound`: `TrackerConsistent`. The `unwrap` on the shreds of a segment
  rests on it. `TypeInv` adds that a shred is stored under its own slot and FEC
  set (`FecHome`), needed for what recovery returns, and that a call's locals are
  empty between calls.
* `NoSegmentTwice`: `AtMostOnce`. Alone it is not inductive, as a new segment
  must be known not to meet an old one. `Accounted` supplies this: every index
  of a decoded segment is marked in `already_deshredded`, or its slot has been
  evicted and is old. Old slots stay old because `highest_slot_seen` never falls
  (`OldStaysOld`), and their shreds are refused, so they cannot be decoded again.
* `SlotsStayBounded`: `SlotsBounded`. Once the map has more than
  `MAX_PROCESSING_AGE` slots, the eviction leaves those between the threshold
  and `highest_slot_seen`, at most `SLOT_LOOKBACK + 1`. `SlotInv` says that
  every tracked slot is at most `highest_slot_seen`. It needs
  `SLOT_LOOKBACK < MAX_PROCESSING_AGE` (`LimitsAssumption`), true of 50 and 150.
* `FirstShredWins`, `CallsInOrder`: `FirstShredStays` and `InOrderWithinCall`.
  For the order, `OrderInv` says that the segments of the current call belong to
  pairs already visited, and these precede the ones that remain.
* `FeedImplemented`: the refinement of `EntryFeed`, if the versions of each data
  shred agree on the end-of-batch flag (`FlagsAgree`). `DataHeld` says that what
  the tracker stores is a data shred, `FeedInv` that `feed` is the segments
  decoded, so that a segment cut by `get_indexes` at tracked flags is cut at
  flags of the block. The versions in `deshred_history` agree as well: of versions
  that disagree on a flag nothing is shown but `AtMostOnce` and the tracker's
  invariants.
* `BatchesAreDecoded`: `NoStrandedBatch`, for every set of shreds that satisfies
  `RegularBlocks`. `BatchInv` follows one slot that is not old through the phases
  of a call. `SetsKept`: of a set not marked as recovered, the recovery map holds
  exactly the shreds that have arrived and the tracker the data shreds among
  them; of a marked set the tracker holds every data shred. `MarksTell`: a marked
  data shred belongs to a recovered set and to a decoded batch, so refusing its
  repetition, or a coding shred of the same index, loses nothing. `SetsRecovered`:
  a set of which enough has arrived is full, or the recovery loop has still to
  visit it. `BatchesDecoded`: a batch of which the tracker holds everything is
  decoded, or one of its sets is still to be visited by the last loop. At the end
  of a call nothing is left to visit. `RegularFlags` derives `FlagsAgree` from
  `RegularBlocks`, so that the tracker's flags are the block's. The hypothesis
  that a coding shred has the index of a data shred of its set is needed: without
  it the finding at `deshred.rs:93` is a counterexample.
* `StreamsHaveNoGap`: `GapFree`. The invariant `InFlight` says that what a
  client has read, its queue, the entry its task holds and its position in the
  broadcast channel follow each other without a gap.
* `CountersAreConserved`: `CountersConserved` for any number of send threads.
  A total is the counter, its twin and the value `reset` has in hand. Adding to
  a counter adds to its total whatever `reset` is doing, and swap and add leave
  all totals alone. `ThreadTypes` supplies that the kept packets can be counted.
* `DuplicationIsBounded`: `BoundedDuplication` for any number of threads and any
  hashes, shared ones included. `PassInv`: the passes of a payload, and the
  threads that have set a bit for it and are not through its hashes, are together
  at most the set bits it selects. A reset finds no such thread because of the
  write lock. `TypesCorrect` is type correctness of `Forwarder`.
* `FirstCopyIsSent`: `FirstCopySent`, if each payload selects a bit that no other
  payload selects (`PayloadsDiffer`, evaluated by TLC through
  `PayloadsAssumption`); without it a payload may be taken for a duplicate of
  others, as in any Bloom filter. `FirstInv`: if such a bit of a payload is set,
  then for each destination the payload has been sent there or some thread
  carries it (`BitsAreKept`), and a thread in the middle of a payload's hashes
  has set those before (`PrefixSet`), so that the thread that finds none of them
  new leaves a set bit and with it a carrier. A reset only clears bits.
* `FlagBeforeMessage`, `MessageIsLeft`, `TypesCorrect` of `Shutdown`. The second
  rests on `Sockets + 4 < Messages`: `MessageInv` says that after a signal the
  messages in the channel and those still to be sent are more than the takers
  that have not yet left (`Waiting`), since a taker takes its message and leaves
  for good, the flag being up. The heartbeat thread leaves only its inner loop,
  and then finds the flag.
* `BearerLives`: `BearerOutlivesOutage`, of the refresh tasks alone. `TokenInv`
  says that the token stored for a connection is the one its task knows the expiry
  of, and has at least the margin to live less what the task has slept and waited
  since. `CompositionRefinesTask` says that `Subscription` implements the tasks'
  specification, so that this carries over.
* `OneTaskPerConnection`: `TaskPerConnection`, for any number of tasks that
  overlap. It is inductive as it stands, given the types: a connect finds no task
  that was not told to end, and each way out of the inner loop tells or aborts
  the one there is. With `TokenInv`, and `PanicRaisesExit` (a panicked task of the
  current connection has raised the flag), it gives `HeartbeatsAreAuthorised`.
* `OldTasksEndSoon`: `OldTaskEndsSoon`. `OldInv` says that a task told to end has
  slept since, and has still to sleep, one `Poll` together at most. It goes to
  sleep no more: from its sleep or its call it comes to the head of its loop and
  reads the flag. How long its last call takes is not bounded, as the
  code sets no timeout.
* `LeaseIsKept`: `LeaseKept` for every ttl. `LeaseInv` says that the time left of
  the registration is at least two intervals and the time to the next tick (one
  interval after a failure), less the time spent in calls. The call that was
  granted counts among these, as the block engine may have begun to count before
  its answer came.
* `RestartsNeedSilence`: `RestartNeedsSilence`, if the reporting period is the
  shorter one (`ReportPeriod < MetricsPeriod`; 15 s and 30 s by default).
  `ReportInv` says that since the last metrics tick there was a report that found
  shreds, or one that found none, or it is still due before the metrics tick.
* `TypesCorrect` of `Subscription`.
* `JoinsOnlyRoutedGroups`, `FailuresStayLocal`: `OnlyRoutedGroups` and
  `FailuresAreLocal` for addresses of any width, any routes and any failures.
  `FoundIsWanted` shows that a full mask selects the routes that cover one
  address, in each family. `MulticastInv` says of each family that a group is
  still to be joined, joined or refused, and that a family passed over is in the
  result or was not bound.

Every safety property that a passing run checks is thus proved. The hypotheses
beyond the modules' assumptions are `FlagsAgree`, `RegularBlocks`,
`PayloadsDiffer` and `ReportPeriod < MetricsPeriod`.

Only model-checked: the liveness properties, which need fairness and `ENABLED`,
out of this prover's reach.

## Not modelled

* Running the `ip` command, and the address and interface index of a device: they
  only become arguments of the joins.
* Registration and text of metrics, logging. `ShredMetrics` has counters beside
  the four of the model; they are added to and printed.
* Parsing of arguments, and what is read from the key file and the address
  service. That they panic on failure is `Shutdown!StartPanics`; `get_public_ip`
  is taken to come back.
* Generated protocol code, the example client, the scripts.
