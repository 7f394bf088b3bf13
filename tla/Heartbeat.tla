------------------------------- MODULE Heartbeat -------------------------------
(***************************************************************************)
(* The heartbeat thread (proxy/src/heartbeat.rs) in its two modes.  An     *)
(* outer loop connects; an inner loop waits for a heartbeat tick, in       *)
(* shredstream mode also for a metrics tick, and for the shutdown channel. *)
(* The block engine answers a heartbeat with the time for which it keeps   *)
(* the proxy registered.  Shreds are counted by the send threads and moved *)
(* to the cumulative counter by the accessory thread.  A tick is the time  *)
(* left until it is ready; a handler takes no time, a call may.            *)
(***************************************************************************)
EXTENDS Integers

CONSTANTS
    Modes,             \* a subset of {"shredstream", "subscribe_only"}
    InitialInterval,   \* between heartbeats, until the first answer: 1 s
    Ttl,               \* possible answers to a heartbeat
    MetricsPeriod,     \* 30 s
    ReportPeriod,      \* of the accessory thread: metrics_report_interval_ms
    Backoff,           \* sleep after a failed connect: 5 s
    MaxFailed,         \* failed heartbeats a connection survives: 5
    Followed           \* modes and answers in which lease follows the registration

ASSUME HeartbeatAssumption ==
    /\ Modes \subseteq {"shredstream", "subscribe_only"}
    /\ InitialInterval \in Nat /\ Ttl \subseteq Nat
    /\ MetricsPeriod \in Nat \ {0} /\ ReportPeriod \in Nat \ {0}
    /\ Backoff \in Nat /\ MaxFailed \in Nat /\ Followed \subseteq Modes \X Ttl

VARIABLES
    mode,
    loop,        \* "outer", "connect", "backoff", "inner" (testing exit),
                 \*   "select", "call", "done" or "panicked"
    exit, message,      \* the flag; the shutdown channel has a message
    interval, tick,     \* heartbeat_interval, heartbeat_tick
    metrics,            \* metrics_tick
    backoff,            \* what is left of the sleep
    failed,             \* failed_heartbeat_count (subscribe_only)
    received,           \* agg_received > 0
    counted,            \* agg_received_cumulative # last_cumulative_...
    report,             \* the accessory thread's tick
    silent,             \* since the last metrics tick a reporting period ended
                        \*   in which no shred came
    asked,              \* how long the heartbeat in flight has been under way
    lease, missed, slow \* of the registration: time left, heartbeats failed
                        \*   and time spent in calls since it was asked for;
                        \*   followed until the second failure, or until an
                        \*   interval was spent in calls

countVars == <<received, counted, report, silent>>
leaseVars == <<asked, lease, missed, slow>>
tickVars == <<interval, tick>>
beatVars == <<mode, loop, exit, message, tickVars, metrics, backoff, failed,
              countVars, leaseVars>>

Shredstream == mode = "shredstream"
Connected == loop \in {"inner", "select", "call"}
Running == loop \notin {"done", "panicked"}

BeatInit ==
    /\ mode \in Modes
    /\ loop = "outer"
    /\ exit = FALSE /\ message = FALSE
    /\ interval = InitialInterval /\ tick = InitialInterval
    /\ metrics = MetricsPeriod
    /\ backoff = 0 /\ failed = 0
    /\ received = FALSE /\ counted = FALSE /\ report \in 1 .. ReportPeriod
    /\ silent = FALSE
    /\ asked = 0 /\ lease = 0 /\ missed = 2 /\ slow = 0

-----------------------------------------------------------------------------
(* The outer loop *)

Outer ==
    /\ loop = "outer"
    /\ loop' = IF exit THEN "done" ELSE "connect"
    /\ UNCHANGED <<mode, exit, message, tickVars, metrics, backoff, failed,
                   countVars, leaseVars>>

\* get_grpc_client fails: a channel, or the first authentication.
ConnectFails ==
    /\ loop = "connect"
    /\ loop' = "backoff" /\ backoff' = Backoff
    /\ UNCHANGED <<mode, exit, message, tickVars, metrics, failed, countVars, leaseVars>>

BackoffEnds ==
    /\ loop = "backoff" /\ backoff = 0
    /\ loop' = "outer"
    /\ UNCHANGED <<mode, exit, message, tickVars, metrics, backoff, failed,
                   countVars, leaseVars>>

\* A faulty form of TicksAtConnect: the tick starts again with the connection.
TicksAtConnect_Restarted == interval' = interval /\ tick' = interval

\* The ticks belong to the thread and run on over connections.
TicksAtConnect == UNCHANGED tickVars

ConnectOk ==
    /\ loop = "connect"
    /\ loop' = "inner" /\ failed' = 0
    /\ TicksAtConnect
    /\ UNCHANGED <<mode, exit, message, metrics, backoff, countVars, leaseVars>>

\* Nothing is known of the registration any more.
Forget == lease' = 0 /\ missed' = 2 /\ slow' = 0

\* The inner loop is left.
Leave == loop' = "outer" /\ Forget /\ asked' = 0

-----------------------------------------------------------------------------
(* The inner loop *)

\* A faulty form of StaysIn: only a message ends the inner loop.
StaysIn_IgnoresExit == loop = "inner"

\* while !exit.load(..)
StaysIn == loop = "inner" /\ ~exit

EnterSelect ==
    /\ StaysIn
    /\ loop' = "select"
    /\ UNCHANGED <<mode, exit, message, tickVars, metrics, backoff, failed,
                   countVars, leaseVars>>

LeaveOnExit ==
    /\ loop = "inner" /\ ~StaysIn
    /\ Leave
    /\ UNCHANGED <<mode, exit, message, tickVars, metrics, backoff, failed, countVars>>

\* recv(heartbeat_tick): the next one is due an interval later.
SendHeartbeat ==
    /\ loop = "select" /\ tick = 0
    /\ loop' = "call" /\ tick' = interval
    /\ UNCHANGED <<mode, exit, message, interval, metrics, backoff, failed,
                   countVars, leaseVars>>

\* A faulty form of NewInterval: heartbeats as seldom as the registration allows.
NewInterval_Ttl(ttl) == ttl

NewInterval(ttl) == ttl \div 3

\* The registration runs from the time of the request, at the latest.
HeartbeatOk(ttl) ==
    /\ loop = "call"
    /\ loop' = "inner"
    /\ interval' = NewInterval(ttl)
    /\ tick' = IF interval' # interval THEN interval' ELSE tick
    /\ IF <<mode, ttl>> \in Followed /\ asked < interval'
       THEN lease' = ttl - asked /\ missed' = 0 /\ slow' = asked
       ELSE Forget
    /\ asked' = 0
    /\ UNCHANGED <<mode, exit, message, metrics, backoff, failed, countVars>>

\* A faulty form of GivesUp: the count is looked at before it is increased.
GivesUp_Late == ~Shredstream /\ failed > MaxFailed

\* Subscribe-only mode has no metrics tick to notice a dead connection by.
GivesUp == ~Shredstream /\ failed + 1 > MaxFailed

HeartbeatErr ==
    /\ loop = "call" /\ ~GivesUp
    /\ loop' = "inner"
    /\ failed' = IF Shredstream THEN failed ELSE failed + 1
    /\ IF missed = 0 THEN missed' = 1 /\ UNCHANGED <<lease, slow>> ELSE Forget
    /\ asked' = 0
    /\ UNCHANGED <<mode, exit, message, tickVars, metrics, backoff, countVars>>

HeartbeatErrLast ==
    /\ loop = "call" /\ GivesUp
    /\ Leave
    /\ UNCHANGED <<mode, exit, message, tickVars, metrics, backoff, failed, countVars>>

\* Code::InvalidArgument, from the block engine or from the interceptor.
HeartbeatInvalid ==
    /\ loop = "call"
    /\ loop' = "panicked"
    /\ exit' = TRUE /\ message' = TRUE
    /\ UNCHANGED <<mode, tickVars, metrics, backoff, failed, countVars, leaseVars>>

\* A faulty form of NoneReceived: looks at the counter that is being reset.
NoneReceived_Uncounted == ~received

\* new_received_count == last_cumulative_received_shred_count
NoneReceived == ~counted

MetricsReady == Shredstream /\ loop = "select" /\ metrics = 0

MetricsRestart ==
    /\ MetricsReady /\ NoneReceived
    /\ metrics' = MetricsPeriod
    /\ silent' = FALSE
    /\ Leave
    /\ UNCHANGED <<mode, exit, message, tickVars, backoff, failed, received,
                   counted, report>>

\* A faulty form of RememberCount: the count of the first period is kept.
RememberCount_Not == counted' = counted

\* last_cumulative_received_shred_count = new_received_count
RememberCount == counted' = FALSE

MetricsGoOn ==
    /\ MetricsReady /\ ~NoneReceived
    /\ metrics' = MetricsPeriod
    /\ RememberCount /\ silent' = FALSE
    /\ loop' = "inner"
    /\ UNCHANGED <<mode, exit, message, tickVars, backoff, failed, received,
                   report, leaseVars>>

ShutdownRecv ==
    /\ loop = "select" /\ message
    /\ message' = FALSE
    /\ Leave
    /\ UNCHANGED <<mode, exit, tickVars, metrics, backoff, failed, countVars>>

-----------------------------------------------------------------------------
(* The rest of the process *)

\* A send thread counts a packet.
Shred ==
    /\ Running /\ Shredstream /\ ~received
    /\ received' = TRUE
    /\ UNCHANGED <<mode, loop, exit, message, tickVars, metrics, backoff, failed,
                   counted, report, silent, leaseVars>>

\* ShredMetrics::reset
Accessory ==
    /\ Running /\ Shredstream /\ report = 0
    /\ counted' = (counted \/ received) /\ received' = FALSE
    /\ silent' = (silent \/ ~received)
    /\ report' = ReportPeriod
    /\ UNCHANGED <<mode, loop, exit, message, tickVars, metrics, backoff, failed,
                   leaseVars>>

\* A signal, or the panic of another thread.
Shutdown ==
    /\ Running /\ ~exit
    /\ exit' = TRUE /\ message' = TRUE
    /\ UNCHANGED <<mode, loop, tickVars, metrics, backoff, failed, countVars, leaseVars>>

\* In shredstream mode other threads take messages too.
OtherTakes ==
    /\ Running /\ Shredstream /\ message
    /\ message' = FALSE
    /\ UNCHANGED <<mode, loop, exit, tickVars, metrics, backoff, failed,
                   countVars, leaseVars>>

SomeReady == tick = 0 \/ message \/ MetricsReady

Sooner(t) == IF t > 0 THEN t - 1 ELSE 0

\* No more is counted than the longest interval that the answer may bring.
CountsCall ==
    loop = "call" /\ \E t \in Ttl : <<mode, t>> \in Followed /\ asked < NewInterval(t)

\* Time passes while the thread is in a wait or a call, not in between.  The
\* accessory thread is on time, until the exit flag ends it.
BeatPass ==
    /\ Running
    /\ loop \notin {"outer", "inner"} /\ ~(loop = "select" /\ SomeReady)
    /\ loop = "backoff" => backoff > 0
    /\ Shredstream => report > 0 \/ exit
    /\ tick' = Sooner(tick) /\ backoff' = Sooner(backoff)
    /\ metrics' = IF Shredstream THEN Sooner(metrics) ELSE metrics
    /\ report' = IF Shredstream THEN Sooner(report) ELSE report
    /\ LET spent == IF loop = "call" THEN slow + 1 ELSE slow
       IN  IF missed < 2 /\ spent < interval
           THEN lease' = Sooner(lease) /\ slow' = spent /\ UNCHANGED missed
           ELSE Forget
    /\ asked' = IF CountsCall THEN asked + 1 ELSE asked
    /\ UNCHANGED <<mode, loop, exit, message, interval, failed, received, counted,
                   silent>>
===============================================================================
