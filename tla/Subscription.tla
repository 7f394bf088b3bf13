----------------------------- MODULE Subscription -----------------------------
(***************************************************************************)
(* How the proxy stays subscribed: the heartbeat thread and the refresh    *)
(* tasks it causes, composed.  Connecting spawns a task, leaving the inner *)
(* loop aborts it or only tells it to end, and the end of the thread ends  *)
(* them all.  A heartbeat carries the bearer token of its connection, and  *)
(* a panic of a task, also an old one, raises the exit flag of the process. *)
(***************************************************************************)
EXTENDS Heartbeat, TokenAuthenticator

vars == <<beatVars, authVars>>

Init == BeatInit /\ AuthInit

\* The places without a task, which are all alike.
Vacant == {c \in Connection : task[c] = "none"}

\* get_grpc_client succeeds.
Connect ==
    /\ ConnectOk
    /\ \E c \in Vacant, access \in AccessTtl, refr \in RefreshTtl \cup {NoExpiry} :
         c = (CHOOSE d \in Vacant : TRUE) /\ New(c, access, refr)

\* The scope of the connection ends.
Drop == \E c \in Connection : RaisePerConExit(c)

\* A panic of the thread drops what it owns.
Answer ==
    \/ ((\E ttl \in Ttl : HeartbeatOk(ttl)) \/ HeartbeatErr) /\ UNCHANGED authVars
    \/ HeartbeatErrLast /\ Drop
    \/ HeartbeatInvalid /\ DropRuntime

\* A faulty form of RefreshAborted: aborted before the counter is looked at.
RefreshAborted_Always == (MetricsRestart \/ MetricsGoOn) /\ \E c \in Connection : Abort(c)

RefreshAborted == MetricsRestart /\ \E c \in Connection : Abort(c)

Metrics == RefreshAborted \/ (MetricsGoOn /\ UNCHANGED authVars)

EndOfConnection == (LeaveOnExit \/ ShutdownRecv) /\ Drop

\* The thread alone.
Beat ==
    \/ Outer /\ IF exit THEN DropRuntime ELSE UNCHANGED authVars
    \/ /\ ConnectFails \/ BackoffEnds \/ EnterSelect \/ SendHeartbeat
       /\ UNCHANGED authVars

Others == (Shred \/ Accessory \/ Shutdown \/ OtherTakes) /\ UNCHANGED authVars

\* A task alone.
Refresh(c) == Running /\ LoopStep(c) /\ UNCHANGED beatVars

\* The panic hook.
RaiseExit ==
    /\ exit' = TRUE /\ message' = TRUE
    /\ UNCHANGED <<mode, loop, tickVars, metrics, backoff, failed, countVars, leaseVars>>

RefreshPanics(c) == Running /\ TaskPanics(c) /\ RaiseExit

Pass == BeatPass /\ AuthPass

Next ==
    \/ Connect \/ Answer \/ Metrics \/ EndOfConnection \/ Beat \/ Others
    \/ (\E c \in Connection : Refresh(c) \/ RefreshPanics(c)) \/ Pass

Spec == Init /\ [][Next]_vars

\* Threads and tasks run, calls come back, time goes on, and select! picks
\* each branch that is ready again and again.
FairSpec ==
    /\ Spec
    /\ WF_vars(Connect \/ Beat) /\ WF_vars(Answer)
    /\ SF_vars(Metrics) /\ SF_vars(EndOfConnection)
    /\ SF_vars(SendHeartbeat /\ UNCHANGED authVars)
    /\ WF_vars(~exit /\ Accessory /\ UNCHANGED authVars)
    /\ \A c \in Connection : WF_vars(Refresh(c) \/ RefreshPanics(c))
    /\ []<><<Pass>>_vars \/ []<>~Running

-----------------------------------------------------------------------------
(* Properties *)

\* The two components keep their types: no connection counts more failed
\* heartbeats than it may survive.
TypeOK ==
    /\ AuthTypeOK
    /\ mode \in Modes
    /\ loop \in {"outer", "connect", "backoff", "inner", "select", "call",
                 "done", "panicked"}
    /\ {exit, message, received, counted, silent} \subseteq BOOLEAN
    /\ {interval, tick, asked, lease, slow} \subseteq Nat /\ missed \in 0 .. 2
    /\ metrics \in 0 .. MetricsPeriod /\ report \in 0 .. ReportPeriod
    /\ backoff \in 0 .. Backoff /\ failed \in 0 .. MaxFailed

\* While the thread is connected there is exactly one task that has not been
\* told to end, and otherwise none: the tasks of older connections may still be
\* there, but no connection is without a task or leaves one behind unaware.
TaskPerConnection ==
    /\ Connected <=> \E c \in Connection : Live(c)
    /\ \A c, d \in Connection : Live(c) /\ Live(d) => c = d

\* A heartbeat goes out under a live token, unless the authentication service
\* has been failing for the margin less a sleep, or the process is exiting: the
\* interceptor reads its connection's bearer_token, which only the task of that
\* connection renews.
HeartbeatsAuthorised ==
    [][SendHeartbeat =>
         \/ exit
         \/ \E c \in Connection :
              Live(c) /\ (bearer[c] > 0 \/ failing[c] >= Margin - Poll)]_vars

\* One heartbeat may fail without loss of the registration ("retry sooner in
\* case a heartbeat fails"), if less than an interval was spent in calls, the
\* one that was granted included.
LeaseKept == missed < 2 /\ slow < interval => lease > 0

\* A steady stream of shreds keeps the connection: the metrics tick restarts it
\* only when the accessory thread, which the exit flag ends, found a whole
\* reporting period empty.
RestartNeedsSilence == [][MetricsRestart => silent \/ exit]_vars

\* The comment at the test: "if no shreds received, then restart".
RestartOnlyIfNoneReceived == [][MetricsRestart => ~received]_vars

\* A thread that gets connections goes on sending heartbeats, however often the
\* metrics tick restarts it and whatever interval the block engine asked for.
HeartbeatsGoOn == []<>Connected => []<>(loop = "call" \/ exit)

\* After a signal or a panic the thread ends, be the heartbeat tick always
\* ready (a ttl of 0) or far away, and be the message taken by another thread
\* (the flag stays up, and a thread that has ended stays so).
ExitEndsThread == []<>(exit => ~Running)

\* A connection that brings no shreds (shredstream), or on which no heartbeat
\* succeeds (subscribe-only), is given up again and again.
DeadConnectionReplaced ==
    <>[][IF Shredstream THEN ~Shred ELSE \A ttl \in Ttl : ~HeartbeatOk(ttl)]_vars
        => []<>(~Connected)

\* Every task of a connection that is over ends, however often the thread
\* connects again.
OldTasksEnd == \A c \in Connection : []<>(~per_con_exit[c])
===============================================================================
