-------------------------- MODULE SubscriptionProofs ---------------------------
(***************************************************************************)
(* The subscription of the proxy, for all periods, margins and answers:    *)
(* tokens, registrations and restarts.                                     *)
(***************************************************************************)
EXTENDS Subscription, TLAPS

\* Any step of the heartbeat thread or of the processes around it.
BeatStep ==
    \/ Outer \/ ConnectFails \/ BackoffEnds \/ ConnectOk \/ EnterSelect
    \/ LeaveOnExit \/ SendHeartbeat \/ (\E ttl \in Ttl : HeartbeatOk(ttl))
    \/ HeartbeatErr \/ HeartbeatErrLast \/ HeartbeatInvalid
    \/ MetricsRestart \/ MetricsGoOn \/ ShutdownRecv
    \/ Shred \/ Accessory \/ Shutdown \/ OtherTakes \/ RaiseExit \/ BeatPass

\* Seen from the refresh tasks, a step of the composition is a step of theirs or
\* leaves them alone.
LEMMA NextIsAuthStep == ASSUME [Next]_vars PROVE [AuthNext]_authVars
<1>1. CASE Connect
  BY <1>1 DEF Connect, Vacant, AuthNext
<1>2. CASE Answer
  BY <1>2 DEF Answer, Drop, AuthNext
<1>3. CASE Metrics
  BY <1>3 DEF Metrics, RefreshAborted, AuthNext
<1>4. CASE EndOfConnection
  BY <1>4 DEF EndOfConnection, Drop, AuthNext
<1>5. CASE Beat \/ Others
  BY <1>5 DEF Beat, Others, AuthNext
<1>6. CASE \E c \in Connection : Refresh(c) \/ RefreshPanics(c)
  BY <1>6 DEF Refresh, RefreshPanics, AuthNext
<1>7. CASE Pass
  BY <1>7 DEF Pass, AuthNext
<1>8. CASE UNCHANGED vars
  BY <1>8 DEF vars, authVars
<1> QED BY <1>1, <1>2, <1>3, <1>4, <1>5, <1>6, <1>7, <1>8 DEF Next

\* The same for the heartbeat thread.
LEMMA NextIsBeatStep == ASSUME [Next]_vars PROVE BeatStep \/ UNCHANGED beatVars
<1>1. CASE Connect
  BY <1>1 DEF Connect, BeatStep
<1>2. CASE Answer
  BY <1>2 DEF Answer, BeatStep
<1>3. CASE Metrics
  BY <1>3 DEF Metrics, RefreshAborted, BeatStep
<1>4. CASE EndOfConnection
  BY <1>4 DEF EndOfConnection, BeatStep
<1>5. CASE Beat \/ Others
  BY <1>5 DEF Beat, Others, BeatStep
<1>6. CASE \E c \in Connection : Refresh(c) \/ RefreshPanics(c)
  BY <1>6 DEF Refresh, RefreshPanics, BeatStep
<1>7. CASE Pass
  BY <1>7 DEF Pass, BeatStep
<1>8. CASE UNCHANGED vars
  BY <1>8 DEF vars, beatVars
<1> QED BY <1>1, <1>2, <1>3, <1>4, <1>5, <1>6, <1>7, <1>8 DEF Next

-----------------------------------------------------------------------------
(* The tokens *)

\* What makes BearerOutlivesOutage inductive: the task's copy of the expiry is
\* that of the token in use, a task sleeps only on a token that had the margin
\* to live when it fell asleep, and a token loses no more than one sleep and
\* the time for which the service has been failing.
TokenAt(c) ==
    task[c] \in Alive =>
        /\ bearer[c] = expiration[c]
        /\ bearer[c] + failing[c] >= Margin - Poll
        /\ task[c] = "sleep" => bearer[c] >= Margin - (Poll - sleeping[c])

TokenInv == AuthTypeOK /\ \A c \in Connection : TokenAt(c)

\* AuthInit establishes it: there is no task yet.
LEMMA TokenInit == ASSUME AuthInit PROVE TokenInv
BY TokenAssumption
   DEF AuthInit, Zero, TokenInv, TokenAt, AuthTypeOK, Alive, Calling, NoExpiry

\* A place that is vacated has no task.
LEMMA Vacated ==
    ASSUME AuthTypeOK, NEW gone, Vacate(gone)
    PROVE  /\ AuthTypeOK'
           /\ \A d \in Connection : d \in gone =>
                task'[d] = "none" /\ ~per_con_exit'[d] /\ overtime'[d] = 0
           /\ \A d \in Connection : d \notin gone =>
                /\ task'[d] = task[d] /\ per_con_exit'[d] = per_con_exit[d]
                /\ bearer'[d] = bearer[d] /\ expiration'[d] = expiration[d]
                /\ sleeping'[d] = sleeping[d] /\ failing'[d] = failing[d]
                /\ overtime'[d] = overtime[d]
<1>1. AuthTypeOK'
  <2>1. task' \in [Connection -> {"none", "panicked"} \cup Alive]
    BY DEF Vacate, AuthTypeOK
  <2>2. per_con_exit' \in [Connection -> BOOLEAN]
    BY DEF Vacate, AuthTypeOK
  <2>3. /\ bearer' \in [Connection -> Nat] /\ expiration' \in [Connection -> Nat]
        /\ refresh' \in [Connection -> Nat \cup {NoExpiry}]
    BY DEF Vacate, AuthTypeOK
  <2>4. /\ sleeping' \in [Connection -> 0 .. Poll]
        /\ failing' \in [Connection -> 0 .. Margin]
        /\ overtime' \in [Connection -> 0 .. Poll + 1]
    BY TokenAssumption DEF Vacate, AuthTypeOK
  <2> QED BY <2>1, <2>2, <2>3, <2>4 DEF AuthTypeOK
<1>2. ASSUME NEW d \in Connection, d \in gone
      PROVE  task'[d] = "none" /\ ~per_con_exit'[d] /\ overtime'[d] = 0
  BY <1>2 DEF Vacate
<1>3. ASSUME NEW d \in Connection, d \notin gone
      PROVE  /\ task'[d] = task[d] /\ per_con_exit'[d] = per_con_exit[d]
             /\ bearer'[d] = bearer[d] /\ expiration'[d] = expiration[d]
             /\ sleeping'[d] = sleeping[d] /\ failing'[d] = failing[d]
             /\ overtime'[d] = overtime[d]
  BY <1>3 DEF Vacate
<1> QED BY <1>1, <1>2, <1>3

\* Every step of the tasks keeps it.
LEMMA TokenStep == ASSUME TokenInv, [AuthNext]_authVars PROVE TokenInv'
<1> USE TokenAssumption DEF TokenInv, tokenVars
<1>1. ASSUME NEW c \in Connection, NEW access \in AccessTtl,
             NEW refr \in RefreshTtl \cup {NoExpiry},
             New(c, access, refr) \/ FullAuth(c, access, refr) \/ RefreshAccess(c, access)
      PROVE  TokenInv'
  BY <1>1 DEF New, FullAuth, RefreshAccess, Renewed, Become, TokenAt, AuthTypeOK,
              Alive, Calling, NoExpiry
<1>2. ASSUME NEW c \in Connection, Check(c) PROVE TokenInv'
  BY <1>2 DEF Check, ExpiresSoon, Become, TokenAt, AuthTypeOK, Alive, Calling
<1>3. ASSUME NEW c \in Connection, Wake(c) \/ CallFails(c) PROVE TokenInv'
  BY <1>3 DEF Wake, CallFails, Become, TokenAt, AuthTypeOK, Alive, Calling
<1>4. ASSUME NEW c \in Connection, TaskPanics(c) PROVE TokenInv'
  BY <1>4 DEF TaskPanics, Become, TokenAt, AuthTypeOK, Alive, Calling, NoExpiry
<1>5. ASSUME NEW c \in Connection, RaisePerConExit(c) PROVE TokenInv'
  BY <1>5 DEF RaisePerConExit, TokenAt, AuthTypeOK
<1>6. ASSUME NEW gone, Vacate(gone) PROVE TokenInv'
  BY <1>6, Vacated DEF TokenAt, Alive, Calling
<1>7. CASE AuthPass
  BY <1>7 DEF AuthPass, Less, TokenAt, AuthTypeOK, Alive, Calling, NoExpiry
<1>8. CASE UNCHANGED authVars
  BY <1>8 DEF authVars, TokenAt, AuthTypeOK
<1>9. ASSUME NEW c \in Connection, LoopStep(c) PROVE TokenInv'
  BY <1>1, <1>2, <1>3, <1>6, <1>9 DEF LoopStep, Return
<1> QED BY <1>1, <1>4, <1>5, <1>6, <1>7, <1>8, <1>9 DEF AuthNext, Abort, DropRuntime

\* It says what is wanted.
LEMMA TokenInvImplies == TokenInv => BearerOutlivesOutage
BY TokenAssumption DEF TokenInv, TokenAt, AuthTypeOK, BearerOutlivesOutage

\* The refresh tasks alone keep their bearer tokens alive through any outage of
\* the authentication service that is shorter than the margin less one sleep.
THEOREM BearerLives == AuthSpec => []BearerOutlivesOutage
<1>1. AuthInit => TokenInv
  BY TokenInit
<1>2. TokenInv /\ [AuthNext]_authVars => TokenInv'
  BY TokenStep
<1> QED BY <1>1, <1>2, TokenInvImplies, PTL DEF AuthSpec

\* The composition implements the specification of the refresh tasks: whatever
\* the heartbeat thread does to them is something their module allows.
THEOREM CompositionRefinesTask == Spec => AuthSpec
<1>1. Init => AuthInit
  BY DEF Init
<1>2. [Next]_vars => [AuthNext]_authVars
  BY NextIsAuthStep
<1> QED BY <1>1, <1>2, PTL DEF Spec, AuthSpec

-----------------------------------------------------------------------------
(* The tasks of connections that are over *)

\* What makes OldTaskEndsSoon inductive: only a task that was told to end has
\* worked overtime, and its sleep is the one in which it was told.
OldAt(c) ==
    /\ task[c] = "none" => ~per_con_exit[c]
    /\ ~per_con_exit[c] => overtime[c] = 0
    /\ overtime[c] <= Poll
    /\ task[c] = "sleep" => overtime[c] + sleeping[c] <= Poll

OldInv == AuthTypeOK /\ \A c \in Connection : OldAt(c)

\* AuthInit establishes it.
LEMMA OldInit == ASSUME AuthInit PROVE OldInv
BY TokenInit, TokenAssumption DEF TokenInv, AuthInit, Zero, OldInv, OldAt

\* Every step of the tasks keeps it: a task that was told to end does not fall
\* asleep again.
LEMMA OldStep ==
    ASSUME AuthTypeOK', OldInv, [AuthNext]_authVars PROVE OldInv'
<1> USE TokenAssumption DEF OldInv, tokenVars
<1>1. ASSUME NEW c \in Connection, NEW access \in AccessTtl,
             NEW refr \in RefreshTtl \cup {NoExpiry},
             New(c, access, refr) \/ FullAuth(c, access, refr) \/ RefreshAccess(c, access)
      PROVE  OldInv'
  BY <1>1 DEF New, FullAuth, RefreshAccess, Become, OldAt, AuthTypeOK
<1>2. ASSUME NEW c \in Connection, Check(c) PROVE OldInv'
  BY <1>2 DEF Check, GoesOn, Become, OldAt, AuthTypeOK
<1>3. ASSUME NEW c \in Connection, Wake(c) \/ CallFails(c) \/ TaskPanics(c)
      PROVE  OldInv'
  BY <1>3 DEF Wake, CallFails, TaskPanics, Become, Calling, OldAt, AuthTypeOK
<1>4. ASSUME NEW c \in Connection, RaisePerConExit(c) PROVE OldInv'
  BY <1>4 DEF RaisePerConExit, Live, OldAt, AuthTypeOK
<1>5. ASSUME NEW gone, Vacate(gone) PROVE OldInv'
  BY <1>5, Vacated DEF OldAt
<1>6. CASE AuthPass
  BY <1>6 DEF AuthPass, Less, OldAt, AuthTypeOK
<1>7. CASE UNCHANGED authVars
  BY <1>7 DEF authVars, OldAt
<1>8. ASSUME NEW c \in Connection, LoopStep(c) PROVE OldInv'
  BY <1>1, <1>2, <1>3, <1>5, <1>8 DEF LoopStep, Return
<1> QED BY <1>1, <1>3, <1>4, <1>5, <1>6, <1>7, <1>8 DEF AuthNext, Abort, DropRuntime

\* For every margin and sleep, and however many connections are over at a time,
\* none of their tasks sleeps for longer than one period before it ends.
THEOREM OldTasksEndSoon == Spec => []OldTaskEndsSoon
<1>1. Init => TokenInv /\ OldInv
  BY TokenInit, OldInit DEF Init
<1>2. TokenInv /\ OldInv /\ [Next]_vars => (TokenInv /\ OldInv)'
  BY TokenStep, OldStep, NextIsAuthStep DEF TokenInv
<1>3. OldInv => OldTaskEndsSoon
  BY DEF OldInv, OldAt, OldTaskEndsSoon
<1> QED BY <1>1, <1>2, <1>3, PTL DEF Spec

-----------------------------------------------------------------------------
(* Types *)

\* TypeOK without the part about the task.
BeatTypeOK ==
    /\ mode \in Modes
    /\ loop \in {"outer", "connect", "backoff", "inner", "select", "call",
                 "done", "panicked"}
    /\ exit \in BOOLEAN /\ message \in BOOLEAN
    /\ received \in BOOLEAN /\ counted \in BOOLEAN /\ silent \in BOOLEAN
    /\ interval \in Nat /\ tick \in Nat
    /\ asked \in Nat /\ lease \in Nat /\ slow \in Nat /\ missed \in 0 .. 2
    /\ metrics \in 0 .. MetricsPeriod /\ report \in 0 .. ReportPeriod
    /\ backoff \in 0 .. Backoff /\ failed \in 0 .. MaxFailed

\* Every step of the thread and around it keeps the types.
LEMMA BeatTypeStep ==
    ASSUME BeatTypeOK, BeatStep \/ UNCHANGED beatVars PROVE BeatTypeOK'
<1> USE HeartbeatAssumption DEF BeatTypeOK, tickVars, countVars, leaseVars
<1>a. MetricsPeriod \in 0 .. MetricsPeriod /\ ReportPeriod \in 0 .. ReportPeriod
  OBVIOUS
<1>1. CASE Outer \/ ConnectFails \/ BackoffEnds \/ EnterSelect \/ SendHeartbeat
  BY <1>1 DEF Outer, ConnectFails, BackoffEnds, EnterSelect, StaysIn, SendHeartbeat
<1>2. CASE ConnectOk
  BY <1>2 DEF ConnectOk, TicksAtConnect
<1>3. CASE LeaveOnExit \/ HeartbeatErrLast
  BY <1>3, 2 \in 0 .. 2 DEF LeaveOnExit, HeartbeatErrLast, Leave, Forget
<1>d. CASE ShutdownRecv
  BY <1>d, 2 \in 0 .. 2 DEF ShutdownRecv, Leave, Forget
<1>b. CASE MetricsRestart
  BY <1>b, <1>a, 2 \in 0 .. 2 DEF MetricsRestart, Leave, Forget
<1>4. ASSUME NEW ttl \in Ttl, HeartbeatOk(ttl) PROVE BeatTypeOK'
  <2>1. ttl \in Nat /\ ttl \div 3 \in Nat /\ ttl \div 3 <= ttl
    OBVIOUS
  <2>2. interval' = ttl \div 3 /\ interval' \in Nat /\ tick' \in Nat /\ asked' \in Nat
    BY <1>4, <2>1 DEF HeartbeatOk, NewInterval
  <2>3. lease' \in Nat /\ slow' \in Nat /\ missed' \in 0 .. 2
    BY <1>4, <2>1, <2>2 DEF HeartbeatOk, Forget
  <2> QED BY <1>4, <2>2, <2>3 DEF HeartbeatOk
<1>5. CASE HeartbeatErr
  <2>1. asked' \in Nat /\ lease' \in Nat /\ slow' \in Nat /\ missed' \in 0 .. 2
    BY <1>5 DEF HeartbeatErr, Forget
  <2> QED BY <1>5, <2>1 DEF HeartbeatErr, GivesUp, Shredstream
<1>6. CASE HeartbeatInvalid
  BY <1>6 DEF HeartbeatInvalid
<1>7. CASE MetricsGoOn
  BY <1>7, <1>a DEF MetricsGoOn, RememberCount
<1>8. CASE Shred
  BY <1>8 DEF Shred
<1>c. CASE Accessory
  <2>1. counted' \in BOOLEAN /\ received' \in BOOLEAN /\ silent' \in BOOLEAN
    BY <1>c DEF Accessory
  <2> QED BY <1>c, <1>a, <2>1 DEF Accessory
<1>9. CASE Shutdown \/ OtherTakes \/ RaiseExit
  BY <1>9 DEF Shutdown, OtherTakes, RaiseExit
<1>10. CASE BeatPass
  <2>1. asked' \in Nat /\ lease' \in Nat /\ slow' \in Nat /\ missed' \in 0 .. 2
    BY <1>10 DEF BeatPass, Sooner, Forget
  <2> QED BY <1>10, <2>1 DEF BeatPass, Sooner
<1>11. CASE UNCHANGED beatVars
  BY <1>11 DEF beatVars
<1> QED BY <1>1, <1>2, <1>3, <1>4, <1>5, <1>6, <1>7, <1>8, <1>9, <1>10, <1>11,
           <1>b, <1>c, <1>d DEF BeatStep

\* The initial values have them.
LEMMA BeatTypeInit == ASSUME BeatInit PROVE BeatTypeOK
<1>1. /\ MetricsPeriod \in 0 .. MetricsPeriod /\ 2 \in 0 .. 2
      /\ 1 .. ReportPeriod \subseteq 0 .. ReportPeriod
      /\ 0 \in 0 .. Backoff /\ 0 \in 0 .. MaxFailed
  BY HeartbeatAssumption
<1>2. InitialInterval \in Nat
  BY HeartbeatAssumption
<1> QED BY <1>1, <1>2 DEF BeatInit, BeatTypeOK

\* TypeOK is the types of the two components.
LEMMA TypesTogether == TypeOK <=> AuthTypeOK /\ BeatTypeOK
BY DEF TypeOK, BeatTypeOK

\* All of the composition's state keeps its type: for every MaxFailed, no
\* connection counts more failed heartbeats than that.
THEOREM TypesCorrect == Spec => []TypeOK
<1>1. Init => TokenInv /\ BeatTypeOK
  BY BeatTypeInit, TokenInit DEF Init
<1>2. TokenInv /\ BeatTypeOK /\ [Next]_vars => (TokenInv /\ BeatTypeOK)'
  BY TokenStep, BeatTypeStep, NextIsAuthStep, NextIsBeatStep
<1>3. TokenInv /\ BeatTypeOK => TypeOK
  BY TypesTogether DEF TokenInv
<1> QED BY <1>1, <1>2, <1>3, PTL DEF Spec

-----------------------------------------------------------------------------
(* Connections and tasks *)

\* What a step of a task's loop, its panic or the passing of time does to the
\* tasks that have not been told to end: nothing.
LEMMA LiveKept ==
    ASSUME OldInv, NEW d \in Connection,
           \/ \E c \in Connection : LoopStep(c) \/ TaskPanics(c)
           \/ AuthPass \/ UNCHANGED authVars
    PROVE  Live(d)' <=> Live(d)
<1> USE DEF Live, tokenVars
<1>1. ASSUME NEW c \in Connection, LoopStep(c) \/ TaskPanics(c)
      PROVE  Live(d)' <=> Live(d)
  <2>1. CASE Return(c)
    BY <2>1, Vacated DEF Return, GoesOn, OldInv
  <2>2. ASSUME \/ Check(c) \/ Wake(c) \/ CallFails(c) \/ TaskPanics(c)
               \/ \E access \in AccessTtl : RefreshAccess(c, access)
               \/ \E access \in AccessTtl, refr \in RefreshTtl \cup {NoExpiry} :
                    FullAuth(c, access, refr)
        PROVE  Live(d)' <=> Live(d)
    BY <2>2 DEF Check, Wake, CallFails, TaskPanics, RefreshAccess, FullAuth,
                Become, Calling, OldInv, AuthTypeOK
  <2> QED BY <1>1, <2>1, <2>2 DEF LoopStep
<1>2. CASE AuthPass \/ UNCHANGED authVars
  BY <1>2 DEF AuthPass, authVars
<1> QED BY <1>1, <1>2

\* What a connection's beginning and its end do to them.
LEMMA LiveChanged ==
    ASSUME OldInv, NEW c \in Connection, NEW d \in Connection
    PROVE  /\ (\E access \in AccessTtl, refr \in RefreshTtl \cup {NoExpiry} :
                 New(c, access, refr)) => (Live(d)' <=> Live(d) \/ d = c)
           /\ RaisePerConExit(c) \/ Abort(c) => (Live(d)' <=> Live(d) /\ d # c)
           /\ DropRuntime => ~Live(d)'
<1>1. ASSUME NEW access, NEW refr, New(c, access, refr)
      PROVE  Live(d)' <=> Live(d) \/ d = c
  BY <1>1 DEF New, Become, Live, OldInv, OldAt, AuthTypeOK
<1>2. RaisePerConExit(c) => (Live(d)' <=> Live(d) /\ d # c)
  BY DEF RaisePerConExit, Live, OldInv, AuthTypeOK
<1>3. Abort(c) => (Live(d)' <=> Live(d) /\ d # c)
  BY Vacated DEF Abort, Live, OldInv
<1>4. DropRuntime => ~Live(d)'
  BY Vacated DEF DropRuntime, Live, OldInv
<1> QED BY <1>1, <1>2, <1>3, <1>4

\* Connecting makes the task, and each way out of the inner loop ends it or
\* tells it to end.
LEMMA TaskStep ==
    ASSUME OldInv, TaskPerConnection, [Next]_vars PROVE TaskPerConnection'
<1> USE DEF TaskPerConnection, Connected
<1>1. CASE Connect
  BY <1>1, LiveChanged DEF Connect, Vacant, ConnectOk
<1>2. CASE \/ ((\E ttl \in Ttl : HeartbeatOk(ttl)) \/ HeartbeatErr) /\ UNCHANGED authVars
           \/ MetricsGoOn /\ UNCHANGED authVars
           \/ EnterSelect /\ UNCHANGED authVars
           \/ SendHeartbeat /\ UNCHANGED authVars
  BY <1>2, LiveKept DEF HeartbeatOk, HeartbeatErr, MetricsGoOn, MetricsReady,
                        EnterSelect, StaysIn, SendHeartbeat
<1>3. CASE \/ HeartbeatErrLast /\ Drop
           \/ RefreshAborted \/ EndOfConnection
  <2>1. loop' = "outer"
    BY <1>3 DEF HeartbeatErrLast, RefreshAborted, MetricsRestart, EndOfConnection,
                LeaveOnExit, ShutdownRecv, Leave
  <2>2. PICK c \in Connection : RaisePerConExit(c) \/ Abort(c)
    BY <1>3 DEF Drop, RefreshAborted, EndOfConnection
  <2>3. Live(c)
    BY <2>2 DEF RaisePerConExit, Abort
  <2> QED BY <2>1, <2>2, <2>3, LiveChanged
<1>4. CASE \/ HeartbeatInvalid /\ DropRuntime
           \/ Outer /\ exit /\ DropRuntime
  BY <1>4, LiveChanged DEF HeartbeatInvalid, Outer
<1>5. CASE \/ Outer /\ ~exit /\ UNCHANGED authVars
           \/ (ConnectFails \/ BackoffEnds) /\ UNCHANGED authVars
  BY <1>5, LiveKept DEF Outer, ConnectFails, BackoffEnds
<1>6. CASE Others \/ UNCHANGED vars
  BY <1>6, LiveKept DEF Others, Shred, Accessory, Shutdown, OtherTakes, vars, beatVars
<1>7. CASE \E c \in Connection : Refresh(c) \/ RefreshPanics(c)
  BY <1>7, LiveKept DEF Refresh, RefreshPanics, RaiseExit, beatVars
<1>8. CASE Pass
  BY <1>8, LiveKept DEF Pass, BeatPass
<1> HIDE DEF TaskPerConnection, Connected
<1>9. CASE Answer \/ Metrics
  BY <1>2, <1>3, <1>4, <1>9 DEF Answer, Metrics
<1>10. CASE Beat
  BY <1>2, <1>4, <1>5, <1>10 DEF Beat
<1> QED BY <1>1, <1>3, <1>6, <1>7, <1>8, <1>9, <1>10 DEF Next

\* Initially there is neither.
LEMMA TaskInit == ASSUME Init PROVE TaskPerConnection
BY DEF Init, BeatInit, AuthInit, TaskPerConnection, Connected, Live

\* Old tasks may outlive their connections, but at all times exactly one task
\* has not been told to end if the thread is connected, and none if it is not.
THEOREM OneTaskPerConnection == Spec => []TaskPerConnection
<1>1. Init => TokenInv /\ OldInv /\ TaskPerConnection
  BY TokenInit, OldInit, TaskInit DEF Init
<1>2. TokenInv /\ OldInv /\ TaskPerConnection /\ [Next]_vars
        => (TokenInv /\ OldInv /\ TaskPerConnection)'
  BY TokenStep, OldStep, TaskStep, NextIsAuthStep DEF TokenInv
<1> QED BY <1>1, <1>2, PTL DEF Spec

-----------------------------------------------------------------------------
(* Heartbeats and tokens *)

\* A task that has panicked has raised the exit flag, which nothing lowers.
PanicRaisesExit == \A c \in Connection : task[c] = "panicked" => exit

\* The hook raises the flag in the step in which the task panics.
LEMMA PanicRaisesExitStep ==
    ASSUME AuthTypeOK, PanicRaisesExit, [Next]_vars PROVE PanicRaisesExit'
<1>1. exit => exit'
  BY NextIsBeatStep DEF BeatStep, Outer, ConnectFails, BackoffEnds, ConnectOk,
     EnterSelect, LeaveOnExit, SendHeartbeat, HeartbeatOk, HeartbeatErr,
     HeartbeatErrLast, HeartbeatInvalid, MetricsRestart, MetricsGoOn,
     ShutdownRecv, Shred, Accessory, Shutdown, OtherTakes, RaiseExit, BeatPass,
     beatVars
<1>2. ASSUME NEW d \in Connection, task'[d] = "panicked", ~exit'
      PROVE  task[d] = "panicked"
  <2>1. ~ \E c \in Connection : RefreshPanics(c)
    BY <1>2 DEF RefreshPanics, RaiseExit
  <2>2. ASSUME NEW c \in Connection, NEW access \in AccessTtl,
               NEW refr \in RefreshTtl \cup {NoExpiry}, New(c, access, refr)
        PROVE  task[d] = "panicked"
    BY <1>2, <2>2 DEF New, Become, AuthTypeOK
  <2>3. ASSUME NEW gone, Vacate(gone) PROVE task[d] = "panicked"
    BY <1>2, <2>3, Vacated
  <2>4. ASSUME NEW c \in Connection, LoopStep(c) PROVE task[d] = "panicked"
    BY <1>2, <2>3, <2>4 DEF LoopStep, Check, Return, Wake, CallFails, RefreshAccess,
                            FullAuth, Become, AuthTypeOK
  <2>5. CASE AuthPass \/ UNCHANGED authVars \/ \E c \in Connection : RaisePerConExit(c)
    BY <1>2, <2>5 DEF AuthPass, authVars, RaisePerConExit
  <2> QED BY <2>1, <2>2, <2>3, <2>4, <2>5
          DEF Next, vars, Connect, Vacant, Answer, Drop, Metrics, RefreshAborted, Abort,
              EndOfConnection, Beat, DropRuntime, Others, Refresh, Pass
<1> QED BY <1>1, <1>2 DEF PanicRaisesExit

\* A heartbeat goes out under a live bearer token, unless the authentication
\* service has been failing for the margin less a sleep, or the process exits.
THEOREM HeartbeatsAreAuthorised == Spec => HeartbeatsAuthorised
<1> DEFINE Inv == TokenInv /\ OldInv /\ TaskPerConnection /\ PanicRaisesExit
<1>1. Init => Inv
  <2>1. ASSUME Init PROVE PanicRaisesExit
    BY <2>1 DEF Init, AuthInit, PanicRaisesExit
  <2> QED BY <2>1, TokenInit, OldInit, TaskInit DEF Init
<1>2. Inv /\ [Next]_vars => Inv'
  BY TokenStep, OldStep, TaskStep, NextIsAuthStep, PanicRaisesExitStep DEF TokenInv
<1>3. Inv => (SendHeartbeat =>
                \/ exit
                \/ \E c \in Connection :
                     Live(c) /\ (bearer[c] > 0 \/ failing[c] >= Margin - Poll))
  <2> SUFFICES ASSUME Inv, SendHeartbeat, ~exit
               PROVE  \E c \in Connection :
                        Live(c) /\ (bearer[c] > 0 \/ failing[c] >= Margin - Poll)
    OBVIOUS
  <2>1. PICK c \in Connection : Live(c)
    BY DEF SendHeartbeat, TaskPerConnection, Connected
  <2>2. task[c] \in Alive
    BY <2>1 DEF TokenInv, AuthTypeOK, Live, PanicRaisesExit
  <2>3. bearer[c] > 0 \/ failing[c] >= Margin - Poll
    BY <2>2, TokenInvImplies, TokenAssumption
       DEF BearerOutlivesOutage, TokenInv, AuthTypeOK
  <2> QED BY <2>1, <2>3
<1> QED BY <1>1, <1>2, <1>3, PTL DEF Spec, HeartbeatsAuthorised

-----------------------------------------------------------------------------
(* The registration *)

\* The thread has sent a heartbeat and not heard of it.
Unanswered == loop \in {"call", "panicked"}

\* The time that must be left of a registration: two intervals when the first
\* heartbeat after it is due, one when the second is, less the time in calls.
Due ==
    CASE missed = 0 /\ ~Unanswered -> 2 * interval + tick
      [] missed = 0 /\ Unanswered -> 2 * interval
      [] missed = 1 /\ ~Unanswered -> interval + tick
      [] OTHER -> interval

\* What makes LeaseKept inductive.
LeaseInv ==
    /\ BeatTypeOK
    /\ tick <= interval
    /\ missed < 2 => Connected \/ loop = "panicked"
    /\ missed < 2 /\ slow < interval => lease + slow >= Due

\* Steps that give the connection up, or that only move between the waits of
\* the thread.
LEMMA LeaseQuietStep ==
    ASSUME LeaseInv, BeatTypeOK', UNCHANGED tickVars,
           \/ loop' = "outer" /\ missed' = 2
           \/ /\ UNCHANGED leaseVars
              /\ missed < 2 => Unanswered' = Unanswered
                               /\ (Connected' \/ loop' = "panicked")
    PROVE  LeaseInv'
BY DEF LeaseInv, BeatTypeOK, Due, tickVars, leaseVars

\* Every step keeps it: an answer renews the registration, a tick or a failed
\* call uses up at most the interval it accounts for.
LEMMA LeaseStep ==
    ASSUME LeaseInv, BeatStep \/ UNCHANGED beatVars PROVE LeaseInv'
<1>1. BeatTypeOK'
  BY BeatTypeStep DEF LeaseInv
<1>2. CASE LeaveOnExit \/ HeartbeatErrLast \/ ShutdownRecv \/ MetricsRestart
  <2>1. loop' = "outer" /\ missed' = 2 /\ UNCHANGED tickVars
    BY <1>2 DEF LeaveOnExit, HeartbeatErrLast, ShutdownRecv, MetricsRestart, Leave,
                Forget, tickVars
  <2> QED BY <1>1, <2>1, LeaseQuietStep
<1>3. CASE Outer \/ ConnectFails \/ BackoffEnds \/ ConnectOk
  <2>1. UNCHANGED tickVars /\ UNCHANGED leaseVars
    BY <1>3 DEF Outer, ConnectFails, BackoffEnds, ConnectOk, TicksAtConnect,
                tickVars, leaseVars
  <2>2. ~(missed < 2)
    BY <1>3 DEF Outer, ConnectFails, BackoffEnds, ConnectOk, LeaseInv, Connected
  <2> QED BY <1>1, <2>1, <2>2, LeaseQuietStep
<1>4. CASE EnterSelect \/ MetricsGoOn \/ HeartbeatInvalid
  <2>1. UNCHANGED tickVars /\ UNCHANGED leaseVars
    BY <1>4 DEF EnterSelect, MetricsGoOn, HeartbeatInvalid, tickVars, leaseVars
  <2>2. Unanswered' = Unanswered /\ (Connected' \/ loop' = "panicked")
    BY <1>4 DEF EnterSelect, StaysIn, MetricsGoOn, MetricsReady, HeartbeatInvalid,
                Unanswered, Connected
  <2> QED BY <1>1, <2>1, <2>2, LeaseQuietStep
<1>5. CASE \/ Shred \/ Accessory \/ Shutdown \/ OtherTakes \/ RaiseExit
           \/ UNCHANGED beatVars
  <2>1. UNCHANGED tickVars /\ UNCHANGED leaseVars /\ loop' = loop
    BY <1>5 DEF Shred, Accessory, Shutdown, OtherTakes, RaiseExit, beatVars,
                tickVars, leaseVars
  <2>2. missed < 2 => Unanswered' = Unanswered /\ (Connected' \/ loop' = "panicked")
    BY <2>1 DEF LeaseInv, Unanswered, Connected
  <2> QED BY <1>1, <2>1, <2>2, LeaseQuietStep
<1>6. CASE SendHeartbeat
  BY <1>1, <1>6 DEF SendHeartbeat, LeaseInv, BeatTypeOK, Due, Unanswered, Connected,
                    leaseVars
<1>7. ASSUME NEW ttl \in Ttl, HeartbeatOk(ttl) PROVE LeaseInv'
  <2>1. ttl \in Nat /\ ttl >= 3 * (ttl \div 3) /\ ttl \div 3 \in Nat
    BY HeartbeatAssumption
  <2>2. interval' = ttl \div 3 /\ tick' <= interval' /\ loop' = "inner"
    BY <1>7, <2>1 DEF HeartbeatOk, NewInterval, LeaseInv, BeatTypeOK
  <2>3. missed' = 2 \/ (missed' = 0 /\ lease' = ttl - asked /\ slow' = asked)
    BY <1>7 DEF HeartbeatOk, Forget
  <2> QED BY <1>1, <2>1, <2>2, <2>3 DEF LeaseInv, BeatTypeOK, Due, Unanswered, Connected
<1>8. CASE HeartbeatErr
  BY <1>1, <1>8 DEF HeartbeatErr, Forget, LeaseInv, BeatTypeOK, Due, Unanswered, Connected,
                    tickVars
<1>9. CASE BeatPass
  <2>1. tick' = Sooner(tick) /\ UNCHANGED <<loop, interval>> /\ loop # "panicked"
    BY <1>9 DEF BeatPass, Running
  <2>2. CASE missed' = 2
    BY <1>1, <2>1, <2>2 DEF Sooner, LeaseInv, BeatTypeOK
  <2>3. CASE missed' # 2
    <3>1. /\ missed < 2 /\ missed' = missed /\ lease' = Sooner(lease)
          /\ slow' = IF loop = "call" THEN slow + 1 ELSE slow
      BY <1>9, <2>3 DEF BeatPass, Forget
    <3>2. loop # "call" => tick > 0
      BY <1>9, <3>1 DEF BeatPass, SomeReady, LeaseInv, BeatTypeOK, Connected, Running
    <3> QED BY <1>1, <2>1, <3>1, <3>2
            DEF Sooner, LeaseInv, BeatTypeOK, Due, Unanswered, Connected
  <2> QED BY <2>2, <2>3
<1> QED BY <1>2, <1>3, <1>4, <1>5, <1>6, <1>7, <1>8, <1>9 DEF BeatStep

\* For every ttl the block engine grants, the registration survives one failed
\* heartbeat, as long as less than an interval was spent waiting for answers.
THEOREM LeaseIsKept == Spec => []LeaseKept
<1>1. Init => LeaseInv
  <2> SUFFICES ASSUME Init PROVE LeaseInv
    OBVIOUS
  <2>1. BeatTypeOK
    BY BeatTypeInit DEF Init
  <2>2. ~(missed < 2) /\ tick <= interval
    BY <2>1 DEF Init, BeatInit, BeatTypeOK
  <2> QED BY <2>1, <2>2 DEF LeaseInv
<1>2. LeaseInv /\ [Next]_vars => LeaseInv'
  BY LeaseStep, NextIsBeatStep
<1>3. LeaseInv => LeaseKept
  BY DEF LeaseInv, LeaseKept, BeatTypeOK, Due
<1> QED BY <1>1, <1>2, <1>3, PTL DEF Spec

-----------------------------------------------------------------------------
(* Restarts *)

\* Since the last metrics tick the accessory thread has reported, or will
\* before the next.
ReportInv ==
    /\ BeatTypeOK
    /\ Shredstream => counted \/ silent \/ exit \/ report < metrics

\* Every step keeps it: a metrics tick starts a period longer than a report's.
LEMMA ReportStep ==
    ASSUME ReportPeriod < MetricsPeriod, ReportInv,
           BeatStep \/ UNCHANGED beatVars
    PROVE  ReportInv'
<1>1. BeatTypeOK'
  BY BeatTypeStep DEF ReportInv
<1>2. CASE Accessory
  <2>1. counted' \/ silent'
    BY <1>2 DEF Accessory
  <2> QED BY <1>1, <2>1 DEF ReportInv
<1>3. CASE MetricsRestart \/ MetricsGoOn
  <2>1. metrics' = MetricsPeriod /\ report' = report
    BY <1>3 DEF MetricsRestart, MetricsGoOn
  <2>2. report' < metrics'
    BY <2>1, HeartbeatAssumption DEF ReportInv, BeatTypeOK
  <2> QED BY <1>1, <2>2 DEF ReportInv
<1>4. CASE BeatPass
  <2>1. UNCHANGED <<mode, counted, silent, exit>>
    BY <1>4 DEF BeatPass
  <2>2. Shredstream /\ ~exit => /\ report > 0 /\ report' = Sooner(report)
                                /\ metrics' = Sooner(metrics)
    BY <1>4 DEF BeatPass
  <2>3. Shredstream /\ ~exit /\ report < metrics => report' < metrics'
    BY <2>2, HeartbeatAssumption DEF Sooner, ReportInv, BeatTypeOK
  <2> QED BY <1>1, <2>1, <2>3 DEF ReportInv, Shredstream
<1>5. CASE HeartbeatInvalid \/ Shutdown \/ RaiseExit
  <2>1. exit'
    BY <1>5 DEF HeartbeatInvalid, Shutdown, RaiseExit
  <2> QED BY <1>1, <2>1 DEF ReportInv
<1>6. CASE \/ Outer \/ ConnectFails \/ BackoffEnds \/ ConnectOk \/ EnterSelect
           \/ LeaveOnExit \/ SendHeartbeat \/ HeartbeatErr \/ HeartbeatErrLast
           \/ ShutdownRecv \/ Shred \/ OtherTakes \/ UNCHANGED beatVars
           \/ \E ttl \in Ttl : HeartbeatOk(ttl)
  <2>1. UNCHANGED <<mode, counted, silent, exit, report, metrics>>
    BY <1>6 DEF Outer, ConnectFails, BackoffEnds, ConnectOk, EnterSelect, LeaveOnExit,
       SendHeartbeat, HeartbeatErr, HeartbeatErrLast, ShutdownRecv, Shred,
       OtherTakes, HeartbeatOk, beatVars, countVars
  <2> QED BY <1>1, <2>1 DEF ReportInv, Shredstream
<1> QED BY <1>2, <1>3, <1>4, <1>5, <1>6 DEF BeatStep

\* If the accessory thread reports more often than the metrics tick comes (15 s
\* and 30 s by default), a connection is restarted only after a reporting
\* period without shreds.
THEOREM RestartsNeedSilence ==
    ASSUME ReportPeriod < MetricsPeriod
    PROVE  Spec => RestartNeedsSilence
<1>1. Init => ReportInv
  <2> SUFFICES ASSUME Init PROVE ReportInv
    OBVIOUS
  <2>1. BeatTypeOK
    BY BeatTypeInit DEF Init
  <2>2. report < metrics
    BY <2>1, HeartbeatAssumption DEF Init, BeatInit, BeatTypeOK
  <2> QED BY <2>1, <2>2 DEF ReportInv
<1>2. ReportInv /\ [Next]_vars => ReportInv'
  BY ReportStep, NextIsBeatStep
<1>3. ReportInv => (MetricsRestart => silent \/ exit)
  <2> SUFFICES ASSUME ReportInv, MetricsRestart PROVE silent \/ exit
    OBVIOUS
  <2>1. Shredstream /\ metrics = 0 /\ ~counted
    BY DEF MetricsRestart, MetricsReady, NoneReceived
  <2>2. ~(report < metrics)
    BY <2>1 DEF ReportInv, BeatTypeOK
  <2> QED BY <2>1, <2>2 DEF ReportInv
<1> QED BY <1>1, <1>2, <1>3, PTL DEF Spec, RestartNeedsSilence
===============================================================================
