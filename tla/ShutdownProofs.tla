----------------------------- MODULE ShutdownProofs ----------------------------
(***************************************************************************)
(* Starting and stopping, for any number of sockets, any channel capacity  *)
(* above the number of takers, any command lines and any panicking threads.*)
(***************************************************************************)
EXTENDS Shutdown, FiniteSetTheorems, FunctionTheorems, TLAPS

\* Steps of one thread that leave the flag, the channel and main alone.
Quiet ==
    \/ \E t \in Thread : CheckExit(t) \/ Tick(t)
    \/ \E i \in 1 .. Sockets : Packets(i) \/ Disconnected(i)
    \/ NoSenders \/ Tasks

\* Next, regrouped by what a step changes.
LEMMA NextCases ==
    ASSUME [Next]_vars
    PROVE  \/ Quiet \/ Spawn \/ Started \/ Join \/ MainReturns \/ UNCHANGED vars
           \/ \E t \in Thread : TakeMessage(t)
           \/ \E t \in Thread : HookSend(t)
           \/ \E t \in Thread : Panic(t)
           \/ PrometheusPoll \/ Signal \/ SignalSend
           \/ StartPanics \/ JoinPanicked \/ MainHookSend
BY DEF Next, Own, Main, Quiet

\* What the quiet steps leave alone.
LEMMA QuietLeaves ==
    ASSUME Quiet
    PROVE  UNCHANGED <<config, exit, chan, left, main, spawned, joined, signals, panics>>
BY DEF Quiet, Tasks, CheckExit, Tick, Packets, Disconnected, NoSenders, TaskEnds,
   mainVars

\* The command line does not change.
LEMMA ConfigFixed == ASSUME [Next]_vars PROVE config' = config
BY NextCases, QuietLeaves DEF Spawn, Started, Join, MainReturns, vars, TakeMessage,
   HookSend, Panic, PrometheusPoll, Signal, SignalSend, StartPanics, JoinPanicked,
   MainHookSend

-----------------------------------------------------------------------------
(* Types *)

\* TypeOK, and that main joins only when it has spawned every thread.
TypeInv == TypeOK /\ (main = "join" => spawned = Len(thread_handles))

\* No handle comes after that of the metrics server.
LEMMA Handles ==
    /\ Len(thread_handles) \in Nat
    /\ \A k \in 1 .. Len(thread_handles) - 1 : thread_handles[k] # prometheus
<1> DEFINE pairs == [k \in 1 .. 2 * Sockets |-> IF k % 2 = 1 THEN listen((k + 1) \div 2)
                                                 ELSE send(k \div 2)]
           U == UNION {{heartbeat, refresh, server, report, accessory},
                       {pairs[k] : k \in 1 .. 2 * Sockets}}
<1>1. prometheus \notin U
  <2>1. \A k \in 1 .. 2 * Sockets : pairs[k] # prometheus
    BY DEF listen, send, prometheus
  <2>2. prometheus \notin {heartbeat, refresh, server, report, accessory}
    BY DEF heartbeat, refresh, server, report, accessory, prometheus
  <2> HIDE DEF pairs
  <2> QED BY <2>1, <2>2
<1>2. pairs \in Seq(U)
  <2>1. 2 * Sockets \in Nat
    BY ShutdownAssumption
  <2>2. \A k \in 1 .. 2 * Sockets : pairs[k] \in U
    OBVIOUS
  <2>3. pairs = [k \in 1 .. 2 * Sockets |-> pairs[k]]
    OBVIOUS
  <2> HIDE DEF pairs, U
  <2>4. pairs \in [1 .. 2 * Sockets -> U]
    BY <2>2, <2>3
  <2> QED BY <2>1, <2>4
<1>3. /\ Only(config.mode = "shredstream", heartbeat) \in Seq(U)
      /\ Only(config.discovery, refresh) \in Seq(U)
      /\ Only(config.grpc, server) \in Seq(U)
      /\ <<report, accessory>> \in Seq(U)
  <2>1. {heartbeat, refresh, server, report, accessory} \subseteq U
    OBVIOUS
  <2> HIDE DEF U
  <2> QED BY <2>1 DEF Only
<1>4. \/ Only(config.prometheus, prometheus) = <<>>
      \/ Only(config.prometheus, prometheus) = <<prometheus>>
  BY DEF Only
<1> DEFINE a == Only(config.mode = "shredstream", heartbeat) \o pairs
           b == a \o <<report, accessory>>
           c == b \o Only(config.discovery, refresh)
           d == c \o Only(config.grpc, server)
           e == d \o Only(config.prometheus, prometheus)
<1>5. thread_handles = IF config.mode = "subscribe_only" THEN subscribe_only_handles ELSE e
  BY DEF thread_handles
<1> HIDE DEF pairs, U
<1>6. d \in Seq(U)
  <2>1. a \in Seq(U)
    BY <1>2, <1>3
  <2> HIDE DEF a
  <2>2. b \in Seq(U)
    BY <2>1, <1>3
  <2> HIDE DEF b
  <2>3. c \in Seq(U)
    BY <2>2, <1>3
  <2> HIDE DEF c
  <2> QED BY <2>3, <1>3
<1> HIDE DEF d
<1>7. Len(e) \in Nat /\ \A k \in 1 .. Len(e) - 1 : e[k] # prometheus
  <2> DEFINE V == U \cup {prometheus}
  <2>1. /\ Len(d) \in Nat /\ d \in Seq(V)
        /\ \A k \in 1 .. Len(d) : d[k] \in U /\ d[k] # prometheus
    BY <1>1, <1>6
  <2>2. CASE Only(config.prometheus, prometheus) = <<>>
    <3>1. e = d
      BY <2>1, <2>2
    <3> HIDE DEF e
    <3> QED BY <2>1, <3>1
  <2>3. CASE Only(config.prometheus, prometheus) = <<prometheus>>
    <3>1. e = d \o <<prometheus>> /\ <<prometheus>> \in Seq(V)
      BY <2>3
    <3> HIDE DEF e, V
    <3>2. Len(e) = Len(d) + 1 /\ \A k \in 1 .. Len(d) : e[k] = d[k]
      BY <2>1, <3>1
    <3>3. \A k \in 1 .. Len(e) - 1 : k \in 1 .. Len(d)
      BY <2>1, <3>2
    <3> QED BY <2>1, <3>2, <3>3
  <2> QED BY <1>4, <2>2, <2>3
<1> HIDE DEF e
<1>8. Len(subscribe_only_handles) = 1
  BY DEF subscribe_only_handles
<1>9. CASE thread_handles = subscribe_only_handles
  <2>1. Len(thread_handles) = 1
    BY <1>8, <1>9
  <2>2. 1 .. Len(thread_handles) - 1 = {}
    BY <2>1
  <2> QED BY <2>1, <2>2
<1>10. CASE thread_handles = e
  BY <1>7, <1>10
<1> QED BY <1>5, <1>9, <1>10

\* The handles depend on the command line alone.
LEMMA HandlesFixed == ASSUME config' = config PROVE thread_handles' = thread_handles
BY DEF thread_handles

\* The states a thread can be in.
States == {"unborn", "loop", "wait", "hook", "done", "dead"}

\* Every step keeps the types.
LEMMA TypeStep == ASSUME TypeInv, [Next]_vars PROVE TypeInv'
<1> DEFINE N == Len(thread_handles)
<1>1. N \in Nat /\ config' = config /\ N' = N
  BY ConfigFixed, Handles, HandlesFixed
<1>2. /\ config \in Configs /\ config.signals \in Nat /\ config.panics \in Nat
      /\ Messages \in Nat
  BY ShutdownAssumption DEF TypeInv, TypeOK
<1>3. state \in [Thread -> States]
  BY DEF TypeInv, TypeOK, States
<1> HIDE DEF N
<1>4. SUFFICES
        /\ state' \in [Thread -> States]
        /\ exit' \in BOOLEAN /\ chan' \in 0 .. Messages /\ left' \in 0 .. Messages
        /\ main' \in {"start", "join", "hook", "done", "dead"}
        /\ spawned' \in 0 .. N /\ joined' \in 0 .. spawned'
        /\ signals' \in 0 .. config.signals /\ panics' \in 0 .. config.panics
        /\ main' = "join" => spawned' = N
  BY <1>1, <1>2 DEF TypeInv, TypeOK, N, States
<1>5. /\ exit \in BOOLEAN /\ chan \in 0 .. Messages /\ left \in 0 .. Messages
      /\ main \in {"start", "join", "hook", "done", "dead"}
      /\ spawned \in 0 .. N /\ joined \in 0 .. spawned
      /\ signals \in 0 .. config.signals /\ panics \in 0 .. config.panics
      /\ main = "join" => spawned = N
  BY DEF TypeInv, TypeOK, N
<1>6. CASE Quiet
  <2>1. UNCHANGED <<exit, chan, left, main, spawned, joined, signals, panics>>
    BY <1>6, QuietLeaves
  <2>2. state' \in [Thread -> States]
    BY <1>3, <1>6 DEF Quiet, Tasks, CheckExit, Tick, Packets, Disconnected, NoSenders,
       TaskEnds, Become, States
  <2> QED BY <1>5, <2>1, <2>2
<1>7. CASE Spawn
  <2>1. state' \in [Thread -> States]
    BY <1>3, <1>7 DEF Spawn, States
  <2>2. spawned < N /\ spawned' = spawned + 1 /\ main = "start" /\ main' = main
    BY <1>7 DEF Spawn, N
  <2> QED BY <1>1, <1>5, <1>7, <2>1, <2>2 DEF Spawn
<1>8. CASE Started
  BY <1>3, <1>5, <1>8 DEF Started, N
<1>9. CASE Join
  BY <1>1, <1>3, <1>5, <1>9 DEF Join, N
<1>10. CASE MainReturns \/ UNCHANGED vars
  BY <1>3, <1>5, <1>10 DEF MainReturns, vars, mainVars
<1>11. CASE \E t \in Thread : TakeMessage(t)
  <2>1. state' \in [Thread -> States] /\ chan > 0 /\ chan' = chan - 1
    BY <1>3, <1>11 DEF TakeMessage, Become, States
  <2> QED BY <1>2, <1>5, <1>11, <2>1 DEF TakeMessage, mainVars
<1>12. CASE \E t \in Thread : HookSend(t)
  <2>1. state' \in [Thread -> States] /\ chan < Messages /\ chan' = chan + 1
    BY <1>3, <1>12 DEF HookSend, HasRoom, Become, States
  <2> QED BY <1>2, <1>5, <1>12, <2>1 DEF HookSend, mainVars
<1>13. CASE \E t \in Thread : Panic(t)
  <2>1. state' \in [Thread -> States] /\ panics < config.panics /\ panics' = panics + 1
    BY <1>3, <1>13 DEF Panic, Become, States
  <2> QED BY <1>2, <1>5, <1>13, <2>1 DEF Panic, RaiseExit, mainVars
<1>14. CASE PrometheusPoll
  <2>1. chan' = chan \/ (chan > 0 /\ chan' = chan - 1)
    BY <1>14, Zenon DEF PrometheusPoll
  <2>2. Become(prometheus, "done") \/ Become(prometheus, "wait")
    BY <1>14 DEF PrometheusPoll
  <2>3. state' \in [Thread -> States]
    BY <1>3, <2>2 DEF Become, States
  <2> QED BY <1>2, <1>5, <1>14, <2>1, <2>3 DEF PrometheusPoll, mainVars
<1>15. CASE Signal
  <2>1. Messages \in 0 .. Messages /\ signals + 1 \in 0 .. config.signals
    BY <1>2, <1>5, <1>15 DEF Signal
  <2> QED BY <1>3, <1>5, <1>15, <2>1 DEF Signal, RaiseExit, MessagesPerSignal, mainVars
<1>16. CASE SignalSend
  BY <1>2, <1>3, <1>5, <1>16 DEF SignalSend, HasRoom, mainVars
<1>17. CASE StartPanics
  BY <1>2, <1>3, <1>5, <1>17 DEF StartPanics, RaiseExit
<1>18. CASE JoinPanicked
  BY <1>3, <1>5, <1>18 DEF JoinPanicked, RaiseExit
<1>19. CASE MainHookSend
  BY <1>2, <1>3, <1>5, <1>19 DEF MainHookSend, HasRoom
<1> QED BY NextCases, <1>6, <1>7, <1>8, <1>9, <1>10, <1>11, <1>12, <1>13, <1>14,
           <1>15, <1>16, <1>17, <1>18, <1>19

\* Init establishes them.
LEMMA TypeInitially == ASSUME Init PROVE TypeInv
<1>1. config.signals \in Nat /\ config.panics \in Nat /\ Messages \in Nat
  BY ShutdownAssumption DEF Init
<1>2. /\ 0 \in 0 .. Messages /\ 0 \in 0 .. Len(thread_handles) /\ 0 \in 0 .. 0
      /\ 0 \in 0 .. config.signals /\ 0 \in 0 .. config.panics
  BY <1>1, Handles
<1>3. state \in [Thread -> States] /\ "unborn" \in States
  BY DEF Init, States
<1> QED BY <1>2, <1>3 DEF Init, TypeInv, TypeOK, States

\* The channel holds at most Messages messages, main joins no handle that it
\* has not spawned, and every thread is in one of its states.
THEOREM TypesCorrect == Spec => []TypeOK
<1>1. TypeInv => TypeOK
  BY DEF TypeInv
<1>2. Init => TypeInv
  BY TypeInitially
<1>3. TypeInv /\ [Next]_vars => TypeInv'
  BY TypeStep
<1> QED BY <1>1, <1>2, <1>3, PTL DEF Spec

-----------------------------------------------------------------------------
(* The flag comes first *)

\* Before the flag is raised there is no message and nobody about to send one.
ExitInv ==
    \/ exit
    \/ /\ chan = 0 /\ left = 0 /\ main # "hook"
       /\ \A t \in Thread : state[t] # "hook"

\* Every step keeps it: whoever is to send has raised the flag before.
LEMMA ExitStep == ASSUME TypeInv, ExitInv, [Next]_vars PROVE ExitInv'
<1>1. CASE exit
  <2>1. exit'
    BY <1>1, NextCases, QuietLeaves DEF Spawn, Started, Join, MainReturns, vars,
       TakeMessage, HookSend, Panic, PrometheusPoll, Signal, SignalSend, StartPanics,
       JoinPanicked, MainHookSend, RaiseExit
  <2> QED BY <2>1 DEF ExitInv
<1>2. CASE Signal \/ StartPanics \/ JoinPanicked \/ (\E t \in Thread : Panic(t))
  BY <1>2 DEF Signal, StartPanics, JoinPanicked, Panic, RaiseExit, ExitInv
<1>3. ASSUME ~exit, \/ SignalSend \/ MainHookSend \/ (\E t \in Thread : HookSend(t))
                    \/ (\E t \in Thread : TakeMessage(t))
      PROVE  FALSE
  BY <1>3 DEF ExitInv, SignalSend, MainHookSend, HookSend, TakeMessage
<1>4. CASE ~exit /\ (Quiet \/ Spawn \/ PrometheusPoll)
  <2>1. chan' = 0 /\ left' = 0 /\ main' # "hook"
    <3>1. UNCHANGED <<left, main>>
      BY <1>4, QuietLeaves DEF Spawn, PrometheusPoll, mainVars
    <3>2. CASE Quiet \/ Spawn
      BY <1>4, <3>1, <3>2, QuietLeaves DEF Spawn, ExitInv
    <3>3. CASE PrometheusPoll
      BY <1>4, <3>1, <3>3 DEF PrometheusPoll, ExitInv
    <3> QED BY <1>4, <3>2, <3>3
  <2>2. CASE Spawn
    BY <1>4, <2>1, <2>2 DEF Spawn, ExitInv
  <2>3. CASE Quiet \/ PrometheusPoll
    <3>1. \E t \in Thread, s \in States \ {"hook"} : Become(t, s)
      BY <2>3 DEF Quiet, Tasks, CheckExit, Tick, Packets, Disconnected, NoSenders,
         TaskEnds, PrometheusPoll, States, Thread, Sender
    <3> QED BY <1>4, <2>1, <3>1 DEF Become, ExitInv, TypeInv, TypeOK
  <2> QED BY <1>4, <2>2, <2>3
<1>5. CASE ~exit /\ (Started \/ Join \/ MainReturns \/ UNCHANGED vars)
  BY <1>5 DEF Started, Join, MainReturns, vars, mainVars, ExitInv
<1> QED BY NextCases, <1>1, <1>2, <1>3, <1>4, <1>5

\* Whoever takes a message finds the flag raised, whatever thread, signal or
\* panic of main sent it.
THEOREM FlagBeforeMessage == Spec => []ExitBeforeMessage
<1>1. Init => TypeInv /\ ExitInv
  <2>1. Init => ExitInv
    BY DEF Init, ExitInv
  <2> QED BY <2>1, TypeInitially
<1>2. TypeInv /\ ExitInv /\ [Next]_vars => TypeInv' /\ ExitInv'
  BY TypeStep, ExitStep
<1>3. ExitInv => ExitBeforeMessage
  BY DEF ExitInv, ExitBeforeMessage
<1> QED BY <1>1, <1>2, <1>3, PTL DEF Spec

-----------------------------------------------------------------------------
(* Enough messages *)

\* The senders and four more threads take messages: fewer than there are.
LEMMA FewTakers == IsFiniteSet(Taker) /\ Cardinality(Taker) < Messages
<1> DEFINE f == [i \in 1 .. Sockets |-> send(i)]
<1>1. IsFiniteSet(1 .. Sockets) /\ Cardinality(1 .. Sockets) = Sockets
  BY ShutdownAssumption, FS_Interval
<1>2. f \in Surjection(1 .. Sockets, Sender)
  BY Fun_IsSurj DEF Sender
<1>3. /\ IsFiniteSet(Sender) /\ Cardinality(Sender) \in Nat
      /\ Cardinality(Sender) <= Sockets
  <2> HIDE DEF f
  <2> QED BY <1>1, <1>2, FS_Surjection, FS_CardinalityType
<1>4. ASSUME NEW S, NEW x, NEW n \in Nat, IsFiniteSet(S), Cardinality(S) <= n
      PROVE  IsFiniteSet(S \cup {x}) /\ Cardinality(S \cup {x}) <= n + 1
  <2>1. Cardinality(S) \in Nat
    BY <1>4, FS_CardinalityType
  <2>2. /\ IsFiniteSet(S \cup {x})
        /\ \/ Cardinality(S \cup {x}) = Cardinality(S)
           \/ Cardinality(S \cup {x}) = Cardinality(S) + 1
    BY <1>4, FS_AddElement
  <2> QED BY <1>4, <2>1, <2>2
<1> DEFINE A == Sender \cup {heartbeat}
           B == A \cup {accessory}
           C == B \cup {refresh}
           D == C \cup {server}
<1>5. /\ Sockets \in Nat /\ Sockets + 1 \in Nat /\ Sockets + 1 + 1 \in Nat
      /\ Sockets + 1 + 1 + 1 \in Nat
  BY ShutdownAssumption
<1>6. IsFiniteSet(A) /\ Cardinality(A) <= Sockets + 1
  BY <1>3, <1>4, <1>5, Zenon
<1>7. IsFiniteSet(B) /\ Cardinality(B) <= Sockets + 1 + 1
  <2> HIDE DEF A
  <2> QED BY <1>4, <1>5, <1>6, Zenon
<1>8. IsFiniteSet(C) /\ Cardinality(C) <= Sockets + 1 + 1 + 1
  <2> HIDE DEF B
  <2> QED BY <1>4, <1>5, <1>7, Zenon
<1>9. IsFiniteSet(D) /\ Cardinality(D) <= Sockets + 1 + 1 + 1 + 1
  <2> HIDE DEF C
  <2> QED BY <1>4, <1>5, <1>8, Zenon
<1>10. Taker = D
  BY DEF Taker
<1>11. Cardinality(D) \in Nat
  BY <1>9, FS_CardinalityType
<1> HIDE DEF D
<1> QED BY <1>5, <1>9, <1>10, <1>11, ShutdownAssumption

\* Threads that may still take a message: with the flag up, a thread that is
\* not in its wait never gets there again.
Waiting == {t \in Taker : state[t] = "wait"}

\* The metrics server has not got its message.
Unserved == state[prometheus] \in {"unborn", "loop", "wait"}

\* After a signal there are more messages, sent or to be sent, than threads
\* other than the metrics server that may take one.
MessageInv ==
    signals > 0 => exit /\ (Unserved => chan + left > Cardinality(Waiting))

\* Waiting is a finite set.
LEMMA WaitingFinite == IsFiniteSet(Waiting) /\ Cardinality(Waiting) \in Nat
<1>1. Waiting \in SUBSET Taker
  BY DEF Waiting
<1>2. IsFiniteSet(Waiting)
  BY <1>1, FewTakers, FS_Subset
<1> QED BY <1>2, FS_CardinalityType

\* A step keeps MessageInv if it takes no message and lets nobody wait again.
LEMMA FewerWaiting ==
    ASSUME TypeInv, TypeInv', MessageInv, signals' = signals, exit => exit',
           exit => Waiting' \subseteq Waiting, Unserved' => Unserved,
           chan' + left' >= chan + left
    PROVE  MessageInv'
<1> SUFFICES ASSUME signals > 0, Unserved' PROVE chan' + left' > Cardinality(Waiting')
  BY DEF MessageInv
<1>1. exit /\ chan + left > Cardinality(Waiting)
  BY DEF MessageInv
<1>2. Waiting' \in SUBSET Waiting
  BY <1>1
<1>3. Cardinality(Waiting') \in Nat /\ Cardinality(Waiting') <= Cardinality(Waiting)
  BY <1>2, WaitingFinite, FS_Subset, FS_CardinalityType
<1>4. /\ chan \in Int /\ left \in Int /\ chan' \in Int /\ left' \in Int
      /\ Cardinality(Waiting) \in Nat
  BY WaitingFinite, ShutdownAssumption DEF TypeInv, TypeOK
<1>5. \A a, b, c, d \in Int, m, n \in Nat :
        c + d >= a + b /\ a + b > n /\ m <= n => c + d > m
  OBVIOUS
<1> QED BY <1>1, <1>3, <1>4, <1>5

\* The metrics server is the last thread to be started.
PrometheusLast == spawned < Len(thread_handles) => state[prometheus] = "unborn"

\* A step changes the state of one thread, which runs, or spawns, or none.
LEMMA StateStep ==
    ASSUME TypeInv, [Next]_vars
    PROVE  \/ Spawn \/ UNCHANGED state
           \/ \E t \in Thread, s \in States \ {"unborn"} :
                /\ state[t] # "unborn" /\ Become(t, s)
                /\ state[t] \in {"loop", "wait"} \/ s = "dead"
                /\ s = "wait" => ~exit \/ t = prometheus
<1>1. CASE Quiet
  BY <1>1 DEF Quiet, CheckExit, Tick, Packets, Disconnected, NoSenders, Tasks,
     TaskEnds, States, Thread, Sender
<1>2. CASE (\E t \in Thread : TakeMessage(t)) \/ (\E t \in Thread : HookSend(t))
           \/ (\E t \in Thread : Panic(t))
  BY <1>2 DEF TakeMessage, HookSend, Panic, States
<1>3. CASE PrometheusPoll
  <2>1. prometheus \in Thread /\ {"done", "wait"} \subseteq States \ {"unborn"}
    BY DEF Thread, States
  <2>2. state[prometheus] = "loop"
        /\ (Become(prometheus, "done") \/ Become(prometheus, "wait"))
    BY <1>3 DEF PrometheusPoll
  <2> QED BY <2>1, <2>2
<1>4. CASE Started \/ Join \/ MainReturns \/ UNCHANGED vars \/ Signal \/ SignalSend
           \/ StartPanics \/ JoinPanicked \/ MainHookSend
  BY <1>4 DEF Started, Join, MainReturns, vars, Signal, SignalSend, StartPanics,
     JoinPanicked, MainHookSend
<1> QED BY NextCases, <1>1, <1>2, <1>3, <1>4

\* What Spawn does to the metrics server.
LEMMA SpawnPrometheus ==
    ASSUME TypeInv, PrometheusLast, Spawn
    PROVE  /\ state[prometheus] = "unborn"
           /\ spawned' < Len(thread_handles) => state'[prometheus] = "unborn"
<1>1. spawned \in Nat /\ spawned < Len(thread_handles) /\ spawned' = spawned + 1
  BY Handles DEF Spawn, TypeInv, TypeOK
<1>2. state[prometheus] = "unborn"
  BY <1>1 DEF PrometheusLast
<1>3. ASSUME spawned' < Len(thread_handles) PROVE state'[prometheus] = "unborn"
  <2> DEFINE h == thread_handles[spawned + 1]
  <2>1. h # prometheus
    BY <1>1, <1>3, Handles
  <2> HIDE DEF h
  <2>2. prometheus \notin SpawnedWith(h)
    BY <2>1 DEF SpawnedWith, reconstructor, serve_task, token_task, prometheus
  <2>3. prometheus \in Thread
    BY DEF Thread
  <2> QED BY <1>2, <2>2, <2>3 DEF Spawn, h
<1> QED BY <1>2, <1>3

\* Every step keeps PrometheusLast.
LEMMA PrometheusLastStep ==
    ASSUME TypeInv, PrometheusLast, [Next]_vars PROVE PrometheusLast'
<1>1. thread_handles' = thread_handles
  BY ConfigFixed, HandlesFixed
<1>2. CASE Spawn
  BY <1>1, <1>2, SpawnPrometheus DEF PrometheusLast
<1>3. CASE ~Spawn
  <2>1. spawned' = spawned
    BY <1>3, NextCases, QuietLeaves DEF Started, Join, MainReturns, vars, mainVars,
       TakeMessage, HookSend, Panic, PrometheusPoll, Signal, SignalSend, StartPanics,
       JoinPanicked, MainHookSend
  <2>2. state[prometheus] = "unborn" => state'[prometheus] = "unborn"
    <3>1. CASE UNCHANGED state
      BY <3>1
    <3>2. ASSUME NEW t \in Thread, NEW s \in States, state[t] # "unborn", Become(t, s)
          PROVE  state[prometheus] = "unborn" => state'[prometheus] = "unborn"
      BY <3>2 DEF Become, TypeInv, TypeOK, Thread
    <3> QED BY <1>3, <3>1, <3>2, StateStep
  <2> QED BY <1>1, <2>1, <2>2 DEF PrometheusLast
<1> QED BY <1>2, <1>3

\* With the flag up nobody starts to wait for a message, and the metrics server
\* does not come back.
LEMMA NoneReturns ==
    ASSUME TypeInv, PrometheusLast, [Next]_vars
    PROVE  /\ exit => Waiting' \subseteq Waiting
           /\ Unserved' => Unserved
<1>0. prometheus \in Thread /\ prometheus \notin Taker /\ Taker \subseteq Thread
  BY DEF Thread, Taker, Sender, send, prometheus, heartbeat, accessory, refresh, server
<1>1. CASE Spawn
  <2>1. Unserved
    BY <1>1, SpawnPrometheus DEF Unserved
  <2>2. \A t \in Thread : state'[t] \in {"loop", state[t]}
    BY <1>1 DEF Spawn
  <2> QED BY <1>0, <2>1, <2>2 DEF Waiting
<1>2. CASE UNCHANGED state
  BY <1>2 DEF Waiting, Unserved
<1>3. ASSUME NEW t \in Thread, NEW s \in States,
             Become(t, s), state[t] \in {"loop", "wait"} \/ s = "dead",
             s = "wait" => ~exit \/ t = prometheus
      PROVE  /\ exit => Waiting' \subseteq Waiting
             /\ Unserved' => Unserved
  <2>1. state' = [state EXCEPT ![t] = s] /\ state \in [Thread -> States]
    BY <1>3 DEF Become, TypeInv, TypeOK, States
  <2>2. Unserved' => Unserved
    BY <1>0, <1>3, <2>1 DEF Unserved
  <2>3. ASSUME exit, NEW u \in Taker, state'[u] = "wait" PROVE state[u] = "wait"
    BY <1>0, <1>3, <2>1, <2>3
  <2> QED BY <2>2, <2>3 DEF Waiting
<1> QED BY <1>1, <1>2, <1>3, StateStep

\* Every step keeps MessageInv: each message taken is one waiting thread less.
LEMMA MessageStep ==
    ASSUME TypeInv, PrometheusLast, MessageInv, [Next]_vars
    PROVE  MessageInv'
<1>1. TypeInv' /\ (exit => Waiting' \subseteq Waiting) /\ (Unserved' => Unserved)
  BY TypeStep, NoneReturns
<1>2. /\ chan \in Nat /\ left \in Nat /\ signals \in Nat
      /\ Cardinality(Waiting) \in Nat /\ IsFiniteSet(Waiting)
  BY WaitingFinite DEF TypeInv, TypeOK
<1>3. CASE Quiet \/ Spawn \/ Started \/ Join \/ MainReturns \/ UNCHANGED vars
           \/ StartPanics \/ JoinPanicked \/ (\E t \in Thread : Panic(t))
  <2>1. UNCHANGED <<chan, left, signals>> /\ (exit => exit')
    BY <1>3, QuietLeaves DEF Spawn, Started, Join, MainReturns, vars, mainVars,
       StartPanics, JoinPanicked, Panic, RaiseExit
  <2>2. chan' + left' >= chan + left
    BY <1>2, <2>1
  <2> QED BY <1>1, <2>1, <2>2, FewerWaiting
<1>4. CASE SignalSend \/ MainHookSend \/ (\E t \in Thread : HookSend(t))
  <2>1. /\ UNCHANGED signals /\ (exit => exit') /\ chan' = chan + 1
        /\ left' = left \/ left' = left - 1
    BY <1>4 DEF SignalSend, MainHookSend, HookSend
  <2>2. chan' + left' >= chan + left
    BY <1>2, <2>1
  <2> QED BY <1>1, <2>1, <2>2, FewerWaiting
<1>5. ASSUME NEW t \in Thread, TakeMessage(t) PROVE MessageInv'
  <2>1. /\ t \in Taker /\ state[t] = "wait" /\ chan > 0 /\ chan' = chan - 1
        /\ UNCHANGED <<left, exit, signals>>
    BY <1>5 DEF TakeMessage
  <2> SUFFICES ASSUME signals > 0, Unserved'
               PROVE  chan' + left' > Cardinality(Waiting')
    BY <2>1 DEF MessageInv
  <2>2. exit /\ chan + left > Cardinality(Waiting)
    BY <1>1 DEF MessageInv
  <2>3. state'[t] # "wait"
    BY <1>5 DEF TakeMessage, Become, TypeInv, TypeOK
  <2>4. Waiting' \in SUBSET (Waiting \ {t}) /\ t \in Waiting
    BY <1>1, <2>1, <2>2, <2>3 DEF Waiting
  <2>5. /\ IsFiniteSet(Waiting \ {t})
        /\ Cardinality(Waiting \ {t}) = Cardinality(Waiting) - 1
    BY <1>2, <2>4, FS_RemoveElement
  <2>6. /\ Cardinality(Waiting') \in Nat
        /\ Cardinality(Waiting') <= Cardinality(Waiting) - 1
    BY <2>4, <2>5, FS_Subset, FS_CardinalityType
  <2>7. \A c, l, m, n \in Nat : c + l > n /\ m <= n - 1 => c - 1 + l > m
    OBVIOUS
  <2> QED BY <1>2, <2>1, <2>2, <2>6, <2>7
<1>6. CASE PrometheusPoll
  <2>1. UNCHANGED <<left, exit, signals>>
    BY <1>6 DEF PrometheusPoll
  <2>2. CASE chan > 0
    <3>1. state'[prometheus] = "done"
      BY <1>6, <2>2 DEF PrometheusPoll, Become, TypeInv, TypeOK, Thread
    <3> QED BY <2>1, <3>1 DEF MessageInv, Unserved
  <2>3. CASE ~(chan > 0)
    <3>1. chan' = chan
      BY <1>6, <2>3 DEF PrometheusPoll
    <3>2. chan' + left' >= chan + left
      BY <1>2, <2>1, <3>1
    <3> QED BY <1>1, <2>1, <3>2, FewerWaiting
  <2> QED BY <2>2, <2>3
<1>7. CASE Signal
  <2>1. exit' /\ chan' = chan /\ left' = Messages /\ state' = state
    BY <1>7 DEF Signal, RaiseExit, MessagesPerSignal
  <2>2. Waiting' = Waiting /\ Waiting \in SUBSET Taker
    BY <2>1 DEF Waiting
  <2>3. Cardinality(Taker) \in Nat /\ Cardinality(Waiting) <= Cardinality(Taker)
    BY <2>2, FewTakers, FS_Subset, FS_CardinalityType
  <2>4. chan + Messages > Cardinality(Waiting)
    BY <1>2, <2>3, FewTakers, ShutdownAssumption
  <2> QED BY <2>1, <2>2, <2>4 DEF MessageInv
<1> QED BY NextCases, <1>3, <1>4, <1>5, <1>6, <1>7

\* Whatever the interleaving of takers, signals and panics, a signal leaves a
\* message for the metrics server, if the channel holds more messages than
\* there are threads that take one.
THEOREM MessageIsLeft == Spec => []MessageLeftForPrometheus
<1> DEFINE Inv == TypeInv /\ PrometheusLast /\ MessageInv
<1>1. Init => Inv
  <2> SUFFICES ASSUME Init PROVE Inv
    OBVIOUS
  <2>1. PrometheusLast
    BY DEF Init, PrometheusLast, Thread
  <2>2. MessageInv
    BY DEF Init, MessageInv
  <2> QED BY <2>1, <2>2, TypeInitially
<1>2. Inv /\ [Next]_vars => Inv'
  BY TypeStep, PrometheusLastStep, MessageStep
<1>3. Inv => MessageLeftForPrometheus
  <2> SUFFICES ASSUME Inv, signals > 0, left = 0, Unserved PROVE chan > 0
    BY DEF MessageLeftForPrometheus, Unserved
  <2>1. chan \in Nat /\ Cardinality(Waiting) \in Nat
    BY WaitingFinite DEF TypeInv, TypeOK
  <2> QED BY <2>1 DEF MessageInv
<1> QED BY <1>1, <1>2, <1>3, PTL DEF Spec
=============================================================================
