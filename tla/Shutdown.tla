------------------------------ MODULE Shutdown -------------------------------
(***************************************************************************)
(* How the process starts and stops (proxy/src/main.rs and the loops of    *)
(* its threads).  main spawns the threads of its mode one by one.          *)
(* Two things tell a thread to stop: the exit flag, which most loops test  *)
(* when a timer wakes them, and messages on a bounded channel that all     *)
(* threads share, of which each takes one.  The signal thread sets the     *)
(* flag and fills the channel; the panic hook sets the flag and sends one  *)
(* message; main joins the threads in order.                               *)
(***************************************************************************)
EXTENDS Integers, Sequences, FiniteSets

CONSTANTS
    Sockets,     \* listening sockets: each has a listen and a send thread
    Messages,    \* messages per signal, and channel capacity: 256
    Panicker,    \* threads that may panic
    Configs      \* command lines: the mode, the optional parts, and bounds on
                 \*   the signals and panics of a behaviour

listen(i) == <<"listen", i>>
send(i) == <<"send", i>>
heartbeat == <<"heartbeat">>
report == <<"report">>
accessory == <<"accessory">>
refresh == <<"refresh">>
server == <<"server">>
prometheus == <<"prometheus">>
reconstructor == <<"reconstructor">>   \* its handle is dropped
serve_task == <<"serve_task">>         \* the tokio task that runs serve()
token_task == <<"token_task">>         \* the tokio task that renews the tokens

Listener == {listen(i) : i \in 1 .. Sockets}
Sender == {send(i) : i \in 1 .. Sockets}
Thread == Listener \cup Sender
    \cup {heartbeat, report, accessory, refresh, server, prometheus,
          reconstructor, serve_task, token_task}

\* Threads that take from the shutdown channel while they wait.
Taker == Sender \cup {heartbeat, accessory, refresh, server}

ASSUME ShutdownAssumption ==
    /\ Sockets \in Nat \ {0}
    /\ Messages \in Nat
    /\ Sockets + 4 < Messages   \* --num-threads is far below 256
    /\ Configs \subseteq
         [mode : {"shredstream", "forward_only", "subscribe_only"},
          discovery : BOOLEAN, grpc : BOOLEAN, prometheus : BOOLEAN,
          signals : Nat, panics : Nat]

VARIABLES
    config,
    state,      \* per thread: "unborn", "loop" (at the head of its loop), "wait"
                \*   (in its select!, sleep or receive), "hook" (panicking,
                \*   before the hook's send), "done" (returned) or "dead"
    exit,       \* the flag
    chan,       \* messages in the shutdown channel
    left,       \* messages the signal thread has still to send
    main,       \* "start", "join", "hook", "done" or "dead"
    spawned, joined,   \* handles in thread_handles, and joined so far
    signals, panics    \* signals handled, panics so far

mainVars == <<main, spawned, joined>>
vars == <<config, state, exit, chan, left, mainVars, signals, panics>>

Only(enabled, name) == IF enabled THEN <<name>> ELSE <<>>

\* run_subscribe_only_mode starts and joins one thread.
subscribe_only_handles == <<heartbeat>>

\* What main pushes to thread_handles, and joins in the same order.
thread_handles ==
    IF config.mode = "subscribe_only" THEN subscribe_only_handles
    ELSE Only(config.mode = "shredstream", heartbeat)
         \o [k \in 1 .. 2 * Sockets |-> IF k % 2 = 1 THEN listen((k + 1) \div 2)
                                        ELSE send(k \div 2)]
         \o <<report, accessory>> \o Only(config.discovery, refresh)
         \o Only(config.grpc, server) \o Only(config.prometheus, prometheus)

\* Threads that a timer wakes from every wait: without discovery, a send
\* thread's only tick never fires.
Timed == Thread \ ({serve_task, token_task}
                     \cup IF config.discovery THEN {} ELSE Sender)

\* What starts with a thread: the reconstructor before the first socket's
\* threads, the tasks of the two threads that own a runtime.
SpawnedWith(t) ==
    {t} \cup CASE t = listen(1) /\ config.grpc -> {reconstructor}
               [] t = server -> {serve_task}
               [] t = heartbeat -> {token_task}
               [] OTHER -> {}

Init ==
    /\ config \in Configs
    /\ state = [t \in Thread |-> "unborn"]
    /\ exit = FALSE
    /\ chan = 0
    /\ left = 0
    /\ main = "start" /\ spawned = 0 /\ joined = 0
    /\ signals = 0 /\ panics = 0

\* The process runs until main returns or its panic ends it.
Running == main \in {"start", "join", "hook"}

Ended(t) == state[t] \in {"done", "dead"}

Become(t, s) == state' = [state EXCEPT ![t] = s]

-----------------------------------------------------------------------------
(* The threads' loops *)

\* while !exit.load(..)
CheckExit(t) ==
    /\ Running /\ t \notin {prometheus, serve_task, token_task}
    /\ state[t] = "loop"
    /\ Become(t, IF exit THEN "done" ELSE "wait")
    /\ UNCHANGED <<config, exit, chan, left, mainVars, signals, panics>>

\* A tick, a timeout or the end of a sleep.
Tick(t) ==
    /\ Running /\ t \in Timed
    /\ state[t] = "wait"
    /\ Become(t, "loop")
    /\ UNCHANGED <<config, exit, chan, left, mainVars, signals, panics>>

\* A send thread handles a batch of packets.
Packets(i) ==
    /\ Running
    /\ state[send(i)] = "wait" /\ ~Ended(listen(i))
    /\ Become(send(i), "loop")
    /\ UNCHANGED <<config, exit, chan, left, mainVars, signals, panics>>

\* The listen thread has dropped its sender: recv returns an error.
Disconnected(i) ==
    /\ Running
    /\ state[send(i)] = "wait" /\ Ended(listen(i))
    /\ Become(send(i), "done")
    /\ UNCHANGED <<config, exit, chan, left, mainVars, signals, panics>>

\* A message makes a thread leave its loop; the heartbeat thread leaves the
\* inner loop and tests exit in the outer one.
TakeMessage(t) ==
    /\ Running /\ t \in Taker
    /\ state[t] = "wait" /\ chan > 0
    /\ chan' = chan - 1
    /\ Become(t, IF t = heartbeat THEN "loop" ELSE "done")
    /\ UNCHANGED <<config, exit, left, mainVars, signals, panics>>

\* The reconstructor's channel has no sender left.
NoSenders ==
    /\ Running
    /\ state[reconstructor] = "wait"
    /\ \A t \in Sender : Ended(t)
    /\ Become(reconstructor, "done")
    /\ UNCHANGED <<config, exit, chan, left, mainVars, signals, panics>>

\* The metrics server polls the channel, and nothing else.
PrometheusPoll ==
    /\ Running
    /\ state[prometheus] = "loop"
    /\ IF chan > 0 THEN chan' = chan - 1 /\ Become(prometheus, "done")
       ELSE chan' = chan /\ Become(prometheus, "wait")
    /\ UNCHANGED <<config, exit, left, mainVars, signals, panics>>

-----------------------------------------------------------------------------
(* Signals and panics *)

\* A faulty form of HasRoom: the channel is unbounded.
HasRoom_Always == TRUE

\* send blocks while the channel is full.
HasRoom == chan < Messages

\* A faulty form of MessagesPerSignal: one message, as if it were broadcast.
MessagesPerSignal_One == 1

MessagesPerSignal == Messages

\* A faulty form of RaiseExit: the flag is left alone.
RaiseExit_Not == exit' = exit

RaiseExit == exit' = TRUE

\* shutdown_notifier's thread: raise the flag, then send.
Signal ==
    /\ Running /\ left = 0
    /\ signals < config.signals
    /\ signals' = signals + 1
    /\ RaiseExit
    /\ left' = MessagesPerSignal
    /\ UNCHANGED <<config, state, chan, mainVars, panics>>

SignalSend ==
    /\ Running /\ left > 0 /\ HasRoom
    /\ chan' = chan + 1
    /\ left' = left - 1
    /\ UNCHANGED <<config, state, exit, mainVars, signals, panics>>

\* A thread panics: the hook raises the flag first.
Panic(t) ==
    /\ Running /\ t \in Panicker
    /\ panics < config.panics
    /\ state[t] \in {"loop", "wait"}
    /\ panics' = panics + 1
    /\ RaiseExit
    /\ Become(t, "hook")
    /\ UNCHANGED <<config, chan, left, mainVars, signals>>

\* Then it sends one message, and the thread unwinds.
HookSend(t) ==
    /\ Running /\ state[t] = "hook" /\ HasRoom
    /\ chan' = chan + 1
    /\ Become(t, "dead")
    /\ UNCHANGED <<config, exit, left, mainVars, signals, panics>>

\* The thread that owns a task's runtime returns: abort, or the drop of the
\* runtime, ends the task.
TaskEnds(owner, t) ==
    /\ Running
    /\ state[t] = "loop" /\ Ended(owner)
    /\ Become(t, "done")
    /\ UNCHANGED <<config, exit, chan, left, mainVars, signals, panics>>

-----------------------------------------------------------------------------
(* main *)

Spawn ==
    /\ main = "start" /\ spawned < Len(thread_handles)
    /\ LET new == SpawnedWith(thread_handles[spawned + 1])
       IN  state' = [t \in Thread |-> IF t \in new THEN "loop" ELSE state[t]]
    /\ spawned' = spawned + 1
    /\ UNCHANGED <<config, exit, chan, left, main, joined, signals, panics>>

\* A key file that cannot be read, no public address, a port in use.
StartPanics ==
    /\ main = "start" /\ panics < config.panics
    /\ main' = "hook" /\ panics' = panics + 1
    /\ RaiseExit
    /\ UNCHANGED <<config, state, chan, left, spawned, joined, signals>>

Started ==
    /\ main = "start" /\ spawned = Len(thread_handles)
    /\ main' = "join"
    /\ UNCHANGED <<config, state, exit, chan, left, spawned, joined, signals, panics>>

NextHandle == thread_handles[joined + 1]

Join ==
    /\ main = "join" /\ joined < Len(thread_handles)
    /\ state[NextHandle] = "done"
    /\ joined' = joined + 1
    /\ UNCHANGED <<config, state, exit, chan, left, main, spawned, signals, panics>>

\* join returned Err: expect("thread panicked") panics in turn.
JoinPanicked ==
    /\ main = "join" /\ joined < Len(thread_handles)
    /\ state[NextHandle] = "dead"
    /\ main' = "hook"
    /\ RaiseExit
    /\ UNCHANGED <<config, state, chan, left, spawned, joined, signals, panics>>

MainHookSend ==
    /\ main = "hook" /\ HasRoom
    /\ chan' = chan + 1
    /\ main' = "dead"
    /\ UNCHANGED <<config, state, exit, left, spawned, joined, signals, panics>>

MainReturns ==
    /\ main = "join" /\ joined = Len(thread_handles)
    /\ main' = "done"
    /\ UNCHANGED <<config, state, exit, chan, left, spawned, joined, signals, panics>>

-----------------------------------------------------------------------------
Own(t) == CheckExit(t) \/ Tick(t) \/ TakeMessage(t) \/ HookSend(t)
Tasks == TaskEnds(server, serve_task) \/ TaskEnds(heartbeat, token_task)
Main ==
    \/ Spawn \/ Started
    \/ Join \/ JoinPanicked \/ MainHookSend \/ MainReturns

Next ==
    \/ \E t \in Thread : Own(t) \/ Panic(t)
    \/ \E i \in 1 .. Sockets : Packets(i) \/ Disconnected(i)
    \/ NoSenders \/ PrometheusPoll \/ Tasks
    \/ Signal \/ SignalSend \/ Main \/ StartPanics

Spec == Init /\ [][Next]_vars

\* Threads run and timers fire; signals, panics and packets need not come.
FairSpec ==
    /\ Spec
    /\ \A t \in Thread : WF_vars(Own(t))
    /\ \A i \in 1 .. Sockets : WF_vars(Disconnected(i))
    /\ WF_vars(PrometheusPoll) /\ WF_vars(Tasks)
    /\ WF_vars(SignalSend) /\ WF_vars(Main)

-----------------------------------------------------------------------------
(* Properties *)

\* The threads, the flag, the channel and the join loop of main stay in their
\* ranges: no message is counted twice and main joins each handle once.
TypeOK ==
    /\ config \in Configs
    /\ state \in [Thread -> {"unborn", "loop", "wait", "hook", "done", "dead"}]
    /\ exit \in BOOLEAN
    /\ chan \in 0 .. Messages
    /\ left \in 0 .. Messages
    /\ main \in {"start", "join", "hook", "done", "dead"}
    /\ spawned \in 0 .. Len(thread_handles) /\ joined \in 0 .. spawned
    /\ signals \in 0 .. config.signals /\ panics \in 0 .. config.panics

\* Whoever takes a message finds the flag raised ("exit should be true",
\* heartbeat.rs): otherwise the heartbeat thread would connect again.
ExitBeforeMessage == chan > 0 => exit

\* The other threads cannot eat up the messages: once a signal's messages are
\* sent, one is left for the metrics server, which nothing else stops, be it
\* started or not.
MessageLeftForPrometheus ==
    (/\ signals > 0 /\ left = 0
     /\ state[prometheus] \in {"unborn", "loop", "wait"})
        => chan > 0

\* After SIGINT or SIGTERM every thread returns and so does main.
SignalStops == signals > 0 ~> main = "done"

\* After a panic the hook means to "exit the process" (main.rs, panic hook).
PanicExits == panics > 0 ~> ~Running
=============================================================================
