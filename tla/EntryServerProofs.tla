-------------------------- MODULE EntryServerProofs --------------------------
(***************************************************************************)
(* No client's stream of entries has a gap, for any number of clients and  *)
(* any capacities.                                                         *)
(***************************************************************************)
EXTENDS EntryServer, TLAPS

\* A run of consecutive numbers after b.
IsRun(s, b) == \A k \in 1 .. Len(s) : s[k] = b + k

\* Appending the next number to a run makes a longer run.
LEMMA AppendRun ==
  ASSUME NEW s \in Seq(Nat), NEW b \in Nat, NEW e \in Nat,
         IsRun(s, b), e = b + Len(s) + 1
  PROVE  IsRun(Append(s, e), b) /\ Len(Append(s, e)) = Len(s) + 1
BY DEF IsRun

\* Without its first number, which is b + 1, a run after b is one after b + 1.
LEMMA TailRun ==
  ASSUME NEW s \in Seq(Nat), NEW b \in Nat, IsRun(s, b), s # <<>>
  PROVE  /\ IsRun(Tail(s), b + 1) /\ Len(Tail(s)) = Len(s) - 1
         /\ Head(s) = b + 1
<1>1. Len(s) \in Nat /\ Len(s) # 0 /\ Len(Tail(s)) = Len(s) - 1
  OBVIOUS
<1>2. Head(s) = b + 1
  BY <1>1 DEF IsRun
<1>3. ASSUME NEW k \in 1 .. Len(Tail(s)) PROVE Tail(s)[k] = b + 1 + k
  <2>1. Tail(s)[k] = s[k + 1] /\ k + 1 \in 1 .. Len(s)
    BY <1>1
  <2> QED
    BY <2>1 DEF IsRun
<1> QED
  BY <1>1, <1>2, <1>3 DEF IsRun

\* What is still on its way to the client continues what it has read: the
\* queue, then the entry the task holds, then the broadcast receiver.
InFlight(c) ==
    /\ IsRun(got[c], from[c])
    /\ IsRun(stream[c], from[c] + Len(got[c]))
    /\ task[c] = "none" => got[c] = <<>> /\ stream[c] = <<>>
    /\ (task[c] = "recv" /\ ~gone[c])
          => pos[c] = from[c] + Len(got[c]) + Len(stream[c])
    /\ (task[c] = "send" /\ ~gone[c])
          => held[c] = from[c] + Len(got[c]) + Len(stream[c]) + 1
             /\ pos[c] = held[c]

StreamInv == TypeOK /\ \A c \in Client : InFlight(c)

\* The type invariant and InFlight hold initially.
LEMMA StreamInit == Init => StreamInv
BY EntryServerAssumption DEF Init, StreamInv, TypeOK, InFlight, IsRun

\* Every step keeps the variables in their ranges.
LEMMA TypeStep == TypeOK /\ [Next]_vars => TypeOK'
<1> SUFFICES ASSUME TypeOK, [Next]_vars PROVE TypeOK'
  OBVIOUS
<1> USE EntryServerAssumption DEF TypeOK
<1>1. CASE SendEntry
  BY <1>1 DEF SendEntry, clientVars
<1>2. CASE ServerStops
  <2>1. stream' \in [Client -> Seq(Nat)]
    BY <1>2 DEF ServerStops
  <2>2. \A c \in Client : stream'[c] = <<>>
    BY <1>2 DEF ServerStops
  <2>3. \A c \in Client : Len(stream'[c]) <= StreamCap
    BY <2>2
  <2> QED
    BY <1>2, <2>1, <2>3 DEF ServerStops
<1>3. ASSUME NEW c \in Client, subscribe_entries(c) PROVE TypeOK'
  BY <1>3 DEF subscribe_entries
<1>4. ASSUME NEW c \in Client, TaskRecv(c) PROVE TypeOK'
  BY <1>4 DEF TaskRecv
<1>5. ASSUME NEW c \in Client, TaskLagged(c) PROVE TypeOK'
  BY <1>5 DEF TaskLagged
<1>6. ASSUME NEW c \in Client, TaskSend(c) PROVE TypeOK'
  BY <1>6 DEF TaskSend, HasRoom
<1>7. ASSUME NEW c \in Client, TaskSendFails(c) PROVE TypeOK'
  BY <1>7 DEF TaskSendFails, AfterFailedSend
<1>8. ASSUME NEW c \in Client, ClientRead(c) PROVE TypeOK'
  <2>1. stream[c] \in Seq(Nat) /\ stream[c] # <<>> /\ Len(stream[c]) <= StreamCap
    BY <1>8 DEF ClientRead
  <2>2. /\ Head(stream[c]) \in Nat /\ Tail(stream[c]) \in Seq(Nat)
        /\ Len(Tail(stream[c])) <= StreamCap
    BY ONLY <2>1, EntryServerAssumption
  <2>3. got' \in [Client -> Seq(Nat)]
    BY <1>8, <2>2 DEF ClientRead
  <2>4. /\ stream' \in [Client -> Seq(Nat)]
        /\ \A d \in Client : Len(stream'[d]) <= StreamCap
    BY <1>8, <2>2 DEF ClientRead
  <2> QED BY <1>8, <2>3, <2>4 DEF ClientRead
<1>9. ASSUME NEW c \in Client, ClientLeaves(c) PROVE TypeOK'
  BY <1>9 DEF ClientLeaves
<1>10. CASE UNCHANGED vars
  BY <1>10 DEF vars, clientVars
<1> QED
  BY <1>1, <1>2, <1>3, <1>4, <1>5, <1>6, <1>7, <1>8, <1>9, <1>10
  DEF Next, Task

\* Every step keeps every client's entries in flight contiguous.
LEMMA InFlightStep ==
  ASSUME StreamInv, [Next]_vars, NEW d \in Client
  PROVE  InFlight(d)'
<1> USE DEF StreamInv
<1>t. TypeOK /\ TypeOK' /\ InFlight(d)
  BY TypeStep
<1>typed. /\ from[d] \in Nat /\ pos[d] \in Nat /\ held[d] \in Nat
      /\ got[d] \in Seq(Nat) /\ stream[d] \in Seq(Nat)
      /\ Len(got[d]) \in Nat /\ Len(stream[d]) \in Nat
      /\ from[d] + Len(got[d]) \in Nat
  BY <1>t DEF TypeOK
<1> USE DEF TypeOK
<1>1. CASE SendEntry
  BY <1>1, <1>t DEF SendEntry, clientVars, InFlight
<1>2. CASE ServerStops
  BY <1>2, <1>t DEF ServerStops, InFlight, IsRun
<1>3. ASSUME NEW c \in Client, subscribe_entries(c) PROVE InFlight(d)'
  <2>1. CASE c # d
    BY <1>3, <1>t, <2>1 DEF subscribe_entries, InFlight
  <2>2. CASE c = d
    <3>1. got'[d] = <<>> /\ stream'[d] = <<>>
      BY <1>3, <1>t, <2>2 DEF subscribe_entries, InFlight
    <3>2. task'[d] = "recv" /\ pos'[d] = from'[d]
      BY <1>3, <1>t, <2>2 DEF subscribe_entries
    <3> QED
      BY <1>t, <3>1, <3>2 DEF InFlight, IsRun
  <2> QED
    BY <2>1, <2>2
<1>4. ASSUME NEW c \in Client, TaskRecv(c) PROVE InFlight(d)'
  BY <1>4, <1>t DEF TaskRecv, InFlight
<1>5. ASSUME NEW c \in Client, TaskLagged(c) PROVE InFlight(d)'
  BY <1>5, <1>t DEF TaskLagged, InFlight
<1>6. ASSUME NEW c \in Client, TaskSend(c) PROVE InFlight(d)'
  <2>1. CASE c # d
    BY <1>6, <1>t, <2>1 DEF TaskSend, InFlight
  <2>2. CASE c = d
    <3> HIDE DEF TypeOK, StreamInv
    <3>1. /\ stream'[d] = Append(stream[d], held[d]) /\ task'[d] = "recv"
          /\ ~gone[d] /\ task[d] = "send"
          /\ UNCHANGED <<got, from, pos, held, gone>>
      BY <1>6, <1>t, <2>2 DEF TaskSend, TypeOK
    <3>2. held[d] = from[d] + Len(got[d]) + Len(stream[d]) + 1 /\ pos[d] = held[d]
      BY <1>t, <3>1 DEF InFlight
    <3>3. /\ IsRun(stream'[d], from[d] + Len(got[d]))
          /\ Len(stream'[d]) = Len(stream[d]) + 1
      <4>1. IsRun(stream[d], from[d] + Len(got[d]))
        BY <1>t DEF InFlight
      <4>2. /\ IsRun(Append(stream[d], held[d]), from[d] + Len(got[d]))
            /\ Len(Append(stream[d], held[d])) = Len(stream[d]) + 1
        BY <1>typed, <3>2, <4>1, AppendRun
      <4> QED
        BY <3>1, <4>2
    <3> QED
      BY <1>typed, <1>t, <3>1, <3>2, <3>3 DEF InFlight
  <2> QED
    BY <2>1, <2>2
<1>7. ASSUME NEW c \in Client, TaskSendFails(c) PROVE InFlight(d)'
  BY <1>7, <1>t DEF TaskSendFails, AfterFailedSend, InFlight
<1>8. ASSUME NEW c \in Client, ClientRead(c) PROVE InFlight(d)'
  <2>1. CASE c # d
    BY <1>8, <1>t, <2>1 DEF ClientRead, InFlight
  <2>2. CASE c = d
    <3> HIDE DEF TypeOK, StreamInv
    <3>1. /\ got'[d] = Append(got[d], Head(stream[d]))
          /\ stream'[d] = Tail(stream[d]) /\ stream[d] # <<>>
          /\ UNCHANGED <<from, task, pos, held, gone>>
      BY <1>8, <1>t, <2>2 DEF ClientRead, TypeOK
    <3>2. /\ Head(stream[d]) = from[d] + Len(got[d]) + 1
          /\ IsRun(stream'[d], from[d] + Len(got[d]) + 1)
          /\ Len(stream'[d]) = Len(stream[d]) - 1
      BY <1>typed, <1>t, <3>1, TailRun DEF InFlight
    <3>3. IsRun(got'[d], from[d]) /\ Len(got'[d]) = Len(got[d]) + 1
      <4>1. IsRun(got[d], from[d])
        BY <1>t DEF InFlight
      <4>2. Head(stream[d]) \in Nat
        BY <1>typed, <3>2
      <4>3. /\ IsRun(Append(got[d], Head(stream[d])), from[d])
            /\ Len(Append(got[d], Head(stream[d]))) = Len(got[d]) + 1
        BY <1>typed, <3>2, <4>1, <4>2, AppendRun
      <4> QED
        BY <3>1, <4>3
    <3>4. from[d] + Len(got'[d]) = from[d] + Len(got[d]) + 1
      BY <1>typed, <3>3
    <3>5. from[d] + Len(got'[d]) + Len(stream'[d])
            = from[d] + Len(got[d]) + Len(stream[d])
      <4> DEFINE a == from[d]  g == Len(got[d])  n == Len(stream[d])
      <4>1. a \in Nat /\ g \in Nat /\ n \in Nat
        BY <1>typed
      <4>2. Len(got'[d]) = g + 1 /\ Len(stream'[d]) = n - 1
        BY <3>2, <3>3
      <4> HIDE DEF a, g, n
      <4>3. a + (g + 1) + (n - 1) = a + g + n
        BY <4>1
      <4> QED
        BY <4>2, <4>3 DEF a, g, n
    <3>6. task[d] # "none"
      BY <1>t, <3>1 DEF InFlight
    <3>7. IsRun(stream'[d], from[d] + Len(got'[d]))
      BY <3>2, <3>4
    <3> QED
      BY <1>t, <3>1, <3>3, <3>5, <3>6, <3>7 DEF InFlight
  <2> QED
    BY <2>1, <2>2
<1>9. ASSUME NEW c \in Client, ClientLeaves(c) PROVE InFlight(d)'
  BY <1>9, <1>t DEF ClientLeaves, InFlight, IsRun
<1>10. CASE UNCHANGED vars
  BY <1>10, <1>t DEF vars, clientVars, InFlight
<1> QED
  BY <1>1, <1>2, <1>3, <1>4, <1>5, <1>6, <1>7, <1>8, <1>9, <1>10
  DEF Next, Task

\* Type correctness: a client that reads slowly, or not at all, never makes its
\* mpsc channel hold more than the channel's capacity.
THEOREM QueuesStayBounded == Spec => []TypeOK
<1>1. Init => TypeOK
  BY StreamInit DEF StreamInv
<1> QED
  BY <1>1, TypeStep, PTL DEF Spec

\* What subscribe_entries delivers to a client is always an unbroken run of
\* the entries sent since it subscribed.
THEOREM StreamsHaveNoGap == Spec => []GapFree
<1>1. StreamInv /\ [Next]_vars => StreamInv'
  BY TypeStep, InFlightStep DEF StreamInv
<1>2. StreamInv => GapFree
  BY DEF StreamInv, GapFree, InFlight, IsRun
<1> QED
  BY StreamInit, <1>1, <1>2, PTL DEF Spec
=============================================================================
