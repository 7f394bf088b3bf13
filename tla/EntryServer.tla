----------------------------- MODULE EntryServer -----------------------------
(***************************************************************************)
(* The gRPC entry service (proxy/src/server.rs).  The reconstructor sends  *)
(* entries to a tokio broadcast channel; subscribe_entries gives every     *)
(* client a task that copies them into a bounded mpsc channel, which the   *)
(* gRPC connection drains.  Entries are numbered in the order in which     *)
(* they are sent.                                                          *)
(***************************************************************************)
EXTENDS Integers, Sequences

CONSTANTS
    Client,        \* one subscription each
    Reader,        \* the clients that keep reading while they are connected
    BroadcastCap,  \* entries the broadcast channel keeps (100, which tokio
                   \*   rounds up to 128)
    StreamCap,     \* capacity of a client's mpsc channel, 100
    MaxSent        \* bound on the entries sent

ASSUME EntryServerAssumption ==
    /\ Reader \subseteq Client
    /\ BroadcastCap \in Nat \ {0} /\ StreamCap \in Nat \ {0}
    /\ MaxSent \in Nat

VARIABLES
    running,  \* the server thread has not stopped
    sent,     \* entries sent to the broadcast channel
    task,     \* per client: "none", "recv", "send", "ended"
    from,     \* entries sent before the client subscribed
    pos,      \* entries its broadcast receiver has passed
    held,     \* the entry the task is sending
    stream,   \* the mpsc channel
    got,      \* what the client has read
    gone      \* the client has disconnected

clientVars == <<task, from, pos, held, stream, got, gone>>
vars == <<running, sent, clientVars>>

Init ==
    /\ running = TRUE
    /\ sent = 0
    /\ task = [c \in Client |-> "none"]
    /\ from = [c \in Client |-> 0]
    /\ pos = [c \in Client |-> 0]
    /\ held = [c \in Client |-> 0]
    /\ stream = [c \in Client |-> <<>>]
    /\ got = [c \in Client |-> <<>>]
    /\ gone = [c \in Client |-> FALSE]

\* entry_sender.send of the reconstructor: it never waits, the oldest entry
\* is overwritten; the error for want of receivers is ignored.
SendEntry ==
    /\ sent < MaxSent
    /\ sent' = sent + 1
    /\ UNCHANGED <<running, clientVars>>

subscribe_entries(c) ==
    /\ running /\ task[c] = "none"
    /\ task' = [task EXCEPT ![c] = "recv"]
    /\ from' = [from EXCEPT ![c] = sent]
    /\ pos' = [pos EXCEPT ![c] = sent]
    /\ UNCHANGED <<running, sent, held, stream, got, gone>>

Lagged(c) == sent - pos[c] > BroadcastCap

\* A faulty form of TaskRecv: a lock that all tasks share is held over the
\* send.
TaskRecv_Locked(c) ==
    /\ task[c] = "recv" /\ \A d \in Client : task[d] # "send"
    /\ pos[c] < sent /\ ~Lagged(c)
    /\ pos' = [pos EXCEPT ![c] = @ + 1]
    /\ held' = [held EXCEPT ![c] = pos[c] + 1]
    /\ task' = [task EXCEPT ![c] = "send"]
    /\ UNCHANGED <<running, sent, from, stream, got, gone>>

\* entry_receiver.recv() returned Ok.
TaskRecv(c) ==
    /\ task[c] = "recv"
    /\ pos[c] < sent /\ ~Lagged(c)
    /\ pos' = [pos EXCEPT ![c] = @ + 1]
    /\ held' = [held EXCEPT ![c] = pos[c] + 1]
    /\ task' = [task EXCEPT ![c] = "send"]
    /\ UNCHANGED <<running, sent, from, stream, got, gone>>

\* A faulty form of TaskLagged: the task goes on with the oldest entry kept.
TaskLagged_Continues(c) ==
    /\ task[c] = "recv" /\ Lagged(c)
    /\ pos' = [pos EXCEPT ![c] = sent - BroadcastCap]
    /\ UNCHANGED <<running, sent, task, from, held, stream, got, gone>>

\* It returned Err(Lagged): `while let Ok` ends, and with the task its end of
\* the mpsc channel.
TaskLagged(c) ==
    /\ task[c] = "recv" /\ Lagged(c)
    /\ task' = [task EXCEPT ![c] = "ended"]
    /\ UNCHANGED <<running, sent, from, pos, held, stream, got, gone>>

\* A faulty form of HasRoom: an unbounded channel.
HasRoom_Always(c) == TRUE

HasRoom(c) == Len(stream[c]) < StreamCap

\* tx.send(..).await waits for room.
TaskSend(c) ==
    /\ task[c] = "send" /\ ~gone[c]
    /\ HasRoom(c)
    /\ stream' = [stream EXCEPT ![c] = Append(@, held[c])]
    /\ task' = [task EXCEPT ![c] = "recv"]
    /\ UNCHANGED <<running, sent, from, pos, held, got, gone>>

\* A faulty form of AfterFailedSend: the error is ignored.
AfterFailedSend_GoesOn == "recv"

AfterFailedSend == "ended"

\* "client disconnected"
TaskSendFails(c) ==
    /\ task[c] = "send" /\ gone[c]
    /\ task' = [task EXCEPT ![c] = AfterFailedSend]
    /\ UNCHANGED <<running, sent, from, pos, held, stream, got, gone>>

\* The connection takes an entry out of the ReceiverStream.
ClientRead(c) ==
    /\ running /\ ~gone[c]
    /\ stream[c] # <<>>
    /\ got' = [got EXCEPT ![c] = Append(@, Head(stream[c]))]
    /\ stream' = [stream EXCEPT ![c] = Tail(@)]
    /\ UNCHANGED <<running, sent, task, from, pos, held, gone>>

\* The ReceiverStream is dropped.
ClientLeaves(c) ==
    /\ running /\ task[c] # "none" /\ ~gone[c]
    /\ gone' = [gone EXCEPT ![c] = TRUE]
    /\ stream' = [stream EXCEPT ![c] = <<>>]
    /\ UNCHANGED <<running, sent, task, from, pos, held, got>>

\* The server thread returns and its runtime is dropped, with every task and
\* connection.
ServerStops ==
    /\ running
    /\ running' = FALSE
    /\ task' = [c \in Client |-> "ended"]
    /\ stream' = [c \in Client |-> <<>>]
    /\ UNCHANGED <<sent, from, pos, held, got, gone>>

Task(c) == TaskRecv(c) \/ TaskLagged(c) \/ TaskSend(c) \/ TaskSendFails(c)

Next == \/ SendEntry \/ ServerStops
        \/ \E c \in Client : \/ subscribe_entries(c) \/ Task(c)
                             \/ ClientRead(c) \/ ClientLeaves(c)

Spec == Init /\ [][Next]_vars

\* The runtime runs every task, and the readers read; other clients, and the
\* reconstructor, need not do anything.
FairSpec == /\ Spec
            /\ \A c \in Client : WF_vars(Task(c))
            /\ \A c \in Reader : WF_vars(ClientRead(c))

-----------------------------------------------------------------------------
(* Properties *)

\* The ranges of the variables; a client's queue never holds more than its
\* capacity, however slowly the client reads.
TypeOK ==
    /\ running \in BOOLEAN
    /\ sent \in Nat
    /\ task \in [Client -> {"none", "recv", "send", "ended"}]
    /\ from \in [Client -> Nat]
    /\ pos \in [Client -> Nat]
    /\ held \in [Client -> Nat]
    /\ stream \in [Client -> Seq(Nat)]
    /\ got \in [Client -> Seq(Nat)]
    /\ gone \in [Client -> BOOLEAN]
    /\ \A c \in Client : Len(stream[c]) <= StreamCap

\* What a client reads has no gap, no repeat and no reordering: it is the
\* entries sent since it subscribed, from the first one on.  A client that is
\* too slow for the broadcast channel loses its stream, never an entry in the
\* middle of it.
GapFree ==
    \A c \in Client : \A k \in 1 .. Len(got[c]) : got[c][k] = from[c] + k

\* A reader gets every entry sent after it subscribed, unless its stream ends
\* or it leaves; a client that has stopped reading holds up nobody else.
ReaderGetsAll ==
    \A c \in Reader : \A n \in 1 .. MaxSent :
        (task[c] # "none" /\ from[c] < n /\ n <= sent)
            ~> (from[c] + Len(got[c]) >= n \/ task[c] = "ended" \/ gone[c])

\* A task does not outlive its client by more than the next entry.
TaskEndsAfterClient ==
    \A c \in Client :
        (gone[c] /\ pos[c] < sent) ~> task[c] = "ended"
=============================================================================
