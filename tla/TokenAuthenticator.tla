-------------------------- MODULE TokenAuthenticator --------------------------
(***************************************************************************)
(* The token refresh tasks of proxy/src/token_authenticator.rs.  Every     *)
(* connection to the block engine has one, spawned by                      *)
(* ClientInterceptor::new.  It keeps the bearer token that the connection's *)
(* interceptor puts on each request from expiring.  A connection that is   *)
(* over raises its per_con_exit; its task reads that at the head of its    *)
(* loop only, and may meet the tasks of later connections.  Times are      *)
(* numbers of a unit; a token is the time it has still to live.            *)
(***************************************************************************)
EXTENDS Integers

CONSTANTS
    Connection,   \* places for connections, taken until their tasks have ended
    Margin,       \* tokens with less than this to live are renewed: 5 minutes
    Poll,         \* sleep between two looks at the tokens: 5 seconds
    AccessTtl,    \* possible times to live of access tokens on arrival
    RefreshTtl    \* and of refresh tokens

\* Only tokens that outlive the margin can be kept by polling.
ASSUME TokenAssumption ==
    /\ Margin \in Nat /\ Poll \in Nat
    /\ AccessTtl \subseteq Nat /\ RefreshTtl \subseteq Nat
    /\ \A t \in AccessTtl : t >= Margin

VARIABLES         \* all of them per connection
    task,         \* "none", or where the task is: "check" (head of its loop),
                  \*   "auth" or "refresh" (awaiting an answer), "sleep",
                  \*   "panicked"
    per_con_exit, \* the connection is over, its task told to end
    bearer,       \* the token in bearer_token, as its time to live
    expiration,   \* access_token_expiration, as the task knows it
    refresh,      \* refresh_token's expiry, or NoExpiry
    sleeping,     \* what is left of the sleep
    failing,      \* how long the service has been owing a good answer
    overtime      \* how long the task has slept since it was told to end

tokenVars == <<bearer, expiration, refresh>>
authVars == <<task, per_con_exit, tokenVars, sleeping, failing, overtime>>

NoExpiry == -1    \* expires_at_utc missing, or not a time
Calling == {"auth", "refresh"}
Alive == {"check", "sleep"} \cup Calling
Less(t) == IF t > 0 THEN t - 1 ELSE t

\* What a place holds when no task is there.
Zero == [c \in Connection |-> 0]

AuthInit ==
    /\ task = [c \in Connection |-> "none"]
    /\ per_con_exit = [c \in Connection |-> FALSE]
    /\ bearer = Zero /\ expiration = Zero /\ refresh = Zero
    /\ sleeping = Zero /\ failing = Zero /\ overtime = Zero

Become(c, s) == task' = [task EXCEPT ![c] = s]

\* ClientInterceptor::new succeeds: both tokens came, the access token with an
\* expiry (otherwise it returns before the task is spawned).
New(c, access, refr) ==
    /\ task[c] = "none"
    /\ Become(c, "check")
    /\ bearer' = [bearer EXCEPT ![c] = access]
    /\ expiration' = [expiration EXCEPT ![c] = access]
    /\ refresh' = [refresh EXCEPT ![c] = refr]
    /\ UNCHANGED <<per_con_exit, sleeping, failing, overtime>>

-----------------------------------------------------------------------------
(* The task's loop *)

\* A faulty form of GoesOn: the task never looks at the flag.
GoesOn_Always(c) == TRUE

\* while !exit.load(..), where exit is the connection's.
GoesOn(c) == ~per_con_exit[c]

\* A faulty form of ExpiresSoon: a token is renewed when it has expired.
ExpiresSoon_Late(ttl) == ttl = 0

ExpiresSoon(ttl) == ttl < Margin

\* The head of the loop: the whole authentication again, a new access token,
\* or a sleep.  A call, good or bad, leads back here without a sleep.
Check(c) ==
    /\ task[c] = "check" /\ GoesOn(c) /\ refresh[c] # NoExpiry
    /\ Become(c, IF ExpiresSoon(refresh[c]) THEN "auth"
                 ELSE IF ExpiresSoon(expiration[c]) THEN "refresh" ELSE "sleep")
    /\ sleeping' = [sleeping EXCEPT ![c] = IF task'[c] = "sleep" THEN Poll ELSE 0]
    /\ UNCHANGED <<per_con_exit, tokenVars, failing, overtime>>

\* The places in gone hold no task any more.
Vacate(gone) ==
    LET Reset(f, v) == [c \in Connection |-> IF c \in gone THEN v ELSE f[c]]
    IN  /\ task' = Reset(task, "none")
        /\ per_con_exit' = Reset(per_con_exit, FALSE)
        /\ bearer' = Reset(bearer, 0) /\ expiration' = Reset(expiration, 0)
        /\ refresh' = Reset(refresh, 0) /\ sleeping' = Reset(sleeping, 0)
        /\ failing' = Reset(failing, 0) /\ overtime' = Reset(overtime, 0)

\* The loop ends, and the task with it.
Return(c) ==
    /\ task[c] = "check" /\ ~GoesOn(c)
    /\ Vacate({c})

Wake(c) ==
    /\ task[c] = "sleep" /\ sleeping[c] = 0
    /\ Become(c, "check")
    /\ UNCHANGED <<per_con_exit, tokenVars, sleeping, failing, overtime>>

\* A faulty form of Renewed: the interceptor keeps the old token.
Renewed_NotStored(c, access) ==
    /\ bearer' = bearer
    /\ expiration' = [expiration EXCEPT ![c] = access]

\* bearer_token.store, and the task's copy of the expiry.
Renewed(c, access) ==
    /\ bearer' = [bearer EXCEPT ![c] = access]
    /\ expiration' = [expiration EXCEPT ![c] = access]

FullAuth(c, access, refr) ==
    /\ task[c] = "auth"
    /\ Renewed(c, access)
    /\ refresh' = [refresh EXCEPT ![c] = refr]
    /\ Become(c, "check") /\ failing' = [failing EXCEPT ![c] = 0]
    /\ UNCHANGED <<per_con_exit, sleeping, overtime>>

RefreshAccess(c, access) ==
    /\ task[c] = "refresh"
    /\ Renewed(c, access)
    /\ Become(c, "check") /\ failing' = [failing EXCEPT ![c] = 0]
    /\ UNCHANGED <<per_con_exit, refresh, sleeping, overtime>>

CallFails(c) ==
    /\ task[c] \in Calling
    /\ Become(c, "check")
    /\ UNCHANGED <<per_con_exit, tokenVars, sleeping, failing, overtime>>

\* unwrap on an expiry, or on a token, that is missing from the answer.  The
\* bearer token may have been stored before; the task's locals are gone.
TaskPanics(c) ==
    /\ \/ task[c] = "check" /\ GoesOn(c) /\ refresh[c] = NoExpiry /\ UNCHANGED bearer
       \/ task[c] \in Calling /\ UNCHANGED bearer
       \/ task[c] \in Calling /\ \E access \in AccessTtl :
                                    bearer' = [bearer EXCEPT ![c] = access]
    /\ Become(c, "panicked")
    /\ expiration' = [expiration EXCEPT ![c] = 0]
    /\ refresh' = [refresh EXCEPT ![c] = 0]
    /\ failing' = [failing EXCEPT ![c] = 0]
    /\ UNCHANGED <<per_con_exit, sleeping, overtime>>

-----------------------------------------------------------------------------
(* The end of a connection *)

\* The task of a connection that is not over.
Live(c) == task[c] # "none" /\ ~per_con_exit[c]

\* The connection's scope ends: ScopedAtomicBool::drop.
RaisePerConExit(c) ==
    /\ Live(c)
    /\ per_con_exit' = [per_con_exit EXCEPT ![c] = TRUE]
    /\ UNCHANGED <<task, tokenVars, sleeping, failing, overtime>>

\* JoinHandle::abort: the task ends at the await it is in, or at the next.
Abort(c) == Live(c) /\ Vacate({c})

\* The thread that owns the runtime returns or unwinds: tasks end at their awaits.
DropRuntime == Vacate(Connection)

-----------------------------------------------------------------------------
\* Time passes, in the sleeps and calls of the tasks only: their other steps
\* are short.
AuthPass ==
    /\ \A c \in Connection : /\ task[c] # "check"
                             /\ ~(task[c] = "sleep" /\ sleeping[c] = 0)
    /\ bearer' = [c \in Connection |-> Less(bearer[c])]
    /\ expiration' = [c \in Connection |-> Less(expiration[c])]
    /\ refresh' = [c \in Connection |-> Less(refresh[c])]
    /\ sleeping' = [c \in Connection |-> Less(sleeping[c])]
    /\ failing' = [c \in Connection |->
         IF task[c] \in Calling /\ failing[c] < Margin - Poll
         THEN failing[c] + 1 ELSE failing[c]]
    /\ overtime' = [c \in Connection |->
         IF per_con_exit[c] /\ task[c] = "sleep" /\ overtime[c] <= Poll
         THEN overtime[c] + 1 ELSE overtime[c]]
    /\ UNCHANGED <<task, per_con_exit>>

\* The steps of a task's loop, but for its panics.
LoopStep(c) ==
    \/ Check(c) \/ Return(c) \/ Wake(c) \/ CallFails(c)
    \/ \E access \in AccessTtl :
         \/ RefreshAccess(c, access)
         \/ \E refr \in RefreshTtl \cup {NoExpiry} : FullAuth(c, access, refr)

AuthNext ==
    \/ \E c \in Connection :
         \/ \E access \in AccessTtl, refr \in RefreshTtl \cup {NoExpiry} :
              New(c, access, refr)
         \/ LoopStep(c) \/ TaskPanics(c)
         \/ RaisePerConExit(c) \/ Abort(c)
    \/ DropRuntime \/ AuthPass

AuthSpec == AuthInit /\ [][AuthNext]_authVars

-----------------------------------------------------------------------------
(* Properties *)

\* The ranges of the tasks' variables.
AuthTypeOK ==
    /\ task \in [Connection -> {"none", "panicked"} \cup Alive]
    /\ per_con_exit \in [Connection -> BOOLEAN]
    /\ bearer \in [Connection -> Nat] /\ expiration \in [Connection -> Nat]
    /\ refresh \in [Connection -> Nat \cup {NoExpiry}]
    /\ sleeping \in [Connection -> 0 .. Poll] /\ failing \in [Connection -> 0 .. Margin]
    /\ overtime \in [Connection -> 0 .. Poll + 1]

\* While its task lives a bearer token expires only after the service has
\* failed to give a good answer for the whole margin, less one sleep.
BearerOutlivesOutage ==
    \A c \in Connection :
        task[c] \in Alive /\ failing[c] < Margin - Poll => bearer[c] > 0

\* The task of a connection that is over spends at most one sleep, and the call
\* it is in, before it ends: in subscribe-only mode nobody aborts it, and only
\* its own test of per_con_exit keeps the tasks from piling up.
OldTaskEndsSoon ==
    \A c \in Connection : overtime[c] <= Poll
===============================================================================
