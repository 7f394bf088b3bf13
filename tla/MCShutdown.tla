----------------------------- MODULE MCShutdown ------------------------------
EXTENDS Shutdown

Config(mode, discovery, grpc, prom, s, p) ==
    [mode |-> mode, discovery |-> discovery, grpc |-> grpc,
     prometheus |-> prom, signals |-> s, panics |-> p]

\* The three modes, stopped by signals or by panics.
SignalsOrPanics ==
    {Config("shredstream", FALSE, FALSE, TRUE, 2, 0),
     Config("shredstream", FALSE, FALSE, TRUE, 0, 2),
     Config("forward_only", TRUE, FALSE, FALSE, 1, 0),
     Config("forward_only", FALSE, TRUE, TRUE, 0, 1),
     Config("subscribe_only", FALSE, FALSE, FALSE, 2, 0),
     Config("subscribe_only", FALSE, FALSE, FALSE, 0, 1)}
OnePanic ==
    {Config("shredstream", FALSE, FALSE, TRUE, 0, 1),
     Config("forward_only", FALSE, TRUE, TRUE, 0, 1)}

\* The explicit panics of joined threads: a heartbeat answered with
\* InvalidArgument, and the metrics server's errors.
JoinedThreads == {heartbeat, prometheus}
\* serve(addr).await.unwrap(), the unwraps of the token refresh, and the
\* reconstructor.
UnjoinedThreads == {serve_task, token_task, reconstructor}
=============================================================================
