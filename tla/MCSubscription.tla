---------------------------- MODULE MCSubscription ----------------------------
EXTENDS Subscription

CONSTANTS c1, c2   \* places for two connections

BothModes == {"shredstream", "subscribe_only"}
ShredstreamMode == {"shredstream"}

\* A ttl of 0 makes the heartbeat tick always ready, one of 9 makes the interval
\* longer than the metrics period.
Ttls == {0, 9}

\* The registration is followed in the mode with the smaller state space.
Registrations == {<<"subscribe_only", 9>>}

\* A refresh token outlives an access token.
AccessTtls == {2}
RefreshTtls == {3}
===============================================================================
