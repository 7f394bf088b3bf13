----------------------------- MODULE MCForwarder -----------------------------
(***************************************************************************)
(* Instances of Forwarder with one payload, of two hashes.                 *)
(***************************************************************************)
EXTENDS Forwarder, TLC

CONSTANTS t1, t2, t3, p1, d1, d2

OnePayload == (p1 :> <<1, 2>>)

ASSUME PayloadsAssumption == PayloadsDiffer

ThreadsAndDests == Permutations({t1, t2, t3}) \cup Permutations({d1, d2})
=============================================================================
