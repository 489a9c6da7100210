----------------------------- MODULE RemoteCall -----------------------------
(* What a caller of the transport is promised, whatever happens to the      *)
(* connection: a call is carried out at most once, reports a success only   *)
(* if it was carried out, and is settled at most once.                      *)
EXTENDS Naturals

CONSTANT Calls
VARIABLES outcome,   \* "none" before and during a call, then "ok" or "failed"
          runs       \* how often the daemon has carried the call out

CallTypeOK == /\ outcome \in [Calls -> {"none", "ok", "failed"}]
              /\ runs \in [Calls -> 0..1]

CallInit == /\ outcome = [c \in Calls |-> "none"]
            /\ runs = [c \in Calls |-> 0]

\* The daemon carries a call out; the caller may have given up on it.
CarryOut(c) == /\ runs[c] = 0
               /\ runs' = [runs EXCEPT ![c] = 1]
               /\ UNCHANGED outcome

Succeed(c) == /\ outcome[c] = "none" /\ runs[c] = 1
              /\ outcome' = [outcome EXCEPT ![c] = "ok"]
              /\ UNCHANGED runs

\* A lost connection or a shutdown fails several calls at once.
Fail(cs) == /\ \A c \in cs : outcome[c] = "none"
            /\ outcome' = [c \in Calls |-> IF c \in cs THEN "failed" ELSE outcome[c]]
            /\ UNCHANGED runs

CallNext == \/ \E c \in Calls : CarryOut(c) \/ Succeed(c)
            \/ \E cs \in SUBSET Calls : Fail(cs)

CallSpec == CallInit /\ [][CallNext]_<<outcome, runs>>
=============================================================================
