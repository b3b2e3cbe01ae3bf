--------------------------- MODULE MCServicePools ---------------------------
(* ServicePools for TLC.  The pass configuration has fewer concurrent      *)
(* Presence calls than Redis connections and one Register call; the       *)
(* violation configurations put as many calls as connections on a pool.  *)
(* Two gateway threads share SessionManager::mutex_ and a gateway pool of *)
(* one connection.                                                         *)
EXTENDS ServicePools, TLC

MCSymmetry == Permutations(PresenceCalls) \cup Permutations(AuthCalls)
              \cup Permutations(GatewayCalls)
=============================================================================
