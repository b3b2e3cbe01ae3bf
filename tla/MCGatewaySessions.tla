------------------------ MODULE MCGatewaySessions ------------------------
(* Instantiates GatewaySessions for TLC: two users who are friends, two   *)
(* gateways and two connection slots, which a user can hold at once on   *)
(* one gateway or on two; slots are reused after a session is destroyed, *)
(* and the pass configuration lets one gateway crash and restart once.  *)
EXTENDS GatewaySessions, TLC

MCFriends == [u \in Users |-> Users \ {u}]

\* Slots, gateways and (with the symmetric friend graph) users are
\* interchangeable: every combination of their permutations.
MCSymmetry ==
  {p @@ q @@ r : p \in Permutations(Conns), q \in Permutations(Gateways),
                 r \in Permutations(Users)}
=============================================================================
