--------------------------- MODULE UserDirectory ---------------------------
(***************************************************************************)
(* What the routing plane promises the rest of TinyIM (spec sections 3,    *)
(* 6.3 and 7): which gateways hold a registered session of each user, and  *)
(* the directory entry user_gateway other gateways route by.  The entry    *)
(* is a hint: it may be missing ("directory drift" is tolerated and        *)
(* healed by the next login), a join always points it at the joining      *)
(* gateway, a leave never moves it to another gateway, and only the loss   *)
(* of a gateway process leaves it naming a gateway without the session.    *)
(***************************************************************************)
CONSTANTS Users, Gateways, None

VARIABLES
  where,   \* gateways with a registered session of each user
  route    \* the directory entry of each user, or None

Init ==
  /\ where = [u \in Users |-> {}]
  /\ route = [u \in Users |-> None]

\* A session of u registers on g and the entry names g.
Register(u, g) ==
  /\ where' = [where EXCEPT ![u] = @ \cup {g}]
  /\ route' = [route EXCEPT ![u] = g]

\* g stops holding a session of u; the entry is cleared, or kept if it
\* names another gateway.
Unregister(u, g) ==
  /\ where' = [where EXCEPT ![u] = @ \ {g}]
  /\ \E r \in {None} \cup ({route[u]} \ {g}) : route' = [route EXCEPT ![u] = r]

\* The process of g is lost: it holds no sessions any more, and the
\* entries naming it stay (the orphan entries of spec section 7).
Lose(g) ==
  /\ where' = [u \in Users |-> where[u] \ {g}]
  /\ UNCHANGED route

Next ==
  \E u \in Users, g \in Gateways : Register(u, g) \/ Unregister(u, g) \/ Lose(g)

Spec == Init /\ [][Next]_<<where, route>>

=============================================================================
