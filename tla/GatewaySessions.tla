-------------------------- MODULE GatewaySessions --------------------------
(***************************************************************************)
(* The edge-routing and presence core of TinyIM: WebSocket sessions of    *)
(* several gateways (websocket_session.hpp), each gateway's              *)
(* SessionManager (gateway/main.cpp), the Redis hash user_gateway, the    *)
(* Redis presence keys user:status:<uid> written by the Status server    *)
(* (status/main.cpp), the gateway thread pool that runs the Login/Logout  *)
(* tasks, and the Redis pub/sub topics gateway_<id>.                      *)
(*                                                                         *)
(* A connection slot c of Conns goes idle -> accepting -> open -> dying    *)
(* -> idle.  "dying" is the window in which the last shared_ptr of the    *)
(* websocket_session is gone but its destructor has not yet run           *)
(* SessionManager::leave: the raw pointer is still in sessions_.          *)
(* Frames and payloads are abstracted to the user they are addressed to.  *)
(***************************************************************************)
EXTENDS Naturals, FiniteSets

CONSTANTS
  Users,      \* user ids
  Gateways,   \* GATEWAY_ID of each gateway process
  Conns,      \* WebSocket connection slots
  Friends,    \* the friend graph read by StatusAuthClient::GetFriendIds
  RpcFailures, \* whether a Status RPC may fail (grpc status not ok)
  MaxCrashes, \* bound on gateway crash-and-restart steps
  None        \* user_id_ == 0, a missing map entry or hash field

ASSUME Friends \in [Users -> SUBSET Users]
ASSUME RpcFailures \in BOOLEAN /\ MaxCrashes \in Nat
ASSUME \A u \in Users : u \notin Friends[u] /\ \A f \in Friends[u] : u \in Friends[f]

VARIABLES
  stage,    \* lifecycle of the websocket_session in each slot
  user,     \* websocket_session::user_id_
  gw,       \* gateway whose listener accepted the connection
  reg,      \* SessionManager::sessions_ of each gateway, user -> session
  dir,      \* Redis hash user_gateway, user -> gateway id
  status,   \* Redis key user:status:<uid>, 1 = online
  ltask,    \* the Login task on_accept posted to the thread pool
  otask,    \* the Logout task ~websocket_session posted to the thread pool
  channel,  \* messages published on gateway_<g> not yet consumed: targets
  badWeak,  \* some send_message ran on a session whose refcount was 0
  crashes   \* gateway crash-and-restart steps taken so far

vars == <<stage, user, gw, reg, dir, status, ltask, otask, channel, badWeak,
          crashes>>

Stages == {"idle", "accepting", "open", "dying"}
Phases == {"rpc", "notify", "drain"}
Task   == [g : Gateways, u : Users, phase : Phases, targets : SUBSET Users]

NewTask(g, u) == [g |-> g, u |-> u, phase |-> "rpc", targets |-> {}]

-----------------------------------------------------------------------------
(* Shared steps of the gateway.                                            *)

\* A published message for target t lands on the topic of gateway h.
Publish(h, t) == channel' = [channel EXCEPT ![h] = @ \cup {t}]

\* Mutant: join writes user_gateway only when the user has no entry yet
\* (HSETNX).
JoinHSetNX(g, u, c) ==
  /\ reg' = [reg EXCEPT ![g][u] = c]
  /\ dir' = IF dir[u] = None THEN [dir EXCEPT ![u] = g] ELSE dir

\* SessionManager::join under its mutex: sessions_[u] = session, then HSet
\* user_gateway u g.
Join(g, u, c) ==
  /\ reg' = [reg EXCEPT ![g][u] = c]
  /\ dir' = [dir EXCEPT ![u] = g]

\* SessionManager::leave under its mutex: sessions_.erase(u), then HDel
\* user_gateway u, whichever session and gateway they name.
Leave(g, u) ==
  /\ reg' = [reg EXCEPT ![g][u] = None]
  /\ dir' = [dir EXCEPT ![u] = None]

\* send_message on a registered session: shared_from_this() on a session
\* whose refcount already reached 0 throws bad_weak_ptr.
LocalSend(c) == badWeak' = (badWeak \/ stage[c] = "dying")

\* SessionManager::send_to_user on gateway g: local session first, else
\* HGet user_gateway and publish to that gateway's topic, else drop.
SendToUser(g, t) ==
  \/ /\ reg[g][t] # None
     /\ LocalSend(reg[g][t])
     /\ UNCHANGED channel
  \/ /\ reg[g][t] = None
     /\ dir[t] = None
     /\ UNCHANGED <<channel, badWeak>>
  \/ /\ reg[g][t] = None
     /\ dir[t] # None
     /\ Publish(dir[t], t)
     /\ UNCHANGED badWeak

\* Status server Login/Logout: SET user:status:<u>, read the friend list,
\* and for each friend whose status is "1" call NotifyUser (HGet
\* user_gateway, publish STATUS_UPDATE there); reply with those friends.
OnlineFriends(u, st) == {f \in Friends[u] : st[f] = 1}

StatusRpc(u, val) ==
  LET st == [status EXCEPT ![u] = val]
      on == OnlineFriends(u, st)
  IN  /\ status' = st
      /\ channel' = [h \in Gateways |->
                        channel[h] \cup {f \in on : dir[f] = h}]

-----------------------------------------------------------------------------
(* Connection lifecycle.                                                   *)

\* http_session::on_read hands an upgrade request to a new
\* websocket_session; run() verifies the token on the thread pool and
\* dispatches back with user_id_ set (a valid token) or left 0.
Connect(c, g, u) ==
  /\ stage[c] = "idle"
  /\ ltask[c] = None /\ otask[c] = None
  /\ stage' = [stage EXCEPT ![c] = "accepting"]
  /\ user' = [user EXCEPT ![c] = u]
  /\ gw' = [gw EXCEPT ![c] = g]
  /\ UNCHANGED <<reg, dir, status, ltask, otask, channel, badWeak, crashes>>

\* on_accept with an error code returns at once, and the session is
\* released; so is a session whose token was invalid (async_close).
AcceptFail(c) ==
  /\ stage[c] = "accepting"
  /\ stage' = [stage EXCEPT ![c] = "dying"]
  /\ UNCHANGED <<user, gw, reg, dir, status, ltask, otask, channel, badWeak, crashes>>

\* Mutant: on_accept joins without the user_id_ == 0 check.
AcceptNoTokenCheck(c) ==
  /\ stage[c] = "accepting"
  /\ stage' = [stage EXCEPT ![c] = "open"]
  /\ Join(gw[c], user[c], c)
  /\ ltask' = [ltask EXCEPT ![c] = NewTask(gw[c], user[c])]
  /\ UNCHANGED <<user, gw, status, otask, channel, badWeak, crashes>>

\* on_accept succeeded with user_id_ != 0: SessionManager::join
\* (sessions_[u] = this, HSet user_gateway u g), post the Login task,
\* start reading.
Accept(c) ==
  /\ stage[c] = "accepting"
  /\ user[c] # None
  /\ stage' = [stage EXCEPT ![c] = "open"]
  /\ Join(gw[c], user[c], c)
  /\ ltask' = [ltask EXCEPT ![c] = NewTask(gw[c], user[c])]
  /\ UNCHANGED <<user, gw, status, otask, channel, badWeak, crashes>>

\* on_read fails (client closed, error, timeout): no handler holds the
\* session any more and its refcount drops to 0.
Drop(c) ==
  /\ stage[c] = "open"
  /\ stage' = [stage EXCEPT ![c] = "dying"]
  /\ UNCHANGED <<user, gw, reg, dir, status, ltask, otask, channel, badWeak, crashes>>

\* Mutant: the destructor HDels and posts Logout but forgets the erase.
DestroyKeepsEntry(c) ==
  /\ stage[c] = "dying"
  /\ stage' = [stage EXCEPT ![c] = "idle"]
  /\ user' = [user EXCEPT ![c] = None]
  /\ gw' = [gw EXCEPT ![c] = None]
  /\ \/ /\ user[c] = None
        /\ UNCHANGED <<reg, dir, otask>>
     \/ /\ user[c] # None
        /\ dir' = [dir EXCEPT ![user[c]] = None]
        /\ otask' = [otask EXCEPT ![c] = NewTask(gw[c], user[c])]
        /\ UNCHANGED reg
  /\ UNCHANGED <<status, ltask, channel, badWeak, crashes>>

\* ~websocket_session: if user_id_ != 0, SessionManager::leave (erase
\* sessions_[u], HDel user_gateway u, whatever they name) and post the
\* Logout task.  The slot can then carry a new connection.
Destroy(c) ==
  /\ stage[c] = "dying"
  /\ stage' = [stage EXCEPT ![c] = "idle"]
  /\ user' = [user EXCEPT ![c] = None]
  /\ gw' = [gw EXCEPT ![c] = None]
  /\ \/ /\ user[c] = None
        /\ UNCHANGED <<reg, dir, otask>>
     \/ /\ user[c] # None
        /\ Leave(gw[c], user[c])
        /\ otask' = [otask EXCEPT ![c] = NewTask(gw[c], user[c])]
  /\ UNCHANGED <<status, ltask, channel, badWeak, crashes>>

-----------------------------------------------------------------------------
(* The thread-pool tasks.  Four pool threads run posted tasks in any       *)
(* order and interleaved with everything else.                             *)

\* StatusClient::Login returns; on success the task will send a
\* STATUS_UPDATE to every online friend, on an RPC failure it skips that.
LoginRpc(c) ==
  LET t == ltask[c] IN
  /\ t # None /\ t.phase = "rpc"
  /\ \/ /\ StatusRpc(t.u, 1)
        /\ ltask' = [ltask EXCEPT ![c] = [t EXCEPT !.phase = "notify",
                       !.targets = OnlineFriends(t.u, status')]]
     \/ /\ RpcFailures
        /\ ltask' = [ltask EXCEPT ![c] = [t EXCEPT !.phase = "drain"]]
        /\ UNCHANGED <<status, channel>>
  /\ UNCHANGED <<stage, user, gw, reg, dir, otask, badWeak, crashes>>

\* One iteration of a notify loop: send_to_user(fid, STATUS_UPDATE).
\* After the loop the Login task drains, the Logout task ends.
LoginNotify(c) ==
  LET t == ltask[c] IN
  /\ t # None /\ t.phase = "notify"
  /\ \/ \E f \in t.targets :
          /\ SendToUser(t.g, f)
          /\ ltask' = [ltask EXCEPT ![c].targets = @ \ {f}]
     \/ /\ t.targets = {}
        /\ ltask' = [ltask EXCEPT ![c].phase = "drain"]
        /\ UNCHANGED <<channel, badWeak>>
  /\ UNCHANGED <<stage, user, gw, reg, dir, status, otask, crashes>>

\* GetOfflineMessages(uid), then send_to_user(uid, CHAT_PUSH) for each
\* message; whether unread messages exist is a choice here.
LoginDrain(c) ==
  LET t == ltask[c] IN
  /\ t # None /\ t.phase = "drain"
  /\ \/ SendToUser(t.g, t.u)
     \/ UNCHANGED <<channel, badWeak>>
  /\ ltask' = [ltask EXCEPT ![c] = None]
  /\ UNCHANGED <<stage, user, gw, reg, dir, status, otask, crashes>>

LogoutRpc(c) ==
  LET t == otask[c] IN
  /\ t # None /\ t.phase = "rpc"
  /\ \/ /\ StatusRpc(t.u, 0)
        /\ otask' = [otask EXCEPT ![c] = [t EXCEPT !.phase = "notify",
                       !.targets = OnlineFriends(t.u, status')]]
     \/ /\ RpcFailures
        /\ otask' = [otask EXCEPT ![c] = None]
        /\ UNCHANGED <<status, channel>>
  /\ UNCHANGED <<stage, user, gw, reg, dir, ltask, badWeak, crashes>>

LogoutNotify(c) ==
  LET t == otask[c] IN
  /\ t # None /\ t.phase = "notify"
  /\ \/ \E f \in t.targets :
          /\ SendToUser(t.g, f)
          /\ otask' = [otask EXCEPT ![c].targets = @ \ {f}]
     \/ /\ t.targets = {}
        /\ otask' = [otask EXCEPT ![c] = None]
        /\ UNCHANGED <<channel, badWeak>>
  /\ UNCHANGED <<stage, user, gw, reg, dir, status, ltask, crashes>>

-----------------------------------------------------------------------------
(* The pub/sub consumer thread of gateway h.                               *)

\* The Subscribe callback parses "<uid>|<frame>" and calls
\* send_to_local_user: deliver to the local session if there is one.
Receive(h, t) ==
  /\ t \in channel[h]
  /\ channel' = [channel EXCEPT ![h] = @ \ {t}]
  /\ \/ /\ reg[h][t] # None
        /\ LocalSend(reg[h][t])
     \/ /\ reg[h][t] = None
        /\ UNCHANGED badWeak
  /\ UNCHANGED <<stage, user, gw, reg, dir, status, ltask, otask, crashes>>

\* redisGetReply fails, Loop reconnects after a second: whatever was
\* published on the topic meanwhile is gone (Redis pub/sub keeps nothing).
LoseMessage(h, t) ==
  /\ t \in channel[h]
  /\ channel' = [channel EXCEPT ![h] = @ \ {t}]
  /\ UNCHANGED <<stage, user, gw, reg, dir, status, ltask, otask, badWeak, crashes>>

-----------------------------------------------------------------------------
(* A gateway process crashes and is started again with the same           *)
(* GATEWAY_ID.                                                             *)

\* The process dies: its sessions, its sessions_ map, the tasks queued on
\* its thread pool and whatever was published on its topic meanwhile are
\* gone, and no destructor, leave() or Logout runs.  main() then builds a
\* fresh SessionManager and thread pool and subscribes gateway_<id> again.
\* Redis keeps user_gateway and user:status as they were.
Restart(g) ==
  /\ crashes < MaxCrashes
  /\ crashes' = crashes + 1
  /\ stage' = [c \in Conns |-> IF gw[c] = g THEN "idle" ELSE stage[c]]
  /\ user' = [c \in Conns |-> IF gw[c] = g THEN None ELSE user[c]]
  /\ gw' = [c \in Conns |-> IF gw[c] = g THEN None ELSE gw[c]]
  /\ reg' = [reg EXCEPT ![g] = [u \in Users |-> None]]
  /\ ltask' = [c \in Conns |-> IF ltask[c] # None /\ ltask[c].g = g
                                THEN None ELSE ltask[c]]
  /\ otask' = [c \in Conns |-> IF otask[c] # None /\ otask[c].g = g
                                THEN None ELSE otask[c]]
  /\ channel' = [channel EXCEPT ![g] = {}]
  /\ UNCHANGED <<dir, status, badWeak>>

-----------------------------------------------------------------------------
Init ==
  /\ stage = [c \in Conns |-> "idle"]
  /\ user = [c \in Conns |-> None]
  /\ gw = [c \in Conns |-> None]
  /\ reg = [g \in Gateways |-> [u \in Users |-> None]]
  /\ dir = [u \in Users |-> None]
  /\ status = [u \in Users |-> 0]
  /\ ltask = [c \in Conns |-> None]
  /\ otask = [c \in Conns |-> None]
  /\ channel = [g \in Gateways |-> {}]
  /\ badWeak = FALSE
  /\ crashes = 0

Next ==
  \/ \E c \in Conns, g \in Gateways, u \in Users \cup {None} : Connect(c, g, u)
  \/ \E c \in Conns :
       \/ AcceptFail(c) \/ Accept(c) \/ Drop(c) \/ Destroy(c)
       \/ LoginRpc(c) \/ LoginNotify(c) \/ LoginDrain(c)
       \/ LogoutRpc(c) \/ LogoutNotify(c)
  \/ \E h \in Gateways, t \in Users : Receive(h, t) \/ LoseMessage(h, t)
  \/ \E g \in Gateways : Restart(g)

Spec == Init /\ [][Next]_vars

-----------------------------------------------------------------------------
(* Properties.                                                             *)

TypeOK ==
  /\ stage \in [Conns -> Stages]
  /\ user \in [Conns -> Users \cup {None}]
  /\ gw \in [Conns -> Gateways \cup {None}]
  /\ reg \in [Gateways -> [Users -> Conns \cup {None}]]
  /\ dir \in [Users -> Gateways \cup {None}]
  /\ status \in [Users -> {0, 1}]
  /\ ltask \in [Conns -> Task \cup {None}]
  /\ otask \in [Conns -> Task \cup {None}]
  /\ channel \in [Gateways -> SUBSET Users]
  /\ badWeak \in BOOLEAN
  /\ crashes \in 0..MaxCrashes

\* sessions_ holds raw websocket_session pointers: every entry must be a
\* session of that user on that gateway which has not been destroyed
\* (a destroyed one would be a dangling pointer).
RegistryHoldsLiveSessions ==
  \A g \in Gateways, u \in Users :
    reg[g][u] # None =>
      /\ stage[reg[g][u]] \in {"open", "dying"}
      /\ user[reg[g][u]] = u
      /\ gw[reg[g][u]] = g

\* Directory soundness (spec I1 / section 3): while some gateway has a
\* registered session of u, user_gateway has an entry for u, so pushes
\* from other gateways can reach it.  leave() HDels unconditionally.
DirectorySound ==
  \A g \in Gateways, u \in Users : reg[g][u] # None => dir[u] # None

\* When no task is pending and no session is half set up or torn down,
\* user:status:<u> is 1 exactly for the users with an open session
\* (spec section 3: 1 on first join, 0 on last leave).
Quiescent ==
  \A c \in Conns : /\ stage[c] \in {"idle", "open"}
                   /\ ltask[c] = None /\ otask[c] = None

PresenceMatchesSessions ==
  Quiescent =>
    \A u \in Users :
      status[u] = 1 <=> \E c \in Conns : stage[c] = "open" /\ user[c] = u

\* The Redis directory and the gateways' sessions_ maps together implement
\* UserDirectory: every step either leaves both alone or is a join or a
\* leave of the abstract directory, so user_gateway only ever names the
\* gateway that joined last while it still holds a session of the user.
Directory == INSTANCE UserDirectory
               WITH where <- [u \in Users |-> {g \in Gateways : reg[g][u] # None}],
                    route <- dir

DirectoryRefinement == Directory!Spec

\* No push (STATUS_UPDATE, CHAT_PUSH) is ever handed to a session whose
\* last shared_ptr is gone: send_message calls shared_from_this().
NoSendToDyingSession == ~badWeak
=============================================================================
