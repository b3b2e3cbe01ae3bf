---------------------------- MODULE ServicePools ----------------------------
(***************************************************************************)
(* Blocking connection pools (common/db) and the handlers that hold them  *)
(* across nested acquisitions and synchronous gRPC calls.                 *)
(*                                                                         *)
(* RedisPool / MySQLPool::GetConnection wait on a condition variable until *)
(* the queue is non-empty; RedisClient takes its connection in its        *)
(* constructor, MySQLClient lazily on first use, and both give it back in *)
(* their destructors.  gRPC calls have no deadline.                       *)
(*                                                                         *)
(* Modelled handlers:                                                      *)
(*  - Presence Login/Logout (status/main.cpp), which keeps a RedisClient  *)
(*    while it calls Auth GetFriendList and while NotifyUser opens a      *)
(*    second RedisClient;                                                  *)
(*  - Auth GetFriendList, which keeps a MySQLClient while it calls        *)
(*    Presence GetStatus, which needs a RedisClient of its own;           *)
(*  - Auth Register, whose MySQLClient takes a primary connection for     *)
(*    Escape and a read-only one for the default (Eventual) Query: in     *)
(*    single-node mode both come from the primary pool.                   *)
(*  - the gateway's SessionManager (gateway/main.cpp), whose join() and   *)
(*    leave() take a RedisClient from the gateway's own RedisPool with    *)
(*    mutex_ held, while send_to_user() takes one after unlocking and     *)
(*    send_to_local_user() (the pub/sub consumer) only takes mutex_.      *)
(* Each call slot serves one call after another.                          *)
(***************************************************************************)
EXTENDS Naturals, FiniteSets, Functions

CONSTANTS
  PresenceCalls,   \* concurrent Presence Login/Logout RPCs (gRPC threads)
  AuthCalls,       \* concurrent Auth Register RPCs
  GatewayCalls,    \* gateway threads calling into the SessionManager
  NoOwner,         \* mutex_ not held
  RedisPoolSize,   \* connections the Presence server's RedisPool holds
  GwPoolSize,      \* connections the gateway server's RedisPool holds
  MySQLPoolSize,   \* connections of each MySQLPool queue of the Auth server
  SingleNode,      \* primary and read-only configs identical
  DbMayDrop,       \* mysql_ping fails and CreateConnection returns nullptr
  MaxOnline        \* online friends a Login/Logout notifies, at most

ASSUME RedisPoolSize \in Nat /\ GwPoolSize \in Nat /\ MySQLPoolSize \in Nat
ASSUME NoOwner \notin GatewayCalls
ASSUME SingleNode \in BOOLEAN /\ DbMayDrop \in BOOLEAN
ASSUME MaxOnline \in Nat

VARIABLES
  redisFree,  \* RedisPool::pool_ size of the Presence and the gateway server
  dbFree,     \* MySQLPool primary_pool_ and readonly_pool_ sizes
  pc,         \* Presence Login/Logout handler
  rHeld,      \* its RedisClients alive: the handler's own and NotifyUser's
  fpc,        \* the Auth GetFriendList serving that handler's GetFriendIds
  fHeld,      \* its MySQLClient's primary_conn_ (0 or 1)
  friends,    \* whether the friend list it returns is non-empty
  online,     \* online friends the handler has still to notify
  gpc,        \* the Presence GetStatus serving that GetFriendList
  apc,        \* Auth Register handler
  aHeld,      \* its MySQLClient's primary_conn_ and readonly_conn_
  owner,      \* the gateway thread holding SessionManager::mutex_
  gw          \* gateway thread: SessionManager call and where it is in it

vars == <<redisFree, dbFree, pc, rHeld, fpc, fHeld, friends, online, gpc,
          apc, aHeld, owner, gw>>

RedisPools == {"status", "gateway"}

RedisSizeOf(r) == IF r = "status" THEN RedisPoolSize ELSE GwPoolSize

DbPools == {"primary", "readonly"}

\* MySQLPool::GetReadOnlyConnection: the primary pool in single-node mode.
ReadPool == IF SingleNode THEN "primary" ELSE "readonly"

PoolSizeOf(p) == IF p = "readonly" /\ SingleNode THEN 0 ELSE MySQLPoolSize

-----------------------------------------------------------------------------
(* RedisPool::GetConnection of server r: cv_.wait until pool_ is non-empty, *)
(* then pop.  There is no ping: the connection is handed out as it is.    *)
RedisGetConnection(r) ==
  /\ redisFree[r] > 0
  /\ redisFree' = [redisFree EXCEPT ![r] = @ - 1]

\* RedisPool::ReturnConnection for n connections of server r.
RedisReturnConnection(r, n) == [redisFree EXCEPT ![r] = @ + n]

-----------------------------------------------------------------------------
(* MySQLPool::GetConnection(p): wait for a connection, pop it, ping it.   *)
(* A connection that fails the ping is replaced by CreateConnection, which *)
(* may return nullptr: the pool has then lost one and the client has none. *)
(* got is the number of usable connections the client receives.           *)
GetConnection(p, got) ==
  /\ dbFree[p] > 0
  /\ dbFree' = [dbFree EXCEPT ![p] = @ - 1]
  /\ \/ got = 1
     \/ DbMayDrop /\ got = 0

\* MySQLPool::ReturnConnection for n connections of pool p.
ReturnConnection(p, n) == [dbFree EXCEPT ![p] = @ + n]

-----------------------------------------------------------------------------
(* Presence Login / Logout (identical in what they hold).                 *)

\* Mutant: the handler opens a second RedisClient (say, one for the SET)
\* right after its own and keeps both for its whole run.
PresenceStartTwoClients(s) ==
  /\ pc[s] = "idle"
  /\ RedisGetConnection("status")
  /\ rHeld' = [rHeld EXCEPT ![s] = @ + 1]
  /\ IF rHeld[s] = 1
       THEN /\ pc' = [pc EXCEPT ![s] = "friends"]
            /\ fpc' = [fpc EXCEPT ![s] = "query"]
       ELSE UNCHANGED <<pc, fpc>>
  /\ UNCHANGED <<dbFree, fHeld, friends, online, gpc, apc, aHeld, owner, gw>>

\* RedisClient redis; its constructor waits for a pooled connection.
\* Then SET user:status and call GetFriendIds on Auth.
PresenceStart(s) ==
  /\ pc[s] = "idle"
  /\ RedisGetConnection("status")
  /\ rHeld' = [rHeld EXCEPT ![s] = 1]
  /\ pc' = [pc EXCEPT ![s] = "friends"]
  /\ fpc' = [fpc EXCEPT ![s] = "query"]
  /\ UNCHANGED <<dbFree, fHeld, friends, online, gpc, apc, aHeld, owner, gw>>

\* GetFriendIds has returned; redis.Get of each friend's status finds the
\* ones online, each of which the loop must notify.
PresenceFriends(s) ==
  /\ pc[s] = "friends"
  /\ fpc[s] = "idle"
  /\ \E n \in 0..(IF friends[s] THEN MaxOnline ELSE 0) :
       online' = [online EXCEPT ![s] = n]
  /\ pc' = [pc EXCEPT ![s] = "notify"]
  /\ UNCHANGED <<redisFree, dbFree, rHeld, fpc, fHeld, friends, gpc, apc, aHeld, owner, gw>>

\* NotifyUser(fid): a second RedisClient while the handler's own is alive.
NotifyAcquire(s) ==
  /\ pc[s] = "notify"
  /\ online[s] > 0
  /\ RedisGetConnection("status")
  /\ rHeld' = [rHeld EXCEPT ![s] = @ + 1]
  /\ pc' = [pc EXCEPT ![s] = "notifying"]
  /\ UNCHANGED <<dbFree, fpc, fHeld, friends, online, gpc, apc, aHeld, owner, gw>>

\* HGet user_gateway, Publish, and NotifyUser's RedisClient is destroyed;
\* the loop goes on with the next online friend.
NotifyRelease(s) ==
  /\ pc[s] = "notifying"
  /\ redisFree' = RedisReturnConnection("status", 1)
  /\ rHeld' = [rHeld EXCEPT ![s] = @ - 1]
  /\ online' = [online EXCEPT ![s] = @ - 1]
  /\ pc' = [pc EXCEPT ![s] = "notify"]
  /\ UNCHANGED <<dbFree, fpc, fHeld, friends, gpc, apc, aHeld, owner, gw>>

\* Mutant: a copy of the handler's RedisClient shares conn_ and its
\* destructor returns the same connection a second time.
PresenceReturnTwice(s) ==
  /\ pc[s] = "notify"
  /\ online[s] = 0
  /\ redisFree' = RedisReturnConnection("status", rHeld[s] + 1)
  /\ rHeld' = [rHeld EXCEPT ![s] = 0]
  /\ pc' = [pc EXCEPT ![s] = "idle"]
  /\ UNCHANGED <<dbFree, fpc, fHeld, friends, online, gpc, apc, aHeld, owner, gw>>

\* The loop is over: return Status::OK, and the handler's RedisClient goes
\* back to the pool.
PresenceReturn(s) ==
  /\ pc[s] = "notify"
  /\ online[s] = 0
  /\ redisFree' = RedisReturnConnection("status", rHeld[s])
  /\ rHeld' = [rHeld EXCEPT ![s] = 0]
  /\ pc' = [pc EXCEPT ![s] = "idle"]
  /\ UNCHANGED <<dbFree, fpc, fHeld, friends, online, gpc, apc, aHeld, owner, gw>>

-----------------------------------------------------------------------------
(* Auth GetFriendList and the Presence GetStatus it calls.                *)

\* Query(Strong) takes a primary connection; a lost one yields no rows.
\* With friends, status_client_->GetStatus is called with the connection
\* still held.
FriendListQuery(s) ==
  /\ fpc[s] = "query"
  /\ \E got \in {0, 1}, nonEmpty \in BOOLEAN :
       /\ GetConnection("primary", got)
       /\ fHeld' = [fHeld EXCEPT ![s] = got]
       /\ friends' = [friends EXCEPT ![s] = nonEmpty /\ got = 1]
       /\ IF nonEmpty /\ got = 1
            THEN /\ fpc' = [fpc EXCEPT ![s] = "status"]
                 /\ gpc' = [gpc EXCEPT ![s] = "acquire"]
            ELSE /\ fpc' = [fpc EXCEPT ![s] = "reply"]
                 /\ UNCHANGED gpc
  /\ UNCHANGED <<redisFree, pc, rHeld, online, apc, aHeld, owner, gw>>

\* GetStatus: RedisClient redis waits for a connection; Get each status.
GetStatusAcquire(s) ==
  /\ gpc[s] = "acquire"
  /\ RedisGetConnection("status")
  /\ gpc' = [gpc EXCEPT ![s] = "get"]
  /\ UNCHANGED <<dbFree, pc, rHeld, fpc, fHeld, friends, online, apc, aHeld, owner, gw>>

\* GetStatus returns; its RedisClient goes back to the pool.
GetStatusReturn(s) ==
  /\ gpc[s] = "get"
  /\ redisFree' = RedisReturnConnection("status", 1)
  /\ gpc' = [gpc EXCEPT ![s] = "idle"]
  /\ UNCHANGED <<dbFree, pc, rHeld, fpc, fHeld, friends, online, apc, aHeld, owner, gw>>

\* GetFriendList replies; the MySQLClient destructor returns primary_conn_.
FriendListReply(s) ==
  /\ \/ fpc[s] = "reply"
     \/ fpc[s] = "status" /\ gpc[s] = "idle"
  /\ dbFree' = ReturnConnection("primary", fHeld[s])
  /\ fHeld' = [fHeld EXCEPT ![s] = 0]
  /\ fpc' = [fpc EXCEPT ![s] = "idle"]
  /\ UNCHANGED <<redisFree, pc, rHeld, friends, online, gpc, apc, aHeld, owner, gw>>

-----------------------------------------------------------------------------
(* Auth Register.                                                          *)

\* mysql.Escape: no readonly_conn_ yet, so EnsurePrimaryConnection.
RegisterEscape(a) ==
  /\ apc[a] = "idle"
  /\ \E got \in {0, 1} :
       /\ GetConnection("primary", got)
       /\ aHeld' = [aHeld EXCEPT ![a].primary = got]
  /\ apc' = [apc EXCEPT ![a] = "query"]
  /\ UNCHANGED <<redisFree, pc, rHeld, fpc, fHeld, friends, online, gpc, owner, gw>>

\* Query(SELECT ... username) with the default Eventual consistency:
\* EnsureReadOnlyConnection takes a second connection while primary_conn_
\* is held.  A lost connection reads as "no such user".
RegisterQuery(a) ==
  /\ apc[a] = "query"
  /\ \E got \in {0, 1}, exists \in BOOLEAN :
       /\ GetConnection(ReadPool, got)
       /\ aHeld' = [aHeld EXCEPT ![a].readonly = got]
       /\ apc' = [apc EXCEPT ![a] = IF exists /\ got = 1 THEN "return"
                                                         ELSE "execute"]
  /\ UNCHANGED <<redisFree, pc, rHeld, fpc, fHeld, friends, online, gpc, owner, gw>>

\* Execute(INSERT): EnsurePrimaryConnection again if Escape got none.
RegisterExecute(a) ==
  /\ apc[a] = "execute"
  /\ \/ /\ aHeld[a].primary = 1
        /\ UNCHANGED <<dbFree, aHeld>>
     \/ /\ aHeld[a].primary = 0
        /\ \E got \in {0, 1} :
             /\ GetConnection("primary", got)
             /\ aHeld' = [aHeld EXCEPT ![a].primary = got]
  /\ apc' = [apc EXCEPT ![a] = "return"]
  /\ UNCHANGED <<redisFree, pc, rHeld, fpc, fHeld, friends, online, gpc, owner, gw>>

\* Mutant: ReturnReadOnlyConnection without its single-node branch.
RegisterReturnToReadPool(a) ==
  /\ apc[a] = "return"
  /\ dbFree' = [dbFree EXCEPT !["primary"] = @ + aHeld[a].primary,
                              !["readonly"] = @ + aHeld[a].readonly]
  /\ aHeld' = [aHeld EXCEPT ![a] = [primary |-> 0, readonly |-> 0]]
  /\ apc' = [apc EXCEPT ![a] = "idle"]
  /\ UNCHANGED <<redisFree, pc, rHeld, fpc, fHeld, friends, online, gpc, owner, gw>>

\* ~MySQLClient: ReturnPrimaryConnection and ReturnReadOnlyConnection,
\* which in single-node mode returns to the primary pool.
RegisterReturn(a) ==
  /\ apc[a] = "return"
  /\ dbFree' = [p \in DbPools |->
                  dbFree[p] + (IF p = "primary" THEN aHeld[a].primary ELSE 0)
                            + (IF p = ReadPool THEN aHeld[a].readonly ELSE 0)]
  /\ aHeld' = [aHeld EXCEPT ![a] = [primary |-> 0, readonly |-> 0]]
  /\ apc' = [apc EXCEPT ![a] = "idle"]
  /\ UNCHANGED <<redisFree, pc, rHeld, fpc, fHeld, friends, online, gpc, owner, gw>>

-----------------------------------------------------------------------------
(* Gateway SessionManager.  gw[t].op is the call a thread is in, gw[t].at *)
(* where it is in it: "mutex" waiting for mutex_, "redis" waiting in the   *)
(* RedisClient constructor, "hset"/"publish" holding the RedisClient,     *)
(* "lookup" inside the locked sessions_ lookup.                           *)
Idle == [op |-> "none", at |-> "none"]

StatusVars == <<dbFree, pc, rHeld, fpc, fHeld, friends, online, gpc, apc, aHeld>>

\* A thread enters join (on_accept), leave (the session destructor),
\* send_to_user (a thread-pool task) or send_to_local_user (the pub/sub
\* consumer); each first constructs a lock_guard on mutex_.
Invoke(t, op) ==
  /\ gw[t] = Idle
  /\ gw' = [gw EXCEPT ![t] = [op |-> op, at |-> "mutex"]]
  /\ UNCHANGED <<redisFree, owner, StatusVars>>

\* std::lock_guard<std::mutex> lock(mutex_): blocks while another thread
\* holds it.
Lock(t) ==
  /\ gw[t].at = "mutex"
  /\ owner = NoOwner
  /\ owner' = t
  /\ gw' = [gw EXCEPT ![t].at = IF gw[t].op \in {"join", "leave"} THEN "redis"
                                                                 ELSE "lookup"]
  /\ UNCHANGED <<redisFree, StatusVars>>

\* join / leave: sessions_ updated under the lock, then RedisClient redis
\* waits for a pooled connection with mutex_ still held.
SessionRedis(t) ==
  /\ gw[t].op \in {"join", "leave"}
  /\ gw[t].at = "redis"
  /\ RedisGetConnection("gateway")
  /\ gw' = [gw EXCEPT ![t].at = "hset"]
  /\ UNCHANGED <<owner, StatusVars>>

\* HSet / HDel user_gateway; at the closing brace ~RedisClient returns the
\* connection, then ~lock_guard releases mutex_.
SessionRelease(t) ==
  /\ gw[t].at = "hset"
  /\ redisFree' = RedisReturnConnection("gateway", 1)
  /\ owner' = NoOwner
  /\ gw' = [gw EXCEPT ![t] = Idle]
  /\ UNCHANGED StatusVars

\* send_to_user step 1: a local session gets send_message and the call
\* returns; otherwise the scoped lock ends before the Redis lookup.
SendLookup(t) ==
  /\ gw[t].op = "send"
  /\ gw[t].at = "lookup"
  /\ owner' = NoOwner
  /\ \/ gw' = [gw EXCEPT ![t] = Idle]
     \/ gw' = [gw EXCEPT ![t].at = "redis"]
  /\ UNCHANGED <<redisFree, StatusVars>>

\* send_to_user step 2: RedisClient redis, without mutex_.
SendRemote(t) ==
  /\ gw[t].op = "send"
  /\ gw[t].at = "redis"
  /\ RedisGetConnection("gateway")
  /\ gw' = [gw EXCEPT ![t].at = "publish"]
  /\ UNCHANGED <<owner, StatusVars>>

\* HGet user_gateway; not online returns, otherwise Publish on a fresh
\* connection of its own; either way ~RedisClient returns the pooled one.
SendPublish(t) ==
  /\ gw[t].at = "publish"
  /\ redisFree' = RedisReturnConnection("gateway", 1)
  /\ gw' = [gw EXCEPT ![t] = Idle]
  /\ UNCHANGED <<owner, StatusVars>>

\* send_to_local_user: find the session and send_message under the lock.
LocalDeliver(t) ==
  /\ gw[t].op = "local"
  /\ gw[t].at = "lookup"
  /\ owner' = NoOwner
  /\ gw' = [gw EXCEPT ![t] = Idle]
  /\ UNCHANGED <<redisFree, StatusVars>>

GatewayStep(t) ==
  \/ \E op \in {"join", "leave", "send", "local"} : Invoke(t, op)
  \/ Lock(t) \/ SessionRedis(t) \/ SessionRelease(t)
  \/ SendLookup(t) \/ SendRemote(t) \/ SendPublish(t) \/ LocalDeliver(t)

-----------------------------------------------------------------------------
Init ==
  /\ redisFree = [r \in RedisPools |-> RedisSizeOf(r)]
  /\ dbFree = [p \in DbPools |-> PoolSizeOf(p)]
  /\ pc = [s \in PresenceCalls |-> "idle"]
  /\ rHeld = [s \in PresenceCalls |-> 0]
  /\ fpc = [s \in PresenceCalls |-> "idle"]
  /\ fHeld = [s \in PresenceCalls |-> 0]
  /\ friends = [s \in PresenceCalls |-> FALSE]
  /\ online = [s \in PresenceCalls |-> 0]
  /\ gpc = [s \in PresenceCalls |-> "idle"]
  /\ apc = [a \in AuthCalls |-> "idle"]
  /\ aHeld = [a \in AuthCalls |-> [primary |-> 0, readonly |-> 0]]
  /\ owner = NoOwner
  /\ gw = [t \in GatewayCalls |-> Idle]

Next ==
  \/ \E s \in PresenceCalls :
       \/ PresenceStart(s) \/ PresenceFriends(s) \/ NotifyAcquire(s)
       \/ NotifyRelease(s) \/ PresenceReturn(s)
       \/ FriendListQuery(s) \/ GetStatusAcquire(s) \/ GetStatusReturn(s)
       \/ FriendListReply(s)
  \/ \E a \in AuthCalls :
       RegisterEscape(a) \/ RegisterQuery(a) \/ RegisterExecute(a)
       \/ RegisterReturn(a)
  \/ \E t \in GatewayCalls : GatewayStep(t)

Spec == Init /\ [][Next]_vars

-----------------------------------------------------------------------------
(* Properties.                                                             *)

TypeOK ==
  /\ DOMAIN redisFree = RedisPools
  /\ \A r \in RedisPools : redisFree[r] \in 0..RedisSizeOf(r)
  /\ dbFree \in [DbPools -> 0..MySQLPoolSize]
  /\ pc \in [PresenceCalls -> {"idle", "friends", "notify", "notifying"}]
  /\ rHeld \in [PresenceCalls -> 0..2]
  /\ fpc \in [PresenceCalls -> {"idle", "query", "status", "reply"}]
  /\ fHeld \in [PresenceCalls -> 0..1]
  /\ friends \in [PresenceCalls -> BOOLEAN]
  /\ online \in [PresenceCalls -> 0..MaxOnline]
  /\ gpc \in [PresenceCalls -> {"idle", "acquire", "get"}]
  /\ apc \in [AuthCalls -> {"idle", "query", "execute", "return"}]
  /\ aHeld \in [AuthCalls -> [primary : 0..1, readonly : 0..1]]
  /\ owner \in GatewayCalls \cup {NoOwner}
  /\ gw \in [GatewayCalls -> {Idle} \cup
               [op : {"join", "leave", "send", "local"},
                at : {"mutex", "redis", "hset", "lookup", "publish"}]]

\* Connections checked out of the Presence server's RedisPool and of each
\* MySQLPool queue of the Auth server by live clients.
RedisHeld(r) ==
  IF r = "status"
    THEN SumFunction(rHeld) + Cardinality({s \in PresenceCalls : gpc[s] = "get"})
    ELSE Cardinality({t \in GatewayCalls : gw[t].at \in {"hset", "publish"}})

DbHeld(p) ==
  LET prim == SumFunction(fHeld) + SumFunction([a \in AuthCalls |-> aHeld[a].primary])
      ro   == SumFunction([a \in AuthCalls |-> aHeld[a].readonly])
  IN  (IF p = "primary" THEN prim ELSE 0) + (IF p = ReadPool THEN ro ELSE 0)

\* Resource discipline (spec section 6): every acquisition is paired with
\* a release on all exit paths, so a pool's queue plus the connections
\* its clients hold is always the configured pool size.  This concerns
\* GetConnection's reconnect path and ReturnReadOnlyConnection's
\* single-node branch, and the gateway's RedisClients in join/leave and
\* send_to_user.
PoolsConserved ==
  /\ \A r \in RedisPools : redisFree[r] + RedisHeld(r) = RedisSizeOf(r)
  /\ \A p \in DbPools : dbFree[p] + DbHeld(p) = PoolSizeOf(p)

\* A handler is stuck when it waits on an empty pool or on a callee.  The
\* pools are deadlocked when some handler is busy and every busy one is
\* stuck: nobody can ever give a connection back, and a new call would
\* itself block on the same empty pool before it could return one.
PresenceStuck(s) ==
  \/ pc[s] = "friends" /\ fpc[s] # "idle"
  \/ pc[s] = "notify" /\ online[s] > 0 /\ redisFree["status"] = 0

FriendListStuck(s) ==
  \/ fpc[s] = "query" /\ dbFree["primary"] = 0
  \/ fpc[s] = "status" /\ gpc[s] # "idle"

GetStatusStuck(s) == gpc[s] = "acquire" /\ redisFree["status"] = 0

\* A gateway thread waits for mutex_ while another holds it, or for a
\* connection of the gateway's pool (in join/leave with mutex_ held).
GatewayStuck(t) ==
  \/ gw[t].at = "mutex" /\ owner # NoOwner
  \/ gw[t].at = "redis" /\ redisFree["gateway"] = 0

RegisterStuck(a) ==
  \/ apc[a] = "query" /\ dbFree[ReadPool] = 0
  \/ apc[a] = "execute" /\ aHeld[a].primary = 0 /\ dbFree["primary"] = 0

Busy ==
  \/ \E s \in PresenceCalls : pc[s] # "idle" \/ fpc[s] # "idle" \/ gpc[s] # "idle"
  \/ \E a \in AuthCalls : apc[a] # "idle"
  \/ \E t \in GatewayCalls : gw[t] # Idle

\* No pool deadlock: the Presence Login/Logout handler keeps its
\* RedisClient across GetFriendIds (whose GetFriendList keeps a MySQL
\* connection across GetStatus, which needs a RedisClient) and across
\* NotifyUser's second RedisClient; Register's MySQLClient holds two
\* connections of one pool in single-node mode; the gateway's join/leave
\* wait for a pooled connection with SessionManager::mutex_ held, which
\* every other SessionManager call, the pub/sub consumer's included, needs.
NoPoolDeadlock ==
  ~ /\ Busy
    /\ \A s \in PresenceCalls :
         /\ pc[s] # "idle" => PresenceStuck(s)
         /\ fpc[s] # "idle" => FriendListStuck(s)
         /\ gpc[s] # "idle" => GetStatusStuck(s)
    /\ \A a \in AuthCalls : apc[a] # "idle" => RegisterStuck(a)
    /\ \A t \in GatewayCalls : gw[t] # Idle => GatewayStuck(t)
=============================================================================
