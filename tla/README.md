# TLA+ models of TinyIM

This directory holds TLA+ models of the TinyIM backend (`src/services`). Each model is translated from the C++ source and checked with TLC. `PROJECT.json` records several things:

- which definition models which source lines (`map`);
- every TLC run and what it expects;
- the mutants that show each passing property can fail;
- the disagreements the runs found between the code and `spec.md` (`findings`);
- the hazards of the code and which properties cover them.

## 1. The system

| Part | Source | State | Operations |
|---|---|---|---|
| Gateway sessions | `gateway/websocket_session.hpp` | per connection: `user_id_`, write queue `queue_`, strand, refcount (shared_ptr) | `run` (token check on the pool), `on_accept`, `on_read`/`handle_message`, `send_message`→`on_send`/`do_write`/`on_write`, destructor |
| SessionManager | `gateway/main.cpp`, `session_manager.hpp` | `sessions_`: user → raw `websocket_session*`, under one mutex | `join`, `leave`, `send_to_user`, `send_to_local_user` |
| Routing plane | `gateway/main.cpp`, `common/db/redis_client.hpp` | Redis hash `user_gateway`; topics `gateway_<id>` | HSet/HDel/HGet, `Publish`, one consumer thread per gateway (`RedisPubSubClient::Loop`) |
| Gateway thread pool | `gateway/main.cpp:158` | 4 threads | VerifyToken task, Login task (Presence Login, then notify friends, then drain offline messages), Logout task, SaveMessage task |
| Presence (Status server) | `status/main.cpp` | Redis `user:status:<uid>` | `Login`, `Logout` (SET, GetFriendIds over Auth, NotifyUser), `GetStatus` |
| Chat server | `chat/main.cpp` | MySQL `messages` and `sessions` (`unread_count`, `last_msg_timestamp`) | `SaveMessage` (INSERT + two UpsertSession, no transaction), `GetOfflineMessages`, `GetHistory`, `GetRecentSessions` |
| Auth server | `auth/main.cpp` | MySQL `users`, `friends`, `friend_requests`; Redis `token:<t>` | Login, Register, VerifyToken, AddFriend, HandleFriendRequest, DeleteFriend, GetFriendList (calls Presence GetStatus), GetPendingFriendRequests |
| Connection pools | `common/db/redis_client.hpp`, `mysql_client.hpp` | queues of connections, mutex + condition variable | `GetConnection` (blocks while the queue is empty; MySQL pings and reconnects), `ReturnConnection`; RedisClient/MySQLClient are RAII holders |
| HTTP REST, config, logger, password, tests | `gateway/http_session.hpp`, `common/...`, `tests/` | — | request/response wrappers, no shared concurrent state |

How the parts interact:

- **A session joins.**
  - The gateway posts VerifyToken to its thread pool, then accepts the WebSocket.
  - `join` writes `sessions_` and `user_gateway`.
  - The gateway posts a Login task. That task calls Presence Login, which sets the user's status and publishes STATUS_UPDATE to online friends through their gateways' topics.
  - The task then sends STATUS_UPDATE to the same friends itself.
  - Finally it drains GetOfflineMessages into the session through `send_to_user`.
- **A CHAT_SEND arrives.**
  - The handler posts a SaveMessage task.
  - When the save returns, the task dispatches the ACK to the sender and `send_to_user(to, CHAT_PUSH)`.
  - `send_to_user` uses the local session if there is one. Otherwise it publishes to the gateway that `user_gateway` names.
- **A session is destroyed.** The destructor calls `leave` and posts a Logout task.
- **Nested blocking calls.** Presence Login/Logout hold a Redis connection while they call Auth GetFriendList. GetFriendList holds a MySQL connection while it calls Presence GetStatus. gRPC calls have no deadlines.

Behaviours that make it hard to test:

- **Pool tasks in any order.** The pool tasks of one session or one user run on four threads in any order: Login against Logout, and save against save.
- **Raw pointers in `sessions_`.** The registry holds raw pointers, and a session's refcount can reach zero before its destructor has unregistered it.
- **Redis pub/sub is lossy.** The consumer loses what is published while it reconnects.
- **No transactions in the Chat server.** Its statements interleave across concurrent RPCs, and `created_at` keeps only whole seconds.
- **Pools held across RPCs.** Pools block forever when empty, connections are held across RPCs and nested acquisitions, and a failed reconnect loses a connection.

## 2. Modules

| Module | Models | Checked by |
|---|---|---|
| `GatewaySessions` | sessions of several gateways, SessionManager, `user_gateway`, `user:status`, Login/Logout tasks, pub/sub topics | `MCGatewaySessions` |
| `ChatSend` | one connection's CHAT_SEND and HEARTBEAT_PING paths: read, pool save, completion on the strand, PONG, write queue of sender and recipient | `MCChatSend` |
| `ChatStore` | Chat server SaveMessage statement by statement and GetOfflineMessages over the two tables | `MCChatStore` |
| `ServicePools` | Redis pool of the Status server, MySQL pools of the Auth server, the gateway's Redis pool and `SessionManager::mutex_`; Presence Login/Logout, Auth GetFriendList, Presence GetStatus, Auth Register, SessionManager join/leave/send_to_user/send_to_local_user | `MCServicePools` |
| `AuthFriends` | Auth server AddFriend, HandleFriendRequest and DeleteFriend statement by statement over `friends` and `friend_requests`; Login, token expiry and VerifyToken over the Redis `token:<t>` keys, through which the REST friend endpoints resolve the acting user | `MCAuthFriends` |
| `UserDirectory` | abstract specification of the routing plane: where each user has a registered session, and the `user_gateway` hint | instantiated by `GatewaySessions` (`DirectoryRefinement`) |

### GatewaySessions

- **State.** A connection slot `c` moves through `stage` idle → accepting → open → dying → idle.
  - `dying` is the window after the last `shared_ptr` is gone and before the destructor runs.
  - `user[c]` is `user_id_`, with `None` for 0. `gw[c]` is the gateway that accepted the connection.
  - `reg[g][u]` is `sessions_` of gateway `g`.
  - `dir` is `user_gateway`, and `status` is `user:status`.
  - `ltask`/`otask` are the Login and Logout tasks, with their progress: `rpc` → `notify` (loop over the friends) → `drain`.
  - `channel[g]` holds the targets of messages published on `gateway_<g>` and not yet consumed.
  - `badWeak` records that `send_message` ran on a dying session.
- **Actions.** `Connect` (run + VerifyToken), `AcceptFail` (failed handshake or invalid token), `Accept` (on_accept: `Join`, post Login), `Drop` (read failure), `Destroy` (destructor: `Leave`, post Logout), `LoginRpc`, `LoginNotify`, `LoginDrain`, `LogoutRpc`, `LogoutNotify`, `Receive` (consumer callback), `LoseMessage` (reconnect loss), `Restart` (the process of a gateway is lost and `main()` starts again, `gateway/main.cpp` 137-164).
- **Crash and restart.** `Restart(g)` clears every connection, the `sessions_` map, the queued pool tasks and the unconsumed topic messages of `g`; Redis (`user_gateway`, `user:status`) survives. At most `MaxCrashes` restarts happen. A crash leaves the `user_gateway` entries naming `g` behind; the abstract `Lose` step of `UserDirectory` admits them.
- **Refinement.** `Directory == INSTANCE UserDirectory` maps `where[u]` to the gateways whose `sessions_` hold `u` and `route` to `dir`. `join` refines `Register`, `leave` refines `Unregister` (the HDel always clears the entry; the abstract step also allows keeping an entry that names another gateway, which the code never does), `Restart` refines `Lose`, and every other step is a stutter.
- **Abstractions.**
  - The Presence RPC is one step (`StatusRpc`): SET, read friends, and NotifyUser to each online friend. Its internal interleaving is the subject of `ServicePools`.
  - Frames are abstracted to their target user.

### ChatSend

- **State.**
  - `pool[r]` is the progress of the save task of request `r`. `SaveRpc` returns the save and `DispatchResult` dispatches it to the strand; these are two steps, so completions can be reordered.
  - `strand[s]` is the handler queue of session `s`.
  - `wq[s]` is `queue_`, and `writing[s]` is the frame with an `async_write` in flight.
  - `out[s]` is what the client has received, and `sent[s]` is what `send_message` was called with.
- **Actions.** `ReadChatSend`, `ReadPing` (handle_message answers a HEARTBEAT_PING with send_message(PONG) from the read handler, with no pool task), `SaveRpc`, `DispatchResult`, `StrandRun` (runs `Complete` or `OnSend`), `WriteDone` (`on_write`).

### ChatStore

- **State.**
  - `msgs` is the `messages` table, with `sec` = `FROM_UNIXTIME(ts/1000)`, modelled as `ts \div TicksPerSec`.
  - `rows` is the `sessions` table.
  - `call[c]` is a SaveMessage handler at its statement (`insert`, `upSender`, `upReceiver`).
  - `drain` is a GetOfflineMessages in progress: the unread counts it read, the peers still to fetch, and the rows collected.
- **Actions.** `Tick`, `Call`, `Insert`, `UpsertSender`, `UpsertReceiver`, `DrainStart`, `DrainFetch`, `DrainReply`.
- **Ties.** `Latest` lets rows of equal `created_at` come in any order, as MySQL does.

### AuthFriends

- **State.** `friends` is the `friends` table as a set of (user_id, friend_id) rows; `requests` is `friend_requests` (id, sender, receiver, status 0/1/2), `nextReq` its AUTO_INCREMENT. `call[c]` is an Auth RPC handler running in slot `c` with its program counter. The history variables `asked` and `consent` record the inputs of every AddFriend and of every accepting HandleFriendRequest; they are not read by any action. `tokens[t]` is the Redis key `token:<t>` (a user id or `None`) and `issued` the tokens GenerateToken has produced.
- **Actions.** One per statement, in code order: `AddFriend` (self check + users SELECT), `AddCheckFriend`, `AddCheckPending`, `AddInsert`; `HandleFriendRequest` (pending SELECT), `HandleUpdate`, `HandleInsert1`, `HandleInsert2`; `DeleteFriend`, `DeleteF2`, `DeleteReq1`, `DeleteReq2`. `Login(u, right)` is one step: the Strong SELECT of the users row, the password check, a fresh token and SETEX; Login writes only the token store, which nothing else in the same call touches, so one step loses no interleaving. `Expire(t)` is the TTL running out; it may happen at any time and is never forced.
- **REST entry.** `FriendStep` starts AddFriend and HandleFriendRequest only as the user `AuthVerify(t)` resolves from some token `t` (AuthClient::VerifyToken over the server's GET). An invalid token or a failed RPC is a 401 that changes nothing. DeleteFriend has no REST endpoint; it is started for any user, as AuthClient callers do.
- **Failures.** With `DbMayFail`, `Query` may return no rows and `Execute` may return false, as `MySQLClient` does on a failed `mysql_query`.

### ServicePools

- **State.**
  - `redisFree` and `dbFree` are the pool queue sizes.
  - Per Presence call slot `s`: `pc` (the Login/Logout handler), `fpc` (the Auth GetFriendList serving its GetFriendIds), `gpc` (the Presence GetStatus that GetFriendList calls), and the connections they hold.
  - Per Auth call slot `a`: `apc`/`aHeld` for Register.
  - `redisFree` is indexed by server: `"status"` (the Presence server's `RedisPool`) and `"gateway"` (the gateway's own).
  - `owner` is the gateway thread holding `SessionManager::mutex_` (or `NoOwner`); `gw[t]` is the SessionManager call of gateway thread `t` and where it is in it: waiting for the mutex, waiting in the `RedisClient` constructor, holding the connection, or in the locked `sessions_` lookup.
- **Actions.** One action per blocking acquisition or release, in code order. Every Redis acquisition and release goes through `RedisGetConnection(r)` / `RedisReturnConnection(r, n)`, which translate `RedisPool::GetConnection` (wait while `pool_` is empty, pop, no ping) and `ReturnConnection`.
- **Gateway SessionManager.** `Invoke` enters one of the four calls; `Lock` is the `lock_guard` on `mutex_`. `join`/`leave` then wait for a gateway Redis connection with the mutex held (`SessionRedis`) and give back the connection and then the mutex at the closing brace (`SessionRelease`). `send_to_user` looks up `sessions_` under the lock (`SendLookup`) and, for a user not local, takes a connection after unlocking (`SendRemote`) and gives it back after HGet/Publish (`SendPublish`; Publish opens a connection of its own). `send_to_local_user`, the pub/sub consumer's callback, only takes the mutex (`LocalDeliver`). The `sessions_` contents are `GatewaySessions`' subject and are abstracted here.
- **Reconnect loss.** `GetConnection` may yield no connection (`DbMayDrop`) while still popping one.
- **Single-node mode.** `SingleNode` sends read-only acquisitions and releases to the primary pool.

## 3. Runs

| Run | Expect | Shows |
|---|---|---|
| `gateway_core` | pass | `sessions_` never holds a destroyed session (`RegistryHoldsLiveSessions`), and the gateways implement the abstract `UserDirectory` (`DirectoryRefinement`). This holds across two gateways, reused slots, failing Status RPCs, lost messages and one gateway crash and restart. |
| `gateway_directory_sound` | violation | `DirectorySound` fails: a session whose handshake failed after a valid token still calls `leave`, which HDels the entry of the user's live session on another gateway. |
| `gateway_presence` | violation | `PresenceMatchesSessions` fails with one connection slot: a session is accepted, dropped and destroyed, and its Logout task runs before its Login task, leaving status 1 with no session (10 states). |
| `gateway_bad_weak_ptr` | violation | `NoSendToDyingSession` fails: the Login task's drain reaches a session whose refcount is 0. |
| `chat_send_fifo` | pass | Each client receives frames in `send_message` order (`FramesInSendOrder`), and every CHAT_SEND is answered by its ACK or error frame and every PING by its PONG (`EveryRequestAnswered`). |
| `chat_store_unread` | pass | `unread_count` never exceeds the messages received (`UnreadBoundedByIncoming`), even with failing statements. |
| `chat_store_drain` | violation | `DrainOnlyAddressedToUser` fails: the drain returns the user's own reply from the same second. |
| `chat_store_rows` | violation | `SaveLeavesRowsCoherent` fails: an interleaved older save overwrites `last_msg_timestamp`. |
| `pools_ok` | pass | Connections of all four pools are conserved (`PoolsConserved`), and with fewer concurrent Presence calls than Redis connections nothing deadlocks (`NoPoolDeadlock`), including two gateway threads that contend for `SessionManager::mutex_` and a one-connection gateway pool, which join/leave wait on with the mutex held. |
| `pools_presence_deadlock` | violation | Two Login/Logout calls deadlock a pool of 2 Redis connections through GetFriendList → GetStatus. |
| `auth_friends_ok` | pass | With three AddFriend, HandleFriendRequest and DeleteFriend calls interleaving, logins with right and wrong passwords, expiring tokens, and any statement, Redis command or RPC failing: request ids stay unique; every friends row links two users of whom one asked and the other accepted (`ConsentedFriendship`, over the history variables `asked` and `consent`). The friend endpoints enter as the callers their token resolves to. |
| `auth_friends_symmetric` | violation | `FriendsSymmetric` fails: a DeleteFriend runs between the two INSERTs of an accepting HandleFriendRequest, so only one direction of the friendship remains. |

Each violation is explained in `findings`.

Each property of a passing run has a mutant in `PROJECT.json`: a plausible bug in the mapped definition under which TLC finds that property violated. Examples are the destructor keeping the `sessions_` entry, `on_send` starting a second write, and the read-only connection returned to the wrong pool in single-node mode. The type invariants have mutants too: `on_accept` without the `user_id_ == 0` check, a SaveMessage retried after it returned, an INSERT that reuses an id (ChatStore's TypeOK requires every id to be below `nextId`), and a copied `RedisClient` whose destructor returns its connection a second time.

The model also reaches, without a run of its own:

- **Displaced session:** `join` leaves the displaced session open.
- **Push order:** pushes reach the recipient out of msg_id order.
- **Register deadlock:** with `PresenceCalls = {}`, two Register calls on a pool of two deadlock in single-node mode.
- **ACK order:** checking `AcksInRequestOrder` on `MCChatSend` with `SaveMayFail = FALSE` and `NumPings = 0` finds it violated: each CHAT_SEND posts its own save task, a later save completes first, and the ACKs reach the sender out of request order, while spec O2 promises send order. This was a run of its own until the run budget went to `auth_friends_ok`.
- **Lost MySQL connection:** with `DbMayDrop = TRUE` in `MCServicePools.cfg`, `PoolsConserved` fails: a failed reconnect in `GetConnection` pops a connection and returns none, so it is lost for good. An earlier run checked this; it was retired to make room for `auth_friends_symmetric`, and the hazard in `PROJECT.json` records it.
- **Gateway pool empty at startup:** `RedisPool::Init` pushes only the connections `CreateConnection` made. With `GwPoolSize = 0` in `MCServicePools.cfg` (Redis down when the gateway started), `NoPoolDeadlock` fails in three steps: a `join` takes `mutex_`, waits forever in the `RedisClient` constructor, and every other SessionManager call, the pub/sub consumer's included, waits for the mutex. With at least one connection the gateway part cannot deadlock: a thread holding a gateway connection never needs the mutex.
- **Failed UpsertSession acknowledged:** with `DbMayFail = TRUE` and one call in `MCChatStore_SaveLeavesRowsCoherent.cfg`, `SaveLeavesRowsCoherent` fails in four steps: UpsertReceiver fails, its result is ignored and SaveMessage replies success.
- **Auth friend graph, beyond the run:** two concurrent AddFriend calls both pass the pending check and insert two pending requests; an accept and a reject of the same request overwrite each other's status; accepting one direction leaves the reciprocal pending request in place; and the checks of AddFriend read the replica, where spec §4.4 asks for a Strong read.

### Bounds

- **GatewaySessions:** 2 users (friends), 2 gateways, 2 connection slots that are reused. This covers:
  - two sessions of one user on one gateway or on two;
  - a session dying while the other is live;
  - a slot's Logout task racing the next session's Login task.
  
  One crash and restart (`MaxCrashes = 1`) in the pass run; the violation runs use none, so their traces stay short, and `gateway_presence` has a single slot so that its trace is the one short session of its finding. Three slots did not finish in reasonable time. Symmetry: the product of the permutations of slots, of gateways and of users; no property names any of them, and the two users are each other's friends, so swapping them changes nothing.
- **AuthFriends:** 2 users and one unknown id. Both runs have 3 call slots, so an AddFriend, its accept and a DeleteFriend can all be in flight together, and 2 tokens, one successful login per user. The pass run lets every statement, Redis command and RPC fail. The violation run has no failures, to show that no failure is needed. Four slots with the token store took over six minutes. Each slot serves one call, so the run stops when every slot is done (`CHECK_DEADLOCK FALSE`). Symmetry: permutations of slots, of users and of tokens.
- **ChatSend:** 3 CHAT_SENDs and 1 HEARTBEAT_PING. That is enough for one completion to overtake another, for a failure between two successes, and for the PONG to be queued between ACKs. Two PINGs took six minutes.
- **ChatStore:** 2 users and 3 SaveMessage calls, a clock of 0..3 ticks, 2 ticks per second. This gives two messages in one second, a reply, and a drain racing a save.
- **ServicePools:**
  - The pass run has 2 Presence calls against 3 Redis connections, 1 Register call against 2 MySQL connections in single-node mode, and up to 2 online friends.
  - It also has 2 gateway threads against a gateway pool of 1 connection. Then one thread can hold the mutex while it waits on the pool, and the other can hold the connection. A larger pool only waits less.
  - The deadlock runs put as many calls on a pool as it has connections. The real default `pool_size` is 5: five concurrent Login/Logout calls over two gateways (each has 4 pool threads) are enough.

### Fairness

- **Safety runs:** no fairness is needed.
- **`chat_send_fifo`:** it assumes weak fairness of `SaveRpc`, `DispatchResult`, `StrandRun` and `WriteDone`. This is justified because:
  - the four pool threads run every posted task;
  - the io_context runs every handler posted to a strand;
  - a connected client keeps reading, so a write completes.
- **Deadlock property:** it is stated as a safety property. The check is for a state in which every busy handler waits on an empty pool or on a callee; from such a state no connection can be returned. Condition-variable wakeup fairness therefore plays no part.

## 4. Not modelled, and the plan

Not modelled, and why:

- **HTTP REST session:** only its friend endpoints and `/api/login` are modelled, as the callers of `AuthFriends`; the rest are request/response wrappers with no shared state.
- **Config, logger, password hashing:** nothing concurrent.
- **GetHistory, GetRecentSessions, GetStatus, GetFriendList, GetPendingFriendRequests:** single read-only queries, with nothing to interleave, so they are not actions. The Chat server and Presence are therefore fully modelled in their state-changing operations.
- **Write errors and the websocket idle timeout:** `on_write` returns on an error without erasing the queue head, so later frames pile up until the session is destroyed (a hazard in `PROJECT.json`). ChatSend assumes the client keeps reading, and the timeout is a Beast library setting.
- **Register's insert into `users`:** the models take the accounts as registered before the calls start. Register checks the username on the replica and then inserts on the primary without a transaction. Whether two concurrent registrations of one name both succeed depends on a unique key, and the repository has no schema to say whether there is one.
- **Sentinel discovery and connection creation:** configuration and hiredis/libmysql I/O. The connections `Init` made enter as the pool-size constants.
- **Liveness of the pools:** "every call eventually returns" would need strong fairness on `Lock` and on the pool acquisitions. `std::mutex` and `condition_variable::notify_one` do not promise it, so no liveness property is checked for `ServicePools`.
- **Tests:** test clients, not part of the system.

Planned, in this order:

1. **Stale presence after a crash.** `Restart` leaves `user:status = 1` for users whose sessions it lost; a property relating status to sessions and to crashes.
2. **Gateway thread-pool capacity.** Four threads blocked on deadline-less RPCs stall Login, Logout and CHAT_SEND.
3. **Offline drain across reconnects.** The unread count is never reset and there is no AckMessages handler (spec §4.3), so the same messages are redelivered.
4. **Duplicate STATUS_UPDATE** from Presence NotifyUser plus the gateway's own loop.
