---------------------------- MODULE AuthFriends ----------------------------
(***************************************************************************)
(* The friend graph of the Auth server (auth/main.cpp): AddFriend,         *)
(* HandleFriendRequest and DeleteFriend over the friends and               *)
(* friend_requests tables, reached from the gateway's REST handlers        *)
(* (http_session.hpp) through AuthClient.  Each RPC runs on its own gRPC   *)
(* thread with its own MySQLClient and issues its statements one by one,   *)
(* without a transaction, so the statements of concurrent calls            *)
(* interleave.  A failed SELECT comes back as no rows and a failed         *)
(* statement as Execute() = false.  The repository holds no schema; the   *)
(* friends table is a set of (user_id, friend_id) rows, so a repeated      *)
(* INSERT adds nothing, whether a key rejects it or the row is doubled.    *)
(* The REST handlers act as the user VerifyToken resolves from the token  *)
(* the client presents; Login stores the tokens in Redis (token:<t>, TTL  *)
(* 24 h).  Users are the accounts registered before the calls start.      *)
(***************************************************************************)
EXTENDS Naturals, FiniteSets

CONSTANTS
  Users,       \* registered user ids
  Unknown,     \* a friend_id with no users row
  Calls,       \* RPC handler slots, each used for one call
  Tokens,      \* the tokens GenerateToken can produce; one per successful Login
  DbMayFail,   \* whether a MySQL statement, a Redis command or an RPC may fail
  None

ASSUME Unknown \notin Users /\ DbMayFail \in BOOLEAN

VARIABLES
  friends,     \* the friends table: (user_id, friend_id) rows
  requests,    \* the friend_requests table
  nextReq,     \* AUTO_INCREMENT of friend_requests
  call,        \* the handler running in each slot
  asked,       \* history: (u, p) of every AddFriend called
  consent,     \* history: (u, s) of every HandleFriendRequest called with accept
  tokens,      \* Redis token:<t> -> user id, or None when absent
  issued       \* tokens GenerateToken has produced

hist == <<asked, consent>>
tok  == <<tokens, issued>>
vars == <<friends, requests, nextReq, call, hist, tok>>

Request == [id : Nat, sender : Users, receiver : Users, status : {0, 1, 2}]
Pc      == {"idle", "checkFriend", "checkPending", "insert", "update",
            "insert1", "insert2", "del2", "delReq1", "delReq2", "done"}

\* MySQLClient::Query: the rows, or no rows when mysql_query fails.
QueryRows(rows) == IF DbMayFail THEN {rows, {}} ELSE {rows}

\* MySQLClient::Execute: whether the statement took effect.
ExecuteOk == IF DbMayFail THEN BOOLEAN ELSE {TRUE}

\* friend_requests rows WHERE sender_id = s AND receiver_id = r AND status = 0.
Pending(s, r) == {q \in requests : q.sender = s /\ q.receiver = r /\ q.status = 0}

\* RedisClient::SetEx: whether the key was written.
SetExOk == IF DbMayFail THEN BOOLEAN ELSE {TRUE}

\* RedisClient::Get: the value, or nothing when the command fails.
TokenGet(t) == IF DbMayFail THEN {tokens[t], None} ELSE {tokens[t]}

Goto(c, pc) == call' = [call EXCEPT ![c].pc = pc]

Start(c, op, u, p, acc, pc) ==
  call' = [call EXCEPT ![c] = [op |-> op, u |-> u, p |-> p, accept |-> acc,
                                rid |-> 0, pc |-> pc]]

-----------------------------------------------------------------------------
(* AddFriend(user_id = u, friend_id = p), called by POST /api/friend/add   *)
(* with the user id VerifyToken resolved.                                  *)

\* "Cannot add yourself", then the Strong SELECT of the users row of p.
AddFriend(c, u, p) ==
  /\ call[c].pc = "idle"
  /\ \E rows \in QueryRows(IF p \in Users THEN {p} ELSE {}) :
       Start(c, "add", u, p, FALSE,
             IF u = p \/ rows = {} THEN "done" ELSE "checkFriend")
  /\ asked' = asked \cup {<<u, p>>}
  /\ UNCHANGED <<friends, requests, nextReq, consent>>

\* "Already friends": SELECT on friends WHERE user_id = u AND friend_id = p.
AddCheckFriend(c) ==
  LET k == call[c] IN
  /\ k.pc = "checkFriend"
  /\ \E rows \in QueryRows({<<k.u, k.p>>} \cap friends) :
       Goto(c, IF rows = {} THEN "checkPending" ELSE "done")
  /\ UNCHANGED <<friends, requests, nextReq, hist>>

\* "Request already pending": SELECT on friend_requests, status = 0.
AddCheckPending(c) ==
  LET k == call[c] IN
  /\ k.pc = "checkPending"
  /\ \E rows \in QueryRows(Pending(k.u, k.p)) :
       Goto(c, IF rows = {} THEN "insert" ELSE "done")
  /\ UNCHANGED <<friends, requests, nextReq, hist>>

\* A mutant: the new row takes the id of the previous one.
AddInsertSameId(c) ==
  LET k == call[c] IN
  /\ k.pc = "insert"
  /\ \E ok \in ExecuteOk :
       IF ok THEN /\ requests' = requests \cup
                       {[id |-> nextReq, sender |-> k.u, receiver |-> k.p, status |-> 0]}
                  /\ UNCHANGED nextReq
             ELSE UNCHANGED <<requests, nextReq>>
  /\ Goto(c, "done")
  /\ UNCHANGED <<friends, hist>>

\* INSERT INTO friend_requests (u, p, 0).
AddInsert(c) ==
  LET k == call[c] IN
  /\ k.pc = "insert"
  /\ \E ok \in ExecuteOk :
       IF ok THEN /\ requests' = requests \cup
                       {[id |-> nextReq, sender |-> k.u, receiver |-> k.p, status |-> 0]}
                  /\ nextReq' = nextReq + 1
             ELSE UNCHANGED <<requests, nextReq>>
  /\ Goto(c, "done")
  /\ UNCHANGED <<friends, hist>>

-----------------------------------------------------------------------------
(* HandleFriendRequest(user_id = u, request_id = s, accept), called by     *)
(* POST /api/friend/request/handle; request_id carries the sender's id.    *)

\* A mutant: the pending row looked up with sender and receiver swapped.
HandleFriendRequestSwapped(c, u, s, acc) ==
  /\ call[c].pc = "idle"
  /\ \E rows \in QueryRows(Pending(u, s)) :
       \/ rows = {} /\ Start(c, "handle", u, s, acc, "done")
       \/ \E q \in rows :
            call' = [call EXCEPT ![c] = [op |-> "handle", u |-> u, p |-> s,
                                          accept |-> acc, rid |-> q.id, pc |-> "update"]]
  /\ consent' = IF acc THEN consent \cup {<<u, s>>} ELSE consent
  /\ UNCHANGED <<friends, requests, nextReq, asked>>

\* The Strong SELECT id of a pending request s -> u; result[0] is any row.
HandleFriendRequest(c, u, s, acc) ==
  /\ call[c].pc = "idle"
  /\ \E rows \in QueryRows(Pending(s, u)) :
       \/ rows = {} /\ Start(c, "handle", u, s, acc, "done")
       \/ \E q \in rows :
            call' = [call EXCEPT ![c] = [op |-> "handle", u |-> u, p |-> s,
                                          accept |-> acc, rid |-> q.id, pc |-> "update"]]
  /\ consent' = IF acc THEN consent \cup {<<u, s>>} ELSE consent
  /\ UNCHANGED <<friends, requests, nextReq, asked>>

\* UPDATE friend_requests SET status = 1 or 2 WHERE id = rid; the result
\* of Execute is not looked at.
HandleUpdate(c) ==
  LET k == call[c] IN
  /\ k.pc = "update"
  /\ \E ok \in ExecuteOk :
       requests' = IF ok THEN {IF q.id = k.rid
                               THEN [q EXCEPT !.status = IF k.accept THEN 1 ELSE 2]
                               ELSE q : q \in requests}
                   ELSE requests
  /\ Goto(c, IF k.accept THEN "insert1" ELSE "done")
  /\ UNCHANGED <<friends, nextReq, hist>>

\* INSERT INTO friends (u, s); the result is not looked at.
HandleInsert1(c) ==
  LET k == call[c] IN
  /\ k.pc = "insert1"
  /\ \E ok \in ExecuteOk :
       friends' = IF ok THEN friends \cup {<<k.u, k.p>>} ELSE friends
  /\ Goto(c, "insert2")
  /\ UNCHANGED <<requests, nextReq, hist>>

\* INSERT INTO friends (s, u); the reply is success whatever happened.
HandleInsert2(c) ==
  LET k == call[c] IN
  /\ k.pc = "insert2"
  /\ \E ok \in ExecuteOk :
       friends' = IF ok THEN friends \cup {<<k.p, k.u>>} ELSE friends
  /\ Goto(c, "done")
  /\ UNCHANGED <<requests, nextReq, hist>>

-----------------------------------------------------------------------------
(* DeleteFriend(user_id = u, friend_id = f), called through                *)
(* AuthClient::DeleteFriend.                                               *)

\* DELETE FROM friends (u, f); on failure the && stops and the reply is an
\* error.
DeleteFriend(c, u, f) ==
  /\ call[c].pc = "idle"
  /\ \E ok \in ExecuteOk :
       /\ friends' = IF ok THEN friends \ {<<u, f>>} ELSE friends
       /\ Start(c, "delete", u, f, FALSE, IF ok THEN "del2" ELSE "done")
  /\ UNCHANGED <<requests, nextReq, hist>>

\* DELETE FROM friends (f, u).
DeleteF2(c) ==
  LET k == call[c] IN
  /\ k.pc = "del2"
  /\ \E ok \in ExecuteOk :
       /\ friends' = IF ok THEN friends \ {<<k.p, k.u>>} ELSE friends
       /\ Goto(c, IF ok THEN "delReq1" ELSE "done")
  /\ UNCHANGED <<requests, nextReq, hist>>

\* DELETE FROM friend_requests of one direction, any status; a failure is
\* ignored.
DeleteReqs(c, pc, next, s, r) ==
  /\ call[c].pc = pc
  /\ \E ok \in ExecuteOk :
       requests' = IF ok THEN {q \in requests : ~(q.sender = s /\ q.receiver = r)}
                   ELSE requests
  /\ Goto(c, next)
  /\ UNCHANGED <<friends, nextReq, hist>>

DeleteReq1(c) == DeleteReqs(c, "delReq1", "delReq2", call[c].u, call[c].p)
DeleteReq2(c) == DeleteReqs(c, "delReq2", "done", call[c].p, call[c].u)

-----------------------------------------------------------------------------
(* The token store: Login, its expiry, and VerifyToken as the REST         *)
(* handlers call it.                                                       *)

\* Login(username of u, a password that is right or not): the Strong
\* SELECT of the users row, Password::Verify, GenerateToken and SETEX
\* token:<t> u.  No row, a wrong password or a failed SETEX is a failure
\* reply.  Tokens bounds the successful logins.
Login(u, right) ==
  /\ \E rows \in QueryRows(IF u \in Users THEN {u} ELSE {}) :
       \/ (rows = {} \/ ~right) /\ UNCHANGED <<tokens, issued>>
       \/ /\ rows # {} /\ right
          /\ \E t \in Tokens \ issued, ok \in SetExOk :
               /\ issued' = issued \cup {t}
               /\ tokens' = IF ok THEN [tokens EXCEPT ![t] = u] ELSE tokens

\* The 24 h TTL of token:<t> runs out; Redis deletes the key.
Expire(t) ==
  /\ tokens[t] # None
  /\ tokens' = [tokens EXCEPT ![t] = None]
  /\ UNCHANGED issued

\* AuthServiceImpl::VerifyToken: valid, with the stored id, iff GET found it.
VerifyToken(t) == TokenGet(t)

\* AuthClient::VerifyToken: the user id, or None (invalid token or failed
\* RPC), on which the REST handler answers 401 and changes nothing.
AuthVerify(t) == VerifyToken(t) \cup (IF DbMayFail THEN {None} ELSE {})

-----------------------------------------------------------------------------
Init ==
  /\ friends = {}
  /\ requests = {}
  /\ nextReq = 1
  /\ call = [c \in Calls |-> [op |-> "none", u |-> None, p |-> None,
                              accept |-> FALSE, rid |-> 0, pc |-> "idle"]]
  /\ asked = {}
  /\ consent = {}
  /\ tokens = [t \in Tokens |-> None]
  /\ issued = {}

\* The friend endpoints act as the user the presented token resolves to;
\* DeleteFriend has no endpoint and is called through AuthClient directly.
FriendStep(c) ==
  \/ \E t \in Tokens, p \in Users \cup {Unknown} :
       \E u \in AuthVerify(t) \ {None} : AddFriend(c, u, p)
  \/ AddCheckFriend(c) \/ AddCheckPending(c) \/ AddInsert(c)
  \/ \E t \in Tokens, s \in Users, acc \in BOOLEAN :
       \E u \in AuthVerify(t) \ {None} : HandleFriendRequest(c, u, s, acc)
  \/ HandleUpdate(c) \/ HandleInsert1(c) \/ HandleInsert2(c)
  \/ \E u, f \in Users : DeleteFriend(c, u, f)
  \/ DeleteF2(c) \/ DeleteReq1(c) \/ DeleteReq2(c)

TokenStep ==
  \/ \E u \in Users \cup {Unknown}, right \in BOOLEAN : Login(u, right)
  \/ \E t \in Tokens : Expire(t)

Next ==
  \/ \E c \in Calls : FriendStep(c) /\ UNCHANGED tok
  \/ TokenStep /\ UNCHANGED <<friends, requests, nextReq, call, hist>>

Spec == Init /\ [][Next]_vars

-----------------------------------------------------------------------------
(* Properties.                                                             *)

TypeOK ==
  /\ friends \subseteq Users \X Users
  /\ requests \subseteq Request
  /\ nextReq \in 1..(Cardinality(Calls) + 1)
  /\ \A c \in Calls : call[c].pc \in Pc
  /\ \A q \in requests : q.id < nextReq
  /\ \A q, r \in requests : q.id = r.id => q = r
  /\ asked \subseteq Users \X (Users \cup {Unknown})
  /\ consent \subseteq Users \X Users
  /\ tokens \in [Tokens -> Users \cup {None}]
  /\ \A t \in Tokens : tokens[t] # None => t \in issued

Quiescent == \A c \in Calls : call[c].pc \in {"idle", "done"}

\* Spec scenario 6 and "transactional within Auth": once no Auth call is in
\* flight, friendship is symmetric; HandleFriendRequest's two INSERTs and
\* DeleteFriend's two DELETEs never leave only one direction.
FriendsSymmetric ==
  Quiescent => \A a, b \in Users : <<a, b>> \in friends <=> <<b, a>> \in friends

\* a asked to befriend b (AddFriend), and b accepted a's request
\* (HandleFriendRequest with accept).
Consented(a, b) == <<a, b>> \in asked /\ <<b, a>> \in consent

\* Spec section 4.4: friendship is made by a request and its acceptance.
\* Whatever AddFriend, HandleFriendRequest and DeleteFriend calls
\* interleave and whichever statements fail, a friends row links two users
\* only if one asked the other and the other accepted; HandleFriendRequest
\* finds the pending row by (sender = request_id, receiver = caller), so a
\* user cannot accept a request of its own.
ConsentedFriendship ==
  \A pair \in friends : Consented(pair[1], pair[2]) \/ Consented(pair[2], pair[1])
=============================================================================
