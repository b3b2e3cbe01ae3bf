----------------------------- MODULE ChatStore -----------------------------
(***************************************************************************)
(* The Chat server's persistence (chat/main.cpp) over the messages and    *)
(* sessions tables.  Each RPC runs on its own gRPC thread with its own    *)
(* pooled MySQL connection and no transaction, so the statements of       *)
(* concurrent SaveMessage and GetOfflineMessages calls interleave.        *)
(* A message row is abstracted to its id, sender, recipient and           *)
(* created_at; content is left out.  Timestamps are in ticks (the         *)
(* gateway's milliseconds) and created_at = FROM_UNIXTIME(ts / 1000)      *)
(* keeps only whole seconds: TicksPerSec ticks per second.                *)
(***************************************************************************)
EXTENDS Naturals, FiniteSets

CONSTANTS
  Users,        \* user ids
  Calls,        \* SaveMessage calls (handler slots), each used once
  MaxTick,      \* the gateway clock runs over 0..MaxTick
  TicksPerSec,  \* ticks per created_at second
  DbMayFail,    \* whether a statement may fail (mysql_query returns non-zero)
  None

ASSUME Cardinality(Users) >= 2
ASSUME MaxTick \in Nat /\ TicksPerSec \in Nat \ {0}
ASSUME DbMayFail \in BOOLEAN

VARIABLES
  now,      \* gateway clock when a CHAT_SEND is stamped
  nextId,   \* AUTO_INCREMENT of messages
  msgs,     \* the messages table
  rows,     \* the sessions table, (owner, peer) -> row
  call,     \* the SaveMessage handler of each call
  drain     \* the GetOfflineMessages handler in progress, or None

vars == <<now, nextId, msgs, rows, call, drain>>

Ticks  == 0..MaxTick
Msg    == [id : Nat, from : Users, to : Users, sec : Nat]
Row    == [unread : Nat, ts : Ticks]
NoRow  == [unread |-> 0, ts |-> 0]
Pairs  == {p \in Users \X Users : p[1] # p[2]}
CallPc == {"idle", "insert", "upSender", "upReceiver", "returned", "failed"}

\* FROM_UNIXTIME(timestamp / 1000): integer division drops the ticks.
CreatedAt(ts) == ts \div TicksPerSec

\* The rows of one conversation, both directions.
Conversation(u, p) == {m \in msgs : {m.from, m.to} = {u, p}}

\* "ORDER BY created_at DESC LIMIT n": any n rows such that no row left out
\* is newer than a row taken; rows of equal created_at come in any order.
Latest(conv, n) ==
  {S \in SUBSET conv :
     /\ Cardinality(S) = IF n < Cardinality(conv) THEN n ELSE Cardinality(conv)
     /\ \A m \in S, o \in conv \ S : o.sec <= m.sec}

-----------------------------------------------------------------------------

\* The gateway clock advances.
Tick ==
  /\ now < MaxTick
  /\ now' = now + 1
  /\ UNCHANGED <<nextId, msgs, rows, call, drain>>

\* A gateway stamps a CHAT_SEND with now and calls SaveMessage(from, to).
\* pre records the receiver row's unread count when the call is made.
Call(c, from, to) ==
  /\ call[c].pc = "idle"
  /\ from # to
  /\ call' = [call EXCEPT ![c] = [pc |-> "insert", from |-> from, to |-> to,
                                   ts |-> now, pre |-> rows[<<to, from>>].unread]]
  /\ UNCHANGED <<now, nextId, msgs, rows, drain>>

\* Mutant: the new row takes an id already in use (the counter is not
\* advanced).
InsertReusesId(c) ==
  LET k == call[c] IN
  /\ k.pc = "insert"
  /\ \/ /\ msgs' = msgs \cup {[id |-> nextId, from |-> k.from, to |-> k.to,
                                sec |-> CreatedAt(k.ts)]}
        /\ call' = [call EXCEPT ![c].pc = "upSender"]
        /\ UNCHANGED nextId
     \/ /\ DbMayFail
        /\ call' = [call EXCEPT ![c].pc = "failed"]
        /\ UNCHANGED <<nextId, msgs>>
  /\ UNCHANGED <<now, rows, drain>>

\* INSERT INTO messages; on failure reply success = false.
Insert(c) ==
  LET k == call[c] IN
  /\ k.pc = "insert"
  /\ \/ /\ msgs' = msgs \cup {[id |-> nextId, from |-> k.from, to |-> k.to,
                                sec |-> CreatedAt(k.ts)]}
        /\ nextId' = nextId + 1
        /\ call' = [call EXCEPT ![c].pc = "upSender"]
     \/ /\ DbMayFail
        /\ call' = [call EXCEPT ![c].pc = "failed"]
        /\ UNCHANGED <<nextId, msgs>>
  /\ UNCHANGED <<now, rows, drain>>

\* UpsertSession(from, to, inc_unread = false): insert the row or update
\* last_msg_timestamp and set unread_count = 0.  A failure is ignored.
UpsertSender(c) ==
  LET k == call[c] IN
  /\ k.pc = "upSender"
  /\ \/ rows' = [rows EXCEPT ![<<k.from, k.to>>] = [unread |-> 0, ts |-> k.ts]]
     \/ DbMayFail /\ UNCHANGED rows
  /\ call' = [call EXCEPT ![c].pc = "upReceiver"]
  /\ UNCHANGED <<now, nextId, msgs, drain>>

\* Mutant: SaveMessage passes inc_unread = true for the sender's row too.
UpsertReceiverSwapped(c) ==
  LET k == call[c] IN
  /\ k.pc = "upReceiver"
  /\ \/ rows' = [rows EXCEPT ![<<k.from, k.to>>] = [unread |-> @.unread + 1, ts |-> k.ts]]
     \/ DbMayFail /\ UNCHANGED rows
  /\ call' = [call EXCEPT ![c].pc = "returned"]
  /\ UNCHANGED <<now, nextId, msgs, drain>>

\* UpsertSession(to, from, inc_unread = true): insert with unread 1 or
\* update last_msg_timestamp and unread_count = unread_count + 1 (a missing
\* row reads as unread 0).  A failure is ignored; the reply is success.
UpsertReceiver(c) ==
  LET k == call[c] IN
  /\ k.pc = "upReceiver"
  /\ \/ rows' = [rows EXCEPT ![<<k.to, k.from>>] = [unread |-> @.unread + 1, ts |-> k.ts]]
     \/ DbMayFail /\ UNCHANGED rows
  /\ call' = [call EXCEPT ![c].pc = "returned"]
  /\ UNCHANGED <<now, nextId, msgs, drain>>

\* GetOfflineMessages(u), first query: the peers with unread_count > 0.
DrainStart(u) ==
  /\ drain = None
  /\ drain' = [u |-> u, pending |-> {p \in Users \ {u} : rows[<<u, p>>].unread > 0},
               n |-> [p \in Users \ {u} |-> rows[<<u, p>>].unread], result |-> {}]
  /\ UNCHANGED <<now, nextId, msgs, rows, call>>

\* Second query, per peer: the latest n messages of the conversation.
DrainFetch(p) ==
  /\ drain # None
  /\ p \in drain.pending
  /\ \E S \in Latest(Conversation(drain.u, p), drain.n[p]) :
       drain' = [drain EXCEPT !.pending = @ \ {p}, !.result = @ \cup S]
  /\ UNCHANGED <<now, nextId, msgs, rows, call>>

\* The reply goes back to the gateway's Login task, which pushes each
\* message to the user; nothing is reset.
DrainReply ==
  /\ drain # None
  /\ drain.pending = {}
  /\ drain' = None
  /\ UNCHANGED <<now, nextId, msgs, rows, call>>

-----------------------------------------------------------------------------
Init ==
  /\ now = 0
  /\ nextId = 1
  /\ msgs = {}
  /\ rows = [p \in Pairs |-> NoRow]
  /\ call = [c \in Calls |-> [pc |-> "idle", from |-> None, to |-> None,
                              ts |-> 0, pre |-> 0]]
  /\ drain = None

Next ==
  \/ Tick
  \/ \E c \in Calls :
       \/ \E from, to \in Users : Call(c, from, to)
       \/ Insert(c) \/ UpsertSender(c) \/ UpsertReceiver(c)
  \/ \E u \in Users : DrainStart(u)
  \/ \E p \in Users : DrainFetch(p)
  \/ DrainReply

Spec == Init /\ [][Next]_vars

-----------------------------------------------------------------------------
(* Properties.                                                             *)

TypeOK ==
  /\ now \in Ticks
  /\ nextId \in Nat
  /\ msgs \subseteq [id : 1..(nextId - 1), from : Users, to : Users, sec : Nat]
  /\ rows \in [Pairs -> Row]
  /\ \A c \in Calls : call[c].pc \in CallPc
  /\ drain = None \/ drain.pending \subseteq Users

Incoming(u, p) == {m \in msgs : m.from = p /\ m.to = u}

\* unread_count of (u, p) never exceeds the number of messages p has sent
\* to u: every increment is the receiver upsert of one p -> u message.
UnreadBoundedByIncoming ==
  \A pr \in Pairs : rows[pr].unread <= Cardinality(Incoming(pr[1], pr[2]))

\* I5 offline drain: what GetOfflineMessages(u) returns is messages
\* addressed to u; it never hands u one of u's own messages as a push.
DrainOnlyAddressedToUser ==
  drain # None => \A m \in drain.result : m.to = drain.u

\* I3 session row coherence: at the step where SaveMessage(from, to, ts)
\* completes with success, both rows have last_msg_timestamp >= ts and the
\* receiver's unread_count is above its value when the call was made.
SaveLeavesRowsCoherent ==
  [][\A c \in Calls :
       (call[c].pc = "upReceiver" /\ call'[c].pc = "returned") =>
         LET k == call[c] IN
         /\ rows'[<<k.from, k.to>>].ts >= k.ts
         /\ rows'[<<k.to, k.from>>].ts >= k.ts
         /\ rows'[<<k.to, k.from>>].unread > k.pre]_vars
=============================================================================
