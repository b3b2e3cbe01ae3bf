------------------------------ MODULE ChatSend ------------------------------
(***************************************************************************)
(* The CHAT_SEND path of one gateway (websocket_session.hpp): the sender  *)
(* session S reads CHAT_SEND frames one by one, each handler posts        *)
(* SaveMessage to the 4-thread pool, the pool task dispatches the result  *)
(* back to S's strand, which sends a CHAT_ACK (or an error frame) to S    *)
(* and a CHAT_PUSH to the recipient's local session R.  Every            *)
(* send_message posts on_send to the session's strand; on_send and        *)
(* on_write keep the write queue queue_ with one async_write in flight.   *)
(* Routing to another gateway is in GatewaySessions; here R is local.     *)
(***************************************************************************)
EXTENDS Naturals, Sequences, SequencesExt

CONSTANTS
  NumReqs,      \* CHAT_SEND frames the client of S sends, request ids 1..NumReqs
  SaveMayFail,  \* whether ChatClient::SaveMessage may return false
  NumPings      \* HEARTBEAT_PING frames the client of S sends

ASSUME NumReqs \in Nat \ {0} /\ NumPings \in Nat
ASSUME SaveMayFail \in BOOLEAN

Reqs     == 1..NumReqs
Sessions == {"S", "R"}

VARIABLES
  readN,     \* CHAT_SEND frames S has read and handled so far
  pings,     \* HEARTBEAT_PING frames S has read and handled so far
  pool,      \* progress of each request's SaveMessage task on the pool
  nextId,    \* AUTO_INCREMENT of the messages table
  idOf,      \* msg_id the save returned for each request, 0 = failed/not yet
  strand,    \* handlers posted to each session's strand, in order
  wq,        \* websocket_session::queue_ of each session
  writing,   \* frames with an async_write in flight on each session
  out,       \* frames each client has received, in order
  sent       \* frames passed to send_message on each session, in order

vars == <<readN, pings, pool, nextId, idOf, strand, wq, writing, out, sent>>

Frame   == [kind : {"ack", "err", "push"}, r : Reqs] \cup
           [kind : {"pong"}, r : 1..NumPings]
Handler == [op : {"complete"}, r : Reqs] \cup [op : {"on_send"}, f : Frame]

\* send_message(f) on session s: serialise and post on_send to its strand.
SendMessage(s, f, st) ==
  [st EXCEPT ![s] = Append(@, [op |-> "on_send", f |-> f])]

-----------------------------------------------------------------------------

\* on_read -> handle_message: a CHAT_SEND posts its save to the pool and
\* the session reads the next frame.
ReadChatSend ==
  /\ readN < NumReqs
  /\ readN' = readN + 1
  /\ pool' = [pool EXCEPT ![readN + 1] = "posted"]
  /\ UNCHANGED <<pings, nextId, idOf, strand, wq, writing, out, sent>>

\* on_read -> handle_message: a HEARTBEAT_PING is answered on the spot by
\* send_message(HEARTBEAT_PONG), and the session reads the next frame.
ReadPing ==
  /\ pings < NumPings
  /\ pings' = pings + 1
  /\ LET pong == [kind |-> "pong", r |-> pings + 1] IN
     /\ strand' = SendMessage("S", pong, strand)
     /\ sent' = [sent EXCEPT !["S"] = Append(@, pong)]
  /\ UNCHANGED <<readN, pool, nextId, idOf, wq, writing, out>>

\* Mutant: a save that already returned can run again (a retry of a call
\* that had succeeded).
SaveRpcRetried(r) ==
  /\ pool[r] \in {"posted", "returned"}
  /\ pool' = [pool EXCEPT ![r] = "returned"]
  /\ \/ /\ idOf' = [idOf EXCEPT ![r] = nextId]
        /\ nextId' = nextId + 1
     \/ /\ SaveMayFail
        /\ UNCHANGED <<idOf, nextId>>
  /\ UNCHANGED <<readN, pings, strand, wq, writing, out, sent>>

\* A pool thread runs ChatClient::SaveMessage: the Chat server inserts the
\* row (taking the next AUTO_INCREMENT id) and upserts the sessions rows;
\* the RPC can also fail.
SaveRpc(r) ==
  /\ pool[r] = "posted"
  /\ pool' = [pool EXCEPT ![r] = "returned"]
  /\ \/ /\ idOf' = [idOf EXCEPT ![r] = nextId]
        /\ nextId' = nextId + 1
     \/ /\ SaveMayFail
        /\ UNCHANGED <<idOf, nextId>>
  /\ UNCHANGED <<readN, pings, strand, wq, writing, out, sent>>

\* The same pool thread, once the RPC has returned, calls net::dispatch on
\* S's executor; from outside the strand that queues the completion
\* behind whatever is already queued there.
DispatchResult(r) ==
  /\ pool[r] = "returned"
  /\ pool' = [pool EXCEPT ![r] = "done"]
  /\ strand' = [strand EXCEPT !["S"] = Append(@, [op |-> "complete", r |-> r])]
  /\ UNCHANGED <<readN, pings, nextId, idOf, wq, writing, out, sent>>

\* The completion on S's strand: saved -> send_message(CHAT_ACK) on S and
\* send_to_user(to, CHAT_PUSH), which finds R locally; not saved ->
\* send_message(error frame) on S.
Complete(r) ==
  LET ack  == [kind |-> "ack", r |-> r]
      push == [kind |-> "push", r |-> r]
      err  == [kind |-> "err", r |-> r]
      rest == [strand EXCEPT !["S"] = Tail(@)]
  IN
  \/ /\ idOf[r] # 0
     /\ strand' = SendMessage("R", push, SendMessage("S", ack, rest))
     /\ sent' = [sent EXCEPT !["S"] = Append(@, ack), !["R"] = Append(@, push)]
  \/ /\ idOf[r] = 0
     /\ strand' = SendMessage("S", err, rest)
     /\ sent' = [sent EXCEPT !["S"] = Append(@, err)]

\* Mutant: on_send starts a write even when one is already in flight.
OnSendNoInFlightCheck(s, f) ==
  /\ wq' = [wq EXCEPT ![s] = Append(@, f)]
  /\ writing' = [writing EXCEPT ![s] = @ \cup {f}]

\* on_send: queue_.push_back; if (queue_.size() > 1) return; do_write().
OnSend(s, f) ==
  /\ wq' = [wq EXCEPT ![s] = Append(@, f)]
  /\ writing' = IF wq[s] = <<>> THEN [writing EXCEPT ![s] = @ \cup {f}]
                ELSE writing

\* Run the handler at the head of session s's strand.
StrandRun(s) ==
  /\ strand[s] # <<>>
  /\ LET h == Head(strand[s]) IN
     \/ /\ h.op = "complete"
        /\ Complete(h.r)
        /\ UNCHANGED <<wq, writing>>
     \/ /\ h.op = "on_send"
        /\ strand' = [strand EXCEPT ![s] = Tail(@)]
        /\ OnSend(s, h.f)
        /\ UNCHANGED sent
  /\ UNCHANGED <<readN, pings, pool, nextId, idOf, out>>

\* Mutant: on_write pops the queue but does not start the next write.
WriteDoneNoRestart(s, f) ==
  /\ f \in writing[s]
  /\ out' = [out EXCEPT ![s] = Append(@, f)]
  /\ wq' = [wq EXCEPT ![s] = Tail(@)]
  /\ writing' = [writing EXCEPT ![s] = @ \ {f}]
  /\ UNCHANGED <<readN, pings, pool, nextId, idOf, strand, sent>>

\* An async_write of frame f completes and the client has it; on_write
\* erases queue_.front() and writes the next frame if there is one.
WriteDone(s, f) ==
  /\ f \in writing[s]
  /\ out' = [out EXCEPT ![s] = Append(@, f)]
  /\ wq' = [wq EXCEPT ![s] = Tail(@)]
  /\ writing' = [writing EXCEPT ![s] =
                   (@ \ {f}) \cup (IF Len(wq[s]) > 1 THEN {wq[s][2]} ELSE {})]
  /\ UNCHANGED <<readN, pings, pool, nextId, idOf, strand, sent>>

-----------------------------------------------------------------------------
Init ==
  /\ readN = 0
  /\ pings = 0
  /\ pool = [r \in Reqs |-> "none"]
  /\ nextId = 1
  /\ idOf = [r \in Reqs |-> 0]
  /\ strand = [s \in Sessions |-> <<>>]
  /\ wq = [s \in Sessions |-> <<>>]
  /\ writing = [s \in Sessions |-> {}]
  /\ out = [s \in Sessions |-> <<>>]
  /\ sent = [s \in Sessions |-> <<>>]

Next ==
  \/ ReadChatSend
  \/ ReadPing
  \/ \E r \in Reqs : SaveRpc(r) \/ DispatchResult(r)
  \/ \E s \in Sessions : StrandRun(s)
  \/ \E s \in Sessions, f \in Frame : WriteDone(s, f)

\* The pool threads run every posted task, the io_context runs every
\* strand handler, and the client keeps reading so writes complete.
Fairness ==
  /\ \A r \in Reqs : WF_vars(SaveRpc(r)) /\ WF_vars(DispatchResult(r))
  /\ \A s \in Sessions : WF_vars(StrandRun(s))
  /\ \A s \in Sessions, f \in Frame : WF_vars(WriteDone(s, f))

Spec == Init /\ [][Next]_vars /\ Fairness

-----------------------------------------------------------------------------
(* Properties.                                                             *)

TypeOK ==
  /\ readN \in 0..NumReqs
  /\ pings \in 0..NumPings
  /\ pool \in [Reqs -> {"none", "posted", "returned", "done"}]
  /\ nextId \in 1..(NumReqs + 1)
  /\ idOf \in [Reqs -> 0..NumReqs]
  /\ strand \in [Sessions -> Seq(Handler)]
  /\ wq \in [Sessions -> Seq(Frame)]
  /\ writing \in [Sessions -> SUBSET Frame]
  /\ out \in [Sessions -> Seq(Frame)]
  /\ sent \in [Sessions -> Seq(Frame)]


\* O1 per-session FIFO: what each client has received is a prefix of the
\* frames send_message was called with on its session, in call order.
FramesInSendOrder == \A s \in Sessions : IsPrefix(out[s], sent[s])

\* Received(k, r): the client of S has a frame of a kind in k for r.
Received(k, r) == \E i \in 1..Len(out["S"]) : out["S"][i].kind \in k /\ out["S"][i].r = r

\* Every CHAT_SEND the session has read is eventually answered on the
\* client by its CHAT_ACK or its error frame, and every HEARTBEAT_PING by
\* its HEARTBEAT_PONG, however the saves, strand handlers and writes of
\* the session interleave.
EveryRequestAnswered ==
  /\ \A r \in Reqs : (readN >= r) ~> Received({"ack", "err"}, r)
  /\ \A p \in 1..NumPings : (pings >= p) ~> Received({"pong"}, p)

\* O2 per-sender ACK order: the client of S receives the CHAT_ACKs in the
\* order it sent the CHAT_SENDs.
AcksOf(s) == SelectSeq(out[s], LAMBDA f : f.kind = "ack")

AcksInRequestOrder ==
  \A i, j \in 1..Len(AcksOf("S")) : i < j => AcksOf("S")[i].r < AcksOf("S")[j].r
=============================================================================
