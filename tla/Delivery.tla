------------------------------ MODULE Delivery ------------------------------
(***************************************************************************)
(* From a span an agent ends to the receipt it becomes: the SDK's tracer   *)
(* and exporter (packages/sdk-typescript/src/tracer.ts, exporter.ts), the  *)
(* network, and POST /v1/traces (apps/server/src/http/server.ts 411-488).  *)
(*                                                                         *)
(* The tracer sends one batch at a time, each after the one before was     *)
(* answered or given up; the server does not know when it was given up,    *)
(* and goes on with it.  A batch that failed is not sent again.            *)
(***************************************************************************)
EXTENDS Naturals, Sequences, FiniteSets

CONSTANTS
    Spans,          \* numbered as they start; they end in any order
    Actions,        \* those adaptSpans recognises as an AI action
    MaxBatch,       \* maxBatch
    MaxFlushes,     \* bound: calls of flush
    MaxFaults       \* bound: what network, server and signer do wrong

ASSUME DeliveryConstants ==
    /\ Spans \subseteq Nat /\ IsFiniteSet(Spans) /\ Actions \subseteq Spans
    /\ MaxBatch \in Nat \ {0}
    /\ MaxFlushes \in Nat /\ MaxFaults \in Nat

VARIABLES
    queue,      \* #queue: spans that ended; the server does not look at their order
    batches,    \* what forceFlush made of it: each batch, and how it ended
    timer,      \* #timer is set
    up,         \* the agent's process lives
    wire,       \* requests on their way to the server
    writing,    \* batches the server has taken, in their turns: what is left of each
    replies,    \* answers on their way back
    chain,      \* receipts: of which span, in which batch
    flushes, faults

agentVars == <<queue, batches, timer, up, flushes>>
serverVars == <<wire, writing, replies, chain>>
vars == <<agentVars, serverVars, faults>>

Ended == queue \cup UNION {batches[i].spans : i \in 1..Len(batches)}

Over(i) == batches[i].at \in {"taken", "refused", "lost"}

Init ==
    /\ queue = {} /\ batches = <<>> /\ timer = TRUE /\ up = TRUE
    /\ wire = {} /\ writing = <<>> /\ replies = {} /\ chain = <<>>
    /\ flushes = 0 /\ faults = 0

Fault == faults < MaxFaults /\ faults' = faults + 1

-----------------------------------------------------------------------------
(* The agent's process. *)

\* forceFlush: the whole queue, behind the batches before it.
Flush(spans) ==
    /\ queue' = {}
    /\ batches' = Append(batches, [spans |-> spans, at |-> "waiting"])

EndSpan(s) ==
    /\ up /\ s \notin Ended
    /\ LET spans == queue \cup {s} IN
       IF Cardinality(spans) >= MaxBatch
       THEN Flush(spans)
       ELSE queue' = spans /\ batches' = batches
    /\ UNCHANGED <<timer, up, flushes, serverVars, faults>>

\* A tick that finds nothing sends nothing.
Tick ==
    /\ up /\ timer /\ queue # {}
    /\ Flush(queue)
    /\ UNCHANGED <<timer, up, flushes, serverVars, faults>>

AskFlush ==
    /\ up /\ flushes < MaxFlushes
    /\ flushes' = flushes + 1
    /\ Flush(queue)
    /\ UNCHANGED <<timer, up, serverVars, faults>>

\* shutdown: what ends afterwards waits for a full batch, or for a flush.
Shutdown ==
    /\ up /\ timer
    /\ timer' = FALSE
    /\ Flush(queue)
    /\ UNCHANGED <<up, flushes, serverVars, faults>>

\* The process ends, at any time.
Exit ==
    /\ up
    /\ up' = FALSE /\ timer' = FALSE
    /\ UNCHANGED <<queue, batches, flushes, serverVars, faults>>

FaultNotAwaited(i) == batches[i].at = "waiting"

\* this.#pending.then(...): a batch goes when the one before it has ended.
Due(i) == batches[i].at = "waiting" /\ (i > 1 => Over(i - 1))

Becomes(i, at) == batches' = [batches EXCEPT ![i].at = at]

Send(i) ==
    /\ up /\ Due(i)
    /\ IF batches[i].spans = {}
       THEN Becomes(i, "taken") /\ wire' = wire
       ELSE Becomes(i, "sent") /\ wire' = wire \cup {i}
    /\ UNCHANGED <<queue, timer, up, flushes, writing, replies, chain, faults>>

\* response.ok, or not.
Answered(i) ==
    /\ up /\ batches[i].at = "sent"
    /\ \E reply \in replies :
        /\ reply.batch = i
        /\ Becomes(i, IF reply.ok THEN "taken" ELSE "refused")
        /\ replies' = replies \ {reply}
    /\ UNCHANGED <<queue, timer, up, flushes, wire, writing, chain, faults>>

FaultWaitsForEver(i) == FALSE

\* AbortSignal.timeout, or the connection fails: whatever the server does.
MayGiveUp(i) == batches[i].at = "sent"

GiveUp(i) ==
    /\ up /\ MayGiveUp(i)
    /\ Becomes(i, "lost")
    /\ UNCHANGED <<queue, timer, up, flushes, serverVars, faults>>

-----------------------------------------------------------------------------
(* The network and the server. *)

Lost(i) ==
    /\ i \in wire /\ Fault
    /\ wire' = wire \ {i}
    /\ UNCHANGED <<agentVars, writing, replies, chain>>

Reply(i, ok) == replies' = replies \cup {[batch |-> i, ok |-> ok]}

\* The request is read (adaptSpans), and its batch takes its turn on the write queue.
Arrives(i) ==
    /\ i \in wire
    /\ wire' = wire \ {i}
    /\ writing' = Append(writing, [batch |-> i, left |-> batches[i].spans \cap Actions])
    /\ UNCHANGED <<agentVars, replies, chain, faults>>

\* 401, 403, 429 and 400, before anything is written.
Refuses(i) ==
    /\ i \in wire /\ Fault
    /\ wire' = wire \ {i}
    /\ Reply(i, FALSE)
    /\ UNCHANGED <<agentVars, writing, chain>>

\* adaptSpans sorts the actions of a batch by the time they started.
IsFirst(s, left) == \A other \in left : s <= other

Signed(i, s) == chain' = Append(chain, [batch |-> i, span |-> s])

\* appendBatch: one receipt at a time, each committed as it is signed.
WriteNext ==
    /\ writing # <<>>
    /\ \E s \in Head(writing).left :
        /\ IsFirst(s, Head(writing).left)
        /\ Signed(Head(writing).batch, s)
        /\ writing' = [writing EXCEPT ![1].left = @ \ {s}]
    /\ UNCHANGED <<agentVars, wire, replies, faults>>

\* The signer fails it: 503.  What was written stays, and what the signer signed
\* without saying so is found again before the next receipt (ReceiptStore).
WriteFails ==
    /\ writing # <<>> /\ Fault
    /\ \E s \in Head(writing).left :
        /\ IsFirst(s, Head(writing).left)
        /\ chain' = chain \/ Signed(Head(writing).batch, s)
    /\ writing' = Tail(writing)
    /\ Reply(Head(writing).batch, FALSE)
    /\ UNCHANGED <<agentVars, wire>>

FaultAnsweredHalfway(w) == Cardinality(w.left) <= 1

Written(w) == w.left = {}

Answers ==
    /\ writing # <<>> /\ Written(Head(writing))
    /\ writing' = Tail(writing)
    /\ Reply(Head(writing).batch, TRUE)
    /\ UNCHANGED <<agentVars, wire, chain, faults>>

\* The server ends with what it was writing; another takes its place.  A receipt
\* signed just then is found again, as if WriteNext had come first.
Restart ==
    /\ Fault
    /\ writing' = <<>> /\ replies' = {}
    /\ UNCHANGED <<agentVars, wire, chain>>

-----------------------------------------------------------------------------
Agent ==
    \/ \E s \in Spans : EndSpan(s)
    \/ Tick \/ AskFlush \/ Shutdown \/ Exit
    \/ \E i \in 1..Len(batches) : Send(i) \/ Answered(i) \/ GiveUp(i)

Server ==
    \/ \E i \in wire : Lost(i) \/ Arrives(i) \/ Refuses(i)
    \/ WriteNext \/ WriteFails \/ Answers \/ Restart

Next == Agent \/ Server

Spec == Init /\ [][Next]_vars

\* The interval's timer, the promises of the tracer, and the request's timeout.
\* Nothing is asked of the network or of the server.
Fairness ==
    /\ WF_vars(Tick)
    /\ WF_vars(\E i \in 1..Len(batches) : Send(i))
    /\ WF_vars(\E i \in 1..Len(batches) : GiveUp(i))

FairSpec == Spec /\ Fairness

-----------------------------------------------------------------------------
Batches == [spans : SUBSET Spans, at : {"waiting", "sent", "taken", "refused", "lost"}]

TypeOK ==
    /\ queue \subseteq Spans /\ batches \in Seq(Batches)
    /\ timer \in BOOLEAN /\ up \in BOOLEAN
    /\ wire \subseteq 1..Len(batches)
    /\ writing \in Seq([batch : Nat, left : SUBSET Actions])
    /\ \A k \in 1..Len(writing) : writing[k].batch \in 1..Len(batches)
    /\ replies \subseteq [batch : 1..Len(batches), ok : BOOLEAN]
    /\ chain \in Seq([batch : Nat, span : Actions])
    /\ \A n \in 1..Len(chain) : chain[n].batch \in 1..Len(batches)
    /\ flushes \in 0..MaxFlushes /\ faults \in 0..MaxFaults

Recorded(i, s) == \E n \in 1..Len(chain) : chain[n] = [batch |-> i, span |-> s]

(* exporter.ts 103, "true when the server took the batch": every action in *)
(* a batch the agent was told is taken has its receipt, though the batch is *)
(* written one receipt at a time and may fail half-way.                     *)
TakenIsRecorded ==
    \A i \in 1..Len(batches) : batches[i].at = "taken" =>
        \A s \in batches[i].spans \cap Actions : Recorded(i, s)

Before(r, q) == r.batch < q.batch \/ (r.batch = q.batch /\ r.span < q.span)

(* The chain has the batches in the order in which they were made and the   *)
(* actions of each as they started, every action once, but for those of a   *)
(* batch that the agent gave up and the server wrote after all.             *)
OrderKept ==
    \A m, n \in 1..Len(chain) : m < n =>
        Before(chain[m], chain[n]) \/ batches[chain[n].batch].at = "lost"

Settled(s) ==
    \E i \in 1..Len(batches) : Over(i) /\ s \in batches[i].spans

(* A span that ended while the timer runs does not stay in memory: its      *)
(* batch is taken, refused or given up, whatever becomes of the server.     *)
SpansAreSettled ==
    \A s \in Spans : (s \in Ended /\ timer) ~> (Settled(s) \/ ~up)
=============================================================================
