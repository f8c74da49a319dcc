--------------------------- MODULE DeliveryProofs ---------------------------
(***************************************************************************)
(* The agent's side, for every number of spans and every fault.            *)
(*                                                                         *)
(* Of its batches: an action in a batch that was taken is a receipt, and   *)
(* the chain is in the order of the batches.                               *)
(*                                                                         *)
(* Two facts carry the proof.  A batch that is waiting or on its way has   *)
(* only waiting ones after it (OneAtATime): so what the server writes for  *)
(* a batch that was not given up comes after everything it has written.    *)
(* And a batch is in one place only, the wire, the write queue or an       *)
(* answer (OnTheWire, BeingWritten, OnTheWayBack): so nothing of it is     *)
(* written twice, and an answer "ok" finds it written to the end.          *)
(*                                                                         *)
(* Of its process: somebody says how it ended.  A close that has begun     *)
(* keeps its stop, on the way or said, until the guard is told of it       *)
(* (ClosesTell); an end without one leaves the guard to speak (ToldByOne). *)
(*                                                                         *)
(* Of its guard's clock: a cut of two minutes is told by the first ping    *)
(* answered after it.  A ping falls into it within BeatEvery and a tick of *)
(* its beginning (CutSeen), and from then on the guard knows of it, or is  *)
(* so late that it will take the round for a sleep (LongCutKnown).         *)
(***************************************************************************)
EXTENDS AgentSide, SequenceTheorems, TLAPS

-----------------------------------------------------------------------------
OneAtATime ==
    \A i, j \in 1..Len(batches) :
        i < j /\ batches[i].at \in {"waiting", "sent"} => batches[j].at = "waiting"

Out(i) == batches[i].at \in {"sent", "lost"}

AllRecorded(i) == \A s \in batches[i].spans \cap Actions : Recorded(i, s)

OnTheWire ==
    \A i \in wire :
        /\ Out(i)
        /\ \A n \in 1..Len(chain) : chain[n].batch # i
        /\ \A k \in 1..Len(writing) : writing[k].batch # i
        /\ \A reply \in replies : reply.batch # i

\* The turn k of the write queue: what is left comes after what is written.
Left(k) ==
    /\ \A s \in batches[writing[k].batch].spans \cap Actions :
           s \in writing[k].left \/ Recorded(writing[k].batch, s)
    /\ \A n \in 1..Len(chain) : chain[n].batch = writing[k].batch =>
           \A s \in writing[k].left : chain[n].span < s

BeingWritten ==
    \A k \in 1..Len(writing) :
        /\ Out(writing[k].batch)
        /\ Left(k)
        /\ \A reply \in replies : reply.batch # writing[k].batch
        /\ \A l \in 1..Len(writing) : l # k => writing[l].batch # writing[k].batch

OnTheWayBack ==
    \A reply \in replies :
        /\ Out(reply.batch)
        /\ reply.ok => AllRecorded(reply.batch)
        /\ \A other \in replies : other.batch = reply.batch => other = reply

OnTheChain == \A n \in 1..Len(chain) : batches[chain[n].batch].at # "waiting"

Places == OnTheWire /\ BeingWritten /\ OnTheWayBack /\ OnTheChain

IInv == TypeOK /\ OneAtATime /\ Places /\ TakenIsRecorded /\ OrderKept

LEMMA Initially == Init => IInv
BY DeliveryConstants DEF Init, IInv, TypeOK, OneAtATime, Places, OnTheWire, BeingWritten,
    OnTheWayBack, OnTheChain, TakenIsRecorded, OrderKept, Batches

\* A turn that is not touched, though it may move up in the queue.
LEMMA LeftStays ==
    ASSUME NEW k \in 1..Len(writing), Left(k), writing[k].batch \in 1..Len(batches),
           NEW l \in Nat, writing'[l] = writing[k], chain' = chain,
           \A j \in 1..Len(batches) : batches'[j].spans = batches[j].spans
    PROVE  Left(l)'
BY DEF Left, Recorded

-----------------------------------------------------------------------------
(* The agent's steps.  Those that make a batch add one that waits.         *)

LEMMA FlushKeeps ==
    ASSUME IInv, NEW spans \in SUBSET Spans, Flush(spans),
           timer' \in BOOLEAN, up' \in BOOLEAN, flushes' \in 0..MaxFlushes, UNCHANGED <<serverVars, faults>>
    PROVE  IInv'
<1> DEFINE new == [spans |-> spans, at |-> "waiting"]
<1>1. TypeOK /\ OneAtATime /\ Places /\ TakenIsRecorded /\ OrderKept
    BY DEF IInv
<1>2. batches \in Seq(Batches) /\ new \in Batches
    BY <1>1 DEF TypeOK, Batches
<1>3. /\ batches' \in Seq(Batches) /\ Len(batches') = Len(batches) + 1
      /\ \A i \in 1..Len(batches) : batches'[i] = batches[i]
      /\ batches'[Len(batches) + 1].at = "waiting"
    BY <1>2 DEF Flush
<1>4. /\ wire' = wire /\ writing' = writing /\ replies' = replies /\ chain' = chain /\ faults' = faults
    BY DEF serverVars
<1> HIDE DEF new
<1>5. TypeOK'
    BY <1>1, <1>3, <1>4 DEF TypeOK, Flush
<1>6. OneAtATime'
    BY <1>1, <1>2, <1>3 DEF OneAtATime
<1>7. Places'
  <2> USE <1>1, <1>2, <1>3, <1>4 DEF Places, TypeOK, Out
  <2>1. OnTheWire'
      BY DEF OnTheWire
  <2>2. BeingWritten'
    <3>1. ASSUME NEW k \in 1..Len(writing) PROVE Left(k)'
      <4>1. Left(k) /\ k \in Nat /\ writing[k].batch \in 1..Len(batches)
          BY DEF BeingWritten
      <4>2. \A j \in 1..Len(batches) : batches'[j].spans = batches[j].spans
          BY <1>3
      <4> QED
          BY ONLY <3>1, <4>1, <4>2, <1>4, LeftStays
    <3> QED
        BY <3>1 DEF BeingWritten
  <2>3. OnTheWayBack'
      BY DEF OnTheWayBack, AllRecorded, Recorded
  <2>4. OnTheChain'
      BY DEF OnTheChain
  <2> QED
      BY <2>1, <2>2, <2>3, <2>4
<1>8. TakenIsRecorded'
    BY <1>1, <1>2, <1>3, <1>4 DEF TakenIsRecorded, Recorded
<1>9. OrderKept'
    BY <1>1, <1>2, <1>3, <1>4 DEF OrderKept, Before, TypeOK
<1> QED
    BY <1>5, <1>6, <1>7, <1>8, <1>9 DEF IInv

\* How the batches look after one of them has moved on.
Moved(i, at) ==
    /\ batches' \in Seq(Batches) /\ Len(batches') = Len(batches)
    /\ batches'[i].at = at
    /\ \A j \in 1..Len(batches) :
           /\ batches'[j].spans = batches[j].spans
           /\ j # i => batches'[j] = batches[j]

LEMMA BecomesMoves ==
    ASSUME TypeOK, NEW i \in 1..Len(batches), NEW at \in {"sent", "taken", "refused", "lost"}, Becomes(i, at)
    PROVE  Moved(i, at)
<1>1. batches \in Seq(Batches) /\ batches[i] \in Batches
    BY DEF TypeOK
<1>2. [batches[i] EXCEPT !.at = at] \in Batches
    BY <1>1 DEF Batches
<1>3. batches' = [batches EXCEPT ![i] = [batches[i] EXCEPT !.at = at]]
    BY <1>1 DEF Becomes
<1>4. batches' \in Seq(Batches) /\ Len(batches') = Len(batches)
    BY <1>1, <1>2, <1>3
<1>5. \A j \in 1..Len(batches) : batches'[j] = IF j = i THEN [batches[i] EXCEPT !.at = at] ELSE batches[j]
    BY <1>1, <1>3
<1> QED
    BY <1>1, <1>4, <1>5 DEF Moved, Batches

LEMMA SendKeeps == ASSUME IInv, NEW i \in 1..Len(batches), Send(i) PROVE IInv'
<1>1. TypeOK /\ OneAtATime /\ Places /\ TakenIsRecorded /\ OrderKept
    BY DEF IInv
<1>2. /\ batches[i].at = "waiting"
      /\ i > 1 => Over(i - 1)
      /\ UNCHANGED <<queue, timer, up, flushes, writing, replies, chain, faults>>
    BY DEF Send, Due
<1>3. /\ \A k \in 1..Len(writing) : writing[k].batch # i
      /\ \A n \in 1..Len(chain) : chain[n].batch # i
      /\ \A reply \in replies : reply.batch # i
      /\ i \notin wire
    BY <1>1, <1>2 DEF Places, OnTheWire, BeingWritten, OnTheWayBack, OnTheChain, Out
<1>4. /\ wire' \in {wire, wire \cup {i}}
      /\ \E at \in {"taken", "sent"} :
             /\ Moved(i, at)
             /\ at = "taken" => wire' = wire /\ batches[i].spans = {}
    BY <1>1, BecomesMoves DEF Send
<1>5. \A j \in 1..Len(batches) : j < i => Over(j)
  <2>1. SUFFICES ASSUME NEW j \in 1..Len(batches), j < i PROVE Over(j)
      OBVIOUS
  <2>2. batches[j] \in Batches /\ batches[i - 1] \in Batches /\ Len(batches) \in Nat
      BY <1>1, <2>1 DEF TypeOK
  <2>3. i - 1 \in 1..Len(batches) /\ (j < i - 1 \/ j = i - 1) /\ Over(i - 1)
      BY <1>2, <2>1, <2>2
  <2> QED
      BY <1>1, <2>2, <2>3 DEF OneAtATime, Over, Batches
<1>6. TypeOK'
    BY <1>1, <1>2, <1>4 DEF TypeOK, Moved
<1>7. OneAtATime'
    BY <1>1, <1>2, <1>4, <1>5 DEF OneAtATime, Moved, Over
<1>8. Places'
  <2> USE <1>1, <1>2, <1>3, <1>4 DEF Places, TypeOK, Out, Moved
  <2>1. OnTheWire'
      BY DEF OnTheWire
  <2>2. BeingWritten'
    <3>1. ASSUME NEW k \in 1..Len(writing) PROVE Left(k)'
        BY LeftStays DEF BeingWritten
    <3> QED
        BY <3>1 DEF BeingWritten
  <2>3. OnTheWayBack'
      BY DEF OnTheWayBack, AllRecorded, Recorded
  <2>4. OnTheChain'
      BY DEF OnTheChain
  <2> QED
      BY <2>1, <2>2, <2>3, <2>4
<1>9. TakenIsRecorded'
    BY <1>1, <1>2, <1>4 DEF TakenIsRecorded, Recorded, Moved, TypeOK
<1>10. OrderKept'
    BY <1>1, <1>2, <1>3, <1>4 DEF OrderKept, Before, Moved, TypeOK
<1> QED
    BY <1>6, <1>7, <1>8, <1>9, <1>10 DEF IInv

\* The batch that was on its way is over: taken and refused by an answer, lost without.
Answer(i, at) ==
    \E reply \in replies :
        /\ reply.batch = i /\ replies' = replies \ {reply}
        /\ at = "taken" => reply.ok

LEMMA OverKeeps ==
    ASSUME IInv, NEW i \in 1..Len(batches), batches[i].at = "sent",
           NEW at \in {"taken", "refused", "lost"}, Moved(i, at),
           (at = "lost" /\ replies' = replies) \/ Answer(i, at),
           UNCHANGED <<queue, timer, up, flushes, wire, writing, chain, faults>>
    PROVE  IInv'
<1>1. TypeOK /\ OneAtATime /\ Places /\ TakenIsRecorded /\ OrderKept
    BY DEF IInv
<1>2. replies' \subseteq replies
    BY DEF Answer
<1>3. ASSUME at # "lost"
      PROVE  /\ i \notin wire
             /\ \A k \in 1..Len(writing) : writing[k].batch # i
             /\ \A reply \in replies' : reply.batch # i
             /\ at = "taken" => AllRecorded(i)
    BY <1>1, <1>3 DEF Answer, Places, OnTheWire, BeingWritten, OnTheWayBack
<1>4. TypeOK'
    BY <1>1, <1>2 DEF TypeOK, Moved
<1>5. OneAtATime'
    BY <1>1 DEF OneAtATime, Moved
<1>6. Places'
  <2> USE <1>1, <1>2, <1>3 DEF Places, TypeOK, Out, Moved
  <2>1. OnTheWire'
      BY DEF OnTheWire
  <2>2. BeingWritten'
    <3>1. ASSUME NEW k \in 1..Len(writing) PROVE Left(k)'
        BY LeftStays DEF BeingWritten
    <3> QED
        BY <3>1 DEF BeingWritten
  <2>3. OnTheWayBack'
      BY DEF OnTheWayBack, AllRecorded, Recorded
  <2>4. OnTheChain'
      BY DEF OnTheChain
  <2> QED
      BY <2>1, <2>2, <2>3, <2>4
<1>7. TakenIsRecorded'
  <2>1. ASSUME NEW j \in 1..Len(batches), batches'[j].at = "taken" PROVE AllRecorded(j)
      BY <1>1, <1>3, <2>1 DEF TakenIsRecorded, AllRecorded, Moved
  <2> QED
      BY <2>1 DEF TakenIsRecorded, AllRecorded, Recorded, Moved
<1>8. OrderKept'
    BY <1>1 DEF OrderKept, Before, Moved, TypeOK
<1> QED
    BY <1>4, <1>5, <1>6, <1>7, <1>8 DEF IInv

LEMMA AgentKeeps == IInv /\ Agent => IInv'
<1> SUFFICES ASSUME IInv, Agent PROVE IInv'
    OBVIOUS
<1>1. TypeOK
    BY DEF IInv
<1>2. ASSUME NEW s \in Spans, EndSpan(s) PROVE IInv'
  <2>1. /\ UNCHANGED <<timer, up, flushes, serverVars, faults>>
        /\ \/ Flush(queue \cup {s})
           \/ queue' = queue \cup {s} /\ batches' = batches
      BY <1>2 DEF EndSpan
  <2>2. CASE Flush(queue \cup {s})
    <3>1. queue \cup {s} \in SUBSET Spans /\ timer' \in BOOLEAN /\ up' \in BOOLEAN /\ flushes' \in 0..MaxFlushes
        BY <1>1, <2>1 DEF TypeOK
    <3> QED
        BY <2>1, <2>2, <3>1, FlushKeeps
  <2>3. CASE queue' = queue \cup {s} /\ batches' = batches
    <3>1. TypeOK'
        BY <1>1, <2>1, <2>3 DEF TypeOK, serverVars
    <3> QED
        BY <2>1, <2>3, <3>1 DEF IInv, serverVars, OneAtATime, Places, OnTheWire, BeingWritten, OnTheWayBack,
            OnTheChain, TakenIsRecorded, OrderKept, Out, AllRecorded, Recorded, Left, Before
  <2> QED
      BY <2>1, <2>2, <2>3
<1>3. CASE Tick \/ AskFlush \/ Shutdown
  <2>1. /\ UNCHANGED <<serverVars, faults>>
        /\ timer' \in BOOLEAN /\ up' \in BOOLEAN /\ flushes' \in 0..MaxFlushes
    <3> USE <1>1, DeliveryConstants DEF TypeOK
    <3>1. CASE Tick
        BY <3>1 DEF Tick
    <3>2. CASE AskFlush
        BY <3>2 DEF AskFlush
    <3>3. CASE Shutdown
        BY <3>3 DEF Shutdown
    <3> QED
        BY <1>3, <3>1, <3>2, <3>3
  <2>2. Flush(queue)
      BY <1>3 DEF Tick, AskFlush, Shutdown
  <2>3. queue \in SUBSET Spans
      BY <1>1 DEF TypeOK
  <2> QED
      BY <2>1, <2>2, <2>3, FlushKeeps
<1>4. CASE Exit
  <2>1. TypeOK'
      BY <1>1, <1>4 DEF TypeOK, Exit, serverVars
  <2> QED
      BY <1>4, <2>1 DEF Exit, IInv, serverVars, OneAtATime, Places, OnTheWire, BeingWritten, OnTheWayBack,
          OnTheChain, TakenIsRecorded, OrderKept, Out, AllRecorded, Recorded, Left, Before
<1>5. ASSUME NEW i \in 1..Len(batches), Answered(i) PROVE IInv'
  <2>1. PICK at \in {"taken", "refused"} : Becomes(i, at) /\ Answer(i, at)
      BY <1>5 DEF Answered, Answer
  <2>2. /\ batches[i].at = "sent"
        /\ UNCHANGED <<queue, timer, up, flushes, wire, writing, chain, faults>>
      BY <1>5 DEF Answered
  <2>3. Moved(i, at)
      BY <1>1, <2>1, BecomesMoves
  <2> QED
      BY <2>1, <2>2, <2>3, OverKeeps
<1>6. ASSUME NEW i \in 1..Len(batches), GiveUp(i) PROVE IInv'
  <2>1. /\ batches[i].at = "sent" /\ Becomes(i, "lost") /\ replies' = replies
        /\ UNCHANGED <<queue, timer, up, flushes, wire, writing, chain, faults>>
      BY <1>6 DEF GiveUp, MayGiveUp, serverVars
  <2>2. Moved(i, "lost")
      BY <1>1, <2>1, BecomesMoves
  <2> QED
      BY <2>1, <2>2, OverKeeps
<1> QED
    BY <1>2, <1>3, <1>4, <1>5, <1>6, SendKeeps DEF Agent

-----------------------------------------------------------------------------
(* The network and the server.                                             *)

\* What a step of theirs does not touch, unless it signs.
Unsigned == UNCHANGED <<agentVars, chain>>

LEMMA UnsignedKeeps ==
    ASSUME IInv, Unsigned PROVE OneAtATime' /\ OnTheChain' /\ TakenIsRecorded' /\ OrderKept'
BY DEF Unsigned, agentVars, IInv, OneAtATime, Places, OnTheChain, TakenIsRecorded, OrderKept, Recorded, Before

LEMMA LeavesTheWire ==
    ASSUME IInv, NEW i \in wire, Lost(i) \/ Arrives(i) \/ Refuses(i) PROVE IInv'
<1>1. TypeOK /\ OnTheWire /\ BeingWritten /\ OnTheWayBack
    BY DEF IInv, Places
<1>2. Unsigned /\ batches' = batches /\ chain' = chain /\ wire' = wire \ {i} /\ i \in 1..Len(batches)
    BY <1>1 DEF Lost, Arrives, Refuses, Unsigned, agentVars, TypeOK
<1> DEFINE turn == [batch |-> i, left |-> batches[i].spans \cap Actions]
           refusal == [batch |-> i, ok |-> FALSE]
<1>3. \/ writing' = writing /\ replies' = replies
      \/ writing' = Append(writing, turn) /\ replies' = replies
      \/ writing' = writing /\ replies' = replies \cup {refusal}
    BY DEF Lost, Arrives, Refuses, Reply
<1>4. /\ turn \in [batch : Nat, left : SUBSET Actions]
      /\ turn.batch = i /\ turn.left = batches[i].spans \cap Actions
      /\ refusal \in [batch : 1..Len(batches), ok : BOOLEAN]
      /\ refusal.batch = i /\ ~refusal.ok
    BY <1>1, <1>2 DEF TypeOK
<1> HIDE DEF turn, refusal
<1>5. TypeOK'
  <2> USE <1>1, DeliveryConstants DEF TypeOK
  <2>1. faults' \in 0..MaxFaults
    <3>1. faults' = faults \/ Fault
        BY DEF Lost, Arrives, Refuses
    <3> QED
        BY <3>1 DEF Fault
  <2>2. writing' \in Seq([batch : Nat, left : SUBSET Actions])
    <3>1. writing \in Seq([batch : Nat, left : SUBSET Actions])
        OBVIOUS
    <3>2. Append(writing, turn) \in Seq([batch : Nat, left : SUBSET Actions])
        BY ONLY <3>1, <1>4
    <3> QED
        BY ONLY <3>1, <3>2, <1>3
  <2>3. \A k \in 1..Len(writing') : writing'[k].batch \in 1..Len(batches)
    <3>1. writing \in Seq([batch : Nat, left : SUBSET Actions])
          /\ \A k \in 1..Len(writing) : writing[k].batch \in 1..Len(batches)
        OBVIOUS
    <3>2. CASE writing' = writing
        BY ONLY <3>1, <3>2
    <3>3. CASE writing' = Append(writing, turn)
        BY ONLY <3>1, <3>3, <1>2, <1>4
    <3> QED
        BY ONLY <3>2, <3>3, <1>3
  <2>4. replies' \subseteq [batch : 1..Len(batches), ok : BOOLEAN]
      BY <1>2, <1>3, <1>4
  <2> QED
      BY <1>2, <2>1, <2>2, <2>3, <2>4 DEF Unsigned, agentVars
<1>6. OnTheWire'
  <2>1. ASSUME NEW j \in wire' PROVE \A k \in 1..Len(writing') : writing'[k].batch # j
    <3>1. CASE writing' = writing
        BY <1>1, <1>2, <2>1, <3>1 DEF OnTheWire
    <3>2. CASE writing' = Append(writing, turn)
        BY <1>1, <1>2, <1>4, <2>1, <3>2 DEF OnTheWire, TypeOK
    <3> QED
        BY <1>3, <3>1, <3>2
  <2>2. ASSUME NEW j \in wire' PROVE \A reply \in replies' : reply.batch # j
      BY <1>1, <1>2, <1>3, <1>4, <2>2 DEF OnTheWire
  <2> QED
      BY <1>1, <1>2, <2>1, <2>2 DEF OnTheWire, Out
<1>7. OnTheWayBack'
  <2>1. CASE replies' = replies
      BY <1>1, <1>2, <2>1 DEF OnTheWayBack, Out, AllRecorded, Recorded
  <2>2. CASE replies' = replies \cup {refusal}
      BY <1>1, <1>2, <1>4, <2>2 DEF OnTheWire, OnTheWayBack, Out, AllRecorded, Recorded
  <2> QED
      BY <1>3, <2>1, <2>2
<1>8. BeingWritten'
  <2>1. CASE writing' = writing
    <3>1. ASSUME NEW k \in 1..Len(writing) PROVE Left(k)'
        BY <1>1, <1>2, <2>1, LeftStays DEF BeingWritten, TypeOK
    <3>2. \A reply \in replies' : reply \in replies \/ reply.batch = i
        BY <1>3, <1>4
    <3> QED
        BY <1>1, <1>2, <2>1, <3>1, <3>2 DEF BeingWritten, OnTheWire, Out
  <2>2. CASE writing' = Append(writing, turn)
    <3>1. /\ Len(writing') = Len(writing) + 1 /\ Len(writing) \in Nat
          /\ \A k \in 1..Len(writing) : writing'[k] = writing[k]
          /\ writing'[Len(writing) + 1].batch = i
          /\ writing'[Len(writing) + 1].left = batches[i].spans \cap Actions
        BY <1>1, <1>4, <2>2 DEF TypeOK
    <3>2. replies' = replies
        BY <1>3, <3>1
    <3>3. ASSUME NEW k \in 1..Len(writing') PROVE Left(k)'
      <4>1. CASE k = Len(writing) + 1
          BY <1>1, <1>2, <3>1, <4>1 DEF OnTheWire, Left
      <4>2. CASE k \in 1..Len(writing)
          BY <1>1, <1>2, <3>1, <4>2, LeftStays DEF BeingWritten, TypeOK
      <4> QED
          BY <3>1, <3>3, <4>1, <4>2
    <3>4. ASSUME NEW k \in 1..Len(writing'), NEW l \in 1..Len(writing'), l # k
          PROVE  writing'[l].batch # writing'[k].batch
        BY <1>1, <3>1, <3>4 DEF BeingWritten, OnTheWire
    <3>5. ASSUME NEW k \in 1..Len(writing')
          PROVE  Out(writing[k].batch)' /\ \A reply \in replies' : reply.batch # writing'[k].batch
        BY <1>1, <1>2, <3>1, <3>2, <3>5 DEF BeingWritten, OnTheWire, Out
    <3> QED
        BY <3>3, <3>4, <3>5 DEF BeingWritten, Out
  <2> QED
      BY <1>3, <2>1, <2>2
<1> QED
    BY <1>2, <1>5, <1>6, <1>7, <1>8, UnsignedKeeps DEF IInv, Places

\* The first turn of the write queue, and a receipt for what is first in it.
FirstTurn(w) == writing # <<>> /\ w = writing[1]

LEMMA ElementOfSequence == ASSUME NEW S, NEW q \in Seq(S), NEW k \in 1..Len(q) PROVE q[k] \in S
OBVIOUS

LEMMA FirstTurnIs ==
    ASSUME IInv, NEW w, FirstTurn(w)
    PROVE  /\ 1 \in 1..Len(writing) /\ Head(writing) = w
           /\ w.batch \in 1..Len(batches) /\ w.left \subseteq Actions /\ Out(w.batch)
           /\ \A n \in 1..Len(chain) : chain[n].batch = w.batch => \A s \in w.left : chain[n].span < s
           /\ \A s \in batches[w.batch].spans \cap Actions : s \in w.left \/ Recorded(w.batch, s)
           /\ \A reply \in replies : reply.batch # w.batch
           /\ w.batch \notin wire
           /\ \A l \in 2..Len(writing) : writing[l].batch # w.batch
<1>1. writing \in Seq([batch : Nat, left : SUBSET Actions]) /\ 1 \in 1..Len(writing) /\ Head(writing) = w
    BY DEF IInv, TypeOK, FirstTurn
<1>2. w = writing[1] /\ w.batch \in 1..Len(batches) /\ w.left \subseteq Actions
  <2>1. w = writing[1] /\ \A k \in 1..Len(writing) : writing[k].batch \in 1..Len(batches)
      BY DEF IInv, TypeOK, FirstTurn
  <2>2. writing[1] \in [batch : Nat, left : SUBSET Actions]
      BY ONLY <1>1, ElementOfSequence
  <2> QED
      BY <1>1, <2>1, <2>2
<1>3. /\ Out(w.batch) /\ Left(1) /\ \A reply \in replies : reply.batch # w.batch
      /\ \A l \in 2..Len(writing) : writing[l].batch # w.batch
    BY <1>1, <1>2 DEF IInv, Places, BeingWritten
<1>4. w.batch \notin wire
    BY <1>1, <1>2 DEF IInv, Places, OnTheWire
<1> QED
    BY <1>1, <1>2, <1>3, <1>4 DEF Left

\* The same when a receipt of another batch was written.
LEMMA LeftStaysBehind ==
    ASSUME NEW k \in 1..Len(writing), Left(k), NEW w, w = writing[k],
           NEW l \in Nat, writing'[l] = w, batches' = batches,
           \A i, x : Recorded(i, x) => Recorded(i, x)',
           \A n \in 1..Len(chain') : chain'[n].batch = w.batch => n \in 1..Len(chain) /\ chain'[n] = chain[n]
    PROVE  Left(l)'
<1>1. \A s \in batches[w.batch].spans \cap Actions : s \in w.left \/ Recorded(w.batch, s)'
    BY DEF Left
<1>2. \A n \in 1..Len(chain') : chain'[n].batch = w.batch => \A s \in w.left : chain'[n].span < s
    BY DEF Left
<1> QED
    BY <1>1, <1>2 DEF Left, Recorded

\* The chain one receipt longer.
LEMMA SignedKeeps ==
    ASSUME IInv, NEW w, FirstTurn(w), NEW s \in w.left, IsFirst(s, w.left), Signed(w.batch, s),
           UNCHANGED <<batches, wire>>
    PROVE  /\ OneAtATime' /\ OnTheChain' /\ TakenIsRecorded' /\ OrderKept'
           /\ chain' \in Seq([batch : Nat, span : Actions])
           /\ \A n \in 1..Len(chain') : chain'[n].batch \in 1..Len(batches)
           /\ Len(chain) \in Nat /\ Len(chain') = Len(chain) + 1
           /\ \A n \in 1..Len(chain) : chain'[n] = chain[n]
           /\ chain'[Len(chain) + 1] = [batch |-> w.batch, span |-> s]
           /\ \A i, x : Recorded(i, x) => Recorded(i, x)'
<1> DEFINE new == [batch |-> w.batch, span |-> s]
<1>1. TypeOK /\ OneAtATime /\ OnTheChain /\ TakenIsRecorded /\ OrderKept
    BY DEF IInv, Places
<1>2. /\ w.batch \in 1..Len(batches) /\ w.left \subseteq Actions /\ Out(w.batch)
      /\ \A n \in 1..Len(chain) : chain[n].batch = w.batch => chain[n].span < s
    BY FirstTurnIs
<1>3. chain \in Seq([batch : Nat, span : Actions]) /\ new \in [batch : Nat, span : Actions]
    BY <1>1, <1>2 DEF TypeOK
<1>4. chain' = Append(chain, new)
    BY DEF Signed
<1>5. new.batch = w.batch /\ new.span = s
    OBVIOUS
<1> HIDE DEF new
<1>6. /\ chain' \in Seq([batch : Nat, span : Actions])
      /\ Len(chain) \in Nat /\ Len(chain') = Len(chain) + 1
      /\ \A n \in 1..Len(chain) : chain'[n] = chain[n]
      /\ chain'[Len(chain) + 1] = new
    BY <1>3, <1>4
<1>7. \A n \in 1..Len(chain') : chain'[n].batch \in 1..Len(batches)
  <2>1. \A n \in 1..Len(chain) : chain[n].batch \in 1..Len(batches)
      BY <1>1 DEF TypeOK
  <2>2. SUFFICES ASSUME NEW n \in 1..Len(chain') PROVE chain'[n].batch \in 1..Len(batches)
      OBVIOUS
  <2>3. n \in 1..Len(chain) \/ n = Len(chain) + 1
      BY ONLY <1>6, <2>2
  <2> QED
      BY ONLY <2>1, <2>3, <1>2, <1>5, <1>6
<1>8. \A i, x : Recorded(i, x) => Recorded(i, x)'
    BY <1>6 DEF Recorded
<1>9. OneAtATime'
    BY <1>1 DEF OneAtATime
<1>10. OnTheChain'
    BY <1>1, <1>2, <1>5, <1>6 DEF OnTheChain, Out
<1>11. TakenIsRecorded'
    BY <1>1, <1>8 DEF TakenIsRecorded
<1>12. OrderKept'
  <2>1. SUFFICES ASSUME NEW m \in 1..Len(chain'), NEW n \in 1..Len(chain'), m < n
                 PROVE  Before(chain'[m], chain'[n]) \/ batches[chain'[n].batch].at = "lost"
      BY DEF OrderKept, Before
  <2>2. CASE n \in 1..Len(chain)
      BY <1>1, <1>6, <2>1, <2>2 DEF OrderKept
  <2>3. CASE n = Len(chain) + 1
    <3>1. m \in 1..Len(chain) /\ chain'[m] = chain[m] /\ chain'[n] = new
        BY <1>6, <2>1, <2>3
    <3>2. chain[m].batch \in 1..Len(batches) /\ batches[chain[m].batch].at # "waiting"
        BY <1>1, <3>1 DEF TypeOK, OnTheChain
    <3>3. batches[w.batch].at = "sent" => chain[m].batch <= w.batch
        BY <1>1, <1>2, <3>2 DEF OneAtATime
    <3>4. chain[m].batch = w.batch => chain[m].span < s
        BY <1>2, <3>1
    <3>5. chain[m].batch < w.batch \/ chain[m].batch = w.batch \/ batches[w.batch].at = "lost"
        BY <1>1, <1>2, <3>2, <3>3 DEF Out, TypeOK
    <3> QED
        BY <1>5, <3>1, <3>4, <3>5 DEF Before
  <2>4. n \in 1..Len(chain) \/ n = Len(chain) + 1
      BY ONLY <1>6, n \in 1..Len(chain')
  <2> QED
      BY <2>2, <2>3, <2>4
<1> QED
    BY <1>6, <1>7, <1>8, <1>9, <1>10, <1>11, <1>12 DEF new

LEMMA WriteNextKeeps == ASSUME IInv, WriteNext PROVE IInv'
<1>1. PICK w : FirstTurn(w) /\ w = Head(writing)
    BY DEF WriteNext, FirstTurn, IInv, TypeOK
<1>2. PICK s \in w.left :
          /\ IsFirst(s, w.left) /\ Signed(w.batch, s)
          /\ writing' = [writing EXCEPT ![1].left = @ \ {s}]
    BY <1>1 DEF WriteNext
<1>3. UNCHANGED <<agentVars, wire, replies, faults>> /\ batches' = batches
    BY DEF WriteNext, agentVars
<1>4. TypeOK /\ OnTheWire /\ BeingWritten /\ OnTheWayBack
    BY DEF IInv, Places
<1>5. writing \in Seq([batch : Nat, left : SUBSET Actions])
    BY <1>4 DEF TypeOK
<1>6. w \in [batch : Nat, left : SUBSET Actions] /\ w = writing[1] /\ 1 \in 1..Len(writing)
  <2>1. w = writing[1] /\ 1 \in 1..Len(writing)
      BY <1>1, FirstTurnIs DEF FirstTurn
  <2> QED
      BY ONLY <1>5, <2>1, ElementOfSequence
<1>7. /\ writing' \in Seq([batch : Nat, left : SUBSET Actions]) /\ Len(writing') = Len(writing)
      /\ writing'[1].batch = w.batch /\ writing'[1].left = w.left \ {s}
      /\ \A k \in 1..Len(writing) : writing'[k].batch = writing[k].batch
      /\ \A k \in 2..Len(writing) : writing'[k] = writing[k]
  <2>1. writing' = [writing EXCEPT ![1] = [w EXCEPT !.left = w.left \ {s}]]
      BY <1>2, <1>6
  <2>2. [w EXCEPT !.left = w.left \ {s}] \in [batch : Nat, left : SUBSET Actions]
      BY <1>6
  <2> QED
      BY ONLY <1>5, <1>6, <2>1, <2>2
<1>8. OneAtATime' /\ OnTheChain' /\ TakenIsRecorded' /\ OrderKept'
    BY <1>1, <1>2, <1>3, SignedKeeps
<1>9. /\ chain' \in Seq([batch : Nat, span : Actions])
      /\ \A n \in 1..Len(chain') : chain'[n].batch \in 1..Len(batches)
      /\ Len(chain) \in Nat /\ Len(chain') = Len(chain) + 1
      /\ \A n \in 1..Len(chain) : chain'[n] = chain[n]
      /\ chain'[Len(chain) + 1] = [batch |-> w.batch, span |-> s]
    BY <1>1, <1>2, <1>3, SignedKeeps
<1>10. \A i, x : Recorded(i, x) => Recorded(i, x)'
    BY <1>1, <1>2, <1>3, SignedKeeps
<1>11. TypeOK'
    BY <1>3, <1>4, <1>7, <1>9 DEF TypeOK, agentVars
<1>12. OnTheWire'
  <2>1. w.batch \notin wire
      BY <1>1, FirstTurnIs
  <2>2. ASSUME NEW i \in wire PROVE \A n \in 1..Len(chain') : chain'[n].batch # i
      BY <1>4, <1>9, <2>1, <2>2 DEF OnTheWire
  <2>3. ASSUME NEW i \in wire PROVE \A k \in 1..Len(writing') : writing'[k].batch # i
      BY <1>4, <1>7, <2>3 DEF OnTheWire
  <2> QED
      BY <1>3, <1>4, <2>2, <2>3 DEF OnTheWire, Out
<1>13. OnTheWayBack'
    BY <1>3, <1>4, <1>10 DEF OnTheWayBack, Out, AllRecorded
<1>14. BeingWritten'
  <2>1. Left(1)'
    <3>1. Recorded(w.batch, s)'
        BY <1>9 DEF Recorded
    <3>2. /\ \A x \in batches[w.batch].spans \cap Actions : x \in w.left \/ Recorded(w.batch, x)
          /\ \A n \in 1..Len(chain) : chain[n].batch = w.batch => \A x \in w.left : chain[n].span < x
        BY <1>1, FirstTurnIs
    <3>3. ASSUME NEW n \in 1..Len(chain'), chain'[n].batch = w.batch, NEW x \in w.left \ {s}
          PROVE  chain'[n].span < x
      <4>1. CASE n = Len(chain) + 1
        <5>1. s <= x /\ s \in Nat /\ x \in Nat /\ s # x
            BY <1>2, <1>6, <3>3, DeliveryConstants DEF IsFirst
        <5> QED
            BY <1>9, <4>1, <5>1
      <4>2. CASE n \in 1..Len(chain)
          BY <1>9, <3>2, <3>3, <4>2
      <4> QED
          BY <1>9, <3>3, <4>1, <4>2
    <3>4. ASSUME NEW x \in batches[w.batch].spans \cap Actions
          PROVE  x \in w.left \ {s} \/ Recorded(w.batch, x)'
        BY <1>10, <3>1, <3>2
    <3> QED
        BY <1>3, <1>7, <3>3, <3>4 DEF Left
  <2>2. ASSUME NEW k \in 2..Len(writing) PROVE Left(k)'
    <3>1. k \in 1..Len(writing) /\ k \in Nat /\ writing'[k] = writing[k]
        BY <1>5, <1>7
    <3>2. Left(k) /\ writing[k].batch # w.batch
        BY <1>1, <1>4, <3>1, FirstTurnIs DEF BeingWritten
    <3>3. \A n \in 1..Len(chain') : chain'[n].batch = writing[k].batch =>
              n \in 1..Len(chain) /\ chain'[n] = chain[n]
        BY <1>9, <3>2
    <3>4. PICK v : v = writing[k]
        OBVIOUS
    <3> QED
        BY <1>3, <1>10, <3>1, <3>2, <3>3, <3>4, LeftStaysBehind
  <2>3. \A k \in 1..Len(writing) : k = 1 \/ k \in 2..Len(writing)
      BY <1>5
  <2>4. \A k \in 1..Len(writing) : Left(k)'
      BY <2>1, <2>2, <2>3
  <2> QED
      BY <1>3, <1>4, <1>7, <2>4 DEF BeingWritten, Out
<1> QED
    BY <1>8, <1>11, <1>12, <1>13, <1>14 DEF IInv, Places

\* The first turn is over, with an answer; a receipt for it may have come to be.
LEMMA TurnEnds ==
    ASSUME IInv, NEW w, FirstTurn(w), NEW ok \in BOOLEAN, ok => AllRecorded(w.batch),
           writing' = Tail(writing), Reply(w.batch, ok),
           UNCHANGED <<agentVars, wire>>, faults' \in 0..MaxFaults,
           OneAtATime', OnTheChain', TakenIsRecorded', OrderKept',
           chain' \in Seq([batch : Nat, span : Actions]),
           \A n \in 1..Len(chain') : chain'[n].batch \in 1..Len(batches),
           \A i, x : Recorded(i, x) => Recorded(i, x)',
           \A n \in 1..Len(chain') : chain'[n].batch # w.batch => n \in 1..Len(chain) /\ chain'[n] = chain[n]
    PROVE  IInv'
<1> DEFINE answer == [batch |-> w.batch, ok |-> ok]
<1>1. TypeOK /\ OnTheWire /\ BeingWritten /\ OnTheWayBack
    BY DEF IInv, Places
<1>2. /\ w.batch \in 1..Len(batches) /\ Out(w.batch) /\ w.batch \notin wire
      /\ \A reply \in replies : reply.batch # w.batch
      /\ \A k \in 2..Len(writing) : writing[k].batch # w.batch
    BY FirstTurnIs
<1>3. replies' = replies \cup {answer} /\ batches' = batches
    BY DEF Reply, agentVars
<1>4. answer \in [batch : 1..Len(batches), ok : BOOLEAN] /\ answer.batch = w.batch /\ answer.ok = ok
    BY <1>2
<1> HIDE DEF answer
<1>5. /\ writing \in Seq([batch : Nat, left : SUBSET Actions]) /\ 1 \in 1..Len(writing)
      /\ \A k \in 1..Len(writing) : writing[k].batch \in 1..Len(batches)
    BY <1>1, FirstTurnIs DEF TypeOK
<1>6. /\ writing' \in Seq([batch : Nat, left : SUBSET Actions]) /\ Len(writing') = Len(writing) - 1
      /\ \A k \in 1..Len(writing') : k \in Nat /\ k + 1 \in 2..Len(writing) /\ k + 1 \in 1..Len(writing)
      /\ \A k \in 1..Len(writing') : writing'[k] = writing[k + 1]
    BY ONLY <1>5, writing' = Tail(writing)
<1>7. TypeOK'
  <2>1. \A k \in 1..Len(writing') : writing'[k].batch \in 1..Len(batches)
      BY <1>5, <1>6
  <2>2. replies' \subseteq [batch : 1..Len(batches), ok : BOOLEAN]
      BY <1>1, <1>3, <1>4 DEF TypeOK
  <2> QED
      BY <1>1, <1>3, <1>6, <2>1, <2>2 DEF TypeOK, agentVars
<1>8. OnTheWire'
  <2>1. ASSUME NEW i \in wire PROVE \A n \in 1..Len(chain') : chain'[n].batch # i
      BY <1>1, <1>2, <2>1 DEF OnTheWire
  <2>2. ASSUME NEW i \in wire PROVE \A k \in 1..Len(writing') : writing'[k].batch # i
      BY <1>1, <1>6, <2>2 DEF OnTheWire
  <2>3. ASSUME NEW i \in wire PROVE \A reply \in replies' : reply.batch # i
      BY <1>1, <1>2, <1>3, <1>4, <2>3 DEF OnTheWire
  <2> QED
      BY <1>1, <1>3, <2>1, <2>2, <2>3 DEF OnTheWire, Out
<1>9. OnTheWayBack'
  <2>1. \A reply \in replies' : Out(reply.batch) /\ (reply.ok => AllRecorded(reply.batch))
      BY <1>1, <1>2, <1>3, <1>4 DEF OnTheWayBack
  <2>2. \A reply, other \in replies' : other.batch = reply.batch => other = reply
      BY <1>1, <1>2, <1>3, <1>4 DEF OnTheWayBack
  <2> QED
      BY <1>3, <2>1, <2>2 DEF OnTheWayBack, Out, AllRecorded
<1>10. BeingWritten'
  <2>1. ASSUME NEW k \in 1..Len(writing')
        PROVE  Left(k)' /\ Out(writing'[k].batch) /\ \A reply \in replies' : reply.batch # writing'[k].batch
    <3>1. k \in Nat /\ k + 1 \in 1..Len(writing) /\ writing'[k] = writing[k + 1] /\ k + 1 \in 2..Len(writing)
        BY <1>6, <2>1
    <3>2. PICK v : v = writing[k + 1]
        OBVIOUS
    <3>3. Left(k + 1) /\ Out(v.batch) /\ v.batch # w.batch /\ \A reply \in replies : reply.batch # v.batch
        BY <1>1, <1>2, <3>1, <3>2 DEF BeingWritten
    <3>4. \A n \in 1..Len(chain') : chain'[n].batch = v.batch => n \in 1..Len(chain) /\ chain'[n] = chain[n]
        BY <3>3
    <3>5. Left(k)'
        BY <1>3, <3>1, <3>2, <3>3, <3>4, LeftStaysBehind
    <3> QED
        BY <1>3, <1>4, <3>1, <3>2, <3>3, <3>5
  <2>2. ASSUME NEW k \in 1..Len(writing'), NEW l \in 1..Len(writing'), l # k
        PROVE  writing'[l].batch # writing'[k].batch
    <3>1. l + 1 # k + 1 /\ l + 1 \in 1..Len(writing) /\ k + 1 \in 1..Len(writing)
        BY <1>6, <2>2
    <3> QED
        BY <1>1, <1>6, <3>1 DEF BeingWritten
  <2> QED
      BY <1>3, <2>1, <2>2 DEF BeingWritten, Out
<1> QED
    BY <1>7, <1>8, <1>9, <1>10 DEF IInv, Places

LEMMA ServerKeeps == IInv /\ Server => IInv'
<1> SUFFICES ASSUME IInv, Server PROVE IInv'
    OBVIOUS
<1>1. TypeOK
    BY DEF IInv
<1>2. CASE WriteFails
  <2>1. PICK w : FirstTurn(w) /\ w = Head(writing)
      BY <1>1, <1>2 DEF WriteFails, FirstTurn, TypeOK
  <2>2. PICK s \in w.left : IsFirst(s, w.left) /\ (chain' = chain \/ Signed(w.batch, s))
      BY <1>2, <2>1 DEF WriteFails
  <2>3. /\ writing' = Tail(writing) /\ Reply(w.batch, FALSE) /\ UNCHANGED <<agentVars, wire>>
        /\ faults' \in 0..MaxFaults
    <3>1. faults' \in 0..MaxFaults
        BY <1>1, <1>2, DeliveryConstants DEF WriteFails, Fault, TypeOK
    <3> QED
        BY <1>2, <2>1, <3>1 DEF WriteFails
  <2>4. CASE chain' = chain
    <3>1. OneAtATime' /\ OnTheChain' /\ TakenIsRecorded' /\ OrderKept'
        BY <2>3, <2>4, UnsignedKeeps DEF Unsigned
    <3>2. \A i, x : Recorded(i, x) => Recorded(i, x)'
        BY <2>4 DEF Recorded
    <3>3. chain' \in Seq([batch : Nat, span : Actions]) /\ \A n \in 1..Len(chain') : chain'[n].batch \in 1..Len(batches)
        BY <1>1, <2>4 DEF TypeOK
    <3> QED
        BY <2>1, <2>3, <2>4, <3>1, <3>2, <3>3, TurnEnds
  <2>5. CASE Signed(w.batch, s)
    <3>1. batches' = batches /\ wire' = wire
        BY <2>3 DEF agentVars
    <3>2. OneAtATime' /\ OnTheChain' /\ TakenIsRecorded' /\ OrderKept'
        BY <2>1, <2>2, <2>5, <3>1, SignedKeeps
    <3>3. /\ chain' \in Seq([batch : Nat, span : Actions])
          /\ \A n \in 1..Len(chain') : chain'[n].batch \in 1..Len(batches)
          /\ Len(chain) \in Nat /\ Len(chain') = Len(chain) + 1
          /\ \A n \in 1..Len(chain) : chain'[n] = chain[n]
          /\ chain'[Len(chain) + 1] = [batch |-> w.batch, span |-> s]
        BY <2>1, <2>2, <2>5, <3>1, SignedKeeps
    <3>4. \A i, x : Recorded(i, x) => Recorded(i, x)'
        BY <2>1, <2>2, <2>5, <3>1, SignedKeeps
    <3>5. \A n \in 1..Len(chain') : chain'[n].batch # w.batch => n \in 1..Len(chain) /\ chain'[n] = chain[n]
        BY <3>3
    <3> QED
        BY <2>1, <2>3, <3>2, <3>3, <3>4, <3>5, TurnEnds
  <2> QED
      BY <2>2, <2>4, <2>5
<1>3. CASE Answers
  <2>1. PICK w : FirstTurn(w) /\ w = Head(writing)
      BY <1>1, <1>3 DEF Answers, FirstTurn, TypeOK
  <2>2. /\ w.left = {} /\ writing' = Tail(writing) /\ Reply(w.batch, TRUE)
        /\ UNCHANGED <<agentVars, wire>> /\ chain' = chain /\ faults' \in 0..MaxFaults
      BY <1>1, <1>3, <2>1 DEF Answers, Written, TypeOK
  <2>3. AllRecorded(w.batch)
      BY <2>1, <2>2, FirstTurnIs DEF AllRecorded
  <2>4. OneAtATime' /\ OnTheChain' /\ TakenIsRecorded' /\ OrderKept'
      BY <2>2, UnsignedKeeps DEF Unsigned
  <2>5. \A i, x : Recorded(i, x) => Recorded(i, x)'
      BY <2>2 DEF Recorded
  <2>6. chain' \in Seq([batch : Nat, span : Actions]) /\ \A n \in 1..Len(chain') : chain'[n].batch \in 1..Len(batches)
      BY <1>1, <2>2 DEF TypeOK
  <2> QED
      BY <2>1, <2>2, <2>3, <2>4, <2>5, <2>6, TurnEnds
<1>4. CASE Restart
  <2>1. OneAtATime' /\ OnTheChain' /\ TakenIsRecorded' /\ OrderKept'
      BY <1>4, UnsignedKeeps DEF Restart, Unsigned
  <2>2. TypeOK'
      BY <1>1, <1>4, DeliveryConstants DEF TypeOK, Restart, Fault, agentVars
  <2>3. OnTheWire' /\ BeingWritten' /\ OnTheWayBack'
      BY <1>4 DEF IInv, Places, OnTheWire, BeingWritten, OnTheWayBack, Restart, agentVars, Out
  <2> QED
      BY <2>1, <2>2, <2>3 DEF IInv, Places
<1> QED
    BY <1>2, <1>3, <1>4, WriteNextKeeps, LeavesTheWire DEF Server

-----------------------------------------------------------------------------
(* The invariant is inductive.                                             *)

LEMMA StepKeeps == IInv /\ [Next]_vars => IInv'
<1> SUFFICES ASSUME IInv, [Next]_vars PROVE IInv'
    OBVIOUS
<1>1. CASE UNCHANGED vars
    BY <1>1 DEF vars, agentVars, serverVars, IInv, TypeOK, OneAtATime, Places, OnTheWire, BeingWritten,
        OnTheWayBack, OnTheChain, TakenIsRecorded, OrderKept, Out, AllRecorded, Recorded, Left, Before
<1> QED
    BY <1>1, AgentKeeps, ServerKeeps DEF Next

(* IInv holds in every state that agent, network and server can reach: a   *)
(* batch is in one place, and what is written of it is where it is.        *)
THEOREM Inductive == Spec => []IInv
BY Initially, StepKeeps, PTL DEF Spec

(* Batches, turns, answers and receipts keep their form: each is of a      *)
(* batch that was made, and what is left of a turn are actions.            *)
THEOREM TypeCorrect == Spec => []TypeOK
<1>1. IInv => TypeOK
    BY DEF IInv
<1> QED
    BY <1>1, Inductive, PTL

(* What appendBatch answers "ok" to is written to its last action: a batch *)
(* the agent was told is taken is on the chain, whatever failed meanwhile. *)
THEOREM TakenIsWritten == Spec => []TakenIsRecorded
<1>1. IInv => TakenIsRecorded
    BY DEF IInv
<1> QED
    BY <1>1, Inductive, PTL

(* One batch at a time from the tracer, one turn at a time at the server:  *)
(* the chain is in their order, and has no action twice, but for a batch   *)
(* that was given up.                                                      *)
THEOREM ChainInOrder == Spec => []OrderKept
<1>1. IInv => OrderKept
    BY DEF IInv
<1> QED
    BY <1>1, Inductive, PTL

-----------------------------------------------------------------------------
(* The end of the agent's process.                                          *)

Posts == {"start", "beat", "stop", "ended", "changed"}
Asked == {"start", "beat", "stop"}

InOrder == requests \in Seq(Asked) /\ said \in Seq(Posts)

Said(event) == \E i \in 1..Len(said) : said[i] = event
ToBeSaid(event) == \E i \in 1..Len(requests) : requests[i] = event

\* What a close leaves behind it at each of its moments: its stop is still to
\* go out, or is out; and once the guard reads "closed" it is out.
ClosesTell ==
    /\ program \in {"closing", "closed"} => marked
    /\ program = "closing" => Said("stop") \/ ToBeSaid("stop")
    /\ program = "closed" => word = "closed"
    /\ word = "closed" => Said("stop")

ToldByOne == guard = "told" => Said("stop") \/ Said("ended")

ProcessInv == InOrder /\ ClosesTell /\ ToldByOne

\* What was said stays said.
LEMMA Saying ==
    ASSUME InOrder, NEW event \in Posts, Process!Say(event)
    PROVE  /\ said' \in Seq(Posts) /\ Said(event)'
           /\ \A other : Said(other) => Said(other)'
<1>1. said \in Seq(Posts)
    BY DEF InOrder
<1>2. CASE said # <<>> /\ Process!Last(said) = event
  <2>1. said' = said /\ said[Len(said)] = event /\ Len(said) \in 1..Len(said)
      BY <1>1, <1>2 DEF Process!Say, Process!Last
  <2> QED
      BY <1>1, <2>1 DEF Said
<1>3. CASE ~(said # <<>> /\ Process!Last(said) = event)
  <2>1. said' = Append(said, event)
      BY <1>3 DEF Process!Say
  <2>2. /\ said' \in Seq(Posts) /\ Len(said') = Len(said) + 1 /\ said'[Len(said) + 1] = event
        /\ \A i \in 1..Len(said) : said'[i] = said[i]
      BY <1>1, <2>1
  <2> QED
      BY <1>1, <2>2 DEF Said
<1> QED
    BY <1>2, <1>3

\* A process that is over has the word it had, or "exit".
LEMMA EndingKeeps ==
    ASSUME ProcessInv, NEW why, Process!Over(why), said' = said, guard' \in {guard, "ended the agent"}
    PROVE  ProcessInv'
<1>1. /\ program' = "over" /\ requests' = <<>> /\ said' = said
      /\ word' = "closed" => word = "closed"
      /\ guard' = "told" => guard = "told"
    BY DEF Process!Over
<1>2. <<>> \in Seq(Asked)
    BY EmptySeq
<1> QED
    BY <1>1, <1>2 DEF ProcessInv, InOrder, ClosesTell, ToldByOne, Said

LEMMA ClosingKeeps ==
    ASSUME ProcessInv, ~marked, NEW why, Process!Close(why), said' = said, guard' = guard
    PROVE  ProcessInv'
<1>1. requests \in Seq(Asked) /\ "stop" \in Asked /\ requests' = Append(requests, "stop")
    BY DEF ProcessInv, InOrder, Process!Close, Asked
<1>2. requests' \in Seq(Asked) /\ ToBeSaid("stop")'
    BY <1>1 DEF ToBeSaid
<1> QED
    BY <1>2 DEF ProcessInv, InOrder, ClosesTell, ToldByOne, Said, Process!Close

\* What takes no part in it.
LEMMA Apart ==
    ASSUME ProcessInv, UNCHANGED <<program, marked, word, requests, guard, said>>
    PROVE  ProcessInv'
BY DEF ProcessInv, InOrder, ClosesTell, ToldByOne, Said, ToBeSaid

\* Strict mode's end, from whichever request it is met at.
LEMMA HaltKeeps ==
    ASSUME ProcessInv, Process!Halt, said' = said, guard' = guard
    PROVE  ProcessInv'
<1>1. CASE Process!Over("halts")
    BY <1>1, EndingKeeps
<1>2. CASE Process!ShutsDown
  <2>1. CASE marked /\ UNCHANGED <<program, ending, marked, word, beating, requests>>
      BY <2>1, Apart
  <2>2. CASE ~marked /\ Process!Close(ending)
      BY <2>2, ClosingKeeps
  <2>3. CASE /\ ~marked /\ marked' = TRUE /\ requests' = <<>>
             /\ UNCHANGED <<program, ending, word>>
      BY <2>3 DEF ProcessInv, InOrder, ClosesTell, ToldByOne, Said
  <2> QED
      BY <1>2, <2>1, <2>2, <2>3 DEF Process!ShutsDown, Process!agent
<1> QED
    BY <1>1, <1>2 DEF Process!Halt

-----------------------------------------------------------------------------
(* Its steps.                                                               *)

LEMMA ProgramKeeps == ProcessInv /\ Process!Program => ProcessInv'
<1> SUFFICES ASSUME ProcessInv, Process!Program PROVE ProcessInv'
    OBVIOUS
<1>1. CASE Process!Shutdown
    BY <1>1, ClosingKeeps DEF Process!Shutdown
<1>2. CASE Process!CloseReturns
  <2>1. /\ program = "closing" /\ requests = <<>> /\ program' = "closed" /\ word' = "closed"
        /\ UNCHANGED <<marked, requests, guard, said>>
      BY <1>2 DEF Process!CloseReturns, Process!heartbeat
  <2>2. Said("stop")
      BY <2>1 DEF ProcessInv, ClosesTell, ToBeSaid
  <2> QED
      BY <2>1, <2>2 DEF ProcessInv, InOrder, ClosesTell, ToldByOne, Said
<1>3. CASE Process!Leaves
    BY <1>3, EndingKeeps DEF Process!Leaves
<1>4. CASE Process!Killed
    BY <1>4, EndingKeeps DEF Process!Killed
<1>5. ASSUME NEW why \in {"returns", "exits", "crashes"}, Process!Ends(why) PROVE ProcessInv'
    BY <1>5, ClosingKeeps, EndingKeeps DEF Process!Ends
<1> QED
    BY <1>1, <1>2, <1>3, <1>4, <1>5 DEF Process!Program

LEMMA SayingKeeps == ProcessInv /\ Process!Send => ProcessInv'
<1> SUFFICES ASSUME ProcessInv, Process!Send PROVE ProcessInv'
    OBVIOUS
<1>1. /\ requests # <<>> /\ requests' = Tail(requests) /\ Process!Say(Head(requests))
      /\ UNCHANGED <<program, marked, word, guard>>
    BY DEF Process!Send, Process!agent, Process!Say
<1>2. InOrder /\ requests \in Seq(Asked)
    BY DEF ProcessInv, InOrder
<1>3. PICK event \in Asked : event = Head(requests)
    BY <1>1, <1>2
<1>4. event \in Posts /\ Process!Say(event)
    BY <1>1, <1>3 DEF Asked, Posts
<1>5. said' \in Seq(Posts) /\ Said(event)' /\ \A other : Said(other) => Said(other)'
    BY <1>2, <1>4, Saying
<1>6. requests' \in Seq(Asked)
    BY <1>1, <1>2
<1>7. ToBeSaid("stop") => event = "stop" \/ ToBeSaid("stop")'
  <2>1. ASSUME NEW i \in 1..Len(requests), requests[i] = "stop", event # "stop"
        PROVE  i - 1 \in 1..Len(requests') /\ requests'[i - 1] = "stop"
      BY <1>1, <1>2, <1>3, <2>1
  <2> QED
      BY <2>1 DEF ToBeSaid
<1> QED
    BY <1>1, <1>5, <1>6, <1>7 DEF ProcessInv, InOrder, ClosesTell, ToldByOne

LEMMA HeartbeatKeeps == ProcessInv /\ Process!Heartbeat => ProcessInv'
<1> SUFFICES ASSUME ProcessInv, Process!Heartbeat PROVE ProcessInv'
    OBVIOUS
<1>1. CASE Process!NextBeat
  <2>1. /\ program = "running" /\ requests' = <<"beat">>
        /\ UNCHANGED <<program, marked, word, guard, said>>
      BY <1>1 DEF Process!NextBeat, Process!agent
  <2>2. requests' \in Seq(Asked)
      BY <2>1 DEF Asked
  <2> QED
      BY <2>1, <2>2 DEF ProcessInv, InOrder, ClosesTell, ToldByOne, Said
<1>2. CASE Process!GuardIsMissed
    BY <1>2, HaltKeeps DEF Process!GuardIsMissed
<1>3. CASE Process!Send
    BY <1>3, SayingKeeps
<1>4. CASE Process!Answered
    BY <1>4, Apart, HaltKeeps DEF Process!Answered, Process!Goes, Process!agent
<1>5. CASE Process!NotDelivered
    BY <1>5, Apart, HaltKeeps DEF Process!NotDelivered, Process!Goes, Process!agent
<1> QED
    BY <1>1, <1>2, <1>3, <1>4, <1>5 DEF Process!Heartbeat

LEMMA GuardKeeps == ProcessInv /\ Process!Guard => ProcessInv'
<1> SUFFICES ASSUME ProcessInv, Process!Guard PROVE ProcessInv'
    OBVIOUS
<1>1. ASSUME NEW event \in Posts, Process!Say(event), guard' = "told" => event \in {"stop", "ended"},
             UNCHANGED <<program, marked, word, requests>>
      PROVE  ProcessInv'
  <2>1. said' \in Seq(Posts) /\ Said(event)' /\ \A other : Said(other) => Said(other)'
      BY <1>1, Saying DEF ProcessInv
  <2>2. ToldByOne'
      BY <1>1, <2>1 DEF ToldByOne
  <2> QED
      BY <1>1, <2>1, <2>2 DEF ProcessInv, InOrder, ClosesTell, ToBeSaid
<1>2. CASE Process!GuardHears
  <2>1. UNCHANGED <<program, marked, word, requests>>
      BY <1>2 DEF Process!GuardHears, Process!agent, Process!heartbeat
  <2>2. CASE word = "closed"
    <3>1. said' = said /\ Said("stop")
        BY <1>2, <2>2 DEF ProcessInv, ClosesTell, Process!GuardHears
    <3> QED
        BY <2>1, <3>1 DEF ProcessInv, InOrder, ClosesTell, ToldByOne, Said, ToBeSaid
  <2>3. CASE word # "closed"
    <3>1. Process!Say("stop") \/ Process!Say("ended")
        BY <1>2, <2>3 DEF Process!GuardHears
    <3> QED
        BY <1>1, <2>1, <3>1 DEF Posts
  <2> QED
      BY <2>2, <2>3
<1>3. CASE Process!GuardSees
    BY <1>1, <1>3 DEF Process!GuardSees, Process!agent, Process!heartbeat, Posts
<1>4. CASE Process!GuardEnds
  <2>1. CASE program = "over"
      BY <1>4, <2>1
         DEF ProcessInv, InOrder, ClosesTell, ToldByOne, Said, Process!GuardEnds, Process!agent
  <2>2. CASE program # "over"
      BY <1>4, <2>2, EndingKeeps DEF Process!GuardEnds
  <2> QED
      BY <2>1, <2>2
<1> QED
    BY <1>2, <1>3, <1>4 DEF Process!Guard

LEMMA WorldKeeps == ProcessInv /\ Process!World => ProcessInv'
<1> SUFFICES ASSUME ProcessInv, Process!World PROVE ProcessInv'
    OBVIOUS
<1>1. CASE Process!GuardKilled
    BY <1>1 DEF Process!GuardKilled, Process!agent, Process!heartbeat,
        ProcessInv, InOrder, ClosesTell, ToldByOne, Said, ToBeSaid
<1>2. CASE Process!Edited \/ Process!NetworkChanges
    BY <1>2, Apart DEF Process!Edited, Process!NetworkChanges, Process!agent, Process!heartbeat
<1> QED
    BY <1>1, <1>2 DEF Process!World

(* Somebody says how an agent ended, unless its guard was killed or was    *)
(* ending it, whatever the moment the process dies at (heartbeat.ts close  *)
(* and #onExit, guard.ts main, __init__.py close): a guard that heard the  *)
(* end finds the agent's stop said, or says one, or "ended".               *)
THEOREM EndsAreTold == Process!Spec => []EndIsTold
<1>1. Process!Init => ProcessInv
  <2> SUFFICES ASSUME Process!Init PROVE ProcessInv
      OBVIOUS
  <2>1. requests = <<"start">> /\ said = <<>>
      BY DEF Process!Init
  <2>2. InOrder
      BY <2>1 DEF InOrder, Asked
  <2>3. program = "running" /\ word # "closed" /\ guard = "watching"
      BY SideConstants DEF Process!Init, Process!AgentProcessConstants
  <2> QED
      BY <2>2, <2>3 DEF ProcessInv, ClosesTell, ToldByOne
<1>2. ProcessInv /\ UNCHANGED Process!vars => ProcessInv'
    BY Apart DEF Process!vars, Process!agent, Process!heartbeat
<1>3. ProcessInv /\ [Process!Next]_(Process!vars) => ProcessInv'
    BY <1>2, ProgramKeeps, HeartbeatKeeps, GuardKeeps, WorldKeeps DEF Process!Next
<1>4. ProcessInv => EndIsTold
  <2> SUFFICES ASSUME ProcessInv, program = "over", guard = "told"
               PROVE  Process!Words \cap {"stop", "ended"} # {}
      BY DEF EndIsTold, Process!EndIsTold
  <2>1. InOrder /\ (Said("stop") \/ Said("ended"))
      BY DEF ProcessInv, ToldByOne
  <2> QED
      BY <2>1 DEF InOrder, Said, Process!Words, Process!Range
<1> QED
    BY <1>1, <1>3, <1>4, PTL DEF Process!Spec

-----------------------------------------------------------------------------
(* The guard's clock.                                                       *)

\* The pings are close enough for one to fall into a cut that is reported: less
\* than ninety seconds apart, and a minute by default.
PingsInTime == BeatEvery + 6 < OFFLINE_MIN_SECONDS

Late == step # "pinging" /\ now - lastTick > 6

BooksTyped ==
    /\ now \in Nat /\ lastTick \in Nat /\ lastOk \in Nat /\ nextPing \in Nat
    /\ pending \in Seq(Clock!Gap) /\ untold \in Seq(Clock!Gap) /\ still \in Seq(Clock!Gap)
    /\ step = "telling" => untold # <<>>

InTime ==
    /\ lastTick <= now /\ lastOk <= now /\ nextPing <= lastTick + BeatEvery
    /\ downSince # None => downSince = lastOk

\* A cut begins after the last answer.  Until a ping fails in it the next one is
\* due within BeatEvery of its beginning.
CutSeen ==
    ~network =>
        /\ cutFrom \in Nat /\ lastOk <= cutFrom /\ cutFrom <= now
        /\ downSince = None =>
             \/ step = "pinging" /\ now < cutFrom + OFFLINE_MIN_SECONDS
             \/ /\ step # "pinging" /\ nextPing <= cutFrom + BeatEvery
                /\ lastTick < nextPing \/ lastTick <= cutFrom

\* After a long one a ping has failed, or the loop is so late that it will take
\* its round for a sleep.
LongCutKnown ==
    longCut # None =>
        /\ longCut \in Nat /\ lastOk <= longCut /\ longCut + OFFLINE_MIN_SECONDS <= now
        /\ downSince # None \/ Late

ClockInv == BooksTyped /\ InTime /\ CutSeen /\ LongCutKnown

LEMMA ClockTimes ==
    /\ BeatEvery \in Nat /\ OFFLINE_MIN_SECONDS \in Nat /\ Timeout \in Nat /\ SleepLength \in Nat
    /\ None \notin Nat
BY SideConstants DEF Clock!GuardConstants

LEMMA TimePasses ==
    ASSUME now \in Nat, NEW time \in Nat, Clock!Passes(time)
    PROVE  now' \in Nat /\ now <= now'
BY ClockTimes DEF Clock!Passes

LEMMA LaterStill ==
    ASSUME NEW t \in Nat, NEW u \in Nat, NEW from \in Nat, t <= u, t - from > 6
    PROVE  u - from > 6
OBVIOUS

\* The loop at an await that is no ping: the clock may have gone on, and the
\* books are as they were.
LEMMA AwaitKeeps ==
    ASSUME ClockInv, BooksTyped', now <= now', step # "pinging", step' # "pinging",
           UNCHANGED <<network, cutFrom, longCut, lastTick, lastOk, downSince, nextPing>>
    PROVE  ClockInv'
<1>1. now \in Nat /\ now' \in Nat /\ lastTick \in Nat /\ lastOk \in Nat
    BY DEF ClockInv, BooksTyped
<1>2. InTime'
    BY <1>1 DEF ClockInv, InTime
<1>3. CutSeen'
    BY <1>1 DEF ClockInv, CutSeen
<1>4. LongCutKnown'
  <2>1. longCut' = longCut /\ lastOk' = lastOk /\ downSince' = downSince
      OBVIOUS
  <2>2. Late => Late'
    <3>1. lastTick' = lastTick /\ step' # "pinging" /\ now <= now'
        OBVIOUS
    <3>2. now - lastTick > 6 => now' - lastTick > 6
        BY ONLY <1>1, <3>1, LaterStill, Zenon
    <3> QED
        BY <3>1, <3>2 DEF Late
  <2>3. longCut # None => longCut + OFFLINE_MIN_SECONDS <= now'
      BY <1>1, ClockTimes DEF ClockInv, LongCutKnown
  <2> QED
      BY <2>1, <2>2, <2>3 DEF ClockInv, LongCutKnown
<1> QED
    BY <1>2, <1>3, <1>4 DEF ClockInv

LEMMA CutKeeps == PingsInTime /\ ClockInv /\ Clock!Cut => ClockInv'
<1> SUFFICES ASSUME PingsInTime, ClockInv, Clock!Cut PROVE ClockInv'
    OBVIOUS
<1> USE ClockTimes DEF Clock!Cut, Clock!computer, Clock!gaps
<1>1. BooksTyped' /\ InTime' /\ LongCutKnown'
    BY DEF ClockInv, BooksTyped, InTime, LongCutKnown, Late
<1>2. CutSeen'
    BY DEF ClockInv, BooksTyped, InTime, CutSeen, PingsInTime
<1> QED
    BY <1>1, <1>2 DEF ClockInv

LEMMA BackKeeps == PingsInTime /\ ClockInv /\ Clock!Back => ClockInv'
<1> SUFFICES ASSUME PingsInTime, ClockInv, Clock!Back PROVE ClockInv'
    OBVIOUS
<1> USE ClockTimes DEF Clock!Back, Clock!computer, Clock!gaps
<1>1. BooksTyped' /\ InTime' /\ CutSeen'
    BY DEF ClockInv, BooksTyped, InTime, CutSeen
<1>2. ASSUME now - cutFrom >= OFFLINE_MIN_SECONDS, downSince = None PROVE Late
    BY <1>2 DEF ClockInv, BooksTyped, InTime, CutSeen, PingsInTime, Late
<1>3. LongCutKnown'
    BY <1>2 DEF ClockInv, BooksTyped, InTime, CutSeen, LongCutKnown, Late
<1> QED
    BY <1>1, <1>3 DEF ClockInv

LEMMA WaitKeeps == ClockInv /\ Clock!Wait => ClockInv'
<1> SUFFICES ASSUME ClockInv, Clock!Wait PROVE ClockInv'
    OBVIOUS
<1>1. now' \in Nat /\ now <= now'
    BY TimePasses DEF ClockInv, BooksTyped, Clock!Wait
<1>2. BooksTyped'
    BY <1>1 DEF ClockInv, BooksTyped, Clock!Wait, Clock!gaps
<1> QED
    BY <1>1, <1>2, AwaitKeeps DEF Clock!Wait, Clock!network, Clock!gaps

\* What comes after the tick, or the ping: the gaps, one after the other.
LEMMA TellKeeps ==
    ASSUME NEW list \in Seq(Clock!Gap), step' = IF list = <<>> THEN "waiting" ELSE "telling",
           untold' = list, still' = <<>>
    PROVE  /\ untold' \in Seq(Clock!Gap) /\ still' \in Seq(Clock!Gap)
           /\ step' = "telling" => untold' # <<>>
           /\ step' # "pinging"
BY EmptySeq

LEMMA TickKeeps == PingsInTime /\ ClockInv /\ Clock!Tick => ClockInv'
<1> SUFFICES ASSUME PingsInTime, ClockInv, Clock!Tick PROVE ClockInv'
    OBVIOUS
<1>0. /\ step = "due" /\ lastTick' = now /\ UNCHANGED <<now, network>>
      /\ Clock!Jumped <=> now - lastTick > 6
    BY DEF Clock!Tick, Clock!Jumped
<1>1. pending' \in Seq(Clock!Gap)
  <2>1. [kind |-> "sleep", from |-> lastTick] \in Clock!Gap
      BY DEF ClockInv, BooksTyped, Clock!Gap
  <2>2. CASE Clock!Jumped
    <3>1. pending' = Append(pending, [kind |-> "sleep", from |-> lastTick])
        BY <2>2 DEF Clock!Tick, Clock!Sleeping
    <3>2. pending \in Seq(Clock!Gap)
        BY DEF ClockInv, BooksTyped
    <3> HIDE DEF ClockInv
    <3> QED
        BY <2>1, <3>1, <3>2
  <2>3. CASE ~Clock!Jumped
      BY <2>3 DEF ClockInv, BooksTyped, Clock!Tick
  <2> QED
      BY <2>2, <2>3
<1>2. CASE now >= nextPing
  <2>1. step' = "pinging" /\ nextPing' = now + BeatEvery /\ untold' = untold /\ still' = still
      BY <1>2 DEF Clock!Tick
  <2>b. BooksTyped
      BY DEF ClockInv
  <2>n. nextPing' \in Nat /\ now' = now /\ lastTick' = now /\ lastOk' \in Nat
    <3>1. lastOk' = now \/ lastOk' = lastOk
        BY DEF Clock!Tick, Clock!Sleeping
    <3> QED
        BY <1>0, <2>1, <2>b, <3>1, ClockTimes DEF BooksTyped
  <2>2. BooksTyped'
      BY <1>1, <2>1, <2>b, <2>n DEF BooksTyped
  <2>3. CASE Clock!Jumped
    <3>1. /\ downSince' = None /\ lastOk' = now /\ longCut' = None
          /\ cutFrom' = IF network THEN cutFrom ELSE now
        BY <2>3 DEF Clock!Tick, Clock!Sleeping
    <3>2. InTime' /\ CutSeen' /\ LongCutKnown'
        BY <1>0, <2>1, <3>1, ClockTimes
           DEF ClockInv, BooksTyped, InTime, CutSeen, LongCutKnown, PingsInTime
    <3> QED
        BY <2>2, <3>2 DEF ClockInv
  <2>4. CASE ~Clock!Jumped
    <3>1. UNCHANGED <<downSince, lastOk, longCut, cutFrom>>
        BY <2>4 DEF Clock!Tick
    <3>2. InTime' /\ LongCutKnown'
        BY <1>0, <2>1, <2>4, <3>1, ClockTimes
           DEF ClockInv, BooksTyped, InTime, LongCutKnown, Late
    <3>3. CutSeen'
        BY <1>0, <2>1, <2>4, <3>1, ClockTimes
           DEF ClockInv, BooksTyped, InTime, CutSeen, PingsInTime
    <3> QED
        BY <2>2, <3>2, <3>3 DEF ClockInv
  <2> QED
      BY <2>3, <2>4
<1>3. CASE ~(now >= nextPing)
  <2>1. nextPing' = nextPing /\ Clock!Tell(pending')
      BY <1>3 DEF Clock!Tick
  <2>2. PICK list \in Seq(Clock!Gap) : list = pending'
      BY <1>1
  <2>3. BooksTyped' /\ step' # "pinging"
    <3>1. step' = (IF list = <<>> THEN "waiting" ELSE "telling") /\ untold' = list /\ still' = <<>>
        BY <2>1, <2>2 DEF Clock!Tell
    <3>2. /\ untold' \in Seq(Clock!Gap) /\ still' \in Seq(Clock!Gap)
          /\ step' = "telling" => untold' # <<>>
          /\ step' # "pinging"
        BY <3>1, TellKeeps
    <3>3. lastOk' = now \/ lastOk' = lastOk
        BY DEF Clock!Tick, Clock!Sleeping
    <3> QED
        BY <1>0, <1>1, <2>1, <3>2, <3>3 DEF ClockInv, BooksTyped
  <2>4. CASE Clock!Jumped
    <3>1. /\ downSince' = None /\ lastOk' = now /\ longCut' = None
          /\ cutFrom' = IF network THEN cutFrom ELSE now
        BY <2>4 DEF Clock!Tick, Clock!Sleeping
    <3>2. InTime' /\ CutSeen' /\ LongCutKnown'
        BY <1>0, <1>3, <2>1, <2>3, <3>1, ClockTimes
           DEF ClockInv, BooksTyped, InTime, CutSeen, LongCutKnown
    <3> QED
        BY <2>3, <3>2 DEF ClockInv
  <2>5. CASE ~Clock!Jumped
    <3>1. UNCHANGED <<downSince, lastOk, longCut, cutFrom>>
        BY <2>5 DEF Clock!Tick
    <3>2. InTime' /\ LongCutKnown'
        BY <1>0, <2>1, <2>3, <2>5, <3>1, ClockTimes
           DEF ClockInv, BooksTyped, InTime, LongCutKnown, Late
    <3>3. CutSeen'
        BY <1>0, <1>3, <2>1, <2>3, <2>5, <3>1, ClockTimes
           DEF ClockInv, BooksTyped, InTime, CutSeen
    <3> QED
        BY <2>3, <3>2, <3>3 DEF ClockInv
  <2> QED
      BY <2>4, <2>5
<1> QED
    BY <1>2, <1>3

LEMMA PingFailsKeeps == ClockInv /\ Clock!PingFails => ClockInv'
<1> SUFFICES ASSUME ClockInv, Clock!PingFails PROVE ClockInv'
    OBVIOUS
<1>1. now' \in Nat /\ now <= now'
    BY TimePasses, ClockTimes DEF ClockInv, BooksTyped, Clock!PingFails, Clock!computer
<1>2. PICK list \in Seq(Clock!Gap) : list = pending
    BY DEF ClockInv, BooksTyped
<1>3. step' = (IF list = <<>> THEN "waiting" ELSE "telling") /\ untold' = list /\ still' = <<>>
    BY <1>2 DEF Clock!PingFails, Clock!Tell
<1>4. BooksTyped' /\ step' # "pinging"
    BY <1>1, <1>2, <1>3, TellKeeps DEF ClockInv, BooksTyped, Clock!PingFails
<1>5. /\ downSince' = lastOk
      /\ UNCHANGED <<network, cutFrom, longCut, lastTick, lastOk, nextPing>>
    BY DEF ClockInv, InTime, Clock!PingFails, Clock!DownSince, Clock!network
<1>6. InTime' /\ CutSeen' /\ LongCutKnown'
    BY <1>1, <1>5, ClockTimes DEF ClockInv, BooksTyped, InTime, CutSeen, LongCutKnown
<1> QED
    BY <1>4, <1>6 DEF ClockInv

\* The one that finds the network there again.
LEMMA FoundAgain ==
    ASSUME ClockInv, Clock!PingAnswered, longCut # None
    PROVE  /\ pending' = Append(pending, [kind |-> "offline", from |-> downSince])
           /\ downSince \in Nat /\ downSince <= longCut
<1>1. downSince # None /\ downSince = lastOk
    BY DEF ClockInv, InTime, LongCutKnown, Late, Clock!PingAnswered
<1>2. downSince \in Nat /\ downSince <= longCut /\ now - downSince >= OFFLINE_MIN_SECONDS
    BY <1>1, ClockTimes DEF ClockInv, BooksTyped, LongCutKnown
<1> QED
    BY <1>1, <1>2 DEF Clock!PingAnswered

LEMMA PingAnsweredKeeps == ClockInv /\ Clock!PingAnswered => ClockInv'
<1> SUFFICES ASSUME ClockInv, Clock!PingAnswered PROVE ClockInv'
    OBVIOUS
<1>1. pending' \in Seq(Clock!Gap)
  <2>1. CASE downSince # None /\ now - downSince >= OFFLINE_MIN_SECONDS
    <3>1. [kind |-> "offline", from |-> downSince] \in Clock!Gap
        BY <2>1 DEF ClockInv, BooksTyped, InTime, Clock!Gap
    <3> QED
        BY <2>1, <3>1 DEF ClockInv, BooksTyped, Clock!PingAnswered
  <2>2. CASE ~(downSince # None /\ now - downSince >= OFFLINE_MIN_SECONDS)
      BY <2>2 DEF ClockInv, BooksTyped, Clock!PingAnswered
  <2> QED
      BY <2>1, <2>2
<1>2. PICK list \in Seq(Clock!Gap) : list = pending'
    BY <1>1
<1>3. step' = (IF list = <<>> THEN "waiting" ELSE "telling") /\ untold' = list /\ still' = <<>>
    BY <1>2 DEF Clock!PingAnswered, Clock!Tell
<1>4. /\ network /\ downSince' = None /\ lastOk' = now /\ longCut' = None
      /\ UNCHANGED <<now, network, cutFrom, lastTick, nextPing>>
    BY DEF Clock!PingAnswered, Clock!computer, Clock!network
<1>5. BooksTyped'
    BY <1>1, <1>3, <1>4, TellKeeps DEF ClockInv, BooksTyped
<1>6. InTime' /\ CutSeen' /\ LongCutKnown'
    BY <1>4 DEF ClockInv, BooksTyped, InTime, CutSeen, LongCutKnown
<1> QED
    BY <1>5, <1>6 DEF ClockInv

LEMMA PostedKeeps ==
    ASSUME ClockInv, step = "telling", NEW kept \in Seq(Clock!Gap), Clock!Posted(kept),
           now' \in Nat, now <= now',
           UNCHANGED <<network, cutFrom, longCut, lastTick, lastOk, downSince, nextPing>>
    PROVE  ClockInv'
<1>1. untold \in Seq(Clock!Gap) /\ untold # <<>>
    BY DEF ClockInv, BooksTyped
<1>2. Tail(untold) \in Seq(Clock!Gap)
    BY <1>1
<1>3. <<>> \in Seq(Clock!Gap)
    BY EmptySeq
<1>4. BooksTyped' /\ step' # "pinging"
  <2>1. CASE Tail(untold) = <<>>
    <3>1. untold' = <<>> /\ step' = "waiting" /\ pending' = kept /\ still' = <<>>
        BY <2>1 DEF Clock!Posted
    <3> QED
        BY <1>3, <3>1 DEF ClockInv, BooksTyped
  <2>2. CASE Tail(untold) # <<>>
    <3>1. untold' = Tail(untold) /\ step' = step /\ pending' = pending /\ still' = kept
        BY <2>2 DEF Clock!Posted
    <3> QED
        BY <1>2, <2>2, <3>1 DEF ClockInv, BooksTyped
  <2> QED
      BY <2>1, <2>2
<1> QED
    BY <1>4, AwaitKeeps

LEMMA GapKeeps == ClockInv /\ (Clock!GapTold \/ Clock!GapNotTold) => ClockInv'
<1> SUFFICES ASSUME ClockInv, Clock!GapTold \/ Clock!GapNotTold PROVE ClockInv'
    OBVIOUS
<1>1. /\ step = "telling" /\ untold \in Seq(Clock!Gap) /\ untold # <<>> /\ still \in Seq(Clock!Gap)
      /\ now \in Nat
    BY DEF ClockInv, BooksTyped, Clock!GapTold, Clock!GapNotTold
<1>2. UNCHANGED <<network, cutFrom, longCut, lastTick, lastOk, downSince, nextPing>>
    BY DEF Clock!GapTold, Clock!GapNotTold, Clock!network, Clock!gaps
<1>3. CASE Clock!GapTold
    BY <1>1, <1>2, <1>3, PostedKeeps DEF Clock!GapTold, Clock!computer
<1>4. CASE Clock!GapNotTold
  <2>1. now' \in Nat /\ now <= now'
      BY <1>1, <1>4, TimePasses, ClockTimes DEF Clock!GapNotTold, Clock!computer
  <2>2. Append(still, Head(untold)) \in Seq(Clock!Gap)
      BY <1>1
  <2> QED
      BY <1>1, <1>2, <1>4, <2>1, <2>2, PostedKeeps DEF Clock!GapNotTold
<1> QED
    BY <1>3, <1>4

(* A cut of two minutes is reported by the first ping answered after it,   *)
(* from a time no later than it began, whatever came between: short cuts,  *)
(* failed pings, gaps that could not be told; only a sleep, reported since,*)
(* hides it (guard.ts Gaps and watch).  It takes pings less than ninety    *)
(* seconds apart, which init does not ask for: its default is a minute.    *)
THEOREM LongCutsAlwaysTold ==
    ASSUME PingsInTime
    PROVE  Clock!Spec => LongCutsAreTold
<1>1. Clock!Init => ClockInv
  <2> SUFFICES ASSUME Clock!Init PROVE ClockInv
      OBVIOUS
  <2>1. BooksTyped
      BY EmptySeq, ClockTimes DEF Clock!Init, BooksTyped
  <2>2. InTime /\ CutSeen /\ LongCutKnown
      BY ClockTimes DEF Clock!Init, InTime, CutSeen, LongCutKnown
  <2> QED
      BY <2>1, <2>2 DEF ClockInv
<1>2. ClockInv /\ [Clock!Next]_(Clock!vars) => ClockInv'
  <2>1. ClockInv /\ UNCHANGED Clock!vars => ClockInv'
      BY DEF Clock!vars, ClockInv, BooksTyped, InTime, CutSeen, LongCutKnown, Late
  <2> QED
      BY <2>1, PingsInTime, CutKeeps, BackKeeps, WaitKeeps, TickKeeps, PingFailsKeeps,
         PingAnsweredKeeps, GapKeeps DEF Clock!Next
<1>3. ClockInv /\ Clock!PingAnswered /\ longCut # None =>
          Clock!Reports("offline") /\ pending'[Len(pending')].from <= longCut
  <2> SUFFICES ASSUME ClockInv, Clock!PingAnswered, longCut # None
               PROVE  Clock!Reports("offline") /\ pending'[Len(pending')].from <= longCut
      OBVIOUS
  <2>1. /\ pending' = Append(pending, [kind |-> "offline", from |-> downSince])
        /\ downSince <= longCut /\ pending \in Seq(Clock!Gap)
      BY FoundAgain DEF ClockInv, BooksTyped
  <2> DEFINE gap == [kind |-> "offline", from |-> downSince]
  <2>2. gap.kind = "offline" /\ gap.from = downSince
      OBVIOUS
  <2> HIDE DEF gap
  <2>3. Len(pending') = Len(pending) + 1 /\ pending'[Len(pending')] = gap /\ Len(pending) \in Nat
      BY <2>1 DEF gap
  <2> QED
      BY <2>1, <2>2, <2>3 DEF Clock!Reports
<1> QED
    BY <1>1, <1>2, <1>3, PTL DEF Clock!Spec, Clock!LongCutsAreTold, LongCutsAreTold
=============================================================================
