---------------------------- MODULE StoreProofs ----------------------------
(***************************************************************************)
(* What the receipt store and the signer keep together, for every length   *)
(* of chain, every number of lost requests, crashes and restored copies.   *)
(*                                                                         *)
(* Everything follows from one inductive invariant: the database and its   *)
(* copy hold beginnings of the signer's chain; a request nobody waits for  *)
(* can still only extend it by an event it does not hold; and the one that *)
(* is waited for was asked of the chain the database still holds.          *)
(***************************************************************************)
EXTENDS ReceiptStore, Prefixes

-----------------------------------------------------------------------------
(* The inductive invariant. *)

NamedOnce == \A i, j \in 1..Len(signed) : signed[i] = signed[j] /\ signed[i] \in Spans => i = j

HeldBySigner == IsPrefix(chain, signed) /\ IsPrefix(backup.chain, signed)

\* What a request would sign if it were read now: not an event already there.
Harmless(request) ==
    request.method = "SIGN_RECEIPT" /\ request.event \in Spans => ~Holds(request.prev, request.event)

\* What is waited for is what the task asked, of the chain it asked it for.
Awaited(request) ==
    /\ task.step # "none" /\ reply = NoReply
    /\ request.method = "SIGN_RECEIPT" =>
        task.step = "sign" /\ request.prev = chain /\ request.event = task.event
    /\ request.method = "GET_RECEIPTS" =>
        task.step = "pages" /\ request.from = Len(chain) + Len(task.pages)

OnTheWire ==
    \A i \in 1..Len(wire) :
        /\ Harmless(wire[i])
        /\ wire[i].live => i = Len(wire) /\ Awaited(wire[i])

Caused == pageLost \/ deleted

Replied ==
    reply # NoReply =>
        /\ wire = <<>> /\ task.step # "none"
        /\ reply.kind = "signature" =>
            signed = Append(chain, task.event) /\ (divergent => Caused)
        /\ reply.kind \in {"head", "checkpoint"} => reply.receipts = signed
        /\ reply.kind = "page" =>
            task.step = "pages" /\ reply.receipts = PageFrom(Len(chain) + Len(task.pages))

\* While pages or a checkpoint are awaited, nothing can be signed.
Unsigned == \A i \in 1..Len(wire) : wire[i].method # "SIGN_RECEIPT"

InProgress ==
    /\ task.step = "pages" =>
        /\ Unsigned
        /\ task.head = signed
        /\ Len(chain) + Len(task.pages) < Len(signed)
        /\ chain \o task.pages = SubSeq(signed, 1, Len(chain) + Len(task.pages))
    /\ task.step # "pages" => task.pages = <<>>
    /\ task.step = "seal" => Unsigned /\ chain = signed /\ chain # <<>>
    /\ task.step = "sign" => task.kind \in {"append", "create"}
    /\ task.step = "seal" => task.kind = "seal"
    /\ up = "down" => task = Idle
    /\ up = "starting" <=> task.kind = "startup"
    /\ up # "serving" => ~divergent

AnsweredIsSigned == \A a \in answered : a[1] <= Len(signed) /\ signed[a[1]] = a[2]

CopyIsWhole == \A c \in backup.seals : c # <<>> /\ IsPrefix(c, backup.chain)

\* The chain is behind the signer's journal for as long as the light is red.
RedForAReason == divergent => Caused \/ (Len(chain) < JournalStart /\ Len(chain) < Len(signed))

Linked ==
    /\ NamedOnce /\ HeldBySigner
    /\ OnTheWire /\ Replied /\ InProgress
    /\ AnsweredIsSigned /\ AnsweredKept
    /\ SealsCoverTheChain /\ CopyIsWhole
    /\ RedForAReason

IInv == TypeOK /\ Linked

-----------------------------------------------------------------------------
(* Types. *)

(* What SignerClient sends, and what the daemon gives back, has its type.  *)
LEMMA SendType ==
    ASSUME TypeOK, NEW request \in Requests, Send(request)
    PROVE  wire' \in Seq(Requests)
    BY AppendProperties DEF TypeOK, Send

(* Requests given up are still requests.                                   *)
LEMMA ForgottenType ==
    ASSUME TypeOK
    PROVE  Forgotten \in Seq(Requests) /\ Len(Forgotten) = Len(wire)
<1> DEFINE n == Len(wire)
<1>1. n \in Nat
    BY DEF TypeOK
<1>2. ASSUME NEW i \in 1..n PROVE [wire[i] EXCEPT !.live = FALSE] \in Requests
    <2>1. wire[i] \in Requests
        BY ElementOfSeq DEF TypeOK
    <2>2. QED
        BY <2>1 DEF Requests
<1>3. QED
    BY <1>1, <1>2, IsASeq DEF Forgotten

(* The requests there are, and the tasks, and the replies.                 *)
LEMMA RequestTypes ==
    ASSUME NEW prev \in Seq(Events), NEW e \in Events, NEW from \in Nat,
           NEW method \in {"GET_HEAD", "GET_RECEIPTS", "CHECKPOINT"}
    PROVE  Sign(prev, e) \in Requests /\ Ask(method, from) \in Requests
    BY EmptySeq DEF Sign, Ask, Requests, Events

LEMMA TaskTypes ==
    ASSUME NEW kind \in {"idle", "append", "create", "seal", "startup"},
           NEW step \in {"none", "sign", "head", "pages", "seal"}, NEW e \in Events
    PROVE  Task(kind, step, e) \in Tasks /\ Genesis \in Events
    BY EmptySeq DEF Task, Tasks, Events

LEMMA ReplyTypes ==
    ASSUME NEW kind \in {"none", "signature", "sequence", "clock", "head", "page", "checkpoint"},
           NEW receipts \in Seq(Events)
    PROVE  Given(kind, receipts) \in Replies /\ NoReply \in Replies
    BY EmptySeq DEF Given, Replies, NoReply

(* A page of the journal holds receipts.                                   *)
LEMMA PageType ==
    ASSUME TypeOK, NEW from \in Nat
    PROVE  PageFrom(from) \in Seq(Events)
<1>1. CASE from < JournalStart /\ from # Len(signed) - 1
    BY <1>1, EmptySeq DEF PageFrom
<1>2. ASSUME NEW n \in Nat, n <= Len(signed) PROVE SubSeq(signed, from + 1, n) \in Seq(Events)
    <2>1. \A i \in (from + 1)..n : signed[i] \in Events
        BY <1>2, ElementOfSeq DEF TypeOK
    <2>2. QED
        BY <1>2, <2>1, SubSeqProperties
<1>3. QED
    BY <1>1, <1>2, ReceiptStoreAssumption DEF PageFrom, TypeOK

(* The receipts before a position, and what is told of it.                 *)
LEMMA BeginningOf ==
    ASSUME NEW S, NEW s \in Seq(S), NEW i \in 1..Len(s)
    PROVE  SubSeq(s, 1, i - 1) \in Seq(S) /\ Len(SubSeq(s, 1, i - 1)) = i - 1 /\ s[i] \in S
<1>1. \A k \in 1..(i - 1) : s[k] \in S
    BY ElementOfSeq
<1>2. QED
    BY <1>1, ElementOfSeq, SubSeqProperties

(* An empty chain, nothing asked.                                          *)
LEMMA TypeInit == Init => TypeOK
<1> SUFFICES ASSUME Init PROVE TypeOK
    OBVIOUS
<1>1. <<>> \in Seq(Events) /\ <<>> \in Seq(Requests)
    BY EmptySeq
<1>2. Genesis \in Events
    BY DEF Events
<1>3. Idle \in Tasks /\ NoReply \in Replies
    BY <1>1, <1>2, TaskTypes, ReplyTypes DEF Idle
<1>4. Database \in Dbs /\ backup \in Dbs
    BY <1>1 DEF Init, Database, Dbs
<1>5. 0 \in 0..MaxFaults
    BY ReceiptStoreAssumption
<1>6. QED
    BY <1>1, <1>3, <1>4, <1>5 DEF Init, TypeOK

(* A database whose four parts have their types.                           *)
LEMMA DatabaseType ==
    Database \in Dbs <=>
        /\ chain \in Seq(Events) /\ owner \in {Nobody, Customer}
        /\ deleted \in BOOLEAN /\ seals \subseteq Seq(Events)
    BY DEF Database, Dbs

(* What the four callers of reconcileNow do with its outcome keeps the     *)
(* types, whatever the outcome.                                            *)
LEMMA ResumeType ==
    ASSUME TypeOK, NEW outcome, NEW level \in Seq(Events), Resume(outcome, level)
    PROVE  /\ up' \in {"down", "starting", "serving"}
           /\ task' \in Tasks /\ wire' \in Seq(Requests)
           /\ answered' \subseteq ((Nat \ {0}) \X Events)
<1>e. <<>> \in Seq(Events) /\ Genesis \in Events /\ task.event \in Events
    BY EmptySeq DEF Events, TypeOK, Tasks
<1>i. Idle \in Tasks
    BY <1>e, TaskTypes DEF Idle
<1>u. up' \in {"down", "starting", "serving"}
    BY DEF Resume, TypeOK
<1>1. CASE task' = Idle /\ wire' = wire /\ answered' = answered
    BY <1>1, <1>i, <1>u DEF TypeOK
<1>2. ASSUME NEW i \in 1..Len(level), level[i] = task.event, task' = Idle, wire' = wire,
             answered' = answered \cup {Told(SubSeq(level, 1, i - 1), task.event)}
      PROVE  task' \in Tasks /\ wire' \in Seq(Requests) /\ answered' \subseteq ((Nat \ {0}) \X Events)
    <2>1. Told(SubSeq(level, 1, i - 1), task.event) \in (Nat \ {0}) \X Events
        BY <1>e, BeginningOf DEF Told
    <2>2. QED
        BY <1>2, <1>i, <2>1 DEF TypeOK
<1>3. CASE /\ task' = [Task("append", "sign", task.event) EXCEPT !.retried = TRUE]
           /\ Send(Sign(level, task.event)) /\ answered' = answered
    <2>1. Task("append", "sign", task.event) \in Tasks /\ Sign(level, task.event) \in Requests
        BY <1>e, TaskTypes, RequestTypes
    <2>2. task' \in Tasks
        BY <1>3, <2>1 DEF Tasks
    <2>3. QED
        BY <1>3, <1>u, <2>1, <2>2, SendType DEF TypeOK
<1>4. CASE task' = Task("seal", "seal", Genesis) /\ Send(Ask("CHECKPOINT", 0)) /\ answered' = answered
    <2>1. Task("seal", "seal", Genesis) \in Tasks /\ Ask("CHECKPOINT", 0) \in Requests
        BY <1>e, TaskTypes, RequestTypes
    <2>2. QED
        BY <1>4, <1>u, <2>1, SendType DEF TypeOK
<1>5. QED
    BY <1>1, <1>2, <1>3, <1>4, <1>u DEF Resume

(* reconcileNow's one transaction keeps the types.                         *)
LEMMA ReconcileType ==
    ASSUME TypeOK, NEW head \in Seq(Events), NEW missing, Reconcile(head, missing),
           pageLost' \in BOOLEAN
    PROVE  TypeOK'
<1> DEFINE outcome == Outcome(head, missing)
           level == IF outcome = "recovered" THEN head ELSE chain
<1>1. chain \in Seq(Events) /\ owner \in {Nobody, Customer} /\ deleted \in BOOLEAN /\ seals \subseteq Seq(Events)
    BY DatabaseType DEF TypeOK
<1>2. level \in Seq(Events)
    BY <1>1
<1>3. /\ chain' = level /\ Resume(outcome, level)
      /\ owner' = IF outcome = "recovered" /\ chain = <<>> THEN Nobody ELSE owner
      /\ divergent' = (outcome = "diverged" \/ (divergent /\ outcome # "recovered"))
      /\ reply' = NoReply
      /\ UNCHANGED <<signed, signerUp, deleted, seals, backup, listed, restored, faults>>
    BY DEF Reconcile
<1> HIDE DEF outcome, level
<1>4. Database' \in Dbs
    BY <1>1, <1>2, <1>3 DEF Database, Dbs
<1>5. reply' \in Replies
    BY <1>3, EmptySeq, ReplyTypes
<1>6. divergent' \in BOOLEAN
    BY <1>3 DEF TypeOK
<1>7. QED
    BY <1>2, <1>3, <1>4, <1>5, <1>6, ResumeType DEF TypeOK

(* Every step keeps the types.                                             *)
LEMMA TypeStep == TypeOK /\ [Next]_vars => TypeOK'
<1> SUFFICES ASSUME TypeOK, [Next]_vars PROVE TypeOK'
    OBVIOUS
<1>e. <<>> \in Seq(Events) /\ <<>> \in Seq(Requests) /\ Genesis \in Events
    BY EmptySeq DEF Events
<1>d. /\ chain \in Seq(Events) /\ owner \in {Nobody, Customer}
      /\ deleted \in BOOLEAN /\ seals \subseteq Seq(Events)
    BY DatabaseType DEF TypeOK
<1>i. Idle \in Tasks /\ NoReply \in Replies
    BY <1>e, TaskTypes, ReplyTypes DEF Idle
<1>f. Forgotten \in Seq(Requests)
    BY ForgottenType
<1>1. ASSUME NEW e \in Spans, AppendDuplicate(e) PROVE TypeOK'
    <2>1. PICK i \in 1..Len(chain) : chain[i] = e /\ answered' = answered \cup {Told(SubSeq(chain, 1, i - 1), e)}
        BY <1>1 DEF AppendDuplicate
    <2>2. Told(SubSeq(chain, 1, i - 1), e) \in (Nat \ {0}) \X Events
        BY <1>d, <2>1, BeginningOf DEF Told, Events
    <2>3. QED
        BY <1>1, <2>1, <2>2 DEF AppendDuplicate, TypeOK, signerVars, dbVars, serverVars, Database
<1>2. ASSUME NEW e \in Spans \cup Others, BeginAppend(e) PROVE TypeOK'
    <2>1. e \in Events
        BY DEF Events
    <2>2. Task("append", "sign", e) \in Tasks /\ Sign(chain, e) \in Requests
        BY <1>d, <2>1, TaskTypes, RequestTypes
    <2>3. wire' \in Seq(Requests)
        BY <1>2, <2>2, SendType DEF BeginAppend
    <2>4. QED
        BY <1>2, <2>2, <2>3 DEF BeginAppend, TypeOK, dbVars, historyVars, Database
<1>3. ASSUME NEW org \in Owners, BeginCreate(org) PROVE TypeOK'
    <2>1. Task("create", "sign", Genesis) \in Tasks /\ Sign(<<>>, Genesis) \in Requests
        BY <1>e, TaskTypes, RequestTypes
    <2>2. task' \in Tasks
        BY <1>3, <2>1, ReceiptStoreAssumption DEF BeginCreate, Tasks
    <2>3. wire' \in Seq(Requests)
        BY <1>3, <2>1, SendType DEF BeginCreate
    <2>4. QED
        BY <1>3, <2>2, <2>3 DEF BeginCreate, TypeOK, dbVars, historyVars, Database
<1>4. CASE ListSystems
    BY <1>4 DEF ListSystems, TypeOK, signerVars, dbVars, historyVars, Database
<1>5. CASE BeginSeal
    <2>1. Task("seal", "head", Genesis) \in Tasks /\ Ask("GET_HEAD", 0) \in Requests
        BY <1>e, TaskTypes, RequestTypes
    <2>2. wire' \in Seq(Requests)
        BY <1>5, <2>1, SendType DEF BeginSeal
    <2>3. QED
        BY <1>5, <2>1, <2>2 DEF BeginSeal, TypeOK, dbVars, historyVars, Database
<1>6. CASE StoreSigned
    <2>1. task.event \in Events /\ task.org \in {Nobody, Customer}
        BY DEF TypeOK, Tasks
    <2>2. Append(chain, task.event) \in Seq(Events)
        BY <1>d, <2>1, AppendProperties
    <2>3. Told(chain, task.event) \in (Nat \ {0}) \X Events
        BY <1>d, <2>1 DEF Told
    <2>4. Database' \in Dbs
        BY <1>6, <1>d, <2>1, <2>2 DEF StoreSigned, Database, Dbs
    <2>5. QED
        BY <1>6, <1>i, <2>3, <2>4 DEF StoreSigned, TypeOK
<1>7. CASE SignRefused
    <2>1. Ask("GET_HEAD", 0) \in Requests
        BY <1>e, RequestTypes
    <2>2. [task EXCEPT !.step = "head"] \in Tasks
        BY DEF TypeOK, Tasks
    <2>3. task' \in Tasks /\ wire' \in Seq(Requests)
        BY <1>7, <1>i, <2>1, <2>2, SendType DEF SignRefused, TypeOK
    <2>4. QED
        BY <1>7, <1>i, <2>3 DEF SignRefused, TypeOK, dbVars, historyVars, Database
<1>8. CASE GotHead
    <2> DEFINE head == reply.receipts
    <2>1. head \in Seq(Events)
        BY DEF TypeOK, Replies
    <2>2. CASE Len(head) > Len(chain) + 1
        <3>1. Len(chain) \in Nat
            BY <1>d
        <3>2. Ask("GET_RECEIPTS", Len(chain)) \in Requests
            BY <1>e, <3>1, RequestTypes
        <3>3. task' \in Tasks /\ wire' \in Seq(Requests) /\ reply' \in Replies
            BY <1>8, <1>i, <2>1, <2>2, <3>2, SendType DEF GotHead, TypeOK, Tasks
        <3>4. QED
            BY <1>8, <2>2, <3>3 DEF GotHead, TypeOK, dbVars, historyVars, Database
    <2>3. CASE ~(Len(head) > Len(chain) + 1)
        BY <1>8, <2>1, <2>3, ReconcileType DEF GotHead, TypeOK
    <2>4. QED
        BY <2>2, <2>3
<1>9. CASE GotPage
    <2> DEFINE pages == task.pages \o reply.receipts
    <2>1. reply.receipts \in Seq(Events) /\ task.pages \in Seq(Events) /\ task.head \in Seq(Events)
        BY DEF TypeOK, Replies, Tasks
    <2>2. pages \in Seq(Events)
        BY <2>1, ConcatProperties
    <2>3. CASE reply.receipts # <<>> /\ Len(pages) < Len(task.head) - Len(chain)
        <3>1. Len(chain) \in Nat /\ Len(pages) \in Nat
            BY <1>d, <2>2, LenProperties
        <3>2. Ask("GET_RECEIPTS", Len(chain) + Len(pages)) \in Requests
            <4> HIDE DEF pages
            <4>1. Len(chain) + Len(pages) \in Nat
                BY <3>1
            <4>2. QED
                BY <1>e, <4>1, RequestTypes
        <3>3. task' \in Tasks /\ wire' \in Seq(Requests) /\ reply' \in Replies
            BY <1>9, <1>i, <2>2, <2>3, <3>2, SendType DEF GotPage, TypeOK, Tasks
        <3>4. QED
            BY <1>9, <2>3, <3>3 DEF GotPage, TypeOK, dbVars, historyVars, Database
    <2>4. CASE ~(reply.receipts # <<>> /\ Len(pages) < Len(task.head) - Len(chain))
        BY <1>9, <2>1, <2>4, ReconcileType DEF GotPage, TypeOK
    <2>5. QED
        BY <2>3, <2>4
<1>10. CASE GotSeal
    <2>1. seals' \subseteq Seq(Events) /\ divergent' \in BOOLEAN
        BY <1>10, <1>d DEF GotSeal, TypeOK
    <2>2. Database' \in Dbs
        BY <1>10, <1>d, <2>1 DEF GotSeal, Database, Dbs
    <2>3. QED
        BY <1>10, <1>i, <2>1, <2>2 DEF GotSeal, TypeOK, historyVars
<1>11. CASE ConnectionLost \/ Timeout
    <2>1. Unavailable /\ faults' \in 0..MaxFaults
        BY <1>11, ReceiptStoreAssumption DEF ConnectionLost, Timeout, Fault, TypeOK
    <2>2. QED
        BY <1>i, <1>f, <2>1 DEF Unavailable, TypeOK, dbVars, Database
<1>12. CASE DeleteEmptySystem \/ EraseChain
    <2>1. Erase
        BY <1>12 DEF DeleteEmptySystem, EraseChain
    <2>2. Database' \in Dbs
        BY <1>e, <2>1 DEF Erase, Database, Dbs
    <2>3. QED
        BY <2>1, <2>2 DEF Erase, TypeOK, signerVars, serverVars
<1>13. CASE SignerHandles
    <2> DEFINE request == Head(wire)
    <2>1. wire # <<>> /\ request \in Requests /\ Tail(wire) \in Seq(Requests)
        BY <1>13, HeadTailProperties DEF SignerHandles, TypeOK
    <2>2. signed' \in Seq(Events)
        <3>1. signed' = Append(signed, request.event) \/ signed' = signed
            BY <1>13 DEF SignerHandles, HandleSign
        <3>2. request.event \in Events /\ signed \in Seq(Events)
            BY <2>1 DEF Requests, TypeOK
        <3>3. QED
            BY <3>1, <3>2, AppendProperties
    <2>3. \A value \in Replies : Reply(request, value) => reply' \in Replies
        BY DEF Reply, TypeOK
    <2>4. /\ Given("signature", <<>>) \in Replies /\ Given("sequence", <<>>) \in Replies
          /\ Given("head", signed) \in Replies /\ Given("checkpoint", signed) \in Replies
          /\ Given("page", PageFrom(request.from)) \in Replies
        <3>1. PageFrom(request.from) \in Seq(Events)
            BY <2>1, PageType DEF Requests
        <3>2. signed \in Seq(Events)
            BY DEF TypeOK
        <3>3. QED
            BY <1>e, <3>1, <3>2, ReplyTypes
    <2>5. reply' \in Replies
        BY <1>13, <2>3, <2>4 DEF SignerHandles, HandleSign
    <2>6. QED
        BY <1>13, <2>1, <2>2, <2>5 DEF SignerHandles, TypeOK, dbVars, serverVars, historyVars, Database
<1>14. CASE RefuseClock
    <2>1. Tail(wire) \in Seq(Requests)
        BY <1>14, HeadTailProperties DEF RefuseClock, TypeOK
    <2>2. reply' \in Replies
        BY <1>14, <1>e, ReplyTypes DEF RefuseClock, Reply, TypeOK
    <2>3. faults' \in 0..MaxFaults
        BY <1>14, ReceiptStoreAssumption DEF RefuseClock, Fault, TypeOK
    <2>4. QED
        BY <1>14, <2>1, <2>2, <2>3 DEF RefuseClock, TypeOK, dbVars, serverVars, Database
<1>15. CASE SignerCrash \/ SignerRestart
    <2>1. faults' \in 0..MaxFaults
        BY <1>15, ReceiptStoreAssumption DEF SignerCrash, SignerRestart, Fault, TypeOK, historyVars
    <2>2. wire' \in Seq(Requests) /\ signerUp' \in BOOLEAN
        BY <1>15, <1>e DEF SignerCrash, SignerRestart, TypeOK
    <2>3. UNCHANGED <<signed, reply, dbVars, serverVars, answered, pageLost, restored>>
        BY <1>15 DEF SignerCrash, SignerRestart, historyVars
    <2>4. QED
        BY <2>1, <2>2, <2>3 DEF TypeOK, dbVars, serverVars, Database
<1>16. CASE ServerCrash
    <2>1. wire' \in Seq(Requests)
        BY <1>16, <1>e, <1>f DEF ServerCrash
    <2>2. faults' \in 0..MaxFaults
        BY <1>16, ReceiptStoreAssumption DEF ServerCrash, Fault, TypeOK
    <2>3. QED
        BY <1>16, <1>i, <2>1, <2>2 DEF ServerCrash, TypeOK, dbVars, Database
<1>17. CASE ServerStart
    <2>1. Task("startup", "head", Genesis) \in Tasks /\ Ask("GET_HEAD", 0) \in Requests
        BY <1>e, TaskTypes, RequestTypes
    <2>2. task' \in Tasks /\ wire' \in Seq(Requests)
        BY <1>17, <2>1, SendType DEF ServerStart, TypeOK
    <2>3. QED
        BY <1>17, <2>2 DEF ServerStart, TypeOK, dbVars, historyVars, Database
<1>18. CASE TakeBackup
    BY <1>18 DEF TakeBackup, TypeOK, signerVars, serverVars, historyVars, Database
<1>19. CASE Restore
    <2>1. Database' \in Dbs
        BY <1>19 DEF Restore, TypeOK, Database, Dbs
    <2>2. faults' \in 0..MaxFaults
        BY <1>19, ReceiptStoreAssumption DEF Restore, Fault, TypeOK
    <2>3. QED
        BY <1>19, <2>1, <2>2 DEF Restore, TypeOK, signerVars, serverVars
<1>20. CASE UNCHANGED vars
    BY <1>20 DEF vars, signerVars, dbVars, serverVars, historyVars, TypeOK, Database
<1>21. QED
    BY <1>1, <1>2, <1>3, <1>4, <1>5, <1>6, <1>7, <1>8, <1>9, <1>10, <1>11, <1>12, <1>13, <1>14,
       <1>15, <1>16, <1>17, <1>18, <1>19, <1>20
    DEF Next, Server, Environment

-----------------------------------------------------------------------------
(* The socket. *)

(* The types the steps below need, one by one.                             *)
LEMMA Typed ==
    ASSUME TypeOK
    PROVE  /\ chain \in Seq(Events) /\ Len(chain) \in Nat
           /\ signed \in Seq(Events) /\ Len(signed) \in Nat
           /\ wire \in Seq(Requests) /\ Len(wire) \in Nat
           /\ task.pages \in Seq(Events) /\ task.head \in Seq(Events) /\ task.event \in Events
           /\ reply.receipts \in Seq(Events)
           /\ backup.chain \in Seq(Events)
    BY LenProperties DEF TypeOK, Database, Dbs, Tasks, Replies

(* With no task, or with its reply come, nobody waits for what is on the   *)
(* wire.                                                                   *)
LEMMA NobodyWaits ==
    ASSUME Linked, task = Idle \/ reply # NoReply
    PROVE  /\ \A i \in 1..Len(wire) : Harmless(wire[i]) /\ ~wire[i].live
           /\ reply # NoReply => wire = <<>> /\ task.step # "none"
           /\ task = Idle => reply = NoReply /\ task.step = "none"
    BY DEF Linked, OnTheWire, Awaited, Replied, Idle, Task

(* What a task sends is the last on the wire, and alone awaited.           *)
LEMMA SentIsAwaited ==
    ASSUME TypeOK, NEW request \in Requests, Send(request),
           \A i \in 1..Len(wire) : Harmless(wire[i]) /\ ~wire[i].live,
           Harmless(request), Awaited(request)'
    PROVE  OnTheWire'
<1>1. CASE wire' = wire
    BY <1>1 DEF OnTheWire
<1>2. CASE wire' = Append(wire, request)
    <2>1. /\ Len(wire') = Len(wire) + 1 /\ Len(wire) \in Nat
          /\ \A i \in 1..Len(wire) : wire'[i] = wire[i]
          /\ wire'[Len(wire) + 1] = request
        BY <1>2, Typed, AppendProperties
    <2>2. ASSUME NEW i \in 1..Len(wire)'
          PROVE  (Harmless(wire[i]) /\ (wire[i].live => i = Len(wire) /\ Awaited(wire[i])))'
        <3>1. CASE i = Len(wire) + 1
            <4>1. wire[i]' = request /\ i = Len(wire)'
                BY <2>1, <3>1
            <4>2. Awaited(wire[i])'
                BY <4>1 DEF Awaited
            <4>3. QED
                BY <4>1, <4>2 DEF Harmless
        <3>2. CASE i # Len(wire) + 1
            <4>1. i \in 1..Len(wire) /\ wire[i]' = wire[i]
                BY <2>1, <3>2
            <4>2. QED
                BY <4>1 DEF Harmless
        <3>3. QED
            BY <3>1, <3>2
    <2>3. QED
        BY <2>2 DEF OnTheWire
<1>3. QED
    BY <1>1, <1>2 DEF Send

(* Forgotten, requests can still be signed, but nobody waits for them.     *)
LEMMA ForgottenIsHarmless ==
    ASSUME TypeOK, Linked, wire' \in {Forgotten, <<>>}
    PROVE  OnTheWire'
<1>1. CASE wire' = <<>>
    BY <1>1, EmptySeq DEF OnTheWire
<1>2. CASE wire' = Forgotten
    <2>1. Len(wire') = Len(wire)
        BY <1>2, ForgottenType
    <2>2. ASSUME NEW i \in 1..Len(wire)
          PROVE  Harmless(wire'[i]) /\ ~wire'[i].live
        <3>1. wire'[i] = [wire[i] EXCEPT !.live = FALSE]
            BY <1>2 DEF Forgotten
        <3>2. wire[i] \in Requests
            BY Typed, ElementOfSeq
        <3>3. /\ wire'[i].method = wire[i].method /\ wire'[i].event = wire[i].event
              /\ wire'[i].prev = wire[i].prev /\ wire'[i].live = FALSE
            BY <3>1, <3>2 DEF Requests
        <3>4. Harmless(wire[i])
            BY DEF Linked, OnTheWire
        <3>5. QED
            BY <3>3, <3>4 DEF Harmless
    <2>3. QED
        BY <2>1, <2>2 DEF OnTheWire, Harmless
<1>3. QED
    BY <1>1, <1>2

-----------------------------------------------------------------------------
(* The server's steps, each from the invariant to the invariant. *)

(* A task begins: it asks for the genesis, for the next receipt or for the *)
(* head.                                                                   *)
LEMMA TaskStarts ==
    ASSUME TypeOK, Linked, TypeOK', task = Idle,
           NEW request \in Requests, Send(request), Harmless(request), Awaited(request)',
           \/ task'.step = "sign" /\ task'.kind \in {"append", "create"}
           \/ task'.step = "head",
           task'.pages = <<>>,
           UNCHANGED <<signed, reply, chain, deleted, seals, backup, divergent, answered, pageLost>>,
           \/ up' = up /\ up = "serving" /\ task'.kind # "startup"
           \/ up' = "starting" /\ task'.kind = "startup" /\ ~divergent
    PROVE  Linked'
<1>1. OnTheWire'
    BY NobodyWaits, SentIsAwaited
<1>2. Replied'
    BY NobodyWaits DEF Replied
<1>3. InProgress'
    BY DEF InProgress, Linked
<1>4. UNCHANGED <<NamedOnce, HeldBySigner, AnsweredIsSigned, SealsCoverTheChain, CopyIsWhole, RedForAReason>>
    BY DEF NamedOnce, HeldBySigner, AnsweredIsSigned, SealsCoverTheChain, CopyIsWhole, RedForAReason, Caused
<1>5. AnsweredKept'
    BY DEF AnsweredKept, Linked
<1>6. QED
    BY <1>1, <1>2, <1>3, <1>4, <1>5 DEF Linked

(* The steps that begin a write, and those that leave the chains alone.    *)
LEMMA BeginningsLinked ==
    ASSUME TypeOK, Linked, TypeOK',
           \/ \E e \in Spans \cup Others : BeginAppend(e)
           \/ \E org \in Owners : BeginCreate(org)
           \/ BeginSeal \/ ServerStart
           \/ ListSystems \/ TakeBackup \/ SignerRestart \/ UNCHANGED vars
    PROVE  Linked'
<1>e. <<>> \in Seq(Events) /\ Genesis \in Events
    BY EmptySeq DEF Events
<1>1. ASSUME NEW e \in Spans \cup Others, BeginAppend(e) PROVE Linked'
    <2>0. Sign(chain, e) \in Requests
        BY Typed, RequestTypes DEF Events
    <2>1. PICK request \in Requests : request = Sign(chain, e) /\ Harmless(request)
        BY <1>1, <2>0 DEF BeginAppend, Harmless, Sign
    <2>2. Serving /\ task' = Task("append", "sign", e) /\ Send(request)
          /\ UNCHANGED <<signed, signerUp, reply, dbVars, up, listed, divergent, historyVars>>
        BY <1>1, <2>1 DEF BeginAppend
    <2>3. Awaited(request)' /\ task'.step = "sign" /\ task'.kind = "append" /\ task'.pages = <<>>
        BY <2>1, <2>2, NobodyWaits DEF Serving, Awaited, Task, Sign, dbVars
    <2>4. task = Idle /\ up = "serving" /\ up' = up /\ Send(request)
          /\ UNCHANGED <<signed, reply, chain, deleted, seals, backup, divergent, answered, pageLost>>
        BY <2>2 DEF Serving, dbVars, historyVars
    <2>5. QED
        BY <2>1, <2>3, <2>4, TaskStarts
<1>2. ASSUME NEW org \in Owners, BeginCreate(org) PROVE Linked'
    <2> DEFINE request == Sign(<<>>, Genesis)
    <2>1. request \in Requests /\ Harmless(request)
        <3>1. ~Holds(<<>>, Genesis)
            BY EmptySeq DEF Holds
        <3>2. QED
            BY <1>e, <3>1, RequestTypes DEF Harmless, Sign
    <2>2. Serving /\ task' = [Task("create", "sign", Genesis) EXCEPT !.org = org] /\ Send(request)
          /\ chain = <<>>
          /\ UNCHANGED <<signed, signerUp, reply, dbVars, up, listed, divergent, historyVars>>
        BY <1>2 DEF BeginCreate
    <2>3. Awaited(request)' /\ task'.step = "sign" /\ task'.kind = "create" /\ task'.pages = <<>>
        BY <2>2, NobodyWaits DEF Serving, Awaited, Task, Sign, dbVars
    <2> HIDE DEF request
    <2>4. task = Idle /\ up = "serving" /\ up' = up /\ Send(request)
          /\ UNCHANGED <<signed, reply, chain, deleted, seals, backup, divergent, answered, pageLost>>
        BY <2>2 DEF Serving, dbVars, historyVars
    <2>5. QED
        BY <2>1, <2>3, <2>4, TaskStarts
<1>3. ASSUME NEW kind \in {"seal", "startup"}, task' = Task(kind, "head", Genesis), task = Idle,
             Send(Ask("GET_HEAD", 0)), UNCHANGED <<signed, signerUp, reply, dbVars, divergent, historyVars>>,
             \/ up' = up /\ up = "serving" /\ kind = "seal"
             \/ up' = "starting" /\ kind = "startup" /\ ~divergent
      PROVE  Linked'
    <2> DEFINE request == Ask("GET_HEAD", 0)
    <2>1. request \in Requests /\ Harmless(request)
        BY <1>e, RequestTypes DEF Harmless, Ask
    <2>2. Awaited(request)' /\ task'.step = "head" /\ task'.kind = kind /\ task'.pages = <<>>
        BY <1>3, NobodyWaits DEF Awaited, Task, Ask
    <2> HIDE DEF request
    <2>3. Send(request)
        BY <1>3 DEF request
    <2>4. QED
        BY <1>3, <2>1, <2>2, <2>3, TaskStarts DEF dbVars, historyVars
<1>4. CASE BeginSeal
    BY <1>3, <1>4 DEF BeginSeal, Serving
<1>5. CASE ServerStart
    <2>1. task = Idle /\ ~divergent /\ up = "down"
        BY <1>5 DEF ServerStart, Linked, InProgress
    <2>2. CASE chain = <<>>
        <3>1. up' = "serving"
              /\ UNCHANGED <<signed, reply, wire, task, chain, deleted, seals, backup, divergent, answered, pageLost>>
            BY <1>5, <2>2 DEF ServerStart, dbVars, historyVars
        <3>2. OnTheWire' /\ Replied' /\ InProgress' /\ AnsweredKept'
            BY <2>1, <2>2, <3>1 DEF Linked, OnTheWire, Harmless, Awaited, Replied, PageFrom, Caused, InProgress, Unsigned, AnsweredKept, Idle, Task
        <3>3. QED
            BY <3>1, <3>2 DEF Linked, NamedOnce, HeldBySigner, AnsweredIsSigned, SealsCoverTheChain, CopyIsWhole, RedForAReason, Caused
    <2>3. CASE chain # <<>>
        BY <1>3, <1>5, <2>1, <2>3 DEF ServerStart
    <2>4. QED
        BY <2>2, <2>3
<1>6. CASE ListSystems \/ SignerRestart \/ UNCHANGED vars
    <2>1. UNCHANGED <<signed, wire, reply, chain, deleted, seals, backup, up, task, divergent, answered, pageLost>>
        BY <1>6 DEF ListSystems, SignerRestart, vars, signerVars, dbVars, serverVars, historyVars
    <2>2. OnTheWire' /\ Replied' /\ InProgress' /\ AnsweredKept'
        BY <2>1 DEF Linked, OnTheWire, Harmless, Awaited, Replied, PageFrom, Caused, InProgress, Unsigned, AnsweredKept
    <2>3. QED
        BY <2>1, <2>2 DEF Linked, NamedOnce, HeldBySigner, AnsweredIsSigned, SealsCoverTheChain, CopyIsWhole, RedForAReason, Caused
<1>7. CASE TakeBackup
    <2>1. UNCHANGED <<signed, wire, reply, chain, deleted, seals, up, task, divergent, answered, pageLost>>
        BY <1>7 DEF TakeBackup, signerVars, serverVars, historyVars
    <2>2. backup'.chain = chain /\ backup'.seals = seals
        BY <1>7 DEF TakeBackup, Database
    <2>3. OnTheWire' /\ Replied' /\ InProgress' /\ AnsweredKept'
        BY <2>1 DEF Linked, OnTheWire, Harmless, Awaited, Replied, PageFrom, Caused, InProgress, Unsigned, AnsweredKept
    <2>4. HeldBySigner' /\ CopyIsWhole'
        BY <2>1, <2>2 DEF Linked, HeldBySigner, CopyIsWhole, SealsCoverTheChain
    <2>5. QED
        BY <2>1, <2>3, <2>4 DEF Linked, NamedOnce, AnsweredIsSigned, SealsCoverTheChain, RedForAReason, Caused
<1>8. QED
    BY <1>1, <1>2, <1>4, <1>5, <1>6, <1>7

(* A request that gets no answer.                                          *)
LEMMA UnavailableLinked ==
    ASSUME TypeOK, Linked, TypeOK', Unavailable, task # Idle
    PROVE  Linked'
<1>1. OnTheWire'
    BY ForgottenIsHarmless DEF Unavailable
<1>2. reply' = NoReply /\ task' = Idle /\ task'.step = "none" /\ task'.kind = "idle" /\ task'.pages = <<>>
      /\ UNCHANGED <<signed, chain, deleted, seals, backup, answered>>
    BY DEF Unavailable, dbVars, Idle, Task
<1>3. Replied'
    BY <1>2 DEF Replied
<1>4. \/ up' = "serving" /\ divergent' = TRUE /\ pageLost' = TRUE
      \/ /\ divergent' = divergent /\ pageLost' = pageLost
         /\ \/ up' = up /\ task.kind # "startup"
            \/ up' = "down" /\ task.kind = "startup"
    BY DEF Unavailable
<1>5. up # "down"
    BY DEF Linked, InProgress
<1>6. InProgress'
    BY <1>2, <1>4, <1>5 DEF Linked, InProgress
<1>7. AnsweredKept' /\ RedForAReason'
    BY <1>2, <1>4 DEF Linked, AnsweredKept, RedForAReason, Caused
<1>8. QED
    BY <1>1, <1>2, <1>3, <1>6, <1>7 DEF Linked, NamedOnce, HeldBySigner, AnsweredIsSigned, SealsCoverTheChain, CopyIsWhole

(* What does not depend on the state.                                      *)
LEMMA Constants ==
    ASSUME TypeOK
    PROVE  /\ <<>> \in Seq(Events) /\ IsPrefix(<<>>, signed)
           /\ Idle.kind = "idle" /\ Idle.step = "none" /\ Idle.pages = <<>>
           /\ NoReply.kind = "none"
<1>1. <<>> \in Seq(Events) /\ Len(<<>>) = 0
    BY EmptySeq
<1>2. IsPrefix(<<>>, signed)
    <2>1. Len(<<>>) <= Len(signed) /\ \A i \in 1..Len(<<>>) : <<>>[i] = signed[i]
        BY <1>1, Typed
    <2>2. signed \in Seq(Events)
        BY Typed
    <2>3. QED
        BY <1>1, <2>1, <2>2, PrefixPointwise
<1>3. QED
    BY <1>1, <1>2 DEF Idle, Task, NoReply, Given

(* What the database holds, the signer signed at the same position.        *)
LEMMA HeldIsSigned ==
    ASSUME TypeOK, Linked
    PROVE  Len(chain) <= Len(signed) /\ \A i \in 1..Len(chain) : chain[i] = signed[i]
    BY Typed, PrefixPointwise DEF Linked, HeldBySigner

(* A span already recorded is answered with its own position.              *)
LEMMA AppendDuplicateLinked ==
    ASSUME TypeOK, Linked, TypeOK', NEW e \in Spans, AppendDuplicate(e)
    PROVE  Linked'
<1>1. PICK i \in 1..Len(chain) : chain[i] = e /\ answered' = answered \cup {Told(SubSeq(chain, 1, i - 1), e)}
    BY DEF AppendDuplicate
<1>2. Told(SubSeq(chain, 1, i - 1), e) = <<i, e>>
    BY <1>1, Typed, BeginningOf DEF Told
<1>3. UNCHANGED <<signed, wire, reply, chain, deleted, seals, backup, up, task, divergent, pageLost>>
    BY DEF AppendDuplicate, signerVars, dbVars, serverVars
<1>4. AnsweredIsSigned' /\ AnsweredKept'
    BY <1>1, <1>2, <1>3, Typed, HeldIsSigned DEF Linked, AnsweredIsSigned, AnsweredKept
<1>5. OnTheWire' /\ Replied' /\ InProgress'
    BY <1>3 DEF Linked, OnTheWire, Harmless, Awaited, Replied, PageFrom, Caused, InProgress, Unsigned
<1>6. QED
    BY <1>3, <1>4, <1>5 DEF Linked, NamedOnce, HeldBySigner, SealsCoverTheChain, CopyIsWhole, RedForAReason, Caused

(* A signature still answers the chain it was asked for: the receipt goes  *)
(* where the signer put it.                                                *)
LEMMA StoreSignedLinked ==
    ASSUME TypeOK, Linked, TypeOK', StoreSigned
    PROVE  Linked'
<1>1. reply # NoReply /\ reply.kind = "signature" /\ task.step = "sign"
    BY Constants DEF StoreSigned
<1>2. wire = <<>> /\ signed = Append(chain, task.event) /\ (divergent => Caused)
    BY <1>1 DEF Linked, Replied
<1>3. /\ chain' = signed /\ task' = Idle /\ reply' = NoReply
      /\ answered' = answered \cup {<<Len(chain) + 1, task.event>>}
      /\ UNCHANGED <<signed, wire, deleted, seals, backup, up, divergent, pageLost>>
    BY <1>2 DEF StoreSigned, Told
<1>4. Len(signed) = Len(chain) + 1 /\ signed[Len(chain) + 1] = task.event
    BY <1>2, Typed, AppendProperties
<1>5. HeldBySigner'
    BY <1>3, Typed, PrefixReflexive DEF Linked, HeldBySigner
<1>6. AnsweredIsSigned'
    BY <1>3, <1>4, Typed DEF Linked, AnsweredIsSigned
<1>7. AnsweredKept'
    BY <1>3, <1>6 DEF AnsweredKept, AnsweredIsSigned
<1>8. SealsCoverTheChain'
    <2>1. ASSUME NEW c \in seals PROVE c # <<>> /\ IsPrefix(c, signed)
        BY <1>2, Typed, PrefixAppend, DatabaseType DEF TypeOK, Linked, SealsCoverTheChain
    <2>2. QED
        BY <1>3, <2>1 DEF SealsCoverTheChain
<1>9. OnTheWire' /\ Replied'
    BY <1>2, <1>3, EmptySeq DEF OnTheWire, Replied
<1>10. InProgress'
    <2>1. up # "down" /\ up # "starting"
        BY <1>1, Constants DEF Linked, InProgress
    <2>2. QED
        BY <1>3, <2>1, Constants DEF Linked, InProgress
<1>11. QED
    BY <1>2, <1>3, <1>5, <1>6, <1>7, <1>8, <1>9, <1>10 DEF Linked, NamedOnce, CopyIsWhole, RedForAReason, Caused

(* A refused write asks for the head, or is given up.                      *)
LEMMA SignRefusedLinked ==
    ASSUME TypeOK, Linked, TypeOK', SignRefused
    PROVE  Linked'
<1>1. reply # NoReply /\ task.step = "sign" /\ reply' = NoReply /\ task.pages = <<>>
    BY Constants DEF SignRefused, Linked, InProgress
<1>2. wire = <<>> /\ Len(wire) = 0
    BY <1>1, EmptySeq DEF Linked, Replied
<1>3. UNCHANGED <<signed, chain, deleted, seals, backup, up, divergent, answered, pageLost>>
    BY DEF SignRefused, dbVars, historyVars
<1>4. OnTheWire' /\ task'.step \in {"head", "none"} /\ task'.pages = <<>>
      /\ (task'.kind = task.kind \/ task'.kind = "idle")
    <2>1. CASE reply.kind = "sequence" /\ ~task.retried
        <3> DEFINE request == Ask("GET_HEAD", 0)
        <3>1. task' = [task EXCEPT !.step = "head"] /\ Send(request)
            BY <2>1 DEF SignRefused
        <3>2. request \in Requests /\ Harmless(request)
            BY RequestTypes, Typed DEF Harmless, Ask
        <3>3. task'.step = "head" /\ task'.pages = <<>> /\ task'.kind = task.kind
            BY <1>1, <3>1 DEF TypeOK, Tasks
        <3>4. Awaited(request)'
            BY <1>1, <3>3 DEF Awaited, Ask
        <3> HIDE DEF request
        <3>5. QED
            BY <1>2, <3>1, <3>2, <3>3, <3>4, SentIsAwaited
    <2>2. CASE ~(reply.kind = "sequence" /\ ~task.retried)
        <3>1. task' = Idle /\ wire' = wire
            BY <2>2 DEF SignRefused
        <3>2. QED
            BY <1>2, <3>1, Constants DEF OnTheWire
    <2>3. QED
        BY <2>1, <2>2
<1>5. Replied' /\ AnsweredKept'
    BY <1>1, <1>3 DEF Replied, Linked, AnsweredKept
<1>6. up = "serving"
    <2>1. up # "down" /\ up # "starting"
        BY <1>1, Constants DEF Linked, InProgress
    <2>2. QED
        BY <2>1 DEF TypeOK
<1>7. InProgress'
    BY <1>1, <1>3, <1>4, <1>6 DEF InProgress, Linked
<1>8. QED
    BY <1>3, <1>4, <1>5, <1>7 DEF Linked, NamedOnce, HeldBySigner, AnsweredIsSigned, SealsCoverTheChain, CopyIsWhole, RedForAReason, Caused

(* The checkpoint that comes is of the tree the database holds: nothing    *)
(* was signed since the head was compared.                                 *)
LEMMA GotSealLinked ==
    ASSUME TypeOK, Linked, TypeOK', GotSeal
    PROVE  Linked'
<1>1. reply # NoReply /\ task.step = "seal" /\ reply.kind = "checkpoint"
    BY Constants DEF GotSeal
<1>2. wire = <<>> /\ reply.receipts = chain /\ chain # <<>> /\ task.kind = "seal"
    BY <1>1 DEF Linked, Replied, InProgress
<1>3. /\ seals' = seals \cup {chain} /\ task' = Idle /\ reply' = NoReply
      /\ UNCHANGED <<signed, wire, chain, deleted, backup, up, divergent, answered, pageLost>>
    BY <1>2 DEF GotSeal, historyVars
<1>4. SealsCoverTheChain'
    BY <1>2, <1>3, Typed, PrefixReflexive DEF Linked, SealsCoverTheChain
<1>5. OnTheWire' /\ Replied' /\ InProgress' /\ AnsweredKept'
    BY <1>1, <1>2, <1>3, Constants, EmptySeq DEF Linked, OnTheWire, Replied, InProgress, AnsweredKept
<1>6. QED
    BY <1>3, <1>4, <1>5 DEF Linked, NamedOnce, HeldBySigner, AnsweredIsSigned, CopyIsWhole, RedForAReason, Caused

(* A deletion between two tasks.                                           *)
LEMMA EraseLinked ==
    ASSUME TypeOK, Linked, TypeOK', DeleteEmptySystem \/ EraseChain
    PROVE  Linked'
<1>1. task = Idle /\ Erase
    BY DEF DeleteEmptySystem, EraseChain, Serving
<1>2. /\ chain' = <<>> /\ seals' = {} /\ answered' = {} /\ deleted'
      /\ UNCHANGED <<signed, wire, reply, backup, up, task, divergent, pageLost>>
    BY <1>1 DEF Erase, signerVars, serverVars
<1>3. task.step = "none" /\ reply = NoReply /\ \A i \in 1..Len(wire) : Harmless(wire[i]) /\ ~wire[i].live
    BY <1>1, NobodyWaits
<1>4. OnTheWire' /\ Replied' /\ InProgress'
    BY <1>2, <1>3 DEF Linked, OnTheWire, Harmless, Replied, InProgress
<1>5. HeldBySigner' /\ AnsweredKept' /\ RedForAReason' /\ SealsCoverTheChain' /\ AnsweredIsSigned'
    BY <1>2, Constants DEF Linked, HeldBySigner, AnsweredKept, RedForAReason, Caused, SealsCoverTheChain, AnsweredIsSigned
<1>6. QED
    BY <1>2, <1>4, <1>5 DEF Linked, NamedOnce, CopyIsWhole

(* An older copy is a beginning of the signer's chain too.                 *)
LEMMA RestoreLinked ==
    ASSUME TypeOK, Linked, TypeOK', Restore
    PROVE  Linked'
<1>1. /\ up = "down" /\ chain' = backup.chain /\ seals' = backup.seals
      /\ UNCHANGED <<signed, wire, reply, backup, up, task, divergent, answered, pageLost>>
    BY DEF Restore, signerVars, serverVars
<1>2. ~divergent /\ task = Idle
    BY <1>1 DEF Linked, InProgress
<1>3. task.step = "none" /\ reply = NoReply /\ \A i \in 1..Len(wire) : Harmless(wire[i]) /\ ~wire[i].live
    BY <1>2, NobodyWaits
<1>4. OnTheWire' /\ Replied' /\ InProgress'
    BY <1>1, <1>3 DEF Linked, OnTheWire, Harmless, Replied, InProgress
<1>5. HeldBySigner' /\ AnsweredKept' /\ RedForAReason' /\ SealsCoverTheChain'
    BY <1>1, <1>2 DEF Linked, HeldBySigner, AnsweredKept, RedForAReason, SealsCoverTheChain, CopyIsWhole
<1>6. QED
    BY <1>1, <1>4, <1>5 DEF Linked, NamedOnce, CopyIsWhole, AnsweredIsSigned

(* A process that stops takes with it what it was waiting for.             *)
LEMMA CrashLinked ==
    ASSUME TypeOK, Linked, TypeOK', ServerCrash \/ SignerCrash
    PROVE  Linked'
<1>1. CASE ServerCrash
    <2>1. /\ up' = "down" /\ task' = Idle /\ ~divergent' /\ reply' = NoReply
          /\ UNCHANGED <<signed, chain, deleted, seals, backup, answered, pageLost>>
        BY <1>1 DEF ServerCrash, dbVars
    <2>2. OnTheWire'
        BY <1>1, ForgottenIsHarmless DEF ServerCrash
    <2>3. Replied' /\ InProgress' /\ AnsweredKept' /\ RedForAReason'
        BY <2>1, Constants DEF Replied, InProgress, AnsweredKept, RedForAReason
    <2>4. QED
        BY <2>1, <2>2, <2>3 DEF Linked, NamedOnce, HeldBySigner, AnsweredIsSigned, SealsCoverTheChain, CopyIsWhole
<1>2. CASE SignerCrash
    <2>1. /\ wire' = <<>>
          /\ UNCHANGED <<signed, reply, chain, deleted, seals, backup, up, task, divergent, answered, pageLost>>
        BY <1>2 DEF SignerCrash, dbVars, serverVars
    <2>2. OnTheWire' /\ Replied' /\ InProgress'
        BY <2>1, EmptySeq DEF Linked, OnTheWire, Replied, PageFrom, Caused, InProgress, Unsigned
    <2>3. QED
        BY <2>1, <2>2 DEF Linked, NamedOnce, HeldBySigner, AnsweredIsSigned, AnsweredKept, SealsCoverTheChain, CopyIsWhole, RedForAReason, Caused
<1>3. QED
    BY <1>1, <1>2

-----------------------------------------------------------------------------
(* The signer's steps. *)

(* The signer reads one request: the rest is as it was, and if that one is *)
(* waited for, it was the last.                                            *)
LEMMA OneIsRead ==
    ASSUME TypeOK, Linked, wire # <<>>, wire' = Tail(wire), UNCHANGED <<chain, task>>,
           reply' = reply \/ Head(wire).live
    PROVE  /\ Head(wire) \in Requests /\ Harmless(Head(wire))
           /\ Head(wire).live => Awaited(Head(wire)) /\ wire' = <<>>
           /\ reply = NoReply
           /\ OnTheWire' /\ (Unsigned => Unsigned' /\ Head(wire).method # "SIGN_RECEIPT")
<1>1. Len(wire) \in Nat \ {0} /\ Head(wire) = wire[1] /\ Head(wire) \in Requests
    BY Typed, EmptySeq, HeadTailProperties
<1>2. Len(wire') = Len(wire) - 1 /\ \A i \in 1..Len(wire') : wire'[i] = wire[i + 1]
    BY Typed, HeadTailProperties
<1>3. Harmless(Head(wire)) /\ (Head(wire).live => Len(wire) = 1 /\ Awaited(Head(wire)))
    <2>1. 1 \in 1..Len(wire)
        BY <1>1
    <2>2. Harmless(wire[1]) /\ (wire[1].live => 1 = Len(wire) /\ Awaited(wire[1]))
        BY <2>1 DEF Linked, OnTheWire
    <2>3. QED
        BY <1>1, <2>2
<1>4. wire' \in Seq(Requests) /\ (Head(wire).live => wire' = <<>>)
    <2>1. wire' \in Seq(Requests)
        BY Typed, HeadTailProperties
    <2>2. Head(wire).live => Len(wire') = 0
        BY <1>2, <1>3
    <2>3. QED
        BY <2>1, <2>2, EmptySeq
<1>5. reply = NoReply
    BY DEF Linked, Replied
<1>6. ASSUME NEW i \in 1..Len(wire)'
      PROVE  (Harmless(wire[i]) /\ (wire[i].live => i = Len(wire) /\ Awaited(wire[i])))'
    <2>1. i + 1 \in 1..Len(wire) /\ wire[i]' = wire[i + 1] /\ reply' = reply
        BY <1>1, <1>2, <1>3
    <2>2. Harmless(wire[i + 1]) /\ (wire[i + 1].live => i + 1 = Len(wire) /\ Awaited(wire[i + 1]))
        BY <2>1 DEF Linked, OnTheWire
    <2>3. QED
        BY <1>1, <1>2, <2>1, <2>2 DEF Harmless, Awaited
<1>7. Unsigned => Unsigned' /\ Head(wire).method # "SIGN_RECEIPT"
    BY <1>1, <1>2 DEF Unsigned
<1>8. QED
    BY <1>1, <1>3, <1>4, <1>5, <1>6, <1>7 DEF OnTheWire

(* Whatever the signer answers without signing.                            *)
LEMMA AnsweredUnsigned ==
    ASSUME TypeOK, Linked, wire # <<>>, wire' = Tail(wire), NEW kind, NEW receipts,
           Reply(Head(wire), Given(kind, receipts)), kind # "signature",
           kind \in {"head", "checkpoint"} => receipts = signed,
           kind = "page" => Head(wire).method = "GET_RECEIPTS" /\ receipts = PageFrom(Head(wire).from),
           UNCHANGED <<signed, dbVars, serverVars, answered, pageLost>>
    PROVE  Linked'
<1>1. UNCHANGED <<chain, deleted, seals, backup, up, task, divergent>>
    BY DEF dbVars, serverVars
<1>2. /\ Head(wire) \in Requests /\ reply = NoReply /\ OnTheWire'
      /\ Head(wire).live => Awaited(Head(wire)) /\ wire' = <<>>
      /\ Unsigned => Unsigned'
    BY <1>1, OneIsRead DEF Reply
<1>3. InProgress'
    BY <1>1, <1>2 DEF Linked, InProgress
<1>4. ASSUME reply' # NoReply PROVE /\ wire' = <<>> /\ task.step # "none" /\ reply' = Given(kind, receipts)
                                    /\ Awaited(Head(wire))
    BY <1>2, <1>4 DEF Reply, Awaited
<1>5. ASSUME reply' # NoReply PROVE Replied'
    <2>1. reply'.kind = kind /\ reply'.receipts = receipts
        BY <1>4, <1>5 DEF Given
    <2>2. kind = "page" => task.step = "pages" /\ receipts = PageFrom(Len(chain) + Len(task.pages))
        BY <1>4, <1>5 DEF Awaited
    <2>3. PageFrom(Len(chain) + Len(task.pages))' = PageFrom(Len(chain) + Len(task.pages))
        BY <1>1 DEF PageFrom
    <2>4. QED
        BY <1>1, <1>4, <1>5, <2>1, <2>2, <2>3 DEF Replied
<1>6. QED
    BY <1>1, <1>2, <1>3, <1>5 DEF Replied, Linked, NamedOnce, HeldBySigner, AnsweredIsSigned, AnsweredKept, SealsCoverTheChain, CopyIsWhole, RedForAReason, Caused

(* A receipt is signed: by whoever waits for it, or by a request its sender *)
(* gave up, which the server finds when it next compares the heads.        *)
LEMMA SignedLinked ==
    ASSUME TypeOK, Linked, TypeOK', wire # <<>>, wire' = Tail(wire),
           Head(wire).method = "SIGN_RECEIPT", Head(wire).prev = signed,
           signed' = Append(signed, Head(wire).event),
           Reply(Head(wire), Given("signature", <<>>)),
           UNCHANGED <<dbVars, serverVars, answered, pageLost>>
    PROVE  Linked'
<1>1. UNCHANGED <<chain, deleted, seals, backup, up, task, divergent>>
    BY DEF dbVars, serverVars
<1>2. /\ Head(wire) \in Requests /\ Harmless(Head(wire)) /\ reply = NoReply /\ OnTheWire'
      /\ Head(wire).live => Awaited(Head(wire)) /\ wire' = <<>>
      /\ ~Unsigned
    BY <1>1, OneIsRead DEF Reply
<1> DEFINE e == Head(wire).event
<1>3. e \in Events
    BY <1>2 DEF Requests
<1>4. /\ Len(signed') = Len(signed) + 1 /\ signed'[Len(signed) + 1] = e
      /\ \A i \in 1..Len(signed) : signed'[i] = signed[i]
    BY <1>3, Typed, AppendProperties
<1>5. e \in Spans => ~Holds(signed, e)
    BY <1>2 DEF Harmless
<1>6. NamedOnce'
    <2>1. ASSUME NEW i \in 1..Len(signed'), NEW j \in 1..Len(signed'), signed'[i] = signed'[j], signed'[i] \in Spans
          PROVE  i = j
        <3>1. CASE i \in 1..Len(signed) /\ j \in 1..Len(signed)
            BY <1>4, <2>1, <3>1 DEF Linked, NamedOnce
        <3>2. CASE i = Len(signed) + 1 /\ j \in 1..Len(signed)
            BY <1>4, <1>5, <2>1, <3>2 DEF Holds
        <3>3. CASE j = Len(signed) + 1 /\ i \in 1..Len(signed)
            BY <1>4, <1>5, <2>1, <3>3 DEF Holds
        <3>4. QED
            BY <1>4, <3>1, <3>2, <3>3, Typed
    <2>2. QED
        BY <2>1 DEF NamedOnce
<1>7. HeldBySigner'
    BY <1>1, <1>3, Typed, PrefixAppend DEF Linked, HeldBySigner
<1>8. AnsweredIsSigned'
    <2>1. ASSUME NEW a \in answered PROVE a[1] <= Len(signed') /\ signed'[a[1]] = a[2]
        <3>1. a[1] \in Nat \ {0}
            BY DEF TypeOK
        <3>2. a[1] <= Len(signed) /\ signed[a[1]] = a[2]
            BY DEF Linked, AnsweredIsSigned
        <3>3. QED
            BY <1>4, <3>1, <3>2, Typed
    <2>2. QED
        BY <2>1 DEF AnsweredIsSigned
<1>9. InProgress'
    BY <1>1, <1>2 DEF Linked, InProgress
<1>10. Replied'
    <2>1. ASSUME reply' # NoReply PROVE Replied'
        <3>1. Head(wire).live /\ reply' = Given("signature", <<>>)
            BY <1>2, <2>1 DEF Reply
        <3>2. wire' = <<>> /\ task.step = "sign" /\ chain = signed /\ e = task.event
            BY <1>2, <3>1 DEF Awaited
        <3>3. divergent => Caused
            BY <3>2, Typed DEF Linked, RedForAReason
        <3>4. signed' = Append(chain', task'.event) /\ (divergent' => Caused')
            BY <1>1, <3>2, <3>3 DEF Caused
        <3>5. reply'.kind = "signature"
            BY <3>1 DEF Given
        <3>6. QED
            BY <1>1, <3>2, <3>4, <3>5 DEF Replied
    <2>2. QED
        BY <2>1 DEF Replied
<1>11. RedForAReason'
    BY <1>1, <1>4, Typed DEF Linked, RedForAReason, Caused
<1>12. QED
    BY <1>1, <1>2, <1>6, <1>7, <1>8, <1>9, <1>10, <1>11 DEF Linked, AnsweredKept, SealsCoverTheChain, CopyIsWhole

(* Whatever the signer reads, and whatever it says to it.                  *)
LEMMA SignerLinked ==
    ASSUME TypeOK, Linked, TypeOK', SignerHandles \/ RefuseClock
    PROVE  Linked'
<1> DEFINE request == Head(wire)
<1>1. /\ wire # <<>> /\ wire' = Tail(wire)
      /\ UNCHANGED <<dbVars, serverVars, answered, pageLost>>
    BY DEF SignerHandles, RefuseClock, historyVars
<1>2. CASE /\ request.method = "SIGN_RECEIPT" /\ Continues(request)
           /\ signed' = Append(signed, request.event) /\ Reply(request, Given("signature", <<>>))
    BY <1>1, <1>2, SignedLinked DEF Continues
<1>3. ASSUME NEW kind, NEW receipts, signed' = signed, Reply(request, Given(kind, receipts)),
             \/ kind \in {"sequence", "clock"}
             \/ kind \in {"head", "checkpoint"} /\ receipts = signed
             \/ kind = "page" /\ request.method = "GET_RECEIPTS" /\ receipts = PageFrom(request.from)
      PROVE  Linked'
    BY <1>1, <1>3, AnsweredUnsigned
<1>4. CASE RefuseClock
    BY <1>3, <1>4 DEF RefuseClock
<1>5. CASE SignerHandles
    BY <1>2, <1>3, <1>5 DEF SignerHandles, HandleSign
<1>6. QED
    BY <1>4, <1>5

-----------------------------------------------------------------------------
(* reconcileNow. *)

(* What the signer gave beyond the database's tip is what is missing; or   *)
(* nothing is missing, or the journal does not go back that far.           *)
Complete(missing) ==
    chain = signed \/ chain \o missing = signed \/ Len(chain) < JournalStart

(* Two honest chains are in step, brought into step, or one of the reasons *)
(* there are holds.                                                        *)
LEMMA OutcomeIsRight ==
    ASSUME TypeOK, Linked, NEW missing \in Seq(Events), Complete(missing)
    PROVE  LET outcome == Outcome(signed, missing) IN
           /\ outcome \in {"in_sync", "recovered", "diverged"}
           /\ outcome = "in_sync" => chain = signed
           /\ outcome = "diverged" => deleted \/ (Len(chain) < JournalStart /\ Len(chain) < Len(signed))
<1> DEFINE outcome == Outcome(signed, missing)
<1>1. outcome \in {"in_sync", "recovered", "diverged"} /\ (outcome = "in_sync" => chain = signed)
    BY DEF Outcome
<1>2. SUFFICES ASSUME outcome = "diverged", ~deleted
               PROVE  Len(chain) < JournalStart /\ Len(chain) < Len(signed)
    BY <1>1
<1>3. chain # signed
    BY <1>2 DEF Outcome
<1>4. Len(chain) < Len(signed)
    <2>1. Len(chain) <= Len(signed)
        BY HeldIsSigned
    <2>2. Len(chain) # Len(signed)
        BY <1>3, HeldIsSigned, Typed, SeqEqual
    <2>3. QED
        BY <2>1, <2>2, Typed
<1>5. ASSUME chain \o missing = signed PROVE FALSE
    <2>1. IsPrefix(signed, chain \o missing)
        BY <1>5, Typed, PrefixReflexive
    <2>2. PICK i \in 1..Len(missing) : missing[i] \in Spans /\ Holds(chain, missing[i])
        BY <1>2, <1>3, <1>4, <2>1 DEF Outcome
    <2>3. PICK j \in 1..Len(chain) : chain[j] = missing[i]
        BY <2>2 DEF Holds
    <2>4. Len(missing) \in Nat /\ Len(signed) = Len(chain) + Len(missing)
          /\ signed[Len(chain) + i] = missing[i] /\ signed[j] = chain[j]
        BY <1>5, Typed, ConcatProperties, HeldIsSigned
    <2>5. Len(chain) + i \in 1..Len(signed) /\ j \in 1..Len(signed) /\ Len(chain) + i # j
        BY <2>4, Typed
    <2>6. QED
        BY <2>2, <2>3, <2>4, <2>5 DEF Linked, NamedOnce
<1>6. QED
    BY <1>3, <1>4, <1>5 DEF Complete

(* Once the chains are compared, each caller goes on from the signer's.    *)
LEMMA ReconcileLinked ==
    ASSUME TypeOK, Linked, TypeOK', NEW missing \in Seq(Events), Complete(missing),
           Reconcile(signed, missing), reply # NoReply, pageLost' = pageLost
    PROVE  Linked'
<1> DEFINE outcome == Outcome(signed, missing)
           level == IF outcome = "recovered" THEN signed ELSE chain
<1>1. /\ outcome \in {"in_sync", "recovered", "diverged"}
      /\ outcome # "diverged" => level = signed
      /\ level \in {chain, signed}
      /\ outcome = "diverged" => level = chain /\ (deleted \/ (Len(chain) < JournalStart /\ Len(chain) < Len(signed)))
    BY OutcomeIsRight
<1>2. /\ chain' = level /\ Resume(outcome, level) /\ reply' = NoReply
      /\ divergent' = (outcome = "diverged" \/ (divergent /\ outcome # "recovered"))
      /\ UNCHANGED <<signed, deleted, seals, backup>>
    BY DEF Reconcile
<1> HIDE DEF outcome, level
<1>3. wire = <<>> /\ Len(wire) = 0 /\ task.step # "none" /\ task # Idle
    BY EmptySeq, Constants DEF Linked, Replied
<1>4. up' = "serving"
    BY <1>2, <1>3, Typed DEF Resume, Linked, InProgress, TypeOK
<1>5. HeldBySigner'
    BY <1>1, <1>2, Typed, PrefixReflexive DEF Linked, HeldBySigner
<1>6. SealsCoverTheChain'
    <2>1. ASSUME NEW c \in seals PROVE c # <<>> /\ IsPrefix(c, level)
        <3>1. c # <<>> /\ IsPrefix(c, chain) /\ c \in Seq(Events)
            BY DatabaseType DEF TypeOK, Linked, SealsCoverTheChain
        <3>2. IsPrefix(c, signed)
            BY <3>1, Typed, PrefixTransitive DEF Linked, HeldBySigner
        <3>3. QED
            BY <1>1, <3>1, <3>2
    <2>2. QED
        BY <1>2, <2>1 DEF SealsCoverTheChain
<1>7. RedForAReason'
    <2>1. CASE outcome = "diverged"
        BY <1>1, <1>2, <2>1 DEF RedForAReason, Caused
    <2>2. CASE outcome # "diverged"
        <3>1. ASSUME divergent' PROVE Caused
            <4>1. divergent /\ outcome = "in_sync"
                BY <1>1, <1>2, <2>2, <3>1
            <4>2. chain = signed
                BY <4>1, OutcomeIsRight DEF outcome
            <4>3. QED
                BY <4>1, <4>2, Typed DEF Linked, RedForAReason
        <3>2. QED
            BY <1>2, <3>1 DEF RedForAReason, Caused
    <2>3. QED
        BY <2>1, <2>2
<1>8. AnsweredIsSigned'
    <2>1. ASSUME outcome = "recovered", NEW i \in 1..Len(level), level[i] = task.event,
                 answered' = answered \cup {Told(SubSeq(level, 1, i - 1), task.event)}
          PROVE  AnsweredIsSigned'
        <3>1. Told(SubSeq(level, 1, i - 1), task.event) = <<i, task.event>> /\ level = signed
            BY <1>1, <2>1, Typed, BeginningOf DEF Told
        <3>2. QED
            BY <1>2, <2>1, <3>1, Typed DEF Linked, AnsweredIsSigned
    <2>2. CASE answered' = answered
        BY <1>2, <2>2 DEF Linked, AnsweredIsSigned
    <2>3. QED
        BY <1>2, <2>1, <2>2 DEF Resume
<1>9. AnsweredKept'
    BY <1>1, <1>2, <1>8 DEF AnsweredKept, AnsweredIsSigned
<1>10. OnTheWire' /\ InProgress'
    <2>1. CASE task' = Idle /\ wire' = wire
        BY <1>3, <1>4, <2>1, Constants DEF OnTheWire, InProgress
    <2>2. CASE /\ ~AlreadyThere(task.event, level)
               /\ task' = [Task("append", "sign", task.event) EXCEPT !.retried = TRUE]
               /\ Send(Sign(level, task.event))
        <3>1. level \in Seq(Events) /\ task.event \in Events
            BY <1>1, Typed
        <3>2. Sign(level, task.event) \in Requests
            BY <3>1, RequestTypes
        <3>3. PICK request \in Requests : request = Sign(level, task.event)
            BY <3>2
        <3>4. Harmless(request)
            BY <2>2, <3>3 DEF AlreadyThere, Harmless, Sign
        <3>5. /\ task'.step = "sign" /\ task'.kind = "append" /\ task'.pages = <<>>
              /\ task'.event = task.event
            BY <2>2 DEF Task
        <3>6. Awaited(request)'
            BY <1>2, <3>3, <3>5 DEF Awaited, Sign
        <3>7. OnTheWire'
            BY <1>3, <2>2, <3>3, <3>4, <3>6, SentIsAwaited
        <3>8. QED
            BY <1>4, <3>5, <3>7 DEF InProgress
    <2>3. CASE /\ outcome # "diverged" /\ level # <<>>
               /\ task' = Task("seal", "seal", Genesis) /\ Send(Ask("CHECKPOINT", 0))
        <3> DEFINE request == Ask("CHECKPOINT", 0)
        <3>1. request \in Requests /\ Harmless(request) /\ request.method = "CHECKPOINT"
            BY Typed, RequestTypes DEF Harmless, Ask
        <3>2. task'.step = "seal" /\ task'.kind = "seal" /\ task'.pages = <<>>
            BY <2>3 DEF Task
        <3>3. Awaited(request)'
            BY <1>2, <3>1, <3>2 DEF Awaited
        <3>4. Send(request)
            BY <2>3
        <3> HIDE DEF request
        <3>5. OnTheWire'
            BY <1>3, <3>1, <3>3, <3>4, SentIsAwaited
        <3>6. Unsigned'
            <4>1. wire' = wire \/ wire' = Append(wire, request)
                BY <3>4 DEF Send
            <4>2. \A i \in 1..Len(wire') : wire'[i] = request
                BY <1>3, <3>1, <4>1, Typed, AppendProperties
            <4>3. QED
                BY <3>1, <4>2 DEF Unsigned
        <3>7. chain' = signed' /\ chain' # <<>>
            BY <1>1, <1>2, <2>3
        <3>8. QED
            BY <1>4, <3>2, <3>5, <3>6, <3>7 DEF InProgress
    <2>4. QED
        BY <1>2, <2>1, <2>2, <2>3 DEF Resume
<1>11. Replied'
    BY <1>2 DEF Replied
<1>12. QED
    BY <1>2, <1>5, <1>6, <1>7, <1>8, <1>9, <1>10, <1>11 DEF Linked, NamedOnce, CopyIsWhole

(* The head tells everything about one receipt, the journal about more.    *)
LEMMA GotHeadLinked ==
    ASSUME TypeOK, Linked, TypeOK', GotHead
    PROVE  Linked'
<1>1. reply # NoReply /\ reply.kind = "head" /\ reply.receipts = signed /\ task.step = "head"
    BY Constants DEF GotHead, Linked, Replied
<1>2. CASE Len(signed) > Len(chain) + 1
    <2>1. /\ task' = [task EXCEPT !.step = "pages", !.head = signed]
          /\ Send(Ask("GET_RECEIPTS", Len(chain))) /\ reply' = NoReply
          /\ UNCHANGED <<signed, chain, deleted, seals, backup, up, divergent, answered, pageLost>>
        BY <1>1, <1>2 DEF GotHead, dbVars, historyVars
    <2>2. /\ task'.step = "pages" /\ task'.head = signed /\ task'.kind = task.kind
          /\ task'.pages = <<>>
        BY <1>1, <2>1 DEF TypeOK, Tasks, Linked, InProgress
    <2>3. wire = <<>> /\ Len(wire) = 0
        BY <1>1, EmptySeq DEF Linked, Replied
    <2>4. Ask("GET_RECEIPTS", Len(chain)) \in Requests
        BY Typed, RequestTypes
    <2>5. PICK request \in Requests : request = Ask("GET_RECEIPTS", Len(chain))
        BY <2>4
    <2>6. Harmless(request) /\ request.method = "GET_RECEIPTS" /\ request.from = Len(chain)
        BY <2>5 DEF Harmless, Ask
    <2>7. Awaited(request)'
        BY <2>1, <2>2, <2>6, Typed, EmptySeq DEF Awaited
    <2>8. OnTheWire'
        BY <2>1, <2>3, <2>5, <2>6, <2>7, SentIsAwaited
    <2>9. Unsigned'
        <3>1. wire' = wire \/ wire' = Append(wire, request)
            BY <2>1, <2>5 DEF Send
        <3>2. \A i \in 1..Len(wire') : wire'[i] = request
            BY <2>3, <3>1, Typed, AppendProperties
        <3>3. QED
            BY <2>6, <3>2 DEF Unsigned
    <2>10. chain \o <<>> = SubSeq(signed, 1, Len(chain))
        BY Typed, ConcatEmptySeq DEF Linked, HeldBySigner, IsPrefix
    <2>11. up # "down"
        BY <1>1, Constants DEF Linked, InProgress
    <2>12. Len(chain) + Len(<<>>) = Len(chain) /\ Len(chain) < Len(signed)
        BY <1>2, Typed, EmptySeq
    <2>13. InProgress'
        BY <2>1, <2>2, <2>9, <2>10, <2>11, <2>12 DEF Linked, InProgress
    <2>14. QED
        BY <2>1, <2>8, <2>13 DEF Linked, Replied, NamedOnce, HeldBySigner, AnsweredIsSigned, AnsweredKept, SealsCoverTheChain, CopyIsWhole, RedForAReason, Caused
<1>3. CASE ~(Len(signed) > Len(chain) + 1)
    <2> DEFINE missing == IF signed = <<>> THEN <<>> ELSE <<Last(signed)>>
    <2>1. Reconcile(signed, missing) /\ pageLost' = pageLost
        BY <1>1, <1>3 DEF GotHead
    <2>2. missing \in Seq(Events)
        BY Typed, EmptySeq, FrontThenLast
    <2>3. Complete(missing)
        <3>1. CASE Len(signed) = Len(chain)
            BY <3>1, HeldIsSigned, Typed, SeqEqual DEF Complete
        <3>2. CASE Len(signed) = Len(chain) + 1
            <4>1. signed # <<>> /\ missing = <<Last(signed)>> /\ Last(signed) = signed[Len(signed)]
                BY <3>2, Typed, EmptySeq DEF Last
            <4>2. Len(chain \o missing) = Len(signed) /\ chain \o missing \in Seq(Events)
                BY <2>2, <3>2, <4>1, Typed, ConcatProperties
            <4>3. \A i \in 1..Len(signed) : (chain \o missing)[i] = signed[i]
                BY <2>2, <3>2, <4>1, HeldIsSigned, Typed, ConcatProperties
            <4>4. QED
                BY <4>2, <4>3, Typed, SeqEqual DEF Complete
        <3>3. QED
            BY <1>3, <3>1, <3>2, HeldIsSigned, Typed
    <2> HIDE DEF missing
    <2>4. QED
        BY <1>1, <2>1, <2>2, <2>3, ReconcileLinked
<1>4. QED
    BY <1>2, <1>3

(* A page of the journal is the next receipts, or the journal begins after *)
(* them.                                                                   *)
LEMMA PageIsNext ==
    ASSUME TypeOK, NEW from \in Nat, from < Len(signed)
    PROVE  \/ PageFrom(from) = <<>> /\ from < JournalStart
           \/ \E m \in (from + 1)..Len(signed) : PageFrom(from) = SubSeq(signed, from + 1, m)
<1>1. RECOVERY_PAGE \in Nat \ {0}
    BY ReceiptStoreAssumption
<1>2. QED
    BY <1>1, Typed DEF PageFrom

(* A page is joined to those before it, or ends the comparison.            *)
LEMMA GotPageLinked ==
    ASSUME TypeOK, Linked, TypeOK', GotPage
    PROVE  Linked'
<1> DEFINE n == Len(chain) + Len(task.pages)
           pages == task.pages \o reply.receipts
<1>1. reply # NoReply /\ reply.kind = "page" /\ reply.receipts = PageFrom(n) /\ task.step = "pages"
    BY Constants DEF GotPage, Linked, Replied
<1>2. /\ task.head = signed /\ n \in Nat /\ n < Len(signed)
      /\ chain \o task.pages = SubSeq(signed, 1, n)
    BY <1>1, Typed, LenProperties DEF Linked, InProgress
<1>3. pages \in Seq(Events) /\ Len(pages) = Len(task.pages) + Len(reply.receipts)
    BY Typed, ConcatProperties
<1>4. \/ reply.receipts = <<>> /\ Len(chain) < JournalStart
      \/ \E m \in (n + 1)..Len(signed) : Len(chain) + Len(pages) = m /\ chain \o pages = SubSeq(signed, 1, m)
    <2>1. CASE reply.receipts = <<>> /\ n < JournalStart
        <3>1. JournalStart \in Nat /\ Len(task.pages) \in Nat
            BY ReceiptStoreAssumption, Typed, LenProperties
        <3>2. QED
            BY <2>1, <3>1, Typed
    <2>2. ASSUME NEW m \in (n + 1)..Len(signed), reply.receipts = SubSeq(signed, n + 1, m)
          PROVE  Len(chain) + Len(pages) = m /\ chain \o pages = SubSeq(signed, 1, m)
        <3>1. chain \o pages = (chain \o task.pages) \o reply.receipts
            <4>1. chain \in Seq(Events) /\ task.pages \in Seq(Events) /\ reply.receipts \in Seq(Events)
                BY Typed
            <4>2. \A s, u, v \in Seq(Events) : (s \o u) \o v = s \o (u \o v)
                BY ConcatAssociative
            <4>3. QED
                BY <4>1, <4>2
        <3>2. SubSeq(signed, 1, n) \o SubSeq(signed, n + 1, m) = SubSeq(signed, 1, m)
            <4>1. 1 \in 1..Len(signed) + 1 /\ n \in 1 - 1..Len(signed) /\ m \in n..Len(signed)
                BY <1>2, <2>2, Typed
            <4> HIDE DEF n
            <4>2. QED
                BY <4>1, Typed, ConcatAdjacentSubSeq
        <3>3. Len(reply.receipts) = m - n
            <4>1. \A i \in (n + 1)..m : signed[i] \in Events
                BY <1>2, <2>2, Typed, ElementOfSeq
            <4>2. n + 1 \in Int /\ m \in Int /\ n + 1 <= m
                BY <1>2, <2>2, Typed
            <4> HIDE DEF n
            <4>3. Len(SubSeq(signed, n + 1, m)) = m - (n + 1) + 1
                BY <4>1, <4>2, SubSeqProperties
            <4>4. QED
                BY <1>2, <2>2, <4>2, <4>3
        <3>4. Len(task.pages) \in Nat
            BY Typed, LenProperties
        <3>5. Len(chain) + Len(pages) = m
            BY <1>3, <3>3, <3>4, <2>2, <1>2, Typed
        <3>6. QED
            BY <1>2, <2>2, <3>1, <3>2, <3>5
    <2> HIDE DEF n
    <2>3. QED
        BY <1>1, <1>2, <2>1, <2>2, PageIsNext
<1>5. CASE reply.receipts # <<>> /\ Len(pages) < Len(task.head) - Len(chain)
    <2>1. /\ task' = [task EXCEPT !.pages = pages]
          /\ Send(Ask("GET_RECEIPTS", Len(chain) + Len(pages))) /\ reply' = NoReply
          /\ UNCHANGED <<signed, chain, deleted, seals, backup, up, divergent, answered, pageLost>>
        BY <1>1, <1>5 DEF GotPage, dbVars, historyVars
    <2>2. /\ task'.step = "pages" /\ task'.head = signed /\ task'.kind = task.kind
          /\ task'.pages = pages
        BY <1>1, <1>2, <2>1 DEF TypeOK, Tasks
    <2>3. wire = <<>> /\ Len(wire) = 0 /\ Len(pages) \in Nat /\ Len(chain) + Len(pages) \in Nat
        <3>1. wire = <<>> /\ Len(wire) = 0
            BY <1>1, EmptySeq DEF Linked, Replied
        <3>2. Len(pages) \in Nat /\ Len(chain) \in Nat
            BY <1>3, Typed, LenProperties
        <3> HIDE DEF pages
        <3>3. QED
            BY <3>1, <3>2
    <2>4. chain \o pages = SubSeq(signed, 1, Len(chain) + Len(pages))
        BY <1>4, <1>5
    <2> HIDE DEF pages
    <2>5. Ask("GET_RECEIPTS", Len(chain) + Len(pages)) \in Requests
        BY <2>3, Typed, RequestTypes
    <2>6. PICK request \in Requests : request = Ask("GET_RECEIPTS", Len(chain) + Len(pages))
        BY <2>5
    <2>7. Harmless(request) /\ request.method = "GET_RECEIPTS" /\ request.from = Len(chain) + Len(pages)
        BY <2>6 DEF Harmless, Ask
    <2>8. Awaited(request)'
        BY <2>1, <2>2, <2>7 DEF Awaited
    <2>9. OnTheWire'
        BY <2>1, <2>3, <2>6, <2>7, <2>8, SentIsAwaited
    <2>10. Unsigned'
        <3>1. wire' = wire \/ wire' = Append(wire, request)
            BY <2>1, <2>6 DEF Send
        <3>2. \A i \in 1..Len(wire') : wire'[i] = request
            BY <2>3, <3>1, Typed, AppendProperties
        <3>3. QED
            BY <2>7, <3>2 DEF Unsigned
    <2>11. up # "down" /\ Len(chain) + Len(pages) < Len(signed)
        BY <1>1, <1>2, <1>5, <2>3, Typed, Constants DEF Linked, InProgress
    <2>12. InProgress'
        BY <2>1, <2>2, <2>4, <2>10, <2>11 DEF Linked, InProgress
    <2>13. QED
        BY <2>1, <2>9, <2>12 DEF Linked, Replied, NamedOnce, HeldBySigner, AnsweredIsSigned, AnsweredKept, SealsCoverTheChain, CopyIsWhole, RedForAReason, Caused
<1>6. CASE ~(reply.receipts # <<>> /\ Len(pages) < Len(task.head) - Len(chain))
    <2>1. Reconcile(signed, pages) /\ pageLost' = pageLost
        BY <1>1, <1>2, <1>6 DEF GotPage
    <2>2. Complete(pages)
        <3>1. CASE reply.receipts = <<>> /\ Len(chain) < JournalStart
            BY <3>1 DEF Complete
        <3>2. ASSUME NEW m \in (n + 1)..Len(signed),
                     Len(chain) + Len(pages) = m, chain \o pages = SubSeq(signed, 1, m)
              PROVE  Complete(pages)
            <4>1. Len(task.pages) \in Nat /\ Len(pages) \in Nat /\ Len(chain) \in Nat /\ Len(signed) \in Nat
                BY <1>3, Typed, LenProperties
            <4>2. reply.receipts # <<>>
                <5>1. m >= Len(chain) + Len(task.pages) + 1
                    BY <1>2, <3>2, <4>1
                <5>2. Len(pages) # Len(task.pages)
                    <6> HIDE DEF pages, n
                    <6>1. QED
                        BY <3>2, <4>1, <5>1
                <5>3. ASSUME reply.receipts = <<>> PROVE pages = task.pages
                    BY <5>3, Typed, ConcatEmptySeq
                <5>4. QED
                    BY <5>2, <5>3
            <4>3. ~(Len(pages) < Len(signed) - Len(chain))
                BY <1>2, <1>6, <4>2
            <4>4. m = Len(signed)
                <5> HIDE DEF pages, n
                <5>1. QED
                    BY <1>2, <3>2, <4>1, <4>3
            <4>5. SubSeq(signed, 1, Len(signed)) = signed
                BY Typed, SubSeqFull
            <4>6. QED
                BY <3>2, <4>4, <4>5 DEF Complete
        <3>3. QED
            BY <1>4, <3>1, <3>2
    <2> HIDE DEF pages
    <2>3. QED
        BY <1>1, <1>3, <2>1, <2>2, ReconcileLinked
<1>7. QED
    BY <1>5, <1>6

-----------------------------------------------------------------------------
(* The invariant holds, and with it what it was made for. *)

(* Nothing signed, nothing stored: the invariant holds.                    *)
LEMMA InvInit == Init => IInv
<1> SUFFICES ASSUME Init PROVE IInv
    OBVIOUS
<1>1. TypeOK
    BY TypeInit
<1>2. /\ signed = <<>> /\ wire = <<>> /\ reply = NoReply /\ task = Idle /\ up = "serving"
      /\ chain = <<>> /\ backup.chain = <<>> /\ backup.seals = {} /\ seals = {} /\ answered = {}
      /\ divergent = FALSE
    BY DEF Init, Database
<1>3. NamedOnce /\ OnTheWire /\ Replied /\ AnsweredIsSigned
    BY <1>2, EmptySeq DEF NamedOnce, OnTheWire, Replied, AnsweredIsSigned
<1>4. HeldBySigner /\ InProgress /\ AnsweredKept /\ SealsCoverTheChain /\ CopyIsWhole /\ RedForAReason
    BY <1>1, <1>2, Constants
    DEF HeldBySigner, InProgress, AnsweredKept, SealsCoverTheChain, CopyIsWhole, RedForAReason
<1>5. QED
    BY <1>1, <1>3, <1>4 DEF IInv, Linked

(* And every step keeps it.                                                *)
LEMMA InvStep == IInv /\ [Next]_vars => IInv'
<1> SUFFICES ASSUME TypeOK, Linked, [Next]_vars PROVE TypeOK' /\ Linked'
    BY DEF IInv
<1>1. TypeOK'
    BY TypeStep
<1>2. ASSUME NEW e \in Spans, AppendDuplicate(e) PROVE Linked'
    BY <1>1, <1>2, AppendDuplicateLinked
<1>3. CASE ConnectionLost \/ Timeout
    BY <1>1, <1>3, UnavailableLinked DEF ConnectionLost, Timeout
<1>4. CASE \/ \E e \in Spans \cup Others : BeginAppend(e)
           \/ \E org \in Owners : BeginCreate(org)
           \/ BeginSeal \/ ServerStart
           \/ ListSystems \/ TakeBackup \/ SignerRestart \/ UNCHANGED vars
    BY <1>1, <1>4, BeginningsLinked
<1>5. CASE StoreSigned \/ SignRefused \/ GotHead \/ GotPage \/ GotSeal
    BY <1>1, <1>5, StoreSignedLinked, SignRefusedLinked, GotHeadLinked, GotPageLinked, GotSealLinked
<1>6. CASE DeleteEmptySystem \/ EraseChain \/ ServerCrash \/ SignerCrash \/ Restore
    BY <1>1, <1>6, EraseLinked, CrashLinked, RestoreLinked
<1>7. CASE SignerHandles \/ RefuseClock
    BY <1>1, <1>7, SignerLinked
<1>8. QED
    BY <1>1, <1>2, <1>3, <1>4, <1>5, <1>6, <1>7 DEF Next, Server, Environment

(* So it always holds.                                                     *)
LEMMA Invariant == Spec => []IInv
    BY InvInit, InvStep, PTL DEF Spec

(* Both processes and the file hold what they can hold, whatever is lost.  *)
THEOREM TypeCorrect == Spec => []TypeOK
    BY Invariant, PTL DEF IInv

(* Nothing told to a caller is ever missing from a chain that shows no     *)
(* disagreement (AnsweredKept): not after a copy was put back, a reply     *)
(* lost, or a request signed after its sender gave it up.                  *)
THEOREM AnsweredReceiptsAreKept == Spec => []AnsweredKept
<1>1. IInv => AnsweredKept
    BY DEF IInv, Linked
<1>2. QED
    BY <1>1, Invariant, PTL

(* Checkpoint and chain are of one tree, also in the copy (the transaction *)
(* of writeCheckpoint, and the comparison before it).                      *)
THEOREM SealsCover == Spec => []SealsCoverTheChain
<1>1. IInv => SealsCoverTheChain
    BY DEF IInv, Linked
<1>2. QED
    BY <1>1, Invariant, PTL

(* No crash, late reply or abandoned request turns a system red.           *)
THEOREM NoAlarmWithoutACause == Spec => []AlarmsHaveACause
<1>1. IInv => AlarmsHaveACause
    BY DEF IInv, Linked, RedForAReason, Caused, AlarmsHaveACause
<1>2. QED
    BY <1>1, Invariant, PTL

(* The server's chain and its copy never leave the signer's: whatever the  *)
(* order of crashes and repairs, there is no second history to repair to.  *)
THEOREM OneHistory == Spec => []HeldBySigner
<1>1. IInv => HeldBySigner
    BY DEF IInv, Linked
<1>2. QED
    BY <1>1, Invariant, PTL

-----------------------------------------------------------------------------
(* The store and the signer implement EvidenceLog. *)

\* The record and what was told, as the refinement reads them.
Record_ == [s \in {Customer} |-> signed]
Told_ == {[system |-> Customer, at |-> a[1], event |-> a[2]] : a \in answered}

(* Nothing recorded and nothing told: EvidenceLog begins so too.           *)
LEMMA LogInit == Init => Log!Init
<1> SUFFICES ASSUME Init PROVE Log!Init
    OBVIOUS
<1>1. Record_ \in [{Customer} -> Seq(Events)]
    BY EmptySeq DEF Init, Record_
<1>2. Told_ = {}
    BY DEF Init, Told_
<1>3. QED
    BY <1>1, <1>2 DEF Log!Init, Record_, Told_

(* What is told is a receipt of the signer's chain, at its position.       *)
LEMMA TellsOne ==
    ASSUME NEW i \in 1..Len(signed), NEW e, signed[i] = e, signed' = signed,
           answered' = answered \cup {<<i, e>>}
    PROVE  Log!Next
<1>1. Record_' = Record_ /\ Record_[Customer] = signed
    BY DEF Record_
<1>2. Told_' = Told_ \cup {[system |-> Customer, at |-> i, event |-> Record_[Customer][i]]}
    <2>1. Told_' = Told_ \cup {[system |-> Customer, at |-> i, event |-> e]}
        <3>1. PICK p : p = <<i, e>>
            OBVIOUS
        <3>2. p[1] = i /\ p[2] = e /\ answered' = answered \cup {p}
            BY <3>1
        <3>3. Told_' = {[system |-> Customer, at |-> a[1], event |-> a[2]] : a \in answered \cup {p}}
            BY <3>2 DEF Told_
        <3>4. QED
            BY <3>2, <3>3 DEF Told_
    <2>2. QED
        BY <1>1, <2>1
<1>3. Log!Tell(Customer)
    BY <1>1, <1>2 DEF Log!Tell, Record_, Told_
<1>4. QED
    BY <1>3 DEF Log!Next

(* Every step is one of EvidenceLog's, or changes nothing it speaks of.    *)
LEMMA LogStep == IInv /\ [Next]_vars => [Log!Next]_(Log!vars)
<1> SUFFICES ASSUME TypeOK, Linked, [Next]_vars PROVE Log!Next \/ UNCHANGED Log!vars
    BY DEF Log!vars, IInv
<1>1. CASE signed' = signed /\ answered' = answered
    BY <1>1 DEF Log!vars
<1>2. ASSUME NEW e \in Spans, AppendDuplicate(e) PROVE Log!Next
    <2>1. PICK i \in 1..Len(chain) : chain[i] = e /\ answered' = answered \cup {Told(SubSeq(chain, 1, i - 1), e)}
        BY <1>2 DEF AppendDuplicate
    <2>2. Told(SubSeq(chain, 1, i - 1), e) = <<i, e>>
        BY <2>1, Typed, BeginningOf DEF Told
    <2>3. i \in 1..Len(signed) /\ signed[i] = e /\ signed' = signed
        BY <1>2, <2>1, Typed, HeldIsSigned DEF AppendDuplicate, signerVars
    <2>4. QED
        BY <2>1, <2>2, <2>3, TellsOne
<1>3. CASE StoreSigned
    <2>1. signed = Append(chain, task.event) /\ signed' = signed
        BY <1>3, Constants DEF StoreSigned, Linked, Replied
    <2>2. PICK i \in 1..Len(signed) : i = Len(chain) + 1 /\ signed[i] = task.event
        BY <2>1, Typed, AppendProperties
    <2>3. PICK e : e = task.event
        OBVIOUS
    <2>4. answered' = answered \cup {<<i, e>>}
        BY <1>3, <2>2, <2>3 DEF StoreSigned, Told
    <2>5. QED
        BY <2>1, <2>2, <2>3, <2>4, TellsOne
<1>4. CASE GotHead \/ GotPage
    <2>1. signed' = signed
        BY <1>4 DEF GotHead, GotPage, Reconcile
    <2>2. ASSUME NEW head, NEW missing, Reconcile(head, missing), head = signed, answered' # answered
          PROVE  Log!Next
        <3> DEFINE outcome == Outcome(head, missing)
                   level == IF outcome = "recovered" THEN head ELSE chain
        <3>1. Resume(outcome, level)
            BY <2>2 DEF Reconcile
        <3>2. PICK i \in 1..Len(level) : /\ outcome = "recovered" /\ level[i] = task.event
                                         /\ answered' = answered \cup {Told(SubSeq(level, 1, i - 1), task.event)}
            BY <2>2, <3>1 DEF Resume
        <3>3. level = signed
            BY <2>2, <3>2
        <3>4. PICK e : e = task.event
            OBVIOUS
        <3> HIDE DEF level, outcome
        <3>5. i \in 1..Len(signed) /\ signed[i] = e /\ Told(SubSeq(level, 1, i - 1), task.event) = <<i, e>>
            BY <3>2, <3>3, <3>4, Typed, BeginningOf DEF Told
        <3>6. QED
            BY <2>1, <3>2, <3>5, TellsOne
    <2>3. answered' = answered \/ \E missing : Reconcile(signed, missing)
        BY <1>4, Constants DEF GotHead, GotPage, historyVars, Linked, Replied, InProgress
    <2>4. QED
        BY <1>1, <2>1, <2>2, <2>3
<1>5. CASE DeleteEmptySystem \/ EraseChain
    <2>1. signed' = signed /\ answered' = {}
        BY <1>5 DEF DeleteEmptySystem, EraseChain, Erase, signerVars
    <2>2. Told_' = {t \in Told_ : t.system # Customer} /\ Record_' = Record_
        BY <2>1 DEF Told_, Record_
    <2>3. Log!Forget(Customer)
        BY <2>2 DEF Log!Forget, Told_, Record_
    <2>4. QED
        BY <2>3 DEF Log!Next
<1>6. CASE SignerHandles
    <2>1. answered' = answered
        BY <1>6 DEF SignerHandles, historyVars
    <2>2. CASE signed' = signed
        BY <1>1, <2>1, <2>2
    <2>3. CASE signed' # signed
        <3>1. wire # <<>> /\ wire' = Tail(wire) /\ Head(wire).method = "SIGN_RECEIPT"
              /\ Head(wire).prev = signed /\ signed' = Append(signed, Head(wire).event)
              /\ Reply(Head(wire), Given("signature", <<>>)) /\ UNCHANGED <<chain, task>>
            BY <1>6, <2>3 DEF SignerHandles, HandleSign, Continues, dbVars, serverVars
        <3>2. Head(wire) \in Requests /\ Harmless(Head(wire))
            BY <3>1, OneIsRead DEF Reply
        <3>3. PICK e \in Events : e = Head(wire).event
            BY <3>2 DEF Requests
        <3>4. e \in Spans => ~Holds(signed, e)
            BY <3>1, <3>2, <3>3 DEF Harmless
        <3>5. Record_' = [Record_ EXCEPT ![Customer] = Append(@, e)] /\ Record_[Customer] = signed
            BY <3>1, <3>3 DEF Record_
        <3>6. Log!Extend(Customer)
            BY <2>1, <3>4, <3>5 DEF Log!Extend, Log!Recorded, Record_, Holds
        <3>7. QED
            BY <3>6 DEF Log!Next
    <2>4. QED
        BY <2>2, <2>3
<1>7. CASE \/ \E e \in Spans \cup Others : BeginAppend(e)
           \/ \E org \in Owners : BeginCreate(org)
           \/ ListSystems \/ BeginSeal \/ SignRefused \/ GotSeal \/ ConnectionLost \/ Timeout
           \/ RefuseClock \/ SignerCrash \/ SignerRestart
           \/ ServerCrash \/ ServerStart \/ TakeBackup \/ Restore \/ UNCHANGED vars
    <2>1. signed' = signed /\ answered' = answered
        BY <1>7 DEF BeginAppend, BeginCreate, ListSystems, BeginSeal, SignRefused, GotSeal, ConnectionLost,
           Timeout, Unavailable, RefuseClock, SignerCrash, SignerRestart, ServerCrash, ServerStart, TakeBackup,
           Restore, vars, signerVars, historyVars
    <2>2. QED
        BY <1>1, <2>1
<1>8. QED
    BY <1>2, <1>3, <1>4, <1>5, <1>6, <1>7 DEF Next, Server, Environment

(* Server, database and signer together keep the promise EvidenceLog makes *)
(* for them (ImplementsLog): one record that only grows, each span once,   *)
(* nothing told that is not in it.                                         *)
THEOREM StoreImplementsLog == Spec => ImplementsLog
<1>1. Spec => Log!Spec
    BY LogInit, LogStep, Invariant, PTL DEF Spec, Log!Spec
<1>2. QED
    BY <1>1 DEF ImplementsLog
=============================================================================
