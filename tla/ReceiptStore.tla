---------------------------- MODULE ReceiptStore ----------------------------
(***************************************************************************)
(* One chain of the receipt store (apps/server/src/storage/store.ts) and   *)
(* the signer it is written with, over the signer's socket.                *)
(*                                                                         *)
(* The server runs one write at a time (enqueue), holds its transaction    *)
(* open while the signer is asked, and reconciles with the signer's head   *)
(* when a position is refused, before a checkpoint, and when it starts.    *)
(* Requests time out, the signer and the server crash and restart, and the *)
(* database is put back to an older copy.                                  *)
(*                                                                         *)
(* The signer is the one EvidenceLog promises and Signer provides: `signed`  *)
(* is its durable chain, extended by the next receipt only.  As in Signer, *)
(* a receipt's hash is the sequence of events up to it, so a chain and the *)
(* hash of its last receipt are one value, and so are a Merkle root and    *)
(* the leaves under it.  Signatures are not modelled: what the server      *)
(* verifies under the signer's key is what the signer sent.                *)
(***************************************************************************)
EXTENDS Integers, Sequences, SequencesExt

CONSTANTS
    Spans,          \* events an exporter names by trace_id/span_id
    Others,         \* events with no such name
    Genesis,        \* the event of createSystem
    Nobody,         \* organization_id null
    Customer,       \* an organization
    Owners,         \* for whom systems are created
    JournalStart,   \* receipts signed before the journal existed
    RECOVERY_PAGE,  \* receipts asked for at a time
    MaxSigned,      \* bound: length of the chain
    MaxFaults       \* bound: timeouts, refusals, crashes, restorations

ASSUME ReceiptStoreAssumption ==
    /\ Owners \subseteq {Nobody, Customer}
    /\ RECOVERY_PAGE \in Nat \ {0}
    /\ {JournalStart, MaxSigned, MaxFaults} \subseteq Nat

VARIABLES
    \* the signer and its socket
    signed,         \* the chain the signer remembers
    signerUp,
    wire,           \* requests the signer has not read yet, in order
    reply,          \* the reply to the request waited for, or NoReply
    \* the database
    chain,          \* receipts of the system, by seq
    owner,          \* systems.organization_id
    deleted,        \* admin_log holds a system.delete of this system_id
    seals,          \* checkpoints, each the chain its root covers
    backup,         \* a copy of the database
    \* the server process
    up,             \* "down", "starting" (reconciling) or "serving"
    task,           \* the write being run
    listed,         \* the checkpoint run has this system still to do
    divergent,      \* divergences holds this system
    \* history
    answered,       \* receipts a caller was told of: <<position, event>>
    pageLost,       \* a journal page was asked for and did not come
    restored,       \* the database was ever put back to a copy
    faults

signerVars == <<signed, signerUp, wire, reply>>
dbVars == <<chain, owner, deleted, seals, backup>>
serverVars == <<up, task, listed, divergent>>
historyVars == <<answered, pageLost, restored, faults>>
vars == <<signerVars, dbVars, serverVars, historyVars>>

-----------------------------------------------------------------------------
Events == Spans \cup Others \cup {Genesis}

Holds(s, e) == \E i \in 1..Len(s) : s[i] = e

\* A request, and whether its sender still waits for it: SignerClient keeps
\* the ids it waits for, and ignores a reply to any other.
Sign(prev, e) == [method |-> "SIGN_RECEIPT", prev |-> prev, event |-> e, from |-> 0, live |-> TRUE]
Ask(method, from) == [method |-> method, prev |-> <<>>, event |-> Genesis, from |-> from, live |-> TRUE]
Given(kind, receipts) == [kind |-> kind, receipts |-> receipts]
NoReply == Given("none", <<>>)

\* A write: what it is, what it waits for, and what reconcileNow has in hand.
Task(kind, step, e) ==
    [kind |-> kind, step |-> step, event |-> e, org |-> Nobody, retried |-> FALSE,
     head |-> <<>>, pages |-> <<>>]
Idle == Task("idle", "none", Genesis)

\* What a caller is told: the position, and the event recorded there.
Told(s, e) == <<Len(s) + 1, e>>

Database == [chain |-> chain, owner |-> owner, deleted |-> deleted, seals |-> seals]

Init ==
    /\ signed = <<>> /\ signerUp = TRUE /\ wire = <<>> /\ reply = NoReply
    /\ chain = <<>> /\ owner = Nobody /\ deleted = FALSE /\ seals = {}
    /\ backup = Database
    /\ up = "serving" /\ task = Idle /\ listed = FALSE /\ divergent = FALSE
    /\ answered = {} /\ pageLost = FALSE /\ restored = FALSE /\ faults = 0

-----------------------------------------------------------------------------
(* The server's steps. *)

Serving == up = "serving" /\ task = Idle

Send(request) == wire' = IF signerUp THEN Append(wire, request) ELSE wire

\* appendBatch and append: a span already on the chain is answered at once.
AppendDuplicate(e) ==
    /\ Serving
    /\ e \in Spans
    /\ \E i \in 1..Len(chain) :
        chain[i] = e /\ answered' = answered \cup {Told(SubSeq(chain, 1, i - 1), e)}
    /\ UNCHANGED <<signerVars, dbVars, serverVars, pageLost, restored, faults>>

\* insertReceipt up to its await: the position is the database's own tip.
BeginAppend(e) ==
    /\ Serving
    /\ chain # <<>> /\ Len(signed) < MaxSigned
    /\ e \in Spans => ~Holds(chain, e)
    /\ task' = Task("append", "sign", e)
    /\ Send(Sign(chain, e))
    /\ UNCHANGED <<signed, signerUp, reply, dbVars, up, listed, divergent, historyVars>>

\* createSystem: refused for a deleted system_id and for a chain that exists.
BeginCreate(org) ==
    /\ Serving
    /\ chain = <<>> /\ ~deleted
    /\ task' = [Task("create", "sign", Genesis) EXCEPT !.org = org]
    /\ Send(Sign(<<>>, Genesis))
    /\ UNCHANGED <<signed, signerUp, reply, dbVars, up, listed, divergent, historyVars>>

\* Checkpointer.checkpointAll reads the list of systems once...
ListSystems ==
    /\ up = "serving" /\ chain # <<>> /\ ~listed
    /\ listed' = TRUE
    /\ UNCHANGED <<signerVars, dbVars, up, task, divergent, historyVars>>

\* ...and queues a checkpoint of each; writeCheckpoint reconciles first.
BeginSeal ==
    /\ Serving /\ listed
    /\ listed' = FALSE
    /\ task' = Task("seal", "head", Genesis)
    /\ Send(Ask("GET_HEAD", 0))
    /\ UNCHANGED <<signed, signerUp, reply, dbVars, up, divergent, historyVars>>

\* The signature arrived: the receipt is inserted and the transaction commits,
\* with the system's registration if it is a genesis.
StoreSigned ==
    /\ task.step = "sign" /\ reply.kind = "signature"
    /\ chain' = Append(chain, task.event)
    /\ owner' = IF task.kind = "create" THEN task.org ELSE owner
    /\ answered' = answered \cup {Told(chain, task.event)}
    /\ task' = Idle /\ reply' = NoReply
    /\ UNCHANGED <<signed, signerUp, wire, deleted, seals, backup, up, listed, divergent,
                   pageLost, restored, faults>>

\* writeReceipt: a position refused is reconciled once, a second refusal and
\* any refusal for the clock fail the write.  The transaction is rolled back.
SignRefused ==
    /\ task.step = "sign" /\ reply.kind \in {"sequence", "clock"}
    /\ reply' = NoReply
    /\ IF reply.kind = "sequence" /\ ~task.retried
       THEN /\ task' = [task EXCEPT !.step = "head"]
            /\ Send(Ask("GET_HEAD", 0))
       ELSE task' = Idle /\ wire' = wire
    /\ UNCHANGED <<signed, signerUp, dbVars, up, listed, divergent, historyVars>>

-----------------------------------------------------------------------------
(* reconcileNow *)

FaultOneAheadOnly(head, missing) ==
    IF head = chain THEN "in_sync"
    ELSE IF Len(head) = Len(chain) + 1 /\ IsPrefix(head, chain \o missing) THEN "recovered"
    ELSE "diverged"

\* The comparison of the two chains.  `missing` is what the signer gave beyond
\* the database's tip: its head, or the pages of its journal.
Outcome(head, missing) ==
    IF head = chain THEN "in_sync"
    ELSE IF /\ Len(head) > Len(chain)
            /\ IsPrefix(head, chain \o missing)
            /\ ~deleted
            /\ \A i \in 1..Len(missing) : missing[i] \in Spans => ~Holds(chain, missing[i])
         THEN "recovered"
         ELSE "diverged"

Covered(level) ==
    \E c \in seals : Len(c) = Len(level) /\ \A d \in seals : Len(d) <= Len(c)

\* insertReceipt looks a named event up again on every try.
FaultNotLookedUp(e, level) == FALSE
AlreadyThere(e, level) == e \in Spans /\ Holds(level, e)

\* What the caller of reconcileNow does with its outcome.
Resume(outcome, level) ==
    \/ /\ task.kind = "startup"
       /\ up' = "serving" /\ task' = Idle /\ wire' = wire /\ answered' = answered
    \/ /\ task.kind = "append" /\ outcome = "recovered"
       /\ AlreadyThere(task.event, level)
       /\ \E i \in 1..Len(level) :
            level[i] = task.event /\ answered' = answered \cup {Told(SubSeq(level, 1, i - 1), task.event)}
       /\ up' = up /\ task' = Idle /\ wire' = wire
    \/ /\ task.kind = "append" /\ outcome = "recovered"
       /\ ~AlreadyThere(task.event, level)
       /\ task' = [Task("append", "sign", task.event) EXCEPT !.retried = TRUE]
       /\ Send(Sign(level, task.event))
       /\ up' = up /\ answered' = answered
    \/ /\ (task.kind = "append" /\ outcome # "recovered") \/ task.kind = "create"
       /\ up' = up /\ task' = Idle /\ wire' = wire /\ answered' = answered
    \/ /\ task.kind = "seal" /\ outcome # "diverged" /\ level # <<>> /\ ~Covered(level)
       /\ task' = Task("seal", "seal", Genesis)
       /\ Send(Ask("CHECKPOINT", 0))
       /\ up' = up /\ answered' = answered
    \/ /\ task.kind = "seal" /\ (outcome = "diverged" \/ level = <<>> \/ Covered(level))
       /\ up' = up /\ task' = Idle /\ wire' = wire /\ answered' = answered

\* The transaction that ends reconcileNow, and what follows it at once.
Reconcile(head, missing) ==
    LET outcome == Outcome(head, missing)
        level == IF outcome = "recovered" THEN head ELSE chain
    IN  /\ chain' = level
        /\ owner' = IF outcome = "recovered" /\ chain = <<>> THEN Nobody ELSE owner
        /\ divergent' = (outcome = "diverged" \/ (divergent /\ outcome # "recovered"))
        /\ Resume(outcome, level)
        /\ reply' = NoReply
        /\ UNCHANGED <<signed, signerUp, deleted, seals, backup, listed, restored, faults>>

\* The head: one receipt ahead or not ahead at all is settled by it alone,
\* further ahead needs the journal.
GotHead ==
    /\ task.step = "head" /\ reply.kind = "head"
    /\ LET head == reply.receipts IN
        IF Len(head) > Len(chain) + 1
        THEN /\ task' = [task EXCEPT !.step = "pages", !.head = head]
             /\ Send(Ask("GET_RECEIPTS", Len(chain)))
             /\ reply' = NoReply
             /\ UNCHANGED <<signed, signerUp, dbVars, up, listed, divergent, historyVars>>
        ELSE /\ Reconcile(head, IF head = <<>> THEN <<>> ELSE <<Last(head)>>)
             /\ UNCHANGED pageLost

GotPage ==
    /\ task.step = "pages" /\ reply.kind = "page"
    /\ LET pages == task.pages \o reply.receipts IN
        IF reply.receipts # <<>> /\ Len(pages) < Len(task.head) - Len(chain)
        THEN /\ task' = [task EXCEPT !.pages = pages]
             /\ Send(Ask("GET_RECEIPTS", Len(chain) + Len(pages)))
             /\ reply' = NoReply
             /\ UNCHANGED <<signed, signerUp, dbVars, up, listed, divergent, historyVars>>
        ELSE /\ Reconcile(task.head, pages)
             /\ UNCHANGED pageLost

\* writeCheckpoint: kept only if it describes the tree this database holds.
GotSeal ==
    /\ task.step = "seal" /\ reply.kind = "checkpoint"
    /\ IF reply.receipts = chain
       THEN seals' = seals \cup {chain} /\ UNCHANGED divergent
       ELSE divergent' = TRUE /\ UNCHANGED seals
    /\ task' = Idle /\ reply' = NoReply
    /\ UNCHANGED <<signed, signerUp, wire, chain, owner, deleted, backup, up, listed, historyVars>>

-----------------------------------------------------------------------------
(* Requests that get no answer. *)

Forgotten == [i \in 1..Len(wire) |-> [wire[i] EXCEPT !.live = FALSE]]

\* SignerUnavailableError: the write fails and is rolled back, and the server
\* exits if it was starting.  Only a journal page that does not come is caught:
\* reconcileNow goes on without a journal, and so finds nothing in between.
Unavailable ==
    /\ wire' = Forgotten
    /\ reply' = NoReply
    /\ task' = Idle
    /\ IF task.step = "pages"
       THEN up' = "serving" /\ divergent' = TRUE /\ pageLost' = TRUE
       ELSE /\ up' = IF task.kind = "startup" THEN "down" ELSE up
            /\ UNCHANGED <<divergent, pageLost>>
    /\ UNCHANGED <<signed, signerUp, dbVars, listed, answered, restored>>

\* The connection is lost: no reply can come any more.
ConnectionLost ==
    /\ task # Idle /\ reply = NoReply
    /\ \A i \in 1..Len(wire) : ~wire[i].live
    /\ Unavailable
    /\ UNCHANGED faults

Fault == faults < MaxFaults /\ faults' = faults + 1

\* timeoutMs passed: the signer may still read the request, or have signed.
Timeout ==
    /\ Fault
    /\ task # Idle
    /\ Unavailable

-----------------------------------------------------------------------------
(* The signer: one request at a time, in the order they reached it. *)

FaultAnyReply(request, value) == reply' = value

\* A reply reaches whoever still waits for it; the others are ignored.
Reply(request, value) == reply' = IF request.live THEN value ELSE reply

Continues(request) == request.prev = signed

HandleSign(request) ==
    IF Continues(request)
    THEN /\ signed' = Append(signed, request.event)
         /\ Reply(request, Given("signature", <<>>))
    ELSE /\ signed' = signed
         /\ Reply(request, Given("sequence", <<>>))

\* StateDirectory.receipts: from the journal, the head from the state itself.
PageFrom(from) ==
    IF from < JournalStart /\ from # Len(signed) - 1
    THEN <<>>
    ELSE SubSeq(signed, from + 1,
                IF from + RECOVERY_PAGE <= Len(signed) THEN from + RECOVERY_PAGE ELSE Len(signed))

SignerHandles ==
    /\ signerUp /\ wire # <<>>
    /\ LET request == Head(wire) IN
        \/ request.method = "SIGN_RECEIPT" /\ HandleSign(request)
        \/ /\ request.method = "GET_HEAD"
           /\ Reply(request, Given("head", signed)) /\ signed' = signed
        \/ /\ request.method = "GET_RECEIPTS"
           /\ Reply(request, Given("page", PageFrom(request.from))) /\ signed' = signed
        \/ /\ request.method = "CHECKPOINT"
           /\ Reply(request, Given("checkpoint", signed)) /\ signed' = signed
    /\ wire' = Tail(wire)
    /\ UNCHANGED <<signerUp, dbVars, serverVars, historyVars>>

\* A receipt whose time is not the signer's own is refused and nothing changes.
RefuseClock ==
    /\ Fault
    /\ signerUp /\ wire # <<>> /\ Head(wire).method = "SIGN_RECEIPT"
    /\ Reply(Head(wire), Given("clock", <<>>))
    /\ wire' = Tail(wire)
    /\ UNCHANGED <<signed, signerUp, dbVars, serverVars, answered, pageLost, restored>>

\* What it has signed is on disk (Signer.tla); what it has not read is lost.
SignerCrash ==
    /\ Fault
    /\ signerUp
    /\ signerUp' = FALSE
    /\ wire' = <<>>
    /\ UNCHANGED <<signed, reply, dbVars, serverVars, answered, pageLost, restored>>

SignerRestart ==
    /\ ~signerUp
    /\ signerUp' = TRUE
    /\ UNCHANGED <<signed, wire, reply, dbVars, serverVars, historyVars>>

-----------------------------------------------------------------------------
(* The server process and its database file. *)

\* What it had written to the socket is read by the signer, or lost with it.
ServerCrash ==
    /\ Fault
    /\ up # "down"
    /\ up' = "down" /\ task' = Idle /\ listed' = FALSE /\ divergent' = FALSE
    /\ reply' = NoReply
    /\ wire' \in {Forgotten, <<>>}
    /\ UNCHANGED <<signed, signerUp, dbVars, answered, pageLost, restored>>

FaultServesAtOnce ==
    /\ up = "down" /\ signerUp
    /\ up' = "serving"
    /\ UNCHANGED <<signerVars, dbVars, task, listed, divergent, historyVars>>

\* serve: every chain the database holds is compared before anything is served.
ServerStart ==
    /\ up = "down" /\ signerUp
    /\ IF chain = <<>>
       THEN up' = "serving" /\ UNCHANGED <<task, wire>>
       ELSE /\ up' = "starting"
            /\ task' = Task("startup", "head", Genesis)
            /\ Send(Ask("GET_HEAD", 0))
    /\ UNCHANGED <<signed, signerUp, reply, dbVars, listed, divergent, historyVars>>

\* sigillo-server backup: a consistent copy, taken while the server runs or not.
TakeBackup ==
    /\ backup # Database
    /\ backup' = Database
    /\ UNCHANGED <<signerVars, chain, owner, deleted, seals, serverVars, historyVars>>

\* The copy put back, with the server stopped.
Restore ==
    /\ Fault
    /\ up = "down" /\ backup # Database
    /\ chain' = backup.chain /\ owner' = backup.owner
    /\ deleted' = backup.deleted /\ seals' = backup.seals
    /\ restored' = TRUE
    /\ UNCHANGED <<signerVars, backup, serverVars, answered, pageLost>>

-----------------------------------------------------------------------------
(* Deletion. *)

FaultKeepsCheckpoints ==
    /\ chain' = <<>> /\ owner' = Nobody /\ deleted' = TRUE /\ answered' = {}
    /\ UNCHANGED <<signerVars, backup, seals, serverVars, pageLost, restored, faults>>

\* The chain, its checkpoints and what was answered go; the log entry stays.
Erase ==
    /\ chain' = <<>> /\ owner' = Nobody /\ deleted' = TRUE /\ seals' = {}
    /\ answered' = {}
    /\ UNCHANGED <<signerVars, backup, serverVars, pageLost, restored, faults>>

\* deleteEmptySystem: nothing but the genesis.
DeleteEmptySystem == Serving /\ Len(chain) = 1 /\ Erase

\* eraseOperatorSystem, eraseOrganization: the whole record, on purpose.
EraseChain == Serving /\ chain # <<>> /\ Erase

-----------------------------------------------------------------------------
Server ==
    \/ \E e \in Spans \cup Others : BeginAppend(e)
    \/ \E e \in Spans : AppendDuplicate(e)
    \/ \E org \in Owners : BeginCreate(org)
    \/ ListSystems \/ BeginSeal
    \/ StoreSigned \/ SignRefused \/ GotHead \/ GotPage \/ GotSeal
    \/ ConnectionLost \/ Timeout
    \/ DeleteEmptySystem \/ EraseChain

Environment ==
    \/ SignerHandles \/ RefuseClock \/ SignerCrash \/ SignerRestart
    \/ ServerCrash \/ ServerStart \/ TakeBackup \/ Restore

Next == Server \/ Environment

Spec == Init /\ [][Next]_vars

\* The signer and the server are restarted when they stop (docker-compose), a
\* process that has a reply or has lost its connection goes on, and the
\* checkpointer's timer lists the systems again and again.  The write queue is
\* first come first served, so the checkpoint it queues has its turn.
Fairness ==
    /\ WF_vars(SignerHandles) /\ WF_vars(SignerRestart) /\ WF_vars(ServerStart)
    /\ WF_vars(StoreSigned \/ SignRefused \/ GotHead \/ GotPage \/ GotSeal)
    /\ WF_vars(ConnectionLost)
    /\ WF_vars(ListSystems) /\ SF_vars(BeginSeal)

FairSpec == Spec /\ Fairness

-----------------------------------------------------------------------------
Dbs == [chain : Seq(Events), owner : {Nobody, Customer}, deleted : BOOLEAN, seals : SUBSET Seq(Events)]

Requests ==
    [method : {"SIGN_RECEIPT", "GET_HEAD", "GET_RECEIPTS", "CHECKPOINT"},
     prev : Seq(Events), event : Events, from : Nat, live : BOOLEAN]

Replies ==
    [kind : {"none", "signature", "sequence", "clock", "head", "page", "checkpoint"},
     receipts : Seq(Events)]

Tasks ==
    [kind : {"idle", "append", "create", "seal", "startup"},
     step : {"none", "sign", "head", "pages", "seal"},
     event : Events, org : {Nobody, Customer}, retried : BOOLEAN,
     head : Seq(Events), pages : Seq(Events)]

(* Every variable holds what the two processes and the file can hold. *)
TypeOK ==
    /\ signed \in Seq(Events) /\ signerUp \in BOOLEAN
    /\ wire \in Seq(Requests) /\ reply \in Replies
    /\ Database \in Dbs /\ backup \in Dbs
    /\ up \in {"down", "starting", "serving"}
    /\ task \in Tasks
    /\ listed \in BOOLEAN /\ divergent \in BOOLEAN
    /\ answered \subseteq ((Nat \ {0}) \X Events)
    /\ pageLost \in BOOLEAN /\ restored \in BOOLEAN
    /\ faults \in 0..MaxFaults

(* Whatever a caller was told is recorded is in the chain again by the     *)
(* time the server answers anyone, also after an older copy was put back;  *)
(* unless the system is not in that copy, or a disagreement is showing.    *)
AnsweredKept ==
    up = "serving" /\ ~divergent /\ chain # <<>> =>
        \A a \in answered : a[1] <= Len(chain) /\ chain[a[1]] = a[2]

(* Every stored checkpoint covers a prefix of the chain stored with it.    *)
SealsCoverTheChain == \A c \in seals : c # <<>> /\ IsPrefix(c, chain)

(* docs/SECURITY.md 156-174: a signer ahead whose journal holds the         *)
(* receipts in between is repaired by itself, and only a disagreement turns *)
(* a system red.  So it is here, but for a journal page that did not come   *)
(* in time (the catch of reconcileNow) and a deleted system: never a late   *)
(* reply, a request read after its sender gave up, or a crash.              *)
AlarmsHaveACause == divergent => pageLost \/ deleted \/ Len(chain) < JournalStart

(* A receipt signed and lost comes back: a chain the signer is ahead of is *)
(* brought level without anyone's help, a journal page that failed to come *)
(* included, unless the chain goes from the database.                      *)
ChainCatchesUp ==
    (chain # <<>> /\ Len(chain) < Len(signed)) ~> (chain = signed \/ chain = <<>>)

\* The promise the server and the signer keep together.
Log == INSTANCE EvidenceLog WITH
    Systems <- {Customer},
    record <- [s \in {Customer} |-> signed],
    told <- {[system |-> Customer, at |-> a[1], event |-> a[2]] : a \in answered}

(* The store implements EvidenceLog: one record that only grows, each span *)
(* once, and nothing told to a caller that is not in it at that position.  *)
ImplementsLog == Log!Spec
=============================================================================
