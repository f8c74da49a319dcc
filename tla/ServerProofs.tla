---------------------------- MODULE ServerProofs ----------------------------
(***************************************************************************)
(* What the server owes the people who hold systems, what its model        *)
(* gateway owes an agent and the chain, and what its throttles owe those   *)
(* they lock out, for every number of organizations, people, systems,      *)
(* links, waiting changes, keys, requests, events and addresses.           *)
(*                                                                         *)
(* Tenancy. A step either leaves the database alone or is one transaction, *)
(* whoever ran it (StepIsTransaction). The invariant is of the database    *)
(* alone: no row refers to an organization that is gone, and a link that   *)
(* can be spent belongs to a system that is there and is its only one.     *)
(* Nothing needs to be known of the queue: every transaction checks again  *)
(* what it depends on.                                                     *)
(*                                                                         *)
(* Gateway. The invariant follows one request at a time (RequestInv):      *)
(* which key let it in, and what of it is on the chain when it has come    *)
(* that far. Of the rest of the server it needs two things only: that an   *)
(* issued key is never unissued, and that what is written stays written.   *)
(*                                                                         *)
(* Throttle. The invariant (DoorInv) says of an entry that its failures    *)
(* are among those held against the client, or that a lockout was paid     *)
(* for (Fair), and of an attempt still waiting that whatever locked its    *)
(* client out meanwhile is recent enough to be remembered (AskedBefore):   *)
(* without it a late failure could put a fresh entry in a lockout's place. *)
(***************************************************************************)
EXTENDS Tenancy, Serving, FiniteSetTheorems, TLAPS

-----------------------------------------------------------------------------
DbTypes ==
    /\ org \in [Orgs -> {"none", "waiting", "approved"}]
    /\ member \in [Users -> Orgs \cup {None}]
    /\ owner \in [Systems -> Holders \cup {Unborn, Deleted}]
    /\ recorded \subseteq Systems
    /\ linkOf \in [Links -> Systems \cup {None}]
    /\ linkState \in [Links -> {"unmade", "open", "used", "revoked", "gone"}]
    /\ expired \subseteq Links

LinksAreHeld ==
    \A l \in Links :
        /\ linkState[l] = "open" => linkOf[l] \in Systems /\ Held(linkOf[l])
        /\ linkState[l] = "unmade" => linkOf[l] = None

OneOpenLink ==
    \A k, l \in Links :
        linkState[k] = "open" /\ linkState[l] = "open" /\ linkOf[k] = linkOf[l] => k = l

DbInv == DbTypes /\ NoOrphans /\ LinksAreHeld /\ OneOpenLink

Transaction ==
    \/ \E s \in Systems, h \in Holders : CreateSystem(s, h) \/ AssignSystem(s, h)
    \/ \E s \in Systems :
        \/ DeleteEmptySystem(s) \/ EraseOperatorSystem(s)
        \/ CreateTransfer(s) \/ RevokeTransfers(s) \/ Record(s)
    \/ \E l \in Links, o \in Orgs, late \in BOOLEAN : AcceptTransfer(l, o, late)
    \/ \E l \in Links : Expire(l)
    \/ \E u \in Users : RegisterOrganization(u)
    \/ \E o \in Orgs :
        \/ CreateOrganization(o) \/ ApproveOrganization(o) \/ RejectOrganization(o)
        \/ RemoveOrganization(o) \/ EraseOrganization(o)

-----------------------------------------------------------------------------
(* The queue. *)

LEMMA TasksOfQueue ==
    ASSUME queue \in Seq(Task), queue # <<>>
    PROVE  /\ Head(queue) \in Task
           /\ Tail(queue) \in Seq(Task)
           /\ Len(Tail(queue)) = Len(queue) - 1
    OBVIOUS

LEMMA QueueStays ==
    ASSUME queue \in Seq(Task), Len(queue) <= MaxQueue, [Next]_vars
    PROVE  queue' \in Seq(Task) /\ Len(queue') <= MaxQueue
<1>1. CASE Asking
    <2>1. ASSUME NEW task \in Task, Enqueue(task)
          PROVE  queue' \in Seq(Task) /\ Len(queue') <= MaxQueue
        BY <2>1, TenancyConstants DEF Enqueue
    <2>2. ASSUME NEW h \in Holders, NEW s \in Systems, AskCreate(h, s)
          PROVE  queue' \in Seq(Task) /\ Len(queue') <= MaxQueue
        <3>1. [kind |-> "create", system |-> s, to |-> h] \in Task
            BY DEF Task
        <3>2. QED
            BY <2>1, <2>2, <3>1 DEF AskCreate
    <2>3. ASSUME NEW h \in Holders, NEW s \in Systems,
                 AskOffer(h, s) \/ AskTakeBack(h, s) \/ AskDelete(h, s)
          PROVE  queue' \in Seq(Task) /\ Len(queue') <= MaxQueue
        <3>1. \A k \in {"offer", "takeBack", "delete", "erase"} : [kind |-> k, system |-> s] \in Task
            BY DEF Task
        <3>2. \E k \in {"offer", "takeBack", "delete", "erase"} : Enqueue([kind |-> k, system |-> s])
            BY <2>3 DEF AskOffer, AskTakeBack, AskDelete
        <3>3. QED
            BY <2>1, <3>1, <3>2
    <2>4. ASSUME NEW o \in Orgs, NEW l \in Links, AskAccept(o, l)
          PROVE  queue' \in Seq(Task) /\ Len(queue') <= MaxQueue
        <3>1. [kind |-> "accept", link |-> l, to |-> o, late |-> l \in expired] \in Task
            BY DEF Task
        <3>2. QED
            BY <2>1, <2>4, <3>1 DEF AskAccept
    <2>5. ASSUME NEW u \in Users, AskRegister(u)
          PROVE  queue' \in Seq(Task) /\ Len(queue') <= MaxQueue
        <3>1. [kind |-> "register", user |-> u] \in Task
            BY DEF Task
        <3>2. QED
            BY <2>1, <2>5, <3>1 DEF AskRegister
    <2>6. ASSUME NEW o \in Orgs, AskApprove(o) \/ AskReject(o) \/ AskRemove(o)
          PROVE  queue' \in Seq(Task) /\ Len(queue') <= MaxQueue
        <3>1. /\ [kind |-> "approve", org |-> o] \in Task
              /\ [kind |-> "reject", org |-> o] \in Task
            BY DEF Task
        <3>2. [kind |-> "remove", org |-> o, rest |-> HeldBy(o)] \in Task
            BY DEF Task, HeldBy
        <3>3. QED
            BY <2>1, <2>6, <3>1, <3>2 DEF AskApprove, AskReject, AskRemove
    <2>7. QED
        BY <1>1, <2>2, <2>3, <2>4, <2>5, <2>6 DEF Asking
<1>2. CASE Turn
    <2>1. queue # <<>>
        BY <1>2 DEF Turn, TurnCreate, TurnOffer, TurnTakeBack, TurnDelete, TurnErase, TurnAccept,
            TurnRegister, TurnApprove, TurnReject, TurnRemoveSystem, TurnRemove, TurnFails, Heading
    <2>2. CASE queue' = Tail(queue)
        BY <2>1, <2>2, TasksOfQueue, TenancyConstants
    <2>3. CASE TurnRemoveSystem
        <3>1. PICK s \in Head(queue).rest : queue' = Rest(Head(queue), s)
            BY <2>3 DEF TurnRemoveSystem
        <3>2. Head(queue) \in Task /\ Head(queue).kind = "remove"
            BY <2>1, <2>3, TasksOfQueue DEF TurnRemoveSystem, Heading
        <3>3. Head(queue) \in [kind : {"remove"}, org : Orgs, rest : SUBSET Systems]
            BY <3>2 DEF Task
        <3>4. [Head(queue) EXCEPT !.rest = @ \ {s}] \in Task
            BY <3>3 DEF Task
        <3>5. QED
            BY <2>1, <3>1, <3>4, TasksOfQueue, TenancyConstants DEF Rest
    <2>4. QED
        BY <1>2, <2>2, <2>3 DEF Turn, TurnCreate, TurnOffer, TurnTakeBack, TurnDelete, TurnErase,
            TurnAccept, TurnRegister, TurnApprove, TurnReject, TurnRemove, TurnFails, Done
<1>3. CASE UNCHANGED queue
    BY <1>3
<1>4. CASE Restart
    BY <1>4, TenancyConstants DEF Restart
<1>5. QED
    BY <1>1, <1>2, <1>3, <1>4 DEF Next, CommandLine, CliCreate, CliDelete, CliAssign, CliOrgCreate,
        CliApprove, CliErase, Record, Expire, vars

-----------------------------------------------------------------------------
(* Whatever asked for it, a change of the database is one transaction. *)
LEMMA StepIsTransaction ==
    ASSUME queue \in Seq(Task), [Next]_vars
    PROVE  UNCHANGED dbVars \/ Transaction
<1>1. CASE Asking
    BY <1>1 DEF Asking, AskCreate, AskOffer, AskTakeBack, AskDelete, AskAccept, AskRegister,
        AskApprove, AskReject, AskRemove, Enqueue
<1>2. CASE Turn
    <2>1. CASE TurnFails
        BY <2>1 DEF TurnFails
    <2>2. CASE ~TurnFails
        <3>1. Head(queue) \in Task
            BY <1>2, TasksOfQueue DEF Turn, TurnCreate, TurnOffer, TurnTakeBack, TurnDelete, TurnErase,
                TurnAccept, TurnRegister, TurnApprove, TurnReject, TurnRemoveSystem, TurnRemove,
                TurnFails, Heading
        <3>2. CASE TurnCreate
            <4>1. Head(queue).system \in Systems /\ Head(queue).to \in Holders
                BY <3>1, <3>2 DEF Task, TurnCreate, Heading
            <4>2. QED
                BY <3>2, <4>1 DEF TurnCreate, Transaction
        <3>3. CASE TurnOffer \/ TurnTakeBack \/ TurnDelete \/ TurnErase
            <4>1. Head(queue).system \in Systems
                BY <3>1, <3>3 DEF Task, TurnOffer, TurnTakeBack, TurnDelete, TurnErase, Heading
            <4>2. QED
                BY <3>3, <4>1 DEF TurnOffer, TurnTakeBack, TurnDelete, TurnErase, Transaction
        <3>4. CASE TurnAccept
            <4>1. /\ Head(queue).link \in Links
                  /\ Head(queue).to \in Orgs
                  /\ Head(queue).late \in BOOLEAN
                BY <3>1, <3>4 DEF Task, TurnAccept, Heading
            <4>2. QED
                BY <3>4, <4>1 DEF TurnAccept, Transaction
        <3>5. CASE TurnRegister
            <4>1. Head(queue).user \in Users
                BY <3>1, <3>5 DEF Task, TurnRegister, Heading
            <4>2. QED
                BY <3>5, <4>1 DEF TurnRegister, Transaction
        <3>6. CASE TurnApprove \/ TurnReject \/ TurnRemove
            <4>1. Head(queue).org \in Orgs
                BY <3>1, <3>6 DEF Task, TurnApprove, TurnReject, TurnRemove, Heading
            <4>2. QED
                BY <3>6, <4>1 DEF TurnApprove, TurnReject, TurnRemove, Transaction
        <3>7. CASE TurnRemoveSystem
            <4>1. Head(queue).rest \in SUBSET Systems
                BY <3>1, <3>7 DEF Task, TurnRemoveSystem, Heading
            <4>2. QED
                BY <3>7, <4>1 DEF TurnRemoveSystem, Transaction
        <3>8. QED
            BY <1>2, <2>2, <3>2, <3>3, <3>4, <3>5, <3>6, <3>7 DEF Turn
    <2>3. QED
        BY <2>1, <2>2
<1>3. CASE CommandLine
    BY <1>3 DEF CommandLine, CliCreate, CliDelete, CliAssign, CliOrgCreate, CliApprove, CliErase,
        Transaction
<1>4. QED
    BY <1>1, <1>2, <1>3 DEF Next, Restart, Transaction, vars

-----------------------------------------------------------------------------
(* The invariant of the database, one transaction after another. *)

LEMMA TakePreserves ==
    ASSUME DbInv, NEW gone \in SUBSET Systems, Take(gone),
           \A s \in gone : Held(s)
    PROVE  /\ owner' \in [Systems -> Holders \cup {Unborn, Deleted}]
           /\ recorded' \subseteq Systems
           /\ linkOf' \in [Links -> Systems \cup {None}]
           /\ linkState' \in [Links -> {"unmade", "open", "used", "revoked", "gone"}]
           /\ expired' \subseteq Links
           /\ LinksAreHeld'
           /\ OneOpenLink'
           /\ \A s \in Systems : owner'[s] = IF s \in gone THEN Deleted ELSE owner[s]
<1>1. /\ owner' \in [Systems -> Holders \cup {Unborn, Deleted}]
      /\ recorded' \subseteq Systems
      /\ linkOf' \in [Links -> Systems \cup {None}]
      /\ linkState' \in [Links -> {"unmade", "open", "used", "revoked", "gone"}]
      /\ expired' \subseteq Links
      /\ \A s \in Systems : owner'[s] = IF s \in gone THEN Deleted ELSE owner[s]
    BY DEF DbInv, DbTypes, Take
<1>2. LinksAreHeld'
    BY <1>1, TenancyConstants DEF DbInv, DbTypes, LinksAreHeld, Take, Held
<1>3. OneOpenLink'
    BY DEF DbInv, DbTypes, OneOpenLink, Take
<1>4. QED
    BY <1>1, <1>2, <1>3

LEMMA TransactionPreserves ==
    ASSUME DbInv, Transaction
    PROVE  DbInv'
<1> USE TenancyConstants DEF DbInv
<1>1. ASSUME NEW s \in Systems, NEW h \in Holders, CreateSystem(s, h) \/ AssignSystem(s, h)
      PROVE  DbInv'
    <2>1. DbTypes'
        BY <1>1 DEF DbTypes, CreateSystem, AssignSystem, orgVars, linkVars
    <2>2. NoOrphans'
        BY <1>1 DEF DbTypes, NoOrphans, Exists, CreateSystem, AssignSystem, orgVars, Holders
    <2>3. LinksAreHeld'
        BY <1>1 DEF DbTypes, LinksAreHeld, Held, CreateSystem, AssignSystem, linkVars
    <2>4. OneOpenLink'
        BY <1>1 DEF OneOpenLink, CreateSystem, AssignSystem, linkVars
    <2>5. QED
        BY <2>1, <2>2, <2>3, <2>4
<1>2. ASSUME NEW s \in Systems, DeleteEmptySystem(s) \/ EraseOperatorSystem(s)
      PROVE  DbInv'
    <2>1. Take({s}) /\ Held(s) /\ UNCHANGED orgVars
        BY <1>2 DEF DeleteEmptySystem, EraseOperatorSystem, Held, Holders
    <2>2. /\ DbTypes' /\ LinksAreHeld' /\ OneOpenLink'
          /\ \A x \in Systems : owner'[x] = IF x \in {s} THEN Deleted ELSE owner[x]
        BY <2>1, TakePreserves DEF DbTypes, orgVars
    <2>3. NoOrphans'
        BY <2>1, <2>2 DEF NoOrphans, Exists, orgVars, Holders
    <2>4. QED
        BY <2>2, <2>3
<1>3. ASSUME NEW s \in Systems, CreateTransfer(s)
      PROVE  DbInv'
    <2>1. PICK l \in Links :
            /\ linkState[l] = "unmade"
            /\ linkOf' = [linkOf EXCEPT ![l] = s]
            /\ linkState' = [k \in Links |->
                    IF k = l THEN "open" ELSE IF k \in Open(s) THEN "revoked" ELSE linkState[k]]
        BY <1>3 DEF CreateTransfer
    <2>2. /\ Held(s)
          /\ UNCHANGED <<org, member, owner, recorded, expired>>
        BY <1>3 DEF CreateTransfer, orgVars
    <2>3. \A k \in Links :
            linkState'[k] = IF k = l THEN "open" ELSE IF k \in Open(s) THEN "revoked" ELSE linkState[k]
        BY <2>1
    <2>4. \A k \in Links : linkOf'[k] = IF k = l THEN s ELSE linkOf[k]
        BY <2>1 DEF DbTypes
    <2>5. DbTypes'
        BY <2>1, <2>2, <2>3 DEF DbTypes
    <2>6. NoOrphans'
        BY <2>2 DEF NoOrphans, Exists
    <2>7. LinksAreHeld'
        BY <2>2, <2>3, <2>4 DEF LinksAreHeld, Held
    <2>8. OneOpenLink'
        BY <2>3, <2>4 DEF OneOpenLink, Open
    <2>9. QED
        BY <2>5, <2>6, <2>7, <2>8
<1>4. ASSUME NEW s \in Systems, RevokeTransfers(s)
      PROVE  DbInv'
    <2>1. /\ UNCHANGED <<org, member, owner, recorded, linkOf, expired>>
          /\ linkState' = [k \in Links |-> IF k \in Open(s) THEN "revoked" ELSE linkState[k]]
        BY <1>4 DEF RevokeTransfers, orgVars
    <2>2. DbTypes'
        BY <2>1 DEF DbTypes
    <2>3. NoOrphans' /\ LinksAreHeld' /\ OneOpenLink'
        BY <2>1 DEF DbTypes, NoOrphans, Exists, LinksAreHeld, Held, OneOpenLink
    <2>4. QED
        BY <2>2, <2>3
<1>5. ASSUME NEW s \in Systems, Record(s)
      PROVE  DbInv'
    BY <1>5 DEF Record, DbTypes, NoOrphans, Exists, LinksAreHeld, Held, OneOpenLink, orgVars, linkVars
<1>6. ASSUME NEW l \in Links, NEW o \in Orgs, NEW late \in BOOLEAN, AcceptTransfer(l, o, late)
      PROVE  DbInv'
    <2>1. /\ linkState[l] = "open" /\ linkOf[l] \in Systems
          /\ org[o] = "approved"
          /\ owner' = [owner EXCEPT ![linkOf[l]] = o]
          /\ linkState' = [linkState EXCEPT ![l] = "used"]
          /\ UNCHANGED <<org, member, recorded, linkOf, expired>>
        BY <1>6 DEF AcceptTransfer, orgVars, LinksAreHeld
    <2>2. DbTypes'
        BY <2>1 DEF DbTypes, Holders
    <2>3. NoOrphans'
        BY <2>1 DEF DbTypes, NoOrphans, Exists
    <2>4. LinksAreHeld' /\ OneOpenLink'
        BY <2>1 DEF DbTypes, LinksAreHeld, Held, OneOpenLink, Holders
    <2>5. QED
        BY <2>2, <2>3, <2>4
<1>7. ASSUME NEW l \in Links, Expire(l)
      PROVE  DbInv'
    BY <1>7 DEF Expire, DbTypes, NoOrphans, Exists, LinksAreHeld, Held, OneOpenLink, orgVars, linkVars
<1>8. ASSUME NEW u \in Users, RegisterOrganization(u)
      PROVE  DbInv'
    BY <1>8 DEF RegisterOrganization, DbTypes, NoOrphans, Exists, LinksAreHeld, Held, OneOpenLink, linkVars
<1>9. ASSUME NEW o \in Orgs, CreateOrganization(o) \/ ApproveOrganization(o)
      PROVE  DbInv'
    BY <1>9 DEF CreateOrganization, ApproveOrganization, DbTypes, NoOrphans, Exists, LinksAreHeld, Held,
        OneOpenLink, linkVars
<1>10. ASSUME NEW o \in Orgs, RejectOrganization(o) \/ RemoveOrganization(o)
       PROVE  DbInv'
    <2>1. /\ HeldBy(o) = {} /\ Drop(o)
          /\ UNCHANGED <<owner, recorded, linkOf, linkState, expired>>
        BY <1>10 DEF RejectOrganization, RemoveOrganization, StillReferred, linkVars
    <2>2. DbTypes'
        BY <2>1 DEF DbTypes, Drop
    <2>3. NoOrphans'
        BY <2>1 DEF DbTypes, NoOrphans, Exists, Drop, HeldBy
    <2>4. LinksAreHeld' /\ OneOpenLink'
        BY <2>1 DEF LinksAreHeld, Held, OneOpenLink
    <2>5. QED
        BY <2>2, <2>3, <2>4
<1>11. ASSUME NEW o \in Orgs, EraseOrganization(o)
       PROVE  DbInv'
    <2>1. /\ Take(HeldBy(o)) /\ Drop(o)
          /\ HeldBy(o) \in SUBSET Systems
          /\ \A s \in HeldBy(o) : Held(s)
        BY <1>11 DEF EraseOrganization, HeldBy, Held, Holders
    <2>2. /\ LinksAreHeld' /\ OneOpenLink'
          /\ \A s \in Systems : owner'[s] = IF s \in HeldBy(o) THEN Deleted ELSE owner[s]
        BY <2>1, TakePreserves
    <2>3. DbTypes'
        BY <2>1, TakePreserves DEF DbTypes, Drop
    <2>4. NoOrphans'
        BY <2>1, <2>2 DEF DbTypes, NoOrphans, Exists, Drop, HeldBy, Holders
    <2>5. QED
        BY <2>2, <2>3, <2>4
<1>12. QED
    BY <1>1, <1>2, <1>3, <1>4, <1>5, <1>6, <1>7, <1>8, <1>9, <1>10, <1>11 DEF Transaction

IInv == DbInv /\ queue \in Seq(Task) /\ Len(queue) <= MaxQueue

LEMMA InvariantHolds == Spec => []IInv
<1>1. Init => IInv
    BY TenancyConstants DEF Init, IInv, DbInv, DbTypes, NoOrphans, LinksAreHeld, OneOpenLink, Holders
<1>2. IInv /\ [Next]_vars => IInv'
    <2> SUFFICES ASSUME IInv, [Next]_vars
                 PROVE  IInv'
        OBVIOUS
    <2>1. queue' \in Seq(Task) /\ Len(queue') <= MaxQueue
        BY QueueStays DEF IInv
    <2>2. CASE Transaction
        BY <2>1, <2>2, TransactionPreserves DEF IInv
    <2>3. CASE UNCHANGED dbVars
        BY <2>1, <2>3 DEF IInv, DbInv, DbTypes, NoOrphans, Exists, LinksAreHeld, Held, OneOpenLink, dbVars
    <2>4. QED
        BY <2>2, <2>3, StepIsTransaction DEF IInv
<1>3. QED
    BY <1>1, <1>2, PTL DEF Spec

(* Every step keeps the tables and the queue well formed (store.ts 694-1276, *)
(* 2157-2164), for any number of organizations, links and waiting changes.   *)
THEOREM TypeCorrect == Spec => []TypeOK
<1>1. IInv => TypeOK
    BY DEF IInv, DbInv, DbTypes, TypeOK
<1>2. QED
    BY <1>1, InvariantHolds, PTL

(* No system and no person is ever left to an organization that is gone:     *)
(* rejectOrganization, deleteOrganization's last turn and eraseOrganization  *)
(* (store.ts 859-909, 1176-1222) whatever ran before them.                   *)
THEOREM NobodyOrphaned == Spec => []NoOrphans
<1>1. IInv => NoOrphans
    BY DEF IInv, DbInv
<1>2. QED
    BY <1>1, InvariantHolds, PTL

(* A customer's system with recorded actions is deleted only by the erasure  *)
(* of its organization (store.ts 1093-1222), whoever asked for what.         *)
THEOREM RecordsKept == Spec => KeptUnlessErased
<1>1. ASSUME IInv, [Next]_vars, NEW s \in Systems,
             s \in recorded, owner[s] \in Orgs, owner'[s] = Deleted
      PROVE  org'[owner[s]] = "none"
    <2>1. owner[s] # Deleted /\ owner[s] # Operator /\ owner[s] \in Holders
        BY <1>1, TenancyConstants DEF Holders
    <2>2. Transaction
        BY <1>1, <2>1, StepIsTransaction DEF IInv, dbVars
    <2>3. ~\E x \in Systems : Record(x) \/ CreateTransfer(x) \/ RevokeTransfers(x)
        BY <1>1, <2>1 DEF Record, CreateTransfer, RevokeTransfers
    <2>4. ~\E x \in Systems, h \in Holders : CreateSystem(x, h) \/ AssignSystem(x, h)
        BY <1>1, <2>1, TenancyConstants DEF CreateSystem, AssignSystem, IInv, DbInv, DbTypes
    <2>5. ~\E x \in Systems : DeleteEmptySystem(x) \/ EraseOperatorSystem(x)
        BY <1>1, <2>1 DEF DeleteEmptySystem, EraseOperatorSystem, Take
    <2>6. ~\E l \in Links, o \in Orgs, late \in BOOLEAN : AcceptTransfer(l, o, late)
        BY <1>1, <2>1, TenancyConstants DEF AcceptTransfer, IInv, DbInv, DbTypes, LinksAreHeld, Holders
    <2>7. ~\E l \in Links : Expire(l)
        BY <1>1, <2>1 DEF Expire
    <2>8. ~\E u \in Users : RegisterOrganization(u)
        BY <1>1, <2>1 DEF RegisterOrganization
    <2>9. ~\E o \in Orgs : \/ CreateOrganization(o) \/ ApproveOrganization(o)
                            \/ RejectOrganization(o) \/ RemoveOrganization(o)
        BY <1>1, <2>1 DEF CreateOrganization, ApproveOrganization, RejectOrganization, RemoveOrganization
    <2>10. PICK o \in Orgs : EraseOrganization(o)
        BY <2>2, <2>3, <2>4, <2>5, <2>6, <2>7, <2>8, <2>9 DEF Transaction
    <2>11. owner[s] = o
        BY <1>1, <2>1, <2>10 DEF EraseOrganization, Take, HeldBy
    <2>12. QED
        BY <1>1, <2>10, <2>11 DEF EraseOrganization, Drop, IInv, DbInv, DbTypes
<1>2. IInv /\ [Next]_vars =>
        [\A s \in Systems :
            s \in recorded /\ owner[s] \in Orgs /\ owner'[s] = Deleted => org'[owner[s]] = "none"]_vars
    BY <1>1
<1>3. QED
    BY <1>2, InvariantHolds, PTL DEF Spec, KeptUnlessErased

-----------------------------------------------------------------------------
(* Custody. *)

Made == {l \in Links : linkState[l] # "unmade"}
OpenBySystem == [s \in Systems |-> Open(s)]

LEMMA NoLinkTouched ==
    ASSUME UNCHANGED linkVars
    PROVE  Made' = Made /\ OpenBySystem' = OpenBySystem
BY DEF Made, OpenBySystem, Open, linkVars

LEMMA TakeIsDelete ==
    ASSUME DbInv, NEW gone \in SUBSET Systems, Take(gone), \A s \in gone : Held(s)
    PROVE  Registry!Next
<1>1. Made' = Made
    BY TenancyConstants DEF Made, Take, DbInv, DbTypes, LinksAreHeld
<1>2. OpenBySystem' = [s \in Systems |-> IF s \in gone THEN {} ELSE OpenBySystem[s]]
    <2>1. \A s \in Systems : Open(s)' = IF s \in gone THEN {} ELSE Open(s)
        BY DEF Open, Take, DbInv, DbTypes
    <2>2. QED
        BY <2>1 DEF OpenBySystem
<1>3. Registry!Delete(gone)
    BY <1>1, <1>2 DEF Registry!Delete, Registry!Held, Held, Take, Made, OpenBySystem
<1>4. QED
    BY <1>3 DEF Registry!Next

LEMMA TransactionIsCustody ==
    ASSUME DbInv, Transaction
    PROVE  Registry!Next \/ UNCHANGED Registry!vars
<1>1. ASSUME UNCHANGED <<owner, linkOf, linkState>>
      PROVE  UNCHANGED Registry!vars
    BY <1>1, NoLinkTouched DEF Registry!vars, Made, OpenBySystem, linkVars
<1>2. ASSUME NEW s \in Systems, NEW h \in Holders, CreateSystem(s, h)
      PROVE  Registry!Next
    <2>1. Registry!Create(s)
        BY <1>2, NoLinkTouched DEF CreateSystem, Registry!Create, Made, OpenBySystem
    <2>2. QED
        BY <2>1 DEF Registry!Next
<1>3. ASSUME NEW s \in Systems, NEW h \in Holders, AssignSystem(s, h)
      PROVE  Registry!Next
    <2>1. Registry!Assign(s)
        BY <1>3, NoLinkTouched DEF AssignSystem, Registry!Assign, Registry!Held, Held, Made, OpenBySystem
    <2>2. QED
        BY <2>1 DEF Registry!Next
<1>4. ASSUME NEW s \in Systems, DeleteEmptySystem(s) \/ EraseOperatorSystem(s)
      PROVE  Registry!Next
    <2>1. Take({s}) /\ Held(s)
        BY <1>4 DEF DeleteEmptySystem, EraseOperatorSystem, Held, Holders
    <2>2. QED
        BY <2>1, TakeIsDelete
<1>5. ASSUME NEW s \in Systems, CreateTransfer(s)
      PROVE  Registry!Next
    <2>1. PICK l \in Links :
            /\ linkState[l] = "unmade"
            /\ linkOf' = [linkOf EXCEPT ![l] = s]
            /\ linkState' = [k \in Links |->
                    IF k = l THEN "open" ELSE IF k \in Open(s) THEN "revoked" ELSE linkState[k]]
        BY <1>5 DEF CreateTransfer
    <2>2. Held(s) /\ owner' = owner
        BY <1>5 DEF CreateTransfer
    <2>3. Made' = Made \cup {l}
        BY <2>1 DEF Made, Open
    <2>4. OpenBySystem' = [OpenBySystem EXCEPT ![s] = {l}]
        <3>1. \A k \in Links :
                /\ linkState'[k] =
                    IF k = l THEN "open" ELSE IF k \in Open(s) THEN "revoked" ELSE linkState[k]
                /\ linkOf'[k] = IF k = l THEN s ELSE linkOf[k]
            BY <2>1 DEF DbInv, DbTypes
        <3>2. \A x \in Systems : Open(x)' = IF x = s THEN {l} ELSE Open(x)
            BY <2>1, <3>1 DEF Open
        <3>3. QED
            BY <3>2 DEF OpenBySystem
    <2>5. l \in Links \ Made
        BY <2>1 DEF Made
    <2>6. Registry!MakeLink(s)
        BY <2>2, <2>3, <2>4, <2>5 DEF Registry!MakeLink, Registry!Held, Held, Made, OpenBySystem
    <2>7. QED
        BY <2>6 DEF Registry!Next
<1>6. ASSUME NEW s \in Systems, RevokeTransfers(s)
      PROVE  Registry!Next
    <2>1. /\ owner' = owner /\ linkOf' = linkOf
          /\ linkState' = [k \in Links |-> IF k \in Open(s) THEN "revoked" ELSE linkState[k]]
        BY <1>6 DEF RevokeTransfers
    <2>2. Made' = Made
        BY <2>1 DEF Made, Open
    <2>3. OpenBySystem' = [OpenBySystem EXCEPT ![s] = {}]
        <3>1. \A x \in Systems : Open(x)' = IF x = s THEN {} ELSE Open(x)
            BY <2>1 DEF Open
        <3>2. QED
            BY <3>1 DEF OpenBySystem
    <2>4. Registry!TakeBack(s)
        BY <2>1, <2>2, <2>3 DEF Registry!TakeBack, Made, OpenBySystem
    <2>5. QED
        BY <2>4 DEF Registry!Next
<1>7. ASSUME NEW l \in Links, NEW o \in Orgs, NEW late \in BOOLEAN, AcceptTransfer(l, o, late)
      PROVE  Registry!Next
    <2>0. PICK s \in Systems : s = linkOf[l]
        BY <1>7 DEF AcceptTransfer, DbInv, LinksAreHeld
    <2>1. /\ linkState[l] = "open" /\ linkOf[l] = s
          /\ Held(s) /\ owner[s] # o /\ o \in Holders
          /\ owner' = [owner EXCEPT ![s] = o]
          /\ linkState' = [linkState EXCEPT ![l] = "used"]
          /\ linkOf' = linkOf
        BY <1>7, <2>0 DEF AcceptTransfer, Holders
    <2>2. Made' = Made
        BY <2>1 DEF Made, DbInv, DbTypes
    <2>3. OpenBySystem' = [OpenBySystem EXCEPT ![s] = {}]
        <3>1. \A x \in Systems : Open(x)' = IF x = s THEN {} ELSE Open(x)
            BY <2>1 DEF Open, DbInv, DbTypes, OneOpenLink
        <3>2. QED
            BY <3>1 DEF OpenBySystem
    <2>4. l \in OpenBySystem[s]
        BY <2>1 DEF OpenBySystem, Open
    <2>5. Registry!Spend(s)
        BY <2>1, <2>2, <2>3, <2>4 DEF Registry!Spend, Registry!Held, Held, Made, OpenBySystem
    <2>6. QED
        BY <2>1, <2>5 DEF Registry!Next
<1>8. ASSUME NEW o \in Orgs, EraseOrganization(o)
      PROVE  Registry!Next
    <2>1. Take(HeldBy(o)) /\ HeldBy(o) \in SUBSET Systems /\ \A s \in HeldBy(o) : Held(s)
        BY <1>8 DEF EraseOrganization, HeldBy, Held, Holders
    <2>2. QED
        BY <2>1, TakeIsDelete
<1>9. ASSUME \/ \E s \in Systems : Record(s)
             \/ \E l \in Links : Expire(l)
             \/ \E u \in Users : RegisterOrganization(u)
             \/ \E o \in Orgs : \/ CreateOrganization(o) \/ ApproveOrganization(o)
                                \/ RejectOrganization(o) \/ RemoveOrganization(o)
      PROVE  UNCHANGED Registry!vars
    BY <1>1, <1>9 DEF Record, Expire, RegisterOrganization, CreateOrganization, ApproveOrganization,
        RejectOrganization, RemoveOrganization, linkVars
<1>10. QED
    BY <1>2, <1>3, <1>4, <1>5, <1>6, <1>7, <1>8, <1>9 DEF Transaction

(* Tenancy implements Custody (store.ts 693-728, 962-1052): an identifier is *)
(* never given out twice, a link is spent at most once and only while it is  *)
(* the system's last, and nothing else passes a system on but the operator.  *)
THEOREM CustodyImplemented == Spec => ImplementsCustody
<1>1. Init => Registry!Init
    <2> SUFFICES ASSUME Init
                 PROVE  Registry!Init
        OBVIOUS
    <2>1. Made = {} /\ OpenBySystem = [s \in Systems |-> {}]
        BY DEF Init, Made, OpenBySystem, Open
    <2>2. QED
        BY <2>1 DEF Init, Registry!Init, Made, OpenBySystem
<1>2. IInv /\ [Next]_vars => [Registry!Next]_(Registry!vars)
    <2> SUFFICES ASSUME IInv, [Next]_vars
                 PROVE  Registry!Next \/ UNCHANGED Registry!vars
        OBVIOUS
    <2>1. CASE Transaction
        BY <2>1, TransactionIsCustody DEF IInv
    <2>2. CASE UNCHANGED dbVars
        BY <2>2, NoLinkTouched DEF dbVars, linkVars, Registry!vars, Made, OpenBySystem
    <2>3. QED
        BY <2>1, <2>2, StepIsTransaction DEF IInv
<1>3. QED
    BY <1>1, <1>2, InvariantHolds, PTL DEF Spec, ImplementsCustody, Registry!Spec

-----------------------------------------------------------------------------
(* The gateway, beside it. *)

CallRecord ==
    [at : {"idle"} \cup Gate!Waiting \cup Gate!Over, key : Keys \cup {NoKey}, how : Gate!Kinds, right : BOOLEAN,
     live : BOOLEAN, whole : BOOLEAN, tools : BOOLEAN]

ServerTypes ==
    /\ key \in [Keys -> {"none", "live", "revoked"}]
    /\ archived \subseteq Gate!Served
    /\ verified \subseteq {k \in Keys : key[k] # "none"}
    /\ accountOf \in [Gate!Served -> Accounts]
    /\ vaults \subseteq Accounts /\ sealed \subseteq vaults
    /\ held \in [Accounts -> {"none", "open", "expired"}]
    /\ \A a \in Accounts : held[a] # "none" => a \in vaults
    /\ modelKey \in [Gate!Served -> vaults \cup {Server, NoKey}]
    /\ events \in 0..MaxEvents

ChainTypes == receipts \subseteq Calls \X {"call", "tool"} /\ unwritten \subseteq Calls

\* One request: the key that let it in, and its receipts.
LetIn(c) ==
    /\ call[c].at \in Gate!Waiting => call[c].key \in Keys /\ key[call[c].key] # "none"
    /\ call[c].at \notin {"idle", "refused"} => call[c].live

Written(c) ==
    /\ call[c].at = "passing" => call[c].how = "stream"
    /\ call[c].at \in {"recording", "tools"} => Gate!Recorded(c)
    /\ call[c].at = "tools" => <<c, "call">> \in receipts
    /\ call[c].at = "answered" /\ call[c].how = "plain" =>
            /\ <<c, "call">> \in receipts
            /\ call[c].tools => <<c, "tool">> \in receipts
    /\ call[c].at \in {"answered", "ended"} /\ Gate!Recorded(c) => Gate!Accounted(c)

RequestInv(c) == call[c] \in CallRecord /\ LetIn(c) /\ Written(c)

GateInv ==
    /\ ServerTypes /\ ChainTypes
    /\ call \in [Calls -> CallRecord]
    /\ \A c \in Calls : RequestInv(c)

\* What every step leaves as it is.
Kept ==
    /\ \A k \in Keys : key[k] # "none" => key'[k] # "none"
    /\ receipts \subseteq receipts' /\ unwritten \subseteq unwritten'

USE DEF Gate!Waiting, Gate!Over, Gate!Kinds

-----------------------------------------------------------------------------
(* The invariant gives the properties. *)

LEMMA InvariantIsEnough ==
    ASSUME GateInv
    PROVE  Gate!TypeOK /\ Gate!RevokedStaysOut /\ Gate!AnswerAfterReceipt /\ Gate!EveryCallAccountedFor
<1>1. Gate!TypeOK
    BY DEF GateInv, ServerTypes, ChainTypes, CallRecord, Gate!TypeOK
<1>2. \A c \in Calls : LetIn(c) /\ Written(c)
    BY DEF GateInv, RequestInv
<1>3. Gate!RevokedStaysOut
    BY <1>2 DEF Gate!RevokedStaysOut, LetIn
<1>4. Gate!AnswerAfterReceipt
    BY <1>2 DEF Gate!AnswerAfterReceipt, Written
<1>5. Gate!EveryCallAccountedFor
    BY <1>2 DEF Gate!EveryCallAccountedFor, Written
<1> QED
    BY <1>1, <1>3, <1>4, <1>5

LEMMA Initially == ASSUME Gate!GatewayConstants, Gate!Init PROVE GateInv
<1>1. ServerTypes /\ ChainTypes
    BY DEF Gate!GatewayConstants, Gate!Init, ServerTypes, ChainTypes
<1>2. Gate!NewCall \in CallRecord
    BY DEF Gate!NewCall, CallRecord
<1>3. \A c \in Calls : call[c] = Gate!NewCall
    BY DEF Gate!Init
<1>4. ASSUME NEW c \in Calls PROVE RequestInv(c)
    <2>1. call[c] = Gate!NewCall
        BY <1>3
    <2>2. Gate!NewCall.at = "idle"
        BY DEF Gate!NewCall
    <2>3. call[c] \in CallRecord /\ call[c].at = "idle"
        BY <1>2, <2>1, <2>2
    <2> QED
        BY <2>3 DEF RequestInv, LetIn, Written
<1> QED
    BY <1>1, <1>2, <1>4 DEF Gate!Init, GateInv

-----------------------------------------------------------------------------
(* A request that no step touches, or that the end of the process cuts. *)

LEMMA Untouched ==
    ASSUME NEW c \in Calls, RequestInv(c), Kept, call'[c] = call[c]
    PROVE  RequestInv(c)'
BY DEF RequestInv, LetIn, Written, Gate!Recorded, Gate!Accounted, Kept

LEMMA CutOff ==
    ASSUME NEW c \in Calls, RequestInv(c), Kept, call[c].at \in Gate!Waiting,
           call'[c] = [call[c] EXCEPT !.at = "cut"]
    PROVE  RequestInv(c)'
BY DEF RequestInv, LetIn, Written, Gate!Recorded, CallRecord

\* A step that leaves every request alone, or ends the process.
LEMMA RequestsStay ==
    ASSUME call \in [Calls -> CallRecord], \A c \in Calls : RequestInv(c), Kept,
           UNCHANGED call \/ Gate!Stopped
    PROVE  call' \in [Calls -> CallRecord] /\ \A c \in Calls : RequestInv(c)'
<1>1. ASSUME NEW c \in Calls PROVE RequestInv(c)' /\ call'[c] \in CallRecord
    <2>1. CASE call'[c] = call[c]
        BY <2>1, Untouched DEF RequestInv
    <2>2. CASE call[c].at \in Gate!Waiting /\ call'[c] = [call[c] EXCEPT !.at = "cut"]
        BY <2>2, CutOff DEF RequestInv
    <2> QED
        BY <2>1, <2>2 DEF Gate!Stopped
<1>2. DOMAIN call' = Calls /\ call' = [c \in Calls |-> call'[c]]
    BY DEF Gate!Stopped
<1> QED
    BY <1>1, <1>2

\* The step of one request: the others are not touched.
LEMMA OneRequest ==
    ASSUME NEW c \in Calls, call \in [Calls -> CallRecord], \A d \in Calls : RequestInv(d), Kept,
           NEW r \in CallRecord, call' = [call EXCEPT ![c] = r],
           LetIn(c)', Written(c)'
    PROVE  call' \in [Calls -> CallRecord] /\ \A d \in Calls : RequestInv(d)'
<1>1. call' \in [Calls -> CallRecord] /\ call'[c] = r
    OBVIOUS
<1>2. RequestInv(c)'
    BY <1>1 DEF RequestInv
<1>3. ASSUME NEW d \in Calls, d # c PROVE RequestInv(d)'
    BY <1>3, Untouched
<1> QED
    BY <1>1, <1>2, <1>3

LEMMA GoesOn ==
    ASSUME NEW c \in Calls, call \in [Calls -> CallRecord], \A d \in Calls : RequestInv(d), Kept,
           NEW to \in Gate!Waiting \cup Gate!Over, Gate!Goes(c, to),
           call[c].at \in Gate!Waiting,
           to = "passing" => call[c].how = "stream",
           to \in {"recording", "tools"} => Gate!Recorded(c),
           to = "tools" => <<c, "call">> \in receipts',
           to = "answered" /\ call[c].how = "plain" =>
                <<c, "call">> \in receipts' /\ (call[c].tools => <<c, "tool">> \in receipts'),
           to \in {"answered", "ended"} /\ Gate!Recorded(c) => <<c, "call">> \in receipts' \/ c \in unwritten'
    PROVE  call' \in [Calls -> CallRecord] /\ \A d \in Calls : RequestInv(d)'
<1> DEFINE r == [call[c] EXCEPT !.at = to, !.key = IF to \in Gate!Over THEN NoKey ELSE @]
<1>1. call[c] \in CallRecord
    OBVIOUS
<1>2. /\ r \in CallRecord
      /\ r.at = to /\ r.how = call[c].how /\ r.live = call[c].live /\ r.tools = call[c].tools
      /\ to \in Gate!Waiting => r.key = call[c].key
    BY <1>1 DEF CallRecord
<1>3. call' = [call EXCEPT ![c] = r]
    BY DEF Gate!Goes
<1>4. call'[c] = r
    BY <1>3
<1> HIDE DEF r
<1>5. LetIn(c)'
    BY <1>2, <1>4 DEF LetIn, RequestInv, Kept
<1>6. Written(c)'
    BY <1>2, <1>4 DEF Written, Gate!Recorded, Gate!Accounted
<1> QED
    BY <1>2, <1>3, <1>5, <1>6, OneRequest

-----------------------------------------------------------------------------
(* The steps of a request. *)

LEMMA RequestKeeps ==
    ASSUME Gate!GatewayConstants, GateInv, NEW c \in Calls, Gate!Request(c)
    PROVE  GateInv'
<1> USE DEF GateInv
<1>1. RequestInv(c)
    OBVIOUS
<1>2. CASE Gate!Present(c)
    <2>1. PICK k \in {k \in Keys : key[k] # "none"}, how \in Gate!Kinds, right \in BOOLEAN, hashAllowed \in BOOLEAN :
            call' = [call EXCEPT ![c] =
                IF Gate!Verdict(k, right, hashAllowed) = "refused"
                THEN [Gate!NewCall EXCEPT !.at = Gate!Verdict(k, right, hashAllowed)]
                ELSE [Gate!NewCall EXCEPT !.at = Gate!Verdict(k, right, hashAllowed), !.key = k, !.how = how,
                                     !.right = right, !.live = Gate!KeyWorks(k)]]
        BY <1>2 DEF Gate!Present
    <2> DEFINE to == Gate!Verdict(k, right, hashAllowed)
               r == IF to = "refused" THEN [Gate!NewCall EXCEPT !.at = to]
                    ELSE [Gate!NewCall EXCEPT !.at = to, !.key = k, !.how = how, !.right = right, !.live = Gate!KeyWorks(k)]
    <2>2. to \in {"refused", "known", "hashing"} /\ (to # "refused" => Gate!KeyWorks(k))
        BY DEF Gate!Verdict
    <2>3. Gate!KeyWorks(k) \in BOOLEAN
        BY DEF Gate!KeyWorks
    <2>4. r \in CallRecord /\ r.at = to /\ (to # "refused" => r.key = k /\ r.live)
        <3> HIDE DEF to
        <3>1. CASE to = "refused"
            BY <3>1 DEF Gate!NewCall, CallRecord
        <3>2. CASE to # "refused"
            BY <2>2, <2>3, <3>2 DEF Gate!NewCall, CallRecord
        <3> QED
            BY <3>1, <3>2
    <2>5. call' = [call EXCEPT ![c] = r]
        BY <2>1
    <2> HIDE DEF r, to
    <2>6. Kept /\ ServerTypes' /\ ChainTypes'
        BY <1>2 DEF Gate!Present, Kept, ServerTypes, ChainTypes, Gate!keyVars, Gate!vaultVars, Gate!chainVars
    <2>7. call'[c] = r
        BY <2>5
    <2>8. LetIn(c)'
        BY <2>2, <2>4, <2>6, <2>7 DEF LetIn, Kept
    <2>9. Written(c)'
        BY <2>2, <2>4, <2>7 DEF Written
    <2> QED
        BY <2>4, <2>5, <2>6, <2>8, <2>9, OneRequest
<1>3. CASE Gate!Hashed(c)
    <2>1. ServerTypes'
        BY <1>1, <1>3 DEF Gate!Hashed, ServerTypes, RequestInv, LetIn, Gate!vaultVars
    <2>2. Kept /\ ChainTypes'
        BY <1>3 DEF Gate!Hashed, Kept, ChainTypes, Gate!chainVars
    <2>3. PICK to \in {"known", "refused"} : Gate!Goes(c, to)
        BY <1>3 DEF Gate!Hashed
    <2> QED
        BY <1>3, <2>1, <2>2, <2>3, GoesOn DEF Gate!Hashed
<1>4. CASE Gate!Serve(c)
    <2>1. Kept /\ ChainTypes'
        BY <1>4 DEF Gate!Serve, Kept, ChainTypes, Gate!keyVars, Gate!chainVars
    <2>2. held' \in [Accounts -> {"none", "open", "expired"}]
          /\ \A a \in Accounts : held'[a] # "none" => a \in vaults
        BY <1>4 DEF Gate!Serve, Gate!Looked, ServerTypes
    <2>3. ServerTypes'
        BY <1>4, <2>2 DEF Gate!Serve, ServerTypes, Gate!keyVars
    <2>4. PICK to \in {"asked", "refused"} : Gate!Goes(c, to)
        BY <1>4 DEF Gate!Serve
    <2> QED
        BY <1>4, <2>1, <2>3, <2>4, GoesOn DEF Gate!Serve, Gate!IsModelCall
<1>5. CASE Gate!NoAnswer(c) \/ Gate!AnswerBegins(c) \/ Gate!BodyBreaks(c)
    <2>1. Kept /\ ServerTypes' /\ ChainTypes'
        BY <1>5 DEF Gate!NoAnswer, Gate!AnswerBegins, Gate!BodyBreaks, Kept, ServerTypes, ChainTypes,
            Gate!keyVars, Gate!vaultVars, Gate!chainVars
    <2>2. CASE Gate!NoAnswer(c)
        BY <2>1, <2>2, GoesOn DEF Gate!NoAnswer, Gate!UnknownOutcome, Gate!Recorded
    <2>3. CASE Gate!AnswerBegins(c)
        BY <2>1, <2>3, GoesOn DEF Gate!AnswerBegins
    <2>4. CASE Gate!BodyBreaks(c)
        BY <2>1, <2>4, GoesOn DEF Gate!BodyBreaks
    <2> QED
        BY <1>5, <2>2, <2>3, <2>4
<1>6. CASE Gate!BodyArrives(c) \/ Gate!StreamEnds(c)
    <2>1. Kept /\ ServerTypes' /\ ChainTypes'
        BY <1>6 DEF Gate!BodyArrives, Gate!StreamEnds, Kept, ServerTypes, ChainTypes, Gate!keyVars,
            Gate!vaultVars, Gate!chainVars
    <2>2. PICK to \in {"recording", "answered"}, whole \in BOOLEAN, tools \in BOOLEAN :
            /\ call' = [call EXCEPT ![c].at = to, ![c].whole = whole, ![c].tools = tools]
            /\ IF to = "recording" THEN Gate!Recorded(c) ELSE ~Gate!Recorded(c)
            /\ call[c].at \in Gate!Waiting
        BY <1>1, <1>6 DEF Gate!BodyArrives, Gate!StreamEnds, Gate!AfterBody, Gate!Recorded, RequestInv,
            Written
    <2> DEFINE r == [call[c] EXCEPT !.at = to, !.whole = whole, !.tools = tools]
    <2>3. /\ r \in CallRecord
          /\ r.at = to /\ r.how = call[c].how /\ r.live = call[c].live /\ r.key = call[c].key
        BY <1>1 DEF RequestInv, CallRecord
    <2>4. call' = [call EXCEPT ![c] = r]
        BY <2>2
    <2> HIDE DEF r
    <2>5. call'[c] = r
        BY <2>4
    <2>6. LetIn(c)'
        BY <1>1, <2>1, <2>2, <2>3, <2>5 DEF RequestInv, LetIn, Kept
    <2>7. Written(c)'
        BY <2>2, <2>3, <2>5 DEF Written, Gate!Recorded
    <2> QED
        BY <2>1, <2>3, <2>4, <2>6, <2>7, OneRequest
<1>7. CASE Gate!Record(c) \/ Gate!RecordTool(c)
    <2>1. Kept /\ ServerTypes' /\ ChainTypes'
        BY <1>7 DEF Gate!Record, Gate!RecordTool, Kept, ServerTypes, ChainTypes, Gate!keyVars, Gate!vaultVars
    <2>2. <<c, "call">> \in receipts'
          /\ (Gate!Goes(c, "tools") \/ call[c].tools => <<c, "tool">> \in receipts' \/ Gate!Goes(c, "tools"))
        BY <1>1, <1>7 DEF Gate!Record, Gate!RecordTool, RequestInv, Written
    <2>3. CASE Gate!Record(c)
        BY <1>1, <2>1, <2>2, <2>3, GoesOn DEF Gate!Record, Gate!AfterReceipts, RequestInv, Written
    <2>4. CASE Gate!RecordTool(c)
        BY <1>1, <2>1, <2>2, <2>4, GoesOn DEF Gate!RecordTool, Gate!AfterReceipts, RequestInv, Written
    <2> QED
        BY <1>7, <2>3, <2>4
<1>8. CASE Gate!RecordFails(c)
    <2>1. Kept /\ ServerTypes' /\ ChainTypes'
        BY <1>8 DEF Gate!GatewayConstants, Gate!RecordFails, Gate!Event, Kept, ServerTypes, ChainTypes,
            Gate!keyVars, Gate!vaultVars
    <2> QED
        BY <1>8, <2>1, GoesOn DEF Gate!RecordFails
<1>9. CASE Gate!LockedByAgent(c) \/ Gate!UnlockedByAgent(c)
    <2>1. Kept /\ ChainTypes'
        BY <1>9 DEF Gate!LockedByAgent, Gate!UnlockedByAgent, Kept, ChainTypes, Gate!keyVars, Gate!chainVars
    <2>2. held' \in [Accounts -> {"none", "open", "expired"}]
          /\ \A a \in Accounts : held'[a] # "none" => a \in vaults
        BY <1>9 DEF Gate!LockedByAgent, Gate!UnlockedByAgent, Gate!Shut, Gate!MayUnlock, ServerTypes
    <2>3. ServerTypes'
        BY <1>9, <2>2 DEF Gate!LockedByAgent, Gate!UnlockedByAgent, ServerTypes, Gate!keyVars
    <2>4. PICK to \in {"ended", "refused"} : Gate!Goes(c, to)
        BY <1>9 DEF Gate!LockedByAgent, Gate!UnlockedByAgent
    <2>5. call[c].at = "known" /\ ~Gate!Recorded(c)
        BY <1>9 DEF Gate!LockedByAgent, Gate!UnlockedByAgent, Gate!Recorded
    <2> QED
        BY <2>1, <2>3, <2>4, <2>5, GoesOn
<1> QED
    BY <1>2, <1>3, <1>4, <1>5, <1>6, <1>7, <1>8, <1>9 DEF Gate!Request

-----------------------------------------------------------------------------
(* What accounts, systems, keys and the process do: no request takes a     *)
(* step, or all that wait are cut.                                         *)

LEMMA AccountKeeps ==
    ASSUME Gate!GatewayConstants, GateInv, NEW a \in Accounts, Gate!OfAccount(a)
    PROVE  ServerTypes' /\ ChainTypes' /\ Kept /\ (UNCHANGED call \/ Gate!Stopped)
<1> USE DEF Gate!GatewayConstants
<1>1. ServerTypes /\ ChainTypes
    BY DEF GateInv
<1>2. CASE Gate!Unlock(a) \/ Gate!Lock(a) \/ Gate!SetSchedule(a) \/ Gate!HoursPass(a) \/ Gate!TimeRunsOut(a)
    <2>1. UNCHANGED <<Gate!keyVars, accountOf, vaults, modelKey, call, Gate!chainVars>> /\ Gate!Event
        BY <1>2 DEF Gate!Unlock, Gate!Lock, Gate!SetSchedule, Gate!HoursPass, Gate!TimeRunsOut
    <2>2. held' \in [Accounts -> {"none", "open", "expired"}]
          /\ \A b \in Accounts : held'[b] # "none" => b \in vaults
        BY <1>1, <1>2 DEF Gate!Unlock, Gate!Lock, Gate!SetSchedule, Gate!HoursPass, Gate!TimeRunsOut,
            Gate!MayUnlock, Gate!Shut, ServerTypes
    <2>3. sealed' \subseteq vaults
        BY <1>1, <1>2 DEF Gate!Unlock, Gate!Lock, Gate!SetSchedule, Gate!HoursPass, Gate!TimeRunsOut,
            ServerTypes
    <2> QED
        BY <1>1, <2>1, <2>2, <2>3 DEF ServerTypes, ChainTypes, Kept, Gate!Event, Gate!keyVars, Gate!chainVars
<1>3. CASE Gate!CreateVault(a)
    <2>1. /\ vaults' = vaults \cup {a} /\ events' \in 0..MaxEvents
          /\ UNCHANGED <<key, archived, accountOf, sealed, Gate!chainVars>>
          /\ verified' = verified \/ verified' = {}
          /\ UNCHANGED call \/ Gate!Stopped
        BY <1>1, <1>3 DEF Gate!CreateVault, Gate!Stopped, Gate!Event, ServerTypes, Gate!keyVars
    <2>2. held' \in [Accounts -> {"none", "open", "expired"}]
        BY <1>1, <1>3 DEF Gate!CreateVault, ServerTypes
    <2>3. \A b \in Accounts : held'[b] # "none" => b \in vaults'
        BY <1>1, <1>3, <2>1 DEF Gate!CreateVault, ServerTypes
    <2>4. PICK done \in SUBSET Gate!Served :
            modelKey' = [s \in Gate!Served |-> IF s \in done THEN a ELSE modelKey[s]]
        BY <1>3 DEF Gate!CreateVault, Gate!Legacy
    <2>5. modelKey' \in [Gate!Served -> vaults' \cup {Server, NoKey}]
        BY <1>1, <2>1, <2>4 DEF ServerTypes
    <2>6. ServerTypes'
        BY <1>1, <2>1, <2>2, <2>3, <2>5 DEF ServerTypes
    <2> QED
        BY <1>1, <2>1, <2>6 DEF ChainTypes, Kept, Gate!chainVars
<1> QED
    BY <1>2, <1>3 DEF Gate!OfAccount

LEMMA SystemKeeps ==
    ASSUME Gate!GatewayConstants, GateInv, NEW s \in Gate!Served, Gate!OfSystem(s)
    PROVE  ServerTypes' /\ ChainTypes' /\ Kept /\ UNCHANGED call
<1> USE DEF Gate!GatewayConstants
<1>1. ServerTypes /\ ChainTypes
    BY DEF GateInv
<1>2. CASE Gate!SetModelKey(s)
    <2>1. UNCHANGED <<Gate!keyVars, accountOf, vaults, sealed, call, Gate!chainVars>> /\ events' \in 0..MaxEvents
        BY <1>1, <1>2 DEF Gate!SetModelKey, Gate!Event, ServerTypes
    <2>2. held' \in [Accounts -> {"none", "open", "expired"}]
          /\ \A b \in Accounts : held'[b] # "none" => b \in vaults
        BY <1>1, <1>2 DEF Gate!SetModelKey, Gate!Looked, ServerTypes
    <2>3. modelKey' \in [Gate!Served -> vaults \cup {Server, NoKey}]
        BY <1>1, <1>2 DEF Gate!SetModelKey, ServerTypes
    <2> QED
        BY <1>1, <2>1, <2>2, <2>3 DEF ServerTypes, ChainTypes, Kept, Gate!keyVars, Gate!chainVars
<1>3. CASE Gate!Archive(s)
    BY <1>1, <1>3 DEF Gate!Archive, Gate!Event, ServerTypes, ChainTypes, Kept, Gate!vaultVars, Gate!chainVars
<1>4. ASSUME NEW add \in BOOLEAN, Gate!NewKey(s, add) PROVE ServerTypes' /\ ChainTypes' /\ Kept /\ UNCHANGED call
    <2>1. PICK new \in Keys :
            key' = [k \in Keys |-> IF k = new THEN "live"
                                   ELSE IF ~add /\ k \in Gate!KeysOf(s) /\ key[k] = "live" THEN "revoked"
                                   ELSE key[k]]
        BY <1>4 DEF Gate!NewKey, Gate!KeysOf
    <2>2. key' \in [Keys -> {"none", "live", "revoked"}] /\ \A k \in Keys : key[k] # "none" => key'[k] # "none"
        BY <1>1, <2>1 DEF ServerTypes
    <2>3. UNCHANGED <<archived, verified, accountOf, Gate!vaultVars, call, Gate!chainVars>> /\ events' \in 0..MaxEvents
        BY <1>1, <1>4 DEF Gate!NewKey, Gate!Event, ServerTypes
    <2> QED
        BY <1>1, <2>2, <2>3 DEF ServerTypes, ChainTypes, Kept, Gate!vaultVars, Gate!chainVars
<1>5. ASSUME NEW a \in Accounts, Gate!Move(s, a) PROVE ServerTypes' /\ ChainTypes' /\ Kept /\ UNCHANGED call
    BY <1>1, <1>5 DEF Gate!Move, Gate!Event, ServerTypes, ChainTypes, Kept, Gate!keyVars, Gate!vaultVars,
        Gate!chainVars
<1> QED
    BY <1>2, <1>3, <1>4, <1>5 DEF Gate!OfSystem

LEMMA ServerKeeps ==
    ASSUME Gate!GatewayConstants, GateInv, (\E k \in Keys : Gate!Revoke(k)) \/ Gate!Sweep \/ Gate!Stop
    PROVE  ServerTypes' /\ ChainTypes' /\ Kept /\ (UNCHANGED call \/ Gate!Stopped)
<1> USE DEF Gate!GatewayConstants
<1>1. ServerTypes /\ ChainTypes
    BY DEF GateInv
<1>2. ASSUME NEW k \in Keys, Gate!Revoke(k) PROVE ServerTypes' /\ ChainTypes' /\ Kept /\ UNCHANGED call
    BY <1>1, <1>2 DEF Gate!Revoke, Gate!Event, ServerTypes, ChainTypes, Kept, Gate!vaultVars, Gate!chainVars
<1>3. CASE Gate!Sweep
    BY <1>1, <1>3 DEF Gate!Sweep, ServerTypes, ChainTypes, Kept, Gate!keyVars, Gate!chainVars
<1>4. CASE Gate!Stop
    BY <1>1, <1>4 DEF Gate!Stop, Gate!Stopped, Gate!Event, ServerTypes, ChainTypes, Kept, Gate!chainVars
<1> QED
    BY <1>2, <1>3, <1>4

-----------------------------------------------------------------------------
(* The invariant is inductive. *)

LEMMA StepKeeps == ASSUME Gate!GatewayConstants, GateInv, [Gate!Next]_(Gate!vars) PROVE GateInv'
<1>1. ASSUME NEW c \in Calls, Gate!Request(c) PROVE GateInv'
    BY <1>1, RequestKeeps
<1>2. ASSUME ServerTypes', ChainTypes', Kept, UNCHANGED call \/ Gate!Stopped PROVE GateInv'
    BY <1>2, RequestsStay DEF GateInv
<1>3. ASSUME NEW a \in Accounts, Gate!OfAccount(a) PROVE GateInv'
    BY <1>2, <1>3, AccountKeeps
<1>4. ASSUME NEW s \in Gate!Served, Gate!OfSystem(s) PROVE GateInv'
    BY <1>2, <1>4, SystemKeeps
<1>5. CASE (\E k \in Keys : Gate!Revoke(k)) \/ Gate!Sweep \/ Gate!Stop
    BY <1>2, <1>5, ServerKeeps
<1>6. CASE UNCHANGED Gate!vars
    BY <1>6 DEF Gate!vars, Gate!keyVars, Gate!vaultVars, Gate!chainVars, GateInv, ServerTypes, ChainTypes,
                RequestInv, LetIn, Written, Gate!Recorded, Gate!Accounted
<1> QED
    BY <1>1, <1>3, <1>4, <1>5, <1>6 DEF Gate!Next

(* GateInv holds in every state the gateway can reach: what of a request is *)
(* on the chain follows from how far the request has come.                 *)
THEOREM Inductive == Gate!Spec => []GateInv
<1>1. Gate!Init => GateInv
    BY Initially, ServingConstants
<1>2. GateInv /\ [Gate!Next]_(Gate!vars) => GateInv'
    BY StepKeeps, ServingConstants
<1> QED
    BY <1>1, <1>2, PTL DEF Gate!Spec

(* Keys, vaults, requests and receipts keep their form: a key held in      *)
(* memory, or a vault a model key is sealed under, is one that exists.     *)
THEOREM GateTypeCorrect == Gate!Spec => []Gate!TypeOK
BY Inductive, InvariantIsEnough, PTL

(* verify reads the row before it looks at what it remembers: no request   *)
(* that came after its key was revoked is let in.                          *)
THEOREM RevokedStaysOutside == Gate!Spec => []RevokedStaysOut
BY Inductive, InvariantIsEnough, PTL DEF RevokedStaysOut

(* A plain answer is handed to the agent after the receipts of the call    *)
(* and of the tools in it are written, whatever else the server does.      *)
THEOREM AnswersAreRecorded == Gate!Spec => []AnswerAfterReceipt
BY Inductive, InvariantIsEnough, PTL DEF AnswerAfterReceipt

(* A recorded call that is over left a receipt, or was refused by the      *)
(* store: of answered calls and of calls of unknown outcome alike.         *)
THEOREM CallsAreAccountedFor == Gate!Spec => []EveryCallAccountedFor
BY Inductive, InvariantIsEnough, PTL DEF EveryCallAccountedFor

-----------------------------------------------------------------------------
(* The throttle. Positions picked of a sequence first. *)

LEMMA DoorCounts == \A S : Door!Cardinality(S) = Cardinality(S)
    BY DEF Door!Cardinality, Cardinality

(* The ranks of the positions to keep are one to their number, each once.   *)
LEMMA RanksOnce ==
    ASSUME NEW n \in Nat, NEW keep \in SUBSET (1..n)
    PROVE  /\ Cardinality(keep) \in Nat /\ Cardinality(keep) <= n
           /\ Cardinality(keep) = n => keep = 1..n
           /\ \A i \in keep : Door!Rank(keep, i) \in 1..Cardinality(keep)
           /\ \A i, j \in keep : Door!Rank(keep, i) = Door!Rank(keep, j) => i = j
           /\ \A m \in 1..Cardinality(keep) : \E i \in keep : Door!Rank(keep, i) = m
<1>1. IsFiniteSet(1..n) /\ Cardinality(1..n) = n
    BY FS_Interval
<1>2. /\ IsFiniteSet(keep) /\ Cardinality(keep) \in Nat /\ Cardinality(keep) <= n
      /\ Cardinality(keep) = n => keep = 1..n
    BY <1>1, FS_Subset, FS_CardinalityType
<1> DEFINE upto(i) == {j \in keep : j <= i}
           size == Cardinality(keep)
<1>3. ASSUME NEW i \in keep
      PROVE  IsFiniteSet(upto(i)) /\ Cardinality(upto(i)) \in 1..size
    <2>1. upto(i) \in SUBSET keep /\ i \in upto(i)
        OBVIOUS
    <2>2. IsFiniteSet(upto(i)) /\ Cardinality(upto(i)) <= size
        BY <1>2, <2>1, FS_Subset
    <2>3. Cardinality(upto(i)) \in Nat /\ Cardinality(upto(i)) # 0
        BY <2>1, <2>2, FS_CardinalityType, FS_EmptySet
    <2> QED
        BY <1>2, <2>2, <2>3
<1>4. ASSUME NEW i \in keep, NEW j \in keep, i < j
      PROVE  Cardinality(upto(i)) # Cardinality(upto(j))
    <2>1. i \in Int /\ j \in Int /\ \A k \in keep : k \in Int
        OBVIOUS
    <2>2. upto(i) \in SUBSET upto(j)
        <3> SUFFICES ASSUME NEW k \in upto(i)
                     PROVE  k \in keep /\ k <= j
            OBVIOUS
        <3>1. k \in keep /\ k <= i
            OBVIOUS
        <3> QED
            BY <1>4, <2>1, <3>1
    <2>3. j \in upto(j) /\ j \notin upto(i)
        BY <1>4, <2>1
    <2> QED
        BY <1>3, <2>2, <2>3, FS_Subset
<1> DEFINE rank == [i \in keep |-> Cardinality(upto(i))]
<1>5. rank \in [keep -> 1..size] /\ \A i, j \in keep : rank[i] = rank[j] => i = j
    <2>1. rank \in [keep -> 1..size]
        BY <1>3
    <2>2. \A i, j \in keep : i < j => rank[i] # rank[j]
        BY <1>4
    <2> QED
        BY <2>1, <2>2
<1>6. rank \in Injection(keep, 1..size)
    BY <1>5 DEF Injection, IsInjective
<1>7. IsFiniteSet(1..size) /\ Cardinality(1..size) = size
    BY <1>2, FS_Interval
<1>8. rank \in Surjection(keep, 1..size)
    BY <1>6, <1>7, FS_Injection
<1>9. \A m \in 1..size : \E i \in keep : rank[i] = m
    BY <1>8 DEF Surjection
<1>10. \A i \in keep : Door!Rank(keep, i) = rank[i]
    BY DoorCounts DEF Door!Rank
<1> HIDE DEF rank
<1> QED
    BY <1>2, <1>5, <1>9, <1>10

(* Each entry of the picked is one of the sequence, no two the same one,    *)
(* and none of those to keep is left out.                                   *)
PicksOf(from, keep, picked, seq) ==
    /\ from \in [1..Len(picked) -> keep]
    /\ \A m \in 1..Len(picked) : picked[m] = seq[from[m]]
    /\ \A m, k \in 1..Len(picked) : from[m] = from[k] => m = k
    /\ \A i \in keep : \E m \in 1..Len(picked) : from[m] = i

LEMMA Picks ==
    ASSUME NEW S, NEW seq \in Seq(S), NEW keep \in SUBSET (1..Len(seq))
    PROVE  /\ Door!Picked(seq, keep) \in Seq(S)
           /\ Len(Door!Picked(seq, keep)) = Cardinality(keep)
           /\ Cardinality(keep) \in Nat /\ Cardinality(keep) <= Len(seq)
           /\ Cardinality(keep) = Len(seq) => keep = 1..Len(seq)
           /\ \E from : PicksOf(from, keep, Door!Picked(seq, keep), seq)
<1> DEFINE size == Cardinality(keep)
           picked == Door!Picked(seq, keep)
           from == [m \in 1..size |-> CHOOSE i \in keep : Door!Rank(keep, i) = m]
<1>1. Len(seq) \in Nat
    OBVIOUS
<1>2. /\ size \in Nat /\ size <= Len(seq)
      /\ size = Len(seq) => keep = 1..Len(seq)
      /\ \A i \in keep : Door!Rank(keep, i) \in 1..size
      /\ \A i, j \in keep : Door!Rank(keep, i) = Door!Rank(keep, j) => i = j
      /\ \A m \in 1..size : \E i \in keep : Door!Rank(keep, i) = m
    BY <1>1, RanksOnce
<1>3. \A m \in 1..size : from[m] \in keep /\ Door!Rank(keep, from[m]) = m
    BY <1>2
<1>4. picked = [m \in 1..size |-> seq[from[m]]]
    BY DoorCounts DEF Door!Picked
<1>5. from \in [1..size -> keep]
    BY <1>3
<1> HIDE DEF from, picked
<1>6. picked \in [1..size -> S]
    <2>1. \A m \in 1..size : from[m] \in 1..Len(seq)
        BY <1>3
    <2>2. \A m \in 1..size : seq[from[m]] \in S
        BY <2>1
    <2> QED
        BY <1>4, <2>2
<1>7. picked \in Seq(S) /\ Len(picked) = size
    BY <1>2, <1>6
<1>8. \A m \in 1..size : picked[m] = seq[from[m]]
    BY <1>4
<1>9. \A i \in keep : \E m \in 1..size : from[m] = i
    BY <1>2, <1>3
<1>10. PicksOf(from, keep, picked, seq)
    BY <1>3, <1>5, <1>7, <1>8, <1>9 DEF PicksOf
<1> QED
    BY <1>2, <1>7, <1>10 DEF picked

-----------------------------------------------------------------------------
(* The map of the clients remembered. *)

Entry == [client : Clients, failures : Seq(Nat), lockouts : Nat, lockedUntil : Int, lastFailure : Nat]

Unique(map) == \A i, j \in 1..Len(map) : map[i].client = map[j].client => i = j
In(e, map) == \E i \in 1..Len(map) : map[i] = e
From(part, map) == \A i \in 1..Len(part) : In(part[i], map)
Map(map) == map \in Seq(Entry) /\ Unique(map)

LEMMA PickedOfMap ==
    ASSUME NEW map, Map(map), NEW keep \in SUBSET (1..Len(map))
    PROVE  /\ Map(Door!Picked(map, keep)) /\ From(Door!Picked(map, keep), map)
           /\ Len(Door!Picked(map, keep)) \in Nat /\ Len(Door!Picked(map, keep)) <= Len(map)
           /\ \A m \in 1..Len(Door!Picked(map, keep)) : \E i \in keep : Door!Picked(map, keep)[m] = map[i]
           /\ \A i \in keep : In(map[i], Door!Picked(map, keep))
           /\ Len(Door!Picked(map, keep)) = Len(map) => keep = 1..Len(map)
<1> DEFINE picked == Door!Picked(map, keep)
<1>1. map \in Seq(Entry) /\ Unique(map)
    BY DEF Map
<1>2. PICK from : PicksOf(from, keep, picked, map)
    BY <1>1, Picks
<1>3. /\ picked \in Seq(Entry) /\ Len(picked) = Cardinality(keep)
      /\ Cardinality(keep) \in Nat /\ Cardinality(keep) <= Len(map)
      /\ Cardinality(keep) = Len(map) => keep = 1..Len(map)
    BY <1>1, Picks
<1> HIDE DEF picked
<1>4. \A m \in 1..Len(picked) : from[m] \in keep /\ from[m] \in 1..Len(map) /\ picked[m] = map[from[m]]
    BY <1>2 DEF PicksOf
<1>5. Unique(picked)
    BY <1>1, <1>2, <1>4 DEF Unique, PicksOf
<1>6. From(picked, map)
    BY <1>4 DEF From, In
<1>7. \A i \in keep : In(map[i], picked)
    BY <1>2, <1>4 DEF PicksOf, In
<1> QED
    BY <1>3, <1>4, <1>5, <1>6, <1>7 DEF Map, picked

LEMMA WithoutIs ==
    ASSUME NEW map, Map(map), NEW c \in Clients
    PROVE  /\ Map(Door!Without(map, c)) /\ From(Door!Without(map, c), map)
           /\ Len(Door!Without(map, c)) \in Nat /\ Len(Door!Without(map, c)) <= Len(map)
           /\ \A m \in 1..Len(Door!Without(map, c)) : Door!Without(map, c)[m].client # c
           /\ \A i \in 1..Len(map) : map[i].client # c => In(map[i], Door!Without(map, c))
           /\ Len(Door!Without(map, c)) = Len(map) => \A i \in 1..Len(map) : map[i].client # c
<1> DEFINE keep == {i \in 1..Len(map) : map[i].client # c}
<1>1. DOMAIN map = 1..Len(map)
    BY DEF Map
<1>2. Door!Without(map, c) = Door!Picked(map, keep)
    BY <1>1 DEF Door!Without
<1>3. keep \in SUBSET (1..Len(map))
    OBVIOUS
<1>4. \A i \in keep : map[i].client # c
    OBVIOUS
<1>5. \A i \in 1..Len(map) : map[i].client # c => i \in keep
    OBVIOUS
<1> HIDE DEF keep
<1> QED
    BY <1>2, <1>3, <1>4, <1>5, PickedOfMap

(* makeRoom leaves room, of entries that were there; one that is locked out *)
(* goes only when each of them has something to answer for.                 *)
Spared(map, at) == Len(map) = MaxEntries /\ \A j \in 1..Len(map) : Door!Answerable(map[j], at)

LEMMA MakeRoomIs ==
    ASSUME NEW map, Map(map), Len(map) <= MaxEntries, NEW at \in Nat
    PROVE  /\ Map(Door!MakeRoom(map, at)) /\ From(Door!MakeRoom(map, at), map)
           /\ Len(Door!MakeRoom(map, at)) \in Nat /\ Len(Door!MakeRoom(map, at)) < MaxEntries
           /\ \A i \in 1..Len(map) : at < map[i].lockedUntil =>
                  In(map[i], Door!MakeRoom(map, at)) \/ Spared(map, at)
<1> DEFINE keep == {i \in 1..Len(map) : Door!Answerable(map[i], at)}
           some == Door!Picked(map, keep)
           last == SubSeq(some, Len(some) - MaxEntries + 2, Len(some))
<1>1. map \in Seq(Entry) /\ DOMAIN map = 1..Len(map) /\ Len(map) \in Nat /\ MaxEntries \in Nat \ {0}
    BY ServingConstants DEF Map, Door!ThrottleConstants
<1>2. Door!MakeRoom(map, at) = IF Len(map) < MaxEntries THEN map
                          ELSE IF Len(some) < MaxEntries THEN some ELSE last
    BY <1>1 DEF Door!MakeRoom
<1>3. /\ keep \in SUBSET (1..Len(map))
      /\ \A i \in keep : Door!Answerable(map[i], at)
      /\ \A i \in 1..Len(map) : at < map[i].lockedUntil => i \in keep
    BY DEF Door!Answerable
<1> HIDE DEF keep
<1>4. /\ Map(some) /\ From(some, map) /\ Len(some) \in Nat /\ Len(some) <= Len(map)
      /\ \A i \in keep : In(map[i], some)
      /\ Len(some) = Len(map) => keep = 1..Len(map)
    BY <1>3, PickedOfMap
<1> HIDE DEF some
<1>5. CASE Len(map) < MaxEntries
    BY <1>1, <1>2, <1>5 DEF From, In
<1>6. CASE ~(Len(map) < MaxEntries) /\ Len(some) < MaxEntries
    BY <1>2, <1>3, <1>4, <1>6
<1>7. CASE ~(Len(map) < MaxEntries) /\ ~(Len(some) < MaxEntries)
    <2>1. Len(some) = MaxEntries /\ Len(map) = MaxEntries
        <3>1. Len(some) <= Len(map) /\ Len(some) \in Nat
            BY <1>4
        <3>2. Len(map) <= MaxEntries /\ Len(map) \in Nat /\ MaxEntries \in Nat
            BY <1>1
        <3> QED
            BY <1>7, <3>1, <3>2
    <2>2. Spared(map, at)
        BY <1>3, <1>4, <2>1 DEF Spared
    <2>3. some \in Seq(Entry) /\ Unique(some)
        BY <1>4 DEF Map
    <2>4. /\ last \in Seq(Entry) /\ Len(last) = MaxEntries - 1
          /\ \A i \in 1..Len(last) : i + 1 \in 1..Len(some) /\ last[i] = some[i + 1]
        BY <1>1, <2>1, <2>3
    <2> HIDE DEF last
    <2>5. Unique(last)
        <3> SUFFICES ASSUME NEW i \in 1..Len(last), NEW j \in 1..Len(last), last[i].client = last[j].client
                     PROVE  i = j
            BY DEF Unique
        <3>1. /\ i + 1 \in 1..Len(some) /\ last[i] = some[i + 1]
              /\ j + 1 \in 1..Len(some) /\ last[j] = some[j + 1]
            BY <2>4
        <3>2. i + 1 = j + 1
            BY <2>3, <3>1 DEF Unique
        <3>3. i \in Int /\ j \in Int
            BY <2>4, <1>1
        <3> QED
            BY <3>2, <3>3
    <2>6. From(last, map)
        BY <1>4, <2>4 DEF From
    <2> QED
        BY <1>1, <1>2, <1>7, <2>2, <2>4, <2>5, <2>6 DEF Map
<1> QED
    BY <1>5, <1>6, <1>7

-----------------------------------------------------------------------------
(* What an entry has to show for itself. *)

Backs(f, failures, made) ==
    /\ f \in [1..Len(failures) -> 1..Len(made)]
    /\ \A i, j \in 1..Len(failures) : f[i] = f[j] => i = j
    /\ \A i \in 1..Len(failures) : made[f[i]] = failures[i]

Near(e, made) == {k \in DOMAIN made : e.lastFailure - made[k] \in -MaxDelay..(Window - 1)}

Backed(e, made) == e.failures # <<>> => \E f : Backs(f, e.failures, made)
Paid(e, made) == e.failures = <<>> => Cardinality(Near(e, made)) >= MaxFailures
By(e, t) == \A i \in 1..Len(e.failures) : e.failures[i] <= t
Short(e) == e.lockedUntil <= e.lastFailure + MaxLockout

Fair(e, made, t) == Backed(e, made) /\ Paid(e, made) /\ By(e, t) /\ Short(e)

LEMMA RecentIs ==
    ASSUME NEW failures \in Seq(Nat), NEW at \in Nat
    PROVE  /\ Door!Recent(failures, at) \in Seq(Nat)
           /\ \E from :
                  /\ from \in [1..Len(Door!Recent(failures, at)) -> 1..Len(failures)]
                  /\ \A i, j \in 1..Len(Door!Recent(failures, at)) : from[i] = from[j] => i = j
                  /\ \A i \in 1..Len(Door!Recent(failures, at)) :
                         /\ Door!Recent(failures, at)[i] = failures[from[i]]
                         /\ at - failures[from[i]] < Window
<1> DEFINE keep == {i \in 1..Len(failures) : at - failures[i] < Window}
           recent == Door!Recent(failures, at)
<1>1. recent = Door!Picked(failures, keep)
    <2>1. DOMAIN failures = 1..Len(failures)
        OBVIOUS
    <2> QED
        BY <2>1 DEF Door!Recent
<1>2. keep \in SUBSET (1..Len(failures)) /\ \A i \in keep : at - failures[i] < Window
    OBVIOUS
<1> HIDE DEF keep, recent
<1>3. recent \in Seq(Nat)
    BY <1>1, <1>2, Picks
<1>4. PICK from : PicksOf(from, keep, recent, failures)
    BY <1>1, <1>2, Picks
<1>5. /\ from \in [1..Len(recent) -> 1..Len(failures)]
      /\ \A i, j \in 1..Len(recent) : from[i] = from[j] => i = j
      /\ \A i \in 1..Len(recent) : recent[i] = failures[from[i]] /\ at - failures[from[i]] < Window
    <2>1. \A i \in 1..Len(recent) : from[i] \in keep
        BY <1>4 DEF PicksOf
    <2> QED
        BY <1>2, <1>4, <2>1 DEF PicksOf
<1> QED
    BY <1>3, <1>5 DEF recent

LEMMA TermIs ==
    ASSUME NEW n \in Nat \ {0}
    PROVE  Door!Term(n) \in Int /\ Door!Term(n) <= MaxLockout
<1>1. Lockout \in Nat /\ MaxLockout \in Nat
    BY ServingConstants DEF Door!ThrottleConstants
<1>2. Door!Least(n - 1, 30) \in Nat
    BY DEF Door!Least
<1>3. 2 ^ Door!Least(n - 1, 30) \in Int
    BY <1>2
<1> DEFINE p == 2 ^ Door!Least(n - 1, 30)
<1> HIDE DEF p
<1>4. p \in Int
    BY <1>3 DEF p
<1>5. Lockout * p \in Int
    BY <1>1, <1>4
<1>6. Door!Term(n) = Door!Least(Lockout * p, MaxLockout)
    BY DEF Door!Term, p
<1> QED
    BY <1>1, <1>5, <1>6 DEF Door!Least

(* A failure that counts: it is remembered with those behind it, or becomes *)
(* a lockout they paid for.                                                 *)
LEMMA CountedIs ==
    ASSUME NEW e \in Entry, NEW made \in Seq(Nat), NEW at \in Nat, NEW t \in Nat,
           at <= t, t - at <= MaxDelay, Backed(e, made), By(e, t), e.lockedUntil <= at
    PROVE  LET new == IF e.failures = <<>> THEN <<at>> ELSE Append(made, at) IN
           /\ Door!Counted(e, at) \in Entry /\ Door!Counted(e, at).client = e.client
           /\ Door!Counted(e, at).lastFailure = at
           /\ new \in Seq(Nat) /\ Fair(Door!Counted(e, at), new, t)
<1> DEFINE new == IF e.failures = <<>> THEN <<at>> ELSE Append(made, at)
           recent == Door!Recent(e.failures, at)
           failures == Append(recent, at)
           counted == Door!Counted(e, at)
<1>0. /\ Window \in Nat \ {0} /\ MaxDelay \in Nat /\ MaxFailures \in Nat \ {0} /\ MaxLockout \in Nat
      /\ e.failures \in Seq(Nat) /\ e.lockouts \in Nat /\ e.lockedUntil \in Int /\ e.client \in Clients
    BY ServingConstants DEF Door!ThrottleConstants, Entry
<1>1. new \in Seq(Nat) /\ Len(new) \in Nat \ {0} /\ new[Len(new)] = at
    BY <1>0
<1>2. recent \in Seq(Nat)
    BY <1>0, RecentIs
<1>3. PICK from :
          /\ from \in [1..Len(recent) -> 1..Len(e.failures)]
          /\ \A i, j \in 1..Len(recent) : from[i] = from[j] => i = j
          /\ \A i \in 1..Len(recent) : recent[i] = e.failures[from[i]] /\ at - e.failures[from[i]] < Window
    BY <1>0, RecentIs
<1> HIDE DEF recent
<1>4. failures \in Seq(Nat) /\ Len(failures) = Len(recent) + 1 /\ Len(recent) \in Nat
      /\ failures[Len(recent) + 1] = at /\ \A i \in 1..Len(recent) : failures[i] = recent[i]
    BY <1>2
<1>5. \E f : Backs(f, failures, new)
    <2>1. CASE e.failures = <<>>
        <3>1. Len(recent) = 0
            <4>1. Len(e.failures) = 0 /\ Len(recent) \in Nat
                BY <1>2, <2>1
            <4>2. \A i \in 1..Len(recent) : from[i] \in 1..0
                BY <1>3, <4>1
            <4> QED
                BY <4>1, <4>2
        <3>2. Backs([i \in 1..1 |-> 1], failures, new)
            BY <1>4, <2>1, <3>1 DEF Backs
        <3> QED
            BY <3>2
    <2>2. CASE e.failures # <<>>
        <3>1. PICK g : Backs(g, e.failures, made)
            BY <2>2 DEF Backed
        <3> DEFINE f == [i \in 1..(Len(recent) + 1) |-> IF i = Len(recent) + 1 THEN Len(made) + 1 ELSE g[from[i]]]
        <3>2. new = Append(made, at) /\ Len(new) = Len(made) + 1 /\ Len(made) \in Nat
              /\ new[Len(made) + 1] = at /\ \A k \in 1..Len(made) : new[k] = made[k]
            BY <2>2
        <3> HIDE DEF new, failures
        <3>3. \A i \in 1..Len(recent) : from[i] \in 1..Len(e.failures) /\ g[from[i]] \in 1..Len(made)
            BY <1>3, <3>1 DEF Backs
        <3>4. \A i \in 1..(Len(recent) + 1) : i # Len(recent) + 1 => i \in 1..Len(recent)
            BY <1>4
        <3>5. f \in [1..Len(failures) -> 1..Len(new)]
            BY <1>4, <3>2, <3>3, <3>4
        <3>6. \A i \in 1..Len(failures) : new[f[i]] = failures[i]
            <4>1. f[Len(recent) + 1] = Len(made) + 1
                BY <1>4
            <4>2. ASSUME NEW i \in 1..Len(recent) PROVE new[f[i]] = failures[i]
                <5>1. f[i] = g[from[i]]
                    BY <1>4
                <5>2. made[g[from[i]]] = e.failures[from[i]]
                    BY <3>1, <3>3 DEF Backs
                <5>3. new[g[from[i]]] = made[g[from[i]]]
                    BY <3>2, <3>3
                <5>4. failures[i] = e.failures[from[i]]
                    BY <1>3, <1>4
                <5> QED
                    BY <5>1, <5>2, <5>3, <5>4
            <4> HIDE DEF f
            <4> QED
                BY <1>4, <3>2, <3>4, <4>1, <4>2
        <3>7. \A i, j \in 1..Len(failures) : f[i] = f[j] => i = j
            <4>1. \A i \in 1..Len(recent) : f[i] = g[from[i]] /\ f[i] # Len(made) + 1
                BY <1>4, <3>2, <3>3
            <4>2. f[Len(recent) + 1] = Len(made) + 1
                BY <1>4
            <4>3. \A i, j \in 1..Len(recent) : g[from[i]] = g[from[j]] => i = j
                BY <1>3, <3>1, <3>3 DEF Backs
            <4> QED
                BY <1>4, <3>4, <4>1, <4>2, <4>3
        <3> QED
            BY <3>5, <3>6, <3>7 DEF Backs
    <2> QED
        BY <2>1, <2>2
<1>6. PICK f : Backs(f, failures, new)
    BY <1>5
<1>7. \A i \in 1..Len(failures) : failures[i] \in Nat /\ failures[i] <= t /\ at - failures[i] < Window
    <2>1. \A i \in 1..Len(recent) : recent[i] \in Nat /\ recent[i] <= t /\ at - recent[i] < Window
        <3> SUFFICES ASSUME NEW i \in 1..Len(recent)
                     PROVE  recent[i] \in Nat /\ recent[i] <= t /\ at - recent[i] < Window
            OBVIOUS
        <3>1. /\ from[i] \in 1..Len(e.failures)
              /\ recent[i] = e.failures[from[i]] /\ at - e.failures[from[i]] < Window
            BY <1>3
        <3>2. e.failures[from[i]] <= t
            BY <3>1 DEF By
        <3>3. recent[i] \in Nat
            BY <1>2
        <3> QED
            BY <3>1, <3>2, <3>3
    <2>2. \A i \in 1..Len(failures) : i = Len(recent) + 1 \/ i \in 1..Len(recent)
        BY <1>4
    <2> HIDE DEF failures
    <2>3. at - at < Window
        BY <1>0
    <2> QED
        BY <1>4, <2>1, <2>2, <2>3
<1> HIDE DEF new, failures
<1>8. CASE Len(failures) >= MaxFailures
    <2> DEFINE locked == [e EXCEPT !.lastFailure = at, !.failures = <<>>,
                                   !.lockouts = @ + 1, !.lockedUntil = at + Door!Term(e.lockouts + 1)]
    <2>1. counted = locked
        BY <1>8 DEF Door!Counted, failures, recent
    <2>2. Door!Term(e.lockouts + 1) \in Int /\ Door!Term(e.lockouts + 1) <= MaxLockout
        BY <1>0, TermIs
    <2>3. /\ counted \in Entry /\ counted.client = e.client /\ counted.lastFailure = at
          /\ counted.failures = <<>> /\ counted.lockedUntil = at + Door!Term(e.lockouts + 1)
        <3>1. at + Door!Term(e.lockouts + 1) \in Int /\ e.lockouts + 1 \in Nat /\ <<>> \in Seq(Nat)
            BY <1>0, <2>2
        <3>2. /\ locked \in Entry /\ locked.client = e.client /\ locked.lastFailure = at
              /\ locked.failures = <<>> /\ locked.lockedUntil = at + Door!Term(e.lockouts + 1)
            BY <3>1 DEF Entry
        <3> QED
            BY <2>1, <3>2
    <2> HIDE DEF counted
    <2>4. \A i \in 1..Len(failures) : f[i] \in Near(counted, new)
        <3> SUFFICES ASSUME NEW i \in 1..Len(failures)
                     PROVE  f[i] \in DOMAIN new /\ at - new[f[i]] \in -MaxDelay..(Window - 1)
            BY <2>3 DEF Near
        <3>1. f[i] \in 1..Len(new) /\ new[f[i]] = failures[i]
            BY <1>6 DEF Backs
        <3>2. DOMAIN new = 1..Len(new)
            BY <1>1
        <3>3. failures[i] \in Nat /\ failures[i] <= t /\ at - failures[i] < Window
            BY <1>7
        <3> QED
            BY <1>0, <3>1, <3>2, <3>3
    <2>5. f \in Injection(1..Len(failures), Near(counted, new))
        BY <1>6, <2>4 DEF Backs, Injection, IsInjective
    <2>6. IsFiniteSet(Near(counted, new))
        <3>1. IsFiniteSet(1..Len(new)) /\ DOMAIN new = 1..Len(new)
            BY <1>1, FS_Interval
        <3> QED
            BY <3>1, FS_Subset DEF Near
    <2>7. Cardinality(1..Len(failures)) = Len(failures)
        BY <1>4, FS_Interval
    <2>8. Cardinality(Near(counted, new)) \in Nat /\ Len(failures) <= Cardinality(Near(counted, new))
        BY <2>5, <2>6, <2>7, FS_Injection, FS_CardinalityType
    <2>9. Fair(counted, new, t)
        <3>1. Cardinality(Near(counted, new)) >= MaxFailures
            BY <1>0, <1>4, <1>8, <2>8
        <3>2. By(counted, t)
            BY <2>3 DEF By
        <3>3. Short(counted)
            BY <1>0, <2>2, <2>3 DEF Short
        <3> QED
            BY <2>3, <3>1, <3>2, <3>3 DEF Fair, Backed, Paid
    <2> QED
        BY <1>1, <2>3, <2>9 DEF counted, new
<1>9. CASE ~(Len(failures) >= MaxFailures)
    <2>1. counted = [e EXCEPT !.lastFailure = at, !.failures = failures]
        BY <1>9 DEF Door!Counted, failures, recent
    <2>2. /\ counted \in Entry /\ counted.client = e.client /\ counted.lastFailure = at
          /\ counted.failures = failures /\ counted.lockedUntil = e.lockedUntil
        BY <1>0, <1>4, <2>1 DEF Entry
    <2> HIDE DEF counted
    <2>3. failures # <<>>
        BY <1>4
    <2>4. Fair(counted, new, t)
        <3>1. By(counted, t)
            BY <1>7, <2>2 DEF By
        <3>2. Short(counted)
            BY <1>0, <2>2 DEF Short
        <3> QED
            BY <1>6, <2>2, <2>3, <3>1, <3>2 DEF Fair, Backed, Paid
    <2> QED
        BY <1>1, <2>2, <2>4 DEF counted, new
<1> QED
    BY <1>8, <1>9

-----------------------------------------------------------------------------
(* The invariant. *)

Attempt == [client : Clients, at : Nat]

DoorTypes ==
    /\ use \in {"login", "requests", "ingest"}
    /\ use = "ingest" => MaxLockout <= ForgetAfter + 1
    /\ now \in Nat
    /\ Map(entries) /\ Len(entries) <= MaxEntries
    /\ waiting \in Seq(Attempt)
    /\ wrongs \in [Clients -> Seq(Nat)]

InTime == \A i \in 1..Len(waiting) : waiting[i].at <= now /\ now - waiting[i].at <= MaxDelay

AllFair == \A i \in 1..Len(entries) : Fair(entries[i], wrongs[entries[i].client], now)

AskedBefore ==
    use # "ingest" =>
        \A i \in 1..Len(waiting), j \in 1..Len(entries) :
            waiting[i].client = entries[j].client /\ waiting[i].at < entries[j].lockedUntil
                => waiting[i].at - entries[j].lastFailure <= MaxDelay

DoorInv == DoorTypes /\ InTime /\ AllFair /\ AskedBefore

EntryIn(map, c) == map[CHOOSE i \in DOMAIN map : map[i].client = c]

LEMMA EntryInIs ==
    ASSUME NEW map, Map(map)
    PROVE  /\ \A i \in 1..Len(map) : EntryIn(map, map[i].client) = map[i]
           /\ \A i \in 1..Len(map) : map[i] \in Entry
           /\ DOMAIN map = 1..Len(map)
<1>1. map \in Seq(Entry) /\ Unique(map) /\ DOMAIN map = 1..Len(map)
    BY DEF Map
<1>2. ASSUME NEW i \in 1..Len(map) PROVE EntryIn(map, map[i].client) = map[i]
    <2> DEFINE j == CHOOSE j \in DOMAIN map : map[j].client = map[i].client
    <2>1. j \in 1..Len(map) /\ map[j].client = map[i].client
        BY <1>1
    <2>2. j = i
        BY <1>1, <2>1 DEF Unique
    <2> QED
        BY <2>2 DEF EntryIn
<1> QED
    BY <1>1, <1>2

LEMMA KnownIs ==
    ASSUME DoorTypes, NEW c
    PROVE  /\ Door!Known(c) <=> \E i \in 1..Len(entries) : entries[i].client = c
           /\ \A i \in 1..Len(entries) : entries[i].client = c => Door!EntryOf(c) = entries[i]
           /\ Door!Known(c) =>
                 /\ In(Door!EntryOf(c), entries) /\ Door!EntryOf(c) \in Entry
                 /\ Door!EntryOf(c).client = c
<1>1. Map(entries)
    BY DEF DoorTypes
<1>2. /\ \A i \in 1..Len(entries) : EntryIn(entries, entries[i].client) = entries[i]
      /\ \A i \in 1..Len(entries) : entries[i] \in Entry
      /\ DOMAIN entries = 1..Len(entries)
    BY <1>1, EntryInIs
<1>3. Door!EntryOf(c) = EntryIn(entries, c)
    BY DEF Door!EntryOf, EntryIn
<1> QED
    BY <1>2, <1>3 DEF Door!Known, In

(* The map a failure of c is recorded in: c is in it, as it was or anew.    *)
LEMMA OpenedIs ==
    ASSUME DoorTypes, NEW c \in Clients, NEW at \in Nat
    PROVE  /\ Map(Door!Opened(c, at)) /\ Len(Door!Opened(c, at)) <= MaxEntries
           /\ Door!Remembered(c, at) => Door!Opened(c, at) = entries
           /\ ~Door!Remembered(c, at) =>
                  /\ \A i \in 1..Len(Door!Opened(c, at)) :
                        \/ Door!Opened(c, at)[i] = Door!Fresh(c, at)
                        \/ In(Door!Opened(c, at)[i], entries) /\ Door!Opened(c, at)[i].client # c
                  /\ \A i \in 1..Len(entries) :
                        entries[i].client # c /\ at < entries[i].lockedUntil
                            => In(entries[i], Door!Opened(c, at)) \/ Spared(entries, at)
<1> DEFINE rest == Door!Without(entries, c)
           made == Door!MakeRoom(rest, at)
           opened == Append(made, Door!Fresh(c, at))
<1>1. Map(entries) /\ Len(entries) <= MaxEntries /\ Len(entries) \in Nat /\ MaxEntries \in Nat \ {0}
    BY ServingConstants DEF DoorTypes, Map, Door!ThrottleConstants
<1>2. CASE Door!Remembered(c, at)
    BY <1>1, <1>2 DEF Door!Opened
<1>3. CASE ~Door!Remembered(c, at)
    <2>0. Door!Opened(c, at) = opened
        BY <1>3 DEF Door!Opened
    <2>1. /\ Map(rest) /\ From(rest, entries) /\ Len(rest) \in Nat /\ Len(rest) <= Len(entries)
          /\ \A m \in 1..Len(rest) : rest[m].client # c
          /\ \A i \in 1..Len(entries) : entries[i].client # c => In(entries[i], rest)
          /\ Len(rest) = Len(entries) => \A i \in 1..Len(entries) : entries[i].client # c
        BY <1>1, WithoutIs
    <2>2. Len(rest) <= MaxEntries
        BY <1>1, <2>1
    <2> HIDE DEF rest
    <2>3. /\ Map(made) /\ From(made, rest) /\ Len(made) \in Nat /\ Len(made) < MaxEntries
          /\ \A i \in 1..Len(rest) : at < rest[i].lockedUntil => In(rest[i], made) \/ Spared(rest, at)
        BY <2>1, <2>2, MakeRoomIs
    <2> HIDE DEF made
    <2>4. Door!Fresh(c, at) \in Entry /\ Door!Fresh(c, at).client = c
        BY DEF Door!Fresh, Entry
    <2>5. made \in Seq(Entry) /\ Unique(made)
        BY <2>3 DEF Map
    <2>6. \A i \in 1..Len(made) : In(made[i], entries) /\ made[i].client # c
        <3> SUFFICES ASSUME NEW i \in 1..Len(made)
                     PROVE  In(made[i], entries) /\ made[i].client # c
            OBVIOUS
        <3>1. PICK m \in 1..Len(rest) : rest[m] = made[i]
            BY <2>3 DEF From, In
        <3> QED
            BY <2>1, <3>1 DEF From
    <2>7. /\ opened \in Seq(Entry) /\ Len(opened) = Len(made) + 1
          /\ opened[Len(made) + 1] = Door!Fresh(c, at)
          /\ \A i \in 1..Len(made) : opened[i] = made[i]
          /\ \A i \in 1..Len(opened) : i = Len(made) + 1 \/ i \in 1..Len(made)
        BY <2>3, <2>4, <2>5
    <2> HIDE DEF opened
    <2>8. Map(opened)
        <3>1. \A i \in 1..Len(made) : opened[i].client # c
            BY <2>6, <2>7
        <3>2. opened[Len(made) + 1].client = c
            BY <2>4, <2>7
        <3>3. \A i, j \in 1..Len(made) : opened[i].client = opened[j].client => i = j
            BY <2>5, <2>7 DEF Unique
        <3> QED
            BY <2>7, <3>1, <3>2, <3>3 DEF Map, Unique
    <2>9. Len(opened) <= MaxEntries
        BY <1>1, <2>3, <2>7
    <2>10. \A i \in 1..Len(opened) :
              \/ opened[i] = Door!Fresh(c, at)
              \/ In(opened[i], entries) /\ opened[i].client # c
        BY <2>6, <2>7
    <2>11. ASSUME NEW i \in 1..Len(entries), entries[i].client # c, at < entries[i].lockedUntil
           PROVE  In(entries[i], opened) \/ Spared(entries, at)
        <3>1. PICK m \in 1..Len(rest) : rest[m] = entries[i]
            BY <2>1, <2>11 DEF In
        <3>2. CASE In(rest[m], made)
            <4>1. PICK n \in 1..Len(made) : made[n] = rest[m]
                BY <3>2 DEF In
            <4>2. n \in 1..Len(opened) /\ opened[n] = entries[i]
                BY <2>3, <2>7, <3>1, <4>1
            <4> QED
                BY <4>2 DEF In
        <3>3. CASE Spared(rest, at)
            <4>1. Len(rest) = Len(entries) /\ Len(entries) = MaxEntries
                BY <1>1, <2>1, <3>3 DEF Spared
            <4>2. \A j \in 1..Len(entries) : In(entries[j], rest)
                BY <2>1, <4>1
            <4>3. \A j \in 1..Len(entries) : Door!Answerable(entries[j], at)
                BY <3>3, <4>2 DEF Spared, In
            <4> QED
                BY <4>1, <4>3 DEF Spared
        <3> QED
            BY <2>3, <2>11, <3>1, <3>2, <3>3
    <2> QED
        BY <1>3, <2>0, <2>8, <2>9, <2>10, <2>11
<1> QED
    BY <1>2, <1>3

-----------------------------------------------------------------------------
(* A failure recorded, of an address that was not locked out or is still    *)
(* remembered for it.                                                       *)

After(c, at) ==
    /\ Map(entries') /\ Len(entries') <= MaxEntries
    /\ wrongs' \in [Clients -> Seq(Nat)]
    /\ \A i \in 1..Len(entries') :
          /\ Fair(entries'[i], wrongs'[entries'[i].client], now)
          /\ In(entries'[i], entries) \/ (entries'[i].client = c /\ entries'[i].lastFailure = at)
    /\ \A k \in Clients : Door!IsLocked(k, now) =>
          \/ In(Door!EntryOf(k), entries')
          \/ Door!NoOneToSpare /\ \A i \in 1..Len(entries') : entries'[i].client # k

LEMMA FailureIs ==
    ASSUME DoorInv, NEW c \in Clients, NEW at \in Nat, at <= now, now - at <= MaxDelay,
           Door!IsLocked(c, at) => Door!Remembered(c, at), Door!RecordFailure(c, at)
    PROVE  After(c, at)
<1> DEFINE map == Door!Opened(c, at)
<1>0. /\ DoorTypes /\ now \in Nat /\ wrongs \in [Clients -> Seq(Nat)] /\ MaxDelay \in Nat
      /\ MaxLockout \in Nat
    BY ServingConstants DEF DoorInv, DoorTypes, Door!ThrottleConstants
<1>1. /\ Map(map) /\ Len(map) <= MaxEntries
      /\ Door!Remembered(c, at) => map = entries
      /\ ~Door!Remembered(c, at) =>
             /\ \A i \in 1..Len(map) :
                   \/ map[i] = Door!Fresh(c, at)
                   \/ In(map[i], entries) /\ map[i].client # c
             /\ \A i \in 1..Len(entries) :
                   entries[i].client # c /\ at < entries[i].lockedUntil
                       => In(entries[i], map) \/ Spared(entries, at)
    BY <1>0, OpenedIs
<1>2. /\ entries' = [i \in DOMAIN map |->
                IF map[i].client = c /\ Door!Counts(map[i], at) THEN Door!Counted(map[i], at) ELSE map[i]]
      /\ wrongs' = Door!Blamed(c, at, map)
    BY DEF Door!RecordFailure
<1> HIDE DEF map
<1>3. map \in Seq(Entry) /\ Unique(map) /\ DOMAIN map = 1..Len(map) /\ Len(map) \in Nat
      /\ \A i \in 1..Len(map) : map[i] \in Entry
    BY <1>1 DEF Map
<1>4. \A k \in Clients :
          wrongs'[k] = IF ~\E i \in 1..Len(map) : map[i].client = k THEN <<>>
                       ELSE IF k # c \/ Door!IsLocked(c, at) THEN wrongs[k]
                       ELSE IF ~Door!Remembered(c, at) \/ Door!EntryOf(c).failures = <<>> THEN <<at>>
                       ELSE Append(wrongs[k], at)
    BY <1>2, <1>3 DEF Door!Blamed
<1>5. wrongs' \in [Clients -> Seq(Nat)]
    <2>1. DOMAIN wrongs' = Clients /\ wrongs' = [k \in Clients |-> wrongs'[k]]
        BY <1>2 DEF Door!Blamed
    <2>2. ASSUME NEW k \in Clients PROVE wrongs'[k] \in Seq(Nat)
        <3>1. /\ wrongs[k] \in Seq(Nat) /\ <<>> \in Seq(Nat) /\ <<at>> \in Seq(Nat)
              /\ Append(wrongs[k], at) \in Seq(Nat)
            BY <1>0
        <3> QED
            BY <1>4, <3>1
    <2> QED
        BY <2>1, <2>2
\* An entry of the map: as it was, or anew.
<1>6. ASSUME NEW i \in 1..Len(map), In(map[i], entries)
      PROVE  /\ Fair(map[i], wrongs[map[i].client], now)
             /\ Door!EntryOf(map[i].client) = map[i] /\ Door!Known(map[i].client)
    <2>1. PICK j \in 1..Len(entries) : entries[j] = map[i]
        BY <1>6 DEF In
    <2>2. Fair(entries[j], wrongs[entries[j].client], now)
        BY DEF DoorInv, AllFair
    <2> QED
        BY <1>0, <2>1, <2>2, KnownIs
<1>7. ASSUME NEW i \in 1..Len(map), map[i].client # c
      PROVE  In(map[i], entries) /\ Fair(map[i], wrongs'[map[i].client], now)
    <2>1. In(map[i], entries)
        <3>1. CASE Door!Remembered(c, at)
            BY <1>1, <3>1 DEF In
        <3>2. CASE ~Door!Remembered(c, at)
            BY <1>1, <1>7, <3>2 DEF Door!Fresh
        <3> QED
            BY <3>1, <3>2
    <2>2. map[i].client \in Clients
        BY <1>3 DEF Entry
    <2>3. wrongs'[map[i].client] = wrongs[map[i].client]
        BY <1>4, <1>7, <2>2
    <2> QED
        BY <1>6, <2>1, <2>3
<1>8. ASSUME NEW i \in 1..Len(map), map[i].client = c, ~Door!Counts(map[i], at)
      PROVE  In(map[i], entries) /\ Fair(map[i], wrongs'[map[i].client], now)
    <2>1. at < map[i].lockedUntil
        BY <1>3, <1>8 DEF Door!Counts, Entry
    <2>2. In(map[i], entries)
        <3>1. map[i] # Door!Fresh(c, at)
            BY <2>1 DEF Door!Fresh
        <3>2. CASE Door!Remembered(c, at)
            BY <1>1, <3>2 DEF In
        <3>3. CASE ~Door!Remembered(c, at)
            BY <1>1, <3>1, <3>3
        <3> QED
            BY <3>2, <3>3
    <2>3. Door!IsLocked(c, at)
        BY <1>6, <1>8, <2>1, <2>2 DEF Door!IsLocked
    <2>4. wrongs'[c] = wrongs[c]
        BY <1>4, <1>8, <2>3
    <2> QED
        BY <1>6, <1>8, <2>2, <2>4
<1>9. ASSUME NEW i \in 1..Len(map), map[i].client = c, Door!Counts(map[i], at)
      PROVE  /\ Door!Counted(map[i], at) \in Entry /\ Door!Counted(map[i], at).client = c
             /\ Door!Counted(map[i], at).lastFailure = at
             /\ Fair(Door!Counted(map[i], at), wrongs'[c], now)
    <2>1. map[i] \in Entry /\ map[i].lockedUntil <= at /\ wrongs[c] \in Seq(Nat)
        BY <1>0, <1>3, <1>9 DEF Door!Counts, Entry
    <2>2. Backed(map[i], wrongs[c]) /\ By(map[i], now)
        <3>1. CASE map[i] = Door!Fresh(c, at)
            BY <3>1 DEF Door!Fresh, Backed, By
        <3>2. CASE map[i] # Door!Fresh(c, at)
            <4>1. In(map[i], entries)
                BY <1>1, <1>9, <3>2 DEF In
            <4> QED
                BY <1>6, <1>9, <4>1 DEF Fair
        <3> QED
            BY <3>1, <3>2
    <2>3. wrongs'[c] = IF map[i].failures = <<>> THEN <<at>> ELSE Append(wrongs[c], at)
        <3>1. CASE Door!Remembered(c, at)
            <4>1. Door!EntryOf(c) = map[i] /\ Door!Known(c)
                BY <1>1, <1>6, <1>9, <3>1 DEF In
            <4>2. ~Door!IsLocked(c, at)
                BY <2>1, <4>1 DEF Door!IsLocked, Entry
            <4> QED
                BY <1>4, <1>9, <3>1, <4>1, <4>2
        <3>2. CASE ~Door!Remembered(c, at)
            <4>1. map[i] = Door!Fresh(c, at)
                BY <1>1, <1>9, <3>2
            <4>2. ~Door!IsLocked(c, at)
                BY <3>2
            <4> QED
                BY <1>4, <1>9, <3>2, <4>1, <4>2 DEF Door!Fresh
        <3> QED
            BY <3>1, <3>2
    <2> QED
        BY <1>0, <1>9, <2>1, <2>2, <2>3, CountedIs
<1>10. /\ entries' \in Seq(Entry) /\ Len(entries') = Len(map)
       /\ \A i \in 1..Len(map) :
             /\ entries'[i].client = map[i].client
             /\ Fair(entries'[i], wrongs'[entries'[i].client], now)
             /\ In(entries'[i], entries) \/ (entries'[i].client = c /\ entries'[i].lastFailure = at)
             /\ ~(map[i].client = c /\ Door!Counts(map[i], at)) => entries'[i] = map[i]
    <2>1. ASSUME NEW i \in 1..Len(map)
          PROVE  /\ entries'[i] \in Entry
                 /\ entries'[i].client = map[i].client
                 /\ Fair(entries'[i], wrongs'[entries'[i].client], now)
                 /\ In(entries'[i], entries) \/ (entries'[i].client = c /\ entries'[i].lastFailure = at)
                 /\ ~(map[i].client = c /\ Door!Counts(map[i], at)) => entries'[i] = map[i]
        <3>1. CASE map[i].client = c /\ Door!Counts(map[i], at)
            <4>1. entries'[i] = Door!Counted(map[i], at)
                BY <1>2, <1>3, <3>1
            <4> QED
                BY <1>9, <3>1, <4>1
        <3>2. CASE ~(map[i].client = c /\ Door!Counts(map[i], at))
            <4>1. entries'[i] = map[i]
                BY <1>2, <1>3, <3>2
            <4> QED
                BY <1>3, <1>7, <1>8, <3>2, <4>1
        <3> QED
            BY <3>1, <3>2
    <2>2. DOMAIN entries' = 1..Len(map)
        BY <1>2, <1>3
    <2>3. entries' = [i \in 1..Len(map) |-> entries'[i]]
        BY <1>2, <1>3
    <2>4. entries' \in Seq(Entry) /\ Len(entries') = Len(map)
        BY <1>3, <2>1, <2>3
    <2> QED
        BY <2>1, <2>4
<1>11. Map(entries') /\ Len(entries') <= MaxEntries
    BY <1>1, <1>3, <1>10 DEF Map, Unique
<1>12. ASSUME NEW k \in Clients, Door!IsLocked(k, now)
       PROVE  \/ In(Door!EntryOf(k), entries')
              \/ Door!NoOneToSpare /\ \A i \in 1..Len(entries') : entries'[i].client # k
    <2>1. PICK j \in 1..Len(entries) : entries[j].client = k /\ Door!EntryOf(k) = entries[j]
        BY <1>0, <1>12, KnownIs DEF Door!IsLocked
    <2>2. entries[j] \in Entry /\ now < entries[j].lockedUntil /\ at < entries[j].lockedUntil
        BY <1>0, <1>12, <2>1, KnownIs DEF Door!IsLocked, Entry
    <2>3. k = c => Door!Remembered(c, at)
        BY <1>12, <2>1, <2>2 DEF Door!IsLocked
    <2>4. In(entries[j], map) \/ Spared(entries, at)
        <3>1. CASE Door!Remembered(c, at)
            BY <1>1, <3>1 DEF In
        <3>2. CASE ~Door!Remembered(c, at)
            BY <1>1, <2>1, <2>2, <2>3, <3>2
        <3> QED
            BY <3>1, <3>2
    <2>5. CASE In(entries[j], map)
        <3>1. PICK i \in 1..Len(map) : map[i] = entries[j]
            BY <2>5 DEF In
        <3>2. ~Door!Counts(map[i], at)
            BY <2>2, <3>1 DEF Door!Counts, Entry
        <3>3. entries'[i] = entries[j]
            BY <1>10, <3>1, <3>2
        <3> QED
            BY <1>10, <2>1, <3>3 DEF In
    <2>6. CASE Spared(entries, at)
        <3>1. at \in (now - MaxDelay)..now
            BY <1>0
        <3>2. DOMAIN entries = 1..Len(entries)
            BY <1>0 DEF DoorTypes, Map
        <3>3. Door!NoOneToSpare
            BY <2>6, <3>1, <3>2 DEF Spared, Door!NoOneToSpare
        <3>4. CASE k = c
            BY <1>1, <2>3, <2>5, <3>4 DEF In
        <3>5. ASSUME k # c, NEW i \in 1..Len(entries'), entries'[i].client = k
              PROVE  In(Door!EntryOf(k), entries')
            <4>1. i \in 1..Len(map) /\ map[i].client = k /\ entries'[i] = map[i]
                BY <1>10, <3>5
            <4>2. Door!EntryOf(k) = map[i]
                BY <1>6, <1>7, <3>5, <4>1
            <4> QED
                BY <3>5, <4>1, <4>2 DEF In
        <3> QED
            BY <3>3, <3>4, <3>5
    <2> QED
        BY <2>4, <2>5, <2>6
<1> QED
    BY <1>5, <1>10, <1>11, <1>12 DEF After

LEMMA SuccessIs ==
    ASSUME DoorInv, NEW c \in Clients, Door!RecordSuccess(c)
    PROVE  /\ Map(entries') /\ Len(entries') <= MaxEntries
           /\ wrongs' \in [Clients -> Seq(Nat)]
           /\ \A i \in 1..Len(entries') :
                 /\ Fair(entries'[i], wrongs'[entries'[i].client], now)
                 /\ In(entries'[i], entries) /\ entries'[i].client # c
           /\ \A k \in Clients : Door!IsLocked(k, now) /\ k # c => In(Door!EntryOf(k), entries')
<1>1. DoorTypes /\ AllFair /\ Map(entries) /\ Len(entries) <= MaxEntries /\ Len(entries) \in Nat
      /\ MaxEntries \in Nat
    BY ServingConstants DEF DoorInv, DoorTypes, Map, Door!ThrottleConstants
<1>2. entries' = Door!Without(entries, c) /\ wrongs' = [wrongs EXCEPT ![c] = <<>>]
    BY DEF Door!RecordSuccess
<1>3. /\ Map(entries') /\ From(entries', entries)
      /\ Len(entries') \in Nat /\ Len(entries') <= Len(entries)
      /\ \A m \in 1..Len(entries') : entries'[m].client # c
      /\ \A i \in 1..Len(entries) : entries[i].client # c => In(entries[i], entries')
    BY <1>1, <1>2, WithoutIs
<1>4. wrongs' \in [Clients -> Seq(Nat)] /\ \A k \in Clients : k # c => wrongs'[k] = wrongs[k]
    <2>1. wrongs \in [Clients -> Seq(Nat)] /\ <<>> \in Seq(Nat)
        BY <1>1 DEF DoorTypes
    <2> QED
        BY <1>2, <2>1
<1>5. ASSUME NEW i \in 1..Len(entries')
      PROVE  Fair(entries'[i], wrongs'[entries'[i].client], now) /\ In(entries'[i], entries)
    <2>1. PICK j \in 1..Len(entries) : entries[j] = entries'[i]
        BY <1>3 DEF From, In
    <2>2. entries[j].client \in Clients /\ entries[j].client # c
        BY <1>1, <1>3, <2>1, EntryInIs DEF Entry
    <2>3. Fair(entries[j], wrongs[entries[j].client], now)
        BY <1>1 DEF AllFair
    <2> QED
        BY <1>4, <2>1, <2>2, <2>3 DEF In
<1>6. ASSUME NEW k \in Clients, Door!IsLocked(k, now), k # c
      PROVE  In(Door!EntryOf(k), entries')
    <2>1. PICK j \in 1..Len(entries) : entries[j].client = k /\ Door!EntryOf(k) = entries[j]
        BY <1>1, <1>6, KnownIs DEF Door!IsLocked
    <2> QED
        BY <1>3, <1>6, <2>1
<1> QED
    BY <1>1, <1>3, <1>4, <1>5, <1>6

(* Entries as they were or brought up to date, and no attempt more.         *)
LEMMA InvAfter ==
    ASSUME DoorInv, UNCHANGED <<use, now>>,
           waiting' \in Seq(Attempt), From(waiting', waiting),
           Map(entries'), Len(entries') <= MaxEntries, wrongs' \in [Clients -> Seq(Nat)],
           \A i \in 1..Len(entries') :
              /\ Fair(entries'[i], wrongs'[entries'[i].client], now)
              /\ In(entries'[i], entries) \/ now - entries'[i].lastFailure <= MaxDelay
    PROVE  DoorInv'
<1>1. DoorTypes /\ InTime /\ AskedBefore /\ now \in Nat /\ MaxDelay \in Nat
    BY ServingConstants DEF DoorInv, DoorTypes, Door!ThrottleConstants
<1>2. DoorTypes'
    BY <1>1 DEF DoorTypes
<1>3. ASSUME NEW i \in 1..Len(waiting') PROVE \E m \in 1..Len(waiting) : waiting'[i] = waiting[m]
    BY DEF From, In
<1>4. InTime'
    BY <1>1, <1>3 DEF InTime
<1>5. AllFair'
    BY DEF AllFair
<1>6. ASSUME use # "ingest", NEW i \in 1..Len(waiting'), NEW j \in 1..Len(entries'),
             waiting'[i].client = entries'[j].client, waiting'[i].at < entries'[j].lockedUntil
      PROVE  waiting'[i].at - entries'[j].lastFailure <= MaxDelay
    <2>1. PICK m \in 1..Len(waiting) : waiting'[i] = waiting[m]
        BY <1>3
    <2>2. CASE In(entries'[j], entries)
        <3>1. PICK n \in 1..Len(entries) : entries[n] = entries'[j]
            BY <2>2 DEF In
        <3> QED
            BY <1>1, <1>6, <2>1, <3>1 DEF AskedBefore
    <2>3. CASE now - entries'[j].lastFailure <= MaxDelay
        <3>1. waiting[m].at <= now /\ waiting[m].at \in Nat
            <4>1. waiting \in Seq(Attempt)
                BY <1>1 DEF DoorTypes
            <4>2. waiting[m] \in Attempt
                BY <4>1
            <4> QED
                BY <1>1, <4>2 DEF InTime, Attempt
        <3>2. entries'[j].lastFailure \in Nat
            BY EntryInIs DEF Entry
        <3>3. waiting'[i].at = waiting[m].at
            BY <2>1
        <3>4. now \in Nat /\ MaxDelay \in Nat
            BY <1>1
        <3> DEFINE at == waiting[m].at
                   last == entries'[j].lastFailure
        <3>5. at \in Nat /\ at <= now /\ last \in Nat /\ now - last <= MaxDelay
            BY <2>3, <3>1, <3>2
        <3> HIDE DEF at, last
        <3>6. at - last <= MaxDelay
            BY <3>4, <3>5
        <3> QED
            BY <3>3, <3>6 DEF at, last
    <2> QED
        BY <2>2, <2>3
<1>7. AskedBefore'
    BY <1>6 DEF AskedBefore
<1> QED
    BY <1>2, <1>4, <1>5, <1>7 DEF DoorInv

LEMMA StandsIs ==
    ASSUME DoorTypes, Map(entries'), NEW k \in Clients, Door!IsLocked(k, now), In(Door!EntryOf(k), entries')
    PROVE  Door!Stands(k)
<1>1. PICK i \in 1..Len(entries') : entries'[i] = Door!EntryOf(k)
    BY DEF In
<1>2. Door!EntryOf(k).client = k
    BY KnownIs DEF Door!IsLocked
<1>3. EntryIn(entries', k) = entries'[i] /\ i \in DOMAIN entries'
    BY <1>1, <1>2, EntryInIs
<1>4. Door!EntryOf(k)' = EntryIn(entries', k)
    BY DEF Door!EntryOf, EntryIn
<1>5. Door!Known(k)'
    BY <1>1, <1>2, <1>3 DEF Door!Known
<1> QED
    BY <1>1, <1>3, <1>4, <1>5 DEF Door!Stands

LEMMA GoneIs ==
    ASSUME Map(entries'), NEW k, \A i \in 1..Len(entries') : entries'[i].client # k
    PROVE  ~Door!Known(k)'
<1>1. DOMAIN entries' = 1..Len(entries')
    BY EntryInIs
<1> QED
    BY <1>1 DEF Door!Known

-----------------------------------------------------------------------------
(* The steps. *)

Keeps == DoorInv' /\ \A k \in Clients : Door!IsLocked(k, now) => Door!Stands(k)

LEMMA AnsweredIs ==
    ASSUME DoorInv, NEW i \in DOMAIN waiting, Door!Answered(i)
    PROVE  /\ waiting' \in Seq(Attempt) /\ From(waiting', waiting)
           /\ UNCHANGED <<use, now>>
           /\ waiting[i].client \in Clients /\ waiting[i].at \in Nat
           /\ waiting[i].at <= now /\ now - waiting[i].at <= MaxDelay
<1> DEFINE before == SubSeq(waiting, 1, i - 1)
           after == SubSeq(waiting, i + 1, Len(waiting))
<1>1. waiting \in Seq(Attempt) /\ i \in 1..Len(waiting) /\ Len(waiting) \in Nat
    BY DEF DoorInv, DoorTypes
<1>2. waiting' = before \o after /\ UNCHANGED <<use, now>>
    BY DEF Door!Answered
<1>3. /\ before \in Seq(Attempt) /\ Len(before) = i - 1
      /\ \A k \in 1..Len(before) : k \in 1..Len(waiting) /\ before[k] = waiting[k]
    BY <1>1
<1>4. /\ after \in Seq(Attempt) /\ Len(after) = Len(waiting) - i
      /\ \A k \in 1..Len(after) : k + i \in 1..Len(waiting) /\ after[k] = waiting[k + i]
    BY <1>1
<1> HIDE DEF before, after
<1>5. /\ before \o after \in Seq(Attempt)
      /\ \A k \in 1..Len(before \o after) :
            \/ k \in 1..Len(before) /\ (before \o after)[k] = before[k]
            \/ k - Len(before) \in 1..Len(after) /\ (before \o after)[k] = after[k - Len(before)]
    <2>1. /\ before \in Seq(Attempt) /\ Len(before) \in Nat
          /\ after \in Seq(Attempt) /\ Len(after) \in Nat
        BY <1>3, <1>4
    <2>2. before \o after \in Seq(Attempt) /\ Len(before \o after) = Len(before) + Len(after)
        BY <2>1
    <2>3. \A k \in 1..(Len(before) + Len(after)) :
              k \in 1..Len(before) \/ k - Len(before) \in 1..Len(after)
        BY <2>1
    <2>4. \A k \in 1..Len(before) : (before \o after)[k] = before[k]
        BY <2>1
    <2>5. \A k \in 1..(Len(before) + Len(after)) :
              k - Len(before) \in 1..Len(after) => (before \o after)[k] = after[k - Len(before)]
        BY <2>1
    <2> QED
        BY <2>2, <2>3, <2>4, <2>5
<1>6. From(waiting', waiting)
    BY <1>2, <1>3, <1>4, <1>5 DEF From, In
<1>7. waiting[i].client \in Clients /\ waiting[i].at \in Nat
    <2>1. waiting[i] \in Attempt
        BY <1>1
    <2> QED
        BY <2>1 DEF Attempt
<1>8. waiting[i].at <= now /\ now - waiting[i].at <= MaxDelay
    BY <1>1 DEF DoorInv, InTime
<1> QED
    BY <1>2, <1>5, <1>6, <1>7, <1>8

LEMMA SameWaits ==
    ASSUME DoorInv, UNCHANGED waiting
    PROVE  waiting' \in Seq(Attempt) /\ From(waiting', waiting)
BY DEF DoorInv, DoorTypes, From, In

LEMMA FailureKeeps ==
    ASSUME DoorInv, NEW c \in Clients, NEW at \in Nat, at <= now, now - at <= MaxDelay,
           Door!IsLocked(c, at) => Door!Remembered(c, at), Door!RecordFailure(c, at),
           UNCHANGED <<use, now>>,
           waiting' \in Seq(Attempt), From(waiting', waiting)
    PROVE  Keeps
<1>1. After(c, at)
    BY FailureIs
<1>2. DoorTypes
    BY DEF DoorInv
<1>3. DoorInv'
    BY <1>1, InvAfter DEF After
<1>4. ASSUME NEW k \in Clients, Door!IsLocked(k, now) PROVE Door!Stands(k)
    <2>1. CASE In(Door!EntryOf(k), entries')
        BY <1>1, <1>2, <1>4, <2>1, StandsIs DEF After
    <2>2. CASE Door!NoOneToSpare /\ \A i \in 1..Len(entries') : entries'[i].client # k
        <3>1. ~Door!Known(k)'
            BY <1>1, <2>2, GoneIs DEF After
        <3> QED
            BY <2>2, <3>1 DEF Door!Stands
    <2> QED
        BY <1>1, <1>4, <2>1, <2>2 DEF After
<1> QED
    BY <1>3, <1>4 DEF Keeps

LEMMA SuccessKeeps ==
    ASSUME DoorInv, NEW c \in Clients, Door!RecordSuccess(c),
           ~Door!IsLocked(c, now) \/ (use = "login" /\ \E i \in DOMAIN waiting : waiting[i].client = c),
           UNCHANGED <<use, now>>,
           waiting' \in Seq(Attempt), From(waiting', waiting)
    PROVE  Keeps
<1>1. /\ Map(entries') /\ Len(entries') <= MaxEntries
      /\ wrongs' \in [Clients -> Seq(Nat)]
      /\ \A i \in 1..Len(entries') :
            /\ Fair(entries'[i], wrongs'[entries'[i].client], now)
            /\ In(entries'[i], entries) /\ entries'[i].client # c
      /\ \A k \in Clients : Door!IsLocked(k, now) /\ k # c => In(Door!EntryOf(k), entries')
    BY SuccessIs
<1>2. DoorTypes
    BY DEF DoorInv
<1>3. DoorInv'
    BY <1>1, InvAfter
<1>4. ASSUME NEW k \in Clients, Door!IsLocked(k, now) PROVE Door!Stands(k)
    <2>1. CASE k # c
        BY <1>1, <1>2, <1>4, <2>1, StandsIs
    <2>2. CASE k = c
        <3>1. ~Door!Known(k)'
            BY <1>1, <2>2, GoneIs
        <3> QED
            BY <1>4, <2>2, <3>1 DEF Door!Stands
    <2> QED
        BY <2>1, <2>2
<1> QED
    BY <1>3, <1>4 DEF Keeps

(* What locked an address out while its attempt waited is still remembered. *)
LEMMA WaitedIsRemembered ==
    ASSUME DoorInv, NEW i \in DOMAIN waiting, Door!IsLocked(waiting[i].client, waiting[i].at)
    PROVE  Door!Remembered(waiting[i].client, waiting[i].at)
<1> DEFINE c == waiting[i].client
           at == waiting[i].at
<1>1. DoorTypes /\ AllFair /\ AskedBefore
      /\ MaxDelay \in Nat /\ ForgetAfter \in Nat /\ MaxDelay <= ForgetAfter /\ MaxLockout \in Nat
    BY ServingConstants DEF DoorInv, Door!ThrottleConstants
<1>2. i \in 1..Len(waiting) /\ at \in Nat
    <2>1. waiting \in Seq(Attempt)
        BY <1>1 DEF DoorTypes
    <2>2. i \in 1..Len(waiting) /\ waiting[i] \in Attempt
        BY <2>1
    <2> QED
        BY <2>2 DEF Attempt
<1>3. PICK j \in 1..Len(entries) : entries[j].client = c /\ Door!EntryOf(c) = entries[j]
    BY <1>1, KnownIs DEF Door!IsLocked
<1>4. Door!Known(c) /\ at < entries[j].lockedUntil
    BY <1>3 DEF Door!IsLocked
<1>5. entries[j].lockedUntil \in Int /\ entries[j].lastFailure \in Nat
    BY <1>1, EntryInIs DEF DoorTypes, Entry
<1>6. CASE use # "ingest"
    <2>1. at - entries[j].lastFailure <= MaxDelay
        BY <1>1, <1>2, <1>3, <1>4, <1>6 DEF AskedBefore
    <2> QED
        BY <1>1, <1>2, <1>3, <1>4, <1>5, <2>1 DEF Door!Remembered
<1>7. CASE use = "ingest"
    <2>1. MaxLockout <= ForgetAfter + 1
        BY <1>1, <1>7 DEF DoorTypes
    <2>2. entries[j].lockedUntil <= entries[j].lastFailure + MaxLockout
        BY <1>1 DEF AllFair, Fair, Short
    <2> HIDE DEF at
    <2>3. at - entries[j].lastFailure <= ForgetAfter
        BY <1>1, <1>2, <1>4, <1>5, <2>1, <2>2
    <2> QED
        BY <1>3, <1>4, <2>3 DEF Door!Remembered, at
<1> QED
    BY <1>6, <1>7

LEMMA EntriesStay ==
    ASSUME DoorInv, UNCHANGED entries
    PROVE  \A k \in Clients : Door!IsLocked(k, now) => Door!Stands(k)
BY DEF Door!IsLocked, Door!Known, Door!EntryOf, Door!Stands

LEMMA AttemptKeeps ==
    ASSUME DoorInv, NEW c \in Clients, Door!Login(c) \/ Door!Request(c) \/ Door!Ask(c)
    PROVE  Keeps
<1>1. now \in Nat /\ now <= now /\ now - now <= MaxDelay /\ MaxDelay \in Nat
    BY ServingConstants DEF DoorInv, DoorTypes, Door!ThrottleConstants
<1>2. CASE Door!Login(c)
    <2>1. ~Door!IsLocked(c, now) /\ UNCHANGED <<use, now>> /\ UNCHANGED waiting
        BY <1>2 DEF Door!Login
    <2>2. CASE Door!RecordFailure(c, now)
        BY <1>1, <2>1, <2>2, SameWaits, FailureKeeps
    <2>3. CASE Door!RecordSuccess(c)
        BY <2>1, <2>3, SameWaits, SuccessKeeps
    <2> QED
        BY <1>2, <2>2, <2>3 DEF Door!Login
<1>3. CASE Door!Request(c)
    <2>1. ~Door!IsLocked(c, now) /\ Door!RecordFailure(c, now) /\ UNCHANGED <<use, now>> /\ UNCHANGED waiting
        BY <1>3 DEF Door!Request
    <2> QED
        BY <1>1, <2>1, SameWaits, FailureKeeps
<1>4. CASE Door!Ask(c)
    <2> DEFINE new == [client |-> c, at |-> now]
    <2>1. /\ use = "login" => ~Door!IsLocked(c, now)
          /\ use # "requests"
          /\ waiting' = Append(waiting, new)
          /\ UNCHANGED <<use, now, entries, wrongs>>
        BY <1>4 DEF Door!Ask
    <2>2. /\ DoorTypes /\ waiting \in Seq(Attempt) /\ new \in Attempt
          /\ InTime /\ AllFair /\ AskedBefore
        BY <1>1 DEF DoorInv, DoorTypes, Attempt
    <2>3. new.client = c /\ new.at = now
        OBVIOUS
    <2> HIDE DEF new
    <2>4. /\ waiting' \in Seq(Attempt)
          /\ \A i \in 1..Len(waiting') :
                waiting'[i] = new \/ (i \in 1..Len(waiting) /\ waiting'[i] = waiting[i])
        BY <2>1, <2>2
    <2>5. DoorTypes'
        BY <2>1, <2>2, <2>4 DEF DoorTypes
    <2>6. InTime'
        BY <1>1, <2>1, <2>2, <2>3, <2>4 DEF InTime
    <2>7. AllFair'
        BY <2>1, <2>2 DEF AllFair
    <2>8. AskedBefore'
        <3> SUFFICES ASSUME use # "ingest", NEW i \in 1..Len(waiting'), NEW j \in 1..Len(entries),
                            waiting'[i].client = entries[j].client,
                            waiting'[i].at < entries[j].lockedUntil
                     PROVE  waiting'[i].at - entries[j].lastFailure <= MaxDelay
            BY <2>1 DEF AskedBefore
        <3>1. CASE waiting'[i] = new
            <4>1. use = "login"
                BY <2>1, <2>2 DEF DoorTypes
            <4>2. Door!Known(c) /\ Door!EntryOf(c) = entries[j] /\ now < entries[j].lockedUntil
                BY <2>2, <2>3, <3>1, KnownIs
            <4> QED
                BY <2>1, <4>1, <4>2 DEF Door!IsLocked
        <3>2. CASE i \in 1..Len(waiting) /\ waiting'[i] = waiting[i]
            BY <2>2, <3>2 DEF AskedBefore
        <3> QED
            BY <2>4, <3>1, <3>2
    <2>9. \A k \in Clients : Door!IsLocked(k, now) => Door!Stands(k)
        BY <2>1, EntriesStay
    <2> QED
        BY <2>5, <2>6, <2>7, <2>8, <2>9 DEF Keeps, DoorInv
<1> QED
    BY <1>2, <1>3, <1>4

LEMMA AnswerKeeps ==
    ASSUME DoorInv, NEW i \in DOMAIN waiting, Door!Wrong(i) \/ Door!Right(i) \/ Door!NoVerdict(i)
    PROVE  Keeps
<1>1. Door!Answered(i)
    BY DEF Door!Wrong, Door!Right, Door!NoVerdict
<1>2. /\ waiting' \in Seq(Attempt) /\ From(waiting', waiting)
      /\ UNCHANGED <<use, now>>
      /\ waiting[i].client \in Clients /\ waiting[i].at \in Nat
      /\ waiting[i].at <= now /\ now - waiting[i].at <= MaxDelay
    BY <1>1, AnsweredIs
<1>3. CASE Door!Wrong(i)
    <2>1. Door!RecordFailure(waiting[i].client, waiting[i].at)
        BY <1>3 DEF Door!Wrong
    <2>2. Door!IsLocked(waiting[i].client, waiting[i].at) => Door!Remembered(waiting[i].client, waiting[i].at)
        BY WaitedIsRemembered
    <2> QED
        BY <1>2, <2>1, <2>2, FailureKeeps
<1>4. CASE use = "login" /\ Door!RecordSuccess(waiting[i].client)
    BY <1>2, <1>4, SuccessKeeps
<1>5. CASE UNCHANGED <<entries, wrongs>>
    <2>1. /\ Map(entries') /\ Len(entries') <= MaxEntries /\ wrongs' \in [Clients -> Seq(Nat)]
          /\ \A k \in 1..Len(entries') :
                Fair(entries'[k], wrongs'[entries'[k].client], now) /\ In(entries'[k], entries)
        BY <1>5 DEF DoorInv, DoorTypes, AllFair, In
    <2>2. DoorInv'
        BY <1>2, <2>1, InvAfter
    <2> QED
        BY <1>5, <2>2, EntriesStay DEF Keeps
<1> QED
    BY <1>3, <1>4, <1>5 DEF Door!Right, Door!NoVerdict

LEMMA TickKeeps ==
    ASSUME DoorInv, Door!Tick
    PROVE  Keeps
<1>1. /\ DoorTypes /\ InTime /\ AllFair /\ AskedBefore
      /\ now \in Nat /\ MaxDelay \in Nat
    BY ServingConstants DEF DoorInv, DoorTypes, Door!ThrottleConstants
<1>2. /\ \A i \in 1..Len(waiting) : now - waiting[i].at < MaxDelay
      /\ now' = now + 1 /\ UNCHANGED <<use, entries, waiting, wrongs>>
    BY <1>1 DEF Door!Tick, DoorTypes
<1>3. DoorTypes'
    BY <1>1, <1>2 DEF DoorTypes
<1>4. ASSUME NEW i \in 1..Len(waiting)
      PROVE  waiting[i].at \in Nat /\ waiting[i].at <= now + 1 /\ now + 1 - waiting[i].at <= MaxDelay
    <2>1. waiting \in Seq(Attempt)
        BY <1>1 DEF DoorTypes
    <2>2. waiting[i] \in Attempt
        BY <2>1
    <2>3. waiting[i].at \in Nat /\ waiting[i].at <= now /\ now - waiting[i].at < MaxDelay
        BY <1>1, <1>2, <2>2 DEF InTime, Attempt
    <2> QED
        BY <1>1, <2>3
<1>5. InTime'
    <2>1. waiting' = waiting /\ now' = now + 1
        BY <1>2
    <2>2. ASSUME NEW i \in 1..Len(waiting')
          PROVE  waiting'[i].at <= now' /\ now' - waiting'[i].at <= MaxDelay
        <3>1. i \in 1..Len(waiting) /\ waiting'[i].at = waiting[i].at
            BY <2>1
        <3>2. waiting[i].at \in Nat /\ waiting[i].at <= now + 1 /\ now + 1 - waiting[i].at <= MaxDelay
            BY <1>4, <3>1
        <3>3. now' = now + 1 /\ now \in Nat /\ now' \in Nat /\ MaxDelay \in Nat
            BY <1>1, <2>1
        <3>4. waiting[i].at <= now' /\ now' - waiting[i].at <= MaxDelay
            BY <3>2, <3>3
        <3> QED
            BY <3>1, <3>4
    <2> QED
        BY <2>2 DEF InTime
<1>6. ASSUME NEW i \in 1..Len(entries) PROVE Fair(entries[i], wrongs[entries[i].client], now + 1)
    <2>1. entries[i] \in Entry /\ Fair(entries[i], wrongs[entries[i].client], now)
        BY <1>1, EntryInIs DEF DoorTypes, AllFair
    <2>2. entries[i].failures \in Seq(Nat)
        BY <2>1 DEF Entry
    <2>3. By(entries[i], now + 1)
        <3> SUFFICES ASSUME NEW j \in 1..Len(entries[i].failures)
                     PROVE  entries[i].failures[j] <= now + 1
            BY DEF By
        <3>1. entries[i].failures[j] \in Nat /\ entries[i].failures[j] <= now
            BY <2>1, <2>2 DEF Fair, By
        <3> QED
            BY <1>1, <3>1
    <2> QED
        BY <2>1, <2>3 DEF Fair
<1>7. AllFair'
    BY <1>2, <1>6 DEF AllFair
<1>8. AskedBefore'
    BY <1>1, <1>2 DEF AskedBefore
<1>9. \A k \in Clients : Door!IsLocked(k, now) => Door!Stands(k)
    BY <1>2, EntriesStay
<1> QED
    BY <1>3, <1>5, <1>7, <1>8, <1>9 DEF Keeps, DoorInv

LEMMA RestartKeeps ==
    ASSUME DoorInv, Door!Restart
    PROVE  Keeps
<1>1. /\ entries' = <<>> /\ waiting' = <<>> /\ wrongs' = [c \in Clients |-> <<>>]
      /\ UNCHANGED <<use, now>>
    BY DEF Door!Restart
<1>2. /\ Map(entries') /\ Len(entries') <= MaxEntries /\ Len(entries') = 0 /\ Len(waiting') = 0
      /\ waiting' \in Seq(Attempt) /\ wrongs' \in [Clients -> Seq(Nat)]
    BY <1>1, ServingConstants DEF Map, Unique, Door!ThrottleConstants
<1>3. DoorInv'
    BY <1>1, <1>2 DEF DoorInv, DoorTypes, InTime, AllFair, AskedBefore
<1>4. ASSUME NEW k \in Clients PROVE Door!Stands(k)
    <2>1. ~Door!Known(k)'
        BY <1>2, GoneIs
    <2> QED
        BY <1>1, <2>1 DEF Door!Stands
<1> QED
    BY <1>3, <1>4 DEF Keeps

LEMMA DoorStep == ASSUME DoorInv, [Door!Next]_(Door!vars) PROVE Keeps
<1>1. ASSUME NEW c \in Clients, Door!Login(c) \/ Door!Request(c) \/ Door!Ask(c) PROVE Keeps
    BY <1>1, AttemptKeeps
<1>2. ASSUME NEW i \in DOMAIN waiting, Door!Wrong(i) \/ Door!Right(i) \/ Door!NoVerdict(i) PROVE Keeps
    BY <1>2, AnswerKeeps
<1>3. CASE UNCHANGED Door!vars
    <2>1. UNCHANGED <<use, now, entries, waiting, wrongs>>
        BY <1>3 DEF Door!vars
    <2>2. DoorInv'
        BY <2>1 DEF DoorInv, DoorTypes, InTime, AllFair, AskedBefore
    <2> QED
        BY <2>1, <2>2, EntriesStay DEF Keeps
<1> QED
    BY <1>1, <1>2, <1>3, TickKeeps, RestartKeeps DEF Door!Next

LEMMA DoorInit == ASSUME Door!Init PROVE DoorInv
<1>1. /\ use \in {"login", "requests", "ingest"} /\ (use = "ingest" => MaxLockout <= ForgetAfter + 1)
      /\ now = 0 /\ entries = <<>> /\ waiting = <<>> /\ wrongs = [c \in Clients |-> <<>>]
    BY DEF Door!Init
<1>2. /\ Map(entries) /\ Len(entries) <= MaxEntries /\ Len(entries) = 0 /\ Len(waiting) = 0
      /\ waiting \in Seq(Attempt) /\ wrongs \in [Clients -> Seq(Nat)] /\ now \in Nat
    BY <1>1, ServingConstants DEF Map, Unique, Door!ThrottleConstants
<1> QED
    BY <1>1, <1>2 DEF DoorInv, DoorTypes, InTime, AllFair, AskedBefore

LEMMA PaidIsEarned == ASSUME DoorInv' PROVE Door!Earned' /\ Len(entries') <= MaxEntries
<1>1. DOMAIN entries' = 1..Len(entries') /\ Len(entries') <= MaxEntries
    BY EntryInIs DEF DoorInv, DoorTypes
<1>2. ASSUME NEW i \in 1..Len(entries')
      PROVE  Paid(entries'[i], wrongs'[entries'[i].client])
    BY DEF DoorInv, AllFair, Fair
<1> QED
    BY <1>1, <1>2, DoorCounts DEF Door!Earned, Paid, Near

(* DoorInv holds in every state of the throttle: who is remembered, what    *)
(* for, and how late an answer may still come.                              *)
THEOREM DoorInductive == Door!Spec => []DoorInv
<1>1. DoorInv /\ [Door!Next]_(Door!vars) => DoorInv'
    BY DoorStep DEF Keeps
<1> QED
    BY <1>1, DoorInit, PTL DEF Door!Spec

(* Whatever the order the answers come in, a lockout has its failures, and  *)
(* nothing moves its end: the entry goes only with a success asked for      *)
(* before it, for room nobody else could make, or with the process.         *)
THEOREM LockoutsKept == Door!Spec => LockoutsAreKept
<1>1. DoorInv /\ [Door!Next]_(Door!vars) =>
          [/\ Door!Earned' /\ Len(entries') <= MaxEntries
           /\ \A c \in Clients : Door!IsLocked(c, now) => Door!Stands(c)]_(Door!vars)
    BY DoorStep, PaidIsEarned DEF Keeps
<1> QED
    BY <1>1, DoorInductive, PTL DEF Door!Spec, LockoutsAreKept, Door!LockoutsAreKept
=============================================================================
