------------------------------ MODULE Tenancy -------------------------------
(***************************************************************************)
(* Organizations, the people who sign in for them, the systems they hold   *)
(* and the links that hand a system over (store.ts 694-1276 behind         *)
(* tenancy.ts, ui.ts and accounts.ts, and the command line of cli.ts).     *)
(*                                                                         *)
(* A web request is two steps. Asking checks, synchronously, who is signed *)
(* in and whether the system is theirs, and puts the change on the store's *)
(* write queue; the change has its turn later, in a transaction of its     *)
(* own, and checks again only what that transaction reads. In between      *)
(* other requests have their turns, and the command line, another process  *)
(* on the same database, commits whatever the operator runs.               *)
(*                                                                         *)
(* A transaction is one step, and any turn may fail and leave nothing: its *)
(* own check refuses it, the other process holds the database, the signer  *)
(* is away. Labels, archiving and API keys are elsewhere (Gateway): they   *)
(* decide nothing here.                                                    *)
(***************************************************************************)
EXTENDS Integers, Sequences, FiniteSets

CONSTANTS
    Orgs, Users, Systems, Links,
    Operator,               \* who holds the systems of no organization
    Under,                  \* the account an identifier's prefix names
    OrganizationMaxSystems, \* the quota of the web view
    Unborn, Deleted,        \* an identifier never used, and one used up
    None,
    MaxQueue                \* bound: changes waiting at once

Holders == Orgs \cup {Operator}

ASSUME TenancyConstants ==
    /\ Operator \notin Orgs
    /\ None \notin Orgs /\ None \notin Systems
    /\ Unborn \notin Holders /\ Deleted \notin Holders /\ Unborn # Deleted
    /\ Under \in [Systems -> Holders]
    /\ OrganizationMaxSystems \in Nat
    /\ MaxQueue \in Nat

VARIABLES
    org,        \* per organization: "none" (no row), "waiting" or "approved"
    member,     \* per person, the organization of their row, or None
    owner,      \* per identifier: Unborn, Deleted or its system's holder
    recorded,   \* systems whose chain holds more than its genesis
    linkOf,     \* per link, the system it hands over
    linkState,  \* "unmade", "open", "used", "revoked", or "gone" with its system
    expired,    \* links past their seven days
    queue       \* changes asked for, in the order of their turns

orgVars == <<org, member>>
linkVars == <<linkOf, linkState>>
dbVars == <<org, member, owner, recorded, linkOf, linkState, expired>>
vars == <<dbVars, queue>>

Task ==
    [kind : {"create"}, system : Systems, to : Holders]
        \cup [kind : {"offer", "takeBack", "delete", "erase"}, system : Systems]
        \cup [kind : {"accept"}, link : Links, to : Orgs, late : BOOLEAN]
        \cup [kind : {"register"}, user : Users]
        \cup [kind : {"approve", "reject"}, org : Orgs]
        \cup [kind : {"remove"}, org : Orgs, rest : SUBSET Systems]

Exists(o) == org[o] # "none"
Held(s) == owner[s] \in Holders
HeldBy(h) == {s \in Systems : owner[s] = h}
Open(s) == {l \in Links : linkState[l] = "open" /\ linkOf[l] = s}

Init ==
    /\ org = [o \in Orgs |-> "none"]
    /\ member = [u \in Users |-> None]
    /\ owner = [s \in Systems |-> Unborn]
    /\ recorded = {}
    /\ linkOf = [l \in Links |-> None]
    /\ linkState = [l \in Links |-> "unmade"]
    /\ expired = {}
    /\ queue = <<>>

-----------------------------------------------------------------------------
(* The transactions of the store. Each is what its method commits, when it  *)
(* commits anything.                                                        *)

\* createSystem: the identifier of a deleted system is not reused.
CreateSystem(s, h) ==
    /\ owner[s] = Unborn
    /\ h \in Orgs => Exists(h)
    /\ owner' = [owner EXCEPT ![s] = h]
    /\ UNCHANGED <<orgVars, recorded, linkVars, expired>>

\* The rows of systems that go, and of the links over them.
Take(gone) ==
    /\ owner' = [s \in Systems |-> IF s \in gone THEN Deleted ELSE owner[s]]
    /\ recorded' = recorded \ gone
    /\ linkState' = [l \in Links |-> IF linkOf[l] \in gone THEN "gone" ELSE linkState[l]]
    /\ UNCHANGED <<linkOf, expired>>

DeleteEmptySystem(s) ==
    /\ Held(s) /\ s \notin recorded
    /\ Take({s})
    /\ UNCHANGED orgVars

FaultOwnerNotReread(s) ==
    /\ Held(s)
    /\ Take({s})
    /\ UNCHANGED orgVars
EraseOperatorSystem(s) ==
    /\ owner[s] = Operator
    /\ Take({s})
    /\ UNCHANGED orgVars

\* A new link beside the one the system had open.
FaultLinkLeftOpen(s) ==
    /\ Held(s)
    /\ \E l \in Links :
        /\ linkState[l] = "unmade"
        /\ linkOf' = [linkOf EXCEPT ![l] = s]
        /\ linkState' = [linkState EXCEPT ![l] = "open"]
    /\ UNCHANGED <<orgVars, owner, recorded, expired>>

\* createTransfer: the link the system had open is taken back.
CreateTransfer(s) ==
    /\ Held(s)
    /\ \E l \in Links :
        /\ linkState[l] = "unmade"
        /\ linkOf' = [linkOf EXCEPT ![l] = s]
        /\ linkState' = [k \in Links |->
                IF k = l THEN "open" ELSE IF k \in Open(s) THEN "revoked" ELSE linkState[k]]
    /\ UNCHANGED <<orgVars, owner, recorded, expired>>

RevokeTransfers(s) ==
    /\ Held(s)
    /\ linkState' = [k \in Links |-> IF k \in Open(s) THEN "revoked" ELSE linkState[k]]
    /\ UNCHANGED <<orgVars, owner, recorded, linkOf, expired>>

\* acceptTransfer: a link is late by the time its request was made.
AcceptTransfer(l, o, late) ==
    /\ linkState[l] = "open" /\ ~late
    /\ org[o] = "approved"
    /\ Held(linkOf[l]) /\ owner[linkOf[l]] # o
    /\ owner' = [owner EXCEPT ![linkOf[l]] = o]
    /\ linkState' = [linkState EXCEPT ![l] = "used"]
    /\ UNCHANGED <<orgVars, recorded, linkOf, expired>>

\* assignSystem leaves the system's open link as it is.
AssignSystem(s, h) ==
    /\ Held(s)
    /\ h \in Orgs => Exists(h)
    /\ owner' = [owner EXCEPT ![s] = h]
    /\ UNCHANGED <<orgVars, recorded, linkVars, expired>>

CreateOrganization(o) ==
    /\ ~Exists(o)
    /\ org' = [org EXCEPT ![o] = "approved"]
    /\ UNCHANGED <<member, owner, recorded, linkVars, expired>>

\* registerOrganization: an identifier no row has now, and one person.
RegisterOrganization(u) ==
    /\ member[u] = None
    /\ \E o \in Orgs :
        /\ ~Exists(o)
        /\ org' = [org EXCEPT ![o] = "waiting"]
        /\ member' = [member EXCEPT ![u] = o]
    /\ UNCHANGED <<owner, recorded, linkVars, expired>>

ApproveOrganization(o) ==
    /\ Exists(o)
    /\ org' = [org EXCEPT ![o] = "approved"]
    /\ UNCHANGED <<member, owner, recorded, linkVars, expired>>

\* The rows of an organization and of its people.
Drop(o) ==
    /\ org' = [org EXCEPT ![o] = "none"]
    /\ member' = [u \in Users |-> IF member[u] = o THEN None ELSE member[u]]

RejectOrganization(o) ==
    /\ org[o] = "waiting" /\ HeldBy(o) = {}
    /\ Drop(o)
    /\ UNCHANGED <<owner, recorded, linkVars, expired>>

\* The last turn of deleteOrganization. It does not look at the organization
\* again: the foreign key of systems is what refuses it.
FaultNoForeignKey(o) == FALSE
StillReferred(o) == HeldBy(o) # {}
RemoveOrganization(o) ==
    /\ ~StillReferred(o)
    /\ Drop(o)
    /\ UNCHANGED <<owner, recorded, linkVars, expired>>

EraseOrganization(o) ==
    /\ Exists(o)
    /\ Take(HeldBy(o))
    /\ Drop(o)

-----------------------------------------------------------------------------
(* Asking, from the web view: what a page may ask depends on who is signed  *)
(* in (viewerOf) and on what is theirs (storeFor) at that moment.           *)

SignedIn(h) ==
    h \in Orgs => org[h] = "approved" /\ \E u \in Users : member[u] = h

Enqueue(task) ==
    /\ Len(queue) < MaxQueue
    /\ queue' = Append(queue, task)
    /\ UNCHANGED dbVars

\* A customer's identifiers carry its name; the operator takes none of those.
MayName(h, s) ==
    IF h = Operator THEN Under[s] \in Orgs => ~Exists(Under[s]) ELSE Under[s] = h

AskCreate(h, s) ==
    /\ SignedIn(h) /\ MayName(h, s)
    /\ h # Operator => Cardinality(HeldBy(h)) < OrganizationMaxSystems
    /\ Enqueue([kind |-> "create", system |-> s, to |-> h])

AskOffer(h, s) ==
    /\ SignedIn(h) /\ owner[s] = h
    /\ Enqueue([kind |-> "offer", system |-> s])

AskTakeBack(h, s) ==
    /\ SignedIn(h) /\ owner[s] = h
    /\ Enqueue([kind |-> "takeBack", system |-> s])

\* The operator's own systems go whole, a customer's only while empty.
AskDelete(h, s) ==
    /\ SignedIn(h) /\ owner[s] = h
    /\ Enqueue([kind |-> IF h = Operator THEN "erase" ELSE "delete", system |-> s])

\* Whoever has the link, signed in for any organization.
AskAccept(o, l) ==
    /\ SignedIn(o)
    /\ linkState[l] # "unmade"
    /\ Enqueue([kind |-> "accept", link |-> l, to |-> o, late |-> l \in expired])

\* The ticket of a first sign-in may outlive the registration it led to.
AskRegister(u) == Enqueue([kind |-> "register", user |-> u])

AskApprove(o) == Exists(o) /\ Enqueue([kind |-> "approve", org |-> o])
AskReject(o) == Exists(o) /\ Enqueue([kind |-> "reject", org |-> o])

\* deleteOrganization before its first await: what is there, listed once.
AskRemove(o) ==
    /\ Exists(o)
    /\ HeldBy(o) \cap recorded = {}
    /\ Enqueue([kind |-> "remove", org |-> o, rest |-> HeldBy(o)])

-----------------------------------------------------------------------------
(* The turns of the write queue (enqueue, inTransaction).                   *)

Heading(kind) == queue # <<>> /\ Head(queue).kind = kind
Done == queue' = Tail(queue)

TurnCreate ==
    Heading("create") /\ CreateSystem(Head(queue).system, Head(queue).to) /\ Done
TurnOffer == Heading("offer") /\ CreateTransfer(Head(queue).system) /\ Done
TurnTakeBack == Heading("takeBack") /\ RevokeTransfers(Head(queue).system) /\ Done
TurnDelete == Heading("delete") /\ DeleteEmptySystem(Head(queue).system) /\ Done
TurnErase == Heading("erase") /\ EraseOperatorSystem(Head(queue).system) /\ Done
TurnAccept ==
    /\ Heading("accept")
    /\ AcceptTransfer(Head(queue).link, Head(queue).to, Head(queue).late)
    /\ Done
TurnRegister == Heading("register") /\ RegisterOrganization(Head(queue).user) /\ Done
TurnApprove == Heading("approve") /\ ApproveOrganization(Head(queue).org) /\ Done
TurnReject == Heading("reject") /\ RejectOrganization(Head(queue).org) /\ Done

\* deleteOrganization awaits one deletion at a time, each at the queue's end.
Rest(task, s) == Append(Tail(queue), [task EXCEPT !.rest = @ \ {s}])
TurnRemoveSystem ==
    /\ Heading("remove")
    /\ \E s \in Head(queue).rest :
        /\ DeleteEmptySystem(s)
        /\ queue' = Rest(Head(queue), s)

TurnRemove ==
    /\ Heading("remove") /\ Head(queue).rest = {}
    /\ RemoveOrganization(Head(queue).org)
    /\ Done

TurnFails == queue # <<>> /\ Done /\ UNCHANGED dbVars

-----------------------------------------------------------------------------
(* The command line, each command a process of its own; what agents record; *)
(* time; and the server started again, whose queue was in memory.           *)

CliCreate(s, h) == CreateSystem(s, h) /\ UNCHANGED queue
CliDelete(s) == DeleteEmptySystem(s) /\ UNCHANGED queue
CliAssign(s, h) == AssignSystem(s, h) /\ UNCHANGED queue
CliOrgCreate(o) == CreateOrganization(o) /\ UNCHANGED queue
CliApprove(o) == ApproveOrganization(o) /\ UNCHANGED queue
CliErase(o) == EraseOrganization(o) /\ UNCHANGED queue

Record(s) ==
    /\ Held(s)
    /\ recorded' = recorded \cup {s}
    /\ UNCHANGED <<orgVars, owner, linkVars, expired, queue>>

Expire(l) ==
    /\ linkState[l] # "unmade"
    /\ expired' = expired \cup {l}
    /\ UNCHANGED <<orgVars, owner, recorded, linkVars, queue>>

Restart == queue' = <<>> /\ UNCHANGED dbVars

Asking ==
    \/ \E h \in Holders, s \in Systems :
        AskCreate(h, s) \/ AskOffer(h, s) \/ AskTakeBack(h, s) \/ AskDelete(h, s)
    \/ \E o \in Orgs, l \in Links : AskAccept(o, l)
    \/ \E u \in Users : AskRegister(u)
    \/ \E o \in Orgs : AskApprove(o) \/ AskReject(o) \/ AskRemove(o)

Turn ==
    \/ TurnCreate \/ TurnOffer \/ TurnTakeBack \/ TurnDelete \/ TurnErase \/ TurnAccept
    \/ TurnRegister \/ TurnApprove \/ TurnReject \/ TurnRemoveSystem \/ TurnRemove
    \/ TurnFails

CommandLine ==
    \/ \E s \in Systems, h \in Holders : CliCreate(s, h) \/ CliAssign(s, h)
    \/ \E s \in Systems : CliDelete(s)
    \/ \E o \in Orgs : CliOrgCreate(o) \/ CliApprove(o) \/ CliErase(o)

Next ==
    \/ Asking \/ Turn \/ CommandLine
    \/ \E s \in Systems : Record(s)
    \/ \E l \in Links : Expire(l)
    \/ Restart

Spec == Init /\ [][Next]_vars

-----------------------------------------------------------------------------
TypeOK ==
    /\ org \in [Orgs -> {"none", "waiting", "approved"}]
    /\ member \in [Users -> Orgs \cup {None}]
    /\ owner \in [Systems -> Holders \cup {Unborn, Deleted}]
    /\ recorded \subseteq Systems
    /\ linkOf \in [Links -> Systems \cup {None}]
    /\ linkState \in [Links -> {"unmade", "open", "used", "revoked", "gone"}]
    /\ expired \subseteq Links
    /\ queue \in Seq(Task)
    /\ Len(queue) <= MaxQueue

(* schema.ts 20-46: no system and no person is left to an organization that *)
(* is gone, whatever was waiting on the queue when it went.                 *)
NoOrphans ==
    /\ \A s \in Systems : owner[s] \in Orgs => Exists(owner[s])
    /\ \A u \in Users : member[u] # None => Exists(member[u])

(* store.ts 1147-1156 and schema.ts 289-306: a customer's system that       *)
(* recorded anything goes only with its whole organization; a request that  *)
(* began while the system was the operator's takes nothing of a customer's. *)
KeptUnlessErased ==
    [][\A s \in Systems :
        s \in recorded /\ owner[s] \in Orgs /\ owner'[s] = Deleted => org'[owner[s]] = "none"]_vars

(* store.ts 693-728 and 962-1052: Custody, with the links a system has open *)
(* as the ones that can be spent.                                           *)
Registry == INSTANCE Custody WITH
    holder <- owner,
    made <- {l \in Links : linkState[l] # "unmade"},
    open <- [s \in Systems |-> Open(s)]

ImplementsCustody == Registry!Spec
=============================================================================
