------------------------------ MODULE Evidence ------------------------------
(***************************************************************************)
(* From a chain to a verdict: checkpoints and their time-stamp tokens, the *)
(* archive an export makes of them (apps/server/src/export), and what      *)
(* sigillo-verify says of it, alone and against an earlier one             *)
(* (packages/verifier, packages/core/src/anchoring.ts).                    *)
(*                                                                         *)
(* The export command is a process of its own: each of its reads sees the  *)
(* database as it is then, and receipts, checkpoints, tokens and keys are  *)
(* added in between.  A receipt's hash is the chain up to it; signatures   *)
(* and authorities are honest; what ReceiptStore shows of the chain and of *)
(* the checkpoints (SealsCoverTheChain) is taken as it is here.            *)
(***************************************************************************)
EXTENDS Integers, Sequences, FiniteSets, SequencesExt

CONSTANTS
    RootOf(_), FrontierRootOf(_),                       \* of the entries of a tree (Merkle)
    PathOf(_, _), RootFromPath(_, _, _, _),
    None,
    MaxReceipts,    \* bound: receipts of the chain
    MaxSeals,       \* bound: checkpoints
    MaxKeys         \* bound: signing keys

VARIABLES
    chain,      \* table receipts: of each, the key and the authority's time
    keys,       \* table signing_keys: those numbered up to this, the last one in use
    seals,      \* table checkpoints, by id: size, root, key, its token
    clock,      \* the authority's time: how many tokens it has given
    asking,     \* timestampPending: the ids still to ask a token for, the first first
    reads,      \* what the export that is going on has read, or None
    archive,    \* the archive just made, or None
    previous    \* the archive of an earlier export, or None

vars == <<chain, keys, seals, clock, asking, reads, archive, previous>>

-----------------------------------------------------------------------------
(* The chain and its checkpoints. *)

Hashes(bodies) == [i \in 1..Len(bodies) |-> SubSeq(bodies, 1, i)]
Receipt(bodies, seq) == [seq |-> seq, prev |-> SubSeq(bodies, 1, seq), body |-> bodies[seq + 1]]
Window(bodies, from, to) == [i \in 1..(to - from + 1) |-> Receipt(bodies, from + i - 1)]
HashOf(receipt) == Append(receipt.prev, receipt.body)

SignedRoot(bodies) == FrontierRootOf(Hashes(bodies))

Bodies == [key : 1..MaxKeys, at : 0..MaxSeals]
Chains == UNION {[1..n -> Bodies] : n \in 0..MaxReceipts}

\* Another history: the receipt at one position is another one, and every
\* hash after it follows.
Other(bodies, seq) == [bodies EXCEPT ![seq + 1].at = MaxSeals + 1]

\* What is relied on of the trees: the signer's frontier has the root of the
\* tree, and a path proves the entry it was made for and none of another
\* history.
TreesHold ==
    \A bodies \in Chains :
        LET root == RootOf(Hashes(bodies))
            proves(history, seq) ==
                RootFromPath(SubSeq(history, 1, seq + 1), seq, Len(bodies),
                             PathOf(Hashes(bodies), seq)) = root
        IN  /\ FrontierRootOf(Hashes(bodies)) = root
            /\ \A seq \in 0..(Len(bodies) - 1) :
                /\ proves(bodies, seq)
                /\ \A changed \in 0..seq : ~proves(Other(bodies, changed), seq)

EvidenceConstants ==
    /\ MaxReceipts \in Nat /\ MaxSeals \in Nat /\ MaxKeys \in Nat \ {0}
    /\ TreesHold

Init ==
    /\ chain = <<>> /\ keys = 1
    /\ seals = <<>> /\ clock = 0 /\ asking = {}
    /\ reads = None /\ archive = None /\ previous = None

Write ==
    /\ Len(chain) < MaxReceipts
    /\ chain' = Append(chain, [key |-> keys, at |-> clock])
    /\ UNCHANGED <<keys, seals, clock, asking, reads, archive, previous>>

\* The server starts with another signing key, and records it before it serves.
NewKey ==
    /\ keys < MaxKeys
    /\ keys' = keys + 1
    /\ UNCHANGED <<chain, seals, clock, asking, reads, archive, previous>>

\* createCheckpoint: null when the last one covers as much.
Checkpoint ==
    /\ asking = {} /\ Len(seals) < MaxSeals
    /\ chain # <<>> /\ \A s \in ToSet(seals) : s.size < Len(chain)
    /\ seals' = Append(seals, [size |-> Len(chain), root |-> SignedRoot(chain), key |-> keys, token |-> 0])
    /\ UNCHANGED <<chain, keys, clock, asking, reads, archive, previous>>

\* checkpointsAwaitingTimestamp, those of earlier runs first.
AskForTokens ==
    /\ asking = {}
    /\ asking' = {id \in 1..Len(seals) : seals[id].token = 0}
    /\ asking' # {}
    /\ UNCHANGED <<chain, keys, seals, clock, reads, archive, previous>>

\* A token attests the root it was asked for, at the authority's time.
TokenArrives ==
    /\ asking # {}
    /\ clock' = clock + 1
    /\ seals' = [seals EXCEPT ![Min(asking)].token = clock']
    /\ asking' = asking \ {Min(asking)}
    /\ UNCHANGED <<chain, keys, reads, archive, previous>>

\* "The checkpoint stays, and stays in the queue for the next run."
TokenFails ==
    /\ asking # {}
    /\ asking' = asking \ {Min(asking)}
    /\ UNCHANGED <<chain, keys, seals, clock, reads, archive, previous>>

-----------------------------------------------------------------------------
(* archiveFromStore, one read at a time. *)

Stages == {"receipts", "checkpoints"}
Reading(stage) == reads # None /\ reads.stage = stage

\* The dates choose where the window starts and ends; without them it is the
\* whole chain.
ReadReceipts ==
    /\ reads = None
    /\ \E from \in 0..(Len(chain) - 1) : \E to \in from..(Len(chain) - 1) :
        reads' = [stage |-> "receipts", receipts |-> Window(chain, from, to), seals |-> <<>>]
    /\ UNCHANGED <<chain, keys, seals, clock, asking, archive, previous>>

\* readCheckpoints and readTimestamps of each, here at one time: a token that
\* comes between those reads is as one that came before them or after.
ReadCheckpoints ==
    /\ Reading("receipts")
    /\ reads' = [reads EXCEPT !.stage = "checkpoints", !.seals = seals]
    /\ UNCHANGED <<chain, keys, seals, clock, asking, archive, previous>>

-----------------------------------------------------------------------------
(* buildArchive. *)

FirstSeq(receipts) == Head(receipts).seq
LastSeq(receipts) == Last(receipts).seq

FaultFirstOnly(receipts, size) == {FirstSeq(receipts)}

\* The positions at which a checkpoint's tree and the receipts meet.
ProofPositions(receipts, size) ==
    LET inTree == {r.seq : r \in {x \in ToSet(receipts) : x.seq < size}} IN
    {p \in inTree : (\A q \in inTree : p <= q) \/ (\A q \in inTree : q <= p)}

FaultNewestOnly(all, receipts) ==
    {s \in ToSet(all) : s.size > FirstSeq(receipts) /\ \A t \in ToSet(all) : t.size <= s.size}

\* Every checkpoint that holds a receipt of the window, up to the first that
\* holds them all.
Relevant(all, receipts) ==
    {s \in ToSet(all) :
        /\ s.size > FirstSeq(receipts)
        /\ \A t \in ToSet(all) : t.size < s.size => t.size <= LastSeq(receipts)}

ProofOf(leaves, receipts, size, seq) ==
    [seq |-> seq,
     hash |-> HashOf(receipts[seq - FirstSeq(receipts) + 1]),
     path |-> PathOf(SubSeq(leaves, 1, size), seq)]

FaultOwnReceiptsOnly(leaves, receipts, size) ==
    IF FirstSeq(receipts) # 0 \/ Len(receipts) < size THEN {}
    ELSE {ProofOf(leaves, receipts, size, seq) : seq \in ProofPositions(receipts, size)}

\* A proof needs every leaf of the tree.
Proofs(leaves, receipts, size) ==
    IF Len(leaves) < size THEN {}
    ELSE {ProofOf(leaves, receipts, size, seq) : seq \in ProofPositions(receipts, size)}

Entry(seal, receipts, leaves) ==
    [size |-> seal.size, root |-> seal.root, key |-> seal.key, token |-> seal.token, imprint |-> seal.root,
     proofs |-> Proofs(leaves, receipts, seal.size)]

Archive(receipts, all, leaves, used) ==
    [receipts |-> receipts,
     entries |-> {Entry(s, receipts, leaves) : s \in Relevant(all, receipts)},
     keys |-> 1..used]

\* The hashes of the chain, then every key it has been signed with.
MakeArchive ==
    /\ Reading("checkpoints") /\ archive = None
    /\ archive' = Archive(reads.receipts, reads.seals, Hashes(chain), keys)
    /\ UNCHANGED <<chain, keys, seals, clock, asking, reads, previous>>

Keep ==
    /\ archive # None
    /\ previous' = archive /\ archive' = None /\ reads' = None
    /\ UNCHANGED <<chain, keys, seals, clock, asking>>

-----------------------------------------------------------------------------
(* sigillo-verify: verifyBundle, verifyTimestamps. *)

Rebuildable(pack, entry) == FirstSeq(pack.receipts) = 0 /\ Len(pack.receipts) >= entry.size
Linked(pack, entry) == Rebuildable(pack, entry) \/ entry.proofs # {}

ReceiptsOk(pack) ==
    LET rs == pack.receipts IN
    /\ rs # <<>>
    /\ \A i \in 1..Len(rs) : rs[i].seq = FirstSeq(rs) + i - 1 /\ rs[i].body.key \in pack.keys
    /\ FirstSeq(rs) = 0 => Head(rs).prev = <<>>
    /\ \A i \in 2..Len(rs) : rs[i].prev = HashOf(rs[i - 1])

RootOk(pack, entry) ==
    Rebuildable(pack, entry) =>
        entry.root = RootOf([i \in 1..entry.size |-> HashOf(pack.receipts[i])])

ProofOk(pack, entry, proof) ==
    \E r \in ToSet(pack.receipts) :
        /\ r.seq = proof.seq /\ HashOf(r) = proof.hash
        /\ RootFromPath(proof.hash, proof.seq, entry.size, proof.path) = entry.root

TokenOk(entry) == entry.token # 0 => entry.imprint = entry.root

\* What is looked at before the times are: the receipts, the checkpoints, the
\* digests of the tokens.
Intact(pack) ==
    /\ ReceiptsOk(pack)
    /\ \A entry \in pack.entries :
        /\ entry.key \in pack.keys /\ RootOk(pack, entry) /\ TokenOk(entry)
        /\ \A proof \in entry.proofs : ProofOk(pack, entry, proof)

\* summary.unanchored_receipts
Unanchored(pack) ==
    LET sizes == {e.size : e \in {x \in pack.entries : Linked(pack, x)}} IN
    IF sizes = {} THEN {}
    ELSE {r.seq : r \in {x \in ToSet(pack.receipts) : \A size \in sizes : size <= x.seq}}

-----------------------------------------------------------------------------
(* --previous: compareWithPrevious, compareAnchorsWithPrevious. *)

Follows(now, before) ==
    /\ LastSeq(now.receipts) >= LastSeq(before.receipts)
    /\ FirstSeq(now.receipts) <= LastSeq(before.receipts) + 1

SameReceipts(now, before) ==
    /\ \A r \in ToSet(now.receipts), q \in ToSet(before.receipts) : r.seq = q.seq => HashOf(r) = HashOf(q)
    /\ FirstSeq(now.receipts) = LastSeq(before.receipts) + 1 =>
            Head(now.receipts).prev = HashOf(Last(before.receipts))

SameAnchors(now, before) ==
    \A b \in before.entries :
        b.size > FirstSeq(now.receipts) =>
            \E n \in now.entries :
                /\ n.size = b.size /\ n.root = b.root /\ n.key = b.key
                /\ b.token # 0 => n.token = b.token

AcceptedAfter(now, before) == Follows(now, before) /\ SameReceipts(now, before) /\ SameAnchors(now, before)

-----------------------------------------------------------------------------
(* anchorTimes. *)

\* The checkpoints tied to the receipts and timestamped.
Proven(pack) == {e \in pack.entries : Linked(pack, e) /\ e.token # 0}

FaultOneTooMany(pack, e) ==
    {r \in ToSet(pack.receipts) :
        r.seq <= e.size /\ \A d \in Proven(pack) : d.size < e.size => r.seq > d.size}

\* The receipts of one of them that no smaller one holds.
RangeOf(pack, e) ==
    {r \in ToSet(pack.receipts) :
        r.seq < e.size /\ \A d \in Proven(pack) : d.size < e.size => r.seq >= d.size}

\* The earliest attested time of a tree that includes them.
ExistedBy(pack, e) == Min({d.token : d \in {x \in Proven(pack) : x.size >= e.size}})

\* anchor-time: none of them was received after it.  The server's clock and the
\* authority's agree here, to within --clock-tolerance.
ReceivedInTime(pack) ==
    \A e \in Proven(pack) : \A r \in RangeOf(pack, e) : r.body.at <= ExistedBy(pack, e)

\* anchor-order: each is compared with the latest of the smaller ones.
TimesGoForward(pack) ==
    \A d, e \in Proven(pack) : d.size < e.size => d.token <= e.token

\* sigillo-verify ends well.
Verifies(pack) == Intact(pack) /\ ReceivedInTime(pack) /\ TimesGoForward(pack)

-----------------------------------------------------------------------------
\* Nothing that comes later changes an archive: it is kept at once, for the
\* next one to be compared with.
Database ==
    /\ archive = None
    /\ Write \/ NewKey \/ Checkpoint \/ AskForTokens \/ TokenArrives \/ TokenFails

Export == ReadReceipts \/ ReadCheckpoints \/ MakeArchive \/ Keep

Next == Database \/ Export

Spec == Init /\ [][Next]_vars

-----------------------------------------------------------------------------
(* Every variable holds what its table, or the export's own, can hold. *)
TypeOK ==
    /\ chain \in Seq(Bodies) /\ Len(chain) <= MaxReceipts
    /\ keys \in 1..MaxKeys /\ clock \in 0..MaxSeals
    /\ Len(seals) <= MaxSeals
    /\ \A i \in 1..Len(seals) : seals[i].size \in 1..Len(chain) /\ seals[i].token \in 0..clock
    /\ asking \subseteq {id \in 1..Len(seals) : seals[id].token = 0}
    /\ reads # None => reads.stage \in Stages

\* The receipts that no checkpoint covered of those there were.
Uncovered(receipts, all) ==
    {r.seq : r \in {x \in ToSet(receipts) : \A s \in ToSet(all) : s.size <= x.seq}}

\* Every token was given before those over larger trees.
StampedInOrder(all) ==
    \A s, t \in ToSet(all) : s.size < t.size /\ s.token # 0 /\ t.token # 0 => s.token < t.token

(* archive.ts 58-63, 142-145: an archive of whatever is written while the   *)
(* export reads is intact, its receipts were received in time, every        *)
(* checkpoint it carries is tied to its receipts, and the receipts it calls *)
(* unanchored are those no checkpoint covered when the checkpoints were     *)
(* read.  It verifies unless a token was given after one over a larger tree.*)
ExportsVerify ==
    archive # None =>
        /\ Intact(archive) /\ ReceivedInTime(archive)
        /\ StampedInOrder(reads.seals) => Verifies(archive)
        /\ \A entry \in archive.entries : Linked(archive, entry)
        /\ archive.entries # {} => Unanchored(archive) = Uncovered(archive.receipts, reads.seals)

(* anchoring.ts 136: "by tree size, the attested times only go forward".  An *)
(* archive for which they do not is refused, without tolerance.  Of the      *)
(* archives of a chain nobody touched that is not so: a checkpoint whose     *)
(* token failed keeps its place in the queue (checkpointer.ts 117) while a   *)
(* larger one gets its own.                                                  *)
AttestedTimesGoForward == archive # None => TimesGoForward(archive)

-----------------------------------------------------------------------------
\* Archives cut short after they were made: receipts left out at the end, a
\* checkpoint or a token left out, with the manifest made to match.
Shorter(pack) == {[pack EXCEPT !.receipts = SubSeq(@, 1, n)] : n \in 1..Len(pack.receipts)}
WithoutEntry(pack) == {[pack EXCEPT !.entries = @ \ {e}] : e \in pack.entries}
WithoutToken(pack) ==
    {[pack EXCEPT !.entries = (@ \ {e}) \cup {[e EXCEPT !.token = 0]}] : e \in pack.entries}
Copies(pack) == {pack} \cup Shorter(pack) \cup WithoutEntry(pack) \cup WithoutToken(pack)

Anchors(pack, from) == {<<e.size, e.root, e.token>> : e \in {x \in pack.entries : x.size > from}}

\* What was in one archive from a position on is in the other, a token that
\* has come since aside.
StillHolds(now, before) ==
    LET from == FirstSeq(now.receipts) IN
    /\ {r \in ToSet(before.receipts) : r.seq >= from} \subseteq ToSet(now.receipts)
    /\ \A a \in Anchors(before, from) :
        a \in Anchors(now, from) \/ (a[3] = 0 /\ \E b \in Anchors(now, from) : b[1] = a[1] /\ b[2] = a[2])

(* verify.ts 652-662, 725-731: of two exports of one chain, the later one   *)
(* passes the comparison with the earlier one wherever their windows meet,  *)
(* and a copy of it does only while it holds all that the earlier one did,  *)
(* whatever is said of its times.                                           *)
PreviousDecides ==
    archive # None /\ previous # None =>
        /\ Follows(archive, previous) => AcceptedAfter(archive, previous)
        /\ \A copy \in Copies(archive) :
            AcceptedAfter(copy, previous) /\ Intact(copy) => StillHolds(copy, previous)

-----------------------------------------------------------------------------
\* The archive as another history would make it.  Its checkpoints are signed again
\* and proved again, but for those with a token, which is over their root.
Rewritten(pack, bodies) ==
    LET receipts == Window(bodies, FirstSeq(pack.receipts), LastSeq(pack.receipts))
        again(e) == Entry([size |-> e.size, root |-> SignedRoot(SubSeq(bodies, 1, e.size)), key |-> e.key, token |-> 0],
                          receipts, Hashes(bodies))
        asItWas(e) == [e EXCEPT !.proofs = {[p EXCEPT !.hash = HashOf(receipts[p.seq - FirstSeq(receipts) + 1])] : p \in @}]
    IN  [pack EXCEPT
            !.receipts = receipts,
            !.entries = {IF e.token = 0 THEN again(e) ELSE asItWas(e) : e \in @}]

(* archive.ts 91-95: the proofs of the first and the last receipt in its    *)
(* tree tie the whole range to a checkpoint: no archive of another history  *)
(* is intact with a token that was given over the receipt it changed, even  *)
(* before its times are looked at.                                          *)
SealedReceiptsStand ==
    archive # None =>
        \A seq \in 0..LastSeq(archive.receipts) :
            (\E e \in archive.entries : e.token # 0 /\ seq < e.size) =>
                ~Intact(Rewritten(archive, Other(chain, seq)))

(* anchoring.ts 7-12, 151-162: a receipt was recorded before the time the   *)
(* report says it existed by, and every receipt a token covers is given one,*)
(* in whatever order the tokens came.                                       *)
ProvenTimesAreTrue ==
    archive # None =>
        /\ \A e \in Proven(archive) : \A r \in RangeOf(archive, e) : r.body.at < ExistedBy(archive, e)
        /\ \A r \in ToSet(archive.receipts) :
            (\E e \in archive.entries : e.token # 0 /\ r.seq < e.size)
                => \E e \in Proven(archive) : r \in RangeOf(archive, e)
=============================================================================
