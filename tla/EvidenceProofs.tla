---------------------------- MODULE EvidenceProofs --------------------------
(***************************************************************************)
(* What an export and its verification promise, for every chain, window,   *)
(* set of checkpoints and order of their tokens.                           *)
(*                                                                         *)
(* Everything an archive holds is a function of four things: the chain,    *)
(* the window that was read of it, the seals that were read after, and how *)
(* many keys there are.  So the lemmas are of such an archive (Pack),      *)
(* whatever seals of the chain it is made of (SealsOf): it verifies, it    *)
(* counts what no seal covers, no other history passes for it, its times   *)
(* are true.  The invariant says that the database and the export's reads  *)
(* are of that kind, and that what was read or kept before stands in what  *)
(* there is now (Stand): the chain only grows, seals only gain tokens and  *)
(* larger seals.                                                           *)
(*                                                                         *)
(* What is relied on of the trees is TreesHold, of EvidenceConstants.      *)
(***************************************************************************)
EXTENDS Evidence, Prefixes, FiniteSetTheorems

-----------------------------------------------------------------------------
(* Windows of a chain. *)

\* What was read of a chain is a window of it.
WindowOf(receipts, bodies) ==
    \E from \in 0..(Len(bodies) - 1) : \E to \in from..(Len(bodies) - 1) :
        receipts = Window(bodies, from, to)

(* A receipt's hash is the chain up to it, and it names the hash before it. *)
LEMMA ReceiptHash ==
    ASSUME NEW S, NEW bodies \in Seq(S), NEW seq \in 0..(Len(bodies) - 1)
    PROVE  /\ Receipt(bodies, seq).seq = seq
           /\ Receipt(bodies, seq).body = bodies[seq + 1]
           /\ Receipt(bodies, seq).prev = SubSeq(bodies, 1, seq)
           /\ HashOf(Receipt(bodies, seq)) = SubSeq(bodies, 1, seq + 1)
           /\ seq = 0 => Receipt(bodies, seq).prev = <<>>
           /\ seq > 0 => Receipt(bodies, seq).prev = HashOf(Receipt(bodies, seq - 1))
<1>1. \A n \in 0..(Len(bodies) - 1) :
        Append(SubSeq(bodies, 1, n), bodies[n + 1]) = SubSeq(bodies, 1, n + 1)
  <2> TAKE n \in 0..(Len(bodies) - 1)
  <2>1. /\ SubSeq(bodies, 1, n) \in Seq(S) /\ Len(SubSeq(bodies, 1, n)) = n
        /\ \A i \in 1..n : SubSeq(bodies, 1, n)[i] = bodies[i]
    BY SMT
  <2>2. /\ SubSeq(bodies, 1, n + 1) \in Seq(S) /\ Len(SubSeq(bodies, 1, n + 1)) = n + 1
        /\ \A i \in 1..(n + 1) : SubSeq(bodies, 1, n + 1)[i] = bodies[i]
    BY SMT
  <2>3. bodies[n + 1] \in S
    BY SMT
  <2> DEFINE s == Append(SubSeq(bodies, 1, n), bodies[n + 1])
  <2>4. s \in Seq(S) /\ Len(s) = n + 1 /\ \A i \in 1..(n + 1) : s[i] = bodies[i]
    BY <2>1, <2>3, SMT
  <2> QED
    BY <2>2, <2>4, SeqEqual
<1>2. \A n \in 0..(Len(bodies) - 1) : HashOf(Receipt(bodies, n)) = SubSeq(bodies, 1, n + 1)
    BY <1>1 DEF HashOf, Receipt
<1>3. seq > 0 => seq - 1 \in 0..(Len(bodies) - 1) /\ (seq - 1) + 1 = seq
    BY SMT
<1>4. SubSeq(bodies, 1, 0) = <<>>
    BY SMT
<1> QED
    BY <1>2, <1>3, <1>4 DEF Receipt

(* The positions of a window, and its receipts. *)
LEMMA WindowReceipts ==
    ASSUME NEW S, NEW bodies \in Seq(S),
           NEW from \in 0..(Len(bodies) - 1), NEW to \in from..(Len(bodies) - 1)
    PROVE  LET w == Window(bodies, from, to) IN
           /\ Len(w) = to - from + 1 /\ DOMAIN w = 1..(to - from + 1)
           /\ \A i \in 1..Len(w) : w[i] = Receipt(bodies, from + i - 1)
           /\ w # <<>>
           /\ FirstSeq(w) = from /\ LastSeq(w) = to
           /\ Head(w) = Receipt(bodies, from) /\ Last(w) = Receipt(bodies, to)
           /\ ToSet(w) = {Receipt(bodies, seq) : seq \in from..to}
<1> DEFINE w == Window(bodies, from, to)
<1>1. Len(w) = to - from + 1 /\ DOMAIN w = 1..(to - from + 1)
  <2>1. to - from + 1 \in Nat
    BY SMT
  <2>2. DOMAIN w = 1..(to - from + 1)
    BY DEF Window
  <2> QED
    BY <2>1, <2>2 DEF Window
<1>2. \A i \in 1..Len(w) : w[i] = Receipt(bodies, from + i - 1)
    BY <1>1 DEF Window
<1>3. Head(w) = w[1] /\ Last(w) = w[Len(w)]
  <2> DEFINE W == {w[i] : i \in 1..(to - from + 1)}
  <2>1. w \in Seq(W)
    <3>1. w \in [1..(to - from + 1) -> W] /\ to - from + 1 \in Nat
      BY <1>1 DEF Window
    <3> HIDE DEF w, W
    <3> QED
      BY <3>1, SMT
  <2> HIDE DEF w
  <2> QED
    BY <1>1, <2>1 DEF Last
<1>4. w[1] = Receipt(bodies, from) /\ w[Len(w)] = Receipt(bodies, to)
  <2>1. 1 \in 1..Len(w) /\ Len(w) \in 1..Len(w) /\ from + 1 - 1 = from /\ from + Len(w) - 1 = to
    BY <1>1, SMT
  <2> HIDE DEF w
  <2> QED
    BY <1>2, <2>1
<1>5. ToSet(w) = {Receipt(bodies, seq) : seq \in from..to}
  <2>1. ASSUME NEW seq \in from..to
        PROVE  \E i \in DOMAIN w : w[i] = Receipt(bodies, seq)
    <3>1. seq - from + 1 \in 1..Len(w) /\ from + (seq - from + 1) - 1 = seq
      BY <1>1, SMT
    <3> HIDE DEF w
    <3> QED
      BY <1>1, <1>2, <3>1
  <2>2. ASSUME NEW i \in DOMAIN w
        PROVE  \E seq \in from..to : w[i] = Receipt(bodies, seq)
    <3>1. from + i - 1 \in from..to
      BY <1>1, SMT
    <3> HIDE DEF w
    <3> QED
      BY <1>1, <1>2, <3>1
  <2> HIDE DEF w
  <2> QED
    BY <2>1, <2>2 DEF ToSet
<1>6. w # <<>>
    BY <1>1, SMT
<1> HIDE DEF w
<1>7. FirstSeq(w) = from /\ LastSeq(w) = to
    BY <1>3, <1>4 DEF FirstSeq, LastSeq, Receipt
<1> QED
    BY <1>1, <1>2, <1>3, <1>4, <1>5, <1>6, <1>7 DEF w

(* Its receipts alone. *)
LEMMA WindowSet ==
    ASSUME NEW S, NEW bodies \in Seq(S),
           NEW from \in 0..(Len(bodies) - 1), NEW to \in from..(Len(bodies) - 1)
    PROVE  ToSet(Window(bodies, from, to)) = {Receipt(bodies, seq) : seq \in from..to}
  BY WindowReceipts

-----------------------------------------------------------------------------
(* Seals of a chain. *)

SealRecords ==
    [size : 1..MaxReceipts, root : {SignedRoot(b) : b \in Chains}, key : 1..MaxKeys, token : 0..MaxSeals]

\* A checkpoint is of the chain, and its token came after what it covers.
SealOf(s, bodies) ==
    /\ s.size <= Len(bodies)
    /\ s.root = SignedRoot(SubSeq(bodies, 1, s.size))
    /\ s.token # 0 => \A i \in 1..s.size : bodies[i].at < s.token

\* Checkpoints as they were made, each of more receipts than the one before.
SealsOf(list, bodies, used) ==
    /\ list \in Seq(SealRecords)
    /\ \A i \in 1..Len(list) : SealOf(list[i], bodies) /\ list[i].key <= used
    /\ \A i, j \in 1..Len(list) : i < j => list[i].size < list[j].size

(* A checkpoint's size is a number. *)
LEMMA SealSizes == ASSUME MaxReceipts \in Nat, NEW s \in SealRecords PROVE s.size \in Nat
  BY DEF SealRecords

(* Of what a checkpoint covers: its hashes are the first of the chain's. *)
LEMMA PartOfChain ==
    ASSUME NEW bodies \in Seq(Bodies), Len(bodies) <= MaxReceipts, MaxReceipts \in Nat,
           NEW n \in 0..Len(bodies)
    PROVE  LET part == SubSeq(bodies, 1, n) IN
           /\ part \in Chains /\ part \in Seq(Bodies) /\ Len(part) = n
           /\ \A i \in 1..n : part[i] = bodies[i]
           /\ \A i \in 0..n : SubSeq(part, 1, i) = SubSeq(bodies, 1, i)
           /\ Hashes(part) = SubSeq(Hashes(bodies), 1, n)
           /\ Len(Hashes(bodies)) = Len(bodies)
<1> DEFINE part == SubSeq(bodies, 1, n)
<1>1. part \in Seq(Bodies) /\ Len(part) = n /\ \A i \in 1..n : part[i] = bodies[i]
  BY SMT
<1>2. part \in Chains
  <2>1. part \in [1..n -> Bodies] /\ n \in 0..MaxReceipts
    <3> HIDE DEF part
    <3> QED
      BY <1>1, SMT
  <2> HIDE DEF part
  <2> QED
    BY <2>1 DEF Chains
<1>3. \A i \in 0..n : SubSeq(part, 1, i) = SubSeq(bodies, 1, i)
  <2> HIDE DEF part
  <2> TAKE i \in 0..n
  <2>1. /\ SubSeq(part, 1, i) \in Seq(Bodies) /\ Len(SubSeq(part, 1, i)) = i
        /\ \A k \in 1..i : SubSeq(part, 1, i)[k] = part[k]
    BY <1>1, SMT
  <2>2. /\ SubSeq(bodies, 1, i) \in Seq(Bodies) /\ Len(SubSeq(bodies, 1, i)) = i
        /\ \A k \in 1..i : SubSeq(bodies, 1, i)[k] = bodies[k]
    BY SMT
  <2>3. \A k \in 1..i : k \in 1..n
    BY SMT
  <2> QED
    BY <1>1, <2>1, <2>2, <2>3, SeqEqual
<1>4. Len(Hashes(bodies)) = Len(bodies)
  <2>1. DOMAIN Hashes(bodies) = 1..Len(bodies) /\ Len(bodies) \in Nat
    BY DEF Hashes
  <2> QED
    BY <2>1 DEF Hashes
<1>5. Hashes(part) = SubSeq(Hashes(bodies), 1, n)
  <2> DEFINE h == Hashes(bodies)
             T == {SubSeq(bodies, 1, i) : i \in 1..Len(bodies)}
  <2>1. h \in Seq(T)
    <3>1. h \in [1..Len(bodies) -> T] /\ Len(bodies) \in Nat
      BY DEF Hashes
    <3> HIDE DEF h, T
    <3> QED
      BY <3>1, SMT
  <2>2. /\ SubSeq(h, 1, n) \in Seq(T) /\ Len(SubSeq(h, 1, n)) = n
        /\ \A i \in 1..n : SubSeq(h, 1, n)[i] = h[i]
    <3> HIDE DEF h, T
    <3> QED
      BY <1>4, <2>1, SMT DEF h
  <2>3. \A i \in 1..n : h[i] = SubSeq(bodies, 1, i)
    BY DEF Hashes
  <2>4. \A i \in 1..n : Hashes(part)[i] = SubSeq(bodies, 1, i)
    BY <1>1, <1>3 DEF Hashes
  <2>5. Hashes(part) \in Seq(T) /\ Len(Hashes(part)) = n
    <3>1. Hashes(part) = [i \in 1..n |-> SubSeq(part, 1, i)]
      BY <1>1 DEF Hashes
    <3>2. \A i \in 1..n : SubSeq(part, 1, i) \in T
      BY <1>3
    <3> HIDE DEF part, T
    <3>3. Hashes(part) \in [1..n -> T] /\ n \in Nat
      BY <3>1, <3>2, SMT
    <3> QED
      BY <3>1, <3>3, SMT
  <2> HIDE DEF part, h, T
  <2> QED
    BY <2>2, <2>3, <2>4, <2>5, SeqEqual DEF h
<1> QED
  BY <1>1, <1>2, <1>3, <1>4, <1>5

(* The positions an archive proves: the first of the window, and the last   *)
(* of it that the tree holds.                                               *)
LEMMA PositionsOfWindow ==
    ASSUME NEW S, NEW bodies \in Seq(S),
           NEW from \in 0..(Len(bodies) - 1), NEW to \in from..(Len(bodies) - 1),
           NEW size \in Nat, from < size
    PROVE  \E last \in from..to :
            /\ ProofPositions(Window(bodies, from, to), size) = {from, last}
            /\ last < size /\ \A seq \in from..to : seq < size => seq <= last
<1> DEFINE w == Window(bodies, from, to)
           last == IF size - 1 < to THEN size - 1 ELSE to
           inTree == {r.seq : r \in {x \in ToSet(w) : x.seq < size}}
<1>1. inTree = {seq \in from..to : seq < size}
  <2>1. ToSet(w) = {Receipt(bodies, seq) : seq \in from..to}
    BY WindowReceipts
  <2>2. \A seq \in from..to : Receipt(bodies, seq).seq = seq
    BY DEF Receipt
  <2> HIDE DEF w
  <2> QED
    BY <2>1, <2>2
<1>2. last \in from..to /\ last < size /\ \A seq \in from..to : seq < size => seq <= last
  BY SMT
<1>3. {p \in inTree : (\A q \in inTree : p <= q) \/ (\A q \in inTree : q <= p)} = {from, last}
  <2> HIDE DEF inTree, last
  <2>1. from \in inTree /\ \A q \in inTree : from <= q
    BY <1>1, SMT
  <2>2. last \in inTree /\ \A q \in inTree : q <= last
    BY <1>1, <1>2, SMT
  <2>3. ASSUME NEW p \in inTree
        PROVE  /\ (\A q \in inTree : p <= q) => p = from
               /\ (\A q \in inTree : q <= p) => p = last
    <3>1. p \in Int /\ from <= p /\ p <= last /\ last \in Int
      BY <1>1, <1>2, <2>1, <2>2, SMT
    <3> QED
      BY <2>1, <2>2, <3>1, SMT
  <2> DEFINE ends == {p \in inTree : (\A q \in inTree : p <= q) \/ (\A q \in inTree : q <= p)}
  <2>4. from \in ends /\ last \in ends
    BY <2>1, <2>2, Zenon
  <2>5. \A p \in ends : p = from \/ p = last
    BY <2>3, Zenon
  <2> HIDE DEF ends
  <2>6. ends = {from, last}
    BY <2>4, <2>5
  <2> QED
    BY <2>6 DEF ends
<1> QED
  BY <1>2, <1>3 DEF ProofPositions

-----------------------------------------------------------------------------
(* An archive, of whatever seals were read, with the whole chain's hashes. *)

Pack(bodies, from, to, all, used) == Archive(Window(bodies, from, to), all, Hashes(bodies), used)

(* What the trees give of the part of a chain that a checkpoint covers. *)
LEMMA TreeOfPart ==
    ASSUME EvidenceConstants, NEW bodies \in Seq(Bodies), Len(bodies) <= MaxReceipts,
           NEW n \in 1..Len(bodies)
    PROVE  LET part == SubSeq(bodies, 1, n)
               path(seq) == PathOf(SubSeq(Hashes(bodies), 1, n), seq)
           IN
           /\ SignedRoot(part) = RootOf(Hashes(part))
           /\ \A seq \in 0..(n - 1) :
                /\ RootFromPath(SubSeq(bodies, 1, seq + 1), seq, n, path(seq)) = SignedRoot(part)
                /\ \A changed \in 0..seq :
                    RootFromPath(SubSeq(Other(part, changed), 1, seq + 1), seq, n, path(seq))
                        # SignedRoot(part)
<1> DEFINE part == SubSeq(bodies, 1, n)
<1>1. /\ part \in Chains /\ Len(part) = n /\ Hashes(part) = SubSeq(Hashes(bodies), 1, n)
      /\ \A i \in 0..n : SubSeq(part, 1, i) = SubSeq(bodies, 1, i)
  <2>1. n \in 0..Len(bodies) /\ MaxReceipts \in Nat
    BY DEF EvidenceConstants
  <2> QED
    BY <2>1, PartOfChain
<1> HIDE DEF part
<1>2. /\ FrontierRootOf(Hashes(part)) = RootOf(Hashes(part))
      /\ \A seq \in 0..(Len(part) - 1) :
           /\ RootFromPath(SubSeq(part, 1, seq + 1), seq, Len(part),
                                      PathOf(Hashes(part), seq)) = RootOf(Hashes(part))
           /\ \A changed \in 0..seq :
                RootFromPath(SubSeq(Other(part, changed), 1, seq + 1), seq, Len(part),
                                       PathOf(Hashes(part), seq)) # RootOf(Hashes(part))
  BY <1>1, Zenon DEF EvidenceConstants, TreesHold
<1>3. SignedRoot(part) = RootOf(Hashes(part))
  BY <1>2 DEF SignedRoot
<1>4. \A seq \in 0..(n - 1) : SubSeq(part, 1, seq + 1) = SubSeq(bodies, 1, seq + 1)
  <2>1. \A seq \in 0..(n - 1) : seq + 1 \in 0..n
    BY SMT
  <2> QED
    BY <1>1, <2>1
<1>5. \A seq \in 0..(n - 1) :
        /\ RootFromPath(SubSeq(bodies, 1, seq + 1), seq, n,
                                  PathOf(SubSeq(Hashes(bodies), 1, n), seq)) = SignedRoot(part)
        /\ \A changed \in 0..seq :
            RootFromPath(SubSeq(Other(part, changed), 1, seq + 1), seq, n,
                                   PathOf(SubSeq(Hashes(bodies), 1, n), seq)) # SignedRoot(part)
  <2> TAKE seq \in 0..(n - 1)
  <2>1. seq \in 0..(Len(part) - 1)
    BY <1>1
  <2> QED
    BY <1>1, <1>2, <1>3, <1>4, <2>1
<1> QED
  BY <1>3, <1>5 DEF part

(* A proof an archive carries. *)
LEMMA ProofParts ==
    ASSUME NEW S, NEW bodies \in Seq(S),
           NEW from \in 0..(Len(bodies) - 1), NEW to \in from..(Len(bodies) - 1),
           NEW seq \in from..to, NEW leaves, NEW size
    PROVE  LET p == ProofOf(leaves, Window(bodies, from, to), size, seq) IN
           /\ p = [seq |-> seq, hash |-> SubSeq(bodies, 1, seq + 1),
                   path |-> PathOf(SubSeq(leaves, 1, size), seq)]
           /\ Window(bodies, from, to)[seq - from + 1] = Receipt(bodies, seq)
<1> DEFINE w == Window(bodies, from, to)
<1>1. FirstSeq(w) = from /\ w[seq - from + 1] = Receipt(bodies, from + (seq - from + 1) - 1)
  <2>1. seq - from + 1 \in 1..(to - from + 1)
    BY SMT
  <2>2. /\ Len(w) = to - from + 1 /\ FirstSeq(w) = from
        /\ \A i \in 1..Len(w) : w[i] = Receipt(bodies, from + i - 1)
    BY WindowReceipts
  <2> HIDE DEF w
  <2> QED
    BY <2>1, <2>2
<1>2. from + (seq - from + 1) - 1 = seq /\ seq \in 0..(Len(bodies) - 1)
  BY SMT
<1>3. HashOf(Receipt(bodies, seq)) = SubSeq(bodies, 1, seq + 1)
  BY <1>2, ReceiptHash
<1> HIDE DEF w
<1> QED
  BY <1>1, <1>2, <1>3 DEF ProofOf, w

(* The entries of an archive are of the seals it was made of. *)
LEMMA EntryParts ==
    ASSUME EvidenceConstants, NEW bodies \in Seq(Bodies), Len(bodies) <= MaxReceipts,
           NEW from \in 0..(Len(bodies) - 1), NEW to \in from..(Len(bodies) - 1),
           NEW all, NEW used, SealsOf(all, bodies, used),
           NEW s \in Relevant(all, Window(bodies, from, to))
    PROVE  LET e == Entry(s, Window(bodies, from, to), Hashes(bodies)) IN
           /\ s \in SealRecords /\ s \in ToSet(all) /\ SealOf(s, bodies) /\ s.key <= used
           /\ s.size \in 1..Len(bodies) /\ from < s.size
           /\ e.size = s.size /\ e.root = s.root /\ e.key = s.key /\ e.token = s.token /\ e.imprint = s.root
<1> DEFINE w == Window(bodies, from, to)
           e == Entry(s, w, Hashes(bodies))
<1>1. FirstSeq(w) = from
  BY WindowReceipts
<1> HIDE DEF w
<1>2. s \in ToSet(all) /\ s.size > from
  BY <1>1 DEF Relevant, w
<1>3. s \in SealRecords /\ SealOf(s, bodies) /\ s.key <= used
  <2>1. PICK i \in DOMAIN all : s = all[i]
    BY <1>2 DEF ToSet
  <2>2. all \in Seq(SealRecords) /\ \A k \in 1..Len(all) : SealOf(all[k], bodies) /\ all[k].key <= used
    BY DEF SealsOf
  <2>3. DOMAIN all = 1..Len(all) /\ \A k \in 1..Len(all) : all[k] \in SealRecords
    BY <2>2, SMT
  <2> QED
    BY <2>1, <2>2, <2>3
<1>4. s.size \in 1..Len(bodies) /\ from < s.size
  <2>1. s.size \in 1..MaxReceipts /\ s.size <= Len(bodies) /\ MaxReceipts \in Nat
    BY <1>3 DEF SealRecords, SealOf, EvidenceConstants
  <2> QED
    BY <1>2, <2>1, SMT
<1>5. /\ e.size = s.size /\ e.root = s.root /\ e.key = s.key /\ e.token = s.token /\ e.imprint = s.root
  BY DEF Entry
<1> HIDE DEF e
<1> QED
  BY <1>2, <1>3, <1>4, <1>5 DEF e, w

(* The proofs of an entry, of two positions: the last of them is the last of *)
(* the window that the tree holds.                                           *)
LEMMA EntryProofs ==
    ASSUME EvidenceConstants, NEW bodies \in Seq(Bodies), Len(bodies) <= MaxReceipts,
           NEW from \in 0..(Len(bodies) - 1), NEW to \in from..(Len(bodies) - 1),
           NEW all, NEW used, SealsOf(all, bodies, used),
           NEW s \in Relevant(all, Window(bodies, from, to))
    PROVE  \E last \in from..to :
            /\ last < s.size
            /\ \A seq \in from..to : seq < s.size => seq <= last
            /\ Entry(s, Window(bodies, from, to), Hashes(bodies)).proofs
                = {ProofOf(Hashes(bodies), Window(bodies, from, to), s.size, seq) : seq \in {from, last}}
<1> DEFINE w == Window(bodies, from, to)
           e == Entry(s, w, Hashes(bodies))
<1>1. s.size \in 1..Len(bodies) /\ from < s.size
  BY EntryParts
<1> HIDE DEF w
<1>2. Len(Hashes(bodies)) = Len(bodies)
  <2>1. 0 \in 0..Len(bodies) /\ MaxReceipts \in Nat
    BY DEF EvidenceConstants
  <2> QED
    BY <2>1, PartOfChain
<1>3. e.proofs = {ProofOf(Hashes(bodies), w, s.size, seq) : seq \in ProofPositions(w, s.size)}
  <2>1. ~(Len(Hashes(bodies)) < s.size)
    BY <1>1, <1>2, SMT
  <2> QED
    BY <2>1, Zenon DEF Entry, Proofs
<1>4. PICK last \in from..to :
        /\ ProofPositions(w, s.size) = {from, last}
        /\ last < s.size /\ \A seq \in from..to : seq < s.size => seq <= last
  <2>1. s.size \in Nat
    BY <1>1
  <2> QED
    BY <1>1, <2>1, PositionsOfWindow DEF w
<1> HIDE DEF e
<1> QED
  BY <1>3, <1>4 DEF e, w

(* The receipts of a window, rebuilt from their hashes. *)
LEMMA RebuiltHashes ==
    ASSUME NEW bodies \in Seq(Bodies), NEW to \in 0..(Len(bodies) - 1), NEW n \in 1..(to + 1)
    PROVE  [i \in 1..n |-> HashOf(Window(bodies, 0, to)[i])] = Hashes(SubSeq(bodies, 1, n))
<1> DEFINE w == Window(bodies, 0, to)
           part == SubSeq(bodies, 1, n)
<1>1. part \in Seq(Bodies) /\ Len(part) = n /\ \A i \in 1..n : part[i] = bodies[i]
  BY SMT
<1>2. \A i \in 1..n : HashOf(w[i]) = SubSeq(bodies, 1, i)
  <2> TAKE i \in 1..n
  <2>1. 0 \in 0..(Len(bodies) - 1) /\ to \in 0..(Len(bodies) - 1)
    BY SMT
  <2>2. Len(w) = to - 0 + 1 /\ \A k \in 1..Len(w) : w[k] = Receipt(bodies, 0 + k - 1)
    BY <2>1, WindowReceipts
  <2>3. i - 1 \in 0..(Len(bodies) - 1) /\ (i - 1) + 1 = i /\ 0 + i - 1 = i - 1 /\ i \in 1..(to - 0 + 1)
    BY SMT
  <2>4. HashOf(Receipt(bodies, i - 1)) = SubSeq(bodies, 1, (i - 1) + 1)
    BY <2>3, ReceiptHash
  <2> HIDE DEF w
  <2> QED
    BY <2>2, <2>3, <2>4
<1>3. \A i \in 1..n : SubSeq(part, 1, i) = SubSeq(bodies, 1, i)
  <2> TAKE i \in 1..n
  <2> HIDE DEF part
  <2>1. /\ SubSeq(part, 1, i) \in Seq(Bodies) /\ Len(SubSeq(part, 1, i)) = i
        /\ \A k \in 1..i : SubSeq(part, 1, i)[k] = part[k]
    BY <1>1, SMT
  <2>2. /\ SubSeq(bodies, 1, i) \in Seq(Bodies) /\ Len(SubSeq(bodies, 1, i)) = i
        /\ \A k \in 1..i : SubSeq(bodies, 1, i)[k] = bodies[k]
    BY SMT
  <2>3. \A k \in 1..i : k \in 1..n
    BY SMT
  <2> QED
    BY <1>1, <2>1, <2>2, <2>3, SeqEqual
<1> HIDE DEF w, part
<1> QED
  BY <1>1, <1>2, <1>3 DEF Hashes, w, part

(* An archive is intact, whatever seals of the chain it was made of. *)
LEMMA PackIntact ==
    ASSUME EvidenceConstants, NEW bodies \in Seq(Bodies), Len(bodies) <= MaxReceipts,
           NEW from \in 0..(Len(bodies) - 1), NEW to \in from..(Len(bodies) - 1),
           NEW all, NEW used \in Nat, SealsOf(all, bodies, used),
           \A i \in 1..Len(bodies) : bodies[i].key <= used
    PROVE  LET pack == Pack(bodies, from, to, all, used) IN
           Intact(pack) /\ \A e \in pack.entries : Linked(pack, e)
<1> DEFINE w == Window(bodies, from, to)
           pack == Pack(bodies, from, to, all, used)
<1>1. pack.receipts = w /\ pack.keys = 1..used
      /\ pack.entries = {Entry(s, w, Hashes(bodies)) : s \in Relevant(all, w)}
  BY DEF Pack, Archive
<1>2. /\ Len(w) = to - from + 1 /\ DOMAIN w = 1..(to - from + 1)
      /\ \A i \in 1..Len(w) : w[i] = Receipt(bodies, from + i - 1)
      /\ w # <<>> /\ FirstSeq(w) = from /\ LastSeq(w) = to /\ Head(w) = Receipt(bodies, from)
      /\ ToSet(w) = {Receipt(bodies, seq) : seq \in from..to}
  BY WindowReceipts
<1> HIDE DEF w, pack
<1>3. ReceiptsOk(pack)
  <2>1. ASSUME NEW i \in 1..Len(w)
        PROVE  w[i].seq = FirstSeq(w) + i - 1 /\ w[i].body.key \in pack.keys
    <3>1. from + i - 1 \in 0..(Len(bodies) - 1) /\ (from + i - 1) + 1 \in 1..Len(bodies)
      BY <1>2, SMT
    <3>2. bodies[(from + i - 1) + 1].key \in 1..used
      <4>1. bodies[(from + i - 1) + 1] \in Bodies
        BY <3>1, SMT
      <4>2. bodies[(from + i - 1) + 1].key <= used
        BY <3>1
      <4>3. bodies[(from + i - 1) + 1].key \in 1..MaxKeys /\ MaxKeys \in Nat
        BY <4>1 DEF Bodies, EvidenceConstants
      <4> QED
        BY <4>2, <4>3, SMT
    <3>3. w[i].seq = from + i - 1 /\ w[i].body = bodies[(from + i - 1) + 1]
      <4>1. w[i] = Receipt(bodies, from + i - 1)
        BY <1>2
      <4> QED
        BY <4>1 DEF Receipt
    <3> QED
      BY <1>1, <1>2, <3>2, <3>3
  <2>2. FirstSeq(w) = 0 => Head(w).prev = <<>>
    <3>1. from = 0 => Receipt(bodies, from).prev = <<>>
      BY ReceiptHash
    <3> QED
      BY <1>2, <3>1
  <2>3. ASSUME NEW i \in 2..Len(w)
        PROVE  w[i].prev = HashOf(w[i - 1])
    <3>1. /\ i - 1 \in 1..Len(w) /\ i \in 1..Len(w)
          /\ from + i - 1 \in 0..(Len(bodies) - 1) /\ from + i - 1 > 0
          /\ (from + i - 1) - 1 = from + (i - 1) - 1
      BY <1>2, SMT
    <3>2. Receipt(bodies, from + i - 1).prev = HashOf(Receipt(bodies, (from + i - 1) - 1))
      BY <3>1, ReceiptHash
    <3> QED
      BY <1>2, <3>1, <3>2
  <2> QED
    BY <1>1, <1>2, <2>1, <2>2, <2>3 DEF ReceiptsOk
<1>4. ASSUME NEW e \in pack.entries
      PROVE  /\ e.key \in pack.keys /\ RootOk(pack, e) /\ TokenOk(e)
             /\ \A proof \in e.proofs : ProofOk(pack, e, proof)
             /\ Linked(pack, e)
  <2>1. PICK s \in Relevant(all, w) : e = Entry(s, w, Hashes(bodies))
    BY <1>1
  <2>2. /\ s \in SealRecords /\ SealOf(s, bodies) /\ s.key <= used
        /\ s.size \in 1..Len(bodies) /\ from < s.size
        /\ e.size = s.size /\ e.root = s.root /\ e.key = s.key /\ e.token = s.token /\ e.imprint = s.root
    BY <2>1, EntryParts DEF w
  <2>3. PICK last \in from..to :
          /\ last < s.size
          /\ e.proofs = {ProofOf(Hashes(bodies), w, s.size, seq) : seq \in {from, last}}
    <3>1. s \in Relevant(all, Window(bodies, from, to))
      BY DEF w
    <3>2. \E last \in from..to :
            /\ last < s.size
            /\ \A seq \in from..to : seq < s.size => seq <= last
            /\ Entry(s, Window(bodies, from, to), Hashes(bodies)).proofs
                = {ProofOf(Hashes(bodies), Window(bodies, from, to), s.size, seq) : seq \in {from, last}}
      BY <3>1, EntryProofs
    <3> QED
      BY <2>1, <3>2 DEF w
  <2>4. e.key \in pack.keys
    <3>1. s.key \in 1..MaxKeys /\ MaxKeys \in Nat
      BY <2>2 DEF SealRecords, EvidenceConstants
    <3> QED
      BY <1>1, <2>2, <3>1, SMT
  <2>5. TokenOk(e)
    BY <2>2 DEF TokenOk
  <2> DEFINE part == SubSeq(bodies, 1, s.size)
  <2>6. e.root = SignedRoot(part)
    BY <2>2 DEF SealOf
  <2>7. /\ SignedRoot(part) = RootOf(Hashes(part))
        /\ \A seq \in 0..(s.size - 1) :
            RootFromPath(SubSeq(bodies, 1, seq + 1), seq, s.size,
                PathOf(SubSeq(Hashes(bodies), 1, s.size), seq)) = SignedRoot(part)
    BY <2>2, TreeOfPart
  <2>8. RootOk(pack, e)
    <3> SUFFICES ASSUME Rebuildable(pack, e)
                 PROVE  e.root = RootOf([i \in 1..e.size |-> HashOf(pack.receipts[i])])
      BY DEF RootOk
    <3>1. from = 0 /\ s.size \in 1..(to + 1) /\ to \in 0..(Len(bodies) - 1)
      <4>1. from = 0 /\ Len(w) >= s.size
        BY <1>1, <1>2, <2>2 DEF Rebuildable
      <4> QED
        BY <1>2, <2>2, <4>1, SMT
    <3>2. [i \in 1..s.size |-> HashOf(Window(bodies, 0, to)[i])] = Hashes(part)
      BY <3>1, RebuiltHashes
    <3> HIDE DEF part
    <3> QED
      BY <1>1, <2>2, <2>6, <2>7, <3>1, <3>2 DEF w
  <2> HIDE DEF part
  <2>9. ASSUME NEW proof \in e.proofs
        PROVE  ProofOk(pack, e, proof)
    <3>1. PICK seq \in {from, last} : proof = ProofOf(Hashes(bodies), w, s.size, seq)
      BY <2>3
    <3>2. seq \in from..to /\ seq \in 0..(s.size - 1) /\ seq \in 0..(Len(bodies) - 1)
      BY <2>2, <2>3, SMT
    <3>3. proof = [seq |-> seq, hash |-> SubSeq(bodies, 1, seq + 1),
                   path |-> PathOf(SubSeq(Hashes(bodies), 1, s.size), seq)]
      BY <3>1, <3>2, ProofParts DEF w
    <3>4. Receipt(bodies, seq) \in ToSet(pack.receipts)
      BY <1>1, <1>2, <3>2
    <3>5. Receipt(bodies, seq).seq = seq /\ HashOf(Receipt(bodies, seq)) = SubSeq(bodies, 1, seq + 1)
      BY <3>2, ReceiptHash
    <3>6. RootFromPath(proof.hash, proof.seq, e.size, proof.path) = e.root
      BY <2>2, <2>6, <2>7, <3>2, <3>3
    <3> QED
      BY <3>3, <3>4, <3>5, <3>6 DEF ProofOk
  <2>10. Linked(pack, e)
    BY <2>3 DEF Linked
  <2> QED
    BY <2>4, <2>5, <2>8, <2>9, <2>10
<1>5. Intact(pack)
  BY <1>3, <1>4 DEF Intact
<1> QED
  BY <1>4, <1>5 DEF pack

(* A seal that covers a receipt of the window stands for one in the archive: *)
(* if it is not there itself, a smaller one is that covers the whole window. *)
LEMMA CoveredByRelevant ==
    ASSUME NEW all, NEW receipts, NEW seq,
           all \in Seq(SealRecords), MaxReceipts \in Nat,
           FirstSeq(receipts) \in Nat, LastSeq(receipts) \in Nat,
           seq \in FirstSeq(receipts)..LastSeq(receipts),
           NEW s \in ToSet(all), seq < s.size
    PROVE  \E t \in Relevant(all, receipts) : seq < t.size
<1>1. \A t \in ToSet(all) : t.size \in Nat
  <2> TAKE t \in ToSet(all)
  <2>1. PICK i \in DOMAIN all : t = all[i]
    BY DEF ToSet
  <2>2. t \in SealRecords
    BY <2>1, SMT
  <2>3. t.size \in 1..MaxReceipts
    BY <2>2 DEF SealRecords
  <2> QED
    BY <2>3
<1>2. CASE \A t \in ToSet(all) : t.size < s.size => t.size <= LastSeq(receipts)
  <2>1. s.size > FirstSeq(receipts)
    BY <1>1, SMT
  <2> QED
    BY <1>2, <2>1 DEF Relevant
<1>3. CASE \E t \in ToSet(all) : t.size < s.size /\ ~(t.size <= LastSeq(receipts))
  <2> DEFINE big == {t \in ToSet(all) : ~(t.size <= LastSeq(receipts))}
             sizes == {t.size : t \in big}
  <2>1. sizes # {} /\ sizes \subseteq Nat
    BY <1>1, <1>3
  <2>2. PICK n \in sizes : \A m \in sizes : n <= m
    <3> HIDE DEF sizes
    <3> QED
      BY <2>1, LeastNatural
  <2>3. PICK t \in big : n = t.size
    OBVIOUS
  <2>4. t \in ToSet(all) /\ t.size \in Nat /\ ~(t.size <= LastSeq(receipts))
    BY <1>1
  <2>5. ASSUME NEW u \in ToSet(all), u.size < t.size
        PROVE  u.size <= LastSeq(receipts)
    <3>1. u.size \in Nat
      BY <1>1
    <3>2. u \in big => t.size <= u.size
      BY <2>2, <2>3
    <3> QED
      BY <2>4, <2>5, <3>1, <3>2, SMT
  <2>6. t.size > FirstSeq(receipts) /\ seq < t.size
    BY <2>4, SMT
  <2> QED
    BY <2>4, <2>5, <2>6 DEF Relevant
<1> QED
  BY <1>2, <1>3

(* The receipts an archive calls unanchored are those that no seal covered *)
(* of those it was made of.                                                *)
LEMMA PackCounts ==
    ASSUME EvidenceConstants, NEW bodies \in Seq(Bodies), Len(bodies) <= MaxReceipts,
           NEW from \in 0..(Len(bodies) - 1), NEW to \in from..(Len(bodies) - 1),
           NEW all, NEW used \in Nat, SealsOf(all, bodies, used),
           \A i \in 1..Len(bodies) : bodies[i].key <= used
    PROVE  LET pack == Pack(bodies, from, to, all, used) IN
           pack.entries # {} => Unanchored(pack) = Uncovered(Window(bodies, from, to), all)
<1> DEFINE w == Window(bodies, from, to)
           pack == Pack(bodies, from, to, all, used)
           sizes == {e.size : e \in {x \in pack.entries : Linked(pack, x)}}
<1>1. pack.receipts = w /\ pack.entries = {Entry(s, w, Hashes(bodies)) : s \in Relevant(all, w)}
  BY DEF Pack, Archive
<1> HIDE DEF pack, sizes
<1>2. /\ Len(w) = to - from + 1
      /\ FirstSeq(w) = from /\ LastSeq(w) = to
      /\ ToSet(w) = {Receipt(bodies, seq) : seq \in from..to}
  BY WindowReceipts
<1>3. \A e \in pack.entries : Linked(pack, e)
  BY PackIntact DEF pack
<1>4. \A s \in ToSet(all) : s.size \in Nat
  <2> TAKE s \in ToSet(all)
  <2>1. all \in Seq(SealRecords) /\ MaxReceipts \in Nat
    BY DEF SealsOf, EvidenceConstants
  <2>2. PICK i \in DOMAIN all : s = all[i]
    BY DEF ToSet
  <2>3. s \in SealRecords
    BY <2>1, <2>2, SMT
  <2> QED
    BY <2>1, <2>3 DEF SealRecords
<1> HIDE DEF w
<1>5. sizes = {s.size : s \in Relevant(all, w)}
  <2>1. \A s \in Relevant(all, w) : Entry(s, w, Hashes(bodies)).size = s.size
    BY DEF Entry
  <2> QED
    BY <1>1, <1>3, <2>1 DEF sizes
<1>6. pack.entries # {} => sizes # {}
  BY <1>3 DEF sizes
<1>7. ASSUME NEW x \in ToSet(w)
      PROVE  (\A size \in sizes : size <= x.seq) <=> (\A s \in ToSet(all) : s.size <= x.seq)
  <2>1. PICK seq \in from..to : x = Receipt(bodies, seq)
    BY <1>2
  <2>2. x.seq = seq /\ seq \in Nat
    BY <2>1 DEF Receipt
  <2>3. ASSUME \A s \in ToSet(all) : s.size <= x.seq
        PROVE  \A size \in sizes : size <= x.seq
    BY <1>5, <2>3 DEF Relevant
  <2>4. ASSUME \A size \in sizes : size <= x.seq, NEW s \in ToSet(all), ~(s.size <= x.seq)
        PROVE  FALSE
    <3>1. seq < s.size
      BY <1>4, <2>2, <2>4, SMT
    <3>2. PICK t \in Relevant(all, w) : seq < t.size
      <4>1. /\ all \in Seq(SealRecords) /\ MaxReceipts \in Nat
            /\ from \in Nat /\ to \in Nat
        BY DEF SealsOf, EvidenceConstants
      <4> QED
        BY <1>2, <3>1, <4>1, CoveredByRelevant
    <3>3. t.size \in sizes /\ t.size \in Nat
      BY <1>4, <1>5 DEF Relevant
    <3>4. t.size <= seq
      BY <2>2, <2>4, <3>3
    <3> QED
      BY <2>2, <3>2, <3>3, <3>4, SMT
  <2> QED
    BY <2>3, <2>4
<1>8. pack.entries # {} =>
        Unanchored(pack) = {r.seq : r \in {x \in ToSet(pack.receipts) : \A size \in sizes : size <= x.seq}}
  <2>1. Unanchored(pack) = IF sizes = {} THEN {}
            ELSE {r.seq : r \in {x \in ToSet(pack.receipts) : \A size \in sizes : size <= x.seq}}
    BY DEF Unanchored, sizes
  <2> QED
    BY <1>6, <2>1
<1>9. {x \in ToSet(w) : \A size \in sizes : size <= x.seq}
        = {x \in ToSet(w) : \A s \in ToSet(all) : s.size <= x.seq}
  BY <1>7
<1> QED
  BY <1>1, <1>8, <1>9 DEF Uncovered, pack, w

(* Another history differs in the receipt that is another one only. *)
LEMMA OtherHistory ==
    ASSUME NEW bodies \in Seq(Bodies), NEW n \in 1..Len(bodies), NEW seq \in 0..(n - 1),
           NEW m \in 1..n
    PROVE  /\ Other(bodies, seq) \in Seq({Other(bodies, seq)[i] : i \in 1..Len(bodies)})
           /\ Len(Other(bodies, seq)) = Len(bodies)
           /\ SubSeq(Other(SubSeq(bodies, 1, n), seq), 1, m) = SubSeq(Other(bodies, seq), 1, m)
<1> DEFINE part == SubSeq(bodies, 1, n)
           o == Other(bodies, seq)
           op == Other(part, seq)
           S == {o[i] : i \in 1..Len(bodies)}
<1>1. part \in Seq(Bodies) /\ Len(part) = n /\ (\A i \in 1..n : part[i] = bodies[i]) /\ DOMAIN part = 1..n
  BY SMT
<1>2. DOMAIN bodies = 1..Len(bodies) /\ Len(bodies) \in Nat /\ n \in Nat /\ n <= Len(bodies)
  BY SMT
<1> HIDE DEF part
<1>3. DOMAIN o = 1..Len(bodies) /\ DOMAIN op = 1..n
  BY <1>1, <1>2 DEF Other
<1>4. o = [i \in 1..Len(bodies) |-> o[i]] /\ op = [i \in 1..n |-> op[i]]
  BY <1>1, <1>2 DEF Other
<1>5. \A i \in 1..n : i \in 1..Len(bodies) /\ op[i] = o[i]
  <2> TAKE i \in 1..n
  <2>1. i \in 1..Len(bodies)
    BY <1>2, SMT
  <2>2. CASE i = seq + 1
    <3>1. op[i] = [part[i] EXCEPT !.at = MaxSeals + 1] /\ o[i] = [bodies[i] EXCEPT !.at = MaxSeals + 1]
      BY <1>1, <1>2, <2>1, <2>2 DEF Other
    <3> QED
      BY <1>1, <2>1, <3>1
  <2>3. CASE i # seq + 1
    <3>1. op[i] = part[i] /\ o[i] = bodies[i]
      BY <1>1, <1>2, <2>1, <2>3 DEF Other
    <3> QED
      BY <1>1, <2>1, <3>1
  <2> QED
    BY <2>2, <2>3
<1> HIDE DEF o, op
<1>6. o \in Seq(S) /\ Len(o) = Len(bodies)
  <2>1. o \in [1..Len(bodies) -> S]
    BY <1>4
  <2> HIDE DEF S
  <2> QED
    BY <1>2, <1>3, <2>1, SMT
<1>7. op \in Seq(S) /\ Len(op) = n
  <2>1. op \in [1..n -> S]
    BY <1>4, <1>5
  <2> HIDE DEF S
  <2> QED
    BY <1>2, <1>3, <2>1, SMT
<1> HIDE DEF S
<1>8. SubSeq(op, 1, m) = SubSeq(o, 1, m)
  <2>1. SubSeq(op, 1, m) \in Seq(S) /\ Len(SubSeq(op, 1, m)) = m
        /\ \A i \in 1..m : SubSeq(op, 1, m)[i] = op[i] /\ i \in 1..n
    BY <1>7, SMT
  <2>2. SubSeq(o, 1, m) \in Seq(S) /\ Len(SubSeq(o, 1, m)) = m
        /\ \A i \in 1..m : SubSeq(o, 1, m)[i] = o[i]
    BY <1>2, <1>6, SMT
  <2> QED
    BY <1>5, <2>1, <2>2, SeqEqual
<1> QED
  BY <1>6, <1>8 DEF o, op, part, S

(* No archive of another history is intact with a token that was given over *)
(* the receipt it changed.                                                  *)
LEMMA PackStands ==
    ASSUME EvidenceConstants, NEW bodies \in Seq(Bodies), Len(bodies) <= MaxReceipts,
           NEW from \in 0..(Len(bodies) - 1), NEW to \in from..(Len(bodies) - 1),
           NEW all, NEW used \in Nat, SealsOf(all, bodies, used),
           NEW changed \in 0..to, NEW e \in Pack(bodies, from, to, all, used).entries,
           e.token # 0, changed < e.size
    PROVE  ~Intact(Rewritten(Pack(bodies, from, to, all, used), Other(bodies, changed)))
<1> DEFINE w == Window(bodies, from, to)
           pack == Pack(bodies, from, to, all, used)
           other == Other(bodies, changed)
           v == Window(other, from, to)
           fake == Rewritten(pack, other)
<1>1. pack.receipts = w /\ pack.entries = {Entry(s, w, Hashes(bodies)) : s \in Relevant(all, w)}
  BY DEF Pack, Archive
<1>2. FirstSeq(w) = from /\ LastSeq(w) = to /\ Len(w) = to - from + 1
  BY WindowReceipts
<1> HIDE DEF w
<1>3. PICK s \in Relevant(all, w) : e = Entry(s, w, Hashes(bodies))
  BY <1>1
<1>4. /\ SealOf(s, bodies) /\ s.size \in 1..Len(bodies) /\ from < s.size
      /\ e.size = s.size /\ e.root = s.root
  BY <1>3, EntryParts DEF w
<1>5. PICK last \in from..to :
        /\ last < s.size /\ \A seq \in from..to : seq < s.size => seq <= last
        /\ e.proofs = {ProofOf(Hashes(bodies), w, s.size, seq) : seq \in {from, last}}
  <2>1. s \in Relevant(all, Window(bodies, from, to))
    BY DEF w
  <2>2. \E last \in from..to :
          /\ last < s.size
          /\ \A seq \in from..to : seq < s.size => seq <= last
          /\ Entry(s, Window(bodies, from, to), Hashes(bodies)).proofs
                = {ProofOf(Hashes(bodies), Window(bodies, from, to), s.size, seq) : seq \in {from, last}}
    <3> HIDE DEF w, pack, other, v, fake
    <3> QED
      BY <2>1, EntryProofs
  <2> QED
    BY <1>3, <2>2 DEF w
<1>6. /\ changed \in 0..last /\ changed \in 0..(s.size - 1) /\ last \in 0..(s.size - 1)
      /\ last + 1 \in 1..s.size /\ last \in 0..(Len(bodies) - 1)
  BY <1>4, <1>5, SMT
<1> DEFINE p == ProofOf(Hashes(bodies), w, s.size, last)
           q == [p EXCEPT !.hash = HashOf(v[p.seq - from + 1])]
           f == [e EXCEPT !.proofs = {[x EXCEPT !.hash = HashOf(v[x.seq - from + 1])] : x \in @}]
<1>7. p = [seq |-> last, hash |-> SubSeq(bodies, 1, last + 1),
           path |-> PathOf(SubSeq(Hashes(bodies), 1, s.size), last)]
  BY <1>5, ProofParts DEF w
<1>8. HashOf(v[last - from + 1]) = SubSeq(Other(SubSeq(bodies, 1, s.size), changed), 1, last + 1)
  <2> DEFINE S == {other[i] : i \in 1..Len(bodies)}
  <2>1. /\ other \in Seq(S) /\ Len(other) = Len(bodies)
        /\ SubSeq(Other(SubSeq(bodies, 1, s.size), changed), 1, last + 1) = SubSeq(other, 1, last + 1)
    BY <1>4, <1>6, OtherHistory
  <2> HIDE DEF S, other
  <2>2. v[last - from + 1] = Receipt(other, last)
    BY <1>5, <2>1, ProofParts
  <2>3. HashOf(Receipt(other, last)) = SubSeq(other, 1, last + 1)
    BY <1>6, <2>1, ReceiptHash
  <2> QED
    BY <2>1, <2>2, <2>3
<1>9. RootFromPath(SubSeq(Other(SubSeq(bodies, 1, s.size), changed), 1, last + 1), last, s.size,
            PathOf(SubSeq(Hashes(bodies), 1, s.size), last)) # s.root
  <2>1. s.root = SignedRoot(SubSeq(bodies, 1, s.size))
    BY <1>4 DEF SealOf
  <2> QED
    BY <1>4, <1>6, <2>1, TreeOfPart
<1> HIDE DEF p
<1>10. q.seq = last /\ q.path = p.path /\ q.hash = HashOf(v[last - from + 1])
  BY <1>7
<1> HIDE DEF q, v, other
<1>11. f \in fake.entries
  <2>1. fake.entries = {IF x.token = 0
              THEN Entry([size |-> x.size, root |-> SignedRoot(SubSeq(other, 1, x.size)), key |-> x.key, token |-> 0],
                         v, Hashes(other))
              ELSE [x EXCEPT !.proofs = {[y EXCEPT !.hash = HashOf(v[y.seq - from + 1])] : y \in @}]
              : x \in pack.entries}
    <3>1. FirstSeq(v) = from
      <4>1. /\ other \in Seq({other[i] : i \in 1..Len(bodies)}) /\ Len(other) = Len(bodies)
        BY <1>4, <1>6, OtherHistory DEF other
      <4> QED
        BY <4>1, WindowReceipts DEF v
    <3>2. pack.receipts = w /\ Window(other, FirstSeq(w), LastSeq(w)) = v
      BY <1>1, <1>2 DEF v
    <3>3. pack = [receipts |-> pack.receipts, entries |-> pack.entries, keys |-> pack.keys]
      BY DEF Pack, Archive
    <3> HIDE DEF pack
    <3> QED
      BY <3>1, <3>2, <3>3 DEF Rewritten
  <2>2. e \in pack.entries
    OBVIOUS
  <2> HIDE DEF pack, fake
  <2> QED
    BY <2>1, <2>2
<1>12. f.size = s.size /\ f.root = s.root /\ q \in f.proofs
  <2>1. p \in e.proofs
    BY <1>5 DEF p
  <2>2. e = [size |-> e.size, root |-> e.root, key |-> e.key, token |-> e.token, imprint |-> e.imprint,
             proofs |-> e.proofs]
    BY <1>3 DEF Entry
  <2>3. f.size = e.size /\ f.root = e.root
        /\ f.proofs = {[x EXCEPT !.hash = HashOf(v[x.seq - from + 1])] : x \in e.proofs}
    BY <2>2
  <2> HIDE DEF f
  <2> QED
    BY <1>4, <2>1, <2>3 DEF q
<1>13. ~ProofOk(fake, f, q)
  BY <1>7, <1>8, <1>9, <1>10, <1>12 DEF ProofOk
<1> HIDE DEF f, fake, pack
<1> QED
  BY <1>11, <1>12, <1>13 DEF Intact, fake, pack, other

(* The times an archive states are ones its receipts existed at, and none *)
(* that a token covers goes without.                                      *)
LEMMA PackTimes ==
    ASSUME EvidenceConstants, NEW bodies \in Seq(Bodies), Len(bodies) <= MaxReceipts,
           NEW from \in 0..(Len(bodies) - 1), NEW to \in from..(Len(bodies) - 1),
           NEW all, NEW used \in Nat, SealsOf(all, bodies, used),
           \A i \in 1..Len(bodies) : bodies[i].key <= used
    PROVE  LET pack == Pack(bodies, from, to, all, used) IN
           /\ \A e \in Proven(pack) : \A r \in RangeOf(pack, e) : r.body.at < ExistedBy(pack, e)
           /\ \A r \in ToSet(pack.receipts) :
               (\E e \in pack.entries : e.token # 0 /\ r.seq < e.size)
                   => \E e \in Proven(pack) : r \in RangeOf(pack, e)
           /\ ReceivedInTime(pack)
<1> DEFINE w == Window(bodies, from, to)
           pack == Pack(bodies, from, to, all, used)
<1>1. pack.receipts = w /\ pack.entries = {Entry(s, w, Hashes(bodies)) : s \in Relevant(all, w)}
  BY DEF Pack, Archive
<1>2. ToSet(w) = {Receipt(bodies, seq) : seq \in from..to}
  BY WindowSet
<1>3. \A e \in pack.entries : Linked(pack, e)
  BY PackIntact
<1> HIDE DEF w, pack
<1>4. Proven(pack) = {e \in pack.entries : e.token # 0}
  BY <1>3 DEF Proven
<1>5. ASSUME NEW e \in pack.entries
      PROVE  /\ e.size \in 1..Len(bodies) /\ e.token \in Nat
             /\ e.token # 0 => \A i \in 1..e.size : bodies[i].at < e.token
  <2>1. PICK s \in Relevant(all, w) : e = Entry(s, w, Hashes(bodies))
    BY <1>1
  <2>2. /\ s \in SealRecords /\ SealOf(s, bodies) /\ s.size \in 1..Len(bodies)
        /\ e.size = s.size /\ e.token = s.token
    BY <2>1, EntryParts DEF w
  <2>3. s.token \in 0..MaxSeals /\ MaxSeals \in Nat
    BY <2>2 DEF SealRecords, EvidenceConstants
  <2> QED
    BY <2>2, <2>3 DEF SealOf
<1>6. ASSUME NEW r \in ToSet(w)
      PROVE  r.seq \in from..to /\ r.seq \in Nat /\ r.body = bodies[r.seq + 1]
  <2>1. PICK seq \in from..to : r = Receipt(bodies, seq)
    BY <1>2
  <2> QED
    BY <2>1 DEF Receipt
<1>7. ASSUME NEW e \in Proven(pack), NEW r \in RangeOf(pack, e)
      PROVE  r.body.at < ExistedBy(pack, e) /\ r.body.at <= ExistedBy(pack, e)
  <2> DEFINE T == {d.token : d \in {x \in Proven(pack) : x.size >= e.size}}
  <2>1. e \in pack.entries /\ r \in ToSet(w) /\ r.seq < e.size
    BY <1>1, <1>4 DEF RangeOf
  <2>2. T \subseteq Nat /\ e.token \in T
    BY <1>4, <1>5, <2>1
  <2>3. \E x \in T : \A y \in T : x <= y
    <3> HIDE DEF T
    <3> QED
      BY <2>2, LeastNatural
  <2>4. Min(T) \in T
    <3> HIDE DEF T
    <3> QED
      BY <2>3, Zenon DEF Min
  <2>5. PICK d \in Proven(pack) : d.size >= e.size /\ d.token = Min(T)
    BY <2>4
  <2>6. d \in pack.entries /\ d.token # 0
    BY <1>4
  <2>7. r.seq + 1 \in 1..d.size
    <3>1. e.size \in Nat /\ d.size \in Nat /\ r.seq \in Nat
      BY <1>5, <1>6, <2>1, <2>6
    <3> QED
      BY <2>1, <2>5, <3>1, SMT
  <2>8. bodies[r.seq + 1].at < d.token
    BY <1>5, <2>6, <2>7
  <2>9. ExistedBy(pack, e) = Min(T)
    BY DEF ExistedBy
  <2>10. bodies[r.seq + 1].at <= d.token
    <3>1. r.seq + 1 \in 1..Len(bodies)
      <4>1. d.size \in 1..Len(bodies) /\ r.seq \in Nat
        BY <1>5, <1>6, <2>1, <2>6
      <4> QED
        BY <2>7, <4>1, SMT
    <3>2. bodies[r.seq + 1].at \in Nat /\ d.token \in Nat
      <4>1. bodies[r.seq + 1] \in Bodies
        BY <3>1, SMT
      <4> QED
        BY <1>5, <2>6, <4>1 DEF Bodies, EvidenceConstants
    <3> QED
      BY <2>8, <3>2, SMT
  <2> QED
    BY <1>6, <2>1, <2>5, <2>8, <2>9, <2>10
<1>8. ASSUME NEW r \in ToSet(w), NEW e \in pack.entries, e.token # 0, r.seq < e.size
      PROVE  \E d \in Proven(pack) : r \in RangeOf(pack, d)
  <2> DEFINE sizes == {d.size : d \in {x \in Proven(pack) : r.seq < x.size}}
  <2>1. sizes \subseteq Nat /\ e.size \in sizes
    BY <1>4, <1>5, <1>8
  <2>2. PICK n \in sizes : \A m \in sizes : n <= m
    <3> HIDE DEF sizes
    <3> QED
      BY <2>1, LeastNatural
  <2>3. PICK d \in Proven(pack) : r.seq < d.size /\ n = d.size
    OBVIOUS
  <2>4. ASSUME NEW x \in Proven(pack), x.size < d.size
        PROVE  r.seq >= x.size
    <3>1. x.size \in Nat /\ d.size \in Nat /\ r.seq \in Nat
      BY <1>4, <1>5, <1>6
    <3>2. r.seq < x.size => d.size <= x.size
      BY <2>2, <2>3
    <3> QED
      BY <2>4, <3>1, <3>2, SMT
  <2> QED
    BY <1>1, <2>3, <2>4 DEF RangeOf
<1>9. ReceivedInTime(pack)
  BY <1>7 DEF ReceivedInTime
<1> QED
  BY <1>1, <1>7, <1>8, <1>9 DEF pack

(* The times an archive proves go forward if the tokens came in order. *)
LEMMA PackInOrder ==
    ASSUME EvidenceConstants, NEW bodies \in Seq(Bodies), Len(bodies) <= MaxReceipts,
           NEW from \in 0..(Len(bodies) - 1), NEW to \in from..(Len(bodies) - 1),
           NEW all, NEW used, SealsOf(all, bodies, used), StampedInOrder(all)
    PROVE  TimesGoForward(Pack(bodies, from, to, all, used))
<1> DEFINE w == Window(bodies, from, to)
           pack == Pack(bodies, from, to, all, used)
<1>1. pack.entries = {Entry(s, w, Hashes(bodies)) : s \in Relevant(all, w)}
  BY DEF Pack, Archive
<1> HIDE DEF w, pack
<1>2. ASSUME NEW e \in Proven(pack)
      PROVE  \E s \in ToSet(all) : s.size = e.size /\ s.token = e.token /\ s.token \in Nat /\ s.token # 0
  <2>1. e \in pack.entries /\ e.token # 0
    BY DEF Proven
  <2>2. PICK s \in Relevant(all, w) : e = Entry(s, w, Hashes(bodies))
    BY <1>1, <2>1
  <2>3. s \in SealRecords /\ s \in ToSet(all) /\ e.size = s.size /\ e.token = s.token
    BY <2>2, EntryParts DEF w
  <2>4. s.token \in Nat
    BY <2>3 DEF SealRecords, EvidenceConstants
  <2> QED
    BY <2>1, <2>3, <2>4
<1>3. ASSUME NEW d \in Proven(pack), NEW e \in Proven(pack), d.size < e.size
      PROVE  d.token <= e.token
  <2>1. PICK s \in ToSet(all) : s.size = d.size /\ s.token = d.token /\ s.token \in Nat /\ s.token # 0
    BY <1>2
  <2>2. PICK t \in ToSet(all) : t.size = e.size /\ t.token = e.token /\ t.token \in Nat /\ t.token # 0
    BY <1>2
  <2>3. s.token < t.token
    BY <1>3, <2>1, <2>2 DEF StampedInOrder
  <2> QED
    BY <2>1, <2>2, <2>3, SMT
<1> QED
  BY <1>3 DEF TimesGoForward, pack

-----------------------------------------------------------------------------
(* Two archives of one chain. *)

\* What an anchor of an archive is in the database later on: a token may have
\* come since.
Still(s, b) ==
    s.size = b.size /\ s.root = b.root /\ s.key = b.key /\ (b.token # 0 => s.token = b.token)

\* Anchors of some receipts that a list of seals still has for them.
Stand(list, anchors, receipts) ==
    \A b \in anchors : \E s \in Relevant(list, receipts) : Still(s, b)

(* A later archive is accepted after an earlier one that it follows. *)
LEMMA PackFollows ==
    ASSUME EvidenceConstants, NEW bodies \in Seq(Bodies), Len(bodies) <= MaxReceipts,
           NEW from \in 0..(Len(bodies) - 1), NEW to \in from..(Len(bodies) - 1),
           NEW all, NEW used \in Nat, SealsOf(all, bodies, used),
           NEW before, WindowOf(before.receipts, bodies), Stand(all, before.entries, before.receipts),
           Follows(Pack(bodies, from, to, all, used), before)
    PROVE  AcceptedAfter(Pack(bodies, from, to, all, used), before)
<1> DEFINE w == Window(bodies, from, to)
           pack == Pack(bodies, from, to, all, used)
<1>1. PICK start \in 0..(Len(bodies) - 1) : \E end \in start..(Len(bodies) - 1) :
        before.receipts = Window(bodies, start, end)
  BY DEF WindowOf
<1>2. PICK end \in start..(Len(bodies) - 1) : before.receipts = Window(bodies, start, end)
  BY <1>1
<1> DEFINE v == Window(bodies, start, end)
<1>3. pack.receipts = w /\ pack.entries = {Entry(s, w, Hashes(bodies)) : s \in Relevant(all, w)}
  BY DEF Pack, Archive
<1>4. /\ Len(w) = to - from + 1 /\ FirstSeq(w) = from /\ LastSeq(w) = to
      /\ Head(w) = Receipt(bodies, from)
      /\ ToSet(w) = {Receipt(bodies, seq) : seq \in from..to}
  BY WindowReceipts
<1>5. /\ Len(v) = end - start + 1 /\ FirstSeq(v) = start /\ LastSeq(v) = end
      /\ Last(v) = Receipt(bodies, end)
      /\ ToSet(v) = {Receipt(bodies, seq) : seq \in start..end}
  BY WindowReceipts
<1> HIDE DEF w, v, pack
<1>6. before.receipts = v /\ Follows(pack, before)
  BY <1>2 DEF v, pack
<1>7. to >= end /\ from <= end + 1
  BY <1>3, <1>4, <1>5, <1>6 DEF Follows
<1>8. SameReceipts(pack, before)
  <2>1. ASSUME NEW r \in ToSet(w), NEW q \in ToSet(v), r.seq = q.seq
        PROVE  HashOf(r) = HashOf(q)
    <3>1. PICK m \in from..to : r = Receipt(bodies, m)
      BY <1>4
    <3>2. PICK n \in start..end : q = Receipt(bodies, n)
      BY <1>5
    <3>3. m = n
      BY <2>1, <3>1, <3>2 DEF Receipt
    <3> QED
      BY <3>1, <3>2, <3>3
  <2>2. from = end + 1 => Head(w).prev = HashOf(Last(v))
    <3>1. from = end + 1 => from > 0 /\ from - 1 = end
      BY SMT
    <3>2. from > 0 => Receipt(bodies, from).prev = HashOf(Receipt(bodies, from - 1))
      BY ReceiptHash
    <3> QED
      BY <1>4, <1>5, <3>1, <3>2
  <2> QED
    BY <1>3, <1>4, <1>5, <1>6, <2>1, <2>2 DEF SameReceipts
<1>9. SameAnchors(pack, before)
  <2> SUFFICES ASSUME NEW b \in before.entries, b.size > from
               PROVE  \E n \in pack.entries :
                        /\ n.size = b.size /\ n.root = b.root /\ n.key = b.key
                        /\ b.token # 0 => n.token = b.token
    BY <1>3, <1>4 DEF SameAnchors
  <2>1. PICK s \in Relevant(all, v) : Still(s, b)
    BY <1>6 DEF Stand
  <2>2. s \in ToSet(all) /\ \A t \in ToSet(all) : t.size < s.size => t.size <= end
    BY <1>5 DEF Relevant
  <2>3. s.size > from
    BY <2>1 DEF Still
  <2>4. ASSUME NEW t \in ToSet(all), t.size < s.size
        PROVE  t.size <= to
    <3>1. t.size <= end
      BY <2>2, <2>4
    <3>2. t.size \in Nat
      <4>1. all \in Seq(SealRecords) /\ MaxReceipts \in Nat
        BY DEF SealsOf, EvidenceConstants
      <4>2. PICK i \in DOMAIN all : t = all[i]
        BY DEF ToSet
      <4>3. t \in SealRecords
        BY <4>1, <4>2, SMT
      <4> QED
        BY <4>1, <4>3 DEF SealRecords
    <3> QED
      BY <1>7, <3>1, <3>2, SMT
  <2>5. s \in Relevant(all, w)
    BY <1>4, <2>2, <2>3, <2>4 DEF Relevant
  <2> DEFINE n == Entry(s, w, Hashes(bodies))
  <2>6. n \in pack.entries
    BY <1>3, <2>5
  <2>7. n.size = s.size /\ n.root = s.root /\ n.key = s.key /\ n.token = s.token
    BY DEF Entry
  <2> HIDE DEF n
  <2> QED
    BY <2>1, <2>6, <2>7 DEF Still
<1> QED
  BY <1>6, <1>8, <1>9 DEF AcceptedAfter, pack

(* What is accepted after an earlier archive holds what that one did. *)
LEMMA AcceptedHolds ==
    ASSUME NEW bodies \in Seq(Bodies), NEW copy, NEW before,
           WindowOf(copy.receipts, bodies), WindowOf(before.receipts, bodies),
           AcceptedAfter(copy, before)
    PROVE  StillHolds(copy, before)
<1>1. PICK start \in 0..(Len(bodies) - 1) : \E end \in start..(Len(bodies) - 1) :
        before.receipts = Window(bodies, start, end)
  BY DEF WindowOf
<1>2. PICK end \in start..(Len(bodies) - 1) : before.receipts = Window(bodies, start, end)
  BY <1>1
<1>3. PICK from \in 0..(Len(bodies) - 1) : \E to \in from..(Len(bodies) - 1) :
        copy.receipts = Window(bodies, from, to)
  BY DEF WindowOf
<1>4. PICK to \in from..(Len(bodies) - 1) : copy.receipts = Window(bodies, from, to)
  BY <1>3
<1> DEFINE v == Window(bodies, start, end)
           w == Window(bodies, from, to)
<1>5. /\ Len(w) = to - from + 1 /\ FirstSeq(w) = from /\ LastSeq(w) = to
      /\ ToSet(w) = {Receipt(bodies, seq) : seq \in from..to}
  BY WindowReceipts
<1>6. /\ Len(v) = end - start + 1 /\ FirstSeq(v) = start /\ LastSeq(v) = end
      /\ ToSet(v) = {Receipt(bodies, seq) : seq \in start..end}
  BY WindowReceipts
<1> HIDE DEF v, w
<1>7. before.receipts = v /\ copy.receipts = w
  BY <1>2, <1>4 DEF v, w
<1>8. to >= end
  BY <1>5, <1>6, <1>7 DEF AcceptedAfter, Follows
<1>9. ASSUME NEW r \in ToSet(v), r.seq >= from
      PROVE  r \in ToSet(w)
  <2>1. PICK n \in start..end : r = Receipt(bodies, n)
    BY <1>6
  <2>2. n >= from
    BY <1>9, <2>1 DEF Receipt
  <2>3. n \in from..to
    BY <1>8, <2>2, SMT
  <2> QED
    BY <1>5, <2>1, <2>3
<1>10. ASSUME NEW a \in Anchors(before, from)
      PROVE  a \in Anchors(copy, from) \/ (a[3] = 0 /\ \E b \in Anchors(copy, from) : b[1] = a[1] /\ b[2] = a[2])
  <2>1. PICK b \in before.entries : b.size > from /\ a = <<b.size, b.root, b.token>>
    BY DEF Anchors
  <2>2. PICK n \in copy.entries :
          n.size = b.size /\ n.root = b.root /\ (b.token # 0 => n.token = b.token)
    BY <1>5, <1>7, <2>1 DEF AcceptedAfter, SameAnchors
  <2>3. <<n.size, n.root, n.token>> \in Anchors(copy, from)
    BY <2>1, <2>2 DEF Anchors
  <2>4. CASE b.token # 0
    BY <2>1, <2>2, <2>3, <2>4
  <2>5. CASE b.token = 0
    BY <2>1, <2>2, <2>3, <2>5
  <2> QED
    BY <2>4, <2>5
<1> QED
  BY <1>5, <1>7, <1>9, <1>10 DEF StillHolds

(* A copy cut short has a window of the chain still. *)
LEMMA CopiesOfWindows ==
    ASSUME NEW S, NEW bodies \in Seq(S),
           NEW from \in 0..(Len(bodies) - 1), NEW to \in from..(Len(bodies) - 1),
           NEW all, NEW used, NEW copy \in Copies(Pack(bodies, from, to, all, used))
    PROVE  WindowOf(copy.receipts, bodies)
<1> DEFINE w == Window(bodies, from, to)
           pack == Pack(bodies, from, to, all, used)
<1>1. pack = [receipts |-> w, entries |-> pack.entries, keys |-> pack.keys] /\ pack.receipts = w
  BY DEF Pack, Archive
<1>2. Len(w) = to - from + 1 /\ DOMAIN w = 1..(to - from + 1)
      /\ \A i \in 1..Len(w) : w[i] = Receipt(bodies, from + i - 1)
  BY WindowReceipts
<1> HIDE DEF w, pack
<1>3. CASE copy.receipts = w
  BY <1>3 DEF WindowOf, w
<1>4. CASE \E n \in 1..Len(w) : copy = [pack EXCEPT !.receipts = SubSeq(@, 1, n)]
  <2>1. PICK n \in 1..Len(w) : copy = [pack EXCEPT !.receipts = SubSeq(@, 1, n)]
    BY <1>4
  <2>2. copy.receipts = SubSeq(w, 1, n)
    BY <1>1, <2>1
  <2>3. from + n - 1 \in from..(Len(bodies) - 1) /\ (from + n - 1) - from + 1 = n
    BY <1>2, SMT
  <2>4. SubSeq(w, 1, n) = Window(bodies, from, from + n - 1)
    <3>1. SubSeq(w, 1, n) = [i \in 1..n |-> w[i]]
      BY <1>2, SMT
    <3>2. \A i \in 1..n : w[i] = Receipt(bodies, from + i - 1)
      BY <1>2, SMT
    <3>3. Window(bodies, from, from + n - 1) = [i \in 1..n |-> Receipt(bodies, from + i - 1)]
      BY <2>3 DEF Window
    <3> QED
      BY <3>1, <3>2, <3>3
  <2> QED
    BY <2>2, <2>3, <2>4 DEF WindowOf
<1>5. copy.receipts = w \/ \E n \in 1..Len(w) : copy = [pack EXCEPT !.receipts = SubSeq(@, 1, n)]
  <2>1. copy \in Copies(pack)
    BY DEF pack
  <2>2. CASE copy = pack
    BY <1>1, <2>2
  <2>3. CASE copy \in Shorter(pack)
    BY <1>1, <2>3 DEF Shorter
  <2>4. CASE copy \in WithoutEntry(pack)
    <3>1. PICK e \in pack.entries : copy = [pack EXCEPT !.entries = @ \ {e}]
      BY <2>4 DEF WithoutEntry
    <3> QED
      BY <1>1, <3>1
  <2>5. CASE copy \in WithoutToken(pack)
    <3>1. PICK e \in pack.entries :
            copy = [pack EXCEPT !.entries = (@ \ {e}) \cup {[e EXCEPT !.token = 0]}]
      BY <2>5 DEF WithoutToken
    <3> QED
      BY <1>1, <3>1
  <2> QED
    BY <2>1, <2>2, <2>3, <2>4, <2>5 DEF Copies
<1> QED
  BY <1>3, <1>4, <1>5

-----------------------------------------------------------------------------
(* What a longer chain, another key and later seals leave as it was. *)

(* A window of a chain is one of the chain with a receipt more. *)
LEMMA WindowGrows ==
    ASSUME NEW bodies \in Seq(Bodies), NEW body \in Bodies, NEW receipts, WindowOf(receipts, bodies)
    PROVE  WindowOf(receipts, Append(bodies, body))
<1> DEFINE more == Append(bodies, body)
<1>1. PICK from \in 0..(Len(bodies) - 1) : \E to \in from..(Len(bodies) - 1) :
        receipts = Window(bodies, from, to)
  BY DEF WindowOf
<1>2. PICK to \in from..(Len(bodies) - 1) : receipts = Window(bodies, from, to)
  BY <1>1
<1>3. /\ more \in Seq(Bodies) /\ Len(more) = Len(bodies) + 1
      /\ \A i \in 1..Len(bodies) : more[i] = bodies[i]
  BY SMT
<1>4. from \in 0..(Len(more) - 1) /\ to \in from..(Len(more) - 1)
  BY <1>3, SMT
<1>5. \A n \in 0..(Len(bodies) - 1) : Receipt(more, n) = Receipt(bodies, n)
  <2> HIDE DEF more
  <2> TAKE n \in 0..(Len(bodies) - 1)
  <2>1. /\ SubSeq(more, 1, n) \in Seq(Bodies) /\ Len(SubSeq(more, 1, n)) = n
        /\ \A i \in 1..n : SubSeq(more, 1, n)[i] = more[i] /\ i \in 1..Len(bodies)
    BY <1>3, SMT
  <2>2. /\ SubSeq(bodies, 1, n) \in Seq(Bodies) /\ Len(SubSeq(bodies, 1, n)) = n
        /\ \A i \in 1..n : SubSeq(bodies, 1, n)[i] = bodies[i]
    BY SMT
  <2>3. SubSeq(more, 1, n) = SubSeq(bodies, 1, n)
    BY <1>3, <2>1, <2>2, SeqEqual
  <2>4. n + 1 \in 1..Len(bodies)
    BY SMT
  <2> QED
    BY <1>3, <2>3, <2>4 DEF Receipt
<1>6. \A i \in 1..(to - from + 1) : from + i - 1 \in 0..(Len(bodies) - 1)
  BY SMT
<1> HIDE DEF more
<1>7. Window(more, from, to) = Window(bodies, from, to)
  BY <1>5, <1>6 DEF Window
<1> QED
  BY <1>2, <1>4, <1>7 DEF WindowOf, more

(* So are its seals: a seal is of the receipts it covers. *)
LEMMA SealsOfLonger ==
    ASSUME NEW bodies \in Seq(Bodies), NEW body \in Bodies, MaxReceipts \in Nat,
           NEW list, NEW used, SealsOf(list, bodies, used)
    PROVE  SealsOf(list, Append(bodies, body), used)
<1> DEFINE more == Append(bodies, body)
<1>1. /\ more \in Seq(Bodies) /\ Len(more) = Len(bodies) + 1
      /\ \A i \in 1..Len(bodies) : more[i] = bodies[i]
  BY SMT
<1> HIDE DEF more
<1>2. ASSUME NEW i \in 1..Len(list)
      PROVE  SealOf(list[i], more)
  <2>1. list[i] \in SealRecords /\ SealOf(list[i], bodies)
    BY SMT DEF SealsOf
  <2> DEFINE n == list[i].size
  <2>2. n \in 1..MaxReceipts /\ n <= Len(bodies)
    BY <2>1 DEF SealRecords, SealOf
  <2> HIDE DEF n
  <2>3. \A k \in 1..n : k \in 1..Len(bodies)
    BY <2>2, SMT
  <2>4. SubSeq(more, 1, n) = SubSeq(bodies, 1, n)
    <3>1. /\ SubSeq(more, 1, n) \in Seq(Bodies) /\ Len(SubSeq(more, 1, n)) = n
          /\ \A k \in 1..n : SubSeq(more, 1, n)[k] = more[k]
      BY <1>1, <2>2, SMT
    <3>2. /\ SubSeq(bodies, 1, n) \in Seq(Bodies) /\ Len(SubSeq(bodies, 1, n)) = n
          /\ \A k \in 1..n : SubSeq(bodies, 1, n)[k] = bodies[k]
      BY <2>2, SMT
    <3> QED
      BY <1>1, <2>3, <3>1, <3>2, SeqEqual
  <2>5. n <= Len(more)
    BY <1>1, <2>2, SMT
  <2> QED
    BY <1>1, <2>1, <2>3, <2>4, <2>5 DEF SealOf, n
<1> QED
  BY <1>2 DEF SealsOf, more

(* A seal signed with a key there was is signed with one there is. *)
LEMMA SealsOfMoreKeys ==
    ASSUME NEW bodies, NEW list, NEW used \in Nat, NEW more \in Nat, used <= more,
           SealsOf(list, bodies, used), MaxKeys \in Nat
    PROVE  SealsOf(list, bodies, more)
<1>1. \A i \in 1..Len(list) : list[i].key <= more
  <2> TAKE i \in 1..Len(list)
  <2>1. list[i] \in SealRecords /\ list[i].key <= used
    BY SMT DEF SealsOf
  <2>2. list[i].key \in 1..MaxKeys
    BY <2>1 DEF SealRecords
  <2> QED
    BY <2>1, <2>2, SMT
<1> QED
  BY <1>1 DEF SealsOf

\* Seals as they are later on: tokens have come, larger ones have been added.
Later(list, now) ==
    /\ now \in Seq(SealRecords) /\ Len(list) <= Len(now)
    /\ \A i \in 1..Len(list) : Still(now[i], list[i])
    /\ \A i \in 1..Len(list), j \in (Len(list) + 1)..Len(now) : now[j].size > list[i].size

(* What stands in a list of seals stands in it later: a seal added since is *)
(* larger, and takes no other's place in what an archive carries.           *)
LEMMA StandLater ==
    ASSUME MaxReceipts \in Nat, NEW list \in Seq(SealRecords), NEW now, Later(list, now),
           NEW anchors, NEW receipts, Stand(list, anchors, receipts)
    PROVE  Stand(now, anchors, receipts)
<1> SUFFICES ASSUME NEW b \in anchors
             PROVE  \E s \in Relevant(now, receipts) : Still(s, b)
  BY DEF Stand
<1>1. PICK s \in Relevant(list, receipts) : Still(s, b)
  BY DEF Stand
<1>2. /\ s \in ToSet(list) /\ s.size > FirstSeq(receipts)
      /\ \A t \in ToSet(list) : t.size < s.size => t.size <= LastSeq(receipts)
  BY DEF Relevant
<1>3. PICK i \in 1..Len(list) : s = list[i]
  <2>1. PICK i \in DOMAIN list : s = list[i]
    BY <1>2 DEF ToSet
  <2> QED
    BY <2>1, SMT
<1>4. now \in Seq(SealRecords) /\ i \in 1..Len(now) /\ DOMAIN now = 1..Len(now) /\ DOMAIN list = 1..Len(list)
  BY SMT DEF Later
<1>5. Still(now[i], s)
  BY <1>3 DEF Later
<1>6. Still(now[i], b)
  <2>1. ASSUME b.token # 0
        PROVE  now[i].token = b.token
    BY <1>1, <1>5, <2>1 DEF Still
  <2> QED
    BY <1>1, <1>5, <2>1 DEF Still
<1>7. now[i] \in Relevant(now, receipts)
  <2>1. now[i] \in ToSet(now)
    BY <1>4 DEF ToSet
  <2>2. now[i].size = s.size
    BY <1>5 DEF Still
  <2>3. ASSUME NEW t \in ToSet(now), t.size < s.size
        PROVE  t.size <= LastSeq(receipts)
    <3>1. PICK j \in 1..Len(now) : t = now[j]
      BY <1>4 DEF ToSet
    <3>2. CASE j \in 1..Len(list)
      <4>1. t.size = list[j].size
        BY <3>1, <3>2 DEF Later, Still
      <4>2. list[j] \in ToSet(list)
        BY <1>4, <3>2 DEF ToSet
      <4> QED
        BY <1>2, <2>3, <4>1, <4>2
    <3>3. CASE j \in (Len(list) + 1)..Len(now)
      <4>1. t.size > s.size
        BY <1>3, <3>1, <3>3 DEF Later
      <4>2. s \in SealRecords /\ t \in SealRecords
        BY <1>3, <1>4, <3>1, SMT
      <4>3. s.size \in Nat /\ t.size \in Nat
        BY <4>2, SealSizes
      <4> QED
        BY <2>3, <4>1, <4>3, SMT
    <3>4. j \in 1..Len(list) \/ j \in (Len(list) + 1)..Len(now)
      BY <1>4, SMT
    <3> QED
      BY <3>2, <3>3, <3>4
  <2> QED
    BY <1>2, <2>1, <2>2, <2>3 DEF Relevant
<1> QED
  BY <1>6, <1>7

-----------------------------------------------------------------------------
(* The inductive invariant. *)

\* Receipts are signed with a key there is, at a time there has been.
BodiesOk == \A i \in 1..Len(chain) : chain[i].key <= keys /\ chain[i].at <= clock

\* Each token is one the authority counts.
Stamped == {id \in 1..Len(seals) : seals[id].token # 0}
TokensCounted == clock = Cardinality(Stamped)

\* What the export has read was there to read, and is there still.
ReadsOk ==
    reads # None =>
        /\ reads = [stage |-> reads.stage, receipts |-> reads.receipts, seals |-> reads.seals]
        /\ WindowOf(reads.receipts, chain)
        /\ reads.stage = "checkpoints" =>
            /\ SealsOf(reads.seals, chain, keys)
            /\ Stand(seals, Relevant(reads.seals, reads.receipts), reads.receipts)

\* An archive is of what was read, and of the whole chain as it is.
ArchiveOk ==
    archive # None =>
        /\ Reading("checkpoints")
        /\ archive = Archive(reads.receipts, reads.seals, Hashes(chain), keys)

\* What an earlier archive holds is in the database, and in what was read
\* since.
PreviousOk ==
    previous # None =>
        /\ WindowOf(previous.receipts, chain)
        /\ Stand(seals, previous.entries, previous.receipts)
        /\ Reading("checkpoints") => Stand(reads.seals, previous.entries, previous.receipts)

EInv ==
    /\ TypeOK /\ BodiesOk /\ SealsOf(seals, chain, keys) /\ TokensCounted
    /\ ReadsOk /\ ArchiveOk /\ PreviousOk

(* An empty database and nothing read. *)
LEMMA EInvInit == ASSUME EvidenceConstants, Init PROVE EInv
<1>1. TypeOK
  BY DEF Init, TypeOK, EvidenceConstants
<1>2. BodiesOk /\ ReadsOk /\ ArchiveOk /\ PreviousOk
  BY DEF Init, BodiesOk, ReadsOk, ArchiveOk, PreviousOk
<1>3. SealsOf(seals, chain, keys)
  BY DEF Init, SealsOf
<1>4. TokensCounted
  <2>1. Stamped = {}
    BY DEF Init, Stamped
  <2> QED
    BY <2>1, FS_EmptySet DEF Init, TokensCounted
<1> QED
  BY <1>1, <1>2, <1>3, <1>4 DEF EInv

(* A receipt more: every seal and every window stays as it was. *)
LEMMA EInvWrite == ASSUME EvidenceConstants, EInv, Write, archive = None PROVE EInv'
<1> DEFINE body == [key |-> keys, at |-> clock]
<1>1. /\ chain \in Seq(Bodies) /\ keys \in 1..MaxKeys /\ clock \in 0..MaxSeals
      /\ MaxReceipts \in Nat /\ MaxKeys \in Nat /\ MaxSeals \in Nat /\ Len(chain) < MaxReceipts
      /\ SealsOf(seals, chain, keys)
  BY DEF EInv, TypeOK, EvidenceConstants, Write
<1>2. body \in Bodies
  BY <1>1 DEF Bodies
<1> HIDE DEF body
<1>3. chain' = Append(chain, body) /\ UNCHANGED <<keys, seals, clock, asking, reads, archive, previous>>
  BY DEF Write, body
<1>4. /\ chain' \in Seq(Bodies) /\ Len(chain') = Len(chain) + 1
      /\ \A i \in 1..Len(chain) : chain'[i] = chain[i]
      /\ chain'[Len(chain) + 1] = body
  BY <1>1, <1>2, <1>3, SMT
<1>5. TypeOK'
  <2>1. Len(chain') <= MaxReceipts /\ Len(chain) \in Nat
    BY <1>1, <1>4, SMT
  <2>2. \A i \in 1..Len(seals) : seals[i].size \in 1..Len(chain') /\ seals[i].token \in 0..clock
    <3>1. 1..Len(chain) \subseteq 1..Len(chain')
      BY <1>4, <2>1, SMT
    <3> QED
      BY <3>1 DEF EInv, TypeOK
  <2> QED
    BY <1>3, <1>4, <2>1, <2>2 DEF EInv, TypeOK
<1>6. BodiesOk'
  <2>1. ASSUME NEW i \in 1..Len(chain')
        PROVE  chain'[i].key <= keys /\ chain'[i].at <= clock
    <3>1. CASE i \in 1..Len(chain)
      BY <1>4, <3>1 DEF EInv, BodiesOk
    <3>2. CASE i = Len(chain) + 1
      <4>1. body.key <= keys /\ body.at <= clock
        BY <1>1, SMT DEF body
      <4> QED
        BY <1>4, <3>2, <4>1
    <3>3. i \in 1..Len(chain) \/ i = Len(chain) + 1
      BY <1>1, <1>4, SMT
    <3> QED
      BY <3>1, <3>2, <3>3
  <2> QED
    BY <1>3, <2>1 DEF BodiesOk
<1>7. SealsOf(seals, chain', keys)
  BY <1>1, <1>2, <1>3, SealsOfLonger
<1>8. TokensCounted'
  BY <1>3 DEF EInv, TokensCounted, Stamped
<1>9. ReadsOk'
  <2> SUFFICES ASSUME reads # None
               PROVE  /\ WindowOf(reads.receipts, chain')
                      /\ reads.stage = "checkpoints" => SealsOf(reads.seals, chain', keys)
    BY <1>3 DEF EInv, ReadsOk
  <2>1. /\ WindowOf(reads.receipts, chain)
        /\ reads.stage = "checkpoints" => SealsOf(reads.seals, chain, keys)
    BY DEF EInv, ReadsOk
  <2>2. WindowOf(reads.receipts, chain')
    BY <1>1, <1>2, <1>3, <2>1, WindowGrows
  <2>3. ASSUME reads.stage = "checkpoints"
        PROVE  SealsOf(reads.seals, chain', keys)
    BY <1>1, <1>2, <1>3, <2>1, <2>3, SealsOfLonger
  <2> QED
    BY <2>2, <2>3
<1>10. ArchiveOk'
  BY <1>3 DEF ArchiveOk
<1>11. PreviousOk'
  <2> SUFFICES ASSUME previous # None
               PROVE  WindowOf(previous.receipts, chain')
    BY <1>3 DEF EInv, PreviousOk, Reading
  <2>1. WindowOf(previous.receipts, chain)
    BY DEF EInv, PreviousOk
  <2> QED
    BY <1>1, <1>2, <1>3, <2>1, WindowGrows
<1> QED
  BY <1>3, <1>5, <1>6, <1>7, <1>8, <1>9, <1>10, <1>11 DEF EInv

(* Another key: those there were still are. *)
LEMMA EInvNewKey == ASSUME EvidenceConstants, EInv, NewKey, archive = None PROVE EInv'
<1>1. /\ chain \in Seq(Bodies) /\ keys \in Nat /\ keys' \in 1..MaxKeys /\ keys' = keys + 1 /\ MaxKeys \in Nat
      /\ UNCHANGED <<chain, seals, clock, asking, reads, archive, previous>>
      /\ keys' \in Nat /\ keys <= keys'
      /\ SealsOf(seals, chain, keys)
  BY DEF EInv, TypeOK, EvidenceConstants, NewKey
<1>2. TypeOK'
  BY <1>1 DEF EInv, TypeOK
<1>3. BodiesOk'
  <2>1. \A i \in 1..Len(chain) : chain[i].key <= keys'
    <3> TAKE i \in 1..Len(chain)
    <3>1. chain[i] \in Bodies
      BY <1>1, SMT
    <3>2. chain[i].key \in Nat /\ chain[i].key <= keys
      BY <1>1, <3>1 DEF EInv, BodiesOk, Bodies
    <3> QED
      BY <1>1, <3>2, SMT
  <2> QED
    BY <1>1, <2>1 DEF EInv, BodiesOk
<1>4. SealsOf(seals, chain, keys')
  BY <1>1, SealsOfMoreKeys
<1>5. TokensCounted'
  BY <1>1 DEF EInv, TokensCounted, Stamped
<1>6. ReadsOk'
  <2>1. ASSUME reads # None, reads.stage = "checkpoints"
        PROVE  SealsOf(reads.seals, chain, keys')
    <3>1. SealsOf(reads.seals, chain, keys)
      BY <2>1 DEF EInv, ReadsOk
    <3> QED
      BY <1>1, <3>1, SealsOfMoreKeys
  <2> QED
    BY <1>1, <2>1 DEF EInv, ReadsOk
<1>7. ArchiveOk' /\ PreviousOk'
  BY <1>1 DEF EInv, ArchiveOk, PreviousOk, Reading
<1> QED
  BY <1>1, <1>2, <1>3, <1>4, <1>5, <1>6, <1>7 DEF EInv

(* Seals as they are later on: what was read or kept of them stands. *)
LEMMA StandsLater ==
    ASSUME EvidenceConstants, EInv, Later(seals, seals'), UNCHANGED <<chain, keys, reads, previous>>
    PROVE  ReadsOk' /\ PreviousOk'
<1>1. seals \in Seq(SealRecords) /\ MaxReceipts \in Nat
  BY DEF EInv, SealsOf, EvidenceConstants
<1>2. ASSUME NEW anchors, NEW receipts, Stand(seals, anchors, receipts)
      PROVE  Stand(seals', anchors, receipts)
  BY <1>1, <1>2, StandLater
<1>3. ReadsOk'
  BY <1>2 DEF EInv, ReadsOk
<1>4. PreviousOk'
  BY <1>2 DEF EInv, PreviousOk, Reading
<1> QED
  BY <1>3, <1>4

(* A new checkpoint is of more receipts than any there is. *)
LEMMA EInvCheckpoint == ASSUME EvidenceConstants, EInv, Checkpoint, archive = None PROVE EInv'
<1> DEFINE n == Len(chain)
           m == Len(seals)
           s == [size |-> n, root |-> SignedRoot(chain), key |-> keys, token |-> 0]
<1>1. /\ chain \in Seq(Bodies) /\ n \in Nat /\ n <= MaxReceipts /\ MaxReceipts \in Nat
      /\ keys \in 1..MaxKeys /\ MaxSeals \in Nat
      /\ seals \in Seq(SealRecords) /\ m \in Nat /\ m < MaxSeals
      /\ SealsOf(seals, chain, keys)
  BY SMT DEF EInv, TypeOK, SealsOf, EvidenceConstants, Checkpoint
<1>2. n \in 1..MaxReceipts
  <2>1. chain # <<>>
    BY DEF Checkpoint
  <2> QED
    BY <1>1, <2>1, SMT
<1>3. SubSeq(chain, 1, n) = chain /\ chain \in Chains
  <2>1. SubSeq(chain, 1, n) = chain
    BY <1>1, SubSeqFull
  <2>2. SubSeq(chain, 1, n) \in Chains
    <3>1. n \in 0..Len(chain)
      BY <1>1, SMT
    <3> QED
      BY <1>1, <3>1, PartOfChain
  <2> QED
    BY <2>1, <2>2
<1>4. s \in SealRecords /\ s.size = n /\ s.root = SignedRoot(chain) /\ s.key = keys /\ s.token = 0
  BY <1>1, <1>2, <1>3 DEF SealRecords
<1>5. seals' = Append(seals, s) /\ UNCHANGED <<chain, keys, clock, asking, reads, archive, previous>>
  BY DEF Checkpoint
<1>6. \A i \in 1..m : seals[i].size < n
  <2> TAKE i \in 1..m
  <2>1. seals[i] \in ToSet(seals)
    BY <1>1, SMT DEF ToSet
  <2> QED
    BY <2>1 DEF Checkpoint
<1> HIDE DEF s
<1>7. /\ seals' \in Seq(SealRecords) /\ Len(seals') = m + 1
      /\ \A i \in 1..m : seals'[i] = seals[i]
      /\ seals'[m + 1] = s
  BY <1>1, <1>4, <1>5, SMT
<1>8. \A i \in 1..Len(seals') : i \in 1..m \/ i = m + 1
  BY <1>1, <1>7, SMT
<1> HIDE DEF n, m
<1>9. TypeOK'
  <2>1. Len(seals') <= MaxSeals
    BY <1>1, <1>7, SMT
  <2>2. ASSUME NEW i \in 1..Len(seals')
        PROVE  seals'[i].size \in 1..Len(chain) /\ seals'[i].token \in 0..clock
    <3>1. CASE i \in 1..m
      BY <1>7, <3>1 DEF EInv, TypeOK, m
    <3>2. CASE i = m + 1
      <4>1. n \in 1..Len(chain) /\ 0 \in 0..clock
        <5>1. clock \in Nat
          BY <1>1 DEF EInv, TypeOK
        <5> QED
          BY <1>2, <5>1, SMT DEF n
      <4> QED
        BY <1>4, <1>7, <3>2, <4>1
    <3> QED
      BY <1>8, <3>1, <3>2
  <2>3. asking' = {}
    BY <1>5 DEF Checkpoint
  <2> QED
    BY <1>5, <2>1, <2>2, <2>3 DEF EInv, TypeOK
<1>10. SealsOf(seals', chain, keys)
  <2>1. ASSUME NEW i \in 1..Len(seals')
        PROVE  SealOf(seals'[i], chain) /\ seals'[i].key <= keys
    <3>1. CASE i \in 1..m
      BY <1>1, <1>7, <3>1 DEF SealsOf, m
    <3>2. CASE i = m + 1
      <4>1. SealOf(s, chain)
        <5>1. s.size <= Len(chain)
          BY <1>1, <1>4, SMT DEF n
        <5> QED
          BY <1>3, <1>4, <5>1, Zenon DEF SealOf
      <4>2. s.key <= keys
        BY <1>1, <1>4, SMT
      <4> QED
        BY <1>7, <3>2, <4>1, <4>2
    <3> QED
      BY <1>8, <3>1, <3>2
  <2>2. ASSUME NEW i \in 1..Len(seals'), NEW j \in 1..Len(seals'), i < j
        PROVE  seals'[i].size < seals'[j].size
    <3>1. i \in 1..m
      BY <1>1, <1>7, <2>2, SMT
    <3>2. CASE j \in 1..m
      BY <1>1, <1>7, <2>2, <3>1, <3>2 DEF SealsOf, m
    <3>3. CASE j = m + 1
      BY <1>4, <1>6, <1>7, <3>1, <3>3
    <3> QED
      BY <1>8, <3>2, <3>3
  <2> QED
    BY <1>7, <2>1, <2>2 DEF SealsOf
<1>11. TokensCounted'
  <2>1. Stamped' = Stamped
    <3>1. \A i \in 1..Len(seals') : seals'[i].token # 0 => i \in 1..m /\ seals[i].token # 0
      BY <1>4, <1>7, <1>8
    <3>2. \A i \in 1..m : i \in 1..Len(seals')
      BY <1>1, <1>7, SMT
    <3> QED
      BY <1>7, <3>1, <3>2 DEF Stamped, m
  <2> QED
    BY <1>5, <2>1 DEF EInv, TokensCounted
<1>12. Later(seals, seals')
  <2>1. \A i \in 1..m : Still(seals'[i], seals[i])
    BY <1>7 DEF Still
  <2>2. ASSUME NEW i \in 1..m, NEW j \in (m + 1)..Len(seals')
        PROVE  seals'[j].size > seals[i].size
    <3>1. j = m + 1
      BY <1>1, <1>7, SMT
    <3>2. seals[i].size < n
      BY <1>6
    <3> QED
      BY <1>4, <1>7, <3>1, <3>2
  <2>3. m <= Len(seals')
    BY <1>1, <1>7, SMT
  <2> QED
    BY <1>7, <2>1, <2>2, <2>3 DEF Later, m
<1>13. ReadsOk' /\ PreviousOk'
  BY <1>5, <1>12, StandsLater
<1>14. BodiesOk' /\ ArchiveOk'
  BY <1>5 DEF EInv, BodiesOk, ArchiveOk
<1> QED
  BY <1>5, <1>9, <1>10, <1>11, <1>13, <1>14 DEF EInv

(* The ids asked for are of checkpoints that no token is counted for: the   *)
(* smallest of them is one, and with it there are no more tokens than       *)
(* checkpoints.                                                             *)
LEMMA FirstAsked ==
    ASSUME EvidenceConstants, EInv, asking # {}
    PROVE  LET id == Min(asking) IN
           /\ id \in asking /\ id \in 1..Len(seals) /\ seals[id].token = 0
           /\ Cardinality(Stamped \cup {id}) = clock + 1
           /\ clock \in Nat /\ clock + 1 <= Len(seals)
<1> DEFINE id == Min(asking)
<1>1. asking \subseteq {i \in 1..Len(seals) : seals[i].token = 0} /\ Len(seals) \in Nat /\ clock \in Nat
  <2>1. seals \in Seq(SealRecords) /\ clock \in 0..MaxSeals /\ MaxSeals \in Nat
    BY DEF EInv, TypeOK, SealsOf, EvidenceConstants
  <2>2. Len(seals) \in Nat /\ clock \in Nat
    BY <2>1, SMT
  <2> QED
    BY <2>2 DEF EInv, TypeOK
<1>2. id \in asking
  <2>1. \E x \in asking : \A y \in asking : x <= y
    <3>1. asking \subseteq Nat
      BY <1>1, SMT
    <3> QED
      BY <3>1, LeastNatural
  <2> QED
    BY <2>1, Zenon DEF Min
<1> HIDE DEF id
<1>3. id \in 1..Len(seals) /\ seals[id].token = 0
  BY <1>1, <1>2
<1>4. IsFiniteSet(1..Len(seals)) /\ Cardinality(1..Len(seals)) = Len(seals)
  <2>1. 1 \in Int /\ Len(seals) \in Int /\ (1 > Len(seals) => Len(seals) = 0) /\ Len(seals) - 1 + 1 = Len(seals)
    BY <1>1, SMT
  <2> QED
    BY <2>1, FS_Interval
<1>5. Stamped \subseteq 1..Len(seals) /\ id \notin Stamped
  BY <1>3 DEF Stamped
<1>6. IsFiniteSet(Stamped) /\ Cardinality(Stamped) = clock
  BY <1>4, <1>5, FS_Subset DEF EInv, TokensCounted
<1>7. Cardinality(Stamped \cup {id}) = clock + 1
  BY <1>5, <1>6, FS_AddElement
<1>8. Cardinality(Stamped \cup {id}) <= Cardinality(1..Len(seals))
  <2>1. Stamped \cup {id} \subseteq 1..Len(seals)
    BY <1>3, <1>5
  <2> QED
    BY <1>4, <2>1, FS_Subset
<1> QED
  BY <1>1, <1>2, <1>3, <1>4, <1>7, <1>8 DEF id

(* A token comes after all that its checkpoint covers. *)
LEMMA EInvTokenArrives == ASSUME EvidenceConstants, EInv, TokenArrives, archive = None PROVE EInv'
<1> DEFINE id == Min(asking)
           m == Len(seals)
<1>1. asking # {}
  BY DEF TokenArrives
<1>2. /\ id \in asking /\ id \in 1..m /\ seals[id].token = 0
      /\ Cardinality(Stamped \cup {id}) = clock + 1
      /\ clock \in Nat /\ clock + 1 <= m
  BY <1>1, FirstAsked
<1>3. /\ clock' = clock + 1 /\ seals' = [seals EXCEPT ![id].token = clock + 1]
      /\ asking' = asking \ {id} /\ UNCHANGED <<chain, keys, reads, archive, previous>>
  BY DEF TokenArrives
<1> HIDE DEF id
<1>4. /\ seals \in Seq(SealRecords) /\ m \in Nat /\ DOMAIN seals = 1..m /\ m <= MaxSeals
      /\ chain \in Seq(Bodies) /\ MaxSeals \in Nat /\ MaxReceipts \in Nat
      /\ \A i \in 1..m : seals[i] \in SealRecords
  BY SMT DEF EInv, TypeOK, SealsOf, EvidenceConstants
<1>5. clock' \in 0..MaxSeals /\ clock' # 0
  BY <1>2, <1>3, <1>4, SMT
<1>6. seals' = [i \in 1..m |-> IF i = id THEN [seals[i] EXCEPT !.token = clock'] ELSE seals[i]]
  BY <1>3, <1>4
<1>7. \A i \in 1..m : seals'[i] \in SealRecords
  <2> TAKE i \in 1..m
  <2>1. [seals[i] EXCEPT !.token = clock'] \in SealRecords
    BY <1>4, <1>5 DEF SealRecords
  <2> QED
    BY <1>4, <1>6, <2>1
<1>8. seals' \in Seq(SealRecords) /\ Len(seals') = m
  <2>1. seals' \in [1..m -> SealRecords]
    BY <1>6, <1>7
  <2> HIDE DEF m
  <2> QED
    BY <1>4, <2>1, SMT
<1>9. /\ seals'[id].token = clock'
      /\ \A i \in 1..m : /\ seals'[i].size = seals[i].size /\ seals'[i].root = seals[i].root
                         /\ seals'[i].key = seals[i].key
                         /\ i # id => seals'[i] = seals[i]
  <2>1. \A i \in 1..m : seals[i] = [size |-> seals[i].size, root |-> seals[i].root,
                                      key |-> seals[i].key, token |-> seals[i].token]
    BY <1>4 DEF SealRecords
  <2>2. seals'[id] = [seals[id] EXCEPT !.token = clock'] /\ \A i \in 1..m : i # id => seals'[i] = seals[i]
    BY <1>2, <1>6
  <2>3. [seals[id] EXCEPT !.token = clock']
          = [size |-> seals[id].size, root |-> seals[id].root, key |-> seals[id].key, token |-> clock']
    <3>1. PICK r : r = seals[id]
      OBVIOUS
    <3>2. r = [size |-> r.size, root |-> r.root, key |-> r.key, token |-> r.token]
      BY <1>2, <2>1, <3>1
    <3>3. [r EXCEPT !.token = clock'] = [size |-> r.size, root |-> r.root, key |-> r.key, token |-> clock']
      BY <3>2
    <3> QED
      BY <3>1, <3>3
  <2> HIDE DEF m
  <2> QED
    BY <1>2, <2>2, <2>3
<1> HIDE DEF m
<1>10. TypeOK'
  <2>1. ASSUME NEW i \in 1..m
        PROVE  seals'[i].size \in 1..Len(chain) /\ seals'[i].token \in 0..clock'
    <3>1. seals[i].size \in 1..Len(chain) /\ seals[i].token \in 0..clock
      BY <2>1 DEF EInv, TypeOK, m
    <3>2. CASE i = id
      <4>1. clock' \in 0..clock'
        BY <1>2, <1>3, SMT
      <4> QED
        BY <1>9, <3>1, <3>2, <4>1
    <3>3. CASE i # id
      <4>1. seals[i].token \in 0..clock'
        BY <1>2, <1>3, <3>1, SMT
      <4> QED
        BY <1>9, <3>1, <3>3, <4>1
    <3> QED
      BY <3>2, <3>3
  <2>2. asking' \subseteq {i \in 1..m : seals'[i].token = 0}
    <3> SUFFICES ASSUME NEW i \in asking, i # id
                 PROVE  i \in 1..m /\ seals'[i].token = 0
      BY <1>3
    <3>1. i \in 1..m /\ seals[i].token = 0
      BY DEF EInv, TypeOK, m
    <3> QED
      BY <1>9, <3>1
  <2> QED
    BY <1>3, <1>4, <1>5, <1>8, <2>1, <2>2 DEF EInv, TypeOK
<1>11. BodiesOk'
  <2> SUFFICES ASSUME NEW i \in 1..Len(chain)
               PROVE  chain[i].key <= keys /\ chain[i].at <= clock'
    BY <1>3 DEF BodiesOk
  <2>1. chain[i].key <= keys /\ chain[i].at <= clock
    BY DEF EInv, BodiesOk
  <2>2. chain[i].at \in Nat
    <3>1. chain[i] \in Bodies
      BY <1>4, SMT
    <3> QED
      BY <1>4, <3>1 DEF Bodies
  <2> QED
    BY <1>2, <1>3, <2>1, <2>2, SMT
<1>12. SealsOf(seals', chain, keys)
  <2>1. ASSUME NEW i \in 1..m
        PROVE  SealOf(seals'[i], chain) /\ seals'[i].key <= keys
    <3>1. SealOf(seals[i], chain) /\ seals[i].key <= keys /\ seals[i].size \in 1..Len(chain)
      BY <2>1 DEF EInv, SealsOf, TypeOK, m
    <3>2. ASSUME seals'[i].token # 0, NEW k \in 1..seals[i].size
          PROVE  chain[k].at < seals'[i].token
      <4>1. CASE i = id
        <5>1. k \in 1..Len(chain)
          BY <3>1, <1>4, SMT
        <5>2. chain[k].at <= clock
          BY <5>1 DEF EInv, BodiesOk
        <5>3. chain[k].at \in Nat
          <6>1. chain[k] \in Bodies
            BY <1>4, <5>1, SMT
          <6> QED
            BY <1>4, <6>1 DEF Bodies
        <5>4. chain[k].at < clock'
          BY <1>2, <1>3, <5>2, <5>3, SMT
        <5> QED
          BY <1>9, <4>1, <5>4
      <4>2. CASE i # id
        BY <1>9, <3>1, <3>2, <4>2 DEF SealOf
      <4> QED
        BY <4>1, <4>2
    <3> QED
      BY <1>9, <3>1, <3>2 DEF SealOf
  <2>2. \A i, j \in 1..m : i < j => seals'[i].size < seals'[j].size
    BY <1>9 DEF EInv, SealsOf, m
  <2> QED
    BY <1>8, <2>1, <2>2 DEF SealsOf
<1>13. TokensCounted'
  <2>1. Stamped' = Stamped \cup {id}
    <3>1. Stamped' = {i \in 1..m : seals'[i].token # 0}
      BY <1>8 DEF Stamped
    <3>2. Stamped = {i \in 1..m : seals[i].token # 0}
      BY DEF Stamped, m
    <3> QED
      BY <1>2, <1>5, <1>9, <3>1, <3>2
  <2> QED
    BY <1>2, <1>3, <2>1 DEF TokensCounted
<1>14. Later(seals, seals')
  <2>1. ASSUME NEW i \in 1..m
        PROVE  Still(seals'[i], seals[i])
    BY <1>2, <1>9 DEF Still
  <2>2. ASSUME NEW i \in 1..m, NEW j \in (m + 1)..m
        PROVE  FALSE
    BY <1>4, SMT
  <2>3. m <= m
    BY <1>4, SMT
  <2> QED
    BY <1>8, <2>1, <2>2, <2>3 DEF Later, m
<1>15. ReadsOk' /\ PreviousOk'
  BY <1>3, <1>14, StandsLater
<1>16. ArchiveOk'
  BY <1>3 DEF ArchiveOk
<1> QED
  BY <1>3, <1>10, <1>11, <1>12, <1>13, <1>15, <1>16 DEF EInv

(* The queue of tokens asked for: it holds what has none. *)
LEMMA EInvQueue ==
    ASSUME EvidenceConstants, EInv, AskForTokens \/ TokenFails PROVE EInv'
<1>1. asking' \subseteq {i \in 1..Len(seals) : seals[i].token = 0}
  <2>1. CASE AskForTokens
    BY <2>1 DEF AskForTokens
  <2>2. CASE TokenFails
    BY <2>2 DEF TokenFails, EInv, TypeOK
  <2> QED
    BY <2>1, <2>2
<1>2. UNCHANGED <<chain, keys, seals, clock, reads, archive, previous>>
  BY DEF AskForTokens, TokenFails
<1>3. TypeOK'
  BY <1>1, <1>2 DEF EInv, TypeOK
<1>4. BodiesOk' /\ SealsOf(seals, chain, keys)' /\ TokensCounted' /\ ReadsOk' /\ ArchiveOk' /\ PreviousOk'
  BY <1>2 DEF EInv, BodiesOk, SealsOf, TokensCounted, Stamped, ReadsOk, ArchiveOk, PreviousOk, Reading
<1> QED
  BY <1>3, <1>4 DEF EInv

(* The export's reads: what it reads is there, and it keeps the archive it *)
(* made.                                                                   *)
LEMMA EInvExport == ASSUME EvidenceConstants, EInv, Export PROVE EInv'
<1>1. UNCHANGED <<chain, keys, seals, clock, asking>>
  BY DEF Export, ReadReceipts, ReadCheckpoints, MakeArchive, Keep
<1>2. BodiesOk' /\ SealsOf(seals, chain, keys)' /\ TokensCounted'
  BY <1>1 DEF EInv, BodiesOk, SealsOf, TokensCounted, Stamped
<1>3. (reads # None => reads.stage \in Stages)' => TypeOK'
  BY <1>1 DEF EInv, TypeOK
<1>4. CASE ReadReceipts
  <2>1. reads = None /\ archive' = archive /\ previous' = previous
    BY <1>4 DEF ReadReceipts
  <2>2. PICK from \in 0..(Len(chain) - 1) : \E to \in from..(Len(chain) - 1) :
          reads' = [stage |-> "receipts", receipts |-> Window(chain, from, to), seals |-> <<>>]
    BY <1>4 DEF ReadReceipts
  <2>3. PICK to \in from..(Len(chain) - 1) :
          reads' = [stage |-> "receipts", receipts |-> Window(chain, from, to), seals |-> <<>>]
    BY <2>2
  <2>4. reads'.stage = "receipts" /\ WindowOf(reads'.receipts, chain)
        /\ reads' = [stage |-> reads'.stage, receipts |-> reads'.receipts, seals |-> reads'.seals]
    BY <2>3 DEF WindowOf
  <2>5. archive = None
    BY <2>1 DEF EInv, ArchiveOk, Reading
  <2>6. TypeOK' /\ ReadsOk' /\ ArchiveOk'
    BY <1>1, <1>3, <2>1, <2>4, <2>5 DEF ReadsOk, ArchiveOk, Stages
  <2>7. PreviousOk'
    BY <1>1, <2>1, <2>4 DEF EInv, PreviousOk, Reading
  <2> QED
    BY <1>2, <2>6, <2>7 DEF EInv
<1>5. CASE ReadCheckpoints
  <2>1. /\ reads # None /\ reads.stage = "receipts" /\ archive' = archive /\ previous' = previous
        /\ reads' = [reads EXCEPT !.stage = "checkpoints", !.seals = seals]
    BY <1>5 DEF ReadCheckpoints, Reading
  <2>2. /\ reads = [stage |-> reads.stage, receipts |-> reads.receipts, seals |-> reads.seals]
        /\ WindowOf(reads.receipts, chain)
    BY <2>1 DEF EInv, ReadsOk
  <2>3. reads' = [stage |-> "checkpoints", receipts |-> reads.receipts, seals |-> seals]
    BY <2>1, <2>2
  <2>4. archive = None
    BY <2>1 DEF EInv, ArchiveOk, Reading
  <2>5. SealsOf(seals, chain, keys)
    BY DEF EInv
  <2>6. Stand(seals, Relevant(seals, reads.receipts), reads.receipts)
    BY DEF Stand, Still
  <2>7. TypeOK' /\ ReadsOk' /\ ArchiveOk'
    BY <1>1, <1>3, <2>1, <2>2, <2>3, <2>4, <2>5, <2>6 DEF ReadsOk, ArchiveOk, Stages
  <2>8. PreviousOk'
    BY <1>1, <2>1, <2>3 DEF EInv, PreviousOk
  <2> QED
    BY <1>2, <2>7, <2>8 DEF EInv
<1>6. CASE MakeArchive
  <2>1. /\ Reading("checkpoints") /\ UNCHANGED <<reads, previous>>
        /\ archive' = Archive(reads.receipts, reads.seals, Hashes(chain), keys)
    BY <1>6 DEF MakeArchive
  <2>2. TypeOK' /\ ReadsOk' /\ PreviousOk'
    BY <1>1, <1>3, <2>1 DEF EInv, TypeOK, ReadsOk, PreviousOk, Reading
  <2>3. ArchiveOk'
    BY <1>1, <2>1 DEF ArchiveOk, Reading
  <2> QED
    BY <1>2, <2>2, <2>3 DEF EInv
<1>7. CASE Keep
  <2>1. archive # None /\ previous' = archive /\ archive' = None /\ reads' = None
    BY <1>7 DEF Keep
  <2>2. /\ reads # None /\ reads.stage = "checkpoints"
        /\ archive = Archive(reads.receipts, reads.seals, Hashes(chain), keys)
    BY <2>1 DEF EInv, ArchiveOk, Reading
  <2>3. /\ WindowOf(reads.receipts, chain)
        /\ Stand(seals, Relevant(reads.seals, reads.receipts), reads.receipts)
    BY <2>2 DEF EInv, ReadsOk
  <2>4. /\ archive.receipts = reads.receipts
        /\ archive.entries = {Entry(s, reads.receipts, Hashes(chain)) : s \in Relevant(reads.seals, reads.receipts)}
    BY <2>2 DEF Archive
  <2>5. Stand(seals, archive.entries, archive.receipts)
    <3> SUFFICES ASSUME NEW e \in archive.entries
                 PROVE  \E t \in Relevant(seals, reads.receipts) : Still(t, e)
      BY <2>4 DEF Stand
    <3>1. PICK s \in Relevant(reads.seals, reads.receipts) : e = Entry(s, reads.receipts, Hashes(chain))
      BY <2>4
    <3>2. e.size = s.size /\ e.root = s.root /\ e.key = s.key /\ e.token = s.token
      BY <3>1 DEF Entry
    <3>3. PICK t \in Relevant(seals, reads.receipts) : Still(t, s)
      BY <2>3 DEF Stand
    <3> QED
      BY <3>2, <3>3 DEF Still
  <2>6. TypeOK' /\ ReadsOk' /\ ArchiveOk'
    BY <1>3, <2>1 DEF ReadsOk, ArchiveOk
  <2>7. PreviousOk'
    BY <1>1, <2>1, <2>3, <2>4, <2>5 DEF PreviousOk, Reading
  <2> QED
    BY <1>2, <2>6, <2>7 DEF EInv
<1> QED
  BY <1>4, <1>5, <1>6, <1>7 DEF Export

(* Every step keeps the invariant. *)
LEMMA EInvNext == ASSUME EvidenceConstants, EInv, [Next]_vars PROVE EInv'
<1>1. CASE archive = None /\ Write
  BY <1>1, EInvWrite
<1>2. CASE archive = None /\ NewKey
  BY <1>2, EInvNewKey
<1>3. CASE archive = None /\ Checkpoint
  BY <1>3, EInvCheckpoint
<1>4. CASE AskForTokens \/ TokenFails
  BY <1>4, EInvQueue
<1>5. CASE archive = None /\ TokenArrives
  BY <1>5, EInvTokenArrives
<1>6. CASE Export
  BY <1>6, EInvExport
<1>7. CASE UNCHANGED vars
  BY <1>7 DEF vars, EInv, TypeOK, BodiesOk, SealsOf, TokensCounted, Stamped, ReadsOk, ArchiveOk, PreviousOk, Reading
<1> QED
  BY <1>1, <1>2, <1>3, <1>4, <1>5, <1>6, <1>7 DEF Next, Database

(* The invariant holds of every state that is reached. *)
LEMMA InvariantHolds == ASSUME EvidenceConstants PROVE Spec => []EInv
<1>1. Init => EInv
  BY EInvInit
<1>2. EInv /\ [Next]_vars => EInv'
  BY EInvNext
<1> QED
  BY <1>1, <1>2, PTL DEF Spec

\* An archive is the one of the window and the seals that were read.
ArchiveIs(from, to) ==
    /\ archive = Pack(chain, from, to, reads.seals, keys)
    /\ reads.receipts = Window(chain, from, to)

(* What the invariant says of an archive that was made. *)
LEMMA ArchiveMade ==
    ASSUME EvidenceConstants, EInv, archive # None
    PROVE  /\ chain \in Seq(Bodies) /\ Len(chain) <= MaxReceipts /\ keys \in Nat
           /\ \A i \in 1..Len(chain) : chain[i].key <= keys
           /\ SealsOf(reads.seals, chain, keys) /\ Reading("checkpoints")
           /\ \E from \in 0..(Len(chain) - 1) : \E to \in from..(Len(chain) - 1) : ArchiveIs(from, to)
<1>1. Reading("checkpoints") /\ archive = Archive(reads.receipts, reads.seals, Hashes(chain), keys)
  BY DEF EInv, ArchiveOk
<1>2. WindowOf(reads.receipts, chain) /\ SealsOf(reads.seals, chain, keys)
  BY <1>1 DEF EInv, ReadsOk, Reading
<1>3. \E from \in 0..(Len(chain) - 1) : \E to \in from..(Len(chain) - 1) : ArchiveIs(from, to)
  BY <1>1, <1>2 DEF WindowOf, ArchiveIs, Pack
<1>4. chain \in Seq(Bodies) /\ Len(chain) <= MaxReceipts /\ keys \in Nat
  BY DEF EInv, TypeOK, EvidenceConstants
<1>5. \A i \in 1..Len(chain) : chain[i].key <= keys
  BY DEF EInv, BodiesOk
<1> QED
  BY <1>1, <1>2, <1>3, <1>4, <1>5

-----------------------------------------------------------------------------
(* What the runs check, for every chain, window and order of the tokens. *)

(* Every variable holds what its table, or the export's own, can hold: the  *)
(* authority gives no more tokens than there are checkpoints, and is asked  *)
(* only for those that have none.                                           *)
THEOREM TypesHold == ASSUME EvidenceConstants PROVE Spec => []TypeOK
<1>1. EInv => TypeOK
  BY DEF EInv
<1> QED
  BY <1>1, InvariantHolds, PTL

(* archive.ts 58-63, 142-145: whatever is written while the export reads,   *)
(* its archive is intact, with its receipts received in time and every      *)
(* checkpoint in it tied to them, it calls unanchored the receipts that no  *)
(* checkpoint covered, and it verifies unless a token was given after one   *)
(* over a larger tree.                                                      *)
THEOREM ArchivesVerify == ASSUME EvidenceConstants PROVE Spec => []ExportsVerify
<1>1. EInv => ExportsVerify
  <2> SUFFICES ASSUME EInv, archive # None
               PROVE  /\ Intact(archive) /\ ReceivedInTime(archive)
                      /\ StampedInOrder(reads.seals) => Verifies(archive)
                      /\ \A entry \in archive.entries : Linked(archive, entry)
                      /\ archive.entries # {} =>
                          Unanchored(archive) = Uncovered(archive.receipts, reads.seals)
    BY DEF ExportsVerify
  <2>1. /\ chain \in Seq(Bodies) /\ Len(chain) <= MaxReceipts /\ keys \in Nat
        /\ \A i \in 1..Len(chain) : chain[i].key <= keys
        /\ SealsOf(reads.seals, chain, keys)
    BY ArchiveMade
  <2>2. PICK from \in 0..(Len(chain) - 1) : \E to \in from..(Len(chain) - 1) : ArchiveIs(from, to)
    BY ArchiveMade
  <2>3. PICK to \in from..(Len(chain) - 1) : ArchiveIs(from, to)
    BY <2>2
  <2>4. archive = Pack(chain, from, to, reads.seals, keys)
    BY <2>3 DEF ArchiveIs
  <2>5. Intact(archive) /\ \A entry \in archive.entries : Linked(archive, entry)
    BY <2>1, <2>4, PackIntact
  <2>6. archive.entries # {} => Unanchored(archive) = Uncovered(Window(chain, from, to), reads.seals)
    BY <2>1, <2>4, PackCounts
  <2>7. archive.receipts = Window(chain, from, to)
    BY <2>4 DEF Pack, Archive
  <2>8. ReceivedInTime(archive)
    BY <2>1, <2>4, PackTimes
  <2>9. StampedInOrder(reads.seals) => TimesGoForward(archive)
    BY <2>1, <2>4, PackInOrder
  <2> QED
    BY <2>5, <2>6, <2>7, <2>8, <2>9 DEF Verifies
<1> QED
  BY <1>1, InvariantHolds, PTL

(* verify.ts 652-662, 725-731: of two exports of one chain the later one is *)
(* accepted after the earlier one wherever their windows meet, and a copy   *)
(* of it that is accepted holds all that the earlier one did.               *)
THEOREM PreviousStands == ASSUME EvidenceConstants PROVE Spec => []PreviousDecides
<1>1. EInv => PreviousDecides
  <2> SUFFICES ASSUME EInv, archive # None, previous # None
               PROVE  /\ Follows(archive, previous) => AcceptedAfter(archive, previous)
                      /\ \A copy \in Copies(archive) :
                          AcceptedAfter(copy, previous) /\ Intact(copy) => StillHolds(copy, previous)
    BY DEF PreviousDecides
  <2>1. /\ chain \in Seq(Bodies) /\ Len(chain) <= MaxReceipts /\ keys \in Nat
        /\ SealsOf(reads.seals, chain, keys) /\ Reading("checkpoints")
    BY ArchiveMade
  <2>2. PICK from \in 0..(Len(chain) - 1) : \E to \in from..(Len(chain) - 1) : ArchiveIs(from, to)
    BY ArchiveMade
  <2>3. PICK to \in from..(Len(chain) - 1) : ArchiveIs(from, to)
    BY <2>2
  <2>4. archive = Pack(chain, from, to, reads.seals, keys)
    BY <2>3 DEF ArchiveIs
  <2>5. /\ WindowOf(previous.receipts, chain)
        /\ Stand(reads.seals, previous.entries, previous.receipts)
    BY <2>1 DEF EInv, PreviousOk
  <2>6. ASSUME Follows(archive, previous)
        PROVE  AcceptedAfter(archive, previous)
    BY <2>1, <2>4, <2>5, <2>6, PackFollows
  <2>7. ASSUME NEW copy \in Copies(archive), AcceptedAfter(copy, previous)
        PROVE  StillHolds(copy, previous)
    <3>1. WindowOf(copy.receipts, chain)
      BY <2>1, <2>4, CopiesOfWindows
    <3> QED
      BY <2>1, <2>5, <2>7, <3>1, AcceptedHolds
  <2> QED
    BY <2>6, <2>7
<1> QED
  BY <1>1, InvariantHolds, PTL

(* archive.ts 91-95: no archive of another history is intact with a token   *)
(* that was given over the receipt it changed, however few of the receipts  *)
(* the token covers are in it.                                              *)
THEOREM TokensSeal == ASSUME EvidenceConstants PROVE Spec => []SealedReceiptsStand
<1>1. EInv => SealedReceiptsStand
  <2> SUFFICES ASSUME EInv, archive # None, NEW seq \in 0..LastSeq(archive.receipts),
                      NEW e \in archive.entries, e.token # 0, seq < e.size
               PROVE  ~Intact(Rewritten(archive, Other(chain, seq)))
    BY DEF SealedReceiptsStand
  <2>1. /\ chain \in Seq(Bodies) /\ Len(chain) <= MaxReceipts /\ keys \in Nat
        /\ SealsOf(reads.seals, chain, keys)
    BY ArchiveMade
  <2>2. PICK from \in 0..(Len(chain) - 1) : \E to \in from..(Len(chain) - 1) : ArchiveIs(from, to)
    BY ArchiveMade
  <2>3. PICK to \in from..(Len(chain) - 1) : ArchiveIs(from, to)
    BY <2>2
  <2>4. archive = Pack(chain, from, to, reads.seals, keys)
    BY <2>3 DEF ArchiveIs
  <2>5. seq \in 0..to
    <3>1. archive.receipts = Window(chain, from, to)
      BY <2>4 DEF Pack, Archive
    <3>2. LastSeq(Window(chain, from, to)) = to
      BY <2>1, WindowReceipts
    <3> QED
      BY <3>1, <3>2
  <2> QED
    BY <2>1, <2>4, <2>5, PackStands
<1> QED
  BY <1>1, InvariantHolds, PTL

(* anchoring.ts 7-12, 151-162: in whatever order the tokens came, a receipt *)
(* was recorded before the time the report says it existed by, and every    *)
(* receipt a token covers is given one.                                     *)
THEOREM TimesAreTrue == ASSUME EvidenceConstants PROVE Spec => []ProvenTimesAreTrue
<1>1. EInv => ProvenTimesAreTrue
  <2> SUFFICES ASSUME EInv, archive # None
               PROVE  /\ \A e \in Proven(archive) : \A r \in RangeOf(archive, e) : r.body.at < ExistedBy(archive, e)
                      /\ \A r \in ToSet(archive.receipts) :
                          (\E e \in archive.entries : e.token # 0 /\ r.seq < e.size)
                              => \E e \in Proven(archive) : r \in RangeOf(archive, e)
    BY DEF ProvenTimesAreTrue
  <2>1. /\ chain \in Seq(Bodies) /\ Len(chain) <= MaxReceipts /\ keys \in Nat
        /\ \A i \in 1..Len(chain) : chain[i].key <= keys
        /\ SealsOf(reads.seals, chain, keys)
    BY ArchiveMade
  <2>2. PICK from \in 0..(Len(chain) - 1) : \E to \in from..(Len(chain) - 1) : ArchiveIs(from, to)
    BY ArchiveMade
  <2>3. PICK to \in from..(Len(chain) - 1) : ArchiveIs(from, to)
    BY <2>2
  <2>4. archive = Pack(chain, from, to, reads.seals, keys)
    BY <2>3 DEF ArchiveIs
  <2> QED
    BY <2>1, <2>4, PackTimes
<1> QED
  BY <1>1, InvariantHolds, PTL
=============================================================================
