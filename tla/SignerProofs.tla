---------------------------- MODULE SignerProofs ----------------------------
(***************************************************************************)
(* What the signer keeps for every number of systems, every length of      *)
(* chain, every clock and every number of crashes.                         *)
(*                                                                         *)
(* Everything follows from one inductive invariant: while the process runs *)
(* its Map is what its state files hold; the receipt in hand is the next   *)
(* of its chain before put() and the last of it after; whatever left the   *)
(* process is the beginning of a chain on disk.                            *)
(***************************************************************************)
EXTENDS Signer, Prefixes

-----------------------------------------------------------------------------
(* The inductive invariant. *)

MapIsDisk == up => memory = disk

InHand ==
    /\ stage # "idle" => up /\ signing # <<>>
    /\ stage = "recorded" =>
        LET known == disk[Said(signing).system_id] IN
            /\ Reusable(known)
            /\ Continues(known, signing)
            /\ (Said(signing).seq = 0) <=> (Said(signing).body = Genesis)
            /\ known.leaves # <<>> => Said(signing).ts_received >= Said(known.leaves).ts_received
    /\ stage = "put" =>
        /\ disk[Said(signing).system_id].leaves = signing
        /\ Said(signing).seq = Len(signing) - 1

AnsweredAtItsPlace == \A r \in answered : Said(r).seq = Len(r) - 1

SealedIsOnDisk == \A c \in sealed : IsPrefix(c.leaves, disk[c.system_id].leaves)

IInv ==
    /\ TypeOK
    /\ MapIsDisk
    /\ InHand
    /\ Remembered
    /\ AnsweredAtItsPlace
    /\ SealedIsOnDisk
    /\ ChainsWellFormed

-----------------------------------------------------------------------------
(* Types. *)

(* A request is a receipt, whatever it says: SIGN_RECEIPT's parsing. *)
LEMMA RequestIsReceipt ==
    ASSUME TypeOK, NEW receipt \in Requests
    PROVE  receipt \in Receipt /\ Said(receipt) \in Content /\ Said(receipt).system_id \in Systems
<1>1. PICK prev \in KnownHashes, content \in Content : receipt = Append(prev, content)
    BY DEF Requests
<1>2. prev \in Seq(Content)
    <2>1. CASE prev = <<>>
        BY <2>1, EmptySeq
    <2>2. ASSUME NEW s \in Systems, NEW n \in 1..Len(disk[s].leaves), prev = SubSeq(disk[s].leaves, 1, n)
          PROVE  prev \in Seq(Content)
        <3>1. disk[s].leaves \in Seq(Content)
            BY DEF TypeOK, SystemState
        <3>2. \A i \in 1..n : disk[s].leaves[i] \in Content
            BY <3>1, ElementOfSeq
        <3>3. QED
            BY <2>2, <3>1, <3>2, SubSeqProperties
    <2>3. ASSUME NEW s \in Systems, NEW i \in 1..Len(journal[s]), prev = journal[s][i], prev # Torn
          PROVE  prev \in Seq(Content)
        <3>1. journal[s] \in Seq(Receipt \cup {Torn})
            BY DEF TypeOK
        <3>2. QED
            BY <2>3, <3>1, ElementOfSeq DEF Receipt
    <2>4. prev = <<>> \/ \E s \in Systems : prev \in HashesOf(s)
        BY <1>1 DEF KnownHashes
    <2>5. ASSUME NEW s \in Systems, prev \in HashesOf(s)
          PROVE  prev \in Seq(Content)
        BY <2>2, <2>3, <2>5 DEF HashesOf
    <2>6. QED
        BY <2>1, <2>4, <2>5
<1>3. receipt \in Seq(Content) /\ Len(receipt) = Len(prev) + 1 /\ receipt[Len(prev) + 1] = content
    BY <1>1, <1>2, AppendProperties
<1>4. receipt # <<>> /\ Said(receipt) = content
    BY <1>2, <1>3, EmptySeq DEF Said, Last
<1>5. QED
    BY <1>3, <1>4 DEF Receipt, Content

(* What put() writes is a state. *)
LEMMA ChainIsState ==
    ASSUME NEW leaves \in Seq(Content), NEW content \in Content
    PROVE  Chain(Append(leaves, content)) \in SystemState
    BY AppendProperties DEF Chain, SystemState

LEMMA TypeInit == Init => TypeOK
<1> SUFFICES ASSUME Init PROVE TypeOK
    OBVIOUS
<1>1. <<>> \in Seq(Content)
    BY EmptySeq
<1>2. <<>> \in Seq(Receipt \cup {Torn})
    BY EmptySeq
<1>3. QED
    BY <1>1, <1>2, SignerAssumption DEF Init, TypeOK

LEMMA TypeStep == TypeOK /\ InHand /\ [Next]_vars => TypeOK'
<1> SUFFICES ASSUME TypeOK, InHand, [Next]_vars PROVE TypeOK'
    OBVIOUS
<1>0. Unknown \in SystemState
    BY EmptySeq DEF Unknown, SystemState
<1>e. <<>> \in Seq(Content)
    BY EmptySeq
<1>1. ASSUME NEW receipt \in Requests, Record(receipt) PROVE TypeOK'
    <2>1. receipt \in Receipt /\ Said(receipt).system_id \in Systems
        BY RequestIsReceipt
    <2>2. WithLine(journal[Said(receipt).system_id], receipt) \in Seq(Receipt \cup {Torn})
        BY <2>1, AppendProperties DEF TypeOK, WithLine
    <2>3. journal' \in [Systems -> Seq(Receipt \cup {Torn})]
        BY <1>1, <2>1, <2>2 DEF TypeOK, Record
    <2>4. signing' \in Seq(Content)
        BY <1>1, <2>1 DEF Record, Receipt
    <2>5. QED
        BY <1>1, <2>3, <2>4 DEF TypeOK, Record
<1>2. ASSUME NEW receipt \in Requests, CrashTearingLine(receipt) PROVE TypeOK'
    <2>1. receipt \in Receipt /\ Said(receipt).system_id \in Systems
        BY RequestIsReceipt
    <2>2. Append(journal[Said(receipt).system_id], Torn) \in Seq(Receipt \cup {Torn})
        BY <2>1, AppendProperties DEF TypeOK
    <2>3. journal' \in [Systems -> Seq(Receipt \cup {Torn})]
        BY <1>2, <2>1, <2>2 DEF TypeOK, CrashTearingLine
    <2>4. memory' \in [Systems -> SystemState]
        BY <1>0, <1>2 DEF CrashTearingLine
    <2>5. crashes' \in 0..MaxCrashes
        BY <1>2, SignerAssumption DEF TypeOK, CrashTearingLine
    <2>6. QED
        BY <1>2, <2>3, <2>4, <2>5 DEF TypeOK, CrashTearingLine
<1>3. CASE Put
    <2> DEFINE s == Said(signing).system_id
               next == Chain(Append(memory[s].leaves, Said(signing)))
    <2>1. signing \in Seq(Content) /\ signing # <<>>
        BY <1>3 DEF Put, InHand, TypeOK
    <2>2. Said(signing) \in Content /\ s \in Systems
        <3>1. Said(signing) \in Content
            BY <2>1, FrontThenLast DEF Said
        <3>2. QED
            BY <3>1 DEF Content
    <2>3. memory[s].leaves \in Seq(Content)
        BY <2>2 DEF TypeOK, SystemState
    <2>4. next \in SystemState
        BY <2>2, <2>3, ChainIsState
    <2>5. disk' \in [Systems -> SystemState] /\ memory' \in [Systems -> SystemState]
        <3> HIDE DEF next, s
        <3>1. disk' = [disk EXCEPT ![s] = next] /\ memory' = [memory EXCEPT ![s] = next]
            BY <1>3 DEF Put, next, s
        <3>2. QED
            BY <2>4, <3>1 DEF TypeOK
    <2>6. QED
        BY <1>3, <2>5 DEF TypeOK, Put
<1>4. CASE Answer
    <2>1. signing \in Receipt
        BY <1>4 DEF Answer, InHand, TypeOK, Receipt
    <2>2. QED
        BY <1>4, <1>e, <2>1 DEF TypeOK, Answer
<1>5. CASE Crash
    <2>1. memory' \in [Systems -> SystemState]
        BY <1>0, <1>5 DEF Crash
    <2>2. crashes' \in 0..MaxCrashes
        BY <1>5, SignerAssumption DEF TypeOK, Crash
    <2>3. QED
        BY <1>5, <1>e, <2>1, <2>2 DEF TypeOK, Crash
<1>6. CASE Restart
    BY <1>6 DEF TypeOK, Restart
<1>7. CASE SetClock
    BY <1>7 DEF TypeOK, SetClock
<1>8. ASSUME NEW s \in Systems, Seal(s) PROVE TypeOK'
    <2>1. memory[s].leaves \in Seq(Content)
        BY DEF TypeOK, SystemState
    <2>2. QED
        BY <1>8, <2>1 DEF TypeOK, Seal
<1>9. CASE UNCHANGED vars
    BY <1>9 DEF TypeOK, vars
<1>10. QED
    BY <1>1, <1>2, <1>3, <1>4, <1>5, <1>6, <1>7, <1>8, <1>9 DEF Next

-----------------------------------------------------------------------------
(* The steps. *)

(* A receipt that signReceipt lets through goes on a chain as the ones      *)
(* before it: its position, its genesis and its time are checked against    *)
(* the head alone, and that is enough for all that was signed here.         *)
LEMMA WellFormedGrows ==
    ASSUME NEW s \in Systems, NEW leaves \in Seq(Content), NEW e \in Content, NEW from \in Nat,
           Positioned(s, leaves), WellSigned(leaves, from),
           e.system_id = s,
           e.seq = Len(leaves),
           (e.seq = 0) <=> (e.body = Genesis),
           leaves # <<>> => e.ts_received >= Last(leaves).ts_received
    PROVE  Positioned(s, Append(leaves, e)) /\ WellSigned(Append(leaves, e), from)
<1> DEFINE longer == Append(leaves, e)
           n == Len(leaves)
<1>1. /\ longer \in Seq(Content)
      /\ Len(longer) = n + 1
      /\ \A i \in 1..n : longer[i] = leaves[i]
      /\ longer[n + 1] = e
    BY AppendProperties
<1>2. n \in Nat
    OBVIOUS
<1>t. MaxTime \in Nat /\ \A c \in Content : c.ts_received \in Int
    BY SignerAssumption DEF Content
<1>l. \A i \in 1..n : leaves[i] \in Content
    BY ElementOfSeq
<1> HIDE DEF longer, n
<1>3. ASSUME NEW i \in 1..Len(longer)
      PROVE  /\ longer[i].system_id = s
             /\ longer[i].seq = i - 1
             /\ from < i => ((longer[i].body = Genesis) <=> (i = 1))
    <2>1. CASE i \in 1..n
        BY <1>1, <2>1 DEF Positioned, WellSigned, n
    <2>2. CASE i = n + 1
        BY <1>1, <1>2, <2>2 DEF n
    <2>3. QED
        BY <1>1, <1>2, <2>1, <2>2
<1>4. ASSUME NEW i \in 1..Len(longer), NEW j \in 1..Len(longer), from <= i, i <= j
      PROVE  longer[i].ts_received <= longer[j].ts_received
    <2>1. CASE j \in 1..n
        <3>1. i \in 1..n
            BY <1>2, <1>4, <2>1
        <3>2. QED
            BY <1>1, <1>4, <2>1, <3>1 DEF WellSigned, n
    <2>2. CASE j = n + 1 /\ i \in 1..n
        <3>1. leaves # <<>> /\ n \in 1..n /\ i <= n
            BY <1>2, <2>2, EmptySeq DEF n
        <3>2. leaves[i].ts_received <= leaves[n].ts_received
            BY <1>4, <2>2, <3>1 DEF WellSigned, n
        <3>3. leaves[n].ts_received <= e.ts_received
            BY <3>1 DEF Last, n
        <3>4. leaves[i].ts_received \in Int /\ leaves[n].ts_received \in Int /\ e.ts_received \in Int
            BY <1>t, <1>l, <2>2, <3>1
        <3>5. QED
            BY <1>1, <2>2, <3>2, <3>3, <3>4
    <2>3. CASE j = n + 1 /\ i = n + 1
        BY <1>1, <1>t, <2>3
    <2>4. QED
        BY <1>1, <1>2, <2>1, <2>2, <2>3
<1>5. QED
    BY <1>3, <1>4 DEF Positioned, WellSigned, longer

LEMMA InvInit == Init => IInv
<1> SUFFICES ASSUME Init PROVE IInv
    OBVIOUS
<1>1. TypeOK
    BY TypeInit
<1>2. ASSUME NEW s \in Systems
      PROVE  Positioned(s, Adopted[s].leaves) /\ WellSigned(Adopted[s].leaves, Len(Adopted[s].leaves))
    <2>1. Positioned(s, Adopted[s].leaves) /\ Adopted[s].leaves \in Seq(Content)
        BY SignerAssumption DEF SystemState
    <2>2. Len(Adopted[s].leaves) \in Nat
        BY <2>1
    <2>3. ASSUME NEW i \in 1..Len(Adopted[s].leaves)
          PROVE  Adopted[s].leaves[i].ts_received \in Int
        <3>1. Adopted[s].leaves[i] \in Content
            BY <2>1, ElementOfSeq
        <3>2. QED
            BY <3>1, SignerAssumption DEF Content
    <2>4. QED
        BY <2>1, <2>2, <2>3 DEF WellSigned
<1>3. ChainsWellFormed
    BY <1>2 DEF Init, ChainsWellFormed
<1>4. QED
    BY <1>1, <1>3 DEF IInv, Init, MapIsDisk, InHand, Remembered, AnsweredAtItsPlace, SealedIsOnDisk

(* The journal line comes first and changes nothing that counts. *)
LEMMA RecordStep ==
    ASSUME IInv, NEW receipt \in Requests, Record(receipt)
    PROVE  MapIsDisk' /\ InHand' /\ Remembered' /\ AnsweredAtItsPlace' /\ SealedIsOnDisk' /\ ChainsWellFormed'
<1>1. receipt # <<>>
    BY RequestIsReceipt DEF IInv, Receipt
<1>2. memory = disk
    BY DEF IInv, MapIsDisk, Record
<1>3. Admits(receipt) /\ signing' = receipt /\ stage' = "recorded" /\ up /\ up' = up /\ disk' = disk
    BY DEF Record
<1>4. InHand'
    BY <1>1, <1>2, <1>3 DEF InHand, Admits, Timely, Said
<1>5. QED
    BY <1>4 DEF IInv, Record, MapIsDisk, Remembered, AnsweredAtItsPlace, SealedIsOnDisk, ChainsWellFormed

(* put() writes the receipt in hand at the end of its chain, and nowhere else. *)
LEMMA PutExtends ==
    ASSUME IInv, Put
    PROVE  LET s == Said(signing).system_id IN
            /\ s \in Systems
            /\ signing \in Seq(Content) /\ signing # <<>> /\ Said(signing) \in Content
            /\ disk[s].leaves \in Seq(Content)
            /\ Said(signing).seq = Len(disk[s].leaves)
            /\ Len(signing) = Len(disk[s].leaves) + 1
            /\ signing = Append(disk[s].leaves, Said(signing))
            /\ disk' = [disk EXCEPT ![s] = Chain(signing)]
            /\ memory' = disk'
<1> DEFINE s == Said(signing).system_id
<1>1. /\ stage = "recorded" /\ up
      /\ disk' = [disk EXCEPT ![s] = Chain(Append(memory[s].leaves, Said(signing)))]
      /\ memory' = [memory EXCEPT ![s] = Chain(Append(memory[s].leaves, Said(signing)))]
    BY DEF Put
<1>2. memory = disk
    BY <1>1 DEF IInv, MapIsDisk
<1>3. signing \in Seq(Content) /\ signing # <<>>
    BY <1>1 DEF IInv, TypeOK, InHand
<1>4. Said(signing) \in Content /\ Append(Front(signing), Said(signing)) = signing
      /\ Len(Front(signing)) = Len(signing) - 1
    BY <1>3, FrontThenLast DEF Said
<1>5. s \in Systems
    BY <1>4 DEF Content
<1>6. disk[s].leaves \in Seq(Content)
    BY <1>5 DEF IInv, TypeOK, SystemState
<1>7. Front(signing) = disk[s].leaves /\ Said(signing).seq = Len(disk[s].leaves)
    BY <1>1 DEF IInv, InHand, Continues
<1>8. signing = Append(disk[s].leaves, Said(signing))
    BY <1>4, <1>7
<1>9. Len(signing) = Len(disk[s].leaves) + 1
    BY <1>3, <1>4, <1>6, <1>7
<1>10. disk' = [disk EXCEPT ![s] = Chain(signing)] /\ memory' = disk'
    BY <1>1, <1>2, <1>8
<1>11. QED
    BY <1>3, <1>4, <1>5, <1>6, <1>7, <1>8, <1>9, <1>10

(* Every chain on disk keeps what it holds through put(). *)
LEMMA PutKeeps ==
    ASSUME IInv, Put, NEW s \in Systems, NEW r \in Seq(Content), IsPrefix(r, disk[s].leaves)
    PROVE  IsPrefix(r, disk'[s].leaves)
<1>1. CASE s = Said(signing).system_id
    <2>1. disk'[s].leaves = Append(disk[s].leaves, Said(signing))
        BY <1>1, PutExtends DEF IInv, TypeOK, Chain
    <2>2. QED
        BY <1>1, <2>1, PutExtends, PrefixAppend
<1>2. CASE s # Said(signing).system_id
    BY <1>2, PutExtends DEF IInv, TypeOK
<1>3. QED
    BY <1>1, <1>2

LEMMA PutStep ==
    ASSUME IInv, Put
    PROVE  MapIsDisk' /\ InHand' /\ Remembered' /\ AnsweredAtItsPlace' /\ SealedIsOnDisk' /\ ChainsWellFormed'
<1> DEFINE s == Said(signing).system_id
<1>1. /\ s \in Systems
      /\ signing # <<>> /\ Said(signing) \in Content
      /\ disk[s].leaves \in Seq(Content)
      /\ Said(signing).seq = Len(disk[s].leaves)
      /\ Len(signing) = Len(disk[s].leaves) + 1
      /\ signing = Append(disk[s].leaves, Said(signing))
      /\ disk' = [disk EXCEPT ![s] = Chain(signing)]
      /\ memory' = disk'
    BY PutExtends
<1>2. stage = "recorded" /\ stage' = "put" /\ signing' = signing /\ up' = up /\ up
      /\ answered' = answered /\ sealed' = sealed
    BY DEF Put
<1>3. disk'[s].leaves = signing
    BY <1>1 DEF IInv, TypeOK, Chain
<1>4. InHand'
    <2>1. Said(signing).seq = Len(signing) - 1
        BY <1>1
    <2>2. QED
        BY <1>1, <1>2, <1>3, <2>1 DEF InHand, Said
<1>5. Remembered'
    <2>1. ASSUME NEW r \in answered
          PROVE  IsPrefix(r, disk'[Said(r).system_id].leaves)
        <3>1. r \in Seq(Content) /\ r # <<>>
            BY DEF IInv, TypeOK, Receipt
        <3>2. Said(r) \in Content
            BY <3>1, FrontThenLast DEF Said
        <3>3. Said(r).system_id \in Systems
            BY <3>2 DEF Content
        <3>4. QED
            BY <3>1, <3>3, PutKeeps DEF IInv, Remembered
    <2>2. QED
        BY <1>2, <2>1 DEF Remembered, Said
<1>6. SealedIsOnDisk'
    <2>1. ASSUME NEW c \in sealed
          PROVE  IsPrefix(c.leaves, disk'[c.system_id].leaves)
        <3>1. c.leaves \in Seq(Content) /\ c.system_id \in Systems
            BY DEF IInv, TypeOK
        <3>2. QED
            BY <3>1, PutKeeps DEF IInv, SealedIsOnDisk
    <2>2. QED
        BY <1>2, <2>1 DEF SealedIsOnDisk
<1>7. ChainsWellFormed'
    <2> DEFINE fine(x, leaves) == Positioned(x, leaves) /\ WellSigned(leaves, Len(Adopted[x].leaves))
    <2>1. fine(s, disk[s].leaves) /\ Len(Adopted[s].leaves) \in Nat
        BY <1>1, SignerAssumption DEF IInv, ChainsWellFormed, SystemState
    <2>2. /\ (Said(signing).seq = 0) <=> (Said(signing).body = Genesis)
          /\ disk[s].leaves # <<>> => Said(signing).ts_received >= Last(disk[s].leaves).ts_received
        BY <1>2 DEF IInv, InHand, Said
    <2>3. fine(s, Append(disk[s].leaves, Said(signing)))
        BY <1>1, <2>1, <2>2, WellFormedGrows
    <2>4. fine(s, disk'[s].leaves)
        BY <1>1, <1>3, <2>3
    <2>5. ASSUME NEW x \in Systems, x # s
          PROVE  fine(x, disk'[x].leaves)
        <3>1. disk'[x] = disk[x]
            BY <1>1, <2>5 DEF IInv, TypeOK
        <3>2. QED
            BY <3>1 DEF IInv, ChainsWellFormed
    <2>6. \A x \in Systems : fine(x, disk'[x].leaves)
        BY <2>4, <2>5
    <2>7. QED
        BY <2>6 DEF ChainsWellFormed, Positioned, WellSigned
<1>8. QED
    BY <1>1, <1>2, <1>4, <1>5, <1>6, <1>7 DEF MapIsDisk, IInv, AnsweredAtItsPlace

LEMMA AnswerStep ==
    ASSUME IInv, Answer
    PROVE  MapIsDisk' /\ InHand' /\ Remembered' /\ AnsweredAtItsPlace' /\ SealedIsOnDisk' /\ ChainsWellFormed'
<1>1. /\ stage = "put" /\ stage' = "idle" /\ answered' = answered \cup {signing}
      /\ disk' = disk /\ memory' = memory /\ up' = up /\ sealed' = sealed
    BY DEF Answer
<1>2. signing \in Seq(Content) /\ disk[Said(signing).system_id].leaves = signing
      /\ Said(signing).seq = Len(signing) - 1
    BY <1>1 DEF IInv, InHand, TypeOK
<1>3. IsPrefix(signing, disk[Said(signing).system_id].leaves)
    BY <1>2, PrefixReflexive
<1>4. Remembered' /\ AnsweredAtItsPlace'
    BY <1>1, <1>2, <1>3 DEF IInv, Remembered, AnsweredAtItsPlace, Said
<1>5. QED
    BY <1>1, <1>4 DEF IInv, MapIsDisk, InHand, SealedIsOnDisk, ChainsWellFormed

LEMMA SealStep ==
    ASSUME IInv, NEW s \in Systems, Seal(s)
    PROVE  MapIsDisk' /\ InHand' /\ Remembered' /\ AnsweredAtItsPlace' /\ SealedIsOnDisk' /\ ChainsWellFormed'
<1> DEFINE seal == [system_id |-> s, leaves |-> memory[s].leaves]
<1>1. /\ sealed' = sealed \cup {seal} /\ up
      /\ disk' = disk /\ memory' = memory /\ up' = up /\ stage' = stage /\ signing' = signing
      /\ answered' = answered
    BY DEF Seal
<1>2. memory = disk /\ disk[s].leaves \in Seq(Content)
    BY <1>1 DEF IInv, MapIsDisk, TypeOK, SystemState
<1>3. IsPrefix(seal.leaves, disk[seal.system_id].leaves)
    BY <1>2, PrefixReflexive
<1>4. SealedIsOnDisk'
    BY <1>1, <1>3 DEF IInv, SealedIsOnDisk
<1>5. QED
    BY <1>1, <1>4 DEF IInv, MapIsDisk, InHand, Remembered, AnsweredAtItsPlace, ChainsWellFormed

(* The invariant is inductive. *)
LEMMA InvStep == IInv /\ [Next]_vars => IInv'
<1> SUFFICES ASSUME IInv, [Next]_vars PROVE IInv'
    OBVIOUS
<1>0. TypeOK'
    BY TypeStep DEF IInv
<1>1. ASSUME NEW receipt \in Requests, Record(receipt) PROVE IInv'
    BY <1>0, <1>1, RecordStep DEF IInv
<1>2. ASSUME NEW receipt \in Requests, CrashTearingLine(receipt) PROVE IInv'
    BY <1>0, <1>2 DEF IInv, CrashTearingLine, MapIsDisk, InHand, Remembered, AnsweredAtItsPlace,
                      SealedIsOnDisk, ChainsWellFormed
<1>3. CASE Put
    BY <1>0, <1>3, PutStep DEF IInv
<1>4. CASE Answer
    BY <1>0, <1>4, AnswerStep DEF IInv
<1>5. CASE Crash
    BY <1>0, <1>5 DEF IInv, Crash, MapIsDisk, InHand, Remembered, AnsweredAtItsPlace,
                      SealedIsOnDisk, ChainsWellFormed
<1>6. CASE Restart
    <2>1. InHand'
        BY <1>6 DEF IInv, InHand, Restart
    <2>2. QED
        BY <1>0, <1>6, <2>1 DEF IInv, Restart, MapIsDisk, Remembered, AnsweredAtItsPlace,
                                SealedIsOnDisk, ChainsWellFormed
<1>7. CASE SetClock
    BY <1>0, <1>7 DEF IInv, SetClock, MapIsDisk, InHand, Remembered, AnsweredAtItsPlace,
                      SealedIsOnDisk, ChainsWellFormed
<1>8. ASSUME NEW s \in Systems, Seal(s) PROVE IInv'
    BY <1>0, <1>8, SealStep DEF IInv
<1>9. CASE UNCHANGED vars
    BY <1>0, <1>9 DEF IInv, vars, MapIsDisk, InHand, Remembered, AnsweredAtItsPlace,
                      SealedIsOnDisk, ChainsWellFormed
<1>10. QED
    BY <1>1, <1>2, <1>3, <1>4, <1>5, <1>6, <1>7, <1>8, <1>9 DEF Next

LEMMA Invariant == Spec => []IInv
    BY InvInit, InvStep, PTL DEF Spec

-----------------------------------------------------------------------------
(* What follows from it. *)

(* The process and its files hold what they are meant to hold. *)
THEOREM TypeCorrect == Spec => []TypeOK
    BY Invariant, PTL DEF IInv

(* A signature that left the process is on disk, through every crash: put() *)
(* returns only when durable, and only then is the request answered.        *)
THEOREM AnsweredIsRemembered == Spec => []Remembered
    BY Invariant, PTL DEF IInv

(* Two signatures for one position of a chain are one signature: both are   *)
(* beginnings of the chain on disk, and equally long.                       *)
THEOREM NeverForks == Spec => []NoFork
<1>1. IInv => NoFork
    <2> SUFFICES ASSUME IInv, NEW a \in answered, NEW b \in answered,
                        Said(a).system_id = Said(b).system_id, Said(a).seq = Said(b).seq
                 PROVE  a = b
        BY DEF NoFork
    <2>1. /\ a \in Seq(Content) /\ a # <<>>
          /\ b \in Seq(Content) /\ b # <<>>
        BY DEF IInv, TypeOK, Receipt
    <2>2. Said(a) \in Content
        BY <2>1, FrontThenLast DEF Said
    <2>3. disk[Said(a).system_id].leaves \in Seq(Content)
        BY <2>2 DEF IInv, TypeOK, SystemState, Content
    <2>4. Len(a) = Len(b)
        BY <2>1 DEF IInv, AnsweredAtItsPlace
    <2>5. IsPrefix(a, disk[Said(a).system_id].leaves) /\ IsPrefix(b, disk[Said(a).system_id].leaves)
        BY DEF IInv, Remembered
    <2>6. QED
        BY <2>1, <2>3, <2>4, <2>5, PrefixUnique
<1>2. QED
    BY <1>1, Invariant, PTL

(* Checkpoints of a system never describe two trees, and none leaves out a  *)
(* receipt answered at a position it covers.                                *)
THEOREM SealsAlwaysAgree == Spec => []SealsAgree
<1>1. IInv => SealsAgree
    <2> SUFFICES ASSUME IInv PROVE SealsAgree
        OBVIOUS
    <2>1. ASSUME NEW s \in Systems, NEW x \in Seq(Content), NEW y \in Seq(Content),
                 IsPrefix(x, disk[s].leaves), IsPrefix(y, disk[s].leaves)
          PROVE  IsPrefix(x, y) \/ IsPrefix(y, x)
        <3>1. disk[s].leaves \in Seq(Content)
            BY DEF IInv, TypeOK, SystemState
        <3>2. QED
            BY <2>1, <3>1, PrefixesComparable
    <2>2. \A c \in sealed :
            c.system_id \in Systems /\ c.leaves \in Seq(Content) /\ IsPrefix(c.leaves, disk[c.system_id].leaves)
        BY DEF IInv, TypeOK, SealedIsOnDisk
    <2>3. \A r \in answered :
            r \in Seq(Content) /\ IsPrefix(r, disk[Said(r).system_id].leaves)
        BY DEF IInv, TypeOK, Receipt, Remembered
    <2>4. QED
        BY <2>1, <2>2, <2>3 DEF SealsAgree
<1>2. QED
    BY <1>1, Invariant, PTL

(* Every receipt of a chain on disk is in its place; those signed here have *)
(* one genesis, first, and times that never go back, from the head that was *)
(* adopted on, whatever the database had signed before.                     *)
THEOREM AlwaysWellFormed == Spec => []ChainsWellFormed
    BY Invariant, PTL DEF IInv

(* Only put() writes a state file, with one more leaf, and never that of a  *)
(* retired identifier.                                                      *)
LEMMA StepExtends ==
    ASSUME IInv, [Next]_vars, NEW s \in Systems
    PROVE  /\ IsPrefix(disk[s].leaves, disk'[s].leaves)
           /\ disk[s].kind = "retired" => disk'[s] = disk[s]
<1>1. disk[s].leaves \in Seq(Content)
    BY DEF IInv, TypeOK, SystemState
<1>2. CASE Put
    <2>1. IsPrefix(disk[s].leaves, disk'[s].leaves)
        BY <1>1, <1>2, PrefixReflexive, PutKeeps
    <2>2. disk[Said(signing).system_id].kind # "retired"
        BY <1>2 DEF Put, IInv, InHand, Reusable
    <2>3. s # Said(signing).system_id => disk'[s] = disk[s]
        BY <1>2, PutExtends DEF IInv, TypeOK
    <2>4. QED
        BY <2>1, <2>2, <2>3
<1>3. CASE disk' = disk
    BY <1>1, <1>3, PrefixReflexive
<1>4. QED
    BY <1>2, <1>3 DEF Next, Record, CrashTearingLine, Answer, Crash, Restart, SetClock, Seal, vars

(* A chain only grows, and a retired identifier is never signed for again. *)
THEOREM ChainsOnlyExtended == Spec => OnlyExtended
<1>1. IInv /\ [Next]_vars =>
        \A s \in Systems :
            /\ IsPrefix(disk[s].leaves, disk'[s].leaves)
            /\ disk[s].kind = "retired" => disk'[s] = disk[s]
    BY StepExtends
<1>2. QED
    BY <1>1, Invariant, PTL DEF Spec, OnlyExtended

-----------------------------------------------------------------------------
(* What the journal gives back. *)

\* The line StateDirectory.receipts finds for a position: the last of those that
\* name it, and the receipt the chain has there.
Gives(s, seq) ==
    \E i \in LinesAt(s, seq) :
        /\ \A k \in LinesAt(s, seq) : k <= i
        /\ journal[s][i] = SubSeq(disk[s].leaves, 1, seq + 1)

\* A line at a position already taken is never written again, and the line of the
\* receipt in hand is the last of its journal.
JournalHolds ==
    /\ \A s \in Systems, seq \in Nat :
        Len(Adopted[s].leaves) <= seq /\ seq < Len(disk[s].leaves) => Gives(s, seq)
    /\ stage = "recorded" =>
        LET lines == journal[Said(signing).system_id] IN
            lines # <<>> /\ lines[Len(lines)] = signing

(* A line added for a position that is still free, or a torn one, hides no  *)
(* line of the chain (StateDirectory.record).                               *)
LEMMA FreshLineHidesNothing ==
    ASSUME IInv, NEW x \in Systems, NEW line \in Receipt \cup {Torn},
           line # Torn => Said(line).seq = Len(disk[x].leaves),
           journal' = [journal EXCEPT ![x] = Append(@, line)],
           disk' = disk,
           NEW s \in Systems, NEW seq \in Nat, seq < Len(disk[s].leaves), Gives(s, seq)
    PROVE  Gives(s, seq)'
<1>1. journal \in [Systems -> Seq(Receipt \cup {Torn})]
    BY DEF IInv, TypeOK
<1>2. CASE s # x
    <2>1. journal'[s] = journal[s]
        BY <1>1, <1>2
    <2>2. QED
        BY <2>1 DEF Gives, LinesAt, Said
<1>3. CASE s = x
    <2> DEFINE old == journal[s]
               new == journal'[s]
    <2>1. old \in Seq(Receipt \cup {Torn}) /\ new = Append(old, line)
        BY <1>1, <1>3
    <2>2. /\ Len(old) \in Nat /\ Len(new) = Len(old) + 1
          /\ \A i \in 1..Len(old) : new[i] = old[i]
          /\ new[Len(old) + 1] = line
        BY <2>1, AppendProperties
    <2>3. line # Torn => Said(line).seq # seq
        <3>1. disk[s].leaves \in Seq(Content)
            BY DEF IInv, TypeOK, SystemState
        <3>2. Len(disk[s].leaves) \in Nat
            BY <3>1
        <3>3. QED
            BY <1>3, <3>2
    <2>4. LinesAt(s, seq)' = LinesAt(s, seq)
        <3>1. LinesAt(s, seq)' = {i \in 1..Len(new) : new[i] # Torn /\ Said(new[i]).seq = seq}
            BY DEF LinesAt, Said
        <3>2. LinesAt(s, seq) = {i \in 1..Len(old) : old[i] # Torn /\ Said(old[i]).seq = seq}
            BY DEF LinesAt
        <3> HIDE DEF old, new
        <3>3. 1..Len(new) = 1..Len(old) \cup {Len(old) + 1}
            BY <2>2
        <3>4. ~(Len(old) + 1 \in 1..Len(old))
            BY <2>2
        <3>5. QED
            BY <2>2, <2>3, <3>1, <3>2, <3>3, <3>4
    <2>5. PICK i \in LinesAt(s, seq) :
            /\ \A k \in LinesAt(s, seq) : k <= i
            /\ old[i] = SubSeq(disk[s].leaves, 1, seq + 1)
        BY DEF Gives
    <2>6. i \in 1..Len(old)
        BY DEF LinesAt
    <2>7. new[i] = SubSeq(disk'[s].leaves, 1, seq + 1)
        BY <2>2, <2>5, <2>6
    <2>8. QED
        BY <2>4, <2>5, <2>7 DEF Gives
<1>4. QED
    BY <1>2, <1>3

LEMMA JournalRecord ==
    ASSUME IInv, JournalHolds, NEW receipt \in Requests, Record(receipt)
    PROVE  JournalHolds'
<1>1. receipt \in Receipt /\ Said(receipt).system_id \in Systems
    BY RequestIsReceipt DEF IInv
<1>2. PICK x \in Systems : x = Said(receipt).system_id
    BY <1>1
<1>3. /\ journal' = [journal EXCEPT ![x] = Append(@, receipt)]
      /\ disk' = disk /\ signing' = receipt /\ memory = disk
    BY <1>2 DEF Record, WithLine, IInv, MapIsDisk
<1>4. Said(receipt).seq = Len(disk[x].leaves)
    BY <1>2, <1>3 DEF Record, Admits, Continues
<1>5. ASSUME NEW s \in Systems, NEW seq \in Nat,
             Len(Adopted[s].leaves) <= seq, seq < Len(disk[s].leaves)
      PROVE  Gives(s, seq)'
    <2>1. Gives(s, seq)
        BY <1>5 DEF JournalHolds
    <2>2. QED
        BY <1>1, <1>3, <1>4, <1>5, <2>1, FreshLineHidesNothing
<1>6. journal'[x] # <<>> /\ journal'[x][Len(journal'[x])] = receipt
    <2>1. journal[x] \in Seq(Receipt \cup {Torn}) /\ journal'[x] = Append(journal[x], receipt)
        BY <1>3 DEF IInv, TypeOK
    <2>2. QED
        BY <1>1, <2>1, AppendProperties
<1>7. QED
    BY <1>2, <1>3, <1>5, <1>6 DEF JournalHolds, Said

LEMMA JournalTorn ==
    ASSUME IInv, JournalHolds, NEW receipt \in Requests, CrashTearingLine(receipt)
    PROVE  JournalHolds'
<1>1. PICK x \in Systems : x = Said(receipt).system_id
    BY RequestIsReceipt DEF IInv
<1>2. journal' = [journal EXCEPT ![x] = Append(@, Torn)] /\ disk' = disk /\ stage' = "idle"
    BY <1>1 DEF CrashTearingLine
<1>3. ASSUME NEW s \in Systems, NEW seq \in Nat,
             Len(Adopted[s].leaves) <= seq, seq < Len(disk[s].leaves)
      PROVE  Gives(s, seq)'
    <2>1. Gives(s, seq)
        BY <1>3 DEF JournalHolds
    <2>2. QED
        BY <1>2, <1>3, <2>1, FreshLineHidesNothing
<1>4. QED
    BY <1>2, <1>3 DEF JournalHolds

(* put() makes the line of the receipt in hand the chain's, and it is the   *)
(* last line there is.                                                      *)
LEMMA JournalPut ==
    ASSUME IInv, JournalHolds, Put
    PROVE  JournalHolds'
<1>0. PICK x \in Systems : x = Said(signing).system_id
    BY PutExtends
<1>1. /\ signing \in Seq(Content) /\ signing # <<>>
      /\ disk[x].leaves \in Seq(Content)
      /\ Said(signing) \in Content
      /\ Said(signing).seq = Len(disk[x].leaves)
      /\ Len(signing) = Len(disk[x].leaves) + 1
      /\ signing = Append(disk[x].leaves, Said(signing))
      /\ disk' = [disk EXCEPT ![x] = Chain(signing)]
    BY <1>0, PutExtends
<1>2. journal' = journal /\ stage = "recorded" /\ stage' = "put"
    BY DEF Put
<1>3. disk'[x].leaves = signing /\ \A s \in Systems : s # x => disk'[s] = disk[s]
    BY <1>1 DEF IInv, TypeOK, Chain
<1>4. ASSUME NEW s \in Systems, NEW seq \in Nat,
             Len(Adopted[s].leaves) <= seq, seq < Len(disk'[s].leaves)
      PROVE  Gives(s, seq)'
    <2>1. LinesAt(s, seq)' = LinesAt(s, seq)
        BY <1>2 DEF LinesAt, Said
    <2>2. CASE s # x
        <3>1. Gives(s, seq)
            BY <1>3, <1>4, <2>2 DEF JournalHolds
        <3>2. QED
            BY <1>2, <1>3, <2>1, <2>2, <3>1 DEF Gives
    <2>3. CASE s = x /\ seq < Len(disk[x].leaves)
        <3>1. Gives(s, seq)
            BY <1>4, <2>3 DEF JournalHolds
        <3>2. SubSeq(signing, 1, seq + 1) = SubSeq(disk[x].leaves, 1, seq + 1)
            <4> DEFINE leaves == disk[x].leaves
                       e == Said(signing)
            <4>1. leaves \in Seq(Content) /\ e \in Content /\ signing = Append(leaves, e) /\ seq < Len(leaves)
                BY <1>1, <2>3
            <4> HIDE DEF leaves, e
            <4>2. SubSeq(Append(leaves, e), 1, seq + 1) = SubSeq(leaves, 1, seq + 1)
                BY <4>1, SMT
            <4>3. QED
                BY <4>1, <4>2 DEF leaves
        <3>3. QED
            BY <1>2, <1>3, <2>1, <2>3, <3>1, <3>2 DEF Gives
    <2>4. CASE s = x /\ seq = Len(disk[x].leaves)
        <3> DEFINE lines == journal[x]
                   n == Len(lines)
        <3>1. lines \in Seq(Receipt \cup {Torn})
            BY DEF IInv, TypeOK
        <3>2. lines # <<>> /\ lines[n] = signing
            BY <1>0, <1>2 DEF JournalHolds
        <3>3. n \in 1..n
            BY <3>1, <3>2, EmptySeq
        <3>4. signing # Torn
            BY <1>1, SignerAssumption DEF Receipt
        <3>5. n \in LinesAt(x, seq) /\ \A k \in LinesAt(x, seq) : k <= n
            BY <1>1, <2>4, <3>2, <3>3, <3>4 DEF LinesAt
        <3>6. SubSeq(signing, 1, seq + 1) = signing
            BY <1>1, <2>4, SubSeqFull
        <3>7. QED
            BY <1>2, <1>3, <2>1, <2>4, <3>2, <3>5, <3>6 DEF Gives
    <2>5. s = x => seq < Len(disk[x].leaves) + 1 /\ Len(disk[x].leaves) \in Nat
        BY <1>1, <1>3, <1>4
    <2>6. QED
        BY <2>2, <2>3, <2>4, <2>5
<1>5. QED
    BY <1>2, <1>4 DEF JournalHolds

LEMMA JournalStep == IInv /\ JournalHolds /\ [Next]_vars => JournalHolds'
<1> SUFFICES ASSUME IInv, JournalHolds, [Next]_vars PROVE JournalHolds'
    OBVIOUS
<1>1. ASSUME NEW receipt \in Requests, Record(receipt) PROVE JournalHolds'
    BY <1>1, JournalRecord
<1>2. ASSUME NEW receipt \in Requests, CrashTearingLine(receipt) PROVE JournalHolds'
    BY <1>2, JournalTorn
<1>3. CASE Put
    BY <1>3, JournalPut
<1>4. ASSUME journal' = journal, disk' = disk, stage' = "recorded" => stage = "recorded" /\ signing' = signing
      PROVE  JournalHolds'
    <2>1. ASSUME NEW s \in Systems, NEW seq \in Nat
          PROVE  Gives(s, seq)' <=> Gives(s, seq)
        BY <1>4 DEF Gives, LinesAt, Said
    <2>2. QED
        BY <1>4, <2>1 DEF JournalHolds, Said
<1>5. CASE Answer \/ Crash \/ Restart \/ SetClock \/ UNCHANGED vars \/ \E s \in Systems : Seal(s)
    <2>1. /\ journal' = journal /\ disk' = disk
          /\ stage' = "recorded" => stage = "recorded" /\ signing' = signing
        BY <1>5 DEF Answer, Crash, Restart, SetClock, Seal, vars
    <2>2. QED
        BY <1>4, <2>1
<1>6. QED
    BY <1>1, <1>2, <1>3, <1>5 DEF Next

LEMMA JournalInit == Init => JournalHolds
<1> SUFFICES ASSUME Init PROVE JournalHolds
    OBVIOUS
<1>1. disk = Adopted /\ stage = "idle"
    BY DEF Init
<1>2. \A s \in Systems : Adopted[s].leaves \in Seq(Content)
    BY SignerAssumption DEF SystemState
<1>3. \A s \in Systems : Len(Adopted[s].leaves) \in Nat
    BY <1>2
<1>4. QED
    BY <1>1, <1>3 DEF JournalHolds

(* A page of GET_RECEIPTS is the receipts of the chain from the position    *)
(* asked for: no gap, no receipt that was never finished, up to the limit   *)
(* or the head (StateDirectory.receipts).                                   *)
LEMMA PageIsTheChain ==
    ASSUME IInv, JournalHolds, up,
           NEW s \in Systems, NEW from \in Nat, NEW limit \in Nat, limit >= 1,
           Len(Adopted[s].leaves) <= from, from < Len(memory[s].leaves)
    PROVE  LET last == IF from + limit <= Len(memory[s].leaves) THEN from + limit ELSE Len(memory[s].leaves)
           IN  Page(s, from, limit) = [i \in 1..(last - from) |-> SubSeq(memory[s].leaves, 1, from + i)]
<1> DEFINE leaves == memory[s].leaves
           n == Len(leaves)
           last == IF from + limit <= n THEN from + limit ELSE n
<1>1. memory = disk /\ leaves \in Seq(Content)
    BY DEF IInv, MapIsDisk, TypeOK, SystemState
<1>2. n \in Nat /\ Len(Adopted[s].leaves) \in Nat
    <2>1. Adopted[s].leaves \in Seq(Content)
        BY SignerAssumption DEF SystemState
    <2>2. QED
        BY <1>1, <2>1
<1>3. ASSUME NEW seq \in from..(n - 1)
      PROVE  Held(s, seq) /\ ReceiptAt(s, seq) = SubSeq(leaves, 1, seq + 1)
    <2>1. CASE seq = n - 1
        <3>1. SubSeq(leaves, 1, seq + 1) = leaves
            BY <1>1, <1>2, <2>1, SubSeqFull
        <3>2. QED
            BY <2>1, <3>1 DEF Held, ReceiptAt
    <2>2. CASE seq # n - 1
        <3>1. seq \in Nat /\ Len(Adopted[s].leaves) <= seq /\ seq < Len(disk[s].leaves)
            BY <1>1, <1>2
        <3>2. PICK i \in LinesAt(s, seq) :
                /\ \A k \in LinesAt(s, seq) : k <= i
                /\ journal[s][i] = SubSeq(leaves, 1, seq + 1)
            BY <1>1, <3>1 DEF JournalHolds, Gives
        <3>3. \A i1, i2 \in LinesAt(s, seq) :
                (\A k \in LinesAt(s, seq) : k <= i1) /\ (\A k \in LinesAt(s, seq) : k <= i2) => i1 = i2
            <4>1. LinesAt(s, seq) \subseteq Int
                BY DEF LinesAt
            <4>2. QED
                BY <4>1
        <3>4. (CHOOSE j \in LinesAt(s, seq) : \A k \in LinesAt(s, seq) : k <= j) = i
            BY <3>2, <3>3
        <3>5. QED
            BY <2>2, <3>2, <3>4 DEF Held, ReceiptAt
    <2>3. QED
        BY <2>1, <2>2
<1> DEFINE Stops(x) ==
        /\ x < from + limit
        /\ \A seq \in from..x : Held(s, seq)
        /\ \/ x = from + limit - 1
           \/ x = n - 1
           \/ ~Held(s, x + 1)
<1>4. PageEnd(s, from, limit) = last - 1
    <2>1. PageEnd(s, from, limit) = CHOOSE x \in (from - 1)..(n - 1) : Stops(x)
        BY DEF PageEnd
    <2>2. \A seq \in from..(n - 1) : Held(s, seq)
        BY <1>3
    <2> HIDE DEF n
    <2>3. last - 1 \in (from - 1)..(n - 1) /\ Stops(last - 1)
        BY <1>2, <2>2 DEF n
    <2>4. ASSUME NEW x \in (from - 1)..(n - 1), Stops(x)
          PROVE  x = last - 1
        <3>1. CASE x = from + limit - 1
            BY <1>2, <3>1
        <3>2. CASE x = n - 1
            BY <1>2, <2>4, <3>2
        <3>3. CASE ~Held(s, x + 1)
            <4>1. ~(x + 1 \in from..(n - 1))
                BY <2>2, <3>3
            <4>2. x = n - 1
                BY <1>2, <2>4, <4>1
            <4>3. QED
                BY <3>2, <4>2
        <3>4. QED
            BY <2>4, <3>1, <3>2, <3>3
    <2> HIDE DEF Stops, last
    <2>5. QED
        BY <2>1, <2>3, <2>4
<1>5. last \in Nat /\ last <= n /\ from < last
    BY <1>2
<1> HIDE DEF last
<1>6. \A i \in 1..(last - from) : ReceiptAt(s, from + i - 1) = SubSeq(leaves, 1, from + i)
    <2>1. ASSUME NEW i \in 1..(last - from)
          PROVE  ReceiptAt(s, from + i - 1) = SubSeq(leaves, 1, from + i)
        <3> HIDE DEF n
        <3>1. from + i - 1 \in from..(n - 1) /\ (from + i - 1) + 1 = from + i
            BY <1>2, <1>5
        <3>2. QED
            BY <1>3, <3>1
    <2>2. QED
        BY <2>1
<1>7. PageEnd(s, from, limit) - from + 1 = last - from
    BY <1>4, <1>5
<1>8. Page(s, from, limit) = [i \in 1..(last - from) |-> SubSeq(leaves, 1, from + i)]
    BY <1>6, <1>7 DEF Page
<1>9. QED
    BY <1>8 DEF last

(* After any number of torn lines and unfinished signatures, GET_RECEIPTS   *)
(* gives the server the receipts of the chain (StateDirectory.receipts).    *)
THEOREM JournalKeepsTheChain == Spec => []JournalGivesTheChain
<1>1. Spec => []JournalHolds
    BY Invariant, JournalInit, JournalStep, PTL DEF Spec
<1>2. IInv /\ JournalHolds => JournalGivesTheChain
    <2>1. MaxSeq \in Nat
        BY SignerAssumption
    <2>2. QED
        BY <2>1, PageIsTheChain DEF JournalGivesTheChain
<1>3. QED
    BY <1>1, <1>2, Invariant, PTL

-----------------------------------------------------------------------------
(* The signer implements EvidenceLog. *)

\* The record and what was told, as the refinement reads them.
Record_ == [s \in Systems |-> disk[s].leaves]
Told_ == {[system |-> Said(r).system_id, at |-> Len(r), event |-> Said(r)] : r \in answered}

LEMMA LogInit == Init => Log!Init
<1> SUFFICES ASSUME Init PROVE Log!Init
    OBVIOUS
<1>1. Record_ \in [Systems -> Seq(Content)]
    BY SignerAssumption DEF Init, Record_, SystemState
<1>2. Told_ = {}
    BY DEF Init, Told_
<1>3. QED
    BY <1>1, <1>2 DEF Log!Init, Record_, Told_

(* Only put() extends the record, by the receipt in hand; only the reply    *)
(* tells anyone, and of a receipt already there.                            *)
LEMMA LogStep == IInv /\ [Next]_vars => [Log!Next]_(Log!vars)
<1> SUFFICES ASSUME IInv, [Next]_vars PROVE Log!Next \/ UNCHANGED Log!vars
    BY DEF Log!vars
<1>1. CASE Put
    <2>0. PICK s \in Systems : s = Said(signing).system_id
        BY <1>1, PutExtends
    <2>1. /\ s \in Systems /\ Said(signing) \in Content
          /\ signing = Append(disk[s].leaves, Said(signing))
          /\ disk' = [disk EXCEPT ![s] = Chain(signing)]
        BY <1>1, <2>0, PutExtends
    <2>2. Record_' = [Record_ EXCEPT ![s] = Append(@, Said(signing))]
        <3>1. \A x \in Systems : disk'[x].leaves = IF x = s THEN Append(disk[s].leaves, Said(signing)) ELSE disk[x].leaves
            BY <2>1 DEF IInv, TypeOK, Chain
        <3>2. QED
            BY <2>1, <3>1 DEF Record_
    <2>3. Told_' = Told_
        BY <1>1 DEF Put, Told_, Said
    <2>4. Log!Extend(s)
        BY <2>1, <2>2, <2>3 DEF Log!Extend, Record_, Told_
    <2>5. QED
        BY <2>4 DEF Log!Next
<1>2. CASE Answer
    <2>0. signing \in Seq(Content) /\ signing # <<>> /\ Said(signing) \in Content
        BY <1>2, FrontThenLast DEF Answer, IInv, TypeOK, InHand, Said
    <2>s. PICK s \in Systems : s = Said(signing).system_id
        BY <2>0 DEF Content
    <2>1. /\ disk' = disk /\ answered' = answered \cup {signing} /\ stage = "put"
        BY <1>2 DEF Answer
    <2>2. disk[s].leaves = signing
        BY <2>1, <2>s DEF IInv, InHand
    <2>3. Len(signing) \in 1..Len(signing) /\ Said(signing) = signing[Len(signing)]
        BY <2>0, EmptySeq DEF Said, Last
    <2>4. Told_' = Told_ \cup {[system |-> s, at |-> Len(signing), event |-> Said(signing)]}
        BY <2>1, <2>s DEF Told_, Said
    <2>5. Record_' = Record_ /\ Record_[s] = signing
        BY <2>1, <2>2 DEF Record_
    <2>6. Told_' = Told_ \cup {[system |-> s, at |-> Len(signing), event |-> Record_[s][Len(signing)]]}
        BY <2>3, <2>4, <2>5
    <2>7. Log!Tell(s)
        BY <2>3, <2>5, <2>6 DEF Log!Tell, Record_, Told_
    <2>8. QED
        BY <2>7 DEF Log!Next
<1>3. CASE disk' = disk /\ answered' = answered
    BY <1>3 DEF Log!vars, Said
<1>4. QED
    BY <1>1, <1>2, <1>3 DEF Next, Record, CrashTearingLine, Crash, Restart, SetClock, Seal, vars

(* Every behaviour of the signer is one of EvidenceLog: the record is what  *)
(* its state files hold, and nothing is told before it is there.            *)
THEOREM SignerImplementsLog == Spec => ImplementsLog
<1>1. Spec => Log!Spec
    BY LogInit, LogStep, Invariant, PTL DEF Spec, Log!Spec
<1>2. QED
    BY <1>1 DEF ImplementsLog
=============================================================================
