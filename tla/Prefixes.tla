------------------------------ MODULE Prefixes ------------------------------
(* Lemmas about chains that only ever grow: their beginnings, and the last *)
(* of some places on them.                                                 *)
EXTENDS Integers, Sequences, SequencesExt, SequenceTheorems, WellFoundedInduction, TLAPS

(* A prefix agrees with the whole wherever it is defined: what it is for a *)
(* database to hold the beginning of the signer's chain.                   *)
LEMMA PrefixPointwise ==
    ASSUME NEW S, NEW s \in Seq(S), NEW t \in Seq(S)
    PROVE  IsPrefix(s, t) <=> Len(s) <= Len(t) /\ \A i \in 1..Len(s) : s[i] = t[i]
<1>1. ASSUME Len(s) <= Len(t)
      PROVE  /\ SubSeq(t, 1, Len(s)) \in Seq(S)
             /\ Len(SubSeq(t, 1, Len(s))) = Len(s)
             /\ \A i \in 1..Len(s) : SubSeq(t, 1, Len(s))[i] = t[i]
    BY <1>1, SMT
<1>2. SubSeq(s, 1, Len(s)) = s
    BY SubSeqFull
<1>3. ASSUME Len(s) <= Len(t), \A i \in 1..Len(s) : s[i] = t[i]
      PROVE  s = SubSeq(t, 1, Len(s))
    BY <1>1, <1>3, SeqEqual
<1>4. QED
    BY <1>1, <1>2, <1>3 DEF IsPrefix

(* Every chain begins with itself. *)
LEMMA PrefixReflexive ==
    ASSUME NEW S, NEW s \in Seq(S)
    PROVE  IsPrefix(s, s)
    BY PrefixPointwise

(* What a chain begins with, its extensions begin with. *)
LEMMA PrefixTransitive ==
    ASSUME NEW S, NEW s \in Seq(S), NEW t \in Seq(S), NEW u \in Seq(S),
           IsPrefix(s, t), IsPrefix(t, u)
    PROVE  IsPrefix(s, u)
    BY PrefixPointwise

(* One more receipt leaves the chain before it as it was. *)
LEMMA PrefixAppend ==
    ASSUME NEW S, NEW s \in Seq(S), NEW t \in Seq(S), NEW e \in S, IsPrefix(s, t)
    PROVE  IsPrefix(s, Append(t, e))
<1>1. /\ Append(t, e) \in Seq(S)
      /\ Len(Append(t, e)) = Len(t) + 1
      /\ \A i \in 1..Len(t) : Append(t, e)[i] = t[i]
    BY AppendProperties
<1>2. Len(s) <= Len(t) /\ \A i \in 1..Len(s) : s[i] = t[i]
    BY PrefixPointwise
<1>3. Len(s) \in Nat /\ Len(t) \in Nat
    OBVIOUS
<1>4. Len(s) <= Len(Append(t, e)) /\ \A i \in 1..Len(s) : s[i] = Append(t, e)[i]
    BY <1>1, <1>2, <1>3
<1>5. QED
    BY <1>1, <1>4, PrefixPointwise

(* Two beginnings of one chain, equally long, are the same: no fork. *)
LEMMA PrefixUnique ==
    ASSUME NEW S, NEW s \in Seq(S), NEW t \in Seq(S), NEW u \in Seq(S),
           IsPrefix(s, u), IsPrefix(t, u), Len(s) = Len(t)
    PROVE  s = t
    BY DEF IsPrefix, SMT, SubSeqFull

(* Two beginnings of one chain: one begins the other. *)
LEMMA PrefixesComparable ==
    ASSUME NEW S, NEW s \in Seq(S), NEW t \in Seq(S), NEW u \in Seq(S),
           IsPrefix(s, u), IsPrefix(t, u)
    PROVE  IsPrefix(s, t) \/ IsPrefix(t, s)
    BY PrefixPointwise

(* A receipt's hash is what it says, hashed after its prev_hash. *)
LEMMA FrontThenLast ==
    ASSUME NEW S, NEW s \in Seq(S), s # <<>>
    PROVE  /\ Front(s) \in Seq(S)
           /\ Last(s) \in S
           /\ Len(Front(s)) = Len(s) - 1
           /\ Append(Front(s), Last(s)) = s
<1>1. Len(s) \in Nat /\ Len(s) > 0
    BY EmptySeq
<1>2. Front(s) \in Seq(S) /\ Len(Front(s)) = Len(s) - 1 /\ \A i \in 1..Len(s) - 1 : Front(s)[i] = s[i]
    <2>1. \A i \in 1..Len(s) - 1 : s[i] \in S
        BY <1>1, ElementOfSeq
    <2> DEFINE n == Len(s) - 1
    <2>2. n \in Nat /\ n = Len(s) - 1
        BY <1>1
    <2> HIDE DEF n
    <2>3. /\ SubSeq(s, 1, n) \in Seq(S)
          /\ Len(SubSeq(s, 1, n)) = IF 1 <= n THEN n - 1 + 1 ELSE 0
          /\ \A i \in 1..(n - 1 + 1) : SubSeq(s, 1, n)[i] = s[1 + i - 1]
        BY <2>1, <2>2, SubSeqProperties
    <2>4. Front(s) = SubSeq(s, 1, n)
        BY <2>2 DEF Front
    <2>5. Len(SubSeq(s, 1, n)) = n /\ \A i \in 1..n : SubSeq(s, 1, n)[i] = s[i]
        BY <2>2, <2>3
    <2>6. QED
        BY <2>2, <2>3, <2>4, <2>5
<1>3. Last(s) \in S
    BY <1>1, ElementOfSeq DEF Last
<1>4. /\ Append(Front(s), Last(s)) \in Seq(S)
      /\ Len(Append(Front(s), Last(s))) = Len(s)
      /\ \A i \in 1..Len(s) : Append(Front(s), Last(s))[i] = s[i]
    BY <1>1, <1>2, <1>3, AppendProperties DEF Last
<1>5. QED
    BY <1>2, <1>3, <1>4, SeqEqual

-----------------------------------------------------------------------------
(* Places. *)

(* Naturals are well founded: every nonempty set of them has a least one.   *)
LEMMA LeastNatural ==
    ASSUME NEW T, T \subseteq Nat, T # {}
    PROVE  \E x \in T : \A y \in T : x <= y
<1> DEFINE R == OpToRel(<, Nat)
<1>1. IsWellFoundedOn(R, Nat)
    BY NatLessThanWellFounded, Zenon
<1>2. \A x \in Nat : \A y \in Nat : y < x => <<y, x>> \in R
    BY DEF OpToRel
<1> HIDE DEF R
<1>3. PICK x \in T : \A y \in T : ~(<<y, x>> \in R)
    BY <1>1, WFMin
<1>4. ASSUME NEW y \in T PROVE x <= y
    <2>1. ~(y < x)
        BY <1>2, <1>3
    <2>2. x \in Nat /\ y \in Nat
        OBVIOUS
    <2>3. QED
        BY <2>1, <2>2, SMT
<1>5. QED
    BY <1>4

(* Of some places of a chain there is a last one, and only one. *)
LEMMA LastPlace ==
    ASSUME NEW n \in Nat, NEW places \in SUBSET (1..n), places # {}
    PROVE  \E i \in places :
            /\ \A k \in places : k <= i
            /\ (CHOOSE j \in places : \A k \in places : k <= j) = i
<1> DEFINE T == {n - i : i \in places}
<1>0. \A i \in places : i \in Nat /\ n - i \in Nat
    OBVIOUS
<1>1. T \subseteq Nat /\ T # {}
    BY <1>0
<1>2. PICK x \in T : \A y \in T : x <= y
    BY <1>1, LeastNatural
<1>3. PICK i \in places : x = n - i
    BY <1>2
<1>4. ASSUME NEW k \in places PROVE k <= i
    <2>1. n - k \in T
        OBVIOUS
    <2>2. n - i <= n - k
        BY <1>2, <1>3, <2>1
    <2>3. QED
        BY <1>0, <2>2
<1>5. ASSUME NEW j \in places, \A k \in places : k <= j PROVE j = i
    <2>1. j <= i /\ i <= j
        BY <1>4, <1>5
    <2>2. QED
        BY <1>0, <2>1
<1>6. QED
    BY <1>4, <1>5
=============================================================================
