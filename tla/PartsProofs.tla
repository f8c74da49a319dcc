---------------------------- MODULE PartsProofs ----------------------------
(***************************************************************************)
(* What the smaller parts keep, for any people, systems, keys and requests *)
(* and however long each of them runs: the copies of the database, the     *)
(* sessions, the owners' keys, the daily files, the signer's memory, the   *)
(* people behind the receipts, the line to the signer and the              *)
(* checkpointer.  Each theorem is of the part's own specification: the     *)
(* parts share no variable, so that it holds of every interleaving of them *)
(* too.                                                                    *)
(***************************************************************************)
EXTENDS Keeping, Restored, SignerLine, Checkpointer,
        Prefixes, FiniteSets, FiniteSetTheorems, FunctionTheorems, SequenceTheorems, TLAPS

-----------------------------------------------------------------------------
(* The copies.  Which of two files is the older is all that the listings    *)
(* look at: a run that writes becomes the newest, and what others write     *)
(* before it lists is less than what it keeps.                              *)

Copies == Nat \X BOOLEAN

\* The bounds under which a complete copy is safe: as by default, and for runs
\* an hour apart each of which takes less than two.
TwoByTwo == Keep >= 2 /\ Overlap <= 2

CopyTypes ==
    /\ copies \in Seq(Copies)
    /\ backups \in Seq(Copying!Stages) /\ Len(backups) <= MaxRuns
    /\ old \in [Copying!Numbers -> Seq(Copies)]
    /\ since \in [Copying!Numbers -> SUBSET Copying!Numbers]

Going(n) == n \in 1..Len(backups) /\ backups[n] \in {"copying", "listing", "removing"}
StillCopies(n) == n \in 1..Len(backups) /\ backups[n] = "copying"
Lists(n) == n \in 1..Len(backups) /\ backups[n] = "listing"
Removes(n) == n \in 1..Len(backups) /\ backups[n] = "removing"
Waits(n) == StillCopies(n) \/ Lists(n)
Dooms(n, m) == \E i \in 1..Len(old[n]) : old[n][i][1] = m

Full(n) == \E i \in 1..Len(copies) : copies[i][1] = n /\ copies[i][2]
Older(a, b) == \E i, j \in 1..Len(copies) : i < j /\ copies[i][1] = a /\ copies[j][1] = b

OneCopyEach ==
    \A i, j \in 1..Len(copies) : copies[i][1] = copies[j][1] => i = j

OfTheRuns ==
    \A n : /\ Copying!InDirectory(n) => n \in 1..Len(backups)
           /\ Full(n) => ~StillCopies(n)

\* Only a run that removes has a list, and only one whose copy is complete is
\* overtaken.
Listed ==
    \A n \in Copying!Numbers :
        /\ \A m : Dooms(n, m) => Removes(n) /\ m \in 1..Len(backups)
        /\ since[n] # {} => n \in 1..Len(backups) /\ ~StillCopies(n)

TwoAtOnce == \A a, b, c \in 1..Len(backups) :
    Going(a) /\ Going(b) /\ Going(c) => a = b \/ b = c \/ a = c

CopyBase == CopyTypes /\ OneCopyEach /\ OfTheRuns /\ Listed /\ TwoAtOnce

\* The rest is so as long as nobody was overtaken.  A run's list is of others.
OthersListed == \A n \in Copying!Numbers : ~Dooms(n, n)

\* A run about to remove the copy of one that has not listed yet has its own
\* complete, and none but that other has written since.
LastWord ==
    \A n \in Copying!Numbers : \A m :
        Dooms(n, m) /\ Waits(m) /\ Copying!InDirectory(m) =>
            Full(n) /\ \A b : Older(n, b) => b = m

\* What is newer than the copy of a run that is to list was written since, and
\* so was what is newer than that.
Fresh ==
    \A n : Lists(n) =>
        /\ Copying!InDirectory(n) => Full(n) /\ \A b : Older(n, b) => b \in since[n]
        /\ \A m \in since[n] : \A b : Older(m, b) => b \in since[n]

\* The other run either wrote since then too, or it alone could have.
Beside ==
    \A n, m : Lists(n) /\ Waits(m) /\ m # n /\ m \notin since[n] =>
        since[n] = {} /\ Copying!InDirectory(n)

\* Of two runs that are to list one was complete first.
NotBoth == \A n, m : Lists(n) /\ Lists(m) => ~(n \in since[m] /\ m \in since[n])

Spared(n) == Full(n) /\ \A m \in Copying!Numbers : ~Dooms(m, n)

\* Of the complete copies one is on nobody's list.
OneIsSpared == (\E n : Full(n)) => \E n : Spared(n)

\* And on none that a run to list will have: it is as new as what was written
\* since, unless the run's own is on a list.
Safe ==
    \A n : Lists(n) =>
        \/ \E m : Spared(m) /\ \A b : Older(m, b) => b \in since[n]
        \/ Copying!InDirectory(n) /\ \E m \in Copying!Numbers : Dooms(m, n)

CopySafe ==
    /\ OthersListed /\ LastWord /\ Fresh /\ Beside
    /\ NotBoth /\ OneIsSpared /\ Safe

CopyInv == CopyBase /\ (~Copying!Overtaken => CopySafe)

LEMMA SomeComplete ==
    /\ Copying!Complete # {} <=> \E n : Full(n)
    /\ Copying!Complete' # {} <=> \E n : Full(n)'
<1>1. Copying!Complete # {} <=> \E i \in 1..Len(copies) : copies[i][2]
    BY DEF Copying!Complete, Copying!ToSet
<1>2. Copying!Complete' # {} <=> \E i \in 1..Len(copies') : copies'[i][2]
    BY DEF Copying!Complete, Copying!ToSet
<1> QED
    BY <1>1, <1>2 DEF Full

LEMMA RunsAreNumbered ==
    ASSUME CopyTypes, NEW n \in 1..Len(backups)
    PROVE  n \in Copying!Numbers /\ n \in Nat
BY KeepingConstants DEF Copying!BackupsConstants, CopyTypes, Copying!Numbers

LEMMA OneOut ==
    ASSUME NEW S, NEW s \in Seq(S), NEW k \in 1..Len(s)
    PROVE  LET w == SubSeq(s, 1, k - 1) \o SubSeq(s, k + 1, Len(s))
           IN  /\ w \in Seq(S) /\ Len(w) = Len(s) - 1
               /\ \A i \in 1..Len(w) : w[i] = IF i < k THEN s[i] ELSE s[i + 1]
<1> DEFINE n == Len(s)
           front == SubSeq(s, 1, k - 1)
           back == SubSeq(s, k + 1, n)
<1>1. n \in Nat /\ k \in 1..n /\ \A i \in 1..n : s[i] \in S
    OBVIOUS
<1> HIDE DEF n
<1>2. /\ k - 1 \in Int /\ k + 1 \in Int /\ 1 \in Int /\ n \in Int
      /\ \A i \in 1..(k - 1) : s[i] \in S
      /\ \A i \in (k + 1)..n : s[i] \in S
    BY <1>1
<1>3. /\ front \in Seq(S) /\ Len(front) = IF 1 <= k - 1 THEN k - 1 - 1 + 1 ELSE 0
      /\ \A i \in 1..(k - 1 - 1 + 1) : front[i] = s[1 + i - 1]
    BY <1>2, SubSeqProperties
<1>4. /\ back \in Seq(S) /\ Len(back) = IF k + 1 <= n THEN n - (k + 1) + 1 ELSE 0
      /\ \A i \in 1..(n - (k + 1) + 1) : back[i] = s[k + 1 + i - 1]
    BY <1>2, SubSeqProperties
<1> HIDE DEF front, back
<1>5. Len(front) = k - 1 /\ Len(back) = n - k
    BY <1>1, <1>3, <1>4
<1>6. /\ front \o back \in Seq(S)
      /\ Len(front \o back) = Len(front) + Len(back)
      /\ \A i \in 1..(Len(front) + Len(back)) :
             (front \o back)[i] = IF i <= Len(front) THEN front[i] ELSE back[i - Len(front)]
    BY <1>3, <1>4, ConcatProperties
<1>7. Len(front \o back) = n - 1
    BY <1>1, <1>5, <1>6
<1>8. ASSUME NEW i \in 1..(n - 1)
      PROVE  (front \o back)[i] = IF i < k THEN s[i] ELSE s[i + 1]
  <2>1. CASE i < k
      BY <2>1, <1>1, <1>3, <1>5, <1>6
  <2>2. CASE ~(i < k)
    <3>1. /\ i - (k - 1) \in 1..(n - (k + 1) + 1)
          /\ k + 1 + (i - (k - 1)) - 1 = i + 1
        BY <2>2, <1>1
    <3>2. back[i - (k - 1)] = s[i + 1]
        BY <3>1, <1>4
    <3> QED
        BY <2>2, <3>2, <1>1, <1>5, <1>6
  <2> QED
      BY <2>1, <2>2
<1> QED
    BY <1>6, <1>7, <1>8 DEF front, back, n

\* What is left of the directory, in the order it had.
Leaves(w, g, n) ==
    /\ g \in [1..Len(w) -> 1..Len(copies)]
    /\ \A i \in 1..Len(w) : w[i] = copies[g[i]] /\ w[i][1] # n
    /\ \A i, j \in 1..Len(w) : i < j => g[i] < g[j]
    /\ \A a \in 1..Len(copies) : copies[a][1] # n => \E i \in 1..Len(w) : g[i] = a

LEMMA CopiesLeft ==
    ASSUME CopyTypes, OneCopyEach, NEW n
    PROVE  /\ Copying!Without(n) \in Seq(Copies)
           /\ \E g : Leaves(Copying!Without(n), g, n)
<1> DEFINE w == Copying!Without(n)
<1>1. CASE ~Copying!InDirectory(n)
  <2>1. w = copies
      BY <1>1 DEF Copying!Without
  <2>2. DOMAIN copies = 1..Len(copies) /\ Len(copies) \in Nat
      BY DEF CopyTypes
  <2>3. Leaves(w, [i \in 1..Len(w) |-> i], n)
      BY <1>1, <2>1, <2>2 DEF Leaves, Copying!InDirectory
  <2> QED
      BY <2>1, <2>3 DEF CopyTypes
<1>2. CASE Copying!InDirectory(n)
  <2> DEFINE k == Copying!Place(n)
  <2>0. copies \in Seq(Copies) /\ Len(copies) \in Nat /\ DOMAIN copies = 1..Len(copies)
      BY DEF CopyTypes
  <2>1. k \in 1..Len(copies) /\ copies[k][1] = n
      BY <1>2, <2>0 DEF Copying!Place, Copying!InDirectory
  <2>2. w = SubSeq(copies, 1, k - 1) \o SubSeq(copies, k + 1, Len(copies))
      BY <1>2, Zenon DEF Copying!Without, Copying!RemoveAt
  <2> HIDE DEF k
  <2>3. /\ w \in Seq(Copies) /\ Len(w) = Len(copies) - 1
        /\ \A i \in 1..Len(w) : w[i] = IF i < k THEN copies[i] ELSE copies[i + 1]
      BY <2>0, <2>1, <2>2, OneOut, Zenon
  <2> HIDE DEF w
  <2> DEFINE g == [i \in 1..Len(w) |-> IF i < k THEN i ELSE i + 1]
  <2>4. g \in [1..Len(w) -> 1..Len(copies)]
      BY <2>0, <2>1, <2>3
  <2>5. \A i \in 1..Len(w) : w[i] = copies[g[i]] /\ g[i] # k
      BY <2>0, <2>1, <2>3
  <2>6. \A i \in 1..Len(w) : w[i][1] # n
    <3> SUFFICES ASSUME NEW i \in 1..Len(w), w[i][1] = n
                 PROVE  FALSE
        OBVIOUS
    <3> HIDE DEF g
    <3>1. g[i] \in 1..Len(copies) /\ copies[g[i]][1] = copies[k][1] /\ g[i] # k
        BY <2>1, <2>4, <2>5
    <3> QED
        BY <2>1, <3>1 DEF OneCopyEach
  <2>7. \A a \in 1..Len(copies) : copies[a][1] # n => \E i \in 1..Len(w) : g[i] = a
    <3> SUFFICES ASSUME NEW a \in 1..Len(copies), copies[a][1] # n
                 PROVE  \E i \in 1..Len(w) : g[i] = a
        OBVIOUS
    <3>1. CASE a < k
        BY <3>1, <2>0, <2>1, <2>3
    <3>2. CASE a > k
      <4>1. a - 1 \in 1..Len(w) /\ g[a - 1] = a
          BY <3>2, <2>0, <2>1, <2>3
      <4> QED
          BY <4>1
    <3> QED
        BY <3>1, <3>2, <2>0, <2>1
  <2>8. \A i, j \in 1..Len(w) : i < j => g[i] < g[j]
      BY <2>0, <2>1, <2>3
  <2>9. Leaves(w, g, n)
      BY <2>4, <2>5, <2>6, <2>7, <2>8 DEF Leaves
  <2> QED
      BY <2>3, <2>9 DEF w
<1> QED
    BY <1>1, <1>2

(* Of two files one is the older. *)
LEMMA Order ==
    ASSUME CopyTypes, OneCopyEach
    PROVE  /\ \A a : ~Older(a, a)
           /\ \A a, b : Older(a, b) => Copying!InDirectory(a) /\ Copying!InDirectory(b)
           /\ \A a, b : Copying!InDirectory(a) /\ Copying!InDirectory(b) /\ a # b
                        => Older(a, b) \/ Older(b, a)
           /\ \A a, b : Older(a, b) => ~Older(b, a)
           /\ \A a, b, c : Older(a, b) /\ Older(b, c) => Older(a, c)
           /\ \A a : Full(a) => Copying!InDirectory(a)
<1>1. Len(copies) \in Nat /\ DOMAIN copies = 1..Len(copies)
    BY DEF CopyTypes
<1>2. \A a : ~Older(a, a)
    BY <1>1 DEF Older, OneCopyEach
<1>3. \A a, b : Older(a, b) => Copying!InDirectory(a) /\ Copying!InDirectory(b)
    BY <1>1 DEF Older, Copying!InDirectory
<1>4. \A a, b : Copying!InDirectory(a) /\ Copying!InDirectory(b) /\ a # b => Older(a, b) \/ Older(b, a)
  <2> SUFFICES ASSUME NEW a, NEW b, Copying!InDirectory(a), Copying!InDirectory(b), a # b
               PROVE  Older(a, b) \/ Older(b, a)
      OBVIOUS
  <2>1. PICK i \in 1..Len(copies) : copies[i][1] = a
      BY <1>1 DEF Copying!InDirectory
  <2>2. PICK j \in 1..Len(copies) : copies[j][1] = b
      BY <1>1 DEF Copying!InDirectory
  <2>3. i < j \/ j < i
      BY <1>1, <2>1, <2>2
  <2> QED
      BY <2>1, <2>2, <2>3 DEF Older
<1>5. \A a, b, c : Older(a, b) /\ Older(b, c) => Older(a, c)
  <2> SUFFICES ASSUME NEW a, NEW b, NEW c, Older(a, b), Older(b, c) PROVE Older(a, c)
      OBVIOUS
  <2>1. PICK i \in 1..Len(copies), j \in 1..Len(copies) : i < j /\ copies[i][1] = a /\ copies[j][1] = b
      BY DEF Older
  <2>2. PICK k \in 1..Len(copies), l \in 1..Len(copies) : k < l /\ copies[k][1] = b /\ copies[l][1] = c
      BY DEF Older
  <2>3. j = k
      BY <2>1, <2>2 DEF OneCopyEach
  <2>4. i < l
      BY <1>1, <2>1, <2>2, <2>3
  <2> QED
      BY <2>1, <2>2, <2>4 DEF Older
<1>6. \A a : Full(a) => Copying!InDirectory(a)
    BY <1>1 DEF Full, Copying!InDirectory
<1> QED
    BY <1>2, <1>3, <1>4, <1>5, <1>6, Zenon

(* A file that is written is the newest. *)
LEMMA Written ==
    ASSUME CopyTypes, OneCopyEach, NEW n \in Nat, NEW f \in BOOLEAN,
           copies' = Append(Copying!Without(n), <<n, f>>)
    PROVE  /\ copies' \in Seq(Copies) /\ OneCopyEach'
           /\ \A x : Copying!InDirectory(x)' <=> Copying!InDirectory(x) \/ x = n
           /\ \A x : Full(x)' <=> IF x = n THEN f ELSE Full(x)
           /\ \A a, b : Older(a, b)' <=> a # n /\ IF b = n THEN Copying!InDirectory(a) ELSE Older(a, b)
<1> DEFINE w == Copying!Without(n)
<1>1. w \in Seq(Copies)
    BY CopiesLeft
<1>2. PICK g : Leaves(w, g, n)
    BY CopiesLeft
<1>3. copies' = Append(w, <<n, f>>) /\ <<n, f>> \in Copies
    BY DEF Copies
<1> HIDE DEF w
<1>4. /\ copies' \in Seq(Copies) /\ Len(copies') = Len(w) + 1 /\ Len(w) \in Nat
      /\ copies'[Len(w) + 1] = <<n, f>> /\ \A i \in 1..Len(w) : copies'[i] = w[i]
  <2>1. /\ Append(w, <<n, f>>) \in Seq(Copies) /\ Len(Append(w, <<n, f>>)) = Len(w) + 1
        /\ Append(w, <<n, f>>)[Len(w) + 1] = <<n, f>>
        /\ \A i \in 1..Len(w) : Append(w, <<n, f>>)[i] = w[i]
      BY <1>1, <1>3, AppendProperties
  <2>2. Len(w) \in Nat
      BY <1>1
  <2> QED
      BY <1>3, <2>1, <2>2, Zenon
<1>5. /\ DOMAIN copies = 1..Len(copies) /\ Len(copies) \in Nat /\ DOMAIN copies' = 1..Len(copies')
      /\ \A i \in 1..Len(copies') : i \in 1..Len(w) \/ i = Len(w) + 1
      /\ copies'[Len(w) + 1][1] = n /\ copies'[Len(w) + 1][2] = f
      /\ Len(w) + 1 \in 1..Len(copies') /\ \A i \in 1..Len(w) : i \in 1..Len(copies') /\ i < Len(w) + 1
    BY <1>4 DEF CopyTypes
<1>6. \A i \in 1..Len(w) : /\ copies'[i] = copies[g[i]] /\ g[i] \in 1..Len(copies)
                           /\ copies'[i][1] # n /\ copies[g[i]][1] # n
    BY <1>2, <1>4 DEF Leaves
<1>7. \A a \in 1..Len(copies) : copies[a][1] # n => \E i \in 1..Len(w) : g[i] = a
    BY <1>2 DEF Leaves
<1>8. \A i, j \in 1..Len(w) : i < j <=> g[i] < g[j]
  <2>1. \A i, j \in 1..Len(w) : i < j => g[i] < g[j]
      BY <1>2 DEF Leaves
  <2>2. \A i, j \in 1..Len(w) : i < j \/ j < i \/ i = j
      BY <1>4
  <2> QED
      BY <1>4, <1>5, <1>6, <2>1, <2>2
<1>9. OneCopyEach'
  <2> SUFFICES ASSUME NEW i \in 1..Len(copies'), NEW j \in 1..Len(copies'), copies'[i][1] = copies'[j][1]
               PROVE  i = j
      BY Zenon DEF OneCopyEach
  <2>1. ASSUME i \in 1..Len(w), j \in 1..Len(w)
        PROVE  i = j
    <3>1. g[i] = g[j]
        BY <1>6, <2>1 DEF OneCopyEach
    <3>2. g[i] \in Nat
        BY <1>6, <2>1
    <3> QED
        BY <1>4, <1>8, <2>1, <3>1, <3>2
  <2> QED
      BY <1>5, <1>6, <2>1
<1>10. \A x : Copying!InDirectory(x)' <=> Copying!InDirectory(x) \/ x = n
  <2>1. ASSUME NEW x, Copying!InDirectory(x)'
        PROVE  Copying!InDirectory(x) \/ x = n
      BY <1>5, <1>6, <2>1 DEF Copying!InDirectory
  <2>2. ASSUME NEW x, Copying!InDirectory(x) \/ x = n
        PROVE  Copying!InDirectory(x)'
    <3>1. CASE x = n
        BY <1>5, <3>1 DEF Copying!InDirectory
    <3>2. CASE x # n
      <4>1. PICK k \in 1..Len(copies) : copies[k][1] = x
          BY <1>5, <2>2, <3>2 DEF Copying!InDirectory
      <4>2. PICK i \in 1..Len(w) : g[i] = k
          BY <1>7, <3>2, <4>1
      <4>3. i \in DOMAIN copies' /\ copies'[i][1] = x
          BY <1>5, <1>6, <4>1, <4>2
      <4> QED
          BY <4>3 DEF Copying!InDirectory
    <3> QED
        BY <3>1, <3>2
  <2> QED
      BY <2>1, <2>2
<1>11. \A x : Full(x)' <=> IF x = n THEN f ELSE Full(x)
  <2>1. ASSUME NEW x, Full(x)'
        PROVE  IF x = n THEN f ELSE Full(x)
      BY <1>5, <1>6, <2>1 DEF Full
  <2>2. ASSUME f
        PROVE  Full(n)'
      BY <1>5, <2>2 DEF Full
  <2>3. ASSUME NEW x, x # n, Full(x)
        PROVE  Full(x)'
    <3>1. PICK k \in 1..Len(copies) : copies[k][1] = x /\ copies[k][2]
        BY <2>3 DEF Full
    <3>2. PICK i \in 1..Len(w) : g[i] = k
        BY <1>7, <2>3, <3>1
    <3>3. i \in 1..Len(copies') /\ copies'[i][1] = x /\ copies'[i][2]
        BY <1>5, <1>6, <3>1, <3>2
    <3> QED
        BY <3>3 DEF Full
  <2> QED
      BY <2>1, <2>2, <2>3
<1>12. \A a, b : Older(a, b)' <=> a # n /\ IF b = n THEN Copying!InDirectory(a) ELSE Older(a, b)
  <2>1. ASSUME NEW a, NEW b, Older(a, b)'
        PROVE  a # n /\ IF b = n THEN Copying!InDirectory(a) ELSE Older(a, b)
    <3>1. PICK i \in 1..Len(copies'), j \in 1..Len(copies') : i < j /\ copies'[i][1] = a /\ copies'[j][1] = b
        BY <2>1 DEF Older
    <3>2. i \in 1..Len(w)
        BY <1>4, <1>5, <3>1
    <3>3. a # n /\ Copying!InDirectory(a)
        BY <1>5, <1>6, <3>1, <3>2 DEF Copying!InDirectory
    <3>4. CASE j \in 1..Len(w)
      <4>1. g[i] < g[j] /\ b # n
          BY <1>6, <1>8, <3>1, <3>2, <3>4
      <4> QED
          BY <1>6, <3>1, <3>2, <3>3, <3>4, <4>1 DEF Older
    <3>5. CASE j = Len(w) + 1
        BY <1>5, <3>1, <3>3, <3>5
    <3> QED
        BY <1>5, <3>4, <3>5
  <2>2. ASSUME NEW a, a # n, Copying!InDirectory(a)
        PROVE  Older(a, n)'
    <3>1. PICK k \in 1..Len(copies) : copies[k][1] = a
        BY <1>5, <2>2 DEF Copying!InDirectory
    <3>2. PICK i \in 1..Len(w) : g[i] = k
        BY <1>7, <2>2, <3>1
    <3>3. copies'[i][1] = a
        BY <1>6, <3>1, <3>2
    <3> QED
        BY <1>5, <3>3 DEF Older
  <2>3. ASSUME NEW a, NEW b, a # n, b # n, Older(a, b)
        PROVE  Older(a, b)'
    <3>1. PICK k \in 1..Len(copies), l \in 1..Len(copies) : k < l /\ copies[k][1] = a /\ copies[l][1] = b
        BY <2>3 DEF Older
    <3>2. PICK i \in 1..Len(w) : g[i] = k
        BY <1>7, <2>3, <3>1
    <3>3. PICK j \in 1..Len(w) : g[j] = l
        BY <1>7, <2>3, <3>1
    <3>4. i < j /\ copies'[i][1] = a /\ copies'[j][1] = b
        BY <1>6, <1>8, <3>1, <3>2, <3>3
    <3> QED
        BY <1>5, <3>4 DEF Older
  <2> QED
      BY <2>1, <2>2, <2>3
<1> QED
    BY <1>4, <1>9, <1>10, <1>11, <1>12

(* A file that is removed leaves the others in their order. *)
LEMMA Removed ==
    ASSUME CopyTypes, OneCopyEach, NEW n, copies' = Copying!Without(n)
    PROVE  /\ copies' \in Seq(Copies) /\ OneCopyEach'
           /\ \A x : Copying!InDirectory(x)' <=> Copying!InDirectory(x) /\ x # n
           /\ \A x : Full(x)' <=> Full(x) /\ x # n
           /\ \A a, b : Older(a, b)' => Older(a, b) /\ a # n /\ b # n
<1>1. copies' \in Seq(Copies) /\ \E g : Leaves(copies', g, n)
    BY CopiesLeft
<1>2. PICK g : Leaves(copies', g, n)
    BY <1>1
<1>3. /\ DOMAIN copies = 1..Len(copies) /\ Len(copies) \in Nat
      /\ DOMAIN copies' = 1..Len(copies') /\ Len(copies') \in Nat
    BY <1>1 DEF CopyTypes
<1>4. \A i \in 1..Len(copies') : /\ copies'[i] = copies[g[i]] /\ g[i] \in 1..Len(copies)
                                 /\ copies'[i][1] # n
    BY <1>2 DEF Leaves
<1>5. \A a \in 1..Len(copies) : copies[a][1] # n => \E i \in 1..Len(copies') : g[i] = a
    BY <1>2 DEF Leaves
<1>6. \A i, j \in 1..Len(copies') : i < j => g[i] < g[j]
    BY <1>2 DEF Leaves
<1>7. OneCopyEach'
  <2> SUFFICES ASSUME NEW i \in 1..Len(copies'), NEW j \in 1..Len(copies'), copies'[i][1] = copies'[j][1]
               PROVE  i = j
      BY Zenon DEF OneCopyEach
  <2>1. g[i] = g[j] /\ g[i] \in Nat
      BY <1>3, <1>4 DEF OneCopyEach
  <2> QED
      BY <1>3, <1>6, <2>1
<1>8. \A x : Copying!InDirectory(x)' <=> Copying!InDirectory(x) /\ x # n
    BY <1>3, <1>4, <1>5 DEF Copying!InDirectory
<1>9. \A x : Full(x)' <=> Full(x) /\ x # n
    BY <1>4, <1>5 DEF Full
<1>10. \A a, b : Older(a, b)' => Older(a, b) /\ a # n /\ b # n
    BY <1>4, <1>6 DEF Older
<1> QED
    BY <1>1, <1>7, <1>8, <1>9, <1>10

(* A listing leaves out the files that fewer than Keep others are newer than. *)
LEMMA Kept ==
    ASSUME CopyTypes, OneCopyEach, NEW y, NEW S, IsFiniteSet(S), Cardinality(S) < Keep,
           \A b : Older(y, b) => b \in S,
           NEW i \in 1..Len(Copying!BeyondKeep(copies)), Copying!BeyondKeep(copies)[i][1] = y
    PROVE  FALSE
<1> DEFINE n == Len(copies)
<1>0. Keep \in Nat /\ n \in Nat
    BY KeepingConstants DEF Copying!BackupsConstants, CopyTypes
<1>1. i \in 1..(n - Keep) /\ i \in 1..n /\ copies[i][1] = y
  <2>1. \A k \in 1..(n - Keep) : copies[k] \in Copies
      BY <1>0 DEF CopyTypes
  <2>2. /\ Len(Copying!BeyondKeep(copies)) = IF 1 <= n - Keep THEN n - Keep - 1 + 1 ELSE 0
        /\ \A k \in 1..(n - Keep - 1 + 1) : Copying!BeyondKeep(copies)[k] = copies[1 + k - 1]
    <3>1. n - Keep \in Int /\ 1 \in Int
        BY <1>0
    <3> QED
        BY <2>1, <3>1, SubSeqProperties DEF Copying!BeyondKeep
  <2> QED
      BY <1>0, <2>2
<1> HIDE DEF n
<1> DEFINE newer == [j \in (i + 1)..n |-> copies[j][1]]
<1>2. \A j \in (i + 1)..n : j \in 1..n /\ i < j
    BY <1>0, <1>1
<1>3. \A j \in (i + 1)..n : copies[j][1] \in S
    BY <1>1, <1>2 DEF Older, n
<1>4. newer \in Injection((i + 1)..n, S)
  <2>1. \A j, k \in (i + 1)..n : copies[j][1] = copies[k][1] => j = k
      BY <1>2 DEF OneCopyEach, n
  <2> QED
      BY <1>3, <2>1 DEF Injection, IsInjective
<1> HIDE DEF newer
<1>5. Cardinality((i + 1)..n) <= Cardinality(S)
    BY <1>4, FS_Injection
<1>6. Cardinality((i + 1)..n) = n - i
  <2>1. i + 1 \in Int /\ n \in Int
      BY <1>0, <1>1
  <2>2. Cardinality((i + 1)..n) = IF i + 1 > n THEN 0 ELSE n - (i + 1) + 1
      BY <2>1, FS_Interval, Zenon
  <2>3. i \in Int /\ i <= n
      BY <1>0, <1>1
  <2> HIDE DEF newer
  <2> QED
      BY <1>0, <2>2, <2>3
<1>7. Cardinality(S) \in Nat
    BY FS_CardinalityType
<1> QED
    BY <1>0, <1>1, <1>5, <1>6, <1>7

(* Who was not overtaken: fewer than Keep others wrote. *)
LEMMA FewSince ==
    ASSUME CopyTypes, ~Copying!Overtaken, NEW n \in Copying!Numbers
    PROVE  IsFiniteSet(since[n]) /\ Cardinality(since[n]) < Keep
<1>1. Keep \in Nat /\ MaxRuns \in Nat
    BY KeepingConstants DEF Copying!BackupsConstants
<1>2. IsFiniteSet(Copying!Numbers)
  <2>1. 1 \in Int /\ MaxRuns \in Int
      BY <1>1
  <2> QED
      BY <2>1, FS_Interval DEF Copying!Numbers
<1>3. IsFiniteSet(since[n]) /\ Cardinality(since[n]) \in Nat
    BY <1>2, FS_Subset, FS_CardinalityType DEF CopyTypes
<1>4. \A S : Copying!Cardinality(S) = Cardinality(S)
    BY DEF Copying!Cardinality, Cardinality
<1>5. ~(Cardinality(since[n]) >= Keep)
    BY <1>4 DEF Copying!Overtaken
<1> QED
    BY <1>1, <1>3, <1>5

(* What was overtaken stays so: the sets of those that wrote only grow. *)
LEMMA OvertakenStays ==
    ASSUME CopyTypes, CopyTypes', Copying!Overtaken,
           \A n \in Copying!Numbers : since[n] \subseteq since'[n]
    PROVE  Copying!Overtaken'
<1>1. Keep \in Nat /\ MaxRuns \in Nat
    BY KeepingConstants DEF Copying!BackupsConstants
<1>2. IsFiniteSet(Copying!Numbers)
  <2>1. 1 \in Int /\ MaxRuns \in Int
      BY <1>1
  <2> QED
      BY <2>1, FS_Interval DEF Copying!Numbers
<1>3. \A S : Copying!Cardinality(S) = Cardinality(S)
    BY DEF Copying!Cardinality, Cardinality
<1>4. PICK n \in Copying!Numbers : Cardinality(since[n]) >= Keep
    BY <1>3 DEF Copying!Overtaken
<1>5. IsFiniteSet(since'[n]) /\ since[n] \in SUBSET since'[n]
    BY <1>2, FS_Subset DEF CopyTypes
<1>6. Cardinality(since[n]) <= Cardinality(since'[n])
    BY <1>5, FS_Subset
<1>7. Cardinality(since[n]) \in Nat /\ Cardinality(since'[n]) \in Nat
    BY <1>5, FS_Subset, FS_CardinalityType
<1>8. Cardinality(since'[n]) >= Keep
    BY <1>1, <1>4, <1>6, <1>7
<1> QED
    BY <1>3, <1>8 DEF Copying!Overtaken

\* A run writes to its file, and has begun with it or completes it.
WritesTo(n, f) ==
    /\ n \in Copying!Numbers /\ f \in BOOLEAN
    /\ Copying!Writes(n, f) /\ old' = old
    /\ backups' \in Seq(Copying!Stages) /\ Len(backups') <= MaxRuns
    /\ ~Full(n) /\ ~Lists(n) /\ ~Removes(n)
    /\ Waits(n)' /\ (Lists(n)' <=> f)
    /\ \A m : m # n => /\ Lists(m)' <=> Lists(m)
                       /\ StillCopies(m)' <=> StillCopies(m)
                       /\ Removes(m)' <=> Removes(m)
    /\ \A m : m \in 1..Len(backups') <=> m \in 1..Len(backups) \/ m = n
    /\ (StillCopies(n) /\ Copying!InDirectory(n)) \/ n \notin 1..Len(backups)
    /\ TwoAtOnce'

\* Whose copy is complete and not listed yet: they were written since.
SinceAfter(n) ==
    \A m \in Copying!Numbers : since'[m] = IF Lists(m) THEN since[m] \cup {n} ELSE since[m]

LEMMA BaseWhenWritten ==
    ASSUME CopyBase, NEW n, NEW f, WritesTo(n, f)
    PROVE  /\ CopyBase' /\ SinceAfter(n)
           /\ \A x : Copying!InDirectory(x)' <=> Copying!InDirectory(x) \/ x = n
           /\ \A x : Full(x)' <=> IF x = n THEN f ELSE Full(x)
           /\ \A a, b : Older(a, b)' <=> a # n /\ IF b = n THEN Copying!InDirectory(a) ELSE Older(a, b)
<1>1. n \in Nat /\ f \in BOOLEAN /\ n \in Copying!Numbers /\ copies' = Append(Copying!Without(n), <<n, f>>)
      /\ old' = old
    BY KeepingConstants DEF WritesTo, Copying!Writes, Copying!Numbers, Copying!BackupsConstants
<1>2. CopyTypes /\ OneCopyEach /\ OfTheRuns /\ Listed
    BY DEF CopyBase
<1>3. /\ copies' \in Seq(Copies) /\ OneCopyEach'
      /\ \A x : Copying!InDirectory(x)' <=> Copying!InDirectory(x) \/ x = n
      /\ \A x : Full(x)' <=> IF x = n THEN f ELSE Full(x)
      /\ \A a, b : Older(a, b)' <=> a # n /\ IF b = n THEN Copying!InDirectory(a) ELSE Older(a, b)
    BY <1>1, <1>2, Written
<1>4. SinceAfter(n) /\ since' \in [Copying!Numbers -> SUBSET Copying!Numbers]
  <2>1. since' = [m \in Copying!Numbers |-> IF m \in DOMAIN backups /\ backups[m] = "listing"
                                              THEN since[m] \cup {n} ELSE since[m]]
      BY DEF WritesTo, Copying!Writes
  <2>2. DOMAIN backups = 1..Len(backups) /\ since \in [Copying!Numbers -> SUBSET Copying!Numbers]
      BY <1>2 DEF CopyTypes
  <2> QED
      BY <1>1, <2>1, <2>2 DEF SinceAfter, Lists
<1>5. CopyTypes'
    BY <1>1, <1>2, <1>3, <1>4 DEF CopyTypes, WritesTo, Copying!Numbers
<1>6. OfTheRuns'
  <2> SUFFICES ASSUME NEW x
               PROVE  /\ Copying!InDirectory(x)' => x \in 1..Len(backups')
                      /\ Full(x)' => ~StillCopies(x)'
      BY DEF OfTheRuns
  <2>1. CASE x = n
      BY <1>3, <2>1 DEF WritesTo, StillCopies, Lists
  <2>2. CASE x # n
      BY <1>2, <1>3, <2>2 DEF WritesTo, OfTheRuns
  <2> QED
      BY <2>1, <2>2
<1>7. Listed'
  <2>1. ASSUME NEW m \in Copying!Numbers, NEW x, Dooms(m, x)'
        PROVE  Removes(m)' /\ x \in 1..Len(backups')
    <3>1. Dooms(m, x)
        BY <1>1, <2>1 DEF Dooms
    <3>2. Removes(m) /\ x \in 1..Len(backups)
        BY <1>2, <3>1 DEF Listed
    <3> QED
        BY <3>2 DEF WritesTo
  <2>2. ASSUME NEW m \in Copying!Numbers, since'[m] # {}
        PROVE  m \in 1..Len(backups') /\ ~StillCopies(m)'
    <3>1. CASE Lists(m)
      <4>1. m # n /\ m \in 1..Len(backups) /\ ~StillCopies(m)
          BY <3>1 DEF WritesTo, Lists, StillCopies
      <4> QED
          BY <4>1 DEF WritesTo
    <3>2. CASE ~Lists(m)
      <4>1. since[m] # {}
          BY <1>4, <2>2, <3>2 DEF SinceAfter
      <4>2. m \in 1..Len(backups) /\ ~StillCopies(m)
          BY <1>2, <4>1 DEF Listed
      <4>3. m # n
          BY <4>2 DEF WritesTo
      <4> QED
          BY <4>2, <4>3 DEF WritesTo
    <3> QED
        BY <3>1, <3>2
  <2> QED
      BY <2>1, <2>2, Zenon DEF Listed, CopyTypes
<1> QED
    BY <1>3, <1>4, <1>5, <1>6, <1>7 DEF CopyBase, WritesTo

LEMMA WaitsOrRemoves ==
    ASSUME NEW n
    PROVE  /\ Going(n) <=> Waits(n) \/ Removes(n)
           /\ Lists(n) => Waits(n) /\ ~Removes(n)
           /\ Waits(n) => ~Removes(n)
BY DEF Going, Waits, StillCopies, Lists, Removes

(* Of three that go on two are the same. *)
LEMMA NoThird ==
    ASSUME TwoAtOnce, NEW a, NEW b, NEW c, Going(a), Going(b), Going(c)
    PROVE  a = b \/ b = c \/ a = c
BY DEF TwoAtOnce, Going

LEMMA SafeWhenWritten ==
    ASSUME CopyBase, CopySafe, NEW n, NEW f, WritesTo(n, f)
    PROVE  CopySafe'
<1>1. /\ CopyBase' /\ SinceAfter(n)
      /\ \A x : Copying!InDirectory(x)' <=> Copying!InDirectory(x) \/ x = n
      /\ \A x : Full(x)' <=> IF x = n THEN f ELSE Full(x)
      /\ \A a, b : Older(a, b)' <=> a # n /\ IF b = n THEN Copying!InDirectory(a) ELSE Older(a, b)
    BY BaseWhenWritten
<1>2. /\ n \in Copying!Numbers /\ f \in BOOLEAN
      /\ ~Full(n) /\ ~Lists(n) /\ ~Removes(n) /\ Waits(n)' /\ (Lists(n)' <=> f)
      /\ \A m : m # n => /\ Lists(m)' <=> Lists(m)
                         /\ StillCopies(m)' <=> StillCopies(m)
                         /\ Removes(m)' <=> Removes(m)
      /\ (StillCopies(n) /\ Copying!InDirectory(n)) \/ n \notin 1..Len(backups)
    BY DEF WritesTo
<1>3. \A m, x : Dooms(m, x)' <=> Dooms(m, x)
    BY DEF WritesTo, Dooms
<1>4. \A m : m # n => (Waits(m)' <=> Waits(m))
    BY <1>2 DEF Waits
<1>5. \A m : Lists(m) => m \in Copying!Numbers
    BY RunsAreNumbered DEF Lists, CopyBase
<1>6. \A m \in Copying!Numbers : \A x : Dooms(m, x) => /\ Removes(m) /\ Removes(m)' /\ Going(m)' /\ m # n
                                                      /\ x # m /\ x \in 1..Len(backups)
  <2> SUFFICES ASSUME NEW m \in Copying!Numbers, NEW x, Dooms(m, x)
               PROVE  /\ Removes(m) /\ Removes(m)' /\ Going(m)' /\ m # n
                      /\ x # m /\ x \in 1..Len(backups)
      OBVIOUS
  <2>1. Removes(m) /\ x \in 1..Len(backups)
      BY DEF CopyBase, Listed
  <2>2. x # m
      BY DEF CopySafe, OthersListed
  <2>3. m # n /\ Removes(m)'
      BY <1>2, <2>1
  <2>4. Going(m)'
      BY <2>3 DEF Going, Removes
  <2> QED
      BY <2>1, <2>2, <2>3, <2>4
<1>7. /\ Going(n)'
      /\ \A m : Waits(m)' => Going(m)'
      /\ \A m : Lists(m)' => Waits(m)'
    BY <1>2 DEF Going, Waits, StillCopies, Lists
<1>8. \A a, b : Going(a)' /\ Going(b)' => a = b \/ a = n \/ b = n
  <2>1. \A a, b : Going(a)' /\ Going(b)' => a \in 1..Len(backups') /\ b \in 1..Len(backups')
      BY DEF Going
  <2>2. n \in 1..Len(backups')
      BY <1>7 DEF Going
  <2> QED
      BY <1>1, <1>7, <2>1, <2>2, Zenon DEF CopyBase, TwoAtOnce
<1>9. since'[n] = since[n] /\ \A m : Lists(m) => m # n /\ since'[m] = since[m] \cup {n}
    BY <1>1, <1>2, <1>5 DEF SinceAfter
<1>10. Lists(n)' => since'[n] = {}
  <2>1. since[n] = {}
      BY <1>2, RunsAreNumbered DEF CopyBase, Listed
  <2> QED
      BY <1>9, <2>1
<1>11. OthersListed'
  <2>1. OthersListed
      BY DEF CopySafe
  <2> QED
      BY <1>3, <2>1 DEF OthersListed
<1>12. LastWord'
  <2> SUFFICES ASSUME NEW m \in Copying!Numbers, NEW x, Dooms(m, x)', Waits(x)', Copying!InDirectory(x)'
               PROVE  Full(m)' /\ \A b : Older(m, b)' => b = x
      BY DEF LastWord
  <2>1. Dooms(m, x) /\ m # n /\ x # m /\ x \in 1..Len(backups) /\ Going(m)'
      BY <1>3, <1>6
  <2>2. x = n
      BY <1>7, <1>8, <2>1
  <2>3. Waits(x) /\ Copying!InDirectory(x)
      BY <1>2, <2>1, <2>2 DEF Waits
  <2>4. Full(m) /\ \A b : Older(m, b) => b = n
      BY <2>1, <2>2, <2>3 DEF CopySafe, LastWord
  <2> QED
      BY <1>1, <2>1, <2>2, <2>4
<1>13. Fresh'
  <2> SUFFICES ASSUME NEW m, Lists(m)'
               PROVE  /\ Copying!InDirectory(m)' => Full(m)' /\ \A b : Older(m, b)' => b \in since'[m]
                      /\ \A x \in since'[m] : \A b : Older(x, b)' => b \in since'[m]
      BY DEF Fresh
  <2>1. CASE m = n
      BY <1>1, <1>2, <1>10, <2>1
  <2>2. CASE m # n
    <3>1. Lists(m) /\ since'[m] = since[m] \cup {n}
        BY <1>2, <1>9, <2>2
    <3>2. /\ Copying!InDirectory(m) => Full(m) /\ \A b : Older(m, b) => b \in since[m]
          /\ \A x \in since[m] : \A b : Older(x, b) => b \in since[m]
        BY <3>1 DEF CopySafe, Fresh
    <3>3. Copying!InDirectory(m)' => Full(m)' /\ \A b : Older(m, b)' => b \in since'[m]
        BY <1>1, <2>2, <3>1, <3>2
    <3>4. \A x \in since'[m] : \A b : Older(x, b)' => b \in since'[m]
        BY <1>1, <3>1, <3>2
    <3> QED
        BY <3>3, <3>4
  <2> QED
      BY <2>1, <2>2
<1>14. Beside'
  <2> SUFFICES ASSUME NEW m, NEW x, Lists(m)', Waits(x)', x # m, x \notin since'[m]
               PROVE  since'[m] = {} /\ Copying!InDirectory(m)'
      BY DEF Beside
  <2>1. CASE m = n
      BY <1>1, <1>10, <2>1
  <2>2. CASE m # n
    <3>1. n \in since'[m]
        BY <1>2, <1>9, <2>2
    <3> QED
        BY <1>7, <1>8, <2>2, <3>1
  <2> QED
      BY <2>1, <2>2
<1>15. NotBoth'
  <2> SUFFICES ASSUME NEW m, NEW x, Lists(m)', Lists(x)', m \in since'[x], x \in since'[m]
               PROVE  FALSE
      BY DEF NotBoth
  <2>1. m # n /\ x # n
      BY <1>10
  <2>2. m = x
      BY <1>7, <1>8, <2>1
  <2>3. Lists(m) /\ m \in since[m]
      BY <1>2, <1>9, <2>1, <2>2
  <2> QED
      BY <2>3 DEF CopySafe, NotBoth
<1>16. ASSUME NEW x, Spared(x)
       PROVE  Spared(x)' /\ x # n
    BY <1>1, <1>2, <1>3, <1>16 DEF Spared
<1>17. ASSUME f, \A m \in Copying!Numbers : ~Dooms(m, n)
       PROVE  Spared(n)'
    BY <1>1, <1>3, <1>17 DEF Spared
<1>18. OneIsSpared'
  <2> SUFFICES ASSUME NEW x, Full(x)'
               PROVE  \E y : Spared(y)'
      BY DEF OneIsSpared
  <2>1. CASE \E y : Full(y)
      BY <1>16, <2>1 DEF CopySafe, OneIsSpared
  <2>2. CASE \A y : ~Full(y)
    <3>1. x = n /\ f
        BY <1>1, <2>2
    <3>2. \A m \in Copying!Numbers : ~Dooms(m, n)
      <4> SUFFICES ASSUME NEW m \in Copying!Numbers, Dooms(m, n) PROVE FALSE
          OBVIOUS
      <4>1. Waits(n) /\ Copying!InDirectory(n)
          BY <1>2, <1>6 DEF Waits
      <4> QED
          BY <2>2, <4>1 DEF CopySafe, LastWord
    <3> QED
        BY <1>17, <3>1, <3>2
  <2> QED
      BY <2>1, <2>2
<1>19. Safe'
  <2> SUFFICES ASSUME NEW m, Lists(m)'
               PROVE  \/ \E x : Spared(x)' /\ \A b : Older(x, b)' => b \in since'[m]
                      \/ Copying!InDirectory(m)' /\ \E x \in Copying!Numbers : Dooms(x, m)'
      BY DEF Safe
  <2>1. CASE m = n /\ \E x \in Copying!Numbers : Dooms(x, n)
      BY <1>1, <1>3, <2>1
  <2>2. CASE m = n /\ \A x \in Copying!Numbers : ~Dooms(x, n)
    <3>1. Spared(n)' /\ \A b : ~Older(n, b)'
        BY <1>1, <1>2, <1>17, <2>2
    <3> QED
        BY <3>1
  <2>3. CASE m # n
    <3>1. Lists(m) /\ since'[m] = since[m] \cup {n}
        BY <1>2, <1>9, <2>3
    <3>2. ASSUME NEW x \in Copying!Numbers, Dooms(x, m)
          PROVE  FALSE
        BY <1>6, <1>7, <1>8, <2>3, <3>2
    <3>3. PICK x : Spared(x) /\ \A b : Older(x, b) => b \in since[m]
        BY <3>1, <3>2 DEF CopySafe, Safe
    <3>4. Spared(x)' /\ \A b : Older(x, b)' => b \in since'[m]
        BY <1>1, <1>16, <3>1, <3>3
    <3> QED
        BY <3>4
  <2> QED
      BY <2>1, <2>2, <2>3
<1> QED
    BY <1>11, <1>12, <1>13, <1>14, <1>15, <1>18, <1>19 DEF CopySafe

KeepsOne == (\E x : Full(x)) => \E x : Full(x)'

(* The three steps in which a run writes. *)
LEMMA FewAreRunning ==
    ASSUME TwoByTwo, CopyTypes, Cardinality(Copying!Running) < Overlap,
           NEW a, NEW b, Going(a), Going(b)
    PROVE  a = b
<1>1. Copying!Running \subseteq 1..Len(backups) /\ Len(backups) \in Nat
    BY DEF Copying!Running, CopyTypes
<1>2. IsFiniteSet(Copying!Running)
  <2>1. IsFiniteSet(1..Len(backups))
      BY <1>1, FS_Interval
  <2> QED
      BY <1>1, <2>1, FS_Subset
<1>3. {a, b} \subseteq Copying!Running
    BY <1>1 DEF Copying!Running, CopyTypes, Going
<1>4. Cardinality({a, b}) <= Cardinality(Copying!Running)
    BY <1>2, <1>3, FS_Subset
<1>5. Cardinality({a, b}) <= 1
  <2>1. Cardinality(Copying!Running) \in Nat
      BY <1>2, FS_CardinalityType
  <2>2. IsFiniteSet({a, b}) /\ Cardinality({a, b}) \in Nat
      BY <1>2, <1>3, FS_Subset, FS_CardinalityType
  <2> QED
      BY <1>4, <2>1, <2>2, KeepingConstants DEF Copying!BackupsConstants, TwoByTwo
<1>6. ASSUME a # b PROVE FALSE
  <2>1. IsFiniteSet({a}) /\ Cardinality({a}) = 1
      BY FS_Singleton
  <2>2. Cardinality({a} \cup {b}) = Cardinality({a}) + 1
      BY <1>6, <2>1, FS_AddElement
  <2>3. {a} \cup {b} = {a, b}
      OBVIOUS
  <2>4. Cardinality({a, b}) = 1 + 1
      BY <2>1, <2>2, <2>3, Zenon
  <2> QED
      BY <1>5, <2>4
<1> QED
    BY <1>6

LEMMA BeginWrites ==
    ASSUME TwoByTwo, CopyBase, Copying!Begin, NEW k, k = Len(backups) + 1
    PROVE  WritesTo(k, FALSE)
<1>1. /\ Copying!Writes(k, FALSE) /\ backups' = Append(backups, "copying")
      /\ old' = old /\ Len(backups) < MaxRuns /\ Cardinality(Copying!Running) < Overlap
  <2>1. \A S : Copying!Cardinality(S) = Cardinality(S)
      BY DEF Copying!Cardinality, Cardinality
  <2> QED
      BY <2>1 DEF Copying!Begin
<1>2. CopyTypes /\ OfTheRuns
    BY DEF CopyBase
<1>3. MaxRuns \in Nat
    BY KeepingConstants DEF Copying!BackupsConstants
<1>4. Len(backups) \in Nat /\ k \in Copying!Numbers /\ backups \in Seq(Copying!Stages) /\ k \notin 1..Len(backups)
    BY <1>1, <1>2, <1>3 DEF CopyTypes, Copying!Numbers
<1>5. /\ backups' \in Seq(Copying!Stages) /\ Len(backups') = k /\ backups'[k] = "copying"
      /\ \A m \in 1..Len(backups) : backups'[m] = backups[m]
      /\ \A m : m \in 1..k <=> m \in 1..Len(backups) \/ m = k
    BY <1>1, <1>4 DEF Copying!Stages
<1>6. Len(backups') <= MaxRuns
    BY <1>1, <1>3, <1>4, <1>5
<1>7. ~Full(k)
    BY <1>2, <1>4, Order DEF CopyBase, OfTheRuns
<1>8. ~Lists(k) /\ ~Removes(k) /\ Waits(k)' /\ ~Lists(k)'
  <2>1. k \in 1..Len(backups') /\ backups'[k] = "copying"
      BY <1>5
  <2>2. ~Lists(k) /\ ~Removes(k)
      BY <1>4 DEF Lists, Removes
  <2> QED
      BY <2>1, <2>2 DEF Lists, Waits, StillCopies
<1>9. \A m : m # k => /\ Lists(m)' <=> Lists(m)
                      /\ StillCopies(m)' <=> StillCopies(m)
                      /\ Removes(m)' <=> Removes(m)
    BY <1>5 DEF Lists, Removes, StillCopies
<1>10. TwoAtOnce'
  <2>1. \A x \in 1..Len(backups) : Going(x)' => Going(x)
      BY <1>5 DEF Going
  <2>2. \A x, y : Going(x) /\ Going(y) => x = y
      BY <1>1, <1>2, FewAreRunning, Zenon
  <2> QED
      BY <1>5, <2>1, <2>2 DEF TwoAtOnce
<1> QED
    BY <1>1, <1>4, <1>5, <1>6, <1>7, <1>8, <1>9, <1>10 DEF WritesTo

LEMMA CopyOnWrites ==
    ASSUME CopyBase, NEW n \in 1..Len(backups), Copying!CopyOn(n)
    PROVE  WritesTo(n, FALSE)
<1>1. Copying!Writes(n, FALSE) /\ backups' = backups /\ old' = old /\ backups[n] = "copying" /\ Copying!InDirectory(n)
    BY DEF Copying!CopyOn
<1>2. CopyTypes /\ OfTheRuns /\ TwoAtOnce
    BY DEF CopyBase
<1>3. n \in Copying!Numbers
    BY <1>2, RunsAreNumbered
<1>4. ~Full(n) /\ StillCopies(n)
    BY <1>1, <1>2 DEF OfTheRuns, StillCopies
<1>5. ~Lists(n) /\ ~Removes(n) /\ Waits(n)' /\ ~Lists(n)'
    BY <1>1 DEF Lists, Removes, Waits, StillCopies
<1>6. \A m : /\ Lists(m)' <=> Lists(m)
             /\ StillCopies(m)' <=> StillCopies(m)
             /\ Removes(m)' <=> Removes(m)
    BY <1>1 DEF Lists, Removes, StillCopies
<1>7. TwoAtOnce'
    BY <1>1, <1>2 DEF TwoAtOnce, Going
<1> QED
    BY <1>1, <1>2, <1>3, <1>4, <1>5, <1>6, <1>7 DEF WritesTo, CopyTypes

LEMMA CopyEndsWrites ==
    ASSUME CopyBase, NEW n \in 1..Len(backups), Copying!CopyEnds(n)
    PROVE  WritesTo(n, TRUE)
<1>1. /\ Copying!Writes(n, TRUE) /\ backups' = [backups EXCEPT ![n] = "listing"]
      /\ old' = old /\ backups[n] = "copying" /\ Copying!InDirectory(n)
    BY DEF Copying!CopyEnds
<1>2. CopyTypes /\ OfTheRuns /\ TwoAtOnce
    BY DEF CopyBase
<1>3. n \in Copying!Numbers
    BY <1>2, RunsAreNumbered
<1>4. ~Full(n) /\ StillCopies(n)
    BY <1>1, <1>2 DEF OfTheRuns, StillCopies
<1>5. /\ backups' \in Seq(Copying!Stages) /\ Len(backups') = Len(backups)
      /\ backups'[n] = "listing" /\ \A m \in 1..Len(backups) : m # n => backups'[m] = backups[m]
    BY <1>1, <1>2 DEF CopyTypes, Copying!Stages
<1>6. ~Lists(n) /\ ~Removes(n) /\ Waits(n)' /\ Lists(n)'
    BY <1>1, <1>5 DEF Lists, Removes, Waits, StillCopies
<1>7. \A m : m # n => /\ Lists(m)' <=> Lists(m)
                      /\ StillCopies(m)' <=> StillCopies(m)
                      /\ Removes(m)' <=> Removes(m)
    BY <1>5 DEF Lists, Removes, StillCopies
<1>8. TwoAtOnce'
  <2>1. \A m \in 1..Len(backups) : Going(m)' => Going(m)
      BY <1>1, <1>5 DEF Going
  <2> QED
      BY <1>2, <1>5, <2>1 DEF TwoAtOnce
<1> QED
    BY <1>1, <1>2, <1>3, <1>4, <1>5, <1>6, <1>7, <1>8 DEF WritesTo, CopyTypes

(* What a write adds to the copies takes none of the complete ones away. *)
LEMMA CopyWrites ==
    ASSUME CopyInv, NEW n, NEW f, WritesTo(n, f)
    PROVE  CopyInv' /\ KeepsOne
<1>1. /\ CopyBase' /\ SinceAfter(n) /\ \A x : Full(x)' <=> IF x = n THEN f ELSE Full(x)
    BY BaseWhenWritten DEF CopyInv
<1>2. ~Copying!Overtaken' => ~Copying!Overtaken
  <2>1. \A m \in Copying!Numbers : since[m] \subseteq since'[m]
      BY <1>1 DEF SinceAfter
  <2> QED
      BY <1>1, <2>1, OvertakenStays DEF CopyInv, CopyBase
<1>3. ~Copying!Overtaken' => CopySafe'
    BY <1>2, SafeWhenWritten DEF CopyInv
<1>4. KeepsOne
    BY <1>1 DEF KeepsOne, WritesTo
<1> QED
    BY <1>1, <1>3, <1>4 DEF CopyInv

(* A listing spares the run's own copy and, of the complete ones, one more or *)
(* that one.                                                                  *)
LEMMA CopyLists ==
    ASSUME TwoByTwo, CopyInv, NEW n \in 1..Len(backups), Copying!List(n)
    PROVE  CopyInv' /\ KeepsOne
<1> DEFINE list == Copying!BeyondKeep(copies)
           on(y) == \E i \in 1..Len(list) : list[i][1] = y
<1>1. /\ backups[n] = "listing" /\ backups' = [backups EXCEPT ![n] = "removing"]
      /\ old' = [old EXCEPT ![n] = list] /\ copies' = copies /\ since' = since
    BY DEF Copying!List
<1>2. /\ CopyBase /\ CopyTypes /\ OneCopyEach /\ OfTheRuns /\ Listed /\ TwoAtOnce
    BY DEF CopyInv, CopyBase
<1>3. n \in Copying!Numbers /\ Lists(n)
    BY <1>1, <1>2, RunsAreNumbered DEF Lists
<1>4. /\ backups' \in Seq(Copying!Stages) /\ Len(backups') = Len(backups)
      /\ backups'[n] = "removing" /\ \A m \in 1..Len(backups) : m # n => backups'[m] = backups[m]
    BY <1>1, <1>2 DEF CopyTypes, Copying!Stages
<1>5. /\ \A m : Waits(m)' <=> Waits(m) /\ m # n
      /\ \A m : Lists(m)' <=> Lists(m) /\ m # n
      /\ \A m : StillCopies(m)' <=> StillCopies(m)
      /\ \A m : Removes(m)' <=> Removes(m) \/ m = n
      /\ \A m : Going(m)' <=> Going(m)
    BY <1>1, <1>4 DEF Waits, Lists, StillCopies, Removes, Going
<1>6. /\ list \in Seq(Copies) /\ \A y : on(y) => Copying!InDirectory(y)
  <2>1. Keep \in Nat /\ Len(copies) \in Nat /\ DOMAIN copies = 1..Len(copies)
      BY <1>2, KeepingConstants DEF Copying!BackupsConstants, CopyTypes
  <2>2. \A k \in 1..(Len(copies) - Keep) : copies[k] \in Copies /\ k \in 1..Len(copies)
      BY <1>2, <2>1 DEF CopyTypes
  <2>3. /\ list \in Seq(Copies)
        /\ Len(list) = IF 1 <= Len(copies) - Keep THEN Len(copies) - Keep - 1 + 1 ELSE 0
        /\ \A k \in 1..(Len(copies) - Keep - 1 + 1) : list[k] = copies[1 + k - 1]
    <3>1. Len(copies) - Keep \in Int /\ 1 \in Int
        BY <2>1
    <3> QED
        BY <2>2, <3>1, SubSeqProperties DEF Copying!BeyondKeep
  <2> HIDE DEF list
  <2>4. ASSUME NEW k \in 1..Len(list)
        PROVE  list[k] = copies[k] /\ k \in 1..Len(copies)
    <3>1. Len(list) = IF 1 <= Len(copies) - Keep THEN Len(copies) - Keep - 1 + 1 ELSE 0
        BY <2>3
    <3>2. CASE ~(1 <= Len(copies) - Keep)
        BY <3>1, <3>2
    <3>3. CASE 1 <= Len(copies) - Keep
      <4>1. Len(list) = Len(copies) - Keep
          BY <2>1, <3>1, <3>3
      <4>2. k \in 1..(Len(copies) - Keep)
          BY <4>1
      <4>3. k \in 1..(Len(copies) - Keep - 1 + 1) /\ 1 + k - 1 = k /\ k \in 1..Len(copies)
          BY <2>1, <4>2
      <4> QED
          BY <2>3, <4>3
    <3> QED
        BY <3>2, <3>3
  <2> QED
      BY <2>1, <2>3, <2>4 DEF Copying!InDirectory
<1>7. ASSUME ~Copying!Overtaken, NEW m \in Copying!Numbers, NEW y, \A b : Older(y, b) => b \in since[m]
      PROVE  ~on(y)
    BY <1>2, <1>7, FewSince, Kept
<1> HIDE DEF list
<1>8. \A m \in Copying!Numbers : \A y : Dooms(m, y)' <=> IF m = n THEN on(y) ELSE Dooms(m, y)
  <2>1. \A m \in Copying!Numbers : old'[m] = IF m = n THEN list ELSE old[m]
      BY <1>1, <1>2 DEF CopyTypes
  <2> QED
      BY <2>1 DEF Dooms
<1> HIDE DEF on
<1>9. CopyTypes'
  <2>1. old' \in [Copying!Numbers -> Seq(Copies)]
      BY <1>1, <1>2, <1>6 DEF CopyTypes
  <2> QED
      BY <1>1, <1>2, <1>4, <2>1 DEF CopyTypes
<1>10. /\ \A x : Copying!InDirectory(x)' <=> Copying!InDirectory(x)
       /\ \A x : Full(x)' <=> Full(x)
       /\ \A a, b : Older(a, b)' <=> Older(a, b)
    BY <1>1 DEF Copying!InDirectory, Full, Older
<1>11. CopyBase'
  <2>1. OneCopyEach' /\ TwoAtOnce'
      BY <1>1, <1>2, <1>4, <1>5 DEF OneCopyEach, TwoAtOnce
  <2>2. OfTheRuns'
      BY <1>2, <1>4, <1>5, <1>10 DEF OfTheRuns
  <2>3. Listed'
    <3>1. \A m \in Copying!Numbers : \A y : Dooms(m, y)' => Removes(m)' /\ y \in 1..Len(backups)
        BY <1>2, <1>5, <1>6, <1>8 DEF Listed, OfTheRuns
    <3>2. \A m \in Copying!Numbers : since'[m] # {} => m \in 1..Len(backups) /\ ~StillCopies(m)'
        BY <1>1, <1>2, <1>5 DEF Listed
    <3> QED
        BY <1>4, <3>1, <3>2, Zenon DEF Listed
  <2> QED
      BY <1>9, <2>1, <2>2, <2>3 DEF CopyBase
<1>12. KeepsOne
    BY <1>10 DEF KeepsOne
<1>13. Copying!Overtaken' <=> Copying!Overtaken
    BY <1>1 DEF Copying!Overtaken
<1>14. ASSUME ~Copying!Overtaken PROVE CopySafe'
  <2>1. OthersListed /\ LastWord /\ Fresh /\ Beside /\ NotBoth /\ OneIsSpared /\ Safe
      BY <1>14 DEF CopyInv, CopySafe
  <2>2. \A y : (\A b : Older(y, b) => b \in since[n]) => ~on(y)
      BY <1>3, <1>7, <1>14
  <2>3. \A m \in Copying!Numbers : \A y : Dooms(m, y) => Removes(m) /\ Going(m) /\ m # n /\ m # y
      BY <1>2, <1>3, <2>1, WaitsOrRemoves DEF Listed, OthersListed
  <2>4. Going(n) /\ \A a, b : Going(a) /\ Going(b) => a = b \/ a = n \/ b = n
      BY <1>2, <1>3, NoThird, WaitsOrRemoves
  <2>5. Copying!InDirectory(n) => Full(n) /\ ~on(n) /\ \A b : Older(n, b) => b \in since[n]
      BY <1>3, <2>1, <2>2 DEF Fresh
  <2>6. \A m \in since[n] : ~on(m)
      BY <1>3, <2>1, <2>2 DEF Fresh
  <2>7. OthersListed'
      BY <1>6, <1>8, <2>1, <2>5 DEF OthersListed
  <2>8. LastWord'
    <3> SUFFICES ASSUME NEW m \in Copying!Numbers, NEW y, Dooms(m, y)', Waits(y)', Copying!InDirectory(y)'
                 PROVE  Full(m)' /\ \A b : Older(m, b)' => b = y
        BY DEF LastWord
    <3>1. Waits(y) /\ y # n /\ Copying!InDirectory(y) /\ Going(y)
        BY <1>5, <1>10, WaitsOrRemoves
    <3>2. CASE m # n
        BY <1>8, <2>3, <2>4, <3>1, <3>2
    <3>3. CASE m = n
      <4>1. on(y)
          BY <1>8, <3>3
      <4>2. y \notin since[n]
          BY <2>6, <4>1
      <4>3. since[n] = {} /\ Copying!InDirectory(n)
          BY <1>3, <2>1, <3>1, <4>2 DEF Beside
      <4> QED
          BY <1>10, <2>5, <3>3, <4>3
    <3> QED
        BY <3>2, <3>3
  <2>9. Fresh' /\ Beside' /\ NotBoth'
    <3>1. Fresh'
        BY <1>1, <1>5, <1>10, <2>1 DEF Fresh
    <3>2. Beside'
        BY <1>1, <1>5, <1>10, <2>1 DEF Beside
    <3>3. NotBoth'
        BY <1>1, <1>5, <2>1 DEF NotBoth
    <3> QED
        BY <3>1, <3>2, <3>3
  <2>10. ASSUME NEW y, Spared(y), ~on(y)
         PROVE  Spared(y)'
      BY <1>8, <1>10, <2>10 DEF Spared
  <2>11. \E y : Spared(y)'
    <3>1. CASE \E y : Spared(y) /\ \A b : Older(y, b) => b \in since[n]
        BY <2>2, <2>10, <3>1
    <3>2. CASE Copying!InDirectory(n) /\ \E m \in Copying!Numbers : Dooms(m, n)
      <4>1. PICK m \in Copying!Numbers : Dooms(m, n)
          BY <3>2
      <4>2. Full(m) /\ \A b : Older(m, b) => b = n
        <5>1. Waits(n)
            BY <1>3, WaitsOrRemoves
        <5> QED
            BY <2>1, <3>2, <4>1, <5>1 DEF LastWord
      <4>3. ~on(m)
        <5>1. IsFiniteSet({n}) /\ Cardinality({n}) = 1
            BY FS_Singleton
        <5>2. 1 < Keep
            BY KeepingConstants DEF TwoByTwo, Copying!BackupsConstants
        <5>3. Cardinality({n}) < Keep /\ \A b : Older(m, b) => b \in {n}
            BY <4>2, <5>1, <5>2
        <5> QED
            BY <1>2, <5>1, <5>3, Kept DEF on, list
      <4>4. \A x \in Copying!Numbers : ~Dooms(x, m)
          BY <2>3, <2>4, <4>1
      <4> QED
          BY <2>10, <4>2, <4>3, <4>4 DEF Spared
    <3> QED
        BY <1>3, <2>1, <3>1, <3>2 DEF Safe
  <2>12. OneIsSpared'
      BY <2>11 DEF OneIsSpared
  <2>13. Safe'
    <3> SUFFICES ASSUME NEW m, Lists(m)'
                 PROVE  \E y : Spared(y)' /\ \A b : Older(y, b)' => b \in since'[m]
        BY DEF Safe
    <3>1. Lists(m) /\ m # n /\ Waits(m) /\ Going(m) /\ ~Removes(m)
        BY <1>5, WaitsOrRemoves
    <3>2. ASSUME NEW x \in Copying!Numbers, NEW y, Dooms(x, y)
          PROVE  FALSE
        BY <2>3, <2>4, <3>1, <3>2
    <3>3. PICK p : Spared(p) /\ \A b : Older(p, b) => b \in since[m]
        BY <2>1, <3>1, <3>2 DEF Safe
    <3>4. \A y : Full(y) => Spared(y)
        BY <3>2 DEF Spared
    <3>5. CASE ~on(p)
      <4>1. Spared(p)' /\ \A b : Older(p, b)' => b \in since'[m]
          BY <1>1, <1>10, <2>10, <3>3, <3>5
      <4> QED
          BY <4>1
    <3>6. CASE on(p) /\ Copying!InDirectory(n)
      <4>1. Full(n) /\ ~on(n) /\ p # n
          BY <2>5, <3>6
      <4>2. Copying!InDirectory(p) /\ (Older(p, n) \/ Older(n, p))
          BY <1>2, <1>6, <3>6, <4>1, Order
      <4>3. ASSUME Older(n, p) PROVE FALSE
        <5>1. \A b : Older(p, b) => Older(n, b)
            BY <1>2, <4>3, Order, Zenon
        <5>2. \A b : Older(p, b) => b \in since[n]
            BY <2>5, <3>6, <5>1
        <5> QED
            BY <2>2, <3>6, <5>2
      <4>4. Older(p, n)
          BY <4>2, <4>3
      <4>5. \A b : Older(n, b) => Older(p, b)
          BY <1>2, <4>4, Order, Zenon
      <4>6. Spared(n)' /\ \A b : Older(n, b)' => b \in since'[m]
          BY <1>1, <1>10, <2>10, <3>3, <3>4, <4>1, <4>5
      <4> QED
          BY <4>6
    <3>7. CASE ~Copying!InDirectory(n)
      <4>1. m \in since[n]
          BY <1>3, <2>1, <3>1, <3>7 DEF Beside
      <4>2. Copying!InDirectory(m)
        <5>1. n \notin since[m]
            BY <1>3, <2>1, <3>1, <4>1 DEF NotBoth
        <5>2. Waits(n)
            BY <1>3, WaitsOrRemoves
        <5> QED
            BY <2>1, <3>1, <5>1, <5>2 DEF Beside
      <4>3. Full(m) /\ \A b : Older(m, b) => b \in since[m]
          BY <2>1, <3>1, <4>2 DEF Fresh
      <4>4. Spared(m)' /\ \A b : Older(m, b)' => b \in since'[m]
          BY <1>1, <1>10, <2>6, <2>10, <3>4, <4>1, <4>3
      <4> QED
          BY <4>4
    <3> QED
        BY <3>5, <3>6, <3>7
  <2> QED
      BY <2>7, <2>8, <2>9, <2>12, <2>13 DEF CopySafe
<1> QED
    BY <1>11, <1>12, <1>13, <1>14 DEF CopyInv

(* A file on a list goes: the copy of the run that lists it stays. *)
LEMMA CopyRemoves ==
    ASSUME CopyInv, NEW n \in 1..Len(backups), Copying!RemoveOne(n)
    PROVE  CopyInv' /\ (~Copying!Overtaken => KeepsOne)
<1> DEFINE y == Copying!Last(old[n])[1]
<1>1. /\ CopyBase /\ CopyTypes /\ OneCopyEach /\ OfTheRuns /\ Listed /\ TwoAtOnce
    BY DEF CopyInv, CopyBase
<1>2. /\ n \in Copying!Numbers /\ old[n] \in Seq(Copies) /\ old[n] # <<>>
      /\ copies' = Copying!Without(y) /\ backups' = backups /\ since' = since
      /\ old' = [old EXCEPT ![n] = Copying!Front(old[n])]
    BY <1>1, RunsAreNumbered DEF Copying!RemoveOne, CopyTypes
<1>3. /\ Len(old[n]) \in 1..Len(old[n]) /\ y = old[n][Len(old[n])][1] /\ Len(old[n]) \in Nat
    BY <1>2 DEF Copying!Last
<1>4. /\ Copying!Front(old[n]) \in Seq(Copies)
      /\ \A i \in 1..Len(Copying!Front(old[n])) :
            i \in 1..Len(old[n]) /\ Copying!Front(old[n])[i] = old[n][i]
    BY <1>2, <1>3 DEF Copying!Front
<1>5. Dooms(n, y)
    BY <1>3 DEF Dooms
<1> HIDE DEF y
<1>6. /\ copies' \in Seq(Copies) /\ OneCopyEach'
      /\ \A x : Copying!InDirectory(x)' <=> Copying!InDirectory(x) /\ x # y
      /\ \A x : Full(x)' <=> Full(x) /\ x # y
      /\ \A a, b : Older(a, b)' => Older(a, b) /\ a # y /\ b # y
    BY <1>1, <1>2, Removed
<1>7. /\ \A m : Waits(m)' <=> Waits(m)
      /\ \A m : Lists(m)' <=> Lists(m)
      /\ \A m : StillCopies(m)' <=> StillCopies(m)
      /\ \A m : Removes(m)' <=> Removes(m)
      /\ \A m : Going(m)' <=> Going(m)
    BY <1>2 DEF Waits, Lists, StillCopies, Removes, Going
<1>8. \A m \in Copying!Numbers : \A x : Dooms(m, x)' => Dooms(m, x)
  <2>1. \A m \in Copying!Numbers : old'[m] = IF m = n THEN Copying!Front(old[n]) ELSE old[m]
      BY <1>1, <1>2 DEF CopyTypes
  <2> QED
      BY <1>4, <2>1 DEF Dooms
<1>9. \A m \in Copying!Numbers : m # n => \A x : Dooms(m, x)' <=> Dooms(m, x)
  <2>1. \A m \in Copying!Numbers : m # n => old'[m] = old[m]
      BY <1>1, <1>2 DEF CopyTypes
  <2> QED
      BY <2>1 DEF Dooms
<1>10. \A x : Dooms(n, x) => x = y \/ Dooms(n, x)'
  <2> SUFFICES ASSUME NEW x, Dooms(n, x), x # y PROVE Dooms(n, x)'
      OBVIOUS
  <2>1. PICK i \in 1..Len(old[n]) : old[n][i][1] = x
      BY DEF Dooms
  <2>2. i # Len(old[n])
      BY <1>3, <2>1
  <2>3. old'[n] = Copying!Front(old[n])
      BY <1>1, <1>2 DEF CopyTypes
  <2>4. i \in 1..Len(Copying!Front(old[n])) /\ Copying!Front(old[n])[i] = old[n][i]
      BY <1>2, <1>3, <2>1, <2>2 DEF Copying!Front
  <2> QED
      BY <2>1, <2>3, <2>4 DEF Dooms
<1>11. CopyBase'
  <2>1. CopyTypes'
      BY <1>1, <1>2, <1>4, <1>6 DEF CopyTypes
  <2>2. TwoAtOnce'
      BY <1>1, <1>2, <1>7 DEF TwoAtOnce
  <2>3. OfTheRuns'
      BY <1>1, <1>2, <1>6, <1>7 DEF OfTheRuns
  <2>4. Listed'
      BY <1>1, <1>2, <1>7, <1>8 DEF Listed
  <2> QED
      BY <1>6, <2>1, <2>2, <2>3, <2>4 DEF CopyBase
<1>12. Copying!Overtaken' <=> Copying!Overtaken
    BY <1>2 DEF Copying!Overtaken
<1>13. ASSUME NEW x, Spared(x)
       PROVE  Spared(x)'
    BY <1>2, <1>5, <1>6, <1>8, <1>13 DEF Spared
<1>14. ASSUME ~Copying!Overtaken PROVE CopySafe' /\ KeepsOne
  <2>1. OthersListed /\ LastWord /\ Fresh /\ Beside /\ NotBoth /\ OneIsSpared /\ Safe
      BY <1>14 DEF CopyInv, CopySafe
  <2>2. Removes(n) /\ Going(n) /\ y # n
      BY <1>1, <1>2, <1>5, <2>1, WaitsOrRemoves DEF Listed, OthersListed
  <2>3. \A a, b : Going(a) /\ Going(b) => a = b \/ a = n \/ b = n
      BY <1>1, <2>2, NoThird
  <2>4. OthersListed'
      BY <1>8, <2>1 DEF OthersListed
  <2>5. LastWord'
    <3> SUFFICES ASSUME NEW m \in Copying!Numbers, NEW x, Dooms(m, x)', Waits(x)', Copying!InDirectory(x)'
                 PROVE  Full(m)' /\ \A b : Older(m, b)' => b = x
        BY DEF LastWord
    <3>1. Dooms(m, x) /\ Waits(x) /\ Copying!InDirectory(x) /\ x # y
        BY <1>6, <1>7, <1>8
    <3>2. Full(m) /\ \A b : Older(m, b) => b = x
        BY <2>1, <3>1 DEF LastWord
    <3>3. m = n
      <4>1. Removes(m) /\ x # m
          BY <1>1, <2>1, <3>1 DEF Listed, OthersListed
      <4> QED
          BY <2>2, <2>3, <3>1, <4>1, WaitsOrRemoves
    <3> QED
        BY <1>6, <2>2, <3>2, <3>3
  <2>6. Fresh'
      BY <1>2, <1>6, <1>7, <2>1 DEF Fresh
  <2>7. Beside'
    <3> SUFFICES ASSUME NEW m, NEW x, Lists(m)', Waits(x)', x # m, x \notin since'[m]
                 PROVE  since'[m] = {} /\ Copying!InDirectory(m)'
        BY DEF Beside
    <3>1. Going(m) /\ Going(x) /\ ~Removes(m) /\ ~Removes(x)
        BY <1>7, WaitsOrRemoves
    <3> QED
        BY <2>2, <2>3, <3>1
  <2>8. NotBoth'
      BY <1>2, <1>7, <2>1 DEF NotBoth
  <2>9. OneIsSpared' /\ KeepsOne
    <3>1. \A x : Full(x)' => Full(x)
        BY <1>6
    <3>2. \A x : Spared(x)' => Full(x)'
        BY DEF Spared
    <3> QED
        BY <1>13, <2>1, <3>1, <3>2 DEF OneIsSpared, KeepsOne
  <2>10. Safe'
    <3> SUFFICES ASSUME NEW m, Lists(m)'
                 PROVE  \/ \E x : Spared(x)' /\ \A b : Older(x, b)' => b \in since'[m]
                        \/ Copying!InDirectory(m)' /\ \E x \in Copying!Numbers : Dooms(x, m)'
        BY DEF Safe
    <3>1. Lists(m) /\ Waits(m) /\ Going(m) /\ ~Removes(m)
        BY <1>7, WaitsOrRemoves
    <3>2. CASE \E x : Spared(x) /\ \A b : Older(x, b) => b \in since[m]
      <4>1. PICK x : Spared(x) /\ \A b : Older(x, b) => b \in since[m]
          BY <3>2
      <4>2. Spared(x)' /\ \A b : Older(x, b)' => b \in since'[m]
          BY <1>2, <1>6, <1>13, <4>1
      <4> QED
          BY <4>2
    <3>3. CASE Copying!InDirectory(m) /\ \E x \in Copying!Numbers : Dooms(x, m)
      <4>1. PICK x \in Copying!Numbers : Dooms(x, m)
          BY <3>3
      <4>2. x = n
        <5>1. Removes(x) /\ Going(x)
            BY <1>1, <4>1, WaitsOrRemoves DEF Listed
        <5> QED
            BY <2>2, <2>3, <3>1, <5>1
      <4>3. Full(n) /\ \A b : Older(n, b) => b = m
          BY <2>1, <3>1, <3>3, <4>1, <4>2 DEF LastWord
      <4>4. CASE m = y
        <5>1. Full(n)' /\ \A b : ~Older(n, b)'
            BY <1>6, <2>2, <4>3, <4>4
        <5>2. \A z \in Copying!Numbers : ~Dooms(z, n)'
          <6> SUFFICES ASSUME NEW z \in Copying!Numbers, Dooms(z, n) PROVE FALSE
              BY <1>8
          <6>1. Removes(z) /\ Going(z) /\ z # n
              BY <1>1, <2>1, WaitsOrRemoves DEF Listed, OthersListed
          <6> QED
              BY <2>2, <2>3, <3>1, <6>1
        <5>3. Spared(n)' /\ \A b : Older(n, b)' => b \in since'[m]
            BY <5>1, <5>2 DEF Spared
        <5> QED
            BY <5>3
      <4>5. CASE m # y
        <5>1. Copying!InDirectory(m)' /\ Dooms(n, m)'
            BY <1>6, <1>10, <3>3, <4>1, <4>2, <4>5
        <5> QED
            BY <1>2, <5>1
      <4> QED
          BY <4>4, <4>5
    <3> QED
        BY <2>1, <3>1, <3>2, <3>3 DEF Safe
  <2> QED
      BY <2>4, <2>5, <2>6, <2>7, <2>8, <2>9, <2>10 DEF CopySafe
<1> QED
    BY <1>11, <1>12, <1>14 DEF CopyInv

(* A run that stops takes its list with it, and leaves its file as it is. *)
LEMMA CopyStops ==
    ASSUME CopyInv, NEW n \in 1..Len(backups),
           Copying!End(n) \/ Copying!Killed(n)
    PROVE  CopyInv' /\ KeepsOne
<1>1. PICK s \in {"ended", "killed"} :
        /\ backups' = [backups EXCEPT ![n] = s] /\ since' = since
        /\ old' = [old EXCEPT ![n] = <<>>] /\ copies' = copies
  <2>1. CASE Copying!End(n)
    <3>1. old = [old EXCEPT ![n] = <<>>]
        BY <2>1 DEF Copying!End, CopyInv, CopyBase, CopyTypes
    <3> QED
        BY <2>1, <3>1 DEF Copying!End
  <2>2. CASE Copying!Killed(n)
      BY <2>2 DEF Copying!Killed
  <2> QED
      BY <2>1, <2>2
<1>2. /\ CopyBase /\ CopyTypes /\ OneCopyEach /\ OfTheRuns /\ Listed /\ TwoAtOnce
    BY DEF CopyInv, CopyBase
<1>3. /\ backups' \in Seq(Copying!Stages) /\ Len(backups') = Len(backups)
      /\ backups'[n] = s /\ \A k \in 1..Len(backups) : k # n => backups'[k] = backups[k]
    BY <1>1, <1>2 DEF CopyTypes, Copying!Stages
<1>4. n \in Copying!Numbers
    BY <1>2, RunsAreNumbered
<1>5. /\ \A m : Waits(m)' <=> Waits(m) /\ m # n
      /\ \A m : Lists(m)' <=> Lists(m) /\ m # n
      /\ \A m : StillCopies(m)' <=> StillCopies(m) /\ m # n
      /\ \A m : Removes(m)' <=> Removes(m) /\ m # n
      /\ \A m : Going(m)' <=> Going(m) /\ m # n
    BY <1>1, <1>3 DEF Waits, Lists, StillCopies, Removes, Going
<1>6. /\ \A m \in Copying!Numbers : \A x : Dooms(m, x)' <=> Dooms(m, x) /\ m # n
      /\ old' \in [Copying!Numbers -> Seq(Copies)]
  <2>1. <<>> \in Seq(Copies)
      OBVIOUS
  <2>2. /\ \A m \in Copying!Numbers : old'[m] = IF m = n THEN <<>> ELSE old[m]
        /\ old' \in [Copying!Numbers -> Seq(Copies)]
      BY <1>1, <1>2, <2>1 DEF CopyTypes
  <2> QED
      BY <2>2 DEF Dooms
<1>7. /\ \A x : Copying!InDirectory(x)' <=> Copying!InDirectory(x)
      /\ \A x : Full(x)' <=> Full(x)
      /\ \A a, b : Older(a, b)' <=> Older(a, b)
    BY <1>1 DEF Copying!InDirectory, Full, Older
<1>8. CopyBase'
  <2>1. CopyTypes' /\ OneCopyEach'
      BY <1>1, <1>2, <1>3, <1>6 DEF CopyTypes, OneCopyEach
  <2>2. TwoAtOnce'
      BY <1>2, <1>3, <1>5 DEF TwoAtOnce
  <2>3. OfTheRuns'
      BY <1>2, <1>3, <1>5, <1>7 DEF OfTheRuns
  <2>4. Listed'
      BY <1>1, <1>2, <1>3, <1>5, <1>6 DEF Listed
  <2> QED
      BY <2>1, <2>2, <2>3, <2>4 DEF CopyBase
<1>9. Copying!Overtaken' <=> Copying!Overtaken
    BY <1>1 DEF Copying!Overtaken
<1>10. KeepsOne
    BY <1>7 DEF KeepsOne
<1>11. ASSUME NEW x, Spared(x)
       PROVE  Spared(x)'
    BY <1>6, <1>7, <1>11 DEF Spared
<1>12. ASSUME ~Copying!Overtaken PROVE CopySafe'
  <2>1. OthersListed /\ LastWord /\ Fresh /\ Beside /\ NotBoth /\ OneIsSpared /\ Safe
      BY <1>12 DEF CopyInv, CopySafe
  <2>2. OthersListed' /\ LastWord'
    <3>1. OthersListed'
        BY <1>6, <2>1 DEF OthersListed
    <3>2. LastWord'
        BY <1>5, <1>6, <1>7, <2>1 DEF LastWord
    <3> QED
        BY <3>1, <3>2
  <2>3. Fresh' /\ Beside' /\ NotBoth'
    <3>1. Fresh'
        BY <1>1, <1>5, <1>7, <2>1 DEF Fresh
    <3>2. Beside'
        BY <1>1, <1>5, <1>7, <2>1 DEF Beside
    <3>3. NotBoth'
        BY <1>1, <1>5, <2>1 DEF NotBoth
    <3> QED
        BY <3>1, <3>2, <3>3
  <2>4. OneIsSpared'
      BY <1>7, <1>11, <2>1 DEF OneIsSpared
  <2>5. Safe'
    <3> SUFFICES ASSUME NEW m, Lists(m)'
                 PROVE  \/ \E x : Spared(x)' /\ \A b : Older(x, b)' => b \in since'[m]
                        \/ Copying!InDirectory(m)' /\ \E x \in Copying!Numbers : Dooms(x, m)'
        BY DEF Safe
    <3>1. Lists(m) /\ m # n /\ Waits(m) /\ Going(m) /\ ~Removes(m)
        BY <1>5, WaitsOrRemoves
    <3>2. CASE \E x : Spared(x) /\ \A b : Older(x, b) => b \in since[m]
      <4>1. PICK x : Spared(x) /\ \A b : Older(x, b) => b \in since[m]
          BY <3>2
      <4>2. Spared(x)' /\ \A b : Older(x, b)' => b \in since'[m]
          BY <1>1, <1>7, <1>11, <4>1
      <4> QED
          BY <4>2
    <3>3. CASE Copying!InDirectory(m) /\ \E x \in Copying!Numbers : Dooms(x, m)
      <4>1. PICK x \in Copying!Numbers : Dooms(x, m)
          BY <3>3
      <4>2. Removes(x) /\ Going(x) /\ x # m
          BY <1>2, <2>1, <4>1, WaitsOrRemoves DEF Listed, OthersListed
      <4>3. CASE x # n
        <5>1. Dooms(x, m)' /\ Copying!InDirectory(m)'
            BY <1>6, <1>7, <3>3, <4>1, <4>3
        <5> QED
            BY <5>1
      <4>4. CASE x = n
        <5>1. Full(n) /\ \A b : Older(n, b) => b = m
            BY <2>1, <3>1, <3>3, <4>1, <4>4 DEF LastWord
        <5>2. Full(m) /\ \A b : Older(m, b) => b \in since[m]
            BY <2>1, <3>1, <3>3 DEF Fresh
        <5>3. \A z \in Copying!Numbers : \A v : ~Dooms(z, v)'
          <6> SUFFICES ASSUME NEW z \in Copying!Numbers, NEW v, Dooms(z, v), z # n PROVE FALSE
              BY <1>6
          <6>1. Removes(z) /\ Going(z)
              BY <1>2, WaitsOrRemoves DEF Listed
          <6> QED
              BY <1>2, <3>1, <4>2, <4>4, <6>1, NoThird
        <5>4. Spared(m)' /\ \A b : Older(m, b)' => b \in since'[m]
            BY <1>1, <1>7, <5>2, <5>3 DEF Spared
        <5> QED
            BY <5>4
      <4> QED
          BY <4>3, <4>4
    <3> QED
        BY <2>1, <3>1, <3>2, <3>3 DEF Safe
  <2> QED
      BY <2>2, <2>3, <2>4, <2>5 DEF CopySafe
<1> QED
    BY <1>8, <1>9, <1>10, <1>12 DEF CopyInv

LEMMA CopyInit == Copying!Init => CopyInv
<1> SUFFICES ASSUME Copying!Init PROVE CopyInv
    OBVIOUS
<1>1. copies = <<>> /\ backups = <<>> /\ Len(copies) = 0 /\ Len(backups) = 0 /\ MaxRuns \in Nat
      /\ \A n \in Copying!Numbers : old[n] = <<>> /\ since[n] = {}
    BY KeepingConstants DEF Copying!BackupsConstants, Copying!Init
<1>2. CopyTypes
    BY <1>1 DEF Copying!Init, CopyTypes
<1>3. /\ \A n : ~Lists(n) /\ ~StillCopies(n) /\ ~Going(n) /\ ~Full(n) /\ ~Copying!InDirectory(n)
      /\ \A n \in Copying!Numbers : \A m : ~Dooms(n, m)
    BY <1>1 DEF Lists, StillCopies, Going, Full, Copying!InDirectory, Dooms
<1>4. OneCopyEach /\ OfTheRuns /\ Listed /\ TwoAtOnce
    BY <1>1, <1>3 DEF OneCopyEach, OfTheRuns, Listed, TwoAtOnce
<1>5. CopySafe
    BY <1>3 DEF CopySafe, OthersListed, LastWord, Fresh, Beside, NotBoth, OneIsSpared, Safe
<1> QED
    BY <1>2, <1>4, <1>5 DEF CopyInv, CopyBase

LEMMA CopyStep ==
    ASSUME TwoByTwo, CopyInv, [Copying!Next]_(Copying!vars)
    PROVE  CopyInv' /\ (~Copying!Overtaken => KeepsOne)
<1>1. CASE UNCHANGED <<copies, backups, old, since>>
  <2>1. /\ \A m : Lists(m)' <=> Lists(m)
        /\ \A m : StillCopies(m)' <=> StillCopies(m)
        /\ \A m : Waits(m)' <=> Waits(m)
        /\ \A m : Removes(m)' <=> Removes(m)
        /\ \A m : Going(m)' <=> Going(m)
      BY <1>1 DEF Lists, StillCopies, Waits, Removes, Going
  <2>2. /\ \A x : Copying!InDirectory(x)' <=> Copying!InDirectory(x)
        /\ \A x : Full(x)' <=> Full(x)
        /\ \A a, b : Older(a, b)' <=> Older(a, b)
        /\ \A m, x : Dooms(m, x)' <=> Dooms(m, x)
      BY <1>1 DEF Copying!InDirectory, Full, Older, Dooms
  <2>3. \A x : Spared(x)' <=> Spared(x)
      BY <2>2 DEF Spared
  <2>4. CopyBase => CopyBase'
      BY <1>1, <2>1, <2>2 DEF CopyBase, CopyTypes, OneCopyEach, OfTheRuns, Listed, TwoAtOnce
  <2>5. Copying!Overtaken' <=> Copying!Overtaken
      BY <1>1 DEF Copying!Overtaken
  <2>6. ASSUME CopySafe PROVE CopySafe'
    <3>1. OthersListed' /\ LastWord'
        BY <2>1, <2>2, <2>6 DEF CopySafe, OthersListed, LastWord
    <3>2. Fresh'
        BY <1>1, <2>1, <2>2, <2>6 DEF CopySafe, Fresh
    <3>3. Beside' /\ NotBoth'
        BY <1>1, <2>1, <2>2, <2>6 DEF CopySafe, Beside, NotBoth
    <3>4. OneIsSpared'
        BY <2>2, <2>3, <2>6 DEF CopySafe, OneIsSpared
    <3>5. Safe'
        BY <1>1, <2>1, <2>2, <2>3, <2>6 DEF CopySafe, Safe
    <3> QED
        BY <3>1, <3>2, <3>3, <3>4, <3>5 DEF CopySafe
  <2> QED
      BY <2>2, <2>4, <2>5, <2>6 DEF CopyInv, KeepsOne
<1>2. CASE Copying!Begin
  <2>1. PICK k : k = Len(backups) + 1
      OBVIOUS
  <2>2. WritesTo(k, FALSE)
      BY <1>2, <2>1, BeginWrites DEF CopyInv
  <2> QED
      BY <2>2, CopyWrites
<1>3. CASE Copying!Pick \/ Copying!Send \/ Copying!SendFails
    BY <1>1, <1>3 DEF Copying!Pick, Copying!Send, Copying!SendFails
<1>4. ASSUME NEW n \in DOMAIN backups,
             \/ Copying!CopyOn(n) \/ Copying!CopyEnds(n) \/ Copying!List(n)
             \/ Copying!RemoveOne(n) \/ Copying!End(n) \/ Copying!Killed(n)
      PROVE  CopyInv' /\ (~Copying!Overtaken => KeepsOne)
  <2>1. n \in 1..Len(backups) /\ CopyBase
      BY DEF CopyInv, CopyBase, CopyTypes
  <2>2. CASE Copying!CopyOn(n) \/ Copying!CopyEnds(n)
      BY <2>1, <2>2, CopyOnWrites, CopyEndsWrites, CopyWrites
  <2> QED
      BY <1>4, <2>1, <2>2, CopyLists, CopyRemoves, CopyStops
<1> QED
    BY <1>1, <1>2, <1>3, <1>4 DEF Copying!Next, Copying!vars

\* Once there is a complete copy of the database there always is one: of two runs
\* of backup.sh at once, with two copies kept or more, whichever of them is killed,
\* and wherever, and however many ran before, unless as many others as copies are
\* kept wrote between the end of a run's copy and its listing (backup.sh:46, 49).
THEOREM LastGoodCopyAlwaysStays ==
    ASSUME TwoByTwo
    PROVE  Copying!Spec => LastGoodCopyStays
<1>1. Copying!Init => CopyInv
    BY CopyInit
<1>2. CopyInv /\ [Copying!Next]_(Copying!vars) => CopyInv'
    BY CopyStep
<1>3. CopyInv /\ [Copying!Next]_(Copying!vars)
        => [Copying!Complete # {} /\ ~Copying!Overtaken => Copying!Complete' # {}]_(Copying!vars)
  <2> SUFFICES ASSUME CopyInv, [Copying!Next]_(Copying!vars), Copying!Complete # {}, ~Copying!Overtaken
               PROVE  Copying!Complete' # {}
      OBVIOUS
  <2>1. CopyInv' /\ KeepsOne
      BY CopyStep
  <2> QED
      BY <2>1, SomeComplete DEF KeepsOne
<1> QED
    BY <1>1, <1>2, <1>3, PTL DEF Copying!Spec, LastGoodCopyStays, Copying!LastGoodCopyStays

-----------------------------------------------------------------------------
(* Sessions: the epoch that seals a cookie says whether its viewer signed   *)
(* out since, as long as the process is the one that issued it.             *)

WebCookies ==
    [viewer : Web!Viewers, expiry : Int, secret : Nat, epoch : Nat]

WebTypes ==
    /\ now \in Nat /\ secret \in Nat
    /\ epochs \in [Web!Viewers -> Nat]
    /\ cookies \subseteq WebCookies /\ signedOut \subseteq cookies
    /\ member \in [Persons -> AllOrganizations \cup {None}]

\* Of this process's cookies, those with an epoch gone by are the signed out.
EpochsTell ==
    \A c \in cookies :
        /\ c.secret <= secret
        /\ c.secret = secret =>
            /\ c.epoch <= epochs[c.viewer]
            /\ c \in signedOut <=> c.epoch < epochs[c.viewer]

WebInv == WebTypes /\ EpochsTell

LEMMA WebInit == Web!Init => WebInv
    BY DEF Web!Init, WebInv, WebTypes, EpochsTell

LEMMA WebIssue ==
    ASSUME WebInv, NEW v \in Web!Viewers, Web!Issue(v)
    PROVE  WebInv'
<1> USE DEF WebInv
<1>0. /\ SessionLength \in Nat
      /\ cookies' = cookies \cup {Web!Cookie(v)}
      /\ UNCHANGED <<now, secret, epochs, tickets, org, member, signedOut>>
    BY KeepingConstants DEF Web!SessionsConstants, Web!Issue, Web!processVars, Web!dbVars
<1>1. /\ Web!Cookie(v) \in WebCookies
      /\ Web!Cookie(v).viewer = v
      /\ Web!Cookie(v).secret = secret /\ Web!Cookie(v).epoch = epochs[v]
    BY <1>0 DEF Web!Cookie, WebCookies, WebTypes
<1>2. WebTypes'
    BY <1>0, <1>1 DEF WebTypes
<1>3. EpochsTell'
  <2> SUFFICES ASSUME NEW c \in cookies'
               PROVE  /\ c.secret <= secret
                      /\ c.secret = secret =>
                          /\ c.epoch <= epochs[c.viewer]
                          /\ c \in signedOut <=> c.epoch < epochs[c.viewer]
      BY <1>0 DEF EpochsTell
  <2>1. CASE c \in cookies
      BY <2>1 DEF EpochsTell
  <2>2. CASE c = Web!Cookie(v) /\ c \notin cookies
    <3>1. c \notin signedOut /\ epochs[v] \in Nat /\ secret \in Nat
        BY <2>2 DEF WebTypes
    <3>2. QED
        BY <2>2, <3>1, <1>1
  <2>3. QED
      BY <2>1, <2>2, <1>0
<1>4. QED
    BY <1>2, <1>3

LEMMA WebSignsOut ==
    ASSUME WebInv, NEW cookie \in cookies, Web!SignsOut(cookie)
    PROVE  WebInv'
<1> USE DEF WebInv
<1> DEFINE v == cookie.viewer
<1>0. /\ epochs' = [epochs EXCEPT ![v] = @ + 1]
      /\ signedOut' = signedOut \cup {c \in cookies : c.viewer = v}
      /\ UNCHANGED <<now, secret, cookies, tickets, org, member>>
    BY DEF Web!SignsOut, Web!dbVars
<1>1. v \in Web!Viewers /\ epochs[v] \in Nat
    BY DEF WebTypes, WebCookies
<1>2. WebTypes'
    BY <1>0, <1>1 DEF WebTypes
<1>3. EpochsTell'
  <2> SUFFICES ASSUME NEW c \in cookies
               PROVE  /\ c.secret <= secret
                      /\ c.secret = secret =>
                          /\ c.epoch <= epochs'[c.viewer]
                          /\ c \in signedOut' <=> c.epoch < epochs'[c.viewer]
      BY <1>0 DEF EpochsTell
  <2>0. /\ c.secret <= secret
        /\ c.secret = secret =>
            /\ c.epoch <= epochs[c.viewer]
            /\ c \in signedOut <=> c.epoch < epochs[c.viewer]
        /\ c.viewer \in Web!Viewers /\ c.epoch \in Nat /\ epochs[c.viewer] \in Nat
      BY DEF EpochsTell, WebTypes, WebCookies
  <2>1. CASE c.viewer = v
    <3>1. epochs'[c.viewer] = epochs[c.viewer] + 1 /\ c \in signedOut'
        BY <2>1, <1>0, <1>1 DEF WebTypes
    <3>2. QED
        BY <2>0, <3>1
  <2>2. CASE c.viewer # v
    <3>1. epochs'[c.viewer] = epochs[c.viewer] /\ (c \in signedOut' <=> c \in signedOut)
        BY <2>2, <2>0, <1>0, <1>1 DEF WebTypes
    <3>2. QED
        BY <2>0, <3>1
  <2>3. QED
      BY <2>1, <2>2
<1>4. QED
    BY <1>2, <1>3

LEMMA WebStep == WebInv /\ [Web!Next]_Web!vars => WebInv'
<1> SUFFICES ASSUME WebInv, [Web!Next]_Web!vars
             PROVE  WebInv'
    OBVIOUS
<1> USE DEF WebInv
<1>1. CASE Web!OperatorSignsIn
    BY <1>1, WebIssue DEF Web!OperatorSignsIn, Web!Viewers
<1>2. ASSUME NEW u \in Persons, Web!SignsIn(u)
      PROVE  WebInv'
    BY <1>2, WebIssue DEF Web!SignsIn, Web!Viewers
<1>3. ASSUME NEW u \in Persons, Web!FirstTime(u)
      PROVE  WebInv'
    BY <1>3 DEF Web!FirstTime, Web!processVars, Web!dbVars, WebTypes, EpochsTell
<1>4. ASSUME NEW ticket \in tickets, Web!Registers(ticket)
      PROVE  WebInv'
    BY <1>4 DEF Web!Registers, Web!processVars, WebTypes, EpochsTell
<1>5. ASSUME NEW cookie \in cookies, Web!SignsOut(cookie)
      PROVE  WebInv'
    BY <1>5, WebSignsOut
<1>6. ASSUME NEW o \in AllOrganizations, Web!Approve(o)
      PROVE  WebInv'
    BY <1>6 DEF Web!Approve, Web!processVars, WebTypes, EpochsTell
<1>7. ASSUME NEW o \in AllOrganizations, Web!Remove(o)
      PROVE  WebInv'
    BY <1>7 DEF Web!Remove, Web!processVars, WebTypes, EpochsTell
<1>8. CASE Web!Restart
    BY <1>8 DEF Web!Restart, Web!dbVars, WebTypes, WebCookies, EpochsTell
<1>9. CASE Web!Tick
    BY <1>9 DEF Web!Tick, Web!processVars, Web!dbVars, WebTypes, EpochsTell
<1>10. CASE UNCHANGED Web!vars
    BY <1>10 DEF Web!vars, Web!processVars, Web!dbVars, WebTypes, EpochsTell
<1>11. QED
    BY <1>1, <1>2, <1>3, <1>4, <1>5, <1>6, <1>7, <1>8, <1>9, <1>10 DEF Web!Next

LEMMA WebExact == WebInv => SessionsExact
<1> SUFFICES ASSUME WebInv, NEW c \in cookies
             PROVE  Web!Opens(c) <=>
                        /\ now <= c.expiry
                        /\ c.secret = secret
                        /\ c \notin signedOut
                        /\ Web!Belongs(c.viewer)
    BY DEF SessionsExact, Web!SessionsExact
<1>1. c.secret = secret => (c \in signedOut <=> c.epoch # epochs[c.viewer])
  <2>1. /\ c.secret = secret =>
            /\ c.epoch <= epochs[c.viewer]
            /\ c \in signedOut <=> c.epoch < epochs[c.viewer]
        /\ c.epoch \in Nat /\ epochs[c.viewer] \in Nat
      BY DEF WebInv, EpochsTell, WebTypes, WebCookies
  <2>2. QED
      BY <2>1
<1>2. QED
    BY <1>1 DEF Web!Opens, Web!Reads, Web!SealedHere

(* A cookie opens pages exactly until its own end, its process's, the first *)
(* sign-out of its viewer, or while its member is not one (SessionsExact):  *)
(* for any people and organizations, however often each signs in and out.   *)
THEOREM SignOutsHold == Web!Spec => []SessionsExact
    BY WebInit, WebStep, WebExact, PTL DEF Web!Spec

-----------------------------------------------------------------------------
(* ModelKeys: every copy of the tables is whole in itself, so that putting  *)
(* one back, with nothing in memory, is as good as any other step.          *)

VaultAccounts == Vaults!Accounts

VaultTables ==
    [owner : [AllSystems -> VaultAccounts \cup {None}],
     accounts : SUBSET VaultAccounts,
     vault : [VaultAccounts -> (1..MaxDataKeys) \cup {None}],
     key : [AllSystems -> Vaults!Rows \cup {None}]]

VaultTypes ==
    /\ keyTables \in VaultTables /\ backup \in VaultTables
    /\ keyFile \in 1..MaxFiles
    /\ dataKeys \in [VaultAccounts -> (1..MaxDataKeys) \cup {None}]
    /\ saving \subseteq AllSystems
    /\ made \in 0..MaxDataKeys

\* The keys that name a vault are sealed under it.
Sealed(tbl) ==
    \A s \in AllSystems :
        tbl.key[s] # None /\ tbl.key[s].owner # None => tbl.key[s].under = tbl.vault[tbl.key[s].owner]

InMemory == \A a \in VaultAccounts : dataKeys[a] # None => dataKeys[a] = keyTables.vault[a]

VaultInv == VaultTypes /\ Sealed(keyTables) /\ Sealed(backup) /\ InMemory

LEMMA VaultConstants ==
    /\ None \notin VaultAccounts /\ None \notin 1..MaxDataKeys
    /\ MaxDataKeys \in Nat /\ MaxFiles \in Nat \ {0}
    /\ Operator \in VaultAccounts
    BY KeepingConstants DEF Vaults!ModelKeysConstants, VaultAccounts, Vaults!Accounts

LEMMA VaultRows ==
    ASSUME NEW a \in VaultAccounts, NEW k \in 1..MaxDataKeys
    PROVE  [under |-> k, owner |-> a] \in Vaults!Rows
    BY DEF Vaults!Rows, VaultAccounts, Vaults!DataKeys

LEMMA VaultInit == Vaults!Init => VaultInv
<1> SUFFICES ASSUME Vaults!Init PROVE VaultInv
    OBVIOUS
<1> USE VaultConstants
<1>1. PICK o \in [AllSystems -> VaultAccounts] :
        keyTables = [owner |-> o, accounts |-> VaultAccounts, vault |-> Vaults!Locked,
                     key |-> [s \in AllSystems |-> None]]
    BY DEF Vaults!Init, VaultAccounts
<1>2. VaultTypes
    BY <1>1 DEF Vaults!Init, VaultTypes, VaultTables, Vaults!Locked, VaultAccounts
<1>3. QED
    BY <1>1, <1>2 DEF Vaults!Init, VaultInv, Sealed, InMemory, Vaults!Locked, VaultAccounts

(* A vault made, whatever of the keys it takes over got under it.           *)
LEMMA VaultMade ==
    ASSUME VaultInv, NEW a \in VaultAccounts, NEW taken \in SUBSET Vaults!TakenOver(a),
           Vaults!MayMake(a), keyTables' = Vaults!Vault(a, taken), made' = made + 1,
           \/ dataKeys' = [dataKeys EXCEPT ![a] = made + 1]
           \/ dataKeys' = Vaults!Locked,
           saving' \subseteq saving,
           UNCHANGED <<keyFile, backup>>
    PROVE  VaultInv'
<1> USE VaultConstants DEF VaultInv
<1> DEFINE k == made + 1
<1>0. k \in 1..MaxDataKeys /\ k # None /\ keyTables.vault[a] = None /\ taken \subseteq AllSystems
    BY DEF VaultTypes, Vaults!MayMake, Vaults!NoneYet, Vaults!TakenOver
<1>1. [under |-> k, owner |-> a] \in Vaults!Rows
    BY <1>0, VaultRows
<1>2. /\ keyTables'.vault = [keyTables.vault EXCEPT ![a] = k]
      /\ keyTables'.key = [s \in AllSystems |-> IF s \in taken THEN [under |-> k, owner |-> a] ELSE keyTables.key[s]]
      /\ keyTables'.owner = keyTables.owner /\ keyTables'.accounts = keyTables.accounts
      /\ keyTables' = [keyTables EXCEPT !.vault[a] = k, !.key = keyTables'.key]
    BY DEF Vaults!Vault, VaultTypes, VaultTables
<1>3. keyTables' \in VaultTables
  <2>1. keyTables'.vault \in [VaultAccounts -> (1..MaxDataKeys) \cup {None}]
      BY <1>0, <1>2 DEF VaultTypes, VaultTables
  <2>2. keyTables'.key \in [AllSystems -> Vaults!Rows \cup {None}]
      BY <1>1, <1>2 DEF VaultTypes, VaultTables
  <2>3. QED
      BY <1>2, <2>1, <2>2 DEF VaultTypes, VaultTables
<1>4. dataKeys' \in [VaultAccounts -> (1..MaxDataKeys) \cup {None}]
    BY <1>0 DEF VaultTypes, Vaults!Locked, VaultAccounts
<1>5. VaultTypes'
    BY <1>0, <1>3, <1>4 DEF VaultTypes
<1>6. Sealed(keyTables')
  <2> SUFFICES ASSUME NEW s \in AllSystems, keyTables'.key[s] # None, keyTables'.key[s].owner # None
               PROVE  keyTables'.key[s].under = keyTables'.vault[keyTables'.key[s].owner]
      BY DEF Sealed
  <2>1. CASE s \in taken
      BY <2>1, <1>0, <1>2 DEF VaultTypes, VaultTables
  <2>2. CASE s \notin taken
    <3>1. /\ keyTables'.key[s] = keyTables.key[s]
          /\ keyTables.key[s].under = keyTables.vault[keyTables.key[s].owner]
        BY <2>2, <1>2 DEF Sealed
    <3>2. keyTables.key[s] \in Vaults!Rows
        BY <3>1 DEF VaultTypes, VaultTables
    <3>3. keyTables.key[s].owner \in VaultAccounts /\ keyTables.key[s].under \in 1..MaxDataKeys
        BY <3>1, <3>2 DEF Vaults!Rows, Vaults!DataKeys, VaultAccounts
    <3>4. keyTables.key[s].owner # a
        BY <3>1, <3>3, <1>0
    <3>5. QED
        BY <3>1, <3>3, <3>4, <1>2 DEF VaultTypes, VaultTables
  <2>3. QED
      BY <2>1, <2>2
<1>7. InMemory'
    BY <1>0, <1>2 DEF InMemory, VaultTypes, VaultTables, Vaults!Locked, VaultAccounts
<1>8. QED
    BY <1>5, <1>6, <1>7 DEF Sealed

LEMMA VaultStep == VaultInv /\ [Vaults!Next]_Vaults!vars => VaultInv'
<1> SUFFICES ASSUME VaultInv, [Vaults!Next]_Vaults!vars
             PROVE  VaultInv'
    OBVIOUS
<1> USE VaultConstants DEF VaultInv
<1>1. CASE Vaults!BackUp
    BY <1>1 DEF Vaults!BackUp, VaultTypes, InMemory, Sealed
<1>2. ASSUME NEW s \in AllSystems, Vaults!AsksToSave(s)
      PROVE  VaultInv'
    BY <1>2 DEF Vaults!AsksToSave, VaultTypes, InMemory, Sealed
<1>3. ASSUME NEW s \in AllSystems, Vaults!Saves(s)
      PROVE  VaultInv'
  <2> DEFINE o == Vaults!OwnerNow(s)
  <2>0. /\ o \in VaultAccounts
        /\ UNCHANGED <<keyFile, vaultOn, dataKeys, shown, made, backup, changes>>
        /\ saving' \subseteq saving
      BY <1>3 DEF Vaults!Saves, Vaults!OwnerNow, VaultTypes, VaultTables
  <2>1. CASE keyTables' = keyTables
      BY <2>0, <2>1 DEF VaultTypes, InMemory, Sealed
  <2>2. ASSUME NEW row \in Vaults!Rows, keyTables' = [keyTables EXCEPT !.key[s] = row],
               row.owner # None => row.under = keyTables.vault[row.owner]
        PROVE  VaultInv'
    <3>1. /\ keyTables'.vault = keyTables.vault
          /\ keyTables'.key = [keyTables.key EXCEPT ![s] = row]
          /\ keyTables' \in VaultTables
        BY <2>2 DEF VaultTypes, VaultTables
    <3>2. VaultTypes' /\ InMemory'
        BY <2>0, <3>1 DEF VaultTypes, InMemory
    <3>3. Sealed(keyTables')
        BY <2>2, <3>1 DEF Sealed, VaultTypes, VaultTables
    <3>4. QED
        BY <2>0, <3>2, <3>3 DEF Sealed
  <2>3. CASE ~vaultOn /\ keyTables' = [keyTables EXCEPT !.key[s] = [under |-> keyFile, owner |-> None]]
    <3>1. [under |-> keyFile, owner |-> None] \in Vaults!Rows
        BY DEF Vaults!Rows, VaultTypes, Vaults!Files
    <3>2. QED
        BY <2>2, <2>3, <3>1
  <2>4. CASE /\ dataKeys[o] # None
             /\ keyTables' = [keyTables EXCEPT !.key[s] = [under |-> dataKeys[o], owner |-> o]]
    <3>1. dataKeys[o] \in 1..MaxDataKeys /\ dataKeys[o] = keyTables.vault[o]
        BY <2>0, <2>4 DEF VaultTypes, InMemory
    <3>2. [under |-> dataKeys[o], owner |-> o] \in Vaults!Rows
        BY <2>0, <3>1, VaultRows
    <3>3. QED
        BY <2>2, <2>4, <3>1, <3>2
  <2>5. QED
      BY <1>3, <2>1, <2>3, <2>4 DEF Vaults!Saves, Vaults!Replacing
<1>4. ASSUME NEW s \in AllSystems, Vaults!SaveFails(s)
      PROVE  VaultInv'
    BY <1>4 DEF Vaults!SaveFails, VaultTypes, InMemory, Sealed
<1>5. ASSUME NEW s \in AllSystems, Vaults!DeleteSystem(s)
      PROVE  VaultInv'
  <2>1. /\ keyTables'.vault = keyTables.vault
        /\ keyTables'.key = [keyTables.key EXCEPT ![s] = None]
        /\ keyTables' \in VaultTables
        /\ UNCHANGED <<keyFile, dataKeys, saving, made, backup>>
      BY <1>5 DEF Vaults!DeleteSystem, VaultTypes, VaultTables
  <2>2. QED
      BY <2>1 DEF VaultTypes, VaultTables, InMemory, Sealed
<1>6. ASSUME NEW a \in VaultAccounts, Vaults!CreateVault(a)
      PROVE  VaultInv'
    BY <1>6, VaultMade DEF Vaults!CreateVault
<1>7. ASSUME NEW a \in VaultAccounts, Vaults!CreateVaultFails(a)
      PROVE  VaultInv'
  <2>1. PICK taken \in SUBSET {s \in Vaults!TakenOver(a) : Vaults!Opens(s)} :
            keyTables' = Vaults!Vault(a, taken)
      BY <1>7 DEF Vaults!CreateVaultFails
  <2>2. QED
      BY <1>7, <2>1, VaultMade DEF Vaults!CreateVaultFails
<1>8. ASSUME NEW a \in VaultAccounts, Vaults!CreateVaultCut(a)
      PROVE  VaultInv'
  <2>1. PICK taken \in SUBSET {s \in Vaults!TakenOver(a) : Vaults!Opens(s)} :
            keyTables' = Vaults!Vault(a, taken)
      BY <1>8 DEF Vaults!CreateVaultCut
  <2>2. QED
      BY <1>8, <2>1, VaultMade DEF Vaults!CreateVaultCut
<1>9. ASSUME NEW a \in VaultAccounts, Vaults!Unlock(a)
      PROVE  VaultInv'
  <2>1. /\ dataKeys' = [dataKeys EXCEPT ![a] = keyTables.vault[a]]
        /\ UNCHANGED <<keyTables, keyFile, saving, made, backup>>
      BY <1>9 DEF Vaults!Unlock
  <2>2. VaultTypes'
      BY <2>1 DEF VaultTypes, VaultTables
  <2>3. InMemory'
      BY <2>1 DEF InMemory, VaultTypes
  <2>4. QED
      BY <2>1, <2>2, <2>3 DEF Sealed
<1>10. ASSUME NEW a \in VaultAccounts, Vaults!Lock(a)
      PROVE  VaultInv'
    BY <1>10 DEF Vaults!Lock, VaultTypes, InMemory, Sealed
<1>11. ASSUME NEW s \in AllSystems, NEW a \in VaultAccounts, Vaults!ChangesHands(s, a)
      PROVE  VaultInv'
  <2>1. /\ keyTables'.vault = keyTables.vault /\ keyTables'.key = keyTables.key
        /\ keyTables' \in VaultTables
        /\ UNCHANGED <<keyFile, dataKeys, saving, made, backup>>
      BY <1>11 DEF Vaults!ChangesHands, VaultTypes, VaultTables
  <2>2. QED
      BY <2>1 DEF VaultTypes, InMemory, Sealed
<1>12. ASSUME NEW a \in VaultAccounts, Vaults!DeleteOrganization(a)
      PROVE  VaultInv'
  <2> DEFINE owners == [s \in AllSystems |-> IF keyTables.owner[s] = a THEN None ELSE keyTables.owner[s]]
             keys == [s \in AllSystems |-> IF keyTables.owner[s] = a THEN None ELSE keyTables.key[s]]
  <2>1. /\ keyTables' = [keyTables EXCEPT !.accounts = @ \ {a}, !.owner = owners, !.key = keys]
        /\ UNCHANGED <<keyFile, dataKeys, saving, made, backup>>
      BY <1>12 DEF Vaults!DeleteOrganization, VaultTypes, VaultTables
  <2>2. /\ owners \in [AllSystems -> VaultAccounts \cup {None}]
        /\ keys \in [AllSystems -> Vaults!Rows \cup {None}]
    <3>1. /\ keyTables.owner \in [AllSystems -> VaultAccounts \cup {None}]
          /\ keyTables.key \in [AllSystems -> Vaults!Rows \cup {None}]
        BY DEF VaultTypes, VaultTables
    <3>2. QED
        BY <3>1
  <2> HIDE DEF owners, keys
  <2>3. /\ keyTables'.vault = keyTables.vault
        /\ keyTables'.key = keys
        /\ keyTables' \in VaultTables
      BY <2>1, <2>2 DEF VaultTypes, VaultTables
  <2>4. Sealed(keyTables')
      BY <2>3 DEF Sealed, keys
  <2>5. QED
      BY <2>1, <2>3, <2>4 DEF VaultTypes, InMemory, Sealed
<1>13. ASSUME NEW a \in VaultAccounts, Vaults!CreateOrganization(a)
      PROVE  VaultInv'
  <2>1. /\ keyTables'.vault = keyTables.vault /\ keyTables'.key = keyTables.key
        /\ keyTables' \in VaultTables
        /\ UNCHANGED <<keyFile, dataKeys, saving, made, backup>>
      BY <1>13 DEF Vaults!CreateOrganization, VaultTypes, VaultTables
  <2>2. QED
      BY <2>1 DEF VaultTypes, InMemory, Sealed
<1>14. ASSUME NEW setting \in BOOLEAN, Vaults!Restart(setting)
      PROVE  VaultInv'
    BY <1>14 DEF Vaults!Restart, Vaults!Locked, VaultAccounts, VaultTypes, InMemory, Sealed
<1>15. ASSUME NEW machine \in 1..MaxFiles, Vaults!Restore(machine)
      PROVE  VaultInv'
    BY <1>15 DEF Vaults!Restore, Vaults!Locked, VaultAccounts, VaultTypes, InMemory, Sealed
<1>16. CASE UNCHANGED Vaults!vars
    BY <1>16 DEF Vaults!vars, VaultTypes, InMemory, Sealed
<1>17. QED
    BY <1>1, <1>2, <1>3, <1>4, <1>5, <1>6, <1>7, <1>8, <1>9, <1>10, <1>11, <1>12, <1>13, <1>14, <1>15, <1>16
    DEF Vaults!Next, Vaults!Files, VaultAccounts

(* A model key that names a vault is opened by the vault's data key, and    *)
(* what is in memory of an account is its vault's (KeysOpenInTheirVault):   *)
(* through handovers, deletions, vaults cut short and copies put back.      *)
THEOREM VaultsOpenTheirKeys == Vaults!Spec => []KeysOpenInTheirVault
<1>1. VaultInv => KeysOpenInTheirVault
    BY DEF VaultInv, Sealed, InMemory, KeysOpenInTheirVault, Vaults!KeysOpenInTheirVault, VaultAccounts
<1>2. QED
    BY <1>1, VaultInit, VaultStep, PTL DEF Vaults!Spec

-----------------------------------------------------------------------------
(* DailyExport: a day with a file, or with a run under way, has come to its *)
(* last minute, so nothing is recorded in it any more before that minute.   *)

Zips == [account : Holders, system : AllSystems, day : Nat, receipts : Nat]

DailyTypes ==
    /\ day \in Nat /\ runDay \in Nat /\ late \in BOOLEAN
    /\ chain \in [AllSystems -> Seq(Nat \X BOOLEAN)]
    /\ owner \in [AllSystems -> Holders]
    /\ zips \subseteq Zips
    /\ run \subseteq AllSystems \X Holders

AtItsEnd(d) == d <= day /\ (d = day => late)

DailyInv ==
    /\ DailyTypes
    /\ \A f \in zips : AtItsEnd(f.day)
    /\ run # {} => AtItsEnd(runDay)
    /\ HoldsItsDay

\* The instance counts as everybody does.
LEMMA DailyCounts == \A S : Daily!Cardinality(S) = Cardinality(S)
    BY DEF Daily!Cardinality, Cardinality

EarlyOfDay(s, d) == {i \in Daily!OfDay(s, d) : ~chain[s][i][2]}

HoldsIts(f) ==
    /\ f.receipts <= Cardinality(Daily!OfDay(f.system, f.day))
    /\ f.receipts >= Cardinality(EarlyOfDay(f.system, f.day))

LEMMA HoldsEach == HoldsItsDay <=> \A f \in zips : HoldsIts(f)
<1>1. \A f : {i \in Daily!OfDay(f.system, f.day) : ~chain[f.system][i][2]} = EarlyOfDay(f.system, f.day)
    BY DEF EarlyOfDay
<1>2. QED
    BY <1>1, DailyCounts DEF HoldsItsDay, Daily!HoldsItsDay, HoldsIts

LEMMA DailyInit == Daily!Init => DailyInv
<1> SUFFICES ASSUME Daily!Init PROVE DailyInv
    OBVIOUS
<1>1. <<>> \in Seq(Nat \X BOOLEAN)
    OBVIOUS
<1>2. chain \in [AllSystems -> Seq(Nat \X BOOLEAN)]
    BY <1>1 DEF Daily!Init
<1>3. DailyTypes
    BY <1>2 DEF Daily!Init, DailyTypes
<1>4. zips = {} /\ run = {}
    BY DEF Daily!Init
<1>5. QED
    BY <1>3, <1>4 DEF DailyInv, HoldsItsDay, Daily!HoldsItsDay

LEMMA DaysAreFinite ==
    ASSUME DailyTypes, NEW s \in AllSystems, NEW d
    PROVE  /\ IsFiniteSet(Daily!OfDay(s, d))
           /\ Cardinality(Daily!OfDay(s, d)) \in Nat
           /\ Cardinality(EarlyOfDay(s, d)) \in Nat
           /\ Cardinality(EarlyOfDay(s, d)) <= Cardinality(Daily!OfDay(s, d))
<1>1. Len(chain[s]) \in Nat
    BY DEF DailyTypes
<1>2. IsFiniteSet(1..Len(chain[s]))
    BY <1>1, FS_Interval
<1>3. IsFiniteSet(Daily!OfDay(s, d))
    BY <1>2, FS_Subset DEF Daily!OfDay
<1>4. EarlyOfDay(s, d) \subseteq Daily!OfDay(s, d)
    BY DEF EarlyOfDay
<1>5. QED
    BY <1>3, <1>4, FS_Subset, FS_CardinalityType

LEMMA DailyTime ==
    ASSUME DailyInv, Daily!Time
    PROVE  DailyInv'
<1> USE DEF DailyInv
<1>1. UNCHANGED <<chain, owner, zips, run, runDay>>
    BY DEF Daily!Time
<1>2. DailyTypes'
    BY <1>1 DEF Daily!Time, DailyTypes
<1>3. \A d \in Nat : AtItsEnd(d) => AtItsEnd(d)'
    BY DEF Daily!Time, AtItsEnd, DailyTypes
<1>4. /\ \A f \in zips' : AtItsEnd(f.day)'
      /\ run' # {} => AtItsEnd(runDay)'
    BY <1>1, <1>3 DEF DailyTypes, Zips, AtItsEnd
<1>5. HoldsItsDay'
    BY <1>1 DEF HoldsItsDay, Daily!HoldsItsDay, Daily!OfDay
<1>6. QED
    BY <1>2, <1>4, <1>5

LEMMA DailyRecord ==
    ASSUME DailyInv, NEW s \in AllSystems, Daily!Record(s)
    PROVE  DailyInv'
<1> USE DEF DailyInv
<1>1. /\ chain' = [chain EXCEPT ![s] = Append(@, <<day, late>>)]
      /\ UNCHANGED <<day, late, owner, zips, run, runDay>>
    BY DEF Daily!Record
<1>2. /\ chain[s] \in Seq(Nat \X BOOLEAN) /\ chain'[s] = Append(chain[s], <<day, late>>)
      /\ chain' \in [AllSystems -> Seq(Nat \X BOOLEAN)]
    BY <1>1 DEF DailyTypes
<1>3. DailyTypes'
    BY <1>1, <1>2 DEF DailyTypes
<1>4. HoldsItsDay'
  <2> SUFFICES ASSUME NEW f \in zips
               PROVE  HoldsIts(f)'
    <3>1. \A f \in zips : HoldsIts(f)'
        OBVIOUS
    <3>2. \A f : {i \in Daily!OfDay(f.system, f.day)' : ~chain'[f.system][i][2]} = EarlyOfDay(f.system, f.day)'
        BY DEF EarlyOfDay
    <3>3. QED
        BY <1>1, <3>1, <3>2, DailyCounts DEF HoldsItsDay, Daily!HoldsItsDay, HoldsIts
  <2> DEFINE t == f.system
             d == f.day
  <2>1. t \in AllSystems /\ d \in Nat /\ f.receipts \in Nat /\ AtItsEnd(d) /\ HoldsIts(f)
      BY HoldsEach DEF DailyTypes, Zips
  <2>2. CASE t # s
    <3>1. chain'[t] = chain[t]
        BY <1>1, <2>1, <2>2 DEF DailyTypes
    <3>2. QED
        BY <2>1, <3>1 DEF HoldsIts, EarlyOfDay, Daily!OfDay
  <2>3. CASE t = s
    <3> DEFINE n == Len(chain[s])
    <3>1. /\ n \in Nat /\ Len(chain'[s]) = n + 1
          /\ \A i \in 1..n : chain'[s][i] = chain[s][i]
          /\ chain'[s][n + 1] = <<day, late>>
        BY <1>2, AppendProperties
    <3>2. Daily!OfDay(s, d) \subseteq Daily!OfDay(s, d)'
        BY <3>1 DEF Daily!OfDay
    <3>3. EarlyOfDay(s, d)' = EarlyOfDay(s, d)
        BY <1>1, <2>1, <3>1 DEF EarlyOfDay, Daily!OfDay, AtItsEnd, DailyTypes
    <3>4. /\ IsFiniteSet(Daily!OfDay(s, d)')
          /\ Cardinality(Daily!OfDay(s, d)') \in Nat
      <4>1. Daily!OfDay(s, d)' \subseteq 1..(n + 1)
          BY <3>1 DEF Daily!OfDay
      <4>2. IsFiniteSet(1..(n + 1))
          BY <3>1, FS_Interval
      <4>3. QED
          BY <4>1, <4>2, FS_Subset, FS_CardinalityType
    <3>5. Cardinality(Daily!OfDay(s, d)) <= Cardinality(Daily!OfDay(s, d)')
        BY <3>2, <3>4, FS_Subset
    <3>6. Cardinality(Daily!OfDay(s, d)) \in Nat
        BY <2>1, DaysAreFinite
    <3>7. QED
        BY <2>1, <2>3, <3>3, <3>4, <3>5, <3>6 DEF HoldsIts
  <2>4. QED
      BY <2>2, <2>3
<1>5. QED
    BY <1>1, <1>3, <1>4 DEF AtItsEnd

(* A file written now holds what the day has, however late it is written.   *)
LEMMA DailyOne ==
    ASSUME DailyInv, Daily!One
    PROVE  DailyInv'
<1> USE DEF DailyInv
<1>1. PICK r \in run :
        /\ zips' = IF run = {r} THEN Daily!Kept(Daily!Written(r[1], r[2]), runDay)
                   ELSE Daily!Written(r[1], r[2])
        /\ run' = run \ {r}
    BY DEF Daily!One
<1>2. /\ UNCHANGED <<day, late, chain, owner, runDay>>
      /\ r[1] \in AllSystems /\ r[2] \in Holders /\ AtItsEnd(runDay) /\ runDay \in Nat
    BY <1>1 DEF Daily!One, DailyTypes
<1> DEFINE n == Cardinality(Daily!OfDay(r[1], runDay))
           new == [account |-> r[2], system |-> r[1], day |-> runDay, receipts |-> n]
<1>3. zips' \subseteq zips \cup {new}
    BY <1>1, DailyCounts DEF Daily!Kept, Daily!Written
<1>4. n \in Nat /\ Cardinality(EarlyOfDay(r[1], runDay)) <= n
    BY <1>2, DaysAreFinite
<1>5. new \in Zips /\ AtItsEnd(new.day) /\ HoldsIts(new)
    BY <1>2, <1>4 DEF Zips, HoldsIts
<1>6. DailyTypes'
    BY <1>1, <1>2, <1>3, <1>5 DEF DailyTypes
<1>7. \A f \in zips' : AtItsEnd(f.day) /\ HoldsIts(f)
    BY <1>3, <1>5, HoldsEach
<1>8. HoldsItsDay'
  <2>1. \A f : {i \in Daily!OfDay(f.system, f.day)' : ~chain'[f.system][i][2]} = EarlyOfDay(f.system, f.day)
      BY <1>2 DEF EarlyOfDay, Daily!OfDay
  <2>2. \A f : Daily!OfDay(f.system, f.day)' = Daily!OfDay(f.system, f.day)
      BY <1>2 DEF Daily!OfDay
  <2>3. QED
      BY <1>7, <2>1, <2>2, DailyCounts DEF HoldsItsDay, Daily!HoldsItsDay, HoldsIts
<1>9. QED
    BY <1>1, <1>2, <1>6, <1>7, <1>8 DEF AtItsEnd

LEMMA DailyStep == DailyInv /\ [Daily!Next]_Daily!vars => DailyInv'
<1> SUFFICES ASSUME DailyInv, [Daily!Next]_Daily!vars
             PROVE  DailyInv'
    OBVIOUS
<1> USE DEF DailyInv
<1>1. ASSUME UNCHANGED <<day, late, chain, zips>>, DailyTypes', run' # {} => AtItsEnd(runDay')
      PROVE  DailyInv'
    BY <1>1 DEF AtItsEnd, HoldsItsDay, Daily!HoldsItsDay, Daily!OfDay
<1>2. CASE Daily!Tick
  <2>1. DailyTypes' /\ AtItsEnd(runDay')
      BY <1>2 DEF Daily!Tick, Daily!ItIsTime, DailyTypes, AtItsEnd
  <2>2. QED
      BY <1>1, <1>2, <2>1 DEF Daily!Tick
<1>3. CASE Daily!Fails
    BY <1>1, <1>3 DEF Daily!Fails, DailyTypes
<1>4. ASSUME NEW s \in AllSystems, Daily!Transfer(s)
      PROVE  DailyInv'
  <2>1. DailyTypes'
      BY <1>4 DEF Daily!Transfer, DailyTypes
  <2>2. QED
      BY <1>1, <1>4, <2>1 DEF Daily!Transfer
<1>5. ASSUME NEW a \in Holders, Daily!setDailyExport(a)
      PROVE  DailyInv'
    BY <1>1, <1>5 DEF Daily!setDailyExport, DailyTypes
<1>6. CASE UNCHANGED Daily!vars
    BY <1>1, <1>6 DEF Daily!vars, DailyTypes
<1>7. QED
    BY <1>2, <1>3, <1>4, <1>5, <1>6, DailyTime, DailyRecord, DailyOne DEF Daily!Next

(* A day's file has every receipt of the day until 23:59 and none of        *)
(* another (HoldsItsDay), however late it is written, whoever owns the      *)
(* system by then and whatever run failed before.                           *)
THEOREM FilesHoldTheirDay == Daily!Spec => []HoldsItsDay
<1>1. DailyInv => HoldsItsDay
    BY DEF DailyInv
<1>2. QED
    BY <1>1, DailyInit, DailyStep, PTL DEF Daily!Spec

-----------------------------------------------------------------------------
(* Adoption: what a state file holds is the longest of what this memory     *)
(* took over or signed, and the command writes only files that are not      *)
(* there.                                                                   *)

MemoryChains == Seq(Contents)

MemoryFiles == {Memory!Unknown, Memory!Retired} \cup {Memory!Chain(c) : c \in MemoryChains}

MemoryTables ==
    [chain : [AllSystems -> MemoryChains], gone : SUBSET AllSystems, logged : [AllSystems -> Nat]]

MemoryTypes ==
    /\ db \in MemoryTables /\ copy \in MemoryTables
    /\ files \in [AllSystems -> MemoryFiles]
    /\ marker \in BOOLEAN /\ up \in BOOLEAN /\ release \in {"old", "new"}
    /\ command \in [at : {"off", "putting", "marking"}, todo : Seq(AllSystems), report : SUBSET AllSystems]
    /\ held \in [AllSystems -> SUBSET MemoryChains]

Longest ==
    \A s \in AllSystems :
        /\ files[s] = Memory!Unknown => held[s] = {}
        /\ files[s] = Memory!Retired => held[s] \subseteq {<<>>}
        /\ files[s].is = "chain" => \A c \in held[s] : IsPrefix(c, files[s].chain)

\* While the command goes on nothing else moves; what is left to write is not
\* there, and listed once.
WritesOnce ==
    /\ command = Memory!Off \/ (~up /\ release = "new")
    /\ command.at = "putting" =>
        \A i \in 1..Len(command.todo) :
            /\ files[command.todo[i]] = Memory!Unknown
            /\ \A j \in 1..Len(command.todo) : command.todo[i] = command.todo[j] => i = j

MemoryInv == MemoryTypes /\ Longest /\ WritesOnce

-----------------------------------------------------------------------------
\* The instance's operators on sequences are everybody's.
LEMMA MemorySequences ==
    /\ \A s, t : Memory!IsPrefix(s, t) = IsPrefix(s, t)
    /\ \A s, t : Memory!IsStrictPrefix(s, t) = IsStrictPrefix(s, t)
    /\ \A S : Memory!SetToSeq(S) = SetToSeq(S)
    BY DEF Memory!IsPrefix, IsPrefix, Memory!IsStrictPrefix, IsStrictPrefix,
           Memory!SetToSeq, SetToSeq, Memory!IsInjective, IsInjective,
           Memory!Cardinality, Cardinality

LEMMA MemoryKinds ==
    /\ Memory!Unknown # Memory!Retired /\ Memory!Unknown.is = "unknown"
    /\ Memory!Retired.is = "retired"
    /\ \A c : /\ Memory!Chain(c).is = "chain" /\ Memory!Chain(c).chain = c
              /\ Memory!Chain(c) # Memory!Unknown /\ Memory!Chain(c) # Memory!Retired
    BY DEF Memory!Unknown, Memory!Retired, Memory!Chain

LEMMA ListedOnce ==
    ASSUME NEW S, IsFiniteSet(S)
    PROVE  /\ SetToSeq(S) \in Seq(S)
           /\ \A i, j \in 1..Len(SetToSeq(S)) : SetToSeq(S)[i] = SetToSeq(S)[j] => i = j
<1>1. /\ Cardinality(S) \in Nat
      /\ ExistsBijection(1..Cardinality(S), S)
    BY FS_CardinalityType
<1>2. \E f \in [1..Cardinality(S) -> S] : IsInjective(f)
    BY <1>1 DEF ExistsBijection, Bijection, Injection, IsInjective
<1>3. SetToSeq(S) \in [1..Cardinality(S) -> S] /\ IsInjective(SetToSeq(S))
    BY <1>2 DEF SetToSeq
<1>4. QED
    BY <1>1, <1>3 DEF IsInjective

LEMMA MemoryFileTypes ==
    ASSUME MemoryTypes, NEW s \in AllSystems
    PROVE  /\ files[s] \in MemoryFiles
           /\ files[s] = Memory!Unknown \/ files[s] = Memory!Retired
                \/ (files[s].is = "chain" /\ files[s].chain \in MemoryChains
                     /\ files[s] = Memory!Chain(files[s].chain))
           /\ db.chain[s] \in MemoryChains /\ held[s] \subseteq MemoryChains
    BY MemoryKinds DEF MemoryTypes, MemoryFiles, MemoryTables

LEMMA MemoryInit == Memory!Init => MemoryInv
<1> SUFFICES ASSUME Memory!Init PROVE MemoryInv
    OBVIOUS
<1>1. \A c \in Contents : <<c>> \in MemoryChains
    BY DEF MemoryChains
<1>2. <<>> \in MemoryChains
    BY DEF MemoryChains
<1>3. db \in MemoryTables /\ copy \in MemoryTables
    BY <1>1, <1>2 DEF Memory!Init, MemoryTables
<1>4. /\ files = [s \in AllSystems |-> Memory!Unknown] /\ held = [s \in AllSystems |-> {}]
      /\ command = Memory!Off
    BY DEF Memory!Init
<1>5. MemoryTypes
  <2>1. Memory!Off \in [at : {"off", "putting", "marking"}, todo : Seq(AllSystems), report : SUBSET AllSystems]
      BY DEF Memory!Off
  <2>2. Memory!Unknown \in MemoryFiles
      BY DEF MemoryFiles
  <2>3. files \in [AllSystems -> MemoryFiles] /\ held \in [AllSystems -> SUBSET MemoryChains]
      BY <1>4, <2>2
  <2>4. marker \in BOOLEAN /\ up \in BOOLEAN /\ release \in {"old", "new"}
      BY DEF Memory!Init
  <2>5. QED
      BY <1>3, <1>4, <2>1, <2>3, <2>4 DEF MemoryTypes
<1>6. Longest
    BY <1>4, MemoryKinds DEF Longest
<1>7. WritesOnce
    BY <1>4 DEF WritesOnce, Memory!Off
<1>8. QED
    BY <1>5, <1>6, <1>7 DEF MemoryInv

(* What the command decides to write.                                       *)
LEMMA MemoryRun ==
    ASSUME MemoryInv, Memory!Run
    PROVE  MemoryInv'
<1> USE DEF MemoryInv
<1>0. /\ ~up /\ release = "new" /\ command = Memory!Off
      /\ UNCHANGED <<db, copy, files, marker, release, up, held>>
    BY DEF Memory!Run
<1>1. CASE UNCHANGED command
    BY <1>0, <1>1 DEF MemoryTypes, Longest, WritesOnce
<1>2. CASE command' # command
  <2> DEFINE mine == {s \in Memory!Held : ~Memory!Agrees(s)}
             retired == Memory!ToRetire
             todo == SetToSeq(mine) \o SetToSeq(retired)
  <2>1. /\ Memory!Acceptable /\ ~marker
        /\ command' = [at |-> "putting", todo |-> todo, report |-> Memory!Reported]
      BY <1>2, MemorySequences DEF Memory!Run, Memory!ToWrite
  <2>2. /\ \A s \in mine : s \in AllSystems /\ files[s] = Memory!Unknown
        /\ \A s \in retired : s \in AllSystems /\ files[s] = Memory!Unknown /\ s \notin mine
      BY <2>1 DEF Memory!Acceptable, Memory!Held, Memory!ToRetire, MemoryTypes, MemoryTables
  <2>3. IsFiniteSet(mine) /\ IsFiniteSet(retired)
    <3>1. \A S : Memory!IsFiniteSet(S) = IsFiniteSet(S)
        BY DEF Memory!IsFiniteSet, IsFiniteSet
    <3>2. IsFiniteSet(AllSystems)
        BY <3>1, RestoredConstants DEF Memory!AdoptionConstants
    <3>3. QED
        BY <2>2, <3>2, FS_Subset
  <2> DEFINE a == SetToSeq(mine)
             b == SetToSeq(retired)
  <2>4. /\ a \in Seq(mine) /\ b \in Seq(retired)
        /\ \A i, j \in 1..Len(a) : a[i] = a[j] => i = j
        /\ \A i, j \in 1..Len(b) : b[i] = b[j] => i = j
      BY <2>3, ListedOnce
  <2> HIDE DEF a, b, mine, retired
  <2>5. /\ todo \in Seq(AllSystems)
        /\ \A i \in 1..Len(todo) :
            /\ files[todo[i]] = Memory!Unknown
            /\ \A j \in 1..Len(todo) : todo[i] = todo[j] => i = j
    <3>1. todo = a \o b
        BY DEF a, b
    <3>2. a \in Seq(AllSystems) /\ b \in Seq(AllSystems)
        BY <2>2, <2>4
    <3>3. /\ a \o b \in Seq(AllSystems) /\ Len(a \o b) = Len(a) + Len(b)
          /\ Len(a) \in Nat /\ Len(b) \in Nat
          /\ \A i \in 1..Len(a) : (a \o b)[i] = a[i] /\ a[i] \in mine
          /\ \A i \in (Len(a) + 1)..(Len(a) + Len(b)) :
                (a \o b)[i] = b[i - Len(a)] /\ b[i - Len(a)] \in retired
        BY <3>2, <2>4
    <3>4. ASSUME NEW i \in 1..(Len(a) + Len(b)), NEW j \in 1..(Len(a) + Len(b)),
                 (a \o b)[i] = (a \o b)[j]
          PROVE  i = j
      <4>1. CASE i <= Len(a) /\ j <= Len(a)
          BY <2>4, <3>3, <3>4, <4>1
      <4>2. CASE i > Len(a) /\ j > Len(a)
        <5>1. i - Len(a) \in 1..Len(b) /\ j - Len(a) \in 1..Len(b)
            BY <3>3, <4>2
        <5>2. b[i - Len(a)] = b[j - Len(a)]
            BY <3>3, <3>4, <4>2
        <5>3. i - Len(a) = j - Len(a)
            BY <2>4, <5>1, <5>2
        <5>4. QED
            BY <5>3, <3>3
      <4>3. CASE i <= Len(a) /\ j > Len(a)
          BY <2>2, <3>3, <3>4, <4>3
      <4>4. CASE i > Len(a) /\ j <= Len(a)
          BY <2>2, <3>3, <3>4, <4>4
      <4>5. QED
          BY <4>1, <4>2, <4>3, <4>4, <3>3
    <3>5. \A i \in 1..(Len(a) + Len(b)) : files[(a \o b)[i]] = Memory!Unknown
        BY <2>2, <3>3
    <3>6. QED
        BY <3>1, <3>3, <3>4, <3>5
  <2> HIDE DEF todo
  <2>6. Memory!Reported \subseteq AllSystems
      BY DEF Memory!Reported, Memory!ToTakeOver, Memory!ToRetire, Memory!Held, MemoryTypes, MemoryTables
  <2>7. MemoryTypes'
      BY <1>0, <2>1, <2>5, <2>6 DEF MemoryTypes
  <2>8. Longest'
      BY <1>0 DEF Longest
  <2>9. WritesOnce'
      BY <1>0, <2>1, <2>5 DEF WritesOnce
  <2>10. QED
      BY <2>7, <2>8, <2>9
<1>3. QED
    BY <1>1, <1>2

LEMMA MemoryPutState ==
    ASSUME MemoryInv, Memory!PutState
    PROVE  MemoryInv'
<1> USE DEF MemoryInv
<1> DEFINE todo == command.todo
           s == Head(todo)
           file == IF s \in Memory!Held THEN Memory!Chain(db.chain[s]) ELSE Memory!Retired
<1>1. /\ command.at = "putting" /\ todo # <<>> /\ command # Memory!Off
      /\ files' = [files EXCEPT ![s] = file]
      /\ held' = [held EXCEPT ![s] = @ \cup {db.chain[s]}]
      /\ command' = [command EXCEPT !.todo = Tail(todo)]
      /\ UNCHANGED <<db, copy, marker, release, up>>
    BY DEF Memory!PutState, Memory!Off
<1>2. /\ todo \in Seq(AllSystems) /\ s \in AllSystems /\ Len(todo) \in Nat /\ Len(todo) > 0
      /\ Tail(todo) \in Seq(AllSystems) /\ Len(Tail(todo)) = Len(todo) - 1
      /\ \A i \in 1..(Len(todo) - 1) : Tail(todo)[i] = todo[i + 1]
      /\ s = todo[1] /\ command' = [at |-> "putting", todo |-> Tail(todo), report |-> command.report]
  <2>1. todo \in Seq(AllSystems)
      BY DEF MemoryTypes
  <2>2. /\ s \in AllSystems /\ Len(todo) \in Nat /\ Len(todo) > 0 /\ s = todo[1]
        /\ Tail(todo) \in Seq(AllSystems) /\ Len(Tail(todo)) = Len(todo) - 1
        /\ \A i \in 1..(Len(todo) - 1) : Tail(todo)[i] = todo[i + 1]
    <3> HIDE DEF todo
    <3>1. QED
        BY <1>1, <2>1, HeadTailProperties
  <2>3. command' = [at |-> "putting", todo |-> Tail(todo), report |-> command.report]
      BY <1>1 DEF MemoryTypes
  <2>4. QED
      BY <2>1, <2>2, <2>3
<1> HIDE DEF todo
<1>3. files[s] = Memory!Unknown /\ held[s] = {}
    BY <1>1, <1>2 DEF WritesOnce, Longest, todo
<1>4. db.chain[s] \in MemoryChains
    BY <1>2 DEF MemoryTypes, MemoryTables
<1>5. file \in MemoryFiles
    BY <1>4 DEF MemoryFiles
<1>6. MemoryTypes'
  <2>1. held' \in [AllSystems -> SUBSET MemoryChains]
      BY <1>1, <1>4 DEF MemoryTypes
  <2>2. command' \in [at : {"off", "putting", "marking"}, todo : Seq(AllSystems), report : SUBSET AllSystems]
      BY <1>2 DEF MemoryTypes
  <2>3. files' \in [AllSystems -> MemoryFiles]
      BY <1>1, <1>5 DEF MemoryTypes
  <2>4. QED
      BY <1>1, <2>1, <2>2, <2>3 DEF MemoryTypes
<1>7. Longest'
  <2> SUFFICES ASSUME NEW t \in AllSystems
               PROVE  /\ files'[t] = Memory!Unknown => held'[t] = {}
                      /\ files'[t] = Memory!Retired => held'[t] \subseteq {<<>>}
                      /\ files'[t].is = "chain" => \A c \in held'[t] : IsPrefix(c, files'[t].chain)
      BY DEF Longest
  <2>1. CASE t # s
    <3>1. files'[t] = files[t] /\ held'[t] = held[t]
        BY <1>1, <1>2, <2>1 DEF MemoryTypes
    <3>2. QED
        BY <3>1 DEF Longest
  <2>2. CASE t = s
    <3>1. files'[t] = file /\ held'[t] = {db.chain[s]}
        BY <1>1, <1>2, <1>3, <2>2 DEF MemoryTypes
    <3>2. CASE s \in Memory!Held
      <4>1. IsPrefix(db.chain[s], db.chain[s])
          BY <1>4, PrefixReflexive DEF MemoryChains
      <4>2. QED
          BY <3>1, <3>2, <4>1, MemoryKinds
    <3>3. CASE s \notin Memory!Held
      <4>1. db.chain[s] = <<>>
          BY <1>2, <3>3 DEF Memory!Held
      <4>2. QED
          BY <3>1, <3>3, <4>1, MemoryKinds
    <3>4. QED
        BY <3>2, <3>3
  <2>3. QED
      BY <2>1, <2>2
<1>8. WritesOnce'
  <2>1. ~up' /\ release' = "new"
      BY <1>1 DEF WritesOnce
  <2>2. ASSUME NEW i \in 1..(Len(todo) - 1)
        PROVE  /\ files'[Tail(todo)[i]] = Memory!Unknown
               /\ \A j \in 1..(Len(todo) - 1) : Tail(todo)[i] = Tail(todo)[j] => i = j
    <3>1. i + 1 \in 1..Len(todo) /\ Tail(todo)[i] = todo[i + 1] /\ todo[i + 1] \in AllSystems
        BY <1>2
    <3>2. /\ files[todo[i + 1]] = Memory!Unknown
          /\ \A j \in 1..Len(todo) : todo[i + 1] = todo[j] => i + 1 = j
        BY <1>1, <3>1 DEF WritesOnce, todo
    <3>3. todo[i + 1] # s
        BY <1>2, <3>2
    <3>4. files'[todo[i + 1]] = Memory!Unknown
        BY <1>1, <3>1, <3>2, <3>3 DEF MemoryTypes
    <3>5. \A j \in 1..(Len(todo) - 1) : j + 1 \in 1..Len(todo) /\ Tail(todo)[j] = todo[j + 1]
        BY <1>2
    <3>6. QED
        BY <3>1, <3>2, <3>4, <3>5
  <2>3. QED
      BY <1>2, <2>1, <2>2 DEF WritesOnce
<1>9. QED
    BY <1>6, <1>7, <1>8

LEMMA MemoryRecord ==
    ASSUME MemoryInv, NEW s \in AllSystems, NEW c \in Contents, Memory!Record(s, c)
    PROVE  MemoryInv'
<1> USE DEF MemoryInv
<1> DEFINE next == Append(db.chain[s], c)
<1>0. /\ up /\ UNCHANGED <<copy, marker, release, up, command>>
      /\ next \in MemoryChains /\ db.chain[s] \in MemoryChains
    BY DEF Memory!Record, MemoryTypes, MemoryTables, MemoryChains
<1>1. db' \in MemoryTables
  <2>1. db' = db \/ db' = [db EXCEPT !.chain[s] = next]
      BY DEF Memory!Record
  <2>2. [db.chain EXCEPT ![s] = next] \in [AllSystems -> MemoryChains]
      BY <1>0 DEF MemoryTypes, MemoryTables
  <2> DEFINE longer == [db.chain EXCEPT ![s] = next]
  <2>3. db' = db \/ db' = [db EXCEPT !.chain = longer]
      BY <2>1 DEF MemoryTypes, MemoryTables
  <2> HIDE DEF longer, next
  <2>4. longer \in [AllSystems -> MemoryChains]
      BY <2>2 DEF longer
  <2>5. QED
      BY <2>3, <2>4 DEF MemoryTypes, MemoryTables
<1>2. command = Memory!Off
    BY <1>0 DEF WritesOnce
<1>3. WritesOnce'
    BY <1>0, <1>2 DEF WritesOnce, Memory!Off
<1>4. CASE release = "old"
    BY <1>0, <1>1, <1>3, <1>4 DEF Memory!Record, MemoryTypes, Longest
<1>5. CASE release # "old"
  <2>1. /\ Memory!Agrees(s) \/ (db.chain[s] = <<>> /\ files[s] = Memory!Unknown)
        /\ files' = [files EXCEPT ![s] = Memory!Chain(next)]
        /\ held' = [held EXCEPT ![s] = @ \cup {next}]
      BY <1>5 DEF Memory!Record
  <2>2. Memory!Chain(next) \in MemoryFiles
      BY <1>0 DEF MemoryFiles
  <2>3. MemoryTypes'
      BY <1>0, <1>1, <2>1, <2>2 DEF MemoryTypes
  <2>4. \A d \in held[s] : d \in MemoryChains /\ IsPrefix(d, db.chain[s])
      BY <2>1, MemoryKinds DEF Memory!Agrees, Longest, MemoryTypes
  <2>5. \A d \in held'[s] : IsPrefix(d, next)
    <3>1. \A d \in held[s] : IsPrefix(d, next)
        BY <1>0, <2>4, PrefixAppend DEF MemoryChains
    <3>2. IsPrefix(next, next)
        BY <1>0, PrefixReflexive DEF MemoryChains
    <3>3. held'[s] = held[s] \cup {next}
        BY <2>1 DEF MemoryTypes
    <3>4. QED
        BY <3>1, <3>2, <3>3
  <2>6. files'[s] = Memory!Chain(next)
      BY <2>1 DEF MemoryTypes
  <2>7. \A t \in AllSystems : t # s => files'[t] = files[t] /\ held'[t] = held[t]
      BY <2>1 DEF MemoryTypes
  <2>8. Longest'
      BY <2>5, <2>6, <2>7, MemoryKinds DEF Longest
  <2>9. QED
      BY <1>3, <2>3, <2>8
<1>6. QED
    BY <1>4, <1>5

LEMMA MemoryTakeBack ==
    ASSUME MemoryInv, NEW s \in AllSystems, Memory!TakeBack(s)
    PROVE  MemoryInv'
<1> USE DEF MemoryInv
<1>1. /\ files[s].is = "chain" /\ db' = [db EXCEPT !.chain[s] = files[s].chain]
      /\ UNCHANGED <<copy, files, marker, release, up, command, held>>
    BY DEF Memory!TakeBack
<1>2. files[s].chain \in MemoryChains
    BY <1>1, MemoryFileTypes, MemoryKinds
<1>3. db' \in MemoryTables
    BY <1>1, <1>2 DEF MemoryTypes, MemoryTables
<1>4. QED
    BY <1>1, <1>3 DEF MemoryTypes, Longest, WritesOnce

LEMMA MemoryStep == MemoryInv /\ [Memory!Next]_Memory!vars => MemoryInv'
<1> SUFFICES ASSUME MemoryInv, [Memory!Next]_Memory!vars
             PROVE  MemoryInv'
    OBVIOUS
<1> USE DEF MemoryInv
<1>1. CASE Memory!WriteLog
  <2>1. /\ command.at = "putting" /\ command' = [command EXCEPT !.at = "marking"]
        /\ UNCHANGED <<copy, files, marker, release, up, held>>
        /\ db' = [db EXCEPT !.logged = [s \in AllSystems |->
                     IF s \in command.report THEN db.logged[s] + 1 ELSE db.logged[s]]]
      BY <1>1 DEF Memory!WriteLog, MemoryTypes, MemoryTables
  <2>2. db' \in MemoryTables
    <3> DEFINE entries == [s \in AllSystems |->
                             IF s \in command.report THEN db.logged[s] + 1 ELSE db.logged[s]]
    <3>1. \A s \in AllSystems : db.logged[s] \in Nat
        BY DEF MemoryTypes, MemoryTables
    <3>2. entries \in [AllSystems -> Nat]
        BY <3>1
    <3> HIDE DEF entries
    <3>3. db' = [db EXCEPT !.logged = entries]
        BY <2>1 DEF entries
    <3>4. QED
        BY <3>2, <3>3 DEF MemoryTypes, MemoryTables
  <2>3. command' \in [at : {"off", "putting", "marking"}, todo : Seq(AllSystems), report : SUBSET AllSystems]
        /\ command'.at = "marking" /\ command # Memory!Off
      BY <2>1 DEF MemoryTypes, Memory!Off
  <2>4. QED
      BY <2>1, <2>2, <2>3 DEF MemoryTypes, Longest, WritesOnce
<1>2. ASSUME command' = Memory!Off, UNCHANGED <<db, copy, files, release, held>>,
             marker' \in BOOLEAN, up' \in BOOLEAN
      PROVE  MemoryInv'
  <2>1. /\ command' \in [at : {"off", "putting", "marking"}, todo : Seq(AllSystems), report : SUBSET AllSystems]
        /\ command'.at = "off"
      BY <1>2 DEF Memory!Off
  <2>2. QED
      BY <1>2, <2>1 DEF MemoryTypes, Longest, WritesOnce
<1>3. CASE Memory!WriteMarker
    BY <1>2, <1>3 DEF Memory!WriteMarker, MemoryTypes
<1>4. CASE Memory!Crash
    BY <1>2, <1>4 DEF Memory!Crash, MemoryTypes
<1>5. CASE Memory!Stop
  <2>1. command = Memory!Off
      BY <1>5 DEF Memory!Stop, WritesOnce
  <2>2. QED
      BY <1>2, <1>5, <2>1 DEF Memory!Stop, MemoryTypes
<1>6. CASE Memory!Start
    BY <1>2, <1>6 DEF Memory!Start, MemoryTypes
<1>7. CASE Memory!Update
  <2>1. /\ ~up /\ release' = "new" /\ copy' = db
        /\ UNCHANGED <<db, files, marker, up, command, held>>
      BY <1>7 DEF Memory!Update
  <2>2. QED
      BY <2>1 DEF MemoryTypes, Longest, WritesOnce
<1>8. CASE Memory!PutAside
  <2>1. /\ files' = [s \in AllSystems |-> Memory!Unknown] /\ held' = [s \in AllSystems |-> {}]
        /\ marker' = FALSE /\ command = Memory!Off /\ UNCHANGED <<db, copy, release, up, command>>
      BY <1>8 DEF Memory!PutAside
  <2>2. MemoryTypes'
      BY <2>1 DEF MemoryTypes, MemoryFiles
  <2>3. Longest' /\ WritesOnce'
      BY <2>1, MemoryKinds DEF Longest, WritesOnce, Memory!Off
  <2>4. QED
      BY <2>2, <2>3
<1>9. ASSUME NEW r \in {"old", "new"}, Memory!PutBack(r)
      PROVE  MemoryInv'
  <2>1. /\ command = Memory!Off /\ release' = r /\ db' = copy
        /\ UNCHANGED <<copy, files, marker, up, command, held>>
      BY <1>9 DEF Memory!PutBack
  <2>2. QED
      BY <2>1 DEF MemoryTypes, Longest, WritesOnce, Memory!Off
<1>10. ASSUME NEW s \in AllSystems, Memory!Delete(s)
       PROVE  MemoryInv'
  <2>1. /\ db' = [db EXCEPT !.chain[s] = <<>>, !.gone = @ \cup {s}]
        /\ UNCHANGED <<copy, files, marker, release, up, command, held>>
      BY <1>10 DEF Memory!Delete
  <2>2. db' \in MemoryTables
    <3>1. <<>> \in MemoryChains
        BY DEF MemoryChains
    <3>2. QED
        BY <2>1, <3>1 DEF MemoryTypes, MemoryTables
  <2>3. QED
      BY <2>1, <2>2 DEF MemoryTypes, Longest, WritesOnce
<1>11. CASE UNCHANGED Memory!vars
    BY <1>11 DEF Memory!vars, MemoryTypes, Longest, WritesOnce
<1>12. QED
    BY <1>1, <1>3, <1>4, <1>5, <1>6, <1>7, <1>8, <1>9, <1>10, <1>11,
       MemoryRun, MemoryPutState, MemoryRecord, MemoryTakeBack
    DEF Memory!Next

(* One memory of the signer never holds, nor ever held, two branches of a   *)
(* chain (OneBranch; init-from-db.ts: "a system the signer already knows is *)
(* never overwritten"): wherever the command is cut, however often it is    *)
(* run again, whatever copies are put back in between.                      *)
THEOREM OneBranchPerMemory == Memory!Spec => []OneBranch
<1>1. MemoryInv => OneBranch
  <2> SUFFICES ASSUME MemoryInv, NEW s \in AllSystems, NEW c \in held[s], NEW d \in held[s]
               PROVE  IsPrefix(c, d) \/ IsPrefix(d, c)
      BY MemorySequences DEF OneBranch, Memory!OneBranch
  <2> USE DEF MemoryInv
  <2>1. c \in MemoryChains /\ d \in MemoryChains
      BY DEF MemoryTypes
  <2>2. CASE files[s] = Memory!Retired
      BY <2>1, <2>2, PrefixReflexive DEF Longest, MemoryChains
  <2>3. CASE files[s].is = "chain" /\ files[s].chain \in MemoryChains
      BY <2>1, <2>3, PrefixesComparable DEF Longest, MemoryChains
  <2>4. QED
      BY <2>2, <2>3, MemoryFileTypes DEF Longest
<1>2. QED
    BY <1>1, MemoryInit, MemoryStep, PTL DEF Memory!Spec

-----------------------------------------------------------------------------
(* Erasure: every receipt ever signed counts, those lost with their         *)
(* transaction or deleted included, since the signer gives them back; and   *)
(* the database and its copy are whole each for itself.                     *)

PeopleTables ==
    [chain : [AllSystems -> Seq(People!Receipts)],
     back : SUBSET (AllSystems \X Nat),
     subjects : SUBSET (People!Values \X Persons),
     openings : SUBSET (AllSystems \X Nat \X People!Values),
     erased : SUBSET People!Values,
     deleted : SUBSET AllSystems]

PeopleTypes ==
    /\ tables \in PeopleTables /\ tablesCopy \in PeopleTables
    /\ signed \in [AllSystems -> Seq(People!Receipts)]
    /\ drawn \in 0..MaxDrawn

EverSigned ==
    {r \in People!Receipts : \E s \in AllSystems : \E i \in 1..Len(signed[s]) : signed[s][i] = r}

Links == tables.subjects \cup tablesCopy.subjects

Beginnings ==
    \A s \in AllSystems : IsPrefix(tables.chain[s], signed[s]) /\ IsPrefix(tablesCopy.chain[s], signed[s])

TokensDrawn == (\A r \in EverSigned : r.token <= drawn) /\ (\A l \in Links : l[1] <= drawn)

\* A token stands for one person, on receipts and in links, of now and then.
OnePerson ==
    /\ \A r, q \in EverSigned : r.token = q.token /\ r.token # 0 => r.who = q.who
    /\ \A l \in Links : \A r \in EverSigned : r.token = l[1] => r.who = l[2]
    /\ \A l, m \in Links : l[1] = m[1] => l[2] = m[2]

Leads(tbl, s, i) ==
    LET token == tbl.chain[s][i].token IN
    \/ token = 0 \/ <<s, i>> \in tbl.back \/ token \in tbl.erased
    \/ \E row \in tbl.subjects : row[1] = token

Explained(tbl) == \A s \in AllSystems : \A i \in 1..Len(tbl.chain[s]) : Leads(tbl, s, i)

PeopleInv ==
    /\ PeopleTypes /\ Beginnings /\ TokensDrawn /\ OnePerson
    /\ Explained(tables) /\ Explained(tablesCopy)

-----------------------------------------------------------------------------
LEMMA PeopleSequences ==
    \A s, t : Memory!IsPrefix(s, t) = IsPrefix(s, t) /\ People!IsPrefix(s, t) = IsPrefix(s, t)
    BY DEF Memory!IsPrefix, People!IsPrefix, IsPrefix

LEMMA NothingIsPrefix ==
    ASSUME NEW S, NEW t \in Seq(S), NEW s \in Seq(S), Len(s) = 0
    PROVE  IsPrefix(s, t)
<1>1. Len(t) \in Nat
    OBVIOUS
<1>2. Len(s) <= Len(t) /\ \A i \in 1..Len(s) : s[i] = t[i]
    BY <1>1
<1>3. QED
    BY <1>2, PrefixPointwise

LEMMA PeopleConstants ==
    /\ None \notin Persons /\ MaxDrawn \in Nat /\ Naming \subseteq BOOLEAN
    /\ People!Values = 1..MaxDrawn
    BY RestoredConstants DEF People!ErasureConstants, People!Values

LEMMA PeopleInit == People!Init => PeopleInv
<1> SUFFICES ASSUME People!Init PROVE PeopleInv
    OBVIOUS
<1> USE PeopleConstants
<1>1. /\ tables = People!Empty /\ tablesCopy = People!Empty
      /\ signed = [s \in AllSystems |-> <<>>] /\ drawn = 0
    BY DEF People!Init
<1>2. People!Empty \in PeopleTables
  <2>1. [s \in AllSystems |-> <<>>] \in [AllSystems -> Seq(People!Receipts)]
      OBVIOUS
  <2>2. QED
      BY <2>1 DEF People!Empty, PeopleTables
<1>3. PeopleTypes
    BY <1>1, <1>2 DEF PeopleTypes
<1>4. \A s \in AllSystems : tables.chain[s] = <<>> /\ tablesCopy.chain[s] = <<>> /\ signed[s] = <<>>
    BY <1>1 DEF People!Empty
<1>5. EverSigned = {} /\ Links = {}
    BY <1>1, <1>4 DEF EverSigned, Links, People!Empty
<1>6. Beginnings
  <2>1. <<>> \in Seq(People!Receipts)
      OBVIOUS
  <2>2. IsPrefix(<<>>, <<>>)
      BY <2>1, PrefixReflexive
  <2>3. QED
      BY <1>4, <2>2 DEF Beginnings
<1>7. Explained(tables) /\ Explained(tablesCopy)
    BY <1>4 DEF Explained
<1>8. QED
    BY <1>3, <1>5, <1>6, <1>7 DEF PeopleInv, TokensDrawn, OnePerson

(* Steps that sign nothing and link nobody.                                 *)
LEMMA NobodyNew ==
    ASSUME PeopleInv, UNCHANGED <<signed, drawn>>,
           tables' \in PeopleTables, tablesCopy' \in {tables, tablesCopy},
           tables'.subjects \subseteq Links,
           \A s \in AllSystems : IsPrefix(tables'.chain[s], signed[s]),
           Explained(tables')
    PROVE  PeopleInv'
<1> USE DEF PeopleInv
<1>1. PeopleTypes'
    BY DEF PeopleTypes
<1>2. EverSigned' = EverSigned /\ Links' \subseteq Links
    BY DEF EverSigned, Links
<1>3. Beginnings'
    BY DEF Beginnings
<1>4. TokensDrawn' /\ OnePerson'
    BY <1>2 DEF TokensDrawn, OnePerson
<1>5. Explained(tablesCopy')
    OBVIOUS
<1>6. QED
    BY <1>1, <1>3, <1>4, <1>5 DEF Explained, Leads

(* Whom the token of a new receipt stands for.                              *)
LEMMA DraftTyped ==
    ASSUME PeopleInv, drawn < MaxDrawn, NEW r \in People!Drafts
    PROVE  /\ r \in People!Receipts /\ drawn + 1 \in 1..MaxDrawn
           /\ r.who = None => r.token = 0
           /\ r.who # None => r.token \in 1..MaxDrawn /\ r.who \in Persons
           /\ r.token <= drawn + 1 /\ r.token \in Nat
           /\ \A q \in EverSigned : q.token = r.token /\ r.token # 0 => q.who = r.who
           /\ \A l \in Links : l[1] = r.token => l[2] = r.who
<1> USE PeopleConstants DEF PeopleInv
<1>1. PICK p \in Persons \cup {None}, t \in Traces, n \in Naming :
        r = [token |-> People!TokenFor(p), salt |-> drawn + 1, trace |-> t, names |-> n, who |-> p]
    BY DEF People!Drafts
<1>2. drawn \in Nat /\ drawn + 1 \in 1..MaxDrawn
    BY DEF PeopleTypes
<1>3. r.who = p /\ r.token = People!TokenFor(p)
    BY <1>1
<1>4. \A l \in Links : l[1] \in 1..MaxDrawn /\ l[1] <= drawn
    BY DEF Links, PeopleTypes, PeopleTables, TokensDrawn
<1>5. \A q \in EverSigned : q.token \in Nat /\ q.token <= drawn
    BY DEF EverSigned, TokensDrawn, People!Receipts
<1>6. CASE p = None
  <2>1. People!TokenFor(p) = 0
      BY <1>6 DEF People!TokenFor
  <2>2. r \in People!Receipts
      BY <1>1, <1>2, <1>6, <2>1 DEF People!Receipts
  <2>3. QED
      BY <1>2, <1>3, <1>4, <1>6, <2>1, <2>2
<1>7. CASE p # None
  <2> DEFINE known == {row \in tables.subjects : row[2] = p}
  <2>1. CASE known = {}
    <3>1. People!TokenFor(p) = drawn + 1
        BY <1>7, <2>1 DEF People!TokenFor
    <3>2. r \in People!Receipts
        BY <1>1, <1>2, <3>1 DEF People!Receipts
    <3>3. QED
        BY <1>2, <1>3, <1>4, <1>5, <1>7, <3>1, <3>2
  <2>2. CASE known # {}
    <3>1. PICK row \in known : People!TokenFor(p) = row[1]
        BY <1>7, <2>2 DEF People!TokenFor
    <3>2. row \in Links /\ row[2] = p
        BY <3>1 DEF Links
    <3>3. row[1] \in 1..MaxDrawn /\ row[1] <= drawn
        BY <1>4, <3>2
    <3>4. r \in People!Receipts
        BY <1>1, <1>2, <3>1, <3>3 DEF People!Receipts
    <3>5. /\ \A q \in EverSigned : q.token = row[1] => q.who = p
          /\ \A l \in Links : l[1] = row[1] => l[2] = p
        BY <3>2 DEF OnePerson
    <3>6. QED
        BY <1>2, <1>3, <1>7, <3>1, <3>3, <3>4, <3>5
  <2>3. QED
      BY <2>1, <2>2
<1>8. QED
    BY <1>6, <1>7

(* A receipt signed, committed or not.                                      *)
LEMMA Signing ==
    ASSUME PeopleInv, drawn < MaxDrawn, NEW s \in AllSystems, NEW r \in People!Drafts,
           signed' = [signed EXCEPT ![s] = Append(@, r)], drawn' = drawn + 1,
           tablesCopy' = tablesCopy, tables' \in PeopleTables,
           tables'.subjects \subseteq
               tables.subjects \cup (IF r.who = None THEN {} ELSE {<<r.token, r.who>>}),
           \A t \in AllSystems : IsPrefix(tables'.chain[t], signed'[t]),
           Explained(tables')
    PROVE  PeopleInv'
<1> USE DEF PeopleInv
<1>1. /\ r \in People!Receipts /\ drawn + 1 \in 1..MaxDrawn
      /\ r.who = None => r.token = 0
      /\ r.who # None => r.token \in 1..MaxDrawn /\ r.who \in Persons
      /\ r.token <= drawn + 1 /\ r.token \in Nat
      /\ \A q \in EverSigned : q.token = r.token /\ r.token # 0 => q.who = r.who
      /\ \A l \in Links : l[1] = r.token => l[2] = r.who
    BY DraftTyped
<1>2. /\ signed[s] \in Seq(People!Receipts) /\ signed'[s] = Append(signed[s], r)
      /\ signed' \in [AllSystems -> Seq(People!Receipts)]
      /\ \A t \in AllSystems : t # s => signed'[t] = signed[t]
    BY <1>1 DEF PeopleTypes
<1>3. PeopleTypes'
    BY <1>1, <1>2, PeopleConstants DEF PeopleTypes
<1>4. EverSigned' \subseteq EverSigned \cup {r}
  <2> SUFFICES ASSUME NEW q \in EverSigned', q # r
               PROVE  q \in EverSigned
      OBVIOUS
  <2>1. PICK t \in AllSystems : \E i \in 1..Len(signed'[t]) : signed'[t][i] = q
      BY DEF EverSigned
  <2>2. PICK i \in 1..Len(signed'[t]) : signed'[t][i] = q
      BY <2>1
  <2>3. CASE t # s
      BY <1>2, <2>2, <2>3 DEF EverSigned
  <2>4. CASE t = s
    <3>1. i \in 1..Len(signed[s]) /\ signed[s][i] = q
        BY <1>1, <1>2, <2>2, <2>4, AppendProperties
    <3>2. QED
        BY <3>1 DEF EverSigned
  <2>5. QED
      BY <2>3, <2>4
<1>5. Links' \subseteq Links \cup (IF r.who = None THEN {} ELSE {<<r.token, r.who>>})
    BY DEF Links
<1>6. Beginnings'
  <2> SUFFICES ASSUME NEW t \in AllSystems
               PROVE  IsPrefix(tablesCopy.chain[t], signed'[t])
      BY DEF Beginnings
  <2>1. IsPrefix(tablesCopy.chain[t], signed[t]) /\ tablesCopy.chain[t] \in Seq(People!Receipts)
      BY DEF Beginnings, PeopleTypes, PeopleTables
  <2>2. QED
      BY <1>1, <1>2, <2>1, PrefixAppend
<1>7. TokensDrawn'
  <2>1. \A q \in EverSigned : q.token \in Nat /\ q.token <= drawn
      BY PeopleConstants DEF TokensDrawn, EverSigned, People!Receipts
  <2>2. \A l \in Links : l[1] \in Nat /\ l[1] <= drawn
      BY PeopleConstants DEF TokensDrawn, Links, PeopleTypes, PeopleTables
  <2>3. drawn \in Nat
      BY PeopleConstants DEF PeopleTypes
  <2>4. \A q \in EverSigned' : q.token <= drawn'
      BY <1>1, <1>4, <2>1, <2>3
  <2>5. \A l \in Links' : l[1] <= drawn'
      BY <1>1, <1>5, <2>2, <2>3
  <2>6. QED
      BY <2>4, <2>5 DEF TokensDrawn
<1>8. OnePerson'
  <2>1. \A q, v \in EverSigned' : q.token = v.token /\ q.token # 0 => q.who = v.who
      BY <1>1, <1>4 DEF OnePerson
  <2>2. \A l \in Links' : \A q \in EverSigned' : q.token = l[1] => q.who = l[2]
    <3> SUFFICES ASSUME NEW l \in Links', NEW q \in EverSigned', q.token = l[1]
                 PROVE  q.who = l[2]
        OBVIOUS
    <3>1. CASE l \in Links /\ q \in EverSigned
        BY <3>1 DEF OnePerson
    <3>2. CASE l \in Links /\ q = r
        BY <1>1, <3>2
    <3>3. CASE l \notin Links /\ q \in EverSigned
        BY <1>1, <1>5, <3>3, PeopleConstants
    <3>4. CASE l \notin Links /\ q = r
        BY <1>5, <3>4
    <3>5. QED
        BY <1>4, <3>1, <3>2, <3>3, <3>4
  <2>3. \A l, m \in Links' : l[1] = m[1] => l[2] = m[2]
      BY <1>1, <1>5 DEF OnePerson
  <2>4. QED
      BY <2>1, <2>2, <2>3 DEF OnePerson
<1>9. QED
    BY <1>3, <1>6, <1>7, <1>8 DEF Explained, Leads

LEMMA PeopleWrite ==
    ASSUME PeopleInv, NEW s \in AllSystems, People!Write(s)
    PROVE  PeopleInv'
<1> USE DEF PeopleInv
<1>1. PICK r \in People!Drafts :
        signed' = [signed EXCEPT ![s] = Append(@, r)] /\ tables' = People!WithReceipt(s, r)
    BY DEF People!Write
<1>2. /\ drawn < MaxDrawn /\ tables.chain[s] = signed[s]
      /\ drawn' = drawn + 1 /\ tablesCopy' = tablesCopy
    BY DEF People!Write, People!CanSign
<1>3. /\ r \in People!Receipts /\ (r.who = None => r.token = 0)
      /\ r.who # None => r.token \in 1..MaxDrawn /\ r.who \in Persons
    BY <1>2, DraftTyped
<1>4. r.salt \in People!Values
    BY <1>3 DEF People!Receipts
<1> DEFINE new == IF r.who = None THEN {} ELSE {<<r.token, r.who>>}
           n == Len(tables.chain[s])
           chains == [tables.chain EXCEPT ![s] = Append(@, r)]
           rows == tables.subjects \cup new
           salts == tables.openings \cup {<<s, n + 1, r.salt>>}
<1>5. tables' = [tables EXCEPT !.chain = chains, !.subjects = rows, !.openings = salts]
    BY <1>1 DEF People!WithReceipt, People!Position, PeopleTypes, PeopleTables
<1>6. /\ chains \in [AllSystems -> Seq(People!Receipts)]
      /\ chains[s] = Append(tables.chain[s], r) /\ tables.chain[s] \in Seq(People!Receipts) /\ n \in Nat
      /\ \A t \in AllSystems : t # s => chains[t] = tables.chain[t]
    BY <1>3 DEF PeopleTypes, PeopleTables
<1>7. rows \in SUBSET (People!Values \X Persons)
    BY <1>3, PeopleConstants DEF PeopleTypes, PeopleTables
<1>8. salts \in SUBSET (AllSystems \X Nat \X People!Values)
  <2>1. <<s, n + 1, r.salt>> \in AllSystems \X Nat \X People!Values
      BY <1>4, <1>6
  <2>2. tables.openings \in SUBSET (AllSystems \X Nat \X People!Values)
      BY DEF PeopleTypes, PeopleTables
  <2>3. QED
      BY <2>1, <2>2
<1> HIDE DEF new, chains, rows, salts
<1>9. /\ tables' \in PeopleTables /\ tables'.chain = chains /\ tables'.subjects = rows
      /\ tables'.back = tables.back /\ tables'.erased = tables.erased
    BY <1>5, <1>6, <1>7, <1>8 DEF PeopleTypes, PeopleTables
<1>10. \A t \in AllSystems : IsPrefix(tables'.chain[t], signed'[t])
  <2> SUFFICES ASSUME NEW t \in AllSystems
               PROVE  IsPrefix(chains[t], signed'[t])
      BY <1>9
  <2>1. CASE t = s
    <3>1. chains[s] = signed'[s] /\ chains[s] \in Seq(People!Receipts)
        BY <1>1, <1>2, <1>3, <1>6 DEF PeopleTypes
    <3>2. QED
        BY <2>1, <3>1, PrefixReflexive
  <2>2. CASE t # s
      BY <1>1, <1>6, <2>2 DEF Beginnings, PeopleTypes
  <2>3. QED
      BY <2>1, <2>2
<1>11. Explained(tables')
  <2> SUFFICES ASSUME NEW t \in AllSystems, NEW i \in 1..Len(chains[t])
               PROVE  Leads(tables', t, i)
      BY <1>9 DEF Explained
  <2>1. CASE t # s \/ i <= n
    <3>1. i \in 1..Len(tables.chain[t]) /\ chains[t][i] = tables.chain[t][i]
        BY <1>3, <1>6, <2>1, AppendProperties
    <3>2. Leads(tables, t, i)
        BY <3>1 DEF Explained
    <3>3. QED
        BY <1>9, <3>1, <3>2 DEF Leads, rows
  <2>2. CASE t = s /\ i > n
    <3>1. chains[s][i] = r
      <4>1. i = n + 1
          BY <1>3, <1>6, <2>2, AppendProperties
      <4>2. QED
          BY <1>3, <1>6, <4>1, AppendProperties
    <3>2. CASE r.who = None
        BY <1>3, <1>9, <2>2, <3>1, <3>2 DEF Leads
    <3>3. CASE r.who # None
      <4>1. <<r.token, r.who>> \in tables'.subjects
          BY <1>9, <3>3 DEF rows, new
      <4>2. QED
          BY <1>9, <2>2, <3>1, <4>1 DEF Leads
    <3>4. QED
        BY <3>2, <3>3
  <2>3. QED
      BY <1>6, <2>1, <2>2
<1>12. tables'.subjects \subseteq tables.subjects \cup new
    BY <1>9 DEF rows
<1>13. QED
    BY <1>1, <1>2, <1>9, <1>10, <1>11, <1>12, Signing DEF new

LEMMA PeopleWriteLost ==
    ASSUME PeopleInv, NEW s \in AllSystems, People!WriteLost(s)
    PROVE  PeopleInv'
<1> USE DEF PeopleInv
<1>1. PICK r \in People!Drafts : signed' = [signed EXCEPT ![s] = Append(@, r)]
    BY DEF People!WriteLost
<1>2. drawn < MaxDrawn /\ drawn' = drawn + 1 /\ UNCHANGED <<tables, tablesCopy>>
    BY DEF People!WriteLost, People!CanSign
<1>3. r \in People!Receipts
    BY <1>2, DraftTyped
<1>4. tables' \in PeopleTables /\ Explained(tables')
    BY <1>2 DEF PeopleTypes
<1>5. ASSUME NEW t \in AllSystems
      PROVE  IsPrefix(tables'.chain[t], signed'[t])
  <2>1. /\ IsPrefix(tables.chain[t], signed[t]) /\ tables.chain[t] \in Seq(People!Receipts)
        /\ signed[t] \in Seq(People!Receipts)
      BY DEF Beginnings, PeopleTypes, PeopleTables
  <2>2. signed'[t] = signed[t] \/ signed'[t] = Append(signed[t], r)
      BY <1>1 DEF PeopleTypes
  <2>3. QED
      BY <1>2, <1>3, <2>1, <2>2, PrefixAppend
<1>6. QED
    BY <1>1, <1>2, <1>4, <1>5, Signing

(* What comes back from the signer is marked as such.                       *)
LEMMA PeopleRecover ==
    ASSUME PeopleInv, NEW s \in AllSystems, People!Recover(s)
    PROVE  PeopleInv'
<1> USE DEF PeopleInv
<1> DEFINE chains == [tables.chain EXCEPT ![s] = signed[s]]
           marks == tables.back \cup {<<s, i>> : i \in People!Missing(s)}
<1>1. /\ tables' = [tables EXCEPT !.chain = chains, !.back = marks]
      /\ UNCHANGED <<signed, drawn, tablesCopy>>
    BY DEF People!Recover, People!TakenBack, PeopleTypes, PeopleTables
<1>2. /\ chains \in [AllSystems -> Seq(People!Receipts)] /\ chains[s] = signed[s]
      /\ \A t \in AllSystems : t # s => chains[t] = tables.chain[t]
      /\ signed[s] \in Seq(People!Receipts) /\ tables.chain[s] \in Seq(People!Receipts)
    BY DEF PeopleTypes, PeopleTables
<1>3. marks \in SUBSET (AllSystems \X Nat)
  <2>1. People!Missing(s) \subseteq Nat
      BY <1>2 DEF People!Missing
  <2>2. QED
      BY <2>1 DEF PeopleTypes, PeopleTables
<1> HIDE DEF chains, marks
<1>4. /\ tables' \in PeopleTables /\ tables'.chain = chains /\ tables'.back = marks
      /\ tables'.subjects = tables.subjects /\ tables'.erased = tables.erased
    BY <1>1, <1>2, <1>3 DEF PeopleTypes, PeopleTables
<1>5. \A t \in AllSystems : IsPrefix(tables'.chain[t], signed[t])
    BY <1>2, <1>4, PrefixReflexive DEF Beginnings
<1>6. Explained(tables')
  <2> SUFFICES ASSUME NEW t \in AllSystems, NEW i \in 1..Len(chains[t])
               PROVE  Leads(tables', t, i)
      BY <1>4 DEF Explained
  <2> DEFINE n == Len(tables.chain[s])
  <2>1. CASE t # s
      BY <1>2, <1>4, <2>1 DEF Explained, Leads, marks
  <2>2. CASE t = s /\ i <= n
    <3>1. i \in 1..n /\ signed[s][i] = tables.chain[s][i]
      <4>1. IsPrefix(tables.chain[s], signed[s])
          BY DEF Beginnings
      <4>2. n \in Nat /\ i \in 1..n
          BY <1>2, <2>2
      <4>3. QED
          BY <1>2, <4>1, <4>2, PrefixPointwise
    <3>2. Leads(tables, s, i)
        BY <3>1 DEF Explained
    <3>3. chains[t][i] = tables.chain[s][i]
        BY <1>2, <2>2, <3>1
    <3>4. QED
        BY <1>4, <2>2, <3>2, <3>3 DEF Leads, marks
  <2>3. CASE t = s /\ i > n
    <3>1. i \in People!Missing(s)
        BY <1>2, <2>3 DEF People!Missing, People!Position
    <3>2. <<t, i>> \in marks
        BY <2>3, <3>1 DEF marks
    <3>3. QED
        BY <1>4, <3>2 DEF Leads
  <2>4. QED
      BY <1>2, <2>1, <2>2, <2>3
<1>7. QED
    BY <1>1, <1>4, <1>5, <1>6, NobodyNew DEF Links

(* The chains of some systems taken away, and links no chain names with them. *)
LEMMA ChainsErased ==
    ASSUME PeopleInv, NEW emptied \in SUBSET AllSystems, NEW rows \in SUBSET tables.subjects,
           tables' = [People!WithoutChains(tables, emptied) EXCEPT !.subjects = rows],
           UNCHANGED <<signed, drawn, tablesCopy>>,
           \A t \in AllSystems \ emptied : \A i \in 1..Len(tables.chain[t]) :
              \A l \in tables.subjects : tables.chain[t][i].token = l[1] => l \in rows
    PROVE  PeopleInv'
<1> USE DEF PeopleInv
<1> DEFINE chains == [s \in AllSystems |-> IF s \in emptied THEN <<>> ELSE tables.chain[s]]
           marks == {b \in tables.back : b[1] \notin emptied}
           salts == {o \in tables.openings : o[1] \notin emptied}
           names == tables.deleted \cup emptied
<1>1. tables' = [tables EXCEPT !.chain = chains, !.back = marks, !.openings = salts,
                               !.deleted = names, !.subjects = rows]
    BY DEF People!WithoutChains, PeopleTypes, PeopleTables
<1>2. /\ \A s \in AllSystems : tables.chain[s] \in Seq(People!Receipts)
      /\ tables.chain \in [AllSystems -> Seq(People!Receipts)]
    BY DEF PeopleTypes, PeopleTables
<1>3. /\ chains \in [AllSystems -> Seq(People!Receipts)]
      /\ \A s \in AllSystems : s \in emptied => chains[s] = <<>>
      /\ \A s \in AllSystems : s \notin emptied => chains[s] = tables.chain[s]
    BY <1>2
<1>4. /\ marks \in SUBSET (AllSystems \X Nat) /\ salts \in SUBSET (AllSystems \X Nat \X People!Values)
      /\ names \in SUBSET AllSystems /\ rows \in SUBSET (People!Values \X Persons)
    BY DEF PeopleTypes, PeopleTables
<1> HIDE DEF chains, marks, salts, names
<1>5. /\ tables' \in PeopleTables /\ tables'.chain = chains /\ tables'.back = marks
      /\ tables'.subjects = rows /\ tables'.erased = tables.erased
    BY <1>1, <1>3, <1>4 DEF PeopleTypes, PeopleTables
<1>6. ASSUME NEW t \in AllSystems
      PROVE  IsPrefix(tables'.chain[t], signed[t])
  <2>1. signed[t] \in Seq(People!Receipts) /\ <<>> \in Seq(People!Receipts)
      BY DEF PeopleTypes
  <2>2. IsPrefix(<<>>, signed[t])
      BY <2>1, NothingIsPrefix, Len(<<>>) = 0
  <2>3. QED
      BY <1>3, <1>5, <2>2 DEF Beginnings
<1>7. Explained(tables')
  <2> SUFFICES ASSUME NEW t \in AllSystems, NEW i \in 1..Len(chains[t])
               PROVE  Leads(tables', t, i)
      BY <1>5 DEF Explained
  <2>1. t \notin emptied
      BY <1>3
  <2>2. chains[t] = tables.chain[t] /\ Leads(tables, t, i)
      BY <1>3, <2>1 DEF Explained
  <2>3. <<t, i>> \in tables.back => <<t, i>> \in marks
      BY <2>1 DEF marks
  <2>4. \A l \in tables.subjects : l[1] = tables.chain[t][i].token => l \in rows
      BY <2>1, <2>2
  <2>5. QED
      BY <1>5, <2>2, <2>3, <2>4 DEF Leads
<1>8. tables'.subjects \subseteq Links
    BY <1>5 DEF Links
<1>9. QED
    BY <1>5, <1>6, <1>7, <1>8, NobodyNew

LEMMA PeopleErase ==
    ASSUME PeopleInv,
           \/ \E s \in AllSystems : People!EraseOperatorSystem(s)
           \/ \E o \in AllOrganizations : People!EraseOrganization(o)
    PROVE  PeopleInv'
<1> USE DEF PeopleInv
<1>1. ASSUME NEW s \in AllSystems, People!EraseOperatorSystem(s)
      PROVE  PeopleInv'
  <2>1. tables' = [People!WithoutChains(tables, {s}) EXCEPT !.subjects = tables.subjects]
      BY <1>1 DEF People!EraseOperatorSystem, People!WithoutChains, PeopleTypes, PeopleTables
  <2>2. QED
      BY <1>1, <2>1, ChainsErased DEF People!EraseOperatorSystem
<1>2. ASSUME NEW o \in AllOrganizations, People!EraseOrganization(o)
      PROVE  PeopleInv'
  <2> DEFINE emptied == {s \in AllSystems : OwnerOf[s] = o}
             after == People!WithoutChains(tables, emptied)
             rows == {row \in tables.subjects : row[1] \in People!Named(after)}
  <2>1. after.subjects = tables.subjects
        /\ \A t \in AllSystems \ emptied : after.chain[t] = tables.chain[t]
      BY DEF People!WithoutChains, PeopleTypes, PeopleTables
  <2>2. tables' = [after EXCEPT !.subjects = rows]
      BY <1>2, <2>1 DEF People!EraseOrganization, People!WithoutUnnamed
  <2>3. ASSUME NEW t \in AllSystems \ emptied, NEW i \in 1..Len(tables.chain[t])
        PROVE  tables.chain[t][i].token \in People!Named(after)
    <3>1. tables.chain[t] \in Seq(People!Receipts)
        BY DEF PeopleTypes, PeopleTables
    <3>2. after.chain[t] = tables.chain[t]
        BY <2>1
    <3> HIDE DEF after
    <3>4. tables.chain[t][i] \in People!ToSet(after.chain[t])
        BY <3>1, <3>2 DEF People!ToSet
    <3>5. QED
        BY <3>4 DEF People!Named
  <2> HIDE DEF emptied, after
  <2>4. \A t \in AllSystems \ emptied : \A i \in 1..Len(tables.chain[t]) :
            \A l \in tables.subjects : tables.chain[t][i].token = l[1] => l \in rows
      BY <2>3
  <2>5. rows \in SUBSET tables.subjects /\ emptied \in SUBSET AllSystems
      BY DEF emptied
  <2> HIDE DEF rows
  <2>6. UNCHANGED <<signed, drawn, tablesCopy>>
      BY <1>2 DEF People!EraseOrganization
  <2>7. QED
      BY <2>2, <2>4, <2>5, <2>6, ChainsErased DEF after
<1>3. QED
    BY <1>1, <1>2

LEMMA PeopleEraseSubject ==
    ASSUME PeopleInv, People!EraseSubject
    PROVE  PeopleInv'
<1> USE DEF PeopleInv
<1>1. PICK row \in tables.subjects :
        tables' = [tables EXCEPT !.subjects = {r \in @ : r[1] # row[1]}, !.erased = @ \cup {row[1]}]
    BY DEF People!EraseSubject
<1>2. UNCHANGED <<signed, drawn, tablesCopy>>
    BY DEF People!EraseSubject
<1> DEFINE rows == {r \in tables.subjects : r[1] # row[1]}
           tokens == tables.erased \cup {row[1]}
<1>3. tables' = [tables EXCEPT !.subjects = rows, !.erased = tokens]
    BY <1>1 DEF PeopleTypes, PeopleTables
<1>4. rows \in SUBSET (People!Values \X Persons) /\ tokens \in SUBSET People!Values
    BY DEF PeopleTypes, PeopleTables
<1>5. rows \subseteq Links
    BY DEF Links
<1>6. \A l \in tables.subjects : l \in rows \/ l[1] \in tokens
    OBVIOUS
<1>7. tables.erased \subseteq tokens
    OBVIOUS
<1> HIDE DEF rows, tokens
<1>8. /\ tables' \in PeopleTables /\ tables'.chain = tables.chain /\ tables'.back = tables.back
      /\ tables'.subjects = rows /\ tables'.erased = tokens
    BY <1>3, <1>4 DEF PeopleTypes, PeopleTables
<1>9. Explained(tables')
  <2> SUFFICES ASSUME NEW t \in AllSystems, NEW i \in 1..Len(tables.chain[t])
               PROVE  Leads(tables', t, i)
      BY <1>8 DEF Explained
  <2>1. Leads(tables, t, i)
      BY DEF Explained
  <2>2. QED
      BY <1>6, <1>7, <1>8, <2>1 DEF Leads
<1>10. QED
    BY <1>2, <1>5, <1>8, <1>9, NobodyNew DEF Beginnings

LEMMA PeopleStep == PeopleInv /\ [People!Next]_People!vars => PeopleInv'
<1> SUFFICES ASSUME PeopleInv, [People!Next]_People!vars
             PROVE  PeopleInv'
    OBVIOUS
<1> USE DEF PeopleInv
<1>0. tables \in PeopleTables /\ tablesCopy \in PeopleTables
      /\ tables.subjects \subseteq Links /\ tablesCopy.subjects \subseteq Links
    BY DEF PeopleTypes, Links
<1>1. ASSUME UNCHANGED <<tables, signed, drawn, tablesCopy>>
      PROVE  PeopleInv'
    BY <1>0, <1>1, NobodyNew DEF Beginnings
<1>2. CASE People!ListDocument \/ People!CommandEnds \/ UNCHANGED People!vars
    BY <1>1, <1>2 DEF People!ListDocument, People!CommandEnds, People!vars
<1>3. CASE People!Backup
  <2>1. UNCHANGED <<tables, signed, drawn>> /\ tablesCopy' = tables
      BY <1>3 DEF People!Backup
  <2>2. QED
      BY <1>0, <2>1, NobodyNew DEF Beginnings
<1>4. CASE People!Restore
  <2>1. UNCHANGED <<tablesCopy, signed, drawn>> /\ tables' = tablesCopy
      BY <1>4 DEF People!Restore
  <2>2. QED
      BY <1>0, <2>1, NobodyNew DEF Beginnings
<1>5. ASSUME NEW s \in AllSystems, People!CutOff(s)
      PROVE  PeopleInv'
  <2> DEFINE salts == {o \in tables.openings : <<o[1], o[2]>> \notin left \/ o[1] # s}
  <2>1. UNCHANGED <<tablesCopy, signed, drawn>> /\ tables' = [tables EXCEPT !.openings = salts]
      BY <1>5 DEF People!CutOff
  <2>2. salts \in SUBSET (AllSystems \X Nat \X People!Values)
      BY <1>0 DEF PeopleTables
  <2> HIDE DEF salts
  <2>3. /\ tables' \in PeopleTables /\ tables'.chain = tables.chain /\ tables'.back = tables.back
        /\ tables'.subjects = tables.subjects /\ tables'.erased = tables.erased
      BY <1>0, <2>1, <2>2 DEF PeopleTables
  <2>4. QED
      BY <1>0, <2>1, <2>3, NobodyNew DEF Beginnings, Explained, Leads
<1>6. QED
    BY <1>2, <1>3, <1>4, <1>5, PeopleWrite, PeopleWriteLost, PeopleRecover, PeopleErase, PeopleEraseSubject
    DEF People!Next

LEMMA PeopleAlways == People!Spec => []PeopleInv
    BY PeopleInit, PeopleStep, PTL DEF People!Spec

LEMMA ReceiptsSigned ==
    ASSUME PeopleInv, NEW p \in People!Positions
    PROVE  /\ People!At(p) \in EverSigned /\ People!At(p).token \in Nat
           /\ p = <<p[1], p[2]>> /\ p[1] \in AllSystems
           /\ p[2] \in 1..Len(tables.chain[p[1]])
           /\ People!At(p) = tables.chain[p[1]][p[2]]
<1> USE DEF PeopleInv
<1>1. p = <<p[1], p[2]>> /\ p[1] \in AllSystems /\ p[2] \in DOMAIN tables.chain[p[1]]
    BY DEF People!Positions
<1> DEFINE s == p[1]
           i == p[2]
<1>2. /\ tables.chain[s] \in Seq(People!Receipts) /\ signed[s] \in Seq(People!Receipts)
      /\ IsPrefix(tables.chain[s], signed[s])
    BY <1>1 DEF PeopleTypes, PeopleTables, Beginnings
<1>3. i \in 1..Len(tables.chain[s])
    BY <1>1, <1>2
<1>4. i \in 1..Len(signed[s]) /\ tables.chain[s][i] = signed[s][i]
    BY <1>2, <1>3, PrefixPointwise
<1>5. tables.chain[s][i] \in People!Receipts
    BY <1>2, <1>3
<1>6. People!At(p) \in EverSigned
    BY <1>1, <1>4, <1>5 DEF EverSigned, People!At
<1>7. People!At(p).token \in Nat
    BY <1>5, PeopleConstants DEF People!At, People!Receipts
<1>8. QED
    BY <1>1, <1>3, <1>6, <1>7 DEF People!At

(* A receipt's token leads to nobody only because its person was erased or  *)
(* the receipt came back from the signer (LinksLostOnPurpose): erasing one  *)
(* customer cuts off no receipt of another.                                 *)
THEOREM LinksAreLostOnPurpose == People!Spec => []LinksLostOnPurpose
<1>1. PeopleInv => LinksLostOnPurpose
  <2> SUFFICES ASSUME PeopleInv, NEW p \in People!Positions
               PROVE  \/ People!At(p).token = 0 \/ p \in tables.back
                      \/ People!At(p).token \in tables.erased
                      \/ \E row \in tables.subjects : row[1] = People!At(p).token
      BY DEF LinksLostOnPurpose, People!LinksLostOnPurpose
  <2>1. Leads(tables, p[1], p[2])
      BY ReceiptsSigned DEF PeopleInv, Explained
  <2>2. QED
      BY <2>1, ReceiptsSigned DEF Leads
<1>2. QED
    BY <1>1, PeopleAlways, PTL

\* Where a nonce is kept there is the receipt that was made with it.
NoncesStand(tbl) ==
    \A o \in tbl.openings : /\ o[2] \in 1..Len(tbl.chain[o[1]])
                            /\ tbl.chain[o[1]][o[2]].salt = o[3]

NonceInv == NoncesStand(tables) /\ NoncesStand(tablesCopy)

LEMMA NoncesWritten ==
    ASSUME PeopleInv, NonceInv, NEW s \in AllSystems, People!Write(s)
    PROVE  NoncesStand(tables')
<1> USE DEF PeopleInv
<1>1. PICK r \in People!Drafts : tables' = People!WithReceipt(s, r)
    BY DEF People!Write
<1>2. r \in People!Receipts
    BY DraftTyped DEF People!Write, People!CanSign
<1> DEFINE n == Len(tables.chain[s])
<1>3. /\ tables'.chain = [tables.chain EXCEPT ![s] = Append(@, r)]
      /\ tables'.openings = tables.openings \cup {<<s, n + 1, r.salt>>}
    BY <1>1 DEF People!WithReceipt, People!Position, PeopleTypes, PeopleTables
<1>4. /\ tables.chain[s] \in Seq(People!Receipts) /\ n \in Nat
      /\ tables'.chain[s] = Append(tables.chain[s], r)
      /\ \A t \in AllSystems : t # s => tables'.chain[t] = tables.chain[t]
      /\ \A o \in tables.openings : o[1] \in AllSystems
    BY <1>3 DEF PeopleTypes, PeopleTables
<1>5. /\ Len(tables'.chain[s]) = n + 1 /\ tables'.chain[s][n + 1] = r
      /\ \A i \in 1..n : tables'.chain[s][i] = tables.chain[s][i]
    BY <1>2, <1>4, AppendProperties
<1>6. QED
  <2> SUFFICES ASSUME NEW o \in tables'.openings
               PROVE  /\ o[2] \in 1..Len(tables'.chain[o[1]])
                      /\ tables'.chain[o[1]][o[2]].salt = o[3]
      BY DEF NoncesStand
  <2>1. CASE o = <<s, n + 1, r.salt>>
      BY <1>4, <1>5, <2>1
  <2>2. CASE o \in tables.openings
    <3>1. o[2] \in 1..Len(tables.chain[o[1]]) /\ tables.chain[o[1]][o[2]].salt = o[3]
        BY <2>2 DEF NonceInv, NoncesStand
    <3>2. CASE o[1] = s
      <4>1. o[2] \in 1..n /\ tables.chain[s][o[2]].salt = o[3]
          BY <3>1, <3>2
      <4>2. o[2] \in 1..(n + 1)
          BY <1>4, <4>1
      <4>3. tables'.chain[s][o[2]].salt = o[3]
          BY <1>5, <4>1
      <4>4. Len(tables'.chain[o[1]]) = n + 1 /\ tables'.chain[o[1]] = tables'.chain[s]
          BY <1>5, <3>2
      <4> HIDE DEF n
      <4>5. QED
          BY <4>2, <4>3, <4>4
    <3>3. CASE o[1] # s
      <4>1. tables'.chain[o[1]] = tables.chain[o[1]]
          BY <1>4, <2>2, <3>3
      <4>2. QED
          BY <3>1, <4>1
    <3>4. QED
        BY <3>2, <3>3
  <2>3. QED
      BY <1>3, <2>1, <2>2

(* What is taken back stands after what the database has.                   *)
LEMMA NoncesOfOthers ==
    ASSUME PeopleInv, NonceInv, NEW s \in AllSystems, People!Recover(s)
    PROVE  NoncesStand(tables')
<1> USE DEF PeopleInv
<1>1. /\ tables'.chain = [tables.chain EXCEPT ![s] = signed[s]] /\ tables'.openings = tables.openings
      /\ IsPrefix(tables.chain[s], signed[s])
    BY DEF People!Recover, People!TakenBack, PeopleTypes, PeopleTables, Beginnings
<1>2. /\ tables.chain[s] \in Seq(People!Receipts) /\ signed[s] \in Seq(People!Receipts)
      /\ tables'.chain[s] = signed[s]
      /\ \A t \in AllSystems : t # s => tables'.chain[t] = tables.chain[t]
      /\ \A o \in tables.openings : o[1] \in AllSystems
    BY <1>1 DEF PeopleTypes, PeopleTables
<1>3. /\ Len(tables.chain[s]) <= Len(signed[s])
      /\ \A i \in 1..Len(tables.chain[s]) : signed[s][i] = tables.chain[s][i]
    BY <1>1, <1>2, PrefixPointwise
<1>4. Len(tables.chain[s]) \in Nat /\ Len(signed[s]) \in Nat
    BY <1>2
<1>5. QED
  <2> SUFFICES ASSUME NEW o \in tables.openings
               PROVE  /\ o[2] \in 1..Len(tables'.chain[o[1]])
                      /\ tables'.chain[o[1]][o[2]].salt = o[3]
      BY <1>1 DEF NoncesStand
  <2>1. o[2] \in 1..Len(tables.chain[o[1]]) /\ tables.chain[o[1]][o[2]].salt = o[3]
      BY DEF NonceInv, NoncesStand
  <2>2. CASE o[1] = s
    <3>1. o[2] \in 1..Len(tables.chain[s]) /\ tables.chain[s][o[2]].salt = o[3]
        BY <2>1, <2>2
    <3>2. o[2] \in 1..Len(signed[s])
        BY <1>3, <1>4, <3>1
    <3>3. signed[s][o[2]].salt = o[3]
        BY <1>3, <3>1
    <3>4. tables'.chain[o[1]] = signed[s]
        BY <1>2, <2>2
    <3>5. QED
        BY <3>2, <3>3, <3>4
  <2>3. CASE o[1] # s
    <3>1. tables'.chain[o[1]] = tables.chain[o[1]]
        BY <1>2, <2>3
    <3>2. QED
        BY <2>1, <3>1
  <2>4. QED
      BY <2>2, <2>3

LEMMA NoncesErased ==
    ASSUME PeopleInv, NonceInv,
           \/ \E s \in AllSystems : People!EraseOperatorSystem(s)
           \/ \E o \in AllOrganizations : People!EraseOrganization(o)
    PROVE  NoncesStand(tables')
<1> USE DEF PeopleInv
<1>1. PICK emptied \in SUBSET AllSystems :
        /\ tables'.chain = People!WithoutChains(tables, emptied).chain
        /\ tables'.openings = People!WithoutChains(tables, emptied).openings
  <2>1. CASE \E s \in AllSystems : People!EraseOperatorSystem(s)
      BY <2>1 DEF People!EraseOperatorSystem
  <2>2. ASSUME NEW o \in AllOrganizations, People!EraseOrganization(o)
        PROVE  \E emptied \in SUBSET AllSystems :
                 /\ tables'.chain = People!WithoutChains(tables, emptied).chain
                 /\ tables'.openings = People!WithoutChains(tables, emptied).openings
    <3> DEFINE emptied == {s \in AllSystems : OwnerOf[s] = o}
               after == People!WithoutChains(tables, emptied)
    <3>1. tables' = [after EXCEPT !.subjects = {row \in @ : row[1] \in People!Named(after)}]
        BY <2>2 DEF People!EraseOrganization, People!WithoutUnnamed
    <3>2. after \in [{"chain", "back", "subjects", "openings", "erased", "deleted"} ->
                        {after[f] : f \in {"chain", "back", "subjects", "openings", "erased", "deleted"}}]
        BY DEF People!WithoutChains, PeopleTypes, PeopleTables
    <3> HIDE DEF after
    <3>3. tables'.chain = after.chain /\ tables'.openings = after.openings
        BY <3>1, <3>2
    <3>4. QED
        BY <3>3 DEF after
  <2>3. QED
      BY <2>1, <2>2
<1>2. /\ tables'.openings = {o \in tables.openings : o[1] \notin emptied}
      /\ \A t \in AllSystems \ emptied : tables'.chain[t] = tables.chain[t]
    BY <1>1 DEF People!WithoutChains, PeopleTypes, PeopleTables
<1>3. \A o \in tables.openings : o[1] \in AllSystems
    BY DEF PeopleTypes, PeopleTables
<1>4. QED
    BY <1>2, <1>3 DEF NonceInv, NoncesStand

LEMMA NonceStep == PeopleInv /\ NonceInv /\ [People!Next]_People!vars => NonceInv'
<1> SUFFICES ASSUME PeopleInv, NonceInv, [People!Next]_People!vars
             PROVE  NonceInv'
    OBVIOUS
<1> USE DEF PeopleInv
<1>1. ASSUME tables'.chain = tables.chain, tables'.openings \subseteq tables.openings,
             tablesCopy' = tablesCopy
      PROVE  NonceInv'
    BY <1>1 DEF NonceInv, NoncesStand
<1>2. CASE People!ListDocument \/ People!CommandEnds \/ UNCHANGED People!vars
    BY <1>1, <1>2 DEF People!ListDocument, People!CommandEnds, People!vars
<1>3. CASE People!Backup \/ People!Restore
    BY <1>3 DEF People!Backup, People!Restore, NonceInv, NoncesStand
<1>4. CASE People!EraseSubject
    BY <1>1, <1>4 DEF People!EraseSubject, PeopleTypes, PeopleTables
<1>5. ASSUME NEW s \in AllSystems, People!WriteLost(s)
      PROVE  NonceInv'
    BY <1>1, <1>5 DEF People!WriteLost
<1>6. ASSUME NEW s \in AllSystems, People!CutOff(s)
      PROVE  NonceInv'
    BY <1>1, <1>6 DEF People!CutOff, PeopleTypes, PeopleTables
<1>7. ASSUME NoncesStand(tables'), tablesCopy' = tablesCopy
      PROVE  NonceInv'
    BY <1>7 DEF NonceInv, NoncesStand
<1>8. ASSUME NEW s \in AllSystems, People!Write(s) \/ People!Recover(s) \/ People!EraseOperatorSystem(s)
      PROVE  NonceInv'
    BY <1>7, <1>8, NoncesWritten, NoncesOfOthers, NoncesErased
    DEF People!Write, People!Recover, People!EraseOperatorSystem
<1>9. ASSUME NEW o \in AllOrganizations, People!EraseOrganization(o)
      PROVE  NonceInv'
    BY <1>7, <1>9, NoncesErased DEF People!EraseOrganization
<1>10. QED
    BY <1>2, <1>3, <1>4, <1>5, <1>6, <1>8, <1>9 DEF People!Next

(* A token means one person for ever, on every chain and in every link, and *)
(* a nonce that is kept stands at the receipt that was made with it         *)
(* (OneMeaning): through transactions lost after the signature, erasures,   *)
(* copies put back, for any people and systems.                             *)
THEOREM TokensMeanOnePerson == People!Spec => []OneMeaning
<1>1. People!Init => NonceInv
    BY DEF People!Init, People!Empty, NonceInv, NoncesStand
<1>2. PeopleInv /\ NonceInv => OneMeaning
  <2> SUFFICES ASSUME PeopleInv, NonceInv
               PROVE  OneMeaning
      OBVIOUS
  <2>1. \A p, q \in People!Positions :
            People!At(p).token = People!At(q).token /\ People!At(p).token # 0 =>
                People!At(p).who = People!At(q).who
      BY ReceiptsSigned DEF PeopleInv, OnePerson
  <2>2. \A row \in tables.subjects : \A p \in People!Positions :
            People!At(p).token = row[1] => People!At(p).who = row[2]
      BY ReceiptsSigned DEF PeopleInv, OnePerson, Links
  <2>3. ASSUME NEW o \in tables.openings
        PROVE  o[2] \in DOMAIN tables.chain[o[1]] /\ tables.chain[o[1]][o[2]].salt = o[3]
    <3>1. o[1] \in AllSystems /\ tables.chain[o[1]] \in Seq(People!Receipts)
        BY DEF PeopleInv, PeopleTypes, PeopleTables
    <3>2. o[2] \in 1..Len(tables.chain[o[1]]) /\ tables.chain[o[1]][o[2]].salt = o[3]
        BY DEF NonceInv, NoncesStand
    <3>3. QED
        BY <3>1, <3>2
  <2>4. QED
      BY <2>1, <2>2, <2>3 DEF OneMeaning, People!OneMeaning
<1>3. QED
    BY <1>1, <1>2, NonceStep, PeopleAlways, PTL DEF People!Spec

-----------------------------------------------------------------------------
(* The line: what is under way on the current connection, and whose it is.  *)

Asks == Calls \cup {Line!Handshake}
LineAsked == [id : Nat \ {0}, of : Asks]
LineTold == [id : (Nat \ {0}) \cup {Nothing}, of : Asks, from : Line!Peers]
LineConnections == [peer : Line!Peers, over : BOOLEAN, lines : Seq(LineAsked), replies : Seq(LineTold)]
LineKnown == [is : {"new", "waiting", "sent", "failed"}] \cup [is : {"answered"}, reply : LineTold]

LineTypes ==
    /\ signer \in Line!Peers \cup {Down}
    /\ connections \in Seq(LineConnections)
    /\ socket \in (1..Len(connections)) \cup {Nothing}
    /\ opening \in {"no", "connecting", "asked"}
    /\ lastId \in Nat
    /\ DOMAIN pending \subseteq 1..lastId /\ pending \in [DOMAIN pending -> Asks]
    /\ calls \in [Calls -> LineKnown]

\* While there is no connection nothing is owed, and while its key is asked for
\* only that is; a connection in use is with the key announced first.
Phases ==
    /\ socket = Nothing => pending = <<>> /\ opening # "asked"
    /\ opening = "connecting" => socket = Nothing
    /\ opening = "asked" => \A i \in DOMAIN pending : pending[i] = Line!Handshake
    /\ opening = "no" /\ socket # Nothing => identity # Nothing /\ connections[socket].peer = identity

\* An id stands for what was asked under it, as long as it is owed.
Means(x, owed, last) == x.id \in 1..last /\ (x.id \in DOMAIN owed => owed[x.id] = x.of)

Meant(cn, owed, last) ==
    /\ \A j \in 1..Len(cn.lines) : Means(cn.lines[j], owed, last)
    /\ \A j \in 1..Len(cn.replies) : cn.replies[j].id = Nothing \/ Means(cn.replies[j], owed, last)

IdsMean == socket # Nothing => Meant(connections[socket], pending, lastId)

TellsItself(cn) == \A j \in 1..Len(cn.replies) : cn.replies[j].from = cn.peer

FromPeers == \A c \in 1..Len(connections) : TellsItself(connections[c])

LineAnswers ==
    \A r \in Calls : calls[r].is = "answered" =>
        calls[r].reply.of = r /\ calls[r].reply.from = identity /\ identity # Nothing

LineInv == LineTypes /\ Phases /\ IdsMean /\ FromPeers /\ LineAnswers

-----------------------------------------------------------------------------
LEMMA LineConstants ==
    /\ IsFiniteSet(Calls)
    /\ Nothing \notin Line!Peers /\ Nothing \notin Nat
    /\ Down \notin Line!Peers
<1>1. \A S : Line!IsFiniteSet(S) = IsFiniteSet(S)
    BY DEF Line!IsFiniteSet, IsFiniteSet
<1>2. QED
    BY <1>1, SignerLineConstants DEF Line!ConversationConstants, Line!Peers

LEMMA Orders ==
    ASSUME NEW S \in SUBSET Calls, NEW order \in Line!SetToSeqs(S)
    PROVE  /\ order \in Seq(Calls) /\ Len(order) \in Nat /\ DOMAIN order = 1..Len(order)
           /\ \A j \in 1..Len(order) : order[j] \in Calls
<1>1. \A T : Line!Cardinality(T) = Cardinality(T)
    BY DEF Line!Cardinality, Cardinality
<1>2. Cardinality(S) \in Nat
    BY LineConstants, FS_Subset, FS_CardinalityType
<1>3. order \in [1..Cardinality(S) -> S]
    BY <1>1 DEF Line!SetToSeqs
<1>4. order \in Seq(Calls) /\ Len(order) = Cardinality(S)
    BY <1>2, <1>3
<1>5. QED
    BY <1>2, <1>3, <1>4

LEMMA HeadAndTail ==
    ASSUME NEW S, NEW s \in Seq(S), s # <<>>
    PROVE  /\ Head(s) \in S /\ Head(s) = s[1] /\ 1 \in 1..Len(s)
           /\ Tail(s) \in Seq(S) /\ Len(Tail(s)) = Len(s) - 1
           /\ \A j \in 1..Len(Tail(s)) : Tail(s)[j] = s[j + 1] /\ j + 1 \in 1..Len(s)
<1>1. Len(s) \in Nat /\ Len(s) > 0
    BY EmptySeq
<1>2. Head(s) \in S /\ Head(s) = s[1] /\ Tail(s) \in Seq(S) /\ Len(Tail(s)) = Len(s) - 1
      /\ \A j \in 1..Len(Tail(s)) : Tail(s)[j] = s[j + 1]
    BY HeadTailProperties
<1>3. QED
    BY <1>1, <1>2

-----------------------------------------------------------------------------
(* What the callers know.                                                   *)

LEMMA CallsFail ==
    ASSUME LineInv, NEW S, Line!Fail(S)
    PROVE  /\ calls' \in [Calls -> LineKnown]
           /\ identity' = identity => LineAnswers'
<1>1. \A r \in Calls : calls'[r] = IF r \in S THEN [is |-> "failed"] ELSE calls[r]
    BY DEF Line!Fail
<1>2. [is |-> "failed"] \in LineKnown
    BY DEF LineKnown
<1>3. calls' \in [Calls -> LineKnown]
    BY <1>2 DEF Line!Fail, LineInv, LineTypes
<1>4. ASSUME NEW r \in Calls, calls'[r].is = "answered"
      PROVE  calls'[r] = calls[r]
    BY <1>1, <1>4
<1>5. QED
    BY <1>3, <1>4 DEF LineInv, LineAnswers

\* Without a connection, whatever becomes of those there were.
LEMMA WithoutConnection ==
    ASSUME LineInv, Line!NoConnection, UNCHANGED <<lastId, identity>>,
           signer' \in Line!Peers \cup {Down},
           connections' \in Seq(LineConnections), FromPeers'
    PROVE  LineInv'
<1>1. /\ socket' = Nothing /\ opening' = "no" /\ pending' = <<>>
      /\ Line!Fail(Line!Are("sent") \cup Line!Are("waiting"))
    BY DEF Line!NoConnection
<1>2. calls' \in [Calls -> LineKnown] /\ LineAnswers'
    BY <1>1, CallsFail
<1>3. <<>> \in [{} -> Asks] /\ DOMAIN <<>> = {}
    OBVIOUS
<1>4. LineTypes'
    BY <1>1, <1>2, <1>3 DEF LineTypes, LineInv
<1>5. QED
    BY <1>1, <1>2, <1>4 DEF LineInv, Phases, IdsMean

LEMMA Loses ==
    ASSUME LineInv, Line!Lose, UNCHANGED <<lastId, identity>>,
           signer' \in Line!Peers \cup {Down},
           connections' \in Seq(LineConnections), FromPeers'
    PROVE  LineInv'
    BY WithoutConnection DEF Line!Lose

-----------------------------------------------------------------------------
(* What is under way.                                                       *)

\* Steps of the other end: the client's state stays.
LEMMA OtherEnd ==
    ASSUME LineInv, UNCHANGED Line!client,
           signer' \in Line!Peers \cup {Down},
           connections' \in Seq(LineConnections), Len(connections') = Len(connections),
           \A c \in 1..Len(connections) :
               /\ connections'[c].peer = connections[c].peer
               /\ TellsItself(connections'[c])
               /\ c = socket => Meant(connections'[c], pending, lastId)
    PROVE  LineInv'
<1>1. UNCHANGED <<socket, opening, pending, lastId, identity, closer, calls>>
    BY DEF Line!client
<1>2. LineTypes'
    BY <1>1 DEF LineInv, LineTypes
<1>3. socket # Nothing => socket \in 1..Len(connections)
    BY DEF LineInv, LineTypes
<1>4. Phases' /\ IdsMean'
    BY <1>1, <1>3 DEF LineInv, Phases, IdsMean, Meant, Means
<1>5. FromPeers' /\ LineAnswers'
    BY <1>1 DEF LineInv, FromPeers, LineAnswers
<1>6. QED
    BY <1>2, <1>4, <1>5 DEF LineInv

LEMMA ServesLine ==
    ASSUME LineInv, NEW c \in 1..Len(connections), Line!Serves(c)
    PROVE  LineInv'
<1> DEFINE cn == connections[c]
           request == Head(cn.lines)
           reply == [id |-> IF cn.peer = Foreign THEN Nothing ELSE request.id,
                     of |-> request.of, from |-> cn.peer]
           lines == Tail(cn.lines)
           replies == Append(cn.replies, reply)
           after == [cn EXCEPT !.lines = lines, !.replies = replies]
<1>1. /\ cn \in LineConnections /\ connections \in Seq(LineConnections)
      /\ cn.lines \in Seq(LineAsked) /\ cn.replies \in Seq(LineTold) /\ cn.peer \in Line!Peers
  <2>1. connections \in Seq(LineConnections)
      BY DEF LineInv, LineTypes
  <2>2. cn \in LineConnections
      BY <2>1
  <2>3. QED
      BY <2>1, <2>2 DEF LineConnections
<1>2. cn.lines # <<>> /\ connections' = [connections EXCEPT ![c] = after]
      /\ signer' = signer /\ UNCHANGED Line!client
    BY DEF Line!Serves
<1>3. /\ request \in LineAsked /\ request = cn.lines[1] /\ 1 \in 1..Len(cn.lines)
      /\ lines \in Seq(LineAsked)
      /\ \A j \in 1..Len(lines) : lines[j] = cn.lines[j + 1] /\ j + 1 \in 1..Len(cn.lines)
    BY <1>1, <1>2, HeadAndTail
<1>4. reply \in LineTold /\ reply.from = cn.peer /\ reply.of = request.of
      /\ (reply.id = Nothing \/ reply.id = request.id)
    BY <1>1, <1>3 DEF LineTold, LineAsked
<1> HIDE DEF request, reply, lines
<1>5. /\ replies \in Seq(LineTold) /\ Len(replies) = Len(cn.replies) + 1
      /\ \A j \in 1..Len(cn.replies) : replies[j] = cn.replies[j]
      /\ replies[Len(cn.replies) + 1] = reply
    BY <1>1, <1>4, AppendProperties
<1>6. \A j \in 1..Len(replies) : replies[j] = reply \/ (j \in 1..Len(cn.replies) /\ replies[j] = cn.replies[j])
  <2> HIDE DEF replies, cn
  <2>1. Len(cn.replies) \in Nat
      BY <1>1
  <2>2. QED
      BY <1>5, <2>1
<1> HIDE DEF replies
<1>7. after \in LineConnections /\ after.peer = cn.peer /\ after.lines = lines /\ after.replies = replies
    BY <1>1, <1>3, <1>5 DEF LineConnections
<1> HIDE DEF after
<1>8. TellsItself(after)
    BY <1>4, <1>6, <1>7 DEF TellsItself, LineInv, FromPeers
<1>9. c = socket => Meant(after, pending, lastId)
  <2> SUFFICES ASSUME c = socket PROVE Meant(after, pending, lastId)
      OBVIOUS
  <2>1. Meant(cn, pending, lastId)
      BY LineConstants DEF LineInv, IdsMean, LineTypes
  <2>2. Means(request, pending, lastId)
      BY <1>3, <2>1 DEF Meant
  <2>3. reply.id = Nothing \/ Means(reply, pending, lastId)
      BY <2>2, <1>4 DEF Means
  <2>4. QED
      BY <2>1, <2>3, <1>3, <1>6, <1>7 DEF Meant
<1> HIDE DEF cn
<1>10. /\ connections' \in Seq(LineConnections) /\ Len(connections') = Len(connections)
       /\ \A k \in 1..Len(connections) : connections'[k] = IF k = c THEN after ELSE connections[k]
    BY <1>1, <1>2, <1>7
<1>11. \A k \in 1..Len(connections) :
           /\ connections'[k].peer = connections[k].peer
           /\ TellsItself(connections'[k])
           /\ k = socket => Meant(connections'[k], pending, lastId)
    BY <1>7, <1>8, <1>9, <1>10, LineConstants DEF LineInv, IdsMean, FromPeers, LineTypes, cn
<1>12. signer' \in Line!Peers \cup {Down}
    BY <1>2 DEF LineInv, LineTypes
<1>13. QED
    BY <1>2, <1>10, <1>11, <1>12, OtherEnd

LEMMA StopsLine ==
    ASSUME LineInv, Line!Stops
    PROVE  LineInv'
<1> DEFINE after(cn) == [cn EXCEPT !.over = TRUE, !.lines = <<>>]
<1>1. /\ connections \in Seq(LineConnections)
      /\ connections' = [c \in DOMAIN connections |-> after(connections[c])]
      /\ signer' = Down /\ UNCHANGED Line!client
    BY DEF LineInv, LineTypes, Line!Stops
<1>2. <<>> \in Seq(LineAsked) /\ Len(<<>>) = 0
    OBVIOUS
<1>3. ASSUME NEW cn \in LineConnections
      PROVE  /\ after(cn) \in LineConnections
             /\ after(cn).peer = cn.peer /\ after(cn).replies = cn.replies /\ after(cn).lines = <<>>
    BY <1>2 DEF LineConnections
<1>4. \A c \in 1..Len(connections) : connections[c] \in LineConnections
    BY <1>1, ElementOfSeq
<1> HIDE DEF after
<1>5. /\ connections' \in Seq(LineConnections) /\ Len(connections') = Len(connections)
      /\ \A c \in 1..Len(connections) : connections'[c] = after(connections[c])
    BY <1>1, <1>3, <1>4
<1>6. \A c \in 1..Len(connections) :
          /\ connections'[c].peer = connections[c].peer
          /\ connections'[c].replies = connections[c].replies
          /\ connections'[c].lines = <<>>
    BY <1>3, <1>4, <1>5
<1>7. \A c \in 1..Len(connections) :
          TellsItself(connections'[c]) /\ (c = socket => Meant(connections'[c], pending, lastId))
    BY <1>2, <1>6, LineConstants DEF TellsItself, Meant, LineInv, IdsMean, FromPeers, LineTypes
<1>8. QED
    BY <1>1, <1>5, <1>6, <1>7, OtherEnd

-----------------------------------------------------------------------------
(* The client.                                                              *)

\* Requests written on the current connection, of which `there` is what there is
\* before and `owed` what is not answered: each goes under an id of its own.
LEMMA Writes ==
    ASSUME LineTypes, socket # Nothing,
           NEW S \in SUBSET Calls, NEW owed, NEW there \in Seq(LineConnections),
           owed \in [DOMAIN owed -> Asks], DOMAIN owed \subseteq 1..lastId,
           Len(there) = Len(connections), Meant(there[socket], owed, lastId),
           \A c \in 1..Len(there) : TellsItself(there[c]),
           Line!Write(S, owed, there)
    PROVE  /\ lastId' \in Nat
           /\ DOMAIN pending' \subseteq 1..lastId' /\ pending' \in [DOMAIN pending' -> Asks]
           /\ connections' \in Seq(LineConnections) /\ Len(connections') = Len(connections)
           /\ connections'[socket].peer = there[socket].peer
           /\ Meant(connections'[socket], pending', lastId')
           /\ FromPeers'
<1>1. PICK order \in Line!SetToSeqs(S) :
          LET next == lastId + Len(order) IN
          /\ lastId' = next
          /\ pending' = [i \in DOMAIN owed \cup (lastId + 1)..next |->
                            IF i \in DOMAIN owed THEN owed[i] ELSE order[i - lastId]]
          /\ connections' = [there EXCEPT ![socket].lines =
                                @ \o [j \in DOMAIN order |-> [id |-> lastId + j, of |-> order[j]]]]
    BY DEF Line!Write
<1> DEFINE next == lastId + Len(order)
           asked == [j \in 1..Len(order) |-> [id |-> lastId + j, of |-> order[j]]]
           cn == there[socket]
           lines == cn.lines \o asked
           after == [cn EXCEPT !.lines = lines]
<1>2. /\ order \in Seq(Calls) /\ Len(order) \in Nat /\ DOMAIN order = 1..Len(order)
      /\ \A j \in 1..Len(order) : order[j] \in Calls
    BY Orders
<1>3. lastId \in Nat /\ next \in Nat /\ socket \in 1..Len(there) /\ lastId' = next
    BY <1>1, <1>2 DEF LineTypes
<1>4. \A i \in (lastId + 1)..next : order[i - lastId] \in Asks
    BY <1>2, <1>3 DEF Asks
<1>7. /\ DOMAIN pending' = DOMAIN owed \cup ((lastId + 1)..next)
      /\ \A i \in DOMAIN owed : pending'[i] = owed[i] /\ pending'[i] \in Asks
      /\ \A i \in (lastId + 1)..next : pending'[i] = order[i - lastId] /\ pending'[i] \in Asks
  <2>1. \A i \in (lastId + 1)..next : i \notin 1..lastId
      BY <1>3
  <2>2. QED
      BY <2>1, <1>1, <1>4
<1>8. DOMAIN pending' \subseteq 1..next /\ pending' \in [DOMAIN pending' -> Asks]
  <2>1. DOMAIN pending' \subseteq 1..next
      BY <1>2, <1>3, <1>7
  <2>2. \A i \in DOMAIN pending' : pending'[i] \in Asks
      BY <1>7
  <2>3. pending' = [i \in DOMAIN pending' |-> pending'[i]]
      BY <1>1
  <2>4. QED
      BY <2>1, <2>2, <2>3
<1>9. /\ asked \in Seq(LineAsked) /\ Len(asked) = Len(order)
      /\ \A j \in 1..Len(order) : asked[j].id = lastId + j /\ asked[j].of = order[j]
  <2>1. \A j \in 1..Len(order) : [id |-> lastId + j, of |-> order[j]] \in LineAsked
      BY <1>2, <1>3 DEF LineAsked, Asks
  <2>2. QED
      BY <2>1, <1>2
<1>10. cn \in LineConnections /\ cn.lines \in Seq(LineAsked) /\ Len(cn.lines) \in Nat
  <2>1. cn \in LineConnections
      BY <1>3
  <2>2. QED
      BY <2>1 DEF LineConnections
<1>11. connections' = [there EXCEPT ![socket] = after]
    BY <1>1, <1>2, <1>3
<1> HIDE DEF asked
<1>12. /\ lines \in Seq(LineAsked) /\ Len(lines) = Len(cn.lines) + Len(order)
       /\ \A j \in 1..Len(cn.lines) : lines[j] = cn.lines[j]
       /\ \A j \in (Len(cn.lines) + 1)..(Len(cn.lines) + Len(order)) : lines[j] = asked[j - Len(cn.lines)]
  <2> HIDE DEF cn
  <2>1. \A j \in 1..(Len(cn.lines) + Len(asked)) :
            lines[j] = IF j <= Len(cn.lines) THEN cn.lines[j] ELSE asked[j - Len(cn.lines)]
      BY <1>9, <1>10, ConcatProperties
  <2>2. lines \in Seq(LineAsked) /\ Len(lines) = Len(cn.lines) + Len(asked)
      BY <1>9, <1>10, ConcatProperties
  <2> HIDE DEF lines
  <2>3. Len(cn.lines) \in Nat /\ Len(order) \in Nat /\ Len(asked) = Len(order)
      BY <1>2, <1>9, <1>10
  <2>4. \A j \in 1..Len(cn.lines) : lines[j] = cn.lines[j]
      BY <2>1, <2>3
  <2>5. \A j \in (Len(cn.lines) + 1)..(Len(cn.lines) + Len(order)) : lines[j] = asked[j - Len(cn.lines)]
    <3> TAKE j \in (Len(cn.lines) + 1)..(Len(cn.lines) + Len(order))
    <3>1. j \in 1..(Len(cn.lines) + Len(asked)) /\ ~(j <= Len(cn.lines))
        BY <2>3
    <3>2. QED
        BY <2>1, <3>1
  <2>6. QED
      BY <2>2, <2>3, <2>4, <2>5
<1> HIDE DEF lines
<1>13. after \in LineConnections /\ after.peer = cn.peer /\ after.replies = cn.replies /\ after.lines = lines
    BY <1>10, <1>12 DEF LineConnections
<1> HIDE DEF after
<1>14. ASSUME NEW x, Means(x, owed, lastId)
       PROVE  Means(x, pending', next)
    BY <1>2, <1>3, <1>7, <1>14 DEF Means
<1>15. \A j \in 1..Len(order) : Means(asked[j], pending', next)
  <2> SUFFICES ASSUME NEW j \in 1..Len(order) PROVE Means(asked[j], pending', next)
      OBVIOUS
  <2>1. /\ lastId + j \in (lastId + 1)..next /\ lastId + j \in 1..next
        /\ (lastId + j) - lastId = j
      BY <1>2, <1>3
  <2>2. pending'[lastId + j] = order[j]
      BY <2>1, <1>7
  <2>3. QED
      BY <2>1, <2>2, <1>9 DEF Means
<1>16. ASSUME NEW j \in 1..Len(lines)
       PROVE  Means(lines[j], pending', next)
  <2>1. CASE j \in 1..Len(cn.lines)
      BY <2>1, <1>12, <1>14 DEF Meant
  <2>2. CASE j \in (Len(cn.lines) + 1)..(Len(cn.lines) + Len(order))
    <3> HIDE DEF cn, next
    <3>1. j - Len(cn.lines) \in 1..Len(order)
        BY <2>2, <1>2, <1>10
    <3>2. Means(asked[j - Len(cn.lines)], pending', next)
        BY <3>1, <1>15
    <3>3. QED
        BY <2>2, <3>2, <1>12
  <2>3. QED
      BY <2>1, <2>2, <1>2, <1>10, <1>12
<1>17. Meant(after, pending', next)
    BY <1>13, <1>14, <1>16 DEF Meant
<1> HIDE DEF cn
<1>18. /\ connections' \in Seq(LineConnections) /\ Len(connections') = Len(connections)
       /\ \A k \in 1..Len(there) : connections'[k] = IF k = socket THEN after ELSE there[k]
    BY <1>3, <1>11, <1>13
<1>19. TellsItself(after)
    BY <1>3, <1>13 DEF TellsItself, cn
<1>20. FromPeers'
    BY <1>18, <1>19 DEF FromPeers
<1>21. QED
    BY <1>3, <1>8, <1>13, <1>17, <1>18, <1>20 DEF cn

LEMMA CallsLine ==
    ASSUME LineInv, NEW r \in Calls, Line!Call(r)
    PROVE  LineInv'
<1> USE DEF LineInv
<1>1. identity # Nothing /\ UNCHANGED <<signer, socket, identity, closer>>
    BY DEF Line!Call
<1>2. CASE Line!Fail({r}) /\ UNCHANGED <<connections, opening, pending, lastId>>
  <2>1. calls' \in [Calls -> LineKnown] /\ LineAnswers'
      BY <1>1, <1>2, CallsFail
  <2>2. LineTypes'
      BY <1>1, <1>2, <2>1 DEF LineTypes
  <2>3. QED
      BY <1>1, <1>2, <2>1, <2>2 DEF Phases, IdsMean, Meant, Means, FromPeers, TellsItself
<1>3. ASSUME NEW what \in {"waiting", "sent"}, calls' = [calls EXCEPT ![r] = [is |-> what]]
      PROVE  calls' \in [Calls -> LineKnown] /\ LineAnswers'
  <2>1. [is |-> what] \in LineKnown
      BY DEF LineKnown
  <2>2. calls' \in [Calls -> LineKnown]
      BY <1>3, <2>1 DEF LineTypes
  <2>3. \A q \in Calls : calls'[q] = calls[q] \/ calls'[q].is # "answered"
      BY <1>3 DEF LineTypes
  <2>4. QED
      BY <1>1, <2>2, <2>3 DEF LineAnswers
<1>4. CASE /\ Line!MustWait /\ calls' = [calls EXCEPT ![r] = [is |-> "waiting"]]
           /\ opening' = (IF opening = "no" THEN "connecting" ELSE opening)
           /\ UNCHANGED <<connections, pending, lastId>>
  <2>1. calls' \in [Calls -> LineKnown] /\ LineAnswers'
      BY <1>3, <1>4
  <2>2. LineTypes'
      BY <1>1, <1>4, <2>1 DEF LineTypes
  <2>3. Phases'
      BY <1>1, <1>4 DEF Phases, Line!MustWait
  <2>4. QED
      BY <1>1, <1>4, <2>1, <2>2, <2>3 DEF IdsMean, Meant, Means, FromPeers, TellsItself
<1>5. CASE /\ ~Line!MustWait /\ calls' = [calls EXCEPT ![r] = [is |-> "sent"]]
           /\ Line!Write({r}, pending, connections) /\ UNCHANGED opening
  <2>1. calls' \in [Calls -> LineKnown] /\ LineAnswers'
      BY <1>3, <1>5
  <2>2. socket # Nothing /\ opening = "no"
      BY <1>5 DEF Line!MustWait
  <2>3. /\ LineTypes /\ connections \in Seq(LineConnections) /\ pending \in [DOMAIN pending -> Asks]
        /\ DOMAIN pending \subseteq 1..lastId
        /\ Meant(connections[socket], pending, lastId)
        /\ \A c \in 1..Len(connections) : TellsItself(connections[c])
      BY <2>2 DEF LineTypes, IdsMean, FromPeers
  <2>4. /\ lastId' \in Nat
        /\ DOMAIN pending' \subseteq 1..lastId' /\ pending' \in [DOMAIN pending' -> Asks]
        /\ connections' \in Seq(LineConnections) /\ Len(connections') = Len(connections)
        /\ connections'[socket].peer = connections[socket].peer
        /\ Meant(connections'[socket], pending', lastId')
        /\ FromPeers'
      BY <2>2, <2>3, <1>5, Writes
  <2>5. LineTypes'
      BY <1>1, <1>5, <2>1, <2>4 DEF LineTypes
  <2>6. Phases' /\ IdsMean'
      BY <1>1, <1>5, <2>2, <2>4 DEF Phases, IdsMean
  <2>7. QED
      BY <2>1, <2>4, <2>5, <2>6
<1>6. QED
    BY <1>2, <1>4, <1>5 DEF Line!Call

LEMMA ConnectsLine ==
    ASSUME LineInv, Line!Connects
    PROVE  LineInv'
<1> DEFINE asked == [id |-> lastId + 1, of |-> Line!Handshake]
           there == [peer |-> signer, over |-> FALSE, lines |-> <<asked>>, replies |-> <<>>]
           n == Len(connections)
<1> USE DEF LineInv
<1>1. /\ opening = "connecting" /\ signer # Down
      /\ socket' = n + 1 /\ opening' = "asked" /\ lastId' = lastId + 1
      /\ pending' = [i \in DOMAIN pending \cup {lastId'} |-> IF i = lastId' THEN Line!Handshake ELSE pending[i]]
      /\ connections' = Append(connections, there)
      /\ UNCHANGED <<signer, identity, closer, calls>>
    BY DEF Line!Connects
<1>2. pending = <<>> /\ socket = Nothing
    BY <1>1 DEF Phases
<1>3. DOMAIN pending' = {lastId + 1} /\ pending'[lastId + 1] = Line!Handshake
      /\ pending' \in [DOMAIN pending' -> Asks]
  <2>1. DOMAIN pending = {}
      BY <1>2
  <2>2. QED
      BY <1>1, <2>1 DEF Asks
<1>4. lastId \in Nat /\ lastId + 1 \in Nat \ {0} /\ n \in Nat /\ signer \in Line!Peers
    BY <1>1 DEF LineTypes
<1>5. asked \in LineAsked /\ asked.id = lastId + 1 /\ asked.of = Line!Handshake
    BY <1>4 DEF LineAsked, Asks
<1> HIDE DEF asked
<1>6. /\ <<asked>> \in Seq(LineAsked) /\ Len(<<asked>>) = 1 /\ <<asked>>[1] = asked
      /\ <<>> \in Seq(LineTold) /\ Len(<<>>) = 0
    BY <1>5
<1>7. there \in LineConnections /\ there.peer = signer /\ there.lines = <<asked>> /\ there.replies = <<>>
    BY <1>4, <1>6 DEF LineConnections
<1>8. TellsItself(there)
    BY <1>6, <1>7 DEF TellsItself
<1>9. Meant(there, pending', lastId')
  <2>1. Means(asked, pending', lastId')
      BY <1>1, <1>3, <1>4, <1>5 DEF Means
  <2>2. QED
      BY <1>6, <1>7, <2>1 DEF Meant
<1> HIDE DEF there
<1>10. /\ connections' \in Seq(LineConnections) /\ Len(connections') = n + 1
       /\ connections'[n + 1] = there
       /\ \A c \in 1..n : connections'[c] = connections[c]
    BY <1>1, <1>7, AppendProperties DEF LineTypes
<1>11. FromPeers'
  <2> SUFFICES ASSUME NEW c \in 1..(n + 1) PROVE TellsItself(connections'[c])
      BY <1>10 DEF FromPeers
  <2>1. CASE c = n + 1
      BY <2>1, <1>8, <1>10
  <2>2. CASE c \in 1..n
      BY <2>2, <1>10 DEF FromPeers
  <2>3. QED
      BY <2>1, <2>2, <1>4
<1>12. socket' \in 1..Len(connections') /\ DOMAIN pending' \subseteq 1..lastId'
    BY <1>1, <1>3, <1>4, <1>10
<1>13. LineTypes'
    BY <1>1, <1>3, <1>4, <1>10, <1>12 DEF LineTypes
<1>14. Phases' /\ IdsMean'
    BY <1>1, <1>3, <1>9, <1>10, <1>4, LineConstants DEF Phases, IdsMean
<1>15. LineAnswers'
    BY <1>1 DEF LineAnswers
<1>16. QED
    BY <1>11, <1>13, <1>14, <1>15

-----------------------------------------------------------------------------
(* What the client reads. *)

\* What is left on the connections when the next reply has been read off one.
Rest == [connections EXCEPT ![socket].replies = Tail(connections[socket].replies)]

LEMMA ReadsOne ==
    ASSUME LineInv, socket # Nothing, connections[socket].replies # <<>>
    PROVE  LET reply == Head(connections[socket].replies) IN
           /\ reply \in LineTold /\ reply.from = connections[socket].peer
           /\ reply.id = Nothing \/ Means(reply, pending, lastId)
           /\ Rest \in Seq(LineConnections) /\ Len(Rest) = Len(connections)
           /\ Rest[socket].peer = connections[socket].peer
           /\ Meant(Rest[socket], pending, lastId)
           /\ \A c \in 1..Len(Rest) : TellsItself(Rest[c])
<1> USE DEF LineInv
<1> DEFINE cn == connections[socket]
           reply == Head(cn.replies)
           replies == Tail(cn.replies)
           after == [cn EXCEPT !.replies = replies]
<1>1. /\ connections \in Seq(LineConnections) /\ socket \in 1..Len(connections)
      /\ \A c \in 1..Len(connections) : TellsItself(connections[c])
      /\ Meant(cn, pending, lastId)
    BY DEF LineTypes, FromPeers, IdsMean
<1>2. cn \in LineConnections
    BY <1>1
<1>3. Rest = [connections EXCEPT ![socket] = after]
    BY <1>1 DEF Rest
<1>4. cn.replies \in Seq(LineTold) /\ cn.replies # <<>> /\ TellsItself(cn)
    BY <1>1, <1>2 DEF LineConnections
<1> HIDE DEF cn
<1>5. /\ reply \in LineTold /\ reply = cn.replies[1] /\ 1 \in 1..Len(cn.replies)
      /\ replies \in Seq(LineTold)
      /\ \A j \in 1..Len(replies) : replies[j] = cn.replies[j + 1] /\ j + 1 \in 1..Len(cn.replies)
    BY <1>4, HeadAndTail
<1> HIDE DEF reply, replies
<1>6. after \in LineConnections /\ after.peer = cn.peer /\ after.lines = cn.lines /\ after.replies = replies
    BY <1>2, <1>5 DEF LineConnections
<1> HIDE DEF after
<1>7. TellsItself(after) /\ Meant(after, pending, lastId)
    BY <1>1, <1>4, <1>5, <1>6 DEF TellsItself, Meant
<1>8. /\ Rest \in Seq(LineConnections) /\ Len(Rest) = Len(connections)
      /\ \A c \in 1..Len(Rest) : Rest[c] = IF c = socket THEN after ELSE connections[c]
    BY <1>1, <1>3, <1>6
<1>9. reply.from = cn.peer /\ (reply.id = Nothing \/ Means(reply, pending, lastId))
    BY <1>1, <1>4, <1>5 DEF TellsItself, Meant
<1>10. \A c \in 1..Len(Rest) : TellsItself(Rest[c])
    BY <1>1, <1>7, <1>8
<1>11. Rest[socket] = after
    BY <1>1, <1>8
<1>12. QED
    BY <1>5, <1>6, <1>7, <1>8, <1>9, <1>10, <1>11 DEF cn, reply

\* Fewer are owed: what is under way means what it meant.
LEMMA OwesLess ==
    ASSUME NEW id, LineTypes, NEW cn, Meant(cn, pending, lastId)
    PROVE  /\ DOMAIN Line!Without(id) = DOMAIN pending \ {id}
           /\ DOMAIN Line!Without(id) \subseteq 1..lastId
           /\ Line!Without(id) \in [DOMAIN Line!Without(id) -> Asks]
           /\ \A i \in DOMAIN Line!Without(id) : Line!Without(id)[i] = pending[i]
           /\ Meant(cn, Line!Without(id), lastId)
<1>1. /\ DOMAIN Line!Without(id) = DOMAIN pending \ {id}
      /\ DOMAIN Line!Without(id) \subseteq 1..lastId
      /\ Line!Without(id) \in [DOMAIN Line!Without(id) -> Asks]
      /\ \A i \in DOMAIN Line!Without(id) : Line!Without(id)[i] = pending[i]
    BY DEF Line!Without, LineTypes
<1> HIDE DEF LineTypes
<1>2. QED
    BY <1>1 DEF Meant, Means

LEMMA ReceivesLine ==
    ASSUME LineInv, Line!Receive
    PROVE  LineInv'
<1> USE DEF LineInv
<1> DEFINE reply == Head(connections[socket].replies)
           id == Line!For(reply)
           announced == ~Line!Strange(reply) /\ id # Nothing /\ pending[id] = Line!Handshake
<1>1. /\ socket # Nothing /\ connections[socket].replies # <<>> /\ signer' = signer
      /\ \/ /\ connections' = Rest
            /\ Line!Drop(reply) \/ Line!Unasked(reply) \/ Line!Answered(reply)
         \/ announced /\ Line!Recognised(reply.from) /\ Line!Opened(reply, Rest)
         \/ announced /\ Line!Lose /\ connections' = Rest /\ UNCHANGED <<lastId, identity>>
    BY DEF Line!Receive, Rest
<1>2. /\ reply \in LineTold /\ reply.from = connections[socket].peer
      /\ reply.id = Nothing \/ Means(reply, pending, lastId)
      /\ Rest \in Seq(LineConnections) /\ Len(Rest) = Len(connections)
      /\ Rest[socket].peer = connections[socket].peer
      /\ Meant(Rest[socket], pending, lastId)
      /\ \A c \in 1..Len(Rest) : TellsItself(Rest[c])
    BY <1>1, ReadsOne
<1> HIDE DEF reply
<1>3. socket \in 1..Len(connections) /\ signer' \in Line!Peers \cup {Down}
    BY <1>1 DEF LineTypes
<1>4. id # Nothing => id = reply.id /\ id \in DOMAIN pending
    BY DEF Line!For
<1> HIDE DEF id
<1>5. ASSUME connections' = Rest
      PROVE  connections' \in Seq(LineConnections) /\ FromPeers'
    BY <1>2, <1>5 DEF FromPeers
<1>6. CASE connections' = Rest /\ Line!Drop(reply)
    BY <1>3, <1>5, <1>6, WithoutConnection DEF Line!Drop
<1>7. CASE connections' = Rest /\ Line!Unasked(reply)
  <2>1. UNCHANGED <<socket, opening, pending, lastId, identity, closer, calls>>
      BY <1>7 DEF Line!Unasked, Line!client
  <2>2. LineTypes'
      BY <2>1, <1>2, <1>3, <1>5, <1>7 DEF LineTypes
  <2>3. Phases' /\ IdsMean'
      BY <2>1, <1>1, <1>2, <1>3, <1>7 DEF Phases, IdsMean, Meant, Means
  <2>4. QED
      BY <2>1, <2>2, <2>3, <1>5, <1>7 DEF LineAnswers
<1>8. CASE connections' = Rest /\ Line!Answered(reply)
  <2> DEFINE r == pending[id]
  <2>1. /\ reply.id # Nothing /\ id # Nothing /\ r # Line!Handshake
        /\ calls' = [calls EXCEPT ![r] = [is |-> "answered", reply |-> reply]]
        /\ pending' = Line!Without(id)
        /\ UNCHANGED <<socket, opening, lastId, identity, closer>>
      BY <1>8 DEF Line!Answered, Line!Strange, id
  <2>2. /\ r \in Calls /\ reply.of = r
      BY <2>1, <1>2, <1>4 DEF LineTypes, Asks, Means
  <2>3. opening = "no"
      BY <2>1, <1>1, <1>4 DEF Phases, LineTypes
  <2>4. reply.from = identity /\ identity # Nothing
      BY <2>3, <1>1, <1>2 DEF Phases
  <2> HIDE DEF r
  <2>5. [is |-> "answered", reply |-> reply] \in LineKnown
      BY <1>2 DEF LineKnown
  <2>6. /\ calls' \in [Calls -> LineKnown]
        /\ \A q \in Calls : q # r => calls'[q] = calls[q]
        /\ calls'[r].reply = reply
      BY <2>1, <2>2, <2>5 DEF LineTypes
  <2>7. LineAnswers'
      BY <2>1, <2>2, <2>4, <2>6 DEF LineAnswers
  <2>8. LineTypes' /\ Meant(Rest[socket], pending', lastId)
      BY <2>1, <2>6, <1>2, <1>3, <1>5, <1>8, OwesLess DEF LineTypes
  <2>9. Phases' /\ IdsMean'
      BY <2>1, <2>3, <2>8, <1>1, <1>2, <1>8 DEF Phases, IdsMean
  <2>10. QED
      BY <2>7, <2>8, <2>9, <1>5, <1>8
<1>9. CASE announced /\ Line!Recognised(reply.from) /\ Line!Opened(reply, Rest)
  <2> DEFINE waiting == Line!Are("waiting")
             owed == Line!Without(id)
  <2>1. /\ identity' = reply.from /\ opening' = "no"
        /\ Line!Write(waiting, owed, Rest)
        /\ calls' = [r \in Calls |-> IF r \in waiting THEN [is |-> "sent"] ELSE calls[r]]
        /\ UNCHANGED <<socket, closer>>
        /\ identity \in {Nothing, reply.from}
      BY <1>9 DEF Line!Opened, Line!Recognised, id
  <2>2. waiting \in SUBSET Calls /\ \A r \in waiting : calls[r].is = "waiting"
      BY DEF Line!Are
  <2>3. /\ owed \in [DOMAIN owed -> Asks] /\ DOMAIN owed \subseteq 1..lastId
        /\ Meant(Rest[socket], owed, lastId)
      BY <1>2, OwesLess
  <2> HIDE DEF owed, waiting
  <2>4. /\ lastId' \in Nat
        /\ DOMAIN pending' \subseteq 1..lastId' /\ pending' \in [DOMAIN pending' -> Asks]
        /\ connections' \in Seq(LineConnections) /\ Len(connections') = Len(connections)
        /\ connections'[socket].peer = Rest[socket].peer
        /\ Meant(connections'[socket], pending', lastId')
        /\ FromPeers'
      BY <2>1, <2>2, <2>3, <1>1, <1>2, Writes
  <2>5. calls' \in [Calls -> LineKnown]
    <3>1. [is |-> "sent"] \in LineKnown
        BY DEF LineKnown
    <3>2. QED
        BY <2>1, <3>1 DEF LineTypes
  <2>6. identity' # Nothing
      BY <2>1, <1>2, LineConstants DEF LineTold
  <2>7. LineAnswers'
    <3>1. ASSUME NEW r \in Calls, calls'[r].is = "answered"
          PROVE  calls'[r] = calls[r]
        BY <2>1, <3>1
    <3>2. QED
        BY <2>1, <2>6, <3>1 DEF LineAnswers
  <2>8. LineTypes'
      BY <2>1, <2>4, <2>5, <1>3 DEF LineTypes
  <2>9. Phases' /\ IdsMean'
      BY <2>1, <2>4, <2>6, <1>1, <1>2 DEF Phases, IdsMean
  <2>10. QED
      BY <2>4, <2>7, <2>8, <2>9
<1>10. CASE Line!Lose /\ connections' = Rest /\ UNCHANGED <<lastId, identity>>
    BY <1>3, <1>5, <1>10, Loses
<1>11. QED
    BY <1>1, <1>6, <1>7, <1>8, <1>9, <1>10

LEMMA TimesOutLine ==
    ASSUME LineInv, NEW id, Line!TimesOut(id)
    PROVE  LineInv'
<1> USE DEF LineInv
<1>1. id \in DOMAIN pending /\ UNCHANGED <<signer, connections, lastId, identity>>
    BY DEF Line!TimesOut, Line!line
<1>2. /\ signer' \in Line!Peers \cup {Down} /\ connections' \in Seq(LineConnections) /\ FromPeers'
    BY <1>1 DEF LineTypes, FromPeers, TellsItself
<1>3. CASE Line!Lose
    BY <1>1, <1>2, <1>3, Loses
<1>4. CASE pending[id] # Line!Handshake
  <2>1. /\ pending' = Line!Without(id) /\ Line!Fail({pending[id]})
        /\ UNCHANGED <<socket, opening, closer>>
      BY <1>4 DEF Line!TimesOut
  <2>2. calls' \in [Calls -> LineKnown] /\ LineAnswers'
      BY <1>1, <2>1, CallsFail
  <2>3. socket # Nothing /\ Meant(connections[socket], pending, lastId)
    <3>1. socket # Nothing
        BY <1>1 DEF Phases
    <3>2. QED
        BY <3>1 DEF IdsMean
  <2>4. /\ LineTypes /\ DOMAIN pending' \subseteq DOMAIN pending
        /\ DOMAIN pending' \subseteq 1..lastId /\ pending' \in [DOMAIN pending' -> Asks]
        /\ \A i \in DOMAIN pending' : pending'[i] = pending[i]
        /\ Meant(connections[socket], pending', lastId)
      BY <2>1, <2>3, OwesLess
  <2>5. LineTypes'
      BY <1>1, <2>1, <2>2, <2>4 DEF LineTypes
  <2>6. Phases' /\ IdsMean'
      BY <1>1, <2>1, <2>3, <2>4 DEF Phases, IdsMean
  <2>7. QED
      BY <1>2, <2>2, <2>5, <2>6
<1>5. QED
    BY <1>3, <1>4 DEF Line!TimesOut

LEMMA LineStep == LineInv /\ [Line!Next]_Line!vars => LineInv'
<1> SUFFICES ASSUME LineInv, [Line!Next]_Line!vars
             PROVE  LineInv'
    OBVIOUS
<1>1. ASSUME UNCHANGED <<signer, connections>>
      PROVE  /\ signer' \in Line!Peers \cup {Down} /\ connections' \in Seq(LineConnections) /\ FromPeers'
    BY <1>1 DEF LineInv, LineTypes, FromPeers, TellsItself
<1>2. CASE Line!Connects
    BY <1>2, ConnectsLine
<1>3. CASE Line!CannotConnect
    BY <1>1, <1>3, Loses DEF Line!CannotConnect, Line!line
<1>4. CASE Line!Receive
    BY <1>4, ReceivesLine
<1>5. CASE Line!Close
  <2>1. UNCHANGED <<signer, connections, lastId, identity>>
      BY <1>5 DEF Line!Close, Line!line
  <2>2. CASE Line!NoConnection
      BY <1>1, <2>1, <2>2, WithoutConnection
  <2>3. CASE UNCHANGED <<socket, opening, pending, calls>>
      BY <1>1, <2>1, <2>3
      DEF LineInv, LineTypes, Phases, IdsMean, Meant, Means, FromPeers, TellsItself, LineAnswers
  <2>4. QED
      BY <1>5, <2>2, <2>3 DEF Line!Close
<1>6. CASE Line!Stops
    BY <1>6, StopsLine
<1>7. ASSUME NEW r \in Calls, Line!Call(r)
      PROVE  LineInv'
    BY <1>7, CallsLine
<1>8. ASSUME NEW id \in Line!Ids, Line!TimesOut(id)
      PROVE  LineInv'
    BY <1>8, TimesOutLine
<1>9. ASSUME NEW c \in DOMAIN connections, Line!HearsClose(c)
      PROVE  LineInv'
  <2>1. UNCHANGED <<signer, connections, lastId, identity>>
      BY <1>9 DEF Line!HearsClose, Line!line
  <2>2. CASE Line!Lose
      BY <1>1, <2>1, <2>2, Loses
  <2>3. CASE UNCHANGED <<socket, opening, pending, closer, calls>>
      BY <1>1, <2>1, <2>3
      DEF LineInv, LineTypes, Phases, IdsMean, Meant, Means, FromPeers, TellsItself, LineAnswers
  <2>4. QED
      BY <1>9, <2>2, <2>3 DEF Line!HearsClose
<1>10. ASSUME NEW c \in DOMAIN connections, Line!Serves(c)
       PROVE  LineInv'
  <2>1. c \in 1..Len(connections)
      BY DEF LineInv, LineTypes
  <2>2. QED
      BY <1>10, <2>1, ServesLine
<1>11. ASSUME NEW peer \in Line!Peers, Line!Starts(peer)
       PROVE  LineInv'
    BY <1>11 DEF Line!Starts, Line!client, LineInv, LineTypes, Phases, IdsMean, Meant, Means,
                 FromPeers, TellsItself, LineAnswers
<1>12. CASE UNCHANGED Line!vars
    BY <1>12 DEF Line!vars, Line!line, Line!client, LineInv, LineTypes, Phases, IdsMean, Meant, Means,
                 FromPeers, TellsItself, LineAnswers
<1>13. QED
    BY <1>2, <1>3, <1>4, <1>5, <1>6, <1>7, <1>8, <1>9, <1>10, <1>11, <1>12 DEF Line!Next

LEMMA LineInit == Line!Init => LineInv
<1> SUFFICES ASSUME Line!Init PROVE LineInv
    OBVIOUS
<1>1. <<>> \in Seq(LineConnections) /\ <<>> \in [{} -> Asks] /\ DOMAIN <<>> = {} /\ Len(<<>>) = 0
    OBVIOUS
<1>2. [is |-> "new"] \in LineKnown
    BY DEF LineKnown
<1>3. LineTypes
    BY <1>1, <1>2 DEF Line!Init, LineTypes
<1>4. QED
    BY <1>1, <1>3 DEF Line!Init, LineInv, Phases, IdsMean, FromPeers, LineAnswers

LEMMA LineTheirs == LineInv => RepliesAreTheirs
    BY DEF LineInv, LineAnswers, RepliesAreTheirs, Line!RepliesAreTheirs, Line!Are

(* Who asks the signer is answered with the reply to their own request,     *)
(* given with the key that was announced first (RepliesAreTheirs): for any  *)
(* requests, keys and number of connections, however the socket is lost,    *)
(* deadlines pass and the signer comes back.                                *)
THEOREM AnswersAreTheirs == Line!Spec => []RepliesAreTheirs
    BY LineInit, LineStep, LineTheirs, PTL DEF Line!Spec

-----------------------------------------------------------------------------
(* Checkpointer: a run that was asked for and seals has covered what was    *)
(* due of the systems it is through with, and only a run that has not       *)
(* started is shared.                                                       *)

TableSeals == [system : Systems, level : Nat, token : (Systems \X Nat) \cup {NoToken}]

Runs ==
    [kind : Kinds, phase : {"queued", "gap", "seal", "stamp"},
     todo : SUBSET Systems, asking : SUBSET [id : Nat, seal : TableSeals], missing : Nat,
     due : [Systems -> Nat], refused : SUBSET Systems]

SealTypes ==
    /\ written \in [Systems -> Nat] /\ gone \in SUBSET Systems
    /\ seals \in [DOMAIN seals -> TableSeals]
    /\ \E n \in Nat : DOMAIN seals \subseteq 1..n
    /\ jobs \in Seq(Runs)

\* What is due was written, unless the system is gone with it.
DueWritten == \A i \in 1..Len(jobs) : \A s \in Systems \ gone : jobs[i].due[s] <= written[s]

Through(job) == Systems \ (job.todo \cup job.refused \cup gone)

CoveredSoFar ==
    \A i \in 1..Len(jobs) :
        /\ jobs[i].kind = "asked" /\ jobs[i].phase = "seal" =>
               \A s \in Through(jobs[i]) : Covers(s, jobs[i].due[s])
        /\ jobs[i].kind = "asked" /\ jobs[i].phase = "stamp" =>
               \A s \in Systems \ (jobs[i].refused \cup gone) : Covers(s, jobs[i].due[s])

SharedWaits ==
    requested => \A i \in 1..Len(jobs) : LastAsked(i) => jobs[i].phase \in {"queued", "gap"}

SealInv == SealTypes /\ DueWritten /\ CoveredSoFar /\ SharedWaits

-----------------------------------------------------------------------------
LEMMA NewIdIsNew ==
    ASSUME SealTypes
    PROVE  NewId \in Nat \ {0} /\ NewId \notin DOMAIN seals
<1>1. PICK n \in Nat : DOMAIN seals \subseteq 1..n
    BY DEF SealTypes
<1>2. CASE seals = <<>>
    BY <1>2 DEF NewId
<1>3. CASE seals # <<>>
  <2>1. DOMAIN seals # {}
    <3>1. seals = [i \in DOMAIN seals |-> seals[i]]
        BY DEF SealTypes
    <3>2. ASSUME NEW f, f = [i \in {} |-> f[i]]
          PROVE  f = <<>>
        BY <3>2
    <3>3. QED
        BY <3>1, <3>2, <1>3
  <2>2. \E i \in DOMAIN seals :
            /\ \A k \in DOMAIN seals : k <= i
            /\ (CHOOSE j \in DOMAIN seals : \A k \in DOMAIN seals : k <= j) = i
      BY <1>1, <2>1, LastPlace
  <2>3. Max(DOMAIN seals) \in DOMAIN seals /\ \A k \in DOMAIN seals : k <= Max(DOMAIN seals)
    <3>1. PICK i \in DOMAIN seals : \A k \in DOMAIN seals : k <= i
        BY <2>2
    <3>2. \E x \in DOMAIN seals : \A y \in DOMAIN seals : x >= y
        BY <3>1, <1>1
    <3>3. \A y \in DOMAIN seals : Max(DOMAIN seals) \in DOMAIN seals /\ Max(DOMAIN seals) >= y
        BY <3>2 DEF Max
    <3>4. QED
        BY <3>1, <3>3, <1>1
  <2> DEFINE m == Max(DOMAIN seals)
  <2>4. m \in Nat
      BY <2>3, <1>1
  <2>5. NewId = 1 + m
      BY <1>3 DEF NewId
  <2> HIDE DEF m
  <2>6. QED
      BY <2>3, <2>4, <2>5 DEF m
<1>4. QED
    BY <1>2, <1>3

\* The first run of the lock is over: the others come up by one.
LEMMA ComeUp ==
    ASSUME NEW S, NEW q \in Seq(S), q # <<>>
    PROVE  LET r == SubSeq(q, 1, 1 - 1) \o SubSeq(q, 1 + 1, Len(q)) IN
           /\ r \in Seq(S) /\ Len(r) = Len(q) - 1
           /\ \A i \in 1..Len(r) : r[i] = q[i + 1] /\ i + 1 \in 1..Len(q)
<1> DEFINE n == Len(q)
           front == SubSeq(q, 1, 1 - 1)
           back == SubSeq(q, 1 + 1, n)
           r == front \o back
<1>1. n \in Nat /\ n > 0
    BY EmptySeq
<1>2. front \in Seq(S) /\ Len(front) = 0
    BY <1>1
<1>3. back \in Seq(S) /\ Len(back) = n - 1 /\ \A i \in 1..(n - 1) : back[i] = q[i + 1]
  <2>1. \A i \in 2..n : q[i] \in S
      BY <1>1, ElementOfSeq
  <2> HIDE DEF n
  <2>2. back \in Seq(S) /\ Len(back) = (IF 2 <= n THEN n - 2 + 1 ELSE 0)
        /\ \A i \in 1..(n - 2 + 1) : back[i] = q[2 + i - 1]
      BY <2>1, <1>1, SubSeqProperties
  <2> HIDE DEF back
  <2>3. QED
      BY <2>2, <1>1
<1> HIDE DEF front, back
<1>4. r \in Seq(S) /\ Len(r) = Len(front) + Len(back)
      /\ \A i \in 1..(Len(front) + Len(back)) :
             r[i] = IF i <= Len(front) THEN front[i] ELSE back[i - Len(front)]
    BY <1>2, <1>3, ConcatProperties
<1> HIDE DEF r, n
<1>5. Len(r) = n - 1 /\ \A i \in 1..(n - 1) : r[i] = q[i + 1] /\ i + 1 \in 1..n
    BY <1>1, <1>2, <1>3, <1>4
<1>6. QED
    BY <1>4, <1>5 DEF r, n, front, back

-----------------------------------------------------------------------------
\* What was covered stays so while its system's checkpoints stay.
LEMMA StaysCovered ==
    ASSUME NEW s, NEW n, Covers(s, n),
           \A id \in DOMAIN seals : seals[id].system = s =>
               id \in DOMAIN seals' /\ seals'[id].system = s /\ seals'[id].level = seals[id].level
    PROVE  Covers(s, n)'
<1>1. LevelsOf(s) \subseteq LevelsOf(s)'
    BY DEF LevelsOf
<1>2. QED
    BY <1>1 DEF Covers

SealsStay ==
    \A s \in Systems \ gone' : \A id \in DOMAIN seals : seals[id].system = s =>
        id \in DOMAIN seals' /\ seals'[id].system = s /\ seals'[id].level = seals[id].level

LEMMA RunsTyped ==
    ASSUME SealTypes
    PROVE  \A i \in 1..Len(jobs) :
               /\ jobs[i] \in Runs /\ jobs[i].kind \in Kinds
               /\ jobs[i].todo \in SUBSET Systems /\ jobs[i].refused \in SUBSET Systems
               /\ jobs[i].missing \in Nat
               /\ jobs[i].due \in [Systems -> Nat]
<1>1. \A i \in 1..Len(jobs) : jobs[i] \in Runs
    BY ElementOfSeq DEF SealTypes
<1>2. QED
    BY <1>1 DEF Runs

\* The table and the receipts change, and the runs stay.
LEMMA RunsStay ==
    ASSUME SealInv, jobs' = jobs, requested' \in {requested, FALSE}, SealsStay,
           written' \in [Systems -> Nat], gone' \in SUBSET Systems, gone \subseteq gone',
           seals' \in [DOMAIN seals' -> TableSeals], \E n \in Nat : DOMAIN seals' \subseteq 1..n,
           \A s \in Systems \ gone' : written[s] <= written'[s]
    PROVE  SealInv'
<1> USE DEF SealInv
<1>1. SealTypes'
    BY DEF SealTypes
<1>2. DueWritten'
  <2> SUFFICES ASSUME NEW i \in 1..Len(jobs), NEW s \in Systems \ gone'
               PROVE  jobs[i].due[s] <= written'[s]
      BY DEF DueWritten
  <2>1. jobs[i].due[s] <= written[s] /\ written[s] <= written'[s]
      BY DEF DueWritten
  <2>2. jobs[i].due[s] \in Nat /\ written[s] \in Nat /\ written'[s] \in Nat
      BY RunsTyped DEF SealTypes
  <2>3. QED
      BY <2>1, <2>2
<1>3. \A s \in Systems \ gone' : \A n \in Nat : Covers(s, n) => Covers(s, n)'
    BY StaysCovered DEF SealsStay
<1>4. CoveredSoFar'
    BY <1>3, RunsTyped DEF CoveredSoFar, Through
<1>5. SharedWaits'
    BY DEF SharedWaits, LastAsked
<1>6. QED
    BY <1>1, <1>2, <1>4, <1>5

LEMMA Enqueues ==
    ASSUME SealInv, NEW kind \in Kinds, jobs' = Append(jobs, Job(kind)),
           UNCHANGED <<written, gone, seals>>, requested' => requested \/ kind = "asked"
    PROVE  SealInv'
<1> USE DEF SealInv
<1> DEFINE n == Len(jobs)
           job == Job(kind)
<1>1. job \in Runs /\ job.kind = kind /\ job.phase = "queued" /\ job.due = written
    BY DEF Job, Runs, SealTypes
<1> HIDE DEF job
<1>2. /\ jobs' \in Seq(Runs) /\ Len(jobs') = n + 1 /\ n \in Nat
      /\ jobs'[n + 1] = job /\ \A i \in 1..n : jobs'[i] = jobs[i]
    BY <1>1, AppendProperties DEF SealTypes, job
<1> HIDE DEF n
<1>3. ASSUME NEW i \in 1..(n + 1)
      PROVE  (i = n + 1 /\ jobs'[i] = job) \/ (i \in 1..n /\ jobs'[i] = jobs[i])
    BY <1>2
<1>4. SealTypes'
    BY <1>2 DEF SealTypes
<1>5. DueWritten'
    BY <1>1, <1>2, <1>3 DEF DueWritten, SealTypes, n
<1>6. CoveredSoFar'
  <2>1. \A s, m : Covers(s, m)' = Covers(s, m)
      BY DEF Covers, LevelsOf
  <2>2. QED
      BY <1>1, <1>2, <1>3, <2>1 DEF CoveredSoFar, Through, n
<1>7. SharedWaits'
  <2> SUFFICES ASSUME requested', NEW i \in 1..(n + 1), LastAsked(i)'
               PROVE  jobs'[i].phase \in {"queued", "gap"}
      BY <1>2 DEF SharedWaits
  <2>1. CASE i = n + 1
      BY <2>1, <1>1, <1>2
  <2>2. CASE i \in 1..n
    <3>1. kind # "asked"
        BY <2>2, <1>1, <1>2 DEF LastAsked
    <3>2. LastAsked(i)
        BY <2>2, <1>2 DEF LastAsked, n
    <3>3. QED
        BY <2>2, <3>1, <3>2, <1>2 DEF SharedWaits, n
  <2>3. QED
      BY <2>1, <2>2, <1>3
<1>8. QED
    BY <1>4, <1>5, <1>6, <1>7

LEMMA Shares ==
    ASSUME SealInv, requested, requested' = TRUE, UNCHANGED <<written, gone, seals>>,
           jobs' = [i \in 1..Len(jobs) |->
                       IF LastAsked(i) THEN [jobs[i] EXCEPT !.due = written] ELSE jobs[i]]
    PROVE  SealInv'
<1> USE DEF SealInv
<1>1. \A i \in 1..Len(jobs) :
          /\ jobs'[i] \in Runs
          /\ jobs'[i].kind = jobs[i].kind /\ jobs'[i].phase = jobs[i].phase
          /\ jobs'[i].todo = jobs[i].todo /\ jobs'[i].refused = jobs[i].refused
          /\ jobs'[i].due = IF LastAsked(i) THEN written ELSE jobs[i].due
    BY RunsTyped DEF Runs, SealTypes
<1>2. jobs' \in Seq(Runs) /\ Len(jobs') = Len(jobs)
  <2>1. Len(jobs) \in Nat
      BY DEF SealTypes
  <2> DEFINE new(i) == IF LastAsked(i) THEN [jobs[i] EXCEPT !.due = written] ELSE jobs[i]
  <2>2. \A i \in 1..Len(jobs) : new(i) \in Runs
      BY <1>1
  <2> HIDE DEF new
  <2>3. [i \in 1..Len(jobs) |-> new(i)] \in Seq(Runs)
        /\ Len([i \in 1..Len(jobs) |-> new(i)]) = Len(jobs)
      BY <2>1, <2>2
  <2>4. QED
      BY <2>3 DEF new
<1>3. SealTypes'
    BY <1>2 DEF SealTypes
<1>4. DueWritten'
    BY <1>1, <1>2 DEF DueWritten, SealTypes
<1>5. CoveredSoFar'
  <2>1. \A s, m : Covers(s, m)' = Covers(s, m)
      BY DEF Covers, LevelsOf
  <2>2. \A i \in 1..Len(jobs) : jobs[i].phase \in {"seal", "stamp"} => jobs'[i].due = jobs[i].due
      BY <1>1 DEF SharedWaits
  <2>3. QED
      BY <1>1, <1>2, <2>1, <2>2 DEF CoveredSoFar, Through
<1>6. SharedWaits'
  <2> SUFFICES ASSUME NEW i \in 1..Len(jobs), LastAsked(i)'
               PROVE  jobs'[i].phase \in {"queued", "gap"}
      BY <1>2 DEF SharedWaits
  <2>1. \A k \in 1..Len(jobs) : jobs'[k].kind = jobs[k].kind
      BY <1>1
  <2>2. LastAsked(i)
      BY <2>1, <1>2 DEF LastAsked
  <2>3. QED
      BY <2>2, <1>1 DEF SharedWaits
<1>7. QED
    BY <1>3, <1>4, <1>5, <1>6

-----------------------------------------------------------------------------
(* A run goes on. *)

\* The run that goes on is `job` from here, its kind and what it owes the same.
LEMMA GoesOn ==
    ASSUME SealInv, jobs # <<>>, NEW job \in Runs, jobs' = [jobs EXCEPT ![1] = job],
           job.kind = jobs[1].kind, job.due = jobs[1].due,
           UNCHANGED <<written, gone>>, SealsStay,
           seals' \in [DOMAIN seals' -> TableSeals], \E n \in Nat : DOMAIN seals' \subseteq 1..n,
           requested' \in {requested, FALSE},
           requested' /\ LastAsked(1) => job.phase \in {"queued", "gap"},
           job.kind = "asked" /\ job.phase = "seal" =>
               \A s \in Systems \ (job.todo \cup job.refused \cup gone) : Covers(s, job.due[s])',
           job.kind = "asked" /\ job.phase = "stamp" =>
               \A s \in Systems \ (job.refused \cup gone) : Covers(s, job.due[s])'
    PROVE  SealInv'
<1> USE DEF SealInv
<1> DEFINE n == Len(jobs)
<1>1. /\ jobs' \in Seq(Runs) /\ Len(jobs') = n /\ n \in Nat /\ 1 \in 1..n
      /\ jobs'[1] = job /\ \A i \in 2..n : jobs'[i] = jobs[i]
      /\ \A i \in 1..n : i = 1 \/ i \in 2..n
  <2>1. n \in Nat /\ n > 0
      BY EmptySeq DEF SealTypes
  <2>2. QED
      BY <2>1 DEF SealTypes
<1> HIDE DEF n
<1>2. SealTypes'
    BY <1>1 DEF SealTypes
<1>3. DueWritten'
    BY <1>1 DEF DueWritten, n
<1>4. \A s \in Systems \ gone : \A m \in Nat : Covers(s, m) => Covers(s, m)'
    BY StaysCovered DEF SealsStay
<1>5. CoveredSoFar'
  <2> SUFFICES ASSUME NEW i \in 1..n, jobs'[i].kind = "asked"
               PROVE  /\ jobs'[i].phase = "seal" =>
                           (\A s \in Systems \ (jobs[i].todo \cup jobs[i].refused \cup gone) :
                               Covers(s, jobs[i].due[s]))'
                      /\ jobs'[i].phase = "stamp" =>
                           (\A s \in Systems \ (jobs[i].refused \cup gone) : Covers(s, jobs[i].due[s]))'
      BY <1>1 DEF CoveredSoFar, Through
  <2>1. CASE i = 1
      BY <2>1, <1>1
  <2>2. CASE i \in 2..n
    <3>1. jobs'[i] = jobs[i] /\ jobs[i].due \in [Systems -> Nat]
        BY <2>2, <1>1, RunsTyped DEF n
    <3>2. QED
        BY <2>2, <3>1, <1>1, <1>4 DEF CoveredSoFar, Through, n
  <2>3. QED
      BY <2>1, <2>2, <1>1
<1>6. SharedWaits'
  <2> SUFFICES ASSUME requested', NEW i \in 1..n, LastAsked(i)'
               PROVE  jobs'[i].phase \in {"queued", "gap"}
      BY <1>1 DEF SharedWaits
  <2>1. \A k \in 1..n : jobs'[k].kind = jobs[k].kind
      BY <1>1
  <2>2. LastAsked(i)
      BY <2>1, <1>1 DEF LastAsked, n
  <2>3. CASE i = 1
      BY <2>2, <2>3, <1>1
  <2>4. CASE i \in 2..n
      BY <2>2, <2>4, <1>1 DEF SharedWaits, n
  <2>5. QED
      BY <2>3, <2>4, <1>1
<1>7. QED
    BY <1>2, <1>3, <1>5, <1>6

\* It is over, and the next comes up.
LEMMA IsOver ==
    ASSUME SealInv, jobs # <<>>, jobs[1].phase \in {"seal", "stamp"}, NEW n, EndRun(1, n)
    PROVE  SealInv'
<1> USE DEF SealInv
<1>1. /\ jobs' = SubSeq(jobs, 1, 1 - 1) \o SubSeq(jobs, 1 + 1, Len(jobs))
      /\ UNCHANGED <<written, gone, seals, requested>>
    BY DEF EndRun
<1>2. /\ jobs' \in Seq(Runs) /\ Len(jobs') = Len(jobs) - 1
      /\ \A i \in 1..Len(jobs') : jobs'[i] = jobs[i + 1] /\ i + 1 \in 1..Len(jobs)
    BY <1>1, ComeUp DEF SealTypes
<1>3. Len(jobs) \in Nat
    BY DEF SealTypes
<1>4. SealTypes' /\ DueWritten'
    BY <1>1, <1>2 DEF SealTypes, DueWritten
<1>5. CoveredSoFar'
  <2>1. \A s, m : Covers(s, m)' = Covers(s, m)
      BY <1>1 DEF Covers, LevelsOf
  <2>2. QED
      BY <1>1, <1>2, <2>1 DEF CoveredSoFar, Through
<1>6. SharedWaits'
  <2> SUFFICES ASSUME requested, NEW i \in 1..Len(jobs'), LastAsked(i)'
               PROVE  jobs'[i].phase \in {"queued", "gap"}
      BY <1>1 DEF SharedWaits
  <2>1. jobs[i + 1].kind = "asked" /\ i + 1 \in 1..Len(jobs)
      BY <1>2 DEF LastAsked
  <2>2. ASSUME NEW k \in 1..Len(jobs), jobs[k].kind = "asked"
        PROVE  k <= i + 1
    <3>1. CASE k = 1
        BY <3>1, <2>1
    <3>2. CASE k - 1 \in 1..Len(jobs')
      <4>1. jobs'[k - 1] = jobs[(k - 1) + 1] /\ (k - 1) + 1 = k
          BY <3>2, <1>2
      <4>2. k - 1 <= i
          BY <3>2, <4>1, <2>2 DEF LastAsked
      <4>3. QED
          BY <4>2
    <3>3. QED
        BY <3>1, <3>2, <1>2, <1>3
  <2>3. LastAsked(i + 1)
      BY <2>1, <2>2 DEF LastAsked
  <2>4. QED
      BY <2>1, <2>3, <1>2 DEF SharedWaits
<1>7. QED
    BY <1>4, <1>5, <1>6

LEMMA AwaitingTyped ==
    ASSUME SealTypes
    PROVE  Awaiting \in SUBSET [id : Nat, seal : TableSeals]
    BY DEF Awaiting, Waiting, SealTypes

\* The run at the head of the lock, as the steps of a run find it.
LEMMA AtTheHead ==
    ASSUME SealTypes, NEW i \in 1..Len(jobs), NEW phase, In(i, phase)
    PROVE  i = 1 /\ jobs # <<>> /\ 1 \in 1..Len(jobs) /\ jobs[1] \in Runs /\ jobs[1].phase = phase
    BY RunsTyped DEF In, MayRun

LEMMA SameSeals ==
    ASSUME SealInv, UNCHANGED <<gone, seals>>
    PROVE  /\ SealsStay
           /\ seals' \in [DOMAIN seals' -> TableSeals]
           /\ \E n \in Nat : DOMAIN seals' \subseteq 1..n
           /\ \A s, m : Covers(s, m)' = Covers(s, m)
    BY DEF SealsStay, SealInv, SealTypes, Covers, LevelsOf

LEMMA RunBegins ==
    ASSUME SealInv, NEW i \in 1..Len(jobs), StartRun(i) \/ WaitGap(i) \/ StartRequested(i)
    PROVE  SealInv'
<1> USE DEF SealInv
<1>1. /\ i = 1 /\ jobs # <<>> /\ 1 \in 1..Len(jobs) /\ jobs[1] \in Runs
      /\ UNCHANGED <<written, gone, seals>>
    BY AtTheHead DEF StartRun, WaitGap, StartRequested
<1>2. PICK job : job = Begin(jobs[1])
    OBVIOUS
<1>3. /\ job \in Runs /\ job.kind = jobs[1].kind /\ job.due = jobs[1].due
      /\ job.kind = "retry" => job.phase = "stamp"
      /\ job.kind # "retry" => job.phase = "seal" /\ job.todo = {s \in Systems : written[s] > 0}
  <2>1. {s \in Systems : written[s] > 0} \in SUBSET Systems
      OBVIOUS
  <2>2. QED
      BY <1>1, <1>2, <2>1, AwaitingTyped DEF Begin, Runs
<1>4. CASE StartRun(i)
  <2>1. jobs' = [jobs EXCEPT ![1] = job] /\ job.kind # "asked" /\ requested' = requested
      BY <1>1, <1>2, <1>3, <1>4 DEF StartRun, In
  <2>2. ~LastAsked(1)
      BY <2>1, <1>3 DEF LastAsked
  <2>3. QED
      BY <1>1, <1>3, <2>1, <2>2, GoesOn, SameSeals
<1>5. CASE WaitGap(i)
  <2>1. PICK waits : waits = [jobs[1] EXCEPT !.phase = "gap"]
      OBVIOUS
  <2>2. /\ waits \in Runs /\ waits.kind = jobs[1].kind /\ waits.due = jobs[1].due
        /\ waits.phase = "gap"
      BY <2>1, <1>1 DEF Runs
  <2>3. jobs' = [jobs EXCEPT ![1] = waits] /\ requested' = requested
      BY <1>1, <1>5, <2>1 DEF WaitGap
  <2>4. QED
      BY <1>1, <2>2, <2>3, GoesOn, SameSeals
<1>6. CASE StartRequested(i)
  <2>1. /\ jobs' = [jobs EXCEPT ![1] = job] /\ jobs[1].kind \in Kinds /\ requested' = FALSE
      BY <1>1, <1>2, <1>6 DEF StartRequested, Runs
  <2>2. ASSUME job.phase = "seal", NEW s \in Systems \ (job.todo \cup job.refused \cup gone)
        PROVE  Covers(s, job.due[s])'
    <3>1. job.todo = {t \in Systems : written[t] > 0}
        BY <1>3, <2>2
    <3>2. ~(written[s] > 0) /\ written[s] \in Nat
        BY <3>1, <2>2 DEF SealTypes
    <3>3. job.due[s] <= written[s] /\ job.due[s] \in Nat
        BY <1>1, <1>3, RunsTyped DEF DueWritten
    <3>4. job.due[s] = 0
        BY <3>2, <3>3
    <3>5. QED
        BY <3>4 DEF Covers
  <2>3. job.kind = "asked" => job.phase = "seal"
      BY <1>3
  <2>4. QED
      BY <1>1, <1>3, <2>1, <2>2, <2>3, GoesOn, SameSeals
<1>7. QED
    BY <1>4, <1>5, <1>6

LEMMA RunSeals ==
    ASSUME SealInv, NEW i \in 1..Len(jobs), NEW s \in Systems, Checkpoint(i, s)
    PROVE  SealInv'
<1> USE DEF SealInv
<1> DEFINE new == [system |-> s, level |-> written[s], token |-> NoToken]
<1>1. /\ i = 1 /\ jobs # <<>> /\ 1 \in 1..Len(jobs) /\ jobs[1] \in Runs /\ jobs[1].phase = "seal"
      /\ UNCHANGED <<written, gone, requested>>
    BY AtTheHead DEF Checkpoint
<1>2. PICK job : job = [jobs[1] EXCEPT !.todo = @ \ {s}]
    OBVIOUS
<1>3. /\ jobs[1].todo \in SUBSET Systems /\ jobs[1].due \in [Systems -> Nat]
      /\ job \in Runs /\ job.kind = jobs[1].kind /\ job.due = jobs[1].due
      /\ job.phase = "seal" /\ job.refused = jobs[1].refused /\ job.todo = jobs[1].todo \ {s}
    BY <1>1, <1>2 DEF Runs
<1>4. jobs' = [jobs EXCEPT ![1] = job]
    BY <1>1, <1>2 DEF Checkpoint
<1>5. /\ new \in TableSeals /\ new.system = s /\ new.level = written[s]
      /\ written[s] \in Nat
    BY DEF TableSeals, SealTypes
<1> HIDE DEF new
<1>6. /\ seals' \in [DOMAIN seals' -> TableSeals] /\ (\E n \in Nat : DOMAIN seals' \subseteq 1..n)
      /\ SealsStay
      /\ s \in gone \/ Covers(s, written[s])'
  <2>1. CASE (s \in gone \/ Covers(s, written[s])) /\ seals' = seals
    <3>1. \A t, m : Covers(t, m)' = Covers(t, m)
        BY <1>1, <2>1, SameSeals
    <3>2. QED
        BY <1>1, <2>1, <3>1, SameSeals
  <2>2. CASE seals' = [id \in DOMAIN seals \cup {NewId} |-> IF id \in DOMAIN seals THEN seals[id] ELSE new]
    <3>1. NewId \in Nat \ {0} /\ NewId \notin DOMAIN seals
        BY NewIdIsNew
    <3>2. PICK n \in Nat : DOMAIN seals \subseteq 1..n
        BY DEF SealTypes
    <3>3. /\ DOMAIN seals' = DOMAIN seals \cup {NewId}
          /\ \A id \in DOMAIN seals : seals'[id] = seals[id]
          /\ seals'[NewId] = new
        BY <2>2, <3>1
    <3>4. seals' \in [DOMAIN seals' -> TableSeals]
        BY <2>2, <1>5 DEF SealTypes
    <3>5. \E m \in Nat : DOMAIN seals' \subseteq 1..m
      <4> DEFINE k == NewId
      <4> HIDE DEF k
      <4>2. k \in Nat \ {0} /\ DOMAIN seals' = DOMAIN seals \cup {k}
          BY <3>1, <3>3 DEF k
      <4>3. n + k \in Nat /\ DOMAIN seals' \subseteq 1..(n + k)
          BY <3>2, <4>2
      <4>4. QED
          BY <4>3
    <3>6. SealsStay
        BY <3>3 DEF SealsStay
    <3>7. written[s] \in LevelsOf(s)'
        BY <3>3, <1>5 DEF LevelsOf
    <3>8. Covers(s, written[s])'
        BY <3>7, <1>1, <1>5 DEF Covers
    <3>9. QED
        BY <3>4, <3>5, <3>6, <3>8
  <2>3. QED
      BY <2>1, <2>2 DEF Checkpoint, new
<1>7. \A t \in Systems \ gone : \A m \in Nat : Covers(t, m) => Covers(t, m)'
    BY <1>1, <1>6, StaysCovered DEF SealsStay
<1>8. s \in gone \/ Covers(s, job.due[s])'
  <2>1. s \in gone \/ job.due[s] <= written[s]
      BY <1>1, <1>3 DEF DueWritten
  <2>2. job.due[s] \in Nat /\ \A level \in LevelsOf(s)' : level \in Nat
      BY <1>3, <1>6 DEF LevelsOf, TableSeals
  <2>3. QED
      BY <1>1, <1>5, <1>6, <2>1, <2>2 DEF Covers
<1>9. ASSUME job.kind = "asked", NEW t \in Systems \ (job.todo \cup job.refused \cup gone)
      PROVE  Covers(t, job.due[t])'
  <2>1. CASE t = s
      BY <2>1, <1>8, <1>9
  <2>2. CASE t # s
    <3>1. t \in Through(jobs[1])
        BY <1>3, <1>9, <2>2 DEF Through
    <3>2. Covers(t, job.due[t]) /\ job.due[t] \in Nat
        BY <1>1, <1>3, <1>9, <3>1 DEF CoveredSoFar
    <3>3. QED
        BY <3>2, <1>7, <1>9
  <2>3. QED
      BY <2>1, <2>2
<1>10. ~(requested /\ LastAsked(1))
    BY <1>1 DEF SharedWaits
<1>11. QED
    BY <1>1, <1>3, <1>4, <1>6, <1>9, <1>10, GoesOn

\* A system refused, the turn to the tokens, a token or none: nothing less is covered.
LEMMA RunTurns ==
    ASSUME SealInv, NEW i \in 1..Len(jobs),
           \/ \E s \in Systems : CheckpointRefused(i, s)
           \/ StartStamping(i)
           \/ \E c \in jobs[i].asking : TokenArrives(i, c) \/ NoTokenCame(i, c)
    PROVE  SealInv'
<1> USE DEF SealInv
<1>1. /\ i = 1 /\ jobs # <<>> /\ 1 \in 1..Len(jobs) /\ jobs[1] \in Runs
      /\ jobs[1].phase \in {"seal", "stamp"}
      /\ UNCHANGED <<written, gone, requested>>
    BY AtTheHead DEF CheckpointRefused, StartStamping, TokenArrives, NoTokenCame
<1>2. ~(requested /\ LastAsked(1))
    BY <1>1 DEF SharedWaits
<1>3. /\ jobs[1].todo \in SUBSET Systems /\ jobs[1].refused \in SUBSET Systems
      /\ jobs[1].due \in [Systems -> Nat] /\ jobs[1].missing \in Nat
      /\ jobs[1].asking \in SUBSET [id : Nat, seal : TableSeals]
    BY <1>1 DEF Runs
<1>4. ASSUME NEW s \in Systems, CheckpointRefused(i, s)
      PROVE  SealInv'
  <2>1. PICK job : job = [jobs[1] EXCEPT !.todo = @ \ {s}, !.refused = @ \cup {s}]
      OBVIOUS
  <2>2. /\ job \in Runs /\ job.kind = jobs[1].kind /\ job.due = jobs[1].due /\ job.phase = jobs[1].phase
        /\ job.refused = jobs[1].refused \cup {s} /\ job.todo = jobs[1].todo \ {s}
      BY <1>1, <1>3, <2>1 DEF Runs
  <2>3. jobs' = [jobs EXCEPT ![1] = job] /\ seals' = seals /\ jobs[1].phase = "seal"
      BY <1>1, <1>4, <2>1 DEF CheckpointRefused, In
  <2>4. \A t, m : Covers(t, m)' = Covers(t, m)
      BY <1>1, <2>3, SameSeals
  <2>5. job.kind = "asked" =>
            \A t \in Systems \ (job.todo \cup job.refused \cup gone) : Covers(t, job.due[t])'
      BY <1>1, <2>2, <2>3, <2>4 DEF CoveredSoFar, Through
  <2>6. job.phase = "seal"
      BY <2>2, <2>3
  <2>7. SealsStay /\ seals' \in [DOMAIN seals' -> TableSeals] /\ \E n \in Nat : DOMAIN seals' \subseteq 1..n
      BY <1>1, <2>3, SameSeals
  <2>8. QED
      BY <1>1, <1>2, <2>2, <2>3, <2>5, <2>6, <2>7, GoesOn
<1>5. CASE StartStamping(i)
  <2>1. PICK job : job = [jobs[1] EXCEPT !.phase = "stamp", !.asking = Awaiting]
      OBVIOUS
  <2>2. /\ job \in Runs /\ job.kind = jobs[1].kind /\ job.due = jobs[1].due /\ job.phase = "stamp"
        /\ job.refused = jobs[1].refused
      BY <1>1, <2>1, AwaitingTyped DEF Runs
  <2>3. /\ jobs' = [jobs EXCEPT ![1] = job] /\ seals' = seals
        /\ jobs[1].phase = "seal" /\ jobs[1].todo = {}
      BY <1>1, <1>5, <2>1 DEF StartStamping, In
  <2>4. \A t, m : Covers(t, m)' = Covers(t, m)
      BY <1>1, <2>3, SameSeals
  <2>5. job.kind = "asked" => \A t \in Systems \ (job.refused \cup gone) : Covers(t, job.due[t])'
      BY <1>1, <2>2, <2>3, <2>4 DEF CoveredSoFar, Through
  <2>6. SealsStay /\ seals' \in [DOMAIN seals' -> TableSeals] /\ \E n \in Nat : DOMAIN seals' \subseteq 1..n
      BY <1>1, <2>3, SameSeals
  <2>7. QED
      BY <1>1, <1>2, <2>2, <2>3, <2>5, <2>6, GoesOn
<1>6. ASSUME NEW c \in jobs[1].asking, TokenArrives(1, c) \/ NoTokenCame(1, c)
      PROVE  SealInv'
  <2>1. /\ jobs[1].phase = "stamp"
        /\ \E m \in Nat : jobs' = [jobs EXCEPT ![1] = [jobs[1] EXCEPT !.asking = @ \ {c}, !.missing = m]]
    <3>1. \/ jobs' = [jobs EXCEPT ![1].asking = @ \ {c}]
          \/ jobs' = [jobs EXCEPT ![1].asking = @ \ {c}, ![1].missing = @ + 1]
        BY <1>6 DEF TokenArrives, NoTokenCame, StillToAsk
    <3>2. jobs[1].phase = "stamp"
        BY <1>6 DEF TokenArrives, NoTokenCame, In
    <3>3. CASE jobs' = [jobs EXCEPT ![1].asking = @ \ {c}]
      <4>1. jobs' = [jobs EXCEPT ![1] = [jobs[1] EXCEPT !.asking = @ \ {c}, !.missing = jobs[1].missing]]
          BY <3>3, <1>1 DEF Runs
      <4>2. QED
          BY <4>1, <3>2, <1>3
    <3>4. CASE jobs' = [jobs EXCEPT ![1].asking = @ \ {c}, ![1].missing = @ + 1]
      <4>1. jobs' = [jobs EXCEPT ![1] = [jobs[1] EXCEPT !.asking = @ \ {c}, !.missing = jobs[1].missing + 1]]
          BY <3>4, <1>1 DEF Runs
      <4>2. jobs[1].missing + 1 \in Nat
          BY <1>3
      <4>3. QED
          BY <4>1, <4>2, <3>2
    <3>5. QED
        BY <3>1, <3>3, <3>4
  <2>2. PICK m \in Nat : jobs' = [jobs EXCEPT ![1] = [jobs[1] EXCEPT !.asking = @ \ {c}, !.missing = m]]
      BY <2>1
  <2>3. PICK job : job = [jobs[1] EXCEPT !.asking = @ \ {c}, !.missing = m]
      OBVIOUS
  <2>4. /\ job \in Runs /\ job.kind = jobs[1].kind /\ job.due = jobs[1].due /\ job.phase = "stamp"
        /\ job.refused = jobs[1].refused
      BY <1>1, <1>3, <2>1, <2>3 DEF Runs
  <2>5. \/ seals' = seals
        \/ /\ c.id \in DOMAIN seals
           /\ seals' = [seals EXCEPT ![c.id].token = <<c.seal.system, c.seal.level>>]
      BY <1>6 DEF TokenArrives, NoTokenCame, Waiting
  <2>6. /\ DOMAIN seals' = DOMAIN seals
        /\ \A id \in DOMAIN seals : /\ seals'[id].system = seals[id].system
                                    /\ seals'[id].level = seals[id].level
        /\ seals' \in [DOMAIN seals' -> TableSeals]
    <3>1. CASE seals' = seals
        BY <3>1 DEF SealTypes
    <3>2. CASE c.id \in DOMAIN seals /\ seals' = [seals EXCEPT ![c.id].token = <<c.seal.system, c.seal.level>>]
      <4>1. <<c.seal.system, c.seal.level>> \in Systems \X Nat
          BY <1>3 DEF TableSeals
      <4>2. QED
          BY <3>2, <4>1 DEF SealTypes, TableSeals
    <3>3. QED
        BY <2>5, <3>1, <3>2
  <2>7. SealsStay /\ (\E n \in Nat : DOMAIN seals' \subseteq 1..n)
      BY <1>1, <2>6 DEF SealsStay, SealTypes
  <2>8. \A t \in Systems \ gone : \A k \in Nat : Covers(t, k) => Covers(t, k)'
      BY <1>1, <2>7, StaysCovered DEF SealsStay
  <2>9. job.kind = "asked" => \A t \in Systems \ (job.refused \cup gone) : Covers(t, job.due[t])'
    <3> SUFFICES ASSUME job.kind = "asked", NEW t \in Systems \ (job.refused \cup gone)
                 PROVE  Covers(t, job.due[t])'
        OBVIOUS
    <3>1. Covers(t, job.due[t]) /\ job.due[t] \in Nat
        BY <1>1, <1>3, <2>1, <2>4 DEF CoveredSoFar
    <3>2. QED
        BY <3>1, <2>8
  <2>10. QED
      BY <1>1, <1>2, <2>2, <2>3, <2>4, <2>6, <2>7, <2>9, GoesOn
<1>7. QED
    BY <1>1, <1>4, <1>5, <1>6

-----------------------------------------------------------------------------
LEMMA SealInit == Init => SealInv
<1> SUFFICES ASSUME Init PROVE SealInv
    OBVIOUS
<1>1. <<>> \in [{} -> TableSeals] /\ DOMAIN <<>> = {} /\ <<>> \in Seq(Runs) /\ Len(<<>>) = 0
    OBVIOUS
<1>2. {} \subseteq 1..0 /\ 0 \in Nat
    OBVIOUS
<1>3. \E n \in Nat : DOMAIN seals \subseteq 1..n
    BY <1>1, <1>2 DEF Init
<1>4. QED
    BY <1>1, <1>3 DEF Init, SealInv, SealTypes, DueWritten, CoveredSoFar, SharedWaits

LEMMA SealStep == SealInv /\ [Next]_vars => SealInv'
<1> SUFFICES ASSUME SealInv, [Next]_vars PROVE SealInv'
    OBVIOUS
<1> USE DEF SealInv
<1>1. ASSUME NEW kind \in {"timer", "retry"}, Exclusively(kind), UNCHANGED <<written, gone, seals, requested>>
      PROVE  SealInv'
  <2>1. CASE jobs' = jobs
      BY <1>1, <2>1, RunsStay, SameSeals DEF SealTypes
  <2>2. CASE jobs' = Append(jobs, Job(kind))
      BY <1>1, <2>2, Enqueues DEF Kinds
  <2>3. QED
      BY <1>1, <2>1, <2>2 DEF Exclusively
<1>2. CASE Start
    BY <1>1, <1>2 DEF Start
<1>3. CASE Tick
    BY <1>1, <1>3 DEF Tick
<1>4. CASE RetryFires
    BY <1>1, <1>4 DEF RetryFires
<1>5. CASE RequestRun
    BY <1>5, Shares, Enqueues DEF RequestRun, Kinds
<1>6. ASSUME NEW i \in 1..Len(jobs), Step(i)
      PROVE  SealInv'
  <2>1. CASE StartRun(i) \/ WaitGap(i) \/ StartRequested(i)
      BY <2>1, RunBegins
  <2>2. ASSUME NEW s \in Systems, Checkpoint(i, s)
        PROVE  SealInv'
      BY <2>2, RunSeals
  <2>3. CASE \/ \E s \in Systems : CheckpointRefused(i, s)
             \/ StartStamping(i)
             \/ \E c \in jobs[i].asking : TokenArrives(i, c) \/ NoTokenCame(i, c)
      BY <2>3, RunTurns
  <2>4. CASE Stamped(i)
    <3>1. i = 1 /\ jobs # <<>> /\ jobs[1].phase = "stamp"
        BY <2>4, AtTheHead DEF Stamped
    <3>2. QED
        BY <2>4, <3>1, IsOver DEF Stamped
  <2>5. CASE CheckpointThrows(i)
    <3>1. i = 1 /\ jobs # <<>> /\ jobs[1].phase = "seal"
        BY <2>5, AtTheHead DEF CheckpointThrows
    <3>2. QED
        BY <2>5, <3>1, IsOver DEF CheckpointThrows
  <2>6. QED
      BY <1>6, <2>1, <2>2, <2>3, <2>4, <2>5 DEF Step
<1>7. ASSUME NEW s \in Systems, Write(s)
      PROVE  SealInv'
  <2>1. /\ written' \in [Systems -> Nat] /\ \A t \in Systems : written[t] <= written'[t]
      BY <1>7 DEF Write, SealTypes
  <2>2. UNCHANGED <<gone, seals, requested, jobs>>
      BY <1>7 DEF Write
  <2>3. QED
      BY <2>1, <2>2, RunsStay, SameSeals DEF SealTypes
<1>8. ASSUME NEW s \in Systems, Delete(s)
      PROVE  SealInv'
  <2>1. /\ written' = [written EXCEPT ![s] = 0] /\ gone' = gone \cup {s}
        /\ seals' = [id \in {x \in DOMAIN seals : seals[x].system # s} |-> seals[id]]
        /\ UNCHANGED <<requested, jobs>>
      BY <1>8 DEF Delete
  <2>2. /\ written' \in [Systems -> Nat] /\ gone' \in SUBSET Systems /\ gone \subseteq gone'
        /\ \A t \in Systems \ gone' : written[t] <= written'[t]
      BY <2>1 DEF SealTypes
  <2>3. /\ DOMAIN seals' \subseteq DOMAIN seals /\ seals' \in [DOMAIN seals' -> TableSeals]
      BY <2>1 DEF SealTypes
  <2>4. \E n \in Nat : DOMAIN seals' \subseteq 1..n
      BY <2>3 DEF SealTypes
  <2>5. SealsStay
      BY <2>1 DEF SealsStay
  <2>6. QED
      BY <2>1, <2>2, <2>3, <2>4, <2>5, RunsStay
<1>9. CASE Stop
    BY <1>9, RunsStay, SameSeals DEF Stop, SealTypes
<1>10. CASE Exit
  <2>1. jobs' = <<>> /\ requested' = FALSE /\ UNCHANGED <<written, gone, seals>>
      BY <1>10 DEF Exit
  <2>2. <<>> \in Seq(Runs) /\ Len(<<>>) = 0
      OBVIOUS
  <2>3. QED
      BY <2>1, <2>2 DEF SealTypes, DueWritten, CoveredSoFar, SharedWaits
<1>11. CASE UNCHANGED vars
    BY <1>11, RunsStay, SameSeals DEF vars, SealTypes
<1>12. QED
    BY <1>2, <1>3, <1>4, <1>5, <1>6, <1>7, <1>8, <1>9, <1>10, <1>11 DEF Next

(* A run asked for by hand has, when it turns to the tokens, covered every  *)
(* receipt written before the last request that shares it, of the systems   *)
(* neither refused nor deleted (RequestsAreCovered): for any systems,       *)
(* timers, retries, requests and failures, one behind the other.            *)
THEOREM AskedRunsCover == Spec => []RequestsAreCovered
<1>1. SealInv => RequestsAreCovered
    BY DEF SealInv, CoveredSoFar, RequestsAreCovered
<1>2. QED
    BY <1>1, SealInit, SealStep, PTL DEF Spec
=============================================================================
