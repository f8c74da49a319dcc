------------------------------ MODULE Erasure ------------------------------
(***************************************************************************)
(* Erasing people and content: the two tables beside the chains, `subjects`*)
(* (which token stands for whom) and `openings` (the nonces of the salted  *)
(* digests), as receipts are written, lost and recovered, customers erased *)
(* and old copies of the database put back.                                *)
(*                                                                         *)
(* A receipt is written in one IMMEDIATE transaction, from the reading of  *)
(* `subjects` to the insertion of its nonces, so no other writer of the    *)
(* file, the command line included, comes in between: it is one step here. *)
(* It has two ends: committed, or signed and rolled back.                  *)
(***************************************************************************)
EXTENDS Naturals, Sequences, FiniteSets, SequencesExt

CONSTANTS
    Systems, Organizations,
    OwnerOf,        \* the organization of each system, Operator if none
    Operator,
    People,         \* identifiers, after normaliseSubjectIdentifier
    Nobody,         \* a receipt on behalf of nobody
    Traces,         \* the traces of the events, NoTrace among them where it may be
    NoTrace,
    Naming,         \* whether a receipt may name the document, or not
    MaxDrawn,       \* bound: receipts signed in all, with their random values
    MaxRestores     \* bound: old copies put back

ErasureConstants ==
    /\ Nobody \notin People /\ Operator \notin Organizations
    /\ OwnerOf \in [Systems -> Organizations \cup {Operator}]
    /\ Naming \subseteq BOOLEAN
    /\ MaxDrawn \in Nat /\ MaxRestores \in Nat

VARIABLES
    db,         \* the database file
    signed,     \* what the signer signed for each system (its journal)
    copy,       \* a copy of the database made by backup.sh
    left,       \* openings erase --document: positions listed and not yet cut off
    drawn,      \* tokens and nonces drawn so far: the n-th receipt draws n
    restores

vars == <<db, signed, copy, left, drawn, restores>>

Values == 1..MaxDrawn

Receipts == [token : {0} \cup Values, salt : Values, trace : Traces,
             names : BOOLEAN,               \* an artifact names the document
             who : People \cup {Nobody}]    \* whom the client named: not in the receipt

Databases == [chain : [Systems -> Seq(Receipts)],
              back : SUBSET (Systems \X Values),   \* positions taken back from the signer
              subjects : SUBSET (Values \X People),
              openings : SUBSET (Systems \X Values \X Values),
              erased : SUBSET Values,              \* subject.erase entries of the log
              deleted : SUBSET Systems]            \* system.delete entries of the log

TypeOK ==
    /\ db \in Databases /\ copy \in Databases
    /\ signed \in [Systems -> Seq(Receipts)]
    /\ left \subseteq Systems \X Values
    /\ drawn \in 0..MaxDrawn /\ restores \in 0..MaxRestores

Empty == [chain |-> [s \in Systems |-> <<>>], back |-> {}, subjects |-> {},
          openings |-> {}, erased |-> {}, deleted |-> {}]

Init ==
    /\ db = Empty /\ copy = Empty
    /\ signed = [s \in Systems |-> <<>>]
    /\ left = {} /\ drawn = 0 /\ restores = 0

\* Where receipts are, and which.
Positions == {p \in Systems \X Values : p[2] \in DOMAIN db.chain[p[1]]}
At(p) == db.chain[p[1]][p[2]]

(***************************************************************************)
(* Writing a receipt: pseudonymous, digestFor, insertReceipt, insertRow.   *)
(***************************************************************************)

(* A token taken from a counter of the rows, not at random. *)
FaultCounted(p) ==
    LET known == {row \in db.subjects : row[2] = p}
    IN  IF p = Nobody THEN 0
        ELSE IF known # {} THEN (CHOOSE row \in known : TRUE)[1]
        ELSE Cardinality(db.subjects) + 1

TokenFor(p) ==
    LET known == {row \in db.subjects : row[2] = p}
    IN  IF p = Nobody THEN 0
        ELSE IF known # {} THEN (CHOOSE row \in known : TRUE)[1]
        ELSE drawn + 1

Drafts == {[token |-> TokenFor(p), salt |-> drawn + 1, trace |-> t, names |-> n, who |-> p] :
              p \in People \cup {Nobody}, t \in Traces, n \in Naming}

Position(s) == Len(db.chain[s]) + 1

(* The signer signs only what follows its own head; a system whose receipt was
   lost is reconciled first.                                               *)
CanSign(s) ==
    /\ s \notin db.deleted
    /\ db.chain[s] = signed[s]
    /\ drawn < MaxDrawn

WithReceipt(s, r) ==
    [db EXCEPT
       !.chain[s] = Append(@, r),
       !.subjects = @ \cup (IF r.who = Nobody THEN {} ELSE {<<r.token, r.who>>}),
       !.openings = @ \cup {<<s, Position(s), r.salt>>}]

Write(s) ==
    /\ CanSign(s)
    /\ \E r \in Drafts :
         /\ signed' = [signed EXCEPT ![s] = Append(@, r)]
         /\ db' = WithReceipt(s, r)
    /\ drawn' = drawn + 1
    /\ UNCHANGED <<copy, left, restores>>

(* Signed, and the transaction rolled back: the new row of `subjects` and the
   nonce go with it.                                                       *)
WriteLost(s) ==
    /\ CanSign(s)
    /\ \E r \in Drafts : signed' = [signed EXCEPT ![s] = Append(@, r)]
    /\ drawn' = drawn + 1
    /\ UNCHANGED <<db, copy, left, restores>>

(***************************************************************************)
(* reconcileNow, when the signer is ahead of the database: what is missing *)
(* is inserted without nonces, and `subjects` is left alone.               *)
(***************************************************************************)
Missing(s) == {i \in 1..Len(signed[s]) : i >= Position(s)}

(* With nonces drawn as for a receipt that is new. *)
FaultFreshNonces(s) ==
    [db EXCEPT !.chain[s] = signed[s], !.back = @ \cup {<<s, i>> : i \in Missing(s)},
               !.openings = @ \cup {<<s, i, drawn + 1>> : i \in Missing(s)}]

TakenBack(s) ==
    [db EXCEPT !.chain[s] = signed[s], !.back = @ \cup {<<s, i>> : i \in Missing(s)}]

Recover(s) ==
    /\ s \notin db.deleted
    /\ Missing(s) # {} /\ IsPrefix(db.chain[s], signed[s])
    /\ db' = TakenBack(s)
    /\ UNCHANGED <<signed, copy, left, drawn, restores>>

(***************************************************************************)
(* The erasures.                                                           *)
(***************************************************************************)
EraseSubject ==
    /\ \E row \in db.subjects :
         db' = [db EXCEPT !.subjects = {r \in @ : r[1] # row[1]}, !.erased = @ \cup {row[1]}]
    /\ UNCHANGED <<signed, copy, left, drawn, restores>>

(* eraseChain, for each system of `gone` *)
WithoutChains(d, gone) ==
    [d EXCEPT !.chain = [s \in Systems |-> IF s \in gone THEN <<>> ELSE @[s]],
              !.back = {b \in @ : b[1] \notin gone},
              !.openings = {o \in @ : o[1] \notin gone},
              !.deleted = @ \cup gone]

(* The administrator's own system: `subjects` is left as it is. *)
EraseOperatorSystem(s) ==
    /\ OwnerOf[s] = Operator /\ s \notin db.deleted
    /\ db' = WithoutChains(db, {s})
    /\ UNCHANGED <<signed, copy, left, drawn, restores>>

Named(d) == {r.token : r \in UNION {ToSet(d.chain[s]) : s \in Systems}}

(* Everybody the erased receipts named. *)
FaultTheirPeople(before, after) ==
    LET gone == after.deleted \ before.deleted
    IN  [after EXCEPT !.subjects =
            {row \in @ : \A s \in gone : \A r \in ToSet(before.chain[s]) : r.token # row[1]}]

(* The links no remaining receipt names, of whoever's receipts they were. *)
WithoutUnnamed(before, after) ==
    [after EXCEPT !.subjects = {row \in @ : row[1] \in Named(after)}]

EraseOrganization(o) ==
    /\ \E s \in Systems : OwnerOf[s] = o /\ s \notin db.deleted
    /\ db' = WithoutUnnamed(db, WithoutChains(db, {s \in Systems : OwnerOf[s] = o}))
    /\ UNCHANGED <<signed, copy, left, drawn, restores>>

(* openings erase --document.  receiptsOfDocument is one read; then each system
   is a transaction of its own, and stops the command if it is not there.   *)
OfDocument ==
    {p \in Positions :
        \/ At(p).names
        \/ /\ At(p).trace # NoTrace
           /\ \E q \in Positions : q[1] = p[1] /\ At(q).names /\ At(q).trace = At(p).trace}

ListDocument ==
    /\ left = {} /\ OfDocument # {}
    /\ left' = OfDocument
    /\ UNCHANGED <<db, signed, copy, drawn, restores>>

CutOff(s) ==
    /\ \E l \in left : l[1] = s
    /\ s \notin db.deleted
    /\ db' = [db EXCEPT !.openings = {o \in @ : <<o[1], o[2]>> \notin left \/ o[1] # s}]
    /\ left' = {l \in left : l[1] # s}
    /\ UNCHANGED <<signed, copy, drawn, restores>>

CommandEnds ==
    /\ left # {} /\ left' = {}
    /\ UNCHANGED <<db, signed, copy, drawn, restores>>

(***************************************************************************)
(* Copies.                                                                 *)
(***************************************************************************)
Backup ==
    /\ copy # db /\ restores < MaxRestores
    /\ copy' = db
    /\ UNCHANGED <<db, signed, left, drawn, restores>>

(* An old copy is put back with the server stopped. *)
Restore ==
    /\ copy # db /\ restores < MaxRestores
    /\ db' = copy /\ left' = {}
    /\ restores' = restores + 1
    /\ UNCHANGED <<signed, copy, drawn>>

Next ==
    \/ EraseSubject \/ ListDocument \/ CommandEnds \/ Backup \/ Restore
    \/ \E s \in Systems : \/ Write(s) \/ WriteLost(s) \/ Recover(s)
                          \/ EraseOperatorSystem(s) \/ CutOff(s)
    \/ \E o \in Organizations : EraseOrganization(o)

Spec == Init /\ [][Next]_vars

(***************************************************************************)
(* Properties.                                                             *)
(***************************************************************************)
(* A token means one person for ever: on every chain, in every system, before
   and after an erasure, a lost transaction, a restored copy; and whom it
   leads to now is whom the client named then.  So a person who comes back
   after an erasure is nobody's earlier token (docs/SECURITY.md:337-339).  And a
   nonce that is kept stands at the receipt whose digests were made with it: at
   another it would show what was really said to be something else.         *)
OneMeaning ==
    /\ \A p, q \in Positions :
         At(p).token = At(q).token /\ At(p).token # 0 => At(p).who = At(q).who
    /\ \A row \in db.subjects : \A p \in Positions :
         At(p).token = row[1] => At(p).who = row[2]
    /\ \A o \in db.openings :
         o[2] \in DOMAIN db.chain[o[1]] /\ db.chain[o[1]][o[2]].salt = o[3]

(* A token leads to nobody only because its person was erased or because the
   receipt came back from the signer (docs/SECURITY.md:383-389): erasing one
   customer cuts off no receipt of another, though they share the person.   *)
LinksLostOnPurpose ==
    \A p \in Positions :
        \/ At(p).token = 0 \/ p \in db.back \/ At(p).token \in db.erased
        \/ \E row \in db.subjects : row[1] = At(p).token
=============================================================================
