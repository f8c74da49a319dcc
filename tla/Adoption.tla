----------------------------- MODULE Adoption -----------------------------
(***************************************************************************)
(* sigillo-signer init-from-db (apps/signer/src/init-from-db.ts): how the  *)
(* chains of an installation that had no signer's memory come into it, and *)
(* what happens when the command is cut short, run again, or run after the *)
(* previous release and its database were put back (DEPLOY.md, R1-R5).     *)
(*                                                                         *)
(* As everywhere, a chain is the sequence of what its receipts say.  The   *)
(* service between two runs is modelled by what it leaves behind: Signer   *)
(* and ReceiptStore are its own specifications.                            *)
(***************************************************************************)
EXTENDS Naturals, Sequences, FiniteSets, SequencesExt

CONSTANTS
    Systems,
    Contents,       \* what a receipt may say
    MaxLength,      \* bound: receipts of a chain
    MaxUpsets       \* bound: crashes, copies put back, memories put aside

AdoptionConstants == IsFiniteSet(Systems) /\ MaxLength \in Nat /\ MaxUpsets \in Nat

VARIABLES
    db,         \* the database: chains, systems deleted, signer.init entries
    copy,       \* the backup taken before an update
    damaged,    \* systems with a stored receipt that does not check
    files,      \* the signer's state files
    marker,     \* init-from-db.json is there
    release,    \* the one installed: the old one's signer keeps no memory
    up,         \* signer and server are running
    command,    \* init-from-db, between two of its writes
    outcome,    \* how its last run ended, until something else happens
    signed,     \* chains this memory has taken over or signed
    adoptions,  \* how often a system was taken over from a database
    upsets

vars == <<db, copy, damaged, files, marker, release, up, command, outcome,
          signed, adoptions, upsets>>

Unknown == [is |-> "unknown", chain |-> <<>>]
Retired == [is |-> "retired", chain |-> <<>>]
Chain(c) == [is |-> "chain", chain |-> c]

Off == [at |-> "off", todo |-> <<>>, report |-> {}]

Chains == UNION {[1..n -> Contents] : n \in 0..MaxLength}
Databases == [chain : [Systems -> Chains], gone : SUBSET Systems,
              logged : [Systems -> Nat]]

TypeOK ==
    /\ db \in Databases /\ copy \in Databases
    /\ damaged \subseteq Systems
    /\ files \in [Systems -> {Unknown, Retired} \cup {Chain(c) : c \in Chains}]
    /\ marker \in BOOLEAN /\ up \in BOOLEAN
    /\ release \in {"old", "new"}
    /\ command.at \in {"off", "putting", "marking"}
    /\ outcome \in {"none", "done", "agrees", "refused"}
    /\ signed \in [Systems -> SUBSET Chains]
    /\ adoptions \in [Systems -> Nat]
    /\ upsets \in 0..MaxUpsets

Held == {s \in Systems : db.chain[s] # <<>>}

(* An installation of the old release; some chain may have been tampered with. *)
Init ==
    /\ db \in [chain : [Systems -> {<<>>} \cup {<<c>> : c \in Contents}],
               gone : SUBSET Systems, logged : {[s \in Systems |-> 0]}]
    /\ db.gone \cap Held = {}
    /\ copy = db
    /\ damaged \in SUBSET Held
    /\ files = [s \in Systems |-> Unknown]
    /\ marker = FALSE /\ release = "old" /\ up = TRUE
    /\ command = Off /\ outcome = "none"
    /\ signed = [s \in Systems |-> {}]
    /\ adoptions = [s \in Systems |-> 0]
    /\ upsets = 0

(***************************************************************************)
(* The command.                                                            *)
(***************************************************************************)

(* Of the state file, position and hash are compared. *)
Agrees(s) == files[s] = Chain(db.chain[s])

ToTakeOver == {s \in Held : files[s] = Unknown}
ToRetire == {s \in db.gone \ Held : files[s] = Unknown}

FaultOverwrites ==
    /\ Held \cap damaged = {}
    /\ \A s \in Held : Agrees(s) \/ ~marker

Acceptable ==
    /\ Held \cap damaged = {}
    /\ \A s \in Held : Agrees(s) \/ (~marker /\ files[s] = Unknown)

(* What the log will say, decided with the rest before anything is written. *)
Reported == ToTakeOver \cup ToRetire

ToWrite == SetToSeq({s \in Held : ~Agrees(s)}) \o SetToSeq(ToRetire)

Run ==
    /\ release = "new" /\ ~up /\ command = Off
    /\ IF ~Acceptable THEN outcome' = "refused" /\ UNCHANGED command
       ELSE IF marker THEN outcome' = "agrees" /\ UNCHANGED command
       ELSE /\ command' = [at |-> "putting", todo |-> ToWrite, report |-> Reported]
            /\ outcome' = "none"
    /\ UNCHANGED <<db, copy, damaged, files, marker, release, up, signed,
                   adoptions, upsets>>

(* One state file, durably. *)
PutState ==
    /\ command.at = "putting" /\ command.todo # <<>>
    /\ LET s == Head(command.todo) IN
         /\ files' = [files EXCEPT ![s] = IF s \in Held THEN Chain(db.chain[s])
                                          ELSE Retired]
         /\ signed' = [signed EXCEPT ![s] = @ \cup {db.chain[s]}]
         /\ adoptions' = [adoptions EXCEPT ![s] = @ + 1]
    /\ command' = [command EXCEPT !.todo = Tail(@)]
    /\ UNCHANGED <<db, copy, damaged, marker, release, up, outcome, upsets>>

(* The entries, in one transaction. *)
WriteLog ==
    /\ command.at = "putting" /\ command.todo = <<>>
    /\ db' = [db EXCEPT !.logged = [s \in Systems |->
                 IF s \in command.report THEN @[s] + 1 ELSE @[s]]]
    /\ command' = [command EXCEPT !.at = "marking"]
    /\ UNCHANGED <<copy, damaged, files, marker, release, up, outcome, signed,
                   adoptions, upsets>>

WriteMarker ==
    /\ command.at = "marking"
    /\ marker' = TRUE /\ command' = Off /\ outcome' = "done"
    /\ UNCHANGED <<db, copy, damaged, files, release, up, signed, adoptions, upsets>>

Crash ==
    /\ command # Off /\ upsets < MaxUpsets
    /\ command' = Off
    /\ upsets' = upsets + 1
    /\ UNCHANGED <<db, copy, damaged, files, marker, release, up, outcome, signed,
                   adoptions>>

(***************************************************************************)
(* The service between two runs.                                           *)
(***************************************************************************)
Stop ==
    /\ up /\ up' = FALSE
    /\ UNCHANGED <<db, copy, damaged, files, marker, release, command, outcome,
                   signed, adoptions, upsets>>

Start ==
    /\ ~up /\ command = Off
    /\ up' = TRUE /\ outcome' = "none"
    /\ UNCHANGED <<db, copy, damaged, files, marker, release, command, signed,
                   adoptions, upsets>>

(* The next receipt of a chain, its genesis included.  The old signer signs
   what it is asked.  The new one signs what follows its own head, and the
   answer may be lost; a name the log has as deleted is not used again.   *)
Record(s, c) ==
    LET next == Append(db.chain[s], c)
        first == db.chain[s] = <<>> IN
    /\ up /\ Len(next) <= MaxLength
    /\ first => s \notin db.gone
    /\ IF release = "old"
       THEN db' = [db EXCEPT !.chain[s] = next] /\ UNCHANGED <<files, signed>>
       ELSE /\ Agrees(s) \/ (first /\ files[s] = Unknown)
            /\ files' = [files EXCEPT ![s] = Chain(next)]
            /\ signed' = [signed EXCEPT ![s] = @ \cup {next}]
            /\ \E stored \in BOOLEAN :
                 db' = IF stored THEN [db EXCEPT !.chain[s] = next] ELSE db
    /\ UNCHANGED <<copy, damaged, marker, release, up, command, outcome, adoptions,
                   upsets>>

(* reconcileNow, where it can. *)
TakeBack(s) ==
    /\ up /\ release = "new" /\ files[s].is = "chain"
    /\ IsStrictPrefix(db.chain[s], files[s].chain)
    /\ db' = [db EXCEPT !.chain[s] = files[s].chain]
    /\ UNCHANGED <<copy, damaged, files, marker, release, up, command, outcome,
                   signed, adoptions, upsets>>

Delete(s) ==
    /\ up /\ s \in Held
    /\ db' = [db EXCEPT !.chain[s] = <<>>, !.gone = @ \cup {s}]
    /\ damaged' = damaged \ {s}
    /\ UNCHANGED <<copy, files, marker, release, up, command, outcome, signed,
                   adoptions, upsets>>

(***************************************************************************)
(* The update, and the way back.                                           *)
(***************************************************************************)
Update ==
    /\ ~up /\ release = "old"
    /\ release' = "new" /\ copy' = db
    /\ UNCHANGED <<db, damaged, files, marker, up, command, outcome, signed,
                   adoptions, upsets>>

(* R2 and R3; or, with the release kept, a backup put back. *)
PutBack(previous) ==
    /\ ~up /\ command = Off /\ release = "new" /\ upsets < MaxUpsets
    /\ release' = previous
    /\ db' = copy
    /\ outcome' = "none"
    /\ upsets' = upsets + 1
    /\ UNCHANGED <<copy, damaged, files, marker, up, command, signed, adoptions>>

(* R4, which may be forgotten: from here on it is another memory. *)
PutAside ==
    /\ ~up /\ command = Off /\ upsets < MaxUpsets
    /\ files' = [s \in Systems |-> Unknown]
    /\ marker' = FALSE /\ outcome' = "none"
    /\ signed' = [s \in Systems |-> {}]
    /\ upsets' = upsets + 1
    /\ UNCHANGED <<db, copy, damaged, release, up, command, adoptions>>

Next ==
    \/ Run \/ PutState \/ WriteLog \/ WriteMarker \/ Crash
    \/ Stop \/ Start \/ Update \/ PutAside
    \/ \E r \in {"old", "new"} : PutBack(r)
    \/ \E s \in Systems : TakeBack(s) \/ Delete(s) \/ \E c \in Contents : Record(s, c)

Spec == Init /\ [][Next]_vars

(***************************************************************************)
(* Properties.                                                             *)
(***************************************************************************)

(* One memory of the signer never holds, nor ever held, two branches of a
   chain, whatever database it was filled from and however often the command
   was cut short and run again: "a system the signer already knows is never
   overwritten" (init-from-db.ts:33-34).  Without it a database put back to
   a copy, adopted over the memory, would get its positions signed twice. *)
OneBranch ==
    \A s \in Systems : \A c, d \in signed[s] : IsPrefix(c, d) \/ IsPrefix(d, c)
=============================================================================
