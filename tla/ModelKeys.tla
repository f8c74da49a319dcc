----------------------------- MODULE ModelKeys ------------------------------
(***************************************************************************)
(* The customers' model keys at rest (apps/server/src/gateway/             *)
(* provider-keys.ts and the console's requests about them): what each is   *)
(* sealed under, while systems change hands and are deleted, accounts come *)
(* and go, vaults are made, the vault is switched on and off, the server   *)
(* ends in the middle and the database is restored.  Whether a vault is    *)
(* open when an agent calls is in Gateway.                                 *)
(***************************************************************************)
EXTENDS Integers, FiniteSets

CONSTANTS
    Systems,
    Organizations, Operator,
    MaxDataKeys,    \* bound: vaults ever made
    MaxFiles,       \* bound: machines the database is put on
    MaxChanges,     \* bound: what becomes of systems, accounts and the setting
    None

Accounts == Organizations \cup {Operator}

ModelKeysConstants ==
    /\ Operator \notin Organizations /\ None \notin Accounts \cup (1..MaxDataKeys)
    /\ MaxDataKeys \in Nat /\ MaxFiles \in Nat \ {0} /\ MaxChanges \in Nat

VARIABLES
    db,         \* the tables: see Database
    file,       \* which llm-gateway.key is on this machine
    enabled,    \* SIGILLO_KEY_VAULT of the process that runs
    held,       \* Vaults.open: the data keys in memory
    saving,     \* the console's request to save a key for a system is at the provider
    shown,      \* the data keys whose recovery key was handed out
    made,       \* data keys made so far
    backup,     \* a copy of the database
    changes

vars == <<db, file, enabled, held, saving, shown, made, backup, changes>>

DataKeys == 1..MaxDataKeys
Files == 1..MaxFiles

\* A row of provider_keys: what it is sealed under, and its vault_owner.
Rows == [under : Files, owner : {None}] \cup [under : DataKeys, owner : Accounts]

Database ==
    [owner : [Systems -> Accounts \cup {None}],     \* None: no such system
     accounts : SUBSET Accounts,
     vault : [Accounts -> DataKeys \cup {None}],    \* vaults
     key : [Systems -> Rows \cup {None}]]           \* provider_keys

TypeOK ==
    /\ db \in Database /\ backup \in Database
    /\ file \in Files /\ enabled \in BOOLEAN
    /\ held \in [Accounts -> DataKeys \cup {None}]
    /\ saving \subseteq Systems
    /\ shown \subseteq DataKeys /\ made \in 0..MaxDataKeys
    /\ changes \in 0..MaxChanges

Locked == [a \in Accounts |-> None]

\* Systems of anybody, no vault yet, and no key.
Init ==
    /\ \E owner \in [Systems -> Accounts] :
         db = [owner |-> owner, accounts |-> Accounts, vault |-> Locked, key |-> [s \in Systems |-> None]]
    /\ backup = db
    /\ file = 1 /\ enabled \in BOOLEAN
    /\ held = Locked /\ saving = {} /\ shown = {} /\ made = 0 /\ changes = 0

Change ==
    /\ changes < MaxChanges
    /\ changes' = changes + 1

-----------------------------------------------------------------------------
(* The console.                                                             *)

\* llm-key: the system is looked up, and the provider asked about the key.
AsksToSave(s) ==
    /\ db.owner[s] # None
    /\ saving' = saving \cup {s}
    /\ UNCHANGED <<db, file, enabled, held, shown, made, backup, changes>>

\* ownerOf, for a system that may be gone.
OwnerNow(s) == IF db.owner[s] = None THEN Operator ELSE db.owner[s]

FaultColumnStays(row, s) == IF db.key[s] = None THEN row ELSE [row EXCEPT !.owner = db.key[s].owner]

\* upsert replaces every column.
Replacing(row, s) == row

\* set: under the server's file, or under the vault of whoever owns the system
\* by now, if it is there and open.
Saves(s) ==
    LET owner == OwnerNow(s) IN
    /\ s \in saving
    /\ saving' = saving \ {s}
    /\ db' = IF ~enabled THEN [db EXCEPT !.key[s] = Replacing([under |-> file, owner |-> None], s)]
             ELSE IF db.vault[owner] # None /\ held[owner] # None
             THEN [db EXCEPT !.key[s] = Replacing([under |-> held[owner], owner |-> owner], s)]
             ELSE db
    /\ UNCHANGED <<file, enabled, held, shown, made, backup, changes>>

\* The provider refuses it, or the server ends first.
SaveFails(s) ==
    /\ s \in saving
    /\ saving' = saving \ {s}
    /\ UNCHANGED <<db, file, enabled, held, shown, made, backup, changes>>

\* The keys a new vault takes over.
TakenOver(a) ==
    {s \in Systems : db.key[s] # None /\ db.key[s].owner = None /\ OwnerNow(s) = a}

\* Those that the file on this machine opens.
Opens(s) == db.key[s].under = file

NoneYet(a) == db.vault[a] = None

Vault(a, done) ==
    [db EXCEPT !.vault[a] = made + 1,
               !.key = [s \in Systems |-> IF s \in done THEN [under |-> made + 1, owner |-> a] ELSE db.key[s]]]

\* createVault: the vault is written, and then the keys one by one.
MayMake(a) == enabled /\ a \in db.accounts /\ NoneYet(a) /\ made < MaxDataKeys

CreateVault(a) ==
    /\ MayMake(a) /\ \A s \in TakenOver(a) : Opens(s)
    /\ db' = Vault(a, TakenOver(a))
    /\ made' = made + 1 /\ shown' = shown \cup {made + 1}
    /\ held' = [held EXCEPT ![a] = made + 1]
    /\ UNCHANGED <<file, enabled, saving, backup, changes>>

\* One of them does not open: the request fails where it stands.
CreateVaultFails(a) ==
    /\ MayMake(a) /\ \E s \in TakenOver(a) : ~Opens(s)
    /\ \E done \in SUBSET {s \in TakenOver(a) : Opens(s)} : db' = Vault(a, done)
    /\ made' = made + 1
    /\ held' = [held EXCEPT ![a] = made + 1]
    /\ UNCHANGED <<file, enabled, saving, shown, backup, changes>>

\* The server ends in the middle.
CreateVaultCut(a) ==
    /\ MayMake(a) /\ Change
    /\ \E done \in SUBSET {s \in TakenOver(a) : Opens(s)} : db' = Vault(a, done)
    /\ made' = made + 1
    /\ held' = Locked /\ saving' = {}
    /\ UNCHANGED <<file, enabled, shown, backup>>

\* unlock, with a right passphrase or recovery key.
Unlock(a) ==
    /\ enabled /\ a \in db.accounts /\ db.vault[a] # None
    /\ held' = [held EXCEPT ![a] = db.vault[a]]
    /\ UNCHANGED <<db, file, enabled, saving, shown, made, backup, changes>>

\* lock, the sweep, or the sealed hours.
Lock(a) ==
    /\ held' = [held EXCEPT ![a] = None]
    /\ UNCHANGED <<db, file, enabled, saving, shown, made, backup, changes>>

-----------------------------------------------------------------------------
(* Everybody else.                                                          *)

\* assignSystem, or an accepted transfer.
ChangesHands(s, a) ==
    /\ Change /\ db.owner[s] # None /\ a \in db.accounts
    /\ db' = [db EXCEPT !.owner[s] = a]
    /\ UNCHANGED <<file, enabled, held, saving, shown, made, backup>>

\* deleteEmptySystem, eraseSystem.
DeleteSystem(s) ==
    /\ Change /\ db.owner[s] # None
    /\ db' = [db EXCEPT !.owner[s] = None, !.key[s] = None]
    /\ UNCHANGED <<file, enabled, held, saving, shown, made, backup>>

\* deleteOrganization, of one that has nothing left; eraseOrganization.
DeleteOrganization(a) ==
    /\ Change /\ a \in db.accounts \ {Operator}
    /\ db' = [db EXCEPT !.accounts = @ \ {a},
                        !.owner = [s \in Systems |-> IF @[s] = a THEN None ELSE @[s]],
                        !.key = [s \in Systems |-> IF db.owner[s] = a THEN None ELSE @[s]]]
    /\ UNCHANGED <<file, enabled, held, saving, shown, made, backup>>

\* createOrganization, under an identifier that is free.
CreateOrganization(a) ==
    /\ Change /\ a \notin db.accounts
    /\ db' = [db EXCEPT !.accounts = @ \cup {a}]
    /\ UNCHANGED <<file, enabled, held, saving, shown, made, backup>>

\* The process ends, and another starts with this setting.
Restart(setting) ==
    /\ Change
    /\ enabled' = setting /\ held' = Locked /\ saving' = {}
    /\ UNCHANGED <<db, file, shown, made, backup>>

BackUp ==
    /\ backup' = db
    /\ UNCHANGED <<db, file, enabled, held, saving, shown, made, changes>>

\* The copy is put in place of the database, here or on a new machine, which
\* makes a sealing key of its own.
Restore(machine) ==
    /\ Change /\ machine \in {file, file + 1} \cap Files
    /\ db' = backup /\ file' = machine
    /\ held' = Locked /\ saving' = {}
    /\ UNCHANGED <<enabled, shown, made, backup>>

Next ==
    \/ BackUp
    \/ \E s \in Systems : AsksToSave(s) \/ Saves(s) \/ SaveFails(s) \/ DeleteSystem(s)
    \/ \E a \in Accounts :
         \/ CreateVault(a) \/ CreateVaultFails(a) \/ CreateVaultCut(a) \/ Unlock(a) \/ Lock(a)
         \/ DeleteOrganization(a) \/ CreateOrganization(a)
         \/ \E s \in Systems : ChangesHands(s, a)
    \/ \E setting \in BOOLEAN : Restart(setting)
    \/ \E machine \in Files : Restore(machine)

Spec == Init /\ [][Next]_vars

-----------------------------------------------------------------------------
(* What is promised.                                                        *)

\* A key that names a vault is opened by the data key of that vault, and what
\* is held in memory for an account is the data key of its vault: whatever was
\* deleted, made again, handed over, cut short or restored in between.
KeysOpenInTheirVault ==
    /\ \A s \in Systems : db.key[s] # None /\ db.key[s].owner # None => db.key[s].under = db.vault[db.key[s].owner]
    /\ \A a \in Accounts : held[a] # None => held[a] = db.vault[a]
=============================================================================
