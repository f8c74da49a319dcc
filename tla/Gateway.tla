------------------------------ MODULE Gateway ------------------------------
(***************************************************************************)
(* The model gateway (apps/server/src/gateway/llm.ts) with what decides    *)
(* whether a call may pass: the API keys (auth/api-keys.ts) and the vaults *)
(* that seal the customers' model keys (gateway/provider-keys.ts).         *)
(*                                                                         *)
(* A request is read, waits for its key to be hashed, is sent to the       *)
(* provider, and is written on the chain: between any two of these the     *)
(* process does other work.  Clocks, passphrases and failure counts appear *)
(* by what they allow: a window begins or ends, a secret is right or       *)
(* wrong, a client is or is not locked out.                                *)
(***************************************************************************)
EXTENDS Naturals, FiniteSets

CONSTANTS
    Keys,           \* API keys that may ever be issued
    SystemOf,       \* the system each of them is for
    Accounts,       \* whose systems and vaults there are: organizations and Operator
    Operator,
    Calls,          \* requests, of agents that hold a key
    Server,         \* the server's own sealing key
    None,           \* no model key is set
    VaultEnabled,   \* SIGILLO_KEY_VAULT
    OpenToAll,      \* SIGILLO_LLM_GATEWAY = all
    Limit,          \* organizationMonthlyReceipts
    MaxEvents       \* bound: what people, clocks and crashes do

Served == {SystemOf[k] : k \in Keys}

GatewayConstants ==
    /\ SystemOf \in [Keys -> Served]
    /\ Operator \in Accounts
    /\ Server \notin Accounts /\ None \notin Accounts \cup {Server}
    /\ VaultEnabled \in BOOLEAN /\ OpenToAll \in BOOLEAN
    /\ Limit \in Nat /\ MaxEvents \in Nat

VARIABLES
    key,        \* api_keys: not issued, live or revoked
    archived,   \* systems with an archived_at
    verified,   \* ApiKeyStore.verified, in memory
    owner,      \* whose each system is
    vaults,     \* accounts with a vault
    sealed,     \* accounts inside their sealed hours
    held,       \* Vaults.open: data keys in memory, and whether their time is up
    modelKey,   \* what each system's model key is sealed under
    call,       \* where each request is
    receipts,   \* on the chain: <<call, "call">> and <<call, "tool">>
    unwritten,  \* calls whose receipt was refused by the store, which is logged
    events

keyVars == <<key, archived, verified>>
vaultVars == <<vaults, sealed, held, modelKey>>
chainVars == <<receipts, unwritten>>
vars == <<keyVars, owner, vaultVars, call, chainVars, events>>

Kinds == {"plain", "stream", "models", "lock", "unlock"}
Waiting == {"hashing", "known", "asked", "reading", "passing", "recording", "tools"}
Over == {"refused", "answered", "ended", "broken", "cut"}

NewCall == [at |-> "idle", key |-> None, how |-> "plain", right |-> FALSE,
            live |-> FALSE, whole |-> FALSE, tools |-> FALSE]

TypeOK ==
    /\ key \in [Keys -> {"none", "live", "revoked"}]
    /\ archived \subseteq Served
    /\ verified \subseteq {k \in Keys : key[k] # "none"}
    /\ owner \in [Served -> Accounts]
    /\ vaults \subseteq Accounts /\ sealed \subseteq vaults
    /\ held \in [Accounts -> {"none", "open", "expired"}]
    /\ \A a \in Accounts : held[a] # "none" => a \in vaults
    /\ modelKey \in [Served -> vaults \cup {Server, None}]
    /\ call \in [Calls -> [at : {"idle"} \cup Waiting \cup Over, key : Keys \cup {None},
                           how : Kinds, right : BOOLEAN, live : BOOLEAN,
                           whole : BOOLEAN, tools : BOOLEAN]]
    /\ receipts \subseteq Calls \X {"call", "tool"}
    /\ unwritten \subseteq Calls
    /\ events \in 0..MaxEvents

(* A server that has been running before: some keys issued, some vaults    *)
(* made, model keys saved with a vault or before there was one.            *)
Init ==
    /\ key \in [Keys -> {"none", "live"}]
    /\ archived = {} /\ verified = {}
    /\ owner \in [Served -> Accounts]
    /\ vaults \in SUBSET Accounts /\ sealed = {}
    /\ held = [a \in Accounts |-> "none"]
    /\ modelKey \in [Served -> {Server, None} \cup vaults]
    /\ call = [c \in Calls |-> NewCall]
    /\ receipts = {} /\ unwritten = {} /\ events = 0

Event ==
    /\ events < MaxEvents
    /\ events' = events + 1

(***************************************************************************)
(* ApiKeyStore.verify: the row is read at once; only then, and only for a  *)
(* token not seen before, its secret is hashed, on another thread.         *)
(***************************************************************************)
KeyWorks(k) == key[k] = "live" /\ SystemOf[k] \notin archived

FaultCacheFirst(k, right, hashAllowed) ==
    IF right /\ k \in verified THEN "known"
    ELSE IF KeyWorks(k) /\ hashAllowed THEN "hashing" ELSE "refused"

(* Where verify leaves a token: `hashAllowed` is false for a client that   *)
(* the throttle has locked out.                                            *)
Verdict(k, right, hashAllowed) ==
    IF ~KeyWorks(k) THEN "refused"
    ELSE IF right /\ k \in verified THEN "known"
    ELSE IF hashAllowed THEN "hashing" ELSE "refused"

Present(c) ==
    /\ call[c].at = "idle"
    /\ \E k \in {k \in Keys : key[k] # "none"}, how \in Kinds, right, hashAllowed \in BOOLEAN :
         LET verdict == Verdict(k, right, hashAllowed)
         IN  call' = [call EXCEPT ![c] =
                 IF verdict = "refused" THEN [NewCall EXCEPT !.at = verdict]
                 ELSE [NewCall EXCEPT !.at = verdict, !.key = k, !.how = how,
                                      !.right = right, !.live = KeyWorks(k)]]
    /\ UNCHANGED <<keyVars, owner, vaultVars, chainVars, events>>

(* The next step of a request; one that is over forgets what it held.      *)
Goes(c, to) == call' = [call EXCEPT ![c].at = to, ![c].key = IF to \in Over THEN None ELSE @]

(* The hash is compared, and remembered, for the row read before it.       *)
Hashed(c) ==
    /\ call[c].at = "hashing"
    /\ IF call[c].right
       THEN Goes(c, "known") /\ verified' = verified \cup {call[c].key}
       ELSE Goes(c, "refused") /\ UNCHANGED verified
    /\ UNCHANGED <<key, archived, owner, vaultVars, chainVars, events>>

Opens(a) == held[a] = "open" /\ a \notin sealed

Looked(a) == IF Opens(a) THEN held ELSE [held EXCEPT ![a] = "none"]

Shut(a) == held' = [held EXCEPT ![a] = "none"]

Account(c) == owner[SystemOf[call[c].key]]
SealedUnder(c) == modelKey[SystemOf[call[c].key]]

Allowed(c) == OpenToAll \/ Account(c) = Operator

(* keys.get gives the model key in the clear.                              *)
HasModelKey(c) ==
    /\ SealedUnder(c) # None
    /\ SealedUnder(c) \in Accounts => VaultEnabled

VaultShut(c) == SealedUnder(c) \in Accounts /\ ~Opens(SealedUnder(c))

Recorded(c) == call[c].how \in {"plain", "stream"}

OverQuota(c) == Account(c) # Operator /\ Cardinality(receipts) >= Limit

IsModelCall(c) == call[c].at = "known" /\ call[c].how \in {"plain", "stream", "models"}

(* handle, up to the first await after the key: 403, 409, 423, 429, or the *)
(* request goes to the provider.                                           *)
Serve(c) ==
    /\ IsModelCall(c)
    /\ IF Allowed(c) /\ HasModelKey(c) /\ ~VaultShut(c) /\ ~(Recorded(c) /\ OverQuota(c))
       THEN Goes(c, "asked")
       ELSE Goes(c, "refused")
    /\ held' = IF Allowed(c) /\ HasModelKey(c) /\ VaultShut(c) THEN Looked(SealedUnder(c)) ELSE held
    /\ UNCHANGED <<keyVars, owner, vaults, sealed, modelKey, chainVars, events>>

(***************************************************************************)
(* The provider, and what is written of its answer.                        *)
(***************************************************************************)

FaultNoAnswerNoReceipt(c) == "ended"

(* The fetch throws: the provider is away, or the agent went away.  The    *)
(* call may have reached the provider, so it is recorded as unknown.       *)
UnknownOutcome(c) == IF Recorded(c) THEN "recording" ELSE "ended"

NoAnswer(c) ==
    /\ call[c].at = "asked"
    /\ Goes(c, UnknownOutcome(c))
    /\ UNCHANGED <<keyVars, owner, vaultVars, chainVars, events>>

(* The headers arrive: a stream is passed on from here on.                 *)
AnswerBegins(c) ==
    /\ call[c].at = "asked"
    /\ Goes(c, IF call[c].how = "stream" THEN "passing" ELSE "reading")
    /\ UNCHANGED <<keyVars, owner, vaultVars, chainVars, events>>

(* The rest of a plain answer breaks off: upstream.text() throws, past the *)
(* handler that records an unknown outcome, and the agent gets a 500.      *)
BodyBreaks(c) ==
    /\ call[c].at = "reading"
    /\ Goes(c, "broken")
    /\ UNCHANGED <<keyVars, owner, vaultVars, chainVars, events>>

FaultAnswerFirst(c) == "answered"

AfterBody(c) == IF Recorded(c) THEN "recording" ELSE "answered"

BodyArrives(c) ==
    /\ call[c].at = "reading"
    /\ \E tools \in BOOLEAN :
         call' = [call EXCEPT ![c].at = AfterBody(c), ![c].whole = TRUE, ![c].tools = tools]
    /\ UNCHANGED <<keyVars, owner, vaultVars, chainVars, events>>

(* A stream ends or breaks off: what was passed on is recorded either way. *)
StreamEnds(c) ==
    /\ call[c].at = "passing"
    /\ \E whole, tools \in BOOLEAN :
         /\ tools => whole
         /\ call' = [call EXCEPT ![c].at = "recording", ![c].whole = whole, ![c].tools = tools]
    /\ UNCHANGED <<keyVars, owner, vaultVars, chainVars, events>>

(* A plain answer is handed back after its receipts; a streamed one is out *)
(* already, and a call of unknown outcome ends in a 502.                   *)
AfterReceipts(c) == IF call[c].how = "plain" /\ call[c].whole THEN "answered" ELSE "ended"

Record(c) ==
    /\ call[c].at = "recording"
    /\ receipts' = receipts \cup {<<c, "call">>}
    /\ Goes(c, IF call[c].tools THEN "tools" ELSE AfterReceipts(c))
    /\ UNCHANGED <<keyVars, owner, vaultVars, unwritten, events>>

RecordTool(c) ==
    /\ call[c].at = "tools"
    /\ receipts' = receipts \cup {<<c, "tool">>}
    /\ Goes(c, AfterReceipts(c))
    /\ UNCHANGED <<keyVars, owner, vaultVars, unwritten, events>>

(* The store refuses the receipt, the signer being away: a 503 instead of  *)
(* a plain answer, a line in the log for the others.                       *)
RecordFails(c) ==
    /\ call[c].at \in {"recording", "tools"}
    /\ Event
    /\ Goes(c, "ended")
    /\ unwritten' = unwritten \cup {c}
    /\ UNCHANGED <<keyVars, owner, vaultVars, receipts>>

(***************************************************************************)
(* Vault requests: of an agent through POST /vault/lock and /vault/unlock, *)
(* of the account's people through the console.                            *)
(***************************************************************************)
LockedByAgent(c) ==
    /\ call[c].at = "known" /\ call[c].how = "lock"
    /\ IF VaultEnabled /\ Allowed(c)
       THEN Goes(c, "ended") /\ Shut(Account(c))
       ELSE Goes(c, "refused") /\ UNCHANGED held
    /\ UNCHANGED <<keyVars, owner, vaults, sealed, modelKey, chainVars, events>>

MayUnlock(a) == VaultEnabled /\ a \in vaults /\ a \notin sealed

(* The secret is wrong, or too many were, whenever it is refused for none  *)
(* of the other reasons.                                                   *)
UnlockedByAgent(c) ==
    /\ call[c].at = "known" /\ call[c].how = "unlock"
    /\ \/ /\ Allowed(c) /\ MayUnlock(Account(c))
          /\ Goes(c, "ended")
          /\ held' = [held EXCEPT ![Account(c)] = "open"]
       \/ Goes(c, "refused") /\ UNCHANGED held
    /\ UNCHANGED <<keyVars, owner, vaults, sealed, modelKey, chainVars, events>>

Unlock(a) ==
    /\ MayUnlock(a) /\ Event
    /\ held' = [held EXCEPT ![a] = "open"]
    /\ UNCHANGED <<keyVars, owner, vaults, sealed, modelKey, call, chainVars>>

Lock(a) ==
    /\ VaultEnabled /\ held[a] # "none" /\ Event
    /\ Shut(a)
    /\ UNCHANGED <<keyVars, owner, vaults, sealed, modelKey, call, chainVars>>

Legacy(a) == {s \in Served : owner[s] = a /\ modelKey[s] = Server}

Stopped ==
    /\ call' = [c \in Calls |-> IF call[c].at \in Waiting THEN [call[c] EXCEPT !.at = "cut"] ELSE call[c]]
    /\ verified' = {}
    /\ UNCHANGED <<key, archived, owner, sealed, chainVars>>

(* createVault: the vault, then the account's older keys one by one.       *)
CreateVault(a) ==
    /\ VaultEnabled /\ a \notin vaults /\ Event
    /\ vaults' = vaults \cup {a}
    /\ \/ /\ held' = [held EXCEPT ![a] = "open"]
          /\ modelKey' = [s \in Served |-> IF s \in Legacy(a) THEN a ELSE modelKey[s]]
          /\ UNCHANGED <<keyVars, owner, sealed, call, chainVars>>
       \/ \E done \in SUBSET Legacy(a) \ {Legacy(a)} :     \* the process ends in between
            /\ held' = [b \in Accounts |-> "none"]
            /\ modelKey' = [s \in Served |-> IF s \in done THEN a ELSE modelKey[s]]
            /\ Stopped

(* The sealed hours: set so that they are running, or cleared.             *)
SetSchedule(a) ==
    /\ VaultEnabled /\ a \in vaults /\ Event
    /\ \/ sealed' = sealed \cup {a} /\ Shut(a)
       \/ sealed' = sealed \ {a} /\ UNCHANGED held
    /\ UNCHANGED <<keyVars, owner, vaults, modelKey, call, chainVars>>

HoursPass(a) ==
    /\ a \in vaults /\ Event
    /\ sealed' = IF a \in sealed THEN sealed \ {a} ELSE sealed \cup {a}
    /\ UNCHANGED <<keyVars, owner, vaults, held, modelKey, call, chainVars>>

TimeRunsOut(a) ==
    /\ held[a] = "open" /\ Event
    /\ held' = [held EXCEPT ![a] = "expired"]
    /\ UNCHANGED <<keyVars, owner, vaults, sealed, modelKey, call, chainVars>>

(* Vaults.sweep, every thirty seconds.                                     *)
Sweep ==
    /\ held' = [a \in Accounts |-> IF Opens(a) THEN held[a] ELSE "none"]
    /\ UNCHANGED <<keyVars, owner, vaults, sealed, modelKey, call, chainVars, events>>

(* ProviderKeyStore.set, after the provider was asked about the key.       *)
SetModelKey(s) ==
    /\ OpenToAll \/ owner[s] = Operator
    /\ VaultEnabled => owner[s] \in vaults
    /\ Event
    /\ IF VaultEnabled
       THEN /\ held' = Looked(owner[s])
            /\ modelKey' = IF Opens(owner[s]) THEN [modelKey EXCEPT ![s] = owner[s]] ELSE modelKey
       ELSE modelKey' = [modelKey EXCEPT ![s] = Server] /\ UNCHANGED held
    /\ UNCHANGED <<keyVars, owner, vaults, sealed, call, chainVars>>

(***************************************************************************)
(* Keys and systems, from the console or the command line.                 *)
(***************************************************************************)
KeysOf(s) == {k \in Keys : SystemOf[k] = s}

(* A new key: it replaces every live one, unless it is added to them.      *)
NewKey(s, add) ==
    /\ Event
    /\ \E new \in {k \in KeysOf(s) : key[k] = "none"} :
         key' = [k \in Keys |-> IF k = new THEN "live"
                                ELSE IF ~add /\ k \in KeysOf(s) /\ key[k] = "live" THEN "revoked"
                                ELSE key[k]]
    /\ UNCHANGED <<archived, verified, owner, vaultVars, call, chainVars>>

Revoke(k) ==
    /\ key[k] = "live" /\ Event
    /\ key' = [key EXCEPT ![k] = "revoked"]
    /\ UNCHANGED <<archived, verified, owner, vaultVars, call, chainVars>>

Archive(s) ==
    /\ Event
    /\ archived' = IF s \in archived THEN archived \ {s} ELSE archived \cup {s}
    /\ UNCHANGED <<key, verified, owner, vaultVars, call, chainVars>>

(* A system is assigned or handed over (Tenancy): its keys, and the vault  *)
(* its model key is sealed under, stay what they were.                     *)
Move(s, a) ==
    /\ owner[s] # a /\ Event
    /\ owner' = [owner EXCEPT ![s] = a]
    /\ UNCHANGED <<keyVars, vaultVars, call, chainVars>>

(* The process ends: the cache, the open vaults and the requests go.       *)
Stop ==
    /\ Event
    /\ held' = [a \in Accounts |-> "none"]
    /\ Stopped
    /\ UNCHANGED <<vaults, modelKey>>

(***************************************************************************)
(* The specification.  The sweep has a timer of its own (cli.ts).          *)
(***************************************************************************)
Request(c) ==
    \/ Present(c) \/ Hashed(c) \/ Serve(c)
    \/ NoAnswer(c) \/ AnswerBegins(c) \/ BodyBreaks(c) \/ BodyArrives(c) \/ StreamEnds(c)
    \/ Record(c) \/ RecordTool(c) \/ RecordFails(c)
    \/ LockedByAgent(c) \/ UnlockedByAgent(c)

OfAccount(a) ==
    \/ Unlock(a) \/ Lock(a) \/ CreateVault(a) \/ SetSchedule(a)
    \/ HoursPass(a) \/ TimeRunsOut(a)

OfSystem(s) ==
    \/ SetModelKey(s) \/ Archive(s)
    \/ \E add \in BOOLEAN : NewKey(s, add)
    \/ \E a \in Accounts : Move(s, a)

Next ==
    \/ \E c \in Calls : Request(c)
    \/ \E a \in Accounts : OfAccount(a)
    \/ \E s \in Served : OfSystem(s)
    \/ \E k \in Keys : Revoke(k)
    \/ Sweep \/ Stop

Spec == Init /\ [][Next]_vars

(***************************************************************************)
(* Properties.                                                             *)
(***************************************************************************)

(* A request that arrives after its key was revoked, or its system         *)
(* archived, is never let in, whatever the server remembers of the key.    *)
RevokedStaysOut ==
    \A c \in Calls : call[c].at \notin {"idle", "refused"} => call[c].live

(* An agent that holds a plain answer finds on the chain the call, and the *)
(* tools the model asked for in it (llm.ts: no receipt, no answer).        *)
AnswerAfterReceipt ==
    \A c \in Calls : call[c].at = "answered" /\ call[c].how = "plain" =>
        /\ <<c, "call">> \in receipts
        /\ call[c].tools => <<c, "tool">> \in receipts

(* A recorded call that went to the provider and is over left a receipt,   *)
(* unless the store refused it, the process ended, or a plain answer broke *)
(* off on its way.                                                         *)
Accounted(c) == <<c, "call">> \in receipts \/ c \in unwritten

EveryCallAccountedFor ==
    \A c \in Calls : call[c].at \in {"answered", "ended"} /\ Recorded(c) => Accounted(c)

(* What llm.ts says of every call: one that reached the model becomes a    *)
(* receipt.  An answer that breaks off half-way leaves none.               *)
EveryCallBecomesAReceipt ==
    \A c \in Calls : call[c].at \in {"answered", "ended", "broken"} /\ Recorded(c) => Accounted(c)
=============================================================================
