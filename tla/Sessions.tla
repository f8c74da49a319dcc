------------------------------ MODULE Sessions ------------------------------
(***************************************************************************)
(* Who is signed in to the web view (sessions.ts, viewerOf in ui.ts and the *)
(* way in of accounts.ts).                                                  *)
(*                                                                          *)
(* Nothing of a session is stored. A cookie names a viewer and its own end  *)
(* under a secret the process draws when it starts; signing out moves the   *)
(* viewer's epoch on, which the cookie's seal covers; and whether the       *)
(* viewer is still one is read from the database at every request. So what  *)
(* ends a session is spread over three places, two of which a restart       *)
(* forgets.                                                                 *)
(*                                                                          *)
(* Copies of a cookie stay in browsers for as long as anybody likes. Whom   *)
(* Firebase or Google vouches for is external: here, anybody.               *)
(***************************************************************************)
EXTENDS Integers, FiniteSets

CONSTANTS
    Users, Orgs,
    Operator, None,
    SessionLength, TicketLength,    \* how long a cookie and a ticket are good for
    MaxTime, MaxStarts,             \* bounds: of the clock, of the process's starts
    MaxCookies, MaxTickets          \* bounds: how many are issued

SessionsConstants ==
    /\ None \notin Orgs /\ Operator \notin Users
    /\ {SessionLength, TicketLength, MaxTime, MaxStarts, MaxCookies, MaxTickets} \subseteq Nat

VARIABLES
    now,
    secret,     \* the process's, one per start
    epochs,     \* how often each viewer signed out of this process
    cookies,    \* sessions issued, copies of which may come back
    tickets,    \* who signed in and has no organization yet, sealed
    org,        \* per organization: "none" (no row), "waiting" or "approved"
    member,     \* per person, the organization of their row, or None
    signedOut   \* history: the cookies whose viewer signed out

processVars == <<secret, epochs>>
dbVars == <<org, member>>
vars == <<now, processVars, cookies, tickets, dbVars, signedOut>>

Viewers == {Operator} \cup [organization : Orgs, user : Users]

Init ==
    /\ now = 0
    /\ secret = 1
    /\ epochs = [v \in Viewers |-> 0]
    /\ cookies = {} /\ tickets = {} /\ signedOut = {}
    /\ org = [o \in Orgs |-> "none"]
    /\ member = [u \in Users |-> None]

-----------------------------------------------------------------------------
(* Cookies.                                                                 *)

Cookie(v) ==
    [viewer |-> v, expiry |-> now + SessionLength, secret |-> secret, epoch |-> epochs[v]]

FaultSecretKept(cookie) == TRUE
SealedHere(cookie) == cookie.secret = secret

\* read: whole, in time, and sealed with what the process would seal it with.
Reads(cookie) ==
    /\ now <= cookie.expiry
    /\ SealedHere(cookie)
    /\ cookie.epoch = epochs[cookie.viewer]

\* viewerOf: a customer is in while the organization is approved and theirs.
Belongs(v) ==
    v # Operator => org[v.organization] = "approved" /\ member[v.user] = v.organization

Opens(cookie) == Reads(cookie) /\ Belongs(cookie.viewer)

Issue(v) ==
    /\ cookies' = cookies \cup {Cookie(v)}
    /\ Cardinality(cookies') <= MaxCookies
    /\ UNCHANGED <<now, processVars, tickets, dbVars, signedOut>>

-----------------------------------------------------------------------------
(* The way in.                                                              *)

OperatorSignsIn == Issue(Operator)

\* signedIn, of a person whose organization is approved; of one whose is not,
\* nothing is issued.
SignsIn(u) ==
    /\ member[u] \in Orgs /\ org[member[u]] = "approved"
    /\ Issue([organization |-> member[u], user |-> u])

\* signedIn, the first time: a ticket for the company form.
FirstTime(u) ==
    /\ member[u] = None
    /\ tickets' = tickets \cup {[user |-> u, expiry |-> now + TicketLength, secret |-> secret]}
    /\ Cardinality(tickets') <= MaxTickets
    /\ UNCHANGED <<now, processVars, cookies, dbVars, signedOut>>

\* POST /ui/registrazione: a ticket in time, of this process, is not used up;
\* that the person has no row is what registers them once.
Registers(ticket) ==
    /\ now <= ticket.expiry /\ SealedHere(ticket)
    /\ member[ticket.user] = None
    /\ \E o \in Orgs :
        /\ org[o] = "none"
        /\ org' = [org EXCEPT ![o] = "waiting"]
        /\ member' = [member EXCEPT ![ticket.user] = o]
    /\ UNCHANGED <<now, processVars, cookies, tickets, signedOut>>

\* POST /ui/logout, with any copy of a cookie: every session of its viewer ends
\* (endAll).  One that opens nothing ends nothing.
SignsOut(cookie) ==
    /\ Opens(cookie)
    /\ epochs' = [epochs EXCEPT ![cookie.viewer] = @ + 1]
    /\ signedOut' = signedOut \cup {c \in cookies : c.viewer = cookie.viewer}
    /\ UNCHANGED <<now, secret, cookies, tickets, dbVars>>

-----------------------------------------------------------------------------
(* The operator's decisions (Tenancy has them in full), the server started  *)
(* again, and time.                                                         *)

Approve(o) ==
    /\ org[o] # "none"
    /\ org' = [org EXCEPT ![o] = "approved"]
    /\ UNCHANGED <<now, processVars, cookies, tickets, member, signedOut>>

\* rejectOrganization, deleteOrganization, eraseOrganization.
Remove(o) ==
    /\ org' = [org EXCEPT ![o] = "none"]
    /\ member' = [u \in Users |-> IF member[u] = o THEN None ELSE member[u]]
    /\ UNCHANGED <<now, processVars, cookies, tickets, signedOut>>

Restart ==
    /\ secret < MaxStarts
    /\ secret' = secret + 1
    /\ epochs' = [v \in Viewers |-> 0]
    /\ UNCHANGED <<now, cookies, tickets, dbVars, signedOut>>

Tick ==
    /\ now < MaxTime
    /\ now' = now + 1
    /\ UNCHANGED <<processVars, cookies, tickets, dbVars, signedOut>>

Next ==
    \/ OperatorSignsIn
    \/ \E u \in Users : SignsIn(u) \/ FirstTime(u)
    \/ \E ticket \in tickets : Registers(ticket)
    \/ \E cookie \in cookies : SignsOut(cookie)
    \/ \E o \in Orgs : Approve(o) \/ Remove(o)
    \/ Restart \/ Tick

Spec == Init /\ [][Next]_vars

-----------------------------------------------------------------------------
(* What is promised.                                                        *)

\* A cookie opens pages exactly until its own end, the end of its process, the
\* first sign-out of its viewer, by whatever copy, or for as long as its member
\* is not one; nobody else's sign-out ends it, and no restart brings back one
\* that was signed out (sessions.ts endAll, mac and the class's comment).
SessionsExact ==
    \A c \in cookies :
        Opens(c) <=>
            /\ now <= c.expiry
            /\ c.secret = secret
            /\ c \notin signedOut
            /\ Belongs(c.viewer)
=============================================================================
