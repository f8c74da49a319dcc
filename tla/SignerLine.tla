----------------------------- MODULE SignerLine -----------------------------
(* The socket to the signer (Conversation), with names of its own, to stand *)
(* beside other modules.                                                    *)
EXTENDS Integers

CONSTANTS Calls, SignerKeys, Foreign, Down, Nothing, MaxConnections

VARIABLES
    signer, connections, socket, opening, pending, lastId, identity, closer, calls

lineVars == <<signer, connections, socket, opening, pending, lastId, identity, closer, calls>>

Line == INSTANCE Conversation WITH Keys <- SignerKeys, None <- Nothing

ASSUME SignerLineConstants == Line!ConversationConstants

\* The properties, by the names they have in their module.
RepliesAreTheirs == Line!RepliesAreTheirs
EveryCallSettles == Line!EveryCallSettles
=============================================================================
