------------------------------ MODULE BotDirectory ------------------------------
(***************************************************************************)
(* The public directory of bots: names that are unique, and tokens that    *)
(* speak for a bot.  A handler looks a name or a token up in one statement *)
(* and writes in a later one.                                              *)
(***************************************************************************)
EXTENDS Naturals, Sequences, SequencesExt

CONSTANTS Owners, Names,
          Calls,        \* requests that may be served at once (bound)
          MaxBots,      \* rows of bots (bound)
          MaxTokens     \* rows of bot_tokens (bound)

ASSUME DirectoryAssumption == {MaxBots, MaxTokens} \subseteq Nat

VARIABLES
    bots,       \* rows of bots: [name, owner]
    tokens,     \* rows of bot_tokens: [bot, to, revoked]; to has read the plaintext (ghost)
    handling    \* the request of each call: [at, by, name, id]

directoryVars == <<bots, tokens, handling>>

Nothing == [at |-> "none", by |-> 0, name |-> 0, id |-> 0]
Begin(c, at, by, name, id) == handling' = [handling EXCEPT ![c] = [at |-> at, by |-> by, name |-> name, id |-> id]]
Done(c) == handling' = [handling EXCEPT ![c] = Nothing]

\* get_bot_by_username: the id of the bot, 0 for none.
BotNamed(name) == SelectInSeq(bots, LAMBDA b : b.name = name)

\* Mutant of InsertBot: a second row of the name is not refused.
InsertBotAgain(owner, name) == bots' = Append(bots, [name |-> name, owner |-> owner])

\* insert_bot, refused by UNIQUE (username).
InsertBot(owner, name) == BotNamed(name) = 0 /\ bots' = Append(bots, [name |-> name, owner |-> owner])

\* insert_bot_token; the plaintext goes to the caller.
InsertToken(id, by) ==
    /\ Len(tokens) < MaxTokens
    /\ tokens' = Append(tokens, [bot |-> id, to |-> by, revoked |-> FALSE])

-----------------------------------------------------------------------------

\* handle_create_bot: the name is looked up, 409 if it is taken.
LookUpName(c, by, name) ==
    /\ handling[c] = Nothing
    /\ BotNamed(name) = 0 /\ Len(bots) < MaxBots
    /\ Begin(c, "insert", by, name, 0)
    /\ UNCHANGED <<bots, tokens>>

CreateBot(c) ==
    /\ handling[c].at = "insert"
    /\ \/ /\ InsertBot(handling[c].by, handling[c].name)
          /\ Begin(c, "token", handling[c].by, handling[c].name, Len(bots) + 1)
       \/ Done(c) /\ UNCHANGED bots      \* a name taken meanwhile, or an error: 500
    /\ UNCHANGED tokens

\* handle_create_token: the bot is looked up and its owner compared.
LookUpBot(c, by, name) ==
    /\ handling[c] = Nothing
    /\ BotNamed(name) # 0 /\ bots[BotNamed(name)].owner = by
    /\ Begin(c, "token", by, name, BotNamed(name))
    /\ UNCHANGED <<bots, tokens>>

\* The token is stored and shown once, or the insert fails: a bot without one.
StoreToken(c) ==
    /\ handling[c].at = "token"
    /\ InsertToken(handling[c].id, handling[c].by) \/ UNCHANGED tokens
    /\ Done(c)
    /\ UNCHANGED bots

\* handle_revoke_token: the owner of the token's bot is compared first.
LookUpToken(c, by, i) ==
    /\ handling[c] = Nothing
    /\ bots[tokens[i].bot].owner = by
    /\ Begin(c, "revoke", by, 0, i)
    /\ UNCHANGED <<bots, tokens>>

RevokeToken(c) ==
    /\ handling[c].at = "revoke"
    /\ tokens' = [tokens EXCEPT ![handling[c].id] = [bot |-> @.bot, to |-> @.to, revoked |-> TRUE]]
    /\ Done(c)
    /\ UNCHANGED bots

DirectoryInit == bots = <<>> /\ tokens = <<>> /\ handling = [c \in Calls |-> Nothing]

DirectoryNext ==
    \E c \in Calls :
        \/ \E by \in Owners, name \in Names : LookUpName(c, by, name) \/ LookUpBot(c, by, name)
        \/ \E by \in Owners, i \in DOMAIN tokens : LookUpToken(c, by, i)
        \/ CreateBot(c) \/ StoreToken(c) \/ RevokeToken(c)

DirectorySpec == DirectoryInit /\ [][DirectoryNext]_directoryVars

-----------------------------------------------------------------------------
(* Properties.                                                             *)

\* A row of bots, and one of bot_tokens, that holds the hash of what its reader has.
BotRows == [name : Names, owner : Owners]
BotTokens == [bot : 1..MaxBots, to : Owners, revoked : BOOLEAN]

(* Type invariant.                                                         *)
DirectoryTypeOK ==
    /\ bots \in Seq(BotRows) /\ tokens \in Seq(BotTokens)
    /\ \A c \in Calls : handling[c].at \in {"none", "insert", "token", "revoke"}

(* authenticate_bot_token: the bot a token speaks for.                     *)
SpeaksFor(i) == bots[tokens[i].bot]

(* A name belongs to one owner for good, and a token that is not revoked is *)
(* in the hands of the owner of the bot it speaks for, whoever asked for   *)
(* the name or a token at the same time.                                   *)
TokensAreTheOwners ==
    /\ \A i, j \in DOMAIN bots : bots[i].name = bots[j].name => i = j
    /\ \A i \in DOMAIN tokens : ~tokens[i].revoked => SpeaksFor(i).owner = tokens[i].to

=============================================================================
