------------------------------ MODULE MC_Services ------------------------------
(***************************************************************************)
(* Parts of the server that keep no state in common, checked in one run:   *)
(* the first state chooses the part that moves, so the states are those of *)
(* the parts side by side, not their product.                              *)
(***************************************************************************)
EXTENDS SfuRooms, BotService, Escalations, BotDirectory, EmojiPacks, EmojiFilter,
        DeviceKeys, SenderKeys, Webmail, FaqBot, ServerLife

VARIABLE part

parts == <<part, vars, botVars, ticketVars, directoryVars, emojiVars, filterVars,
           deviceVars, senderKeyVars, webmailVars, faqVars, serverVars>>

Others(p) ==
    /\ IF p = "sfu" THEN TRUE ELSE UNCHANGED vars
    /\ IF p = "bot" THEN TRUE ELSE UNCHANGED botVars
    /\ IF p = "tickets" THEN TRUE ELSE UNCHANGED ticketVars
    /\ IF p = "directory" THEN TRUE ELSE UNCHANGED directoryVars
    /\ IF p = "emoji" THEN TRUE ELSE UNCHANGED emojiVars
    /\ IF p = "filter" THEN TRUE ELSE UNCHANGED filterVars
    /\ IF p = "devices" THEN TRUE ELSE UNCHANGED deviceVars
    /\ IF p = "sender keys" THEN TRUE ELSE UNCHANGED senderKeyVars
    /\ IF p = "webmail" THEN TRUE ELSE UNCHANGED webmailVars
    /\ IF p = "faq" THEN TRUE ELSE UNCHANGED faqVars
    /\ IF p = "life" THEN TRUE ELSE UNCHANGED serverVars

ServicesInit ==
    /\ part \in {"sfu", "bot", "tickets", "directory", "emoji", "filter",
                "devices", "sender keys", "webmail", "faq", "life"}
    /\ Init /\ BotInit /\ TicketInit /\ DirectoryInit /\ EmojiInit /\ FilterInit
    /\ DevicesInit /\ SenderKeysInit /\ WebmailInit /\ FaqInit /\ ServerInit
    /\ part = "filter" \/ known = <<>>
    /\ fit[101][2] = 1 /\ \A e \in Entries : fit[102][e] = 2 - fit[101][e]
    /\ \/ part = "faq"
       \/ fit[101][1] = 0 /\ kind = "vectors" /\ talk["ann"] = <<>>
    /\ fit[101][1] < 2 /\ (kind = "vectors" \/ talk["ann"] = <<>>)
    /\ ~botRow
    /\ setting.complete /\ setting.db = setting.bot
    /\ \/ part = "life"
       \/ filed = {} /\ setting.db /\ setting.model

ServicesNext ==
    /\ UNCHANGED part
    /\ \/ part = "sfu" /\ Next
       \/ part = "bot" /\ BotNext
       \/ part = "tickets" /\ TicketNext
       \/ part = "directory" /\ DirectoryNext
       \/ part = "emoji" /\ EmojiNext
       \/ part = "filter" /\ FilterNext
       \/ part = "devices" /\ DevicesNext
       \/ part = "sender keys" /\ SenderKeysNext
       \/ part = "webmail" /\ WebmailNext
       \/ part = "faq" /\ FaqNext
       \/ part = "life" /\ ServerNext
    /\ Others(part)

\* Each part goes on as its own module says.
ServicesSpec ==
    /\ ServicesInit /\ [][ServicesNext]_parts
    /\ SfuFairness /\ ServerFairness

\* Of several who ask for a name at once one gets it, for good: bots and their
\* tokens (bot_directory_handlers.py), packs and their items (emoji_handlers.py).
NamesAreTheirMakers == TokensAreTheOwners /\ SlugKeepsItsMaker

\* The removal of a lost peer ends, and whoever waits for a connection of the pool
\* is served: RemovalEnds and WaitersAreServed.  Clients are interchangeable, and
\* so are visitors: it is enough to follow one of them.
FirstRemovalEnds == RemovalOf(CHOOSE c \in Clients : TRUE)
FirstIsServed == IsServed(CHOOSE v \in Visitors : TRUE)

=============================================================================
