------------------------------ MODULE EmojiPacks ------------------------------
(***************************************************************************)
(* Packs of emoji: their slugs and items (server/api/emoji_handlers.py),   *)
(* and moderation by people, over HTTP and in the dialog of the desktop.   *)
(* A handler looks a slug up in one statement and writes in a later one.   *)
(***************************************************************************)
EXTENDS Naturals, Sequences, SequencesExt

CONSTANTS Makers, Slugs, Shortcodes,
          Requests,    \* requests that may be served at once (bound)
          MaxPacks     \* rows of emoji_packs (bound)

ASSUME EmojiAssumption == MaxPacks \in Nat

VARIABLES
    packs,       \* rows of emoji_packs: [slug, owner, public, status]
    items,       \* rows of emoji_pack_items: [pack, code, by]; by is who sent it (ghost)
    asked,       \* the request of each slot: [at, by, slug, pack, what]; what is whether
                 \* the pack is public, the shortcode or the status
    created,     \* the answers 201: [slug, by] (ghost)
    pending,     \* the dialog's list of packs, its _pending_items: [pack, slug, owner]
    picked       \* its _selected_item, 0 for none

emojiVars == <<packs, items, asked, created, pending, picked>>

Statuses == {"pending", "approved", "rejected", "dmca_takedown"}
NoCall == [at |-> "none", by |-> 0, slug |-> 0, pack |-> 0, what |-> 0]
TakeUp(r, at, by, slug, pack, what) ==
    asked' = [asked EXCEPT ![r] = [at |-> at, by |-> by, slug |-> slug, pack |-> pack, what |-> what]]
Served(r) == asked' = [asked EXCEPT ![r] = NoCall]

\* get_pack_by_slug: the id of the pack, 0 for none.
PackBySlug(slug) == SelectInSeq(packs, LAMBDA p : p.slug = slug)

-----------------------------------------------------------------------------
(* Making packs.                                                           *)

\* handle_create_pack up to its lookup: 409 if the slug is taken.
AskForSlug(r, by, slug) ==
    /\ asked[r] = NoCall
    /\ PackBySlug(slug) = 0
    /\ \E public \in BOOLEAN : TakeUp(r, "insert pack", by, slug, 0, public)
    /\ UNCHANGED <<packs, items, created, pending, picked>>

\* Mutant of InsertPack: the table takes a second row of the slug.
InsertPackAgain(owner, slug, public) ==
    packs' = Append(packs, [slug |-> slug, owner |-> owner, public |-> public, status |-> "pending"])

\* insert_pack, refused by UNIQUE (slug).
InsertPack(owner, slug, public) ==
    /\ PackBySlug(slug) = 0
    /\ packs' = Append(packs, [slug |-> slug, owner |-> owner, public |-> public, status |-> "pending"])

CreatePack(r) ==
    /\ asked[r].at = "insert pack" /\ Len(packs) < MaxPacks
    /\ InsertPack(asked[r].by, asked[r].slug, asked[r].what)
    /\ created' = created \cup {[slug |-> asked[r].slug, by |-> asked[r].by]}
    /\ Served(r)
    /\ UNCHANGED <<items, pending, picked>>

\* handle_add_item up to its comparison of the owner.
AskForItem(r, by, slug, code) ==
    /\ asked[r] = NoCall
    /\ PackBySlug(slug) # 0 /\ packs[PackBySlug(slug)].owner = by
    /\ TakeUp(r, "insert item", by, slug, PackBySlug(slug), code)
    /\ UNCHANGED <<packs, items, created, pending, picked>>

\* insert_item, refused by UNIQUE (pack_id, shortcode).
AddItem(r) ==
    /\ asked[r].at = "insert item"
    /\ \A i \in items : <<i.pack, i.code>> # <<asked[r].pack, asked[r].what>>
    /\ items' = items \cup {[pack |-> asked[r].pack, code |-> asked[r].what, by |-> asked[r].by]}
    /\ Served(r)
    /\ UNCHANGED <<packs, created, pending, picked>>

\* A statement that is refused or fails: 500.
StatementFails(r) ==
    /\ asked[r] # NoCall
    /\ Served(r)
    /\ UNCHANGED <<packs, items, created, pending, picked>>

-----------------------------------------------------------------------------
(* Moderation by people.                                                   *)

\* handle_moderation (by slug) up to its lookup.
AskForStatus(r, slug, status) ==
    /\ asked[r] = NoCall
    /\ PackBySlug(slug) # 0
    /\ TakeUp(r, "moderate", 0, slug, PackBySlug(slug), status)
    /\ UNCHANGED <<packs, items, created, pending, picked>>

\* update_moderation_status, of a pack by its id.
UpdateModerationStatus(id, status) ==
    packs' = [packs EXCEPT ![id] = [slug |-> @.slug, owner |-> @.owner, public |-> @.public, status |-> status]]

SetStatus(r) ==
    /\ asked[r].at = "moderate"
    /\ UpdateModerationStatus(asked[r].pack, asked[r].what)
    /\ Served(r)
    /\ UNCHANGED <<items, created, pending, picked>>

\* _handle_decision: approve, reject or dmca of an id, whatever its status is.
Decide(id, status) ==
    /\ UpdateModerationStatus(id, status)
    /\ UNCHANGED <<items, asked, created, pending, picked>>

\* list_pending: the ids of the packs that wait, oldest first.
ListPending == SelectSeq([i \in DOMAIN packs |-> i], LAMBDA i : packs[i].status = "pending")

\* handle_queue: what it answers of each.
HandleQueue == [n \in DOMAIN ListPending |->
    LET id == ListPending[n] IN [pack |-> id, slug |-> packs[id].slug, owner |-> packs[id].owner]]

\* The dialog's fetch is answered: repopulate() shows it, with no row selected.
Repopulate ==
    /\ pending' = HandleQueue
    /\ picked' = 0
    /\ UNCHANGED <<packs, items, asked, created>>

\* _on_row_changed.  What _emit_decision emits for the row is only shown in the
\* status bar of the main window.
PickRow ==
    /\ \E row \in 0..Len(pending) : picked' = IF row = 0 THEN 0 ELSE pending[row].pack
    /\ UNCHANGED <<packs, items, asked, created, pending>>

-----------------------------------------------------------------------------

EmojiInit ==
    /\ packs = <<>> /\ items = {} /\ created = {}
    /\ asked = [r \in Requests |-> NoCall]
    /\ pending = <<>> /\ picked = 0

EmojiNext ==
    \/ \E r \in Requests :
         \/ \E by \in Makers, slug \in Slugs : AskForSlug(r, by, slug) \/ \E code \in Shortcodes : AskForItem(r, by, slug, code)
         \/ \E slug \in Slugs, status \in Statuses : AskForStatus(r, slug, status)
         \/ CreatePack(r) \/ AddItem(r) \/ SetStatus(r) \/ StatementFails(r)
    \/ \E id \in DOMAIN packs, status \in Statuses \ {"pending"} : Decide(id, status)
    \/ Repopulate \/ PickRow

EmojiSpec == EmojiInit /\ [][EmojiNext]_emojiVars

-----------------------------------------------------------------------------
(* Properties.                                                             *)

\* Rows of emoji_packs and of emoji_pack_items.
PackRows == [slug : Slugs, owner : Makers, public : BOOLEAN, status : Statuses]
ItemRows == [pack : 1..MaxPacks, code : Shortcodes, by : Makers]

(* Type invariant.                                                         *)
EmojiTypeOK ==
    /\ packs \in Seq(PackRows) /\ items \subseteq ItemRows
    /\ created \subseteq [slug : Slugs, by : Makers]
    /\ pending \in Seq([pack : DOMAIN packs, slug : Slugs, owner : Makers]) /\ picked \in {0} \cup DOMAIN packs

(* Whoever was told that a slug is theirs (201) has it for good: the pack   *)
(* under it is theirs and holds nothing that somebody else has sent, also  *)
(* when several asked for the slug at once (handle_create_pack,            *)
(* handle_add_item).                                                       *)
SlugKeepsItsMaker ==
    /\ \A c \in created : packs[PackBySlug(c.slug)].owner = c.by
    /\ \A i \in items, c \in created : c.slug = packs[i.pack].slug => c.by = i.by

=============================================================================
