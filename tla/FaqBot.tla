-------------------------------- MODULE FaqBot ---------------------------------
(***************************************************************************)
(* The customer service bot that asks the model itself (CustomerServiceBot *)
(* of app/bot): it looks for the FAQ entries that fit a question, in a     *)
(* store of keywords or of vectors, adds what is known of donations and    *)
(* the last turns of the conversation, and asks the model, again when that *)
(* fails for a moment.  Vectors come from an LRU cache behind a lock that  *)
(* is not held while one is computed: askers are threads, and another one  *)
(* adds entries meanwhile.                                                 *)
(*                                                                         *)
(* A vector is known by the text it was computed of, and `fit' says how    *)
(* well an entry answers a text: the score of the one store, the cosine of *)
(* the other.  The hits and misses of the cache are not counted.           *)
(***************************************************************************)
EXTENDS Naturals, Sequences, FiniteSets, FiniteSetsExt, SequencesExt, Ranks

CONSTANTS Askers,      \* the users, each in a thread
          Questions,   \* what they ask
          Entries,     \* FAQ entries, numbers; their texts are looked up as well
          Donations,   \* questions with a keyword of donations
          TopK,        \* rag_top_k
          MaxCache,    \* max_cache
          MaxTurns,    \* max_history_turns
          Tries,       \* max_retries of the client
          MaxAsks      \* questions asked (bound)

\* What CustomerServiceConfig, CachedEmbedder and AnthropicClient raise ValueError for else.
ValidConfig == {TopK, MaxTurns} \subseteq Nat \ {0}
ValidCache == MaxCache \in Nat \ {0}
ValidClient == Tries \in Nat

Curator == "curator"   \* the thread that adds entries

ASSUME FaqAssumption ==
    /\ ValidConfig /\ ValidCache /\ ValidClient
    /\ Entries \subseteq Nat \ {0} /\ Donations \subseteq Questions
    /\ Curator \notin Askers

VARIABLES
    kind,      \* the store: "keywords" or "vectors"
    fit,       \* how well an entry answers a text, 0: not at all
    entries,   \* _entries
    vectors,   \* _vectors: the texts they were computed of
    cache,     \* CachedEmbedder._cache, oldest first: [text, vector]
    thread,    \* the call of each asker, and the adding thread
    talk,      \* the conversation of each asker
    asks,      \* questions so far
    client     \* has AnthropicProvider made its client

faqVars == <<kind, fit, entries, vectors, cache, thread, talk, asks, client>>
askVars == <<talk, asks, client>>

Threads == Askers \cup {Curator}
Idle == [at |-> "idle", text |-> 0, vector |-> 0, given |-> <<>>, held |-> 0, turns |-> <<>>, tries |-> 0]

Goes(a, at) == thread' = [thread EXCEPT ![a].at = at]

-----------------------------------------------------------------------------
(* CachedEmbedder.embed: two regions under the lock, the backend between.  *)

Cached(text) == {i \in DOMAIN cache : cache[i].text = text}
MovedToEnd(i) == Append(RemoveAt(cache, i), cache[i])

\* The vector is there: the search goes on, or the entry is filed.
HasVector(a, v) ==
    thread' = [thread EXCEPT ![a].at = IF a = Curator THEN "filing" ELSE "ranking", ![a].vector = v]

LookUp(a) ==
    /\ thread[a].at = "lookup"
    /\ IF Cached(thread[a].text) = {}
       THEN Goes(a, "computing") /\ UNCHANGED cache
       ELSE \E i \in Cached(thread[a].text) : HasVector(a, cache[i].vector) /\ cache' = MovedToEnd(i)
    /\ UNCHANGED <<kind, fit, entries, vectors, askVars>>

OldestGone(c) == IF Len(c) > MaxCache THEN Tail(c) ELSE c

\* Mutant of Remember: the vector that is in the way goes to the caller.
RememberOldest(a) ==
    /\ thread[a].at = "computing"
    /\ LET c == Append(cache, [text |-> thread[a].text, vector |-> thread[a].text])
       IN HasVector(a, Head(c).vector) /\ cache' = OldestGone(c)
    /\ UNCHANGED <<kind, fit, entries, vectors, askVars>>

\* Another thread may have put the same text there: its vector is the one to use.
Remember(a) ==
    /\ thread[a].at = "computing"
    /\ IF Cached(thread[a].text) = {}
       THEN /\ HasVector(a, thread[a].text)
            /\ cache' = OldestGone(Append(cache, [text |-> thread[a].text, vector |-> thread[a].text]))
       ELSE \E i \in Cached(thread[a].text) : HasVector(a, cache[i].vector) /\ cache' = MovedToEnd(i)
    /\ UNCHANGED <<kind, fit, entries, vectors, askVars>>

-----------------------------------------------------------------------------
(* The stores.                                                             *)

\* add: an id that is there is refused; the vector is computed first.
AddEntry(e) ==
    /\ thread[Curator].at = "idle" /\ ~Contains(entries, e)
    /\ IF kind = "keywords"
       THEN entries' = Append(entries, e) /\ UNCHANGED thread
       ELSE thread' = [thread EXCEPT ![Curator].at = "lookup", ![Curator].text = e] /\ UNCHANGED entries
    /\ UNCHANGED <<kind, fit, vectors, cache, askVars>>

\* The entry and its vector are appended one after the other.
FileEntry ==
    /\ thread[Curator].at = "filing"
    /\ entries' = Append(entries, thread[Curator].text)
    /\ Goes(Curator, "filing vector")
    /\ UNCHANGED <<kind, fit, vectors, cache, askVars>>

FileVector ==
    /\ thread[Curator].at = "filing vector"
    /\ vectors' = Append(vectors, thread[Curator].vector)
    /\ thread' = [thread EXCEPT ![Curator] = Idle]
    /\ UNCHANGED <<kind, fit, entries, cache, askVars>>

\* What a search goes over: zip() ends with the shorter list.
Held == IF kind = "keywords" \/ Len(entries) < Len(vectors) THEN Len(entries) ELSE Len(vectors)

Matches(text) == {i \in 1..Held : fit[text][entries[i]] > 0}

\* Best first, of equals the one that was added first.
Better(text, i, j) ==
    \/ fit[text][entries[i]] > fit[text][entries[j]]
    \/ fit[text][entries[i]] = fit[text][entries[j]] /\ i < j
Ranked(text) ==
    InOrder(Matches(text),
            {p \in Matches(text) \X Matches(text) : Better(text, p[1], p[2])})

FirstOf(s, n) == SubSeq(s, 1, IF Len(s) < n THEN Len(s) ELSE n)

\* _matches_toonation_dispatch: a keyword of donations occurs.
MatchesDispatch(text) == text \in Donations

\* search and compose_rag_context; then the toonation client may be asked.
SearchStore(a) ==
    /\ thread[a].at = "ranking" /\ a # Curator
    /\ thread' = [thread EXCEPT
         ![a].given = FirstOf(Ranked(thread[a].vector), TopK), ![a].held = Held,
         ![a].at = IF MatchesDispatch(thread[a].text) THEN "donations" ELSE "composing"]
    /\ UNCHANGED <<kind, fit, entries, vectors, cache, askVars>>

-----------------------------------------------------------------------------
(* CustomerServiceBot.answer.                                              *)

\* The gate lets the call pass (see BotService), and the scan finds no more than
\* what is suspicious.
Answer(a, q) ==
    /\ thread[a].at = "idle" /\ asks < MaxAsks
    /\ asks' = asks + 1
    /\ thread' = [thread EXCEPT ![a] = [Idle EXCEPT !.text = q, !.vector = q,
                     !.at = IF kind = "vectors" /\ entries # <<>> THEN "lookup" ELSE "ranking"]]
    /\ UNCHANGED <<kind, fit, entries, vectors, cache, talk, client>>

\* The scan blocks the question: the call has been counted, and nothing is asked.
DetectBlocks(a) ==
    /\ thread[a].at = "idle" /\ asks < MaxAsks
    /\ asks' = asks + 1
    /\ UNCHANGED <<kind, fit, entries, vectors, cache, thread, talk, client>>

\* get_total_donations_today finds nothing; its block is added all the same.
DonationsAsked(a) ==
    /\ thread[a].at = "donations"
    /\ Goes(a, "composing")
    /\ UNCHANGED <<kind, fit, entries, vectors, cache, askVars>>

\* truncate_history
Recent(turns) ==
    IF Len(turns) > 2 * MaxTurns THEN SubSeq(turns, Len(turns) - 2 * MaxTurns + 1, Len(turns)) ELSE turns

\* The chain is made and handed to the provider, which makes its client once.
Compose(a) ==
    /\ thread[a].at = "composing"
    /\ thread' = [thread EXCEPT ![a].at = "calling", ![a].turns = Recent(talk[a])]
    /\ client' = TRUE
    /\ UNCHANGED <<kind, fit, entries, vectors, cache, talk, asks>>

\* More than 16 KB of instructions, or no key to make the client with.
ComposeFails(a) ==
    /\ thread[a].at = "composing"
    /\ thread' = [thread EXCEPT ![a] = Idle]
    /\ UNCHANGED <<kind, fit, entries, vectors, cache, askVars>>

\* 429, 5xx or a network failure: after a pause, once more.
TryAgain(a) ==
    /\ thread[a].at = "calling" /\ thread[a].tries < Tries
    /\ thread' = [thread EXCEPT ![a].tries = @ + 1]
    /\ UNCHANGED <<kind, fit, entries, vectors, cache, askVars>>

CallFails(a) ==
    /\ thread[a].at = "calling"
    /\ thread' = [thread EXCEPT ![a] = Idle]
    /\ UNCHANGED <<kind, fit, entries, vectors, cache, askVars>>

\* parse_response; the caller keeps both sides of the turn.
Replied(a) ==
    /\ thread[a].at = "calling"
    /\ talk' = [talk EXCEPT ![a] = @ \o <<[by |-> "user", text |-> thread[a].text],
                                          [by |-> "assistant", text |-> thread[a].text]>>]
    /\ thread' = [thread EXCEPT ![a] = Idle]
    /\ UNCHANGED <<kind, fit, entries, vectors, cache, asks, client>>

-----------------------------------------------------------------------------
\* Vectors are told apart by their texts.
Vectors == Questions \cup Entries

\* How well an entry answers a question: what _score_entry and the cosine come to.
Scores == [Questions -> [Entries -> 0..2]]

FaqInit ==
    /\ kind \in {"keywords", "vectors"}
    /\ \E f \in Scores :
         fit = [x \in Vectors |-> IF x \in Questions THEN f[x] ELSE [e \in Entries |-> 0]]
    /\ entries = <<>> /\ vectors = <<>> /\ cache = <<>> /\ asks = 0 /\ client = FALSE
    /\ thread = [a \in Threads |-> Idle]
    /\ \E n \in {0, 2 * MaxTurns + 1} :
         talk = [a \in Askers |-> [i \in 1..n |-> [by |-> "earlier", text |-> i]]]

FaqNext ==
    \/ \E e \in Entries : AddEntry(e)
    \/ FileEntry \/ FileVector
    \/ \E a \in Threads : LookUp(a) \/ Remember(a)
    \/ \E a \in Askers :
         \/ \E q \in Questions : Answer(a, q)
         \/ DetectBlocks(a)
         \/ SearchStore(a) \/ DonationsAsked(a) \/ Compose(a) \/ ComposeFails(a)
         \/ TryAgain(a) \/ CallFails(a) \/ Replied(a)

FaqSpec == FaqInit /\ [][FaqNext]_faqVars

-----------------------------------------------------------------------------
(* Properties.                                                             *)

\* A BotMessage says who speaks.
BotMessages == [by : {"user", "assistant"}, text : Questions] \cup [by : {"earlier"}, text : Nat]

(* Type invariant.                                                         *)
FaqTypeOK ==
    /\ entries \in Seq(Entries) /\ vectors \in Seq(Vectors)
    /\ cache \in Seq([text : Vectors, vector : Vectors]) /\ Len(cache) <= MaxCache
    /\ talk \in [Askers -> Seq(BotMessages)]
    /\ \A t \in Threads : thread[t].tries \in 0..Tries

\* What the model is asked is grounded in the FAQ as it stood: of the entries
\* the search went over, the best TopK that fit the question of this asker, in
\* order, none left out for a worse one, whatever other threads looked up, put
\* into the cache or added; and the turns are the last of this conversation
\* (CustomerServiceBot.answer, EmbeddingRAGStore.search, CachedEmbedder.embed).
Grounded ==
    \A a \in Askers : LET t == thread[a]
                          worth(i) == fit[t.text][entries[i]]
                          better(i, j) == worth(i) > worth(j) \/ (worth(i) = worth(j) /\ i < j)
                      IN t.at = "calling" =>
        /\ Len(t.given) = Min({TopK, Cardinality({i \in 1..t.held : worth(i) > 0})})
        /\ \A x \in DOMAIN t.given :
             /\ worth(t.given[x]) > 0
             /\ \A i \in 1..t.held : better(i, t.given[x]) => \E y \in 1..(x - 1) : t.given[y] = i
        /\ IsSuffix(t.turns, talk[a]) /\ Len(t.turns) = Min({2 * MaxTurns, Len(talk[a])})

===============================================================================
