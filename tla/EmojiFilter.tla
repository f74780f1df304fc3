------------------------------ MODULE EmojiFilter ------------------------------
(***************************************************************************)
(* The dispatcher that judges a picture for a pack: what its text says     *)
(* (the OCR scan, a choice here), then how far its hash is from those of   *)
(* known infringements (app/bot/emoji_dmca_check.py).                      *)
(***************************************************************************)
EXTENDS Naturals, Sequences, FiniteSets, SequencesExt, FiniteSetsExt

CONSTANTS Bits,        \* width of a hash
          Threshold,   \* fuzzy_threshold
          MaxKnown     \* hashes of known infringements (bound)

ASSUME FilterAssumption == Bits \in Nat \ {0} /\ {Threshold, MaxKnown} \subseteq Nat

VARIABLES
    known,     \* _known_dmca_hashes, in the order the set yields them
    judged     \* the last picture: [image, signal, match, decision]

filterVars == <<known, judged>>

Signals == {"none", "suspicious", "jailbreak_text", "blocked"}
Hashes == [1..Bits -> BOOLEAN]
HammingDistance(a, b) == Cardinality({i \in 1..Bits : a[i] # b[i]})
NoMatch == <<>>

\* Mutant of Nearer: the last one within the threshold.
LastWithin(hash, best, candidate) == IF HammingDistance(hash, candidate) <= Threshold THEN candidate ELSE best

\* check_known_infringement_fuzzy: the loop over the set, in the order it comes.
Nearer(hash, best, candidate) ==
    IF /\ HammingDistance(hash, candidate) <= Threshold
       /\ best = NoMatch \/ HammingDistance(hash, candidate) < HammingDistance(hash, best)
    THEN candidate ELSE best

FuzzyMatch(hash, database) ==
    LET best[i \in 0..Len(database)] ==
            IF i = 0 THEN NoMatch ELSE Nearer(hash, best[i - 1], database[i])
    IN  best[Len(database)]

\* evaluate(): what the text says, then what the hash says, then the doubt.
Decision(signal, match) ==
    CASE signal \in {"jailbreak_text", "blocked"} -> "rejected"
      [] signal \in {"none", "suspicious"} /\ match # NoMatch -> "dmca_takedown"
      [] signal = "suspicious" /\ match = NoMatch -> "pending"
      [] signal = "none" /\ match = NoMatch -> "approved"

NotJudged == [image |-> NoMatch, signal |-> "none", match |-> NoMatch, decision |-> "pending"]

\* No bytes are held for review; compute_combined_hash has a fallback for every error.
EvaluateEmpty ==
    /\ judged' = NotJudged
    /\ UNCHANGED known

Evaluate(image, signal) ==
    /\ judged' = [image |-> image, signal |-> signal, match |-> FuzzyMatch(image, known),
                  decision |-> Decision(signal, FuzzyMatch(image, known))]
    /\ UNCHANGED known

FilterInit ==
    /\ known \in UNION {SetToSeqs(s) : s \in UNION {kSubset(k, Hashes) : k \in 0..MaxKnown}}
    /\ judged = NotJudged

FilterNext == EvaluateEmpty \/ \E image \in Hashes, signal \in Signals : Evaluate(image, signal)

FilterSpec == FilterInit /\ [][FilterNext]_filterVars

-----------------------------------------------------------------------------
(* Properties.                                                             *)

\* ModerationOutcome, of the picture it is about.
Outcomes == [image : Hashes \cup {NoMatch}, signal : Signals, match : Hashes \cup {NoMatch},
             decision : {"approved", "rejected", "dmca_takedown", "pending"}]

(* Type invariant.                                                         *)
FilterTypeOK == known \in Seq(Hashes) /\ judged \in Outcomes

(* In whatever order a set yields its hashes, the match is a nearest one    *)
(* within the threshold, and nothing within it is approved, also when the  *)
(* text says nothing (check_known_infringement_fuzzy, evaluate).           *)
InfringementIsCaught ==
    judged.image # NoMatch =>
        LET close == {k \in ToSet(known) : HammingDistance(judged.image, k) <= Threshold}
        IN  /\ close = {} <=> judged.match = NoMatch
            /\ \A k \in close : HammingDistance(judged.image, judged.match) <= HammingDistance(judged.image, k)
            /\ judged.decision \in {"approved", "pending"} => close = {}

=============================================================================
