---------------------------- MODULE InsightGate ----------------------------
(***************************************************************************)
(* What Eve may publish: the sources an emitted insight cites, those of    *)
(* them that quote a text her tools returned (verify_source_grounding),    *)
(* and the gate an insight passes (_gate). A text is its set of words.     *)
(***************************************************************************)
EXTENDS Integers, FiniteSets

CONSTANTS
    Snippets,      \* texts of the workspace, and what the model may write
    Writings,      \* the sets of sources the model may write
    Words,         \* the words of a snippet, by snippet
    Docs,          \* the snippets that are of a document
    MinTokens,     \* _MIN_TOKENS
    MinOverlap,    \* _MIN_OVERLAP, in percent
    MinGrounded    \* eve_min_grounded_sources

ASSUME GateAssumption ==
    /\ Docs \subseteq Snippets /\ Writings \subseteq SUBSET Snippets
    /\ MinTokens \in Nat \ {0} /\ MinOverlap \in Nat /\ MinGrounded \in Nat
    /\ \A s \in Snippets : IsFiniteSet(Words[s])

Quotes(snippet, text) ==
    100 * Cardinality(Words[snippet] \cap Words[text]) >= MinOverlap * Cardinality(Words[snippet])

IsGrounded(snippet, evidence) ==
    /\ Cardinality(Words[snippet]) >= MinTokens
    /\ \E text \in evidence : Words[text] # {} /\ Quotes(snippet, text)

\* Variant for the mutation runs: what the model cites is taken as it is.
GroundedTaken(sources, evidence) == sources

\* verify_source_grounding.
Grounded(sources, evidence) == {s \in sources : IsGrounded(s, evidence)}

\* The sources an insight may end up with: what it wrote, or else three texts
\* of the evidence (the first ones; any here); and a document if one was found.
Defaulted(written, evidence) ==
    IF written # {} \/ evidence = {} THEN {written}
    ELSE {s \in SUBSET evidence : Cardinality(s) = 3 \/ (s = evidence /\ Cardinality(s) < 3)}

Cited(written, evidence) ==
    UNION {IF s \cap Docs # {} \/ evidence \cap Docs = {}
             THEN {s} ELSE {s \cup {d} : d \in evidence \cap Docs}
           : s \in Defaulted(written, evidence)}

\* _gate, beside a search having been made and the model being sure enough.
Enough(grounded) == Cardinality(grounded) >= MinGrounded
=============================================================================
