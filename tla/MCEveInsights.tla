--------------------------- MODULE MCEveInsights ---------------------------
(***************************************************************************)
(* Instances of EveInsights for TLC.                                       *)
(***************************************************************************)
EXTENDS EveInsights, TLC

CONSTANTS message, doc, close, short, madeUp, a, b

\* Of the five words of "close" three are the message's, of "madeUp" two;
\* "short" has two words, both the message's.
MCWords == message :> {1, 2, 3, 4, 5} @@ doc :> {6, 7, 8}
           @@ close :> {1, 2, 3, 10, 11} @@ short :> {1, 2} @@ madeUp :> {1, 2, 10, 11, 12}

\* It cites nothing, or what is close, too short and made up.
MCWritings == {{}, {close, short, madeUp}}

Same == Permutations(Workers) \cup Permutations(Tabs) \cup Permutations(Topics)
=============================================================================
