---------------------------- MODULE MCDocuments ----------------------------
(***************************************************************************)
(* Instances of Documents for TLC.                                         *)
(***************************************************************************)
EXTENDS Documents, TLC

CONSTANTS f1, f2

\* A heading, and blocks of which two fit a chunk, one nearly fills it, one
\* does not fit; each on a page of its own.
Title == [heading |-> "yes", chars |-> 20]
Text(n) == [heading |-> "no", chars |-> n]
OnPages(kinds) == [i \in DOMAIN kinds |-> [heading |-> kinds[i].heading,
                                           chars |-> kinds[i].chars, page |-> i]]

\* No text; sections, and a chunk that overflows; a block too long after an
\* overlap, alone, and before a heading.
SomeBlocks == {OnPages(k) : k \in {
    <<Title>>,
    <<Text(300), Title, Title, Text(300), Text(450), Text(50)>>,
    <<Text(700), Text(900), Title, Text(900)>>}}
OneBlock == OnPages(<<Text(300)>>)
Scan == OnPages(<<Text(300), Text(300)>>)

MCContents == f1 :> SomeBlocks @@ f2 :> {OneBlock, Scan}
TooLarge == {Scan}
Slots == Permutations(Importers)
=============================================================================
