----------------------------- MODULE MCProgress -----------------------------
(* Two datasets of two chapters, in one book and in two, with an omitted     *)
(* position and a text that addresses share; the catalogs of 32 more; then   *)
(* the Merkle trees they are bound with.                                     *)
EXTENDS Progress, MerkleTrees

CONSTANTS t, u

\* The runs of the seed are alike.
Symmetry == Permutations(Seeders)

MCFloor == <<1, 20>>

\* The datasets that are seeded.
SeededCanons ==
    LET chapters == << <<t>>, <<t, Omitted, u, t>> >> IN
    {<<chapters>>, << <<chapters[2]>>, <<chapters[1]>> >>}

MCCanons ==
    LET chapters == {<<t>>, <<t, u>>, <<t, Omitted, u>>, <<t, u, t>>} IN
    {<< <<a, b>> >> : a, b \in chapters} \cup {<< <<a>>, <<b>> >> : a, b \in chapters}
        \cup SeededCanons

-----------------------------------------------------------------------------
(* The screens over the datasets that are seeded; and, next to one of them   *)
(* before anything is seeded, the trees over every list.                     *)

NothingSeeded ==
    /\ canon = CHOOSE c \in Canons : TRUE
    /\ verse_texts = {} /\ verses = {}
    /\ \A s \in Seeders : seeder[s] = Idle
    /\ denominators = NoAnswer /\ visits = 0

\* The bound: the last request of a screen has been answered.
Visited ==
    /\ visits > 0 /\ visits = MAX_VISITS
    /\ \A statement \in {"statuses", "begun", "days"} : ~Asked(statement)

\* The bound: runs overlap as long as no screen is visited.
Overlap == visits > 0 /\ Cardinality({s \in Seeders : seeder[s] # Idle}) > 1

ProgressStep ==
    /\ ~Visited
    /\ leaves = <<>> /\ canon \in SeededCanons
    /\ ProgressNext /\ ~Overlap'
    /\ UNCHANGED leaves

TreeStep ==
    /\ NothingSeeded
    /\ TreeNext
    /\ UNCHANGED progressVars

MCInit == ProgressInit /\ TreeInit

MCSpec == MCInit /\ [][ProgressStep \/ TreeStep]_<<progressVars, leaves>>
=============================================================================
