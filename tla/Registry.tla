------------------------------ MODULE Registry ------------------------------
(***************************************************************************)
(* What the Eternal Word program promises to the world, without how it     *)
(* keeps the promise: a register that is closed at first, is opened once   *)
(* and stays open, and in which every canonical verse can be adopted once, *)
(* with its canonical text, for ever.                                      *)
(***************************************************************************)

CONSTANTS
    Wallets,   \* who may adopt
    Canon      \* the verses that can be adopted: [book, chapter, verse, text]

VARIABLES
    open,      \* adoption has begun; never ends
    adopted    \* set of [book, chapter, verse, text, adopter]

vars == <<open, adopted>>

SameVerse(a, b) ==
    /\ a.book = b.book
    /\ a.chapter = b.chapter
    /\ a.verse = b.verse

Init ==
    /\ open = FALSE
    /\ adopted = {}

Open ==
    /\ ~open
    /\ open' = TRUE
    /\ UNCHANGED adopted

Adopt(w, leaf) ==
    /\ open
    /\ ~ \E a \in adopted : SameVerse(a, leaf)
    /\ adopted' = adopted \cup
         {[book |-> leaf.book, chapter |-> leaf.chapter, verse |-> leaf.verse,
           text |-> leaf.text, adopter |-> w]}
    /\ UNCHANGED open

Next ==
    \/ Open
    \/ \E w \in Wallets, leaf \in Canon : Adopt(w, leaf)

Spec == Init /\ [][Next]_vars
=============================================================================
