------------------------------ MODULE MCChapter ------------------------------
(* A chapter of two verses and two calls of the bulk registration.          *)
EXTENDS ChapterPage
=============================================================================
