--------------------------- MODULE MCBulkRegister ----------------------------
(* Three verses in two batches, the first with work for two senders. *)
EXTENDS BulkRegister
=============================================================================
