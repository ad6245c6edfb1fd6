------------------------------ MODULE MCMirror ------------------------------
(* Two wallets competing for the same verse. *)
EXTENDS Mirror

CONSTANTS ana, ben

=============================================================================
