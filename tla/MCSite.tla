------------------------------- MODULE MCSite -------------------------------
(* One verse, the page's wallet and a competitor, one reconcile cycle. *)
EXTENDS Site
=============================================================================
