------------------------- MODULE MC_SessionClient -------------------------
(***************************************************************************)
(* One tab with a read and a write of its screens under way at once, so    *)
(* that two requests expire together and one of them can be given up.      *)
(***************************************************************************)
EXTENDS SessionClient
=============================================================================
