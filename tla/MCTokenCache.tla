----------------------------- MODULE MCTokenCache -----------------------------
(***************************************************************************)
(* TokenCache with the plugin's own limits and a few calls.                *)
(***************************************************************************)
EXTENDS TokenCache, TLC

CONSTANTS c1, c2, c3
=============================================================================
