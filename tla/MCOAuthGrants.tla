---------------------------- MODULE MCOAuthGrants ----------------------------
(* One grant, rotated twice at most, and two requests that overlap.         *)
EXTENDS OAuthGrants, TLC
=============================================================================
