--------------------------- MODULE MCOAuthTokens ---------------------------
(* Three concurrent calls against one site's token cache. *)
EXTENDS OAuthTokens

============================================================================
