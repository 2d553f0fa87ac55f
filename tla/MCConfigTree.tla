--------------------------- MODULE MCConfigTree ----------------------------
(* Every configuration of its own, and together those that share requests. *)
EXTENDS ConfigTree

Together == {{"Conference", "ConferenceLayouts"}, {"Directory", "DialplanDirectory"},
             {"SangomaCodec", "Redis"}}

MCScopes == Together \cup {{c} : c \in DOMAIN GetConfigSection \ UNION Together}
=============================================================================
