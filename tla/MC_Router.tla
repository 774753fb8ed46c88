------------------------------ MODULE MC_Router ------------------------------
(* Model-checking instance of Router.                                      *)
EXTENDS Router, TLC

CONSTANTS ra, rb, rs

\* Two plain rules and one that uses env secrets.
MC_Rules == {ra, rb, rs}
MC_SecretRules == {rs}

\* Ids just outside the table on both sides of it.
MC_BadIds == {-2, MaxRoutes}

\* An empty env var name (fatal) and a valid one; one dependency name,
\* which may be declared with either type.
MC_EnvNames == {"", "e1"}
MC_DepNames == {"d1"}
=============================================================================
