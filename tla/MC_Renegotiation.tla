------------------------ MODULE MC_Renegotiation ------------------------
(* Model-checking instance of Renegotiation.                             *)
EXTENDS Renegotiation

\* No legacy peer, a legacy client, a legacy server.
MC_LegacyChoices == {{}, {Client}, {Server}}

\* The flag words a host passes: none, each flag, both.
MC_FlagWords == {0, BR_OPT_ENFORCE_SERVER_PREFERENCES, BR_OPT_NO_RENEGOTIATION,
                 BR_OPT_ENFORCE_SERVER_PREFERENCES + BR_OPT_NO_RENEGOTIATION}
=============================================================================
