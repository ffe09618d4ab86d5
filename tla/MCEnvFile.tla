----------------------------- MODULE MCEnvFile ------------------------------
(* TLC instance of EnvFile: of the captured names one is assigned by the   *)
(* template and one is not; the key is.                                    *)
EXTENDS EnvFile, TLC

MCCapturedVars == <<"AGENT_HOST", "AGENT_MODEL">>
MCTemplate == <<[name |-> "MESHTASTIC_AGENT_KEY", value |-> "template"],
                [name |-> "AGENT_HOST", value |-> "template"]>>

Symmetry == Permutations(Values)
=============================================================================
