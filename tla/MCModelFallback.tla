-------------------------- MODULE MCModelFallback --------------------------
(* ModelFallback for TLC: a model with a provider of its own, one of a     *)
(* provider that can not be made, and one only a gateway can serve.        *)
EXTENDS ModelFallback

CONSTANTS claude, local, other,                   \* models
          anthropic, vllm, openrouter, aihubmix   \* providers

MCOwn      == [m \in Model |-> IF m = claude THEN anthropic
                               ELSE IF m = local THEN vllm ELSE None]
MCGateways == <<openrouter, aihubmix>>
=============================================================================
