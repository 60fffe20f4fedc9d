-------------------------- MODULE MCEffectRecovery --------------------------
(* A plan with one asynchronous tool, for the finding about its result.    *)
EXTENDS EffectRecovery

AsyncOnly == <<"async", "service">>
=============================================================================
