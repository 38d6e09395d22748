----------------------------- MODULE MCWebhook -----------------------------
(* An instance of Webhook for TLC.                                        *)
EXTENDS WebhookRefinement, TLC

CONSTANTS message, s1, s2

AllFaults == FaultKind

SandboxSymmetry == Permutations({s1, s2})
=============================================================================
