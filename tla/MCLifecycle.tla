----------------------------- MODULE MCLifecycle -----------------------------
(* Instances of Lifecycle for TLC: one spec that is always valid, one that is
   valid under --allow-bindplane-extra-env only, one that never is. *)
EXTENDS Lifecycle

CONSTANTS plain, extra, broken

ThreeSpecs == {plain, extra, broken}
TwoSpecs == {plain, extra}
Broken == {broken}
Extra == {extra}
Nothing == {}

\* install-no-webhook.yaml, with and without the extra-env flag.
NoWebhook == {[webhook |-> FALSE, allowExtraEnv |-> a] : a \in BOOLEAN}
\* The default installation, with and without the extra-env flag.
WithWebhook == {[webhook |-> TRUE, allowExtraEnv |-> a] : a \in BOOLEAN}
AnyFlags == NoWebhook \cup WithWebhook
=============================================================================
