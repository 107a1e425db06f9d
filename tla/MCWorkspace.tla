---------------------------- MODULE MCWorkspace ----------------------------
\* Two targets, of which the credential meets one; two requests for the first, so
\* that an application can be repeated, and one for the second.
EXTENDS Workspace, TLC

CONSTANTS p1, p2, r1, r2, r3, k1, k2

MCPolicyOf == r1 :> p1 @@ r2 :> p1 @@ r3 :> p2

\* One submission which is sent again under a new key, or under its own with another
\* preview, and one for the other target that may go with it.
MCItem ==
  {[policy |-> p1, key |-> k1, preview |-> TRUE],
   [policy |-> p1, key |-> k1, preview |-> FALSE],
   [policy |-> p1, key |-> k2, preview |-> TRUE],
   [policy |-> p2, key |-> k2, preview |-> TRUE]}
=============================================================================
