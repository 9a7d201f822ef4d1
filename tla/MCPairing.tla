------------------------------ MODULE MCPairing ------------------------------
(***************************************************************************)
(* Instances of Pairing for TLC: two runs of the agent and a listener of   *)
(* another installation, two dashboard grants for different ports and one  *)
(* application grant.                                                      *)
(***************************************************************************)
EXTENDS Pairing, TLC

CONSTANTS dash1, dash2, app, port1, port2, site

MCHome == (dash1 :> port1) @@ (dash2 :> port2) @@ (app :> site)

\* Requests are alike, and so are the agents of the installation.
PairingSymmetry == Permutations(Requests) \cup Permutations(Sessions)
=============================================================================
