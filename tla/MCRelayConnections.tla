------------------------- MODULE MCRelayConnections -------------------------
(***************************************************************************)
(* An instance of RelayConnections: an agent and an app of one account, an *)
(* agent of another, and three sockets from two addresses.                 *)
(***************************************************************************)
EXTENDS RelayConnections, TLC

CONSTANTS s1, s2, s3, agent, app, other, u, v, ip1, ip2

Sockets == {s1, s2, s3}
Devices == {agent, app, other}
Agents == {agent, other}
Uids == (agent :> u) @@ (app :> u) @@ (other :> v)
Accounts == [d \in Devices |-> d]

(* Sockets are alike, and so are addresses; no property is temporal.        *)
Interchangeable == Permutations(Sockets) \cup Permutations(Ip)
=============================================================================
