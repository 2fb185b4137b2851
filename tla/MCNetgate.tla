----------------------------- MODULE MCNetgate -----------------------------
(* An instance of Netgate: a private range of two addresses, one of them   *)
(* also a network of its own, and a network that is always blocked.        *)
EXTENDS Netgate

Private == {"p1", "p2"}
Host == {"p1"}
Metadata == {"m"}
MCNets == {Private, Host, Metadata}
MCPrivateV4 == {Private}
MCFixedBlockV4 == {Metadata}

Shipped == [Zero EXCEPT !.outbound = <<[action |-> "block", net |-> Private]>>]
Operators ==
  [outbound  |-> <<[action |-> "allow", net |-> Host], [action |-> "block", net |-> Private]>>,
   forwards  |-> [p \in Ports |-> CHOOSE t \in Targets : TRUE],
   bandwidth |-> NoBandwidth]
MCDefaults == {Shipped}
MCOverrides == {NoFile, Operators}
=============================================================================
