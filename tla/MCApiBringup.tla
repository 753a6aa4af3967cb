---------------------------- MODULE MCApiBringup ----------------------------
(* Three addresses (this host's loopback, one of its own, one it does not  *)
(* have) and two ports, the second one not for this user to bind.          *)
EXTENDS ApiBringup

CONSTANTS Lan, Elsewhere, P1, P2

MCBinds == {Local, Lan, Elsewhere}
MCPorts == {P1, P2}
MCBindable == {Local, Lan} \X {P1}
MCConfig == [bind |-> Local, port |-> P1, tls |-> "on"]
=============================================================================
