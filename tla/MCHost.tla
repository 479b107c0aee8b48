------------------------------- MODULE MCHost -------------------------------
(* A small host: a self-managed server on one address, and a configuration *)
(* with external files behind a proxy on another.                          *)
EXTENDS Host

CONSTANTS proxy, x1, x2

Own == [listen |-> 1, tls |-> "self", pin |-> NoPin]
Proxied == [listen |-> 2, tls |-> "external", pin |-> proxy]

OwnOrProxied == {Own, Proxied}

\* Once two writers have met nothing is claimed of the key or the identity:
\* those states are checked and not explored further.
Unraced == raced = {}
=============================================================================
