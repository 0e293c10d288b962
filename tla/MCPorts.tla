------------------------------ MODULE MCPorts ------------------------------
(* Instances of Ports for TLC: a text with a rune of each size that has a    *)
(* boundary next to it, and one beyond the basic plane.                      *)
EXTENDS Ports

Boundaries == <<127, 2048, 128>>
Astral == <<65536>>
=============================================================================
