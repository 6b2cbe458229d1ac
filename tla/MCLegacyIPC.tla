----------------------------- MODULE MCLegacyIPC -----------------------------
(* Small sizes for LegacyIPC: four bytes of prefix, mappings below, at and     *)
(* above the limit, and prefixes next to every bound and to the wrap-around.   *)
EXTENDS LegacyIPC

CONSTANTS h, s

MCClients == {h, s}
MCHonest == {h}
MCRegions == {4, 6, 8}
MCPrefixes == {0, 1, 2, 3, 4, 14}
MCReplySizes == {5, 7, 9}
=============================================================================
