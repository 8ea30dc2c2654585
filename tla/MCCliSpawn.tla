----------------------------- MODULE MCCliSpawn -----------------------------
(* Small instances of CliSpawn: two session starts and a text generation.    *)
EXTENDS CliSpawn

CONSTANTS a1, a2, g1, slot

MCClients == {a1, a2, g1}
MCAcp == {a1, a2}
============================================================================
