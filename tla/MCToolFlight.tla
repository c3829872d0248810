---- MODULE MCToolFlight ----
(* Worlds for TLC: those the reducer copes with, and one for each thing it does not. *)
EXTENDS ToolFlight

World(lose, restarts) == [lose |-> lose, restarts |-> restarts]

Orderly     == {World({}, FALSE)}
Restarted   == {World({}, TRUE)}
SoundWorlds == Orderly \cup Restarted \cup {World({"post", "stop", "prompt"}, FALSE)}
LostStart   == {World({"pre"}, FALSE)}
====
