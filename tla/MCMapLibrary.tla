---------------------------- MODULE MCMapLibrary ----------------------------
(* The map library with keys that collide modulo the initial capacity.     *)
EXTENDS MapLibrary

CollidingKeys == {0, 1, 2, 4}

=============================================================================
