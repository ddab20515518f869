--------------------------- MODULE MCLocalPlayback ---------------------------
(* Two programs, one with a move that is refused, and two speeds.          *)
EXTENDS LocalPlayback

MCPrograms == {<<"a", "b">>, <<"b", "far">>}
MCTestProgram == <<"a", "b", "a">>
=============================================================================
