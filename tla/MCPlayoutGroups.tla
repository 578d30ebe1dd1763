-------------------------- MODULE MCPlayoutGroups --------------------------
(* Instances of PlayoutGroups for TLC.                                     *)
EXTENDS PlayoutGroups

CONSTANTS a, b, c

S(ooo, mixer, next, release) ==
    [ooo |-> ooo, mixer |-> mixer, auto_next |-> next, auto_release |-> release]
Three == <<a, b, c>>
ThreeOrTwo == {Three, <<b, a>>}
OneOrNone == {{}, {a}, {b}}

ThreeSettings == {S("skip", TRUE, FALSE, TRUE), S("requeue", FALSE, TRUE, FALSE), S("refuse", FALSE, FALSE, TRUE)}
=============================================================================
