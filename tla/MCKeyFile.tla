----------------------------- MODULE MCKeyFile -----------------------------
(***************************************************************************)
(* Instances of KeyFile: "home" with a short name, "home5" whose name      *)
(* begins with the other's, and "long" whose name has the 32 characters an *)
(* SSID may have, "clip" being its first 29.                               *)
(***************************************************************************)
EXTENDS KeyFile

CONSTANTS home, home5, long, clip, k1, k2

MCWidth == [n \in Names |-> CASE n = long -> 32 [] n = clip -> 29
                              [] n = home5 -> 5 [] OTHER -> 4]
MCBegins == [n \in Names |-> CASE n = long -> {clip} \cap Names
                               [] n = home5 -> {home} \cap Names [] OTHER -> {}]
MCClip  == [s \in SSIDs |-> IF s = long THEN clip ELSE s]

Whole(n, k) == [key |-> k, name |-> n, stems |-> MCBegins[n],
                len |-> 65 + MCWidth[n], eol |-> TRUE]

MCFiles == {<<>>, << Whole(home, k1) >>,
            << [Whole(home5, BadPsk) EXCEPT !.len = 20], Whole(home, k1) >>}
(* The last line without its newline, as an editor may leave it. *)
MCEdited == {<< [Whole(home, k1) EXCEPT !.eol = FALSE] >>,
             << Whole(home, k1), [Whole(home5, k2) EXCEPT !.eol = FALSE] >>}
=============================================================================
