----------------------------- MODULE MCInputLine -----------------------------
(* A combining, a plain and a wide character. *)
EXTENDS InputLine

MCChars == {"accent", "a", "wide"}
MCCharWidth == [c \in MCChars |-> CASE c = "accent" -> 0 [] c = "a" -> 1 [] c = "wide" -> 2]

=============================================================================
