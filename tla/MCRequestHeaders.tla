---------------------------- MODULE MCRequestHeaders ----------------------------
(***************************************************************************)
(* RequestHeaders on two names that differ in case, one that is too long   *)
(* and another, and on buffers of up to three lines.                       *)
(***************************************************************************)
EXTENDS RequestHeaders

MCNames == {"h", "H", "long", "g"}

MCFoldName == [n \in MCNames \cup {"lon"} |-> IF n = "H" THEN "h" ELSE n]

MCCutName == [n \in MCNames |-> IF n = "long" THEN "lon" ELSE n]

\* Only the last line may have been cut off.
MCBuffers ==
  LET line(name, value, ended) == [name |-> name, value |-> value, ended |-> ended]
      all == {line(name, 1, TRUE) : name \in MCNames \cup {Blank, NoColon}}
             \cup {line("h", 2, TRUE), line("h", 3, FALSE)}
  IN UNION {{s \in [1 .. n -> all] : \A i \in 1 .. n - 1 : s[i].ended} : n \in 0 .. 3}

ASSUME NoCutNameIsAsked

================================================================================
