-------------------------------- MODULE MCLocales --------------------------------
(***************************************************************************)
(* Locales with any file alone or behind one that is not called .json, and *)
(* with three small files, one more than there is room for.                *)
(***************************************************************************)
EXTENDS Locales

MCDirectories ==
  LET contents(n) == [1 .. n -> [key : {"k", "l"}, value : {"x", "y", NoText}]]
      holding(c) == {[language |-> l, json |-> TRUE, content |-> c] : l \in Codes}
      any == UNION {holding(c) : c \in {Unreadable} \cup contents(0) \cup contents(1) \cup contents(2)}
      small == UNION {holding(<<[key |-> "k", value |-> v]>>) : v \in {"x", NoText}}
               \cup holding(Unreadable)
      other == [language |-> "en", json |-> FALSE, content |-> <<[key |-> "k", value |-> "z"]>>]
  IN {<<>>} \cup {<<f>> : f \in any} \cup {<<other, f, g>> : f \in small, g \in any}
     \cup {<<f, g, h>> : f, g, h \in small}

================================================================================
