--------------------------- MODULE MCFieldValidation ---------------------------
(***************************************************************************)
(* FieldValidation on three forms of two fields, with every body of up to  *)
(* two members, among them the same key twice and in another case.         *)
(***************************************************************************)
EXTENDS FieldValidation

MCStrings ==
  {<<>>, <<"a">>, <<"a", "@", "a", ".">>, <<"@", "a", ".", "a">>, <<"a", "@", "!", ".">>, <<"a", "@", "@", ".">>}

MCValues ==
  {<<"string", s>> : s \in MCStrings}
  \cup {<<"number", 1>>, <<"bool", TRUE>>, <<"null">>, <<"array", <<>>>>,
        <<"array", <<<<"string", <<"a">>>>, <<"number", 1>>>>>>}

MCBodies ==
  {Opaque, Invalid} \cup
  UNION {[1 .. n -> [key : {"k", "K", "m"}, value : MCValues]] : n \in 0 .. 2}

MCForms ==
  LET field(name, type, required) ==
        [name |-> name, type |-> type, required |-> required, min |-> 0, max |-> 0, email |-> FALSE]
  IN {<<[field("k", "string", TRUE) EXCEPT !.min = 1, !.max = 3], field("m", "number", FALSE)>>,
      <<[field("m", "string", FALSE) EXCEPT !.max = 4, !.email = TRUE], field("k", "bool", TRUE)>>,
      <<field("k", "string array", FALSE), field("m", "number array", TRUE)>>}

MCFold == [key \in {"k", "K", "m"} |-> IF key = "K" THEN "k" ELSE key]

ASSUME HasMessages

================================================================================
