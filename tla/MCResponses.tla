------------------------------- MODULE MCResponses -------------------------------
(***************************************************************************)
(* Responses with texts and files on both sides of their limits, and a     *)
(* cookie that the program made next to one that came with the request.    *)
(***************************************************************************)
EXTENDS Responses

MCContents == {<<"b", "c">>}

MCFiles == {<<"f", "f">>, <<"g">>, <<"h", "h", "h">>}

MCFields == {<<"X", 1>>, <<"X", 2>>}

MCCookies ==
  {[name |-> "c", path |-> TRUE, domain |-> d, expires |-> TRUE, sameSite |-> 2,
    secure |-> FALSE, httpOnly |-> TRUE] : d \in {TRUE, NoString}}

ASSUME NoOwnOrigin

================================================================================
