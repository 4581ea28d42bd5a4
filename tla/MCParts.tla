--------------------------------- MODULE MCParts ---------------------------------
(***************************************************************************)
(* The parts of a request's way that share nothing, side by side: one of   *)
(* them is chosen, it runs alone, and the others stay in their first state.*)
(***************************************************************************)
EXTENDS MCRouting, MCSharedParsers, MCRequestHeaders, JsonParser,
        MCFieldValidation, MCLocales, MCResponses

VARIABLE part

partsVars ==
  <<part, routingVars, vars, headerVars, parserVars, formVars, localeVars, responseVars>>

\* What has a choice in its first state makes one only when it is to run.
NoChoice(name, fixed) == IF part = name THEN TRUE ELSE fixed

PartsInit ==
  /\ part \in {"routing", "strings", "headers", "parser", "form", "locales", "response"}
  /\ NoChoice("strings", pairs = [t \in Threads |-> [s \in Strings |-> 0]])
  /\ NoChoice("headers", received = <<>>)
  /\ NoChoice("parser", ahead = "end" /\ strict = FALSE)
  /\ NoChoice("form", body = Invalid /\ form = (CHOOSE f \in Forms : TRUE) /\ language = "ru")
  /\ NoChoice("locales", directory = NoDirectory /\ asked = <<"k", NoLanguage>>)
  /\ NoChoice("response", file = NoFileThere /\ cors = NoString /\ origin = NoString)
  /\ RoutingInit /\ Init /\ HeadersInit /\ ParserInit /\ FormInit /\ LocaleInit /\ ResponseInit

PartsNext ==
  /\ UNCHANGED part
  /\ IF part = "routing" THEN RoutingNext ELSE UNCHANGED routingVars
  /\ IF part = "strings" THEN Next ELSE UNCHANGED vars
  /\ IF part = "headers" THEN HeadersNext ELSE UNCHANGED headerVars
  /\ IF part = "parser" THEN ParserNext ELSE UNCHANGED parserVars
  /\ IF part = "form" THEN FormNext ELSE UNCHANGED formVars
  /\ IF part = "locales" THEN LocaleNext ELSE UNCHANGED localeVars
  /\ IF part = "response" THEN ResponseNext ELSE UNCHANGED responseVars

PartsSpec == PartsInit /\ [][PartsNext]_partsVars

\* The type of every variable of every part.
PartsTypeOK ==
  /\ RoutingTypeOK /\ TypeOK /\ HeadersTypeOK /\ ParserTypeOK
  /\ FormTypeOK /\ LocaleTypeOK /\ ResponseTypeOK

================================================================================
