------------------------------ MODULE PartsProofs ------------------------------
(***************************************************************************)
(* The parts side by side: each of them does what it does alone, so that   *)
(* what is proved of it alone holds of it there.                           *)
(***************************************************************************)
EXTENDS MCParts, RoutingProofs, HandlerProofs

LEMMA PartsStart ==
  PartsInit =>
    /\ RoutingInit /\ Init /\ HeadersInit /\ ParserInit
    /\ FormInit /\ LocaleInit /\ ResponseInit
BY Zenon DEF PartsInit

LEMMA PartsStep ==
  [PartsNext]_partsVars =>
    /\ [RoutingNext]_routingVars /\ [Next]_vars /\ [HeadersNext]_headerVars /\ [ParserNext]_parserVars
    /\ [FormNext]_formVars /\ [LocaleNext]_localeVars /\ [ResponseNext]_responseVars
BY Zenon DEF PartsNext, partsVars

\* A behaviour of the parts side by side is one of each part: nothing that is
\* shown of a part alone is lost by running it beside the others.
THEOREM PartsRunAlone ==
  PartsSpec => /\ RoutingSpec /\ Spec /\ HeadersSpec /\ ParserSpec
               /\ FormSpec /\ LocaleSpec /\ ResponseSpec
BY PartsStart, PartsStep, PTL
   DEF PartsSpec, RoutingSpec, Spec, HeadersSpec, ParserSpec, FormSpec, LocaleSpec, ResponseSpec

\* Whichever part runs, every variable keeps its type, when the program leaves
\* the lines about origins to the library and there are messages for the language.
THEOREM PartsTypesHold ==
  ASSUME NoOwnOrigin, HasMessages
  PROVE  PartsSpec => []PartsTypeOK
<1>1. /\ PartsSpec => RoutingSpec /\ Spec /\ HeadersSpec
      /\ PartsSpec => ParserSpec /\ FormSpec /\ LocaleSpec /\ ResponseSpec
  BY PartsRunAlone, PTL
<1>2. /\ RoutingSpec => []RoutingTypeOK
      /\ Spec => []TypeOK
      /\ HeadersSpec => []HeadersTypeOK
      /\ ParserSpec => []ParserTypeOK
  BY RoutingType, StringsType, HeadersType, ParserTypes
<1>3. FormSpec => []FormTypeOK
  BY FormType
<1>4. LocaleSpec => []LocaleTypeOK
  BY LocaleType
<1>5. ResponseSpec => []ResponseTypeOK
  BY ResponseType
<1>6. RoutingTypeOK /\ TypeOK /\ HeadersTypeOK /\ ParserTypeOK /\ FormTypeOK /\ LocaleTypeOK /\ ResponseTypeOK
        => PartsTypeOK
  BY Zenon DEF PartsTypeOK
<1>7. QED
  BY <1>1, <1>2, <1>3, <1>4, <1>5, <1>6, PTL

================================================================================
