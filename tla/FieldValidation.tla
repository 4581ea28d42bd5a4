----------------------------- MODULE FieldValidation -----------------------------
(***************************************************************************)
(* What a handler does with a JSON body: cHTTPX_Parse fills the targets of *)
(* its fields and cHTTPX_Validate judges them, a field at a time.  A JSON  *)
(* value carries its type: <<"string", s>>, <<"number", n>>, <<"bool", b>>,*)
(* <<"array", elements>> or <<"null">>.  A body that is an object is the   *)
(* sequence of its members; Opaque is any other JSON.                      *)
(***************************************************************************)
EXTENDS Naturals, SequencesExt

CONSTANTS
  Bodies,        \* req->body, parsed: member sequences, Opaque or Invalid
  Opaque, Invalid,
  Forms,         \* the sequences of fields of the handlers
  FoldCase,      \* tolower() of each key
  Languages,     \* the languages asked of cHTTPX_Validate
  Alnum,         \* the characters that are letters or digits
  AllocMayFail

ASSUME FieldValidationAssumption ==
  /\ \A f \in Forms : f \in Seq(ToSet(f)) /\ \A i \in DOMAIN f : {f[i].min, f[i].max} \subseteq Nat
  /\ \A b \in Bodies \ {Opaque, Invalid} :
       /\ b \in Seq(ToSet(b))
       /\ \A i \in DOMAIN b : LET v == b[i].value IN v[1] = "string" => v[2] \in Seq(ToSet(v[2]))
  /\ AllocMayFail \in BOOLEAN

VARIABLES
  form,     \* fields
  body,
  language, \* l
  targets,  \* what each field's target holds; the handler starts with NULL
  present,  \* the fields with present = 1
  at,       \* i, from 1
  phase,    \* "body", "parse", "validate"; then "accepted", "refused", "crashed"
  message,  \* req->error_msg: its language, what it says and of which field
  short     \* history: memory ran out for a part of a target

formVars == <<form, body, language, targets, present, at, phase, message, short>>

Nothing == <<"null">>
Untouched == <<"unset">>
NoMessage == <<"none">>

FormInit ==
  /\ form \in Forms /\ body \in Bodies /\ language \in Languages
  /\ targets = [i \in DOMAIN form |-> Untouched]
  /\ present = {}
  /\ at = 1
  /\ phase = "body"
  /\ message = NoMessage
  /\ short = FALSE

Keep == UNCHANGED <<form, body, language>>

-----------------------------------------------------------------------------
(***************************************************************************)
(* cHTTPX_Parse                                                            *)
(***************************************************************************)

ParseBody ==
  /\ phase = "body"
  /\ \/ /\ AllocMayFail
        /\ phase' = "refused" /\ UNCHANGED message
     \/ /\ body = Invalid \/ AllocMayFail
        /\ phase' = "refused" /\ message' = <<"Invalid JSON">>
     \/ /\ body # Invalid
        /\ phase' = "parse" /\ UNCHANGED message
  /\ Keep /\ UNCHANGED <<targets, present, at, short>>

Named(name) ==
  IF body = Opaque THEN {} ELSE {i \in DOMAIN body : FoldCase[body[i].key] = FoldCase[name]}

\* The last member with the key instead of the first.
MutFound(name) ==
  IF Named(name) = {} THEN <<>> ELSE <<body[CHOOSE i \in Named(name) : \A j \in Named(name) : i >= j].value>>

\* cJSON_GetObjectItem, as a sequence of at most one value.
Found(name) ==
  IF Named(name) = {} THEN <<>> ELSE <<body[CHOOSE i \in Named(name) : \A j \in Named(name) : i <= j].value>>

ElementType(type) == IF type = "string array" THEN "string" ELSE "number"

HasType(v, type) == v[1] = IF type \in {"string array", "number array"} THEN "array" ELSE type

\* A list keeps its length: NULL or 0 stands for an element of another type.
Converted(v, type) ==
  LET other == IF type = "string array" THEN Nothing ELSE <<"number", 0>>
      element(e) == IF e[1] = ElementType(type) THEN e ELSE other
  IN IF v[1] # "array" THEN v ELSE <<"array", [j \in DOMAIN v[2] |-> element(v[2][j])]>>

\* strdup() of an element that fails leaves NULL in its place.
Starved(t, type) ==
  IF type # "string array" THEN {}
  ELSE {<<"array", [t[2] EXCEPT ![j] = Nothing]>> : j \in DOMAIN t[2]}

\* A field with a member is present, whatever type the member has.
ParseField ==
  LET f == form[at]
      v == Found(f.name)[1]
      stored(t) == targets' = [targets EXCEPT ![at] = t] /\ phase' = phase
  IN /\ phase = "parse" /\ at <= Len(form)
     /\ at' = at + 1
     /\ IF Found(f.name) = <<>>
        THEN UNCHANGED <<targets, present, phase, short>>
        ELSE /\ present' = present \cup {at}
             /\ \/ /\ ~HasType(v, f.type)
                   /\ UNCHANGED <<targets, phase, short>>
                \/ /\ HasType(v, f.type)
                   /\ stored(Converted(v, f.type)) /\ UNCHANGED short
                \/ /\ AllocMayFail /\ HasType(v, f.type)
                   /\ \/ f.type = "string" /\ stored(Nothing)
                      \/ \E t \in Starved(Converted(v, f.type), f.type) : stored(t)
                      \/ /\ v[1] = "array" /\ v[2] # <<>>
                         /\ phase' = "crashed" /\ UNCHANGED targets
                   /\ short' = TRUE
     /\ Keep /\ UNCHANGED message

ParseEnds ==
  /\ phase = "parse" /\ at > Len(form)
  /\ phase' = "validate" /\ at' = 1
  /\ Keep /\ UNCHANGED <<targets, present, message, short>>

-----------------------------------------------------------------------------
(***************************************************************************)
(* cHTTPX_Validate                                                         *)
(***************************************************************************)

IsValidEmail(s) ==
  LET ats == {i \in DOMAIN s : s[i] = "@"}
      first == CHOOSE i \in ats : \A j \in ats : i <= j
      dots == {i \in DOMAIN s : i >= first /\ s[i] = "."}
      last == CHOOSE i \in dots : \A j \in dots : i >= j
  IN /\ ats # {} /\ first # 1
     /\ dots # {} /\ last # first + 1
     /\ \A i \in DOMAIN s : s[i] \in Alnum \cup {"@", ".", "_", "-"}

LANGUAGE_CODES == <<"en", "ru", "es", "fr">>

\* i18n_lang_from_string, from 1; English for a code that is not known.
LangFromString(code) ==
  LET known == {i \in DOMAIN LANGUAGE_CODES : LANGUAGE_CODES[i] = code}
  IN IF known = {} THEN 1 ELSE CHOOSE i \in known : TRUE

\* There are messages for the first two languages; the others are read from
\* behind the array.
MessageLanguage ==
  LET lang == LangFromString(language) IN IF lang <= 2 THEN LANGUAGE_CODES[lang] ELSE "wild"

Refuse(what) ==
  /\ phase' = "refused"
  /\ message' = <<MessageLanguage, what, at>>
  /\ UNCHANGED at

NextField == at' = at + 1 /\ UNCHANGED <<phase, message>>

\* The targets of absent fields are judged as well.
MutSkipped(f) == FALSE

Skipped(f) == at \notin present \/ f.type # "string"

\* A length equal to the minimum is refused.
MutTooShort(f, len) == f.min # 0 /\ len <= f.min

TooShort(f, len) == f.min # 0 /\ len < f.min

TooLong(f, len) == f.max # 0 /\ len > f.max

\* Without a string in the target strlen() is given NULL.
ValidateField ==
  LET f == form[at]
      t == targets[at]
      len == Len(t[2])
  IN /\ phase = "validate" /\ at <= Len(form)
     /\ IF f.required /\ at \notin present THEN Refuse("required")
        ELSE IF Skipped(f) THEN NextField
        ELSE IF t[1] # "string" THEN phase' = "crashed" /\ UNCHANGED <<at, message>>
        ELSE IF TooShort(f, len) THEN Refuse("min")
        ELSE IF TooLong(f, len) THEN Refuse("max")
        ELSE IF f.email /\ ~IsValidEmail(t[2]) THEN Refuse("email")
        ELSE NextField
     /\ Keep /\ UNCHANGED <<targets, present, short>>

ValidateEnds ==
  /\ phase = "validate" /\ at > Len(form)
  /\ phase' = "accepted"
  /\ Keep /\ UNCHANGED <<targets, present, at, message, short>>

FormNext == ParseBody \/ ParseField \/ ParseEnds \/ ValidateField \/ ValidateEnds

FormSpec == FormInit /\ [][FormNext]_formVars

-----------------------------------------------------------------------------
(***************************************************************************)
(* Properties.                                                             *)
(***************************************************************************)

FormTypeOK ==
  /\ DOMAIN targets = DOMAIN form /\ present \subseteq DOMAIN form
  /\ at \in 1 .. Len(form) + 1
  /\ phase \in {"body", "parse", "validate", "accepted", "refused", "crashed"}

\* The member a field is about: the first with its key, case aside.
IsMember(v, name) ==
  body # Opaque /\ \E i \in DOMAIN body :
    /\ body[i].value = v /\ FoldCase[body[i].key] = FoldCase[name]
    /\ \A j \in 1 .. i - 1 : FoldCase[body[j].key] # FoldCase[name]

Members(name) == IF body = Opaque THEN {} ELSE {m \in {body[i].value : i \in DOMAIN body} : IsMember(m, name)}

\* name@host.domain, in the characters that are allowed.
Email(s) ==
  /\ \E i \in 2 .. Len(s) : /\ s[i] = "@" /\ \A j \in 1 .. i - 1 : s[j] # "@"
                            /\ \E j \in i + 2 .. Len(s) : s[j] = "."
  /\ \A i \in DOMAIN s : s[i] \in Alnum \cup {"@", ".", "_", "-"}

\* What is wrong with a field.
Faults(f) ==
  {what \in {"required", "min", "max", "email"} :
    CASE what = "required" -> f.required /\ Members(f.name) = {}
      [] what = "min" -> \E v \in Members(f.name) : f.type = v[1] /\ v[1] = "string" /\ Len(v[2]) < f.min
      [] what = "max" -> \E v \in Members(f.name) : f.type = v[1] /\ v[1] = "string" /\ f.max \in 1 .. Len(v[2]) - 1
      [] what = "email" -> \E v \in Members(f.name) : f.type = v[1] /\ v[1] = "string" /\ f.email /\ ~Email(v[2])}

\* cHTTPX_Validate has messages in English and Russian only: for another
\* language that i18n_lang_from_string knows it reads behind its array.
HasMessages == Languages \cap {"es", "fr"} = {}

\* A form is refused for the first field that is wrong, and the message says
\* what is wrong with it in the language asked for, or else in English.
RefusalIsRight ==
  phase = "refused" /\ message \notin {NoMessage, <<"Invalid JSON">>} =>
    /\ message[2] \in Faults(form[message[3]])
    /\ \A i \in 1 .. message[3] - 1 : Faults(form[i]) = {}
    /\ message[1] = IF language = "ru" THEN "ru" ELSE "en"

\* When a form is accepted no field is wrong, and the target of a field whose
\* member has its type holds that member.
AcceptedIsRight ==
  phase = "accepted" =>
    \A i \in DOMAIN form :
      /\ Faults(form[i]) = {}
      /\ \A v \in Members(form[i].name) :
           HasType(v, form[i].type) /\ ~short => targets[i] = Converted(v, form[i].type)

\* The handler survives every body, but for a string field whose member is not
\* a string, and memory that ran out.
CrashNeedsWrongType ==
  phase = "crashed" =>
    short \/ \E i \in DOMAIN form : \E v \in Members(form[i].name) :
               form[i].type = "string" /\ v[1] # "string"

\* The handler learns of a form what is true of it, in every way a form may end.
VerdictIsRight == RefusalIsRight /\ AcceptedIsRight /\ CrashNeedsWrongType

\* "This function automatically checks required fields, string length, boolean
\* types, etc.": a form whose member has another type than its field does not
\* pass.
TypesAreChecked ==
  phase \in {"accepted", "crashed"} =>
    \A i \in DOMAIN form : \A v \in Members(form[i].name) : HasType(v, form[i].type)

================================================================================
