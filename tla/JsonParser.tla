------------------------------- MODULE JsonParser -------------------------------
(***************************************************************************)
(* cJSON_ParseWithOpts: the descent of parse_value through parse_array and *)
(* parse_object, one step per token, with every allocation that may fail   *)
(* and the unwinding that gives back what was allocated.  A token is what  *)
(* follows the white space: a bracket, a comma, a colon, a "string", a     *)
(* "scalar" (null, true, false or a number), "other" or the "end".  The    *)
(* token ahead is chosen when the parser comes to it.                      *)
(***************************************************************************)
EXTENDS Naturals, SequencesExt

CONSTANTS
  MaxTokens,    \* bound: tokens of a text
  NestingLimit, \* CJSON_NESTING_LIMIT
  MallocMayFail

ASSUME JsonParserAssumption ==
  MaxTokens \in Nat \ {0} /\ NestingLimit \in Nat /\ MallocMayFail \in BOOLEAN

VARIABLES
  text,    \* the tokens behind input_buffer->offset
  ahead,   \* the token at it
  strict,  \* require_null_terminated
  frames,  \* the calls of parse_array and parse_object, the outermost first;
           \* below them the root
  step,    \* what is parsed next
  live,    \* the number of allocated items, keys and strings
  failure  \* history: why the parse failed: "memory", "depth" or "text"

parserVars == <<text, ahead, strict, frames, step, live, failure>>

JsonTokens == {"[", "]", "{", "}", ",", ":", "string", "scalar", "other", "end"}

\* The tokens that a list starts with.
Openers == {"[", "{"}

\* A frame: the items in its list so far and what is in them, each before what
\* is in it; and the allocations of the item being parsed.
NewFrame(kind) == [kind |-> kind, kids |-> <<>>, current |-> 0]

ParserInit ==
  /\ text = <<>> /\ ahead \in JsonTokens
  /\ strict \in BOOLEAN
  /\ frames = <<NewFrame("root")>>
  /\ step = "item"
  /\ live = 0
  /\ failure = "none"

Top == Last(frames)

\* The items in an object have a key.
Keyed(f) == f.kind = "{"

Advance ==
  /\ text' = Append(text, ahead)
  /\ ahead' \in IF Len(text) + 2 >= MaxTokens THEN {"end"} ELSE JsonTokens

Stay == UNCHANGED <<text, ahead>>

Fail(why) ==
  /\ step' = "unwind"
  /\ failure' = why
  /\ UNCHANGED <<text, ahead, frames, live>>

NoMemory == MallocMayFail /\ Fail("memory")

\* An object starts with a key, and so does what follows its comma.
ItemStart == IF Keyed(Top) THEN "key" ELSE "value"

Allocated(next) ==
  /\ frames' = [frames EXCEPT ![Len(frames)].current = @ + 1]
  /\ live' = live + 1
  /\ step' = next
  /\ UNCHANGED failure

\* cJSON_New_Item: the root, the first item or the one after the comma, which
\* is passed only then.
NewItem ==
  /\ step = "item"
  /\ \/ NoMemory
     \/ /\ Allocated(ItemStart)
        /\ IF ahead = "," /\ Top.kids # <<>> THEN Advance ELSE Stay

Key ==
  /\ step = "key"
  /\ IF ahead # "string" THEN Fail("text")
     ELSE NoMemory \/ (Allocated("colon") /\ Advance)

Colon ==
  /\ step = "colon"
  /\ IF ahead # ":" THEN Fail("text")
     ELSE step' = "value" /\ Advance /\ UNCHANGED <<frames, live, failure>>

\* The current item of the last frame, by how deep it is and whether it has a key.
Item(fs, kind) == [kind |-> kind, depth |-> Len(fs), keyed |-> Keyed(Last(fs))]

\* The frames when that item is parsed, and has in it what inside says.
With(fs, kind, inside) ==
  [fs EXCEPT ![Len(fs)].kids = @ \o <<Item(fs, kind)>> \o inside, ![Len(fs)].current = 0]

\* parse_value returns true.
Parsed(fs, kind, inside) ==
  /\ frames' = With(fs, kind, inside)
  /\ step' = IF Len(fs) = 1 THEN "root" ELSE "more"
  /\ Advance
  /\ UNCHANGED failure

Scalar == step = "value" /\ ahead = "scalar" /\ Parsed(frames, "scalar", <<>>) /\ UNCHANGED live

String ==
  /\ step = "value" /\ ahead = "string"
  /\ \/ NoMemory
     \/ Parsed(frames, "string", <<>>) /\ live' = live + 1

\* parse_array and parse_object up to their first item.
Open ==
  /\ step = "value" /\ ahead \in Openers
  /\ IF Len(frames) - 1 >= NestingLimit THEN Fail("depth")
     ELSE /\ frames' = Append(frames, NewFrame(ahead))
          /\ step' = "first"
          /\ Advance
          /\ UNCHANGED <<live, failure>>

NoValue == step = "value" /\ ahead \notin {"scalar", "string"} \cup Openers /\ Fail("text")

\* Either bracket ends either list.
MutCloses(kind, token) == token \in {"]", "}"}

Closes(kind, token) == token = IF kind = "[" THEN "]" ELSE "}"

Close ==
  /\ step \in {"first", "more"} /\ Closes(Top.kind, ahead)
  /\ Parsed(Front(frames), Top.kind, Top.kids)
  /\ UNCHANGED live

\* An empty list is not looked for.
MutFirst ==
  /\ step = "first"
  /\ step' = "item"
  /\ Stay /\ UNCHANGED <<frames, live, failure>>

First ==
  /\ step = "first" /\ ~Closes(Top.kind, ahead)
  /\ step' = "item"
  /\ Stay /\ UNCHANGED <<frames, live, failure>>

More ==
  /\ step = "more" /\ ~Closes(Top.kind, ahead)
  /\ IF ahead # "," THEN Fail("text")
     ELSE step' = "item" /\ Stay /\ UNCHANGED <<frames, live, failure>>

\* Without require_null_terminated what follows the value is not looked at.
Root ==
  /\ step = "root"
  /\ IF strict /\ ahead # "end" THEN Fail("text")
     ELSE step' = "done" /\ Stay /\ UNCHANGED <<frames, live, failure>>

\* The allocations of items: each one, each string and each key.
Size(items) ==
  Len(items) + Cardinality({i \in DOMAIN items : items[i].kind = "string"})
             + Cardinality({i \in DOMAIN items : items[i].keyed})

\* The item whose value did not parse is forgotten, as it is not in its list yet.
MutHeld(f) == Size(f.kids)

\* What cJSON_Delete(head) frees: the items of the list and the current one.
Held(f) == Size(f.kids) + f.current

\* goto fail, in the innermost call first, at last in cJSON_ParseWithOpts.
Unwind ==
  /\ step = "unwind"
  /\ live' = live - Held(Top)
  /\ IF Len(frames) = 1
     THEN frames' = <<NewFrame("root")>> /\ step' = "done"
     ELSE frames' = Front(frames) /\ UNCHANGED step
  /\ Stay /\ UNCHANGED failure

ParserNext ==
  /\ \/ NewItem \/ Key \/ Colon \/ Scalar \/ String \/ Open \/ NoValue
     \/ Close \/ First \/ More \/ Root \/ Unwind
  /\ UNCHANGED strict

ParserSpec == ParserInit /\ [][ParserNext]_parserVars

-----------------------------------------------------------------------------
(***************************************************************************)
(* Reference: the texts of values up to MaxTokens tokens, by their length. *)
(***************************************************************************)

Joined(as, bs, sep) == {a \o sep \o b : a \in as, b \in bs}

\* texts[n].v holds the values of n tokens, .a and .o what may be inside
\* brackets and braces, not empty.
JsonTexts ==
  LET texts[n \in Nat] ==
        IF n = 0 THEN <<>>
        ELSE LET before == texts[n - 1]
                 of(k, f) == IF k \in DOMAIN before THEN before[k][f] ELSE {}
                 empty == IF n = 2 THEN {<<"[", "]">>, <<"{", "}">>} ELSE {}
                 leaves == IF n = 1 THEN {<<"scalar">>, <<"string">>} ELSE {}
                 inside(f, l, r) == IF n < 3 THEN {} ELSE {<<l>> \o s \o <<r>> : s \in of(n - 2, f)}
                 v == leaves \cup empty \cup inside("a", "[", "]") \cup inside("o", "{", "}")
                 pair(k) == IF k < 3 THEN {}
                            ELSE Joined({<<"string">>}, IF k - 2 = n THEN v ELSE of(k - 2, "v"), <<":">>)
                 a == v \cup UNION {Joined(of(k, "a"), of(n - k - 1, "v"), <<",">>) : k \in 1 .. n - 1}
                 o == pair(n) \cup UNION {Joined(of(k, "o"), pair(n - k - 1), <<",">>) : k \in 1 .. n - 2}
             IN Append(before, [v |-> v, a |-> a, o |-> o])
  IN UNION {texts[MaxTokens][n].v : n \in 1 .. MaxTokens}

Closers(open, depth) ==
  [i \in 1 .. Len(open) - depth |-> IF open[Len(open) + 1 - i] = "[" THEN "]" ELSE "}"]

\* One more item is written: w.open are the lists it may be in.
Write(w, item) ==
  LET before == w.text \o Closers(w.open, item.depth - 1)
      comma == IF before = <<>> \/ Last(before) \in Openers THEN <<>> ELSE <<",">>
      key == IF item.keyed THEN <<"string", ":">> ELSE <<>>
      around == SubSeq(w.open, 1, item.depth - 1)
  IN [text |-> before \o comma \o key \o <<item.kind>>,
      open |-> IF item.kind \in Openers THEN Append(around, item.kind) ELSE around]

TextOf(items) ==
  LET w == FoldLeft(Write, [text |-> <<>>, open |-> <<>>], items)
  IN w.text \o Closers(w.open, 0)

-----------------------------------------------------------------------------
(***************************************************************************)
(* Properties.                                                             *)
(***************************************************************************)

Items == [kind : {"scalar", "string"} \cup Openers, depth : Nat \ {0}, keyed : BOOLEAN]

Frames == [kind : {"root"} \cup Openers, kids : Seq(Items), current : 0 .. 2]

ParserTypeOK ==
  /\ text \in Seq(JsonTokens) /\ ahead \in JsonTokens /\ strict \in BOOLEAN
  /\ frames \in Seq(Frames) /\ frames # <<>>
  /\ \A i \in DOMAIN frames : frames[i].kind = "root" <=> i = 1
  /\ step \in {"item", "key", "colon", "value", "first", "more", "root", "unwind", "done"}
  /\ live \in Nat
  /\ failure \in {"none", "memory", "depth", "text"}

Result == Top.kids

\* The tree that cJSON_Parse returns is the one the text says: printed again it
\* is the text that was read, and that is a JSON value.
TreeIsText ==
  step = "done" /\ Result # <<>> => TextOf(Result) = text /\ text \in JsonTexts

\* A text is refused as wrong only where no JSON value goes on like that.
ValuesAreParsed ==
  failure = "text" => \A v \in JsonTexts : ~IsPrefix(Append(text, ahead), v)

\* cJSON_Parse accepts the texts that are JSON values, and returns what they say.
JsonIsUnderstood == TreeIsText /\ ValuesAreParsed

\* When cJSON_Parse fails, whatever made it fail and however deep, it has given
\* back everything; when it succeeds, the tree is all there is.
NothingLeaks ==
  step = "done" => live = IF failure = "none" THEN Size(Result) ELSE 0

================================================================================
