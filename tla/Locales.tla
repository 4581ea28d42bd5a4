--------------------------------- MODULE Locales ---------------------------------
(***************************************************************************)
(* The translations: cHTTPX_i18n loads the files of a directory into       *)
(* i18n_manager, cHTTPX_i18n_t looks a key up, an entry at a time, and at  *)
(* exit i18n_shutdown frees what is being read.  A file is called after a  *)
(* language of at most seven characters; there is memory for the entries.  *)
(***************************************************************************)
EXTENDS Naturals, SequencesExt

CONSTANTS
  Directories,  \* what readdir() returns, in order: files [language, json, content]
  NoDirectory,
  Unreadable,   \* a file that is not there, not read whole, or not a JSON object
  NoText,       \* the value of a member that is not a string
  TextKeys,     \* keys that are asked for
  Codes,        \* languages that are asked for
  NoLanguage,
  MaxLocales,   \* MAX_LOCALES
  NoEntry

ASSUME LocalesAssumption ==
  /\ MaxLocales \in Nat \ {0} /\ NoLanguage \notin Codes
  /\ NoDirectory \notin Directories
  /\ \A d \in Directories :
       /\ d \in Seq(ToSet(d))
       /\ \A f \in ToSet(d) : f.json \in BOOLEAN
       /\ \A f \in ToSet(d) : f.content # Unreadable =>
            f.content \in Seq(ToSet(f.content)) /\ NoEntry \notin ToSet(f.content)

VARIABLES
  directory, \* the files not read yet
  loading,   \* where cHTTPX_i18n is: "call", "read" or "done"
  manager,   \* i18n_manager->locales
  exists,    \* i18n_manager # NULL
  reader,    \* where cHTTPX_i18n_t is: "call", "search", "done" or "crashed"
  asked,     \* its key and lang
  entries,   \* loc->entries
  index,     \* from 1
  result,
  exited,    \* history: i18n_shutdown has run
  files      \* history: the directory

localeVars ==
  <<directory, loading, manager, exists, reader, asked, entries, index, result, exited, files>>

LocaleInit ==
  /\ directory \in Directories \cup {NoDirectory} /\ files = directory
  /\ loading = "call"
  /\ manager = <<>> /\ exists = FALSE
  /\ reader = "call"
  /\ asked \in TextKeys \X (Codes \cup {NoLanguage})
  /\ entries = <<>> /\ index = 1
  /\ result = NoText
  /\ exited = FALSE

NotLoading == UNCHANGED <<directory, loading, manager, exists, files>>

NotReading == UNCHANGED <<reader, asked, entries, index, result>>

-----------------------------------------------------------------------------
(***************************************************************************)
(* cHTTPX_i18n, called before the server listens.                          *)
(***************************************************************************)

\* Without a directory, or memory, there is no manager.
Open18n ==
  /\ loading = "call"
  /\ \/ directory # NoDirectory /\ exists' = TRUE /\ loading' = "read"
     \/ exists' = FALSE /\ loading' = "done"
  /\ NotReading /\ UNCHANGED <<directory, manager, exited, files>>

IsText(member) == member.value # NoText

\* Each member that is not a string leaves a hole where it was.
MutLoaded(content) ==
  IF content = Unreadable THEN <<>>
  ELSE [i \in DOMAIN content |-> IF IsText(content[i]) THEN content[i] ELSE NoEntry]

Texts(content) == {i \in DOMAIN content : IsText(content[i])}

\* load_locale_file: there is an entry for each member, but those that are not
\* strings leave theirs empty, at the end.
Loaded(content) ==
  LET at(k) == {i \in Texts(content) : Cardinality({j \in Texts(content) : j <= i}) = k}
  IN IF content = Unreadable THEN <<>>
     ELSE [k \in DOMAIN content |-> IF at(k) = {} THEN NoEntry ELSE content[CHOOSE i \in at(k) : TRUE]]

LoadFile ==
  /\ loading = "read" /\ directory # <<>>
  /\ LET file == Head(directory) IN
       IF ~file.json
       THEN directory' = Tail(directory) /\ UNCHANGED <<loading, manager>>
       ELSE IF Len(manager) >= MaxLocales
       THEN loading' = "done" /\ UNCHANGED <<directory, manager>>
       ELSE /\ manager' = Append(manager, [locale |-> file.language, entries |-> Loaded(file.content)])
            /\ directory' = Tail(directory)
            /\ UNCHANGED loading
  /\ NotReading /\ UNCHANGED <<exists, exited, files>>

CloseDirectory ==
  /\ loading = "read" /\ directory = <<>>
  /\ loading' = "done"
  /\ NotReading /\ UNCHANGED <<directory, manager, exists, exited, files>>

-----------------------------------------------------------------------------
(***************************************************************************)
(* cHTTPX_i18n_t                                                           *)
(***************************************************************************)

WithLocale(code) == {i \in DOMAIN manager : manager[i].locale = code}

\* The last locale stands in for a language that there is not.
MutLocaleFor(code) ==
  IF WithLocale(code) = {} THEN Len(manager) ELSE CHOOSE i \in WithLocale(code) : \A j \in WithLocale(code) : i <= j

\* The first locale of the language, or else the first of all.
LocaleFor(code) ==
  IF WithLocale(code) = {} THEN 1 ELSE CHOOSE i \in WithLocale(code) : \A j \in WithLocale(code) : i <= j

\* default_locale is NULL when no file was loaded.
Translate ==
  /\ reader = "call" /\ loading = "done"
  /\ \/ /\ ~exists
        /\ reader' = "done" /\ result' = asked[1] /\ UNCHANGED entries
     \/ /\ exists /\ manager = <<>>
        /\ reader' = "crashed" /\ UNCHANGED <<entries, result>>
     \/ /\ exists /\ manager # <<>>
        /\ reader' = "search" /\ entries' = manager[LocaleFor(asked[2])].entries
        /\ UNCHANGED result
  /\ NotLoading /\ UNCHANGED <<asked, index, exited>>

\* One entry is compared.  It may be empty; after exit it is freed memory, which
\* may still be as it was.
Compare ==
  /\ reader = "search" /\ index <= Len(entries)
  /\ \/ /\ entries[index] = NoEntry \/ exited
        /\ reader' = "crashed" /\ UNCHANGED <<index, result>>
     \/ /\ entries[index] # NoEntry /\ entries[index].key = asked[1]
        /\ reader' = "done" /\ result' = entries[index].value /\ UNCHANGED index
     \/ /\ exited \/ (entries[index] # NoEntry /\ entries[index].key # asked[1])
        /\ index' = index + 1 /\ UNCHANGED <<reader, result>>
  /\ NotLoading /\ UNCHANGED <<asked, entries, exited>>

KeyItself ==
  /\ reader = "search" /\ index > Len(entries)
  /\ reader' = "done" /\ result' = asked[1]
  /\ NotLoading /\ UNCHANGED <<asked, entries, index, exited>>

\* i18n_shutdown, while the threads of clients still run.
Exit18n ==
  /\ loading = "done" /\ ~exited
  /\ exited' = TRUE
  /\ manager' = <<>> /\ exists' = FALSE
  /\ NotReading /\ UNCHANGED <<directory, loading, files>>

LocaleNext ==
  Open18n \/ LoadFile \/ CloseDirectory \/ Translate \/ Compare \/ KeyItself \/ Exit18n

LocaleSpec == LocaleInit /\ [][LocaleNext]_localeVars

-----------------------------------------------------------------------------
(***************************************************************************)
(* Properties.                                                             *)
(***************************************************************************)

LocaleTypeOK ==
  /\ loading \in {"call", "read", "done"} /\ exists \in BOOLEAN /\ exited \in BOOLEAN
  /\ Len(manager) <= MaxLocales
  /\ reader \in {"call", "search", "done", "crashed"}
  /\ index \in 1 .. Len(entries) + 1

\* The files that count: the first MaxLocales of those called .json.
JsonFiles == IF files = NoDirectory THEN {} ELSE {i \in DOMAIN files : files[i].json}

Counted == {i \in JsonFiles : Cardinality({j \in JsonFiles : j <= i}) <= MaxLocales}

Wanted ==
  LET own == {i \in Counted : files[i].language = asked[2]}
      best == IF own = {} THEN Counted ELSE own
      file == files[CHOOSE i \in best : \A j \in best : i <= j]
  IN IF Counted = {} \/ file.content = Unreadable THEN <<>> ELSE file.content

\* "If the language is not found, the default locale is used. If the key is not
\* found, the key itself is returned", and if it is, the text of the file, the
\* first with the key as long as the program does not exit.
TranslationIsOfFile ==
  reader = "done" =>
    LET texts == {i \in Texts(Wanted) : Wanted[i].key = asked[1]} IN
      \/ result = asked[1] /\ (texts = {} \/ ~exists)
      \/ \E i \in texts : result = Wanted[i].value /\ (exited \/ \A j \in texts : i <= j)

\* A translation fails only over a member that is not a string in a file that
\* does not have the key as well, a directory without files, or at exit.
CrashNeedsHole ==
  reader = "crashed" =>
    \/ exited \/ Counted = {}
    \/ /\ \E i \in DOMAIN Wanted : ~IsText(Wanted[i])
       /\ \A i \in DOMAIN Wanted : Wanted[i].key = asked[1] => ~IsText(Wanted[i])

\* Every lookup ends with the right text, or has a reason to crash.
LookupIsRight == TranslationIsOfFile /\ CrashNeedsHole

================================================================================
