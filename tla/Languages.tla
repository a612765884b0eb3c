----------------------------- MODULE Languages ------------------------------
(***************************************************************************)
(* A language on its way through the program: read from a config or from   *)
(* what a State detected, held as a Lang, given to Params as a hint, to a  *)
(* model as a token, and written to the config again.                      *)
(*                                                                         *)
(* Three tables meet: the named variants of Lang, native code's table of   *)
(* codes and English names, which may be newer, and the languages of the   *)
(* loaded model, which may be fewer.                                       *)
(*                                                                         *)
(* A text is a word in a casing.                                           *)
(***************************************************************************)
EXTENDS Integers, Sequences

CONSTANTS
  Texts,       (* what people write                                        *)
  Length,      (* the bytes of each word                                   *)
  NonLetters,  (* words with something else than ASCII letters             *)
  UpToNul,     (* the word before the NUL of each word that has one inside *)
  Named,       (* the codes of the named variants                          *)
  Table,       (* native code's table: the code and English name of ids 0, 1 .. *)
  Models       (* sot, the first task token, multilingual                  *)

Words   == {text.word : text \in Texts}
Lower(text) == [text EXCEPT !.casing = "lower"]
Written(word) == [word |-> word, casing |-> "lower"]

LanguagesAssumption ==
  /\ Texts \subseteq [word : Words, casing : {"lower", "Title", "tAIL", "UPPER", "mIx"}]
  /\ \A text \in Texts :
       /\ Length[text.word] \in Nat
       /\ Lower(text) \in Texts
       \* two letters have four casings
       /\ Length[text.word] = 2 => text.casing # "mIx"
  /\ Table \in Seq([code : Words, name : Words])
  \* whisper.cpp's codes are of two or three ASCII letters, none of them a sentinel
  /\ \A i \in DOMAIN Table :
       /\ Length[Table[i].code] \in 2..3 /\ Table[i].code \notin NonLetters
       /\ {"", "auto"} \cap {Table[i].code, Table[i].name} = {}
  /\ \A model \in Models : /\ {model.sot, model.translate} \subseteq Nat
                           /\ model.sot + 1 < model.translate /\ model.multilingual \in BOOLEAN

None    == -1          \* as an id or token
NoLang  == [kind |-> "none", text |-> Written("")]
NoText  == Written("no text")

VARIABLES
  lang,      \* the Lang in the program's hands
  file,      \* the config
  hint,      \* the hint in Params
  forced,    \* the Lang the hint was written from, if any
  detect,    \* set_detect_language: native code is to detect, whatever the hint
  answer,    \* what full said last
  detected   \* the id whisper_full_lang_id_from_state gives

vars == <<lang, file, hint, forced, detect, answer, detected>>

-----------------------------------------------------------------------------
(***************************************************************************)
(* Lang.                                                                   *)
(***************************************************************************)
Variant(code) == [kind |-> "named", text |-> Written(code)]
Other(text)   == [kind |-> "other", text |-> text]

AsStr(l) == l.text

\* Each arm lists the casings of its code: all of two letters, and of three those
\* whose tail is in one case.
IsListed(text) == text.word \in Named /\ text.casing # "mIx"

FromIso639_1(text)    == IF IsListed(text) THEN Variant(text.word) ELSE Other(text)
TryFromIso639_1(text) == IF IsListed(text) THEN Variant(text.word) ELSE NoLang

\* Mutated forms of definitions below, in no specification.
DeserializeUnnamed(text)   == IF text.casing = "lower" THEN FromIso639_1(text) ELSE Other(Lower(text))
TokenUnchecked(model, id) == model.sot + 1 + id

IsRefused(text) == Length[text.word] \notin 1..8 \/ text.word \in NonLetters

\* Lowercased first, if it has to be.
Deserialize(text) ==
  IF text.casing = "lower" THEN FromIso639_1(text)
  ELSE LET l == TryFromIso639_1(Lower(text)) IN IF l = NoLang THEN Other(Lower(text)) ELSE l

-----------------------------------------------------------------------------
(***************************************************************************)
(* Native code's table.                                                    *)
(***************************************************************************)
Ids == 0..Len(Table) - 1

\* A C string ends at its first NUL; the table knows lower case.
WhisperLangId(text) ==
  LET word    == IF text.word \in DOMAIN UpToNul THEN UpToNul[text.word] ELSE text.word
      matches == {id \in Ids : word \in {Table[id + 1].code, Table[id + 1].name}}
  IN IF text.casing = "lower" /\ matches # {} THEN CHOOSE id \in matches : TRUE ELSE None

HasNul(text) == text.word \in DOMAIN UpToNul

\* lang_id_for, of a lookup that finds memory.
LangIdFor(text) == IF Length[text.word] > 32 \/ HasNul(text) THEN None ELSE WhisperLangId(text)

LangMaxId == Len(Table) - 1

\* full_name.
FullName(l) ==
  LET id == LangIdFor(AsStr(l)) IN IF id = None THEN "none" ELSE Table[id + 1].name

\* whisper_token_lang adds.
TokenLang(model, id) == model.sot + 1 + id
IsLanguageToken(model, token) == token > model.sot /\ token < model.translate

RangeChecked(model, id) ==
  IF IsLanguageToken(model, TokenLang(model, id)) THEN TokenLang(model, id) ELSE None

TokenForLang(l, model) ==
  LET id == LangIdFor(AsStr(l)) IN
    IF ~model.multilingual \/ id = None THEN None ELSE RangeChecked(model, id)

-----------------------------------------------------------------------------
(***************************************************************************)
(* The hint.                                                               *)
(***************************************************************************)
IsAuto(text) == text.casing = "lower" /\ text.word \in {"", "auto"}

\* set_language stores it.
Accepts(text) ==
  /\ Length[text.word] <= 32 /\ ~HasNul(text)
  /\ IsAuto(text) \/ LangIdFor(text) # None

\* full detects if it is told to or has no hint.
AutoDetects(text, on) == on \/ IsAuto(text)

\* full's check of the stored hint against the model of the call, of a lookup that
\* finds memory.
Suits(text, on, model) ==
  IF AutoDetects(text, on) THEN model.multilingual
  ELSE LET id == LangIdFor(text) IN
         /\ id # None
         /\ IF model.multilingual THEN IsLanguageToken(model, TokenLang(model, id)) ELSE id = 0

\* The id native code leaves in the State.
IdsOf(text, on, model) ==
  IF ~model.multilingual THEN {0}
  ELSE IF AutoDetects(text, on) THEN {id \in Ids : IsLanguageToken(model, TokenLang(model, id))}
  ELSE {WhisperLangId(text)}

DetectedLang == FromIso639_1(Written(Table[detected + 1].code))

-----------------------------------------------------------------------------
TypeOK ==
  /\ lang = NoLang \/ (lang.kind \in {"named", "other"} /\ lang.text \in Texts)
  /\ {file, hint} \subseteq Texts \cup {NoText}
  /\ forced = NoLang \/ forced.text \in Texts
  /\ detect \in BOOLEAN
  /\ answer \in {"none", "ran", "LanguageNotSupportedByModel"}
  /\ detected \in Ids \cup {None}

\* Params::new leaves native code's "en".
Init ==
  /\ lang = NoLang /\ file = NoText
  /\ hint = Written("en") /\ forced = NoLang /\ detect = FALSE
  /\ answer = "none" /\ detected = None

\* The program names a language, or detected_lang does.
Constructs(text) ==
  /\ lang' = FromIso639_1(text)
  /\ UNCHANGED <<file, hint, forced, detect, answer, detected>>

Tries(text) ==
  /\ TryFromIso639_1(text) # NoLang
  /\ lang' = TryFromIso639_1(text)
  /\ UNCHANGED <<file, hint, forced, detect, answer, detected>>

Detects ==
  /\ detected \in 0..LangMaxId
  /\ lang' = DetectedLang
  /\ UNCHANGED <<file, hint, forced, detect, answer, detected>>

\* The config: edited, written by serialize, read by deserialize.
Edits(text) ==
  /\ file' = text
  /\ UNCHANGED <<lang, hint, forced, detect, answer, detected>>

Saves ==
  /\ lang # NoLang
  /\ file' = AsStr(lang)
  /\ UNCHANGED <<lang, hint, forced, detect, answer, detected>>

Loads ==
  /\ file # NoText
  /\ lang' = IF IsRefused(file) THEN NoLang ELSE Deserialize(file)
  /\ UNCHANGED <<file, hint, forced, detect, answer, detected>>

\* set_language, with a text or with as_str() of a Lang.  A hint that it refuses,
\* or whose lookup finds no memory, leaves the old one.
SetLanguage(text) ==
  /\ Accepts(text)
  /\ hint' = text /\ forced' = NoLang /\ answer' = "none"
  /\ UNCHANGED <<lang, file, detect, detected>>

SetLanguageOf ==
  /\ lang # NoLang /\ Accepts(AsStr(lang))
  /\ hint' = AsStr(lang) /\ forced' = lang /\ answer' = "none"
  /\ UNCHANGED <<lang, file, detect, detected>>

\* The hint stays, for when it is turned off again.
SetDetectLanguage(on) ==
  /\ detect' = on /\ answer' = "none"
  /\ UNCHANGED <<lang, file, hint, forced, detected>>

\* full, its language check and the id it leaves.  A lookup may find no memory.
FullRejects(model) ==
  /\ ~Suits(hint, detect, model) \/ ~AutoDetects(hint, detect)
  /\ answer' = "LanguageNotSupportedByModel"
  /\ UNCHANGED <<lang, file, hint, forced, detect, detected>>

FullRuns(model) ==
  /\ Suits(hint, detect, model)
  /\ answer' = "ran"
  /\ detected' \in IdsOf(hint, detect, model)
  /\ UNCHANGED <<lang, file, hint, forced, detect>>

Next ==
  \/ \E text \in Texts : Constructs(text) \/ Tries(text) \/ Edits(text) \/ SetLanguage(text)
  \/ \E on \in BOOLEAN : SetDetectLanguage(on)
  \/ Detects \/ Saves \/ Loads \/ SetLanguageOf
  \/ \E model \in Models : FullRejects(model) \/ FullRuns(model)

Spec == Init /\ [][Next]_vars

-----------------------------------------------------------------------------
(***************************************************************************)
(* Properties.                                                             *)
(***************************************************************************)
\* Native code's English names are texts it takes and Lang does not know.
IsEnglishName(text) == \E i \in DOMAIN Table : text.word = Table[i].name

\* A language that was forced comes back as the same value of the same type from
\* detected_lang, written to the config and read again in between or not, whether
\* Lang names it or the native table is newer: equality and hashing work on what
\* comes from both ends.  The exceptions are auto, of which a model makes one of
\* its languages, an English name, which comes back as the code, and detection turned
\* on, which ignores the hint; turned off again, the hint holds as before.
ForcedLanguageComesBack ==
  answer = "ran" /\ ~detect /\ forced # NoLang /\ ~IsAuto(hint) /\ ~IsEnglishName(hint) =>
    /\ DetectedLang = forced
    /\ ~IsRefused(AsStr(forced)) /\ Deserialize(AsStr(forced)) = forced

\* The token of a Lang and the hint made of it, with detection off, are refused or
\* accepted by the same models, although three functions in three files decide that:
\* a program may seed the prompt with the one or set the other.  With detection on the
\* hint is not looked at, and says nothing about the token.  The token is a language of this model,
\* never a task token, and that of the language whose name full_name gives.
HintAndTokenAgree ==
  lang # NoLang =>
    \A model \in Models :
      LET token == TokenForLang(lang, model)
          text  == AsStr(lang)
      IN /\ token # None <=>
              /\ model.multilingual /\ ~IsAuto(text)
              /\ Accepts(text) /\ Suits(text, FALSE, model)
         /\ token # None =>
              /\ token \in model.sot + 1 .. model.translate - 1
              /\ FullName(lang) = Table[token - model.sot].name
=============================================================================
