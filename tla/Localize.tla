------------------------------ MODULE Localize ------------------------------
(***************************************************************************)
(* The translation layer: the language a message reveals, and the outcome  *)
(* of translating the texts of a reply. Operators only. A text is one of a *)
(* few kinds; those in Fixed are the same every time and so may be found   *)
(* in the cache, the others are new every time.                            *)
(***************************************************************************)
EXTENDS Naturals, FiniteSets

CONSTANTS
  Fixed,     (* texts that repeat word for word                            *)
  Glossary   (* texts with an authoritative translation                    *)

Languages == {"en", "ta", "hi"}

(* detect_lang tells languages by their script: a label without letters,   *)
(* and Tamil or Hindi in Latin letters, are English.                       *)
Scripts == [none |-> "en", latin |-> "en", tamil |-> "ta", devanagari |-> "hi"]

(* What the cache holds for a text in a language. *)
CacheValues == {"nothing", "translation", "original"}

InCache(cache, x, lang) == x \in Fixed /\ cache[<<x, lang>>] # "nothing"

(* translate_many asks the model only for what neither the glossary nor    *)
(* the cache has.                                                          *)
Todo(cache, texts, lang) == {x \in texts \ Glossary : ~InCache(cache, x, lang)}

(* Mutant: the original that was kept is cached as well. *)
CachedAll(cache, texts, lang, done) ==
  [k \in DOMAIN cache |->
     IF k[2] = lang /\ k[1] \in Todo(cache, texts, lang)
     THEN (IF k[1] \in done THEN "translation" ELSE "original") ELSE cache[k]]

(* The translations are cached, the originals that were kept are not. *)
Cached(cache, texts, lang, done) ==
  [k \in DOMAIN cache |-> IF k[2] = lang /\ k[1] \in done THEN "translation" ELSE cache[k]]

(* What is read in English by somebody else, when the model translated     *)
(* `done`.                                                                 *)
LeftInEnglish(cache, texts, lang, done) ==
  {x \in texts \ Glossary :
     IF InCache(cache, x, lang) THEN cache[<<x, lang>>] = "original" ELSE x \notin done}
=============================================================================
