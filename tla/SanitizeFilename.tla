-------------------------- MODULE SanitizeFilename --------------------------
(***************************************************************************)
(* storage.sanitize(key, 0, ""): the name of the file FileStorage keeps a  *)
(* key's data in, without its extension.  A string is a sequence of bytes, *)
(* told apart as far as the function does: white space, the characters its *)
(* filter replaces, the dot, and all others.  Unicode white space, which   *)
(* TrimSpace strips and the pattern [[:space:]] does not match, is left    *)
(* out, and so is a rune that the truncation cuts in two.                  *)
(***************************************************************************)
EXTENDS Integers, SequencesExt

CONSTANT NameMax  \* 255: the length sanitize truncates a name to

ASSUME NameMaxAssumption == NameMax \in Nat \ {0}

Chars == {"space", "filtered", "dot", "plain"}

\* "file", and the replacement "_".
fallbackFilename == <<"plain", "plain", "plain", "plain">>
Underscore == "plain"

\* strings.TrimSpace, of a string whose runs of spaces are single.
TrimSpace(s) ==
  LET t == IF s # <<>> /\ Head(s) = "space" THEN Tail(s) ELSE s IN
  IF t # <<>> /\ Last(t) = "space" THEN Front(t) ELSE t

\* replace(s, unicodeWhitespace, " "): only the first of several spaces is kept.
CollapseSpace(s) ==
  LET kept[i \in 0 .. Len(s)] ==
        IF i = 0 THEN <<>>
        ELSE IF s[i] = "space" /\ i > 1 /\ s[i - 1] = "space" THEN kept[i - 1]
        ELSE Append(kept[i - 1], s[i])
  IN TrimSpace(kept[Len(s)])

\* replace(s, characterFilter, "_").
ReplaceFiltered(s) ==
  TrimSpace([i \in DOMAIN s |-> IF s[i] = "filtered" THEN Underscore ELSE s[i]])

clean(s) == CollapseSpace(ReplaceFiltered(CollapseSpace(s)))

filterBlank(s) == IF s = <<>> THEN fallbackFilename ELSE s

\* A mutant of filterDot: the dot is dropped, as if it could not be repeated.
filterDot_Dropped(s) == IF s[1] = "dot" THEN Tail(s) ELSE s

filterDot(s) == IF s[1] = "dot" THEN fallbackFilename \o s ELSE s

sanitize(s) ==
  LET sc == filterDot(filterBlank(clean(s))) IN
  SubSeq(sc, 1, IF Len(sc) > NameMax THEN NameMax ELSE Len(sc))

-----------------------------------------------------------------------------
\* The name is a file of the directory itself: never empty, nor hidden or "..",
\* with no separator, and no longer than NameMax; and sanitizing it again changes
\* nothing unless it was truncated.
SafeName(name) ==
  /\ name # <<>> /\ Head(name) \notin {"dot", "space"}
  /\ \A i \in DOMAIN name : name[i] # "filtered"
  /\ Len(name) <= NameMax
  /\ Len(name) < NameMax => sanitize(name) = name
=============================================================================
