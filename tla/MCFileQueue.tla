---------------------------- MODULE MCFileQueue ----------------------------
(* Two pages, the first with two spellings, and a string that does not      *)
(* parse.  The name of the second spelling is too long for the file system. *)
EXTENDS FileCrawl, TLC

CONSTANTS a, A, b, bad

MCUrls == {a, A, b, bad}
MCKeys == {a, b}
MCStorageKeys == {a, A, b}
MCnormalizeURL == (A :> a) @@ (bad :> Invalid) @@ [u \in MCKeys |-> u]

MCkeyBytes ==
  (a :> <<"space", "filtered", "plain">>) @@ (A :> [i \in 1 .. 9 |-> "plain"])
    @@ (b :> <<"dot", "dot">>)

MCfileName ==
  (a :> <<"plain", "plain">>) @@ (A :> [i \in 1 .. NameMax |-> "plain"])
    @@ (b :> fallbackFilename \o <<"dot", "dot">>)

\* A name and its extension, here of one byte, have NameMax bytes together.
MCNameable == {n \in {MCfileName[u] : u \in MCStorageKeys} : Len(n) + 1 <= NameMax}

MCWorkersSymmetry == Permutations(Workers)
=============================================================================
