--------------------------- MODULE MCSQLiteQueue ---------------------------
(* Two pages, one of them with two spellings, and a string that does not    *)
(* parse.                                                                    *)
EXTENDS SQLiteQueue, TLC

CONSTANTS a, A, b, bad

MCUrls == {a, A, b, bad}
MCKeys == {a, b}
MCnormalizeURL == (a :> a) @@ (A :> a) @@ (b :> b) @@ (bad :> Invalid)
=============================================================================
