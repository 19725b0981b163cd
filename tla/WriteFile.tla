----------------------------- MODULE WriteFile -----------------------------
(***************************************************************************)
(* os.WriteFile, as storage.FileQueue and storage.FileStorage use it: it   *)
(* opens and truncates the file, and then writes it.  It fails on opening  *)
(* (no permission, no file descriptor left) and leaves the file as it was, *)
(* or later (a full disk, a process that dies) and leaves a content that   *)
(* does not unmarshal.  An error of close(2) over a file that is whole is  *)
(* left out.                                                               *)
(***************************************************************************)

Outcomes == {"whole", "torn", "failed"}

\* The content of the file after the call, `cut` if it was torn.
AfterWrite(io, old, new, cut) ==
  IF io = "whole" THEN new ELSE IF io = "torn" THEN cut ELSE old

\* What the call returns.
IsNil(io) == io = "whole"
=============================================================================
