------------------------------ MODULE MCMagic ------------------------------
(***************************************************************************)
(* Threads asking for two option sets, with every way a call can fail.     *)
(***************************************************************************)
EXTENDS Magic

CONSTANTS plain, mime, t1, t2, t3

Ask(f, target) == [flags |-> f, file |-> "ok", target |-> target, sound |-> TRUE]

MCRequests ==
  {Ask(plain, "string"), Ask(mime, "io"), Ask(plain, "other"),
   [Ask(mime, "array") EXCEPT !.sound = FALSE], [Ask(plain, "io") EXCEPT !.sound = FALSE],
   [Ask(mime, "string") EXCEPT !.file = "rejected"],
   [Ask(mime, "string") EXCEPT !.file = "not a string"]}
=============================================================================
