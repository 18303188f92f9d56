--------------------------- MODULE MCManpageCache ---------------------------
(***************************************************************************)
(* An instance of ManpageCache: one process that runs the script again and *)
(* again.                                                                  *)
(***************************************************************************)
EXTENDS ManpageCache

CONSTANT first
=============================================================================
