---------------------------- MODULE MCDfuTool ----------------------------
(***************************************************************************)
(* Instances of DfuTool: the three tools with their hooks, and an          *)
(* application of its own.  The counters are small, so that a doubling     *)
(* would wrap within an episode.                                           *)
(***************************************************************************)
EXTENDS DfuTool

Tool(kind, shape, overall) ==
  [kind |-> kind, shape |-> shape, overall |-> overall, first |-> 1, ceiling |-> 6, max |-> 4,
   mode |-> "test", stop |-> FALSE, hook |-> TRUE, drops |-> IF kind = "app" THEN 0 ELSE 1]

MCTools ==
  {Tool("cli", "loop", 4), [Tool("cli", "loop", 4) EXCEPT !.mode = "immediately"],
   Tool("serial", "uart", 4), Tool("serial", "cdc", 4), Tool("winrt", "radio", Off),
   [Tool("winrt", "radio", Off) EXCEPT !.mode = "upload"],
   [Tool("winrt", "radio", Off) EXCEPT !.stop = TRUE],
   Tool("confirm", "radio", Off), Tool("app", "radio", 2),
   [Tool("app", "radio", 2) EXCEPT !.stop = TRUE],
   [Tool("app", "radio", Off) EXCEPT !.hook = FALSE]}
=============================================================================
