---------------------------- MODULE MCPromptSend ----------------------------
(* Every tab starts from one of five situations: the kinds of send, on a    *)
(* page at rest, in an earlier turn or showing the rate limit.              *)
EXTENDS PromptSend

MCBackoff == <<1, 2>>

Start(stealth, images, surface, composer, indicator) ==
  <<[stealth |-> stealth, images |-> images],
    [surface |-> surface, composer |-> composer, indicator |-> indicator, taken |-> 0]>>

MCStarts ==
  {Start(FALSE, FALSE, "limited", "other", "none"),
   Start(FALSE, FALSE, "open", "empty", "old"),
   Start(FALSE, TRUE, "open", "empty", "none"),
   Start(TRUE, FALSE, "open", "empty", "stray"),
   Start(TRUE, TRUE, "limited", "empty", "none")}
=============================================================================
