--------------------------- MODULE MCResponseStream ---------------------------
(* An instance of ResponseStream for TLC.                                    *)
EXTENDS ResponseStream

MCSymbols == {"<", "/", "t", "h", "o", ">", " ", "\"", "x"}

\* Two stop sequences: one overlaps itself, the other starts like it.
MCStops == <<<<"x", "x">>, <<" ", "x", " ">>>>

\* "x" is a call of f; a quoted closing tag is in the body of a call of g.
MCBodies ==
  [b \in {<<"x">>, <<"\"", "<", "/", "o", ">", "\"">>} |->
     IF b = <<"x">> THEN "f" ELSE "g"]

MCChunks ==
  {<<"x">>, <<" ">>, <<"<">>, <<"\"">>, <<"t", "o">>, <<">">>, <<"/", "o", ">">>,
   <<"t", "h">>, <<"/", "h">>, <<" ", "x">>,
   <<"<", "t", "o", ">", "x", "<">>, <<"x", "<", "t", "o", ">", "\"">>,
   <<"/", "o", ">", "\"", "<">>, <<"/", "h", " ", "<", "t", "h">>}

MCSettings ==
  {[protocol |-> "Responses", arch |-> "qwen3", choice |-> "auto"],
   [protocol |-> "Anthropic", arch |-> "qwen35", choice |-> "required"],
   [protocol |-> "Chat", arch |-> "qwen3", choice |-> "named"],
   [protocol |-> "Responses", arch |-> "plain", choice |-> "none"],
   [protocol |-> "Anthropic", arch |-> "qwen3", choice |-> "none"]}
===============================================================================
