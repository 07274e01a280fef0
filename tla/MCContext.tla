------------------------------ MODULE MCContext ------------------------------
(***************************************************************************)
(* The prompts Context is checked with.                                    *)
(***************************************************************************)
EXTENDS Context

\* A harness alone, one that quotes a block, and one that quotes half a block.
SomeHarnesses ==
  {<<"text">>, <<"text", "start", "old", "end", "text">>, <<"start", "text">>}

\* Nothing, a contract that quotes a block, and one that quotes a delimiter.
SomeContracts == {<<>>, <<"start", "old", "end">>, <<"finish", "start">>}

\* What both consist of.
Tokens == {"text", "start", "old", "now", "end", "begin", "finish"}

\* the prompts of the runs are those the theorem about them is about
ASSUME PromptsArePlain == Contracts = SomeContracts => PlainPrompts

\* A contract that quotes one of its own delimiters beside a block.
QuotingContracts == {<<"finish", "start", "old", "end">>}
=============================================================================
