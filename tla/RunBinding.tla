------------------------------ MODULE RunBinding ------------------------------
(***************************************************************************)
(* The system prompt of a segment: harness, binding block and the client's  *)
(* contract, and how the binding block is refreshed (binding_runtime.py,    *)
(* agui_messages.py).                                                      *)
(*                                                                         *)
(* A prompt is a sequence of tokens: "start" and "end" are the markers of a *)
(* binding block, "begin" and "finish" those of the mandatory UI contract.  *)
(***************************************************************************)
EXTENDS Naturals, Sequences, FiniteSets

At(s, token) == {i \in DOMAIN s : s[i] = token}

Piece(s, positions) ==
  LET at[i \in 0 .. Len(s)] ==
        IF i = 0 THEN <<>>
        ELSE IF i \in positions THEN Append(at[i - 1], s[i]) ELSE at[i - 1]
  IN  at[Len(s)]

\* _find_mandatory_ui_contract_span: the contract is opaque when there is exactly
\* one pair of its delimiters, in their order.
Opaque(s) ==
  LET begins == At(s, "begin")
      finishes == At(s, "finish")
  IN  IF Cardinality(begins) = 1 /\ Cardinality(finishes) = 1
      THEN {i \in DOMAIN s : \E b \in begins, f \in finishes : b <= i /\ i <= f}
      ELSE {}

\* Mutant: markers count wherever they are.
EveryMarker(s, token) == At(s, token)

\* The markers that count.
Markers(s, token) == At(s, token) \ Opaque(s)

Started(s, i) == Cardinality({j \in Markers(s, "start") : j <= i})

Ended(s, i) == Cardinality({j \in Markers(s, "end") : j < i})

\* A position of a block, its markers included.
InBlock(s, i) == Started(s, i) > Ended(s, i)

\* _parse_run_binding_blocks raises RUN_BINDING_AMBIGUOUS on anything else.
WellFormed(s) ==
  /\ \A i \in Markers(s, "start") \cup Markers(s, "end") : Started(s, i) = Ended(s, i) + 1
  /\ Cardinality(Markers(s, "start")) = Cardinality(Markers(s, "end"))

\* binding_system_prompt.
Block(binding) == <<"start", binding, "end">>

\* _apply_run_binding_to_content: every block goes, and one is put where the
\* first was, or at the end.
Refreshed(s, binding) ==
  LET kept == {i \in DOMAIN s : ~ InBlock(s, i)}
      starts == Markers(s, "start")
      before == {i \in kept : \A j \in starts : i < j}
  IN  IF starts = {} THEN s \o Block(binding)
      ELSE Piece(s, before) \o Block(binding) \o Piece(s, kept \ before)

\* build_authoritative_system_content: what the client says of the system comes
\* last, delimited.
Composed(prompt, contract) ==
  IF contract = <<>> THEN prompt ELSE prompt \o <<"begin">> \o contract \o <<"finish">>
=============================================================================
