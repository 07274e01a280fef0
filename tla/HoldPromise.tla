---------------------------- MODULE HoldPromise ----------------------------
(***************************************************************************)
(* What the hold store promises those who answer questions, with no rows,   *)
(* entry points or transactions: a question is asked once, is with one      *)
(* client at a time or on offer, and may be withdrawn at any time; the only *)
(* client that answers it is the one that closes it while it is taken.      *)
(*                                                                         *)
(* A question does not know its taker: llm_states has a status and no       *)
(* claimant, so a claim may be returned under a client that is still at     *)
(* work, and that client answers if the question happens to be taken again. *)
(***************************************************************************)
CONSTANTS Question,   \* holds
          Client      \* requests

VARIABLES phase,    \* "unasked", "open", "taken" or "closed", for each question
          answer    \* the clients whose answer it took: one at most

vars == <<phase, answer>>

Init ==
  /\ phase = [q \in Question |-> "unasked"]
  /\ answer = [q \in Question |-> {}]

Moved(Q, p) == [q \in Question |-> IF q \in Q THEN p ELSE phase[q]]

Ask(q) ==
  /\ phase[q] = "unasked"
  /\ phase' = Moved({q}, "open")
  /\ UNCHANGED answer

Take(q) ==
  /\ phase[q] = "open"
  /\ phase' = Moved({q}, "taken")
  /\ UNCHANGED answer

\* Anyone may put questions back that are taken (the client that failed, or one
\* that finds them taken for long) and withdraw others in the same transaction.
Revoke(back, gone) ==
  /\ \A q \in back : phase[q] = "taken"
  /\ \A q \in gone : phase[q] # "unasked"
  /\ phase' = [q \in Question |-> IF q \in gone THEN "closed"
                                 ELSE IF q \in back THEN "open" ELSE phase[q]]
  /\ UNCHANGED answer

Answer(q, c) ==
  /\ phase[q] = "taken"
  /\ phase' = Moved({q}, "closed")
  /\ answer' = [answer EXCEPT ![q] = {c}]

\* The client that answered goes away before it reports success.
Forfeit(q) ==
  /\ answer' = [answer EXCEPT ![q] = {}]
  /\ UNCHANGED phase

Next ==
  \/ \E q \in Question : \/ Ask(q)
                         \/ Take(q)
                         \/ \E c \in Client : Answer(q, c)
                         \/ Forfeit(q)
  \/ \E back, gone \in SUBSET Question : Revoke(back, gone)

Spec == Init /\ [][Next]_vars

\* A question is answered once and by one client, and it is over then.
OneAnswer ==
  \A q \in Question : answer[q] # {} => phase[q] = "closed" /\ \E c \in Client : answer[q] = {c}
=============================================================================
