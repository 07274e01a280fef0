---------------------------- MODULE SessionLease ----------------------------
(***************************************************************************)
(* What the run ledger promises its callers, with no rows, statuses or     *)
(* transactions: a run holds its execution and its conversation thread     *)
(* together and exclusively, under leases that others may only break after *)
(* they lapsed; a thread that is asked to close grants no further lease,   *)
(* and it closes when no live lease on it is left.                         *)
(***************************************************************************)
CONSTANTS Scope,   \* executions and threads
          Gated,   \* the scopes that can be closed: threads
          Holder   \* runs

VARIABLES gate,    \* "open", "closing" or "closed", for each gated scope
          held,    \* the scopes each holder has
          lapsed   \* holders whose lease others may break

vars == <<gate, held, lapsed>>

Init ==
  /\ gate = [g \in Gated |-> "open"]
  /\ held = [h \in Holder |-> {}]
  /\ lapsed = {}

\* The scopes broken leaves free.
Without(broken) == [h \in Holder |-> IF h \in broken THEN {} ELSE held[h]]

HoldersOf(S) == {h \in Holder : held[h] \cap S # {}}

\* A lease on all of S at once; leases in the way must have lapsed.
Acquire(h, S) ==
  /\ held[h] = {}
  /\ \A g \in S \cap Gated : gate[g] = "open"
  /\ HoldersOf(S) \subseteq lapsed
  /\ held' = [Without(HoldersOf(S)) EXCEPT ![h] = S]
  /\ lapsed' = lapsed \ HoldersOf(S)
  /\ gate' = gate

Release(h) ==
  /\ held[h] # {}
  /\ held' = Without({h})
  /\ lapsed' = lapsed \ {h}
  /\ gate' = gate

\* Anyone may break leases that lapsed.
Break(broken) ==
  /\ broken \subseteq lapsed
  /\ held' = Without(broken)
  /\ lapsed' = lapsed \ broken
  /\ gate' = gate

Lapse(h) ==
  /\ held[h] # {}
  /\ lapsed' = lapsed \cup {h}
  /\ UNCHANGED <<gate, held>>

\* A holder that still has its lease revives it.
Renew(h) ==
  /\ lapsed' = lapsed \ {h}
  /\ UNCHANGED <<gate, held>>

RequestClose(g) ==
  /\ gate[g] = "open"
  /\ gate' = [gate EXCEPT ![g] = "closing"]
  /\ UNCHANGED <<held, lapsed>>

\* The leases left on g have lapsed and are broken.
Close(g) ==
  /\ gate[g] = "closing"
  /\ HoldersOf({g}) \subseteq lapsed
  /\ gate' = [gate EXCEPT ![g] = "closed"]
  /\ held' = Without(HoldersOf({g}))
  /\ lapsed' = lapsed \ HoldersOf({g})

Next ==
  \/ \E h \in Holder : \/ \E S \in (SUBSET Scope) \ {{}} : Acquire(h, S)
                       \/ Release(h)
                       \/ Lapse(h)
                       \/ Renew(h)
  \/ \E broken \in SUBSET Holder : Break(broken)
  \/ \E g \in Gated : RequestClose(g) \/ Close(g)

Spec == Init /\ [][Next]_vars

\* No two runs hold the same execution or thread.
Exclusive == \A h, k \in Holder : h # k => held[h] \cap held[k] = {}

\* A closed thread is held by no one: its runtime directory can be deleted.
ClosedIsFree == \A g \in Gated : gate[g] = "closed" => HoldersOf({g}) = {}
=============================================================================
