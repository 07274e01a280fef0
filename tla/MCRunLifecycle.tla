---------------------------- MODULE MCRunLifecycle ---------------------------
(***************************************************************************)
(* Model values and instance sizes for checking RunLifecycle with TLC.     *)
(***************************************************************************)
EXTENDS RunLifecycle, TLC

CONSTANTS e1, a1, a2, t1, r1, r2, r3

\* e1 is an orchestrator session, a1 the execution of an AG-UI conversation t1.
MixedHome == (e1 :> NoThread) @@ (a1 :> t1)

OrchestratorHome == e1 :> NoThread

\* Two AG-UI runs of one conversation.
ConversationHome == (a1 :> t1) @@ (a2 :> t1)

RunSymmetry == Permutations(Run)
=============================================================================
