----------------------------- MODULE MCWorkspace -----------------------------
(***************************************************************************)
(* The requests Workspace is checked with.                                 *)
(***************************************************************************)
EXTENDS Workspace

Resolvable == {r \in Request : Resolves(r)}

\* Bindings whose uri is of the type they name.
Matched(b) ==
  \/ b.type = "git" /\ b.uri = "git_url"
  \/ b.type = "url" /\ b.uri = "shared_folder_url"
  \/ b.type = "shared_folder" /\ b.uri = "local_path"

\* The new contract, from both origins, and the legacy folders of initiate. The
\* fields the other contract reads are left at their defaults.
Matching ==
  {r \in Resolvable :
     IF New(r) THEN Matched(r.input) /\ r.folder = "none" /\ ~ r.inPlace
     ELSE r.origin = "orchestrator"}

\* A file:// folder, to be read in place.
UrlInPlace ==
  {r \in Resolvable :
     /\ r.origin = "orchestrator" /\ New(r) /\ r.folder = "none" /\ ~ r.inPlace
     /\ r.input.type = "shared_folder" /\ r.input.uri = "shared_folder_url"}

\* An AG-UI run with a workspacePath, or with no workspace at all.
LegacyAgui == {r \in Resolvable : r.origin = "agui" /\ ~ New(r) /\ r.mode = "none"}
\* All that is checked together.
Checked == Matching \cup LegacyAgui
=============================================================================
