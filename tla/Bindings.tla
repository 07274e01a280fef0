------------------------------- MODULE Bindings -------------------------------
(***************************************************************************)
(* What a request binds: how the input of an initiate or of an AG-UI run is *)
(* resolved, what of it is stored with the execution, and what a later      *)
(* segment reads back (binding_contract.py).                               *)
(*                                                                         *)
(* A URI is what classify_source makes of it; "none" is an omitted field.  *)
(***************************************************************************)

Types == {"git", "url", "shared_folder", "azure_blob"}

InputTypes == Types \ {"azure_blob"}

\* SourceKind: what classify_source decides from the spelling of a location.
SourceKinds == {"git_url", "shared_folder_url", "local_path"}

Modes == {"workflow", "working_copy"}

Binding == [type : Types,
            uri : SourceKinds,
            materialization : {"none", "copy", "in_place_read_only"},
            relativePath : {".", "sub"},
            branch : {"none", "release"}]

NoBinding == [type |-> "none", uri |-> "none", materialization |-> "none",
              relativePath |-> ".", branch |-> "none"]

\* A request for a workspace: the new contract, or a folder with inPlace.
Request == [origin : {"orchestrator", "agui"},
            input : Binding \cup {NoBinding},
            folder : SourceKinds \cup {"none"},
            inPlace : BOOLEAN,
            mode : Modes \cup {"none"}]

-----------------------------------------------------------------------------
(* Validation.                                                             *)

\* git and url inputs are always copied.
Remote(b) == b.type \in {"git", "url"}

Materialized(b) ==
  IF Remote(b) \/ b.materialization = "none" THEN "copy" ELSE b.materialization

\* validate_input_binding raises on anything else.
Accepts(b, mode) ==
  /\ b.type \in InputTypes
  /\ Remote(b) => b.materialization # "in_place_read_only"
  /\ ~ (mode = "working_copy" /\ Materialized(b) = "in_place_read_only")
  /\ b.branch # "none" => b.type = "git"

Validated(b) == [b EXCEPT !.materialization = Materialized(b)]

\* input_from_folder: the binding that stands for a legacy folder.
FolderBinding(kind) ==
  [type |-> CASE kind = "git_url" -> "git"
              [] kind = "shared_folder_url" -> "url"
              [] OTHER -> "shared_folder",
   uri |-> kind,
   materialization |-> "copy",
   relativePath |-> ".",
   branch |-> "none"]

\* Only a local folder can be written in place.
WritableInPlace(kind, inPlace) == kind = "local_path" /\ inPlace

-----------------------------------------------------------------------------
(* Resolution: resolve_initiate_input, and the prelude of an AG-UI run.     *)

New(req) == req.input # NoBinding

\* An AG-UI run may bind no input at all.
Bare(req) == ~ New(req) /\ req.folder = "none"

\* A legacy folder in place keeps working_copy unless a mode was asked for.
ResolvedMode(req) ==
  IF req.mode # "none" THEN req.mode
  ELSE IF New(req) THEN "workflow"
  ELSE IF req.origin = "orchestrator" /\ req.inPlace THEN "working_copy"
  ELSE IF req.origin = "agui" /\ WritableInPlace(req.folder, req.inPlace) THEN "working_copy"
  ELSE "workflow"

ResolvedBinding(req) ==
  IF New(req) THEN Validated(req.input)
  ELSE IF Bare(req) THEN NoBinding
  ELSE FolderBinding(req.folder)

ResolvedWritable(req) == ~ New(req) /\ WritableInPlace(req.folder, req.inPlace)

\* An AG-UI run takes new-contract inputs of type shared_folder only.
Resolves(req) ==
  /\ Bare(req) => req.origin = "agui"
  /\ New(req) => Accepts(req.input, ResolvedMode(req))
  /\ New(req) /\ req.origin = "agui" => req.input.type = "shared_folder"

\* The source to provision from. An AG-UI run sets it for the new contract only.
Source(req) ==
  IF req.origin = "agui" /\ ~ New(req) THEN "none" ELSE ResolvedBinding(req).uri

-----------------------------------------------------------------------------
(* The configuration of an execution.                                      *)

ProvisionInPlace(b, writable) == writable \/ b.materialization = "in_place_read_only"

Config == [input : Binding \cup {NoBinding}, mode : Modes, writable : BOOLEAN, inPlace : BOOLEAN]

\* A row without a configuration: initiate has not stored one.
NoConfig == [input |-> NoBinding, mode |-> "none", writable |-> FALSE, inPlace |-> FALSE]

\* Mutant: the subdirectory and the branch are not stored.
SanitizedRoot(b, mode, writable) ==
  [input |-> [b EXCEPT !.relativePath = "."], mode |-> mode,
   writable |-> writable, inPlace |-> ProvisionInPlace(b, writable)]

\* sanitize_execution_config: locations only.
Sanitized(b, mode, writable) ==
  [input |-> b, mode |-> mode,
   writable |-> writable, inPlace |-> ProvisionInPlace(b, writable)]

RequestConfig(req) ==
  Sanitized(ResolvedBinding(req), ResolvedMode(req), ResolvedWritable(req))

\* synthetic_input_from_config: what a segment reads. Without a stored binding
\* it is derived from the source column.
SegmentConfig(config, source) ==
  IF config.input # NoBinding \/ source = "none" THEN config
  ELSE Sanitized(FolderBinding(source), "workflow", FALSE)
=============================================================================
