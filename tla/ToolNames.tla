----------------------------- MODULE ToolNames -----------------------------
(* How a run's tools get the names the model sees, and which tool a call of   *)
(* such a name reaches: the discovery of the MCP servers' tools, shared by    *)
(* all runs of a pod (mcp_agent_service.py), the registry of a segment        *)
(* (tool_registry.py), its rebuilding from the stored schemas when a paused   *)
(* run is resumed on any pod, and the dispatch of a call (tool_hub.py).       *)
(*                                                                            *)
(* A name is the sequence of its parts between underscores, so that the       *)
(* suffixes the code adds and tests are members of the sequence.              *)
EXTENDS Integers, Sequences, FiniteSets

CONSTANTS
    Pod,
    Part,               \* what names consist of, the parts the code adds included
    Server,             \* names of MCP servers, without "_"
    Deployment,         \* the sets of servers a deployment may configure
    Serves,             \* what each server lists: [Server -> SUBSET Name]
    Local,              \* base names of the built-in tools
    Frontend,           \* names of the tools a client may bring
    Asks,               \* the tools, of Local and Frontend, that await a response
    InputWriters,       \* WORKFLOW_BLOCKED_LOCAL
    OutputTools,        \* write_output, edit_output, read_output, list_output
    Mode,
    Requests,           \* what the callers of runs request: [all, names]
    FilterConflicts     \* FILTER_MCP_TOOLS_CONFLICTING_WITH_LOCAL

ASSUME ServerAssumption ==
    /\ IsFiniteSet(Server) /\ "local" \notin Server
    /\ Deployment \subseteq SUBSET Server
    /\ \A s \in Server : IsFiniteSet(Serves[s])

\* an empty part, between two underscores (no other part has an underscore)
Void == "_"

ASSUME PartAssumption ==
    {Void, "mcp", "agui", "local", "stored", "frontend", "AGUI-"} \subseteq Part

Namespace == "local"
AskUser == <<"ask", "user">>
Everything == [all |-> TRUE, names |-> {}]

VARIABLES
    configured, \* the deployment's servers, the same for each pod
    live,       \* live[p]: the servers whose tools the pod's service holds
    run,        \* the run: its segment's pod and tools, or what it stored
    meaning,    \* history: the tool each name was first offered for
    last        \* history: the latest call, the tool it was for and reached

vars == <<configured, live, run, meaning, last>>

----------------------------------------------------------------------------
(* Tools. `given` is the name their provider knows; a stored tool's owner is  *)
(* "stored", its base and given name the name it was stored under.            *)

Tool(kind, owner, base, given) ==
    [kind |-> kind, owner |-> owner, base |-> base, given |-> given]

LiveName(s, base) ==
    IF Cardinality(configured) > 1 \/ s # "default" THEN Append(base, s) ELSE base

Lists(s) == {Tool("mcp", s, b, LiveName(s, b)) : b \in Serves[s]}

FetchedTools(servers) == UNION {Lists(s) : s \in servers}

FrontendTool(b) == Tool("agui", "frontend", b, <<"AGUI-">> \o b)

LocalTool(b) == Tool("local", Namespace, b, Append(b, Namespace))

IsLocal(n) == \E b \in Local : LocalTool(b).given = n

IsFrontend(n, records) == \E t \in records : n \in {t.base, t.given}

\* blocked_local_tools
Blocked(mode) == IF mode = "workflow" THEN InputWriters ELSE {}

Unbound(output) == IF output THEN {} ELSE OutputTools

\* the built-in tools of a segment
LocalTools(records, mode, output) ==
    LET hidden == IF \E t \in records : t.base \in Asks THEN {AskUser} ELSE {}
    IN  {LocalTool(b) : b \in Local \ (Blocked(mode) \cup Unbound(output) \cup hidden)}

\* the MCP and AG-UI tools a run asked for
Selected(tools, request) ==
    IF request.all THEN tools ELSE {t \in tools : t.given \in request.names}

Kept(tools) ==
    IF FilterConflicts THEN {t \in tools : t.kind = "mcp" => t.base \notin Local} ELSE tools

\* stored schemas, the frontend's among them
StoredAll(names, records) ==
    {Tool("mcp", "stored", n, n) : n \in
        {m \in names : ~(Len(m) > 1 /\ m[Len(m)] = Namespace) /\ ~IsLocal(m)}}

\* tools whose schemas were stored, as a resumed segment takes them for MCP's
StoredTools(names, records) ==
    {Tool("mcp", "stored", n, n) : n \in
        {m \in names : /\ ~(Len(m) > 1 /\ m[Len(m)] = Namespace)
                       /\ ~IsLocal(m)
                       /\ ~IsFrontend(m, records)}}

----------------------------------------------------------------------------
(* The registry: what it offers, and what a name resolves to.                 *)

Alias(t) == t.base \o <<Void, t.kind, Void, t.owner>>

Collides(tools, t) == \E u \in tools : u # t /\ u.base = t.base

Plain(t) == IF t.kind = "agui" THEN t.base ELSE t.given

Canonical(tools, t) == IF Collides(tools, t) THEN Alias(t) ELSE Plain(t)

Aliases(tools, t) ==
    ({t.given} \cup IF t.kind = "agui" THEN {t.base} ELSE {}) \ {Canonical(tools, t)}

\* MCP tools are registered first, then AG-UI's, then the built-in ones
Rank(t) == CASE t.kind = "mcp" -> 1 [] t.kind = "agui" -> 2 [] t.kind = "local" -> 3

First(tools) == CHOOSE t \in tools : \A u \in tools : Rank(t) <= Rank(u)
Latest(tools) == CHOOSE t \in tools : \A u \in tools : Rank(t) >= Rank(u)

\* a later tool replaces an earlier one of its canonical name
Offers(tools) ==
    [n \in {Canonical(tools, t) : t \in tools} |->
        Latest({t \in tools : Canonical(tools, t) = n})]

\* the first tool of an alias keeps it
Resolved(tools, offers, n) ==
    LET byAlias == {t \in tools : n \in Aliases(tools, t)}
    IN  IF n \in DOMAIN offers THEN {offers[n]}
        ELSE IF byAlias # {} THEN {offers[Canonical(tools, First(byAlias))]}
        ELSE {}

\* build_active_agui_map: the AG-UI tools by each of their names
ActiveFrontend(tools, offers, n) ==
    {t \in {offers[m] : m \in DOMAIN offers} :
        t.kind = "agui" /\ n \in {Canonical(tools, t)} \cup Aliases(tools, t)}

----------------------------------------------------------------------------
(* Dispatch: the tool a call reaches, if any.                                 *)

FindTool(p, n) == {t \in FetchedTools(live[p]) : t.given = n}

\* the name the model called
CalledName(found, n) == n

\* the name a registered MCP tool has on its pod
McpName(found, n) == IF found = {} THEN n ELSE (CHOOSE t \in found : TRUE).given

RunLocal(n, mode, output) ==
    {LocalTool(b) : b \in {c \in Local \ (Blocked(mode) \cup Unbound(output)) :
                            LocalTool(c).given = n}}

Reaches(n) ==
    LET tools == run.tools
        found == Resolved(tools, run.offers, n)
        active == ActiveFrontend(tools, run.offers, n)
        known == \E t \in found : t.kind \in {"local", "agui"}
    IN  IF known
        THEN UNION {IF t.kind = "local" THEN RunLocal(t.given, run.mode, run.output) ELSE {t}
                    : t \in found}
        ELSE IF IsLocal(n) THEN RunLocal(n, run.mode, run.output)
        ELSE IF active # {} THEN active
        ELSE FindTool(run.pod, McpName(found, n))

----------------------------------------------------------------------------
(* A run and the pods.                                                        *)

NoCall == [name |-> <<>>, offered |-> {}, on |-> {}, got |-> {}]

Init ==
    /\ configured \in Deployment
    /\ live \in [Pod -> {{}}]
    /\ run = [status |-> "none"]
    /\ meaning = <<>>
    /\ last = NoCall

\* what the names of a segment mean: a stored tool stands for what its name did
Remembers(tools) ==
    LET offers == Offers(tools)
        Meant(n) == IF offers[n].owner = "stored" THEN meaning[offers[n].given] ELSE offers[n]
    IN  [n \in DOMAIN meaning \cup DOMAIN offers |->
            IF n \in DOMAIN meaning THEN meaning[n] ELSE Meant(n)]

\* a segment, with what its registry offers
Segment(p, tools, records, mode, output) ==
    [status |-> "running", pod |-> p, tools |-> tools, offers |-> Offers(tools),
     records |-> records, mode |-> mode, output |-> output]

\* a fresh run: its pod lists the servers that answer and keeps what was asked for
Fresh(p, answering, frontend, request, mode, output) ==
    LET records == {FrontendTool(b) : b \in frontend}
        asked == FetchedTools(answering) \cup records
        chosen == Selected(asked, request)
        tools == Kept(chosen) \cup LocalTools(chosen \cap records, mode, output)
    IN  /\ run.status = "none"
        /\ live' = [live EXCEPT ![p] = answering]
        /\ UNCHANGED <<configured, last>>
        /\ \/ /\ ~request.all /\ ~(request.names \subseteq {t.given : t \in asked})
              /\ run' = [status |-> "over"]
              /\ UNCHANGED meaning
           \/ /\ request.all \/ request.names \subseteq {t.given : t \in asked}
              /\ run' = Segment(p, tools, chosen \cap records, mode, output)
              /\ meaning' = Remembers(tools)

\* another run of the pod lists the tools: the pod's service keeps the outcome
OtherFetch(p, answering) ==
    /\ live' = [live EXCEPT ![p] = answering]
    /\ UNCHANGED <<configured, run, meaning, last>>

\* the model calls a name it was offered in this segment or in an earlier one
Call(n) ==
    /\ run.status = "running"
    /\ n \in DOMAIN meaning
    /\ last' = [name |-> n, got |-> Reaches(n), on |-> live[run.pod],
                offered |-> IF n \in DOMAIN run.offers THEN {run.offers[n]} ELSE {}]
    /\ UNCHANGED <<configured, live, run, meaning>>

\* the call awaits the client, or a hook asks it: the schemas are stored
Pause ==
    /\ run.status = "running"
    /\ \E t \in last.got : t.kind = "local" \/ t.base \in Asks
    /\ run' = [status |-> "paused", names |-> DOMAIN run.offers,
               records |-> run.records, mode |-> run.mode]
    /\ last' = NoCall
    /\ UNCHANGED <<configured, live, meaning>>

\* the run goes on, on any pod, with the credentials that came with the answer
Resume(p, answering, output) ==
    LET tools == StoredTools(run.names, run.records) \cup run.records
                    \cup LocalTools(run.records, run.mode, output)
    IN  /\ run.status = "paused"
        /\ live' = [live EXCEPT ![p] = answering]
        /\ run' = Segment(p, tools, run.records, run.mode, output)
        /\ meaning' = Remembers(tools)
        /\ UNCHANGED <<configured, last>>

Next ==
    \/ \E p \in Pod, answering \in SUBSET configured :
        \/ OtherFetch(p, answering)
        \/ \E output \in BOOLEAN :
            \/ Resume(p, answering, output)
            \/ \E frontend \in SUBSET Frontend, request \in Requests, mode \in Mode :
                Fresh(p, answering, frontend, request, mode, output)
    \/ \E n \in DOMAIN meaning : Call(n)
    \/ Pause

Spec == Init /\ [][Next]_vars

----------------------------------------------------------------------------
(* Names as servers and clients give them. The properties need none of this;  *)
(* what holds of them for every set of tools does, and the checked sets       *)
(* satisfy it.                                                                *)

Gap(n) == \E i \in 1..Len(n) : n[i] = Void

Gapless(n) == n \in Seq(Part) /\ ~Gap(n)

Ordinary(n) == Gapless(n) /\ n # <<>> /\ n[1] # "AGUI-" /\ n[Len(n)] # Namespace

\* no provider's name looks like a prefixed name, a built-in one's or an alias, and
\* a client tool named like a listed one shares that name with no third tool
PlainNames ==
    /\ Server \subseteq Part \ {Void, "stored"}
    /\ \A b \in Local : Gapless(b)
    /\ \A b \in Frontend : Ordinary(b)
    /\ \A s \in Server : \A b \in Serves[s] :
        /\ Ordinary(b)
        /\ Append(b, s) \in Frontend =>
             Append(b, s) \notin Local \cup UNION {Serves[r] : r \in Server}

----------------------------------------------------------------------------
(* Properties.                                                                *)

\* A call is carried out by the tool its name was first offered for, or by
\* none: collisions, replaced names, other runs' listings and the rebuilding
\* of the registry on another pod never make a name reach a different tool.
RightTool == \A t \in last.got : t = meaning[last.name]

Reachable(t) == t.kind = "mcp" => t.owner \in last.on

\* stored under its collision alias
Renamed(t) == t.owner = "stored" /\ t.given # meaning[t.given].given

\* A tool that is offered is reached: in a first segment and after any number
\* of resumptions, when the pod's latest listing has its server and its name
\* was not stored as a collision alias.
OfferedRuns ==
    \A t \in last.offered :
        Reachable(meaning[last.name]) /\ ~Renamed(t) => last.got = {meaning[last.name]}

\* docs/ORCHESTRATOR.md: dispatch resolves an alias to its provider and its
\* original name, and a resumption needs no memory of the original process.
AliasResolves ==
    \A t \in last.offered :
        Reachable(meaning[last.name]) => last.got = {meaning[last.name]}
=============================================================================
