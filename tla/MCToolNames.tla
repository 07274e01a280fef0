---------------------------- MODULE MCToolNames ----------------------------
EXTENDS ToolNames

Search == <<"search">>
WriteFile == <<"write", "file">>
WriteOutput == <<"write", "output">>
Confirm == <<"confirm">>
SearchWeb == <<"search", "web">>

\* two servers and a client share a name, and a server has two of the
\* built-in tools' names: one blocked in a workflow, one bound with the output
Listings == [s \in Server |-> IF s = "web" THEN {Search} ELSE {Search, WriteFile, WriteOutput}]
Deployments == {{"default"}, {"default", "web"}}
BuiltIn == {WriteFile, WriteOutput, AskUser}
Clients == {Search, SearchWeb, Confirm}
Asking == {AskUser, Confirm}
Writers == {WriteFile}
Outputs == {WriteOutput}
Parts == {Void, "mcp", "agui", "local", "stored", "frontend", "AGUI-",
          "search", "write", "file", "output", "confirm", "ask", "user", "web", "default"}
Some == {Everything, [all |-> FALSE, names |-> {Append(Search, "web")}]}

\* the names of the runs are those the theorems are about
ASSUME NamesArePlain == Frontend = Clients => PlainNames

\* a client tool named as one server's tool is listed and as another's is called
SharedListings == [s \in Server |-> IF s = "web" THEN {Search} ELSE {SearchWeb}]
SharedClients == {SearchWeb, Confirm}
=============================================================================
