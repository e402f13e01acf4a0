----------------------------- MODULE RequestInfo -----------------------------
(***************************************************************************)
(* What a request is about, read from its method, path and query           *)
(* (pkg/aiserver/request/requestinfo.go). A path is the sequence of its    *)
(* parts. Of the query there are watch, the name that the field selector   *)
(* requires and the workspace that the label selector begins with; "" is a *)
(* name, a workspace or a part that is not given.                          *)
(***************************************************************************)
EXTENDS Naturals, Sequences

APIPrefixes == {"api", "apis", "ai-apis", "ai-api"}

GrouplessAPIPrefixes == {"api", "ai-api"}

kubernetesAPIPrefixes == {"api", "apis"}

namespaceSubresources == {"status", "finalize"}

specialVerbs == {"proxy", "watch"}

specialVerbsNoSubresources == {"proxy"}

Drop(parts, n) == SubSeq(parts, n + 1, Len(parts))

Part(parts, n) == IF Len(parts) >= n THEN parts[n] ELSE ""

\* A path with an API prefix, a group where there are groups, a version and at
\* least one more part is about a resource.
IsResourceRequest(path) ==
    /\ Len(path) >= 3
    /\ path[1] \in APIPrefixes
    /\ path[1] \notin GrouplessAPIPrefixes => Len(path) >= 4

APIGroup(path) == IF path[1] \in GrouplessAPIPrefixes THEN "" ELSE path[2]

\* What follows the version.
AfterVersion(path) == Drop(path, IF path[1] \in GrouplessAPIPrefixes THEN 2 ELSE 3)

\* By the prefix; discovery paths, too short to have one, by their first part.
IsKubernetesRequest(path) ==
    LET prefix == IF Len(path) >= 3 /\ path[1] \notin APIPrefixes THEN "" ELSE Part(path, 1)
    IN  prefix \in kubernetesAPIPrefixes

VerbOfMethod(method) ==
    CASE method = "POST"            -> "create"
      [] method \in {"GET", "HEAD"} -> "get"
      [] method = "PUT"             -> "update"
      [] method = "PATCH"           -> "patch"
      [] method = "DELETE"          -> "delete"
      [] OTHER                      -> ""

\* /workspaces/{workspace}/*: a path that ends before the star stays as it is.
AfterWorkspace(parts) ==
    IF parts[1] = "workspaces" /\ Len(parts) > 2 THEN Drop(parts, 2) ELSE parts

Workspace(parts) == IF parts[1] = "workspaces" THEN Part(parts, 2) ELSE ""

Namespace(parts) == IF parts[1] = "namespaces" THEN Part(parts, 2) ELSE ""

\* /namespaces/{namespace}/{kind}/*, unless the kind is a subresource.
AfterNamespace(parts) ==
    IF parts[1] = "namespaces" /\ Len(parts) > 2 /\ parts[3] \notin namespaceSubresources
    THEN Drop(parts, 2) ELSE parts

\* Mutant of the next: the workspace is looked at first.
ScopeOfWorkspaceFirst(namespace, workspace) ==
    IF workspace # "" THEN "Workspace" ELSE IF namespace # "" THEN "Namespace" ELSE "Global"

resolveResourceScope(namespace, workspace) ==
    IF namespace # "" THEN "Namespace" ELSE IF workspace # "" THEN "Workspace" ELSE "Global"

NonResource(req) ==
    [ path |-> req.path, verb |-> req.method, isResource |-> FALSE,
      isKubernetes |-> IsKubernetesRequest(req.path), group |-> "", namespace |-> "",
      workspace |-> "", resource |-> <<>>, subresource |-> "", name |-> "", scope |-> "" ]

\* The name and the verb that are left when the path names nothing: a get is a
\* list or a watch, of the one name that a field selector requires.
Named(info, req) ==
    IF info.name # "" \/ info.verb # "get" THEN info
    ELSE [info EXCEPT !.verb = IF req.watch THEN "watch" ELSE "list", !.name = req.field]

\* A watch that selects a workspace is of that workspace.
Selected(info, req) ==
    IF info.verb = "watch" /\ req.workspace # ""
    THEN [info EXCEPT !.workspace = req.workspace, !.scope = "Workspace"] ELSE info

Collection(info) ==
    IF info.name = "" /\ info.verb = "delete" THEN [info EXCEPT !.verb = "deletecollection"]
    ELSE info

\* The request that failed to say what it is about.
Unclear(req) == Len(AfterVersion(req.path)) < 2 /\ AfterVersion(req.path)[1] \in specialVerbs

Resource(req) ==
    LET rest      == AfterVersion(req.path)
        special   == rest[1] \in specialVerbs
        verb      == IF special THEN rest[1] ELSE VerbOfMethod(req.method)
        inWs      == IF special THEN Tail(rest) ELSE rest
        inNs      == AfterWorkspace(inWs)
        parts     == AfterNamespace(inNs)
        info      == [ path |-> req.path, verb |-> verb, isResource |-> TRUE,
                       isKubernetes |-> IsKubernetesRequest(req.path),
                       group |-> APIGroup(req.path),
                       namespace |-> Namespace(inNs), workspace |-> Workspace(inWs),
                       resource |-> <<parts[1]>>, name |-> Part(parts, 2),
                       subresource |-> IF verb \in specialVerbsNoSubresources THEN ""
                                       ELSE Part(parts, 3),
                       scope |-> resolveResourceScope(Namespace(inNs), Workspace(inWs)) ]
    IN  Collection(Selected(Named(info, req), req))

\* The information, in a set; none if it cannot be told.
NewRequestInfo(req) ==
    IF ~IsResourceRequest(req.path) THEN {NonResource(req)}
    ELSE IF Unclear(req) THEN {}
    ELSE {Resource(req)}

=============================================================================
