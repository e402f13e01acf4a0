------------------------------- MODULE Listing -------------------------------
(***************************************************************************)
(* Lists of objects: which ones a query selects, in which order, and which *)
(* of them are on a page (pkg/middles/resources/v1alpha3, pkg/api/types.go)*)
(*                                                                         *)
(* A name is a number, in the order of strings. A filter's value is the    *)
(* set of names of the objects it fits: how names, labels, annotations,    *)
(* owners and addresses are compared with text is left out.                *)
(***************************************************************************)
EXTENDS Paging, Sequences, FiniteSets, SequencesExt

CONSTANT Panic   \* what Go does with bounds that are not those of a slice

-----------------------------------------------------------------------------
(* Selection and order.                                                    *)

\* Mutant of the next: equal times leave the order open.
GreaterByTimeOnly(a, b, sortBy) ==
    IF sortBy = "name" THEN a.name > b.name ELSE a.time > b.time

\* Whether a is left great than b; any field but the name stands for the time
\* of creation.
DefaultObjectMetaCompare(a, b, sortBy) ==
    IF sortBy = "name" \/ a.time = b.time THEN a.name > b.name ELSE a.time > b.time

MetaFields == { "names", "name", "uid", "namespace", "ownerReference", "ownerKind",
                "annotation", "label" }

\* A field that is not known fits nothing.
DefaultObjectMetaFilter(o, f) == f.field \in MetaFields /\ o.name \in f.value

\* A getter knows some fields more.
Filter(own, o, f) ==
    IF f.field \in own THEN o.name \in f.value ELSE DefaultObjectMetaFilter(o, f)

Matching(own, objects, filters) ==
    {o \in objects : \A f \in filters : Filter(own, o, f)}

\* What sort.Slice is told: newest or greatest first, unless ascending order is
\* asked for, which turns the comparison round.
Before(a, b, q) == IF q.ascending THEN ~DefaultObjectMetaCompare(a, b, q.sortBy)
                   ELSE DefaultObjectMetaCompare(a, b, q.sortBy)

\* No two are the wrong way round. Of the objects of one list no two have the same
\* name.
Sorted(objects, q) ==
    CHOOSE s \in SetToSeqs(objects) :
        \A i, j \in DOMAIN s : i < j => Before(s[i], s[j], q) \/ ~Before(s[j], s[i], q)

Page(list, q) ==
    LET w == GetValidPagination(ParsePagination(q.limit, q.page), Len(list))
    IN  IF IsSlice(w, Len(list)) THEN SubSeq(list, w.start + 1, w.end) ELSE Panic

DefaultList(own, objects, q) == Page(Sorted(Matching(own, objects, q.filters), q), q)

-----------------------------------------------------------------------------
(* Getters: what each kind of object is listed from, and its own fields.   *)

\* The objects of a namespace, or of all.
InNamespace(objects, ns) == {o \in objects : ns = "" \/ o.ns = ns}

GlobalRoles(objects, q) == DefaultList({}, objects, q)

GlobalRoleBindings(objects, q) == DefaultList({}, objects, q)

ClusterRoles(objects, q) == DefaultList({}, objects, q)

ClusterRoleBindings(objects, q) == DefaultList({}, objects, q)

Roles(objects, ns, q) == DefaultList({}, InNamespace(objects, ns), q)

RoleBindings(objects, ns, q) == DefaultList({}, InNamespace(objects, ns), q)

ServiceAccounts(objects, ns, q) == DefaultList({}, InNamespace(objects, ns), q)

Namespaces(objects, q) == DefaultList({"status"}, objects, q)

\* By name, or by the kind of what they define.
CustomResourceDefinitions(objects, q) == DefaultList({"name"}, objects, q)

LoginRecords(objects, q) == DefaultList({"type"}, objects, q)

\* The users that a binding of a namespace, of the cluster or of the platform names,
\* each once; a binding that names nobody who exists is passed over.
BoundUsers(objects, bindings, scope, role) ==
    {o \in objects : \E b \in bindings :
        b.scope = scope /\ b.user = o.name /\ role \in {"", b.role}}

Users(objects, bindings, q) ==
    DefaultList({"email"}, IF q.scope = "" THEN objects
                           ELSE BoundUsers(objects, bindings, q.scope, q.role), q)

\* The getters that are found by the name of the resource: what is in namespaces is
\* found for any scope, what is in none only without a namespace.
TryResource(clusterScope, kind) ==
    \/ clusterScope /\ kind \in {"namespaces", "customresourcedefinitions"}
    \/ kind \in {"serviceaccounts", "rolebindings"}

ByResource == {"namespaces", "customresourcedefinitions", "serviceaccounts"}

NotSupported(kind, ns) == kind \in ByResource /\ ~TryResource(ns = "", kind)

List(kind, objects, bindings, q) ==
    CASE kind = "users"                     -> Users(objects, bindings, q)
      [] kind = "loginrecords"              -> LoginRecords(objects, q)
      [] kind = "globalroles"               -> GlobalRoles(objects, q)
      [] kind = "globalrolebindings"        -> GlobalRoleBindings(objects, q)
      [] kind = "clusterroles"              -> ClusterRoles(objects, q)
      [] kind = "clusterrolebindings"       -> ClusterRoleBindings(objects, q)
      [] kind = "roles"                     -> Roles(objects, q.ns, q)
      [] kind = "rolebindings"              -> RoleBindings(objects, q.ns, q)
      [] kind = "serviceaccounts"           -> ServiceAccounts(objects, q.ns, q)
      [] kind = "namespaces"                -> Namespaces(objects, q)
      [] kind = "customresourcedefinitions" -> CustomResourceDefinitions(objects, q)

Namespaced == {"roles", "rolebindings", "serviceaccounts"}

-----------------------------------------------------------------------------
(* What goes into the answer.                                              *)

\* The filters that are applied once more to the objects of the page, by handlers.
Again == {"name", "names"}

WithListAndFilter(page, q) ==
    LET kept == {i \in DOMAIN page :
                    \A f \in q.filters : f.field \in Again => page[i].name \in f.value}
        Nth(n) == CHOOSE i \in kept : Cardinality({j \in kept : j <= i}) = n
    IN  IF page = Panic THEN Panic ELSE [n \in 1 .. Cardinality(kept) |-> page[Nth(n)]]

Answer(kind, objects, bindings, q) ==
    WithListAndFilter(List(kind, objects, bindings, q), q)

=============================================================================
