------------------------------- MODULE Browsing -------------------------------
(***************************************************************************)
(* A client reads a list of ai-server page by page, or asks for any page   *)
(* of any length (handlers of pkg/aiapis/iam/v1), while objects and        *)
(* bindings come and go and the server's informer cache, which every page  *)
(* is cut from, lags behind.                                               *)
(***************************************************************************)
EXTENDS Listing

CONSTANTS
    Names,        \* names of objects: numbers, in the order of strings
    Queries,      \* [kind, ns, scope, role, filters, sortBy, ascending, page, limit]
    Bindings,     \* [user, scope, role] that may be made
    MaxChanges    \* bound: objects and bindings made and removed

\* Twice as many objects as there are names fit into an integer.
ASSUME NamesAssumption ==
    Names \subseteq Nat /\ IsFiniteSet(Names) /\ 2 * Cardinality(Names) < Width

\* The kinds that are listed.
Kinds == { "users", "loginrecords", "globalroles", "globalrolebindings", "clusterroles",
           "clusterrolebindings", "roles", "rolebindings", "serviceaccounts", "namespaces",
           "customresourcedefinitions" }

\* Page and limit are any numbers, or left out.
ASSUME QueriesAssumption ==
    \A q \in Queries :
        /\ DOMAIN q = { "kind", "ns", "scope", "role", "filters", "sortBy", "ascending",
                        "page", "limit" }
        /\ q.kind \in Kinds
        /\ q.limit \in Ints \cup {Undefined} /\ q.page \in Ints \cup {Undefined}

ASSUME MaxChangesAssumption == MaxChanges \in Nat

VARIABLES
    stored,   \* the objects of the kind that is read, [name, time, ns]
    bound,    \* the bindings of users
    cached,   \* what ai-server's informers hold of both
    walk,     \* the client: its query, the objects it got on so many pages,
              \* what changed meanwhile
    changes   \* how many changes there were

vars == <<stored, bound, cached, walk, changes>>

Object == [name: Names, time: 1 .. MaxChanges, ns: {"", "n1", "n2"}]

\* What Go does not return is not a list, and what is not given is not a number.
ASSUME PanicAssumption == Panic \notin Seq(Object) /\ Undefined \notin Ints

\* All that a query asks for, of what the cache holds.
Asked(q, c) ==
    LET own  == CASE q.kind = "users" -> {"email"} [] q.kind = "loginrecords" -> {"type"}
                  [] q.kind = "namespaces" -> {"status"}
                  [] q.kind = "customresourcedefinitions" -> {"name"} [] OTHER -> {}
        from == IF q.kind = "users" /\ q.scope # ""
                THEN BoundUsers(c.objects, c.bindings, q.scope, q.role)
                ELSE IF q.kind \in Namespaced THEN InNamespace(c.objects, q.ns) ELSE c.objects
    IN  Matching(own, from, q.filters)

\* A client that gives no page reads on from the first; another wants that page only.
PageAsked(w) == IF w.query.page = Undefined THEN w.page + 1 ELSE w.query.page

\* A client that reads from the first page to the last.
FromStart(q) == q.page = Undefined /\ (q.limit = Undefined \/ q.limit \in 1 .. Width - 1)

Init ==
    /\ stored = {} /\ bound = {}
    /\ cached = [objects |-> {}, bindings |-> {}]
    /\ walk \in [query: Queries, got: {<<>>}, page: {0}, pc: {"idle"}, begun: {{}},
                 came: {FALSE}, went: {FALSE}]
    /\ changes = 0

-----------------------------------------------------------------------------
(* The API server and the informers.                                       *)

Change == changes < MaxChanges /\ changes' = changes + 1

\* The time stamp is that of the last object or one later. Of two with
\* one name and two namespaces only one is there.
Create(name, ns) ==
    /\ Change
    /\ ns \in IF walk.query.kind \in Namespaced THEN {"n1", "n2"} ELSE {""}
    /\ \A o \in stored : o.name # name
    /\ \E time \in 1 .. MaxChanges :
          /\ \A o \in stored : o.time <= time
          /\ \E o \in stored \cup {[time |-> 1]} : time - o.time \in {0, 1}
          /\ stored' = stored \cup {[name |-> name, time |-> time, ns |-> ns]}
    /\ UNCHANGED <<bound, cached, walk>>

Delete(o) ==
    /\ Change
    /\ stored' = stored \ {o}
    /\ UNCHANGED <<bound, cached, walk>>

\* Bindings that the query does not read are left out.
Bind(b) ==
    /\ Change
    /\ b.scope = walk.query.scope
    /\ b \notin bound
    /\ bound' = bound \cup {b}
    /\ UNCHANGED <<stored, cached, walk>>

Unbind(b) ==
    /\ Change
    /\ b \in bound
    /\ bound' = bound \ {b}
    /\ UNCHANGED <<stored, cached, walk>>

\* Objects that changed replace those in the cache.
Sync ==
    LET c == [objects |-> stored, bindings |-> bound]
    IN  /\ c # cached
        /\ cached' = c
        /\ walk' = [walk EXCEPT
                      !.came = @ \/ Asked(walk.query, c) \ Asked(walk.query, cached) # {},
                      !.went = @ \/ Asked(walk.query, cached) \ Asked(walk.query, c) # {}]
        /\ UNCHANGED <<stored, bound, changes>>

-----------------------------------------------------------------------------
(* The client and the handler.                                             *)

Begin ==
    /\ walk.pc = "idle"
    /\ walk' = [walk EXCEPT !.pc = "reading", !.begun = Asked(walk.query, cached),
                            !.came = FALSE, !.went = FALSE]
    /\ UNCHANGED <<stored, bound, cached, changes>>

\* A resource that no getter is found for is an error.
Refuse ==
    /\ walk.pc = "reading" /\ NotSupported(walk.query.kind, walk.query.ns)
    /\ walk' = [walk EXCEPT !.pc = "refused"]
    /\ UNCHANGED <<stored, bound, cached, changes>>

\* ListUsers, ListNamespaceMembers, ListRoles, ListGlobalRoles,
\* ListUserLoginRecords; a client that reads on does so until a page is empty.
ListPage ==
    LET q == walk.query
        list == Answer(q.kind, cached.objects, cached.bindings,
                       [q EXCEPT !.page = PageAsked(walk)])
    IN  /\ walk.pc = "reading" /\ ~NotSupported(q.kind, q.ns)
        /\ walk' = IF list = Panic THEN [walk EXCEPT !.pc = "panicked"]
                   ELSE [walk EXCEPT !.got = @ \o list, !.page = @ + 1,
                                     !.pc = IF \/ q.page # Undefined
                                               \/ q.limit \in {Undefined, NoLimit}
                                               \/ list = <<>>
                                            THEN "done" ELSE "reading"]
        /\ UNCHANGED <<stored, bound, cached, changes>>

\* Mutant of the next: the namespace is not asked for.
DescribeAnyUser(name, q) ==
    LET found == Users(cached.objects, cached.bindings,
                       [q EXCEPT !.scope = "",
                                 !.filters = {[field |-> "names", value |-> {name}]}])
    IN  IF found = <<>> THEN {} ELSE {Head(found)}

\* DescribeNamespaceMember: the member of that name, if there is one.
DescribeNamespaceMember(name, q) ==
    LET found == Users(cached.objects, cached.bindings,
                       [q EXCEPT !.filters = {[field |-> "names", value |-> {name}]}])
    IN  IF found = <<>> THEN {} ELSE {Head(found)}

Next ==
    \/ \E name \in Names, ns \in {"", "n1", "n2"} : Create(name, ns)
    \/ \E o \in stored : Delete(o)
    \/ \E b \in Bindings : Bind(b) \/ Unbind(b)
    \/ Sync \/ Begin \/ Refuse \/ ListPage

Spec == Init /\ [][Next]_vars

-----------------------------------------------------------------------------
(* Properties.                                                             *)

\* A request makes the handler panic only if it names the page itself, and offset and
\* limit are both greater than 0 and overflow when they are added; no client who
\* reads from the first page on ever meets a panic, whatever comes and goes.
PanicsOnlyOnOverflow ==
    walk.pc = "panicked" =>
        LET p == ParsePagination(walk.query.limit, walk.query.page)
        IN  walk.query.page # Undefined /\ p.limit > 0 /\ p.offset > 0
            /\ p.offset + p.limit >= Width

\* Who began with the first page has read the last.
Done == walk.pc = "done" /\ FromStart(walk.query)

\* The order asked for: by name, or by time and then by name.
Less(a, b, sortBy) ==
    \/ sortBy # "name" /\ a.time < b.time
    \/ (sortBy = "name" \/ a.time = b.time) /\ a.name < b.name

InOrder(q, a, b) == IF q.ascending THEN Less(a, b, q.sortBy) ELSE Less(b, a, q.sortBy)

\* If nothing that was asked for came or went while the client read, the pages
\* are the whole list, each object once and in the order asked for.
PagesPartition ==
    Done /\ ~walk.came /\ ~walk.went =>
        /\ Range(walk.got) = walk.begun
        /\ \A i, j \in DOMAIN walk.got :
              i < j => InOrder(walk.query, walk.got[i], walk.got[j])

\* As long as nothing goes, the pages miss nothing, though what comes moves the
\* bounds.
NothingSkipped == Done /\ ~walk.went => walk.begun \subseteq Range(walk.got)

\* As long as nothing comes, the pages show nothing twice, though what goes moves
\* the bounds.
NothingTwice ==
    Done /\ ~walk.came =>
        \A i, j \in DOMAIN walk.got : walk.got[i] = walk.got[j] => i = j

\* A user who is shown among the members of a namespace is found as one, and
\* nobody else is.
DescribedAsListed ==
    LET q == walk.query IN
    Done /\ q.kind = "users" /\ q.scope = "namespace" /\ q.role = "" /\ q.filters = {}
        /\ ~walk.came /\ ~walk.went =>
            \A name \in Names :
                DescribeNamespaceMember(name, [q EXCEPT !.page = Undefined,
                                                      !.limit = Undefined]) # {}
                <=> \E o \in Range(walk.got) : o.name = name

=============================================================================
