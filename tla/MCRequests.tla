------------------------------ MODULE MCRequests ------------------------------
(* Requests for TLC: who asks what, and what there is to allow it. *)
EXTENDS Requests

iam == <<"ai-apis", "iam.ai.io", "v1">>

Get(path) == [ path |-> path, method |-> "GET", watch |-> FALSE, field |-> "",
               workspace |-> "", current |-> "", new |-> "" ]

ChangeBob(current) == [Get(iam \o <<"users", "bob", "password">>) EXCEPT
                       !.method = "PUT", !.current = current, !.new = "p2"]

None == [kind |-> "none", name |-> "", good |-> FALSE]

Ann == [kind |-> "bearer", name |-> "ann", good |-> TRUE]

Bob == [kind |-> "basic", name |-> "bob", good |-> TRUE]

Wrong == [Ann EXCEPT !.good = FALSE]

Members == Get(iam \o <<"namespaces", "n1", "members">>)

Call(ask, credential) == [ask |-> ask, credential |-> credential]

SmallCalls ==
    { Call(Members, Ann), Call(Members, None), Call(Members, Wrong),
      Call(Get(iam \o <<"users">>), Ann),
      Call(Get(iam \o <<"workspaces", "w1", "members">>), Ann),
      Call(Get(iam \o <<"namespaces", "n2", "members">>), Ann),
      Call(Get(iam \o <<"workspaces", "w1", "namespaces", "n1", "members">>), Bob),
      Call(Get(iam \o <<"namespaces", "n1", "status">>), Bob),
      Call([Members EXCEPT !.watch = TRUE, !.workspace = "w1"], Ann),
      Call([Get(iam \o <<"users", "bob">>) EXCEPT !.method = "DELETE"], Ann),
      Call(Get(<<"api", "v1", "watch", "namespaces", "n1", "pods">>), Ann),
      Call(Get(<<"api", "v1", "watch">>), Ann),
      Call(Get(<<"apis">>), Ann),
      Call(Get(<<"oauth", "token">>), None),
      Call(ChangeBob(""), Ann), Call(ChangeBob("p1"), Ann), Call(ChangeBob("p1"), Bob) }

SmallExcluded == {[parts |-> <<"oauth", "token">>, star |-> FALSE],
                  [parts |-> <<"apidocs">>, star |-> TRUE]}

User(name) == [kind |-> "User", name |-> name, ns |-> ""]

Group(name) == [kind |-> "Group", name |-> name, ns |-> ""]

Everyone == Group("system:unauthenticated")

SmallGroups == [u \in {"ann", "bob"} |-> {"staff"}]

Nobody == User("system:anonymous")

SmallGlobals ==
    { [subjects |-> {Nobody}, ref |-> <<"GlobalRole", "", "viewer">>],
      [subjects |-> {Nobody, Everyone}, ref |-> <<"Unknown", "", "other">>],
      [subjects |-> {User("ann"), Everyone, Group("staff")},
       ref |-> <<"ClusterRole", "", "admin">>] }

SmallLocals ==
    { [subjects |-> {Nobody}, ref |-> <<"Role", "n1", "member">>, ns |-> "n1"],
      [subjects |-> {User("bob")}, ref |-> <<"ClusterRole", "", "admin">>, ns |-> "n1"] }

Rule == [ verbs |-> {"list", "watch"}, groups |-> {All}, resources |-> {<<"members">>, <<"pods">>},
          names |-> {}, urls |-> {} ]

SmallContents ==
    { [rules |-> {Rule}, policy |-> {}],
      [rules |-> {[Rule EXCEPT !.verbs = {All}, !.groups = {"iam.ai.io"},
                              !.resources = {<<"users", "password">>}],
                  [Rule EXCEPT !.verbs = {"get"}, !.urls = {[parts |-> <<>>, star |-> TRUE]}]},
       policy |-> {}],
      [rules |-> {}, policy |-> {"list", "get", "GET", "update"}] }

=============================================================================
