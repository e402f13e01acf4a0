------------------------------ MODULE MCBrowsing ------------------------------
(* Browsing for TLC: which lists are read, which pages are asked for, and who can be
   bound to what. *)
EXTENDS Browsing

Plain == [ kind |-> "users", ns |-> "", scope |-> "", role |-> "", filters |-> {},
           sortBy |-> "creationTimestamp", ascending |-> FALSE, page |-> Undefined, limit |-> 1 ]

SmallQueries ==
    { Plain,
      [Plain EXCEPT !.limit = 2, !.ascending = TRUE],
      [Plain EXCEPT !.limit = 7, !.sortBy = "name"],
      [Plain EXCEPT !.limit = Undefined, !.sortBy = "name", !.ascending = TRUE],
      [Plain EXCEPT !.filters = {[field |-> "email", value |-> {2}]}],
      [Plain EXCEPT !.filters = {[field |-> "aliasname", value |-> {1, 2}]}],
      [Plain EXCEPT !.scope = "namespace"],
      [Plain EXCEPT !.scope = "namespace", !.role = "admin", !.ascending = TRUE],
      [Plain EXCEPT !.scope = "cluster", !.role = "cluster-admin"],
      [Plain EXCEPT !.scope = "globalrole", !.role = "regular", !.limit = 2],
      [Plain EXCEPT !.kind = "loginrecords", !.filters = {[field |-> "label", value |-> {1, 3}]}],
      [Plain EXCEPT !.kind = "globalroles", !.filters = {[field |-> "name", value |-> {1, 2}]}],
      [Plain EXCEPT !.kind = "roles", !.ns = "n1", !.limit = 2],
      [Plain EXCEPT !.kind = "rolebindings", !.limit = Undefined],
      [Plain EXCEPT !.kind = "clusterrolebindings", !.limit = Undefined],
      [Plain EXCEPT !.kind = "globalrolebindings", !.limit = Undefined],
      [Plain EXCEPT !.kind = "clusterroles", !.filters = {[field |-> "label", value |-> {1, 2}]}],
      [Plain EXCEPT !.kind = "serviceaccounts", !.ns = "n2", !.sortBy = "name"],
      [Plain EXCEPT !.kind = "namespaces", !.filters = {[field |-> "status", value |-> {2, 3}]}],
      [Plain EXCEPT !.kind = "namespaces", !.ns = "n1"],
      [Plain EXCEPT !.kind = "customresourcedefinitions",
                    !.filters = {[field |-> "name", value |-> {1, 3}]}],
      [Plain EXCEPT !.page = 2],
      [Plain EXCEPT !.page = 0, !.limit = 2],
      [Plain EXCEPT !.page = -1, !.limit = Width - 1],
      [Plain EXCEPT !.page = Width - 2, !.limit = Width - 1],
      [Plain EXCEPT !.page = Width - 1, !.limit = 3, !.kind = "globalroles"],
      [Plain EXCEPT !.limit = 0],
      [Plain EXCEPT !.limit = NoLimit],
      [Plain EXCEPT !.limit = -2] }

SmallBindings ==
    { [user |-> 1, scope |-> "namespace", role |-> "admin"],
      [user |-> 1, scope |-> "namespace", role |-> "viewer"],
      [user |-> 2, scope |-> "namespace", role |-> "viewer"],
      [user |-> 3, scope |-> "cluster", role |-> "cluster-admin"],
      [user |-> 2, scope |-> "globalrole", role |-> "regular"] }

=============================================================================
