--------------------------------- MODULE Rbac ---------------------------------
(***************************************************************************)
(* Which rules allow what, and whom a binding is for                       *)
(* (pkg/aiserver/authorization/rbac, authorization/path). A rule is a      *)
(* record of sets; a resource is the sequence of what slashes divide, and a *)
(* URL is a path, with or without a star behind it.                        *)
(***************************************************************************)
EXTENDS Naturals, Sequences

All == "*"

VerbMatches(rule, verb) == {All, verb} \cap rule.verbs # {}

APIGroupMatches(rule, group) == {All, group} \cap rule.groups # {}

\* Everything, the very resource, or its subresource of any resource.
ResourceMatches(rule, combined, subresource) ==
    \E r \in rule.resources :
        \/ r \in {<<All>>, combined}
        \/ subresource # "" /\ r = <<All, subresource>>

ResourceNameMatches(rule, name) == rule.names = {} \/ name \in rule.names

\* A path that continues one with a star behind it.
Continues(path, parts) ==
    parts = <<>> \/ (Len(path) > Len(parts) /\ SubSeq(path, 1, Len(parts)) = parts)

Covers(url, path) == IF url.star THEN Continues(path, url.parts) ELSE url.parts = path

NonResourceURLMatches(rule, path) == \E u \in rule.urls : Covers(u, path)

combinedResource(a) ==
    IF a.subresource = "" THEN a.resource ELSE Append(a.resource, a.subresource)

ruleAllows(a, rule) ==
    /\ VerbMatches(rule, a.verb)
    /\ IF a.isResource
       THEN /\ APIGroupMatches(rule, a.group)
            /\ ResourceMatches(rule, combinedResource(a), a.subresource)
            /\ ResourceNameMatches(rule, a.name)
       ELSE NonResourceURLMatches(rule, a.path)

\* A policy is the set of verbs it allows, {} if there is none or it is not valid:
\* how Rego is evaluated is left out.
regoPolicyAllows(a, policy) == a.verb \in policy

RoleAllows(a, role) ==
    \/ regoPolicyAllows(a, role.policy)
    \/ \E rule \in role.rules : ruleAllows(a, rule)

\* Paths that need no role: one of them, or below one that ends in a star.
PathAllows(excluded, path) == \E e \in excluded : Covers(e, path)

-----------------------------------------------------------------------------
(* Subjects of bindings, [kind, name, ns].                                 *)

ServiceAccountName(ns, name) == <<"serviceaccount", ns, name>>

appliesToUser(user, subject, ns) ==
    CASE subject.kind = "User"           -> user.name = subject.name
      [] subject.kind = "Group"          -> subject.name \in user.groups
      [] subject.kind = "ServiceAccount" ->
            LET saNamespace == IF subject.ns # "" THEN subject.ns ELSE ns
            IN  saNamespace # "" /\ user.name = ServiceAccountName(saNamespace, subject.name)
      [] OTHER                           -> FALSE

appliesTo(user, subjects, ns) == \E s \in subjects : appliesToUser(user, s, ns)

\* Whether a binding is listed for a user and groups.
contains(subjects, username, groups) ==
    \E s \in subjects : \/ s.kind = "User" /\ s.name = username
                        \/ s.kind = "Group" /\ s.name \in groups

=============================================================================
