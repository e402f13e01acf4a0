---------------------------- MODULE MCUserAccount ----------------------------
(* Small instances of UserAccount.                                         *)
EXTENDS UserAccount

CONSTANTS u1, s1, s2, n1, everyone

OneUser == {u1}

Limits(create, modify, delete, status, login, bind, fault, restart, resync, namespaces) ==
    [op \in Ops |->
        CASE op = "create"    -> create
          [] op = "modify"    -> modify
          [] op = "delete"    -> delete
          [] op = "status"    -> status
          [] op = "login"     -> login
          [] op = "bind"      -> bind
          [] op = "fault"     -> fault
          [] op = "restart"   -> restart
          [] op = "resync"    -> resync
          [] op = "namespace" -> namespaces]

\* What each run lets happen.
StatusLimit  == Limits(1, 0, 0, 1, 2, 0, 0, 0, 0, 0)
CleanupLimit == Limits(1, 0, 1, 0, 1, 1, 1, 1, 0, 1)
UnblockLimit == Limits(1, 1, 0, 0, 1, 0, 0, 0, 1, 0)

=============================================================================
