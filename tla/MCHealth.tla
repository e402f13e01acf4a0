-------------------------------- MODULE MCHealth --------------------------------
(* Health for TLC: the objects and the managers that there are. *)
EXTENDS Health, TLC

CONSTANTS db, web, p1, p2, e1

Nothing == [selectors |-> <<>>, probes |-> <<>>, interval |-> 0]

SmallSpecs ==
    { Nothing,
      [Nothing EXCEPT !.selectors = (db :> {p1, p2}), !.probes = (web :> e1)],
      [Nothing EXCEPT !.selectors = (db :> Invalid @@ web :> {p1}), !.interval = 60],
      [Nothing EXCEPT !.selectors = (db :> {p1}), !.probes = (db :> e1 @@ web :> NoAction)],
      [Nothing EXCEPT !.probes = (db :> e1), !.interval = -1] }

SmallManagers ==
    { [features |-> {"core"}, gate |-> "alpha"], [features |-> {"core"}, gate |-> "beta"],
      [features |-> {"default"}, gate |-> "alpha"] }

=============================================================================
