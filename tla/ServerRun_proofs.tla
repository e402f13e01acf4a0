---------------------------- MODULE ServerRun_proofs ----------------------------
(***************************************************************************)
(* For any number of reloads, failures, attempts and informer factories:   *)
(* servers that are replaced are told to stop, no server that goes on      *)
(* answers from informers that are not filled, and the newest              *)
(* configuration is on its way to be served.                               *)
(***************************************************************************)
EXTENDS ServerRun, TLAPS

\* Every context but the newest is cancelled, and that one after the end.
Contexts ==
    /\ \A c \in 1 .. current : c < current => c \in ended
    /\ main # "running" => current \in ended

\* There are no more reloads than files that could be read.
Reloads ==
    /\ current <= watcher.read /\ watcher.read <= watcher.seen /\ watcher.seen <= file
    /\ watcher.sends # 0 => watcher.sends = watcher.read /\ current < watcher.sends

Future == \A r \in Runs : r > current => run[r] = NoRun

\* A run has a context that there is; the factories before the one it is at are
\* filled.
FillingOf(r) ==
    /\ run[r].ctx <= current
    /\ run[r].pc \in {"discover", "wait"} =>
          /\ run[r].group \in Groups
          /\ Cancelled(r) \/ \A g \in Groups : g < run[r].group => g \in run[r].synced
    /\ run[r].pc \in {"listen", "serving"} => Cancelled(r) \/ run[r].synced = Groups

Filling == \A r \in Runs : FillingOf(r)

Porting == \A r \in Runs : port = r => run[r].pc = "serving" /\ ~run[r].shut

IInv == TypeOK /\ Contexts /\ Reloads /\ Future /\ Filling /\ Porting

LEMMA Records == NoRun \in RunType /\ Spawned \in RunType
<1>1. NoRun \in RunType
  BY ServerRunAssumption DEF RunType, Pcs, NoRun, Numbers, Groups
<1>2. Spawned = [NoRun EXCEPT !.pc = "spawned"] /\ "spawned" \in Pcs
  BY DEF Spawned, Pcs
<1> QED BY <1>1, <1>2 DEF RunType

LEMMA InitIInv == Init => IInv
<1> SUFFICES ASSUME Init PROVE IInv
  OBVIOUS
<1> USE ServerRunAssumption DEF Init, Runs, Numbers
<1>1. NoRun \in RunType /\ Spawned \in RunType
  BY Records
<1>2. TypeOK
  BY <1>1 DEF TypeOK
<1>3. Contexts /\ Reloads /\ Future
  BY DEF Contexts, Reloads, Future
<1>4. \A r \in Runs : run[r].pc \in {"spawned", "none"} /\ run[r].ctx = 0
  BY DEF NoRun, Spawned
<1>5. Filling /\ Porting
  BY <1>4 DEF Filling, FillingOf, Porting
<1> QED BY <1>2, <1>3, <1>5 DEF IInv

LEMMA WriteIInv == IInv /\ Write => IInv'
<1> SUFFICES ASSUME IInv, Write PROVE IInv'
  OBVIOUS
<1> USE ServerRunAssumption DEF IInv, TypeOK, Write, Runs
<1>1. TypeOK'
  OBVIOUS
<1>2. (Contexts /\ Reloads /\ Future /\ Filling /\ Porting)'
  BY DEF Contexts, Reloads, Future, Filling, FillingOf, Porting, Cancelled
<1> QED BY <1>1, <1>2

LEMMA NoticeIInv == IInv /\ Notice => IInv'
<1> SUFFICES ASSUME IInv, Notice PROVE IInv'
  OBVIOUS
<1> USE ServerRunAssumption DEF IInv, TypeOK, Notice, Runs, Numbers
<1>1. TypeOK'
  OBVIOUS
<1>2. Reloads'
  <2>1. watcher'.seen = file /\ watcher.sends = 0 /\ watcher.read \in Nat /\ current \in Nat
        /\ file \in Nat /\ watcher.seen \in Nat
    OBVIOUS
  <2>2. CASE watcher' = [watcher EXCEPT !.seen = file]
    BY <2>1, <2>2 DEF Reloads
  <2>3. CASE watcher' = [seen |-> file, read |-> file, sends |-> file]
    BY <2>1, <2>3 DEF Reloads
  <2> QED BY <2>2, <2>3
<1>3. (Contexts /\ Future /\ Filling /\ Porting)'
  BY DEF Contexts, Future, Filling, FillingOf, Porting, Cancelled
<1> QED BY <1>1, <1>2, <1>3

LEMMA StopIInv == IInv /\ Stop => IInv'
<1> SUFFICES ASSUME IInv, Stop PROVE IInv'
  OBVIOUS
<1> USE ServerRunAssumption DEF IInv, TypeOK, Stop, Loop, Runs, Numbers
<1>1. TypeOK'
  OBVIOUS
<1>2. (Contexts /\ Reloads /\ Future)'
  BY DEF Contexts, Reloads, Future
<1>3. (Filling /\ Porting)'
  BY DEF Filling, FillingOf, Porting, Cancelled
<1> QED BY <1>1, <1>2, <1>3

LEMMA ReloadIInv == IInv /\ Reload => IInv'
<1> SUFFICES ASSUME IInv, Reload PROVE IInv'
  OBVIOUS
<1> USE ServerRunAssumption DEF IInv, Reload, Loop
<1>1. current + 1 \in Runs /\ current \in Runs /\ current' = current + 1
  BY DEF TypeOK, Reloads, Runs
<1>2. Spawned \in RunType /\ run \in [Runs -> RunType]
  BY Records DEF TypeOK
<1>3. run' \in [Runs -> RunType]
  BY <1>1, <1>2
<1>4. TypeOK'
  <2>1. watcher.sends \in Runs /\ watcher' = [watcher EXCEPT !.sends = 0] /\ 0 \in Numbers
    BY DEF TypeOK, Numbers, Runs
  <2>2. ended \cup {current} \subseteq Runs
    BY <1>1 DEF TypeOK
  <2> QED BY <1>1, <1>3, <2>1, <2>2 DEF TypeOK
<1>5. Contexts' /\ Reloads'
  BY <1>1 DEF TypeOK, Contexts, Reloads, Runs
<1>6. Future'
  BY <1>1, <1>2 DEF Future, Runs
<1>7. run[current + 1] = NoRun
  BY <1>1 DEF Future, Runs
<1>8. \A r \in Runs : r # current + 1 => run'[r] = run[r] /\ run[r].ctx \in Nat
  BY DEF TypeOK, RunType, Numbers
<1>9. run'[current + 1] = Spawned /\ current \in Nat
  BY <1>1 DEF TypeOK, Runs
<1>10. \A r \in Runs : FillingOf(r)'
  BY <1>1, <1>8, <1>9 DEF Filling, FillingOf, Cancelled, Spawned, NoRun
<1>11. Porting'
  BY <1>7, <1>8 DEF Porting, NoRun
<1> QED BY <1>4, <1>5, <1>6, <1>10, <1>11 DEF Filling

LEMMA ExitIInv == IInv /\ Exit => IInv'
<1> SUFFICES ASSUME IInv, Exit PROVE IInv'
  OBVIOUS
<1> USE ServerRunAssumption DEF IInv, TypeOK, Exit
<1>1. TypeOK'
  BY DEF Numbers
<1>2. (Contexts /\ Reloads /\ Future)'
  BY DEF Contexts, Reloads, Future
<1>3. (Filling /\ Porting)'
  BY DEF Filling, FillingOf, Porting, Cancelled, Runs
<1> QED BY <1>1, <1>2, <1>3

LEMMA ReceiveIInv == ASSUME NEW r \in Runs, IInv, Receive(r) PROVE IInv'
<1> USE ServerRunAssumption DEF IInv, TypeOK, Receive, Loop
<1>1. TypeOK'
  <2>1. run[r] \in RunType /\ "returned" \in Pcs
    BY DEF Pcs
  <2>2. [run[r] EXCEPT !.pc = "returned"] \in RunType
    BY <2>1 DEF RunType
  <2> QED BY <2>2
<1>2. ~(r > current)
  BY DEF Future, NoRun
<1>3. (Contexts /\ Reloads)'
  BY DEF Contexts, Reloads
<1>5. \A q \in Runs : q # r => run'[q] = run[q]
  OBVIOUS
<1>6. Future'
  BY <1>2, <1>5 DEF Future
<1>4. (Filling /\ Porting)'
  BY DEF Filling, FillingOf, Porting, Cancelled
<1> QED BY <1>1, <1>3, <1>4, <1>6

\* What a step of one run leaves as it was.
LEMMA StepIInv ==
    ASSUME NEW r \in Runs, IInv, run' = [run EXCEPT ![r] = run'[r]], run'[r] \in RunType,
           run[r].pc # "none", UNCHANGED <<current, ended, config, file, watcher>>,
           main' = main \/ (main' = "panicked" /\ main # "running"),
           port' \in Numbers, failures' \in 0 .. MaxFailures, FillingOf(r)', Porting'
    PROVE  IInv'
<1> USE DEF IInv
<1>1. TypeOK'
  BY DEF TypeOK
<1>2. Contexts' /\ Reloads'
  BY DEF Contexts, Reloads
<1>3. ~(r > current)
  BY DEF Future, NoRun
<1>4. \A q \in Runs : q # r => run'[q] = run[q]
  BY DEF TypeOK
<1>5. Future'
  BY <1>3, <1>4 DEF Future
<1>6. Filling'
  BY <1>4 DEF Filling, FillingOf, Cancelled
<1> QED BY <1>1, <1>2, <1>5, <1>6

LEMMA RunStepIInv == ASSUME NEW r \in Runs, IInv, RunStep(r) PROVE IInv'
<1> USE ServerRunAssumption DEF Step
<1>1. run[r] \in RunType /\ run \in [Runs -> RunType]
  BY DEF IInv, TypeOK, RunType
<1>2. failures \in 0 .. MaxFailures /\ port \in Numbers /\ 0 \in Numbers /\ current \in Numbers
      /\ config \in Numbers /\ r \in Numbers /\ r # 0 /\ current \in Nat
  BY DEF IInv, TypeOK, Runs, Numbers
<1>0. FillingOf(r) /\ Porting
  BY DEF IInv, Filling
<1>3. CASE Begin(r)
  <2>1. run'[r] \in RunType /\ run' = [run EXCEPT ![r] = run'[r]]
    BY <1>1, <1>2, <1>3 DEF Begin, RunType, Pcs
  <2>2. FillingOf(r)'
    BY <1>0, <1>1, <1>2, <1>3 DEF Begin, FillingOf, Cancelled, RunType
  <2>3. Porting'
    BY <1>0, <1>1, <1>2, <1>3, <2>1 DEF Begin, Porting
  <2> QED BY <2>1, <2>2, <2>3, <1>2, <1>3, StepIInv DEF Begin
<1>4. CASE MakeClients(r)
  <2>1. run'[r] \in RunType /\ run' = [run EXCEPT ![r] = run'[r]]
    BY <1>1, <1>4 DEF MakeClients, Fails, RunType, Pcs
  <2>2. FillingOf(r)'
    BY <1>0, <1>1, <1>2, <1>4 DEF MakeClients, Fails, FillingOf, Cancelled, Groups, RunType
  <2>3. Porting'
    BY <1>0, <1>1, <1>2, <1>4, <2>1 DEF MakeClients, Fails, Porting
  <2> QED BY <2>1, <2>2, <2>3, <1>2, <1>4, StepIInv DEF MakeClients, Fails
<1>5. CASE Discover(r)
  <2>1. run'[r] \in RunType /\ run' = [run EXCEPT ![r] = run'[r]]
    BY <1>1, <1>5 DEF Discover, Fails, RunType, Pcs
  <2>2. FillingOf(r)'
    BY <1>0, <1>1, <1>2, <1>5 DEF Discover, Fails, FillingOf, Cancelled, RunType
  <2>3. Porting'
    BY <1>0, <1>1, <1>2, <1>5, <2>1 DEF Discover, Fails, Porting
  <2> QED BY <2>1, <2>2, <2>3, <1>2, <1>5, StepIInv DEF Discover, Fails
<1>6. CASE WaitForCacheSync(r)
  <2>1. run[r].group \in Groups
    BY <1>6 DEF WaitForCacheSync, IInv, Filling, FillingOf
  <2>2. PICK groups \in SUBSET Groups :
            /\ Filled(r, groups)
            /\ Cancelled(r) \/ groups = {run[r].group}
    BY <1>6, <2>1 DEF WaitForCacheSync
  <2>3. run'[r] \in RunType /\ run' = [run EXCEPT ![r] = run'[r]]
    BY <1>1, <2>1, <2>2 DEF Filled, RunType, Pcs, Groups
  <2>4. FillingOf(r)'
    <3>1. (Cancelled(r)' <=> Cancelled(r)) /\ run'[r].ctx <= current'
      BY <1>1, <1>6, <2>2 DEF Cancelled, WaitForCacheSync, Filled, RunType, IInv, Filling, FillingOf
    <3>2. Cancelled(r) \/ \A g \in Groups : g < run[r].group => g \in run[r].synced
      BY <1>6 DEF WaitForCacheSync, IInv, Filling, FillingOf
    <3>3. Cancelled(r) \/ \A g \in Groups : g <= run[r].group => g \in run'[r].synced
      BY <1>1, <2>1, <2>2, <3>2 DEF Filled, RunType, Groups
    <3>4. CASE run[r].group = Factories
      BY <1>1, <2>2, <3>1, <3>3, <3>4 DEF Filled, FillingOf, RunType, Groups
    <3>5. CASE run[r].group # Factories
      BY <1>1, <2>1, <2>2, <3>1, <3>3, <3>5 DEF Filled, FillingOf, RunType, Groups
    <3> QED BY <3>4, <3>5
  <2>5. Porting'
    BY <1>1, <1>6, <2>2 DEF WaitForCacheSync, Filled, Porting, IInv, TypeOK
  <2> QED BY <2>3, <2>4, <2>5, <1>2, <1>6, StepIInv DEF WaitForCacheSync
<1>7. CASE Listen(r)
  <2>1. run'[r] \in RunType /\ run' = [run EXCEPT ![r] = run'[r]]
    BY <1>1, <1>7 DEF Listen, RunType, Pcs
  <2>2. FillingOf(r)'
    BY <1>0, <1>1, <1>2, <1>7 DEF Listen, FillingOf, Cancelled, Runs, RunType
  <2>3. Porting'
    <3>1. \A q \in Runs : q # 0 /\ (q # r => run'[q] = run[q])
      BY <1>1, <2>1 DEF Runs
    <3>2. \A q \in Runs : q # r /\ port' = q => port = q
      BY <1>7, <3>1 DEF Listen
    <3>3. port' = r => run'[r].pc = "serving" /\ ~run'[r].shut
      BY <1>0, <1>1, <1>2, <1>7 DEF Listen, Porting, RunType
    <3> QED BY <1>0, <3>1, <3>2, <3>3 DEF Porting
  <2> QED BY <2>1, <2>2, <2>3, <1>2, <1>7, StepIInv DEF Listen
<1>8. CASE Shutdown(r)
  <2>1. run'[r] \in RunType /\ run' = [run EXCEPT ![r] = run'[r]]
    BY <1>1, <1>8 DEF Shutdown, RunType, Pcs
  <2>2. FillingOf(r)'
    BY <1>0, <1>1, <1>2, <1>8 DEF Shutdown, FillingOf, Cancelled, RunType
  <2>3. Porting'
    <3>1. \A q \in Runs : q # 0 /\ (q # r => run'[q] = run[q])
      BY <1>1, <2>1 DEF Runs
    <3>2. \A q \in Runs : q # r /\ port' = q => port = q
      BY <1>8, <3>1 DEF Shutdown
    <3>3. port' = r => run'[r].pc = "serving" /\ ~run'[r].shut
      BY <1>0, <1>1, <1>2, <1>8 DEF Shutdown, Porting, RunType
    <3> QED BY <1>0, <3>1, <3>2, <3>3 DEF Porting
  <2> QED BY <2>1, <2>2, <2>3, <1>2, <1>8, StepIInv DEF Shutdown
<1>9. CASE ServerClosed(r)
  <2>1. run'[r] \in RunType /\ run' = [run EXCEPT ![r] = run'[r]]
    BY <1>1, <1>9 DEF ServerClosed, RunType, Pcs
  <2>2. FillingOf(r)'
    BY <1>0, <1>1, <1>2, <1>9 DEF ServerClosed, FillingOf, Cancelled, RunType
  <2>3. Porting'
    BY <1>0, <1>1, <1>2, <1>9, <2>1 DEF ServerClosed, Porting
  <2> QED BY <2>1, <2>2, <2>3, <1>2, <1>9, StepIInv DEF ServerClosed
<1>10. CASE SendOnClosed(r)
  <2>1. run'[r] \in RunType /\ run' = [run EXCEPT ![r] = run'[r]]
    BY <1>1, <1>10 DEF SendOnClosed
  <2>2. FillingOf(r)'
    BY <1>0, <1>1, <1>2, <1>10 DEF SendOnClosed, FillingOf, Cancelled, RunType
  <2>3. Porting'
    BY <1>0, <1>1, <1>2, <1>10, <2>1 DEF SendOnClosed, Porting
  <2> QED BY <2>1, <2>2, <2>3, <1>2, <1>10, StepIInv DEF SendOnClosed
<1> QED BY <1>3, <1>4, <1>5, <1>6, <1>7, <1>8, <1>9, <1>10 DEF RunStep

LEMMA StutterIInv == IInv /\ UNCHANGED vars => IInv'
BY DEF IInv, TypeOK, Contexts, Reloads, Future, Filling, FillingOf, Porting, Cancelled, vars

\* All of the invariant together, on every reachable state.
THEOREM Invariance == Spec => []IInv
<1>1. IInv /\ [Next]_vars => IInv'
  BY WriteIInv, NoticeIInv, StopIInv, ReloadIInv, ExitIInv, ReceiveIInv, RunStepIInv, StutterIInv
     DEF Next
<1> QED BY InitIInv, <1>1, PTL DEF Spec

\* Types (server.go, aiserver.go, config.go).
THEOREM TypesHold == Spec => []TypeOK
<1>1. IInv => TypeOK
  BY DEF IInv
<1> QED BY Invariance, <1>1, PTL

\* A server that is not told to stop has the newest context, while the loop runs.
THEOREM OldOnesStopHolds == Spec => []OldOnesStop
<1>1. ASSUME IInv, NEW r \in Runs, run[r].ctx # 0, ~Cancelled(r)
      PROVE  main = "running" /\ run[r].ctx = current
  <2>1. run[r].ctx \in Nat /\ current \in Nat
    BY <1>1 DEF IInv, TypeOK, RunType, Numbers, Runs
  <2>2. run[r].ctx <= current /\ run[r].ctx \notin ended
    BY <1>1 DEF IInv, Filling, FillingOf, Cancelled
  <2>3. run[r].ctx = current
    BY <1>1, <2>1, <2>2 DEF IInv, Contexts
  <2> QED BY <1>1, <2>2, <2>3 DEF IInv, Contexts
<1>2. IInv => OldOnesStop
  BY <1>1 DEF OldOnesStop
<1> QED BY Invariance, <1>2, PTL

\* Who is served by a server that goes on is served from filled informers.
THEOREM ServesFilledHolds == Spec => []ServesFilled
<1>1. IInv => ServesFilled
  BY DEF IInv, TypeOK, Numbers, Runs, Filling, FillingOf, Porting, ServesFilled
<1> QED BY Invariance, <1>1, PTL

-----------------------------------------------------------------------------
(* The newest configuration. That it comes to be served TLC checks; that   *)
(* it is neither lost nor mixed with another on its way is proved.         *)

Past(r) == run[r].pc \in {"discover", "wait", "listen", "serving"}

\* A run has a context that is no older than itself; one that has the newest has the
\* newest configuration, also where it made its clients; none is shut down or
\* returns before its context is cancelled.
Newest(r) ==
    /\ run[r].pc \notin {"none", "spawned"} => r <= run[r].ctx
    /\ run[r].pc \in {"none", "spawned"} => run[r].ctx = 0
    /\ run[r].ctx = current => run[r].config = config /\ (Past(r) => run[r].cache = config)
    /\ run[r].shut \/ run[r].pc = "returned" => Cancelled(r)

\* The newest run was spawned, its context is cancelled at the end only, and the last
\* configuration sent is the configuration.
Going ==
    /\ run[current].pc # "none"
    /\ \A c \in ended : c <= current /\ (main = "running" => c < current)
    /\ watcher.sends = 0 => config = watcher.read

NInv == IInv /\ Going /\ \A r \in Runs : Newest(r)

\* While the process is neither stopped nor fails, what the watcher sent last is the
\* configuration, and the last run is on its way: it has yet to begin, or it has
\* the newest context and nothing of an older configuration, has not returned, and
\* nobody shuts it down.
NewestOnItsWay ==
    main = "running" =>
        /\ watcher.sends = 0 => config = watcher.read
        /\ run[current].pc \notin {"none", "returned"} /\ ~run[current].shut
        /\ run[current].pc # "spawned" =>
              /\ run[current].ctx = current /\ run[current].config = config
              /\ Past(current) => run[current].cache = config

LEMMA InitNInv == Init => NInv
<1> SUFFICES ASSUME Init PROVE NInv
  OBVIOUS
<1>1. \A r \in Runs : run[r].pc \in {"none", "spawned"} /\ run[r].ctx = 0 /\ ~run[r].shut
  BY DEF Init, NoRun, Spawned
<1>2. current = 1 /\ 1 \in Runs /\ run[1] = Spawned /\ config = watcher.read
  BY ServerRunAssumption DEF Init, Runs
<1>3. run[current].pc # "none" /\ ended = {}
  BY <1>2 DEF Init, Spawned, NoRun
<1>4. Going
  BY <1>2, <1>3 DEF Going
<1>5. \A r \in Runs : Newest(r)
  BY <1>1, <1>2 DEF Newest, Runs
<1> QED BY <1>4, <1>5, InitIInv DEF NInv

\* Steps that move no run.
LEMMA StillNInv ==
    ASSUME NInv, Write \/ Notice \/ Stop \/ Exit \/ UNCHANGED vars
    PROVE  Going' /\ \A r \in Runs : Newest(r)'
<1>1. /\ UNCHANGED <<run, current, config>> /\ ended \subseteq ended' /\ current \in Nat
      /\ \/ ended' = ended /\ (main' = main \/ main' = "exited")
         \/ ended' = ended \cup {current} /\ main' = "stopped"
  BY DEF Write, Notice, Stop, Loop, Exit, vars, NInv, IInv, TypeOK, Runs
<1>2. Going'
  <2>1. watcher'.sends = 0 => config' = watcher'.read
    BY <1>1, ServerRunAssumption DEF NInv, Going, IInv, TypeOK, Runs, Write, Notice, Stop, Loop,
                                     Exit, vars
  <2> QED BY <1>1, <2>1 DEF NInv, Going
<1>3. \A r \in Runs : Newest(r)'
  BY <1>1 DEF NInv, Newest, Past, Cancelled
<1> QED BY <1>2, <1>3

LEMMA ReloadNInv ==
    ASSUME NInv, Reload, NEW n, n = current + 1
    PROVE  Going' /\ \A r \in Runs : Newest(r)'
<1>1. /\ current' = n /\ ended' = ended \cup {current} /\ current \in Nat
      /\ run' = [run EXCEPT ![n] = Spawned]
      /\ config' = watcher.sends /\ watcher' = [watcher EXCEPT !.sends = 0]
      /\ watcher.sends = watcher.read
  BY DEF Reload, Loop, NInv, IInv, TypeOK, Runs, Reloads
<1>2. n \in Runs /\ run \in [Runs -> RunType]
  BY ServerRunAssumption DEF NInv, IInv, TypeOK, Reload, Loop, Reloads, Runs
<1>3. run'[n] = Spawned /\ \A r \in Runs : r # n => run'[r] = run[r]
  BY <1>1, <1>2
<1>4. run'[n].pc = "spawned" /\ run'[n].ctx = 0 /\ ~run'[n].shut
  BY <1>3 DEF Spawned, NoRun
<1>5. Going'
  <2>1. \A c \in ended' : c \in Nat /\ c < n
    BY <1>1 DEF NInv, Going, IInv, TypeOK, Runs
  <2>2. watcher'.sends = 0 => config' = watcher'.read
    BY <1>1 DEF NInv, IInv, TypeOK
  <2>3. \A c \in ended' : c <= current' /\ (main' = "running" => c < current')
    BY <1>1, <1>2, <2>1 DEF Runs
  <2>4. run'[current'].pc # "none"
    BY <1>1, <1>4
  <2> QED BY <2>2, <2>3, <2>4 DEF Going
<1>6. Newest(n)'
  <2>1. run'[n].ctx # current'
    BY <1>1, <1>2, <1>4 DEF Runs
  <2> QED BY <1>4, <2>1 DEF Newest
<1>7. ASSUME NEW r \in Runs, r # n PROVE Newest(r)'
  <2>1. run'[r] = run[r] /\ Newest(r) /\ run[r].ctx <= current /\ run[r].ctx \in Nat
    BY <1>2, <1>3, <1>7 DEF NInv, IInv, Filling, FillingOf, RunType, Numbers
  <2>2. run'[r].ctx # current'
    BY <1>1, <2>1
  <2>3. Cancelled(r) => Cancelled(r)'
    BY <1>1, <2>1 DEF Cancelled
  <2> QED BY <2>1, <2>2, <2>3 DEF Newest
<1> QED BY <1>2, <1>5, <1>6, <1>7

\* The runs that a step of one run leaves alone.
LEMMA OneNInv ==
    ASSUME NInv, NEW r \in Runs, run' = [run EXCEPT ![r] = run'[r]], run'[r].pc # "none",
           UNCHANGED <<current, config, watcher>>, Newest(r)',
           \/ ended' = ended /\ (main' = main \/ main' # "running")
           \/ ended' = ended \cup {current} /\ main' # "running"
    PROVE  Going' /\ \A q \in Runs : Newest(q)'
<1>1. \A q \in Runs : q # r => run'[q] = run[q]
  BY DEF NInv, IInv, TypeOK
<1>2. Going'
  <2>1. current \in Runs /\ current \in Nat /\ Going
    BY DEF NInv, IInv, TypeOK, Runs
  <2>2. run'[current].pc # "none"
    BY <1>1, <2>1 DEF Going
  <2>3. \A c \in ended' : c <= current' /\ (main' = "running" => c < current')
    BY <2>1 DEF Going
  <2> QED BY <2>1, <2>2, <2>3 DEF Going
<1>3. ASSUME NEW q \in Runs, q # r PROVE Newest(q)'
  BY <1>1, <1>3 DEF NInv, Newest, Past, Cancelled
<1> QED BY <1>2, <1>3

LEMMA ReceiveNInv ==
    ASSUME NInv, NEW r \in Runs, Receive(r) PROVE Going' /\ \A q \in Runs : Newest(q)'
<1>1. /\ run[r].pc = "failed" /\ run' = [run EXCEPT ![r].pc = "returned"]
      /\ ended' = ended \cup {current} /\ main' = "failed"
      /\ UNCHANGED <<current, config, watcher>>
  BY DEF Receive, Loop
<1>2. /\ run' = [run EXCEPT ![r] = run'[r]] /\ run'[r] = [run[r] EXCEPT !.pc = "returned"]
      /\ run[r] \in RunType
  BY <1>1 DEF NInv, IInv, TypeOK
<1>3. /\ run'[r].pc = "returned" /\ run'[r].ctx = run[r].ctx
      /\ run'[r].config = run[r].config
  BY <1>2 DEF RunType
<1>4. r <= run[r].ctx /\ run[r].ctx <= current /\ Newest(r)
  BY <1>1 DEF NInv, Newest, IInv, Filling, FillingOf
<1>5. run[r].ctx \in 1 .. current
  BY <1>2, <1>4 DEF RunType, Numbers, Runs
<1>6. run[r].ctx = current \/ run[r].ctx \in ended
  BY <1>2, <1>5 DEF NInv, IInv, Contexts, RunType, Numbers, TypeOK, Runs
<1>7. Newest(r)'
  BY <1>1, <1>3, <1>4, <1>6 DEF Newest, Past, Cancelled
<1> QED BY <1>1, <1>2, <1>3, <1>7, OneNInv

LEMMA RunStepNInv ==
    ASSUME NInv, NEW r \in Runs, RunStep(r) PROVE Going' /\ \A q \in Runs : Newest(q)'
<1>1. /\ run[r] \in RunType /\ run \in [Runs -> RunType] /\ Newest(r) /\ r \in Nat /\ r # 0
      /\ current \in Nat /\ (run[r].pc # "none" => r <= current)
  <2>1. run[r].pc # "none" => ~(r > current)
    BY DEF NInv, IInv, Future, NoRun
  <2> QED BY <2>1 DEF NInv, IInv, TypeOK, Runs
<1>2. UNCHANGED <<current, ended, config, watcher>> /\ run[r].pc # "none"
  BY DEF RunStep, Begin, MakeClients, Discover, WaitForCacheSync, Listen, Shutdown, ServerClosed,
         SendOnClosed, Step
<1>3. run' = [run EXCEPT ![r] = run'[r]]
  BY <1>1 DEF RunStep, Begin, MakeClients, Discover, WaitForCacheSync, Listen, Shutdown,
              ServerClosed, SendOnClosed, Fails, Filled
<1>0. main' = main \/ main' # "running"
  BY DEF RunStep, Begin, MakeClients, Discover, WaitForCacheSync, Listen, Shutdown, ServerClosed,
         SendOnClosed
<1>4. SUFFICES run'[r].pc # "none" /\ Newest(r)'
  BY <1>0, <1>2, <1>3, OneNInv
<1> USE <1>1, <1>2 DEF Newest, Past, Cancelled, RunType, Step
<1>5. CASE Begin(r)
  BY <1>5 DEF Begin
<1>6. CASE MakeClients(r)
  BY <1>6 DEF MakeClients, Fails
<1>7. CASE Discover(r)
  BY <1>7 DEF Discover, Fails
<1>8. CASE WaitForCacheSync(r)
  BY <1>8 DEF WaitForCacheSync, Filled
<1>9. CASE Listen(r)
  BY <1>9 DEF Listen
<1>10. CASE Shutdown(r)
  BY <1>10 DEF Shutdown
<1>11. CASE ServerClosed(r)
  BY <1>11 DEF ServerClosed
<1>12. CASE SendOnClosed(r)
  BY <1>12 DEF SendOnClosed
<1> QED BY <1>5, <1>6, <1>7, <1>8, <1>9, <1>10, <1>11, <1>12 DEF RunStep

\* What NewestIsServed needs and fairness does not give: reloads, shutdowns and old
\* servers that begin late never leave the process without a run of the newest
\* configuration, nor with one that has parts of an older (server.go Run, config.go
\* watchConfig).
THEOREM NewestNeverLost == Spec => []NewestOnItsWay
<1>1. NInv /\ [Next]_vars => IInv'
  BY WriteIInv, NoticeIInv, StopIInv, ReloadIInv, ExitIInv, ReceiveIInv, RunStepIInv, StutterIInv
     DEF Next, NInv
<1>2. NInv /\ [Next]_vars => NInv'
  BY <1>1, StillNInv, ReloadNInv, ReceiveNInv, RunStepNInv DEF Next, NInv
<1>3. NInv => NewestOnItsWay
  <2> SUFFICES ASSUME NInv, main = "running" PROVE NewestOnItsWay
    BY DEF NewestOnItsWay
  <2>1. current \in Runs /\ current \in Nat /\ run[current] \in RunType /\ Newest(current)
        /\ Going /\ run[current].ctx <= current
    BY DEF NInv, IInv, TypeOK, Runs, Filling, FillingOf
  <2>2. run[current].ctx = 0 \/ run[current].ctx = current => ~Cancelled(current)
    BY <2>1 DEF NInv, IInv, TypeOK, Runs, Going, Cancelled
  <2>3. CASE run[current].pc = "spawned"
    BY <2>1, <2>3, <2>2 DEF NewestOnItsWay, Newest, Going
  <2>4. CASE run[current].pc # "spawned"
    <3>1. run[current].ctx = current
      BY <2>1, <2>4 DEF Newest, Going, RunType, Numbers
    <3> QED BY <2>1, <2>4, <2>2, <3>1 DEF NewestOnItsWay, Newest, Going
  <2> QED BY <2>3, <2>4
<1> QED BY InitNInv, <1>2, <1>3, PTL DEF Spec

=============================================================================
