------------------------------- MODULE ServerRun -------------------------------
(***************************************************************************)
(* ai-server from its start to its end: every change of the configuration  *)
(* file stops the server that runs and starts another one, with informers, *)
(* clients and handlers of its own, on the same port                       *)
(* (cmd/ai-server/app/server.go, pkg/aiserver/aiserver.go, config).        *)
(*                                                                         *)
(* The first run and one for each reload are goroutines; a run stands for  *)
(* the server it makes. Configurations are numbered.                       *)
(***************************************************************************)
EXTENDS Naturals, FiniteSets

CONSTANTS
    MaxFiles,     \* bound: the last number of a configuration file
    MaxFailures,  \* bound: failures of clients, discovery and certificates
    Steps,        \* how often discovery is tried
    Factories     \* informer factories: Kubernetes, the program's own, extensions

ASSUME ServerRunAssumption ==
    MaxFiles \in Nat \ {0} /\ MaxFailures \in Nat /\ Steps \in Nat \ {0} /\ Factories \in Nat \ {0}

Groups == 1 .. Factories

Runs == 1 .. MaxFiles

VARIABLES
    main,      \* Run: "running", or how it ended
    current,   \* ictx, the context of the newest run
    ended,     \* contexts that are cancelled
    config,    \* s.Config, which all goroutines share
    file,      \* the configuration file
    watcher,   \* the file seen, the last that could be read, and what waits to be
               \* sent, or 0
    run,       \* the goroutines of run
    port,      \* the run whose server listens, or 0
    failures   \* how many failures there were

vars == <<main, current, ended, config, file, watcher, run, port, failures>>

NoRun == [pc |-> "none", ctx |-> 0, config |-> 0, cache |-> 0, group |-> 0, tries |-> 0,
          synced |-> {}, shut |-> FALSE]

Spawned == [NoRun EXCEPT !.pc = "spawned"]

Init ==
    /\ main = "running" /\ current = 1 /\ ended = {}
    /\ config = 1 /\ file = 1 /\ watcher = [seen |-> 1, read |-> 1, sends |-> 0]
    /\ run = [r \in Runs |-> IF r = 1 THEN Spawned ELSE NoRun]
    /\ port = 0 /\ failures = 0

-----------------------------------------------------------------------------
(* The configuration file and its watcher.                                 *)

Write ==
    /\ file < MaxFiles /\ file' = file + 1
    /\ UNCHANGED <<main, current, ended, config, watcher, run, port, failures>>

\* OnConfigChange: what cannot be read is logged and not sent.
Notice ==
    /\ watcher.sends = 0 /\ watcher.seen # file
    /\ \/ watcher' = [watcher EXCEPT !.seen = file]
       \/ watcher' = [seen |-> file, read |-> file, sends |-> file]
    /\ UNCHANGED <<main, current, ended, config, file, run, port, failures>>

-----------------------------------------------------------------------------
(* Run, the loop of the main goroutine.                                    *)

Loop == main = "running" /\ UNCHANGED <<file, port, failures>>

Stop ==
    /\ Loop
    /\ ended' = ended \cup {current} /\ main' = "stopped"
    /\ UNCHANGED <<current, config, watcher, run>>

\* Mutant of the next: the server that runs is left to itself.
ReloadBesides ==
    /\ Loop
    /\ watcher.sends # 0 /\ watcher' = [watcher EXCEPT !.sends = 0]
    /\ config' = watcher.sends /\ current' = current + 1
    /\ run' = [run EXCEPT ![current + 1] = Spawned]
    /\ UNCHANGED <<main, ended>>

\* Mutant of the next: the new configuration is dropped.
ReloadOld ==
    /\ Loop
    /\ watcher.sends # 0 /\ watcher' = [watcher EXCEPT !.sends = 0]
    /\ ended' = ended \cup {current} /\ current' = current + 1
    /\ run' = [run EXCEPT ![current + 1] = Spawned]
    /\ UNCHANGED <<main, config>>

\* The old context is cancelled, and nobody waits for the server that has it.
Reload ==
    /\ Loop
    /\ watcher.sends # 0 /\ watcher' = [watcher EXCEPT !.sends = 0]
    /\ ended' = ended \cup {current} /\ current' = current + 1
    /\ config' = watcher.sends
    /\ run' = [run EXCEPT ![current + 1] = Spawned]
    /\ UNCHANGED main

\* Mutant of the next: an error is received and the loop goes on.
ReceiveAndGoOn(r) ==
    /\ Loop
    /\ run[r].pc = "failed" /\ run' = [run EXCEPT ![r].pc = "returned"]
    /\ UNCHANGED <<main, current, ended, config, watcher>>

\* An error arrives on errCh, which is then closed.
Receive(r) ==
    /\ Loop
    /\ run[r].pc = "failed" /\ run' = [run EXCEPT ![r].pc = "returned"]
    /\ ended' = ended \cup {current} /\ main' = "failed"
    /\ UNCHANGED <<current, config, watcher>>

-----------------------------------------------------------------------------
(* run: a server is made, prepared and run.                                *)

Step(r, pc) ==
    /\ main \in {"running", "stopped", "failed"}
    /\ run[r].pc = pc
    /\ UNCHANGED <<current, ended, config, file, watcher>>

Cancelled(r) == run[r].ctx \in ended

\* NewAPIServer. The closure reads the newest context, which a reload before it
\* may have made, and the configuration that all share.
Begin(r) ==
    /\ Step(r, "spawned")
    /\ run' = [run EXCEPT ![r].pc = "clients", ![r].ctx = current, ![r].config = config]
    /\ UNCHANGED <<main, port, failures>>

Fails(r) ==
    /\ failures < MaxFailures /\ failures' = failures + 1
    /\ run' = [run EXCEPT ![r].pc = "failed"]

\* The Kubernetes client, the cache, of what is then the configuration, and the
\* certificate; PrepareRun installs the handlers.
MakeClients(r) ==
    /\ Step(r, "clients")
    /\ \/ /\ run' = [run EXCEPT ![r].pc = "discover", ![r].cache = config, ![r].group = 1]
          /\ UNCHANGED failures
       \/ Fails(r)
    /\ UNCHANGED <<main, port>>

\* The group's resources are asked for, again if that fails, unless there are none.
Discover(r) ==
    /\ Step(r, "discover")
    /\ \/ run' = [run EXCEPT ![r].pc = "wait", ![r].tries = 0] /\ UNCHANGED failures
       \/ /\ run[r].tries + 1 < Steps
          /\ failures < MaxFailures /\ failures' = failures + 1
          /\ run' = [run EXCEPT ![r].tries = @ + 1]
       \/ Fails(r)
    /\ UNCHANGED <<main, port>>

\* On to the next group, or to the port after the last.
Filled(r, groups) ==
    run' = [run EXCEPT ![r].pc = IF run[r].group = Factories THEN "listen" ELSE "discover",
                       ![r].group = @ + 1, ![r].synced = @ \cup groups]

\* Mutant of the next: informers are started and not waited for.
StartInformers(r) ==
    /\ Step(r, "wait")
    /\ Filled(r, {})
    /\ UNCHANGED <<main, port, failures>>

\* WaitForCacheSync returns when the caches are filled, or the context is cancelled,
\* and is not asked which.
WaitForCacheSync(r) ==
    /\ Step(r, "wait")
    /\ \/ Filled(r, {run[r].group})
       \/ Cancelled(r) /\ Filled(r, {})
    /\ UNCHANGED <<main, port, failures>>

\* ListenAndServe: a server that is shut down does not begin to, and one whose port
\* is taken fails.
Listen(r) ==
    /\ Step(r, "listen")
    /\ \/ /\ run[r].shut /\ run' = [run EXCEPT ![r].pc = "returned"] /\ UNCHANGED port
       \/ /\ ~run[r].shut /\ port = 0
          /\ run' = [run EXCEPT ![r].pc = "serving"] /\ port' = r
       \/ /\ ~run[r].shut /\ port # 0
          /\ run' = [run EXCEPT ![r].pc = "failed"] /\ UNCHANGED port
    /\ UNCHANGED <<main, failures>>

\* The goroutine that waits for the end of the context: Shutdown closes the port.
Shutdown(r) ==
    /\ Step(r, run[r].pc) /\ run[r].pc \in {"listen", "serving"}
    /\ Cancelled(r) /\ ~run[r].shut
    /\ run' = [run EXCEPT ![r].shut = TRUE]
    /\ port' = IF port = r THEN 0 ELSE port
    /\ UNCHANGED <<main, failures>>

\* ListenAndServe returns that the server is closed, which is no error.
ServerClosed(r) ==
    /\ Step(r, "serving") /\ run[r].shut
    /\ run' = [run EXCEPT ![r].pc = "returned"]
    /\ UNCHANGED <<main, port, failures>>

\* What is sent on errCh after Run has closed it ends the process in a panic, unless
\* it is over before that.
SendOnClosed(r) ==
    /\ Step(r, "failed") /\ main # "running"
    /\ main' = "panicked"
    /\ UNCHANGED <<run, port, failures>>

RunStep(r) ==
    \/ Begin(r) \/ MakeClients(r) \/ Discover(r) \/ WaitForCacheSync(r)
    \/ Listen(r) \/ Shutdown(r) \/ ServerClosed(r) \/ SendOnClosed(r)

\* main returns from Run and ends the process.
Exit ==
    /\ main \in {"stopped", "failed"}
    /\ main' = "exited" /\ port' = 0
    /\ UNCHANGED <<current, ended, config, file, watcher, run, failures>>

Next ==
    \/ Write \/ Notice \/ Stop \/ Reload \/ Exit
    \/ \E r \in Runs : Receive(r) \/ RunStep(r)

\* Goroutines run, and the loop takes what is there.
Fairness ==
    /\ WF_vars(Notice) /\ WF_vars(Reload) /\ WF_vars(Exit)
    /\ \A r \in Runs : WF_vars(Receive(r)) /\ WF_vars(RunStep(r))

Spec == Init /\ [][Next]_vars

FairSpec == Spec /\ Fairness

-----------------------------------------------------------------------------
(* Properties.                                                             *)

Pcs == {"none", "spawned", "clients", "discover", "wait", "listen", "serving", "failed", "returned"}

\* What is numbered by files, 0 for none.
Numbers == 0 .. MaxFiles

RunType == [pc: Pcs, ctx: Numbers, config: Numbers, cache: Numbers, group: 0 .. Factories + 1,
            tries: 0 .. Steps - 1, synced: SUBSET Groups, shut: BOOLEAN]

\* All state has its type, and nothing has a number that no file had.
TypeOK ==
    /\ main \in {"running", "stopped", "failed", "exited", "panicked"}
    /\ current \in Runs /\ ended \subseteq Runs
    /\ config \in Runs /\ file \in Runs
    /\ watcher \in [seen: Runs, read: Runs, sends: Numbers]
    /\ run \in [Runs -> RunType]
    /\ port \in Numbers /\ failures \in 0 .. MaxFailures

\* A server that is not told to stop has the newest context, and after the end of
\* the loop there is none (server.go Run): informers and server of every older one
\* are told, even when its goroutine begins after the reload that replaced it.
OldOnesStop ==
    \A r \in Runs : run[r].ctx # 0 /\ ~Cancelled(r) => main = "running" /\ run[r].ctx = current

\* Nobody is served from informers that are not filled, all of them, but by a
\* server that is about to stop (aiserver.go Run, waitForResourceSync).
ServesFilled ==
    port # 0 => run[port].synced = Groups \/ Cancelled(port)

\* A run that fails ends the process (server.go Run): its error is not lost in
\* the channel when reloads and the signal race it for the main loop.
FailureEndsProcess ==
    \A r \in Runs : run[r].pc = "failed" ~> main \in {"exited", "panicked"}

\* A process that is neither stopped nor fails comes to serve, with one whole
\* configuration, the newest that the watcher could read and sent (config.go
\* watchConfig, server.go Run): reloads that come while servers start and stop
\* leave none of an older one and no mixture in the end.
NewestIsServed ==
    <>[](main = "running") =>
        <>[](port # 0 /\ run[port].config = watcher.read
                           /\ run[port].cache = watcher.read)

=============================================================================
