----------------------------- MODULE ServerRuntime -----------------------------
(***************************************************************************)
(* The wsio-server runtime and its namespaces: registering and removing    *)
(* namespaces, the path of an upgrade request from dispatch_request() to   *)
(* its connection, and the shutdown of a namespace and of the server       *)
(* (runtime.rs, namespace/mod.rs, namespace/builder.rs, request.rs).       *)
(*                                                                         *)
(* A connection is reduced to its life: created, registered by             *)
(* insert_connection() once its handshake is over, ended by cleanup().     *)
(* ServerConnection has the detail.                                        *)
(***************************************************************************)
EXTENDS Integers, FiniteSets

CONSTANTS
  Paths,     \* namespace paths
  Copies,    \* bound: namespaces built per path
  Requests,  \* upgrade requests; each one becomes at most one connection
  Callers    \* tasks that register, remove and shut down

ASSUME CopiesAssumption == Copies \in Nat
ASSUME CallersAssumption == "free" \notin Callers

\* A namespace object: its path, and which of the objects built for it.
Namespaces == Paths \X (1..Copies)
None == <<>>
Path(n) == n[1]

VARIABLES
  status,      \* WsIoServerRuntime.status
  namespaces,  \* WsIoServerRuntime.namespaces: the object registered per path
  ns,          \* WsIoServerNamespace.status, or "unbuilt"
  taskSet,     \* connection_task_set: the tasks not yet joined
  taskLock,    \* who holds the task set across an await
  conn,        \* the life of every request and of its connection
  home,        \* the namespace a request was dispatched to
  closing,     \* connections that close_all() has told to close
  late,        \* history: registered while their namespace was Stopping
  op,          \* program counter of every call
  built,       \* the namespace a register() call has built
  step         \* per call and namespace, program counter of namespace.shutdown()

connVars == <<conn, home, closing, late>>
setVars  == <<taskSet, taskLock>>
vars == <<status, namespaces, ns, setVars, connVars, op, built, step>>

Status == {"Running", "Stopping", "Stopped"}
ConnPC == {"none", "dispatched", "upgrading", "check", "created", "registered", "ended"}
OpPC == {"idle", "insert", "shutdown_ns", "store", "snapshot", "shutdown_all", "panicked"}
StepPC == {"none", "get", "store", "close", "lock", "join"}

InTask == {"upgrading", "check", "created", "registered"}
LiveConn == {"created", "registered"}

\* Every variable has its type, a request's task is in the task set of its
\* namespace until it is joined, and join_next() runs under the set's lock.
TypeOK ==
  /\ status \in Status
  /\ namespaces \in [Paths -> Namespaces \cup {None}]
  /\ \A p \in Paths : namespaces[p] # None => Path(namespaces[p]) = p
  /\ ns \in [Namespaces -> Status \cup {"unbuilt"}]
  /\ taskSet \in [Namespaces -> SUBSET Requests]
  /\ taskLock \in [Namespaces -> Callers \cup {"free"}]
  /\ conn \in [Requests -> ConnPC]
  /\ home \in [Requests -> Namespaces \cup {None}]
  /\ \A r \in Requests : conn[r] # "none" => home[r] \in Namespaces
  /\ \A r \in Requests : conn[r] \in InTask => r \in taskSet[home[r]]
  /\ closing \subseteq Requests /\ late \subseteq Requests
  /\ op \in [Callers -> OpPC]
  /\ built \in [Callers -> Namespaces \cup {None}]
  /\ \A a \in Callers : op[a] = "insert" => built[a] \in Namespaces
  /\ step \in [Callers -> [Namespaces -> StepPC]]
  /\ \A a \in Callers, n \in Namespaces : step[a][n] = "join" => taskLock[n] = a

Init ==
  /\ status = "Running"
  /\ namespaces = [p \in Paths |-> None]
  /\ ns = [n \in Namespaces |-> "unbuilt"]
  /\ taskSet = [n \in Namespaces |-> {}]
  /\ taskLock = [n \in Namespaces |-> "free"]
  /\ conn = [r \in Requests |-> "none"]
  /\ home = [r \in Requests |-> None]
  /\ closing = {} /\ late = {}
  /\ op = [a \in Callers |-> "idle"]
  /\ built = [a \in Callers |-> None]
  /\ step = [a \in Callers |-> [n \in Namespaces |-> "none"]]

-----------------------------------------------------------------------------
(***************************************************************************)
(* register(): the namespace is built Running, its path is looked up under *)
(* the read lock, and it is inserted under the write lock.                 *)
(***************************************************************************)
Register(a, n) ==
  /\ op[a] = "idle" /\ ns[n] = "unbuilt"
  /\ ns' = [ns EXCEPT ![n] = "Running"]
  /\ IF namespaces[Path(n)] = None
       THEN op' = [op EXCEPT ![a] = "insert"] /\ built' = [built EXCEPT ![a] = n]
       ELSE UNCHANGED <<op, built>>
  /\ UNCHANGED <<status, namespaces, setVars, connVars, step>>

RegisterInsert(a) ==
  /\ op[a] = "insert" /\ op' = [op EXCEPT ![a] = "idle"]
  /\ namespaces' = [namespaces EXCEPT ![Path(built[a])] = built[a]]
  /\ built' = [built EXCEPT ![a] = None]
  /\ UNCHANGED <<status, ns, setVars, connVars, step>>

\* remove_namespace(): out of the map, then its shutdown.
RemoveNamespace(a, p) ==
  /\ op[a] = "idle" /\ namespaces[p] # None
  /\ namespaces' = [namespaces EXCEPT ![p] = None]
  /\ op' = [op EXCEPT ![a] = "shutdown_ns"]
  /\ step' = [step EXCEPT ![a][namespaces[p]] = "get"]
  /\ UNCHANGED <<status, ns, setVars, connVars, built>>

\* The application calls shutdown() on a namespace it holds.
ShutdownNamespace(a, n) ==
  /\ op[a] = "idle" /\ ns[n] # "unbuilt"
  /\ op' = [op EXCEPT ![a] = "shutdown_ns"]
  /\ step' = [step EXCEPT ![a][n] = "get"]
  /\ UNCHANGED <<status, namespaces, ns, setVars, connVars, built>>

\* The server's shutdown(): the status is read ...
ShutdownGet(a) ==
  /\ op[a] = "idle" /\ status # "Stopped"
  /\ op' = [op EXCEPT ![a] = IF status = "Running" THEN "store" ELSE "panicked"]
  /\ UNCHANGED <<status, namespaces, ns, setVars, connVars, built, step>>

\* ... and stored,
ShutdownStore(a) ==
  /\ op[a] = "store" /\ op' = [op EXCEPT ![a] = "snapshot"]
  /\ status' = "Stopping"
  /\ UNCHANGED <<namespaces, ns, setVars, connVars, built, step>>

\* clone_namespaces() and join_all() over their shutdowns,
ShutdownSnapshot(a) ==
  /\ op[a] = "snapshot" /\ op' = [op EXCEPT ![a] = "shutdown_all"]
  /\ step' = [step EXCEPT ![a] =
                [n \in Namespaces |-> IF namespaces[Path(n)] = n THEN "get" ELSE "none"]]
  /\ UNCHANGED <<status, namespaces, ns, setVars, connVars, built>>

\* and Stopped.  The other calls return when their one shutdown has.
ShutdownReturn(a) ==
  /\ op[a] \in {"shutdown_ns", "shutdown_all"} /\ \A n \in Namespaces : step[a][n] = "none"
  /\ op' = [op EXCEPT ![a] = "idle"]
  /\ status' = IF op[a] = "shutdown_all" THEN "Stopped" ELSE status
  /\ UNCHANGED <<namespaces, ns, setVars, connVars, built, step>>

-----------------------------------------------------------------------------
(***************************************************************************)
(* WsIoServerNamespace::shutdown().                                        *)
(***************************************************************************)
StepTo(a, n, from, to) == step[a][n] = from /\ step' = [step EXCEPT ![a][n] = to]

\* match self.status.get(): Stopped returns, Running goes on.
NsGet(a, n) ==
  /\ ns[n] # "Stopping"
  /\ StepTo(a, n, "get", IF ns[n] = "Running" THEN "store" ELSE "none")
  /\ UNCHANGED <<status, namespaces, ns, setVars, connVars, op, built>>

\* Stopping is unreachable!(): the panic unwinds the whole call, with the
\* other futures of its join_all() and the locks they hold.
NsPanics(a, n) ==
  /\ step[a][n] = "get" /\ ns[n] = "Stopping"
  /\ op' = [op EXCEPT ![a] = "panicked"]
  /\ step' = [step EXCEPT ![a] = [m \in Namespaces |-> "none"]]
  /\ taskLock' = [m \in Namespaces |-> IF taskLock[m] = a THEN "free" ELSE taskLock[m]]
  /\ UNCHANGED <<status, namespaces, ns, taskSet, connVars, built>>

NsStore(a, n) ==
  /\ StepTo(a, n, "store", "close")
  /\ ns' = [ns EXCEPT ![n] = "Stopping"]
  /\ UNCHANGED <<status, namespaces, setVars, connVars, op, built>>


\* close_all(): every connection whose id is registered.
NsCloseAll(a, n) ==
  /\ StepTo(a, n, "close", "lock")
  /\ closing' = closing \cup {r \in Requests : home[r] = n /\ conn[r] = "registered"}
  /\ UNCHANGED <<status, namespaces, ns, setVars, conn, home, late, op, built>>

\* Mutant: the task set is used without its lock.
NsNoLock(a, n) ==
  /\ StepTo(a, n, "lock", "join")
  /\ taskLock' = [taskLock EXCEPT ![n] = a]
  /\ UNCHANGED <<status, namespaces, ns, taskSet, connVars, op, built>>

\* connection_task_set.lock().await, held until shutdown() returns.
NsLock(a, n) ==
  /\ StepTo(a, n, "lock", "join")
  /\ taskLock[n] = "free" /\ taskLock' = [taskLock EXCEPT ![n] = a]
  /\ UNCHANGED <<status, namespaces, ns, taskSet, connVars, op, built>>

\* join_next() returns a task that has ended ...
NsJoinNext(a, n, r) ==
  /\ step[a][n] = "join" /\ r \in taskSet[n] /\ conn[r] = "ended"
  /\ taskSet' = [taskSet EXCEPT ![n] = @ \ {r}]
  /\ UNCHANGED <<status, namespaces, ns, taskLock, connVars, op, built, step>>

\* ... until the set is empty.
NsStopped(a, n) ==
  /\ taskSet[n] = {} /\ StepTo(a, n, "join", "none")
  /\ ns' = [ns EXCEPT ![n] = "Stopped"]
  /\ taskLock' = [taskLock EXCEPT ![n] = "free"]
  /\ UNCHANGED <<status, namespaces, taskSet, connVars, op, built>>

-----------------------------------------------------------------------------
(***************************************************************************)
(* An upgrade request.                                                     *)
(***************************************************************************)
ConnTo(r, from, to) == conn[r] = from /\ conn' = [conn EXCEPT ![r] = to]
ConnOnly == UNCHANGED <<status, namespaces, ns, taskLock, closing, op, built, step>>

\* dispatch_request() finds the namespace; no status is looked at.
Dispatch(r, p) ==
  /\ ConnTo(r, "none", "dispatched") /\ namespaces[p] # None
  /\ home' = [home EXCEPT ![r] = namespaces[p]]
  /\ ConnOnly /\ UNCHANGED <<taskSet, late>>

\* handle_on_upgrade_request(): the task set is locked and the task spawned.
SpawnTask(r) ==
  /\ ConnTo(r, "dispatched", "upgrading") /\ taskLock[home[r]] = "free"
  /\ taskSet' = [taskSet EXCEPT ![home[r]] = @ \cup {r}]
  /\ ConnOnly /\ UNCHANGED <<home, late>>

\* The upgrade fails or times out.
UpgradeFails(r) ==
  /\ ConnTo(r, "upgrading", "ended")
  /\ ConnOnly /\ UNCHANGED <<taskSet, home, late>>

\* Mutant: the runtime's status is not looked at.
CheckNoRuntime(r) ==
  /\ ConnTo(r, "upgrading", "check")
  /\ ConnOnly /\ UNCHANGED <<taskSet, home, late>>

\* handle_upgraded_request(): !runtime.status.is(Running) || ...
CheckRuntime(r) ==
  /\ ConnTo(r, "upgrading", IF status = "Running" THEN "check" ELSE "ended")
  /\ ConnOnly /\ UNCHANGED <<taskSet, home, late>>

\* Mutant: the namespace's status is not looked at.
CheckNoNamespace(r) ==
  /\ ConnTo(r, "check", "created")
  /\ ConnOnly /\ UNCHANGED <<taskSet, home, late>>

\* ... || !self.status.is(Running)
CheckNamespace(r) ==
  /\ ConnTo(r, "check", IF ns[home[r]] = "Running" THEN "created" ELSE "ended")
  /\ ConnOnly /\ UNCHANGED <<taskSet, home, late>>

\* The handshake is over: insert_connection().
InsertConnection(r) ==
  /\ ConnTo(r, "created", "registered")
  /\ late' = IF ns[home[r]] = "Running" THEN late ELSE late \cup {r}
  /\ ConnOnly /\ UNCHANGED <<taskSet, home>>

\* The connection ends and is cleaned up.
ConnectionEnds(r) ==
  /\ conn[r] \in LiveConn /\ conn' = [conn EXCEPT ![r] = "ended"]
  /\ ConnOnly /\ UNCHANGED <<taskSet, home, late>>

\* The application calls close_all() on a namespace.
CloseAll(n) ==
  /\ closing' = closing \cup {r \in Requests : home[r] = n /\ conn[r] = "registered"}
  /\ UNCHANGED <<status, namespaces, ns, setVars, conn, home, late, op, built, step>>

-----------------------------------------------------------------------------
NsShutdown(a, n) ==
  \/ NsGet(a, n) \/ NsPanics(a, n) \/ NsStore(a, n) \/ NsCloseAll(a, n) \/ NsLock(a, n)
  \/ (\E r \in Requests : NsJoinNext(a, n, r)) \/ NsStopped(a, n)

CallStep(a) ==
  \/ RegisterInsert(a) \/ ShutdownStore(a) \/ ShutdownSnapshot(a) \/ ShutdownReturn(a)
  \/ \E n \in Namespaces : NsShutdown(a, n)

RequestStep(r) ==
  SpawnTask(r) \/ UpgradeFails(r) \/ CheckRuntime(r) \/ CheckNamespace(r)

Next ==
  \/ \E a \in Callers : CallStep(a) \/ ShutdownGet(a)
  \/ \E a \in Callers, n \in Namespaces : Register(a, n) \/ ShutdownNamespace(a, n)
  \/ \E a \in Callers, p \in Paths : RemoveNamespace(a, p)
  \/ \E n \in Namespaces : CloseAll(n)
  \/ \E r \in Requests, p \in Paths : Dispatch(r, p)
  \/ \E r \in Requests : RequestStep(r) \/ InsertConnection(r) \/ ConnectionEnds(r)

Spec == Init /\ [][Next]_vars

(***************************************************************************)
(* Fairness: Tokio runs what can run, and the upgrade has a timeout.       *)
(* Nothing is assumed of a connection: its peer may stop reading, which    *)
(* blocks its writer, and the Close frame of close() is dropped when the   *)
(* channel is full (ServerConnection), so that it may stay for ever.       *)
(***************************************************************************)
FairSpec ==
  /\ Spec
  /\ \A a \in Callers : WF_vars(CallStep(a))
  /\ \A r \in Requests : WF_vars(RequestStep(r))

-----------------------------------------------------------------------------
(***************************************************************************)
(* Properties.                                                             *)
(***************************************************************************)
\* A namespace that says Stopped has no connection, not even one that was
\* still in its upgrade or handshake when shutdown() began.
StoppedHasNoConnections ==
  \A r \in Requests : conn[r] \in LiveConn => ns[home[r]] # "Stopped"

\* Once the server is Stopped no registered namespace has a connection, not
\* even one registered after the shutdown took its snapshot.
ServerStoppedIsQuiet ==
  status = "Stopped" =>
    \A r \in Requests : conn[r] \in LiveConn => namespaces[Path(home[r])] # home[r]

(***************************************************************************)
(* What makes ServerStoppedIsQuiet inductive.  A namespace that is not in  *)
(* the map yet has no requests.  Once the runtime's shutdown() is done     *)
(* with a namespace, or over, a request of it that passed the check of the *)
(* runtime's status fails the check of the namespace's.                    *)
(***************************************************************************)
Fresh(n) == (\A p \in Paths : namespaces[p] # n) /\ (\A r \in Requests : home[r] # n)

BuiltInv ==
  /\ \A n \in Namespaces : ns[n] = "unbuilt" => Fresh(n)
  /\ \A a \in Callers : op[a] = "insert" => Fresh(built[a]) /\ ns[built[a]] # "unbuilt"
  /\ \A a, b \in Callers :
       op[a] = "insert" /\ op[b] = "insert" /\ built[a] = built[b] => a = b

Covered(r) ==
  /\ namespaces[Path(home[r])] = home[r]
  /\ \/ status = "Stopped"
     \/ \E a \in Callers : op[a] = "shutdown_all" /\ step[a][home[r]] = "none"

QuietInv ==
  /\ \A a \in Callers : op[a] \in {"snapshot", "shutdown_all"} => status # "Running"
  /\ \A r \in Requests : conn[r] \in {"check"} \cup LiveConn /\ Covered(r) =>
                           conn[r] = "check" /\ ns[home[r]] # "Running"

(***************************************************************************)
(* What a shutdown() that has called close_all() can be waiting for.       *)
(***************************************************************************)
\* A call is inside namespace.shutdown() only where its own counter says so,
\* the lock of a task set belongs to a shutdown that is joining it, a task set
\* has the tasks of requests of its own namespace, and after close_all() no connection can
\* register with a namespace that is Running.
ShutdownInv ==
  /\ \A a \in Callers, n \in Namespaces :
       /\ step[a][n] # "none" => op[a] \in {"shutdown_ns", "shutdown_all"}
       /\ step[a][n] \in {"close", "lock", "join"} => ns[n] \in {"Stopping", "Stopped"}
  /\ \A n \in Namespaces : taskLock[n] # "free" => step[taskLock[n]][n] = "join"
  /\ \A n \in Namespaces : \A r \in taskSet[n] : home[r] = n /\ conn[r] \in InTask \cup {"ended"}

\* A shutdown() that has called close_all() finds the task set free or held by
\* another shutdown() that is joining it, and every connection it joins was
\* told to close, or registered late.
BlockedOnlyByLate ==
  \A a \in Callers, n \in Namespaces :
    step[a][n] \in {"lock", "join"} =>
      /\ taskLock[n] = "free" \/ step[taskLock[n]][n] = "join"
      /\ \A r \in taskSet[n] : conn[r] = "registered" => r \in closing \cup late

\* The shutdown() of a joins the task of connection r, which is told to close
\* or will register late.
HeldUpBy(a, r) ==
  /\ conn[r] \in LiveConn /\ step[a][home[r]] \in {"lock", "join"}
  /\ conn[r] = "registered" => r \in closing \cup late


\* "Directly close connections during shutdown": a shutdown() returns.
ShutdownReturns ==
  \A a \in Callers :
    op[a] \in {"store", "shutdown_ns"} ~> op[a] \in {"idle", "panicked"}

=============================================================================
