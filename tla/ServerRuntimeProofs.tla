-------------------------- MODULE ServerRuntimeProofs --------------------------
(***************************************************************************)
(* Theorems about ServerRuntime, for every set of paths, requests and      *)
(* calling tasks and any number of namespaces built per path.              *)
(***************************************************************************)
EXTENDS ServerRuntime, TLAPS

\* The groups of variables are always expanded.
USE DEF connVars, setVars

\* None is not a namespace, and a namespace's path is a path.
LEMMA NamespaceFacts ==
  /\ None \notin Namespaces
  /\ \A n \in Namespaces : Path(n) \in Paths
  BY DEF None, Namespaces, Path

\* A step of one request that is in its task already, or leaves it, keeps the
\* types.
LEMMA RequestTypeStep ==
  ASSUME TypeOK, NEW r \in Requests, NEW to \in ConnPC,
         conn' = [conn EXCEPT ![r] = to],
         conn[r] \in InTask \/ to \notin InTask, to # "none" => home[r] \in Namespaces,
         UNCHANGED <<status, namespaces, ns, taskSet, taskLock, home, closing, op, built,
                     step>>,
         late' \subseteq Requests
  PROVE  TypeOK'
  BY DEF TypeOK

\* No step breaks TypeOK.
LEMMA TypeStep == TypeOK /\ [Next]_vars => TypeOK'
<1> SUFFICES ASSUME TypeOK, [Next]_vars PROVE TypeOK'
  OBVIOUS
<1> USE NamespaceFacts
<1>1. ASSUME NEW a \in Callers, NEW n \in Namespaces, Register(a, n) PROVE TypeOK'
  BY <1>1 DEF TypeOK, Register, Status, OpPC
<1>2. ASSUME NEW a \in Callers, RegisterInsert(a) PROVE TypeOK'
  BY <1>2 DEF TypeOK, RegisterInsert, OpPC
<1>3. ASSUME NEW a \in Callers, NEW p \in Paths, RemoveNamespace(a, p) PROVE TypeOK'
  BY <1>3 DEF TypeOK, RemoveNamespace, OpPC, StepPC
<1>4. ASSUME NEW a \in Callers, NEW n \in Namespaces, ShutdownNamespace(a, n) PROVE TypeOK'
  BY <1>4 DEF TypeOK, ShutdownNamespace, OpPC, StepPC
<1>5. ASSUME NEW a \in Callers,
             ShutdownGet(a) \/ ShutdownStore(a) \/ ShutdownReturn(a)
      PROVE  TypeOK'
  <2>1. op' \in [Callers -> OpPC] /\ \A b \in Callers : op'[b] = "insert" => op[b] = "insert"
    BY <1>5 DEF TypeOK, ShutdownGet, ShutdownStore, ShutdownReturn, OpPC
  <2>2. status' \in Status
    BY <1>5 DEF TypeOK, ShutdownGet, ShutdownStore, ShutdownReturn, Status
  <2>3. UNCHANGED <<namespaces, ns, taskSet, taskLock, conn, home, closing, late, built, step>>
    BY <1>5 DEF ShutdownGet, ShutdownStore, ShutdownReturn
  <2> QED  BY <2>1, <2>2, <2>3 DEF TypeOK
<1>6. ASSUME NEW a \in Callers, ShutdownSnapshot(a) PROVE TypeOK'
  <2>1. PICK f \in [Namespaces -> {"get", "none"}] : step' = [step EXCEPT ![a] = f]
    BY <1>6 DEF ShutdownSnapshot
  <2>2. step' \in [Callers -> [Namespaces -> StepPC]]
    BY <2>1 DEF TypeOK, StepPC
  <2>3. \A b \in Callers, n \in Namespaces : step'[b][n] = "join" => taskLock[n] = b
    BY <2>1 DEF TypeOK
  <2> QED  BY <1>6, <2>2, <2>3 DEF TypeOK, ShutdownSnapshot, OpPC
<1>7. ASSUME NEW a \in Callers, NEW n \in Namespaces, NsShutdown(a, n) PROVE TypeOK'
  <2>0. CASE NsGet(a, n)
    <3>1. PICK to \in {"store", "none"} : step' = [step EXCEPT ![a][n] = to]
      BY <2>0 DEF NsGet, StepTo
    <3> QED  BY <2>0, <3>1 DEF TypeOK, NsGet, StepPC
  <2>1. CASE NsStore(a, n)
    BY <2>1 DEF TypeOK, NsStore, StepTo, StepPC, Status
  <2>2. CASE NsPanics(a, n)
    <3>1. PICK f \in [Namespaces -> {"none"}] : step' = [step EXCEPT ![a] = f]
      BY <2>2 DEF NsPanics
    <3>2. step' \in [Callers -> [Namespaces -> StepPC]]
      BY <3>1 DEF TypeOK, StepPC
    <3>3. taskLock' \in [Namespaces -> Callers \cup {"free"}]
      BY <2>2 DEF TypeOK, NsPanics
    <3>4. \A b \in Callers, m \in Namespaces : step'[b][m] = "join" => taskLock'[m] = b
      BY <2>2, <3>1 DEF TypeOK, NsPanics
    <3> QED  BY <2>2, <3>2, <3>3, <3>4 DEF TypeOK, NsPanics, OpPC
  <2>3. CASE NsCloseAll(a, n)
    BY <2>3 DEF TypeOK, NsCloseAll, StepTo, StepPC
  <2>4. CASE NsLock(a, n)
    BY <2>4, CallersAssumption DEF TypeOK, NsLock, StepTo, StepPC
  <2>5. ASSUME NEW r \in Requests, NsJoinNext(a, n, r) PROVE TypeOK'
    BY <2>5 DEF TypeOK, NsJoinNext, InTask
  <2>6. CASE NsStopped(a, n)
    BY <2>6 DEF TypeOK, NsStopped, StepTo, StepPC, Status
  <2> QED  BY <1>7, <2>0, <2>1, <2>2, <2>3, <2>4, <2>5, <2>6 DEF NsShutdown
<1>8. ASSUME NEW r \in Requests, NEW p \in Paths, Dispatch(r, p) PROVE TypeOK'
  BY <1>8 DEF TypeOK, Dispatch, ConnTo, ConnOnly, ConnPC, InTask
<1>9. ASSUME NEW r \in Requests, SpawnTask(r) PROVE TypeOK'
  BY <1>9 DEF TypeOK, SpawnTask, ConnTo, ConnOnly, ConnPC, InTask
<1>10. ASSUME NEW r \in Requests,
              \/ UpgradeFails(r) \/ CheckRuntime(r) \/ CheckNamespace(r)
              \/ InsertConnection(r) \/ ConnectionEnds(r)
       PROVE  TypeOK'
  BY <1>10, RequestTypeStep DEF TypeOK, UpgradeFails, CheckRuntime, CheckNamespace,
     InsertConnection, ConnectionEnds, ConnTo, ConnOnly, ConnPC, InTask, LiveConn
<1>11. ASSUME NEW n \in Namespaces, CloseAll(n) PROVE TypeOK'
  BY <1>11 DEF TypeOK, CloseAll
<1>12. CASE UNCHANGED vars
  BY <1>12 DEF TypeOK, vars
<1> QED
  BY <1>1, <1>2, <1>3, <1>4, <1>5, <1>6, <1>7, <1>8, <1>9, <1>10, <1>11, <1>12
     DEF Next, CallStep, RequestStep

\* Every request's task stays in its namespace's task set until it is joined,
\* and the set is only joined under its lock.
THEOREM TypeCorrect == Spec => []TypeOK
<1>1. Init => TypeOK
  BY DEF Init, TypeOK, Status, ConnPC, OpPC, StepPC, InTask
<1>2. TypeOK /\ [Next]_vars => TypeOK'
  BY TypeStep
<1> QED  BY <1>1, <1>2, PTL DEF Spec

\* A namespace stops only when its task set is empty, and no connection of a
\* namespace that is not Running passes its check.
LEMMA StoppedStep ==
  TypeOK /\ StoppedHasNoConnections /\ [Next]_vars => StoppedHasNoConnections'
<1> SUFFICES ASSUME TypeOK, StoppedHasNoConnections, [Next]_vars
             PROVE  StoppedHasNoConnections'
  OBVIOUS
<1> USE NamespaceFacts DEF StoppedHasNoConnections, LiveConn
<1>1. ASSUME NEW a \in Callers, NEW n \in Namespaces, Register(a, n)
      PROVE  StoppedHasNoConnections'
  BY <1>1 DEF TypeOK, Register
<1>2. ASSUME NEW a \in Callers, NEW n \in Namespaces, NsShutdown(a, n)
      PROVE  StoppedHasNoConnections'
  <2>1. CASE NsStore(a, n)
    BY <2>1 DEF TypeOK, NsStore, ConnPC
  <2>2. CASE NsStopped(a, n)
    BY <2>2 DEF TypeOK, NsStopped, InTask
  <2> QED
    BY <1>2, <2>1, <2>2 DEF NsShutdown, NsGet, NsPanics, NsCloseAll, NsLock, NsJoinNext
<1>3. ASSUME NEW r \in Requests,
             \/ \E p \in Paths : Dispatch(r, p)
             \/ RequestStep(r) \/ InsertConnection(r) \/ ConnectionEnds(r)
      PROVE  StoppedHasNoConnections'
  BY <1>3 DEF TypeOK, Dispatch, RequestStep, SpawnTask, UpgradeFails, CheckRuntime,
     CheckNamespace, InsertConnection, ConnectionEnds, ConnTo, ConnOnly
<1>4. CASE UNCHANGED <<ns, conn, home>>
  BY <1>4
<1>5. ASSUME \/ \E a \in Callers : RegisterInsert(a) \/ ShutdownGet(a) \/ ShutdownStore(a)
                                   \/ ShutdownSnapshot(a) \/ ShutdownReturn(a)
             \/ \E a \in Callers, n \in Namespaces : ShutdownNamespace(a, n)
             \/ \E a \in Callers, p \in Paths : RemoveNamespace(a, p)
             \/ \E n \in Namespaces : CloseAll(n)
             \/ UNCHANGED vars
      PROVE  UNCHANGED <<ns, conn, home>>
  BY <1>5 DEF RegisterInsert, ShutdownGet, ShutdownStore, ShutdownSnapshot, ShutdownReturn,
     ShutdownNamespace, RemoveNamespace, CloseAll, vars
<1> QED  BY <1>1, <1>2, <1>3, <1>4, <1>5 DEF Next, CallStep

\* A namespace whose status is Stopped has no connection, whatever upgrades,
\* handshakes and concurrent shutdowns its own shutdown() raced with.
THEOREM StoppedNamespaceIsEmpty == Spec => []StoppedHasNoConnections
<1>1. Init => StoppedHasNoConnections
  BY DEF Init, StoppedHasNoConnections, LiveConn
<1> QED  BY <1>1, StoppedStep, TypeCorrect, PTL DEF Spec

(***************************************************************************)
(* The server's shutdown().                                                *)
(***************************************************************************)
\* A namespace gets requests only after its one insertion into the map.
LEMMA BuiltStep == TypeOK /\ BuiltInv /\ [Next]_vars => BuiltInv'
<1> SUFFICES ASSUME TypeOK, BuiltInv, [Next]_vars PROVE BuiltInv'
  OBVIOUS
<1> USE NamespaceFacts DEF BuiltInv, Fresh
<1>1. ASSUME NEW a \in Callers, NEW n \in Namespaces, Register(a, n) PROVE BuiltInv'
  <2>1. CASE namespaces[Path(n)] = None
    <3>1. op' = [op EXCEPT ![a] = "insert"] /\ built' = [built EXCEPT ![a] = n]
      BY <1>1, <2>1 DEF Register
    <3>2. \A b \in Callers : op[b] = "insert" => built[b] # n
      BY <1>1 DEF Register
    <3> QED  BY <1>1, <3>1, <3>2 DEF TypeOK, Register
  <2>2. CASE namespaces[Path(n)] # None
    BY <1>1, <2>2 DEF TypeOK, Register
  <2> QED  BY <2>1, <2>2
<1>2. ASSUME NEW a \in Callers, RegisterInsert(a) PROVE BuiltInv'
  BY <1>2 DEF TypeOK, RegisterInsert
<1>3. ASSUME NEW a \in Callers, NEW p \in Paths, RemoveNamespace(a, p) PROVE BuiltInv'
  BY <1>3 DEF TypeOK, RemoveNamespace
<1>4. ASSUME NEW a \in Callers,
             \/ ShutdownGet(a) \/ ShutdownStore(a) \/ ShutdownSnapshot(a) \/ ShutdownReturn(a)
             \/ \E n \in Namespaces : ShutdownNamespace(a, n)
      PROVE  BuiltInv'
  <2>1. \A b \in Callers : op'[b] = "insert" => op[b] = "insert"
    BY <1>4 DEF TypeOK, ShutdownGet, ShutdownStore, ShutdownSnapshot, ShutdownReturn,
       ShutdownNamespace
  <2>2. UNCHANGED <<namespaces, ns, home, built>>
    BY <1>4 DEF ShutdownGet, ShutdownStore, ShutdownSnapshot, ShutdownReturn,
       ShutdownNamespace
  <2> QED  BY <2>1, <2>2
<1>5. ASSUME NEW a \in Callers, NEW n \in Namespaces, NsShutdown(a, n) PROVE BuiltInv'
  <2>1. CASE NsPanics(a, n)
    BY <2>1 DEF TypeOK, NsPanics
  <2>2. CASE NsStore(a, n) \/ NsStopped(a, n)
    BY <2>2 DEF TypeOK, NsStore, NsStopped
  <2> QED
    BY <1>5, <2>1, <2>2 DEF NsShutdown, NsGet, NsCloseAll, NsLock, NsJoinNext
<1>6. ASSUME NEW r \in Requests, NEW p \in Paths, Dispatch(r, p) PROVE BuiltInv'
  BY <1>6 DEF TypeOK, Dispatch, ConnOnly
<1>7. ASSUME NEW r \in Requests, RequestStep(r) \/ InsertConnection(r) \/ ConnectionEnds(r)
      PROVE  BuiltInv'
  BY <1>7 DEF RequestStep, SpawnTask, UpgradeFails, CheckRuntime, CheckNamespace,
     InsertConnection, ConnectionEnds, ConnOnly
<1>8. CASE (\E n \in Namespaces : CloseAll(n)) \/ UNCHANGED vars
  BY <1>8 DEF CloseAll, vars
<1> QED  BY <1>1, <1>2, <1>3, <1>4, <1>5, <1>6, <1>7, <1>8 DEF Next, CallStep

\* Once the shutdown is done with a namespace, none of its requests gets a
\* connection any more.
LEMMA QuietStep ==
  TypeOK /\ StoppedHasNoConnections /\ BuiltInv /\ QuietInv /\ [Next]_vars => QuietInv'
<1> SUFFICES ASSUME TypeOK, StoppedHasNoConnections, BuiltInv, QuietInv, [Next]_vars
             PROVE  QuietInv'
  OBVIOUS
<1> USE NamespaceFacts DEF QuietInv, Covered, LiveConn
<1>1. ASSUME NEW a \in Callers, NEW n \in Namespaces, Register(a, n) PROVE QuietInv'
  BY <1>1 DEF TypeOK, Register, BuiltInv, Fresh
<1>2. ASSUME NEW a \in Callers, RegisterInsert(a) PROVE QuietInv'
  BY <1>2 DEF TypeOK, RegisterInsert, BuiltInv, Fresh
<1>3. ASSUME NEW a \in Callers, NEW p \in Paths, RemoveNamespace(a, p) PROVE QuietInv'
  BY <1>3 DEF TypeOK, RemoveNamespace
<1>4. ASSUME NEW a \in Callers, NEW n \in Namespaces, ShutdownNamespace(a, n) PROVE QuietInv'
  BY <1>4 DEF TypeOK, ShutdownNamespace
<1>5. ASSUME NEW a \in Callers, ShutdownGet(a) \/ ShutdownStore(a) PROVE QuietInv'
  BY <1>5 DEF TypeOK, ShutdownGet, ShutdownStore
<1>6. ASSUME NEW a \in Callers, ShutdownSnapshot(a) PROVE QuietInv'
  BY <1>6 DEF TypeOK, ShutdownSnapshot, ConnPC
<1>7. ASSUME NEW a \in Callers, ShutdownReturn(a) PROVE QuietInv'
  BY <1>7 DEF TypeOK, ShutdownReturn
<1>8. ASSUME NEW a \in Callers, NEW n \in Namespaces, NsShutdown(a, n) PROVE QuietInv'
  <2>1. CASE NsGet(a, n)
    <3>1. CASE ns[n] = "Running"
      BY <2>1, <3>1 DEF TypeOK, NsGet, StepTo
    <3>2. CASE ns[n] # "Running"
      <4>1. \A r \in Requests : conn[r] \in LiveConn => ns[home[r]] # "unbuilt"
        BY DEF BuiltInv, Fresh, TypeOK
      <4>2. \A r \in Requests : home[r] = n => conn[r] \notin LiveConn
        BY <2>1, <3>2, <4>1 DEF NsGet, StoppedHasNoConnections, TypeOK, Status
      <4> QED  BY <2>1, <3>2, <4>2 DEF TypeOK, NsGet, StepTo
    <3> QED  BY <3>1, <3>2
  <2>2. CASE NsPanics(a, n)
    BY <2>2 DEF TypeOK, NsPanics
  <2>3. CASE NsStore(a, n)
    BY <2>3 DEF TypeOK, NsStore, StepTo
  <2>4. CASE NsCloseAll(a, n) \/ NsLock(a, n)
    BY <2>4 DEF TypeOK, NsCloseAll, NsLock, StepTo
  <2>5. ASSUME NEW r \in Requests, NsJoinNext(a, n, r) PROVE QuietInv'
    BY <2>5 DEF NsJoinNext
  <2>6. CASE NsStopped(a, n)
    BY <2>6 DEF TypeOK, NsStopped, StepTo, InTask
  <2> QED  BY <1>8, <2>1, <2>2, <2>3, <2>4, <2>5, <2>6 DEF NsShutdown
<1>9. ASSUME NEW r \in Requests, NEW p \in Paths, Dispatch(r, p) PROVE QuietInv'
  BY <1>9 DEF TypeOK, Dispatch, ConnTo, ConnOnly
<1>10. ASSUME NEW r \in Requests,
              \/ SpawnTask(r) \/ UpgradeFails(r) \/ InsertConnection(r) \/ ConnectionEnds(r)
       PROVE  QuietInv'
  BY <1>10 DEF TypeOK, SpawnTask, UpgradeFails, InsertConnection, ConnectionEnds, ConnTo,
     ConnOnly
<1>11. ASSUME NEW r \in Requests, CheckRuntime(r) PROVE QuietInv'
  BY <1>11 DEF TypeOK, CheckRuntime, ConnTo, ConnOnly
<1>12. ASSUME NEW r \in Requests, CheckNamespace(r) PROVE QuietInv'
  BY <1>12 DEF TypeOK, CheckNamespace, ConnTo, ConnOnly
<1>13. CASE (\E n \in Namespaces : CloseAll(n)) \/ UNCHANGED vars
  BY <1>13 DEF CloseAll, vars
<1> QED
  BY <1>1, <1>2, <1>3, <1>4, <1>5, <1>6, <1>7, <1>8, <1>9, <1>10, <1>11, <1>12, <1>13
     DEF Next, CallStep, RequestStep

\* Once the server's status is Stopped no registered namespace has a
\* connection, namespaces registered during the shutdown included.
THEOREM StoppedServerIsQuiet == Spec => []ServerStoppedIsQuiet
<1>1. Init => BuiltInv /\ QuietInv
  BY NamespaceFacts DEF Init, BuiltInv, Fresh, QuietInv, LiveConn
<1>2. TypeOK /\ StoppedHasNoConnections /\ BuiltInv /\ QuietInv /\ [Next]_vars
        => BuiltInv' /\ QuietInv'
  BY BuiltStep, QuietStep
<1>3. QuietInv => ServerStoppedIsQuiet
  BY DEF QuietInv, Covered, ServerStoppedIsQuiet, LiveConn
<1> QED  BY <1>1, <1>2, <1>3, TypeCorrect, StoppedNamespaceIsEmpty, PTL DEF Spec

(***************************************************************************)
(* What a shutdown() waits for.                                            *)
(***************************************************************************)
\* A step that leaves the calls and the namespaces alone and gives a task set
\* only requests of its namespace keeps ShutdownInv.
LEMMA ShutdownBystander ==
  ASSUME ShutdownInv, UNCHANGED <<ns, taskLock, op, step>>,
         \A n \in Namespaces : \A r \in taskSet'[n] :
           home'[r] = n /\ conn'[r] \in InTask \cup {"ended"}
  PROVE  ShutdownInv'
  BY DEF ShutdownInv

LEMMA ShutdownStep == TypeOK /\ ShutdownInv /\ [Next]_vars => ShutdownInv'
<1> SUFFICES ASSUME TypeOK, ShutdownInv, [Next]_vars PROVE ShutdownInv'
  OBVIOUS
<1> USE NamespaceFacts
<1>1. ASSUME NEW a \in Callers, NEW n \in Namespaces, Register(a, n) PROVE ShutdownInv'
  <2>1. \A m \in Namespaces : step[a][m] = "none"
    BY <1>1 DEF ShutdownInv, Register
  <2>2. \A b \in Callers : op'[b] = op[b] \/ \A m \in Namespaces : step[b][m] = "none"
    BY <1>1, <2>1 DEF TypeOK, Register
  <2>3. \A m \in Namespaces : ns[m] \in {"Stopping", "Stopped"} => ns'[m] = ns[m]
    BY <1>1 DEF TypeOK, Register
  <2> QED  BY <1>1, <2>2, <2>3 DEF ShutdownInv, Register
<1>2. ASSUME NEW a \in Callers,
             RegisterInsert(a) \/ ShutdownGet(a) \/ ShutdownStore(a) \/ ShutdownReturn(a)
      PROVE  ShutdownInv'
  <2>0. \A n \in Namespaces : step[a][n] = "none"
    BY <1>2 DEF ShutdownInv, RegisterInsert, ShutdownGet, ShutdownStore, ShutdownReturn
  <2>1. \A b \in Callers : op'[b] = op[b] \/ \A n \in Namespaces : step[b][n] = "none"
    BY <1>2, <2>0 DEF TypeOK, RegisterInsert, ShutdownGet, ShutdownStore, ShutdownReturn
  <2>2. UNCHANGED <<ns, taskLock, taskSet, conn, home, step>>
    BY <1>2 DEF RegisterInsert, ShutdownGet, ShutdownStore, ShutdownReturn
  <2> QED  BY <2>1, <2>2 DEF ShutdownInv
<1>3. ASSUME NEW a \in Callers, NEW p \in Paths, RemoveNamespace(a, p) PROVE ShutdownInv'
  BY <1>3 DEF TypeOK, ShutdownInv, RemoveNamespace
<1>4. ASSUME NEW a \in Callers, NEW n \in Namespaces, ShutdownNamespace(a, n)
      PROVE  ShutdownInv'
  BY <1>4 DEF TypeOK, ShutdownInv, ShutdownNamespace
<1>5. ASSUME NEW a \in Callers, ShutdownSnapshot(a) PROVE ShutdownInv'
  <2>1. \A n \in Namespaces : step[a][n] = "none"
    BY <1>5 DEF ShutdownInv, ShutdownSnapshot
  <2>2. \A n \in Namespaces : step'[a][n] \in {"none", "get"}
    BY <1>5 DEF TypeOK, ShutdownSnapshot
  <2>3. op'[a] = "shutdown_all"
    BY <1>5 DEF TypeOK, ShutdownSnapshot
  <2>4. \A b \in Callers : b # a => op'[b] = op[b] /\ step'[b] = step[b]
    BY <1>5 DEF TypeOK, ShutdownSnapshot
  <2>5. \A n \in Namespaces : taskLock[n] \in Callers \cup {"free"}
    BY DEF TypeOK
  <2>6. UNCHANGED <<ns, taskLock, taskSet, conn, home>>
    BY <1>5 DEF ShutdownSnapshot, setVars, connVars
  <2> QED  BY <2>1, <2>2, <2>3, <2>4, <2>5, <2>6 DEF ShutdownInv
<1>6. ASSUME NEW a \in Callers, NEW n \in Namespaces, NsShutdown(a, n) PROVE ShutdownInv'
  <2>1. CASE NsGet(a, n)
    BY <2>1 DEF TypeOK, ShutdownInv, NsGet, StepTo
  <2>2. CASE NsPanics(a, n)
    BY <2>2 DEF TypeOK, ShutdownInv, NsPanics
  <2>3. CASE NsStore(a, n)
    BY <2>3 DEF TypeOK, ShutdownInv, NsStore, StepTo
  <2>4. CASE NsCloseAll(a, n)
    BY <2>4 DEF TypeOK, ShutdownInv, NsCloseAll, StepTo
  <2>5. CASE NsLock(a, n)
    BY <2>5 DEF TypeOK, ShutdownInv, NsLock, StepTo
  <2>6. ASSUME NEW r \in Requests, NsJoinNext(a, n, r) PROVE ShutdownInv'
    BY <2>6 DEF TypeOK, ShutdownInv, NsJoinNext
  <2>7. CASE NsStopped(a, n)
    BY <2>7 DEF TypeOK, ShutdownInv, NsStopped, StepTo
  <2> QED  BY <1>6, <2>1, <2>2, <2>3, <2>4, <2>5, <2>6, <2>7 DEF NsShutdown
<1>7. ASSUME NEW r \in Requests, NEW p \in Paths, Dispatch(r, p) PROVE ShutdownInv'
  BY <1>7, ShutdownBystander DEF TypeOK, ShutdownInv, Dispatch, ConnTo, ConnOnly, InTask
<1>8. ASSUME NEW r \in Requests, SpawnTask(r) PROVE ShutdownInv'
  BY <1>8, ShutdownBystander DEF TypeOK, ShutdownInv, SpawnTask, ConnTo, ConnOnly, InTask
<1>9. ASSUME NEW r \in Requests,
             \/ UpgradeFails(r) \/ CheckRuntime(r) \/ CheckNamespace(r)
             \/ InsertConnection(r) \/ ConnectionEnds(r)
      PROVE  ShutdownInv'
  BY <1>9, ShutdownBystander DEF TypeOK, ShutdownInv, UpgradeFails, CheckRuntime, CheckNamespace,
     InsertConnection, ConnectionEnds, ConnTo, ConnOnly, InTask
<1>10. CASE (\E n \in Namespaces : CloseAll(n)) \/ UNCHANGED vars
  BY <1>10 DEF ShutdownInv, CloseAll, vars
<1> QED
  BY <1>1, <1>2, <1>3, <1>4, <1>5, <1>6, <1>7, <1>8, <1>9, <1>10 DEF Next, CallStep, RequestStep

\* close_all() tells every registered connection, a later one is late, and
\* neither set ever shrinks.
LEMMA BlockedStep ==
  TypeOK /\ ShutdownInv /\ BlockedOnlyByLate /\ [Next]_vars => BlockedOnlyByLate'
<1> SUFFICES ASSUME TypeOK, ShutdownInv, ShutdownInv', BlockedOnlyByLate, [Next]_vars,
                    NEW b \in Callers, NEW m \in Namespaces, step'[b][m] \in {"lock", "join"},
                    NEW q \in taskSet'[m], conn'[q] = "registered"
             PROVE  q \in closing' \cup late'
  BY ShutdownStep DEF ShutdownInv, BlockedOnlyByLate
<1>0. home'[q] = m /\ ns'[m] # "Running"
  BY DEF ShutdownInv
<1>1. CASE step[b][m] \in {"lock", "join"} /\ q \in taskSet[m] /\ conn[q] = "registered"
  <2>1. closing \subseteq closing' /\ late \subseteq late'
    BY DEF TypeOK, Next, CallStep, RequestStep, NsShutdown, Register, RegisterInsert, RemoveNamespace,
       ShutdownNamespace, ShutdownGet, ShutdownStore, ShutdownSnapshot, ShutdownReturn, NsGet,
       NsPanics, NsStore, NsCloseAll, NsLock, NsJoinNext, NsStopped, Dispatch, SpawnTask, UpgradeFails,
       CheckRuntime, CheckNamespace, InsertConnection, ConnectionEnds, CloseAll, ConnOnly, vars
  <2> QED  BY <1>1, <2>1 DEF BlockedOnlyByLate
\* The connection registers now.
<1>2. CASE conn[q] # "registered"
  <2>1. PICK r \in Requests : InsertConnection(r)
    BY <1>2 DEF TypeOK, Next, CallStep, RequestStep, NsShutdown, Register, RegisterInsert,
       RemoveNamespace, ShutdownNamespace, ShutdownGet, ShutdownStore, ShutdownSnapshot, ShutdownReturn,
       NsGet, NsPanics, NsStore, NsCloseAll, NsLock, NsJoinNext, NsStopped, Dispatch, SpawnTask,
       UpgradeFails, CheckRuntime, CheckNamespace, ConnectionEnds, CloseAll, ConnTo, ConnOnly, vars
  <2> QED  BY <1>0, <1>2, <2>1 DEF TypeOK, InsertConnection, ConnTo, ConnOnly
\* close_all() is called now.
<1>3. CASE step[b][m] \notin {"lock", "join"} /\ conn[q] = "registered"
  <2>1. ASSUME NEW a \in Callers, NEW n \in Namespaces, NsShutdown(a, n) PROVE NsCloseAll(b, m)
    <3>1. a = b /\ n = m
      BY <1>3, <2>1 DEF TypeOK, NsShutdown, NsGet, NsPanics, NsStore, NsCloseAll, NsLock, NsJoinNext,
         NsStopped, StepTo
    <3> QED
      BY <1>3, <2>1, <3>1 DEF TypeOK, NsShutdown, NsGet, NsPanics, NsStore, NsLock, NsJoinNext,
         NsStopped, StepTo
  <2>2. ASSUME NEW a \in Callers, NEW n \in Namespaces, ShutdownNamespace(a, n) PROVE FALSE
    BY <1>3, <2>2 DEF TypeOK, ShutdownNamespace
  <2>3. ASSUME NEW a \in Callers, NEW p \in Paths, RemoveNamespace(a, p) PROVE FALSE
    BY <1>3, <2>3, NamespaceFacts DEF TypeOK, RemoveNamespace
  <2>4. ASSUME NEW a \in Callers, ShutdownSnapshot(a) PROVE FALSE
    <3>1. PICK f \in [Namespaces -> {"get", "none"}] : step' = [step EXCEPT ![a] = f]
      BY <2>4 DEF ShutdownSnapshot
    <3> QED  BY <1>3, <3>1 DEF TypeOK
  <2>5. UNCHANGED step => FALSE
    BY <1>3
  <2>6. NsCloseAll(b, m)
    BY <2>1, <2>2, <2>3, <2>4, <2>5 DEF Next, CallStep, RequestStep, Register, RegisterInsert,
       ShutdownGet, ShutdownStore, ShutdownReturn, Dispatch, SpawnTask, UpgradeFails, CheckRuntime,
       CheckNamespace, InsertConnection, ConnectionEnds, CloseAll, ConnOnly, vars
  <2> QED  BY <1>0, <1>3, <2>6 DEF TypeOK, NsCloseAll
\* A request joins its task set before it is registered.
<1>4. CASE q \notin taskSet[m] /\ conn[q] = "registered"
  <2>1. q \in Requests
    BY TypeStep DEF TypeOK
  <2>2. home'[q] = home[q]
    BY <1>4, <2>1 DEF TypeOK, Next, CallStep, RequestStep, NsShutdown, Register, RegisterInsert,
       RemoveNamespace, ShutdownNamespace, ShutdownGet, ShutdownStore, ShutdownSnapshot, ShutdownReturn,
       NsGet, NsPanics, NsStore, NsCloseAll, NsLock, NsJoinNext, NsStopped, Dispatch, SpawnTask,
       UpgradeFails, CheckRuntime, CheckNamespace, InsertConnection, ConnectionEnds, CloseAll, ConnTo,
       ConnOnly, vars
  <2> QED  BY <1>0, <1>4, <2>1, <2>2 DEF TypeOK, InTask
<1> QED  BY <1>1, <1>2, <1>3, <1>4

\* A shutdown() past close_all() can only be kept by the timeouts of an upgrade
\* or a handshake, by a connection that was told to close, by another
\* shutdown() of the namespace that is joining it, or by a connection that
\* registered late; never by a lock nobody gives back.
THEOREM ShutdownBlockedOnlyByLate == Spec => []BlockedOnlyByLate
<1>1. Init => ShutdownInv /\ BlockedOnlyByLate
  BY DEF Init, ShutdownInv, BlockedOnlyByLate
<1> QED  BY <1>1, ShutdownStep, BlockedStep, TypeCorrect, PTL DEF Spec
=============================================================================
