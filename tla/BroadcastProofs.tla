---------------------------- MODULE BroadcastProofs ----------------------------
(***************************************************************************)
(* Theorems about Broadcast, for any number of connections, rooms and      *)
(* concurrent broadcasts, and any operators and concurrency limit.         *)
(*                                                                         *)
(* The properties speak of a finished broadcast and of everything that     *)
(* happened while it ran.  OutsiderInv and ReachedInv say at each stage    *)
(* of a broadcast what its targets have in common with that history: who   *)
(* is among them was seen in an included room and outside the excluded     *)
(* rooms read so far, and who was eligible all the time is among them or   *)
(* will be, once the rooms left to do are read.                            *)
(***************************************************************************)
EXTENDS Broadcast, FiniteSetTheorems, WellFoundedInduction, TLAPS

\* Which rooms a broadcast still has to read, and that it serves nobody
\* before it has read them all, nor when it is done.
CastShape(b) ==
  /\ cast[b].pc = "idle" => cast[b] = IdleCast /\ seen[b] = NothingSeen
  /\ cast[b].pc \in {"include", "exclude"} =>
       cast[b].checking = {} /\ cast[b].sending = {} /\ cast[b].got = {}
  /\ cast[b].pc = "include" =>
       cast[b].todo \subseteq (IF cast[b].op.include = {} THEN {NoRoom} ELSE cast[b].op.include)
  /\ cast[b].pc = "exclude" => cast[b].todo \subseteq cast[b].op.exclude
  /\ cast[b].pc = "done" => cast[b].checking = {} /\ cast[b].sending = {}

\* Everyone a broadcast has found, served or not.
Found(b) == cast[b].targets \cup cast[b].checking \cup cast[b].sending \cup cast[b].got

\* Whoever was found was seen in an included room, and outside the excluded
\* rooms read so far.
OutsiderInv(b) ==
  /\ Found(b) \subseteq seen[b].in
  /\ cast[b].pc \in {"send", "done"} => Found(b) \cap cast[b].op.except = {}
  /\ \A c \in Found(b), x \in cast[b].op.exclude :
       \/ cast[b].pc \in {"send", "done"}
       \/ cast[b].pc = "exclude" /\ x \notin cast[b].todo
       => <<c, x>> \in seen[b].out

\* Whoever was eligible all the time is found, or will be.
ReachedInv(b) ==
  \A p \in seen[b].stable :
    /\ cast[b].pc = "include" =>
         Eligible(b, p[1], p[2]) /\ (p[2] \in cast[b].todo \/ p[1] \in cast[b].targets)
    /\ cast[b].pc = "exclude" => Eligible(b, p[1], p[2]) /\ p[1] \in cast[b].targets
    /\ cast[b].pc = "send" =>
         p[1] \in cast[b].got \/ (Eligible(b, p[1], p[2]) /\ p[1] \in Found(b))
    /\ cast[b].pc = "done" => p[1] \in cast[b].got

\* The inductive invariant.
BroadcastInv == \A b \in Casts : CastShape(b) /\ OutsiderInv(b) /\ ReachedInv(b)

-----------------------------------------------------------------------------
(***************************************************************************)
(* Types.                                                                  *)
(***************************************************************************)
USE DEF connVars

\* A set of ids that is not empty has a least one, which the stream of
\* targets yields next.
LEMMA MinIsMember == ASSUME NEW S, S \subseteq Nat, S # {} PROVE Min(S) \in S
<1> DEFINE R == OpToRel(<, Nat)
<1>1. IsWellFoundedOn(R, Nat)
  BY NatLessThanWellFounded
<1>2. \A x, y \in Nat : <<x, y>> \in R <=> x < y
  BY DEF OpToRel
<1> HIDE DEF R
<1>3. PICK x \in S : \A y \in S : ~ (<<y, x>> \in R)
  BY <1>1, WFMin
<1>4. ASSUME NEW y \in S PROVE x <= y
  <2>1. ~ (y < x)
    BY <1>2, <1>3
  <2> QED  BY <2>1
<1> QED  BY <1>4 DEF Min

\* What a broadcast step makes of the broadcast it belongs to.
LEMMA CastOnlyOwn ==
  ASSUME TypeOK, NEW b \in Casts, NEW new, Set(b, new)
  PROVE  cast'[b] = new /\ \A a \in Casts : a # b => cast'[a] = cast[a]
BY DEF Set, TypeOK

Disjoint(k) ==
  /\ k.targets \cap (k.checking \cup k.sending \cup k.got) = {}
  /\ k.checking \cap k.sending = {} /\ k.got \cap (k.checking \cup k.sending) = {}

LEMMA SetType ==
  ASSUME TypeOK, NEW b \in Casts, NEW new \in CastType, Set(b, new), Disjoint(new)
  PROVE  cast' \in [Casts -> CastType] /\ \A a \in Casts : Disjoint(cast'[a])
<1>1. cast' \in [Casts -> CastType]
  BY DEF Set, TypeOK
<1>2. \A a \in Casts : a # b => cast'[a] = cast[a]
  BY CastOnlyOwn
<1>3. \A a \in Casts : Disjoint(cast[a])
  BY DEF TypeOK, Disjoint
<1>4. cast'[b] = new
  BY CastOnlyOwn
<1> QED  BY <1>1, <1>2, <1>3, <1>4

LEMMA CastStepType ==
  ASSUME TypeOK, NEW b \in Casts, CastShape(b), CastStep(b)
  PROVE  cast' \in [Casts -> CastType] /\ \A a \in Casts : Disjoint(cast'[a])
<1> DEFINE Typed == cast' \in [Casts -> CastType] /\ \A a \in Casts : Disjoint(cast'[a])
<1>0. cast[b] \in CastType /\ Disjoint(cast[b])
  BY DEF TypeOK, Disjoint
<1>1. ASSUME NEW kind \in Kinds, NEW op \in Operators, Start(b, kind, op) PROVE Typed
  <2> DEFINE todo == IF op.include = {} THEN {NoRoom} ELSE op.include
             new == [IdleCast EXCEPT !.pc = "include", !.kind = kind, !.op = op, !.todo = todo]
  <2>1. todo \in SUBSET AnyRoom
    BY OperatorsAssumption DEF AnyRoom
  <2>2. Set(b, new)
    BY <1>1 DEF Start
  <2> HIDE DEF todo
  <2>3. new \in CastType /\ Disjoint(new)
    BY <2>1 DEF IdleCast, CastType, Disjoint
  <2> QED  BY <2>2, <2>3, SetType
<1>2. CASE Include(b)
  <2>1. PICK r \in cast[b].todo :
          Set(b, [cast[b] EXCEPT
            !.targets = @ \cup (IF r = NoRoom THEN connectionIds ELSE rooms[r]), !.todo = @ \ {r}])
    BY <1>2 DEF Include
  <2> DEFINE ids == IF r = NoRoom THEN connectionIds ELSE rooms[r]
             new == [cast[b] EXCEPT !.targets = @ \cup ids, !.todo = @ \ {r}]
  <2>2. ids \subseteq Conns
    BY <1>0 DEF TypeOK, CastType, AnyRoom
  <2> HIDE DEF ids
  <2>3. new \in CastType
    BY <1>0, <2>2 DEF CastType
  <2>4. Disjoint(new)
    BY <1>0, <1>2 DEF CastType, Disjoint, CastShape, Include
  <2>5. Set(b, new)
    BY <2>1 DEF ids
  <2> QED  BY <2>3, <2>4, <2>5, SetType
<1>3. CASE BeginExclude(b)
  <2> DEFINE new == [cast[b] EXCEPT !.pc = "exclude", !.todo = cast[b].op.exclude]
  <2>1. cast[b].op.exclude \subseteq AnyRoom
    BY <1>0, OperatorsAssumption DEF CastType, NoOperator, AnyRoom
  <2>2. new \in CastType /\ Disjoint(new)
    BY <1>0, <2>1 DEF CastType, Disjoint
  <2> QED  BY <1>3, <2>2, SetType DEF BeginExclude
<1>4. CASE Exclude(b)
  <2>1. PICK r \in cast[b].todo :
          Set(b, [cast[b] EXCEPT !.targets = @ \ rooms[r], !.todo = @ \ {r}])
    BY <1>4 DEF Exclude
  <2> DEFINE new == [cast[b] EXCEPT !.targets = @ \ rooms[r], !.todo = @ \ {r}]
  <2>2. new \in CastType /\ Disjoint(new)
    BY <1>0 DEF CastType, Disjoint
  <2> QED  BY <2>1, <2>2, SetType
<1>5. CASE BeginSend(b)
  <2> DEFINE new == [cast[b] EXCEPT !.pc = "send", !.todo = {},
                                    !.targets = @ \ cast[b].op.except]
  <2>1. new \in CastType /\ Disjoint(new)
    BY <1>0 DEF CastType, Disjoint
  <2> QED  BY <1>5, <2>1, SetType DEF BeginSend
<1>6. CASE Lookup(b)
  <2> DEFINE c == Min(cast[b].targets)
             new == [cast[b] EXCEPT !.targets = @ \ {c}, !.checking = @ \cup ({c} \cap connections)]
  <2>1. c \in cast[b].targets
    BY <1>0, <1>6, MinIsMember, SizesAssumption DEF Lookup, CastType
  <2>2. Set(b, new)
    BY <1>6 DEF Lookup
  <2> HIDE DEF c
  <2>3. new \in CastType
    BY <1>0, <2>1 DEF CastType, TypeOK
  <2>4. Disjoint(new)
    BY <1>0, <2>1 DEF CastType, Disjoint
  <2> QED  BY <2>2, <2>3, <2>4, SetType
<1>7. ASSUME NEW c \in Conns, Check(b, c) PROVE Typed
  <2> DEFINE send == IF cast[b].kind = "disconnect" \/ state[c] = "Ready" THEN {c} ELSE {}
             new == [cast[b] EXCEPT !.checking = @ \ {c}, !.sending = @ \cup send]
  <2>1. Set(b, new) /\ c \in cast[b].checking
    BY <1>7 DEF Check
  <2>2. send \subseteq {c}
    OBVIOUS
  <2> HIDE DEF send
  <2>3. new \in CastType /\ Disjoint(new)
    BY <1>0, <2>1, <2>2 DEF CastType, Disjoint
  <2> QED  BY <2>1, <2>3, SetType
<1>8. ASSUME NEW c \in Conns, CheckClose(b, c) PROVE Typed
  <2> DEFINE new == [cast[b] EXCEPT !.checking = @ \ {c}, !.got = @ \cup {c}]
  <2>1. new \in CastType /\ Disjoint(new)
    BY <1>0, <1>8 DEF CheckClose, CastType, Disjoint
  <2> QED  BY <1>8, <2>1, SetType DEF CheckClose
<1>9. ASSUME NEW c \in Conns, SendMessage(b, c) PROVE Typed
  <2> DEFINE new == [cast[b] EXCEPT !.sending = @ \ {c}, !.got = @ \cup {c}]
  <2>1. new \in CastType /\ Disjoint(new)
    BY <1>0, <1>9 DEF SendMessage, CastType, Disjoint
  <2> QED  BY <1>9, <2>1, SetType DEF SendMessage
<1>10. ASSUME NEW c \in Conns, SendFails(b, c) PROVE Typed
  <2> DEFINE new == [cast[b] EXCEPT !.sending = @ \ {c}]
  <2>1. new \in CastType /\ Disjoint(new)
    BY <1>0 DEF CastType, Disjoint
  <2> QED  BY <1>10, <2>1, SetType DEF SendFails
<1>11. CASE Finish(b)
  <2> DEFINE new == [cast[b] EXCEPT !.pc = "done"]
  <2>1. new \in CastType /\ Disjoint(new)
    BY <1>0 DEF CastType, Disjoint
  <2> QED  BY <1>11, <2>1, SetType DEF Finish
<1>12. CASE Return(b)
  <2>1. IdleCast \in CastType /\ Disjoint(IdleCast)
    BY DEF IdleCast, CastType, Disjoint, Kinds
  <2> QED  BY <1>12, <2>1, SetType DEF Return
<1> QED
  BY <1>1, <1>2, <1>3, <1>4, <1>5, <1>6, <1>7, <1>8, <1>9, <1>10, <1>11, <1>12
  DEF CastStep, Collect, Serve, Send

-----------------------------------------------------------------------------
(***************************************************************************)
(* The history.                                                            *)
(***************************************************************************)
\* What a step records of a broadcast that runs on after it.
LEMMA ObserveFacts ==
  ASSUME NEW a \in Casts, seen'[a] = Observe(a), cast'[a].pc \notin {"idle", "done"}
  PROVE  /\ cast[a].pc # "idle" => /\ seen'[a].stable \subseteq seen[a].stable
                                   /\ seen[a].in \subseteq seen'[a].in
                                   /\ seen[a].out \subseteq seen'[a].out
         /\ \A p \in seen'[a].stable :
              p[1] \in cast'[a].got \/ Eligible(a, p[1], p[2])'
         /\ \A c \in Conns, r \in AnyRoom : InTarget(a, c, r)' => c \in seen'[a].in
         /\ \A c \in Conns, x \in cast'[a].op.exclude :
              c \notin rooms'[x] => <<c, x>> \in seen'[a].out
<1> DEFINE old == IF cast[a].pc = "idle" THEN [NothingSeen EXCEPT !.stable = Pairs] ELSE seen[a]
<1>1. seen'[a] =
        [stable |-> {p \in old.stable : p[1] \in cast'[a].got \/ Eligible(a, p[1], p[2])'},
         in |-> old.in \cup {p[1] : p \in {q \in Pairs : InTarget(a, q[1], q[2])'}},
         out |-> old.out \cup {p \in Conns \X cast'[a].op.exclude : p[1] \notin rooms'[p[2]]}]
  BY DEF Observe
<1>2. cast[a].pc # "idle" => old = seen[a]
  OBVIOUS
<1> HIDE DEF old
<1>3. \A p \in seen'[a].stable : p \in old.stable
                                 /\ (p[1] \in cast'[a].got \/ Eligible(a, p[1], p[2])')
  BY <1>1
<1>4. ASSUME NEW c \in Conns, NEW r \in AnyRoom, InTarget(a, c, r)' PROVE c \in seen'[a].in
  <2>1. <<c, r>> \in {q \in Pairs : InTarget(a, q[1], q[2])'}
    BY <1>4 DEF Pairs
  <2>2. c \in {p[1] : p \in {q \in Pairs : InTarget(a, q[1], q[2])'}}
    BY <2>1
  <2> QED  BY <1>1, <2>2
<1>5. ASSUME NEW c \in Conns, NEW x \in cast'[a].op.exclude, c \notin rooms'[x]
      PROVE  <<c, x>> \in seen'[a].out
  <2>1. <<c, x>> \in {p \in Conns \X cast'[a].op.exclude : p[1] \notin rooms'[p[2]]}
    BY <1>5
  <2> QED  BY <1>1, <2>1
<1>6. old.in \subseteq seen'[a].in /\ old.out \subseteq seen'[a].out
  BY <1>1
<1> QED  BY <1>2, <1>3, <1>4, <1>5, <1>6

\* What it records when the broadcast begins, or ends.
LEMMA ObserveEnds ==
  ASSUME NEW a \in Casts, seen'[a] = Observe(a)
  PROVE  /\ cast'[a].pc = "idle" => seen'[a] = NothingSeen
         /\ cast'[a].pc = "done" => seen'[a] = seen[a]
BY DEF Observe

SeenType == [stable : SUBSET Pairs, in : SUBSET Conns, out : SUBSET (Conns \X Rooms)]

LEMMA ObserveType ==
  ASSUME TypeOK, NEW a \in Casts, cast'[a] \in CastType
  PROVE  Observe(a) \in SeenType
<1> DEFINE old == IF cast[a].pc = "idle" THEN [NothingSeen EXCEPT !.stable = Pairs] ELSE seen[a]
<1>1. seen[a] \in SeenType /\ NothingSeen \in SeenType
  BY DEF TypeOK, SeenType, NothingSeen
<1>2. old \in SeenType
  BY <1>1 DEF NothingSeen, SeenType
<1> DEFINE S == {p \in old.stable : p[1] \in cast'[a].got \/ Eligible(a, p[1], p[2])'}
           I == old.in \cup {p[1] : p \in {q \in Pairs : InTarget(a, q[1], q[2])'}}
           O == old.out \cup {p \in Conns \X cast'[a].op.exclude : p[1] \notin rooms'[p[2]]}
<1>3. Observe(a) \in {NothingSeen, seen[a], [stable |-> S, in |-> I, out |-> O]}
  BY DEF Observe
<1> HIDE DEF old
<1>4. S \subseteq Pairs /\ I \subseteq Conns
  BY <1>2 DEF SeenType, Pairs
<1>5. cast'[a].op.exclude \subseteq Rooms
  BY OperatorsAssumption DEF CastType, NoOperator
<1>6. O \subseteq Conns \X Rooms
  BY <1>2, <1>5 DEF SeenType
<1> HIDE DEF S, I, O
<1>7. [stable |-> S, in |-> I, out |-> O] \in SeenType
  BY <1>4, <1>6 DEF SeenType
<1> QED  BY <1>1, <1>3, <1>7

ConnsType ==
  /\ state \in [Conns -> {"handshake", "Ready", "Closing"}]
  /\ connections \subseteq Conns /\ connectionIds \subseteq Conns
  /\ inserting \in [Conns -> {"no", "connections", "ids", "done"}]
  /\ cleaning \in [Conns -> {"no", "connections", "ids", "done"}]
  /\ rooms \in [Rooms -> SUBSET Conns]

LEMMA TypeStep ==
  TypeOK /\ (\A b \in Casts : CastShape(b)) /\ [Next]_vars => TypeOK'
<1>1. CASE UNCHANGED vars
  BY <1>1 DEF TypeOK, vars
<1> SUFFICES ASSUME TypeOK, \A b \in Casts : CastShape(b), Next PROVE TypeOK'
  BY <1>1
<1>2. ConnsType'
  <2>1. ASSUME NEW c \in Conns, ConnStep(c) PROVE ConnsType'
    BY <2>1
    DEF ConnStep, Ready, InsertConnection, CleanupClosing, CleanupRemoveConnection, TypeOK, ConnsType
  <2>2. ASSUME NEW c \in Movers, NEW r \in Rooms, EnterRoom(c, r) \/ ExitRoom(c, r)
        PROVE  ConnsType'
    BY <2>2, ConnsAssumption DEF EnterRoom, ExitRoom, TypeOK, ConnsType
  <2>3. ASSUME NEW b \in Casts, NEW c \in Conns, CheckClose(b, c) PROVE ConnsType'
    BY <2>3 DEF CheckClose, TypeOK, ConnsType
  <2>4. CASE CastOnly
    BY <2>4 DEF CastOnly, TypeOK, ConnsType
  <2> QED
    BY <2>1, <2>2, <2>3, <2>4
    DEF Next, CastStep, Start, Collect, Include, BeginExclude, Exclude, BeginSend, Lookup, Serve,
        Check, Send, SendMessage, SendFails, Finish, Return
<1>3. cast' \in [Casts -> CastType] /\ \A a \in Casts : Disjoint(cast'[a])
  <2>1. CASE cast' = cast
    BY <2>1 DEF TypeOK, Disjoint
  <2> QED
    BY <2>1, CastStepType
    DEF Next, ConnStep, Ready, InsertConnection, CleanupClosing, CleanupRemoveConnection,
        EnterRoom, ExitRoom
<1>4. seen' \in [Casts -> SeenType]
  BY <1>3, ObserveType DEF Next
<1> QED  BY <1>2, <1>3, <1>4 DEF TypeOK, ConnsType, SeenType, Disjoint

-----------------------------------------------------------------------------
(***************************************************************************)
(* The invariant.                                                          *)
(***************************************************************************)
CastInv(b) == CastShape(b) /\ OutsiderInv(b) /\ ReachedInv(b)

\* A broadcast that does not move itself: only its history goes on.
LEMMA Bystander ==
  ASSUME TypeOK, NEW a \in Casts, CastInv(a), cast'[a] = cast[a], seen'[a] = Observe(a)
  PROVE  CastInv(a)'
<1>1. CASE cast[a].pc = "idle"
  BY <1>1, ObserveEnds
  DEF CastInv, CastShape, OutsiderInv, ReachedInv, Found, IdleCast, NothingSeen, NoOperator
<1>2. CASE cast[a].pc = "done"
  <2>1. seen'[a] = seen[a]
    BY <1>2, ObserveEnds
  <2> QED  BY <1>2, <2>1 DEF CastInv, CastShape, OutsiderInv, ReachedInv, Found
<1>3. CASE cast[a].pc \in {"include", "exclude", "send"}
  <2>1. /\ seen'[a].stable \subseteq seen[a].stable
        /\ seen[a].in \subseteq seen'[a].in /\ seen[a].out \subseteq seen'[a].out
        /\ \A p \in seen'[a].stable : p[1] \in cast'[a].got \/ Eligible(a, p[1], p[2])'
    BY <1>3, ObserveFacts
  <2>2. CastShape(a)'
    BY <1>3 DEF CastInv, CastShape
  <2>3. OutsiderInv(a)'
    BY <2>1 DEF CastInv, OutsiderInv, Found
  <2>4. ReachedInv(a)'
    BY <1>3, <2>1 DEF CastInv, CastShape, ReachedInv, Found
  <2> QED  BY <2>2, <2>3, <2>4 DEF CastInv
<1> QED  BY <1>1, <1>2, <1>3 DEF TypeOK, CastType

LEMMA InvStart ==
  ASSUME TypeOK, NEW b \in Casts, CastInv(b), NEW kind \in Kinds, NEW op \in Operators,
         Start(b, kind, op), seen'[b] = Observe(b)
  PROVE  CastInv(b)'
<1> DEFINE todo == IF op.include = {} THEN {NoRoom} ELSE op.include
<1>1. /\ cast'[b] = [IdleCast EXCEPT !.pc = "include", !.kind = kind, !.op = op, !.todo = todo]
      /\ cast[b].pc = "idle"
  BY CastOnlyOwn DEF Start
<1>2. /\ cast'[b].pc = "include" /\ cast'[b].op = op /\ cast'[b].todo = todo
      /\ cast'[b].targets = {} /\ cast'[b].checking = {} /\ cast'[b].sending = {}
      /\ cast'[b].got = {}
  BY <1>1 DEF IdleCast
<1>3. \A p \in seen'[b].stable : Eligible(b, p[1], p[2])'
  BY <1>2, ObserveFacts
<1>4. \A p \in seen'[b].stable : p[2] \in todo
  BY <1>2, <1>3 DEF Eligible, InTarget
<1> HIDE DEF todo
<1>5. CastShape(b)'
  BY <1>2 DEF CastShape, todo
<1>6. OutsiderInv(b)'
  BY <1>2 DEF OutsiderInv, Found
<1>7. ReachedInv(b)'
  BY <1>2, <1>3, <1>4 DEF ReachedInv
<1> QED  BY <1>5, <1>6, <1>7 DEF CastInv

LEMMA InvInclude ==
  ASSUME TypeOK, NEW b \in Casts, CastInv(b), Include(b), seen'[b] = Observe(b)
  PROVE  CastInv(b)'
<1>1. PICK r \in cast[b].todo :
        Set(b, [cast[b] EXCEPT
          !.targets = @ \cup (IF r = NoRoom THEN connectionIds ELSE rooms[r]), !.todo = @ \ {r}])
  BY DEF Include
<1> DEFINE ids == IF r = NoRoom THEN connectionIds ELSE rooms[r]
<1>2. cast'[b] = [cast[b] EXCEPT !.targets = @ \cup ids, !.todo = @ \ {r}]
  BY <1>1, CastOnlyOwn
<1>3. /\ cast[b].pc = "include" /\ cast[b] \in CastType
      /\ UNCHANGED <<connVars, rooms>>
  BY DEF Include, CastOnly, TypeOK
<1>4. /\ ids \subseteq Conns /\ r \in AnyRoom
      /\ r \in (IF cast[b].op.include = {} THEN {NoRoom} ELSE cast[b].op.include)
  BY <1>1, <1>3, RoomsAssumption DEF TypeOK, CastType, AnyRoom, NoRoom, CastInv, CastShape
<1>5. \A c \in Conns : InTarget(b, c, r) <=> c \in ids
  BY <1>3, <1>4, OperatorsAssumption, RoomsAssumption
  DEF InTarget, CastType, NoOperator, NoRoom
<1> HIDE DEF ids
<1>6. /\ cast'[b].pc = "include" /\ cast'[b].op = cast[b].op
      /\ cast'[b].todo = cast[b].todo \ {r} /\ cast'[b].targets = cast[b].targets \cup ids
      /\ cast'[b].checking = {} /\ cast'[b].sending = {} /\ cast'[b].got = {}
  BY <1>2, <1>3 DEF CastType, CastInv, CastShape
<1>7. \A c, q : /\ InTarget(b, c, q)' <=> InTarget(b, c, q)
                /\ Eligible(b, c, q)' <=> Eligible(b, c, q)
  BY <1>3, <1>6 DEF InTarget, Eligible, Spared
<1>8. /\ seen'[b].stable \subseteq seen[b].stable
      /\ seen[b].in \subseteq seen'[b].in /\ ids \subseteq seen'[b].in
  BY <1>3, <1>4, <1>5, <1>6, <1>7, ObserveFacts
<1>9. CastShape(b)'
  BY <1>3, <1>6 DEF CastInv, CastShape
<1>10. OutsiderInv(b)'
  BY <1>3, <1>6, <1>8 DEF CastInv, OutsiderInv, Found
<1>11. ReachedInv(b)'
  <2> SUFFICES ASSUME NEW p \in seen'[b].stable
               PROVE  /\ Eligible(b, p[1], p[2])
                      /\ p[2] \in cast[b].todo \ {r} \/ p[1] \in cast[b].targets \cup ids
    BY <1>6, <1>7 DEF ReachedInv
  <2>1. /\ Eligible(b, p[1], p[2]) /\ (p[2] \in cast[b].todo \/ p[1] \in cast[b].targets)
        /\ p[1] \in Conns
    BY <1>3, <1>8 DEF CastInv, ReachedInv, TypeOK, Pairs
  <2>2. CASE p[2] = r
    BY <1>5, <2>1, <2>2 DEF Eligible
  <2> QED  BY <2>1, <2>2
<1> QED  BY <1>9, <1>10, <1>11 DEF CastInv

LEMMA InvBeginExclude ==
  ASSUME TypeOK, NEW b \in Casts, CastInv(b), BeginExclude(b), seen'[b] = Observe(b)
  PROVE  CastInv(b)'
<1>1. /\ cast'[b] = [cast[b] EXCEPT !.pc = "exclude", !.todo = cast[b].op.exclude]
      /\ cast[b].pc = "include" /\ cast[b].todo = {} /\ cast[b] \in CastType
      /\ UNCHANGED <<connVars, rooms>>
  BY CastOnlyOwn DEF BeginExclude, CastOnly, TypeOK
<1>2. /\ cast'[b].pc = "exclude" /\ cast'[b].op = cast[b].op
      /\ cast'[b].todo = cast[b].op.exclude /\ cast'[b].targets = cast[b].targets
      /\ cast'[b].checking = {} /\ cast'[b].sending = {} /\ cast'[b].got = {}
  BY <1>1 DEF CastType, CastInv, CastShape
<1>3. \A c, q : Eligible(b, c, q)' <=> Eligible(b, c, q)
  BY <1>1, <1>2 DEF InTarget, Eligible, Spared
<1>4. seen'[b].stable \subseteq seen[b].stable /\ seen[b].in \subseteq seen'[b].in
  BY <1>1, <1>2, ObserveFacts
<1>5. CastShape(b)'
  BY <1>2 DEF CastShape
<1>6. OutsiderInv(b)'
  BY <1>1, <1>2, <1>4 DEF CastInv, OutsiderInv, Found
<1>7. ReachedInv(b)'
  BY <1>1, <1>2, <1>3, <1>4 DEF CastInv, ReachedInv
<1> QED  BY <1>5, <1>6, <1>7 DEF CastInv

LEMMA InvExclude ==
  ASSUME TypeOK, NEW b \in Casts, CastInv(b), Exclude(b), seen'[b] = Observe(b)
  PROVE  CastInv(b)'
<1>1. PICK r \in cast[b].todo :
        Set(b, [cast[b] EXCEPT !.targets = @ \ rooms[r], !.todo = @ \ {r}])
  BY DEF Exclude
<1>2. /\ cast'[b] = [cast[b] EXCEPT !.targets = @ \ rooms[r], !.todo = @ \ {r}]
      /\ cast[b].pc = "exclude" /\ cast[b] \in CastType
      /\ UNCHANGED <<connVars, rooms>> /\ r \in cast[b].op.exclude
  BY <1>1, CastOnlyOwn DEF Exclude, CastOnly, TypeOK, CastInv, CastShape
<1>3. /\ cast'[b].pc = "exclude" /\ cast'[b].op = cast[b].op
      /\ cast'[b].todo = cast[b].todo \ {r} /\ cast'[b].targets = cast[b].targets \ rooms[r]
      /\ cast'[b].checking = {} /\ cast'[b].sending = {} /\ cast'[b].got = {}
  BY <1>2 DEF CastType, CastInv, CastShape
<1>4. \A c, q : Eligible(b, c, q)' <=> Eligible(b, c, q)
  BY <1>2, <1>3 DEF InTarget, Eligible, Spared
<1>5. /\ seen'[b].stable \subseteq seen[b].stable
      /\ seen[b].in \subseteq seen'[b].in /\ seen[b].out \subseteq seen'[b].out
      /\ \A c \in cast[b].targets \ rooms[r] : <<c, r>> \in seen'[b].out
  BY <1>2, <1>3, ObserveFacts DEF CastType
<1>6. CastShape(b)'
  BY <1>2, <1>3 DEF CastInv, CastShape
<1>7. OutsiderInv(b)'
  BY <1>2, <1>3, <1>5 DEF CastInv, OutsiderInv, Found
<1>8. ReachedInv(b)'
  BY <1>2, <1>3, <1>4, <1>5 DEF CastInv, ReachedInv, Eligible, Spared
<1> QED  BY <1>6, <1>7, <1>8 DEF CastInv

LEMMA InvBeginSend ==
  ASSUME TypeOK, NEW b \in Casts, CastInv(b), BeginSend(b), seen'[b] = Observe(b)
  PROVE  CastInv(b)'
<1>1. /\ cast'[b] = [cast[b] EXCEPT !.pc = "send", !.todo = {},
                                    !.targets = @ \ cast[b].op.except]
      /\ cast[b].pc = "exclude" /\ (cast[b].todo = {} \/ cast[b].targets = {})
      /\ cast[b] \in CastType /\ UNCHANGED <<connVars, rooms>>
  BY CastOnlyOwn DEF BeginSend, CastOnly, TypeOK
<1>2. /\ cast'[b].pc = "send" /\ cast'[b].op = cast[b].op /\ cast'[b].todo = {}
      /\ cast'[b].targets = cast[b].targets \ cast[b].op.except
      /\ cast'[b].checking = {} /\ cast'[b].sending = {} /\ cast'[b].got = {}
  BY <1>1 DEF CastType, CastInv, CastShape
<1>3. \A c, q : Eligible(b, c, q)' <=> Eligible(b, c, q)
  BY <1>1, <1>2 DEF InTarget, Eligible, Spared
<1>4. /\ seen'[b].stable \subseteq seen[b].stable
      /\ seen[b].in \subseteq seen'[b].in /\ seen[b].out \subseteq seen'[b].out
  BY <1>1, <1>2, ObserveFacts
<1>5. CastShape(b)'
  BY <1>2 DEF CastShape
<1>6. OutsiderInv(b)'
  BY <1>1, <1>2, <1>4 DEF CastInv, OutsiderInv, Found
<1>7. ReachedInv(b)'
  BY <1>1, <1>2, <1>3, <1>4 DEF CastInv, ReachedInv, Found, Eligible, Spared
<1> QED  BY <1>5, <1>6, <1>7 DEF CastInv

\* A step of the serving stage: the broadcast moves found ones on, and drops
\* only those that are not eligible.
LEMMA InvServe ==
  ASSUME TypeOK, NEW b \in Casts, CastInv(b), seen'[b] = Observe(b),
         cast[b].pc = "send", cast'[b].pc = "send", cast'[b].op = cast[b].op,
         Found(b)' \subseteq Found(b), cast[b].got \subseteq cast'[b].got,
         \A c \in Found(b) \ Found(b)' : \A r : ~ Eligible(b, c, r)
  PROVE  CastInv(b)'
<1>1. /\ seen'[b].stable \subseteq seen[b].stable
      /\ seen[b].in \subseteq seen'[b].in /\ seen[b].out \subseteq seen'[b].out
      /\ \A p \in seen'[b].stable : p[1] \in cast'[b].got \/ Eligible(b, p[1], p[2])'
  BY ObserveFacts
<1>2. CastShape(b)'
  BY DEF CastShape
<1>3. OutsiderInv(b)'
  BY <1>1 DEF CastInv, OutsiderInv
<1>4. ReachedInv(b)'
  BY <1>1 DEF CastInv, ReachedInv
<1> QED  BY <1>2, <1>3, <1>4 DEF CastInv

LEMMA InvSend ==
  ASSUME TypeOK, NEW b \in Casts, CastInv(b), seen'[b] = Observe(b),
         Lookup(b) \/ \E c \in Conns : Serve(b, c) \/ Send(b, c)
  PROVE  CastInv(b)'
<1>0. cast[b] \in CastType
  BY DEF TypeOK
<1>1. CASE Lookup(b)
  <2> DEFINE c == Min(cast[b].targets)
  <2>1. /\ cast'[b] = [cast[b] EXCEPT !.targets = @ \ {c},
                                      !.checking = @ \cup ({c} \cap connections)]
        /\ cast[b].pc = "send"
    BY <1>1, CastOnlyOwn DEF Lookup
  <2>2. c \in cast[b].targets
    BY <1>0, <1>1, MinIsMember, SizesAssumption DEF Lookup, CastType
  <2> HIDE DEF c
  <2>3. /\ cast'[b].pc = "send" /\ cast'[b].op = cast[b].op /\ cast'[b].got = cast[b].got
        /\ Found(b)' \subseteq Found(b)
        /\ Found(b) \ Found(b)' \subseteq {c} /\ (c \in connections => c \in Found(b)')
    BY <1>0, <2>1, <2>2 DEF CastType, Found
  <2> QED  BY <2>1, <2>3, InvServe DEF Eligible
<1>2. ASSUME NEW c \in Conns, Serve(b, c) \/ Send(b, c), cast[b].pc = "send" PROVE CastInv(b)'
  <2>1. CASE Check(b, c)
    <3> DEFINE send == IF cast[b].kind = "disconnect" \/ state[c] = "Ready" THEN {c} ELSE {}
    <3>1. /\ cast'[b] = [cast[b] EXCEPT !.checking = @ \ {c}, !.sending = @ \cup send]
          /\ c \in cast[b].checking
      BY <2>1, CastOnlyOwn DEF Check
    <3>2. send \subseteq {c} /\ (state[c] = "Ready" => c \in send)
      OBVIOUS
    <3> HIDE DEF send
    <3>3. /\ cast'[b].pc = "send" /\ cast'[b].op = cast[b].op /\ cast'[b].got = cast[b].got
          /\ Found(b)' \subseteq Found(b)
          /\ Found(b) \ Found(b)' \subseteq {c} /\ (state[c] = "Ready" => c \in Found(b)')
      BY <1>0, <1>2, <3>1, <3>2 DEF CastType, Found
    <3> QED  BY <1>2, <3>3, InvServe DEF Eligible
  <2>2. CASE CheckClose(b, c)
    <3>1. /\ cast'[b] = [cast[b] EXCEPT !.checking = @ \ {c}, !.got = @ \cup {c}]
          /\ c \in cast[b].checking
      BY <2>2, CastOnlyOwn DEF CheckClose
    <3>2. /\ cast'[b].pc = "send" /\ cast'[b].op = cast[b].op /\ cast[b].got \subseteq cast'[b].got
          /\ Found(b)' = Found(b)
      BY <1>0, <1>2, <3>1 DEF CastType, Found
    <3> QED  BY <1>2, <3>2, InvServe
  <2>3. CASE SendMessage(b, c)
    <3>1. /\ cast'[b] = [cast[b] EXCEPT !.sending = @ \ {c}, !.got = @ \cup {c}]
          /\ c \in cast[b].sending
      BY <2>3, CastOnlyOwn DEF SendMessage
    <3>2. /\ cast'[b].pc = "send" /\ cast'[b].op = cast[b].op /\ cast[b].got \subseteq cast'[b].got
          /\ Found(b)' = Found(b)
      BY <1>0, <1>2, <3>1 DEF CastType, Found
    <3> QED  BY <1>2, <3>2, InvServe
  <2>4. CASE SendFails(b, c)
    <3>1. /\ cast'[b] = [cast[b] EXCEPT !.sending = @ \ {c}] /\ cleaning[c] # "no"
      BY <2>4, CastOnlyOwn DEF SendFails
    <3>2. /\ cast'[b].pc = "send" /\ cast'[b].op = cast[b].op /\ cast'[b].got = cast[b].got
          /\ Found(b)' \subseteq Found(b) /\ Found(b) \ Found(b)' \subseteq {c}
      BY <1>0, <1>2, <3>1 DEF CastType, Found
    <3> QED  BY <1>2, <3>1, <3>2, InvServe DEF Eligible
  <2> QED  BY <1>2, <2>1, <2>2, <2>3, <2>4 DEF Serve, Send
<1>3. ASSUME NEW c \in Conns, c \in InFlight(b) PROVE cast[b].pc = "send"
  BY <1>0, <1>3 DEF InFlight, CastInv, CastShape, CastType, IdleCast
<1>4. ASSUME NEW c \in Conns, Serve(b, c) \/ Send(b, c) PROVE c \in InFlight(b)
  BY <1>4 DEF Serve, Send, Check, CheckClose, SendMessage, SendFails, InFlight
<1> QED  BY <1>1, <1>2, <1>3, <1>4

LEMMA InvFinish ==
  ASSUME TypeOK, NEW b \in Casts, CastInv(b), Finish(b), seen'[b] = Observe(b)
  PROVE  CastInv(b)'
<1>1. /\ cast'[b] = [cast[b] EXCEPT !.pc = "done"] /\ cast[b].pc = "send"
      /\ cast[b].targets = {} /\ cast[b].checking = {} /\ cast[b].sending = {}
      /\ cast[b] \in CastType
  BY CastOnlyOwn DEF Finish, InFlight, TypeOK
<1>2. /\ cast'[b].pc = "done" /\ cast'[b].op = cast[b].op /\ cast'[b].got = cast[b].got
      /\ Found(b)' = Found(b)
  BY <1>1 DEF CastType, Found
<1>3. seen'[b] = seen[b]
  BY <1>2, ObserveEnds
<1>4. CastShape(b)' /\ OutsiderInv(b)'
  BY <1>1, <1>2, <1>3 DEF CastInv, CastShape, OutsiderInv
<1>5. ReachedInv(b)'
  BY <1>1, <1>2, <1>3 DEF CastInv, ReachedInv, Found
<1> QED  BY <1>4, <1>5 DEF CastInv

LEMMA InvReturn ==
  ASSUME TypeOK, NEW b \in Casts, Return(b), seen'[b] = Observe(b)
  PROVE  CastInv(b)'
<1>1. cast'[b] = IdleCast /\ cast'[b].pc = "idle"
  BY CastOnlyOwn DEF Return, IdleCast
<1>2. seen'[b] = NothingSeen
  BY <1>1, ObserveEnds
<1> QED
  BY <1>1, <1>2
  DEF CastInv, CastShape, OutsiderInv, ReachedInv, Found, IdleCast, NothingSeen, NoOperator

LEMMA BroadcastStep == TypeOK /\ BroadcastInv /\ [Next]_vars => BroadcastInv'
<1>1. CASE UNCHANGED vars
  BY <1>1 DEF vars, BroadcastInv, CastShape, OutsiderInv, ReachedInv, Found, Eligible, InTarget,
     Spared
<1> SUFFICES ASSUME TypeOK, BroadcastInv, Next, NEW a \in Casts PROVE CastInv(a)'
  BY <1>1 DEF BroadcastInv, CastInv
<1>2. seen'[a] = Observe(a) /\ CastInv(a)
  BY DEF Next, BroadcastInv, CastInv
<1>3. CASE cast'[a] = cast[a]
  BY <1>2, <1>3, Bystander
<1>4. CASE CastStep(a)
  BY <1>2, <1>4, InvStart, InvInclude, InvBeginExclude, InvExclude, InvBeginSend, InvSend,
     InvFinish, InvReturn
  DEF CastStep, Collect
<1>5. ASSUME NEW b \in Casts, CastStep(b), b # a PROVE cast'[a] = cast[a]
  BY <1>5 DEF CastStep, Start, Collect, Include, BeginExclude, Exclude, BeginSend, Lookup, Serve,
     Check, CheckClose, Send, SendMessage, SendFails, Finish, Return, Set, TypeOK
<1> QED
  BY <1>3, <1>4, <1>5
  DEF Next, ConnStep, Ready, InsertConnection, CleanupClosing, CleanupRemoveConnection,
      EnterRoom, ExitRoom

LEMMA BroadcastCorrect == Spec => [](TypeOK /\ BroadcastInv)
<1>1. Init => TypeOK
  BY DEF Init, TypeOK, CastType, IdleCast, NothingSeen, Kinds
<1>2. Init => BroadcastInv
  BY DEF Init, BroadcastInv, CastShape, OutsiderInv, ReachedInv, Found, IdleCast, NothingSeen,
     NoOperator
<1>3. BroadcastInv => \A b \in Casts : CastShape(b)
  BY DEF BroadcastInv
<1> QED  BY <1>1, <1>2, <1>3, TypeStep, BroadcastStep, PTL DEF Spec

\* The types hold, and a target is at one stage of a broadcast at a time: no
\* connection is served twice by one broadcast.
THEOREM TypeCorrect == Spec => []TypeOK
BY BroadcastCorrect, PTL

\* A broadcast reaches nobody it was not meant for: what it collects map by
\* map was, each at some moment of it, in an included room, outside every
\* excluded one and not the sender.
THEOREM OutsidersSpared == Spec => []OutsiderSpared
<1>1. BroadcastInv => OutsiderSpared
  BY DEF BroadcastInv, OutsiderInv, OutsiderSpared, Found
<1> QED  BY <1>1, BroadcastCorrect, PTL

\* A broadcast reaches everyone who was Ready, registered, in one same
\* included room and outside all excluded ones from its start until served,
\* whatever all others do in between.
THEOREM StableMembersReached == Spec => []StableMemberReached
<1>1. BroadcastInv => StableMemberReached
  BY DEF BroadcastInv, ReachedInv, StableMemberReached
<1> QED  BY <1>1, BroadcastCorrect, PTL

-----------------------------------------------------------------------------
(***************************************************************************)
(* The concurrency limit.                                                  *)
(***************************************************************************)
\* Of all steps only Lookup takes a target into flight: one, and only while
\* there are fewer than Limit.
LEMMA FlightStep ==
  ASSUME TypeOK, [Next]_vars, NEW b \in Casts
  PROVE  \/ InFlight(b)' \subseteq InFlight(b)
         \/ /\ Limit = 0 \/ Cardinality(InFlight(b)) < Limit
            /\ \E c : InFlight(b)' \subseteq InFlight(b) \cup {c}
<1>0. cast[b] \in CastType
  BY DEF TypeOK
<1>1. ASSUME cast'[b] = cast[b] PROVE InFlight(b)' \subseteq InFlight(b)
  BY <1>1 DEF InFlight
<1>2. ASSUME NEW c \in Conns, ConnStep(c) PROVE cast' = cast
  BY <1>2 DEF ConnStep, Ready, InsertConnection, CleanupClosing, CleanupRemoveConnection
<1>3. ASSUME NEW c \in Movers, NEW r \in Rooms, EnterRoom(c, r) \/ ExitRoom(c, r) PROVE cast' = cast
  BY <1>3 DEF EnterRoom, ExitRoom
<1>4. ASSUME NEW a \in Casts, CastStep(a), a # b PROVE cast'[b] = cast[b]
  BY <1>4 DEF CastStep, Start, Collect, Include, BeginExclude, Exclude, BeginSend, Lookup, Serve,
     Check, CheckClose, Send, SendMessage, SendFails, Finish, Return, Set, TypeOK
<1>5. ASSUME NEW new, Set(b, new) PROVE cast'[b] = new
  BY <1>5, CastOnlyOwn
<1>6. CASE CastStep(b)
  <2>1. ASSUME NEW kind \in Kinds, NEW op \in Operators, Start(b, kind, op)
        PROVE  InFlight(b)' \subseteq InFlight(b)
    <3>1. cast'[b].checking = {} /\ cast'[b].sending = {}
      BY <1>5, <2>1 DEF Start, IdleCast
    <3> QED  BY <3>1 DEF InFlight
  <2>2. CASE Collect(b) \/ Finish(b)
    <3>1. cast'[b].checking = cast[b].checking /\ cast'[b].sending = cast[b].sending
      BY <1>0, <1>5, <2>2 DEF CastType, Collect, Include, BeginExclude, Exclude, BeginSend, Finish
    <3> QED  BY <3>1 DEF InFlight
  <2>3. CASE Lookup(b)
    <3>1. PICK c : c = Min(cast[b].targets)
      OBVIOUS
    <3>2. /\ cast'[b].checking = cast[b].checking \cup ({c} \cap connections)
          /\ cast'[b].sending = cast[b].sending
      BY <1>0, <1>5, <2>3, <3>1 DEF CastType, Lookup
    <3>3. InFlight(b)' \subseteq InFlight(b) \cup {c}
      BY <3>2 DEF InFlight
    <3> QED  BY <2>3, <3>3 DEF Lookup
  <2>4. ASSUME NEW c \in Conns, Serve(b, c) \/ Send(b, c)
        PROVE  InFlight(b)' \subseteq InFlight(b)
    <3>1. CASE Check(b, c)
      <4>1. /\ cast'[b].checking = cast[b].checking \ {c} /\ c \in cast[b].checking
            /\ cast'[b].sending \subseteq cast[b].sending \cup {c}
        BY <1>0, <1>5, <3>1 DEF CastType, Check
      <4> QED  BY <4>1 DEF InFlight
    <3>2. CASE CheckClose(b, c)
      <4>1. cast'[b].checking = cast[b].checking \ {c} /\ cast'[b].sending = cast[b].sending
        BY <1>0, <1>5, <3>2 DEF CastType, CheckClose
      <4> QED  BY <4>1 DEF InFlight
    <3>3. CASE Send(b, c)
      <4>1. cast'[b].checking = cast[b].checking /\ cast'[b].sending = cast[b].sending \ {c}
        BY <1>0, <1>5, <3>3 DEF CastType, Send, SendMessage, SendFails
      <4> QED  BY <4>1 DEF InFlight
    <3> QED  BY <2>4, <3>1, <3>2, <3>3 DEF Serve
  <2>5. CASE Return(b)
    <3>1. cast'[b].checking = {} /\ cast'[b].sending = {}
      BY <1>5, <2>5 DEF Return, IdleCast
    <3> QED  BY <3>1 DEF InFlight
  <2> QED  BY <1>6, <2>1, <2>2, <2>3, <2>4, <2>5 DEF CastStep
<1>7. CASE UNCHANGED vars
  BY <1>1, <1>7 DEF vars
<1> QED  BY <1>1, <1>2, <1>3, <1>4, <1>6, <1>7 DEF Next

\* for_each_concurrent keeps to broadcast_concurrency_limit: the targets that
\* are looked up, checked and sent to at one moment are never more.
THEOREM ConcurrencyKept == Spec => []ConcurrencyBounded
<1>1. Init => ConcurrencyBounded
  <2> SUFFICES ASSUME Init, Limit # 0, NEW b \in Casts
               PROVE  IsFiniteSet(InFlight(b)) /\ Cardinality(InFlight(b)) <= Limit
    BY DEF ConcurrencyBounded
  <2>1. InFlight(b) = {}
    BY DEF Init, InFlight, IdleCast
  <2> QED  BY <2>1, FS_EmptySet, SizesAssumption
<1>2. TypeOK /\ ConcurrencyBounded /\ [Next]_vars => ConcurrencyBounded'
  <2> SUFFICES ASSUME TypeOK, ConcurrencyBounded, [Next]_vars, Limit # 0, NEW b \in Casts
               PROVE  IsFiniteSet(InFlight(b))' /\ Cardinality(InFlight(b)') <= Limit
    BY DEF ConcurrencyBounded
  <2>1. /\ IsFiniteSet(InFlight(b)) /\ Cardinality(InFlight(b)) <= Limit
        /\ Cardinality(InFlight(b)) \in Nat
    BY FS_CardinalityType DEF ConcurrencyBounded
  <2>2. CASE InFlight(b)' \subseteq InFlight(b)
    <3>1. IsFiniteSet(InFlight(b)') /\ Cardinality(InFlight(b)') <= Cardinality(InFlight(b))
      BY <2>1, <2>2, FS_Subset
    <3>2. Cardinality(InFlight(b)') \in Nat
      BY <3>1, FS_CardinalityType
    <3> QED  BY <2>1, <3>1, <3>2, SizesAssumption
  <2>3. ASSUME Cardinality(InFlight(b)) < Limit,
               NEW c, InFlight(b)' \subseteq InFlight(b) \cup {c}
        PROVE  IsFiniteSet(InFlight(b))' /\ Cardinality(InFlight(b)') <= Limit
    <3>1. /\ IsFiniteSet(InFlight(b) \cup {c})
          /\ Cardinality(InFlight(b) \cup {c}) \in
               {Cardinality(InFlight(b)), Cardinality(InFlight(b)) + 1}
      BY <2>1, FS_AddElement
    <3>2. /\ IsFiniteSet(InFlight(b)')
          /\ Cardinality(InFlight(b)') <= Cardinality(InFlight(b) \cup {c})
      BY <2>3, <3>1, FS_Subset
    <3>3. Cardinality(InFlight(b)') \in Nat
      BY <3>2, FS_CardinalityType
    <3> QED  BY <2>1, <2>3, <3>1, <3>2, <3>3, SizesAssumption
  <2> QED  BY <2>2, <2>3, FlightStep
<1> QED  BY <1>1, <1>2, TypeCorrect, PTL DEF Spec

=============================================================================
