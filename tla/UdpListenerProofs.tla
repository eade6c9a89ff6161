--------------------------- MODULE UdpListenerProofs ---------------------------
(***************************************************************************)
(* Theorems about UdpListener for any number of clients, discoveries and     *)
(* listener objects.  ListenerInv, HandlerInv, OwnerInv, OpenerInv and       *)
(* UsersCounted form one inductive invariant, Inv.                           *)
(***************************************************************************)
EXTENDS UdpListener, FiniteSetTheorems, TLAPS

\* No opener is cancelled in front of a queue: the one interleaving the code does
\* not survive.
Guarded == ~CancelHandOff

-------------------------------------------------------------------------------
(* Lemmas about the operators of the specification *)

LEMMA OwnersFinite == IsFiniteSet(Owners)
  BY OwnersAssumption, FS_Union DEF Owners

LEMMA CountedFinite ==
  ASSUME NEW l
  PROVE  IsFiniteSet(Counted(l))
  <1>1. Counted(l) \in SUBSET Owners
    BY DEF Counted
  <1>2. QED
    BY <1>1, OwnersFinite, FS_Subset

\* A listener with a single user left is not held by anybody else.
LEMMA LastUser ==
  ASSUME TypeOK, UsersCounted, NEW l \in Listeners, NEW o \in Counted(l), users[l] = 1
  PROVE  Counted(l) = {o}
  <1>1. IsFiniteSet(Counted(l)) /\ Cardinality(Counted(l)) = 1
    BY CountedFinite DEF UsersCounted
  <1>2. PICK x : Counted(l) = {x}
    BY <1>1, FS_Singleton
  <1>3. QED
    BY <1>2

-------------------------------------------------------------------------------
(* Type correctness *)

LEMMA ReleaseType ==
  ASSUME TypeOK, NEW o \in Owners, NEW l \in Listeners,
         NEW socks \in [Listeners -> SockStates], NEW hs \in [Listeners -> SUBSET Owners],
         Release(o, l, users[l] - 1, socks, hs)
  PROVE  /\ registry' \in Listeners \cup {NoListener}
         /\ sock' \in [Listeners -> SockStates]
         /\ users' \in [Listeners -> Nat]
         /\ closing' \in [Listeners -> BOOLEAN]
         /\ handlers' \in [Listeners -> SUBSET Owners]
         /\ phase' \in [Owners -> Phases]
         /\ at' \in [Owners -> Listeners \cup {NoListener}]
         /\ \A p \in Owners : at'[p] = NoListener <=> phase'[p] = "idle"
  <1>1. Shutdown(socks[l]) \in SockStates
    BY DEF Shutdown, SockStates
  <1>2. users[l] - 1 \in Nat
    BY DEF TypeOK, Release
  <1>3. /\ phase' \in [Owners -> Phases]
        /\ at' \in [Owners -> Listeners \cup {NoListener}]
        /\ \A p \in Owners : at'[p] = NoListener <=> phase'[p] = "idle"
    BY ListenersAssumption DEF TypeOK, Release, Go, Phases
  <1>4. users' \in [Listeners -> Nat] /\ closing' \in [Listeners -> BOOLEAN]
    BY <1>2 DEF TypeOK, Release
  <1>5. sock' \in [Listeners -> SockStates]
    BY <1>1 DEF TypeOK, Release
  <1>6. handlers' \in [Listeners -> SUBSET Owners]
    BY DEF TypeOK, Release
  <1>7. registry' \in Listeners \cup {NoListener}
    BY DEF TypeOK, Release, Without
  <1>8. QED
    BY <1>3, <1>4, <1>5, <1>6, <1>7

LEMMA AcquireType ==
  ASSUME TypeOK, NEW o \in Owners, Acquire(o)
  PROVE  /\ registry' \in Listeners \cup {NoListener}
         /\ sock' \in [Listeners -> SockStates]
         /\ users' \in [Listeners -> Nat]
         /\ closing' \in [Listeners -> BOOLEAN]
         /\ handlers' \in [Listeners -> SUBSET Owners]
         /\ phase' \in [Owners -> Phases]
         /\ at' \in [Owners -> Listeners \cup {NoListener}]
         /\ \A p \in Owners : at'[p] = NoListener <=> phase'[p] = "idle"
  <1>1. CASE /\ registry # NoListener
              /\ closing[registry]
    BY <1>1 DEF TypeOK, Acquire, Go, Phases
  <1>2. CASE /\ registry # NoListener
              /\ ~closing[registry]
    BY <1>2 DEF TypeOK, Acquire, Attach, Go, Phases
  <1>3. CASE registry = NoListener
    <2>1. PICK l \in Listeners :
            \/ /\ registry' = l
               /\ sock' = [sock EXCEPT ![l] = "open"]
               /\ users' = [users EXCEPT ![l] = 1]
               /\ closing' = [closing EXCEPT ![l] = FALSE]
               /\ handlers' = [handlers EXCEPT ![l] = {}]
               /\ Go(o, "opening", l)
            \/ /\ Go(o, "idle", NoListener)
               /\ UNCHANGED <<registry, sock, users, closing, handlers>>
      BY <1>3, Zenon DEF Acquire
    <2>2. CASE Go(o, "idle", NoListener) /\ UNCHANGED <<registry, sock, users, closing, handlers>>
      BY <2>2 DEF TypeOK, Go, Phases
    <2>3. CASE ~(Go(o, "idle", NoListener) /\ UNCHANGED <<registry, sock, users, closing, handlers>>)
      <3>1. sock' \in [Listeners -> SockStates]
        BY <2>1, <2>3 DEF TypeOK, SockStates
      <3>2. users' = [users EXCEPT ![l] = 1] /\ closing' = [closing EXCEPT ![l] = FALSE]
        BY <2>1, <2>3
      <3>3. users' \in [Listeners -> Nat]
        BY <3>2 DEF TypeOK
      <3>4. closing' \in [Listeners -> BOOLEAN]
        BY <3>2, Zenon DEF TypeOK
      <3>5. QED
        BY <2>1, <2>3, <3>1, <3>3, <3>4, ListenersAssumption DEF TypeOK, Go, Phases
    <2>4. QED
      BY <2>2, <2>3
  <1>4. QED
    BY <1>1, <1>2, <1>3 DEF TypeOK

LEMMA TypeStep == TypeOK /\ [Next]_vars => TypeOK'
  <1> SUFFICES ASSUME TypeOK, [Next]_vars PROVE TypeOK'
    OBVIOUS
  <1> DEFINE Leaves(o, socks, hs) == Release(o, at[o], users[at[o]] - 1, socks, hs)
  <1>1. ASSUME NEW o \in Owners, Start(o) \/ Reacquire(o)
        PROVE  TypeOK'
    BY <1>1, AcquireType DEF Start, Reacquire, TypeOK
  <1>2. ASSUME NEW o \in Owners, phase[o] # "idle",
               NEW socks \in [Listeners -> SockStates],
               NEW hs \in [Listeners -> SUBSET Owners],
               Leaves(o, socks, hs), shut' \subseteq Clients, closeWaiting' \subseteq Clients
        PROVE  TypeOK'
    BY <1>2, ReleaseType DEF TypeOK
  <1>3. ASSUME NEW o \in Owners, Enter(o) PROVE TypeOK'
    <2>1. CASE Leaves(o, sock, handlers)
      BY <1>2, <1>3, <2>1 DEF Enter, TypeOK
    <2>2. CASE ~Leaves(o, sock, handlers)
      BY <1>3, <2>2 DEF Enter, TypeOK, Attach, Go, Phases, SockStates
    <2>3. QED
      BY <2>1, <2>2
  <1>4. ASSUME NEW o \in Owners, OpenDone(o) PROVE TypeOK'
    BY <1>4 DEF OpenDone, TypeOK, Attach, Go, Phases
  <1>5. ASSUME NEW o \in Owners, Resume(o) PROVE TypeOK'
    BY <1>5 DEF Resume, TypeOK, Go, Phases, Without
  <1>6. ASSUME NEW o \in Owners, CancelWaiting(o) PROVE TypeOK'
    BY <1>6 DEF CancelWaiting, TypeOK, Go, Phases
  <1>7. ASSUME NEW o \in Owners, CancelQueued(o) PROVE TypeOK'
    BY <1>2, <1>7 DEF CancelQueued, TypeOK
  <1>8. ASSUME NEW o \in Owners, CancelOpening(o) PROVE TypeOK'
    <2>1. [sock EXCEPT ![at[o]] = "closing"] \in [Listeners -> SockStates]
      BY DEF TypeOK, SockStates
    <2>2. QED
      BY <1>2, <1>8, <2>1 DEF CancelOpening, TypeOK
  <1>9. ASSUME NEW o \in Owners, Detach(o),
               shut' \subseteq Clients, closeWaiting' \subseteq Clients
        PROVE  TypeOK'
    <2>1. [handlers EXCEPT ![at[o]] = @ \ {o}] \in [Listeners -> SUBSET Owners]
      BY DEF TypeOK
    <2>2. QED
      BY <1>2, <1>9, <2>1 DEF Detach, TypeOK
  <1>10. ASSUME NEW c \in Clients, Close(c) PROVE TypeOK'
    <2>1. c \in Owners
      BY DEF Owners
    <2>2. CASE Detach(c)
      BY <1>9, <1>10, <2>1, <2>2 DEF Close, TypeOK
    <2>3. CASE ~Detach(c)
      BY <1>10, <2>3 DEF Close, TypeOK
    <2>4. QED
      BY <2>2, <2>3
  <1>11. ASSUME NEW c \in Clients, CloseProceeds(c) PROVE TypeOK'
    <2>1. c \in Owners
      BY DEF Owners
    <2>2. QED
      BY <1>9, <1>11, <2>1 DEF CloseProceeds, TypeOK
  <1>12. ASSUME NEW c \in Clients, CancelClose(c) \/ Renew(c) PROVE TypeOK'
    BY <1>12 DEF CancelClose, Renew, TypeOK
  <1>13. ASSUME NEW f \in Finders, FinderEnd(f) PROVE TypeOK'
    <2>1. f \in Owners
      BY DEF Owners
    <2>2. QED
      BY <1>9, <1>13, <2>1 DEF FinderEnd, TypeOK
  <1>14. ASSUME NEW l \in Listeners, ConnectionLost(l) PROVE TypeOK'
    BY <1>14 DEF ConnectionLost, TypeOK, SockStates, Without
  <1>15. CASE UNCHANGED vars
    BY <1>15 DEF vars, TypeOK
  <1>16. QED
    BY <1>1, <1>3, <1>4, <1>5, <1>6, <1>7, <1>8, <1>10, <1>11, <1>12, <1>13, <1>14,
       <1>15 DEF Next, OwnerStep, ClientStep

\* The state keeps its types, whatever is cancelled and whenever a bind fails.
THEOREM TypeCorrect == Spec => []TypeOK
  <1>1. Init => TypeOK
    BY DEF Init, TypeOK, SockStates, Phases
  <1>2. QED
    BY <1>1, TypeStep, PTL DEF Spec

-------------------------------------------------------------------------------
(* The inductive invariant *)

\* What holds when o leaves and somebody else stays.
LEMMA ReleaseSome ==
  ASSUME Inv, NEW o \in Owners, NEW l \in Listeners, o \in Counted(l),
         users[l] - 1 > 0,
         users' = [users EXCEPT ![l] = users[l] - 1],
         sock' = sock, closing' = closing, registry' = registry,
         handlers' = [handlers EXCEPT ![l] = @ \ {o}],
         Go(o, "idle", NoListener), TypeOK'
  PROVE  Inv'
  <1>1. \A k \in Listeners : In(k, "attached")' = In(k, "attached") \ {o}
    BY DEF Inv, TypeOK, Go, In
  <1>2. \A k \in Listeners : Counted(k)' = Counted(k) \ {o}
    BY DEF Inv, TypeOK, Go, Counted, Holding
  <1>3. ListenerInv'
    BY DEF Inv, ListenerInv
  <1>4. HandlerInv'
    <2> SUFFICES ASSUME NEW k \in Listeners PROVE handlers'[k] = In(k, "attached")'
      BY DEF HandlerInv
    <2>1. handlers[k] = In(k, "attached") /\ In(k, "attached")' = In(k, "attached") \ {o}
      BY <1>1 DEF Inv, HandlerInv
    <2>2. CASE k = l
      BY <2>1, <2>2 DEF Inv, TypeOK
    <2>3. CASE k # l
      <3>1. o \notin In(k, "attached") /\ handlers'[k] = handlers[k]
        BY <2>3 DEF In, Counted, Inv, TypeOK
      <3>2. QED
        BY <2>1, <3>1
    <2>4. QED
      BY <2>2, <2>3
  <1>5. OwnerInv' /\ OpenerInv'
    BY DEF Inv, TypeOK, OwnerInv, OpenerInv, Go, Holding
  <1>6. UsersCounted'
    <2> SUFFICES ASSUME NEW k \in Listeners PROVE users'[k] = Cardinality(Counted(k)')
      BY DEF UsersCounted
    <2>1. Cardinality(Counted(k) \ {o})
            = IF o \in Counted(k) THEN Cardinality(Counted(k)) - 1 ELSE Cardinality(Counted(k))
      BY CountedFinite, FS_RemoveElement
    <2>2. o \in Counted(k) <=> k = l
      BY DEF Counted
    <2>3. QED
      BY <1>2, <2>1, <2>2 DEF Inv, TypeOK, UsersCounted
  <1>7. QED
    BY <1>3, <1>4, <1>5, <1>6 DEF Inv

\* What holds when the last user leaves: the listener is going away or gone.
LEMMA ReleaseLast ==
  ASSUME Inv, NEW o \in Owners, NEW l \in Listeners, o \in Counted(l),
         users[l] - 1 = 0,
         users' = [users EXCEPT ![l] = 0],
         closing' = [closing EXCEPT ![l] = TRUE],
         NEW s \in {"closing", "closed"},
         sock' = [sock EXCEPT ![l] = s],
         registry' = IF s = "closed" THEN Without(l) ELSE registry,
         handlers' = [handlers EXCEPT ![l] = {}],
         \/ s = "closing" /\ Go(o, "releasing", l)
         \/ s = "closed" /\ Go(o, "idle", NoListener),
         TypeOK'
  PROVE  Inv'
  <1>0. Counted(l) = {o}
    BY LastUser DEF Inv, TypeOK
  <1>1. \A k \in Listeners : In(k, "attached")' = In(k, "attached") \ {o}
    BY DEF Inv, TypeOK, Go, In
  <1>2. \A k \in Listeners : Counted(k)' = Counted(k) \ {o}
    BY DEF Inv, TypeOK, Go, Counted, Holding
  <1>3. ListenerInv'
    <2>1. sock[l] # "closed" /\ registry = l
      BY DEF Inv, ListenerInv, OwnerInv, Counted
    <2>2. QED
      BY <2>1, ListenersAssumption DEF Inv, TypeOK, ListenerInv, Without
  <1>4. HandlerInv'
    <2> SUFFICES ASSUME NEW k \in Listeners PROVE handlers'[k] = In(k, "attached")'
      BY DEF HandlerInv
    <2>1. handlers[k] = In(k, "attached") /\ In(k, "attached")' = In(k, "attached") \ {o}
      BY <1>1 DEF Inv, HandlerInv
    <2>2. CASE k = l
      <3>1. In(l, "attached") \subseteq {o}
        BY <1>0 DEF In, Counted, Holding
      <3>2. QED
        BY <2>1, <2>2, <3>1 DEF Inv, TypeOK
    <2>3. CASE k # l
      <3>1. o \notin In(k, "attached") /\ handlers'[k] = handlers[k]
        BY <2>3 DEF In, Counted, Inv, TypeOK
      <3>2. QED
        BY <2>1, <3>1
    <2>4. QED
      BY <2>2, <2>3
  <1>5. OwnerInv' /\ OpenerInv'
    <2>1. \A p \in Owners : p # o /\ phase[p] \in Holding => at[p] # l
      BY <1>0 DEF Counted
    <2>2. \A p \in Owners : p # o => phase'[p] = phase[p] /\ at'[p] = at[p]
      BY DEF Inv, TypeOK, Go
    <2>3. phase'[o] \in {"releasing", "idle"}
      BY DEF Inv, TypeOK, Go
    <2>4. \A p \in Owners : phase'[p] \in Holding =>
            /\ p # o
            /\ at'[p] = at[p]
            /\ phase'[p] = phase[p]
            /\ at[p] \in Listeners \ {l}
      BY <2>1, <2>2, <2>3 DEF Inv, TypeOK, Holding
    <2>5. OwnerInv'
      BY <2>4 DEF Inv, TypeOK, OwnerInv, Holding
    <2>6. OpenerInv'
      BY <2>4 DEF Inv, OpenerInv, Holding
    <2>7. QED
      BY <2>5, <2>6
  <1>6. UsersCounted'
    <2> SUFFICES ASSUME NEW k \in Listeners PROVE users'[k] = Cardinality(Counted(k)')
      BY DEF UsersCounted
    <2>1. CASE k = l
      <3>1. Counted(k)' = {}
        BY <1>0, <1>2, <2>1
      <3>2. QED
        BY <2>1, <3>1, FS_EmptySet DEF Inv, TypeOK
    <2>2. CASE k # l
      <3>1. Counted(k)' = Counted(k) /\ users'[k] = users[k]
        BY <1>2, <2>2 DEF Counted, Inv, TypeOK
      <3>2. QED
        BY <3>1 DEF Inv, UsersCounted
    <2>3. QED
      BY <2>1, <2>2
  <1>7. QED
    BY <1>3, <1>4, <1>5, <1>6 DEF Inv

\* release() by an owner that holds the listener, its handler already discarded.
LEMMA ReleaseInv ==
  ASSUME Inv, NEW o \in Owners, phase[o] \in Holding, TypeOK',
         Release(o, at[o], users[at[o]] - 1, sock, [handlers EXCEPT ![at[o]] = @ \ {o}])
  PROVE  Inv'
  <1> DEFINE l == at[o]
  <1>1. l \in Listeners /\ o \in Counted(l)
    BY DEF Inv, TypeOK, Counted, Holding
  <1>2. sock[l] \in {"unbound", "open"}
    BY <1>1 DEF Inv, TypeOK, OwnerInv, ListenerInv, SockStates
  <1>3. CASE users[l] - 1 > 0
    <2>1. /\ users' = [users EXCEPT ![l] = users[l] - 1]
          /\ sock' = sock
          /\ closing' = closing
          /\ registry' = registry
          /\ handlers' = [handlers EXCEPT ![l] = @ \ {o}]
          /\ Go(o, "idle", NoListener)
      BY <1>3 DEF Release
    <2>2. QED
      BY <1>1, <1>3, <2>1, ReleaseSome
  <1>4. CASE ~(users[l] - 1 > 0)
    <2>1. /\ users[l] - 1 = 0
          /\ users' = [users EXCEPT ![l] = 0]
          /\ closing' = [closing EXCEPT ![l] = TRUE]
          /\ sock' = [sock EXCEPT ![l] = Shutdown(sock[l])]
      BY <1>4 DEF Release
    <2>2. CASE Shutdown(sock[l]) = "closing"
      <3>1. handlers' = [handlers EXCEPT ![l] = {}]
        <4>1. handlers[l] \subseteq {o}
          BY <1>1, <2>1, LastUser DEF Inv, HandlerInv, In, Counted, Holding, TypeOK
        <4>2. handlers' = [handlers EXCEPT ![l] = @ \ {o}]
          BY <1>4, <2>2 DEF Release
        <4>3. QED
          BY <1>1, <4>1, <4>2 DEF Inv, TypeOK
      <3>2. registry' = registry /\ Go(o, "releasing", l)
        BY <1>4, <2>2 DEF Release
      <3>3. QED
        BY <1>1, <2>1, <2>2, <3>1, <3>2, ReleaseLast
    <2>3. CASE Shutdown(sock[l]) = "closed"
      <3>1. handlers' = [handlers EXCEPT ![l] = {}]
        <4>1. handlers' = [[handlers EXCEPT ![l] = @ \ {o}] EXCEPT ![l] = {}]
          BY <1>4, <2>3 DEF Release
        <4>2. QED
          BY <4>1 DEF Inv, TypeOK
      <3>2. registry' = Without(l) /\ Go(o, "idle", NoListener)
        BY <1>4, <2>3 DEF Release
      <3>3. QED
        BY <1>1, <2>1, <2>3, <3>1, <3>2, ReleaseLast
    <2>4. QED
      BY <1>2, <2>2, <2>3 DEF Shutdown
  <1>5. QED
    BY <1>3, <1>4

\* An owner that has no handler has none to discard.
LEMMA NothingToDiscard ==
  ASSUME Inv, NEW o \in Owners, phase[o] # "attached"
  PROVE  handlers = [handlers EXCEPT ![at[o]] = @ \ {o}]
  BY DEF Inv, TypeOK, HandlerInv, In

\* The opener that is cancelled alone closes its socket.
LEMMA CancelOpeningInv ==
  ASSUME Guarded, Inv, NEW o \in Owners, CancelOpening(o), TypeOK'
  PROVE  Inv'
  <1> DEFINE l == at[o]
  <1>1. l \in Listeners /\ o \in Counted(l) /\ sock[l] = "open"
    BY DEF Inv, TypeOK, Counted, Holding, CancelOpening, OwnerInv
  <1>2. Counted(l) = {o}
    BY <1>1 DEF Counted, CancelOpening, Guarded, In, Inv, OpenerInv, Holding
  <1>3. users[l] - 1 = 0
    <2>1. Cardinality({o}) = 1
      BY FS_Singleton, Zenon
    <2>2. QED
      BY <1>1, <1>2, <2>1 DEF Inv, UsersCounted
  <1>4. [sock EXCEPT ![l] = "closing"][l] = "closing"
    BY <1>1 DEF Inv, TypeOK
  <1>5. /\ users' = [users EXCEPT ![l] = 0]
        /\ closing' = [closing EXCEPT ![l] = TRUE]
        /\ sock' = [[sock EXCEPT ![l] = "closing"] EXCEPT ![l] = "closing"]
        /\ handlers' = handlers
        /\ registry' = registry
        /\ Go(o, "releasing", l)
    <2>1. Shutdown([sock EXCEPT ![l] = "closing"][l]) = "closing"
      BY <1>4 DEF Shutdown
    <2>2. Release(o, l, 0, [sock EXCEPT ![l] = "closing"], handlers)
      BY <1>3 DEF CancelOpening
    <2>3. QED
      BY <2>1, <2>2 DEF Release
  <1>6. sock' = [sock EXCEPT ![l] = "closing"]
    BY <1>5 DEF Inv, TypeOK
  <1>7. handlers' = [handlers EXCEPT ![l] = {}]
    <2>1. handlers[l] = {}
      BY <1>1, <1>2 DEF CancelOpening, Inv, HandlerInv, In, Counted, Holding
    <2>2. QED
      BY <1>1, <1>5, <2>1 DEF Inv, TypeOK
  <1>8. QED
    BY <1>1, <1>3, <1>5, <1>6, <1>7, ReleaseLast

\* An owner outside every listener that stays outside, or waits for a dying one.
LEMMA OutsideInv ==
  ASSUME Inv, NEW o \in Owners, phase[o] \notin Holding,
         NEW p \in {"idle", "waiting"}, NEW k, Go(o, p, k),
         UNCHANGED <<registry, sock, users, closing, handlers>>, TypeOK'
  PROVE  Inv'
  <1>1. \A l \in Listeners : In(l, "attached")' = In(l, "attached") /\ Counted(l)' = Counted(l)
    BY DEF Inv, TypeOK, Go, In, Counted, Holding
  <1>2. ListenerInv' /\ HandlerInv' /\ UsersCounted'
    BY <1>1 DEF Inv, ListenerInv, HandlerInv, UsersCounted
  <1>3. OwnerInv' /\ OpenerInv'
    BY DEF Inv, TypeOK, OwnerInv, OpenerInv, Go, Holding
  <1>4. QED
    BY <1>2, <1>3 DEF Inv

\* A registered listener that is not closing and whose lock is free is open.
LEMMA SharedOpen ==
  ASSUME Inv, NEW l \in Listeners, ~closing[l], In(l, "opening") = {}, In(l, "queued") = {}
  PROVE  sock[l] = "open"
  <1>1. Counted(l) # {}
    <2>1. Cardinality(Counted(l)) # 0
      BY DEF Inv, ListenerInv, UsersCounted
    <2>2. QED
      BY <2>1, FS_EmptySet
  <1>2. PICK p \in Owners : at[p] = l /\ phase[p] = "attached"
    BY <1>1 DEF Counted, Holding, In
  <1>3. QED
    BY <1>2 DEF Inv, OwnerInv

LEMMA CardinalityAdd ==
  ASSUME NEW l, NEW o, o \notin Counted(l)
  PROVE  Cardinality(Counted(l) \cup {o}) = Cardinality(Counted(l)) + 1
  BY CountedFinite, FS_AddElement

\* Joining the registered listener, in the queue of its lock or directly.
LEMMA JoinInv ==
  ASSUME Inv, NEW o \in Owners, phase[o] \notin Holding, NEW l \in Listeners,
         registry = l, ~closing[l], NEW p \in {"queued", "attached"}, Go(o, p, l),
         users' = [users EXCEPT ![l] = @ + 1],
         p = "attached" => ~OpenLockBusy(l),
         handlers' = IF p = "attached" THEN [handlers EXCEPT ![l] = @ \cup {o}] ELSE handlers,
         UNCHANGED <<registry, sock, closing>>, TypeOK'
  PROVE  Inv'
  <1>1. \A k \in Listeners :
          /\ In(k, "attached")' = IF k = l /\ p = "attached" THEN In(k, "attached") \cup {o}
                                                            ELSE In(k, "attached")
          /\ Counted(k)' = IF k = l THEN Counted(k) \cup {o} ELSE Counted(k)
    BY DEF Inv, TypeOK, Go, In, Counted, Holding
  <1>2. ListenerInv'
    BY DEF Inv, TypeOK, ListenerInv
  <1>3. HandlerInv'
    BY <1>1 DEF Inv, TypeOK, HandlerInv
  <1>4. UsersCounted'
    <2>1. o \notin Counted(l)
      BY DEF Counted
    <2>2. QED
      BY <1>1, <2>1, CardinalityAdd DEF Inv, TypeOK, UsersCounted
  <1>5. p = "attached" => sock[l] = "open" /\ In(l, "opening") = {}
    BY SharedOpen DEF OpenLockBusy
  <1>6. OwnerInv'
    BY <1>5 DEF Inv, TypeOK, OwnerInv, Go, Holding
  <1>7. OpenerInv'
    BY <1>5 DEF Inv, TypeOK, OpenerInv, Go, In
  <1>8. QED
    BY <1>2, <1>3, <1>4, <1>6, <1>7 DEF Inv

\* A new listener whose socket its creator binds.
LEMMA FreshInv ==
  ASSUME Inv, NEW o \in Owners, phase[o] \notin Holding, NEW l \in Listeners,
         registry = NoListener, Free(l), Go(o, "opening", l),
         registry' = l,
         sock' = [sock EXCEPT ![l] = "open"],
         users' = [users EXCEPT ![l] = 1],
         closing' = [closing EXCEPT ![l] = FALSE],
         handlers' = [handlers EXCEPT ![l] = {}], TypeOK'
  PROVE  Inv'
  <1>1. \A k \in Listeners :
          /\ In(k, "attached")' = In(k, "attached")
          /\ Counted(k)' = IF k = l THEN {o} ELSE Counted(k)
    BY DEF Inv, TypeOK, Go, In, Counted, Holding, Free
  <1>2. In(l, "attached") = {}
    BY DEF In, Free
  <1>3. ListenerInv'
    BY ListenersAssumption DEF Inv, TypeOK, ListenerInv
  <1>4. HandlerInv'
    BY <1>1, <1>2 DEF Inv, TypeOK, HandlerInv
  <1>5. UsersCounted'
    <2>1. Cardinality({o}) = 1
      BY FS_Singleton, Zenon
    <2>2. QED
      BY <1>1, <2>1 DEF Inv, TypeOK, UsersCounted
  <1>6. OwnerInv'
    BY DEF Inv, TypeOK, OwnerInv, Go, Holding, Free
  <1>7. OpenerInv'
    BY DEF Inv, TypeOK, OpenerInv, Go, Free
  <1>8. QED
    BY <1>3, <1>4, <1>5, <1>6, <1>7 DEF Inv

LEMMA AcquireInv ==
  ASSUME Inv, NEW o \in Owners, phase[o] \notin Holding, Acquire(o), TypeOK'
  PROVE  Inv'
  <1>1. CASE registry # NoListener /\ closing[registry]
    BY <1>1, OutsideInv DEF Acquire
  <1>2. CASE registry # NoListener /\ ~closing[registry]
    <2>1. registry \in Listeners
      BY <1>2 DEF Inv, TypeOK
    <2>2. CASE OpenLockBusy(registry)
      <3>1. /\ users' = [users EXCEPT ![registry] = @ + 1]
            /\ Go(o, "queued", registry)
            /\ UNCHANGED <<registry, sock, closing, handlers>>
        BY <1>2, <2>2 DEF Acquire
      <3>2. QED
        BY <1>2, <2>1, <3>1, JoinInv
    <2>3. CASE ~OpenLockBusy(registry)
      <3>1. /\ users' = [users EXCEPT ![registry] = @ + 1]
            /\ Go(o, "attached", registry)
            /\ handlers' = [handlers EXCEPT ![registry] = @ \cup {o}]
            /\ UNCHANGED <<registry, sock, closing>>
        BY <1>2, <2>3 DEF Acquire, Attach
      <3>2. QED
        BY <1>2, <2>1, <2>3, <3>1, JoinInv
    <2>4. QED
      BY <2>2, <2>3
  <1>3. CASE registry = NoListener
    <2>1. PICK l \in Listeners :
            /\ Free(l)
            /\ \/ /\ registry' = l
                  /\ sock' = [sock EXCEPT ![l] = "open"]
                  /\ users' = [users EXCEPT ![l] = 1]
                  /\ closing' = [closing EXCEPT ![l] = FALSE]
                  /\ handlers' = [handlers EXCEPT ![l] = {}]
                  /\ Go(o, "opening", l)
               \/ /\ Go(o, "idle", NoListener)
                  /\ UNCHANGED <<registry, sock, users, closing, handlers>>
      BY <1>3, Zenon DEF Acquire
    <2>2. CASE Go(o, "idle", NoListener) /\ UNCHANGED <<registry, sock, users, closing, handlers>>
      BY <2>2, OutsideInv
    <2>3. CASE ~(Go(o, "idle", NoListener) /\ UNCHANGED <<registry, sock, users, closing, handlers>>)
      BY <1>3, <2>1, <2>3, FreshInv
    <2>4. QED
      BY <2>2, <2>3
  <1>4. QED
    BY <1>1, <1>2, <1>3

\* Attaching to a listener the owner already counts on.
LEMMA AttachInv ==
  ASSUME Inv, NEW o \in Owners, phase[o] \in {"queued", "opening"}, sock[at[o]] = "open",
         \A p \in In(at[o], "opening") : p = o, Attach(o, at[o]),
         UNCHANGED <<registry, sock, users, closing>>, TypeOK'
  PROVE  Inv'
  <1> DEFINE l == at[o]
  <1>1. \A k \in Listeners :
          /\ In(k, "attached")' = IF k = l THEN In(k, "attached") \cup {o} ELSE In(k, "attached")
          /\ Counted(k)' = Counted(k)
    BY DEF Inv, TypeOK, Attach, Go, In, Counted, Holding
  <1>2. handlers' = [handlers EXCEPT ![l] = @ \cup {o}] /\ Go(o, "attached", l) /\ l \in Listeners
    BY DEF Attach, Inv, TypeOK
  <1>3. ListenerInv' /\ UsersCounted'
    BY <1>1 DEF Inv, ListenerInv, UsersCounted
  <1>4. HandlerInv'
    BY <1>1, <1>2 DEF Inv, TypeOK, HandlerInv
  <1>5. OwnerInv'
    BY <1>2 DEF Inv, TypeOK, OwnerInv, Go, Holding
  <1>6. OpenerInv'
    BY <1>2 DEF Inv, TypeOK, OpenerInv, Go, In
  <1>7. QED
    BY <1>3, <1>4, <1>5, <1>6 DEF Inv

\* The queued owner that binds after the one before it failed.
LEMMA BindInv ==
  ASSUME Inv, NEW o \in Owners, phase[o] = "queued", sock[at[o]] = "unbound",
         sock' = [sock EXCEPT ![at[o]] = "open"], Go(o, "opening", at[o]),
         UNCHANGED <<registry, users, closing, handlers>>, TypeOK'
  PROVE  Inv'
  <1> DEFINE l == at[o]
  <1>1. \A k \in Listeners :
          In(k, "attached")' = In(k, "attached") /\ Counted(k)' = Counted(k)
    BY DEF Inv, TypeOK, Go, In, Counted, Holding
  <1>2. l \in Listeners
    BY DEF Inv, TypeOK
  <1>3. ListenerInv' /\ UsersCounted' /\ HandlerInv'
    BY <1>1, <1>2 DEF Inv, TypeOK, ListenerInv, UsersCounted, HandlerInv
  <1>4. OwnerInv'
    BY <1>2 DEF Inv, TypeOK, OwnerInv, Go, Holding
  <1>5. OpenerInv'
    BY <1>2 DEF Inv, TypeOK, OwnerInv, OpenerInv, Go
  <1>6. QED
    BY <1>3, <1>4, <1>5 DEF Inv

LEMMA EnterInv ==
  ASSUME Inv, NEW o \in Owners, Enter(o), TypeOK'
  PROVE  Inv'
  <1>1. CASE /\ sock[at[o]] # "unbound"
              /\ Attach(o, at[o])
              /\ UNCHANGED <<registry, sock, users, closing>>
    <2>1. sock[at[o]] = "open"
      BY <1>1 DEF Enter, Inv, TypeOK, OwnerInv, ListenerInv, Holding, SockStates
    <2>2. QED
      BY <1>1, <2>1, AttachInv DEF Enter
  <1>2. CASE /\ sock[at[o]] = "unbound"
              /\ sock' = [sock EXCEPT ![at[o]] = "open"]
              /\ Go(o, "opening", at[o])
              /\ UNCHANGED <<registry, users, closing, handlers>>
    BY <1>2, BindInv DEF Enter
  <1>3. CASE Release(o, at[o], users[at[o]] - 1, sock, handlers)
    BY <1>3, ReleaseInv, NothingToDiscard DEF Enter, Holding
  <1>4. QED
    BY <1>1, <1>2, <1>3 DEF Enter

\* connection_lost, and the tail of a release, touch a listener nobody holds.
LEMMA DeadInv ==
  ASSUME Inv, NEW l \in Listeners, sock[l] \in {"closing", "closed"},
         sock' = [sock EXCEPT ![l] = "closed"], registry' = Without(l),
         handlers' = [handlers EXCEPT ![l] = {}],
         UNCHANGED <<users, closing>>,
         \A o \in Owners : phase[o] \in Holding \/ phase'[o] \in Holding
                             => phase'[o] = phase[o] /\ at'[o] = at[o],
         TypeOK'
  PROVE  Inv'
  <1>1. \A k \in Listeners :
          In(k, "attached")' = In(k, "attached") /\ Counted(k)' = Counted(k)
    BY DEF In, Counted, Holding
  <1>2. closing[l] /\ In(l, "attached") = {}
    BY DEF Inv, ListenerInv, OwnerInv, In, Holding
  <1>3. ListenerInv'
    BY <1>2, ListenersAssumption DEF Inv, TypeOK, ListenerInv, Without
  <1>4. HandlerInv' /\ UsersCounted'
    BY <1>1, <1>2 DEF Inv, TypeOK, HandlerInv, UsersCounted
  <1>5. OwnerInv'
    <2> SUFFICES ASSUME NEW o \in Owners, phase'[o] \in Holding
                 PROVE  /\ ~closing'[at'[o]]
                        /\ phase'[o] \in {"opening", "attached"} => sock'[at'[o]] = "open"
      BY DEF OwnerInv, Holding
    <2>1. phase'[o] = phase[o] /\ at'[o] = at[o]
      OBVIOUS
    <2>2. ~closing[at[o]] /\ at[o] # l
      BY <1>2, <2>1 DEF Inv, OwnerInv
    <2>3. QED
      BY <2>1, <2>2 DEF Inv, TypeOK, OwnerInv
  <1>6. OpenerInv'
    BY DEF Inv, OpenerInv, Holding
  <1>7. QED
    BY <1>3, <1>4, <1>5, <1>6 DEF Inv

LEMMA InvStep ==
  ASSUME Guarded, Inv, [Next]_vars
  PROVE  Inv'
  <1>0. TypeOK'
    BY TypeStep DEF Inv
  <1>1. ASSUME NEW o \in Owners, Start(o) \/ Reacquire(o) PROVE Inv'
    BY <1>0, <1>1, AcquireInv DEF Start, Reacquire, Holding
  <1>2. ASSUME NEW o \in Owners, Enter(o) PROVE Inv'
    BY <1>0, <1>2, EnterInv
  <1>3. ASSUME NEW o \in Owners, OpenDone(o) PROVE Inv'
    <2>1. sock[at[o]] = "open" /\ \A p \in In(at[o], "opening") : p = o
      BY <1>3 DEF OpenDone, Inv, OwnerInv, OpenerInv, In
    <2>2. QED
      BY <1>0, <1>3, <2>1, AttachInv DEF OpenDone
  <1>4. ASSUME NEW o \in Owners, Resume(o) PROVE Inv'
    <2>1. at[o] \in Listeners
      BY <1>4 DEF Resume, Inv, TypeOK
    <2>2. sock' = [sock EXCEPT ![at[o]] = "closed"]
      BY <1>4 DEF Resume, Inv, TypeOK
    <2>3. \A p \in Owners : phase[p] \in Holding \/ phase'[p] \in Holding
                              => phase'[p] = phase[p] /\ at'[p] = at[p]
      BY <1>4 DEF Resume, Go, Inv, TypeOK, Holding
    <2>4. QED
      BY <1>0, <1>4, <2>1, <2>2, <2>3, DeadInv DEF Resume
  <1>5. ASSUME NEW o \in Owners, CancelWaiting(o) PROVE Inv'
    BY <1>0, <1>5, OutsideInv DEF CancelWaiting, Holding
  <1>6. ASSUME NEW o \in Owners, CancelQueued(o) PROVE Inv'
    BY <1>0, <1>6, ReleaseInv, NothingToDiscard DEF CancelQueued, Holding
  <1>7. ASSUME NEW o \in Owners, CancelOpening(o) PROVE Inv'
    BY <1>0, <1>7, CancelOpeningInv
  <1>8. ASSUME UNCHANGED <<registry, sock, users, closing, handlers, phase, at>> PROVE Inv'
    BY <1>0, <1>8 DEF Inv, ListenerInv, HandlerInv, OwnerInv, OpenerInv, UsersCounted,
                      Counted, In
  <1>9. ASSUME NEW o \in Owners, Detach(o) PROVE Inv'
    BY <1>0, <1>8, <1>9, ReleaseInv DEF Detach, Holding
  <1>10. ASSUME NEW c \in Clients, ClientStep(c) PROVE Inv'
    <2>1. c \in Owners
      BY DEF Owners
    <2>2. QED
      BY <1>8, <1>9, <1>10, <2>1 DEF ClientStep, Close, CloseProceeds, CancelClose, Renew
  <1>11. ASSUME NEW f \in Finders, FinderEnd(f) PROVE Inv'
    <2>1. f \in Owners
      BY DEF Owners
    <2>2. QED
      BY <1>9, <1>11, <2>1 DEF FinderEnd
  <1>12. ASSUME NEW l \in Listeners, ConnectionLost(l) PROVE Inv'
    BY <1>0, <1>12, DeadInv DEF ConnectionLost
  <1>13. CASE UNCHANGED vars
    BY <1>8, <1>13 DEF vars
  <1>14. QED
    BY <1>1, <1>2, <1>3, <1>4, <1>5, <1>6, <1>7, <1>10, <1>11, <1>12, <1>13
       DEF Next, OwnerStep

LEMMA InvInit == Init => Inv
  <1> SUFFICES ASSUME Init PROVE Inv
    OBVIOUS
  <1>1. TypeOK
    BY DEF Init, TypeOK, SockStates, Phases
  <1>2. \A l \in Listeners : In(l, "attached") = {} /\ Counted(l) = {}
    BY DEF Init, In, Counted, Holding
  <1>3. ListenerInv /\ HandlerInv /\ OwnerInv /\ OpenerInv
    BY <1>2, ListenersAssumption DEF Init, ListenerInv, HandlerInv, OwnerInv, OpenerInv, Holding
  <1>4. UsersCounted
    BY <1>2, FS_EmptySet DEF Init, UsersCounted
  <1>5. QED
    BY <1>1, <1>3, <1>4 DEF Inv

THEOREM Inductive == Guarded /\ Spec => []Inv
  <1>1. Guarded /\ Inv /\ [Next]_vars => Inv'
    BY InvStep
  <1>2. Guarded => Guarded'
    BY DEF Guarded
  <1>3. QED
    BY InvInit, <1>1, <1>2, PTL DEF Spec

-------------------------------------------------------------------------------
(* The theorems a reader should know of *)

\* _users counts exactly the owners between the increment of acquire and the
\* decrement of release (udp.py:74-86, 120-123).
THEOREM UsersAreCounted == Guarded /\ Spec => []UsersCounted
  <1>1. Inv => UsersCounted
    BY DEF Inv
  <1>2. QED
    BY <1>1, Inductive, PTL

\* The port is never bound twice (the wait for a dying listener, udp.py:68-70).
THEOREM NeverTwoSockets == Guarded /\ Spec => []OneBoundSocket
  <1>1. Inv => OneBoundSocket
    BY DEF Inv, ListenerInv, OneBoundSocket, Bound
  <1>2. QED
    BY <1>1, Inductive, PTL

\* Between the end of its start and its close, an owner hears (udp.py:171-182).
THEOREM HoldersHear == Guarded /\ Spec => []HolderHears
  <1>1. Inv => HolderHears
    BY DEF Inv, TypeOK, ListenerInv, HandlerInv, OwnerInv, HolderHears, In, Holding
  <1>2. QED
    BY <1>1, Inductive, PTL

\* No handler of a closed client or a finished discovery is left behind
\* (udp.py:195, 334).
THEOREM NoHandlerLeft == Guarded /\ Spec => []NoStrayHandler
  <1>1. Inv => NoStrayHandler
    BY DEF Inv, HandlerInv, NoStrayHandler
  <1>2. QED
    BY <1>1, Inductive, PTL

\* Unless its close is cancelled while it waits, a closed client lets go of the
\* listener (udp.py:184-196).
THEOREM ClosedClientsLetGo == Spec => []PatientLetsGo
  <1>1. Init => ShutInv
    BY DEF Init, ShutInv
  <1>2. TypeOK /\ ShutInv /\ [Next]_vars => ShutInv'
    <2> SUFFICES ASSUME TypeOK, ShutInv, [Next]_vars PROVE ShutInv'
      OBVIOUS
    <2> DEFINE Quiet(o) == \A p \in Owners \ {o} : phase'[p] = phase[p]
    <2>1. \A o \in Owners : \A p, k : Go(o, p, k) => Quiet(o) /\ phase'[o] = p
      BY DEF Go, TypeOK
    <2>2. ASSUME NEW o \in Owners, Start(o) PROVE ShutInv'
      BY <2>1, <2>2 DEF Start, Acquire, Attach, ShutInv, TypeOK, Owners
    <2>3. ASSUME NEW o \in Owners, Reacquire(o) PROVE ShutInv'
      BY <2>1, <2>3 DEF Reacquire, Acquire, Attach, ShutInv, TypeOK, Owners, Holding
    <2>4. ASSUME NEW o \in Owners,
                 Enter(o) \/ OpenDone(o) \/ Resume(o) \/ CancelWaiting(o)
                   \/ CancelQueued(o) \/ CancelOpening(o)
          PROVE  ShutInv'
      BY <2>1, <2>4 DEF Enter, OpenDone, Resume, CancelWaiting, CancelQueued, CancelOpening,
                        Release, Attach, ShutInv, TypeOK, Owners, Holding
    <2>5. ASSUME NEW o \in Owners, Detach(o)
          PROVE  Quiet(o) /\ phase'[o] \in {"idle", "releasing"}
      BY <2>1, <2>5 DEF Detach, Release, TypeOK
    <2>6. ASSUME NEW c \in Clients, ClientStep(c) PROVE ShutInv'
      <3>1. c \in Owners
        BY DEF Owners
      <3>2. CASE Detach(c)
        BY <2>5, <2>6, <3>1, <3>2 DEF ClientStep, Close, CloseProceeds, CancelClose, Renew,
                                      ShutInv, TypeOK, Owners, Holding
      <3>3. CASE ~Detach(c)
        BY <2>6, <3>1, <3>3 DEF ClientStep, Close, CloseProceeds, CancelClose, Renew,
                                ShutInv, TypeOK, Owners, Holding
      <3>4. QED
        BY <3>2, <3>3
    <2>7. ASSUME NEW f \in Finders, FinderEnd(f) PROVE ShutInv'
      <3>1. f \in Owners
        BY DEF Owners
      <3>2. QED
        BY <2>5, <2>7, <3>1 DEF FinderEnd, ShutInv, TypeOK, Owners, Holding
    <2>8. ASSUME NEW l \in Listeners, ConnectionLost(l) PROVE ShutInv'
      BY <2>8 DEF ConnectionLost, ShutInv
    <2>9. CASE UNCHANGED vars
      BY <2>9 DEF vars, ShutInv
    <2>10. QED
      BY <2>2, <2>3, <2>4, <2>6, <2>7, <2>8, <2>9 DEF Next, OwnerStep
  <1>3. ShutInv => PatientLetsGo
    BY DEF ShutInv, PatientLetsGo, Holding
  <1>4. QED
    BY <1>1, <1>2, <1>3, TypeCorrect, PTL DEF Spec

-------------------------------------------------------------------------------
(* The listener implements the shared port *)

Attached == {o \in Owners : phase[o] = "attached"}

Hearing == UNION {handlers[l] : l \in {k \in Listeners : sock[k] = "open"}}

LEMMA HearingIsAttached == Inv => Hearing = Attached
  BY DEF Inv, TypeOK, HandlerInv, OwnerInv, In, Hearing, Attached, Holding

\* A release takes at most its own owner's hearing away, and unbinds nothing at once.
LEMMA ReleasePort ==
  ASSUME Inv, NEW o \in Owners, phase[o] \in Holding, NEW hs,
         NEW socks \in {sock, [sock EXCEPT ![at[o]] = "closing"]},
         phase[o] = "opening" \/ socks = sock,
         Release(o, at[o], users[at[o]] - 1, socks, hs)
  PROVE  Attached' = Attached \ {o} /\ Bound' = Bound
  <1>1. Attached' = Attached \ {o}
    BY DEF Inv, TypeOK, Release, Go, Attached
  <1>2. at[o] \in Listeners
    BY DEF Inv, TypeOK, Holding
  <1>3. socks[at[o]] \in {"unbound", "open", "closing"}
    BY <1>2 DEF Inv, TypeOK, ListenerInv, OwnerInv, SockStates
  <1>4. Shutdown(socks[at[o]]) = IF socks[at[o]] = "unbound" THEN "closed" ELSE "closing"
    BY <1>3 DEF Shutdown
  <1>5. sock' \in {socks, [socks EXCEPT ![at[o]] = Shutdown(socks[at[o]])]}
    BY DEF Release
  <1>6. socks \in [Listeners -> SockStates]
    BY DEF Inv, TypeOK, SockStates
  <1>7. \A l \in Listeners : socks[l] \in {"open", "closing"} <=> sock[l] \in {"open", "closing"}
    BY <1>2 DEF Inv, TypeOK, OwnerInv
  <1>8. \A l \in Listeners : sock'[l] \in {"open", "closing"} <=> socks[l] \in {"open", "closing"}
    BY <1>2, <1>3, <1>4, <1>5, <1>6
  <1>9. QED
    BY <1>1, <1>7, <1>8 DEF Bound

\* acquire binds an idle port, or attaches to a bound one, or changes nothing.
LEMMA AcquirePort ==
  ASSUME Inv, NEW o \in Owners, phase[o] \notin Holding, Acquire(o)
  PROVE  \/ Attached' = Attached /\ Bound' = Bound
         \/ Attached' = Attached /\ Bound = {} /\ Bound' # {}
         \/ Attached' = Attached \cup {o} /\ Bound # {} /\ Bound' = Bound
  <1>0. \A p, k : Go(o, p, k) => Attached' = IF p = "attached" THEN Attached \cup {o} ELSE Attached
    BY DEF Inv, TypeOK, Go, Attached, Holding
  <1>1. CASE registry # NoListener
    <2>1. sock' = sock
      BY <1>1 DEF Acquire
    <2>2. \/ Attached' = Attached
          \/ /\ Attached' = Attached \cup {o}
             /\ ~closing[registry]
             /\ ~OpenLockBusy(registry)
      <3>1. CASE closing[registry]
        BY <1>0, <1>1, <3>1 DEF Acquire
      <3>2. CASE ~closing[registry] /\ OpenLockBusy(registry)
        BY <1>0, <1>1, <3>2 DEF Acquire
      <3>3. CASE ~closing[registry] /\ ~OpenLockBusy(registry)
        BY <1>0, <1>1, <3>3 DEF Acquire, Attach
      <3>4. QED
        BY <3>1, <3>2, <3>3
    <2>3. ~closing[registry] /\ ~OpenLockBusy(registry) => registry \in Bound
      BY <1>1, SharedOpen DEF Inv, TypeOK, OpenLockBusy, Bound
    <2>4. Bound' = Bound
      BY <2>1 DEF Bound
    <2>5. QED
      BY <2>2, <2>3, <2>4
  <1>2. CASE registry = NoListener
    <2>1. Bound = {}
      BY <1>2, ListenersAssumption DEF Inv, ListenerInv, Bound
    <2>2. Attached' = Attached
      BY <1>0, <1>2 DEF Acquire
    <2>3. QED
      BY <2>1, <2>2
  <1>3. QED
    BY <1>1, <1>2

\* The initial state is an idle port, and every step is one of the port or none.
THEOREM RefinesPort == Guarded /\ Spec => ImplementsPort
  <1>1. Init => Port!Init
    BY DEF Init, Port!Init, Bound
  <1>2. Inv => Hearing = Attached
    BY HearingIsAttached
  <1>3. ASSUME Guarded, Inv, (Hearing = Attached), (Hearing = Attached)', [Next]_vars
        PROVE  [Port!Next]_(Port!vars)
    <2> DEFINE Stays     == Attached' = Attached /\ (Bound' # {} <=> Bound # {})
               Binds     == Attached' = Attached /\ Bound = {} /\ Bound' # {}
               Unbinds   == Attached' = {} /\ Attached = {} /\ Bound # {} /\ Bound' = {}
               Joins(o)  == Attached' = Attached \cup {o} /\ Bound # {} /\ Bound' # {}
               Leaves(o) == Attached' = Attached \ {o} /\ (Bound' # {} <=> Bound # {})
               Allowed   == \/ Stays \/ Binds \/ Unbinds
                            \/ \E o \in Owners : Joins(o) \/ Leaves(o)
    <2>1. ASSUME NEW o \in Owners, Start(o) \/ Reacquire(o) PROVE Allowed
      BY <1>3, <2>1, AcquirePort DEF Start, Reacquire, Holding
    <2>2. ASSUME NEW o \in Owners, phase[o] \in {"queued", "opening"}, Attach(o, at[o]),
                 sock[at[o]] = "open", sock' = sock
          PROVE  Allowed
      <3>1. Attached' = Attached \cup {o}
        BY <1>3, <2>2 DEF Attach, Go, Inv, TypeOK, Attached
      <3>2. at[o] \in Bound /\ Bound' = Bound
        BY <1>3, <2>2 DEF Inv, TypeOK, Bound
      <3>3. QED
        BY <3>1, <3>2
    <2>3. ASSUME NEW o \in Owners, Enter(o) PROVE Allowed
      <3>1. CASE Attach(o, at[o]) /\ sock[at[o]] # "unbound" /\ UNCHANGED sock
        <4>1. sock[at[o]] = "open"
          BY <1>3, <2>3, <3>1 DEF Enter, Inv, TypeOK, OwnerInv, ListenerInv, Holding, SockStates
        <4>2. QED
          BY <2>2, <2>3, <3>1, <4>1 DEF Enter
      <3>2. CASE /\ sock[at[o]] = "unbound"
                  /\ sock' = [sock EXCEPT ![at[o]] = "open"]
                  /\ Go(o, "opening", at[o])
        <4>1. Attached' = Attached
          BY <1>3, <2>3, <3>2 DEF Enter, Go, Inv, TypeOK, Attached
        <4>2. at[o] \in Bound'
          BY <1>3, <2>3, <3>2 DEF Enter, Inv, TypeOK, Bound
        <4>3. Bound = {}
          BY <1>3, <2>3, <3>2 DEF Enter, Inv, TypeOK, ListenerInv, Bound
        <4>4. QED
          BY <4>1, <4>2, <4>3
      <3>3. CASE Release(o, at[o], users[at[o]] - 1, sock, handlers)
        BY <1>3, <2>3, <3>3, ReleasePort DEF Enter, Holding
      <3>4. QED
        BY <2>3, <3>1, <3>2, <3>3 DEF Enter
    <2>4. ASSUME NEW o \in Owners, OpenDone(o) PROVE Allowed
      BY <1>3, <2>2, <2>4 DEF OpenDone, Inv, OwnerInv
    <2>5. ASSUME NEW o \in Owners, Resume(o) \/ CancelWaiting(o) PROVE Allowed
      BY <1>3, <2>5 DEF Resume, CancelWaiting, Go, Inv, TypeOK, Attached, Bound
    <2>6. ASSUME NEW o \in Owners, CancelQueued(o) PROVE Allowed
      BY <1>3, <2>6, ReleasePort DEF CancelQueued, Holding
    <2>7. ASSUME NEW o \in Owners, CancelOpening(o) PROVE Allowed
      BY <1>3, <2>7, ReleasePort DEF CancelOpening, Holding
    <2>8. ASSUME NEW o \in Owners, Detach(o) PROVE Allowed
      BY <1>3, <2>8, ReleasePort DEF Detach, Holding, Attached, Bound
    <2>9. ASSUME UNCHANGED <<sock, phase>> PROVE Allowed
      BY <2>9 DEF Attached, Bound
    <2>10. ASSUME NEW c \in Clients, ClientStep(c) PROVE Allowed
      BY <2>8, <2>9, <2>10 DEF ClientStep, Close, CloseProceeds, CancelClose, Renew, Owners
    <2>11. ASSUME NEW f \in Finders, FinderEnd(f) PROVE Allowed
      BY <2>8, <2>11 DEF FinderEnd, Owners
    <2>12. ASSUME NEW l \in Listeners, ConnectionLost(l) PROVE Allowed
      <3>1. Attached = {}
        BY <1>3, <2>12 DEF ConnectionLost, Inv, TypeOK, ListenerInv, OwnerInv, Attached, Holding
      <3>2. Attached' = Attached /\ Bound = {l} /\ Bound' = {}
        BY <1>3, <2>12 DEF ConnectionLost, Inv, TypeOK, ListenerInv, Attached, Bound
      <3>3. QED
        BY <3>1, <3>2
    <2> HIDE DEF Allowed
    <2>13. ASSUME UNCHANGED vars PROVE Allowed
      BY <2>9, <2>13 DEF vars
    <2>14. Allowed
      BY <1>3, <2>1, <2>3, <2>4, <2>5, <2>6, <2>7, <2>10, <2>11, <2>12, <2>13 DEF Next, OwnerStep
    <2>15. QED
      BY <1>3, <2>14 DEF Allowed, Hearing, Port!Next, Port!vars, Port!Bind, Port!Unbind, Port!Attach,
                         Port!Detach
  <1>4. Guarded => Guarded'
    BY DEF Guarded
  <1>5. QED
    BY <1>1, <1>2, <1>3, <1>4, Inductive, PTL DEF Spec, ImplementsPort, Port!Spec
===============================================================================
