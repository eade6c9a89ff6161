------------------------------ MODULE UdpListener ------------------------------
(***************************************************************************)
(* The life of the shared UDP listener of udp.py: _UDPListener.acquire and  *)
(* release, the asyncio transport callbacks, ZM1UDPClient.async_start and   *)
(* async_close, and the one-shot discover().  One response port (one key of *)
(* _UDPListener._listeners) and one event loop: code between two awaits is  *)
(* one action, and any await may be cancelled.                              *)
(*                                                                         *)
(* A listener object is an element of Listeners.  An object nobody refers   *)
(* to any more is indistinguishable from one not created yet, so ids are    *)
(* reused: Free(l).                                                         *)
(***************************************************************************)
EXTENDS Naturals, FiniteSets

CONSTANTS
  Clients,              \* ZM1UDPClient objects, one per configured device
  Finders,              \* tasks that call discover()
  Listeners,            \* identities for _UDPListener objects
  NoListener,
  CancelHandOff,        \* an opener may be cancelled while others queue behind it
  Hasty                 \* clients whose async_close may be cancelled while it waits for a start

ASSUME OwnersAssumption ==
  /\ IsFiniteSet(Clients)
  /\ IsFiniteSet(Finders)
  /\ Clients \cap Finders = {}

\* Enough identities for a new listener to find a free one: each owner refers to
\* one at most, the registry to one.
ASSUME ListenersAssumption ==
  /\ NoListener \notin Listeners
  /\ IsFiniteSet(Listeners)
  /\ Cardinality(Listeners) > Cardinality(Clients \cup Finders)

ASSUME CancelAssumption == CancelHandOff \in BOOLEAN /\ Hasty \subseteq Clients

Owners == Clients \cup Finders

VARIABLES
  registry,     \* _UDPListener._listeners[key], or NoListener
  sock,         \* transport and _closed of each listener
  users,        \* _users
  closing,      \* _closing
  handlers,     \* handlers: the owners whose handler is registered
  phase,        \* where each owner is between the awaits of its call
  at,           \* the listener an owner's call or _listener field refers to
  closeWaiting, \* the clients whose async_close waits for _start_lock
  shut          \* the clients whose _closed flag is set

vars == <<registry, sock, users, closing, handlers, phase, at, closeWaiting, shut>>

\* unbound: transport is None.  open: the socket is bound.  closing:
\* transport.close() was called, connection_lost is scheduled.  closed: the
\* future _closed is resolved.
SockStates == {"unbound", "open", "closing", "closed"}

\* waiting: awaits _closed of a listener that is going away.  queued: awaits
\* _open_lock.  opening: awaits create_datagram_endpoint, holding _open_lock.
\* attached: acquire returned and the handler is registered.  releasing: awaits
\* _closed inside release.
Phases == {"idle", "waiting", "queued", "opening", "attached", "releasing"}

TypeOK ==
  /\ registry \in Listeners \cup {NoListener}
  /\ sock \in [Listeners -> SockStates]
  /\ users \in [Listeners -> Nat]
  /\ closing \in [Listeners -> BOOLEAN]
  /\ handlers \in [Listeners -> SUBSET Owners]
  /\ phase \in [Owners -> Phases]
  /\ at \in [Owners -> Listeners \cup {NoListener}]
  /\ closeWaiting \subseteq Clients
  /\ shut \subseteq Clients
  /\ \A o \in Owners : at[o] = NoListener <=> phase[o] = "idle"

Init ==
  /\ registry = NoListener
  /\ sock = [l \in Listeners |-> "closed"]
  /\ users = [l \in Listeners |-> 0]
  /\ closing = [l \in Listeners |-> TRUE]
  /\ handlers = [l \in Listeners |-> {}]
  /\ phase = [o \in Owners |-> "idle"]
  /\ at = [o \in Owners |-> NoListener]
  /\ closeWaiting = {}
  /\ shut = {}

-------------------------------------------------------------------------------
Free(l) ==
  /\ l # registry
  /\ sock[l] = "closed"
  /\ users[l] = 0
  /\ \A o \in Owners : at[o] # l

In(l, p) == {o \in Owners : at[o] = l /\ phase[o] = p}

\* asyncio.Lock: a newcomer waits while the lock is held or has waiters.
OpenLockBusy(l) == In(l, "opening") # {} \/ In(l, "queued") # {}

\* _start_lock is held during acquire and during the release of async_close.
StartLockFree(o) == phase[o] \in {"idle", "attached"}

\* Go with a mistake: the reference to the listener is not cleared.
GoKeepsReference(o, p, l) ==
  /\ phase' = [phase EXCEPT ![o] = p]
  /\ at' = [at EXCEPT ![o] = IF l = NoListener THEN @ ELSE l]

Go(o, p, l) ==
  /\ phase' = [phase EXCEPT ![o] = p]
  /\ at' = [at EXCEPT ![o] = l]

\* Without with a mistake: whatever is registered goes.
WithoutAny(l) == NoListener

\* del _listeners[key], if this listener is the one registered.
Without(l) == IF registry = l THEN NoListener ELSE registry

\* What transport.close(), or resolving _closed without a transport, makes of s.
Shutdown(s) == CASE s = "unbound" -> "closed"
                 [] s = "open"    -> "closing"
                 [] OTHER         -> s

\* release(), run by o, that leaves n users.  socks and hs are the socket states
\* and handlers its caller has already updated.
Release(o, l, n, socks, hs) ==
  /\ users' = [users EXCEPT ![l] = n]
  /\ \/ /\ n > 0
        /\ sock' = socks
        /\ handlers' = hs
        /\ Go(o, "idle", NoListener)
        /\ UNCHANGED <<closing, registry>>
     \/ /\ n = 0
        /\ closing' = [closing EXCEPT ![l] = TRUE]
        /\ sock' = [socks EXCEPT ![l] = Shutdown(socks[l])]
        /\ \/ /\ Shutdown(socks[l]) = "closing"
              /\ handlers' = hs
              /\ Go(o, "releasing", l)
              /\ UNCHANGED registry
           \/ /\ Shutdown(socks[l]) = "closed"
              /\ handlers' = [hs EXCEPT ![l] = {}]
              /\ registry' = Without(l)
              /\ Go(o, "idle", NoListener)

\* The body of "async with _open_lock" for a listener whose transport is set,
\* the return from acquire, and handlers.add in the caller.
Attach(o, l) ==
  /\ handlers' = [handlers EXCEPT ![l] = @ \cup {o}]
  /\ Go(o, "attached", l)

\* acquire() from its read of _listeners to its first await.
Acquire(o) ==
  \/ \* the registered listener is going away: wait for its socket
     /\ registry # NoListener
     /\ closing[registry]
     /\ Go(o, "waiting", registry)
     /\ UNCHANGED <<registry, sock, users, closing, handlers>>
  \/ \* share the registered listener
     /\ registry # NoListener
     /\ ~closing[registry]
     /\ users' = [users EXCEPT ![registry] = @ + 1]
     /\ \/ /\ OpenLockBusy(registry)
           /\ Go(o, "queued", registry)
           /\ UNCHANGED handlers
        \/ /\ ~OpenLockBusy(registry)
           /\ Attach(o, registry)
     /\ UNCHANGED <<registry, sock, closing>>
  \/ \* create and register a listener, and bind its socket
     /\ registry = NoListener
     /\ \E l \in Listeners :
          /\ Free(l)
          /\ \/ /\ registry' = l
                /\ sock' = [sock EXCEPT ![l] = "open"]
                /\ users' = [users EXCEPT ![l] = 1]
                /\ closing' = [closing EXCEPT ![l] = FALSE]
                /\ handlers' = [handlers EXCEPT ![l] = {}]
                /\ Go(o, "opening", l)
             \/ \* OSError: acquire raises after release() unregistered it
                /\ Go(o, "idle", NoListener)
                /\ UNCHANGED <<registry, sock, users, closing, handlers>>

-------------------------------------------------------------------------------
(* The steps of an owner *)

\* async_start: nothing to do if attached or closed.  discover: acquire.
Start(o) ==
  /\ phase[o] = "idle"
  /\ o \notin shut
  /\ Acquire(o)
  /\ UNCHANGED <<closeWaiting, shut>>

\* shield(_closed) returns and acquire calls itself again.
Reacquire(o) ==
  /\ phase[o] = "waiting"
  /\ sock[at[o]] = "closed"
  /\ Acquire(o)
  /\ UNCHANGED <<closeWaiting, shut>>

\* The lock is handed over.  connection_lost, if it is scheduled, was scheduled
\* first and has run.
Enter(o) ==
  /\ phase[o] = "queued"
  /\ In(at[o], "opening") = {}
  /\ sock[at[o]] # "closing"
  /\ \/ \* somebody else has bound the socket
        /\ sock[at[o]] # "unbound"
        /\ Attach(o, at[o])
        /\ UNCHANGED <<registry, sock, users, closing>>
     \/ \* the one before failed: bind
        /\ sock[at[o]] = "unbound"
        /\ sock' = [sock EXCEPT ![at[o]] = "open"]
        /\ Go(o, "opening", at[o])
        /\ UNCHANGED <<registry, users, closing, handlers>>
     \/ \* ... and fail too
        /\ sock[at[o]] = "unbound"
        /\ Release(o, at[o], users[at[o]] - 1, sock, handlers)
  /\ UNCHANGED <<closeWaiting, shut>>

\* create_datagram_endpoint returns.
OpenDone(o) ==
  /\ phase[o] = "opening"
  /\ Attach(o, at[o])
  /\ UNCHANGED <<registry, sock, users, closing, closeWaiting, shut>>

\* Detach with a mistake: the last and every other user closes the listener.
DetachCloses(o) ==
  \/ /\ phase[o] = "idle"
     /\ UNCHANGED <<registry, sock, users, closing, handlers, phase, at>>
  \/ /\ phase[o] = "attached"
     /\ Release(o, at[o], 0, sock, [handlers EXCEPT ![at[o]] = @ \ {o}])

\* Detach with a mistake: the handlers of the other users go too.
DetachAll(o) ==
  \/ /\ phase[o] = "idle"
     /\ UNCHANGED <<registry, sock, users, closing, handlers, phase, at>>
  \/ /\ phase[o] = "attached"
     /\ Release(o, at[o], users[at[o]] - 1, sock, [handlers EXCEPT ![at[o]] = {}])

\* Detach with a mistake: the owner's own handler stays.
DetachNone(o) ==
  \/ /\ phase[o] = "idle"
     /\ UNCHANGED <<registry, sock, users, closing, handlers, phase, at>>
  \/ /\ phase[o] = "attached"
     /\ Release(o, at[o], users[at[o]] - 1, sock, handlers)

\* handlers.discard and release, or nothing when there is no listener.
Detach(o) ==
  \/ /\ phase[o] = "idle"
     /\ UNCHANGED <<registry, sock, users, closing, handlers, phase, at>>
  \/ /\ phase[o] = "attached"
     /\ Release(o, at[o], users[at[o]] - 1, sock, [handlers EXCEPT ![at[o]] = @ \ {o}])

\* Close with a mistake: a client that is not attached yet has nothing to release.
CloseImpatient(c) ==
  /\ c \notin closeWaiting
  /\ shut' = shut \cup {c}
  /\ \/ StartLockFree(c) /\ Detach(c)
     \/ ~StartLockFree(c) /\ UNCHANGED <<registry, sock, users, closing, handlers, phase, at>>
  /\ UNCHANGED closeWaiting

\* async_close, up to _start_lock or, when that is free, up to release's await.
Close(c) ==
  /\ c \notin closeWaiting
  /\ shut' = shut \cup {c}
  /\ \/ /\ StartLockFree(c)
        /\ Detach(c)
        /\ UNCHANGED closeWaiting
     \/ /\ ~StartLockFree(c)
        /\ closeWaiting' = closeWaiting \cup {c}
        /\ UNCHANGED <<registry, sock, users, closing, handlers, phase, at>>

\* CloseProceeds with a mistake: it waits for a start that succeeds.
CloseAwaitsStart(c) ==
  /\ c \in closeWaiting
  /\ phase[c] = "attached"
  /\ Detach(c)
  /\ closeWaiting' = closeWaiting \ {c}
  /\ UNCHANGED shut

\* async_close gets _start_lock.
CloseProceeds(c) ==
  /\ c \in closeWaiting
  /\ StartLockFree(c)
  /\ Detach(c)
  /\ closeWaiting' = closeWaiting \ {c}
  /\ UNCHANGED shut

\* discover's window ends, its send fails or its task is cancelled: the same finally.
FinderEnd(f) ==
  /\ phase[f] = "attached"
  /\ Detach(f)
  /\ UNCHANGED <<closeWaiting, shut>>

\* release returns from shield(_closed).
Resume(o) ==
  /\ phase[o] = "releasing"
  /\ sock[at[o]] = "closed"
  /\ registry' = Without(at[o])
  /\ handlers' = [handlers EXCEPT ![at[o]] = {}]
  /\ Go(o, "idle", NoListener)
  /\ UNCHANGED <<sock, users, closing, closeWaiting, shut>>

\* The entry is set up again with a new client; the old one is garbage.
Renew(c) ==
  /\ c \in shut
  /\ c \notin closeWaiting
  /\ phase[c] = "idle"
  /\ shut' = shut \ {c}
  /\ UNCHANGED <<registry, sock, users, closing, handlers, phase, at, closeWaiting>>

-------------------------------------------------------------------------------
(* Transport callbacks and cancellation *)

\* ConnectionLost with a mistake: those that wait for the socket are not told.
ConnectionLostSilent(l) ==
  /\ sock[l] = "closing"
  /\ registry' = Without(l)
  /\ handlers' = [handlers EXCEPT ![l] = {}]
  /\ UNCHANGED <<sock, users, closing, phase, at, closeWaiting, shut>>

\* ConnectionLost with a mistake: cleaning up is left to release.
ConnectionLostKeeps(l) ==
  /\ sock[l] = "closing"
  /\ sock' = [sock EXCEPT ![l] = "closed"]
  /\ UNCHANGED <<registry, handlers, users, closing, phase, at, closeWaiting, shut>>

ConnectionLost(l) ==
  /\ sock[l] = "closing"
  /\ sock' = [sock EXCEPT ![l] = "closed"]
  /\ registry' = Without(l)
  /\ handlers' = [handlers EXCEPT ![l] = {}]
  /\ UNCHANGED <<users, closing, phase, at, closeWaiting, shut>>

\* asyncio.shield keeps _closed alive; only the await ends.
CancelWaiting(o) ==
  /\ phase[o] \in {"waiting", "releasing"}
  /\ Go(o, "idle", NoListener)
  /\ UNCHANGED <<registry, sock, users, closing, handlers, closeWaiting, shut>>

\* CancelQueued with a mistake: except Exception, which CancelledError is not.
CancelQueuedLeaks(o) ==
  /\ phase[o] = "queued"
  /\ Go(o, "idle", NoListener)
  /\ UNCHANGED <<registry, sock, users, closing, handlers, closeWaiting, shut>>

CancelQueued(o) ==
  /\ phase[o] = "queued"
  /\ Release(o, at[o], users[at[o]] - 1, sock, handlers)
  /\ UNCHANGED <<closeWaiting, shut>>

\* create_datagram_endpoint closes the transport it has made, then acquire
\* releases the lock and the listener.
CancelOpening(o) ==
  /\ phase[o] = "opening"
  /\ In(at[o], "queued") = {} \/ CancelHandOff
  /\ Release(o, at[o], users[at[o]] - 1, [sock EXCEPT ![at[o]] = "closing"], handlers)
  /\ UNCHANGED <<closeWaiting, shut>>

CancelClose(c) ==
  /\ c \in Hasty
  /\ c \in closeWaiting
  /\ closeWaiting' = closeWaiting \ {c}
  /\ UNCHANGED <<registry, sock, users, closing, handlers, phase, at, shut>>

-------------------------------------------------------------------------------
OwnerStep(o) ==
  \/ Start(o) \/ Reacquire(o) \/ Enter(o) \/ OpenDone(o) \/ Resume(o)
  \/ CancelWaiting(o) \/ CancelQueued(o) \/ CancelOpening(o)

ClientStep(c) == Close(c) \/ CloseProceeds(c) \/ CancelClose(c) \/ Renew(c)

Next ==
  \/ \E o \in Owners : OwnerStep(o)
  \/ \E c \in Clients : ClientStep(c)
  \/ \E f \in Finders : FinderEnd(f)
  \/ \E l \in Listeners : ConnectionLost(l)

Spec == Init /\ [][Next]_vars

\* The event loop runs every callback and wakes every task it has scheduled, and
\* a discovery's window ends.  A task woken by _closed runs before a listener made
\* meanwhile can be closed again (binding takes an iteration of the loop), hence
\* the strong fairness of joining.  Nothing makes anyone start, close or cancel.
Rejoin(o) == Reacquire(o) /\ phase'[o] # "waiting"

Fairness ==
  /\ \A o \in Owners : /\ WF_vars(Enter(o))
                       /\ WF_vars(OpenDone(o))
                       /\ WF_vars(Resume(o))
                       /\ SF_vars(Rejoin(o))
  /\ \A c \in Clients : WF_vars(CloseProceeds(c))
  /\ \A f \in Finders : WF_vars(FinderEnd(f))
  /\ \A l \in Listeners : WF_vars(ConnectionLost(l))

FairSpec == Spec /\ Fairness

-------------------------------------------------------------------------------
(* Properties *)

Holding == {"queued", "opening", "attached"}

\* The owners that have incremented _users and not decremented it.
Counted(l) == {o \in Owners : at[o] = l /\ phase[o] \in Holding}

\* _users is exactly the number of owners between the increment of acquire and the
\* decrement of release, whatever fails or is cancelled on the way (udp.py:74-86).
UsersCounted == \A l \in Listeners : users[l] = Cardinality(Counted(l))

Bound == {l \in Listeners : sock[l] \in {"open", "closing"}}

\* A listener is never bound while an older one still has the port: start would
\* fail with EADDRINUSE on its own process (the wait at udp.py:68-70).
OneBoundSocket == \A k, l \in Bound : k = l

\* An owner whose acquire returned keeps hearing: the socket is open, not being
\* closed, registered for others to share, and has the owner's handler
\* (async_start: "Keep the response socket open until this client is closed").
HolderHears ==
  \A o \in Owners : phase[o] = "attached" =>
    /\ sock[at[o]] = "open"
    /\ ~closing[at[o]]
    /\ registry = at[o]
    /\ o \in handlers[at[o]]

\* A handler left in a live listener belongs to an owner that still holds it: no
\* report is delivered to a closed client or a finished discovery.
NoStrayHandler == \A l \in Listeners : handlers[l] \subseteq In(l, "attached")

\* A closed client gives its listener back: it holds one only while its close
\* still waits for the start that is in flight (async_close).
ClosedLetsGo == \A c \in shut : phase[c] = "attached" => c \in closeWaiting

\* The same of the clients whose close is not cancelled while it waits, whatever
\* happens to their starts and to all others (async_close, udp.py:184-196).
PatientLetsGo == \A c \in shut \ Hasty : phase[c] = "attached" => c \in closeWaiting

-------------------------------------------------------------------------------
(* The inductive invariant behind the safety properties, when no opener is        *)
(* cancelled in front of a queue.                                                *)

\* The registered listener is the only one that is not dead, and has users until it
\* is closed.
ListenerInv ==
  \A l \in Listeners :
    /\ registry = l <=> sock[l] # "closed"
    /\ closing[l] <=> sock[l] \in {"closing", "closed"}
    /\ ~closing[l] => users[l] > 0

\* A live handler set is exactly the set of attached owners.
HandlerInv == \A l \in Listeners : handlers[l] = In(l, "attached")

OwnerInv ==
  \A o \in Owners :
    /\ phase[o] \in Holding => ~closing[at[o]]
    /\ phase[o] \in {"opening", "attached"} => sock[at[o]] = "open"

\* Whoever opens a listener is alone with those that queue behind it.
OpenerInv ==
  \A o, p \in Owners :
    /\ phase[o] = "opening"
    /\ phase[p] \in {"opening", "attached"}
    /\ at[o] = at[p]
    => o = p

Inv == TypeOK /\ ListenerInv /\ HandlerInv /\ OwnerInv /\ OpenerInv /\ UsersCounted

\* Before a closed client attaches, its close is already waiting.
ShutInv == \A c \in shut \ Hasty : phase[c] \in Holding \cup {"waiting"} => c \in closeWaiting

-------------------------------------------------------------------------------
\* The refinement: hearing is the union of the handler sets of open sockets.
Port == INSTANCE SharedPort WITH
  bound   <- Bound # {},
  hearing <- UNION {handlers[l] : l \in {k \in Listeners : sock[k] = "open"}}

\* The listener implements the shared port: nobody's reception is ended by the
\* start, close, failure or cancellation of another owner (udp.py:48-132).
ImplementsPort == Port!Spec

\* Every start ends: no owner waits forever for a lock, a dying socket or a bind
\* (acquire, udp.py:67-76).
StartsEnd ==
  \A o \in Owners :
    phase[o] \in {"waiting", "queued", "opening"} ~> phase[o] \in {"attached", "idle"}

\* Every close ends, also when the start it waits for fails (udp.py:187-196).
ClosesEnd ==
  \A c \in Clients : (c \in closeWaiting \/ phase[c] = "releasing")
                       ~> (c \notin closeWaiting /\ phase[c] # "releasing")

\* A listener being closed frees the port, even when the release that closes it was
\* cancelled (connection_lost, udp.py:93).
ClosingFreesPort == \A l \in Listeners : (registry = l /\ closing[l]) ~> registry # l
===============================================================================
