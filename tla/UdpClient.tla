------------------------------- MODULE UdpClient -------------------------------
(***************************************************************************)
(* The requests of ZM1UDPClient (udp.py): clients of one device, that is of  *)
(* one MAC, on one listener.  _request takes the device's lock, resolves the *)
(* host, sends once and waits for reports that match; _handle_report serves  *)
(* the request that waits; async_close fails it.                             *)
(*                                                                         *)
(* The listener is reduced to whether it can send (module UdpListener has    *)
(* its life).  It is followed from its first client until the last request   *)
(* made on it has ended.                                                     *)
(***************************************************************************)
EXTENDS Sequences, FiniteSets, SequencesExt

CONSTANTS
  Clients,      \* the coordinator's client, a config flow's or its successor
  Requests,     \* tasks that call query or send
  NoRequest,
  Addresses,    \* IPv4 addresses
  Name,         \* a host name
  NoHost,       \* ""
  Hosts,        \* what the transport may point a client at
  Fields,
  Values,
  Null,         \* the JSON null
  Absent,       \* the field is not in the payload
  AnyValue,          \* a query's expectation: any value but null
  Wants         \* what a request may expect of each field

ASSUME DataAssumption ==
  /\ {Null, Absent, AnyValue} \cap Values = {}
  /\ Null # Absent /\ AnyValue \notin {Null, Absent}

Nothing == [f \in Fields |-> Absent]

ASSUME WantsAssumption ==
  Wants \subseteq [Fields -> Values \cup {AnyValue, Absent}] \ {Nothing}

ASSUME HostsAssumption ==
  /\ Hosts \subseteq Addresses \cup {Name}
  /\ Name \notin Addresses
  /\ NoHost \notin Addresses \cup {Name}

ASSUME RequestsAssumption == NoRequest \notin Requests

VARIABLES
  state,        \* of each client: "new", "open" (handler registered) or "closed"
  host,         \* of each client
  pending,      \* _pending of each client: no future, or the state of the future
  expected,     \* _expected
  response,     \* _response
  request,      \* where each task is, for which client and what it expects
  holder,       \* the task that holds request_locks[mac]
  waiters,      \* the tasks that wait for the lock, in order
  listening,    \* the listener can send
  latest        \* history: what the device last said since the client's request was sent

client == <<state, host, pending, expected, response, latest>>
lock == <<holder, waiters>>
vars == <<state, host, pending, expected, response, request, holder, waiters, listening,
          latest>>

Payloads == [Fields -> Values \cup {Null, Absent}]

\* queued: awaits the lock.  resolving: awaits getaddrinfo.  awaiting: awaits _pending.
Stages == {"queued", "resolving", "awaiting"}

Idle == [stage |-> "idle"]

TypeOK ==
  /\ state \in [Clients -> {"new", "open", "closed"}]
  /\ host \in [Clients -> Addresses \cup {Name, NoHost}]
  /\ pending \in [Clients -> {"none", "waiting", "answered", "failed"}]
  /\ expected \in [Clients -> Wants \cup {Nothing}]
  /\ response \in [Clients -> Payloads]
  /\ request \in [Requests -> {Idle} \cup [stage : Stages, client : Clients, want : Wants]]
  /\ holder \in Requests \cup {NoRequest}
  /\ waiters \in Seq(Requests)
  /\ listening \in BOOLEAN
  /\ latest \in [Clients -> Payloads]

Init ==
  /\ state = [c \in Clients |-> "new"]
  /\ host = [c \in Clients |-> NoHost]
  /\ pending = [c \in Clients |-> "none"]
  /\ expected = [c \in Clients |-> Nothing]
  /\ response = [c \in Clients |-> Nothing]
  /\ request = [r \in Requests |-> Idle]
  /\ holder = NoRequest
  /\ waiters = <<>>
  /\ listening = FALSE
  /\ latest = [c \in Clients |-> Nothing]

-------------------------------------------------------------------------------
(* The life of a client *)

\* A client is made with the host its owner knows, and started.
Open(c, h) ==
  /\ state[c] = "new"
  /\ listening \/ (holder = NoRequest /\ waiters = <<>>)
  /\ state' = [state EXCEPT ![c] = "open"]
  /\ host' = [host EXCEPT ![c] = h]
  /\ listening' = TRUE
  /\ UNCHANGED <<pending, expected, response, request, lock, latest>>

\* async_close: the request in flight fails and the handler is discarded.
Close(c) ==
  /\ state[c] = "open"
  /\ state' = [state EXCEPT ![c] = "closed"]
  /\ pending' = [pending EXCEPT ![c] = IF @ = "waiting" THEN "failed" ELSE @]
  /\ UNCHANGED <<host, expected, response, request, lock, listening, latest>>

\* The last client of the listener, of this or another device, is closed.
ListenerCloses ==
  /\ listening
  /\ \A c \in Clients : state[c] # "open"
  /\ listening' = FALSE
  /\ UNCHANGED <<client, request, lock>>

\* A closed client nobody refers to any more is replaced.
Renew(c) ==
  /\ state[c] = "closed"
  /\ \A r \in Requests : request[r] # Idle => request[r].client # c
  /\ state' = [state EXCEPT ![c] = "new"]
  /\ host' = [host EXCEPT ![c] = NoHost]
  /\ UNCHANGED <<pending, expected, response, request, lock, listening, latest>>

\* The transport points the client at the configured or the discovered host, without
\* regard to a request in flight.
PointAt(c, h) ==
  /\ state[c] # "new"
  /\ host' = [host EXCEPT ![c] = h]
  /\ UNCHANGED <<state, pending, expected, response, request, lock, listening, latest>>

-------------------------------------------------------------------------------
(* A request *)

\* finally, and the release of the lock.
End(r) ==
  LET c == request[r].client IN
  /\ request' = [request EXCEPT ![r] = Idle]
  /\ holder' = NoRequest
  /\ pending' = [pending EXCEPT ![c] = "none"]
  /\ expected' = [expected EXCEPT ![c] = Nothing]
  /\ response' = [response EXCEPT ![c] = Nothing]
  /\ latest' = [latest EXCEPT ![c] = Nothing]
  /\ UNCHANGED waiters

\* The body of "async with lock" up to its first await, for a request of client c.
Proceed(r, c, want) ==
  /\ holder' = r
  /\ expected' = [expected EXCEPT ![c] = want]
  /\ response' = [response EXCEPT ![c] = Nothing]
  /\ latest' = [latest EXCEPT ![c] = Nothing]
  /\ \/ /\ host[c] \notin Addresses
        /\ request' = [request EXCEPT
                         ![r] = [stage |-> "resolving", client |-> c, want |-> want]]
        /\ UNCHANGED pending
     \/ /\ host[c] \in Addresses
        /\ listening
        /\ request' = [request EXCEPT
                         ![r] = [stage |-> "awaiting", client |-> c, want |-> want]]
        /\ pending' = [pending EXCEPT ![c] = "waiting"]

\* Begin with a mistake: each client has a lock of its own.
BeginUnlocked(r, c, want) ==
  /\ request[r] = Idle
  /\ state[c] = "open"
  /\ host[c] # NoHost
  /\ \A q \in Requests : request[q] # Idle => request[q].client # c
  /\ Proceed(r, c, want)
  /\ UNCHANGED <<state, host, listening, waiters>>

\* query or send, on a client that is started and knows a host.
Begin(r, c, want) ==
  /\ request[r] = Idle
  /\ state[c] = "open"
  /\ host[c] # NoHost
  /\ \/ /\ holder = NoRequest
        /\ waiters = <<>>
        /\ Proceed(r, c, want)
        /\ UNCHANGED waiters
     \/ /\ holder # NoRequest \/ waiters # <<>>
        /\ request' = [request EXCEPT
                         ![r] = [stage |-> "queued", client |-> c, want |-> want]]
        /\ waiters' = Append(waiters, r)
        /\ UNCHANGED <<holder, pending, expected, response, latest>>
  /\ UNCHANGED <<state, host, listening>>

\* Granted with a mistake: the lock is handed to the last waiter.
GrantedLast(r) ==
  /\ holder = NoRequest
  /\ waiters # <<>>
  /\ r = Last(waiters)
  /\ waiters' = Front(waiters)
  /\ Proceed(r, request[r].client, request[r].want)
  /\ UNCHANGED <<state, host, listening>>

\* The lock is handed to the first waiter.  Its send fails when the listener is gone.
Granted(r) ==
  /\ holder = NoRequest
  /\ waiters # <<>>
  /\ r = Head(waiters)
  /\ waiters' = Tail(waiters)
  /\ LET c == request[r].client IN
     \/ Proceed(r, c, request[r].want)
     \/ /\ host[c] \in Addresses
        /\ ~listening
        /\ request' = [request EXCEPT ![r] = Idle]
        /\ UNCHANGED <<holder, pending, expected, response, latest>>
  /\ UNCHANGED <<state, host, listening>>

\* Resolved with a mistake: getaddrinfo's address is not unpacked.
ResolvedTuple(r, a) ==
  /\ request[r].stage = "resolving"
  /\ listening
  /\ LET c == request[r].client IN
     /\ host' = [host EXCEPT ![c] = <<a>>]
     /\ request' = [request EXCEPT ![r].stage = "awaiting"]
     /\ pending' = [pending EXCEPT ![c] = "waiting"]
  /\ UNCHANGED <<expected, response, lock, latest, state, listening>>

\* getaddrinfo returns; nothing is said of a client closed meanwhile.
Resolved(r, a) ==
  /\ request[r].stage = "resolving"
  /\ LET c == request[r].client IN
     /\ host' = [host EXCEPT ![c] = a]
     /\ \/ /\ listening
           /\ request' = [request EXCEPT ![r].stage = "awaiting"]
           /\ pending' = [pending EXCEPT ![c] = "waiting"]
           /\ UNCHANGED <<expected, response, lock, latest>>
        \/ /\ ~listening
           /\ End(r)
  /\ UNCHANGED <<state, listening>>

\* The awaited future is done.
Finish(r) ==
  /\ request[r].stage = "awaiting"
  /\ pending[request[r].client] \in {"answered", "failed"}
  /\ End(r)
  /\ UNCHANGED <<state, host, listening>>

\* TimeOut with a mistake: the time limit does not cover the name resolution.
TimeOutAwaiting(r) ==
  /\ request[r].stage = "awaiting"
  /\ End(r)
  /\ UNCHANGED <<state, host, listening>>

\* asyncio.timeout expires, possibly just after the answer, or getaddrinfo fails.
TimeOut(r) ==
  /\ request[r].stage \in {"resolving", "awaiting"}
  /\ End(r)
  /\ UNCHANGED <<state, host, listening>>

\* Cancel with a mistake: except instead of finally, only the lock is released.
CancelAbandons(r) ==
  /\ request[r] # Idle
  /\ request[r].stage # "queued"
  /\ request' = [request EXCEPT ![r] = Idle]
  /\ holder' = NoRequest
  /\ UNCHANGED <<waiters, client, listening>>

Cancel(r) ==
  /\ request[r] # Idle
  /\ \/ /\ \E i \in DOMAIN waiters :
             waiters[i] = r /\ waiters' = RemoveAt(waiters, i)
        /\ request' = [request EXCEPT ![r] = Idle]
        /\ UNCHANGED <<holder, pending, expected, response, latest>>
     \/ /\ request[r].stage # "queued"
        /\ End(r)
  /\ UNCHANGED <<state, host, listening>>

-------------------------------------------------------------------------------
(* A report of the device *)

\* _matches_reported_value.
Matches(value, want) == IF want = AnyValue THEN value # Null ELSE value = want

\* Updated with a mistake: a value that matched once is kept.
UpdatedKeeps(resp, want, payload) ==
  [f \in Fields |->
     IF payload[f] # Absent /\ (want[f] = Absent \/ Matches(payload[f], want[f]))
     THEN payload[f]
     ELSE resp[f]]

\* What _handle_report makes of _response: a newer value that does not match clears
\* an older one that does.
Updated(resp, want, payload) ==
  [f \in Fields |->
     IF payload[f] = Absent THEN resp[f]
     ELSE IF want[f] = Absent \/ Matches(payload[f], want[f]) THEN payload[f]
     ELSE Absent]

Complete(resp, want) == \A f \in Fields : want[f] # Absent => resp[f] # Absent

\* The clients that take a report from address a for their device's.
Hearers(a) == {c \in Clients : state[c] = "open" /\ host[c] \in {NoHost, a}}

\* datagram_received, for every registered handler.
Datagram(a, payload) ==
  LET served == {c \in Hearers(a) : pending[c] = "waiting"} IN
  /\ listening
  /\ host' = [c \in Clients |-> IF c \in Hearers(a) THEN a ELSE host[c]]
  /\ response' = [c \in Clients |->
       IF c \in served THEN Updated(response[c], expected[c], payload) ELSE response[c]]
  /\ pending' = [c \in Clients |->
       IF c \in served /\ Complete(response'[c], expected[c]) THEN "answered" ELSE pending[c]]
  /\ latest' = [c \in Clients |->
       IF c \in served
       THEN [f \in Fields |-> IF payload[f] = Absent THEN latest[c][f] ELSE payload[f]]
       ELSE latest[c]]
  /\ UNCHANGED <<state, expected, request, lock, listening>>

-------------------------------------------------------------------------------
RequestStep(r) ==
  \/ \E c \in Clients, w \in Wants : Begin(r, c, w)
  \/ Granted(r) \/ Finish(r) \/ TimeOut(r) \/ Cancel(r)
  \/ \E a \in Addresses : Resolved(r, a)

ClientStep(c) ==
  \/ \E h \in Hosts \cup {NoHost} : Open(c, h)
  \/ \E h \in Hosts : PointAt(c, h)
  \/ Close(c) \/ Renew(c)

Next ==
  \/ \E r \in Requests : RequestStep(r)
  \/ \E c \in Clients : ClientStep(c)
  \/ \E a \in Addresses, p \in Payloads : Datagram(a, p)
  \/ ListenerCloses

Spec == Init /\ [][Next]_vars

\* The event loop hands the lock over, wakes the task whose future is done, and runs
\* the timeout.  A name need not resolve, nobody need answer, close or cancel.
Fairness == \A r \in Requests : WF_vars(Granted(r)) /\ WF_vars(Finish(r)) /\ WF_vars(TimeOut(r))

FairSpec == Spec /\ Fairness

-------------------------------------------------------------------------------
(* Properties *)

Active == {r \in Requests : request[r].stage \in {"resolving", "awaiting"}}

\* Requests for the same device are serialized, whichever clients make them, and the
\* task that holds the lock is the one between its entry and its end.
Serialized == Active = {holder} \ {NoRequest}

\* _pending, _expected and _response belong to the request that holds the lock:
\* nothing of a request that ended in any way is left to be answered.
OwnState ==
  \A c \in Clients :
    IF \E r \in Active : request[r].client = c
    THEN /\ expected[c] = request[holder].want
         /\ pending[c] = "none" <=> request[holder].stage = "resolving"
    ELSE pending[c] = "none" /\ expected[c] = Nothing /\ response[c] = Nothing

\* A request is answered by the last thing the device said of every field it expects
\* since it was sent: "A newer conflicting value clears an older match".
AnswerIsLatest ==
  \A c \in Clients : pending[c] = "answered" =>
    \A f \in Fields : expected[c][f] # Absent =>
      response[c][f] = latest[c][f] /\ Matches(latest[c][f], expected[c][f])

\* The requests as module Exchange sees them.
Turns == IF holder = NoRequest THEN waiters ELSE <<holder>> \o waiters

Asks == [r \in Requests |-> IF request[r] = Idle THEN Nothing ELSE request[r].want]

Exchange == INSTANCE Exchange WITH
  turns <- Turns,
  asks <- Asks,
  sent <- holder # NoRequest /\ request[holder].stage = "awaiting",
  said <- IF holder = NoRequest THEN Nothing ELSE latest[request[holder].client],
  answered <- holder # NoRequest /\ pending[request[holder].client] = "answered"

\* The clients of a device implement Exchange: a request is sent at most once ("Dispatch
\* once and await matching reported values"), in the order of arrival whoever is cancelled
\* or closed before it, nothing is said to a request before it is sent, and it is answered
\* by the report that completes it, neither earlier nor later.
ImplementsExchange == Exchange!Spec

\* Every request ends, whatever is cancelled or closed before it and although nobody
\* need answer and no name need resolve.
RequestsEnd == \A r \in Requests : request[r] # Idle ~> request[r] = Idle

\* "Reports reach the coordinator at reception, including packets received between
\* queries or after a timeout", when the client's host is the device: adopting the
\* address is what _handle_report does first with a report it takes.
ReportsReach ==
  [][\A a \in Addresses, p \in Payloads : Datagram(a, p) =>
       \A c \in Clients : state[c] = "open" => host'[c] = a]_vars
===============================================================================
