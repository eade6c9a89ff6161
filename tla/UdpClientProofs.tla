---------------------------- MODULE UdpClientProofs ----------------------------
(***************************************************************************)
(* Theorems about the requests of UdpClient, for any clients, tasks, fields, *)
(* values and hosts.                                                         *)
(***************************************************************************)
EXTENDS UdpClient, SequenceTheorems, TLAPS

Records == [stage : Stages, client : Clients, want : Wants]

\* The tasks that wait for the lock are queued, each of them once.
QueueInv ==
  \A i, j \in 1 .. Len(waiters) :
    /\ request[waiters[i]].stage = "queued"
    /\ waiters[i] = waiters[j] => i = j

\* The lock is held by the task between its entry and its end.
HolderInv ==
  \A r \in Requests : request[r].stage \in {"resolving", "awaiting"} <=> r = holder

Resting(c) == pending[c] = "none" /\ expected[c] = Nothing /\ response[c] = Nothing

Serves(c) ==
  /\ expected[c] = request[holder].want
  /\ pending[c] = "none" <=> request[holder].stage = "resolving"

Owned ==
  \A c \in Clients :
    /\ holder \in Requests /\ request[holder].client = c => Serves(c)
    /\ ~(holder \in Requests /\ request[holder].client = c) => Resting(c)

\* What has been collected for an answer is what the device said last, as far as it
\* matches.
Collected(c) ==
  /\ \A f \in Fields : expected[c][f] # Absent =>
       response[c][f] = IF latest[c][f] # Absent /\ Matches(latest[c][f], expected[c][f])
                        THEN latest[c][f] ELSE Absent
  /\ pending[c] = "answered" => Complete(response[c], expected[c])

IInv == TypeOK /\ QueueInv /\ HolderInv /\ Owned /\ \A c \in Clients : Collected(c)

-------------------------------------------------------------------------------
LEMMA NothingType == Nothing \in Payloads
  BY DEF Nothing, Payloads

LEMMA RequestType ==
  ASSUME TypeOK, NEW r \in Requests
  PROVE  /\ request[r] = Idle <=> request[r].stage = "idle"
         /\ request[r] # Idle => request[r] \in Records
         /\ request[r].stage \in Stages \cup {"idle"}
  BY DEF TypeOK, Idle, Records, Stages

LEMMA HolderType ==
  ASSUME IInv, holder # NoRequest
  PROVE  holder \in Requests /\ request[holder] \in Records
                             /\ request[holder].stage \in {"resolving", "awaiting"}
  <1>1. holder \in Requests
    BY DEF IInv, TypeOK
  <1>2. request[holder].stage \in {"resolving", "awaiting"}
    BY <1>1 DEF IInv, HolderInv
  <1>3. QED
    BY <1>1, <1>2, RequestType DEF IInv, Idle

\* A queue without its first task.
LEMMA TailQueue ==
  ASSUME TypeOK, QueueInv, waiters # <<>>
  PROVE  /\ Tail(waiters) \in Seq(Requests)
         /\ Head(waiters) \in Requests
         /\ request[Head(waiters)].stage = "queued"
         /\ \A i \in 1 .. Len(Tail(waiters)) :
              Tail(waiters)[i] = waiters[i + 1] /\ Tail(waiters)[i] # Head(waiters)
  <1>1. waiters \in Seq(Requests) /\ Len(waiters) \in Nat \ {0}
    BY DEF TypeOK
  <1>2. Len(Tail(waiters)) = Len(waiters) - 1 /\ Head(waiters) = waiters[1]
    BY <1>1
  <1>3. \A i \in 1 .. Len(Tail(waiters)) : Tail(waiters)[i] = waiters[i + 1]
    BY <1>1, <1>2
  <1>4. QED
    BY <1>1, <1>2, <1>3 DEF QueueInv

\* A sequence without its element at place k.
LEMMA RemovedAt ==
  ASSUME NEW S, NEW s \in Seq(S), NEW k \in 1 .. Len(s)
  PROVE  /\ RemoveAt(s, k) \in Seq(S)
         /\ Len(RemoveAt(s, k)) = Len(s) - 1
         /\ \A i \in 1 .. Len(s) - 1 :
              RemoveAt(s, k)[i] = IF i < k THEN s[i] ELSE s[i + 1]
  <1> DEFINE front == SubSeq(s, 1, k - 1)
             back  == SubSeq(s, k + 1, Len(s))
  <1>1. Len(s) \in Nat /\ k \in Nat \ {0}
    OBVIOUS
  <1>2. /\ front \in Seq(S) /\ Len(front) = k - 1
        /\ \A i \in 1 .. k - 1 : front[i] = s[i]
    BY <1>1, SubSeqProperties
  <1>3. /\ back \in Seq(S) /\ Len(back) = Len(s) - k
        /\ \A i \in 1 .. Len(s) - k : back[i] = s[k + i]
    BY <1>1, SubSeqProperties
  <1> HIDE DEF front, back
  <1> DEFINE cat == front \o back
  <1>4. /\ cat \in Seq(S)
        /\ Len(cat) = Len(front) + Len(back)
        /\ \A i \in 1 .. Len(front) + Len(back) :
             cat[i] = IF i <= Len(front) THEN front[i] ELSE back[i - Len(front)]
    BY <1>2, <1>3, ConcatProperties
  <1>5. RemoveAt(s, k) = cat
    BY DEF RemoveAt, front, back
  <1> HIDE DEF cat
  <1>6. Len(cat) = Len(s) - 1
    BY <1>1, <1>2, <1>3, <1>4
  <1>7. ASSUME NEW i \in 1 .. Len(s) - 1
        PROVE  cat[i] = IF i < k THEN s[i] ELSE s[i + 1]
    <2>1. CASE i < k
      <3>1. i \in 1 .. k - 1 /\ i \in 1 .. Len(front) + Len(back) /\ i <= Len(front)
        BY <1>1, <1>2, <1>3, <2>1
      <3>2. cat[i] = front[i]
        BY <1>4, <3>1
      <3>3. QED
        BY <1>2, <2>1, <3>1, <3>2
    <2>2. CASE i >= k
      <3>1. i - (k - 1) \in 1 .. Len(s) - k /\ k + (i - (k - 1)) = i + 1
        BY <1>1, <2>2
      <3>2. back[i - (k - 1)] = s[i + 1]
        BY <1>3, <3>1
      <3>3. cat[i] = back[i - (k - 1)]
        BY <1>1, <1>2, <1>3, <1>4, <2>2
      <3>4. QED
        BY <2>2, <3>2, <3>3, <1>1
    <2>3. i \in Nat
      BY <1>1
    <2>4. QED
      BY <1>1, <2>1, <2>2, <2>3
  <1>8. QED
    BY <1>4, <1>5, <1>6, <1>7

\* Removing behind the head, and the head.
LEMMA RemovedBehind ==
  ASSUME NEW S, NEW s \in Seq(S), NEW h \in S, NEW k \in 1 .. Len(s)
  PROVE  RemoveAt(<<h>> \o s, k + 1) = <<h>> \o RemoveAt(s, k)
  <1> DEFINE t == <<h>> \o s
             a == RemoveAt(s, k)
             b == <<h>> \o a
             c == RemoveAt(t, k + 1)
  <1>1. /\ t \in Seq(S) /\ Len(t) = Len(s) + 1 /\ Len(s) \in Nat
        /\ \A i \in 1 .. Len(s) + 1 : t[i] = IF i = 1 THEN h ELSE s[i - 1]
    OBVIOUS
  <1>2. /\ a \in Seq(S) /\ Len(a) = Len(s) - 1
        /\ \A i \in 1 .. Len(s) - 1 : a[i] = IF i < k THEN s[i] ELSE s[i + 1]
    BY RemovedAt
  <1> HIDE DEF a
  <1>3. /\ b \in Seq(S) /\ Len(b) = Len(s)
        /\ \A i \in 1 .. Len(s) : b[i] = IF i = 1 THEN h ELSE a[i - 1]
    BY <1>1, <1>2
  <1> HIDE DEF t
  <1>4. k + 1 \in 1 .. Len(t)
    BY <1>1
  <1>5. /\ c \in Seq(S) /\ Len(c) = Len(s)
        /\ \A i \in 1 .. Len(s) : c[i] = IF i < k + 1 THEN t[i] ELSE t[i + 1]
    <2>1. /\ c \in Seq(S) /\ Len(c) = Len(t) - 1
          /\ \A i \in 1 .. Len(t) - 1 : c[i] = IF i < k + 1 THEN t[i] ELSE t[i + 1]
      BY <1>1, <1>4, RemovedAt
    <2> HIDE DEF c
    <2>2. QED
      BY <1>1, <2>1
  <1> HIDE DEF b, c
  <1>6. ASSUME NEW i \in 1 .. Len(s) PROVE c[i] = b[i]
    <2>1. CASE i = 1
      <3>1. 1 < k + 1 /\ 1 \in 1 .. Len(s) + 1
        BY <1>1
      <3>2. c[1] = t[1] /\ b[1] = h /\ t[1] = h
        BY <1>1, <1>3, <1>5, <2>1, <3>1
      <3>3. QED
        BY <2>1, <3>2
    <2>2. CASE i # 1 /\ i < k + 1
      <3>1. i - 1 \in 1 .. Len(s) - 1 /\ i - 1 < k /\ i \in 1 .. Len(s) + 1
        BY <1>1, <2>2
      <3>2. c[i] = s[i - 1] /\ b[i] = a[i - 1]
        BY <1>1, <1>3, <1>5, <2>2, <3>1
      <3>3. QED
        BY <1>2, <3>1, <3>2
    <2>3. CASE ~(i < k + 1)
      <3>1. /\ i - 1 \in 1 .. Len(s) - 1 /\ ~(i - 1 < k) /\ i + 1 \in 1 .. Len(s) + 1
            /\ i # 1 /\ (i - 1) + 1 = i /\ (i + 1) - 1 = i /\ i + 1 # 1
        BY <1>1, <2>3
      <3>2. c[i] = t[i + 1] /\ b[i] = a[i - 1]
        BY <1>3, <1>5, <2>3, <3>1
      <3>3. t[i + 1] = s[i] /\ a[i - 1] = s[i]
        BY <1>1, <1>2, <3>1
      <3>4. QED
        BY <3>2, <3>3
    <2>4. QED
      BY <2>1, <2>2, <2>3
  <1>7. b = c
    BY <1>1, <1>3, <1>5, <1>6, SeqEqual
  <1>8. QED
    BY <1>7 DEF a, b, c, t

LEMMA RemovedTail ==
  ASSUME NEW S, NEW u \in Seq(S), u # <<>>
  PROVE  RemoveAt(u, 1) = Tail(u)
  <1> DEFINE v == RemoveAt(u, 1)
             w == Tail(u)
  <1>1. 1 \in 1 .. Len(u) /\ Len(u) \in Nat \ {0}
    OBVIOUS
  <1>2. /\ v \in Seq(S) /\ Len(v) = Len(u) - 1
        /\ \A i \in 1 .. Len(u) - 1 : v[i] = IF i < 1 THEN u[i] ELSE u[i + 1]
    BY <1>1, RemovedAt
  <1>3. /\ w \in Seq(S) /\ Len(w) = Len(u) - 1
        /\ \A i \in 1 .. Len(u) - 1 : w[i] = u[i + 1]
    BY <1>1
  <1> HIDE DEF v, w
  <1>4. v = w
    BY <1>1, <1>2, <1>3, SeqEqual
  <1>5. QED
    BY <1>4 DEF v, w

LEMMA RemovedFirst ==
  ASSUME NEW S, NEW s \in Seq(S), NEW h \in S
  PROVE  RemoveAt(<<h>> \o s, 1) = s
  <1>1. <<h>> \o s \in Seq(S) /\ <<h>> \o s # <<>>
    OBVIOUS
  <1>2. Tail(<<h>> \o s) = s
    OBVIOUS
  <1>3. QED
    BY <1>1, <1>2, RemovedTail

\* A queue without its task at place k.
LEMMA ShorterQueue ==
  ASSUME TypeOK, QueueInv, NEW k \in 1 .. Len(waiters)
  PROVE  /\ RemoveAt(waiters, k) \in Seq(Requests)
         /\ \A i \in 1 .. Len(RemoveAt(waiters, k)) :
              /\ RemoveAt(waiters, k)[i] = IF i < k THEN waiters[i] ELSE waiters[i + 1]
              /\ i < Len(waiters)
  <1>1. waiters \in Seq(Requests) /\ Len(waiters) \in Nat
    BY DEF TypeOK
  <1>2. /\ RemoveAt(waiters, k) \in Seq(Requests)
        /\ Len(RemoveAt(waiters, k)) = Len(waiters) - 1
        /\ \A i \in 1 .. Len(waiters) - 1 :
             RemoveAt(waiters, k)[i] = IF i < k THEN waiters[i] ELSE waiters[i + 1]
    BY <1>1, RemovedAt
  <1>3. QED
    BY <1>1, <1>2

-------------------------------------------------------------------------------
(* What a step of a task does to the invariant *)

\* The queue does not notice what happens to a task that is not in it.
LEMMA QueueKept ==
  ASSUME TypeOK, QueueInv, waiters' = waiters, NEW r \in Requests,
         request[r].stage # "queued",
         \A q \in Requests \ {r} : request'[q] = request[q]
  PROVE  QueueInv'
  <1>1. \A i \in 1 .. Len(waiters) : waiters[i] \in Requests
    BY DEF TypeOK
  <1>2. QED
    BY <1>1 DEF QueueInv

\* The finally of the task that holds the lock.
LEMMA EndStep ==
  ASSUME IInv, NEW r \in Requests, r = holder, End(r),
         state' = state, listening' = listening,
         host' \in [Clients -> Addresses \cup {Name, NoHost}]
  PROVE  IInv'
  <1>0. /\ request[r] \in Records /\ request[r].client \in Clients
        /\ request[r].stage \in {"resolving", "awaiting"}
    BY HolderType, RequestsAssumption DEF Records
  <1>1. PICK c \in Clients : c = request[r].client
    BY <1>0
  <1>2. TypeOK'
    BY <1>1, NothingType DEF IInv, TypeOK, End
  <1>3. QueueInv'
    <2>1. \A q \in Requests \ {r} : request'[q] = request[q]
      BY DEF End, IInv, TypeOK
    <2>2. QED
      BY <1>0, <2>1, QueueKept DEF End, IInv
  <1>4. HolderInv'
    <2>1. \A q \in Requests : request'[q] = IF q = r THEN Idle ELSE request[q]
      BY DEF End, IInv, TypeOK
    <2>2. holder' = NoRequest /\ NoRequest \notin Requests
      BY RequestsAssumption DEF End
    <2>3. QED
      BY <2>1, <2>2 DEF IInv, HolderInv, Idle
  <1>5. \A d \in Clients \ {c} : Resting(d)
    BY <1>1 DEF IInv, Owned
  <1>6. Owned'
    <2>1. Resting(c)'
      BY <1>1 DEF End, Resting, IInv, TypeOK
    <2>2. \A d \in Clients \ {c} : Resting(d)'
      BY <1>1, <1>5 DEF End, Resting, IInv, TypeOK
    <2>3. holder' \notin Requests
      BY RequestsAssumption DEF End
    <2>4. QED
      BY <2>1, <2>2, <2>3 DEF Owned
  <1>7. ASSUME NEW d \in Clients PROVE Collected(d)'
    <2>1. CASE d = c
      <3>1. expected'[d] = Nothing /\ pending'[d] = "none"
        BY <1>1, <2>1 DEF End, IInv, TypeOK
      <3>2. QED
        BY <3>1 DEF Collected, Nothing
    <2>2. CASE d # c
      <3>1. /\ expected'[d] = expected[d] /\ pending'[d] = pending[d]
            /\ response'[d] = response[d] /\ latest'[d] = latest[d]
        BY <1>1, <2>2 DEF End, IInv, TypeOK
      <3>2. QED
        BY <3>1 DEF Collected, IInv
    <2>3. QED
      BY <2>1, <2>2
  <1>8. QED
    BY <1>2, <1>3, <1>4, <1>6, <1>7 DEF IInv

\* The entry of a task, of client c, into the lock.
LEMMA ProceedStep ==
  ASSUME IInv, holder = NoRequest, NEW r \in Requests, NEW c \in Clients, NEW w \in Wants,
         Proceed(r, c, w), UNCHANGED <<state, host, listening>>,
         QueueInv', waiters' \in Seq(Requests)
  PROVE  IInv'
  <1> DEFINE st == request'[r].stage
  <1>1. /\ \A q \in Requests \ {r} : request'[q] = request[q]
        /\ request'[r] = [stage |-> st, client |-> c, want |-> w]
        /\ st \in {"resolving", "awaiting"}
        /\ pending'[c] = IF st = "awaiting" THEN "waiting" ELSE pending[c]
        /\ request' \in [Requests -> {Idle} \cup Records]
    BY DEF Proceed, IInv, TypeOK, Records, Stages
  <1>2. \A d \in Clients : Resting(d)
    BY RequestsAssumption DEF IInv, Owned
  <1>3. \A d \in Clients \ {c} : /\ pending'[d] = pending[d] /\ expected'[d] = expected[d]
                                 /\ response'[d] = response[d] /\ latest'[d] = latest[d]
    BY DEF Proceed, IInv, TypeOK
  <1>4. expected'[c] = w /\ response'[c] = Nothing /\ latest'[c] = Nothing /\ holder' = r
    BY DEF Proceed, IInv, TypeOK
  <1>5. TypeOK'
    <2>1. /\ pending' \in [Clients -> {"none", "waiting", "answered", "failed"}]
          /\ expected' \in [Clients -> Wants \cup {Nothing}]
          /\ response' \in [Clients -> Payloads] /\ latest' \in [Clients -> Payloads]
      BY NothingType DEF Proceed, IInv, TypeOK
    <2>2. QED
      BY <1>1, <1>4, <2>1 DEF IInv, TypeOK, Records
  <1> HIDE DEF st
  <1>6. HolderInv'
    <2>1. \A q \in Requests : ~(request[q].stage \in {"resolving", "awaiting"})
      BY RequestsAssumption DEF IInv, HolderInv
    <2>2. request'[r].stage = st
      BY <1>1
    <2>3. QED
      BY <1>1, <1>4, <2>1, <2>2 DEF HolderInv
  <1>7. Owned'
    <2>1. request'[r].client = c /\ request'[r].want = w /\ request'[r].stage = st
      BY <1>1
    <2>2. Serves(c)'
      BY <1>1, <1>2, <1>4, <2>1 DEF Serves, Resting
    <2>3. \A d \in Clients \ {c} : Resting(d)'
      BY <1>2, <1>3 DEF Resting
    <2>4. QED
      BY <1>4, <2>1, <2>2, <2>3 DEF Owned
  <1>8. ASSUME NEW d \in Clients PROVE Collected(d)'
    <2>1. CASE d = c
      BY <1>1, <1>2, <1>4, <2>1 DEF Collected, Nothing, Resting
    <2>2. CASE d # c
      BY <1>3, <2>2 DEF Collected, IInv
    <2>3. QED
      BY <2>1, <2>2
  <1>9. QED
    BY <1>5, <1>6, <1>7, <1>8 DEF IInv

\* A task joins the queue, or leaves it without having had the lock.
LEMMA QueueStep ==
  ASSUME IInv, NEW r \in Requests, r # holder,
         NEW v \in {Idle} \cup Records, v.stage \in {"idle", "queued"},
         request' = [request EXCEPT ![r] = v],
         UNCHANGED <<state, host, pending, expected, response, latest, holder, listening>>,
         QueueInv', waiters' \in Seq(Requests)
  PROVE  IInv'
  <1>1. \A q \in Requests : request'[q] = IF q = r THEN v ELSE request[q]
    BY DEF IInv, TypeOK
  <1>2. TypeOK'
    BY DEF IInv, TypeOK, Records
  <1>3. HolderInv'
    BY <1>1 DEF IInv, HolderInv
  <1>4. Owned'
    BY <1>1 DEF IInv, Owned, Serves, Resting
  <1>5. \A d \in Clients : Collected(d)'
    BY DEF IInv, Collected
  <1>6. QED
    BY <1>2, <1>3, <1>4, <1>5 DEF IInv

-------------------------------------------------------------------------------
(* The inductive invariant *)

LEMMA InitInv == Init => IInv
  <1> SUFFICES ASSUME Init PROVE IInv
    OBVIOUS
  <1>1. TypeOK
    <2>1. /\ state \in [Clients -> {"new", "open", "closed"}]
          /\ host \in [Clients -> Addresses \cup {Name, NoHost}]
          /\ pending \in [Clients -> {"none", "waiting", "answered", "failed"}]
      BY DEF Init
    <2>2. /\ expected \in [Clients -> Wants \cup {Nothing}]
          /\ response \in [Clients -> Payloads] /\ latest \in [Clients -> Payloads]
      BY NothingType DEF Init
    <2>3. request \in [Requests -> {Idle} \cup [stage : Stages, client : Clients, want : Wants]]
      BY DEF Init
    <2>4. /\ waiters \in Seq(Requests)
          /\ holder \in Requests \cup {NoRequest}
          /\ listening \in BOOLEAN
      <3>1. waiters = <<>> /\ holder = NoRequest /\ listening = FALSE
        BY DEF Init
      <3>2. QED
        BY <3>1, EmptySeq
    <2>5. QED
      BY <2>1, <2>2, <2>3, <2>4 DEF TypeOK
  <1>2. QueueInv /\ HolderInv
    BY RequestsAssumption DEF Init, QueueInv, HolderInv, Idle
  <1>3. Owned
    BY RequestsAssumption DEF Init, Owned, Resting
  <1>4. \A c \in Clients : Collected(c)
    BY DEF Init, Collected, Nothing
  <1>5. QED
    BY <1>1, <1>2, <1>3, <1>4 DEF IInv

LEMMA BeginInv ==
  ASSUME IInv, NEW r \in Requests, NEW c \in Clients, NEW w \in Wants, Begin(r, c, w)
  PROVE  IInv'
  <1>1. CASE holder = NoRequest /\ waiters = <<>> /\ Proceed(r, c, w) /\ UNCHANGED waiters
    <2>1. QueueInv' /\ waiters' \in Seq(Requests)
      BY <1>1 DEF QueueInv
    <2>2. QED
      BY <1>1, <2>1, ProceedStep DEF Begin
  <1>2. CASE ~(holder = NoRequest /\ waiters = <<>>)
    <2> DEFINE v == [stage |-> "queued", client |-> c, want |-> w]
    <2>1. /\ request' = [request EXCEPT ![r] = v] /\ waiters' = Append(waiters, r)
          /\ request[r] = Idle /\ request[r].stage = "idle"
      BY <1>2 DEF Begin, Idle
    <2>2. v \in Records /\ v.stage = "queued"
      BY DEF Records, Stages
    <2>3. r # holder
      BY <2>1 DEF IInv, HolderInv
    <2> HIDE DEF v
    <2>4. /\ waiters \in Seq(Requests) /\ waiters' \in Seq(Requests)
          /\ Len(waiters) \in Nat /\ Len(waiters') = Len(waiters) + 1
          /\ waiters'[Len(waiters) + 1] = r
          /\ \A i \in 1 .. Len(waiters) : waiters'[i] = waiters[i] /\ waiters[i] \in Requests
      BY <2>1 DEF IInv, TypeOK
    <2>5. \A q \in Requests : request'[q] = IF q = r THEN v ELSE request[q]
      BY <2>1 DEF IInv, TypeOK
    <2>6. \A i \in 1 .. Len(waiters) : waiters[i] # r
      BY <2>1 DEF IInv, QueueInv
    <2>7. QueueInv'
      BY <2>2, <2>4, <2>5, <2>6 DEF IInv, QueueInv
    <2>8. UNCHANGED <<state, host, pending, expected, response, latest, holder, listening>>
      BY <1>2 DEF Begin
    <2>9. QED
      BY <2>1, <2>2, <2>3, <2>4, <2>7, <2>8, QueueStep
  <1>3. QED
    BY <1>1, <1>2 DEF Begin

LEMMA GrantedInv ==
  ASSUME IInv, NEW r \in Requests, Granted(r)
  PROVE  IInv'
  <1>1. /\ Tail(waiters) \in Seq(Requests) /\ request[r].stage = "queued"
        /\ \A i \in 1 .. Len(Tail(waiters)) :
             Tail(waiters)[i] = waiters[i + 1] /\ Tail(waiters)[i] # r
    BY TailQueue DEF IInv, Granted
  <1>2. request[r] \in Records /\ request[r].client \in Clients /\ request[r].want \in Wants
    BY <1>1, RequestType DEF IInv, Idle, Records
  <1>3. /\ waiters' = Tail(waiters) /\ holder = NoRequest
        /\ waiters \in Seq(Requests) /\ Len(waiters) \in Nat
        /\ Len(Tail(waiters)) = Len(waiters) - 1
    BY DEF Granted, IInv, TypeOK
  <1>4. ASSUME \A q \in Requests \ {r} : request'[q] = request[q] PROVE QueueInv'
    <2>1. \A i \in 1 .. Len(waiters') : /\ i + 1 \in 1 .. Len(waiters)
                                         /\ waiters'[i] = waiters[i + 1]
                                         /\ waiters'[i] \in Requests \ {r}
      BY <1>1, <1>3
    <2>2. QED
      BY <1>4, <2>1 DEF IInv, QueueInv
  <1>5. CASE Proceed(r, request[r].client, request[r].want)
    <2>1. \A q \in Requests \ {r} : request'[q] = request[q]
      BY <1>5 DEF Proceed, IInv, TypeOK
    <2>2. QueueInv' /\ waiters' \in Seq(Requests)
      BY <1>1, <1>3, <1>4, <2>1
    <2>3. UNCHANGED <<state, host, listening>>
      BY DEF Granted
    <2>4. QED
      BY <1>2, <1>3, <1>5, <2>2, <2>3, ProceedStep
  <1>6. CASE /\ request' = [request EXCEPT ![r] = Idle]
             /\ UNCHANGED <<holder, pending, expected, response, latest>>
    <2>1. \A q \in Requests \ {r} : request'[q] = request[q]
      BY <1>6 DEF IInv, TypeOK
    <2>2. QueueInv' /\ waiters' \in Seq(Requests)
      BY <1>1, <1>3, <1>4, <2>1
    <2>3. UNCHANGED <<state, host, pending, expected, response, latest, holder, listening>>
      BY <1>6 DEF Granted
    <2>4. r # holder /\ Idle.stage = "idle"
      BY <1>3, RequestsAssumption DEF Idle
    <2>5. QED
      BY <1>6, <2>2, <2>3, <2>4, QueueStep
  <1>7. QED
    BY <1>5, <1>6 DEF Granted

\* The steps that end the request that holds the lock.
LEMMA EndingInv ==
  ASSUME IInv, NEW r \in Requests,
         \/ Finish(r) \/ TimeOut(r)
         \/ Cancel(r) /\ request[r].stage # "queued"
  PROVE  IInv'
  <1>1. request[r].stage \in {"resolving", "awaiting"}
    BY RequestType DEF IInv, Finish, TimeOut, Cancel, Stages
  <1>2. r = holder
    BY <1>1 DEF IInv, HolderInv
  <1>3. /\ End(r) /\ UNCHANGED <<state, host, listening>>
    <2>1. CASE Finish(r) \/ TimeOut(r)
      BY <2>1 DEF Finish, TimeOut
    <2>2. CASE Cancel(r) /\ request[r].stage # "queued"
      <3>1. ASSUME NEW i \in DOMAIN waiters, waiters[i] = r PROVE FALSE
        BY <2>2, <3>1 DEF IInv, QueueInv, TypeOK
      <3>2. QED
        BY <2>2, <3>1 DEF Cancel
    <2>3. QED
      BY <2>1, <2>2
  <1>4. host' \in [Clients -> Addresses \cup {Name, NoHost}]
    BY <1>3 DEF IInv, TypeOK
  <1>5. QED
    BY <1>2, <1>3, <1>4, EndStep

LEMMA CancelQueuedInv ==
  ASSUME IInv, NEW r \in Requests, Cancel(r), request[r].stage = "queued"
  PROVE  IInv'
  <1>1. PICK k \in 1 .. Len(waiters) : waiters[k] = r /\ waiters' = RemoveAt(waiters, k)
    BY DEF Cancel, IInv, TypeOK
  <1>2. /\ request' = [request EXCEPT ![r] = Idle]
        /\ UNCHANGED <<state, host, pending, expected, response, latest, holder, listening>>
    BY DEF Cancel
  <1>3. /\ waiters' \in Seq(Requests)
        /\ \A i \in 1 .. Len(waiters') :
             /\ waiters'[i] = IF i < k THEN waiters[i] ELSE waiters[i + 1]
             /\ i < Len(waiters)
    BY <1>1, ShorterQueue DEF IInv
  <1>4. /\ waiters \in Seq(Requests) /\ Len(waiters) \in Nat /\ k \in Nat
        /\ Len(waiters') \in Nat
        /\ \A i \in 1 .. Len(waiters) : waiters[i] \in Requests
    BY <1>1, <1>3 DEF IInv, TypeOK
  <1> DEFINE old(i) == IF i < k THEN i ELSE i + 1
  <1>5. \A i \in 1 .. Len(waiters') :
          /\ old(i) \in 1 .. Len(waiters) /\ old(i) # k
          /\ waiters'[i] = waiters[old(i)]
    BY <1>3, <1>4
  <1>6. \A i, j \in 1 .. Len(waiters') : old(i) = old(j) => i = j
    BY <1>4
  <1> HIDE DEF old
  <1>7. \A q \in Requests \ {r} : request'[q] = request[q]
    BY <1>2 DEF IInv, TypeOK
  <1>8. QueueInv'
    <2>1. \A i \in 1 .. Len(waiters') : waiters'[i] \in Requests \ {r}
      BY <1>1, <1>4, <1>5 DEF IInv, QueueInv
    <2>2. QED
      BY <1>5, <1>6, <1>7, <2>1 DEF IInv, QueueInv
  <1>9. r # holder /\ Idle.stage = "idle"
    BY DEF IInv, HolderInv, Idle
  <1>10. QED
    BY <1>2, <1>3, <1>8, <1>9, QueueStep

LEMMA ResolvedInv ==
  ASSUME IInv, NEW r \in Requests, NEW a \in Addresses, Resolved(r, a)
  PROVE  IInv'
  <1>1. /\ r = holder /\ request[r].stage = "resolving"
        /\ request[r] \in Records /\ request[r].client \in Clients
    <2>1. r = holder /\ request[r].stage = "resolving"
      BY DEF IInv, HolderInv, Resolved
    <2>2. QED
      BY <2>1, RequestType DEF IInv, Idle, Records
  <1>2. PICK c \in Clients : c = request[r].client
    BY <1>1
  <1>3. /\ host' \in [Clients -> Addresses \cup {Name, NoHost}]
        /\ state' = state /\ listening' = listening
    BY <1>2 DEF Resolved, IInv, TypeOK
  <1>4. CASE End(r)
    BY <1>1, <1>3, <1>4, EndStep
  <1>5. CASE /\ request' = [request EXCEPT ![r].stage = "awaiting"]
             /\ pending' = [pending EXCEPT ![c] = "waiting"]
             /\ UNCHANGED <<expected, response, lock, latest>>
    <2>1. /\ request'[r] = [stage |-> "awaiting", client |-> c, want |-> request[r].want]
          /\ \A q \in Requests \ {r} : request'[q] = request[q]
          /\ request[r].want \in Wants
      BY <1>1, <1>2, <1>5 DEF IInv, TypeOK, Records
    <2>2. request' \in [Requests -> {Idle} \cup Records]
      <3>1. [stage |-> "awaiting", client |-> c, want |-> request[r].want] \in Records
        BY <2>1 DEF Records, Stages
      <3>2. request' = [request EXCEPT ![r] = request'[r]]
        BY <1>5, <2>1 DEF IInv, TypeOK
      <3>3. QED
        BY <2>1, <3>1, <3>2 DEF IInv, TypeOK, Records
    <2>3. TypeOK'
      BY <1>3, <1>5, <2>2 DEF IInv, TypeOK, lock, Records
    <2>4. QueueInv'
      BY <1>1, <1>5, <2>1, QueueKept DEF IInv, lock
    <2>5. request'[r].stage = "awaiting" /\ request'[r].client = c
                                         /\ request'[r].want = request[r].want
      BY <2>1
    <2>6. HolderInv'
      BY <1>1, <1>5, <2>1, <2>5 DEF IInv, HolderInv, lock
    <2>7. Owned'
      <3>1. pending'[c] = "waiting" /\ \A d \in Clients \ {c} : pending'[d] = pending[d]
        BY <1>5 DEF IInv, TypeOK
      <3>2. expected[c] = request[r].want
        BY <1>1, <1>2 DEF IInv, Owned, Serves
      <3>3. Serves(c)'
        BY <1>1, <1>5, <2>5, <3>1, <3>2 DEF Serves, lock
      <3>4. \A d \in Clients \ {c} : Resting(d)
        BY <1>1, <1>2 DEF IInv, Owned
      <3>5. \A d \in Clients \ {c} : Resting(d)'
        BY <1>5, <3>1, <3>4 DEF Resting
      <3>6. QED
        BY <1>1, <1>5, <2>5, <3>3, <3>5 DEF Owned, lock
    <2>8. \A d \in Clients : Collected(d)'
      BY <1>5 DEF IInv, TypeOK, Collected
    <2>9. QED
      BY <2>3, <2>4, <2>6, <2>7, <2>8 DEF IInv
  <1>6. QED
    BY <1>2, <1>4, <1>5 DEF Resolved

\* Steps of the clients, which touch no request but to fail the one that waits.
LEMMA ClientInv ==
  ASSUME IInv, NEW c \in Clients, ClientStep(c)
  PROVE  IInv'
  <1>1. /\ UNCHANGED <<request, holder, waiters, expected, response, latest>>
        /\ \/ pending' = pending
           \/ pending' = [pending EXCEPT ![c] = IF @ = "waiting" THEN "failed" ELSE @]
    BY DEF ClientStep, Open, PointAt, Close, Renew, lock
  <1>2. \A d \in Clients : /\ pending'[d] = "none" <=> pending[d] = "none"
                           /\ pending'[d] = "answered" => pending[d] = "answered"
    BY <1>1 DEF IInv, TypeOK
  <1>3. TypeOK'
    <2>1. /\ state' \in [Clients -> {"new", "open", "closed"}]
          /\ listening' \in BOOLEAN
      BY DEF IInv, TypeOK, ClientStep, Open, PointAt, Close, Renew
    <2>2. host' \in [Clients -> Addresses \cup {Name, NoHost}]
      BY HostsAssumption DEF IInv, TypeOK, ClientStep, Open, PointAt, Close, Renew
    <2>3. pending' \in [Clients -> {"none", "waiting", "answered", "failed"}]
      BY <1>1 DEF IInv, TypeOK
    <2>4. QED
      BY <1>1, <2>1, <2>2, <2>3 DEF IInv, TypeOK
  <1>4. QueueInv' /\ HolderInv'
    BY <1>1 DEF IInv, QueueInv, HolderInv
  <1>5. Owned'
    BY <1>1, <1>2 DEF IInv, Owned, Serves, Resting
  <1>6. \A d \in Clients : Collected(d)'
    BY <1>1, <1>2 DEF IInv, Collected
  <1>7. QED
    BY <1>3, <1>4, <1>5, <1>6 DEF IInv

LEMMA UpdatedType ==
  ASSUME NEW resp \in Payloads, NEW want, NEW payload \in Payloads
  PROVE  Updated(resp, want, payload) \in Payloads
  BY DEF Updated, Payloads

\* A report adds to an answer what matches, and takes back what no longer does.
LEMMA DatagramInv ==
  ASSUME IInv, NEW a \in Addresses, NEW p \in Payloads, Datagram(a, p)
  PROVE  IInv'
  <1> DEFINE served == {c \in Hearers(a) : pending[c] = "waiting"}
  <1>1. UNCHANGED <<state, expected, request, holder, waiters, listening>>
    BY DEF Datagram, lock
  <1>2. ASSUME NEW c \in Clients
        PROVE  /\ response'[c] = IF c \in served THEN Updated(response[c], expected[c], p)
                                 ELSE response[c]
               /\ pending'[c] = IF c \in served /\ Complete(response'[c], expected[c])
                                THEN "answered" ELSE pending[c]
               /\ latest'[c] = IF c \in served
                               THEN [f \in Fields |-> IF p[f] = Absent THEN latest[c][f] ELSE p[f]]
                               ELSE latest[c]
               /\ c \in served => pending[c] = "waiting"
    BY DEF Datagram
  <1>3. TypeOK'
    <2>1. host' \in [Clients -> Addresses \cup {Name, NoHost}]
      BY DEF Datagram, IInv, TypeOK
    <2>2. response' \in [Clients -> Payloads]
      <3>1. ASSUME NEW c \in Clients PROVE response'[c] \in Payloads
        <4>1. response[c] \in Payloads
          BY DEF IInv, TypeOK
        <4>2. Updated(response[c], expected[c], p) \in Payloads
          BY <4>1, UpdatedType
        <4>3. QED
          BY <1>2, <4>1, <4>2
      <3>2. QED
        BY <3>1 DEF Datagram
    <2>3. latest' \in [Clients -> Payloads]
      <3>1. ASSUME NEW c \in Clients PROVE latest'[c] \in Payloads
        <4>1. latest[c] \in Payloads
          BY DEF IInv, TypeOK
        <4>2. [f \in Fields |-> IF p[f] = Absent THEN latest[c][f] ELSE p[f]] \in Payloads
          BY <4>1 DEF Payloads
        <4>3. QED
          BY <1>2, <4>1, <4>2
      <3>2. QED
        BY <3>1 DEF Datagram
    <2>4. pending' \in [Clients -> {"none", "waiting", "answered", "failed"}]
      <3>1. \A c \in Clients : pending'[c] \in {"none", "waiting", "answered", "failed"}
        BY <1>2 DEF IInv, TypeOK
      <3>2. QED
        BY <3>1 DEF Datagram
    <2>5. QED
      BY <1>1, <2>1, <2>2, <2>3, <2>4 DEF IInv, TypeOK
  <1> HIDE DEF served
  <1>4. QueueInv' /\ HolderInv'
    BY <1>1 DEF IInv, QueueInv, HolderInv
  <1>5. Owned'
    <2>1. \A c \in Clients : pending'[c] = "none" <=> pending[c] = "none"
      BY <1>2
    <2>2. \A c \in Clients : pending[c] = "none" => response'[c] = response[c]
      BY <1>2
    <2>3. QED
      BY <1>1, <2>1, <2>2 DEF IInv, Owned, Serves, Resting
  <1>6. ASSUME NEW c \in Clients PROVE Collected(c)'
    <2>1. CASE c \notin served
      BY <1>1, <1>2, <2>1 DEF IInv, Collected
    <2>2. CASE c \in served
      <3>1. \A f \in Fields :
              /\ response'[c][f] = IF p[f] = Absent THEN response[c][f]
                                   ELSE IF expected[c][f] = Absent \/ Matches(p[f], expected[c][f])
                                   THEN p[f] ELSE Absent
              /\ latest'[c][f] = IF p[f] = Absent THEN latest[c][f] ELSE p[f]
        BY <1>2, <2>2 DEF Updated
      <3>2. ASSUME NEW f \in Fields, expected[c][f] # Absent
            PROVE  response'[c][f] =
                     IF latest'[c][f] # Absent /\ Matches(latest'[c][f], expected[c][f])
                     THEN latest'[c][f] ELSE Absent
        <4>1. CASE p[f] = Absent
          <5>1. response'[c][f] = response[c][f] /\ latest'[c][f] = latest[c][f]
            BY <3>1, <4>1
          <5>2. QED
            BY <3>2, <5>1 DEF IInv, Collected
        <4>2. CASE p[f] # Absent
          BY <3>1, <3>2, <4>2
        <4>3. QED
          BY <4>1, <4>2
      <3>3. pending'[c] = "answered" => Complete(response'[c], expected[c])
        BY <1>2, <2>2
      <3>4. QED
        BY <1>1, <3>2, <3>3 DEF Collected
    <2>3. QED
      BY <2>1, <2>2
  <1>7. QED
    BY <1>3, <1>4, <1>5, <1>6 DEF IInv

LEMMA StepInv == IInv /\ [Next]_vars => IInv'
  <1> SUFFICES ASSUME IInv, [Next]_vars PROVE IInv'
    OBVIOUS
  <1>1. ASSUME NEW r \in Requests, RequestStep(r) PROVE IInv'
    <2>1. CASE \E c \in Clients, w \in Wants : Begin(r, c, w)
      BY <2>1, BeginInv
    <2>2. CASE Granted(r)
      BY <2>2, GrantedInv
    <2>3. CASE Finish(r) \/ TimeOut(r)
      BY <2>3, EndingInv
    <2>4. CASE Cancel(r)
      BY <2>4, EndingInv, CancelQueuedInv
    <2>5. CASE \E a \in Addresses : Resolved(r, a)
      BY <2>5, ResolvedInv
    <2>6. QED
      BY <1>1, <2>1, <2>2, <2>3, <2>4, <2>5 DEF RequestStep
  <1>2. CASE \E c \in Clients : ClientStep(c)
    BY <1>2, ClientInv
  <1>3. CASE \E a \in Addresses, p \in Payloads : Datagram(a, p)
    BY <1>3, DatagramInv
  <1>4. CASE ListenerCloses \/ UNCHANGED vars
    <2>1. UNCHANGED <<state, host, pending, expected, response, request, holder, waiters, latest>>
          /\ listening' \in BOOLEAN
      BY <1>4 DEF ListenerCloses, vars, client, lock, IInv, TypeOK
    <2>2. TypeOK'
      BY <2>1 DEF IInv, TypeOK
    <2>3. QueueInv' /\ HolderInv' /\ Owned' /\ \A c \in Clients : Collected(c)'
      BY <2>1 DEF IInv, QueueInv, HolderInv, Owned, Serves, Resting, Collected
    <2>4. QED
      BY <2>2, <2>3 DEF IInv
  <1>5. QED
    BY <1>1, <1>2, <1>3, <1>4 DEF Next

-------------------------------------------------------------------------------
(* The theorems a reader should know of *)

\* The conjunction is an invariant, whoever calls, closes and is cancelled.
THEOREM Inductive == Spec => []IInv
  BY InitInv, StepInv, PTL DEF Spec

\* The fields of the clients, the lock and its queue keep their types: the host is an
\* address or a name, whatever is resolved, reported or closed.
THEOREM TypeCorrect == Spec => []TypeOK
  <1>1. IInv => TypeOK
    BY DEF IInv
  <1>2. QED
    BY <1>1, Inductive, PTL

\* The requests of one device take turns, whichever clients make them (udp.py:216-217).
THEOREM OneAtATime == Spec => []Serialized
  <1>1. ASSUME IInv PROVE Serialized
    <2>1. \A r \in Requests : r \in Active <=> r = holder
      BY <1>1 DEF IInv, HolderInv, Active
    <2>2. Active \subseteq Requests /\ holder \in Requests \cup {NoRequest}
      BY <1>1 DEF Active, IInv, TypeOK
    <2>3. QED
      BY <2>1, <2>2, RequestsAssumption DEF Serialized
  <1>2. QED
    BY <1>1, Inductive, PTL

\* However a request ends, nothing of it is left in its client, and what is there
\* belongs to the request that runs (udp.py:236-239).
THEOREM NothingLeft == Spec => []OwnState
  <1>1. ASSUME IInv PROVE OwnState
    <2> SUFFICES ASSUME NEW c \in Clients
                 PROVE  IF \E r \in Active : request[r].client = c
                        THEN Serves(c) ELSE Resting(c)
      BY DEF OwnState, Serves, Resting
    <2>1. (\E r \in Active : request[r].client = c)
            <=> (holder \in Requests /\ request[holder].client = c)
      BY <1>1 DEF IInv, HolderInv, Active
    <2>2. QED
      BY <1>1, <2>1 DEF IInv, Owned
  <1>2. QED
    BY <1>1, Inductive, PTL

\* A newer conflicting value always clears an older match: what answers a request is
\* the last that was said of every field it expects (udp.py:256-264).
THEOREM AnsweredByLatest == Spec => []AnswerIsLatest
  <1>1. ASSUME IInv PROVE AnswerIsLatest
    BY <1>1 DEF IInv, Collected, Complete, AnswerIsLatest
  <1>2. QED
    BY <1>1, Inductive, PTL

-------------------------------------------------------------------------------
(* The exchange *)

LEMMA TurnsType == TypeOK => Turns \in Seq(Requests)
  BY DEF TypeOK, Turns

\* The request at the head of a turn, in the terms of Exchange.
LEMMA AsksType ==
  ASSUME TypeOK, NEW r \in Requests
  PROVE  /\ Asks[r] = Exchange!Silence <=> request[r] = Idle
         /\ request[r] # Idle => Asks[r] = request[r].want
  <1>1. Exchange!Silence = Nothing
    BY DEF Exchange!Silence, Nothing
  <1>2. request[r] # Idle => request[r].want # Nothing
    BY RequestType, WantsAssumption DEF Records
  <1>3. QED
    BY <1>1, <1>2 DEF Asks

\* The operator of the community modules, as module Exchange has it.
LEMMA SameRemoval == \A s, i : Exchange!RemoveAt(s, i) = RemoveAt(s, i)
  BY DEF Exchange!RemoveAt, RemoveAt

LEMMA HeadIsHolder ==
  ASSUME TypeOK, holder # NoRequest
  PROVE  /\ Turns # <<>> /\ 1 \in DOMAIN Turns
         /\ Head(Turns) = holder /\ Turns[1] = holder
  BY DEF TypeOK, Turns

\* Steps that only concern clients whose request is not answered by them.
LEMMA ExchangeKept ==
  ASSUME TypeOK, UNCHANGED <<request, holder, waiters, latest>>,
         \A c \in Clients : pending'[c] = "answered" <=> pending[c] = "answered",
         holder # NoRequest => request[holder].client \in Clients
  PROVE  UNCHANGED Exchange!vars
  BY DEF Exchange!vars, Turns, Asks

LEMMA AskStep ==
  ASSUME IInv, IInv', NEW r \in Requests, NEW c \in Clients, NEW w \in Wants, Begin(r, c, w)
  PROVE  Exchange!Ask(r, w)
  <1> DEFINE sent == holder # NoRequest /\ request[holder].stage = "awaiting"
  <1>1. TypeOK /\ request[r] = Idle /\ Asks[r] = Exchange!Silence
    BY AsksType DEF IInv, Begin
  <1>2. r # holder /\ w # Nothing
    BY <1>1, WantsAssumption DEF IInv, HolderInv, Idle
  <1>3. ASSUME NEW v \in Records, request' = [request EXCEPT ![r] = v], v.want = w
        PROVE  Asks' = [Asks EXCEPT ![r] = w]
    <2>1. v # Idle
      BY DEF Records, Idle, Stages
    <2>2. \A q \in Requests : request'[q] = IF q = r THEN v ELSE request[q]
      BY <1>1, <1>3 DEF TypeOK
    <2>3. \A q \in Requests : Asks'[q] = IF q = r THEN w ELSE Asks[q]
      BY <1>3, <2>1, <2>2 DEF Asks
    <2>4. QED
      BY <2>3 DEF Asks
  <1>4. CASE holder = NoRequest /\ waiters = <<>> /\ Proceed(r, c, w) /\ UNCHANGED waiters
    <2>1. Turns = <<>> /\ Turns' = <<r>>
      BY <1>4, RequestsAssumption DEF Turns, Proceed
    <2>2. \E v \in Records : request' = [request EXCEPT ![r] = v] /\ v.want = w
                               /\ v.client = c
      <3>1. \A s \in {"resolving", "awaiting"} :
              [stage |-> s, client |-> c, want |-> w] \in Records
        BY DEF Records, Stages
      <3>2. QED
        BY <1>4, <3>1 DEF Proceed
    <2>3. Asks' = [Asks EXCEPT ![r] = w] /\ request'[r].client = c
      BY <1>1, <1>3, <2>2 DEF TypeOK
    <2>4. holder' = r /\ latest'[c] = Nothing /\ pending'[c] # "answered"
      <3>1. pending[c] = "none"
        BY <1>4, RequestsAssumption DEF IInv, Owned, Resting
      <3>2. QED
        BY <1>1, <1>4, <3>1 DEF Proceed, TypeOK
    <2>5. QED
      BY <1>1, <1>4, <2>1, <2>3, <2>4, RequestsAssumption DEF Exchange!Ask
  <1>5. CASE ~(holder = NoRequest /\ waiters = <<>>)
    <2> DEFINE v == [stage |-> "queued", client |-> c, want |-> w]
    <2>1. /\ request' = [request EXCEPT ![r] = v] /\ waiters' = Append(waiters, r)
          /\ UNCHANGED <<holder, pending, latest>>
      BY <1>5 DEF Begin
    <2>2. v \in Records /\ v.want = w
      BY DEF Records, Stages
    <2> HIDE DEF v
    <2>3. Asks' = [Asks EXCEPT ![r] = w]
      BY <1>3, <2>1, <2>2
    <2>4. Turns' = Append(Turns, r) /\ Turns # <<>>
      BY <1>1, <1>5, <2>1 DEF Turns, TypeOK
    <2>5. holder # NoRequest => request'[holder] = request[holder]
      BY <1>1, <1>2, <2>1 DEF TypeOK
    <2>6. QED
      BY <1>1, <2>1, <2>3, <2>4, <2>5 DEF Exchange!Ask
  <1>6. QED
    BY <1>4, <1>5 DEF Begin

\* The request that holds the lock ends.
LEMMA HeadLeaves ==
  ASSUME IInv, NEW r \in Requests, r = holder, End(r)
  PROVE  Exchange!Leave(1) /\ 1 \in DOMAIN Turns
  <1>1. TypeOK /\ holder # NoRequest /\ waiters \in Seq(Requests)
    BY RequestsAssumption DEF IInv, TypeOK
  <1>2. Turns = <<r>> \o waiters /\ Turns[1] = r /\ 1 \in DOMAIN Turns
    BY <1>1, HeadIsHolder DEF Turns
  <1>3. Turns' = RemoveAt(Turns, 1)
    <2>1. Turns' = waiters
      BY DEF Turns, End
    <2>2. QED
      BY <1>1, <1>2, <2>1, RemovedFirst
  <1>4. Asks' = [Asks EXCEPT ![r] = Exchange!Silence]
    BY <1>1 DEF Asks, End, TypeOK, Exchange!Silence, Nothing
  <1>5. holder' = NoRequest
    BY DEF End
  <1>6. QED
    BY <1>2, <1>3, <1>4, <1>5, SameRemoval DEF Exchange!Leave, Exchange!Silence, Nothing

\* A request that does not hold the lock leaves the queue.
LEMMA QueuedLeaves ==
  ASSUME IInv, NEW r \in Requests, NEW k \in 1 .. Len(waiters), waiters[k] = r,
         waiters' = RemoveAt(waiters, k), request' = [request EXCEPT ![r] = Idle],
         UNCHANGED <<holder, pending, latest>>
  PROVE  \E i \in DOMAIN Turns : Exchange!Leave(i)
  <1>1. TypeOK /\ waiters \in Seq(Requests) /\ k \in Nat \ {0} /\ Len(waiters) \in Nat
    BY DEF IInv, TypeOK
  <1>2. r # holder
    BY DEF IInv, QueueInv, HolderInv
  <1>3. Asks' = [Asks EXCEPT ![r] = Exchange!Silence]
    BY <1>1 DEF Asks, TypeOK, Exchange!Silence, Nothing
  <1>4. CASE holder = NoRequest
    <2>1. Turns = waiters /\ Turns' = RemoveAt(Turns, k) /\ Turns[k] = r /\ k \in DOMAIN Turns
      BY <1>1, <1>4 DEF Turns
    <2>2. Exchange!Leave(k)
      BY <1>3, <1>4, <2>1, SameRemoval DEF Exchange!Leave, Exchange!Silence, Nothing
    <2>3. QED
      BY <2>1, <2>2
  <1>5. CASE holder # NoRequest
    <2>1. holder \in Requests
      BY <1>1, <1>5 DEF TypeOK
    <2>2. Turns = <<holder>> \o waiters /\ Turns' = <<holder>> \o RemoveAt(waiters, k)
      BY <1>5 DEF Turns
    <2>3. Turns' = RemoveAt(Turns, k + 1)
      BY <1>1, <2>1, <2>2, RemovedBehind
    <2>4. Turns[k + 1] = r /\ k + 1 \in DOMAIN Turns /\ k + 1 # 1
      BY <1>1, <2>1, <2>2
    <2>5. request'[holder] = request[holder]
      BY <1>1, <1>2, <2>1 DEF TypeOK
    <2>6. Exchange!Leave(k + 1)
      BY <1>3, <1>5, <2>3, <2>4, <2>5, SameRemoval DEF Exchange!Leave
    <2>7. QED
      BY <2>4, <2>6
  <1>6. QED
    BY <1>4, <1>5

\* The first of the queue gets the lock, and sends unless it has a name to resolve.
LEMMA GrantStep ==
  ASSUME IInv, NEW r \in Requests, Granted(r)
  PROVE  [Exchange!Next]_(Exchange!vars)
  <1>1. /\ TypeOK /\ holder = NoRequest /\ waiters # <<>> /\ waiters \in Seq(Requests)
        /\ r = Head(waiters) /\ waiters' = Tail(waiters)
        /\ request[r].stage = "queued"
    BY TailQueue DEF IInv, TypeOK, Granted
  <1>2. request[r] \in Records /\ request[r].client \in Clients
    BY <1>1, RequestType DEF Idle, Records
  <1>3. Turns = waiters /\ Turns # <<>>
    BY <1>1 DEF Turns
  <1>4. CASE Proceed(r, request[r].client, request[r].want)
    <2> DEFINE c == request[r].client
               w == request[r].want
    <2>1. holder' = r /\ Turns' = Turns
      <3>1. holder' = r /\ r # NoRequest
        BY <1>4, RequestsAssumption DEF Proceed
      <3>2. waiters = <<r>> \o Tail(waiters)
        BY <1>1
      <3>3. QED
        BY <1>1, <1>3, <3>1, <3>2 DEF Turns
    <2>2. \E v \in Records : /\ request' = [request EXCEPT ![r] = v]
                              /\ v.want = w /\ v.client = c
      <3>1. \A s \in {"resolving", "awaiting"} :
              [stage |-> s, client |-> c, want |-> w] \in Records
        BY <1>2 DEF Records, Stages
      <3>2. QED
        BY <1>4, <3>1 DEF Proceed
    <2>3. request'[r].client = c /\ Asks' = Asks
      <3>1. PICK v \in Records : request' = [request EXCEPT ![r] = v] /\ v.want = w /\ v.client = c
        BY <2>2
      <3>2. v # Idle /\ request[r] # Idle
        BY <1>2 DEF Records, Idle, Stages
      <3>3. \A q \in Requests : request'[q] = IF q = r THEN v ELSE request[q]
        BY <1>1, <3>1 DEF TypeOK
      <3>4. QED
        BY <3>1, <3>2, <3>3 DEF Asks
    <2>4. latest'[c] = Nothing /\ pending'[c] # "answered"
      <3>1. pending[c] = "none"
        BY <1>1, <1>2, RequestsAssumption DEF IInv, Owned, Resting
      <3>2. QED
        BY <1>1, <1>2, <1>4, <3>1 DEF Proceed, TypeOK
    <2>5. CASE request'[r].stage = "awaiting"
      <3>1. Exchange!Send
        BY <1>1, <1>3, <2>1, <2>3, <2>4, <2>5, RequestsAssumption DEF Exchange!Send
      <3>2. QED
        BY <3>1 DEF Exchange!Next
    <2>6. CASE request'[r].stage # "awaiting"
      BY <1>1, <2>1, <2>3, <2>4, <2>6, RequestsAssumption DEF Exchange!vars
    <2>7. QED
      BY <2>5, <2>6
  <1>5. CASE /\ request' = [request EXCEPT ![r] = Idle]
             /\ UNCHANGED <<holder, pending, expected, response, latest>>
    <2>1. 1 \in 1 .. Len(waiters) /\ waiters[1] = r
      BY <1>1
    <2>2. waiters' = RemoveAt(waiters, 1)
      BY <1>1, RemovedTail
    <2>3. QED
      BY <1>5, <2>1, <2>2, QueuedLeaves DEF Exchange!Next
  <1>6. QED
    BY <1>4, <1>5 DEF Granted

LEMMA SendStep ==
  ASSUME IInv, NEW r \in Requests, NEW a \in Addresses, Resolved(r, a)
  PROVE  Exchange!Next
  <1>1. /\ r = holder /\ request[r].stage = "resolving" /\ r # NoRequest /\ TypeOK
        /\ request[r] \in Records /\ request[r].client \in Clients
    <2>1. r = holder /\ request[r].stage = "resolving" /\ TypeOK /\ r # NoRequest
      BY RequestsAssumption DEF IInv, HolderInv, Resolved
    <2>2. QED
      BY <2>1, RequestType DEF Idle, Records
  <1>2. PICK c \in Clients : c = request[r].client
    BY <1>1
  <1>3. CASE End(r)
    BY <1>1, <1>3, HeadLeaves DEF Exchange!Next
  <1>4. CASE /\ request' = [request EXCEPT ![r].stage = "awaiting"]
             /\ pending' = [pending EXCEPT ![c] = "waiting"]
             /\ UNCHANGED <<expected, response, lock, latest>>
    <2>1. /\ request'[r] = [stage |-> "awaiting", client |-> c, want |-> request[r].want]
          /\ \A q \in Requests \ {r} : request'[q] = request[q]
      BY <1>1, <1>2, <1>4 DEF TypeOK, Records
    <2>2. Asks' = Asks
      <3>1. request'[r] # Idle /\ request[r] # Idle /\ request'[r].want = request[r].want
        BY <1>1, <2>1 DEF Idle
      <3>2. QED
        BY <2>1, <3>1 DEF Asks
    <2>3. Turns' = Turns /\ holder' = r /\ Turns # <<>>
      BY <1>1, <1>4, HeadIsHolder DEF Turns, lock
    <2>4. request'[r].client = c /\ request'[r].stage = "awaiting"
      BY <2>1
    <2>5. pending[c] = "none" /\ pending'[c] = "waiting"
      BY <1>1, <1>2, <1>4 DEF IInv, TypeOK, Owned, Serves
    <2>6. Exchange!Send
      BY <1>1, <1>2, <1>4, <2>2, <2>3, <2>4, <2>5 DEF Exchange!Send
    <2>7. QED
      BY <2>6 DEF Exchange!Next
  <1>5. QED
    BY <1>2, <1>3, <1>4 DEF Resolved

\* A report to the client that waits: what is collected is complete exactly when what
\* was said fulfils the request.
LEMMA ReportStep ==
  ASSUME IInv, IInv', NEW a \in Addresses, NEW p \in Payloads, Datagram(a, p)
  PROVE  [Exchange!Next]_(Exchange!vars)
  <1> DEFINE served == {c \in Hearers(a) : pending[c] = "waiting"}
  <1>1. TypeOK /\ UNCHANGED <<state, expected, request, holder, waiters, listening>>
    BY DEF Datagram, lock, IInv
  <1>2. ASSUME NEW c \in Clients
        PROVE  /\ pending'[c] = IF c \in served /\ Complete(response'[c], expected[c])
                                THEN "answered" ELSE pending[c]
               /\ latest'[c] = IF c \in served
                               THEN [f \in Fields |-> IF p[f] = Absent THEN latest[c][f] ELSE p[f]]
                               ELSE latest[c]
               /\ c \in served => pending[c] = "waiting"
    BY DEF Datagram
  <1>3. served \subseteq Clients
    BY DEF Hearers
  <1> HIDE DEF served
  <1>4. Turns' = Turns /\ Asks' = Asks
    BY <1>1 DEF Turns, Asks
  <1>5. CASE holder = NoRequest
    BY <1>1, <1>4, <1>5 DEF Exchange!vars
  <1>6. CASE holder # NoRequest
    <2>1. holder \in Requests /\ request[holder] \in Records
          /\ request[holder].stage \in {"resolving", "awaiting"}
      BY <1>6, HolderType
    <2>2. PICK c \in Clients : c = request[holder].client
      BY <2>1 DEF Records
    <2>3. Serves(c)
      BY <2>1, <2>2 DEF IInv, Owned
    <2>4. CASE c \notin served
      BY <1>1, <1>2, <1>4, <1>6, <2>2, <2>4 DEF Exchange!vars
    <2>5. CASE c \in served
      <3>1. pending[c] = "waiting" /\ request[holder].stage = "awaiting"
        BY <1>2, <2>1, <2>3, <2>5 DEF Serves
      <3>2. latest'[c] = [f \in Fields |-> IF p[f] = Absent THEN latest[c][f] ELSE p[f]]
        BY <1>2, <2>5
      <3>3. Asks[Head(Turns)] = expected[c]
        BY <1>1, <1>6, <2>1, <2>3, HeadIsHolder, AsksType DEF Serves, Idle, Records, Stages
      <3>4. Complete(response'[c], expected[c]) <=> Exchange!Fulfils(latest'[c], expected[c])
        <4>1. \A f \in Fields : expected[c][f] # Absent =>
                response'[c][f] = IF latest'[c][f] # Absent
                                     /\ Matches(latest'[c][f], expected[c][f])
                                  THEN latest'[c][f] ELSE Absent
          BY <1>1 DEF IInv, Collected
        <4>2. QED
          BY <4>1 DEF Complete, Exchange!Fulfils, Matches
      <3>5. pending'[c] = "answered" <=> Exchange!Fulfils(latest'[c], expected[c])
        BY <1>2, <2>5, <3>1, <3>4
      <3>6. p \in Exchange!Sayings
        BY DEF Exchange!Sayings, Payloads
      <3>7. Exchange!Hear(p)
        <4> DEFINE said == IF holder = NoRequest THEN Nothing
                           ELSE latest[request[holder].client]
                   answered == holder # NoRequest
                                 /\ pending[request[holder].client] = "answered"
        <4>1. said = latest[c] /\ said' = latest'[c] /\ Asks'[Head(Turns)'] = expected[c]
          BY <1>1, <1>4, <1>6, <2>2, <3>3
        <4>2. ~answered /\ answered' = Exchange!Fulfils(said', Asks[Head(Turns)])
          <5>1. ~answered /\ (answered' <=> pending'[c] = "answered")
            BY <1>1, <1>6, <2>2, <3>1
          <5>2. answered' <=> Exchange!Fulfils(said', Asks[Head(Turns)])
            BY <3>3, <3>5, <4>1, <5>1
          <5>3. answered' \in BOOLEAN /\ Exchange!Fulfils(said', Asks[Head(Turns)]) \in BOOLEAN
            BY DEF Exchange!Fulfils
          <5>4. QED
            BY <5>1, <5>2, <5>3
        <4>3. said' = [f \in Fields |-> IF p[f] = Absent THEN said[f] ELSE p[f]]
          BY <3>2, <4>1
        <4>4. QED
          BY <1>1, <1>4, <1>6, <3>1, <4>2, <4>3 DEF Exchange!Hear
      <3>8. QED
        BY <3>6, <3>7 DEF Exchange!Next
    <2>6. QED
      BY <2>4, <2>5
  <1>7. QED
    BY <1>5, <1>6

\* The clients of a device, their lock, their futures and the collection of fields
\* implement Exchange: turns in order, one packet for each, an answer exactly when the
\* device has said everything that was asked for (udp.py:216-239 and 253-264).
THEOREM RefinesExchange == Spec => ImplementsExchange
  <1>1. Init => Exchange!Init
    BY DEF Init, Exchange!Init, Exchange!Silence, Nothing, Turns, Asks
  <1>2. ASSUME IInv, IInv', [Next]_vars PROVE [Exchange!Next]_(Exchange!vars)
    <2>1. TypeOK /\ (holder # NoRequest => request[holder].client \in Clients)
      BY <1>2, HolderType DEF IInv, Records
    <2>2. ASSUME NEW r \in Requests, RequestStep(r) PROVE [Exchange!Next]_(Exchange!vars)
      <3>1. CASE \E c \in Clients, w \in Wants : Begin(r, c, w)
        BY <1>2, <3>1, AskStep DEF Exchange!Next
      <3>2. CASE Granted(r)
        BY <1>2, <3>2, GrantStep
      <3>3. ASSUME End(r), request[r].stage \in {"resolving", "awaiting"} PROVE Exchange!Next
        <4>1. r = holder
          BY <1>2, <3>3 DEF IInv, HolderInv
        <4>2. QED
          BY <1>2, <3>3, <4>1, HeadLeaves DEF Exchange!Next
      <3>4. CASE Finish(r) \/ TimeOut(r)
        BY <3>3, <3>4 DEF Finish, TimeOut
      <3>5. CASE Cancel(r)
        <4>1. CASE /\ \E i \in DOMAIN waiters : waiters[i] = r /\ waiters' = RemoveAt(waiters, i)
                   /\ request' = [request EXCEPT ![r] = Idle]
                   /\ UNCHANGED <<holder, pending, expected, response, latest>>
          <5>1. PICK k \in 1 .. Len(waiters) : waiters[k] = r /\ waiters' = RemoveAt(waiters, k)
            BY <2>1, <4>1 DEF TypeOK
          <5>2. QED
            BY <1>2, <4>1, <5>1, QueuedLeaves DEF Exchange!Next
        <4>2. CASE request[r].stage # "queued" /\ End(r)
          BY <2>1, <3>3, <3>5, <4>2, RequestType DEF Cancel, Stages
        <4>3. QED
          BY <3>5, <4>1, <4>2 DEF Cancel
      <3>6. CASE \E a \in Addresses : Resolved(r, a)
        BY <1>2, <3>6, SendStep
      <3>7. QED
        BY <2>2, <3>1, <3>2, <3>4, <3>5, <3>6 DEF RequestStep
    <2>3. ASSUME NEW c \in Clients, ClientStep(c) PROVE UNCHANGED Exchange!vars
      <3>1. /\ UNCHANGED <<request, holder, waiters, latest>>
            /\ \/ pending' = pending
               \/ pending' = [pending EXCEPT ![c] = IF @ = "waiting" THEN "failed" ELSE @]
        BY <2>3 DEF ClientStep, Open, PointAt, Close, Renew, lock
      <3>2. \A d \in Clients : pending'[d] = "answered" <=> pending[d] = "answered"
        BY <2>1, <3>1 DEF TypeOK
      <3>3. QED
        BY <2>1, <3>1, <3>2, ExchangeKept
    <2>4. CASE \E a \in Addresses, p \in Payloads : Datagram(a, p)
      BY <1>2, <2>4, ReportStep
    <2>5. CASE ListenerCloses \/ UNCHANGED vars
      BY <2>1, <2>5, ExchangeKept DEF ListenerCloses, vars, client, lock
    <2>6. QED
      BY <1>2, <2>2, <2>3, <2>4, <2>5 DEF Next
  <1>3. QED
    BY <1>1, <1>2, Inductive, PTL DEF Spec, ImplementsExchange, Exchange!Spec

-------------------------------------------------------------------------------
(* Reception by a client that is configured by its device's address *)

\* The device has one address, and whoever points a client at it knows that address.
OnePlace == Hosts \subseteq Addresses /\ \A a, b \in Addresses : a = b

Placed == \A c \in Clients : host[c] \in Addresses \cup {NoHost}

LEMMA PlacedStep ==
  ASSUME OnePlace, TypeOK, Placed, [Next]_vars
  PROVE  Placed'
  <1> USE DEF Placed, TypeOK, OnePlace
  <1>1. ASSUME NEW r \in Requests, RequestStep(r) PROVE Placed'
    <2>1. CASE \E a \in Addresses : Resolved(r, a)
      BY <2>1 DEF Resolved
    <2>2. CASE ~\E a \in Addresses : Resolved(r, a)
      <3>1. UNCHANGED host
        BY <1>1, <2>2 DEF RequestStep, Begin, Granted, Finish, TimeOut, Cancel
      <3>2. QED
        BY <3>1
    <2>3. QED
      BY <2>1, <2>2
  <1>2. ASSUME NEW c \in Clients, ClientStep(c) PROVE Placed'
    BY <1>2 DEF ClientStep, Open, PointAt, Close, Renew
  <1>3. CASE \E a \in Addresses, p \in Payloads : Datagram(a, p)
    BY <1>3 DEF Datagram
  <1>4. CASE ListenerCloses \/ UNCHANGED vars
    BY <1>4 DEF ListenerCloses, vars, client
  <1>5. QED
    BY <1>1, <1>2, <1>3, <1>4 DEF Next

\* A device that is configured by its one address is heard by every open client,
\* between requests, during them and after a timeout (udp.py:246-249); the violation
\* needs a host name or a second address.
THEOREM AddressedReportsReach == OnePlace /\ Spec => ReportsReach
  <1> SUFFICES ASSUME OnePlace PROVE Spec => ReportsReach
    OBVIOUS
  <1>1. Init => Placed
    BY DEF Init, Placed
  <1>2. IInv /\ Placed /\ [Next]_vars => Placed'
    BY PlacedStep DEF IInv
  <1>3. ASSUME IInv, Placed, IInv',
               NEW a \in Addresses, NEW p \in Payloads, Datagram(a, p),
               NEW c \in Clients, state[c] = "open"
        PROVE  host'[c] = a
    <2>1. host[c] \in {NoHost, a}
      BY <1>3 DEF Placed, OnePlace
    <2>2. QED
      BY <1>3, <2>1 DEF Datagram, Hearers
  <1>4. IInv /\ Placed /\ IInv' /\ [Next]_vars =>
          (\A a \in Addresses, p \in Payloads : Datagram(a, p) =>
             \A c \in Clients : state[c] = "open" => host'[c] = a)
    BY <1>3
  <1>5. QED
    BY <1>1, <1>2, <1>4, Inductive, PTL DEF Spec, ReportsReach
===============================================================================
