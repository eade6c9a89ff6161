------------------------------- MODULE Exchange -------------------------------
(***************************************************************************)
(* What the requests to one device promise, without clients, locks, futures,  *)
(* names and the collection of fields: they take turns in the order in which   *)
(* they came, each is sent at most once in its turn, and it is answered as soon *)
(* as, and only if, the last thing the device said since then of every field    *)
(* it asks for is as asked.                                                    *)
(***************************************************************************)
EXTENDS Sequences, SequencesExt

CONSTANTS Requests, Fields, Values, Null, Absent, AnyValue, Wants

VARIABLES
  turns,      \* the requests that have not ended, in order
  asks,       \* what each of them asks for
  sent,       \* the first of them was sent
  said,       \* what the device has said since
  answered    \* and that it is the answer

vars == <<turns, asks, sent, said, answered>>

Silence == [f \in Fields |-> Absent]

Sayings == [Fields -> Values \cup {Null, Absent}]

Init ==
  /\ turns = <<>>
  /\ asks = [r \in Requests |-> Silence]
  /\ sent = FALSE
  /\ said = Silence
  /\ answered = FALSE

Fulfils(saying, want) ==
  \A f \in Fields : want[f] # Absent =>
    /\ saying[f] # Absent
    /\ IF want[f] = AnyValue THEN saying[f] # Null ELSE saying[f] = want[f]

\* A request that comes alone may be sent at once.
Ask(r, want) ==
  /\ asks[r] = Silence
  /\ turns' = Append(turns, r)
  /\ asks' = [asks EXCEPT ![r] = want]
  /\ sent' \in BOOLEAN
  /\ turns # <<>> => UNCHANGED sent
  /\ UNCHANGED <<said, answered>>

Send ==
  /\ turns # <<>>
  /\ ~sent
  /\ sent' = TRUE
  /\ UNCHANGED <<turns, asks, said, answered>>

Hear(saying) ==
  /\ sent
  /\ ~answered
  /\ said' = [f \in Fields |-> IF saying[f] = Absent THEN said[f] ELSE saying[f]]
  /\ answered' = Fulfils(said', asks[Head(turns)])
  /\ UNCHANGED <<turns, asks, sent>>

\* A request returns, fails or is cancelled, wherever it is; those behind it move up.
Leave(i) ==
  /\ turns' = RemoveAt(turns, i)
  /\ asks' = [asks EXCEPT ![turns[i]] = Silence]
  /\ \/ /\ i = 1
        /\ sent' = FALSE /\ said' = Silence /\ answered' = FALSE
     \/ /\ i # 1
        /\ UNCHANGED <<sent, said, answered>>

Next ==
  \/ \E r \in Requests, want \in Wants : Ask(r, want)
  \/ Send
  \/ \E saying \in Sayings : Hear(saying)
  \/ \E i \in DOMAIN turns : Leave(i)

Spec == Init /\ [][Next]_vars
===============================================================================
