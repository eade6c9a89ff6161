----------------------------- MODULE UdpTransport -----------------------------
(***************************************************************************)
(* ZM1UdpTransport (transport.py) in the life of its config entry: polls with *)
(* one retry, discovery of a device that moved, the polling policy and the     *)
(* Repairs issue, and the reload that saving a discovered address causes.      *)
(*                                                                         *)
(* An address stands for the port the entry saves with it.  The module says    *)
(* when a poll may begin, not after which delay: the interval is policy.interval. *)
(* Requests are those of module UdpClient, seen by the poll that makes them; its  *)
(* client's lock and replies to others are left out.                            *)
(***************************************************************************)
EXTENDS Polling

CONSTANTS
  Addresses,    \* IPv4 addresses the device has had
  Names,        \* host names
  NoHost,       \* ""
  Configs,      \* what the host option may be: NoHost, an address or a name
  TTL           \* OBSERVATION_TTL, in ticks

ASSUME TransportAssumption ==
  /\ NoHost \notin Addresses \cup Names
  /\ Names \cap Addresses = {}
  /\ Configs \subseteq Addresses \cup Names \cup {NoHost}
  /\ TTL \in Nat \ {0}

VARIABLES
  life,         \* of the entry
  configured,   \* configured_host
  lastHost,     \* CONF_LAST_HOST in the entry
  named,        \* CONF_ZEROCONF_NAME in the entry is not empty
  known,        \* nor is the transport's zeroconf_name
  host,         \* the client's host
  at,           \* where the device is
  listening,    \* the client is attached to the listener
  policy,
  silence,      \* ticks since last_received_monotonic, BaseInterval if too many or None
  measured,     \* ticks since the measurement the coordinator holds, TTL if too many or none
  poll,         \* where async_update_data is
  search,       \* where the discovery of the poll is
  command,      \* a command that found no host
  issue,        \* udp_response_unavailable: raised by this transport or left by another
  reloadDue     \* the entry's update listener was called

entry == <<life, configured, lastHost, named, reloadDue>>
client == <<host, known, listening, silence, measured>>
polling == <<poll, search>>
vars == <<life, configured, lastHost, named, known, host, at, listening, policy, silence,
          measured, poll, search, command, issue, reloadDue>>

\* What an entry may save, and a client be pointed at.
Saved == Addresses \cup {NoHost}
Hosts == Saved \cup Names

\* asking and again: the first and second query.  pausing: between them.
\* finding: no host is known.  locating: discovery is forced before the second query.
Stages == {"idle", "finding", "asking", "pausing", "locating", "again"}
Discovering == {"finding", "locating"}

\* A command that found no host: of the transport, or of an earlier one that knew or did
\* not know the service's name.
Commands == {"none", "locating", "stale", "nameless"}

TypeOK ==
  /\ life \in {"off", "loading", "loaded", "reloading", "leaving"}
  /\ configured \in Configs
  /\ lastHost \in Saved
  /\ named \in BOOLEAN /\ known \in BOOLEAN
  /\ host \in Hosts
  /\ at \in Addresses
  /\ listening \in BOOLEAN
  /\ policy \in Policies
  /\ silence \in 0 .. BaseInterval
  /\ measured \in 0 .. TTL
  /\ poll \in Stages
  /\ search \in {"none", "name", "browse", "broadcast"}
  /\ search # "none" <=> poll \in Discovering
  /\ command \in Commands
  /\ issue \in {"none", "raised", "left"}
  /\ reloadDue \in BOOLEAN

Init ==
  /\ life = "off"
  /\ configured \in Configs
  /\ lastHost \in Saved
  /\ named \in BOOLEAN /\ known = named
  /\ host = NoHost
  /\ at \in Addresses
  /\ listening = FALSE
  /\ policy = NewPolicy
  /\ silence = BaseInterval
  /\ measured = TTL
  /\ poll = "idle"
  /\ search = "none"
  /\ command = "none"
  /\ issue = "none"
  /\ reloadDue = FALSE

HasRecentReport == silence < BaseInterval

\* A poll enters a stage; discovery starts with the service's name if there is one.
Goes(stage) ==
  /\ poll' = stage
  /\ search' = IF stage \notin Discovering THEN "none" ELSE IF known' THEN "name" ELSE "browse"

-------------------------------------------------------------------------------
(* The entry *)

Running == life \in {"loading", "loaded"}
Closing == life \in {"reloading", "leaving"}

\* A new transport: its client and its first refresh, which is a poll.
Setup ==
  /\ life \in {"off", "reloading"}
  /\ poll = "idle"
  /\ host' = IF configured # NoHost THEN configured ELSE lastHost
  /\ known' = named
  /\ policy' = NewPolicy
  /\ silence' = BaseInterval
  /\ command' = IF command = "locating" THEN (IF known THEN "stale" ELSE "nameless") ELSE command
  /\ issue' = IF issue = "raised" THEN "left" ELSE issue
  /\ reloadDue' \in {reloadDue, FALSE}
  /\ \/ /\ listening' = TRUE
        /\ life' = "loading"
        /\ Goes(IF host' # NoHost THEN "asking" ELSE "finding")
     \/ /\ listening' = FALSE     \* the port is taken; polls will try again
        /\ life' = "loaded"
        /\ Goes("idle")
  /\ UNCHANGED <<configured, lastHost, named, at, measured>>

\* async_unload_entry drops the coordinator and closes the client.
Unload(next) ==
  /\ life = "loaded"
  /\ life' = next
  /\ listening' = FALSE
  /\ measured' = TTL
  /\ UNCHANGED <<configured, lastHost, named, known, host, at, policy, silence, polling, command,
                 issue>>

Reload == reloadDue /\ reloadDue' = FALSE /\ Unload("reloading")

UserUnload == UNCHANGED reloadDue /\ Unload("leaving")

Unloaded ==
  /\ life = "leaving"
  /\ poll = "idle"
  /\ life' = "off"
  /\ UNCHANGED <<configured, lastHost, named, client, at, policy, polling, command, issue,
                 reloadDue>>

-------------------------------------------------------------------------------
(* A poll *)

PollEnds ==
  /\ Goes("idle")
  /\ life' = IF life = "loading" THEN "loaded" ELSE life

\* Failed with a mistake: a poll that failed counts although the device was heard.
FailedAlways ==
  /\ PollEnds
  /\ policy' = RecordFailure(policy)
  /\ issue' = IF ShouldReportUnavailable(policy') THEN "raised" ELSE issue
  /\ UNCHANGED <<configured, lastHost, named, client, at, command, reloadDue>>

\* except ZM1Error.
Failed ==
  /\ PollEnds
  /\ \/ /\ HasRecentReport
        /\ UNCHANGED <<policy, issue>>
     \/ /\ ~HasRecentReport
        /\ policy' = RecordFailure(policy)
        /\ issue' = IF ShouldReportUnavailable(policy') THEN "raised" ELSE issue
  /\ UNCHANGED <<configured, lastHost, named, client, at, command, reloadDue>>

\* The client is pointed at the configured host for every request, a name included.
Aimed == host' = IF configured # NoHost THEN configured ELSE host

PollStarts ==
  /\ life = "loaded"
  /\ poll = "idle"
  /\ listening' = TRUE
  /\ Aimed
  /\ UNCHANGED <<entry, known, at, policy, silence, measured, command, issue>>
  /\ Goes(IF host' # NoHost THEN "asking" ELSE "finding")

\* async_start cannot bind the port.
PollCannotStart ==
  /\ life = "loaded"
  /\ poll = "idle"
  /\ ~listening
  /\ Failed

\* getaddrinfo resolves the name a request of a poll or a command is sent to.
NameResolved(h) ==
  /\ host \in Names
  /\ listening
  /\ life = "loaded" \/ (life = "loading" /\ poll \in {"asking", "again"})
  /\ host' = h
  /\ UNCHANGED <<entry, known, at, listening, policy, silence, measured, polling, command, issue>>

\* getaddrinfo raises: no time-out, hence no second query.
NameFails ==
  /\ host \in Names
  /\ poll \in {"asking", "again"}
  /\ Running
  /\ Failed

\* The first query times out.
NoAnswer ==
  /\ poll = "asking"
  /\ Running
  /\ UNCHANGED <<configured, lastHost, named, client, at, policy, command, issue, reloadDue>>
  /\ \/ /\ HasRecentReport
        /\ PollEnds
     \/ /\ ~HasRecentReport
        /\ Goes("pausing")
        /\ UNCHANGED life

\* After the pause: discovery is forced unless the device was healthy or is configured.
Resume ==
  /\ poll = "pausing"
  /\ Running
  /\ Aimed
  /\ UNCHANGED <<entry, known, at, listening, policy, silence, measured, command, issue>>
  /\ Goes(IF configured = NoHost /\ (host = NoHost \/ policy.failures > 0)
          THEN "locating" ELSE "again")


NoAnswerAgain ==
  /\ poll = "again"
  /\ Running
  /\ Failed

\* The poll of a client that was closed: its request fails, or it is cancelled.
PollCut ==
  /\ Closing
  /\ poll # "idle"
  /\ \/ /\ poll \notin Discovering
        /\ Failed
     \/ /\ PollEnds
        /\ UNCHANGED <<configured, lastHost, named, client, at, policy, command, issue, reloadDue>>

-------------------------------------------------------------------------------
(* Discovery: by the service's name, by browsing for its MAC, by broadcast *)

\* What _async_get_udp_client does with an address it found.  The update listener
\* is registered when the first refresh has ended.
Save(h, name) ==
  /\ lastHost' = h
  /\ named' = name
  /\ reloadDue' = (reloadDue \/ (/\ h # lastHost \/ name # named
                                 /\ life = "loaded" \/ Closing))

\* Located with a mistake: what was found is kept instead of its address.
LocatedInfo(h) ==
  /\ host' = <<h>>
  /\ UNCHANGED <<life, configured, at, listening, policy, silence, measured, command, issue>>
  /\ Save(h, known')
  /\ Goes(IF poll = "finding" THEN "asking" ELSE "again")

Located(h) ==
  /\ host' = h
  /\ UNCHANGED <<life, configured, at, listening, policy, silence, measured, command, issue>>
  /\ Save(h, known')
  /\ Goes(IF poll = "finding" THEN "asking" ELSE "again")

SearchOn(stage) ==
  /\ search' = stage
  /\ UNCHANGED <<entry, client, at, policy, poll, command, issue>>

\* Whatever address the name has, in the cache or on the network: the MAC is not compared.
Resolved(h) ==
  /\ search = "name"
  /\ UNCHANGED known
  /\ Located(h)

\* Unresolved with a mistake: a name that cannot be resolved ends the search.
UnresolvedFails ==
  /\ search = "name"
  /\ Failed

\* The request times out, or the service has no IPv4 address.
Unresolved ==
  /\ search = "name"
  /\ SearchOn("browse")

\* discover_mdns: a service with the device's MAC; its name is kept.
Browsed(h) ==
  /\ search = "browse"
  /\ known' = TRUE
  /\ Located(h)

NotBrowsed ==
  /\ search = "browse"
  /\ SearchOn("broadcast")

\* Zeroconf() cannot open its sockets: no ZM1Error, hence no failure to the policy.
BrowseRaises ==
  /\ search = "browse"
  /\ PollEnds
  /\ UNCHANGED <<configured, lastHost, named, client, at, policy, command, issue, reloadDue>>

\* A report with the device's MAC came during the window; the device may have moved since.
Answered(h) ==
  /\ search = "broadcast"
  /\ UNCHANGED known
  /\ Located(h)

\* No report, or the broadcast could not be sent.
NotAnswered ==
  /\ search = "broadcast"
  /\ Failed

\* A command when the host is configured or known.
CommandStarts ==
  /\ life = "loaded"
  /\ configured # NoHost \/ host # NoHost
  /\ listening' = TRUE
  /\ Aimed
  /\ UNCHANGED <<entry, known, at, policy, silence, measured, polling, command, issue>>

\* A command when no host is known.  It outlives its transport.
CommandLocates ==
  /\ life = "loaded"
  /\ command = "none"
  /\ configured = NoHost /\ host = NoHost
  /\ listening' = TRUE
  /\ command' = "locating"
  /\ UNCHANGED <<entry, host, known, at, policy, silence, measured, polling, issue>>

\* The transport of the command saves the name it knew, unless it learned one.
CommandLocated(h) ==
  /\ command # "none"
  /\ command' = "none"
  /\ \/ /\ command = "locating"
        /\ host' = h
        /\ known' \in {known, TRUE}
        /\ Save(h, known')
     \/ /\ command # "locating"
        /\ UNCHANGED <<host, known>>
        /\ \E name \in {command = "stale", TRUE} : Save(h, name)
  /\ UNCHANGED <<life, configured, at, listening, policy, silence, measured, polling, issue>>

CommandNotLocated ==
  /\ command # "none"
  /\ command' = "none"
  /\ UNCHANGED <<entry, client, at, policy, polling, issue>>

-------------------------------------------------------------------------------
(* The device and time *)

\* Report with a mistake: recovery is looked up before the report is recorded.
ReportEarly(kind) ==
  /\ Running /\ listening
  /\ host \in {NoHost, at}
  /\ host' = at
  /\ policy' = RecordSuccess(policy)
  /\ issue' = IF IsHealthy(policy) THEN "none" ELSE issue
  /\ silence' = 0
  /\ measured' = IF kind = "sensor" THEN 0 ELSE measured
  /\ \/ /\ kind = "state" /\ poll \in {"asking", "again"}
        /\ PollEnds
     \/ /\ ~(kind = "state" /\ poll \in {"asking", "again"})
        /\ UNCHANGED <<polling, life>>
  /\ UNCHANGED <<configured, lastHost, named, known, at, listening, command, reloadDue>>

\* Report with a mistake: only an issue this transport has raised is removed.
ReportOwn(kind) ==
  /\ Running /\ listening
  /\ host \in {NoHost, at}
  /\ host' = at
  /\ policy' = RecordSuccess(policy)
  /\ issue' = IF IsHealthy(policy') /\ issue = "raised" THEN "none" ELSE issue
  /\ silence' = 0
  /\ measured' = IF kind = "sensor" THEN 0 ELSE measured
  /\ \/ /\ kind = "state" /\ poll \in {"asking", "again"}
        /\ PollEnds
     \/ /\ ~(kind = "state" /\ poll \in {"asking", "again"})
        /\ UNCHANGED <<polling, life>>
  /\ UNCHANGED <<configured, lastHost, named, known, at, listening, command, reloadDue>>

\* A report the client hears; a full state report answers the query of a poll.
Report(kind) ==
  /\ Running /\ listening
  /\ host \in {NoHost, at}
  /\ host' = at
  /\ policy' = RecordSuccess(policy)
  /\ issue' = IF IsHealthy(policy') THEN "none" ELSE issue
  /\ silence' = 0
  /\ measured' = IF kind = "sensor" THEN 0 ELSE measured
  /\ \/ /\ kind = "state" /\ poll \in {"asking", "again"}
        /\ PollEnds
     \/ /\ ~(kind = "state" /\ poll \in {"asking", "again"})
        /\ UNCHANGED <<polling, life>>
  /\ UNCHANGED <<configured, lastHost, named, known, at, listening, command, reloadDue>>

Move(a) ==
  /\ a # at
  /\ at' = a
  /\ UNCHANGED <<entry, client, policy, polling, command, issue>>

Tick ==
  /\ silence' = Least(silence + 1, BaseInterval)
  /\ measured' = Least(measured + 1, TTL)
  /\ UNCHANGED <<entry, host, known, at, listening, policy, polling, command, issue>>

-------------------------------------------------------------------------------
EntryStep == Setup \/ Reload \/ UserUnload \/ Unloaded

PollStep ==
  \/ PollStarts \/ PollCannotStart \/ NoAnswer \/ Resume \/ NoAnswerAgain \/ PollCut
  \/ NameFails \/ \E h \in Addresses : NameResolved(h)

SearchStep ==
  \/ Unresolved \/ NotBrowsed \/ BrowseRaises \/ NotAnswered
  \/ \E h \in Addresses : Resolved(h) \/ Browsed(h) \/ Answered(h)

CommandStep ==
  \/ CommandStarts \/ CommandLocates \/ CommandNotLocated
  \/ \E h \in Addresses : CommandLocated(h)

Next ==
  \/ EntryStep
  \/ PollStep
  \/ SearchStep
  \/ CommandStep
  \/ \E kind \in {"state", "sensor"} : Report(kind)
  \/ \E a \in Addresses : Move(a)
  \/ Tick

Spec == Init /\ [][Next]_vars

\* A poll that Home Assistant schedules.  One that finds the port taken when no more
\* failures are counted changes nothing: nobody is owed that the port is free.
Scheduled ==
  /\ listening \/ policy.failures < FailureBound
  /\ PollStarts \/ PollCannotStart

\* Home Assistant schedules polls and runs the reload; polls may find the port taken for
\* ever.  Requests, pauses and searches end in time.  A search that is tried again and
\* again does not mislead for ever: the name gets the device's address or none, and so
\* does browsing, unless it raises; a broadcast that is repeated is answered once.
\* Neither answers to queries nor the user are taken for granted.
Fairness ==
  /\ WF_vars(Scheduled)
  /\ WF_vars(NoAnswer) /\ WF_vars(Resume) /\ WF_vars(NoAnswerAgain)
  /\ WF_vars(PollCut)
  /\ WF_vars(SearchStep)
  /\ SF_vars(Unresolved \/ Resolved(at)) /\ SF_vars(NotBrowsed \/ Browsed(at) \/ BrowseRaises)
  /\ SF_vars(Answered(at))
  /\ WF_vars(Reload) /\ WF_vars(life = "reloading" /\ Setup)
  /\ WF_vars(Tick)

FairSpec == Spec /\ Fairness

-------------------------------------------------------------------------------
(* Properties *)

\* The interval between polls is the one the unrecovered failures ask for, within its
\* bounds: "Repeated failures increase the interval", "Stable success restores the
\* configured interval".
PolicyConsistent == Consistent(policy)

\* The Repairs issue stands for an outage: a transport that raised it has failed more
\* often than is tolerated and has not recovered, and one that found it removes it with
\* the first reports of a healthy device.
IssueStands ==
  /\ issue = "raised" => ShouldReportUnavailable(policy)
  /\ issue # "none" /\ HasRecentReport => ~IsHealthy(policy)

Trust ==
  IF IsHealthy(policy) THEN "healthy"
  ELSE IF ShouldReportUnavailable(policy) THEN "unavailable" ELSE "suspected"

Outage == INSTANCE Outage WITH
  Base <- BaseInterval,
  trust <- Trust,
  interval <- policy.interval,
  heard <- HasRecentReport,
  issue <- issue # "none"

\* The transport implements Outage: a device is given up only by polls that failed in
\* silence and never by halves, the backoff does not shrink before the device has
\* recovered, and an outage ends for the policy, the interval and the issue at once.
ImplementsOutage == Outage!Spec

\* Zeroconf can be opened in the end, or at least again and again when it is tried.
BrowsingWorks ==
  <>[][~BrowseRaises]_vars \/ []<><<NotBrowsed \/ Browsed(at)>>_vars


\* A device that is heard steadily is healthy in the end, although its polls may still
\* fail: the issue is removed, an issue left by an earlier load as well, and polls
\* are back at the configured interval.
SteadyRecovers ==
  <>[]HasRecentReport => <>[](issue = "none" /\ policy = NewPolicy)

\* A device that moved is found again, unless its address is configured: its own
\* reports are dropped, only discovery can adopt the new address.  The entry stays, the
\* port is not taken for ever, and browsing works.
FoundAgain ==
  /\ configured = NoHost
  /\ <>[](life \notin {"leaving", "off"})
  /\ []<>listening
  /\ BrowsingWorks
  => (host # at ~> host = at)

\* "Each sensor and brightness field stays available for 300 seconds after its last
\* valid report, independently of failed polls": after failed polls, a measurement is
\* not lost before its time unless the user unloads the entry.
KeepsMeasurements ==
  [][~IsHealthy(policy) /\ measured < TTL - 1 /\ measured' = TTL => life' = "leaving"]_vars
===============================================================================
