------------------------------ MODULE Activity ------------------------------
(***************************************************************************)
(* The last thing said in each channel, and one tab's list of channels:    *)
(* recordActivity and list of server/src/channels/routes.ts, the fan-out   *)
(* of channels/events.ts, and the hook that keeps the list live            *)
(* (app/src/lib/channels/use-channel-events.ts).                           *)
(*                                                                         *)
(* What was said is known by its time.  A client reports it over HTTP and  *)
(* never looks whether that worked, so reports are lost and reordered; a   *)
(* report that counts is announced to the tab's socket in commit order.    *)
(***************************************************************************)
EXTENDS Naturals, Sequences, FiniteSets

CONSTANTS Channels,
          MaxSaid,      \* how many things are said
          MaxDrops      \* how often the socket is lost

VARIABLES
    said,       \* how many things were said: the clock of the reporting client
    reports,    \* the reports on their way
    last,       \* channels.last_message_at, else created_at; 0 before the channel exists
    notified,   \* the announcements on their way to the server, and from it to the tab
    inbox,
    socket,     \* the tab's connection
    drops,
    fetch,      \* the list request in flight, and what it read
    list,       \* the tab's cache: the time of each channel it knows, 0 for the others
    overtaken   \* an event was applied between the reading of a list and its arrival

vars == <<said, reports, last, notified, inbox, socket, drops, fetch, list, overtaken>>

NoFetch == [at |-> "none", rows |-> [c \in Channels |-> 0]]
Asked == [NoFetch EXCEPT !.at = "asked"]

Init ==
    /\ said = 0
    /\ reports = {}
    /\ last = [c \in Channels |-> 0]
    /\ notified = <<>>
    /\ inbox = <<>>
    /\ socket = "closed"
    /\ drops = 0
    /\ fetch = NoFetch
    /\ list = [c \in Channels |-> 0]
    /\ overtaken = FALSE

-----------------------------------------------------------------------------
\* A channel is created, in this tab or in another one: nothing is announced, and the tab that did it
\* asks for the list again.
Create(c) ==
    /\ last[c] = 0 /\ said < MaxSaid
    /\ said' = said + 1
    /\ last' = [last EXCEPT ![c] = said']
    /\ fetch' \in {fetch, Asked}
    /\ UNCHANGED <<reports, notified, inbox, socket, drops, list, overtaken>>

\* The client that ran the Bot reports a message or an answer.
Report(c) ==
    /\ last[c] # 0 /\ said < MaxSaid
    /\ said' = said + 1
    /\ reports' = reports \cup {<<c, said'>>}
    /\ UNCHANGED <<last, notified, inbox, socket, drops, fetch, list, overtaken>>

LoseReport(r) ==
    /\ r \in reports
    /\ reports' = reports \ {r}
    /\ UNCHANGED <<said, last, notified, inbox, socket, drops, fetch, list, overtaken>>

\* A wrong variant: the last report to arrive wins.
RecordLatest(r) ==
    /\ r \in reports
    /\ reports' = reports \ {r}
    /\ last' = [last EXCEPT ![r[1]] = r[2]]
    /\ notified' = Append(notified, r)
    /\ UNCHANGED <<said, inbox, socket, drops, fetch, list, overtaken>>

\* recordActivity: only ever forwards, and what changes is announced with the commit.
RecordActivity(r) ==
    /\ r \in reports
    /\ reports' = reports \ {r}
    /\ IF last[r[1]] < r[2]
       THEN /\ last' = [last EXCEPT ![r[1]] = r[2]]
            /\ notified' = Append(notified, r)
       ELSE UNCHANGED <<last, notified>>
    /\ UNCHANGED <<said, inbox, socket, drops, fetch, list, overtaken>>

\* The listener's hub hands the announcement to the connections there are.
DeliverEvent ==
    /\ notified # <<>>
    /\ notified' = Tail(notified)
    /\ inbox' = IF socket = "open" THEN Append(inbox, Head(notified)) ELSE inbox
    /\ UNCHANGED <<said, reports, last, socket, drops, fetch, list, overtaken>>

-----------------------------------------------------------------------------
\* A wrong variant: a socket that opens changes nothing.
OpenQuietly ==
    /\ socket = "closed"
    /\ socket' = "open"
    /\ UNCHANGED <<said, reports, last, notified, inbox, drops, fetch, list, overtaken>>

\* connect, at once and after each retry delay: an open socket asks for the list again, in place of
\* any request in flight.
OnOpen ==
    /\ socket = "closed"
    /\ socket' = "open"
    /\ fetch' = Asked
    /\ UNCHANGED <<said, reports, last, notified, inbox, drops, list, overtaken>>

\* The connection is lost, with what was on it.
OnClose ==
    /\ socket = "open" /\ drops < MaxDrops
    /\ drops' = drops + 1
    /\ socket' = "closed"
    /\ inbox' = <<>>
    /\ UNCHANGED <<said, reports, last, notified, fetch, list, overtaken>>

\* onmessage: a channel of the cache takes what the event says; of an unknown one the list is asked
\* for again.
OnMessage ==
    LET e == Head(inbox) IN
    /\ inbox # <<>>
    /\ inbox' = Tail(inbox)
    /\ IF list[e[1]] # 0
       THEN list' = [list EXCEPT ![e[1]] = e[2]] /\ UNCHANGED fetch
       ELSE fetch' = Asked /\ UNCHANGED list
    /\ overtaken' = (overtaken \/ fetch.at = "read")
    /\ UNCHANGED <<said, reports, last, notified, socket, drops>>

\* The list is read, and arrives later: it replaces the cache, events applied meanwhile included.
ReadList ==
    /\ fetch.at = "asked"
    /\ fetch' = [at |-> "read", rows |-> last]
    /\ UNCHANGED <<said, reports, last, notified, inbox, socket, drops, list, overtaken>>

ListArrives ==
    /\ fetch.at = "read"
    /\ fetch' = NoFetch
    /\ list' = fetch.rows
    /\ UNCHANGED <<said, reports, last, notified, inbox, socket, drops, overtaken>>

Next ==
    \/ \E c \in Channels : Create(c) \/ Report(c)
    \/ \E r \in Channels \X (1..MaxSaid) : LoseReport(r) \/ RecordActivity(r)
    \/ DeliverEvent \/ OnOpen \/ OnClose \/ OnMessage \/ ReadList \/ ListArrives

\* Announcements are delivered, a lost socket is retried for as long as the tab is there, handlers
\* run, and the list is answered.
Fairness ==
    /\ WF_vars(DeliverEvent) /\ WF_vars(OnOpen) /\ WF_vars(OnMessage)
    /\ WF_vars(ReadList) /\ WF_vars(ListArrives)

Spec == Init /\ [][Next]_vars /\ Fairness

-----------------------------------------------------------------------------
\* The tab knows no channel that does not exist.
TypeOK ==
    /\ socket \in {"open", "closed"}
    /\ \A c \in Channels : (list[c] # 0 => last[c] # 0) /\ last[c] <= said

\* The last thing said in a channel is never replaced by an earlier one, however its reports arrive.
LastMovesForward == [][\A c \in Channels : last'[c] >= last[c]]_vars

\* Every channel in which something was said is in the end listed with the last thing that was said
\* in it, whatever events were missed while the socket was down, unless a list that arrived late took
\* back what an event had told.
RosterCatchesUp ==
    <>[](overtaken \/ \A c \in Channels : list[c] # 0 => list[c] = last[c])
=============================================================================
