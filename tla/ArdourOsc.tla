------------------------------ MODULE ArdourOsc ------------------------------
(***************************************************************************)
(* mcp-ardour: ArdourOSCClient on one UDP socket, and the two tools that   *)
(* use it.  get_transport makes two query() calls, get_tracks one          *)
(* query_list(), which reads replies until the end marker or an overall    *)
(* deadline, setting the socket's timeout anew for each reply.  Whatever   *)
(* datagram is first in the socket's buffer is taken for the reply.        *)
(* Tool calls are made one after the other; the datagrams of a call that   *)
(* has ended may still arrive.  The network keeps their order.             *)
(*                                                                         *)
(* Time is counted in ticks since the current query was sent.  Requests    *)
(* are numbered; a message remembers the request it answers.               *)
(***************************************************************************)
EXTENDS Naturals, Sequences

CONSTANTS
    Normal,      \* self._timeout, in ticks
    Budget,      \* query_list's overall timeout, in ticks
    Strips,      \* number of strips in the session
    MaxRequests, \* bound: number of OSC requests in a run
    Lossy        \* TRUE: UDP may drop messages

ASSUME TicksType == Normal \in Nat \ {0} /\ Budget \in Nat \ {0}
ASSUME BoundsType == Strips \in Nat /\ MaxRequests \in Nat /\ Lossy \in BOOLEAN

VARIABLES
    pc,          \* "idle", or where the tool call in progress stands
    sockTimeout, \* the socket's timeout
    elapsed,     \* ticks since the query in progress was sent
    wake,        \* when the blocked recvfrom gives up
    request,     \* number of requests sent
    owed,        \* messages Ardour has yet to deliver, in its order
    buffer,      \* datagrams in the socket
    lost,        \* messages dropped
    got,         \* messages the call in progress has taken
    last,        \* the last tool call that ended
    gaveUp       \* history: some call has ended in a timeout

network == <<owed, buffer, lost>>
vars == <<pc, sockTimeout, elapsed, wake, request, got, last, gaveUp, network>>

Message(n, kind, i) == [request |-> n, kind |-> kind, index |-> i]
StripsOf(n) == {Message(n, "strip", i) : i \in 1..Strips}

\* Ardour's answer to request n.
Answer(n, address) ==
    IF address = "/strip/list"
    THEN [i \in 1..Strips + 1 |-> IF i <= Strips THEN Message(n, "strip", i) ELSE Message(n, "end", i)]
    ELSE <<Message(n, address, 1)>>

\* /transport_frame and /transport_speed answer with one argument, strips with more.
SingleArgument(m) == m.kind \in {"/transport_frame", "/transport_speed"}

Init ==
    /\ pc = "idle" /\ sockTimeout = Normal /\ elapsed = 0 /\ wake = 0
    /\ request = 0 /\ owed = <<>> /\ buffer = <<>> /\ lost = {} /\ got = <<>>
    /\ last = [tool |-> "none", outcome |-> "none", got |-> <<>>, request |-> 0]
    /\ gaveUp = FALSE

\* _send, and the clock of the query starts.
Ask(address) ==
    /\ request' = request + 1
    /\ owed' = owed \o Answer(request + 1, address)
    /\ elapsed' = 0

Ends(tool, outcome, messages) ==
    /\ pc' = "idle"
    /\ last' = [tool |-> tool, outcome |-> outcome, got |-> messages, request |-> request]
    /\ gaveUp' = (gaveUp \/ outcome = "ArdourOSCTimeout")

-----------------------------------------------------------------------------
(* get_transport: two calls of query() *)

GetTransport ==
    /\ pc = "idle" /\ request + 1 < MaxRequests
    /\ Ask("/transport_frame")
    /\ pc' = "/transport_frame" /\ wake' = sockTimeout /\ got' = <<>>
    /\ UNCHANGED <<sockTimeout, buffer, lost, last, gaveUp>>

\* The tuple is unpacked into one name: a strip or an end marker raises ValueError.
RecvFrame ==
    /\ pc = "/transport_frame" /\ buffer # <<>>
    /\ buffer' = Tail(buffer)
    /\ IF SingleArgument(Head(buffer))
       THEN /\ Ask("/transport_speed")
            /\ pc' = "/transport_speed" /\ wake' = sockTimeout /\ got' = <<Head(buffer)>>
            /\ UNCHANGED <<last, gaveUp>>
       ELSE /\ Ends("get_transport", "ValueError", <<>>)
            /\ UNCHANGED <<request, owed, elapsed, wake, got>>
    /\ UNCHANGED <<sockTimeout, lost>>

RecvSpeed ==
    /\ pc = "/transport_speed" /\ buffer # <<>>
    /\ buffer' = Tail(buffer)
    /\ IF SingleArgument(Head(buffer))
       THEN Ends("get_transport", "ok", Append(got, Head(buffer)))
       ELSE Ends("get_transport", "ValueError", <<>>)
    /\ UNCHANGED <<sockTimeout, elapsed, wake, request, owed, lost, got>>

\* Mutated: a timeout of query() is retried without end.
QueryTimeoutRetries ==
    /\ pc \in {"/transport_frame", "/transport_speed"}
    /\ elapsed >= wake /\ buffer = <<>>
    /\ elapsed' = 0
    /\ UNCHANGED <<pc, sockTimeout, wake, request, got, last, gaveUp, network>>

\* Mutated: a timeout of query() sends the same request once more.
QueryTimeoutResends ==
    /\ pc \in {"/transport_frame", "/transport_speed"}
    /\ elapsed >= wake /\ buffer = <<>> /\ elapsed' = 0
    /\ owed' = owed \o Answer(request, pc)
    /\ UNCHANGED <<pc, sockTimeout, wake, request, got, last, gaveUp, buffer, lost>>

QueryTimeout ==
    /\ pc \in {"/transport_frame", "/transport_speed"}
    /\ elapsed >= wake /\ buffer = <<>>
    /\ Ends("get_transport", "ArdourOSCTimeout", <<>>)
    /\ UNCHANGED <<sockTimeout, elapsed, wake, request, got, network>>

-----------------------------------------------------------------------------
(* get_tracks: query_list() *)

GetTracks ==
    /\ pc = "idle" /\ request < MaxRequests
    /\ Ask("/strip/list")
    /\ pc' = "list" /\ got' = <<>>
    /\ UNCHANGED <<sockTimeout, wake, buffer, lost, last, gaveUp>>

\* Mutated: every reply is waited for as long as a single one.
ListTopPerReply ==
    /\ pc = "list" /\ elapsed < Budget
    /\ sockTimeout' = Normal
    /\ wake' = elapsed + Normal /\ pc' = "list_recv"
    /\ UNCHANGED <<elapsed, request, got, last, gaveUp, network>>

\* Mutated: no check that time remains, settimeout(0) at the deadline.
ListTopUnchecked ==
    /\ pc = "list"
    /\ sockTimeout' = Budget - elapsed
    /\ wake' = elapsed + sockTimeout' /\ pc' = "list_recv"
    /\ UNCHANGED <<elapsed, request, got, last, gaveUp, network>>

\* The top of the loop: give up at the deadline, else wait for what remains.
ListTop ==
    /\ pc = "list"
    /\ IF elapsed >= Budget
       THEN Ends("get_tracks", "ArdourOSCTimeout", <<>>) /\ UNCHANGED <<sockTimeout, wake>>
       ELSE /\ sockTimeout' = Budget - elapsed
            /\ wake' = elapsed + sockTimeout' /\ pc' = "list_recv"
            /\ UNCHANGED <<last, gaveUp>>
    /\ UNCHANGED <<elapsed, request, got, network>>

\* Mutated: the loop stops only at an empty buffer, not at the end marker.
ListRecvUnmarked ==
    /\ pc = "list_recv" /\ buffer # <<>>
    /\ buffer' = Tail(buffer) /\ sockTimeout' = Normal
    /\ IF Tail(buffer) = <<>>
       THEN Ends("get_tracks", "ok", got) /\ UNCHANGED got
       ELSE pc' = "list" /\ got' = Append(got, Head(buffer)) /\ UNCHANGED <<last, gaveUp>>
    /\ UNCHANGED <<elapsed, wake, request, owed, lost>>

\* get_tracks parses seven arguments out of each reply: others raise ValueError.
ListRecv ==
    /\ pc = "list_recv" /\ buffer # <<>>
    /\ buffer' = Tail(buffer) /\ sockTimeout' = Normal
    /\ IF Head(buffer).kind = "end"
       THEN /\ IF \E i \in DOMAIN got : got[i].kind # "strip"
               THEN Ends("get_tracks", "ValueError", <<>>)
               ELSE Ends("get_tracks", "ok", got)
            /\ UNCHANGED got
       ELSE pc' = "list" /\ got' = Append(got, Head(buffer)) /\ UNCHANGED <<last, gaveUp>>
    /\ UNCHANGED <<elapsed, wake, request, owed, lost>>

\* Mutated: the socket keeps the remaining time as its timeout.
ListTimeoutUnrestored ==
    /\ pc = "list_recv" /\ elapsed >= wake /\ buffer = <<>>
    /\ Ends("get_tracks", "ArdourOSCTimeout", <<>>)
    /\ UNCHANGED <<sockTimeout, elapsed, wake, request, got, network>>

ListTimeout ==
    /\ pc = "list_recv" /\ elapsed >= wake /\ buffer = <<>>
    /\ sockTimeout' = Normal
    /\ Ends("get_tracks", "ArdourOSCTimeout", <<>>)
    /\ UNCHANGED <<elapsed, wake, request, got, network>>

-----------------------------------------------------------------------------
(* Time, Ardour and the network *)

Tick ==
    /\ pc # "idle"
    /\ elapsed < IF pc = "list" THEN Budget ELSE wake
    /\ elapsed' = elapsed + 1
    /\ UNCHANGED <<pc, sockTimeout, wake, request, got, last, gaveUp, network>>

Deliver ==
    /\ owed # <<>>
    /\ owed' = Tail(owed) /\ buffer' = Append(buffer, Head(owed))
    /\ UNCHANGED <<pc, sockTimeout, elapsed, wake, request, got, last, gaveUp, lost>>

Lose ==
    /\ Lossy /\ owed # <<>>
    /\ owed' = Tail(owed) /\ lost' = lost \cup {Head(owed)}
    /\ UNCHANGED <<pc, sockTimeout, elapsed, wake, request, got, last, gaveUp, buffer>>

Client == GetTransport \/ RecvFrame \/ RecvSpeed \/ QueryTimeout
          \/ GetTracks \/ ListTop \/ ListRecv \/ ListTimeout

Next == Client \/ Tick \/ Deliver \/ Lose

Spec == Init /\ [][Next]_vars

\* The tool's thread runs on and the clock moves; Ardour may stay silent.
Progress == RecvFrame \/ RecvSpeed \/ QueryTimeout \/ ListTop \/ ListRecv \/ ListTimeout
FairSpec == Spec /\ WF_vars(Progress) /\ WF_vars(Tick)

-----------------------------------------------------------------------------
(* Properties *)

Kinds == {"strip", "end", "/transport_frame", "/transport_speed"}
Messages == [request : 1..request, kind : Kinds, index : 1..Strips + 1]

TypeOK ==
    /\ pc \in {"idle", "/transport_frame", "/transport_speed", "list", "list_recv"}
    /\ sockTimeout \in 1..(Normal + Budget) /\ elapsed \in Nat /\ wake \in Nat
    /\ request \in 0..MaxRequests
    /\ owed \in Seq(Messages) /\ buffer \in Seq(Messages) /\ got \in Seq(Messages)
    /\ lost \subseteq Messages

\* query_list's comment: the socket's normal timeout is back whenever its recv
\* is over, whichever way it ended, so that query() waits as long as ever.
TimeoutRestored == pc # "list_recv" => sockTimeout = Normal

\* query_list's deadline: no list call outlasts its budget, however many
\* replies keep it busy and wherever between them the time went.
WithinBudget == pc \in {"list", "list_recv"} => elapsed <= Budget

\* ... and none is given up before: a gap between two replies longer than the
\* socket's own timeout does not abort a call with budget left.
PatientUntilDeadline ==
    [][(pc \in {"list", "list_recv"} /\ pc' = "idle" /\ last'.outcome = "ArdourOSCTimeout")
        => elapsed = Budget]_vars

\* Until a first call gives up, what a tool returns answers its own requests,
\* however sending, delivery, loss and reading interleave: a transport is a frame
\* and a speed, a track list lacks no strip but those UDP lost.
AnswersAreOwn ==
    last.outcome = "ok" /\ ~gaveUp =>
        IF last.tool = "get_transport"
        THEN last.got = <<Message(last.request - 1, "/transport_frame", 1),
                          Message(last.request, "/transport_speed", 1)>>
        ELSE StripsOf(last.request) \ lost = {last.got[i] : i \in DOMAIN last.got}

\* However late, no answer is used twice: nothing still to be read is older than
\* what a call has taken, or the same.  That the network keeps the order is assumed;
\* that no request is made twice and every datagram read is gone is the client's.
ReadInOrder ==
    LET rest == buffer \o owed IN
    \A i \in DOMAIN got, j \in DOMAIN rest :
        \/ got[i].request < rest[j].request
        \/ got[i].request = rest[j].request /\ got[i].index < rest[j].index

\* get_transport's docstring: what it returns is the transport's position and speed.
TransportIsTransport ==
    last.tool = "get_transport" /\ last.outcome = "ok" =>
        last.got[1].kind = "/transport_frame" /\ last.got[2].kind = "/transport_speed"

\* A tool call always comes back, even if Ardour never answers or never ends its list.
CallEnds == pc # "idle" ~> pc = "idle"
=============================================================================
