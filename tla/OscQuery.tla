------------------------------- MODULE OscQuery -------------------------------
(***************************************************************************)
(* mcp-ableton's OSCQueryClient: a query registers a fresh queue under its *)
(* OSC address, sends a datagram to Ableton Live and waits for a reply at  *)
(* that address, at most `timeout` seconds; a ThreadingOSCUDPServer gives  *)
(* every datagram from Live its own handler thread, which looks the queue  *)
(* up under the lock and puts the reply into it after releasing the lock.  *)
(*                                                                         *)
(* Queries are numbered in the order they register; a query's number names *)
(* it, its queue, its request and the reply Live gives to that request.    *)
(* UDP loses and reorders datagrams.                                       *)
(***************************************************************************)
EXTENDS Integers, Sequences

CONSTANTS
    Callers,     \* threads that call query()
    Addresses,   \* OSC addresses
    Uses,        \* caller -> the addresses it queries
    MaxQueries,  \* bound: number of queries in a run
    Prompt       \* the addresses at which no reply of Live's is later than the timeout

ASSUME MaxQueriesType == MaxQueries \in Nat
ASSUME UsesType == Uses \in [Callers -> SUBSET Addresses]
ASSUME PromptType == Prompt \subseteq Addresses

VARIABLES
    pc,          \* where each caller stands in query()
    current,     \* the query it is in, or was last in
    asked,       \* asked[n]: the address of query n
    registered,  \* _queues: address -> query whose queue is registered, 0 if none
    inbox,       \* the queues
    requests,    \* queries whose request is on its way to Live
    replies,     \* queries whose reply is on its way back
    handlers,    \* handler threads between the lookup and the put
    lost,        \* queries whose request or reply UDP dropped
    result       \* what each query returned: the number of the query answered

net    == <<requests, replies, lost>>
client == <<pc, current, asked, result>>
vars   == <<client, registered, inbox, net, handlers>>

Queries == 1..MaxQueries
Pending == 0
TimedOut == -1      \* AbletonOSCTimeout
Failed == -2        \* send_message raised

Init ==
    /\ pc = [c \in Callers |-> "idle"]
    /\ current = [c \in Callers |-> 0]
    /\ asked = <<>>
    /\ registered = [a \in Addresses |-> 0]
    /\ inbox = [n \in Queries |-> <<>>]
    /\ requests = {} /\ replies = {} /\ lost = {} /\ handlers = {}
    /\ result = [n \in Queries |-> Pending]

-----------------------------------------------------------------------------
(* query() *)

\* Mutated: setdefault, an earlier query's queue stays registered.
RegisterIfAbsent(c, a) ==
    /\ pc[c] = "idle" /\ a \in Uses[c] /\ Len(asked) < MaxQueries
    /\ asked' = Append(asked, a)
    /\ current' = [current EXCEPT ![c] = Len(asked) + 1]
    /\ registered' = [registered EXCEPT ![a] = IF @ = 0 THEN Len(asked) + 1 ELSE @]
    /\ pc' = [pc EXCEPT ![c] = "registered"]
    /\ UNCHANGED <<inbox, net, handlers, result>>

\* Whatever queue was registered under the address is replaced.
Register(c, a) ==
    /\ pc[c] = "idle" /\ a \in Uses[c] /\ Len(asked) < MaxQueries
    /\ asked' = Append(asked, a)
    /\ current' = [current EXCEPT ![c] = Len(asked) + 1]
    /\ registered' = [registered EXCEPT ![a] = Len(asked) + 1]
    /\ pc' = [pc EXCEPT ![c] = "registered"]
    /\ UNCHANGED <<inbox, net, handlers, result>>

Send(c) ==
    /\ pc[c] = "registered"
    /\ requests' = requests \cup {current[c]}
    /\ pc' = [pc EXCEPT ![c] = "waiting"]
    /\ UNCHANGED <<current, asked, result, registered, inbox, replies, lost, handlers>>

\* Mutated: the send error is swallowed and nothing is returned.
SendFailsSilently(c) ==
    /\ pc[c] = "registered"
    /\ pc' = [pc EXCEPT ![c] = "leaving"]
    /\ UNCHANGED <<current, asked, result, registered, inbox, net, handlers>>

SendFails(c) ==
    /\ pc[c] = "registered"
    /\ result' = [result EXCEPT ![current[c]] = Failed]
    /\ pc' = [pc EXCEPT ![c] = "leaving"]
    /\ UNCHANGED <<current, asked, registered, inbox, net, handlers>>

Get(c) ==
    /\ pc[c] = "waiting" /\ inbox[current[c]] # <<>>
    /\ result' = [result EXCEPT ![current[c]] = Head(inbox[current[c]])]
    /\ inbox' = [inbox EXCEPT ![current[c]] = Tail(@)]
    /\ pc' = [pc EXCEPT ![c] = "leaving"]
    /\ UNCHANGED <<current, asked, registered, net, handlers>>

InFlight(n) == n \in requests \cup replies \/ \E h \in handlers : h.reply = n

\* Mutated: q.get() without a timeout.
TimeoutNever(c) == FALSE /\ pc[c] = "waiting" /\ UNCHANGED vars

Timeout(c) ==
    /\ pc[c] = "waiting" /\ inbox[current[c]] = <<>>
    /\ asked[current[c]] \in Prompt => ~InFlight(current[c])
    /\ result' = [result EXCEPT ![current[c]] = TimedOut]
    /\ pc' = [pc EXCEPT ![c] = "leaving"]
    /\ UNCHANGED <<current, asked, registered, inbox, net, handlers>>

\* Mutated: the whole registry is cleared.
PopAll(c) ==
    /\ pc[c] = "leaving"
    /\ registered' = [a \in Addresses |-> 0]
    /\ pc' = [pc EXCEPT ![c] = "idle"]
    /\ UNCHANGED <<current, asked, result, inbox, net, handlers>>

\* Mutated: no finally, the address is popped only on success.
PopOnSuccess(c) ==
    /\ pc[c] = "leaving"
    /\ registered' = [registered EXCEPT ![asked[current[c]]] =
                         IF result[current[c]] > 0 THEN 0 ELSE @]
    /\ pc' = [pc EXCEPT ![c] = "idle"]
    /\ UNCHANGED <<current, asked, result, inbox, net, handlers>>

\* The finally block pops the address, whoever's queue is registered there.
Pop(c) ==
    /\ pc[c] = "leaving"
    /\ registered' = [registered EXCEPT ![asked[current[c]]] = 0]
    /\ pc' = [pc EXCEPT ![c] = "idle"]
    /\ UNCHANGED <<current, asked, result, inbox, net, handlers>>

-----------------------------------------------------------------------------
(* Live and the network *)

Answer(n) ==
    /\ n \in requests
    /\ requests' = requests \ {n} /\ replies' = replies \cup {n}
    /\ UNCHANGED <<client, registered, inbox, lost, handlers>>

Lose(n) ==
    /\ n \in requests \cup replies
    /\ requests' = requests \ {n} /\ replies' = replies \ {n} /\ lost' = lost \cup {n}
    /\ UNCHANGED <<client, registered, inbox, handlers>>

(* _on_message, in the thread the server starts for reply n *)

\* Mutated: the missing queue is not checked for.
LookupUnchecked(n) ==
    /\ n \in replies
    /\ replies' = replies \ {n}
    /\ handlers' = handlers \cup {[reply |-> n, queue |-> registered[asked[n]]]}
    /\ UNCHANGED <<client, registered, inbox, requests, lost>>

\* Mutated: the reply goes to any waiting queue, whatever its address.
LookupAnyAddress(n) ==
    /\ n \in replies
    /\ replies' = replies \ {n}
    /\ \E a \in Addresses : handlers' = handlers \cup
          {[reply |-> n, queue |-> q] : q \in {registered[a]} \ {0}}
    /\ UNCHANGED <<client, registered, inbox, requests, lost>>

\* A reply nobody is registered for is dropped.
Lookup(n) ==
    /\ n \in replies
    /\ replies' = replies \ {n}
    /\ handlers' = handlers \cup {[reply |-> n, queue |-> q] : q \in {registered[asked[n]]} \ {0}}
    /\ UNCHANGED <<client, registered, inbox, requests, lost>>

Put(h) ==
    /\ h \in handlers
    /\ handlers' = handlers \ {h}
    /\ inbox' = [inbox EXCEPT ![h.queue] = Append(@, h.reply)]
    /\ UNCHANGED <<client, registered, net>>

Query(c) == (\E a \in Addresses : Register(c, a)) \/ Send(c) \/ SendFails(c)
            \/ Get(c) \/ Timeout(c) \/ Pop(c)

Next ==
    \/ \E c \in Callers : Query(c)
    \/ \E n \in Queries : Answer(n) \/ Lose(n) \/ Lookup(n)
    \/ \E h \in handlers : Put(h)

Spec == Init /\ [][Next]_vars

\* A thread inside query() keeps running, and the clock does too: so a datagram
\* of a prompt address arrives or is lost.  Nothing is asked of the others.
Leaves(c) == Send(c) \/ SendFails(c) \/ Get(c) \/ Timeout(c) \/ Pop(c)

Arrives(n) ==
    /\ n <= Len(asked) /\ asked[n] \in Prompt
    /\ Answer(n) \/ Lose(n) \/ Lookup(n) \/ \E h \in handlers : h.reply = n /\ Put(h)

FairSpec == Spec /\ (\A c \in Callers : WF_vars(Leaves(c))) /\ \A n \in Queries : WF_vars(Arrives(n))

-----------------------------------------------------------------------------
(* Properties *)

TypeOK ==
    /\ pc \in [Callers -> {"idle", "registered", "waiting", "leaving"}]
    /\ asked \in Seq(Addresses) /\ Len(asked) <= MaxQueries
    /\ current \in [Callers -> 0..Len(asked)]
    /\ registered \in [Addresses -> 0..Len(asked)]
    /\ inbox \in [Queries -> Seq(1..Len(asked))]
    /\ requests \subseteq 1..Len(asked) /\ replies \subseteq 1..Len(asked)
    /\ lost \subseteq 1..Len(asked)
    /\ handlers \subseteq [reply : 1..Len(asked), queue : 1..Len(asked)]
    /\ result \in [Queries -> (1..Len(asked)) \cup {Pending, TimedOut, Failed}]

\* The addresses only one thread queries, and those of them that are prompt.
Exclusive == {a \in Addresses : \A c, d \in Callers : a \in Uses[c] \cap Uses[d] => c = d}
Served    == Exclusive \cap Prompt

\* "Send and wait for the matching reply" (the module's docstring): what a query
\* returns is the reply to its own request, not to another at the same address.
MatchingReply == \A n \in Queries : result[n] > 0 => result[n] = n

\* Where an address is prompt and a thread's own, that holds, whatever late and
\* overlapping queries do to the other addresses of the same client.
ServedQueriesMatch ==
    \A n \in 1..Len(asked) : asked[n] \in Served /\ result[n] > 0 => result[n] = n

\* At such an address a timeout means that UDP lost a datagram, never that the
\* client mislaid the reply.
TimeoutMeansLost ==
    \A n \in 1..Len(asked) : asked[n] \in Served /\ result[n] = TimedOut => n \in lost

\* The registry holds no queue of a finished query, and at an address of its
\* own a query in progress can be found there until it leaves, prompt or not.
RegistryIsExact ==
    /\ \A a \in Exclusive : \A n \in Queries :
          registered[a] = n <=> \E c \in Callers : /\ pc[c] # "idle" /\ current[c] = n
                                                  /\ asked[n] = a
    /\ (\A c \in Callers : pc[c] = "idle") => \A a \in Addresses : registered[a] = 0

\* However late the replies and however the queries overlap, no query is ever
\* answered with the reply to one that began after it (or at another address):
\* data can be stale, or go to the newer query, but not the other way round.
NoAnswerFromTheFuture ==
    \A n \in Queries : result[n] > 0 => result[n] <= n /\ asked[result[n]] = asked[n]

\* A query always comes back, with a reply or an exception, whatever Live does.
QueryReturns == \A c \in Callers : pc[c] # "idle" ~> pc[c] = "idle"

-----------------------------------------------------------------------------
(* The client as a RequestReply service *)

InService(n) == n <= Len(asked) /\ asked[n] \in Served

\* An answer to another query is no answer: it maps to no outcome at all.
OutcomeOf(n) ==
    IF ~InService(n) THEN "unasked"
    ELSE IF result[n] = n THEN "answered"
    ELSE IF result[n] \in {TimedOut, Failed} THEN "raised"
    ELSE IF result[n] = Pending THEN "open" ELSE "mismatched"

RR == INSTANCE RequestReply WITH
        asking  <- [c \in Callers |-> IF pc[c] # "idle" /\ InService(current[c]) THEN current[c] ELSE 0],
        outcome <- [n \in Queries |-> OutcomeOf(n)]

\* At the addresses that are prompt and a thread's own the client implements
\* RequestReply: one reply or one exception for each query.
ImplementsRequestReply == RR!RSpec
=============================================================================
