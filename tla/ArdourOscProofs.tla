--------------------------- MODULE ArdourOscProofs ---------------------------
(***************************************************************************)
(* For any timeout, budget, session and network: the deadline arithmetic   *)
(* of query_list, where the two uses of one socket timeout do not get into *)
(* each other's way; the order in which datagrams are used; what the tools *)
(* return until a first call gives up; and the types.                      *)
(***************************************************************************)
EXTENDS ArdourOsc, Integers, SequenceTheorems, TLAPS

\* The clocks of the client.
ClocksTyped ==
    /\ pc \in {"idle", "/transport_frame", "/transport_speed", "list", "list_recv"}
    /\ sockTimeout \in Nat /\ elapsed \in Nat /\ wake \in Nat

\* The blocked recv of a list gives up at the overall deadline, and at no other moment.
WaitsForDeadline == pc = "list_recv" => wake = Budget

ClockInv == ClocksTyped /\ TimeoutRestored /\ WithinBudget /\ WaitsForDeadline

\* The socket is made with its timeout, and no query is in progress.
LEMMA InitClock == Init => ClockInv
  BY TicksType DEF Init, ClockInv, ClocksTyped, TimeoutRestored, WithinBudget, WaitsForDeadline

\* Every step keeps the clocks in order: only ListTop moves the deadline of the
\* recv, to the moment the budget is used up.
LEMMA NextClock == ClockInv /\ [Next]_vars => ClockInv'
  <1> SUFFICES ASSUME ClockInv, [Next]_vars PROVE ClockInv'
    OBVIOUS
  <1> USE TicksType DEF ClockInv, ClocksTyped, TimeoutRestored, WithinBudget, WaitsForDeadline
  <1>1. CASE GetTransport
    BY <1>1 DEF GetTransport, Ask
  <1>2. CASE RecvFrame
    BY <1>2 DEF RecvFrame, Ask, Ends
  <1>3. CASE RecvSpeed
    BY <1>3 DEF RecvSpeed, Ends
  <1>4. CASE QueryTimeout
    BY <1>4 DEF QueryTimeout, Ends
  <1>5. CASE GetTracks
    BY <1>5 DEF GetTracks, Ask
  <1>6. CASE ListTop
    <2>1. CASE elapsed >= Budget
      BY <1>6, <2>1 DEF ListTop, Ends
    <2>2. CASE ~(elapsed >= Budget)
      <3>1. /\ sockTimeout' = Budget - elapsed /\ wake' = elapsed + sockTimeout'
            /\ pc' = "list_recv" /\ elapsed' = elapsed
        BY <1>6, <2>2 DEF ListTop
      <3>2. Budget - elapsed \in Nat /\ wake' = Budget
        BY <2>2, <3>1
      <3> QED BY <3>1, <3>2, <2>2
    <2> QED BY <2>1, <2>2
  <1>7. CASE ListRecv
    BY <1>7 DEF ListRecv, Ends
  <1>8. CASE ListTimeout
    BY <1>8 DEF ListTimeout, Ends
  <1>9. CASE Tick
    BY <1>9 DEF Tick
  <1>10. CASE Deliver
    BY <1>10 DEF Deliver
  <1>11. CASE Lose
    BY <1>11 DEF Lose
  <1>12. CASE UNCHANGED vars
    BY <1>12 DEF vars
  <1> QED
    BY <1>1, <1>2, <1>3, <1>4, <1>5, <1>6, <1>7, <1>8, <1>9, <1>10, <1>11, <1>12 DEF Next, Client

\* The clock invariant holds always.
LEMMA Clock == Spec => []ClockInv
  BY InitClock, NextClock, PTL DEF Spec

\* query_list restores the socket's timeout on every way out of its recv.
THEOREM Restored == Spec => []TimeoutRestored
  <1>1. ClockInv => TimeoutRestored
    BY DEF ClockInv
  <1> QED BY Clock, <1>1, PTL

\* No list call outlasts its budget.
THEOREM Budgeted == Spec => []WithinBudget
  <1>1. ClockInv => WithinBudget
    BY DEF ClockInv
  <1> QED BY Clock, <1>1, PTL

\* No list call is given up before its deadline, whatever the gaps between its replies.
THEOREM Patient == Spec => PatientUntilDeadline
  <1> DEFINE GivesUp == /\ pc \in {"list", "list_recv"} /\ pc' = "idle"
                        /\ last'.outcome = "ArdourOSCTimeout"
  <1>1. ClockInv /\ [Next]_vars => [GivesUp => elapsed = Budget]_vars
    <2> SUFFICES ASSUME ClockInv, Next, GivesUp PROVE elapsed = Budget
      BY DEF vars
    <2> USE TicksType DEF ClockInv, ClocksTyped, WithinBudget, WaitsForDeadline
    <2>1. CASE ListTop
      BY <2>1 DEF ListTop, Ends
    <2>2. CASE ListTimeout
      BY <2>2 DEF ListTimeout, Ends
    <2>3. CASE ListRecv
      <3>1. last'.outcome # "ArdourOSCTimeout"
        BY <2>3 DEF ListRecv, Ends
      <3> QED BY <3>1
    <2>4. ~GetTransport /\ ~RecvFrame /\ ~RecvSpeed /\ ~QueryTimeout /\ ~GetTracks
      BY DEF GetTransport, RecvFrame, RecvSpeed, QueryTimeout, GetTracks
    <2>5. ~Tick /\ ~Deliver /\ ~Lose
      BY DEF Tick, Deliver, Lose
    <2> QED BY <2>1, <2>2, <2>3, <2>4, <2>5 DEF Next, Client
  <1> QED BY Clock, <1>1, PTL DEF Spec, PatientUntilDeadline

-----------------------------------------------------------------------------
(***************************************************************************)
(* The order in which datagrams are used.  What has been taken, what is in *)
(* the socket and what is on its way follow each other, and within each    *)
(* the messages follow each other, in the order of the requests.           *)
(***************************************************************************)

Datagrams == [request : Nat, kind : Kinds, index : Nat]

Earlier(m, n) == \/ m.request < n.request
                 \/ m.request = n.request /\ m.index < n.index

InOrder(s)   == \A i, j \in DOMAIN s : i < j => Earlier(s[i], s[j])
Before(s, t) == \A i \in DOMAIN s, j \in DOMAIN t : Earlier(s[i], t[j])
UpTo(s, n)   == \A i \in DOMAIN s : s[i].request <= n

\* Every datagram answers a request made, and none is due before one behind it.
OrderInv ==
    /\ request \in Nat
    /\ owed \in Seq(Datagrams) /\ buffer \in Seq(Datagrams) /\ got \in Seq(Datagrams)
    /\ UpTo(owed, request) /\ UpTo(buffer, request) /\ UpTo(got, request)
    /\ InOrder(owed) /\ InOrder(buffer)
    /\ Before(got, buffer) /\ Before(got, owed) /\ Before(buffer, owed)

\* Each element of a sequence of datagrams answers a numbered request.
LEMMA RequestTyped ==
    ASSUME NEW s \in Seq(Datagrams)
    PROVE  \A i \in DOMAIN s : s[i] \in Datagrams /\ s[i].request \in Nat
  <1>1. \A i \in DOMAIN s : s[i] \in Datagrams
    OBVIOUS
  <1>2. \A m \in Datagrams : m.request \in Nat
    BY DEF Datagrams
  <1> QED BY <1>1, <1>2

\* Taking the first datagram away leaves the rest in order, behind that one.
LEMMA TailInOrder ==
    ASSUME NEW s \in Seq(Datagrams), s # <<>>, InOrder(s)
    PROVE  /\ Tail(s) \in Seq(Datagrams) /\ Head(s) \in Datagrams
           /\ InOrder(Tail(s))
           /\ \A i \in DOMAIN Tail(s) : i + 1 \in DOMAIN s /\ Tail(s)[i] = s[i + 1]
           /\ \A i \in DOMAIN Tail(s) : Earlier(Head(s), Tail(s)[i])
  <1>1. Tail(s) \in Seq(Datagrams) /\ Head(s) \in Datagrams /\ Head(s) = s[1]
    OBVIOUS
  <1>2. \A i \in DOMAIN Tail(s) : i \in Nat /\ i >= 1 /\ i + 1 \in DOMAIN s /\ Tail(s)[i] = s[i + 1]
    OBVIOUS
  <1>3. 1 \in DOMAIN s
    OBVIOUS
  <1> QED BY <1>1, <1>2, <1>3 DEF InOrder

\* A datagram behind all of s can be put at its end.
LEMMA AppendInOrder ==
    ASSUME NEW s \in Seq(Datagrams), NEW m \in Datagrams, InOrder(s),
           \A i \in DOMAIN s : Earlier(s[i], m)
    PROVE  Append(s, m) \in Seq(Datagrams) /\ InOrder(Append(s, m))
  <1>1. \A i \in DOMAIN Append(s, m) :
           \/ i \in DOMAIN s /\ Append(s, m)[i] = s[i]
           \/ i = Len(s) + 1 /\ Append(s, m)[i] = m
    OBVIOUS
  <1>2. \A i \in DOMAIN s : i \in Nat /\ i < Len(s) + 1
    OBVIOUS
  <1> QED BY <1>1, <1>2 DEF InOrder

\* An answer is in order, of one request, and of datagrams.
LEMMA AnswerInOrder ==
    ASSUME NEW n \in Nat, NEW address \in {"/strip/list", "/transport_frame", "/transport_speed"}
    PROVE  /\ Answer(n, address) \in Seq(Datagrams)
           /\ InOrder(Answer(n, address))
           /\ \A i \in DOMAIN Answer(n, address) : Answer(n, address)[i].request = n
  <1>1. CASE address = "/strip/list"
    <2> DEFINE f == [i \in 1..Strips + 1 |-> IF i <= Strips THEN Message(n, "strip", i) ELSE Message(n, "end", i)]
    <2>1. Answer(n, address) = f
      BY <1>1 DEF Answer
    <2>2. \A i \in 1..Strips + 1 : f[i] \in Datagrams /\ f[i].request = n /\ f[i].index = i
      <3> TAKE i \in 1..Strips + 1
      <3>1. \/ f[i] = [request |-> n, kind |-> "strip", index |-> i]
            \/ f[i] = [request |-> n, kind |-> "end", index |-> i]
        BY DEF Message
      <3>2. i \in Nat
        BY BoundsType
      <3> HIDE DEF f
      <3> QED BY <3>1, <3>2 DEF Datagrams, Kinds
    <2>3. f \in [1..Strips + 1 -> Datagrams] /\ Strips + 1 \in Nat
      BY <2>2, BoundsType
    <2>4. f \in Seq(Datagrams) /\ DOMAIN f = 1..Strips + 1
      BY <2>3
    <2> HIDE DEF f
    <2> QED BY <2>1, <2>2, <2>4 DEF InOrder, Earlier
  <1>2. CASE address # "/strip/list"
    BY <1>2 DEF Answer, Message, Datagrams, Kinds, InOrder, Earlier
  <1> QED BY <1>1, <1>2

\* Two sequences, one before the other, in order: so is their concatenation.
LEMMA ConcatInOrder ==
    ASSUME NEW s \in Seq(Datagrams), NEW t \in Seq(Datagrams),
           InOrder(s), InOrder(t), Before(s, t)
    PROVE  s \o t \in Seq(Datagrams) /\ InOrder(s \o t)
  <1>1. \A i \in DOMAIN (s \o t) :
           \/ i \in DOMAIN s /\ (s \o t)[i] = s[i] /\ i <= Len(s)
           \/ i - Len(s) \in DOMAIN t /\ (s \o t)[i] = t[i - Len(s)] /\ i > Len(s)
    OBVIOUS
  <1>2. \A i, j \in DOMAIN (s \o t) : i \in Int /\ j \in Int /\ Len(s) \in Int
    OBVIOUS
  <1> QED BY <1>1, <1>2 DEF InOrder, Before

\* What precedes both halves of a concatenation precedes the whole.
LEMMA BeforeConcat ==
    ASSUME NEW r \in Seq(Datagrams), NEW s \in Seq(Datagrams), NEW t \in Seq(Datagrams),
           Before(r, s), Before(r, t)
    PROVE  Before(r, s \o t)
  <1>1. \A i \in DOMAIN (s \o t) :
           \/ i \in DOMAIN s /\ (s \o t)[i] = s[i]
           \/ i - Len(s) \in DOMAIN t /\ (s \o t)[i] = t[i - Len(s)]
    OBVIOUS
  <1> QED BY <1>1 DEF Before

\* Nothing is on its way at first.
LEMMA InitOrder == Init => OrderInv
  BY DEF Init, OrderInv, UpTo, InOrder, Before

\* A new request's answer goes behind all there is.
LEMMA AskKeepsOrder ==
    ASSUME OrderInv, NEW address \in {"/strip/list", "/transport_frame", "/transport_speed"},
           Ask(address)
    PROVE  /\ request' \in Nat /\ owed' \in Seq(Datagrams)
           /\ UpTo(owed', request') /\ InOrder(owed')
           /\ \A s \in Seq(Datagrams) : UpTo(s, request) => UpTo(s, request')
           /\ \A s \in Seq(Datagrams) : UpTo(s, request) /\ Before(s, owed) => Before(s, owed')
  <1> DEFINE answer == Answer(request + 1, address)
  <1>1. request' = request + 1 /\ owed' = owed \o answer /\ request \in Nat /\ owed \in Seq(Datagrams)
    BY DEF Ask, OrderInv
  <1>2. /\ answer \in Seq(Datagrams) /\ InOrder(answer)
        /\ \A i \in DOMAIN answer : answer[i].request = request + 1
    <2>1. request + 1 \in Nat
      BY <1>1
    <2> HIDE DEF answer
    <2> QED BY <2>1, AnswerInOrder DEF answer
  <1> HIDE DEF answer
  <1>3. \A s \in Seq(Datagrams) : UpTo(s, request) => UpTo(s, request') /\ Before(s, answer)
    <2> SUFFICES ASSUME NEW s \in Seq(Datagrams), UpTo(s, request)
                 PROVE  UpTo(s, request') /\ Before(s, answer)
      OBVIOUS
    <2>1. \A i \in DOMAIN s : s[i].request \in Nat
      BY RequestTyped
    <2> QED BY <1>1, <1>2, <2>1 DEF UpTo, Before, Earlier
  <1>4. InOrder(owed') /\ owed' \in Seq(Datagrams)
    BY <1>1, <1>2, <1>3, ConcatInOrder DEF OrderInv
  <1>5. UpTo(owed', request')
    <2>1. \A i \in DOMAIN (owed \o answer) :
             \/ i \in DOMAIN owed /\ (owed \o answer)[i] = owed[i]
             \/ i - Len(owed) \in DOMAIN answer /\ (owed \o answer)[i] = answer[i - Len(owed)]
      BY <1>1, <1>2
    <2>2. \A i \in DOMAIN owed : owed[i].request \in Nat /\ owed[i].request <= request
      BY <1>1, RequestTyped DEF OrderInv, UpTo
    <2> QED BY <1>1, <1>2, <2>1, <2>2 DEF UpTo
  <1>6. \A s \in Seq(Datagrams) : UpTo(s, request) /\ Before(s, owed) => Before(s, owed')
    BY <1>1, <1>2, <1>3, BeforeConcat
  <1> QED BY <1>1, <1>3, <1>4, <1>5, <1>6

\* Reading takes the first datagram of the socket; got may or may not keep it.
LEMMA ReadKeepsOrder ==
    ASSUME OrderInv, buffer # <<>>
    PROVE  /\ Tail(buffer) \in Seq(Datagrams) /\ InOrder(Tail(buffer)) /\ UpTo(Tail(buffer), request)
           /\ Head(buffer) \in Datagrams /\ Head(buffer).request <= request
           /\ Before(got, Tail(buffer)) /\ Before(Tail(buffer), owed)
           /\ \A i \in DOMAIN Tail(buffer) : Earlier(Head(buffer), Tail(buffer)[i])
           /\ \A i \in DOMAIN owed : Earlier(Head(buffer), owed[i])
  <1> USE DEF OrderInv
  <1>1. /\ Tail(buffer) \in Seq(Datagrams) /\ Head(buffer) \in Datagrams
        /\ InOrder(Tail(buffer))
        /\ \A i \in DOMAIN Tail(buffer) : i + 1 \in DOMAIN buffer /\ Tail(buffer)[i] = buffer[i + 1]
        /\ \A i \in DOMAIN Tail(buffer) : Earlier(Head(buffer), Tail(buffer)[i])
    BY TailInOrder
  <1>2. Head(buffer) = buffer[1] /\ 1 \in DOMAIN buffer
    OBVIOUS
  <1> QED BY <1>1, <1>2 DEF UpTo, Before

\* got, with a datagram before all of s appended, is before s as got was.
LEMMA AppendBefore ==
    ASSUME NEW r \in Seq(Datagrams), NEW s \in Seq(Datagrams), NEW m \in Datagrams,
           Before(r, s), \A j \in DOMAIN s : Earlier(m, s[j])
    PROVE  Before(Append(r, m), s)
  <1>1. \A i \in DOMAIN Append(r, m) :
           \/ i \in DOMAIN r /\ Append(r, m)[i] = r[i]
           \/ Append(r, m)[i] = m
    OBVIOUS
  <1> QED BY <1>1 DEF Before

\* A datagram of request n at most, appended, keeps the sequence up to n.
LEMMA AppendUpTo ==
    ASSUME NEW s \in Seq(Datagrams), NEW m \in Datagrams, NEW n \in Nat,
           UpTo(s, n), m.request <= n
    PROVE  UpTo(Append(s, m), n) /\ Append(s, m) \in Seq(Datagrams)
  <1>1. \A i \in DOMAIN Append(s, m) :
           \/ i \in DOMAIN s /\ Append(s, m)[i] = s[i]
           \/ Append(s, m)[i] = m
    OBVIOUS
  <1> QED BY <1>1 DEF UpTo

\* Every step keeps the order: requests add behind, deliveries move from the
\* head of one part to the end of the part before it, losses and reads remove.
LEMMA NextOrder == OrderInv /\ [Next]_vars => OrderInv'
  <1> SUFFICES ASSUME OrderInv, [Next]_vars PROVE OrderInv'
    OBVIOUS
  <1>0. <<>> \in Seq(Datagrams) /\ (\A n : UpTo(<<>>, n)) /\ \A s : Before(<<>>, s)
    BY DEF UpTo, Before
  <1>1. CASE GetTransport
    <2>1. Ask("/transport_frame") /\ got' = <<>> /\ buffer' = buffer
      BY <1>1 DEF GetTransport
    <2> QED BY <1>0, <2>1, AskKeepsOrder DEF OrderInv
  <1>2. CASE RecvFrame
    <2>1. buffer # <<>> /\ buffer' = Tail(buffer)
      BY <1>2 DEF RecvFrame
    <2>2. CASE SingleArgument(Head(buffer))
      <3>1. Ask("/transport_speed") /\ got' = <<Head(buffer)>>
        BY <1>2, <2>2 DEF RecvFrame
      <3>2. /\ got' \in Seq(Datagrams) /\ UpTo(got', request)
            /\ Before(got', Tail(buffer)) /\ Before(got', owed)
        BY <2>1, <3>1, ReadKeepsOrder DEF UpTo, Before
      <3> QED BY <2>1, <3>1, <3>2, ReadKeepsOrder, AskKeepsOrder DEF OrderInv
    <2>3. CASE ~SingleArgument(Head(buffer))
      <3>1. UNCHANGED <<request, owed, got>>
        BY <1>2, <2>3 DEF RecvFrame
      <3> QED BY <2>1, <3>1, ReadKeepsOrder DEF OrderInv
    <2> QED BY <2>2, <2>3
  <1>3. CASE RecvSpeed
    <2>1. buffer # <<>> /\ buffer' = Tail(buffer) /\ UNCHANGED <<request, owed, got>>
      BY <1>3 DEF RecvSpeed
    <2> QED BY <2>1, ReadKeepsOrder DEF OrderInv
  <1>4. CASE QueryTimeout
    BY <1>4 DEF QueryTimeout, network, OrderInv
  <1>5. CASE GetTracks
    <2>1. Ask("/strip/list") /\ got' = <<>> /\ buffer' = buffer
      BY <1>5 DEF GetTracks
    <2> QED BY <1>0, <2>1, AskKeepsOrder DEF OrderInv
  <1>6. CASE ListTop
    BY <1>6 DEF ListTop, network, OrderInv
  <1>7. CASE ListRecv
    <2>1. buffer # <<>> /\ buffer' = Tail(buffer) /\ UNCHANGED <<request, owed>>
      BY <1>7 DEF ListRecv
    <2>2. got' = got \/ got' = Append(got, Head(buffer))
      BY <1>7 DEF ListRecv
    <2>3. CASE got' = got
      BY <2>1, <2>3, ReadKeepsOrder DEF OrderInv
    <2>4. CASE got' = Append(got, Head(buffer))
      <3>1. UpTo(got', request) /\ got' \in Seq(Datagrams)
        BY <2>1, <2>4, ReadKeepsOrder, AppendUpTo DEF OrderInv
      <3>2. Before(got', Tail(buffer)) /\ Before(got', owed)
        BY <2>1, <2>4, ReadKeepsOrder, AppendBefore DEF OrderInv
      <3> QED BY <2>1, <3>1, <3>2, ReadKeepsOrder DEF OrderInv
    <2> QED BY <2>2, <2>3, <2>4
  <1>8. CASE ListTimeout
    BY <1>8 DEF ListTimeout, network, OrderInv
  <1>9. CASE Tick
    BY <1>9 DEF Tick, network, OrderInv
  <1>10. CASE Deliver
    <2>1. /\ owed # <<>> /\ owed' = Tail(owed) /\ buffer' = Append(buffer, Head(owed))
          /\ UNCHANGED <<request, got>>
      BY <1>10 DEF Deliver
    <2>2. /\ Head(owed) \in Datagrams /\ Head(owed) = owed[1] /\ 1 \in DOMAIN owed
          /\ Tail(owed) \in Seq(Datagrams) /\ InOrder(Tail(owed))
          /\ \A i \in DOMAIN Tail(owed) : i + 1 \in DOMAIN owed /\ Tail(owed)[i] = owed[i + 1]
          /\ \A i \in DOMAIN Tail(owed) : Earlier(Head(owed), Tail(owed)[i])
      BY <2>1, TailInOrder DEF OrderInv
    <2>3. UpTo(Tail(owed), request) /\ Before(got, Tail(owed)) /\ Before(buffer, Tail(owed))
      BY <2>2 DEF OrderInv, UpTo, Before
    <2>4. /\ buffer' \in Seq(Datagrams) /\ InOrder(buffer')
      BY <2>1, <2>2, AppendInOrder DEF OrderInv, Before
    <2>5. UpTo(buffer', request) /\ Before(buffer', Tail(owed))
      BY <2>1, <2>2, <2>3, AppendUpTo, AppendBefore DEF OrderInv, UpTo
    <2>6. Before(got, buffer')
      <3>1. \A j \in DOMAIN Append(buffer, Head(owed)) :
               \/ j \in DOMAIN buffer /\ Append(buffer, Head(owed))[j] = buffer[j]
               \/ Append(buffer, Head(owed))[j] = Head(owed)
        BY <2>2 DEF OrderInv
      <3> QED BY <2>1, <2>2, <3>1 DEF OrderInv, Before
    <2> QED BY <2>1, <2>2, <2>3, <2>4, <2>5, <2>6 DEF OrderInv
  <1>11. CASE Lose
    <2>1. owed # <<>> /\ owed' = Tail(owed) /\ UNCHANGED <<request, buffer, got>>
      BY <1>11 DEF Lose
    <2>2. /\ Tail(owed) \in Seq(Datagrams) /\ InOrder(Tail(owed))
          /\ \A i \in DOMAIN Tail(owed) : i + 1 \in DOMAIN owed /\ Tail(owed)[i] = owed[i + 1]
      BY <2>1, TailInOrder DEF OrderInv
    <2>3. UpTo(Tail(owed), request) /\ Before(got, Tail(owed)) /\ Before(buffer, Tail(owed))
      BY <2>2 DEF OrderInv, UpTo, Before
    <2> QED BY <2>1, <2>2, <2>3 DEF OrderInv
  <1>12. CASE UNCHANGED vars
    BY <1>12 DEF vars, network, OrderInv
  <1> QED
    BY <1>1, <1>2, <1>3, <1>4, <1>5, <1>6, <1>7, <1>8, <1>9, <1>10, <1>11, <1>12 DEF Next, Client

\* However late and lossy the network, datagrams are used in the order of the
\* requests they answer, and what is still to come is younger than what was taken.
THEOREM InRequestOrder == Spec => []ReadInOrder
  <1>1. OrderInv => ReadInOrder
    <2> SUFFICES ASSUME OrderInv PROVE ReadInOrder
      OBVIOUS
    <2>1. Before(got, buffer \o owed)
      BY BeforeConcat DEF OrderInv
    <2> QED BY <2>1 DEF ReadInOrder, Before, Earlier
  <1>2. Spec => []OrderInv
    BY InitOrder, NextOrder, PTL DEF Spec
  <1> QED BY <1>1, <1>2, PTL

-----------------------------------------------------------------------------
(***************************************************************************)
(* What tools return.  Until a call gives up, all that is on its way       *)
(* answers the query in progress; each datagram is there once, and when    *)
(* the last of them is read, nothing is left for the next query.           *)
(***************************************************************************)

Contents(s) == {s[i] : i \in DOMAIN s}

Listing == pc \in {"list", "list_recv"}

\* What Ardour may answer to the query in progress.
Expected ==
    IF Listing THEN StripsOf(request) \cup {Message(request, "end", Strips + 1)}
    ELSE {Message(request, pc, 1)}

\* No strip of the list in progress is missing but those lost.
ListComplete ==
    /\ Contents(got) \subseteq StripsOf(request)
    /\ StripsOf(request) \subseteq Contents(got) \cup Contents(buffer) \cup Contents(owed) \cup lost
    /\ (Contents(got) \cup Contents(buffer) \cup Contents(owed)) \cap lost = {}

\* Nothing answers another query than the one in progress.
OnlyExpected ==
    /\ pc = "idle" => buffer = <<>> /\ owed = <<>>
    /\ pc # "idle" => Contents(buffer) \subseteq Expected /\ Contents(owed) \subseteq Expected
    /\ pc = "/transport_speed" => got = <<Message(request - 1, "/transport_frame", 1)>>
    /\ Listing => ListComplete

\* The requests of the past, and of the call that ended last.
Past ==
    /\ \A m \in lost : m.request \in Nat /\ m.request <= request
    /\ last.request \in Nat /\ last.request <= request
    /\ pc # "idle" => last.request < request

OwnInv == Past /\ AnswersAreOwn /\ (~gaveUp => OnlyExpected)

\* Contents of the sequences that the steps make.
LEMMA ContentsOf ==
    ASSUME NEW s \in Seq(Datagrams), NEW m \in Datagrams
    PROVE  /\ Contents(s) = {} <=> s = <<>>
           /\ Contents(Append(s, m)) = Contents(s) \cup {m}
           /\ s # <<>> => Contents(s) = {Head(s)} \cup Contents(Tail(s))
  <1>1. Contents(s) = {} <=> s = <<>>
    BY DEF Contents
  <1>2. Contents(Append(s, m)) = Contents(s) \cup {m}
    <2>1. \A i \in DOMAIN Append(s, m) :
             \/ i \in DOMAIN s /\ Append(s, m)[i] = s[i]
             \/ i = Len(s) + 1 /\ Append(s, m)[i] = m
      OBVIOUS
    <2>2. \A i \in DOMAIN s : i \in DOMAIN Append(s, m) /\ Append(s, m)[i] = s[i]
      OBVIOUS
    <2>3. Len(s) + 1 \in DOMAIN Append(s, m) /\ Append(s, m)[Len(s) + 1] = m
      OBVIOUS
    <2> QED BY <2>1, <2>2, <2>3 DEF Contents
  <1>3. ASSUME s # <<>> PROVE Contents(s) = {Head(s)} \cup Contents(Tail(s))
    <2>1. Head(s) = s[1] /\ 1 \in DOMAIN s
      BY <1>3
    <2>2. \A i \in DOMAIN Tail(s) : i + 1 \in DOMAIN s /\ Tail(s)[i] = s[i + 1]
      BY <1>3
    <2>3. \A i \in DOMAIN s : i = 1 \/ (i - 1 \in DOMAIN Tail(s) /\ Tail(s)[i - 1] = s[i])
      BY <1>3
    <2>4. ASSUME NEW x PROVE x \in Contents(s) <=> x \in {Head(s)} \cup Contents(Tail(s))
      <3>1. x \in Contents(s) => x \in {Head(s)} \cup Contents(Tail(s))
        BY <2>1, <2>3 DEF Contents
      <3>2. x \in {Head(s)} \cup Contents(Tail(s)) => x \in Contents(s)
        BY <2>1, <2>2 DEF Contents
      <3> QED BY <3>1, <3>2
    <2> QED BY <2>4
  <1> QED BY <1>1, <1>2, <1>3

\* All of a list's answer.
LEMMA ContentsOfAnswer ==
    ASSUME NEW n \in Nat
    PROVE  Contents(Answer(n, "/strip/list")) = StripsOf(n) \cup {Message(n, "end", Strips + 1)}
  <1> DEFINE f == [i \in 1..Strips + 1 |-> IF i <= Strips THEN Message(n, "strip", i) ELSE Message(n, "end", i)]
  <1>1. Answer(n, "/strip/list") = f
    BY DEF Answer
  <1>2. DOMAIN f = 1..Strips + 1 /\ Strips + 1 \in 1..Strips + 1 /\ Strips \in Nat
    BY BoundsType
  <1>3. \A i \in 1..Strips : i \in 1..Strips + 1 /\ f[i] = Message(n, "strip", i)
    BY BoundsType
  <1>4. f[Strips + 1] = Message(n, "end", Strips + 1)
    BY BoundsType
  <1>5. \A i \in 1..Strips + 1 : i \in 1..Strips \/ i = Strips + 1
    BY BoundsType
  <1> HIDE DEF f
  <1> QED BY <1>1, <1>2, <1>3, <1>4, <1>5 DEF Contents, StripsOf

\* The expected answers are told apart by kind and index.
LEMMA ExpectedAre ==
    ASSUME NEW m \in Expected
    PROVE  /\ m.request = request
           /\ ~Listing => m.index = 1 /\ m.kind = pc
           /\ Listing => m \in StripsOf(request) \/ m = Message(request, "end", Strips + 1)
           /\ m \in StripsOf(request) => m.kind = "strip"
           /\ Listing => m.index <= Strips + 1
  BY BoundsType DEF Expected, StripsOf, Message, Listing

\* After the one reply of query(), and after the end marker, nothing follows.
LEMMA NothingFollows ==
    ASSUME OrderInv, OnlyExpected, pc # "idle", buffer # <<>>,
           ~Listing \/ Head(buffer).kind = "end"
    PROVE  Tail(buffer) = <<>> /\ owed = <<>>
  <1>1. /\ Contents(buffer) = {Head(buffer)} \cup Contents(Tail(buffer))
        /\ Tail(buffer) \in Seq(Datagrams) /\ owed \in Seq(Datagrams)
        /\ \A i \in DOMAIN Tail(buffer) : Earlier(Head(buffer), Tail(buffer)[i])
        /\ \A i \in DOMAIN owed : Earlier(Head(buffer), owed[i])
    BY ReadKeepsOrder, ContentsOf DEF OrderInv
  <1>2. /\ Head(buffer) \in Expected
        /\ \A i \in DOMAIN Tail(buffer) : Tail(buffer)[i] \in Expected
        /\ \A i \in DOMAIN owed : owed[i] \in Expected
    BY <1>1 DEF OnlyExpected, Contents
  <1>3. Listing => Head(buffer).index = Strips + 1
    BY <1>2, ExpectedAre DEF Message
  <1>4. \A m \in Expected : ~Earlier(Head(buffer), m)
    <2> TAKE m \in Expected
    <2>1. request \in Nat /\ Strips \in Nat /\ Head(buffer).request = request /\ m.request = request
      BY <1>2, ExpectedAre, BoundsType DEF OrderInv
    <2>2. Head(buffer).index \in Nat /\ m.index \in Nat /\ m.index <= Head(buffer).index
      <3>1. CASE Listing
        <4>1. m.index \in Nat
          BY <3>1, BoundsType DEF Expected, StripsOf, Message
        <4> QED BY <1>3, <3>1, <4>1, ExpectedAre, BoundsType
      <3>2. CASE ~Listing
        BY <1>2, <3>2, ExpectedAre
      <3> QED BY <3>1, <3>2
    <2> QED BY <2>1, <2>2 DEF Earlier
  <1> QED BY <1>1, <1>2, <1>4

\* The first request of a call finds nothing on its way.
LEMMA StartOwn ==
    ASSUME OrderInv, OwnInv, GetTransport \/ GetTracks PROVE OwnInv'
  <1>1. /\ pc = "idle" /\ request' = request + 1 /\ request \in Nat
        /\ UNCHANGED <<buffer, lost, last, gaveUp>> /\ got' = <<>>
    BY DEF GetTransport, GetTracks, Ask, OrderInv
  <1>2. pc' = "/transport_frame" \/ pc' = "list"
    BY DEF GetTransport, GetTracks
  <1>3. Past'
    BY <1>1 DEF OwnInv, Past
  <1>4. AnswersAreOwn'
    BY <1>1 DEF OwnInv, AnswersAreOwn
  <1>5. ASSUME ~gaveUp PROVE OnlyExpected'
    <2>1. buffer = <<>> /\ owed = <<>>
      BY <1>1, <1>5 DEF OwnInv, OnlyExpected
    <2>2. Contents(<<>>) = {}
      BY DEF Contents
    <2>3. CASE pc' = "/transport_frame"
      <3>1. owed' = <<>> \o <<Message(request', "/transport_frame", 1)>>
        BY <1>1, <2>1, <2>3 DEF GetTransport, GetTracks, Ask, Answer
      <3>2. Contents(owed') = {Message(request', "/transport_frame", 1)}
        BY <3>1 DEF Contents
      <3>3. Expected' = {Message(request', "/transport_frame", 1)}
        BY <2>3 DEF Expected, Listing
      <3> QED BY <1>1, <2>1, <2>2, <2>3, <3>2, <3>3 DEF OnlyExpected, Listing
    <2>4. CASE pc' = "list"
      <3>1. owed' = <<>> \o Answer(request', "/strip/list")
        BY <1>1, <2>1, <2>4 DEF GetTransport, GetTracks, Ask
      <3>2. Answer(request', "/strip/list") \in Seq(Datagrams)
        BY <1>1, AnswerInOrder
      <3>3. Contents(owed') = StripsOf(request') \cup {Message(request', "end", Strips + 1)}
        BY <1>1, <3>1, <3>2, ContentsOfAnswer
      <3>4. Expected' = StripsOf(request') \cup {Message(request', "end", Strips + 1)}
        BY <2>4 DEF Expected, Listing, StripsOf
      <3>5. Contents(owed') \cap lost = {}
        <4>1. \A m \in Contents(owed') : m.request = request'
          BY <3>3 DEF StripsOf, Message
        <4>2. \A m \in lost : m.request # request'
          BY <1>1 DEF OwnInv, Past
        <4> QED BY <4>1, <4>2
      <3>6. ListComplete'
        <4>1. StripsOf(request)' = StripsOf(request')
          BY DEF StripsOf
        <4>2. Contents(got') = {} /\ Contents(buffer') = {} /\ lost' = lost
          BY <1>1, <2>1, <2>2
        <4> QED BY <3>3, <3>5, <4>1, <4>2 DEF ListComplete
      <3> QED BY <1>1, <2>1, <2>2, <2>4, <3>3, <3>4, <3>6 DEF OnlyExpected, Listing
    <2> QED BY <1>2, <2>3, <2>4
  <1> QED BY <1>1, <1>3, <1>4, <1>5 DEF OwnInv

\* A reply of get_transport is the one asked for, and nothing comes after it.
LEMMA TransportOwn ==
    ASSUME OrderInv, OrderInv', OwnInv, RecvFrame \/ RecvSpeed PROVE OwnInv'
  <1>1. /\ pc \in {"/transport_frame", "/transport_speed"} /\ buffer # <<>>
        /\ buffer' = Tail(buffer) /\ lost' = lost /\ request \in Nat
    BY DEF RecvFrame, RecvSpeed, OrderInv
  <1>2. ASSUME ~gaveUp
        PROVE  /\ Head(buffer) = Message(request, pc, 1)
               /\ Tail(buffer) = <<>> /\ owed = <<>> /\ SingleArgument(Head(buffer))
    <2>1. OnlyExpected
      BY <1>2 DEF OwnInv
    <2>2. Head(buffer) \in Contents(buffer)
      BY <1>1, ContentsOf, ReadKeepsOrder DEF OrderInv
    <2>3. Head(buffer) = Message(request, pc, 1)
      BY <1>1, <2>1, <2>2 DEF OnlyExpected, Expected, Listing
    <2>4. Tail(buffer) = <<>> /\ owed = <<>>
      BY <1>1, <2>1, NothingFollows DEF Listing
    <2> QED BY <1>1, <2>3, <2>4 DEF SingleArgument, Message
  <1>3. CASE RecvFrame /\ SingleArgument(Head(buffer))
    <2>1. /\ request' = request + 1 /\ owed' = owed \o <<Message(request', "/transport_speed", 1)>>
          /\ pc' = "/transport_speed" /\ got' = <<Head(buffer)>> /\ UNCHANGED <<last, gaveUp>>
          /\ pc = "/transport_frame"
      BY <1>3 DEF RecvFrame, Ask, Answer
    <2>2. Past' /\ AnswersAreOwn'
      BY <1>1, <2>1 DEF OwnInv, Past, AnswersAreOwn
    <2>3. ASSUME ~gaveUp PROVE OnlyExpected'
      <3>1. buffer' = <<>> /\ owed' = <<>> \o <<Message(request', "/transport_speed", 1)>>
        BY <1>1, <1>2, <2>1, <2>3
      <3>2. Contents(buffer') = {} /\ Contents(owed') = {Message(request', "/transport_speed", 1)}
        BY <3>1 DEF Contents
      <3>3. Expected' = {Message(request', "/transport_speed", 1)}
        BY <2>1 DEF Expected, Listing
      <3>4. got' = <<Message(request' - 1, "/transport_frame", 1)>>
        BY <1>1, <1>2, <2>1, <2>3
      <3> QED BY <2>1, <3>2, <3>3, <3>4 DEF OnlyExpected, Listing, Message
    <2> QED BY <2>1, <2>2, <2>3 DEF OwnInv
  <1>4. CASE ~(RecvFrame /\ SingleArgument(Head(buffer)))
    <2>1. /\ pc' = "idle" /\ request' = request /\ owed' = owed /\ got' = got
          /\ last'.request = request /\ last'.tool = "get_transport"
          /\ last'.outcome \in {"ok", "ValueError"}
          /\ gaveUp' = (gaveUp \/ FALSE)
      BY <1>4 DEF RecvFrame, RecvSpeed, Ends
    <2>2. Past'
      BY <1>1, <2>1 DEF OwnInv, Past
    <2>3. ASSUME ~gaveUp PROVE OnlyExpected' /\ AnswersAreOwn'
      <3>1. RecvSpeed /\ pc = "/transport_speed" /\ last'.got = Append(got, Head(buffer))
        BY <1>2, <1>4, <2>3 DEF RecvFrame, RecvSpeed, Ends
      <3>2. got = <<Message(request - 1, "/transport_frame", 1)>>
        BY <2>3, <3>1 DEF OwnInv, OnlyExpected
      <3>3. last'.got = <<Message(request - 1, "/transport_frame", 1), Message(request, "/transport_speed", 1)>>
        <4>1. Head(buffer) = Message(request, "/transport_speed", 1)
          BY <1>2, <2>3, <3>1
        <4>2. Len(got) = 1 /\ got[1] = Message(request - 1, "/transport_frame", 1)
          BY <3>2
        <4>3. last'.got \in Seq(Datagrams) /\ Len(last'.got) = 2
              /\ last'.got[1] = Message(request - 1, "/transport_frame", 1)
              /\ last'.got[2] = Message(request, "/transport_speed", 1)
          <5>1. got \in Seq(Datagrams) /\ Head(buffer) \in Datagrams
            BY <1>1, ReadKeepsOrder DEF OrderInv
          <5>2. /\ Append(got, Head(buffer)) \in Seq(Datagrams)
                /\ Len(Append(got, Head(buffer))) = Len(got) + 1
                /\ \A i \in 1..Len(got) : Append(got, Head(buffer))[i] = got[i]
                /\ Append(got, Head(buffer))[Len(got) + 1] = Head(buffer)
            BY <5>1, AppendProperties
          <5>3. Len(got) + 1 = 2 /\ 1 \in 1..Len(got)
            BY <4>2
          <5> QED BY <3>1, <4>1, <4>2, <5>2, <5>3
        <4> DEFINE t == <<Message(request - 1, "/transport_frame", 1), Message(request, "/transport_speed", 1)>>
        <4>4. t \in Seq(Datagrams) /\ Len(t) = 2 /\ t[1] = last'.got[1] /\ t[2] = last'.got[2]
          <5>1. last'.got[1] \in Datagrams /\ last'.got[2] \in Datagrams
            BY <4>3
          <5> QED BY <4>3, <5>1
        <4> HIDE DEF t
        <4>5. \A i \in 1..2 : i = 1 \/ i = 2
          OBVIOUS
        <4>6. last'.got = t
          BY <4>3, <4>4, <4>5, SeqEqual
        <4> QED BY <4>6 DEF t
      <3>4. AnswersAreOwn'
        BY <2>1, <3>3 DEF AnswersAreOwn, Message
      <3>5. OnlyExpected'
        BY <1>1, <1>2, <2>1, <2>3 DEF OnlyExpected, Listing
      <3> QED BY <3>4, <3>5
    <2>4. gaveUp => AnswersAreOwn'
      BY <2>1 DEF AnswersAreOwn
    <2> QED BY <2>1, <2>2, <2>3, <2>4 DEF OwnInv
  <1> QED BY <1>3, <1>4

\* A list ends with the marker, when no strip of it is on its way any more.
LEMMA ListOwn ==
    ASSUME OrderInv, OrderInv', OwnInv, ListRecv PROVE OwnInv'
  <1>1. /\ pc = "list_recv" /\ buffer # <<>> /\ buffer' = Tail(buffer)
        /\ UNCHANGED <<request, owed, lost>> /\ request \in Nat
        /\ Head(buffer) \in Datagrams /\ got \in Seq(Datagrams)
        /\ Contents(buffer) = {Head(buffer)} \cup Contents(Tail(buffer))
    BY ReadKeepsOrder, ContentsOf DEF ListRecv, OrderInv
  <1>2. ASSUME ~gaveUp
        PROVE  /\ OnlyExpected /\ ListComplete
               /\ Head(buffer) \in StripsOf(request) \/ Head(buffer) = Message(request, "end", Strips + 1)
    BY <1>1, <1>2, ExpectedAre DEF OwnInv, OnlyExpected, Listing
  <1>3. CASE Head(buffer).kind = "end"
    <2>1. /\ pc' = "idle" /\ got' = got /\ last'.request = request /\ last'.tool = "get_tracks"
          /\ gaveUp' = (gaveUp \/ FALSE)
          /\ last'.outcome = "ok" => last'.got = got
      BY <1>3 DEF ListRecv, Ends
    <2>2. Past'
      BY <1>1, <2>1 DEF OwnInv, Past
    <2>3. ASSUME ~gaveUp PROVE OnlyExpected' /\ AnswersAreOwn'
      <3>1. Tail(buffer) = <<>> /\ owed = <<>>
        BY <1>1, <1>2, <1>3, <2>3, NothingFollows
      <3>2. Contents(<<>>) = {}
        BY DEF Contents
      <3>3. \A m \in StripsOf(request) : m.kind = "strip"
        BY DEF StripsOf, Message
      <3>4. StripsOf(request) \ lost = Contents(got)
        BY <1>1, <1>2, <1>3, <2>3, <3>1, <3>2, <3>3 DEF ListComplete
      <3>5. AnswersAreOwn'
        BY <1>1, <2>1, <3>4 DEF AnswersAreOwn, Contents, StripsOf
      <3>6. OnlyExpected'
        BY <1>1, <2>1, <3>1 DEF OnlyExpected, Listing
      <3> QED BY <3>5, <3>6
    <2>4. gaveUp => AnswersAreOwn'
      BY <2>1 DEF AnswersAreOwn
    <2> QED BY <2>1, <2>2, <2>3, <2>4 DEF OwnInv
  <1>4. CASE Head(buffer).kind # "end"
    <2>1. pc' = "list" /\ got' = Append(got, Head(buffer)) /\ UNCHANGED <<last, gaveUp>>
      BY <1>4 DEF ListRecv
    <2>2. Past' /\ AnswersAreOwn'
      BY <1>1, <2>1 DEF OwnInv, Past, AnswersAreOwn
    <2>3. ASSUME ~gaveUp PROVE OnlyExpected'
      <3>1. Head(buffer) \in StripsOf(request)
        BY <1>2, <1>4, <2>3 DEF Message
      <3>2. Contents(got') = Contents(got) \cup {Head(buffer)}
        BY <1>1, <2>1, ContentsOf
      <3>3. Expected' = Expected /\ StripsOf(request)' = StripsOf(request)
        BY <1>1, <2>1 DEF Expected, Listing, StripsOf
      <3>4. ListComplete'
        BY <1>1, <1>2, <2>3, <3>1, <3>2, <3>3 DEF ListComplete
      <3>5. Contents(buffer') \subseteq Expected' /\ Contents(owed') \subseteq Expected'
        BY <1>1, <1>2, <2>3, <3>3 DEF OnlyExpected
      <3> QED BY <2>1, <3>4, <3>5 DEF OnlyExpected
    <2> QED BY <2>1, <2>2, <2>3 DEF OwnInv
  <1> QED BY <1>3, <1>4

\* What is delivered or lost was on its way.
LEMMA NetworkOwn ==
    ASSUME OrderInv, OwnInv, Deliver \/ Lose PROVE OwnInv'
  <1>1. /\ owed # <<>> /\ owed' = Tail(owed)
        /\ UNCHANGED <<pc, request, got, last, gaveUp>> /\ request \in Nat
        /\ Head(owed) \in Datagrams /\ Head(owed) \in Contents(owed)
        /\ Contents(owed) = {Head(owed)} \cup Contents(Tail(owed))
        /\ owed \in Seq(Datagrams) /\ buffer \in Seq(Datagrams) /\ got \in Seq(Datagrams)
    <2>1. owed # <<>> /\ owed' = Tail(owed) /\ UNCHANGED <<pc, request, got, last, gaveUp>>
      BY DEF Deliver, Lose
    <2> QED BY <2>1, TailInOrder, ContentsOf DEF OrderInv
  <1>2. Head(owed).request \in Nat /\ Head(owed).request <= request
    BY <1>1, RequestTyped DEF OrderInv, UpTo, Contents
  <1>3. Expected' = Expected /\ StripsOf(request)' = StripsOf(request) /\ (Listing' <=> Listing)
    BY <1>1 DEF Expected, Listing, StripsOf
  <1>4. CASE Deliver
    <2>1. Contents(buffer') = Contents(buffer) \cup {Head(owed)} /\ lost' = lost
      BY <1>1, <1>4, ContentsOf DEF Deliver
    <2>2. Past' /\ AnswersAreOwn'
      BY <1>1, <2>1 DEF OwnInv, Past, AnswersAreOwn
    <2>3. ASSUME ~gaveUp PROVE OnlyExpected'
      <3>1. OnlyExpected /\ pc # "idle"
        BY <1>1, <2>3 DEF OwnInv, OnlyExpected
      <3>2. Listing => ListComplete'
        BY <1>1, <1>3, <2>1, <3>1 DEF OnlyExpected, ListComplete
      <3> QED BY <1>1, <1>3, <2>1, <3>1, <3>2 DEF OnlyExpected, Message
    <2> QED BY <1>1, <2>2, <2>3 DEF OwnInv
  <1>5. CASE Lose
    <2>1. buffer' = buffer /\ lost' = lost \cup {Head(owed)}
      BY <1>5 DEF Lose
    <2>2. Past'
      BY <1>1, <1>2, <2>1 DEF OwnInv, Past
    <2>3. ASSUME ~gaveUp PROVE OnlyExpected' /\ AnswersAreOwn'
      <3>1. OnlyExpected /\ pc # "idle"
        BY <1>1, <2>3 DEF OwnInv, OnlyExpected
      <3>2. Head(owed).request = request
        BY <1>1, <3>1, ExpectedAre DEF OnlyExpected
      <3>3. last.request < request
        BY <3>1 DEF OwnInv, Past
      <3>4. \A m \in StripsOf(last.request) : m.request = last.request
        BY DEF StripsOf, Message
      <3>5. StripsOf(last.request) \ lost' = StripsOf(last.request) \ lost
        <4>1. last.request # request
          BY <1>1, <3>3 DEF OwnInv, Past
        <4> QED BY <2>1, <3>2, <3>4, <4>1
      <3>6. AnswersAreOwn'
        <4>1. StripsOf(last.request)' = StripsOf(last.request)
          BY <1>1 DEF StripsOf
        <4> QED BY <1>1, <3>5, <4>1 DEF OwnInv, AnswersAreOwn
      <3>7. Listing => ListComplete'
        <4>1. ASSUME Listing
              PROVE  Head(owed) \notin Contents(got) \cup Contents(buffer) \cup Contents(Tail(owed))
          <5>1. \A m \in Contents(got) \cup Contents(buffer) : Earlier(m, Head(owed))
            <6>1. Head(owed) = owed[1] /\ 1 \in DOMAIN owed
              BY <1>1
            <6> QED BY <6>1 DEF OrderInv, Before, Contents
          <5>2. \A m \in Contents(Tail(owed)) : Earlier(Head(owed), m)
            BY <1>1, TailInOrder DEF OrderInv, Contents
          <5>3. ~Earlier(Head(owed), Head(owed))
            BY <1>1 DEF Earlier, Datagrams
          <5> QED BY <5>1, <5>2, <5>3
        <4> QED BY <1>1, <1>3, <2>1, <3>1, <4>1 DEF OnlyExpected, ListComplete
      <3>8. OnlyExpected'
        BY <1>1, <1>3, <2>1, <3>1, <3>7 DEF OnlyExpected, Message
      <3> QED BY <3>6, <3>8
    <2>4. gaveUp => AnswersAreOwn'
      BY <1>1 DEF AnswersAreOwn
    <2> QED BY <1>1, <2>2, <2>3, <2>4 DEF OwnInv
  <1> QED BY <1>4, <1>5

\* A call that gives up, and time, take nothing and send nothing.
LEMMA OtherOwn ==
    ASSUME OrderInv, OwnInv, QueryTimeout \/ ListTop \/ ListTimeout \/ Tick \/ UNCHANGED vars
    PROVE  OwnInv'
  <1>1. UNCHANGED <<request, got, buffer, owed, lost>> /\ request \in Nat
    BY DEF QueryTimeout, ListTop, ListTimeout, Tick, network, vars, OrderInv
  <1>2. CASE gaveUp' /\ pc' = "idle" /\ last'.request = request
    BY <1>1, <1>2 DEF OwnInv, Past, AnswersAreOwn
  <1>3. CASE UNCHANGED <<last, gaveUp>> /\ (pc' = pc \/ (pc = "list" /\ pc' = "list_recv"))
    <2>1. (Listing' <=> Listing) /\ (pc' = "idle" <=> pc = "idle")
          /\ (pc' = "/transport_speed" <=> pc = "/transport_speed")
      BY <1>3 DEF Listing
    <2>2. Expected' = Expected
      BY <1>1, <1>3, <2>1 DEF Expected, StripsOf, Listing
    <2>3. Past'
      BY <1>1, <1>3, <2>1 DEF OwnInv, Past
    <2>4. AnswersAreOwn'
      BY <1>1, <1>3 DEF OwnInv, AnswersAreOwn, StripsOf, Message
    <2>5. ListComplete => ListComplete'
      BY <1>1 DEF ListComplete, StripsOf, Message, Contents
    <2>6. ASSUME ~gaveUp PROVE OnlyExpected'
      <3>1. OnlyExpected
        BY <2>6 DEF OwnInv
      <3> QED BY <1>1, <2>1, <2>2, <2>5, <3>1 DEF OnlyExpected, Message, Contents
    <2>7. ~gaveUp' => ~gaveUp
      BY <1>3
    <2> QED BY <2>3, <2>4, <2>6, <2>7 DEF OwnInv
  <1>4. CASE QueryTimeout
    BY <1>2, <1>4 DEF QueryTimeout, Ends
  <1>5. CASE ListTop
    <2>1. CASE elapsed >= Budget
      <3>1. Ends("get_tracks", "ArdourOSCTimeout", <<>>)
        BY <1>5, <2>1 DEF ListTop
      <3> QED BY <1>2, <3>1 DEF Ends
    <2>2. CASE ~(elapsed >= Budget)
      BY <1>3, <1>5, <2>2 DEF ListTop
    <2> QED BY <2>1, <2>2
  <1>6. CASE ListTimeout
    BY <1>2, <1>6 DEF ListTimeout, Ends
  <1>7. CASE Tick
    BY <1>3, <1>7 DEF Tick
  <1>8. CASE UNCHANGED vars
    BY <1>3, <1>8 DEF vars
  <1> QED BY <1>4, <1>5, <1>6, <1>7, <1>8

\* Until a first call gives up, a transport is the frame and the speed of its
\* own two requests, and a track list lacks no strip but those UDP lost.
THEOREM Own == Spec => []AnswersAreOwn
  <1>1. Init => OwnInv
    BY DEF Init, OwnInv, Past, OnlyExpected, Listing, AnswersAreOwn
  <1>2. OrderInv /\ OrderInv' /\ OwnInv /\ [Next]_vars => OwnInv'
    BY StartOwn, TransportOwn, ListOwn, NetworkOwn, OtherOwn DEF Next, Client
  <1>3. Spec => []OrderInv
    BY InitOrder, NextOrder, PTL DEF Spec
  <1>4. OwnInv => AnswersAreOwn
    BY DEF OwnInv
  <1> QED BY <1>1, <1>2, <1>3, <1>4, PTL DEF Spec

-----------------------------------------------------------------------------
(* Types *)

\* A transport has room for its second request.
TypeInv == TypeOK /\ (pc = "/transport_frame" => request < MaxRequests)

\* An answer consists of messages of its request.
LEMMA AnswerTyped ==
    ASSUME NEW n \in Nat \ {0}, NEW address \in {"/strip/list", "/transport_frame", "/transport_speed"}
    PROVE  Answer(n, address) \in Seq([request : 1..n, kind : Kinds, index : 1..Strips + 1])
  <1> DEFINE M == [request : 1..n, kind : Kinds, index : 1..Strips + 1]
  <1>1. CASE address = "/strip/list"
    <2>1. \A i \in 1..Strips + 1 : Message(n, "strip", i) \in M /\ Message(n, "end", i) \in M
      BY DEF Message, Kinds
    <2>2. Answer(n, address) \in [1..Strips + 1 -> M] /\ Strips + 1 \in Nat
      BY <1>1, <2>1, BoundsType DEF Answer
    <2> HIDE DEF M
    <2>3. Answer(n, address) \in Seq(M)
      BY <2>2
    <2> QED BY <2>3 DEF M
  <1>2. CASE address # "/strip/list"
    <2>1. Answer(n, address) = <<Message(n, address, 1)>>
      BY <1>2 DEF Answer
    <2>2. Message(n, address, 1) \in M
      BY <1>2, BoundsType DEF Message, Kinds
    <2> HIDE DEF M
    <2>3. <<Message(n, address, 1)>> \in Seq(M)
      BY <2>2
    <2> QED BY <2>1, <2>3 DEF M
  <1> QED BY <1>1, <1>2

\* A request numbers its answer, and what was typed stays so.
LEMMA AskTyped ==
    ASSUME TypeOK, NEW address \in {"/strip/list", "/transport_frame", "/transport_speed"},
           Ask(address), request < MaxRequests
    PROVE  /\ request' \in 0..MaxRequests /\ owed' \in Seq(Messages')
           /\ Messages \subseteq Messages'
           /\ \A s : s \in Seq(Messages) => s \in Seq(Messages')
  <1>1. request' = request + 1 /\ request \in 0..MaxRequests /\ owed' = owed \o Answer(request', address)
    BY DEF Ask, TypeOK
  <1>2. Messages \subseteq Messages'
    BY <1>1, BoundsType DEF Messages
  <1>3. \A s : s \in Seq(Messages) => s \in Seq(Messages')
    <2> DEFINE M == Messages
               N == Messages'
    <2> HIDE DEF M, N
    <2>1. M \subseteq N => \A s : s \in Seq(M) => s \in Seq(N)
      OBVIOUS
    <2> QED BY <1>2, <2>1 DEF M, N
  <1>4. Answer(request', address) \in Seq(Messages')
    BY <1>1, AnswerTyped, BoundsType DEF Messages
  <1>5. owed \in Seq(Messages')
    BY <1>3 DEF TypeOK
  <1>6. owed' \in Seq(Messages')
    BY <1>1, <1>4, <1>5
  <1> QED BY <1>1, <1>2, <1>3, <1>6, BoundsType

\* Every reachable state of the Ardour client is well typed.
THEOREM TypeCorrect == Spec => []TypeOK
  <1>1. Init => TypeInv
    BY TicksType, BoundsType DEF Init, TypeInv, TypeOK
  <1>2. TypeInv /\ ClockInv /\ ClockInv' /\ [Next]_vars => TypeInv'
    <2> SUFFICES ASSUME TypeInv, ClockInv, ClockInv', [Next]_vars PROVE TypeInv'
      OBVIOUS
    <2> USE TicksType, BoundsType DEF TypeInv
    <2>1. sockTimeout' \in 1..(Normal + Budget)
      <3>1. CASE ListTop
        <4>1. \/ sockTimeout' = sockTimeout
              \/ elapsed < Budget /\ sockTimeout' = Budget - elapsed
          BY <3>1 DEF ListTop, TypeOK
        <4>2. sockTimeout \in 1..(Normal + Budget) /\ elapsed \in Nat
          BY DEF TypeOK
        <4> QED BY <4>1, <4>2
      <3>2. CASE ~ListTop
        <4>1. sockTimeout' = sockTimeout \/ sockTimeout' = Normal
          BY <3>2 DEF Next, Client, GetTransport, RecvFrame, RecvSpeed, QueryTimeout, GetTracks,
                      ListRecv, ListTimeout, Tick, Deliver, Lose, vars
        <4>2. sockTimeout \in 1..(Normal + Budget) /\ Normal \in 1..(Normal + Budget)
          BY DEF TypeOK
        <4> QED BY <4>1, <4>2
      <3> QED BY <3>1, <3>2
    <2>2. /\ pc' \in {"idle", "/transport_frame", "/transport_speed", "list", "list_recv"}
          /\ elapsed' \in Nat /\ wake' \in Nat
      BY DEF ClockInv, ClocksTyped
    <2>3. <<>> \in Seq(Messages) /\ <<>> \in Seq(Messages')
      OBVIOUS
    <2>4. ASSUME buffer # <<>> PROVE Head(buffer) \in Messages /\ Tail(buffer) \in Seq(Messages)
      BY <2>4, HeadTailProperties DEF TypeOK
    <2>5. ASSUME owed # <<>> PROVE Head(owed) \in Messages /\ Tail(owed) \in Seq(Messages)
      BY <2>5, HeadTailProperties DEF TypeOK
    <2>6. ASSUME request' = request PROVE Messages' = Messages
      BY <2>6 DEF Messages
    <2>7. CASE GetTransport
      <3>1. Ask("/transport_frame") /\ request + 1 < MaxRequests /\ got' = <<>>
            /\ UNCHANGED <<buffer, lost>>
        BY <2>7 DEF GetTransport
      <3>2. request' = request + 1 /\ request \in Nat
        BY <3>1 DEF Ask, TypeOK
      <3> QED BY <2>1, <2>2, <2>3, <3>1, <3>2, AskTyped DEF TypeOK
    <2>8. CASE RecvFrame /\ SingleArgument(Head(buffer))
      <3>1. /\ Ask("/transport_speed") /\ request < MaxRequests /\ got' = <<Head(buffer)>>
            /\ buffer # <<>> /\ buffer' = Tail(buffer) /\ lost' = lost /\ pc' = "/transport_speed"
        BY <2>8 DEF RecvFrame
      <3>2. Head(buffer) \in Messages' /\ Tail(buffer) \in Seq(Messages')
        BY <2>4, <3>1, AskTyped
      <3>3. <<Head(buffer)>> \in Seq(Messages')
        BY <3>2
      <3> QED BY <2>1, <2>2, <3>1, <3>2, <3>3, AskTyped DEF TypeOK
    <2>9. CASE GetTracks
      <3>1. Ask("/strip/list") /\ request < MaxRequests /\ got' = <<>> /\ pc' = "list"
            /\ UNCHANGED <<buffer, lost>>
        BY <2>9 DEF GetTracks, TypeOK
      <3> QED BY <2>1, <2>2, <2>3, <3>1, AskTyped DEF TypeOK
    <2>10. CASE \/ RecvFrame /\ ~SingleArgument(Head(buffer))
                \/ RecvSpeed \/ ListRecv
      <3>1. /\ buffer # <<>> /\ buffer' = Tail(buffer) /\ UNCHANGED <<request, owed, lost>>
            /\ got' = got \/ got' = Append(got, Head(buffer))
            /\ pc' # "/transport_frame"
        BY <2>10 DEF RecvFrame, RecvSpeed, ListRecv, Ends
      <3>2. got' \in Seq(Messages)
        <4>1. got \in Seq(Messages) /\ Head(buffer) \in Messages
          BY <2>4, <3>1 DEF TypeOK
        <4> QED BY <3>1, <4>1, AppendProperties
      <3> QED BY <2>1, <2>2, <2>4, <2>6, <3>1, <3>2 DEF TypeOK
    <2>11. CASE Deliver
      <3>1. /\ owed # <<>> /\ owed' = Tail(owed) /\ buffer' = Append(buffer, Head(owed))
            /\ UNCHANGED <<pc, request, got, lost>>
        BY <2>11 DEF Deliver
      <3>2. buffer' \in Seq(Messages)
        BY <2>5, <3>1, AppendProperties DEF TypeOK
      <3> QED BY <2>1, <2>2, <2>5, <2>6, <3>1, <3>2 DEF TypeOK
    <2>12. CASE Lose
      <3>1. /\ owed # <<>> /\ owed' = Tail(owed) /\ lost' = lost \cup {Head(owed)}
            /\ UNCHANGED <<pc, request, got, buffer>>
        BY <2>12 DEF Lose
      <3> QED BY <2>1, <2>2, <2>5, <2>6, <3>1 DEF TypeOK
    <2>13. CASE QueryTimeout \/ ListTop \/ ListTimeout \/ Tick \/ UNCHANGED vars
      <3>1. UNCHANGED <<request, got, buffer, owed, lost>> /\ (pc' = "/transport_frame" => pc = pc')
        BY <2>13 DEF QueryTimeout, ListTop, ListTimeout, Tick, Ends, vars, network
      <3> QED BY <2>1, <2>2, <2>6, <3>1 DEF TypeOK
    <2> QED BY <2>7, <2>8, <2>9, <2>10, <2>11, <2>12, <2>13 DEF Next, Client
  <1>3. Spec => []ClockInv
    BY Clock
  <1>4. TypeInv => TypeOK
    BY DEF TypeInv
  <1> QED BY <1>1, <1>2, <1>3, <1>4, PTL DEF Spec
=============================================================================
