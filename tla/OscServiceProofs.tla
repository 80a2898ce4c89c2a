--------------------------- MODULE OscServiceProofs ---------------------------
(***************************************************************************)
(* For any callers, addresses, number of queries and lateness elsewhere:   *)
(* at a prompt address that only one thread queries, the client implements *)
(* RequestReply.  The argument: while such a query waits, its thread keeps *)
(* its queue registered, since nobody else touches that address; its one   *)
(* datagram is under way, in the queue or lost; and once it has a result,  *)
(* nothing of it is under way any more, so the next query at the address   *)
(* starts from a clean slate.                                              *)
(***************************************************************************)
EXTENDS OscQueryProofs

InProgress(c) == pc[c] # "idle"

ServedMade == {n \in Made : asked[n] \in Served}

\* A query belongs to one thread, which may use its address.
OneOwner ==
    /\ \A c, d \in Callers : InProgress(c) /\ InProgress(d) /\ current[c] = current[d] => c = d
    /\ \A c \in Callers : InProgress(c) => asked[current[c]] \in Uses[c]

\* A query has its result exactly when its thread is through with it.
Settled ==
    /\ \A c \in Callers : pc[c] \in {"registered", "waiting"} => result[current[c]] = Pending
    /\ \A c \in Callers : pc[c] = "leaving" => result[current[c]] # Pending
    /\ \A n \in Made : result[n] = Pending => \E c \in Callers : InProgress(c) /\ current[c] = n
    /\ \A n \in Queries \ Made : result[n] = Pending /\ inbox[n] = <<>>

\* What is registered is in progress; at a thread's own address, and only
\* there, the converse holds too.
Registry ==
    /\ \A a \in Addresses : registered[a] # 0 =>
          \E c \in Callers : InProgress(c) /\ current[c] = registered[a]
    /\ \A c \in Callers : InProgress(c) /\ asked[current[c]] \in Exclusive =>
          registered[asked[current[c]]] = current[c]

\* A query travels as one datagram, or in the hands of one handler.
OneCopy ==
    /\ requests \cap replies = {}
    /\ \A h \in handlers : h.reply \notin requests \cup replies
    /\ \A h, k \in handlers : h.reply = k.reply => h = k
    /\ \A c \in Callers : pc[c] = "registered" => ~InFlight(current[c])

\* At a served address a reply goes to the queue of its own query, and while
\* that query waits, the reply is coming, there, or lost.
Delivery ==
    /\ \A h \in handlers : h.reply \in ServedMade => h.queue = h.reply
    /\ \A n \in ServedMade : \A i \in DOMAIN inbox[n] : inbox[n][i] = n
    /\ \A n \in ServedMade : inbox[n] # <<>> \/ result[n] # Pending => ~InFlight(n)
    /\ \A c \in Callers : pc[c] = "registered" /\ current[c] \in ServedMade =>
          inbox[current[c]] = <<>>
    /\ \A c \in Callers : pc[c] = "waiting" /\ current[c] \in ServedMade =>
          InFlight(current[c]) \/ inbox[current[c]] # <<>> \/ current[c] \in lost

\* ServedQueriesMatch and TimeoutMeansLost, of the queries concerned.
ResultsRight ==
    \A n \in ServedMade :
        /\ result[n] > 0 => result[n] = n
        /\ result[n] = TimedOut => n \in lost

ServiceInv == OneOwner /\ Settled /\ Registry /\ OneCopy /\ Delivery /\ ResultsRight

-----------------------------------------------------------------------------

\* What is typed and used in every lemma below.
LEMMA Basics ==
  ASSUME IInv
  PROVE  /\ asked \in Seq(Addresses) /\ Made \subseteq Queries
         /\ \A n \in Made : asked[n] \in Addresses
         /\ \A c \in Callers : InProgress(c) => current[c] \in Made
         /\ \A n : InFlight(n) => n \in Made
         /\ \A h \in handlers : h.reply \in Made /\ h.queue \in Made
         /\ \A n \in Queries : inbox[n] \in Seq(Made)
         /\ Pending \notin Made /\ TimedOut \notin Made /\ Failed \notin Made
<1>1. /\ asked \in Seq(Addresses) /\ Len(asked) \in Nat /\ Len(asked) <= MaxQueries
      /\ requests \subseteq Made /\ replies \subseteq Made
      /\ handlers \subseteq [reply : Made, queue : Made]
      /\ inbox \in [Queries -> Seq(Made)]
  BY DEF IInv, TypeOK, Made
<1>2. Made \subseteq Queries /\ \A n \in Made : asked[n] \in Addresses
  BY <1>1, MaxQueriesType DEF Made, Queries
<1>3. \A c \in Callers : InProgress(c) => current[c] \in Made
  BY DEF IInv, InQuery, InProgress
<1>4. \A h \in handlers : h.reply \in Made /\ h.queue \in Made
  BY <1>1
<1>5. \A n : InFlight(n) => n \in Made
  BY <1>1, <1>4 DEF InFlight
<1>6. Pending \notin Made /\ TimedOut \notin Made /\ Failed \notin Made
  BY DEF Made, Pending, TimedOut, Failed
<1>. QED
  BY <1>1, <1>2, <1>3, <1>4, <1>5, <1>6

\* A new query has a new number, and owns its address if that is exclusive.
LEMMA RegisterStep ==
  ASSUME IInv, IInv', ServiceInv, NEW c \in Callers, NEW a \in Addresses, Register(c, a)
  PROVE  ServiceInv'
<1>. DEFINE n == Len(asked) + 1
<1>1. /\ n \in Queries /\ n \notin Made /\ Made' = Made \cup {n}
      /\ asked'[n] = a /\ \A m \in Made : asked'[m] = asked[m]
      /\ ServedMade \subseteq ServedMade' /\ ServedMade' \subseteq ServedMade \cup {n}
  <2>1. /\ asked \in Seq(Addresses) /\ Len(asked) \in Nat /\ Len(asked) < MaxQueries
        /\ asked' = Append(asked, a)
    BY Basics DEF Register
  <2>2. Made' = Made \cup {n} /\ n \notin Made /\ n \in Queries
    BY <2>1, MaxQueriesType DEF Made, Queries
  <2>3. asked'[n] = a /\ \A m \in Made : asked'[m] = asked[m]
    BY <2>1 DEF Made
  <2>. QED
    BY <2>2, <2>3 DEF ServedMade
<1>2. /\ pc' = [pc EXCEPT ![c] = "registered"] /\ pc[c] = "idle" /\ a \in Uses[c]
      /\ current' = [current EXCEPT ![c] = n]
      /\ registered' = [registered EXCEPT ![a] = n]
      /\ UNCHANGED <<inbox, requests, replies, lost, handlers, result>>
      /\ pc \in [Callers -> {"idle", "registered", "waiting", "leaving"}]
      /\ current \in [Callers -> 0..Len(asked)]
      /\ registered \in [Addresses -> 0..Len(asked)]
  BY DEF Register, net, IInv, TypeOK
<1>3. \A d \in Callers : InProgress(d)' <=> (d = c \/ InProgress(d))
  BY <1>2 DEF InProgress
<1>4. /\ current'[c] = n /\ pc'[c] = "registered"
      /\ \A d \in Callers \ {c} : current'[d] = current[d] /\ pc'[d] = pc[d]
      /\ \A d \in Callers : InProgress(d) => d # c /\ current[d] \in Made /\ current'[d] # n
  BY <1>1, <1>2, Basics DEF InProgress
<1>5. \A m : InFlight(m)' <=> InFlight(m)
  BY <1>2 DEF InFlight
<1>6. ~InFlight(n) /\ result[n] = Pending /\ inbox[n] = <<>>
  BY <1>1, Basics DEF ServiceInv, Settled
<1>. HIDE DEF n
<1>7. OneOwner'
  BY <1>1, <1>2, <1>3, <1>4 DEF ServiceInv, OneOwner
<1>8. Settled'
  <2>1. \A d \in Callers : pc'[d] \in {"registered", "waiting"} => result'[current'[d]] = Pending
    BY <1>2, <1>4, <1>6 DEF ServiceInv, Settled
  <2>2. \A d \in Callers : pc'[d] = "leaving" => result'[current'[d]] # Pending
    BY <1>2, <1>4 DEF ServiceInv, Settled
  <2>3. \A m \in Made' : result'[m] = Pending =>
           \E d \in Callers : InProgress(d)' /\ current'[d] = m
    BY <1>1, <1>2, <1>3, <1>4 DEF ServiceInv, Settled
  <2>4. \A m \in Queries \ Made' : result'[m] = Pending /\ inbox'[m] = <<>>
    BY <1>1, <1>2 DEF ServiceInv, Settled
  <2>. QED
    BY <2>1, <2>2, <2>3, <2>4 DEF Settled, Queries, Pending
<1>9. Registry'
  <2>1. \A b \in Addresses : registered'[b] # 0 =>
           \E d \in Callers : InProgress(d)' /\ current'[d] = registered'[b]
    BY <1>2, <1>3, <1>4 DEF ServiceInv, Registry
  <2>2. \A d \in Callers : InProgress(d)' /\ asked'[current'[d]] \in Exclusive =>
           registered'[asked'[current'[d]]] = current'[d]
    <3> SUFFICES ASSUME NEW d \in Callers, InProgress(d)', asked'[current'[d]] \in Exclusive
                 PROVE  registered'[asked'[current'[d]]] = current'[d]
      OBVIOUS
    <3>1. CASE d = c
      BY <1>1, <1>2, <1>4, <3>1
    <3>2. CASE d # c
      <4>1. InProgress(d) /\ current'[d] = current[d] /\ asked'[current[d]] = asked[current[d]]
        BY <1>1, <1>3, <1>4, <3>2
      <4>2. asked[current[d]] \in Uses[d] /\ asked[current[d]] \in Exclusive
        BY <4>1 DEF ServiceInv, OneOwner
      <4>3. asked[current[d]] # a
        BY <1>2, <3>2, <4>2 DEF Exclusive
      <4>4. registered[asked[current[d]]] = current[d] /\ asked[current[d]] \in Addresses
        BY <4>1, <4>2 DEF ServiceInv, Registry, Exclusive
      <4>. QED
        BY <1>2, <4>1, <4>3, <4>4
    <3>. QED
      BY <3>1, <3>2
  <2>. QED
    BY <2>1, <2>2 DEF Registry, Exclusive
<1>10. OneCopy'
  BY <1>2, <1>4, <1>5, <1>6 DEF ServiceInv, OneCopy
<1>11. Delivery'
  <2>1. \A h \in handlers' : h.reply \in ServedMade' => h.queue = h.reply
    BY <1>1, <1>2, Basics DEF ServiceInv, Delivery
  <2>2. \A m \in ServedMade' : \A i \in DOMAIN inbox'[m] : inbox'[m][i] = m
    BY <1>1, <1>2, <1>6 DEF ServiceInv, Delivery
  <2>3. \A m \in ServedMade' : inbox'[m] # <<>> \/ result'[m] # Pending => ~InFlight(m)'
    BY <1>1, <1>2, <1>5, <1>6 DEF ServiceInv, Delivery
  <2>4. \A d \in Callers : pc'[d] = "registered" /\ current'[d] \in ServedMade' =>
           inbox'[current'[d]] = <<>>
    BY <1>1, <1>2, <1>4, <1>6 DEF ServiceInv, Delivery, InProgress
  <2>5. \A d \in Callers : pc'[d] = "waiting" /\ current'[d] \in ServedMade' =>
           InFlight(current[d])' \/ inbox'[current'[d]] # <<>> \/ current'[d] \in lost'
    BY <1>1, <1>2, <1>4, <1>5 DEF ServiceInv, Delivery, InProgress
  <2>. QED
    BY <2>1, <2>2, <2>3, <2>4, <2>5 DEF Delivery, Pending
<1>12. ResultsRight'
  BY <1>1, <1>2, <1>6 DEF ServiceInv, ResultsRight, Pending, TimedOut
<1>. QED
  BY <1>7, <1>8, <1>9, <1>10, <1>11, <1>12 DEF ServiceInv

\* Every other step makes no query, and moves at most one thread.
LEMMA Unasked ==
  ASSUME asked' = asked
  PROVE  Made' = Made /\ ServedMade' = ServedMade
  BY DEF Made, ServedMade

\* The thread that moves is the only one in its query.
LEMMA Alone ==
  ASSUME IInv, ServiceInv, NEW c \in Callers, InProgress(c)
  PROVE  /\ current[c] \in Made /\ current[c] \in Queries
         /\ \A d \in Callers : InProgress(d) /\ d # c => current[d] # current[c]
  BY Basics DEF ServiceInv, OneOwner

\* A request is sent for a query that has sent none.
LEMMA SendStep ==
  ASSUME IInv, IInv', ServiceInv, NEW c \in Callers, Send(c)
  PROVE  ServiceInv'
<1>. DEFINE n == current[c]
<1>1. /\ pc[c] = "registered" /\ pc' = [pc EXCEPT ![c] = "waiting"]
      /\ requests' = requests \cup {n}
      /\ UNCHANGED <<current, asked, result, registered, inbox, replies, lost, handlers>>
      /\ pc \in [Callers -> {"idle", "registered", "waiting", "leaving"}]
  BY DEF Send, IInv, TypeOK
<1>2. Made' = Made /\ ServedMade' = ServedMade
  BY <1>1, Unasked
<1>3. \A d \in Callers : InProgress(d)' <=> InProgress(d)
  BY <1>1 DEF InProgress
<1>4. /\ n \in Made /\ ~InFlight(n) /\ result[n] = Pending /\ InProgress(c)
      /\ n \in ServedMade => inbox[n] = <<>>
      /\ \A d \in Callers : InProgress(d) /\ d # c => current[d] # n
  BY <1>1, Alone DEF ServiceInv, Settled, OneCopy, Delivery, InProgress
<1>5. \A m : InFlight(m)' <=> InFlight(m) \/ m = n
  BY <1>1 DEF InFlight
<1>6. /\ pc'[c] = "waiting"
      /\ \A d \in Callers \ {c} : pc'[d] = pc[d]
  BY <1>1
<1>. HIDE DEF n
<1>7. OneOwner' /\ Registry'
  BY <1>1, <1>3 DEF ServiceInv, OneOwner, Registry
<1>8. Settled'
  BY <1>1, <1>2, <1>3, <1>4, <1>6 DEF ServiceInv, Settled, n, Queries, Pending
<1>9. OneCopy'
  <2>1. requests' \cap replies' = {} /\ \A h \in handlers' : h.reply \notin requests' \cup replies'
    BY <1>1, <1>4 DEF ServiceInv, OneCopy, InFlight
  <2>2. \A d \in Callers : pc'[d] = "registered" => ~InFlight(current[d])'
    BY <1>1, <1>4, <1>5, <1>6 DEF ServiceInv, OneCopy, InProgress
  <2>. QED
    BY <1>1, <2>1, <2>2 DEF ServiceInv, OneCopy
<1>10. Delivery'
  <2>1. \A m \in ServedMade : inbox[m] # <<>> \/ result[m] # Pending => ~InFlight(m)'
    BY <1>4, <1>5 DEF ServiceInv, Delivery
  <2>2. \A d \in Callers : pc'[d] = "registered" /\ current[d] \in ServedMade =>
           inbox[current[d]] = <<>>
    BY <1>6 DEF ServiceInv, Delivery
  <2>3. \A d \in Callers : pc'[d] = "waiting" /\ current[d] \in ServedMade =>
           InFlight(current[d])' \/ inbox[current[d]] # <<>> \/ current[d] \in lost
    BY <1>1, <1>5, <1>6 DEF ServiceInv, Delivery, n
  <2>. QED
    BY <1>1, <1>2, <2>1, <2>2, <2>3 DEF ServiceInv, Delivery, Pending
<1>11. ResultsRight'
  BY <1>1, <1>2 DEF ServiceInv, ResultsRight, TimedOut
<1>. QED
  BY <1>7, <1>8, <1>9, <1>10, <1>11 DEF ServiceInv

\* However a query ends, its datagram is no longer under way, and it returns
\* the right result.
LEMMA EndStep ==
  ASSUME IInv, IInv', ServiceInv, NEW c \in Callers, Get(c) \/ Timeout(c) \/ SendFails(c)
  PROVE  ServiceInv'
<1>. DEFINE n == current[c]
<1>1. /\ pc[c] \in {"registered", "waiting"} /\ pc' = [pc EXCEPT ![c] = "leaving"]
      /\ result' = [result EXCEPT ![n] = result'[n]]
      /\ UNCHANGED <<current, asked, registered, requests, replies, lost, handlers>>
      /\ pc \in [Callers -> {"idle", "registered", "waiting", "leaving"}]
  BY DEF Get, Timeout, SendFails, net, IInv, TypeOK
<1>2. Made' = Made /\ ServedMade' = ServedMade
  BY <1>1, Unasked
<1>3. \A d \in Callers : InProgress(d)' <=> InProgress(d)
  BY <1>1 DEF InProgress
<1>4. /\ n \in Made /\ n \in Queries /\ result[n] = Pending /\ InProgress(c)
      /\ \A d \in Callers : InProgress(d) /\ d # c => current[d] # n
  BY <1>1, Alone DEF ServiceInv, Settled, InProgress
<1>5. \A m : InFlight(m)' <=> InFlight(m)
  BY <1>1 DEF InFlight
<1>6. /\ pc'[c] = "leaving"
      /\ \A d \in Callers \ {c} : pc'[d] = pc[d]
      /\ \A m \in Queries : m # n => result'[m] = result[m]
  BY <1>1 DEF IInv, TypeOK
<1>7. /\ \A m \in Queries : m # n => inbox'[m] = inbox[m]
      /\ inbox'[n] = inbox[n] \/ (inbox[n] # <<>> /\ inbox'[n] = Tail(inbox[n]))
      /\ n \in ServedMade => ~InFlight(n)
      /\ result'[n] # Pending
      /\ n \in ServedMade => /\ result'[n] > 0 => result'[n] = n
                             /\ result'[n] = TimedOut => n \in lost
  <2>0. result \in [Queries -> Made \cup {Pending, TimedOut, Failed}] /\ inbox \in [Queries -> Seq(Made)]
    BY DEF IInv, TypeOK, Made
  <2>1. CASE Get(c)
    <3>1. /\ inbox[n] # <<>> /\ inbox' = [inbox EXCEPT ![n] = Tail(@)]
          /\ result'[n] = Head(inbox[n])
      BY <2>0, <2>1, <1>4 DEF Get
    <3>2. Head(inbox[n]) \in Made /\ inbox[n][1] = Head(inbox[n]) /\ 1 \in DOMAIN inbox[n]
      BY <2>0, <3>1, <1>4, HeadTailProperties
    <3>3. n \in ServedMade => ~InFlight(n) /\ Head(inbox[n]) = n
      BY <3>1, <3>2 DEF ServiceInv, Delivery
    <3>4. Head(inbox[n]) # Pending /\ Head(inbox[n]) # TimedOut
      BY <3>2 DEF Made, Pending, TimedOut
    <3>. QED
      BY <2>0, <1>4, <3>1, <3>3, <3>4
  <2>2. CASE Timeout(c)
    <3>1. /\ inbox[n] = <<>> /\ inbox' = inbox /\ result'[n] = TimedOut
          /\ pc[c] = "waiting" /\ (asked[n] \in Prompt => ~InFlight(n))
      BY <2>0, <2>2, <1>4 DEF Timeout
    <3>2. n \in ServedMade => ~InFlight(n) /\ n \in lost
      BY <3>1 DEF ServiceInv, Delivery, ServedMade, Served
    <3>. QED
      BY <3>1, <3>2 DEF TimedOut, Pending
  <2>3. CASE SendFails(c)
    <3>1. inbox' = inbox /\ result'[n] = Failed /\ pc[c] = "registered"
      BY <2>0, <2>3, <1>4 DEF SendFails
    <3>2. ~InFlight(n)
      BY <3>1 DEF ServiceInv, OneCopy
    <3>. QED
      BY <3>1, <3>2 DEF TimedOut, Pending, Failed
  <2>. QED
    BY <2>1, <2>2, <2>3
<1>. HIDE DEF n
<1>8. OneOwner' /\ Registry'
  BY <1>1, <1>3 DEF ServiceInv, OneOwner, Registry
<1>9. Settled'
  <2>1. \A d \in Callers : pc'[d] \in {"registered", "waiting"} => result'[current[d]] = Pending
    BY <1>4, <1>6, Basics DEF ServiceInv, Settled, InProgress
  <2>2. \A d \in Callers : pc'[d] = "leaving" => result'[current[d]] # Pending
    BY <1>4, <1>6, <1>7, Basics DEF ServiceInv, Settled, InProgress, n
  <2>3. \A m \in Made : result'[m] = Pending => \E d \in Callers : InProgress(d) /\ current[d] = m
    BY <1>6, <1>7, Basics DEF ServiceInv, Settled
  <2>4. \A m \in Queries \ Made : result'[m] = Pending /\ inbox'[m] = <<>>
    BY <1>4, <1>6, <1>7 DEF ServiceInv, Settled
  <2>. QED
    BY <1>1, <1>2, <1>3, <2>1, <2>2, <2>3, <2>4 DEF Settled, Queries, Pending
<1>10. OneCopy'
  BY <1>1, <1>5, <1>6 DEF ServiceInv, OneCopy
<1>11. Delivery'
  <2>1. \A m \in ServedMade : \A i \in DOMAIN inbox'[m] : inbox'[m][i] = m
    <3> SUFFICES ASSUME NEW m \in ServedMade, NEW i \in DOMAIN inbox'[m] PROVE inbox'[m][i] = m
      OBVIOUS
    <3>0. m \in Queries /\ inbox[m] \in Seq(Made)
      BY Basics DEF ServedMade
    <3>1. CASE inbox'[m] = inbox[m]
      BY <3>1 DEF ServiceInv, Delivery
    <3>2. CASE inbox[m] # <<>> /\ inbox'[m] = Tail(inbox[m])
      <4>1. i + 1 \in DOMAIN inbox[m] /\ inbox'[m][i] = inbox[m][i + 1]
        BY <3>0, <3>2
      <4>. QED
        BY <4>1 DEF ServiceInv, Delivery
    <3>. QED
      BY <3>0, <3>1, <3>2, <1>7
  <2>2. \A m \in ServedMade : inbox'[m] # <<>> \/ result'[m] # Pending => ~InFlight(m)'
    BY <1>5, <1>6, <1>7, Basics DEF ServiceInv, Delivery, ServedMade
  <2>3. \A d \in Callers : pc'[d] \in {"registered", "waiting"} =>
           d # c /\ pc'[d] = pc[d] /\ inbox'[current[d]] = inbox[current[d]]
    BY <1>4, <1>6, <1>7, Basics DEF InProgress
  <2>. QED
    BY <1>1, <1>2, <1>5, <2>1, <2>2, <2>3 DEF ServiceInv, Delivery, Pending
<1>12. ResultsRight'
  BY <1>1, <1>2, <1>6, <1>7, Basics DEF ServiceInv, ResultsRight, TimedOut, ServedMade
<1>. QED
  BY <1>8, <1>9, <1>10, <1>11, <1>12 DEF ServiceInv

\* Popping the address removes at most the thread's own queue there, if the
\* address is its own.
LEMMA PopStep ==
  ASSUME IInv, IInv', ServiceInv, NEW c \in Callers, Pop(c)
  PROVE  ServiceInv'
<1>. DEFINE a == asked[current[c]]
<1>1. /\ pc[c] = "leaving" /\ pc' = [pc EXCEPT ![c] = "idle"]
      /\ registered' = [registered EXCEPT ![a] = 0]
      /\ UNCHANGED <<current, asked, result, inbox, requests, replies, lost, handlers>>
      /\ pc \in [Callers -> {"idle", "registered", "waiting", "leaving"}]
      /\ registered \in [Addresses -> 0..Len(asked)]
  BY DEF Pop, net, IInv, TypeOK
<1>2. Made' = Made /\ ServedMade' = ServedMade
  BY <1>1, Unasked
<1>3. \A d \in Callers : InProgress(d)' <=> InProgress(d) /\ d # c
  BY <1>1 DEF InProgress
<1>4. /\ current[c] \in Made /\ InProgress(c) /\ result[current[c]] # Pending
      /\ a \in Addresses /\ a \in Uses[c]
      /\ \A d \in Callers : InProgress(d) /\ d # c => current[d] # current[c]
  BY <1>1, Alone, Basics DEF ServiceInv, Settled, OneOwner, InProgress
<1>5. \A m : InFlight(m)' <=> InFlight(m)
  BY <1>1 DEF InFlight
<1>6. /\ pc'[c] = "idle" /\ registered'[a] = 0
      /\ \A d \in Callers \ {c} : pc'[d] = pc[d]
      /\ \A b \in Addresses \ {a} : registered'[b] = registered[b]
  BY <1>1, <1>4
<1>7. OneOwner'
  BY <1>1, <1>3 DEF ServiceInv, OneOwner
<1>8. Settled'
  <2>1. \A m \in Made : result[m] = Pending =>
           \E d \in Callers : (InProgress(d) /\ d # c) /\ current[d] = m
    BY <1>4 DEF ServiceInv, Settled
  <2>2. \A d \in Callers : pc'[d] # "idle" => pc'[d] = pc[d]
    BY <1>6
  <2>. QED
    BY <1>1, <1>2, <1>3, <2>1, <2>2 DEF ServiceInv, Settled, Queries, Pending
<1>9. Registry'
  <2>1. ASSUME NEW b \in Addresses, registered'[b] # 0
        PROVE  \E d \in Callers : (InProgress(d) /\ d # c) /\ current[d] = registered'[b]
    <3>1. b # a /\ registered'[b] = registered[b]
      BY <1>6, <2>1
    <3>2. PICK d \in Callers : InProgress(d) /\ current[d] = registered[b]
      BY <2>1, <3>1 DEF ServiceInv, Registry
    <3>3. asked[registered[b]] = b
      BY <2>1, <3>1 DEF IInv, NewestIsRegistered
    <3>. QED
      BY <3>1, <3>2, <3>3
  <2>2. ASSUME NEW d \in Callers, InProgress(d), d # c, asked[current[d]] \in Exclusive
        PROVE  registered'[asked[current[d]]] = current[d]
    <3>1. asked[current[d]] \in Uses[d] /\ asked[current[d]] \in Addresses
      BY <2>2 DEF ServiceInv, OneOwner, Exclusive
    <3>2. asked[current[d]] # a
      BY <1>4, <2>2, <3>1 DEF Exclusive
    <3>. QED
      BY <1>6, <2>2, <3>1, <3>2 DEF ServiceInv, Registry
  <2>. QED
    BY <1>1, <1>3, <2>1, <2>2 DEF Registry
<1>10. OneCopy' /\ Delivery'
  <2>1. \A d \in Callers : pc'[d] # "idle" => pc'[d] = pc[d]
    BY <1>6
  <2>. QED
    BY <1>1, <1>2, <1>5, <2>1 DEF ServiceInv, OneCopy, Delivery, Pending
<1>11. ResultsRight'
  BY <1>1, <1>2 DEF ServiceInv, ResultsRight, TimedOut
<1>. QED
  BY <1>7, <1>8, <1>9, <1>10, <1>11 DEF ServiceInv

\* A datagram that is answered or lost leaves the client as it is.
LEMMA NetStep ==
  ASSUME IInv, IInv', ServiceInv, NEW n \in Queries, Answer(n) \/ Lose(n)
  PROVE  ServiceInv'
<1>1. /\ UNCHANGED <<pc, current, asked, result, registered, inbox, handlers>>
      /\ \A m : m \in requests' \cup replies' => m \in requests \cup replies
      /\ \A m \in requests \cup replies : m \in requests' \cup replies' \/ m \in lost'
      /\ lost \subseteq lost'
      /\ requests \cap replies = {} => requests' \cap replies' = {}
  BY DEF Answer, Lose, client
<1>2. Made' = Made /\ ServedMade' = ServedMade
  BY <1>1, Unasked
<1>3. \A d \in Callers : InProgress(d)' <=> InProgress(d)
  BY <1>1 DEF InProgress
<1>4. \A m : InFlight(m)' => InFlight(m)
  BY <1>1 DEF InFlight
<1>5. \A m : InFlight(m) => InFlight(m)' \/ m \in lost'
  BY <1>1 DEF InFlight
<1>6. OneOwner' /\ Settled' /\ Registry'
  BY <1>1, <1>2, <1>3 DEF ServiceInv, OneOwner, Settled, Registry, Queries, Pending
<1>7. OneCopy'
  BY <1>1, <1>4 DEF ServiceInv, OneCopy
<1>8. Delivery'
  BY <1>1, <1>2, <1>4, <1>5 DEF ServiceInv, Delivery, Pending
<1>9. ResultsRight'
  BY <1>1, <1>2 DEF ServiceInv, ResultsRight, TimedOut
<1>. QED
  BY <1>6, <1>7, <1>8, <1>9 DEF ServiceInv

\* The reply to a query of a served address finds that query's queue: it is
\* under way, so the query has no result, so it is in progress, so registered.
LEMMA FindsItsQueue ==
  ASSUME IInv, ServiceInv, NEW n \in ServedMade, InFlight(n)
  PROVE  registered[asked[n]] = n
<1>1. result[n] = Pending
  BY DEF ServiceInv, Delivery
<1>2. PICK c \in Callers : InProgress(c) /\ current[c] = n
  BY <1>1 DEF ServiceInv, Settled, ServedMade
<1>. QED
  BY <1>2 DEF ServiceInv, Registry, ServedMade, Served

\* A looked-up reply of a served address is in the hands of one handler.
LEMMA LookupStep ==
  ASSUME IInv, IInv', ServiceInv, NEW n \in Queries, Lookup(n)
  PROVE  ServiceInv'
<1>. DEFINE q == registered[asked[n]]
<1>1. /\ n \in replies /\ replies' = replies \ {n}
      /\ handlers' = handlers \cup {[reply |-> n, queue |-> r] : r \in {q} \ {0}}
      /\ UNCHANGED <<pc, current, asked, result, registered, inbox, requests, lost>>
  BY DEF Lookup, client
<1>2. Made' = Made /\ ServedMade' = ServedMade
  BY <1>1, Unasked
<1>3. \A d \in Callers : InProgress(d)' <=> InProgress(d)
  BY <1>1 DEF InProgress
<1>4. InFlight(n) /\ n \notin requests /\ \A h \in handlers : h.reply # n
  BY <1>1 DEF ServiceInv, OneCopy, InFlight
<1>5. n \in ServedMade => q = n /\ n # 0
  BY <1>4, FindsItsQueue, Basics DEF ServedMade, Pending
<1>6. \A h \in handlers' : h \in handlers \/ (h.reply = n /\ h.queue = q /\ q # 0)
  BY <1>1
<1>7. \A h, k \in handlers' : h.reply = n /\ k.reply = n => h = k
  BY <1>1, <1>4
<1>8. \A m : InFlight(m)' => InFlight(m)
  BY <1>1, <1>4, <1>6 DEF InFlight
<1>9. \A m \in ServedMade : InFlight(m) => InFlight(m)'
  <2>1. n \in ServedMade => [reply |-> n, queue |-> q] \in handlers'
    BY <1>1, <1>5
  <2>2. n \in ServedMade => \E h \in handlers' : h.reply = n
    BY <2>1
  <2>. QED
    BY <1>1, <2>2 DEF InFlight
<1>. HIDE DEF q
<1>10. OneOwner' /\ Settled' /\ Registry'
  BY <1>1, <1>2, <1>3 DEF ServiceInv, OneOwner, Settled, Registry, Queries, Pending
<1>11. OneCopy'
  <2>1. requests' \cap replies' = {} /\ \A h \in handlers' : h.reply \notin requests' \cup replies'
    BY <1>1, <1>4, <1>6 DEF ServiceInv, OneCopy
  <2>2. \A h, k \in handlers' : h.reply = k.reply => h = k
    BY <1>4, <1>6, <1>7 DEF ServiceInv, OneCopy
  <2>. QED
    BY <1>1, <1>8, <2>1, <2>2 DEF ServiceInv, OneCopy
<1>12. Delivery'
  <2>1. \A h \in handlers' : h.reply \in ServedMade => h.queue = h.reply
    BY <1>5, <1>6 DEF ServiceInv, Delivery
  <2>. QED
    BY <1>1, <1>2, <1>8, <1>9, <2>1 DEF ServiceInv, Delivery, Pending
<1>13. ResultsRight'
  BY <1>1, <1>2 DEF ServiceInv, ResultsRight, TimedOut
<1>. QED
  BY <1>10, <1>11, <1>12, <1>13 DEF ServiceInv

\* Nothing else of the query is under way once its reply is in its queue.
LEMMA PutStep ==
  ASSUME IInv, IInv', ServiceInv, NEW h \in handlers, Put(h)
  PROVE  ServiceInv'
<1>1. /\ handlers' = handlers \ {h} /\ inbox' = [inbox EXCEPT ![h.queue] = Append(@, h.reply)]
      /\ UNCHANGED <<pc, current, asked, result, registered, requests, replies, lost>>
  BY DEF Put, client, net
<1>2. Made' = Made /\ ServedMade' = ServedMade
  BY <1>1, Unasked
<1>3. \A d \in Callers : InProgress(d)' <=> InProgress(d)
  BY <1>1 DEF InProgress
<1>4. /\ h.reply \in Made /\ h.queue \in Made /\ Made \subseteq Queries
      /\ inbox[h.queue] \in Seq(Made) /\ inbox \in [Queries -> Seq(Made)]
      /\ InFlight(h.reply) /\ asked[h.reply] = asked[h.queue]
  <2>1. asked[h.reply] = asked[h.queue]
    BY DEF IInv, HandlersLookBack, NotAfter
  <2>2. inbox \in [Queries -> Seq(Made)]
    BY DEF IInv, TypeOK, Made
  <2>. QED
    BY <2>1, <2>2, Basics DEF InFlight
<1>5. h.queue \in ServedMade => h.reply \in ServedMade /\ h.reply = h.queue
  BY <1>4 DEF ServedMade, ServiceInv, Delivery
<1>6. /\ inbox'[h.queue] = Append(inbox[h.queue], h.reply)
      /\ \A m \in Queries : m # h.queue => inbox'[m] = inbox[m]
  BY <1>1, <1>4
<1>7. ~InFlight(h.reply)'
  BY <1>1 DEF ServiceInv, OneCopy, InFlight
<1>8. \A m : InFlight(m)' => InFlight(m)
  BY <1>1 DEF InFlight
<1>9. \A m : InFlight(m) => InFlight(m)' \/ m = h.reply
  BY <1>1 DEF InFlight
<1>10. OneOwner' /\ Registry'
  BY <1>1, <1>3 DEF ServiceInv, OneOwner, Registry
<1>11. Settled'
  BY <1>1, <1>2, <1>3, <1>4, <1>6 DEF ServiceInv, Settled, Queries, Pending
<1>12. OneCopy'
  BY <1>1, <1>8 DEF ServiceInv, OneCopy
<1>13. Delivery'
  <2>1. \A m \in ServedMade : \A i \in DOMAIN inbox'[m] : inbox'[m][i] = m
    <3> SUFFICES ASSUME NEW m \in ServedMade, NEW i \in DOMAIN inbox'[m] PROVE inbox'[m][i] = m
      OBVIOUS
    <3>1. CASE m # h.queue
      BY <1>4, <1>6, <3>1 DEF ServiceInv, Delivery, ServedMade
    <3>2. CASE m = h.queue
      <4>1. inbox'[m] = Append(inbox[m], h.reply) /\ inbox[m] \in Seq(Made) /\ h.reply \in Made
        BY <1>4, <1>6, <3>2
      <4>2. (i \in DOMAIN inbox[m] /\ inbox'[m][i] = inbox[m][i]) \/ inbox'[m][i] = h.reply
        BY <4>1
      <4>. QED
        BY <1>5, <3>2, <4>2 DEF ServiceInv, Delivery
    <3>. QED
      BY <3>1, <3>2
  <2>2. \A m \in ServedMade : inbox'[m] # <<>> \/ result[m] # Pending => ~InFlight(m)'
    BY <1>4, <1>5, <1>6, <1>7, <1>8 DEF ServiceInv, Delivery, ServedMade
  <2>3. \A d \in Callers : pc[d] = "registered" /\ current[d] \in ServedMade =>
           inbox'[current[d]] = <<>>
    <3> SUFFICES ASSUME NEW d \in Callers, pc[d] = "registered", current[d] \in ServedMade
                 PROVE  inbox'[current[d]] = <<>>
      OBVIOUS
    <3>1. ~InFlight(current[d]) /\ inbox[current[d]] = <<>>
      BY DEF ServiceInv, OneCopy, Delivery
    <3>2. current[d] # h.queue
      BY <1>4, <1>5, <3>1
    <3>. QED
      BY <1>4, <1>6, <3>1, <3>2 DEF ServedMade
  <2>4. \A d \in Callers : pc[d] = "waiting" /\ current[d] \in ServedMade =>
           InFlight(current[d])' \/ inbox'[current[d]] # <<>> \/ current[d] \in lost
    <3> SUFFICES ASSUME NEW d \in Callers, pc[d] = "waiting", current[d] \in ServedMade
                 PROVE  InFlight(current[d])' \/ inbox'[current[d]] # <<>> \/ current[d] \in lost
      OBVIOUS
    <3>1. inbox'[h.queue] # <<>>
      <4>1. /\ inbox'[h.queue] = Append(inbox[h.queue], h.reply)
            /\ inbox[h.queue] \in Seq(Made) /\ h.reply \in Made
        BY <1>4, <1>6
      <4>2. Len(inbox'[h.queue]) = Len(inbox[h.queue]) + 1 /\ Len(inbox[h.queue]) \in Nat
        BY <4>1
      <4>. QED
        BY <4>2
    <3>2. current[d] = h.reply => h.queue = h.reply
      BY DEF ServiceInv, Delivery
    <3>3. current[d] # h.queue => inbox'[current[d]] = inbox[current[d]]
      BY <1>4, <1>6 DEF ServedMade
    <3>. QED
      BY <1>9, <3>1, <3>2, <3>3, <1>1 DEF ServiceInv, Delivery
  <2>. QED
    BY <1>1, <1>2, <2>1, <2>2, <2>3, <2>4 DEF ServiceInv, Delivery, Pending
<1>14. ResultsRight'
  BY <1>1, <1>2 DEF ServiceInv, ResultsRight, TimedOut
<1>. QED
  BY <1>10, <1>11, <1>12, <1>13, <1>14 DEF ServiceInv

\* The invariant holds of every reachable state.
THEOREM ServiceInductive == Spec => [](IInv /\ ServiceInv)
<1>1. Init => ServiceInv
  BY DEF Init, ServiceInv, OneOwner, Settled, Registry, OneCopy, Delivery, ResultsRight,
         InProgress, ServedMade, Made, InFlight, Queries, Pending
<1>2. IInv /\ IInv' /\ ServiceInv /\ [Next]_vars => ServiceInv'
  <2> SUFFICES ASSUME IInv, IInv', ServiceInv, [Next]_vars PROVE ServiceInv'
    OBVIOUS
  <2>1. ASSUME NEW c \in Callers, Query(c) PROVE ServiceInv'
    BY <2>1, RegisterStep, SendStep, EndStep, PopStep DEF Query
  <2>2. ASSUME NEW n \in Queries, Answer(n) \/ Lose(n) \/ Lookup(n) PROVE ServiceInv'
    BY <2>2, NetStep, LookupStep
  <2>3. ASSUME NEW h \in handlers, Put(h) PROVE ServiceInv'
    BY <2>3, PutStep
  <2>4. CASE UNCHANGED vars
    BY <2>4 DEF vars, client, net, ServiceInv, OneOwner, Settled, Registry, OneCopy, Delivery,
                ResultsRight, InProgress, ServedMade, Made, InFlight, Pending, TimedOut, Queries
  <2>. QED
    BY <2>1, <2>2, <2>3, <2>4 DEF Next
<1>. QED
  BY <1>1, <1>2, Inductive, PTL DEF Spec

\* At a prompt address of a thread's own, a query is answered with the reply to
\* itself, whatever late and overlapping queries do at the other addresses.
THEOREM ServedRight == Spec => []ServedQueriesMatch
<1>1. ServiceInv => ServedQueriesMatch
  BY DEF ServiceInv, ResultsRight, ServedQueriesMatch, ServedMade, Made
<1>. QED
  BY <1>1, ServiceInductive, PTL

\* There, a query times out only if UDP lost its request or its reply.
THEOREM TimeoutsAreLosses == Spec => []TimeoutMeansLost
<1>1. ServiceInv => TimeoutMeansLost
  BY DEF ServiceInv, ResultsRight, TimeoutMeansLost, ServedMade, Made
<1>. QED
  BY <1>1, ServiceInductive, PTL

\* The registry never keeps the queue of a finished query, and never loses that
\* of a query at a thread's own address.
THEOREM RegistryRight == Spec => []RegistryIsExact
<1>1. IInv /\ ServiceInv => RegistryIsExact
  <2> SUFFICES ASSUME IInv, ServiceInv PROVE RegistryIsExact
    OBVIOUS
  <2>. USE DEF ServiceInv
  <2>1. ASSUME NEW a \in Exclusive, NEW n \in Queries, registered[a] = n
        PROVE  \E c \in Callers : pc[c] # "idle" /\ current[c] = n /\ asked[n] = a
    <3>1. a \in Addresses /\ n # 0
      BY DEF Exclusive, Queries
    <3>. QED
      BY <2>1, <3>1 DEF Registry, InProgress, IInv, NewestIsRegistered
  <2>2. ASSUME NEW a \in Exclusive, NEW c \in Callers, pc[c] # "idle", asked[current[c]] = a
        PROVE  registered[a] = current[c]
    BY <2>2 DEF Registry, InProgress
  <2>3. (\A c \in Callers : pc[c] = "idle") => \A a \in Addresses : registered[a] = 0
    BY DEF Registry, InProgress
  <2>. QED
    BY <2>1, <2>2, <2>3 DEF RegistryIsExact
<1>. QED
  BY <1>1, ServiceInductive, PTL

-----------------------------------------------------------------------------
(* The client implements RequestReply *)

Asking == [c \in Callers |-> IF pc[c] # "idle" /\ InService(current[c]) THEN current[c] ELSE 0]
Outcome == [n \in Queries |-> OutcomeOf(n)]

\* The abstract state, by what the invariant says of the concrete one: no
\* query is "mismatched".
Maps ==
    /\ \A c \in Callers :
          Asking[c] = IF InProgress(c) /\ current[c] \in ServedMade THEN current[c] ELSE 0
    /\ \A n \in Queries :
          /\ n \notin ServedMade => Outcome[n] = "unasked"
          /\ n \in ServedMade /\ result[n] = Pending => Outcome[n] = "open"
          /\ n \in ServedMade /\ result[n] # Pending => Outcome[n] \in {"answered", "raised"}

\* A served query has no other result than its own reply or an exception.
LEMMA MapsAlways == IInv /\ ServiceInv => Maps
<1> SUFFICES ASSUME IInv, ServiceInv PROVE Maps
  OBVIOUS
<1>1. \A n \in Queries : InService(n) <=> n \in ServedMade
  BY MaxQueriesType DEF InService, ServedMade, Made, IInv, TypeOK, Queries
<1>2. ASSUME NEW c \in Callers
      PROVE  Asking[c] = IF InProgress(c) /\ current[c] \in ServedMade THEN current[c] ELSE 0
  <2>1. InProgress(c) => current[c] \in Queries
    BY Basics
  <2>. QED
    BY <1>1, <2>1 DEF Asking, InProgress
<1>3. ASSUME NEW n \in Queries
      PROVE  /\ n \notin ServedMade => Outcome[n] = "unasked"
             /\ n \in ServedMade /\ result[n] = Pending => Outcome[n] = "open"
             /\ n \in ServedMade /\ result[n] # Pending => Outcome[n] \in {"answered", "raised"}
  <2>1. result[n] \in Made \cup {Pending, TimedOut, Failed} /\ n # Pending
    BY DEF IInv, TypeOK, Made, Queries, Pending
  <2>2. n \in ServedMade /\ result[n] \in Made => result[n] = n
    BY DEF ServiceInv, ResultsRight, Made
  <2>. QED
    BY <1>1, <2>1, <2>2, Basics DEF Outcome, OutcomeOf, Pending, TimedOut, Failed
<1>. QED
  BY <1>2, <1>3 DEF Maps

\* What a step must do to the abstract state.
RStep ==
    \/ \E c \in Callers, n \in Queries :
          /\ Asking[c] = 0 /\ Outcome[n] = "unasked"
          /\ Asking' = [Asking EXCEPT ![c] = n]
          /\ Outcome' = [Outcome EXCEPT ![n] = "open"]
    \/ \E c \in Callers :
          /\ Asking[c] # 0 /\ Outcome[Asking[c]] = "open"
          /\ \E how \in {"answered", "raised"} : Outcome' = [Outcome EXCEPT ![Asking[c]] = how]
          /\ UNCHANGED Asking
    \/ \E c \in Callers :
          /\ Asking[c] # 0 /\ Outcome[Asking[c]] # "open"
          /\ Asking' = [Asking EXCEPT ![c] = 0]
          /\ UNCHANGED Outcome
    \/ UNCHANGED <<Asking, Outcome>>

\* RStep is RequestReply's next-state relation under the mapping.
LEMMA RStepIs == RStep => [RR!RNext]_(RR!rvars)
  BY DEF RStep, RR!RNext, RR!Ask, RR!End, RR!Leave, RR!rvars, Asking, Outcome

\* A query at a served address asks; at any other, nothing happens.
LEMMA RegisterMaps ==
  ASSUME IInv, IInv', Maps, Maps', ServiceInv, ServiceInv',
         NEW c \in Callers, NEW a \in Addresses, Register(c, a)
  PROVE  RStep
<1>. DEFINE n == Len(asked) + 1
<1>1. /\ n \in Queries /\ n \notin Made /\ Made' = Made \cup {n}
      /\ asked'[n] = a /\ \A m \in Made : asked'[m] = asked[m]
  <2>1. asked \in Seq(Addresses) /\ Len(asked) < MaxQueries /\ asked' = Append(asked, a)
    BY Basics DEF Register
  <2>. QED
    BY <2>1, MaxQueriesType DEF Made, Queries
<1>2. ServedMade' = ServedMade \cup (IF a \in Served THEN {n} ELSE {})
  BY <1>1 DEF ServedMade
<1>3. /\ pc[c] = "idle" /\ pc' = [pc EXCEPT ![c] = "registered"] /\ result' = result
      /\ current' = [current EXCEPT ![c] = n]
      /\ pc \in [Callers -> {"idle", "registered", "waiting", "leaving"}]
      /\ current \in [Callers -> 0..Len(asked)]
  BY DEF Register, net, IInv, TypeOK
<1>4. result[n] = Pending
  BY <1>1 DEF ServiceInv, Settled
<1>. HIDE DEF n
<1>5. \A d \in Callers \ {c} : Asking'[d] = Asking[d]
  <2> SUFFICES ASSUME NEW d \in Callers, d # c PROVE Asking'[d] = Asking[d]
    OBVIOUS
  <2>1. (InProgress(d)' <=> InProgress(d)) /\ current'[d] = current[d]
    BY <1>3 DEF InProgress
  <2>2. InProgress(d) => (current[d] \in ServedMade <=> current[d] \in ServedMade')
    BY <1>1, <1>2, Basics
  <2>. QED
    BY <2>1, <2>2 DEF Maps
<1>6. Asking[c] = 0 /\ Asking'[c] = (IF a \in Served THEN n ELSE 0)
  BY <1>1, <1>2, <1>3 DEF Maps, InProgress, ServedMade
<1>7. \A m \in Queries \ {n} : Outcome'[m] = Outcome[m]
  <2> SUFFICES ASSUME NEW m \in Queries, m # n PROVE OutcomeOf(m)' = OutcomeOf(m)
    BY DEF Outcome
  <2>1. InService(m)' <=> InService(m)
    <3>1. \A k \in Queries : InService(k) <=> k \in ServedMade
      BY MaxQueriesType DEF InService, ServedMade, Made, IInv, TypeOK, Queries
    <3>2. \A k \in Queries : InService(k)' <=> k \in ServedMade'
      BY MaxQueriesType DEF InService, ServedMade, Made, IInv, TypeOK, Queries
    <3>. QED
      BY <1>2, <3>1, <3>2
  <2>. QED
    BY <1>3, <2>1 DEF OutcomeOf, Pending, TimedOut, Failed
<1>8. Outcome[n] = "unasked" /\ Outcome'[n] = (IF a \in Served THEN "open" ELSE "unasked")
  BY <1>1, <1>2, <1>3, <1>4 DEF Maps, ServedMade, Queries, Pending
<1>9. /\ DOMAIN Asking = Callers /\ DOMAIN Asking' = Callers
      /\ DOMAIN Outcome = Queries /\ DOMAIN Outcome' = Queries
      /\ Asking = [d \in Callers |-> Asking[d]] /\ Asking' = [d \in Callers |-> Asking'[d]]
      /\ Outcome = [m \in Queries |-> Outcome[m]] /\ Outcome' = [m \in Queries |-> Outcome'[m]]
  BY DEF Asking, Outcome, Queries
<1>10. CASE a \in Served
  <2>1. Asking' = [Asking EXCEPT ![c] = n]
    BY <1>5, <1>6, <1>9, <1>10
  <2>2. Outcome' = [Outcome EXCEPT ![n] = "open"]
    BY <1>1, <1>7, <1>8, <1>9, <1>10
  <2>. QED
    BY <1>1, <1>6, <1>8, <2>1, <2>2 DEF RStep
<1>11. CASE a \notin Served
  <2>1. Asking' = Asking
    BY <1>5, <1>6, <1>9, <1>11
  <2>2. Outcome' = Outcome
    BY <1>7, <1>8, <1>9, <1>11
  <2>. QED
    BY <2>1, <2>2 DEF RStep
<1>. QED
  BY <1>10, <1>11

\* Every other step leaves what is asked alone: outside the result and the
\* state of the thread that moves, the abstract state is the same.
LEMMA MapsFrame ==
  ASSUME asked' = asked, current' = current, NEW c \in Callers,
         \A d \in Callers \ {c} : pc'[d] = pc[d],
         \A n \in Queries : n # current[c] => result'[n] = result[n]
  PROVE  /\ \A d \in Callers \ {c} : Asking'[d] = Asking[d]
         /\ \A n \in Queries : n # current[c] => Outcome'[n] = Outcome[n]
         /\ (pc'[c] # "idle" <=> pc[c] # "idle") => Asking' = Asking
         /\ result' = result => Outcome' = Outcome
         /\ Asking = [d \in Callers |-> Asking[d]] /\ Asking' = [d \in Callers |-> Asking'[d]]
         /\ Outcome = [m \in Queries |-> Outcome[m]] /\ Outcome' = [m \in Queries |-> Outcome'[m]]
<1>1. \A n : InService(n)' <=> InService(n)
  BY DEF InService
<1>2. \A d \in Callers \ {c} : Asking'[d] = Asking[d]
  BY <1>1 DEF Asking
<1>3. (pc'[c] # "idle" <=> pc[c] # "idle") => Asking'[c] = Asking[c]
  BY <1>1 DEF Asking
<1>4. \A n \in Queries : result'[n] = result[n] => Outcome'[n] = Outcome[n]
  BY <1>1 DEF Outcome, OutcomeOf, Pending, TimedOut, Failed
<1>5. /\ Asking = [d \in Callers |-> Asking[d]] /\ Asking' = [d \in Callers |-> Asking'[d]]
      /\ Outcome = [m \in Queries |-> Outcome[m]] /\ Outcome' = [m \in Queries |-> Outcome'[m]]
  BY DEF Asking, Outcome, Queries
<1>6. (\A d \in Callers : Asking'[d] = Asking[d]) => Asking' = Asking
  BY <1>5
<1>7. (\A n \in Queries : Outcome'[n] = Outcome[n]) => Outcome' = Outcome
  BY <1>5
<1>. QED
  BY <1>2, <1>3, <1>4, <1>5, <1>6, <1>7

\* A query that gets its result ends once, answered or raised.
LEMMA EndMaps ==
  ASSUME IInv, IInv', Maps, Maps', ServiceInv, ServiceInv',
         NEW c \in Callers, Get(c) \/ Timeout(c) \/ SendFails(c)
  PROVE  RStep
<1>. DEFINE n == current[c]
<1>1. /\ pc[c] \in {"registered", "waiting"} /\ pc' = [pc EXCEPT ![c] = "leaving"]
      /\ result' = [result EXCEPT ![n] = result'[n]]
      /\ current' = current /\ asked' = asked
      /\ pc \in [Callers -> {"idle", "registered", "waiting", "leaving"}]
  BY DEF Get, Timeout, SendFails, IInv, TypeOK
<1>2. n \in Made /\ n \in Queries /\ result[n] = Pending /\ n # 0 /\ InProgress(c)
  BY <1>1, Alone DEF ServiceInv, Settled, InProgress, Queries
<1>3. result'[n] # Pending
  BY <1>1 DEF ServiceInv, Settled
<1>4. /\ \A d \in Callers \ {c} : pc'[d] = pc[d]
      /\ \A m \in Queries : m # n => result'[m] = result[m]
      /\ pc'[c] # "idle" <=> pc[c] # "idle"
  BY <1>1 DEF IInv, TypeOK
<1>5. /\ Asking' = Asking
      /\ \A m \in Queries : m # n => Outcome'[m] = Outcome[m]
      /\ Outcome = [m \in Queries |-> Outcome[m]] /\ Outcome' = [m \in Queries |-> Outcome'[m]]
  BY <1>1, <1>4, MapsFrame
<1>6. ServedMade' = ServedMade
  BY <1>1, Unasked
<1>. HIDE DEF n
<1>7. CASE n \in ServedMade
  <2>1. Asking[c] = n /\ Outcome[n] = "open"
    BY <1>2, <1>7 DEF Maps, n
  <2>2. Outcome'[n] \in {"answered", "raised"}
    BY <1>2, <1>3, <1>6, <1>7 DEF Maps, Pending
  <2>3. Outcome' = [Outcome EXCEPT ![n] = Outcome'[n]]
    BY <1>2, <1>5
  <2>. QED
    BY <1>2, <1>5, <2>1, <2>2, <2>3 DEF RStep
<1>8. CASE n \notin ServedMade
  <2>1. Outcome[n] = "unasked" /\ Outcome'[n] = "unasked"
    BY <1>2, <1>6, <1>8 DEF Maps
  <2>2. Outcome' = Outcome
    BY <1>5, <2>1
  <2>. QED
    BY <1>5, <2>2 DEF RStep
<1>. QED
  BY <1>7, <1>8

\* A thread that leaves a served query leaves it ended.
LEMMA PopMaps ==
  ASSUME IInv, IInv', Maps, Maps', ServiceInv, NEW c \in Callers, Pop(c)
  PROVE  RStep
<1>1. /\ pc[c] = "leaving" /\ pc' = [pc EXCEPT ![c] = "idle"]
      /\ current' = current /\ asked' = asked /\ result' = result
      /\ pc \in [Callers -> {"idle", "registered", "waiting", "leaving"}]
  BY DEF Pop, IInv, TypeOK
<1>2. /\ current[c] \in Made /\ current[c] \in Queries /\ current[c] # 0
      /\ result[current[c]] # Pending /\ InProgress(c)
  BY <1>1, Alone DEF ServiceInv, Settled, InProgress, Queries
<1>3. pc'[c] = "idle" /\ \A d \in Callers \ {c} : pc'[d] = pc[d]
  BY <1>1
<1>4. /\ \A d \in Callers \ {c} : Asking'[d] = Asking[d]
      /\ Outcome' = Outcome
      /\ Asking = [d \in Callers |-> Asking[d]] /\ Asking' = [d \in Callers |-> Asking'[d]]
  BY <1>1, <1>3, MapsFrame
<1>5. Asking'[c] = 0
  BY <1>3 DEF Maps, InProgress
<1>6. Asking' = [Asking EXCEPT ![c] = 0]
  BY <1>4, <1>5
<1>7. CASE current[c] \in ServedMade
  <2>1. Asking[c] # 0 /\ Outcome[Asking[c]] # "open"
    BY <1>2, <1>7 DEF Maps
  <2>. QED
    BY <1>4, <1>6, <2>1 DEF RStep
<1>8. CASE current[c] \notin ServedMade
  <2>1. Asking' = Asking
    BY <1>4, <1>5, <1>8 DEF Maps
  <2>. QED
    BY <1>4, <2>1 DEF RStep
<1>. QED
  BY <1>7, <1>8

\* At the addresses that are prompt and a thread's own, the client is a
\* request/reply service: its every step is one of RequestReply or none.
THEOREM RefinesRequestReply == Spec => ImplementsRequestReply
<1>1. Init => RR!RInit
  BY DEF Init, RR!RInit, InService, OutcomeOf, Queries, Served
<1>2. /\ IInv /\ IInv' /\ ServiceInv /\ ServiceInv' /\ Maps /\ Maps' /\ [Next]_vars
      => [RR!RNext]_(RR!rvars)
  <2> SUFFICES ASSUME IInv, IInv', ServiceInv, ServiceInv', Maps, Maps', [Next]_vars
               PROVE  RStep
    BY RStepIs
  <2>1. ASSUME NEW c \in Callers, NEW a \in Addresses, Register(c, a) PROVE RStep
    BY <2>1, RegisterMaps
  <2>2. ASSUME NEW c \in Callers, Send(c) PROVE RStep
    <3>1. /\ current' = current /\ asked' = asked /\ result' = result
          /\ pc' = [pc EXCEPT ![c] = "waiting"] /\ pc[c] = "registered"
          /\ pc \in [Callers -> {"idle", "registered", "waiting", "leaving"}]
      BY <2>2 DEF Send, IInv, TypeOK
    <3>2. pc'[c] = "waiting" /\ \A d \in Callers \ {c} : pc'[d] = pc[d]
      BY <3>1
    <3>. QED
      BY <3>1, <3>2, MapsFrame DEF RStep
  <2>3. ASSUME NEW c \in Callers, Get(c) \/ Timeout(c) \/ SendFails(c) PROVE RStep
    BY <2>3, EndMaps
  <2>4. ASSUME NEW c \in Callers, Pop(c) PROVE RStep
    BY <2>4, PopMaps
  <2>5. ASSUME UNCHANGED <<pc, current, asked, result>> PROVE RStep
    BY <2>5 DEF RStep, Asking, Outcome, InService, OutcomeOf, Pending, TimedOut, Failed
  <2>6. ASSUME NEW n \in Queries, Answer(n) \/ Lose(n) \/ Lookup(n) PROVE RStep
    BY <2>5, <2>6 DEF Answer, Lose, Lookup, client
  <2>7. ASSUME NEW h \in handlers, Put(h) PROVE RStep
    BY <2>5, <2>7 DEF Put, client
  <2>8. CASE UNCHANGED vars
    BY <2>5, <2>8 DEF vars, client
  <2>. QED
    BY <2>1, <2>2, <2>3, <2>4, <2>6, <2>7, <2>8 DEF Next, Query
<1>. QED
  BY <1>1, <1>2, ServiceInductive, MapsAlways, PTL DEF Spec, ImplementsRequestReply, RR!RSpec
=============================================================================
