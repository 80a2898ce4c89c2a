---------------------------- MODULE OscQueryProofs ----------------------------
(***************************************************************************)
(* For any callers, addresses, number of queries and lateness of Live: no  *)
(* query is answered with the reply to a query that began after it.  The   *)
(* argument: the queue registered at an address always belongs to the      *)
(* newest query made there, so a reply looked up there answers that query  *)
(* or an older one, and so does everything handlers put into a queue.      *)
(***************************************************************************)
EXTENDS OscQuery, SequenceTheorems, TLAPS

Made == 1..Len(asked)

\* Query m was made at query n's address, not after it.
NotAfter(m, n) == m \in Made /\ n \in Made /\ m <= n /\ asked[m] = asked[n]

InQuery == \A c \in Callers : pc[c] # "idle" => current[c] \in Made

NewestIsRegistered ==
    \A a \in Addresses : registered[a] # 0 =>
        /\ asked[registered[a]] = a
        /\ \A n \in Made : asked[n] = a => n <= registered[a]

HandlersLookBack == \A h \in handlers : NotAfter(h.reply, h.queue)

QueuesLookBack == \A n \in Queries : \A i \in DOMAIN inbox[n] : NotAfter(inbox[n][i], n)

ResultsLookBack == \A n \in Queries : result[n] > 0 => NotAfter(result[n], n)

IInv == TypeOK /\ InQuery /\ NewestIsRegistered /\ HandlersLookBack
        /\ QueuesLookBack /\ ResultsLookBack

-----------------------------------------------------------------------------

\* NotAfter survives every step: asked only grows.
LEMMA NotAfterStable ==
  ASSUME asked \in Seq(Addresses), NEW a \in Addresses, asked' \in {asked, Append(asked, a)},
         NEW m, NEW n, NotAfter(m, n)
  PROVE  NotAfter(m, n)'
<1>1. m \in 1..Len(asked) /\ n \in 1..Len(asked)
  BY DEF NotAfter, Made
<1>2. CASE asked' = asked
  BY <1>2 DEF NotAfter, Made
<1>3. CASE asked' = Append(asked, a)
  <2>1. Len(asked') = Len(asked) + 1 /\ asked'[m] = asked[m] /\ asked'[n] = asked[n]
    BY <1>1, <1>3
  <2>. QED
    BY <1>1, <2>1 DEF NotAfter, Made
<1>. QED
  BY <1>2, <1>3

\* Every reachable state is well typed, and a query in progress has a number.
THEOREM TypeCorrect == Spec => [](TypeOK /\ InQuery)
<1>. USE MaxQueriesType, UsesType DEF Made, Queries, Pending, TimedOut, Failed
<1>1. Init => TypeOK /\ InQuery
  BY DEF Init, TypeOK, InQuery
<1>2. TypeOK /\ InQuery /\ [Next]_vars => TypeOK' /\ InQuery'
  <2> SUFFICES ASSUME TypeOK, InQuery, [Next]_vars PROVE TypeOK' /\ InQuery'
    OBVIOUS
  <2>. USE DEF net, client
  <2>1. ASSUME NEW c \in Callers, NEW a \in Addresses, Register(c, a) PROVE TypeOK' /\ InQuery'
    <3>1. asked' \in Seq(Addresses) /\ Len(asked') = Len(asked) + 1 /\ Len(asked') <= MaxQueries
      BY <2>1 DEF Register, TypeOK
    <3>2. \A n : n \in 1..Len(asked) => n \in 1..Len(asked')
      BY <3>1 DEF TypeOK
    <3>3. inbox' \in [Queries -> Seq(1..Len(asked'))]
      BY <2>1, <3>2 DEF Register, TypeOK
    <3>4. handlers' \subseteq [reply : 1..Len(asked'), queue : 1..Len(asked')]
      BY <2>1, <3>2 DEF Register, TypeOK
    <3>5. /\ pc' \in [Callers -> {"idle", "registered", "waiting", "leaving"}]
          /\ current' \in [Callers -> 0..Len(asked')]
          /\ registered' \in [Addresses -> 0..Len(asked')]
      BY <2>1, <3>1 DEF Register, TypeOK
    <3>6. result' \in [Queries -> (1..Len(asked')) \cup {Pending, TimedOut, Failed}]
      BY <2>1, <3>2 DEF Register, TypeOK
    <3>7. InQuery'
      BY <2>1, <3>1 DEF Register, TypeOK, InQuery
    <3>. QED
      BY <2>1, <3>1, <3>2, <3>3, <3>4, <3>5, <3>6, <3>7 DEF Register, TypeOK
  <2>2. ASSUME NEW c \in Callers, Send(c) PROVE TypeOK' /\ InQuery'
    BY <2>2 DEF Send, TypeOK, InQuery
  <2>3. ASSUME NEW c \in Callers, SendFails(c) PROVE TypeOK' /\ InQuery'
    BY <2>3 DEF SendFails, TypeOK, InQuery
  <2>4. ASSUME NEW c \in Callers, Get(c) PROVE TypeOK' /\ InQuery'
    <3>1. current[c] \in Queries /\ inbox[current[c]] \in Seq(1..Len(asked))
      BY <2>4 DEF Get, TypeOK, InQuery
    <3>2. /\ Head(inbox[current[c]]) \in 1..Len(asked)
          /\ Tail(inbox[current[c]]) \in Seq(1..Len(asked))
      BY <2>4, <3>1, HeadTailProperties DEF Get
    <3>. QED
      BY <2>4, <3>1, <3>2 DEF Get, TypeOK, InQuery
  <2>5. ASSUME NEW c \in Callers, Timeout(c) PROVE TypeOK' /\ InQuery'
    BY <2>5 DEF Timeout, TypeOK, InQuery
  <2>6. ASSUME NEW c \in Callers, Pop(c) PROVE TypeOK' /\ InQuery'
    <3>1. registered' \in [Addresses -> 0..Len(asked)]
      <4>1. 0 \in 0..Len(asked) /\ registered \in [Addresses -> 0..Len(asked)]
        BY DEF TypeOK
      <4>. DEFINE a == asked[current[c]]
      <4>2. registered' = [registered EXCEPT ![a] = 0]
        BY <2>6 DEF Pop
      <4>. HIDE DEF a
      <4>. QED
        BY <4>1, <4>2
    <3>2. /\ pc' \in [Callers -> {"idle", "registered", "waiting", "leaving"}]
          /\ \A d \in Callers : pc'[d] # "idle" => pc[d] # "idle"
      BY <2>6 DEF Pop, TypeOK
    <3>. QED
      BY <2>6, <3>1, <3>2 DEF Pop, TypeOK, InQuery
  <2>7. ASSUME NEW n \in Queries, Answer(n) \/ Lose(n) PROVE TypeOK' /\ InQuery'
    BY <2>7 DEF Answer, Lose, TypeOK, InQuery
  <2>8. ASSUME NEW n \in Queries, Lookup(n) PROVE TypeOK' /\ InQuery'
    <3>1. asked[n] \in Addresses /\ n \in 1..Len(asked) /\ registered[asked[n]] \in 0..Len(asked)
      BY <2>8 DEF Lookup, TypeOK
    <3>2. handlers' \subseteq [reply : 1..Len(asked), queue : 1..Len(asked)]
      BY <2>8, <3>1 DEF Lookup, TypeOK
    <3>. QED
      BY <2>8, <3>2 DEF Lookup, TypeOK, InQuery
  <2>9. ASSUME NEW h \in handlers, Put(h) PROVE TypeOK' /\ InQuery'
    <3>1. h.queue \in Queries /\ h.reply \in 1..Len(asked)
      BY <2>9 DEF TypeOK
    <3>2. inbox' \in [Queries -> Seq(1..Len(asked))]
      BY <2>9, <3>1 DEF Put, TypeOK
    <3>. QED
      BY <2>9, <3>2 DEF Put, TypeOK, InQuery
  <2>10. CASE UNCHANGED vars
    BY <2>10 DEF vars, TypeOK, InQuery
  <2>. QED
    BY <2>1, <2>2, <2>3, <2>4, <2>5, <2>6, <2>7, <2>8, <2>9, <2>10 DEF Next, Query
<1>. QED
  BY <1>1, <1>2, PTL DEF Spec

-----------------------------------------------------------------------------

\* Relations between queries already made carry over any step that leaves
\* asked alone or appends to it; used for the three "look back" invariants.
LookBack == HandlersLookBack /\ QueuesLookBack /\ ResultsLookBack

LEMMA RegisterPreserves ==
  ASSUME IInv, TypeOK', NEW c \in Callers, NEW a \in Addresses, Register(c, a)
  PROVE  NewestIsRegistered' /\ LookBack'
<1>1. /\ asked \in Seq(Addresses) /\ asked' = Append(asked, a)
      /\ Len(asked') = Len(asked) + 1
      /\ \A n \in Made : asked'[n] = asked[n]
      /\ asked'[Len(asked')] = a
  BY DEF IInv, TypeOK, Register, Made
<1>2. NewestIsRegistered'
  <2> SUFFICES ASSUME NEW b \in Addresses, registered'[b] # 0
               PROVE  /\ asked'[registered'[b]] = b
                      /\ \A n \in 1..Len(asked') : asked'[n] = b => n <= registered'[b]
    BY DEF NewestIsRegistered, Made
  <2>1. registered' = [registered EXCEPT ![a] = Len(asked) + 1] /\ registered \in [Addresses -> 0..Len(asked)]
    BY DEF Register, IInv, TypeOK
  <2>2. CASE b = a
    BY <1>1, <2>1, <2>2
  <2>3. CASE b # a
    <3>1. registered'[b] = registered[b] /\ registered[b] \in Made
      BY <2>1, <2>3 DEF Made
    <3>2. \A n \in 1..Len(asked') : asked'[n] = b => n \in Made
      BY <1>1, <2>3 DEF Made
    <3>. QED
      BY <1>1, <3>1, <3>2 DEF IInv, NewestIsRegistered
  <2>. QED
    BY <2>2, <2>3
<1>3. \A m, n : NotAfter(m, n) => NotAfter(m, n)'
  BY <1>1, NotAfterStable
<1>4. LookBack'
  BY <1>3 DEF Register, net, LookBack, IInv, HandlersLookBack, QueuesLookBack, ResultsLookBack
<1>. QED
  BY <1>2, <1>4

\* IInv holds of every reachable state.
THEOREM Inductive == Spec => []IInv
<1>. USE DEF net, client
<1>1. Init => NewestIsRegistered /\ LookBack
  BY DEF Init, NewestIsRegistered, LookBack, HandlersLookBack, QueuesLookBack, ResultsLookBack,
         Pending, Queries
<1>2. IInv /\ [Next]_vars /\ TypeOK' => NewestIsRegistered' /\ LookBack'
  <2> SUFFICES ASSUME IInv, [Next]_vars, TypeOK' PROVE NewestIsRegistered' /\ LookBack'
    OBVIOUS
  <2>. USE DEF IInv, LookBack
  <2>1. ASSUME NEW c \in Callers, NEW a \in Addresses, Register(c, a)
        PROVE  NewestIsRegistered' /\ LookBack'
    BY <2>1, RegisterPreserves
  <2>2. ASSUME asked' = asked PROVE \A m, n : NotAfter(m, n)' <=> NotAfter(m, n)
    BY <2>2 DEF NotAfter, Made
  <2>3. ASSUME NEW c \in Callers, Send(c) \/ SendFails(c) \/ Timeout(c)
        PROVE  NewestIsRegistered' /\ LookBack'
    <3>1. /\ asked' = asked /\ registered' = registered /\ inbox' = inbox /\ handlers' = handlers
          /\ \A n \in Queries : result'[n] > 0 => result'[n] = result[n]
      BY <2>3 DEF Send, SendFails, Timeout, TypeOK, TimedOut, Failed
    <3>. QED
      BY <2>2, <3>1 DEF NewestIsRegistered, Made, HandlersLookBack, QueuesLookBack, ResultsLookBack
  <2>4. ASSUME NEW c \in Callers, Get(c) PROVE NewestIsRegistered' /\ LookBack'
    <3>. DEFINE n == current[c]
    <3>1. /\ n \in Queries /\ inbox[n] \in Seq(Made) /\ inbox[n] # <<>>
          /\ asked' = asked /\ registered' = registered /\ handlers' = handlers
      BY <2>4, MaxQueriesType DEF Get, TypeOK, InQuery, Queries, Made
    <3>2. /\ inbox[n][1] = Head(inbox[n]) /\ 1 \in DOMAIN inbox[n]
          /\ \A i \in DOMAIN Tail(inbox[n]) :
                i + 1 \in DOMAIN inbox[n] /\ Tail(inbox[n])[i] = inbox[n][i + 1]
      BY <3>1, HeadTailProperties
    <3>3. NotAfter(Head(inbox[n]), n)
      BY <3>1, <3>2 DEF QueuesLookBack
    <3>4. \A i \in DOMAIN Tail(inbox[n]) : NotAfter(Tail(inbox[n])[i], n)
      BY <3>1, <3>2 DEF QueuesLookBack
    <3>5. QueuesLookBack'
      BY <2>2, <2>4, <3>1, <3>4 DEF Get, QueuesLookBack, TypeOK
    <3>6. ResultsLookBack'
      BY <2>2, <2>4, <3>1, <3>3 DEF Get, ResultsLookBack, TypeOK
    <3>. QED
      BY <2>2, <3>1, <3>5, <3>6 DEF NewestIsRegistered, Made, HandlersLookBack
  <2>5. ASSUME NEW c \in Callers, Pop(c) PROVE NewestIsRegistered' /\ LookBack'
    <3>1. /\ asked' = asked /\ inbox' = inbox /\ handlers' = handlers /\ result' = result
          /\ \A a \in Addresses : registered'[a] # 0 => registered'[a] = registered[a]
      BY <2>5 DEF Pop, TypeOK
    <3>. QED
      BY <2>2, <3>1 DEF NewestIsRegistered, Made, HandlersLookBack, QueuesLookBack, ResultsLookBack
  <2>6. ASSUME NEW n \in Queries, Lookup(n) PROVE NewestIsRegistered' /\ LookBack'
    <3>1. n \in Made /\ asked[n] \in Addresses
      BY <2>6 DEF Lookup, TypeOK, Made
    <3>2. registered[asked[n]] # 0 => NotAfter(n, registered[asked[n]])
      BY <3>1 DEF NewestIsRegistered, NotAfter, Made, TypeOK
    <3>3. \A h \in handlers' : h \in handlers
             \/ (h.reply = n /\ h.queue = registered[asked[n]] /\ h.queue # 0)
      BY <2>6 DEF Lookup
    <3>4. /\ asked' = asked /\ registered' = registered /\ inbox' = inbox /\ result' = result
      BY <2>6 DEF Lookup
    <3>. QED
      BY <2>2, <3>2, <3>3, <3>4
         DEF NewestIsRegistered, Made, HandlersLookBack, QueuesLookBack, ResultsLookBack
  <2>7. ASSUME NEW h \in handlers, Put(h) PROVE NewestIsRegistered' /\ LookBack'
    <3>1. /\ asked' = asked /\ registered' = registered /\ result' = result
          /\ handlers' \subseteq handlers
          /\ inbox' = [inbox EXCEPT ![h.queue] = Append(@, h.reply)]
      BY <2>7 DEF Put
    <3>2. NotAfter(h.reply, h.queue)
      BY DEF HandlersLookBack
    <3>3. QueuesLookBack'
      <4> SUFFICES ASSUME NEW n \in Queries, NEW i \in DOMAIN inbox'[n]
                   PROVE  NotAfter(inbox'[n][i], n)
        BY <2>2, <3>1 DEF QueuesLookBack
      <4>1. inbox[n] \in Seq(Made) /\ h.reply \in Made
        BY <3>2 DEF TypeOK, Made, NotAfter
      <4>2. CASE n = h.queue
        <5>1. inbox'[n] = Append(inbox[n], h.reply)
          BY <3>1, <4>2 DEF TypeOK
        <5>2. (i \in DOMAIN inbox[n] /\ inbox'[n][i] = inbox[n][i]) \/ inbox'[n][i] = h.reply
          BY <4>1, <5>1
        <5>. QED
          BY <3>2, <4>2, <5>2 DEF QueuesLookBack
      <4>3. CASE n # h.queue
        BY <3>1, <4>3 DEF QueuesLookBack, TypeOK
      <4>. QED
        BY <4>2, <4>3
    <3>. QED
      BY <2>2, <3>1, <3>3 DEF NewestIsRegistered, Made, HandlersLookBack, ResultsLookBack
  <2>8. ASSUME NEW n \in Queries, Answer(n) \/ Lose(n) PROVE NewestIsRegistered' /\ LookBack'
    BY <2>2, <2>8 DEF Answer, Lose, NewestIsRegistered, Made, HandlersLookBack, QueuesLookBack,
                      ResultsLookBack
  <2>9. CASE UNCHANGED vars
    BY <2>2, <2>9 DEF vars, NewestIsRegistered, Made, HandlersLookBack, QueuesLookBack,
                      ResultsLookBack
  <2>. QED
    BY <2>1, <2>3, <2>4, <2>5, <2>6, <2>7, <2>8, <2>9 DEF Next, Query
<1>. QED
  BY <1>1, <1>2, TypeCorrect, PTL DEF Spec, IInv, LookBack

\* Late replies and overlapping queries can make an answer stale, never premature.
THEOREM NeverFromTheFuture == Spec => []NoAnswerFromTheFuture
<1>1. IInv => NoAnswerFromTheFuture
  BY DEF IInv, ResultsLookBack, NoAnswerFromTheFuture, NotAfter
<1>. QED
  BY <1>1, Inductive, PTL
=============================================================================
