--------------------------- MODULE StageFeedProofs ---------------------------
(***************************************************************************)
(* What StageFeed guarantees for any pages, connections and queue size.    *)
(*                                                                         *)
(* NoGaps is inductive once it is known that clients only holds            *)
(* connections that are served, and that a connection starts with an empty *)
(* queue.                                                                  *)
(***************************************************************************)
EXTENDS StageFeed, SequenceTheorems, TLAPS

Registered ==
  \A c \in Connections :
    /\ c \in clients => stream[c] = "serving"
    /\ stream[c] = "unused" => queue[c] = <<>>

FeedInv == TypeOK /\ Registered /\ NoGaps

\* NoGaps at one connection.
InOrder(c) ==
  /\ Follow(heard[c], queue[c])
  /\ c \in clients => heard[c] + Len(queue[c]) = announced

Event == 1 .. MaxEvents

-----------------------------------------------------------------------------
(* Sequences of consecutive numbers *)

LEMMA FollowEmpty ==
  ASSUME NEW S, NEW n \in Nat
  PROVE  <<>> \in Seq(S) /\ Len(<<>>) = 0 /\ Follow(n, <<>>)
<1>1. Len(<<>>) = 0 /\ <<>> \in Seq(S) OBVIOUS
<1> QED BY <1>1 DEF Follow

LEMMA FollowAppend ==
  ASSUME NEW S, NEW q \in Seq(S), NEW e \in S, NEW n \in Nat,
         Follow(n, q), e = n + Len(q) + 1
  PROVE  /\ Append(q, e) \in Seq(S)
         /\ Len(Append(q, e)) = Len(q) + 1
         /\ Follow(n, Append(q, e))
<1>1. /\ Append(q, e) \in Seq(S)
      /\ Len(Append(q, e)) = Len(q) + 1
      /\ \A i \in 1 .. Len(q) : Append(q, e)[i] = q[i]
      /\ Append(q, e)[Len(q) + 1] = e
  BY AppendProperties
<1>2. Len(q) \in Nat BY LenProperties
<1> QED BY <1>1, <1>2 DEF Follow

LEMMA FollowTail ==
  ASSUME NEW S, NEW q \in Seq(S), q # <<>>, NEW n \in Nat, Follow(n, q)
  PROVE  /\ Head(q) = n + 1 /\ Head(q) \in S
         /\ Tail(q) \in Seq(S)
         /\ Len(q) \in Nat /\ Len(Tail(q)) = Len(q) - 1
         /\ Follow(Head(q), Tail(q))
<1>1. /\ Tail(q) \in Seq(S)
      /\ Len(q) \in Nat /\ Len(q) > 0
      /\ Len(Tail(q)) = Len(q) - 1
      /\ \A i \in 1 .. Len(Tail(q)) : i + 1 \in 1 .. Len(q) /\ Tail(q)[i] = q[i + 1]
      /\ Head(q) = q[1] /\ Head(q) \in S
  OBVIOUS
<1>2. Head(q) = n + 1 BY <1>1 DEF Follow
<1> QED BY <1>1, <1>2 DEF Follow

-----------------------------------------------------------------------------
LEMMA RequestTyped == ASSUME NEW n \in 0 .. MaxEvents PROVE Request(n) \in Read
BY DEF Request, Read

LEMMA AtConnection ==
  ASSUME FeedInv, NEW c \in Connections
  PROVE  /\ queue[c] \in Seq(Event) /\ Len(queue[c]) \in Nat
         /\ heard[c] \in Nat /\ announced \in Nat
         /\ InOrder(c)
<1>1. queue[c] \in Seq(Event) BY DEF FeedInv, TypeOK, Event
<1>2. Len(queue[c]) \in Nat BY <1>1, LenProperties
<1>3. heard[c] \in Nat /\ announced \in Nat
  <2>1. heard[c] \in 0 .. MaxEvents /\ announced \in 0 .. MaxEvents
    BY DEF FeedInv, TypeOK
  <2> QED BY <2>1, MaxEventsAssumption
<1> QED BY <1>1, <1>2, <1>3 DEF FeedInv, NoGaps, InOrder

LEMMA InitFeedInv == Init => FeedInv
<1> SUFFICES ASSUME Init PROVE FeedInv OBVIOUS
<1>1. Request(0) \in Read BY RequestTyped, MaxEventsAssumption
<1>2. <<>> \in Seq(1 .. MaxEvents) /\ Len(<<>>) = 0 /\ Follow(0, <<>>) BY FollowEmpty
<1>3. queue \in [Connections -> Seq(1 .. MaxEvents)] BY <1>2 DEF Init
<1>4. reads \in [Pages -> SUBSET Read] BY <1>1 DEF Init
<1>5. TypeOK BY <1>3, <1>4, MaxEventsAssumption DEF Init, TypeOK
<1>6. Registered BY DEF Init, Registered
<1>7. NoGaps BY <1>2 DEF Init, NoGaps
<1> QED BY <1>5, <1>6, <1>7 DEF FeedInv

LEMMA BroadcastInv ==
  ASSUME FeedInv, NEW r \in Changes, Announce(r)
  PROVE  FeedInv'
<1> USE DEF Event
<1>1. announced' \in 1 .. MaxEvents /\ announced' = announced + 1
  <2>1. announced \in 0 .. MaxEvents /\ announced < MaxEvents /\ announced' = announced + 1
    BY DEF Announce, Broadcast, FeedInv, TypeOK
  <2> QED BY <2>1, MaxEventsAssumption
<1>2. ASSUME NEW c \in Connections
      PROVE  queue'[c] \in Seq(1 .. MaxEvents) /\ InOrder(c)'
  <2>0. heard'[c] = heard[c] BY DEF Announce, Broadcast
  <2>1. CASE c \in clients /\ ~Full(c)
    <3>1. queue'[c] = Append(queue[c], announced + 1) BY <2>1 DEF Announce, Broadcast
    <3>2. announced + 1 = heard[c] + Len(queue[c]) + 1
      BY <2>1, AtConnection DEF InOrder
    <3>3. Follow(heard[c], queue[c]) BY AtConnection DEF InOrder
    <3>4. /\ Append(queue[c], announced + 1) \in Seq(Event)
          /\ Len(Append(queue[c], announced + 1)) = Len(queue[c]) + 1
          /\ Follow(heard[c], Append(queue[c], announced + 1))
      BY <1>1, <3>2, <3>3, FollowAppend, AtConnection
    <3> QED BY <1>1, <2>0, <3>1, <3>2, <3>4, AtConnection DEF InOrder
  <2>2. CASE ~(c \in clients /\ ~Full(c))
    <3>1. queue'[c] = queue[c] BY <2>2 DEF Announce, Broadcast
    <3>2. c \notin clients' BY <2>2 DEF Announce, Broadcast
    <3> QED BY <2>0, <3>1, <3>2, AtConnection DEF InOrder
  <2> QED BY <2>1, <2>2
<1>3. TypeOK'
  <2>1. queue' \in [Connections -> Seq(1 .. MaxEvents)]
    BY <1>2 DEF Announce, Broadcast
  <2>2. clients' \subseteq Connections BY DEF Announce, Broadcast, FeedInv, TypeOK
  <2>3. change' \in [Changes -> {"new", "open", "committed", "rolled back"}]
    BY DEF Announce, FeedInv, TypeOK
  <2>4. announced' \in 0 .. MaxEvents BY <1>1, MaxEventsAssumption
  <2> QED BY <2>1, <2>2, <2>3, <2>4 DEF Announce, Broadcast, FeedInv, TypeOK, browser
<1>4. Registered' BY DEF Announce, Broadcast, FeedInv, Registered, TypeOK
<1> QED BY <1>2, <1>3, <1>4 DEF FeedInv, NoGaps, InOrder

LEMMA ConnectInv ==
  ASSUME FeedInv, NEW p \in Pages, NEW c \in Connections, Connect(p, c)
  PROVE  FeedInv'
<1>1. TypeOK' BY DEF Connect, FeedInv, TypeOK
<1>2. Registered' BY DEF Connect, FeedInv, Registered, TypeOK
<1>3. ASSUME NEW d \in Connections PROVE InOrder(d)'
  <2>1. CASE d = c
    <3>1. queue'[d] = <<>> /\ heard'[d] = announced /\ announced' = announced
      BY <2>1 DEF Connect, FeedInv, Registered, TypeOK
    <3> QED BY <3>1, FollowEmpty, AtConnection DEF InOrder
  <2>2. CASE d # c
    <3>1. /\ heard'[d] = heard[d] /\ queue'[d] = queue[d] /\ announced' = announced
          /\ d \in clients' <=> d \in clients
      BY <2>2 DEF Connect, FeedInv, TypeOK
    <3> QED BY <3>1, AtConnection DEF InOrder
  <2> QED BY <2>1, <2>2
<1> QED BY <1>1, <1>2, <1>3 DEF FeedInv, NoGaps, InOrder

LEMMA SendInv == ASSUME FeedInv, NEW c \in Connections, Send(c) PROVE FeedInv'
<1> USE DEF Event
<1>1. /\ queue[c] # <<>>
      /\ queue' = [queue EXCEPT ![c] = Tail(queue[c])]
      /\ heard' = [heard EXCEPT ![c] = Head(queue[c])]
      /\ UNCHANGED <<announced, clients, stream>>
  BY DEF Send
<1>2. /\ Head(queue[c]) = heard[c] + 1 /\ Head(queue[c]) \in Event
      /\ Tail(queue[c]) \in Seq(Event)
      /\ Len(queue[c]) \in Nat /\ Len(Tail(queue[c])) = Len(queue[c]) - 1
      /\ Follow(Head(queue[c]), Tail(queue[c]))
  BY <1>1, FollowTail, AtConnection DEF InOrder
<1>3. TypeOK'
  <2>1. Request(Head(queue[c])) \in Read BY <1>2, RequestTyped, MaxEventsAssumption
  <2>2. reads' \in [Pages -> SUBSET Read] BY <2>1 DEF Send, FeedInv, TypeOK
  <2>3. queue' \in [Connections -> Seq(1 .. MaxEvents)] BY <1>1, <1>2 DEF FeedInv, TypeOK
  <2>4. heard' \in [Connections -> 0 .. MaxEvents]
    <3>1. Head(queue[c]) \in 0 .. MaxEvents BY <1>2, MaxEventsAssumption
    <3> QED BY <1>1, <3>1 DEF FeedInv, TypeOK
  <2> QED BY <2>2, <2>3, <2>4 DEF Send, FeedInv, TypeOK
<1>4. Registered' BY <1>1 DEF Send, FeedInv, Registered, TypeOK
<1>5. ASSUME NEW d \in Connections PROVE InOrder(d)'
  <2>1. CASE d = c
    <3>1. queue'[d] = Tail(queue[c]) /\ heard'[d] = Head(queue[c])
      BY <1>1, <2>1 DEF FeedInv, TypeOK
    <3>2. /\ heard[c] \in Nat /\ announced \in Nat
          /\ c \in clients => heard[c] + Len(queue[c]) = announced
      BY AtConnection DEF InOrder
    <3>3. heard[c] + 1 + (Len(queue[c]) - 1) = heard[c] + Len(queue[c]) BY <1>2, <3>2
    <3>4. d \in clients' => heard'[d] + Len(queue'[d]) = announced'
      BY <1>1, <1>2, <2>1, <3>1, <3>2, <3>3
    <3> QED BY <1>2, <3>1, <3>4 DEF InOrder
  <2>2. CASE d # c
    <3>1. queue'[d] = queue[d] /\ heard'[d] = heard[d]
      BY <1>1, <2>2 DEF FeedInv, TypeOK
    <3> QED BY <1>1, <3>1, AtConnection DEF InOrder
  <2> QED BY <2>1, <2>2
<1> QED BY <1>3, <1>4, <1>5 DEF FeedInv, NoGaps, InOrder

LEMMA EndStreamInv == ASSUME FeedInv, NEW c \in Connections, EndStream(c) PROVE FeedInv'
<1>1. <<>> \in Seq(1 .. MaxEvents) BY FollowEmpty
<1>2. TypeOK'
  <2>1. queue' \in [Connections -> Seq(1 .. MaxEvents)]
    BY <1>1 DEF EndStream, FeedInv, TypeOK
  <2> QED BY <2>1 DEF EndStream, FeedInv, TypeOK, browser
<1>3. Registered' BY DEF EndStream, FeedInv, Registered, TypeOK
<1>4. ASSUME NEW d \in Connections PROVE InOrder(d)'
  <2>1. heard'[d] = heard[d] /\ announced' = announced BY DEF EndStream
  <2>2. CASE d = c
    <3>1. queue'[d] = <<>> /\ d \notin clients' BY <2>2 DEF EndStream, FeedInv, TypeOK
    <3> QED BY <2>1, <3>1, FollowEmpty, AtConnection DEF InOrder
  <2>3. CASE d # c
    <3>1. queue'[d] = queue[d] /\ (d \in clients' <=> d \in clients)
      BY <2>3 DEF EndStream, FeedInv, TypeOK
    <3> QED BY <2>1, <3>1, AtConnection DEF InOrder
  <2> QED BY <2>2, <2>3
<1> QED BY <1>2, <1>3, <1>4 DEF FeedInv, NoGaps, InOrder

LEMMA RestartInv == ASSUME FeedInv, Restart PROVE FeedInv'
<1>1. <<>> \in Seq(1 .. MaxEvents) BY FollowEmpty
<1>2. TypeOK'
  <2>1. queue' \in [Connections -> Seq(1 .. MaxEvents)] BY <1>1 DEF Restart
  <2>2. /\ change' \in [Changes -> {"new", "open", "committed", "rolled back"}]
        /\ stream' \in [Connections -> {"unused", "serving", "ended"}]
    BY DEF Restart, FeedInv, TypeOK
  <2>3. link' \in [Pages -> Connections \cup {Connecting, Closed}]
    BY DEF Restart, FeedInv, TypeOK
  <2>4. reads' \in [Pages -> SUBSET Read]
    <3>1. ASSUME NEW p \in Pages PROVE {x \in reads[p] : x.answered} \in SUBSET Read
      BY DEF FeedInv, TypeOK
    <3> QED BY <3>1 DEF Restart
  <2>5. failed' \subseteq Pages /\ clients' \subseteq Connections
    BY DEF Restart, FeedInv, TypeOK
  <2> QED BY <2>1, <2>2, <2>3, <2>4, <2>5 DEF Restart, FeedInv, TypeOK
<1>3. Registered' BY DEF Restart, Registered
<1>4. ASSUME NEW c \in Connections PROVE InOrder(c)'
  <2>1. queue'[c] = <<>> /\ heard'[c] = heard[c] /\ clients' = {} BY DEF Restart
  <2> QED BY <2>1, FollowEmpty, AtConnection DEF InOrder
<1> QED BY <1>2, <1>3, <1>4 DEF FeedInv, NoGaps, InOrder

\* What happens in a browser does not touch the server's queues.
LEMMA BrowserInv ==
  ASSUME FeedInv, UNCHANGED server,
         link' \in [Pages -> Connections \cup {Connecting, Closed}],
         reads' \in [Pages -> SUBSET Read],
         view' \in [Pages -> SUBSET Changes],
         failed' \subseteq Pages
  PROVE  FeedInv'
BY DEF FeedInv, TypeOK, Registered, NoGaps, server

LEMMA HandleInv ==
  ASSUME FeedInv, NEW p \in Pages, NEW x \in reads[p],
         Answer(p, x) \/ Apply(p, x) \/ LoseRead(p, x)
  PROVE  FeedInv'
<1>1. x \in Read BY DEF FeedInv, TypeOK
<1>2. CASE Answer(p, x)
  <2>1. [cause |-> x.cause, answered |-> TRUE, seen |-> Committed] \in Read
    BY <1>1 DEF Read, Committed
  <2>2. reads' \in [Pages -> SUBSET Read] BY <1>2, <2>1 DEF Answer, FeedInv, TypeOK
  <2> QED BY <1>2, <2>2, BrowserInv DEF Answer, FeedInv, TypeOK
<1>3. CASE Apply(p, x)
  <2>1. x.seen \in SUBSET Changes BY <1>1 DEF Read
  <2>2. view' \in [Pages -> SUBSET Changes] BY <1>3, <2>1 DEF Apply, FeedInv, TypeOK
  <2>3. reads' \in [Pages -> SUBSET Read] BY <1>3 DEF Apply, FeedInv, TypeOK
  <2> QED BY <1>3, <2>2, <2>3, BrowserInv DEF Apply, FeedInv, TypeOK
<1>4. CASE LoseRead(p, x)
  <2>1. reads' \in [Pages -> SUBSET Read] BY <1>4 DEF LoseRead, FeedInv, TypeOK
  <2> QED BY <1>4, <2>1, BrowserInv DEF LoseRead, FeedInv, TypeOK
<1> QED BY <1>2, <1>3, <1>4

LEMMA LinkInv ==
  ASSUME FeedInv, NEW p \in Pages, Break(p) \/ Leave(p)
  PROVE  FeedInv'
<1>1. CASE Break(p) BY <1>1, BrowserInv DEF Break, FeedInv, TypeOK
<1>2. CASE Leave(p)
  <2>1. reads' \in [Pages -> SUBSET Read] BY <1>2 DEF Leave, FeedInv, TypeOK
  <2>2. link' \in [Pages -> Connections \cup {Connecting, Closed}]
    BY <1>2 DEF Leave, FeedInv, TypeOK
  <2> QED BY <1>2, <2>1, <2>2, BrowserInv DEF Leave, FeedInv, TypeOK
<1> QED BY <1>1, <1>2

LEMMA NextFeedInv == FeedInv /\ [Next]_vars => FeedInv'
<1> SUFFICES ASSUME FeedInv, [Next]_vars PROVE FeedInv' OBVIOUS
<1>1. ASSUME NEW r \in Changes, End(r) PROVE FeedInv'
  <2>1. change' \in [Changes -> {"new", "open", "committed", "rolled back"}]
    BY <1>1 DEF End, FeedInv, TypeOK
  <2> QED BY <1>1, <2>1 DEF End, FeedInv, TypeOK, Registered, NoGaps, browser
<1>2. CASE UNCHANGED vars
  BY <1>2 DEF vars, server, browser, FeedInv, TypeOK, Registered, NoGaps
<1>3. ASSUME NEW p \in Pages, Handle(p) PROVE FeedInv'
  BY <1>3, HandleInv DEF Handle
<1> QED BY <1>1, <1>2, <1>3, BroadcastInv, ConnectInv, SendInv, EndStreamInv, RestartInv,
           HandleInv, LinkInv DEF Next

-----------------------------------------------------------------------------
\* FeedInv is inductive.
THEOREM FeedInvariant == Spec => []FeedInv
BY InitFeedInv, NextFeedInv, PTL DEF Spec

\* Every variable keeps its type, for any pages, connections and queue size.
THEOREM FeedTyped == Spec => []TypeOK
BY FeedInvariant, PTL DEF FeedInv

\* No page hears an event after missing an earlier one of its connection.
THEOREM NothingMissed == Spec => []NoGaps
BY FeedInvariant, PTL DEF FeedInv
=============================================================================
