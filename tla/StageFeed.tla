------------------------------ MODULE StageFeed ------------------------------
(***************************************************************************)
(* How a canvas page follows its project: the orchestrator broadcasts an   *)
(* event to the bounded queue of every connected client, a generator per   *)
(* connection sends them, and each event makes the page read the stages    *)
(* again.  Queues live in memory; an event is broadcast before its         *)
(* transaction commits and carries nothing the page uses.                  *)
(*                                                                         *)
(* Events are numbered, which the code does not do.  Those that cause no   *)
(* read are left out.                                                      *)
(***************************************************************************)
EXTENDS Naturals, Sequences, FiniteSets

CONSTANTS
  Changes,       \* transactions that change the stages of the project
  Pages,
  Connections,   \* 1 .. n in the order they are made; bounds the reconnections
  Capacity,      \* maxsize of a client's queue
  MaxEvents,     \* bounds the broadcasts
  Connecting, Closed

ASSUME CapacityAssumption  == Capacity \in Nat \ {0}
ASSUME MaxEventsAssumption == MaxEvents \in Nat
ASSUME ConnAssumption      == Connections \subseteq Nat
ASSUME LinkAssumption      == Connecting \notin Connections /\ Closed \notin Connections

VARIABLES
  change,      \* state of each transaction
  announced,   \* number of the last broadcast
  clients,     \* _clients of the project
  stream,      \* the generator of each connection
  queue,
  heard,       \* number of the event sent last on a connection
  link,        \* the EventSource of each page
  reads,       \* its calls of fetchStageProgress, by the event that caused them
  view,        \* the changes it shows
  failed       \* pages that have lost a read; not in the code

server  == <<change, announced, clients, stream, queue, heard>>
browser == <<link, reads, view, failed>>
vars    == <<server, browser>>

Read == [cause: 0 .. MaxEvents, answered: BOOLEAN, seen: SUBSET Changes]
Request(n) == [cause |-> n, answered |-> FALSE, seen |-> {}]

TypeOK ==
  /\ change \in [Changes -> {"new", "open", "committed", "rolled back"}]
  /\ announced \in 0 .. MaxEvents
  /\ clients \subseteq Connections
  /\ stream \in [Connections -> {"unused", "serving", "ended"}]
  /\ queue \in [Connections -> Seq(1 .. MaxEvents)]
  /\ heard \in [Connections -> 0 .. MaxEvents]
  /\ link \in [Pages -> Connections \cup {Connecting, Closed}]
  /\ reads \in [Pages -> SUBSET Read]
  /\ view \in [Pages -> SUBSET Changes]
  /\ failed \subseteq Pages

\* Every page has just been opened: it connects and reads the stages.
Init ==
  /\ change = [r \in Changes |-> "new"]
  /\ announced = 0
  /\ clients = {}
  /\ stream = [c \in Connections |-> "unused"]
  /\ queue = [c \in Connections |-> <<>>]
  /\ heard = [c \in Connections |-> 0]
  /\ link = [p \in Pages |-> Connecting]
  /\ reads = [p \in Pages |-> {Request(0)}]
  /\ view = [p \in Pages |-> {}]
  /\ failed = {}

Committed == {r \in Changes : change[r] = "committed"}

-----------------------------------------------------------------------------
(* The orchestrator *)

Full(c) == Len(queue[c]) = Capacity

\* Mutant of Broadcast: a full queue misses the message and stays.
BroadcastDropping ==
  /\ announced < MaxEvents
  /\ announced' = announced + 1
  /\ queue' = [c \in Connections |->
       IF c \in clients /\ ~Full(c) THEN Append(queue[c], announced + 1) ELSE queue[c]]
  /\ UNCHANGED <<clients, stream, heard, browser>>

\* A client whose queue is full is dropped; its generator goes on.
Broadcast ==
  /\ announced < MaxEvents
  /\ announced' = announced + 1
  /\ queue' = [c \in Connections |->
       IF c \in clients /\ ~Full(c) THEN Append(queue[c], announced + 1) ELSE queue[c]]
  /\ clients' = {c \in clients : ~Full(c)}
  /\ UNCHANGED <<stream, heard, browser>>

\* A transaction announces what it is going to commit, any number of times.
Announce(r) ==
  /\ change[r] \in {"new", "open"}
  /\ change' = [change EXCEPT ![r] = "open"]
  /\ Broadcast

\* get_db commits or rolls back.
End(r) ==
  /\ change[r] = "open"
  /\ \E outcome \in {"committed", "rolled back"} :
       change' = [change EXCEPT ![r] = outcome]
  /\ UNCHANGED <<announced, clients, stream, queue, heard, browser>>

-----------------------------------------------------------------------------
(* Connections *)

\* connect_sse
Connect(p, c) ==
  /\ link[p] = Connecting
  /\ stream[c] = "unused" /\ \A d \in Connections : d < c => stream[d] # "unused"
  /\ link' = [link EXCEPT ![p] = c]
  /\ stream' = [stream EXCEPT ![c] = "serving"]
  /\ clients' = clients \cup {c}
  /\ heard' = [heard EXCEPT ![c] = announced]
  /\ UNCHANGED <<change, announced, queue, reads, view, failed>>

\* Mutant of Send: the page has one read at a time.
SendCoalescing(c) ==
  /\ stream[c] = "serving"
  /\ queue[c] # <<>>
  /\ queue' = [queue EXCEPT ![c] = Tail(@)]
  /\ heard' = [heard EXCEPT ![c] = Head(queue[c])]
  /\ reads' = [p \in Pages |->
       IF link[p] = c /\ reads[p] = {} THEN {Request(Head(queue[c]))} ELSE reads[p]]
  /\ UNCHANGED <<change, announced, clients, stream, link, view, failed>>

\* The generator sends an event.  The handler of the page at the other end, if
\* there still is one, reads the stages.
Send(c) ==
  /\ stream[c] = "serving"
  /\ queue[c] # <<>>
  /\ queue' = [queue EXCEPT ![c] = Tail(@)]
  /\ heard' = [heard EXCEPT ![c] = Head(queue[c])]
  /\ reads' = [p \in Pages |->
       IF link[p] = c THEN reads[p] \cup {Request(Head(queue[c]))} ELSE reads[p]]
  /\ UNCHANGED <<change, announced, clients, stream, link, view, failed>>

\* onerror: the page connects again, and reads nothing when it has.
Break(p) ==
  /\ link[p] \in Connections
  /\ link' = [link EXCEPT ![p] = Connecting]
  /\ UNCHANGED <<server, reads, view, failed>>

\* The page is left; answers that come later change nothing.
Leave(p) ==
  /\ link[p] # Closed
  /\ link' = [link EXCEPT ![p] = Closed]
  /\ reads' = [reads EXCEPT ![p] = {}]
  /\ UNCHANGED <<server, view, failed>>

\* The generator finds its client gone.
EndStream(c) ==
  /\ stream[c] = "serving"
  /\ \A p \in Pages : link[p] # c
  /\ stream' = [stream EXCEPT ![c] = "ended"]
  /\ clients' = clients \ {c}
  /\ queue' = [queue EXCEPT ![c] = <<>>]
  /\ UNCHANGED <<change, announced, heard, browser>>

-----------------------------------------------------------------------------
(* Reads; the answers of several arrive in any order *)

\* get_stage_progress
Answer(p, x) ==
  /\ ~x.answered
  /\ reads' = [reads EXCEPT ![p] = (@ \ {x}) \cup
                     {[cause |-> x.cause, answered |-> TRUE, seen |-> Committed]}]
  /\ UNCHANGED <<server, link, view, failed>>

Apply(p, x) ==
  /\ x.answered
  /\ view' = [view EXCEPT ![p] = x.seen]
  /\ reads' = [reads EXCEPT ![p] = @ \ {x}]
  /\ UNCHANGED <<server, link, failed>>

\* A read that fails is not repeated.
LoseRead(p, x) ==
  /\ reads' = [reads EXCEPT ![p] = @ \ {x}]
  /\ failed' = failed \cup {p}
  /\ UNCHANGED <<server, link, view>>

-----------------------------------------------------------------------------
\* The server process ends and starts again: only what is committed is left.
Restart ==
  /\ change' = [r \in Changes |-> IF change[r] = "open" THEN "rolled back" ELSE change[r]]
  /\ clients' = {}
  /\ queue' = [c \in Connections |-> <<>>]
  /\ stream' = [c \in Connections |-> IF stream[c] = "serving" THEN "ended" ELSE stream[c]]
  /\ link' = [p \in Pages |-> IF link[p] = Closed THEN Closed ELSE Connecting]
  /\ reads' = [p \in Pages |-> {x \in reads[p] : x.answered}]
  /\ failed' = failed \cup {p \in Pages : \E x \in reads[p] : ~x.answered}
  /\ UNCHANGED <<announced, heard, view>>

Handle(p) == \E x \in reads[p] : Answer(p, x) \/ Apply(p, x)

Next ==
  \/ \E r \in Changes : Announce(r) \/ End(r)
  \/ \E p \in Pages, c \in Connections : Connect(p, c)
  \/ \E p \in Pages : Break(p) \/ Leave(p) \/ \E x \in reads[p] : LoseRead(p, x)
  \/ \E p \in Pages : Handle(p)
  \/ \E c \in Connections : Send(c) \/ EndStream(c)
  \/ Restart

\* Generators and pages go on; nobody has to change a stage or come back, and
\* no answer is overtaken for ever.
Fairness ==
  /\ \A c \in Connections : WF_vars(Send(c))
  /\ \A p \in Pages, n \in 0 .. MaxEvents :
       /\ WF_vars(\E x \in reads[p] : x.cause = n /\ Answer(p, x))
       /\ WF_vars(\E x \in reads[p] : x.cause = n /\ Apply(p, x))

Spec == Init /\ [][Next]_vars /\ Fairness

-----------------------------------------------------------------------------
(* Properties *)

\* The numbers of q are those that come after n.
Follow(n, q) == \A i \in 1 .. Len(q) : q[i] = n + i

\* The events of a connection are consecutive, up to the last one if the
\* client is still in the set: a slow client is cut off at some event, but no
\* page ever hears an event after missing an earlier one.
NoGaps ==
  \A c \in Connections :
    /\ Follow(heard[c], queue[c])
    /\ c \in clients => heard[c] + Len(queue[c]) = announced

\* A change that is committed while an event is on its way to a page is shown
\* there, however reads overlap, unless the connection breaks or a read of
\* the page fails.  With no event on its way, nothing makes a page look.
Shown ==
  \A p \in Pages, c \in Connections, r \in Changes :
    (r \in Committed /\ link[p] = c /\ queue[c] # <<>>)
      ~> (r \in view[p] \/ link[p] # c \/ p \in failed)
=============================================================================
