------------------------------ MODULE EventBus ------------------------------
(* internal/events/bus.go: publishers hand events to the buffered channels of   *)
(* the subscribers under a read lock and never wait; subscribing and leaving    *)
(* take the write lock.  The engine of internal/notifications subscribes for    *)
(* the life of the process, a browser for the life of its request               *)
(* (internal/api/sse).  Publishers run at the same time, and each offers its    *)
(* event to the subscribers in any order, Go's order of a map.                  *)
EXTENDS Integers, Sequences, FiniteSets

CONSTANTS
    Engine,        \* the notification engine, a subscriber and a publisher
    Browsers,      \* open event streams
    Publishers,    \* goroutines that call Publish
    EngineBuffer,  \* 128 in the code
    BrowserBuffer, \* 32 in the code
    NoEvent

ASSUME BufferAssumption == EngineBuffer \in Nat \ {0} /\ BrowserBuffer \in Nat \ {0}
ASSUME EngineAssumption == Engine \in Publishers /\ Engine \notin Browsers

VARIABLES
    queue,    \* the channels: from subscribers to the events they have not read
    sending,  \* Publish in progress: its event and the subscribers left to serve
    clock,    \* number of calls of Publish so far, which stamps the events
    taken     \* history: the stamp of the last event a subscriber took of a publisher

busVars == <<queue, sending, clock, taken>>

Subscribers == {Engine} \cup Browsers
Buffer(s) == IF s = Engine THEN EngineBuffer ELSE BrowserBuffer
Quiet == [event |-> NoEvent, left |-> {}]
NothingTaken == [p \in Publishers |-> 0]
Locked == \E p \in Publishers : sending[p] # Quiet

BusInit ==
    /\ queue = [s \in {Engine} |-> <<>>]
    /\ sending = [p \in Publishers |-> Quiet]
    /\ clock = 0
    /\ taken = [s \in Subscribers |-> NothingTaken]

Subscribe(b) ==
    /\ ~Locked
    /\ b \notin DOMAIN queue
    /\ queue' = [s \in DOMAIN queue \cup {b} |-> IF s = b THEN <<>> ELSE queue[s]]
    /\ UNCHANGED <<sending, clock, taken>>

Unsubscribe(b) ==
    /\ ~Locked
    /\ b \in DOMAIN queue
    /\ queue' = [s \in DOMAIN queue \ {b} |-> queue[s]]
    /\ taken' = [taken EXCEPT ![b] = NothingTaken]
    /\ UNCHANGED <<sending, clock>>

(* The event of a call of Publish; failures is the payload of worker events. *)
Event(p, type, failures) == [from |-> p, at |-> clock + 1, type |-> type, failures |-> failures]

Publish(p, type, failures) ==
    /\ sending[p] = Quiet
    /\ clock' = clock + 1
    /\ sending' = [sending EXCEPT ![p] =
                      IF DOMAIN queue = {} THEN Quiet
                      ELSE [event |-> Event(p, type, failures), left |-> DOMAIN queue]]
    /\ UNCHANGED <<queue, taken>>

(* Faulty: the newest event goes first. *)
OfferedFirst(q, s, e) == IF Len(q) < Buffer(s) THEN <<e>> \o q ELSE q

(* The select with a default: a full channel loses the event. *)
Offered(q, s, e) == IF Len(q) < Buffer(s) THEN Append(q, e) ELSE q

(* Faulty: Publish waits for room. *)
OfferWithRoom(p, s) ==
    /\ s \in sending[p].left
    /\ Len(queue[s]) < Buffer(s)
    /\ queue' = [queue EXCEPT ![s] = Append(@, sending[p].event)]
    /\ sending' = [sending EXCEPT ![p] =
                      IF @.left = {s} THEN Quiet ELSE [sending[p] EXCEPT !.left = @ \ {s}]]
    /\ UNCHANGED <<clock, taken>>

Offer(p, s) ==
    /\ s \in sending[p].left
    /\ queue' = [queue EXCEPT ![s] = Offered(@, s, sending[p].event)]
    /\ sending' = [sending EXCEPT ![p] =
                      IF @.left = {s} THEN Quiet ELSE [sending[p] EXCEPT !.left = @ \ {s}]]
    /\ UNCHANGED <<clock, taken>>

Take(s) ==
    /\ s \in DOMAIN queue
    /\ queue[s] # <<>>
    /\ queue' = [queue EXCEPT ![s] = Tail(@)]
    /\ taken' = [taken EXCEPT ![s][Head(queue[s]).from] = Head(queue[s]).at]
    /\ UNCHANGED <<sending, clock>>

(* The channels and their senders die with the process. *)
BusRestart ==
    /\ queue' = [s \in {Engine} |-> <<>>]
    /\ sending' = [p \in Publishers |-> Quiet]
    /\ taken' = [s \in Subscribers |-> NothingTaken]
    /\ UNCHANGED clock

-----------------------------------------------------------------------------
(* A subscriber may miss events (Publish drops them at a full channel) and may  *)
(* see those of two publishers in another order than other subscribers do, but  *)
(* it sees the events of each publisher in the order they were published, and   *)
(* no channel holds more than its buffer.                                       *)
OrderPerPublisher ==
    \A s \in DOMAIN queue :
        /\ Len(queue[s]) <= Buffer(s)
        /\ \A i \in 1 .. Len(queue[s]) :
              /\ taken[s][queue[s][i].from] < queue[s][i].at
              /\ \A j \in 1 .. i - 1 :
                    queue[s][j].from = queue[s][i].from => queue[s][j].at < queue[s][i].at
              /\ \A p \in Publishers :
                    (s \in sending[p].left /\ queue[s][i].from = p)
                        => queue[s][i].at < sending[p].event.at
=============================================================================
