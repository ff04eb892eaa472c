--------------------------- MODULE McpServerProofs ---------------------------
(***************************************************************************)
(* Proofs about the MCP server, for every set of ids, every limit of the   *)
(* pending list and every bound: its types, and that a cancellation        *)
(* reaches the call it was read for, and no other.                         *)
(***************************************************************************)
EXTENDS McpServer, FiniteSetTheorems, TLAPS

------------------------------------------------------------------------------
(* What the reader sends is an event. *)
LEMMA SentIsEvent ==
  ASSUME TypeOK, NEW k, NEW i, sent < MaxLines,
         (\E l \in Lines : k = l.kind /\ i = l.id) \/ (k \in Ends /\ i = Null)
  PROVE  [n |-> sent + 1, kind |-> k, id |-> i] \in Event
<1>1. sent + 1 \in 1 .. MaxLines
  BY McpAssumption DEF TypeOK
<1>2. k \in Kinds \cup Ends /\ i \in Ids \cup {Null}
  BY McpAssumption
<1>3. k = "call" => i \in Ids
  BY McpAssumption DEF Ends
<1>4. QED BY <1>1, <1>2, <1>3 DEF Event

(* What the dispatcher receives is one of the events that were sent. *)
LEMMA ReceivedIsEvent ==
  ASSUME TypeOK, NEW kinds, Receive(kinds)
  PROVE  /\ Head(queue) \in Event /\ queue' \in Seq(Event)
         /\ Head(queue).kind = "call" => Head(queue) \in Call /\ Head(queue).id \in Ids
         /\ Head(queue) = queue[1] /\ Len(queue') = Len(queue) - 1
         /\ \A k \in 1 .. Len(queue') : queue'[k] = queue[k + 1]
<1>1. queue \in Seq(Event) /\ queue # <<>> /\ queue' = Tail(queue)
  BY DEF TypeOK, Receive
<1>2. Head(queue) \in Event
  BY <1>1
<1>3. Head(queue).kind = "call" => Head(queue) \in Call /\ Head(queue).id \in Ids
  BY <1>2 DEF Call, Event
<1>4. QED BY <1>1, <1>2, <1>3

(* Only calls wait under an id. *)
LEMMA NextAreCalls ==
  ASSUME TypeOK, NEW i \in Ids
  PROVE  NextUnder(i) \subseteq Call
BY DEF TypeOK, NextUnder, Call

(* The list can be counted. *)
LEMMA PendingCounts ==
  ASSUME TypeOK
  PROVE  IsFiniteSet(pending) /\ Cardinality(pending) \in Nat
<1>1. pending \in SUBSET Ids /\ IsFiniteSet(Ids)
  BY McpAssumption DEF TypeOK
<1>2. QED BY <1>1, FS_Subset, FS_CardinalityType

(* One more id in a list that had room. *)
LEMMA PendingGrows ==
  ASSUME TypeOK, NEW i \in Ids, i \in pending \/ Cardinality(pending) < MaxPending
  PROVE  pending \cup {i} \subseteq Ids /\ Cardinality(pending \cup {i}) <= MaxPending
<1>1. pending \subseteq Ids
  BY DEF TypeOK
<1>2. IsFiniteSet(pending)
  BY PendingCounts
<1>3. Cardinality(pending) \in Nat
  BY PendingCounts
<1>4. Cardinality(pending \cup {i}) = IF i \in pending THEN Cardinality(pending)
                                                       ELSE Cardinality(pending) + 1
  BY <1>2, FS_AddElement
<1>5. QED BY <1>1, <1>3, <1>4, McpAssumption DEF TypeOK

(* One id fewer. *)
LEMMA PendingShrinks ==
  ASSUME TypeOK, NEW i
  PROVE  pending \ {i} \subseteq Ids /\ Cardinality(pending \ {i}) <= MaxPending
<1>1. pending \subseteq Ids
  BY DEF TypeOK
<1>2. IsFiniteSet(pending)
  BY PendingCounts
<1>3. pending \ {i} \in SUBSET pending
  OBVIOUS
<1>4. Cardinality(pending \ {i}) <= Cardinality(pending)
  BY <1>2, <1>3, FS_Subset
<1>5. Cardinality(pending) \in Nat /\ Cardinality(pending \ {i}) \in Nat
  BY <1>2, <1>3, FS_Subset, FS_CardinalityType
<1>6. QED BY <1>1, <1>4, <1>5, McpAssumption DEF TypeOK
------------------------------------------------------------------------------
LEMMA InitTypes == Init => TypeOK
<1>1. SUFFICES ASSUME Init PROVE TypeOK
  OBVIOUS
<1>2. Cardinality({}) = 0
  BY FS_EmptySet
<1>3. 0 \in 0 .. MaxLines /\ 0 \in 0 .. MaxCancels /\ 0 <= MaxPending
  BY McpAssumption
<1>4. queue \in Seq(Event) /\ owed \in Seq(Event)
      /\ log \in Seq([event : Event, reply : Replies])
  BY <1>1 DEF Init
<1>5. QED BY <1>1, <1>2, <1>3, <1>4 DEF Init, TypeOK, Places, Replies

LEMMA SendTypes ==
  ASSUME TypeOK, NEW k, NEW i, Send(k, i), reader' \in {"reading", "ended"},
         (\E l \in Lines : k = l.kind /\ i = l.id) \/ (k \in Ends /\ i = Null)
  PROVE  TypeOK'
<1> DEFINE e == [n |-> sent + 1, kind |-> k, id |-> i]
<1>1. e \in Event
  BY SentIsEvent DEF Send
<1> HIDE DEF e
<1>2. queue' \in Seq(Event) /\ owed' \in Seq(Event)
  BY <1>1 DEF Send, TypeOK, e
<1>3. sent' \in 0 .. MaxLines
  BY McpAssumption DEF Send, TypeOK
<1>4. QED BY <1>2, <1>3 DEF Send, TypeOK, cancelVars, sharedVars, lifeVars, mainVars, signalVars

LEMMA CancelTypes ==
  ASSUME TypeOK, NEW i \in Ids, ReadCancellation(i)
  PROVE  TypeOK'
<1>1. notices' \in [Ids -> 0 .. MaxCancels]
  BY McpAssumption DEF ReadCancellation, TypeOK
<1>2. NextUnder(i) \subseteq Call
  BY NextAreCalls
<1>3. /\ pending' \subseteq Ids /\ Cardinality(pending') <= MaxPending
      /\ cancelled' \subseteq Call /\ heard' \subseteq Call /\ refused' \subseteq heard'
      /\ active' = active
  <2>1. CASE active.id = i
    <3>1. active \in Call
      BY <2>1, McpAssumption DEF TypeOK, NoEvent
    <3>2. QED BY <2>1, <3>1 DEF ReadCancellation, CancelRequest, TypeOK
  <2>2. CASE active.id # i /\ (i \in pending \/ Cardinality(pending) < MaxPending)
    <3>1. pending \cup {i} \subseteq Ids /\ Cardinality(pending \cup {i}) <= MaxPending
      BY <2>2, PendingGrows
    <3>2. pending' = pending \cup {i} \/ pending' = pending
      BY <2>2 DEF ReadCancellation, CancelRequest, sharedVars
    <3>3. QED BY <1>2, <2>2, <3>1, <3>2
              DEF ReadCancellation, CancelRequest, TypeOK, sharedVars
  <2>3. CASE active.id # i /\ ~(i \in pending \/ Cardinality(pending) < MaxPending)
    BY <1>2, <2>3 DEF ReadCancellation, CancelRequest, TypeOK, sharedVars
  <2>4. QED BY <2>1, <2>2, <2>3
<1>4. QED BY <1>1, <1>3
          DEF ReadCancellation, TypeOK, readerVars, lifeVars, mainVars, signalVars

LEMMA ReceiveTypes ==
  ASSUME TypeOK,
         ReceiveEnd \/ ReceiveResponse \/ ReceiveNotification
           \/ ReceiveInitialize \/ ReceiveRequest
  PROVE  TypeOK'
<1>1. PICK kinds : Receive(kinds)
  BY DEF ReceiveEnd, ReceiveResponse, ReceiveNotification, ReceiveInitialize, ReceiveRequest
<1>2. Head(queue) \in Event /\ queue' \in Seq(Event)
  BY <1>1, ReceivedIsEvent
<1> USE <1>2 DEF Receive, TypeOK, readerVars, cancelVars, signalVars, sharedVars,
                 lifeVars, Places, Replies
<1>3. CASE ReceiveEnd
  BY <1>3 DEF ReceiveEnd, Return
<1>4. CASE ReceiveResponse
  BY <1>4 DEF ReceiveResponse
<1>5. CASE ReceiveNotification
  BY <1>5 DEF ReceiveNotification
<1>6. CASE ReceiveInitialize
  BY <1>6 DEF ReceiveInitialize
<1>7. CASE ReceiveRequest
  <2>1. reply' \in Replies
    BY <1>7 DEF ReceiveRequest, Answer
  <2>2. QED BY <1>7, <2>1 DEF ReceiveRequest
<1>8. QED BY <1>3, <1>4, <1>5, <1>6, <1>7

LEMMA BeginTypes ==
  ASSUME TypeOK, BeginCall
  PROVE  TypeOK'
<1>1. Receive({"call"})
  BY DEF BeginCall
<1>2. Head(queue) \in Call /\ Head(queue) \in Event /\ queue' \in Seq(Event)
  BY <1>1, ReceivedIsEvent DEF Receive
<1>3. pending' \subseteq Ids /\ Cardinality(pending') <= MaxPending
  BY PendingShrinks DEF BeginCall, BeginRequest
<1>4. cancelled' \subseteq Call
  BY <1>2 DEF BeginCall, BeginRequest, TypeOK
<1>5. QED BY <1>2, <1>3, <1>4
          DEF BeginCall, BeginRequest, Receive, TypeOK, readerVars, cancelVars,
              signalVars, lifeVars, Places

LEMMA WorkTypes ==
  ASSUME TypeOK,
         CheckSignal \/ ReceiveTimeout \/ RunTool \/ FinishCall \/ CheckReply
           \/ WriteMessage \/ WriteFails \/ OsSignal
  PROVE  TypeOK'
<1> USE DEF TypeOK, readerVars, cancelVars, signalVars, sharedVars, lifeVars, Places
<1>1. CASE CheckSignal
  BY <1>1 DEF CheckSignal, Return
<1>2. CASE ReceiveTimeout
  BY <1>2 DEF ReceiveTimeout
<1>3. CASE RunTool
  BY <1>3 DEF RunTool, Replies
<1>4. CASE FinishCall
  <2>1. hand \in Event /\ active' = NoEvent
    BY <1>4 DEF FinishCall, Call
  <2>2. QED BY <1>4, <2>1 DEF FinishCall
<1>5. CASE CheckReply
  BY <1>5 DEF CheckReply, Return
<1>6. CASE WriteMessage
  <2>1. log' \in Seq([event : Event, reply : Replies])
    BY <1>6 DEF WriteMessage
  <2>2. QED BY <1>6, <2>1 DEF WriteMessage, Return
<1>7. CASE WriteFails
  BY <1>7 DEF WriteFails, Return
<1>8. CASE OsSignal
  BY <1>8 DEF OsSignal, mainVars
<1>9. QED BY <1>1, <1>2, <1>3, <1>4, <1>5, <1>6, <1>7, <1>8

LEMMA NextTypes ==
  ASSUME TypeOK, [Next]_vars
  PROVE  TypeOK'
<1>1. ASSUME ReadLine PROVE TypeOK'
  <2>1. PICK l \in Lines : Send(l.kind, l.id) /\ UNCHANGED reader
    BY <1>1 DEF ReadLine
  <2>2. reader' \in {"reading", "ended"}
    BY <2>1 DEF TypeOK
  <2>3. QED BY <2>1, <2>2, SendTypes
<1>2. ASSUME ReadEnd PROVE TypeOK'
  BY <1>2, SendTypes DEF ReadEnd
<1>3. ASSUME NEW i \in Ids, ReadCancellation(i) PROVE TypeOK'
  BY <1>3, CancelTypes
<1>4. CASE UNCHANGED vars
  BY <1>4 DEF vars, TypeOK, readerVars, cancelVars, sharedVars, lifeVars, mainVars,
              signalVars
<1>5. QED
  BY <1>1, <1>2, <1>3, <1>4, ReceiveTypes, BeginTypes, WorkTypes
     DEF Next, Reader, Dispatcher, Stopped

\* The state of the server keeps its types, whatever the client sends: above
\* all, the list of pending cancellations never outgrows its limit.
THEOREM McpTypes == Spec => []TypeOK
<1>1. TypeOK /\ [Next]_vars => TypeOK'
  BY NextTypes
<1>2. QED BY InitTypes, <1>1, PTL DEF Spec
------------------------------------------------------------------------------
(* Cancellations.  A call is recognised by its number: numbers grow along  *)
(* the queue, and the call in hand came before all that wait.  A heard     *)
(* call that waits has its id in the list and nobody before it to take the *)
(* entry.                                                                  *)
Numbered ==
    /\ \A k \in 1 .. Len(queue) : queue[k].n <= sent /\ hand.n < queue[k].n
    /\ \A k \in 1 .. Len(queue) : \A j \in 1 .. k - 1 : queue[j].n < queue[k].n
    /\ hand.n <= sent
    /\ \A c \in heard : c.n <= sent

Claimed ==
    \A k \in 1 .. Len(queue) : queue[k] \in heard \ refused =>
        /\ queue[k].id \in pending
        /\ \A j \in 1 .. k - 1 : ~(queue[j].kind = "call" /\ queue[j].id = queue[k].id)

ReachInv == TypeOK /\ Numbered /\ Claimed /\ CancellationsReachTheirCall

LEMMA InitReach == Init => ReachInv
BY InitTypes DEF Init, ReachInv, Numbered, Claimed, CancellationsReachTheirCall, NoEvent

(* A new event is the last and has a number nobody had. *)
LEMMA SendReach ==
  ASSUME ReachInv, NEW k, NEW i, Send(k, i)
  PROVE  (Numbered /\ Claimed /\ CancellationsReachTheirCall)'
<1> DEFINE e == [n |-> sent + 1, kind |-> k, id |-> i]
<1>1. /\ Len(queue') = Len(queue) + 1 /\ Len(queue) \in Nat /\ sent \in Nat
      /\ \A m \in 1 .. Len(queue) : queue'[m] = queue[m]
      /\ queue'[Len(queue) + 1] = e
      /\ sent' = sent + 1 /\ hand' = hand /\ heard' = heard
      /\ refused' = refused /\ pending' = pending /\ main' = main
      /\ cancelled' = cancelled
  BY DEF Send, ReachInv, TypeOK, cancelVars, sharedVars, mainVars
<1>2. e.n = sent + 1
  OBVIOUS
<1> HIDE DEF e
<1>3. /\ \A m \in 1 .. Len(queue) : queue[m].n \in Nat
      /\ hand.n \in Nat /\ \A c \in heard : c.n \in Nat
  <2>1. \A x \in Event : x.n \in Nat
    BY McpAssumption DEF Event
  <2>2. queue \in Seq(Event) /\ hand \in Event \cup {NoEvent} /\ heard \subseteq Event
    BY DEF ReachInv, TypeOK, Call
  <2>3. NoEvent.n = 0
    BY DEF NoEvent
  <2>4. QED BY <2>1, <2>2, <2>3
<1>4. e \notin heard
  BY <1>1, <1>2, <1>3 DEF ReachInv, Numbered
<1>5. Numbered'
  <2>1. hand'.n <= sent' /\ \A c \in heard' : c.n <= sent'
    BY <1>1, <1>3 DEF ReachInv, Numbered
  <2>2. ASSUME NEW m \in 1 .. Len(queue')
        PROVE  /\ queue'[m].n <= sent' /\ hand'.n < queue'[m].n
               /\ \A j \in 1 .. m - 1 : queue'[j].n < queue'[m].n
    <3>1. CASE m = Len(queue) + 1
      BY <1>1, <1>2, <1>3, <3>1 DEF ReachInv, Numbered
    <3>2. CASE m \in 1 .. Len(queue)
      <4>1. queue'[m] = queue[m] /\ \A j \in 1 .. m - 1 : queue'[j] = queue[j]
        BY <1>1, <3>2
      <4>2. queue[m].n <= sent /\ hand.n < queue[m].n
        BY <3>2 DEF ReachInv, Numbered
      <4>3. \A j \in 1 .. m - 1 : queue[j].n < queue[m].n
        BY <3>2 DEF ReachInv, Numbered
      <4>4. QED BY <1>1, <1>3, <3>2, <4>1, <4>2, <4>3
    <3>3. QED BY <1>1, <3>1, <3>2
  <2>3. QED BY <2>1, <2>2 DEF Numbered
<1>6. Claimed'
  BY <1>1, <1>4 DEF ReachInv, Claimed
<1>7. CancellationsReachTheirCall'
  BY <1>1 DEF ReachInv, CancellationsReachTheirCall
<1>8. QED BY <1>5, <1>6, <1>7
(* The numbers make the call next to run under an id unique, and it is     *)
(* never the one in hand.                                                  *)
LEMMA NextIsFirst ==
  ASSUME ReachInv, NEW i \in Ids, NEW k \in 1 .. Len(queue), queue[k] \in NextUnder(i)
  PROVE  /\ queue[k].kind = "call" /\ queue[k].id = i
         /\ \A j \in 1 .. k - 1 : ~(queue[j].kind = "call" /\ queue[j].id = i)
<1>1. DOMAIN queue = 1 .. Len(queue) /\ Len(queue) \in Nat
  BY DEF ReachInv, TypeOK
<1>2. PICK m \in 1 .. Len(queue) :
        /\ queue[m] = queue[k] /\ queue[m].kind = "call" /\ queue[m].id = i
        /\ \A j \in 1 .. m - 1 : ~(queue[j].kind = "call" /\ queue[j].id = i)
  BY <1>1 DEF NextUnder
<1>3. queue[m].n \in Nat
  BY <1>1, McpAssumption DEF ReachInv, TypeOK, Event
<1>4. m = k
  BY <1>1, <1>2, <1>3 DEF ReachInv, Numbered
<1>5. QED BY <1>2, <1>4

LEMMA HandIsNotQueued ==
  ASSUME ReachInv
  PROVE  \A k \in 1 .. Len(queue) : queue[k] # hand /\ queue[k].n <= sent
<1>1. queue \in Seq(Event)
  BY DEF ReachInv, TypeOK
<1>2. hand.n \in Nat /\ \A k \in 1 .. Len(queue) : queue[k].n \in Nat
  BY <1>1, McpAssumption DEF ReachInv, TypeOK, Event, NoEvent
<1>3. QED BY <1>2 DEF ReachInv, Numbered

LEMMA HandIsNotNext ==
  ASSUME ReachInv, NEW i \in Ids
  PROVE  hand \notin NextUnder(i) /\ \A c \in NextUnder(i) : c.n <= sent
<1>1. DOMAIN queue = 1 .. Len(queue)
  BY DEF ReachInv, TypeOK
<1>2. QED BY <1>1, HandIsNotQueued DEF NextUnder

(* A cancellation is for the call that runs, or marks the next to run, or  *)
(* is counted as refused.                                                  *)
LEMMA CancelReach ==
  ASSUME ReachInv, NEW i \in Ids, ReadCancellation(i)
  PROVE  (Numbered /\ Claimed /\ CancellationsReachTheirCall)'
<1>1. queue' = queue /\ hand' = hand /\ sent' = sent /\ main' = main
  BY DEF ReadCancellation, readerVars, mainVars
<1> USE <1>1, HandIsNotNext
<1>2. CASE active.id = i
  <2>1. active = hand /\ main \in {"call", "finish"}
    BY <1>2, McpAssumption DEF ReachInv, TypeOK, NoEvent
  <2>2. /\ cancelled' = cancelled \cup {hand} /\ heard' = heard \cup {hand}
        /\ refused' = refused \ {hand} /\ pending' = pending
    BY <1>2, <2>1 DEF ReadCancellation, CancelRequest
  <2>3. Numbered'
    BY <2>2 DEF ReachInv, Numbered
  <2>4. Claimed'
    <3>1. \A k \in 1 .. Len(queue) : queue[k] # hand
      BY HandIsNotQueued
    <3>2. \A k \in 1 .. Len(queue) :
            queue[k] \in heard' \ refused' => queue[k] \in heard \ refused
      BY <2>2, <3>1
    <3>3. QED BY <2>2, <3>2 DEF ReachInv, Claimed
  <2>5. CancellationsReachTheirCall'
    BY <2>2 DEF CancellationsReachTheirCall
  <2>6. QED BY <2>3, <2>4, <2>5
<1>3. CASE active.id # i /\ (i \in pending \/ Cardinality(pending) < MaxPending)
  <2>1. CASE pending' = pending \cup {i} /\ heard' = heard \cup NextUnder(i)
             /\ refused' = refused \ NextUnder(i) /\ cancelled' = cancelled
    <3>1. Numbered' /\ CancellationsReachTheirCall'
      BY <2>1 DEF ReachInv, Numbered, CancellationsReachTheirCall
    <3>2. Claimed'
      BY <2>1, NextIsFirst DEF ReachInv, Claimed
    <3>3. QED BY <3>1, <3>2
  <2>2. ~(Cardinality(pending) >= MaxPending) \/ i \in pending
    BY <1>3, PendingCounts, McpAssumption DEF ReachInv
  <2>3. QED BY <1>3, <2>1, <2>2 DEF ReadCancellation, CancelRequest, sharedVars
<1>4. CASE active.id # i /\ ~(i \in pending \/ Cardinality(pending) < MaxPending)
  <2>1. /\ pending' = pending /\ cancelled' = cancelled
        /\ heard' = heard \cup NextUnder(i) /\ refused' = refused \cup NextUnder(i)
    BY <1>4 DEF ReadCancellation, CancelRequest, sharedVars
  <2>2. QED BY <2>1 DEF ReachInv, Numbered, Claimed, CancellationsReachTheirCall
<1>5. QED BY <1>2, <1>3, <1>4

(* Taking the head leaves the numbers in order; begin_request takes the    *)
(* entry of no call that still waits for its own.                          *)
LEMMA ReceiveReach ==
  ASSUME ReachInv, NEW kinds, Receive(kinds), hand' \in {hand, Head(queue)},
         UNCHANGED <<sent, pending>> \/ (UNCHANGED sent /\ BeginRequest(Head(queue))
                                         /\ Head(queue).kind = "call")
  PROVE  (Numbered /\ Claimed)'
<1>1. /\ Head(queue) = queue[1] /\ Len(queue') = Len(queue) - 1 /\ Len(queue) \in Nat
      /\ \A k \in 1 .. Len(queue') : queue'[k] = queue[k + 1]
      /\ Len(queue) >= 1
  BY ReceivedIsEvent DEF ReachInv, TypeOK, Receive
<1>2. heard' = heard /\ refused' = refused /\ sent' = sent
  BY DEF Receive, cancelVars
<1>3. Numbered'
  <2>1. \A k \in 1 .. Len(queue') : k + 1 \in 1 .. Len(queue) /\ queue'[k] = queue[k + 1]
    BY <1>1
  <2>2. 1 \in 1 .. Len(queue) /\ hand' \in {hand, queue[1]}
    BY <1>1
  <2>3. hand'.n <= sent
    BY <2>2 DEF ReachInv, Numbered
  <2>4. \A k \in 1 .. Len(queue') : queue[k + 1].n <= sent /\ hand'.n < queue[k + 1].n
    <3>1. TAKE k \in 1 .. Len(queue')
    <3>2. k + 1 \in 1 .. Len(queue) /\ 1 \in 1 .. (k + 1) - 1
      BY <1>1
    <3>3. queue[1].n < queue[k + 1].n /\ hand.n < queue[k + 1].n /\ queue[k + 1].n <= sent
      BY <3>2 DEF ReachInv, Numbered
    <3>4. QED BY <2>2, <3>3
  <2>5. \A k \in 1 .. Len(queue') : \A j \in 1 .. k - 1 : queue[j + 1].n < queue[k + 1].n
    <3>1. TAKE k \in 1 .. Len(queue')
    <3>2. TAKE j \in 1 .. k - 1
    <3>3. k + 1 \in 1 .. Len(queue) /\ j + 1 \in 1 .. (k + 1) - 1
      BY <1>1
    <3>4. QED BY <3>3 DEF ReachInv, Numbered
  <2>6. \A k \in 1 .. Len(queue') : \A j \in 1 .. k - 1 : queue'[j] = queue[j + 1]
    BY <1>1
  <2>7. /\ \A k \in 1 .. Len(queue') : queue'[k].n <= sent' /\ hand'.n < queue'[k].n
        /\ \A k \in 1 .. Len(queue') : \A j \in 1 .. k - 1 : queue'[j].n < queue'[k].n
    BY <1>2, <2>1, <2>4, <2>5, <2>6
  <2>8. QED BY <1>2, <2>3, <2>7 DEF ReachInv, Numbered
<1>4. Claimed'
  <2>1. SUFFICES ASSUME NEW k \in 1 .. Len(queue'), queue'[k] \in heard \ refused
                 PROVE  /\ queue'[k].id \in pending'
                        /\ \A j \in 1 .. k - 1 : ~(queue'[j].kind = "call"
                                                  /\ queue'[j].id = queue'[k].id)
    BY <1>2 DEF Claimed
  <2>2. /\ k + 1 \in 1 .. Len(queue) /\ queue'[k] = queue[k + 1]
        /\ \A j \in 1 .. k - 1 : queue'[j] = queue[j + 1] /\ j + 1 \in 1 .. k
    BY <1>1
  <2>3. /\ queue[k + 1].id \in pending
        /\ \A j \in 1 .. k : ~(queue[j].kind = "call" /\ queue[j].id = queue[k + 1].id)
    BY <2>1, <2>2 DEF ReachInv, Claimed
  <2>4. pending' = pending \/ (pending' = pending \ {queue[1].id} /\ queue[1].kind = "call")
    BY <1>1 DEF BeginRequest
  <2>5. QED BY <2>2, <2>3, <2>4
<1>5. QED BY <1>3, <1>4

LEMMA NextReach ==
  ASSUME ReachInv, [Next]_vars
  PROVE  ReachInv'
<1>1. TypeOK'
  BY NextTypes DEF ReachInv
<1> DEFINE Rest == Numbered /\ Claimed /\ CancellationsReachTheirCall
<1>2. ASSUME ReadLine \/ ReadEnd PROVE Rest'
  <2>1. PICK k, i : Send(k, i)
    BY <1>2 DEF ReadLine, ReadEnd
  <2>2. QED BY <2>1, SendReach
<1>3. ASSUME NEW i \in Ids, ReadCancellation(i) PROVE Rest'
  BY <1>3, CancelReach
<1>4. ASSUME ReceiveEnd \/ ReceiveResponse \/ ReceiveNotification
               \/ ReceiveInitialize \/ ReceiveRequest
      PROVE  Rest'
  <2>1. PICK kinds : Receive(kinds)
    BY <1>4 DEF ReceiveEnd, ReceiveResponse, ReceiveNotification, ReceiveInitialize,
                ReceiveRequest
  <2>2. /\ main' \notin {"call", "finish"} /\ hand' \in {hand, Head(queue)}
        /\ UNCHANGED <<sent, pending>>
    BY <1>4, <2>1
       DEF ReceiveEnd, ReceiveResponse, ReceiveNotification, ReceiveInitialize,
           ReceiveRequest, Return, Receive, sharedVars, readerVars
  <2>3. QED BY <2>1, <2>2, ReceiveReach DEF CancellationsReachTheirCall
<1>5. ASSUME BeginCall PROVE Rest'
  <2>1. /\ Receive({"call"}) /\ BeginRequest(Head(queue)) /\ Head(queue).kind = "call"
        /\ hand' = Head(queue) /\ UNCHANGED <<sent, heard, refused>>
    BY <1>5 DEF BeginCall, Receive, readerVars, cancelVars
  <2>2. Head(queue) = queue[1] /\ 1 \in 1 .. Len(queue)
    BY <2>1, ReceivedIsEvent DEF ReachInv, TypeOK, Receive
  <2>3. Head(queue) \in heard \ refused => Head(queue).id \in pending
    BY <2>2 DEF ReachInv, Claimed
  <2>4. CancellationsReachTheirCall'
    BY <2>1, <2>3 DEF CancellationsReachTheirCall, BeginRequest
  <2>5. QED BY <2>1, <2>4, ReceiveReach
<1>6. ASSUME CheckSignal \/ ReceiveTimeout \/ RunTool \/ FinishCall \/ CheckReply
               \/ WriteMessage \/ WriteFails \/ OsSignal \/ UNCHANGED vars
      PROVE  Rest'
  <2>1. UNCHANGED <<sent, heard, refused, pending, cancelled, hand, queue>>
    BY <1>6 DEF CheckSignal, ReceiveTimeout, RunTool, FinishCall, CheckReply, WriteMessage,
                WriteFails, OsSignal, vars, readerVars, cancelVars, sharedVars, mainVars
  <2>2. main' \in {"call", "finish"} => main \in {"call", "finish"}
    BY <1>6 DEF CheckSignal, ReceiveTimeout, RunTool, FinishCall, CheckReply, WriteMessage,
                WriteFails, OsSignal, Return, vars, mainVars
  <2>3. QED BY <2>1, <2>2 DEF ReachInv, Numbered, Claimed, CancellationsReachTheirCall
<1>7. Rest'
  BY <1>2, <1>3, <1>4, <1>5, <1>6 DEF Next, Reader, Dispatcher, Stopped
<1>8. QED BY <1>1, <1>7 DEF ReachInv

\* A cancellation that found a place, read while its call waits or runs, has
\* cancelled that call's token by the time it runs.
THEOREM CancellationsArrive == Spec => []CancellationsReachTheirCall
<1>1. ReachInv /\ [Next]_vars => ReachInv'
  BY NextReach
<1>2. ReachInv => CancellationsReachTheirCall
  BY DEF ReachInv
<1>3. QED BY InitReach, <1>1, <1>2, PTL DEF Spec------------------------------------------------------------------------------
(* Counting.  An entry of the list is a cancellation that no call has used *)
(* yet: it is spent when begin_request takes it out.                       *)
Under(S, i) == {c \in S : c.id = i}

Unspent(i) == IF i \in pending THEN 1 ELSE 0

CountInv ==
    /\ TypeOK
    /\ IsFiniteSet(cancelled)
    /\ \A i \in Ids : Cardinality(Under(cancelled, i)) + Unspent(i) <= notices[i]

(* The calls under an id can be counted.                                   *)
LEMMA UnderCounts ==
  ASSUME NEW S, IsFiniteSet(S), NEW i
  PROVE  IsFiniteSet(Under(S, i)) /\ Cardinality(Under(S, i)) \in Nat
<1>1. Under(S, i) \in SUBSET S
  BY DEF Under
<1>2. IsFiniteSet(Under(S, i))
  BY <1>1, FS_Subset
<1>3. QED BY <1>2, FS_CardinalityType

(* One more counts for its own id only, and at most once.                  *)
LEMMA UnderGrows ==
  ASSUME NEW S, IsFiniteSet(S), NEW c, NEW i
  PROVE  /\ IsFiniteSet(S \cup {c})
         /\ c.id # i => Under(S \cup {c}, i) = Under(S, i)
         /\ Cardinality(Under(S \cup {c}, i)) <= Cardinality(Under(S, i)) + 1
<1>1. IsFiniteSet(S \cup {c})
  BY FS_AddElement
<1>2. c.id # i => Under(S \cup {c}, i) = Under(S, i)
  BY DEF Under
<1>3. c.id = i => Under(S \cup {c}, i) = Under(S, i) \cup {c}
  BY DEF Under
<1>4. IsFiniteSet(Under(S, i)) /\ Cardinality(Under(S, i)) \in Nat
  BY UnderCounts
<1>5. Cardinality(Under(S, i) \cup {c}) =
        IF c \in Under(S, i) THEN Cardinality(Under(S, i)) ELSE Cardinality(Under(S, i)) + 1
  BY <1>4, FS_AddElement
<1>6. Cardinality(Under(S \cup {c}, i)) <= Cardinality(Under(S, i)) + 1
  <2>1. CASE c.id # i
    BY <1>2, <1>4, <2>1
  <2>2. CASE c.id = i
    <3>1. Cardinality(Under(S \cup {c}, i)) = Cardinality(Under(S, i) \cup {c})
      BY <1>3, <2>2
    <3>2. QED BY <1>4, <1>5, <3>1
  <2>3. QED BY <2>1, <2>2
<1>7. QED BY <1>1, <1>2, <1>6

LEMMA InitCount == Init => CountInv
<1>1. SUFFICES ASSUME Init PROVE CountInv
  OBVIOUS
<1>2. IsFiniteSet({}) /\ Cardinality({}) = 0
  BY FS_EmptySet
<1>3. \A i \in Ids : Under(cancelled, i) = {} /\ Unspent(i) = 0 /\ notices[i] = 0
  BY <1>1 DEF Init, Unspent, Under
<1>4. cancelled = {}
  BY <1>1 DEF Init
<1>5. \A i \in Ids : Cardinality(Under(cancelled, i)) + Unspent(i) <= notices[i]
  BY <1>2, <1>3
<1>6. QED BY <1>1, <1>2, <1>4, <1>5, InitTypes DEF CountInv

(* A cancellation read counts once and cancels a call or fills an entry.   *)
LEMMA CancelCount ==
  ASSUME CountInv, NEW i \in Ids, ReadCancellation(i)
  PROVE  CountInv'
<1>1. TypeOK'
  BY CancelTypes DEF CountInv
<1>2. /\ \A j \in Ids : notices[j] \in Nat
      /\ \A j \in Ids : notices'[j] = IF j = i THEN notices[j] + 1 ELSE notices[j]
  BY McpAssumption DEF CountInv, TypeOK, ReadCancellation
<1>3. CASE active.id = i
  <2>1. cancelled' = cancelled \cup {active} /\ pending' = pending
    BY <1>3 DEF ReadCancellation, CancelRequest
  <2>2. IsFiniteSet(cancelled) /\ IsFiniteSet(cancelled')
    BY <2>1, UnderGrows DEF CountInv
  <2>3. ASSUME NEW j \in Ids
        PROVE  Cardinality(Under(cancelled', j)) + Unspent(j)' <= notices'[j]
    <3>1. /\ Cardinality(Under(cancelled, j)) \in Nat /\ Cardinality(Under(cancelled', j)) \in Nat
          /\ j # i => Under(cancelled', j) = Under(cancelled, j)
          /\ Cardinality(Under(cancelled', j)) <= Cardinality(Under(cancelled, j)) + 1
      BY <1>3, <2>1, <2>2, UnderCounts, UnderGrows
    <3>2. Unspent(j)' = Unspent(j) /\ Unspent(j) \in {0, 1}
      BY <2>1 DEF Unspent
    <3>3. Cardinality(Under(cancelled, j)) + Unspent(j) <= notices[j]
      BY DEF CountInv
    <3>4. QED BY <1>2, <3>1, <3>2, <3>3
  <2>4. QED BY <1>1, <2>2, <2>3 DEF CountInv
<1>4. CASE active.id # i
  <2>1. cancelled' = cancelled /\ (pending' = pending \cup {i} \/ pending' = pending)
    BY <1>4 DEF ReadCancellation, CancelRequest, sharedVars
  <2>2. ASSUME NEW j \in Ids
        PROVE  Cardinality(Under(cancelled', j)) + Unspent(j)' <= notices'[j]
    <3>1. Under(cancelled', j) = Under(cancelled, j) /\ Cardinality(Under(cancelled, j)) \in Nat
      BY <2>1, UnderCounts DEF CountInv
    <3>2. /\ Unspent(j) \in {0, 1} /\ Unspent(j)' \in {0, 1}
          /\ j # i => Unspent(j)' = Unspent(j)
      BY <2>1 DEF Unspent
    <3>3. Cardinality(Under(cancelled, j)) + Unspent(j) <= notices[j]
      BY DEF CountInv
    <3>4. QED BY <1>2, <3>1, <3>2, <3>3
  <2>3. QED BY <1>1, <2>1, <2>2 DEF CountInv
<1>5. QED BY <1>3, <1>4

(* begin_request spends the entry on the call it cancels.                  *)
LEMMA BeginCount ==
  ASSUME CountInv, BeginCall
  PROVE  CountInv'
<1> DEFINE e == Head(queue)
<1>1. TypeOK' /\ notices' = notices
  BY BeginTypes DEF CountInv, BeginCall, Receive, cancelVars
<1>2. /\ pending' = pending \ {e.id}
      /\ cancelled' = IF e.id \in pending THEN cancelled \cup {e} ELSE cancelled
  BY DEF BeginCall, BeginRequest
<1> HIDE DEF e
<1>3. IsFiniteSet(cancelled) /\ IsFiniteSet(cancelled')
  BY <1>2, UnderGrows DEF CountInv
<1>4. ASSUME NEW j \in Ids
      PROVE  Cardinality(Under(cancelled', j)) + Unspent(j)' <= notices'[j]
  <2>1. Cardinality(Under(cancelled, j)) \in Nat /\ Cardinality(Under(cancelled', j)) \in Nat
    BY <1>3, UnderCounts
  <2>2. CASE j = e.id /\ j \in pending
    <3>1. Cardinality(Under(cancelled', j)) <= Cardinality(Under(cancelled, j)) + 1
      BY <1>2, <1>3, <2>2, UnderGrows
    <3>2. Unspent(j) = 1 /\ Unspent(j)' = 0
      BY <1>2, <2>2 DEF Unspent
    <3>3. notices[j] \in Nat /\ Cardinality(Under(cancelled, j)) + Unspent(j) <= notices[j]
      BY McpAssumption DEF CountInv, TypeOK
    <3>4. QED BY <1>1, <2>1, <3>1, <3>2, <3>3
  <2>3. CASE ~(j = e.id /\ j \in pending)
    <3>1. Under(cancelled', j) = Under(cancelled, j)
      BY <1>2, <1>3, <2>3, UnderGrows
    <3>2. Unspent(j)' = Unspent(j)
      BY <1>2, <2>3 DEF Unspent
    <3>3. QED BY <1>1, <3>1, <3>2 DEF CountInv
  <2>4. QED BY <2>2, <2>3
<1>5. QED BY <1>1, <1>3, <1>4 DEF CountInv

LEMMA NextCount ==
  ASSUME CountInv, [Next]_vars
  PROVE  CountInv'
<1>1. TypeOK'
  BY NextTypes DEF CountInv
<1>2. ASSUME UNCHANGED <<cancelled, pending, notices>> PROVE CountInv'
  BY <1>1, <1>2 DEF CountInv, Unspent
<1>3. ASSUME ReadLine \/ ReadEnd PROVE CountInv'
  BY <1>2, <1>3 DEF ReadLine, ReadEnd, Send, sharedVars, cancelVars
<1>4. ASSUME ReceiveEnd \/ ReceiveResponse \/ ReceiveNotification
               \/ ReceiveInitialize \/ ReceiveRequest
      PROVE  CountInv'
  BY <1>2, <1>4
     DEF ReceiveEnd, ReceiveResponse, ReceiveNotification, ReceiveInitialize,
         ReceiveRequest, Receive, sharedVars, cancelVars
<1>5. ASSUME CheckSignal \/ ReceiveTimeout \/ RunTool \/ FinishCall \/ CheckReply
               \/ WriteMessage \/ WriteFails \/ OsSignal \/ UNCHANGED vars
      PROVE  CountInv'
  BY <1>2, <1>5
     DEF CheckSignal, ReceiveTimeout, RunTool, FinishCall, CheckReply, WriteMessage,
         WriteFails, OsSignal, vars, cancelVars, sharedVars
<1>6. QED
  BY <1>3, <1>4, <1>5, CancelCount, BeginCount DEF Next, Reader, Dispatcher, Stopped

\* No more calls of an id are cancelled than cancellations of it were read,
\* also when ids are used again and when stale entries stay in the list.
THEOREM CancellationsAreSpentOnce == Spec => []OneCallPerCancellation
<1>1. CountInv /\ [Next]_vars => CountInv'
  BY NextCount
<1>2. CountInv => OneCallPerCancellation
  <2>1. SUFFICES ASSUME CountInv, NEW i \in Ids
                 PROVE  Cardinality(Under(cancelled, i)) <= notices[i]
    BY DEF OneCallPerCancellation, Under
  <2>2. Cardinality(Under(cancelled, i)) \in Nat
    BY <2>1, UnderCounts DEF CountInv
  <2>3. notices[i] \in Nat /\ Unspent(i) \in {0, 1}
        /\ Cardinality(Under(cancelled, i)) + Unspent(i) <= notices[i]
    BY <2>1, McpAssumption DEF CountInv, TypeOK, Unspent
  <2>4. QED BY <2>2, <2>3
<1>3. QED BY InitCount, <1>1, <1>2, PTL DEF Spec------------------------------------------------------------------------------
(* The signal.  The response of a call that only the signal interrupted    *)
(* stops at the check before the write, since the signal is never taken    *)
(* back; a receive or a write that was past its check yields at most one.  *)
Excused ==
    reply = "interrupted" =>
        /\ main \in {"finish", "reply"} => hand \in cancelled \/ signal
        /\ main = "write" => hand \in cancelled

LateWrites ==
    signal => /\ Len(log) <= mark + 1
              /\ main \in {"receive", "write"} => Len(log) <= mark

StopInv == TypeOK /\ Excused /\ InterruptedWereCancelled /\ LateWrites

Quiet == Excused /\ InterruptedWereCancelled /\ LateWrites

LEMMA InitStop == Init => StopInv
BY InitTypes DEF Init, StopInv, Excused, InterruptedWereCancelled, LateWrites

LEMMA ReceiveStop ==
  ASSUME StopInv,
         ReceiveEnd \/ ReceiveResponse \/ ReceiveNotification
           \/ ReceiveInitialize \/ ReceiveRequest \/ BeginCall
  PROVE  Quiet'
<1>1. /\ main = "receive" /\ main' \in {"done", "check", "write", "reply", "call"}
      /\ log' = log /\ signal' = signal /\ mark' = mark /\ cancelled \subseteq cancelled'
  BY DEF ReceiveEnd, ReceiveResponse, ReceiveNotification, ReceiveInitialize,
         ReceiveRequest, BeginCall, BeginRequest, Receive, Return, sharedVars, signalVars
<1>2. main' \in {"write", "reply"} => reply' # "interrupted"
  BY DEF ReceiveEnd, ReceiveResponse, ReceiveNotification, ReceiveInitialize,
         ReceiveRequest, BeginCall, Return, Answer
<1>3. Excused'
  BY <1>1, <1>2 DEF Excused
<1>4. InterruptedWereCancelled'
  BY <1>1 DEF StopInv, InterruptedWereCancelled
<1>5. LateWrites'
  BY <1>1 DEF StopInv, LateWrites, TypeOK
<1>6. QED BY <1>3, <1>4, <1>5 DEF Quiet

LEMMA WorkStop ==
  ASSUME StopInv,
         CheckSignal \/ ReceiveTimeout \/ RunTool \/ FinishCall \/ CheckReply \/ WriteFails
  PROVE  Quiet'
<1>1. UNCHANGED <<log, signal, mark, hand, cancelled>>
  BY DEF CheckSignal, ReceiveTimeout, RunTool, FinishCall, CheckReply, WriteFails,
         signalVars, sharedVars
<1>2. InterruptedWereCancelled'
  BY <1>1 DEF StopInv, InterruptedWereCancelled
<1> USE <1>1 DEF StopInv, Excused, LateWrites, Return
<1>3. CASE CheckSignal
  BY <1>2, <1>3 DEF CheckSignal, Quiet
<1>4. CASE ReceiveTimeout
  BY <1>2, <1>4 DEF ReceiveTimeout, Quiet
<1>5. CASE RunTool
  BY <1>2, <1>5 DEF RunTool, Quiet
<1>6. CASE FinishCall
  BY <1>2, <1>6 DEF FinishCall, Quiet
<1>7. CASE CheckReply
  BY <1>2, <1>7 DEF CheckReply, Quiet
<1>8. CASE WriteFails
  BY <1>2, <1>8 DEF WriteFails, Quiet
<1>9. QED BY <1>3, <1>4, <1>5, <1>6, <1>7, <1>8

LEMMA WriteStop ==
  ASSUME StopInv, WriteMessage
  PROVE  Quiet'
<1>1. /\ main = "write" /\ main' \in {"done", "check"}
      /\ UNCHANGED <<signal, mark, cancelled>>
  BY DEF WriteMessage, Return, signalVars, sharedVars
<1>2. /\ Len(log') = Len(log) + 1 /\ Len(log) \in Nat /\ DOMAIN log' = 1 .. Len(log) + 1
      /\ DOMAIN log = 1 .. Len(log)
      /\ \A k \in 1 .. Len(log) : log'[k] = log[k]
      /\ log'[Len(log) + 1] = [event |-> hand, reply |-> reply]
  BY DEF WriteMessage, StopInv, TypeOK
<1>3. InterruptedWereCancelled'
  <2>1. ASSUME NEW k \in 1 .. Len(log) + 1, log'[k].reply = "interrupted"
        PROVE  log'[k].event \in cancelled
    <3>1. CASE k \in 1 .. Len(log)
      BY <1>2, <2>1, <3>1 DEF StopInv, InterruptedWereCancelled
    <3>2. CASE k = Len(log) + 1
      BY <1>1, <1>2, <2>1, <3>2 DEF StopInv, Excused
    <3>3. QED BY <1>2, <3>1, <3>2
  <2>2. QED BY <1>1, <1>2, <2>1 DEF InterruptedWereCancelled
<1>4. LateWrites'
  BY <1>1, <1>2 DEF StopInv, LateWrites, TypeOK
<1>5. Excused'
  BY <1>1 DEF Excused
<1>6. QED BY <1>3, <1>4, <1>5 DEF Quiet

LEMMA NextStop ==
  ASSUME StopInv, [Next]_vars
  PROVE  StopInv'
<1>1. TypeOK'
  BY NextTypes DEF StopInv
<1>2. ASSUME UNCHANGED <<mainVars, signalVars>>, cancelled \subseteq cancelled' PROVE Quiet'
  BY <1>2 DEF StopInv, Quiet, Excused, InterruptedWereCancelled, LateWrites, mainVars, signalVars
<1>3. ASSUME ReadLine \/ ReadEnd \/ (\E i \in Ids : ReadCancellation(i)) \/ UNCHANGED vars
      PROVE  Quiet'
  <2>1. cancelled \subseteq cancelled'
    BY <1>3 DEF ReadLine, ReadEnd, Send, ReadCancellation, CancelRequest, sharedVars, vars
  <2>2. UNCHANGED <<mainVars, signalVars>>
    BY <1>3 DEF ReadLine, ReadEnd, Send, ReadCancellation, vars
  <2>3. QED BY <1>2, <2>1, <2>2
<1>4. ASSUME OsSignal PROVE Quiet'
  <2>1. UNCHANGED <<mainVars, cancelled>> /\ signal' /\ mark' = Len(log) /\ Len(log) \in Nat
    BY <1>4 DEF OsSignal, sharedVars, StopInv, TypeOK
  <2>2. QED BY <2>1 DEF StopInv, Quiet, Excused, InterruptedWereCancelled, LateWrites, mainVars
<1>5. Quiet'
  BY <1>3, <1>4, ReceiveStop, WorkStop, WriteStop DEF Next, Reader, Dispatcher, Stopped
<1>6. QED BY <1>1, <1>5 DEF StopInv, Quiet

LEMMA StopIsInvariant == Spec => []StopInv
<1>1. StopInv /\ [Next]_vars => StopInv'
  BY NextStop
<1>2. QED BY InitStop, <1>1, PTL DEF Spec

\* Only a call that was itself cancelled is told that it was interrupted.
THEOREM InterruptedResponses == Spec => []InterruptedWereCancelled
<1>1. StopInv => InterruptedWereCancelled
  BY DEF StopInv
<1>2. QED BY StopIsInvariant, <1>1, PTL

\* After the signal at most one more response is written.
THEOREM SignalSilences == Spec => []SignalStopsWriting
<1>1. StopInv => SignalStopsWriting
  BY DEF StopInv, LateWrites, SignalStopsWriting
<1>2. QED BY StopIsInvariant, <1>1, PTL
------------------------------------------------------------------------------
(* The handshake.  The welcome is written before the next line is taken,   *)
(* so a state of the life cycle past the first has one in the log, or in   *)
(* the hand of the dispatcher.                                             *)
Welcomes == {k \in DOMAIN log : log[k].reply = "welcome"}

Welcoming == main \in {"reply", "write"} /\ reply = "welcome"

ShakeInv ==
    /\ TypeOK
    /\ lifecycle = "AwaitingInitialize" => Welcomes = {} /\ ~Welcoming
    /\ Welcoming => Welcomes = {}
    /\ lifecycle # "AwaitingInitialize" /\ ~Welcoming /\ main # "done" => Welcomes # {}
    /\ main \in {"call", "finish"} => lifecycle = "Ready"
    /\ main = "finish" => reply # "welcome"
    /\ \A j, k \in Welcomes : j = k

LEMMA InitShake == Init => ShakeInv
BY InitTypes DEF Init, ShakeInv, Welcomes, Welcoming

LEMMA NextShake ==
  ASSUME ShakeInv, [Next]_vars
  PROVE  ShakeInv'
<1>1. TypeOK'
  BY NextTypes DEF ShakeInv
<1>2. ASSUME UNCHANGED log PROVE Welcomes' = Welcomes
  BY <1>2 DEF Welcomes
<1>3. ASSUME UNCHANGED <<main, reply, lifecycle, log>> PROVE ShakeInv'
  <2>1. Welcoming' = Welcoming
    BY <1>3 DEF Welcoming
  <2>2. QED BY <1>1, <1>2, <1>3, <2>1 DEF ShakeInv
<1>4. ASSUME Reader \/ OsSignal \/ UNCHANGED vars PROVE ShakeInv'
  BY <1>3, <1>4
     DEF Reader, ReadLine, ReadEnd, Send, ReadCancellation, OsSignal, vars, mainVars, lifeVars
<1>5. ASSUME WriteMessage PROVE ShakeInv'
  <2>1. /\ main = "write" /\ main' \in {"done", "check"} /\ lifecycle' = lifecycle
    BY <1>5 DEF WriteMessage, Return, lifeVars
  <2>2. /\ DOMAIN log' = 1 .. Len(log) + 1 /\ DOMAIN log = 1 .. Len(log) /\ Len(log) \in Nat
        /\ \A k \in 1 .. Len(log) : log'[k] = log[k]
        /\ log'[Len(log) + 1].reply = reply
    BY <1>5 DEF WriteMessage, ShakeInv, TypeOK
  <2>3. Welcomes' = IF reply = "welcome" THEN Welcomes \cup {Len(log) + 1} ELSE Welcomes
    BY <2>2 DEF Welcomes
  <2>4. QED BY <1>1, <2>1, <2>3 DEF ShakeInv, Welcoming
<1>6. ASSUME ReceiveEnd \/ ReceiveResponse \/ ReceiveNotification \/ ReceiveRequest
               \/ BeginCall
      PROVE  ShakeInv'
  <2>1. /\ main = "receive" /\ log' = log
        /\ main' \in {"done", "check", "write", "reply", "call"}
        /\ main' = "call" => lifecycle' = "Ready"
        /\ lifecycle' = "AwaitingInitialize" <=> lifecycle = "AwaitingInitialize"
    BY <1>6
       DEF ReceiveEnd, ReceiveResponse, ReceiveNotification, ReceiveRequest, BeginCall,
           Receive, Return, lifeVars
  <2>2. ~Welcoming' /\ ~Welcoming
    BY <1>6, <2>1
       DEF ReceiveEnd, ReceiveResponse, ReceiveNotification, ReceiveRequest, BeginCall,
           Return, Answer, Welcoming
  <2>3. QED BY <1>1, <1>2, <2>1, <2>2 DEF ShakeInv
<1>7. ASSUME ReceiveInitialize PROVE ShakeInv'
  <2>1. main = "receive" /\ main' = "reply" /\ log' = log
    BY <1>7 DEF ReceiveInitialize, Receive
  <2>2. CASE reply' = "welcome"
    <3>1. lifecycle = "AwaitingInitialize" /\ lifecycle' # "AwaitingInitialize"
      BY <1>7, <2>2 DEF ReceiveInitialize
    <3>2. QED BY <1>1, <1>2, <2>1, <2>2, <3>1 DEF ShakeInv, Welcoming
  <2>3. CASE reply' # "welcome"
    <3>1. lifecycle' = lifecycle
      BY <1>7, <2>3 DEF ReceiveInitialize
    <3>2. QED BY <1>1, <1>2, <2>1, <2>3, <3>1 DEF ShakeInv, Welcoming
  <2>4. QED BY <2>2, <2>3
<1>8. ASSUME CheckSignal \/ ReceiveTimeout \/ RunTool \/ FinishCall \/ CheckReply
               \/ WriteFails
      PROVE  ShakeInv'
  <2>1. log' = log /\ lifecycle' = lifecycle
    BY <1>8 DEF CheckSignal, ReceiveTimeout, RunTool, FinishCall, CheckReply, WriteFails,
                lifeVars
  <2>2. CASE CheckSignal \/ ReceiveTimeout
    BY <1>1, <1>2, <2>1, <2>2 DEF CheckSignal, ReceiveTimeout, Return, ShakeInv, Welcoming
  <2>3. CASE RunTool
    BY <1>1, <1>2, <2>1, <2>3 DEF RunTool, ShakeInv, Welcoming
  <2>4. CASE FinishCall
    BY <1>1, <1>2, <2>1, <2>4 DEF FinishCall, ShakeInv, Welcoming
  <2>5. CASE CheckReply \/ WriteFails
    BY <1>1, <1>2, <2>1, <2>5 DEF CheckReply, WriteFails, Return, ShakeInv, Welcoming
  <2>6. QED BY <1>8, <2>2, <2>3, <2>4, <2>5
<1>9. QED BY <1>4, <1>5, <1>6, <1>7, <1>8 DEF Next, Dispatcher, Stopped

\* A tool runs only after the one initialize whose welcome was written.
THEOREM HandshakeComesFirst == Spec => []ToolsRunAfterHandshake
<1>1. ShakeInv /\ [Next]_vars => ShakeInv'
  BY NextShake
<1>2. ShakeInv => ToolsRunAfterHandshake
  <2>1. SUFFICES ASSUME ShakeInv PROVE ToolsRunAfterHandshake
    OBVIOUS
  <2>2. active # NoEvent => main \in {"call", "finish"}
    BY <2>1 DEF ShakeInv, TypeOK
  <2>3. active # NoEvent => Welcomes # {}
    BY <2>1, <2>2 DEF ShakeInv, Welcoming
  <2>4. QED BY <2>1, <2>3 DEF ShakeInv, ToolsRunAfterHandshake, Welcomes
<1>3. QED BY InitShake, <1>1, <1>2, PTL DEF Spec
------------------------------------------------------------------------------
(* Responses.  The requests owed are numbered in the order of reading, and *)
(* so is the channel: the first of it that wants a response is the next    *)
(* one owed.  An end of input is the last event of the channel, so that    *)
(* nothing waits behind the one that ends serve.                           *)
InOrder ==
    /\ \A k \in DOMAIN owed : /\ WantsResponse(owed[k]) /\ owed[k].n <= sent
                              /\ \A j \in 1 .. k - 1 : owed[j].n < owed[k].n
    /\ \A k \in DOMAIN queue : queue[k].kind \in Ends => k = Len(queue) /\ reader = "ended"
    /\ main # "done" => outcome = "none"

AnswerInv == ReachInv /\ InOrder /\ EveryRequestAnsweredInOrder /\ CleanEndAnswersAll

LEMMA InitAnswer == Init => AnswerInv
<1> SUFFICES ASSUME Init PROVE AnswerInv
  OBVIOUS
<1>1. ReachInv
  BY InitReach
<1>2. InOrder
  BY DEF Init, InOrder
<1>3. InHand = <<>> /\ log = <<>> /\ owed = <<>> /\ queue = <<>>
  BY DEF Init, InHand
<1>4. EveryRequestAnsweredInOrder
  BY <1>3 DEF EveryRequestAnsweredInOrder, Begun
<1>5. CleanEndAnswersAll
  BY DEF Init, CleanEndAnswersAll
<1>6. QED BY <1>1, <1>2, <1>4, <1>5 DEF AnswerInv

(* How much has begun, as a number.                                         *)
LEMMA BegunIs ==
  ASSUME TypeOK
  PROVE  /\ InHand = <<>> <=> main \notin {"call", "finish", "reply", "write"}
         /\ Begun = IF main \in {"call", "finish", "reply", "write"} THEN Len(log) + 1
                                                                  ELSE Len(log)
         /\ Len(log) \in Nat /\ Len(owed) \in Nat
<1>1. Len(log) \in Nat /\ Len(owed) \in Nat
  BY DEF TypeOK
<1>2. CASE main \in {"call", "finish", "reply", "write"}
  <2>1. InHand = <<hand>>
    BY <1>2 DEF InHand
  <2>2. QED BY <1>1, <1>2, <2>1 DEF Begun
<1>3. CASE main \notin {"call", "finish", "reply", "write"}
  <2>1. InHand = <<>>
    BY <1>3 DEF InHand
  <2>2. QED BY <1>1, <1>3, <2>1 DEF Begun
<1>4. QED BY <1>2, <1>3

(* What is read joins both ends.                                            *)
LEMMA SendAnswer ==
  ASSUME AnswerInv, NEW k, NEW i, Send(k, i), k \in Ends => reader' = "ended", TypeOK',
         reader' \in {reader, "ended"}
  PROVE  (InOrder /\ EveryRequestAnsweredInOrder /\ CleanEndAnswersAll)'
<1> DEFINE e == [n |-> sent + 1, kind |-> k, id |-> i]
<1>1. /\ main # "done" /\ reader = "reading" /\ sent' = sent + 1 /\ sent \in Nat
      /\ queue' = Append(queue, e) /\ queue \in Seq(Event)
      /\ owed' = IF WantsResponse(e) THEN Append(owed, e) ELSE owed
      /\ owed \in Seq(Event)
      /\ UNCHANGED <<log, main, hand, outcome, disconnect>>
  BY DEF Send, AnswerInv, ReachInv, TypeOK, mainVars, lifeVars
<1>2. e.n = sent + 1 /\ e.kind = k
  OBVIOUS
<1> HIDE DEF e
<1>3. /\ DOMAIN queue' = 1 .. Len(queue) + 1 /\ queue'[Len(queue) + 1] = e
      /\ DOMAIN queue = 1 .. Len(queue) /\ Len(queue) \in Nat /\ Len(queue') = Len(queue) + 1
      /\ \A m \in DOMAIN queue : queue'[m] = queue[m]
  BY <1>1
<1>4. /\ DOMAIN owed = 1 .. Len(owed) /\ Len(owed) \in Nat
      /\ \A m \in DOMAIN owed : owed'[m] = owed[m] /\ owed[m].n \in Nat
      /\ WantsResponse(e) => /\ DOMAIN owed' = 1 .. Len(owed) + 1 /\ Len(owed') = Len(owed) + 1
                             /\ owed'[Len(owed) + 1] = e
      /\ ~WantsResponse(e) => owed' = owed
  <2>1. \A x \in Event : x.n \in Nat
    BY McpAssumption DEF Event
  <2>2. QED BY <1>1, <2>1
<1>5. outcome' = "none"
  BY <1>1 DEF AnswerInv, InOrder
<1>6. \A m \in DOMAIN queue : queue[m].kind \notin Ends
  BY <1>1 DEF AnswerInv, InOrder
<1>7. InOrder'
  <2>1. ASSUME NEW m \in DOMAIN owed'
        PROVE  /\ WantsResponse(owed'[m]) /\ owed'[m].n <= sent'
               /\ \A j \in 1 .. m - 1 : owed'[j].n < owed'[m].n
    <3>1. CASE m \in DOMAIN owed
      <4>1. /\ WantsResponse(owed[m]) /\ owed[m].n <= sent
            /\ \A j \in 1 .. m - 1 : owed[j].n < owed[m].n
        BY <3>1 DEF AnswerInv, InOrder
      <4>2. \A j \in 1 .. m - 1 : owed'[j] = owed[j]
        BY <1>4, <3>1
      <4>3. owed'[m] = owed[m] /\ owed[m].n \in Nat
        BY <1>4, <3>1
      <4>4. owed'[m].n <= sent' /\ \A j \in 1 .. m - 1 : owed'[j].n < owed'[m].n
        BY <1>1, <4>1, <4>2, <4>3
      <4>5. QED BY <4>1, <4>3, <4>4 DEF WantsResponse
    <3>2. CASE m \notin DOMAIN owed
      <4>1. WantsResponse(e) /\ m = Len(owed) + 1 /\ owed'[m] = e
        BY <1>4, <3>2
      <4>2. \A j \in 1 .. m - 1 : owed'[j] = owed[j] /\ owed[j].n <= sent /\ owed[j].n \in Nat
        BY <1>4, <4>1 DEF AnswerInv, InOrder
      <4>3. QED BY <1>1, <1>2, <4>1, <4>2
    <3>3. QED BY <3>1, <3>2
  <2>2. \A m \in DOMAIN queue' : queue'[m].kind \in Ends => m = Len(queue') /\ reader' = "ended"
    BY <1>2, <1>3, <1>6
  <2>3. QED BY <1>5, <2>1, <2>2 DEF InOrder, WantsResponse
<1>8. EveryRequestAnsweredInOrder'
  <2>1. /\ Begun <= Len(owed)
        /\ \A m \in DOMAIN log : log[m].event = owed[m]
        /\ InHand # <<>> => owed[Begun] = hand
        /\ {owed[m] : m \in Begun + 1 .. Len(owed)}
             = {x \in {queue[m] : m \in DOMAIN queue} : WantsResponse(x)}
    BY <1>1 DEF AnswerInv, EveryRequestAnsweredInOrder
  <2>2. InHand' = InHand /\ Begun' = Begun
    BY <1>1 DEF InHand, Begun
  <2>3. Begun \in Nat /\ Begun >= Len(log) /\ (InHand # <<>> => Begun \in DOMAIN owed)
        /\ DOMAIN log \subseteq DOMAIN owed
    <3>1. DOMAIN log = 1 .. Len(log)
      BY DEF AnswerInv, ReachInv, TypeOK
    <3>2. QED BY <1>4, <2>1, <3>1, BegunIs DEF AnswerInv, ReachInv
  <2>4. {x \in {queue'[m] : m \in DOMAIN queue'} : WantsResponse(x)}
          = {x \in {queue[m] : m \in DOMAIN queue} : WantsResponse(x)}
              \cup {x \in {e} : WantsResponse(x)}
    <3>1. {queue'[m] : m \in DOMAIN queue'} = {queue[m] : m \in DOMAIN queue} \cup {e}
      BY <1>3
    <3>2. QED BY <3>1
  <2>5. {owed'[m] : m \in Begun + 1 .. Len(owed')}
          = {owed[m] : m \in Begun + 1 .. Len(owed)} \cup {x \in {e} : WantsResponse(x)}
    <3>1. CASE WantsResponse(e)
      <4>1. Begun + 1 .. Len(owed') = (Begun + 1 .. Len(owed)) \cup {Len(owed) + 1}
        BY <1>4, <2>1, <2>3, <3>1
      <4>2. \A m \in Begun + 1 .. Len(owed) : owed'[m] = owed[m]
        BY <1>4, <2>3
      <4>3. QED BY <1>4, <3>1, <4>1, <4>2
    <3>2. CASE ~WantsResponse(e)
      BY <1>4, <3>2
    <3>3. QED BY <3>1, <3>2
  <2>6. Begun <= Len(owed')
    BY <1>4, <2>1, <2>3
  <2>7. \A m \in DOMAIN log : log[m].event = owed'[m]
    BY <1>4, <2>1, <2>3
  <2>8. InHand # <<>> => owed'[Begun] = hand
    BY <1>4, <2>1, <2>3
  <2>9. log' = log /\ hand' = hand
    BY <1>1
  <2>10. QED
    BY <2>1, <2>2, <2>4, <2>5, <2>6, <2>7, <2>8, <2>9 DEF EveryRequestAnsweredInOrder, WantsResponse
<1>9. CleanEndAnswersAll'
  BY <1>5 DEF CleanEndAnswersAll
<1>10. QED BY <1>7, <1>8, <1>9

(* Steps that read, take and write nothing.                                 *)
LEMMA QuietAnswer ==
  ASSUME AnswerInv,
         (\E i \in Ids : ReadCancellation(i)) \/ CheckSignal \/ ReceiveTimeout \/ RunTool
           \/ FinishCall \/ CheckReply \/ WriteFails \/ OsSignal \/ UNCHANGED vars
  PROVE  (InOrder /\ EveryRequestAnsweredInOrder /\ CleanEndAnswersAll)'
<1>1. UNCHANGED <<log, owed, queue, hand, sent, reader, disconnect>>
  BY DEF ReadCancellation, CheckSignal, ReceiveTimeout, RunTool, FinishCall, CheckReply, WriteFails,
         OsSignal, vars, readerVars, mainVars, lifeVars
<1>2. main # "done" /\ main' # "done" => UNCHANGED outcome /\ InHand' = InHand
  BY <1>1 DEF ReadCancellation, CheckSignal, ReceiveTimeout, RunTool, FinishCall, CheckReply,
         WriteFails, OsSignal, vars, mainVars, Return, InHand
<1>3. main' = "done" => UNCHANGED outcome \/ outcome' # "ok"
  BY DEF ReadCancellation, CheckSignal, ReceiveTimeout, RunTool, FinishCall, CheckReply,
         WriteFails, OsSignal, vars, mainVars, Return
<1>4. main = "done" => main' = "done"
  BY DEF ReadCancellation, CheckSignal, ReceiveTimeout, RunTool, FinishCall, CheckReply,
         WriteFails, OsSignal, vars, mainVars
<1>5. InOrder'
  BY <1>1, <1>2, <1>4 DEF AnswerInv, InOrder, WantsResponse
<1>6. EveryRequestAnsweredInOrder'
  <2>1. CASE main' = "done"
    BY <2>1 DEF EveryRequestAnsweredInOrder
  <2>2. CASE main' # "done"
    <3>1. main # "done" /\ InHand' = InHand /\ Begun' = Begun
      BY <1>1, <1>2, <1>4, <2>2 DEF Begun
    <3>2. QED BY <1>1, <3>1 DEF AnswerInv, EveryRequestAnsweredInOrder, WantsResponse
  <2>3. QED BY <2>1, <2>2
<1>7. CleanEndAnswersAll'
  <2>1. UNCHANGED outcome \/ outcome' # "ok"
    BY <1>2, <1>3, <1>4
  <2>2. Answered' = Answered
    BY <1>1 DEF Answered
  <2>3. QED BY <1>1, <2>1, <2>2 DEF AnswerInv, CleanEndAnswersAll
<1>8. QED BY <1>5, <1>6, <1>7

(* What is written is what was in hand: the next of those owed.             *)
LEMMA WriteAnswer ==
  ASSUME AnswerInv, WriteMessage
  PROVE  (InOrder /\ EveryRequestAnsweredInOrder /\ CleanEndAnswersAll)'
<1>1. /\ main = "write" /\ main' \in {"done", "check"}
      /\ main' = "check" => outcome' = outcome
      /\ main' = "done" => disconnect
      /\ UNCHANGED <<owed, queue, hand, sent, reader, disconnect>>
      /\ log' = Append(log, [event |-> hand, reply |-> reply])
  BY DEF WriteMessage, Return, readerVars, lifeVars
<1>2. /\ DOMAIN log' = DOMAIN log \cup {Len(log) + 1} /\ Len(log') = Len(log) + 1
      /\ DOMAIN log = 1 .. Len(log) /\ Len(log) \in Nat
      /\ \A k \in DOMAIN log : log'[k] = log[k]
      /\ log'[Len(log) + 1].event = hand
  BY <1>1 DEF AnswerInv, ReachInv, TypeOK
<1>3. InHand # <<>> /\ Begun = Len(log) + 1
  BY <1>1, BegunIs DEF AnswerInv, ReachInv
<1>4. /\ Begun <= Len(owed)
      /\ \A k \in DOMAIN log : log[k].event = owed[k]
      /\ owed[Begun] = hand
      /\ {owed[k] : k \in Begun + 1 .. Len(owed)}
           = {e \in {queue[k] : k \in DOMAIN queue} : WantsResponse(e)}
  BY <1>1, <1>3 DEF AnswerInv, EveryRequestAnsweredInOrder
<1>5. InHand' = <<>> /\ Begun' = Begun
  <2>1. InHand' = <<>>
    BY <1>1 DEF InHand
  <2>2. QED BY <1>2, <1>3, <2>1 DEF Begun
<1>6. \A k \in DOMAIN log' : log'[k].event = owed[k]
  BY <1>2, <1>3, <1>4
<1>7. EveryRequestAnsweredInOrder'
  BY <1>1, <1>4, <1>5, <1>6 DEF EveryRequestAnsweredInOrder, WantsResponse
<1>8. InOrder'
  BY <1>1 DEF AnswerInv, InOrder, WantsResponse
<1>9. CleanEndAnswersAll'
  BY <1>1 DEF AnswerInv, InOrder, CleanEndAnswersAll
<1>10. QED BY <1>7, <1>8, <1>9

(* What is received is the first of the channel.  If it wants a response it *)
(* is the next of those owed, because nothing owed has a smaller number.    *)
LEMMA ReceiveAnswer ==
  ASSUME AnswerInv, NEW kinds, Receive(kinds), UNCHANGED <<owed, sent, reader, log>>
  PROVE  /\ main = "receive" /\ Begun = Len(log) /\ queue # <<>> /\ outcome = "none"
         /\ \A k \in DOMAIN queue' :
              queue'[k].kind \in Ends => k = Len(queue') /\ reader' = "ended"
         /\ WantsResponse(Head(queue)) =>
              /\ Begun + 1 <= Len(owed) /\ owed[Begun + 1] = Head(queue)
              /\ {owed[k] : k \in Begun + 2 .. Len(owed)}
                   = {e \in {queue'[k] : k \in DOMAIN queue'} : WantsResponse(e)}
         /\ ~WantsResponse(Head(queue)) =>
              {owed[k] : k \in Begun + 1 .. Len(owed)}
                = {e \in {queue'[k] : k \in DOMAIN queue'} : WantsResponse(e)}
         /\ Head(queue).kind \in Ends => Begun = Len(owed)
<1> DEFINE h == Head(queue)
<1>1. /\ main = "receive" /\ queue # <<>> /\ queue \in Seq(Event) /\ h \in Event
      /\ h = queue[1] /\ Len(queue') = Len(queue) - 1 /\ queue' \in Seq(Event)
      /\ \A k \in 1 .. Len(queue') : queue'[k] = queue[k + 1]
  BY ReceivedIsEvent DEF Receive, AnswerInv, ReachInv, TypeOK
<1>2. Begun = Len(log) /\ InHand = <<>> /\ Len(log) \in Nat /\ Len(owed) \in Nat
      /\ DOMAIN owed = 1 .. Len(owed)
  BY <1>1, BegunIs DEF AnswerInv, ReachInv, TypeOK
<1>3. /\ Begun <= Len(owed)
      /\ {owed[k] : k \in Begun + 1 .. Len(owed)}
           = {e \in {queue[k] : k \in DOMAIN queue} : WantsResponse(e)}
  BY <1>1 DEF AnswerInv, EveryRequestAnsweredInOrder
<1>4. outcome = "none"
  BY <1>1 DEF AnswerInv, InOrder
<1>5. /\ DOMAIN queue = 1 .. Len(queue) /\ DOMAIN queue' = 1 .. Len(queue')
      /\ Len(queue) \in Nat /\ Len(queue) > 0
  BY <1>1
<1>6. \A k \in DOMAIN queue' :
         queue'[k].kind \in Ends => k = Len(queue') /\ reader' = "ended"
  BY <1>1, <1>5 DEF AnswerInv, InOrder
<1>7. \A k \in DOMAIN queue' : queue'[k].n > h.n
  <2>1. \A x \in Event : x.n \in Nat
    BY McpAssumption DEF Event
  <2>2. \A k \in 2 .. Len(queue) : queue[1].n < queue[k].n
    BY <1>5 DEF AnswerInv, ReachInv, Numbered
  <2>3. \A k \in DOMAIN queue' : k + 1 \in 2 .. Len(queue)
    BY <1>1, <1>5
  <2>4. QED BY <1>1, <1>5, <2>1, <2>2, <2>3
<1>8. {queue[k] : k \in DOMAIN queue} = {h} \cup {queue'[k] : k \in DOMAIN queue'}
  <2>1. ASSUME NEW k \in DOMAIN queue PROVE k = 1 \/ (k - 1 \in DOMAIN queue' /\ queue[k] = queue'[k - 1])
    BY <1>1, <1>5
  <2>2. \A k \in DOMAIN queue' : k + 1 \in DOMAIN queue /\ queue'[k] = queue[k + 1]
    BY <1>1, <1>5
  <2>3. 1 \in DOMAIN queue
    BY <1>5
  <2> DEFINE Q == {queue[k] : k \in DOMAIN queue}
             R == {queue'[k] : k \in DOMAIN queue'}
  <2>4. Q \subseteq {h} \cup R
    BY <1>1, <2>1
  <2>5. h \in Q
    BY <1>1, <2>3
  <2>6. R \subseteq Q
    BY <2>2
  <2> HIDE DEF Q, R
  <2>7. Q = {h} \cup R
    BY <2>4, <2>5, <2>6
  <2>8. QED BY <2>7 DEF Q, R
<1>9. h.n \in Nat
  BY <1>1, McpAssumption DEF Event
<1> HIDE DEF h
<1> DEFINE Owed(m) == {owed[k] : k \in m .. Len(owed)}
           Waiting == {e \in {queue'[k] : k \in DOMAIN queue'} : WantsResponse(e)}
<1>10. ASSUME WantsResponse(h)
       PROVE  /\ Begun + 1 <= Len(owed) /\ owed[Begun + 1] = h
              /\ Owed(Begun + 2) = Waiting
  <2>1. Owed(Begun + 1) = {h} \cup Waiting
    BY <1>3, <1>8, <1>10
  <2>2. PICK m \in Begun + 1 .. Len(owed) : owed[m] = h
    BY <2>1
  <2>3. \A k \in Begun + 1 .. Len(owed) : owed[k] = h \/ owed[k].n > h.n
    BY <1>7, <2>1
  <2>4. \A k \in Begun + 1 .. Len(owed) : k < m => owed[k].n < h.n
    BY <1>2, <2>2 DEF AnswerInv, InOrder
  <2>5. \A k \in Begun + 1 .. Len(owed) : k > m => h.n < owed[k].n
    BY <1>2, <2>2 DEF AnswerInv, InOrder
  <2>6. \A k \in Begun + 1 .. Len(owed) : owed[k].n \in Nat
    <3>1. owed \in Seq(Event) /\ \A x \in Event : x.n \in Nat
      BY McpAssumption DEF AnswerInv, ReachInv, TypeOK, Event
    <3>2. QED BY <1>2, <3>1
  <2>7. m = Begun + 1
    <3>1. SUFFICES ASSUME m # Begun + 1 PROVE FALSE
      OBVIOUS
    <3>2. Begun + 1 \in Begun + 1 .. Len(owed) /\ Begun + 1 < m
      BY <1>2, <2>2, <3>1
    <3>3. owed[Begun + 1].n < h.n /\ (owed[Begun + 1] = h \/ owed[Begun + 1].n > h.n)
      BY <2>3, <2>4, <3>2
    <3>4. QED BY <1>9, <2>6, <3>2, <3>3
  <2>8. Begun + 1 .. Len(owed) = {Begun + 1} \cup (Begun + 2 .. Len(owed))
    BY <1>2, <2>2
  <2>9. Owed(Begun + 1) = {h} \cup Owed(Begun + 2)
    BY <2>2, <2>7, <2>8
  <2>10. h \notin Owed(Begun + 2)
    <3>1. \A k \in Begun + 2 .. Len(owed) : k > m /\ k \in Begun + 1 .. Len(owed)
      BY <1>2, <2>7
    <3>2. \A k \in Begun + 2 .. Len(owed) : h.n < owed[k].n
      BY <2>5, <3>1
    <3>3. QED BY <1>9, <3>2
  <2>11. h \notin Waiting
    BY <1>7, <1>9
  <2>12. Owed(Begun + 2) = Waiting
    <3> HIDE DEF Owed, Waiting
    <3>1. QED BY <2>1, <2>9, <2>10, <2>11
  <2>13. QED BY <1>2, <2>2, <2>7, <2>12
<1>11. ASSUME ~WantsResponse(h) PROVE Owed(Begun + 1) = Waiting
  BY <1>3, <1>8, <1>11
<1>12. ASSUME h.kind \in Ends PROVE Begun = Len(owed)
  <2>1. Len(queue) = 1
    BY <1>1, <1>5, <1>12 DEF AnswerInv, InOrder
  <2>2. DOMAIN queue' = {}
    BY <1>1, <1>5, <2>1
  <2>3. ~WantsResponse(h)
    BY <1>12 DEF WantsResponse, Ends, Requests
  <2>4. Owed(Begun + 1) = {}
    BY <1>11, <2>2, <2>3
  <2>5. Begun \in Nat /\ ~(Begun + 1 <= Len(owed))
    <3>1. Begun \in Nat
      BY <1>2
    <3>2. ASSUME Begun + 1 <= Len(owed) PROVE FALSE
      <4>1. Begun + 1 \in Begun + 1 .. Len(owed)
        BY <1>2, <3>1, <3>2
      <4>2. owed[Begun + 1] \in Owed(Begun + 1)
        BY <4>1
      <4>3. QED BY <2>4, <4>2
    <3>3. QED BY <3>1, <3>2
  <2>6. Begun <= Len(owed)
    BY <1>3, Zenon
  <2>7. Len(owed) \in Nat
    BY <1>2
  <2>8. QED BY <2>5, <2>6, <2>7
<1>13. QED BY <1>1, <1>2, <1>4, <1>6, <1>10, <1>11, <1>12 DEF h

LEMMA NextAnswer ==
  ASSUME AnswerInv, [Next]_vars
  PROVE  AnswerInv'
<1> DEFINE Rest == InOrder /\ EveryRequestAnsweredInOrder /\ CleanEndAnswersAll
<1>1. ReachInv' /\ TypeOK'
  BY NextReach DEF AnswerInv, ReachInv
<1>2. ASSUME ReadLine PROVE Rest'
  <2>1. PICK l \in Lines : Send(l.kind, l.id) /\ UNCHANGED reader
    BY <1>2 DEF ReadLine
  <2>2. l.kind \notin Ends
    BY McpAssumption DEF Ends, Kinds, Silent, Requests
  <2>3. QED BY <1>1, <2>1, <2>2, SendAnswer
<1>3. ASSUME ReadEnd PROVE Rest'
  <2>1. PICK k \in Ends : Send(k, Null) /\ reader' = "ended"
    BY <1>3 DEF ReadEnd
  <2>2. QED BY <1>1, <2>1, SendAnswer
<1>4. ASSUME ReceiveEnd PROVE Rest'
  <2>1. /\ Receive(Ends) /\ Head(queue).kind \in Ends /\ main' = "done"
        /\ UNCHANGED <<owed, sent, reader, log>>
    BY <1>4 DEF ReceiveEnd, Receive, Return, readerVars
  <2>2. /\ Begun = Len(log) /\ Begun = Len(owed)
        /\ \A k \in DOMAIN queue' :
             queue'[k].kind \in Ends => k = Len(queue') /\ reader' = "ended"
    BY <2>1, ReceiveAnswer
  <2>3. InOrder'
    BY <2>1, <2>2 DEF AnswerInv, InOrder, WantsResponse
  <2>4. EveryRequestAnsweredInOrder'
    BY <2>1 DEF EveryRequestAnsweredInOrder
  <2>5. Answered = owed
    <3>1. \A k \in DOMAIN log : log[k].event = owed[k]
      BY <2>1 DEF AnswerInv, EveryRequestAnsweredInOrder, Receive
    <3>2. log \in Seq([event : Event, reply : Replies]) /\ owed \in Seq(Event)
      BY DEF AnswerInv, ReachInv, TypeOK
    <3>3. DOMAIN log = DOMAIN owed
      <4>1. DOMAIN log = 1 .. Len(log) /\ DOMAIN owed = 1 .. Len(owed)
        BY <3>2
      <4>2. Len(log) = Len(owed)
        BY <2>2, Zenon
      <4>3. QED BY <4>1, <4>2
    <3>4. owed = [k \in DOMAIN owed |-> owed[k]]
      BY <3>2
    <3>5. QED BY <3>1, <3>3, <3>4 DEF Answered
  <2>6. CleanEndAnswersAll'
    BY <2>1, <2>5 DEF CleanEndAnswersAll, Answered
  <2>7. QED BY <2>3, <2>4, <2>6
<1>5. ASSUME ReceiveNotification PROVE Rest'
  <2>1. /\ Receive(Silent) /\ ~WantsResponse(Head(queue)) /\ main' = "check"
        /\ UNCHANGED <<owed, sent, reader, log, outcome>>
    BY <1>5 DEF ReceiveNotification, Receive, readerVars, WantsResponse, Silent, Requests
  <2>2. InHand' = <<>> /\ Begun' = Len(log)
    <3>1. InHand' = <<>>
      BY <2>1 DEF InHand
    <3>2. QED BY <2>1, <3>1 DEF Begun, AnswerInv, ReachInv, TypeOK
  <2>3. /\ Begun = Len(log) /\ main # "done" /\ outcome = "none"
        /\ \A k \in DOMAIN queue' :
             queue'[k].kind \in Ends => k = Len(queue') /\ reader' = "ended"
        /\ {owed[k] : k \in Begun + 1 .. Len(owed)}
             = {e \in {queue'[k] : k \in DOMAIN queue'} : WantsResponse(e)}
    BY <2>1, ReceiveAnswer
  <2>4. InOrder'
    BY <2>1, <2>3 DEF AnswerInv, InOrder, WantsResponse
  <2>5. EveryRequestAnsweredInOrder'
    BY <2>1, <2>2, <2>3 DEF AnswerInv, EveryRequestAnsweredInOrder, WantsResponse
  <2>6. CleanEndAnswersAll'
    BY <2>1, <2>3 DEF CleanEndAnswersAll
  <2>7. QED BY <2>4, <2>5, <2>6
<1>6. ASSUME ReceiveResponse \/ ReceiveInitialize \/ ReceiveRequest \/ BeginCall PROVE Rest'
  <2>1. PICK kinds \in SUBSET (Requests \cup {"unparsable"}) : Receive(kinds)
    BY <1>6 DEF ReceiveResponse, ReceiveInitialize, ReceiveRequest, BeginCall, Requests
  <2>2. /\ WantsResponse(Head(queue)) /\ main' \in {"call", "reply", "write"}
        /\ hand' = Head(queue) /\ UNCHANGED <<owed, sent, reader, log, outcome>>
    BY <1>6, <2>1 DEF ReceiveResponse, ReceiveInitialize, ReceiveRequest, BeginCall, Receive,
                      readerVars, WantsResponse
  <2>3. /\ Begun = Len(log) /\ main # "done" /\ outcome = "none"
        /\ \A k \in DOMAIN queue' :
             queue'[k].kind \in Ends => k = Len(queue') /\ reader' = "ended"
        /\ Begun + 1 <= Len(owed) /\ owed[Begun + 1] = Head(queue)
        /\ {owed[k] : k \in Begun + 2 .. Len(owed)}
             = {e \in {queue'[k] : k \in DOMAIN queue'} : WantsResponse(e)}
    BY <2>1, <2>2, ReceiveAnswer
  <2>4. InHand' # <<>> /\ Begun' = Len(log) + 1
    <3>1. InHand' = <<hand'>>
      BY <2>2 DEF InHand
    <3>2. QED BY <2>2, <3>1 DEF Begun
  <2>5. Begun' = Begun + 1 /\ Begun' + 1 = Begun + 2
    BY <2>3, <2>4 DEF AnswerInv, ReachInv, TypeOK
  <2>6. InOrder'
    BY <2>2, <2>3 DEF AnswerInv, InOrder, WantsResponse
  <2>7. \A k \in DOMAIN log : log[k].event = owed[k]
    BY <2>3 DEF AnswerInv, EveryRequestAnsweredInOrder
  <2>8. EveryRequestAnsweredInOrder'
    BY <2>2, <2>3, <2>5, <2>7 DEF EveryRequestAnsweredInOrder, WantsResponse
  <2>9. CleanEndAnswersAll'
    BY <2>2, <2>3 DEF CleanEndAnswersAll
  <2>10. QED BY <2>6, <2>8, <2>9
<1>7. Rest'
  BY <1>2, <1>3, <1>4, <1>5, <1>6, QuietAnswer, WriteAnswer DEF Next, Reader, Dispatcher, Stopped
<1>8. QED BY <1>1, <1>7 DEF AnswerInv

LEMMA AnswersInvariant == Spec => []AnswerInv
<1>1. AnswerInv /\ [Next]_vars => AnswerInv'
  BY NextAnswer
<1>2. QED BY InitAnswer, <1>1, PTL DEF Spec

\* Responses are written in the order in which the requests were read, none
\* lost, repeated or overtaken, for as long as the server runs.
THEOREM RequestsAreAnsweredInOrder == Spec => []EveryRequestAnsweredInOrder
<1>1. AnswerInv => EveryRequestAnsweredInOrder
  BY DEF AnswerInv
<1>2. QED BY <1>1, AnswersInvariant, PTL

\* A session is consistent at every moment: its cancellations are spent once,
\* only what was cancelled is told so, nothing runs before the handshake, and
\* an Ok of serve leaves no request unanswered.
THEOREM SessionsAreConsistent == Spec => []ServerConsistent
<1>1. AnswerInv => CleanEndAnswersAll
  BY DEF AnswerInv
<1>2. TypeOK /\ OneCallPerCancellation /\ InterruptedWereCancelled
        /\ CleanEndAnswersAll /\ ToolsRunAfterHandshake => ServerConsistent
  BY DEF ServerConsistent
<1>3. QED
  BY <1>1, <1>2, AnswersInvariant, McpTypes, CancellationsAreSpentOnce, InterruptedResponses,
     HandshakeComesFirst, PTL
==============================================================================
