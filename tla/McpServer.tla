------------------------------ MODULE McpServer ------------------------------
(***************************************************************************)
(* The MCP server on standard input and output (mcp/protocol.rs).  Two     *)
(* threads: the reader turns lines into events of an unbounded channel,    *)
(* except a cancellation, which it applies at once to the state both       *)
(* threads share (InFlightState, behind a mutex); the dispatcher takes one *)
(* event at a time, runs it to its end and writes its response.  A line is *)
(* abstracted to its kind and the id it carries, a tool to its outcome.    *)
(***************************************************************************)
EXTENDS Naturals, Sequences, FiniteSets

CONSTANTS
    Ids,         \* request ids a client uses, each perhaps more than once
    Null,        \* the id of a line that carries none
    Lines,       \* the lines that may come, cancellations apart
    MaxPending,  \* MAX_PENDING_CANCELLATIONS
    MaxLines,    \* bound: events the reader sends
    MaxCancels   \* bound: cancellations it reads for each id

\* What a line is once read_bounded_line, the parser and the first checks of
\* handle_request are done with it.
Silent   == {"initialized", "note"}
Requests == {"malformed", "ping", "initialize", "badInitialize", "list",
             "call", "unknown"}
Kinds    == Silent \cup Requests \cup {"unparsable"}
Ends     == {"eof", "failure"}

ASSUME McpAssumption ==
    /\ Null \notin Ids
    /\ IsFiniteSet(Ids)
    /\ Lines \subseteq [kind : Kinds, id : Ids \cup {Null}]
    /\ \A l \in Lines : l.kind = "call" => l.id \in Ids
    /\ MaxPending \in Nat
    /\ MaxLines \in Nat
    /\ MaxCancels \in Nat

VARIABLES
    reader,     \* the reader thread: "reading" or "ended"
    sent,       \* how many events it has sent
    queue,      \* the events sent and not yet received
    active,     \* InFlightState.active: the call that runs, or NoEvent
    pending,    \* InFlightState.pending_cancellations, free of duplicates
    cancelled,  \* the calls whose own token is cancelled
    signal,     \* the token of the process, set by SIGINT or SIGTERM
    lifecycle,  \* Lifecycle.state
    disconnect, \* Lifecycle.disconnect
    main,       \* where the dispatcher stands
    hand,       \* the event it works on
    reply,      \* the response it made for it
    outcome,    \* what serve returned
    log,        \* the responses written, with the event each one answers
    owed,       \* history: the events that want a response, as read
    notices,    \* history: how many cancellations of each id were read
    heard,      \* history: the calls next to run, or running, under an id
                \*          when a cancellation of it was read
    refused,    \* history: those of them the full list had no room for
    mark        \* history: the length of the log at the signal

readerVars == <<reader, sent, owed>>
cancelVars == <<notices, heard, refused>>
sharedVars == <<active, pending, cancelled>>
lifeVars   == <<lifecycle, disconnect>>
mainVars   == <<main, hand, reply, outcome, log>>
signalVars == <<signal, mark>>
vars == <<readerVars, cancelVars, sharedVars, lifeVars, mainVars, signalVars, queue>>

NoEvent == [n |-> 0, kind |-> "none", id |-> Null]
Event   == {e \in [n : 1 .. MaxLines, kind : Kinds \cup Ends, id : Ids \cup {Null}] :
                e.kind = "call" => e.id \in Ids}
Call    == {e \in Event : e.kind = "call"}
Replies == {"welcome", "result", "interrupted", "error", "notReady"}
Places  == {"check", "receive", "call", "finish", "reply", "write", "done"}

Init ==
    /\ reader = "reading" /\ sent = 0 /\ owed = <<>>
    /\ notices = [i \in Ids |-> 0] /\ heard = {} /\ refused = {}
    /\ active = NoEvent /\ pending = {} /\ cancelled = {}
    /\ lifecycle = "AwaitingInitialize" /\ disconnect = FALSE
    /\ main = "check" /\ hand = NoEvent /\ reply = "error"
    /\ outcome = "none" /\ log = <<>>
    /\ signal = FALSE /\ mark = 0
    /\ queue = <<>>
------------------------------------------------------------------------------
(* The reader thread (read_messages).  Once serve has returned, the process *)
(* is gone and the thread with it.                                          *)

WantsResponse(e) == e.kind \in Requests \cup {"unparsable"}

Send(kind, id) ==
    LET e == [n |-> sent + 1, kind |-> kind, id |-> id]
    IN  /\ main # "done" /\ reader = "reading" /\ sent < MaxLines
        /\ sent' = sent + 1
        /\ queue' = Append(queue, e)
        /\ owed' = IF WantsResponse(e) THEN Append(owed, e) ELSE owed
        /\ UNCHANGED <<cancelVars, sharedVars, lifeVars, mainVars, signalVars>>

\* A line that is too long or does not parse is an event too: its response
\* takes its turn behind the requests read before it.
ReadLine == \E l \in Lines : Send(l.kind, l.id) /\ UNCHANGED reader

ReadEnd == \E end \in Ends : Send(end, Null) /\ reader' = "ended"

\* The queued call that begin_request reaches first under this id.
NextUnder(i) ==
    {queue[k] : k \in {k \in DOMAIN queue :
        /\ queue[k].kind = "call" /\ queue[k].id = i
        /\ \A j \in 1 .. k - 1 : ~(queue[j].kind = "call" /\ queue[j].id = i)}}

\* cancel_request: one critical section of the mutex.
CancelRequest(i) ==
    \/ /\ active.id = i
       /\ cancelled' = cancelled \cup {active}
       /\ heard' = heard \cup {active}
       /\ refused' = refused \ {active}
       /\ UNCHANGED <<active, pending>>
    \/ /\ active.id # i
       /\ i \in pending \/ Cardinality(pending) < MaxPending
       /\ pending' = pending \cup {i}
       /\ heard' = heard \cup NextUnder(i)
       /\ refused' = refused \ NextUnder(i)
       /\ UNCHANGED <<active, cancelled>>
    \/ /\ active.id # i
       /\ i \notin pending /\ Cardinality(pending) >= MaxPending
       /\ heard' = heard \cup NextUnder(i)
       /\ refused' = refused \cup NextUnder(i)
       /\ UNCHANGED sharedVars

ReadCancellation(i) ==
    /\ main # "done" /\ reader = "reading" /\ notices[i] < MaxCancels
    /\ notices' = [notices EXCEPT ![i] = @ + 1]
    /\ CancelRequest(i)
    /\ UNCHANGED <<readerVars, lifeVars, mainVars, signalVars, queue>>
------------------------------------------------------------------------------
(* The dispatcher (dispatch_messages).  What it does between a receive and  *)
(* begin_request touches nothing the reader sees, so the two are one step.  *)

Return(how) == main' = "done" /\ outcome' = how

\* Deliberate defect: the loop never looks at the signal.
NeverLooks ==
    /\ main = "check" /\ main' = "receive"
    /\ UNCHANGED <<readerVars, cancelVars, sharedVars, lifeVars, hand, reply,
                   outcome, log, signalVars, queue>>

CheckSignal ==
    /\ main = "check"
    /\ \/ signal /\ Return("interrupted")
       \/ ~signal /\ main' = "receive" /\ UNCHANGED outcome
    /\ UNCHANGED <<readerVars, cancelVars, sharedVars, lifeVars, hand, reply,
                   log, signalVars, queue>>

ReceiveTimeout ==
    /\ main = "receive" /\ queue = <<>>
    /\ main' = "check"
    /\ UNCHANGED <<readerVars, cancelVars, sharedVars, lifeVars, hand, reply,
                   outcome, log, signalVars, queue>>

Receive(kinds) ==
    /\ main = "receive" /\ queue # <<>> /\ Head(queue).kind \in kinds
    /\ queue' = Tail(queue)
    /\ UNCHANGED <<readerVars, cancelVars, signalVars, log>>

ReceiveEnd ==
    /\ Receive(Ends)
    /\ Return(IF Head(queue).kind = "eof" THEN "ok" ELSE "failed")
    /\ UNCHANGED <<sharedVars, lifeVars, hand, reply>>

\* ReaderEvent::Response goes out without another look at the signal.
ReceiveResponse ==
    /\ Receive({"unparsable"})
    /\ hand' = Head(queue) /\ reply' = "error" /\ main' = "write"
    /\ UNCHANGED <<sharedVars, lifeVars, outcome>>

ReceiveNotification ==
    /\ Receive(Silent)
    /\ lifecycle' = IF /\ Head(queue).kind = "initialized"
                       /\ lifecycle = "AwaitingInitializedNotification"
                    THEN "Ready" ELSE lifecycle
    /\ main' = "check"
    /\ UNCHANGED <<sharedVars, disconnect, hand, reply, outcome>>

ReceiveInitialize ==
    /\ Receive({"initialize", "badInitialize"})
    /\ LET first == lifecycle = "AwaitingInitialize"
           good  == Head(queue).kind = "initialize"
       IN  /\ lifecycle' = IF first /\ good THEN "AwaitingInitializedNotification"
                                            ELSE lifecycle
           /\ disconnect' = (disconnect \/ (first /\ ~good))
           /\ reply' = IF first /\ good THEN "welcome" ELSE "error"
    /\ hand' = Head(queue) /\ main' = "reply"
    /\ UNCHANGED <<sharedVars, outcome>>

\* Everything handle_request answers without running a tool.
Answer(kind) ==
    IF kind = "malformed" THEN "error"
    ELSE IF kind = "ping" THEN "result"
    ELSE IF lifecycle # "Ready" THEN "notReady"
    ELSE IF kind = "list" THEN "result"
    ELSE "error"

\* Deliberate defect: an unknown method is passed over.
IgnoreUnknown ==
    /\ Receive({"malformed", "ping", "list", "unknown", "call"})
    /\ Head(queue).kind = "call" => lifecycle # "Ready"
    /\ hand' = Head(queue) /\ reply' = Answer(Head(queue).kind)
    /\ main' = IF Head(queue).kind = "unknown" THEN "check" ELSE "reply"
    /\ UNCHANGED <<sharedVars, lifeVars, outcome>>

ReceiveRequest ==
    /\ Receive({"malformed", "ping", "list", "unknown", "call"})
    /\ Head(queue).kind = "call" => lifecycle # "Ready"
    /\ hand' = Head(queue) /\ reply' = Answer(Head(queue).kind)
    /\ main' = "reply"
    /\ UNCHANGED <<sharedVars, lifeVars, outcome>>

\* Deliberate defects: the entry is taken out and not acted on; it is acted on
\* and stays in.
ForgetEntry(e) ==
    active' = e /\ pending' = pending \ {e.id} /\ UNCHANGED cancelled
KeepEntry(e) ==
    /\ active' = e /\ UNCHANGED pending
    /\ cancelled' = IF e.id \in pending THEN cancelled \cup {e} ELSE cancelled

\* begin_request: a token of its own, cancelled at birth if its id is listed.
BeginRequest(e) ==
    /\ active' = e
    /\ pending' = pending \ {e.id}
    /\ cancelled' = IF e.id \in pending THEN cancelled \cup {e} ELSE cancelled

BeginCall ==
    /\ Receive({"call"}) /\ lifecycle = "Ready"
    /\ BeginRequest(Head(queue))
    /\ hand' = Head(queue) /\ main' = "call"
    /\ UNCHANGED <<lifeVars, reply, outcome>>

\* call_tool_request: a tool sees its token, or the process's, between two
\* steps of its work, and may be past the last of them.
RunTool ==
    /\ main = "call"
    /\ \/ reply' \in {"result", "error"}
       \/ (hand \in cancelled \/ signal) /\ reply' = "interrupted"
    /\ main' = "finish"
    /\ UNCHANGED <<readerVars, cancelVars, sharedVars, lifeVars, hand, outcome,
                   log, signalVars, queue>>

\* Deliberate defect: an interrupted call gets no response.
FinishSilently ==
    /\ main = "finish"
    /\ active' = NoEvent
    /\ main' = IF reply = "interrupted" THEN "check" ELSE "reply"
    /\ UNCHANGED <<readerVars, cancelVars, pending, cancelled, lifeVars, hand,
                   reply, outcome, log, signalVars, queue>>

\* finish_request
FinishCall ==
    /\ main = "finish"
    /\ active' = IF active.id = hand.id THEN NoEvent ELSE active
    /\ main' = "reply"
    /\ UNCHANGED <<readerVars, cancelVars, pending, cancelled, lifeVars, hand,
                   reply, outcome, log, signalVars, queue>>

CheckReply ==
    /\ main = "reply"
    /\ \/ signal /\ Return("interrupted")
       \/ ~signal /\ main' = "write" /\ UNCHANGED outcome
    /\ UNCHANGED <<readerVars, cancelVars, sharedVars, lifeVars, hand, reply,
                   log, signalVars, queue>>

WriteMessage ==
    /\ main = "write"
    /\ log' = Append(log, [event |-> hand, reply |-> reply])
    /\ \/ disconnect /\ Return("ok")
       \/ ~disconnect /\ main' = "check" /\ UNCHANGED outcome
    /\ UNCHANGED <<readerVars, cancelVars, sharedVars, lifeVars, hand, reply,
                   signalVars, queue>>

\* A closed pipe, or a response beyond MAX_RESPONSE_BYTES.
WriteFails ==
    /\ main = "write"
    /\ Return("failed")
    /\ UNCHANGED <<readerVars, cancelVars, sharedVars, lifeVars, hand, reply,
                   log, signalVars, queue>>
------------------------------------------------------------------------------
OsSignal ==
    /\ main # "done" /\ ~signal
    /\ signal' = TRUE /\ mark' = Len(log)
    /\ UNCHANGED <<readerVars, cancelVars, sharedVars, lifeVars, mainVars, queue>>

\* serve has returned; the process ends.
Stopped == main = "done" /\ UNCHANGED vars

Reader == ReadLine \/ ReadEnd \/ \E i \in Ids : ReadCancellation(i)

Dispatcher ==
    \/ CheckSignal \/ ReceiveTimeout \/ ReceiveEnd \/ ReceiveResponse
    \/ ReceiveNotification \/ ReceiveInitialize \/ ReceiveRequest
    \/ BeginCall \/ RunTool \/ FinishCall \/ CheckReply \/ WriteMessage
    \/ WriteFails

Next == Reader \/ Dispatcher \/ OsSignal \/ Stopped

\* The dispatcher is a thread that always has a next step: its receive times
\* out, every tool has a deadline, and the client reads what is written.
Spec == Init /\ [][Next]_vars /\ WF_vars(Dispatcher)
------------------------------------------------------------------------------
\* Every variable keeps its type; the list of pending cancellations keeps to
\* its limit, and a call is active exactly while the dispatcher runs it.
TypeOK ==
    /\ reader \in {"reading", "ended"} /\ sent \in 0 .. MaxLines
    /\ queue \in Seq(Event) /\ owed \in Seq(Event)
    /\ pending \subseteq Ids /\ Cardinality(pending) <= MaxPending
    /\ cancelled \subseteq Call /\ heard \subseteq Call /\ refused \subseteq heard
    /\ notices \in [Ids -> 0 .. MaxCancels]
    /\ lifecycle \in {"AwaitingInitialize", "AwaitingInitializedNotification", "Ready"}
    /\ disconnect \in BOOLEAN /\ signal \in BOOLEAN /\ mark \in Nat
    /\ main \in Places /\ reply \in Replies
    /\ hand \in Event \cup {NoEvent}
    /\ main \in {"call", "finish"} => hand \in Call
    /\ main \in {"reply", "write"} => hand \in Event
    /\ active = IF main \in {"call", "finish"} THEN hand ELSE NoEvent
    /\ outcome \in {"none", "ok", "interrupted", "failed"}
    /\ log \in Seq([event : Event, reply : Replies])

Answered == [k \in DOMAIN log |-> log[k].event]

InHand == IF main \in {"call", "finish", "reply", "write"} THEN <<hand>> ELSE <<>>

\* How many of the requests read have been answered or are in hand.
Begun == Len(log) + Len(InHand)

\* While the server runs, the responses written answer, one for one and in the
\* order of reading, what was read and wants a response; the next one is in
\* hand if any is, and the others are exactly those that wait in the channel:
\* no response is lost, repeated or overtaken, a parse error's included.
EveryRequestAnsweredInOrder ==
    main # "done" =>
        /\ Begun <= Len(owed)
        /\ \A k \in DOMAIN log : log[k].event = owed[k]
        /\ InHand # <<>> => owed[Begun] = hand
        /\ {owed[k] : k \in Begun + 1 .. Len(owed)}
             = {e \in {queue[k] : k \in DOMAIN queue} : WantsResponse(e)}

\* serve returns Ok only with every request answered that was read before the
\* end of input, or after a refused initialize.
CleanEndAnswersAll == outcome = "ok" => disconnect \/ Answered = owed

\* A cancellation read while its call waits or runs, and not turned away by a
\* full list, has cancelled that call's token by the time the call runs,
\* whichever of the two threads comes first to the mutex.
CancellationsReachTheirCall ==
    main \in {"call", "finish"} /\ hand \in heard \ refused => hand \in cancelled

\* No more calls of an id are cancelled than cancellations of it were read:
\* none cancels two calls, and none a call of another id.
OneCallPerCancellation ==
    \A i \in Ids : Cardinality({c \in cancelled : c.id = i}) <= notices[i]

\* A response says "interrupted" only to a call that was itself cancelled: one
\* that only the process's signal interrupted is never answered.
InterruptedWereCancelled ==
    \A k \in DOMAIN log :
        log[k].reply = "interrupted" => log[k].event \in cancelled

\* After the signal at most one more response is written, the one whose check
\* of the signal, or whose receive, was already past.
SignalStopsWriting == signal => Len(log) <= mark + 1

\* A tool runs only after an initialize whose response has been written, and
\* there is never a second welcome.
ToolsRunAfterHandshake ==
    LET welcomes == {k \in DOMAIN log : log[k].reply = "welcome"}
    IN  /\ active # NoEvent => welcomes # {}
        /\ \A j, k \in welcomes : j = k

\* What holds of a session at every moment besides: cancellations are spent
\* once, "interrupted" is said only of what was cancelled, nothing runs before
\* the handshake, and serve's Ok leaves no request unanswered.
ServerConsistent ==
    /\ TypeOK /\ OneCallPerCancellation /\ InterruptedWereCancelled
    /\ CleanEndAnswersAll /\ ToolsRunAfterHandshake

\* Every request read is answered, unless serve returns first.
RequestsAreAnswered ==
    \A n \in 1 .. MaxLines :
        (\E k \in DOMAIN owed : owed[k].n = n)
            ~> (main = "done" \/ \E k \in DOMAIN log : log[k].event.n = n)
=============================================================================
