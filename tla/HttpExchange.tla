---------------------------- MODULE HttpExchange ----------------------------
(***************************************************************************)
(* HTTPClient (src/src/httpclient.cpp over src/src/wificlient.cpp) against  *)
(* WebServer (src/src/webserver.cpp): several clients, each in a thread of  *)
(* its own, one server thread that calls begin, close and handleClient, and *)
(* the kernel's connections between them.                                   *)
(*                                                                         *)
(* A message is a number of parts: a request is its header, and for a POST  *)
(* the body that Content-Length announces; an answer is its head and its    *)
(* body.  Parts arrive one by one.  Both sides read until recv returns no   *)
(* data, and take the end of the stream, a reset and the receive timeout    *)
(* for the same thing.  A handler answers at most once.                     *)
(* Bounds: Turns requests of each client, of which Posts are POSTs; Backlog  *)
(* connections that wait (listen(fd, 5) in the code).                                             *)
(***************************************************************************)
EXTENDS Naturals, Sequences, SequencesExt

CONSTANTS Clients, Turns, Posts, Backlog, NoRequest

VARIABLES
  listener,   \* "none", "held" by the server, or "lost": bound, its fd overwritten
  backlog,    \* connections not yet accepted, oldest first
  link,       \* the connection of every request
  tries, phase, sent, got, status, body,    \* the HTTPClient of each client
  serving, step, read,                      \* handleClient
  handled,    \* history: the parts the handler of a request has seen
  silent,     \* history: requests whose handler sent no answer
  late        \* history: requests cut short by a receive timeout

httpVars == <<listener, backlog, link, tries, phase, sent, got, status,
              body, serving, step, read, handled, silent, late>>
server == <<listener, backlog, serving, step, read, handled, silent>>
client == <<tries, phase, sent, got, status, body>>

Requests == UNION {{c} \X (1..Turns[c]) : c \in Clients}
Current(c) == <<c, tries[c]>>
Parts(r) == IF r \in Posts THEN 2 ELSE 1

NoBody == [of |-> NoRequest, parts |-> 0]
Unused == [client |-> "none", server |-> "none", up |-> 0, down |-> 0]

Init ==
  /\ listener = "none" /\ backlog = <<>>
  /\ link = [r \in Requests |-> Unused]
  /\ tries = [c \in Clients |-> 0] /\ phase = [c \in Clients |-> "idle"]
  /\ sent = [c \in Clients |-> 0] /\ got = [c \in Clients |-> 0]
  /\ status = [c \in Clients |-> 0] /\ body = [c \in Clients |-> NoBody]
  /\ serving = NoRequest /\ step = "none" /\ read = 0
  /\ handled = [r \in Requests |-> 0] /\ silent = {} /\ late = {}

-----------------------------------------------------------------------------
\* The client.

\* WiFiClient::connect fails without a listener, or when the backlog stays
\* full for the timeout; GET or POST then returns -1.  The old body stays,
\* unless HTTPClient::begin has dropped it.
Connect(c) ==
  LET r == <<c, tries[c] + 1>> IN
  /\ phase[c] = "idle" /\ tries[c] < Turns[c]
  /\ tries' = [tries EXCEPT ![c] = @ + 1]
  /\ IF listener # "none" /\ Len(backlog) < Backlog
       THEN /\ link' = [link EXCEPT ![r] = [Unused EXCEPT !.client = "open",
                                                             !.server = "queued"]]
            /\ backlog' = Append(backlog, r)
            /\ phase' = [phase EXCEPT ![c] = "writing"]
            /\ UNCHANGED status
       ELSE /\ status' = [status EXCEPT ![c] = 0]
            /\ UNCHANGED <<link, backlog, phase>>
  /\ \E b \in {body[c], NoBody} : body' = [body EXCEPT ![c] = b]
  /\ UNCHANGED <<listener, serving, step, read, handled, silent, late, sent, got>>

\* A reset may throw away what has arrived and is not read.
MayDrop(n) == {n, 0}

\* ::close of the client's end: what still comes for it is thrown away.
Stop(c) ==
  /\ link' = [link EXCEPT ![Current(c)].client = "closed", ![Current(c)].down = 0]
  /\ phase' = [phase EXCEPT ![c] = "idle"]
  /\ sent' = [sent EXCEPT ![c] = 0] /\ got' = [got EXCEPT ![c] = 0]

Gone(r) == link[r].server \in {"closed", "reset"}

\* One more part is with the kernel; to a server that has closed it is lost.
Write(c) ==
  LET r == Current(c) IN
  /\ phase[c] = "writing"
  /\ sent' = [sent EXCEPT ![c] = @ + 1]
  /\ phase' = [phase EXCEPT ![c] = IF sent'[c] = Parts(r) THEN "reading" ELSE @]
  /\ IF Gone(r)
       THEN \E n \in MayDrop(link[r].down) : link' = [link EXCEPT ![r].down = n]
       ELSE link' = [link EXCEPT ![r].up = @ + 1]
  /\ UNCHANGED <<server, late, tries, got, status, body>>

\* write returned less than it was given: stop, -1; the old body stays.
WriteFails(c) ==
  /\ phase[c] = "writing" /\ Gone(Current(c))
  /\ Stop(c)
  /\ status' = [status EXCEPT ![c] = 0]
  /\ UNCHANGED <<server, late, tries, body>>

Read(c) ==
  /\ phase[c] = "reading" /\ link[Current(c)].down > 0
  /\ link' = [link EXCEPT ![Current(c)].down = @ - 1]
  /\ got' = [got EXCEPT ![c] = @ + 1]
  /\ UNCHANGED <<server, late, tries, phase, sent, status, body>>

\* Mutant of NewBody: an empty body replaces nothing.
StaleBody(c) == IF got[c] > 1 THEN [of |-> Current(c), parts |-> got[c] - 1] ELSE body[c]

\* The body is replaced by what has come after the head.
NewBody(c) == IF got[c] > 0 THEN [of |-> Current(c), parts |-> got[c] - 1] ELSE NoBody

\* read returned 0 or less: stop, and judge by what has arrived.
Finish(c) ==
  /\ Stop(c)
  /\ status' = [status EXCEPT ![c] = IF got[c] > 0 THEN 200 ELSE 0]
  /\ body' = [body EXCEPT ![c] = NewBody(c)]
  /\ UNCHANGED <<server, tries>>

ReadEnds(c) ==
  /\ phase[c] = "reading" /\ link[Current(c)].down = 0 /\ Gone(Current(c))
  /\ Finish(c) /\ UNCHANGED late

\* SO_RCVTIMEO: setTimeout of the client, 5 s by default.
ReadTimesOut(c) ==
  /\ phase[c] = "reading" /\ link[Current(c)].down = 0 /\ ~Gone(Current(c))
  /\ Finish(c) /\ late' = late \union {Current(c)}

-----------------------------------------------------------------------------
\* The server.

\* Of a server that listens already: the descriptor is overwritten, bind
\* fails, and the old listener goes on taking connections nobody accepts.
Begin ==
  /\ serving = NoRequest
  /\ listener' = IF listener = "none" THEN "held" ELSE "lost"
  /\ UNCHANGED <<backlog, link, serving, step, read, handled, silent, late, client>>

\* Closing the listener resets the connections in its backlog.
Close ==
  /\ serving = NoRequest /\ listener = "held"
  /\ listener' = "none" /\ backlog' = <<>>
  /\ link' = [r \in Requests |-> IF r \in ToSet(backlog)
                 THEN [link[r] EXCEPT !.server = "reset", !.up = 0] ELSE link[r]]
  /\ UNCHANGED <<serving, step, read, handled, silent, late, client>>

Accept ==
  /\ serving = NoRequest /\ listener = "held" /\ backlog # <<>>
  /\ serving' = Head(backlog) /\ backlog' = Tail(backlog)
  /\ step' = "reading" /\ read' = 0
  /\ link' = [link EXCEPT ![Head(backlog)].server = "open"]
  /\ UNCHANGED <<listener, handled, silent, late, client>>

\* The loop ends by itself when the announced body is there.
Receive ==
  /\ step = "reading" /\ link[serving].up > 0
  /\ read' = read + 1
  /\ link' = [link EXCEPT ![serving].up = @ - 1]
  /\ step' = IF serving \in Posts /\ read' = 2 THEN "handling" ELSE step
  /\ UNCHANGED <<listener, backlog, serving, handled, silent, late, client>>

\* recv returned 0 or less: the end of the stream, or the timeout of one
\* second, which is how the read of every GET ends.  An empty request is
\* dropped; any other goes to its handler, whole or not.
ReceiveEnds ==
  /\ step = "reading" /\ link[serving].up = 0
  /\ step' = IF read = 0 THEN "closing" ELSE "handling"
  /\ late' = IF read < Parts(serving) /\ link[serving].client = "open"
               THEN late \union {serving} ELSE late
  /\ UNCHANGED <<listener, backlog, link, serving, read, handled, silent, client>>

Handle ==
  /\ step = "handling"
  /\ handled' = [handled EXCEPT ![serving] = read]
  /\ \E answers \in BOOLEAN :
       /\ step' = IF answers THEN "head" ELSE "closing"
       /\ silent' = IF answers THEN silent ELSE silent \union {serving}
  /\ UNCHANGED <<listener, backlog, link, serving, read, late, client>>

\* WebServer::send: the head, then the body.
Send ==
  /\ step \in {"head", "body"}
  /\ step' = IF step = "head" THEN "body" ELSE "closing"
  /\ link' = [link EXCEPT ![serving].down = IF link[serving].client = "open" THEN @ + 1 ELSE 0]
  /\ UNCHANGED <<listener, backlog, serving, read, handled, silent, late, client>>

\* ::close(fd) with data unread makes the kernel reset the connection.
Hangup ==
  /\ step = "closing"
  /\ \E n \in IF link[serving].up > 0 THEN MayDrop(link[serving].down)
                                      ELSE {link[serving].down} :
       link' = [link EXCEPT ![serving].server = "closed", ![serving].up = 0,
                            ![serving].down = n]
  /\ serving' = NoRequest /\ step' = "none" /\ read' = 0
  /\ UNCHANGED <<listener, backlog, handled, silent, late, client>>

-----------------------------------------------------------------------------
InRequest(c) == Write(c) \/ WriteFails(c) \/ Read(c) \/ ReadEnds(c) \/ ReadTimesOut(c)
InHandleClient == Receive \/ ReceiveEnds \/ Handle \/ Send \/ Hangup

Next ==
  \/ \E c \in Clients : Connect(c) \/ InRequest(c)
  \/ Begin \/ Close \/ Accept \/ InHandleClient

\* Threads run on and receive timeouts pass; nobody has to call handleClient.
Fairness == /\ \A c \in Clients : WF_httpVars(InRequest(c))
            /\ WF_httpVars(InHandleClient)

Spec == Init /\ [][Next]_httpVars /\ Fairness

-----------------------------------------------------------------------------
\* A 200 is the answer of the handler to this very request, whole unless a
\* receive timeout cut it short; a handler sees its request whole unless one
\* did; and a request that failed after its handler ran had a timeout or a
\* handler that did not answer.
Answered(c) == phase[c] = "idle" /\ tries[c] > 0
WholeUnlessLate ==
  /\ \A c \in Clients : (Answered(c) /\ status[c] = 200) =>
       /\ handled[Current(c)] > 0
       /\ body[c] \in {NoBody} \union [of : {Current(c)}, parts : 0..1]
       /\ body[c] = [of |-> Current(c), parts |-> 0] => Current(c) \in late
  /\ \A r \in Requests : handled[r] > 0 => handled[r] = Parts(r) \/ r \in late
  /\ \A c \in Clients : (Answered(c) /\ status[c] # 200 /\ handled[Current(c)] > 0) =>
       Current(c) \in silent \union late

\* GET and POST return whether anybody serves them or not, and handleClient
\* returns if the handler does: each wait has its timeout.
RequestsReturn ==
  /\ \A c \in Clients : phase[c] # "idle" ~> phase[c] = "idle"
  /\ serving # NoRequest ~> serving = NoRequest
=============================================================================
