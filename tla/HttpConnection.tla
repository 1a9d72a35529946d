--------------------------- MODULE HttpConnection ---------------------------
(***************************************************************************)
(* HttpServer on its TCP connections: onMessage collects bytes per         *)
(* connection in partial_requests_, HttpContext::ParseRequest decides what *)
(* they are, and handleRequest answers, starts a stream or waits.          *)
(*                                                                         *)
(* Bytes are abstracted to pieces: the request line in two ("method",      *)
(* "target"), the header that gives the body's length in two ("name", with *)
(* no colon yet, and "value"), the empty line ("blank") and the pieces of  *)
(* the body.  TCP delivers any prefix of what the client has sent, so a    *)
(* message can end between any two pieces.                                 *)
(***************************************************************************)
EXTENDS Integers, Sequences, FiniteSets, SequencesExt

CONSTANTS
    Addresses,   (* addresses of TcpConnection objects, the keys of            *)
                 (* partial_requests_                                          *)
    Requests,    (* requests that clients send                                 *)
    NoReq,       (* no request                                                 *)
    BodyLength,  (* Content-Length of each request, in pieces                  *)
    Closers,     (* the requests of HTTP version 1.0, answered with a close    *)
    Barred,      (* those with a method or a version that is refused           *)
    Oversized,   (* those that announce more than kMaxBodySize                 *)
    MaxAsked     (* bound: requests a client sends on one connection           *)

ASSUME ConnectionAssumption ==
    /\ NoReq \notin Requests
    /\ BodyLength \in [Requests -> Nat]
    /\ Closers \subseteq Requests
    /\ Barred \subseteq Requests /\ Oversized \subseteq Requests
    /\ MaxAsked \in Nat

VARIABLES
    conn,        (* state of the connection at each address                    *)
    inflight,    (* pieces its client has sent and the server has not read     *)
    partial,     (* partial_requests_                                          *)
    stream,      (* the request whose StreamWriter a worker still has          *)
    asked,       (* the requests of this connection, in the order sent         *)
    sent,        (* for each response on it, the request it answers            *)
    got,         (* what the handler was last called with on it                *)
    odd          (* what was unusual on it: see Oddities                       *)

vars == <<conn, inflight, partial, stream, asked, sent, got, odd>>

(* A request's head arrived in pieces; a request was sent before the       *)
(* previous one was answered; the address came with unfinished bytes; a    *)
(* request was refused before all of its body had come.                    *)
Oddities == {"cut", "pipelined", "stale", "rest"}

-----------------------------------------------------------------------------
(* What is on the wire                                                     *)

Piece(kind, q) == [kind |-> kind, req |-> q]
HeadOf(q) == << Piece("method", q), Piece("target", q), Piece("name", q),
                Piece("value", q), Piece("blank", q) >>
BodyOf(q) == [i \in 1..BodyLength[q] |-> Piece("body", q)]

(* A message that ends here has cut the head of a request. *)
InHead == {"method", "target", "name", "value"}

-----------------------------------------------------------------------------
(* HttpContext::ParseRequest                                               *)

(* Whatever does not start with a request line is refused (400, 405, 505). *)
HasRequestLine(acc) ==
    Len(acc) >= 2 /\ acc[1].kind = "method" /\ acc[2].kind = "target"

(* The reading of the headers stops at the empty line, or at the end of    *)
(* what has arrived.  The length is known once the whole header has come.  *)
LengthSeen(acc) == IF Len(acc) >= 4 THEN BodyLength[acc[1].req] ELSE 0
HeadEnded(acc) == Len(acc) >= 5

(* Refused: no request line, or one with an unknown method or version; a   *)
(* header line with no colon; a body that is too long, or is announced     *)
(* while no empty line has come.                                           *)
IsBad(acc) ==
    \/ ~HasRequestLine(acc)
    \/ acc[1].req \in Barred
    \/ Len(acc) = 3
    \/ Len(acc) >= 4 /\ acc[1].req \in Oversized
    \/ LengthSeen(acc) > 0 /\ ~HeadEnded(acc)

(* Seeded faults: off by one, either way, in the test for a complete body. *)
LacksTwo(acc) == ~IsBad(acc) /\ HeadEnded(acc) /\ Len(acc) - 5 < LengthSeen(acc) - 1
LacksNone(acc) == ~IsBad(acc) /\ HeadEnded(acc) /\ Len(acc) - 5 <= LengthSeen(acc)

(* kIncomplete: the head is there and part of the body is not. *)
IsIncomplete(acc) == ~IsBad(acc) /\ HeadEnded(acc) /\ Len(acc) - 5 < LengthSeen(acc)

(* The request as the handler sees it; what follows it is dropped. *)
Parsed(acc) ==
    [req |-> acc[1].req, body |-> SubSeq(acc, 6, Min({5 + LengthSeen(acc), Len(acc)}))]

(* shouldClose, of a request whose line has been read. *)
Closes(acc) == HasRequestLine(acc) /\ acc[1].req \in Closers

-----------------------------------------------------------------------------
Unheard == [req |-> NoReq, body |-> <<>>, quiet |-> FALSE]

Init ==
    /\ conn = [a \in Addresses |-> "free"]
    /\ inflight = [a \in Addresses |-> <<>>]
    /\ partial = [a \in Addresses |-> <<>>]
    /\ stream = [a \in Addresses |-> {}]
    /\ asked = [a \in Addresses |-> <<>>]
    /\ sent = [a \in Addresses |-> <<>>]
    /\ got = [a \in Addresses |-> Unheard]
    /\ odd = [a \in Addresses |-> {}]

(* A client connects; its TcpConnection is allocated at a free address,    *)
(* where partial_requests_ may still have an entry.                        *)
Connect(a) ==
    /\ conn[a] = "free"
    /\ conn' = [conn EXCEPT ![a] = "up"]
    /\ odd' = [odd EXCEPT ![a] = IF partial[a] = <<>> THEN {} ELSE {"stale"}]
    /\ UNCHANGED <<inflight, partial, stream, asked, sent, got>>

(* The client sends a request it has not sent before. *)
Ask(a, q) ==
    /\ conn[a] = "up"
    /\ Len(asked[a]) < MaxAsked
    /\ \A b \in Addresses : ~Contains(asked[b], q)
    /\ inflight' = [inflight EXCEPT ![a] = @ \o HeadOf(q) \o BodyOf(q)]
    /\ asked' = [asked EXCEPT ![a] = Append(@, q)]
    /\ odd' = [odd EXCEPT ![a] = IF Len(sent[a]) < Len(asked[a]) THEN @ \cup {"pipelined"}
                                 ELSE @]
    /\ UNCHANGED <<conn, partial, stream, sent, got>>

(* Seeded fault: a stream does not keep the connection alive. *)
DisconnectAndFree(a) ==
    /\ conn[a] \in {"up", "closing"}
    /\ conn' = [conn EXCEPT ![a] = "free"]
    /\ inflight' = [inflight EXCEPT ![a] = <<>>]
    /\ asked' = [asked EXCEPT ![a] = <<>>]
    /\ sent' = [sent EXCEPT ![a] = <<>>]
    /\ got' = [got EXCEPT ![a] = Unheard]
    /\ odd' = [odd EXCEPT ![a] = {}]
    /\ UNCHANGED <<partial, stream>>

(* The client closes; the connection's address is free again once no       *)
(* stream holds the connection.  Nothing is erased from partial_requests_, *)
(* what is noted about the connection (asked, sent, got, odd) ends here.   *)
Disconnect(a) ==
    /\ conn[a] \in {"up", "closing"}
    /\ conn' = [conn EXCEPT ![a] = IF stream[a] = {} THEN "free" ELSE "down"]
    /\ inflight' = [inflight EXCEPT ![a] = <<>>]
    /\ asked' = [asked EXCEPT ![a] = <<>>]
    /\ sent' = [sent EXCEPT ![a] = <<>>]
    /\ got' = [got EXCEPT ![a] = Unheard]
    /\ odd' = [odd EXCEPT ![a] = {}]
    /\ UNCHANGED <<partial, stream>>

-----------------------------------------------------------------------------
(* onMessage and handleRequest                                             *)

(* What the server has of the request after reading n more pieces. *)
Collected(a, n) == partial[a] \o SubSeq(inflight[a], 1, n)

(* What is unusual in the way these pieces came. *)
OddReading(a, n) ==
    LET acc == Collected(a, n)
        next == inflight[a][n + 1]
    IN  (IF Last(acc).kind \in InHead THEN {"cut"} ELSE {})
        \cup (IF IsBad(acc) /\ n < Len(inflight[a]) /\ next.kind = "body"
              THEN {"rest"} ELSE {})

(* onMessage takes what has arrived, also after shutdown was called. *)
Read(a, n) ==
    /\ conn[a] \in {"up", "closing"}
    /\ inflight' = [inflight EXCEPT ![a] = SubSeq(@, n + 1, Len(@))]
    /\ odd' = [odd EXCEPT ![a] = @ \cup OddReading(a, n)]
    /\ UNCHANGED asked

Erase(a) == partial' = [partial EXCEPT ![a] = <<>>]

(* send and shutdown of the connection: dropped when it is not up. *)
Reply(a, q, close) ==
    IF conn[a] = "up"
    THEN /\ sent' = [sent EXCEPT ![a] = Append(@, q)]
         /\ conn' = [conn EXCEPT ![a] = IF close THEN "closing" ELSE "up"]
    ELSE UNCHANGED <<sent, conn>>

(* More of the body is to come. *)
Wait(a, n) ==
    /\ Read(a, n)
    /\ IsIncomplete(Collected(a, n))
    /\ partial' = [partial EXCEPT ![a] = Collected(a, n)]
    /\ UNCHANGED <<conn, stream, sent, got>>

(* An error response, after which the connection goes on: what is still to *)
(* come of the refused request's body is taken for a request.              *)
Refuse(a, n) ==
    /\ Read(a, n)
    /\ IsBad(Collected(a, n))
    /\ Reply(a, Collected(a, n)[1].req, Closes(Collected(a, n)))
    /\ Erase(a)
    /\ UNCHANGED <<stream, got>>

(* Middlewares and router call the handler. *)
Dispatch(a, n, quiet) ==
    /\ Read(a, n)
    /\ ~IsBad(Collected(a, n)) /\ ~IsIncomplete(Collected(a, n))
    /\ got' = [got EXCEPT ![a] = [req   |-> Parsed(Collected(a, n)).req,
                                  body  |-> Parsed(Collected(a, n)).body,
                                  quiet |-> quiet]]
    /\ Erase(a)

(* The handler fills the response, or throws before it sets req.stream     *)
(* (500), or a middleware answers by itself: HttpServer sends it.          *)
Answer(a, n) ==
    /\ Dispatch(a, n, FALSE)
    /\ LET acc == Collected(a, n) IN Reply(a, Parsed(acc).req, Closes(acc))
    /\ UNCHANGED stream

(* The handler sends a response with Connection: close itself; whatever    *)
(* HttpServer sends after it is dropped.                                   *)
AnswerItself(a, n) ==
    /\ Dispatch(a, n, FALSE)
    /\ Reply(a, Parsed(Collected(a, n)).req, TRUE)
    /\ UNCHANGED stream

(* Seeded fault: the test of req.stream is missing. *)
AnswerAndStream(a, n) ==
    /\ Dispatch(a, n, FALSE)
    /\ LET acc == Collected(a, n) IN
       /\ Reply(a, Parsed(acc).req, Closes(acc))
       /\ stream' = [stream EXCEPT ![a] = @ \cup {Parsed(acc).req}]

(* The handler sets req.stream and hands the writer to a worker: no        *)
(* response is sent here.                                                  *)
StartStream(a, n) ==
    /\ Dispatch(a, n, FALSE)
    /\ stream' = [stream EXCEPT ![a] = @ \cup {Parsed(Collected(a, n)).req}]
    /\ UNCHANGED <<conn, sent>>

(* The handler throws after it has set req.stream: the 500 is not sent.    *)
FallSilent(a, n) ==
    /\ Dispatch(a, n, TRUE)
    /\ UNCHANGED <<conn, sent, stream>>

(* The worker's response: WriteChunk and End, if the connection is up.     *)
EndStream(a, q) ==
    /\ q \in stream[a]
    /\ stream' = [stream EXCEPT ![a] = @ \ {q}]
    /\ IF conn[a] = "down" /\ stream[a] = {q}
       THEN conn' = [conn EXCEPT ![a] = "free"] /\ UNCHANGED sent
       ELSE Reply(a, q, TRUE)
    /\ UNCHANGED <<inflight, partial, asked, got, odd>>

Receive(a) ==
    \E n \in 1..Len(inflight[a]) :
        \/ Wait(a, n) \/ Refuse(a, n) \/ Answer(a, n)
        \/ AnswerItself(a, n) \/ StartStream(a, n) \/ FallSilent(a, n)

Next ==
    \E a \in Addresses :
        \/ Connect(a) \/ Disconnect(a) \/ Receive(a)
        \/ \E q \in Requests : Ask(a, q) \/ EndStream(a, q)

Spec == Init /\ [][Next]_vars

(* The IO loop reads what has arrived, and workers finish. *)
FairSpec ==
    /\ Spec
    /\ \A a \in Addresses : WF_vars(Receive(a))
    /\ \A a \in Addresses, q \in Requests : WF_vars(EndStream(a, q))

-----------------------------------------------------------------------------
(* Properties                                                              *)

Pieces == [kind : InHead \cup {"blank", "body"}, req : Requests]
HandlerCalls == [req : Requests \cup {NoReq}, body : Seq(Pieces), quiet : BOOLEAN]

(* Types, and: an address is free only when no StreamWriter holds the      *)
(* connection that was there.                                              *)
TypeOK ==
    /\ conn \in [Addresses -> {"free", "up", "closing", "down"}]
    /\ inflight \in [Addresses -> Seq(Pieces)]
    /\ partial \in [Addresses -> Seq(Pieces)]
    /\ stream \in [Addresses -> SUBSET Requests]
    /\ asked \in [Addresses -> Seq(Requests)]
    /\ sent \in [Addresses -> Seq(Requests)]
    /\ got \in [Addresses -> HandlerCalls]
    /\ odd \in [Addresses -> SUBSET Oddities]
    /\ \A a \in Addresses :
          /\ conn[a] = "free" => stream[a] = {} /\ asked[a] = <<>>
          /\ conn[a] = "down" => stream[a] # {}

(* The responses on a connection answer its requests one for one and in    *)
(* order, whoever sends them (HttpServer, the handler, a worker's stream), *)
(* whatever happens on other connections.                                  *)
AnsweredInOrder ==
    \A a \in Addresses : odd[a] = {} => IsPrefix(sent[a], asked[a])

(* The handler is called with the request that was sent: its own body,     *)
(* whole, however TCP cuts the body.                                       *)
Intact(a) == got[a].req # NoReq => got[a].body = BodyOf(got[a].req)
HandledWhole == \A a \in Addresses : odd[a] = {} => Intact(a)

(* http_server.h:81, "Partial request accumulation (TCP fragmentation)":   *)
(* the same when TCP cuts the head.                                        *)
FragmentationHidden == \A a \in Addresses : odd[a] \subseteq {"cut"} => Intact(a)

(* http_server.cpp:64, "Append to partial buffer if previous request was   *)
(* incomplete": a handler is called with bytes of its own connection only. *)
OwnBytesOnly ==
    \A a \in Addresses :
        odd[a] \subseteq {"stale"} /\ got[a].req # NoReq =>
            /\ Contains(asked[a], got[a].req)
            /\ \A i \in DOMAIN got[a].body : Contains(asked[a], got[a].body[i].req)

(* A request on a connection that stays up is answered, unless its handler *)
(* threw after it had set req.stream: none waits for ever.                 *)
Waits(a, q) ==
    /\ conn[a] = "up" /\ odd[a] = {}
    /\ Contains(asked[a], q) /\ ~Contains(sent[a], q)
    /\ ~got[a].quiet

EachAnswered == \A a \in Addresses, q \in Requests : []<>~Waits(a, q)
=============================================================================
