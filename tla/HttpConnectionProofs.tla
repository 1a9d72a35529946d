------------------------ MODULE HttpConnectionProofs ------------------------
(***************************************************************************)
(* Proofs about HttpConnection for every number of addresses and requests, *)
(* every body length and every way TCP cuts what the clients send: types,  *)
(* responses in the order of the requests, bodies handed over whole.       *)
(***************************************************************************)
EXTENDS HttpConnection, SequenceTheorems, TLAPS

-----------------------------------------------------------------------------
(* What the operators return                                               *)

LEMMA LengthIsNat == \A q \in Requests : BodyLength[q] \in Nat
  BY ConnectionAssumption

LEMMA SmallerOf ==
    ASSUME NEW x \in Int, NEW y \in Int
    PROVE  Min({x, y}) = IF x <= y THEN x ELSE y
  <1>1. PICK m \in {x, y} : \A z \in {x, y} : m <= z
    OBVIOUS
  <1>2. Min({x, y}) \in {x, y} /\ \A z \in {x, y} : Min({x, y}) <= z
    BY <1>1 DEF Min
  <1>3. QED
    BY <1>2

LEMMA HeadFacts ==
    ASSUME NEW q \in Requests
    PROVE  /\ HeadOf(q) \in Seq(Pieces) /\ Len(HeadOf(q)) = 5
           /\ HeadOf(q)[1] = Piece("method", q) /\ HeadOf(q)[2] = Piece("target", q)
           /\ HeadOf(q)[3] = Piece("name", q) /\ HeadOf(q)[4] = Piece("value", q)
           /\ HeadOf(q)[5] = Piece("blank", q)
  <1>1. \A k \in InHead \cup {"blank"} : Piece(k, q) \in Pieces
    BY DEF Piece, Pieces
  <1>2. QED
    BY <1>1 DEF HeadOf, InHead

LEMMA BodyFacts ==
    ASSUME NEW q \in Requests
    PROVE  /\ BodyOf(q) \in Seq(Pieces) /\ Len(BodyOf(q)) = BodyLength[q]
           /\ \A i \in 1..BodyLength[q] : BodyOf(q)[i] = Piece("body", q)
  <1>1. Piece("body", q) \in Pieces /\ BodyLength[q] \in Nat
    BY LengthIsNat DEF Piece, Pieces
  <1>2. BodyOf(q) \in [1..BodyLength[q] -> Pieces]
    BY <1>1 DEF BodyOf
  <1>3. BodyOf(q) \in Seq(Pieces)
    BY <1>1, <1>2
  <1>4. Len(BodyOf(q)) = BodyLength[q]
    BY <1>1, <1>2, <1>3
  <1>5. QED
    BY <1>3, <1>4 DEF BodyOf

(* A request on the wire. *)
Whole(q) == HeadOf(q) \o BodyOf(q)

LEMMA WholeFacts ==
    ASSUME NEW q \in Requests
    PROVE  /\ Whole(q) \in Seq(Pieces) /\ Len(Whole(q)) = 5 + BodyLength[q]
           /\ Whole(q)[1] = Piece("method", q) /\ Whole(q)[2] = Piece("target", q)
           /\ Whole(q)[3] = Piece("name", q) /\ Whole(q)[4] = Piece("value", q)
           /\ Whole(q)[5] = Piece("blank", q)
           /\ \A i \in 6..(5 + BodyLength[q]) : Whole(q)[i] = Piece("body", q)
  <1>1. BodyLength[q] \in Nat
    BY LengthIsNat
  <1> DEFINE h == HeadOf(q)
             b == BodyOf(q)
  <1>2. /\ h \in Seq(Pieces) /\ Len(h) = 5
        /\ b \in Seq(Pieces) /\ Len(b) = BodyLength[q]
    BY HeadFacts, BodyFacts
  <1> HIDE DEF h, b
  <1>3. /\ h \o b \in Seq(Pieces)
        /\ Len(h \o b) = Len(h) + Len(b)
        /\ \A i \in 1..(Len(h) + Len(b)) : (h \o b)[i] = IF i <= Len(h) THEN h[i] ELSE b[i - Len(h)]
    BY <1>2, ConcatProperties
  <1>4. \A i \in 1..5 : (h \o b)[i] = h[i]
    BY <1>1, <1>2, <1>3
  <1>5. \A i \in 6..(5 + BodyLength[q]) : (h \o b)[i] = b[i - 5] /\ i - 5 \in 1..BodyLength[q]
    BY <1>1, <1>2, <1>3
  <1>6. /\ h[1] = Piece("method", q) /\ h[2] = Piece("target", q) /\ h[3] = Piece("name", q)
        /\ h[4] = Piece("value", q) /\ h[5] = Piece("blank", q)
        /\ \A i \in 1..BodyLength[q] : b[i] = Piece("body", q)
    BY HeadFacts, BodyFacts DEF h, b
  <1>7. Whole(q) = h \o b
    BY DEF Whole, h, b
  <1>8. QED
    BY <1>2, <1>3, <1>4, <1>5, <1>6, <1>7

-----------------------------------------------------------------------------
(* Types are kept by every step                                            *)

LEMMA CollectedType ==
    ASSUME TypeOK, NEW a \in Addresses, NEW n \in 1..Len(inflight[a])
    PROVE  /\ Collected(a, n) \in Seq(Pieces)
           /\ Len(Collected(a, n)) = Len(partial[a]) + n
           /\ Len(Collected(a, n)) \in Nat \ {0}
           /\ Collected(a, n)[1].req \in Requests
           /\ SubSeq(inflight[a], n + 1, Len(inflight[a])) \in Seq(Pieces)
  <1>1. inflight[a] \in Seq(Pieces) /\ partial[a] \in Seq(Pieces)
    BY DEF TypeOK
  <1>2. Len(inflight[a]) \in Nat /\ \A i \in 1..Len(inflight[a]) : inflight[a][i] \in Pieces
    BY <1>1
  <1>3. SubSeq(inflight[a], 1, n) \in Seq(Pieces) /\ Len(SubSeq(inflight[a], 1, n)) = n
    BY <1>2, SubSeqProperties
  <1>4. SubSeq(inflight[a], n + 1, Len(inflight[a])) \in Seq(Pieces)
    BY <1>2, SubSeqProperties
  <1>5. /\ Collected(a, n) \in Seq(Pieces)
        /\ Len(Collected(a, n)) = Len(partial[a]) + n
    BY <1>1, <1>3, ConcatProperties DEF Collected
  <1>6. Len(Collected(a, n)) \in Nat \ {0}
    BY <1>1, <1>5
  <1>7. Collected(a, n)[1] \in Pieces
    BY <1>5, <1>6
  <1>8. QED
    BY <1>4, <1>5, <1>6, <1>7 DEF Pieces

LEMMA ParsedType ==
    ASSUME NEW acc \in Seq(Pieces), Len(acc) # 0
    PROVE  Parsed(acc).req \in Requests /\ Parsed(acc).body \in Seq(Pieces)
  <1>1. Len(acc) \in Nat /\ \A i \in 1..Len(acc) : acc[i] \in Pieces
    BY ElementOfSeq
  <1>2. acc[1] \in Pieces /\ acc[1].req \in Requests
    BY <1>1 DEF Pieces
  <1>3. LengthSeen(acc) \in Nat
    BY <1>2, LengthIsNat DEF LengthSeen
  <1> DEFINE m == Min({5 + LengthSeen(acc), Len(acc)})
  <1>4. m \in Nat /\ m <= Len(acc)
    BY <1>1, <1>3, SmallerOf
  <1> HIDE DEF m
  <1>5. SubSeq(acc, 6, m) \in Seq(Pieces)
    BY <1>1, <1>4, SubSeqProperties
  <1>6. QED
    BY <1>2, <1>5 DEF Parsed, m

(* The variables that HttpServer's handling of what arrives leaves typed.  *)
LEMMA ReadType ==
    ASSUME TypeOK, NEW a \in Addresses, NEW n \in 1..Len(inflight[a]), Read(a, n)
    PROVE  /\ inflight' \in [Addresses -> Seq(Pieces)]
           /\ odd' \in [Addresses -> SUBSET Oddities]
           /\ asked' = asked
  <1>1. OddReading(a, n) \in SUBSET Oddities
    BY DEF OddReading, Oddities
  <1>2. QED
    BY <1>1, CollectedType DEF Read, TypeOK

LEMMA ReplyType ==
    ASSUME TypeOK, NEW a \in Addresses, NEW q \in Requests, NEW close \in BOOLEAN,
           Reply(a, q, close)
    PROVE  /\ sent' \in [Addresses -> Seq(Requests)]
           /\ conn' \in [Addresses -> {"free", "up", "closing", "down"}]
           /\ conn[a] \in {"up", "closing"} => conn'[a] \in {"up", "closing"}
           /\ \A b \in Addresses : b # a \/ conn[a] # "up" => conn'[b] = conn[b]
  <1>1. sent \in [Addresses -> Seq(Requests)]
        /\ conn \in [Addresses -> {"free", "up", "closing", "down"}]
    BY DEF TypeOK
  <1>2. Append(sent[a], q) \in Seq(Requests)
    BY <1>1
  <1>3. QED
    BY <1>1, <1>2 DEF Reply

(* A connection whose client has left has nothing left but its streams. *)
GoneInv ==
    \A a \in Addresses : conn[a] \in {"free", "down"} =>
        /\ inflight[a] = <<>> /\ asked[a] = <<>> /\ sent[a] = <<>>
        /\ got[a] = Unheard /\ odd[a] = {}

LEMMA TypeStep == TypeOK /\ GoneInv /\ [Next]_vars => TypeOK'
  <1> SUFFICES ASSUME TypeOK, GoneInv, [Next]_vars
               PROVE  TypeOK'
    OBVIOUS
  <1>0. /\ partial \in [Addresses -> Seq(Pieces)]
        /\ stream \in [Addresses -> SUBSET Requests]
        /\ got \in [Addresses -> HandlerCalls]
    BY DEF TypeOK
  <1>1. ASSUME NEW a \in Addresses, Connect(a)
        PROVE  TypeOK'
    BY <1>1 DEF Connect, TypeOK, Oddities
  <1>2. ASSUME NEW a \in Addresses, Disconnect(a)
        PROVE  TypeOK'
    <2>1. Unheard \in HandlerCalls /\ <<>> \in Seq(Pieces) /\ <<>> \in Seq(Requests)
      BY DEF Unheard, HandlerCalls
    <2>2. QED
      BY <1>2, <2>1 DEF Disconnect, TypeOK
  <1>3. ASSUME NEW a \in Addresses, NEW q \in Requests, Ask(a, q)
        PROVE  TypeOK'
    <2>1. inflight[a] \o HeadOf(q) \o BodyOf(q) \in Seq(Pieces)
      BY HeadFacts, BodyFacts, ConcatProperties DEF TypeOK
    <2>2. Append(asked[a], q) \in Seq(Requests)
      BY DEF TypeOK
    <2>3. QED
      BY <1>3, <2>1, <2>2 DEF Ask, TypeOK, Oddities
  <1>4. ASSUME NEW a \in Addresses, NEW q \in Requests, EndStream(a, q)
        PROVE  TypeOK'
    <2>1. CASE conn[a] = "down" /\ stream[a] = {q}
      <3>1. asked[a] = <<>>
        BY <2>1 DEF GoneInv
      <3>2. stream' \in [Addresses -> SUBSET Requests] /\ stream'[a] = {}
        BY <1>0, <1>4, <2>1 DEF EndStream
      <3>3. /\ conn' \in [Addresses -> {"free", "up", "closing", "down"}]
            /\ \A b \in Addresses \ {a} : stream'[b] = stream[b] /\ conn'[b] = conn[b]
            /\ conn'[a] = "free"
            /\ UNCHANGED <<inflight, partial, asked, sent, got, odd>>
        BY <1>4, <2>1 DEF EndStream, TypeOK
      <3>4. QED
        BY <3>1, <3>2, <3>3 DEF TypeOK
    <2>2. CASE ~(conn[a] = "down" /\ stream[a] = {q})
      <3>1. Reply(a, q, TRUE)
        BY <1>4, <2>2 DEF EndStream
      <3>2. stream' \in [Addresses -> SUBSET Requests]
        BY <1>4 DEF EndStream, TypeOK
      <3>3. \A b \in Addresses : /\ conn'[b] = "free" => conn[b] = "free"
                                 /\ conn'[b] = "down" => conn[b] = "down"
        BY <3>1, ReplyType DEF Reply, TypeOK
      <3>4. \A b \in Addresses : /\ conn'[b] = "free" => stream'[b] = {}
                                 /\ conn'[b] = "down" => stream'[b] # {}
        BY <1>4, <2>2, <3>3 DEF EndStream, TypeOK
      <3>5. UNCHANGED <<inflight, partial, asked, got, odd>>
        BY <1>4 DEF EndStream
      <3>6. QED
        BY <3>1, <3>2, <3>3, <3>4, <3>5, ReplyType DEF TypeOK
    <2>3. QED
      BY <2>1, <2>2
  <1>5. ASSUME NEW a \in Addresses, NEW n \in 1..Len(inflight[a]),
               \/ Wait(a, n) \/ Refuse(a, n) \/ Answer(a, n)
               \/ AnswerItself(a, n) \/ StartStream(a, n) \/ FallSilent(a, n)
        PROVE  TypeOK'
    <2> DEFINE acc == Collected(a, n)
    <2>1. Read(a, n)
      BY <1>5 DEF Wait, Refuse, Answer, AnswerItself, StartStream, FallSilent, Dispatch
    <2>2. /\ acc \in Seq(Pieces) /\ acc[1].req \in Requests
          /\ Parsed(acc).req \in Requests /\ Parsed(acc).body \in Seq(Pieces)
      BY CollectedType, ParsedType
    <2> HIDE DEF acc
    <2>3. partial' \in [Addresses -> Seq(Pieces)]
      <3>1. partial' = [partial EXCEPT ![a] = acc] \/ partial' = [partial EXCEPT ![a] = <<>>]
        BY <1>5 DEF Wait, Refuse, Answer, AnswerItself, StartStream, FallSilent, Dispatch,
           Erase, acc
      <3>2. <<>> \in Seq(Pieces)
        OBVIOUS
      <3>3. QED
        BY <1>0, <2>2, <3>1, <3>2
    <2>4. got' \in [Addresses -> HandlerCalls]
      <3>1. \/ got' = got
            \/ \E quiet \in BOOLEAN :
                  got' = [got EXCEPT ![a] = [req |-> Parsed(acc).req, body |-> Parsed(acc).body,
                                             quiet |-> quiet]]
        BY <1>5 DEF Wait, Refuse, Answer, AnswerItself, StartStream, FallSilent, Dispatch, acc
      <3>2. \A quiet \in BOOLEAN :
                [req |-> Parsed(acc).req, body |-> Parsed(acc).body, quiet |-> quiet] \in HandlerCalls
        BY <2>2 DEF HandlerCalls
      <3>3. got' = got \/ \E g \in HandlerCalls : got' = [got EXCEPT ![a] = g]
        BY <3>1, <3>2
      <3>4. QED
        BY <1>0, <3>3
    <2>5. stream' \in [Addresses -> SUBSET Requests]
          /\ \A b \in Addresses \ {a} : stream'[b] = stream[b]
      <3>1. stream' = stream \/ stream' = [stream EXCEPT ![a] = @ \cup {Parsed(acc).req}]
        BY <1>5 DEF Wait, Refuse, Answer, AnswerItself, StartStream, FallSilent, acc
      <3>2. QED
        BY <1>0, <2>2, <3>1
    <2>6. \/ UNCHANGED <<sent, conn>>
          \/ \E q \in Requests, close \in BOOLEAN : Reply(a, q, close)
      <3>1. Closes(acc) \in BOOLEAN
        BY DEF Closes, HasRequestLine
      <3>2. QED
        BY <1>5, <2>2, <3>1 DEF Wait, Refuse, Answer, AnswerItself, StartStream, FallSilent, acc
    <2>7. /\ sent' \in [Addresses -> Seq(Requests)]
          /\ conn' \in [Addresses -> {"free", "up", "closing", "down"}]
          /\ conn'[a] \in {"up", "closing"}
          /\ \A b \in Addresses \ {a} : conn'[b] = conn[b]
      <3>1. conn[a] \in {"up", "closing"}
        BY <2>1 DEF Read
      <3>2. QED
        BY <2>6, <3>1, ReplyType DEF TypeOK
    <2>8. /\ inflight' \in [Addresses -> Seq(Pieces)]
          /\ odd' \in [Addresses -> SUBSET Oddities]
          /\ asked' = asked
      BY <2>1, ReadType
    <2>9. QED
      BY <2>3, <2>4, <2>5, <2>7, <2>8 DEF TypeOK
  <1>6. CASE UNCHANGED vars
    BY <1>6 DEF vars, TypeOK
  <1>7. QED
    BY <1>1, <1>2, <1>3, <1>4, <1>5, <1>6 DEF Next, Receive

LEMMA InitType == Init => TypeOK /\ GoneInv
  <1>1. Unheard \in HandlerCalls /\ <<>> \in Seq(Pieces) /\ <<>> \in Seq(Requests)
    BY DEF Unheard, HandlerCalls
  <1>2. QED
    BY <1>1 DEF Init, TypeOK, GoneInv

LEMMA GoneStep == TypeOK /\ GoneInv /\ [Next]_vars => GoneInv'
  <1> SUFFICES ASSUME TypeOK, GoneInv, [Next]_vars
               PROVE  GoneInv'
    OBVIOUS
  <1> USE DEF TypeOK
  <1>1. ASSUME NEW a \in Addresses, Connect(a) \/ Disconnect(a)
        PROVE  GoneInv'
    BY <1>1 DEF Connect, Disconnect, GoneInv
  <1>2. ASSUME NEW a \in Addresses, NEW q \in Requests, Ask(a, q)
        PROVE  GoneInv'
    BY <1>2 DEF Ask, GoneInv
  <1>3. ASSUME NEW a \in Addresses, NEW q \in Requests, EndStream(a, q)
        PROVE  GoneInv'
    BY <1>3 DEF EndStream, Reply, GoneInv
  <1>4. ASSUME NEW a \in Addresses, NEW n \in 1..Len(inflight[a]),
               \/ Wait(a, n) \/ Refuse(a, n) \/ Answer(a, n)
               \/ AnswerItself(a, n) \/ StartStream(a, n) \/ FallSilent(a, n)
        PROVE  GoneInv'
    BY <1>4 DEF Wait, Refuse, Answer, AnswerItself, StartStream, FallSilent, Dispatch, Read,
       Reply, GoneInv
  <1>5. CASE UNCHANGED vars
    BY <1>5 DEF vars, GoneInv
  <1>6. QED
    BY <1>1, <1>2, <1>3, <1>4, <1>5 DEF Next, Receive

(* The variables of HttpServer's connections keep their types, and an      *)
(* address is free only once no StreamWriter holds its connection.         *)
THEOREM TypeCorrect == Spec => []TypeOK
  BY InitType, TypeStep, GoneStep, PTL DEF Spec

-----------------------------------------------------------------------------
(* Responses in order, bodies whole                                        *)

(* All that was asked has been answered, and nothing more has come. *)
Idle(a) ==
    /\ Len(sent[a]) = Len(asked[a])
    /\ inflight[a] = <<>> /\ partial[a] = <<>> /\ stream[a] = {}

(* The last request is not answered yet. *)
Owing(a, q) ==
    conn[a] = "up" /\ Len(asked[a]) = Len(sent[a]) + 1 /\ asked[a][Len(asked[a])] = q

(* It is on its way, and was not cut in its head. *)
Arriving(a, q) ==
    /\ Owing(a, q)
    /\ partial[a] \o inflight[a] = Whole(q)
    /\ partial[a] = <<>> \/ Len(partial[a]) >= 5
    /\ stream[a] = {}

(* Its handler has been called, and has at most left a stream behind. *)
Served(a, q) ==
    /\ Owing(a, q)
    /\ inflight[a] = <<>> /\ partial[a] = <<>> /\ stream[a] \subseteq {q}

Orderly(a) ==
    /\ IsPrefix(sent[a], asked[a])
    /\ Idle(a) \/ \E q \in Requests : Arriving(a, q) \/ Served(a, q)
    /\ Intact(a)

OrderInv == \A a \in Addresses : conn[a] \in {"up", "closing"} /\ odd[a] = {} => Orderly(a)

LEMMA PrefixByElements ==
    ASSUME NEW S, NEW s \in Seq(S), NEW t \in Seq(S)
    PROVE  IsPrefix(s, t) <=> Len(s) <= Len(t) /\ \A i \in 1..Len(s) : s[i] = t[i]
  <1>1. Len(s) \in Nat /\ Len(t) \in Nat
    OBVIOUS
  <1>2. CASE Len(s) <= Len(t)
    <2> DEFINE u == SubSeq(s, 1, Len(s))
               v == SubSeq(t, 1, Len(s))
    <2>1. /\ u \in Seq(S) /\ Len(u) = Len(s) /\ \A i \in 1..Len(s) : u[i] = s[i]
          /\ v \in Seq(S) /\ Len(v) = Len(s) /\ \A i \in 1..Len(s) : v[i] = t[i]
      BY <1>1, <1>2, SubSeqProperties
    <2> HIDE DEF u, v
    <2>2. u = v <=> \A i \in 1..Len(s) : u[i] = v[i]
      BY <2>1, SeqEqual
    <2>3. u = v <=> \A i \in 1..Len(s) : s[i] = t[i]
      BY <2>1, <2>2
    <2>4. IsPrefix(s, t) <=> u = v
      BY <1>2 DEF IsPrefix, u, v
    <2>5. QED
      BY <1>2, <2>3, <2>4
  <1>3. CASE ~(Len(s) <= Len(t))
    BY <1>3 DEF IsPrefix
  <1>4. QED
    BY <1>2, <1>3

LEMMA PrefixOfLonger ==
    ASSUME NEW S, NEW s \in Seq(S), NEW t \in Seq(S), NEW e \in S, IsPrefix(s, t)
    PROVE  IsPrefix(s, Append(t, e))
  <1>1. /\ Append(t, e) \in Seq(S) /\ Len(Append(t, e)) = Len(t) + 1
        /\ \A i \in 1..Len(t) : Append(t, e)[i] = t[i]
    BY AppendProperties
  <1>2. Len(s) \in Nat /\ Len(t) \in Nat /\ Len(s) <= Len(t) /\ \A i \in 1..Len(s) : s[i] = t[i]
    BY PrefixByElements
  <1>3. \A i \in 1..Len(s) : i \in 1..Len(t)
    BY <1>2
  <1>4. \A i \in 1..Len(s) : s[i] = Append(t, e)[i]
    BY <1>1, <1>2, <1>3
  <1>5. Len(s) <= Len(Append(t, e))
    BY <1>1, <1>2
  <1>6. QED
    BY <1>1, <1>4, <1>5, PrefixByElements

LEMMA PrefixOneMore ==
    ASSUME NEW S, NEW s \in Seq(S), NEW t \in Seq(S), IsPrefix(s, t), Len(t) = Len(s) + 1
    PROVE  IsPrefix(Append(s, t[Len(t)]), t)
  <1>1. Len(s) \in Nat /\ Len(t) \in Nat /\ \A i \in 1..Len(s) : s[i] = t[i]
    BY PrefixByElements
  <1>2. t[Len(t)] \in S
    BY <1>1, ElementOfSeq
  <1> DEFINE u == Append(s, t[Len(t)])
  <1>3. /\ u \in Seq(S) /\ Len(u) = Len(t)
        /\ \A i \in 1..Len(s) : u[i] = s[i]
        /\ u[Len(t)] = t[Len(t)]
    BY <1>1, <1>2, AppendProperties
  <1> HIDE DEF u
  <1>4. \A i \in 1..Len(t) : i \in 1..Len(s) \/ i = Len(t)
    BY <1>1
  <1>5. \A i \in 1..Len(u) : u[i] = t[i]
    BY <1>1, <1>3, <1>4
  <1>6. Len(u) <= Len(t)
    BY <1>1, <1>3
  <1>7. IsPrefix(u, t)
    BY <1>3, <1>5, <1>6, PrefixByElements
  <1>8. QED
    BY <1>7 DEF u

(* Reading n more pieces leaves what was sent as it was: a part collected  *)
(* and a part in flight.                                                   *)
LEMMA ReadSplits ==
    ASSUME TypeOK, NEW a \in Addresses, NEW n \in 1..Len(inflight[a]), NEW q \in Requests,
           partial[a] \o inflight[a] = Whole(q)
    PROVE  /\ Collected(a, n) \o SubSeq(inflight[a], n + 1, Len(inflight[a])) = Whole(q)
           /\ \A i \in 1..Len(Collected(a, n)) : Collected(a, n)[i] = Whole(q)[i]
           /\ Len(Collected(a, n)) + Len(inflight[a]) - n = 5 + BodyLength[q]
           /\ n < Len(inflight[a]) => inflight[a][n + 1] = Whole(q)[Len(Collected(a, n)) + 1]
  <1> DEFINE p == partial[a]
             f == inflight[a]
             g == SubSeq(f, 1, n)
             r == SubSeq(f, n + 1, Len(f))
             c == p \o g
  <1>1. p \in Seq(Pieces) /\ f \in Seq(Pieces) /\ Len(p) \in Nat /\ Len(f) \in Nat /\ n \in Nat
        /\ n <= Len(f) /\ 1 <= n
    BY DEF TypeOK
  <1>2. p \o f = Whole(q) /\ Collected(a, n) = c
    BY DEF Collected
  <1> HIDE DEF p, f
  <1>3. g \in Seq(Pieces) /\ Len(g) = n /\ \A i \in 1..n : g[i] = f[i]
    BY <1>1, SubSeqProperties
  <1>4. r \in Seq(Pieces) /\ Len(r) = Len(f) - n /\ \A i \in 1..(Len(f) - n) : r[i] = f[n + i]
    <2>1. /\ r \in Seq(Pieces)
          /\ Len(r) = IF n + 1 <= Len(f) THEN Len(f) - (n + 1) + 1 ELSE 0
          /\ \A i \in 1..(Len(f) - (n + 1) + 1) : r[i] = f[(n + 1) + i - 1]
      BY <1>1, SubSeqProperties
    <2>2. Len(f) - (n + 1) + 1 = Len(f) - n
      BY <1>1
    <2>3. Len(r) = Len(f) - n
      <3>1. ~(n + 1 <= Len(f)) => Len(f) - n = 0
        BY <1>1
      <3>2. Len(r) = IF n + 1 <= Len(f) THEN Len(f) - n ELSE 0
        BY <2>1, <2>2
      <3>3. QED
        BY <3>1, <3>2
    <2>4. ASSUME NEW i \in 1..(Len(f) - n)
          PROVE  r[i] = f[n + i]
      <3>1. i \in 1..(Len(f) - (n + 1) + 1) /\ (n + 1) + i - 1 = n + i
        BY <1>1, <2>2
      <3>2. QED
        BY <2>1, <3>1
    <2>5. QED
      BY <2>1, <2>3, <2>4
  <1> HIDE DEF g, r
  <1>5. /\ c \in Seq(Pieces) /\ Len(c) = Len(p) + n
        /\ \A i \in 1..(Len(p) + n) : c[i] = IF i <= Len(p) THEN p[i] ELSE g[i - Len(p)]
    BY <1>1, <1>3, ConcatProperties
  <1>6. /\ Whole(q) \in Seq(Pieces) /\ Len(Whole(q)) = Len(p) + Len(f)
        /\ \A i \in 1..(Len(p) + Len(f)) :
              Whole(q)[i] = IF i <= Len(p) THEN p[i] ELSE f[i - Len(p)]
    <2>1. /\ p \o f \in Seq(Pieces) /\ Len(p \o f) = Len(p) + Len(f)
          /\ \A i \in 1..(Len(p) + Len(f)) :
                (p \o f)[i] = IF i <= Len(p) THEN p[i] ELSE f[i - Len(p)]
      BY <1>1, ConcatProperties
    <2>2. QED
      BY <1>2, <2>1
  <1> HIDE DEF c
  <1>7. ASSUME NEW i \in 1..(Len(p) + n)
        PROVE  c[i] = Whole(q)[i]
    <2>1. i \in 1..(Len(p) + Len(f)) /\ (~(i <= Len(p)) => i - Len(p) \in 1..n)
      BY <1>1
    <2>2. QED
      BY <1>3, <1>5, <1>6, <2>1
  <1>8. /\ c \o r \in Seq(Pieces) /\ Len(c \o r) = Len(p) + Len(f)
        /\ \A i \in 1..(Len(p) + Len(f)) :
              (c \o r)[i] = IF i <= Len(p) + n THEN c[i] ELSE r[i - (Len(p) + n)]
    <2>1. /\ c \o r \in Seq(Pieces) /\ Len(c \o r) = Len(c) + Len(r)
          /\ \A i \in 1..(Len(c) + Len(r)) :
                (c \o r)[i] = IF i <= Len(c) THEN c[i] ELSE r[i - Len(c)]
      BY <1>4, <1>5, ConcatProperties
    <2>2. Len(c) + Len(r) = Len(p) + Len(f)
      BY <1>1, <1>4, <1>5
    <2>3. QED
      BY <1>5, <2>1, <2>2
  <1>9. ASSUME NEW i \in 1..(Len(p) + Len(f))
        PROVE  (c \o r)[i] = Whole(q)[i]
    <2>1. CASE i <= Len(p) + n
      <3>1. i \in 1..(Len(p) + n)
        BY <1>1, <2>1
      <3>2. QED
        BY <1>7, <1>8, <2>1, <3>1
    <2>2. CASE ~(i <= Len(p) + n)
      <3>1. /\ i - (Len(p) + n) \in 1..(Len(f) - n) /\ ~(i <= Len(p))
            /\ n + (i - (Len(p) + n)) = i - Len(p)
        BY <1>1, <2>2
      <3>2. (c \o r)[i] = f[i - Len(p)]
        BY <1>4, <1>8, <2>2, <3>1
      <3>3. QED
        BY <1>6, <3>1, <3>2
    <2>3. QED
      BY <2>1, <2>2
  <1>10. c \o r = Whole(q)
    BY <1>6, <1>8, <1>9, SeqEqual
  <1>11. ASSUME n < Len(f)
         PROVE  f[n + 1] = Whole(q)[Len(c) + 1]
    <2> DEFINE j == Len(p) + n + 1
    <2>1. j \in 1..(Len(p) + Len(f)) /\ ~(j <= Len(p)) /\ j - Len(p) = n + 1
      BY <1>1, <1>11
    <2>2. Len(c) + 1 = j
      BY <1>5
    <2> HIDE DEF j
    <2>3. Whole(q)[j] = f[n + 1]
      <3>1. Whole(q)[j] = IF j <= Len(p) THEN p[j] ELSE f[j - Len(p)]
        BY <1>6, <2>1
      <3>2. QED
        BY <2>1, <3>1
    <2>4. QED
      BY <2>2, <2>3
  <1>12. Len(c) + Len(f) - n = 5 + BodyLength[q]
    <2>1. Len(Whole(q)) = 5 + BodyLength[q]
      BY WholeFacts
    <2>2. Len(Whole(q)) = Len(p) + Len(f) /\ Len(c) = Len(p) + n
      BY <1>5, <1>6
    <2>3. Len(p) + Len(f) = 5 + BodyLength[q]
      BY <2>1, <2>2
    <2>4. (Len(p) + n) + Len(f) - n = Len(p) + Len(f)
      BY <1>1
    <2>5. QED
      BY <2>2, <2>3, <2>4
  <1>13. QED
    BY <1>2, <1>5, <1>7, <1>10, <1>11, <1>12 DEF f, r

(* What a reading finds of a request that comes alone: when its head was   *)
(* not cut, all of the head; a refused or a complete request leaves        *)
(* nothing in flight; a complete one is handed over with its whole body.   *)
LEMMA ReadingFinds ==
    ASSUME TypeOK, NEW a \in Addresses, NEW n \in 1..Len(inflight[a]), NEW q \in Requests,
           partial[a] \o inflight[a] = Whole(q), OddReading(a, n) = {}
    PROVE  /\ Len(Collected(a, n)) >= 5
           /\ Collected(a, n)[1].req = q
           /\ \/ IsBad(Collected(a, n)) \/ ~IsIncomplete(Collected(a, n))
              => SubSeq(inflight[a], n + 1, Len(inflight[a])) = <<>>
           /\ ~IsBad(Collected(a, n)) /\ ~IsIncomplete(Collected(a, n))
              => Parsed(Collected(a, n)).body = BodyOf(q)
  <1> DEFINE c == Collected(a, n)
             f == inflight[a]
             w == Whole(q)
             r == SubSeq(f, n + 1, Len(f))
  <1>1. /\ c \in Seq(Pieces) /\ Len(c) \in Nat \ {0}
        /\ f \in Seq(Pieces) /\ Len(f) \in Nat /\ n \in 1..Len(f)
        /\ BodyLength[q] \in Nat
    BY CollectedType, LengthIsNat DEF TypeOK
  <1>2. /\ \A i \in 1..Len(c) : c[i] = w[i]
        /\ Len(c) + Len(f) - n = 5 + BodyLength[q]
        /\ n < Len(f) => f[n + 1] = w[Len(c) + 1]
    BY ReadSplits
  <1>3. /\ w \in Seq(Pieces) /\ Len(w) = 5 + BodyLength[q]
        /\ w[1] = Piece("method", q) /\ w[2] = Piece("target", q)
        /\ w[3] = Piece("name", q) /\ w[4] = Piece("value", q)
        /\ w[5] = Piece("blank", q)
        /\ \A i \in 6..(5 + BodyLength[q]) : w[i] = Piece("body", q)
    BY WholeFacts
  <1>4. /\ Last(c).kind \notin InHead
        /\ ~(IsBad(c) /\ n < Len(f) /\ f[n + 1].kind = "body")
    BY DEF OddReading
  <1>5. n = Len(f) => r = <<>>
    <2>1. ASSUME n = Len(f)
          PROVE  Len(r) = 0 /\ r \in Seq(Pieces)
      BY <1>1, <2>1, SubSeqProperties
    <2>2. QED
      BY <2>1
  <1> HIDE DEF c, f, w, r
  <1>6. Len(c) >= 5
    <2>1. c[Len(c)] = w[Len(c)] /\ Last(c) = c[Len(c)]
      BY <1>1, <1>2 DEF Last
    <2>2. /\ w[1].kind \in InHead /\ w[2].kind \in InHead
          /\ w[3].kind \in InHead /\ w[4].kind \in InHead
      <3>1. \A k \in InHead : Piece(k, q).kind \in InHead
        BY DEF Piece
      <3>2. {"method", "target", "name", "value"} \subseteq InHead
        BY DEF InHead
      <3>3. QED
        BY <1>3, <3>1, <3>2
    <2>3. w[Len(c)].kind \notin InHead
      BY <1>4, <2>1
    <2>4. Len(c) # 1 /\ Len(c) # 2 /\ Len(c) # 3 /\ Len(c) # 4
      BY <2>2, <2>3
    <2>5. Len(c) \in Nat \ {0}
      BY <1>1
    <2>6. \A k \in Nat \ {0} : k # 1 /\ k # 2 /\ k # 3 /\ k # 4 => k >= 5
      OBVIOUS
    <2>7. QED
      BY <2>4, <2>5, <2>6
  <1>7. c[1] = Piece("method", q) /\ c[2] = Piece("target", q)
    <2>1. Len(c) \in Nat
      BY <1>1
    <2>2. 1 \in 1..Len(c) /\ 2 \in 1..Len(c)
      BY <1>6, <2>1
    <2>3. c[1] = w[1] /\ c[2] = w[2]
      BY <1>2, <2>2
    <2>4. QED
      BY <1>3, <2>3
  <1>8. c[1].req = q /\ HasRequestLine(c) /\ LengthSeen(c) = BodyLength[q] /\ HeadEnded(c)
    BY <1>1, <1>6, <1>7 DEF Piece, HasRequestLine, LengthSeen, HeadEnded
  <1>9. n < Len(f) => f[n + 1].kind = "body"
    <2>1. ASSUME n < Len(f)
          PROVE  Len(c) + 1 \in 6..(5 + BodyLength[q])
      BY <1>1, <1>2, <1>6, <2>1
    <2>2. QED
      BY <1>2, <1>3, <2>1 DEF Piece
  <1>10. IsBad(c) => n = Len(f)
    BY <1>1, <1>4, <1>9
  <1>11. ~IsBad(c) /\ ~IsIncomplete(c) => n = Len(f) /\ Len(c) = 5 + BodyLength[q]
    <2>1. ~IsBad(c) /\ ~IsIncomplete(c) => ~(Len(c) - 5 < BodyLength[q])
      BY <1>8 DEF IsIncomplete
    <2>2. QED
      BY <1>1, <1>2, <2>1
  <1>12. ASSUME Len(c) = 5 + BodyLength[q]
         PROVE  Parsed(c).body = BodyOf(q)
    <2>1. Min({5 + LengthSeen(c), Len(c)}) = 5 + BodyLength[q]
      BY <1>1, <1>8, <1>12, SmallerOf
    <2> DEFINE l == 5 + BodyLength[q]
               b == SubSeq(c, 6, l)
    <2>2. Parsed(c).body = b
      BY <2>1 DEF Parsed
    <2>3. l \in Nat /\ l - 6 + 1 = BodyLength[q] /\ (6 <= l \/ BodyLength[q] = 0)
      BY <1>1
    <2>4. /\ b \in Seq(Pieces)
          /\ Len(b) = IF 6 <= l THEN l - 6 + 1 ELSE 0
          /\ \A i \in 1..(l - 6 + 1) : b[i] = c[6 + i - 1]
      BY <1>1, <1>12, <2>3, SubSeqProperties
    <2> HIDE DEF b
    <2>5. Len(b) = BodyLength[q]
      <3>1. CASE 6 <= l
        BY <2>3, <2>4, <3>1
      <3>2. CASE BodyLength[q] = 0
        <4>1. ~(6 <= l)
          BY <3>2
        <4>2. Len(b) = 0
          BY <2>4, <4>1
        <4>3. QED
          BY <3>2, <4>2
      <3>3. QED
        BY <2>3, <3>1, <3>2
    <2>6. ASSUME NEW i \in 1..BodyLength[q]
          PROVE  b[i] = Piece("body", q)
      <3>1. /\ i \in 1..(l - 6 + 1) /\ 6 + i - 1 \in 1..Len(c)
            /\ 6 + i - 1 \in 6..(5 + BodyLength[q])
        BY <1>1, <1>12
      <3>2. b[i] = c[6 + i - 1] /\ c[6 + i - 1] = w[6 + i - 1]
        BY <1>2, <2>4, <3>1
      <3>3. QED
        BY <1>3, <3>1, <3>2
    <2>7. b = BodyOf(q)
      BY <2>4, <2>5, <2>6, BodyFacts, SeqEqual
    <2>8. QED
      BY <2>2, <2>7
  <1>13. /\ Len(c) >= 5 /\ c[1].req = q
         /\ IsBad(c) \/ ~IsIncomplete(c) => r = <<>>
         /\ ~IsBad(c) /\ ~IsIncomplete(c) => Parsed(c).body = BodyOf(q)
    BY <1>5, <1>6, <1>8, <1>10, <1>11, <1>12
  <1>14. QED
    BY <1>13 DEF c, f, r

Fine(a) == conn[a] \in {"up", "closing"} /\ odd[a] = {}

(* A step on one connection says nothing of the others. *)
LEMMA OrderFrame ==
    ASSUME OrderInv, NEW a \in Addresses,
           \A b \in Addresses \ {a} :
              /\ conn'[b] = conn[b] /\ inflight'[b] = inflight[b] /\ partial'[b] = partial[b]
              /\ stream'[b] = stream[b] /\ asked'[b] = asked[b] /\ sent'[b] = sent[b]
              /\ got'[b] = got[b] /\ odd'[b] = odd[b],
           Fine(a)' => Orderly(a)'
    PROVE  OrderInv'
  <1>1. ASSUME NEW b \in Addresses \ {a}, Fine(b)'
        PROVE  Orderly(b)'
    <2>1. /\ conn'[b] = conn[b] /\ inflight'[b] = inflight[b] /\ partial'[b] = partial[b]
          /\ stream'[b] = stream[b] /\ asked'[b] = asked[b] /\ sent'[b] = sent[b]
          /\ got'[b] = got[b] /\ odd'[b] = odd[b]
      OBVIOUS
    <2>2. Orderly(b)
      BY <1>1, <2>1 DEF OrderInv, Fine
    <2>3. Idle(b) => Idle(b)'
      BY <2>1 DEF Idle
    <2>4. ASSUME NEW q \in Requests
          PROVE  /\ Arriving(b, q) => Arriving(b, q)'
                 /\ Served(b, q) => Served(b, q)'
      BY <2>1 DEF Arriving, Served, Owing
    <2>5. Intact(b)' /\ IsPrefix(sent'[b], asked'[b])
      BY <2>1, <2>2 DEF Orderly, Intact
    <2>6. QED
      BY <2>2, <2>3, <2>4, <2>5 DEF Orderly
  <1>2. QED
    BY <1>1 DEF OrderInv, Fine

(* What is received of the only request that is owed an answer. *)
LEMMA ReceiveKeepsOrder ==
    ASSUME TypeOK, NEW a \in Addresses, Orderly(a), NEW n \in 1..Len(inflight[a]), odd'[a] = {},
           \/ Wait(a, n) \/ Refuse(a, n) \/ Answer(a, n)
           \/ AnswerItself(a, n) \/ StartStream(a, n) \/ FallSilent(a, n)
    PROVE  Orderly(a)'
  <1> DEFINE c == Collected(a, n)
             r == SubSeq(inflight[a], n + 1, Len(inflight[a]))
             m == Len(asked[a])
  <1>1. /\ sent[a] \in Seq(Requests) /\ asked[a] \in Seq(Requests)
        /\ Len(sent[a]) \in Nat /\ m \in Nat
        /\ inflight[a] \in Seq(Pieces) /\ Len(inflight[a]) \in Nat
        /\ stream \in [Addresses -> SUBSET Requests]
        /\ got \in [Addresses -> HandlerCalls] /\ partial \in [Addresses -> Seq(Pieces)]
        /\ inflight \in [Addresses -> Seq(Pieces)] /\ sent \in [Addresses -> Seq(Requests)]
        /\ odd \in [Addresses -> SUBSET Oddities]
        /\ conn \in [Addresses -> {"free", "up", "closing", "down"}]
    BY DEF TypeOK
  <1>2. inflight[a] # <<>>
    BY <1>1
  <1>3. PICK q \in Requests : Arriving(a, q)
    BY <1>2 DEF Orderly, Idle, Served
  <1>4. /\ conn[a] = "up" /\ m = Len(sent[a]) + 1 /\ asked[a][m] = q
        /\ partial[a] \o inflight[a] = Whole(q) /\ stream[a] = {}
    BY <1>3 DEF Arriving, Owing
  <1>5. Read(a, n)
    BY DEF Wait, Refuse, Answer, AnswerItself, StartStream, FallSilent, Dispatch
  <1>6. asked' = asked /\ inflight'[a] = r /\ OddReading(a, n) = {}
    BY <1>1, <1>5 DEF Read
  <1>7. /\ Len(c) >= 5 /\ c[1].req = q
        /\ IsBad(c) \/ ~IsIncomplete(c) => r = <<>>
        /\ ~IsBad(c) /\ ~IsIncomplete(c) => Parsed(c).body = BodyOf(q)
        /\ c \o r = Whole(q)
    BY <1>4, <1>6, ReadingFinds, ReadSplits
  <1>8. Parsed(c).req = q
    BY <1>7 DEF Parsed
  <1>9. IsPrefix(sent[a], asked[a]) /\ Intact(a)
    BY DEF Orderly
  <1> HIDE DEF c, r, m
  (* A response on a connection that is up answers the request owed. *)
  <1>10. ASSUME NEW close \in BOOLEAN, Reply(a, q, close)
         PROVE  IsPrefix(sent'[a], asked'[a]) /\ Len(sent'[a]) = Len(asked'[a])
    <2>1. sent'[a] = Append(sent[a], q)
      BY <1>1, <1>4, <1>10 DEF Reply
    <2>2. IsPrefix(Append(sent[a], q), asked[a])
      BY <1>1, <1>4, <1>9, PrefixOneMore DEF m
    <2>3. Len(Append(sent[a], q)) = Len(sent[a]) + 1
      BY <1>1
    <2>4. QED
      BY <1>4, <1>6, <2>1, <2>2, <2>3 DEF m
  <1>11. CASE Wait(a, n)
    <2>1. /\ partial'[a] = c /\ UNCHANGED <<conn, stream, sent, got>>
      BY <1>1, <1>11 DEF Wait, c
    <2>2. Arriving(a, q)'
      BY <1>4, <1>6, <1>7, <2>1 DEF Arriving, Owing, m
    <2>3. QED
      BY <1>6, <1>9, <2>1, <2>2 DEF Orderly, Intact
  <1>12. CASE Refuse(a, n)
    <2>1. /\ partial'[a] = <<>> /\ UNCHANGED <<stream, got>>
          /\ inflight'[a] = <<>>
          /\ Reply(a, q, Closes(c))
      BY <1>1, <1>6, <1>7, <1>12 DEF Refuse, Erase, c
    <2>2. Closes(c) \in BOOLEAN
      BY DEF Closes, HasRequestLine
    <2>3. IsPrefix(sent'[a], asked'[a]) /\ Idle(a)'
      BY <1>4, <1>10, <2>1, <2>2 DEF Idle
    <2>4. QED
      BY <1>9, <2>1, <2>3 DEF Orderly, Intact
  <1>13. ASSUME NEW quiet \in BOOLEAN, Dispatch(a, n, quiet)
         PROVE  inflight'[a] = <<>> /\ partial'[a] = <<>> /\ Intact(a)'
    <2>1. ~IsBad(c) /\ ~IsIncomplete(c)
      BY <1>13 DEF Dispatch, c
    <2>2. /\ partial'[a] = <<>>
          /\ got'[a] = [req |-> Parsed(c).req, body |-> Parsed(c).body, quiet |-> quiet]
      BY <1>1, <1>13 DEF Dispatch, Erase, c
    <2>3. got'[a].req = q /\ got'[a].body = BodyOf(q)
      BY <1>7, <1>8, <2>1, <2>2
    <2>4. QED
      BY <1>6, <1>7, <2>1, <2>2, <2>3 DEF Intact
  <1>14. CASE Answer(a, n) \/ AnswerItself(a, n)
    <2>1. /\ Dispatch(a, n, FALSE) /\ UNCHANGED stream
          /\ Reply(a, q, Closes(c)) \/ Reply(a, q, TRUE)
      BY <1>8, <1>14 DEF Answer, AnswerItself, c
    <2>2. Closes(c) \in BOOLEAN
      BY DEF Closes, HasRequestLine
    <2>3. IsPrefix(sent'[a], asked'[a]) /\ Idle(a)'
      BY <1>4, <1>10, <1>13, <2>1, <2>2 DEF Idle
    <2>4. QED
      BY <1>13, <2>1, <2>3 DEF Orderly
  <1>15. CASE StartStream(a, n) \/ FallSilent(a, n)
    <2>1. PICK quiet \in BOOLEAN : Dispatch(a, n, quiet)
      BY <1>15 DEF StartStream, FallSilent
    <2>2. stream'[a] \subseteq {q} /\ UNCHANGED <<conn, sent>>
      BY <1>1, <1>4, <1>8, <1>15 DEF StartStream, FallSilent, c
    <2>3. Served(a, q)'
      BY <1>4, <1>6, <1>13, <2>1, <2>2 DEF Served, Owing, m
    <2>4. QED
      BY <1>6, <1>9, <1>13, <2>1, <2>2, <2>3 DEF Orderly
  <1>16. QED
    BY <1>11, <1>12, <1>14, <1>15

LEMMA OrderStep == TypeOK /\ GoneInv /\ OrderInv /\ [Next]_vars => OrderInv'
  <1> SUFFICES ASSUME TypeOK, GoneInv, OrderInv, [Next]_vars
               PROVE  OrderInv'
    OBVIOUS
  <1>0. /\ conn \in [Addresses -> {"free", "up", "closing", "down"}]
        /\ inflight \in [Addresses -> Seq(Pieces)] /\ partial \in [Addresses -> Seq(Pieces)]
        /\ stream \in [Addresses -> SUBSET Requests] /\ asked \in [Addresses -> Seq(Requests)]
        /\ sent \in [Addresses -> Seq(Requests)] /\ got \in [Addresses -> HandlerCalls]
        /\ odd \in [Addresses -> SUBSET Oddities]
    BY DEF TypeOK
  <1>1. ASSUME NEW a \in Addresses, Connect(a)
        PROVE  OrderInv'
    <2>1. /\ conn[a] = "free" /\ conn'[a] = "up"
          /\ odd'[a] = {} => partial[a] = <<>>
          /\ \A b \in Addresses \ {a} : conn'[b] = conn[b] /\ odd'[b] = odd[b]
          /\ UNCHANGED <<inflight, partial, stream, asked, sent, got>>
      BY <1>0, <1>1 DEF Connect
    <2>2. /\ inflight[a] = <<>> /\ asked[a] = <<>> /\ sent[a] = <<>> /\ got[a] = Unheard
          /\ stream[a] = {}
      BY <2>1 DEF GoneInv, TypeOK
    <2>3. IsPrefix(sent[a], asked[a])
      BY <1>0, <2>2, PrefixByElements
    <2>4. Intact(a)
      BY <2>2 DEF Intact, Unheard
    <2>5. Fine(a)' => Orderly(a)'
      BY <2>1, <2>2, <2>3, <2>4 DEF Fine, Orderly, Idle, Intact
    <2>6. QED
      BY <2>1, <2>5, OrderFrame
  <1>2. ASSUME NEW a \in Addresses, Disconnect(a)
        PROVE  OrderInv'
    <2>1. conn'[a] \in {"free", "down"}
      BY <1>0, <1>2 DEF Disconnect
    <2>2. QED
      BY <1>2, <2>1, OrderFrame DEF Disconnect, Fine
  <1>3. ASSUME NEW a \in Addresses, NEW q \in Requests, Ask(a, q)
        PROVE  OrderInv'
    <2>1. /\ conn[a] = "up"
          /\ inflight'[a] = inflight[a] \o HeadOf(q) \o BodyOf(q)
          /\ asked'[a] = Append(asked[a], q)
          /\ odd'[a] = IF Len(sent[a]) < Len(asked[a]) THEN odd[a] \cup {"pipelined"} ELSE odd[a]
          /\ UNCHANGED <<conn, partial, stream, sent, got>>
      BY <1>0, <1>3 DEF Ask
    <2>2. ASSUME Fine(a)'
          PROVE  Orderly(a)'
      <3>1. odd[a] = {} /\ ~(Len(sent[a]) < Len(asked[a]))
        BY <2>1, <2>2 DEF Fine
      <3>2. Orderly(a)
        BY <2>1, <3>1 DEF OrderInv
      <3>3. Idle(a)
        <4>1. Len(sent[a]) \in Nat
          BY <1>0
        <4>2. \A p \in Requests : ~Owing(a, p)
          BY <3>1, <4>1 DEF Owing
        <4>3. QED
          BY <3>2, <4>2 DEF Orderly, Arriving, Served
      <3>4. inflight'[a] = Whole(q) /\ <<>> \o Whole(q) = Whole(q)
        <4>1. <<>> \o HeadOf(q) = HeadOf(q)
          BY HeadFacts, ConcatEmptySeq
        <4>2. <<>> \o Whole(q) = Whole(q)
          BY WholeFacts, ConcatEmptySeq
        <4>3. QED
          BY <2>1, <3>3, <4>1, <4>2 DEF Idle, Whole
      <3>5. Arriving(a, q)'
        <4>1. Len(asked'[a]) = Len(sent'[a]) + 1 /\ asked'[a][Len(asked'[a])] = q
          BY <1>0, <2>1, <3>3, AppendProperties DEF Idle
        <4>2. QED
          BY <2>1, <3>3, <3>4, <4>1 DEF Arriving, Owing, Idle
      <3>6. IsPrefix(sent'[a], asked'[a])
        BY <1>0, <2>1, <3>2, PrefixOfLonger DEF Orderly
      <3>7. QED
        BY <2>1, <3>2, <3>5, <3>6 DEF Orderly, Intact
    <2>3. QED
      BY <1>0, <1>3, <2>2, OrderFrame DEF Ask
  <1>4. ASSUME NEW a \in Addresses, NEW q \in Requests, EndStream(a, q)
        PROVE  OrderInv'
    <2>1. /\ q \in stream[a] /\ stream'[a] = stream[a] \ {q}
          /\ UNCHANGED <<inflight, partial, asked, got, odd>>
          /\ \A b \in Addresses \ {a} : /\ stream'[b] = stream[b] /\ conn'[b] = conn[b]
                                        /\ sent'[b] = sent[b]
      BY <1>0, <1>4 DEF EndStream, Reply
    <2>2. ASSUME Fine(a)'
          PROVE  Orderly(a)'
      <3>1. conn[a] \in {"up", "closing"} /\ Reply(a, q, TRUE)
        BY <1>0, <1>4, <2>2 DEF EndStream, Reply, Fine
      <3>2. Orderly(a)
        BY <2>1, <2>2, <3>1 DEF OrderInv, Fine
      <3>3. Served(a, q)
        BY <2>1, <3>2 DEF Orderly, Idle, Arriving, Served
      <3>4. conn[a] = "up" /\ sent'[a] = Append(sent[a], q)
        BY <1>0, <3>1, <3>3 DEF Reply, Served, Owing
      <3>5. /\ Len(asked[a]) = Len(sent[a]) + 1 /\ asked[a][Len(asked[a])] = q
            /\ inflight[a] = <<>> /\ partial[a] = <<>> /\ stream[a] \subseteq {q}
        BY <3>3 DEF Served, Owing
      <3>6. IsPrefix(Append(sent[a], q), asked[a])
        BY <1>0, <3>2, <3>5, PrefixOneMore DEF Orderly
      <3>7. Idle(a)'
        BY <1>0, <2>1, <3>4, <3>5 DEF Idle
      <3>8. QED
        BY <2>1, <3>2, <3>4, <3>6, <3>7 DEF Orderly, Intact
    <2>3. QED
      BY <2>1, <2>2, OrderFrame
  <1>5. ASSUME NEW a \in Addresses, NEW n \in 1..Len(inflight[a]),
               \/ Wait(a, n) \/ Refuse(a, n) \/ Answer(a, n)
               \/ AnswerItself(a, n) \/ StartStream(a, n) \/ FallSilent(a, n)
        PROVE  OrderInv'
    <2>1. Read(a, n)
      BY <1>5 DEF Wait, Refuse, Answer, AnswerItself, StartStream, FallSilent, Dispatch
    <2>2. /\ odd'[a] = {} => odd[a] = {}
          /\ conn[a] \in {"up", "closing"}
      BY <1>0, <2>1 DEF Read
    <2>3. Fine(a)' => Orderly(a)'
      BY <1>5, <2>2, ReceiveKeepsOrder DEF OrderInv, Fine
    <2>4. \A b \in Addresses \ {a} :
              /\ conn'[b] = conn[b] /\ inflight'[b] = inflight[b] /\ partial'[b] = partial[b]
              /\ stream'[b] = stream[b] /\ asked'[b] = asked[b] /\ sent'[b] = sent[b]
              /\ got'[b] = got[b] /\ odd'[b] = odd[b]
      BY <1>0, <1>5 DEF Wait, Refuse, Answer, AnswerItself, StartStream, FallSilent, Dispatch,
         Read, Reply, Erase
    <2>5. QED
      BY <2>3, <2>4, OrderFrame
  <1>6. CASE UNCHANGED vars
    BY <1>6 DEF vars, OrderInv, Orderly, Idle, Arriving, Served, Owing, Intact
  <1>7. QED
    BY <1>1, <1>2, <1>3, <1>4, <1>5, <1>6 DEF Next, Receive

(* TypeOK, GoneInv and OrderInv are inductive together. *)
LEMMA OrderHolds == Spec => [](TypeOK /\ GoneInv /\ OrderInv)
  <1>1. Init => OrderInv
    BY DEF Init, OrderInv
  <1>2. QED
    BY <1>1, InitType, TypeStep, GoneStep, OrderStep, PTL DEF Spec

(* Whatever the cuts of the bodies, whoever answers (HttpServer, the       *)
(* handler, a worker that ends a stream) and whatever other connections    *)
(* do, the responses on a connection answer its requests one for one, in   *)
(* the order they were sent.                                               *)
THEOREM ResponsesInOrder == Spec => []AnsweredInOrder
  <1>1. TypeOK /\ GoneInv /\ OrderInv => AnsweredInOrder
    <2> SUFFICES ASSUME TypeOK, GoneInv, OrderInv, NEW a \in Addresses, odd[a] = {}
                 PROVE  IsPrefix(sent[a], asked[a])
      BY DEF AnsweredInOrder
    <2>1. CASE conn[a] \in {"up", "closing"}
      BY <2>1 DEF OrderInv, Orderly
    <2>2. CASE conn[a] \in {"free", "down"}
      <3>1. sent[a] = <<>> /\ asked[a] = <<>>
        BY <2>2 DEF GoneInv
      <3>2. QED
        BY <3>1, PrefixByElements DEF TypeOK
    <2>3. QED
      BY <2>1, <2>2 DEF TypeOK
  <1>2. QED
    BY <1>1, OrderHolds, PTL

(* A handler is called with the whole body of the request it is called     *)
(* for, however TCP cuts that body, unless something odd happened on the   *)
(* connection: a head cut, requests pipelined, an address with unfinished  *)
(* bytes of a connection before, a refusal before the body had come.       *)
THEOREM BodiesWhole == Spec => []HandledWhole
  <1>1. TypeOK /\ GoneInv /\ OrderInv => HandledWhole
    <2> SUFFICES ASSUME TypeOK, GoneInv, OrderInv, NEW a \in Addresses, odd[a] = {}
                 PROVE  Intact(a)
      BY DEF HandledWhole
    <2>1. CASE conn[a] \in {"up", "closing"}
      BY <2>1 DEF OrderInv, Orderly
    <2>2. CASE conn[a] \in {"free", "down"}
      BY <2>2 DEF GoneInv, Intact, Unheard
    <2>3. QED
      BY <2>1, <2>2 DEF TypeOK
  <1>2. QED
    BY <1>1, OrderHolds, PTL
=============================================================================
