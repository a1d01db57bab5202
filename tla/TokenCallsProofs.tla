-------------------------- MODULE TokenCallsProofs --------------------------
(* Proofs of the safety properties of TokenCalls, for every set of tokens, *)
(* calls and connections and any request_out_time.                        *)
EXTENDS TokenCalls, SequenceTheorems, TLAPS

-----------------------------------------------------------------------------
(* The invariants                                                          *)

\* Serials are drawn from the token of the call, and never twice.
Numbered ==
    /\ \A c \in Calls :
          pc[c] # "idle" => tok[c] \in created /\ 0 < serial[c] /\ serial[c] < serial_atomic[tok[c]]
    /\ \A b, c \in Calls :
          pc[b] # "idle" /\ pc[c] # "idle" /\ tok[b] = tok[c] /\ serial[b] = serial[c] => b = c

\* A call has the peer it cloned from when it registers, a connection its token from
\* get_peer_token on; a task has a sender in hand only while it reads.
Bound ==
    /\ \A c \in Calls :
          /\ pc[c] = "idle" => rx[c] = Is("none") /\ via[c] = NoConn
          /\ pc[c] = "insert" => rx[c] = Is("none")
          /\ pc[c] \in {"send", "wait"} => rx[c].kind # "none"
          /\ rx[c].kind # "none" => via[c] \in Conns
    /\ \A d \in Conns :
          /\ conn[d] # "idle" => serves[d] \in created
          /\ hand[d] # NoCall => conn[d] = "reading"

Typing == TypeOK /\ Numbered /\ Bound

Has(d, c) == hand[d] # NoCall /\ hand[d].sender = c

\* A call has its sender in the result_dict of its own token or in one hand, never in
\* both, and then its receiver is empty or dropped.
Senders ==
    /\ \A t \in Tokens : \A c \in result_dict[t] :
          /\ tok[c] = t
          /\ rx[c] \in {Is("empty"), Is("dropped")}
          /\ \A d \in Conns : ~Has(d, c)
    /\ \A d \in Conns, c \in Calls : Has(d, c) => rx[c] \in {Is("empty"), Is("dropped")}
    /\ \A d, e \in Conns, c \in Calls : Has(d, c) /\ Has(e, c) => d = e
    /\ \A c \in Calls :
          rx[c] = Is("empty") => c \in result_dict[tok[c]] \/ \E d \in Conns : Has(d, c)

\* The peer of a token serves that token.
Attached ==
    /\ \A t \in Tokens : peer[t] # NoConn => conn[peer[t]] # "idle" /\ serves[peer[t]] = t
    /\ \A c \in Calls :
          rx[c].kind # "none" => conn[via[c]] # "idle" /\ serves[via[c]] = tok[c]

\* A frame carries the serial of its call, and is on the connection of its call.
Own(f) ==
    /\ rx[f.call].kind # "none"
    /\ pc[f.call] # "idle"
    /\ f.serial = serial[f.call]
    /\ f.conn = via[f.call]

Framed ==
    /\ \A f \in requests \cup answers : Own(f)
    /\ \A d \in Conns : hand[d] # NoCall => hand[d].answer = hand[d].sender
    /\ \A c \in Calls : rx[c].kind = "answer" => rx[c].call = c

\* A call runs once, and only when its request was sent; an answer is of one that ran.
Unsent(c) == c \notin executed /\ \A r \in requests : r.call # c
RunsOnce ==
    /\ \A r \in requests : r.call \notin executed
    /\ \A a \in answers : a.call \in executed
    /\ \A d \in Conns : hand[d] # NoCall => hand[d].answer \in executed
    /\ \A c \in Calls : pc[c] \in {"idle", "insert", "send"} => Unsent(c)

-----------------------------------------------------------------------------
(* Operators                                                               *)

LEMMA OlderType == \A a \in Ages : Older(a) \in Ages
BY OutTimeAssumption DEF Older, Ages

\* What a receiver may hold is told apart by its kind.
LEMMA RxKinds ==
    /\ \A k \in {"none", "empty", "dropped", "timeout"} :
          Is(k).kind = k /\ Is(k) \in Received
    /\ \A c \in Calls : Ok(c).kind = "answer" /\ Ok(c).call = c /\ Ok(c) \in Received
BY DEF Is, Ok, Received

\* The clock leaves every queue as long as it was, with the serials where they were.
LEMMA TickQueue ==
    ASSUME request_queue \in [Tokens -> Seq(Entries)], Tick
    PROVE  /\ request_queue' \in [Tokens -> Seq(Entries)]
           /\ \A t \in Tokens :
                 /\ Len(request_queue'[t]) = Len(request_queue[t])
                 /\ \A i \in 1 .. Len(request_queue[t]) :
                       request_queue'[t][i].serial = request_queue[t][i].serial
<1>1. ASSUME NEW t \in Tokens
      PROVE  /\ request_queue'[t] \in Seq(Entries)
             /\ Len(request_queue'[t]) = Len(request_queue[t])
             /\ \A i \in 1 .. Len(request_queue[t]) :
                   request_queue'[t][i].serial = request_queue[t][i].serial
  <2>1. PICK q \in Seq(Entries) : q = request_queue[t] OBVIOUS
  <2>2. PICK p : p = request_queue'[t] OBVIOUS
  <2>3. p = [i \in 1 .. Len(q) |-> [q[i] EXCEPT !.age = Older(@)]]
    BY <2>1, <2>2 DEF Tick
  <2>4. \A i \in 1 .. Len(q) :
           /\ [q[i] EXCEPT !.age = Older(@)] \in Entries
           /\ [q[i] EXCEPT !.age = Older(@)].serial = q[i].serial
    <3>1. TAKE i \in 1 .. Len(q)
    <3>2. q[i] \in Entries BY ElementOfSeq
    <3>3. q[i].age \in Ages BY <3>2 DEF Entries
    <3>4. QED BY <3>2, <3>3, OlderType DEF Entries
  <2>5. Len(q) \in Nat /\ p \in [1 .. Len(q) -> Entries] BY <2>3, <2>4, LenProperties
  <2>6. p \in Seq(Entries) BY <2>5, SeqDef
  <2>7. 1 .. Len(p) = 1 .. Len(q) /\ Len(p) \in Nat BY <2>5, <2>6, LenProperties
  <2>8. Len(p) = Len(q) BY <2>5, <2>7
  <2>9. QED BY <2>1, <2>2, <2>3, <2>4, <2>6, <2>8
<1>2. request_queue' \in [Tokens -> Seq(Entries)]
  <2> DEFINE aged(t) == [i \in 1 .. Len(request_queue[t]) |->
                           [request_queue[t][i] EXCEPT !.age = Older(@)]]
  <2>1. request_queue' = [t \in Tokens |-> aged(t)] BY DEF Tick
  <2> HIDE DEF aged
  <2>2. \A t \in Tokens : aged(t) \in Seq(Entries) BY <1>1, <2>1
  <2>3. QED BY <2>1, <2>2
<1>3. QED BY <1>1, <1>2

\* check_request_timeout ends calls of its token only, and leaves a call that stays
\* registered where it was queued.
LEMMA TimeoutEffect ==
    ASSUME TypeOK, NEW t \in Tokens, CheckRequestTimeout(t)
    PROVE  \E late \in SUBSET result_dict[t] :
              /\ result_dict' = [result_dict EXCEPT ![t] = @ \ late]
              /\ rx' = [c \in Calls |->
                           IF c \in late /\ rx[c] = Is("empty") THEN Is("timeout") ELSE rx[c]]
              /\ request_queue' \in [Tokens -> Seq(Entries)]
              /\ \A u \in Tokens \ {t} : request_queue'[u] = request_queue[u]
              /\ \A c \in result_dict[t] \ late :
                    (\E i \in 1 .. Len(request_queue[t]) : request_queue[t][i].serial = serial[c])
                    => \E i \in 1 .. Len(request_queue'[t]) : request_queue'[t][i].serial = serial[c]
<1>1. PICK q \in Seq(Entries) : q = request_queue[t] BY DEF TypeOK
<1>2. PICK n \in 0 .. Len(request_queue[t]) :
         LET late == {c \in result_dict[t] :
                        \E i \in 1 .. n : request_queue[t][i].serial = serial[c]}
         IN  /\ result_dict' = [result_dict EXCEPT ![t] = @ \ late]
             /\ rx' = [c \in Calls |->
                         IF c \in late /\ rx[c] = Is("empty") THEN Is("timeout") ELSE rx[c]]
             /\ request_queue' = [request_queue EXCEPT ![t] =
                   SubSeq(request_queue[t], n + 1, Len(request_queue[t]))]
  BY Zenon DEF CheckRequestTimeout
<1>3. PICK late : late = {c \in result_dict[t] : \E i \in 1 .. n : q[i].serial = serial[c]}
  OBVIOUS
<1>4. Len(q) \in Nat /\ n \in Nat /\ n <= Len(q) BY <1>1, LenProperties
<1>5. \A i \in n + 1 .. Len(q) : q[i] \in Entries BY <1>4, ElementOfSeq
<1>6. PICK p : p = SubSeq(q, n + 1, Len(q)) OBVIOUS
<1>7. /\ p \in Seq(Entries)
      /\ Len(p) = Len(q) - n
      /\ \A i \in 1 .. Len(q) - n : p[i] = q[n + i]
  <2>1. n + 1 \in Int /\ Len(q) \in Int BY <1>4
  <2>2. /\ p \in Seq(Entries)
        /\ Len(p) = IF n + 1 <= Len(q) THEN Len(q) - (n + 1) + 1 ELSE 0
        /\ \A i \in 1 .. Len(q) - (n + 1) + 1 : p[i] = q[(n + 1) + i - 1]
    BY <1>5, <1>6, <2>1, SubSeqProperties
  <2>3. QED BY <1>4, <2>2
<1>8. request_queue' = [request_queue EXCEPT ![t] = p] BY <1>1, <1>2, <1>6
<1>9. /\ request_queue' \in [Tokens -> Seq(Entries)] /\ request_queue'[t] = p
      /\ \A u \in Tokens \ {t} : request_queue'[u] = request_queue[u]
  BY <1>7, <1>8 DEF TypeOK
<1>10. ASSUME NEW c \in result_dict[t] \ late,
              NEW i \in 1 .. Len(q), q[i].serial = serial[c]
       PROVE  \E j \in 1 .. Len(p) : p[j].serial = serial[c]
  <2>1. i \notin 1 .. n BY <1>3, <1>10
  <2>2. i - n \in 1 .. Len(p) /\ p[i - n] = q[i] BY <1>4, <1>7, <2>1
  <2>3. QED BY <1>10, <2>2
<1>11. late \in SUBSET result_dict[t] BY <1>3
<1>12. result_dict' = [result_dict EXCEPT ![t] = @ \ late] BY <1>1, <1>2, <1>3
<1>13. rx' = [c \in Calls |->
                IF c \in late /\ rx[c] = Is("empty") THEN Is("timeout") ELSE rx[c]]
  BY <1>1, <1>2, <1>3
<1>14. \A c \in result_dict[t] \ late :
          (\E i \in 1 .. Len(request_queue[t]) : request_queue[t][i].serial = serial[c])
          => \E i \in 1 .. Len(request_queue'[t]) : request_queue'[t][i].serial = serial[c]
  BY <1>1, <1>9, <1>10
<1>15. QED BY <1>9, <1>11, <1>12, <1>13, <1>14

-----------------------------------------------------------------------------
(* Type correctness                                                        *)

LEMMA InitTyping == Init => Typing
<1> SUFFICES ASSUME Init PROVE Typing
  OBVIOUS
<1>1. request_queue \in [Tokens -> Seq(Entries)]
  <2>1. << >> \in Seq(Entries) BY EmptySeq
  <2>2. QED BY <2>1 DEF Init
<1>2. serial_atomic \in [Tokens -> 1 .. MaxSerial + 1] BY MaxSerialAssumption DEF Init
<1>3. TypeOK BY <1>1, <1>2, RxKinds DEF Init, TypeOK
<1>4. QED BY <1>3, RxKinds DEF Init, Typing, Numbered, Bound

\* A call that has begun has a token and a serial of it.
LEMMA CallNumber ==
    ASSUME TypeOK, Numbered, NEW c \in Calls, pc[c] # "idle"
    PROVE  tok[c] \in Tokens /\ serial[c] \in Serials
<1>1. serial[c] \in Serials \cup {0} /\ created \subseteq Tokens BY DEF TypeOK
<1>2. serial[c] # 0 /\ tok[c] \in created BY DEF Numbered
<1>3. QED BY <1>1, <1>2

LEMMA TypingStep == Typing /\ [Next]_vars => Typing'
<1> SUFFICES ASSUME Typing, [Next]_vars PROVE Typing'
  OBVIOUS
<1> USE DEF managerVars, tokenVars, callVars, connVars, checkVars, wireVars, Goto
<1>ty. TypeOK /\ Numbered /\ Bound BY DEF Typing
<1>q. SUFFICES TypeOK' /\ Numbered' /\ Bound'
  BY DEF Typing
<1>1. ASSUME NEW c \in Calls, Call(c) PROVE TypeOK' /\ Numbered' /\ Bound'
  <2>1. ASSUME NEW t \in Tokens, NewSerial(c, t) PROVE TypeOK' /\ Numbered' /\ Bound'
    <3>1. /\ pc[c] = "idle" /\ t \in created /\ serial_atomic[t] <= MaxSerial
          /\ tok' = [tok EXCEPT ![c] = t]
          /\ serial' = [serial EXCEPT ![c] = serial_atomic[t]]
          /\ serial_atomic' = [serial_atomic EXCEPT ![t] = serial_atomic[t] + 1]
          /\ pc' = [pc EXCEPT ![c] = "insert"]
      BY <2>1 DEF NewSerial
    <3>2. serial_atomic[t] \in 1 .. MaxSerial + 1 BY <1>ty DEF TypeOK
    <3>3. serial_atomic[t] \in Serials /\ serial_atomic[t] + 1 \in 1 .. MaxSerial + 1
      BY <3>1, <3>2, MaxSerialAssumption DEF Serials
    <3>4. TypeOK' BY <1>ty, <2>1, <3>1, <3>3 DEF NewSerial, TypeOK
    <3>5. Numbered'
      <4>1. \A b \in Calls : pc[b] # "idle" => tok[b] \in Tokens /\ serial[b] \in Nat
        BY <1>ty, MaxSerialAssumption DEF TypeOK, Numbered, Serials
      <4>2. \A u \in Tokens : serial_atomic[u] \in Nat
        BY <1>ty, MaxSerialAssumption DEF TypeOK
      <4>3. \A b \in Calls \ {c} :
               pc'[b] = pc[b] /\ tok'[b] = tok[b] /\ serial'[b] = serial[b]
        BY <1>ty, <3>1 DEF TypeOK
      <4>4. tok'[c] = t /\ serial'[c] = serial_atomic[t] BY <1>ty, <3>1 DEF TypeOK
      <4>5. \A u \in Tokens : serial_atomic[u] <= serial_atomic'[u]
        BY <1>ty, <3>1, <4>2 DEF TypeOK
      <4>6. serial_atomic'[t] = serial_atomic[t] + 1 BY <1>ty, <3>1 DEF TypeOK
      <4>7. created' = created BY <2>1 DEF NewSerial
      <4>8. ASSUME NEW b \in Calls, pc'[b] # "idle"
            PROVE  /\ tok'[b] \in created' /\ 0 < serial'[b]
                   /\ serial'[b] < serial_atomic'[tok'[b]]
        <5>1. CASE b = c BY <3>1, <3>2, <4>2, <4>4, <4>6, <4>7, <5>1
        <5>2. CASE b # c
          <6>1. /\ tok[b] \in created /\ 0 < serial[b] /\ serial[b] < serial_atomic[tok[b]]
                /\ tok[b] \in Tokens /\ serial[b] \in Nat
            BY <1>ty, <4>1, <4>3, <4>8, <5>2 DEF Numbered
          <6>2. serial_atomic[tok[b]] \in Nat /\ serial_atomic'[tok[b]] \in Nat
            BY <3>1, <4>2, <4>6, <6>1, <1>ty DEF TypeOK
          <6>3. QED BY <4>3, <4>5, <4>7, <5>2, <6>1, <6>2
        <5>3. QED BY <5>1, <5>2
      <4>9. ASSUME NEW a \in Calls, NEW b \in Calls,
                   pc'[a] # "idle", pc'[b] # "idle", tok'[a] = tok'[b], serial'[a] = serial'[b]
            PROVE  a = b
        <5>1. \A e \in Calls \ {c} :
                 pc[e] # "idle" /\ tok[e] = t => serial[e] < serial_atomic[t]
          BY <1>ty DEF Numbered
        <5>2. \A e \in Calls \ {c} :
                 pc[e] # "idle" /\ tok[e] = t => serial[e] # serial_atomic[t]
          BY <4>1, <4>2, <5>1
        <5>3. QED BY <1>ty, <4>3, <4>4, <4>9, <5>2 DEF Numbered
      <4>10. QED BY <4>8, <4>9 DEF Numbered
    <3>6. Bound' BY <1>ty, <2>1, <3>1 DEF NewSerial, TypeOK, Bound
    <3>7. QED BY <3>4, <3>5, <3>6
  <2>2. CASE Insert(c)
    <3>1. /\ pc[c] = "insert" /\ peer[tok[c]] # NoConn
          /\ result_dict' = [result_dict EXCEPT ![tok[c]] = @ \cup {c}]
          /\ request_queue' = [request_queue EXCEPT ![tok[c]] =
                                  Append(@, [serial |-> serial[c], age |-> 0])]
          /\ via' = [via EXCEPT ![c] = peer[tok[c]]]
          /\ rx' = [rx EXCEPT ![c] = Is("empty")]
          /\ pc' = [pc EXCEPT ![c] = "send"]
      BY <2>2 DEF Insert
    <3>2. tok[c] \in Tokens /\ serial[c] \in Serials BY <1>ty, <3>1, CallNumber
    <3>3. peer[tok[c]] \in Conns BY <1>ty, <3>1, <3>2 DEF TypeOK
    <3>4. [serial |-> serial[c], age |-> 0] \in Entries
      BY <3>2, OutTimeAssumption DEF Entries, Ages
    <3>5. Append(request_queue[tok[c]], [serial |-> serial[c], age |-> 0]) \in Seq(Entries)
      BY <1>ty, <3>2, <3>4, AppendProperties DEF TypeOK
    <3>6. request_queue' \in [Tokens -> Seq(Entries)] BY <1>ty, <3>1, <3>2, <3>5 DEF TypeOK
    <3>7. TypeOK' BY <1>ty, <2>2, <3>1, <3>2, <3>3, <3>6, RxKinds DEF Insert, TypeOK
    <3>8. Numbered' BY <1>ty, <2>2, <3>1 DEF Insert, Numbered, TypeOK
    <3>9. Bound' BY <1>ty, <2>2, <3>1, <3>3, RxKinds DEF Insert, Bound, TypeOK
    <3>10. QED BY <3>7, <3>8, <3>9
  <2>3. CASE Send(c)
    <3>p. pc[c] = "send" BY <2>3 DEF Send
    <3>1. serial[c] \in Serials BY <1>ty, <3>p, CallNumber
    <3>w. via[c] \in Conns BY <1>ty, <2>3 DEF Send, Bound
    <3>2. [call |-> c, serial |-> serial[c], conn |-> via[c]] \in Frames
      BY <3>1, <3>w DEF Frames
    <3>3. TypeOK' BY <1>ty, <2>3, <3>2 DEF Send, TypeOK
    <3>4. Numbered' BY <1>ty, <2>3 DEF Send, Numbered, TypeOK
    <3>5. Bound' BY <1>ty, <2>3 DEF Send, Bound, TypeOK
    <3>6. QED BY <3>3, <3>4, <3>5
  <2>4. CASE Leave(c) /\ pc[c] # "idle"
    <3>1. TypeOK' BY <1>ty, <2>4, RxKinds DEF Leave, TypeOK
    <3>2. Numbered' BY <1>ty, <2>4 DEF Leave, Numbered, TypeOK
    <3>3. Bound' BY <1>ty, <2>4, RxKinds DEF Leave, Bound, TypeOK
    <3>4. QED BY <3>1, <3>2, <3>3
  <2>5. CASE Bail(c) \/ Return(c)
    <3>1. TypeOK' BY <1>ty, <2>5 DEF Bail, Return, TypeOK
    <3>2. Numbered'
      <4>1. /\ UNCHANGED <<tok, serial, created, serial_atomic>>
            /\ pc[c] # "idle" /\ pc' = [pc EXCEPT ![c] = "done"]
        BY <2>5 DEF Bail, Return
      <4>2. QED BY <1>ty, <4>1 DEF Numbered, TypeOK
    <3>3. Bound' BY <1>ty, <2>5 DEF Bail, Return, Bound, TypeOK
    <3>4. QED BY <3>1, <3>2, <3>3
  <2>6. QED
    BY <1>1, <2>1, <2>2, <2>3, <2>4, <2>5 DEF Call, Progress, SendFails, Cancel
<1>2. ASSUME NEW t \in Tokens, Create(t) PROVE TypeOK' /\ Numbered' /\ Bound'
  <2>1. TypeOK' BY <1>ty, <1>2 DEF Create, TypeOK
  <2>2. Numbered' BY <1>ty, <1>2 DEF Create, Numbered
  <2>3. Bound' BY <1>ty, <1>2 DEF Create, Bound
  <2>4. QED BY <2>1, <2>2, <2>3
<1>3. ASSUME NEW d \in Conns, Conn(d) PROVE TypeOK' /\ Numbered' /\ Bound'
  <2>1. ASSUME NEW t \in Tokens, Resolve(d, t) PROVE TypeOK' /\ Numbered' /\ Bound'
    <3>1. TypeOK' BY <1>ty, <2>1 DEF Resolve, TypeOK
    <3>2. Numbered' BY <1>ty, <2>1 DEF Resolve, Numbered
    <3>3. Bound' BY <1>ty, <2>1 DEF Resolve, Bound, TypeOK
    <3>4. QED BY <3>1, <3>2, <3>3
  <2>2. ASSUME NEW a \in answers, TakeResult(d, a) PROVE TypeOK' /\ Numbered' /\ Bound'
    <3>1. a.call \in Calls /\ conn[d] = "reading" /\ answers' = answers \ {a}
      BY <1>ty, <2>2 DEF TakeResult, TypeOK, Frames
    <3>2. \/ \E c \in result_dict[serves[d]] :
                /\ result_dict' = [result_dict EXCEPT ![serves[d]] = @ \ {c}]
                /\ hand' = [hand EXCEPT ![d] = [sender |-> c, answer |-> a.call]]
          \/ UNCHANGED <<result_dict, hand>>
      BY <2>2 DEF TakeResult, Registered
    <3>3. serves[d] \in Tokens BY <1>ty, <3>1 DEF TypeOK, Bound
    <3>4. /\ result_dict' \in [Tokens -> SUBSET Calls]
          /\ hand' \in [Conns -> [sender : Calls, answer : Calls] \cup {NoCall}]
          /\ \A e \in Conns \ {d} : hand'[e] = hand[e]
      <4>1. /\ result_dict \in [Tokens -> SUBSET Calls]
            /\ hand \in [Conns -> [sender : Calls, answer : Calls] \cup {NoCall}]
        BY <1>ty DEF TypeOK
      <4>2. ASSUME NEW c \in result_dict[serves[d]],
                   result_dict' = [result_dict EXCEPT ![serves[d]] = @ \ {c}],
                   hand' = [hand EXCEPT ![d] = [sender |-> c, answer |-> a.call]]
            PROVE  /\ result_dict' \in [Tokens -> SUBSET Calls]
                   /\ hand' \in [Conns -> [sender : Calls, answer : Calls] \cup {NoCall}]
                   /\ \A e \in Conns \ {d} : hand'[e] = hand[e]
        <5>1. [sender |-> c, answer |-> a.call] \in [sender : Calls, answer : Calls]
          BY <3>1, <3>3, <4>1
        <5>2. QED BY <3>3, <4>1, <4>2, <5>1
      <4>3. QED BY <3>2, <4>1, <4>2
    <3>5. TypeOK' BY <1>ty, <2>2, <3>1, <3>4 DEF TakeResult, TypeOK
    <3>6. Numbered' BY <1>ty, <2>2 DEF TakeResult, Numbered
    <3>7. Bound' BY <1>ty, <2>2, <3>1, <3>4 DEF TakeResult, Bound
    <3>8. QED BY <3>5, <3>6, <3>7
  <2>3. CASE Attach(d)
    <3>1. TypeOK' BY <1>ty, <2>3 DEF Attach, TypeOK
    <3>2. Numbered' BY <1>ty, <2>3 DEF Attach, Numbered
    <3>3. Bound' BY <1>ty, <2>3 DEF Attach, Bound, TypeOK
    <3>4. QED BY <3>1, <3>2, <3>3
  <2>4. CASE SendResult(d)
    <3>1. hand[d] \in [sender : Calls, answer : Calls]
      BY <1>ty, <2>4 DEF SendResult, TypeOK
    <3>2. PICK s \in Calls, c \in Calls : s = hand[d].sender /\ c = hand[d].answer
      BY <3>1
    <3>3. /\ conn[d] = "reading"
          /\ hand' = [hand EXCEPT ![d] = NoCall]
          /\ \/ rx[s] = Is("empty") /\ rx' = [rx EXCEPT ![s] = Ok(c)] /\ UNCHANGED conn
             \/ conn' = [conn EXCEPT ![d] = "detach"] /\ UNCHANGED rx
          /\ UNCHANGED <<managerVars, tokenVars, pc, tok, serial, via, serves, checkVars,
                         wireVars>>
      BY <2>4, <3>2 DEF SendResult
    <3>4. Ok(c) \in Received /\ Ok(c).kind = "answer" BY RxKinds
    <3>5. TypeOK' BY <1>ty, <3>3, <3>4 DEF TypeOK
    <3>6. Numbered' BY <1>ty, <3>3 DEF Numbered
    <3>7. Bound' BY <1>ty, <3>3, <3>4, RxKinds DEF Bound, TypeOK
    <3>8. QED BY <3>5, <3>6, <3>7
  <2>5. CASE EndReading(d) \/ Detach(d)
    <3>1. TypeOK' BY <1>ty, <2>5 DEF EndReading, Detach, TypeOK
    <3>2. Numbered' BY <1>ty, <2>5 DEF EndReading, Detach, Numbered
    <3>3. Bound' BY <1>ty, <2>5 DEF EndReading, Detach, Bound, TypeOK
    <3>4. QED BY <3>1, <3>2, <3>3
  <2>6. QED BY <1>3, <2>1, <2>2, <2>3, <2>4, <2>5 DEF Conn
<1>4. CASE Checker
  <2>1. CASE StartWalk \/ Sweep
    <3>1. TypeOK' BY <1>ty, <2>1 DEF StartWalk, Sweep, TypeOK
    <3>2. Numbered' BY <1>ty, <2>1 DEF StartWalk, Sweep, Numbered
    <3>3. Bound' BY <1>ty, <2>1 DEF StartWalk, Sweep, Bound
    <3>4. QED BY <3>1, <3>2, <3>3
  <2>2. ASSUME NEW t \in Tokens, Visit(t) PROVE TypeOK' /\ Numbered' /\ Bound'
    <3>1. PICK late \in SUBSET result_dict[t] :
             /\ result_dict' = [result_dict EXCEPT ![t] = @ \ late]
             /\ rx' = [c \in Calls |->
                   IF c \in late /\ rx[c] = Is("empty") THEN Is("timeout") ELSE rx[c]]
             /\ request_queue' \in [Tokens -> Seq(Entries)]
      BY <1>ty, <2>2, TimeoutEffect DEF Visit
    <3>2. /\ walk' = walk \ {t}
          /\ UNCHANGED <<managerVars, peer, serial_atomic, pc, tok, serial, via, connVars,
                         check, wireVars>>
      BY <2>2 DEF Visit
    <3>3. rx' \in [Calls -> Received] BY <1>ty, <3>1, RxKinds DEF TypeOK
    <3>4. TypeOK' BY <1>ty, <3>1, <3>2, <3>3 DEF TypeOK
    <3>5. Numbered' BY <1>ty, <3>2 DEF Numbered
    <3>6. Bound' BY <1>ty, <3>1, <3>2, RxKinds DEF Bound, TypeOK
    <3>7. QED BY <3>4, <3>5, <3>6
  <2>3. QED BY <1>4, <2>1, <2>2 DEF Checker
<1>5. ASSUME NEW r \in requests, Execute(r) PROVE TypeOK' /\ Numbered' /\ Bound'
  <2>1. r \in Frames /\ r.call \in Calls BY <1>ty DEF TypeOK, Frames
  <2>2. TypeOK' BY <1>ty, <1>5, <2>1 DEF Execute, TypeOK
  <2>3. Numbered' BY <1>ty, <1>5 DEF Execute, Numbered
  <2>4. Bound' BY <1>ty, <1>5 DEF Execute, Bound
  <2>5. QED BY <2>2, <2>3, <2>4
<1>6. CASE Tick
  <2>1. TypeOK' BY <1>ty, <1>6, TickQueue DEF Tick, TypeOK
  <2>2. Numbered' BY <1>ty, <1>6 DEF Tick, Numbered
  <2>3. Bound' BY <1>ty, <1>6 DEF Tick, Bound
  <2>4. QED BY <2>1, <2>2, <2>3
<1>7. CASE UNCHANGED vars
  <2>1. TypeOK' BY <1>ty, <1>7 DEF vars, TypeOK
  <2>2. Numbered' BY <1>ty, <1>7 DEF vars, Numbered
  <2>3. Bound' BY <1>ty, <1>7 DEF vars, Bound
  <2>4. QED BY <2>1, <2>2, <2>3
<1>8. QED BY <1>1, <1>2, <1>3, <1>4, <1>5, <1>6, <1>7 DEF Next

\* Every variable keeps its type.
THEOREM TypeCorrect == Spec => []TypeOK
<1>1. Typing => TypeOK BY DEF Typing
<1>2. QED BY <1>1, InitTyping, TypingStep, PTL DEF Spec

-----------------------------------------------------------------------------
(* Senders                                                                 *)

LEMMA SendersStep == Typing /\ Senders /\ [Next]_vars => Senders'
<1> SUFFICES ASSUME Typing, Senders, [Next]_vars PROVE Senders'
  OBVIOUS
<1> USE DEF Senders, Has, managerVars, tokenVars, callVars, connVars, checkVars, wireVars
<1>ty. /\ result_dict \in [Tokens -> SUBSET Calls]
       /\ tok \in [Calls -> Tokens \cup {NoToken}]
       /\ rx \in [Calls -> Received]
       /\ hand \in [Conns -> [sender : Calls, answer : Calls] \cup {NoCall}]
  BY DEF Typing, TypeOK
<1>rx. /\ Is("empty") # Is("none") /\ Is("dropped") # Is("none")
       /\ Is("empty") # Is("dropped") /\ Is("empty") # Is("timeout")
       /\ \A c \in Calls : Ok(c) # Is("empty")
  BY RxKinds
<1>1. ASSUME NEW c \in Calls, Call(c) PROVE Senders'
  <2>1. ASSUME NEW t \in Tokens, NewSerial(c, t) PROVE Senders'
    <3>1. /\ tok' = [tok EXCEPT ![c] = t]
          /\ UNCHANGED <<result_dict, rx, hand>>
          /\ pc[c] = "idle"
      BY <2>1 DEF NewSerial
    <3>2. rx[c] = Is("none") BY <3>1 DEF Typing, Bound
    <3>3. \A u \in Tokens : c \notin result_dict[u] BY <1>rx, <3>2
    <3>4. QED BY <1>ty, <1>rx, <3>1, <3>2, <3>3
  <2>2. CASE Insert(c)
    <3>1. /\ result_dict' = [result_dict EXCEPT ![tok[c]] = @ \cup {c}]
          /\ rx' = [rx EXCEPT ![c] = Is("empty")]
          /\ UNCHANGED <<tok, hand>>
          /\ pc[c] = "insert"
      BY <2>2 DEF Insert
    <3>2. tok[c] \in Tokens BY <3>1, CallNumber DEF Typing
    <3>3. rx[c] = Is("none") BY <3>1 DEF Typing, Bound
    <3>4. \A d \in Conns : ~Has(d, c) BY <1>rx, <3>3
    <3>5. QED BY <1>ty, <1>rx, <3>1, <3>2, <3>4
  <2>3. CASE Leave(c)
    <3>1. /\ rx' = [rx EXCEPT ![c] = IF rx[c] = Is("empty") THEN Is("dropped") ELSE rx[c]]
          /\ UNCHANGED <<result_dict, tok, hand>>
      BY <2>3 DEF Leave
    <3>2. QED BY <1>ty, <1>rx, <3>1
  <2>4. CASE Bail(c) \/ Send(c) \/ Return(c)
    BY <2>4 DEF Bail, Send, Return
  <2>5. QED
    BY <1>1, <2>1, <2>2, <2>3, <2>4 DEF Call, Progress, SendFails, Cancel
<1>2. ASSUME NEW t \in Tokens, Create(t) PROVE Senders'
  BY <1>2 DEF Create
<1>3. ASSUME NEW d \in Conns, Conn(d) PROVE Senders'
  <2>1. ASSUME NEW a \in answers, TakeResult(d, a) PROVE Senders'
    <3>1. UNCHANGED <<tok, rx>> /\ hand[d] = NoCall /\ conn[d] = "reading"
      BY <2>1 DEF TakeResult
    <3>2. serves[d] \in Tokens BY <3>1 DEF Typing, TypeOK, Bound
    <3>3. ASSUME NEW c \in result_dict[serves[d]],
                 result_dict' = [result_dict EXCEPT ![serves[d]] = @ \ {c}],
                 hand' = [hand EXCEPT ![d] = [sender |-> c, answer |-> a.call]]
          PROVE  Senders'
      <4>1. a.call \in Calls /\ c \in Calls BY <1>ty, <3>2 DEF Typing, TypeOK, Frames
      <4>r. [sender |-> c, answer |-> a.call] \in [sender : Calls, answer : Calls] BY <4>1
      <4> DEFINE h == [sender |-> c, answer |-> a.call]
      <4>2. h.sender = c OBVIOUS
      <4>3. h # NoCall BY <4>r, NoneAssumption
      <4>4. hand' = [hand EXCEPT ![d] = h] BY <3>3
      <4> HIDE DEF h
      <4>5. /\ tok[c] = serves[d] /\ rx[c] \in {Is("empty"), Is("dropped")}
            /\ \A e \in Conns : ~Has(e, c)
        BY <3>2
      <4>6. \A u \in Tokens : c \in result_dict[u] => u = serves[d] BY <4>5
      <4>7. \A u \in Tokens :
               result_dict'[u] = IF u = serves[d] THEN result_dict[u] \ {c} ELSE result_dict[u]
        BY <1>ty, <3>3
      <4>8. \A e \in Conns : hand'[e] = IF e = d THEN h ELSE hand[e] BY <1>ty, <4>4
      <4>9. \A e \in Conns, b \in Calls : Has(e, b)' <=> (IF e = d THEN b = c ELSE Has(e, b))
        BY <4>2, <4>3, <4>8
      <4> HIDE DEF Has
      <4>10. \A u \in Tokens : \A b \in result_dict'[u] :
               /\ tok'[b] = u
               /\ rx'[b] \in {Is("empty"), Is("dropped")}
               /\ \A e \in Conns : ~Has(e, b)'
        <5>1. TAKE u \in Tokens
        <5>2. TAKE b \in result_dict'[u]
        <5>3. b \in result_dict[u] /\ b # c /\ b \in Calls
          <6>1. result_dict'[u] = IF u = serves[d] THEN result_dict[u] \ {c} ELSE result_dict[u]
            BY <4>7
          <6>2. b \in result_dict[u] BY <5>2, <6>1
          <6>3. b # c BY <4>6, <5>2, <6>1, <6>2
          <6>4. QED BY <1>ty, <6>2, <6>3
        <5>4. tok[b] = u /\ rx[b] \in {Is("empty"), Is("dropped")} /\ \A e \in Conns : ~Has(e, b)
          BY <5>3
        <5>5. QED BY <3>1, <4>9, <5>3, <5>4
      <4>11. /\ \A e \in Conns, b \in Calls : Has(e, b)' => rx'[b] \in {Is("empty"), Is("dropped")}
             /\ \A e, f \in Conns, b \in Calls : Has(e, b)' /\ Has(f, b)' => e = f
        BY <3>1, <4>5, <4>9
      <4>12. \A b \in Calls :
                rx'[b] = Is("empty") => b \in result_dict'[tok'[b]] \/ \E e \in Conns : Has(e, b)'
        <5>1. TAKE b \in Calls
        <5>2. HAVE rx'[b] = Is("empty")
        <5>3. CASE b = c BY <4>9, <5>3
        <5>4. CASE b # c
          <6>1. b \in result_dict[tok[b]] \/ \E e \in Conns : Has(e, b) BY <3>1, <5>2
          <6>2. CASE b \in result_dict[tok[b]]
            <7>1. tok'[b] = tok[b] /\ tok[b] \in Tokens \cup {NoToken} BY <1>ty, <3>1
            <7>2. CASE tok[b] = serves[d] BY <1>ty, <3>2, <3>3, <5>4, <6>2, <7>1, <7>2
            <7>3. CASE tok[b] # serves[d] BY <1>ty, <3>2, <3>3, <5>4, <6>2, <7>1, <7>3
            <7>4. QED BY <7>2, <7>3
          <6>3. CASE \E e \in Conns : Has(e, b)
            <7>1. PICK e \in Conns : Has(e, b) BY <6>3
            <7>2. e # d BY <3>1, <7>1 DEF Has
            <7>3. QED BY <4>9, <7>1, <7>2
          <6>4. QED BY <6>1, <6>2, <6>3
        <5>5. QED BY <5>3, <5>4
      <4>13. QED BY <4>10, <4>11, <4>12
    <3>4. CASE UNCHANGED <<result_dict, hand>> BY <3>1, <3>4
    <3>5. QED BY <2>1, <3>3, <3>4 DEF TakeResult, Registered
  <2>2. CASE SendResult(d)
    <3>1. hand[d] \in [sender : Calls, answer : Calls] /\ hand[d] # NoCall
      BY <1>ty, <2>2 DEF SendResult
    <3>2. PICK s \in Calls, c \in Calls : s = hand[d].sender /\ c = hand[d].answer
      BY <3>1
    <3>3. /\ hand' = [hand EXCEPT ![d] = NoCall]
          /\ \/ rx[s] = Is("empty") /\ rx' = [rx EXCEPT ![s] = Ok(c)]
             \/ rx[s] # Is("empty") /\ UNCHANGED rx
          /\ UNCHANGED <<result_dict, tok>>
      BY <2>2, <3>2 DEF SendResult
    <3>4. Has(d, s) BY <3>1, <3>2
    <3>5. \A t \in Tokens : s \notin result_dict[t] BY <3>4
    <3>6. \A e \in Conns : Has(e, s) => e = d BY <3>4
    <3>7. QED BY <1>ty, <1>rx, <3>2, <3>3, <3>4, <3>5, <3>6
  <2>3. CASE (\E t \in Tokens : Resolve(d, t)) \/ Attach(d) \/ EndReading(d) \/ Detach(d)
    BY <2>3 DEF Resolve, Attach, EndReading, Detach
  <2>4. QED BY <1>3, <2>1, <2>2, <2>3 DEF Conn
<1>4. CASE Checker
  <2>1. ASSUME NEW t \in Tokens, Visit(t) PROVE Senders'
    <3>1. PICK late \in SUBSET result_dict[t] :
             /\ result_dict' = [result_dict EXCEPT ![t] = @ \ late]
             /\ rx' = [c \in Calls |->
                   IF c \in late /\ rx[c] = Is("empty") THEN Is("timeout") ELSE rx[c]]
      BY <2>1, TimeoutEffect DEF Visit, Typing
    <3>2. UNCHANGED <<tok, hand>> BY <2>1 DEF Visit
    <3>3. \A c \in late : tok[c] = t /\ \A d \in Conns : ~Has(d, c) OBVIOUS
    <3>4. QED BY <1>ty, <1>rx, <3>1, <3>2, <3>3
  <2>2. CASE StartWalk \/ Sweep BY <2>2 DEF StartWalk, Sweep
  <2>3. QED BY <1>4, <2>1, <2>2 DEF Checker
<1>5. ASSUME NEW r \in requests, Execute(r) PROVE Senders' BY <1>5 DEF Execute
<1>6. CASE Tick BY <1>6 DEF Tick
<1>7. CASE UNCHANGED vars BY <1>7 DEF vars
<1>8. QED BY <1>1, <1>2, <1>3, <1>4, <1>5, <1>6, <1>7 DEF Next

\* No sender is lost, and no two tasks answer one call: while a receiver is empty, one
\* connection task or the result_dict of the call's token has its sender.
THEOREM SenderIsUnique == Spec => []WaiterHasSender
<1>1. Init => Senders BY RxKinds DEF Init, Senders, Has
<1>2. Typing /\ Senders => WaiterHasSender
  <2> SUFFICES ASSUME Typing, Senders, NEW c \in Calls, rx[c] = Is("empty")
               PROVE  IF c \in result_dict[tok[c]] THEN InHand(c) = {}
                      ELSE \E d \in Conns : InHand(c) = {d}
    BY DEF WaiterHasSender
  <2>1. InHand(c) = {d \in Conns : Has(d, c)} BY DEF InHand, Has
  <2>2. pc[c] # "idle" BY RxKinds DEF Typing, Bound
  <2>3. tok[c] \in Tokens BY <2>2, CallNumber DEF Typing
  <2>4. CASE c \in result_dict[tok[c]] BY <2>1, <2>3, <2>4 DEF Senders
  <2>5. CASE c \notin result_dict[tok[c]]
    <3>1. PICK d \in Conns : Has(d, c) BY <2>5 DEF Senders
    <3>2. InHand(c) = {d} BY <2>1, <3>1 DEF Senders
    <3>3. QED BY <2>5, <3>2
  <2>6. QED BY <2>4, <2>5
<1>3. QED BY <1>1, <1>2, InitTyping, TypingStep, SendersStep, PTL DEF Spec

LEMMA DetachStep ==
    ASSUME Typing, Senders, [Next]_vars, NEW d \in Conns,
           hand[d] # NoCall, conn'[d] = "detach"
    PROVE  rx[hand[d].sender] = Is("dropped")
<1> USE DEF managerVars, tokenVars, callVars, connVars, checkVars, wireVars
<1>ty. conn \in [Conns -> {"idle", "attach", "reading", "detach", "done"}]
  BY DEF Typing, TypeOK
<1>1. conn[d] = "reading" BY DEF Typing, Bound
<1>2. ~UNCHANGED conn BY <1>1
<1>3. ASSUME NEW c \in Calls, Call(c) PROVE FALSE
  BY <1>2, <1>3
  DEF Call, NewSerial, Progress, Insert, Bail, Send, SendFails, Cancel, Leave, Return
<1>4. ASSUME NEW t \in Tokens, Create(t) PROVE FALSE BY <1>2, <1>4 DEF Create
<1>5. ASSUME NEW e \in Conns, Conn(e) PROVE rx[hand[d].sender] = Is("dropped")
  <2>1. ASSUME NEW t \in Tokens, Resolve(e, t) PROVE FALSE
    BY <1>ty, <1>1, <2>1 DEF Resolve
  <2>2. ASSUME NEW a \in answers, TakeResult(e, a) PROVE FALSE BY <1>2, <2>2 DEF TakeResult
  <2>3. CASE Attach(e) BY <1>ty, <1>1, <2>3 DEF Attach
  <2>4. CASE EndReading(e) BY <1>ty, <1>1, <2>4 DEF EndReading
  <2>5. CASE Detach(e) BY <1>ty, <1>1, <2>5 DEF Detach
  <2>6. CASE SendResult(e)
    <3>1. /\ conn' = [conn EXCEPT ![e] = "detach"]
          /\ rx[hand[e].sender] # Is("empty")
      BY <1>2, <2>6 DEF SendResult
    <3>2. e = d BY <1>ty, <1>1, <3>1
    <3>3. hand[d].sender \in Calls BY DEF Typing, TypeOK
    <3>4. rx[hand[d].sender] \in {Is("empty"), Is("dropped")} BY <3>3 DEF Senders, Has
    <3>5. QED BY <3>1, <3>2, <3>4
  <2>7. QED BY <1>5, <2>1, <2>2, <2>3, <2>4, <2>5, <2>6 DEF Conn
<1>6. CASE Checker
  <2>1. ASSUME NEW t \in Tokens, Visit(t) PROVE FALSE BY <1>2, <2>1 DEF Visit
  <2>2. QED BY <1>2, <1>6, <2>1 DEF Checker, StartWalk, Sweep
<1>7. ASSUME NEW r \in requests, Execute(r) PROVE FALSE BY <1>2, <1>7 DEF Execute
<1>8. CASE Tick BY <1>2, <1>8 DEF Tick
<1>9. CASE UNCHANGED vars BY <1>2, <1>9 DEF vars
<1>10. QED BY <1>3, <1>4, <1>5, <1>6, <1>7, <1>8, <1>9 DEF Next

\* SerialClose ends a connection only for an answer whose caller had dropped the call:
\* an answer that races the timeout of its call never ends the connection it came by.
THEOREM LateAnswers == Spec => LateAnswerIsHarmless
<1>1. Init => Senders BY RxKinds DEF Init, Senders, Has
<1>2. Typing /\ Senders /\ [Next]_vars
      => [\A d \in Conns : hand[d] # NoCall /\ conn'[d] = "detach"
                            => rx[hand[d].sender] = Is("dropped")]_vars
  BY DetachStep
<1>3. QED
  BY <1>1, <1>2, InitTyping, TypingStep, SendersStep, PTL DEF Spec, LateAnswerIsHarmless

-----------------------------------------------------------------------------
(* Timeouts                                                                *)

LEMMA QueuedStep ==
    Typing /\ Senders /\ PendingIsQueued /\ [Next]_vars => PendingIsQueued'
<1> SUFFICES ASSUME Typing, Senders, PendingIsQueued, [Next]_vars PROVE PendingIsQueued'
  OBVIOUS
<1> USE DEF managerVars, tokenVars, callVars, connVars, checkVars, wireVars
<1>ty. /\ result_dict \in [Tokens -> SUBSET Calls]
       /\ request_queue \in [Tokens -> Seq(Entries)]
       /\ tok \in [Calls -> Tokens \cup {NoToken}]
       /\ serial \in [Calls -> Serials \cup {0}]
  BY DEF Typing, TypeOK
<1>in. \A t \in Tokens : \A c \in result_dict[t] :
          /\ tok[c] = t
          /\ \E i \in 1 .. Len(request_queue[t]) : request_queue[t][i].serial = serial[c]
  BY DEF PendingIsQueued, Queued
<1>st. SUFFICES ASSUME NEW t \in Tokens, NEW c \in result_dict'[t]
                PROVE  /\ tok'[c] = t
                       /\ \E i \in 1 .. Len(request_queue'[t]) :
                             request_queue'[t][i].serial = serial'[c]
  BY DEF PendingIsQueued, Queued
<1>sub. ASSUME result_dict'[t] \subseteq result_dict[t], UNCHANGED <<tok, serial, request_queue>>
        PROVE  /\ tok'[c] = t
               /\ \E i \in 1 .. Len(request_queue'[t]) :
                     request_queue'[t][i].serial = serial'[c]
  BY <1>in, <1>sub
<1> DEFINE Goal == /\ tok'[c] = t
                   /\ \E i \in 1 .. Len(request_queue'[t]) :
                         request_queue'[t][i].serial = serial'[c]
<1>1. ASSUME NEW b \in Calls, Call(b) PROVE Goal
  <2>1. ASSUME NEW u \in Tokens, NewSerial(b, u) PROVE Goal
    <3>1. /\ tok' = [tok EXCEPT ![b] = u]
          /\ serial' = [serial EXCEPT ![b] = serial_atomic[u]]
          /\ UNCHANGED <<result_dict, request_queue>>
          /\ pc[b] = "idle"
      BY <2>1 DEF NewSerial
    <3>2. rx[b] = Is("none") BY <3>1 DEF Typing, Bound
    <3>3. b \notin result_dict[t] BY <3>2, RxKinds DEF Senders
    <3>4. c \in Calls /\ c # b BY <1>ty, <3>1, <3>3
    <3>5. tok'[c] = tok[c] /\ serial'[c] = serial[c] BY <1>ty, <3>1, <3>4
    <3>6. QED BY <1>in, <3>1, <3>5
  <2>2. CASE Insert(b)
    <3>1. /\ pc[b] = "insert"
          /\ result_dict' = [result_dict EXCEPT ![tok[b]] = @ \cup {b}]
          /\ request_queue' = [request_queue EXCEPT ![tok[b]] =
                                  Append(@, [serial |-> serial[b], age |-> 0])]
          /\ UNCHANGED <<tok, serial>>
      BY <2>2 DEF Insert
    <3>2. tok[b] \in Tokens /\ serial[b] \in Serials BY <3>1, CallNumber DEF Typing
    <3>3. CASE t = tok[b]
      <4> DEFINE e == [serial |-> serial[b], age |-> 0]
      <4>1. e \in Entries BY <3>2, OutTimeAssumption DEF Entries, Ages
      <4>2. PICK q \in Seq(Entries) : q = request_queue[t] BY <1>ty
      <4>3. e.serial = serial[b] OBVIOUS
      <4>4. request_queue'[t] = Append(q, e) BY <1>ty, <3>1, <3>3, <4>2
      <4> HIDE DEF e
      <4>5. /\ Len(q) \in Nat /\ Len(Append(q, e)) = Len(q) + 1
            /\ \A i \in 1 .. Len(q) : Append(q, e)[i] = q[i]
            /\ Append(q, e)[Len(q) + 1] = e
        BY <4>1, AppendProperties, LenProperties
      <4>6. CASE c = b BY <3>1, <3>3, <4>3, <4>4, <4>5, <4>6
      <4>7. CASE c # b
        <5>1. c \in result_dict[t] BY <1>ty, <3>1, <3>3, <4>7
        <5>2. tok[c] = t BY <1>in, <5>1
        <5>3. PICK i \in 1 .. Len(q) : q[i].serial = serial[c] BY <1>in, <4>2, <5>1
        <5>4. i \in 1 .. Len(Append(q, e)) /\ Append(q, e)[i].serial = serial[c]
          BY <4>5, <5>3
        <5>5. QED BY <3>1, <4>4, <5>2, <5>4
      <4>8. QED BY <4>6, <4>7
    <3>4. CASE t # tok[b]
      <4>1. result_dict'[t] = result_dict[t] /\ request_queue'[t] = request_queue[t]
        BY <1>ty, <3>1, <3>2, <3>4
      <4>2. QED BY <1>in, <3>1, <4>1
    <3>5. QED BY <3>3, <3>4
  <2>3. CASE Bail(b) \/ Send(b) \/ Leave(b) \/ Return(b)
    <3>1. UNCHANGED <<result_dict, request_queue, tok, serial>>
      BY <2>3 DEF Bail, Send, Leave, Return
    <3>2. QED BY <1>sub, <3>1
  <2>4. QED BY <1>1, <2>1, <2>2, <2>3 DEF Call, Progress, SendFails, Cancel
<1>2. ASSUME NEW u \in Tokens, Create(u) PROVE Goal BY <1>sub, <1>2 DEF Create
<1>3. ASSUME NEW d \in Conns, Conn(d) PROVE Goal
  <2>1. ASSUME NEW a \in answers, TakeResult(d, a) PROVE Goal
    <3>1. UNCHANGED <<request_queue, tok, serial>> BY <2>1 DEF TakeResult
    <3>2. result_dict'[t] \subseteq result_dict[t]
      <4>1. \/ \E b \in Registered(serves[d], a.serial) :
                  result_dict' = [result_dict EXCEPT ![serves[d]] = @ \ {b}]
            \/ UNCHANGED result_dict
        BY <2>1 DEF TakeResult
      <4>2. QED BY <1>ty, <4>1
    <3>3. QED BY <1>sub, <3>1, <3>2
  <2>2. CASE (\E u \in Tokens : Resolve(d, u)) \/ Attach(d) \/ SendResult(d)
               \/ EndReading(d) \/ Detach(d)
    <3>1. UNCHANGED <<result_dict, request_queue, tok, serial>>
      BY <2>2 DEF Resolve, Attach, SendResult, EndReading, Detach
    <3>2. QED BY <1>sub, <3>1
  <2>3. QED BY <1>3, <2>1, <2>2 DEF Conn
<1>4. CASE Checker
  <2>1. ASSUME NEW u \in Tokens, Visit(u) PROVE Goal
    <3>1. PICK late \in SUBSET result_dict[u] :
             /\ result_dict' = [result_dict EXCEPT ![u] = @ \ late]
             /\ \A v \in Tokens \ {u} : request_queue'[v] = request_queue[v]
             /\ \A b \in result_dict[u] \ late :
                    (\E i \in 1 .. Len(request_queue[u]) : request_queue[u][i].serial = serial[b])
                    => \E i \in 1 .. Len(request_queue'[u]) : request_queue'[u][i].serial = serial[b]
      BY <2>1, TimeoutEffect DEF Visit, Typing
    <3>2. UNCHANGED <<tok, serial>> BY <2>1 DEF Visit
    <3>3. CASE t = u
      <4>1. c \in result_dict[t] \ late BY <1>ty, <3>1, <3>3
      <4>2. QED BY <1>in, <3>1, <3>2, <3>3, <4>1
    <3>4. CASE t # u
      <4>1. result_dict'[t] = result_dict[t] /\ request_queue'[t] = request_queue[t]
        BY <1>ty, <3>1, <3>4
      <4>2. QED BY <1>in, <3>2, <4>1
    <3>5. QED BY <3>3, <3>4
  <2>2. CASE StartWalk \/ Sweep BY <1>sub, <2>2 DEF StartWalk, Sweep
  <2>3. QED BY <1>4, <2>1, <2>2 DEF Checker
<1>5. ASSUME NEW r \in requests, Execute(r) PROVE Goal BY <1>sub, <1>5 DEF Execute
<1>6. CASE Tick
  <2>1. UNCHANGED <<result_dict, tok, serial>> BY <1>6 DEF Tick
  <2>2. PICK i \in 1 .. Len(request_queue[t]) : request_queue[t][i].serial = serial[c]
    BY <1>in, <2>1
  <2>3. /\ Len(request_queue'[t]) = Len(request_queue[t])
        /\ request_queue'[t][i].serial = request_queue[t][i].serial
    BY <1>ty, <1>6, TickQueue
  <2>4. QED BY <1>in, <2>1, <2>2, <2>3
<1>7. CASE UNCHANGED vars BY <1>sub, <1>7 DEF vars
<1>8. QED BY <1>1, <1>2, <1>3, <1>4, <1>5, <1>6, <1>7 DEF Next

\* A registered call, its caller being there or not, is in request_queue of its token
\* under its own serial: what check_request_timeout pops ends no other call.
THEOREM TimeoutIsDue == Spec => []PendingIsQueued
<1>1. Init => Senders /\ PendingIsQueued
  BY RxKinds DEF Init, Senders, Has, PendingIsQueued
<1>2. QED
  BY <1>1, InitTyping, TypingStep, SendersStep, QueuedStep, PTL DEF Spec

-----------------------------------------------------------------------------
(* Answers                                                                 *)

\* A registered call keeps its token, serial and peer; only Insert registers one.
LEMMA CallKeeps ==
    ASSUME Typing, [Next]_vars, NEW c \in Calls
    PROVE  /\ rx[c].kind # "none" =>
                 /\ rx'[c].kind # "none" /\ pc'[c] # "idle"
                 /\ serial'[c] = serial[c] /\ via'[c] = via[c] /\ tok'[c] = tok[c]
           /\ rx'[c].kind # "none" => rx[c].kind # "none" \/ Insert(c)
<1> DEFINE Goal == /\ rx[c].kind # "none" =>
                        /\ rx'[c].kind # "none" /\ pc'[c] # "idle"
                        /\ serial'[c] = serial[c] /\ via'[c] = via[c] /\ tok'[c] = tok[c]
                   /\ rx'[c].kind # "none" => rx[c].kind # "none" \/ Insert(c)
<1> USE DEF managerVars, tokenVars, callVars, connVars, checkVars, wireVars, Goto
<1>ty. /\ rx \in [Calls -> Received] /\ via \in [Calls -> Conns \cup {NoConn}]
       /\ pc \in [Calls -> {"idle", "insert", "send", "wait", "done"}]
       /\ tok \in [Calls -> Tokens \cup {NoToken}] /\ serial \in [Calls -> Serials \cup {0}]
       /\ hand \in [Conns -> [sender : Calls, answer : Calls] \cup {NoCall}]
  BY DEF Typing, TypeOK
<1>id. pc[c] \in {"idle", "insert"} => rx[c].kind = "none" BY RxKinds DEF Typing, Bound
<1>un. UNCHANGED <<rx, pc, serial, via, tok>> => Goal BY <1>id
<1>1. ASSUME NEW b \in Calls, Call(b) PROVE Goal
  <2>1. ASSUME NEW t \in Tokens, NewSerial(b, t) PROVE Goal
    <3>1. /\ pc[b] = "idle" /\ pc' = [pc EXCEPT ![b] = "insert"]
          /\ tok' = [tok EXCEPT ![b] = t] /\ serial' = [serial EXCEPT ![b] = serial_atomic[t]]
          /\ UNCHANGED <<rx, via>>
      BY <2>1 DEF NewSerial
    <3>2. QED BY <1>ty, <1>id, <3>1
  <2>2. CASE Insert(b)
    <3>1. /\ pc[b] = "insert" /\ pc' = [pc EXCEPT ![b] = "send"]
          /\ via' = [via EXCEPT ![b] = peer[tok[b]]] /\ rx' = [rx EXCEPT ![b] = Is("empty")]
          /\ UNCHANGED <<tok, serial>>
      BY <2>2 DEF Insert
    <3>2. QED BY <1>ty, <1>id, <2>2, <3>1
  <2>3. CASE Leave(b)
    <3>1. /\ pc' = [pc EXCEPT ![b] = "done"]
          /\ rx' = [rx EXCEPT ![b] = IF rx[b] = Is("empty") THEN Is("dropped") ELSE rx[b]]
          /\ UNCHANGED <<tok, serial, via>>
      BY <2>3 DEF Leave
    <3>2. QED BY <1>ty, <1>id, <3>1, RxKinds
  <2>4. CASE Bail(b) \/ Send(b) \/ Return(b)
    <3>1. /\ pc' = [pc EXCEPT ![b] = "done"] \/ pc' = [pc EXCEPT ![b] = "wait"]
          /\ UNCHANGED <<rx, tok, serial, via>>
      BY <2>4 DEF Bail, Send, Return
    <3>2. QED BY <1>ty, <1>id, <3>1
  <2>5. QED BY <1>1, <2>1, <2>2, <2>3, <2>4 DEF Call, Progress, SendFails, Cancel
<1>2. ASSUME NEW t \in Tokens, Create(t) PROVE Goal BY <1>un, <1>2 DEF Create
<1>3. ASSUME NEW d \in Conns, Conn(d) PROVE Goal
  <2>1. CASE SendResult(d)
    <3>1. hand[d] \in [sender : Calls, answer : Calls] BY <1>ty, <2>1 DEF SendResult
    <3>2. PICK s \in Calls, a \in Calls : s = hand[d].sender /\ a = hand[d].answer BY <3>1
    <3>3. /\ \/ rx[s] = Is("empty") /\ rx' = [rx EXCEPT ![s] = Ok(a)]
             \/ UNCHANGED rx
          /\ UNCHANGED <<pc, serial, via, tok>>
      BY <2>1, <3>2 DEF SendResult
    <3>4. Ok(a).kind = "answer" /\ Is("empty").kind = "empty" BY RxKinds
    <3>5. QED BY <1>ty, <1>id, <3>3, <3>4
  <2>2. CASE (\E t \in Tokens : Resolve(d, t)) \/ (\E a \in answers : TakeResult(d, a))
               \/ Attach(d) \/ EndReading(d) \/ Detach(d)
    BY <1>un, <2>2 DEF Resolve, TakeResult, Attach, EndReading, Detach
  <2>3. QED BY <1>3, <2>1, <2>2 DEF Conn
<1>4. CASE Checker
  <2>1. ASSUME NEW t \in Tokens, Visit(t) PROVE Goal
    <3>1. PICK late \in SUBSET result_dict[t] :
             rx' = [b \in Calls |->
                      IF b \in late /\ rx[b] = Is("empty") THEN Is("timeout") ELSE rx[b]]
      BY <2>1, TimeoutEffect DEF Visit, Typing
    <3>2. UNCHANGED <<pc, serial, via, tok>> BY <2>1 DEF Visit
    <3>3. QED BY <1>id, <3>1, <3>2, RxKinds
  <2>2. CASE StartWalk \/ Sweep BY <1>un, <2>2 DEF StartWalk, Sweep
  <2>3. QED BY <1>4, <2>1, <2>2 DEF Checker
<1>5. ASSUME NEW r \in requests, Execute(r) PROVE Goal BY <1>un, <1>5 DEF Execute
<1>6. CASE Tick BY <1>un, <1>6 DEF Tick
<1>7. CASE UNCHANGED vars BY <1>un, <1>7 DEF vars
<1>8. QED BY <1>1, <1>2, <1>3, <1>4, <1>5, <1>6, <1>7 DEF Next

\* A connection task keeps its token.
LEMMA ConnKeeps ==
    ASSUME Typing, [Next]_vars, NEW d \in Conns, conn[d] # "idle"
    PROVE  conn'[d] # "idle" /\ serves'[d] = serves[d]
<1> USE DEF managerVars, tokenVars, callVars, connVars, checkVars, wireVars
<1>ty. /\ conn \in [Conns -> {"idle", "attach", "reading", "detach", "done"}]
       /\ serves \in [Conns -> Tokens \cup {NoToken}]
  BY DEF Typing, TypeOK
<1>un. UNCHANGED <<conn, serves>> => conn'[d] # "idle" /\ serves'[d] = serves[d] OBVIOUS
<1>1. ASSUME NEW e \in Conns, Conn(e) PROVE conn'[d] # "idle" /\ serves'[d] = serves[d]
  <2>1. ASSUME NEW t \in Tokens, Resolve(e, t)
        PROVE  conn'[d] # "idle" /\ serves'[d] = serves[d]
    BY <1>ty, <2>1 DEF Resolve
  <2>2. CASE Attach(e) \/ EndReading(e) \/ Detach(e) \/ SendResult(e)
    <3>1. /\ UNCHANGED serves
          /\ \/ UNCHANGED conn
             \/ conn' = [conn EXCEPT ![e] = "reading"]
             \/ conn' = [conn EXCEPT ![e] = "detach"]
             \/ conn' = [conn EXCEPT ![e] = "done"]
      BY <2>2 DEF Attach, EndReading, Detach, SendResult
    <3>2. QED BY <1>ty, <3>1
  <2>3. CASE \E a \in answers : TakeResult(e, a) BY <1>un, <2>3 DEF TakeResult
  <2>4. QED BY <1>1, <2>1, <2>2, <2>3 DEF Conn
<1>2. CASE \E c \in Calls : Call(c)
  BY <1>un, <1>2
  DEF Call, NewSerial, Progress, Insert, Bail, Send, SendFails, Cancel, Leave, Return
<1>3. CASE \E t \in Tokens : Create(t) BY <1>un, <1>3 DEF Create
<1>4. CASE Checker BY <1>un, <1>4 DEF Checker, StartWalk, Visit, Sweep
<1>5. CASE (\E r \in requests : Execute(r)) \/ Tick \/ UNCHANGED vars
  BY <1>un, <1>5 DEF Execute, Tick, vars
<1>6. QED BY <1>1, <1>2, <1>3, <1>4, <1>5 DEF Next

LEMMA AttachedStep == Typing /\ Attached /\ [Next]_vars => Attached'
<1> SUFFICES ASSUME Typing, Attached, [Next]_vars PROVE Attached'
  OBVIOUS
<1>ty. /\ peer \in [Tokens -> Conns \cup {NoConn}]
       /\ conn \in [Conns -> {"idle", "attach", "reading", "detach", "done"}]
       /\ via \in [Calls -> Conns \cup {NoConn}]
       /\ \A d \in Conns : conn[d] # "idle" => serves[d] \in Tokens
  BY DEF Typing, TypeOK, Bound
<1>1. ASSUME NEW t \in Tokens, peer'[t] # NoConn
      PROVE  conn'[peer'[t]] # "idle" /\ serves'[peer'[t]] = t
  <2>1. CASE peer'[t] = peer[t]
    <3>1. /\ peer[t] \in Conns /\ conn[peer[t]] # "idle" /\ serves[peer[t]] = t
      BY <1>ty, <1>1, <2>1 DEF Attached
    <3>2. QED BY <2>1, <3>1, ConnKeeps
  <2>2. CASE peer'[t] # peer[t]
    <3>1. PICK d \in Conns : Attach(d) \/ Detach(d)
      BY <2>2
      DEF Next, vars, Call, NewSerial, Progress, Insert, Bail, Send, SendFails, Cancel,
          Leave, Return, Create, Conn, Resolve, TakeResult, SendResult, EndReading,
          Checker, StartWalk, Visit, Sweep, Execute, Tick,
          managerVars, tokenVars, callVars, connVars, checkVars, wireVars
    <3>2. CASE Attach(d)
      <4>1. conn[d] # "idle" /\ peer' = [peer EXCEPT ![serves[d]] = d]
        BY <3>2 DEF Attach
      <4>2. peer'[t] = d /\ serves[d] = t BY <1>ty, <2>2, <4>1
      <4>3. QED BY <4>1, <4>2, ConnKeeps
    <3>3. CASE Detach(d)
      <4>1. peer' = [peer EXCEPT ![serves[d]] = NoConn] BY <3>3 DEF Detach
      <4>2. QED BY <1>ty, <1>1, <2>2, <4>1
    <3>4. QED BY <3>1, <3>2, <3>3
  <2>3. QED BY <2>1, <2>2
<1>2. ASSUME NEW c \in Calls, rx'[c].kind # "none"
      PROVE  conn'[via'[c]] # "idle" /\ serves'[via'[c]] = tok'[c]
  <2>1. CASE rx[c].kind # "none"
    <3>1. via'[c] = via[c] /\ tok'[c] = tok[c] BY <2>1, CallKeeps
    <3>2. via[c] \in Conns BY <2>1 DEF Typing, Bound
    <3>3. conn[via[c]] # "idle" /\ serves[via[c]] = tok[c] BY <2>1 DEF Attached
    <3>4. QED BY <3>1, <3>2, <3>3, ConnKeeps
  <2>2. CASE Insert(c)
    <3>1. /\ pc[c] = "insert" /\ peer[tok[c]] # NoConn
          /\ via' = [via EXCEPT ![c] = peer[tok[c]]]
          /\ UNCHANGED <<tok, conn, serves>>
      BY <2>2 DEF Insert, connVars
    <3>2. tok[c] \in Tokens BY <3>1, CallNumber DEF Typing
    <3>3. via'[c] = peer[tok[c]] BY <1>ty, <3>1
    <3>4. QED BY <3>1, <3>2, <3>3 DEF Attached
  <2>3. QED BY <1>2, <2>1, <2>2, CallKeeps
<1>3. QED BY <1>1, <1>2 DEF Attached

\* An answer that is found registered is for the call it answers.
LEMMA FoundIsOwn ==
    ASSUME Typing, Senders, Attached, Framed, NEW d \in Conns, conn[d] = "reading",
           NEW a \in answers, a.conn = d, NEW c \in Registered(serves[d], a.serial)
    PROVE  c = a.call
<1>1. a.call \in Calls BY DEF Typing, TypeOK, Frames
<1>2. Own(a) BY DEF Framed
<1>3. serves[d] = tok[a.call] BY <1>1, <1>2 DEF Attached, Own
<1>4. serves[d] \in Tokens BY DEF Typing, TypeOK, Bound
<1>5. c \in Calls /\ c \in result_dict[serves[d]] /\ serial[c] = a.serial
  BY <1>4 DEF Registered, Typing, TypeOK
<1>6. tok[c] = serves[d] /\ rx[c].kind # "none" BY <1>4, <1>5, RxKinds DEF Senders
<1>7. pc[c] # "idle" BY <1>5, <1>6, RxKinds DEF Typing, Bound
<1>8. serial[c] = serial[a.call] /\ pc[a.call] # "idle" BY <1>2, <1>5 DEF Own
<1>9. QED BY <1>1, <1>3, <1>5, <1>6, <1>7, <1>8 DEF Typing, Numbered

LEMMA FramedStep ==
    Typing /\ Senders /\ Attached /\ Framed /\ [Next]_vars => Framed'
<1> SUFFICES ASSUME Typing, Senders, Attached, Framed, [Next]_vars PROVE Framed'
  OBVIOUS
<1> USE DEF managerVars, tokenVars, callVars, connVars, checkVars, wireVars
<1>ty. /\ requests \in SUBSET Frames /\ answers \in SUBSET Frames
       /\ rx \in [Calls -> Received]
       /\ hand \in [Conns -> [sender : Calls, answer : Calls] \cup {NoCall}]
  BY DEF Typing, TypeOK
<1>own. ASSUME NEW f \in requests \cup answers PROVE Own(f)'
  <2>1. f.call \in Calls BY <1>ty DEF Frames
  <2>2. Own(f) BY DEF Framed
  <2>3. QED BY <2>1, <2>2, CallKeeps DEF Own
<1>in. /\ \A d \in Conns : hand[d] # NoCall => hand[d].answer = hand[d].sender
       /\ \A c \in Calls : rx[c].kind = "answer" => rx[c].call = c
  BY DEF Framed
<1>k. \A k \in {"none", "empty", "dropped", "timeout"} : Is(k).kind # "answer"
  BY RxKinds
<1>un. ASSUME requests' \cup answers' \subseteq requests \cup answers, UNCHANGED hand,
              \A c \in Calls : rx'[c].kind = "answer" => rx'[c] = rx[c]
       PROVE  Framed'
  BY <1>own, <1>in, <1>un DEF Framed
<1>1. ASSUME NEW c \in Calls, Call(c) PROVE Framed'
  <2>1. CASE Send(c)
    <3>1. /\ requests' = requests \cup {[call |-> c, serial |-> serial[c], conn |-> via[c]]}
          /\ pc[c] = "send" /\ pc' = [pc EXCEPT ![c] = "wait"]
          /\ UNCHANGED <<answers, rx, hand, serial, via>>
      BY <2>1 DEF Send, Goto
    <3>g. PICK g : g = [call |-> c, serial |-> serial[c], conn |-> via[c]] OBVIOUS
    <3>2. g.call = c /\ g.serial = serial[c] /\ g.conn = via[c] BY <3>g
    <3>3. requests' = requests \cup {g} BY <3>1, <3>g
    <3>4. rx[c].kind # "none" BY <3>1 DEF Typing, Bound
    <3>5. pc'[c] # "idle" BY <3>1 DEF Typing, TypeOK
    <3>6. Own(g)' BY <3>1, <3>2, <3>4, <3>5 DEF Own
    <3>7. QED BY <1>own, <1>in, <3>1, <3>3, <3>6 DEF Framed
  <2>2. CASE Insert(c)
    <3>1. rx' = [rx EXCEPT ![c] = Is("empty")] /\ UNCHANGED <<requests, answers, hand>>
      BY <2>2 DEF Insert
    <3>2. QED BY <1>ty, <1>k, <1>un, <3>1
  <2>3. CASE Leave(c)
    <3>1. /\ rx' = [rx EXCEPT ![c] = IF rx[c] = Is("empty") THEN Is("dropped") ELSE rx[c]]
          /\ UNCHANGED <<requests, answers, hand>>
      BY <2>3 DEF Leave
    <3>2. QED BY <1>ty, <1>k, <1>un, <3>1
  <2>4. CASE (\E t \in Tokens : NewSerial(c, t)) \/ Bail(c) \/ Return(c)
    BY <1>un, <2>4 DEF NewSerial, Bail, Return
  <2>5. QED BY <1>1, <2>1, <2>2, <2>3, <2>4 DEF Call, Progress, SendFails, Cancel
<1>2. ASSUME NEW t \in Tokens, Create(t) PROVE Framed' BY <1>un, <1>2 DEF Create
<1>3. ASSUME NEW d \in Conns, Conn(d) PROVE Framed'
  <2>1. ASSUME NEW a \in answers, TakeResult(d, a) PROVE Framed'
    <3>1. /\ conn[d] = "reading" /\ a.conn = d /\ answers' = answers \ {a}
          /\ UNCHANGED <<rx, requests>>
      BY <2>1 DEF TakeResult
    <3>2. ASSUME NEW c \in Registered(serves[d], a.serial),
                 hand' = [hand EXCEPT ![d] = [sender |-> c, answer |-> a.call]]
          PROVE  Framed'
      <4>1. c = a.call BY <3>1, FoundIsOwn
      <4> DEFINE h == [sender |-> c, answer |-> a.call]
      <4>2. h.sender = h.answer BY <4>1
      <4>3. hand' = [hand EXCEPT ![d] = h] BY <3>2
      <4> HIDE DEF h
      <4>4. \A e \in Conns : hand'[e] = IF e = d THEN h ELSE hand[e] BY <1>ty, <4>3
      <4>5. \A e \in Conns : hand'[e] # NoCall => hand'[e].answer = hand'[e].sender
        BY <1>in, <4>2, <4>4
      <4>6. QED BY <1>own, <1>in, <3>1, <4>5 DEF Framed
    <3>3. CASE UNCHANGED hand BY <1>un, <3>1, <3>3
    <3>4. QED BY <2>1, <3>2, <3>3 DEF TakeResult
  <2>2. CASE SendResult(d)
    <3>1. hand[d] \in [sender : Calls, answer : Calls] /\ hand[d] # NoCall
      BY <1>ty, <2>2 DEF SendResult
    <3>2. PICK s \in Calls, c \in Calls : s = hand[d].sender /\ c = hand[d].answer BY <3>1
    <3>3. /\ hand' = [hand EXCEPT ![d] = NoCall]
          /\ rx' = [rx EXCEPT ![s] = Ok(c)] \/ UNCHANGED rx
          /\ UNCHANGED <<requests, answers>>
      BY <2>2, <3>2 DEF SendResult
    <3>4. c = s /\ Ok(c).call = c BY <1>in, <3>1, <3>2, RxKinds
    <3>5. \A e \in Conns : hand'[e] # NoCall => hand'[e].answer = hand'[e].sender
      BY <1>ty, <1>in, <3>3
    <3>6. \A b \in Calls : rx'[b].kind = "answer" => rx'[b].call = b
      BY <1>ty, <1>in, <3>3, <3>4
    <3>7. QED BY <1>own, <3>3, <3>5, <3>6 DEF Framed
  <2>3. CASE (\E t \in Tokens : Resolve(d, t)) \/ Attach(d) \/ EndReading(d) \/ Detach(d)
    BY <1>un, <2>3 DEF Resolve, Attach, EndReading, Detach
  <2>4. QED BY <1>3, <2>1, <2>2, <2>3 DEF Conn
<1>4. CASE Checker
  <2>1. ASSUME NEW t \in Tokens, Visit(t) PROVE Framed'
    <3>1. PICK late \in SUBSET result_dict[t] :
             rx' = [b \in Calls |->
                      IF b \in late /\ rx[b] = Is("empty") THEN Is("timeout") ELSE rx[b]]
      BY <2>1, TimeoutEffect DEF Visit, Typing
    <3>2. UNCHANGED <<requests, answers, hand>> BY <2>1 DEF Visit
    <3>3. QED BY <1>k, <1>un, <3>1, <3>2
  <2>2. CASE StartWalk \/ Sweep BY <1>un, <2>2 DEF StartWalk, Sweep
  <2>3. QED BY <1>4, <2>1, <2>2 DEF Checker
<1>5. ASSUME NEW r \in requests, Execute(r) PROVE Framed'
  <2>1. requests' \cup answers' \subseteq requests \cup answers /\ UNCHANGED <<rx, hand>>
    BY <1>5 DEF Execute
  <2>2. QED BY <1>un, <2>1
<1>6. CASE Tick BY <1>un, <1>6 DEF Tick
<1>7. CASE UNCHANGED vars BY <1>un, <1>7 DEF vars
<1>8. QED BY <1>1, <1>2, <1>3, <1>4, <1>5, <1>6, <1>7 DEF Next

\* A call on a token gets the answer to itself, from a client of its token, whatever
\* connections have served the token in between.
THEOREM OwnAnswer == Spec => []AnswerIsOwn
<1>1. Init => Senders /\ Attached /\ Framed
  BY RxKinds DEF Init, Senders, Has, Attached, Framed
<1>2. Typing /\ Attached /\ Framed => AnswerIsOwn
  BY DEF Attached, Framed, AnswerIsOwn
<1>3. QED
  BY <1>1, <1>2, InitTyping, TypingStep, SendersStep, AttachedStep, FramedStep, PTL
  DEF Spec

-----------------------------------------------------------------------------
(* Refinement                                                              *)

LEMMA RunsOnceStep ==
    Typing /\ Framed /\ RunsOnce /\ [Next]_vars => RunsOnce'
<1> SUFFICES ASSUME Typing, Framed, RunsOnce, [Next]_vars PROVE RunsOnce'
  OBVIOUS
<1> USE DEF RunsOnce, Unsent, managerVars, tokenVars, callVars, connVars, checkVars, wireVars
<1>ty. /\ requests \in SUBSET Frames /\ answers \in SUBSET Frames
       /\ pc \in [Calls -> {"idle", "insert", "send", "wait", "done"}]
       /\ hand \in [Conns -> [sender : Calls, answer : Calls] \cup {NoCall}]
  BY DEF Typing, TypeOK
<1>eq. \A f, g \in requests : f.call = g.call => f = g
  <2>1. \A f \in requests :
           f = [call |-> f.call, serial |-> serial[f.call], conn |-> via[f.call]]
    <3>1. TAKE f \in requests
    <3>2. f.serial = serial[f.call] /\ f.conn = via[f.call] BY DEF Framed, Own
    <3>3. f = [call |-> f.call, serial |-> f.serial, conn |-> f.conn] BY <1>ty DEF Frames
    <3>4. QED BY <3>2, <3>3
  <2>2. QED BY <2>1
<1>1. ASSUME NEW c \in Calls, Call(c) PROVE RunsOnce'
  <2>1. CASE Send(c)
    <3>g. PICK g : g = [call |-> c, serial |-> serial[c], conn |-> via[c]] OBVIOUS
    <3>1. g.call = c BY <3>g
    <3>2. /\ requests' = requests \cup {g}
          /\ pc[c] = "send" /\ pc' = [pc EXCEPT ![c] = "wait"]
          /\ UNCHANGED <<answers, hand, executed>>
      BY <2>1, <3>g DEF Send, Goto
    <3>3. QED BY <1>ty, <3>1, <3>2
  <2>2. CASE (\E t \in Tokens : NewSerial(c, t)) \/ Insert(c) \/ Bail(c) \/ Leave(c) \/ Return(c)
    <3>1. /\ UNCHANGED <<requests, answers, hand, executed>>
          /\ \/ pc' = [pc EXCEPT ![c] = "done"]
             \/ pc[c] = "idle" /\ pc' = [pc EXCEPT ![c] = "insert"]
             \/ pc[c] = "insert" /\ pc' = [pc EXCEPT ![c] = "send"]
      BY <2>2 DEF NewSerial, Insert, Bail, Leave, Return, Goto
    <3>2. QED BY <1>ty, <3>1
  <2>3. QED BY <1>1, <2>1, <2>2 DEF Call, Progress, SendFails, Cancel
<1>2. ASSUME NEW t \in Tokens, Create(t) PROVE RunsOnce' BY <1>2 DEF Create
<1>3. ASSUME NEW d \in Conns, Conn(d) PROVE RunsOnce'
  <2>1. ASSUME NEW a \in answers, TakeResult(d, a) PROVE RunsOnce'
    <3>1. answers' = answers \ {a} /\ UNCHANGED <<requests, executed, pc>>
      BY <2>1 DEF TakeResult
    <3>2. ASSUME NEW c \in Registered(serves[d], a.serial),
                 hand' = [hand EXCEPT ![d] = [sender |-> c, answer |-> a.call]]
          PROVE  RunsOnce'
      <4>1. \A e \in Conns :
               hand'[e] = IF e = d THEN [sender |-> c, answer |-> a.call] ELSE hand[e]
        BY <1>ty, <3>2
      <4>2. a.call \in executed OBVIOUS
      <4>3. \A e \in Conns : hand'[e] # NoCall => hand'[e].answer \in executed
        BY <4>1, <4>2
      <4>4. QED BY <3>1, <4>3
    <3>3. CASE UNCHANGED hand BY <3>1, <3>3
    <3>4. QED BY <2>1, <3>2, <3>3 DEF TakeResult
  <2>2. CASE SendResult(d) BY <1>ty, <2>2 DEF SendResult
  <2>3. CASE (\E t \in Tokens : Resolve(d, t)) \/ Attach(d) \/ EndReading(d) \/ Detach(d)
    BY <2>3 DEF Resolve, Attach, EndReading, Detach
  <2>4. QED BY <1>3, <2>1, <2>2, <2>3 DEF Conn
<1>4. CASE Checker BY <1>4 DEF Checker, StartWalk, Visit, Sweep
<1>5. ASSUME NEW r \in requests, Execute(r) PROVE RunsOnce'
  <2>1. /\ requests' = requests \ {r} /\ executed' = executed \cup {r.call}
        /\ answers' \subseteq answers \cup {r}
        /\ UNCHANGED <<pc, hand>>
    BY <1>5 DEF Execute
  <2>2. \A f \in requests' : f.call # r.call BY <1>eq, <2>1
  <2>3. QED BY <2>1, <2>2
<1>6. CASE Tick BY <1>6 DEF Tick
<1>7. CASE UNCHANGED vars BY <1>7 DEF vars
<1>8. QED BY <1>1, <1>2, <1>3, <1>4, <1>5, <1>6, <1>7 DEF Next

\* What a receiver holds, and what became of its call.
OutcomeOf(r) == CASE r = Is("none") -> "none"
                  [] r = Is("empty") -> "pending"
                  [] r = Is("dropped") -> "abandoned"
                  [] r = Is("timeout") -> "timedout"
                  [] OTHER -> "answered"

LEMMA Outcomes ==
    /\ OutcomeOf(Is("none")) = "none" /\ OutcomeOf(Is("empty")) = "pending"
    /\ OutcomeOf(Is("dropped")) = "abandoned" /\ OutcomeOf(Is("timeout")) = "timedout"
    /\ \A c \in Calls : OutcomeOf(Ok(c)) = "answered"
    /\ \A r : OutcomeOf(r) = "none" => r = Is("none")
<1>1. /\ Is("none") # Is("empty") /\ Is("none") # Is("dropped") /\ Is("none") # Is("timeout")
      /\ Is("empty") # Is("dropped") /\ Is("empty") # Is("timeout")
      /\ Is("dropped") # Is("timeout")
  BY RxKinds
<1>2. \A c \in Calls : Ok(c) \notin {Is("none"), Is("empty"), Is("dropped"), Is("timeout")}
  BY RxKinds
<1>3. QED BY <1>1, <1>2 DEF OutcomeOf

LEMMA OutcomeIs ==
    /\ outcome = [c \in Calls |-> OutcomeOf(rx[c])]
    /\ outcome' = [c \in Calls |-> OutcomeOf(rx'[c])]
BY DEF outcome, OutcomeOf

\* Every step is a step of RpcCalls, or leaves what became of the calls as it was.
LEMMA RpcStep ==
    Typing /\ Senders /\ Framed /\ RunsOnce /\ [Next]_vars
        => [Rpc!Next]_<<outcome, executed>>
<1> SUFFICES ASSUME Typing, Senders, Framed, RunsOnce, [Next]_vars
             PROVE  Rpc!Next \/ UNCHANGED <<outcome, executed>>
  OBVIOUS
<1> USE DEF managerVars, tokenVars, callVars, connVars, checkVars, wireVars
<1>ty. /\ rx \in [Calls -> Received]
       /\ hand \in [Conns -> [sender : Calls, answer : Calls] \cup {NoCall}]
  BY DEF Typing, TypeOK
<1>un. UNCHANGED rx => UNCHANGED outcome BY DEF outcome
<1>one. ASSUME NEW c \in Calls, NEW r, rx' = [rx EXCEPT ![c] = r]
        PROVE  outcome' = [outcome EXCEPT ![c] = OutcomeOf(r)]
  <2>1. \A b \in Calls : rx'[b] = IF b = c THEN r ELSE rx[b] BY <1>ty, <1>one
  <2>2. QED BY <2>1, OutcomeIs
<1>give. ASSUME NEW C \in SUBSET Calls, NEW k \in {"dropped", "timeout"},
                \A c \in C : rx[c] = Is("empty"),
                \A c \in Calls : rx'[c] = IF c \in C THEN Is(k) ELSE rx[c],
                UNCHANGED executed
         PROVE  Rpc!Next
  <2>1. PICK o \in {"timedout", "abandoned"} : o = OutcomeOf(Is(k)) BY Outcomes
  <2>2. outcome' = [c \in Calls |-> IF c \in C THEN o ELSE outcome[c]]
    BY <1>give, <2>1, OutcomeIs
  <2>3. \A c \in C : outcome[c] = "pending" BY <1>give, OutcomeIs, Outcomes
  <2>4. Rpc!GiveUp(C) BY <1>give, <2>2, <2>3 DEF Rpc!GiveUp
  <2>5. QED BY <2>4 DEF Rpc!Next
<1>1. ASSUME NEW c \in Calls, Call(c) PROVE Rpc!Next \/ UNCHANGED <<outcome, executed>>
  <2>1. CASE Insert(c)
    <3>1. pc[c] = "insert" /\ rx' = [rx EXCEPT ![c] = Is("empty")] /\ UNCHANGED executed
      BY <2>1 DEF Insert
    <3>2. outcome[c] = "none"
      <4>1. rx[c] = Is("none") BY <3>1 DEF Typing, Bound
      <4>2. QED BY <4>1, OutcomeIs, Outcomes
    <3>3. outcome' = [outcome EXCEPT ![c] = "pending"]
      <4>1. outcome' = [outcome EXCEPT ![c] = OutcomeOf(Is("empty"))] BY <1>one, <3>1
      <4>2. QED BY <4>1, Outcomes
    <3>4. Rpc!Issue(c) BY <3>1, <3>2, <3>3 DEF Rpc!Issue
    <3>5. QED BY <3>4 DEF Rpc!Next
  <2>2. CASE Leave(c)
    <3>1. /\ rx' = [rx EXCEPT ![c] = IF rx[c] = Is("empty") THEN Is("dropped") ELSE rx[c]]
          /\ UNCHANGED executed
      BY <2>2 DEF Leave
    <3>2. CASE rx[c] = Is("empty")
      <4>1. \A b \in Calls : rx'[b] = IF b \in {c} THEN Is("dropped") ELSE rx[b]
        BY <1>ty, <3>1, <3>2
      <4>2. QED BY <1>give, <3>1, <3>2, <4>1
    <3>3. CASE rx[c] # Is("empty")
      <4>1. UNCHANGED rx BY <1>ty, <3>1, <3>3
      <4>2. QED BY <1>un, <3>1, <4>1
    <3>4. QED BY <3>2, <3>3
  <2>3. CASE (\E t \in Tokens : NewSerial(c, t)) \/ Bail(c) \/ Send(c) \/ Return(c)
    BY <1>un, <2>3 DEF NewSerial, Bail, Send, Return
  <2>4. QED BY <1>1, <2>1, <2>2, <2>3 DEF Call, Progress, SendFails, Cancel
<1>2. ASSUME NEW t \in Tokens, Create(t) PROVE UNCHANGED <<outcome, executed>>
  BY <1>un, <1>2 DEF Create
<1>3. ASSUME NEW d \in Conns, Conn(d) PROVE Rpc!Next \/ UNCHANGED <<outcome, executed>>
  <2>1. CASE SendResult(d)
    <3>1. hand[d] \in [sender : Calls, answer : Calls] /\ hand[d] # NoCall
      BY <1>ty, <2>1 DEF SendResult
    <3>2. PICK s \in Calls, c \in Calls : s = hand[d].sender /\ c = hand[d].answer BY <3>1
    <3>3. s = c /\ c \in executed BY <3>1, <3>2 DEF Framed, RunsOnce
    <3>4. /\ \/ rx[s] = Is("empty") /\ rx' = [rx EXCEPT ![s] = Ok(c)]
             \/ UNCHANGED rx
          /\ UNCHANGED executed
      BY <2>1, <3>2 DEF SendResult
    <3>5. CASE rx[s] = Is("empty") /\ rx' = [rx EXCEPT ![s] = Ok(c)]
      <4>1. outcome' = [outcome EXCEPT ![s] = OutcomeOf(Ok(c))] BY <1>one, <3>5
      <4>2. outcome' = [outcome EXCEPT ![s] = "answered"] BY <4>1, Outcomes
      <4>3. outcome[s] = "pending" BY <3>5, OutcomeIs, Outcomes
      <4>4. Rpc!Answer(s) BY <3>3, <3>4, <4>2, <4>3 DEF Rpc!Answer
      <4>5. QED BY <4>4 DEF Rpc!Next
    <3>6. QED BY <1>un, <3>4, <3>5
  <2>2. CASE (\E t \in Tokens : Resolve(d, t)) \/ (\E a \in answers : TakeResult(d, a))
               \/ Attach(d) \/ EndReading(d) \/ Detach(d)
    BY <1>un, <2>2 DEF Resolve, TakeResult, Attach, EndReading, Detach
  <2>3. QED BY <1>3, <2>1, <2>2 DEF Conn
<1>4. CASE Checker
  <2>1. ASSUME NEW t \in Tokens, Visit(t) PROVE Rpc!Next
    <3>1. PICK late \in SUBSET result_dict[t] :
             rx' = [c \in Calls |->
                      IF c \in late /\ rx[c] = Is("empty") THEN Is("timeout") ELSE rx[c]]
      BY <2>1, TimeoutEffect DEF Visit, Typing
    <3>2. PICK C \in SUBSET Calls : C = {c \in Calls : c \in late /\ rx[c] = Is("empty")}
      OBVIOUS
    <3>3. \A c \in Calls : rx'[c] = IF c \in C THEN Is("timeout") ELSE rx[c]
      BY <3>1, <3>2
    <3>4. UNCHANGED executed BY <2>1 DEF Visit
    <3>5. QED BY <1>give, <3>2, <3>3, <3>4
  <2>2. CASE StartWalk \/ Sweep BY <1>un, <2>2 DEF StartWalk, Sweep
  <2>3. QED BY <1>4, <2>1, <2>2 DEF Checker
<1>5. ASSUME NEW r \in requests, Execute(r) PROVE Rpc!Next
  <2>1. r.call \in Calls BY DEF Typing, TypeOK, Frames
  <2>2. rx[r.call].kind # "none" BY DEF Framed, Own
  <2>3. outcome[r.call] # "none" BY <2>1, <2>2, OutcomeIs, Outcomes, RxKinds
  <2>4. r.call \notin executed BY DEF RunsOnce
  <2>5. executed' = executed \cup {r.call} /\ UNCHANGED rx BY <1>5 DEF Execute
  <2>6. Rpc!Execute(r.call) BY <1>un, <2>3, <2>4, <2>5 DEF Rpc!Execute
  <2>7. QED BY <2>1, <2>6 DEF Rpc!Next
<1>6. CASE Tick BY <1>un, <1>6 DEF Tick
<1>7. CASE UNCHANGED vars BY <1>un, <1>7 DEF vars
<1>8. QED BY <1>1, <1>2, <1>3, <1>4, <1>5, <1>6, <1>7 DEF Next

\* AsyncToken::call keeps what RpcCalls promises: one outcome per call, which it keeps,
\* and an answer only for a call the client has run.
THEOREM Refinement == Spec => ImplementsRpc
<1>1. Init => Senders /\ Attached /\ Framed /\ RunsOnce
  BY RxKinds DEF Init, Senders, Has, Attached, Framed, RunsOnce, Unsent
<1>2. Init => Rpc!Init
  <2> SUFFICES ASSUME Init PROVE Rpc!Init
    OBVIOUS
  <2>1. \A c \in Calls : rx[c] = Is("none") BY DEF Init
  <2>2. outcome = [c \in Calls |-> "none"] BY <2>1, OutcomeIs, Outcomes
  <2>3. QED BY <2>2 DEF Init, Rpc!Init
<1>3. QED
  BY <1>1, <1>2, InitTyping, TypingStep, SendersStep, AttachedStep, FramedStep,
     RunsOnceStep, RpcStep, PTL
  DEF Spec, ImplementsRpc, Rpc!Spec
=============================================================================
