-------------------------- MODULE ClientCallsProofs --------------------------
(* Proofs of the safety properties of ClientCalls, for every set of       *)
(* callers and readers, any number of calls and any request_out_time_ms.  *)
EXTENDS ClientCalls, SequenceTheorems, TLAPS

-----------------------------------------------------------------------------
(* The clock and the queue                                                 *)

LEMMA OlderType == \A a \in Ages : Older(a) \in Ages
BY OutTimeAssumption DEF Older, Ages

\* The clock leaves the queue as long as it was, with the serials where they were.
LEMMA TickQueue ==
    ASSUME queue \in Seq(Entries), Tick
    PROVE  /\ queue' \in Seq(Entries)
           /\ Len(queue') = Len(queue)
           /\ \A i \in 1 .. Len(queue) : queue'[i].serial = queue[i].serial
<1>1. \A i \in 1 .. Len(queue) :
         [serial |-> queue[i].serial, age |-> Older(queue[i].age)] \in Entries
  <2>1. TAKE i \in 1 .. Len(queue)
  <2>2. queue[i] \in Entries BY ElementOfSeq
  <2>3. queue[i].serial \in Serials /\ queue[i].age \in Ages BY <2>2 DEF Entries
  <2>4. QED BY <2>3, OlderType DEF Entries
<1>2. queue' = [i \in 1 .. Len(queue) |->
                   [serial |-> queue[i].serial, age |-> Older(queue[i].age)]]
  BY DEF Tick
<1>3. Len(queue) \in Nat BY LenProperties
<1>4. queue' \in [1 .. Len(queue) -> Entries] BY <1>1, <1>2
<1>5. queue' \in Seq(Entries) BY <1>3, <1>4, SeqDef
<1>6. Len(queue') = Len(queue)
  <2>1. 1 .. Len(queue') = 1 .. Len(queue) BY <1>4, <1>5, LenProperties
  <2>2. Len(queue') \in Nat BY <1>5, LenProperties
  <2>3. QED BY <1>3, <2>1, <2>2
<1>7. QED BY <1>2, <1>5, <1>6

-----------------------------------------------------------------------------
(* Type correctness                                                        *)

\* Serials are drawn in the order of the calls, and no two calls under way share one.
Numbered ==
    /\ serial_atomic = made + 1
    /\ \A t \in Callers :
          /\ call[t] = serial[t]
          /\ pc[t] # "idle" => serial[t] \in 1 .. made
    /\ \A t, u \in Callers :
          pc[t] # "idle" /\ pc[u] # "idle" /\ serial[t] = serial[u] => t = u

\* The RequestManager has a serial in hand exactly between pop and send.
HasChecked == check \in {"take", "send"} => checked \in Serials

Typing == TypeOK /\ Numbered /\ HasChecked

LEMMA InitTyping == Init => Typing
<1> SUFFICES ASSUME Init PROVE Typing OBVIOUS
<1>1. NoRx \in Received BY DEF NoRx, Received
<1>2. queue \in Seq(Entries) BY EmptySeq DEF Init
<1>3. serial_atomic \in 1 .. MaxSerial + 1 /\ made \in 0 .. MaxSerial
  BY MaxSerialAssumption DEF Init
<1>4. TypeOK BY <1>1, <1>2, <1>3 DEF Init, TypeOK, CallPCs, Holders
<1>5. QED BY <1>4 DEF Init, Typing, Numbered, HasChecked

\* A receiver keeps its type, whatever is sent to it.
LEMMA RxTypes ==
    /\ {NoRx, Empty, Dropped, Timeout} \subseteq Received
    /\ \A n \in Serials : Ok(n) \in Received
BY DEF NoRx, Empty, Dropped, Timeout, Ok, Received

LEMMA DeliverType ==
    ASSUME TypeOK, NEW s \in Serials, NEW r \in Received, Deliver(s, r)
    PROVE  rx' \in [Serials -> Received]
BY DEF TypeOK, Deliver

LEMMA TypingStep == Typing /\ [Next]_vars => Typing'
<1> SUFFICES ASSUME Typing, [Next]_vars PROVE Typing'
  OBVIOUS
<1> USE MaxSerialAssumption, OutTimeAssumption
    DEF Typing, TypeOK, Numbered, HasChecked, CallPCs, Holders, Serials, Goto,
        clientVars, callerVars, managerVars, wireVars
<1>1. ASSUME NEW t \in Callers, Caller(t) PROVE Typing'
  <2>1. CASE NewSerial(t) BY <2>1 DEF NewSerial
  <2>2. CASE Insert(t)
    <3>1. rx' \in [Serials -> Received] BY <2>2, RxTypes DEF Insert
    <3>2. tx' \in [Serials -> Holders] BY <2>2 DEF Insert
    <3>3. pc' \in [Callers -> CallPCs] BY <2>2 DEF Insert
    <3>4. TypeOK' BY <2>2, <3>1, <3>2, <3>3 DEF Insert
    <3>5. Numbered' BY <2>2 DEF Insert
    <3>6. HasChecked' BY <2>2 DEF Insert
    <3>7. QED BY <3>4, <3>5, <3>6
  <2>3. CASE Bail(t) BY <2>3 DEF Bail
  <2>4. CASE Enqueue(t)
    <3>1. [serial |-> serial[t], age |-> 0] \in Entries BY <2>4 DEF Enqueue, Entries, Ages
    <3>2. queue' \in Seq(Entries) BY <2>4, <3>1, AppendProperties DEF Enqueue
    <3>3. QED BY <2>4, <3>2 DEF Enqueue
  <2>5. CASE Send(t) BY <2>5 DEF Send, Frames
  <2>6. CASE Leave(t) BY <2>6, RxTypes DEF Leave
  <2>7. CASE Return(t) BY <2>7 DEF Return
  <2>8. QED
    BY <1>1, <2>1, <2>2, <2>3, <2>4, <2>5, <2>6, <2>7 DEF Caller, Progress, SendFails, Cancel
<1>2. ASSUME NEW d \in Readers, Reader(d) PROVE Typing'
  <2>1. ASSUME NEW a \in answers, TakeResult(d, a) PROVE Typing'
    <3>1. a \in Frames OBVIOUS
    <3>2. tx' \in [Serials -> Holders] BY <2>1 DEF TakeResult
    <3>3. reader' \in [Readers -> Frames \cup {Nothing}] BY <2>1, <3>1 DEF TakeResult
    <3>4. answers' \in SUBSET Frames BY <2>1 DEF TakeResult
    <3>5. TypeOK' BY <2>1, <3>2, <3>3, <3>4 DEF TakeResult
    <3>6. Numbered' /\ HasChecked' BY <2>1 DEF TakeResult
    <3>7. QED BY <3>5, <3>6
  <2>2. CASE SendResult(d)
    <3>1. reader[d] \in Frames BY <2>2 DEF SendResult
    <3>2. reader[d].serial \in Serials /\ Ok(reader[d].call) \in Received
      BY <3>1, RxTypes DEF Frames
    <3>3. rx' \in [Serials -> Received] BY <2>2, <3>2, DeliverType DEF SendResult
    <3>4. tx' \in [Serials -> Holders] BY <2>2, <3>2 DEF SendResult
    <3>5. reader' \in [Readers -> Frames \cup {Nothing}] BY <2>2 DEF SendResult
    <3>6. TypeOK' BY <2>2, <3>3, <3>4, <3>5 DEF SendResult
    <3>7. Numbered' /\ HasChecked' BY <2>2 DEF SendResult
    <3>8. QED BY <3>6, <3>7
  <2>3. QED BY <1>2, <2>1, <2>2 DEF Reader
<1>3. CASE Manager
  <2>1. CASE StartCheck BY <2>1 DEF StartCheck
  <2>2. CASE PopDue
    <3>1. queue # << >> BY <2>2 DEF PopDue, Due
    <3>2. Tail(queue) \in Seq(Entries) /\ Head(queue) \in Entries
      BY <3>1, HeadTailProperties
    <3>3. Head(queue).serial \in Serials BY <3>2 DEF Entries
    <3>4. QED BY <2>2, <3>2, <3>3 DEF PopDue
  <2>3. CASE EndCheck BY <2>3 DEF EndCheck
  <2>4. CASE TakeError BY <2>4 DEF TakeError, result_dict
  <2>5. CASE SendError
    <3>1. rx' \in [Serials -> Received] BY <2>5, RxTypes, DeliverType DEF SendError
    <3>2. QED BY <2>5, <3>1 DEF SendError
  <2>6. QED BY <1>3, <2>1, <2>2, <2>3, <2>4, <2>5 DEF Manager
<1>4. CASE StartConnect \/ EndConnect \/ Disconnect
  BY <1>4 DEF StartConnect, EndConnect, Disconnect
<1>5. CASE Wire
  <2>1. ASSUME NEW r \in requests \cup answers, Execute(r) PROVE Typing'
    <3>1. r \in Frames OBVIOUS
    <3>2. r.call \in Serials BY <3>1 DEF Frames
    <3>3. TypeOK' BY <2>1, <3>1, <3>2 DEF Execute
    <3>4. Numbered' /\ HasChecked' BY <2>1 DEF Execute
    <3>5. QED BY <3>3, <3>4
  <2>2. ASSUME NEW r \in requests \cup answers, Lose(r) PROVE Typing' BY <2>2 DEF Lose
  <2>3. QED BY <1>5, <2>1, <2>2 DEF Wire
<1>6. CASE Tick
  <2>1. queue' \in Seq(Entries) BY <1>6, TickQueue
  <2>2. QED BY <1>6, <2>1 DEF Tick
<1>7. CASE UNCHANGED vars BY <1>7 DEF vars
<1>8. QED BY <1>1, <1>2, <1>3, <1>4, <1>5, <1>6, <1>7 DEF Next

\* Every variable keeps its type: in particular the serials do not run out before
\* the calls do.
THEOREM TypeCorrect == Spec => []TypeOK
<1>1. Typing => TypeOK BY DEF Typing
<1>2. QED BY <1>1, InitTyping, TypingStep, PTL DEF Spec

-----------------------------------------------------------------------------
(* Senders and receivers                                                   *)

Has(d, s) == reader[d] # Nothing /\ reader[d].serial = s

\* A sender out of result_dict is with the one reader, or the RequestManager, that
\* has its serial in hand.
SenderIsHeld ==
    /\ \A s \in Serials :
          /\ tx[s] = "reader" <=> \E d \in Readers : Has(d, s)
          /\ tx[s] = "checker" <=> check = "send" /\ checked = s
    /\ \A s \in Serials : \A d, e \in Readers : Has(d, s) /\ Has(e, s) => d = e

Live == {"dict", "reader", "checker"}

\* The receiver of a call is empty, or dropped, exactly as long as its sender is
\* neither used nor not yet made; an active call has not dropped its receiver.
Channels ==
    /\ \A s \in Serials :
          /\ tx[s] = "none" <=> rx[s] = NoRx
          /\ rx[s] = Empty => tx[s] \in Live
          /\ tx[s] \in Live => rx[s] \in {Empty, Dropped}
          /\ s > made => tx[s] = "none"
    /\ \A t \in Callers :
          /\ pc[t] = "insert" => tx[serial[t]] = "none"
          /\ pc[t] \in {"enqueue", "send", "wait"} => rx[serial[t]] \notin {NoRx, Dropped}

LEMMA SenderStep ==
    Typing /\ Channels /\ SenderIsHeld /\ [Next]_vars => SenderIsHeld'
<1> SUFFICES ASSUME Typing, Channels, SenderIsHeld, [Next]_vars PROVE SenderIsHeld'
  OBVIOUS
<1> USE DEF SenderIsHeld, Has, clientVars, callerVars, managerVars, wireVars
<1>tx. tx \in [Serials -> Holders] /\ reader \in [Readers -> Frames \cup {Nothing}]
  BY DEF Typing, TypeOK
<1>1. ASSUME NEW t \in Callers, Caller(t) PROVE SenderIsHeld'
  <2>1. CASE Insert(t)
    <3>1. serial[t] \in Serials BY <2>1 DEF Insert, Typing, TypeOK, Numbered, Serials
    <3>2. tx[serial[t]] = "none" BY <2>1 DEF Insert, Channels
    <3>3. tx' = [tx EXCEPT ![serial[t]] = "dict"] /\ UNCHANGED <<reader, check, checked>>
      BY <2>1 DEF Insert
    <3>4. QED BY <1>tx, <3>1, <3>2, <3>3
  <2>2. CASE NewSerial(t) \/ Bail(t) \/ Enqueue(t) \/ Send(t) \/ Leave(t) \/ Return(t)
    <3>1. UNCHANGED <<tx, reader, check, checked>>
      BY <2>2 DEF NewSerial, Bail, Enqueue, Send, Leave, Return
    <3>2. QED BY <3>1
  <2>3. QED BY <1>1, <2>1, <2>2 DEF Caller, Progress, SendFails, Cancel
<1>2. ASSUME NEW d \in Readers, Reader(d) PROVE SenderIsHeld'
  <2>1. ASSUME NEW a \in answers, TakeResult(d, a) PROVE SenderIsHeld'
    <3>1. UNCHANGED <<check, checked>> /\ reader[d] = Nothing BY <2>1 DEF TakeResult
    <3>2. CASE a.serial \in result_dict
      <4>1. a.serial \in Serials /\ tx[a.serial] = "dict" BY <3>2 DEF result_dict
      <4>2. a # Nothing BY NothingAssumption, MaxSerialAssumption DEF Typing, TypeOK, Frames, Serials
      <4>3. /\ tx' = [tx EXCEPT ![a.serial] = "reader"]
            /\ reader' = [reader EXCEPT ![d] = a]
        BY <2>1, <3>2 DEF TakeResult
      <4>4. QED BY <1>tx, <3>1, <4>1, <4>2, <4>3
    <3>3. CASE a.serial \notin result_dict
      <4>1. UNCHANGED <<tx, reader>> BY <2>1, <3>3 DEF TakeResult
      <4>2. QED BY <3>1, <4>1
    <3>4. QED BY <3>2, <3>3
  <2>2. CASE SendResult(d)
    <3>1. reader[d] \in Frames /\ reader[d] # Nothing BY <1>tx, <2>2 DEF SendResult
    <3>2. PICK s \in Serials : s = reader[d].serial BY <3>1 DEF Frames
    <3>3. tx[s] = "reader" BY <3>1, <3>2
    <3>4. /\ tx' = [tx EXCEPT ![s] = "spent"]
          /\ reader' = [reader EXCEPT ![d] = Nothing]
          /\ UNCHANGED <<check, checked>>
      BY <2>2, <3>2 DEF SendResult
    <3>5. QED BY <1>tx, <3>1, <3>2, <3>3, <3>4
  <2>3. QED BY <1>2, <2>1, <2>2 DEF Reader
<1>3. CASE Manager
  <2>1. CASE StartCheck \/ PopDue \/ EndCheck
    BY <2>1 DEF StartCheck, PopDue, EndCheck
  <2>2. CASE TakeError BY <1>tx, <2>2 DEF TakeError, result_dict
  <2>3. CASE SendError
    <3>1. checked \in Serials BY <2>3 DEF SendError, Typing, HasChecked
    <3>2. QED BY <1>tx, <2>3, <3>1 DEF SendError
  <2>4. QED BY <1>3, <2>1, <2>2, <2>3 DEF Manager
<1>4. CASE StartConnect \/ EndConnect \/ Disconnect \/ Tick
  BY <1>4 DEF StartConnect, EndConnect, Disconnect, Tick
<1>5. CASE Wire BY <1>5 DEF Wire, Execute, Lose
<1>6. CASE UNCHANGED vars BY <1>6 DEF vars
<1>7. QED BY <1>1, <1>2, <1>3, <1>4, <1>5, <1>6 DEF Next

\* What a receiver may hold is told apart by its kind.
LEMMA RxKinds ==
    /\ NoRx # Empty /\ NoRx # Dropped /\ NoRx # Timeout
    /\ Empty # Dropped /\ Empty # Timeout /\ Dropped # Timeout
    /\ \A n : Ok(n) \notin {NoRx, Empty, Dropped, Timeout}
BY DEF NoRx, Empty, Dropped, Timeout, Ok

LEMMA ChannelsStep ==
    Typing /\ SenderIsHeld /\ Channels /\ [Next]_vars => Channels'
<1> SUFFICES ASSUME Typing, SenderIsHeld, Channels, [Next]_vars PROVE Channels'
  OBVIOUS
<1> USE DEF Channels, Live, clientVars, callerVars, managerVars, wireVars
<1>ty. /\ tx \in [Serials -> Holders] /\ rx \in [Serials -> Received]
       /\ pc \in [Callers -> CallPCs] /\ serial \in [Callers -> Serials \cup {0}]
       /\ made \in 0 .. MaxSerial
  BY DEF Typing, TypeOK
<1>nu. /\ \A t \in Callers : pc[t] # "idle" => serial[t] \in Serials /\ serial[t] <= made
       /\ \A t, u \in Callers :
             pc[t] # "idle" /\ pc[u] # "idle" /\ serial[t] = serial[u] => t = u
  BY <1>ty, MaxSerialAssumption DEF Typing, Numbered, Serials
<1>1. ASSUME NEW t \in Callers, Caller(t) PROVE Channels'
  <2>1. CASE NewSerial(t)
    <3>1. /\ UNCHANGED <<tx, rx>>
          /\ pc' = [pc EXCEPT ![t] = "insert"]
          /\ serial' = [serial EXCEPT ![t] = made + 1]
          /\ made' = made + 1 /\ made < MaxSerial
      BY <2>1 DEF NewSerial, Goto, Typing, Numbered
    <3>2. made + 1 \in Serials /\ made + 1 > made
      BY <1>ty, <3>1, MaxSerialAssumption DEF Serials
    <3>3. tx[made + 1] = "none" BY <3>2
    <3>4. \A s \in Serials : s > made' => s > made
      BY <1>ty, <3>1, MaxSerialAssumption DEF Serials
    <3>5. QED BY <1>ty, <3>1, <3>3, <3>4
  <2>2. CASE Insert(t)
    <3>1. /\ tx' = [tx EXCEPT ![serial[t]] = "dict"]
          /\ rx' = [rx EXCEPT ![serial[t]] = Empty]
          /\ pc' = [pc EXCEPT ![t] = "enqueue"]
          /\ pc[t] = "insert"
          /\ UNCHANGED <<serial, made>>
      BY <2>2 DEF Insert, Goto
    <3>2. serial[t] \in Serials /\ ~(serial[t] > made)
      BY <1>ty, <1>nu, <3>1, MaxSerialAssumption DEF Serials
    <3>3. QED BY <1>ty, <1>nu, <3>1, <3>2, RxKinds
  <2>3. CASE Leave(t) /\ pc[t] # "idle"
    <3>1. /\ rx' = [rx EXCEPT ![serial[t]] =
                       IF rx[serial[t]] = Empty THEN Dropped ELSE rx[serial[t]]]
          /\ pc' = [pc EXCEPT ![t] = "idle"]
          /\ UNCHANGED <<tx, serial, made>>
      BY <2>3 DEF Leave, Goto
    <3>2. serial[t] \in Serials BY <1>nu, <2>3
    <3>3. QED BY <1>ty, <1>nu, <2>3, <3>1, <3>2, RxKinds
  <2>4. CASE Bail(t) \/ Enqueue(t) \/ Send(t) \/ Return(t)
    <3>1. UNCHANGED <<tx, rx, serial, made>>
      BY <2>4 DEF Bail, Enqueue, Send, Return
    <3>2. \/ pc' = [pc EXCEPT ![t] = "idle"]
          \/ pc[t] = "enqueue" /\ pc' = [pc EXCEPT ![t] = "send"]
          \/ pc[t] = "send" /\ pc' = [pc EXCEPT ![t] = "wait"]
      BY <2>4 DEF Bail, Enqueue, Send, Return, Goto
    <3>3. QED BY <1>ty, <3>1, <3>2
  <2>5. QED BY <1>1, <2>1, <2>2, <2>3, <2>4 DEF Caller, Progress, SendFails, Cancel
<1>2. ASSUME NEW d \in Readers, Reader(d) PROVE Channels'
  <2>1. ASSUME NEW a \in answers, TakeResult(d, a) PROVE Channels'
    <3>1. UNCHANGED <<rx, pc, serial, made>> BY <2>1 DEF TakeResult
    <3>2. \/ a.serial \in result_dict /\ tx' = [tx EXCEPT ![a.serial] = "reader"]
          \/ UNCHANGED tx
      BY <2>1 DEF TakeResult
    <3>3. QED BY <1>ty, <1>nu, <3>1, <3>2, RxKinds DEF result_dict
  <2>2. CASE SendResult(d)
    <3>1. reader[d] \in Frames /\ reader[d] # Nothing
      BY <2>2 DEF SendResult, Typing, TypeOK
    <3>2. PICK s \in Serials : s = reader[d].serial BY <3>1 DEF Frames
    <3>3. tx[s] = "reader" BY <3>1, <3>2 DEF SenderIsHeld, Has
    <3>4. rx[s] \in {Empty, Dropped} BY <3>3
    <3>5. PICK r : r = Ok(reader[d].call) OBVIOUS
    <3>6. /\ tx' = [tx EXCEPT ![s] = "spent"]
          /\ rx' = [rx EXCEPT ![s] = IF rx[s] = Empty THEN r ELSE rx[s]]
          /\ UNCHANGED <<pc, serial, made>>
      BY <2>2, <3>2, <3>5 DEF SendResult, Deliver
    <3>7. r \notin {NoRx, Empty, Dropped} BY <3>5, RxKinds
    <3>8. QED BY <1>ty, <1>nu, <3>3, <3>4, <3>6, <3>7, RxKinds
  <2>3. QED BY <1>2, <2>1, <2>2 DEF Reader
<1>3. CASE Manager
  <2>1. CASE StartCheck \/ PopDue \/ EndCheck
    BY <2>1 DEF StartCheck, PopDue, EndCheck
  <2>2. CASE TakeError
    <3>1. UNCHANGED <<rx, pc, serial, made>> BY <2>2 DEF TakeError
    <3>2. \/ checked \in result_dict /\ tx' = [tx EXCEPT ![checked] = "checker"]
          \/ UNCHANGED tx
      BY <2>2 DEF TakeError
    <3>3. QED BY <1>ty, <1>nu, <3>1, <3>2, RxKinds DEF result_dict
  <2>3. CASE SendError
    <3>1. checked \in Serials BY <2>3 DEF SendError, Typing, HasChecked
    <3>2. tx[checked] = "checker" BY <2>3, <3>1 DEF SendError, SenderIsHeld
    <3>3. rx[checked] \in {Empty, Dropped} BY <3>1, <3>2
    <3>4. /\ tx' = [tx EXCEPT ![checked] = "spent"]
          /\ rx' = [rx EXCEPT ![checked] = IF rx[checked] = Empty THEN Timeout ELSE rx[checked]]
          /\ UNCHANGED <<pc, serial, made>>
      BY <2>3 DEF SendError, Deliver
    <3>5. QED BY <1>ty, <1>nu, <3>1, <3>2, <3>3, <3>4, RxKinds
  <2>4. QED BY <1>3, <2>1, <2>2, <2>3 DEF Manager
<1>4. CASE StartConnect \/ EndConnect \/ Disconnect \/ Tick
  BY <1>4 DEF StartConnect, EndConnect, Disconnect, Tick
<1>5. CASE Wire BY <1>5 DEF Wire, Execute, Lose
<1>6. CASE UNCHANGED vars BY <1>6 DEF vars
<1>7. QED BY <1>1, <1>2, <1>3, <1>4, <1>5, <1>6 DEF Next

\* No sender is lost between the two locks, and no two tasks answer one call: the
\* receiver of a waiting caller is empty while one task, or result_dict, has its sender.
THEOREM SenderIsUnique == Spec => []WaiterHasSender
<1>1. Init => SenderIsHeld /\ Channels
  BY RxKinds DEF Init, SenderIsHeld, Channels, Live, Has
<1>2. Typing /\ SenderIsHeld /\ Channels => WaiterHasSender
  <2> SUFFICES ASSUME Typing, SenderIsHeld, Channels,
                      NEW t \in Callers, pc[t] \in {"enqueue", "send", "wait"}
               PROVE  LET s       == serial[t]
                          readers == {d \in Readers : reader[d] # Nothing /\ reader[d].serial = s}
                          checker == check = "send" /\ checked = s
                      IN  IF rx[s] # Empty THEN s \notin result_dict /\ readers = {} /\ ~checker
                          ELSE \/ s \in result_dict /\ readers = {} /\ ~checker
                               \/ s \notin result_dict /\ checker /\ readers = {}
                               \/ s \notin result_dict /\ ~checker /\ \E d \in Readers : readers = {d}
    BY DEF WaiterHasSender
  <2> DEFINE s == serial[t]
             readers == {d \in Readers : reader[d] # Nothing /\ reader[d].serial = s}
             checker == check = "send" /\ checked = s
  <2>1. s \in Serials
    BY MaxSerialAssumption DEF Typing, TypeOK, Numbered, Serials
  <2>2. rx[s] \notin {NoRx, Dropped} BY DEF Channels
  <2>3. tx[s] = "reader" <=> readers # {} BY <2>1 DEF SenderIsHeld, Has
  <2>4. \A d \in readers : readers = {d} BY <2>1 DEF SenderIsHeld, Has
  <2>5. tx[s] = "checker" <=> checker BY <2>1 DEF SenderIsHeld
  <2>6. s \in result_dict <=> tx[s] = "dict" BY <2>1 DEF result_dict
  <2>7. tx[s] \in Live <=> rx[s] = Empty BY <2>1, <2>2 DEF Channels
  <2> HIDE DEF s, readers, checker
  <2>8. QED
    BY <2>3, <2>4, <2>5, <2>6, <2>7 DEF Live, readers, checker, s
<1>3. QED
  BY <1>1, <1>2, InitTyping, TypingStep, SenderStep, ChannelsStep, PTL DEF Spec

-----------------------------------------------------------------------------
(* Answers                                                                 *)

\* The other side echoes the call whose serial a frame carries, and so do the readers.
Echoed ==
    /\ \A f \in requests \cup answers : f.call = f.serial
    /\ \A d \in Readers : reader[d] # Nothing => reader[d].call = reader[d].serial
    /\ \A s \in Serials : rx[s].kind = "answer" => rx[s].call = s

LEMMA EchoedStep == Typing /\ Echoed /\ [Next]_vars => Echoed'
<1> SUFFICES ASSUME Typing, Echoed, [Next]_vars PROVE Echoed'
  OBVIOUS
<1> USE DEF Echoed, clientVars, callerVars, managerVars, wireVars
<1>ty. /\ rx \in [Serials -> Received] /\ reader \in [Readers -> Frames \cup {Nothing}]
       /\ serial \in [Callers -> Serials \cup {0}]
  BY DEF Typing, TypeOK
<1>rx. ASSUME NEW s \in Serials, NEW r,
              rx' = [rx EXCEPT ![s] = r],
              r.kind = "answer" => r.call = s
       PROVE  \A z \in Serials : rx'[z].kind = "answer" => rx'[z].call = z
  BY <1>ty, <1>rx
<1>k. \A r \in {NoRx, Empty, Dropped, Timeout} : r.kind # "answer"
  BY DEF NoRx, Empty, Dropped, Timeout
<1>1. ASSUME NEW t \in Callers, Caller(t) PROVE Echoed'
  <2>1. CASE Insert(t)
    <3>1. serial[t] \in Serials
      BY <2>1, MaxSerialAssumption DEF Insert, Typing, TypeOK, Numbered, Serials
    <3>2. rx' = [rx EXCEPT ![serial[t]] = Empty] /\ UNCHANGED <<requests, answers, reader>>
      BY <2>1 DEF Insert
    <3>3. \A z \in Serials : rx'[z].kind = "answer" => rx'[z].call = z
      BY <1>rx, <1>k, <3>1, <3>2
    <3>4. QED BY <3>2, <3>3
  <2>2. CASE Send(t)
    <3>1. /\ requests' = requests \cup {[serial |-> serial[t], call |-> call[t]]}
          /\ UNCHANGED <<answers, reader, rx>>
      BY <2>2 DEF Send
    <3>2. call[t] = serial[t] BY DEF Typing, Numbered
    <3>3. QED BY <3>1, <3>2
  <2>3. CASE Leave(t) /\ pc[t] # "idle"
    <3>1. serial[t] \in Serials
      BY <2>3, MaxSerialAssumption DEF Typing, TypeOK, Numbered, Serials
    <3>2. /\ rx' = [rx EXCEPT ![serial[t]] =
                       IF rx[serial[t]] = Empty THEN Dropped ELSE rx[serial[t]]]
          /\ UNCHANGED <<requests, answers, reader>>
      BY <2>3 DEF Leave
    <3>3. \A z \in Serials : rx'[z].kind = "answer" => rx'[z].call = z
      BY <1>rx, <1>k, <3>1, <3>2
    <3>4. QED BY <3>2, <3>3
  <2>4. CASE NewSerial(t) \/ Bail(t) \/ Enqueue(t) \/ Return(t)
    BY <2>4 DEF NewSerial, Bail, Enqueue, Return
  <2>5. QED BY <1>1, <2>1, <2>2, <2>3, <2>4 DEF Caller, Progress, SendFails, Cancel
<1>2. ASSUME NEW d \in Readers, Reader(d) PROVE Echoed'
  <2>1. ASSUME NEW a \in answers, TakeResult(d, a) PROVE Echoed'
    <3>1. /\ answers' = answers \ {a}
          /\ reader' = reader \/ reader' = [reader EXCEPT ![d] = a]
          /\ UNCHANGED <<rx, requests>>
      BY <2>1 DEF TakeResult
    <3>2. QED BY <1>ty, <3>1
  <2>2. CASE SendResult(d)
    <3>1. reader[d] \in Frames /\ reader[d] # Nothing BY <1>ty, <2>2 DEF SendResult
    <3>2. PICK s \in Serials : s = reader[d].serial BY <3>1 DEF Frames
    <3>3. Ok(reader[d].call).call = s BY <3>1, <3>2 DEF Ok
    <3>4. /\ rx' = [rx EXCEPT ![s] = IF rx[s] = Empty THEN Ok(reader[d].call) ELSE rx[s]]
          /\ reader' = [reader EXCEPT ![d] = Nothing]
          /\ UNCHANGED <<requests, answers>>
      BY <2>2, <3>2 DEF SendResult, Deliver
    <3>5. \A z \in Serials : rx'[z].kind = "answer" => rx'[z].call = z
      BY <1>rx, <3>3, <3>4
    <3>6. QED BY <1>ty, <3>4, <3>5
  <2>3. QED BY <1>2, <2>1, <2>2 DEF Reader
<1>3. CASE Manager
  <2>1. CASE StartCheck \/ PopDue \/ EndCheck \/ TakeError
    BY <2>1 DEF StartCheck, PopDue, EndCheck, TakeError
  <2>2. CASE SendError
    <3>1. checked \in Serials BY <2>2 DEF SendError, Typing, HasChecked
    <3>2. /\ rx' = [rx EXCEPT ![checked] = IF rx[checked] = Empty THEN Timeout ELSE rx[checked]]
          /\ UNCHANGED <<requests, answers, reader>>
      BY <2>2 DEF SendError, Deliver
    <3>3. \A z \in Serials : rx'[z].kind = "answer" => rx'[z].call = z
      BY <1>rx, <1>k, <3>1, <3>2
    <3>4. QED BY <3>2, <3>3
  <2>3. QED BY <1>3, <2>1, <2>2 DEF Manager
<1>4. CASE StartConnect \/ EndConnect \/ Disconnect \/ Tick
  BY <1>4 DEF StartConnect, EndConnect, Disconnect, Tick
<1>5. CASE Wire BY <1>5 DEF Wire, Execute, Lose
<1>6. CASE UNCHANGED vars BY <1>6 DEF vars
<1>7. QED BY <1>1, <1>2, <1>3, <1>4, <1>5, <1>6 DEF Next

\* A caller of NetXClient::call gets the answer to its own call, however many calls are
\* out and whatever the order in which readers, timeouts and dropped calls interleave.
THEOREM OwnAnswer == Spec => []AnswerIsOwn
<1>1. Init => Echoed BY DEF Init, Echoed, NoRx
<1>2. Typing /\ Echoed => AnswerIsOwn
  BY MaxSerialAssumption
  DEF Typing, TypeOK, Numbered, Echoed, AnswerIsOwn, Serials
<1>3. QED BY <1>1, <1>2, InitTyping, TypingStep, EchoedStep, PTL DEF Spec

-----------------------------------------------------------------------------
(* Timeouts                                                                *)

\* What an operation appends, pops or ages leaves the other serials in the queue.
LEMMA AppendKeeps ==
    ASSUME NEW e \in Entries, queue \in Seq(Entries), queue' = Append(queue, e)
    PROVE  /\ \A s \in Serials : Queued(s) => Queued(s)'
           /\ Queued(e.serial)'
<1>1. /\ Len(queue) \in Nat /\ Len(queue') = Len(queue) + 1
      /\ \A i \in 1 .. Len(queue) : queue'[i] = queue[i]
      /\ queue'[Len(queue) + 1] = e
  BY AppendProperties, LenProperties
<1>2. QED BY <1>1 DEF Queued

LEMMA PopKeeps ==
    ASSUME queue \in Seq(Entries), queue # << >>, queue' = Tail(queue)
    PROVE  \A s \in Serials : Queued(s) => Queued(s)' \/ s = Head(queue).serial
<1>1. /\ Len(queue) \in Nat \ {0} /\ Len(queue') = Len(queue) - 1
      /\ Head(queue) = queue[1]
      /\ \A i \in 1 .. Len(queue') : queue'[i] = queue[i + 1]
  BY HeadTailProperties, LenProperties, EmptySeq
<1>2. SUFFICES ASSUME NEW s \in Serials, NEW i \in 1 .. Len(queue),
                      queue[i].serial = s, s # Head(queue).serial
               PROVE  Queued(s)'
  BY DEF Queued
<1>3. i - 1 \in 1 .. Len(queue') BY <1>1, <1>2
<1>4. queue'[i - 1] = queue[i] BY <1>1, <1>3
<1>5. QED BY <1>2, <1>3, <1>4 DEF Queued

LEMMA QueuedStep ==
    Typing /\ Channels /\ PendingIsQueued /\ [Next]_vars => PendingIsQueued'
<1> SUFFICES ASSUME Typing, Channels, PendingIsQueued, [Next]_vars PROVE PendingIsQueued'
  OBVIOUS
<1> USE DEF PendingIsQueued, Taking, Entering, result_dict,
            clientVars, callerVars, managerVars, wireVars
<1>ty. /\ tx \in [Serials -> Holders] /\ rx \in [Serials -> Received]
       /\ pc \in [Callers -> CallPCs] /\ serial \in [Callers -> Serials \cup {0}]
       /\ queue \in Seq(Entries)
  BY DEF Typing, TypeOK
<1>nu. \A t \in Callers : pc[t] # "idle" => serial[t] \in Serials
  BY <1>ty, MaxSerialAssumption DEF Typing, TypeOK, Numbered, Serials
<1>q. UNCHANGED queue => \A s \in Serials : Queued(s) => Queued(s)'
  BY DEF Queued
<1>1. ASSUME NEW t \in Callers, Caller(t) PROVE PendingIsQueued'
  <2>1. CASE NewSerial(t)
    <3>1. /\ UNCHANGED <<tx, rx, queue, check, checked>> /\ pc[t] = "idle"
          /\ pc' = [pc EXCEPT ![t] = "insert"]
          /\ \A u \in Callers \ {t} : serial'[u] = serial[u]
      BY <1>ty, <2>1 DEF NewSerial, Goto
    <3>2. QED BY <1>ty, <1>q, <3>1
  <2>2. CASE Insert(t)
    <3>1. /\ tx' = [tx EXCEPT ![serial[t]] = "dict"]
          /\ rx' = [rx EXCEPT ![serial[t]] = Empty]
          /\ pc[t] = "insert" /\ pc' = [pc EXCEPT ![t] = "enqueue"]
          /\ UNCHANGED <<serial, queue, check, checked>>
      BY <2>2 DEF Insert, Goto
    <3>2. QED BY <1>ty, <1>nu, <1>q, <3>1
  <2>3. CASE Enqueue(t)
    <3>1. [serial |-> serial[t], age |-> 0] \in Entries
      BY <1>nu, <2>3, OutTimeAssumption DEF Enqueue, Entries, Ages
    <3>2. /\ \A s \in Serials : Queued(s) => Queued(s)'
          /\ Queued(serial[t])'
      BY <1>ty, <2>3, <3>1, AppendKeeps DEF Enqueue
    <3>3. /\ pc[t] = "enqueue" /\ pc' = [pc EXCEPT ![t] = "send"]
          /\ UNCHANGED <<tx, rx, serial, check, checked>>
      BY <2>3 DEF Enqueue, Goto
    <3>4. QED BY <1>ty, <3>2, <3>3
  <2>4. CASE Leave(t) /\ pc[t] # "idle"
    <3>1. /\ rx' = [rx EXCEPT ![serial[t]] =
                       IF rx[serial[t]] = Empty THEN Dropped ELSE rx[serial[t]]]
          /\ pc' = [pc EXCEPT ![t] = "idle"]
          /\ UNCHANGED <<tx, serial, queue, check, checked>>
      BY <2>4 DEF Leave, Goto
    <3>2. \A s \in Serials : tx[s] = "dict" => rx[s] \in {Empty, Dropped}
      BY DEF Channels, Live
    <3>3. QED BY <1>ty, <1>nu, <1>q, <2>4, <3>1, <3>2
  <2>5. CASE Bail(t) \/ Send(t) \/ Return(t)
    <3>1. /\ UNCHANGED <<tx, rx, serial, queue, check, checked>>
          /\ pc[t] # "enqueue"
          /\ pc' = [pc EXCEPT ![t] = "idle"] \/ pc' = [pc EXCEPT ![t] = "wait"]
      BY <2>5 DEF Bail, Send, Return, Goto
    <3>2. QED BY <1>ty, <1>q, <3>1
  <2>6. QED BY <1>1, <2>1, <2>2, <2>3, <2>4, <2>5 DEF Caller, Progress, SendFails, Cancel
<1>2. ASSUME NEW d \in Readers, Reader(d) PROVE PendingIsQueued'
  <2>1. ASSUME NEW a \in answers, TakeResult(d, a) PROVE PendingIsQueued'
    <3>1. /\ UNCHANGED <<rx, pc, serial, queue, check, checked>>
          /\ tx' = [tx EXCEPT ![a.serial] = "reader"] \/ tx' = tx
      BY <2>1 DEF TakeResult
    <3>2. QED BY <1>ty, <1>q, <3>1
  <2>2. CASE SendResult(d)
    <3>1. PICK z, r : z = reader[d].serial /\ r = Ok(reader[d].call) OBVIOUS
    <3>2. /\ tx' = [tx EXCEPT ![z] = "spent"]
          /\ rx' = [rx EXCEPT ![z] = IF rx[z] = Empty THEN r ELSE rx[z]]
          /\ UNCHANGED <<pc, serial, queue, check, checked>>
      BY <2>2, <3>1 DEF SendResult, Deliver
    <3>3. QED BY <1>ty, <1>q, <3>2
  <2>3. QED BY <1>2, <2>1, <2>2 DEF Reader
<1>3. CASE Manager
  <2>1. CASE StartCheck \/ EndCheck BY <1>q, <2>1 DEF StartCheck, EndCheck
  <2>2. CASE PopDue
    <3>1. /\ queue # << >> /\ queue' = Tail(queue) /\ checked' = Head(queue).serial
          /\ check = "pop" /\ check' = "take"
          /\ UNCHANGED <<tx, rx, pc, serial>>
      BY <2>2 DEF PopDue, Due
    <3>2. \A s \in Serials : Queued(s) => Queued(s)' \/ s = Head(queue).serial
      BY <1>ty, <3>1, PopKeeps
    <3>3. QED BY <1>ty, <3>1, <3>2
  <2>3. CASE TakeError BY <1>ty, <1>q, <2>3 DEF TakeError
  <2>4. CASE SendError
    <3>1. /\ tx' = [tx EXCEPT ![checked] = "spent"]
          /\ rx' = [rx EXCEPT ![checked] = IF rx[checked] = Empty THEN Timeout ELSE rx[checked]]
          /\ check = "send"
          /\ UNCHANGED <<pc, serial, queue>>
      BY <2>4 DEF SendError, Deliver
    <3>2. QED BY <1>ty, <1>q, <3>1
  <2>5. QED BY <1>3, <2>1, <2>2, <2>3, <2>4 DEF Manager
<1>4. CASE StartConnect \/ EndConnect \/ Disconnect
  BY <1>q, <1>4 DEF StartConnect, EndConnect, Disconnect
<1>5. CASE Wire BY <1>q, <1>5 DEF Wire, Execute, Lose
<1>6. CASE Tick
  <2>1. \A s \in Serials : Queued(s) => Queued(s)'
    BY <1>ty, <1>6, TickQueue DEF Queued
  <2>2. QED BY <1>6, <2>1 DEF Tick
<1>7. CASE UNCHANGED vars BY <1>q, <1>7 DEF vars
<1>8. QED BY <1>1, <1>2, <1>3, <1>4, <1>5, <1>6, <1>7 DEF Next

\* An entry of result_dict whose caller still waits is in the RequestManager's queue, on
\* its way into it or just popped: no interleaving of the two locks loses a timeout.
THEOREM TimeoutIsDue == Spec => []PendingIsQueued
<1>1. Init => SenderIsHeld /\ Channels /\ PendingIsQueued
  BY RxKinds DEF Init, SenderIsHeld, Channels, Live, Has, PendingIsQueued, result_dict
<1>2. QED
  BY <1>1, InitTyping, TypingStep, SenderStep, ChannelsStep, QueuedStep, PTL DEF Spec

-----------------------------------------------------------------------------
(* Refinement                                                              *)

\* A request under way is of a call that is out and has not run, an answer is of one
\* that has; a call that has not sent its request has neither run nor a request.
Unsent(s) == s \notin executed /\ \A r \in requests : r.serial # s
RunsOnce ==
    /\ \A r \in requests : r.serial \notin executed /\ tx[r.serial] # "none"
    /\ \A a \in answers : a.serial \in executed
    /\ \A d \in Readers : reader[d] # Nothing => reader[d].serial \in executed
    /\ \A t \in Callers : pc[t] \in {"insert", "enqueue", "send"} => Unsent(serial[t])
    /\ \A s \in Serials : s > made => Unsent(s)

LEMMA RunsOnceStep ==
    Typing /\ Channels /\ Echoed /\ RunsOnce /\ [Next]_vars => RunsOnce'
<1> SUFFICES ASSUME Typing, Channels, Echoed, RunsOnce, [Next]_vars PROVE RunsOnce'
  OBVIOUS
<1> USE DEF RunsOnce, Unsent, clientVars, callerVars, managerVars, wireVars
<1>ty. /\ tx \in [Serials -> Holders]
       /\ pc \in [Callers -> CallPCs] /\ serial \in [Callers -> Serials \cup {0}]
       /\ made \in 0 .. MaxSerial
       /\ reader \in [Readers -> Frames \cup {Nothing}]
       /\ requests \in SUBSET Frames /\ answers \in SUBSET Frames
  BY DEF Typing, TypeOK
<1>nu. /\ \A t \in Callers : pc[t] # "idle" => serial[t] \in Serials /\ serial[t] <= made
       /\ \A t, u \in Callers :
             pc[t] # "idle" /\ pc[u] # "idle" /\ serial[t] = serial[u] => t = u
  BY <1>ty, MaxSerialAssumption DEF Typing, Numbered, Serials
<1>fr. \A f \in requests \cup answers :
          f \in Frames /\ f.serial \in Serials /\ f.call = f.serial
  BY <1>ty DEF Echoed, Frames
<1>eq. \A f, g \in requests : f.serial = g.serial => f = g
  <2>1. \A f \in requests : f = [serial |-> f.serial, call |-> f.serial]
    BY <1>fr DEF Frames
  <2>2. QED BY <2>1
<1>1. ASSUME NEW t \in Callers, Caller(t) PROVE RunsOnce'
  <2>1. CASE NewSerial(t)
    <3>1. /\ UNCHANGED <<tx, reader, requests, answers, executed>>
          /\ pc' = [pc EXCEPT ![t] = "insert"]
          /\ serial' = [serial EXCEPT ![t] = made + 1]
          /\ made' = made + 1 /\ made < MaxSerial
      BY <2>1 DEF NewSerial, Goto, Typing, Numbered
    <3>2. made + 1 \in Serials /\ made + 1 > made
      BY <1>ty, <3>1, MaxSerialAssumption DEF Serials
    <3>3. Unsent(made + 1) BY <3>2
    <3>4. \A s \in Serials : s > made' => s > made
      BY <1>ty, <3>1, MaxSerialAssumption DEF Serials
    <3>5. QED BY <1>ty, <3>1, <3>3, <3>4
  <2>2. CASE Insert(t)
    <3>1. /\ tx' = [tx EXCEPT ![serial[t]] = "dict"]
          /\ pc[t] = "insert" /\ pc' = [pc EXCEPT ![t] = "enqueue"]
          /\ UNCHANGED <<serial, made, reader, requests, answers, executed>>
      BY <2>2 DEF Insert, Goto
    <3>2. QED BY <1>ty, <1>fr, <3>1
  <2>3. CASE Send(t)
    <3>1. PICK f : f = [serial |-> serial[t], call |-> call[t]] OBVIOUS
    <3>2. /\ requests' = requests \cup {f}
          /\ pc[t] = "send" /\ pc' = [pc EXCEPT ![t] = "wait"]
          /\ UNCHANGED <<tx, serial, made, reader, answers, executed>>
      BY <2>3, <3>1 DEF Send, Goto
    <3>3. f.serial = serial[t] BY <3>1
    <3>4. serial[t] \notin executed /\ tx[serial[t]] # "none"
      BY <1>nu, <3>2 DEF Channels
    <3>5. \A s \in Serials : s > made => s # serial[t]
      BY <1>ty, <1>nu, <3>2, MaxSerialAssumption DEF Serials
    <3>6. QED BY <1>ty, <1>nu, <3>2, <3>3, <3>4, <3>5
  <2>4. CASE Bail(t) \/ Enqueue(t) \/ Leave(t) \/ Return(t)
    <3>1. /\ UNCHANGED <<tx, serial, made, reader, requests, answers, executed>>
          /\ \/ pc' = [pc EXCEPT ![t] = "idle"]
             \/ pc[t] = "enqueue" /\ pc' = [pc EXCEPT ![t] = "send"]
      BY <2>4 DEF Bail, Enqueue, Leave, Return, Goto
    <3>2. QED BY <1>ty, <3>1
  <2>5. QED BY <1>1, <2>1, <2>2, <2>3, <2>4 DEF Caller, Progress, SendFails, Cancel
<1>2. ASSUME NEW d \in Readers, Reader(d) PROVE RunsOnce'
  <2>1. ASSUME NEW a \in answers, TakeResult(d, a) PROVE RunsOnce'
    <3>1. /\ answers' = answers \ {a}
          /\ \/ UNCHANGED <<tx, reader>>
             \/ /\ tx' = [tx EXCEPT ![a.serial] = "reader"]
                /\ reader' = [reader EXCEPT ![d] = a]
          /\ UNCHANGED <<pc, serial, made, requests, executed>>
      BY <2>1 DEF TakeResult
    <3>2. QED BY <1>ty, <1>fr, <3>1
  <2>2. CASE SendResult(d)
    <3>1. PICK z : z = reader[d].serial OBVIOUS
    <3>2. /\ tx' = [tx EXCEPT ![z] = "spent"]
          /\ reader' = [reader EXCEPT ![d] = Nothing]
          /\ UNCHANGED <<pc, serial, made, requests, answers, executed>>
      BY <2>2, <3>1 DEF SendResult
    <3>3. QED BY <1>ty, <1>fr, <3>2
  <2>3. QED BY <1>2, <2>1, <2>2 DEF Reader
<1>3. CASE Manager
  <2>1. CASE StartCheck \/ PopDue \/ EndCheck
    BY <2>1 DEF StartCheck, PopDue, EndCheck
  <2>2. CASE TakeError \/ SendError
    <3>1. /\ UNCHANGED <<pc, serial, made, reader, requests, answers, executed>>
          /\ \/ tx' = tx
             \/ tx' = [tx EXCEPT ![checked] = "checker"]
             \/ tx' = [tx EXCEPT ![checked] = "spent"]
      BY <2>2 DEF TakeError, SendError
    <3>2. QED BY <1>ty, <1>fr, <3>1
  <2>3. QED BY <1>3, <2>1, <2>2 DEF Manager
<1>4. CASE StartConnect \/ EndConnect \/ Disconnect \/ Tick
  BY <1>4 DEF StartConnect, EndConnect, Disconnect, Tick
<1>5. CASE Wire
  <2>1. ASSUME NEW r \in requests \cup answers, Execute(r) PROVE RunsOnce'
    <3>1. /\ r \in requests
          /\ requests' = requests \ {r}
          /\ answers' = answers \cup {r}
          /\ executed' = executed \cup {r.call}
          /\ UNCHANGED <<tx, pc, serial, made, reader>>
      BY <2>1 DEF Execute
    <3>2. r.call = r.serial BY <1>fr, <3>1
    <3>3. \A f \in requests' : f.serial # r.serial BY <1>eq, <3>1
    <3>4. QED BY <1>ty, <1>fr, <3>1, <3>2, <3>3
  <2>2. ASSUME NEW r \in requests \cup answers, Lose(r) PROVE RunsOnce'
    BY <2>2 DEF Lose
  <2>3. QED BY <1>5, <2>1, <2>2 DEF Wire
<1>6. CASE UNCHANGED vars BY <1>6 DEF vars
<1>7. QED BY <1>1, <1>2, <1>3, <1>4, <1>5, <1>6 DEF Next

\* What a receiver holds, and what became of its call.
OutcomeOf(r) == CASE r = NoRx -> "none"
                  [] r = Empty -> "pending"
                  [] r = Dropped -> "abandoned"
                  [] r = Timeout -> "timedout"
                  [] OTHER -> "answered"

LEMMA Outcomes ==
    /\ OutcomeOf(NoRx) = "none" /\ OutcomeOf(Empty) = "pending"
    /\ OutcomeOf(Dropped) = "abandoned" /\ OutcomeOf(Timeout) = "timedout"
    /\ \A n : OutcomeOf(Ok(n)) = "answered"
    /\ \A r : (OutcomeOf(r) = "none" => r = NoRx) /\ (OutcomeOf(r) = "pending" => r = Empty)
BY RxKinds DEF OutcomeOf

LEMMA OutcomeChanges ==
    ASSUME rx \in [Serials -> Received], NEW s \in Serials, NEW r,
           rx' = [rx EXCEPT ![s] = r]
    PROVE  outcome' = [outcome EXCEPT ![s] = OutcomeOf(r)]
<1>1. outcome = [z \in Serials |-> OutcomeOf(rx[z])] BY DEF outcome, OutcomeOf
<1>2. outcome' = [z \in Serials |-> OutcomeOf(rx'[z])] BY DEF outcome, OutcomeOf
<1>3. \A z \in Serials : rx'[z] = IF z = s THEN r ELSE rx[z] OBVIOUS
<1>4. QED BY <1>1, <1>2, <1>3

LEMMA OutcomeIs ==
    ASSUME rx \in [Serials -> Received], NEW s \in Serials
    PROVE  outcome[s] = OutcomeOf(rx[s])
BY DEF outcome, OutcomeOf

\* Every step is a step of RpcCalls, or leaves what became of the calls as it was.
LEMMA RpcStep ==
    Typing /\ SenderIsHeld /\ Channels /\ Echoed /\ RunsOnce /\ [Next]_vars
        => [Rpc!Next]_<<outcome, executed>>
<1> SUFFICES ASSUME Typing, SenderIsHeld, Channels, Echoed, RunsOnce, [Next]_vars
             PROVE  Rpc!Next \/ UNCHANGED <<outcome, executed>>
  OBVIOUS
<1> USE DEF clientVars, callerVars, managerVars, wireVars
<1>ty. /\ rx \in [Serials -> Received] /\ tx \in [Serials -> Holders]
       /\ reader \in [Readers -> Frames \cup {Nothing}]
       /\ requests \in SUBSET Frames
  BY DEF Typing, TypeOK
<1>nu. \A t \in Callers : pc[t] # "idle" => serial[t] \in Serials
  BY MaxSerialAssumption DEF Typing, TypeOK, Numbered, Serials
<1>un. UNCHANGED rx => UNCHANGED outcome BY DEF outcome
<1>give. ASSUME NEW s \in Serials, NEW r \in {Dropped, Timeout},
                rx' = [rx EXCEPT ![s] = IF rx[s] = Empty THEN r ELSE rx[s]],
                UNCHANGED executed
         PROVE  Rpc!Next \/ UNCHANGED <<outcome, executed>>
  <2>1. CASE rx[s] = Empty
    <3>1. rx' = [rx EXCEPT ![s] = r] BY <1>give, <2>1
    <3>2. PICK o \in {"timedout", "abandoned"} : o = OutcomeOf(r) BY Outcomes
    <3>3. outcome' = [outcome EXCEPT ![s] = o] BY <1>ty, <3>1, <3>2, OutcomeChanges
    <3>4. outcome' = [c \in Serials |-> IF c \in {s} THEN o ELSE outcome[c]]
      BY <3>3 DEF outcome
    <3>5. outcome[s] = "pending" BY <1>ty, <2>1, OutcomeIs, Outcomes
    <3>6. Rpc!GiveUp({s}) BY <1>give, <3>4, <3>5 DEF Rpc!GiveUp
    <3>7. QED BY <3>6 DEF Rpc!Next
  <2>2. CASE rx[s] # Empty
    <3>1. UNCHANGED rx BY <1>ty, <1>give, <2>2
    <3>2. QED BY <1>un, <1>give, <3>1
  <2>3. QED BY <2>1, <2>2
<1>1. ASSUME NEW t \in Callers, Caller(t) PROVE Rpc!Next \/ UNCHANGED <<outcome, executed>>
  <2>1. CASE Insert(t)
    <3>1. /\ rx' = [rx EXCEPT ![serial[t]] = Empty]
          /\ pc[t] = "insert" /\ UNCHANGED executed
      BY <2>1 DEF Insert
    <3>2. serial[t] \in Serials BY <1>nu, <3>1
    <3>3. rx[serial[t]] = NoRx BY <3>1, <3>2 DEF Channels
    <3>4. outcome[serial[t]] = "none" BY <1>ty, <3>2, <3>3, OutcomeIs, Outcomes
    <3>5. outcome' = [outcome EXCEPT ![serial[t]] = "pending"]
      <4>1. outcome' = [outcome EXCEPT ![serial[t]] = OutcomeOf(Empty)]
        BY <1>ty, <3>1, <3>2, OutcomeChanges
      <4>2. QED BY <4>1, Outcomes
    <3>6. Rpc!Issue(serial[t]) BY <3>1, <3>4, <3>5 DEF Rpc!Issue
    <3>7. QED BY <3>2, <3>6 DEF Rpc!Next
  <2>2. CASE Leave(t) /\ pc[t] # "idle"
    <3>1. /\ rx' = [rx EXCEPT ![serial[t]] =
                       IF rx[serial[t]] = Empty THEN Dropped ELSE rx[serial[t]]]
          /\ UNCHANGED executed
      BY <2>2 DEF Leave
    <3>2. QED BY <1>nu, <1>give, <2>2, <3>1
  <2>3. CASE NewSerial(t) \/ Bail(t) \/ Enqueue(t) \/ Send(t) \/ Return(t)
    BY <1>un, <2>3 DEF NewSerial, Bail, Enqueue, Send, Return
  <2>4. QED BY <1>1, <2>1, <2>2, <2>3 DEF Caller, Progress, SendFails, Cancel
<1>2. ASSUME NEW d \in Readers, Reader(d) PROVE Rpc!Next \/ UNCHANGED <<outcome, executed>>
  <2>1. ASSUME NEW a \in answers, TakeResult(d, a) PROVE UNCHANGED <<outcome, executed>>
    BY <1>un, <2>1 DEF TakeResult
  <2>2. CASE SendResult(d)
    <3>1. reader[d] \in Frames /\ reader[d] # Nothing BY <1>ty, <2>2 DEF SendResult
    <3>2. PICK s \in Serials : s = reader[d].serial BY <3>1 DEF Frames
    <3>3. s \in executed BY <3>1, <3>2 DEF RunsOnce
    <3>4. PICK r : r = Ok(reader[d].call) OBVIOUS
    <3>5. rx' = [rx EXCEPT ![s] = IF rx[s] = Empty THEN r ELSE rx[s]] /\ UNCHANGED executed
      BY <2>2, <3>2, <3>4 DEF SendResult, Deliver
    <3>6. CASE rx[s] = Empty
      <4>1. rx' = [rx EXCEPT ![s] = r] BY <3>5, <3>6
      <4>2. outcome' = [outcome EXCEPT ![s] = "answered"]
        <5>1. outcome' = [outcome EXCEPT ![s] = OutcomeOf(r)] BY <1>ty, <4>1, OutcomeChanges
        <5>2. OutcomeOf(r) = "answered" BY <3>4, Outcomes
        <5>3. QED BY <5>1, <5>2
      <4>3. outcome[s] = "pending" BY <1>ty, <3>6, OutcomeIs, Outcomes
      <4>4. Rpc!Answer(s) BY <3>3, <3>5, <4>2, <4>3 DEF Rpc!Answer
      <4>5. QED BY <4>4 DEF Rpc!Next
    <3>7. CASE rx[s] # Empty
      <4>1. UNCHANGED rx BY <1>ty, <3>5, <3>7
      <4>2. QED BY <1>un, <3>5, <4>1
    <3>8. QED BY <3>6, <3>7
  <2>3. QED BY <1>2, <2>1, <2>2 DEF Reader
<1>3. CASE Manager
  <2>1. CASE StartCheck \/ PopDue \/ EndCheck \/ TakeError
    BY <1>un, <2>1 DEF StartCheck, PopDue, EndCheck, TakeError
  <2>2. CASE SendError
    <3>1. checked \in Serials BY <2>2 DEF SendError, Typing, HasChecked
    <3>2. QED BY <1>give, <2>2, <3>1 DEF SendError, Deliver
  <2>3. QED BY <1>3, <2>1, <2>2 DEF Manager
<1>4. CASE StartConnect \/ EndConnect \/ Disconnect \/ Tick
  BY <1>un, <1>4 DEF StartConnect, EndConnect, Disconnect, Tick
<1>5. CASE Wire
  <2>1. ASSUME NEW r \in requests \cup answers, Execute(r) PROVE Rpc!Next
    <3>1. r \in requests /\ executed' = executed \cup {r.call} /\ UNCHANGED rx
      BY <2>1 DEF Execute
    <3>2. r.serial \in Serials /\ r.call = r.serial BY <1>ty, <3>1 DEF Frames, Echoed
    <3>3. r.serial \notin executed /\ rx[r.serial] # NoRx
      BY <3>1, <3>2 DEF RunsOnce, Channels
    <3>4. outcome[r.serial] # "none" BY <1>ty, <3>2, <3>3, OutcomeIs, Outcomes
    <3>5. Rpc!Execute(r.serial) BY <1>un, <3>1, <3>2, <3>3, <3>4 DEF Rpc!Execute
    <3>6. QED BY <3>2, <3>5 DEF Rpc!Next
  <2>2. ASSUME NEW r \in requests \cup answers, Lose(r) PROVE UNCHANGED <<outcome, executed>>
    BY <1>un, <2>2 DEF Lose
  <2>3. QED BY <1>5, <2>1, <2>2 DEF Wire
<1>6. CASE UNCHANGED vars BY <1>un, <1>6 DEF vars
<1>7. QED BY <1>1, <1>2, <1>3, <1>4, <1>5, <1>6 DEF Next

\* NetXClient::call keeps what RpcCalls promises: one outcome per call, which it keeps,
\* and an answer only for a call the other side has run.
THEOREM Refinement == Spec => ImplementsRpc
<1>1. Init => SenderIsHeld /\ Channels /\ Echoed /\ RunsOnce
  BY RxKinds
  DEF Init, SenderIsHeld, Channels, Live, Has, Echoed, RunsOnce, Unsent, NoRx
<1>2. Init => Rpc!Init
  <2> SUFFICES ASSUME Init PROVE Rpc!Init
    OBVIOUS
  <2>1. \A s \in Serials : rx[s] = NoRx BY DEF Init
  <2>2. outcome = [s \in Serials |-> OutcomeOf(rx[s])] BY DEF outcome, OutcomeOf
  <2>3. outcome = [s \in Serials |-> "none"] BY <2>1, <2>2, Outcomes
  <2>4. QED BY <2>3 DEF Init, Rpc!Init
<1>3. QED
  BY <1>1, <1>2, InitTyping, TypingStep, SenderStep, ChannelsStep, EchoedStep,
     RunsOnceStep, RpcStep, PTL
  DEF Spec, ImplementsRpc, Rpc!Spec
=============================================================================
