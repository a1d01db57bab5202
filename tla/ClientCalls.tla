----------------------------- MODULE ClientCalls -----------------------------
(***************************************************************************)
(* The pending calls of a netx client: NetXClient::call, the reader's     *)
(* set_result and the RequestManager's timeouts.                          *)
(*                                                                         *)
(* The answer to a call travels through a oneshot channel.  Its sender    *)
(* sits in result_dict under the serial of the call, until a reader task  *)
(* or the RequestManager takes it out under the client's lock; the send   *)
(* follows outside the lock.  The serial enters the RequestManager's      *)
(* queue in a second step, under another lock.  connect_network holds the *)
(* client's lock while it connects; RequestManager::check holds its own   *)
(* while it waits for the client's.  Calls may be dropped at any await.   *)
(*                                                                         *)
(* The handshake is left out: net is Some or None.  A call's payload is   *)
(* the number of the call, which the other side echoes.                   *)
(***************************************************************************)
EXTENDS Naturals, Sequences

CONSTANTS
    Callers,    (* tasks that make calls, one at a time                     *)
    Readers,    (* read_buffer tasks: of this connection, of earlier ones   *)
    MaxSerial,  (* bound: calls made in a behaviour                         *)
    OutTime,    (* request_out_time_ms, in clock ticks                      *)
    Nothing     (* no frame                                                 *)

ASSUME MaxSerialAssumption == MaxSerial \in Nat
ASSUME OutTimeAssumption == OutTime \in Nat
ASSUME NothingAssumption == Nothing \notin [serial : Nat, call : Nat]

VARIABLES
    \* the NetXClient
    net,            \* whether net is Some
    connecting,     \* connect_network holds the client's lock
    serial_atomic,  \* the next serial
    tx,             \* where the sender of each serial is
    rx,             \* what its receiver holds
    \* the callers
    pc, serial, call,
    \* the readers
    reader,         \* the answer a reader has taken the sender for
    \* the RequestManager; its lock is held unless "sleep"
    queue, check, checked,
    \* the connection and the other side
    requests, answers, executed,
    \* history
    made            \* calls made so far, the next call's number less one

clientVars  == <<net, connecting, tx, rx>>
callerVars  == <<pc, serial, call, serial_atomic, made>>
managerVars == <<queue, check, checked>>
wireVars    == <<requests, answers, executed>>
vars == <<clientVars, callerVars, reader, managerVars, wireVars>>

-----------------------------------------------------------------------------
(* Type definitions                                                        *)

Serials  == 1 .. MaxSerial
Ages     == 0 .. OutTime       \* an age past OutTime is as good as OutTime
Frames   == [serial : Serials, call : Serials]
Entries  == [serial : Serials, age : Ages]
Holders  == {"none", "dict", "reader", "checker", "spent"}
Received == [kind : {"none", "empty", "dropped", "timeout"}, call : {0}]
                \cup [kind : {"answer"}, call : Serials]
CallPCs  == {"idle", "insert", "enqueue", "send", "wait"}

TypeOK ==
    /\ net \in BOOLEAN
    /\ connecting \in BOOLEAN
    /\ serial_atomic \in 1 .. MaxSerial + 1
    /\ made \in 0 .. MaxSerial
    /\ tx \in [Serials -> Holders]
    /\ rx \in [Serials -> Received]
    /\ pc \in [Callers -> CallPCs]
    /\ serial \in [Callers -> Serials \cup {0}]
    /\ call \in [Callers -> Serials \cup {0}]
    /\ reader \in [Readers -> Frames \cup {Nothing}]
    /\ queue \in Seq(Entries)
    /\ check \in {"sleep", "pop", "take", "send"}
    /\ checked \in Serials \cup {0}
    /\ requests \in SUBSET Frames
    /\ answers \in SUBSET Frames
    /\ executed \in SUBSET Serials

Empty   == [kind |-> "empty", call |-> 0]
Dropped == [kind |-> "dropped", call |-> 0]
Timeout == [kind |-> "timeout", call |-> 0]
NoRx    == [kind |-> "none", call |-> 0]
Ok(n)   == [kind |-> "answer", call |-> n]

Init ==
    /\ net = FALSE
    /\ connecting = FALSE
    /\ serial_atomic = 1
    /\ made = 0
    /\ tx = [s \in Serials |-> "none"]
    /\ rx = [s \in Serials |-> NoRx]
    /\ pc = [t \in Callers |-> "idle"]
    /\ serial = [t \in Callers |-> 0]
    /\ call = [t \in Callers |-> 0]
    /\ reader = [d \in Readers |-> Nothing]
    /\ queue = << >>
    /\ check = "sleep"
    /\ checked = 0
    /\ requests = {}
    /\ answers = {}
    /\ executed = {}

result_dict == {s \in Serials : tx[s] = "dict"}

Goto(t, label) == pc' = [pc EXCEPT ![t] = label]

\* What the oneshot channel of s holds once its sender has sent r: a receiver that
\* is gone makes the send fail, which is only logged.
Deliver(s, r) == rx' = [rx EXCEPT ![s] = IF rx[s] = Empty THEN r ELSE rx[s]]

-----------------------------------------------------------------------------
(* The callers: call! draws a serial and NetXClient::call does the rest.  *)

\* Mutant: the serial is read but not advanced.
NewSerial_same(t) ==
    /\ pc[t] = "idle"
    /\ made < MaxSerial
    /\ serial' = [serial EXCEPT ![t] = serial_atomic]
    /\ made' = made + 1
    /\ call' = [call EXCEPT ![t] = made + 1]
    /\ Goto(t, "insert")
    /\ UNCHANGED <<serial_atomic, clientVars, reader, managerVars, wireVars>>

NewSerial(t) ==
    /\ pc[t] = "idle"
    /\ made < MaxSerial
    /\ serial' = [serial EXCEPT ![t] = serial_atomic]
    /\ serial_atomic' = serial_atomic + 1
    /\ made' = made + 1
    /\ call' = [call EXCEPT ![t] = made + 1]
    /\ Goto(t, "insert")
    /\ UNCHANGED <<clientVars, reader, managerVars, wireVars>>

\* Under the client's lock: the sender goes into result_dict ...
Insert(t) ==
    /\ pc[t] = "insert"
    /\ ~connecting
    /\ net
    /\ serial[t] \notin result_dict
    /\ tx' = [tx EXCEPT ![serial[t]] = "dict"]
    /\ rx' = [rx EXCEPT ![serial[t]] = Empty]
    /\ Goto(t, "enqueue")
    /\ UNCHANGED <<net, connecting, serial, call, serial_atomic, made, reader,
                   managerVars, wireVars>>

\* ... unless there is no connection, or the serial is taken.
Bail(t) ==
    /\ pc[t] = "insert"
    /\ ~connecting
    /\ ~net \/ serial[t] \in result_dict
    /\ Goto(t, "idle")
    /\ UNCHANGED <<clientVars, serial, call, serial_atomic, made, reader,
                   managerVars, wireVars>>

\* Mutant: the serial does not enter the queue.
Enqueue_skips(t) ==
    /\ pc[t] = "enqueue"
    /\ check = "sleep"
    /\ Goto(t, "send")
    /\ UNCHANGED <<clientVars, serial, call, serial_atomic, made, reader, managerVars,
                   wireVars>>

\* request_manager.set(serial), under the RequestManager's lock.
Enqueue(t) ==
    /\ pc[t] = "enqueue"
    /\ check = "sleep"
    /\ queue' = Append(queue, [serial |-> serial[t], age |-> 0])
    /\ Goto(t, "send")
    /\ UNCHANGED <<clientVars, serial, call, serial_atomic, made, reader, check,
                   checked, wireVars>>

\* net.send_all on the connection cloned in Insert.
Send(t) ==
    /\ pc[t] = "send"
    /\ requests' = requests \cup {[serial |-> serial[t], call |-> call[t]]}
    /\ Goto(t, "wait")
    /\ UNCHANGED <<clientVars, serial, call, serial_atomic, made, reader, managerVars,
                   answers, executed>>

\* The caller stops and with it the receiver: the entries stay behind.
Leave(t) ==
    /\ Goto(t, "idle")
    /\ rx' = [rx EXCEPT ![serial[t]] = IF rx[serial[t]] = Empty THEN Dropped ELSE @]
    /\ UNCHANGED <<net, connecting, tx, serial, call, serial_atomic, made, reader,
                   managerVars, wireVars>>

\* send_all fails: call returns the error.
SendFails(t) == pc[t] = "send" /\ Leave(t)

\* The call's future is dropped while it waits for a lock, the socket or the answer.
Cancel(t) == pc[t] # "idle" /\ Leave(t)

\* rx.await
Return(t) ==
    /\ pc[t] = "wait"
    /\ rx[serial[t]].kind \in {"answer", "timeout"}
    /\ Goto(t, "idle")
    /\ UNCHANGED <<clientVars, serial, call, serial_atomic, made, reader, managerVars,
                   wireVars>>

-----------------------------------------------------------------------------
(* The readers: frame 2500, set_result.                                   *)

\* Take the sender out of result_dict, under the client's lock; an answer nobody
\* is registered for is only logged.
TakeResult(d, a) ==
    /\ reader[d] = Nothing
    /\ a \in answers
    /\ ~connecting
    /\ answers' = answers \ {a}
    /\ \/ /\ a.serial \in result_dict
          /\ tx' = [tx EXCEPT ![a.serial] = "reader"]
          /\ reader' = [reader EXCEPT ![d] = a]
       \/ /\ a.serial \notin result_dict
          /\ UNCHANGED <<tx, reader>>
    /\ UNCHANGED <<net, connecting, rx, callerVars, managerVars, requests, executed>>

\* Mutant: what is sent has been read to its end.
SendResult_read(d) ==
    /\ reader[d] # Nothing
    /\ Deliver(reader[d].serial, Ok(0))
    /\ tx' = [tx EXCEPT ![reader[d].serial] = "spent"]
    /\ reader' = [reader EXCEPT ![d] = Nothing]
    /\ UNCHANGED <<net, connecting, callerVars, managerVars, wireVars>>

\* tx.send(Ok(data)), outside the lock.
SendResult(d) ==
    /\ reader[d] # Nothing
    /\ Deliver(reader[d].serial, Ok(reader[d].call))
    /\ tx' = [tx EXCEPT ![reader[d].serial] = "spent"]
    /\ reader' = [reader EXCEPT ![d] = Nothing]
    /\ UNCHANGED <<net, connecting, callerVars, managerVars, wireVars>>

-----------------------------------------------------------------------------
(* The RequestManager: start_check, check, set_error.                     *)

StartCheck ==
    /\ check = "sleep"
    /\ check' = "pop"
    /\ UNCHANGED <<clientVars, callerVars, reader, queue, checked, wireVars>>

Due == queue # << >> /\ Head(queue).age >= OutTime

PopDue ==
    /\ check = "pop"
    /\ Due
    /\ queue' = Tail(queue)
    /\ checked' = Head(queue).serial
    /\ check' = "take"
    /\ UNCHANGED <<clientVars, callerVars, reader, wireVars>>

\* Mutant: the entry that is not due is not put back.
EndCheck_drops ==
    /\ check = "pop"
    /\ ~Due
    /\ check' = "sleep"
    /\ queue' = IF queue = << >> THEN queue ELSE Tail(queue)
    /\ UNCHANGED <<clientVars, callerVars, reader, checked, wireVars>>

EndCheck ==
    /\ check = "pop"
    /\ ~Due
    /\ check' = "sleep"
    /\ UNCHANGED <<clientVars, callerVars, reader, queue, checked, wireVars>>

\* Mutant: the sender is removed and dropped.
TakeError_drops ==
    /\ check = "take"
    /\ ~connecting
    /\ tx' = IF checked \in result_dict THEN [tx EXCEPT ![checked] = "spent"] ELSE tx
    /\ check' = "pop"
    /\ checked' = 0
    /\ UNCHANGED <<net, connecting, rx, callerVars, reader, queue, wireVars>>

\* set_error: take the sender, under the client's lock.
TakeError ==
    /\ check = "take"
    /\ ~connecting
    /\ \/ /\ checked \in result_dict
          /\ tx' = [tx EXCEPT ![checked] = "checker"]
          /\ check' = "send"
          /\ UNCHANGED checked
       \/ /\ checked \notin result_dict
          /\ check' = "pop"
          /\ checked' = 0
          /\ UNCHANGED tx
    /\ UNCHANGED <<net, connecting, rx, callerVars, reader, queue, wireVars>>

\* tx.send(Err(SerialTimeOut)), outside the client's lock.
SendError ==
    /\ check = "send"
    /\ Deliver(checked, Timeout)
    /\ tx' = [tx EXCEPT ![checked] = "spent"]
    /\ check' = "pop"
    /\ checked' = 0
    /\ UNCHANGED <<net, connecting, callerVars, reader, queue, wireVars>>

-----------------------------------------------------------------------------
(* The connection, the other side and the clock.                          *)

StartConnect ==
    /\ ~connecting
    /\ ~net
    /\ connecting' = TRUE
    /\ UNCHANGED <<net, tx, rx, callerVars, reader, managerVars, wireVars>>

\* Connected, refused, or timed out after request_out_time_ms.
EndConnect ==
    /\ connecting
    /\ connecting' = FALSE
    /\ net' \in BOOLEAN
    /\ UNCHANGED <<tx, rx, callerVars, reader, managerVars, wireVars>>

\* clean_connect and close take net; result_dict stays as it is.
Disconnect ==
    /\ ~connecting
    /\ net
    /\ net' = FALSE
    /\ UNCHANGED <<connecting, tx, rx, callerVars, reader, managerVars, wireVars>>

\* The other side runs the call and answers, when it likes.
Execute(r) ==
    /\ r \in requests
    /\ requests' = requests \ {r}
    /\ answers' = answers \cup {r}
    /\ executed' = executed \cup {r.call}
    /\ UNCHANGED <<clientVars, callerVars, reader, managerVars>>

\* A connection that breaks takes the frames under way with it.
Lose(r) ==
    /\ r \in requests \cup answers
    /\ requests' = requests \ {r}
    /\ answers' = answers \ {r}
    /\ UNCHANGED <<clientVars, callerVars, reader, managerVars, executed>>

Older(a) == IF a < OutTime THEN a + 1 ELSE a

Tick ==
    /\ queue' = [i \in 1 .. Len(queue) |->
                    [serial |-> queue[i].serial, age |-> Older(queue[i].age)]]
    /\ UNCHANGED <<clientVars, callerVars, reader, check, checked, wireVars>>

Progress(t) == Insert(t) \/ Bail(t) \/ Enqueue(t) \/ Send(t) \/ SendFails(t) \/ Return(t)
Caller(t)   == NewSerial(t) \/ Progress(t) \/ Cancel(t)
Reader(d)   == (\E a \in answers : TakeResult(d, a)) \/ SendResult(d)
Manager     == StartCheck \/ PopDue \/ EndCheck \/ TakeError \/ SendError
Wire        == \E r \in requests \cup answers : Execute(r) \/ Lose(r)

Next ==
    \/ \E t \in Callers : Caller(t)
    \/ \E d \in Readers : Reader(d)
    \/ Manager
    \/ StartConnect \/ EndConnect \/ Disconnect
    \/ Wire
    \/ Tick

(***************************************************************************)
(* Fairness.  Tasks are scheduled and locks are FIFO, so that a task that *)
(* waits for a lock others release again and again gets it.  A connect    *)
(* attempt ends: connect_network bounds it by request_out_time_ms.  The   *)
(* other side and the network owe nothing.                                *)
(***************************************************************************)
Fairness ==
    /\ \A t \in Callers : SF_vars(Progress(t))
    /\ \A d \in Readers : WF_vars(SendResult(d))
    /\ SF_vars(Manager)
    /\ WF_vars(EndConnect)
    /\ WF_vars(Tick)

Spec     == Init /\ [][Next]_vars
FairSpec == Spec /\ Fairness
-----------------------------------------------------------------------------
(* Safety                                                                  *)

Queued(s)  == \E i \in 1 .. Len(queue) : queue[i].serial = s
Taking(s)  == check = "take" /\ checked = s
Entering(s) == \E t \in Callers : pc[t] = "enqueue" /\ serial[t] = s

\* An entry of result_dict somebody still waits for is sure to time out: it is in the
\* queue, on its way into it, or just popped.  Only a call dropped between result_dict
\* and the queue leaves an entry that nothing but an answer removes.
PendingIsQueued ==
    \A s \in result_dict : Queued(s) \/ Taking(s) \/ Entering(s) \/ rx[s] = Dropped

\* As long as the receiver of a waiting caller is empty, its sender is in result_dict or
\* in the hands of the one task about to use it; once it has an answer, nobody has: no
\* sender is lost between the two locks, and no two tasks answer one call.
WaiterHasSender ==
    \A t \in Callers :
        LET s       == serial[t]
            readers == {d \in Readers : reader[d] # Nothing /\ reader[d].serial = s}
            checker == check = "send" /\ checked = s
        IN  pc[t] \in {"enqueue", "send", "wait"} =>
                IF rx[s] # Empty THEN s \notin result_dict /\ readers = {} /\ ~checker
                ELSE \/ s \in result_dict /\ readers = {} /\ ~checker
                     \/ s \notin result_dict /\ checker /\ readers = {}
                     \/ s \notin result_dict /\ ~checker /\ \E d \in Readers : readers = {d}

\* A caller gets the answer to its own call.
AnswerIsOwn ==
    \A t \in Callers :
        pc[t] = "wait" /\ rx[serial[t]].kind = "answer" => rx[serial[t]].call = call[t]

(* Liveness                                                                *)

\* Every call returns, whatever the other side and the network do, and what is queued
\* for its timeout leaves result_dict, its caller being there or not.
EveryCallReturns ==
    /\ \A t \in Callers : pc[t] = "wait" ~> pc[t] # "wait"
    /\ \A s \in Serials : s \in result_dict /\ Queued(s) ~> s \notin result_dict

(* Refinement                                                              *)

outcome == [s \in Serials |->
               CASE rx[s] = NoRx -> "none"
                 [] rx[s] = Empty -> "pending"
                 [] rx[s] = Dropped -> "abandoned"
                 [] rx[s] = Timeout -> "timedout"
                 [] OTHER -> "answered"]

Rpc == INSTANCE RpcCalls WITH Calls <- Serials

\* One outcome per call, and an answer only for a call the other side has run.
ImplementsRpc == Rpc!Spec
=============================================================================
