----------------------------- MODULE TokenCalls -----------------------------
(***************************************************************************)
(* The calls a server makes to its clients: AsyncToken::call, the         *)
(* connection task's set_result, and the checker's walk over the tokens.  *)
(*                                                                         *)
(* A call registers its sender in result_dict and its serial in           *)
(* request_queue in one step under the token's lock.  The checker visits  *)
(* the tokens of the manager's dict without the manager's lock, one await *)
(* per token, and only then takes that lock and removes tokens: a token   *)
(* out of dict is not visited any more.                                   *)
(*                                                                         *)
(* Of the session core, see ServerSessions, this keeps that tokens are    *)
(* created, resolved, attached, detached and removed.  Handlers that hold *)
(* the token's lock in get_token are left to that module.                 *)
(***************************************************************************)
EXTENDS Naturals, Sequences

CONSTANTS
    Tokens,     (* session tokens                                           *)
    Calls,      (* server tasks that make one call each                     *)
    Conns,      (* connection tasks, each serves one token                  *)
    MaxSerial,  (* bound: calls made on one token                           *)
    OutTime,    (* request_out_time, in clock ticks                         *)
    NoToken, NoCall, NoConn

ASSUME MaxSerialAssumption == MaxSerial \in Nat
ASSUME OutTimeAssumption == OutTime \in Nat
ASSUME NoneAssumption ==
    /\ NoToken \notin Tokens
    /\ NoCall \notin Calls \cup [sender : Calls, answer : Calls]
    /\ NoConn \notin Conns

VARIABLES
    \* the AsyncTokenManager
    dict, created,
    \* the AsyncTokens
    peer, serial_atomic, result_dict, request_queue,
    \* the calls
    pc, tok, serial,
    via,            \* the peer cloned by the call
    rx,             \* what the receiver of the call holds
    \* the connection tasks
    conn,           \* where the task stands
    serves,         \* its token
    hand,           \* the sender it has taken, and the call the answer is to
    \* the checker
    check, walk,    \* walk: the tokens still to visit
    \* the connections and the clients
    requests, answers, executed

managerVars == <<dict, created>>
tokenVars   == <<peer, serial_atomic, result_dict, request_queue>>
callVars    == <<pc, tok, serial, via, rx>>
connVars    == <<conn, serves, hand>>
checkVars   == <<check, walk>>
wireVars    == <<requests, answers, executed>>
vars == <<managerVars, tokenVars, callVars, connVars, checkVars, wireVars>>

-----------------------------------------------------------------------------
(* Type definitions                                                        *)

Serials  == 1 .. MaxSerial
Ages     == 0 .. OutTime        \* an age past OutTime is as good as OutTime
Frames   == [call : Calls, serial : Serials, conn : Conns]
Entries  == [serial : Serials, age : Ages]
Received == [kind : {"none", "empty", "dropped", "timeout"}, call : {NoCall}]
                \cup [kind : {"answer"}, call : Calls]

TypeOK ==
    /\ created \in SUBSET Tokens
    /\ dict \in SUBSET created
    /\ peer \in [Tokens -> Conns \cup {NoConn}]
    /\ serial_atomic \in [Tokens -> 1 .. MaxSerial + 1]
    /\ result_dict \in [Tokens -> SUBSET Calls]
    /\ request_queue \in [Tokens -> Seq(Entries)]
    /\ pc \in [Calls -> {"idle", "insert", "send", "wait", "done"}]
    /\ tok \in [Calls -> Tokens \cup {NoToken}]
    /\ serial \in [Calls -> Serials \cup {0}]
    /\ via \in [Calls -> Conns \cup {NoConn}]
    /\ rx \in [Calls -> Received]
    /\ conn \in [Conns -> {"idle", "attach", "reading", "detach", "done"}]
    /\ serves \in [Conns -> Tokens \cup {NoToken}]
    /\ hand \in [Conns -> [sender : Calls, answer : Calls] \cup {NoCall}]
    /\ check \in {"sleep", "walk"}
    /\ walk \in SUBSET created
    /\ requests \in SUBSET Frames
    /\ answers \in SUBSET Frames
    /\ executed \in SUBSET Calls

Is(kind) == [kind |-> kind, call |-> NoCall]
Ok(c)    == [kind |-> "answer", call |-> c]

Init ==
    /\ created = {}
    /\ dict = {}
    /\ peer = [t \in Tokens |-> NoConn]
    /\ serial_atomic = [t \in Tokens |-> 1]
    /\ result_dict = [t \in Tokens |-> {}]
    /\ request_queue = [t \in Tokens |-> << >>]
    /\ pc = [c \in Calls |-> "idle"]
    /\ tok = [c \in Calls |-> NoToken]
    /\ serial = [c \in Calls |-> 0]
    /\ via = [c \in Calls |-> NoConn]
    /\ rx = [c \in Calls |-> Is("none")]
    /\ conn = [d \in Conns |-> "idle"]
    /\ serves = [d \in Conns |-> NoToken]
    /\ hand = [d \in Conns |-> NoCall]
    /\ check = "sleep"
    /\ walk = {}
    /\ requests = {}
    /\ answers = {}
    /\ executed = {}

\* The call registered under serial s of token t, if any.
Registered(t, s) == {c \in result_dict[t] : serial[c] = s}

Goto(c, label) == pc' = [pc EXCEPT ![c] = label]

-----------------------------------------------------------------------------
(* The calls: call_peer! draws a serial, AsyncToken::call does the rest.  *)

\* Mutant: the serial is read but not advanced.
NewSerial_same(c, t) ==
    /\ pc[c] = "idle"
    /\ t \in created
    /\ tok' = [tok EXCEPT ![c] = t]
    /\ serial' = [serial EXCEPT ![c] = serial_atomic[t]]
    /\ Goto(c, "insert")
    /\ UNCHANGED <<managerVars, tokenVars, via, rx, connVars, checkVars, wireVars>>

\* A handler reaches a token through get_token and keeps it, in dict or not.
NewSerial(c, t) ==
    /\ pc[c] = "idle"
    /\ t \in created
    /\ serial_atomic[t] <= MaxSerial
    /\ tok' = [tok EXCEPT ![c] = t]
    /\ serial' = [serial EXCEPT ![c] = serial_atomic[t]]
    /\ serial_atomic' = [serial_atomic EXCEPT ![t] = @ + 1]
    /\ Goto(c, "insert")
    /\ UNCHANGED <<managerVars, peer, result_dict, request_queue, via, rx, connVars,
                   checkVars, wireVars>>

\* Mutant: the serial does not enter request_queue.
Insert_unqueued(c) ==
    LET t == tok[c] IN
    /\ pc[c] = "insert"
    /\ peer[t] # NoConn
    /\ Registered(t, serial[c]) = {}
    /\ result_dict' = [result_dict EXCEPT ![t] = @ \cup {c}]
    /\ via' = [via EXCEPT ![c] = peer[t]]
    /\ rx' = [rx EXCEPT ![c] = Is("empty")]
    /\ Goto(c, "send")
    /\ UNCHANGED <<managerVars, peer, serial_atomic, request_queue, tok, serial, connVars,
                   checkVars, wireVars>>

\* Under the token's lock: sender and queue entry at once.
Insert(c) ==
    LET t == tok[c] IN
    /\ pc[c] = "insert"
    /\ peer[t] # NoConn
    /\ Registered(t, serial[c]) = {}
    /\ result_dict' = [result_dict EXCEPT ![t] = @ \cup {c}]
    /\ request_queue' = [request_queue EXCEPT ![t] =
                            Append(@, [serial |-> serial[c], age |-> 0])]
    /\ via' = [via EXCEPT ![c] = peer[t]]
    /\ rx' = [rx EXCEPT ![c] = Is("empty")]
    /\ Goto(c, "send")
    /\ UNCHANGED <<managerVars, peer, serial_atomic, tok, serial, connVars, checkVars,
                   wireVars>>

\* TokenDisconnect, SerialHave
Bail(c) ==
    /\ pc[c] = "insert"
    /\ peer[tok[c]] = NoConn \/ Registered(tok[c], serial[c]) # {}
    /\ Goto(c, "done")
    /\ UNCHANGED <<managerVars, tokenVars, tok, serial, via, rx, connVars, checkVars,
                   wireVars>>

\* peer.send_all on the peer cloned in Insert
Send(c) ==
    /\ pc[c] = "send"
    /\ requests' = requests \cup {[call |-> c, serial |-> serial[c], conn |-> via[c]]}
    /\ Goto(c, "wait")
    /\ UNCHANGED <<managerVars, tokenVars, tok, serial, via, rx, connVars, checkVars,
                   answers, executed>>

\* The call stops and with it the receiver: result_dict and queue stay as they are.
Leave(c) ==
    /\ Goto(c, "done")
    /\ rx' = [rx EXCEPT ![c] = IF @ = Is("empty") THEN Is("dropped") ELSE @]
    /\ UNCHANGED <<managerVars, tokenVars, tok, serial, via, connVars, checkVars,
                   wireVars>>

SendFails(c) == pc[c] = "send" /\ Leave(c)

\* The handler drops the call's future, in a select or a timeout of its own.
Cancel(c) == pc[c] \in {"insert", "send", "wait"} /\ Leave(c)

\* rx.await
Return(c) ==
    /\ pc[c] = "wait"
    /\ rx[c].kind \in {"answer", "timeout"}
    /\ Goto(c, "done")
    /\ UNCHANGED <<managerVars, tokenVars, tok, serial, via, rx, connVars, checkVars,
                   wireVars>>

-----------------------------------------------------------------------------
(* The connection tasks: get_peer_token, set_peer, frame 2500, set_peer.  *)

Create(t) ==
    /\ t \notin created
    /\ created' = created \cup {t}
    /\ dict' = dict \cup {t}
    \* an insert under a walk of the same map: whatever the iterator then finds
    /\ walk' \in IF check = "walk" THEN SUBSET dict' ELSE {walk}
    /\ UNCHANGED <<tokenVars, callVars, connVars, check, wireVars>>

Resolve(d, t) ==
    /\ conn[d] = "idle"
    /\ t \in dict
    /\ conn' = [conn EXCEPT ![d] = "attach"]
    /\ serves' = [serves EXCEPT ![d] = t]
    /\ UNCHANGED <<managerVars, tokenVars, callVars, hand, checkVars, wireVars>>

Attach(d) ==
    /\ conn[d] = "attach"
    /\ peer' = [peer EXCEPT ![serves[d]] = d]
    /\ conn' = [conn EXCEPT ![d] = "reading"]
    /\ UNCHANGED <<managerVars, serial_atomic, result_dict, request_queue, callVars,
                   serves, hand, checkVars, wireVars>>

\* Mutant: the sender is used but stays in result_dict.
TakeResult_keeps(d, a) ==
    LET t == serves[d] IN
    /\ conn[d] = "reading"
    /\ hand[d] = NoCall
    /\ a \in answers
    /\ a.conn = d
    /\ answers' = answers \ {a}
    /\ \/ \E c \in Registered(t, a.serial) :
             hand' = [hand EXCEPT ![d] = [sender |-> c, answer |-> a.call]]
       \/ Registered(t, a.serial) = {} /\ UNCHANGED hand
    /\ UNCHANGED <<managerVars, tokenVars, callVars, conn, serves, checkVars, requests,
                   executed>>

\* set_result: take the sender out of result_dict under the token's lock; an answer
\* nobody is registered for is only logged.
TakeResult(d, a) ==
    LET t == serves[d] IN
    /\ conn[d] = "reading"
    /\ hand[d] = NoCall
    /\ a \in answers
    /\ a.conn = d
    /\ answers' = answers \ {a}
    /\ \/ \E c \in Registered(t, a.serial) :
             /\ result_dict' = [result_dict EXCEPT ![t] = @ \ {c}]
             /\ hand' = [hand EXCEPT ![d] = [sender |-> c, answer |-> a.call]]
       \/ /\ Registered(t, a.serial) = {}
          /\ UNCHANGED <<result_dict, hand>>
    /\ UNCHANGED <<managerVars, peer, serial_atomic, request_queue, callVars, conn, serves,
                   checkVars, requests, executed>>

\* Mutant: what is sent has been read to its end.
SendResult_read(d) ==
    /\ conn[d] = "reading"
    /\ hand[d] # NoCall
    /\ hand' = [hand EXCEPT ![d] = NoCall]
    /\ rx' = [rx EXCEPT ![hand[d].sender] = Ok(NoCall)]
    /\ UNCHANGED <<managerVars, tokenVars, pc, tok, serial, via, conn, serves, checkVars,
                   wireVars>>

\* tx.send(Ok(dr)), outside the lock.  When the receiver has gone, SerialClose is
\* returned through set_result and data_reading: the connection ends.
SendResult(d) ==
    /\ conn[d] = "reading"
    /\ hand[d] # NoCall
    /\ hand' = [hand EXCEPT ![d] = NoCall]
    /\ \/ /\ rx[hand[d].sender] = Is("empty")
          /\ rx' = [rx EXCEPT ![hand[d].sender] = Ok(hand[d].answer)]
          /\ UNCHANGED conn
       \/ /\ rx[hand[d].sender] # Is("empty")
          /\ conn' = [conn EXCEPT ![d] = "detach"]
          /\ UNCHANGED rx
    /\ UNCHANGED <<managerVars, tokenVars, pc, tok, serial, via, serves, checkVars,
                   wireVars>>

\* End of file or another error; not while set_result is under way.
EndReading(d) ==
    /\ conn[d] = "reading"
    /\ hand[d] = NoCall
    /\ conn' = [conn EXCEPT ![d] = "detach"]
    /\ UNCHANGED <<managerVars, tokenVars, callVars, serves, hand, checkVars, wireVars>>

\* set_peer(None); what the clients still send on this connection is not read.
Detach(d) ==
    /\ conn[d] = "detach"
    /\ peer' = [peer EXCEPT ![serves[d]] = NoConn]
    /\ conn' = [conn EXCEPT ![d] = "done"]
    /\ answers' = {a \in answers : a.conn # d}
    /\ UNCHANGED <<managerVars, serial_atomic, result_dict, request_queue, callVars,
                   serves, hand, checkVars, requests, executed>>

-----------------------------------------------------------------------------
(* The checker: check_tokens_request_timeout, then the removal of tokens. *)

StartWalk ==
    /\ check = "sleep"
    /\ check' = "walk"
    /\ walk' = dict
    /\ UNCHANGED <<managerVars, tokenVars, callVars, connVars, wireVars>>

Due(e) == e.age >= OutTime

\* Mutant: the entry that is not due is not put back.
CheckRequestTimeout_drops(t) ==
    LET q == request_queue[t] IN
    \E n \in 0 .. Len(q) :
        /\ \A i \in 1 .. n : Due(q[i])
        /\ n < Len(q) => ~Due(q[n + 1])
        /\ LET late == {c \in result_dict[t] : \E i \in 1 .. n : q[i].serial = serial[c]}
           IN  /\ result_dict' = [result_dict EXCEPT ![t] = @ \ late]
               /\ rx' = [c \in Calls |->
                           IF c \in late /\ rx[c] = Is("empty") THEN Is("timeout") ELSE rx[c]]
        /\ request_queue' = [request_queue EXCEPT ![t] = SubSeq(q, n + 2, Len(q))]

\* AsyncToken::check_request_timeout, whole under the token's lock: pop what is due
\* up to the first entry that is not, and answer each call still registered.
CheckRequestTimeout(t) ==
    LET q == request_queue[t] IN
    \E n \in 0 .. Len(q) :
        /\ \A i \in 1 .. n : Due(q[i])
        /\ n < Len(q) => ~Due(q[n + 1])
        /\ LET late == {c \in result_dict[t] : \E i \in 1 .. n : q[i].serial = serial[c]}
           IN  /\ result_dict' = [result_dict EXCEPT ![t] = @ \ late]
               /\ rx' = [c \in Calls |->
                           IF c \in late /\ rx[c] = Is("empty") THEN Is("timeout") ELSE rx[c]]
        /\ request_queue' = [request_queue EXCEPT ![t] = SubSeq(q, n + 1, Len(q))]

Visit(t) ==
    /\ check = "walk"
    /\ t \in walk
    /\ CheckRequestTimeout(t)
    /\ walk' = walk \ {t}
    /\ UNCHANGED <<managerVars, peer, serial_atomic, pc, tok, serial, via, connVars, check,
                   wireVars>>

\* check_tokens_disconnect_timeout, whole under the manager's lock: of the tokens that
\* a connection has queued and that have no peer, those that are due are removed.
Sweep ==
    /\ check = "walk"
    /\ walk = {}
    /\ check' = "sleep"
    /\ \E due \in SUBSET {t \in dict : /\ peer[t] = NoConn
                                      /\ \E d \in Conns : serves[d] = t /\ conn[d] = "done"} :
          dict' = dict \ due
    /\ UNCHANGED <<created, tokenVars, callVars, connVars, walk, wireVars>>

-----------------------------------------------------------------------------
(* The clients and the clock.                                             *)

\* A client runs the call and answers on the connection the call came by.
Execute(r) ==
    /\ r \in requests
    /\ requests' = requests \ {r}
    /\ answers' = IF conn[r.conn] = "done" THEN answers ELSE answers \cup {r}
    /\ executed' = executed \cup {r.call}
    /\ UNCHANGED <<managerVars, tokenVars, callVars, connVars, checkVars>>

Older(a) == IF a < OutTime THEN a + 1 ELSE a

Tick ==
    /\ request_queue' = [t \in Tokens |->
          [i \in 1 .. Len(request_queue[t]) |->
              [request_queue[t][i] EXCEPT !.age = Older(@)]]]
    /\ UNCHANGED <<managerVars, peer, serial_atomic, result_dict, callVars, connVars,
                   checkVars, wireVars>>

Progress(c) == Insert(c) \/ Bail(c) \/ Send(c) \/ SendFails(c) \/ Return(c)
Call(c)     == (\E t \in Tokens : NewSerial(c, t)) \/ Progress(c) \/ Cancel(c)
Conn(d)     == \/ \E t \in Tokens : Resolve(d, t)
               \/ \E a \in answers : TakeResult(d, a)
               \/ Attach(d) \/ SendResult(d) \/ EndReading(d) \/ Detach(d)
Checker     == StartWalk \/ (\E t \in Tokens : Visit(t)) \/ Sweep

Next ==
    \/ \E c \in Calls : Call(c)
    \/ \E t \in Tokens : Create(t)
    \/ \E d \in Conns : Conn(d)
    \/ Checker
    \/ \E r \in requests : Execute(r)
    \/ Tick

(***************************************************************************)
(* Fairness.  Calls, the checker and what a connection does with an       *)
(* answer it has taken are scheduled; the clock advances.  Clients owe    *)
(* neither answers nor connections.                                       *)
(***************************************************************************)
Fairness ==
    /\ \A c \in Calls : WF_vars(Progress(c))
    /\ \A d \in Conns : WF_vars(SendResult(d))
    /\ WF_vars(Checker)
    /\ WF_vars(Tick)

Spec     == Init /\ [][Next]_vars
FairSpec == Spec /\ Fairness
-----------------------------------------------------------------------------
(* Safety                                                                  *)

InHand(c) == {d \in Conns : hand[d] # NoCall /\ hand[d].sender = c}
Queued(c) == \E i \in 1 .. Len(request_queue[tok[c]]) :
                request_queue[tok[c]][i].serial = serial[c]

\* A call that waits has exactly one sender left: in the result_dict of its token, or
\* taken by the one connection task about to use it.
WaiterHasSender ==
    \A c \in Calls :
        rx[c] = Is("empty") =>
            IF c \in result_dict[tok[c]] THEN InHand(c) = {}
            ELSE \E d \in Conns : InHand(c) = {d}

\* Whatever became of its caller, a registered call is queued for its timeout.
PendingIsQueued == \A t \in Tokens : \A c \in result_dict[t] : tok[c] = t /\ Queued(c)

\* A call gets the answer to itself, from a client of its token.
AnswerIsOwn ==
    \A c \in Calls : rx[c].kind = "answer" => rx[c].call = c /\ serves[via[c]] = tok[c]

\* An answer ends the connection that brings it only if its caller had dropped the
\* call: an answer that races the timeout of its call never does.
LateAnswerIsHarmless ==
    [][\A d \in Conns :
         hand[d] # NoCall /\ conn'[d] = "detach" => rx[hand[d].sender] = Is("dropped")]_vars

(* Liveness                                                                *)

\* A call on a token the manager knows returns, and its entry goes, its caller being
\* there or not.
KnownCallReturns ==
    /\ \A c \in Calls : pc[c] = "wait" ~> pc[c] # "wait" \/ tok[c] \notin dict
    /\ \A c \in Calls, t \in Tokens :
          c \in result_dict[t] ~> c \notin result_dict[t] \/ t \notin dict

(* Refinement                                                              *)

outcome == [c \in Calls |->
               CASE rx[c] = Is("none") -> "none"
                 [] rx[c] = Is("empty") -> "pending"
                 [] rx[c] = Is("dropped") -> "abandoned"
                 [] rx[c] = Is("timeout") -> "timedout"
                 [] OTHER -> "answered"]

Rpc == INSTANCE RpcCalls

\* One outcome per call, and an answer only for a call the client has run.
ImplementsRpc == Rpc!Spec

(* What the documentation says                                             *)

\* option.rs: request_out_time is "the timeout for requests": a request without
\* answer ends.
EveryCallReturns == \A c \in Calls : pc[c] = "wait" ~> pc[c] # "wait"
=============================================================================
