------------------------ MODULE ServerSessionsProofs ------------------------
(* Proofs of the safety properties of ServerSessions, for every set of    *)
(* connections, sessions and tasks and every session_save_time.           *)
EXTENDS ServerSessions, SequenceTheorems, TLAPS

-----------------------------------------------------------------------------
(* Ages                                                                    *)

\* Instant::elapsed only grows, and the saturated age stays in range.
LEMMA OlderType == \A a \in Ages : Older(a) \in Ages /\ Older(a) >= a
BY SaveTimeAssumption DEF Older, Ages

\* The clock keeps the order of two ages.
LEMMA OlderMonotone == \A a, b \in Ages : a <= b => Older(a) <= Older(b)
BY SaveTimeAssumption DEF Older, Ages

\* The clock leaves the queue as long as it was, with the ids where they were.
LEMMA TickQueue ==
    ASSUME TypeOK, Tick
    PROVE  /\ clear_queue' \in Seq(Entries)
           /\ Len(clear_queue') = Len(clear_queue)
           /\ \A i \in 1 .. Len(clear_queue) :
                 /\ clear_queue'[i].id = clear_queue[i].id
                 /\ clear_queue'[i].age = Older(clear_queue[i].age)
<1>1. clear_queue \in Seq(Entries) BY DEF TypeOK
<1>2. \A i \in 1 .. Len(clear_queue) :
         [id |-> clear_queue[i].id, age |-> Older(clear_queue[i].age)] \in Entries
  <2>1. TAKE i \in 1 .. Len(clear_queue)
  <2>2. clear_queue[i] \in Entries BY <1>1, ElementOfSeq
  <2>3. clear_queue[i].id \in Sessions /\ clear_queue[i].age \in Ages BY <2>2 DEF Entries
  <2>4. Older(clear_queue[i].age) \in Ages BY <2>3, OlderType
  <2>5. QED BY <2>3, <2>4 DEF Entries
<1>3. clear_queue' = [i \in 1 .. Len(clear_queue) |->
                         [id |-> clear_queue[i].id, age |-> Older(clear_queue[i].age)]]
  BY DEF Tick
<1>4. Len(clear_queue) \in Nat BY <1>1
<1>5. clear_queue' \in [1 .. Len(clear_queue) -> Entries] BY <1>2, <1>3
<1>6. clear_queue' \in Seq(Entries) BY <1>4, <1>5, SeqDef
<1>7. Len(clear_queue') = Len(clear_queue)
  <2>1. 1 .. Len(clear_queue') = 1 .. Len(clear_queue) BY <1>5, <1>6, LenProperties
  <2>2. Len(clear_queue') \in Nat BY <1>6
  <2>3. QED BY <1>4, <2>1, <2>2
<1>8. QED BY <1>3, <1>6, <1>7

-----------------------------------------------------------------------------
(* Type correctness                                                        *)

\* A connection task has a token from get_peer_token on, and none before; while
\* it serves, its token is one that was issued.
TokensHeld ==
    \A c \in Conns :
        /\ pc[c] \in {"idle", "verify", "lookup", "create"} => tok[c] = NoSession
        /\ pc[c] \in {"attach", "connect", "reading", "detach", "disconnect",
                      "enqueue", "failed"} => tok[c] \in issued

\* The checker examines a token of dict until it has removed it.
SweepTarget ==
    /\ sweep \in {"sleep", "pop"} => target = NoSession
    /\ sweep \in {"ask", "remove"} => target \in dict
    /\ sweep \in {"closed", "clear"} => target \in issued \ dict

Typing == TypeOK /\ TokensHeld /\ SweepTarget

LEMMA InitTyping == Init => Typing
BY SaveTimeAssumption DEF Init, Typing, TypeOK, TokensHeld, SweepTarget,
   Ages, PCs, SweepPCs, Entries

LEMMA TypingStep == Typing /\ [Next]_vars => Typing'
<1> SUFFICES ASSUME Typing, [Next]_vars PROVE Typing'
  OBVIOUS
<1> USE NoSessionAssumption DEF Typing, TypeOK, TokensHeld, SweepTarget, PCs, SweepPCs,
        Goto, managerVars, tokenVars, connVars, sweepVars, taskVars, clientVars
<1>1. ASSUME NEW c \in Conns, Client(c) PROVE Typing'
  <2>1. CASE \E s \in known \cup {NoSession} : Connect(c, s) BY <2>1 DEF Connect
  <2>2. CASE ClientClose(c) BY <2>2 DEF ClientClose
  <2>3. QED BY <1>1, <2>1, <2>2 DEF Client
<1>2. ASSUME NEW c \in Conns, ServeConn(c) PROVE Typing'
  <2>1. CASE GetToken(c) BY <2>1 DEF GetToken, ManagerFree
  <2>2. CASE \E s \in Sessions : CreateToken(c, s)
    BY <2>2 DEF CreateToken, ManagerFree
  <2>3. CASE CreateTokenFails(c) BY <2>3 DEF CreateTokenFails
  <2>4. CASE AttachPeer(c) BY <2>4 DEF AttachPeer
  <2>5. CASE ConnectHandler(c) BY <2>5 DEF ConnectHandler
  <2>6. CASE ReadEof(c) BY <2>6 DEF ReadEof, EndReading
  <2>7. CASE DetachPeer(c)
    <3>1. 0 \in Ages BY SaveTimeAssumption DEF Ages
    <3>2. QED BY <2>7, <3>1 DEF DetachPeer
  <2>8. CASE DisconnectHandler(c) BY <2>8 DEF DisconnectHandler
  <2>9. CASE PeerDisconnect(c)
    <3>1. [id |-> tok[c], age |-> 0] \in Entries
      BY <2>9, SaveTimeAssumption DEF PeerDisconnect, Entries, Ages
    <3>2. clear_queue' \in Seq(Entries) BY <2>9, <3>1 DEF PeerDisconnect
    <3>3. QED BY <2>9, <3>2 DEF PeerDisconnect
  <2>10. QED
    BY <1>2, <2>1, <2>2, <2>3, <2>4, <2>5, <2>6, <2>7, <2>8, <2>9 DEF ServeConn
<1>3. ASSUME NEW c \in Conns, Frame(c) PROVE Typing'
  <2>1. CASE Reject(c) BY <2>1 DEF Reject
  <2>2. CASE Verify(c) BY <2>2 DEF Verify
  <2>3. CASE SendSessionId(c) BY <2>3 DEF SendSessionId
  <2>4. CASE ReadError(c) BY <2>4 DEF ReadError, EndReading
  <2>5. CASE \E k \in Tasks : Dispatch(c, k) BY <2>5 DEF Dispatch
  <2>6. QED BY <1>3, <2>1, <2>2, <2>3, <2>4, <2>5 DEF Frame
<1>4. ASSUME NEW k \in Tasks, Task(k) PROVE Typing'
  BY <1>4 DEF Task, LockOwnToken, AnswerGetToken
<1>5. CASE Sweeper
  <2>1. CASE StartSweep BY <2>1 DEF StartSweep
  <2>2. CASE PopDue
    <3>1. clear_queue # << >> BY <2>2 DEF PopDue, Due
    <3>2. Tail(clear_queue) \in Seq(Entries) BY <3>1
    <3>3. QED BY <2>2, <3>1, <3>2 DEF PopDue
  <2>3. CASE EndSweep BY <2>3 DEF EndSweep
  <2>4. CASE AskDisconnect BY <2>4 DEF AskDisconnect
  <2>5. CASE RemoveToken BY <2>5 DEF RemoveToken
  <2>6. CASE ClosedHandler BY <2>6 DEF ClosedHandler
  <2>7. CASE ClearController BY <2>7 DEF ClearController
  <2>8. QED BY <1>5, <2>1, <2>2, <2>3, <2>4, <2>5, <2>6, <2>7 DEF Sweeper
<1>6. CASE Tick
  <2>1. clear_queue' \in Seq(Entries) BY <1>6, TickQueue
  <2>2. idle' \in [Sessions -> Ages] BY <1>6, OlderType DEF Tick
  <2>3. QED BY <1>6, <2>1, <2>2 DEF Tick
<1>7. CASE UNCHANGED vars BY <1>7 DEF vars
<1>8. QED BY <1>1, <1>2, <1>3, <1>4, <1>5, <1>6, <1>7 DEF Next

\* Every variable keeps its type: in particular a token is in dict only if it was
\* created, and no counter of the checker runs past session_save_time.
THEOREM TypeCorrect == Spec => []TypeOK
<1>1. Typing => TypeOK BY DEF Typing
<1>2. QED BY <1>1, InitTyping, TypingStep, PTL DEF Spec
-----------------------------------------------------------------------------
(* The peer of a token                                                     *)

LEMMA ServedStep == Typing /\ PeerIsServed /\ [Next]_vars => PeerIsServed'
<1> SUFFICES ASSUME Typing, PeerIsServed, [Next]_vars PROVE PeerIsServed'
  OBVIOUS
<1> USE NoSessionAssumption, NoConnAssumption
    DEF Typing, TypeOK, TokensHeld, PCs, PeerIsServed, Serving,
        Goto, managerVars, tokenVars, connVars, sweepVars, taskVars, clientVars
<1>1. ASSUME NEW c \in Conns, Client(c) PROVE PeerIsServed'
  <2>1. CASE \E s \in known \cup {NoSession} : Connect(c, s) BY <2>1 DEF Connect
  <2>2. CASE ClientClose(c) BY <2>2 DEF ClientClose
  <2>3. QED BY <1>1, <2>1, <2>2 DEF Client
<1>2. ASSUME NEW c \in Conns, ServeConn(c) PROVE PeerIsServed'
  <2>1. CASE GetToken(c) BY <2>1 DEF GetToken
  <2>2. CASE \E s \in Sessions : CreateToken(c, s) BY <2>2 DEF CreateToken
  <2>3. CASE CreateTokenFails(c) BY <2>3 DEF CreateTokenFails
  <2>4. CASE AttachPeer(c) BY <2>4 DEF AttachPeer
  <2>5. CASE ConnectHandler(c) BY <2>5 DEF ConnectHandler
  <2>6. CASE ReadEof(c) BY <2>6 DEF ReadEof, EndReading
  <2>7. CASE DetachPeer(c) BY <2>7 DEF DetachPeer
  <2>8. CASE DisconnectHandler(c) BY <2>8 DEF DisconnectHandler
  <2>9. CASE PeerDisconnect(c) BY <2>9 DEF PeerDisconnect
  <2>10. QED
    BY <1>2, <2>1, <2>2, <2>3, <2>4, <2>5, <2>6, <2>7, <2>8, <2>9 DEF ServeConn
<1>3. ASSUME NEW c \in Conns, Frame(c) PROVE PeerIsServed'
  <2>1. CASE Reject(c) BY <2>1 DEF Reject
  <2>2. CASE Verify(c) BY <2>2 DEF Verify
  <2>3. CASE SendSessionId(c) BY <2>3 DEF SendSessionId
  <2>4. CASE ReadError(c) BY <2>4 DEF ReadError, EndReading
  <2>5. CASE \E k \in Tasks : Dispatch(c, k) BY <2>5 DEF Dispatch
  <2>6. QED BY <1>3, <2>1, <2>2, <2>3, <2>4, <2>5 DEF Frame
<1>4. ASSUME NEW k \in Tasks, Task(k) PROVE PeerIsServed'
  BY <1>4 DEF Task, LockOwnToken, AnswerGetToken
<1>5. CASE Sweeper
  BY <1>5 DEF Sweeper, StartSweep, PopDue, EndSweep, AskDisconnect, RemoveToken,
              ClosedHandler, ClearController
<1>6. CASE Tick BY <1>6 DEF Tick
<1>7. CASE UNCHANGED vars BY <1>7 DEF vars
<1>8. QED BY <1>1, <1>2, <1>3, <1>4, <1>5, <1>6, <1>7 DEF Next

\* What a token sends, it sends on a connection that is being served for that
\* very token: AttachPeer and DetachPeer bracket the task's reading.
THEOREM PeerServed == Spec => []PeerIsServed
<1>1. Init => PeerIsServed BY DEF Init, PeerIsServed
<1>2. QED BY <1>1, InitTyping, TypingStep, ServedStep, PTL DEF Spec

-----------------------------------------------------------------------------
(* The controller of a token                                               *)

LEMMA ControllerStep ==
    Typing /\ ControllerLifecycle /\ [Next]_vars => ControllerLifecycle'
<1> SUFFICES ASSUME Typing, ControllerLifecycle, [Next]_vars PROVE ControllerLifecycle'
  OBVIOUS
<1> USE NoSessionAssumption
    DEF Typing, TypeOK, TokensHeld, SweepTarget, SweepPCs, ControllerLifecycle,
        managerVars, tokenVars, connVars, sweepVars, taskVars, clientVars
<1>1. ASSUME NEW c \in Conns, Client(c) PROVE ControllerLifecycle'
  BY <1>1 DEF Client, Connect, ClientClose
<1>2. ASSUME NEW c \in Conns, ServeConn(c) PROVE ControllerLifecycle'
  <2>1. CASE \E s \in Sessions : CreateToken(c, s)
    BY <2>1 DEF CreateToken, ManagerFree
  <2>2. CASE UNCHANGED <<dict, controller, sweepVars>> BY <2>2
  <2>3. QED
    BY <1>2, <2>1, <2>2 DEF ServeConn, GetToken, CreateTokenFails, AttachPeer,
       ConnectHandler, ReadEof, EndReading, DetachPeer, DisconnectHandler, PeerDisconnect
<1>3. ASSUME NEW c \in Conns, Frame(c) PROVE ControllerLifecycle'
  BY <1>3 DEF Frame, Reject, Verify, SendSessionId, ReadError, EndReading, Dispatch
<1>4. ASSUME NEW k \in Tasks, Task(k) PROVE ControllerLifecycle'
  BY <1>4 DEF Task, LockOwnToken, AnswerGetToken
<1>5. CASE Sweeper
  <2>1. CASE StartSweep BY <2>1 DEF StartSweep
  <2>2. CASE PopDue BY <2>2 DEF PopDue
  <2>3. CASE EndSweep BY <2>3 DEF EndSweep
  <2>4. CASE AskDisconnect BY <2>4 DEF AskDisconnect
  <2>5. CASE RemoveToken BY <2>5 DEF RemoveToken
  <2>6. CASE ClosedHandler BY <2>6 DEF ClosedHandler
  <2>7. CASE ClearController BY <2>7 DEF ClearController
  <2>8. QED BY <1>5, <2>1, <2>2, <2>3, <2>4, <2>5, <2>6, <2>7 DEF Sweeper
<1>6. CASE Tick BY <1>6 DEF Tick
<1>7. CASE UNCHANGED vars BY <1>7 DEF vars
<1>8. QED BY <1>1, <1>2, <1>3, <1>4, <1>5, <1>6, <1>7 DEF Next

\* A token has its controller exactly while it is in dict or being closed.
THEOREM ControllerFollowsDict == Spec => []ControllerLifecycle
<1>1. Init => ControllerLifecycle BY DEF Init, ControllerLifecycle
<1>2. QED BY <1>1, InitTyping, TypingStep, ControllerStep, PTL DEF Spec
-----------------------------------------------------------------------------
(* The clear queue                                                         *)

\* Every action but three leaves the queue alone.
LEMMA QueueChanges ==
    ASSUME [Next]_vars
    PROVE  \/ UNCHANGED clear_queue
           \/ \E c \in Conns : PeerDisconnect(c)
           \/ PopDue
           \/ Tick
<1> USE DEF managerVars, tokenVars, connVars, sweepVars, taskVars, clientVars
<1>1. ASSUME NEW c \in Conns, Client(c) PROVE UNCHANGED clear_queue
  BY <1>1 DEF Client, Connect, ClientClose
<1>2. ASSUME NEW c \in Conns, ServeConn(c)
      PROVE  UNCHANGED clear_queue \/ PeerDisconnect(c)
  BY <1>2 DEF ServeConn, GetToken, CreateToken, CreateTokenFails, AttachPeer,
     ConnectHandler, ReadEof, EndReading, DetachPeer, DisconnectHandler
<1>3. ASSUME NEW c \in Conns, Frame(c) PROVE UNCHANGED clear_queue
  BY <1>3 DEF Frame, Reject, Verify, SendSessionId, ReadError, EndReading, Dispatch
<1>4. ASSUME NEW k \in Tasks, Task(k) PROVE UNCHANGED clear_queue
  BY <1>4 DEF Task, LockOwnToken, AnswerGetToken
<1>5. ASSUME Sweeper PROVE UNCHANGED clear_queue \/ PopDue
  BY <1>5 DEF Sweeper, StartSweep, EndSweep, AskDisconnect, RemoveToken,
     ClosedHandler, ClearController
<1>6. ASSUME UNCHANGED vars PROVE UNCHANGED clear_queue BY <1>6 DEF vars
<1>7. QED BY <1>1, <1>2, <1>3, <1>4, <1>5, <1>6 DEF Next

\* push_front adds an entry of age 0 behind the others.
LEMMA PushedEntry ==
    ASSUME Typing, NEW c \in Conns, PeerDisconnect(c)
    PROVE  /\ tok[c] \in Sessions
           /\ Len(clear_queue') = Len(clear_queue) + 1
           /\ \A i \in 1 .. Len(clear_queue) : clear_queue'[i] = clear_queue[i]
           /\ clear_queue'[Len(clear_queue) + 1].id = tok[c]
           /\ clear_queue'[Len(clear_queue) + 1].age = 0
<1>1. [id |-> tok[c], age |-> 0] \in Entries
  BY SaveTimeAssumption DEF PeerDisconnect, Typing, TypeOK, TokensHeld, Entries, Ages
<1>2. tok[c] \in Sessions BY DEF PeerDisconnect, Typing, TypeOK, TokensHeld
<1>3. clear_queue \in Seq(Entries) BY DEF Typing, TypeOK
<1>4. QED BY <1>1, <1>2, <1>3 DEF PeerDisconnect

\* pop_back takes the first entry and moves the others up.
LEMMA PoppedEntry ==
    ASSUME Typing, PopDue
    PROVE  /\ 1 \in 1 .. Len(clear_queue)
           /\ Head(clear_queue) = clear_queue[1]
           /\ Len(clear_queue') = Len(clear_queue) - 1
           /\ \A i \in 1 .. Len(clear_queue') : clear_queue'[i] = clear_queue[i + 1]
<1>1. clear_queue \in Seq(Entries) /\ clear_queue # << >>
  BY DEF Typing, TypeOK, PopDue, Due
<1>2. Len(clear_queue) \in Nat \ {0} BY <1>1, EmptySeq
<1>3. clear_queue' = Tail(clear_queue) BY DEF PopDue
<1>4. QED BY <1>1, <1>2, <1>3, HeadTailProperties

LEMMA EntryType ==
    ASSUME Typing
    PROVE  /\ Len(clear_queue) \in Nat
           /\ \A i \in 1 .. Len(clear_queue) :
                 clear_queue[i].id \in Sessions /\ clear_queue[i].age \in Ages
<1>1. clear_queue \in Seq(Entries) BY DEF Typing, TypeOK
<1>2. \A i \in 1 .. Len(clear_queue) : clear_queue[i] \in Entries
  BY <1>1, ElementOfSeq
<1>3. QED BY <1>1, <1>2 DEF Entries

LEMMA OrderedStep == Typing /\ QueueOrdered /\ [Next]_vars => QueueOrdered'
<1> SUFFICES ASSUME Typing, QueueOrdered, [Next]_vars,
                    NEW i \in 1 .. Len(clear_queue'), NEW j \in 1 .. Len(clear_queue'),
                    i < j
             PROVE  clear_queue'[i].age >= clear_queue'[j].age
  BY DEF QueueOrdered
<1>1. CASE UNCHANGED clear_queue BY <1>1 DEF QueueOrdered
<1>2. ASSUME NEW c \in Conns, PeerDisconnect(c)
      PROVE  clear_queue'[i].age >= clear_queue'[j].age
  <2> DEFINE n == Len(clear_queue)
  <2>1. /\ n \in Nat /\ Len(clear_queue') = n + 1
        /\ \A k \in 1 .. n : clear_queue'[k] = clear_queue[k]
        /\ clear_queue'[n + 1].age = 0
    BY <1>2, PushedEntry, EntryType
  <2> HIDE DEF n
  <2>2. i \in 1 .. n /\ (j \in 1 .. n \/ j = n + 1) BY <2>1
  <2>3. CASE j \in 1 .. n BY <2>1, <2>2, <2>3 DEF QueueOrdered, n
  <2>4. CASE j = n + 1
    <3>1. clear_queue[i].age \in Nat
      BY <2>2, EntryType, SaveTimeAssumption DEF Ages, n
    <3>2. clear_queue'[i].age \in Nat BY <2>1, <2>2, <3>1
    <3>3. QED BY <2>1, <2>4, <3>2
  <2>5. QED BY <2>2, <2>3, <2>4
<1>3. CASE PopDue
  <2>1. i + 1 \in 1 .. Len(clear_queue) /\ j + 1 \in 1 .. Len(clear_queue) /\ i + 1 < j + 1
    BY <1>3, PoppedEntry, EntryType
  <2>2. clear_queue[i + 1].age >= clear_queue[j + 1].age BY <2>1 DEF QueueOrdered
  <2>3. QED BY <1>3, <2>2, PoppedEntry
<1>4. CASE Tick
  <2>1. i \in 1 .. Len(clear_queue) /\ j \in 1 .. Len(clear_queue)
    BY <1>4, TickQueue DEF Typing
  <2>2. clear_queue[j].age <= clear_queue[i].age
    BY <2>1, EntryType, SaveTimeAssumption DEF QueueOrdered, Ages
  <2>3. Older(clear_queue[j].age) <= Older(clear_queue[i].age)
    BY <2>1, <2>2, EntryType, OlderMonotone
  <2>4. Older(clear_queue[j].age) \in Nat /\ Older(clear_queue[i].age) \in Nat
    BY <2>1, EntryType, OlderType, SaveTimeAssumption DEF Ages
  <2>5. QED BY <1>4, <2>1, <2>3, <2>4, TickQueue DEF Typing
<1>5. QED BY <1>1, <1>2, <1>3, <1>4, QueueChanges

\* The queue is ordered by age: pop_back always meets the oldest entry first.
THEOREM OldestFirst == Spec => []QueueOrdered
<1>1. Init => QueueOrdered BY DEF Init, QueueOrdered
<1>2. QED BY <1>1, InitTyping, TypingStep, OrderedStep, PTL DEF Spec

LEMMA SweepEnds ==
    ASSUME [Next]_vars, sweep = "pop", sweep' = "sleep"
    PROVE  ~Due
<1> USE DEF managerVars, tokenVars, connVars, sweepVars, taskVars, clientVars
<1>1. ASSUME NEW c \in Conns, Client(c) PROVE sweep' = sweep
  BY <1>1 DEF Client, Connect, ClientClose
<1>2. ASSUME NEW c \in Conns, ServeConn(c) PROVE sweep' = sweep
  BY <1>2 DEF ServeConn, GetToken, CreateToken, CreateTokenFails, AttachPeer,
     ConnectHandler, ReadEof, EndReading, DetachPeer, DisconnectHandler, PeerDisconnect
<1>3. ASSUME NEW c \in Conns, Frame(c) PROVE sweep' = sweep
  BY <1>3 DEF Frame, Reject, Verify, SendSessionId, ReadError, EndReading, Dispatch
<1>4. ASSUME NEW k \in Tasks, Task(k) PROVE sweep' = sweep
  BY <1>4 DEF Task, LockOwnToken, AnswerGetToken
<1>5. ASSUME Sweeper PROVE ~Due
  BY <1>5 DEF Sweeper, StartSweep, PopDue, EndSweep, AskDisconnect,
     RemoveToken, ClosedHandler, ClearController
<1>6. ASSUME Tick \/ UNCHANGED vars PROVE sweep' = sweep BY <1>6 DEF Tick, vars
<1>7. QED BY <1>1, <1>2, <1>3, <1>4, <1>5, <1>6 DEF Next

\* Stopping at the first entry that is not due loses nothing: check_tokens_disconnect_timeout
\* never goes to sleep with an entry older than session_save_time anywhere in the queue.
THEOREM NothingDueIsLeft == Spec => SweepLeavesNothingDue
<1>1. ASSUME Typing, QueueOrdered, [Next]_vars, sweep = "pop", sweep' = "sleep",
             NEW i \in 1 .. Len(clear_queue)
      PROVE  clear_queue[i].age < SaveTime
  <2>1. ~Due BY <1>1, SweepEnds
  <2>2. clear_queue \in Seq(Entries) /\ clear_queue # << >>
    BY <1>1, EmptySeq DEF Typing, TypeOK
  <2>3. Head(clear_queue) = clear_queue[1] /\ 1 \in 1 .. Len(clear_queue)
    BY <1>1, <2>2, EntryType
  <2>4. ~(clear_queue[1].age >= SaveTime) BY <2>1, <2>2, <2>3 DEF Due
  <2>5. clear_queue[1].age >= clear_queue[i].age
    <3>1. CASE i = 1 BY <1>1, <2>3, <3>1, EntryType, SaveTimeAssumption DEF Ages
    <3>2. CASE i # 1 BY <1>1, <2>3, <3>2, EntryType DEF QueueOrdered
    <3>3. QED BY <3>1, <3>2
  <2>6. clear_queue[1].age \in Nat /\ clear_queue[i].age \in Nat
    BY <1>1, <2>3, EntryType, SaveTimeAssumption DEF Ages
  <2>7. QED BY <2>4, <2>5, <2>6, SaveTimeAssumption
<1>2. Typing /\ QueueOrdered /\ [Next]_vars =>
        [sweep = "pop" /\ sweep' = "sleep" =>
            \A i \in 1 .. Len(clear_queue) : clear_queue[i].age < SaveTime]_vars
  BY <1>1
<1>3. Init => QueueOrdered BY DEF Init, QueueOrdered
<1>4. QED
  BY <1>2, <1>3, InitTyping, TypingStep, OrderedStep, PTL DEF Spec, SweepLeavesNothingDue
-----------------------------------------------------------------------------
(* No disconnected token is forgotten                                      *)

\* An entry leaves the queue only when the checker pops it.
LEMMA QueuedKept ==
    ASSUME Typing, [Next]_vars, NEW s, Queued(s)
    PROVE  Queued(s)' \/ (PopDue /\ s = Head(clear_queue).id)
<1>1. PICK i \in 1 .. Len(clear_queue) : clear_queue[i].id = s BY DEF Queued
<1>2. CASE UNCHANGED clear_queue BY <1>1, <1>2 DEF Queued
<1>3. ASSUME NEW c \in Conns, PeerDisconnect(c) PROVE Queued(s)'
  <2>1. i \in 1 .. Len(clear_queue') BY <1>3, PushedEntry, EntryType
  <2>2. clear_queue'[i] = clear_queue[i] BY <1>3, PushedEntry
  <2>3. QED BY <1>1, <2>1, <2>2 DEF Queued
<1>4. CASE PopDue
  <2>1. CASE i = 1 BY <1>1, <1>4, <2>1, PoppedEntry
  <2>2. CASE i # 1
    <3>1. i - 1 \in 1 .. Len(clear_queue') /\ (i - 1) + 1 = i
      BY <1>4, <2>2, PoppedEntry, EntryType
    <3>2. clear_queue'[i - 1] = clear_queue[i] BY <1>4, <3>1, PoppedEntry
    <3>3. QED BY <1>1, <3>1, <3>2 DEF Queued
  <2>3. QED BY <2>1, <2>2
<1>5. CASE Tick
  <2>1. i \in 1 .. Len(clear_queue') /\ clear_queue'[i].id = s
    BY <1>1, <1>5, TickQueue DEF Typing
  <2>2. QED BY <2>1 DEF Queued
<1>6. QED BY <1>2, <1>3, <1>4, <1>5, QueueChanges

LEMMA DisconnectedStep ==
    Typing /\ DisconnectedIsQueued /\ [Next]_vars => DisconnectedIsQueued'
<1> DEFINE Pending(s) == \/ Queued(s)
                         \/ target = s /\ sweep \in {"ask", "remove"}
                         \/ Entering(s) \cup Leaving(s) \cup Failed(s) # {}
<1> SUFFICES ASSUME Typing, DisconnectedIsQueued, [Next]_vars,
                    NEW s \in dict', peer'[s] = NoConn
             PROVE  Pending(s)'
  BY DEF DisconnectedIsQueued
<1>1. ASSUME s \in dict, peer[s] = NoConn PROVE Pending(s)
  BY <1>1 DEF DisconnectedIsQueued
<1>2. ASSUME Queued(s) PROVE Queued(s)' \/ (PopDue /\ s = Head(clear_queue).id)
  BY <1>2, QueuedKept
<1>3. TypeOK' BY TypingStep DEF Typing
<1> USE NoSessionAssumption, NoConnAssumption
    DEF Typing, TypeOK, TokensHeld, SweepTarget, PCs, Entering, Leaving, Failed,
        Goto, managerVars, tokenVars, connVars, sweepVars, taskVars, clientVars
<1>4. ASSUME NEW c \in Conns, Client(c) PROVE Pending(s)'
  <2>1. CASE \E r \in known \cup {NoSession} : Connect(c, r)
    BY <1>1, <1>2, <2>1 DEF Connect, PopDue
  <2>2. CASE ClientClose(c) BY <1>1, <1>2, <2>2 DEF ClientClose, PopDue
  <2>3. QED BY <1>4, <2>1, <2>2 DEF Client
<1>5. ASSUME NEW c \in Conns, ServeConn(c) PROVE Pending(s)'
  <2>1. CASE GetToken(c) BY <1>1, <1>2, <2>1 DEF GetToken, PopDue
  <2>2. CASE \E r \in Sessions : CreateToken(c, r)
    BY <1>1, <1>2, <2>2 DEF CreateToken, PopDue
  <2>3. CASE CreateTokenFails(c) BY <1>1, <1>2, <2>3 DEF CreateTokenFails, PopDue
  <2>4. CASE AttachPeer(c) BY <1>1, <1>2, <2>4 DEF AttachPeer, PopDue
  <2>5. CASE ConnectHandler(c) BY <1>1, <1>2, <2>5 DEF ConnectHandler, PopDue
  <2>6. CASE ReadEof(c) BY <1>1, <1>2, <2>6 DEF ReadEof, EndReading, PopDue
  <2>7. CASE DetachPeer(c) BY <1>1, <1>2, <2>7 DEF DetachPeer, PopDue
  <2>8. CASE DisconnectHandler(c) BY <1>1, <1>2, <2>8 DEF DisconnectHandler, PopDue
  <2>9. CASE PeerDisconnect(c)
    <3>1. CASE s = tok[c]
      <4>1. Len(clear_queue) + 1 \in 1 .. Len(clear_queue')
        BY <2>9, PushedEntry, EntryType
      <4>2. clear_queue'[Len(clear_queue) + 1].id = s BY <2>9, <3>1, PushedEntry
      <4>3. QED BY <4>1, <4>2 DEF Queued
    <3>2. CASE s # tok[c] BY <1>1, <1>2, <2>9, <3>2 DEF PeerDisconnect, PopDue
    <3>3. QED BY <3>1, <3>2
  <2>10. QED
    BY <1>5, <2>1, <2>2, <2>3, <2>4, <2>5, <2>6, <2>7, <2>8, <2>9 DEF ServeConn
<1>6. ASSUME NEW c \in Conns, Frame(c) PROVE Pending(s)'
  <2>1. CASE Reject(c) BY <1>1, <1>2, <2>1 DEF Reject, PopDue
  <2>2. CASE Verify(c) BY <1>1, <1>2, <2>2 DEF Verify, PopDue
  <2>3. CASE SendSessionId(c) BY <1>1, <1>2, <2>3 DEF SendSessionId, PopDue
  <2>4. CASE ReadError(c) BY <1>1, <1>2, <2>4 DEF ReadError, EndReading, PopDue
  <2>5. CASE \E k \in Tasks : Dispatch(c, k) BY <1>1, <1>2, <2>5 DEF Dispatch, PopDue
  <2>6. QED BY <1>6, <2>1, <2>2, <2>3, <2>4, <2>5 DEF Frame
<1>7. ASSUME NEW k \in Tasks, Task(k) PROVE Pending(s)'
  BY <1>1, <1>2, <1>7 DEF Task, LockOwnToken, AnswerGetToken, PopDue
<1>8. CASE Sweeper
  <2>1. CASE StartSweep BY <1>1, <1>2, <2>1 DEF StartSweep, PopDue
  <2>2. CASE PopDue BY <1>1, <1>2, <2>2 DEF PopDue
  <2>3. CASE EndSweep BY <1>1, <1>2, <2>3 DEF EndSweep, PopDue
  <2>4. CASE AskDisconnect BY <1>1, <1>2, <2>4 DEF AskDisconnect, PopDue
  <2>5. CASE RemoveToken BY <1>1, <1>2, <2>5 DEF RemoveToken, PopDue
  <2>6. CASE ClosedHandler BY <1>1, <1>2, <2>6 DEF ClosedHandler, PopDue
  <2>7. CASE ClearController BY <1>1, <1>2, <2>7 DEF ClearController, PopDue
  <2>8. QED BY <1>8, <2>1, <2>2, <2>3, <2>4, <2>5, <2>6, <2>7 DEF Sweeper
<1>9. CASE Tick
  <2>1. Queued(s) => Queued(s)'
    <3>1. ASSUME NEW i \in 1 .. Len(clear_queue), clear_queue[i].id = s
          PROVE  i \in 1 .. Len(clear_queue') /\ clear_queue'[i].id = s
      BY <1>9, <3>1, TickQueue
    <3>2. QED BY <3>1 DEF Queued
  <2>2. QED BY <1>1, <1>9, <2>1 DEF Tick
<1>10. CASE UNCHANGED vars BY <1>1, <1>2, <1>10 DEF vars, PopDue
<1>11. QED BY <1>4, <1>5, <1>6, <1>7, <1>8, <1>9, <1>10 DEF Next

\* No token stays in dict without peer and without anyone left to look at it,
\* except after a Disconnect function that failed.
THEOREM NoneForgotten == Spec => []DisconnectedIsQueued
<1>1. Init => DisconnectedIsQueued BY DEF Init, DisconnectedIsQueued
<1>2. QED BY <1>1, InitTyping, TypingStep, DisconnectedStep, PTL DEF Spec
-----------------------------------------------------------------------------
(* A session that was not resumed is kept for session_save_time           *)

Unresumed(s) == \A c, d \in Users(s) : c = d
HasLeft(s)   == \E c \in Users(s) : pc[c] = "done"

\* An entry was queued by a connection that has gone, and no later than the
\* session's last detach if there was only that connection.
EntriesEarned ==
    \A s \in Sessions : \A i \in 1 .. Len(clear_queue) :
        clear_queue[i].id = s =>
            HasLeft(s) /\ (Unresumed(s) => idle[s] >= clear_queue[i].age)

\* So was the entry of the token the checker is about to remove.
TargetEarned ==
    \A s \in Sessions :
        target = s /\ sweep \in {"ask", "remove"} =>
            HasLeft(s) /\ (Unresumed(s) => idle[s] >= SaveTime)

Earned == EntriesEarned /\ TargetEarned

\* Connections are not taken from a session, a finished one stays finished, and
\* only another connection's detach can make the session young again.
LEMMA HistoryKept ==
    ASSUME Typing, [Next]_vars, NEW s \in Sessions, HasLeft(s)
    PROVE  /\ HasLeft(s)'
           /\ Unresumed(s)' => Unresumed(s) /\ idle'[s] \in Nat /\ idle'[s] >= idle[s]
<1> USE NoSessionAssumption
    DEF Typing, TypeOK, TokensHeld, PCs, HasLeft, Unresumed, Users,
        Goto, managerVars, tokenVars, connVars, sweepVars, taskVars, clientVars
<1>1. idle[s] \in Nat BY SaveTimeAssumption DEF Ages
<1>2. ASSUME NEW c \in Conns, Client(c)
      PROVE  HasLeft(s)' /\ (Unresumed(s)' => Unresumed(s)) /\ UNCHANGED idle
  <2>1. CASE \E r \in known \cup {NoSession} : Connect(c, r) BY <2>1 DEF Connect
  <2>2. CASE ClientClose(c) BY <2>2 DEF ClientClose
  <2>3. QED BY <1>2, <2>1, <2>2 DEF Client
<1>3. ASSUME NEW c \in Conns, ServeConn(c)
      PROVE  /\ HasLeft(s)'
             /\ Unresumed(s)' => Unresumed(s) /\ idle'[s] = idle[s]
  <2>1. CASE GetToken(c) BY <2>1 DEF GetToken
  <2>2. CASE \E r \in Sessions : CreateToken(c, r) BY <2>2 DEF CreateToken
  <2>3. CASE CreateTokenFails(c) BY <2>3 DEF CreateTokenFails
  <2>4. CASE AttachPeer(c) BY <2>4 DEF AttachPeer
  <2>5. CASE ConnectHandler(c) BY <2>5 DEF ConnectHandler
  <2>6. CASE ReadEof(c) BY <2>6 DEF ReadEof, EndReading
  <2>7. CASE DetachPeer(c)
    <3>1. CASE tok[c] = s
      <4>1. PICK d \in Users(s) : pc[d] = "done" OBVIOUS
      <4>2. c \in Users(s)' /\ d \in Users(s)' /\ c # d /\ pc'[d] = "done"
        BY <2>7, <3>1, <4>1 DEF DetachPeer
      <4>3. QED BY <4>2
    <3>2. CASE tok[c] # s BY <2>7, <3>2 DEF DetachPeer
    <3>3. QED BY <3>1, <3>2
  <2>8. CASE DisconnectHandler(c) BY <2>8 DEF DisconnectHandler
  <2>9. CASE PeerDisconnect(c) BY <2>9 DEF PeerDisconnect
  <2>10. QED
    BY <1>3, <2>1, <2>2, <2>3, <2>4, <2>5, <2>6, <2>7, <2>8, <2>9 DEF ServeConn
<1>4. ASSUME NEW c \in Conns, Frame(c)
      PROVE  HasLeft(s)' /\ (Unresumed(s)' => Unresumed(s)) /\ UNCHANGED idle
  <2>1. CASE Reject(c) BY <2>1 DEF Reject
  <2>2. CASE Verify(c) BY <2>2 DEF Verify
  <2>3. CASE SendSessionId(c) BY <2>3 DEF SendSessionId
  <2>4. CASE ReadError(c) BY <2>4 DEF ReadError, EndReading
  <2>5. CASE \E k \in Tasks : Dispatch(c, k) BY <2>5 DEF Dispatch
  <2>6. QED BY <1>4, <2>1, <2>2, <2>3, <2>4, <2>5 DEF Frame
<1>5. ASSUME NEW k \in Tasks, Task(k) PROVE UNCHANGED <<pc, tok, idle>>
  BY <1>5 DEF Task, LockOwnToken, AnswerGetToken
<1>6. ASSUME Sweeper PROVE UNCHANGED <<pc, tok, idle>>
  BY <1>6 DEF Sweeper, StartSweep, PopDue, EndSweep, AskDisconnect, RemoveToken,
              ClosedHandler, ClearController
<1>7. ASSUME Tick
      PROVE  UNCHANGED <<pc, tok>> /\ idle'[s] = Older(idle[s])
  BY <1>7 DEF Tick
<1>8. Older(idle[s]) \in Nat /\ Older(idle[s]) >= idle[s]
  BY OlderType, SaveTimeAssumption DEF Ages
<1>9. ASSUME UNCHANGED vars PROVE UNCHANGED <<pc, tok, idle>> BY <1>9 DEF vars
<1>10. UNCHANGED <<pc, tok>> => HasLeft(s)' /\ (Unresumed(s)' => Unresumed(s))
  OBVIOUS
<1>11. QED BY <1>1, <1>2, <1>3, <1>4, <1>5, <1>6, <1>7, <1>8, <1>9, <1>10 DEF Next

LEMMA EntriesStep == Typing /\ EntriesEarned /\ [Next]_vars => EntriesEarned'
<1> SUFFICES ASSUME Typing, EntriesEarned, [Next]_vars, NEW s \in Sessions,
                    NEW i \in 1 .. Len(clear_queue'), clear_queue'[i].id = s
             PROVE  HasLeft(s)' /\ (Unresumed(s)' => idle'[s] >= clear_queue'[i].age)
  BY DEF EntriesEarned
<1>1. idle[s] \in Nat BY SaveTimeAssumption DEF Typing, TypeOK, Ages
\* An entry that was there before, no older than it was.
<1>2. ASSUME NEW j \in 1 .. Len(clear_queue), clear_queue[j].id = s,
             clear_queue'[i].age = clear_queue[j].age
      PROVE  HasLeft(s)' /\ (Unresumed(s)' => idle'[s] >= clear_queue'[i].age)
  <2>1. clear_queue[j].age \in Nat BY EntryType, SaveTimeAssumption DEF Ages
  <2>2. HasLeft(s) /\ (Unresumed(s) => idle[s] >= clear_queue[j].age)
    BY <1>2 DEF EntriesEarned
  <2>3. HasLeft(s)' /\ (Unresumed(s)' =>
                           Unresumed(s) /\ idle'[s] \in Nat /\ idle'[s] >= idle[s])
    BY <2>2, HistoryKept
  <2>4. QED BY <1>1, <1>2, <2>1, <2>2, <2>3
<1>3. CASE UNCHANGED clear_queue BY <1>2, <1>3
<1>4. ASSUME NEW c \in Conns, PeerDisconnect(c)
      PROVE  HasLeft(s)' /\ (Unresumed(s)' => idle'[s] >= clear_queue'[i].age)
  <2>1. i \in 1 .. Len(clear_queue) \/ i = Len(clear_queue) + 1
    BY <1>4, PushedEntry, EntryType
  <2>2. CASE i \in 1 .. Len(clear_queue) BY <1>2, <1>4, <2>2, PushedEntry
  <2>3. CASE i = Len(clear_queue) + 1
    <3>1. s = tok[c] /\ clear_queue'[i].age = 0 BY <1>4, <2>3, PushedEntry
    <3>2. HasLeft(s)' /\ idle'[s] = idle[s]
      BY <1>4, <3>1 DEF PeerDisconnect, Goto, HasLeft, Users, connVars, Typing, TypeOK
    <3>3. QED BY <1>1, <3>1, <3>2
  <2>4. QED BY <2>1, <2>2, <2>3
<1>5. CASE PopDue
  <2>1. i + 1 \in 1 .. Len(clear_queue) /\ clear_queue'[i] = clear_queue[i + 1]
    BY <1>5, PoppedEntry, EntryType
  <2>2. QED BY <1>2, <2>1
<1>6. CASE Tick
  <2>1. /\ i \in 1 .. Len(clear_queue) /\ clear_queue[i].id = s
        /\ clear_queue'[i].age = Older(clear_queue[i].age)
    BY <1>6, TickQueue DEF Typing
  <2>2. clear_queue[i].age \in Ages /\ idle[s] \in Ages
    BY <2>1, EntryType DEF Typing, TypeOK
  <2>3. UNCHANGED <<pc, tok>> /\ idle'[s] = Older(idle[s]) BY <1>6 DEF Tick, connVars
  <2>4. HasLeft(s) /\ (Unresumed(s) => idle[s] >= clear_queue[i].age)
    BY <2>1 DEF EntriesEarned
  <2>5. HasLeft(s)' /\ (Unresumed(s)' => Unresumed(s))
    BY <2>3, <2>4 DEF HasLeft, Unresumed, Users
  <2>6. clear_queue[i].age <= idle[s] => Older(clear_queue[i].age) <= Older(idle[s])
    BY <2>2, OlderMonotone
  <2>7. QED
    BY <2>1, <2>2, <2>3, <2>4, <2>5, <2>6, OlderType, SaveTimeAssumption DEF Ages
<1>7. QED BY <1>3, <1>4, <1>5, <1>6, QueueChanges

\* The checker moves on to "ask" by popping an entry, and to "remove" from "ask".
LEMMA TargetChanges ==
    ASSUME Typing, [Next]_vars, sweep' \in {"ask", "remove"}
    PROVE  \/ sweep \in {"ask", "remove"} /\ target' = target
           \/ PopDue /\ target' = Head(clear_queue).id
<1> USE DEF managerVars, tokenVars, connVars, sweepVars, taskVars, clientVars
<1>1. ASSUME NEW c \in Conns, Client(c) PROVE UNCHANGED sweepVars
  BY <1>1 DEF Client, Connect, ClientClose
<1>2. ASSUME NEW c \in Conns, ServeConn(c) PROVE UNCHANGED sweepVars
  BY <1>2 DEF ServeConn, GetToken, CreateToken, CreateTokenFails, AttachPeer,
     ConnectHandler, ReadEof, EndReading, DetachPeer, DisconnectHandler, PeerDisconnect
<1>3. ASSUME NEW c \in Conns, Frame(c) PROVE UNCHANGED sweepVars
  BY <1>3 DEF Frame, Reject, Verify, SendSessionId, ReadError, EndReading, Dispatch
<1>4. ASSUME NEW k \in Tasks, Task(k) PROVE UNCHANGED sweepVars
  BY <1>4 DEF Task, LockOwnToken, AnswerGetToken
<1>5. ASSUME Sweeper
      PROVE  \/ sweep \in {"ask", "remove"} /\ target' = target
             \/ PopDue /\ target' = Head(clear_queue).id
  BY <1>5 DEF Sweeper, StartSweep, PopDue, EndSweep, AskDisconnect, RemoveToken,
              ClosedHandler, ClearController
<1>6. ASSUME Tick \/ UNCHANGED vars PROVE UNCHANGED sweepVars BY <1>6 DEF Tick, vars
<1>7. QED BY <1>1, <1>2, <1>3, <1>4, <1>5, <1>6 DEF Next

LEMMA TargetStep == Typing /\ Earned /\ [Next]_vars => TargetEarned'
<1> SUFFICES ASSUME Typing, Earned, [Next]_vars, NEW s \in Sessions,
                    target' = s, sweep' \in {"ask", "remove"}
             PROVE  HasLeft(s)' /\ (Unresumed(s)' => idle'[s] >= SaveTime)
  BY DEF TargetEarned
<1>1. idle[s] \in Nat BY SaveTimeAssumption DEF Typing, TypeOK, Ages
<1>2. HasLeft(s) /\ (Unresumed(s) => idle[s] >= SaveTime)
  <2>1. CASE sweep \in {"ask", "remove"} /\ target' = target
    BY <2>1 DEF Earned, TargetEarned
  <2>2. CASE PopDue /\ target' = Head(clear_queue).id
    <3>1. 1 \in 1 .. Len(clear_queue) /\ clear_queue[1].id = s
      BY <2>2, PoppedEntry
    <3>2. clear_queue[1].age >= SaveTime /\ clear_queue[1].age \in Nat
      BY <2>2, <3>1, PoppedEntry, EntryType, SaveTimeAssumption DEF PopDue, Due, Ages
    <3>3. HasLeft(s) /\ (Unresumed(s) => idle[s] >= clear_queue[1].age)
      BY <3>1 DEF Earned, EntriesEarned
    <3>4. QED BY <1>1, <3>2, <3>3, SaveTimeAssumption
  <2>3. QED BY <2>1, <2>2, TargetChanges
<1>3. HasLeft(s)' /\ (Unresumed(s)' =>
                         Unresumed(s) /\ idle'[s] \in Nat /\ idle'[s] >= idle[s])
  BY <1>2, HistoryKept
<1>4. QED BY <1>1, <1>2, <1>3, SaveTimeAssumption

LEMMA EarnedStep == Typing /\ Earned /\ [Next]_vars => Earned'
BY EntriesStep, TargetStep DEF Earned

\* Only the checker removes a token from dict, and it is the one it examined.
LEMMA DictShrinks ==
    ASSUME Typing, [Next]_vars, NEW s \in dict \ dict'
    PROVE  RemoveToken /\ s = target
<1> USE DEF Typing, TypeOK, managerVars, tokenVars, connVars, sweepVars, taskVars, clientVars
<1>1. ASSUME NEW c \in Conns, Client(c) PROVE FALSE
  BY <1>1 DEF Client, Connect, ClientClose
<1>2. ASSUME NEW c \in Conns, ServeConn(c) PROVE FALSE
  BY <1>2 DEF ServeConn, GetToken, CreateToken, CreateTokenFails, AttachPeer,
     ConnectHandler, ReadEof, EndReading, DetachPeer, DisconnectHandler, PeerDisconnect
<1>3. ASSUME NEW c \in Conns, Frame(c) PROVE FALSE
  BY <1>3 DEF Frame, Reject, Verify, SendSessionId, ReadError, EndReading, Dispatch
<1>4. ASSUME NEW k \in Tasks, Task(k) PROVE FALSE
  BY <1>4 DEF Task, LockOwnToken, AnswerGetToken
<1>5. ASSUME Sweeper PROVE RemoveToken /\ s = target
  BY <1>5 DEF Sweeper, StartSweep, PopDue, EndSweep, AskDisconnect, RemoveToken,
              ClosedHandler, ClearController
<1>6. ASSUME Tick \/ UNCHANGED vars PROVE FALSE BY <1>6 DEF Tick, vars
<1>7. QED BY <1>1, <1>2, <1>3, <1>4, <1>5, <1>6 DEF Next

\* A session only one connection ever used is removed after its Disconnect function
\* and a full session_save_time after it detached.
THEOREM UnresumedIsKept == Spec => KeptUnlessResumed
<1>1. ASSUME Typing, Earned, [Next]_vars, NEW s \in dict \ dict',
             \A c, d \in Users(s) : c = d
      PROVE  idle[s] = SaveTime /\ \A c \in Users(s) : pc[c] = "done"
  <2>1. sweep = "remove" /\ target = s BY <1>1, DictShrinks DEF RemoveToken
  <2>2. s \in Sessions BY <1>1 DEF Typing, TypeOK
  <2>3. HasLeft(s) /\ idle[s] >= SaveTime
    BY <1>1, <2>1, <2>2 DEF Earned, TargetEarned, Unresumed
  <2>4. idle[s] \in 0 .. SaveTime BY <1>1, <2>2 DEF Typing, TypeOK, Ages
  <2>5. idle[s] = SaveTime BY <2>3, <2>4, SaveTimeAssumption
  <2>6. QED BY <1>1, <2>3, <2>5 DEF HasLeft
<1>2. Typing /\ Earned /\ [Next]_vars =>
        [\A s \in dict \ dict' :
           (\A c, d \in Users(s) : c = d) =>
              idle[s] = SaveTime /\ \A c \in Users(s) : pc[c] = "done"]_vars
  BY <1>1
<1>3. Init => Earned
  BY DEF Init, Earned, EntriesEarned, TargetEarned
<1>4. QED
  BY <1>2, <1>3, InitTyping, TypingStep, EarnedStep, PTL DEF Spec, KeptUnlessResumed
-----------------------------------------------------------------------------
(* Refinement                                                              *)

\* What an action has to keep for the life of every session to stand still.
LEMMA LifeUnchanged ==
    ASSUME UNCHANGED <<issued, dict>>,
           \A s \in Sessions : (target = s /\ sweep = "closed")' <=> target = s /\ sweep = "closed"
    PROVE  UNCHANGED life
BY DEF life

LEMMA LifecycleStep == Typing /\ [Next]_vars => [Lifecycle!Next]_life
<1> SUFFICES ASSUME Typing, [Next]_vars PROVE Lifecycle!Next \/ UNCHANGED life
  OBVIOUS
<1> USE DEF Typing, TypeOK, SweepTarget, SweepPCs,
        managerVars, tokenVars, connVars, sweepVars, taskVars, clientVars
<1>1. ASSUME NEW c \in Conns, Client(c) PROVE UNCHANGED life
  BY <1>1, LifeUnchanged DEF Client, Connect, ClientClose
<1>2. ASSUME NEW c \in Conns, ServeConn(c) PROVE Lifecycle!Next \/ UNCHANGED life
  <2>1. ASSUME NEW s \in Sessions, CreateToken(c, s) PROVE Lifecycle!Create(s)
    <3>1. life[s] = "none" BY <2>1 DEF life, CreateToken
    <3>2. life' = [life EXCEPT ![s] = "live"]
      BY <2>1, NoSessionAssumption DEF life, CreateToken, ManagerFree
    <3>3. QED BY <3>1, <3>2 DEF Lifecycle!Create
  <2>2. CASE UNCHANGED <<issued, dict, sweepVars>> BY <2>2, LifeUnchanged
  <2>3. QED
    BY <1>2, <2>1, <2>2 DEF ServeConn, GetToken, CreateTokenFails, AttachPeer,
       ConnectHandler, ReadEof, EndReading, DetachPeer, DisconnectHandler,
       PeerDisconnect, Lifecycle!Next
<1>3. ASSUME NEW c \in Conns, Frame(c) PROVE UNCHANGED life
  BY <1>3, LifeUnchanged
     DEF Frame, Reject, Verify, SendSessionId, ReadError, EndReading, Dispatch
<1>4. ASSUME NEW k \in Tasks, Task(k) PROVE UNCHANGED life
  BY <1>4, LifeUnchanged DEF Task, LockOwnToken, AnswerGetToken
<1>5. CASE Sweeper
  <2>1. CASE RemoveToken
    <3>1. target \in dict /\ target \in Sessions BY <2>1 DEF RemoveToken
    <3>2. life[target] = "live" BY <2>1, <3>1 DEF life, RemoveToken
    <3>3. \A t \in Sessions : life[t] # "closing" BY <2>1 DEF life, RemoveToken
    <3>4. life' = [life EXCEPT ![target] = "closing"]
      BY <2>1, <3>1 DEF life, RemoveToken
    <3>5. QED BY <3>1, <3>2, <3>3, <3>4 DEF Lifecycle!Next, Lifecycle!Remove
  <2>2. CASE ClosedHandler
    <3>1. target \in issued \ dict /\ target \in Sessions BY <2>2 DEF ClosedHandler
    <3>2. life[target] = "closing" BY <2>2, <3>1 DEF life, ClosedHandler
    <3>3. life' = [life EXCEPT ![target] = "closed"]
      BY <2>2, <3>1 DEF life, ClosedHandler
    <3>4. QED BY <3>1, <3>2, <3>3 DEF Lifecycle!Next, Lifecycle!RunClosed
  <2>3. CASE StartSweep \/ PopDue \/ EndSweep \/ AskDisconnect \/ ClearController
    BY <2>3, LifeUnchanged DEF StartSweep, PopDue, EndSweep, AskDisconnect, ClearController
  <2>4. QED BY <1>5, <2>1, <2>2, <2>3 DEF Sweeper
<1>6. CASE Tick \/ UNCHANGED vars BY <1>6, LifeUnchanged DEF Tick, vars
<1>7. QED BY <1>1, <1>2, <1>3, <1>4, <1>5, <1>6 DEF Next

\* The manager and its checker implement the life of a session: created once,
\* removed once, its Closed function run once, one session at a time.
THEOREM Refinement == Spec => ImplementsLifecycle
<1>1. Init => Lifecycle!Init BY DEF Init, Lifecycle!Init, life
<1>2. QED
  BY <1>1, InitTyping, TypingStep, LifecycleStep, PTL
  DEF Spec, ImplementsLifecycle, Lifecycle!Spec
=============================================================================
