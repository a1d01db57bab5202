--------------------------- MODULE ServerSessions ---------------------------
(***************************************************************************)
(* The session core of netx_server: the life of a session token between   *)
(* the connection tasks that create, resume, attach and detach it, the    *)
(* controller handlers that look tokens up, and the checker task that     *)
(* removes a token once it has been disconnected for session_save_time.   *)
(*                                                                         *)
(* Two kinds of actor lock order these tasks.  The lock of the            *)
(* AsyncTokenManager is held for a whole inner_call: in a step that is    *)
(* one action here it is taken and released inside the action; the checker*)
(* holds it from StartSweep to EndSweep, across its awaits.  The lock of  *)
(* a token is likewise taken and released inside one action, except by a  *)
(* handler in get_token, which holds it while it waits for the manager.   *)
(* Both locks hand over in FIFO order (the aqueue crate).                 *)
(***************************************************************************)
EXTENDS Naturals, Sequences

CONSTANTS
    Conns,      (* TCP connections, each used once                          *)
    Sessions,   (* session ids make_new_session_id may return, never twice  *)
    Tasks,      (* controller calls spawned for a 2400 frame                *)
    SaveTime,   (* session_save_time, in clock ticks                        *)
    NoSession,  (* session id 0 on the wire: "give me a new one"            *)
    NoConn      (* None                                                     *)

ASSUME SaveTimeAssumption == SaveTime \in Nat
ASSUME NoSessionAssumption == NoSession \notin Sessions
ASSUME NoConnAssumption == NoConn \notin Conns

VARIABLES
    \* the AsyncTokenManager
    issued,       \* ids create_token has handed out
    dict,         \* ids of the tokens in dict
    clear_queue,  \* request_disconnect_clear_queue; its back is our Head
    \* the AsyncTokens
    peer,         \* connection the token answers on, NoConn when None
    controller,   \* whether controller is Some
    \* the connection tasks (the closure given to set_input_event)
    pc,           \* where the task stands
    tok,          \* the token get_peer_token resolved
    \* the checker task
    sweep,        \* where it stands; it holds the manager unless "sleep"
    target,       \* the queue entry's token being examined
    \* handlers that call get_token / get_all_tokens on their own token
    runs,         \* the token a task runs for
    holding,      \* the tasks that hold that token's lock
    \* the clients at the other end
    open,         \* connections the client side has not closed
    want,         \* the session id a client sends on connecting
    known,        \* session ids some client has stored
    \* history
    idle          \* ticks since a connection of the session last detached

managerVars == <<issued, dict, clear_queue>>
tokenVars   == <<peer, controller>>
connVars    == <<pc, tok>>
sweepVars   == <<sweep, target>>
taskVars    == <<runs, holding>>
clientVars  == <<open, want, known>>
vars == <<managerVars, tokenVars, connVars, sweepVars, taskVars, clientVars, idle>>

-----------------------------------------------------------------------------
(* Type definitions                                                        *)

Ages    == 0 .. SaveTime      \* an age past SaveTime is as good as SaveTime
Entries == [id : Sessions, age : Ages]
PCs     == {"idle", "verify", "lookup", "create", "attach", "connect",
            "reading", "detach", "disconnect", "enqueue", "done", "failed"}
SweepPCs == {"sleep", "pop", "ask", "remove", "closed", "clear"}

TypeOK ==
    /\ issued \in SUBSET Sessions
    /\ dict \in SUBSET issued
    /\ clear_queue \in Seq(Entries)
    /\ peer \in [Sessions -> Conns \cup {NoConn}]
    /\ controller \in [Sessions -> BOOLEAN]
    /\ pc \in [Conns -> PCs]
    /\ tok \in [Conns -> Sessions \cup {NoSession}]
    /\ sweep \in SweepPCs
    /\ target \in Sessions \cup {NoSession}
    /\ runs \in [Tasks -> Sessions \cup {NoSession}]
    /\ holding \in SUBSET Tasks
    /\ open \in [Conns -> BOOLEAN]
    /\ want \in [Conns -> Sessions \cup {NoSession}]
    /\ known \in SUBSET Sessions
    /\ idle \in [Sessions -> Ages]

Init ==
    /\ issued = {}
    /\ dict = {}
    /\ clear_queue = << >>
    /\ peer = [s \in Sessions |-> NoConn]
    /\ controller = [s \in Sessions |-> FALSE]
    /\ pc = [c \in Conns |-> "idle"]
    /\ tok = [c \in Conns |-> NoSession]
    /\ sweep = "sleep"
    /\ target = NoSession
    /\ runs = [k \in Tasks |-> NoSession]
    /\ holding = {}
    /\ open = [c \in Conns |-> FALSE]
    /\ want = [c \in Conns |-> NoSession]
    /\ known = {}
    /\ idle = [s \in Sessions |-> 0]

-----------------------------------------------------------------------------
(* Locks and predicates                                                    *)

ManagerFree  == sweep = "sleep"
TokenFree(s) == \A k \in holding : runs[k] # s

Goto(c, label) == pc' = [pc EXCEPT ![c] = label]

\* The connections the task of which may still touch the token of s.
Serving(s)  == {c \in Conns : tok[c] = s /\ pc[c] \in {"connect", "reading", "detach"}}
Entering(s) == {c \in Conns : tok[c] = s /\ pc[c] = "attach"}
Leaving(s)  == {c \in Conns : tok[c] = s /\ pc[c] \in {"disconnect", "enqueue"}}
Failed(s)   == {c \in Conns : tok[c] = s /\ pc[c] = "failed"}
Users(s)    == {c \in Conns : tok[c] = s}
Queued(s)   == \E i \in 1 .. Len(clear_queue) : clear_queue[i].id = s

-----------------------------------------------------------------------------
(* The clients.  A client opens a connection for a new session or for the *)
(* one it has stored, and has at most one connection open per session.    *)

Connect(c, s) ==
    /\ pc[c] = "idle"
    /\ s \in known \cup {NoSession}
    /\ s # NoSession => \A d \in Conns : open[d] => want[d] # s /\ tok[d] # s
    /\ Goto(c, "verify")
    /\ open' = [open EXCEPT ![c] = TRUE]
    /\ want' = [want EXCEPT ![c] = s]
    /\ UNCHANGED <<known, managerVars, tokenVars, tok, sweepVars, taskVars, idle>>

\* The client closes, or loses, the connection at any time.
ClientClose(c) ==
    /\ open[c]
    /\ open' = [open EXCEPT ![c] = FALSE]
    /\ UNCHANGED <<want, known, managerVars, tokenVars, connVars, sweepVars, taskVars, idle>>

-----------------------------------------------------------------------------
(* The connection task: get_peer_token, then attach, serve, detach.       *)

\* A wrong command, service name or key, or a read error: no token is involved.
Reject(c) ==
    /\ pc[c] = "verify"
    /\ Goto(c, "done")
    /\ UNCHANGED <<managerVars, tokenVars, tok, sweepVars, taskVars, clientVars, idle>>

Verify(c) ==
    /\ pc[c] = "verify"
    /\ Goto(c, IF want[c] = NoSession THEN "create" ELSE "lookup")
    /\ UNCHANGED <<managerVars, tokenVars, tok, sweepVars, taskVars, clientVars, idle>>

\* get_token under the manager lock; create_token is a later acquisition.
GetToken(c) ==
    /\ pc[c] = "lookup"
    /\ ManagerFree
    /\ \/ /\ want[c] \in dict
          /\ tok' = [tok EXCEPT ![c] = want[c]]
          /\ Goto(c, "attach")
       \/ /\ want[c] \notin dict
          /\ Goto(c, "create")
          /\ UNCHANGED tok
    /\ UNCHANGED <<managerVars, tokenVars, sweepVars, taskVars, clientVars, idle>>

CreateToken(c, s) ==
    /\ pc[c] = "create"
    /\ ManagerFree
    /\ s \notin issued
    /\ issued' = issued \cup {s}
    /\ dict' = dict \cup {s}
    /\ controller' = [controller EXCEPT ![s] = TRUE]
    /\ tok' = [tok EXCEPT ![c] = s]
    /\ Goto(c, "attach")
    /\ UNCHANGED <<clear_queue, peer, sweepVars, taskVars, clientVars, idle>>

\* Mutant: the id goes into dict before create_controller fails.
CreateTokenFails_inserted(c) ==
    /\ pc[c] = "create"
    /\ ManagerFree
    /\ \E s \in Sessions \ issued : dict' = dict \cup {s}
    /\ Goto(c, "done")
    /\ UNCHANGED <<issued, clear_queue, tokenVars, tok, sweepVars, taskVars, clientVars, idle>>

\* create_controller returns an error: the connection ends without a token.
CreateTokenFails(c) ==
    /\ pc[c] = "create"
    /\ ManagerFree
    /\ Goto(c, "done")
    /\ UNCHANGED <<managerVars, tokenVars, tok, sweepVars, taskVars, clientVars, idle>>

\* token.set_peer(Some(peer))
AttachPeer(c) ==
    /\ pc[c] = "attach"
    /\ TokenFree(tok[c])
    /\ peer' = [peer EXCEPT ![tok[c]] = c]
    /\ Goto(c, "connect")
    /\ UNCHANGED <<managerVars, controller, tok, sweepVars, taskVars, clientVars, idle>>

\* The Connect special function; its error ends read_buff_byline at once.  A
\* token without controller has no such function and nothing can fail.
ConnectHandler(c) ==
    /\ pc[c] = "connect"
    /\ \/ Goto(c, "reading")
       \/ controller[tok[c]] /\ Goto(c, "detach")
    /\ UNCHANGED <<managerVars, tokenVars, tok, sweepVars, taskVars, clientVars, idle>>

\* Frame 2000: the id is sent to whatever peer the token has now, and the
\* client there stores it in place of the one it asked for.  No peer: an error,
\* which ends the read loop.
SendSessionId(c) ==
    /\ pc[c] = "reading"
    /\ \/ /\ peer[tok[c]] = NoConn
          /\ Goto(c, "detach")
          /\ UNCHANGED known
       \/ LET p == peer[tok[c]] IN
          /\ p # NoConn
          /\ open[p]
          /\ known' = (known \ {want[p]}) \cup {tok[c]}
          /\ UNCHANGED pc
    /\ UNCHANGED <<managerVars, tokenVars, tok, sweepVars, taskVars, open, want, idle>>

\* Frame 2400: the controller call runs in a task of its own.
Dispatch(c, k) ==
    /\ pc[c] = "reading"
    /\ controller[tok[c]]
    /\ runs[k] = NoSession
    /\ runs' = [runs EXCEPT ![k] = tok[c]]
    /\ UNCHANGED <<managerVars, tokenVars, connVars, sweepVars, holding, clientVars, idle>>

EndReading(c) ==
    /\ pc[c] = "reading"
    /\ Goto(c, "detach")
    /\ UNCHANGED <<managerVars, tokenVars, tok, sweepVars, taskVars, clientVars, idle>>

\* The client has gone, or a frame made data_reading return an error.
ReadEof(c)   == ~open[c] /\ EndReading(c)
ReadError(c) == open[c] /\ EndReading(c)

\* Mutant: the task leaves without set_peer(None).
DetachPeer_keeps(c) ==
    /\ pc[c] = "detach"
    /\ TokenFree(tok[c])
    /\ idle' = [idle EXCEPT ![tok[c]] = 0]
    /\ Goto(c, "disconnect")
    /\ UNCHANGED <<managerVars, tokenVars, tok, sweepVars, taskVars, clientVars>>

\* token.set_peer(None), whoever the token's peer is by now.
DetachPeer(c) ==
    /\ pc[c] = "detach"
    /\ TokenFree(tok[c])
    /\ peer' = [peer EXCEPT ![tok[c]] = NoConn]
    /\ idle' = [idle EXCEPT ![tok[c]] = 0]
    /\ Goto(c, "disconnect")
    /\ UNCHANGED <<managerVars, controller, tok, sweepVars, taskVars, clientVars>>

\* Mutant: the task ends without peer_disconnect.
DisconnectHandler_skips(c) ==
    /\ pc[c] = "disconnect"
    /\ Goto(c, "done")
    /\ UNCHANGED <<managerVars, tokenVars, tok, sweepVars, taskVars, clientVars, idle>>

\* The Disconnect special function; its error skips peer_disconnect.
DisconnectHandler(c) ==
    /\ pc[c] = "disconnect"
    /\ \/ Goto(c, "enqueue")
       \/ controller[tok[c]] /\ Goto(c, "failed")
    /\ UNCHANGED <<managerVars, tokenVars, tok, sweepVars, taskVars, clientVars, idle>>

\* Mutant: the entry is pushed at the end that is popped.
PeerDisconnect_back(c) ==
    /\ pc[c] = "enqueue"
    /\ ManagerFree
    /\ clear_queue' = <<[id |-> tok[c], age |-> 0]>> \o clear_queue
    /\ Goto(c, "done")
    /\ UNCHANGED <<issued, dict, tokenVars, tok, sweepVars, taskVars, clientVars, idle>>

PeerDisconnect(c) ==
    /\ pc[c] = "enqueue"
    /\ ManagerFree
    /\ clear_queue' = Append(clear_queue, [id |-> tok[c], age |-> 0])
    /\ Goto(c, "done")
    /\ UNCHANGED <<issued, dict, tokenVars, tok, sweepVars, taskVars, clientVars, idle>>

-----------------------------------------------------------------------------
(* Handlers: token.get_token and token.get_all_tokens take the token's own *)
(* lock and, holding it, queue for the manager.                           *)

LockOwnToken(k) ==
    /\ runs[k] # NoSession
    /\ k \notin holding
    /\ TokenFree(runs[k])
    /\ holding' = holding \cup {k}
    /\ UNCHANGED <<managerVars, tokenVars, connVars, sweepVars, runs, clientVars, idle>>

AnswerGetToken(k) ==
    /\ k \in holding
    /\ ManagerFree
    /\ holding' = holding \ {k}
    /\ runs' = [runs EXCEPT ![k] = NoSession]
    /\ UNCHANGED <<managerVars, tokenVars, connVars, sweepVars, clientVars, idle>>

-----------------------------------------------------------------------------
(* The checker: check_tokens_disconnect_timeout, under the manager lock.  *)

StartSweep ==
    /\ sweep = "sleep"
    /\ sweep' = "pop"
    /\ UNCHANGED <<managerVars, tokenVars, connVars, target, taskVars, clientVars, idle>>

\* Mutant: one tick early.
Due_early == clear_queue # << >> /\ Head(clear_queue).age + 1 >= SaveTime

Due == clear_queue # << >> /\ Head(clear_queue).age >= SaveTime

\* pop_back of an entry that is due; an id no longer in dict is dropped.
PopDue ==
    /\ sweep = "pop"
    /\ Due
    /\ clear_queue' = Tail(clear_queue)
    /\ \/ /\ Head(clear_queue).id \in dict
          /\ sweep' = "ask"
          /\ target' = Head(clear_queue).id
       \/ /\ Head(clear_queue).id \notin dict
          /\ UNCHANGED sweepVars
    /\ UNCHANGED <<issued, dict, tokenVars, connVars, taskVars, clientVars, idle>>

\* Mutant: the entry that is not due is not put back.
EndSweep_drops ==
    /\ sweep = "pop"
    /\ ~Due
    /\ sweep' = "sleep"
    /\ clear_queue' = IF clear_queue = << >> THEN clear_queue ELSE Tail(clear_queue)
    /\ UNCHANGED <<issued, dict, tokenVars, connVars, target, taskVars, clientVars, idle>>

\* Mutant: a sweep stops after any entry.
EndSweep_first ==
    /\ sweep = "pop"
    /\ sweep' = "sleep"
    /\ UNCHANGED <<managerVars, tokenVars, connVars, target, taskVars, clientVars, idle>>

\* An empty queue, or an entry put back because it is not due: release and sleep.
EndSweep ==
    /\ sweep = "pop"
    /\ ~Due
    /\ sweep' = "sleep"
    /\ UNCHANGED <<managerVars, tokenVars, connVars, target, taskVars, clientVars, idle>>

\* token.is_disconnect(), under the token's lock.
AskDisconnect ==
    /\ sweep = "ask"
    /\ TokenFree(target)
    /\ \/ peer[target] = NoConn /\ sweep' = "remove" /\ UNCHANGED target
       \/ peer[target] # NoConn /\ sweep' = "pop" /\ target' = NoSession
    /\ UNCHANGED <<managerVars, tokenVars, connVars, taskVars, clientVars, idle>>

\* Mutant: the Closed function runs for a token that is still in dict.
RemoveToken_keeps ==
    /\ sweep = "remove"
    /\ sweep' = "closed"
    /\ UNCHANGED <<managerVars, tokenVars, connVars, target, taskVars, clientVars, idle>>

RemoveToken ==
    /\ sweep = "remove"
    /\ dict' = dict \ {target}
    /\ sweep' = "closed"
    /\ UNCHANGED <<issued, clear_queue, tokenVars, connVars, target, taskVars, clientVars, idle>>

\* The Closed special function; its error is only logged.
ClosedHandler ==
    /\ sweep = "closed"
    /\ sweep' = "clear"
    /\ UNCHANGED <<managerVars, tokenVars, connVars, target, taskVars, clientVars, idle>>

\* Mutant: the controller is not cleared.
ClearController_keeps ==
    /\ sweep = "clear"
    /\ TokenFree(target)
    /\ sweep' = "pop"
    /\ target' = NoSession
    /\ UNCHANGED <<managerVars, tokenVars, connVars, taskVars, clientVars, idle>>

ClearController ==
    /\ sweep = "clear"
    /\ TokenFree(target)
    /\ controller' = [controller EXCEPT ![target] = FALSE]
    /\ sweep' = "pop"
    /\ target' = NoSession
    /\ UNCHANGED <<managerVars, peer, connVars, taskVars, clientVars, idle>>

-----------------------------------------------------------------------------
Older(a) == IF a < SaveTime THEN a + 1 ELSE a

Tick ==
    /\ clear_queue' = [i \in 1 .. Len(clear_queue) |->
                          [id |-> clear_queue[i].id, age |-> Older(clear_queue[i].age)]]
    /\ idle' = [s \in Sessions |-> Older(idle[s])]
    /\ UNCHANGED <<issued, dict, tokenVars, connVars, sweepVars, taskVars, clientVars>>

Client(c) == (\E s \in known \cup {NoSession} : Connect(c, s)) \/ ClientClose(c)

\* What the task of c does by itself, once the client has sent or gone.
ServeConn(c) ==
    \/ GetToken(c) \/ (\E s \in Sessions : CreateToken(c, s)) \/ CreateTokenFails(c)
    \/ AttachPeer(c) \/ ConnectHandler(c) \/ ReadEof(c)
    \/ DetachPeer(c) \/ DisconnectHandler(c) \/ PeerDisconnect(c)

\* What depends on the frames the client sends.
Frame(c) ==
    \/ Reject(c) \/ Verify(c) \/ SendSessionId(c) \/ ReadError(c)
    \/ \E k \in Tasks : Dispatch(c, k)

Task(k) == LockOwnToken(k) \/ AnswerGetToken(k)

Sweeper == \/ StartSweep \/ PopDue \/ EndSweep
           \/ AskDisconnect \/ RemoveToken \/ ClosedHandler \/ ClearController

Next ==
    \/ \E c \in Conns : Client(c) \/ ServeConn(c) \/ Frame(c)
    \/ \E k \in Tasks : Task(k)
    \/ Sweeper
    \/ Tick

(***************************************************************************)
(* Fairness.  Every task is scheduled; a task that waits for a FIFO lock  *)
(* gets it if the lock is released again and again, hence strong fairness *)
(* for the tasks that queue for a lock.  The clock advances.  Clients owe *)
(* nothing.                                                               *)
(***************************************************************************)
Fairness ==
    /\ \A c \in Conns : SF_vars(ServeConn(c))
    /\ \A k \in Tasks : SF_vars(Task(k))
    /\ SF_vars(Sweeper)
    /\ WF_vars(Tick)

Spec     == Init /\ [][Next]_vars
FairSpec == Spec /\ Fairness
-----------------------------------------------------------------------------
(* Safety                                                                  *)

\* A token never answers on a connection whose task is over or serves another
\* session: what send and call write to is a connection being read.
PeerIsServed == \A s \in Sessions : peer[s] # NoConn => peer[s] \in Serving(s)

\* A token in dict has its controller, and one out of dict has lost it as soon
\* as its Closed call is over: no removed token keeps its controller alive.
ControllerLifecycle ==
    \A s \in Sessions :
        /\ s \in dict => controller[s]
        /\ controller[s] /\ s \notin dict => target = s /\ sweep \in {"closed", "clear"}

\* A token in dict without peer is never forgotten: it waits in clear_queue, the
\* checker has just found it disconnected, or a connection task is about to set
\* its peer or to queue it.  The only way out is a failed Disconnect function.
DisconnectedIsQueued ==
    \A s \in dict :
        peer[s] = NoConn =>
            \/ Queued(s)
            \/ target = s /\ sweep \in {"ask", "remove"}
            \/ Entering(s) \cup Leaving(s) \cup Failed(s) # {}

\* Oldest first: the checker may stop at the first entry that is not due.
QueueOrdered ==
    \A i, j \in 1 .. Len(clear_queue) :
        i < j => clear_queue[i].age >= clear_queue[j].age

(* Action properties                                                       *)

\* A sweep that ends leaves no entry that is due, wherever it is in the queue.
SweepLeavesNothingDue ==
    [][sweep = "pop" /\ sweep' = "sleep" =>
         \A i \in 1 .. Len(clear_queue) : clear_queue[i].age < SaveTime]_vars

\* A session that was never resumed is removed only after its one connection has
\* run its Disconnect function and has been gone for the whole session_save_time.
KeptUnlessResumed ==
    [][\A s \in dict \ dict' :
         (\A c, d \in Users(s) : c = d) =>
             idle[s] = SaveTime /\ \A c \in Users(s) : pc[c] = "done"]_vars

(* Liveness                                                                *)

\* The clients of s have gone.
Left(s) == \A c \in Users(s) : ~open[c]

\* The checker, with the manager's lock, waits for the lock of a token whose handler
\* waits for the manager's: get_token_deadlock.
Deadlocked == sweep \in {"ask", "clear"} /\ ~TokenFree(target)

\* A session that all its clients have left is in the end detached, removed and
\* closed, its controller gone with it, unless a client resumes it, a Disconnect
\* function fails, or the deadlock above stops the checker.
LeftIsClosed ==
    \A s \in Sessions :
        s \in dict /\ Left(s) ~> ~controller[s] \/ ~Left(s) \/ Failed(s) # {} \/ Deadlocked

(* Refinement                                                              *)

life == [s \in Sessions |->
            IF s \notin issued THEN "none"
            ELSE IF target = s /\ sweep = "closed" THEN "closing"
            ELSE IF s \in dict THEN "live"
            ELSE "closed"]

Lifecycle == INSTANCE SessionLifecycle

\* The tasks above implement the life of a session: created once, removed once,
\* Closed once.
ImplementsLifecycle == Lifecycle!Spec

(* What the documentation says                                             *)

\* option.rs: session_save_time is "the time to save the session".
SavedForFullTime ==
    [][\A s \in dict \ dict' : idle[s] = SaveTime]_vars

\* async_token.rs: is_disconnect "checks if the connection is disconnected"; it
\* answers yes when the token has no peer.
DisconnectMeansDisconnected ==
    \A c \in Conns : pc[c] = "reading" /\ open[c] => peer[tok[c]] # NoConn

\* async_token.rs: get_token is "a future that resolves to" a token.
GetTokenResolves == \A k \in Tasks : k \in holding ~> k \notin holding
=============================================================================
