---------------------------- MODULE ClientConnect ----------------------------
(***************************************************************************)
(* How a netx client connects: connect_network, the handshake in          *)
(* read_buffer, clean_connect, close, and the frames call and run send.   *)
(*                                                                         *)
(* connect_network holds the client's lock while it dials.  It leaves a   *)
(* watch channel in connect_stats, which the handshake answers once and   *)
(* on which other callers may wait too.  The reader of a connection, a    *)
(* task, outlives net: it takes whatever net holds when it has read its   *)
(* own connection to the end.                                             *)
(*                                                                         *)
(* Connections are numbered as they are made; 0 stands for None.  A call  *)
(* is a frame nobody waits for here: ClientCalls has the answers.  The    *)
(* session id and the frame that stores it (2000) are left out, and so is *)
(* the controller, which init sets and close clears at any time: its      *)
(* Connect function may fail or not.                                      *)
(***************************************************************************)
EXTENDS Naturals, Sequences

CONSTANTS
    Callers,   (* tasks that use the client                       *)
    MaxConns,  (* bound: connections made in a behaviour          *)
    MaxRuns    (* bound: frames sent by call and run              *)

ASSUME BoundsAssumption == MaxConns \in Nat /\ MaxRuns \in Nat

VARIABLES
    \* the NetXClient, and who holds its lock across an await
    lock, net, connect_stats, mode,
    \* the callers: where they are, with which connection, and whether
    \* connect_network has told them that it is up
    pc, conn, told, runs,
    \* per connection: read_buffer and clean_connect, the peer clean_connect takes,
    \* and the watch channel: who has its sender, later what was sent
    rd, taken, watch,
    \* per connection: the socket, the frames under way, the server's task
    sock, toServer, toClient, srv

clientVars == <<net, connect_stats, mode>>
callerVars == <<pc, conn, told, runs>>
readerVars == <<rd, taken, watch>>
wireVars   == <<sock, toServer, toClient, srv>>
vars == <<lock, clientVars, callerVars, readerVars, wireVars>>

Conns   == 1 .. MaxConns
NoConn  == 0
ConnIds == Conns \cup {NoConn}
Free    == "free"

ASSUME FreeAssumption == Free \notin Callers

\* What the client sends: prefixed with its length or not; told, whether its sender
\* knows the connection to be up.
Sent == [kind : {"verify", "hello", "run"}, prefixed : BOOLEAN, told : BOOLEAN]
Got  == {"accept", "refuse"}
Unanswered == {"reader", "task", "failed"}

TypeOK ==
    /\ lock \in Callers \cup {Free}
    /\ net \in ConnIds /\ connect_stats \in ConnIds /\ mode \in {0, 1}
    /\ pc \in [Callers -> {"idle", "lock", "dial", "install", "wait", "reset", "grab",
                           "frame", "raw", "prefixed", "hangup"}]
    /\ conn \in [Callers -> ConnIds] /\ told \in [Callers -> BOOLEAN]
    /\ runs \in 0 .. MaxRuns
    /\ rd \in [Conns -> {"none", "verify", "read", "hello", "clean", "drop", "done"}]
    /\ taken \in [Conns -> ConnIds]
    /\ watch \in [Conns -> Unanswered \cup {"true", "false", "closed"}]
    /\ sock \in [Conns -> {"none", "open", "shut", "lost"}]
    /\ toServer \in [Conns -> Seq(Sent)] /\ toClient \in [Conns -> Seq(Got)]
    /\ srv \in [Conns -> {"verify", "refused", "serve", "garbled", "closed"}]

Init ==
    /\ lock = Free
    /\ net = NoConn /\ connect_stats = NoConn /\ mode = 0 /\ runs = 0
    /\ pc = [t \in Callers |-> "idle"]
    /\ conn = [t \in Callers |-> NoConn] /\ told = [t \in Callers |-> FALSE]
    /\ rd = [c \in Conns |-> "none"] /\ taken = [c \in Conns |-> NoConn]
    /\ watch = [c \in Conns |-> "reader"]
    /\ sock = [c \in Conns |-> "none"]
    /\ toServer = [c \in Conns |-> << >>] /\ toClient = [c \in Conns |-> << >>]
    /\ srv = [c \in Conns |-> "verify"]

\* A caller goes on with connection c; told is of that connection.
Goto(t, label, c, up) ==
    /\ pc' = [pc EXCEPT ![t] = label]
    /\ conn' = [conn EXCEPT ![t] = c]
    /\ told' = [told EXCEPT ![t] = up]

Ret(t)         == Goto(t, "idle", NoConn, FALSE)
Step(c, label) == rd' = [rd EXCEPT ![c] = label]
Write(c, f)    == toServer' = [toServer EXCEPT ![c] = Append(@, f)]
Sets(c, v)     == watch' = [watch EXCEPT ![c] = v]

\* Mutant: the lock is not taken.
Unlocked_always == TRUE

Unlocked == lock = Free

is_connect == net # NoConn

\* Mutant: the peer is only dropped.
Disconnected_not(c) == [sock EXCEPT ![c] = @]

\* NetPeer::disconnect ends what the client sends; what is under way still arrives.
Disconnected(c) == [sock EXCEPT ![c] = IF @ = "open" THEN "shut" ELSE @]

-----------------------------------------------------------------------------
(* connect_network                                                         *)

ConnectNetwork(t) ==
    /\ pc[t] = "idle"
    /\ Goto(t, "lock", NoConn, FALSE)
    /\ UNCHANGED <<lock, clientVars, runs, readerVars, wireVars>>

\* A call! goes on to send its frame, connect_network on its own returns.
Connected(t, c, up) == Goto(t, "grab", c, up) \/ Goto(t, "idle", c, up)

\* There is a connection already: wait with the caller that made it ...
Join(t) ==
    /\ pc[t] = "lock" /\ Unlocked /\ is_connect
    /\ connect_stats # NoConn
    /\ Goto(t, "wait", connect_stats, FALSE)
    /\ UNCHANGED <<lock, clientVars, runs, readerVars, wireVars>>

\* ... or, when it has been waited for, take it to be up.
Assume(t) ==
    /\ pc[t] = "lock" /\ Unlocked /\ is_connect
    /\ connect_stats = NoConn
    /\ Connected(t, NoConn, FALSE)
    /\ UNCHANGED <<lock, clientVars, runs, readerVars, wireVars>>

StartDial(t) ==
    /\ pc[t] = "lock" /\ Unlocked /\ ~is_connect
    /\ lock' = t
    /\ Goto(t, "dial", NoConn, FALSE)
    /\ UNCHANGED <<clientVars, runs, readerVars, wireVars>>

\* Refused, or timed out after request_out_time_ms.
DialFails(t) ==
    /\ pc[t] = "dial"
    /\ lock' = Free
    /\ Ret(t)
    /\ UNCHANGED <<clientVars, runs, readerVars, wireVars>>

NewConn(c) == sock[c] = "none" /\ \A d \in Conns : d < c => sock[d] # "none"

\* The socket is connected and the reader spawned, before net knows of either.
DialSucceeds(t, c) ==
    /\ pc[t] = "dial"
    /\ NewConn(c)
    /\ sock' = [sock EXCEPT ![c] = "open"]
    /\ Step(c, "verify")
    /\ Goto(t, "install", c, FALSE)
    /\ UNCHANGED <<lock, clientVars, runs, taken, watch, toServer, toClient, srv>>

\* Mutant: a channel that is there is kept.
StatsOf_kept(c) == IF connect_stats = NoConn THEN c ELSE connect_stats

StatsOf(c) == c

Install(t) ==
    /\ pc[t] = "install"
    /\ net' = conn[t]
    /\ connect_stats' = StatsOf(conn[t])
    /\ lock' = Free
    /\ Goto(t, "wait", conn[t], FALSE)
    /\ UNCHANGED <<mode, runs, readerVars, wireVars>>

\* changed() returns for a value, or because the sender is gone.
Changed(t) ==
    /\ pc[t] = "wait"
    /\ watch[conn[t]] \notin Unanswered
    /\ Goto(t, "reset", conn[t], FALSE)
    /\ UNCHANGED <<lock, clientVars, runs, readerVars, wireVars>>

\* reset_connect_stats comes first, then the verdict.
Reset(t) ==
    /\ pc[t] = "reset" /\ Unlocked
    /\ connect_stats' = NoConn
    /\ \/ watch[conn[t]] = "true" /\ Connected(t, conn[t], TRUE)
       \/ watch[conn[t]] # "true" /\ Ret(t)
    /\ UNCHANGED <<lock, net, mode, runs, readerVars, wireVars>>

\* The future of a caller may be dropped at its awaits; that of close is not.
Cancel(t) ==
    /\ pc[t] \in {"lock", "dial", "wait", "reset", "grab"}
    /\ lock' = IF lock = t THEN Free ELSE lock
    /\ Ret(t)
    /\ UNCHANGED <<clientVars, runs, readerVars, wireVars>>

-----------------------------------------------------------------------------
(* call!, call, run and close                                              *)

\* call! connects unless there is a connection; it does not look at the handshake.
Call(t) ==
    /\ pc[t] = "idle"
    /\ \/ is_connect /\ Goto(t, "grab", conn[t], told[t])
       \/ ~is_connect /\ Goto(t, "lock", NoConn, FALSE)
    /\ UNCHANGED <<lock, clientVars, runs, readerVars, wireVars>>

\* Clone net under the lock, or fail with "not connect".
Grab(t) ==
    /\ pc[t] = "grab" /\ Unlocked
    /\ \/ is_connect /\ Goto(t, "frame", net, told[t] /\ conn[t] = net)
       \/ ~is_connect /\ Ret(t)
    /\ UNCHANGED <<lock, clientVars, runs, readerVars, wireVars>>

\* get_mode reads without the lock; send_all follows.
Frame(t) ==
    /\ pc[t] = "frame"
    /\ Goto(t, IF mode = 0 THEN "raw" ELSE "prefixed", conn[t], told[t])
    /\ UNCHANGED <<lock, clientVars, runs, readerVars, wireVars>>

Writable(c) == sock[c] = "open" /\ srv[c] \notin {"refused", "closed"}

Send(t) ==
    /\ pc[t] \in {"raw", "prefixed"}
    /\ runs < MaxRuns
    /\ runs' = runs + 1
    /\ \/ /\ Writable(conn[t])
          /\ Write(conn[t], [kind |-> "run", prefixed |-> pc[t] = "prefixed", told |-> told[t]])
       \/ /\ ~Writable(conn[t])
          /\ UNCHANGED toServer
    /\ Ret(t)
    /\ UNCHANGED <<lock, clientVars, readerVars, sock, toClient, srv>>

\* The Closed function runs under the lock; then net is taken.
Close(t) ==
    /\ pc[t] = "idle" /\ Unlocked
    /\ net' = NoConn
    /\ \/ is_connect /\ Goto(t, "hangup", net, FALSE)
       \/ ~is_connect /\ Ret(t)
    /\ UNCHANGED <<lock, connect_stats, mode, runs, readerVars, wireVars>>

HangUp(t) ==
    /\ pc[t] = "hangup"
    /\ sock' = Disconnected(conn[t])
    /\ Ret(t)
    /\ UNCHANGED <<lock, clientVars, runs, readerVars, toServer, toClient, srv>>

-----------------------------------------------------------------------------
(* read_buffer                                                             *)

\* Mutant: nobody is woken.
Hung_on(c) == watch[c]

\* A sender the reader still holds is dropped with it.
Hung(c) == IF watch[c] = "reader" THEN "closed" ELSE watch[c]

\* Send, or return with an error.
WriteOrEnd(c, f) ==
    \/ Writable(c) /\ Write(c, f) /\ Step(c, "read")
    \/ ~Writable(c) /\ Step(c, "clean") /\ UNCHANGED toServer

get_verify_buff == [kind |-> "verify", prefixed |-> FALSE, told |-> FALSE]

get_session_id_buff == [kind |-> "hello", prefixed |-> mode # 0, told |-> FALSE]

Verify(c) ==
    /\ rd[c] = "verify"
    /\ WriteOrEnd(c, get_verify_buff)
    /\ Sets(c, IF Writable(c) THEN watch[c] ELSE Hung(c))
    /\ UNCHANGED <<lock, clientVars, callerVars, taken, sock, toClient, srv>>

Reads(c, kind) ==
    /\ rd[c] = "read"
    /\ toClient[c] # << >>
    /\ Head(toClient[c]) = kind
    /\ toClient' = [toClient EXCEPT ![c] = Tail(@)]

\* Mutant: the byte at the end of the frame is not looked at.
ModeOf_ignored == mode

\* This server's frame ends in a byte 1.
ModeOf == 1

ReadAccept(c) ==
    /\ Reads(c, "accept") /\ Unlocked
    /\ mode' = ModeOf
    /\ Step(c, "hello")
    /\ UNCHANGED <<lock, net, connect_stats, callerVars, taken,
                   watch, sock, toServer, srv>>

\* The session id is asked for; the Connect function runs in a task of its own, with
\* the sender of the watch channel.
Hello(c) ==
    /\ rd[c] = "hello"
    /\ WriteOrEnd(c, get_session_id_buff)
    /\ Sets(c, IF Writable(c) THEN "task" ELSE Hung(c))
    /\ UNCHANGED <<lock, clientVars, callerVars, taken, sock, toClient, srv>>

\* Mutant: the value says success.
Refused_true == "true"

Refused == "false"

ReadRefuse(c) ==
    /\ Reads(c, "refuse")
    /\ Sets(c, Refused)
    /\ Step(c, "clean")
    /\ UNCHANGED <<lock, clientVars, callerVars, taken, sock, toServer, srv>>

\* The end of the stream, or an error.
ReadEnds(c) ==
    /\ rd[c] = "read"
    /\ toClient[c] = << >>
    /\ srv[c] \in {"refused", "closed"}
    /\ Step(c, "clean")
    /\ Sets(c, Hung(c))
    /\ UNCHANGED <<lock, clientVars, callerVars, taken, wireVars>>

ConnectFunction(c) ==
    /\ watch[c] = "task"
    /\ \/ Sets(c, "true") /\ UNCHANGED sock
       \/ sock' = Disconnected(c) /\ Sets(c, "failed")
    /\ UNCHANGED <<lock, clientVars, callerVars, rd, taken, toServer, toClient, srv>>

ConnectFailed(c) ==
    /\ watch[c] = "failed"
    /\ Sets(c, "false")
    /\ UNCHANGED <<lock, clientVars, callerVars, rd, taken, wireVars>>

-----------------------------------------------------------------------------
(* clean_connect, in input_buffer                                          *)

\* net.take(), whatever it holds.
Clean(c) ==
    /\ rd[c] = "clean" /\ Unlocked
    /\ net' = NoConn
    /\ taken' = [taken EXCEPT ![c] = net]
    /\ Step(c, IF is_connect THEN "drop" ELSE "done")
    /\ UNCHANGED <<lock, connect_stats, mode, callerVars, watch, wireVars>>

\* Then, 100 ms later, the Disconnect function.
Drop(c) ==
    /\ rd[c] = "drop"
    /\ sock' = Disconnected(taken[c])
    /\ taken' = [taken EXCEPT ![c] = NoConn]
    /\ Step(c, "done")
    /\ UNCHANGED <<lock, clientVars, callerVars, watch, toServer, toClient, srv>>

-----------------------------------------------------------------------------
(* The connection's task at the server: get_peer_token, data_reading.     *)

Takes(c, phase) ==
    /\ srv[c] = phase
    /\ toServer[c] # << >>
    /\ toServer' = [toServer EXCEPT ![c] = Tail(@)]

Answers(c, kind) == toClient' = [toClient EXCEPT ![c] = Append(@, kind)]

Becomes(c, phase) == srv' = [srv EXCEPT ![c] = phase]

ServerAccepts(c) ==
    /\ Takes(c, "verify")
    /\ Head(toServer[c]).kind = "verify"
    /\ Answers(c, "accept")
    /\ Becomes(c, "serve")
    /\ UNCHANGED <<lock, clientVars, callerVars, readerVars, sock>>

\* A wrong name or key, or no verify frame at all.
ServerRefuses(c) ==
    /\ srv[c] = "verify" /\ toServer[c] # << >>
    /\ toServer' = [toServer EXCEPT ![c] = << >>]
    /\ Answers(c, "refuse")
    /\ Becomes(c, "refused")
    /\ UNCHANGED <<lock, clientVars, callerVars, readerVars, sock>>

\* read_buff takes the first bytes of a frame without a length for one.
ServerReads(c) ==
    /\ Takes(c, "serve")
    /\ LET f == Head(toServer[c]) IN
          \/ ~f.prefixed /\ Becomes(c, "garbled")
          \/ f.prefixed /\ UNCHANGED srv
    /\ UNCHANGED <<lock, clientVars, callerVars, readerVars, sock, toClient>>

Closes(c) ==
    /\ toServer' = [toServer EXCEPT ![c] = << >>]
    /\ Becomes(c, IF srv[c] = "verify" THEN "refused" ELSE "closed")

\* The server has read the stream to its end, fails, or closes the connection.
ServerEnds(c) ==
    /\ sock[c] # "none" /\ srv[c] \in {"verify", "serve", "garbled"}
    /\ Closes(c)
    /\ UNCHANGED <<lock, clientVars, callerVars, readerVars, sock, toClient>>

\* The connection breaks and takes the frames under way with it.
Lose(c) ==
    /\ sock[c] \in {"open", "shut"} /\ srv[c] \in {"verify", "serve", "garbled"}
    /\ sock' = [sock EXCEPT ![c] = "lost"]
    /\ Closes(c)
    /\ toClient' = [toClient EXCEPT ![c] = << >>]
    /\ UNCHANGED <<lock, clientVars, callerVars, readerVars>>

-----------------------------------------------------------------------------
Caller(t) ==
    \/ ConnectNetwork(t) \/ Join(t) \/ Assume(t) \/ StartDial(t) \/ DialFails(t)
    \/ Install(t) \/ Changed(t) \/ Reset(t) \/ Cancel(t)
    \/ Call(t) \/ Grab(t) \/ Frame(t) \/ Send(t) \/ Close(t) \/ HangUp(t)
    \/ \E c \in Conns : DialSucceeds(t, c)

Reader(c) ==
    \/ Verify(c) \/ ReadAccept(c) \/ Hello(c) \/ ReadRefuse(c)
    \/ ReadEnds(c) \/ Clean(c) \/ Drop(c)
Task(c)   == ConnectFunction(c) \/ ConnectFailed(c)
Server(c) == ServerAccepts(c) \/ ServerRefuses(c) \/ ServerReads(c) \/ ServerEnds(c)

Next ==
    \/ \E t \in Callers : Caller(t)
    \/ \E c \in Conns : Reader(c) \/ Task(c) \/ Server(c) \/ Lose(c)

Spec == Init /\ [][Next]_vars
-----------------------------------------------------------------------------
(* Safety                                                                  *)

\* A connection in net has a reader that has yet to take it out: no dead connection
\* stays in net and keeps is_connect true for good.
NetHasReader == is_connect => rd[net] \in {"verify", "read", "hello", "clean"}

\* No connection is forgotten: one that is not closed is in net, or the task that
\* takes it into net or out of it still has it in hand.
NoneForgotten ==
    \A c \in Conns :
        sock[c] = "open" =>
            \/ net = c
            \/ \E t \in Callers : pc[t] \in {"install", "hangup"} /\ conn[t] = c
            \/ \E d \in Conns : rd[d] = "drop" /\ taken[d] = c

\* A caller that joins a handshake joins that of the connection in net, not of an
\* earlier one whose channel was left behind.
JoinsItsOwn == is_connect /\ connect_stats # NoConn => connect_stats = net

\* connect_network tells a caller that waited of a success only if the server has
\* accepted the connection.
ToldIsAccepted == \A t \in Callers : told[t] => srv[conn[t]] \notin {"verify", "refused"}

\* What a caller sends on a connection it was told of is framed as this server reads
\* it, and comes behind the whole handshake.
ToldIsUnderstood ==
    \A c \in Conns : \A i \in 1 .. Len(toServer[c]) :
        toServer[c][i].told =>
            /\ toServer[c][i].prefixed
            /\ \A j \in i .. Len(toServer[c]) : toServer[c][j].kind = "run"

\* A caller that waits for a handshake is never left behind: whoever has the sender of
\* its channel still reads, or runs the Connect function, and drops it at its end.
WaiterHasSender ==
    \A t \in Callers :
        pc[t] = "wait" /\ watch[conn[t]] = "reader" =>
            rd[conn[t]] \in {"verify", "read", "hello"}

-----------------------------------------------------------------------------
(* Promised by a comment and not kept                                      *)

\* impl_client.rs:320: "After reading, it cleans up the connection".  A reader takes
\* its own connection out of net, or none.
CleansItsOwn == \A c \in Conns : taken[c] \in {NoConn, c}
=============================================================================
